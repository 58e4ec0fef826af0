--------------------------- MODULE MCCarefulWrite ---------------------------
(* An instance of CarefulWrite for TLC: two writers of the system object, one *)
(* of them through the bridge group, and one of the VLAN table.              *)
EXTENDS CarefulWrite, TLC

Clients == Permutations(Client)

InUse ==
  [f \in Field |->
     IF f[1] \in {"en", "an", "allp", "fp", "fp6", "ena"} THEN 1 ELSE 0]

MixedBoot == {InUse}
MixedEditable == {<<"frmc", 0>>, <<"vlan6", 0>>, <<"ena", ManagementPort>>}
MixedUnstored == {{<<"prio", 0>>}}
=============================================================================
