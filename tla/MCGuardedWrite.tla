--------------------------- MODULE MCGuardedWrite ---------------------------
(* Instances of GuardedWrite for TLC.                                       *)
EXTENDS GuardedWrite, TLC

Clients == Permutations(Client)

\* A switch in use: ports enabled, everything forwarded, port 6 allowed.
InUse ==
  [f \in Field |->
     IF f[1] \in {"en", "an", "allp", "fp", "fp6", "ena"} THEN 1 ELSE 0]

\* Spanning tree and the bridge group, links, names and the plain services: with
\* and without reserved multicast, with port 1 down or up.
PlainBoot == {InUse, [InUse EXCEPT ![<<"frmc", 0>>] = 1, ![<<"up", 1>>] = 1]}
PlainEditable ==
  {<<"frmc", 0>>, <<"ena", ManagementPort>>, <<"ident", 0>>, <<"up", 1>>,
   <<"nm", ManagementPort>>, <<"hosts", 0>>}
PlainUnstored == {{<<"prio", 0>>}}

\* Forwarding, the system object and the VLAN table, which guard port 6 by their
\* masks: with a dormant querier and a name, or with port 6 already mirrored.
GuardingBoot ==
  {[InUse EXCEPT ![<<"igmq", 0>>] = 1, ![<<"id", 0>>] = 1],
   [InUse EXCEPT ![<<"imr", ManagementPort>>] = 1]}
GuardingEditable ==
  {<<"mrto", ManagementPort>>, <<"fp6", 1>>, <<"sid", 0>>, <<"vlan6", 0>>,
   <<"allp", ManagementPort>>}
GuardingUnstored == {{<<"igmq", 0>>, <<"fp6", 1>>}}
=============================================================================
