---------------------------- MODULE MCVlanTable ----------------------------
(* Instances of VlanTable for TLC: four VLANs of which the table has room    *)
(* for three, and tables out of their numerical order.                       *)
EXTENDS VlanTable, TLC

Clients == Permutations(Client)

VlanRow(v, member, six) ==
  [vid |-> v, set |-> [k \in Setting |-> IF k = "six" THEN six ELSE member]]

Boots == {<<VlanRow(2, 1, 0), VlanRow(1, 1, 1)>>, <<VlanRow(3, 1, 0), VlanRow(1, 1, 1), VlanRow(2, 0, 0)>>}

Playbooks ==
  {<<VlanRow(1, 1, 1), VlanRow(2, 1, 0)>>, <<VlanRow(4, 1, 0), VlanRow(1, 0, 0)>>}
=============================================================================
