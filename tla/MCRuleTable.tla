---------------------------- MODULE MCRuleTable ----------------------------
(* Instances of RuleTable for TLC: tables of at most three rows, to which    *)
(* the web UI may add one that is about port 6.                              *)
EXTENDS RuleTable, TLC

Clients == Permutations(Client)

Does(x) == [does |-> x]

Rules == {Does("drop"), Does("mirror"), Does("port6")}

PortSixRules == {Does("port6")}

At(h, t) == [id |-> h, to |-> t]

Boots ==
  {[acl |-> <<Does("drop"), Does("mirror")>>, host |-> <<At("h2", "p1"), At("h1", "p1")>>]}

Playbooks ==
  [acl |-> {<<Does("mirror")>>},
   host |-> {<<At("h1", "drop")>>, <<At("h1", "p1"), At("h1", "drop")>>}]
=============================================================================
