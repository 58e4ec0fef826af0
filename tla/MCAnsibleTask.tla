---------------------------- MODULE MCAnsibleTask ----------------------------
(* Instances of AnsibleTask for TLC.                                        *)
EXTENDS AnsibleTask

InUse ==
  [f \in Field |->
     IF f[1] \in {"en", "an", "allp", "fp", "fp6", "ena"} THEN 1 ELSE 0]

\* A switch in use, one with a dormant querier and a link up, one with snooping
\* and a management source, and one whose state forbids several writes.
SomeBoot ==
  {InUse,
   [InUse EXCEPT ![<<"igmq", 0>>] = 1, ![<<"up", 1>>] = 1],
   [InUse EXCEPT ![<<"igmp", 0>>] = 1, ![<<"igmq", 0>>] = 1, ![<<"alla", 0>>] = 1],
   [InUse EXCEPT ![<<"allp", ManagementPort>>] = 0, ![<<"frmc", 0>>] = 1,
                 ![<<"imr", ManagementPort>>] = 1]}

SomeEditable == {<<"igmp", 0>>, <<"igmq", 0>>, <<"fp6", 1>>, <<"frmc", 0>>, <<"up", 1>>,
                 <<"mrto", ManagementPort>>}
SomeUnstored == {{<<"igmq", 0>>, <<"en", 1>>}}
=============================================================================
