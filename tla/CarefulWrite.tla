---------------------------- MODULE CarefulWrite ----------------------------
(***************************************************************************)
(* The guarded writes when everyone keeps out of the window the adapter     *)
(* cannot close: nobody changes a setting between an operation's fresh GET  *)
(* of it and that operation's POST.  Then, and the detailed interleavings    *)
(* of GETs, POSTs and readbacks notwithstanding, the switch is the atomic   *)
(* compare-and-set store of ConfigStore.                                    *)
(***************************************************************************)
EXTENDS GuardedWrite

CarefulNext == Next /\ \A c \in Client : overtaken'[c] = {}

CarefulSpec == Init /\ [][CarefulNext]_vars

\* An operation is settled once its POST has left; until it ends it is open.
StorePhase ==
  [c \in Client |->
     IF pc[c] = "idle" THEN "idle" ELSE IF sent[c] THEN "settled" ELSE "open"]

StoreTarget ==
  [c \in Client |->
     IF sent[c] THEN [f \in GroupFields(op[c]) |-> Goal(c)[f]] ELSE Blank]

Store == INSTANCE ConfigStore
  WITH store <- dev, phase <- StorePhase, request <- op, expected <- base,
       target <- StoreTarget, owner <- writer, verdict <- result, begun <- ops

\* Every operation, four to seven requests long, acts at one instant: it is
\* refused, skipped or applied on the configuration of that instant, and what it
\* reports is true of it.
ActsAtomically == Store!StoreSpec
-----------------------------------------------------------------------------
(* Why: what the checks on the settings read rely on when the POST leaves.   *)

NobodyInTheWindow == \A c \in Client : overtaken[c] = {}

\* A POST leaves only when there is something to write.
SomethingToWrite == \A c \in Client : pc[c] = "post" => ~NoOp(op[c], before[c])

CarefulInv == Inv /\ NobodyInTheWindow /\ SomethingToWrite
=============================================================================
