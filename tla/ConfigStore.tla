---------------------------- MODULE ConfigStore ----------------------------
(***************************************************************************)
(* What the guarded writes promise when nobody changes what an operation    *)
(* has freshly read until its POST has left: the switch behaves as a store  *)
(* with an atomic compare-and-set, although it offers neither a revision    *)
(* token nor a transaction.  An operation reads what it expects, and then   *)
(* at one instant either is refused, finds nothing to do, or replaces its    *)
(* group; only later does its caller hear of it.  Which operations there are,*)
(* what they write and what they refuse is left open here.                  *)
(***************************************************************************)
EXTENDS Naturals

CONSTANTS
  Client, Boot, Editable, Unstored, MaxOps, MaxEdits,
  Field, Value,        \* settings and their values
  Group, Members(_),   \* the groups that are written as one, and their settings
  Endpoint, At(_),     \* what is read as one, and the settings it tells
  Operation,           \* what a client may ask for
  Row(_),              \* of an operation: among others, its group
  GroupFields(_),      \* the settings of that group
  WriteState(_, _), Desired(_, _), Differs(_, _, _),
  RefusedUpFront(_, _), Stale(_, _, _), Refused(_, _), NoOp(_, _)

VARIABLES
  store,     \* the configuration
  edits,     \* edits from outside so far
  phase,     \* per client: idle, open or settled (its write has been tried)
  request,   \* per client: the operation
  expected,  \* per client: the settings its caller planned from
  target,    \* per client: its group as a settled operation means it
  owner,     \* who changed each group last
  verdict,   \* per client: what the last operation reported
  begun      \* per client: operations begun

storeVars == <<store, edits, phase, request, expected, target, owner, verdict, begun>>

Nothing == [f \in Field |-> 0]

StoreInit ==
  /\ store \in Boot /\ edits = 0
  /\ phase = [c \in Client |-> "idle"]
  /\ request = [c \in Client |-> CHOOSE o \in Operation : TRUE]
  /\ expected = [c \in Client |-> Nothing]
  /\ target = [c \in Client |-> Nothing]
  /\ owner = [g \in Group |-> "outside"]
  /\ verdict = [c \in Client |-> "none"]
  /\ begun = [c \in Client |-> 0]

Ask(c, o) ==
  /\ phase[c] = "idle" /\ begun[c] < MaxOps
  /\ phase' = [phase EXCEPT ![c] = "open"]
  /\ request' = [request EXCEPT ![c] = o]
  /\ expected' = [expected EXCEPT ![c] = Nothing]
  /\ target' = [target EXCEPT ![c] = Nothing]
  /\ verdict' = [verdict EXCEPT ![c] = "none"]
  /\ begun' = [begun EXCEPT ![c] = @ + 1]
  /\ UNCHANGED <<store, edits, owner>>

\* The caller learns part of what it will expect from the store as it is.
Expect(c) ==
  /\ phase[c] = "open"
  /\ \E e \in Endpoint :
       expected' = [expected EXCEPT ![c] =
                      [f \in Field |-> IF f \in At(e) THEN store[f] ELSE @[f]]]
  /\ \/ UNCHANGED <<phase, verdict>>
     \/ /\ RefusedUpFront(request[c], expected'[c])
        /\ phase' = [phase EXCEPT ![c] = "idle"]
        /\ verdict' = [verdict EXCEPT ![c] = "refused"]
  /\ UNCHANGED <<store, edits, request, target, owner, begun>>

Answer(c, v) ==
  /\ phase' = [phase EXCEPT ![c] = "idle"]
  /\ verdict' = [verdict EXCEPT ![c] = v]
  /\ UNCHANGED <<store, edits, request, expected, target, owner, begun>>

Allowed(c) ==
  /\ ~Stale(request[c], expected[c], store)
  /\ ~RefusedUpFront(request[c], expected[c])
  /\ ~Refused(request[c], store)

\* A refusal on the store as it is, and never of a write that is allowed.
Refuse(c) == phase[c] = "open" /\ ~Allowed(c) /\ Answer(c, "refused")

Skip(c) ==
  /\ phase[c] = "open" /\ Allowed(c) /\ NoOp(request[c], store)
  /\ Answer(c, "unchanged")

\* The compare-and-set: the checks and the write look at one configuration.
Apply(c) ==
  /\ phase[c] = "open" /\ Allowed(c) /\ ~NoOp(request[c], store)
  /\ target' = [target EXCEPT ![c] =
                  [f \in GroupFields(request[c]) |-> Desired(request[c], store)[f]]]
  /\ \/ \E u \in Unstored \union {{}} :
          /\ store' = [f \in Field |-> IF f \in GroupFields(request[c]) \ u
                                       THEN target'[c][f] ELSE store[f]]
          /\ owner' = [owner EXCEPT ![Row(request[c]).group] = c]
     \/ UNCHANGED <<store, owner>>
  /\ \/ phase' = [phase EXCEPT ![c] = "settled"] /\ UNCHANGED verdict
     \/ phase' = [phase EXCEPT ![c] = "idle"] /\ verdict' = [verdict EXCEPT ![c] = "failed"]
  /\ UNCHANGED <<edits, request, expected, begun>>

\* Success is reported of a group that is as it was meant, or that another
\* client or the web UI has changed since.
Succeed(c) ==
  /\ phase[c] = "settled"
  /\ owner[Row(request[c]).group] = c =>
       ~Differs(GroupFields(request[c]), WriteState(request[c], store), target[c])
  /\ Answer(c, "changed")

Fail(c) == phase[c] # "idle" /\ \E v \in {"protocol", "failed"} : Answer(c, v)

StoreEdit(f, v) ==
  /\ edits < MaxEdits /\ v # store[f]
  /\ edits' = edits + 1
  /\ store' = [store EXCEPT ![f] = v]
  /\ owner' = [g \in Group |-> IF f \in Members(g) THEN "outside" ELSE owner[g]]
  /\ UNCHANGED <<phase, request, expected, target, verdict, begun>>

StoreNext ==
  \/ \E c \in Client :
       \/ \E o \in Operation : Ask(c, o)
       \/ Expect(c) \/ Refuse(c) \/ Skip(c) \/ Apply(c) \/ Succeed(c) \/ Fail(c)
  \/ \E f \in Editable, v \in Value : StoreEdit(f, v)

StoreSpec == StoreInit /\ [][StoreNext]_storeVars
=============================================================================
