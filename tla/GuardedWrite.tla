---------------------------- MODULE GuardedWrite ----------------------------
(***************************************************************************)
(* Several library clients write one switch.  Every write of the CSS106    *)
(* adapter is a conversation of GETs and at most one POST, and the switch   *)
(* has no revision token, so anything may happen between two requests: the  *)
(* other clients' requests, edits in the web UI, a reboot into another      *)
(* firmware, a lost request or a lost answer.                               *)
(***************************************************************************)
EXTENDS CSS106Config

CONSTANTS
  Client,      \* CLI processes, Ansible tasks and API users
  Boot,        \* the configurations the switch may start from
  Editable,    \* the settings others change without the library
  Unstored,    \* sets of settings the switch may fail to store from one POST
  MaxOps,      \* bound: operations per client
  MaxEdits     \* bound: edits from outside the library

ASSUME DeviceAssumption ==
  /\ Boot \subseteq [Field -> Value]
  /\ Editable \subseteq Field
  /\ Unstored \subseteq SUBSET Field
  /\ MaxOps \in Nat /\ MaxEdits \in Nat

ASSUME ClientAssumption == "outside" \notin Client /\ Operation # {}

VARIABLES
  dev,        \* what the switch stores and reports
  edits,      \* how many edits from outside there have been
  pc,         \* per client: idle, plan, read, post, verify
  op,         \* per client: the operation, the last one when idle
  at,         \* per client: which GET of the phase comes next
  base,       \* per client: the settings its caller planned from
  before,     \* per client: the settings this operation has read
  matches,    \* per client: no readback check has failed so far
  result,     \* per client: how the last operation ended
  ops,        \* per client: operations begun
  sent,       \* history: this operation has sent its POST
  writer,     \* history: who changed each group last
  overtaken   \* history: settings changed by another after this operation
              \* read them and before its POST

clientVars == <<pc, op, at, base, before, matches, result, ops>>
vars == <<dev, edits, clientVars, sent, writer, overtaken>>

Blank == [f \in Field |-> 0]
Phase == {"idle", "plan", "read", "post", "verify"}
Result == {"none", "changed", "unchanged", "refused", "protocol", "failed"}

Init ==
  /\ dev \in Boot
  /\ edits = 0
  /\ pc = [c \in Client |-> "idle"]
  /\ op = [c \in Client |-> CHOOSE o \in Operation : TRUE]
  /\ at = [c \in Client |-> 1]
  /\ base = [c \in Client |-> Blank]
  /\ before = [c \in Client |-> Blank]
  /\ matches = [c \in Client |-> TRUE]
  /\ result = [c \in Client |-> "none"]
  /\ ops = [c \in Client |-> 0]
  /\ sent = [c \in Client |-> FALSE]
  /\ writer = [g \in Group |-> "outside"]
  /\ overtaken = [c \in Client |-> {}]

-----------------------------------------------------------------------------
(* Building blocks.                                                         *)

\* The GETs of a phase of an operation.
GetsOf(o, phase) ==
  LET r == Row(o) IN
    [plan |-> r.plan, read |-> r.reads, post |-> r.reads, verify |-> r.rereads][phase]

Gets(c) == GetsOf(op[c], pc[c])
Asked(c) == Gets(c)[at[c]]
LastGet(c) == at[c] = Len(Gets(c))

\* The settings of s with those an answer from endpoint e carries replaced.
Received(s, e) == [f \in Field |-> IF f \in At(e) THEN dev[f] ELSE s[f]]

NoStranger(e) == FALSE   \* mutant: the identity is never rechecked

\* An answer from /sys.b shows which firmware answers.
Stranger(e) == <<"ident", 0>> \in At(e) /\ dev[<<"ident", 0>>] # 0

\* The answer asked for is none the operation can use: another firmware gives it, or
\* it does not decode.
Unusable(c) == Stranger(Asked(c)) \/ (Asked(c) = "fwd" /\ Undecodable(op[c], dev))

\* The settings whose answers this operation holds and will write from.
Held(c) ==
  IF pc[c] \in {"read", "post"}
  THEN UNION {At(Row(op[c]).reads[i]) : i \in 1..(at[c] - 1)}
  ELSE {}

Goal(c) == Desired(op[c], before[c])

\* Mutant: only the last GET of the readback counts.
ReadsBackLast(c) ==
  ~Differs(GroupFields(op[c]) \intersect At(Asked(c)), WriteState(op[c], dev), Goal(c))

\* Mutant: the readback looks at the named settings only.
ReadsBackNamed(c) ==
  matches[c] /\ ~Differs(DOMAIN op[c].to \intersect At(Asked(c)),
                         WriteState(op[c], dev), Goal(c))

\* What is read back is what was meant, in this GET and in those before it.
ReadsBack(c) ==
  matches[c] /\ ~Differs(GroupFields(op[c]) \intersect At(Asked(c)),
                         WriteState(op[c], dev), Goal(c))

RejectedByGuards(c, s) == Refused(op[c], s)   \* mutant: no baseline comparison

\* The fresh read s contradicts the caller's baseline or a guard.
Rejected(c, s) == Stale(op[c], base[c], s) \/ Refused(op[c], s)

\* Mutant: the cursor runs on into the next phase.
EnterRunningOn(c, phase) ==
  /\ pc' = [pc EXCEPT ![c] = phase]
  /\ at' = [at EXCEPT ![c] = @ + 1]

Enter(c, phase) ==
  /\ pc' = [pc EXCEPT ![c] = phase]
  /\ at' = [at EXCEPT ![c] = 1]

End(c, r) ==
  /\ pc' = [pc EXCEPT ![c] = "idle"]
  /\ at' = [at EXCEPT ![c] = 1]
  /\ result' = [result EXCEPT ![c] = r]

\* Every other client that holds a setting of F is overtaken on it.
Overtake(F, c) ==
  overtaken' = [d \in Client |-> IF d = c THEN {} ELSE overtaken[d] \union (F \intersect Held(d))]

-----------------------------------------------------------------------------
(* A client's operation.                                                    *)

\* The caller starts a write; with a baseline, by reading what it plans from.
Begin(c, o) ==
  /\ pc[c] = "idle" /\ ops[c] < MaxOps
  /\ Enter(c, IF Row(o).plan = <<>> THEN "read" ELSE "plan")
  /\ op' = [op EXCEPT ![c] = o]
  /\ base' = [base EXCEPT ![c] = Blank]
  /\ before' = [before EXCEPT ![c] = Blank]
  /\ matches' = [matches EXCEPT ![c] = TRUE]
  /\ result' = [result EXCEPT ![c] = "none"]
  /\ ops' = [ops EXCEPT ![c] = @ + 1]
  /\ sent' = [sent EXCEPT ![c] = FALSE]
  /\ overtaken' = [overtaken EXCEPT ![c] = {}]
  /\ UNCHANGED <<dev, edits, writer>>

Plan(c) ==
  /\ pc[c] = "plan" /\ ~Unusable(c)
  /\ base' = [base EXCEPT ![c] = Received(@, Asked(c))]
  /\ \/ /\ ~LastGet(c)
        /\ at' = [at EXCEPT ![c] = @ + 1]
        /\ UNCHANGED <<pc, result>>
     \/ /\ LastGet(c) /\ RefusedUpFront(op[c], base'[c])
        /\ End(c, "refused")
     \/ /\ LastGet(c) /\ ~RefusedUpFront(op[c], base'[c])
        /\ Enter(c, "read")
        /\ UNCHANGED result
  /\ UNCHANGED <<dev, edits, op, before, matches, ops, sent, writer, overtaken>>

\* One fresh GET; the last one decides between refusing, skipping and posting.
Read(c) ==
  /\ pc[c] = "read" /\ ~Unusable(c)
  /\ before' = [before EXCEPT ![c] = Received(@, Asked(c))]
  /\ \/ /\ ~LastGet(c)
        /\ at' = [at EXCEPT ![c] = @ + 1]
        /\ UNCHANGED <<pc, result>>
     \/ /\ LastGet(c) /\ Rejected(c, before'[c])
        /\ End(c, "refused")
     \/ /\ LastGet(c) /\ ~Rejected(c, before'[c]) /\ NoOp(op[c], before'[c])
        /\ End(c, "unchanged")
     \/ /\ LastGet(c) /\ ~Rejected(c, before'[c]) /\ ~NoOp(op[c], before'[c])
        /\ pc' = [pc EXCEPT ![c] = "post"]
        /\ at' = [at EXCEPT ![c] = @ + 1]
        /\ UNCHANGED result
  /\ UNCHANGED <<dev, edits, op, base, matches, ops, sent, writer, overtaken>>

\* The complete group is posted; the switch may fail to store some of it, and
\* the answer may be lost.
Post(c, unstored, answered) ==
  /\ pc[c] = "post"
  /\ dev' = [f \in Field |->
               IF f \in GroupFields(op[c]) \ unstored THEN Goal(c)[f] ELSE dev[f]]
  /\ writer' = [writer EXCEPT ![Row(op[c]).group] = c]
  /\ sent' = [sent EXCEPT ![c] = TRUE]
  /\ Overtake({f \in Field : dev'[f] # dev[f]}, c)
  /\ IF answered THEN Enter(c, "verify") /\ UNCHANGED result ELSE End(c, "failed")
  /\ UNCHANGED <<edits, op, base, before, matches, ops>>

\* The readback: the identity where the handler rechecks it, and the group.
Verify(c) ==
  /\ pc[c] = "verify" /\ ~Unusable(c)
  /\ matches' = [matches EXCEPT ![c] = ReadsBack(c)]
  /\ IF LastGet(c)
     THEN End(c, IF ReadsBack(c) THEN "changed" ELSE "protocol")
     ELSE at' = [at EXCEPT ![c] = @ + 1] /\ UNCHANGED <<pc, result>>
  /\ UNCHANGED <<dev, edits, op, base, before, ops, sent, writer, overtaken>>

\* An answer from another firmware, or one that does not decode, ends the operation
\* in any phase.
RejectAnswer(c) ==
  /\ pc[c] \in {"plan", "read", "verify"} /\ Unusable(c)
  /\ End(c, "protocol")
  /\ UNCHANGED <<dev, edits, op, base, before, matches, ops, sent, writer, overtaken>>

\* Mutant: a failure after the POST is reported as a refusal.
RequestRefused(c) ==
  /\ pc[c] # "idle"
  /\ End(c, "refused")
  /\ sent' = [sent EXCEPT ![c] = @ \/ pc[c] = "post"]
  /\ UNCHANGED <<dev, edits, op, base, before, matches, ops, writer, overtaken>>

\* A GET that times out or is refused, or a POST that never arrives.
RequestFails(c) ==
  /\ pc[c] # "idle"
  /\ End(c, "failed")
  /\ sent' = [sent EXCEPT ![c] = @ \/ pc[c] = "post"]
  /\ UNCHANGED <<dev, edits, op, base, before, matches, ops, writer, overtaken>>

-----------------------------------------------------------------------------
(* Everyone else.                                                           *)

\* The web UI, another program, a link going up or down, a firmware change.
Edit(f, v) ==
  /\ edits < MaxEdits /\ v # dev[f]
  /\ edits' = edits + 1
  /\ dev' = [dev EXCEPT ![f] = v]
  /\ writer' = [g \in Group |-> IF f \in Members(g) THEN "outside" ELSE writer[g]]
  /\ overtaken' = [d \in Client |-> overtaken[d] \union ({f} \intersect Held(d))]
  /\ UNCHANGED <<clientVars, sent>>

Step(c) ==
  \/ \E o \in Operation : Begin(c, o)
  \/ Plan(c) \/ Read(c) \/ Verify(c)
  \/ \E u \in Unstored \union {{}}, a \in BOOLEAN : Post(c, u, a)
  \/ RejectAnswer(c) \/ RequestFails(c)

Next ==
  \/ \E c \in Client : Step(c)
  \/ \E f \in Editable, v \in Value : Edit(f, v)

Spec == Init /\ [][Next]_vars
-----------------------------------------------------------------------------
(* Properties.                                                              *)

\* The cursor: a phase never asks for a GET beyond its last one, and a POST
\* leaves only when every GET of the handler has been answered.
CursorOK(c) ==
  /\ pc[c] \in {"plan", "read", "verify"} => at[c] <= Len(Gets(c))
  /\ pc[c] = "post" => at[c] = Len(Gets(c)) + 1

\* Every variable has its type, and every client's cursor is in its phase.
TypeOK ==
  /\ dev \in [Field -> Value]
  /\ edits \in Nat
  /\ pc \in [Client -> Phase]
  /\ op \in [Client -> Operation]
  /\ at \in [Client -> Nat \ {0}]
  /\ \A c \in Client : CursorOK(c)
  /\ base \in [Client -> [Field -> Value]]
  /\ before \in [Client -> [Field -> Value]]
  /\ matches \in [Client -> BOOLEAN]
  /\ result \in [Client -> Result]
  /\ ops \in [Client -> Nat]
  /\ sent \in [Client -> BOOLEAN]
  /\ writer \in [Group -> Client \union {"outside"}]
  /\ overtaken \in [Client -> SUBSET Field]

\* A success report is about the whole group: while nobody else has written the
\* group since, the switch stores exactly what the operation meant it to.
LastWriterStands ==
  \A c \in Client :
    result[c] = "changed" /\ writer[Row(op[c]).group] = c =>
      ~Differs(GroupFields(op[c]), WriteState(op[c], dev), Goal(c))

\* A refusal and a no-op report mean that nothing was sent; a success report,
\* that this operation itself sent its POST.
HonestReports ==
  \A c \in Client :
    /\ result[c] \in {"refused", "unchanged"} => ~sent[c]
    /\ result[c] = "changed" => sent[c]

Sends(c) == ~sent[c] /\ sent'[c]

\* A POST changes no setting outside its group, and none inside it that its
\* update does not name unless somebody changed that setting between the
\* operation's own fresh read and its POST: nothing older is ever reverted.
RevertsOnlyInWindow ==
  [][\A c \in Client : Sends(c) =>
       \A f \in Field : dev'[f] # dev[f] =>
         f \in GroupFields(op[c]) /\ (f \in Named(op[c]) \/ f \in overtaken[c])]_vars

\* Every check an operation makes still holds of the switch itself when its
\* POST leaves, unless it was overtaken: the firmware is the probed one, the
\* caller's baseline is current, no guard forbids the write.
JustifiedPost ==
  [][\A c \in Client : Sends(c) /\ overtaken[c] = {} =>
       /\ dev[<<"ident", 0>>] = 0
       /\ ~Stale(op[c], base[c], dev)
       /\ ~Refused(op[c], dev)]_vars

\* No write disables, or renegotiates, a port whose link is up when the POST leaves,
\* whichever port it names: at worst it restores, unseen, what somebody changed
\* since its fresh read, or the link has come up since then.
ActiveLinksKept ==
  [][\A c \in Client : Sends(c) =>
       \A p \in Port : \A f \in {"en", "an", "spdc"} \X {p} :
         dev[<<"up", p>>] = 1 /\ dev'[f] # dev[f] =>
           \/ f[1] = "en" /\ dev'[f] # 0
           \/ {f, <<"up", p>>} \intersect overtaken[c] # {}]_vars

\* No write moves the management path through port 6: at worst it restores,
\* unseen, what somebody changed between its fresh read and its POST.
ManagementPathKept ==
  [][\A c \in Client : Sends(c) =>
       \A f \in Protected : dev'[f] # dev[f] => f \in overtaken[c]]_vars

-----------------------------------------------------------------------------
(* Why they hold: an invariant that every step preserves.                   *)

\* What an operation holds is what the switch stores, unless it was overtaken.
Holding ==
  \A c \in Client : \A f \in Held(c) : before[c][f] = dev[f] \/ f \in overtaken[c]

\* Each phase starts only when the checks of the one before it have passed.
Checked ==
  \A c \in Client :
    /\ pc[c] \in {"read", "post"} => ~RefusedUpFront(op[c], base[c])
    /\ pc[c] \in {"read", "post"} /\ at[c] > 1 => before[c][<<"ident", 0>>] = 0
    /\ pc[c] = "post" => ~Stale(op[c], base[c], before[c]) /\ ~Refused(op[c], before[c])

\* A result is reported once, at the end, and tells whether a POST was sent.
Reporting ==
  \A c \in Client :
    /\ pc[c] # "idle" => result[c] = "none"
    /\ pc[c] \in {"plan", "read", "post"} => ~sent[c]
    /\ pc[c] = "verify" => sent[c]

\* The settings a readback, finished or under way, has found as they were meant.
Confirmed(c) ==
  IF pc[c] = "verify" /\ matches[c]
  THEN UNION {At(Row(op[c]).rereads[i]) : i \in 1..(at[c] - 1)}
  ELSE IF result[c] = "changed" THEN Field ELSE {}

\* They stay as they were meant while this operation's write is the group's last.
ReadbackStands ==
  \A c \in Client :
    writer[Row(op[c]).group] = c =>
      ~Differs(GroupFields(op[c]) \intersect Confirmed(c), WriteState(op[c], dev), Goal(c))

\* The inductive invariant: every conjunct needs some of the others to survive
\* a step, and together they imply every property above.
Inv ==
  /\ TypeOK /\ HonestReports
  /\ Holding /\ Checked /\ Reporting /\ ReadbackStands
=============================================================================
