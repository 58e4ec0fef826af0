------------------------- MODULE GuardedWriteProofs -------------------------
(***************************************************************************)
(* The safety properties of GuardedWrite, for any number of clients, any    *)
(* bounds, any set of handlers, ports and values: first the types, then the *)
(* rest from one inductive invariant.  At the end, CarefulWrite implements  *)
(* ConfigStore: each step of the detailed conversations is a step of the    *)
(* atomic store or changes nothing there.                                   *)
(***************************************************************************)
EXTENDS CarefulWrite, CSS106ConfigProofs

\* The variables start with their types.
LEMMA InitTypeOK == Init => TypeOK
<1> SUFFICES ASSUME Init PROVE TypeOK
  OBVIOUS
<1>1. (CHOOSE o \in Operation : TRUE) \in Operation
  BY ClientAssumption
<1>2. dev \in [Field -> Value] /\ Blank \in [Field -> Value]
  BY DeviceAssumption, ValueAssumption DEF Init, Blank
<1> QED BY <1>1, <1>2 DEF Init, TypeOK, CursorOK, Phase, Result

\* A GET keeps what a caller knows of the switch a configuration.
LEMMA ReceivedType ==
  ASSUME NEW s \in [Field -> Value], NEW e, dev \in [Field -> Value]
  PROVE  Received(s, e) \in [Field -> Value]
BY DEF Received

\* The GETs that a handler makes in each phase.
LEMMA GetsOfPhase ==
  ASSUME NEW o
  PROVE  /\ GetsOf(o, "plan") = Row(o).plan
         /\ GetsOf(o, "read") = Row(o).reads
         /\ GetsOf(o, "post") = Row(o).reads
         /\ GetsOf(o, "verify") = Row(o).rereads
BY DEF GetsOf

\* The cursor over the GETs stays a positive number.
LEMMA CursorMoves ==
  ASSUME at \in [Client -> Nat \ {0}], NEW c \in Client
  PROVE  /\ [at EXCEPT ![c] = 1] \in [Client -> Nat \ {0}]
         /\ [at EXCEPT ![c] = @ + 1] \in [Client -> Nat \ {0}]
<1>1. at[c] + 1 \in Nat \ {0} /\ 1 \in Nat \ {0}
  OBVIOUS
<1> QED BY <1>1

\* A phase that is entered has a first GET.
LEMMA PhaseLengths ==
  ASSUME NEW o \in Operation
  PROVE  /\ Len(Row(o).reads) \in Nat /\ 1 <= Len(Row(o).reads)
         /\ Len(Row(o).rereads) \in Nat /\ 1 <= Len(Row(o).rereads)
         /\ Row(o).plan # <<>> => Len(Row(o).plan) \in Nat /\ 1 <= Len(Row(o).plan)
<1>1. /\ Len(Row(o).reads) \in 1..2 /\ Len(Row(o).rereads) \in 1..2
      /\ Row(o).plan # <<>> => Len(Row(o).plan) \in 1..2
  BY OperationsAreWellFormed DEF SoundRow
<1>2. \A n \in 1..2 : n \in Nat /\ 1 <= n
  OBVIOUS
<1> QED BY <1>1, <1>2

\* The types alone, without the cursors.
Typed ==
  /\ dev \in [Field -> Value]
  /\ edits \in Nat
  /\ pc \in [Client -> Phase]
  /\ op \in [Client -> Operation]
  /\ at \in [Client -> Nat \ {0}]
  /\ base \in [Client -> [Field -> Value]]
  /\ before \in [Client -> [Field -> Value]]
  /\ matches \in [Client -> BOOLEAN]
  /\ result \in [Client -> Result]
  /\ ops \in [Client -> Nat]
  /\ sent \in [Client -> BOOLEAN]
  /\ writer \in [Group -> Client \union {"outside"}]
  /\ overtaken \in [Client -> SUBSET Field]

\* Every step keeps the types.
LEMMA TypedStep == Typed /\ [Next]_vars => Typed'
<1> SUFFICES ASSUME Typed, [Next]_vars PROVE Typed'
  OBVIOUS
<1> USE DEF Typed, Phase, Result
<1>1. ASSUME NEW c \in Client, NEW o \in Operation, Begin(c, o)
      PROVE  Typed'
  <2>1. Blank \in [Field -> Value]
    BY ValueAssumption DEF Blank
  <2> QED BY <1>1, <2>1 DEF Begin, Enter
<1>2. ASSUME NEW c \in Client, Plan(c)
      PROVE  Typed'
  <2>1. Received(base[c], Asked(c)) \in [Field -> Value]
    BY ReceivedType
  <2>2. base' \in [Client -> [Field -> Value]]
    BY <1>2, <2>1 DEF Plan
  <2>3. at' \in [Client -> Nat \ {0}]
    <3>1. at' = [at EXCEPT ![c] = @ + 1] \/ at' = [at EXCEPT ![c] = 1]
      BY <1>2 DEF Plan, End, Enter
    <3> QED BY <3>1, CursorMoves
  <2>9. pc' \in [Client -> Phase] /\ result' \in [Client -> Result]
    BY <1>2 DEF Plan, End, Enter
  <2> QED BY <1>2, <2>2, <2>3, <2>9 DEF Plan
<1>3. ASSUME NEW c \in Client, Read(c)
      PROVE  Typed'
  <2>1. Received(before[c], Asked(c)) \in [Field -> Value]
    BY ReceivedType
  <2>2. before' \in [Client -> [Field -> Value]]
    BY <1>3, <2>1 DEF Read
  <2>3. at' \in [Client -> Nat \ {0}]
    <3>1. at' = [at EXCEPT ![c] = @ + 1] \/ at' = [at EXCEPT ![c] = 1]
      BY <1>3 DEF Read, End
    <3> QED BY <3>1, CursorMoves
  <2>9. pc' \in [Client -> Phase] /\ result' \in [Client -> Result]
    BY <1>3 DEF Read, End
  <2> QED BY <1>3, <2>2, <2>3, <2>9 DEF Read
<1>4. ASSUME NEW c \in Client, NEW u, NEW a \in BOOLEAN, Post(c, u, a)
      PROVE  Typed'
  <2>1. Row(op[c]).group \in Group /\ Goal(c) \in [Field -> Value]
    BY OperationsAreWellFormed, DesiredFacts DEF Goal, SoundRow
  <2>2. dev' \in [Field -> Value]
    BY <1>4, <2>1 DEF Post
  <2>3. writer' \in [Group -> Client \union {"outside"}]
    BY <1>4, <2>1 DEF Post
  <2>4. overtaken' \in [Client -> SUBSET Field]
    BY <1>4 DEF Post, Overtake
  <2>5. at' \in [Client -> Nat \ {0}]
    <3>1. at' = [at EXCEPT ![c] = 1]
      BY <1>4 DEF Post, End, Enter
    <3> QED BY <3>1, CursorMoves
  <2>9. pc' \in [Client -> Phase] /\ result' \in [Client -> Result]
    BY <1>4 DEF Post, End, Enter
  <2> QED BY <1>4, <2>2, <2>3, <2>4, <2>5, <2>9 DEF Post
<1>5. ASSUME NEW c \in Client, Verify(c)
      PROVE  Typed'
  <2>1. matches' \in [Client -> BOOLEAN]
    BY <1>5 DEF Verify, ReadsBack, Differs
  <2>2. at' \in [Client -> Nat \ {0}]
    <3>1. at' = [at EXCEPT ![c] = @ + 1] \/ at' = [at EXCEPT ![c] = 1]
      BY <1>5 DEF Verify, End
    <3> QED BY <3>1, CursorMoves
  <2>9. pc' \in [Client -> Phase] /\ result' \in [Client -> Result]
    BY <1>5 DEF Verify, End
  <2> QED BY <1>5, <2>1, <2>2, <2>9 DEF Verify
<1>6. ASSUME NEW c \in Client, RejectAnswer(c)
      PROVE  Typed'
  BY <1>6 DEF RejectAnswer, End
<1>7. ASSUME NEW c \in Client, RequestFails(c)
      PROVE  Typed'
  BY <1>7 DEF RequestFails, End
<1>8. ASSUME NEW f \in Editable, NEW v \in Value, Edit(f, v)
      PROVE  Typed'
  BY <1>8, DeviceAssumption DEF Edit, clientVars, Held
<1>9. CASE UNCHANGED vars
  BY <1>9 DEF vars, clientVars
<1> QED BY <1>1, <1>2, <1>3, <1>4, <1>5, <1>6, <1>7, <1>8, <1>9 DEF Next, Step

\* A step of one client leaves what the others know and do alone.
LEMMA OthersStay ==
  ASSUME Typed, NEW c \in Client, Step(c), NEW d \in Client \ {c}
  PROVE  /\ pc'[d] = pc[d] /\ op'[d] = op[d] /\ at'[d] = at[d]
         /\ base'[d] = base[d] /\ before'[d] = before[d] /\ matches'[d] = matches[d]
         /\ result'[d] = result[d] /\ sent'[d] = sent[d]
<1> USE DEF Typed
<1>1. CASE \E o \in Operation : Begin(c, o)
  BY <1>1 DEF Begin, Enter
<1>2. CASE Plan(c)
  BY <1>2 DEF Plan, End, Enter
<1>3. CASE Read(c)
  BY <1>3 DEF Read, End
<1>4. CASE \E u, a : Post(c, u, a)
  BY <1>4 DEF Post, End, Enter
<1>5. CASE Verify(c)
  BY <1>5 DEF Verify, End
<1>6. CASE RejectAnswer(c) \/ RequestFails(c)
  BY <1>6 DEF RejectAnswer, RequestFails, End
<1> QED BY <1>1, <1>2, <1>3, <1>4, <1>5, <1>6 DEF Step

\* The cursor of a client is moved by its own steps alone, and stays in its phase.
LEMMA CursorStep ==
  ASSUME TypeOK, Typed, [Next]_vars, NEW d \in Client
  PROVE  CursorOK(d)'
<1> USE DEF TypeOK
<1>1. CASE pc'[d] = pc[d] /\ at'[d] = at[d] /\ op'[d] = op[d]
  BY <1>1 DEF CursorOK, Gets
<1>2. CASE pc'[d] = "idle"
  BY <1>2 DEF CursorOK
<1>3. ASSUME NEW o \in Operation, Begin(d, o)
      PROVE  CursorOK(d)'
  <2>1. SoundRow(Row(o)) /\ op'[d] = o /\ at'[d] = 1
    BY <1>3, OperationsAreWellFormed DEF Begin, Enter
  <2>2. pc'[d] = IF Row(o).plan = <<>> THEN "read" ELSE "plan"
    BY <1>3 DEF Begin, Enter
  <2> QED BY <2>1, <2>2, GetsOfPhase DEF CursorOK, Gets, SoundRow
<1>4. ASSUME Plan(d), pc'[d] # "idle"
      PROVE  CursorOK(d)'
  <2>1. SoundRow(Row(op[d])) /\ op'[d] = op[d] /\ pc[d] = "plan"
    BY <1>4, OperationsAreWellFormed DEF Plan
  <2>2. \/ pc'[d] = "plan" /\ at[d] # Len(Gets(d)) /\ at'[d] = at[d] + 1
        \/ pc'[d] = "read" /\ at'[d] = 1
    BY <1>4, <2>1 DEF Plan, LastGet, End, Enter, Phase
  <2> QED BY <2>1, <2>2, GetsOfPhase DEF CursorOK, Gets, SoundRow
<1>5. ASSUME Read(d), pc'[d] # "idle"
      PROVE  CursorOK(d)'
  <2>1. SoundRow(Row(op[d])) /\ op'[d] = op[d] /\ pc[d] = "read"
    BY <1>5, OperationsAreWellFormed DEF Read
  <2>2. at'[d] = at[d] + 1
    BY <1>5, <2>1 DEF Read, End, Phase
  <2>3. \/ pc'[d] = "read" /\ at[d] # Len(Gets(d))
        \/ pc'[d] = "post" /\ at[d] = Len(Gets(d))
    BY <1>5, <2>1 DEF Read, LastGet, End, Phase
  <2>4. Gets(d) = Row(op[d]).reads /\ at[d] <= Len(Gets(d)) /\ at[d] \in Nat
    BY <2>1, GetsOfPhase DEF CursorOK, Gets
  <2>5. Gets(d)' = Row(op[d]).reads
    BY <2>1, <2>3, GetsOfPhase DEF Gets
  <2>6. Len(Row(op[d]).reads) \in Nat
    BY <2>1 DEF SoundRow
  <2>7. Len(Gets(d)') = Len(Row(op[d]).reads) /\ Len(Gets(d)) = Len(Row(op[d]).reads)
    BY <2>4, <2>5
  <2>8. CASE pc'[d] = "read"
    BY <2>2, <2>3, <2>4, <2>6, <2>7, <2>8 DEF CursorOK
  <2>9. CASE pc'[d] = "post"
    BY <2>2, <2>3, <2>4, <2>6, <2>7, <2>9 DEF CursorOK
  <2> QED BY <2>3, <2>8, <2>9
<1>6. ASSUME NEW u, NEW a \in BOOLEAN, Post(d, u, a), pc'[d] # "idle"
      PROVE  CursorOK(d)'
  <2>1. op'[d] = op[d] /\ pc'[d] = "verify" /\ at'[d] = 1
    BY <1>6 DEF Post, End, Enter
  <2>2. Gets(d)' = Row(op[d]).rereads
    BY <2>1, GetsOfPhase DEF Gets
  <2>3. at'[d] <= Len(Gets(d)')
    BY <2>1, <2>2, PhaseLengths
  <2> QED BY <2>1, <2>3 DEF CursorOK
<1>7. ASSUME Verify(d), pc'[d] # "idle"
      PROVE  CursorOK(d)'
  <2>1. SoundRow(Row(op[d])) /\ op'[d] = op[d] /\ pc[d] = "verify"
    BY <1>7, OperationsAreWellFormed DEF Verify
  <2>2. pc'[d] = "verify" /\ at[d] # Len(Gets(d)) /\ at'[d] = at[d] + 1
    BY <1>7, <2>1 DEF Verify, LastGet, End
  <2> QED BY <2>1, <2>2, GetsOfPhase DEF CursorOK, Gets, SoundRow
<1>8. CASE RejectAnswer(d) \/ RequestFails(d)
  BY <1>2, <1>8 DEF RejectAnswer, RequestFails, End
<1>9. ASSUME NEW c \in Client \ {d}, Step(c)
      PROVE  CursorOK(d)'
  <2>1. pc'[d] = pc[d] /\ at'[d] = at[d] /\ op'[d] = op[d]
    BY <1>9, OthersStay
  <2> QED BY <1>1, <2>1
<1>10. CASE UNCHANGED <<pc, at, op>>
  BY <1>1, <1>10
<1>11. CASE Step(d)
  BY <1>2, <1>3, <1>4, <1>5, <1>6, <1>7, <1>8, <1>11 DEF Step
<1>12. CASE \E f \in Editable, v \in Value : Edit(f, v)
  BY <1>10, <1>12 DEF Edit, clientVars
<1>13. CASE UNCHANGED vars
  BY <1>10, <1>13 DEF vars, clientVars
<1> QED BY <1>9, <1>11, <1>12, <1>13 DEF Next

\* Every variable keeps its type and no phase runs past its last GET.
THEOREM TypeCorrect == Spec => []TypeOK
<1>1. TypeOK /\ [Next]_vars => TypeOK'
  BY TypedStep, CursorStep DEF Typed, TypeOK
<1> QED BY <1>1, InitTypeOK, PTL DEF Spec

-----------------------------------------------------------------------------
(* The invariant.                                                           *)

\* Nothing has been read, checked or reported at the start.
LEMMA InitInv == Init => Inv
<1> SUFFICES ASSUME Init PROVE Inv
  OBVIOUS
<1>1. TypeOK
  BY InitTypeOK
<1>2. \A c \in Client : Held(c) = {} /\ Confirmed(c) = {}
  BY DEF Init, Held, Confirmed
<1>3. HonestReports /\ Checked /\ Reporting
  BY DEF Init, HonestReports, Checked, Reporting
<1> QED BY <1>1, <1>2, <1>3 DEF Inv, Holding, ReadbackStands, Differs

\* The invariant includes the types.
LEMMA TypedFromInv == Inv => TypeOK /\ Typed
BY DEF Inv, TypeOK, Typed

-----------------------------------------------------------------------------
(* What a client's own step does to its phase.                              *)

\* A step that is neither a fresh GET nor a POST leaves nothing held.
LEMMA OnlyReadsHold ==
  ASSUME Typed, NEW d \in Client, Step(d), ~Read(d)
  PROVE  Held(d)' = {}
<1> USE DEF Typed
<1>1. CASE pc'[d] \notin {"read", "post"}
  BY <1>1 DEF Held
<1>2. CASE at'[d] = 1
  BY <1>2 DEF Held
<1>3. CASE \E o \in Operation : Begin(d, o)
  BY <1>2, <1>3 DEF Begin, Enter
<1>4. CASE Plan(d)
  BY <1>1, <1>2, <1>4 DEF Plan, End, Enter
<1>5. CASE \E u, a : Post(d, u, a)
  BY <1>2, <1>5 DEF Post, End, Enter
<1>6. CASE Verify(d)
  BY <1>1, <1>6 DEF Verify, End
<1>7. CASE RejectAnswer(d) \/ RequestFails(d)
  BY <1>2, <1>7 DEF RejectAnswer, RequestFails, End
<1> QED BY <1>3, <1>4, <1>5, <1>6, <1>7 DEF Step

\* Whoever else moves, a setting read is current or known to be overtaken.
LEMMA HoldingStep ==
  ASSUME Inv, [Next]_vars, NEW d \in Client, NEW f \in Held(d)'
  PROVE  before'[d][f] = dev'[f] \/ f \in overtaken'[d]
<1> USE TypedFromInv
<1>0. \A h \in Held(d) : before[d][h] = dev[h] \/ h \in overtaken[d]
  BY DEF Inv, Holding
<1>1. CASE Step(d)
  <2>1. Read(d)
    BY <1>1, OnlyReadsHold
  <2>2. pc[d] = "read" /\ pc'[d] \in {"read", "post"} /\ at'[d] = at[d] + 1
    BY <2>1, f \in Held(d)' DEF Read, Held, End, Typed
  <2>3. op'[d] = op[d] /\ dev' = dev /\ overtaken' = overtaken
    BY <2>1 DEF Read
  <2>4. before'[d] = Received(before[d], Asked(d))
    BY <2>1 DEF Read, Typed
  <2>5. Asked(d) = Row(op[d]).reads[at[d]]
    BY <2>2, GetsOfPhase DEF Asked, Gets
  <2>6. f \in Held(d) \/ f \in At(Asked(d))
    <3>1. at[d] \in Nat
      BY DEF Typed
    <3>2. \E i \in 1..at[d] : f \in At(Row(op[d]).reads[i])
      BY <2>2, <2>3, <3>1 DEF Held
    <3>3. \A i \in 1..at[d] : i = at[d] \/ i \in 1..(at[d] - 1)
      BY <3>1
    <3> QED BY <2>2, <2>5, <3>2, <3>3 DEF Held
  <2>7. f \in Field
    BY <2>6 DEF Held, At
  <2>8. before'[d][f] = IF f \in At(Asked(d)) THEN dev[f] ELSE before[d][f]
    BY <2>4, <2>7 DEF Received
  <2> QED BY <1>0, <2>3, <2>6, <2>8
<1>2. ASSUME NEW c \in Client \ {d}, Step(c)
      PROVE  before'[d][f] = dev'[f] \/ f \in overtaken'[d]
  <2>1. before'[d] = before[d] /\ f \in Held(d)
    BY <1>2, OthersStay DEF Held
  <2>2. f \in Field
    BY <2>1 DEF Held, At
  <2>3. overtaken[d] \subseteq overtaken'[d] /\ (dev'[f] # dev[f] => f \in overtaken'[d])
    <3>1. CASE dev' = dev /\ overtaken' = overtaken
      BY <3>1
    <3>2. CASE \E o \in Operation : Begin(c, o)
      BY <3>2 DEF Begin, Typed
    <3>3. CASE \E u, a : Post(c, u, a)
      BY <2>1, <2>2, <3>3 DEF Post, Overtake
    <3> QED BY <1>2, <3>1, <3>2, <3>3 DEF Step, Plan, Read, Verify, RejectAnswer, RequestFails
  <2> QED BY <1>0, <2>1, <2>3
<1>3. ASSUME NEW g \in Editable, NEW v \in Value, Edit(g, v)
      PROVE  before'[d][f] = dev'[f] \/ f \in overtaken'[d]
  <2>1. before'[d] = before[d] /\ f \in Held(d)
    BY <1>3 DEF Edit, clientVars, Held
  <2>2. overtaken'[d] = overtaken[d] \union ({g} \intersect Held(d))
    BY <1>3 DEF Edit
  <2>3. f # g => dev'[f] = dev[f]
    BY <1>3, <2>1 DEF Edit, Held, At, Typed
  <2> QED BY <1>0, <2>1, <2>2, <2>3
<1>4. CASE UNCHANGED vars
  BY <1>0, <1>4 DEF vars, clientVars, Held
<1> QED BY <1>1, <1>2, <1>3, <1>4 DEF Next

-----------------------------------------------------------------------------
(* The checks.                                                              *)

\* A handler that takes no baseline refuses nothing before its fresh read.
LEMMA UnplannedIsFree ==
  ASSUME NEW o \in Operation, NEW b, Row(o).plan = <<>>
  PROVE  ~RefusedUpFront(o, b)
BY DEF Row, HandlerTable, RefusedUpFront, MovesManagementMembership,
       SetSystemConfiguration, ReplaceVlans

\* The conjunct of Checked for one client.
CheckedAt(c) ==
  /\ pc[c] \in {"read", "post"} => ~RefusedUpFront(op[c], base[c])
  /\ pc[c] \in {"read", "post"} /\ at[c] > 1 => before[c][<<"ident", 0>>] = 0
  /\ pc[c] = "post" => ~Stale(op[c], base[c], before[c]) /\ ~Refused(op[c], before[c])

\* Whoever else moves, the checks that an operation has passed stand.
LEMMA CheckedStep ==
  ASSUME Inv, [Next]_vars, NEW d \in Client
  PROVE  CheckedAt(d)'
<1> USE TypedFromInv
<1>0. CheckedAt(d)
  BY DEF Inv, Checked, CheckedAt
<1>1. CASE pc'[d] \notin {"read", "post"}
  BY <1>1 DEF CheckedAt
<1>2. CASE /\ pc'[d] = pc[d] /\ op'[d] = op[d] /\ at'[d] = at[d]
           /\ base'[d] = base[d] /\ before'[d] = before[d]
  BY <1>0, <1>2 DEF CheckedAt
<1>3. ASSUME NEW o \in Operation, Begin(d, o)
      PROVE  CheckedAt(d)'
  <2>1. pc'[d] = (IF Row(o).plan = <<>> THEN "read" ELSE "plan") /\ at'[d] = 1 /\ op'[d] = o
    BY <1>3 DEF Begin, Enter, Typed
  <2>2. Row(o).plan = <<>> => ~RefusedUpFront(o, base'[d])
    BY UnplannedIsFree
  <2> QED BY <2>1, <2>2 DEF CheckedAt
<1>4. ASSUME Plan(d), pc'[d] \in {"read", "post"}
      PROVE  CheckedAt(d)'
  <2>1. pc'[d] = "read" /\ at'[d] = 1 /\ op'[d] = op[d] /\ ~RefusedUpFront(op[d], base'[d])
    BY <1>4 DEF Plan, End, Enter, Typed
  <2> QED BY <2>1 DEF CheckedAt
<1>5. ASSUME Read(d), pc'[d] \in {"read", "post"}
      PROVE  CheckedAt(d)'
  <2>1. pc[d] = "read" /\ op'[d] = op[d] /\ base'[d] = base[d] /\ at'[d] = at[d] + 1
    BY <1>5 DEF Read, End, Typed
  <2>2. before'[d] = Received(before[d], Asked(d))
    BY <1>5 DEF Read, Typed
  <2>3. pc'[d] = "post" => /\ ~Stale(op[d], base[d], before'[d])
                           /\ ~Refused(op[d], before'[d])
    BY <1>5, <2>1 DEF Read, Rejected, End, Typed
  <2>4. before'[d][<<"ident", 0>>] = 0
    <3>1. <<"ident", 0>> \in Field
      BY DEF Field, DeviceAttr
    <3>2. CASE <<"ident", 0>> \in At(Asked(d))
      BY <1>5, <2>2, <3>1, <3>2 DEF Read, Unusable, Stranger, Received
    <3>3. CASE <<"ident", 0>> \notin At(Asked(d))
      <4>1. Asked(d) = Row(op[d]).reads[at[d]] /\ Row(op[d]).reads[1] = "sys"
        BY <2>1, GetsOfPhase, OperationsAreWellFormed DEF Asked, Gets, Typed, SoundRow
      <4>2. <<"ident", 0>> \in At("sys")
        BY <3>1 DEF At, AttrsAt, SystemAnswer
      <4>3. at[d] \in Nat \ {0} /\ at[d] # 1
        BY <3>3, <4>1, <4>2 DEF Typed
      <4> QED BY <1>0, <2>1, <2>2, <3>1, <3>3, <4>3 DEF CheckedAt, Received
    <3> QED BY <3>2, <3>3
  <2> QED BY <1>0, <2>1, <2>3, <2>4 DEF CheckedAt
<1>6. CASE \E u, a : Post(d, u, a)
  BY <1>1, <1>6 DEF Post, Enter, End, Typed
<1>7. CASE Verify(d)
  BY <1>1, <1>7 DEF Verify, End, Typed
<1>8. CASE RejectAnswer(d) \/ RequestFails(d)
  BY <1>1, <1>8 DEF RejectAnswer, RequestFails, End, Typed
<1>9. CASE Step(d)
  BY <1>1, <1>3, <1>4, <1>5, <1>6, <1>7, <1>8, <1>9 DEF Step
<1>10. ASSUME NEW c \in Client \ {d}, Step(c)
       PROVE  CheckedAt(d)'
  BY <1>2, <1>10, OthersStay
<1>11. CASE \E f \in Editable, v \in Value : Edit(f, v)
  BY <1>2, <1>11 DEF Edit, clientVars
<1>12. CASE UNCHANGED vars
  BY <1>2, <1>12 DEF vars, clientVars
<1> QED BY <1>9, <1>10, <1>11, <1>12 DEF Next

-----------------------------------------------------------------------------
(* The reports.                                                             *)

\* The conjuncts of Reporting and HonestReports for one client.
ReportingAt(c) ==
  /\ pc[c] # "idle" => result[c] = "none"
  /\ pc[c] \in {"plan", "read", "post"} => ~sent[c]
  /\ pc[c] = "verify" => sent[c]
  /\ result[c] \in {"refused", "unchanged"} => ~sent[c]
  /\ result[c] = "changed" => sent[c]

\* Whoever else moves, what an operation reports of its POST stands.
LEMMA ReportingStep ==
  ASSUME Inv, [Next]_vars, NEW d \in Client
  PROVE  ReportingAt(d)'
<1> USE TypedFromInv
<1>0. ReportingAt(d)
  BY DEF Inv, Reporting, HonestReports, ReportingAt
<1> USE DEF Typed
<1>1. CASE pc'[d] = pc[d] /\ result'[d] = result[d] /\ sent'[d] = sent[d]
  BY <1>0, <1>1 DEF ReportingAt
<1>2. CASE \E o \in Operation : Begin(d, o)
  BY <1>2 DEF Begin, Enter, ReportingAt
<1>3. CASE Plan(d)
  BY <1>0, <1>3 DEF Plan, End, Enter, ReportingAt
<1>4. CASE Read(d)
  BY <1>0, <1>4 DEF Read, End, ReportingAt
<1>5. CASE \E u, a : Post(d, u, a)
  BY <1>0, <1>5 DEF Post, End, Enter, ReportingAt
<1>6. CASE Verify(d)
  BY <1>0, <1>6 DEF Verify, End, ReportingAt
<1>7. CASE RejectAnswer(d) \/ RequestFails(d)
  BY <1>0, <1>7 DEF RejectAnswer, RequestFails, End, ReportingAt
<1>8. CASE Step(d)
  BY <1>2, <1>3, <1>4, <1>5, <1>6, <1>7, <1>8 DEF Step
<1>9. ASSUME NEW c \in Client \ {d}, Step(c)
      PROVE  ReportingAt(d)'
  BY <1>1, <1>9, OthersStay
<1>10. CASE \E f \in Editable, v \in Value : Edit(f, v)
  BY <1>1, <1>10 DEF Edit, clientVars
<1>11. CASE UNCHANGED vars
  BY <1>1, <1>11 DEF vars, clientVars
<1> QED BY <1>8, <1>9, <1>10, <1>11 DEF Next

-----------------------------------------------------------------------------
(* The readback.                                                            *)

\* Groups have no setting in common.
LEMMA GroupsAreDisjoint ==
  ASSUME NEW g \in Group, NEW h \in Group, NEW f \in Members(g), f \in Members(h)
  PROVE  g = h
BY DEF Group, Members, AttrsOf

\* The conjunct of ReadbackStands for one client.
StandsAt(c) ==
  writer[Row(op[c]).group] = c =>
    ~Differs(GroupFields(op[c]) \intersect Confirmed(c), WriteState(op[c], dev), Goal(c))

\* What others do to a group without becoming its last writer changes nothing.
LEMMA ForeignWrites ==
  ASSUME Inv, NEW d \in Client, dev' \in [Field -> Value],
         op'[d] = op[d], before'[d] = before[d], Confirmed(d)' = Confirmed(d),
         writer'[Row(op[d]).group] = d =>
           /\ writer[Row(op[d]).group] = d
           /\ \A f \in GroupFields(op[d]) : dev'[f] = dev[f]
  PROVE  StandsAt(d)'
<1> USE TypedFromInv
<1> SUFFICES ASSUME writer'[Row(op[d]).group] = d,
                    NEW f \in GroupFields(op[d]) \intersect Confirmed(d)
             PROVE  WriteState(op[d], dev')[f] = Desired(op[d], before[d])[f]
  BY DEF StandsAt, Differs, Goal
<1>1. WriteState(op[d], dev)[f] = Desired(op[d], before[d])[f]
  BY DEF Inv, ReadbackStands, Differs, Goal
<1>2. WriteState(op[d], dev')[f] = WriteState(op[d], dev)[f]
  <2>1. op[d] \in Operation /\ dev \in [Field -> Value] /\ dev' \in [Field -> Value]
    BY DEF Typed
  <2>2. \A h \in GroupFields(op[d]) : dev'[h] = dev[h]
    OBVIOUS
  <2> QED BY <2>1, <2>2, WriteStateIsLocal
<1> QED BY <1>1, <1>2

\* Whoever else moves, a readback stands until its group has another writer.
LEMMA StandsStep ==
  ASSUME Inv, [Next]_vars, NEW d \in Client
  PROVE  StandsAt(d)'
<1> USE TypedFromInv
<1>0. StandsAt(d) /\ ReportingAt(d) /\ Typed'
  BY TypedStep DEF Inv, ReadbackStands, StandsAt, Reporting, HonestReports, ReportingAt
<1>1. CASE Confirmed(d)' = {}
  BY <1>1 DEF StandsAt, Differs
<1>2. ASSUME pc'[d] = "idle", result'[d] # "changed"
      PROVE  StandsAt(d)'
  BY <1>1, <1>2 DEF Confirmed
<1>3. CASE \E o \in Operation : Begin(d, o)
  <2>1. pc'[d] \in {"plan", "read"} /\ result'[d] = "none"
    BY <1>3 DEF Begin, Enter, Typed
  <2> QED BY <1>1, <2>1 DEF Confirmed
<1>4. CASE Plan(d) \/ Read(d)
  <2>1. pc'[d] # "verify" /\ result'[d] # "changed"
    <3>1. CASE Plan(d)
      BY <1>0, <3>1 DEF Plan, End, Enter, Typed, ReportingAt
    <3>2. CASE Read(d)
      BY <1>0, <3>2 DEF Read, End, Typed, ReportingAt
    <3> QED BY <1>4, <3>1, <3>2
  <2> QED BY <1>1, <2>1 DEF Confirmed
<1>5. CASE \E u, a : Post(d, u, a)
  <2>1. at'[d] = 1 /\ result'[d] # "changed"
    BY <1>0, <1>5 DEF Post, End, Enter, Typed, ReportingAt
  <2> QED BY <1>1, <2>1 DEF Confirmed
<1>6. CASE RejectAnswer(d) \/ RequestFails(d)
  BY <1>2, <1>6 DEF RejectAnswer, RequestFails, End, Typed
<1>7. CASE Verify(d)
  <2>1. /\ dev' = dev /\ op' = op /\ before' = before /\ writer' = writer
        /\ pc[d] = "verify" /\ result[d] = "none"
    BY <1>0, <1>7 DEF Verify, ReportingAt
  <2> DEFINE new == GroupFields(op[d]) \intersect At(Asked(d))
             ok == ReadsBack(d)
  <2>2. matches'[d] = ok
    BY <1>7 DEF Verify, Typed
  <2>3. Asked(d) = Row(op[d]).rereads[at[d]] /\ Gets(d) = Row(op[d]).rereads
    BY <2>1, GetsOfPhase DEF Asked, Gets
  <2>4. IF LastGet(d)
        THEN pc'[d] = "idle" /\ result'[d] = (IF ok THEN "changed" ELSE "protocol")
        ELSE pc'[d] = "verify" /\ at'[d] = at[d] + 1 /\ result'[d] = "none"
    BY <1>7, <2>1 DEF Verify, End, Typed
  <2> HIDE DEF new, ok
  <2>5. CASE ~ok
    <3>1. Confirmed(d)' = {}
      BY <2>2, <2>4, <2>5 DEF Confirmed
    <3> QED BY <1>1, <3>1
  <2>6. CASE ok
    <3>1. Confirmed(d) = UNION {At(Row(op[d]).rereads[i]) : i \in 1..(at[d] - 1)}
      BY <2>1, <2>6 DEF ok, ReadsBack, Confirmed
    <3>2. at[d] \in Nat
      BY DEF Typed
    <3>3. UNION {At(Row(op[d]).rereads[i]) : i \in 1..at[d]} = Confirmed(d) \union At(Asked(d))
      <4>1. \A i \in 1..at[d] : i = at[d] \/ i \in 1..(at[d] - 1)
        BY <3>2
      <4>2. at[d] \in 1..at[d] /\ 1..(at[d] - 1) \subseteq 1..at[d]
        BY DEF Typed
      <4> QED BY <2>3, <3>1, <4>1, <4>2
    <3>4. GroupFields(op[d]) \intersect Confirmed(d)' \subseteq Confirmed(d) \union At(Asked(d))
      <4>1. CASE ~LastGet(d)
        BY <2>1, <2>2, <2>4, <2>6, <3>2, <3>3, <4>1 DEF Confirmed
      <4>2. CASE LastGet(d)
        <5>1. GroupFields(op[d]) \subseteq Answered(Row(op[d]).rereads)
          BY OperationsAreWellFormed DEF SoundRow, GroupFields, Typed
        <5>2. Answered(Row(op[d]).rereads) = Confirmed(d) \union At(Asked(d))
          BY <2>3, <3>3, <4>2 DEF LastGet, Answered
        <5> QED BY <5>1, <5>2
      <4> QED BY <4>1, <4>2
    <3>5. ASSUME writer[Row(op[d]).group] = d,
                 NEW f \in GroupFields(op[d]) \intersect Confirmed(d)'
          PROVE  WriteState(op[d], dev)[f] = Goal(d)[f]
      BY <1>0, <2>6, <3>4, <3>5 DEF StandsAt, Differs, ReadsBack, ok, new
    <3> QED BY <2>1, <3>5 DEF StandsAt, Differs, Goal
  <2> QED BY <2>5, <2>6
<1>8. CASE Step(d)
  BY <1>3, <1>4, <1>5, <1>6, <1>7, <1>8 DEF Step
<1>9. ASSUME NEW c \in Client \ {d}, Step(c)
      PROVE  StandsAt(d)'
  <2>1. op'[d] = op[d] /\ before'[d] = before[d] /\ Confirmed(d)' = Confirmed(d)
    <3>1. /\ pc'[d] = pc[d] /\ op'[d] = op[d] /\ at'[d] = at[d]
          /\ before'[d] = before[d] /\ matches'[d] = matches[d] /\ result'[d] = result[d]
      BY <1>9, OthersStay
    <3> QED BY <3>1 DEF Confirmed
  <2>2. ASSUME NEW u, NEW a, Post(c, u, a), writer'[Row(op[d]).group] = d
        PROVE  /\ writer[Row(op[d]).group] = d
               /\ \A f \in GroupFields(op[d]) : dev'[f] = dev[f]
    <3>1. Row(op[c]).group \in Group /\ Row(op[d]).group \in Group
      BY OperationsAreWellFormed DEF SoundRow, Typed
    <3>2. Row(op[d]).group # Row(op[c]).group /\ writer[Row(op[d]).group] = d
      BY <2>2, <3>1 DEF Post, Typed
    <3>3. ASSUME NEW f \in GroupFields(op[d])
          PROVE  dev'[f] = dev[f]
      <4>1. f \in Field /\ f \notin GroupFields(op[c])
        BY <3>1, <3>2, GroupsAreDisjoint DEF GroupFields, Members
      <4> QED BY <2>2, <4>1 DEF Post
    <3> QED BY <3>2, <3>3
  <2>3. CASE \E u, a : Post(c, u, a)
    BY <1>0, <2>1, <2>2, <2>3, ForeignWrites DEF Typed
  <2>4. CASE dev' = dev /\ writer' = writer
    BY <1>0, <2>1, <2>4, ForeignWrites DEF Typed
  <2> QED BY <1>9, <2>3, <2>4 DEF Step, Begin, Plan, Read, Verify, RejectAnswer, RequestFails
<1>10. ASSUME NEW f \in Editable, NEW v \in Value, Edit(f, v)
       PROVE  StandsAt(d)'
  <2>1. op'[d] = op[d] /\ before'[d] = before[d] /\ Confirmed(d)' = Confirmed(d)
    <3>1. UNCHANGED <<pc, op, at, before, matches, result>>
      BY <1>10 DEF Edit, clientVars
    <3> QED BY <3>1 DEF Confirmed
  <2>2. ASSUME writer'[Row(op[d]).group] = d
        PROVE  /\ writer[Row(op[d]).group] = d
               /\ \A h \in GroupFields(op[d]) : dev'[h] = dev[h]
    <3>1. Row(op[d]).group \in Group
      BY OperationsAreWellFormed DEF SoundRow, Typed
    <3>2. f \notin GroupFields(op[d]) /\ writer[Row(op[d]).group] = d
      BY <1>10, <2>2, <3>1, ClientAssumption DEF Edit, GroupFields
    <3>3. \A h \in GroupFields(op[d]) : dev'[h] = dev[h]
      BY <1>10, <3>2 DEF Edit, GroupFields, Members, Typed
    <3> QED BY <3>2, <3>3
  <2> QED BY <1>0, <2>1, <2>2, ForeignWrites DEF Typed
<1>11. CASE UNCHANGED vars
  BY <1>0, <1>11 DEF vars, clientVars, StandsAt, Confirmed, Goal
<1> QED BY <1>8, <1>9, <1>10, <1>11 DEF Next

-----------------------------------------------------------------------------
(* The theorems.                                                            *)

\* Every step keeps the invariant.
LEMMA InvStep == Inv /\ [Next]_vars => Inv'
<1> SUFFICES ASSUME Inv, [Next]_vars PROVE Inv'
  OBVIOUS
<1>1. TypeOK'
  BY TypedFromInv, TypedStep, CursorStep DEF Typed, TypeOK
<1>2. Holding'
  BY HoldingStep DEF Holding
<1>3. Checked'
  BY CheckedStep DEF Checked, CheckedAt
<1>4. Reporting' /\ HonestReports'
  BY ReportingStep DEF Reporting, HonestReports, ReportingAt
<1>5. ReadbackStands'
  BY StandsStep DEF ReadbackStands, StandsAt
<1> QED BY <1>1, <1>2, <1>3, <1>4, <1>5 DEF Inv

\* The invariant of GuardedWrite: what is held is current or overtaken, every
\* phase rests on the checks before it, what was confirmed stands.
THEOREM InvCorrect == Spec => []Inv
BY InitInv, InvStep, PTL DEF Spec

\* No report is dishonest about whether this operation sent its POST.
THEOREM ReportsAreHonest == Spec => []HonestReports
<1>1. Inv => HonestReports
  BY DEF Inv
<1> QED BY <1>1, InvCorrect, PTL

\* A success report stands while the operation is its group's last writer.
THEOREM LastWriterCorrect == Spec => []LastWriterStands
<1>1. Inv => LastWriterStands
  <2> SUFFICES ASSUME Inv, NEW c \in Client, result[c] = "changed",
                      writer[Row(op[c]).group] = c
               PROVE  ~Differs(GroupFields(op[c]), WriteState(op[c], dev), Goal(c))
    BY DEF LastWriterStands
  <2>1. Confirmed(c) = Field
    BY DEF Inv, Reporting, Confirmed
  <2>2. GroupFields(op[c]) \intersect Confirmed(c) = GroupFields(op[c])
    BY <2>1 DEF GroupFields, Members
  <2> QED BY <2>2 DEF Inv, ReadbackStands
<1> QED BY <1>1, InvCorrect, PTL

\* When a POST leaves, everything its handler reads is held.
LEMMA SendsHoldsAll ==
  ASSUME Inv, [Next]_vars, NEW c \in Client, Sends(c)
  PROVE  /\ pc[c] = "post" /\ op[c] \in Operation
         /\ Held(c) = Answered(Row(op[c]).reads)
         /\ \A f \in Held(c) : before[c][f] = dev[f] \/ f \in overtaken[c]
         /\ CheckedAt(c) /\ at[c] > 1
         /\ \/ \E u, a : Post(c, u, a)
            \/ dev' = dev
<1> USE TypedFromInv
<1>1. PICK d \in Client : Step(d)
  BY DEF Next, Sends, Edit, vars
<1>2. d = c
  BY <1>1, OthersStay DEF Sends
<1>3. (\E u, a : Post(c, u, a)) \/ (RequestFails(c) /\ pc[c] = "post")
  BY <1>1, <1>2 DEF Step, Sends, Begin, Plan, Read, Verify, RejectAnswer, RequestFails, Typed
<1>4. pc[c] = "post" /\ op[c] \in Operation
  BY <1>3 DEF Post, Typed
<1>5. at[c] = Len(Row(op[c]).reads) + 1
  BY <1>4, GetsOfPhase DEF TypeOK, CursorOK, Gets
<1>6. Len(Row(op[c]).reads) \in Nat /\ 1 <= Len(Row(op[c]).reads)
  BY <1>4, PhaseLengths
<1>7. Held(c) = Answered(Row(op[c]).reads)
  <2>1. at[c] - 1 = Len(Row(op[c]).reads)
    BY <1>5, <1>6
  <2> QED BY <1>4, <2>1 DEF Held, Answered
<1>8. CheckedAt(c) /\ \A f \in Held(c) : before[c][f] = dev[f] \/ f \in overtaken[c]
  BY DEF Inv, Holding, Checked, CheckedAt
<1> QED BY <1>3, <1>4, <1>5, <1>6, <1>7, <1>8 DEF RequestFails

\* What a POST changes is in its group, and is the goal there.
LEMMA SendsTheGoal ==
  ASSUME Inv, [Next]_vars, NEW c \in Client, Sends(c), NEW f \in Field, dev'[f] # dev[f]
  PROVE  f \in GroupFields(op[c]) /\ f \in Held(c) /\ dev'[f] = Goal(c)[f]
<1> USE TypedFromInv
<1>1. PICK u, a : Post(c, u, a)
  BY SendsHoldsAll
<1>2. f \in GroupFields(op[c]) /\ dev'[f] = Goal(c)[f]
  BY <1>1 DEF Post
<1>3. f \in Answered(Row(op[c]).reads)
  BY <1>2, SendsHoldsAll, OperationsAreWellFormed DEF SoundRow, GroupFields
<1> QED BY <1>2, <1>3, SendsHoldsAll

\* A write reverts nothing older than its own fresh read.
THEOREM RevertsCorrect == Spec => RevertsOnlyInWindow
<1>1. ASSUME Inv, [Next]_vars, NEW c \in Client, Sends(c), NEW f \in Field, dev'[f] # dev[f]
      PROVE  f \in GroupFields(op[c]) /\ (f \in Named(op[c]) \/ f \in overtaken[c])
  <2>1. f \in GroupFields(op[c]) /\ f \in Held(c) /\ dev'[f] = Goal(c)[f]
    BY <1>1, SendsTheGoal
  <2>2. f \notin Named(op[c]) => Goal(c)[f] = before[c][f]
    BY <1>1, TypedFromInv, DesiredFacts DEF Goal, Typed
  <2> QED BY <1>1, <2>1, <2>2, SendsHoldsAll
<1>2. Inv /\ [Next]_vars =>
        [\A c \in Client : Sends(c) =>
           \A f \in Field : dev'[f] # dev[f] =>
             f \in GroupFields(op[c]) /\ (f \in Named(op[c]) \/ f \in overtaken[c])]_vars
  BY <1>1
<1> QED BY <1>2, InvCorrect, PTL DEF Spec, RevertsOnlyInWindow

\* Unless it was overtaken, every check of a write holds of the switch itself
\* at the moment its POST leaves.
THEOREM PostsAreJustified == Spec => JustifiedPost
<1>1. ASSUME Inv, [Next]_vars, NEW c \in Client, Sends(c), overtaken[c] = {}
      PROVE  /\ dev[<<"ident", 0>>] = 0
             /\ ~Stale(op[c], base[c], dev) /\ ~Refused(op[c], dev)
  <2>1. \A f \in Answered(Row(op[c]).reads) : before[c][f] = dev[f]
    BY <1>1, SendsHoldsAll
  <2>2. /\ pc[c] = "post" /\ before[c][<<"ident", 0>>] = 0
        /\ ~Stale(op[c], base[c], before[c]) /\ ~Refused(op[c], before[c])
    BY <1>1, SendsHoldsAll DEF CheckedAt
  <2>3. op[c] \in Operation /\ dev \in [Field -> Value] /\ before[c] \in [Field -> Value]
    BY <1>1, TypedFromInv DEF Typed
  <2>4. <<"ident", 0>> \in Answered(Row(op[c]).reads)
    <3>1. 1 \in 1..Len(Row(op[c]).reads) /\ Row(op[c]).reads[1] = "sys"
      BY <2>3, OperationsAreWellFormed, PhaseLengths DEF SoundRow
    <3>2. <<"ident", 0>> \in At("sys")
      BY DEF At, AttrsAt, SystemAnswer, Field, DeviceAttr
    <3> QED BY <3>1, <3>2 DEF Answered
  <2>5. ~Stale(op[c], base[c], dev)
    BY <2>1, <2>2, <2>3, StalenessIsInformed
  <2>6. ~Refused(op[c], dev)
    BY <2>1, <2>2, <2>3, RefusalIsInformed
  <2> QED BY <2>1, <2>2, <2>4, <2>5, <2>6
<1>2. Inv /\ [Next]_vars =>
        [\A c \in Client : Sends(c) /\ overtaken[c] = {} =>
           /\ dev[<<"ident", 0>>] = 0
           /\ ~Stale(op[c], base[c], dev)
           /\ ~Refused(op[c], dev)]_vars
  BY <1>1
<1> QED BY <1>2, InvCorrect, PTL DEF Spec, JustifiedPost

\* No write moves the management path through port 6.
THEOREM ManagementPathCorrect == Spec => ManagementPathKept
<1>1. ASSUME Inv, [Next]_vars, NEW c \in Client, Sends(c), NEW f \in Protected,
             dev'[f] # dev[f]
      PROVE  f \in overtaken[c]
  <2>1. f \in Held(c) /\ dev'[f] = Goal(c)[f]
    BY <1>1, SendsTheGoal DEF Protected
  <2>2. /\ op[c] \in Operation /\ before[c] \in [Field -> Value]
        /\ base[c] \in [Field -> Value]
    BY <1>1, TypedFromInv DEF Typed
  <2>3. /\ ~Stale(op[c], base[c], before[c]) /\ ~Refused(op[c], before[c])
        /\ ~RefusedUpFront(op[c], base[c])
    BY <1>1, SendsHoldsAll DEF CheckedAt
  <2>4. Goal(c)[f] = before[c][f]
    BY <2>2, <2>3, ProtectedIsKept DEF Goal
  <2> QED BY <1>1, <2>1, <2>4, SendsHoldsAll
<1>2. Inv /\ [Next]_vars =>
        [\A c \in Client : Sends(c) =>
           \A f \in Protected : dev'[f] # dev[f] => f \in overtaken[c]]_vars
  BY <1>1
<1> QED BY <1>2, InvCorrect, PTL DEF Spec, ManagementPathKept

\* No write disables or renegotiates a port whose link is up.
THEOREM ActiveLinksCorrect == Spec => ActiveLinksKept
<1>1. ASSUME Inv, [Next]_vars, NEW c \in Client, Sends(c), NEW p \in Port,
             NEW f \in {"en", "an", "spdc"} \X {p}, dev[<<"up", p>>] = 1, dev'[f] # dev[f]
      PROVE  \/ f[1] = "en" /\ dev'[f] # 0
             \/ {f, <<"up", p>>} \intersect overtaken[c] # {}
  <2>1. f \in GroupFields(op[c]) /\ f \in Held(c) /\ dev'[f] = Goal(c)[f]
    <3>1. f \in Field
      BY DEF Field, PortAttr
    <3> QED BY <1>1, <3>1, SendsTheGoal
  <2>2. op[c] \in Operation /\ before[c] \in [Field -> Value]
    BY <1>1, TypedFromInv, SendsHoldsAll DEF Typed
  <2>3. <<"up", p>> \in Held(c)
    BY <1>1, <2>1, <2>2, LinksAreRead, SendsHoldsAll
  <2>4. CASE before[c][f] = dev[f] /\ before[c][<<"up", p>>] = dev[<<"up", p>>]
    <3>1. ~Refused(op[c], before[c])
      BY <1>1, SendsHoldsAll DEF CheckedAt
    <3>2. Goal(c)[f] # before[c][f] /\ before[c][<<"up", p>>] = 1
      BY <1>1, <2>1, <2>4
    <3>3. f[1] = "en" /\ Goal(c)[f] # 0
      BY <2>2, <3>1, <3>2, ActiveLinkIsKept DEF Goal
    <3> QED BY <2>1, <3>3
  <2> QED BY <1>1, <2>1, <2>3, <2>4, SendsHoldsAll
<1>2. Inv /\ [Next]_vars =>
        [\A c \in Client : Sends(c) =>
           \A p \in Port : \A f \in {"en", "an", "spdc"} \X {p} :
             dev[<<"up", p>>] = 1 /\ dev'[f] # dev[f] =>
               \/ f[1] = "en" /\ dev'[f] # 0
               \/ {f, <<"up", p>>} \intersect overtaken[c] # {}]_vars
  BY <1>1
<1> QED BY <1>2, InvCorrect, PTL DEF Spec, ActiveLinksKept

-----------------------------------------------------------------------------
(* The refinement: nobody writes between a fresh GET and its POST.           *)

\* The careful writes are guarded writes that keep the invariant of those.
LEMMA CarefulStep == ASSUME CarefulInv, [CarefulNext]_vars PROVE CarefulInv'
<1>1. [Next]_vars /\ Inv /\ Typed
  BY TypedFromInv DEF CarefulNext, CarefulInv
<1>2. Inv'
  BY <1>1, InvStep
<1>3. NobodyInTheWindow'
  BY DEF CarefulInv, CarefulNext, NobodyInTheWindow, vars
<1>4. ASSUME NEW d \in Client, pc'[d] = "post" PROVE ~NoOp(op'[d], before'[d])
  <2>1. CASE pc[d] = "post" /\ op'[d] = op[d] /\ before'[d] = before[d]
    BY <2>1 DEF CarefulInv, SomethingToWrite
  <2>2. CASE Read(d)
    BY <1>1, <1>4, <2>2 DEF Read, End, Typed
  <2>3. CASE Step(d)
    BY <1>1, <1>4, <2>2, <2>3
       DEF Step, Begin, Plan, Post, Verify, RejectAnswer, RequestFails, Enter, End, Typed
  <2>4. ASSUME NEW c \in Client \ {d}, Step(c) PROVE ~NoOp(op'[d], before'[d])
    <3>1. pc'[d] = pc[d] /\ op'[d] = op[d] /\ before'[d] = before[d]
      BY <1>1, <2>4, OthersStay
    <3> QED BY <1>4, <2>1, <3>1
  <2>5. CASE (\E f \in Editable, v \in Value : Edit(f, v)) \/ UNCHANGED vars
    BY <1>4, <2>1, <2>5 DEF Edit, vars, clientVars
  <2> QED BY <1>1, <2>3, <2>4, <2>5 DEF Next
<1> QED BY <1>2, <1>3, <1>4 DEF CarefulInv, SomethingToWrite

\* Nothing is held at the start.
LEMMA CarefulInit == Init => CarefulInv
BY InitInv DEF Init, CarefulInv, NobodyInTheWindow, SomethingToWrite

\* The store sees a step of one client as a step of that client alone.
LEMMA OneClientMoves ==
  ASSUME Typed, NEW c \in Client, Step(c)
  PROVE  /\ StorePhase' =
              [StorePhase EXCEPT ![c] = IF pc'[c] = "idle" THEN "idle"
                                        ELSE IF sent'[c] THEN "settled" ELSE "open"]
         /\ StoreTarget' =
              [StoreTarget EXCEPT ![c] =
                 IF sent'[c]
                 THEN [f \in GroupFields(op'[c]) |-> Desired(op'[c], before'[c])[f]]
                 ELSE Blank]
<1>1. ASSUME NEW d \in Client \ {c}
      PROVE  StorePhase'[d] = StorePhase[d] /\ StoreTarget'[d] = StoreTarget[d]
  <2>1. /\ pc'[d] = pc[d] /\ op'[d] = op[d]
        /\ before'[d] = before[d] /\ sent'[d] = sent[d]
    BY OthersStay
  <2> QED BY <2>1 DEF StorePhase, StoreTarget, Goal
<1> QED BY <1>1 DEF StorePhase, StoreTarget, Goal

-----------------------------------------------------------------------------
(* Each action of a client is one of the store, or changes nothing there.    *)

\* A caller that starts a write asks the store for it.
LEMMA BeginAsks ==
  ASSUME CarefulInv, NEW c \in Client, NEW o \in Operation, Begin(c, o)
  PROVE  Store!Ask(c, o)
<1>1. Typed /\ Step(c)
  BY TypedFromInv DEF CarefulInv, Step
<1>2. pc'[c] # "idle" /\ sent'[c] = FALSE
  BY <1>1 DEF Begin, Enter, Typed
<1>3. StorePhase[c] = "idle"
  BY DEF Begin, StorePhase
<1> QED BY <1>1, <1>2, <1>3, OneClientMoves DEF Begin, Store!Ask, Store!Nothing, Blank

\* A step that neither starts, sends nor ends keeps the store's view of its client.
LEMMA StaysOpen ==
  ASSUME Typed, NEW c \in Client, Step(c), op' = op, sent' = sent,
         sent[c] => before'[c] = before[c]
  PROVE  /\ UNCHANGED StoreTarget
         /\ pc[c] # "idle" /\ pc'[c] # "idle" => UNCHANGED StorePhase
         /\ pc'[c] = "idle" => StorePhase' = [StorePhase EXCEPT ![c] = "idle"]
<1>1. StoreTarget'[c] = StoreTarget[c]
  BY DEF StoreTarget, Goal
<1>2. pc[c] # "idle" /\ pc'[c] # "idle" => StorePhase'[c] = StorePhase[c]
  BY DEF StorePhase
<1>3. ASSUME NEW d \in Client \ {c}
      PROVE  StorePhase'[d] = StorePhase[d] /\ StoreTarget'[d] = StoreTarget[d]
  <2>1. /\ pc'[d] = pc[d] /\ op'[d] = op[d]
        /\ before'[d] = before[d] /\ sent'[d] = sent[d]
    BY OthersStay
  <2> QED BY <2>1 DEF StorePhase, StoreTarget, Goal
<1> QED BY <1>1, <1>2, <1>3, OneClientMoves DEF StorePhase, StoreTarget

\* One GET of the caller's plan is part of what the store is expected to be.
LEMMA PlanExpects ==
  ASSUME CarefulInv, NEW c \in Client, Plan(c)
  PROVE  Store!Expect(c)
<1>1. Typed /\ Step(c) /\ ~sent[c] /\ sent' = sent /\ op' = op /\ pc[c] = "plan"
  BY TypedFromInv DEF CarefulInv, Inv, Reporting, Step, Plan
<1>2. StorePhase[c] = "open"
  BY <1>1 DEF StorePhase
<1>3. UNCHANGED StoreTarget
  BY <1>1, StaysOpen
<1>4. Asked(c) \in Endpoint
  <2>1. Gets(c) = Row(op[c]).plan
    BY <1>1, GetsOfPhase DEF Gets
  <2>2. at[c] \in Nat \ {0} /\ at[c] <= Len(Gets(c)) /\ op[c] \in Operation
    BY <1>1 DEF CarefulInv, Inv, TypeOK, CursorOK
  <2>3. op[c].handler \in DOMAIN HandlerTable /\ Len(Row(op[c]).plan) \in Nat
    <3>1. WellFormed(op[c]) /\ Len(Row(op[c]).plan) \in 0..2
      BY <2>2, OperationsAreWellFormed DEF SoundRow
    <3> QED BY <3>1 DEF WellFormed
  <2>4. at[c] \in 1..Len(Row(op[c]).plan)
    BY <2>1, <2>2, <2>3
  <2> QED BY <2>1, <2>3, <2>4, PlansAreEndpoints DEF Asked, Row
<1>5. base' = [base EXCEPT ![c] = [f \in Field |-> IF f \in At(Asked(c)) THEN dev[f] ELSE @[f]]]
  BY DEF Plan, Received
<1>6. CASE pc'[c] = "idle"
  <2>1. /\ RefusedUpFront(op[c], base'[c])
        /\ result' = [result EXCEPT ![c] = "refused"]
    BY <1>1, <1>6 DEF Plan, End, Enter, Typed
  <2>2. StorePhase' = [StorePhase EXCEPT ![c] = "idle"]
    BY <1>1, <1>6, StaysOpen
  <2> QED BY <1>2, <1>3, <1>4, <1>5, <2>1, <2>2 DEF Plan, Store!Expect
<1>7. CASE pc'[c] # "idle"
  <2>1. UNCHANGED result
    BY <1>1, <1>7 DEF Plan, End, Enter, Typed
  <2>2. UNCHANGED StorePhase
    BY <1>1, <1>7, StaysOpen
  <2> QED BY <1>2, <1>3, <1>4, <1>5, <2>1, <2>2 DEF Plan, Store!Expect
<1> QED BY <1>6, <1>7

\* When a POST is about to leave, what its handler has read is what is stored.
LEMMA HeldIsCurrent ==
  ASSUME CarefulInv, NEW c \in Client, pc[c] = "post",
         NEW f \in Answered(Row(op[c]).reads)
  PROVE  before[c][f] = dev[f]
<1>1. Typed /\ op[c] \in Operation
  BY TypedFromInv DEF CarefulInv, Typed
<1>2. at[c] = Len(Row(op[c]).reads) + 1 /\ Len(Row(op[c]).reads) \in Nat
  BY <1>1, GetsOfPhase, PhaseLengths DEF CarefulInv, Inv, TypeOK, CursorOK, Gets
<1>3. at[c] - 1 = Len(Row(op[c]).reads)
  BY <1>2
<1>4. f \in Held(c)
  BY <1>3 DEF Held, Answered
<1> QED BY <1>4 DEF CarefulInv, Inv, Holding, NobodyInTheWindow

\* So it is when the last fresh GET has been answered.
LEMMA ReadIsCurrent ==
  ASSUME CarefulInv, NEW c \in Client, Read(c), LastGet(c),
         NEW f \in Answered(Row(op[c]).reads)
  PROVE  before'[c][f] = dev[f]
<1>1. Typed /\ op[c] \in Operation /\ at[c] \in Nat \ {0} /\ pc[c] = "read"
  BY TypedFromInv DEF CarefulInv, Typed, Read
<1>2. at[c] = Len(Row(op[c]).reads) /\ Asked(c) = Row(op[c]).reads[at[c]]
  BY <1>1, GetsOfPhase DEF Gets, Asked, LastGet
<1>3. f \in Held(c) \/ f \in At(Asked(c))
  <2>1. \A i \in 1..at[c] : i = at[c] \/ i \in 1..(at[c] - 1)
    BY <1>1
  <2> QED BY <1>1, <1>2, <2>1 DEF Held, Answered
<1>4. f \in Field
  BY <1>3 DEF Held, At
<1>5. before'[c][f] = IF f \in At(Asked(c)) THEN dev[f] ELSE before[c][f]
  BY <1>1, <1>4 DEF Read, Received, Typed
<1> QED BY <1>3, <1>5 DEF CarefulInv, Inv, Holding, NobodyInTheWindow

\* Two configurations that answer the handler's GETs alike are refused alike,
\* found unchanged alike and replaced by the same group.
LEMMA SameAnswers ==
  ASSUME NEW o \in Operation, NEW b, NEW s \in [Field -> Value], NEW t \in [Field -> Value],
         \A f \in Answered(Row(o).reads) : s[f] = t[f]
  PROVE  /\ Stale(o, b, s) <=> Stale(o, b, t)
         /\ Refused(o, s) <=> Refused(o, t)
         /\ NoOp(o, s) <=> NoOp(o, t)
         /\ \A f \in GroupFields(o) : Desired(o, s)[f] = Desired(o, t)[f]
<1>1. \A f \in Answered(Row(o).reads) : t[f] = s[f]
  OBVIOUS
<1>2. Stale(o, b, s) <=> Stale(o, b, t)
  <2>1. Stale(o, b, s) => Stale(o, b, t)
    BY <1>1, StalenessIsInformed
  <2>2. Stale(o, b, t) => Stale(o, b, s)
    BY StalenessIsInformed
  <2> QED BY <2>1, <2>2
<1>3. Refused(o, s) <=> Refused(o, t)
  <2>1. Refused(o, s) => Refused(o, t)
    BY <1>1, RefusalIsInformed
  <2>2. Refused(o, t) => Refused(o, s)
    BY RefusalIsInformed
  <2> QED BY <2>1, <2>2
<1>4. \A f \in GroupFields(o) : s[f] = t[f]
  BY OperationsAreWellFormed DEF SoundRow, GroupFields
<1>5. \A f \in GroupFields(o) : Desired(o, s)[f] = Desired(o, t)[f]
  BY <1>4, DesiredIsLocal
<1>6. \A f \in GroupFields(o) : WriteState(o, s)[f] = WriteState(o, t)[f]
  BY <1>4, WriteStateIsLocal
<1>7. NoOp(o, s) <=> NoOp(o, t)
  BY <1>5, <1>6 DEF NoOp, Differs
<1> QED BY <1>2, <1>3, <1>5, <1>7

\* A fresh GET is invisible to the store, except that the last one may end the
\* operation with a refusal or with nothing to do, as the store has it then.
LEMMA ReadResolves ==
  ASSUME CarefulInv, NEW c \in Client, Read(c)
  PROVE  Store!Refuse(c) \/ Store!Skip(c) \/ UNCHANGED Store!storeVars
<1>1. /\ Typed /\ Step(c) /\ ~sent[c] /\ sent' = sent /\ op' = op /\ pc[c] = "read"
      /\ op[c] \in Operation /\ dev \in [Field -> Value]
  BY TypedFromInv DEF CarefulInv, Inv, Reporting, Step, Read, Typed
<1>2. StorePhase[c] = "open" /\ UNCHANGED StoreTarget
  BY <1>1, StaysOpen DEF StorePhase
<1>3. CASE pc'[c] # "idle"
  <2>1. UNCHANGED result
    BY <1>1, <1>3 DEF Read, End, Typed
  <2>2. UNCHANGED StorePhase
    BY <1>1, <1>3, StaysOpen
  <2> QED BY <1>2, <2>1, <2>2 DEF Read, Store!storeVars
<1>4. CASE pc'[c] = "idle"
  <2>1. StorePhase' = [StorePhase EXCEPT ![c] = "idle"]
    BY <1>1, <1>4, StaysOpen
  <2>2. LastGet(c)
    BY <1>1, <1>4 DEF Read, Typed
  <2>3. before'[c] \in [Field -> Value]
    BY <1>1, ReceivedType DEF Read, Typed
  <2>4. /\ Stale(op[c], base[c], before'[c]) <=> Stale(op[c], base[c], dev)
        /\ Refused(op[c], before'[c]) <=> Refused(op[c], dev)
        /\ NoOp(op[c], before'[c]) <=> NoOp(op[c], dev)
    BY <1>1, <2>2, <2>3, ReadIsCurrent, SameAnswers
  <2>5. ~RefusedUpFront(op[c], base[c])
    BY <1>1 DEF CarefulInv, Inv, Checked
  <2>6. \/ Rejected(c, before'[c]) /\ End(c, "refused")
        \/ /\ ~Rejected(c, before'[c]) /\ NoOp(op[c], before'[c])
           /\ End(c, "unchanged")
    BY <1>1, <1>4 DEF Read, Typed
  <2>7. CASE Rejected(c, before'[c]) /\ End(c, "refused")
    <3>1. ~Store!Allowed(c)
      BY <2>4, <2>7 DEF Rejected, Store!Allowed
    <3> QED BY <1>2, <2>1, <2>7, <3>1 DEF Read, End, Store!Refuse, Store!Answer
  <2>8. CASE ~Rejected(c, before'[c]) /\ NoOp(op[c], before'[c]) /\ End(c, "unchanged")
    <3>1. Store!Allowed(c) /\ NoOp(op[c], dev)
      BY <2>4, <2>5, <2>8 DEF Rejected, Store!Allowed
    <3> QED BY <1>2, <2>1, <2>8, <3>1 DEF Read, End, Store!Skip, Store!Answer
  <2> QED BY <2>6, <2>7, <2>8
<1> QED BY <1>3, <1>4

\* When a POST is about to leave, the store would let it through.
LEMMA PostIsAllowed ==
  ASSUME CarefulInv, NEW c \in Client, pc[c] = "post"
  PROVE  /\ StorePhase[c] = "open" /\ Store!Allowed(c) /\ ~NoOp(op[c], dev)
         /\ \A f \in GroupFields(op[c]) : Goal(c)[f] = Desired(op[c], dev)[f]
<1>1. /\ op[c] \in Operation /\ dev \in [Field -> Value] /\ before[c] \in [Field -> Value]
      /\ ~sent[c]
  BY TypedFromInv DEF CarefulInv, Inv, Reporting, Typed
<1>2. /\ Stale(op[c], base[c], before[c]) <=> Stale(op[c], base[c], dev)
      /\ Refused(op[c], before[c]) <=> Refused(op[c], dev)
      /\ NoOp(op[c], before[c]) <=> NoOp(op[c], dev)
      /\ \A f \in GroupFields(op[c]) :
           Desired(op[c], before[c])[f] = Desired(op[c], dev)[f]
  BY <1>1, HeldIsCurrent, SameAnswers
<1>3. /\ ~RefusedUpFront(op[c], base[c])
      /\ ~Stale(op[c], base[c], before[c]) /\ ~Refused(op[c], before[c])
      /\ ~NoOp(op[c], before[c])
  BY DEF CarefulInv, Inv, Checked, SomethingToWrite
<1> QED BY <1>1, <1>2, <1>3 DEF StorePhase, Goal, Store!Allowed

\* A step that sends fixes what the store will have of this client's group.
LEMMA SendingFixesTarget ==
  ASSUME CarefulInv, NEW c \in Client, pc[c] = "post", Step(c),
         op' = op, before' = before, sent' = [sent EXCEPT ![c] = TRUE]
  PROVE  /\ StoreTarget' = [StoreTarget EXCEPT ![c] =
              [f \in GroupFields(op[c]) |-> Desired(op[c], dev)[f]]]
         /\ StorePhase' = [StorePhase EXCEPT ![c] =
              IF pc'[c] = "idle" THEN "idle" ELSE "settled"]
<1>1. Typed /\ sent'[c] /\ op'[c] = op[c] /\ before'[c] = before[c]
  BY TypedFromInv DEF CarefulInv, Typed
<1>2. [f \in GroupFields(op[c]) |-> Desired(op[c], before[c])[f]]
        = [f \in GroupFields(op[c]) |-> Desired(op[c], dev)[f]]
  BY PostIsAllowed DEF Goal
<1> QED BY <1>1, <1>2, OneClientMoves

\* The POST is the one instant at which an operation acts on the store.
LEMMA PostApplies ==
  ASSUME CarefulInv, NEW c \in Client, NEW u \in Unstored \union {{}},
         NEW a \in BOOLEAN, Post(c, u, a)
  PROVE  Store!Apply(c)
<1>1. Typed /\ Step(c) /\ pc[c] = "post" /\ op' = op /\ before' = before
  BY TypedFromInv DEF CarefulInv, Step, Post
<1>2. sent' = [sent EXCEPT ![c] = TRUE]
  BY DEF Post
<1>3. /\ StorePhase[c] = "open" /\ Store!Allowed(c) /\ ~NoOp(op[c], dev)
      /\ \A f \in GroupFields(op[c]) : Goal(c)[f] = Desired(op[c], dev)[f]
  BY <1>1, PostIsAllowed
<1>4. /\ StoreTarget' = [StoreTarget EXCEPT ![c] =
           [f \in GroupFields(op[c]) |-> Desired(op[c], dev)[f]]]
      /\ StorePhase' = [StorePhase EXCEPT ![c] =
           IF pc'[c] = "idle" THEN "idle" ELSE "settled"]
  BY <1>1, <1>2, SendingFixesTarget
<1>5. StoreTarget'[c] = [f \in GroupFields(op[c]) |-> Desired(op[c], dev)[f]]
  BY <1>4 DEF StoreTarget
<1>6. /\ dev' = [f \in Field |-> IF f \in GroupFields(op[c]) \ u
                                 THEN StoreTarget'[c][f] ELSE dev[f]]
      /\ writer' = [writer EXCEPT ![Row(op[c]).group] = c]
  BY <1>3, <1>5 DEF Post
<1>7. \/ StorePhase' = [StorePhase EXCEPT ![c] = "settled"] /\ UNCHANGED result
      \/ /\ StorePhase' = [StorePhase EXCEPT ![c] = "idle"]
         /\ result' = [result EXCEPT ![c] = "failed"]
  <2>1. \/ pc'[c] = "verify" /\ UNCHANGED result
        \/ pc'[c] = "idle" /\ result' = [result EXCEPT ![c] = "failed"]
    BY <1>1 DEF Post, Enter, End, Typed
  <2> QED BY <1>4, <2>1
<1>8. UNCHANGED <<edits, op, base, ops>>
  BY DEF Post
<1> QED BY <1>3, <1>4, <1>6, <1>7, <1>8 DEF Store!Apply

\* A request that fails ends the operation; a POST that never arrives is one
\* that the store was asked for and did not make.
LEMMA FailureFails ==
  ASSUME CarefulInv, NEW c \in Client, RequestFails(c)
  PROVE  Store!Apply(c) \/ Store!Fail(c)
<1>1. Typed /\ Step(c) /\ pc[c] # "idle" /\ op' = op /\ before' = before /\ pc'[c] = "idle"
  BY TypedFromInv DEF CarefulInv, Step, RequestFails, End, Typed
<1>2. StorePhase[c] # "idle" /\ result' = [result EXCEPT ![c] = "failed"]
  BY <1>1 DEF StorePhase, RequestFails, End
<1>3. CASE pc[c] = "post"
  <2>1. sent' = [sent EXCEPT ![c] = TRUE]
    BY <1>3 DEF RequestFails
  <2>2. /\ StorePhase[c] = "open" /\ Store!Allowed(c) /\ ~NoOp(op[c], dev)
    BY <1>3, PostIsAllowed
  <2>3. /\ StoreTarget' = [StoreTarget EXCEPT ![c] =
             [f \in GroupFields(op[c]) |-> Desired(op[c], dev)[f]]]
        /\ StorePhase' = [StorePhase EXCEPT ![c] = "idle"]
    BY <1>1, <1>3, <2>1, SendingFixesTarget
  <2>4. UNCHANGED <<dev, writer, edits, op, base, ops>>
    BY DEF RequestFails
  <2> QED BY <1>2, <2>2, <2>3, <2>4 DEF Store!Apply
<1>4. CASE pc[c] # "post"
  <2>1. sent' = sent
    BY <1>1, <1>4 DEF RequestFails, Typed
  <2>2. UNCHANGED StoreTarget /\ StorePhase' = [StorePhase EXCEPT ![c] = "idle"]
    BY <1>1, <2>1, StaysOpen
  <2> QED BY <1>2, <2>2 DEF RequestFails, Store!Fail, Store!Answer
<1> QED BY <1>3, <1>4

\* So does an answer from another firmware, or one that cannot be decoded.
LEMMA RejectionFails ==
  ASSUME CarefulInv, NEW c \in Client, RejectAnswer(c)
  PROVE  Store!Fail(c)
<1>1. Typed /\ Step(c) /\ pc[c] # "idle" /\ pc'[c] = "idle"
      /\ op' = op /\ before' = before /\ sent' = sent
  BY TypedFromInv DEF CarefulInv, Step, RejectAnswer, End, Typed
<1>2. StorePhase[c] # "idle" /\ result' = [result EXCEPT ![c] = "protocol"]
  BY <1>1 DEF StorePhase, RejectAnswer, End
<1>3. UNCHANGED StoreTarget /\ StorePhase' = [StorePhase EXCEPT ![c] = "idle"]
  BY <1>1, StaysOpen
<1> QED BY <1>2, <1>3 DEF RejectAnswer, Store!Fail, Store!Answer

\* A readback is invisible until it ends, and reports success only of a group
\* that is as it was meant or that has another last writer by then.
LEMMA VerifySucceeds ==
  ASSUME CarefulInv, CarefulInv', NEW c \in Client, Verify(c)
  PROVE  Store!Succeed(c) \/ Store!Fail(c) \/ UNCHANGED Store!storeVars
<1>1. /\ Typed /\ Step(c) /\ pc[c] = "verify" /\ sent[c]
      /\ op' = op /\ before' = before /\ sent' = sent
  BY TypedFromInv DEF CarefulInv, Inv, Reporting, Step, Verify
<1>2. StorePhase[c] = "settled" /\ UNCHANGED StoreTarget
  BY <1>1, StaysOpen DEF StorePhase
<1>3. CASE ~LastGet(c)
  <2>1. pc' = pc /\ result' = result
    BY <1>3 DEF Verify
  <2>2. UNCHANGED StorePhase
    BY <1>1, <2>1, StaysOpen
  <2> QED BY <1>2, <2>1, <2>2 DEF Verify, Store!storeVars
<1>4. CASE LastGet(c)
  <2>1. pc'[c] = "idle" /\ \E v \in {"changed", "protocol"} : result' = [result EXCEPT ![c] = v]
    BY <1>1, <1>4 DEF Verify, End, Typed
  <2>2. StorePhase' = [StorePhase EXCEPT ![c] = "idle"]
    BY <1>1, <2>1, StaysOpen
  <2>3. CASE result' = [result EXCEPT ![c] = "protocol"]
    BY <1>2, <2>2, <2>3 DEF Verify, Store!Fail, Store!Answer
  <2>4. CASE result' = [result EXCEPT ![c] = "changed"]
    <3>1. result'[c] = "changed"
      BY <1>1, <2>4 DEF Typed
    <3>2. writer[Row(op[c]).group] = c =>
            ~Differs(GroupFields(op[c]), WriteState(op[c], dev), Goal(c))
      <4>1. Confirmed(c)' = Field
        BY <2>1, <3>1 DEF Confirmed
      <4>2. GroupFields(op[c]) \intersect Field = GroupFields(op[c])
        BY DEF GroupFields, Members
      <4>3. ReadbackStands' /\ dev' = dev /\ writer' = writer
        BY DEF CarefulInv, Inv, Verify
      <4> QED BY <1>1, <4>1, <4>2, <4>3 DEF ReadbackStands, Goal
    <3>3. \A f \in GroupFields(op[c]) : StoreTarget[c][f] = Goal(c)[f]
      BY <1>1 DEF StoreTarget
    <3>4. writer[Row(op[c]).group] = c =>
            ~Differs(GroupFields(op[c]), WriteState(op[c], dev), StoreTarget[c])
      BY <3>2, <3>3 DEF Differs
    <3> QED BY <1>2, <2>2, <2>4, <3>4 DEF Verify, Store!Succeed, Store!Answer
  <2> QED BY <2>1, <2>3, <2>4
<1> QED BY <1>3, <1>4

-----------------------------------------------------------------------------
(* Step by step.                                                            *)

\* The switch starts as the store does.
LEMMA InitIsStoreInit == Init => Store!StoreInit
<1> SUFFICES ASSUME Init PROVE Store!StoreInit
  OBVIOUS
<1>1. StorePhase = [c \in Client |-> "idle"]
  BY DEF Init, StorePhase
<1>2. StoreTarget = [c \in Client |-> Blank]
  BY DEF Init, StoreTarget
<1> QED BY <1>1, <1>2 DEF Init, Blank, Store!StoreInit, Store!Nothing

\* Every step of the careful clients is a step of the store or a stutter.
LEMMA StepRefines ==
  ASSUME CarefulInv, [CarefulNext]_vars
  PROVE  [Store!StoreNext]_Store!storeVars
<1>1. CarefulInv'
  BY CarefulStep
<1>2. ASSUME NEW c \in Client, Step(c)
      PROVE  [Store!StoreNext]_Store!storeVars
  <2>1. ASSUME NEW o \in Operation, Begin(c, o)
        PROVE  Store!StoreNext
    BY <2>1, BeginAsks DEF Store!StoreNext
  <2>2. CASE Plan(c)
    BY <2>2, PlanExpects DEF Store!StoreNext
  <2>3. CASE Read(c)
    BY <2>3, ReadResolves DEF Store!StoreNext
  <2>4. ASSUME NEW u \in Unstored \union {{}}, NEW a \in BOOLEAN, Post(c, u, a)
        PROVE  Store!StoreNext
    BY <2>4, PostApplies DEF Store!StoreNext
  <2>5. CASE Verify(c)
    BY <1>1, <2>5, VerifySucceeds DEF Store!StoreNext
  <2>6. CASE RejectAnswer(c)
    BY <2>6, RejectionFails DEF Store!StoreNext
  <2>7. CASE RequestFails(c)
    BY <2>7, FailureFails DEF Store!StoreNext
  <2> QED BY <1>2, <2>1, <2>2, <2>3, <2>4, <2>5, <2>6, <2>7 DEF Step
<1>3. ASSUME NEW f \in Editable, NEW v \in Value, Edit(f, v)
      PROVE  Store!StoreNext
  <2>1. UNCHANGED <<StorePhase, StoreTarget>>
    BY <1>3 DEF Edit, clientVars, StorePhase, StoreTarget, Goal
  <2>2. Store!StoreEdit(f, v)
    BY <1>3, <2>1 DEF Edit, clientVars, Store!StoreEdit
  <2> QED BY <2>2 DEF Store!StoreNext
<1>4. CASE UNCHANGED vars
  BY <1>4 DEF vars, clientVars, Store!storeVars, StorePhase, StoreTarget, Goal
<1> QED BY <1>2, <1>3, <1>4 DEF CarefulNext, Next

\* The careful clients keep the invariant of the guarded writes, and send
\* nothing that would change nothing.
THEOREM CarefulInvCorrect == CarefulSpec => []CarefulInv
<1>1. CarefulInv /\ [CarefulNext]_vars => CarefulInv'
  BY CarefulStep
<1> QED BY <1>1, CarefulInit, PTL DEF CarefulSpec

\* Kept out of the window between a fresh read and its POST, the guarded writes
\* of any number of clients make the switch an atomic compare-and-set store.
THEOREM WritesActAtomically == CarefulSpec => ActsAtomically
<1>1. CarefulInv /\ [CarefulNext]_vars => [Store!StoreNext]_Store!storeVars
  BY StepRefines
<1> QED BY <1>1, InitIsStoreInit, CarefulInvCorrect, PTL
        DEF CarefulSpec, ActsAtomically, Store!StoreSpec
=============================================================================
