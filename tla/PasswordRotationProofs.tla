----------------------- MODULE PasswordRotationProofs -----------------------
(***************************************************************************)
(* The properties of PasswordRotation, for any clients and passwords.  The  *)
(* argument is RotationInv: a marked rotation's password is the switch's as  *)
(* long as its client is the last to have set one, so a verification that    *)
(* fails by credentials proves that somebody else has set another.           *)
(***************************************************************************)
EXTENDS PasswordRotation, TLAPS

\* Before anybody has rotated anything the invariant holds.
LEMMA InitRotation == Init => RotationInv
BY PasswordAssumption, RotatorAssumption
   DEF Init, RotationInv, TypeOK, HonestRotation, LockoutIsTold, Rotating, Phase, Result

\* Every action of a client keeps it.
LEMMA StepRotation ==
  ASSUME RotationInv, NEW c \in Client, Step(c)
  PROVE RotationInv'
<1> USE PasswordAssumption, RotatorAssumption
<1> USE DEF RotationInv, TypeOK, HonestRotation, LockoutIsTold, Rotating,
            Phase, Result, Alarming, Enter, End, adapterVars
<1>1. ASSUME NEW p \in Password, Connect(c, p) PROVE RotationInv'
  BY <1>1 DEF Connect, Admits
<1>2. ASSUME NEW n \in Password, NEW reads \in BOOLEAN, Begin(c, n, reads)
      PROVE RotationInv'
  <2>1. CASE Valid(c, n)
    BY <1>2, <2>1 DEF Begin, Valid
  <2>2. CASE ~Valid(c, n)
    BY <1>2, <2>2 DEF Begin
  <2> QED BY <2>1, <2>2
<1>3. CASE Look(c)
  BY <1>3 DEF Look, Denied, MeetsStranger
<1>4. CASE PostRefused(c)
  BY <1>4 DEF PostRefused, Denied
<1>5. CASE Verify(c)
  BY <1>5 DEF Verify, Denied, MeetsStranger, Admits
<1>6. CASE RequestFails(c)
  BY <1>6 DEF RequestFails
<1>7. ASSUME NEW answered \in BOOLEAN, Post(c, answered) PROVE RotationInv'
  <2>1. CASE answered
    BY <1>7, <2>1 DEF Post
  <2>2. CASE ~answered
    BY <1>7, <2>2 DEF Post
  <2> QED BY <2>1, <2>2
<1> QED BY <1>1, <1>2, <1>3, <1>4, <1>5, <1>6, <1>7 DEF Step

\* So does whatever anybody else does, and nothing at all.
LEMMA NextRotation == RotationInv /\ [Next]_vars => RotationInv'
<1> SUFFICES ASSUME RotationInv, [Next]_vars PROVE RotationInv'
  OBVIOUS
<1> USE PasswordAssumption, RotatorAssumption
<1>1. ASSUME NEW c \in Client, Step(c) PROVE RotationInv'
  BY <1>1, StepRotation
<1>2. ASSUME NEW p \in Sendable, SetElsewhere(p) PROVE RotationInv'
  BY <1>2 DEF SetElsewhere, RotationInv, TypeOK, HonestRotation, LockoutIsTold,
              Rotating, adapterVars
<1>3. ASSUME NEW f \in Firmware, Reflash(f) PROVE RotationInv'
  BY <1>3 DEF Reflash, RotationInv, TypeOK, HonestRotation, LockoutIsTold,
              Rotating, adapterVars
<1>4. CASE UNCHANGED vars
  BY <1>4 DEF vars, RotationInv, TypeOK, HonestRotation, LockoutIsTold,
              Rotating, adapterVars
<1> QED BY <1>1, <1>2, <1>3, <1>4 DEF Next

\* RotationInv holds in every reachable state.
THEOREM RotationInvCorrect == Spec => []RotationInv
BY InitRotation, NextRotation, PTL DEF Spec

\* Variables keep their types, and only encodable passwords are ever posted.
THEOREM RotationTypeCorrect == Spec => []TypeOK
<1>1. RotationInv => TypeOK
  BY DEF RotationInv
<1> QED BY <1>1, RotationInvCorrect, PTL

\* set_admin_password: an adapter out of step with a password that its own
\* rotation set has reported a failure and nothing else.
THEOREM LockoutCorrect == Spec => []LockoutIsTold
<1>1. RotationInv => LockoutIsTold
  BY DEF RotationInv
<1> QED BY <1>1, RotationInvCorrect, PTL

\* set_admin_password: refusals and rejections come before any change, success
\* after one.
THEOREM HonestRotationCorrect == Spec => []HonestRotation
<1>1. RotationInv => HonestRotation
  BY DEF RotationInv
<1> QED BY <1>1, RotationInvCorrect, PTL

\* The adapter's connection is replaced only at the probe or the verification
\* that the switch has answered.
THEOREM AdoptionCorrect == Spec => AdoptsOnlyWhatWorks
<1> DEFINE Adopts == \A c \in Client : held'[c] # held[c] =>
                       held'[c] = password /\ identity'[c] = firmware
<1>1. ASSUME RotationInv, [Next]_vars PROVE Adopts
  <2> SUFFICES ASSUME NEW d \in Client, held'[d] # held[d]
               PROVE held'[d] = password /\ identity'[d] = firmware
    OBVIOUS
  <2> USE DEF RotationInv, TypeOK
  <2>1. CASE UNCHANGED vars
    BY <2>1 DEF vars, adapterVars
  <2>2. ASSUME NEW p \in Sendable, SetElsewhere(p) PROVE FALSE
    BY <2>2 DEF SetElsewhere, adapterVars
  <2>3. ASSUME NEW f \in Firmware, Reflash(f) PROVE FALSE
    BY <2>3 DEF Reflash, adapterVars
  <2>4. ASSUME NEW c \in Client, Step(c)
        PROVE held'[d] = password /\ identity'[d] = firmware
    <3>1. ASSUME NEW p \in Password, Connect(c, p)
          PROVE held'[d] = password /\ identity'[d] = firmware
      BY <1>1, <2>4, <3>1 DEF Connect, Admits
    <3>2. CASE Verify(c)
      BY <1>1, <2>4, <3>2 DEF Verify, Denied, MeetsStranger, Admits, adapterVars
    <3>3. CASE UNCHANGED held
      BY <3>3
    <3>4. ASSUME NEW n \in Password, NEW reads \in BOOLEAN, Begin(c, n, reads)
          PROVE UNCHANGED held
      BY <3>4 DEF Begin, adapterVars
    <3>5. ASSUME Look(c) \/ PostRefused(c) \/ RequestFails(c) PROVE UNCHANGED held
      BY <3>5 DEF Look, PostRefused, RequestFails, Denied, MeetsStranger, adapterVars
    <3>6. ASSUME NEW answered \in BOOLEAN, Post(c, answered) PROVE UNCHANGED held
      BY <3>6 DEF Post, adapterVars
    <3> QED BY <2>4, <3>1, <3>2, <3>3, <3>4, <3>5, <3>6 DEF Step
  <2> QED BY <1>1, <2>1, <2>2, <2>3, <2>4 DEF Next
<1>2. Adopts => [Adopts]_vars
  OBVIOUS
<1> QED BY <1>1, RotationInvCorrect, PTL DEF Spec, AdoptsOnlyWhatWorks
=============================================================================
