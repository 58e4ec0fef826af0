-------------------------- MODULE PasswordRotation --------------------------
(***************************************************************************)
(* Administrator password rotation.  A client posts the new password with   *)
(* the old one's credentials and believes only a GET that the switch has     *)
(* answered to the new one.  The password cannot be read, so between the two *)
(* requests, and after any lost answer, the client and the switch may        *)
(* disagree on it, and then every later call of the adapter is refused.      *)
(***************************************************************************)
EXTENDS Naturals

CONSTANTS
  Client,      \* CLI processes, Ansible tasks and API users
  Password,    \* what a caller may give as a password
  Sendable,    \* those of at most 15 code units, which the switch may have
  Writable,    \* those of ASCII units only, which the library may set
  Firmware,    \* the identities the switch may report
  MaxOps,      \* bound: rotations per client
  MaxEdits     \* bound: passwords set, or firmware changed, by others

ASSUME PasswordAssumption == Writable \subseteq Sendable /\ Sendable \subseteq Password
ASSUME RotatorAssumption == "outside" \notin Client /\ MaxOps \in Nat /\ MaxEdits \in Nat

VARIABLES
  password,    \* the switch's password
  firmware,    \* the identity it reports
  edits,       \* how often others have changed either
  pc,          \* per client: out (never connected), idle, look, post, verify
  held,        \* per client: the password of the adapter's connection
  identity,    \* per client: the identity that was probed
  new,         \* per client: the password asked for
  result,      \* per client: how the last call ended
  ops,         \* per client: rotations begun
  took,        \* history: this rotation's POST has changed the password
  setter       \* history: who set the password last

adapterVars == <<held, identity>>
vars == <<password, firmware, edits, pc, adapterVars, new, result, ops, took, setter>>

Phase == {"out", "idle", "look", "post", "verify"}
Result == {"none", "changed", "refused", "rejected", "denied", "protocol", "failed"}

\* What the caller of a rotation may be told although the password has changed.
Alarming == {"denied", "protocol", "failed"}

Init ==
  /\ password \in Sendable /\ firmware \in Firmware /\ edits = 0
  /\ pc = [c \in Client |-> "out"]
  /\ held \in [Client -> {password}] /\ identity \in [Client -> {firmware}]
  /\ new \in [Client -> {password}]
  /\ result = [c \in Client |-> "none"]
  /\ ops = [c \in Client |-> 0]
  /\ took = [c \in Client |-> FALSE]
  /\ setter = "outside"

-----------------------------------------------------------------------------
Enter(c, phase) == pc' = [pc EXCEPT ![c] = phase] /\ UNCHANGED result

End(c, r) ==
  /\ pc' = [pc EXCEPT ![c] = "idle"]
  /\ result' = [result EXCEPT ![c] = r]

\* Digest authentication: a request is answered to the current password only.
Admits(p) == p = password

ValidLength(c, n) == held[c] \in Sendable /\ n \in Sendable   \* mutant: any units

\* Both inputs fit the encoder's 32-unit buffer, and the new one is ASCII.
Valid(c, n) == held[c] \in Sendable /\ n \in Writable

\* A new adapter: the probe is a GET with the caller's password.
Connect(c, p) ==
  /\ pc[c] \in {"out", "idle"} /\ Admits(p)
  /\ held' = [held EXCEPT ![c] = p]
  /\ identity' = [identity EXCEPT ![c] = firmware]
  /\ End(c, "none")
  /\ UNCHANGED <<password, firmware, edits, new, ops, took, setter>>

\* The inputs are checked before any request; a playbook task then reads the
\* system first, the CLI and API users post at once.
Begin(c, n, reads) ==
  /\ pc[c] = "idle" /\ ops[c] < MaxOps
  /\ new' = [new EXCEPT ![c] = n]
  /\ ops' = [ops EXCEPT ![c] = @ + 1]
  /\ took' = [took EXCEPT ![c] = FALSE]
  /\ IF Valid(c, n)
     THEN /\ pc' = [pc EXCEPT ![c] = IF reads THEN "look" ELSE "post"]
          /\ result' = [result EXCEPT ![c] = "none"]
     ELSE End(c, "refused")
  /\ UNCHANGED <<password, firmware, edits, adapterVars, setter>>

\* A GET with password p, of the adapter that was probed as identity[c].
Denied(c, p) ==
  /\ ~Admits(p)
  /\ End(c, "denied")
  /\ UNCHANGED adapterVars

MeetsStranger(c, p) ==
  /\ Admits(p) /\ firmware # identity[c]
  /\ End(c, "protocol")
  /\ UNCHANGED adapterVars

Look(c) ==
  /\ pc[c] = "look"
  /\ \/ Denied(c, held[c])
     \/ MeetsStranger(c, held[c])
     \/ /\ Admits(held[c]) /\ firmware = identity[c]
        /\ Enter(c, "post")
        /\ UNCHANGED adapterVars
  /\ UNCHANGED <<password, firmware, edits, new, ops, took, setter>>

\* Mutant: the connection takes the new password before it is verified.
PostAdopting(c, answered) ==
  /\ pc[c] = "post" /\ Admits(held[c])
  /\ password' = new[c]
  /\ took' = [took EXCEPT ![c] = TRUE]
  /\ setter' = c
  /\ IF answered
     THEN Enter(c, "verify") /\ held' = [held EXCEPT ![c] = new[c]]
     ELSE End(c, "failed") /\ UNCHANGED held
  /\ UNCHANGED <<firmware, edits, identity, new, ops>>

\* The switch takes the new password; its answer may be lost.
Post(c, answered) ==
  /\ pc[c] = "post" /\ Admits(held[c])
  /\ password' = new[c]
  /\ took' = [took EXCEPT ![c] = TRUE]
  /\ setter' = c
  /\ IF answered THEN Enter(c, "verify") ELSE End(c, "failed")
  /\ UNCHANGED <<firmware, edits, adapterVars, new, ops>>

\* The switch answers 401 to credentials it does not know, or declines the
\* body with 405, which alone is reported as a rejected password.
PostRefused(c) ==
  /\ pc[c] = "post"
  /\ \/ Denied(c, held[c])
     \/ Admits(held[c]) /\ End(c, "rejected") /\ UNCHANGED adapterVars
  /\ UNCHANGED <<password, firmware, edits, new, ops, took, setter>>

\* Mutant: the adapter goes on with the old connection.
VerifyForgetting(c) ==
  /\ pc[c] = "verify"
  /\ \/ Denied(c, new[c])
     \/ MeetsStranger(c, new[c])
     \/ /\ Admits(new[c]) /\ firmware = identity[c]
        /\ End(c, "changed")
        /\ UNCHANGED adapterVars
  /\ UNCHANGED <<password, firmware, edits, new, ops, took, setter>>

\* Mutant: the verification is inside the block that turns refusals of the
\* POST into a rejected password.
VerifyRejecting(c) ==
  /\ pc[c] = "verify"
  /\ \/ ~Admits(new[c]) /\ End(c, "rejected") /\ UNCHANGED adapterVars
     \/ MeetsStranger(c, new[c])
     \/ /\ Admits(new[c]) /\ firmware = identity[c]
        /\ held' = [held EXCEPT ![c] = new[c]]
        /\ End(c, "changed")
        /\ UNCHANGED identity
  /\ UNCHANGED <<password, firmware, edits, new, ops, took, setter>>

\* The readback goes out with the new password only; the adapter's connection
\* is replaced when the probed switch has answered it, and not before.
Verify(c) ==
  /\ pc[c] = "verify"
  /\ \/ Denied(c, new[c])
     \/ MeetsStranger(c, new[c])
     \/ /\ Admits(new[c]) /\ firmware = identity[c]
        /\ held' = [held EXCEPT ![c] = new[c]]
        /\ End(c, "changed")
        /\ UNCHANGED identity
  /\ UNCHANGED <<password, firmware, edits, new, ops, took, setter>>

\* A lost request, or an answer that is neither 401 nor, to the POST, 405.
RequestFails(c) ==
  /\ pc[c] \in {"look", "post", "verify"}
  /\ End(c, "failed")
  /\ UNCHANGED <<password, firmware, edits, adapterVars, new, ops, took, setter>>

\* The web UI, or a factory reset.
SetElsewhere(p) ==
  /\ edits < MaxEdits /\ p # password
  /\ edits' = edits + 1
  /\ password' = p
  /\ setter' = "outside"
  /\ UNCHANGED <<firmware, pc, adapterVars, new, result, ops, took>>

Reflash(f) ==
  /\ edits < MaxEdits /\ f # firmware
  /\ edits' = edits + 1
  /\ firmware' = f
  /\ UNCHANGED <<password, pc, adapterVars, new, result, ops, took, setter>>

Step(c) ==
  \/ \E p \in Password : Connect(c, p)
  \/ \E n \in Password, reads \in BOOLEAN : Begin(c, n, reads)
  \/ Look(c) \/ PostRefused(c) \/ Verify(c) \/ RequestFails(c)
  \/ \E answered \in BOOLEAN : Post(c, answered)

Next ==
  \/ \E c \in Client : Step(c)
  \/ \E p \in Sendable : SetElsewhere(p)
  \/ \E f \in Firmware : Reflash(f)

Spec == Init /\ [][Next]_vars
-----------------------------------------------------------------------------
(* Properties.                                                              *)

\* Every variable has its type; a POST carries only what the encoder can hold.
TypeOK ==
  /\ password \in Sendable /\ firmware \in Firmware /\ edits \in Nat
  /\ pc \in [Client -> Phase]
  /\ held \in [Client -> Password] /\ identity \in [Client -> Firmware]
  /\ new \in [Client -> Password]
  /\ \A c \in Client :
       pc[c] \in {"look", "post", "verify"} => held[c] \in Sendable /\ new[c] \in Writable
  /\ result \in [Client -> Result]
  /\ ops \in [Client -> Nat]
  /\ took \in [Client -> BOOLEAN]
  /\ setter \in Client \union {"outside"}

\* A caller whose rotation changed the password, and whose adapter does not
\* hold that password, has been told of a failure that may mean a lockout; it
\* never hears success, a refusal or a rejection as long as its password is
\* the one the switch has.
LockoutIsTold ==
  \A c \in Client :
    pc[c] = "idle" /\ took[c] /\ setter = c /\ held[c] # password =>
      result[c] \in Alarming

\* A refusal or a rejection means that the password was not changed; success
\* means that this rotation itself changed it.
HonestRotation ==
  \A c \in Client :
    /\ result[c] \in {"refused", "rejected"} => ~took[c]
    /\ result[c] = "changed" => took[c]

\* An adapter takes a password only when the switch that was probed has just
\* answered to it: no failure of any step leaves it with an unproved one.
AdoptsOnlyWhatWorks ==
  [][\A c \in Client : held'[c] # held[c] =>
       held'[c] = password /\ identity'[c] = firmware]_vars

-----------------------------------------------------------------------------
(* Why they hold: an invariant that every step preserves.                   *)

\* A rotation is marked only from its POST on, it alone is being verified, and
\* its password is the switch's while nobody else has set one.
Rotating ==
  \A c \in Client :
    /\ pc[c] \in {"look", "post"} => ~took[c]
    /\ pc[c] = "verify" => took[c]
    /\ pc[c] \in {"out", "look", "post", "verify"} => result[c] = "none"
    /\ took[c] /\ setter = c => new[c] = password

RotationInv == TypeOK /\ HonestRotation /\ LockoutIsTold /\ Rotating
=============================================================================
