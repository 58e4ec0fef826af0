------------------------ MODULE ManagementReconnect ------------------------
(***************************************************************************)
(* Writing the system object when the write may move the switch to another  *)
(* address: which URL the readback asks, a POST whose answer is lost with    *)
(* the address, up to Attempts polls of that URL, and the connection the     *)
(* adapter keeps afterwards.  Meanwhile the switch reboots, takes another    *)
(* lease or becomes unreachable, another switch of the same product and      *)
(* firmware answers at the address, and somebody else edits the settings.   *)
(***************************************************************************)
EXTENDS Naturals

CONSTANTS
  StaticAddr,   \* addresses an administrator configures
  Unusable,     \* those that no host can have: multicast, loopback, reserved ones
  Lease,        \* addresses the DHCP server hands out
  Alias,        \* host names a connection URL may use instead of an address
  Resolves,     \* the address each alias stands for
  Vlan,         \* management VLANs
  Mac,          \* admin MAC overrides, "unset" among them
  Twin,         \* addresses where a switch of the same kind may answer
  TwinConfig,   \* what such a switch may be configured to
  Boot,         \* [cfg, ip, conn]: how the switch and the adapter start
  Update,       \* the updates callers ask for: functions of settings to values
  Attempts,     \* MANAGEMENT_READBACK_ATTEMPTS, 60 in the code
  MaxOps,       \* bound: operations
  MaxEdits,     \* bound: edits from outside
  MaxMoves      \* bound: address changes that no POST causes

Addr == StaticAddr \union Lease
Host == Addr \union Alias
Mode == {"dhcp_with_fallback", "static", "dhcp_only"}

Config ==
  [mode: Mode, sip: StaticAddr \union {"none"}, vlan: Vlan, amac: Mac]

ASSUME AddressAssumption ==
  /\ Resolves \in [Alias -> Addr]
  /\ {"none", "same"} \intersect Host = {} /\ Alias \intersect Addr = {}
  /\ Unusable \subseteq StaticAddr /\ Unusable \intersect Lease = {}
  /\ Twin \subseteq Addr
  /\ Boot \subseteq [cfg: Config, ip: Addr, conn: Host]
  /\ TwinConfig \subseteq Config

ASSUME UpdateAssumption ==
  \A u \in Update :
    /\ "mode" \in DOMAIN u => u["mode"] \in Mode
    /\ "sip" \in DOMAIN u => u["sip"] \in StaticAddr \union {"none"}
    /\ "vlan" \in DOMAIN u => u["vlan"] \in Vlan
    /\ "amac" \in DOMAIN u => u["amac"] \in Mac

ASSUME BoundAssumption ==
  Attempts \in Nat \ {0} /\ MaxOps \in Nat /\ MaxEdits \in Nat /\ MaxMoves \in Nat

VARIABLES
  cfg,       \* the switch's own management settings
  ip,        \* the address it answers at, or "none"
  conn,      \* the host of the adapter's connection
  pc,        \* idle, plan, read, post, verify, poll
  update, explicit,   \* the caller's update and readback URL ("none": not given)
  base, before,       \* the caller's baseline and the fresh read
  chosen,    \* the URL selected for the readback, "same" for the open transport
  attempt,   \* polls made
  result,    \* how the last operation ended
  ops, edits, moves,
  sent       \* history: the POST was sent

opVars == <<update, explicit, base>>
counts == <<ops, edits>>
vars == <<cfg, ip, conn, pc, opVars, before, chosen, attempt, result, counts, moves,
          sent>>

-----------------------------------------------------------------------------
(* Choosing where to read back.  s is a read of the system object: the       *)
(* settings and the operational address of the moment.                      *)

Info == [cfg |-> cfg, ip |-> ip]

Reach(h) == IF h \in Alias THEN Resolves[h] ELSE h

Target(u, s) ==
  [k \in DOMAIN s.cfg |-> IF k \in DOMAIN u THEN u[k] ELSE s.cfg[k]]

UsesStaticMode(s) == s.cfg.mode = "static"   \* mutant: no address fallback

UsesStatic(s) ==
  \/ s.cfg.mode = "static"
  \/ s.cfg.mode = "dhcp_with_fallback" /\ s.cfg.sip # "none" /\ s.ip = s.cfg.sip

Changed(k, u, s) == Target(u, s)[k] # s.cfg[k]
ActiveStaticChanged(u, s) == Changed("sip", u, s) /\ UsesStatic(s)
PathChanged(u, s) ==
  Changed("mode", u, s) \/ ActiveStaticChanged(u, s) \/ Changed("vlan", u, s)

\* The address follows from the configuration alone.
Deterministic(u, s) ==
  \/ Target(u, s).mode = "static"
  \/ ActiveStaticChanged(u, s) /\ Target(u, s).sip # "none"

UrlSurvives(s) == TRUE   \* mutant: a DHCP change is taken to keep the URL

\* The current URL is provably an active lease.
LeaseKeepsUrl(s) ==
  /\ s.cfg.mode # "static"
  /\ ~(s.cfg.mode = "dhcp_with_fallback" /\ s.ip = s.cfg.sip)
  /\ conn = s.ip

ReadbackUrl(u, s, x) ==
  CASE ~PathChanged(u, s) /\ ~Changed("amac", u, s) -> "same"
    [] (PathChanged(u, s) \/ Changed("amac", u, s)) /\ Deterministic(u, s) ->
         IF Target(u, s).sip = "none" \/ x \notin {"none", Target(u, s).sip}
         THEN "refused" ELSE Target(u, s).sip
    [] OTHER ->
         IF x # "none" /\ PathChanged(u, s) THEN x
         ELSE IF \/ ActiveStaticChanged(u, s)
                 \/ Changed("mode", u, s) /\ ~LeaseKeepsUrl(s)
              THEN "refused" ELSE conn

InvalidButForTheAddress(u, s, x) ==   \* mutant: any static address will do
  \/ ReadbackUrl(u, s, x) = "refused"
  \/ Target(u, s).mode = "static" /\ Target(u, s).sip = "none"
  \/ Target(u, s).mode = "dhcp_only" /\ Changed("sip", u, s)

\* The static address is judged whether the update names it or leaves it alone.
Invalid(u, s, x) ==
  \/ Target(u, s).sip \in Unusable
  \/ ReadbackUrl(u, s, x) = "refused"
  \/ Target(u, s).mode = "static" /\ Target(u, s).sip = "none"
  \/ Target(u, s).mode = "dhcp_only" /\ Changed("sip", u, s)

Goal == Target(update, before)

\* What may answer a GET of /sys.b sent to host h: the switch, or a twin there.
Answers(h) ==
  {[own |-> TRUE, cfg |-> cfg] : a \in {Reach(h)} \intersect {ip}} \union
  {[own |-> FALSE, cfg |-> t] : t \in IF Reach(h) \in Twin THEN TwinConfig ELSE {}}

AnyOfItsKind(answer) == answer.cfg = Goal   \* mutant: no serial or MAC compared

\* An answer ends the polling when the complete state and the serial number and
\* MAC of the original switch are in it.
Verified(answer) == answer.own /\ answer.cfg = Goal

\* Where a switch configured as c may come up; a VLAN may hide it altogether, and an
\* address that no host can have hides it for certain.
Places(c) ==
  (IF c.mode = "static" THEN {} ELSE Lease) \union
  (IF c.mode = "dhcp_only" THEN {} ELSE {c.sip} \ ({"none"} \union Unusable))

\* A switch starts where its configuration puts it.
ASSUME BootAssumption == \A b \in Boot : b.ip \in Places(b.cfg)
-----------------------------------------------------------------------------
Uncounted == attempt          \* mutant: failed polls are not counted
Polled == attempt + 1

OneTooMany(n) == n <= Attempts     \* mutants: one poll more, one poll less
OneTooFew(n) == n + 1 < Attempts
Remaining(n) == n < Attempts

Init ==
  /\ \E b \in Boot : cfg = b.cfg /\ ip = b.ip /\ conn = b.conn
  /\ pc = "idle" /\ chosen = "same" /\ attempt = 0 /\ result = "none"
  /\ update = <<>> /\ explicit = "none"
  /\ base = Info /\ before = Info
  /\ ops = 0 /\ edits = 0 /\ moves = 0
  /\ sent = FALSE

End(r) == pc' = "idle" /\ result' = r

Begin(u, x) ==
  /\ pc = "idle" /\ ops < MaxOps
  /\ pc' = "plan" /\ result' = "none" /\ ops' = ops + 1
  /\ update' = u /\ explicit' = x
  /\ chosen' = "same" /\ attempt' = 0
  /\ sent' = FALSE
  /\ UNCHANGED <<cfg, ip, conn, base, before, edits, moves>>

\* The caller's baseline, then validate_system_configuration on it.
Plan ==
  /\ pc = "plan" /\ Reach(conn) = ip
  /\ base' = Info
  /\ IF Invalid(update, Info, explicit)
     THEN End("refused")
     ELSE pc' = "read" /\ UNCHANGED result
  /\ UNCHANGED <<cfg, ip, conn, update, explicit, before, chosen, attempt, counts,
                 moves, sent>>

\* The fresh read: validated again, compared with the baseline (not its
\* operational address), encoded.
Read ==
  /\ pc = "read" /\ Reach(conn) = ip
  /\ before' = Info
  /\ \/ /\ Invalid(update, Info, explicit) \/ cfg # base.cfg
        /\ End("refused") /\ UNCHANGED chosen
     \/ /\ ~Invalid(update, Info, explicit) /\ cfg = base.cfg
        /\ Target(update, Info) = cfg
        /\ End("unchanged") /\ UNCHANGED chosen
     \/ /\ ~Invalid(update, Info, explicit) /\ cfg = base.cfg
        /\ Target(update, Info) # cfg
        /\ chosen' = ReadbackUrl(update, Info, explicit)
        /\ pc' = "post" /\ UNCHANGED result
  /\ UNCHANGED <<cfg, ip, conn, opVars, attempt, counts, moves, sent>>

\* A twin's answer to the fresh read has another serial number.
ReadTwin ==
  /\ pc = "read" /\ Reach(conn) \in Twin
  /\ End("refused")
  /\ UNCHANGED <<cfg, ip, conn, opVars, before, chosen, attempt, counts, moves, sent>>

\* One POST to the current URL.  The switch stores it or not, and comes up
\* anywhere its new configuration allows, or not at all; the answer is good, is
\* lost, or is a definitive refusal (credentials, HTTP status), which ends it.
Post(taken, answer) ==
  /\ pc = "post" /\ sent' = TRUE
  /\ taken => Reach(conn) = ip
  /\ answer = "good" => Reach(conn) \in {ip} \union Twin
  /\ cfg' = IF taken THEN Goal ELSE cfg
  /\ ip' \in IF taken /\ chosen # "same" THEN {"none"} \union Places(Goal) ELSE {ip}
  /\ \/ /\ answer = "good" /\ chosen = "same"
        /\ pc' = "verify" /\ UNCHANGED result
     \/ /\ answer # "rejected" /\ chosen # "same"
        /\ pc' = "poll" /\ UNCHANGED result
     \/ /\ answer = "rejected" \/ (answer = "lost" /\ chosen = "same")
        /\ End("failed")
  /\ UNCHANGED <<conn, opVars, before, chosen, attempt, counts, moves>>

\* The readback over the open transport: the complete state, whoever answers.
Verify(answer) ==
  /\ pc = "verify"
  /\ End(IF answer.cfg = Goal THEN "changed" ELSE "protocol")
  /\ UNCHANGED <<cfg, ip, conn, opVars, before, chosen, attempt, counts, moves, sent>>

\* A poll that is verified: only now the adapter's connection is replaced.
PollSucceeds(answer) ==
  /\ pc = "poll" /\ Verified(answer)
  /\ conn' = chosen
  /\ End("changed")
  /\ attempt' = Polled
  /\ UNCHANGED <<cfg, ip, opVars, before, chosen, counts, moves, sent>>

\* Any failure counts: no answer, another switch, another state.
PollAgain ==
  /\ pc = "poll"
  /\ attempt' = Polled
  /\ IF Remaining(Polled)
     THEN UNCHANGED <<pc, result>>
     ELSE End("uncertain")
  /\ UNCHANGED <<cfg, ip, conn, opVars, before, chosen, counts, moves, sent>>

\* A GET outside the polling that is not answered.
RequestFails ==
  /\ pc \in {"plan", "read", "verify"}
  /\ End("failed")
  /\ UNCHANGED <<cfg, ip, conn, opVars, before, chosen, attempt, counts, moves, sent>>

\* The switch comes up, renews its lease, falls back or drops out.
Move ==
  /\ moves < MaxMoves /\ moves' = moves + 1
  /\ ip' \in (Places(cfg) \union {"none"}) \ {ip}
  /\ UNCHANGED <<cfg, conn, pc, opVars, before, chosen, attempt, result, counts, sent>>

Edit(k, v) ==
  /\ edits < MaxEdits /\ v # cfg[k] /\ edits' = edits + 1
  /\ cfg' = [cfg EXCEPT ![k] = v]
  /\ k = "mode" => ~(v = "static" /\ cfg.sip = "none")
  /\ ip' \in {"none"} \union Places(cfg')
  /\ UNCHANGED <<conn, pc, opVars, before, chosen, attempt, result, ops, moves, sent>>

Client ==
  \/ Plan \/ Read \/ ReadTwin
  \/ \E taken \in BOOLEAN, answer \in {"good", "lost", "rejected"} : Post(taken, answer)
  \/ \E answer \in Answers(conn) : Verify(answer)
  \/ \E answer \in Answers(chosen) : PollSucceeds(answer)
  \/ PollAgain \/ RequestFails

Next ==
  \/ \E u \in Update, x \in Host \union {"none"} : Begin(u, x)
  \/ Client \/ Move
  \/ \E m \in Mode : Edit("mode", m)
  \/ \E v \in Vlan : Edit("vlan", v)

\* Every request ends, at the latest with its timeout, and the loop goes on.
Spec == Init /\ [][Next]_vars /\ WF_vars(Client)
-----------------------------------------------------------------------------
(* Properties.                                                              *)

\* Every variable has its type: a poll too many, or a connection to nowhere,
\* would break it.
TypeOK ==
  /\ cfg \in Config /\ ip \in Addr \union {"none"} /\ conn \in Host
  /\ pc \in {"idle", "plan", "read", "post", "verify", "poll"}
  /\ update \in Update \union {<<>>} /\ explicit \in Host \union {"none"}
  /\ {base, before} \subseteq [cfg: Config, ip: Addr \union {"none"}]
  /\ chosen \in Host \union {"same"}
  /\ attempt \in 0..Attempts
  /\ result \in {"none", "refused", "unchanged", "failed", "protocol", "changed", "uncertain"}
  /\ ops \in 0..MaxOps /\ edits \in 0..MaxEdits /\ moves \in 0..MaxMoves
  /\ sent \in BOOLEAN

\* The adapter's connection moves only to a host where the original switch
\* answers, in exactly the state the write meant, and together with the report.
AdoptsOnlyTheSwitch ==
  [][conn' # conn => /\ Reach(conn') = ip /\ cfg = Goal
                     /\ sent /\ result' = "changed"]_vars

\* A write that moves the switch away from its address is read back where its new
\* configuration may put it, which for DHCP is any lease, unless the caller has
\* named the place: so never at a static address that no host can have.
PollsWhereTheSwitchComesUp ==
  pc \in {"post", "poll"} /\ chosen \notin {"same", explicit} =>
    Reach(chosen) \in Places(Goal)

\* Without reconnecting, the old transport must still reach the switch: a write
\* over it leaves the switch in a place where it could be before.
SameTransportStays ==
  pc \in {"post", "verify"} /\ chosen = "same" => before.ip \in Places(Goal)

\* An uncertain report follows a POST and a full round of polls; every other
\* failure report after a POST leaves the polling unstarted.
UncertaintyIsEarned ==
  /\ result = "uncertain" => sent /\ attempt = Attempts
  /\ result \in {"refused", "unchanged"} => ~sent
  /\ result \in {"failed", "protocol"} => attempt = 0

\* Every operation reports, however unreachable the switch becomes.
EveryOperationReports == pc # "idle" ~> pc = "idle"
-----------------------------------------------------------------------------
(* Why the safety properties hold: an invariant that every step preserves.  *)

\* The switch is where its configuration may put it, or nowhere.
Located == ip \in {"none"} \union Places(cfg)

\* What each phase has behind it.
Phases ==
  /\ pc # "idle" => update \in Update /\ result = "none"
  /\ pc \in {"plan", "read", "post"} => ~sent /\ attempt = 0
  /\ pc \in {"verify", "poll"} => sent
  /\ pc = "verify" => attempt = 0 /\ chosen = "same"
  /\ pc = "poll" => attempt < Attempts /\ chosen # "same"

\* The adapter's requests have reached the switch where it was read, and that
\* is where the POST goes.
ReadWhereItIs == pc \in {"post", "verify"} => Reach(conn) = before.ip

ReconnectInv ==
  /\ TypeOK /\ Located /\ Phases /\ ReadWhereItIs
  /\ PollsWhereTheSwitchComesUp /\ SameTransportStays /\ UncertaintyIsEarned
=============================================================================
