----------------------------- MODULE AnsibleTask -----------------------------
(***************************************************************************)
(* A playbook runs one configuration task again and again, in check mode or *)
(* for real, against a switch that others may change.  The runtime reads,   *)
(* validates, projects what the operation would leave behind and compares   *)
(* the projection with what it has read; only when they differ, and not in  *)
(* check mode, does it call the adapter, which decides on the wire settings *)
(* instead.  So there are two judgements of "changed" and of "allowed", the *)
(* runtime's on the public view and the adapter's on what it would post, and *)
(* the properties say how far they agree.                                   *)
(*                                                                          *)
(* Simplifications: a read of two objects (RSTP) is one step, and so are    *)
(* the adapter's fresh GETs; GuardedWrite has them one by one.  The         *)
(* password task is in PasswordRotation, the rows of the VLAN task are in   *)
(* VlanTable.                                                               *)
(***************************************************************************)
EXTENDS CSS106Config

CONSTANTS
  Boot,          \* the configurations the switch may start from
  Editable,      \* the settings others change
  Unstored,      \* sets of settings the switch may fail to store from one POST
  SpelledZero,   \* the address 0.0.0.0 as a playbook spells it
  MaxRuns,       \* bound: executions of the task
  MaxEdits       \* bound: changes by others

ASSUME SwitchAssumption ==
  /\ Boot \subseteq [Field -> Value]
  /\ Editable \subseteq Field
  /\ Unstored \subseteq SUBSET Field
  /\ MaxRuns \in Nat /\ MaxEdits \in Nat
  /\ SpelledZero \notin Value

VARIABLES
  dev,      \* what the switch stores and reports
  edits,    \* how often others have changed it
  task,     \* the playbook's task
  mode,     \* of this execution: "check" or "real"
  phase,    \* idle, look, write, post, verify
  view,     \* what this execution has read through the facade
  before,   \* what its facade write has read afresh
  done,     \* the report of the last execution, when idle
  past,     \* the report of the one before it
  runs      \* executions begun

vars == <<dev, edits, task, mode, phase, view, before, done, past, runs>>

-----------------------------------------------------------------------------
(* Tasks: an update and the zeros it spells as an address.                  *)

\* The settings that may be cleared by "unset" or by spelling their zero.
Zeroable == {<<"alla", 0>>}

\* A playbook lists Ethernet destinations only; the runtime adds port 6.
TaskUpdates(h) ==
  IF h = "forwarding_matrix" THEN PortAssign(h, {"fp"}) ELSE UpdatesOf[h]

SpelledIn(o) == {f \in Zeroable \intersect DOMAIN o.to : o.to[f] = 0}

Task ==
  UNION {UNION {{[update |-> o, spelled |-> S] : S \in SUBSET SpelledIn(o)} :
                  o \in TaskUpdates(h)} : h \in Handler}

\* The argument checks made before any connection.
ParamsRefused(t) == NamesManagementPort(t.update) \/ TargetsManagementPort(t.update)

\* The runtime keeps port 6 among the destinations exactly if it is there now.
DestinationsKeeping(t, v) ==
  LET six == <<"fp6", t.update.port>> IN
    [t.update EXCEPT !.to = [f \in DOMAIN @ \union {six} |-> IF f = six THEN v[f] ELSE @[f]]]

\* The update the runtime builds from the task and what it has read.
Asked(t, v) ==
  IF t.update.handler = "forwarding_matrix" THEN DestinationsKeeping(t, v) ELSE t.update

-----------------------------------------------------------------------------
(* The operations of the runtime: which settings their result shows, and    *)
(* which guards their validation applies to what has just been read.        *)

SystemView == Members("system") \union {<<"sid", 0>>, <<"ident", 0>>}

DeviceNameTask == [shows |-> SystemView, checks |-> {}]
PortNameTask == [shows |-> At("link"), checks |-> {"port"}]
PortConfigurationTask == [shows |-> At("link"), checks |-> {"port", "active_link"}]
SnmpTask == [shows |-> At("snmp"), checks |-> {}]
StaticHostsTask == [shows |-> At("host"), checks |-> {}]
RstpPortTask ==
  [shows |-> RstpBaseline, checks |-> {"port", "reserved_multicast"}]
ForwardingPolicyTask ==
  [shows |-> Members("forwarding"), checks |-> {"port", "mirrored_port_6"}]
PortVlanTask == [shows |-> Members("portvlan"), checks |-> {"port"}]
SystemConfigurationTask == [shows |-> SystemView, checks |-> {"system_masks"}]
AclTask == [shows |-> At("acl"), checks |-> {}]
VlanTask == [shows |-> At("vlan"), checks |-> {"membership_of_port_6"}]
RstpBridgeTask ==
  [shows |-> RstpBaseline, checks |-> {"bridge_multicast"}]
ForwardingMatrixTask ==
  [shows |-> Members("forwarding"), checks |-> {"port", "mirrored_port_6", "relation_of_port_6"}]
MirroringTask ==
  [shows |-> Members("forwarding"), checks |-> {"port", "mirrored_port_6", "target_port_6"}]

TaskTable ==
  [device_name |-> DeviceNameTask, port_name |-> PortNameTask,
   port_configuration |-> PortConfigurationTask, snmp |-> SnmpTask,
   static_hosts |-> StaticHostsTask, rstp_port |-> RstpPortTask,
   forwarding_policy |-> ForwardingPolicyTask, port_vlan |-> PortVlanTask,
   system_configuration |-> SystemConfigurationTask, acl_rules |-> AclTask,
   vlans |-> VlanTask, rstp_bridge |-> RstpBridgeTask,
   forwarding_matrix |-> ForwardingMatrixTask, forwarding_mirroring |-> MirroringTask]

Shows(t) == TaskTable[t.update.handler].shows

\* The guards that object to an update on the settings v.
Objections(o, v) ==
  {g \in {"port"} : NamesManagementPort(o)}
    \union {g \in {"active_link"} : CutsActivePort(o, v)}
    \union {g \in {"system_masks"} : BreaksSystemMask(o, v)}
    \union {g \in {"reserved_multicast"} : FreezesPortEnable(o, v)}
    \union {g \in {"bridge_multicast"} : FreezesBridge(o, v)}
    \union {g \in {"mirrored_port_6"} : MirrorsManagementPort(o, v)}
    \union {g \in {"relation_of_port_6"} : MovesManagementRelation(o, v)}
    \union {g \in {"target_port_6"} : TargetsManagementPort(o)}
    \union {g \in {"membership_of_port_6"} : MovesManagementMembership(o, v)}

ValidatesNothing(t, v) == TRUE   \* mutant: check mode skips validate_*

Validates(t, v) ==
  TaskTable[t.update.handler].checks \intersect Objections(Asked(t, v), v) = {}

\* Mutant: what the playbook does not mention is projected as off.
ProjectedFromDefaults(t, v) ==
  [f \in Field |-> IF f \in t.spelled THEN SpelledZero
                   ELSE IF f \in Shows(t) THEN Overlay([g \in Field |-> 0], Asked(t, v).to)[f]
                   ELSE v[f]]

\* Mutant: a list of ports is appended to the present one and counted twice.
ProjectedAppending(t, v) ==
  [f \in Field |-> IF f \in t.spelled THEN SpelledZero
                   ELSE IF f \in DOMAIN Asked(t, v).to THEN v[f] + Asked(t, v).to[f]
                   ELSE v[f]]

\* The projection: the view with the values of the task as they are spelled.
Projected(t, v) ==
  [f \in Field |-> IF f \in t.spelled THEN SpelledZero ELSE Overlay(v, Asked(t, v).to)[f]]

\* Mutant: only the settings of the port the task names are compared.
PredictsOwnPort(t, v) ==
  Differs({f \in Field : f[2] = t.update.port}, Projected(t, v), v)

PredictsChange(t, v) == Differs(Field, Projected(t, v), v)

-----------------------------------------------------------------------------
(* Reports.                                                                 *)

ReportValue == [Field -> Value \union {SpelledZero}]

\* posted: this execution has sent a POST; since: edits when it read the switch.
Blank == [f \in Field |-> 0]
Pending(m) ==
  [mode |-> m, status |-> "none", changed |-> FALSE, value |-> Blank,
   posted |-> FALSE, since |-> 0]

Init ==
  /\ dev \in Boot /\ edits = 0
  /\ task \in Task
  /\ mode = "check" /\ phase = "idle"
  /\ view = Blank /\ before = Blank
  /\ done = Pending("check") /\ past = Pending("check")
  /\ runs = 0

\* The end of an execution: "ok" with changed and the value, else the failure.
Finish(status, changed, value, since) ==
  /\ phase' = "idle"
  /\ done' = [done EXCEPT !.status = status, !.changed = changed, !.value = value,
                          !.since = since]

Start(m) ==
  /\ phase = "idle" /\ runs < MaxRuns
  /\ mode' = m /\ phase' = "look" /\ runs' = runs + 1
  /\ past' = done
  /\ done' = Pending(m)
  /\ UNCHANGED <<dev, edits, task, view, before>>

\* Refused by argument checks: nothing has been requested.
RefuseParams ==
  /\ phase = "look" /\ ParamsRefused(task)
  /\ Finish("refused", FALSE, Blank, done.since)
  /\ UNCHANGED <<dev, edits, task, mode, view, before, past, runs>>

\* Read, validate, project; report in check mode or when nothing would change.
Look ==
  /\ phase = "look" /\ ~ParamsRefused(task) /\ ~Undecodable(task.update, dev)
  /\ view' = dev
  /\ \/ ~Validates(task, dev) /\ Finish("refused", FALSE, Blank, edits)
     \/ /\ Validates(task, dev) /\ mode = "check"
        /\ Finish("ok", PredictsChange(task, dev), Projected(task, dev), edits)
     \/ /\ Validates(task, dev) /\ mode = "real" /\ ~PredictsChange(task, dev)
        /\ Finish("ok", FALSE, dev, edits)
     \/ /\ Validates(task, dev) /\ mode = "real" /\ PredictsChange(task, dev)
        /\ phase' = "write" /\ done' = [done EXCEPT !.since = edits]
  /\ UNCHANGED <<dev, edits, task, mode, before, past, runs>>

\* The facade write: the adapter's own reading, comparison and no-op test.
Write ==
  /\ phase = "write" /\ ~Undecodable(task.update, dev)
  /\ before' = dev
  /\ LET o == Asked(task, view)
     IN \/ /\ RefusedUpFront(o, view) \/ Stale(o, view, dev) \/ Refused(o, dev)
           /\ Finish("refused", FALSE, Blank, done.since)
        \/ /\ ~RefusedUpFront(o, view) /\ ~Stale(o, view, dev) /\ ~Refused(o, dev)
           /\ NoOp(o, dev)
           /\ Finish("ok", FALSE, dev, done.since)
        \/ /\ ~RefusedUpFront(o, view) /\ ~Stale(o, view, dev) /\ ~Refused(o, dev)
           /\ ~NoOp(o, dev)
           /\ phase' = "post" /\ UNCHANGED done
  /\ UNCHANGED <<dev, edits, task, mode, view, past, runs>>

Goal == Desired(Asked(task, view), before)

Post(unstored) ==
  /\ phase = "post"
  /\ dev' = [f \in Field |->
               IF f \in GroupFields(task.update) \ unstored THEN Goal[f] ELSE dev[f]]
  /\ phase' = "verify" /\ done' = [done EXCEPT !.posted = TRUE]
  /\ UNCHANGED <<edits, task, mode, view, before, past, runs>>

Verify ==
  /\ phase = "verify" /\ ~Undecodable(task.update, dev)
  /\ IF Differs(GroupFields(task.update), WriteState(task.update, dev), Goal)
     THEN Finish("failed", FALSE, Blank, done.since)
     ELSE Finish("ok", TRUE, dev, done.since)
  /\ UNCHANGED <<dev, edits, task, mode, view, before, past, runs>>

\* A request that fails, an answer that another firmware gives or that does not decode.
Fail ==
  /\ phase \in {"look", "write", "post", "verify"} /\ ~ParamsRefused(task)
  /\ Finish("failed", FALSE, Blank, done.since)
  /\ UNCHANGED <<dev, edits, task, mode, view, before, past, runs>>

\* The web UI, another program, a link going up or down.
Edit(f, v) ==
  /\ edits < MaxEdits /\ v # dev[f]
  /\ edits' = edits + 1
  /\ dev' = [dev EXCEPT ![f] = v]
  /\ UNCHANGED <<task, mode, phase, view, before, done, past, runs>>

Next ==
  \/ \E m \in {"check", "real"} : Start(m)
  \/ RefuseParams \/ Look \/ Write \/ Verify \/ Fail
  \/ \E u \in Unstored \union {{}} : Post(u)
  \/ \E f \in Editable, v \in Value : Edit(f, v)

Spec == Init /\ [][Next]_vars
-----------------------------------------------------------------------------
(* Properties.  They are about executions during which, and between which,  *)
(* nobody else has touched the switch.                                      *)

Report ==
  [mode: {"check", "real"}, status: {"none", "ok", "refused", "failed"},
   changed: BOOLEAN, value: ReportValue, posted: BOOLEAN, since: Nat]

\* Every variable has its type.
TypeOK ==
  /\ dev \in [Field -> Value] /\ edits \in Nat /\ runs \in Nat
  /\ task \in Task
  /\ mode \in {"check", "real"}
  /\ phase \in {"idle", "look", "write", "post", "verify"}
  /\ view \in [Field -> Value] /\ before \in [Field -> Value]
  /\ done \in Report /\ past \in Report

Undisturbed == phase = "idle" /\ past.status = "ok" /\ past.since = edits

\* A real run that follows a check run which has succeeded.
AfterCheck == Undisturbed /\ past.mode = "check" /\ done.mode = "real"

Snooping == <<"igmp", 0>>
Querier == <<"igmq", 0>>

OfSystemGroup(t) == Row(t.update).group = "system"

\* Snooping is off before the task or after it, so the querier is settled.
QuerierIsSettled(t, v) ==
  OfSystemGroup(t) /\ (v[Snooping] = 0 \/ Projected(t, v)[Snooping] = 0)

\* What the projection and the adapter may disagree about: a zero spelled as an
\* address is read back as none, and the querier without snooping is off.
MayDiffer(f, t, v) == f \in t.spelled \/ (f = Querier /\ QuerierIsSettled(t, v))

\* Two values are the same in everything the result shows and may not differ in.
AsForeseen(t, v, p, q) ==
  \A f \in Shows(t) : p[f] = q[f] \/ MayDiffer(f, t, v)

\* Why a predicted change may turn out to be none.
AsksInVain(t, v) ==
  \/ t.spelled # {}
  \/ Querier \in DOMAIN t.update.to /\ Projected(t, v)[Snooping] = 0

\* Every setting is as the update asks, but for the querier without snooping.
Reached(o, v) ==
  \A f \in DOMAIN o.to : v[f] = o.to[f] \/ (f = Querier /\ v[Snooping] = 0)

\* Whichever of the two judgements ended a successful real run, the switch now
\* stores every setting as the task asks, but for the querier without snooping.
TaskIsDone ==
  phase = "idle" /\ done.mode = "real" /\ done.status = "ok" /\ done.since = edits =>
    Reached(Asked(task, view), dev)

\* What check mode reports is what a successful real run reports: changed or
\* not, and every value shown, except where the task spells a zero or where
\* the querier is settled because snooping is off.
PredictionsComeTrue ==
  AfterCheck /\ done.status = "ok" =>
    /\ past.changed = done.changed \/ AsksInVain(task, view)
    /\ AsForeseen(task, view, past.value, done.value)

\* The adapter refuses nothing that check mode has accepted, but for a rename
\* while port 6 is not among the ports allowed to manage the switch.
AcceptedIsAccepted ==
  AfterCheck /\ done.status = "refused" =>
    task.update.handler = "device_name" /\ dev[<<"allp", ManagementPort>>] # 1

\* A successful real run leaves nothing to do: run again, the task is not
\* refused, sends nothing, reports no change and shows the same values.
RepeatsAreQuiet ==
  Undisturbed /\ past.mode = "real" =>
    /\ ~done.posted /\ done.status # "refused"
    /\ done.mode = "real" /\ done.status = "ok" =>
         ~done.changed /\ \A f \in Shows(task) : done.value[f] = past.value[f]

\* A setting the playbook omits is shown by a successful real run as the run
\* has read it, but for the querier while snooping is off.
OmittedStaysAsRead ==
  phase = "idle" /\ done.mode = "real" /\ done.status = "ok" /\ done.since = edits =>
    \A f \in Shows(task) \ DOMAIN task.update.to :
      done.value[f] = view[f] \/ (f = Querier /\ done.value[Snooping] = 0)
-----------------------------------------------------------------------------
(* Why they hold: an invariant that every step preserves.                   *)

\* The adapter would refuse nothing.
Accepts(o, v) == ~RefusedUpFront(o, v) /\ ~Refused(o, v)

\* On the settings v the task has nothing left to do, and neither judgement
\* would say otherwise.
Quiet(t, v) ==
  /\ ~ParamsRefused(t) /\ Validates(t, v)
  /\ PredictsChange(t, v) => Accepts(Asked(t, v), v) /\ NoOp(Asked(t, v), v)

\* This execution has read the switch.
Looked ==
  \/ phase \in {"write", "post", "verify"}
  \/ phase = "idle" /\ done.status \in {"ok", "refused"} /\ ~ParamsRefused(task)

\* Reports are written once, at the end, and edits are counted.
Bookkeeping ==
  /\ phase # "idle" => done.status = "none" /\ done.mode = mode
  /\ phase \in {"look", "write", "post"} => ~done.posted
  /\ phase = "verify" => done.posted
  /\ done.since <= edits /\ past.since <= edits
  /\ Looked => past.since <= done.since

\* An undisturbed execution still holds what the switch stores.
UnderWay ==
  phase \in {"write", "post", "verify"} =>
    /\ mode = "real" /\ ~ParamsRefused(task)
    /\ Validates(task, view) /\ PredictsChange(task, view)
    /\ done.since = edits =>
         /\ phase \in {"write", "post"} => dev = view
         /\ phase \in {"post", "verify"} =>
              /\ before = view
              /\ Accepts(Asked(task, view), view) /\ ~NoOp(Asked(task, view), view)
         /\ phase = "verify" =>
              \A f \in Field \ GroupFields(task.update) : dev[f] = view[f]

\* What a report of an undisturbed execution says of the switch.
CheckEnded ==
  phase = "idle" /\ done.mode = "check" /\ done.status = "ok" /\ done.since = edits =>
    /\ dev = view /\ ~done.posted
    /\ ~ParamsRefused(task) /\ Validates(task, view)
    /\ done.changed = PredictsChange(task, view)
    /\ done.value = Projected(task, view)

RealEnded ==
  phase = "idle" /\ done.mode = "real" /\ done.status = "ok" /\ done.since = edits =>
    /\ done.value = dev /\ Quiet(task, dev) /\ Reached(Asked(task, view), dev)
    /\ done.changed = PredictsChange(task, view) \/ AsksInVain(task, view)
    /\ AsForeseen(task, view, Projected(task, view), dev)
    /\ ~done.posted => dev = view /\ ~done.changed

RefusedEnded ==
  phase = "idle" /\ done.status = "refused" /\ done.since = edits /\ ~ParamsRefused(task) =>
    /\ dev = view /\ ~done.posted
    /\ \/ ~Validates(task, view)
       \/ /\ done.mode = "real" /\ PredictsChange(task, view)
          /\ ~Accepts(Asked(task, view), view)

\* What the report before it says, as long as nothing has been disturbed.
CheckBefore ==
  past.mode = "check" /\ past.status = "ok" /\ past.since = edits =>
    /\ phase = "look" => dev = view
    /\ ~ParamsRefused(task) /\ Validates(task, view)
    /\ past.changed = PredictsChange(task, view)
    /\ past.value = Projected(task, view)

RealBefore ==
  past.mode = "real" /\ past.status = "ok" /\ past.since = edits =>
    /\ ~ParamsRefused(task)
    /\ phase = "look" => past.value = dev /\ Quiet(task, dev)
    /\ Looked => past.value = view /\ Quiet(task, view)
    /\ phase \notin {"post", "verify"} /\ ~done.posted

Inv ==
  /\ TypeOK /\ Bookkeeping /\ UnderWay
  /\ CheckEnded /\ RealEnded /\ RefusedEnded /\ CheckBefore /\ RealBefore
=============================================================================
