------------------------- MODULE AnsibleTaskProofs -------------------------
(***************************************************************************)
(* Why what check mode predicts comes true and what has been done stays     *)
(* done: the invariant of AnsibleTask is inductive.  The argument is in two *)
(* parts.  First, of an update and two configurations only: what the        *)
(* adapter leaves behind when it writes, or when it finds nothing to write, *)
(* is what the runtime projects, asks for nothing further, and passes the   *)
(* same guards.  Then, of the steps of an execution.                        *)
(***************************************************************************)
EXTENDS AnsibleTask, CSS106ConfigProofs

-----------------------------------------------------------------------------
(* Tasks and the updates they come to.                                      *)

\* A task updates settings through a handler of the adapter.
LEMMA TaskShape ==
  ASSUME NEW t \in Task
  PROVE  /\ t.update.handler \in Handler
         /\ t.update.handler # "forwarding_matrix" => t.update \in Operation
         /\ t.update.handler = "forwarding_matrix" =>
              t.update \in PortAssign("forwarding_matrix", {"fp"})
         /\ t.spelled \subseteq Zeroable /\ t.spelled \subseteq DOMAIN t.update.to
         /\ \A f \in t.spelled : t.update.to[f] = 0
<1>1. PICK h \in Handler : \E o \in TaskUpdates(h) :
        t.update = o /\ t.spelled \in SUBSET SpelledIn(o)
  BY DEF Task
<1> PICK o \in TaskUpdates(h) : t.update = o /\ t.spelled \in SUBSET SpelledIn(o)
  BY <1>1
<1>2. t.spelled \subseteq Zeroable /\ t.spelled \subseteq DOMAIN o.to /\ \A f \in t.spelled : o.to[f] = 0
  BY <1>1 DEF SpelledIn
<1>3. CASE h = "forwarding_matrix"
  <2>1. o \in PortAssign("forwarding_matrix", {"fp"})
    BY <1>1, <1>3 DEF TaskUpdates
  <2>2. o.handler = "forwarding_matrix"
    BY <2>1, PortAssignShape
  <2> QED BY <1>1, <1>2, <1>3, <2>1, <2>2
<1>4. CASE h # "forwarding_matrix"
  <2>1. o \in UpdatesOf[h] /\ h \in DOMAIN UpdatesOf
    BY <1>1, <1>4, HandlerAssumption DEF TaskUpdates, HandlerTable, UpdatesOf
  <2>2. o.handler = h
    BY <2>1, UpdateNamesHandler
  <2>3. o \in Operation
    BY <1>1, <2>1 DEF Operation
  <2> QED BY <1>1, <1>2, <1>4, <2>2, <2>3
<1> QED BY <1>3, <1>4

\* The update asked for is an operation of the adapter; the runtime adds to
\* what the playbook says only port 6's bit, as it has been read.
LEMMA AskedFacts ==
  ASSUME NEW t \in Task, NEW v \in [Field -> Value]
  PROVE  /\ Asked(t, v) \in Operation
         /\ Asked(t, v).handler = t.update.handler /\ Asked(t, v).port = t.update.port
         /\ t.update.handler # "forwarding_matrix" => Asked(t, v) = t.update
         /\ DOMAIN t.update.to \subseteq DOMAIN Asked(t, v).to
         /\ \A f \in t.spelled : Asked(t, v).to[f] = 0
<1>1. CASE t.update.handler # "forwarding_matrix"
  BY <1>1, TaskShape DEF Asked
<1>2. CASE t.update.handler = "forwarding_matrix"
  <2> DEFINE o == t.update
             six == <<"fp6", o.port>>
             to == [f \in DOMAIN o.to \union {six} |-> IF f = six THEN v[f] ELSE o.to[f]]
  <2>1. /\ o \in PortAssign("forwarding_matrix", {"fp"})
        /\ t.spelled \subseteq Zeroable /\ t.spelled \subseteq DOMAIN o.to
    BY <1>2, TaskShape
  <2>2. PICK p \in Port : o \in Assign("forwarding_matrix", p, {"fp"} \X {p})
    BY <2>1 DEF PortAssign
  <2>3. o = [handler |-> "forwarding_matrix", port |-> p, to |-> o.to]
        /\ o.to \in [{"fp"} \X {p} -> Value]
    BY <2>2 DEF Assign
  <2>4. Asked(t, v) = [o EXCEPT !.to = to]
    BY <1>2 DEF Asked, DestinationsKeeping
  <2>5. Asked(t, v) = [handler |-> "forwarding_matrix", port |-> p, to |-> to]
    <3> HIDE DEF to
    <3> QED BY <2>3, <2>4
  <2>6. six \in Field /\ six = <<"fp6", p>>
    BY <2>3 DEF Field, PortAttr
  <2>7. DOMAIN to = {"fp", "fp6"} \X {p} /\ to \in [{"fp", "fp6"} \X {p} -> Value]
    BY <2>3, <2>6
  <2>8. Asked(t, v) \in Assign("forwarding_matrix", p, {"fp", "fp6"} \X {p})
    BY <2>5, <2>7 DEF Assign
  <2>9. Asked(t, v) \in UpdatesOf["forwarding_matrix"]
    BY <2>8 DEF UpdatesOf, ForwardingMatrixUpdates, PortAssign
  <2>10. "forwarding_matrix" \in Handler
    BY <1>2, TaskShape
  <2>11. Asked(t, v) \in Operation
    BY <2>9, <2>10 DEF Operation
  <2>12. t.spelled = {}
    BY <2>1, <2>3 DEF Zeroable
  <2> QED BY <1>2, <2>3, <2>5, <2>7, <2>11, <2>12
<1> QED BY <1>1, <1>2

\* What a task asks for has the row and group of its update.
LEMMA AskedAlike ==
  ASSUME NEW t \in Task, NEW v \in [Field -> Value]
  PROVE  /\ Row(Asked(t, v)) = Row(t.update)
         /\ GroupFields(Asked(t, v)) = GroupFields(t.update)
         /\ \A s : WriteState(Asked(t, v), s) = WriteState(t.update, s)
BY AskedFacts DEF Row, GroupFields, WriteState

\* It depends on port 6's bit in the row of the task's port alone.
LEMMA AskedIsStable ==
  ASSUME NEW t \in Task, NEW v \in [Field -> Value], NEW w \in [Field -> Value],
         t.update.handler = "forwarding_matrix" =>
           v[<<"fp6", t.update.port>>] = w[<<"fp6", t.update.port>>]
  PROVE  Asked(t, v) = Asked(t, w)
BY DEF Asked, DestinationsKeeping

-----------------------------------------------------------------------------
(* What the adapter leaves behind.                                          *)

\* The write of o, decided on s, has led to w: its group reads back as it was
\* meant, everything else is as it was.
Written(o, s, w) ==
  /\ \A f \in GroupFields(o) : WriteState(o, w)[f] = Desired(o, s)[f]
  /\ \A f \in Field \ GroupFields(o) : w[f] = s[f]

\* The IGMP querier belongs to the system group, as snooping does.
LEMMA QuerierAndSnooping ==
  ASSUME NEW o \in Operation
  PROVE  /\ Querier \in Field /\ Snooping \in Field /\ Querier # Snooping
         /\ Row(o).group = "system" => Querier \in GroupFields(o) /\ Snooping \in GroupFields(o)
         /\ Row(o).group # "system" => Querier \notin GroupFields(o)
<1>1. Querier \in Field /\ Snooping \in Field /\ Querier # Snooping
  BY DEF Querier, Snooping, Field, DeviceAttr
<1>2. \A g \in Group : Querier \in Members(g) <=> g = "system"
  BY <1>1 DEF Querier, Members, AttrsOf, Group
<1>3. Row(o).group \in Group
  BY OperationsAreWellFormed DEF SoundRow
<1>4. Row(o).group = "system" => Snooping \in GroupFields(o)
  BY <1>1 DEF Snooping, GroupFields, Members, AttrsOf
<1> QED BY <1>1, <1>2, <1>3, <1>4 DEF GroupFields

\* The settled querier, and everything else as it is.
LEMMA SettledFacts ==
  ASSUME NEW o \in Operation, NEW s \in [Field -> Value]
  PROVE  Row(o).group = "system" =>
           WriteState(o, s)[Querier] = IF s[Snooping] = 0 THEN 0 ELSE s[Querier]
BY QuerierAndSnooping DEF WriteState, QuerierSettled, Querier, Snooping

\* What has been written is the overlay of the update on what was read, but
\* for the querier, which counts only while snooping is on.
LEMMA WrittenFacts ==
  ASSUME NEW o \in Operation, NEW s \in [Field -> Value], NEW w \in [Field -> Value],
         Written(o, s, w)
  PROVE  /\ \A f \in Field : f # Querier \/ Row(o).group # "system" =>
              w[f] = Overlay(s, o.to)[f]
         /\ Row(o).group = "system" /\ w[Snooping] # 0 =>
              w[Querier] = IF Querier \in DOMAIN o.to THEN o.to[Querier]
                           ELSE IF s[Snooping] = 0 THEN 0 ELSE s[Querier]
<1>1. o.to \in [DOMAIN o.to -> Value] /\ DOMAIN o.to \subseteq GroupFields(o)
  BY OperationsAreWellFormed DEF WellFormed
<1> DEFINE r == WriteState(o, s)
           u == Overlay(r, o.to)
<1>2. r \in [Field -> Value] /\ (\A f \in Field : f # Querier => r[f] = s[f])
      /\ (Row(o).group # "system" => r = s)
  BY WriteStateFacts DEF Querier
<1>3. u \in [Field -> Value]
      /\ \A f \in Field : u[f] = IF f \in DOMAIN o.to THEN o.to[f] ELSE r[f]
  BY <1>1, <1>2, OverlayFacts
<1>4. Desired(o, s) = WriteState(o, u)
  BY DEF Desired
<1> HIDE DEF r, u
<1>5. \A f \in Field : f # Querier => Desired(o, s)[f] = u[f] /\ WriteState(o, w)[f] = w[f]
  BY <1>3, <1>4, WriteStateFacts DEF Querier
<1>6. Row(o).group # "system" => Desired(o, s) = u /\ WriteState(o, w) = w
  BY <1>3, <1>4, WriteStateFacts
<1>7. ASSUME NEW f \in Field, f # Querier \/ Row(o).group # "system"
      PROVE  w[f] = Overlay(s, o.to)[f]
  <2>1. u[f] = Overlay(s, o.to)[f]
    BY <1>1, <1>2, <1>3, <1>7, OverlayFacts
  <2>2. CASE f \in GroupFields(o)
    BY <1>5, <1>6, <1>7, <2>1, <2>2 DEF Written
  <2>3. CASE f \notin GroupFields(o)
    BY <1>1, <2>3, OverlayFacts DEF Written
  <2> QED BY <2>2, <2>3
<1>8. ASSUME Row(o).group = "system", w[Snooping] # 0
      PROVE  w[Querier] = IF Querier \in DOMAIN o.to THEN o.to[Querier]
                          ELSE IF s[Snooping] = 0 THEN 0 ELSE s[Querier]
  <2>1. w[Snooping] = u[Snooping]
    BY <1>5, <1>8, QuerierAndSnooping DEF Written
  <2>2. WriteState(o, w)[Querier] = w[Querier] /\ WriteState(o, u)[Querier] = u[Querier]
    BY <1>3, <1>8, <2>1, SettledFacts
  <2>3. w[Querier] = u[Querier]
    BY <1>4, <1>8, <2>2, QuerierAndSnooping DEF Written
  <2>4. r[Querier] = IF s[Snooping] = 0 THEN 0 ELSE s[Querier]
    BY <1>8, SettledFacts DEF r
  <2> QED BY <1>3, <2>3, <2>4, QuerierAndSnooping
<1> QED BY <1>7, <1>8

\* Finding nothing to write is a write that has already happened.
LEMMA NoOpIsWritten ==
  ASSUME NEW o \in Operation, NEW s \in [Field -> Value], NoOp(o, s)
  PROVE  Written(o, s, s)
BY DEF NoOp, Differs, Written

\* A configuration just written has reached its goal.
LEMMA WrittenIsReached ==
  ASSUME NEW o \in Operation, NEW s \in [Field -> Value], NEW w \in [Field -> Value],
         Written(o, s, w)
  PROVE  Reached(o, w)
<1>1. o.to \in [DOMAIN o.to -> Value] /\ DOMAIN o.to \subseteq GroupFields(o)
  BY OperationsAreWellFormed DEF WellFormed
<1> SUFFICES ASSUME NEW f \in DOMAIN o.to
             PROVE  w[f] = o.to[f] \/ (f = Querier /\ w[Snooping] = 0)
  BY DEF Reached
<1>2. f \in Field
  BY <1>1 DEF GroupFields, Members
<1>3. CASE f # Querier \/ Row(o).group # "system"
  BY <1>1, <1>2, <1>3, WrittenFacts, OverlayFacts
<1>4. CASE f = Querier /\ Row(o).group = "system"
  BY <1>4, WrittenFacts
<1> QED BY <1>3, <1>4

\* Where every setting is as the update asks, there is nothing to write.
LEMMA ReachedIsNoOp ==
  ASSUME NEW o \in Operation, NEW w \in [Field -> Value], Reached(o, w)
  PROVE  NoOp(o, w)
<1>1. o.to \in [DOMAIN o.to -> Value] /\ DOMAIN o.to \subseteq GroupFields(o)
  BY OperationsAreWellFormed DEF WellFormed
<1> DEFINE r == WriteState(o, w)
           u == Overlay(r, o.to)
<1>2. r \in [Field -> Value] /\ (\A f \in Field : f # Querier => r[f] = w[f])
      /\ (Row(o).group # "system" => r = w)
  BY WriteStateFacts DEF Querier
<1>3. u \in [Field -> Value]
      /\ \A f \in Field : u[f] = IF f \in DOMAIN o.to THEN o.to[f] ELSE r[f]
  BY <1>1, <1>2, OverlayFacts
<1>4. Desired(o, w) = WriteState(o, u)
  BY DEF Desired
<1> HIDE DEF u
<1>5. \A f \in Field : f # Querier => u[f] = w[f]
  BY <1>2, <1>3 DEF Reached
<1> SUFFICES ASSUME NEW f \in GroupFields(o)
             PROVE  WriteState(o, u)[f] = r[f]
  BY <1>4 DEF NoOp, Differs
<1>6. f \in Field
  BY DEF GroupFields, Members
<1>7. CASE f # Querier
  BY <1>2, <1>3, <1>5, <1>6, <1>7, WriteStateFacts DEF Querier
<1>8. CASE f = Querier
  <2>1. Row(o).group = "system"
    BY <1>8, QuerierAndSnooping
  <2>2. u[Snooping] = w[Snooping]
    BY <1>5, QuerierAndSnooping
  <2>3. CASE w[Snooping] = 0
    BY <1>3, <1>8, <2>1, <2>2, <2>3, SettledFacts
  <2>4. CASE w[Snooping] # 0
    <3>1. r[Querier] = w[Querier] /\ WriteState(o, u)[Querier] = u[Querier]
      BY <1>3, <2>1, <2>2, <2>4, SettledFacts
    <3>2. Querier \in DOMAIN o.to => w[Querier] = o.to[Querier]
      BY <2>4 DEF Reached
    <3> QED BY <1>3, <1>8, <3>1, <3>2, QuerierAndSnooping
  <2> QED BY <2>3, <2>4
<1> QED BY <1>7, <1>8
-----------------------------------------------------------------------------
(* The guards.                                                              *)

\* What has been written would be accepted again.
LEMMA StillAccepted ==
  ASSUME NEW o \in Operation, NEW s \in [Field -> Value], NEW w \in [Field -> Value],
         Written(o, s, w), Accepts(o, s)
  PROVE  Accepts(o, w)
<1>1. WellFormed(o) /\ SoundRow(Row(o))
  BY OperationsAreWellFormed
<1>2. Reached(o, w) /\ NoOp(o, w)
  BY WrittenIsReached, ReachedIsNoOp
<1>3. \A f \in DOMAIN o.to : f # Querier => w[f] = o.to[f]
  BY <1>2 DEF Reached
<1>4. \A f \in GroupFields(o) : Desired(o, w)[f] = WriteState(o, w)[f]
  BY <1>2 DEF NoOp, Differs
<1>5. ~BreaksSystemMask(o, w)
  <2> SUFFICES ASSUME Row(o).group = "system"
               PROVE  /\ Desired(o, w)[<<"allp", ManagementPort>>] = 1
                      /\ ~Differs({"allp", "igfl"} \X {ManagementPort}, Desired(o, w), w)
    BY DEF BreaksSystemMask
  <2>1. {"allp", "igfl"} \X {ManagementPort} \subseteq GroupFields(o)
    BY DEF GroupFields, Members, AttrsOf, Field, PortAttr, Port
  <2>2. ASSUME NEW f \in {"allp", "igfl"} \X {ManagementPort}
        PROVE  Desired(o, w)[f] = w[f] /\ w[f] = Desired(o, s)[f]
    <3>1. f # <<"igmq", 0>> /\ f \in GroupFields(o) /\ f \in Field
      BY <2>1 DEF GroupFields, Members
    <3> QED BY <3>1, <1>4, WriteStateFacts DEF Written
  <2>3. Desired(o, s)[<<"allp", ManagementPort>>] = 1
    BY DEF Accepts, Refused, BreaksSystemMask
  <2> QED BY <2>2, <2>3 DEF Differs
<1>6. ~RefusedUpFront(o, w)
  <2>1. ~MovesManagementMembership(o, w)
    BY <1>1, <1>3 DEF MovesManagementMembership, WellFormed, Querier
  <2> QED BY <1>5, <2>1 DEF RefusedUpFront
<1>7. ~NamesManagementPort(o) /\ ~TargetsManagementPort(o)
  BY DEF Accepts, Refused
<1>8. ASSUME o.handler \in {"port_configuration", "rstp_port", "forwarding_matrix"}
      PROVE  \A f \in DOMAIN o.to : w[f] = o.to[f] /\ Overlay(w, o.to)[f] = w[f]
  <2>1. \A f \in DOMAIN o.to : f \in Field /\ f # Querier
    BY <1>1, <1>8, QuerierAndSnooping
    DEF WellFormed, GroupFields, Members, Row, HandlerTable, SetPortConfiguration,
        SetRstpPortEnabled, SetForwarding
  <2> QED BY <1>1, <1>3, <2>1, OverlayFacts DEF WellFormed
<1>9. ~CutsActivePort(o, w)
  BY <1>8 DEF CutsActivePort, Disables, Renegotiates, Differs
<1>10. ~FreezesPortEnable(o, w)
  BY <1>8 DEF FreezesPortEnable, Differs
<1>11. ~MovesManagementRelation(o, w)
  BY <1>1, <1>8 DEF MovesManagementRelation, Differs, WellFormed
<1>12. ~FreezesBridge(o, w)
  <2> SUFFICES ASSUME o.handler = "rstp_bridge"
               PROVE  Desired(o, w)[<<"prio", 0>>] = w[<<"prio", 0>>]
    BY DEF FreezesBridge, Differs
  <2>1. Row(o).group = "bridge"
    BY DEF Row, HandlerTable, SetRstpBridge
  <2>2. <<"prio", 0>> \in GroupFields(o)
    BY <2>1 DEF GroupFields, Members, AttrsOf, Field, DeviceAttr
  <2> QED BY <1>4, <2>1, <2>2, WriteStateFacts
<1>13. ~MirrorsManagementPort(o, w)
  <2> SUFFICES ASSUME Row(o).group = "forwarding", NEW a \in {"imr", "mrto"}
               PROVE  w[<<a, ManagementPort>>] = 0
    BY DEF MirrorsManagementPort
  <2> DEFINE f == <<a, ManagementPort>>
  <2>1. f \in Protected /\ f \in GroupFields(o) /\ f \in Field
    BY DEF Protected, Status, GroupFields, Members, AttrsOf, Field, PortAttr, Port
  <2>2. ~Stale(o, s, s)
    BY DEF Stale, Differs
  <2>3. Desired(o, s)[f] = s[f]
    BY <2>1, <2>2, ProtectedIsKept DEF Accepts
  <2>4. s[f] = 0
    BY DEF Accepts, Refused, MirrorsManagementPort
  <2>5. w[f] = Desired(o, s)[f]
    BY <2>1, WriteStateFacts DEF Written
  <2> QED BY <2>3, <2>4, <2>5
<1> QED
  BY <1>5, <1>6, <1>7, <1>9, <1>10, <1>11, <1>12, <1>13 DEF Accepts, Refused

\* The runtime validates with nothing but guards that the adapter has too.
LEMMA AcceptedIsValid ==
  ASSUME NEW t \in Task, NEW v \in [Field -> Value], Accepts(Asked(t, v), v)
  PROVE  Validates(t, v)
BY DEF Accepts, Refused, RefusedUpFront, Validates, Objections

\* The guards each task's validation applies.
LEMMA ChecksOfTasks ==
  /\ "active_link" \in TaskTable["port_configuration"].checks
  /\ "reserved_multicast" \in TaskTable["rstp_port"].checks
  /\ "bridge_multicast" \in TaskTable["rstp_bridge"].checks
  /\ "system_masks" \in TaskTable["system_configuration"].checks
  /\ "membership_of_port_6" \in TaskTable["vlans"].checks
  /\ "relation_of_port_6" \in TaskTable["forwarding_matrix"].checks
  /\ \A h \in {"forwarding_policy", "forwarding_matrix", "forwarding_mirroring"} :
       "mirrored_port_6" \in TaskTable[h].checks
BY DEF TaskTable, PortConfigurationTask, RstpPortTask, RstpBridgeTask, SystemConfigurationTask,
   VlanTask, ForwardingPolicyTask, ForwardingMatrixTask, MirroringTask

\* The adapter has one that the runtime does not apply: a rename is not held
\* against the mask of the ports that may manage the switch.
LEMMA ValidIsAccepted ==
  ASSUME NEW t \in Task, NEW v \in [Field -> Value],
         ~ParamsRefused(t), Validates(t, v), ~Accepts(Asked(t, v), v)
  PROVE  t.update.handler = "device_name" /\ v[<<"allp", ManagementPort>>] # 1
<1> DEFINE o == Asked(t, v)
<1>1. /\ o \in Operation /\ o.handler = t.update.handler /\ o.port = t.update.port
      /\ o.handler # "forwarding_matrix" => o = t.update
  BY AskedFacts
<1>2. WellFormed(o) /\ o.handler \in DOMAIN HandlerTable
  BY <1>1, OperationsAreWellFormed DEF WellFormed
<1>3. TaskTable[o.handler].checks \intersect Objections(o, v) = {}
  BY <1>1 DEF Validates
<1> HIDE DEF o
<1>4. ~NamesManagementPort(o) /\ ~TargetsManagementPort(o)
  BY <1>1 DEF ParamsRefused, NamesManagementPort, TargetsManagementPort
<1>5. ~MovesManagementMembership(o, v)
  BY <1>3, ChecksOfTasks DEF Objections, MovesManagementMembership
<1>6. ~CutsActivePort(o, v)
  BY <1>3, ChecksOfTasks DEF Objections, CutsActivePort
<1>7. ~FreezesPortEnable(o, v)
  BY <1>3, ChecksOfTasks DEF Objections, FreezesPortEnable
<1>8. ~FreezesBridge(o, v)
  BY <1>3, ChecksOfTasks DEF Objections, FreezesBridge
<1>9. ~MirrorsManagementPort(o, v)
  <2>1. Row(o).group = "forwarding" => 
          o.handler \in {"forwarding_policy", "forwarding_matrix", "forwarding_mirroring"}
    BY <1>2 DEF Row, HandlerTable, SetPortName, SetPortConfiguration, SetDeviceName,
       SetSystemConfiguration, SetSnmpConfiguration, SetRstpPortEnabled, SetRstpBridge,
       SetPortVlanPolicy, ReplaceStaticHosts, ReplaceAclRules, ReplaceVlans
  <2> QED BY <1>3, <2>1, ChecksOfTasks DEF Objections, MirrorsManagementPort
<1>10. ~MovesManagementRelation(o, v)
  BY <1>3, ChecksOfTasks DEF Objections, MovesManagementRelation
<1>11. BreaksSystemMask(o, v)
  BY <1>4, <1>5, <1>6, <1>7, <1>8, <1>9, <1>10
  DEF Accepts, Refused, RefusedUpFront, o
<1>12. o.handler \in {"device_name", "system_configuration"}
  BY <1>2, <1>11 DEF BreaksSystemMask, Row, HandlerTable, SetPortName, SetPortConfiguration,
     SetSnmpConfiguration, SetRstpPortEnabled, SetRstpBridge, SetForwarding,
     SetPortVlanPolicy, ReplaceStaticHosts, ReplaceAclRules, ReplaceVlans
<1>13. o.handler = "device_name"
  BY <1>3, <1>11, <1>12, ChecksOfTasks DEF Objections
<1>14. ASSUME NEW f \in {"allp", "igfl"} \X {ManagementPort}
       PROVE  Desired(o, v)[f] = v[f]
  <2>1. f \in Field /\ f # <<"igmq", 0>> /\ f[1] # "id"
    BY DEF Field, PortAttr, Port
  <2>2. f \notin Named(o)
    BY <1>2, <1>13, <2>1 DEF Named, WellFormed
  <2> QED BY <1>1, <2>1, <2>2, DesiredFacts
<1> QED BY <1>1, <1>11, <1>13, <1>14 DEF BreaksSystemMask, Differs
-----------------------------------------------------------------------------
(* The projection.                                                          *)

\* A projection is a report, and overlays the update but for spelling.
LEMMA ProjectedFacts ==
  ASSUME NEW t \in Task, NEW v \in [Field -> Value]
  PROVE  /\ Projected(t, v) \in ReportValue
         /\ \A f \in Field \ t.spelled : Projected(t, v)[f] = Overlay(v, Asked(t, v).to)[f]
         /\ \A f \in Field \intersect t.spelled : Projected(t, v)[f] = SpelledZero
         /\ Projected(t, v)[Snooping] = Overlay(v, Asked(t, v).to)[Snooping]
<1>1. Asked(t, v).to \in [DOMAIN Asked(t, v).to -> Value]
  BY AskedFacts, OperationsAreWellFormed DEF WellFormed
<1>2. Overlay(v, Asked(t, v).to) \in [Field -> Value]
  BY <1>1, OverlayFacts
<1>3. Snooping \in Field \ t.spelled
  BY TaskShape DEF Snooping, Zeroable, Field, DeviceAttr
<1> QED BY <1>2, <1>3 DEF Projected, ReportValue

\* What a task shows are settings.
LEMMA ShownAreSettings ==
  ASSUME NEW t \in Task
  PROVE  Shows(t) \subseteq Field
<1>1. t.update.handler \in DOMAIN TaskTable
  BY TaskShape, HandlerAssumption DEF HandlerTable, TaskTable
<1> QED
  BY <1>1
  DEF Shows, TaskTable, DeviceNameTask, PortNameTask, PortConfigurationTask, SnmpTask,
      StaticHostsTask, RstpPortTask, ForwardingPolicyTask, PortVlanTask,
      SystemConfigurationTask, AclTask, VlanTask, RstpBridgeTask, ForwardingMatrixTask,
      MirroringTask, SystemView, RstpBaseline, At, Members, Field, DeviceAttr

\* Where the projection changes nothing, everything is as the task asks.
LEMMA UnchangedIsReached ==
  ASSUME NEW t \in Task, NEW v \in [Field -> Value], ~PredictsChange(t, v)
  PROVE  Reached(Asked(t, v), v)
<1>1. WellFormed(Asked(t, v))
  BY AskedFacts, OperationsAreWellFormed
<1> SUFFICES ASSUME NEW f \in DOMAIN Asked(t, v).to
             PROVE  v[f] = Asked(t, v).to[f]
  BY DEF Reached
<1>2. f \in Field /\ v[f] \in Value
  BY <1>1 DEF WellFormed, GroupFields, Members
<1>3. Projected(t, v)[f] = v[f]
  BY <1>2 DEF PredictsChange, Differs
<1>4. f \notin t.spelled
  BY <1>2, <1>3, ProjectedFacts, SwitchAssumption
<1> QED BY <1>1, <1>2, <1>3, <1>4, ProjectedFacts, OverlayFacts DEF WellFormed

\* What has been written is what was projected, ...
LEMMA WrittenIsForeseen ==
  ASSUME NEW t \in Task, NEW v \in [Field -> Value], NEW w \in [Field -> Value],
         Written(Asked(t, v), v, w)
  PROVE  AsForeseen(t, v, Projected(t, v), w)
<1> DEFINE o == Asked(t, v)
<1>1. o \in Operation /\ (OfSystemGroup(t) <=> Row(o).group = "system")
  BY AskedFacts, AskedAlike DEF OfSystemGroup
<1>2. o.to \in [DOMAIN o.to -> Value]
  BY <1>1, OperationsAreWellFormed DEF WellFormed
<1> SUFFICES ASSUME NEW f \in Shows(t), ~MayDiffer(f, t, v)
             PROVE  Projected(t, v)[f] = w[f]
  BY DEF AsForeseen
<1>3. f \in Field /\ f \notin t.spelled
  BY ShownAreSettings DEF MayDiffer
<1>4. Projected(t, v)[f] = Overlay(v, o.to)[f]
  BY <1>3, ProjectedFacts
<1>5. CASE f # Querier \/ Row(o).group # "system"
  BY <1>1, <1>3, <1>4, <1>5, WrittenFacts
<1>6. CASE f = Querier /\ Row(o).group = "system"
  <2>1. v[Snooping] # 0 /\ Projected(t, v)[Snooping] # 0
    BY <1>1, <1>6 DEF MayDiffer, QuerierIsSettled
  <2>2. w[Snooping] # 0
    BY <1>1, <2>1, WrittenFacts, ProjectedFacts, QuerierAndSnooping
  <2>3. w[f] = IF f \in DOMAIN o.to THEN o.to[f] ELSE v[f]
    BY <1>1, <1>6, <2>1, <2>2, WrittenFacts
  <2> QED BY <1>2, <1>3, <1>4, <2>3, OverlayFacts
<1> QED BY <1>5, <1>6

\* ... and if nothing was to write though a change was predicted, in vain.
LEMMA NoOpIsInVain ==
  ASSUME NEW t \in Task, NEW v \in [Field -> Value],
         NoOp(Asked(t, v), v), PredictsChange(t, v)
  PROVE  AsksInVain(t, v)
<1> DEFINE o == Asked(t, v)
<1>1. o \in Operation /\ Written(o, v, v)
  BY AskedFacts, NoOpIsWritten
<1>2. o.to \in [DOMAIN o.to -> Value]
  BY <1>1, OperationsAreWellFormed DEF WellFormed
<1>3. PICK f \in Field : Projected(t, v)[f] # v[f]
  BY DEF PredictsChange, Differs
<1> SUFFICES ASSUME t.spelled = {}
             PROVE  Querier \in DOMAIN t.update.to /\ Projected(t, v)[Snooping] = 0
  BY DEF AsksInVain
<1>4. Overlay(v, o.to)[f] # v[f]
  BY <1>3, ProjectedFacts
<1>5. f = Querier /\ Row(o).group = "system"
  BY <1>1, <1>4, WrittenFacts
<1>6. f \in DOMAIN o.to /\ o.to[f] # v[f]
  BY <1>2, <1>4, OverlayFacts
<1>7. v[Snooping] = 0
  BY <1>1, <1>5, <1>6, WrittenFacts
<1>8. Projected(t, v)[Snooping] = 0
  BY <1>1, <1>7, WrittenFacts, ProjectedFacts, QuerierAndSnooping
<1>9. t.update.handler # "forwarding_matrix"
  BY <1>5, AskedFacts DEF Row, HandlerTable, SetForwarding
<1> QED BY <1>5, <1>6, <1>8, <1>9, AskedFacts

\* What has been written is quiet: the same task would ask for the same and
\* find nothing to do.
LEMMA WrittenIsQuiet ==
  ASSUME NEW t \in Task, NEW v \in [Field -> Value], NEW w \in [Field -> Value],
         ~ParamsRefused(t), Written(Asked(t, v), v, w), Accepts(Asked(t, v), v)
  PROVE  Quiet(t, w)
<1> DEFINE o == Asked(t, v)
<1>1. o \in Operation /\ WellFormed(o)
  BY AskedFacts, OperationsAreWellFormed
<1>2. Asked(t, w) = o
  <2> SUFFICES ASSUME t.update.handler = "forwarding_matrix"
               PROVE  v[<<"fp6", t.update.port>>] = w[<<"fp6", t.update.port>>]
    BY AskedIsStable
  <2> DEFINE six == <<"fp6", t.update.port>>
  <2>1. o.handler = "forwarding_matrix" /\ six = <<"fp6", o.port>>
    BY AskedFacts
  <2>2. six \in DOMAIN o.to /\ six \in Field
    BY <1>1, <2>1 DEF WellFormed, GroupFields, Members
  <2>3. Overlay(v, o.to)[six] = v[six]
    BY <2>1 DEF Accepts, Refused, MovesManagementRelation, Differs
  <2>4. Row(o).group # "system"
    BY <2>1 DEF Row, HandlerTable, SetForwarding
  <2> QED BY <1>1, <2>2, <2>3, <2>4, WrittenFacts
<1>3. Accepts(o, w) /\ NoOp(o, w)
  BY <1>1, StillAccepted, WrittenIsReached, ReachedIsNoOp
<1> QED BY <1>2, <1>3, AcceptedIsValid DEF Quiet
-----------------------------------------------------------------------------
(* Types.                                                                   *)

\* A configuration can be reported as it is.
LEMMA ReportsHoldSettings ==
  [Field -> Value] \subseteq ReportValue /\ Blank \in [Field -> Value]
BY ValueAssumption DEF ReportValue, Blank

\* What a task finishes with is a report.
LEMMA FinishedIsReport ==
  ASSUME done \in Report,
         NEW status \in {"none", "ok", "refused", "failed"}, NEW changed \in BOOLEAN,
         NEW value \in ReportValue, NEW since \in Nat,
         Finish(status, changed, value, since)
  PROVE  done' \in Report /\ phase' = "idle"
BY DEF Finish, Report

\* Every step keeps the types.
LEMMA TypeOKStep == TypeOK /\ [Next]_vars => TypeOK'
<1> SUFFICES ASSUME TypeOK, [Next]_vars
             PROVE  TypeOK'
  OBVIOUS
<1> USE ReportsHoldSettings
<1>1. CASE UNCHANGED vars
  BY <1>1 DEF TypeOK, vars
<1>2. ASSUME NEW m \in {"check", "real"}, Start(m)
      PROVE  TypeOK'
  <2>1. Pending(m) \in Report
    BY DEF Pending, Report
  <2> QED BY <1>2, <2>1 DEF Start, TypeOK
<1>3. CASE RefuseParams
  <2>1. done.since \in Nat
    BY DEF TypeOK, Report
  <2>2. done' \in Report /\ phase' = "idle"
    BY <1>3, <2>1, FinishedIsReport DEF RefuseParams, TypeOK
  <2> QED BY <1>3, <2>2 DEF RefuseParams, TypeOK
<1>4. CASE Look
  <2>1. PredictsChange(task, dev) \in BOOLEAN /\ Projected(task, dev) \in ReportValue
        /\ dev \in ReportValue /\ Blank \in ReportValue /\ edits \in Nat
    BY ProjectedFacts DEF TypeOK, PredictsChange, Differs
  <2>2. done' \in Report /\ phase' \in {"idle", "write"}
    <3>1. ASSUME NEW changed \in BOOLEAN, NEW value \in ReportValue,
                 NEW status \in {"ok", "refused"}, Finish(status, changed, value, edits)
          PROVE  done' \in Report /\ phase' = "idle"
      BY <2>1, <3>1, FinishedIsReport DEF TypeOK
    <3>2. ASSUME done' = [done EXCEPT !.since = edits]
          PROVE  done' \in Report
      BY <3>2 DEF TypeOK, Report
    <3> QED BY <1>4, <2>1, <3>1, <3>2 DEF Look
  <2> QED BY <1>4, <2>2 DEF Look, TypeOK
<1>5. CASE Write
  <2>1. dev \in ReportValue /\ Blank \in ReportValue /\ done.since \in Nat
    BY DEF TypeOK, Report
  <2>2. ASSUME NEW value \in ReportValue, NEW status \in {"ok", "refused"},
               Finish(status, FALSE, value, done.since)
        PROVE  done' \in Report /\ phase' = "idle"
    BY <2>1, <2>2, FinishedIsReport DEF TypeOK
  <2>3. done' \in Report /\ phase' \in {"idle", "post"}
    BY <1>5, <2>1, <2>2 DEF Write, TypeOK
  <2> QED BY <1>5, <2>3 DEF Write, TypeOK
<1>6. CASE Verify
  <2>1. dev \in ReportValue /\ Blank \in ReportValue /\ done.since \in Nat
    BY DEF TypeOK, Report
  <2>2. done' \in Report /\ phase' = "idle"
    BY <1>6, <2>1, FinishedIsReport DEF Verify, TypeOK
  <2> QED BY <1>6, <2>2 DEF Verify, TypeOK
<1>7. CASE Fail
  <2>1. done.since \in Nat
    BY DEF TypeOK, Report
  <2>2. done' \in Report /\ phase' = "idle"
    BY <1>7, <2>1, FinishedIsReport DEF Fail, TypeOK
  <2> QED BY <1>7, <2>2 DEF Fail, TypeOK
<1>8. ASSUME NEW u \in Unstored \union {{}}, Post(u)
      PROVE  TypeOK'
  <2>1. Goal \in [Field -> Value]
    BY AskedFacts, DesiredFacts DEF Goal, TypeOK
  <2>2. dev' \in [Field -> Value]
    BY <1>8, <2>1 DEF Post, TypeOK
  <2>3. done' \in Report
    BY <1>8 DEF Post, TypeOK, Report
  <2> QED BY <1>8, <2>2, <2>3 DEF Post, TypeOK
<1>9. ASSUME NEW f \in Editable, NEW v \in Value, Edit(f, v)
      PROVE  TypeOK'
  BY <1>9, SwitchAssumption DEF Edit, TypeOK
<1> QED BY <1>1, <1>2, <1>3, <1>4, <1>5, <1>6, <1>7, <1>8, <1>9 DEF Next

\* The variables start with their types.
LEMMA TypeOKInit == Init => TypeOK
BY SwitchAssumption, ReportsHoldSettings DEF Init, TypeOK, Pending, Report

\* Every variable has its type, for any ports, values, handlers and edits.
THEOREM TaskTypeCorrect == Spec => []TypeOK
<1>1. Init => TypeOK
  BY TypeOKInit
<1>2. TypeOK /\ [Next]_vars => TypeOK'
  BY TypeOKStep
<1> QED BY <1>1, <1>2, PTL DEF Spec
-----------------------------------------------------------------------------
(* The invariant, one lemma for each step.                                  *)

\* A task that finishes reports what it was given to report.
LEMMA FinishedFields ==
  ASSUME done \in Report, NEW status, NEW changed, NEW value, NEW since,
         Finish(status, changed, value, since)
  PROVE  /\ phase' = "idle"
         /\ done'.status = status /\ done'.changed = changed /\ done'.value = value
         /\ done'.since = since /\ done'.mode = done.mode /\ done'.posted = done.posted
BY DEF Finish, Report

\* The new execution inherits what the last report says of the switch.
LEMMA StartKeepsInv ==
  ASSUME Inv, NEW m \in {"check", "real"}, Start(m)
  PROVE  Inv'
<1>1. TypeOK /\ TypeOK'
  BY TypeOKStep DEF Inv, Next
<1>2. /\ phase = "idle" /\ phase' = "look" /\ past' = done
      /\ done'.status = "none" /\ done'.mode = m /\ ~done'.posted /\ done'.since = 0
      /\ mode' = m /\ UNCHANGED <<dev, edits, task, view, before>>
  BY DEF Start, Pending
<1>3. edits \in Nat
  BY <1>1 DEF TypeOK
<1>4. Bookkeeping'
  BY <1>2, <1>3 DEF Inv, Bookkeeping, Looked
<1>5. UnderWay' /\ CheckEnded' /\ RealEnded' /\ RefusedEnded'
  BY <1>2 DEF UnderWay, CheckEnded, RealEnded, RefusedEnded
<1>6. CheckBefore'
  BY <1>2 DEF Inv, CheckEnded, CheckBefore
<1>7. RealBefore'
  BY <1>2 DEF Inv, RealEnded, RealBefore, Looked, Quiet
<1> QED BY <1>1, <1>4, <1>5, <1>6, <1>7 DEF Inv

\* Parameters refused report a failure before any request.
LEMMA RefuseParamsKeepsInv ==
  ASSUME Inv, RefuseParams
  PROVE  Inv'
<1>1. TypeOK /\ TypeOK'
  BY TypeOKStep DEF Inv, Next
<1>2. /\ phase = "look" /\ ParamsRefused(task) /\ phase' = "idle"
      /\ done'.status = "refused" /\ done'.since = done.since
      /\ UNCHANGED <<dev, edits, task, mode, view, before, past, runs>>
  BY <1>1, FinishedFields DEF RefuseParams, TypeOK
<1>3. Bookkeeping'
  BY <1>2 DEF Inv, Bookkeeping, Looked
<1>4. UnderWay' /\ CheckEnded' /\ RealEnded' /\ RefusedEnded'
  BY <1>2 DEF UnderWay, CheckEnded, RealEnded, RefusedEnded
<1>5. CheckBefore' /\ RealBefore'
  BY <1>2 DEF Inv, CheckBefore, RealBefore
<1> QED BY <1>1, <1>3, <1>4, <1>5 DEF Inv

\* The execution reads what the last undisturbed report has spoken of.
LEMMA LookKeepsInv ==
  ASSUME Inv, Look
  PROVE  Inv'
<1>1. TypeOK /\ TypeOK'
  BY TypeOKStep DEF Inv, Next
<1>2. /\ task \in Task /\ dev \in [Field -> Value] /\ edits \in Nat /\ done \in Report
      /\ phase = "look" /\ ~ParamsRefused(task) /\ view' = dev
      /\ UNCHANGED <<dev, edits, task, mode, before, past, runs>>
  BY <1>1 DEF Look, TypeOK
<1>3. done.status = "none" /\ done.mode = mode /\ ~done.posted /\ past.since <= edits
  BY <1>2 DEF Inv, Bookkeeping
<1>4. CASE ~Validates(task, dev) /\ Finish("refused", FALSE, Blank, edits)
  <2>1. /\ phase' = "idle" /\ done'.status = "refused" /\ done'.since = edits
        /\ done'.mode = mode /\ ~done'.posted
    BY <1>2, <1>3, <1>4, FinishedFields
  <2> QED
    BY <1>1, <1>2, <1>3, <1>4, <2>1
    DEF Inv, Bookkeeping, UnderWay, CheckEnded, RealEnded, RefusedEnded, CheckBefore, RealBefore
<1>5. CASE /\ Validates(task, dev) /\ mode = "check"
           /\ Finish("ok", PredictsChange(task, dev), Projected(task, dev), edits)
  <2>1. /\ phase' = "idle" /\ done'.status = "ok" /\ done'.since = edits
        /\ done'.mode = "check" /\ ~done'.posted
        /\ done'.changed = PredictsChange(task, dev) /\ done'.value = Projected(task, dev)
    BY <1>2, <1>3, <1>5, FinishedFields
  <2> QED
    BY <1>1, <1>2, <1>3, <1>5, <2>1
    DEF Inv, Bookkeeping, UnderWay, CheckEnded, RealEnded, RefusedEnded, CheckBefore, RealBefore
<1>6. CASE /\ Validates(task, dev) /\ mode = "real" /\ ~PredictsChange(task, dev)
           /\ Finish("ok", FALSE, dev, edits)
  <2>1. /\ phase' = "idle" /\ done'.status = "ok" /\ done'.since = edits
        /\ done'.mode = "real" /\ done'.posted = FALSE
        /\ done'.changed = FALSE /\ done'.value = dev
    BY <1>2, <1>3, <1>6, FinishedFields DEF Report
  <2>2. Quiet(task, dev) /\ Reached(Asked(task, dev), dev)
    BY <1>2, <1>6, UnchangedIsReached DEF Quiet
  <2>3. \A f \in Shows(task) : Projected(task, dev)[f] = dev[f]
    BY <1>2, <1>6, ShownAreSettings DEF PredictsChange, Differs
  <2>4. AsForeseen(task, dev, Projected(task, dev), dev)
    BY <2>3 DEF AsForeseen
  <2>5. PredictsChange(task, dev) = FALSE
    BY <1>6 DEF PredictsChange, Differs
  <2>6. RealEnded'
    BY <1>2, <2>1, <2>2, <2>4, <2>5 DEF RealEnded
  <2>7. Bookkeeping' /\ UnderWay' /\ CheckEnded' /\ RefusedEnded'
    BY <1>2, <1>3, <1>6, <2>1 DEF Bookkeeping, UnderWay, CheckEnded, RefusedEnded
  <2>8. CheckBefore' /\ RealBefore'
    BY <1>2, <1>3, <2>1 DEF Inv, CheckBefore, RealBefore
  <2> QED BY <1>1, <2>6, <2>7, <2>8 DEF Inv
<1>7. CASE /\ Validates(task, dev) /\ mode = "real" /\ PredictsChange(task, dev)
           /\ phase' = "write" /\ done' = [done EXCEPT !.since = edits]
  <2>1. /\ phase' = "write" /\ done'.status = "none" /\ done'.since = edits
        /\ done'.mode = "real" /\ ~done'.posted
    BY <1>2, <1>3, <1>7 DEF Report
  <2>2. Bookkeeping' /\ CheckEnded' /\ RealEnded' /\ RefusedEnded'
    BY <1>2, <1>3, <1>7, <2>1 DEF Bookkeeping, CheckEnded, RealEnded, RefusedEnded
  <2>3. UnderWay'
    BY <1>2, <1>7, <2>1 DEF UnderWay
  <2>4. CheckBefore' /\ RealBefore'
    BY <1>2, <1>3, <2>1 DEF Inv, CheckBefore, RealBefore
  <2> QED BY <1>1, <2>2, <2>3, <2>4 DEF Inv
<1> QED BY <1>4, <1>5, <1>6, <1>7 DEF Look
\* The adapter judges what the runtime has read, unless somebody was faster.
LEMMA WriteKeepsInv ==
  ASSUME Inv, Write
  PROVE  Inv'
<1> DEFINE o == Asked(task, view)
<1>1. TypeOK /\ TypeOK'
  BY TypeOKStep DEF Inv, Next
<1>2. /\ task \in Task /\ dev \in [Field -> Value] /\ view \in [Field -> Value]
      /\ edits \in Nat /\ done \in Report /\ done.since \in Nat /\ past.since \in Nat
      /\ phase = "write" /\ before' = dev
      /\ UNCHANGED <<dev, edits, task, mode, view, past, runs>>
  BY <1>1 DEF Write, TypeOK, Report
<1>3. /\ done.status = "none" /\ done.mode = "real" /\ mode = "real" /\ done.posted = FALSE
      /\ past.since <= done.since /\ done.since <= edits
      /\ ~ParamsRefused(task) /\ Validates(task, view) /\ PredictsChange(task, view)
      /\ done.since = edits => dev = view
  BY <1>2 DEF Inv, Bookkeeping, UnderWay, Looked, Report
<1>4. o \in Operation
  BY <1>2, AskedFacts
<1>5. CheckBefore' /\ (phase' # "post" /\ done'.posted = FALSE => RealBefore')
  <2>1. phase' # "look" /\ phase' # "verify"
    BY <1>2, FinishedFields DEF Write
  <2> QED BY <1>2, <2>1 DEF Inv, CheckBefore, RealBefore, Looked
<1>6. CASE /\ RefusedUpFront(o, view) \/ Stale(o, view, dev) \/ Refused(o, dev)
           /\ Finish("refused", FALSE, Blank, done.since)
  <2>1. /\ phase' = "idle" /\ done'.status = "refused" /\ done'.since = done.since
        /\ done'.mode = "real" /\ done'.posted = FALSE
    BY <1>2, <1>3, <1>6, FinishedFields
  <2>2. done.since = edits => ~Accepts(o, view)
    BY <1>3, <1>6 DEF Accepts, Stale, Differs
  <2>3. RefusedEnded'
    BY <1>2, <1>3, <2>1, <2>2 DEF RefusedEnded
  <2>4. Bookkeeping' /\ UnderWay' /\ CheckEnded' /\ RealEnded'
    BY <1>2, <1>3, <2>1 DEF Bookkeeping, UnderWay, CheckEnded, RealEnded
  <2> QED BY <1>1, <1>5, <2>1, <2>3, <2>4 DEF Inv
<1>7. CASE /\ ~RefusedUpFront(o, view) /\ ~Stale(o, view, dev) /\ ~Refused(o, dev)
           /\ NoOp(o, dev) /\ Finish("ok", FALSE, dev, done.since)
  <2>1. /\ phase' = "idle" /\ done'.status = "ok" /\ done'.since = done.since
        /\ done'.mode = "real" /\ done'.posted = FALSE
        /\ done'.changed = FALSE /\ done'.value = dev
    BY <1>2, <1>3, <1>7, FinishedFields
  <2>2. RealEnded'
    <3> SUFFICES ASSUME done.since = edits
                 PROVE  /\ Quiet(task, view) /\ Reached(o, view) /\ AsksInVain(task, view)
                        /\ AsForeseen(task, view, Projected(task, view), view)
      BY <1>2, <1>3, <2>1 DEF RealEnded
    <3>1. Written(o, view, view) /\ Accepts(o, view) /\ NoOp(o, view)
      BY <1>2, <1>3, <1>4, <1>7, NoOpIsWritten DEF Accepts
    <3> QED
      BY <1>2, <1>3, <1>4, <3>1, WrittenIsQuiet, WrittenIsReached, NoOpIsInVain, WrittenIsForeseen
  <2>3. Bookkeeping' /\ UnderWay' /\ CheckEnded' /\ RefusedEnded'
    BY <1>2, <1>3, <2>1 DEF Bookkeeping, UnderWay, CheckEnded, RefusedEnded
  <2> QED BY <1>1, <1>5, <2>1, <2>2, <2>3 DEF Inv
<1>8. CASE /\ ~RefusedUpFront(o, view) /\ ~Stale(o, view, dev) /\ ~Refused(o, dev)
           /\ ~NoOp(o, dev) /\ phase' = "post" /\ UNCHANGED done
  <2>1. RealBefore'
    <3>1. ~(past.mode = "real" /\ past.status = "ok" /\ past.since = edits)
      <4> SUFFICES ASSUME past.mode = "real", past.status = "ok", past.since = edits
                   PROVE  FALSE
        OBVIOUS
      <4>1. Quiet(task, view)
        BY <1>2 DEF Inv, RealBefore, Looked
      <4>2. dev = view
        BY <1>2, <1>3
      <4> QED BY <1>3, <1>8, <4>1, <4>2 DEF Quiet
    <3> QED BY <1>2, <3>1 DEF RealBefore
  <2>2. UnderWay'
    BY <1>2, <1>3, <1>8 DEF UnderWay, Accepts
  <2>3. Bookkeeping' /\ CheckEnded' /\ RealEnded' /\ RefusedEnded'
    BY <1>2, <1>3, <1>8 DEF Bookkeeping, CheckEnded, RealEnded, RefusedEnded
  <2> QED BY <1>1, <1>5, <2>1, <2>2, <2>3 DEF Inv
<1> QED BY <1>6, <1>7, <1>8 DEF Write

\* A POST writes its group, but for what the switch does not store.
LEMMA PostKeepsInv ==
  ASSUME Inv, NEW u \in Unstored \union {{}}, Post(u)
  PROVE  Inv'
<1>1. TypeOK /\ TypeOK'
  BY TypeOKStep DEF Inv, Next
<1>2. /\ done \in Report /\ edits \in Nat /\ dev \in [Field -> Value]
      /\ phase = "post" /\ phase' = "verify" /\ done' = [done EXCEPT !.posted = TRUE]
      /\ UNCHANGED <<edits, task, mode, view, before, past, runs>>
  BY <1>1 DEF Post, TypeOK
<1>3. /\ done'.posted = TRUE /\ done'.status = done.status /\ done'.mode = done.mode
      /\ done'.since = done.since
  BY <1>2 DEF Report
<1>4. Bookkeeping'
  BY <1>2, <1>3 DEF Inv, Bookkeeping, Looked
<1>5. \A f \in Field \ GroupFields(task.update) : dev'[f] = dev[f]
  BY <1>2 DEF Post
<1>6. UnderWay'
  BY <1>2, <1>3, <1>5 DEF Inv, UnderWay
<1>7. CheckEnded' /\ RealEnded' /\ RefusedEnded' /\ CheckBefore' /\ RealBefore'
  BY <1>2 DEF Inv, CheckEnded, RealEnded, RefusedEnded, CheckBefore, RealBefore
<1> QED BY <1>1, <1>4, <1>6, <1>7 DEF Inv

\* A readback that shows the group as it was meant has found the write done.
LEMMA VerifyKeepsInv ==
  ASSUME Inv, Verify
  PROVE  Inv'
<1> DEFINE o == Asked(task, view)
<1>1. TypeOK /\ TypeOK'
  BY TypeOKStep DEF Inv, Next
<1>2. /\ task \in Task /\ dev \in [Field -> Value] /\ view \in [Field -> Value]
      /\ edits \in Nat /\ done \in Report /\ phase = "verify"
      /\ UNCHANGED <<dev, edits, task, mode, view, before, past, runs>>
  BY <1>1 DEF Verify, TypeOK
<1>3. /\ done.mode = "real" /\ done.posted = TRUE /\ mode = "real"
      /\ past.since <= done.since /\ done.since <= edits
      /\ ~ParamsRefused(task) /\ PredictsChange(task, view)
  BY <1>2 DEF Inv, Bookkeeping, UnderWay, Looked, Report
<1>4. o \in Operation
  BY <1>2, AskedFacts
<1>5. PredictsChange(task, view) = TRUE
  BY <1>3 DEF PredictsChange, Differs
<1>6. ASSUME NEW status \in {"ok", "failed"}, NEW changed, NEW value,
             Finish(status, changed, value, done.since)
      PROVE  /\ Bookkeeping' /\ UnderWay' /\ CheckEnded' /\ RefusedEnded'
             /\ CheckBefore' /\ RealBefore'
  <2>1. /\ phase' = "idle" /\ done'.status = status /\ done'.since = done.since
        /\ done'.mode = "real" /\ done'.posted = TRUE
    BY <1>2, <1>3, <1>6, FinishedFields
  <2> QED
    BY <1>2, <1>3, <2>1
    DEF Inv, Bookkeeping, UnderWay, CheckEnded, RefusedEnded, CheckBefore, RealBefore
<1>7. CASE Finish("failed", FALSE, Blank, done.since)
  <2>1. done'.status = "failed"
    BY <1>2, <1>7, FinishedFields
  <2>2. RealEnded'
    BY <2>1 DEF RealEnded
  <2> QED BY <1>1, <1>6, <1>7, <2>2 DEF Inv
<1>8. CASE /\ ~Differs(GroupFields(task.update), WriteState(task.update, dev), Goal)
           /\ Finish("ok", TRUE, dev, done.since)
  <2>1. /\ done'.value = dev /\ done'.changed = TRUE /\ done'.since = done.since
        /\ done'.posted = TRUE
    BY <1>2, <1>3, <1>8, FinishedFields
  <2>2. RealEnded'
    <3> SUFFICES ASSUME done.since = edits
                 PROVE  /\ Quiet(task, dev) /\ Reached(o, dev)
                        /\ AsForeseen(task, view, Projected(task, view), dev)
      BY <1>2, <1>5, <2>1 DEF RealEnded
    <3>1. /\ before = view /\ Accepts(o, view)
          /\ \A f \in Field \ GroupFields(task.update) : dev[f] = view[f]
      BY <1>2 DEF Inv, UnderWay
    <3>2. Goal = Desired(o, view)
      BY <3>1 DEF Goal
    <3>3. Written(o, view, dev)
      BY <1>2, <1>8, <3>1, <3>2, AskedAlike DEF Written, Differs
    <3> QED
      BY <1>2, <1>3, <1>4, <3>1, <3>3, WrittenIsQuiet, WrittenIsReached, WrittenIsForeseen
  <2> QED BY <1>1, <1>6, <1>8, <2>2 DEF Inv
<1> QED BY <1>7, <1>8 DEF Verify

\* A failure reports no value.
LEMMA FailKeepsInv ==
  ASSUME Inv, Fail
  PROVE  Inv'
<1>1. TypeOK /\ TypeOK'
  BY TypeOKStep DEF Inv, Next
<1>2. /\ phase \in {"look", "write", "post", "verify"}
      /\ phase' = "idle" /\ done'.status = "failed" /\ done'.since = done.since
      /\ done'.posted = done.posted
      /\ UNCHANGED <<dev, edits, task, mode, view, before, past, runs>>
  BY <1>1, FinishedFields DEF Fail, TypeOK
<1>3. Bookkeeping'
  BY <1>2 DEF Inv, Bookkeeping, Looked
<1>4. UnderWay' /\ CheckEnded' /\ RealEnded' /\ RefusedEnded'
  BY <1>2 DEF UnderWay, CheckEnded, RealEnded, RefusedEnded
<1>5. CheckBefore' /\ RealBefore'
  BY <1>2 DEF Inv, CheckBefore, RealBefore, Looked
<1> QED BY <1>1, <1>3, <1>4, <1>5 DEF Inv

\* An edit ends every claim about the executions so far.
LEMMA EditKeepsInv ==
  ASSUME Inv, NEW f \in Editable, NEW v \in Value, Edit(f, v)
  PROVE  Inv'
<1>1. TypeOK /\ TypeOK'
  BY TypeOKStep DEF Inv, Next
<1>2. /\ edits \in Nat /\ edits' = edits + 1 /\ done.since \in Nat /\ past.since \in Nat
      /\ UNCHANGED <<task, mode, phase, view, before, done, past, runs>>
  BY <1>1 DEF Edit, TypeOK, Report
<1>3. done.since # edits' /\ past.since # edits' /\ done.since <= edits' /\ past.since <= edits'
  BY <1>2 DEF Inv, Bookkeeping
<1>4. Bookkeeping'
  BY <1>2, <1>3 DEF Inv, Bookkeeping, Looked
<1>5. UnderWay'
  BY <1>2, <1>3 DEF Inv, UnderWay
<1>6. CheckEnded' /\ RealEnded' /\ RefusedEnded' /\ CheckBefore' /\ RealBefore'
  BY <1>2, <1>3 DEF CheckEnded, RealEnded, RefusedEnded, CheckBefore, RealBefore
<1> QED BY <1>1, <1>4, <1>5, <1>6 DEF Inv

\* No task has run at the start.
LEMMA InvInit == Init => Inv
<1> SUFFICES ASSUME Init
             PROVE  Inv
  OBVIOUS
<1>1. phase = "idle" /\ done.status = "none" /\ past.status = "none"
      /\ done.since = 0 /\ past.since = 0 /\ edits = 0
  BY DEF Init, Pending
<1> QED
  BY <1>1, TypeOKInit
  DEF Inv, Bookkeeping, UnderWay, CheckEnded, RealEnded, RefusedEnded, CheckBefore,
      RealBefore, Looked

\* Every step keeps the invariant.
LEMMA InvStep == Inv /\ [Next]_vars => Inv'
<1> SUFFICES ASSUME Inv, [Next]_vars
             PROVE  Inv'
  OBVIOUS
<1>1. CASE UNCHANGED vars
  <2>1. TypeOK'
    BY <1>1, TypeOKStep DEF Inv
  <2> QED
    BY <1>1, <2>1
    DEF Inv, vars, Bookkeeping, UnderWay, CheckEnded, RealEnded, RefusedEnded, CheckBefore,
        RealBefore, Looked
<1> QED
  BY <1>1, StartKeepsInv, RefuseParamsKeepsInv, LookKeepsInv, WriteKeepsInv, PostKeepsInv,
     VerifyKeepsInv, FailKeepsInv, EditKeepsInv
  DEF Next

\* The invariant holds of every execution of every task.
THEOREM TaskInvCorrect == Spec => []Inv
<1> QED BY InvInit, InvStep, PTL DEF Spec

-----------------------------------------------------------------------------
(* The properties.                                                          *)

\* A successful real run leaves every setting as the task asks, whichever of
\* the two judgements ended it.
THEOREM TaskIsDoneCorrect == Spec => []TaskIsDone
<1>1. Inv => TaskIsDone
  BY DEF Inv, RealEnded, TaskIsDone
<1> QED BY <1>1, TaskInvCorrect, PTL

\* What check mode reports is what the real run after it reports.
THEOREM PredictionsCorrect == Spec => []PredictionsComeTrue
<1>1. Inv => PredictionsComeTrue
  <2> SUFFICES ASSUME Inv, AfterCheck, done.status = "ok"
               PROVE  /\ past.changed = done.changed \/ AsksInVain(task, view)
                      /\ AsForeseen(task, view, past.value, done.value)
    BY DEF PredictionsComeTrue
  <2>1. /\ past.mode = "check" /\ past.status = "ok" /\ past.since = edits
        /\ phase = "idle" /\ done.mode = "real"
    BY DEF AfterCheck, Undisturbed
  <2>2. /\ ~ParamsRefused(task) /\ past.changed = PredictsChange(task, view)
        /\ past.value = Projected(task, view)
    BY <2>1 DEF Inv, CheckBefore
  <2>3. done.since = edits
    BY <2>1, <2>2 DEF Inv, Bookkeeping, Looked, TypeOK, Report
  <2> QED BY <2>1, <2>2, <2>3 DEF Inv, RealEnded
<1> QED BY <1>1, TaskInvCorrect, PTL

\* What check mode has accepted the adapter accepts, but for a rename of a
\* switch that port 6 may not manage.
THEOREM AcceptedCorrect == Spec => []AcceptedIsAccepted
<1>1. Inv => AcceptedIsAccepted
  <2> SUFFICES ASSUME Inv, AfterCheck, done.status = "refused"
               PROVE  task.update.handler = "device_name"
                      /\ dev[<<"allp", ManagementPort>>] # 1
    BY DEF AcceptedIsAccepted
  <2>1. /\ past.mode = "check" /\ past.status = "ok" /\ past.since = edits
        /\ phase = "idle" /\ done.mode = "real"
    BY DEF AfterCheck, Undisturbed
  <2>2. ~ParamsRefused(task) /\ Validates(task, view)
    BY <2>1 DEF Inv, CheckBefore
  <2>3. done.since = edits
    BY <2>1, <2>2 DEF Inv, Bookkeeping, Looked, TypeOK, Report
  <2>4. dev = view /\ ~Accepts(Asked(task, view), view)
    BY <2>1, <2>2, <2>3 DEF Inv, RefusedEnded
  <2>5. task \in Task /\ view \in [Field -> Value]
    BY DEF Inv, TypeOK
  <2> QED BY <2>2, <2>4, <2>5, ValidIsAccepted
<1> QED BY <1>1, TaskInvCorrect, PTL

\* A task that has been run for real has nothing left to do.
THEOREM RepeatsCorrect == Spec => []RepeatsAreQuiet
<1>1. Inv => RepeatsAreQuiet
  <2> SUFFICES ASSUME Inv, Undisturbed, past.mode = "real"
               PROVE  /\ ~done.posted /\ done.status # "refused"
                      /\ done.mode = "real" /\ done.status = "ok" =>
                           /\ ~done.changed
                           /\ \A f \in Shows(task) : done.value[f] = past.value[f]
    BY DEF RepeatsAreQuiet
  <2>1. past.status = "ok" /\ past.since = edits /\ phase = "idle"
    BY DEF Undisturbed
  <2>2. ~ParamsRefused(task) /\ ~done.posted
    BY <2>1 DEF Inv, RealBefore
  <2>3. ASSUME done.status \in {"ok", "refused"}
        PROVE  done.since = edits /\ past.value = view /\ Quiet(task, view)
    BY <2>1, <2>2, <2>3 DEF Inv, Bookkeeping, RealBefore, Looked, TypeOK, Report
  <2>4. done.status # "refused"
    BY <2>1, <2>2, <2>3 DEF Inv, RefusedEnded, Quiet
  <2>5. ASSUME done.mode = "real", done.status = "ok"
        PROVE  ~done.changed /\ done.value = past.value
    BY <2>1, <2>2, <2>3, <2>5 DEF Inv, RealEnded
  <2> QED BY <2>2, <2>4, <2>5
<1> QED BY <1>1, TaskInvCorrect, PTL
=============================================================================
