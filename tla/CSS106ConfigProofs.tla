------------------------- MODULE CSS106ConfigProofs -------------------------
(***************************************************************************)
(* What the proofs about the guarded writes need to know of the handler     *)
(* table and of the encoders: every handler reads what it judges, compares  *)
(* and writes; every update is well formed; a write that is neither refused *)
(* nor stale leaves the management path as it was read.                     *)
(***************************************************************************)
EXTENDS CSS106Config, TLAPS

\* The settings carried by the answers to a sequence of GETs.
Answered(es) == UNION {At(es[i]) : i \in 1..Len(es)}

\* What one GET answers,
LEMMA AnsweredOne ==
  ASSUME NEW e
  PROVE  Answered(<<e>>) = At(e) /\ Len(<<e>>) = 1
<1>1. Len(<<e>>) = 1 /\ <<e>>[1] = e /\ 1..1 = {1}
  OBVIOUS
<1> QED BY <1>1 DEF Answered

\* and what two do.
LEMMA AnsweredTwo ==
  ASSUME NEW d, NEW e
  PROVE  Answered(<<d, e>>) = At(d) \union At(e) /\ Len(<<d, e>>) = 2
<1>1. Len(<<d, e>>) = 2 /\ <<d, e>>[1] = d /\ <<d, e>>[2] = e /\ 1..2 = {1, 2}
  OBVIOUS
<1> QED BY <1>1 DEF Answered

-----------------------------------------------------------------------------
(* The rows of the handler table.                                           *)

\* A row is sound when its handler starts with the identity, reads everything
\* its POST carries and its baseline compares, and reads back what it has sent.
SoundRow(r) ==
  /\ r.group \in Group
  /\ Len(r.reads) \in 1..2 /\ Len(r.rereads) \in 1..2 /\ Len(r.plan) \in 0..2
  /\ r.plan # <<>> => Len(r.plan) \in 1..2
  /\ r.reads[1] = "sys"
  /\ Members(r.group) \subseteq Answered(r.reads)
  /\ Members(r.group) \subseteq Answered(r.rereads)
  /\ r.baseline \subseteq Answered(r.reads)

\* The handlers of /link.b,
LEMMA LinkRows == SoundRow(SetPortName) /\ SoundRow(SetPortConfiguration)
BY AnsweredOne, AnsweredTwo
DEF SoundRow, SetPortName, SetPortConfiguration, Members, At, AttrsOf, AttrsAt,
    SystemAnswer, LinkAnswer, Group

\* those of /sys.b,
LEMMA SystemRows ==
  SoundRow(SetDeviceName) /\ SoundRow(SetSystemConfiguration) /\ SoundRow(SetRstpBridge)
BY AnsweredOne, AnsweredTwo
DEF SoundRow, SetDeviceName, SetSystemConfiguration, SetRstpBridge, RstpBaseline,
    Members, At, AttrsOf, AttrsAt, SystemAnswer, RstpAnswer, Group, Field, DeviceAttr

\* that of /rstp.b,
LEMMA RstpRow == SoundRow(SetRstpPortEnabled)
BY AnsweredOne, AnsweredTwo
DEF SoundRow, SetRstpPortEnabled, RstpBaseline, Members, At, AttrsOf, AttrsAt,
    SystemAnswer, RstpAnswer, Group

\* those of /fwd.b,
LEMMA ForwardingRows == SoundRow(SetForwarding) /\ SoundRow(SetPortVlanPolicy)
BY AnsweredOne, AnsweredTwo
DEF SoundRow, SetForwarding, SetPortVlanPolicy, Members, At, AttrsOf, AttrsAt,
    SystemAnswer, ForwardingAnswer, PortVlanAnswer, Group

\* and those of the tables, cover their group.
LEMMA TableRows ==
  /\ SoundRow(SetSnmpConfiguration) /\ SoundRow(ReplaceStaticHosts)
  /\ SoundRow(ReplaceAclRules) /\ SoundRow(ReplaceVlans)
BY AnsweredOne, AnsweredTwo
DEF SoundRow, SetSnmpConfiguration, ReplaceStaticHosts, ReplaceAclRules, ReplaceVlans,
    Members, At, AttrsOf, AttrsAt, SystemAnswer, SnmpAnswer, HostAnswer, AclAnswer,
    VlanAnswer, Group

\* Every handler of the adapter has a sound row.
LEMMA RowsAreSound ==
  ASSUME NEW h \in DOMAIN HandlerTable
  PROVE  SoundRow(HandlerTable[h])
BY LinkRows, SystemRows, RstpRow, ForwardingRows, TableRows DEF HandlerTable

\* What a caller plans from, it reads from endpoints of the switch.
LEMMA PlansAreEndpoints ==
  ASSUME NEW h \in DOMAIN HandlerTable, NEW i \in 1..Len(HandlerTable[h].plan)
  PROVE  HandlerTable[h].plan[i] \in Endpoint
<1> DEFINE plan == HandlerTable[h].plan
<1>1. plan \in {<<>>, <<"sys">>, <<"sys", "rstp">>, <<"fwd">>, <<"host">>, <<"acl">>, <<"vlan">>}
  BY DEF HandlerTable, SetPortName, SetPortConfiguration, SetDeviceName,
     SetSystemConfiguration, SetSnmpConfiguration, SetRstpPortEnabled, SetRstpBridge,
     SetForwarding, SetPortVlanPolicy, ReplaceStaticHosts, ReplaceAclRules, ReplaceVlans
<1>2. {"sys", "rstp", "fwd", "host", "acl", "vlan"} \subseteq Endpoint
  BY DEF Endpoint, AttrsAt
<1>3. i \in 1..Len(plan)
  OBVIOUS
<1> HIDE DEF plan
<1>4. plan[i] \in Endpoint
  BY <1>1, <1>2, <1>3
<1> QED BY <1>4 DEF plan

-----------------------------------------------------------------------------
(* The updates.                                                             *)

\* An assignment names its settings and their values,
LEMMA AssignShape ==
  ASSUME NEW h, NEW p, NEW F, NEW o \in Assign(h, p, F)
  PROVE  o.handler = h /\ o.port = p /\ DOMAIN o.to = F /\ o.to \in [F -> Value]
BY DEF Assign

\* those of one port,
LEMMA PortAssignShape ==
  ASSUME NEW h, NEW attrs, NEW o \in PortAssign(h, attrs)
  PROVE  /\ o.handler = h /\ o.port \in Port
         /\ DOMAIN o.to = attrs \X {o.port} /\ o.to \in [DOMAIN o.to -> Value]
<1>1. PICK p \in Port : o \in Assign(h, p, attrs \X {p})
  BY DEF PortAssign
<1>2. o.handler = h /\ o.port = p /\ DOMAIN o.to = attrs \X {p}
  BY <1>1, AssignShape
<1>3. o.to \in [DOMAIN o.to -> Value]
  BY <1>1, <1>2, AssignShape
<1> QED BY <1>2, <1>3

\* those of the switch,
LEMMA DeviceAssignShape ==
  ASSUME NEW h, NEW attrs, NEW o \in DeviceAssign(h, attrs)
  PROVE  /\ o.handler = h /\ o.port = 0
         /\ DOMAIN o.to \subseteq attrs \X {0} /\ o.to \in [DOMAIN o.to -> Value]
<1>1. PICK A \in SUBSET attrs : o \in Assign(h, 0, A \X {0})
  BY DEF DeviceAssign
<1>2. DOMAIN o.to = A \X {0} /\ A \X {0} \subseteq attrs \X {0}
  BY <1>1, AssignShape
<1> QED BY <1>1, <1>2, AssignShape

\* those of a mask over the ports,
LEMMA MaskAssignShape ==
  ASSUME NEW h, NEW attr, NEW o \in MaskAssign(h, attr)
  PROVE  /\ o.handler = h /\ o.port = 0
         /\ DOMAIN o.to = {attr} \X Port /\ o.to \in [DOMAIN o.to -> Value]
BY AssignShape DEF MaskAssign

\* or the mirror target.
LEMMA MirrorTargetShape ==
  ASSUME NEW o \in MirrorTargetUpdates
  PROVE  /\ o.handler = "forwarding_mirroring" /\ o.port \in Port
         /\ DOMAIN o.to = {"mrto"} \X Port /\ o.to \in [DOMAIN o.to -> Value]
<1>1. PICK t \in Port \union {0} : o.to = TargetMask(t)
  BY DEF MirrorTargetUpdates
<1>2. TargetMask(t) \in [{"mrto"} \X Port -> Value]
  BY ValueAssumption DEF TargetMask
<1> QED BY <1>1, <1>2 DEF MirrorTargetUpdates

\* An update assigns settings of its handler's group, and each handler confines
\* itself: to the port it names, to a whole mask, or to settings of the device.
WellFormed(o) ==
  /\ o.handler \in DOMAIN HandlerTable
  /\ o.to \in [DOMAIN o.to -> Value]
  /\ DOMAIN o.to \subseteq GroupFields(o)
  /\ o.handler \in {"port_name", "port_configuration", "rstp_port", "forwarding_policy",
                    "forwarding_matrix", "port_vlan"} =>
       o.port \in Port /\ \A f \in DOMAIN o.to : f[2] = o.port
  /\ o.handler \in {"port_name", "port_configuration", "rstp_port", "forwarding_policy",
                    "port_vlan"} =>
       \A f \in DOMAIN o.to : f[1] \in {"nm", "en", "an", "spdc", "ena", "lck", "dvid"}
  /\ o.handler = "forwarding_matrix" => <<"fp6", o.port>> \in DOMAIN o.to
  /\ o.handler = "port_name" => \A f \in DOMAIN o.to : f[1] = "nm"
  /\ o.handler = "device_name" => \A f \in DOMAIN o.to : f[1] = "id"
  /\ o.handler = "forwarding_mirroring" =>
       \A f \in DOMAIN o.to :
         \/ f[1] = "imr" /\ f[2] = o.port
         \/ f[1] = "mrto" /\ <<"mrto", ManagementPort>> \in DOMAIN o.to
  /\ o.handler \in {"device_name", "system_configuration"} =>
       \A f \in DOMAIN o.to : f[1] \in {"id", "alla", "igmp", "igmq", "allp", "igfl"}
  /\ o.handler \in {"snmp", "rstp_bridge", "static_hosts", "acl_rules"} =>
       \A f \in DOMAIN o.to :
         f[2] = 0 /\ f[1] \in {"com", "loc", "prio", "frmc", "hosts", "acl"}
  /\ o.handler = "vlans" => DOMAIN o.to = {<<"vlans", 0>>, <<"vlan6", 0>>}

\* The updates of a port's configuration assign its switch, its negotiation, or both.
LEMMA PortConfigurationShape ==
  ASSUME NEW o \in PortConfigurationUpdates
  PROVE  /\ o.handler = "port_configuration" /\ o.port \in Port
         /\ DOMAIN o.to \subseteq {"en", "an", "spdc"} \X {o.port}
         /\ o.to \in [DOMAIN o.to -> Value]
<1> DEFINE assign(attrs) == PortAssign("port_configuration", attrs)
<1>1. ASSUME NEW attrs, attrs \subseteq {"en", "an", "spdc"}, o \in assign(attrs)
      PROVE  /\ o.handler = "port_configuration" /\ o.port \in Port
             /\ DOMAIN o.to \subseteq {"en", "an", "spdc"} \X {o.port}
             /\ o.to \in [DOMAIN o.to -> Value]
  <2>1. /\ o.handler = "port_configuration" /\ o.port \in Port
        /\ DOMAIN o.to = attrs \X {o.port} /\ o.to \in [DOMAIN o.to -> Value]
    BY <1>1, PortAssignShape
  <2> QED BY <1>1, <2>1
<1>2. \/ o \in assign({"en"}) \/ o \in assign({"an"}) \/ o \in assign({"en", "an"})
      \/ o \in assign({"an", "spdc"}) \/ o \in assign({"en", "an", "spdc"})
  BY DEF PortConfigurationUpdates
<1> HIDE DEF assign
<1> QED BY <1>1, <1>2

\* Updates of a port are well formed,
LEMMA PortUpdates ==
  ASSUME NEW h \in {"port_name", "port_configuration", "rstp_port", "forwarding_policy",
                    "forwarding_matrix", "port_vlan"},
         NEW o \in UpdatesOf[h]
  PROVE  WellFormed(o)
<1> DEFINE attrs == IF h = "port_name" THEN {"nm"}
                    ELSE IF h = "port_configuration" THEN {"en", "an", "spdc"}
                    ELSE IF h = "rstp_port" THEN {"ena"}
                    ELSE IF h = "forwarding_policy" THEN {"lck"}
                    ELSE IF h = "port_vlan" THEN {"dvid"} ELSE {"fp", "fp6"}
<1>1. h # "port_configuration" => o \in PortAssign(h, attrs)
  BY DEF UpdatesOf, PortNameUpdates, RstpPortUpdates,
         ForwardingPolicyUpdates, ForwardingMatrixUpdates, PortVlanUpdates
<1>2. /\ o.handler = h /\ o.port \in Port
      /\ DOMAIN o.to \subseteq attrs \X {o.port} /\ o.to \in [DOMAIN o.to -> Value]
      /\ h = "forwarding_matrix" => DOMAIN o.to = attrs \X {o.port}
  <2>1. CASE h = "port_configuration"
    <3>1. o \in PortConfigurationUpdates
      BY <2>1 DEF UpdatesOf
    <3> QED BY <2>1, <3>1, PortConfigurationShape
  <2>2. CASE h # "port_configuration"
    BY <1>1, <2>2, PortAssignShape
  <2> QED BY <2>1, <2>2
<1>3. h \in DOMAIN HandlerTable
  BY DEF HandlerTable
<1>4. attrs \X {o.port} \subseteq Members(HandlerTable[h].group)
  BY <1>2 DEF HandlerTable, Members, Field, PortAttr, AttrsOf, SetPortName,
     SetPortConfiguration, SetRstpPortEnabled, SetForwarding, SetPortVlanPolicy
<1>5. \A f \in attrs \X {o.port} :
        /\ f[2] = o.port
        /\ h # "forwarding_matrix" =>
             f[1] \in {"nm", "en", "an", "spdc", "ena", "lck", "dvid"}
  OBVIOUS
<1>6. /\ h = "forwarding_matrix" => <<"fp6", o.port>> \in attrs \X {o.port}
      /\ h = "port_name" => \A f \in attrs \X {o.port} : f[1] = "nm"
  OBVIOUS
<1> HIDE DEF attrs
<1> QED BY <1>2, <1>3, <1>4, <1>5, <1>6 DEF WellFormed, GroupFields, Row

\* those of mirroring,
LEMMA MirroringIsWellFormed ==
  ASSUME NEW o \in UpdatesOf["forwarding_mirroring"]
  PROVE  WellFormed(o)
<1> DEFINE imrs == PortAssign("forwarding_mirroring", {"imr"})
<1>1. o \in imrs \/ o \in MirrorTargetUpdates
  BY DEF UpdatesOf, MirroringUpdates
<1>2. /\ o.handler = "forwarding_mirroring" /\ o.port \in Port
      /\ DOMAIN o.to \in {{"imr"} \X {o.port}, {"mrto"} \X Port}
      /\ o.to \in [DOMAIN o.to -> Value]
  <2>1. CASE o \in imrs
    BY <2>1, PortAssignShape
  <2>2. CASE o \in MirrorTargetUpdates
    BY <2>2, MirrorTargetShape
  <2> QED BY <1>1, <2>1, <2>2
<1>3. o.handler \in DOMAIN HandlerTable
  BY <1>2 DEF HandlerTable
<1>4. DOMAIN o.to \subseteq GroupFields(o)
  BY <1>2 DEF GroupFields, Row, HandlerTable, SetForwarding, Members, Field, PortAttr, AttrsOf
<1>5. \A f \in DOMAIN o.to :
        \/ f[1] = "imr" /\ f[2] = o.port
        \/ f[1] = "mrto" /\ <<"mrto", ManagementPort>> \in DOMAIN o.to
  BY <1>2 DEF Port
<1> QED BY <1>2, <1>3, <1>4, <1>5 DEF WellFormed

\* of the system settings,
LEMMA SystemUpdates ==
  ASSUME NEW h \in {"device_name", "system_configuration"}, NEW o \in UpdatesOf[h]
  PROVE  WellFormed(o)
<1> DEFINE settings == DeviceAssign(h, {"igmp", "igmq"})
           names == DeviceAssign(h, {"id"})
           sources == DeviceAssign(h, {"alla"})
           masks(attr) == MaskAssign(h, attr)
<1>1. /\ \/ o \in settings \/ o \in names \/ o \in sources
         \/ o \in masks("allp") \/ o \in masks("igfl")
      /\ h = "device_name" => o \in names
  BY DEF UpdatesOf, DeviceNameUpdates, SystemConfigurationUpdates
<1>2. /\ o.handler = h /\ o.to \in [DOMAIN o.to -> Value]
      /\ \/ DOMAIN o.to \subseteq {"igmp", "igmq"} \X {0}
         \/ DOMAIN o.to \subseteq {"id"} \X {0}
         \/ DOMAIN o.to \subseteq {"alla"} \X {0}
         \/ DOMAIN o.to = {"allp"} \X Port
         \/ DOMAIN o.to = {"igfl"} \X Port
  <2>1. CASE o \in settings \/ o \in names \/ o \in sources
    BY <2>1, DeviceAssignShape
  <2>2. CASE o \in masks("allp") \/ o \in masks("igfl")
    BY <2>2, MaskAssignShape
  <2> QED BY <1>1, <2>1, <2>2
<1>3. o.handler \in DOMAIN HandlerTable
  BY <1>2 DEF HandlerTable
<1>4. DOMAIN o.to \subseteq GroupFields(o)
  BY <1>2 DEF GroupFields, Row, HandlerTable, SetDeviceName, SetSystemConfiguration,
     Members, Field, PortAttr, DeviceAttr, AttrsOf
<1>5. \A f \in DOMAIN o.to : f[1] \in {"id", "alla", "igmp", "igmq", "allp", "igfl"}
  BY <1>2
<1>6. h = "device_name" => \A f \in DOMAIN o.to : f[1] = "id"
  BY <1>1, DeviceAssignShape
<1> QED BY <1>2, <1>3, <1>4, <1>5, <1>6 DEF WellFormed

\* of SNMP, the RSTP bridge, static hosts and ACL rules,
LEMMA DeviceUpdates ==
  ASSUME NEW h \in {"snmp", "rstp_bridge", "static_hosts", "acl_rules"},
         NEW o \in UpdatesOf[h]
  PROVE  WellFormed(o)
<1> DEFINE attrs == IF h = "snmp" THEN {"com", "loc"}
                    ELSE IF h = "rstp_bridge" THEN {"prio", "frmc"}
                    ELSE IF h = "static_hosts" THEN {"hosts"} ELSE {"acl"}
<1>1. o \in DeviceAssign(h, attrs)
  BY DEF UpdatesOf, SnmpUpdates, RstpBridgeUpdates, StaticHostsTables, AclTables
<1>2. /\ o.handler = h /\ DOMAIN o.to \subseteq attrs \X {0}
      /\ o.to \in [DOMAIN o.to -> Value]
  BY <1>1, DeviceAssignShape
<1>3. h \in DOMAIN HandlerTable
  BY DEF HandlerTable
<1>4. attrs \X {0} \subseteq Members(HandlerTable[h].group)
  BY DEF HandlerTable, Members, Field, DeviceAttr, AttrsOf, SetSnmpConfiguration,
     SetRstpBridge, ReplaceStaticHosts, ReplaceAclRules
<1>5. \A f \in attrs \X {0} :
        f[2] = 0 /\ f[1] \in {"com", "loc", "prio", "frmc", "hosts", "acl"}
  OBVIOUS
<1> HIDE DEF attrs
<1> QED BY <1>2, <1>3, <1>4, <1>5 DEF WellFormed, GroupFields, Row

\* and of the VLANs.
LEMMA VlanUpdates ==
  ASSUME NEW o \in UpdatesOf["vlans"]
  PROVE  WellFormed(o)
<1> DEFINE F == {<<"vlans", 0>>, <<"vlan6", 0>>}
<1>1. o \in Assign("vlans", 0, F)
  BY DEF UpdatesOf, VlanTables
<1>2. o.handler = "vlans" /\ DOMAIN o.to = F /\ o.to \in [DOMAIN o.to -> Value]
  BY <1>1, AssignShape
<1>3. F \subseteq Members("vlans") /\ HandlerTable["vlans"].group = "vlans"
  BY DEF HandlerTable, ReplaceVlans, Members, Field, DeviceAttr, AttrsOf
<1>4. "vlans" \in DOMAIN HandlerTable
  BY DEF HandlerTable
<1> QED BY <1>2, <1>3, <1>4 DEF WellFormed, GroupFields, Row

\* An update names the handler it is meant for.
LEMMA UpdateNamesHandler ==
  ASSUME NEW h \in DOMAIN UpdatesOf, NEW o \in UpdatesOf[h]
  PROVE  o.handler = h
<1>1. CASE h \in {"port_name", "port_configuration", "rstp_port", "forwarding_policy",
                  "forwarding_matrix", "port_vlan"}
  BY <1>1, PortAssignShape, PortConfigurationShape
  DEF UpdatesOf, PortNameUpdates, RstpPortUpdates,
      ForwardingPolicyUpdates, ForwardingMatrixUpdates, PortVlanUpdates
<1>2. CASE h = "forwarding_mirroring"
  BY <1>2, PortAssignShape, MirrorTargetShape DEF UpdatesOf, MirroringUpdates
<1>3. CASE h \in {"device_name", "snmp", "rstp_bridge", "static_hosts", "acl_rules"}
  BY <1>3, DeviceAssignShape
  DEF UpdatesOf, DeviceNameUpdates, SnmpUpdates, RstpBridgeUpdates, StaticHostsTables, AclTables
<1>4. CASE h = "system_configuration"
  BY <1>4, DeviceAssignShape, MaskAssignShape DEF UpdatesOf, SystemConfigurationUpdates
<1>5. CASE h = "vlans"
  BY <1>5, AssignShape DEF UpdatesOf, VlanTables
<1> QED BY <1>1, <1>2, <1>3, <1>4, <1>5 DEF UpdatesOf

\* Every operation of every instance is well formed.
LEMMA OperationsAreWellFormed ==
  ASSUME NEW o \in Operation
  PROVE  WellFormed(o) /\ SoundRow(Row(o))
<1>1. PICK h \in DOMAIN HandlerTable : o \in UpdatesOf[h]
  BY HandlerAssumption DEF Operation
<1>2. WellFormed(o)
  BY <1>1, PortUpdates, MirroringIsWellFormed, SystemUpdates, DeviceUpdates, VlanUpdates
  DEF HandlerTable
<1> QED BY <1>2, RowsAreSound DEF WellFormed, Row

-----------------------------------------------------------------------------
(* The encoders.                                                            *)

\* The write state differs from the configuration in the IGMP querier alone.
LEMMA WriteStateFacts ==
  ASSUME NEW o, NEW s \in [Field -> Value]
  PROVE  /\ WriteState(o, s) \in [Field -> Value]
         /\ \A f \in Field : f # <<"igmq", 0>> => WriteState(o, s)[f] = s[f]
         /\ Row(o).group # "system" => WriteState(o, s) = s
BY ValueAssumption DEF WriteState, QuerierSettled

\* An update replaces the settings it names and no other.
LEMMA OverlayFacts ==
  ASSUME NEW s \in [Field -> Value], NEW to, to \in [DOMAIN to -> Value]
  PROVE  /\ Overlay(s, to) \in [Field -> Value]
         /\ \A f \in Field : Overlay(s, to)[f] = IF f \in DOMAIN to THEN to[f] ELSE s[f]
BY DEF Overlay

\* What is posted has values for settings, and differs from what was read only
\* in the settings the operation names.
LEMMA DesiredFacts ==
  ASSUME NEW o \in Operation, NEW s \in [Field -> Value]
  PROVE  /\ Desired(o, s) \in [Field -> Value]
         /\ \A f \in Field \ Named(o) : Desired(o, s)[f] = s[f]
         /\ Row(o).group # "system" => Desired(o, s) = Overlay(s, o.to)
<1>1. o.to \in [DOMAIN o.to -> Value]
  BY OperationsAreWellFormed DEF WellFormed
<1> DEFINE r == WriteState(o, s)
           v == Overlay(r, o.to)
<1>2. r \in [Field -> Value] /\ (Row(o).group # "system" => r = s)
  BY WriteStateFacts
<1>3. v \in [Field -> Value]
  BY <1>1, <1>2, OverlayFacts
<1>4. Desired(o, s) = WriteState(o, v)
  BY DEF Desired
<1>5. Desired(o, s) \in [Field -> Value] /\ (Row(o).group # "system" => Desired(o, s) = v)
  BY <1>3, <1>4, WriteStateFacts
<1>6. ASSUME NEW f \in Field \ Named(o)
      PROVE  Desired(o, s)[f] = s[f]
  <2>1. f \notin DOMAIN o.to /\ (Row(o).group = "system" => f # <<"igmq", 0>>)
    BY DEF Named
  <2>2. v[f] = r[f]
    BY <1>1, <1>2, <2>1, OverlayFacts
  <2>3. r[f] = s[f]
    BY <2>1, <1>2, WriteStateFacts
  <2>4. Desired(o, s)[f] = v[f]
    BY <1>3, <1>4, <2>1, WriteStateFacts
  <2> QED BY <2>2, <2>3, <2>4
<1> QED BY <1>2, <1>5, <1>6

\* The write state of a group is a matter of the group's settings alone.
LEMMA WriteStateIsLocal ==
  ASSUME NEW o \in Operation, NEW s \in [Field -> Value], NEW t \in [Field -> Value],
         \A f \in GroupFields(o) : s[f] = t[f],
         NEW f \in GroupFields(o)
  PROVE  WriteState(o, s)[f] = WriteState(o, t)[f]
<1>1. f \in Field
  BY DEF GroupFields, Members
<1>2. CASE Row(o).group = "system"
  <2>1. <<"igmp", 0>> \in GroupFields(o) /\ <<"igmq", 0>> \in GroupFields(o)
    BY <1>2 DEF GroupFields, Members, Field, DeviceAttr, AttrsOf
  <2> QED BY <1>1, <1>2, <2>1 DEF WriteState, QuerierSettled
<1>3. CASE Row(o).group # "system"
  BY <1>3, WriteStateFacts
<1> QED BY <1>2, <1>3

\* What is posted of a group is a matter of what was read of the group.
LEMMA DesiredIsLocal ==
  ASSUME NEW o \in Operation, NEW s \in [Field -> Value], NEW t \in [Field -> Value],
         \A f \in GroupFields(o) : s[f] = t[f],
         NEW f \in GroupFields(o)
  PROVE  Desired(o, s)[f] = Desired(o, t)[f]
<1>1. o.to \in [DOMAIN o.to -> Value]
  BY OperationsAreWellFormed DEF WellFormed
<1> DEFINE v(x) == Overlay(WriteState(o, x), o.to)
<1>2. v(s) \in [Field -> Value] /\ v(t) \in [Field -> Value]
  BY <1>1, WriteStateFacts, OverlayFacts
<1>3. \A g \in GroupFields(o) : WriteState(o, s)[g] = WriteState(o, t)[g]
  BY WriteStateIsLocal
<1>4. \A g \in GroupFields(o) : v(s)[g] = v(t)[g]
  BY <1>1, <1>3, WriteStateFacts, OverlayFacts DEF GroupFields, Members
<1> HIDE DEF v
<1>5. WriteState(o, v(s))[f] = WriteState(o, v(t))[f]
  BY <1>2, <1>4, WriteStateIsLocal
<1> QED BY <1>5 DEF Desired, v

-----------------------------------------------------------------------------
(* The refusals.                                                            *)

\* An operation that is neither refused nor stale posts every setting of the
\* management path as it has read it.
LEMMA ProtectedIsKept ==
  ASSUME NEW o \in Operation, NEW s \in [Field -> Value], NEW b \in [Field -> Value],
         ~Refused(o, s), ~RefusedUpFront(o, b), ~Stale(o, b, s),
         NEW f \in Protected
  PROVE  Desired(o, s)[f] = s[f]
<1>1. WellFormed(o) /\ f \in Field
  BY OperationsAreWellFormed DEF Protected
<1>2. f = <<f[1], f[2]>> /\ (f[2] = ManagementPort \/ f[1] \in {"fp6", "vlan6"})
  BY DEF Protected, Field
<1>3. f # <<"igmq", 0>>
  BY <1>2, PortAssumption
<1>4. CASE f \notin DOMAIN o.to
  BY <1>1, <1>3, <1>4, DesiredFacts DEF Named
<1>5. ASSUME f \in DOMAIN o.to, Row(o).group # "system"
      PROVE  Desired(o, s)[f] = o.to[f]
  BY <1>1, <1>5, DesiredFacts, OverlayFacts DEF WellFormed
<1>6. ASSUME f \in DOMAIN o.to,
             o.handler \in {"port_name", "port_configuration", "rstp_port",
                           "forwarding_policy", "forwarding_matrix", "port_vlan"}
      PROVE  Desired(o, s)[f] = s[f]
  <2>1. o.port # ManagementPort /\ f[2] = o.port
    BY <1>1, <1>6 DEF WellFormed, Refused, NamesManagementPort
  <2>2. f[1] \in {"fp6", "vlan6"} /\ f[1] \in AttrsOf[Row(o).group]
    BY <1>1, <1>2, <1>6, <2>1 DEF WellFormed, GroupFields, Members
  <2>3. o.handler = "forwarding_matrix"
    BY <1>1, <1>6, <2>2 DEF WellFormed
  <2>4. f = <<"fp6", o.port>>
    BY <1>2, <2>1, <2>2, <2>3 DEF Row, HandlerTable, AttrsOf, SetForwarding
  <2>5. Overlay(s, o.to)[f] = s[f]
    BY <2>3, <2>4 DEF Refused, MovesManagementRelation, Differs
  <2>6. Row(o).group # "system"
    BY <2>3 DEF Row, HandlerTable, SetForwarding
  <2> QED BY <2>5, <2>6, DesiredFacts
<1>7. ASSUME f \in DOMAIN o.to, o.handler = "forwarding_mirroring"
      PROVE  Desired(o, s)[f] = s[f]
  <2>1. o.port # ManagementPort
    BY DEF Refused, NamesManagementPort
  <2>2. f = <<"mrto", ManagementPort>>
    BY <1>1, <1>2, <1>7, <2>1 DEF WellFormed
  <2>3. Row(o).group = "forwarding"
    BY <1>7 DEF Row, HandlerTable, SetForwarding
  <2>4. s[f] = 0 /\ o.to[f] = 0
    BY <1>7, <2>2, <2>3 DEF Refused, MirrorsManagementPort, TargetsManagementPort
  <2> QED BY <1>5, <1>7, <2>3, <2>4
<1>8. ASSUME f \in DOMAIN o.to, o.handler \in {"device_name", "system_configuration"}
      PROVE  Desired(o, s)[f] = s[f]
  <2>1. f[1] \in {"id", "alla", "igmp", "igmq", "allp", "igfl"} /\ f[2] = ManagementPort
    BY <1>1, <1>2, <1>8 DEF WellFormed
  <2>2. f[1] \in {"allp", "igfl"}
    BY <1>1, <2>1, PortAssumption DEF Field, PortAttr
  <2>3. Row(o).group = "system"
    BY <1>8 DEF Row, HandlerTable, SetDeviceName, SetSystemConfiguration
  <2> QED BY <1>2, <2>1, <2>2, <2>3 DEF Refused, BreaksSystemMask, Differs
<1>9. ASSUME f \in DOMAIN o.to,
             o.handler \in {"snmp", "rstp_bridge", "static_hosts", "acl_rules"}
      PROVE  FALSE
  BY <1>1, <1>2, <1>9, PortAssumption DEF WellFormed
<1>10. ASSUME f \in DOMAIN o.to, o.handler = "vlans"
       PROVE  Desired(o, s)[f] = s[f]
  <2>1. f = <<"vlan6", 0>>
    BY <1>1, <1>2, <1>10, PortAssumption DEF WellFormed
  <2>2. o.to[f] = b[f]
    BY <1>10, <2>1 DEF RefusedUpFront, MovesManagementMembership
  <2>3. Row(o).group = "vlans" /\ f \in Row(o).baseline
    BY <1>1, <1>10, <2>1 DEF Row, HandlerTable, ReplaceVlans, Members, AttrsOf
  <2>4. b[f] = s[f]
    BY <2>3 DEF Stale, Differs
  <2> QED BY <1>5, <1>10, <2>2, <2>3, <2>4
<1>11. o.handler \in {"port_name", "port_configuration", "rstp_port", "forwarding_policy",
                     "forwarding_matrix", "port_vlan", "forwarding_mirroring", "device_name",
                     "system_configuration", "snmp", "rstp_bridge", "static_hosts",
                     "acl_rules", "vlans"}
  BY <1>1 DEF WellFormed, HandlerTable
<1> QED BY <1>4, <1>6, <1>7, <1>8, <1>9, <1>10, <1>11

\* Every refusal is decided on settings the handler has read: it says the same
\* of any two configurations that answer the handler's GETs alike.
LEMMA RefusalIsInformed ==
  ASSUME NEW o \in Operation, NEW s \in [Field -> Value], NEW t \in [Field -> Value],
         \A f \in Answered(Row(o).reads) : s[f] = t[f],
         Refused(o, t)
  PROVE  Refused(o, s)
<1>1. WellFormed(o) /\ SoundRow(Row(o))
  BY OperationsAreWellFormed
<1>2. \A f \in GroupFields(o) : s[f] = t[f]
  BY <1>1 DEF SoundRow, GroupFields
<1>3. \A f \in GroupFields(o) : Desired(o, s)[f] = Desired(o, t)[f]
  BY <1>2, DesiredIsLocal
<1>4. \A f \in DOMAIN o.to : Overlay(s, o.to)[f] = Overlay(t, o.to)[f]
  BY <1>1, <1>2, OverlayFacts DEF WellFormed, GroupFields, Members
<1>5. At("sys") \subseteq Answered(Row(o).reads)
  BY <1>1 DEF SoundRow, Answered
<1>6. CASE NamesManagementPort(o) \/ TargetsManagementPort(o)
  BY <1>6 DEF Refused
<1>7. CASE CutsActivePort(o, t)
  <2>1. o.handler = "port_configuration" /\ o.port \in Port
    BY <1>1, <1>7 DEF CutsActivePort, WellFormed
  <2>2. At("link") \subseteq Answered(Row(o).reads)
    BY <2>1, AnsweredTwo DEF Row, HandlerTable, SetPortConfiguration
  <2>3. <<"up", o.port>> \in At("link")
    BY <2>1 DEF At, AttrsAt, SystemAnswer, LinkAnswer, RstpAnswer, ForwardingAnswer,
      PortVlanAnswer, SnmpAnswer, HostAnswer, AclAnswer, VlanAnswer, Field, PortAttr
  <2>4. s[<<"up", o.port>>] = t[<<"up", o.port>>]
    BY <2>2, <2>3
  <2>5. \A f \in DOMAIN o.to : s[f] = t[f]
    BY <1>1, <1>2 DEF WellFormed
  <2>6. Disables(o, t) => Disables(o, s)
    BY <2>5 DEF Disables
  <2>7. Renegotiates(o, t) => Renegotiates(o, s)
    BY <1>4, <2>5 DEF Renegotiates, Differs
  <2> QED BY <1>7, <2>4, <2>6, <2>7 DEF CutsActivePort, Refused
<1>8. CASE BreaksSystemMask(o, t)
  <2>1. Row(o).group = "system"
    BY <1>8 DEF BreaksSystemMask
  <2>2. {"allp", "igfl"} \X {ManagementPort} \subseteq GroupFields(o)
    BY <2>1 DEF GroupFields, Members, AttrsOf, Field, PortAttr, Port
  <2>3. \A f \in {"allp", "igfl"} \X {ManagementPort} :
          s[f] = t[f] /\ Desired(o, s)[f] = Desired(o, t)[f]
    BY <1>2, <1>3, <2>2
  <2>4. Differs({"allp", "igfl"} \X {ManagementPort}, Desired(o, t), t) =>
          Differs({"allp", "igfl"} \X {ManagementPort}, Desired(o, s), s)
    BY <2>3 DEF Differs
  <2>5. Desired(o, s)[<<"allp", ManagementPort>>] = Desired(o, t)[<<"allp", ManagementPort>>]
    BY <2>3
  <2> QED BY <1>8, <2>4, <2>5 DEF BreaksSystemMask, Refused
<1>9. CASE FreezesPortEnable(o, t)
  <2>1. s[<<"frmc", 0>>] = t[<<"frmc", 0>>]
    BY <1>5 DEF At, AttrsAt, SystemAnswer, LinkAnswer, RstpAnswer, ForwardingAnswer,
      PortVlanAnswer, SnmpAnswer, HostAnswer, AclAnswer, VlanAnswer, Field, DeviceAttr
  <2>2. \A f \in DOMAIN o.to : s[f] = t[f]
    BY <1>1, <1>2 DEF WellFormed
  <2> QED BY <1>4, <1>9, <2>1, <2>2 DEF FreezesPortEnable, Differs, Refused
<1>10. CASE FreezesBridge(o, t)
  <2>1. {<<"frmc", 0>>, <<"prio", 0>>} \subseteq GroupFields(o)
    BY <1>10 DEF FreezesBridge, GroupFields, Members, AttrsOf, Field, DeviceAttr, Row,
       HandlerTable, SetRstpBridge
  <2> QED BY <1>2, <1>3, <1>10, <2>1 DEF FreezesBridge, Differs, Refused
<1>11. CASE MirrorsManagementPort(o, t)
  <2>1. {<<"imr", ManagementPort>>, <<"mrto", ManagementPort>>} \subseteq GroupFields(o)
    BY <1>11 DEF MirrorsManagementPort, GroupFields, Members, AttrsOf, Field, PortAttr, Port
  <2> QED BY <1>2, <1>11, <2>1 DEF MirrorsManagementPort, Refused
<1>12. CASE MovesManagementRelation(o, t)
  <2>1. <<"fp6", o.port>> \in DOMAIN o.to
    BY <1>1, <1>12 DEF MovesManagementRelation, WellFormed
  <2>2. s[<<"fp6", o.port>>] = t[<<"fp6", o.port>>]
    BY <1>1, <1>2, <2>1 DEF WellFormed
  <2> QED BY <1>4, <1>12, <2>1, <2>2 DEF MovesManagementRelation, Differs, Refused
<1> QED BY <1>6, <1>7, <1>8, <1>9, <1>10, <1>11, <1>12 DEF Refused

\* The handlers that post /link.b,
LEMMA LinkHandlers ==
  ASSUME NEW o \in Operation, NEW f \in GroupFields(o), f[1] \in {"en", "an", "spdc"}
  PROVE  o.handler \in {"port_name", "port_configuration"}
<1>1. f[1] \in AttrsOf[Row(o).group] /\ SoundRow(Row(o)) /\ WellFormed(o)
  BY OperationsAreWellFormed DEF GroupFields, Members
<1>2. Row(o).group = "link"
  BY <1>1 DEF SoundRow, AttrsOf, Group
<1> QED BY <1>1, <1>2 DEF WellFormed, Row, HandlerTable,
   SetPortName, SetPortConfiguration, SetDeviceName, SetSystemConfiguration,
   SetSnmpConfiguration, SetRstpPortEnabled, SetRstpBridge, SetForwarding,
   SetPortVlanPolicy, ReplaceStaticHosts, ReplaceAclRules, ReplaceVlans

\* have read which links are up.
LEMMA LinksAreRead ==
  ASSUME NEW o \in Operation, NEW f \in GroupFields(o), f[1] \in {"en", "an", "spdc"},
         NEW p \in Port
  PROVE  <<"up", p>> \in Answered(Row(o).reads)
<1>1. Row(o).reads = <<"sys", "link">>
  BY LinkHandlers DEF Row, HandlerTable, SetPortName, SetPortConfiguration
<1>2. <<"up", p>> \in At("link")
  BY DEF At, AttrsAt, SystemAnswer, LinkAnswer, RstpAnswer, ForwardingAnswer,
     PortVlanAnswer, SnmpAnswer, HostAnswer, AclAnswer, VlanAnswer, Field, PortAttr
<1> QED BY <1>1, <1>2, AnsweredTwo

\* A write that is not refused neither disables nor renegotiates a port whose
\* link it has read up, though it may switch it on.
LEMMA ActiveLinkIsKept ==
  ASSUME NEW o \in Operation, NEW s \in [Field -> Value], ~Refused(o, s),
         NEW p \in Port, NEW f \in {"en", "an", "spdc"} \X {p},
         s[<<"up", p>>] = 1, Desired(o, s)[f] # s[f]
  PROVE  f[1] = "en" /\ Desired(o, s)[f] # 0
<1>1. WellFormed(o) /\ f \in Field /\ f = <<f[1], p>> /\ f[1] \in {"en", "an", "spdc"}
  BY OperationsAreWellFormed DEF Field, PortAttr
<1>2. f \in DOMAIN o.to
  BY <1>1, DesiredFacts DEF Named
<1>3. o.handler = "port_configuration" /\ o.port = p
  <2>1. f \in GroupFields(o)
    BY <1>1, <1>2 DEF WellFormed
  <2>2. o.handler \in {"port_name", "port_configuration"}
    BY <1>1, <2>1, LinkHandlers
  <2>3. o.port = p
    BY <1>1, <1>2, <2>2 DEF WellFormed
  <2>4. o.handler = "port_name" => f[1] = "nm"
    BY <1>1, <1>2 DEF WellFormed
  <2> QED BY <1>1, <2>2, <2>3, <2>4
<1>4. Desired(o, s)[f] = Overlay(s, o.to)[f] /\ Overlay(s, o.to)[f] = o.to[f]
  BY <1>1, <1>2, <1>3, DesiredFacts, OverlayFacts
  DEF WellFormed, Row, HandlerTable, SetPortConfiguration
<1>5. ~Disables(o, s) /\ ~Renegotiates(o, s)
  BY <1>3 DEF Refused, CutsActivePort
<1>6. f[1] \notin {"an", "spdc"}
  BY <1>1, <1>2, <1>3, <1>4, <1>5 DEF Renegotiates, Differs
<1>7. f = <<"en", o.port>>
  BY <1>1, <1>3, <1>6
<1> QED BY <1>2, <1>4, <1>5, <1>7 DEF Disables

\* The comparison with the caller's baseline is decided on settings read, too.
LEMMA StalenessIsInformed ==
  ASSUME NEW o \in Operation, NEW b, NEW s, NEW t,
         \A f \in Answered(Row(o).reads) : s[f] = t[f],
         Stale(o, b, t)
  PROVE  Stale(o, b, s)
BY OperationsAreWellFormed DEF SoundRow, Stale, Differs
=============================================================================
