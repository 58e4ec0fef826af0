---------------------------- MODULE CSS106Config ----------------------------
(***************************************************************************)
(* The configuration a CSS106 switch stores, cut into the settings the     *)
(* guarded writes tell apart, and the sixteen-or-so write handlers of the   *)
(* adapter as data: which endpoint each one reads and rereads, which group  *)
(* its POST carries, which settings its caller's baseline covers, what it   *)
(* refuses and what it posts.  A setting is a pair <<wire name, port>>,     *)
(* with port 0 for a setting of the whole device.                           *)
(***************************************************************************)
EXTENDS Naturals, Sequences

CONSTANTS
  EthernetPort,     \* the ports a write may name (1-5 on the RB260GS)
  ManagementPort,   \* port 6, the SFP port that carries management
  Value,            \* the values a setting takes; 0 and 1 stand for off and on
  Handler           \* the write handlers the clients of this instance call

ASSUME PortAssumption ==
  /\ 0 \notin EthernetPort
  /\ ManagementPort \notin EthernetPort
  /\ ManagementPort # 0

ASSUME ValueAssumption == {0, 1} \subseteq Value

Port == EthernetPort \union {ManagementPort}

-----------------------------------------------------------------------------
(* The settings, by endpoint and by write group.                            *)

PortAttr == {"nm", "en", "an", "spdc", "up", "allp", "igfl", "ena", "edge",
             "fp", "fp6", "lck", "imr", "mrto", "dvid"}

DeviceAttr == {"ident", "sid", "id", "alla", "igmp", "igmq", "prio", "frmc",
               "com", "loc", "hosts", "acl", "vlans", "vlan6"}

Field == (PortAttr \X Port) \union (DeviceAttr \X {0})

\* "an" is automatic negotiation and "spdc" the speed and duplex it is otherwise forced
\* to, one setting for both; "alla" is the management source, where 0 stands for the address 0.0.0.0, which
\* means none; "fp" is a forwarding row towards Ethernet ports, "fp6" its bit for port 6;
\* "vlan6" is port 6's membership over the whole VLAN table, "vlans" the rest.
AttrsOf ==
  [link |-> {"nm", "en", "an", "spdc"}, system |-> {"id", "alla", "igmp", "igmq", "allp", "igfl"},
   bridge |-> {"prio", "frmc"}, rstp |-> {"ena"},
   forwarding |-> {"fp", "fp6", "lck", "imr", "mrto"}, portvlan |-> {"dvid"},
   snmp |-> {"com", "loc"}, hosts |-> {"hosts"}, acl |-> {"acl"},
   vlans |-> {"vlans", "vlan6"}]

Group == DOMAIN AttrsOf

Members(g) == {f \in Field : f[1] \in AttrsOf[g]}

\* What an answer of each endpoint tells: all of it is parsed, some is written.
SystemAnswer ==
  {"ident", "sid", "id", "alla", "igmp", "igmq", "allp", "igfl", "prio", "frmc"}
LinkAnswer == {"nm", "en", "an", "spdc", "up"}
RstpAnswer == {"ena", "edge"}
ForwardingAnswer == {"fp", "fp6", "lck", "imr", "mrto"}
PortVlanAnswer == {"dvid"}     \* in the same /fwd.b object
SnmpAnswer == {"com", "loc"}
HostAnswer == {"hosts"}
AclAnswer == {"acl"}
VlanAnswer == {"vlans", "vlan6"}

AttrsAt ==
  [sys |-> SystemAnswer, link |-> LinkAnswer, rstp |-> RstpAnswer,
   fwd |-> ForwardingAnswer \union PortVlanAnswer, snmp |-> SnmpAnswer,
   host |-> HostAnswer, acl |-> AclAnswer, vlan |-> VlanAnswer]

Endpoint == DOMAIN AttrsAt

At(e) == {f \in Field : f[1] \in AttrsAt[e]}

\* What the device reports but no POST carries: link state, the RSTP edge
\* flag, the firmware identity (0 is the probed one) and the serial number.
Status == {f \in Field : f[1] \in {"up", "edge", "ident", "sid"}}

\* Everything that keeps the management path through port 6 as it is.
Protected ==
  {f \in Field \ Status : f[2] = ManagementPort \/ f[1] \in {"fp6", "vlan6"}}

-----------------------------------------------------------------------------
(* The handlers: the GETs before the POST, the group and endpoint of the    *)
(* POST, the GETs of the readback, the GETs of the caller's plan and the    *)
(* settings its baseline compares (none: the handler takes no baseline).    *)

SetPortName ==
  [group |-> "link", reads |-> <<"sys", "link">>, rereads |-> <<"link">>,
   plan |-> <<>>, baseline |-> {}]

SetPortConfiguration ==
  [group |-> "link", reads |-> <<"sys", "link">>, rereads |-> <<"link">>,
   plan |-> <<>>, baseline |-> {}]

SetDeviceName ==
  [group |-> "system", reads |-> <<"sys">>, rereads |-> <<"sys">>,
   plan |-> <<>>, baseline |-> {}]

SetSystemConfiguration ==
  [group |-> "system", reads |-> <<"sys">>, rereads |-> <<"sys">>,
   plan |-> <<"sys">>, baseline |-> Members("system") \union {<<"sid", 0>>}]

SetSnmpConfiguration ==
  [group |-> "snmp", reads |-> <<"sys", "snmp">>, rereads |-> <<"snmp">>,
   plan |-> <<>>, baseline |-> {}]

RstpBaseline ==
  Members("bridge") \union Members("rstp") \union {f \in Field : f[1] = "edge"}

SetRstpPortEnabled ==
  [group |-> "rstp", reads |-> <<"sys", "rstp">>, rereads |-> <<"sys", "rstp">>,
   plan |-> <<"sys", "rstp">>, baseline |-> RstpBaseline]

SetRstpBridge ==
  [group |-> "bridge", reads |-> <<"sys", "rstp">>, rereads |-> <<"sys", "rstp">>,
   plan |-> <<"sys", "rstp">>, baseline |-> RstpBaseline]

\* Port policy, matrix and mirroring share _set_forwarding.
SetForwarding ==
  [group |-> "forwarding", reads |-> <<"sys", "fwd">>, rereads |-> <<"fwd">>,
   plan |-> <<"fwd">>, baseline |-> Members("forwarding")]

SetPortVlanPolicy ==
  [group |-> "portvlan", reads |-> <<"sys", "fwd">>, rereads |-> <<"fwd">>,
   plan |-> <<"fwd">>, baseline |-> Members("portvlan")]

ReplaceStaticHosts ==
  [group |-> "hosts", reads |-> <<"sys", "host">>, rereads |-> <<"host">>,
   plan |-> <<"host">>, baseline |-> Members("hosts")]

ReplaceAclRules ==
  [group |-> "acl", reads |-> <<"sys", "acl">>, rereads |-> <<"acl">>,
   plan |-> <<"acl">>, baseline |-> Members("acl")]

ReplaceVlans ==
  [group |-> "vlans", reads |-> <<"sys", "vlan">>, rereads |-> <<"vlan">>,
   plan |-> <<"vlan">>, baseline |-> Members("vlans")]

HandlerTable ==
  [port_name |-> SetPortName, port_configuration |-> SetPortConfiguration,
   device_name |-> SetDeviceName, system_configuration |-> SetSystemConfiguration,
   snmp |-> SetSnmpConfiguration, rstp_port |-> SetRstpPortEnabled,
   rstp_bridge |-> SetRstpBridge, forwarding_policy |-> SetForwarding,
   forwarding_matrix |-> SetForwarding, forwarding_mirroring |-> SetForwarding,
   port_vlan |-> SetPortVlanPolicy, static_hosts |-> ReplaceStaticHosts,
   acl_rules |-> ReplaceAclRules, vlans |-> ReplaceVlans]

ASSUME HandlerAssumption == Handler \subseteq DOMAIN HandlerTable

-----------------------------------------------------------------------------
(* The updates a caller may ask for: the handler, the port it names (0 for  *)
(* none) and the settings it assigns.  Every port is enumerated, port 6     *)
(* included, so that refusing it is the code's doing and not the model's.   *)

Assign(handler, port, F) == [handler: {handler}, port: {port}, to: [F -> Value]]

PortAssign(handler, attrs) ==
  UNION {Assign(handler, p, attrs \X {p}) : p \in Port}

DeviceAssign(handler, attrs) ==
  UNION {Assign(handler, 0, A \X {0}) : A \in (SUBSET attrs) \ {{}}}

\* A mask is given as a whole: every port's bit is assigned.
MaskAssign(handler, attr) == Assign(handler, 0, {attr} \X Port)

\* The mirror target is one port or none.
TargetMask(t) == [f \in {"mrto"} \X Port |-> IF f[2] = t THEN 1 ELSE 0]

MirrorTargetUpdates ==
  {[handler |-> "forwarding_mirroring", port |-> p, to |-> TargetMask(t)] :
     p \in Port, t \in Port \union {0}}

PortNameUpdates == PortAssign("port_name", {"nm"})

\* A port is switched on or off, its negotiation made automatic or forced, or both.
PortConfigurationUpdates ==
  LET assign(attrs) == PortAssign("port_configuration", attrs)
      automatic == {o \in assign({"an"}) \union assign({"en", "an"}) :
                      o.to[<<"an", o.port>>] = 1}
      forced == {o \in assign({"an", "spdc"}) \union assign({"en", "an", "spdc"}) :
                   o.to[<<"an", o.port>>] = 0}
  IN assign({"en"}) \union automatic \union forced

DeviceNameUpdates == DeviceAssign("device_name", {"id"})

SystemConfigurationUpdates ==
  DeviceAssign("system_configuration", {"igmp", "igmq"})
    \union DeviceAssign("system_configuration", {"alla"})
    \union MaskAssign("system_configuration", "allp")
    \union MaskAssign("system_configuration", "igfl")

SnmpUpdates == DeviceAssign("snmp", {"com", "loc"})
RstpPortUpdates == PortAssign("rstp_port", {"ena"})
RstpBridgeUpdates == DeviceAssign("rstp_bridge", {"prio", "frmc"})
ForwardingPolicyUpdates == PortAssign("forwarding_policy", {"lck"})
ForwardingMatrixUpdates == PortAssign("forwarding_matrix", {"fp", "fp6"})

MirroringUpdates ==
  PortAssign("forwarding_mirroring", {"imr"}) \union MirrorTargetUpdates

PortVlanUpdates == PortAssign("port_vlan", {"dvid"})

\* A table is replaced as a whole; of the VLAN table, port 6's column is apart.
StaticHostsTables == DeviceAssign("static_hosts", {"hosts"})
AclTables == DeviceAssign("acl_rules", {"acl"})
VlanTables == Assign("vlans", 0, {<<"vlans", 0>>, <<"vlan6", 0>>})

UpdatesOf ==
  [port_name |-> PortNameUpdates, port_configuration |-> PortConfigurationUpdates,
   device_name |-> DeviceNameUpdates, system_configuration |-> SystemConfigurationUpdates,
   snmp |-> SnmpUpdates, rstp_port |-> RstpPortUpdates, rstp_bridge |-> RstpBridgeUpdates,
   forwarding_policy |-> ForwardingPolicyUpdates,
   forwarding_matrix |-> ForwardingMatrixUpdates,
   forwarding_mirroring |-> MirroringUpdates, port_vlan |-> PortVlanUpdates,
   static_hosts |-> StaticHostsTables, acl_rules |-> AclTables, vlans |-> VlanTables]

Operation == UNION {UpdatesOf[h] : h \in Handler}

Row(o) == HandlerTable[o.handler]

GroupFields(o) == Members(Row(o).group)

-----------------------------------------------------------------------------
(* The encoders: what a handler posts, given the settings it has read.      *)

Overlay(s, to) == [f \in Field |-> IF f \in DOMAIN to THEN to[f] ELSE s[f]]

\* The system object is written with the querier off whenever snooping is off.
QuerierSettled(s) ==
  [f \in Field |-> IF f = <<"igmq", 0>> /\ s[<<"igmp", 0>>] = 0 THEN 0 ELSE s[f]]

\* The write state a handler compares: the raw settings, except that the
\* system object is settled as it is parsed.
WriteState(o, s) == IF Row(o).group = "system" THEN QuerierSettled(s) ELSE s

\* Mutant: the rest of the object is sent with defaults instead of as read.
DesiredFromDefaults(o, s) == Overlay([f \in Field |-> 0], o.to)

Desired(o, s) == WriteState(o, Overlay(WriteState(o, s), o.to))

\* The settings a handler may give a value other than the one it has read.
Named(o) ==
  DOMAIN o.to \union (IF Row(o).group = "system" THEN {<<"igmq", 0>>} ELSE {})

Differs(F, s, t) == \E f \in F : s[f] # t[f]

-----------------------------------------------------------------------------
(* The refusals, on the settings s just read or the caller's baseline b.    *)

AnyPortMayBeNamed(o) == FALSE   \* mutant: port 6 is like any other

NamesManagementPort(o) == o.port = ManagementPort

\* The update switches a port off that is on.
Disables(o, s) ==
  LET on == <<"en", o.port>> IN on \in DOMAIN o.to /\ s[on] # 0 /\ o.to[on] = 0

\* The update gives the port another negotiation, or another forced speed or duplex.
Renegotiates(o, s) ==
  Differs(DOMAIN o.to \intersect ({"an", "spdc"} \X {o.port}), Overlay(s, o.to), s)

CutsActivePortByDisabling(o, s) ==   \* mutant: negotiation may change under a link
  o.handler = "port_configuration" /\ s[<<"up", o.port>>] = 1 /\ Disables(o, s)

\* A port that is link-up keeps its connectivity.
CutsActivePort(o, s) ==
  /\ o.handler = "port_configuration"
  /\ s[<<"up", o.port>>] = 1
  /\ Disables(o, s) \/ Renegotiates(o, s)

\* Port 6 stays among the allowed ports and none of its mask bits moves.
BreaksSystemMask(o, s) ==
  /\ Row(o).group = "system"
  /\ LET d == Desired(o, s) IN
       \/ d[<<"allp", ManagementPort>>] # 1
       \/ Differs({"allp", "igfl"} \X {ManagementPort}, d, s)

\* Forwarding reserved multicast freezes the per-port enable bits...
FreezesPortEnable(o, s) ==
  /\ o.handler = "rstp_port"
  /\ s[<<"frmc", 0>>] = 1
  /\ Differs(DOMAIN o.to, Overlay(s, o.to), s)

\* ... and the bridge settings, unless the same update switches it off.
FreezesBridge(o, s) ==
  /\ o.handler = "rstp_bridge"
  /\ Desired(o, s)[<<"frmc", 0>>] = 1
  /\ Differs({<<"prio", 0>>}, Desired(o, s), s)

\* A forwarding answer whose target mask names several ports is not decoded; the
\* port VLAN handlers read the same object without its mirroring.
Undecodable(o, s) ==
  /\ Row(o).group = "forwarding"
  /\ \E p, q \in Port : p # q /\ s[<<"mrto", p>>] # 0 /\ s[<<"mrto", q>>] # 0

\* Port 6 is neither a mirror source nor the target before a forwarding write.
MirrorsManagementPort(o, s) ==
  /\ Row(o).group = "forwarding"
  /\ \E a \in {"imr", "mrto"} : s[<<a, ManagementPort>>] # 0

RelationMayMove(o, s) == FALSE   \* mutant: the row's port 6 bit is not compared

MovesManagementRelation(o, s) ==
  /\ o.handler = "forwarding_matrix"
  /\ Differs({"fp6"} \X {o.port}, Overlay(s, o.to), s)

TargetsManagementPort(o) ==
  /\ o.handler = "forwarding_mirroring"
  /\ <<"mrto", ManagementPort>> \in DOMAIN o.to
  /\ o.to[<<"mrto", ManagementPort>>] # 0

MembershipMayMove(o, b) == FALSE   \* mutant: port 6's membership is not compared

\* The VLAN encoder compares port 6's membership with the caller's baseline.
MovesManagementMembership(o, b) ==
  /\ o.handler = "vlans"
  /\ o.to[<<"vlan6", 0>>] # b[<<"vlan6", 0>>]

\* Two handlers check the baseline itself, before their first request.
RefusedUpFront(o, b) ==
  \/ MovesManagementMembership(o, b)
  \/ o.handler = "system_configuration" /\ BreaksSystemMask(o, b)

Refused(o, s) ==
  \/ NamesManagementPort(o)
  \/ CutsActivePort(o, s)
  \/ BreaksSystemMask(o, s)
  \/ FreezesPortEnable(o, s)
  \/ FreezesBridge(o, s)
  \/ MirrorsManagementPort(o, s)
  \/ MovesManagementRelation(o, s)
  \/ TargetsManagementPort(o)

\* The caller's baseline no longer describes the switch.
Stale(o, b, s) == Differs(Row(o).baseline, b, s)

PostsAnyway(o, s) == FALSE   \* mutant: there is no no-op test

\* Nothing to write: the complete group already is what would be posted.
NoOp(o, s) == ~Differs(GroupFields(o), Desired(o, s), WriteState(o, s))
=============================================================================
