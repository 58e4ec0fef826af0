----------------------- MODULE MCManagementReconnect -----------------------
(* Instances of ManagementReconnect for TLC.                                *)
EXTENDS ManagementReconnect, TLC

CONSTANTS a, b, z, l, n

Names == [h \in {n} |-> a]

Cfg(mode, sip) == [mode |-> mode, sip |-> sip, vlan |-> "unset", amac |-> "unset"]

\* A static switch, a fallback one on its static address and on a lease, one whose
\* fallback address is unusable, and a switch that only knows DHCP; addressed by
\* name where the name leads there; and one that shares its address with another
\* switch of its kind.
Boots ==
  {[cfg |-> Cfg("static", a), ip |-> a, conn |-> a],
   [cfg |-> Cfg("static", a), ip |-> a, conn |-> n],
   [cfg |-> Cfg("static", b), ip |-> b, conn |-> b],
   [cfg |-> Cfg("dhcp_with_fallback", a), ip |-> a, conn |-> a],
   [cfg |-> Cfg("dhcp_with_fallback", a), ip |-> l, conn |-> l],
   [cfg |-> Cfg("dhcp_with_fallback", z), ip |-> l, conn |-> l],
   [cfg |-> Cfg("dhcp_only", "none"), ip |-> l, conn |-> l]}

Values == [mode |-> Mode, sip |-> StaticAddr \union {"none"}, vlan |-> Vlan, amac |-> Mac]

\* Every update of one or two settings.
Updates ==
  UNION {{u \in [K -> UNION {Values[k] : k \in K}] : \A k \in K : u[k] \in Values[k]} :
           K \in {S \in SUBSET DOMAIN Values : S # {} /\ \E i, j \in S : S = {i, j}}}

TwinConfigs == {Cfg("static", b), Cfg("dhcp_only", "none")}
=============================================================================
