--------------------------- MODULE MCDeviceSession ---------------------------
(* The CSS106 plugin beside a fork of the same family, which knows nothing,  *)
(* and one of another family that knows some of its switches too.  The        *)
(* switch may run the tested firmware, another version or build of it, the    *)
(* product that cannot be written, a firmware that two plugins recognise, one *)
(* whose family has no plugin, or none that is known.                         *)
EXTENDS DeviceSession

CONSTANTS css106, fork, css3, nothing, garbled

MCPlugin == {css106, fork, css3}
MCName == {"css106", "CSS106", "css3", "css9", "5g", "4p", "5G", "rb260gs", "RB260GS", "auto",
           "2.19", "2.20"}
MCFold == [n \in MCName |-> CASE n = "CSS106" -> "css106" [] n = "5G" -> "5g"
                              [] n = "RB260GS" -> "rb260gs" [] OTHER -> n]
MCBuild == {"a", "b"}
MCPin == {[model |-> "rb260gs", version |-> "auto"], [model |-> "auto", version |-> "2.19"]}

Id(f, p, v, b) == [family |-> f, product |-> p, version |-> v, build |-> b, label |-> "RB260GS"]
Tested == Id("css106", "5G", "2.19", "a")
Rebuilt == Id("css106", "5G", "2.19", "b")
Newer == Id("css106", "5G", "2.20", "a")
Small == [Id("css106", "4p", "2.19", "a") EXCEPT !.label = "4p"]
Foreign == Id("css9", "5G", "2.19", "a")
Claimed == Id("CSS106", "5G", "2.19", "b")
MCIdentity == {Tested, Rebuilt, Newer, Small, Foreign, Claimed}

Rec(i, b) == [family |-> i.family, product |-> i.product, version |-> i.version, build |-> b]
MCRecord == {Rec(Tested, "a"), Rec(Claimed, "any")}
MCFamily == [p \in MCPlugin |-> CASE p = css106 -> "css106" [] p = fork -> "CSS106" [] OTHER -> "css3"]
MCSupports == [p \in MCPlugin |-> IF p = css106 THEN {Rec(Tested, "a")} ELSE {}]
MCOffers == [p \in MCPlugin |-> [i \in MCIdentity |->
               IF p # css106 THEN {} ELSE IF i = Small THEN {"read"} ELSE {"read", "write"}]]

MCSwitch == {"tested", "rebuilt", "newer", "small", "both", "foreign", "unknown"}
MCShows == [p \in MCPlugin |-> [s \in MCSwitch |->
  CASE p = css106 /\ s = "tested" -> Tested
    [] p = css106 /\ s = "rebuilt" -> Rebuilt
    [] p = css106 /\ s = "newer" -> Newer
    [] p = css106 /\ s = "small" -> Small
    [] p = css106 /\ s = "both" -> Tested
    [] p = css106 /\ s = "foreign" -> garbled
    [] p = css3 /\ s = "both" -> Claimed
    [] p = css3 /\ s = "foreign" -> Foreign
    [] OTHER -> nothing]]
=============================================================================
