--------------------- MODULE ManagementReconnectProofs ---------------------
(***************************************************************************)
(* The safety properties of ManagementReconnect, for any addresses, updates  *)
(* and number of polls.  The argument is ReconnectInv: the switch is where   *)
(* its configuration may put it, so a read that has reached it tells where   *)
(* it is, and the URL chosen from that read leads where the write puts it.   *)
(***************************************************************************)
EXTENDS ManagementReconnect, TLAPS

\* What a read of the system object may return.
SystemRead == [cfg: Config, ip: Addr \union {"none"}]

\* An update merged into a read is again a complete configuration.
LEMMA TargetIsConfig ==
  ASSUME NEW u \in Update, NEW s \in SystemRead
  PROVE  Target(u, s) \in Config
<1>1. DOMAIN s.cfg = {"mode", "sip", "vlan", "amac"}
  BY DEF SystemRead, Config
<1>2. s.cfg \in Config
  BY DEF SystemRead
<1>3. Target(u, s) = [mode |-> Target(u, s)["mode"], sip |-> Target(u, s)["sip"],
                      vlan |-> Target(u, s)["vlan"], amac |-> Target(u, s)["amac"]]
  BY <1>1 DEF Target
<1>4. Target(u, s)["mode"] \in Mode
  BY <1>1, <1>2, UpdateAssumption DEF Target, Config
<1>5. Target(u, s)["sip"] \in StaticAddr \union {"none"}
  BY <1>1, <1>2, UpdateAssumption DEF Target, Config
<1>6. Target(u, s)["vlan"] \in Vlan
  BY <1>1, <1>2, UpdateAssumption DEF Target, Config
<1>7. Target(u, s)["amac"] \in Mac
  BY <1>1, <1>2, UpdateAssumption DEF Target, Config
<1> QED BY <1>3, <1>4, <1>5, <1>6, <1>7 DEF Config

\* Every host stands for an address, and an address for itself.
LEMMA Hosts ==
  /\ \A h \in Host : Reach(h) \in Addr
  /\ \A h \in Addr : Reach(h) = h
  /\ "none" \notin Host /\ "same" \notin Host
BY AddressAssumption DEF Host, Reach

\* A configuration puts the switch at addresses only.
LEMMA PlacesAreAddresses == \A c \in Config : Places(c) \subseteq Addr
BY DEF Places, Config, Addr

\* A write that changes neither the mode nor the static address in use leaves the
\* switch where it is.
LEMMA StaysPut ==
  ASSUME NEW u \in Update, NEW s \in SystemRead, s.ip \in Places(s.cfg),
         ~Changed("mode", u, s), ~ActiveStaticChanged(u, s)
  PROVE  s.ip \in Places(Target(u, s))
<1>1. Target(u, s) \in Config /\ s.cfg \in Config
  BY TargetIsConfig DEF SystemRead
<1>2. Target(u, s).mode = s.cfg.mode
  BY DEF Changed
<1>3. UsesStatic(s) => Target(u, s).sip = s.cfg.sip
  BY DEF ActiveStaticChanged, Changed
<1> QED BY <1>1, <1>2, <1>3 DEF UsesStatic, Places, Config, Mode

\* A write over the open transport leaves the switch where it is.
LEMMA SameStays ==
  ASSUME NEW u \in Update, NEW s \in SystemRead, NEW x \in Host \union {"none"},
         conn \in Host, s.ip \in Places(s.cfg), ReadbackUrl(u, s, x) = "same"
  PROVE  s.ip \in Places(Target(u, s))
<1>1. Target(u, s).sip \in StaticAddr \union {"none"}
  BY TargetIsConfig DEF Config
<1>2. "same" # Target(u, s).sip /\ "same" # x /\ "same" # conn
  BY <1>1, Hosts DEF Host, Addr
<1>3. ~PathChanged(u, s)
  BY <1>2 DEF ReadbackUrl
<1> QED BY <1>3, StaysPut DEF PathChanged

\* A URL that the caller has not named leads to where the write will put the switch.
LEMMA ChosenPlace ==
  ASSUME NEW u \in Update, NEW s \in SystemRead, NEW x \in Host \union {"none"},
         conn \in Host, Reach(conn) = s.ip, s.ip \in Places(s.cfg),
         ~Invalid(u, s, x), ReadbackUrl(u, s, x) \notin {"same", x}
  PROVE  Reach(ReadbackUrl(u, s, x)) \in Places(Target(u, s))
<1> DEFINE t == Target(u, s)
           url == ReadbackUrl(u, s, x)
<1>1. t \in Config /\ s.cfg \in Config
  BY TargetIsConfig DEF SystemRead
<1>2. PathChanged(u, s) \/ Changed("amac", u, s)
  BY DEF ReadbackUrl
<1>3. CASE Deterministic(u, s)
  <2>1. url = t.sip /\ t.sip # "none"
    BY <1>2, <1>3 DEF ReadbackUrl, Invalid
  <2>2. t.mode # "dhcp_only"
    BY <1>3 DEF Deterministic, ActiveStaticChanged, Invalid
  <2>3. Reach(t.sip) = t.sip
    BY <1>1, <2>1, Hosts DEF Config, Addr
  <2>4. t.sip \notin Unusable
    BY DEF Invalid
  <2> QED BY <2>1, <2>2, <2>3, <2>4, <1>1 DEF Places
<1>4. CASE ~Deterministic(u, s)
  <2>1. url = conn /\ ~ActiveStaticChanged(u, s)
        /\ (Changed("mode", u, s) => LeaseKeepsUrl(s))
    BY <1>2, <1>4 DEF ReadbackUrl, Invalid
  <2>2. CASE Changed("mode", u, s)
    <3>1. s.ip \in Lease
      BY <1>1, <2>1, <2>2 DEF LeaseKeepsUrl, Places, Config, Mode
    <3>2. t.mode # "static"
      BY <1>4 DEF Deterministic
    <3> QED BY <2>1, <3>1, <3>2 DEF Places
  <2>3. CASE ~Changed("mode", u, s)
    BY <2>1, <2>3, StaysPut
  <2> QED BY <2>2, <2>3
<1> QED BY <1>3, <1>4

\* What the switch would answer now is a read.
LEMMA InfoIsARead == TypeOK => Info \in SystemRead
BY DEF TypeOK, Info, SystemRead

\* The goal of a write in progress is a configuration.
LEMMA GoalIsConfig == ASSUME ReconnectInv, pc # "idle" PROVE Goal \in Config
<1>1. update \in Update /\ before \in SystemRead
  BY DEF ReconnectInv, TypeOK, Phases, SystemRead
<1> QED BY <1>1, TargetIsConfig DEF Goal

\* A switch that starts where its configuration puts it starts the invariant.
LEMMA InitReconnect == Init => ReconnectInv
<1> SUFFICES ASSUME Init PROVE ReconnectInv
  OBVIOUS
<1>1. /\ cfg \in Config /\ ip \in Addr /\ conn \in Host
      /\ ip \in Places(cfg)
  BY AddressAssumption, BootAssumption DEF Init
<1>2. TypeOK
  <2>1. cfg \in Config /\ ip \in Addr \union {"none"} /\ conn \in Host
    BY <1>1
  <2>2. {base, before} \subseteq [cfg: Config, ip: Addr \union {"none"}]
    BY <1>1 DEF Init, Info
  <2>3. attempt \in 0..Attempts /\ ops \in 0..MaxOps /\ edits \in 0..MaxEdits
        /\ moves \in 0..MaxMoves
    BY BoundAssumption DEF Init
  <2>4. update \in Update \union {<<>>}
    BY DEF Init
  <2> QED BY <2>1, <2>2, <2>3, <2>4 DEF Init, TypeOK
<1>3. Located /\ Phases /\ ReadWhereItIs
  BY <1>1 DEF Init, Located, Phases, ReadWhereItIs
<1>4. PollsWhereTheSwitchComesUp /\ SameTransportStays /\ UncertaintyIsEarned
  BY DEF Init, PollsWhereTheSwitchComesUp, SameTransportStays, UncertaintyIsEarned
<1> QED BY <1>2, <1>3, <1>4 DEF ReconnectInv

\* Asking for an update keeps it.
LEMMA BeginReconnect ==
  ASSUME ReconnectInv, NEW u \in Update, NEW x \in Host \union {"none"}, Begin(u, x)
  PROVE  ReconnectInv'
<1>1. TypeOK'
  <2>1. attempt' \in 0..Attempts /\ ops' \in 0..MaxOps /\ edits' \in 0..MaxEdits
        /\ moves' \in 0..MaxMoves
    BY BoundAssumption DEF Begin, ReconnectInv, TypeOK
  <2> QED BY <2>1 DEF Begin, ReconnectInv, TypeOK
<1>2. Located' /\ Phases' /\ ReadWhereItIs'
  BY DEF Begin, ReconnectInv, Located, Phases, ReadWhereItIs
<1>3. PollsWhereTheSwitchComesUp' /\ SameTransportStays' /\ UncertaintyIsEarned'
  BY DEF Begin, PollsWhereTheSwitchComesUp, SameTransportStays, UncertaintyIsEarned
<1> QED BY <1>1, <1>2, <1>3 DEF ReconnectInv

\* The caller's baseline keeps it.
LEMMA PlanReconnect == ASSUME ReconnectInv, Plan PROVE ReconnectInv'
BY DEF Plan, End, Info, counts, ReconnectInv, TypeOK, Located, Phases, ReadWhereItIs,
       PollsWhereTheSwitchComesUp, SameTransportStays, UncertaintyIsEarned

\* A twin's answer to the fresh read keeps it.
LEMMA ReadTwinReconnect == ASSUME ReconnectInv, ReadTwin PROVE ReconnectInv'
BY DEF ReadTwin, End, counts, opVars, ReconnectInv, TypeOK, Located, Phases,
       ReadWhereItIs, PollsWhereTheSwitchComesUp, SameTransportStays, UncertaintyIsEarned

\* An unanswered request keeps it.
LEMMA RequestFailsReconnect == ASSUME ReconnectInv, RequestFails PROVE ReconnectInv'
BY DEF RequestFails, End, counts, opVars, ReconnectInv, TypeOK, Located, Phases,
       ReadWhereItIs, PollsWhereTheSwitchComesUp, SameTransportStays, UncertaintyIsEarned

\* The readback over the open transport keeps it, whoever answers.
LEMMA VerifyReconnect ==
  ASSUME ReconnectInv, NEW answer, Verify(answer) PROVE ReconnectInv'
BY DEF Verify, End, counts, opVars, ReconnectInv, TypeOK, Located, Phases,
       ReadWhereItIs, PollsWhereTheSwitchComesUp, SameTransportStays, UncertaintyIsEarned

\* A verified poll keeps it.
LEMMA PollSucceedsReconnect ==
  ASSUME ReconnectInv, NEW answer, PollSucceeds(answer) PROVE ReconnectInv'
BY BoundAssumption
   DEF PollSucceeds, End, Polled, counts, opVars, ReconnectInv, TypeOK, Located, Phases,
       ReadWhereItIs, PollsWhereTheSwitchComesUp, SameTransportStays, UncertaintyIsEarned

\* A failed poll keeps it, and the last one is the Attempts-th.
LEMMA PollAgainReconnect == ASSUME ReconnectInv, PollAgain PROVE ReconnectInv'
BY BoundAssumption
   DEF PollAgain, Remaining, End, Polled, counts, opVars, Goal, ReconnectInv, TypeOK,
       Located, Phases, ReadWhereItIs, PollsWhereTheSwitchComesUp, SameTransportStays,
       UncertaintyIsEarned

\* So does an address change that no POST causes,
LEMMA MoveReconnect == ASSUME ReconnectInv, Move PROVE ReconnectInv'
<1>1. Places(cfg) \subseteq Addr
  BY PlacesAreAddresses DEF ReconnectInv, TypeOK
<1>2. TypeOK'
  BY <1>1, BoundAssumption DEF Move, counts, opVars, ReconnectInv, TypeOK
<1>3. Located' /\ Phases' /\ ReadWhereItIs'
  BY DEF Move, counts, opVars, ReconnectInv, Located, Phases, ReadWhereItIs
<1>4. PollsWhereTheSwitchComesUp' /\ SameTransportStays' /\ UncertaintyIsEarned'
  BY DEF Move, counts, opVars, Goal, ReconnectInv, PollsWhereTheSwitchComesUp,
         SameTransportStays, UncertaintyIsEarned
<1> QED BY <1>2, <1>3, <1>4 DEF ReconnectInv

\* and an edit from outside.
LEMMA EditReconnect ==
  ASSUME ReconnectInv,
         NEW k, NEW v, \/ k = "mode" /\ v \in Mode
                       \/ k = "vlan" /\ v \in Vlan,
         Edit(k, v)
  PROVE  ReconnectInv'
<1>1. cfg' \in Config
  BY DEF Edit, Config, ReconnectInv, TypeOK
<1>2. Places(cfg') \subseteq Addr
  BY <1>1, PlacesAreAddresses
<1>3. TypeOK'
  <2>1. edits' \in 0..MaxEdits
    BY BoundAssumption DEF Edit, ReconnectInv, TypeOK
  <2> QED BY <1>1, <1>2, <2>1 DEF Edit, opVars, ReconnectInv, TypeOK
<1>4. Located' /\ Phases' /\ ReadWhereItIs'
  BY DEF Edit, opVars, ReconnectInv, Located, Phases, ReadWhereItIs
<1>5. PollsWhereTheSwitchComesUp' /\ SameTransportStays' /\ UncertaintyIsEarned'
  BY DEF Edit, opVars, Goal, ReconnectInv, PollsWhereTheSwitchComesUp,
         SameTransportStays, UncertaintyIsEarned
<1> QED BY <1>3, <1>4, <1>5 DEF ReconnectInv
\* The URL a readback asks is a host, the open transport, or none at all.
LEMMA UrlType ==
  ASSUME NEW u \in Update, NEW s \in SystemRead, NEW x \in Host \union {"none"}, conn \in Host
  PROVE  ReadbackUrl(u, s, x) \in Host \union {"same", "refused"}
<1>1. Target(u, s).sip \in StaticAddr \union {"none"}
  BY TargetIsConfig DEF Config
<1> QED BY <1>1 DEF ReadbackUrl, Host, Addr

\* The fresh read establishes what the write relies on: the chosen URL.
LEMMA ReadReconnect == ASSUME ReconnectInv, Read PROVE ReconnectInv'
<1>1. /\ update \in Update /\ explicit \in Host \union {"none"} /\ conn \in Host
      /\ Info \in SystemRead /\ Info.cfg = cfg /\ Info.ip = ip
      /\ Reach(conn) = ip /\ ip \in Places(cfg)
  <2>1. update \in Update /\ explicit \in Host \union {"none"} /\ conn \in Host
    BY DEF Read, ReconnectInv, TypeOK, Phases
  <2>2. Info \in SystemRead /\ Info.cfg = cfg /\ Info.ip = ip
    BY InfoIsARead DEF Info, ReconnectInv
  <2>3. Reach(conn) = ip /\ ip # "none"
    BY <2>1, Hosts DEF Read, Host
  <2> QED BY <2>1, <2>2, <2>3 DEF ReconnectInv, Located
<1>2. /\ UNCHANGED <<cfg, ip, conn, update, explicit, base, attempt, ops, edits, moves, sent>>
      /\ before' = Info
  BY DEF Read, opVars, counts
<1>3. CASE /\ pc' = "idle" /\ result' \in {"refused", "unchanged"} /\ chosen' = chosen
  <2>1. TypeOK'
    BY <1>1, <1>2, <1>3 DEF ReconnectInv, TypeOK, SystemRead
  <2>2. Located' /\ Phases' /\ ReadWhereItIs'
    BY <1>2, <1>3 DEF ReconnectInv, Located, Phases, ReadWhereItIs
  <2>3. PollsWhereTheSwitchComesUp' /\ SameTransportStays' /\ UncertaintyIsEarned'
    BY <1>2, <1>3 DEF Read, ReconnectInv, Phases, PollsWhereTheSwitchComesUp,
                      SameTransportStays, UncertaintyIsEarned
  <2> QED BY <2>1, <2>2, <2>3 DEF ReconnectInv
<1>4. CASE /\ ~Invalid(update, Info, explicit)
           /\ chosen' = ReadbackUrl(update, Info, explicit)
           /\ pc' = "post" /\ result' = result
  <2>1. chosen' \in Host \union {"same"}
    BY <1>1, <1>4, UrlType DEF Invalid
  <2>2. TypeOK'
    BY <1>1, <1>2, <1>4, <2>1 DEF ReconnectInv, TypeOK, SystemRead
  <2>3. Located' /\ Phases' /\ ReadWhereItIs'
    BY <1>1, <1>2, <1>4 DEF Read, ReconnectInv, Located, Phases, ReadWhereItIs, Reach
  <2>4. Goal' = Target(update, Info)
    BY <1>2 DEF Goal
  <2>5. PollsWhereTheSwitchComesUp'
    <3>1. CASE chosen' \in {"same", explicit}
      BY <3>1, <1>2 DEF PollsWhereTheSwitchComesUp
    <3>2. CASE chosen' \notin {"same", explicit}
      <4>1. Reach(chosen') \in Places(Target(update, Info))
        BY <1>1, <1>4, <3>2, ChosenPlace
      <4> QED BY <4>1, <2>4 DEF PollsWhereTheSwitchComesUp, Reach
    <3> QED BY <3>1, <3>2
  <2>6. SameTransportStays'
    <3>1. chosen' = "same" => ip \in Places(Target(update, Info))
      BY <1>1, <1>4, SameStays
    <3> QED BY <1>1, <1>2, <2>4, <3>1 DEF SameTransportStays
  <2>7. UncertaintyIsEarned'
    BY <1>2, <1>4 DEF Read, ReconnectInv, Phases, UncertaintyIsEarned
  <2> QED BY <2>2, <2>3, <2>5, <2>6, <2>7 DEF ReconnectInv
<1> QED BY <1>3, <1>4 DEF Read, End

\* The POST keeps it: over the open transport the switch stays, else it may move.
LEMMA PostReconnect ==
  ASSUME ReconnectInv, NEW taken \in BOOLEAN, NEW answer \in {"good", "lost", "rejected"},
         Post(taken, answer)
  PROVE  ReconnectInv'
<1>1. Goal \in Config /\ Places(Goal) \subseteq Addr
  BY GoalIsConfig, PlacesAreAddresses DEF Post
<1>2. /\ UNCHANGED <<conn, update, explicit, base, before, chosen, attempt, ops, edits, moves>>
      /\ sent' = TRUE /\ Goal' = Goal
  BY DEF Post, opVars, counts, Goal
<1>3. TypeOK'
  <2>1. cfg' \in Config /\ ip' \in Addr \union {"none"}
    BY <1>1 DEF Post, ReconnectInv, TypeOK
  <2> QED BY <1>2, <2>1 DEF Post, End, ReconnectInv, TypeOK
<1>4. Located'
  <2>1. CASE taken /\ chosen # "same"
    BY <2>1 DEF Post, Located
  <2>2. CASE taken /\ chosen = "same"
    BY <2>2 DEF Post, ReconnectInv, ReadWhereItIs, SameTransportStays, Located
  <2>3. CASE ~taken
    BY <2>3 DEF Post, ReconnectInv, Located
  <2> QED BY <2>1, <2>2, <2>3
<1>5. Phases' /\ UncertaintyIsEarned'
  BY <1>2, BoundAssumption DEF Post, End, ReconnectInv, TypeOK, Phases, UncertaintyIsEarned
<1>6. ReadWhereItIs' /\ PollsWhereTheSwitchComesUp' /\ SameTransportStays'
  BY <1>2 DEF Post, End, ReconnectInv, Reach, ReadWhereItIs, PollsWhereTheSwitchComesUp,
              SameTransportStays
<1> QED BY <1>3, <1>4, <1>5, <1>6 DEF ReconnectInv

\* Every step keeps the invariant.
LEMMA NextReconnect == ReconnectInv /\ [Next]_vars => ReconnectInv'
<1> SUFFICES ASSUME ReconnectInv, [Next]_vars PROVE ReconnectInv'
  OBVIOUS
<1>1. CASE Client
  BY <1>1, PlanReconnect, ReadReconnect, ReadTwinReconnect, PostReconnect,
     VerifyReconnect, PollSucceedsReconnect, PollAgainReconnect, RequestFailsReconnect
     DEF Client
<1>2. CASE \E m \in Mode : Edit("mode", m)
  BY <1>2, EditReconnect
<1>3. CASE \E v \in Vlan : Edit("vlan", v)
  BY <1>3, EditReconnect
<1>4. CASE UNCHANGED vars
  BY <1>4 DEF vars, opVars, counts, Goal, ReconnectInv, TypeOK, Located, Phases,
              ReadWhereItIs, PollsWhereTheSwitchComesUp, SameTransportStays,
              UncertaintyIsEarned
<1> QED BY <1>1, <1>2, <1>3, <1>4, BeginReconnect, MoveReconnect DEF Next

\* ReconnectInv holds in every reachable state.
THEOREM ReconnectInvCorrect == Spec => []ReconnectInv
BY InitReconnect, NextReconnect, PTL DEF Spec

\* Variables keep their types: never a poll too many, never a connection to nowhere.
THEOREM ReconnectTypeCorrect == Spec => []TypeOK
<1>1. ReconnectInv => TypeOK
  BY DEF ReconnectInv
<1> QED BY <1>1, ReconnectInvCorrect, PTL

\* management_readback_url: a write that moves the switch is read back where its new
\* configuration may put it, unless the caller has named the place.
THEOREM PollsCorrect == Spec => []PollsWhereTheSwitchComesUp
<1>1. ReconnectInv => PollsWhereTheSwitchComesUp
  BY DEF ReconnectInv
<1> QED BY <1>1, ReconnectInvCorrect, PTL

\* management_readback_url: without reconnecting, the switch stays where it was read.
THEOREM SameTransportCorrect == Spec => []SameTransportStays
<1>1. ReconnectInv => SameTransportStays
  BY DEF ReconnectInv
<1> QED BY <1>1, ReconnectInvCorrect, PTL

\* A report of uncertainty follows the POST and all the polls; refusals precede it.
THEOREM UncertaintyCorrect == Spec => []UncertaintyIsEarned
<1>1. ReconnectInv => UncertaintyIsEarned
  BY DEF ReconnectInv
<1> QED BY <1>1, ReconnectInvCorrect, PTL

\* The connection is replaced only by one that has reached the original switch in the
\* state the write meant.
THEOREM AdoptionOfTheSwitch == Spec => AdoptsOnlyTheSwitch
<1> DEFINE Adopts == conn' # conn => /\ Reach(conn') = ip /\ cfg = Goal
                                     /\ sent /\ result' = "changed"
<1>1. ASSUME ReconnectInv, [Next]_vars PROVE [Adopts]_vars
  <2> SUFFICES ASSUME conn' # conn PROVE Adopts
    OBVIOUS
  <2>1. PICK answer \in Answers(chosen) : PollSucceeds(answer)
    BY <1>1 DEF Next, Client, Begin, Plan, Read, ReadTwin, Post, Verify, PollAgain,
                RequestFails, Move, Edit, End, vars, opVars, counts
  <2>2. Reach(chosen) = ip /\ cfg = Goal
    BY <2>1 DEF Answers, PollSucceeds, Verified
  <2>3. sent
    BY <1>1, <2>1 DEF PollSucceeds, ReconnectInv, Phases
  <2> QED BY <2>1, <2>2, <2>3 DEF PollSucceeds, End, Reach
<1> QED BY <1>1, ReconnectInvCorrect, PTL DEF Spec, AdoptsOnlyTheSwitch
=============================================================================
