-------------------------- MODULE DeviceSessionProofs --------------------------
(***************************************************************************)
(* The properties of DeviceSession, for any plugins, switches, support       *)
(* records and settings.  The argument is SessionInv: a device is handed out *)
(* only once its identity has passed every objection, every request belongs  *)
(* to a call that the policy has authorised for that identity, and an        *)
(* identity check stays true until the switch is reflashed.                  *)
(***************************************************************************)
EXTENDS DeviceSession, TLAPS

\* A command's list of calls: one or more of them, a writing one only at the end.
LEMMA CommandsWriteLast ==
  ASSUME NEW f \in Front, NEW tasks \in BOOLEAN, NEW command \in Commands(f, tasks)
  PROVE /\ command \in Seq(Call)
        /\ f # "api" => command # <<>>
        /\ \A k \in 1 .. Len(command) - 1 : command[k] \notin {"rename", "write", "rotate"}
<1> DEFINE Plain == {"look", "tree", "read", "validate"}
           Last(s) == /\ s \in Seq(Call) /\ s # <<>>
                      /\ \A k \in 1 .. Len(s) - 1 : s[k] \notin {"rename", "write", "rotate"}
<1>1. Plain \subseteq Call /\ Reading \subseteq Plain /\ "validate" \in Plain
  BY DEF Call, Reading, Writing
<1>2. {"rename", "write", "rotate"} \subseteq Call
  BY DEF Call, Reading, Writing
<1>3. \A c \in Call : Last(<<c>>)
  OBVIOUS
<1>4. \A b \in Plain, c \in Call : Last(<<b, c>>)
  <2> TAKE b \in Plain, c \in Call
  <2>1. <<b, c>> \in Seq(Call) /\ Len(<<b, c>>) = 2 /\ <<b, c>>[1] = b
    BY <1>1
  <2> QED BY <2>1
<1>5. \A a \in Plain, b \in Plain, c \in Call : Last(<<a, b, c>>)
  <2> TAKE a \in Plain, b \in Plain, c \in Call
  <2>1. /\ <<a, b, c>> \in Seq(Call) /\ Len(<<a, b, c>>) = 3
        /\ <<a, b, c>>[1] = a /\ <<a, b, c>>[2] = b
    BY <1>1
  <2> QED BY <2>1
<1> HIDE DEF Last, Plain
<1>6. CASE f = "cli"
  <2>1. \/ \E c \in Reading \union {"rename", "write", "rotate"} : command = <<c>>
        \/ \E r \in Reading, w \in {"rename", "write"} : command = <<r, w>>
    BY <1>6 DEF Commands, CliCommands
  <2>2. Last(command)
    BY <2>1, <1>1, <1>2, <1>3, <1>4
  <2> QED BY <2>2, <1>6 DEF Last
<1>7. CASE f = "ansible" /\ ~tasks
  <2>1. (\E r \in Reading : command = <<r>>) \/ command = <<"look", "read", "tree">>
    BY <1>7 DEF Commands, FactsCommands
  <2>2. "look" \in Plain /\ "read" \in Plain /\ "tree" \in Call
    BY DEF Plain, Call, Reading
  <2>3. Last(command)
    BY <2>1, <2>2, <1>1, <1>3, <1>5
  <2> QED BY <2>3, <1>7 DEF Last
<1>8. CASE f = "ansible" /\ tasks
  <2>1. \/ \E r \in Reading : command = <<r, "validate">>
        \/ \E r \in Reading, w \in {"rename", "write"} : command = <<r, "validate", w>>
        \/ command = <<"look", "validate", "rotate">>
    BY <1>8 DEF Commands, TaskCommands
  <2>2. "look" \in Plain /\ "validate" \in Call /\ "rotate" \in Call
    BY DEF Plain, Call, Writing
  <2>3. Last(command)
    BY <2>1, <2>2, <1>1, <1>2, <1>4, <1>5
  <2> QED BY <2>3, <1>8 DEF Last
<1>9. CASE f = "api"
  BY <1>9 DEF Commands
<1> QED BY <1>6, <1>7, <1>8, <1>9 DEF Front

\* The rest of such a list is one again.
LEMMA RestWritesLast ==
  ASSUME NEW s \in Seq(Call), s # <<>>,
         \A k \in 1 .. Len(s) - 1 : s[k] \notin {"rename", "write", "rotate"}
  PROVE /\ Head(s) \in Call
        /\ Tail(s) \in Seq(Call)
        /\ Len(s) # 1 => Tail(s) # <<>> /\ Head(s) \notin {"rename", "write", "rotate"}
        /\ \A k \in 1 .. Len(Tail(s)) - 1 : Tail(s)[k] \notin {"rename", "write", "rotate"}
<1>1. Head(s) = s[1] /\ Len(s) \in Nat \ {0} /\ Head(s) \in Call /\ Tail(s) \in Seq(Call)
  OBVIOUS
<1>2. Len(Tail(s)) = Len(s) - 1 /\ \A k \in 1 .. Len(s) - 1 : Tail(s)[k] = s[k + 1]
  OBVIOUS
<1>3. Len(s) # 1 => Tail(s) # <<>> /\ Head(s) \notin {"rename", "write", "rotate"}
  BY <1>1, <1>2
<1>4. \A k \in 1 .. Len(Tail(s)) - 1 : Tail(s)[k] \notin {"rename", "write", "rotate"}
  BY <1>1, <1>2
<1> QED BY <1>1, <1>3, <1>4

\* A started process has made no call.
LEMMA InitSession == Init => SessionInv
<1> SUFFICES ASSUME Init PROVE SessionInv
  OBVIOUS
<1> USE DEF Init, Override, InCall
<1>1. /\ todo \in Seq(Call) /\ (front # "api" => todo # <<>>)
      /\ \A k \in 1 .. Len(todo) - 1 : todo[k] \notin {"rename", "write", "rotate"}
  BY CommandsWriteLast
<1>2. pc \in {"probe", "out"} /\ report \in {"none", "duplicate"}
  OBVIOUS
<1>3. TypeOK
  BY <1>1, <1>2, PluginAssumption DEF TypeOK, Phase, Report, Refusal
<1>4. Admitted /\ Placed /\ StillChecked
  BY <1>1, <1>2 DEF Admitted, Placed, StillChecked
<1>5. RefusalsPostNothing /\ OverridesAreTold
  BY <1>2 DEF RefusalsPostNothing, OverridesAreTold
<1> QED BY <1>3, <1>4, <1>5 DEF SessionInv

\* What a session's process is, and has probed, does not change in a call; then
\* neither does what policy and settings say of any identity.
LEMMA SameSession ==
  ASSUME UNCHANGED <<settings, session>>
  PROVE /\ UNCHANGED <<front, allow, pin, config, installed>>
        /\ UNCHANGED <<left, seen, identity, adapter, carried>>
        /\ \A p, i : Supported(p, i)' <=> Supported(p, i)
        /\ \A p, i, write : Permits(p, i, write)' <=> Permits(p, i, write)
        /\ \A p, i, write : Warnings(p, i, write)' = Warnings(p, i, write)
        /\ \A i : Fits(i)' <=> Fits(i)
        /\ \A call : Authorised(call)' <=> Authorised(call)
        /\ \A call : Told(call)' = Told(call)
BY DEF settings, session, Supported, Matches, Permits, Warnings, Fits, Authorised, Needs,
       Told

\* A call's result comes with an authorisation's warnings, the connection's or none.
LEMMA ToldWarnings ==
  ASSUME NEW call, carried \in SUBSET {"untested_firmware", "untested_firmware_write"}
  PROVE  Told(call) \in SUBSET {"untested_firmware", "untested_firmware_write"}
BY DEF Told, Warnings

-----------------------------------------------------------------------------
(* The three ways in which a step of a call goes on.                        *)

\* A call or command that ends without success: if it was refused, it has not
\* posted anything.
LEMMA FinishKeeps ==
  ASSUME SessionInv, pc \in InCall,
         NEW r \in Report \ {"ok"}, Finish(r),
         r \in Refusal \union {"invalid"} => ~posted',
         UNCHANGED <<switch, settings, session>>,
         told' \in SUBSET {"untested_firmware", "untested_firmware_write"},
         posted' \in BOOLEAN, calm' \in BOOLEAN
  PROVE SessionInv'
<1> USE SameSession DEF SessionInv, Finish
<1>1. /\ pc' \in {"idle", "out"} /\ todo' = <<>> /\ report' = r
      /\ pc' = "idle" => pc \in InCall
  OBVIOUS
<1>2. TypeOK'
  BY <1>1 DEF TypeOK, Phase, InCall
<1>3. Admitted'
  BY <1>1 DEF Admitted, InCall
<1>4. (carried = Warnings(adapter, identity, FALSE))'
  BY DEF Placed
<1>5. Placed' /\ StillChecked'
  BY <1>1, <1>4 DEF Placed, StillChecked, InCall
<1>6. RefusalsPostNothing' /\ OverridesAreTold'
  BY <1>1 DEF RefusalsPostNothing, OverridesAreTold
<1> QED BY <1>2, <1>3, <1>5, <1>6

\* A call that returns: its warnings are what the command has to tell if it was
\* the last one; if not, it was none that posts.
LEMMA ReturnKeeps ==
  ASSUME SessionInv, pc \in InCall, Return, Authorised(Head(todo)),
         told' = Told(Head(todo)),
         UNCHANGED <<switch, settings, session, posted>>, calm' \in BOOLEAN
  PROVE SessionInv'
<1> USE SameSession DEF SessionInv
<1>1. /\ todo \in Seq(Call) /\ todo # <<>>
      /\ \A k \in 1 .. Len(todo) - 1 : todo[k] \notin {"rename", "write", "rotate"}
      /\ identity \in Identity /\ adapter \in installed
  BY DEF TypeOK, Placed
<1>2. told' \in SUBSET {"untested_firmware", "untested_firmware_write"}
  BY ToldWarnings DEF TypeOK
<1>3. posted => Head(todo) \in {"rename", "write", "rotate"}
  BY DEF Placed, InCall
<1>4. CASE Len(todo) = 1
  <2>1. /\ pc' \in {"idle", "out"} /\ todo' = <<>> /\ report' = "ok"
    BY <1>4 DEF Return, Finish
  <2>2. TypeOK'
    BY <1>2, <2>1 DEF TypeOK, Phase, InCall, Report
  <2>3. Admitted'
    BY <2>1 DEF Admitted, InCall
  <2>4. Placed' /\ StillChecked' /\ RefusalsPostNothing'
    <3>1. (carried = Warnings(adapter, identity, FALSE))'
      BY DEF Placed
    <3> QED BY <2>1, <3>1 DEF Placed, StillChecked, RefusalsPostNothing, InCall, Refusal
  <2>5. Supported(adapter, identity) \/ allow # {}
    BY DEF Authorised, Permits
  <2>6. carried = Warnings(adapter, identity, FALSE) /\ Head(todo) \in Call
    BY <1>1, RestWritesLast DEF Placed
  <2>7. posted => told' = Warnings(adapter, identity, TRUE)
    <3>1. {"rename", "write", "rotate"} \subseteq Writing
      BY DEF Writing
    <3>2. Head(todo) \in Writing => Told(Head(todo)) = Warnings(adapter, identity, TRUE)
      BY DEF Told, Reading, Writing
    <3> QED BY <1>3, <3>1, <3>2
  <2>8. told' = {} => Supported(adapter, identity) \/ (front = "api" /\ ~posted)
    BY <2>6, <2>7 DEF Told, Warnings, Call
  <2>9. Supported(adapter, identity) => told' = {} /\ carried = {}
    BY <2>6 DEF Told, Warnings
  <2>10. OverridesAreTold'
    BY <2>1, <2>5, <2>6, <2>7, <2>8, <2>9 DEF OverridesAreTold, Warnings
  <2> QED BY <2>2, <2>3, <2>4, <2>10
<1>5. CASE Len(todo) # 1
  <2>1. pc' = "call" /\ todo' = Tail(todo) /\ report' = report
    BY <1>5 DEF Return
  <2>2. ~posted /\ report = "none"
    BY <1>1, <1>3, <1>5, RestWritesLast DEF Placed, InCall
  <2>3. TypeOK'
    BY <1>1, <1>2, <1>5, <2>1, RestWritesLast DEF TypeOK, Phase, InCall
  <2>4. Admitted'
    BY <2>1 DEF Admitted, InCall
  <2>5. Placed' /\ StillChecked'
    BY <1>1, <2>1, <2>2, RestWritesLast DEF Placed, StillChecked, InCall
  <2>6. RefusalsPostNothing' /\ OverridesAreTold'
    BY <2>1, <2>2 DEF RefusalsPostNothing, OverridesAreTold
  <2> QED BY <2>3, <2>4, <2>5, <2>6
<1> QED BY <1>4, <1>5

\* A call that goes on to its next request.
LEMMA GotoKeeps ==
  ASSUME SessionInv, pc \in InCall,
         NEW phase \in InCall \ {"call"}, Goto(phase), Authorised(Head(todo)),
         phase = "check" => Head(todo) \in {"look", "tree", "rename", "write"},
         phase = "get" => Head(todo) \in {"tree", "read", "write"},
         phase \in {"post", "readback"} => Head(todo) \in {"rename", "write", "rotate"},
         told' = Told(Head(todo)),
         posted' \in BOOLEAN, posted' => phase = "readback",
         calm' \in BOOLEAN,
         calm' /\ phase \in {"get", "post"} /\ Head(todo) \in {"rename", "write"}
           => Running = identity,
         UNCHANGED <<switch, settings, session>>
  PROVE SessionInv'
<1> USE SameSession DEF SessionInv
<1>1. pc' = phase /\ todo' = todo /\ report' = report /\ report = "none"
  BY DEF Goto, Placed
<1>2. TypeOK'
  BY <1>1, ToldWarnings DEF TypeOK, Phase, InCall
<1>3. Admitted'
  BY <1>1 DEF Admitted, InCall
<1>4. Placed'
  BY <1>1 DEF Placed, InCall
<1>5. StillChecked'
  BY <1>1 DEF StillChecked, Running
<1>6. RefusalsPostNothing' /\ OverridesAreTold'
  BY <1>1 DEF RefusalsPostNothing, OverridesAreTold, Refusal
<1> QED BY <1>2, <1>3, <1>4, <1>5, <1>6

-----------------------------------------------------------------------------
(* Every action keeps the invariant.                                        *)

\* Probing a plugin decides nothing about a session yet.
LEMMA ProbeKeeps ==
  ASSUME SessionInv, NEW p \in Plugin, Probe(p)
  PROVE SessionInv'
<1> USE DEF SessionInv, Probe, settings
<1>1. Shows[p][switch] \in Identity \union {Nothing, Garbled}
  BY PluginAssumption DEF TypeOK
<1>2. pc = "probe" /\ pc' \in {"probe", "out"} /\ report' \in {"none", "failed"} /\ ~posted
      /\ (pc' = "probe" => report' = "none")
  BY DEF Leave, Placed
<1>3. TypeOK'
  BY <1>1, <1>2 DEF TypeOK, Phase, InCall, Report, Refusal
<1>4. Admitted' /\ Placed' /\ StillChecked'
  BY <1>2 DEF Admitted, Placed, StillChecked, InCall
<1>5. RefusalsPostNothing' /\ OverridesAreTold'
  BY <1>2 DEF RefusalsPostNothing, OverridesAreTold, Refusal
<1> QED BY <1>3, <1>4, <1>5

\* A switch that no plugin claims opens no session.
LEMMA UndetectedKeeps ==
  ASSUME SessionInv, Undetected
  PROVE SessionInv'
<1> USE DEF SessionInv, Undetected, Leave, settings, session
<1>1. TypeOK'
  BY DEF TypeOK, Phase, InCall, Report, Refusal
<1>2. Admitted' /\ Placed' /\ StillChecked'
  BY DEF Admitted, Placed, StillChecked, InCall
<1>3. RefusalsPostNothing' /\ OverridesAreTold'
  BY DEF Placed, InCall, RefusalsPostNothing, OverridesAreTold
<1> QED BY <1>1, <1>2, <1>3

\* An identity without objections has a plugin, fits the settings, and may be
\* written if the process is to write.
LEMMA NoObjection ==
  ASSUME NEW i, Objection(i) = "none"
  PROVE /\ HandlerOf(i) \in installed
        /\ front = "cli" => Fits(i)
        /\ config => Permits(HandlerOf(i), i, TRUE) /\ "write" \in Offers[HandlerOf(i)][i]
<1>1. ~(front = "cli" /\ ~Fits(i))
  BY DEF Objection
<1>2. ~\A p \in installed : ~Handles(p, i)
  BY <1>1 DEF Objection
<1>3. HandlerOf(i) \in installed
  BY <1>2 DEF HandlerOf
<1>4. ~(~Permits(HandlerOf(i), i, config) \/ ~Permits(HandlerOf(i), i, FALSE))
  BY <1>1, <1>2 DEF Objection
<1>5. ~(config /\ "write" \notin Offers[HandlerOf(i)][i])
  BY <1>1, <1>2, <1>4 DEF Objection
<1> HIDE DEF HandlerOf
<1>6. config => Permits(HandlerOf(i), i, TRUE)
  BY <1>4 DEF Permits
<1> QED BY <1>1, <1>3, <1>5, <1>6

\* A connection is to the switch that its plugin identified.
LEMMA ConnectKeeps ==
  ASSUME SessionInv, Connect
  PROVE SessionInv'
<1> USE DEF SessionInv, Connect, settings
<1>1. PICK p \in installed :
        /\ Detected = {p}
        /\ IF Objection(seen[p]) # "none"
           THEN Leave(Objection(seen[p])) /\ UNCHANGED <<identity, adapter, carried>>
           ELSE /\ identity' = seen[p] /\ adapter' = HandlerOf(seen[p])
                /\ carried' = Warnings(HandlerOf(seen[p]), seen[p], FALSE)
                /\ pc' = IF front = "api" THEN "idle" ELSE "call"
                /\ UNCHANGED report
  OBVIOUS
<1>2. seen[p] \in Identity
  BY <1>1 DEF Detected
<1>3. pc = "probe" /\ report = "none" /\ ~posted
  BY DEF Placed, InCall
<1>4. CASE Objection(seen[p]) # "none"
  <2>1. Objection(seen[p]) \in Refusal
    BY <1>4 DEF Objection, Refusal
  <2>2. pc' = "out" /\ report' \in Refusal
    BY <1>1, <1>4, <2>1 DEF Leave
  <2>3. TypeOK'
    BY <1>3, <2>2 DEF TypeOK, Phase, InCall, Report
  <2>4. Admitted' /\ Placed' /\ StillChecked'
    BY <1>3, <2>2 DEF Admitted, Placed, StillChecked, InCall
  <2>5. RefusalsPostNothing' /\ OverridesAreTold'
    BY <1>3, <2>2 DEF RefusalsPostNothing, OverridesAreTold, Refusal
  <2> QED BY <2>3, <2>4, <2>5
<1>5. CASE Objection(seen[p]) = "none"
  <2>1. /\ identity' = seen[p] /\ adapter' = HandlerOf(seen[p])
        /\ carried' = Warnings(HandlerOf(seen[p]), seen[p], FALSE)
        /\ pc' = (IF front = "api" THEN "idle" ELSE "call") /\ report' = report
    BY <1>1, <1>5
  <2>2. TypeOK'
    BY <1>2, <1>3, <1>5, <2>1, NoObjection DEF TypeOK, Phase, InCall, Warnings
  <2>3. Admitted'
    BY <1>5, <2>1, NoObjection DEF Admitted, Fits, Permits, Supported, Matches
  <2>4. Placed' /\ StillChecked'
    BY <1>3, <2>1 DEF Placed, StillChecked, InCall, Warnings, Supported, Matches
  <2>5. RefusalsPostNothing' /\ OverridesAreTold'
    BY <1>3, <2>1 DEF RefusalsPostNothing, OverridesAreTold, Refusal
  <2> QED BY <2>2, <2>3, <2>4, <2>5
<1> QED BY <1>4, <1>5

\* Releasing a session, or calling it, keeps what is known of it.
LEMMA IdleKeeps ==
  ASSUME SessionInv, NEW call \in Call, Release \/ CallApi(call)
  PROVE SessionInv'
<1> USE SameSession DEF SessionInv
<1>1. CASE Release
  <2> USE <1>1 DEF Release, Leave
  <2>1. TypeOK'
    BY DEF TypeOK, Phase, InCall, Report
  <2>2. Admitted' /\ Placed' /\ StillChecked'
    BY DEF Admitted, Placed, StillChecked, InCall
  <2>3. RefusalsPostNothing' /\ OverridesAreTold'
    BY DEF RefusalsPostNothing, OverridesAreTold, Refusal
  <2> QED BY <2>1, <2>2, <2>3
<1>2. CASE CallApi(call)
  <2> USE <1>2 DEF CallApi
  <2>1. todo' \in Seq(Call) /\ todo' # <<>> /\ Len(todo') = 1
    OBVIOUS
  <2>2. TypeOK'
    BY <2>1 DEF TypeOK, Phase, InCall, Report
  <2>3. Admitted'
    BY DEF Admitted, InCall
  <2>4. Placed' /\ StillChecked'
    BY <2>1 DEF Placed, StillChecked, InCall
  <2>5. RefusalsPostNothing' /\ OverridesAreTold'
    BY DEF RefusalsPostNothing, OverridesAreTold, Refusal
  <2> QED BY <2>2, <2>3, <2>4, <2>5
<1> QED BY <1>1, <1>2

\* Authorisation and the local checks.
LEMMA EnterKeeps ==
  ASSUME SessionInv, Refuse \/ Enter
  PROVE SessionInv'
<1>1. pc = "call" /\ "call" \in InCall /\ ~posted /\ Head(todo) \in Call
  BY RestWritesLast DEF SessionInv, Placed, TypeOK, InCall, Refuse, Enter
<1>2. posted \in BOOLEAN /\ calm \in BOOLEAN
      /\ told \in SUBSET {"untested_firmware", "untested_firmware_write"}
  BY DEF SessionInv, TypeOK
<1>3. CASE Refuse
  <2>1. \E r \in {"unsupported_feature", "unsupported_firmware"} : Finish(r)
    BY <1>3 DEF Refuse
  <2>2. {"unsupported_feature", "unsupported_firmware"} \subseteq Report \ {"ok"}
    BY DEF Report, Refusal
  <2> QED BY <1>1, <1>2, <1>3, <2>1, <2>2, FinishKeeps DEF Refuse
<1>4. CASE Enter
  <2>1. /\ Authorised(Head(todo)) /\ calm' = TRUE
        /\ told' = Told(Head(todo))
        /\ UNCHANGED <<switch, settings, session, posted>>
    BY <1>4 DEF Enter
  <2>2. told' \in SUBSET {"untested_firmware", "untested_firmware_write"}
    BY <2>1, ToldWarnings DEF SessionInv, TypeOK
  <2>3. CASE Finish("invalid")
    <3>1. "invalid" \in Report \ {"ok"}
      BY DEF Report
    <3> QED BY <1>1, <1>2, <2>1, <2>2, <2>3, <3>1, FinishKeeps
  <2>4. CASE Return
    BY <1>1, <2>1, <2>4, ReturnKeeps
  <2>5. CASE Head(todo) = "rotate" /\ Goto("post")
    BY <1>1, <1>2, <2>1, <2>5, GotoKeeps DEF InCall
  <2>6. CASE Head(todo) = "read" /\ Goto("get")
    BY <1>1, <1>2, <2>1, <2>6, GotoKeeps DEF InCall
  <2>7. CASE Head(todo) \in {"look", "tree", "rename", "write"} /\ Goto("check")
    BY <1>1, <1>2, <2>1, <2>7, GotoKeeps DEF InCall
  <2> QED BY <1>4, <2>3, <2>4, <2>5, <2>6, <2>7 DEF Enter
<1> QED BY <1>3, <1>4

\* The requests of an authorised call.
LEMMA RequestKeeps ==
  ASSUME SessionInv, Check \/ Get \/ Settle \/ Post \/ ReadBack \/ RequestFails
  PROVE SessionInv'
<1>1. pc \in InCall \ {"call"} /\ pc \in InCall
  BY DEF Check, Get, Settle, Post, ReadBack, RequestFails, InCall
<1>2. Authorised(Head(todo)) /\ told = Told(Head(todo)) /\ (posted => pc = "readback")
  BY <1>1 DEF SessionInv, Placed
<1>3. posted \in BOOLEAN /\ calm \in BOOLEAN
      /\ told \in SUBSET {"untested_firmware", "untested_firmware_write"}
  BY DEF SessionInv, TypeOK
<1>4. {"invalid", "failed", "protocol"} \subseteq Report \ {"ok"}
      /\ {"failed", "protocol"} \intersect (Refusal \union {"invalid"}) = {}
  BY DEF Report, Refusal
<1>5. CASE Check
  <2>1. UNCHANGED <<switch, settings, session, told, posted>>
    BY <1>5 DEF Check
  <2>2. CASE Finish("protocol") /\ UNCHANGED calm
    BY <1>1, <1>3, <1>4, <2>1, <2>2, FinishKeeps
  <2>3. CASE Running = identity /\ AfterCheck /\ calm' = TRUE
    <3>1. CASE Return
      BY <1>1, <1>2, <2>1, <2>3, <3>1, ReturnKeeps
    <3>2. CASE Head(todo) \in {"tree", "write"} /\ Goto("get")
      BY <1>1, <1>2, <1>3, <1>5, <2>1, <2>3, <3>2, GotoKeeps DEF InCall, Check
    <3>3. CASE Head(todo) = "rename" /\ Goto("post")
      BY <1>1, <1>2, <1>3, <1>5, <2>1, <2>3, <3>3, GotoKeeps DEF InCall, Check
    <3> QED BY <2>3, <3>1, <3>2, <3>3 DEF AfterCheck
  <2> QED BY <1>5, <2>2, <2>3 DEF Check
<1>6. CASE Get
  <2>1. UNCHANGED <<switch, settings, session, told, posted, calm>> /\ pc = "get"
    BY <1>6 DEF Get
  <2>2. CASE Return
    BY <1>1, <1>2, <1>3, <2>1, <2>2, ReturnKeeps
  <2>3. CASE Head(todo) = "write" /\ Goto("post")
    <3>1. calm => Running = identity
      BY <2>1, <2>3 DEF SessionInv, StillChecked
    <3> QED BY <1>1, <1>2, <1>3, <2>1, <2>3, <3>1, GotoKeeps DEF InCall
  <2>4. CASE Finish("protocol")
    BY <1>1, <1>3, <1>4, <2>1, <2>4, FinishKeeps
  <2> QED BY <1>6, <2>2, <2>3, <2>4 DEF Get
<1>7. CASE Settle
  <2>1. UNCHANGED <<switch, settings, session, told, posted, calm>> /\ pc = "post"
    BY <1>7 DEF Settle
  <2>2. CASE Return
    BY <1>1, <1>2, <1>3, <2>1, <2>2, ReturnKeeps
  <2>3. CASE Finish("invalid")
    BY <1>1, <1>2, <1>3, <1>4, <2>1, <2>3, FinishKeeps
  <2> QED BY <1>7, <2>2, <2>3 DEF Settle
<1>8. CASE Post
  <2>1. /\ UNCHANGED <<switch, settings, session, told, calm>> /\ posted' = TRUE
        /\ Head(todo) \in {"rename", "write", "rotate"}
    BY <1>8 DEF Post, SessionInv, Placed
  <2>2. CASE Goto("readback")
    BY <1>1, <1>2, <1>3, <2>1, <2>2, GotoKeeps DEF InCall
  <2>3. CASE Finish("failed")
    BY <1>1, <1>3, <1>4, <2>1, <2>3, FinishKeeps
  <2> QED BY <1>8, <2>2, <2>3 DEF Post
<1>9. CASE ReadBack
  <2>1. UNCHANGED <<switch, settings, session, told, posted, calm>>
    BY <1>9 DEF ReadBack
  <2>2. CASE Return
    BY <1>1, <1>2, <1>3, <2>1, <2>2, ReturnKeeps
  <2>3. CASE Finish("protocol")
    BY <1>1, <1>3, <1>4, <2>1, <2>3, FinishKeeps
  <2> QED BY <1>9, <2>2, <2>3 DEF ReadBack
<1>10. CASE RequestFails
  BY <1>1, <1>3, <1>4, <1>10, FinishKeeps DEF RequestFails
<1> QED BY <1>5, <1>6, <1>7, <1>8, <1>9, <1>10

\* A reflash changes the switch, not the session.
LEMMA ReflashKeeps ==
  ASSUME SessionInv, NEW s \in Switch, Reflash(s)
  PROVE SessionInv'
<1> USE DEF SessionInv, Reflash, settings, session
<1>1. TypeOK'
  BY DEF TypeOK
<1>2. Admitted' /\ Placed' /\ StillChecked'
  BY DEF Admitted, Placed, StillChecked, Fits, Permits, Supported, Authorised, Warnings,
         Told
<1>3. RefusalsPostNothing' /\ OverridesAreTold'
  BY DEF RefusalsPostNothing, OverridesAreTold, Supported
<1> QED BY <1>1, <1>2, <1>3

\* Every step keeps the invariant.
LEMMA NextSession == SessionInv /\ [Next]_vars => SessionInv'
<1> SUFFICES ASSUME SessionInv, [Next]_vars PROVE SessionInv'
  OBVIOUS
<1>1. CASE UNCHANGED vars
  BY <1>1 DEF vars, settings, session, SessionInv, TypeOK, Admitted, Placed, StillChecked,
              RefusalsPostNothing, OverridesAreTold, Fits, Permits, Supported, Matches,
              Authorised, Warnings, Told, Running
<1>2. CASE Next
  BY <1>2, ProbeKeeps, UndetectedKeeps, ConnectKeeps, IdleKeeps, EnterKeeps, RequestKeeps,
     ReflashKeeps DEF Next, Call, Reading
<1> QED BY <1>1, <1>2

-----------------------------------------------------------------------------
\* The invariant holds in every reachable state.
THEOREM SessionCorrect == Spec => []SessionInv
BY InitSession, NextSession, PTL DEF Spec

\* Types: of every process, whatever is installed and whatever it probes.
THEOREM SessionTypeCorrect == Spec => []TypeOK
<1>1. SessionInv => TypeOK
  BY DEF SessionInv
<1> QED BY <1>1, SessionCorrect, PTL

\* Ansible's configuration modules ask for the permission to write before they
\* ask the switch anything but who it is.
THEOREM TasksAreCleared == Spec => []ConfigTasksAreCleared
<1>1. SessionInv => ConfigTasksAreCleared
  BY DEF SessionInv, Admitted, ConfigTasksAreCleared
<1> QED BY <1>1, SessionCorrect, PTL

\* A refused command has posted nothing.
THEOREM RefusalsCorrect == Spec => []RefusalsPostNothing
<1>1. SessionInv => RefusalsPostNothing
  BY DEF SessionInv
<1> QED BY <1>1, SessionCorrect, PTL

\* Successes on untested firmware were allowed, and say so.
THEOREM OverridesCorrect == Spec => []OverridesAreTold
<1>1. SessionInv => OverridesAreTold
  BY DEF SessionInv
<1> QED BY <1>1, SessionCorrect, PTL

\* A guarded write's POST meets a firmware that may be written, unless the
\* switch is reflashed between that call's identity check and the POST.
THEOREM GuardedWritesCorrect == Spec => GuardedWritesMeetPermittedFirmware
<1>1. SessionInv /\ [Next]_vars =>
        [PostLeaves /\ Head(todo) # "rotate" /\ calm => MayBeWritten]_vars
  <2> SUFFICES ASSUME SessionInv, Next, PostLeaves, Head(todo) # "rotate", calm
               PROVE MayBeWritten
    BY DEF vars
  <2>1. pc = "post"
    BY DEF Next, PostLeaves, Probe, Undetected, Connect, Release, CallApi, Refuse, Enter,
           Check, Get, Settle, Post, ReadBack, RequestFails, Reflash
  <2>2. Head(todo) \in {"rename", "write"} /\ Authorised(Head(todo)) /\ Running = identity
    BY <2>1 DEF SessionInv, Placed, StillChecked, InCall
  <2>3. identity \in Identity /\ (front = "cli" => Fits(identity))
    BY <2>1 DEF SessionInv, TypeOK, Admitted, InCall
  <2> QED BY <2>2, <2>3 DEF MayBeWritten, Authorised, Needs, Writing
<1> QED BY <1>1, SessionCorrect, PTL DEF Spec, GuardedWritesMeetPermittedFirmware
=============================================================================
