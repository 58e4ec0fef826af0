---------------------------- MODULE DeviceSession ----------------------------
(***************************************************************************)
(* One process that uses a switch: a CLI command, an Ansible task, or an API *)
(* user who keeps a device.  It probes the switch with every installed       *)
(* plugin, selects one by what they saw, and from then on asks the firmware  *)
(* policy about the identity it has seen, while the switch may be reflashed  *)
(* at any time.  Whether a write meets the same baseline is GuardedWrite's   *)
(* subject; here it matters which firmware a request meets at all.           *)
(***************************************************************************)
EXTENDS Naturals, Sequences

CONSTANTS
  Plugin,      \* plugin distributions that may be installed
  Name,        \* families, product codes, model names and versions
  Fold,        \* their normal form: what casefold makes of them
  Build,       \* build identifiers
  Identity,    \* the identities that plugins report
  Record,      \* support records: an identity's fields, without its label
  Pin,         \* the models and firmware that settings may name
  AnyBuild,    \* a record that leaves the build open
  Automatic,   \* a setting that leaves the model or the firmware open
  Switch,      \* what the switch may be running
  Family,      \* Family[p]: the family that p registers
  Supports,    \* Supports[p]: the combinations that p was tested with
  Offers,      \* Offers[p][i]: whether p can read, or write, identity i
  Shows,       \* Shows[p][s]: the identity that p sees in s, or one of:
  Nothing,     \* the plugin does not recognise the switch
  Garbled      \* it cannot decode the switch's answer

ASSUME NameAssumption ==
  /\ Fold \in [Name -> Name] /\ Automatic \in Name
  /\ Pin \subseteq [model : Name, version : Name]
  /\ Identity \subseteq
       [family : Name, product : Name, version : Name, build : Build, label : Name]
  /\ Record \subseteq
       [family : Name, product : Name, version : Name, build : Build \union {AnyBuild}]
ASSUME PluginAssumption ==
  /\ Family \in [Plugin -> Name]
  /\ Supports \in [Plugin -> SUBSET Record]
  /\ Offers \in [Plugin -> [Identity -> SUBSET {"read", "write"}]]
  /\ Nothing \notin Identity /\ Garbled \notin Identity
  /\ Shows \in [Plugin -> [Switch -> Identity \union {Nothing, Garbled}]]

VARIABLES
  switch,      \* what the switch is running
  front,       \* what the process is
  allow,       \* its overrides of the firmware policy
  pin,         \* the model and the firmware that its settings name
  config,      \* whether it is an Ansible configuration module
  installed,   \* the plugins it has found
  todo,        \* the facade calls that are left; the first is being made
  pc,          \* where it is: out, probing, idle, or in a call
  left,        \* the plugins that have not probed yet
  seen,        \* what the others have seen
  identity,    \* the identity it has selected
  adapter,     \* the plugin it has selected
  carried,     \* the override warnings the device carries since it was connected
  told,        \* those that came with the result of the last call
  posted,      \* history: this command, or API user's call, has sent a POST
  calm,        \* history: no reflash since the call, or its identity check
  report       \* how the last command or call ended

settings == <<front, allow, pin, config, installed>>
session == <<left, seen, identity, adapter, carried>>
vars == <<switch, settings, todo, pc, session, told, posted, calm, report>>

Front == {"cli", "ansible", "api"}
Override == {"reads", "writes"}
Phase == {"out", "probe", "idle", "call", "check", "get", "post", "readback"}
Refusal == {"duplicate", "undetected", "configuration", "missing_plugin",
            "unsupported_firmware", "unsupported_feature"}
Report == Refusal \union {"none", "ok", "protocol", "invalid", "failed"}

\* look reads the system and tree the RSTP state, after an identity check;
\* read stands for every other getter, which makes none.  rename writes
\* system settings, write any other group, rotate the password; validate
\* only asks whether a write would be accepted.
Reading == {"look", "tree", "read"}
Writing == {"validate", "rename", "write", "rotate"}
Call == Reading \union Writing

\* A CLI command shows something, or writes, most often from a read of its own.
CliCommands ==
  {<<c>> : c \in Reading \union {"rename", "write", "rotate"}}
    \union {<<r, w>> : r \in Reading, w \in {"rename", "write"}}

\* The facts module reads the subsets that it is asked for, one or many.
FactsCommands == {<<r>> : r \in Reading} \union {<<"look", "read", "tree">>}

\* A configuration module reads, validates what it desires, and in check mode,
\* or if that is what it has read, leaves it at this.
TaskCommands ==
  {<<r, "validate">> : r \in Reading}
    \union {<<r, "validate", w>> : r \in Reading, w \in {"rename", "write"}}
    \union {<<"look", "validate", "rotate">>}

\* An API user's device starts without a call to make.
Commands(f, tasks) ==
  CASE f = "cli" -> CliCommands
    [] f = "ansible" /\ ~tasks -> FactsCommands
    [] f = "ansible" /\ tasks -> TaskCommands
    [] OTHER -> {<<>>}

Open == [model |-> Automatic, version |-> Automatic]

-----------------------------------------------------------------------------
(* The registry and the policy.                                             *)

Handles(p, i) == Fold[Family[p]] = Fold[i.family]

Matches(r, i) ==
  /\ Fold[r.family] = Fold[i.family] /\ Fold[r.product] = Fold[i.product]
  /\ r.version = i.version
  /\ r.build \in {AnyBuild, i.build}

Supported(p, i) == \E r \in Supports[p] : Matches(r, i)

\* The override for writes permits the reads of the same process.
Permits(p, i, write) ==
  Supported(p, i) \/ IF write THEN "writes" \in allow ELSE allow # {}

ReadWarnings(p, i, write) ==   \* mutant: always the connection's
  IF Supported(p, i) THEN {} ELSE {"untested_firmware"}

Warnings(p, i, write) ==
  IF Supported(p, i) THEN {}
  ELSE {IF write THEN "untested_firmware_write" ELSE "untested_firmware"}

\* The settings' model is compared in normal form with the product code and
\* the marketing name, the firmware as it is written.
Fits(i) ==
  /\ Fold[pin.model] \in {Fold[Automatic], Fold[i.product], Fold[i.label]}
  /\ pin.version \in {Automatic, i.version}

Needs(call) ==
  IF call \in Writing THEN {"write"} ELSE IF call = "look" THEN {} ELSE {"read"}

Authorised(call) ==
  /\ Permits(adapter, identity, call \in Writing)
  /\ Needs(call) \subseteq Offers[adapter][identity]

-----------------------------------------------------------------------------
(* Connecting.                                                              *)

Leave(r) == pc' = "out" /\ report' = r

Unambiguous(ps) == \A p, q \in ps : Fold[Family[p]] = Fold[Family[q]] => p = q

\* A process starts with its options and discovers its plugins: two of one
\* family end it there.
Init ==
  /\ switch \in Switch
  /\ front \in Front /\ allow \in SUBSET Override
  /\ config \in BOOLEAN /\ (config => front = "ansible")
  /\ pin \in Pin \union {Open} /\ (front # "cli" => pin = Open)
  /\ installed \in SUBSET Plugin /\ left = installed
  /\ seen = [p \in Plugin |-> Nothing] /\ identity = Nothing /\ adapter = Nothing
  /\ todo \in Commands(front, config)
  /\ carried = {} /\ told = {} /\ posted = FALSE /\ calm = FALSE
  /\ IF Unambiguous(installed)
     THEN pc = "probe" /\ report = "none"
     ELSE pc = "out" /\ report = "duplicate"

\* One GET by one plugin.  An answer that it cannot decode counts as one that
\* it does not know; a request that fails ends the command.
Probe(p) ==
  /\ pc = "probe" /\ p \in left
  /\ \/ /\ left' = left \ {p}
        /\ seen' = [seen EXCEPT ![p] = Shows[p][switch]]
        /\ UNCHANGED <<pc, report>>
     \/ Leave("failed") /\ UNCHANGED <<left, seen>>
  /\ UNCHANGED <<switch, settings, todo, identity, adapter, carried, told, posted, calm>>

Detected == {p \in installed : seen[p] \in Identity}

HandlerOf(i) == CHOOSE p \in installed : Handles(p, i)

\* Mutant: an Ansible task is resolved for reading, like any other process.
ObjectionLate(i) ==
  CASE front = "cli" /\ ~Fits(i) -> "configuration"
    [] \A p \in installed : ~Handles(p, i) -> "missing_plugin"
    [] ~Permits(HandlerOf(i), i, FALSE) -> "unsupported_firmware"
    [] config /\ "write" \notin Offers[HandlerOf(i)][i] -> "unsupported_feature"
    [] OTHER -> "none"

\* Why the probed identity is not served, in the order of the code: the CLI's
\* settings, the plugin, the policy (for writing, if an Ansible module will
\* write, even in check mode) and that module's capability.
Objection(i) ==
  CASE front = "cli" /\ ~Fits(i) -> "configuration"
    [] \A p \in installed : ~Handles(p, i) -> "missing_plugin"
    [] ~Permits(HandlerOf(i), i, config) \/ ~Permits(HandlerOf(i), i, FALSE)
         -> "unsupported_firmware"
    [] config /\ "write" \notin Offers[HandlerOf(i)][i] -> "unsupported_feature"
    [] OTHER -> "none"

Undetected ==
  /\ pc = "probe" /\ left = {}
  /\ ~\E p \in installed : Detected = {p}
  /\ Leave("undetected")
  /\ UNCHANGED <<switch, settings, todo, session, told, posted, calm>>

\* Exactly one plugin has recognised the switch: the policy-bound facade is
\* built around the adapter of the identity's family.
Connect ==
  /\ pc = "probe" /\ left = {}
  /\ \E p \in installed :
       LET i == seen[p] IN
       /\ Detected = {p}
       /\ IF Objection(i) # "none"
          THEN Leave(Objection(i)) /\ UNCHANGED <<identity, adapter, carried>>
          ELSE /\ identity' = i /\ adapter' = HandlerOf(i)
               /\ carried' = Warnings(HandlerOf(i), i, FALSE)
               /\ pc' = IF front = "api" THEN "idle" ELSE "call"
               /\ UNCHANGED report
  /\ UNCHANGED <<switch, settings, todo, left, seen, told, posted, calm>>

-----------------------------------------------------------------------------
(* Facade calls.                                                            *)

\* A command or a call ends; an API user keeps the device.
Finish(r) ==
  /\ pc' = IF front = "api" THEN "idle" ELSE "out"
  /\ report' = r
  /\ todo' = <<>>

\* Mutant: the command goes on when there is nothing left.
ReturnLate == pc' = "call" /\ todo' = Tail(todo) /\ UNCHANGED report

\* The call returns, and the command goes on with its next one.
Return ==
  IF Len(todo) = 1 THEN Finish("ok")
  ELSE pc' = "call" /\ todo' = Tail(todo) /\ UNCHANGED report

Goto(phase) == pc' = phase /\ UNCHANGED <<todo, report>>

CallApi(call) ==
  /\ pc = "idle"
  /\ pc' = "call" /\ todo' = <<call>>
  /\ posted' = FALSE /\ report' = "none" /\ told' = {}
  /\ UNCHANGED <<switch, settings, session, calm>>

Release ==
  /\ pc = "idle" /\ Leave("none")
  /\ UNCHANGED <<switch, settings, todo, session, told, posted, calm>>

\* Every facade method authorises first, and raises before any request.
Refuse ==
  /\ pc = "call" /\ ~Authorised(Head(todo))
  /\ Finish(IF Permits(adapter, identity, Head(todo) \in Writing)
            THEN "unsupported_feature" ELSE "unsupported_firmware")
  /\ UNCHANGED <<switch, settings, session, told, posted, calm>>

\* A write's or a validation's result has the warnings of its own authorisation.  A
\* getter's has none: the CLI and the facts module show the connection's with it,
\* an API user has to ask the device for them.
Told(call) ==
  CASE call \in Writing -> Warnings(adapter, identity, TRUE)
    [] call \in Reading /\ front = "api" -> {}
    [] OTHER -> carried

\* The local checks of a write may refuse it, and are all there is to validate.
\* The password is posted without a request before; getters but two just read.
Enter ==
  /\ pc = "call" /\ Authorised(Head(todo))
  /\ told' = Told(Head(todo))
  /\ calm' = TRUE
  /\ \/ Head(todo) \in Writing /\ Finish("invalid")
     \/ Head(todo) = "validate" /\ Return
     \/ Head(todo) = "rotate" /\ Goto("post")
     \/ Head(todo) = "read" /\ Goto("get")
     \/ Head(todo) \in {"look", "tree", "rename", "write"} /\ Goto("check")
  /\ UNCHANGED <<switch, settings, session, posted>>

\* What the adapter would read of the switch now.
Running == Shows[adapter][switch]

AfterCheck ==
  \/ Head(todo) = "look" /\ Return
  \/ Head(todo) \in {"tree", "write"} /\ Goto("get")
  \/ Head(todo) = "rename" /\ Goto("post")

CheckNothing ==   \* mutant: whatever answers is taken for the probed switch
  /\ pc = "check"
  /\ AfterCheck /\ calm' = TRUE
  /\ UNCHANGED <<switch, settings, session, told, posted>>

\* GET /sys.b: the switch must still report the identity that was probed.
Check ==
  /\ pc = "check"
  /\ \/ Running # identity /\ Finish("protocol") /\ UNCHANGED calm
     \/ Running = identity /\ AfterCheck /\ calm' = TRUE
  /\ UNCHANGED <<switch, settings, session, told, posted>>

\* A GET of any other endpoint.  What another firmware answers to it may, or
\* may not, be decodable.
Get ==
  /\ pc = "get"
  /\ \/ Head(todo) \in {"tree", "read"} /\ Return
     \/ Head(todo) = "write" /\ Goto("post")
     \/ Running # identity /\ Finish("protocol")
  /\ UNCHANGED <<switch, settings, session, told, posted, calm>>

\* The fresh state is as desired already, or the baseline or a guard refuses.
Settle ==
  /\ pc = "post" /\ Head(todo) # "rotate"
  /\ Return \/ Finish("invalid")
  /\ UNCHANGED <<switch, settings, session, told, posted, calm>>

Post ==
  /\ pc = "post"
  /\ posted' = TRUE
  /\ Goto("readback") \/ Finish("failed")
  /\ UNCHANGED <<switch, settings, session, told, calm>>

ReadBackRefusing ==   \* mutant: a failed verification counts as a refusal
  /\ pc = "readback"
  /\ \/ (Head(todo) = "write" \/ Running = identity) /\ Return
     \/ Finish("invalid")
  /\ UNCHANGED <<switch, settings, session, told, posted, calm>>

\* Two readbacks are of /sys.b and compare the identity again.
ReadBack ==
  /\ pc = "readback"
  /\ \/ (Head(todo) = "write" \/ Running = identity) /\ Return
     \/ Finish("protocol")
  /\ UNCHANGED <<switch, settings, session, told, posted, calm>>

RequestFails ==
  /\ pc \in {"check", "get", "post", "readback"}
  /\ Finish("failed")
  /\ UNCHANGED <<switch, settings, session, told, posted, calm>>

\* Somebody installs another firmware, or another switch takes the address.
Reflash(s) ==
  /\ switch' = s /\ s # switch
  /\ calm' = FALSE
  /\ UNCHANGED <<settings, todo, pc, session, told, posted, report>>

Next ==
  \/ \E p \in Plugin : Probe(p)
  \/ Undetected \/ Connect \/ Release
  \/ \E call \in Call : CallApi(call)
  \/ Refuse \/ Enter \/ Check \/ Get \/ Settle \/ Post \/ ReadBack \/ RequestFails
  \/ \E s \in Switch : Reflash(s)

Spec == Init /\ [][Next]_vars
-----------------------------------------------------------------------------
(* Properties.                                                              *)

InCall == {"call", "check", "get", "post", "readback"}

\* Every variable has its type; a process in a call has one to make.
TypeOK ==
  /\ switch \in Switch
  /\ front \in Front /\ allow \in SUBSET Override /\ pin \in Pin \union {Open}
  /\ config \in BOOLEAN /\ installed \in SUBSET Plugin
  /\ todo \in Seq(Call) /\ pc \in Phase
  /\ left \in SUBSET installed
  /\ seen \in [Plugin -> Identity \union {Nothing, Garbled}]
  /\ pc \in InCall \union {"idle"} => identity \in Identity /\ adapter \in installed
  /\ pc \in InCall \/ (pc = "probe" /\ front # "api") => todo # <<>>
  /\ {told, carried} \subseteq SUBSET {"untested_firmware", "untested_firmware_write"}
  /\ posted \in BOOLEAN /\ calm \in BOOLEAN
  /\ report \in Report

\* What the settings, the policy and the plugin's capabilities say of writing
\* to the switch as it is now, whatever was probed.
MayBeWritten ==
  /\ Running \in Identity
  /\ Permits(adapter, Running, TRUE) /\ "write" \in Offers[adapter][Running]
  /\ front = "cli" => Fits(Running)

PostLeaves == ~posted /\ posted'

\* A guarded write's POST meets a firmware that the policy, the settings and
\* the capabilities allow to be written, although only the probed identity was
\* ever asked about; unless the switch is reflashed between the identity check
\* of this very call and its POST.
GuardedWritesMeetPermittedFirmware ==
  [][PostLeaves /\ Head(todo) # "rotate" /\ calm => MayBeWritten]_vars

\* An Ansible configuration module sends no request but the probes unless the
\* probed firmware may be written, so that what check mode predicts would not
\* have been refused by policy in the real run; other processes may read first.
ConfigTasksAreCleared ==
  config /\ pc \in InCall =>
    Permits(adapter, identity, TRUE) /\ "write" \in Offers[adapter][identity]

\* A command or API call that was refused, by whichever layer and however many
\* of its calls had succeeded, has posted nothing.
RefusalsPostNothing == report \in Refusal \union {"invalid"} => ~posted

\* A success on an untested firmware was allowed by an override and is told with a
\* warning, that of a write if anything was posted; only what an API user has read
\* comes without one, which the device still carries.  On a tested one, none.
OverridesAreTold ==
  report = "ok" =>
    /\ Supported(adapter, identity) => told = {} /\ carried = {}
    /\ ~Supported(adapter, identity) =>
         /\ allow # {} /\ carried = {"untested_firmware"}
         /\ told = {} => front = "api" /\ ~posted
    /\ posted => told \subseteq {"untested_firmware_write"}

\* The documentation's rule that without an override only probes reach an
\* unknown firmware: no other request of an API user's call that began when the
\* switch was running this firmware already.
UnknownFirmwareIsOnlyProbed ==
  [][allow = {} /\ front = "api" /\ calm /\ (PostLeaves \/ (pc = "get" /\ report' # "failed")) =>
       Running \in Identity /\ Supported(adapter, Running)]_vars

-----------------------------------------------------------------------------
(* Why they hold: an invariant that every step preserves.                   *)

\* Whoever has a device has been admitted to it.
Admitted ==
  pc \in InCall \union {"idle"} =>
    /\ front = "cli" => Fits(identity)
    /\ config => Permits(adapter, identity, TRUE) /\ "write" \in Offers[adapter][identity]

\* Requests belong to authorised calls; nothing has been posted before the
\* POST, and nothing follows a write in its command.
Placed ==
  /\ pc = "check" => Head(todo) \in {"look", "tree", "rename", "write"}
  /\ pc = "get" => Head(todo) \in {"tree", "read", "write"}
  /\ pc \in {"post", "readback"} => Head(todo) \in {"rename", "write", "rotate"}
  /\ pc \in InCall \ {"call"} =>
       /\ Authorised(Head(todo))
       /\ told = Told(Head(todo))
  /\ pc \in InCall \union {"idle"} => carried = Warnings(adapter, identity, FALSE)
  /\ pc \in InCall \union {"probe"} => report = "none"
  /\ pc \in InCall \union {"probe"} => ~posted \/ pc = "readback"
  /\ \A k \in 1 .. Len(todo) - 1 : todo[k] \notin {"rename", "write", "rotate"}

\* An identity check holds until the switch is reflashed.
StillChecked ==
  calm /\ pc \in {"get", "post"} /\ Head(todo) \in {"rename", "write"} => Running = identity

SessionInv ==
  TypeOK /\ Admitted /\ Placed /\ StillChecked /\ RefusalsPostNothing /\ OverridesAreTold
=============================================================================
