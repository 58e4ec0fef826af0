# A verification project for swos-api

swos-api configures MikroTik SwOS switches over their web interface. Its only
device plugin, CSS106 (the RB260GS, firmware 2.19), reads and writes `/*.b`
objects with digest-authenticated HTTP. The switch has no revision tokens, no
transactions and no partial updates: every write replaces a whole group of
settings. The library's core logic is therefore a protocol, the *guarded
write*, whose requests interleave with those of every other client. This
project models that protocol in TLA+, checks it with TLC on small instances and
proves its central properties with TLAPS for every instance.

Paths below are relative to `src/`; `adapter.py` and `protocol.py` are in
`packages/devices/css106/src/swos_device_css106/`, `runtime.py` in
`packages/ansible/src/swos_ansible/`, `app.py` in `packages/cli/src/swos_cli/`,
the others in `packages/core/src/swos_core/`.

## 1. The system

| Component | State it keeps | Operations | What makes it correct |
|---|---|---|---|
| CSS106 adapter, guarded writes (`adapter.py`, `protocol.py`) | connection and probed identity; no cache | fourteen write handlers: fresh GETs, identity and baseline comparison, guards, no-op test, one POST of the complete group, readback | nothing that was not asked for is reverted; what is reported stands; port 6, which carries management, is never moved |
| Management-path change (`adapter.py` 504-722, 1323-1501) | the connection, replaced after a verified reconnection | choice of the readback URL, POST whose answer may be lost, up to 60 polls, adoption of the new URL | polls where the switch comes up; adopts only the original switch in the desired state; always reports |
| Password rotation (`adapter.py` 449-502) | the connection's password | POST with the old credentials, verification with the new ones | the adapter holds only a password that has worked; a lockout is told, a refusal is true |
| ACL and static-host editing (`app.py` 1296-1546, `runtime.py` 416-438 and 624-644) | none | `acl add`, `acl remove`, `host add`, `host remove`, playbook: build a table from a view, replace it | the row that was named changes and no other; repeated after an error, a command has the effect it was asked for |
| VLAN table editing (`app.py` 2020-2130, `runtime.py` 647-667, `adapter.py` 1159-1207) | none | `vlan set`, `vlan remove`, playbook, API edit: build a table from a view sorted by VLAN ID, keep positions, replace | rows nobody touched keep their order; a no-op sends nothing |
| Device facade (`api.py`) | adapter, warnings | capability and write-policy check, delegation | no write without authorisation |
| Plugin registry, firmware policy (`plugins.py`, `safety.py`) | registered plugins | discover, probe, resolve, connect | exactly one plugin, untested firmware only when allowed |
| Ansible runtime (`runtime.py`) | none | sixteen configuration tasks: argument checks, read, validate, project, check mode or write; facts | what check mode reports, the real run reports; a task that has succeeded finds nothing more to do |
| CLI (`app.py`, `config.py`, `output.py`) | resolved settings | commands, precedence of options, rendering | the operation asked for is the one performed |
| HTTP transport (`transport/http.py`, `errors.py`) | an httpx client | one request; timeouts, 401/403, other statuses, size limit | errors are classified; a redirect or an absolute path is not followed |
| Wire format (`protocol.py`) | none | tolerant JSON-like parser, hexadecimal text, bit masks, encoders | parse and encode agree |
| Read-only statistics, SFP, IGMP, learned hosts | none | decode one answer | - |

How they interact: the CLI and the Ansible runtime probe, resolve a plugin,
connect and call the facade, which authorises and calls the adapter. The
caller's *baseline* (`expected_current`) is an earlier read through the same
facade; the adapter compares it with its own fresh read. Handlers that share a
wire object interact through the switch: the device name and the system object
are one group; the RSTP bridge group and the system group are posted to one
endpoint, `/sys.b`; port policy, matrix, mirroring and port VLANs are parsed
from one object, `/fwd.b`. Nothing in a process runs concurrently; the
concurrency is among processes, the web UI and the switch.

What is hard: the window between the fresh GET and the POST, which the adapter
cannot close; readbacks of two GETs; a querier bit that is settled in one
representation and not in another; two judgements of "changed", one on the
public view and one on the wire settings; rules that have no name but their place;
requests that are given up on and land later; answers lost with the address they came
from; a password that cannot be read; views sorted differently from the wire.
`PROJECT.json` lists each hazard at its line.

## 2. Modules

| Module | Models |
|---|---|
| `CSS106Config` | settings, write groups, endpoints, the handlers as a table (GETs, group, baseline), the updates, the encoders (`Desired`) every guard, and the answers that do not decode |
| `GuardedWrite` | several clients running any handlers against one switch: `Begin`, `Plan`, `Read`, `Post`, `Verify`, `RejectAnswer`, `RequestFails`, and `Edit` for everyone else |
| `ConfigStore` | the promise: a store with an atomic compare-and-set, whatever its operations write and refuse |
| `CarefulWrite` | `GuardedWrite` while nobody uses the window, its refinement mapping to `ConfigStore`, and the invariant that makes it one |
| `ManagementReconnect` | `set_system_configuration` when the address mode, static address, management VLAN or admin MAC may change |
| `PasswordRotation` | `set_admin_password` with its probe, verification and later rotations |
| `VlanTable` | the VLAN table as an ordered list, and the four kinds of caller |
| `RuleTable` | the ACL and the static hosts as ordered lists, the commands and plays that edit them, and their repetition after lost, ignored and late requests |
| `AnsibleTask` | a configuration task of a playbook, run again and again in check mode or for real: the runtime's projection against the adapter's handler |
| `DeviceSession` | one process: probing with every installed plugin, selection, firmware policy, and the order of a command's facade calls and their requests |
| `CSS106ConfigProofs`, `GuardedWriteProofs` (with the refinement of `CarefulWrite`), `VlanTableProofs`, `RuleTableProofs`, `PasswordRotationProofs`, `DeviceSessionProofs`, `AnsibleTaskProofs`, `ManagementReconnectProofs` | theorems and lemmas |
| `MC*` and `*.cfg` | instances for TLC |

### CSS106Config and GuardedWrite

A setting is a pair of a wire name and a port (0 for a setting of the whole
device); the switch is a function from settings to values. `AttrsOf` gives the
settings each POST carries, `AttrsAt` those each answer tells. A mask such as
`allp` is one Boolean setting per port; forwarding rows are split into the part
towards Ethernet ports (`fp`) and the bit of port 6 (`fp6`), the VLAN table into
port 6's column (`vlan6`) and the rest (`vlans`), because guards and properties
tell them apart. A port's link has its enable bit (`en`), automatic negotiation (`an`)
and the speed and duplex it is otherwise forced to, as one setting (`spdc`): the guard
for active links asks about each. The content of other tables and texts is one value. Status
settings (link `up`, RSTP `edge`, serial `sid`, firmware identity `ident`, 0 for
the probed one) are reported but never posted; others change them.

All fourteen handlers have one shape (`set_port_name`, ... `replace_vlans`), so a
handler is a row of `HandlerTable` and the actions are those of the shape:

| Action | Code |
|---|---|
| `Begin`, `Plan` | the caller reads its baseline and, for the system object and the VLAN table, is refused by a validation that needs no fresh read |
| `Read` | one fresh GET; `/sys.b` first, which verifies the identity; after the last one: baseline, guards, no-op, else the POST |
| `Post` | the complete group with only the named settings replaced; the switch may store part of it or lose the answer |
| `Verify` | each GET of the readback against the state that was meant |
| `RejectAnswer` | `ProtocolError`: identity changed, in any read of `/sys.b`, or a mirror target of several ports in an answer that the forwarding handlers decode |
| `RequestFails` | a lost request, or any error status |
| `Edit` | web UI, other programs, link changes, a reboot into another firmware |

The port a caller names is unrestricted, port 6 included, and the refusals come
after the fresh read where the code makes them; so "port 6 is safe" is the
code's doing. `QuerierSettled` is the settlement of the IGMP querier in
`system_configuration_write_state_from_payload`: the write state has it, the
caller's baseline (`SystemInfo`) does not, and comparisons use each where the code
does.

History variables: `sent` (this operation's POST has left), `writer` (who changed
each group last) and `overtaken` (settings changed by others after this
operation read them and before its POST). `overtaken` names exactly the window
that the protocol cannot close; the properties say that nothing is lost
*outside* it.

### ConfigStore and CarefulWrite

`ConfigStore` says what a client may rely on, in one step per operation: `Expect` is
any part of the caller's plan, `Refuse` and `Skip` judge the store as it is, `Apply` judges and
writes at once, `Succeed` and `Fail` are the report. It knows neither handlers
nor requests; what an operation writes, compares and refuses are its constants.
`CarefulWrite` gives them the operators of `CSS106Config` and maps a conversation of
four to seven requests to it: it is `open` until its POST has left, `settled` from then
on, and `target` is the group as the POST meant it.

### ManagementReconnect

One adapter and one switch, with URLs abstracted to hosts (addresses and names
that resolve to addresses). `ReadbackUrl` is `_management_readback_url` with all
its refusals, `Plan` validates on the caller's read, `Read` again on the fresh
one. A static address may be one that no host can have (`Unusable`: what
`_validate_static_management_ip` turns down); it is refused whether the update names it or
merely keeps it, and no switch comes up there. Otherwise the switch comes up at any of the
`Places` its configuration allows, or nowhere. `Answers` may come from a twin: a switch
of the same product and firmware with another serial number and MAC. `Move` is a lease renewal, a fallback
or an outage at any time.

### PasswordRotation

Each client has an adapter with a password and a probed identity. `Connect` is
the probe; a playbook task reads the system before the POST (`Look`), the CLI and
API users do not. `PostRefused` distinguishes 401/403 (`denied`) from 405
(`rejected`, `PasswordUpdateRejectedError`); `Verify` opens a new connection with
the new password and adopts it only after the identity is confirmed. Passwords
are values; `Sendable` and `Writable` are those that the two validators accept.

### VlanTable

The switch keeps a list; `View` is what the library shows, rows with the
position they were read at. `SetBy`, `Without`, `EditBy` and a playbook's table are
the four ways callers build the next view; `Encode` puts positioned rows first in
their order and appends new ones by VLAN ID: it is the listing (`Listed`) of the
view in the order of `sorted`'s key. `Post` also allows a switch that
stores rows by VLAN ID. The identity check before each write is left to
`GuardedWrite`.

### RuleTable

Both tables are replaced as a whole, but commands speak of rows. An ACL rule has no
name but its position, which the view makes a `number`; a static host is named by MAC
and VLAN. `RemoveRule`, `AddRule`, `AddHost` and `RemoveHost` are how the commands build
the next view (`Kept` is the comprehension that leaves rows out), `Refused` is what the
two encoders refuse. `Try` is the first read with
the command's planning, `Read` the adapter's fresh read, and a client whose try ended
in an error may give the same command again. A POST may be stored or ignored, with or
without an answer; with `PostLate` the client's timeout passes while the request is
still under way, and `Land` is its arrival, possibly after the retry and in any order.
A rule is a value, of which only matters whether it matches traffic from port 6. The
identity check before each write is left to `GuardedWrite`.

### AnsibleTask

`CSS106Config` gives the switch, the updates and the adapter's judgement (`Refused`,
`Stale`, `NoOp`, `Desired`); this module adds the runtime's. `TaskTable` has a row per
task: which settings its result shows and which guards its `validate_*` call applies.
`Projected` is the view with the task's values in it, as `_project_system_configuration` and
the `model_copy` projections of the others compute it; it knows nothing of the wire, so it neither
settles the querier nor normalises an address that is spelled 0.0.0.0 (`spelled`). The
matrix task completes its destinations from its own read (`Asked`).

| Action | Code |
|---|---|
| `Start` | `execute`, with `check_mode` or without |
| `RefuseParams` | `_validate_operation_params`, before any connection |
| `Look` | the read, `validate_*`, the projection; the end of check mode and of a run that would change nothing |
| `Write` | the facade write up to its POST: refusals, baseline, no-op |
| `Post`, `Verify` | as in `GuardedWrite`; the switch may store a part |
| `Fail`, `Edit` | a failing request, a change by somebody else |

`view` is what the last execution has read; `done` and `past` are the last two reports,
with the count of outside edits at the time, so that properties can relate two
executions between which nobody touched the switch. Reads of two objects and the
adapter's fresh GETs are one step here; their interleaving is `GuardedWrite`'s
subject.

### DeviceSession

The other modules begin with a device that fits the switch; this one says how a
process comes by it and which firmware its requests may meet. `Init` chooses
what the process is (a CLI command, an Ansible task, an API user), its overrides,
its settings' model and firmware, its plugins and the facade calls of its
command. Plugins are data: the family they register, their support records, what they
recognise in a switch and what they offer for an identity.

| Action | Code |
|---|---|
| `Init` | `PluginRegistry.discover`; two plugins of one family end the process |
| `Probe`, `Undetected` | one GET per plugin (`registry.probe`); undecodable answers count as not recognised, a failing request ends the command |
| `Connect` | `_connect_device` of the CLI (settings first), `_connect` of Ansible (`resolve(write=...)` first), `connect_auto`; `Objection` holds their order |
| `CallApi`, `Release` | an API user keeps a device as long as it likes |
| `Refuse`, `Enter` | `_authorize`, `_authorize_write` and the local validation at the start of every facade method |
| `Check`, `Get`, `Settle`, `Post`, `ReadBack` | the requests of a call, in the order of its kind: `look` (`get_system_info`), `tree` (`get_rstp`), `read` (other getters), `rename` (writes of `/sys.b` that check identity and then post), `write` (other groups), `rotate` (the password), `validate` (no request) |
| `RequestFails` | as everywhere |
| `Reflash` | other firmware, or another switch at the address, between any two requests |

The device carries (`carried`) the override warnings it was connected with
(`device.warnings`), and each call tells (`told`) its own: writes and validations have the warnings of their own
authorisation, the CLI and the facts show those of the connection, and what an API getter
returns has none (`Told`).

One process is enough: processes share nothing but the switch, and nothing a
process does here changes what the switch runs. What writes do to settings, and
their baselines, is `GuardedWrite`'s subject; here they may be refused or settled
at any point where the code can. The `device` argument that tests inject into
Ansible's `execute` is not modelled: modules always connect.

## 3. Runs

| Run | States | Shows |
|---|---|---|
| `plain_writers` | device and port names, RSTP ports and bridge, port settings, SNMP, hosts, ACL | two groups on one endpoint, two-GET readbacks, reserved multicast or a link appearing, negotiation under a link; the inductive invariant in every reachable state |
| `guarding_writers` | port policy, matrix, mirroring, port VLANs, system object, device name, VLANs | guards that depend on what others do to port 6 meanwhile; answers that do not decode; the dormant querier, masks, a whole group written by two handlers |
| `careful_refinement` | system, RSTP, VLAN handlers | `GuardedWrite` implements `ConfigStore` while the window is unused |
| `reconnect` | all updates of one or two of four settings, every explicit URL, seven starting points, one with an unusable fallback address | choice of URL, polling, adoption, and that every operation reports |
| `password_rotation` | two clients, two rotations each, two outside changes | honesty of every report and the adapter's password |
| `vlan_callers` | two callers of any kind, tables out of order, one full | order, no-op and port 6 for the whole table |
| `rule_tables` | two clients, any of the six commands twice each, one row cut or appended in the web UI | which row a command changes, and what repetitions add up to |
| `ansible_task` | every task with every update, three executions, one edit, partial stores | prediction against report, acceptance, completion, quiet repetition |
| `omitted_settings` | the system task and the rename, one execution | a violation, see section 5 |
| `vlan_set_no_op` | those of `vlan_callers` | a violation, see section 5 |
| `device_session` | one process with any overrides, settings and set of three plugins; seven things the switch may be running | admission of processes, refusals, warnings and the firmware that POSTs meet |
| `unknown_firmware` | those of `device_session` | a violation, see section 5 |

Properties of the guarded writes:

- `LastWriterStands`: after a success report the switch stores the whole group as
  the operation meant it, as long as nobody else writes the group.
- `HonestReports`: refused and unchanged mean that nothing was sent.
- `RevertsOnlyInWindow`: a POST changes only its group, and un-named settings only
  if somebody changed them inside the window.
- `JustifiedPost`: when an operation that was not overtaken sends its POST,
  identity, baseline and every guard hold of the *switch*, not just of what was
  read.
- `ActiveLinksKept`: no POST, whichever handler's and whichever port it names, disables a
  port whose link is up or changes its negotiation, except by restoring what was changed
  inside the window or where the link came up inside it.
- `ManagementPathKept`: no write moves any setting of port 6, except by restoring
  what was changed inside the window.

Properties of the rule tables (`RuleTable`):

- `OneRowChanges`: a table that is sent, while nobody has changed the switch's since
  the fresh read, differs from it in the one row the command is about; the rule that
  `acl remove` takes out is the one at that place *in the switch*.
- `RepeatedCommandsAddUp`: a client that had the table to itself and repeated its
  command until it succeeded finds its effect once, for host commands and plays. For
  `acl add` and `acl remove` it may find it several times, at most as often as the command
  was given: a rule doubled, or a second rule gone. The exception is tight; an
  operator who lost an answer should list the rules first.

Properties of a playbook's task (`AnsibleTask`), when nobody else touches the switch:

- `TaskIsDone`: after a successful real run the switch stores what the task asks,
  whether the runtime or the adapter decided that nothing was to do.
- `PredictionsComeTrue`: a real run reports what check mode reported before it, the
  values shown included. Two exceptions: a spelled zero is always predicted as a change, and the
  querier is settled while snooping is off.
- `AcceptedIsAccepted`: what check mode accepts the adapter does not refuse. The one
  exception is a rename while port 6 is not among the allowed ports: `validate_device_name`
  looks at the text alone.
- `RepeatsAreQuiet`: run again after success, a task sends nothing and reports no
  change, spelled zeros included.

Properties of a process (`DeviceSession`):

- `GuardedWritesMeetPermittedFirmware`: policy only ever sees the probed identity,
  yet a guarded POST meets firmware that may be written, unless the switch is
  reflashed between this call's identity check and its POST. The password's POST is
  exempt, as it is sent without such a check.
- `ConfigTasksAreCleared`: a playbook's configuration task, in check mode too, has
  been permitted to write before its first read.
- `RefusalsPostNothing`: whichever layer refuses, and after however many calls of the
  command, nothing has been posted.
- `OverridesAreTold`: a success on untested firmware was allowed by an override and is told
  with the warning of the right kind; only what an API user reads comes without it, and
  then the device carries it. On tested firmware there is none.

Bounds. One Ethernet port and port 6 are enough, as no guard relates two
Ethernet ports; values are 0 and 1, as settings are only compared. Two clients
with one operation each and one outside edit give every interleaving of two
conversations with an interference in it; what longer sequences of operations
and more clients could add is covered by the theorems, which have no bounds. The
handlers are split in two runs, those with guards for port 6 and the others, because
they interact only through settings they share. In `reconnect`, two polls show a first, a repeated and a last
attempt (the code has 60); one operation suffices since it starts from every
relation between switch and adapter. In `password_rotation` two rotations per
client show a retry after each kind of failure. In `vlan_callers` a table of three
rows is full and four VLAN IDs exist, so that the size guard bites. In `rule_tables` both tables have two
rows and room for a third, so that additions meet the limit after an edit; two tries show a
retry before and after the late request lands. In `ansible_task` three executions are a
prediction, its fulfilment and a repetition. The three plugins of
`device_session` are the real one, a fork that registers the same family in another
case, and one of another family that recognises part of the same switches; the switch
states are a tested and an untested version, builds, a read-only model, and
answers that no plugin or only one can decode. It needs no bound: a command is
finite and an API user's calls return to the same states. `MaxOps`,
`MaxEdits` and `MaxMoves` bound only how often things happen. Deadlock is
checked in `device_session`, where only the environment goes on for ever, and not
elsewhere: clients that have done their operations rest.

Fairness. Only `ManagementReconnect` has a liveness property,
`EveryOperationReports`. It assumes weak fairness of the adapter's own steps: each
HTTP request ends, at the latest with the connection's timeout, and the polling
loop continues. Nothing is assumed of the switch, which may never answer again.

Each property of a passing run has a mutant, an operator beside the one it
replaces and marked `mutant`, that makes TLC find the property violated.

## 4. Theorems

For any ports, values, subsets of the handlers, clients, passwords and bounds,
from the assumptions named in the modules (port 6 is not an Ethernet port, 0 and
1 are values, `"outside"` is no client, the tables that the switch starts with and that
playbooks declare can be parsed, there is something to ask for, and so on):

| Theorem | States |
|---|---|
| `TypeCorrect` | `Spec => []TypeOK` of `GuardedWrite`, with the cursor of each conversation in its phase |
| `InvCorrect` | `Spec => []Inv` |
| `ReportsAreHonest`, `LastWriterCorrect` | `HonestReports`, `LastWriterStands` |
| `RevertsCorrect`, `PostsAreJustified`, `ManagementPathCorrect`, `ActiveLinksCorrect` | the four action properties |
| `CarefulInvCorrect`, `WritesActAtomically` | `CarefulSpec => ActsAtomically`: `CarefulWrite` implements `ConfigStore`, and the invariant that this needs |
| `InvCorrect`, `TypeCorrect`, `ReportsStandCorrect`, `UntouchedRowsKeepOrderCorrect`, `PortSixStaysCorrect` of `VlanTableProofs` | the four properties of `VlanTable` and their invariant, for tables of any length |
| `InvCorrect`, `TypeCorrect`, `OneRowChangesCorrect`, `RepeatedCommandsAddUpCorrect` of `RuleTableProofs` | the three properties of `RuleTable` and their invariant, for tables of any length, any number of tries and of late requests |
| `RotationTypeCorrect`, `LockoutCorrect`, `HonestRotationCorrect`, `AdoptionCorrect` | the four properties of `PasswordRotation` |
| `TaskTypeCorrect`, `TaskInvCorrect`, `TaskIsDoneCorrect`, `PredictionsCorrect`, `AcceptedCorrect`, `RepeatsCorrect` | the five properties of `AnsibleTask` and the invariant they follow from, for any number of executions and edits |
| `ReconnectInvCorrect`, `ReconnectTypeCorrect`, `PollsCorrect`, `SameTransportCorrect`, `UncertaintyCorrect`, `AdoptionOfTheSwitch` | the safety properties of `ManagementReconnect` and the invariant they follow from, for any addresses, names, twins, updates and number of polls |
| `SessionTypeCorrect`, `TasksAreCleared`, `RefusalsCorrect`, `OverridesCorrect`, `GuardedWritesCorrect` | the five properties of `DeviceSession`, for any plugins, records, switches and settings |

The argument for guarded writes. None of the properties is inductive. `Inv` adds:

- `Holding`: what an operation holds from its fresh GETs is what the switch stores,
  unless it was overtaken on it. This carries a check made on `before` over to the
  switch itself at the POST.
- `Checked`: baseline, guards and identity held of `before` when the next phase
  began. With `Holding` it gives `JustifiedPost`.
- `Reporting`: a result appears only at the end, and `sent` follows the phase; it
  makes `HonestReports` inductive.
- `ReadbackStands`: the part of the group that the readback has already confirmed
  stays as it was meant while the operation is the group's last writer. A
  two-GET readback needs it, since the first answer is older than the report.

`RevertsOnlyInWindow` and `ManagementPathKept` follow from `Holding` and `Checked` and
from lemmas about the encoder and the guards in `CSS106ConfigProofs`: `Desired` keeps
every setting of the group that is not `Named`, and a write which is not `Refused`
names no `Protected` setting with another value. `ActiveLinksKept` follows from them too:
only `set_port_configuration` names settings of a link other than its name (`LinkHandlers`),
it holds whether the link is up from the same answer (`LinksAreRead`), and then what is not
refused neither disables nor renegotiates (`ActiveLinkIsKept`).

The argument for the promise is `CarefulInv`: `Inv`, that nobody is overtaken, and
`SomethingToWrite`, that a POST leaves only when it would change something. With `Holding`,
what a handler has read when its POST leaves, or when its last GET is answered, is what the
switch stores (`HeldIsCurrent`, `ReadIsCurrent`); refusal, staleness, no-op and goal depend
on nothing else (`SameAnswers`), so they are those of the store at that instant. Each
action then has its lemma: `Begin` is `Ask`, `Plan` is `Expect`, the last `Read` is
`Refuse`, `Skip` or a stutter (`ReadResolves`), `Post` is `Apply` (`PostApplies`), and so is a
request that fails in place of it, an earlier or later failure is `Fail`, the
last readback is `Succeed` by `ReadbackStands` (`VerifySucceeds`); all else stutters.

The argument for the VLAN table. A list and a set with positions say the same:
`Lists` defines a listing of a finite set in a strict order, and `ListingExists` and
`ListingIsUnique` that there is exactly one. So the encoder, which chooses one, puts a view
back into the table it was read from, and whatever it is given, the rows of a part are sent
in the order of the whole (`PartOfListing`, `OthersOfEncode`). `Sound` is what a view
needs for that, no VLAN and no position twice, and every caller's way to build the next
view keeps it (`DesiredIsSound`). The invariant adds `Planned`: what is about to be written is the
call's doing on a view that was not refused against its baseline and which is the
switch's own unless the client was disturbed. That carries the order of the other rows
and port 6's membership from the *baseline* to the *switch*.

The argument for the rule tables has three layers. What a command makes of a table is
settled by lemmas about lists: a comprehension is a walk over the rows, which exists, is
unique, and drops or keeps a row as one expects (`Walk...`, `Kept...`); so `acl remove` cuts
one row and numbers the rest anew, `host add` sets one row (`AddRuleAppends`, `RemoveRuleCuts`,
`AddHostSetsOne`, `RemoveHostClears`), and doing a host command or a play twice is doing it once (`DoneTwice`).
What n repetitions make of a table follows the same way, from the existence and uniqueness
of their course (`CourseExists`, `CourseIsUnique`, `RepeatedNext`). The invariant has `Planned`, and
`AddsUp`: while a client has the table to itself, what is stored, what it wants, and what
is still under way are each between none and as many repetitions away from what
its first try found as it has made tries. A late request that lands after the retry takes the
table *back* to fewer repetitions, never out of the range; and a report of success
follows only a readback of a table with at least one.

The argument for password rotation is `RotationInv`: a rotation is marked from its
POST on, and while its client is the last to have set a password, that password
is the switch's; so a failing verification leaves no way to a benign report.

The argument for a playbook's task. The properties relate two executions, so the
invariant says of each report what it tells of the switch as long as nobody edits:
`CheckEnded` that the report is `Projected` of what is stored, `RealEnded` that the task
is `Quiet`, `RefusedEnded` which of the two judgements objected; `CheckBefore` and `RealBefore`
carry this over to the next execution, `UnderWay` through its phases. The steps rest on
lemmas that compare the two judgements for an update and the settings it leads to
(`Written`): what the adapter writes is what it calls done (`WrittenIsReached`, `ReachedIsNoOp`), is
accepted again (`StillAccepted`, `AcceptedIsValid`, `ValidIsAccepted`), was foreseen
(`WrittenIsForeseen`) and asks for nothing more (`WrittenIsQuiet`). All of it
holds for every port, value and update, and there TLC found each exception first.

The argument for a process is `SessionInv`. `Admitted` says of whoever has a device
what `Objection` established when it connected. `Placed` ties each phase to the calls
that can be in it, says that the call in progress was authorised with the
warnings it will report and that the device carries those of its connection, that nothing has been posted before the readback, and that a
posting call is the last of its command, which makes refusals by a later call
harmless. `StillChecked` carries the identity check over to the POST while nothing
is reflashed; with the authorisation of `Placed` it gives the action property.

The argument for the management path is `ReconnectInv`: the switch is nowhere or at one
of the `Places` of its configuration (`Located`, which the starts satisfy by
`BootAssumption`), so a read that has reached it tells where it is, and the POST goes
there (`ReadWhereItIs`). From such a read, `ChosenPlace` goes through the cases of
`_management_readback_url`: each URL that is neither the open transport nor the
caller's is an address at which the new configuration may put the switch; `SameStays` says
that a write read back over the open transport moves nothing. `Phases` counts the
polls and ties the history to the phase. TLC checked `ReconnectInv` on the instance of
`reconnect` before it was proved.

Before they were proved, TLC checked `CarefulInv` and the invariants of both tables on
the instances of `careful_refinement`, `vlan_callers` and `rule_tables`.

Only model-checked: the liveness of `ManagementReconnect`, as liveness under fairness and
`ENABLED` are out of the prover's reach. All other properties that a run
passes are stated by a theorem, and the three disagreements of section 5 are
TLC's counterexamples. The provers take no induction principle with an operator for a parameter, and
know nothing of what `SelectSeq` and the sorting of the sequence modules compute. The
two table modules therefore say with a choice (`Listed`) and with recursive functions (`Kept`,
`Repeated`) what their tables are, and their proofs induct by the least counterexample, which
is first-order (`LeastNumber`). What that does not reach is data with a recursive shape,
such as the parser's; none is modelled.

## 5. Findings

`swosctl vlan set` rebuilds an existing row without the position it was read at
(`app.py` 2042). Positions take part in equality, so asking for what a row already
says is not recognised as a no-op: the complete table is posted, `changed` is
reported, and the row moves behind the others. The README promises the no-op check
and that existing rows retain their order. `vlan_set_no_op` shows it with a single
client.

A switch may store a querier that is on while snooping is off. The library shows it as
on, but the write state settles it to off before an update is laid over it
(`protocol.py` 312). A system update that switches snooping on and omits the querier
therefore leaves it off, although omitted fields are to be preserved
(`packages/ansible/README.md` 85, `models.py` 209) and check mode has predicted it on. The documented
exception, that the querier is forced off whenever snooping *is* off, does not cover a
write after which snooping is on. `omitted_settings` shows it; `OmittedStaysAsRead` allows for the
documented case.

Two smaller observations are exceptions in properties rather than runs: check mode
reports a change for ever when a playbook spells `allow_from: 0.0.0.0`, while
the real run reports none (`PredictionsComeTrue`); and check mode accepts a rename that
the write refuses for the sake of port 6 (`AcceptedIsAccepted`).

A device that an API user keeps asks the policy about the identity probed at
connection (`api.py` 938), and all getters but `get_system_info` and `get_rstp` read
without asking the switch who it is. After a reflash to an untested firmware they go
on reading, with no override and no warning. `docs/device-plugins.md` 21-22 says that only
probing is permitted on an unknown firmware version, and `docs/architecture.md` 20-22
that support is checked immediately before each operation. `unknown_firmware` shows a
call that began after the reflash. Guarded writes are not affected
(`GuardedWritesMeetPermittedFirmware`).

## 6. Abstractions and what is not modelled

- Settings and values stand for hexadecimal text, masks and tables; that the
  encoders and parsers agree is not modelled. Flow control has no setting of its own: it is
  written like a port's name, and no guard asks about it. The password transform and the
  tolerant parser are byte-level code without interaction.
- URL syntax, ports and schemes are reduced to hosts, and which addresses are unusable to
  the set `Unusable`; a baseline in
  `ManagementReconnect` is never read from a twin, since the probe would show its
  serial number to the user.
- Digest authentication, size limits and encodings of the transport are reduced
  to the outcomes: answer, lost request, lost answer, refusal.
- Rendering, logging and argument parsing; read-only statistics, SFP, IGMP and
  learned hosts decode one answer and keep no state.
- The resolution of the CLI's configuration (`config.py`) is a pure function, evaluated
  before any device is involved: each setting comes from the first of command line,
  environment, profile and defaults that has it. It has no state and no order of events.
- Late requests are modelled in `RuleTable` only; elsewhere a request whose answer
  is lost has been stored, wholly or in part, or never will be.
- Warnings are modelled in `DeviceSession`; that check mode's result lacks the lockout
  warnings of the real run is not.
- The adapter is not used by two threads at once; nothing in the code does so.

## 7. Plan

Order of the work, the most important behaviour first; 1 to 11 are done.

1. `CSS106Config`, `GuardedWrite`: fourteen handlers, properties, type theorem.
2. `ConfigStore`, `CarefulWrite`: the promise and its refinement.
3. `ManagementReconnect`, `VlanTable`, `PasswordRotation`.
4. Proofs of the guarded writes.
5. Proofs of password rotation.
6. `DeviceSession`: registry, policy, facade and the call orders of the front ends,
   with its proofs.
7. `AnsibleTask`: check mode and real runs of every task, with its proofs.
8. `RuleTable`: row-by-row editing of the ACL and the static hosts, with retries and late
   requests.
9. Proofs of `ManagementReconnect`.
10. Proof that the guarded writes implement `ConfigStore`.
11. Proofs of `VlanTable` and `RuleTable`.
12. Lemmas that are exact where a property allows an exception: that `acl add` does
    double a rule for every table with room, and that each exception of `AnsibleTask` is met.
