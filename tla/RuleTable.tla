----------------------------- MODULE RuleTable -----------------------------
(***************************************************************************)
(* The two ordered tables that commands edit row by row although the switch *)
(* only stores them whole: the ACL (/acl.b), whose rules have no name but   *)
(* their position, and the static hosts (/host.b), named by MAC and VLAN.   *)
(* A client is an operator with one command, or a play with one task, who   *)
(* gives it again when the answer is lost.  A request whose answer is lost  *)
(* may have been stored, may have gone astray, or may still be under way    *)
(* and land after the client has given up on it.                            *)
(***************************************************************************)
EXTENDS Naturals, SequencesExt

CONSTANTS
  Rule,        \* ACL rules, their position apart
  SixRule,     \* those that match traffic entering through port 6
  Identity,    \* pairs of a MAC address and a VLAN
  Target,      \* what a static host's traffic is to do
  SixTarget,   \* targets that include port 6
  MaxRows,     \* MAX_ACL_RULES and MAX_STATIC_HOSTS
  Client,      \* operators and plays
  Boot,        \* the tables the switch may start with
  Wanted,      \* the tables a playbook may declare, per kind
  MaxTries,    \* bound: times a client gives its command
  MaxEdits     \* bound: edits in the web UI

Kind == {"acl", "host"}
Host == [id: Identity, to: Target]

Unique(t) == \A i, j \in DOMAIN t : t[i].id = t[j].id => i = j

\* The tables that the library can parse.
Table(k) ==
  IF k = "acl" THEN BoundedSeq(Rule, MaxRows)
  ELSE {t \in BoundedSeq(Host, MaxRows) : Unique(t)}

ASSUME RuleTableAssumption ==
  /\ SixRule \subseteq Rule /\ SixTarget \subseteq Target
  /\ MaxRows \in Nat /\ MaxTries \in Nat /\ MaxEdits \in Nat
  /\ \A b \in Boot : DOMAIN b = Kind /\ \A k \in Kind : b[k] \in Table(k)
  /\ DOMAIN Wanted = Kind
  /\ Wanted["acl"] \subseteq Seq(Rule) /\ Wanted["host"] \subseteq Seq(Host)

VARIABLES
  table,      \* per kind: the rows in the switch
  edits,      \* edits in the web UI so far
  late,       \* per client: tables it sent that are still under way
  pc,         \* per client: idle, read, post, verify
  call,       \* per client: its command
  current,    \* per client: the view its caller planned from
  desired,    \* per client: the view it wants
  result,     \* per client: how the last try ended
  tries,      \* per client: times it gave its command
  first,      \* history, per client: the table that its first try found
  alone,      \* history, per client: nobody else has changed it since
  disturbed   \* history, per client: it changed since the client's last look

vars == <<table, edits, late, pc, call, current, desired, result, tries,
          first, alone, disturbed>>

-----------------------------------------------------------------------------
(* The library's view numbers the ACL rules.                                *)

View(k, t) ==
  IF k = "acl" THEN [i \in DOMAIN t |-> [number |-> i, rule |-> t[i]]] ELSE t

Encode(k, d) ==
  IF k = "acl" THEN [i \in DOMAIN d |-> d[i].rule] ELSE d

RefusedSparingly(k, d) ==   \* mutant: no check for a host named twice
  \/ Len(d) > MaxRows
  \/ k = "acl" /\ \E i \in DOMAIN d : d[i].number # i \/ d[i].rule \in SixRule
  \/ k = "host" /\ \E i \in DOMAIN d : d[i].to \in SixTarget

\* What the encoders refuse, before any request is made.
Refused(k, d) ==
  \/ Len(d) > MaxRows
  \/ k = "acl" /\ \E i \in DOMAIN d : d[i].number # i \/ d[i].rule \in SixRule
  \/ k = "host" /\ (~Unique(d) \/ \E i \in DOMAIN d : d[i].to \in SixTarget)

-----------------------------------------------------------------------------
(* The commands.                                                            *)

RuleAdditions == [kind: {"acl"}, op: {"add"}, rule: Rule \ SixRule]
RuleRemovals == [kind: {"acl"}, op: {"remove"}, number: 1..MaxRows]
RulePlays == [kind: {"acl"}, op: {"playbook"}, rules: Wanted["acl"]]
HostAdditions ==
  [kind: {"host"}, op: {"add"}, host: [id: Identity, to: Target \ SixTarget]]
HostRemovals == [kind: {"host"}, op: {"remove"}, id: Identity]
HostPlays == [kind: {"host"}, op: {"playbook"}, hosts: Wanted["host"]]

Command ==
  UNION {RuleAdditions, RuleRemovals, RulePlays, HostAdditions, HostRemovals, HostPlays}

\* The rows of d at the positions I, in their order: [row for row in d if ...].
Kept(d, I) ==
  LET f[n \in 0..Len(d)] ==
        IF n = 0 THEN <<>> ELSE IF n \in I THEN Append(f[n - 1], d[n]) ELSE f[n - 1]
  IN f[Len(d)]

\* acl add: the new rule is the last one.
AddRule(r, d) == Append(d, [number |-> Len(d) + 1, rule |-> r])

RemoveRuleAndRest(n, d) == Kept(d, {i \in DOMAIN d : d[i].number < n})   \* mutant

\* acl remove: the rules that stay are numbered anew.
RemoveRule(n, d) ==
  LET kept == Kept(d, {i \in DOMAIN d : d[i].number # n})
  IN [i \in DOMAIN kept |-> [number |-> i, rule |-> kept[i].rule]]

\* host add: in place of the host of that identity, or at the end.
AddHost(h, d) ==
  IF \E i \in DOMAIN d : d[i].id = h.id
  THEN [i \in DOMAIN d |-> IF d[i].id = h.id THEN h ELSE d[i]]
  ELSE Append(d, h)

RemoveHost(id, d) == Kept(d, {i \in DOMAIN d : d[i].id # id})

DesiredBy(a, d) ==
  CASE a \in RuleAdditions -> AddRule(a.rule, d)
    [] a \in RuleRemovals  -> RemoveRule(a.number, d)
    [] a \in RulePlays     -> View("acl", a.rules)
    [] a \in HostAdditions -> AddHost(a.host, d)
    [] a \in HostRemovals  -> RemoveHost(a.id, d)
    [] a \in HostPlays     -> a.hosts

ASSUME CommandAssumption == Command # {}

-----------------------------------------------------------------------------
Init ==
  /\ table \in Boot /\ edits = 0
  /\ late = [c \in Client |-> <<>>]
  /\ pc = [c \in Client |-> "idle"]
  /\ call = [c \in Client |-> CHOOSE a \in Command : TRUE]
  /\ current = [c \in Client |-> <<>>] /\ desired = [c \in Client |-> <<>>]
  /\ result = [c \in Client |-> "none"] /\ tries = [c \in Client |-> 0]
  /\ first = [c \in Client |-> <<>>] /\ alone = [c \in Client |-> TRUE]
  /\ disturbed = [c \in Client |-> FALSE]

Mine(c) == table[call[c].kind]

\* The caller is done, and forgets what it knew.
End(c, r) ==
  /\ pc' = [pc EXCEPT ![c] = "idle"]
  /\ result' = [result EXCEPT ![c] = r]
  /\ current' = [current EXCEPT ![c] = <<>>]
  /\ desired' = [desired EXCEPT ![c] = <<>>]

Goto(c, phase) ==
  /\ pc' = [pc EXCEPT ![c] = phase]
  /\ UNCHANGED <<result, current, desired>>

Looks(c) == disturbed' = [disturbed EXCEPT ![c] = FALSE]   \* with every look

\* The table of kind k becomes t, through the doing of one of C.
Becomes(k, t, C) ==
  LET hit == {c \in Client : tries[c] > 0 /\ call[c].kind = k /\ t # table[k]} IN
  /\ table' = [table EXCEPT ![k] = t]
  /\ alone' = [c \in Client |-> alone[c] /\ (c \in hit => c \in C)]
  /\ disturbed' =
       [c \in Client |-> disturbed[c] \/ (c \in hit /\ pc[c] \in {"read", "post"})]

\* A client gives its command, for the first time or once more after an error.
\* The caller reads the table and builds the next one; the encoder refuses it
\* before any other request, and a task that would change nothing stops here.
Try(c, a) ==
  LET now == View(a.kind, table[a.kind])
      next == DesiredBy(a, now)
  IN
  /\ pc[c] = "idle" /\ tries[c] < MaxTries
  /\ tries[c] # 0 => a = call[c] /\ result[c] \in {"failed", "protocol"}
  /\ tries' = [tries EXCEPT ![c] = @ + 1]
  /\ call' = [call EXCEPT ![c] = a]
  /\ first' = IF tries[c] = 0 THEN [first EXCEPT ![c] = table[a.kind]] ELSE first
  /\ Looks(c)
  /\ \/ Refused(a.kind, next) /\ End(c, "refused")
     \/ /\ ~Refused(a.kind, next) /\ a.op = "playbook" /\ next = now
        /\ End(c, "unchanged")
     \/ /\ ~Refused(a.kind, next) /\ (a.op = "playbook" => next # now)
        /\ pc' = [pc EXCEPT ![c] = "read"]
        /\ current' = [current EXCEPT ![c] = now]
        /\ desired' = [desired EXCEPT ![c] = next]
        /\ result' = [result EXCEPT ![c] = "none"]
  /\ UNCHANGED <<table, edits, late, alone>>

NeverStale(c, now) == FALSE   \* mutant: the caller's baseline is not compared

Stale(c, now) == now # current[c]

\* The fresh read, which must agree with what the caller planned from.
Read(c) ==
  LET now == View(call[c].kind, Mine(c)) IN
  /\ pc[c] = "read"
  /\ Looks(c)
  /\ \/ Stale(c, now) /\ End(c, "refused")
     \/ ~Stale(c, now) /\ now = desired[c] /\ End(c, "unchanged")
     \/ ~Stale(c, now) /\ now # desired[c] /\ Goto(c, "post")
  /\ UNCHANGED <<table, edits, late, call, tries, first, alone>>

\* The switch stores the rows it is sent, or answers and ignores them.
Post(c, answered) ==
  LET k == call[c].kind IN
  /\ pc[c] = "post"
  /\ \E t \in {Encode(k, desired[c]), table[k]} : Becomes(k, t, {c})
  /\ IF answered THEN Goto(c, "verify") ELSE End(c, "failed")
  /\ UNCHANGED <<edits, late, call, tries, first>>

\* The client gives up on a request that the switch has not seen yet.
PostLate(c) ==
  /\ pc[c] = "post"
  /\ late' = [late EXCEPT ![c] = Append(@, Encode(call[c].kind, desired[c]))]
  /\ End(c, "failed")
  /\ UNCHANGED <<table, edits, call, tries, first, alone, disturbed>>

\* A request comes through that was given up on; they may overtake each other.
Land(c, i) ==
  /\ Becomes(call[c].kind, late[c][i], {c})
  /\ late' = [late EXCEPT ![c] = RemoveAt(@, i)]
  /\ UNCHANGED <<edits, pc, call, current, desired, result, tries, first>>

ReadsBackSize(c) == Len(Mine(c)) = Len(desired[c])   \* mutant: rows are only counted

ReadsBack(c) == View(call[c].kind, Mine(c)) = desired[c]

Verify(c) ==
  /\ pc[c] = "verify"
  /\ Looks(c)
  /\ End(c, IF ReadsBack(c) THEN "changed" ELSE "protocol")
  /\ UNCHANGED <<table, edits, late, call, tries, first, alone>>

RequestFails(c) ==
  /\ pc[c] # "idle"
  /\ End(c, "failed")
  /\ UNCHANGED <<table, edits, late, call, tries, first, alone, disturbed>>

\* Somebody cuts a row, or appends one, in the web UI.
WebEdit(k) ==
  /\ edits < MaxEdits /\ edits' = edits + 1
  /\ \/ \E i \in DOMAIN table[k] : Becomes(k, RemoveAt(table[k], i), {})
     \/ \E r \in IF k = "acl" THEN Rule ELSE Host :
          /\ Append(table[k], r) \in Table(k)
          /\ Becomes(k, Append(table[k], r), {})
  /\ UNCHANGED <<late, pc, call, current, desired, result, tries, first>>

Next ==
  \/ \E c \in Client :
       \/ \E a \in Command : Try(c, a)
       \/ Read(c) \/ Verify(c) \/ RequestFails(c)
       \/ \E answered \in BOOLEAN : Post(c, answered)
       \/ PostLate(c)
       \/ \E i \in DOMAIN late[c] : Land(c, i)
  \/ \E k \in Kind : WebEdit(k)

Spec == Init /\ [][Next]_vars
-----------------------------------------------------------------------------
(* Properties.                                                              *)

\* Every variable has its type; in particular whatever the clients send, and
\* however late it lands, both tables can still be parsed and fit their limits.
TypeOK ==
  /\ DOMAIN table = Kind /\ \A k \in Kind : table[k] \in Table(k)
  /\ edits \in 0..MaxEdits
  /\ pc \in [Client -> {"idle", "read", "post", "verify"}]
  /\ call \in [Client -> Command]
  /\ \A c \in Client :
       /\ late[c] \in Seq(Table(call[c].kind)) /\ Len(late[c]) <= tries[c]
       /\ tries[c] > 0 => first[c] \in Table(call[c].kind)
  /\ result \in [Client -> {"none", "changed", "unchanged", "refused", "protocol", "failed"}]
  /\ tries \in [Client -> 0..MaxTries]
  /\ alone \in [Client -> BOOLEAN] /\ disturbed \in [Client -> BOOLEAN]

\* A client about to send a table that nobody has changed since it last looked.
Sending(c) == pc[c] = "post" /\ ~disturbed[c]

Named(t, id) == Kept(t, {i \in DOMAIN t : t[i].id = id})
Others(t, id) == Kept(t, {i \in DOMAIN t : t[i].id # id})

\* A command's table differs from the switch's in the one row it is about: acl
\* remove takes out the rule at that position, acl add puts one behind all the
\* others, host add and remove leave every other host where it is.
OneRowChanges ==
  \A c \in Client : Sending(c) =>
    LET a == call[c]  new == Encode(a.kind, desired[c])  old == Mine(c) IN
    /\ a.kind = "acl" /\ a.op = "remove" => new = RemoveAt(old, a.number)
    /\ a.kind = "acl" /\ a.op = "add" => new = Append(old, a.rule)
    /\ a.kind = "host" /\ a.op = "add" =>
         /\ Others(new, a.host.id) = Others(old, a.host.id)
         /\ Named(new, a.host.id) = <<a.host>>
         /\ Len(new) = Len(old) => \A i \in DOMAIN old :
              new[i].id = old[i].id
    /\ a.kind = "host" /\ a.op = "remove" => new = Others(old, a.id)

\* What n repetitions of a command make of a table.
Repeated(a, t, n) ==
  LET f[i \in 0..n] == IF i = 0 THEN View(a.kind, t) ELSE DesiredBy(a, f[i - 1])
  IN Encode(a.kind, f[n])

\* The first table that a command found, after the command's effect n times.
After(c, n) == Repeated(call[c], first[c], n)

\* A command repeated until it succeeds, by a client that had the table to
\* itself, has had its effect once if it names its row or the whole table, for
\* all the requests that were lost, stored unanswered or came late; and a rule
\* added, or removed by number, at least once and never oftener than it was
\* asked for.
RepeatedCommandsAddUp ==
  \A c \in Client : result[c] \in {"changed", "unchanged"} /\ alone[c] =>
    \E n \in 1..tries[c] :
      /\ Mine(c) = After(c, n)
      /\ call[c].kind = "host" \/ call[c].op = "playbook" => n = 1
-----------------------------------------------------------------------------
(* Why they hold: an invariant that every step preserves.                   *)

\* What a client wants is its command's doing on what its caller planned from,
\* which the switch still stores unless the client was disturbed; and it can be
\* sent.  A try that is not over yet has left nothing under way.
Planned(c) ==
  LET k == call[c].kind IN
  /\ pc[c] # "idle" \/ result[c] # "none" => tries[c] > 0
  /\ pc[c] # "idle" =>
       /\ Encode(k, desired[c]) \in Table(k)
       /\ View(k, Encode(k, desired[c])) = desired[c]
  /\ pc[c] \in {"read", "post"} =>
       /\ Len(late[c]) < tries[c]
       /\ desired[c] = DesiredBy(call[c], current[c])
       /\ ~disturbed[c] => current[c] = View(k, Mine(c))
  /\ pc[c] = "post" => desired[c] # current[c]

\* What the switch stores, what the client wants and what is under way are all
\* some number of the command's effects away from what the first try found.
AddsUp(c) ==
  LET Effects(t) == \E n \in 1..tries[c] : t = After(c, n) IN
  alone[c] /\ tries[c] > 0 =>
    /\ Mine(c) = After(c, 0) \/ Effects(Mine(c))
    /\ pc[c] # "idle" => Effects(Encode(call[c].kind, desired[c]))
    /\ \A i \in DOMAIN late[c] : Effects(late[c][i])
    /\ result[c] \in {"changed", "unchanged"} => Effects(Mine(c))

\* The inductive invariant.
Inv ==
  /\ DOMAIN late = Client /\ DOMAIN current = Client
  /\ DOMAIN desired = Client /\ DOMAIN first = Client
  /\ TypeOK /\ \A c \in Client : Planned(c) /\ AddsUp(c)
=============================================================================
