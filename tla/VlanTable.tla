----------------------------- MODULE VlanTable -----------------------------
(***************************************************************************)
(* The VLAN table /vlan.b is a list, replaced as a whole.  The library shows *)
(* its rows by VLAN ID and remembers in each row the position it was read    *)
(* at; the CLI, Ansible tasks and API users build the next table from that   *)
(* view, each in its own way, and the encoder puts the rows back in order.   *)
(* Clients' requests interleave with each other's and with the web UI.       *)
(***************************************************************************)
EXTENDS Naturals, FiniteSets, SequencesExt

CONSTANTS
  VlanId,      \* VLAN IDs, numbers
  Setting,     \* settings of a row; "six" is the membership of port 6
  MaxRows,     \* MAX_VLAN_ENTRIES
  Client,      \* CLI processes, Ansible tasks and API users
  Boot,        \* the tables the switch may start with
  Wanted,      \* the tables a playbook may declare
  MaxOps,      \* bound: operations per client
  MaxEdits     \* bound: edits in the web UI

TableRow == [vid: VlanId, set: [Setting -> {0, 1}]]

\* A table the library can parse.
Table ==
  UNION {{t \in [1..n -> TableRow] :
            \A i, j \in 1..n : t[i].vid = t[j].vid => i = j} : n \in 0..MaxRows}

ASSUME VlanAssumption ==
  /\ VlanId \subseteq Nat /\ "six" \in Setting
  /\ MaxRows \in Nat /\ MaxOps \in Nat /\ MaxEdits \in Nat
  /\ \A t \in Boot \union Wanted : t \in Table

VARIABLES
  table,      \* the rows in the switch
  edits,      \* edits in the web UI so far
  pc,         \* per client: idle, plan, read, post, verify
  call,       \* per client: what it was asked to do
  current,    \* per client: the view its caller planned from
  desired,    \* per client: the view it wants
  result,     \* per client: how the last call ended
  ops,        \* per client: calls begun
  disturbed   \* history: another changed the table since this client's last
              \* look at it

vars == <<table, edits, pc, call, current, desired, result, ops, disturbed>>

-----------------------------------------------------------------------------
(* The library's view: a row with its position, counted from 1; 0 for none. *)

Vlan == [pos: 0..MaxRows, row: TableRow]

View(t) == {[pos |-> i, row |-> t[i]] : i \in DOMAIN t}

Positionless(t) == {[pos |-> 0, row |-> t[i]] : i \in DOMAIN t}  \* mutant: order is lost

\* Positioned rows first, in their old order; then the new ones, by VLAN ID.
Precedes(x, y) ==
  \/ x.pos # 0 /\ (y.pos = 0 \/ x.pos < y.pos)
  \/ x.pos = 0 /\ y.pos = 0 /\ x.row.vid < y.row.vid

\* The elements of S, each once, in the order that before tells.
Listed(S, before(_, _)) ==
  CHOOSE s \in [1..Cardinality(S) -> S] :
    \A i, j \in DOMAIN s : i < j => before(s[i], s[j])

\* Mutant: the rows are sent in the order the library shows them.
EncodeAsShown(d) ==
  LET s == Listed(d, LAMBDA x, y : x.row.vid < y.row.vid)
  IN [i \in DOMAIN s |-> s[i].row]

Encode(d) ==
  LET s == Listed(d, Precedes) IN [i \in DOMAIN s |-> s[i].row]

RowOf(v, d) == CHOOSE x \in d : x.row.vid = v
Has(v, d) == \E x \in d : x.row.vid = v
Six(v, d) == IF Has(v, d) THEN RowOf(v, d).row.set["six"] ELSE 0

MovesSix(d, b) == \E v \in VlanId : Six(v, d) # Six(v, b)
Overfull(d) == Cardinality(d) > MaxRows

RefusedForSix(d, b) == MovesSix(d, b)   \* mutants: one of the two guards
RefusedForSize(d, b) == Overfull(d)

\* The encoder's refusals, against the caller's baseline.
Refused(d, b) == Overfull(d) \/ MovesSix(d, b)

-----------------------------------------------------------------------------
(* The callers.                                                             *)

Assignment == UNION {[S -> {0, 1}] : S \in (SUBSET (Setting \ {"six"})) \ {{}}}

Call ==
  [kind: {"set", "edit"}, vid: VlanId, to: Assignment]
    \union [kind: {"remove"}, vid: VlanId] \union [kind: {"playbook"}, rows: Wanted]

Fresh(v) == [vid |-> v, set |-> [k \in Setting |-> 0]]

Updated(r, to) ==
  [r EXCEPT !.set = [k \in Setting |-> IF k \in DOMAIN to THEN to[k] ELSE @[k]]]

Without(v, d) == {x \in d : x.row.vid # v}

\* vlan set: the row is built anew, whatever its position was.
SetBy(a, d) ==
  Without(a.vid, d) \union
  {[pos |-> 0, row |-> Updated(IF Has(a.vid, d) THEN RowOf(a.vid, d).row
                               ELSE Fresh(a.vid), a.to)]}

\* An API user copies the row it was given and changes the copy.
EditBy(a, d) ==
  {IF x.row.vid = a.vid THEN [x EXCEPT !.row = Updated(@, a.to)] ELSE x : x \in d}

DesiredBy(a, d) ==
  CASE a.kind = "set"      -> SetBy(a, d)
    [] a.kind = "edit"     -> EditBy(a, d)
    [] a.kind = "remove"   -> Without(a.vid, d)
    [] a.kind = "playbook" -> View(a.rows)

ASSUME CallAssumption == Call # {}

-----------------------------------------------------------------------------
Init ==
  /\ table \in Boot /\ edits = 0
  /\ pc = [c \in Client |-> "idle"]
  /\ call = [c \in Client |-> CHOOSE a \in Call : TRUE]
  /\ current = [c \in Client |-> {}] /\ desired = [c \in Client |-> {}]
  /\ result = [c \in Client |-> "none"] /\ ops = [c \in Client |-> 0]
  /\ disturbed = [c \in Client |-> FALSE]

End(c, r) ==
  /\ pc' = [pc EXCEPT ![c] = "idle"]
  /\ result' = [result EXCEPT ![c] = r]

Goto(c, phase) == pc' = [pc EXCEPT ![c] = phase] /\ UNCHANGED result

Looks(c) == disturbed' = [disturbed EXCEPT ![c] = FALSE]

Disturbs(C) ==
  disturbed' = [d \in Client |-> disturbed[d] \/ (d \in C /\ table' # table)]

Begin(c, a) ==
  /\ pc[c] = "idle" /\ ops[c] < MaxOps
  /\ ops' = [ops EXCEPT ![c] = @ + 1]
  /\ call' = [call EXCEPT ![c] = a]
  /\ pc' = [pc EXCEPT ![c] = "plan"] /\ result' = [result EXCEPT ![c] = "none"]
  /\ UNCHANGED <<table, edits, current, desired, disturbed>>

\* The caller reads the table and builds the next one; the encoder refuses it
\* before any request, and a task that would change nothing stops here.
Plan(c) ==
  /\ pc[c] = "plan"
  /\ current' = [current EXCEPT ![c] = View(table)]
  /\ desired' = [desired EXCEPT ![c] = DesiredBy(call[c], View(table))]
  /\ Looks(c)
  /\ \/ Refused(desired'[c], current'[c]) /\ End(c, "refused")
     \/ /\ ~Refused(desired'[c], current'[c])
        /\ call[c].kind = "playbook" /\ desired'[c] = current'[c]
        /\ End(c, "unchanged")
     \/ /\ ~Refused(desired'[c], current'[c])
        /\ call[c].kind = "playbook" => desired'[c] # current'[c]
        /\ Goto(c, "read")
  /\ UNCHANGED <<table, edits, call, ops>>

SameRows(d, e) == {x.row : x \in d} = {x.row : x \in e}   \* mutant: order ignored
Same(d, e) == d = e

\* The fresh read: the baseline and the no-op test compare positions too.
Read(c) ==
  /\ pc[c] = "read"
  /\ Looks(c)
  /\ \/ ~Same(View(table), current[c]) /\ End(c, "refused")
     \/ /\ Same(View(table), current[c]) /\ Same(View(table), desired[c])
        /\ End(c, "unchanged")
     \/ /\ Same(View(table), current[c]) /\ ~Same(View(table), desired[c])
        /\ Goto(c, "post")
  /\ UNCHANGED <<table, edits, call, current, desired, ops>>

\* The switch stores the rows as sent, by VLAN ID, or not at all.
Post(c, answered) ==
  /\ pc[c] = "post"
  /\ table' \in {Encode(desired[c]), Encode(Positionless(Encode(desired[c]))), table}
  /\ Disturbs(Client \ {c})
  /\ IF answered THEN Goto(c, "verify") ELSE End(c, "failed")
  /\ UNCHANGED <<edits, call, current, desired, ops>>

Verify(c) ==
  /\ pc[c] = "verify"
  /\ Looks(c)
  /\ End(c, IF table = Encode(desired[c]) THEN "changed" ELSE "protocol")
  /\ UNCHANGED <<table, edits, call, current, desired, ops>>

RequestFails(c) ==
  /\ pc[c] # "idle"
  /\ End(c, "failed")
  /\ UNCHANGED <<table, edits, call, current, desired, ops, disturbed>>

\* Somebody moves a row, or changes one, in the web UI.
WebEdit ==
  /\ edits < MaxEdits /\ edits' = edits + 1
  /\ \/ \E i, j \in DOMAIN table : i < j /\
          table' = [table EXCEPT ![i] = table[j], ![j] = table[i]]
     \/ \E i \in DOMAIN table, k \in Setting :
          table' = [table EXCEPT ![i].set[k] = 1 - @]
  /\ Disturbs(Client)
  /\ UNCHANGED <<pc, call, current, desired, result, ops>>

Next ==
  \/ \E c \in Client :
       \/ \E a \in Call : Begin(c, a)
       \/ Plan(c) \/ Read(c) \/ Verify(c) \/ RequestFails(c)
       \/ \E answered \in BOOLEAN : Post(c, answered)
  \/ WebEdit

Spec == Init /\ [][Next]_vars
-----------------------------------------------------------------------------
(* Properties.                                                              *)

\* Every variable has its type; in particular whatever the clients write, the
\* switch's table is one that the library can still parse and fits its limit.
TypeOK ==
  /\ table \in Table
  /\ edits \in 0..MaxEdits
  /\ pc \in [Client -> {"idle", "plan", "read", "post", "verify"}]
  /\ call \in [Client -> Call]
  /\ \A c \in Client : current[c] \subseteq Vlan /\ desired[c] \subseteq Vlan
  /\ result \in [Client -> {"none", "changed", "unchanged", "refused", "protocol", "failed"}]
  /\ ops \in [Client -> 0..MaxOps]
  /\ disturbed \in [Client -> BOOLEAN]

\* What a client is about to send, and that nobody has changed the table since
\* it last looked.
Sending(c) == pc[c] = "post" /\ ~disturbed[c]

\* A success or no-op report is about the order too: until somebody else
\* changes it the table lists exactly the desired rows in the desired order, so
\* that the same playbook, run again, finds nothing to do.
ReportsStand ==
  \A c \in Client :
    result[c] \in {"changed", "unchanged"} /\ ~disturbed[c] =>
      table = Encode(desired[c])

Ascending(I) == Listed(I, <)

\* The rows of t at the positions I, in the order they have in t.
Rows(t, I) ==
  LET at == Ascending(I) IN [i \in DOMAIN at |-> t[at[i]]]

Others(t, v) == Rows(t, {i \in DOMAIN t : t[i].vid # v})

\* A write for one VLAN sends every other row as it is, in the order it has in
\* the switch, although the library only ever shows rows by VLAN ID.
UntouchedRowsKeepOrder ==
  \A c \in Client :
    Sending(c) /\ call[c].kind # "playbook" =>
      Others(Encode(desired[c]), call[c].vid) = Others(table, call[c].vid)

\* No table that is sent moves port 6 in or out of any VLAN of the switch.
PortSixStays ==
  \A c \in Client :
    Sending(c) => ~MovesSix(desired[c], View(table))

\* What the documentation says of no-ops: a vlan set that asks for what the row
\* already says sends nothing.
NothingAskedNothingSent ==
  \A c \in Client :
    Sending(c) /\ call[c].kind = "set" =>
      ToSet(Encode(desired[c])) # ToSet(table)
-----------------------------------------------------------------------------
(* Why they hold: an invariant that every step preserves.                   *)

\* A view that can be put back in order: no VLAN twice, no position twice.
Sound(d) ==
  /\ d \subseteq Vlan /\ IsFiniteSet(d)
  /\ \A x, y \in d : x.row.vid = y.row.vid => x = y
  /\ \A x, y \in d : x.pos # 0 /\ x.pos = y.pos => x = y

\* What a client is about to send is its call's doing on what its caller planned
\* from, which the encoder did not refuse, and which the switch still stores
\* unless the client was disturbed.
Planned(c) ==
  /\ Sound(desired[c])
  /\ pc[c] # "idle" => result[c] = "none"
  /\ pc[c] \in {"read", "post"} =>
       /\ ~Refused(desired[c], current[c])
       /\ desired[c] = DesiredBy(call[c], current[c])
       /\ ~disturbed[c] => current[c] = View(table)

\* The inductive invariant.
Inv ==
  /\ DOMAIN current = Client /\ DOMAIN desired = Client
  /\ TypeOK /\ ReportsStand /\ \A c \in Client : Planned(c)
=============================================================================
