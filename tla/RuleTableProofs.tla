-------------------------- MODULE RuleTableProofs --------------------------
(***************************************************************************)
(* The safety properties of RuleTable, for tables of any size, any number   *)
(* of clients and tries: what each command makes of a table, what its        *)
(* repetitions add up to, and the invariant that carries both through lost,  *)
(* late and interleaved requests.                                           *)
(***************************************************************************)
EXTENDS RuleTable, SequenceTheorems, WellFoundedInduction, TLAPS

-----------------------------------------------------------------------------
(* Numbers, and sequences of a known length.                                *)

\* A non-empty set of numbers has a least one.
LEMMA LeastNumber ==
  ASSUME NEW T \in SUBSET Nat, T # {}
  PROVE  \E m \in T : \A n \in T : m <= n
<1> DEFINE Less == OpToRel(<, Nat)
<1>1. Less = {p \in Nat \X Nat : p[1] < p[2]}
  BY Zenon DEF OpToRel
<1>2. IsWellFoundedOn(Less, Nat)
  BY NatLessThanWellFounded, Zenon
<1> HIDE DEF Less
<1>3. PICK m \in T : \A n \in T : ~(<<n, m>> \in Less)
  BY <1>2, WFMin
<1>4. \A n \in T : n \in Nat /\ m \in Nat /\ ~(n < m)
  BY <1>1, <1>3
<1> QED BY <1>4

\* A function on 1..n is a sequence.
LEMMA IsSequence ==
  ASSUME NEW S, NEW n \in Nat, NEW f \in [1..n -> S]
  PROVE  f \in Seq(S) /\ Len(f) = n
OBVIOUS

\* What a sequence with one element more is, as a function.
LEMMA AppendedIs ==
  ASSUME NEW S, NEW s \in Seq(S), NEW x \in S
  PROVE  /\ Append(s, x) \in Seq(S)
         /\ Append(s, x) = [i \in 1..(Len(s) + 1) |-> IF i <= Len(s) THEN s[i] ELSE x]
<1> DEFINE u == Append(s, x)
           v == [i \in 1..(Len(s) + 1) |-> IF i <= Len(s) THEN s[i] ELSE x]
<1>1. /\ u \in Seq(S) /\ Len(u) = Len(s) + 1
      /\ \A i \in 1..Len(s) : u[i] = s[i]
      /\ u[Len(s) + 1] = x
  BY AppendProperties
<1>2. Len(s) \in Nat
  OBVIOUS
<1> HIDE DEF u
<1>3. u = [i \in 1..(Len(s) + 1) |-> u[i]]
  BY <1>1
<1>4. \A i \in 1..(Len(s) + 1) : u[i] = IF i <= Len(s) THEN s[i] ELSE x
  BY <1>1, <1>2
<1>5. u = v
  BY <1>3, <1>4
<1> QED BY <1>1, <1>5 DEF u

-----------------------------------------------------------------------------
(* A list comprehension, walked from its first row to its last.             *)

\* f[n] is what the first n rows of t leave, of m in all.
Walk(f, t, I, m) ==
  f = [n \in 0..m |-> IF n = 0 THEN <<>>
                      ELSE IF n \in I THEN Append(f[n - 1], t[n]) ELSE f[n - 1]]

\* Every walk can be made: the least length of which it cannot is none.
LEMMA WalkExists ==
  ASSUME NEW t, NEW I, NEW n \in Nat
  PROVE  \E f : Walk(f, t, I, n)
<1> DEFINE T == {m \in Nat : ~ \E f : Walk(f, t, I, m)}
<1> SUFFICES ASSUME T # {} PROVE FALSE
  OBVIOUS
<1>1. PICK m \in T : \A k \in T : m <= k
  <2>1. T \in SUBSET Nat
    OBVIOUS
  <2> HIDE DEF T
  <2> QED BY <2>1, LeastNumber
<1>2. m # 0
  <2> DEFINE g == [i \in 0..0 |-> <<>>]
  <2>1. Walk(g, t, I, 0)
    BY DEF Walk
  <2> QED BY <2>1
<1>3. m \in Nat /\ m - 1 \in Nat /\ m - 1 \notin T
  BY <1>1, <1>2
<1>4. PICK g : Walk(g, t, I, m - 1)
  BY <1>3
<1> DEFINE h == [i \in 0..m |-> IF i < m THEN g[i]
                                ELSE IF m \in I THEN Append(g[m - 1], t[m]) ELSE g[m - 1]]
<1>5. ASSUME NEW i \in 0..m
      PROVE  h[i] = IF i = 0 THEN <<>>
                    ELSE IF i \in I THEN Append(h[i - 1], t[i]) ELSE h[i - 1]
  <2>1. CASE i = m
    <3>1. h[i - 1] = g[m - 1] /\ i # 0
      BY <1>2, <1>3, <2>1
    <3>2. h[i] = IF m \in I THEN Append(g[m - 1], t[m]) ELSE g[m - 1]
      BY <1>3, <2>1
    <3> HIDE DEF h
    <3> QED BY <2>1, <3>1, <3>2
  <2>2. CASE i # m
    <3>1. i \in 0..(m - 1) /\ h[i] = g[i]
      BY <1>3, <2>2
    <3>2. g[i] = IF i = 0 THEN <<>>
                 ELSE IF i \in I THEN Append(g[i - 1], t[i]) ELSE g[i - 1]
      BY <1>4, <3>1 DEF Walk
    <3>3. i # 0 => h[i - 1] = g[i - 1]
      BY <1>3, <3>1
    <3> HIDE DEF h
    <3> QED BY <3>1, <3>2, <3>3
  <2> QED BY <2>1, <2>2
<1>6. Walk(h, t, I, m)
  BY <1>5 DEF Walk
<1> QED BY <1>1, <1>6

\* And in one way: the first place where two walks part is none.
LEMMA WalkIsUnique ==
  ASSUME NEW t, NEW I, NEW n \in Nat, NEW f, Walk(f, t, I, n), NEW g, Walk(g, t, I, n)
  PROVE  f[n] = g[n]
<1> DEFINE T == {j \in 0..n : f[j] # g[j]}
<1> SUFFICES ASSUME T # {} PROVE FALSE
  OBVIOUS
<1>1. PICK j \in T : \A k \in T : j <= k
  <2>1. T \in SUBSET Nat
    OBVIOUS
  <2> HIDE DEF T
  <2> QED BY <2>1, LeastNumber
<1>2. /\ f[j] = IF j = 0 THEN <<>>
                ELSE IF j \in I THEN Append(f[j - 1], t[j]) ELSE f[j - 1]
      /\ g[j] = IF j = 0 THEN <<>>
                ELSE IF j \in I THEN Append(g[j - 1], t[j]) ELSE g[j - 1]
  BY <1>1 DEF Walk
<1>3. j # 0 => f[j - 1] = g[j - 1]
  BY <1>1
<1> QED BY <1>1, <1>2, <1>3

\* Whoever walks the table ends up with what is kept.
LEMMA KeptEndsWalk ==
  ASSUME NEW t, NEW I, Len(t) \in Nat, NEW f, Walk(f, t, I, Len(t))
  PROVE  Kept(t, I) = f[Len(t)]
<1> DEFINE g == CHOOSE h : Walk(h, t, I, Len(t))
<1>1. Walk(g, t, I, Len(t))
  OBVIOUS
<1>2. Kept(t, I) = g[Len(t)]
  BY DEF Kept, Walk
<1> HIDE DEF g
<1>3. g[Len(t)] = f[Len(t)]
  BY <1>1, WalkIsUnique
<1> QED BY <1>2, <1>3

\* All rows are the table.
LEMMA KeptAll ==
  ASSUME NEW S, NEW t \in Seq(S), NEW I, 1..Len(t) \subseteq I
  PROVE  Kept(t, I) = t
<1> DEFINE m == Len(t)
           f == [n \in 0..m |-> [i \in 1..n |-> t[i]]]
<1>1. m \in Nat /\ t = [i \in 1..m |-> t[i]] /\ \A i \in 1..m : t[i] \in S
  OBVIOUS
<1>2. ASSUME NEW n \in 0..m
      PROVE  f[n] = IF n = 0 THEN <<>>
                    ELSE IF n \in I THEN Append(f[n - 1], t[n]) ELSE f[n - 1]
  <2>1. CASE n = 0
    BY <2>1
  <2>2. CASE n # 0
    <3> DEFINE s == [i \in 1..(n - 1) |-> t[i]]
    <3>1. s \in Seq(S) /\ Len(s) = n - 1 /\ n \in I /\ t[n] \in S
      <4>1. s \in [1..(n - 1) -> S] /\ n - 1 \in Nat
        BY <1>1, <2>2
      <4>2. n \in I /\ t[n] \in S
        BY <1>1, <2>2
      <4> HIDE DEF s
      <4> QED BY <4>1, <4>2, IsSequence
    <3>2. \A i \in 1..(n - 1) : s[i] = t[i]
      OBVIOUS
    <3>3. f[n] = [i \in 1..n |-> t[i]] /\ f[n - 1] = s
      BY <1>1, <2>2
    <3> HIDE DEF s, f
    <3>4. Append(s, t[n]) = [i \in 1..n |-> IF i <= n - 1 THEN s[i] ELSE t[n]]
      <4>1. Append(s, t[n]) = [i \in 1..((n - 1) + 1) |->
                                 IF i <= n - 1 THEN s[i] ELSE t[n]]
        BY <3>1, AppendedIs
      <4>2. (n - 1) + 1 = n
        BY <1>1
      <4> QED BY <4>1, <4>2
    <3>5. Append(s, t[n]) = [i \in 1..n |-> t[i]]
      BY <1>1, <3>2, <3>4
    <3> QED BY <2>2, <3>1, <3>3, <3>5
  <2> QED BY <2>1, <2>2
<1>3. Walk(f, t, I, m)
  BY <1>2 DEF Walk
<1>4. f[m] = t
  BY <1>1
<1> HIDE DEF f
<1> QED BY <1>1, <1>3, <1>4, KeptEndsWalk

\* All rows but the k-th.
LEMMA KeptButOne ==
  ASSUME NEW S, NEW t \in Seq(S), NEW k \in 1..Len(t), NEW I,
         \A i \in 1..Len(t) : i \in I <=> i # k
  PROVE  Kept(t, I) = [i \in 1..(Len(t) - 1) |-> t[IF i < k THEN i ELSE i + 1]]
<1> DEFINE m == Len(t)
           u == [i \in Nat |-> t[IF i < k THEN i ELSE i + 1]]
           f == [n \in 0..m |-> [i \in 1..(IF n < k THEN n ELSE n - 1) |-> u[i]]]
<1>1. m \in Nat /\ k \in Nat /\ \A i \in 1..m : t[i] \in S
  OBVIOUS
<1>2. /\ \A i \in 1..(k - 1) : u[i] = t[i] /\ u[i] \in S
      /\ \A i \in k..(m - 1) : u[i] = t[i + 1] /\ u[i] \in S
  <2>1. ASSUME NEW i \in 1..(k - 1)
        PROVE  u[i] = t[i] /\ u[i] \in S
    <3>1. i \in Nat /\ i < k /\ i \in 1..m
      BY <1>1
    <3> QED BY <1>1, <3>1
  <2>2. ASSUME NEW i \in k..(m - 1)
        PROVE  u[i] = t[i + 1] /\ u[i] \in S
    <3>1. i \in Nat /\ ~(i < k) /\ i + 1 \in 1..m
      BY <1>1
    <3> QED BY <1>1, <3>1
  <2> QED BY <2>1, <2>2
<1> HIDE DEF u
<1>3. ASSUME NEW n \in 0..m
      PROVE  f[n] = IF n = 0 THEN <<>>
                    ELSE IF n \in I THEN Append(f[n - 1], t[n]) ELSE f[n - 1]
  <2> DEFINE Size(x) == IF x < k THEN x ELSE x - 1
  <2>1. CASE n = 0
    BY <1>1, <2>1
  <2>2. CASE n # 0 /\ n = k
    <3>1. n - 1 \in 0..m /\ n - 1 < k /\ ~(n < k) /\ n \in 1..m /\ n \notin I
      BY <1>1, <2>2
    <3>2. f[n] = [i \in 1..(n - 1) |-> u[i]] /\ f[n - 1] = [i \in 1..(n - 1) |-> u[i]]
      BY <3>1
    <3> HIDE DEF f
    <3> QED BY <2>2, <3>1, <3>2
  <2>3. CASE n # 0 /\ n # k
    <3> DEFINE p == Size(n - 1)
               s == [i \in 1..p |-> u[i]]
    <3>1. p \in Nat /\ Size(n) = p + 1 /\ n \in I /\ t[n] = u[p + 1] /\ t[n] \in S
      BY <1>1, <1>2, <2>3
    <3>2. \A i \in 1..p : u[i] \in S
      BY <1>1, <1>2, <2>3
    <3>3. f[n] = [i \in 1..Size(n) |-> u[i]] /\ f[n - 1] = s
      BY <1>1, <2>3
    <3> HIDE DEF p, f, Size
    <3>4. s \in [1..p -> S] /\ \A i \in 1..p : s[i] = u[i]
      BY <3>2
    <3> HIDE DEF s
    <3>5. s \in Seq(S) /\ Len(s) = p
      BY <3>1, <3>4, IsSequence
    <3>6. Append(s, t[n]) = [i \in 1..(p + 1) |-> IF i <= p THEN s[i] ELSE t[n]]
      BY <3>1, <3>5, AppendedIs
    <3>7. Append(s, t[n]) = [i \in 1..(p + 1) |-> u[i]]
      BY <3>1, <3>4, <3>6
    <3> QED BY <2>3, <3>1, <3>3, <3>7
  <2> QED BY <2>1, <2>2, <2>3
<1>4. Walk(f, t, I, m)
  BY <1>3 DEF Walk
<1>5. f[m] = [i \in 1..(m - 1) |-> t[IF i < k THEN i ELSE i + 1]]
  <2>1. f[m] = [i \in 1..(m - 1) |-> u[i]]
    BY <1>1
  <2>2. \A i \in 1..(m - 1) : u[i] = t[IF i < k THEN i ELSE i + 1]
    BY <1>1, <1>2
  <2> HIDE DEF f
  <2> QED BY <2>1, <2>2
<1> HIDE DEF f
<1> QED BY <1>1, <1>4, <1>5, KeptEndsWalk

\* The k-th row alone.
LEMMA KeptOne ==
  ASSUME NEW S, NEW t \in Seq(S), NEW k \in 1..Len(t), NEW I,
         \A i \in 1..Len(t) : i \in I <=> i = k
  PROVE  Kept(t, I) = <<t[k]>>
<1> DEFINE m == Len(t)
           f == [n \in 0..m |-> IF n < k THEN <<>> ELSE <<t[k]>>]
<1>1. m \in Nat /\ k \in Nat /\ k # 0 /\ t[k] \in S
  OBVIOUS
<1>2. Append(<<>>, t[k]) = <<t[k]>>
  OBVIOUS
<1>3. ASSUME NEW n \in 0..m
      PROVE  f[n] = IF n = 0 THEN <<>>
                    ELSE IF n \in I THEN Append(f[n - 1], t[n]) ELSE f[n - 1]
  <2>1. CASE n = k
    <3>1. f[n] = <<t[k]>> /\ f[n - 1] = <<>>
      BY <1>1, <2>1
    <3> HIDE DEF f
    <3> QED BY <1>1, <1>2, <2>1, <3>1
  <2>2. CASE n # k
    <3>1. n # 0 => n \notin I /\ f[n] = f[n - 1]
      BY <1>1, <2>2
    <3>2. n = 0 => f[n] = <<>>
      BY <1>1
    <3> HIDE DEF f
    <3> QED BY <3>1, <3>2
  <2> QED BY <2>1, <2>2
<1>4. Walk(f, t, I, m)
  BY <1>3 DEF Walk
<1>5. f[m] = <<t[k]>>
  BY <1>1
<1> HIDE DEF f
<1> QED BY <1>1, <1>4, <1>5, KeptEndsWalk

\* Rows chosen from a table make a table of such rows.
LEMMA KeptAreRows ==
  ASSUME NEW S, NEW t \in Seq(S), NEW I
  PROVE  /\ Kept(t, I) \in Seq(S)
         /\ \A j \in DOMAIN Kept(t, I) : \E i \in I \cap (1..Len(t)) : Kept(t, I)[j] = t[i]
<1> DEFINE m == Len(t)
           Good(s) == /\ s \in Seq(S)
                      /\ \A j \in DOMAIN s : \E i \in I \cap (1..m) : s[j] = t[i]
<1>1. m \in Nat /\ \A i \in 1..m : t[i] \in S
  OBVIOUS
<1>2. PICK f : Walk(f, t, I, m)
  BY <1>1, WalkExists
<1> DEFINE T == {n \in 0..m : ~Good(f[n])}
<1>3. T = {}
  <2> SUFFICES ASSUME T # {} PROVE FALSE
    OBVIOUS
  <2>1. PICK n \in T : \A k \in T : n <= k
    <3>1. T \in SUBSET Nat
      OBVIOUS
    <3> HIDE DEF T
    <3> QED BY <3>1, LeastNumber
  <2>2. f[n] = IF n = 0 THEN <<>>
               ELSE IF n \in I THEN Append(f[n - 1], t[n]) ELSE f[n - 1]
    BY <1>2, <2>1 DEF Walk
  <2>3. CASE n = 0
    <3>1. Good(<<>>)
      OBVIOUS
    <3> HIDE DEF Good
    <3> QED BY <2>1, <2>2, <2>3, <3>1
  <2>4. CASE n # 0
    <3>1. n - 1 \in 0..m /\ n - 1 \notin T /\ n \in 1..m
      BY <1>1, <2>1, <2>4
    <3> DEFINE s == f[n - 1]
    <3>2. Good(s)
      BY <3>1
    <3>3. CASE n \in I
      <4> DEFINE u == Append(s, t[n])
      <4> HIDE DEF s
      <4>1. /\ u \in Seq(S) /\ Len(u) = Len(s) + 1
            /\ \A i \in 1..Len(s) : u[i] = s[i]
            /\ u[Len(s) + 1] = t[n]
        BY <1>1, <3>1, <3>2, AppendProperties
      <4>2. DOMAIN u = 1..(Len(s) + 1) /\ DOMAIN s = 1..Len(s) /\ Len(s) \in Nat
        BY <3>2, <4>1
      <4> HIDE DEF u
      <4>3. \A j \in DOMAIN u : \E i \in I \cap (1..m) : u[j] = t[i]
        BY <3>1, <3>2, <3>3, <4>1, <4>2
      <4>4. Good(u)
        BY <4>1, <4>3
      <4>5. f[n] = u
        BY <2>2, <2>4, <3>3 DEF u, s
      <4> HIDE DEF Good
      <4> QED BY <2>1, <4>4, <4>5
    <3>4. CASE n \notin I
      <4>1. f[n] = s
        BY <2>2, <2>4, <3>4
      <4> HIDE DEF Good
      <4> QED BY <2>1, <3>2, <4>1
    <3> QED BY <3>3, <3>4
  <2> QED BY <2>3, <2>4
<1>4. Good(f[m])
  BY <1>1, <1>3
<1>5. Kept(t, I) = f[m]
  BY <1>1, <1>2, KeptEndsWalk
<1> QED BY <1>4, <1>5

-----------------------------------------------------------------------------
(* Tables and their views.                                                  *)

RowOf(k) == IF k = "acl" THEN Rule ELSE Host

\* A table that has a view, whether or not it fits the switch.
Listable(k, t) == t \in Seq(RowOf(k)) /\ (k = "host" => Unique(t))

\* A table is a listing of its kind within the switch's limit.
LEMMA TableIsListable ==
  ASSUME NEW k \in Kind, NEW t
  PROVE  t \in Table(k) <=> Listable(k, t) /\ Len(t) <= MaxRows
<1>1. MaxRows \in Nat
  BY RuleTableAssumption
<1>2. ASSUME NEW S
      PROVE  t \in BoundedSeq(S, MaxRows) <=> t \in Seq(S) /\ Len(t) <= MaxRows
  BY <1>1 DEF BoundedSeq, SeqOf
<1>3. CASE k = "acl"
  BY <1>2, <1>3 DEF Table, Listable, RowOf
<1>4. CASE k = "host"
  BY <1>2, <1>4 DEF Table, Listable, RowOf
<1> QED BY <1>3, <1>4 DEF Kind

\* A view says what the table says.
LEMMA EncodeOfView ==
  ASSUME NEW k \in Kind, NEW t, t \in Seq(RowOf(k))
  PROVE  Encode(k, View(k, t)) = t
BY DEF Encode, View, Kind

\* Cutting one row.
LEMMA CutRow ==
  ASSUME NEW S, NEW t \in Seq(S), NEW n \in 1..Len(t)
  PROVE  /\ RemoveAt(t, n) \in Seq(S) /\ Len(RemoveAt(t, n)) = Len(t) - 1
         /\ \A i \in 1..(Len(t) - 1) :
              RemoveAt(t, n)[i] = t[IF i < n THEN i ELSE i + 1]
         /\ Kept(t, (1..Len(t)) \ {n}) = RemoveAt(t, n)
<1> DEFINE u == RemoveAt(t, n)
<1>1. u = SubSeq(t, 1, n - 1) \o SubSeq(t, n + 1, Len(t))
  BY DEF RemoveAt
<1>2. /\ u \in Seq(S) /\ Len(u) = Len(t) - 1
      /\ \A i \in 1..(Len(t) - 1) : u[i] = t[IF i < n THEN i ELSE i + 1]
  <2> DEFINE p == SubSeq(t, 1, n - 1)
             q == SubSeq(t, n + 1, Len(t))
  <2>1. /\ p \in Seq(S) /\ Len(p) = n - 1
        /\ \A i \in 1..(n - 1) : p[i] = t[i]
    OBVIOUS
  <2>2. /\ q \in Seq(S) /\ Len(q) = Len(t) - n
        /\ \A i \in 1..(Len(t) - n) : q[i] = t[n + i]
    OBVIOUS
  <2> HIDE DEF p, q
  <2>3. /\ p \o q \in Seq(S) /\ Len(p \o q) = Len(p) + Len(q)
        /\ \A i \in 1..(Len(p) + Len(q)) :
             (p \o q)[i] = IF i <= Len(p) THEN p[i] ELSE q[i - Len(p)]
    BY <2>1, <2>2, ConcatProperties
  <2>4. ASSUME NEW i \in 1..(Len(t) - 1)
        PROVE  (p \o q)[i] = t[IF i < n THEN i ELSE i + 1]
    <3>1. CASE i < n
      BY <2>1, <2>2, <2>3, <3>1
    <3>2. CASE ~(i < n)
      <4>1. i - (n - 1) \in 1..(Len(t) - n) /\ n + (i - (n - 1)) = i + 1
        BY <3>2
      <4>2. q[i - (n - 1)] = t[i + 1]
        BY <2>2, <4>1
      <4> QED BY <2>1, <2>2, <2>3, <3>2, <4>2
    <3> QED BY <3>1, <3>2
  <2>5. p \o q \in Seq(S) /\ Len(p \o q) = Len(t) - 1
    BY <2>1, <2>2, <2>3
  <2>6. u = p \o q
    BY <1>1 DEF p, q
  <2> HIDE DEF u
  <2> QED BY <2>4, <2>5, <2>6, Zenon
<1>3. Kept(t, (1..Len(t)) \ {n})
        = [i \in 1..(Len(t) - 1) |-> t[IF i < n THEN i ELSE i + 1]]
  BY KeptButOne
<1>4. u = [i \in 1..(Len(t) - 1) |-> u[i]]
  BY <1>2
<1> HIDE DEF u
<1>5. Kept(t, (1..Len(t)) \ {n}) = u
  BY <1>2, <1>3, <1>4
<1> QED BY <1>2, <1>5 DEF u

-----------------------------------------------------------------------------
(* What each command makes of a table.                                      *)

\* The view of an ACL lists numbered rules.
LEMMA ViewIsSequence ==
  ASSUME NEW t \in Seq(Rule)
  PROVE  View("acl", t) \in Seq([number : Nat, rule : Rule]) /\ Len(View("acl", t)) = Len(t)
<1> DEFINE d == View("acl", t)
<1>1. d = [i \in 1..Len(t) |-> [number |-> i, rule |-> t[i]]] /\ Len(t) \in Nat
  BY DEF View
<1>2. \A i \in 1..Len(t) : [number |-> i, rule |-> t[i]] \in [number : Nat, rule : Rule]
  OBVIOUS
<1>3. d \in [1..Len(t) -> [number : Nat, rule : Rule]]
  BY <1>1, <1>2
<1> HIDE DEF d
<1>4. d \in Seq([number : Nat, rule : Rule]) /\ Len(d) = Len(t)
  BY <1>1, <1>3, IsSequence
<1> QED BY <1>4 DEF d

\* acl add puts the rule behind the others.
LEMMA AddRuleAppends ==
  ASSUME NEW t \in Seq(Rule), NEW r \in Rule
  PROVE  AddRule(r, View("acl", t)) = View("acl", Append(t, r))
<1> DEFINE d == View("acl", t)
           u == Append(t, r)
<1>1. d = [i \in 1..Len(t) |-> [number |-> i, rule |-> t[i]]] /\ Len(d) = Len(t)
  BY DEF View
<1>2. /\ u \in Seq(Rule) /\ Len(u) = Len(t) + 1
      /\ \A i \in 1..Len(u) : u[i] = IF i <= Len(t) THEN t[i] ELSE r
  OBVIOUS
<1>3. AddRule(r, d) = Append(d, [number |-> Len(t) + 1, rule |-> r])
  BY <1>1 DEF AddRule
<1> HIDE DEF u
<1>4. View("acl", u) = [i \in 1..Len(u) |-> [number |-> i, rule |-> u[i]]]
  BY <1>2 DEF View
<1> DEFINE v == Append(d, [number |-> Len(t) + 1, rule |-> r])
<1>5. /\ Len(v) = Len(u) /\ v = [i \in 1..Len(v) |-> v[i]]
      /\ \A i \in 1..Len(u) : v[i] = [number |-> i, rule |-> u[i]]
  <2>1. d \in Seq([number : Nat, rule : Rule])
    BY ViewIsSequence
  <2>2. [number |-> Len(t) + 1, rule |-> r] \in [number : Nat, rule : Rule]
    OBVIOUS
  <2> HIDE DEF d
  <2>3. /\ v \in Seq([number : Nat, rule : Rule]) /\ Len(v) = Len(t) + 1
        /\ \A i \in 1..Len(t) : v[i] = d[i]
        /\ v[Len(t) + 1] = [number |-> Len(t) + 1, rule |-> r]
    BY <1>1, <2>1, <2>2, AppendProperties
  <2>4. \A i \in 1..Len(t) : v[i] = [number |-> i, rule |-> u[i]]
    BY <1>1, <1>2, <2>3
  <2> QED BY <1>2, <2>3, <2>4
<1> HIDE DEF v, d
<1>6. v = View("acl", u)
  BY <1>4, <1>5
<1> QED BY <1>3, <1>6 DEF u, v, d

\* acl remove cuts the row of that number, if there is one.
LEMMA RemoveRuleCuts ==
  ASSUME NEW t \in Seq(Rule), NEW n \in Nat
  PROVE  RemoveRule(n, View("acl", t)) =
           View("acl", IF n \in 1..Len(t) THEN RemoveAt(t, n) ELSE t)
<1> DEFINE d == View("acl", t)
           I == {i \in DOMAIN d : d[i].number # n}
<1>1. d = [i \in 1..Len(t) |-> [number |-> i, rule |-> t[i]]] /\ Len(d) = Len(t)
  BY DEF View
<1>2. I = (1..Len(t)) \ {n}
  BY <1>1
<1>3. RemoveRule(n, d) =
        [i \in DOMAIN Kept(d, I) |-> [number |-> i, rule |-> Kept(d, I)[i].rule]]
  BY DEF RemoveRule
<1> HIDE DEF I
<1>4. CASE n \in 1..Len(t)
  <2> DEFINE u == RemoveAt(t, n)
  <2>1. Kept(d, I) = [i \in 1..(Len(t) - 1) |-> d[IF i < n THEN i ELSE i + 1]]
    <3>1. d \in Seq([number : Nat, rule : Rule]) /\ Len(d) = Len(t)
      BY ViewIsSequence
    <3>2. n \in 1..Len(d) /\ \A i \in 1..Len(d) : i \in I <=> i # n
      BY <1>2, <1>4, <3>1
    <3> HIDE DEF d
    <3>3. Kept(d, I) = [i \in 1..(Len(d) - 1) |-> d[IF i < n THEN i ELSE i + 1]]
      BY <3>1, <3>2, KeptButOne
    <3> QED BY <3>1, <3>3
  <2>2. /\ Len(u) = Len(t) - 1 /\ u \in Seq(Rule)
        /\ \A i \in 1..(Len(t) - 1) : u[i] = t[IF i < n THEN i ELSE i + 1]
    BY <1>4, CutRow
  <2>3. \A i \in 1..(Len(t) - 1) : Kept(d, I)[i].rule = t[IF i < n THEN i ELSE i + 1]
    BY <1>1, <1>4, <2>1
  <2>4. View("acl", u) = [i \in 1..Len(u) |-> [number |-> i, rule |-> u[i]]]
    <3> HIDE DEF u
    <3> QED BY <2>2 DEF View
  <2> DEFINE q == Kept(d, I)
  <2>5. DOMAIN q = 1..(Len(t) - 1) /\ \A i \in 1..(Len(t) - 1) : q[i].rule = u[i]
    BY <2>1, <2>2, <2>3
  <2>6. RemoveRule(n, d) = [i \in DOMAIN q |-> [number |-> i, rule |-> q[i].rule]]
    BY <1>3
  <2> HIDE DEF u, d, q
  <2>7. \A i \in DOMAIN q :
          [number |-> i, rule |-> q[i].rule] = [number |-> i, rule |-> u[i]]
    BY <2>5
  <2>8. RemoveRule(n, d) = View("acl", u)
    BY <2>2, <2>4, <2>5, <2>6, <2>7
  <2> QED BY <1>4, <2>8 DEF u, d
<1>5. CASE n \notin 1..Len(t)
  <2>1. I = 1..Len(t) /\ Len(t) \in Nat /\ d = [i \in 1..Len(t) |-> d[i]]
    BY <1>1, <1>2, <1>5
  <2> HIDE DEF d
  <2>2. Kept(d, I) = d
    <3>1. d \in Seq([number : Nat, rule : Rule])
      BY ViewIsSequence DEF d
    <3> QED BY <1>1, <2>1, <3>1, KeptAll
  <2>3. RemoveRule(n, d) = [i \in 1..Len(t) |-> [number |-> i, rule |-> t[i]]]
    BY <1>1, <1>3, <2>2
  <2> QED BY <1>1, <1>5, <2>3 DEF d
<1> QED BY <1>4, <1>5

\* host add names one row, and lets the others be; done twice, it does no more.
LEMMA AddHostSetsOne ==
  ASSUME NEW t \in Seq(Host), NEW h \in Host
  PROVE  LET u == AddHost(h, t) IN
         /\ u \in Seq(Host)
         /\ Len(u) = Len(t) => \A i \in DOMAIN t : u[i].id = t[i].id
         /\ AddHost(h, u) = u
         /\ Unique(t) => /\ Unique(u) /\ Named(u, h.id) = <<h>>
                         /\ Others(u, h.id) = Others(t, h.id)
<1> DEFINE u == AddHost(h, t)
           Rest(v) == {i \in DOMAIN v : v[i].id # h.id}
           Mark(v) == {i \in DOMAIN v : v[i].id = h.id}
<1>0. Len(t) \in Nat /\ DOMAIN t = 1..Len(t)
  OBVIOUS
<1>1. CASE \E i \in DOMAIN t : t[i].id = h.id
  <2>1. u = [i \in 1..Len(t) |-> IF t[i].id = h.id THEN h ELSE t[i]]
    BY <1>0, <1>1 DEF AddHost
  <2>2. u \in Seq(Host) /\ Len(u) = Len(t) /\ DOMAIN u = DOMAIN t
    BY <1>0, <2>1
  <2>3. /\ \A i \in DOMAIN t : u[i].id = t[i].id
        /\ \A i \in DOMAIN t : t[i].id # h.id => u[i] = t[i]
        /\ \A i \in DOMAIN t : t[i].id = h.id => u[i] = h
    BY <1>0, <2>1
  <2> HIDE DEF u
  <2>4. Rest(u) = Rest(t) /\ Mark(u) = Mark(t)
    BY <2>2, <2>3
  <2>6. AddHost(h, u) = u
    <3>1. \E i \in DOMAIN u : u[i].id = h.id
      BY <1>1, <2>2, <2>3
    <3>2. AddHost(h, u) = [i \in DOMAIN u |-> IF u[i].id = h.id THEN h ELSE u[i]]
      BY <3>1 DEF AddHost
    <3>3. u = [i \in DOMAIN u |-> u[i]]
      BY <2>2
    <3>4. \A i \in DOMAIN u : u[i].id = h.id => u[i] = h
      BY <2>2, <2>3
    <3> QED BY <3>2, <3>3, <3>4
  <2>7. ASSUME Unique(t)
        PROVE  /\ Unique(u) /\ Named(u, h.id) = <<h>>
               /\ Others(u, h.id) = Others(t, h.id)
    <3>1. Unique(u)
      BY <2>2, <2>3, <2>7 DEF Unique
    <3>2. PICK k \in DOMAIN t : t[k].id = h.id
      BY <1>1
    <3>3. Mark(u) = {k} /\ u[k] = h /\ k \in Nat
      BY <1>0, <2>3, <2>4, <2>7, <3>2 DEF Unique
    <3>4. Rest(t) = (1..Len(t)) \ {k} /\ Rest(u) = Rest(t)
      BY <1>0, <2>4, <2>7, <3>2 DEF Unique
    <3>5. /\ Named(u, h.id) = Kept(u, Mark(u))
          /\ Others(u, h.id) = Kept(u, Rest(u)) /\ Others(t, h.id) = Kept(t, Rest(t))
      BY DEF Named, Others
    <3> HIDE DEF Mark, Rest
    <3>6. Kept(u, Mark(u)) = <<h>>
      BY <1>0, <2>2, <3>2, <3>3, KeptOne
    <3>7. /\ Kept(t, Rest(t)) = [i \in 1..(Len(t) - 1) |-> t[IF i < k THEN i ELSE i + 1]]
          /\ Kept(u, Rest(u)) = [i \in 1..(Len(t) - 1) |-> u[IF i < k THEN i ELSE i + 1]]
      <4>1. /\ k \in 1..Len(t) /\ Len(u) = Len(t)
            /\ \A i \in 1..Len(t) : i \in Rest(t) <=> i # k
            /\ \A i \in 1..Len(t) : i \in Rest(u) <=> i # k
        BY <1>0, <2>2, <3>2, <3>4
      <4>2. Kept(t, Rest(t)) = [i \in 1..(Len(t) - 1) |-> t[IF i < k THEN i ELSE i + 1]]
        BY <4>1, KeptButOne
      <4>3. Kept(u, Rest(u)) = [i \in 1..(Len(u) - 1) |-> u[IF i < k THEN i ELSE i + 1]]
        BY <2>2, <4>1, KeptButOne
      <4> QED BY <4>1, <4>2, <4>3
    <3>8. \A i \in 1..(Len(t) - 1) : /\ (IF i < k THEN i ELSE i + 1) \in DOMAIN t
                                     /\ (IF i < k THEN i ELSE i + 1) # k
      BY <1>0, <3>2
    <3>9. \A i \in DOMAIN t : i # k => u[i] = t[i]
      BY <1>0, <2>3, <2>7, <3>2 DEF Unique
    <3>10. Kept(u, Rest(u)) = Kept(t, Rest(t))
      BY <3>7, <3>8, <3>9
    <3> QED BY <3>1, <3>5, <3>6, <3>10
  <2> QED BY <2>2, <2>3, <2>6, <2>7 DEF u
<1>2. CASE ~ \E i \in DOMAIN t : t[i].id = h.id
  <2>1. u = Append(t, h)
    BY <1>2 DEF AddHost
  <2> DEFINE m == Len(t) + 1
  <2>2. /\ u \in Seq(Host) /\ Len(u) = m /\ DOMAIN u = 1..m
        /\ \A i \in 1..Len(t) : u[i] = t[i]
        /\ u[m] = h
    BY <2>1, AppendProperties
  <2> HIDE DEF u
  <2>3. \A i \in 1..m : i \in 1..Len(t) \/ i = m
    BY <1>0
  <2>4. Rest(u) = Rest(t) /\ Mark(u) = {m}
    BY <1>0, <1>2, <2>2, <2>3
  <2>5. Others(u, h.id) = Others(t, h.id)
    <3>1. Rest(t) = 1..Len(t) /\ Rest(u) = (1..m) \ {m} /\ m \in 1..m
      BY <1>0, <1>2, <2>4
    <3>2. Others(u, h.id) = Kept(u, Rest(u)) /\ Others(t, h.id) = Kept(t, Rest(t))
      BY DEF Others
    <3> HIDE DEF Rest
    <3>3. Kept(t, Rest(t)) = t
      BY <3>1, KeptAll
    <3>4. Kept(u, Rest(u)) = [i \in 1..(m - 1) |-> u[IF i < m THEN i ELSE i + 1]]
      BY <2>2, <3>1, KeptButOne
    <3>5. \A i \in 1..(m - 1) : u[IF i < m THEN i ELSE i + 1] = t[i]
      BY <1>0, <2>2
    <3>6. t = [i \in 1..(m - 1) |-> t[i]]
      BY <1>0
    <3> HIDE DEF m
    <3> QED BY <3>2, <3>3, <3>4, <3>5, <3>6
  <2>6. AddHost(h, u) = u
    <3>1. \E i \in DOMAIN u : u[i].id = h.id
      BY <1>0, <2>2
    <3>2. AddHost(h, u) = [i \in DOMAIN u |-> IF u[i].id = h.id THEN h ELSE u[i]]
      BY <3>1 DEF AddHost
    <3>3. u = [i \in DOMAIN u |-> u[i]]
      BY <2>2
    <3>4. \A i \in DOMAIN u : u[i].id = h.id => u[i] = h
      BY <1>0, <1>2, <2>2, <2>3
    <3> QED BY <3>2, <3>3, <3>4
  <2>7. Unique(t) => Unique(u)
    BY <1>0, <1>2, <2>2, <2>3 DEF Unique
  <2>8. Named(u, h.id) = <<h>>
    <3>1. Named(u, h.id) = Kept(u, Mark(u))
      BY DEF Named
    <3>2. m \in 1..m
      BY <1>0
    <3> HIDE DEF Mark, m
    <3> QED BY <2>2, <2>4, <3>1, <3>2, KeptOne
  <2> QED BY <1>0, <2>2, <2>5, <2>6, <2>7, <2>8 DEF u
<1> QED BY <1>1, <1>2

\* host remove leaves none of that name; done twice, it does no more.
LEMMA RemoveHostClears ==
  ASSUME NEW t \in Seq(Host), NEW id
  PROVE  LET u == RemoveHost(id, t) IN
         /\ u \in Seq(Host)
         /\ RemoveHost(id, u) = u
<1> DEFINE u == RemoveHost(id, t)
           I == {i \in DOMAIN t : t[i].id # id}
<1>1. \A i \in I : t[i].id # id
  OBVIOUS
<1>2. u = Kept(t, I)
  BY DEF RemoveHost
<1> HIDE DEF u, I
<1>3. u \in Seq(Host) /\ \A j \in DOMAIN u : \E i \in I : u[j] = t[i]
  BY <1>2, KeptAreRows
<1>4. {j \in DOMAIN u : u[j].id # id} = 1..Len(u)
  BY <1>1, <1>3
<1>5. Kept(u, 1..Len(u)) = u
  BY <1>3, KeptAll
<1>6. RemoveHost(id, u) = u
  BY <1>4, <1>5 DEF RemoveHost
<1> QED BY <1>3, <1>6 DEF u

-----------------------------------------------------------------------------
(* Any command.                                                             *)

\* Which command is which.
LEMMA WhichCommand ==
  ASSUME NEW a \in Command, NEW d
  PROVE  /\ a.kind \in Kind
         /\ \/ /\ a \in RuleAdditions /\ a.kind = "acl" /\ a.op = "add"
               /\ a.rule \in Rule /\ DesiredBy(a, d) = AddRule(a.rule, d)
            \/ /\ a \in RuleRemovals /\ a.kind = "acl" /\ a.op = "remove"
               /\ a.number \in Nat \ {0} /\ DesiredBy(a, d) = RemoveRule(a.number, d)
            \/ /\ a \in RulePlays /\ a.kind = "acl" /\ a.op = "playbook"
               /\ a.rules \in Seq(Rule) /\ DesiredBy(a, d) = View("acl", a.rules)
            \/ /\ a \in HostAdditions /\ a.kind = "host" /\ a.op = "add"
               /\ a.host \in Host /\ DesiredBy(a, d) = AddHost(a.host, d)
            \/ /\ a \in HostRemovals /\ a.kind = "host" /\ a.op = "remove"
               /\ DesiredBy(a, d) = RemoveHost(a.id, d)
            \/ /\ a \in HostPlays /\ a.kind = "host" /\ a.op = "playbook"
               /\ a.hosts \in Seq(Host) /\ DesiredBy(a, d) = a.hosts
<1>1. \/ a \in RuleAdditions \/ a \in RuleRemovals \/ a \in RulePlays
      \/ a \in HostAdditions \/ a \in HostRemovals \/ a \in HostPlays
  BY DEF Command
<1>2. /\ a \in RuleAdditions => a.kind = "acl" /\ a.op = "add" /\ a.rule \in Rule
      /\ a \in RuleRemovals => a.kind = "acl" /\ a.op = "remove"
      /\ a \in RulePlays => a.kind = "acl" /\ a.op = "playbook"
      /\ a \in HostAdditions => a.kind = "host" /\ a.op = "add"
      /\ a \in HostRemovals => a.kind = "host" /\ a.op = "remove"
      /\ a \in HostPlays => a.kind = "host" /\ a.op = "playbook"
  BY DEF RuleAdditions, RuleRemovals, RulePlays, HostAdditions, HostRemovals, HostPlays
<1>3. /\ a \in RuleRemovals => a.number \in Nat \ {0}
      /\ a \in RulePlays => a.rules \in Seq(Rule)
      /\ a \in HostPlays => a.hosts \in Seq(Host)
  BY RuleTableAssumption DEF RuleRemovals, RulePlays, HostPlays
<1>4. a \in HostAdditions => a.host \in Host
  BY DEF HostAdditions, Host
<1>5. /\ a \in RuleAdditions => DesiredBy(a, d) = AddRule(a.rule, d)
      /\ a \in RuleRemovals => DesiredBy(a, d) = RemoveRule(a.number, d)
      /\ a \in RulePlays => DesiredBy(a, d) = View("acl", a.rules)
      /\ a \in HostAdditions => DesiredBy(a, d) = AddHost(a.host, d)
      /\ a \in HostRemovals => DesiredBy(a, d) = RemoveHost(a.id, d)
      /\ a \in HostPlays => DesiredBy(a, d) = a.hosts
  BY <1>2 DEF DesiredBy
<1>6. a.kind \in Kind
  BY <1>1, <1>2 DEF Kind
<1> QED BY <1>1, <1>2, <1>3, <1>4, <1>5, <1>6

\* What a command makes of the view of a table is the view of a table.
LEMMA CommandMakesTable ==
  ASSUME NEW a \in Command, NEW t \in Seq(RowOf(a.kind))
  PROVE  \E u \in Seq(RowOf(a.kind)) : DesiredBy(a, View(a.kind, t)) = View(a.kind, u)
<1> DEFINE d == View(a.kind, t)
<1>1. CASE a.kind = "acl"
  <2>1. t \in Seq(Rule) /\ RowOf(a.kind) = Rule
    BY <1>1 DEF RowOf
  <2>2. CASE DesiredBy(a, d) = AddRule(a.rule, d) /\ a.rule \in Rule
    <3>1. DesiredBy(a, d) = View("acl", Append(t, a.rule))
      BY <1>1, <2>1, <2>2, AddRuleAppends
    <3>2. Append(t, a.rule) \in Seq(Rule)
      BY <2>1, <2>2
    <3> QED BY <1>1, <2>1, <3>1, <3>2
  <2>3. CASE DesiredBy(a, d) = RemoveRule(a.number, d) /\ a.number \in Nat \ {0}
    <3> DEFINE u == IF a.number \in 1..Len(t) THEN RemoveAt(t, a.number) ELSE t
    <3>1. DesiredBy(a, d) = View("acl", u)
      BY <1>1, <2>1, <2>3, RemoveRuleCuts
    <3>2. u \in Seq(Rule)
      BY <2>1, CutRow
    <3> QED BY <1>1, <2>1, <3>1, <3>2
  <2>4. CASE DesiredBy(a, d) = View("acl", a.rules) /\ a.rules \in Seq(Rule)
    BY <1>1, <2>1, <2>4
  <2> QED BY <1>1, <2>2, <2>3, <2>4, WhichCommand
<1>2. CASE a.kind = "host"
  <2>1. t \in Seq(Host) /\ RowOf(a.kind) = Host /\ d = t /\ \A u : View(a.kind, u) = u
    BY <1>2 DEF RowOf, View
  <2>2. CASE DesiredBy(a, d) = AddHost(a.host, d) /\ a.host \in Host
    BY <2>1, <2>2, AddHostSetsOne
  <2>3. CASE DesiredBy(a, d) = RemoveHost(a.id, d)
    BY <2>1, <2>3, RemoveHostClears
  <2>4. CASE DesiredBy(a, d) = a.hosts /\ a.hosts \in Seq(Host)
    BY <2>1, <2>4
  <2> QED BY <1>2, <2>2, <2>3, <2>4, WhichCommand
<1> QED BY <1>1, <1>2, WhichCommand DEF Kind

\* A static host's command and a playbook do no more when done twice.
LEMMA DoneTwice ==
  ASSUME NEW a \in Command, a.kind = "host" \/ a.op = "playbook",
         NEW t \in Seq(RowOf(a.kind))
  PROVE  LET d == DesiredBy(a, View(a.kind, t)) IN DesiredBy(a, d) = d
<1> DEFINE d == DesiredBy(a, View(a.kind, t))
<1>1. CASE a.kind = "host" /\ a.op # "playbook"
  <2>1. t \in Seq(Host) /\ View(a.kind, t) = t
    BY <1>1 DEF RowOf, View
  <2>2. CASE a \in HostAdditions
    <3>1. a.host \in Host /\ \A x : DesiredBy(a, x) = AddHost(a.host, x)
      BY <1>1, <2>2, WhichCommand DEF HostRemovals, HostAdditions
    <3> QED BY <2>1, <3>1, AddHostSetsOne
  <2>3. CASE a \in HostRemovals
    <3>1. \A x : DesiredBy(a, x) = RemoveHost(a.id, x)
      BY <1>1, <2>3, WhichCommand DEF HostRemovals, HostAdditions
    <3> QED BY <2>1, <3>1, RemoveHostClears
  <2> QED BY <1>1, <2>2, <2>3, WhichCommand
<1>2. CASE a.op = "playbook"
  <2>1. a \in RulePlays \/ a \in HostPlays
    BY <1>2, WhichCommand
  <2>2. \A x, y : DesiredBy(a, x) = DesiredBy(a, y)
    <3>1. CASE a.kind = "acl"
      <4>1. \A x : DesiredBy(a, x) = View("acl", a.rules)
        BY <1>2, <3>1, WhichCommand
      <4> QED BY <4>1
    <3>2. CASE a.kind = "host"
      <4>1. \A x : DesiredBy(a, x) = a.hosts
        BY <1>2, <3>2, WhichCommand
      <4> QED BY <4>1
    <3> QED BY <3>1, <3>2, WhichCommand DEF Kind
  <2> QED BY <2>2
<1> QED BY <1>1, <1>2

-----------------------------------------------------------------------------
(* Repetitions.                                                             *)

\* g is the course of n repetitions of a command on the view d.
Course(g, a, d, n) ==
  g = [i \in 0..n |-> IF i = 0 THEN d ELSE DesiredBy(a, g[i - 1])]

\* A command can be repeated as often as one likes.
LEMMA CourseExists ==
  ASSUME NEW a, NEW d, NEW n \in Nat
  PROVE  \E g : Course(g, a, d, n)
<1> DEFINE T == {m \in Nat : ~ \E g : Course(g, a, d, m)}
<1> SUFFICES ASSUME T # {} PROVE FALSE
  OBVIOUS
<1>1. PICK m \in T : \A k \in T : m <= k
  <2>1. T \in SUBSET Nat
    OBVIOUS
  <2> HIDE DEF T
  <2> QED BY <2>1, LeastNumber
<1>2. m # 0
  <2> DEFINE g == [i \in 0..0 |-> d]
  <2>1. g = [i \in 0..0 |-> IF i = 0 THEN d ELSE DesiredBy(a, g[i - 1])]
    OBVIOUS
  <2>2. Course(g, a, d, 0)
    BY <2>1 DEF Course
  <2> QED BY <2>2
<1>3. m \in Nat /\ m - 1 \in Nat /\ m - 1 \notin T
  BY <1>1, <1>2
<1>4. PICK g : Course(g, a, d, m - 1)
  BY <1>3
<1> DEFINE h == [i \in 0..m |-> IF i = m THEN DesiredBy(a, g[m - 1]) ELSE g[i]]
<1>5. h = [i \in 0..m |-> IF i = 0 THEN d ELSE DesiredBy(a, h[i - 1])]
  <2>1. ASSUME NEW i \in 0..m
        PROVE  h[i] = IF i = 0 THEN d ELSE DesiredBy(a, h[i - 1])
    <3>1. CASE i = m
      <4>1. h[i] = DesiredBy(a, g[m - 1]) /\ h[i - 1] = g[m - 1]
        BY <1>2, <1>3, <3>1
      <4> QED BY <1>2, <3>1, <4>1
    <3>2. CASE i # m
      <4>1. i \in 0..(m - 1) /\ h[i] = g[i]
        BY <1>3, <3>2
      <4>2. g[i] = IF i = 0 THEN d ELSE DesiredBy(a, g[i - 1])
        BY <1>4, <4>1 DEF Course
      <4>3. i # 0 => h[i - 1] = g[i - 1]
        BY <1>3, <4>1
      <4> QED BY <4>1, <4>2, <4>3
    <3> QED BY <3>1, <3>2
  <2> QED BY <2>1
<1>6. Course(h, a, d, m)
  BY <1>5 DEF Course
<1> QED BY <1>1, <1>6

\* Courses agree as far as both go.
LEMMA CourseIsUnique ==
  ASSUME NEW a, NEW d, NEW m \in Nat, NEW n \in Nat, m <= n,
         NEW g, Course(g, a, d, m), NEW h, Course(h, a, d, n),
         NEW i \in 0..m
  PROVE  g[i] = h[i]
<1> DEFINE T == {j \in 0..m : g[j] # h[j]}
<1> SUFFICES ASSUME T # {} PROVE FALSE
  OBVIOUS
<1>1. PICK j \in T : \A k \in T : j <= k
  <2>1. T \in SUBSET Nat
    OBVIOUS
  <2> HIDE DEF T
  <2> QED BY <2>1, LeastNumber
<1>2. /\ g[j] = IF j = 0 THEN d ELSE DesiredBy(a, g[j - 1])
      /\ h[j] = IF j = 0 THEN d ELSE DesiredBy(a, h[j - 1])
  BY <1>1 DEF Course
<1>3. j # 0 => g[j - 1] = h[j - 1]
  BY <1>1
<1> QED BY <1>1, <1>2, <1>3

\* Repeated is what the course ends with.
LEMMA RepeatedIsCourse ==
  ASSUME NEW a, NEW t, NEW n \in Nat
  PROVE  \E g : /\ Course(g, a, View(a.kind, t), n)
               /\ Repeated(a, t, n) = Encode(a.kind, g[n])
<1> DEFINE d == View(a.kind, t)
           f == CHOOSE g : Course(g, a, d, n)
<1>1. Course(f, a, d, n)
  BY CourseExists
<1>2. Repeated(a, t, n) = Encode(a.kind, f[n])
  BY DEF Repeated, Course
<1> QED BY <1>1, <1>2
\* A course goes from view to view.
LEMMA CourseShowsTables ==
  ASSUME NEW a \in Command, NEW t \in Seq(RowOf(a.kind)), NEW n \in Nat,
         NEW g, Course(g, a, View(a.kind, t), n)
  PROVE  \A i \in 0..n : \E u \in Seq(RowOf(a.kind)) : g[i] = View(a.kind, u)
<1> DEFINE T == {j \in 0..n : ~ \E u \in Seq(RowOf(a.kind)) : g[j] = View(a.kind, u)}
<1> SUFFICES ASSUME T # {} PROVE FALSE
  OBVIOUS
<1>1. PICK j \in T : \A k \in T : j <= k
  <2>1. T \in SUBSET Nat
    OBVIOUS
  <2> HIDE DEF T
  <2> QED BY <2>1, LeastNumber
<1>2. g[j] = IF j = 0 THEN View(a.kind, t) ELSE DesiredBy(a, g[j - 1])
  BY <1>1 DEF Course
<1>3. CASE j = 0
  BY <1>1, <1>2, <1>3
<1>4. CASE j # 0
  <2>1. j - 1 \in 0..n /\ j - 1 \notin T
    BY <1>1, <1>4
  <2>2. PICK u \in Seq(RowOf(a.kind)) : g[j - 1] = View(a.kind, u)
    BY <2>1
  <2>3. \E v \in Seq(RowOf(a.kind)) : g[j] = View(a.kind, v)
    BY <1>2, <1>4, <2>2, CommandMakesTable
  <2> QED BY <1>1, <2>3
<1> QED BY <1>3, <1>4

\* No repetition, no effect.
LEMMA RepeatedZero ==
  ASSUME NEW a \in Command, NEW t \in Seq(RowOf(a.kind))
  PROVE  Repeated(a, t, 0) = t
<1>1. PICK g : /\ Course(g, a, View(a.kind, t), 0)
               /\ Repeated(a, t, 0) = Encode(a.kind, g[0])
  BY RepeatedIsCourse
<1>2. g[0] = View(a.kind, t)
  BY <1>1 DEF Course
<1> QED BY <1>1, <1>2, EncodeOfView, WhichCommand

\* One repetition more is the command's doing on what the others left.
LEMMA RepeatedNext ==
  ASSUME NEW a \in Command, NEW t \in Seq(RowOf(a.kind)), NEW n \in Nat
  PROVE  LET s == Repeated(a, t, n) IN
         /\ s \in Seq(RowOf(a.kind))
         /\ Repeated(a, t, n + 1) = Encode(a.kind, DesiredBy(a, View(a.kind, s)))
<1> DEFINE d == View(a.kind, t)
<1>1. PICK g : Course(g, a, d, n) /\ Repeated(a, t, n) = Encode(a.kind, g[n])
  BY RepeatedIsCourse
<1>2. PICK h : Course(h, a, d, n + 1) /\ Repeated(a, t, n + 1) = Encode(a.kind, h[n + 1])
  BY RepeatedIsCourse
<1>3. h[n + 1] = DesiredBy(a, h[n])
  BY <1>2 DEF Course
<1>4. g[n] = h[n]
  <2> HIDE DEF d
  <2> QED BY <1>1, <1>2, CourseIsUnique
<1>5. PICK u \in Seq(RowOf(a.kind)) : g[n] = View(a.kind, u)
  <2>1. \A i \in 0..n : \E u \in Seq(RowOf(a.kind)) : g[i] = View(a.kind, u)
    <3>1. Course(g, a, View(a.kind, t), n)
      BY <1>1
    <3> HIDE DEF d
    <3> QED BY <3>1, CourseShowsTables, SMT
  <2> QED BY <2>1
<1>6. Repeated(a, t, n) = u
  BY <1>1, <1>5, EncodeOfView, WhichCommand
<1> QED BY <1>2, <1>3, <1>4, <1>5, <1>6

\* A command that names its row, or the whole table, adds up to its first time.
LEMMA RepeatedOnce ==
  ASSUME NEW a \in Command, a.kind = "host" \/ a.op = "playbook",
         NEW t \in Seq(RowOf(a.kind)), NEW n \in Nat \ {0}
  PROVE  Repeated(a, t, n) = Repeated(a, t, 1)
<1> DEFINE T == {j \in Nat : j # 0 /\ Repeated(a, t, j) # Repeated(a, t, 1)}
<1> SUFFICES ASSUME T # {} PROVE FALSE
  OBVIOUS
<1>1. PICK j \in T : \A k \in T : j <= k
  <2>1. T \in SUBSET Nat
    OBVIOUS
  <2> HIDE DEF T
  <2> QED BY <2>1, LeastNumber
<1>2. j \in Nat /\ j # 0 /\ j # 1
  BY <1>1
<1>3. j - 1 \in Nat /\ j - 2 \in Nat /\ (j - 1) + 1 = j /\ (j - 2) + 1 = j - 1
  BY <1>2
<1>4. j - 1 \notin T
  BY <1>1, <1>3
<1> DEFINE s == Repeated(a, t, j - 2)
           d == DesiredBy(a, View(a.kind, s))
<1>5. s \in Seq(RowOf(a.kind)) /\ Repeated(a, t, j - 1) = Encode(a.kind, d)
  BY <1>3, RepeatedNext
<1>6. Repeated(a, t, j) = Encode(a.kind, DesiredBy(a, View(a.kind, Encode(a.kind, d))))
  BY <1>3, <1>5, RepeatedNext
<1> HIDE DEF s
<1>7. View(a.kind, Encode(a.kind, d)) = d
  <2>1. PICK u \in Seq(RowOf(a.kind)) : d = View(a.kind, u)
    BY <1>5, CommandMakesTable
  <2> QED BY <2>1, EncodeOfView, WhichCommand
<1>8. DesiredBy(a, d) = d
  BY <1>5, DoneTwice
<1>9. Repeated(a, t, j) = Repeated(a, t, j - 1)
  BY <1>5, <1>6, <1>7, <1>8
<1> QED BY <1>1, <1>2, <1>3, <1>4, <1>9
-----------------------------------------------------------------------------
(* The invariant, client by client.                                         *)

\* A playable command's table, once the encoder has taken it, can be stored.
LEMMA UnrefusedFits ==
  ASSUME NEW a \in Command, NEW t \in Table(a.kind),
         ~Refused(a.kind, DesiredBy(a, View(a.kind, t)))
  PROVE  LET d == DesiredBy(a, View(a.kind, t)) IN
         /\ Encode(a.kind, d) \in Table(a.kind)
         /\ View(a.kind, Encode(a.kind, d)) = d
<1> DEFINE k == a.kind
           d == DesiredBy(a, View(k, t))
<1>1. k \in Kind /\ t \in Seq(RowOf(k))
  BY WhichCommand, TableIsListable DEF Listable
<1>2. PICK u \in Seq(RowOf(k)) : d = View(k, u)
  BY <1>1, CommandMakesTable
<1>3. Encode(k, d) = u
  BY <1>1, <1>2, EncodeOfView
<1>4. Len(u) \in Nat /\ DOMAIN u = 1..Len(u)
  OBVIOUS
<1>5. Len(View(k, u)) = Len(u) /\ (k = "host" => View(k, u) = u)
  BY <1>1, <1>4 DEF View, Kind
<1> HIDE DEF d
<1>6. Len(u) <= MaxRows /\ (k = "host" => Unique(u))
  BY <1>2, <1>4, <1>5, RuleTableAssumption DEF Refused, d
<1>7. u \in Table(k)
  BY <1>1, <1>6, TableIsListable DEF Listable
<1> QED BY <1>2, <1>3, <1>7 DEF d

\* A table stays one when a row is cut in the web UI.
LEMMA CutFits ==
  ASSUME NEW k \in Kind, NEW t \in Table(k), NEW i \in DOMAIN t
  PROVE  RemoveAt(t, i) \in Table(k)
<1> DEFINE u == RemoveAt(t, i)
<1>1. t \in Seq(RowOf(k)) /\ (k = "host" => Unique(t)) /\ Len(t) <= MaxRows
  BY TableIsListable DEF Listable
<1>2. Len(t) \in Nat /\ i \in 1..Len(t)
  BY <1>1
<1>3. /\ u \in Seq(RowOf(k)) /\ Len(u) = Len(t) - 1
      /\ \A j \in 1..(Len(t) - 1) : u[j] = t[IF j < i THEN j ELSE j + 1]
  BY <1>1, <1>2, CutRow
<1> HIDE DEF u
<1>4. ASSUME Unique(t)
      PROVE  Unique(u)
  <2>1. DOMAIN u = 1..(Len(t) - 1) /\ DOMAIN t = 1..Len(t)
    BY <1>1, <1>3
  <2> SUFFICES ASSUME NEW m \in 1..(Len(t) - 1), NEW n \in 1..(Len(t) - 1),
                      u[m].id = u[n].id
               PROVE  m = n
    BY <2>1 DEF Unique
  <2> DEFINE p == IF m < i THEN m ELSE m + 1
             q == IF n < i THEN n ELSE n + 1
  <2>2. p \in 1..Len(t) /\ q \in 1..Len(t) /\ t[p].id = t[q].id
    <3>1. u[m] = t[p] /\ u[n] = t[q]
      BY <1>3
    <3>2. p \in 1..Len(t) /\ q \in 1..Len(t)
      BY <1>2
    <3> QED BY <3>1, <3>2
  <2>3. p = q
    <3> HIDE DEF p, q
    <3> QED BY <1>4, <2>1, <2>2 DEF Unique
  <2> QED BY <1>2, <2>3
<1>5. Listable(k, u) /\ Len(u) <= MaxRows
  BY <1>1, <1>2, <1>3, <1>4, RuleTableAssumption DEF Listable
<1> QED BY <1>5, TableIsListable DEF u

\* The variables' functions, their values' relations apart.
Shape ==
  /\ DOMAIN table = Kind /\ \A k \in Kind : table[k] \in Table(k)
  /\ edits \in 0..MaxEdits
  /\ pc \in [Client -> {"idle", "read", "post", "verify"}]
  /\ call \in [Client -> Command]
  /\ result \in [Client -> {"none", "changed", "unchanged", "refused", "protocol", "failed"}]
  /\ tries \in [Client -> 0..MaxTries]
  /\ alone \in [Client -> BOOLEAN] /\ disturbed \in [Client -> BOOLEAN]
  /\ DOMAIN late = Client /\ DOMAIN current = Client
  /\ DOMAIN desired = Client /\ DOMAIN first = Client

ClientOK(c) ==
  /\ late[c] \in Seq(Table(call[c].kind)) /\ Len(late[c]) <= tries[c]
  /\ tries[c] > 0 => first[c] \in Table(call[c].kind)
  /\ Planned(c) /\ AddsUp(c)

\* The invariant, client by client,
LEMMA InvByClient == Inv <=> Shape /\ \A c \in Client : ClientOK(c)
BY DEF Inv, TypeOK, Shape, ClientOK

\* and after a step.
LEMMA InvByClientNext == Inv' <=> Shape' /\ \A c \in Client : ClientOK(c)'
BY DEF Inv, TypeOK, Shape, ClientOK

\* What one knows of client c is as before.
Undone(c) ==
  /\ late'[c] = late[c] /\ pc'[c] = pc[c] /\ call'[c] = call[c]
  /\ current'[c] = current[c] /\ desired'[c] = desired[c] /\ result'[c] = result[c]
  /\ tries'[c] = tries[c] /\ first'[c] = first[c]

\* A client that a step does not touch.
LEMMA Untouched ==
  ASSUME NEW c \in Client, ClientOK(c), Undone(c),
         alone'[c] = alone[c], disturbed'[c] = disturbed[c],
         table'[call[c].kind] = table[call[c].kind]
  PROVE  ClientOK(c)'
BY DEF ClientOK, Undone, Planned, AddsUp, After, Mine

\* A client whose table somebody else may have changed.
LEMMA Bystander ==
  ASSUME Shape, NEW c \in Client, ClientOK(c), Undone(c),
         NEW k \in Kind, NEW t, NEW C, Becomes(k, t, C), c \notin C
  PROVE  ClientOK(c)'
<1> DEFINE hit == tries[c] > 0 /\ call[c].kind = k /\ t # table[k]
<1>1. /\ alone'[c] = (alone[c] /\ ~hit)
      /\ disturbed'[c] = (disturbed[c] \/ (hit /\ pc[c] \in {"read", "post"}))
      /\ table' = [table EXCEPT ![k] = t]
  BY DEF Becomes
<1>2. /\ alone[c] \in BOOLEAN /\ disturbed[c] \in BOOLEAN
      /\ DOMAIN table = Kind /\ call[c] \in Command
  BY DEF Shape
<1>3. call[c].kind \in Kind
  BY <1>2, WhichCommand
<1>4. CASE hit
  BY <1>1, <1>4 DEF ClientOK, Undone, Planned, AddsUp
<1>5. CASE ~hit /\ tries[c] > 0
  <2>1. table'[call[c].kind] = table[call[c].kind]
    BY <1>1, <1>2, <1>3, <1>5
  <2>2. alone'[c] = alone[c] /\ disturbed'[c] = disturbed[c]
    BY <1>1, <1>2, <1>5
  <2> QED BY <2>1, <2>2, Untouched
<1>6. CASE ~(tries[c] > 0)
  BY <1>6 DEF ClientOK, Undone, Planned, AddsUp
<1> QED BY <1>4, <1>5, <1>6

\* A table that another becomes: the functions keep their shape.
LEMMA BecomesShape ==
  ASSUME Shape, NEW k \in Kind, NEW t \in Table(k), NEW C, Becomes(k, t, C)
  PROVE  /\ DOMAIN table' = Kind /\ \A j \in Kind : table'[j] \in Table(j)
         /\ alone' \in [Client -> BOOLEAN] /\ disturbed' \in [Client -> BOOLEAN]
         /\ table'[k] = t
         /\ \A c \in Client : alone'[c] => alone[c]
BY DEF Becomes, Shape
-----------------------------------------------------------------------------
(* Every step keeps it.                                                     *)

\* No command has been given at the start.
LEMMA InvHoldsInitially == Init => Inv
<1> SUFFICES ASSUME Init PROVE Inv
  OBVIOUS
<1>1. (CHOOSE a \in Command : TRUE) \in Command
  BY CommandAssumption
<1>2. table \in Boot
  BY DEF Init
<1>3. Shape
  BY <1>1, <1>2, RuleTableAssumption DEF Init, Shape
<1>4. ASSUME NEW c \in Client
      PROVE  ClientOK(c)
  BY DEF Init, ClientOK, Planned, AddsUp
<1> QED BY <1>3, <1>4, InvByClient

\* Ending a try does not disturb another client's.
LEMMA EndTouchesOne ==
  ASSUME Shape, NEW c \in Client, NEW r, End(c, r)
  PROVE  /\ \A d \in Client \ {c} : /\ pc'[d] = pc[d] /\ result'[d] = result[d]
                                    /\ current'[d] = current[d]
                                    /\ desired'[d] = desired[d]
         /\ pc'[c] = "idle" /\ result'[c] = r
         /\ pc' \in [Client -> {"idle", "read", "post", "verify"}]
         /\ DOMAIN current' = Client /\ DOMAIN desired' = Client
BY DEF End, Shape

\* What the first m tries could have left, one more try adds one effect to.
LEMMA TryKeepsInv ==
  ASSUME Inv, NEW c \in Client, NEW a \in Command, Try(c, a)
  PROVE  Inv'
<1> DEFINE k == a.kind
           now == View(k, table[k])
           next == DesiredBy(a, now)
<1>1. Shape /\ \A d \in Client : ClientOK(d)
  BY InvByClient
<1>2. /\ pc[c] = "idle" /\ tries[c] < MaxTries
      /\ tries[c] # 0 => a = call[c] /\ result[c] \in {"failed", "protocol"}
      /\ tries' = [tries EXCEPT ![c] = @ + 1] /\ call' = [call EXCEPT ![c] = a]
      /\ first' = IF tries[c] = 0 THEN [first EXCEPT ![c] = table[k]] ELSE first
      /\ disturbed' = [disturbed EXCEPT ![c] = FALSE]
      /\ UNCHANGED <<table, edits, late, alone>>
  BY DEF Try, Looks
<1>3. \/ Refused(k, next) /\ End(c, "refused")
      \/ /\ ~Refused(k, next) /\ a.op = "playbook" /\ next = now
         /\ End(c, "unchanged")
      \/ /\ ~Refused(k, next) /\ (a.op = "playbook" => next # now)
         /\ pc' = [pc EXCEPT ![c] = "read"]
         /\ current' = [current EXCEPT ![c] = now]
         /\ desired' = [desired EXCEPT ![c] = next]
         /\ result' = [result EXCEPT ![c] = "none"]
  BY DEF Try
<1>4. k \in Kind /\ table[k] \in Table(k) /\ table[k] \in Seq(RowOf(k))
  BY <1>1, WhichCommand, TableIsListable DEF Shape, Listable
<1>5. /\ tries[c] \in 0..MaxTries /\ MaxTries \in Nat
      /\ ClientOK(c) /\ alone[c] \in BOOLEAN
  BY <1>1, RuleTableAssumption DEF Shape
<1>6. /\ call'[c] = a /\ tries'[c] = tries[c] + 1 /\ disturbed'[c] = FALSE
      /\ first'[c] = (IF tries[c] = 0 THEN table[k] ELSE first[c])
      /\ late'[c] = late[c] /\ alone'[c] = alone[c] /\ table'[k] = table[k]
  BY <1>1, <1>2 DEF Shape
<1>7. first'[c] \in Table(k) /\ first'[c] \in Seq(RowOf(k))
  <2>1. first'[c] \in Table(k)
    BY <1>2, <1>4, <1>5, <1>6 DEF ClientOK
  <2> QED BY <1>4, <2>1, TableIsListable DEF Listable
<1>8. late[c] \in Seq(Table(k)) /\ Len(late[c]) <= tries[c]
  <2>1. CASE tries[c] = 0
    BY <1>5, <2>1 DEF ClientOK
  <2>2. CASE tries[c] # 0
    BY <1>2, <1>5, <2>2 DEF ClientOK
  <2> QED BY <2>1, <2>2
<1> DEFINE Effects(t, n) == \E m \in 1..n : t = Repeated(a, first'[c], m)
<1>9. ASSUME alone[c]
      PROVE  /\ \E m \in 0..tries[c] : table[k] = Repeated(a, first'[c], m)
             /\ \A i \in DOMAIN late[c] : Effects(late[c][i], tries[c])
  <2>1. CASE tries[c] = 0
    <3>1. table[k] = Repeated(a, first'[c], 0)
      BY <1>4, <1>6, <2>1, RepeatedZero
    <3>2. DOMAIN late[c] = {}
      BY <1>8, <2>1
    <3> QED BY <2>1, <3>1, <3>2
  <2>2. CASE tries[c] # 0
    <3>1. a = call[c] /\ first'[c] = first[c] /\ tries[c] > 0
      BY <1>2, <1>5, <1>6, <2>2
    <3>2. AddsUp(c)
      BY <1>5 DEF ClientOK
    <3>3. /\ \/ table[k] = Repeated(a, first[c], 0)
             \/ \E m \in 1..tries[c] : table[k] = Repeated(a, first[c], m)
          /\ \A i \in DOMAIN late[c] :
               \E m \in 1..tries[c] : late[c][i] = Repeated(a, first[c], m)
      BY <1>9, <3>1, <3>2 DEF AddsUp, After, Mine
    <3> QED BY <1>5, <3>1, <3>3
  <2> QED BY <2>1, <2>2
<1>10. ASSUME alone[c], ~Refused(k, next)
       PROVE  Effects(Encode(k, next), tries[c] + 1)
  <2>1. PICK m \in 0..tries[c] : table[k] = Repeated(a, first'[c], m)
    BY <1>9, <1>10
  <2>2. m \in Nat /\ m + 1 \in 1..(tries[c] + 1)
    BY <1>5
  <2>3. Repeated(a, first'[c], m + 1) = Encode(k, next)
    BY <1>7, <2>1, <2>2, RepeatedNext
  <2> QED BY <2>2, <2>3
<1>11. ASSUME ~Refused(k, next)
       PROVE  Encode(k, next) \in Table(k) /\ View(k, Encode(k, next)) = next
  BY <1>4, <1>11, UnrefusedFits
<1>12. Encode(k, now) = table[k]
  BY <1>4, EncodeOfView
<1> HIDE DEF next, now, k
<1>13. Shape'
  <2>1. /\ call' \in [Client -> Command] /\ tries' \in [Client -> 0..MaxTries]
        /\ disturbed' \in [Client -> BOOLEAN] /\ DOMAIN first' = Client
    BY <1>1, <1>2, <1>5 DEF Shape
  <2>2. /\ pc' \in [Client -> {"idle", "read", "post", "verify"}]
        /\ result' \in [Client -> {"none", "changed", "unchanged", "refused",
                                   "protocol", "failed"}]
        /\ DOMAIN current' = Client /\ DOMAIN desired' = Client
    BY <1>1, <1>3 DEF Shape, End
  <2> QED BY <1>1, <1>2, <2>1, <2>2 DEF Shape
<1>14. ASSUME NEW d \in Client, d # c
       PROVE  ClientOK(d)'
  <2>1. /\ pc'[d] = pc[d] /\ result'[d] = result[d]
        /\ current'[d] = current[d] /\ desired'[d] = desired[d]
    BY <1>1, <1>3, <1>14 DEF Shape, End
  <2>2. Undone(d) /\ alone'[d] = alone[d] /\ disturbed'[d] = disturbed[d]
    BY <1>1, <1>2, <1>14, <2>1 DEF Shape, Undone
  <2>3. table'[call[d].kind] = table[call[d].kind]
    BY <1>2
  <2> QED BY <1>1, <2>2, <2>3, Untouched
<1>15. ClientOK(c)'
  <2>1. /\ late'[c] \in Seq(Table(call'[c].kind)) /\ Len(late'[c]) < tries'[c]
        /\ first'[c] \in Table(call'[c].kind)
    BY <1>5, <1>6, <1>7, <1>8 DEF k
  <2>2. CASE Refused(k, next) /\ End(c, "refused")
    <3>1. pc'[c] = "idle" /\ result'[c] = "refused"
      BY <1>1, <2>2, EndTouchesOne
    <3>2. Planned(c)'
      BY <1>5, <1>6, <3>1 DEF Planned
    <3>3. AddsUp(c)'
      BY <1>5, <1>6, <1>9, <3>1 DEF AddsUp, After, Mine, k
    <3> QED BY <1>5, <1>6, <2>1, <3>2, <3>3 DEF ClientOK
  <2>3. CASE ~Refused(k, next) /\ next = now /\ End(c, "unchanged")
    <3>1. pc'[c] = "idle" /\ result'[c] = "unchanged"
      BY <1>1, <2>3, EndTouchesOne
    <3>2. Planned(c)'
      BY <1>5, <1>6, <3>1 DEF Planned
    <3>3. alone[c] => Effects(table[k], tries[c] + 1)
      BY <1>10, <1>12, <2>3
    <3>4. AddsUp(c)'
      BY <1>5, <1>6, <1>9, <3>1, <3>3 DEF AddsUp, After, Mine, k
    <3> QED BY <1>5, <1>6, <2>1, <3>2, <3>4 DEF ClientOK
  <2>4. CASE /\ ~Refused(k, next)
             /\ pc' = [pc EXCEPT ![c] = "read"]
             /\ current' = [current EXCEPT ![c] = now]
             /\ desired' = [desired EXCEPT ![c] = next]
             /\ result' = [result EXCEPT ![c] = "none"]
    <3>1. /\ pc'[c] = "read" /\ result'[c] = "none"
          /\ current'[c] = now /\ desired'[c] = next
      BY <1>1, <2>4 DEF Shape
    <3>2. Planned(c)'
      <4>1. next = DesiredBy(a, now) /\ now = View(k, table[k])
        BY DEF next, now
      <4> QED BY <1>5, <1>6, <1>11, <2>1, <2>4, <3>1, <4>1 DEF Planned, Mine, k
    <3>3. AddsUp(c)'
      BY <1>5, <1>6, <1>9, <1>10, <2>4, <3>1 DEF AddsUp, After, Mine, k
    <3> QED BY <1>5, <1>6, <2>1, <3>2, <3>3 DEF ClientOK
  <2> QED BY <1>3, <2>2, <2>3, <2>4
<1> QED BY <1>13, <1>14, <1>15, InvByClientNext
\* A try that ends without an effect on the table, perhaps with its request
\* under way.
LEMMA EndKeepsInv ==
  ASSUME Inv, NEW c \in Client, pc[c] # "idle",
         NEW r \in {"changed", "unchanged", "refused", "protocol", "failed"}, End(c, r),
         r \in {"changed", "unchanged"} => View(call[c].kind, Mine(c)) = desired[c],
         UNCHANGED <<table, edits, call, tries, first, alone>>,
         disturbed' \in [Client -> BOOLEAN],
         \A d \in Client \ {c} : disturbed'[d] = disturbed[d],
         \/ late' = late
         \/ /\ pc[c] = "post"
            /\ late' = [late EXCEPT ![c] = Append(@, Encode(call[c].kind, desired[c]))]
  PROVE  Inv'
<1> DEFINE k == call[c].kind
           e == Encode(k, desired[c])
           Effects(t) == \E n \in 1..tries[c] : t = After(c, n)
<1>1. Shape /\ \A d \in Client : ClientOK(d)
  BY InvByClient
<1>2. /\ \A d \in Client \ {c} : /\ pc'[d] = pc[d] /\ result'[d] = result[d]
                                 /\ current'[d] = current[d]
                                 /\ desired'[d] = desired[d]
      /\ pc'[c] = "idle" /\ result'[c] = r
      /\ pc' \in [Client -> {"idle", "read", "post", "verify"}]
      /\ DOMAIN current' = Client /\ DOMAIN desired' = Client
  BY <1>1, EndTouchesOne
<1>3. Shape'
  <2>1. result' \in [Client -> {"none", "changed", "unchanged", "refused",
                                "protocol", "failed"}]
    BY <1>1 DEF Shape, End
  <2>2. DOMAIN late' = Client
    BY <1>1 DEF Shape
  <2> QED BY <1>1, <1>2, <2>1, <2>2 DEF Shape
<1>4. ASSUME NEW d \in Client, d # c
      PROVE  ClientOK(d)'
  <2>1. late'[d] = late[d]
    BY <1>1, <1>4 DEF Shape
  <2>2. Undone(d) /\ alone'[d] = alone[d] /\ disturbed'[d] = disturbed[d]
    BY <1>2, <1>4, <2>1 DEF Undone
  <2> QED BY <1>1, <2>2, Untouched
<1>5. k \in Kind /\ Mine(c) \in Seq(RowOf(k)) /\ tries[c] \in Nat
  <2>1. call[c] \in Command
    BY <1>1 DEF Shape
  <2>2. k \in Kind
    BY <2>1, WhichCommand
  <2>3. Mine(c) \in Table(k)
    BY <1>1, <2>2 DEF Shape, Mine
  <2>4. tries[c] \in Nat
    BY <1>1, RuleTableAssumption DEF Shape
  <2> QED BY <2>2, <2>3, <2>4, TableIsListable DEF Listable
<1>6. /\ Planned(c) /\ AddsUp(c) /\ tries[c] > 0
      /\ late[c] \in Seq(Table(k)) /\ Len(late[c]) <= tries[c]
      /\ first[c] \in Table(k)
      /\ e \in Table(k)
  BY <1>1 DEF ClientOK, Planned
<1>7. /\ late'[c] \in Seq(Table(k)) /\ Len(late'[c]) <= tries[c]
      /\ \A i \in DOMAIN late'[c] :
           late'[c][i] = e \/ \E j \in DOMAIN late[c] : late'[c][i] = late[c][j]
  <2>1. CASE late' = late
    BY <1>6, <2>1
  <2>2. CASE pc[c] = "post" /\ late' = [late EXCEPT ![c] = Append(@, e)]
    <3>1. late'[c] = Append(late[c], e)
      BY <1>1, <2>2 DEF Shape
    <3>2. Len(late[c]) < tries[c] /\ Len(late[c]) \in Nat
      BY <1>6, <2>2 DEF Planned
    <3> HIDE DEF e
    <3>3. /\ late'[c] \in Seq(Table(k)) /\ Len(late'[c]) = Len(late[c]) + 1
          /\ \A i \in 1..Len(late[c]) : late'[c][i] = late[c][i]
          /\ late'[c][Len(late[c]) + 1] = e
      BY <1>6, <3>1, AppendProperties
    <3>4. DOMAIN late'[c] = 1..(Len(late[c]) + 1) /\ DOMAIN late[c] = 1..Len(late[c])
      BY <1>6, <3>3
    <3> QED BY <1>5, <3>2, <3>3, <3>4
  <2> QED BY <2>1, <2>2
<1>8. ASSUME alone[c]
      PROVE  /\ Effects(e)
             /\ \A i \in DOMAIN late'[c] : Effects(late'[c][i])
             /\ r \in {"changed", "unchanged"} => Effects(Mine(c))
             /\ Mine(c) = After(c, 0) \/ Effects(Mine(c))
  <2>1. /\ Effects(e) /\ \A i \in DOMAIN late[c] : Effects(late[c][i])
        /\ Mine(c) = After(c, 0) \/ Effects(Mine(c))
    BY <1>6, <1>8 DEF AddsUp
  <2>2. r \in {"changed", "unchanged"} => Mine(c) = e
    BY <1>5, EncodeOfView
  <2> HIDE DEF Effects, e
  <2> QED BY <1>7, <2>1, <2>2
<1>9. AddsUp(c)'
  <2>1. /\ tries'[c] = tries[c] /\ Mine(c)' = Mine(c) /\ alone'[c] = alone[c]
        /\ \A n : After(c, n)' = After(c, n)
    BY DEF Mine, After
  <2> QED BY <1>2, <1>8, <2>1 DEF AddsUp
<1>10. ClientOK(c)'
  <2>1. Planned(c)'
    BY <1>2, <1>6 DEF Planned
  <2> QED BY <1>6, <1>7, <1>9, <2>1 DEF ClientOK
<1> QED BY <1>3, <1>4, <1>10, InvByClientNext

\* The fresh read.
LEMMA ReadKeepsInv ==
  ASSUME Inv, NEW c \in Client, Read(c)
  PROVE  Inv'
<1> DEFINE now == View(call[c].kind, Mine(c))
<1>1. Shape /\ \A d \in Client : ClientOK(d)
  BY InvByClient
<1>2. /\ pc[c] = "read" /\ disturbed' = [disturbed EXCEPT ![c] = FALSE]
      /\ UNCHANGED <<table, edits, late, call, tries, first, alone>>
  BY DEF Read, Looks
<1>3. /\ disturbed' \in [Client -> BOOLEAN]
      /\ \A d \in Client \ {c} : disturbed'[d] = disturbed[d]
      /\ disturbed'[c] = FALSE
  BY <1>1, <1>2 DEF Shape
<1>4. CASE End(c, "refused")
  BY <1>2, <1>3, <1>4, EndKeepsInv
<1>5. CASE now = desired[c] /\ End(c, "unchanged")
  BY <1>2, <1>3, <1>5, EndKeepsInv
<1>6. CASE now = current[c] /\ now # desired[c] /\ Goto(c, "post")
  <2>1. /\ pc' = [pc EXCEPT ![c] = "post"] /\ UNCHANGED <<result, current, desired>>
    BY <1>6 DEF Goto
  <2>2. Shape'
    BY <1>1, <1>2, <1>3, <2>1 DEF Shape
  <2>3. ASSUME NEW d \in Client, d # c
        PROVE  ClientOK(d)'
    <3>1. pc'[d] = pc[d]
      BY <1>1, <2>1, <2>3 DEF Shape
    <3> QED BY <1>1, <1>2, <1>3, <2>1, <2>3, <3>1, Untouched DEF Undone
  <2>4. ClientOK(c)'
    <3>1. pc'[c] = "post"
      BY <1>1, <2>1 DEF Shape
    <3>2. Planned(c) /\ AddsUp(c)
      BY <1>1 DEF ClientOK
    <3>3. now' = now /\ now = View(call[c].kind, Mine(c))
      BY <1>2 DEF Mine
    <3> HIDE DEF now
    <3>4. Planned(c)'
      BY <1>2, <1>3, <1>6, <2>1, <3>1, <3>2, <3>3 DEF Planned, Mine
    <3>5. AddsUp(c)'
      BY <1>2, <2>1, <3>1, <3>2 DEF AddsUp, Mine, After
    <3> QED BY <1>1, <1>2, <3>4, <3>5 DEF ClientOK
  <2> QED BY <2>2, <2>3, <2>4, InvByClientNext
<1> QED BY <1>4, <1>5, <1>6 DEF Read, Stale

\* The request, when the switch has dealt with it.
LEMMA PostKeepsInv ==
  ASSUME Inv, NEW c \in Client, NEW answered \in BOOLEAN, Post(c, answered)
  PROVE  Inv'
<1> DEFINE k == call[c].kind
           e == Encode(k, desired[c])
           Effects(t) == \E n \in 1..tries[c] : t = After(c, n)
<1>1. Shape /\ \A d \in Client : ClientOK(d)
  BY InvByClient
<1>2. pc[c] = "post" /\ UNCHANGED <<edits, late, call, tries, first>>
  BY DEF Post
<1>3. PICK t \in {e, table[k]} : Becomes(k, t, {c})
  BY DEF Post
<1>4. \/ /\ pc' = [pc EXCEPT ![c] = "verify"]
         /\ UNCHANGED <<result, current, desired>>
      \/ End(c, "failed")
  BY DEF Post, Goto
<1>5. /\ \A d \in Client \ {c} : /\ pc'[d] = pc[d] /\ result'[d] = result[d]
                                 /\ current'[d] = current[d]
                                 /\ desired'[d] = desired[d]
      /\ pc' \in [Client -> {"idle", "read", "post", "verify"}]
      /\ result' \in [Client -> {"none", "changed", "unchanged", "refused",
                                 "protocol", "failed"}]
      /\ DOMAIN current' = Client /\ DOMAIN desired' = Client
      /\ \/ pc'[c] = "verify" /\ result'[c] = result[c] /\ desired'[c] = desired[c]
         \/ pc'[c] = "idle" /\ result'[c] = "failed"
  <2>1. CASE End(c, "failed")
    <3>1. result' \in [Client -> {"none", "changed", "unchanged", "refused",
                                  "protocol", "failed"}]
      BY <1>1, <2>1 DEF Shape, End
    <3> QED BY <1>1, <2>1, <3>1, EndTouchesOne
  <2>2. CASE pc' = [pc EXCEPT ![c] = "verify"] /\ UNCHANGED <<result, current, desired>>
    BY <1>1, <2>2 DEF Shape
  <2> QED BY <1>4, <2>1, <2>2
<1>6. k \in Kind /\ table[k] \in Table(k) /\ tries[c] \in Nat
  <2>1. call[c] \in Command
    BY <1>1 DEF Shape
  <2>2. k \in Kind
    BY <2>1, WhichCommand
  <2> QED BY <1>1, <2>2, RuleTableAssumption DEF Shape
<1>7. /\ Planned(c) /\ AddsUp(c) /\ tries[c] > 0 /\ first[c] \in Table(k)
      /\ e \in Table(k) /\ View(k, e) = desired[c]
      /\ late[c] \in Seq(Table(k)) /\ Len(late[c]) <= tries[c]
  BY <1>1, <1>2 DEF ClientOK, Planned
<1>8. t \in Table(k)
  BY <1>3, <1>6, <1>7
<1>9. /\ DOMAIN table' = Kind /\ \A j \in Kind : table'[j] \in Table(j)
      /\ alone' \in [Client -> BOOLEAN] /\ disturbed' \in [Client -> BOOLEAN]
      /\ table'[k] = t /\ \A d \in Client : alone'[d] => alone[d]
  BY <1>1, <1>3, <1>6, <1>8, BecomesShape
<1>10. Shape'
  BY <1>1, <1>2, <1>5, <1>9 DEF Shape
<1>11. ASSUME NEW d \in Client, d # c
       PROVE  ClientOK(d)'
  <2>1. Undone(d)
    BY <1>2, <1>5, <1>11 DEF Undone
  <2> QED BY <1>1, <1>3, <1>6, <1>11, <2>1, Bystander
<1>12. ClientOK(c)'
  <2>1. Planned(c)'
    BY <1>2, <1>5, <1>7 DEF Planned
  <2>2. ASSUME alone[c]
        PROVE  /\ Effects(e) /\ \A i \in DOMAIN late[c] : Effects(late[c][i])
               /\ t = After(c, 0) \/ Effects(t)
               /\ result[c] \in {"changed", "unchanged"} => Effects(t)
    <3>1. /\ Effects(e) /\ \A i \in DOMAIN late[c] : Effects(late[c][i])
          /\ table[k] = After(c, 0) \/ Effects(table[k])
          /\ result[c] \in {"changed", "unchanged"} => Effects(table[k])
      BY <1>2, <1>7, <2>2 DEF AddsUp, Mine
    <3> HIDE DEF Effects, e
    <3> QED BY <1>3, <3>1
  <2>3. AddsUp(c)'
    <3>1. /\ tries'[c] = tries[c] /\ Mine(c)' = t /\ late'[c] = late[c]
          /\ call'[c] = call[c] /\ alone'[c] => alone[c]
          /\ \A n : After(c, n)' = After(c, n)
      BY <1>2, <1>9 DEF Mine, After
    <3>2. ASSUME alone[c]
          PROVE  /\ t = After(c, 0) \/ Effects(t)
                 /\ pc'[c] # "idle" => Effects(Encode(k, desired'[c]))
                 /\ \A j \in DOMAIN late[c] : Effects(late[c][j])
                 /\ result'[c] \in {"changed", "unchanged"} => Effects(t)
      <4> HIDE DEF Effects
      <4> QED BY <1>5, <2>2, <3>2
    <3> QED BY <1>2, <3>1, <3>2 DEF AddsUp
  <2> QED BY <1>2, <1>7, <2>1, <2>3 DEF ClientOK
<1> QED BY <1>10, <1>11, <1>12, InvByClientNext

\* A request that lands late.
LEMMA LandKeepsInv ==
  ASSUME Inv, NEW c \in Client, NEW i \in DOMAIN late[c], Land(c, i)
  PROVE  Inv'
<1> DEFINE k == call[c].kind
           t == late[c][i]
           Effects(x) == \E n \in 1..tries[c] : x = After(c, n)
<1>1. Shape /\ \A d \in Client : ClientOK(d)
  BY InvByClient
<1>2. /\ Becomes(k, t, {c}) /\ late' = [late EXCEPT ![c] = RemoveAt(@, i)]
      /\ UNCHANGED <<edits, pc, call, current, desired, result, tries, first>>
  BY DEF Land
<1>3. call[c] \in Command /\ k \in Kind /\ tries[c] \in Nat
  <2>1. call[c] \in Command
    BY <1>1 DEF Shape
  <2>2. tries[c] \in Nat
    BY <1>1, RuleTableAssumption DEF Shape
  <2> QED BY <2>1, <2>2, WhichCommand
<1>4. /\ Planned(c) /\ AddsUp(c)
      /\ late[c] \in Seq(Table(k)) /\ Len(late[c]) <= tries[c]
      /\ tries[c] > 0 => first[c] \in Table(k)
  BY <1>1 DEF ClientOK
<1>5. i \in 1..Len(late[c]) /\ Len(late[c]) \in Nat /\ t \in Table(k)
  BY <1>4
<1>6. /\ late'[c] \in Seq(Table(k)) /\ Len(late'[c]) = Len(late[c]) - 1
      /\ \A j \in DOMAIN late'[c] : \E m \in DOMAIN late[c] : late'[c][j] = late[c][m]
      /\ DOMAIN late' = Client /\ \A d \in Client \ {c} : late'[d] = late[d]
  <2>1. /\ late'[c] = RemoveAt(late[c], i)
        /\ DOMAIN late' = Client /\ \A d \in Client \ {c} : late'[d] = late[d]
    BY <1>1, <1>2 DEF Shape
  <2>2. /\ late'[c] \in Seq(Table(k)) /\ Len(late'[c]) = Len(late[c]) - 1
        /\ \A j \in 1..(Len(late[c]) - 1) :
             late'[c][j] = late[c][IF j < i THEN j ELSE j + 1]
    BY <1>4, <1>5, <2>1, CutRow
  <2>3. DOMAIN late'[c] = 1..(Len(late[c]) - 1) /\ DOMAIN late[c] = 1..Len(late[c])
    BY <1>4, <2>2
  <2>4. \A j \in 1..(Len(late[c]) - 1) :
          (IF j < i THEN j ELSE j + 1) \in 1..Len(late[c])
    BY <1>5
  <2> QED BY <2>1, <2>2, <2>3, <2>4
<1> HIDE DEF t
<1>7. /\ DOMAIN table' = Kind /\ \A j \in Kind : table'[j] \in Table(j)
      /\ alone' \in [Client -> BOOLEAN] /\ disturbed' \in [Client -> BOOLEAN]
      /\ table'[k] = t /\ \A d \in Client : alone'[d] => alone[d]
  BY <1>1, <1>2, <1>3, <1>5, BecomesShape
<1>8. Shape'
  BY <1>1, <1>2, <1>6, <1>7 DEF Shape
<1>9. ASSUME NEW d \in Client, d # c
      PROVE  ClientOK(d)'
  <2>1. Undone(d)
    BY <1>2, <1>6, <1>9 DEF Undone
  <2> QED BY <1>1, <1>2, <1>3, <1>9, <2>1, Bystander
<1>10. ClientOK(c)'
  <2>1. Planned(c)'
    <3>1. /\ ~disturbed'[c] => ~disturbed[c]
          /\ pc[c] \in {"read", "post"} /\ ~disturbed'[c] => Mine(c)' = Mine(c)
      <4>1. disturbed'[c] = (disturbed[c] \/ (/\ tries[c] > 0 /\ t # table[k]
                                              /\ pc[c] \in {"read", "post"}))
        BY <1>2 DEF Becomes
      <4>2. Mine(c)' = t /\ Mine(c) = table[k]
        BY <1>2, <1>7 DEF Mine
      <4>3. pc[c] \in {"read", "post"} => tries[c] > 0
        BY <1>4 DEF Planned
      <4> QED BY <4>1, <4>2, <4>3
    <3>2. Len(late[c]) < tries[c] => Len(late'[c]) < tries[c]
      BY <1>3, <1>5, <1>6
    <3> QED BY <1>2, <1>4, <3>1, <3>2 DEF Planned
  <2>2. AddsUp(c)'
    <3>1. /\ tries'[c] = tries[c] /\ Mine(c)' = t
          /\ call'[c] = call[c] /\ alone'[c] => alone[c]
          /\ \A n : After(c, n)' = After(c, n)
      BY <1>2, <1>7 DEF Mine, After
    <3>2. ASSUME alone[c], tries[c] > 0
          PROVE  /\ Effects(t)
                 /\ pc[c] # "idle" => Effects(Encode(k, desired[c]))
                 /\ \A j \in DOMAIN late'[c] : Effects(late'[c][j])
      <4>1. /\ pc[c] # "idle" => Effects(Encode(k, desired[c]))
            /\ \A j \in DOMAIN late[c] : Effects(late[c][j])
        BY <1>4, <3>2 DEF AddsUp
      <4> HIDE DEF Effects
      <4>2. Effects(t)
        BY <4>1 DEF t
      <4> QED BY <1>6, <4>1, <4>2
    <3> QED BY <1>2, <3>1, <3>2 DEF AddsUp
  <2>3. Len(late'[c]) <= tries[c]
    BY <1>3, <1>4, <1>5, <1>6
  <2> QED BY <1>2, <1>4, <1>6, <2>1, <2>2, <2>3 DEF ClientOK
<1> QED BY <1>8, <1>9, <1>10, InvByClientNext
\* An edit in the web UI.
LEMMA WebEditKeepsInv ==
  ASSUME Inv, NEW k \in Kind, WebEdit(k)
  PROVE  Inv'
<1>1. Shape /\ \A d \in Client : ClientOK(d)
  BY InvByClient
<1>2. /\ edits < MaxEdits /\ edits' = edits + 1
      /\ UNCHANGED <<late, pc, call, current, desired, result, tries, first>>
  BY DEF WebEdit
<1>3. PICK t \in Table(k) : Becomes(k, t, {})
  <2>1. CASE \E i \in DOMAIN table[k] : Becomes(k, RemoveAt(table[k], i), {})
    <3>1. table[k] \in Table(k)
      BY <1>1 DEF Shape
    <3> QED BY <2>1, <3>1, CutFits
  <2>2. CASE \E r \in IF k = "acl" THEN Rule ELSE Host :
               /\ Append(table[k], r) \in Table(k)
               /\ Becomes(k, Append(table[k], r), {})
    BY <2>2
  <2> QED BY <2>1, <2>2 DEF WebEdit
<1>4. edits' \in 0..MaxEdits
  BY <1>1, <1>2, RuleTableAssumption DEF Shape
<1>5. Shape'
  BY <1>1, <1>2, <1>3, <1>4, BecomesShape DEF Shape
<1>6. ASSUME NEW d \in Client
      PROVE  ClientOK(d)'
  BY <1>1, <1>2, <1>3, Bystander DEF Undone
<1> QED BY <1>5, <1>6, InvByClientNext

\* Whatever happens, the invariant holds.
THEOREM InvCorrect == Spec => []Inv
<1>1. Inv /\ [Next]_vars => Inv'
  <2> SUFFICES ASSUME Inv, [Next]_vars PROVE Inv'
    OBVIOUS
  <2>1. ASSUME NEW c \in Client, NEW a \in Command, Try(c, a)
        PROVE  Inv'
    BY <2>1, TryKeepsInv
  <2>2. ASSUME NEW c \in Client, Read(c)
        PROVE  Inv'
    BY <2>2, ReadKeepsInv
  <2>3. ASSUME NEW c \in Client, Verify(c)
        PROVE  Inv'
    <3>1. /\ pc[c] = "verify" /\ disturbed' = [disturbed EXCEPT ![c] = FALSE]
          /\ End(c, IF ReadsBack(c) THEN "changed" ELSE "protocol")
          /\ UNCHANGED <<table, edits, late, call, tries, first, alone>>
      BY <2>3 DEF Verify, Looks
    <3>2. /\ disturbed' \in [Client -> BOOLEAN]
          /\ \A d \in Client \ {c} : disturbed'[d] = disturbed[d]
      BY <3>1, InvByClient DEF Shape
    <3>3. CASE ReadsBack(c)
      <4>1. End(c, "changed") /\ View(call[c].kind, Mine(c)) = desired[c]
        BY <3>1, <3>3 DEF ReadsBack
      <4> QED BY <3>1, <3>2, <4>1, EndKeepsInv
    <3>4. CASE ~ReadsBack(c)
      <4>1. End(c, "protocol")
        BY <3>1, <3>4
      <4> QED BY <3>1, <3>2, <4>1, EndKeepsInv
    <3> QED BY <3>3, <3>4
  <2>4. ASSUME NEW c \in Client, RequestFails(c)
        PROVE  Inv'
    <3>1. disturbed' \in [Client -> BOOLEAN] /\ disturbed' = disturbed
      BY <2>4, InvByClient DEF Shape, RequestFails
    <3> QED BY <2>4, <3>1, EndKeepsInv DEF RequestFails
  <2>5. ASSUME NEW c \in Client, NEW answered \in BOOLEAN, Post(c, answered)
        PROVE  Inv'
    BY <2>5, PostKeepsInv
  <2>6. ASSUME NEW c \in Client, PostLate(c)
        PROVE  Inv'
    <3>1. disturbed' \in [Client -> BOOLEAN] /\ disturbed' = disturbed
      BY <2>6, InvByClient DEF Shape, PostLate
    <3> QED BY <2>6, <3>1, EndKeepsInv DEF PostLate
  <2>7. ASSUME NEW c \in Client, NEW i \in DOMAIN late[c], Land(c, i)
        PROVE  Inv'
    BY <2>7, LandKeepsInv
  <2>8. ASSUME NEW k \in Kind, WebEdit(k)
        PROVE  Inv'
    BY <2>8, WebEditKeepsInv
  <2>9. CASE UNCHANGED vars
    BY <2>9 DEF vars, Inv, TypeOK, Planned, AddsUp, After, Mine
  <2> QED BY <2>1, <2>2, <2>3, <2>4, <2>5, <2>6, <2>7, <2>8, <2>9 DEF Next
<1> QED BY InvHoldsInitially, <1>1, PTL DEF Spec

-----------------------------------------------------------------------------
(* What follows.                                                            *)

\* Both tables can be parsed and fit their limits at any time, whatever is sent
\* and however late it lands.
THEOREM TypeCorrect == Spec => []TypeOK
<1>1. Inv => TypeOK
  BY DEF Inv
<1> QED BY <1>1, InvCorrect, PTL

\* A table about to be sent differs in the one row that its command is about.
THEOREM OneRowChangesCorrect == Spec => []OneRowChanges
<1>1. Inv => OneRowChanges
  <2> SUFFICES ASSUME Inv, NEW c \in Client, Sending(c)
               PROVE  LET a == call[c]
                          new == Encode(a.kind, desired[c])
                          old == Mine(c)
                      IN
                      /\ a.kind = "acl" /\ a.op = "remove" => new = RemoveAt(old, a.number)
                      /\ a.kind = "acl" /\ a.op = "add" => new = Append(old, a.rule)
                      /\ a.kind = "host" /\ a.op = "add" =>
                           /\ Others(new, a.host.id) = Others(old, a.host.id)
                           /\ Named(new, a.host.id) = <<a.host>>
                           /\ Len(new) = Len(old) => \A i \in DOMAIN old :
                                new[i].id = old[i].id
                      /\ a.kind = "host" /\ a.op = "remove" => new = Others(old, a.id)
    BY DEF OneRowChanges
  <2> DEFINE a == call[c]
             old == Mine(c)
             new == Encode(a.kind, desired[c])
  <2>1. /\ a \in Command /\ ClientOK(c) /\ Shape
    BY InvByClient DEF Shape
  <2>2. /\ desired[c] = DesiredBy(a, View(a.kind, old))
        /\ desired[c] # View(a.kind, old)
    BY <2>1 DEF ClientOK, Planned, Sending
  <2>3. a.kind \in Kind /\ old \in Table(a.kind)
    BY <2>1, WhichCommand DEF Shape, Mine
  <2>4. old \in Seq(RowOf(a.kind)) /\ (a.kind = "host" => Unique(old))
    BY <2>3, TableIsListable DEF Listable
  <2> HIDE DEF a, old
  <2>5. CASE a.kind = "acl" /\ a.op = "add"
    <3>1. old \in Seq(Rule) /\ a.rule \in Rule
      BY <2>1, <2>4, <2>5, WhichCommand DEF RowOf
    <3>2. desired[c] = AddRule(a.rule, View("acl", old))
      BY <2>1, <2>2, <2>5, WhichCommand
    <3>3. desired[c] = View("acl", Append(old, a.rule)) /\ Append(old, a.rule) \in Seq(Rule)
      BY <3>1, <3>2, AddRuleAppends
    <3>4. new = Append(old, a.rule)
      BY <2>3, <2>5, <3>3, EncodeOfView DEF RowOf
    <3> QED BY <2>5, <3>4 DEF a, old
  <2>6. CASE a.kind = "acl" /\ a.op = "remove"
    <3>1. old \in Seq(Rule) /\ a.number \in Nat
      BY <2>1, <2>4, <2>6, WhichCommand DEF RowOf
    <3>2. desired[c] = RemoveRule(a.number, View("acl", old))
      BY <2>1, <2>2, <2>6, WhichCommand
    <3>3. a.number \in 1..Len(old) /\ desired[c] = View("acl", RemoveAt(old, a.number))
      BY <2>2, <2>6, <3>1, <3>2, RemoveRuleCuts
    <3>4. RemoveAt(old, a.number) \in Seq(Rule)
      BY <3>1, <3>3, CutRow
    <3>5. new = RemoveAt(old, a.number)
      BY <2>3, <2>6, <3>3, <3>4, EncodeOfView DEF RowOf
    <3> QED BY <2>6, <3>5 DEF a, old
  <2>7. CASE a.kind = "host" /\ a.op = "add"
    <3>1. old \in Seq(Host) /\ Unique(old) /\ a.host \in Host
      BY <2>1, <2>4, <2>7, WhichCommand DEF RowOf
    <3>2. new = AddHost(a.host, old)
      BY <2>1, <2>2, <2>7, WhichCommand DEF View, Encode
    <3>3. /\ Others(new, a.host.id) = Others(old, a.host.id)
          /\ Named(new, a.host.id) = <<a.host>>
          /\ Len(new) = Len(old) => \A i \in DOMAIN old : new[i].id = old[i].id
      BY <3>1, <3>2, AddHostSetsOne
    <3> QED BY <2>7, <3>3 DEF a, old
  <2>8. CASE a.kind = "host" /\ a.op = "remove"
    <3>1. new = RemoveHost(a.id, old)
      BY <2>1, <2>2, <2>8, WhichCommand DEF View, Encode
    <3> QED BY <2>8, <3>1 DEF a, old, RemoveHost, Others
  <2> QED BY <2>5, <2>6, <2>7, <2>8 DEF a, old
<1> QED BY <1>1, InvCorrect, PTL

\* A command given until it succeeds has had its effect once, or as often as it
\* was given at most, however the requests fared.
THEOREM RepeatedCommandsAddUpCorrect == Spec => []RepeatedCommandsAddUp
<1>1. Inv => RepeatedCommandsAddUp
  <2> SUFFICES ASSUME Inv, NEW c \in Client,
                      result[c] \in {"changed", "unchanged"}, alone[c]
               PROVE  \E n \in 1..tries[c] :
                        /\ Mine(c) = After(c, n)
                        /\ call[c].kind = "host" \/ call[c].op = "playbook" => n = 1
    BY DEF RepeatedCommandsAddUp
  <2>1. ClientOK(c) /\ call[c] \in Command /\ tries[c] \in Nat
    BY InvByClient, RuleTableAssumption DEF Shape
  <2>2. tries[c] > 0
    BY <2>1 DEF ClientOK, Planned
  <2>3. PICK n \in 1..tries[c] : Mine(c) = After(c, n)
    BY <2>1, <2>2 DEF ClientOK, AddsUp
  <2>4. first[c] \in Seq(RowOf(call[c].kind))
    BY <2>1, <2>2, WhichCommand, TableIsListable DEF ClientOK, Listable
  <2>5. CASE call[c].kind = "host" \/ call[c].op = "playbook"
    <3>1. n \in Nat \ {0} /\ 1 \in 1..tries[c]
      BY <2>1, <2>2
    <3>2. Mine(c) = After(c, 1)
      BY <2>1, <2>3, <2>4, <2>5, <3>1, RepeatedOnce DEF After
    <3> QED BY <3>1, <3>2
  <2> QED BY <2>3, <2>5
<1> QED BY <1>1, InvCorrect, PTL
=============================================================================
