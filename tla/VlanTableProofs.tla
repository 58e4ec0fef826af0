-------------------------- MODULE VlanTableProofs --------------------------
(***************************************************************************)
(* The safety properties of VlanTable, for tables of any size and any number *)
(* of clients: the encoder's order is the switch's own, so that a view can   *)
(* be put back as it was, a change to one VLAN leaves the others in their    *)
(* order, and what is reported is what is stored.                            *)
(***************************************************************************)
EXTENDS VlanTable, FiniteSetTheorems, FunctionTheorems, WellFoundedInduction, TLAPS

-----------------------------------------------------------------------------
(* Listing a set in an order: there is one way to do it.                    *)

\* A non-empty set of numbers has a least one.
LEMMA LeastNumber ==
  ASSUME NEW T \in SUBSET Nat, T # {}
  PROVE  \E m \in T : \A n \in T : m <= n
<1> DEFINE Less == OpToRel(<, Nat)
<1>1. Less = {p \in Nat \X Nat : p[1] < p[2]}
  BY Zenon DEF OpToRel
<1>2. IsWellFoundedOn(Less, Nat)
  BY NatLessThanWellFounded, Zenon
<1> HIDE DEF Less
<1>3. PICK m \in T : \A n \in T : ~(<<n, m>> \in Less)
  BY <1>2, WFMin
<1>4. \A n \in T : n \in Nat /\ m \in Nat /\ ~(n < m)
  BY <1>1, <1>3
<1> QED BY <1>4

\* s lists the set S in the order R, a set of pairs.
Lists(s, S, R) ==
  /\ s \in [1..Cardinality(S) -> S]
  /\ \A i, j \in 1..Cardinality(S) : i < j => <<s[i], s[j]>> \in R

\* R compares any two elements of S, one way, and consistently.
StrictOrder(R, S) ==
  /\ \A x, y \in S : <<x, y>> \in R => <<y, x>> \notin R
  /\ \A x, y \in S : x # y => <<x, y>> \in R \/ <<y, x>> \in R
  /\ \A x, y, z \in S : <<x, y>> \in R /\ <<y, z>> \in R => <<x, z>> \in R

\* A listing lists every element once.
LEMMA ListingIsBijection ==
  ASSUME NEW S, IsFiniteSet(S), NEW R, \A x \in S : <<x, x>> \notin R,
         NEW s, Lists(s, S, R)
  PROVE  /\ \A i, j \in 1..Cardinality(S) : s[i] = s[j] => i = j
         /\ \A x \in S : \E i \in 1..Cardinality(S) : s[i] = x
<1> DEFINE n == Cardinality(S)
<1>1. n \in Nat /\ IsFiniteSet(1..n) /\ Cardinality(1..n) = n
  BY FS_CardinalityType, FS_Interval
<1>2. \A i, j \in 1..n : s[i] = s[j] => i = j
  <2>1. ASSUME NEW i \in 1..n, NEW j \in 1..n, i < j, s[i] = s[j]
        PROVE  FALSE
    BY <2>1 DEF Lists
  <2> QED BY <2>1, <1>1
<1>3. s \in Injection(1..n, S)
  BY <1>2 DEF Injection, IsInjective, Lists
<1>4. s \in Surjection(1..n, S)
  BY <1>1, <1>3, FS_Injection
<1> QED BY <1>2, <1>4 DEF Surjection

\* There is at most one listing.
LEMMA ListingIsUnique ==
  ASSUME NEW S, IsFiniteSet(S), NEW R,
         \A x, y \in S : <<x, y>> \in R => <<y, x>> \notin R,
         NEW s, Lists(s, S, R), NEW t, Lists(t, S, R)
  PROVE  s = t
<1> DEFINE n == Cardinality(S)
           D == {i \in 1..n : s[i] # t[i]}
<1>1. n \in Nat /\ \A x \in S : <<x, x>> \notin R
  BY FS_CardinalityType
<1>4. \A i, j \in 1..n : (s[i] = s[j] => i = j) /\ (t[i] = t[j] => i = j)
  BY <1>1, ListingIsBijection
<1>2. CASE D = {}
  <2>1. \A i \in 1..n : s[i] = t[i]
    BY <1>2
  <2>2. s = [i \in 1..n |-> s[i]] /\ t = [i \in 1..n |-> t[i]]
    BY DEF Lists
  <2> QED BY <2>1, <2>2, Zenon
<1>3. CASE D # {}
  <2>0. D \in SUBSET Nat
    BY <1>1
  <2>1. PICK m \in D : \A i \in D : m <= i
    <3> HIDE DEF D
    <3> QED BY <1>3, <2>0, LeastNumber
  <2>2. m \in 1..n /\ s[m] # t[m] /\ s[m] \in S /\ t[m] \in S
    BY <2>1 DEF Lists
  <2>3. \A i \in 1..n : i < m => s[i] = t[i]
    BY <1>1, <2>1
  <2>4. <<s[m], t[m]>> \in R
    <3>1. PICK j \in 1..n : s[j] = t[m]
      BY <1>1, <2>2, ListingIsBijection
    <3>2. ~(j < m)
      <4>1. j < m => t[j] = t[m]
        BY <2>3, <3>1
      <4>2. t[j] = t[m] => j = m
        BY <1>4, <2>2
      <4> QED BY <1>1, <2>2, <4>1, <4>2
    <3>3. m < j
      BY <1>1, <2>2, <3>1, <3>2
    <3> QED BY <2>2, <3>1, <3>3 DEF Lists
  <2>5. <<t[m], s[m]>> \in R
    <3>1. PICK j \in 1..n : t[j] = s[m]
      BY <1>1, <2>2, ListingIsBijection
    <3>2. ~(j < m)
      <4>1. j < m => s[j] = s[m]
        BY <2>3, <3>1
      <4>2. s[j] = s[m] => j = m
        BY <1>4, <2>2
      <4> QED BY <1>1, <2>2, <4>1, <4>2
    <3>3. m < j
      BY <1>1, <2>2, <3>1, <3>2
    <3> QED BY <2>2, <3>1, <3>3 DEF Lists
  <2> QED BY <2>2, <2>4, <2>5
<1> QED BY <1>2, <1>3

\* There is one: every element goes to the place its predecessors leave it.
LEMMA ListingExists ==
  ASSUME NEW S, IsFiniteSet(S), NEW R, StrictOrder(R, S)
  PROVE  \E s : Lists(s, S, R)
<1> DEFINE n == Cardinality(S)
           Below(x) == {y \in S : <<y, x>> \in R}
           rank == [x \in S |-> Cardinality(Below(x)) + 1]
<1>1. n \in Nat /\ IsFiniteSet(1..n) /\ Cardinality(1..n) = n
  BY FS_CardinalityType, FS_Interval
<1>2. ASSUME NEW x \in S
      PROVE  IsFiniteSet(Below(x)) /\ Cardinality(Below(x)) \in Nat
  <2>1. Below(x) \in SUBSET S
    OBVIOUS
  <2>2. IsFiniteSet(Below(x))
    BY <2>1, FS_Subset
  <2> QED BY <2>2, FS_CardinalityType
<1>3. ASSUME NEW x \in S
      PROVE  rank[x] \in 1..n
  <2>1. Below(x) \in SUBSET (S \ {x})
    BY DEF StrictOrder
  <2>2. IsFiniteSet(S \ {x}) /\ Cardinality(S \ {x}) = n - 1
    BY FS_RemoveElement
  <2>3. Cardinality(Below(x)) <= n - 1
    BY <2>1, <2>2, FS_Subset
  <2> QED BY <1>1, <1>2, <2>3
<1>4. ASSUME NEW x \in S, NEW y \in S, <<x, y>> \in R
      PROVE  rank[x] < rank[y]
  <2>1. Below(x) \in SUBSET Below(y)
    BY <1>4 DEF StrictOrder
  <2>2. x \in Below(y) /\ x \notin Below(x)
    BY <1>4 DEF StrictOrder
  <2>3. /\ Cardinality(Below(x)) <= Cardinality(Below(y))
        /\ Cardinality(Below(y)) # Cardinality(Below(x))
    <3>1. Below(x) # Below(y)
      BY <2>2
    <3> HIDE DEF Below
    <3> QED BY <1>2, <2>1, <3>1, FS_Subset
  <2>4. Cardinality(Below(x)) \in Nat /\ Cardinality(Below(y)) \in Nat
    BY <1>2
  <2> HIDE DEF Below
  <2> QED BY <2>3, <2>4
<1> HIDE DEF Below
<1>5. \A x, y \in S : rank[x] = rank[y] => x = y
  <2>1. ASSUME NEW x \in S, NEW y \in S, x # y
        PROVE  rank[x] # rank[y]
    <3>1. rank[x] < rank[y] \/ rank[y] < rank[x]
      BY <1>4, <2>1 DEF StrictOrder
    <3>2. rank[x] \in 1..n /\ rank[y] \in 1..n
      BY <1>3
    <3> HIDE DEF rank
    <3> QED BY <1>1, <3>1, <3>2
  <2> QED BY <2>1
<1>6. rank \in [S -> 1..n]
  BY <1>3
<1> HIDE DEF rank
<1>7. rank \in Surjection(S, 1..n)
  <2>1. rank \in Injection(S, 1..n)
    BY <1>5, <1>6 DEF Injection, IsInjective
  <2> QED BY <1>1, <2>1, FS_Injection
<1> DEFINE s == [i \in 1..n |-> CHOOSE x \in S : rank[x] = i]
<1>8. \A i \in 1..n : s[i] \in S /\ rank[s[i]] = i
  BY <1>7 DEF Surjection
<1>9. ASSUME NEW i \in 1..n, NEW j \in 1..n, i < j
      PROVE  <<s[i], s[j]>> \in R
  <2>1. s[i] \in S /\ s[j] \in S /\ rank[s[i]] = i /\ rank[s[j]] = j
    BY <1>8
  <2> HIDE DEF s
  <2>2. s[i] # s[j]
    BY <1>9, <2>1
  <2>3. <<s[j], s[i]>> \in R => j < i
    BY <1>4, <2>1
  <2> QED BY <1>1, <1>9, <2>1, <2>2, <2>3 DEF StrictOrder
<1>10. s \in [1..n -> S]
  BY <1>8
<1> QED BY <1>9, <1>10 DEF Lists

-----------------------------------------------------------------------------
(* Some rows of a table, in their order.                                    *)

Less == {p \in Nat \X Nat : p[1] < p[2]}

\* A set of positions is listed as they follow each other.
LEMMA PositionsListed ==
  ASSUME NEW I \in SUBSET Nat, IsFiniteSet(I), NEW s, Lists(s, I, Less)
  PROVE  Ascending(I) = s
<1>1. \A i, j : <<i, j>> \in Less <=> i \in Nat /\ j \in Nat /\ i < j
  BY DEF Less
<1> DEFINE Sorted(f) == \A i, j \in DOMAIN f : i < j => f[i] < f[j]
<1>2. s \in [1..Cardinality(I) -> I] /\ Sorted(s)
  BY <1>1 DEF Lists
<1>3. Ascending(I) = CHOOSE f \in [1..Cardinality(I) -> I] : Sorted(f)
  BY Zenon DEF Ascending, Listed
<1>4. Ascending(I) \in [1..Cardinality(I) -> I] /\ Sorted(Ascending(I))
  <2> HIDE DEF Sorted
  <2> QED BY <1>2, <1>3, Zenon
<1>5. Lists(Ascending(I), I, Less)
  <2> DEFINE f == Ascending(I)
  <2>1. f \in [1..Cardinality(I) -> I] /\ Sorted(f)
    BY <1>4
  <2> HIDE DEF f
  <2>2. Lists(f, I, Less)
    BY <1>1, <2>1 DEF Lists
  <2> QED BY <2>2 DEF f
<1>6. \A i, j \in I : <<i, j>> \in Less => <<j, i>> \notin Less
  BY <1>1
<1> QED BY <1>5, <1>6, ListingIsUnique

\* An ascending list of positions lists them, and nothing else.
LEMMA AscendingLists ==
  ASSUME NEW I \in SUBSET Nat, IsFiniteSet(I)
  PROVE  Lists(Ascending(I), I, Less)
<1>1. StrictOrder(Less, I)
  BY DEF StrictOrder, Less
<1>2. PICK s : Lists(s, I, Less)
  <2> HIDE DEF Less
  <2> QED BY <1>1, ListingExists
<1>3. Ascending(I) = s
  BY <1>2, PositionsListed
<1> QED BY <1>2, <1>3

\* A listing of a set, cut down to a part of the set, lists that part.
LEMMA PartOfListing ==
  ASSUME NEW S, IsFiniteSet(S), NEW R, \A x \in S : <<x, x>> \notin R,
         NEW s, Lists(s, S, R), NEW E \in SUBSET S
  PROVE  Lists(Rows(s, {i \in 1..Cardinality(S) : s[i] \in E}), E, R)
<1> DEFINE n == Cardinality(S)
           I == {i \in 1..n : s[i] \in E}
           at == Ascending(I)
           m == Cardinality(I)
<1>1. n \in Nat /\ IsFiniteSet(1..n)
  BY FS_CardinalityType, FS_Interval
<1>2. /\ s \in [1..n -> S] /\ \A i, j \in 1..n : i < j => <<s[i], s[j]>> \in R
      /\ \A i, j \in 1..n : s[i] = s[j] => i = j
      /\ \A x \in S : \E i \in 1..n : s[i] = x
  <2>1. /\ \A i, j \in 1..n : s[i] = s[j] => i = j
        /\ \A x \in S : \E i \in 1..n : s[i] = x
    BY ListingIsBijection
  <2>2. s \in [1..n -> S] /\ \A i, j \in 1..n : i < j => <<s[i], s[j]>> \in R
    BY DEF Lists
  <2> QED BY <2>1, <2>2
<1>3. I \in SUBSET (1..n) /\ I \in SUBSET Nat
  OBVIOUS
<1>4. IsFiniteSet(I)
  BY <1>1, <1>3, FS_Subset
<1> HIDE DEF n
<1>5. Cardinality(E) = m
  <2> DEFINE f == [i \in I |-> s[i]]
  <2>1. f \in [I -> E] /\ \A i, j \in I : f[i] = f[j] => i = j
    BY <1>2
  <2>2. \A x \in E : \E i \in I : f[i] = x
    BY <1>2
  <2>3. f \in Bijection(I, E)
    <3> HIDE DEF f
    <3>1. f \in Injection(I, E)
      BY <2>1 DEF Injection, IsInjective
    <3>2. f \in Surjection(I, E)
      BY <2>1, <2>2 DEF Surjection
    <3> QED BY <3>1, <3>2 DEF Bijection
  <2> QED BY <1>4, <2>3, FS_Bijection DEF ExistsBijection
<1>6. /\ at \in [1..m -> I]
      /\ \A i, j \in 1..m : i < j => at[i] < at[j]
  <2>1. Lists(at, I, Less)
    BY <1>3, <1>4, AscendingLists
  <2> HIDE DEF at, I
  <2> QED BY <2>1 DEF Lists, Less
<1>7. Rows(s, I) = [i \in 1..m |-> s[at[i]]]
  BY <1>6 DEF Rows
<1> HIDE DEF at, m
<1>8. \A i \in 1..m : at[i] \in 1..n /\ s[at[i]] \in E
  BY <1>6
<1> HIDE DEF I
<1>9. /\ Rows(s, I) \in [1..m -> E]
      /\ \A i, j \in 1..m : i < j => <<Rows(s, I)[i], Rows(s, I)[j]>> \in R
  BY <1>2, <1>6, <1>7, <1>8
<1> QED BY <1>5, <1>9 DEF Lists, n, I

-----------------------------------------------------------------------------
(* The encoder's order.                                                     *)

Shown(d) == Listed(d, Precedes)

\* The order among the rows of a view, as a set of pairs.
Order(d) == {p \in d \X d : Precedes(p[1], p[2])}

\* The order as a set of pairs.
LEMMA OrderOfPairs ==
  ASSUME NEW d, NEW x \in d, NEW y \in d
  PROVE  <<x, y>> \in Order(d) <=> Precedes(x, y)
BY DEF Order

\* What a row of a view consists of.
LEMMA RowShape ==
  ASSUME NEW x \in Vlan
  PROVE  /\ x.pos \in Nat /\ x.pos <= MaxRows /\ x.row \in TableRow
         /\ x.row.vid \in Nat /\ x.row.vid \in VlanId
         /\ x.row.set \in [Setting -> {0, 1}]
<1>1. x.pos \in 0..MaxRows /\ x.row \in TableRow
  BY DEF Vlan
<1>2. x.row.vid \in VlanId /\ x.row.set \in [Setting -> {0, 1}]
  BY <1>1 DEF TableRow
<1>3. MaxRows \in Nat /\ VlanId \subseteq Nat
  BY VlanAssumption
<1>4. x.pos \in Nat /\ x.pos <= MaxRows
  BY <1>1, <1>3
<1>5. x.row.vid \in Nat
  BY <1>2, <1>3
<1> QED BY <1>1, <1>2, <1>4, <1>5

\* Positions, and VLAN IDs where there is no position, order a sound view.
LEMMA OrderIsStrict ==
  ASSUME NEW d, Sound(d)
  PROVE  StrictOrder(Order(d), d)
<1>1. \A x \in d : x.pos \in Nat /\ x.row.vid \in Nat
  BY RowShape DEF Sound
<1>2. ASSUME NEW x \in d, NEW y \in d, Precedes(x, y)
      PROVE  ~Precedes(y, x)
  BY <1>1, <1>2 DEF Precedes
<1>3. ASSUME NEW x \in d, NEW y \in d, x # y
      PROVE  Precedes(x, y) \/ Precedes(y, x)
  <2>1. x.row.vid # y.row.vid /\ (x.pos # 0 => x.pos # y.pos)
    BY <1>3 DEF Sound
  <2> QED BY <1>1, <2>1 DEF Precedes
<1>4. ASSUME NEW x \in d, NEW y \in d, NEW z \in d, Precedes(x, y), Precedes(y, z)
      PROVE  Precedes(x, z)
  BY <1>1, <1>4 DEF Precedes
<1> QED BY <1>2, <1>3, <1>4, OrderOfPairs DEF StrictOrder

\* The rows of a sound view have one order, and are listed in it.
LEMMA ShownLists ==
  ASSUME NEW d, Sound(d)
  PROVE  /\ Lists(Shown(d), d, Order(d))
         /\ \A s : Lists(s, d, Order(d)) => s = Shown(d)
<1>1. IsFiniteSet(d) /\ StrictOrder(Order(d), d)
  BY OrderIsStrict DEF Sound
<1> DEFINE Sorted(f) == \A i, j \in DOMAIN f : i < j => Precedes(f[i], f[j])
<1>2. ASSUME NEW s \in [1..Cardinality(d) -> d]
      PROVE  Sorted(s) <=> Lists(s, d, Order(d))
  <2>1. \A i \in 1..Cardinality(d) : s[i] \in d
    OBVIOUS
  <2> QED BY <2>1, OrderOfPairs DEF Lists
<1>3. PICK s : Lists(s, d, Order(d))
  BY <1>1, ListingExists
<1>4. s \in [1..Cardinality(d) -> d] /\ Sorted(s)
  BY <1>2, <1>3 DEF Lists
<1>5. Shown(d) = CHOOSE f \in [1..Cardinality(d) -> d] : Sorted(f)
  BY Zenon DEF Shown, Listed
<1>6. Shown(d) \in [1..Cardinality(d) -> d] /\ Sorted(Shown(d))
  <2> HIDE DEF Sorted
  <2> QED BY <1>4, <1>5, Zenon
<1>7. Lists(Shown(d), d, Order(d))
  BY <1>2, <1>6
<1>8. \A x, y \in d : <<x, y>> \in Order(d) => <<y, x>> \notin Order(d)
  BY <1>1 DEF StrictOrder
<1> QED BY <1>1, <1>7, <1>8, ListingIsUnique

-----------------------------------------------------------------------------
(* The encoder.                                                             *)

\* What is sent: as many rows as the view has, each of them, in order.
LEMMA EncodeLists ==
  ASSUME NEW d, Sound(d)
  PROVE  LET n == Cardinality(d) IN
         /\ n \in Nat
         /\ Encode(d) = [i \in 1..n |-> Shown(d)[i].row]
         /\ Shown(d) \in [1..n -> d]
         /\ \A i, j \in 1..n : Shown(d)[i] = Shown(d)[j] => i = j
         /\ \A x \in d : \E i \in 1..n : Shown(d)[i] = x
<1> DEFINE n == Cardinality(d)
<1>1. IsFiniteSet(d) /\ n \in Nat /\ StrictOrder(Order(d), d)
  BY OrderIsStrict, FS_CardinalityType DEF Sound
<1>2. Lists(Shown(d), d, Order(d))
  BY ShownLists
<1>3. Shown(d) \in [1..n -> d]
  BY <1>2 DEF Lists
<1>4. Encode(d) = [i \in DOMAIN Shown(d) |-> Shown(d)[i].row]
  BY DEF Encode, Shown
<1>5. \A x \in d : <<x, x>> \notin Order(d)
  BY <1>1 DEF StrictOrder
<1>6. /\ \A i, j \in 1..n : Shown(d)[i] = Shown(d)[j] => i = j
      /\ \A x \in d : \E i \in 1..n : Shown(d)[i] = x
  BY <1>1, <1>2, <1>5, ListingIsBijection
<1> QED BY <1>1, <1>3, <1>4, <1>6

\* What a table is, row by row.
LEMMA TableShape ==
  ASSUME NEW t
  PROVE  t \in Table <=> \E n \in 0..MaxRows :
                           /\ t \in [1..n -> TableRow]
                           /\ \A i, j \in 1..n : t[i].vid = t[j].vid => i = j
BY DEF Table

\* What can be put back in order, and fits, is a table.
LEMMA EncodeIsTable ==
  ASSUME NEW d, Sound(d), ~Overfull(d)
  PROVE  Encode(d) \in Table
<1> DEFINE n == Cardinality(d)
           s == Shown(d)
<1>1. /\ n \in Nat /\ Encode(d) = [i \in 1..n |-> s[i].row] /\ s \in [1..n -> d]
      /\ \A i, j \in 1..n : s[i] = s[j] => i = j
  BY EncodeLists
<1>2. n \in 0..MaxRows
  BY <1>1, VlanAssumption DEF Overfull
<1> HIDE DEF n, s
<1>3. \A i \in 1..n : s[i] \in d /\ s[i] \in Vlan
  BY <1>1 DEF Sound
<1>4. \A i \in 1..n : s[i].row \in TableRow
  BY <1>3, RowShape
<1>5. \A i, j \in 1..n : s[i].row.vid = s[j].row.vid => i = j
  BY <1>1, <1>3 DEF Sound
<1> QED BY <1>1, <1>2, <1>4, <1>5, TableShape
\* Rows of different VLANs, at positions of their own or at none, can be put in
\* order.
LEMMA PlacedRowsAreSound ==
  ASSUME NEW n \in 0..MaxRows, NEW d \in SUBSET Vlan, NEW f \in [1..n -> d],
         \A x \in d : \E i \in 1..n : f[i] = x,
         \A i, j \in 1..n : f[i].row.vid = f[j].row.vid => i = j,
         \A i, j \in 1..n : f[i].pos # 0 /\ f[i].pos = f[j].pos => i = j
  PROVE  Sound(d) /\ ~Overfull(d) /\ Cardinality(d) = n
<1>1. n \in Nat /\ IsFiniteSet(1..n) /\ Cardinality(1..n) = n
  BY VlanAssumption, FS_Interval
<1>2. f \in Bijection(1..n, d)
  <2>1. f \in Injection(1..n, d)
    BY DEF Injection, IsInjective
  <2>2. f \in Surjection(1..n, d)
    BY DEF Surjection
  <2> QED BY <2>1, <2>2 DEF Bijection
<1>3. IsFiniteSet(d) /\ Cardinality(d) = n
  BY <1>1, <1>2, FS_Bijection DEF ExistsBijection
<1>4. \A x, y \in d : /\ x.row.vid = y.row.vid => x = y
                      /\ x.pos # 0 /\ x.pos = y.pos => x = y
  OBVIOUS
<1>5. ~Overfull(d)
  BY <1>1, <1>3, VlanAssumption DEF Overfull
<1> QED BY <1>3, <1>4, <1>5 DEF Sound

\* A table's view can be put back in order, and gives the table.
LEMMA ViewIsSound ==
  ASSUME NEW t \in Table
  PROVE  /\ Sound(View(t)) /\ ~Overfull(View(t))
         /\ Encode(View(t)) = t
<1>1. PICK n \in 0..MaxRows : /\ t \in [1..n -> TableRow]
                              /\ \A i, j \in 1..n : t[i].vid = t[j].vid => i = j
  BY TableShape
<1> DEFINE d == View(t)
           f == [i \in 1..n |-> [pos |-> i, row |-> t[i]]]
<1>2. n \in Nat /\ \A i \in 1..n : i \in 0..MaxRows /\ i # 0
  BY VlanAssumption
<1>3. f \in [1..n -> d] /\ \A i \in 1..n : f[i].pos = i /\ f[i].row = t[i]
  BY <1>1 DEF View
<1>4. d \in SUBSET Vlan /\ \A x \in d : \E i \in 1..n : f[i] = x
  BY <1>1, <1>2 DEF View, Vlan
<1> HIDE DEF f, d
<1>5. Sound(d) /\ ~Overfull(d) /\ Cardinality(d) = n
  <2>1. /\ \A i, j \in 1..n : f[i].row.vid = f[j].row.vid => i = j
        /\ \A i, j \in 1..n : f[i].pos # 0 /\ f[i].pos = f[j].pos => i = j
    BY <1>1, <1>3
  <2>2. f \in [1..n -> d]
    BY <1>3
  <2> QED BY <1>4, <2>1, <2>2, PlacedRowsAreSound
<1>6. \A i, j \in 1..n : i < j => <<f[i], f[j]>> \in Order(d)
  BY <1>2, <1>3 DEF Precedes, Order
<1>7. Lists(f, d, Order(d))
  BY <1>3, <1>5, <1>6 DEF Lists
<1>8. Shown(d) = f
  BY <1>5, <1>7, ShownLists
<1>9. Encode(d) = [i \in 1..n |-> f[i].row]
  BY <1>5, <1>8, EncodeLists
<1>10. Encode(d) = t
  BY <1>1, <1>3, <1>9
<1> QED BY <1>5, <1>10 DEF d

\* A switch that stores the rows by VLAN ID stores a table too.
LEMMA PositionlessIsSound ==
  ASSUME NEW t \in Table
  PROVE  Sound(Positionless(t)) /\ ~Overfull(Positionless(t))
<1>1. PICK n \in 0..MaxRows : /\ t \in [1..n -> TableRow]
                              /\ \A i, j \in 1..n : t[i].vid = t[j].vid => i = j
  BY TableShape
<1> DEFINE d == Positionless(t)
           f == [i \in 1..n |-> [pos |-> 0, row |-> t[i]]]
<1>2. f \in [1..n -> d] /\ \A i \in 1..n : f[i].pos = 0 /\ f[i].row = t[i]
  BY <1>1 DEF Positionless
<1>3. d \in SUBSET Vlan /\ \A x \in d : \E i \in 1..n : f[i] = x
  BY <1>1, VlanAssumption DEF Positionless, Vlan
<1> HIDE DEF f, d
<1>4. Sound(d) /\ ~Overfull(d)
  BY <1>1, <1>2, <1>3, PlacedRowsAreSound
<1> QED BY <1>4 DEF d

\* What is left of a sound view is sound.
LEMMA WithoutIsSound ==
  ASSUME NEW d, Sound(d), NEW v
  PROVE  Sound(Without(v, d))
<1>1. Without(v, d) \in SUBSET d
  BY DEF Without
<1>2. IsFiniteSet(Without(v, d))
  BY <1>1, FS_Subset DEF Sound
<1> QED BY <1>1, <1>2 DEF Sound

\* The rows sent for the other VLANs depend on the view's rows for them alone.
LEMMA OthersOfEncode ==
  ASSUME NEW d, Sound(d), NEW v
  PROVE  Others(Encode(d), v) = Encode(Without(v, d))
<1> DEFINE n == Cardinality(d)
           s == Shown(d)
           e == Without(v, d)
           u == Encode(d)
           I == {i \in 1..n : s[i] \in e}
           at == Ascending(I)
           w == Rows(s, I)
<1>1. /\ n \in Nat /\ u = [i \in 1..n |-> s[i].row] /\ s \in [1..n -> d]
      /\ IsFiniteSet(d) /\ Lists(s, d, Order(d)) /\ StrictOrder(Order(d), d)
  BY EncodeLists, ShownLists, OrderIsStrict DEF Sound
<1>2. e \in SUBSET d /\ Sound(e)
  BY WithoutIsSound DEF Without
<1>3. I \in SUBSET (1..n) /\ I \in SUBSET Nat
  OBVIOUS
<1>4. IsFiniteSet(I)
  <2>1. IsFiniteSet(1..n)
    BY <1>1, FS_Interval
  <2> QED BY <1>3, <2>1, FS_Subset
<1>5. Lists(w, e, Order(d))
  <2>1. \A x \in d : <<x, x>> \notin Order(d)
    BY <1>1 DEF StrictOrder
  <2> HIDE DEF s, e
  <2> QED BY <1>1, <1>2, <2>1, PartOfListing
<1>6. Lists(w, e, Order(e))
  <2> HIDE DEF w, e
  <2>1. \A i \in 1..Cardinality(e) : w[i] \in e /\ w[i] \in d
    BY <1>2, <1>5 DEF Lists
  <2> QED BY <1>5, <2>1, OrderOfPairs DEF Lists
<1>7. Shown(e) = w
  <2> HIDE DEF w, e
  <2> QED BY <1>2, <1>6, ShownLists
<1>8. Encode(e) = [i \in DOMAIN w |-> w[i].row]
  BY <1>7 DEF Encode, Shown
<1>9. {i \in DOMAIN u : u[i].vid # v} = I
  <2>1. \A i \in 1..n : s[i] \in d /\ u[i] = s[i].row
    BY <1>1
  <2>2. DOMAIN u = 1..n
    BY <1>1
  <2> HIDE DEF u, s, n
  <2> QED BY <2>1, <2>2 DEF Without
<1>10. at \in [1..Cardinality(I) -> I]
  <2> HIDE DEF I
  <2> QED BY <1>3, <1>4, AscendingLists DEF Lists
<1>11. Others(u, v) = [i \in 1..Cardinality(I) |-> u[at[i]]]
  <2>1. Others(u, v) = Rows(u, I)
    BY <1>9 DEF Others
  <2> QED BY <1>10, <2>1 DEF Rows
<1>12. w = [i \in 1..Cardinality(I) |-> s[at[i]]]
  BY <1>10 DEF Rows
<1>13. \A i \in 1..Cardinality(I) : u[at[i]] = w[i].row
  <2>1. \A i \in 1..Cardinality(I) : at[i] \in 1..n /\ w[i] = s[at[i]]
    BY <1>3, <1>10, <1>12
  <2> HIDE DEF at, w, s, I
  <2> QED BY <1>1, <2>1
<1>14. DOMAIN w = 1..Cardinality(I)
  BY <1>12
<1> HIDE DEF w, at, u, I, e
<1>15. Others(u, v) = Encode(e)
  BY <1>8, <1>11, <1>13, <1>14
<1> QED BY <1>15 DEF u, e

-----------------------------------------------------------------------------
(* The callers.                                                             *)

\* A call is a vlan set, an API edit, a vlan remove or a play.
LEMMA WhichCall ==
  ASSUME NEW a \in Call, NEW d
  PROVE  \/ /\ a.kind = "set" /\ a.vid \in VlanId /\ a.to \in Assignment
            /\ DesiredBy(a, d) = SetBy(a, d)
         \/ /\ a.kind = "edit" /\ a.vid \in VlanId /\ a.to \in Assignment
            /\ DesiredBy(a, d) = EditBy(a, d)
         \/ a.kind = "remove" /\ DesiredBy(a, d) = Without(a.vid, d)
         \/ /\ a.kind = "playbook" /\ a.rows \in Wanted
            /\ DesiredBy(a, d) = View(a.rows)
<1>1. /\ a.kind = "set" => DesiredBy(a, d) = SetBy(a, d)
      /\ a.kind = "edit" => DesiredBy(a, d) = EditBy(a, d)
      /\ a.kind = "remove" => DesiredBy(a, d) = Without(a.vid, d)
      /\ a.kind = "playbook" => DesiredBy(a, d) = View(a.rows)
  BY DEF DesiredBy
<1>2. CASE a \in [kind: {"set", "edit"}, vid: VlanId, to: Assignment]
  BY <1>1, <1>2
<1>3. CASE a \in [kind: {"remove"}, vid: VlanId]
  BY <1>1, <1>3
<1>4. CASE a \in [kind: {"playbook"}, rows: Wanted]
  BY <1>1, <1>4
<1> QED BY <1>2, <1>3, <1>4 DEF Call

\* A changed row is a row of the same VLAN.
LEMMA UpdatedIsRow ==
  ASSUME NEW r \in TableRow, NEW to \in Assignment
  PROVE  Updated(r, to) \in TableRow /\ Updated(r, to).vid = r.vid
<1>1. r = [vid |-> r.vid, set |-> r.set] /\ r.vid \in VlanId
  BY DEF TableRow
<1>2. \A k \in DOMAIN to : to[k] \in {0, 1}
  BY DEF Assignment
<1>3. r.set \in [Setting -> {0, 1}]
  BY DEF TableRow
<1> DEFINE new == [k \in Setting |-> IF k \in DOMAIN to THEN to[k] ELSE r.set[k]]
<1>4. Updated(r, to) = [r EXCEPT !.set = new]
  BY DEF Updated
<1>5. new \in [Setting -> {0, 1}]
  BY <1>2, <1>3
<1> HIDE DEF new
<1>6. Updated(r, to) = [vid |-> r.vid, set |-> new]
  BY <1>1, <1>4
<1> QED BY <1>1, <1>5, <1>6 DEF TableRow

\* vlan set leaves the VLANs it does not name alone.
LEMMA SetBySound ==
  ASSUME NEW d, Sound(d), NEW a, a.vid \in VlanId, a.to \in Assignment
  PROVE  Sound(SetBy(a, d)) /\ Without(a.vid, SetBy(a, d)) = Without(a.vid, d)
<1> DEFINE v == a.vid
           e == Without(v, d)
           old == IF Has(v, d) THEN RowOf(v, d).row ELSE Fresh(v)
           x == [pos |-> 0, row |-> Updated(old, a.to)]
<1>1. old \in TableRow /\ old.vid = v
  <2>1. CASE Has(v, d)
    <3>1. RowOf(v, d) \in d /\ RowOf(v, d).row.vid = v
      BY <2>1 DEF Has, RowOf
    <3>2. RowOf(v, d).row \in TableRow
      BY <3>1, RowShape DEF Sound
    <3> QED BY <2>1, <3>1, <3>2
  <2>2. CASE ~Has(v, d)
    BY <2>2 DEF Fresh, TableRow
  <2> QED BY <2>1, <2>2
<1> HIDE DEF old
<1>2. x.row \in TableRow /\ x.row.vid = v /\ x.pos = 0
  BY <1>1, UpdatedIsRow
<1>3. x \in Vlan
  BY <1>2, VlanAssumption DEF Vlan
<1>4. SetBy(a, d) = e \union {x}
  BY DEF SetBy, old
<1>5. Sound(e) /\ \A y \in e : y.row.vid # v /\ y \in d
  BY WithoutIsSound DEF Without
<1> HIDE DEF x
<1>6. IsFiniteSet(e \union {x})
  BY <1>5, FS_AddElement DEF Sound
<1>7. Sound(e \union {x})
  BY <1>2, <1>3, <1>5, <1>6 DEF Sound
<1>8. Without(v, e \union {x}) = e
  BY <1>2, <1>5 DEF Without
<1> QED BY <1>4, <1>7, <1>8

\* So does an API user's edit.
LEMMA EditBySound ==
  ASSUME NEW d, Sound(d), NEW a, a.vid \in VlanId, a.to \in Assignment
  PROVE  Sound(EditBy(a, d)) /\ Without(a.vid, EditBy(a, d)) = Without(a.vid, d)
<1> DEFINE v == a.vid
           f == [x \in d |-> IF x.row.vid = v THEN [x EXCEPT !.row = Updated(@, a.to)]
                             ELSE x]
           e == EditBy(a, d)
<1>1. ASSUME NEW x \in d
      PROVE  /\ f[x] \in Vlan /\ f[x].pos = x.pos /\ f[x].row.vid = x.row.vid
             /\ x.row.vid # v => f[x] = x
  <2>1. x = [pos |-> x.pos, row |-> x.row] /\ x.pos \in 0..MaxRows /\ x.row \in TableRow
    BY DEF Sound, Vlan
  <2>2. CASE x.row.vid = v
    <3>1. f[x] = [x EXCEPT !.row = Updated(x.row, a.to)]
      BY <2>2
    <3>2. f[x] = [pos |-> x.pos, row |-> Updated(x.row, a.to)]
      BY <2>1, <3>1
    <3>3. Updated(x.row, a.to) \in TableRow /\ Updated(x.row, a.to).vid = x.row.vid
      BY <2>1, UpdatedIsRow
    <3> HIDE DEF f
    <3> QED BY <2>1, <2>2, <3>2, <3>3 DEF Vlan
  <2>3. CASE x.row.vid # v
    BY <2>3 DEF Sound
  <2> QED BY <2>2, <2>3
<1>2. e = {f[x] : x \in d}
  BY DEF EditBy
<1>3. f \in Surjection(d, e)
  <2>1. f \in [d -> e] /\ \A y \in e : \E x \in d : f[x] = y
    <3>1. DOMAIN f = d /\ f = [x \in d |-> f[x]]
      OBVIOUS
    <3> HIDE DEF f, e
    <3> QED BY <1>2, <3>1
  <2> HIDE DEF f, e
  <2> QED BY <2>1 DEF Surjection
<1>4. IsFiniteSet(e)
  <2> HIDE DEF f, e
  <2> QED BY <1>3, FS_Surjection DEF Sound
<1> HIDE DEF f, e
<1>5. Sound(e)
  <2>1. e \subseteq Vlan
    BY <1>1, <1>2
  <2>2. ASSUME NEW x \in e, NEW y \in e
        PROVE  /\ x.row.vid = y.row.vid => x = y
               /\ x.pos # 0 /\ x.pos = y.pos => x = y
    <3>1. PICK p \in d : f[p] = x
      BY <1>2
    <3>2. PICK q \in d : f[q] = y
      BY <1>2
    <3> QED BY <1>1, <3>1, <3>2 DEF Sound
  <2> QED BY <1>4, <2>1, <2>2 DEF Sound
<1>6. Without(v, e) = Without(v, d)
  BY <1>1, <1>2 DEF Without
<1> QED BY <1>5, <1>6 DEF e

\* Whatever a caller makes of a view can be put back in order; and a call for
\* one VLAN leaves the view's rows for the others.
LEMMA DesiredIsSound ==
  ASSUME NEW a \in Call, NEW d, Sound(d)
  PROVE  /\ Sound(DesiredBy(a, d))
         /\ a.kind # "playbook" => Without(a.vid, DesiredBy(a, d)) = Without(a.vid, d)
<1>1. CASE a.kind = "set"
  BY <1>1, WhichCall, SetBySound
<1>2. CASE a.kind = "edit"
  BY <1>2, WhichCall, EditBySound
<1>3. CASE a.kind = "remove"
  <2>1. Without(a.vid, Without(a.vid, d)) = Without(a.vid, d)
    BY DEF Without
  <2> QED BY <1>3, <2>1, WhichCall, WithoutIsSound
<1>4. CASE a.kind = "playbook"
  <2>1. a.rows \in Table /\ DesiredBy(a, d) = View(a.rows)
    BY <1>4, WhichCall, VlanAssumption
  <2> QED BY <1>4, <2>1, ViewIsSound
<1> QED BY <1>1, <1>2, <1>3, <1>4, WhichCall

\* A call for one VLAN sends the others' rows as they are, in their order.
LEMMA OthersAreSentInOrder ==
  ASSUME NEW a \in Call, a.kind # "playbook", NEW t \in Table
  PROVE  Others(Encode(DesiredBy(a, View(t))), a.vid) = Others(t, a.vid)
<1> DEFINE d == View(t)
           e == DesiredBy(a, d)
<1>1. Sound(d) /\ Encode(d) = t
  BY ViewIsSound
<1> HIDE DEF d
<1>2. Sound(e) /\ Without(a.vid, e) = Without(a.vid, d)
  BY <1>1, DesiredIsSound
<1> HIDE DEF e
<1>3. /\ Others(Encode(e), a.vid) = Encode(Without(a.vid, e))
      /\ Others(Encode(d), a.vid) = Encode(Without(a.vid, d))
  BY <1>1, <1>2, OthersOfEncode
<1> QED BY <1>1, <1>2, <1>3 DEF d, e

-----------------------------------------------------------------------------
(* The invariant, client by client.                                         *)

Phases == {"idle", "plan", "read", "post", "verify"}
Results == {"none", "changed", "unchanged", "refused", "protocol", "failed"}

\* The variables' functions, their values' relations apart.
Shape ==
  /\ table \in Table /\ edits \in 0..MaxEdits
  /\ pc \in [Client -> Phases] /\ call \in [Client -> Call]
  /\ result \in [Client -> Results] /\ ops \in [Client -> 0..MaxOps]
  /\ disturbed \in [Client -> BOOLEAN]
  /\ DOMAIN current = Client /\ DOMAIN desired = Client

ClientOK(c) ==
  /\ current[c] \subseteq Vlan /\ desired[c] \subseteq Vlan
  /\ result[c] \in {"changed", "unchanged"} /\ ~disturbed[c] =>
       table = Encode(desired[c])
  /\ Planned(c)

\* The invariant, client by client,
LEMMA InvByClient == Inv <=> Shape /\ \A c \in Client : ClientOK(c)
BY DEF Inv, TypeOK, ReportsStand, Shape, ClientOK, Phases, Results

\* and after a step.
LEMMA InvByClientNext == Inv' <=> Shape' /\ \A c \in Client : ClientOK(c)'
BY DEF Inv, TypeOK, ReportsStand, Shape, ClientOK, Phases, Results

\* What one knows of client c is as before.
Undone(c) ==
  /\ pc'[c] = pc[c] /\ call'[c] = call[c] /\ result'[c] = result[c]
  /\ current'[c] = current[c] /\ desired'[c] = desired[c]

\* A client that a step does not touch, or touches only through the table.
LEMMA Bystander ==
  ASSUME Shape, NEW c \in Client, ClientOK(c), Undone(c),
         disturbed'[c] = disturbed[c] \/ table' # table,
         table' # table => disturbed'[c]
  PROVE  ClientOK(c)'
<1>1. CASE disturbed'[c]
  BY <1>1 DEF ClientOK, Undone, Planned
<1>2. CASE ~disturbed'[c]
  <2>1. table' = table /\ ~disturbed[c]
    BY <1>2
  <2> QED BY <1>2, <2>1 DEF ClientOK, Undone, Planned
<1> QED BY <1>1, <1>2

-----------------------------------------------------------------------------
(* Every step keeps it.                                                     *)

\* No call has been made at the start.
LEMMA InvHoldsInitially == Init => Inv
<1> SUFFICES ASSUME Init PROVE Inv
  OBVIOUS
<1>1. (CHOOSE a \in Call : TRUE) \in Call
  BY CallAssumption
<1>2. table \in Table
  BY VlanAssumption DEF Init
<1>3. Shape
  BY <1>1, <1>2, VlanAssumption DEF Init, Shape, Phases, Results
<1>4. ASSUME NEW c \in Client
      PROVE  ClientOK(c)
  BY FS_EmptySet DEF Init, ClientOK, Planned, Sound
<1> QED BY <1>3, <1>4, InvByClient

\* A step of one client that leaves the table alone leaves the others alone.
LEMMA OthersKeep ==
  ASSUME Inv, NEW c \in Client, UNCHANGED table,
         \A d \in Client \ {c} : Undone(d) /\ disturbed'[d] = disturbed[d]
  PROVE  \A d \in Client \ {c} : ClientOK(d)'
BY InvByClient, Bystander

\* A call that begins has planned nothing yet.
LEMMA BeginKeepsInv ==
  ASSUME Inv, NEW c \in Client, NEW a \in Call, Begin(c, a)
  PROVE  Inv'
<1>1. Shape /\ \A d \in Client : ClientOK(d)
  BY InvByClient
<1>2. /\ ops[c] < MaxOps
      /\ ops' = [ops EXCEPT ![c] = @ + 1] /\ call' = [call EXCEPT ![c] = a]
      /\ pc' = [pc EXCEPT ![c] = "plan"] /\ result' = [result EXCEPT ![c] = "none"]
      /\ UNCHANGED <<table, edits, current, desired, disturbed>>
  BY DEF Begin
<1>3. ops' \in [Client -> 0..MaxOps]
  BY <1>1, <1>2, VlanAssumption DEF Shape
<1>4. Shape'
  BY <1>1, <1>2, <1>3 DEF Shape, Phases, Results
<1>5. \A d \in Client \ {c} : Undone(d) /\ disturbed'[d] = disturbed[d]
  BY <1>1, <1>2 DEF Shape, Undone
<1>6. pc'[c] = "plan" /\ result'[c] = "none"
  BY <1>1, <1>2 DEF Shape
<1>7. ClientOK(c)'
  BY <1>1, <1>2, <1>6 DEF ClientOK, Planned
<1>8. \A d \in Client \ {c} : ClientOK(d)'
  BY <1>2, <1>5, OthersKeep
<1> QED BY <1>4, <1>7, <1>8, InvByClientNext

\* The caller's GET: what it wants differs from the view as its call says.
LEMMA PlanKeepsInv ==
  ASSUME Inv, NEW c \in Client, Plan(c)
  PROVE  Inv'
<1> DEFINE now == View(table)
           next == DesiredBy(call[c], now)
<1>1. Shape /\ \A d \in Client : ClientOK(d)
  BY InvByClient
<1>2. /\ pc[c] = "plan"
      /\ current' = [current EXCEPT ![c] = now]
      /\ desired' = [desired EXCEPT ![c] = next]
      /\ disturbed' = [disturbed EXCEPT ![c] = FALSE]
      /\ UNCHANGED <<table, edits, call, ops>>
  BY DEF Plan, Looks
<1>3. /\ current'[c] = now /\ desired'[c] = next /\ disturbed'[c] = FALSE
      /\ call[c] \in Call /\ table \in Table
  BY <1>1, <1>2 DEF Shape
<1>4. Sound(now) /\ Encode(now) = table /\ Sound(next)
  BY <1>3, ViewIsSound, DesiredIsSound
<1>5. \/ /\ pc' = [pc EXCEPT ![c] = "idle"] /\ result' = [result EXCEPT ![c] = "refused"]
      \/ /\ pc' = [pc EXCEPT ![c] = "idle"] /\ result' = [result EXCEPT ![c] = "unchanged"]
         /\ next = now
      \/ /\ pc' = [pc EXCEPT ![c] = "read"] /\ result' = result
         /\ ~Refused(next, now)
  BY <1>3 DEF Plan, End, Goto
<1> HIDE DEF now, next
<1>6. Shape'
  BY <1>1, <1>2, <1>5 DEF Shape, Phases, Results
<1>7. \A d \in Client \ {c} : Undone(d) /\ disturbed'[d] = disturbed[d]
  BY <1>1, <1>2, <1>5 DEF Shape, Undone
<1>8. \A d \in Client \ {c} : ClientOK(d)'
  BY <1>2, <1>7, OthersKeep
<1>9. ClientOK(c)'
  <2>1. \/ pc'[c] = "idle" /\ result'[c] = "refused"
        \/ pc'[c] = "idle" /\ result'[c] = "unchanged" /\ next = now
        \/ pc'[c] = "read" /\ result'[c] = result[c] /\ ~Refused(next, now)
    BY <1>1, <1>5 DEF Shape
  <2>2. result[c] = "none"
    BY <1>1, <1>2 DEF ClientOK, Planned
  <2>3. Planned(c)'
    <3>1. next = DesiredBy(call[c], now) /\ now = View(table)
      BY DEF next, now
    <3> QED BY <1>2, <1>3, <1>4, <2>1, <2>2, <3>1 DEF Planned
  <2>4. current'[c] \subseteq Vlan /\ desired'[c] \subseteq Vlan
    BY <1>3, <1>4 DEF Sound
  <2>5. result'[c] \in {"changed", "unchanged"} => table' = Encode(desired'[c])
    BY <1>2, <1>3, <1>4, <2>1, <2>2
  <2> QED BY <2>3, <2>4, <2>5 DEF ClientOK
<1> QED BY <1>6, <1>8, <1>9, InvByClientNext

\* The library's GET: what is written still differs so from what is stored.
LEMMA ReadKeepsInv ==
  ASSUME Inv, NEW c \in Client, Read(c)
  PROVE  Inv'
<1> DEFINE now == View(table)
<1>1. Shape /\ \A d \in Client : ClientOK(d)
  BY InvByClient
<1>2. /\ pc[c] = "read" /\ disturbed' = [disturbed EXCEPT ![c] = FALSE]
      /\ UNCHANGED <<table, edits, call, current, desired, ops>>
  BY DEF Read, Looks
<1>3. \/ /\ pc' = [pc EXCEPT ![c] = "idle"] /\ result' = [result EXCEPT ![c] = "refused"]
      \/ /\ pc' = [pc EXCEPT ![c] = "idle"] /\ result' = [result EXCEPT ![c] = "unchanged"]
         /\ now = desired[c]
      \/ /\ pc' = [pc EXCEPT ![c] = "post"] /\ result' = result
         /\ now = current[c]
  BY DEF Read, End, Goto, Same
<1>4. table \in Table /\ Encode(now) = table
  BY <1>1, ViewIsSound DEF Shape
<1> HIDE DEF now
<1>5. Shape'
  BY <1>1, <1>2, <1>3 DEF Shape, Phases, Results
<1>6. \A d \in Client \ {c} : Undone(d) /\ disturbed'[d] = disturbed[d]
  BY <1>1, <1>2, <1>3 DEF Shape, Undone
<1>7. \A d \in Client \ {c} : ClientOK(d)'
  BY <1>2, <1>6, OthersKeep
<1>8. ClientOK(c)'
  <2>1. /\ disturbed'[c] = FALSE
        /\ \/ pc'[c] = "idle" /\ result'[c] = "refused"
           \/ pc'[c] = "idle" /\ result'[c] = "unchanged" /\ now = desired[c]
           \/ pc'[c] = "post" /\ result'[c] = result[c] /\ now = current[c]
    BY <1>1, <1>2, <1>3 DEF Shape
  <2>2. Planned(c) /\ result[c] = "none"
    BY <1>1, <1>2 DEF ClientOK, Planned
  <2>3. Planned(c)'
    BY <1>2, <2>1, <2>2 DEF Planned, now
  <2>4. result'[c] \in {"changed", "unchanged"} => table' = Encode(desired'[c])
    BY <1>2, <1>4, <2>1, <2>2
  <2> QED BY <1>1, <1>2, <2>3, <2>4 DEF ClientOK
<1> QED BY <1>5, <1>7, <1>8, InvByClientNext

\* Whatever the switch makes of the rows it is sent is a table.
LEMMA PostKeepsInv ==
  ASSUME Inv, NEW c \in Client, NEW answered \in BOOLEAN, Post(c, answered)
  PROVE  Inv'
<1>1. Shape /\ \A d \in Client : ClientOK(d)
  BY InvByClient
<1>2. /\ pc[c] = "post"
      /\ table' \in {Encode(desired[c]), Encode(Positionless(Encode(desired[c]))), table}
      /\ Disturbs(Client \ {c})
      /\ UNCHANGED <<edits, call, current, desired, ops>>
  BY DEF Post
<1>3. /\ pc' \in [Client -> Phases] /\ result' \in [Client -> Results]
      /\ \A d \in Client \ {c} : pc'[d] = pc[d] /\ result'[d] = result[d]
      /\ \/ pc'[c] = "verify" /\ result'[c] = result[c]
         \/ pc'[c] = "idle" /\ result'[c] = "failed"
  BY <1>1 DEF Post, End, Goto, Shape, Phases, Results
<1>4. table' \in Table
  <2>1. Sound(desired[c]) /\ ~Overfull(desired[c])
    BY <1>1, <1>2 DEF ClientOK, Planned, Refused
  <2>2. Encode(desired[c]) \in Table
    BY <2>1, EncodeIsTable
  <2>3. Encode(Positionless(Encode(desired[c]))) \in Table
    BY <2>2, PositionlessIsSound, EncodeIsTable
  <2> QED BY <1>1, <1>2, <2>2, <2>3 DEF Shape
<1>5. /\ disturbed' \in [Client -> BOOLEAN]
      /\ \A d \in Client \ {c} : disturbed'[d] = (disturbed[d] \/ table' # table)
  BY <1>1, <1>2 DEF Disturbs, Shape
<1>6. Shape'
  BY <1>1, <1>2, <1>3, <1>4, <1>5 DEF Shape
<1>7. ASSUME NEW d \in Client \ {c}
      PROVE  ClientOK(d)'
  <2>1. Undone(d)
    BY <1>2, <1>3 DEF Undone
  <2>2. disturbed[d] \in BOOLEAN
    BY <1>1 DEF Shape
  <2>3. disturbed'[d] = disturbed[d] \/ table' # table
    BY <1>5, <2>2
  <2> QED BY <1>1, <1>5, <2>1, <2>3, Bystander
<1>8. ClientOK(c)'
  <2>1. Planned(c) /\ result[c] = "none"
    BY <1>1, <1>2 DEF ClientOK, Planned
  <2>2. Planned(c)'
    BY <1>2, <1>3, <2>1 DEF Planned
  <2> QED BY <1>1, <1>2, <1>3, <2>1, <2>2 DEF ClientOK
<1> QED BY <1>6, <1>7, <1>8, InvByClientNext

\* A call that ends reports a table that is as it was desired.
LEMMA EndKeepsInv ==
  ASSUME Inv, NEW c \in Client, NEW r \in Results, End(c, r),
         r \in {"changed", "unchanged"} => table = Encode(desired[c]),
         UNCHANGED <<table, edits, call, current, desired, ops>>,
         disturbed' \in [Client -> BOOLEAN],
         \A d \in Client \ {c} : disturbed'[d] = disturbed[d]
  PROVE  Inv'
<1>1. Shape /\ \A d \in Client : ClientOK(d)
  BY InvByClient
<1>2. pc' = [pc EXCEPT ![c] = "idle"] /\ result' = [result EXCEPT ![c] = r]
  BY DEF End
<1>3. Shape'
  BY <1>1, <1>2 DEF Shape, Phases
<1>4. \A d \in Client \ {c} : Undone(d)
  BY <1>1, <1>2 DEF Shape, Undone
<1>5. \A d \in Client \ {c} : ClientOK(d)'
  BY <1>4, OthersKeep
<1>6. pc'[c] = "idle" /\ result'[c] = r
  BY <1>1, <1>2 DEF Shape
<1>7. ClientOK(c)'
  BY <1>1, <1>6 DEF ClientOK, Planned
<1> QED BY <1>3, <1>5, <1>7, InvByClientNext

\* Rows that are moved or changed in the web UI still make a table.
LEMMA WebEditKeepsInv ==
  ASSUME Inv, WebEdit
  PROVE  Inv'
<1>1. Shape /\ \A d \in Client : ClientOK(d)
  BY InvByClient
<1>2. /\ edits < MaxEdits /\ edits' = edits + 1 /\ Disturbs(Client)
      /\ UNCHANGED <<pc, call, current, desired, result, ops>>
  BY DEF WebEdit
<1>3. PICK n \in 0..MaxRows : /\ table \in [1..n -> TableRow]
                              /\ \A i, j \in 1..n : table[i].vid = table[j].vid => i = j
  BY <1>1, TableShape DEF Shape
<1>4. table' \in Table
  <2>1. ASSUME NEW i \in 1..n, NEW j \in 1..n,
               table' = [table EXCEPT ![i] = table[j], ![j] = table[i]]
        PROVE  table' \in Table
    <3>1. table' = [m \in 1..n |-> IF m = j THEN table[i]
                                   ELSE IF m = i THEN table[j] ELSE table[m]]
      BY <1>3, <2>1
    <3>2. table' \in [1..n -> TableRow]
      BY <1>3, <3>1
    <3>3. \A k, m \in 1..n : table'[k].vid = table'[m].vid => k = m
      BY <1>3, <3>1
    <3> QED BY <3>2, <3>3, TableShape
  <2>2. ASSUME NEW i \in 1..n, NEW k \in Setting,
               table' = [table EXCEPT ![i].set[k] = 1 - @]
        PROVE  table' \in Table
    <3> DEFINE old == table[i].set
               new == [old EXCEPT ![k] = 1 - @]
               row == [vid |-> table[i].vid, set |-> new]
    <3>1. /\ table[i] = [vid |-> table[i].vid, set |-> old]
          /\ table[i].vid \in VlanId /\ old \in [Setting -> {0, 1}]
      BY <1>3 DEF TableRow
    <3>2. new \in [Setting -> {0, 1}]
      <4> HIDE DEF old
      <4>1. 1 - old[k] \in {0, 1}
        BY <3>1
      <4> QED BY <3>1, <4>1
    <3>3. table' = [table EXCEPT ![i] = [table[i] EXCEPT !.set = new]]
      BY <2>2
    <3> HIDE DEF new, old
    <3>4. [table[i] EXCEPT !.set = new] = row
      BY <3>1
    <3>5. row \in TableRow
      BY <3>1, <3>2 DEF TableRow
    <3>6. table' = [m \in 1..n |-> IF m = i THEN row ELSE table[m]]
      BY <1>3, <3>3, <3>4
    <3>7. row.vid = table[i].vid
      OBVIOUS
    <3> HIDE DEF row
    <3>8. table' \in [1..n -> TableRow]
      BY <1>3, <3>5, <3>6
    <3>9. \A m \in 1..n : table'[m].vid = table[m].vid
      BY <3>6, <3>7
    <3>10. \A m, p \in 1..n : table'[m].vid = table'[p].vid => m = p
      BY <1>3, <3>9
    <3> QED BY <3>8, <3>10, TableShape
  <2> QED BY <1>3, <2>1, <2>2 DEF WebEdit
<1>5. edits' \in 0..MaxEdits
  BY <1>1, <1>2, VlanAssumption DEF Shape
<1>6. /\ disturbed' \in [Client -> BOOLEAN]
      /\ \A d \in Client : disturbed'[d] = (disturbed[d] \/ table' # table)
  BY <1>1, <1>2 DEF Disturbs, Shape
<1>7. Shape'
  BY <1>1, <1>2, <1>4, <1>5, <1>6 DEF Shape
<1>8. ASSUME NEW d \in Client
      PROVE  ClientOK(d)'
  <2>1. Undone(d)
    BY <1>2 DEF Undone
  <2>2. disturbed[d] \in BOOLEAN
    BY <1>1 DEF Shape
  <2>3. disturbed'[d] = disturbed[d] \/ table' # table
    BY <1>6, <2>2
  <2> QED BY <1>1, <1>6, <2>1, <2>3, Bystander
<1> QED BY <1>7, <1>8, InvByClientNext

\* Whatever happens, the invariant holds.
THEOREM InvCorrect == Spec => []Inv
<1>1. Inv /\ [Next]_vars => Inv'
  <2> SUFFICES ASSUME Inv, [Next]_vars PROVE Inv'
    OBVIOUS
  <2>1. ASSUME NEW c \in Client, NEW a \in Call, Begin(c, a)
        PROVE  Inv'
    BY <2>1, BeginKeepsInv
  <2>2. ASSUME NEW c \in Client, Plan(c)
        PROVE  Inv'
    BY <2>2, PlanKeepsInv
  <2>3. ASSUME NEW c \in Client, Read(c)
        PROVE  Inv'
    BY <2>3, ReadKeepsInv
  <2>4. ASSUME NEW c \in Client, Verify(c)
        PROVE  Inv'
    <3>1. /\ disturbed' = [disturbed EXCEPT ![c] = FALSE]
          /\ End(c, IF table = Encode(desired[c]) THEN "changed" ELSE "protocol")
          /\ UNCHANGED <<table, edits, call, current, desired, ops>>
      BY <2>4 DEF Verify, Looks
    <3>2. /\ disturbed' \in [Client -> BOOLEAN]
          /\ \A d \in Client \ {c} : disturbed'[d] = disturbed[d]
      BY <3>1, InvByClient DEF Shape
    <3>3. CASE table = Encode(desired[c])
      <4>1. End(c, "changed") /\ "changed" \in Results
        BY <3>1, <3>3 DEF Results
      <4> QED BY <3>1, <3>2, <3>3, <4>1, EndKeepsInv
    <3>4. CASE table # Encode(desired[c])
      <4>1. End(c, "protocol") /\ "protocol" \in Results
        BY <3>1, <3>4 DEF Results
      <4> QED BY <3>1, <3>2, <4>1, EndKeepsInv
    <3> QED BY <3>3, <3>4
  <2>5. ASSUME NEW c \in Client, RequestFails(c)
        PROVE  Inv'
    <3>1. disturbed' \in [Client -> BOOLEAN] /\ disturbed' = disturbed
      BY <2>5, InvByClient DEF Shape, RequestFails
    <3>2. "failed" \in Results
      BY DEF Results
    <3> QED BY <2>5, <3>1, <3>2, EndKeepsInv DEF RequestFails
  <2>6. ASSUME NEW c \in Client, NEW answered \in BOOLEAN, Post(c, answered)
        PROVE  Inv'
    BY <2>6, PostKeepsInv
  <2>7. CASE WebEdit
    BY <2>7, WebEditKeepsInv
  <2>8. CASE UNCHANGED vars
    BY <2>8 DEF vars, Inv, TypeOK, ReportsStand, Planned
  <2> QED BY <2>1, <2>2, <2>3, <2>4, <2>5, <2>6, <2>7, <2>8 DEF Next
<1> QED BY InvHoldsInitially, <1>1, PTL DEF Spec

-----------------------------------------------------------------------------
(* What follows.                                                            *)

\* Whatever the clients write, and whatever the switch makes of it, its table is
\* one that the library can parse and fits its limit.
THEOREM TypeCorrect == Spec => []TypeOK
<1>1. Inv => TypeOK
  BY DEF Inv
<1> QED BY <1>1, InvCorrect, PTL

\* Until somebody else changes the table it is what the last success or no-op
\* report said, rows and order.
THEOREM ReportsStandCorrect == Spec => []ReportsStand
<1>1. Inv => ReportsStand
  BY DEF Inv
<1> QED BY <1>1, InvCorrect, PTL

\* A change to one VLAN sends the other rows as they are, in the switch's order.
THEOREM UntouchedRowsKeepOrderCorrect == Spec => []UntouchedRowsKeepOrder
<1>1. Inv => UntouchedRowsKeepOrder
  <2> SUFFICES ASSUME Inv, NEW c \in Client, Sending(c), call[c].kind # "playbook"
               PROVE  Others(Encode(desired[c]), call[c].vid) = Others(table, call[c].vid)
    BY DEF UntouchedRowsKeepOrder
  <2>1. call[c] \in Call /\ table \in Table
    BY InvByClient DEF Shape
  <2>2. desired[c] = DesiredBy(call[c], View(table))
    BY DEF Inv, Planned, Sending
  <2> QED BY <2>1, <2>2, OthersAreSentInOrder
<1> QED BY <1>1, InvCorrect, PTL

\* No table that is sent moves port 6 in or out of a VLAN of the switch.
THEOREM PortSixStaysCorrect == Spec => []PortSixStays
<1>1. Inv => PortSixStays
  BY DEF Inv, Planned, Sending, PortSixStays, Refused
<1> QED BY <1>1, InvCorrect, PTL
=============================================================================
