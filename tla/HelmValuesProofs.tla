-------------------------- MODULE HelmValuesProofs --------------------------
(***************************************************************************)
(* Proofs about HelmValues: that sorting and merging give each key the     *)
(* value it should have, for any number of selectors and AddonValues.      *)
(* Inductions are by the smallest counterexample.                          *)
(***************************************************************************)
EXTENDS HelmValues, FiniteSetTheorems, TLAPS

-----------------------------------------------------------------------------
(* Loops. *)

\* A set of numbers has a smallest one.
LEMMA Smallest ==
    ASSUME NEW T, T \subseteq Nat, T # {}
    PROVE  \E x \in T : \A y \in T : x <= y
<1> DEFINE R == OpToRel(<, Nat)
<1>1. IsWellFoundedOn(R, Nat)
  BY NatLessThanWellFounded
<1>2. \A x, y \in Nat : <<y, x>> \in R <=> y < x
  BY DEF OpToRel
<1> HIDE DEF R
<1>3. PICK x \in T : \A y \in T : <<y, x>> \notin R
  BY <1>1, WFMin
<1>4. \A y \in T : ~(y < x)
  BY <1>2, <1>3
<1>5. QED BY <1>4

\* MergeAll goes through the maps one by one.
LEMMA MergeSteps ==
    ASSUME NEW maps, Len(maps) \in Nat
    PROVE  \E merged :
              /\ merged[0] = EmptyMap /\ MergeAll(maps) = merged[Len(maps)]
              /\ \A i \in 1..Len(maps) : merged[i] = DeepMerge(merged[i - 1], maps[i])
<1> DEFINE n == Len(maps)
           Stage(g, i) == IF i = 0 THEN EmptyMap ELSE DeepMerge(g[i - 1], maps[i])
           Upto(k) == \E g : g = [i \in 0..k |-> Stage(g, i)]
           bad == {k \in 0..n : ~Upto(k)}
<1> HIDE DEF n
<1>1. Upto(0)
  <2> DEFINE g == [i \in 0..0 |-> EmptyMap]
  <2>1. g = [i \in 0..0 |-> Stage(g, i)]
    OBVIOUS
  <2>2. QED BY <2>1
<1>2. ASSUME NEW k \in Nat, Upto(k) PROVE Upto(k + 1)
  <2>1. PICK g : g = [i \in 0..k |-> Stage(g, i)]
    BY <1>2
  <2> DEFINE last == DeepMerge(g[k], maps[k + 1])
             f == [i \in 0..(k + 1) |-> IF i = k + 1 THEN last ELSE g[i]]
  <2>2. \A i \in 0..(k + 1) : f[i] = Stage(f, i)
    <3> TAKE i \in 0..(k + 1)
    <3>1. CASE i = k + 1
      <4>1. f[i] = last /\ f[k] = g[k] /\ i # 0 /\ i - 1 = k
        BY <3>1
      <4>2. QED BY <3>1, <4>1
    <3>2. CASE i \in 1..k
      <4>1. f[i] = g[i] /\ f[i - 1] = g[i - 1] /\ i # 0
        BY <3>2
      <4>2. i \in 0..k
        BY <3>2
      <4>3. g[i] = Stage(g, i)
        BY <2>1, <4>2, Zenon
      <4> HIDE DEF f
      <4>4. QED BY <4>1, <4>3
    <3>3. CASE i = 0
      <4>1. f[i] = g[i] /\ g[i] = Stage(g, i)
        BY <2>1, <3>3
      <4>2. QED BY <3>3, <4>1
    <3>4. QED BY <3>1, <3>2, <3>3
  <2>3. f = [i \in 0..(k + 1) |-> Stage(f, i)]
    BY <2>2
  <2> HIDE DEF f
  <2>4. QED BY <2>3
<1>3. bad = {}
  <2> SUFFICES ASSUME bad # {} PROVE FALSE
    OBVIOUS
  <2>1. bad \subseteq Nat
    BY DEF n
  <2> HIDE DEF Upto
  <2>2. PICK k \in bad : \A j \in bad : k <= j
    <3> HIDE DEF bad
    <3>1. QED BY <2>1, Smallest
  <2>3. k \in 0..n /\ n \in Nat /\ ~Upto(k) /\ k # 0
    BY <1>1, <2>2 DEF n
  <2>4. k - 1 \in Nat /\ k - 1 \in 0..n /\ k - 1 \notin bad
    BY <2>2, <2>3
  <2>5. Upto(k - 1)
    BY <2>4
  <2>6. Upto((k - 1) + 1)
    BY <1>2, <2>4, <2>5
  <2>7. (k - 1) + 1 = k
    BY <2>3
  <2>8. QED BY <2>3, <2>6, <2>7
<1>4. Upto(n)
  <2> HIDE DEF Upto
  <2>1. n \in 0..n
    BY DEF n
  <2>2. QED BY <1>3, <2>1
<1> DEFINE merged == CHOOSE g : g = [i \in 0..n |-> Stage(g, i)]
<1>5. merged = [i \in 0..n |-> Stage(merged, i)]
  BY <1>4
<1>6. MergeAll(maps) = merged[n]
  BY DEF MergeAll, n
<1> HIDE DEF merged
<1>7. \A i \in 0..n : merged[i] = Stage(merged, i)
  BY <1>5, Zenon
<1>8. 0 \in 0..n /\ \A i \in 1..n : i \in 0..n /\ i # 0
  BY DEF n
<1>9. QED BY <1>6, <1>7, <1>8 DEF n

-----------------------------------------------------------------------------
(* Merging. *)

\* The leaves of a map: below a key, or at a key.
Below(k, l, u) == [path |-> <<k, l>>, val |-> u]
At(k, u)       == [path |-> <<k>>, val |-> u]

HasBelow(m, k, l, u) == /\ k \in DOMAIN m /\ m[k].map
                        /\ l \in DOMAIN m[k].sub /\ u = m[k].sub[l].val
HasAt(m, k, u)       == k \in DOMAIN m /\ ~m[k].map /\ u = m[k].val

LEMMA LeavesOf ==
    ASSUME NEW m
    PROVE  /\ \A leaf \in Leaves(m) : \/ \E k, l, u : leaf = Below(k, l, u)
                                      \/ \E k, u : leaf = At(k, u)
           /\ \A k, l, u : Below(k, l, u) \in Leaves(m) <=> HasBelow(m, k, l, u)
           /\ \A k, u : At(k, u) \in Leaves(m) <=> HasAt(m, k, u)
<1> DEFINE Part(k) == IF m[k].map
                      THEN {Below(k, l, m[k].sub[l].val) : l \in DOMAIN m[k].sub}
                      ELSE {At(k, m[k].val)}
<1>1. Leaves(m) = UNION {Part(k) : k \in DOMAIN m}
  BY DEF Leaves, Below, At
<1>2. \A leaf : leaf \in Leaves(m) <=> \E k \in DOMAIN m : leaf \in Part(k)
  BY <1>1
<1>3. \A k, l, u, j, i, v : Below(k, l, u) = Below(j, i, v) <=> k = j /\ l = i /\ u = v
  BY DEF Below
<1>4. \A k, u, j, v : At(k, u) = At(j, v) <=> k = j /\ u = v
  BY DEF At
<1>5. \A k, l, u, j, v : Below(k, l, u) # At(j, v)
  <2>1. \A k, l, j : <<k, l>> # <<j>>
    OBVIOUS
  <2>2. \A k, l, u, j, v : Below(k, l, u).path = <<k, l>> /\ At(j, v).path = <<j>>
    BY DEF Below, At
  <2>3. QED BY <2>1, <2>2
<1>6. \A leaf, k : leaf \in Part(k) <=>
          \/ m[k].map /\ \E l \in DOMAIN m[k].sub : leaf = Below(k, l, m[k].sub[l].val)
          \/ ~m[k].map /\ leaf = At(k, m[k].val)
  OBVIOUS
<1> HIDE DEF Part
<1>7. QED BY <1>2, <1>3, <1>4, <1>5, <1>6 DEF HasBelow, HasAt

\* Leaves displace each other if one's path is where the other's starts.
LEMMA Displacing ==
    /\ \A k, l, u, j, i, v : Displaces(Below(k, l, u), Below(j, i, v)) <=> k = j /\ l = i
    /\ \A k, l, u, j, v : Displaces(Below(k, l, u), At(j, v)) <=> k = j
    /\ \A k, u, j, i, v : Displaces(At(k, u), Below(j, i, v)) <=> k = j
    /\ \A k, u, j, v : Displaces(At(k, u), At(j, v)) <=> k = j
<1>1. \A k, l, j, i : IsPrefix(<<k, l>>, <<j, i>>) <=> k = j /\ l = i
  BY DEF IsPrefix
<1>2. \A k, l, j : ~IsPrefix(<<k, l>>, <<j>>)
  BY DEF IsPrefix
<1>3. \A k, j, i : IsPrefix(<<k>>, <<j, i>>) <=> k = j
  BY DEF IsPrefix
<1>4. \A k, j : IsPrefix(<<k>>, <<j>>) <=> k = j
  BY DEF IsPrefix
<1>5. \A k, l, u, j, v : Below(k, l, u).path = <<k, l>> /\ At(j, v).path = <<j>>
  BY DEF Below, At
<1>6. ASSUME NEW x, NEW y, NEW p, NEW q, x.path = p, y.path = q
      PROVE  Displaces(x, y) <=> IsPrefix(p, q) \/ IsPrefix(q, p)
  BY <1>6 DEF Displaces
<1>7. ASSUME NEW k, NEW l, NEW u, NEW j, NEW i, NEW v
      PROVE  Displaces(Below(k, l, u), Below(j, i, v)) <=> k = j /\ l = i
  <2>1. Below(k, l, u).path = <<k, l>> /\ Below(j, i, v).path = <<j, i>>
    BY <1>5
  <2>2. Displaces(Below(k, l, u), Below(j, i, v)) <=>
            IsPrefix(<<k, l>>, <<j, i>>) \/ IsPrefix(<<j, i>>, <<k, l>>)
    BY <1>6, <2>1, Zenon
  <2>3. QED BY <1>1, <2>2
<1>8. ASSUME NEW k, NEW l, NEW u, NEW j, NEW v
      PROVE  /\ Displaces(Below(k, l, u), At(j, v)) <=> k = j
             /\ Displaces(At(j, v), Below(k, l, u)) <=> k = j
  <2>1. Below(k, l, u).path = <<k, l>> /\ At(j, v).path = <<j>>
    BY <1>5
  <2>2. Displaces(Below(k, l, u), At(j, v)) <=>
            IsPrefix(<<k, l>>, <<j>>) \/ IsPrefix(<<j>>, <<k, l>>)
    BY <1>6, <2>1, Zenon
  <2>3. Displaces(At(j, v), Below(k, l, u)) <=>
            IsPrefix(<<j>>, <<k, l>>) \/ IsPrefix(<<k, l>>, <<j>>)
    BY <1>6, <2>1, Zenon
  <2>4. QED BY <1>2, <1>3, <2>2, <2>3
<1>9. ASSUME NEW k, NEW u, NEW j, NEW v
      PROVE  Displaces(At(k, u), At(j, v)) <=> k = j
  <2>1. At(k, u).path = <<k>> /\ At(j, v).path = <<j>>
    BY <1>5
  <2>2. Displaces(At(k, u), At(j, v)) <=> IsPrefix(<<k>>, <<j>>) \/ IsPrefix(<<j>>, <<k>>)
    BY <1>6, <2>1, Zenon
  <2>3. QED BY <1>4, <2>2
<1>10. QED BY <1>7, <1>8, <1>9

\* The merge of two maps has the leaves of the second, and those of the first
\* that none of them displaces.
LEMMA MergedLeaves ==
    ASSUME NEW b, NEW o, IsContent(b), IsContent(o)
    PROVE  /\ IsContent(DeepMerge(b, o))
           /\ \A leaf : leaf \in Leaves(DeepMerge(b, o)) <=>
                 \/ leaf \in Leaves(o)
                 \/ leaf \in Leaves(b) /\ \A later \in Leaves(o) : ~Displaces(later, leaf)
<1> DEFINE d == DeepMerge(b, o)
           Kept(leaf) == \A later \in Leaves(o) : ~Displaces(later, leaf)
<1>1. DOMAIN d = DOMAIN b \union DOMAIN o
  BY DEF DeepMerge
<1>2. \A k \in DOMAIN b \ DOMAIN o : d[k] = b[k]
  BY DEF DeepMerge
<1>3. \A k \in DOMAIN o : ~(k \in DOMAIN b /\ b[k].map /\ o[k].map) => d[k] = o[k]
  BY DEF DeepMerge
<1>4. \A k \in DOMAIN b \cap DOMAIN o : b[k].map /\ o[k].map =>
          d[k] = MapOf(Overlaid(b[k].sub, o[k].sub))
  BY DEF DeepMerge
<1>5. \A f, g : /\ MapOf(Overlaid(f, g)).map
                /\ DOMAIN MapOf(Overlaid(f, g)).sub = DOMAIN f \union DOMAIN g
                /\ \A l \in DOMAIN g : MapOf(Overlaid(f, g)).sub[l] = g[l]
                /\ \A l \in DOMAIN f \ DOMAIN g : MapOf(Overlaid(f, g)).sub[l] = f[l]
  BY DEF MapOf, Overlaid
<1> HIDE DEF d
<1>6. IsContent(d)
  <2> SUFFICES ASSUME NEW k \in DOMAIN d, d[k].map
               PROVE  DOMAIN d[k].sub # {} /\ \A l \in DOMAIN d[k].sub : ~d[k].sub[l].map
    BY DEF IsContent
  <2>1. CASE d[k] = b[k] /\ k \in DOMAIN b
    BY <2>1 DEF IsContent
  <2>2. CASE d[k] = o[k] /\ k \in DOMAIN o
    BY <2>2 DEF IsContent
  <2>3. CASE k \in DOMAIN b \cap DOMAIN o /\ b[k].map /\ o[k].map
    <3>1. d[k] = MapOf(Overlaid(b[k].sub, o[k].sub))
      BY <1>4, <2>3
    <3>2. /\ DOMAIN b[k].sub # {} /\ \A l \in DOMAIN b[k].sub : ~b[k].sub[l].map
          /\ DOMAIN o[k].sub # {} /\ \A l \in DOMAIN o[k].sub : ~o[k].sub[l].map
      BY <2>3 DEF IsContent
    <3>3. QED BY <1>5, <3>1, <3>2
  <2>4. QED BY <1>1, <1>2, <1>3, <2>1, <2>2, <2>3
<1>7. \A k, l, u : HasBelow(d, k, l, u) <=>
          \/ HasBelow(o, k, l, u)
          \/ HasBelow(b, k, l, u) /\ ~(\E v : HasAt(o, k, v) \/ HasBelow(o, k, l, v))
  <2> TAKE k, l, u
  <2>1. CASE k \notin DOMAIN o
    BY <1>1, <1>2, <2>1 DEF HasBelow, HasAt
  <2>2. CASE k \in DOMAIN o /\ ~(k \in DOMAIN b /\ b[k].map /\ o[k].map)
    BY <1>1, <1>3, <2>2 DEF HasBelow, HasAt
  <2>3. CASE k \in DOMAIN b \cap DOMAIN o /\ b[k].map /\ o[k].map
    <3>1. d[k] = MapOf(Overlaid(b[k].sub, o[k].sub)) /\ k \in DOMAIN d
      BY <1>1, <1>4, <2>3
    <3>2. /\ d[k].map /\ DOMAIN d[k].sub = DOMAIN b[k].sub \union DOMAIN o[k].sub
          /\ \A i \in DOMAIN o[k].sub : d[k].sub[i] = o[k].sub[i]
          /\ \A i \in DOMAIN b[k].sub \ DOMAIN o[k].sub : d[k].sub[i] = b[k].sub[i]
      BY <1>5, <3>1
    <3>3. QED BY <2>3, <3>1, <3>2 DEF HasBelow, HasAt
  <2>4. QED BY <2>1, <2>2, <2>3
<1>8. \A k, u : HasAt(d, k, u) <=>
          \/ HasAt(o, k, u)
          \/ HasAt(b, k, u) /\ ~(\E v : HasAt(o, k, v) \/ \E l : HasBelow(o, k, l, v))
  <2> TAKE k, u
  <2>1. CASE k \notin DOMAIN o
    BY <1>1, <1>2, <2>1 DEF HasBelow, HasAt
  <2>2. CASE k \in DOMAIN o /\ ~o[k].map
    BY <1>1, <1>3, <2>2 DEF HasBelow, HasAt
  <2>3. CASE k \in DOMAIN o /\ o[k].map
    <3>1. PICK l : l \in DOMAIN o[k].sub
      BY <2>3 DEF IsContent
    <3>2. HasBelow(o, k, l, o[k].sub[l].val) /\ ~HasAt(o, k, u)
      BY <2>3, <3>1 DEF HasBelow, HasAt
    <3>3. ~HasAt(d, k, u)
      <4>1. CASE k \in DOMAIN b /\ b[k].map
        BY <1>4, <1>5, <2>3, <4>1 DEF HasAt
      <4>2. CASE ~(k \in DOMAIN b /\ b[k].map)
        BY <1>3, <2>3, <4>2 DEF HasAt
      <4>3. QED BY <4>1, <4>2
    <3>4. QED BY <3>2, <3>3
  <2>4. QED BY <2>1, <2>2, <2>3
<1>9. \A k, l, u : Kept(Below(k, l, u)) <=> ~(\E v : HasAt(o, k, v) \/ HasBelow(o, k, l, v))
  BY LeavesOf, Displacing
<1>10. \A k, u : Kept(At(k, u)) <=> ~(\E v : HasAt(o, k, v) \/ \E l : HasBelow(o, k, l, v))
  BY LeavesOf, Displacing
<1> HIDE DEF Kept
<1>11. ASSUME NEW leaf
       PROVE  leaf \in Leaves(d) <=> leaf \in Leaves(o) \/ (leaf \in Leaves(b) /\ Kept(leaf))
  <2>1. ASSUME NEW k, NEW l, NEW u, leaf = Below(k, l, u)
        PROVE  leaf \in Leaves(d) <=> leaf \in Leaves(o) \/ (leaf \in Leaves(b) /\ Kept(leaf))
    BY <1>7, <1>9, <2>1, LeavesOf
  <2>2. ASSUME NEW k, NEW u, leaf = At(k, u)
        PROVE  leaf \in Leaves(d) <=> leaf \in Leaves(o) \/ (leaf \in Leaves(b) /\ Kept(leaf))
    BY <1>8, <1>10, <2>2, LeavesOf
  <2>3. leaf \in Leaves(d) \/ leaf \in Leaves(o) \/ leaf \in Leaves(b) =>
            (\E k, l, u : leaf = Below(k, l, u)) \/ (\E k, u : leaf = At(k, u))
    BY LeavesOf
  <2>4. QED BY <2>1, <2>2, <2>3
<1>12. QED BY <1>6, <1>11 DEF d, Kept

-----------------------------------------------------------------------------
(* Sorting. *)

\* before orders S: nothing is before itself, of two one is before the other.
Orders(before, S) ==
    /\ \A x \in S : <<x, x>> \notin before
    /\ \A x, y, z \in S : <<x, y>> \in before /\ <<y, z>> \in before => <<x, z>> \in before
    /\ \A x, y \in S : x = y \/ <<x, y>> \in before \/ <<y, x>> \in before

\* Arranged is what it says: all elements, in the order.
LEMMA ArrangedInOrder ==
    ASSUME NEW S, IsFiniteSet(S), NEW before, Orders(before, S)
    PROVE  LET s == Arranged(S, before)
               n == Cardinality(S)
           IN  /\ n \in Nat /\ s \in [1..n -> S]
               /\ \A x \in S : \E i \in 1..n : s[i] = x
               /\ \A i, j \in 1..n : i < j <=> <<s[i], s[j]>> \in before
<1> DEFINE s == Arranged(S, before)
           n == Cardinality(S)
           Lower(x) == {y \in S : <<y, x>> \in before}
           rank == [x \in S |-> Cardinality(Lower(x))]
<1>1. n \in Nat
  BY FS_CardinalityType
<1>2. \A x \in S : IsFiniteSet(Lower(x)) /\ Cardinality(Lower(x)) \in Nat
  BY FS_Subset, FS_CardinalityType
<1>3. ASSUME NEW x \in S PROVE Cardinality(Lower(x)) \in 0..(n - 1)
  <2>1. Lower(x) \in SUBSET S /\ x \notin Lower(x)
    BY DEF Orders
  <2>2. Cardinality(Lower(x)) <= n /\ Cardinality(Lower(x)) # n
    <3> HIDE DEF Lower
    <3>1. QED BY <2>1, FS_Subset
  <2> HIDE DEF Lower, n
  <2>3. QED BY <1>1, <1>2, <2>2
<1>4. ASSUME NEW x \in S, NEW y \in S, <<x, y>> \in before
      PROVE  Cardinality(Lower(x)) < Cardinality(Lower(y))
  <2>1. Lower(x) \in SUBSET Lower(y) /\ x \in Lower(y) /\ x \notin Lower(x)
    BY <1>4 DEF Orders
  <2> HIDE DEF Lower
  <2>2. /\ Cardinality(Lower(x)) <= Cardinality(Lower(y))
        /\ Cardinality(Lower(x)) # Cardinality(Lower(y))
    BY <1>2, <2>1, FS_Subset
  <2>3. QED BY <1>2, <2>2
<1> HIDE DEF Lower, n
<1>5. \A x, y \in S : rank[x] = rank[y] => x = y
  <2>1. ASSUME NEW x \in S, NEW y \in S, <<x, y>> \in before PROVE rank[x] # rank[y]
    BY <1>2, <1>4, <2>1
  <2> HIDE DEF rank
  <2>2. QED BY <2>1 DEF Orders
<1>6. \A x, y \in S : rank[x] < rank[y] => <<x, y>> \in before
  <2>1. ASSUME NEW x \in S, NEW y \in S, rank[x] < rank[y] PROVE <<x, y>> \in before
    <3>1. rank[x] \in Nat /\ rank[y] \in Nat
      BY <1>2
    <3>2. x # y
      BY <2>1, <3>1
    <3>3. <<y, x>> \notin before
      <4>1. <<y, x>> \in before => rank[y] < rank[x]
        BY <1>4
      <4> HIDE DEF rank
      <4>2. QED BY <2>1, <3>1, <4>1
    <3>4. QED BY <3>2, <3>3 DEF Orders
  <2>2. QED BY <2>1
<1>7. rank \in Surjection(S, 0..(n - 1))
  <2>1. rank \in [S -> 0..(n - 1)]
    BY <1>3
  <2>2. rank \in Injection(S, 0..(n - 1))
    <3> HIDE DEF rank
    <3>1. QED BY <1>5, <2>1 DEF Injection, IsInjective
  <2>3. IsFiniteSet(0..(n - 1)) /\ Cardinality(0..(n - 1)) = n
    <3>1. n - 1 \in Int /\ (IF 0 > n - 1 THEN 0 ELSE n - 1 - 0 + 1) = n
      BY <1>1
    <3>2. QED BY <3>1, FS_Interval
  <2> HIDE DEF rank
  <2>4. QED BY <2>2, <2>3, FS_Injection DEF n
<1>8. \A i \in 1..n : s[i] \in S /\ rank[s[i]] = i - 1
  <2> TAKE i \in 1..n
  <2>1. i - 1 \in 0..(n - 1)
    BY <1>1
  <2>2. \E x \in S : rank[x] = i - 1
    <3> HIDE DEF rank
    <3>1. QED BY <1>7, <2>1 DEF Surjection
  <2>3. \E x \in S : Cardinality(Lower(x)) = i - 1
    BY <2>2
  <2>4. s[i] = CHOOSE x \in S : Cardinality(Lower(x)) = i - 1
    BY DEF Arranged, n, Lower
  <2> HIDE DEF s
  <2>5. s[i] \in S /\ Cardinality(Lower(s[i])) = i - 1
    BY <2>3, <2>4
  <2>6. QED BY <2>5
<1>9. s \in [1..n -> S]
  <2> DEFINE Nth(i) == CHOOSE x \in S : Cardinality({y \in S : <<y, x>> \in before}) = i - 1
  <2>1. s = [i \in 1..n |-> Nth(i)]
    BY DEF Arranged, n
  <2> HIDE DEF s, Nth
  <2>2. QED BY <1>8, <2>1
<1>10. \A x \in S : \E i \in 1..n : s[i] = x
  <2> TAKE x \in S
  <2>1. rank[x] \in 0..(n - 1)
    BY <1>3
  <2> DEFINE i == rank[x] + 1
  <2>2. i \in 1..n /\ i - 1 = rank[x]
    <3> HIDE DEF rank
    <3>1. QED BY <1>1, <2>1
  <2> HIDE DEF i, s, rank
  <2>3. s[i] = x
    BY <1>5, <1>8, <2>2
  <2>4. QED BY <2>2, <2>3
<1>11. \A i, j \in 1..n : i < j <=> <<s[i], s[j]>> \in before
  <2> TAKE i, j \in 1..n
  <2>1. rank[s[i]] = i - 1 /\ rank[s[j]] = j - 1 /\ s[i] \in S /\ s[j] \in S
    BY <1>8
  <2>2. <<s[i], s[j]>> \in before => rank[s[i]] < rank[s[j]]
    BY <1>4, <2>1
  <2> HIDE DEF rank, s
  <2>3. i < j <=> rank[s[i]] < rank[s[j]]
    BY <1>1, <2>1
  <2>4. QED BY <1>6, <2>1, <2>2, <2>3
<1>12. QED BY <1>1, <1>9, <1>10, <1>11 DEF n

-----------------------------------------------------------------------------
(* Merging in an order. *)

\* None of the leaves of m displaces leaf.
Free(m, leaf) == \A later \in Leaves(m) : ~Displaces(later, leaf)

\* The leaves of a merge of many maps: a leaf of one that no later one displaces.
LEMMA MergedAll ==
    ASSUME NEW maps, Len(maps) \in Nat, \A i \in 1..Len(maps) : IsContent(maps[i])
    PROVE  /\ IsContent(MergeAll(maps))
           /\ \A leaf : leaf \in Leaves(MergeAll(maps)) <=>
                 \E i \in 1..Len(maps) :
                    /\ leaf \in Leaves(maps[i])
                    /\ \A j \in 1..Len(maps) : j > i => Free(maps[j], leaf)
<1> DEFINE n == Len(maps)
           Latest(k, leaf) == \E i \in 1..k : /\ leaf \in Leaves(maps[i])
                                              /\ \A j \in 1..k : j > i => Free(maps[j], leaf)
<1>1. PICK merged : /\ merged[0] = EmptyMap /\ MergeAll(maps) = merged[n]
                    /\ \A i \in 1..n : merged[i] = DeepMerge(merged[i - 1], maps[i])
  BY MergeSteps
<1> DEFINE Good(k) == /\ IsContent(merged[k])
                      /\ \A leaf : leaf \in Leaves(merged[k]) <=> Latest(k, leaf)
           bad == {k \in 0..n : ~Good(k)}
<1>2. n \in Nat
  OBVIOUS
<1> HIDE DEF n
<1>3. Good(0)
  <2>1. DOMAIN merged[0] = {}
    BY <1>1 DEF EmptyMap
  <2>2. IsContent(merged[0]) /\ Leaves(merged[0]) = {}
    BY <2>1 DEF IsContent, Leaves
  <2>3. \A leaf : ~Latest(0, leaf)
    OBVIOUS
  <2>4. QED BY <2>2, <2>3
<1>4. ASSUME NEW k \in Nat, k + 1 \in 1..n, Good(k) PROVE Good(k + 1)
  <2>1. merged[k + 1] = DeepMerge(merged[k], maps[k + 1]) /\ IsContent(maps[k + 1])
    <3>1. (k + 1) - 1 = k
      OBVIOUS
    <3>2. merged[k + 1] = DeepMerge(merged[(k + 1) - 1], maps[k + 1])
      BY <1>1, <1>4
    <3>3. QED BY <1>4, <3>1, <3>2 DEF n
  <2>2. IsContent(merged[k]) /\ \A leaf : leaf \in Leaves(merged[k]) <=> Latest(k, leaf)
    BY <1>4
  <2>3. ASSUME NEW leaf
        PROVE  Latest(k + 1, leaf) <=>
                   leaf \in Leaves(maps[k + 1]) \/ (Latest(k, leaf) /\ Free(maps[k + 1], leaf))
    <3>1. 1..(k + 1) = (1..k) \union {k + 1} /\ \A i \in 1..k : k + 1 > i /\ ~(i > k + 1)
      OBVIOUS
    <3>2. ~(k + 1 > k + 1)
      OBVIOUS
    <3>3. ASSUME leaf \in Leaves(maps[k + 1]) PROVE Latest(k + 1, leaf)
      BY <3>1, <3>2, <3>3
    <3>4. ASSUME Latest(k, leaf), Free(maps[k + 1], leaf) PROVE Latest(k + 1, leaf)
      <4>1. PICK i \in 1..k : /\ leaf \in Leaves(maps[i])
                              /\ \A j \in 1..k : j > i => Free(maps[j], leaf)
        BY <3>4
      <4>2. i \in 1..(k + 1) /\ \A j \in 1..(k + 1) : j > i => Free(maps[j], leaf)
        BY <3>1, <3>4, <4>1
      <4>3. QED BY <4>1, <4>2
    <3>5. ASSUME Latest(k + 1, leaf), leaf \notin Leaves(maps[k + 1])
          PROVE  Latest(k, leaf) /\ Free(maps[k + 1], leaf)
      <4>1. PICK i \in 1..(k + 1) : /\ leaf \in Leaves(maps[i])
                                    /\ \A j \in 1..(k + 1) : j > i => Free(maps[j], leaf)
        BY <3>5
      <4>2. i \in 1..k
        BY <3>1, <3>5, <4>1
      <4>3. Free(maps[k + 1], leaf) /\ \A j \in 1..k : j > i => Free(maps[j], leaf)
        BY <3>1, <4>1, <4>2
      <4>4. QED BY <4>1, <4>2, <4>3
    <3> HIDE DEF Latest
    <3>6. QED BY <3>3, <3>4, <3>5
  <2> HIDE DEF Latest
  <2>4. /\ IsContent(merged[k + 1])
        /\ \A leaf : leaf \in Leaves(merged[k + 1]) <=>
              \/ leaf \in Leaves(maps[k + 1])
              \/ leaf \in Leaves(merged[k]) /\ Free(maps[k + 1], leaf)
    <3>1. /\ IsContent(DeepMerge(merged[k], maps[k + 1]))
          /\ \A leaf : leaf \in Leaves(DeepMerge(merged[k], maps[k + 1])) <=>
                \/ leaf \in Leaves(maps[k + 1])
                \/ /\ leaf \in Leaves(merged[k])
                   /\ \A later \in Leaves(maps[k + 1]) : ~Displaces(later, leaf)
      BY <2>1, <2>2, MergedLeaves, Zenon
    <3>2. QED BY <2>1, <3>1 DEF Free
  <2>5. QED BY <2>2, <2>3, <2>4
<1>5. bad = {}
  <2> SUFFICES ASSUME bad # {} PROVE FALSE
    OBVIOUS
  <2> HIDE DEF Good
  <2>1. bad \subseteq Nat
    BY <1>2
  <2>2. PICK k \in bad : \A j \in bad : k <= j
    <3> HIDE DEF bad
    <3>1. QED BY <2>1, Smallest
  <2>3. k \in 0..n /\ ~Good(k) /\ k # 0
    BY <1>3, <2>2
  <2>4. k - 1 \in Nat /\ k - 1 \in 0..n /\ k - 1 \notin bad /\ (k - 1) + 1 = k /\ k \in 1..n
    BY <1>2, <2>2, <2>3
  <2>5. Good(k - 1)
    BY <2>4
  <2>6. Good((k - 1) + 1)
    BY <1>4, <2>4, <2>5
  <2>7. QED BY <2>3, <2>4, <2>6
<1>6. Good(n)
  <2> HIDE DEF Good
  <2>1. n \in 0..n
    BY <1>2
  <2>2. QED BY <1>5, <2>1
<1>7. QED BY <1>1, <1>6 DEF n

\* The same for a set of contents that are merged in an order.
LEMMA MergedInOrder ==
    ASSUME NEW S, IsFiniteSet(S), NEW before, Orders(before, S),
           NEW content, \A x \in S : IsContent(content[x]),
           NEW maps, maps = [i \in 1..Cardinality(S) |-> content[Arranged(S, before)[i]]]
    PROVE  /\ IsContent(MergeAll(maps))
           /\ \A leaf : leaf \in Leaves(MergeAll(maps)) <=>
                 \E x \in S : /\ leaf \in Leaves(content[x])
                              /\ \A y \in S : <<x, y>> \in before => Free(content[y], leaf)
<1> DEFINE s == Arranged(S, before)
           n == Cardinality(S)
<1>1. /\ n \in Nat /\ s \in [1..n -> S]
      /\ \A x \in S : \E i \in 1..n : s[i] = x
      /\ \A i, j \in 1..n : i < j <=> <<s[i], s[j]>> \in before
  BY ArrangedInOrder
<1> HIDE DEF s, n
<1>2. Len(maps) = n /\ \A i \in 1..n : maps[i] = content[s[i]] /\ s[i] \in S
  BY <1>1 DEF s, n
<1>3. \A i \in 1..n : IsContent(maps[i])
  BY <1>2
<1>4. /\ IsContent(MergeAll(maps))
      /\ \A leaf : leaf \in Leaves(MergeAll(maps)) <=>
            \E i \in 1..n : /\ leaf \in Leaves(maps[i])
                            /\ \A j \in 1..n : j > i => Free(maps[j], leaf)
  <2>1. Len(maps) \in Nat /\ \A i \in 1..Len(maps) : IsContent(maps[i])
    BY <1>1, <1>2, <1>3
  <2>2. QED BY <1>2, <2>1, MergedAll
<1>5. \A i, j \in 1..n : j > i <=> <<s[i], s[j]>> \in before
  BY <1>1
<1>6. ASSUME NEW leaf
      PROVE  (\E i \in 1..n : /\ leaf \in Leaves(maps[i])
                              /\ \A j \in 1..n : j > i => Free(maps[j], leaf))
             <=> \E x \in S : /\ leaf \in Leaves(content[x])
                              /\ \A y \in S : <<x, y>> \in before => Free(content[y], leaf)
  <2>1. ASSUME NEW i \in 1..n, leaf \in Leaves(maps[i]),
               \A j \in 1..n : j > i => Free(maps[j], leaf)
        PROVE  /\ s[i] \in S /\ leaf \in Leaves(content[s[i]])
               /\ \A y \in S : <<s[i], y>> \in before => Free(content[y], leaf)
    <3>1. s[i] \in S /\ leaf \in Leaves(content[s[i]])
      BY <1>2, <2>1
    <3>2. ASSUME NEW y \in S, <<s[i], y>> \in before PROVE Free(content[y], leaf)
      <4>1. PICK j \in 1..n : s[j] = y
        BY <1>1
      <4>2. j > i
        BY <1>5, <3>2, <4>1
      <4>3. Free(maps[j], leaf) /\ maps[j] = content[s[j]]
        BY <1>2, <2>1, <4>2
      <4>4. QED BY <4>1, <4>3
    <3>3. QED BY <3>1, <3>2
  <2>2. ASSUME NEW x \in S, leaf \in Leaves(content[x]),
               \A y \in S : <<x, y>> \in before => Free(content[y], leaf)
        PROVE  \E i \in 1..n : /\ leaf \in Leaves(maps[i])
                               /\ \A j \in 1..n : j > i => Free(maps[j], leaf)
    <3>1. PICK i \in 1..n : s[i] = x
      BY <1>1
    <3>2. leaf \in Leaves(maps[i])
      BY <1>2, <2>2, <3>1
    <3>3. ASSUME NEW j \in 1..n, j > i PROVE Free(maps[j], leaf)
      <4>1. <<s[i], s[j]>> \in before
        BY <1>5, <3>3
      <4>2. Free(content[s[j]], leaf)
        BY <1>2, <2>2, <3>1, <4>1
      <4>3. QED BY <1>2, <4>2
    <3>4. QED BY <3>2, <3>3
  <2>3. QED BY <2>1, <2>2
<1>7. QED BY <1>4, <1>6

-----------------------------------------------------------------------------
(* Selectors and AddonValues. *)

\* The AddonValues that a selector matches.
Selected(selector, values) ==
    {v \in DOMAIN values : ExactMatchAddonLabels(selector.labels, values[v].labels)}

LEMMA NumbersOrdered ==
    ASSUME NEW S, S \subseteq Nat
    PROVE  Orders({p \in S \X S : p[1] < p[2]}, S)
<1> DEFINE R == {p \in S \X S : p[1] < p[2]}
<1>1. \A x, y \in S : <<x, y>> \in R <=> x < y
  OBVIOUS
<1> HIDE DEF R
<1>2. Orders(R, S)
  BY <1>1 DEF Orders
<1>3. QED BY <1>2 DEF R

\* For one selector: of the AddonValues with exactly its labels, the last name
\* wins.
LEMMA SelectorExact ==
    ASSUME NEW selector, NEW values, IsStore(values)
    PROVE  /\ IsContent(aggregateForSelector(selector, values))
           /\ Leaves(aggregateForSelector(selector, values)) = SelectorLeaves(selector, values)
<1> DEFINE S == Selected(selector, values)
           R == {p \in S \X S : p[1] < p[2]}
           f == [v \in S |-> values[v].content]
           agg == aggregateForSelector(selector, values)
<1>1. IsFiniteSet(S) /\ S \subseteq DOMAIN values /\ S \subseteq Nat
  <2>1. S \in SUBSET DOMAIN values
    BY DEF Selected
  <2> HIDE DEF S
  <2>2. QED BY <2>1, FS_Subset DEF IsStore
<1>2. Orders(R, S)
  BY <1>1, NumbersOrdered
<1>3. Matching(selector, values) = [i \in 1..Cardinality(S) |-> f[Arranged(S, R)[i]]]
  BY DEF Matching, InOrder, Selected
<1>4. \A v \in S : f[v] = values[v].content /\ IsContent(f[v])
  BY <1>1 DEF IsStore
<1>5. \A x, y \in S : <<x, y>> \in R <=> y > x
  BY <1>1
<1> HIDE DEF R, f
<1>6. /\ IsContent(agg)
      /\ \A leaf : leaf \in Leaves(agg) <=>
            \E x \in S : /\ leaf \in Leaves(f[x])
                         /\ \A y \in S : <<x, y>> \in R => Free(f[y], leaf)
  <2> DEFINE maps == Matching(selector, values)
  <2>1. agg = MergeAll(maps)
    BY DEF aggregateForSelector
  <2>2. maps = [i \in 1..Cardinality(S) |-> f[Arranged(S, R)[i]]]
    BY <1>3
  <2> HIDE DEF maps, S, agg
  <2>3. /\ IsContent(MergeAll(maps))
        /\ \A leaf : leaf \in Leaves(MergeAll(maps)) <=>
              \E x \in S : /\ leaf \in Leaves(f[x])
                           /\ \A y \in S : <<x, y>> \in R => Free(f[y], leaf)
    BY <1>1, <1>2, <1>4, <2>2, MergedInOrder
  <2>4. QED BY <2>1, <2>3
<1>7. \A leaf : leaf \in Leaves(agg) <=>
          \E x \in S : /\ leaf \in Leaves(values[x].content)
                       /\ \A y \in S : y > x => Free(values[y].content, leaf)
  <2> HIDE DEF S, agg
  <2>1. QED BY <1>4, <1>5, <1>6
<1> DEFINE Fits(v) == \A l \in selector.labels \union values[v].labels :
                          l[1] \in AddonKeys => l \in selector.labels \cap values[v].labels
           Of(v) == IF Fits(v) THEN Leaves(values[v].content) ELSE {}
           Wins(v) == {leaf \in Of(v) : \A w \in DOMAIN values : w > v =>
                                           \A later \in Of(w) : ~Displaces(later, leaf)}
<1>8. \A v \in DOMAIN values : v \in S <=> Fits(v)
  BY DEF Selected, ExactMatchAddonLabels, FilterAddonLabels
<1>9. SelectorLeaves(selector, values) = UNION {Wins(v) : v \in DOMAIN values}
  BY DEF SelectorLeaves
<1> HIDE DEF S, Fits, agg
<1>10. ASSUME NEW leaf
       PROVE  leaf \in Leaves(agg) <=> \E v \in DOMAIN values : leaf \in Wins(v)
  <2>1. \A v \in DOMAIN values : v \in S => Of(v) = Leaves(values[v].content)
    BY <1>8
  <2>2. \A v \in DOMAIN values : v \notin S => Of(v) = {}
    BY <1>8
  <2>3. \A v \in DOMAIN values : leaf \in Wins(v) <=>
            leaf \in Of(v) /\ \A w \in DOMAIN values : w > v =>
                                  \A later \in Of(w) : ~Displaces(later, leaf)
    OBVIOUS
  <2> HIDE DEF Of, Wins
  <2>4. ASSUME NEW v \in S
        PROVE  leaf \in Wins(v) <=> /\ leaf \in Leaves(values[v].content)
                                    /\ \A y \in S : y > v => Free(values[y].content, leaf)
    BY <1>1, <2>1, <2>2, <2>3 DEF Free
  <2>5. \A v \in DOMAIN values : leaf \in Wins(v) => v \in S
    BY <2>2, <2>3
  <2>6. QED BY <1>1, <1>7, <2>4, <2>5
<1>11. \A leaf : leaf \in SelectorLeaves(selector, values) <=>
           \E v \in DOMAIN values : leaf \in Wins(v)
  <2> HIDE DEF Wins
  <2>1. QED BY <1>9
<1> HIDE DEF Wins
<1>12. Leaves(agg) = SelectorLeaves(selector, values)
  BY <1>10, <1>11
<1>13. QED BY <1>6, <1>12 DEF agg

LEMMA SelectorsIndices ==
    ASSUME NEW selectors, IsSelectors(selectors)
    PROVE  Len(selectors) \in Nat /\ DOMAIN selectors = 1..Len(selectors)
<1> DEFINE S == Range(selectors)
<1>1. selectors \in Seq(S)
  BY DEF IsSelectors
<1> HIDE DEF S
<1>2. QED BY <1>1

LEMMA SelectorsOrdered ==
    ASSUME NEW selectors, IsSelectors(selectors)
    PROVE  /\ IsFiniteSet(DOMAIN selectors) /\ Cardinality(DOMAIN selectors) = Len(selectors)
           /\ Orders(PriorityOrder(selectors), DOMAIN selectors)
           /\ \A i, j \in DOMAIN selectors : <<i, j>> \in PriorityOrder(selectors) <=>
                 \/ selectors[j].priority > selectors[i].priority
                 \/ selectors[j].priority = selectors[i].priority /\ j > i
<1> DEFINE D == DOMAIN selectors
           n == Len(selectors)
           R == PriorityOrder(selectors)
           Pr(i) == selectors[i].priority
<1>1. D = 1..n /\ n \in Nat /\ \A i \in D : Pr(i) \in Int
  BY SelectorsIndices DEF IsSelectors
<1>2. \A i, j \in D : <<i, j>> \in R <=> Pr(i) < Pr(j) \/ (Pr(i) = Pr(j) /\ i < j)
  BY DEF PriorityOrder
<1> HIDE DEF D, n, R, Pr
<1>3. D \subseteq Nat
  BY <1>1
<1>4. Orders(R, D)
  <2>1. \A i \in D : <<i, i>> \notin R
    BY <1>1, <1>2, <1>3
  <2>2. \A i, j, k \in D : <<i, j>> \in R /\ <<j, k>> \in R => <<i, k>> \in R
    BY <1>1, <1>2, <1>3
  <2>3. ASSUME NEW i \in D, NEW j \in D PROVE i = j \/ <<i, j>> \in R \/ <<j, i>> \in R
    <3>1. Pr(i) < Pr(j) \/ Pr(i) = Pr(j) \/ Pr(j) < Pr(i)
      BY <1>1
    <3>2. i < j \/ i = j \/ j < i
      BY <1>3
    <3>3. QED BY <1>2, <3>1, <3>2
  <2>4. QED BY <2>1, <2>2, <2>3 DEF Orders
<1>5. IsFiniteSet(D) /\ Cardinality(D) = n
  <2>1. 1 \in Int /\ n \in Int /\ (IF 1 > n THEN 0 ELSE n - 1 + 1) = n
    BY <1>1
  <2>2. QED BY <1>1, <2>1, FS_Interval
<1>6. \A i, j \in D : <<i, j>> \in R <=> Pr(j) > Pr(i) \/ (Pr(j) = Pr(i) /\ j > i)
  BY <1>1, <1>2, <1>3
<1>7. QED BY <1>4, <1>5, <1>6 DEF D, n, R, Pr

\* What the aggregator loops over are the selectors it was given.
LEMMA SortedSelectors ==
    ASSUME NEW selectors, IsSelectors(selectors)
    PROVE  LET s == Arranged(DOMAIN selectors, PriorityOrder(selectors))
           IN  /\ DOMAIN SortedByPriority(selectors) = 1..Len(selectors)
               /\ \A i \in 1..Len(selectors) :
                     s[i] \in DOMAIN selectors /\ SortedByPriority(selectors)[i] = selectors[s[i]]
<1> DEFINE D == DOMAIN selectors
           n == Len(selectors)
           s == Arranged(D, PriorityOrder(selectors))
<1>1. IsFiniteSet(D) /\ Orders(PriorityOrder(selectors), D) /\ Cardinality(D) = n
  BY SelectorsOrdered
<1>2. D = 1..n
  BY SelectorsIndices
<1>3. s \in [1..n -> D]
  <2> HIDE DEF D, n
  <2>1. QED BY <1>1, ArrangedInOrder
<1>4. SortedByPriority(selectors) = [i \in D |-> selectors[s[i]]]
  BY DEF SortedByPriority
<1> HIDE DEF D, n, s
<1>5. QED BY <1>2, <1>3, <1>4 DEF D, n, s

\* For any selectors and AddonValues, the aggregated values have exactly the
\* leaves they should: of several leaves that exclude each other the selector
\* with the highest priority wins, the last one listed among equals, and of the
\* AddonValues of one selector the last name.
THEOREM MergeExact ==
    ASSUME NEW selectors, IsSelectors(selectors), NEW values, IsStore(values)
    PROVE  Leaves(AggregateValues(selectors, values)) = ExpectedLeaves(selectors, values)
<1> DEFINE D == DOMAIN selectors
           R == PriorityOrder(selectors)
           n == Len(selectors)
           s == Arranged(D, R)
           f == [i \in D |-> aggregateForSelector(selectors[i], values)]
           sorted == SortedByPriority(selectors)
           maps == [i \in DOMAIN sorted |-> aggregateForSelector(sorted[i], values)]
           all == AggregateValues(selectors, values)
<1>1. /\ IsFiniteSet(D) /\ Orders(R, D) /\ Cardinality(D) = n
      /\ \A i, j \in D : <<i, j>> \in R <=>
            \/ selectors[j].priority > selectors[i].priority
            \/ selectors[j].priority = selectors[i].priority /\ j > i
  BY SelectorsOrdered
<1>2. DOMAIN sorted = 1..n /\ \A i \in 1..n : s[i] \in D /\ sorted[i] = selectors[s[i]]
  BY SortedSelectors
<1>3. \A i \in D : /\ IsContent(f[i])
                   /\ Leaves(f[i]) = SelectorLeaves(selectors[i], values)
  BY SelectorExact
<1>4. maps = [i \in 1..n |-> f[s[i]]]
  <2> HIDE DEF sorted, s, D, n
  <2>1. \A i \in 1..n : aggregateForSelector(sorted[i], values) = f[s[i]]
    BY <1>2
  <2>2. QED BY <1>2, <2>1
<1>5. all = MergeAll(maps)
  BY DEF AggregateValues
<1> HIDE DEF D, R, n, s, f, sorted, maps, all
<1>6. \A leaf : leaf \in Leaves(all) <=>
          \E i \in D : /\ leaf \in Leaves(f[i])
                       /\ \A j \in D : <<i, j>> \in R => Free(f[j], leaf)
  <2>1. maps = [i \in 1..Cardinality(D) |-> f[Arranged(D, R)[i]]]
    BY <1>1, <1>4 DEF s
  <2>2. \A i \in D : IsContent(f[i])
    BY <1>3
  <2>3. QED BY <1>1, <1>5, <2>1, <2>2, MergedInOrder
<1> DEFINE Of(i) == SelectorLeaves(selectors[i], values)
           Over(j, i) == \/ selectors[j].priority > selectors[i].priority
                         \/ selectors[j].priority = selectors[i].priority /\ j > i
           Wins(i) == {leaf \in Of(i) : \A j \in D : Over(j, i) =>
                                           \A later \in Of(j) : ~Displaces(later, leaf)}
<1>7. ExpectedLeaves(selectors, values) = UNION {Wins(i) : i \in D}
  BY DEF ExpectedLeaves, D
<1>8. \A i, j \in D : <<i, j>> \in R <=> Over(j, i)
  BY <1>1
<1>9. \A i \in D : Leaves(f[i]) = Of(i)
  BY <1>3
<1> HIDE DEF Of, Over
<1>10. \A leaf : \A i \in D : leaf \in Wins(i) <=>
           leaf \in Leaves(f[i]) /\ \A j \in D : <<i, j>> \in R => Free(f[j], leaf)
  BY <1>8, <1>9 DEF Free
<1> HIDE DEF Wins
<1>11. \A leaf : leaf \in Leaves(all) <=> leaf \in ExpectedLeaves(selectors, values)
  BY <1>6, <1>7, <1>10
<1>12. Leaves(all) = ExpectedLeaves(selectors, values)
  BY <1>11
<1>13. QED BY <1>12 DEF all

\* AddonValues that no selector matches, before or after, make no difference.
LEMMA AggregateKept ==
    ASSUME NEW selectors, IsSelectors(selectors), NEW old, NEW new,
           \A i \in DOMAIN selectors : \A v \in DOMAIN old :
               v \notin DOMAIN new \/ old[v] # new[v] =>
                   ~ExactMatchAddonLabels(selectors[i].labels, old[v].labels),
           \A i \in DOMAIN selectors : \A v \in DOMAIN new :
               v \notin DOMAIN old \/ old[v] # new[v] =>
                   ~ExactMatchAddonLabels(selectors[i].labels, new[v].labels)
    PROVE  AggregateValues(selectors, old) = AggregateValues(selectors, new)
<1> DEFINE n == Len(selectors)
           sorted == SortedByPriority(selectors)
<1>1. ASSUME NEW i \in DOMAIN selectors
      PROVE  Matching(selectors[i], old) = Matching(selectors[i], new)
  <2> DEFINE S == Selected(selectors[i], old)
             T == Selected(selectors[i], new)
             f == [v \in S |-> old[v].content]
             g == [v \in T |-> new[v].content]
  <2>1. S = T /\ \A v \in S : old[v] = new[v]
    BY DEF Selected
  <2>2. Matching(selectors[i], old) = InOrder(f) /\ Matching(selectors[i], new) = InOrder(g)
    BY DEF Matching, Selected
  <2>3. f = g
    <3> HIDE DEF S, T
    <3>1. QED BY <2>1
  <2> HIDE DEF f, g
  <2>4. QED BY <2>2, <2>3
<1>2. \A i \in DOMAIN selectors :
          aggregateForSelector(selectors[i], old) = aggregateForSelector(selectors[i], new)
  BY <1>1 DEF aggregateForSelector
<1>3. DOMAIN sorted = 1..n /\ \A i \in 1..n : \E j \in DOMAIN selectors : sorted[i] = selectors[j]
  BY SortedSelectors
<1> HIDE DEF sorted, n
<1>4. [i \in DOMAIN sorted |-> aggregateForSelector(sorted[i], old)] =
          [i \in DOMAIN sorted |-> aggregateForSelector(sorted[i], new)]
  BY <1>2, <1>3
<1> DEFINE f == [i \in DOMAIN sorted |-> aggregateForSelector(sorted[i], old)]
           g == [i \in DOMAIN sorted |-> aggregateForSelector(sorted[i], new)]
<1>5. /\ AggregateValues(selectors, old) = MergeAll(f)
      /\ AggregateValues(selectors, new) = MergeAll(g)
  BY DEF AggregateValues, sorted
<1>6. f = g
  BY <1>4
<1> HIDE DEF f, g
<1>7. QED BY <1>5, <1>6

=============================================================================
