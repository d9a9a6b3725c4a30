---------------------------- MODULE VmMapProofs -----------------------------
(* The memory map, for any address space, files and calls that meet Bounds. *)
EXTENDS VmMap, FiniteSetTheorems, SequenceTheorems, WellFoundedInduction,
        NaturalsInduction, FunctionTheorems, TLAPS

(* A set of numbers that is not empty has a least one.                      *)
LEMMA LeastNumber ==
  ASSUME NEW T, T \subseteq Nat, T # {}
  PROVE  \E x \in T : \A y \in T : x <= y
<1>1. PICK x \in T : \A y \in T : ~(<<y, x>> \in OpToRel(<, Nat))
  BY WFMin, NatLessThanWellFounded
<1>2. ASSUME NEW y \in T PROVE x <= y
  <2>1. <<y, x>> \in Nat \X Nat OBVIOUS
  <2>2. ~(y < x) BY <1>1, <2>1 DEF OpToRel
  <2> QED BY <2>2
<1> QED BY <1>2

(* What holds of 0 and of the next number of each that it holds of.         *)
LEMMA AllNumbers ==
  ASSUME NEW T, 0 \in T, \A n \in Nat : n \in T => n + 1 \in T
  PROVE  Nat \subseteq T
<1> SUFFICES ASSUME Nat \ T # {} PROVE FALSE
  OBVIOUS
<1>1. PICK m \in Nat \ T : \A k \in Nat \ T : m <= k
  BY LeastNumber
<1>2. m - 1 \in Nat /\ m # 0
  BY <1>1
<1>3. ~(m <= m - 1)
  BY <1>2
<1>4. m - 1 \in T
  BY <1>1, <1>2, <1>3
<1>5. m - 1 + 1 = m
  BY <1>2
<1> QED
  BY <1>1, <1>2, <1>4, <1>5

-----------------------------------------------------------------------------
(* Arrays of regions.                                                       *)

Entries == [page_num : Nat, npages : Nat, prot : Prots, nmop : Nat, removed : BOOLEAN]

Holds(e, p) == e.page_num <= p /\ p < EndPage(e)

Kept(v) == {i \in DOMAIN v : ~v[i].removed}

(* w has the entries of v in another order, and may have less of those that *)
(* are marked for removal.                                                  *)
Rearranged(v, w) ==
  \E g \in [DOMAIN w -> DOMAIN v] :
    /\ \A k, m \in DOMAIN w : g[k] = g[m] => k = m
    /\ \A k \in DOMAIN w : w[k] = v[g[k]]
    /\ \A i \in Kept(v) : \E k \in DOMAIN w : g[k] = i

(* An entry of an array of regions has the fields of a region.              *)
LEMMA EntryOf ==
  ASSUME NEW v \in Seq(Entries), NEW i \in DOMAIN v
  PROVE  /\ v[i] \in Entries /\ v[i].page_num \in Nat /\ v[i].npages \in Nat
         /\ v[i].prot \in Prots /\ v[i].nmop \in Nat /\ EndPage(v[i]) \in Nat
<1>1. i \in 1 .. Len(v)
  BY LenProperties
<1>2. v[i] \in Entries
  BY <1>1, ElementOfSeq
<1> QED BY <1>2 DEF Entries, EndPage

(* An array is a rearrangement of itself, ...                               *)
LEMMA SameArray == \A v : Rearranged(v, v)
<1> TAKE v
<1> DEFINE g == [k \in DOMAIN v |-> k]
<1>1. g \in [DOMAIN v -> DOMAIN v]
  OBVIOUS
<1> QED
  BY <1>1 DEF Kept, Rearranged

(* ... and rearranged twice it is rearranged.                               *)
LEMMA TwiceRearranged ==
  ASSUME NEW u, NEW v, NEW w, Rearranged(u, v), Rearranged(v, w)
  PROVE  Rearranged(u, w)
<1>1. PICK g \in [DOMAIN v -> DOMAIN u] :
        /\ \A k, m \in DOMAIN v : g[k] = g[m] => k = m
        /\ \A k \in DOMAIN v : v[k] = u[g[k]]
        /\ \A i \in Kept(u) : \E k \in DOMAIN v : g[k] = i
  BY DEF Rearranged
<1>2. PICK h \in [DOMAIN w -> DOMAIN v] :
        /\ \A k, m \in DOMAIN w : h[k] = h[m] => k = m
        /\ \A k \in DOMAIN w : w[k] = v[h[k]]
        /\ \A i \in Kept(v) : \E k \in DOMAIN w : h[k] = i
  BY DEF Rearranged
<1> DEFINE f == [k \in DOMAIN w |-> g[h[k]]]
<1>3. f \in [DOMAIN w -> DOMAIN u]
  BY <1>1, <1>2
<1>4. \A k, m \in DOMAIN w : f[k] = f[m] => k = m
  BY <1>1, <1>2
<1>5. \A k \in DOMAIN w : w[k] = u[f[k]]
  BY <1>1, <1>2
<1>6. ASSUME NEW i \in Kept(u) PROVE \E k \in DOMAIN w : f[k] = i
  <2>1. PICK k \in DOMAIN v : g[k] = i
    BY <1>1
  <2>2. k \in Kept(v)
    BY <1>1, <2>1 DEF Kept
  <2>3. PICK m \in DOMAIN w : h[m] = k
    BY <1>2, <2>2
  <2> QED
    BY <2>1, <2>3
<1> QED
  BY <1>3, <1>4, <1>5, <1>6 DEF Rearranged

(* NaClVmmapRemoveMarked: the loop over the end of the array ...            *)
LEMMA TailDropped ==
  ASSUME NEW S, NEW v \in Seq(S)
  PROVE  /\ DropTail(v) \in Seq(S) /\ Len(DropTail(v)) <= Len(v)
         /\ Rearranged(v, DropTail(v))
         /\ \A i \in DOMAIN DropTail(v) : DropTail(v)[i] = v[i]
         /\ DropTail(v) = <<>> \/ ~DropTail(v)[Len(DropTail(v))].removed
<1>0. Kept(v) \subseteq Nat /\ \A i \in Kept(v) : i \in 1 .. Len(v)
  BY DEF Kept
<1>1. CASE Kept(v) = {}
  <2>1. DropTail(v) = <<>>
    BY <1>1 DEF DropTail, Kept
  <2> DEFINE g == [k \in DOMAIN <<>> |-> k]
  <2>2. g \in [DOMAIN <<>> -> DOMAIN v] /\ DOMAIN <<>> = {}
    OBVIOUS
  <2>3. Rearranged(v, <<>>)
    BY <1>1, <2>2 DEF Rearranged
  <2> QED
    BY <2>1, <2>3
<1>2. CASE Kept(v) # {}
  <2>1. PICK n \in Kept(v) : \A j \in Kept(v) : j <= n
    <3> DEFINE D == {Len(v) - k : k \in Kept(v)}
    <3>1. D \subseteq Nat /\ D # {}
      BY <1>0, <1>2
    <3>3. PICK m \in D : \A k \in D : m <= k
      BY <3>1, LeastNumber
    <3>4. PICK n \in Kept(v) : m = Len(v) - n
      BY <3>3
    <3> WITNESS n \in Kept(v)
    <3> TAKE j \in Kept(v)
    <3>5. Len(v) - n <= Len(v) - j
      BY <3>3, <3>4
    <3> QED
      BY <3>5, <1>0, LenProperties
  <2> DEFINE c == CHOOSE i \in Kept(v) : \A j \in Kept(v) : j <= i
  <2>2. c \in Kept(v) /\ \A j \in Kept(v) : j <= c
    BY <2>1
  <2>3. DropTail(v) = SubSeq(v, 1, c)
    BY <1>2 DEF DropTail, Kept
  <2> HIDE DEF c
  <2>4. c \in 1 .. Len(v) /\ ~v[c].removed
    BY <1>0, <2>2 DEF Kept
  <2> DEFINE w == SubSeq(v, 1, c)
  <2>5. /\ w \in Seq(S) /\ Len(w) = c
        /\ \A i \in 1 .. c : w[i] = v[i]
    BY <2>4, SubSeqProperties
  <2>6. Rearranged(v, w)
    <3> DEFINE g == [k \in DOMAIN w |-> k]
    <3> HIDE DEF w
    <3>1. DOMAIN w = 1 .. c /\ DOMAIN v = 1 .. Len(v)
      BY <2>5
    <3>2. g \in [DOMAIN w -> DOMAIN v]
      BY <3>1, <2>4
    <3>3. ASSUME NEW i \in Kept(v) PROVE i \in DOMAIN w /\ g[i] = i
      <4>1. i \in 1 .. c
        BY <1>0, <2>2, <2>4
      <4> QED BY <4>1, <3>1
    <3>4. \A k, m \in DOMAIN w : g[k] = g[m] => k = m
      OBVIOUS
    <3>5. \A k \in DOMAIN w : w[k] = v[g[k]]
      BY <3>1, <2>5
    <3> HIDE DEF g
    <3> QED
      BY <3>2, <3>3, <3>4, <3>5 DEF Rearranged
  <2> HIDE DEF w
  <2>7. DropTail(v) = w
    BY <2>3 DEF w
  <2> QED
    BY <2>4, <2>5, <2>6, <2>7
<1> QED
  BY <1>1, <1>2

(* ... and the one over its beginning.                                      *)
LEMMA FilledFromEnd ==
  ASSUME NEW S, NEW v \in Seq(S), NEW i \in Nat \ {0},
         \A j \in 1 .. Len(v) : j < i => ~v[j].removed,
         v = <<>> \/ ~v[Len(v)].removed
  PROVE  LET w == FillFromEnd(v, i)
         IN  /\ w \in Seq(S) /\ Len(w) <= Len(v)
             /\ Rearranged(v, w)
             /\ \A j \in 1 .. Len(w) : j <= i => ~w[j].removed
             /\ w = <<>> \/ ~w[Len(w)].removed
<1> DEFINE n == Len(v)
<1>0. n \in Nat /\ DOMAIN v = 1 .. n /\ Len(v) = n
  BY LenProperties
<1> HIDE DEF n
<1>1. CASE ~(i < n /\ v[i].removed)
  <2>1. FillFromEnd(v, i) = v
    BY <1>0, <1>1 DEF FillFromEnd
  <2>2. \A j \in 1 .. n : j <= i => ~v[j].removed
    <3> TAKE j \in 1 .. n
    <3> HAVE j <= i
    <3>1. CASE j < i
      BY <1>0, <3>1
    <3>2. CASE j = i /\ j < n
      BY <3>2, <1>1
    <3>3. CASE j = n
      BY <3>3, <1>0, EmptySeq
    <3>4. j < i \/ (j = i /\ j < n) \/ j = n
      BY <1>0
    <3> QED
      BY <3>1, <3>2, <3>3, <3>4
  <2> QED
    BY <1>0, <2>1, <2>2, SameArray
<1>2. CASE i < n /\ v[i].removed
  <2> DEFINE x == [v EXCEPT ![i] = v[n]]
             y == SubSeq(x, 1, n - 1)
  <2>1. FillFromEnd(v, i) = DropTail(y)
    BY <1>0, <1>2 DEF FillFromEnd
  <2>2. i \in 1 .. n /\ n - 1 \in Nat /\ n \in DOMAIN v /\ v # <<>>
    BY <1>0, <1>2
  <2>3. x \in Seq(S) /\ Len(x) = n /\ \A j \in 1 .. n : x[j] = IF j = i THEN v[n] ELSE v[j]
    BY <2>2, <1>0
  <2>4. y \in Seq(S) /\ Len(y) = n - 1 /\ \A j \in 1 .. n - 1 : y[j] = x[j]
    <3> HIDE DEF x
    <3> QED BY <2>2, <2>3, SubSeqProperties
  <2> DEFINE g == [k \in 1 .. n - 1 |-> IF k = i THEN n ELSE k]
  <2>5. Rearranged(v, y)
    <3> HIDE DEF x, y
    <3>1. DOMAIN y = 1 .. n - 1
      BY <2>4
    <3>2. g \in [DOMAIN y -> DOMAIN v]
      BY <3>1, <1>0
    <3>3. \A k, m \in DOMAIN y : g[k] = g[m] => k = m
      BY <3>1, <1>0
    <3>4. \A k \in DOMAIN y : y[k] = v[g[k]]
      BY <3>1, <2>3, <2>4, <1>0
    <3>5. ASSUME NEW k \in Kept(v) PROVE \E m \in DOMAIN y : g[m] = k
      <4>1. k \in 1 .. n /\ k # i
        BY <1>2, <1>0 DEF Kept
      <4>2. CASE k = n
        <5>1. i \in DOMAIN y /\ g[i] = n
          BY <3>1, <1>2, <1>0
        <5> QED BY <5>1, <4>2
      <4>3. CASE k # n
        <5>1. k \in DOMAIN y /\ g[k] = k
          <6>1. k \in 1 .. n - 1
            BY <4>1, <4>3, <1>0
          <6> QED BY <6>1, <4>1, <3>1
        <5> QED BY <5>1
      <4> QED BY <4>2, <4>3
    <3> QED
      BY <3>2, <3>3, <3>4, <3>5 DEF Rearranged
  <2> HIDE DEF x, y
  <2>6. /\ DropTail(y) \in Seq(S) /\ Len(DropTail(y)) <= Len(y)
        /\ Rearranged(y, DropTail(y))
        /\ \A k \in DOMAIN DropTail(y) : DropTail(y)[k] = y[k]
        /\ DropTail(y) = <<>> \/ ~DropTail(y)[Len(DropTail(y))].removed
    BY <2>4, TailDropped
  <2>7. Rearranged(v, DropTail(y))
    BY <2>5, <2>6, TwiceRearranged
  <2> DEFINE w == DropTail(y)
  <2>8. ASSUME NEW j \in 1 .. Len(w), j <= i PROVE ~w[j].removed
    <3> HIDE DEF w
    <3>1. j \in 1 .. n - 1 /\ j \in DOMAIN w
      BY <2>4, <2>6, <1>0 DEF w
    <3>2. w[j] = x[j]
      BY <3>1, <2>4, <2>6 DEF w
    <3>3. CASE j = i
      BY <1>0, <3>2, <3>3, <2>3, <2>2
    <3>4. CASE j < i
      BY <3>1, <3>2, <3>4, <2>3, <1>0
    <3>5. j = i \/ j < i
      BY <2>8, <3>1, <1>0
    <3> QED
      BY <3>3, <3>4, <3>5
  <2> HIDE DEF w
  <2>9. FillFromEnd(v, i) = w
    BY <2>1 DEF w
  <2> QED
    BY <2>4, <2>6, <2>7, <2>8, <2>9, <1>0 DEF w
<1> QED
  BY <1>1, <1>2

(* What the two loops leave: no entry that is marked, and all others.       *)
LEMMA MarkedRemoved ==
  ASSUME NEW S, NEW v \in Seq(S)
  PROVE  /\ RemoveMarked(v) \in Seq(S)
         /\ Rearranged(v, RemoveMarked(v))
         /\ \A i \in DOMAIN RemoveMarked(v) : ~RemoveMarked(v)[i].removed
<1> DEFINE Filling(n, f) ==
             f = [i \in 0 .. n |-> IF i = 0 THEN DropTail(v) ELSE FillFromEnd(f[i - 1], i)]
           T == {n \in Nat : \E f : Filling(n, f)}
<1>1. \E f : Filling(0, f)
  <2> DEFINE f == [i \in 0 .. 0 |-> DropTail(v)]
  <2>1. f = [i \in 0 .. 0 |-> IF i = 0 THEN DropTail(v) ELSE FillFromEnd(f[i - 1], i)]
    OBVIOUS
  <2> QED BY <2>1
<1>2. ASSUME NEW n \in Nat, n \in T PROVE n + 1 \in T
  <2>1. PICK g : Filling(n, g)
    BY <1>2
  <2> DEFINE f == [i \in 0 .. n + 1 |-> IF i <= n THEN g[i] ELSE FillFromEnd(g[n], i)]
  <2>2. ASSUME NEW i \in 0 .. n + 1
        PROVE  f[i] = IF i = 0 THEN DropTail(v) ELSE FillFromEnd(f[i - 1], i)
    <3>1. CASE i = 0
      <4>1. i \in 0 .. n BY <3>1
      <4>2. g[i] = DropTail(v) BY <2>1, <3>1, <4>1
      <4> QED BY <3>1, <4>1, <4>2
    <3>2. CASE i # 0 /\ i <= n
      <4>1. i \in 0 .. n /\ i - 1 \in 0 .. n + 1 /\ i - 1 <= n BY <3>2
      <4>2. g[i] = FillFromEnd(g[i - 1], i) BY <2>1, <3>2, <4>1
      <4>3. f[i] = g[i] /\ f[i - 1] = g[i - 1] BY <3>2, <4>1
      <4> QED BY <3>2, <4>2, <4>3
    <3>3. CASE i = n + 1
      <4>1. n \in 0 .. n + 1 /\ i - 1 = n /\ ~(i <= n) /\ i # 0 BY <3>3
      <4>2. f[n] = g[n] /\ f[i] = FillFromEnd(g[n], i) BY <4>1
      <4> QED BY <4>1, <4>2
    <3> QED BY <3>1, <3>2, <3>3
  <2>3. f = [i \in 0 .. n + 1 |-> f[i]]
    OBVIOUS
  <2> HIDE DEF f
  <2>4. Filling(n + 1, f)
    BY <2>2, <2>3
  <2> QED BY <2>4
<1>3. Nat \subseteq T
  <2>1. 0 \in T BY <1>1
  <2> HIDE DEF T
  <2> QED BY <1>2, <2>1, AllNumbers
<1>4. Len(v) \in Nat
  BY LenProperties
<1>5. \E f : Filling(Len(v), f)
  BY <1>3, <1>4
<1> DEFINE f == CHOOSE f : Filling(Len(v), f)
<1>6. Filling(Len(v), f)
  BY <1>5
<1>7. RemoveMarked(v) = f[Len(v)]
  BY DEF RemoveMarked
<1> HIDE DEF f
<1>8. /\ f[0] = DropTail(v)
      /\ \A i \in 0 .. Len(v) : i # 0 => f[i] = FillFromEnd(f[i - 1], i)
  BY <1>4, <1>6
<1> DEFINE Filled(i) ==
             /\ f[i] \in Seq(S) /\ Rearranged(v, f[i]) /\ Len(f[i]) <= Len(v)
             /\ \A j \in 1 .. Len(f[i]) : j <= i => ~f[i][j].removed
             /\ f[i] = <<>> \/ ~f[i][Len(f[i])].removed
           U == {i \in Nat : i <= Len(v) => Filled(i)}
<1>9. Filled(0)
  <2>1. /\ f[0] \in Seq(S) /\ Rearranged(v, f[0]) /\ Len(f[0]) <= Len(v)
        /\ f[0] = <<>> \/ ~f[0][Len(f[0])].removed
    BY <1>8, TailDropped
  <2>2. \A j \in 1 .. Len(f[0]) : ~(j <= 0)
    BY <2>1, LenProperties
  <2> QED BY <2>1, <2>2
<1>10. ASSUME NEW i \in Nat, i \in U PROVE i + 1 \in U
  <2> SUFFICES ASSUME i + 1 <= Len(v) PROVE Filled(i + 1)
    OBVIOUS
  <2>1. Filled(i) /\ i + 1 \in 0 .. Len(v) /\ i + 1 # 0 /\ i + 1 - 1 = i
    BY <1>4, <1>10
  <2>2. f[i + 1] = FillFromEnd(f[i], i + 1)
    BY <1>8, <2>1
  <2> DEFINE u == f[i]
             w == f[i + 1]
  <2>3. \A j \in 1 .. Len(u) : j < i + 1 => ~u[j].removed
    <3>1. Len(u) \in Nat BY <2>1, LenProperties
    <3>2. \A j \in 1 .. Len(u) : j < i + 1 => j <= i BY <3>1
    <3> QED BY <2>1, <3>2
  <2>4. /\ w \in Seq(S) /\ Len(w) <= Len(u)
        /\ Rearranged(u, w)
        /\ \A j \in 1 .. Len(w) : j <= i + 1 => ~w[j].removed
        /\ w = <<>> \/ ~w[Len(w)].removed
    <3>1. i + 1 \in Nat \ {0} /\ u \in Seq(S) /\ (u = <<>> \/ ~u[Len(u)].removed)
      BY <2>1
    <3>2. w = FillFromEnd(u, i + 1)
      BY <2>2
    <3> HIDE DEF u, w
    <3> QED
      BY <2>3, <3>1, <3>2, FilledFromEnd
  <2>5. Rearranged(v, w)
    BY <2>1, <2>4, TwiceRearranged
  <2>6. Len(w) <= Len(v)
    <3>1. Len(u) \in Nat /\ Len(w) \in Nat BY <2>1, <2>4, LenProperties
    <3> QED BY <1>4, <2>1, <2>4, <3>1
  <2> QED
    BY <2>4, <2>5, <2>6
<1>11. Nat \subseteq U
  <2>1. 0 \in U BY <1>9
  <2> HIDE DEF U
  <2> QED BY <1>10, <2>1, AllNumbers
<1>12. Filled(Len(v))
  BY <1>4, <1>11
<1> DEFINE r == f[Len(v)]
<1>13. r \in Seq(S) /\ Rearranged(v, r) /\ \A j \in DOMAIN r : ~r[j].removed
  <2>1. Len(r) \in Nat /\ DOMAIN r = 1 .. Len(r)
    BY <1>12, LenProperties
  <2>2. \A j \in 1 .. Len(r) : j <= Len(v)
    BY <1>4, <1>12, <2>1
  <2> QED BY <1>12, <2>1, <2>2
<1> QED
  BY <1>7, <1>13

(* NaClVmmapMakeSorted: qsort.                                              *)
Increasing(v) == \A i, j \in DOMAIN v : i < j => v[i].page_num < v[j].page_num

(* MakeSorted gives the entries in ascending order, when no two start       *)
(* together.                                                                *)
LEMMA SortedArray ==
  ASSUME NEW v \in Seq(Entries),
         \A i, j \in DOMAIN v : v[i].page_num = v[j].page_num => i = j
  PROVE  /\ MakeSorted(v) \in Seq(Entries) /\ Len(MakeSorted(v)) = Len(v)
         /\ Rearranged(v, MakeSorted(v))
         /\ Increasing(MakeSorted(v))
<1> DEFINE n == Len(v)
           D == 1 .. n
           At(i) == v[i].page_num
           Rank(i) == Cardinality(Below(v, i))
           r == [i \in D |-> Rank(i) + 1]
           Place(k) == CHOOSE i \in DOMAIN v : Rank(i) = k - 1
           p == [k \in D |-> Place(k)]
<1>1. n \in Nat /\ DOMAIN v = D /\ Len(v) = n
  BY LenProperties
<1>2. \A i \in D : At(i) \in Nat
  <2>1. \A i \in 1 .. Len(v) : v[i] \in Entries
    BY ElementOfSeq
  <2> QED BY <2>1 DEF Entries
<1>3. IsFiniteSet(D) /\ Cardinality(D) = n
  BY <1>1, FS_Interval
<1> HIDE DEF n
<1>4. \A i \in D : IsFiniteSet(Below(v, i)) /\ Below(v, i) \subseteq D /\ Rank(i) \in Nat
  BY <1>1, <1>3, FS_Subset, FS_CardinalityType DEF Below
<1>5. ASSUME NEW i \in D PROVE r[i] \in D
  <2>1. Below(v, i) \subseteq D \ {i}
    BY <1>1, <1>2 DEF Below
  <2>2. IsFiniteSet(D \ {i}) /\ Cardinality(D \ {i}) = n - 1
    BY <1>3, FS_RemoveElement
  <2>3. Rank(i) <= n - 1
    BY <2>1, <2>2, FS_Subset
  <2> QED
    BY <1>1, <1>4, <2>3
<1>6. ASSUME NEW i \in D, NEW j \in D, At(i) < At(j) PROVE Rank(i) < Rank(j)
  <2>1. Below(v, i) \subseteq Below(v, j) /\ i \in Below(v, j) /\ i \notin Below(v, i)
    BY <1>1, <1>2, <1>6 DEF Below
  <2>2. Rank(i) <= Rank(j) /\ Rank(i) # Rank(j)
    BY <1>4, <2>1, FS_Subset
  <2> QED BY <1>4, <2>2
<1>7. ASSUME NEW i \in D, NEW j \in D, r[i] = r[j] PROVE i = j
  <2>1. Rank(i) = Rank(j)
    BY <1>4, <1>7
  <2>2. ~(At(i) < At(j)) /\ ~(At(j) < At(i))
    BY <1>4, <1>6, <2>1
  <2>3. At(i) = At(j)
    BY <1>2, <2>2
  <2> QED BY <1>1, <2>3
<1>8. r \in Injection(D, D)
  BY <1>5, <1>7 DEF Injection, IsInjective
<1>9. r \in Surjection(D, D)
  BY <1>3, <1>8, FS_Injection
<1>10. ASSUME NEW k \in D PROVE p[k] \in D /\ r[p[k]] = k
  <2>1. PICK i \in D : r[i] = k
    BY <1>9 DEF Surjection
  <2>2. Rank(i) = k - 1
    BY <1>4, <2>1
  <2>3. Place(k) \in D /\ Rank(Place(k)) = k - 1
    BY <1>1, <2>2
  <2> HIDE DEF Place
  <2> QED BY <1>4, <2>3
<1>11. p \in [DOMAIN v -> DOMAIN v]
  BY <1>1, <1>10
<1>12. MakeSorted(v) = [k \in DOMAIN v |-> v[p[k]]]
  BY <1>1 DEF MakeSorted
<1> DEFINE w == [k \in DOMAIN v |-> v[p[k]]]
<1> HIDE DEF p, r
<1>13. w \in Seq(Entries) /\ Len(w) = n /\ DOMAIN w = D
  <2>1. \A k \in D : v[p[k]] \in Entries
    BY <1>1, <1>10
  <2>2. w \in [1 .. n -> Entries]
    BY <1>1, <2>1
  <2> QED BY <1>1, <2>2
<1>14. Rearranged(v, w)
  <2>1. \A k, m \in DOMAIN w : p[k] = p[m] => k = m
    BY <1>10, <1>13
  <2>2. \A k \in DOMAIN w : w[k] = v[p[k]]
    BY <1>1, <1>13
  <2>3. ASSUME NEW i \in Kept(v) PROVE \E k \in DOMAIN w : p[k] = i
    <3>1. i \in D /\ r[i] \in D
      BY <1>1, <1>5 DEF Kept
    <3>2. p[r[i]] \in D /\ r[p[r[i]]] = r[i]
      BY <1>10, <3>1
    <3>3. p[r[i]] = i
      BY <1>7, <3>1, <3>2
    <3> QED BY <1>13, <3>1, <3>3
  <2>4. p \in [DOMAIN w -> DOMAIN v]
    BY <1>1, <1>11, <1>13
  <2> HIDE DEF w
  <2> QED BY <2>1, <2>2, <2>3, <2>4 DEF Rearranged
<1>15. ASSUME NEW k \in D, NEW m \in D, k < m PROVE w[k].page_num < w[m].page_num
  <2>1. p[k] \in D /\ p[m] \in D /\ r[p[k]] = k /\ r[p[m]] = m
    BY <1>10
  <2>2. Rank(p[k]) + 1 = k /\ Rank(p[m]) + 1 = m
    BY <2>1 DEF r
  <2>3. Rank(p[k]) < Rank(p[m])
    BY <1>4, <1>15, <2>1, <2>2
  <2>4. ~(At(p[m]) < At(p[k])) /\ At(p[m]) # At(p[k])
    BY <1>1, <1>4, <1>6, <1>15, <2>1, <2>3
  <2>5. At(p[k]) < At(p[m])
    BY <1>2, <2>1, <2>4
  <2> QED BY <1>1, <2>5
<1> HIDE DEF w
<1> QED
  BY <1>1, <1>12, <1>13, <1>14, <1>15 DEF w, Increasing

-----------------------------------------------------------------------------
(* What an array says of the pages, and whose the objects are.              *)

(* Entries that are kept do not overlap and lie in the address space.       *)
Tidy(v) ==
  /\ v \in Seq(Entries)
  /\ \A i \in Kept(v) : v[i].npages > 0 /\ EndPage(v[i]) <= NumPages
  /\ \A i, j \in Kept(v), p \in Nat : Holds(v[i], p) /\ Holds(v[j], p) => i = j

Live(v) == \A i \in DOMAIN v : ~v[i].removed

ObjRecs == [file : Files, offset : Nat]

(* The objects are those of the entries in I, one each, and x.              *)
OwnedBy(I, v, o, x) ==
  /\ IsFiniteSet(DOMAIN o) /\ x \in Nat
  /\ o \in [DOMAIN o -> ObjRecs]
  /\ DOMAIN o = ({v[i].nmop : i \in I} \cup {x}) \ {NoObj}
  /\ \A i \in I : v[i].nmop # NoObj =>
       v[i].nmop # x /\ \A j \in I : v[i].nmop = v[j].nmop => i = j

(* The parts of files that are mapped are in the files.                     *)
InFiles(I, v, o) ==
  \A i \in I : v[i].nmop # NoObj => o[v[i].nmop].offset + v[i].npages <= FileSize

Value(e, o, p) ==
  IF e.nmop = NoObj THEN Anonymous(e.prot)
  ELSE Backed(e.prot, o[e.nmop].file, o[e.nmop].offset + p - e.page_num)

ValueAt(v, o, p, y) ==
  \/ \E i \in Kept(v) : Holds(v[i], p) /\ y = Value(v[i], o, p)
  \/ (\A i \in Kept(v) : ~Holds(v[i], p)) /\ y = Hole

(* What an array says of a page is what the entry that holds the page       *)
(* stands for, or Hole.                                                     *)
LEMMA SaysValue ==
  ASSUME NEW v, Tidy(v), Live(v), NEW o, NEW p \in Nat
  PROVE  /\ ValueAt(v, o, p, Says(v, o, p))
         /\ \A y : ValueAt(v, o, p, y) => Says(v, o, p) = y
<1>1. Kept(v) = DOMAIN v
  BY DEF Live, Kept
<1>2. Holding(v, p) = {i \in Kept(v) : Holds(v[i], p)}
  BY <1>1 DEF Holding, Holds
<1>3. \A i, j \in Holding(v, p) : i = j
  BY <1>2 DEF Tidy
<1>4. CASE Holding(v, p) = {}
  <2>1. Says(v, o, p) = Hole
    BY <1>4 DEF Says
  <2>2. \A i \in Kept(v) : ~Holds(v[i], p)
    BY <1>2, <1>4
  <2> QED BY <2>1, <2>2 DEF ValueAt
<1>5. CASE Holding(v, p) # {}
  <2>1. PICK i \in Holding(v, p) : TRUE
    BY <1>5
  <2>2. (CHOOSE k \in Holding(v, p) : TRUE) = i
    BY <1>3, <2>1
  <2>3. Says(v, o, p) = Value(v[i], o, p)
    BY <1>5, <2>2 DEF Says, Value
  <2>4. i \in Kept(v) /\ Holds(v[i], p) /\ \A j \in Kept(v) : Holds(v[j], p) => j = i
    BY <1>2, <1>3, <2>1
  <2> HIDE DEF Value, Holds
  <2> QED BY <2>3, <2>4 DEF ValueAt
<1> QED BY <1>4, <1>5

(* Another order changes nothing of that.                                   *)
LEMMA RearrangedSays ==
  ASSUME NEW v, Tidy(v), NEW w \in Seq(Entries), Rearranged(v, w), Live(w),
         NEW o, NEW x
  PROVE  /\ Tidy(w)
         /\ OwnedBy(Kept(v), v, o, x) => OwnedBy(DOMAIN w, w, o, x)
         /\ InFiles(Kept(v), v, o) => InFiles(DOMAIN w, w, o)
         /\ \A p, y : ValueAt(v, o, p, y) => ValueAt(w, o, p, y)
         /\ \A i \in Kept(v) : \E k \in DOMAIN w : w[k] = v[i]
<1>1. PICK g \in [DOMAIN w -> DOMAIN v] :
        /\ \A k, m \in DOMAIN w : g[k] = g[m] => k = m
        /\ \A k \in DOMAIN w : w[k] = v[g[k]]
        /\ \A i \in Kept(v) : \E k \in DOMAIN w : g[k] = i
  BY DEF Rearranged
<1>2. Kept(w) = DOMAIN w
  BY DEF Live, Kept
<1>3. \A k \in DOMAIN w : g[k] \in Kept(v)
  BY <1>1 DEF Live, Kept
<1>4. Tidy(w)
  <2>1. \A k \in Kept(w) : w[k].npages > 0 /\ EndPage(w[k]) <= NumPages
    BY <1>1, <1>2, <1>3 DEF Tidy
  <2>2. ASSUME NEW k \in Kept(w), NEW m \in Kept(w), NEW p \in Nat,
               Holds(w[k], p), Holds(w[m], p)
        PROVE  k = m
    <3>1. g[k] \in Kept(v) /\ g[m] \in Kept(v) /\ w[k] = v[g[k]] /\ w[m] = v[g[m]]
      BY <1>1, <1>2, <1>3
    <3>2. g[k] = g[m]
      BY <2>2, <3>1 DEF Tidy
    <3> QED BY <1>1, <1>2, <3>2
  <2> QED BY <2>1, <2>2 DEF Tidy
<1>5. ASSUME OwnedBy(Kept(v), v, o, x) PROVE OwnedBy(DOMAIN w, w, o, x)
  <2>1. {w[k].nmop : k \in DOMAIN w} = {v[i].nmop : i \in Kept(v)}
    BY <1>1, <1>3
  <2>2. ASSUME NEW k \in DOMAIN w, w[k].nmop # NoObj
        PROVE  w[k].nmop # x /\ \A m \in DOMAIN w : w[k].nmop = w[m].nmop => k = m
    BY <1>1, <1>3, <1>5, <2>2 DEF OwnedBy
  <2> QED BY <1>5, <2>1, <2>2 DEF OwnedBy
<1>6. InFiles(Kept(v), v, o) => InFiles(DOMAIN w, w, o)
  BY <1>1, <1>3 DEF InFiles
<1>7. ASSUME NEW p, NEW y, ValueAt(v, o, p, y) PROVE ValueAt(w, o, p, y)
  <2>1. CASE \E i \in Kept(v) : Holds(v[i], p) /\ y = Value(v[i], o, p)
    <3>1. PICK i \in Kept(v) : Holds(v[i], p) /\ y = Value(v[i], o, p)
      BY <2>1
    <3>2. PICK k \in DOMAIN w : g[k] = i
      BY <1>1
    <3>3. k \in Kept(w) /\ w[k] = v[i]
      BY <1>1, <1>2, <3>2
    <3> QED BY <3>1, <3>3 DEF ValueAt
  <2>2. CASE (\A i \in Kept(v) : ~Holds(v[i], p)) /\ y = Hole
    <3>1. \A k \in Kept(w) : ~Holds(w[k], p)
      BY <1>1, <1>2, <1>3, <2>2
    <3> QED BY <2>2, <3>1 DEF ValueAt
  <2> QED BY <1>7, <2>1, <2>2 DEF ValueAt
<1>8. \A i \in Kept(v) : \E k \in DOMAIN w : w[k] = v[i]
  BY <1>1
<1> QED BY <1>4, <1>5, <1>6, <1>7, <1>8

(* There is a number for another object.                                    *)
LEMMA FreshNumber ==
  ASSUME NEW o, IsFiniteSet(DOMAIN o)
  PROVE  FreshObj(o) \in Nat \ {0} /\ FreshObj(o) \notin DOMAIN o
<1> DEFINE c == Cardinality(DOMAIN o)
           T == (1 .. c + 1) \ DOMAIN o
<1>1. c \in Nat
  BY FS_CardinalityType
<1>2. T # {}
  <2> SUFFICES ASSUME 1 .. c + 1 \subseteq DOMAIN o PROVE FALSE
    OBVIOUS
  <2>1. Cardinality(1 .. c + 1) <= c
    BY FS_Subset
  <2>2. Cardinality(1 .. c + 1) = c + 1
    BY <1>1, FS_Interval
  <2> QED BY <1>1, <2>1, <2>2
<1>3. T \subseteq Nat
  BY <1>1
<1>4. PICK n \in T : \A m \in T : n <= m
  BY <1>2, <1>3, LeastNumber
<1>5. \A k \in 1 .. n - 1 : k \in DOMAIN o
  <2> TAKE k \in 1 .. n - 1
  <2>1. k \in 1 .. c + 1 /\ ~(n <= k)
    BY <1>1, <1>4
  <2> QED BY <1>4, <2>1
<1>6. n \in 1 .. Cardinality(DOMAIN o) + 1 /\ n \notin DOMAIN o
  BY <1>4
<1>7. FreshObj(o) \in 1 .. c + 1 /\ FreshObj(o) \notin DOMAIN o
  BY <1>5, <1>6 DEF FreshObj
<1> QED BY <1>1, <1>7

-----------------------------------------------------------------------------
(* The cuts.                                                                *)

(* What is left of an entry that is kept holds the entry's pages outside    *)
(* the new region, below it where the entry is split, and none inside.      *)
LEMMA CutEntry ==
  ASSUME NEW e \in Entries, e.npages > 0, NEW first \in Nat, NEW end \in Nat, first < end
  PROVE  LET c == Cut(e, first, end)
         IN  /\ c \in Entries /\ c.prot = e.prot /\ c.nmop = e.nmop
             /\ c.removed <=> e.removed \/ Covers(e, first, end)
             /\ c.npages > 0 /\ EndPage(c) <= EndPage(e)
             /\ OverlapsStart(e, first, end) =>
                  c.page_num = end /\ c.npages = EndPage(e) - end
             /\ ~OverlapsStart(e, first, end) => c.page_num = e.page_num
             /\ \A p \in Nat : ~Covers(e, first, end) =>
                  (Holds(c, p) <=>
                     Holds(e, p) /\ (p < first \/ (p >= end /\ ~Split(e, first, end))))
             /\ c.page_num + c.npages <= e.page_num + e.npages
             /\ c.npages <= e.npages
<1> DEFINE c == Cut(e, first, end)
<1>0. /\ e.page_num \in Nat /\ e.npages \in Nat /\ e.prot \in Prots /\ e.nmop \in Nat
      /\ e.removed \in BOOLEAN
  BY DEF Entries
<1>1. CASE Split(e, first, end) \/ OverlapsEnd(e, first, end)
  <2>1. c = [e EXCEPT !.npages = first - e.page_num]
    BY <1>1 DEF Cut
  <2>2. first - e.page_num \in Nat \ {0} /\ first <= EndPage(e)
    BY <1>0, <1>1 DEF Split, OverlapsEnd, EndPage
  <2>3. c \in Entries
    BY <2>1, <2>2 DEF Entries
  <2>4. /\ c.page_num = e.page_num /\ c.npages = first - e.page_num
        /\ c.prot = e.prot /\ c.nmop = e.nmop /\ c.removed = e.removed
    BY <2>1 DEF Entries
  <2> HIDE DEF c
  <2>5. ~OverlapsStart(e, first, end) /\ ~Covers(e, first, end)
    BY <1>0, <1>1 DEF Split, OverlapsEnd, OverlapsStart, Covers, EndPage
  <2>6. \A p \in Nat : Holds(c, p) <=>
           Holds(e, p) /\ (p < first \/ (p >= end /\ ~Split(e, first, end)))
    BY <1>0, <1>1, <2>4 DEF Split, OverlapsEnd, EndPage, Holds
  <2> QED BY <1>0, <2>2, <2>3, <2>4, <2>5, <2>6 DEF EndPage, c
<1>2. CASE OverlapsStart(e, first, end)
  <2>1. c = [e EXCEPT !.page_num = end, !.npages = EndPage(e) - end]
    BY <1>0, <1>2 DEF Cut, Split, OverlapsEnd, OverlapsStart, EndPage
  <2>2. EndPage(e) - end \in Nat \ {0} /\ e.page_num <= end
    BY <1>0, <1>2 DEF OverlapsStart, EndPage
  <2>3. c \in Entries
    BY <2>1, <2>2 DEF Entries
  <2>4. /\ c.page_num = end /\ c.npages = EndPage(e) - end
        /\ c.prot = e.prot /\ c.nmop = e.nmop /\ c.removed = e.removed
    BY <2>1 DEF Entries
  <2> HIDE DEF c
  <2>5. ~Split(e, first, end) /\ ~Covers(e, first, end)
    BY <1>0, <1>2 DEF Split, OverlapsStart, Covers, EndPage
  <2>6. \A p \in Nat : Holds(c, p) <=>
           Holds(e, p) /\ (p < first \/ (p >= end /\ ~Split(e, first, end)))
    BY <1>0, <1>2, <2>4, <2>5 DEF OverlapsStart, EndPage, Holds
  <2> QED BY <1>0, <1>2, <2>2, <2>3, <2>4, <2>5, <2>6 DEF EndPage, c
<1>3. CASE Covers(e, first, end)
  <2>1. c = [e EXCEPT !.removed = TRUE]
    BY <1>0, <1>3 DEF Cut, Split, OverlapsEnd, OverlapsStart, Covers, EndPage
  <2>2. ~OverlapsStart(e, first, end)
    BY <1>0, <1>3 DEF OverlapsStart, Covers, EndPage
  <2>3. /\ c \in Entries /\ c.page_num = e.page_num /\ c.npages = e.npages
        /\ c.prot = e.prot /\ c.nmop = e.nmop /\ c.removed = TRUE
    BY <2>1 DEF Entries
  <2> QED BY <1>0, <1>3, <2>2, <2>3 DEF EndPage
<1>4. CASE /\ ~Split(e, first, end) /\ ~OverlapsEnd(e, first, end)
           /\ ~OverlapsStart(e, first, end) /\ ~Covers(e, first, end)
  <2>1. c = e
    BY <1>4 DEF Cut
  <2>2. \A p \in Nat : Holds(e, p) => p < first \/ p >= end
    BY <1>0, <1>4 DEF Split, OverlapsEnd, OverlapsStart, Covers, EndPage, Holds
  <2>3. EndPage(e) \in Nat
    BY <1>0 DEF EndPage
  <2>4. \A p \in Nat : Holds(c, p) <=>
           Holds(e, p) /\ (p < first \/ (p >= end /\ ~Split(e, first, end)))
    BY <1>4, <2>1, <2>2
  <2> HIDE DEF c
  <2> QED BY <1>0, <1>4, <2>1, <2>3, <2>4 DEF EndPage, c
<1> QED BY <1>1, <1>2, <1>3, <1>4

(* At most one entry reaches past the new region.                           *)
LEMMA OneReaching ==
  ASSUME NEW v, Tidy(v), Live(v), NEW first \in Nat, NEW end \in Nat, first < end,
         NEW i \in Reaching(v, first, end)
  PROVE  /\ i \in DOMAIN v
         /\ (CHOOSE k \in Reaching(v, first, end) : TRUE) = i
         /\ Reaching(v, first, end) # {}
         /\ \A k \in DOMAIN v :
              Split(v[k], first, end) \/ OverlapsStart(v[k], first, end) => k = i
<1>1. ASSUME NEW k \in Reaching(v, first, end)
      PROVE  k \in Kept(v) /\ Holds(v[k], end)
  <2>1. k \in Kept(v)
    BY DEF Reaching, Live, Kept
  <2>2. v[k] \in Entries
    <3>1. k \in 1 .. Len(v) BY <2>1 DEF Kept, Tidy
    <3> QED BY <3>1, ElementOfSeq DEF Tidy
  <2>3. v[k].page_num \in Nat /\ v[k].npages \in Nat
    BY <2>2 DEF Entries
  <2>4. Split(v[k], first, end) \/ OverlapsStart(v[k], first, end)
    BY DEF Reaching
  <2> QED BY <2>1, <2>3, <2>4 DEF Holds, Split, OverlapsStart, EndPage
<1>2. \A k \in Reaching(v, first, end) : k = i
  BY <1>1 DEF Tidy
<1> QED BY <1>2 DEF Reaching

CutAll(v, first, end) == [i \in DOMAIN v |-> Cut(v[i], first, end)]

(* All entries are cut: those that are kept hold what they held outside of  *)
(* the new region, except above it where it lies within one.                *)
LEMMA CutArray ==
  ASSUME Bounds, NEW v, Tidy(v), Live(v), NEW first \in Nat, NEW end \in Nat, first < end
  PROVE  LET u == CutAll(v, first, end)
         IN  /\ u \in Seq(Entries) /\ Len(u) = Len(v) /\ DOMAIN u = DOMAIN v
             /\ \A k \in DOMAIN v :
                  /\ v[k] \in Entries /\ v[k].npages > 0 /\ EndPage(v[k]) <= NumPages
                  /\ u[k].prot = v[k].prot /\ u[k].nmop = v[k].nmop
                  /\ u[k].npages <= v[k].npages
                  /\ OverlapsStart(v[k], first, end) =>
                       u[k].page_num = end /\ u[k].npages = EndPage(v[k]) - end
                  /\ ~OverlapsStart(v[k], first, end) => u[k].page_num = v[k].page_num
                  /\ u[k].removed <=> Covers(v[k], first, end)
             /\ \A k \in Kept(u), p \in Nat :
                  Holds(u[k], p) <=>
                    Holds(v[k], p) /\ (p < first \/ (p >= end /\ ~Split(v[k], first, end)))
             /\ \A k \in DOMAIN v, p \in Nat :
                  Holds(v[k], p) /\ (p < first \/ p >= end) => k \in Kept(u)
             /\ Tidy(u)
             /\ \A o, x : OwnedBy(DOMAIN v, v, o, x) => OwnedBy(DOMAIN u, u, o, x)
<1> DEFINE u == CutAll(v, first, end)
<1>1. /\ v \in Seq(Entries) /\ Kept(v) = DOMAIN v
      /\ DOMAIN v = 1 .. Len(v) /\ Len(v) \in Nat
  BY LenProperties DEF Tidy, Live, Kept
<1>2. ASSUME NEW k \in DOMAIN v
      PROVE  /\ v[k] \in Entries /\ v[k].npages > 0 /\ EndPage(v[k]) <= NumPages
             /\ ~v[k].removed
  BY <1>1, ElementOfSeq DEF Tidy, Live
<1>3. DOMAIN u = DOMAIN v /\ \A k \in DOMAIN v : u[k] = Cut(v[k], first, end)
  BY DEF CutAll
<1> HIDE DEF u
<1>4. ASSUME NEW k \in DOMAIN v
      PROVE  /\ u[k] \in Entries /\ u[k].prot = v[k].prot /\ u[k].nmop = v[k].nmop
             /\ u[k].removed <=> Covers(v[k], first, end)
             /\ u[k].npages > 0 /\ EndPage(u[k]) <= EndPage(v[k])
             /\ OverlapsStart(v[k], first, end) => u[k].page_num = end
             /\ ~OverlapsStart(v[k], first, end) => u[k].page_num = v[k].page_num
             /\ \A p \in Nat : ~Covers(v[k], first, end) =>
                  (Holds(u[k], p) <=>
                     Holds(v[k], p) /\ (p < first \/ (p >= end /\ ~Split(v[k], first, end))))
             /\ u[k].npages <= v[k].npages
             /\ OverlapsStart(v[k], first, end) => u[k].npages = EndPage(v[k]) - end
  BY <1>2, <1>3, CutEntry
<1>5. u \in Seq(Entries) /\ Len(u) = Len(v)
  <2>1. u = CutAll(v, first, end)
    BY DEF u
  <2>2. u = [k \in 1 .. Len(v) |-> u[k]]
    BY <1>1, <1>3, <2>1 DEF CutAll
  <2>3. u \in [1 .. Len(v) -> Entries]
    BY <1>1, <1>4, <2>2
  <2> QED BY <1>1, <2>3
<1>6. \A k \in Kept(u) : k \in DOMAIN v /\ ~Covers(v[k], first, end)
  BY <1>3, <1>4 DEF Kept
<1>7. ASSUME NEW k \in DOMAIN v, NEW p \in Nat, Holds(v[k], p), p < first \/ p >= end
      PROVE  k \in Kept(u)
  <2>1. v[k].page_num \in Nat /\ v[k].npages \in Nat
    BY <1>2 DEF Entries
  <2>2. ~Covers(v[k], first, end)
    BY <1>7, <2>1 DEF Covers, Holds, EndPage
  <2> QED BY <1>3, <1>4, <2>2 DEF Kept
<1>8. Tidy(u)
  <2>1. \A k \in Kept(u) : u[k].npages > 0 /\ EndPage(u[k]) <= NumPages
    <3> TAKE k \in Kept(u)
    <3>1. /\ k \in DOMAIN v /\ EndPage(u[k]) <= EndPage(v[k]) /\ EndPage(v[k]) <= NumPages
          /\ u[k].npages > 0
      BY <1>2, <1>4, <1>6
    <3>2. EndPage(u[k]) \in Nat /\ EndPage(v[k]) \in Nat /\ NumPages \in Nat
      <4>1. \A e \in Entries : EndPage(e) \in Nat BY DEF Entries, EndPage
      <4> QED BY <1>2, <1>4, <3>1, <4>1 DEF Bounds
    <3> QED BY <3>1, <3>2
  <2>2. ASSUME NEW k \in Kept(u), NEW m \in Kept(u), NEW p \in Nat,
               Holds(u[k], p), Holds(u[m], p)
        PROVE  k = m
    <3>1. Holds(v[k], p) /\ Holds(v[m], p)
      BY <1>4, <1>6, <2>2
    <3> QED BY <1>1, <1>6, <3>1 DEF Tidy
  <2> QED BY <1>5, <2>1, <2>2 DEF Tidy
<1>9. ASSUME NEW o, NEW x, OwnedBy(DOMAIN v, v, o, x) PROVE OwnedBy(DOMAIN u, u, o, x)
  <2>1. {u[k].nmop : k \in DOMAIN u} = {v[k].nmop : k \in DOMAIN v}
    BY <1>3, <1>4
  <2>2. \A k \in DOMAIN v : u[k].nmop = v[k].nmop
    BY <1>4
  <2> QED BY <1>3, <1>9, <2>1, <2>2 DEF OwnedBy
<1>10. \A k \in Kept(u), p \in Nat :
         Holds(u[k], p) <=>
           Holds(v[k], p) /\ (p < first \/ (p >= end /\ ~Split(v[k], first, end)))
  BY <1>4, <1>6
<1> QED
  BY <1>2, <1>3, <1>4, <1>5, <1>7, <1>8, <1>9, <1>10 DEF u

(* What an update does to the array and the objects before it adds its own  *)
(* region: the pages outside of it keep their contents.                     *)
Outside(p, first, end) == p < first \/ p >= end

Changed(v, o, w, q, first, end, x) ==
  /\ Tidy(w)
  /\ \A k \in Kept(w), p \in Nat : Holds(w[k], p) => Outside(p, first, end)
  /\ OwnedBy(DOMAIN w, w, q, x)
  /\ x # NoObj => q[x] = o[x]
  /\ \A p \in Nat : \A y :
       Outside(p, first, end) /\ ValueAt(v, o, p, y) => ValueAt(w, q, p, y)
  /\ InFiles(DOMAIN v, v, o) => InFiles(DOMAIN w, w, q)

(* No entry reaches past the new region, or the one that does starts in it. *)
LEMMA ChangedWithout ==
  ASSUME Bounds, NEW v, Tidy(v), Live(v), NEW first \in Nat, NEW end \in Nat, first < end,
         NEW o, NEW x, OwnedBy(DOMAIN v, v, o, x),
         Reaching(v, first, end) = {}
  PROVE  Changed(v, o, CutAll(v, first, end), o, first, end, x)
<1> DEFINE u == CutAll(v, first, end)
<1>1. /\ u \in Seq(Entries) /\ Len(u) = Len(v) /\ DOMAIN u = DOMAIN v
      /\ \A k \in DOMAIN v :
           /\ v[k] \in Entries
           /\ u[k].prot = v[k].prot /\ u[k].nmop = v[k].nmop
           /\ u[k].npages <= v[k].npages
           /\ ~OverlapsStart(v[k], first, end) => u[k].page_num = v[k].page_num
      /\ \A k \in Kept(u), p \in Nat :
           Holds(u[k], p) <=>
             Holds(v[k], p) /\ (p < first \/ (p >= end /\ ~Split(v[k], first, end)))
      /\ \A k \in DOMAIN v, p \in Nat :
           Holds(v[k], p) /\ (p < first \/ p >= end) => k \in Kept(u)
      /\ Tidy(u)
      /\ OwnedBy(DOMAIN u, u, o, x)
  BY CutArray
<1> HIDE DEF u
<1>2. \A k \in DOMAIN v : ~Split(v[k], first, end) /\ ~OverlapsStart(v[k], first, end)
  BY DEF Reaching
<1>3. Kept(v) = DOMAIN v /\ Kept(u) \subseteq DOMAIN v
  BY <1>1 DEF Live, Kept
<1>4. ASSUME NEW p \in Nat, NEW y, Outside(p, first, end), ValueAt(v, o, p, y)
      PROVE  ValueAt(u, o, p, y)
  <2>1. \A k \in DOMAIN v : Value(u[k], o, p) = Value(v[k], o, p)
    BY <1>1, <1>2 DEF Value
  <2>2. \A k \in DOMAIN v : Holds(v[k], p) <=> k \in Kept(u) /\ Holds(u[k], p)
    BY <1>1, <1>2, <1>3, <1>4 DEF Outside
  <2> HIDE DEF Value, Holds
  <2> QED BY <1>3, <1>4, <2>1, <2>2 DEF ValueAt
<1>5. ASSUME InFiles(DOMAIN v, v, o) PROVE InFiles(DOMAIN u, u, o)
  <2> SUFFICES ASSUME NEW k \in DOMAIN v, u[k].nmop # NoObj
               PROVE  o[u[k].nmop].offset + u[k].npages <= FileSize
    BY <1>1 DEF InFiles
  <2>1. u[k].nmop = v[k].nmop /\ u[k].npages <= v[k].npages /\ k \in DOMAIN v
    BY <1>1
  <2>2. o[v[k].nmop].offset + v[k].npages <= FileSize
    BY <1>5, <2>1 DEF InFiles
  <2>3. v[k].nmop \in DOMAIN o
    BY <2>1 DEF OwnedBy
  <2>4. o[v[k].nmop].offset \in Nat
    BY <2>3 DEF OwnedBy, ObjRecs
  <2>5. u[k].npages \in Nat /\ v[k].npages \in Nat
    BY <1>1, EntryOf DEF Tidy
  <2> QED BY <2>1, <2>2, <2>4, <2>5 DEF Bounds
<1> QED
  BY <1>1, <1>4, <1>5 DEF Changed, Outside, u

(* The entry that overlaps the new region's end is cut at its start, and    *)
(* its object is moved on by as much.                                       *)
LEMMA ChangedAtStart ==
  ASSUME Bounds, NEW v, Tidy(v), Live(v), NEW first \in Nat, NEW end \in Nat, first < end,
         NEW o, NEW x, OwnedBy(DOMAIN v, v, o, x),
         NEW i \in Reaching(v, first, end), ~Split(v[i], first, end)
  PROVE  Changed(v, o, CutAll(v, first, end),
                 IncOffset(o, v[i].nmop, end - v[i].page_num), first, end, x)
<1> DEFINE u == CutAll(v, first, end)
           n == v[i].nmop
           q == IncOffset(o, n, end - v[i].page_num)
<1>1. /\ u \in Seq(Entries) /\ Len(u) = Len(v) /\ DOMAIN u = DOMAIN v
      /\ \A k \in DOMAIN v :
           /\ v[k] \in Entries
           /\ u[k].prot = v[k].prot /\ u[k].nmop = v[k].nmop
           /\ u[k].npages <= v[k].npages
           /\ OverlapsStart(v[k], first, end) =>
                u[k].page_num = end /\ u[k].npages = EndPage(v[k]) - end
           /\ ~OverlapsStart(v[k], first, end) => u[k].page_num = v[k].page_num
      /\ \A k \in Kept(u), p \in Nat :
           Holds(u[k], p) <=>
             Holds(v[k], p) /\ (p < first \/ (p >= end /\ ~Split(v[k], first, end)))
      /\ \A k \in DOMAIN v, p \in Nat :
           Holds(v[k], p) /\ (p < first \/ p >= end) => k \in Kept(u)
      /\ Tidy(u)
      /\ OwnedBy(DOMAIN u, u, o, x)
  BY CutArray
<1> HIDE DEF u
<1>2. /\ i \in DOMAIN v /\ OverlapsStart(v[i], first, end)
      /\ \A k \in DOMAIN v : ~Split(v[k], first, end)
      /\ \A k \in DOMAIN v : OverlapsStart(v[k], first, end) => k = i
  BY OneReaching DEF Reaching
<1>3. Kept(v) = DOMAIN v /\ Kept(u) \subseteq DOMAIN v
  BY <1>1 DEF Live, Kept
<1>4. /\ v[i].page_num \in Nat /\ v[i].npages \in Nat /\ n \in Nat
      /\ end - v[i].page_num \in Nat
  BY <1>1, <1>2 DEF Entries, OverlapsStart
<1>5. \A k \in DOMAIN v : v[k].nmop # NoObj => v[k].nmop \in DOMAIN o
  BY DEF OwnedBy
<1>6. /\ DOMAIN q = DOMAIN o
      /\ \A m \in DOMAIN o : m # n => q[m] = o[m]
      /\ n # NoObj => /\ q[n].file = o[n].file
                      /\ q[n].offset = o[n].offset + (end - v[i].page_num)
      /\ q \in [DOMAIN o -> ObjRecs]
  <2>1. o \in [DOMAIN o -> ObjRecs]
    BY DEF OwnedBy
  <2>2. CASE n = NoObj
    <3>1. q = o
      BY <2>2 DEF IncOffset
    <3> QED BY <2>1, <2>2, <3>1
  <2>3. CASE n # NoObj
    <3>1. n \in DOMAIN o
      BY <1>2, <1>5, <2>3
    <3>2. o[n] \in ObjRecs
      BY <2>1, <3>1
    <3>3. q = [o EXCEPT ![n].offset = @ + (end - v[i].page_num)]
      BY <2>3 DEF IncOffset
    <3>4. q = [o EXCEPT ![n] = [o[n] EXCEPT !.offset = o[n].offset + (end - v[i].page_num)]]
      BY <3>3
    <3> DEFINE r == [o[n] EXCEPT !.offset = o[n].offset + (end - v[i].page_num)]
    <3>5. r \in ObjRecs /\ r.file = o[n].file /\ r.offset = o[n].offset + (end - v[i].page_num)
      BY <1>4, <3>2 DEF ObjRecs
    <3> HIDE DEF r
    <3>6. q = [o EXCEPT ![n] = r]
      BY <3>4 DEF r
    <3> HIDE DEF q
    <3> QED BY <2>1, <3>1, <3>5, <3>6
  <2> QED BY <2>2, <2>3
<1>7. \A k \in DOMAIN v : k # i /\ v[k].nmop # NoObj => q[v[k].nmop] = o[v[k].nmop]
  BY <1>2, <1>5, <1>6 DEF OwnedBy
<1> HIDE DEF q
<1>8. OwnedBy(DOMAIN u, u, q, x)
  BY <1>1, <1>6 DEF OwnedBy
<1>9. x # NoObj => q[x] = o[x]
  <2>1. x # NoObj => x \in DOMAIN o /\ x # n
    BY <1>2 DEF OwnedBy
  <2> QED BY <1>6, <2>1
<1>10. ASSUME NEW p \in Nat, NEW y, Outside(p, first, end), ValueAt(v, o, p, y)
       PROVE  ValueAt(u, q, p, y)
  <2>1. ASSUME NEW k \in DOMAIN v PROVE Value(u[k], q, p) = Value(v[k], o, p)
    <3>1. CASE k # i
      BY <1>1, <1>2, <1>7, <3>1 DEF Value
    <3>2. CASE k = i /\ n = NoObj
      BY <1>1, <3>2 DEF Value
    <3>3. CASE k = i /\ n # NoObj
      <4>1. n \in DOMAIN o
        BY <1>2, <1>5, <3>3
      <4>2. o[n].offset \in Nat
        BY <4>1 DEF OwnedBy, ObjRecs
      <4>3. u[i].page_num = end /\ u[i].nmop = n /\ u[i].prot = v[i].prot
        BY <1>1, <1>2
      <4>4. q[n].offset + p - end = o[n].offset + p - v[i].page_num
        BY <1>4, <1>6, <3>3, <4>2
      <4> QED BY <1>6, <3>3, <4>3, <4>4 DEF Value
    <3> QED BY <3>1, <3>2, <3>3
  <2>2. \A k \in DOMAIN v : Holds(v[k], p) <=> k \in Kept(u) /\ Holds(u[k], p)
    BY <1>1, <1>2, <1>3, <1>10 DEF Outside
  <2> HIDE DEF Value, Holds
  <2> QED BY <1>3, <1>10, <2>1, <2>2 DEF ValueAt
<1>11. ASSUME InFiles(DOMAIN v, v, o) PROVE InFiles(DOMAIN u, u, q)
  <2> SUFFICES ASSUME NEW k \in DOMAIN v, u[k].nmop # NoObj
               PROVE  q[u[k].nmop].offset + u[k].npages <= FileSize
    BY <1>1 DEF InFiles
  <2>1. u[k].nmop = v[k].nmop /\ u[k].npages <= v[k].npages /\ k \in DOMAIN v
    BY <1>1
  <2>2. o[v[k].nmop].offset + v[k].npages <= FileSize
    BY <1>11, <2>1 DEF InFiles
  <2>3. v[k].nmop \in DOMAIN o
    BY <2>1 DEF OwnedBy
  <2>4. o[v[k].nmop].offset \in Nat
    BY <2>3 DEF OwnedBy, ObjRecs
  <2>5. u[k].npages \in Nat /\ v[k].npages \in Nat /\ FileSize \in Nat
    BY <1>1, EntryOf DEF Tidy, Bounds
  <2>6. CASE k # i
    <3>1. q[u[k].nmop] = o[v[k].nmop]
      BY <1>7, <2>1, <2>6
    <3> QED BY <2>1, <2>2, <2>4, <2>5, <3>1
  <2>7. CASE k = i
    <3>1. /\ q[n].offset = o[n].offset + (end - v[i].page_num)
          /\ u[i].npages = v[i].page_num + v[i].npages - end
          /\ u[k].nmop = n /\ v[k].nmop = n
      <4>1. n # NoObj /\ u[k].nmop = n /\ v[k].nmop = n
        BY <2>1, <2>7
      <4>2. u[i].npages = EndPage(v[i]) - end
        BY <1>1, <1>2
      <4>3. u[i].npages = v[i].page_num + v[i].npages - end
        BY <1>4, <4>2 DEF EndPage
      <4>4. q[n].offset = o[n].offset + (end - v[i].page_num)
        BY <1>6, <4>1
      <4> QED BY <4>1, <4>3, <4>4
    <3>2. o[n].offset + v[i].npages <= FileSize /\ o[n].offset \in Nat
      BY <2>2, <2>4, <2>7, <3>1
    <3>3. q[n].offset + u[i].npages = o[n].offset + v[i].npages
      BY <1>4, <3>1, <3>2
    <3> QED BY <2>7, <3>1, <3>2, <3>3
  <2> QED BY <2>6, <2>7
<1> QED
  BY <1>1, <1>8, <1>9, <1>10, <1>11 DEF Changed, Outside, u, q

(* An array with one more region.                                           *)
LEMMA OneMore ==
  ASSUME NEW u \in Seq(Entries), NEW e \in Entries
  PROVE  LET w == Append(u, e)
         IN  /\ w \in Seq(Entries) /\ DOMAIN w = DOMAIN u \cup {Len(w)}
             /\ Len(w) = Len(u) + 1 /\ Len(w) \in Nat /\ Len(w) \notin DOMAIN u
             /\ w[Len(w)] = e /\ \A k \in DOMAIN u : w[k] = u[k]
             /\ Kept(w) = Kept(u) \cup (IF e.removed THEN {} ELSE {Len(w)})
<1> DEFINE w == Append(u, e)
<1>1. Len(u) \in Nat /\ DOMAIN u = 1 .. Len(u)
  BY LenProperties
<1>2. /\ w \in Seq(Entries) /\ Len(w) = Len(u) + 1 /\ w[Len(u) + 1] = e
      /\ \A k \in 1 .. Len(u) : w[k] = u[k]
  BY AppendProperties
<1> HIDE DEF w
<1>3. DOMAIN w = DOMAIN u \cup {Len(w)} /\ Len(w) \notin DOMAIN u /\ Len(w) \in Nat
  <2>1. DOMAIN w = 1 .. Len(u) + 1
    BY <1>2
  <2> QED BY <1>1, <1>2, <2>1
<1>4. \A k \in DOMAIN u : w[k] = u[k]
  BY <1>1, <1>2
<1>5. w[Len(w)] = e
  BY <1>2
<1>6. Kept(w) = Kept(u) \cup (IF e.removed THEN {} ELSE {Len(w)})
  BY <1>3, <1>4, <1>5 DEF Kept
<1> QED BY <1>2, <1>3, <1>4, <1>5, <1>6 DEF w

(* The new region lies within one: the part above it is a region of its own,*)
(* with an object of its own.                                               *)
WithUpperPart(u, o, e, end, up) ==
  \E n \in Nat :
    /\ up.vm = Append(u, Region(end, EndPage(e) - end, e.prot, n))
    /\ IsFiniteSet(DOMAIN up.objs)
    /\ up.objs \in [DOMAIN up.objs -> ObjRecs]
    /\ \A m \in DOMAIN o : up.objs[m] = o[m]
    /\ e.nmop = NoObj => n = NoObj /\ up.objs = o
    /\ e.nmop # NoObj =>
         /\ n # NoObj /\ n \notin DOMAIN o /\ DOMAIN up.objs = DOMAIN o \cup {n}
         /\ up.objs[n].file = o[e.nmop].file
         /\ up.objs[n].offset = o[e.nmop].offset + (end - e.page_num)

(* UpperPart appends the upper part, with an object of its own where the    *)
(* split entry has one.                                                     *)
LEMMA UpperPartOf ==
  ASSUME NEW v, Tidy(v), NEW u, NEW end \in Nat, NEW i \in DOMAIN v, end < EndPage(v[i]),
         NEW o, NEW x, OwnedBy(DOMAIN v, v, o, x), v[i].page_num < end,
         NEW up, up = UpperPart([vm |-> u, objs |-> o], v[i], end)
  PROVE  WithUpperPart(u, o, v[i], end, up)
<1> DEFINE e == v[i]
<1>1. e.page_num \in Nat /\ e.nmop \in Nat /\ end - e.page_num \in Nat
  BY EntryOf DEF Tidy
<1>2. IsFiniteSet(DOMAIN o) /\ o \in [DOMAIN o -> ObjRecs]
  BY DEF OwnedBy
<1>3. CASE e.nmop = NoObj
  <2>1. /\ up.vm = Append(u, Region(end, EndPage(e) - end, e.prot, NoObj))
        /\ up.objs = o
    BY <1>3 DEF UpperPart
  <2>2. NoObj \in Nat
    BY DEF NoObj
  <2>3. /\ up.vm = Append(u, Region(end, EndPage(e) - end, e.prot, NoObj))
        /\ IsFiniteSet(DOMAIN up.objs)
        /\ up.objs \in [DOMAIN up.objs -> ObjRecs]
        /\ \A m \in DOMAIN o : up.objs[m] = o[m]
        /\ up.objs = o
    BY <1>2, <2>1
  <2> QED BY <1>3, <2>2, <2>3 DEF WithUpperPart
<1>4. CASE e.nmop # NoObj
  <2> DEFINE n == FreshObj(o)
             at == o[e.nmop].offset + (end - e.page_num)
             q == Allocate(o, n, o[e.nmop].file, at)
  <2>1. n \in Nat /\ n # NoObj /\ n \notin DOMAIN o
    BY <1>2, FreshNumber DEF NoObj
  <2>2. /\ up.vm = Append(u, Region(end, EndPage(e) - end, e.prot, n))
        /\ up.objs = q
    BY <1>4 DEF UpperPart
  <2>3. e.nmop \in DOMAIN o
    BY <1>4 DEF OwnedBy
  <2>4. o[e.nmop].file \in Files /\ at \in Nat
    <3>1. o[e.nmop] \in ObjRecs
      BY <1>2, <2>3
    <3> QED BY <1>1, <3>1 DEF ObjRecs
  <2> HIDE DEF n, at
  <2>5. /\ DOMAIN q = DOMAIN o \cup {n}
        /\ \A m \in DOMAIN o : q[m] = o[m]
        /\ q[n] = [file |-> o[e.nmop].file, offset |-> at]
    BY <2>1 DEF Allocate
  <2>6. q = [k \in DOMAIN q |-> q[k]] /\ \A k \in DOMAIN q : q[k] \in ObjRecs
    <3>1. q[n] \in ObjRecs
      BY <2>4, <2>5 DEF ObjRecs
    <3>2. \A k \in DOMAIN q : q[k] \in ObjRecs
      BY <1>2, <2>5, <3>1
    <3>3. q = [k \in DOMAIN q |-> q[k]]
      BY <2>5 DEF Allocate
    <3> QED BY <3>2, <3>3
  <2>7. IsFiniteSet(DOMAIN q)
    BY <1>2, <2>5, FS_AddElement
  <2> HIDE DEF q
  <2>8. q \in [DOMAIN q -> ObjRecs]
    BY <2>6
  <2>9. /\ up.vm = Append(u, Region(end, EndPage(e) - end, e.prot, n))
        /\ IsFiniteSet(DOMAIN up.objs)
        /\ up.objs \in [DOMAIN up.objs -> ObjRecs]
        /\ \A m \in DOMAIN o : up.objs[m] = o[m]
        /\ n # NoObj /\ n \notin DOMAIN o /\ DOMAIN up.objs = DOMAIN o \cup {n}
        /\ up.objs[n].file = o[e.nmop].file
        /\ up.objs[n].offset = o[e.nmop].offset + (end - e.page_num)
    BY <2>1, <2>2, <2>5, <2>7, <2>8 DEF at
  <2> QED BY <1>4, <2>1, <2>9 DEF WithUpperPart
<1> QED BY <1>3, <1>4

(* The entry around the new region is split in two.                         *)
LEMMA ChangedWithin ==
  ASSUME Bounds, NEW v, Tidy(v), Live(v), NEW first \in Nat, NEW end \in Nat, first < end,
         NEW o, NEW x, OwnedBy(DOMAIN v, v, o, x),
         NEW i \in Reaching(v, first, end), Split(v[i], first, end)
  PROVE  LET up == UpperPart([vm |-> CutAll(v, first, end), objs |-> o], v[i], end)
         IN  Changed(v, o, up.vm, up.objs, first, end, x)
<1> DEFINE u == CutAll(v, first, end)
           up == UpperPart([vm |-> u, objs |-> o], v[i], end)
           w == up.vm
           q == up.objs
           e == v[i]
<1>1. /\ u \in Seq(Entries) /\ Len(u) = Len(v) /\ DOMAIN u = DOMAIN v
      /\ \A k \in DOMAIN v :
           /\ v[k] \in Entries /\ EndPage(v[k]) <= NumPages
           /\ u[k].prot = v[k].prot /\ u[k].nmop = v[k].nmop
           /\ u[k].npages <= v[k].npages
           /\ ~OverlapsStart(v[k], first, end) => u[k].page_num = v[k].page_num
      /\ \A k \in Kept(u), p \in Nat :
           Holds(u[k], p) <=>
             Holds(v[k], p) /\ (p < first \/ (p >= end /\ ~Split(v[k], first, end)))
      /\ \A k \in DOMAIN v, p \in Nat :
           Holds(v[k], p) /\ (p < first \/ p >= end) => k \in Kept(u)
      /\ Tidy(u)
      /\ OwnedBy(DOMAIN u, u, o, x)
  BY CutArray
<1> HIDE DEF u
<1>2. /\ i \in DOMAIN v /\ i \in Kept(v)
      /\ \A k \in DOMAIN v : Split(v[k], first, end) => k = i
      /\ \A k \in DOMAIN v : ~OverlapsStart(v[k], first, end)
  <2>1. i \in DOMAIN v /\ ~OverlapsStart(v[i], first, end)
    <3>1. i \in DOMAIN v
      BY DEF Reaching
    <3>2. v[i].page_num \in Nat
      BY <3>1, EntryOf DEF Tidy
    <3> QED BY <3>1, <3>2 DEF Split, OverlapsStart
  <2> QED BY <2>1, OneReaching DEF Live, Kept
<1>3. Kept(v) = DOMAIN v /\ Kept(u) \subseteq DOMAIN v
  BY <1>1 DEF Live, Kept
<1>4. /\ e.page_num \in Nat /\ e.npages \in Nat /\ e.nmop \in Nat /\ EndPage(e) \in Nat
      /\ e.prot \in Prots /\ EndPage(e) = e.page_num + e.npages
      /\ e.page_num < first /\ end < EndPage(e) /\ e.page_num < end
      /\ NumPages \in Nat /\ EndPage(e) <= NumPages
  <2>1. /\ e.page_num \in Nat /\ e.npages \in Nat /\ e.nmop \in Nat /\ EndPage(e) \in Nat
        /\ e.prot \in Prots
    BY <1>2, EntryOf DEF Tidy
  <2>2. e.page_num < first /\ end < EndPage(e) /\ EndPage(e) <= NumPages
    BY <1>1, <1>2 DEF Split
  <2>3. EndPage(e) = e.page_num + e.npages
    BY DEF EndPage
  <2> QED BY <2>1, <2>2, <2>3 DEF Bounds
<1>5. PICK n \in Nat :
        /\ w = Append(u, Region(end, EndPage(e) - end, e.prot, n))
        /\ IsFiniteSet(DOMAIN q)
        /\ q \in [DOMAIN q -> ObjRecs]
        /\ \A m \in DOMAIN o : q[m] = o[m]
        /\ e.nmop = NoObj => n = NoObj /\ q = o
        /\ e.nmop # NoObj =>
             /\ n # NoObj /\ n \notin DOMAIN o /\ DOMAIN q = DOMAIN o \cup {n}
             /\ q[n].file = o[e.nmop].file
             /\ q[n].offset = o[e.nmop].offset + (end - e.page_num)
  <2>1. i \in DOMAIN v /\ end < EndPage(v[i]) /\ v[i].page_num < end
    BY <1>2, <1>4
  <2> HIDE DEF up
  <2>2. up = UpperPart([vm |-> u, objs |-> o], v[i], end)
    BY DEF up
  <2>3. WithUpperPart(u, o, v[i], end, up)
    BY <2>1, <2>2, UpperPartOf
  <2> QED BY <2>3 DEF WithUpperPart
<1> HIDE DEF up
<1> DEFINE r == Region(end, EndPage(e) - end, e.prot, n)
<1>6. /\ r \in Entries /\ r.page_num = end /\ r.npages = EndPage(e) - end
      /\ r.prot = e.prot /\ r.nmop = n /\ r.removed = FALSE /\ r.npages \in Nat
      /\ r.npages > 0 /\ EndPage(r) = EndPage(e)
  BY <1>4 DEF Region, Entries, EndPage
<1>7. w = Append(u, r)
  BY <1>5
<1> HIDE DEF r
<1> DEFINE l == Len(w)
<1>8. /\ w \in Seq(Entries) /\ DOMAIN w = DOMAIN v \cup {l}
      /\ l \notin DOMAIN v /\ w[l] = r /\ \A k \in DOMAIN v : w[k] = u[k]
      /\ Kept(w) = Kept(u) \cup {l}
  BY <1>1, <1>6, <1>7, OneMore
<1> HIDE DEF w, l, q
<1>9. \A p \in Nat : Holds(w[l], p) <=> Holds(e, p) /\ p >= end
  BY <1>4, <1>6, <1>8 DEF Holds
<1>10. \A k \in Kept(u), p \in Nat :
         Holds(w[k], p) <=> Holds(v[k], p) /\ (p < first \/ (p >= end /\ k # i))
  BY <1>1, <1>2, <1>3, <1>8
<1>11. Tidy(w)
  <2>1. \A k \in Kept(w) : w[k].npages > 0 /\ EndPage(w[k]) <= NumPages
    <3> TAKE k \in Kept(w)
    <3>1. CASE k = l
      BY <1>4, <1>6, <1>8, <3>1
    <3>2. CASE k \in Kept(u)
      BY <1>1, <1>3, <1>8, <3>2 DEF Tidy
    <3> QED BY <1>8, <3>1, <3>2
  <2>2. ASSUME NEW k \in Kept(w), NEW m \in Kept(w), NEW p \in Nat,
               Holds(w[k], p), Holds(w[m], p)
        PROVE  k = m
    <3>1. \A a, b \in DOMAIN v : Holds(v[a], p) /\ Holds(v[b], p) => a = b
      BY <1>3 DEF Tidy
    <3>2. CASE k \in Kept(u) /\ m \in Kept(u)
      BY <1>3, <1>10, <2>2, <3>1, <3>2
    <3>3. CASE k = l /\ m \in Kept(u)
      <4>1. Holds(e, p) /\ p >= end /\ Holds(v[m], p) /\ m # i
        BY <1>4, <1>9, <1>10, <2>2, <3>3
      <4> QED BY <1>2, <1>3, <3>1, <3>3, <4>1
    <3>4. CASE m = l /\ k \in Kept(u)
      <4>1. Holds(e, p) /\ p >= end /\ Holds(v[k], p) /\ k # i
        BY <1>4, <1>9, <1>10, <2>2, <3>4
      <4> QED BY <1>2, <1>3, <3>1, <3>4, <4>1
    <3> QED BY <1>8, <3>2, <3>3, <3>4
  <2> QED BY <1>8, <2>1, <2>2 DEF Tidy
<1>12. \A k \in Kept(w), p \in Nat : Holds(w[k], p) => Outside(p, first, end)
  <2> TAKE k \in Kept(w), p \in Nat
  <2>1. CASE k = l
    BY <1>9, <2>1 DEF Outside
  <2>2. CASE k \in Kept(u)
    BY <1>10, <2>2 DEF Outside
  <2> QED BY <1>8, <2>1, <2>2
<1>13. \A k \in DOMAIN v : v[k].nmop # NoObj => v[k].nmop \in DOMAIN o
  BY DEF OwnedBy
<1>14. OwnedBy(DOMAIN w, w, q, x)
  <2>1. \A k \in DOMAIN v : w[k].nmop = v[k].nmop
    BY <1>1, <1>8
  <2>2. w[l].nmop = n
    BY <1>6, <1>8
  <2>3. {w[k].nmop : k \in DOMAIN w} = {v[k].nmop : k \in DOMAIN v} \cup {n}
    BY <1>8, <2>1, <2>2
  <2>4. DOMAIN q = ({w[k].nmop : k \in DOMAIN w} \cup {x}) \ {NoObj}
    <3>1. DOMAIN o = ({v[k].nmop : k \in DOMAIN v} \cup {x}) \ {NoObj}
      BY DEF OwnedBy
    <3>2. DOMAIN q = (DOMAIN o \cup {n}) \ {NoObj}
      <4>1. NoObj \notin DOMAIN o
        BY <3>1
      <4> QED BY <1>5, <4>1
    <3> QED BY <2>3, <3>1, <3>2
  <2>5. \A k \in DOMAIN v : v[k].nmop # NoObj =>
          v[k].nmop # x /\ v[k].nmop # n /\ \A m \in DOMAIN v : v[k].nmop = v[m].nmop => k = m
    <3> TAKE k \in DOMAIN v
    <3> HAVE v[k].nmop # NoObj
    <3>1. v[k].nmop \in DOMAIN o
      BY <1>13
    <3>2. v[k].nmop # n
      BY <1>5, <3>1
    <3> QED BY <3>2 DEF OwnedBy
  <2>6. n # NoObj => n # x
    <3>1. x \in DOMAIN o \/ x = NoObj
      BY DEF OwnedBy
    <3> QED BY <1>5, <3>1
  <2>7. ASSUME NEW k \in DOMAIN w, w[k].nmop # NoObj
        PROVE  w[k].nmop # x /\ \A m \in DOMAIN w : w[k].nmop = w[m].nmop => k = m
    <3>1. CASE k = l
      BY <1>8, <2>1, <2>2, <2>5, <2>6, <2>7, <3>1
    <3>2. CASE k \in DOMAIN v
      BY <1>8, <2>1, <2>2, <2>5, <2>7, <3>2
    <3> QED BY <1>8, <3>1, <3>2
  <2> QED BY <1>5, <2>4, <2>7 DEF OwnedBy
<1>15. x # NoObj => q[x] = o[x]
  BY <1>5 DEF OwnedBy
<1>16. \A k \in DOMAIN v : v[k].nmop # NoObj => q[v[k].nmop] = o[v[k].nmop]
  BY <1>5, <1>13
<1>17. e.nmop # NoObj => o[e.nmop].offset \in Nat
  <2>1. e.nmop # NoObj => o[e.nmop] \in ObjRecs
    BY <1>2, <1>13 DEF OwnedBy
  <2> QED BY <2>1 DEF ObjRecs
<1>18. ASSUME NEW p \in Nat, NEW y, Outside(p, first, end), ValueAt(v, o, p, y)
       PROVE  ValueAt(w, q, p, y)
  <2>1. ASSUME NEW k \in DOMAIN v PROVE Value(w[k], q, p) = Value(v[k], o, p)
    <3>1. /\ w[k].prot = v[k].prot /\ w[k].nmop = v[k].nmop
          /\ w[k].page_num = v[k].page_num
      BY <1>1, <1>2, <1>8
    <3> QED BY <1>16, <3>1 DEF Value
  <2>2. Value(w[l], q, p) = Value(e, o, p)
    <3>1. w[l].page_num = end /\ w[l].nmop = n /\ w[l].prot = e.prot
      BY <1>6, <1>8
    <3>2. CASE e.nmop = NoObj
      BY <1>5, <3>1, <3>2 DEF Value
    <3>3. CASE e.nmop # NoObj
      <4>1. q[n].offset + p - end = o[e.nmop].offset + p - e.page_num
        <5>1. q[n].offset = o[e.nmop].offset + (end - e.page_num)
          BY <1>5, <3>3
        <5>2. o[e.nmop].offset \in Nat
          BY <1>17, <3>3
        <5> QED BY <1>4, <5>1, <5>2
      <4> QED BY <1>5, <3>1, <3>3, <4>1 DEF Value
    <3> QED BY <3>2, <3>3
  <2>3. CASE \E k \in Kept(v) : Holds(v[k], p) /\ y = Value(v[k], o, p)
    <3>1. PICK k \in Kept(v) : Holds(v[k], p) /\ y = Value(v[k], o, p)
      BY <2>3
    <3>2. CASE k = i /\ p >= end
      <4>1. l \in Kept(w) /\ Holds(w[l], p)
        BY <1>8, <1>9, <3>1, <3>2
      <4> HIDE DEF Value, Holds
      <4> QED BY <2>2, <3>1, <3>2, <4>1 DEF ValueAt
    <3>3. CASE ~(k = i /\ p >= end)
      <4>1. k \in Kept(u)
        BY <1>1, <1>3, <1>18, <3>1 DEF Outside
      <4>2. Holds(w[k], p) /\ k \in Kept(w)
        BY <1>8, <1>10, <1>18, <3>1, <3>3, <4>1 DEF Outside
      <4>3. Value(w[k], q, p) = Value(v[k], o, p)
        BY <1>3, <2>1
      <4> HIDE DEF Value, Holds
      <4> QED BY <3>1, <4>2, <4>3 DEF ValueAt
    <3> QED BY <3>2, <3>3
  <2>4. CASE (\A k \in Kept(v) : ~Holds(v[k], p)) /\ y = Hole
    <3>1. \A k \in Kept(w) : ~Holds(w[k], p)
      <4> TAKE k \in Kept(w)
      <4>1. CASE k = l
        BY <1>2, <1>9, <2>4, <4>1
      <4>2. CASE k \in Kept(u)
        BY <1>3, <1>10, <2>4, <4>2
      <4> QED BY <1>8, <4>1, <4>2
    <3> QED BY <2>4, <3>1 DEF ValueAt
  <2> HIDE DEF Value, Holds
  <2> QED BY <1>18, <2>3, <2>4 DEF ValueAt
<1>19. ASSUME InFiles(DOMAIN v, v, o) PROVE InFiles(DOMAIN w, w, q)
  <2> SUFFICES ASSUME NEW k \in DOMAIN w, w[k].nmop # NoObj
               PROVE  q[w[k].nmop].offset + w[k].npages <= FileSize
    BY DEF InFiles
  <2>0. FileSize \in Nat
    BY DEF Bounds
  <2>1. CASE k = l
    <3>1. w[k].nmop = n /\ n # NoObj /\ e.nmop # NoObj /\ w[k].npages = EndPage(e) - end
      BY <1>5, <1>6, <1>8, <2>1
    <3>2. o[e.nmop].offset + e.npages <= FileSize /\ o[e.nmop].offset \in Nat
      BY <1>2, <1>17, <1>19, <3>1 DEF InFiles
    <3>3. q[n].offset + w[k].npages = o[e.nmop].offset + e.npages
      <4>1. q[n].offset = o[e.nmop].offset + (end - e.page_num)
        BY <1>5, <3>1
      <4>2. w[k].npages = e.page_num + e.npages - end
        BY <1>4, <3>1
      <4> QED BY <1>4, <3>2, <4>1, <4>2
    <3> QED BY <3>1, <3>2, <3>3
  <2>2. CASE k \in DOMAIN v
    <3>1. w[k].nmop = v[k].nmop /\ w[k].npages <= v[k].npages
      BY <1>1, <1>8, <2>2
    <3>2. o[v[k].nmop].offset + v[k].npages <= FileSize
      BY <1>19, <2>2, <3>1 DEF InFiles
    <3>3. q[w[k].nmop] = o[v[k].nmop] /\ v[k].nmop \in DOMAIN o
      BY <1>13, <1>16, <2>2, <3>1
    <3>4. o[v[k].nmop].offset \in Nat
      BY <3>3 DEF OwnedBy, ObjRecs
    <3>5. w[k].npages \in Nat /\ v[k].npages \in Nat
      BY <1>8, <2>2, EntryOf DEF Tidy
    <3> QED BY <2>0, <3>1, <3>2, <3>3, <3>4, <3>5
  <2> QED BY <1>8, <2>1, <2>2
<1> QED
  BY <1>11, <1>12, <1>14, <1>15, <1>18, <1>19 DEF Changed, u, up, w, q

(* Whichever entry reaches past the new region, the loop of NaClVmmapUpdate *)
(* leaves the pages outside the new region as they were.                    *)
LEMMA ChangeKeeps ==
  ASSUME Bounds, NEW v, Tidy(v), Live(v), NEW first \in Nat, NEW end \in Nat, first < end,
         NEW o, NEW x, OwnedBy(DOMAIN v, v, o, x),
         NEW ch, ch = Change([vm |-> v, objs |-> o], first, end)
  PROVE  Changed(v, o, ch.vm, ch.objs, first, end, x)
<1> DEFINE u == CutAll(v, first, end)
           R == Reaching(v, first, end)
           e == v[CHOOSE i \in R : TRUE]
<1>1. ch = IF R = {} THEN [vm |-> u, objs |-> o]
           ELSE IF Split(e, first, end) THEN UpperPart([vm |-> u, objs |-> o], e, end)
           ELSE [vm |-> u, objs |-> IncOffset(o, e.nmop, end - e.page_num)]
  BY DEF Change, CutAll
<1>2. CASE R = {}
  BY <1>1, <1>2, ChangedWithout
<1>3. CASE R # {}
  <2>1. PICK i \in R : TRUE
    BY <1>3
  <2>2. e = v[i]
    BY <2>1, OneReaching
  <2> HIDE DEF u, e
  <2>3. CASE Split(v[i], first, end)
    <3>1. ch = UpperPart([vm |-> u, objs |-> o], v[i], end)
      BY <1>1, <1>3, <2>2, <2>3
    <3> QED BY <2>3, <3>1, ChangedWithin DEF u
  <2>4. CASE ~Split(v[i], first, end)
    <3>1. ch.vm = u /\ ch.objs = IncOffset(o, v[i].nmop, end - v[i].page_num)
      BY <1>1, <1>3, <2>2, <2>4
    <3> QED BY <2>4, <3>1, ChangedAtStart DEF u
  <2> QED BY <2>3, <2>4
<1> QED BY <1>2, <1>3

(* Sorting changes neither what the map says nor whose the objects are.     *)
LEMMA SortedTidy ==
  ASSUME NEW v, Tidy(v), Live(v)
  PROVE  LET w == MakeSorted(v)
         IN  /\ Tidy(w) /\ Live(w) /\ Increasing(w) /\ Len(w) = Len(v)
             /\ \A o, x : OwnedBy(DOMAIN v, v, o, x) => OwnedBy(DOMAIN w, w, o, x)
             /\ \A o : InFiles(DOMAIN v, v, o) => InFiles(DOMAIN w, w, o)
             /\ \A o, p, y : ValueAt(v, o, p, y) => ValueAt(w, o, p, y)
<1> DEFINE w == MakeSorted(v)
<1>1. v \in Seq(Entries) /\ Kept(v) = DOMAIN v
  BY DEF Tidy, Live, Kept
<1>2. ASSUME NEW i \in DOMAIN v, NEW j \in DOMAIN v, v[i].page_num = v[j].page_num
      PROVE  i = j
  <2>1. /\ v[i].page_num \in Nat /\ v[i].npages \in Nat /\ v[i].npages > 0
        /\ v[j].page_num \in Nat /\ v[j].npages \in Nat /\ v[j].npages > 0
    BY <1>1, EntryOf DEF Tidy
  <2>2. Holds(v[i], v[i].page_num) /\ Holds(v[j], v[i].page_num)
    BY <1>2, <2>1 DEF Holds, EndPage
  <2> QED BY <1>1, <2>1, <2>2 DEF Tidy
<1>3. /\ w \in Seq(Entries) /\ Len(w) = Len(v) /\ Rearranged(v, w) /\ Increasing(w)
  BY <1>1, <1>2, SortedArray
<1> HIDE DEF w
<1>4. Live(w)
  BY <1>3 DEF Live, Rearranged
<1>5. /\ Tidy(w)
      /\ \A o, x : OwnedBy(DOMAIN v, v, o, x) => OwnedBy(DOMAIN w, w, o, x)
      /\ \A o : InFiles(DOMAIN v, v, o) => InFiles(DOMAIN w, w, o)
      /\ \A o, p, y : ValueAt(v, o, p, y) => ValueAt(w, o, p, y)
  <2>1. ASSUME NEW o, NEW x
        PROVE  /\ Tidy(w)
               /\ OwnedBy(Kept(v), v, o, x) => OwnedBy(DOMAIN w, w, o, x)
               /\ InFiles(Kept(v), v, o) => InFiles(DOMAIN w, w, o)
               /\ \A p, y : ValueAt(v, o, p, y) => ValueAt(w, o, p, y)
    BY <1>3, <1>4, RearrangedSays
  <2> QED BY <1>1, <2>1
<1> QED BY <1>3, <1>4, <1>5 DEF w

(* The objects of removed entries go with them.                             *)
LEMMA RemovedObjects ==
  ASSUME NEW v, Tidy(v), NEW o, OwnedBy(DOMAIN v, v, o, NoObj), NEW q,
         q = [k \in DOMAIN o \ {v[i].nmop : i \in {j \in DOMAIN v : v[j].removed}} |-> o[k]]
  PROVE  /\ OwnedBy(Kept(v), v, q, NoObj)
         /\ \A i \in Kept(v) : v[i].nmop # NoObj => q[v[i].nmop] = o[v[i].nmop]
<1> DEFINE gone == {v[i].nmop : i \in {j \in DOMAIN v : v[j].removed}}
<1>1. DOMAIN q = DOMAIN o \ gone /\ \A k \in DOMAIN o \ gone : q[k] = o[k]
  OBVIOUS
<1>2. ASSUME NEW i \in Kept(v), v[i].nmop # NoObj
      PROVE  v[i].nmop \in DOMAIN o \ gone
  <2>1. i \in DOMAIN v /\ ~v[i].removed
    BY DEF Kept
  <2>2. v[i].nmop \in DOMAIN o /\ \A j \in DOMAIN v : v[i].nmop = v[j].nmop => i = j
    BY <1>2, <2>1 DEF OwnedBy
  <2> QED BY <2>1, <2>2
<1>3. ASSUME NEW k \in DOMAIN o \ gone
      PROVE  k # NoObj /\ \E i \in Kept(v) : k = v[i].nmop
  <2>1. k \in {v[i].nmop : i \in DOMAIN v} /\ k # NoObj
    BY DEF OwnedBy
  <2>2. PICK i \in DOMAIN v : k = v[i].nmop
    BY <2>1
  <2>3. ~v[i].removed
    BY <2>2
  <2> QED BY <2>1, <2>2, <2>3 DEF Kept
<1> HIDE DEF gone
<1>4. DOMAIN q = ({v[i].nmop : i \in Kept(v)} \cup {NoObj}) \ {NoObj}
  BY <1>1, <1>2, <1>3
<1>5. IsFiniteSet(DOMAIN q)
  <2>1. IsFiniteSet(DOMAIN o) /\ DOMAIN q \subseteq DOMAIN o
    BY <1>1 DEF OwnedBy
  <2> QED BY <2>1, FS_Subset
<1>6. q \in [DOMAIN q -> ObjRecs]
  <2>1. q = [k \in DOMAIN q |-> q[k]]
    BY <1>1 DEF gone
  <2>2. \A k \in DOMAIN q : q[k] \in ObjRecs
    BY <1>1 DEF OwnedBy
  <2> QED BY <2>1, <2>2
<1>7. \A i \in Kept(v) : v[i].nmop # NoObj =>
        v[i].nmop # NoObj /\ \A j \in Kept(v) : v[i].nmop = v[j].nmop => i = j
  BY DEF OwnedBy, Kept
<1> QED BY <1>1, <1>2, <1>4, <1>5, <1>6, <1>7 DEF OwnedBy, NoObj

(* The new region, added to what it cut.                                    *)
Added(o, w, q, first, n, prot, x, all) ==
  /\ Tidy(all) /\ OwnedBy(DOMAIN all, all, q, NoObj)
  /\ \A p \in Nat : \A y :
       Outside(p, first, first + n) /\ ValueAt(w, q, p, y) => ValueAt(all, q, p, y)
  /\ \A p \in Nat :
       ~Outside(p, first, first + n) =>
         ValueAt(all, q, p, Value(Region(first, n, prot, x), o, p))
  /\ InFiles(DOMAIN w, w, q) /\ (x # NoObj => o[x].offset + n <= FileSize) =>
       InFiles(DOMAIN all, all, q)

(* The new region is appended, or none is when the pages are unmapped.      *)
LEMMA AddedRegion ==
  ASSUME NEW v, NEW o, NEW w, NEW q, NEW first \in Nat, NEW n \in Nat \ {0}, NEW x,
         first + n <= NumPages, Changed(v, o, w, q, first, first + n, x),
         NEW prot \in Prots,
         NEW all, all = Append(w, Region(first, n, prot, x))
  PROVE  Added(o, w, q, first, n, prot, x, all)
<1> DEFINE r == Region(first, n, prot, x)
           l == Len(all)
<1>1. /\ Tidy(w) /\ w \in Seq(Entries)
      /\ \A k \in Kept(w), p \in Nat : Holds(w[k], p) => Outside(p, first, first + n)
      /\ OwnedBy(DOMAIN w, w, q, x) /\ x \in Nat
      /\ x # NoObj => q[x] = o[x]
  BY DEF Changed, Tidy, OwnedBy
<1>2. /\ r \in Entries /\ r.page_num = first /\ r.npages = n /\ r.prot = prot
      /\ r.nmop = x /\ r.removed = FALSE /\ EndPage(r) = first + n
  BY <1>1 DEF Region, Entries, EndPage
<1>3. all = Append(w, r)
  OBVIOUS
<1> HIDE DEF r
<1>4. /\ all \in Seq(Entries) /\ DOMAIN all = DOMAIN w \cup {l} /\ l \notin DOMAIN w
      /\ all[l] = r /\ \A k \in DOMAIN w : all[k] = w[k]
      /\ Kept(all) = Kept(w) \cup {l}
  BY <1>1, <1>2, <1>3, OneMore
<1> HIDE DEF l
<1>5. \A p \in Nat : Holds(all[l], p) <=> ~Outside(p, first, first + n)
  BY <1>2, <1>4 DEF Holds, Outside
<1>6. \A k \in Kept(w) : k \in DOMAIN w /\ all[k] = w[k]
  BY <1>4 DEF Kept
<1>7. Tidy(all)
  <2>1. \A k \in Kept(all) : all[k].npages > 0 /\ EndPage(all[k]) <= NumPages
    <3> TAKE k \in Kept(all)
    <3>1. CASE k = l
      BY <1>2, <1>4, <3>1
    <3>2. CASE k \in Kept(w)
      BY <1>1, <1>6, <3>2 DEF Tidy
    <3> QED BY <1>4, <3>1, <3>2
  <2>2. ASSUME NEW k \in Kept(all), NEW m \in Kept(all), NEW p \in Nat,
               Holds(all[k], p), Holds(all[m], p)
        PROVE  k = m
    <3>1. CASE k \in Kept(w) /\ m \in Kept(w)
      BY <1>1, <1>6, <2>2, <3>1 DEF Tidy
    <3>2. CASE k = l /\ m \in Kept(w)
      BY <1>1, <1>5, <1>6, <2>2, <3>2
    <3>3. CASE m = l /\ k \in Kept(w)
      BY <1>1, <1>5, <1>6, <2>2, <3>3
    <3> QED BY <1>4, <3>1, <3>2, <3>3
  <2> QED BY <1>4, <2>1, <2>2 DEF Tidy
<1>8. OwnedBy(DOMAIN all, all, q, NoObj)
  <2>1. \A k \in DOMAIN w : all[k].nmop = w[k].nmop
    BY <1>4
  <2>2. all[l].nmop = x
    BY <1>2, <1>4
  <2>3. {all[k].nmop : k \in DOMAIN all} = {w[k].nmop : k \in DOMAIN w} \cup {x}
    BY <1>4, <2>1, <2>2
  <2>4. DOMAIN q = ({all[k].nmop : k \in DOMAIN all} \cup {NoObj}) \ {NoObj}
    BY <1>1, <2>3 DEF OwnedBy
  <2>5. ASSUME NEW k \in DOMAIN all, all[k].nmop # NoObj
        PROVE  \A m \in DOMAIN all : all[k].nmop = all[m].nmop => k = m
    <3>1. \A m \in DOMAIN w : w[m].nmop # NoObj =>
            w[m].nmop # x /\ \A j \in DOMAIN w : w[m].nmop = w[j].nmop => m = j
      BY <1>1 DEF OwnedBy
    <3>2. CASE k = l
      BY <1>4, <2>1, <2>2, <2>5, <3>1, <3>2
    <3>3. CASE k \in DOMAIN w
      BY <1>4, <2>1, <2>2, <2>5, <3>1, <3>3
    <3> QED BY <1>4, <3>2, <3>3
  <2>6. IsFiniteSet(DOMAIN q) /\ q \in [DOMAIN q -> ObjRecs] /\ NoObj \in Nat
    BY <1>1 DEF OwnedBy, NoObj
  <2> QED BY <2>4, <2>5, <2>6 DEF OwnedBy
<1>9. ASSUME NEW p \in Nat, NEW y, Outside(p, first, first + n), ValueAt(w, q, p, y)
      PROVE  ValueAt(all, q, p, y)
  <2>1. CASE \E k \in Kept(w) : Holds(w[k], p) /\ y = Value(w[k], q, p)
    <3>1. PICK k \in Kept(w) : Holds(w[k], p) /\ y = Value(w[k], q, p)
      BY <2>1
    <3>2. k \in Kept(all) /\ all[k] = w[k]
      BY <1>4, <1>6
    <3> QED BY <3>1, <3>2 DEF ValueAt
  <2>2. CASE (\A k \in Kept(w) : ~Holds(w[k], p)) /\ y = Hole
    BY <1>4, <1>5, <1>6, <1>9, <2>2 DEF ValueAt
  <2> QED BY <1>9, <2>1, <2>2 DEF ValueAt
<1>10. ASSUME NEW p \in Nat, ~Outside(p, first, first + n)
       PROVE  ValueAt(all, q, p, Value(r, o, p))
  <2>1. l \in Kept(all) /\ Holds(all[l], p)
    BY <1>4, <1>5, <1>10
  <2>2. Value(all[l], q, p) = Value(r, o, p)
    BY <1>1, <1>2, <1>4 DEF Value
  <2> HIDE DEF Value, Holds
  <2> QED BY <2>1, <2>2 DEF ValueAt
<1>11. ASSUME InFiles(DOMAIN w, w, q), x # NoObj => o[x].offset + n <= FileSize
       PROVE  InFiles(DOMAIN all, all, q)
  <2>1. x # NoObj => q[all[l].nmop].offset + all[l].npages <= FileSize
    BY <1>1, <1>2, <1>4, <1>11
  <2>2. \A k \in DOMAIN w : all[k].nmop # NoObj =>
           q[all[k].nmop].offset + all[k].npages <= FileSize
    BY <1>4, <1>11 DEF InFiles
  <2> QED BY <1>2, <1>4, <2>1, <2>2 DEF InFiles
<1> QED
  BY <1>7, <1>8, <1>9, <1>10, <1>11 DEF r, Added

(* NaClVmmapUpdate: what the map says changes on the pages of the new       *)
(* region, and nowhere else.                                                *)
Updated(vm, o, r, first, n, prot, x, remove) ==
  /\ Tidy(r.vm) /\ Live(r.vm) /\ OwnedBy(DOMAIN r.vm, r.vm, r.objs, NoObj)
  /\ \A p \in Nat : Says(r.vm, r.objs, p) =
       IF Outside(p, first, first + n) THEN Says(vm, o, p)
       ELSE IF remove THEN Hole ELSE Value(Region(first, n, prot, x), o, p)
  /\ InFiles(DOMAIN vm, vm, o) /\ (x # NoObj => o[x].offset + n <= FileSize) =>
       InFiles(DOMAIN r.vm, r.vm, r.objs)

(* NaClVmmapUpdate changes what the map says of the region's pages and of   *)
(* no other page, and the objects left are those of the regions left.       *)
LEMMA UpdateKeeps ==
  ASSUME Bounds, NEW vm, Tidy(vm), Live(vm), NEW o, NEW x, OwnedBy(DOMAIN vm, vm, o, x),
         NEW first \in Nat, NEW n \in Nat \ {0}, first + n <= NumPages,
         NEW prot \in Prots, NEW remove \in BOOLEAN, remove => x = NoObj,
         NEW r, r = Update([vm |-> vm, objs |-> o], first, n, prot, x, remove)
  PROVE  Updated(vm, o, r, first, n, prot, x, remove)
<1> DEFINE v == MakeSorted(vm)
           end == first + n
           ch == Change([vm |-> v, objs |-> o], first, end)
           all == IF remove THEN ch.vm ELSE Append(ch.vm, Region(first, n, prot, x))
           gone == {all[i].nmop : i \in {j \in DOMAIN all : all[j].removed}}
           q == [k \in DOMAIN ch.objs \ gone |-> ch.objs[k]]
           w == RemoveMarked(all)
<1>1. r.vm = w /\ r.objs = q
  BY DEF Update
<1>2. /\ Tidy(v) /\ Live(v) /\ OwnedBy(DOMAIN v, v, o, x)
      /\ InFiles(DOMAIN vm, vm, o) => InFiles(DOMAIN v, v, o)
      /\ \A p, y : ValueAt(vm, o, p, y) => ValueAt(v, o, p, y)
  BY SortedTidy
<1> HIDE DEF v
<1>3. end \in Nat /\ first < end
  OBVIOUS
<1>4. Changed(v, o, ch.vm, ch.objs, first, end, x)
  <2>1. ch = Change([vm |-> v, objs |-> o], first, end)
    OBVIOUS
  <2> HIDE DEF ch, end
  <2> QED BY <1>2, <1>3, <2>1, ChangeKeeps
<1> HIDE DEF ch
<1>5. /\ Tidy(all) /\ OwnedBy(DOMAIN all, all, ch.objs, NoObj)
      /\ \A p \in Nat : \A y :
           Outside(p, first, end) /\ ValueAt(v, o, p, y) => ValueAt(all, ch.objs, p, y)
      /\ \A p \in Nat :
           ~Outside(p, first, end) =>
             ValueAt(all, ch.objs, p, IF remove THEN Hole
                                      ELSE Value(Region(first, n, prot, x), o, p))
      /\ InFiles(DOMAIN v, v, o) /\ (x # NoObj => o[x].offset + n <= FileSize) =>
           InFiles(DOMAIN all, all, ch.objs)
  <2>1. CASE remove
    <3>1. all = ch.vm /\ x = NoObj
      BY <2>1
    <3> HIDE DEF all
    <3>2. \A p \in Nat :
            ~Outside(p, first, end) => ValueAt(all, ch.objs, p, Hole)
      BY <1>4, <3>1 DEF Changed, ValueAt
    <3> HIDE DEF end
    <3> QED BY <1>4, <2>1, <3>1, <3>2 DEF Changed
  <2>2. CASE ~remove
    <3>1. all = Append(ch.vm, Region(first, n, prot, x))
      BY <2>2
    <3> HIDE DEF all
    <3>2. /\ Tidy(all) /\ OwnedBy(DOMAIN all, all, ch.objs, NoObj)
          /\ \A p \in Nat : \A y :
               Outside(p, first, end) /\ ValueAt(ch.vm, ch.objs, p, y)
                 => ValueAt(all, ch.objs, p, y)
          /\ \A p \in Nat :
               ~Outside(p, first, end) =>
                 ValueAt(all, ch.objs, p, Value(Region(first, n, prot, x), o, p))
          /\ InFiles(DOMAIN ch.vm, ch.vm, ch.objs)
               /\ (x # NoObj => o[x].offset + n <= FileSize) =>
               InFiles(DOMAIN all, all, ch.objs)
      <4>1. Changed(v, o, ch.vm, ch.objs, first, first + n, x)
        BY <1>4
      <4>2. Added(o, ch.vm, ch.objs, first, n, prot, x, all)
        BY <3>1, <4>1, AddedRegion
      <4> QED BY <4>2 DEF Added
    <3>3. \A p \in Nat : \A y :
            Outside(p, first, end) /\ ValueAt(v, o, p, y) => ValueAt(ch.vm, ch.objs, p, y)
      BY <1>4 DEF Changed
    <3>4. InFiles(DOMAIN v, v, o) => InFiles(DOMAIN ch.vm, ch.vm, ch.objs)
      BY <1>4 DEF Changed
    <3> HIDE DEF end
    <3> QED BY <2>2, <3>2, <3>3, <3>4
  <2> QED BY <2>1, <2>2
<1> HIDE DEF all, end
<1>6. /\ OwnedBy(Kept(all), all, q, NoObj)
      /\ \A i \in Kept(all) : all[i].nmop # NoObj => q[all[i].nmop] = ch.objs[all[i].nmop]
  BY <1>5, RemovedObjects
<1> HIDE DEF q
<1>7. ASSUME NEW p \in Nat, NEW y, ValueAt(all, ch.objs, p, y) PROVE ValueAt(all, q, p, y)
  <2>1. \A i \in Kept(all) : Value(all[i], q, p) = Value(all[i], ch.objs, p)
    BY <1>6 DEF Value
  <2> HIDE DEF Value, Holds
  <2> QED BY <1>7, <2>1 DEF ValueAt
<1>8. InFiles(DOMAIN all, all, ch.objs) => InFiles(Kept(all), all, q)
  BY <1>6 DEF InFiles, Kept
<1>9. w \in Seq(Entries) /\ Rearranged(all, w) /\ Live(w)
  BY <1>5, MarkedRemoved DEF Tidy, Live
<1> HIDE DEF w
<1>10. /\ Tidy(w) /\ OwnedBy(DOMAIN w, w, q, NoObj)
       /\ InFiles(DOMAIN all, all, ch.objs) => InFiles(DOMAIN w, w, q)
       /\ \A p, y : ValueAt(all, q, p, y) => ValueAt(w, q, p, y)
  BY <1>5, <1>6, <1>8, <1>9, RearrangedSays
<1>11. ASSUME NEW p \in Nat
       PROVE  Says(w, q, p) =
                IF Outside(p, first, end) THEN Says(vm, o, p)
                ELSE IF remove THEN Hole ELSE Value(Region(first, n, prot, x), o, p)
  <2>1. CASE Outside(p, first, end)
    <3>1. ValueAt(vm, o, p, Says(vm, o, p))
      BY SaysValue
    <3>2. ValueAt(w, q, p, Says(vm, o, p))
      BY <1>2, <1>5, <1>7, <1>10, <2>1, <3>1
    <3> QED BY <1>9, <1>10, <2>1, <3>2, SaysValue
  <2>2. CASE ~Outside(p, first, end)
    <3> DEFINE y == IF remove THEN Hole ELSE Value(Region(first, n, prot, x), o, p)
    <3>1. ValueAt(w, q, p, y)
      <4>1. ValueAt(all, ch.objs, p, y)
        BY <1>5, <2>2
      <4> HIDE DEF y
      <4> QED BY <1>7, <1>10, <4>1
    <3> HIDE DEF y
    <3>2. Says(w, q, p) = y
      BY <1>9, <1>10, <3>1, SaysValue
    <3> QED BY <2>2, <3>2 DEF y
  <2> QED BY <2>1, <2>2
<1>12. InFiles(DOMAIN vm, vm, o) /\ (x # NoObj => o[x].offset + n <= FileSize) =>
         InFiles(DOMAIN w, w, q)
  BY <1>2, <1>5, <1>10
<1> QED
  BY <1>1, <1>9, <1>10, <1>11, <1>12 DEF Updated, end

-----------------------------------------------------------------------------
(* Rounding to the allocation unit.                                         *)

Aligned(n) == n % PagesPerMap = 0

(* An allocation unit has at least a page.                                  *)
LEMMA Unit ==
  ASSUME Bounds
  PROVE  PagesPerMap \in Nat \ {0}
BY DEF Bounds

(* Division by the allocation unit, ...                                     *)
LEMMA Quotient ==
  ASSUME Bounds, NEW n \in Nat
  PROVE  /\ n \div PagesPerMap \in Nat /\ n % PagesPerMap \in 0 .. PagesPerMap - 1
         /\ n = (n \div PagesPerMap) * PagesPerMap + (n % PagesPerMap)
<1>1. PagesPerMap \in Nat \ {0} /\ n \in Nat
  BY Unit
<1>2. n \div PagesPerMap \in Nat /\ n % PagesPerMap \in 0 .. PagesPerMap - 1
  BY ONLY <1>1
<1>3. n = (n \div PagesPerMap) * PagesPerMap + (n % PagesPerMap)
  BY ONLY <1>1
<1> QED BY <1>2, <1>3

(* ... multiples of it are aligned, ...                                     *)
LEMMA TimesUnit ==
  ASSUME Bounds, NEW k \in Nat
  PROVE  /\ k * PagesPerMap \in Nat /\ Aligned(k * PagesPerMap)
         /\ \A m \in Nat : k < m => k * PagesPerMap + PagesPerMap <= m * PagesPerMap
<1>1. k * PagesPerMap \in Nat
  BY Unit
<1>2. (k * PagesPerMap) % PagesPerMap = 0
  BY Unit
<1>3. \A m \in Nat : k < m => k * PagesPerMap + PagesPerMap <= m * PagesPerMap
  BY Unit
<1> QED BY <1>1, <1>2, <1>3 DEF Aligned

(* ... and what is aligned is a multiple.                                   *)
LEMMA UnitsOf ==
  ASSUME Bounds, NEW m \in Nat, Aligned(m) PROVE \E k \in Nat : m = k * PagesPerMap
<1> DEFINE k == m \div PagesPerMap
<1>1. k \in Nat /\ m = k * PagesPerMap + 0
  BY Quotient DEF Aligned
<1> HIDE DEF k
<1>2. k * PagesPerMap \in Nat
  BY <1>1, TimesUnit
<1>3. m = k * PagesPerMap
  BY <1>1, <1>2
<1> QED BY <1>1, <1>3

(* Two aligned numbers are at least a unit apart.                           *)
LEMMA AlignedApart ==
  ASSUME Bounds, NEW a \in Nat, NEW b \in Nat, Aligned(a), Aligned(b), a < b
  PROVE  a + PagesPerMap <= b
<1>1. PICK j \in Nat : a = j * PagesPerMap
  BY UnitsOf
<1>2. PICK k \in Nat : b = k * PagesPerMap
  BY UnitsOf
<1>3. k < j => k * PagesPerMap + PagesPerMap <= j * PagesPerMap
  BY TimesUnit
<1>4. j < k
  <2>1. ~(k < j) /\ k # j
    BY <1>1, <1>2, <1>3, Unit
  <2> QED BY <2>1
<1> QED BY <1>1, <1>2, <1>4, TimesUnit

(* RoundUp gives the least aligned number that is not below, ...            *)
LEMMA RoundedUp ==
  ASSUME Bounds, NEW n \in Nat
  PROVE  /\ RoundUp(n) \in Nat /\ n <= RoundUp(n) /\ RoundUp(n) < n + PagesPerMap
         /\ Aligned(RoundUp(n))
         /\ \A m \in Nat : Aligned(m) /\ n <= m => RoundUp(n) <= m
<1> DEFINE k == (n + PagesPerMap - 1) \div PagesPerMap
           d == (n + PagesPerMap - 1) % PagesPerMap
           r == RoundUp(n)
<1>1. n + PagesPerMap - 1 \in Nat
  BY Unit
<1>2. k \in Nat /\ d \in 0 .. PagesPerMap - 1 /\ n + PagesPerMap - 1 = k * PagesPerMap + d
  BY <1>1, Quotient
<1>3. r = k * PagesPerMap
  BY DEF RoundUp
<1> HIDE DEF k, d, r
<1>4. r \in Nat /\ Aligned(r) /\ n + PagesPerMap - 1 = r + d
  BY <1>2, <1>3, TimesUnit
<1>5. n <= r /\ r < n + PagesPerMap
  BY <1>2, <1>4, Unit
<1>6. ASSUME NEW m \in Nat, Aligned(m), n <= m PROVE r <= m
  <2>1. m < r => m + PagesPerMap <= r
    BY <1>4, <1>6, AlignedApart
  <2> QED BY <1>4, <1>5, <1>6, <2>1, Unit
<1> QED BY <1>4, <1>5, <1>6 DEF r

(* ... RoundDown the greatest that is not above, ...                        *)
LEMMA RoundedDown ==
  ASSUME Bounds, NEW n \in Nat
  PROVE  /\ RoundDown(n) \in Nat /\ RoundDown(n) <= n /\ n < RoundDown(n) + PagesPerMap
         /\ Aligned(RoundDown(n))
         /\ \A m \in Nat : Aligned(m) /\ m <= n => m <= RoundDown(n)
<1> DEFINE k == n \div PagesPerMap
           d == n % PagesPerMap
           r == RoundDown(n)
<1>1. k \in Nat /\ d \in 0 .. PagesPerMap - 1 /\ n = k * PagesPerMap + d
  BY Quotient
<1>2. r = k * PagesPerMap
  BY DEF RoundDown
<1> HIDE DEF k, d, r
<1>3. r \in Nat /\ Aligned(r) /\ n = r + d
  BY <1>1, <1>2, TimesUnit
<1>4. r <= n /\ n < r + PagesPerMap
  BY <1>1, <1>3, Unit
<1>5. ASSUME NEW m \in Nat, Aligned(m), m <= n PROVE m <= r
  <2>1. r < m => r + PagesPerMap <= m
    BY <1>3, <1>5, AlignedApart
  <2> QED BY <1>3, <1>4, <1>5, <2>1, Unit
<1> QED BY <1>3, <1>4, <1>5 DEF r

(* ... and sums and differences of aligned numbers are aligned.             *)
LEMMA AlignedSum ==
  ASSUME Bounds, NEW a \in Nat, NEW b \in Nat, Aligned(a), Aligned(b)
  PROVE  Aligned(a + b) /\ (b <= a => Aligned(a - b))
<1>1. PICK j \in Nat : a = j * PagesPerMap
  BY UnitsOf
<1>2. PICK k \in Nat : b = k * PagesPerMap
  BY UnitsOf
<1>3. a + b = (j + k) * PagesPerMap
  BY <1>1, <1>2, Unit
<1>4. ASSUME b <= a PROVE Aligned(a - b)
  <2>1. j < k => j * PagesPerMap + PagesPerMap <= k * PagesPerMap
    BY TimesUnit
  <2>2. ~(j < k)
    BY <1>1, <1>2, <1>4, <2>1, Unit
  <2>3. j - k \in Nat /\ a - b = (j - k) * PagesPerMap
    BY <1>1, <1>2, <2>2, Unit
  <2> QED BY <2>3, TimesUnit
<1> QED BY <1>3, <1>4, TimesUnit

-----------------------------------------------------------------------------
(* The map of a module.                                                     *)

Sound(v, o) == Tidy(v) /\ Live(v) /\ OwnedBy(DOMAIN v, v, o, NoObj)

(* Objects that no region has say nothing.                                  *)
LEMMA SaysSame ==
  ASSUME NEW v, Tidy(v), Live(v), NEW o, NEW q,
         \A i \in DOMAIN v : v[i].nmop # NoObj => q[v[i].nmop] = o[v[i].nmop]
  PROVE  /\ \A p \in Nat : Says(v, q, p) = Says(v, o, p)
         /\ InFiles(DOMAIN v, v, o) => InFiles(DOMAIN v, v, q)
<1>1. \A i \in Kept(v), p \in Nat : Value(v[i], q, p) = Value(v[i], o, p)
  BY DEF Value, Kept
<1>2. ASSUME NEW p \in Nat PROVE Says(v, q, p) = Says(v, o, p)
  <2>1. ValueAt(v, o, p, Says(v, o, p))
    BY SaysValue
  <2> HIDE DEF Value, Holds
  <2>2. ValueAt(v, q, p, Says(v, o, p))
    BY <1>1, <2>1 DEF ValueAt
  <2> QED BY <2>2, SaysValue
<1>3. InFiles(DOMAIN v, v, o) => InFiles(DOMAIN v, v, q)
  BY DEF InFiles
<1> QED BY <1>2, <1>3

(* NaClCommonUtilUpdateAddrMap: the pages of the region are as they are to  *)
(* be, all others as they were.                                             *)
MappedAt(v, o, r, first, n, prot, file, offset) ==
  /\ Sound(r.vm, r.objs)
  /\ \A p \in Nat : Says(r.vm, r.objs, p) =
       IF Outside(p, first, first + n) THEN Says(v, o, p)
       ELSE IF file = NoFile THEN Anonymous(prot)
       ELSE Backed(prot, file, offset + (p - first))
  /\ InFiles(DOMAIN v, v, o) /\ (file # NoFile => offset + n <= FileSize) =>
       InFiles(DOMAIN r.vm, r.vm, r.objs)

(* NaClCommonUtilUpdateAddrMap maps its pages, with a fresh object where    *)
(* there is a file, and no other page.                                      *)
LEMMA UpdateAddrMapKeeps ==
  ASSUME Bounds, NEW v, NEW o, Sound(v, o), NEW first \in Nat, NEW n \in Nat,
         first + n <= NumPages, NEW prot \in Prots, NEW file \in Files \cup {NoFile},
         NEW offset \in Nat,
         NEW r, r = UpdateAddrMap([vm |-> v, objs |-> o], first, n, prot, file, offset)
  PROVE  MappedAt(v, o, r, first, n, prot, file, offset)
<1>1. Tidy(v) /\ Live(v) /\ OwnedBy(DOMAIN v, v, o, NoObj)
  BY DEF Sound
<1>2. CASE n = 0
  <2>1. r.vm = v /\ r.objs = o
    BY <1>2 DEF UpdateAddrMap
  <2>2. \A p \in Nat : Outside(p, first, first + n)
    BY <1>2 DEF Outside
  <2> QED BY <2>1, <2>2 DEF MappedAt
<1>3. CASE n # 0 /\ file = NoFile
  <2>1. r = Update([vm |-> v, objs |-> o], first, n, prot, NoObj, FALSE)
    BY <1>3 DEF UpdateAddrMap
  <2>2. n \in Nat \ {0}
    BY <1>3
  <2>3. Updated(v, o, r, first, n, prot, NoObj, FALSE)
    BY <1>1, <2>1, <2>2, UpdateKeeps
  <2>4. \A p : Value(Region(first, n, prot, NoObj), o, p) = Anonymous(prot)
    BY DEF Value, Region
  <2> HIDE DEF Value
  <2> QED BY <1>3, <2>3, <2>4 DEF Updated, MappedAt, Sound
<1>4. CASE n # 0 /\ file # NoFile
  <2> DEFINE x == FreshObj(o)
             q == Allocate(o, x, file, offset)
  <2>1. r = Update([vm |-> v, objs |-> q], first, n, prot, x, FALSE)
    BY <1>4 DEF UpdateAddrMap
  <2>2. IsFiniteSet(DOMAIN o) /\ o \in [DOMAIN o -> ObjRecs]
    BY <1>1 DEF OwnedBy
  <2>3. x \in Nat \ {0} /\ x \notin DOMAIN o
    BY <2>2, FreshNumber
  <2> HIDE DEF x
  <2>4. /\ DOMAIN q = DOMAIN o \cup {x}
        /\ \A m \in DOMAIN o : q[m] = o[m]
        /\ q[x] = [file |-> file, offset |-> offset]
        /\ q = [k \in DOMAIN q |-> q[k]]
    BY <2>3 DEF Allocate
  <2> HIDE DEF q
  <2>5. \A i \in DOMAIN v : v[i].nmop # NoObj => v[i].nmop \in DOMAIN o
    BY <1>1 DEF OwnedBy
  <2>6. OwnedBy(DOMAIN v, v, q, x)
    <3>1. IsFiniteSet(DOMAIN q)
      BY <2>2, <2>4, FS_AddElement
    <3>2. q \in [DOMAIN q -> ObjRecs]
      <4>1. q[x] \in ObjRecs
        BY <1>4, <2>4 DEF ObjRecs
      <4>2. \A k \in DOMAIN q : q[k] \in ObjRecs
        BY <2>2, <2>4, <4>1
      <4> QED BY <2>4, <4>2
    <3>3. DOMAIN q = ({v[i].nmop : i \in DOMAIN v} \cup {x}) \ {NoObj}
      <4>1. DOMAIN o = ({v[i].nmop : i \in DOMAIN v} \cup {NoObj}) \ {NoObj}
        BY <1>1 DEF OwnedBy
      <4> QED BY <2>3, <2>4, <4>1 DEF NoObj
    <3>4. \A i \in DOMAIN v : v[i].nmop # NoObj =>
            v[i].nmop # x /\ \A j \in DOMAIN v : v[i].nmop = v[j].nmop => i = j
      BY <1>1, <2>3, <2>5 DEF OwnedBy
    <3> QED BY <2>3, <3>1, <3>2, <3>3, <3>4 DEF OwnedBy
  <2>7. /\ \A p \in Nat : Says(v, q, p) = Says(v, o, p)
        /\ InFiles(DOMAIN v, v, o) => InFiles(DOMAIN v, v, q)
    BY <1>1, <2>4, <2>5, SaysSame
  <2>8. n \in Nat \ {0} /\ x \in Nat
    BY <1>4, <2>3
  <2>9. Updated(v, q, r, first, n, prot, x, FALSE)
    BY <1>1, <2>1, <2>6, <2>8, UpdateKeeps
  <2>10. ASSUME NEW p \in Nat
         PROVE  Value(Region(first, n, prot, x), q, p) = Backed(prot, file, offset + (p - first))
    BY <2>3, <2>4 DEF Value, Region, NoObj
  <2>11. q[x].offset = offset
    BY <2>4
  <2> HIDE DEF Value
  <2>12. ASSUME InFiles(DOMAIN v, v, o), file # NoFile => offset + n <= FileSize
         PROVE  InFiles(DOMAIN r.vm, r.vm, r.objs)
    BY <1>4, <2>7, <2>9, <2>11, <2>12 DEF Updated
  <2>13. ASSUME NEW p \in Nat
         PROVE  Says(r.vm, r.objs, p) =
                  IF Outside(p, first, first + n) THEN Says(v, o, p)
                  ELSE Backed(prot, file, offset + (p - first))
    BY <2>7, <2>9, <2>10 DEF Updated
  <2>14. Sound(r.vm, r.objs)
    BY <2>9 DEF Updated, Sound
  <2> QED BY <1>4, <2>12, <2>13, <2>14 DEF MappedAt
<1> QED BY <1>2, <1>3, <1>4

Contents == [prot : Prots, file : Files \cup {NoFile}, at : Nat]

(* A page in a region is no hole, and one in none is.                       *)
LEMMA HeldSays ==
  ASSUME Bounds, NEW v, NEW o, Sound(v, o), NEW p \in Nat, NEW i \in DOMAIN v, Holds(v[i], p)
  PROVE  /\ Says(v, o, p) = Value(v[i], o, p)
         /\ Says(v, o, p) \in Contents /\ Says(v, o, p) # Hole
         /\ v[i].nmop # NoObj => Says(v, o, p).file \in Files
<1>1. Tidy(v) /\ Live(v) /\ OwnedBy(DOMAIN v, v, o, NoObj) /\ i \in Kept(v)
  BY DEF Sound, Live, Kept
<1>2. ValueAt(v, o, p, Value(v[i], o, p))
  BY <1>1 DEF ValueAt
<1>3. Says(v, o, p) = Value(v[i], o, p)
  BY <1>1, <1>2, SaysValue
<1>4. v[i].page_num \in Nat /\ v[i].prot \in Prots /\ p - v[i].page_num \in Nat
  <2>1. v[i].page_num \in Nat /\ v[i].prot \in Prots
    BY <1>1, EntryOf DEF Tidy
  <2> QED BY <2>1 DEF Holds
<1>5. v[i].nmop # NoObj => o[v[i].nmop].file \in Files /\ o[v[i].nmop].offset \in Nat
  <2> HAVE v[i].nmop # NoObj
  <2>1. o \in [DOMAIN o -> ObjRecs] /\ v[i].nmop \in DOMAIN o
    BY <1>1 DEF OwnedBy
  <2>2. o[v[i].nmop] \in ObjRecs
    BY <2>1
  <2> QED BY <2>2 DEF ObjRecs
<1>6. Value(v[i], o, p) \in Contents /\ (v[i].nmop # NoObj => Value(v[i], o, p).file \in Files)
  <2>1. CASE v[i].nmop = NoObj
    BY <1>4, <2>1 DEF Value, Anonymous, Contents
  <2>2. CASE v[i].nmop # NoObj
    <3> DEFINE at == o[v[i].nmop].offset + p - v[i].page_num
    <3>1. at \in Nat
      BY <1>4, <1>5, <2>2
    <3>2. Value(v[i], o, p) = Backed(v[i].prot, o[v[i].nmop].file, at)
      BY <2>2 DEF Value
    <3> HIDE DEF at
    <3> QED BY <1>4, <1>5, <2>2, <3>1, <3>2 DEF Backed, Contents
  <2> QED BY <2>1, <2>2
<1>7. Hole \notin Contents
  BY DEF Bounds, Contents, Prots
<1> QED BY <1>3, <1>6, <1>7

(* The map says Hole of a page if and only if no region holds it.           *)
LEMMA FreeSays ==
  ASSUME Bounds, NEW v, NEW o, Sound(v, o), NEW p \in Nat
  PROVE  /\ Says(v, o, p) = Hole <=> \A i \in DOMAIN v : ~Holds(v[i], p)
         /\ Says(v, o, p) = Hole <=> Holding(v, p) = {}
         /\ Says(v, o, p) = Hole \/ Says(v, o, p) \in Contents
<1>1. Holding(v, p) = {i \in DOMAIN v : Holds(v[i], p)}
  BY DEF Holding, Holds
<1>2. CASE Holding(v, p) = {}
  <2>1. Says(v, o, p) = Hole
    BY <1>2 DEF Says
  <2>2. \A i \in DOMAIN v : ~Holds(v[i], p)
    BY <1>1, <1>2
  <2> QED BY <1>2, <2>1, <2>2
<1>3. CASE Holding(v, p) # {}
  <2>1. PICK i \in DOMAIN v : Holds(v[i], p)
    BY <1>1, <1>3
  <2>2. Says(v, o, p) # Hole /\ Says(v, o, p) \in Contents
    BY <2>1, HeldSays
  <2> QED BY <1>3, <2>1, <2>2
<1> QED BY <1>2, <1>3

(* Entries of a sorted array end before later ones start.                   *)
LEMMA EndsBefore ==
  ASSUME NEW v, Tidy(v), Live(v), Increasing(v), NEW i \in DOMAIN v, NEW j \in DOMAIN v,
         i < j
  PROVE  EndPage(v[i]) <= v[j].page_num
<1>1. /\ v[i].page_num \in Nat /\ v[i].npages \in Nat
      /\ v[j].page_num \in Nat /\ v[j].npages \in Nat
  BY EntryOf DEF Tidy
<1>2. v[j].npages > 0 /\ i \in Kept(v) /\ j \in Kept(v)
  BY DEF Tidy, Live, Kept
<1>3. v[i].page_num < v[j].page_num
  BY DEF Increasing
<1>4. Holds(v[j], v[j].page_num)
  BY <1>1, <1>2 DEF Holds, EndPage
<1>5. i \in Nat /\ j \in Nat /\ i # j
  <2>1. DOMAIN v = 1 .. Len(v)
    BY LenProperties DEF Tidy
  <2> QED BY <2>1
<1>6. ~Holds(v[i], v[j].page_num)
  BY <1>1, <1>2, <1>4, <1>5 DEF Tidy
<1> QED BY <1>1, <1>3, <1>6 DEF Holds, EndPage

(* The regions of a new module.                                             *)
LEMMA FirstSound ==
  ASSUME Bounds
  PROVE  /\ Sound(FirstRegions, <<>>)
         /\ InFiles(DOMAIN FirstRegions, FirstRegions, <<>>)
         /\ \A p \in TextEnd .. DataEnd - 1 : Says(FirstRegions, <<>>, p) = Anonymous("rw")
         /\ Says(FirstRegions, <<>>, 0) # Hole /\ Says(FirstRegions, <<>>, NumPages - 1) # Hole
<1> DEFINE v == FirstRegions
           d == RoundUp(DataEnd)
<1>1. /\ NumPages \in Nat /\ 0 < TextStart /\ TextStart < TextEnd /\ TextEnd < DataEnd
      /\ DataEnd <= StackStart /\ StackStart < NumPages /\ StackStart % PagesPerMap = 0
  BY DEF Bounds
<1>2. TextStart \in Nat /\ TextEnd \in Nat /\ DataEnd \in Nat /\ StackStart \in Nat
  BY DEF Bounds
<1>3. d \in Nat /\ DataEnd <= d /\ d <= StackStart
  BY <1>1, <1>2, RoundedUp DEF Aligned
<1> HIDE DEF d
<1> DEFINE a == Region(0, TextStart, "none", NoObj)
           b == Region(TextStart, TextEnd - TextStart, "rx", NoObj)
           c == Region(TextEnd, d - TextEnd, "rw", NoObj)
           e == Region(StackStart, NumPages - StackStart, "rw", NoObj)
<1>4. v = <<a, b, c, e>>
  BY DEF FirstRegions, d
<1>5. a \in Entries /\ b \in Entries /\ c \in Entries /\ e \in Entries
  BY <1>1, <1>2, <1>3 DEF Region, Entries, Prots, NoObj
<1> HIDE DEF a, b, c, e
<1>6. /\ v \in Seq(Entries) /\ DOMAIN v = {1, 2, 3, 4}
      /\ v[1] = a /\ v[2] = b /\ v[3] = c /\ v[4] = e
  BY <1>4, <1>5
<1> HIDE DEF v
<1>7. /\ a.page_num = 0 /\ a.npages = TextStart /\ EndPage(a) = TextStart
      /\ b.page_num = TextStart /\ b.npages = TextEnd - TextStart /\ EndPage(b) = TextEnd
      /\ c.page_num = TextEnd /\ c.npages = d - TextEnd /\ EndPage(c) = d
      /\ e.page_num = StackStart /\ e.npages = NumPages - StackStart /\ EndPage(e) = NumPages
      /\ a.nmop = NoObj /\ b.nmop = NoObj /\ c.nmop = NoObj /\ e.nmop = NoObj
      /\ ~a.removed /\ ~b.removed /\ ~c.removed /\ ~e.removed
      /\ c.prot = "rw"
  BY <1>1, <1>2, <1>3 DEF Region, EndPage, a, b, c, e
<1>8. Live(v) /\ Kept(v) = DOMAIN v
  BY <1>6, <1>7 DEF Live, Kept
<1>9. Tidy(v)
  <2>1. \A i \in Kept(v) : v[i].npages > 0 /\ EndPage(v[i]) <= NumPages
    BY <1>1, <1>2, <1>3, <1>6, <1>7, <1>8
  <2>2. ASSUME NEW p \in Nat
        PROVE  /\ Holds(v[1], p) <=> p < TextStart
               /\ Holds(v[2], p) <=> TextStart <= p /\ p < TextEnd
               /\ Holds(v[3], p) <=> TextEnd <= p /\ p < d
               /\ Holds(v[4], p) <=> StackStart <= p /\ p < NumPages
    BY <1>6, <1>7 DEF Holds
  <2>3. ASSUME NEW i \in Kept(v), NEW j \in Kept(v), NEW p \in Nat,
               Holds(v[i], p), Holds(v[j], p)
        PROVE  i = j
    BY <1>1, <1>2, <1>3, <1>6, <1>8, <2>2, <2>3
  <2> QED BY <1>6, <2>1, <2>3 DEF Tidy
<1>10. \A i \in DOMAIN v : v[i].nmop = NoObj
  BY <1>6, <1>7
<1>11. OwnedBy(DOMAIN v, v, <<>>, NoObj)
  <2>1. DOMAIN <<>> = {} /\ <<>> \in [{} -> ObjRecs] /\ NoObj \in Nat
    BY DEF NoObj
  <2>2. IsFiniteSet(DOMAIN <<>>)
    BY <2>1, FS_EmptySet
  <2> QED BY <1>10, <2>1, <2>2 DEF OwnedBy
<1>12. Sound(v, <<>>)
  BY <1>8, <1>9, <1>11 DEF Sound
<1>13. ASSUME NEW p \in TextEnd .. DataEnd - 1
       PROVE  Says(v, <<>>, p) = Anonymous("rw")
  <2>1. p \in Nat /\ Holds(v[3], p) /\ 3 \in DOMAIN v
    BY <1>2, <1>3, <1>6, <1>7 DEF Holds
  <2>2. Says(v, <<>>, p) = Value(v[3], <<>>, p)
    BY <1>12, <2>1, HeldSays
  <2> QED BY <1>6, <1>7, <2>2 DEF Value
<1>14. Says(v, <<>>, 0) # Hole
  <2>1. Holds(v[1], 0) /\ 1 \in DOMAIN v
    BY <1>1, <1>6, <1>7 DEF Holds
  <2> QED BY <1>12, <2>1, HeldSays
<1>15. Says(v, <<>>, NumPages - 1) # Hole
  <2>1. Holds(v[4], NumPages - 1) /\ 4 \in DOMAIN v /\ NumPages - 1 \in Nat
    BY <1>1, <1>2, <1>6, <1>7 DEF Holds
  <2> QED BY <1>12, <2>1, HeldSays
<1> QED BY <1>10, <1>12, <1>13, <1>14, <1>15 DEF v, InFiles

-----------------------------------------------------------------------------
(* The searches for a hole.                                                 *)

Gap(v, i, p, n) == GapStart(v, i) <= p /\ p + n <= GapEnd(v, i)

(* A gap of a sorted array lies between the entries before it and those     *)
(* after.                                                                   *)
LEMMA GapBounds ==
  ASSUME Bounds, NEW v, Tidy(v), Live(v), Increasing(v), NEW i \in 2 .. Len(v)
  PROVE  /\ i \in DOMAIN v /\ i - 1 \in DOMAIN v /\ i \in Nat /\ DOMAIN v \subseteq Nat
         /\ GapStart(v, i) \in Nat /\ Aligned(GapStart(v, i))
         /\ GapEnd(v, i) \in Nat /\ Aligned(GapEnd(v, i)) /\ GapEnd(v, i) < NumPages
         /\ EndPage(v[i - 1]) \in Nat /\ v[i].page_num \in Nat
         /\ EndPage(v[i - 1]) <= GapStart(v, i) /\ GapEnd(v, i) <= v[i].page_num
         /\ \A p \in Nat : Aligned(p) /\ EndPage(v[i - 1]) <= p => GapStart(v, i) <= p
         /\ \A p \in Nat : Aligned(p) /\ p <= v[i].page_num => p <= GapEnd(v, i)
         /\ \A j \in DOMAIN v : j < i => EndPage(v[j]) <= GapStart(v, i)
         /\ \A j \in DOMAIN v : ~(j < i) => GapEnd(v, i) <= v[j].page_num
<1>1. DOMAIN v = 1 .. Len(v) /\ Len(v) \in Nat
  BY LenProperties DEF Tidy
<1>2. i \in DOMAIN v /\ i - 1 \in DOMAIN v /\ i \in Nat /\ DOMAIN v \subseteq Nat /\ i - 1 < i
  BY <1>1
<1>3. \A j \in DOMAIN v : /\ v[j].page_num \in Nat /\ v[j].npages \in Nat
                          /\ v[j].npages > 0 /\ EndPage(v[j]) \in Nat
                          /\ EndPage(v[j]) <= NumPages /\ v[j].page_num < EndPage(v[j])
  <2> TAKE j \in DOMAIN v
  <2>1. v[j].page_num \in Nat /\ v[j].npages \in Nat /\ EndPage(v[j]) \in Nat
    BY EntryOf DEF Tidy
  <2>2. v[j].npages > 0 /\ EndPage(v[j]) <= NumPages
    BY DEF Tidy, Live, Kept
  <2> QED BY <2>1, <2>2 DEF EndPage
<1>4. /\ GapStart(v, i) \in Nat /\ Aligned(GapStart(v, i))
      /\ EndPage(v[i - 1]) <= GapStart(v, i)
      /\ \A p \in Nat : Aligned(p) /\ EndPage(v[i - 1]) <= p => GapStart(v, i) <= p
  BY <1>2, <1>3, RoundedUp DEF GapStart
<1>5. /\ GapEnd(v, i) \in Nat /\ Aligned(GapEnd(v, i))
      /\ GapEnd(v, i) <= v[i].page_num
      /\ \A p \in Nat : Aligned(p) /\ p <= v[i].page_num => p <= GapEnd(v, i)
  BY <1>2, <1>3, RoundedDown DEF GapEnd
<1>6. GapEnd(v, i) < NumPages
  <2>1. v[i].page_num < EndPage(v[i]) /\ EndPage(v[i]) <= NumPages /\ NumPages \in Nat
    BY <1>2, <1>3 DEF Bounds
  <2>2. v[i].page_num \in Nat /\ EndPage(v[i]) \in Nat
    BY <1>2, <1>3
  <2> QED BY <1>5, <2>1, <2>2
<1>7. ASSUME NEW j \in DOMAIN v, j < i PROVE EndPage(v[j]) <= GapStart(v, i)
  <2>1. j = i - 1 \/ j < i - 1
    BY <1>2, <1>7
  <2>2. CASE j = i - 1
    BY <1>4, <2>2
  <2>3. CASE j < i - 1
    <3>1. EndPage(v[j]) <= v[i - 1].page_num
      BY <1>2, <2>3, EndsBefore
    <3>2. v[i - 1].page_num < EndPage(v[i - 1]) /\ v[i - 1].page_num \in Nat
          /\ EndPage(v[i - 1]) \in Nat /\ EndPage(v[j]) \in Nat
      BY <1>2, <1>3
    <3> QED BY <1>4, <3>1, <3>2
  <2> QED BY <2>1, <2>2, <2>3
<1>8. ASSUME NEW j \in DOMAIN v, ~(j < i) PROVE GapEnd(v, i) <= v[j].page_num
  <2>1. j = i \/ i < j
    BY <1>2, <1>8
  <2>2. CASE j = i
    BY <1>5, <2>2
  <2>3. CASE i < j
    <3>1. EndPage(v[i]) <= v[j].page_num
      BY <1>2, <2>3, EndsBefore
    <3>2. v[i].page_num < EndPage(v[i]) /\ v[i].page_num \in Nat
          /\ EndPage(v[i]) \in Nat /\ v[j].page_num \in Nat
      BY <1>2, <1>3
    <3> QED BY <1>5, <3>1, <3>2
  <2> QED BY <2>1, <2>2, <2>3
<1> QED
  BY <1>2, <1>3, <1>4, <1>5, <1>6, <1>7, <1>8

(* Later gaps are above.                                                    *)
LEMMA GapsApart ==
  ASSUME Bounds, NEW v, Tidy(v), Live(v), Increasing(v), NEW i \in 2 .. Len(v), NEW j \in 2 .. Len(v),
         i < j
  PROVE  GapEnd(v, i) < GapStart(v, j)
<1>1. /\ i \in DOMAIN v /\ GapEnd(v, i) \in Nat /\ GapEnd(v, i) <= v[i].page_num
      /\ v[i].page_num \in Nat
  BY GapBounds
<1>2. GapStart(v, j) \in Nat /\ EndPage(v[i]) <= GapStart(v, j)
  BY <1>1, GapBounds
<1>3. v[i].npages > 0 /\ v[i].npages \in Nat /\ EndPage(v[i]) = v[i].page_num + v[i].npages
  BY <1>1, EntryOf DEF Tidy, Live, Kept, EndPage
<1> QED BY <1>1, <1>2, <1>3

Free(v, p, n) == \A x \in p .. p + n - 1, j \in DOMAIN v : ~Holds(v[j], x)

(* The free runs are those in the gaps, as the first and the last page of   *)
(* the address space are in regions.                                        *)
LEMMA FreeInGap ==
  ASSUME Bounds, NEW v, Tidy(v), Live(v), Increasing(v), NEW p \in Nat, Aligned(p),
         NEW n \in Nat \ {0}, Aligned(n),
         NEW a \in DOMAIN v, Holds(v[a], 0), NEW z \in DOMAIN v, Holds(v[z], NumPages - 1)
  PROVE  p + n <= NumPages /\ Free(v, p, n) <=> \E i \in 2 .. Len(v) : Gap(v, i, p, n)
<1>1. DOMAIN v = 1 .. Len(v) /\ Len(v) \in Nat /\ NumPages \in Nat
  BY LenProperties DEF Tidy, Bounds
<1>2. \A j \in DOMAIN v : /\ v[j].page_num \in Nat /\ v[j].npages \in Nat
                          /\ v[j].npages > 0 /\ EndPage(v[j]) \in Nat
                          /\ Holds(v[j], v[j].page_num)
  <2> TAKE j \in DOMAIN v
  <2>1. v[j].page_num \in Nat /\ v[j].npages \in Nat /\ EndPage(v[j]) \in Nat
    BY EntryOf DEF Tidy
  <2>2. v[j].npages > 0
    BY DEF Tidy, Live, Kept
  <2> QED BY <2>1, <2>2 DEF EndPage, Holds
<1>3. ASSUME NEW i \in 2 .. Len(v), Gap(v, i, p, n)
      PROVE  p + n <= NumPages /\ Free(v, p, n)
  <2>1. /\ GapStart(v, i) \in Nat /\ GapEnd(v, i) \in Nat /\ GapEnd(v, i) < NumPages
        /\ GapStart(v, i) <= p /\ p + n <= GapEnd(v, i)
        /\ \A j \in DOMAIN v : j < i => EndPage(v[j]) <= GapStart(v, i)
        /\ \A j \in DOMAIN v : ~(j < i) => GapEnd(v, i) <= v[j].page_num
    BY <1>3, GapBounds DEF Gap
  <2>2. ASSUME NEW x \in p .. p + n - 1, NEW j \in DOMAIN v PROVE ~Holds(v[j], x)
    <3>1. CASE j < i
      BY <1>2, <2>1, <3>1 DEF Holds
    <3>2. CASE ~(j < i)
      BY <1>2, <2>1, <3>2 DEF Holds
    <3> QED BY <3>1, <3>2
  <2> QED BY <1>1, <2>1, <2>2 DEF Free
<1>4. ASSUME p + n <= NumPages, Free(v, p, n)
      PROVE  \E i \in 2 .. Len(v) : Gap(v, i, p, n)
  <2> DEFINE later == {j \in DOMAIN v : v[j].page_num >= p}
  <2>1. p \in p .. p + n - 1 /\ p + n - 1 \in p .. p + n - 1
    OBVIOUS
  <2>2. p > 0
    BY <1>4, <2>1 DEF Free
  <2>3. p + n <= NumPages - 1
    <3>1. NumPages - 1 \notin p .. p + n - 1
      BY <1>4 DEF Free
    <3> QED BY <1>1, <1>4, <3>1
  <2>4. z \in later
    <3>1. ~Holds(v[z], p + n - 1)
      BY <1>4, <2>1 DEF Free
    <3>2. NumPages - 1 < EndPage(v[z])
      BY DEF Holds
    <3>3. ~(v[z].page_num <= p + n - 1)
      BY <1>1, <1>2, <2>3, <3>1, <3>2 DEF Holds
    <3> QED BY <1>2, <3>3
  <2>5. later \subseteq Nat
    BY <1>1
  <2>6. PICK i \in later : \A j \in later : i <= j
    BY <2>4, <2>5, LeastNumber
  <2>7. i \in DOMAIN v /\ i \in Nat /\ v[i].page_num >= p
    BY <1>1, <2>6
  <2>8. v[i].page_num >= p + n
    <3>1. v[i].page_num \notin p .. p + n - 1
      BY <1>2, <1>4, <2>7 DEF Free
    <3> QED BY <1>2, <2>7, <3>1
  <2>9. i \in 2 .. Len(v)
    <3>1. v[a].page_num = 0
      BY <1>2 DEF Holds
    <3>2. i # a
      BY <2>2, <2>7, <3>1
    <3>3. ~(i < a)
      BY <1>2, <2>7, <3>1 DEF Increasing
    <3> QED BY <1>1, <2>7, <3>2, <3>3
  <2>10. i - 1 \in DOMAIN v /\ ~(i <= i - 1)
    BY <1>1, <2>9
  <2>11. v[i - 1].page_num < p
    BY <1>2, <2>6, <2>10
  <2>12. EndPage(v[i - 1]) <= p
    <3>1. ~Holds(v[i - 1], p)
      BY <1>4, <2>1, <2>10 DEF Free
    <3> QED BY <1>2, <2>10, <2>11, <3>1 DEF Holds
  <2>13. GapStart(v, i) <= p
    BY <2>9, <2>12, GapBounds
  <2>14. p + n \in Nat /\ Aligned(p + n)
    BY AlignedSum
  <2>15. p + n <= GapEnd(v, i)
    BY <2>7, <2>8, <2>9, <2>14, GapBounds
  <2> QED BY <2>9, <2>13, <2>15 DEF Gap
<1> QED BY <1>3, <1>4

(* A set of numbers up to n that is not empty has a greatest one.           *)
LEMMA GreatestNumber ==
  ASSUME NEW n \in Nat, NEW T, T \subseteq 0 .. n, T # {}
  PROVE  \E x \in T : \A y \in T : y <= x
<1> DEFINE D == {n - k : k \in T}
<1>1. D \subseteq Nat /\ D # {}
  <2>1. \A k \in T : n - k \in Nat
    OBVIOUS
  <2> QED BY <2>1
<1>2. PICK m \in D : \A k \in D : m <= k
  BY <1>1, LeastNumber
<1>3. PICK x \in T : m = n - x
  BY <1>2
<1>4. ASSUME NEW y \in T PROVE y <= x
  <2>1. n - x <= n - y
    BY <1>2, <1>3
  <2>2. x \in 0 .. n /\ y \in 0 .. n
    OBVIOUS
  <2> QED BY <2>1, <2>2
<1> QED BY <1>4

(* NaClVmmapFindMapSpace finds the highest aligned hole ...                 *)
LEMMA HighestFound ==
  ASSUME Bounds, NEW vm, Tidy(vm), Live(vm), NEW n \in Nat \ {0}
  PROVE  LET v == MakeSorted(vm)
             r == FindMapSpace(vm, n)
         IN  \/ r = 0 /\ \A i \in 2 .. Len(v), p \in Nat : ~Gap(v, i, p, RoundUp(n))
             \/ /\ r \in Nat /\ Aligned(r)
                /\ \E i \in 2 .. Len(v) : Gap(v, i, r, RoundUp(n))
                /\ \A i \in 2 .. Len(v), p \in Nat : Gap(v, i, p, RoundUp(n)) => p <= r
<1> DEFINE v == MakeSorted(vm)
           need == RoundUp(n)
           fit == {i \in 2 .. Len(v) : /\ GapEnd(v, i) > GapStart(v, i)
                                       /\ GapEnd(v, i) - GapStart(v, i) >= need}
           c == CHOOSE i \in fit : \A j \in fit : j <= i
           r == FindMapSpace(vm, n)
<1>1. Tidy(v) /\ Live(v) /\ Increasing(v) /\ Len(v) \in Nat
  <2>1. Tidy(v) /\ Live(v) /\ Increasing(v)
    BY SortedTidy
  <2> QED BY <2>1, LenProperties DEF Tidy
<1>2. need \in Nat /\ need > 0 /\ Aligned(need)
  BY RoundedUp
<1>3. r = IF fit = {} THEN 0 ELSE GapEnd(v, c) - need
  BY DEF FindMapSpace
<1> HIDE DEF v, need, r
<1>4. ASSUME NEW i \in 2 .. Len(v)
      PROVE  /\ GapStart(v, i) \in Nat /\ GapEnd(v, i) \in Nat
             /\ Aligned(GapStart(v, i)) /\ Aligned(GapEnd(v, i))
  BY <1>1, GapBounds
<1>5. ASSUME NEW i \in 2 .. Len(v), NEW p \in Nat, Gap(v, i, p, need) PROVE i \in fit
  BY <1>2, <1>4, <1>5 DEF Gap
<1>6. CASE fit = {}
  BY <1>3, <1>5, <1>6 DEF v, need, r
<1>7. CASE fit # {}
  <2>1. fit \subseteq 0 .. Len(v)
    BY <1>1
  <2>2. c \in fit /\ \A j \in fit : j <= c
    <3>1. \E x \in fit : \A y \in fit : y <= x
      BY <1>1, <1>7, <2>1, GreatestNumber
    <3> QED BY <3>1
  <2>3. /\ c \in 2 .. Len(v) /\ GapEnd(v, c) - GapStart(v, c) >= need
        /\ r = GapEnd(v, c) - need
    BY <1>3, <1>7, <2>2
  <2> HIDE DEF fit, c
  <2>4. r \in Nat /\ need <= GapEnd(v, c) /\ Gap(v, c, r, need)
    BY <1>2, <1>4, <2>3 DEF Gap
  <2>5. Aligned(r)
    BY <1>2, <1>4, <2>3, <2>4, AlignedSum
  <2>6. ASSUME NEW i \in 2 .. Len(v), NEW p \in Nat, Gap(v, i, p, need) PROVE p <= r
    <3>1. i <= c
      BY <1>5, <2>2, <2>6
    <3>2. CASE i = c
      BY <1>2, <1>4, <2>3, <2>6, <3>2 DEF Gap
    <3>3. CASE i < c
      <4>1. GapEnd(v, i) < GapStart(v, c)
        BY <1>1, <2>3, <3>3, GapsApart
      <4>2. p + need <= GapEnd(v, i) /\ GapStart(v, c) <= r
        BY <2>4, <2>6 DEF Gap
      <4> QED BY <1>2, <1>4, <2>3, <2>4, <4>1, <4>2
    <3> QED BY <2>3, <3>1, <3>2, <3>3
  <2> QED BY <2>3, <2>4, <2>5, <2>6 DEF v, need, r
<1> QED BY <1>6, <1>7

(* ... and the search from a hint the lowest one from there on.             *)
LEMMA LowestFound ==
  ASSUME Bounds, NEW vm, Tidy(vm), Live(vm), NEW n \in Nat \ {0}, NEW hint \in Nat, Aligned(hint)
  PROVE  LET v == MakeSorted(vm)
             r == FindMapSpaceAboveHint(vm, hint, n)
         IN  \/ /\ r = 0
                /\ \A i \in 2 .. Len(v), p \in Nat : hint <= p => ~Gap(v, i, p, RoundUp(n))
             \/ /\ r \in Nat /\ Aligned(r) /\ hint <= r
                /\ \E i \in 2 .. Len(v) : Gap(v, i, r, RoundUp(n))
                /\ \A i \in 2 .. Len(v), p \in Nat :
                     hint <= p /\ Gap(v, i, p, RoundUp(n)) => r <= p
<1> DEFINE v == MakeSorted(vm)
           need == RoundUp(n)
           from(i) == IF GapStart(v, i) <= hint /\ hint < GapEnd(v, i)
                      THEN hint ELSE GapStart(v, i)
           fit == {i \in 2 .. Len(v) : /\ GapEnd(v, i) > GapStart(v, i)
                                       /\ hint <= from(i)
                                       /\ GapEnd(v, i) - from(i) >= need}
           c == CHOOSE i \in fit : \A j \in fit : i <= j
           r == FindMapSpaceAboveHint(vm, hint, n)
<1>1. Tidy(v) /\ Live(v) /\ Increasing(v) /\ Len(v) \in Nat
  <2>1. Tidy(v) /\ Live(v) /\ Increasing(v)
    BY SortedTidy
  <2> QED BY <2>1, LenProperties DEF Tidy
<1>2. need \in Nat /\ need > 0 /\ Aligned(need)
  BY RoundedUp
<1>3. r = IF fit = {} THEN 0 ELSE from(c)
  BY DEF FindMapSpaceAboveHint
<1> HIDE DEF v, need, r
<1>4. ASSUME NEW i \in 2 .. Len(v)
      PROVE  /\ GapStart(v, i) \in Nat /\ GapEnd(v, i) \in Nat /\ from(i) \in Nat
             /\ Aligned(GapStart(v, i)) /\ Aligned(GapEnd(v, i)) /\ Aligned(from(i))
             /\ GapStart(v, i) <= from(i)
  BY <1>1, GapBounds
<1>5. ASSUME NEW i \in 2 .. Len(v), NEW p \in Nat, hint <= p, Gap(v, i, p, need)
      PROVE  i \in fit /\ from(i) <= p
  <2>1. GapStart(v, i) <= p /\ p + need <= GapEnd(v, i)
    BY <1>5 DEF Gap
  <2>2. from(i) <= p /\ hint <= from(i)
    BY <1>2, <1>4, <1>5, <2>1
  <2> HIDE DEF from
  <2>3. GapEnd(v, i) > GapStart(v, i) /\ GapEnd(v, i) - from(i) >= need
    BY <1>2, <1>4, <2>1, <2>2
  <2> QED BY <2>2, <2>3
<1>6. CASE fit = {}
  BY <1>3, <1>5, <1>6 DEF v, need, r
<1>7. CASE fit # {}
  <2>1. fit \subseteq Nat
    OBVIOUS
  <2>2. c \in fit /\ \A j \in fit : c <= j
    <3>1. \E x \in fit : \A y \in fit : x <= y
      BY <1>7, <2>1, LeastNumber
    <3> QED BY <3>1
  <2>3. /\ c \in 2 .. Len(v) /\ GapEnd(v, c) - from(c) >= need /\ hint <= from(c)
        /\ r = from(c)
    BY <1>3, <1>7, <2>2
  <2> HIDE DEF fit, c, from
  <2>4. r \in Nat /\ Aligned(r) /\ hint <= r /\ Gap(v, c, r, need)
    BY <1>2, <1>4, <2>3 DEF Gap
  <2>5. ASSUME NEW i \in 2 .. Len(v), NEW p \in Nat, hint <= p, Gap(v, i, p, need)
        PROVE  r <= p
    <3>1. c <= i /\ from(i) <= p
      BY <1>5, <2>2, <2>5
    <3>2. CASE i = c
      BY <2>3, <3>1, <3>2
    <3>3. CASE c < i
      <4>1. GapEnd(v, c) < GapStart(v, i)
        BY <1>1, <2>3, <3>3, GapsApart
      <4>2. r + need <= GapEnd(v, c) /\ GapStart(v, i) <= p
        BY <2>4, <2>5 DEF Gap
      <4> QED BY <1>2, <1>4, <2>3, <2>4, <4>1, <4>2
    <3> QED BY <2>3, <3>1, <3>2, <3>3
  <2> QED BY <2>3, <2>4, <2>5 DEF v, need, r
<1> QED BY <1>6, <1>7

(* Where mmap puts a region is aligned.                                     *)
LEMMA PlaceAligned ==
  ASSUME Bounds, NEW vm, Tidy(vm), Live(vm), NEW n \in Nat \ {0}, NEW hint \in Nat, Aligned(hint),
         NEW fixed \in BOOLEAN
  PROVE  PlaceFor(vm, fixed, hint, n) \in Nat /\ Aligned(PlaceFor(vm, fixed, hint, n))
<1>1. Aligned(0)
  <2>1. 0 * PagesPerMap = 0
    BY Unit
  <2> QED BY <2>1, TimesUnit
<1>2. FindMapSpace(vm, n) \in Nat /\ Aligned(FindMapSpace(vm, n))
  BY <1>1, HighestFound
<1>3. /\ FindMapSpaceAboveHint(vm, hint, n) \in Nat
      /\ Aligned(FindMapSpaceAboveHint(vm, hint, n))
  BY <1>1, LowestFound
<1> QED BY <1>2, <1>3 DEF PlaceFor

-----------------------------------------------------------------------------
(* What holds of the map, of the memory next to it, and of the break.       *)

Matches(said, m) ==
  IF said = Hole THEN m = Anonymous("none")
  ELSE said.prot = m.prot /\ (said.prot # "none" => said = m)

Whole ==
  /\ Sound(vmentry, objs)
  /\ Says(vmentry, objs, 0) # Hole /\ Says(vmentry, objs, NumPages - 1) # Hole
  /\ brk \in Nat /\ DataEnd <= brk /\ brk <= NumPages

(* As long as the module leaves its data alone and the host grants all.     *)
Faithful ==
  /\ InFiles(DOMAIN vmentry, vmentry, objs)
  /\ \A p \in Pages : Matches(Says(vmentry, objs, p), mem[p])
  /\ \A p \in TextEnd .. brk - 1 : Says(vmentry, objs, p) = Anonymous("rw")

MapInvariant == Whole /\ (~disturbed => Faithful)

(* Rounding commutes with a shift by an aligned number.                     *)
LEMMA RoundShift ==
  ASSUME Bounds, NEW m \in Nat, NEW a \in Nat, Aligned(a), a <= m
  PROVE  RoundUp(m) = a + RoundUp(m - a)
<1>1. m - a \in Nat
  OBVIOUS
<1>2. /\ RoundUp(m) \in Nat /\ m <= RoundUp(m) /\ Aligned(RoundUp(m))
      /\ \A k \in Nat : Aligned(k) /\ m <= k => RoundUp(m) <= k
  BY RoundedUp
<1>3. /\ RoundUp(m - a) \in Nat /\ m - a <= RoundUp(m - a) /\ Aligned(RoundUp(m - a))
      /\ \A k \in Nat : Aligned(k) /\ m - a <= k => RoundUp(m - a) <= k
  BY <1>1, RoundedUp
<1>4. Aligned(a + RoundUp(m - a)) /\ Aligned(RoundUp(m) - a)
  <2>1. a <= RoundUp(m)
    BY <1>2
  <2> QED BY <1>2, <1>3, <2>1, AlignedSum
<1>5. RoundUp(m) <= a + RoundUp(m - a)
  <2>1. a + RoundUp(m - a) \in Nat /\ m <= a + RoundUp(m - a)
    BY <1>3
  <2> QED BY <1>2, <1>4, <2>1
<1>6. RoundUp(m - a) <= RoundUp(m) - a
  <2>1. RoundUp(m) - a \in Nat /\ m - a <= RoundUp(m) - a
    BY <1>2
  <2> QED BY <1>3, <1>4, <2>1
<1> QED BY <1>2, <1>3, <1>5, <1>6

(* The parts of a region: the file, zeros, and pages out of reach.          *)
LEMMA MappedParts ==
  ASSUME Bounds, NEW prot \in {"none", "rw"}, NEW file \in Files \cup {NoFile}, NEW offset \in Nat,
         Aligned(offset), file = NoFile \/ offset <= FileSize,
         NEW length \in Nat, Aligned(length),
         NEW file_pages, NEW in_file, NEW no_access,
         file_pages = IF file = NoFile THEN length ELSE FileSize - offset,
         in_file = Min2(length, file_pages),
         no_access = IF file = NoFile THEN length ELSE Min2(length, RoundUp(file_pages))
  PROVE  /\ in_file \in Nat /\ no_access \in Nat /\ in_file <= no_access /\ no_access <= length
         /\ file = NoFile => in_file = length
         /\ file # NoFile => offset + in_file <= FileSize
         /\ in_file < no_access => file # NoFile /\ offset + length > FileSize
                                     /\ in_file = FileSize - offset
         /\ \A i \in Nat :
              /\ i < in_file =>
                   Table!Mapped(prot, file, offset, i) =
                     IF file = NoFile \/ prot = "none" THEN Anonymous(prot)
                     ELSE Backed(prot, file, offset + i)
              /\ in_file <= i /\ i < no_access =>
                   Table!Mapped(prot, file, offset, i) = Anonymous(prot)
              /\ no_access <= i /\ i < length =>
                   Table!Mapped(prot, file, offset, i) = Anonymous("none")
<1>0. FileSize \in Nat
  BY DEF Bounds
<1>1. Table!Anonymous("none") = Anonymous("none") /\ Table!Anonymous(prot) = Anonymous(prot)
  BY DEF Table!Anonymous, Anonymous
<1>2. CASE file = NoFile
  BY <1>1, <1>2 DEF Table!Mapped, Min2
<1>3. CASE file # NoFile
  <2>1. file_pages \in Nat /\ file_pages = FileSize - offset /\ offset <= FileSize
    BY <1>0, <1>3
  <2> DEFINE up == RoundUp(file_pages)
             all == RoundUp(FileSize)
  <2>2. up \in Nat /\ file_pages <= up
    BY <2>1, RoundedUp
  <2>3. all = offset + up /\ all \in Nat /\ FileSize <= all
    <3>1. all \in Nat /\ FileSize <= all
      BY <1>0, RoundedUp
    <3>2. RoundUp(FileSize) = offset + RoundUp(FileSize - offset)
      BY <1>0, <2>1, RoundShift
    <3> QED BY <2>1, <3>1, <3>2
  <2>4. Table!RoundUp(FileSize) = all
    BY DEF Table!RoundUp, RoundUp
  <2>5. no_access = Min2(length, up)
    BY <1>3
  <2> HIDE DEF up, all
  <2>6. /\ in_file \in Nat /\ no_access \in Nat /\ in_file <= no_access /\ no_access <= length
        /\ offset + in_file <= FileSize
        /\ in_file < no_access => offset + length > FileSize /\ in_file = FileSize - offset
    BY <1>0, <2>1, <2>2, <2>5 DEF Min2
  <2>7. ASSUME NEW i \in Nat
        PROVE  /\ i < in_file => offset + i < FileSize /\ offset + i < all
               /\ in_file <= i /\ i < no_access => offset + i >= FileSize /\ offset + i < all
               /\ no_access <= i /\ i < length => offset + i >= all
    BY <1>0, <2>1, <2>2, <2>3, <2>5 DEF Min2
  <2>8. ASSUME NEW i \in Nat
        PROVE  Table!Mapped(prot, file, offset, i) =
                 IF offset + i >= all THEN Anonymous("none")
                 ELSE IF offset + i >= FileSize \/ prot = "none" THEN Anonymous(prot)
                 ELSE Backed(prot, file, offset + i)
    BY <1>1, <1>3, <2>4 DEF Table!Mapped, Table!Content, Backed
  <2>9. ASSUME NEW i \in Nat
        PROVE  /\ offset + i < all => ~(offset + i >= all)
               /\ offset + i < FileSize => ~(offset + i >= FileSize)
    BY <1>0, <2>3
  <2> QED BY <1>3, <2>6, <2>7, <2>8, <2>9
<1> QED BY <1>2, <1>3

State(st) == \E v, o : st = [vm |-> v, objs |-> o]

(* The updates give an array and objects.                                   *)
LEMMA UpdateState ==
  ASSUME NEW st, NEW first, NEW n, NEW prot, NEW x, NEW remove
  PROVE  State(Update(st, first, n, prot, x, remove))
BY Zenon DEF Update, State

(* The same with the choice of an object.                                   *)
LEMMA UpdateAddrMapState ==
  ASSUME NEW st, State(st), NEW first, NEW n, NEW prot, NEW file, NEW offset
  PROVE  State(UpdateAddrMap(st, first, n, prot, file, offset))
BY UpdateState DEF UpdateAddrMap

(* What a region says of a page is never Hole.                              *)
LEMMA NoHole ==
  ASSUME Bounds
  PROVE  /\ \A prot \in Prots : Anonymous(prot) # Hole
         /\ \A prot \in Prots, file \in Files \cup {NoFile}, at \in Nat :
              Backed(prot, file, at) # Hole
<1>1. Hole \notin Contents
  BY DEF Bounds, Contents, Prots
<1>2. \A prot \in Prots : Anonymous(prot) \in Contents
  BY DEF Anonymous, Contents
<1>3. \A prot \in Prots, file \in Files \cup {NoFile}, at \in Nat :
        Backed(prot, file, at) \in Contents
  BY DEF Backed, Contents
<1> QED BY <1>1, <1>2, <1>3

(* What a call does: the table changes as the abstract one does on count    *)
(* pages from first on, within the range first .. first + n - 1.            *)
CallRange(first, n, count) ==
  /\ first \in Nat /\ n \in Nat \ {0} /\ count \in Nat /\ count <= n
  /\ Aligned(first) /\ Aligned(n) /\ TextEnd <= first /\ first + n <= NumPages
  /\ Sound(vmentry', objs')
  /\ UNCHANGED brk

MmapResult(first, n, count, prot, file, offset, refused) ==
  /\ CallRange(first, n, count)
  /\ \A p \in Nat : Says(vmentry', objs', p) =
       IF Outside(p, first, first + count) THEN Says(vmentry, objs, p)
       ELSE Table!Mapped(prot, file, offset, p - first)
  /\ file = NoFile \/ offset <= FileSize
  /\ IF refused = "zeros"
     THEN file # NoFile /\ offset + n > FileSize /\ count = FileSize - offset
     ELSE count = n
  /\ InFiles(DOMAIN vmentry, vmentry, objs) => InFiles(DOMAIN vmentry', vmentry', objs')
  /\ refused # "inaccessible" => \A p \in Pages :
       IF Outside(p, first, first + count) THEN mem'[p] = mem[p]
       ELSE Matches(Table!Mapped(prot, file, offset, p - first), mem'[p])
  /\ disturbed' = (disturbed \/ TouchesHeap(first, n) \/ refused = "inaccessible")

(* A call of mmap that changes something maps an aligned range above the    *)
(* text as the table of pages does, and leaves the rest of the map and of   *)
(* the memory.                                                              *)
LEMMA MmapDoes ==
  ASSUME Bounds, Sound(vmentry, objs), NEW fixed \in BOOLEAN, NEW addr \in Nat,
         NEW npages \in Nat \ {0}, NEW prot \in {"none", "rw"},
         NEW file \in Files \cup {NoFile}, NEW offset \in Nat, Aligned(offset),
         NEW refused, Mmap(fixed, addr, npages, prot, file, offset, refused)
  PROVE  \E first, n, count : MmapResult(first, n, count, prot, file, offset, refused)
<1> DEFINE length == RoundUp(npages)
           file_pages == IF file = NoFile THEN length ELSE FileSize - offset
           in_file == Min2(length, file_pages)
           no_access == IF file = NoFile THEN length
                        ELSE Min2(length, RoundUp(file_pages))
           first == PlaceFor(vmentry, fixed, RoundUp(addr), length)
           behind == IF prot = "none" THEN NoFile ELSE file
           st == [vm |-> vmentry, objs |-> objs]
           st1 == UpdateAddrMap(st, first, in_file, prot, behind, offset)
           st2 == UpdateAddrMap(st1, first + in_file, no_access - in_file, prot, NoFile, 0)
           st3 == UpdateAddrMap(st2, first + no_access, length - no_access, "none", NoFile, 0)
           mem1 == MemWith(mem, first, in_file,
                           LAMBDA i : IF file = NoFile THEN Anonymous(prot)
                                      ELSE Backed(prot, file, offset + i))
           mem2 == MemWith(mem1, first + in_file, no_access - in_file,
                           LAMBDA i : Anonymous(prot))
           mem3 == MemWith(mem2, first + no_access, length - no_access,
                           LAMBDA i : Anonymous("none"))
           count == IF refused = "zeros" THEN in_file ELSE length
<1>1. /\ file = NoFile \/ offset <= FileSize
      /\ first > 0 /\ first + length <= NumPages
      /\ ~ContainsExecutablePages(first)
      /\ refused = "zeros" => in_file < no_access
      /\ IF refused = "zeros"
         THEN vmentry' = st1.vm /\ objs' = st1.objs /\ mem' = mem1
         ELSE /\ vmentry' = st3.vm /\ objs' = st3.objs
              /\ mem' = IF refused = "inaccessible" THEN mem2 ELSE mem3
      /\ disturbed' = (disturbed \/ TouchesHeap(first, length)
                         \/ refused = "inaccessible")
      /\ UNCHANGED brk
  BY DEF Mmap
<1>2. length \in Nat \ {0} /\ Aligned(length) /\ RoundUp(addr) \in Nat /\ Aligned(RoundUp(addr))
  <2>1. length \in Nat /\ npages <= length
    BY RoundedUp
  <2> QED BY <2>1, RoundedUp
<1> HIDE DEF length
<1>3. first \in Nat /\ Aligned(first)
  BY <1>2, PlaceAligned DEF Sound
<1> HIDE DEF first
<1>4. TextEnd <= first
  <2>1. RoundDown(first) \in Nat /\ RoundDown(first) <= first
    BY <1>3, RoundedDown
  <2> QED BY <1>1, <1>3, <2>1 DEF ContainsExecutablePages, Bounds
<1>5. /\ in_file \in Nat /\ no_access \in Nat /\ in_file <= no_access /\ no_access <= length
      /\ file # NoFile => offset + in_file <= FileSize
      /\ in_file < no_access => file # NoFile /\ offset + length > FileSize
                                  /\ in_file = FileSize - offset
      /\ \A i \in Nat :
           /\ i < in_file =>
                Table!Mapped(prot, file, offset, i) =
                  IF file = NoFile \/ prot = "none" THEN Anonymous(prot)
                  ELSE Backed(prot, file, offset + i)
           /\ in_file <= i /\ i < no_access =>
                Table!Mapped(prot, file, offset, i) = Anonymous(prot)
           /\ no_access <= i /\ i < length =>
                Table!Mapped(prot, file, offset, i) = Anonymous("none")
  BY <1>1, <1>2, MappedParts
<1> HIDE DEF in_file, no_access, file_pages
<1>6. first + in_file \in Nat /\ no_access - in_file \in Nat /\ first + no_access \in Nat
      /\ length - no_access \in Nat /\ first + in_file <= NumPages
      /\ (first + in_file) + (no_access - in_file) = first + no_access
      /\ first + no_access <= NumPages
      /\ (first + no_access) + (length - no_access) = first + length
  <2>1. NumPages \in Nat
    BY DEF Bounds
  <2> QED BY <1>1, <1>2, <1>3, <1>5, <2>1
<1>7. prot \in Prots /\ "none" \in Prots /\ behind \in Files \cup {NoFile} /\ NoFile \in Files \cup {NoFile}
  BY DEF Prots
<1> HIDE DEF behind, st1, st2, st3, mem1, mem2, mem3
<1>8. MappedAt(vmentry, objs, st1, first, in_file, prot, behind, offset)
  BY <1>3, <1>5, <1>6, <1>7, UpdateAddrMapKeeps DEF st1
<1>9. Sound(st1.vm, st1.objs)
  BY <1>8 DEF MappedAt
<1>10. /\ State(st1)
       /\ MappedAt(st1.vm, st1.objs, st2, first + in_file, no_access - in_file, prot,
                   NoFile, 0)
  <2>0. State(st1)
    <3>1. State(st)
      BY DEF State
    <3> QED BY <3>1, UpdateAddrMapState DEF st1
  <2>1. st2 = UpdateAddrMap([vm |-> st1.vm, objs |-> st1.objs], first + in_file,
                            no_access - in_file, prot, NoFile, 0)
    <3>1. st1 = [vm |-> st1.vm, objs |-> st1.objs]
      BY <2>0 DEF State
    <3> QED BY <3>1 DEF st2
  <2>2. first + in_file + (no_access - in_file) <= NumPages
    BY <1>6
  <2>3. 0 \in Nat
    OBVIOUS
  <2> QED BY <1>6, <1>7, <1>9, <2>0, <2>1, <2>2, <2>3, UpdateAddrMapKeeps
<1>11. Sound(st2.vm, st2.objs)
  BY <1>10 DEF MappedAt
<1>12. MappedAt(st2.vm, st2.objs, st3, first + no_access, length - no_access, "none", NoFile, 0)
  <2>1. st3 = UpdateAddrMap([vm |-> st2.vm, objs |-> st2.objs], first + no_access,
                            length - no_access, "none", NoFile, 0)
    <3>1. st2 = [vm |-> st2.vm, objs |-> st2.objs]
      <4>1. State(st2)
        BY <1>10, UpdateAddrMapState DEF st2
      <4> QED BY <4>1 DEF State
    <3> QED BY <3>1 DEF st3
  <2>2. first + no_access + (length - no_access) <= NumPages
    BY <1>1, <1>2, <1>3, <1>5
  <2> QED BY <1>6, <1>7, <1>11, <2>1, <2>2, UpdateAddrMapKeeps
<1>13. CallRange(first, length, count)
  <2>1. count \in Nat /\ count <= length
    BY <1>2, <1>5
  <2>2. Sound(vmentry', objs')
    BY <1>1, <1>9, <1>12 DEF MappedAt
  <2> QED BY <1>1, <1>2, <1>3, <1>4, <2>1, <2>2 DEF CallRange
<1>14. ASSUME NEW p \in Nat, ~Outside(p, first, first + in_file)
       PROVE  /\ p - first \in Nat /\ p - first < in_file
              /\ Says(st1.vm, st1.objs, p) = Table!Mapped(prot, file, offset, p - first)
  <2>1. p - first \in Nat /\ p - first < in_file
    BY <1>3, <1>5, <1>14 DEF Outside
  <2>2. Table!Mapped(prot, file, offset, p - first) =
          IF file = NoFile \/ prot = "none" THEN Anonymous(prot)
          ELSE Backed(prot, file, offset + (p - first))
    BY <1>5, <2>1
  <2>3. Says(st1.vm, st1.objs, p) =
          IF behind = NoFile THEN Anonymous(prot)
          ELSE Backed(prot, behind, offset + (p - first))
    BY <1>8, <1>14 DEF MappedAt
  <2> QED BY <2>1, <2>2, <2>3 DEF behind
<1>15. ASSUME NEW p \in Nat
       PROVE  Says(vmentry', objs', p) =
                IF Outside(p, first, first + count) THEN Says(vmentry, objs, p)
                ELSE Table!Mapped(prot, file, offset, p - first)
  <2>1. Outside(p, first, first + in_file) => Says(st1.vm, st1.objs, p) = Says(vmentry, objs, p)
    BY <1>8 DEF MappedAt
  <2>2. CASE refused = "zeros"
    BY <1>1, <1>14, <2>1, <2>2
  <2>3. CASE refused # "zeros"
    <3>0. vmentry' = st3.vm /\ objs' = st3.objs /\ count = length
      BY <1>1, <2>3
    <3>1. Says(st2.vm, st2.objs, p) =
            IF Outside(p, first + in_file, first + no_access)
            THEN Says(st1.vm, st1.objs, p) ELSE Anonymous(prot)
      BY <1>6, <1>10 DEF MappedAt
    <3>2. Says(st3.vm, st3.objs, p) =
            IF Outside(p, first + no_access, first + length)
            THEN Says(st2.vm, st2.objs, p) ELSE Anonymous("none")
      BY <1>6, <1>12 DEF MappedAt
    <3>3. CASE Outside(p, first, first + length)
      <4>1. /\ Outside(p, first, first + in_file)
            /\ Outside(p, first + in_file, first + no_access)
            /\ Outside(p, first + no_access, first + length)
        BY <1>2, <1>3, <1>5, <3>3 DEF Outside
      <4> QED BY <2>1, <3>0, <3>1, <3>2, <3>3, <4>1
    <3>4. CASE ~Outside(p, first, first + in_file)
      <4>1. /\ ~Outside(p, first, first + length)
            /\ Outside(p, first + in_file, first + no_access)
            /\ Outside(p, first + no_access, first + length)
        BY <1>2, <1>3, <1>5, <3>4 DEF Outside
      <4> QED BY <1>14, <3>0, <3>1, <3>2, <3>4, <4>1
    <3>5. CASE ~Outside(p, first + in_file, first + no_access)
      <4>1. /\ ~Outside(p, first, first + length)
            /\ Outside(p, first + no_access, first + length)
            /\ p - first \in Nat /\ in_file <= p - first /\ p - first < no_access
        BY <1>2, <1>3, <1>5, <3>5 DEF Outside
      <4>2. Table!Mapped(prot, file, offset, p - first) = Anonymous(prot)
        BY <1>5, <4>1
      <4> QED BY <3>0, <3>1, <3>2, <3>5, <4>1, <4>2
    <3>6. CASE ~Outside(p, first + no_access, first + length)
      <4>1. /\ ~Outside(p, first, first + length)
            /\ p - first \in Nat /\ no_access <= p - first /\ p - first < length
        BY <1>2, <1>3, <1>5, <3>6 DEF Outside
      <4>2. Table!Mapped(prot, file, offset, p - first) = Anonymous("none")
        BY <1>5, <4>1
      <4> QED BY <3>0, <3>2, <3>6, <4>1, <4>2
    <3>7. \/ Outside(p, first, first + length)
          \/ ~Outside(p, first, first + in_file)
          \/ ~Outside(p, first + in_file, first + no_access)
          \/ ~Outside(p, first + no_access, first + length)
      BY <1>2, <1>3, <1>5 DEF Outside
    <3> QED BY <3>3, <3>4, <3>5, <3>6, <3>7
  <2> QED BY <2>2, <2>3
<1>16. IF refused = "zeros"
       THEN file # NoFile /\ offset + length > FileSize /\ count = FileSize - offset
       ELSE count = length
  BY <1>1, <1>5
<1>17. ASSUME InFiles(DOMAIN vmentry, vmentry, objs)
       PROVE  InFiles(DOMAIN vmentry', vmentry', objs')
  <2>1. behind # NoFile => offset + in_file <= FileSize
    BY <1>5 DEF behind
  <2>2. InFiles(DOMAIN st1.vm, st1.vm, st1.objs)
    BY <1>8, <1>17, <2>1 DEF MappedAt
  <2>3. InFiles(DOMAIN st2.vm, st2.vm, st2.objs)
    BY <1>10, <2>2 DEF MappedAt
  <2>4. InFiles(DOMAIN st3.vm, st3.vm, st3.objs)
    BY <1>12, <2>3 DEF MappedAt
  <2> QED BY <1>1, <2>2, <2>4
<1>18. ASSUME refused # "inaccessible", NEW p \in Pages
       PROVE  IF Outside(p, first, first + count) THEN mem'[p] = mem[p]
              ELSE Matches(Table!Mapped(prot, file, offset, p - first), mem'[p])
  <2>0. p \in Nat
    BY DEF Pages
  <2>1. mem1[p] = IF Outside(p, first, first + in_file) THEN mem[p]
                  ELSE IF file = NoFile THEN Anonymous(prot)
                  ELSE Backed(prot, file, offset + (p - first))
    BY <1>3, <1>5, <1>18, <2>0 DEF mem1, MemWith, Outside
  <2>2. ASSUME ~Outside(p, first, first + in_file)
        PROVE  Matches(Table!Mapped(prot, file, offset, p - first), mem1[p])
    <3>1. p - first \in Nat /\ p - first < in_file
      BY <1>14, <2>0, <2>2
    <3>2. Table!Mapped(prot, file, offset, p - first) =
            IF file = NoFile \/ prot = "none" THEN Anonymous(prot)
            ELSE Backed(prot, file, offset + (p - first))
      BY <1>5, <3>1
    <3>3. Table!Mapped(prot, file, offset, p - first) # Hole
      <4>1. offset + (p - first) \in Nat
        BY <3>1
      <4>2. Anonymous(prot) # Hole
        BY <1>7, NoHole
      <4>3. file # NoFile => Backed(prot, file, offset + (p - first)) # Hole
        BY <1>7, <4>1, NoHole
      <4> QED BY <3>2, <4>2, <4>3
    <3> QED BY <2>1, <2>2, <3>2, <3>3 DEF Matches, Anonymous, Backed
  <2>3. CASE refused = "zeros"
    <3>1. mem' = mem1 /\ count = in_file
      BY <1>1, <2>3
    <3> QED BY <2>1, <2>2, <3>1
  <2>4. CASE refused # "zeros"
    <3>0. mem' = mem3 /\ count = length
      BY <1>1, <1>18, <2>4
    <3>1. mem2[p] = IF Outside(p, first + in_file, first + no_access) THEN mem1[p]
                    ELSE Anonymous(prot)
      BY <1>6, <1>18, <2>0 DEF mem2, MemWith, Outside
    <3>2. mem3[p] = IF Outside(p, first + no_access, first + length) THEN mem2[p]
                    ELSE Anonymous("none")
      BY <1>6, <1>18, <2>0 DEF mem3, MemWith, Outside
    <3>3. CASE Outside(p, first, first + length)
      <4>1. /\ Outside(p, first, first + in_file)
            /\ Outside(p, first + in_file, first + no_access)
            /\ Outside(p, first + no_access, first + length)
        BY <1>2, <1>3, <1>5, <2>0, <3>3 DEF Outside
      <4> QED BY <2>1, <3>0, <3>1, <3>2, <3>3, <4>1
    <3>4. CASE ~Outside(p, first, first + in_file)
      <4>1. /\ ~Outside(p, first, first + length)
            /\ Outside(p, first + in_file, first + no_access)
            /\ Outside(p, first + no_access, first + length)
        BY <1>2, <1>3, <1>5, <2>0, <3>4 DEF Outside
      <4> QED BY <2>2, <3>0, <3>1, <3>2, <3>4, <4>1
    <3>5. CASE ~Outside(p, first + in_file, first + no_access)
      <4>1. /\ ~Outside(p, first, first + length)
            /\ Outside(p, first + no_access, first + length)
            /\ p - first \in Nat /\ in_file <= p - first /\ p - first < no_access
        BY <1>2, <1>3, <1>5, <2>0, <3>5 DEF Outside
      <4>2. Table!Mapped(prot, file, offset, p - first) = Anonymous(prot)
        BY <1>5, <4>1
      <4>3. Matches(Anonymous(prot), Anonymous(prot))
        BY <1>7, NoHole DEF Matches
      <4> QED BY <3>0, <3>1, <3>2, <3>5, <4>1, <4>2, <4>3
    <3>6. CASE ~Outside(p, first + no_access, first + length)
      <4>1. /\ ~Outside(p, first, first + length)
            /\ p - first \in Nat /\ no_access <= p - first /\ p - first < length
        BY <1>2, <1>3, <1>5, <2>0, <3>6 DEF Outside
      <4>2. Table!Mapped(prot, file, offset, p - first) = Anonymous("none")
        BY <1>5, <4>1
      <4>3. Matches(Anonymous("none"), Anonymous("none"))
        BY <1>7, NoHole DEF Matches
      <4> QED BY <3>0, <3>2, <3>6, <4>1, <4>2, <4>3
    <3>7. \/ Outside(p, first, first + length)
          \/ ~Outside(p, first, first + in_file)
          \/ ~Outside(p, first + in_file, first + no_access)
          \/ ~Outside(p, first + no_access, first + length)
      BY <1>2, <1>3, <1>5, <2>0 DEF Outside
    <3> QED BY <3>3, <3>4, <3>5, <3>6, <3>7
  <2> QED BY <2>3, <2>4
<1> HIDE DEF count
<1>19. MmapResult(first, length, count, prot, file, offset, refused)
  BY <1>1, <1>13, <1>15, <1>16, <1>17, <1>18 DEF MmapResult
<1> QED BY <1>19

(* A call of munmap leaves holes in its range and the rest alone.           *)
LEMMA MunmapDoes ==
  ASSUME Bounds, Sound(vmentry, objs), NEW start \in Nat, NEW npages \in Nat \ {0},
         Munmap(start, npages)
  PROVE  \E n :
           /\ CallRange(start, n, n) /\ start + n < NumPages
           /\ \A p \in Nat : Says(vmentry', objs', p) =
                IF Outside(p, start, start + n) THEN Says(vmentry, objs, p) ELSE Hole
           /\ InFiles(DOMAIN vmentry, vmentry, objs) =>
                InFiles(DOMAIN vmentry', vmentry', objs')
           /\ \A p \in Pages : mem'[p] = IF Outside(p, start, start + n) THEN mem[p]
                                         ELSE Anonymous("none")
           /\ disturbed' = (disturbed \/ TouchesHeap(start, n))
<1> DEFINE n == RoundUp(npages)
           st == Update([vm |-> vmentry, objs |-> objs], start, n, "none", NoObj, TRUE)
<1>1. /\ start % PagesPerMap = 0 /\ start + n < NumPages
      /\ ~ContainsExecutablePages(start)
      /\ vmentry' = st.vm /\ objs' = st.objs
      /\ mem' = MemWith(mem, start, n, LAMBDA i : Anonymous("none"))
      /\ disturbed' = (disturbed \/ TouchesHeap(start, n))
      /\ UNCHANGED brk
  BY DEF Munmap
<1>2. n \in Nat \ {0} /\ Aligned(n) /\ NumPages \in Nat
  <2>1. n \in Nat /\ npages <= n
    BY RoundedUp
  <2> QED BY <2>1, RoundedUp DEF Bounds
<1> HIDE DEF n
<1>3. TextEnd <= start
  <2>1. RoundDown(start) \in Nat /\ RoundDown(start) <= start
    BY RoundedDown
  <2> QED BY <1>1, <2>1 DEF ContainsExecutablePages, Bounds
<1>4. Updated(vmentry, objs, st, start, n, "none", NoObj, TRUE)
  <2>1. /\ Tidy(vmentry) /\ Live(vmentry) /\ OwnedBy(DOMAIN vmentry, vmentry, objs, NoObj)
        /\ start + n <= NumPages /\ "none" \in Prots /\ TRUE \in BOOLEAN
    BY <1>1, <1>2 DEF Sound, Prots
  <2> HIDE DEF st
  <2>2. st = Update([vm |-> vmentry, objs |-> objs], start, n, "none", NoObj, TRUE)
    BY DEF st
  <2> QED BY <1>2, <2>1, <2>2, UpdateKeeps
<1> HIDE DEF st
<1>5. CallRange(start, n, n)
  <2>1. Sound(vmentry', objs')
    BY <1>1, <1>4 DEF Updated, Sound
  <2> QED BY <1>1, <1>2, <1>3, <2>1 DEF CallRange, Aligned
<1>6. \A p \in Nat : Says(vmentry', objs', p) =
         IF Outside(p, start, start + n) THEN Says(vmentry, objs, p) ELSE Hole
  BY <1>1, <1>4 DEF Updated
<1>7. InFiles(DOMAIN vmentry, vmentry, objs) => InFiles(DOMAIN vmentry', vmentry', objs')
  BY <1>1, <1>4 DEF Updated
<1>8. \A p \in Pages : mem'[p] = IF Outside(p, start, start + n) THEN mem[p]
                                 ELSE Anonymous("none")
  BY <1>1, <1>2 DEF MemWith, Outside, Pages
<1> QED BY <1>1, <1>5, <1>6, <1>7, <1>8

(* A call within its range, away from the data, leaves all else alone.      *)
LEMMA CallKeeps ==
  ASSUME Bounds, MapInvariant, NEW first, NEW n, NEW count, CallRange(first, n, count), NEW refused,
         \A p \in Nat : Outside(p, first, first + count) =>
           Says(vmentry', objs', p) = Says(vmentry, objs, p),
         Says(vmentry', objs', NumPages - 1) # Hole,
         InFiles(DOMAIN vmentry, vmentry, objs) => InFiles(DOMAIN vmentry', vmentry', objs'),
         ~refused => \A p \in Pages :
           IF Outside(p, first, first + count) THEN mem'[p] = mem[p]
           ELSE Matches(Says(vmentry', objs', p), mem'[p]),
         disturbed' = (disturbed \/ TouchesHeap(first, n) \/ refused)
  PROVE  MapInvariant'
<1>1. /\ first \in Nat /\ n \in Nat \ {0} /\ count \in Nat /\ count <= n
      /\ TextEnd <= first /\ Sound(vmentry', objs') /\ brk' = brk
      /\ 0 < TextEnd /\ TextEnd \in Nat /\ brk \in Nat /\ NumPages \in Nat
  BY DEF CallRange, Bounds, MapInvariant, Whole
<1>2. Whole'
  <2>1. Outside(0, first, first + count)
    BY <1>1 DEF Outside
  <2> QED BY <1>1, <2>1 DEF MapInvariant, Whole
<1>3. ASSUME ~disturbed' PROVE Faithful'
  <2>1. ~disturbed /\ ~TouchesHeap(first, n) /\ ~refused /\ Faithful
    BY <1>3 DEF MapInvariant
  <2>2. \A p \in Pages : Matches(Says(vmentry', objs', p), mem'[p])
    <3> TAKE p \in Pages
    <3>1. p \in Nat
      BY DEF Pages
    <3>2. CASE Outside(p, first, first + count)
      BY <2>1, <3>1, <3>2 DEF Faithful
    <3>3. CASE ~Outside(p, first, first + count)
      BY <2>1, <3>3
    <3> QED BY <3>2, <3>3
  <2>3. brk <= first
    BY <1>1, <2>1 DEF TouchesHeap
  <2>4. \A p \in TextEnd .. brk - 1 : Says(vmentry', objs', p) = Anonymous("rw")
    <3> TAKE p \in TextEnd .. brk - 1
    <3>1. p \in Nat /\ Outside(p, first, first + count)
      BY <1>1, <2>3 DEF Outside
    <3> QED BY <2>1, <3>1 DEF Faithful
  <2> QED BY <1>1, <2>1, <2>2, <2>4 DEF Faithful
<1> QED BY <1>2, <1>3 DEF MapInvariant

(* So mmap keeps the invariant, ...                                         *)
LEMMA MmapKeeps ==
  ASSUME Bounds, MapInvariant, NEW first, NEW n, NEW count, NEW prot \in {"none", "rw"},
         NEW file \in Files \cup {NoFile}, NEW offset \in Nat, NEW refused,
         MmapResult(first, n, count, prot, file, offset, refused)
  PROVE  MapInvariant'
<1>1. CallRange(first, n, count) /\ first \in Nat /\ count \in Nat
  BY DEF MmapResult, CallRange
<1>2. \A i \in Nat : Table!Mapped(prot, file, offset, i) # Hole
  <2> TAKE i \in Nat
  <2>1. /\ Table!Anonymous("none") = Anonymous("none")
        /\ Table!Anonymous(prot) = Anonymous(prot)
        /\ Table!Content(prot, file, offset + i) = Backed(prot, file, offset + i)
    BY DEF Table!Anonymous, Anonymous, Table!Content, Backed
  <2>2. "none" \in Prots /\ prot \in Prots /\ offset + i \in Nat
    BY DEF Prots
  <2>3. /\ Anonymous("none") # Hole /\ Anonymous(prot) # Hole
        /\ Backed(prot, file, offset + i) # Hole
    BY <2>2, NoHole
  <2> QED BY <2>1, <2>3 DEF Table!Mapped
<1>3. \A p \in Nat : Outside(p, first, first + count) =>
        Says(vmentry', objs', p) = Says(vmentry, objs, p)
  BY DEF MmapResult
<1>4. \A p \in Nat : ~Outside(p, first, first + count) => p - first \in Nat
  BY <1>1 DEF Outside
<1>5. Says(vmentry', objs', NumPages - 1) # Hole
  <2>1. NumPages - 1 \in Nat /\ Says(vmentry, objs, NumPages - 1) # Hole
    BY DEF MapInvariant, Whole, Bounds
  <2> QED BY <1>2, <1>3, <1>4, <2>1 DEF MmapResult
<1>6. InFiles(DOMAIN vmentry, vmentry, objs) => InFiles(DOMAIN vmentry', vmentry', objs')
  BY DEF MmapResult
<1>7. refused # "inaccessible" => \A p \in Pages :
        IF Outside(p, first, first + count) THEN mem'[p] = mem[p]
        ELSE Matches(Says(vmentry', objs', p), mem'[p])
  BY DEF MmapResult, Pages
<1>8. disturbed' = (disturbed \/ TouchesHeap(first, n) \/ refused = "inaccessible")
  BY DEF MmapResult
<1> DEFINE hidden == refused = "inaccessible"
<1>9. /\ ~hidden => \A p \in Pages :
           IF Outside(p, first, first + count) THEN mem'[p] = mem[p]
           ELSE Matches(Says(vmentry', objs', p), mem'[p])
      /\ disturbed' = (disturbed \/ TouchesHeap(first, n) \/ hidden)
  BY <1>7, <1>8
<1> HIDE DEF hidden
<1> QED BY <1>1, <1>3, <1>5, <1>6, <1>9, CallKeeps

(* ... and so does munmap.                                                  *)
LEMMA MunmapKeeps ==
  ASSUME Bounds, MapInvariant, NEW start \in Nat, NEW npages \in Nat \ {0}, Munmap(start, npages)
  PROVE  MapInvariant'
<1>0. Sound(vmentry, objs)
  BY DEF MapInvariant, Whole
<1>1. PICK n :
        /\ CallRange(start, n, n) /\ start + n < NumPages
        /\ \A p \in Nat : Says(vmentry', objs', p) =
             IF Outside(p, start, start + n) THEN Says(vmentry, objs, p) ELSE Hole
        /\ InFiles(DOMAIN vmentry, vmentry, objs) =>
             InFiles(DOMAIN vmentry', vmentry', objs')
        /\ \A p \in Pages : mem'[p] = IF Outside(p, start, start + n) THEN mem[p]
                                      ELSE Anonymous("none")
        /\ disturbed' = (disturbed \/ TouchesHeap(start, n))
  BY <1>0, MunmapDoes
<1>2. Says(vmentry', objs', NumPages - 1) # Hole
  <2>1. NumPages - 1 \in Nat /\ Says(vmentry, objs, NumPages - 1) # Hole /\ n \in Nat
        /\ NumPages \in Nat
    BY <1>1 DEF MapInvariant, Whole, Bounds, CallRange
  <2>2. Outside(NumPages - 1, start, start + n)
    BY <1>1, <2>1 DEF Outside
  <2> QED BY <1>1, <2>1, <2>2
<1>3. \A p \in Pages :
        IF Outside(p, start, start + n) THEN mem'[p] = mem[p]
        ELSE Matches(Says(vmentry', objs', p), mem'[p])
  BY <1>1 DEF Matches, Pages
<1>4. \A p \in Nat : Outside(p, start, start + n) =>
        Says(vmentry', objs', p) = Says(vmentry, objs, p)
  BY <1>1
<1>5. disturbed' = (disturbed \/ TouchesHeap(start, n) \/ FALSE)
  BY <1>1
<1> QED BY <1>1, <1>2, <1>3, <1>4, <1>5, CallKeeps

(* A region with another length has its other fields still.                 *)
LEMMA Lengthened ==
  ASSUME NEW e \in Entries, NEW n \in Nat, NEW r, r = [e EXCEPT !.npages = n]
  PROVE  /\ r \in Entries /\ r.page_num = e.page_num /\ r.npages = n
         /\ r.prot = e.prot /\ r.nmop = e.nmop /\ r.removed = e.removed
BY DEF Entries

(* An array with one entry replaced.                                        *)
LEMMA OneChanged ==
  ASSUME NEW S, NEW v \in Seq(S), NEW i \in DOMAIN v, NEW r \in S, NEW w, w = [v EXCEPT ![i] = r]
  PROVE  /\ w \in Seq(S) /\ DOMAIN w = DOMAIN v /\ w[i] = r
         /\ \A j \in DOMAIN v : j # i => w[j] = v[j]
OBVIOUS

(* A region grows over the hole above it.                                   *)
Within(p, e, q) == EndPage(e) <= p /\ p < q

(* A range that ends earlier is within the longer one.                      *)
LEMMA RangeShrinks ==
  ASSUME NEW a \in Nat, NEW c \in Nat, NEW d \in Nat, d <= c
  PROVE  \A p \in a .. d - 1 : p \in a .. c - 1
OBVIOUS

GrownTo(v, i, q) == [v EXCEPT ![i].npages = q - v[i].page_num]

(* The region holds the pages up to q as well, and says of them what it     *)
(* says of its own.                                                         *)
LEMMA GrownArray ==
  ASSUME Bounds, NEW v, NEW o, Sound(v, o), Increasing(v), NEW i \in DOMAIN v, NEW q \in Nat,
         EndPage(v[i]) < q, q <= NumPages, i < Len(v) => v[i + 1].page_num >= q,
         NEW w, w = GrownTo(v, i, q)
  PROVE  /\ Sound(w, o)
         /\ \A p \in Nat : Within(p, v[i], q) =>
              Says(v, o, p) = Hole /\ Says(w, o, p) = Value(v[i], o, p)
         /\ \A p \in Nat : ~Within(p, v[i], q) => Says(w, o, p) = Says(v, o, p)
         /\ v[i].nmop = NoObj /\ InFiles(DOMAIN v, v, o) => InFiles(DOMAIN w, w, o)
<1>1. /\ Tidy(v) /\ Live(v) /\ OwnedBy(DOMAIN v, v, o, NoObj) /\ v \in Seq(Entries)
      /\ DOMAIN v = 1 .. Len(v) /\ Len(v) \in Nat /\ Kept(v) = DOMAIN v
  BY LenProperties DEF Sound, Tidy, Live, Kept
<1>2. \A j \in DOMAIN v : /\ v[j] \in Entries /\ v[j].page_num \in Nat /\ v[j].npages \in Nat
                          /\ v[j].npages > 0 /\ EndPage(v[j]) \in Nat
                          /\ EndPage(v[j]) = v[j].page_num + v[j].npages
                          /\ EndPage(v[j]) <= NumPages
  <2> TAKE j \in DOMAIN v
  <2>1. v[j] \in Entries /\ v[j].page_num \in Nat /\ v[j].npages \in Nat /\ EndPage(v[j]) \in Nat
    BY <1>1, EntryOf
  <2>2. v[j].npages > 0 /\ EndPage(v[j]) <= NumPages
    BY <1>1 DEF Tidy
  <2> QED BY <2>1, <2>2 DEF EndPage
<1> DEFINE r == [v[i] EXCEPT !.npages = q - v[i].page_num]
<1>3. /\ r \in Entries /\ r.page_num = v[i].page_num /\ r.npages = q - v[i].page_num
      /\ r.npages \in Nat /\ r.npages > 0 /\ r.prot = v[i].prot /\ r.nmop = v[i].nmop
      /\ r.removed = v[i].removed
  <2>1. v[i] \in Entries /\ q - v[i].page_num \in Nat \ {0}
    BY <1>2
  <2> DEFINE n == q - v[i].page_num
  <2>2. n \in Nat /\ n > 0 /\ r = [v[i] EXCEPT !.npages = n]
    BY <2>1
  <2> HIDE DEF n
  <2>3. /\ r \in Entries /\ r.page_num = v[i].page_num /\ r.npages = n
        /\ r.prot = v[i].prot /\ r.nmop = v[i].nmop /\ r.removed = v[i].removed
    BY <2>1, <2>2, Lengthened
  <2> QED BY <2>2, <2>3 DEF n
<1>4. w = [v EXCEPT ![i] = r]
  BY DEF GrownTo
<1> HIDE DEF r
<1>5. /\ w \in Seq(Entries) /\ DOMAIN w = DOMAIN v /\ w[i] = r
      /\ \A j \in DOMAIN v : j # i => w[j] = v[j]
  BY <1>4, <1>1, <1>3, OneChanged
<1>6. EndPage(w[i]) = q
  <2>1. v[i].page_num \in Nat
    BY <1>2
  <2>2. EndPage(r) = q
    BY <1>3, <2>1 DEF EndPage
  <2> QED BY <1>5, <2>2
<1>7. ASSUME NEW j \in DOMAIN v, j # i
      PROVE  EndPage(v[j]) <= v[i].page_num \/ q <= v[j].page_num
  <2>1. CASE j < i
    BY <1>1, <2>1, EndsBefore
  <2>2. CASE j = i + 1
    <3>1. i < Len(v)
      BY <1>1, <2>2
    <3> QED BY <2>2, <3>1
  <2>3. CASE i + 1 < j
    <3>1. i + 1 \in DOMAIN v /\ i < Len(v)
      BY <1>1, <2>3
    <3>2. EndPage(v[i + 1]) <= v[j].page_num
      BY <1>1, <2>3, <3>1, EndsBefore
    <3>3. v[i + 1].page_num >= q
      BY <3>1
    <3> QED BY <1>2, <3>1, <3>2, <3>3
  <2>4. j < i \/ j = i + 1 \/ i + 1 < j
    BY <1>1, <1>7
  <2> QED BY <2>1, <2>2, <2>3, <2>4
<1>8. Live(w) /\ Kept(w) = DOMAIN v
  BY <1>1, <1>3, <1>5 DEF Live, Kept
<1>9. \A p \in Nat : Holds(w[i], p) <=> v[i].page_num <= p /\ p < q
  BY <1>3, <1>5, <1>6 DEF Holds
<1>10. \A p \in Nat : Holds(v[i], p) <=> v[i].page_num <= p /\ p < EndPage(v[i])
  BY DEF Holds
<1>11. ASSUME NEW j \in DOMAIN v, j # i, NEW p \in Nat, Holds(w[i], p)
       PROVE  ~Holds(v[j], p)
  BY <1>2, <1>7, <1>9, <1>11 DEF Holds
<1>12. Tidy(w)
  <2>1. \A j \in Kept(w) : w[j].npages > 0 /\ EndPage(w[j]) <= NumPages
    BY <1>2, <1>3, <1>5, <1>6, <1>8
  <2>2. ASSUME NEW j \in Kept(w), NEW k \in Kept(w), NEW p \in Nat,
               Holds(w[j], p), Holds(w[k], p)
        PROVE  j = k
    <3>1. CASE j # i /\ k # i
      BY <1>1, <1>5, <1>8, <2>2, <3>1 DEF Tidy
    <3>2. CASE j = i \/ k = i
      BY <1>5, <1>8, <1>11, <2>2, <3>2
    <3> QED BY <3>1, <3>2
  <2> QED BY <1>5, <2>1, <2>2 DEF Tidy
<1>13. OwnedBy(DOMAIN w, w, o, NoObj)
  <2>1. \A j \in DOMAIN v : w[j].nmop = v[j].nmop
    BY <1>3, <1>5
  <2>2. {w[j].nmop : j \in DOMAIN w} = {v[j].nmop : j \in DOMAIN v}
    BY <1>5, <2>1
  <2>3. OwnedBy(DOMAIN v, v, o, NoObj) /\ DOMAIN w = DOMAIN v
    BY <1>1, <1>5
  <2> HIDE DEF r
  <2> QED BY ONLY <2>1, <2>2, <2>3 DEF OwnedBy
<1>14. Sound(w, o)
  BY <1>8, <1>12, <1>13 DEF Sound
<1>15. \A p \in Nat : Value(w[i], o, p) = Value(v[i], o, p)
  <2>1. ASSUME NEW p \in Nat PROVE Value(r, o, p) = Value(v[i], o, p)
    <3>1. r.nmop = v[i].nmop /\ r.prot = v[i].prot /\ r.page_num = v[i].page_num
      BY <1>3
    <3> QED BY ONLY <3>1 DEF Value
  <2> QED BY <1>5, <2>1
<1>16. ASSUME NEW p \in Nat, Within(p, v[i], q)
       PROVE  Says(v, o, p) = Hole /\ Says(w, o, p) = Value(v[i], o, p)
  <2>1. Holds(w[i], p) /\ ~Holds(v[i], p)
    BY <1>2, <1>9, <1>10, <1>16 DEF Within
  <2>2. \A j \in DOMAIN v : ~Holds(v[j], p)
    BY <1>11, <2>1
  <2>3. Says(v, o, p) = Hole
    BY <2>2, FreeSays
  <2>4. Says(w, o, p) = Value(w[i], o, p)
    <3>1. i \in DOMAIN w
      BY <1>5
    <3> QED BY <1>14, <2>1, <3>1, HeldSays
  <2> QED BY <1>15, <2>3, <2>4
<1>17. ASSUME NEW p \in Nat, ~Within(p, v[i], q)
       PROVE  Says(w, o, p) = Says(v, o, p)
  <2>1. Holds(w[i], p) <=> Holds(v[i], p)
    BY <1>2, <1>9, <1>10, <1>17 DEF Within
  <2>2. CASE \E j \in DOMAIN v : Holds(v[j], p)
    <3>1. PICK j \in DOMAIN v : Holds(v[j], p)
      BY <2>2
    <3>2. Holds(w[j], p) /\ j \in DOMAIN w
      BY <1>5, <2>1, <3>1
    <3>3. Value(w[j], o, p) = Value(v[j], o, p)
      BY <1>5, <1>15
    <3>4. Says(w, o, p) = Value(w[j], o, p)
      BY <1>14, <3>2, HeldSays
    <3>5. Says(v, o, p) = Value(v[j], o, p)
      BY <3>1, HeldSays
    <3> QED BY <3>3, <3>4, <3>5
  <2>3. CASE \A j \in DOMAIN v : ~Holds(v[j], p)
    <3>1. \A j \in DOMAIN w : ~Holds(w[j], p)
      <4> TAKE j \in DOMAIN w
      <4>1. j \in DOMAIN v /\ ~Holds(v[j], p)
        BY <1>5, <2>3
      <4>2. CASE j = i
        BY <2>1, <4>1, <4>2
      <4>3. CASE j # i
        BY <1>5, <4>1, <4>3
      <4> QED BY <4>2, <4>3
    <3> QED BY <1>14, <2>3, <3>1, FreeSays
  <2> QED BY <2>2, <2>3
<1>18. v[i].nmop = NoObj /\ InFiles(DOMAIN v, v, o) => InFiles(DOMAIN w, w, o)
  BY <1>3, <1>5 DEF InFiles
<1> QED BY <1>14, <1>16, <1>17, <1>18

(* Sorting changes nothing that the map says.                               *)
LEMMA SortedSound ==
  ASSUME NEW u, NEW o, Sound(u, o)
  PROVE  LET v == MakeSorted(u)
         IN  /\ Sound(v, o) /\ Increasing(v)
             /\ InFiles(DOMAIN u, u, o) => InFiles(DOMAIN v, v, o)
             /\ \A p \in Nat : Says(v, o, p) = Says(u, o, p)
<1> DEFINE v == MakeSorted(u)
<1>1. Tidy(u) /\ Live(u) /\ OwnedBy(DOMAIN u, u, o, NoObj)
  BY DEF Sound
<1>2. /\ Tidy(v) /\ Live(v) /\ Increasing(v)
      /\ OwnedBy(DOMAIN v, v, o, NoObj)
      /\ InFiles(DOMAIN u, u, o) => InFiles(DOMAIN v, v, o)
      /\ \A p, y : ValueAt(u, o, p, y) => ValueAt(v, o, p, y)
  BY <1>1, SortedTidy
<1> HIDE DEF v
<1>3. ASSUME NEW p \in Nat PROVE Says(v, o, p) = Says(u, o, p)
  <2>1. ValueAt(u, o, p, Says(u, o, p))
    BY <1>1, SaysValue
  <2>2. ValueAt(v, o, p, Says(u, o, p))
    BY <1>2, <2>1
  <2> QED BY <1>2, <2>2, SaysValue
<1> QED BY <1>2, <1>3 DEF Sound, v

(* brk: the break moves down, or the region that held it holds the new one, *)
(* grown to page q.                                                         *)
Grown(v, i, q) ==
  /\ Sound(v, objs) /\ \A p \in Nat : Says(v, objs, p) = Says(vmentry, objs, p)
  /\ i \in DOMAIN v /\ Holds(v[i], brk - 1)
  /\ q \in Nat /\ brk' <= q /\ EndPage(v[i]) <= q
  /\ q = EndPage(v[i]) \/ (EndPage(v[i]) < brk' /\ q = RoundUp(brk') /\ q <= NumPages)
  /\ \A p \in Nat : Within(p, v[i], q) =>
       /\ Says(vmentry, objs, p) = Hole
       /\ Says(vmentry', objs', p) = Value(v[i], objs, p)
  /\ \A p \in Nat : ~Within(p, v[i], q) => Says(vmentry', objs', p) = Says(vmentry, objs, p)
  /\ v[i].nmop = NoObj /\ InFiles(DOMAIN vmentry, vmentry, objs) =>
       InFiles(DOMAIN vmentry', vmentry', objs')
  /\ \A p \in Pages : mem'[p] = IF Within(p, v[i], q) THEN [mem[p] EXCEPT !.prot = "rw"]
                                ELSE mem[p]

(* A call of brk changes the map in no other way.                           *)
LEMMA SetBreakDoes ==
  ASSUME Bounds, Whole, NEW b \in 1 .. NumPages, SetBreak(b)
  PROVE  /\ Sound(vmentry', objs') /\ UNCHANGED disturbed
         /\ brk' \in Nat /\ DataEnd <= brk' /\ brk' <= NumPages
         /\ \/ brk' <= brk /\ UNCHANGED <<vmentry, objs, mem>>
            \/ \E v, i, q : Grown(v, i, q)
<1> DEFINE v == MakeSorted(vmentry)
           here == Holding(v, brk - 1)
           i == CHOOSE k \in here : TRUE
           q == RoundUp(b)
<1>1. /\ Sound(vmentry, objs) /\ brk \in Nat /\ DataEnd <= brk /\ brk <= NumPages
      /\ DataEnd \in Nat /\ 0 < DataEnd /\ NumPages \in Nat /\ Aligned(NumPages)
  <2>1. DataEnd \in Nat /\ 0 < DataEnd /\ NumPages \in Nat /\ Aligned(NumPages)
    BY DEF Bounds, Aligned
  <2> QED BY <2>1 DEF Whole
<1>2. /\ b >= DataEnd /\ UNCHANGED <<objs, disturbed>>
      /\ \/ /\ b < brk /\ brk' = b /\ UNCHANGED <<vmentry, mem>>
         \/ UNCHANGED <<vmentry, mem, brk>>
         \/ /\ b > brk /\ here # {} /\ b <= EndPage(v[i])
            /\ brk' = b /\ vmentry' = v /\ UNCHANGED mem
         \/ /\ b > brk /\ here # {} /\ b > EndPage(v[i])
            /\ i < Len(v) => v[i + 1].page_num >= q
            /\ brk' = b
            /\ vmentry' = [v EXCEPT ![i].npages = q - v[i].page_num]
            /\ mem' = MemWith(mem, EndPage(v[i]), q - EndPage(v[i]),
                              LAMBDA k : [mem[EndPage(v[i]) + k] EXCEPT !.prot = "rw"])
  BY DEF SetBreak
<1>3. /\ Sound(v, objs) /\ Increasing(v)
      /\ InFiles(DOMAIN vmentry, vmentry, objs) => InFiles(DOMAIN v, v, objs)
      /\ \A p \in Nat : Says(v, objs, p) = Says(vmentry, objs, p)
  BY <1>1, SortedSound
<1> HIDE DEF v
<1>4. /\ Sound(v, objs) /\ \A p \in Nat : Says(v, objs, p) = Says(vmentry, objs, p)
      /\ Tidy(v) /\ Live(v)
  BY <1>3 DEF Sound
<1>5. here # {} => i \in DOMAIN v /\ Holds(v[i], brk - 1) /\ EndPage(v[i]) \in Nat
  <2> HAVE here # {}
  <2>1. i \in here
    OBVIOUS
  <2>2. i \in DOMAIN v /\ Holds(v[i], brk - 1)
    BY <2>1 DEF Holding, Holds
  <2> QED BY <1>4, <2>2, EntryOf DEF Tidy
<1>6. q \in Nat /\ b <= q /\ q <= NumPages
  BY <1>1, RoundedUp
<1> HIDE DEF i, here, q
<1>7. CASE b < brk /\ brk' = b /\ UNCHANGED <<vmentry, mem>>
  BY <1>1, <1>2, <1>7
<1>8. CASE UNCHANGED <<vmentry, mem, brk>>
  BY <1>1, <1>2, <1>8
<1>9. CASE /\ b > brk /\ here # {} /\ b <= EndPage(v[i])
           /\ brk' = b /\ vmentry' = v /\ UNCHANGED mem
  <2>1. \A p \in Nat : ~Within(p, v[i], EndPage(v[i]))
    BY <1>5, <1>9 DEF Within
  <2>2. Grown(v, i, EndPage(v[i]))
    BY <1>2, <1>3, <1>4, <1>5, <1>9, <2>1 DEF Grown, Pages
  <2> QED BY <1>1, <1>2, <1>4, <1>9, <2>2
<1>10. CASE /\ b > brk /\ here # {} /\ b > EndPage(v[i])
            /\ i < Len(v) => v[i + 1].page_num >= q
            /\ brk' = b
            /\ vmentry' = [v EXCEPT ![i].npages = q - v[i].page_num]
            /\ mem' = MemWith(mem, EndPage(v[i]), q - EndPage(v[i]),
                              LAMBDA k : [mem[EndPage(v[i]) + k] EXCEPT !.prot = "rw"])
  <2>1. EndPage(v[i]) < q
    BY <1>5, <1>6, <1>10
  <2>2. /\ Sound(vmentry', objs)
        /\ \A p \in Nat : Within(p, v[i], q) =>
             Says(v, objs, p) = Hole /\ Says(vmentry', objs, p) = Value(v[i], objs, p)
        /\ \A p \in Nat : ~Within(p, v[i], q) => Says(vmentry', objs, p) = Says(v, objs, p)
        /\ v[i].nmop = NoObj /\ InFiles(DOMAIN v, v, objs) =>
             InFiles(DOMAIN vmentry', vmentry', objs)
    <3>1. vmentry' = GrownTo(v, i, q)
      BY <1>10 DEF GrownTo
    <3>2. /\ i \in DOMAIN v /\ Sound(v, objs) /\ Increasing(v) /\ q \in Nat /\ q <= NumPages
          /\ i < Len(v) => v[i + 1].page_num >= q
      BY <1>3, <1>4, <1>5, <1>6, <1>10
    <3> QED BY <2>1, <3>1, <3>2, GrownArray
  <2>3. \A p \in Pages : mem'[p] = IF Within(p, v[i], q) THEN [mem[p] EXCEPT !.prot = "rw"]
                                   ELSE mem[p]
    <3> TAKE p \in Pages
    <3>1. p \in Nat /\ EndPage(v[i]) + (p - EndPage(v[i])) = p
          /\ EndPage(v[i]) + (q - EndPage(v[i])) = q
      BY <1>5, <1>6, <1>10 DEF Pages
    <3>2. mem'[p] = IF EndPage(v[i]) <= p /\ p < EndPage(v[i]) + (q - EndPage(v[i]))
                    THEN [mem[EndPage(v[i]) + (p - EndPage(v[i]))] EXCEPT !.prot = "rw"]
                    ELSE mem[p]
      BY <1>10 DEF MemWith
    <3> QED BY <3>1, <3>2 DEF Within
  <2>4. Grown(v, i, q)
    <3>1. /\ Sound(v, objs) /\ \A p \in Nat : Says(v, objs, p) = Says(vmentry, objs, p)
          /\ i \in DOMAIN v /\ Holds(v[i], brk - 1) /\ EndPage(v[i]) \in Nat
      BY <1>4, <1>5, <1>10
    <3>2. /\ q \in Nat /\ q <= NumPages /\ brk' = b /\ brk' <= q /\ EndPage(v[i]) <= q
          /\ EndPage(v[i]) < brk' /\ q = RoundUp(brk') /\ objs' = objs
      <4>1. q \in Nat /\ q <= NumPages /\ b <= q /\ brk' = b /\ objs' = objs /\ b > EndPage(v[i])
        BY <1>2, <1>6, <1>10
      <4>2. q = RoundUp(b)
        BY DEF q
      <4> QED BY <2>1, <3>1, <4>1, <4>2
    <3>3. \A p \in Nat : Within(p, v[i], q) =>
             /\ Says(vmentry, objs, p) = Hole
             /\ Says(vmentry', objs', p) = Value(v[i], objs, p)
      BY <2>2, <3>1, <3>2
    <3>4. \A p \in Nat : ~Within(p, v[i], q) =>
             Says(vmentry', objs', p) = Says(vmentry, objs, p)
      BY <2>2, <3>1, <3>2
    <3>5. v[i].nmop = NoObj /\ InFiles(DOMAIN vmentry, vmentry, objs) =>
             InFiles(DOMAIN vmentry', vmentry', objs')
      BY <1>3, <2>2, <3>2
    <3> QED BY <2>3, <3>1, <3>2, <3>3, <3>4, <3>5 DEF Grown
  <2> QED BY <1>1, <1>2, <1>10, <2>2, <2>4
<1> QED BY <1>2, <1>7, <1>8, <1>9, <1>10

(* The region that holds the break is the module's data as long as it       *)
(* leaves that alone, so what it grows over is anonymous memory, and brk    *)
(* keeps the invariant.                                                     *)
LEMMA SetBreakKeeps ==
  ASSUME Bounds, MapInvariant, NEW b \in 1 .. NumPages, SetBreak(b)
  PROVE  MapInvariant'
<1>0. Whole /\ NumPages \in Nat /\ 0 < NumPages /\ TextEnd \in Nat /\ TextEnd < DataEnd
      /\ DataEnd \in Nat
  BY DEF MapInvariant, Bounds
<1>1. /\ Sound(vmentry', objs') /\ UNCHANGED disturbed
      /\ brk' \in Nat /\ DataEnd <= brk' /\ brk' <= NumPages
      /\ \/ brk' <= brk /\ UNCHANGED <<vmentry, objs, mem>>
         \/ \E v, i, q : Grown(v, i, q)
  BY <1>0, SetBreakDoes
<1>2. CASE brk' <= brk /\ UNCHANGED <<vmentry, objs, mem>>
  <2>1. Whole'
    BY <1>0, <1>1, <1>2 DEF Whole
  <2>2. Faithful => Faithful'
    <3> HAVE Faithful
    <3>1. \A p \in TextEnd .. brk' - 1 : p \in TextEnd .. brk - 1
      <4>1. brk \in Nat /\ brk' \in Nat /\ brk' <= brk
        BY <1>0, <1>1, <1>2 DEF Whole
      <4> QED BY <1>0, <4>1, RangeShrinks
    <3> QED BY <1>2, <3>1 DEF Faithful
  <2> QED BY <1>1, <2>1, <2>2 DEF MapInvariant
<1>3. CASE \E v, i, q : Grown(v, i, q)
  <2>1. PICK v, i, q : Grown(v, i, q)
    BY <1>3
  <2> DEFINE e == v[i]
  <2>2. /\ Sound(v, objs) /\ \A p \in Nat : Says(v, objs, p) = Says(vmentry, objs, p)
        /\ i \in DOMAIN v /\ Holds(e, brk - 1)
        /\ q \in Nat /\ brk' <= q /\ EndPage(e) <= q
        /\ \A p \in Nat : Within(p, e, q) =>
             /\ Says(vmentry, objs, p) = Hole
             /\ Says(vmentry', objs', p) = Value(e, objs, p)
        /\ \A p \in Nat : ~Within(p, e, q) =>
             Says(vmentry', objs', p) = Says(vmentry, objs, p)
        /\ e.nmop = NoObj /\ InFiles(DOMAIN vmentry, vmentry, objs) =>
             InFiles(DOMAIN vmentry', vmentry', objs')
        /\ \A p \in Pages : mem'[p] = IF Within(p, e, q) THEN [mem[p] EXCEPT !.prot = "rw"]
                                      ELSE mem[p]
    BY <2>1 DEF Grown
  <2>3. /\ e.page_num \in Nat /\ EndPage(e) \in Nat /\ brk \in Nat /\ DataEnd <= brk
        /\ e.page_num <= brk - 1 /\ brk - 1 < EndPage(e)
    BY <1>0, <2>2, EntryOf DEF Sound, Tidy, Whole, Holds
  <2>4. Whole'
    <3>1. ASSUME NEW p \in Nat, Says(vmentry, objs, p) # Hole
          PROVE  Says(vmentry', objs', p) # Hole
      BY <2>2, <3>1
    <3> QED BY <1>0, <1>1, <3>1 DEF Whole
  <2>5. ASSUME Faithful PROVE Faithful'
    <3>1. Says(v, objs, brk - 1) = Anonymous("rw") /\ brk - 1 \in Nat
      BY <1>0, <2>2, <2>3, <2>5 DEF Faithful
    <3>2. e.nmop = NoObj /\ e.prot = "rw"
      <4>1. NoFile \notin Files
        BY DEF Bounds
      <4>2. Anonymous("rw").file = NoFile /\ Anonymous("rw").prot = "rw"
        BY DEF Anonymous
      <4>3. /\ Says(v, objs, brk - 1) = Value(e, objs, brk - 1)
            /\ e.nmop # NoObj => Says(v, objs, brk - 1).file \in Files
        BY <2>2, <3>1, HeldSays
      <4>4. e.nmop = NoObj
        BY <3>1, <4>1, <4>2, <4>3
      <4>5. Value(e, objs, brk - 1) = Anonymous(e.prot)
        BY <4>4 DEF Value
      <4>6. Anonymous(e.prot).prot = e.prot
        BY DEF Anonymous
      <4> QED BY <3>1, <4>2, <4>3, <4>4, <4>5, <4>6
    <3>3. \A p : Value(e, objs, p) = Anonymous("rw")
      BY <3>2 DEF Value
    <3>4. Anonymous("rw") # Hole
      BY NoHole DEF Prots
    <3>5. \A p \in Pages : Matches(Says(vmentry', objs', p), mem'[p])
      <4> TAKE p \in Pages
      <4>1. p \in Nat /\ Matches(Says(vmentry, objs, p), mem[p])
        BY <2>5 DEF Faithful, Pages
      <4>2. CASE Within(p, e, q)
        <5>1. mem[p] = Anonymous("none") /\ Says(vmentry', objs', p) = Anonymous("rw")
          BY <2>2, <3>3, <4>1, <4>2 DEF Matches
        <5>2. mem'[p] = Anonymous("rw")
          BY <2>2, <4>2, <5>1 DEF Anonymous
        <5> QED BY <3>4, <5>1, <5>2 DEF Matches
      <4>3. CASE ~Within(p, e, q)
        BY <2>2, <4>1, <4>3
      <4> QED BY <4>2, <4>3
    <3>6. \A p \in TextEnd .. brk' - 1 : Says(vmentry', objs', p) = Anonymous("rw")
      <4> TAKE p \in TextEnd .. brk' - 1
      <4>0. p \in Nat
        BY <1>0
      <4>1. CASE p <= brk - 1
        <5>1. p \in TextEnd .. brk - 1
          BY <1>0, <2>3, <4>1
        <5>2. Says(vmentry, objs, p) = Anonymous("rw")
          BY <2>5, <5>1 DEF Faithful
        <5> QED BY <2>2, <3>4, <4>0, <5>2
      <4>2. CASE brk <= p /\ p < EndPage(e)
        <5>1. Holds(e, p)
          BY <2>3, <4>0, <4>2 DEF Holds
        <5>2. Says(vmentry, objs, p) = Anonymous("rw")
          BY <2>2, <3>3, <4>0, <5>1, HeldSays
        <5> QED BY <2>2, <3>4, <4>0, <5>2
      <4>3. CASE EndPage(e) <= p
        <5>1. Within(p, e, q)
          BY <1>1, <2>2, <4>0, <4>3 DEF Within
        <5> QED BY <2>2, <3>3, <4>0, <5>1
      <4>4. p <= brk - 1 \/ (brk <= p /\ p < EndPage(e)) \/ EndPage(e) <= p
        BY <2>3, <4>0
      <4> QED BY <4>1, <4>2, <4>3, <4>4
    <3>7. InFiles(DOMAIN vmentry', vmentry', objs')
      BY <2>2, <2>5, <3>2 DEF Faithful
    <3> QED BY <3>5, <3>6, <3>7 DEF Faithful
  <2> QED BY <1>1, <2>4, <2>5 DEF MapInvariant
<1> QED BY <1>1, <1>2, <1>3

-----------------------------------------------------------------------------
(* The invariant.                                                           *)

(* The invariant holds when the module starts.                              *)
LEMMA MapInit ==
  ASSUME Bounds
  PROVE  Init => MapInvariant
<1> SUFFICES ASSUME Init PROVE MapInvariant
  OBVIOUS
<1>1. /\ vmentry = FirstRegions /\ objs = <<>> /\ brk = DataEnd /\ disturbed = FALSE
      /\ mem = [p \in Pages |-> IF Says(FirstRegions, <<>>, p) = Hole THEN Anonymous("none")
                                ELSE Says(FirstRegions, <<>>, p)]
  BY DEF Init
<1>2. DataEnd \in Nat /\ DataEnd <= NumPages
  BY DEF Bounds
<1>3. Whole
  BY <1>1, <1>2, FirstSound DEF Whole
<1>4. \A p \in Pages : Matches(Says(vmentry, objs, p), mem[p])
  BY <1>1 DEF Matches
<1>5. Faithful
  BY <1>1, <1>4, FirstSound DEF Faithful
<1> QED BY <1>3, <1>5 DEF MapInvariant

Refusals == {"nothing", "zeros", "inaccessible"}

(* Every step is a call that ...                                            *)
LEMMA Steps ==
  ASSUME Bounds, Next
  PROVE  \/ \E fixed \in BOOLEAN, addr \in Nat, npages \in Nat \ {0}, prot \in {"none", "rw"},
               file \in Files \cup {NoFile}, offset \in Nat, refused \in Refusals :
              /\ Aligned(offset) /\ (file = NoFile => refused = "nothing" /\ offset = 0)
              /\ Mmap(fixed, addr, npages, prot, file, offset, refused)
         \/ \E start \in Nat, npages \in Nat \ {0} : Munmap(start, npages)
         \/ \E b \in 1 .. NumPages : SetBreak(b)
         \/ UNCHANGED vars
<1>1. /\ Places \subseteq Nat /\ Lengths \subseteq Nat \ {0} /\ NoFile \notin Files
      /\ \A k \in Offsets : k \in Nat /\ Aligned(k)
  BY DEF Bounds, Aligned
<1>2. Aligned(0)
  <2>1. 0 * PagesPerMap = 0
    BY Unit
  <2> QED BY <2>1, TimesUnit
<1>3. ASSUME NEW fixed \in BOOLEAN, NEW addr \in Places, NEW npages \in Lengths,
             NEW prot \in {"none", "rw"},
             Mmap(fixed, addr, npages, prot, NoFile, 0, "nothing")
      PROVE  \E file \in Files \cup {NoFile}, offset \in Nat, refused \in Refusals :
               /\ Aligned(offset) /\ (file = NoFile => refused = "nothing" /\ offset = 0)
               /\ Mmap(fixed, addr, npages, prot, file, offset, refused)
  <2>1. NoFile \in Files \cup {NoFile} /\ 0 \in Nat /\ "nothing" \in Refusals
    BY DEF Refusals
  <2> QED BY <1>2, <1>3, <2>1
<1>4. ASSUME NEW fixed \in BOOLEAN, NEW addr \in Places, NEW npages \in Lengths,
             NEW prot \in {"none", "rw"}, NEW file \in Files, NEW offset \in Offsets,
             NEW refused \in {"nothing", "zeros", "inaccessible"},
             Mmap(fixed, addr, npages, prot, file, offset, refused)
      PROVE  /\ file \in Files \cup {NoFile} /\ offset \in Nat /\ refused \in Refusals
             /\ Aligned(offset) /\ (file = NoFile => refused = "nothing" /\ offset = 0)
  BY <1>1, <1>4 DEF Refusals
<1>5. CASE \E fixed \in BOOLEAN, addr \in Places, npages \in Lengths, prot \in {"none", "rw"} :
             \/ Mmap(fixed, addr, npages, prot, NoFile, 0, "nothing")
             \/ \E file \in Files, offset \in Offsets,
                   refused \in {"nothing", "zeros", "inaccessible"} :
                  Mmap(fixed, addr, npages, prot, file, offset, refused)
  <2>1. PICK fixed \in BOOLEAN, addr \in Places, npages \in Lengths, prot \in {"none", "rw"} :
          \/ Mmap(fixed, addr, npages, prot, NoFile, 0, "nothing")
          \/ \E file \in Files, offset \in Offsets,
                refused \in {"nothing", "zeros", "inaccessible"} :
               Mmap(fixed, addr, npages, prot, file, offset, refused)
    BY <1>5
  <2>2. \E file \in Files \cup {NoFile}, offset \in Nat, refused \in Refusals :
          /\ Aligned(offset) /\ (file = NoFile => refused = "nothing" /\ offset = 0)
          /\ Mmap(fixed, addr, npages, prot, file, offset, refused)
    BY <1>3, <1>4, <2>1
  <2>3. addr \in Nat /\ npages \in Nat \ {0}
    BY <1>1
  <2> QED BY <2>2, <2>3
<1>6. CASE \E start \in Places, npages \in Lengths : Munmap(start, npages)
  BY <1>1, <1>6
<1>7. CASE \E b \in 1 .. NumPages : SetBreak(b)
  BY <1>7
<1>8. CASE Idle
  BY <1>8 DEF Idle
<1> QED BY <1>5, <1>6, <1>7, <1>8 DEF Next

(* ... keeps the invariant.                                                 *)
LEMMA MapNext ==
  ASSUME Bounds
  PROVE  MapInvariant /\ [Next]_vars => MapInvariant'
<1> SUFFICES ASSUME MapInvariant, [Next]_vars PROVE MapInvariant'
  OBVIOUS
<1>1. ASSUME NEW fixed \in BOOLEAN, NEW addr \in Nat, NEW npages \in Nat \ {0},
             NEW prot \in {"none", "rw"}, NEW file \in Files \cup {NoFile}, NEW offset \in Nat,
             NEW refused, Aligned(offset), Mmap(fixed, addr, npages, prot, file, offset, refused)
      PROVE  MapInvariant'
  <2>1. Sound(vmentry, objs)
    BY DEF MapInvariant, Whole
  <2>2. PICK first, n, count : MmapResult(first, n, count, prot, file, offset, refused)
    BY <1>1, <2>1, MmapDoes
  <2> QED BY <2>2, MmapKeeps
<1>2. ASSUME NEW start \in Nat, NEW npages \in Nat \ {0}, Munmap(start, npages)
      PROVE  MapInvariant'
  BY <1>2, MunmapKeeps
<1>3. ASSUME NEW b \in 1 .. NumPages, SetBreak(b)
      PROVE  MapInvariant'
  BY <1>3, SetBreakKeeps
<1>4. CASE UNCHANGED vars
  BY <1>4 DEF vars, MapInvariant, Whole, Faithful
<1>5. CASE Next
  <2>1. CASE \E fixed \in BOOLEAN, addr \in Nat, npages \in Nat \ {0}, prot \in {"none", "rw"},
                file \in Files \cup {NoFile}, offset \in Nat, refused \in Refusals :
               /\ Aligned(offset) /\ (file = NoFile => refused = "nothing" /\ offset = 0)
               /\ Mmap(fixed, addr, npages, prot, file, offset, refused)
    BY <1>1, <2>1
  <2> QED BY <1>2, <1>3, <1>4, <1>5, <2>1, Steps
<1> QED BY <1>4, <1>5

(* As long as the program runs, the invariant holds.                        *)
THEOREM MapSound ==
  ASSUME Bounds
  PROVE  Spec => []MapInvariant
<1> QED BY MapInit, MapNext, PTL DEF Spec

-----------------------------------------------------------------------------
(* What follows from it.                                                    *)

(* Regions neither share nor leak an object, ...                            *)
LEMMA OwnedIfSound == MapInvariant => ObjectsOwned
<1> SUFFICES ASSUME MapInvariant PROVE ObjectsOwned
  OBVIOUS
<1>1. OwnedBy(DOMAIN vmentry, vmentry, objs, NoObj)
  BY DEF MapInvariant, Whole, Sound
<1>2. DOMAIN objs = {vmentry[i].nmop : i \in DOMAIN vmentry} \ {NoObj}
  BY <1>1 DEF OwnedBy
<1>3. \A i, j \in DOMAIN vmentry :
        i # j /\ vmentry[i].nmop # NoObj => vmentry[i].nmop # vmentry[j].nmop
  BY <1>1 DEF OwnedBy
<1>4. ~disturbed => \A i \in DOMAIN vmentry : vmentry[i].nmop # NoObj =>
        objs[vmentry[i].nmop].offset + vmentry[i].npages <= FileSize
  BY DEF MapInvariant, Faithful, InFiles
<1> QED BY <1>2, <1>3, <1>4 DEF ObjectsOwned

(* ... the map says of each page what the host has there, ...               *)
LEMMA MatchesIfSound == MapInvariant => MapMatchesMemory
<1> SUFFICES ASSUME MapInvariant PROVE MapMatchesMemory
  OBVIOUS
<1>1. Tidy(vmentry) /\ Live(vmentry) /\ Kept(vmentry) = DOMAIN vmentry
  BY DEF MapInvariant, Whole, Sound, Live, Kept
<1>2. ASSUME NEW p \in Pages, NEW i \in Holding(vmentry, p), NEW j \in Holding(vmentry, p)
      PROVE  i = j
  <2>1. /\ i \in DOMAIN vmentry /\ Holds(vmentry[i], p)
        /\ j \in DOMAIN vmentry /\ Holds(vmentry[j], p) /\ p \in Nat
    BY DEF Holding, Holds, Pages
  <2> QED BY <1>1, <2>1 DEF Tidy
<1>3. \A i \in DOMAIN vmentry : vmentry[i].npages > 0 /\ ~vmentry[i].removed
  BY <1>1 DEF Tidy, Live
<1>4. ASSUME ~disturbed, NEW p \in Pages, NEW said, said = Says(vmentry, objs, p)
      PROVE  IF said = Hole THEN mem[p].prot = "none"
             ELSE said.prot = mem[p].prot /\ (said.prot # "none" => said = mem[p])
  <2>1. Matches(said, mem[p])
    BY <1>4 DEF MapInvariant, Faithful
  <2> QED BY <2>1 DEF Matches, Anonymous
<1> QED BY <1>2, <1>3, <1>4 DEF MapMatchesMemory

(* A page can start a run if and only if it does so in a gap.               *)
LEMMA FreeRuns ==
  ASSUME Bounds, MapInvariant, NEW n \in Nat \ {0}, NEW p \in Nat, Aligned(p), NEW taken,
         taken = {x \in Pages : Holding(vmentry, x) # {}}
  PROVE  LET v == MakeSorted(vmentry)
         IN  p \in Pages /\ FreeRun(taken, p, n) <=>
               \E i \in 2 .. Len(v) : Gap(v, i, p, RoundUp(n))
<1> DEFINE v == MakeSorted(vmentry)
           need == RoundUp(n)
<1>1. /\ Sound(vmentry, objs) /\ Says(vmentry, objs, 0) # Hole
      /\ Says(vmentry, objs, NumPages - 1) # Hole /\ NumPages \in Nat /\ 0 < NumPages
  BY DEF MapInvariant, Whole, Bounds
<1>2. /\ Sound(v, objs) /\ Increasing(v)
      /\ \A x \in Nat : Says(v, objs, x) = Says(vmentry, objs, x)
  BY <1>1, SortedSound
<1>3. Tidy(v) /\ Live(v)
  BY <1>2 DEF Sound
<1>4. need \in Nat \ {0} /\ Aligned(need)
  <2>1. need \in Nat /\ n <= need
    BY RoundedUp
  <2> QED BY <2>1, RoundedUp
<1> HIDE DEF v, need
<1>5. \A x \in Nat : Holding(vmentry, x) # {} <=> \E j \in DOMAIN v : Holds(v[j], x)
  BY <1>1, <1>2, FreeSays
<1>6. PICK a \in DOMAIN v : Holds(v[a], 0)
  BY <1>1, <1>2, FreeSays
<1>7. PICK z \in DOMAIN v : Holds(v[z], NumPages - 1)
  <2>1. NumPages - 1 \in Nat
    BY <1>1
  <2> QED BY <1>1, <1>2, <2>1, FreeSays
<1>8. p + need <= NumPages /\ Free(v, p, need) <=> \E i \in 2 .. Len(v) : Gap(v, i, p, need)
  BY <1>2, <1>3, <1>4, <1>6, <1>7, FreeInGap
<1>9. ASSUME p + need <= NumPages
      PROVE  p \in Pages /\ (FreeRun(taken, p, n) <=> Free(v, p, need))
  <2>1. p \in Pages /\ p .. p + need - 1 \subseteq Pages /\ Pages \subseteq Nat
    BY <1>1, <1>4, <1>9 DEF Pages
  <2>2. \A x \in p .. p + need - 1 : x \notin taken <=> \A j \in DOMAIN v : ~Holds(v[j], x)
    BY <1>5, <2>1
  <2>3. taken \cap (p .. p + need - 1) = {} <=> Free(v, p, need)
    BY <2>2 DEF Free
  <2>4. FreeRun(taken, p, n) <=> taken \cap (p .. p + need - 1) = {}
    BY <1>9 DEF FreeRun, Aligned, need
  <2> QED BY <2>1, <2>3, <2>4
<1>10. FreeRun(taken, p, n) => p + need <= NumPages
  BY DEF FreeRun, need
<1> QED BY <1>8, <1>9, <1>10 DEF v, need

(* ... and the searches find the best hole or say that there is none.       *)
LEMMA FoundIfSound ==
  ASSUME Bounds
  PROVE  MapInvariant => HolesFound
<1> SUFFICES ASSUME MapInvariant PROVE HolesFound
  OBVIOUS
<1> DEFINE v == MakeSorted(vmentry)
           taken == {x \in Pages : Holding(vmentry, x) # {}}
<1>1. Tidy(vmentry) /\ Live(vmentry)
  BY DEF MapInvariant, Whole, Sound
<1>2. Lengths \subseteq Nat \ {0} /\ Pages \subseteq Nat
  BY DEF Bounds, Pages
<1> SUFFICES ASSUME NEW n \in Lengths
             PROVE  LET free == {p \in Pages : FreeRun(taken, p, n)}
                        found == FindMapSpace(vmentry, n)
                    IN /\ IF free = {} THEN found = 0
                          ELSE found \in free /\ \A p \in free : p <= found
                       /\ \A hint \in {p \in Pages : p % PagesPerMap = 0} :
                            LET above == {p \in free : hint <= p}
                                place == FindMapSpaceAboveHint(vmentry, hint, n)
                            IN IF above = {} THEN place = 0
                               ELSE place \in above /\ \A p \in above : place <= p
  BY DEF HolesFound
<1> DEFINE free == {p \in Pages : FreeRun(taken, p, n)}
           found == FindMapSpace(vmentry, n)
           need == RoundUp(n)
<1>3. n \in Nat \ {0}
  BY <1>2
<1>4. \A p \in free : p \in Nat /\ Aligned(p)
  BY <1>2 DEF FreeRun, Aligned
<1> HIDE DEF taken
<1>5. \A p \in Nat : Aligned(p) =>
        (p \in free <=> \E i \in 2 .. Len(v) : Gap(v, i, p, need))
  BY <1>3, FreeRuns DEF taken
<1>6. \/ found = 0 /\ \A i \in 2 .. Len(v), p \in Nat : ~Gap(v, i, p, need)
      \/ /\ found \in Nat /\ Aligned(found)
         /\ \E i \in 2 .. Len(v) : Gap(v, i, found, need)
         /\ \A i \in 2 .. Len(v), p \in Nat : Gap(v, i, p, need) => p <= found
  BY <1>1, <1>3, HighestFound
<1>7. ASSUME NEW hint \in Pages, hint % PagesPerMap = 0
      PROVE  LET place == FindMapSpaceAboveHint(vmentry, hint, n)
             IN \/ /\ place = 0
                   /\ \A i \in 2 .. Len(v), p \in Nat : hint <= p => ~Gap(v, i, p, need)
                \/ /\ place \in Nat /\ Aligned(place) /\ hint <= place
                   /\ \E i \in 2 .. Len(v) : Gap(v, i, place, need)
                   /\ \A i \in 2 .. Len(v), p \in Nat :
                        hint <= p /\ Gap(v, i, p, need) => place <= p
  <2>1. hint \in Nat /\ Aligned(hint)
    BY <1>2, <1>7 DEF Aligned
  <2> QED BY <1>1, <1>3, <2>1, LowestFound
<1> HIDE DEF v, need, found, free
<1>8. IF free = {} THEN found = 0 ELSE found \in free /\ \A p \in free : p <= found
  <2>1. CASE found = 0 /\ \A i \in 2 .. Len(v), p \in Nat : ~Gap(v, i, p, need)
    <3>1. free = {}
      BY <1>4, <1>5, <2>1
    <3> QED BY <2>1, <3>1
  <2>2. CASE /\ found \in Nat /\ Aligned(found)
             /\ \E i \in 2 .. Len(v) : Gap(v, i, found, need)
             /\ \A i \in 2 .. Len(v), p \in Nat : Gap(v, i, p, need) => p <= found
    <3>1. found \in free
      BY <1>5, <2>2
    <3>2. \A p \in free : p <= found
      BY <1>4, <1>5, <2>2
    <3> QED BY <3>1, <3>2
  <2> QED BY <1>6, <2>1, <2>2
<1>9. ASSUME NEW hint \in Pages, hint % PagesPerMap = 0
      PROVE  LET above == {p \in free : hint <= p}
                 place == FindMapSpaceAboveHint(vmentry, hint, n)
             IN IF above = {} THEN place = 0
                ELSE place \in above /\ \A p \in above : place <= p
  <2> DEFINE above == {p \in free : hint <= p}
             place == FindMapSpaceAboveHint(vmentry, hint, n)
  <2>1. \/ /\ place = 0
           /\ \A i \in 2 .. Len(v), p \in Nat : hint <= p => ~Gap(v, i, p, need)
        \/ /\ place \in Nat /\ Aligned(place) /\ hint <= place
           /\ \E i \in 2 .. Len(v) : Gap(v, i, place, need)
           /\ \A i \in 2 .. Len(v), p \in Nat :
                hint <= p /\ Gap(v, i, p, need) => place <= p
    BY <1>7, <1>9
  <2> HIDE DEF place
  <2>2. ASSUME place = 0,
                \A i \in 2 .. Len(v), p \in Nat : hint <= p => ~Gap(v, i, p, need)
        PROVE  IF above = {} THEN place = 0
               ELSE place \in above /\ \A p \in above : place <= p
    <3>1. above = {}
      BY <1>4, <1>5, <2>2
    <3> QED BY <2>2, <3>1
  <2>3. ASSUME place \in Nat, Aligned(place), hint <= place,
               \E i \in 2 .. Len(v) : Gap(v, i, place, need),
               \A i \in 2 .. Len(v), p \in Nat :
                 hint <= p /\ Gap(v, i, p, need) => place <= p
        PROVE  IF above = {} THEN place = 0
               ELSE place \in above /\ \A p \in above : place <= p
    <3>1. place \in free
      BY <1>5, <2>3
    <3>2. \A p \in above : place <= p
      BY <1>4, <1>5, <2>3
    <3>3. place \in above
      BY <2>3, <3>1
    <3> QED BY <3>2, <3>3
  <2> QED BY <2>1, <2>2, <2>3 DEF place
<1> QED BY <1>8, <1>9 DEF found, free

(* Whatever a module maps and unmaps, every memory object is the object of  *)
(* one region, and no region is left without its own.                       *)
THEOREM RegionsOwnObjects ==
  ASSUME Bounds
  PROVE  Spec => []ObjectsOwned
<1> QED BY MapSound, OwnedIfSound, PTL

(* As long as it leaves its data alone, the map is true of the memory, and  *)
(* regions never overlap.                                                   *)
THEOREM MapIsTrue ==
  ASSUME Bounds
  PROVE  Spec => []MapMatchesMemory
<1> QED BY MapSound, MatchesIfSound, PTL

(* The searches for a hole never miss one and never answer with a page that *)
(* is taken.                                                                *)
THEOREM HolesAreFound ==
  ASSUME Bounds
  PROVE  Spec => []HolesFound
<1> QED BY MapSound, FoundIfSound, PTL

-----------------------------------------------------------------------------
(* The refinement.                                                          *)

PageNow == [p \in Pages |-> Says(vmentry, objs, p)]
PageThen == [p \in Pages |-> Says(vmentry', objs', p)]

(* The range of a call is one that the table of pages allows, and the table *)
(* is left alone outside of it.                                             *)
LEMMA TableRange ==
  ASSUME Bounds, NEW first, NEW n, NEW count, CallRange(first, n, count),
         \A p \in Nat : Outside(p, first, first + count) =>
           Says(vmentry', objs', p) = Says(vmentry, objs, p)
  PROVE  /\ first \in {p \in Pages : Table!Aligned(p) /\ p >= TextEnd}
         /\ n \in {k \in 1 .. NumPages : Table!Aligned(k)}
         /\ first + n <= NumPages
         /\ \A p \in Pages \ (first .. first + n - 1) : PageThen[p] = PageNow[p]
<1>1. /\ first \in Nat /\ n \in Nat \ {0} /\ count \in Nat /\ count <= n
      /\ Aligned(first) /\ Aligned(n) /\ TextEnd <= first /\ first + n <= NumPages
      /\ NumPages \in Nat /\ TextEnd \in Nat
  BY DEF CallRange, Bounds
<1>2. first \in Pages /\ n \in 1 .. NumPages /\ first >= TextEnd
  BY <1>1 DEF Pages
<1>3. Table!Aligned(first) /\ Table!Aligned(n)
  BY <1>1 DEF Table!Aligned, Aligned
<1>4. ASSUME NEW p \in Pages \ (first .. first + n - 1)
      PROVE  PageThen[p] = PageNow[p]
  <2>1. p \in Nat /\ Outside(p, first, first + count) /\ p \in Pages
    BY <1>1 DEF Pages, Outside
  <2> QED BY <2>1 DEF PageNow, PageThen
<1> QED BY <1>1, <1>2, <1>3, <1>4

(* A step of the table of pages, from what happens to its pages.            *)
LEMMA TableCall ==
  ASSUME NEW first \in {p \in Pages : Table!Aligned(p) /\ p >= TextEnd},
         NEW n \in {k \in 1 .. NumPages : Table!Aligned(k)},
         first + n <= NumPages, UNCHANGED brk,
         \A p \in Pages \ (first .. first + n - 1) : PageThen[p] = PageNow[p],
         \/ Table!Unmap(PageNow, PageThen, first, n)
         \/ \E prot \in {"none", "rw"}, file \in Files \cup {NoFile},
               at \in {k \in 0 .. FileSize : Table!Aligned(k)} :
              \/ Table!Map(PageNow, PageThen, first, n, prot, file, at)
              \/ /\ file # NoFile
                 /\ Table!MapFilePart(PageNow, PageThen, first, n, prot, file, at)
  PROVE  Table!Next
<1>1. Table!ChangeRange(PageNow, PageThen)
  BY DEF Table!ChangeRange, Table!Pages, Pages
<1>2. Table!Call
  BY <1>1 DEF Table!Call, PageNow, PageThen
<1> QED BY <1>2 DEF Table!Next

(* mmap is such a step, ...                                                 *)
LEMMA MmapTable ==
  ASSUME Bounds, NEW first, NEW n, NEW count, NEW prot \in {"none", "rw"},
         NEW file \in Files \cup {NoFile}, NEW offset \in Nat, NEW refused,
         Aligned(offset), file = NoFile => offset = 0,
         MmapResult(first, n, count, prot, file, offset, refused)
  PROVE  Table!Next
<1>1. /\ CallRange(first, n, count) /\ first \in Nat /\ count \in Nat /\ count <= n
      /\ UNCHANGED brk /\ n \in Nat
  BY DEF MmapResult, CallRange
<1>2. \A p \in Nat : Outside(p, first, first + count) =>
        Says(vmentry', objs', p) = Says(vmentry, objs, p)
  BY DEF MmapResult
<1>3. /\ first \in {p \in Pages : Table!Aligned(p) /\ p >= TextEnd}
      /\ n \in {k \in 1 .. NumPages : Table!Aligned(k)}
      /\ first + n <= NumPages
      /\ \A p \in Pages \ (first .. first + n - 1) : PageThen[p] = PageNow[p]
  BY <1>1, <1>2, TableRange
<1>4. offset \in {k \in 0 .. FileSize : Table!Aligned(k)}
  <2>1. FileSize \in Nat /\ (file = NoFile \/ offset <= FileSize)
    BY DEF MmapResult, Bounds
  <2> QED BY <2>1 DEF Table!Aligned, Aligned
<1>5. PageThen = Table!With(PageNow, first, count,
                            LAMBDA k : Table!Mapped(prot, file, offset, k))
  <2>1. ASSUME NEW p \in Pages
        PROVE  PageThen[p] = IF first <= p /\ p < first + count
                             THEN Table!Mapped(prot, file, offset, p - first) ELSE PageNow[p]
    <3>1. p \in Nat
      BY DEF Pages
    <3>2. Says(vmentry', objs', p) =
            IF Outside(p, first, first + count) THEN Says(vmentry, objs, p)
            ELSE Table!Mapped(prot, file, offset, p - first)
      BY <3>1 DEF MmapResult
    <3>3. Outside(p, first, first + count) <=> ~(first <= p /\ p < first + count)
      BY <1>1, <3>1 DEF Outside
    <3> QED BY <3>2, <3>3 DEF PageNow, PageThen
  <2>2. PageThen = [p \in Pages |-> PageThen[p]]
    BY DEF PageThen
  <2>3. Table!Pages = Pages
    BY DEF Table!Pages, Pages
  <2>4. PageThen = [p \in Pages |->
                      IF first <= p /\ p < first + count
                      THEN Table!Mapped(prot, file, offset, p - first) ELSE PageNow[p]]
    BY <2>1, <2>2
  <2> QED BY <2>3, <2>4 DEF Table!With
<1>6. CASE refused = "zeros"
  <2>1. file # NoFile /\ offset + n > FileSize /\ count = FileSize - offset
    BY <1>6 DEF MmapResult
  <2>2. Table!MapFilePart(PageNow, PageThen, first, n, prot, file, offset)
    BY <1>5, <2>1 DEF Table!MapFilePart
  <2> QED BY <1>1, <1>3, <1>4, <2>1, <2>2, TableCall
<1>7. CASE refused # "zeros"
  <2>1. count = n
    BY <1>7 DEF MmapResult
  <2>2. Table!Map(PageNow, PageThen, first, n, prot, file, offset)
    BY <1>5, <2>1 DEF Table!Map
  <2> QED BY <1>1, <1>3, <1>4, <2>2, TableCall
<1> QED BY <1>6, <1>7

(* ... munmap is, ...                                                       *)
LEMMA MunmapTable ==
  ASSUME Bounds, NEW start \in Nat, NEW n, CallRange(start, n, n),
         \A p \in Nat : Says(vmentry', objs', p) =
           IF Outside(p, start, start + n) THEN Says(vmentry, objs, p) ELSE Hole
  PROVE  Table!Next
<1>1. UNCHANGED brk /\ n \in Nat
  BY DEF CallRange
<1>2. /\ start \in {p \in Pages : Table!Aligned(p) /\ p >= TextEnd}
      /\ n \in {k \in 1 .. NumPages : Table!Aligned(k)}
      /\ start + n <= NumPages
      /\ \A p \in Pages \ (start .. start + n - 1) : PageThen[p] = PageNow[p]
  BY TableRange
<1>3. PageThen = Table!With(PageNow, start, n, LAMBDA k : Hole)
  <2>1. ASSUME NEW p \in Pages
        PROVE  PageThen[p] = IF start <= p /\ p < start + n THEN Hole ELSE PageNow[p]
    <3>1. p \in Nat
      BY DEF Pages
    <3>2. Outside(p, start, start + n) <=> ~(start <= p /\ p < start + n)
      BY <1>1, <3>1 DEF Outside
    <3> QED BY <3>1, <3>2 DEF PageNow, PageThen
  <2>2. PageThen = [p \in Pages |-> PageThen[p]]
    BY DEF PageThen
  <2>3. Table!Pages = Pages
    BY DEF Table!Pages, Pages
  <2>4. PageThen = [p \in Pages |-> IF start <= p /\ p < start + n THEN Hole ELSE PageNow[p]]
    BY <2>1, <2>2
  <2> QED BY <2>3, <2>4 DEF Table!With
<1>4. Table!Unmap(PageNow, PageThen, start, n)
  BY <1>3 DEF Table!Unmap
<1> QED BY <1>1, <1>2, <1>4, TableCall

(* A region that grows continues as its last page does.                     *)
LEMMA ValueFurtherOn ==
  ASSUME NEW e \in Entries, NEW o, NEW a \in Nat, NEW p \in Nat, a <= p, e.page_num <= a,
         e.nmop # NoObj => o[e.nmop].file # NoFile /\ o[e.nmop].offset \in Nat
  PROVE  Value(e, o, p) = Table!Continued(Value(e, o, a), p - a)
<1>1. CASE e.nmop = NoObj
  BY <1>1 DEF Value, Anonymous, Table!Continued
<1>2. CASE e.nmop # NoObj
  <2> DEFINE file == o[e.nmop].file
             off == o[e.nmop].offset
  <2>1. file # NoFile /\ off \in Nat /\ e.page_num \in Nat
    BY <1>2 DEF Entries
  <2>2. Value(e, o, p) = [prot |-> e.prot, file |-> file, at |-> off + p - e.page_num]
        /\ Value(e, o, a) = [prot |-> e.prot, file |-> file, at |-> off + a - e.page_num]
    BY <1>2 DEF Value, Backed
  <2> HIDE DEF file, off
  <2>3. off + p - e.page_num = off + a - e.page_num + (p - a)
    BY <2>1
  <2> DEFINE x == off + a - e.page_num
             y == off + p - e.page_num
             z == p - a
  <2>4. y = x + z
    BY <2>3
  <2>5. Value(e, o, p) = [prot |-> e.prot, file |-> file, at |-> y]
        /\ Value(e, o, a) = [prot |-> e.prot, file |-> file, at |-> x]
    BY <2>2
  <2> HIDE DEF x, y, z
  <2>6. Table!Continued(Value(e, o, a), z) = [prot |-> e.prot, file |-> file, at |-> x + z]
    BY <2>1, <2>5 DEF Table!Continued
  <2>7. Value(e, o, p) = Table!Continued(Value(e, o, a), z)
    BY <2>4, <2>5, <2>6
  <2> QED BY <2>7 DEF z
<1> QED BY <1>1, <1>2

(* ... and brk is the table's GrowBreak when the region grows, ...          *)
LEMMA GrownTable ==
  ASSUME Bounds, Whole, NEW v, NEW i, NEW q, Grown(v, i, q), brk' \in Nat, DataEnd <= brk',
         brk' <= NumPages, EndPage(v[i]) < brk', q = RoundUp(brk'), q <= NumPages
  PROVE  Table!GrowBreak
<1> DEFINE e == v[i]
           a == EndPage(e) - 1
<1>1. /\ Sound(v, objs) /\ \A p \in Nat : Says(v, objs, p) = Says(vmentry, objs, p)
      /\ i \in DOMAIN v /\ Holds(e, brk - 1) /\ q \in Nat
      /\ \A p \in Nat : Within(p, e, q) =>
           /\ Says(vmentry, objs, p) = Hole
           /\ Says(vmentry', objs', p) = Value(e, objs, p)
      /\ \A p \in Nat : ~Within(p, e, q) => Says(vmentry', objs', p) = Says(vmentry, objs, p)
  BY DEF Grown
<1>2. e \in Entries /\ e.page_num \in Nat /\ EndPage(e) \in Nat /\ EndPage(e) <= NumPages
  BY <1>1, EntryOf DEF Sound, Tidy, Live, Kept
<1>3. brk \in Nat /\ 0 < brk /\ e.page_num <= brk - 1 /\ brk - 1 < EndPage(e)
      /\ NumPages \in Nat
  <2>1. 0 < DataEnd /\ DataEnd \in Nat /\ DataEnd <= brk /\ NumPages \in Nat /\ brk \in Nat
    BY DEF Bounds, Whole
  <2> QED BY <1>1, <2>1 DEF Holds
<1>4. a \in Nat /\ a \in Pages /\ e.page_num <= a /\ Holds(e, a)
      /\ brk - 1 <= a /\ a + 1 < brk' /\ a + 1 = EndPage(e)
  <2>1. a \in Nat /\ e.page_num <= a /\ a < EndPage(e) /\ a + 1 = EndPage(e) /\ brk - 1 <= a
        /\ a < NumPages
    BY <1>2, <1>3
  <2> QED BY <1>3, <2>1 DEF Pages, Holds
<1>5. e.nmop # NoObj => objs[e.nmop].file # NoFile /\ objs[e.nmop].offset \in Nat
  <2> HAVE e.nmop # NoObj
  <2>1. OwnedBy(DOMAIN v, v, objs, NoObj)
    BY <1>1 DEF Sound
  <2>2. e.nmop \in DOMAIN objs /\ objs \in [DOMAIN objs -> ObjRecs]
    BY <1>1, <2>1 DEF OwnedBy
  <2>3. objs[e.nmop] \in ObjRecs
    BY <2>2
  <2> QED BY <2>3 DEF ObjRecs, Bounds
<1>6. PageNow[a] = Value(e, objs, a)
  <2>1. Says(v, objs, a) = Value(e, objs, a)
    BY <1>1, <1>4, HeldSays
  <2> QED BY <1>1, <1>4, <2>1 DEF PageNow
<1> HIDE DEF e, a
<1>7. ASSUME NEW p \in brk - 1 .. a PROVE PageNow[p] # Hole
  <2>1. p \in Nat /\ p \in Pages /\ Holds(e, p)
    BY <1>2, <1>3, <1>4 DEF Pages, Holds
  <2>2. Says(v, objs, p) # Hole
    BY <1>1, <2>1, HeldSays DEF e
  <2> QED BY <1>1, <2>1, <2>2 DEF PageNow
<1>8. ASSUME NEW p \in a + 1 .. q - 1 PROVE PageNow[p] = Hole
  <2>1. p \in Nat /\ p \in Pages /\ Within(p, e, q)
    BY <1>1, <1>3, <1>4 DEF Pages, Within
  <2> QED BY <1>1, <2>1 DEF PageNow, e
<1>9. PageThen = Table!With(PageNow, a + 1, q - a - 1,
                            LAMBDA k : Table!Continued(PageNow[a], k + 1))
  <2>1. ASSUME NEW p \in Pages
        PROVE  PageThen[p] = IF a + 1 <= p /\ p < a + 1 + (q - a - 1)
                             THEN Table!Continued(PageNow[a], p - (a + 1) + 1) ELSE PageNow[p]
    <3>1. p \in Nat
      BY DEF Pages
    <3>2. Within(p, e, q) <=> a + 1 <= p /\ p < a + 1 + (q - a - 1)
      BY <1>1, <1>4, <3>1 DEF Within
    <3>3. CASE Within(p, e, q)
      <4>1. a <= p
        BY <1>4, <3>1, <3>2, <3>3
      <4>2. Value(e, objs, p) = Table!Continued(Value(e, objs, a), p - a)
        BY <1>2, <1>4, <1>5, <3>1, <4>1, ValueFurtherOn
      <4>3. p - a = p - (a + 1) + 1
        BY <1>4, <3>1
      <4>4. PageThen[p] = Value(e, objs, p)
        BY <1>1, <3>1, <3>3 DEF PageThen, e
      <4> QED BY <1>6, <3>2, <3>3, <4>2, <4>3, <4>4
    <3>4. CASE ~Within(p, e, q)
      <4>1. PageThen[p] = PageNow[p]
        BY <1>1, <3>1, <3>4 DEF PageThen, PageNow, e
      <4> QED BY <3>2, <3>4, <4>1
    <3> QED BY <3>3, <3>4
  <2>2. PageThen = [p \in Pages |-> PageThen[p]]
    BY DEF PageThen
  <2>3. Table!Pages = Pages
    BY DEF Table!Pages, Pages
  <2>4. PageThen = [p \in Pages |->
                      IF a + 1 <= p /\ p < a + 1 + (q - a - 1)
                      THEN Table!Continued(PageNow[a], p - (a + 1) + 1) ELSE PageNow[p]]
    BY <2>1, <2>2
  <2> QED BY <2>3, <2>4 DEF Table!With
<1>10. Table!RoundUp(brk') = q
  BY DEF Table!RoundUp, RoundUp
<1>11. Table!Grow(PageNow, PageThen, a)
  BY <1>4, <1>7, <1>8, <1>9, <1>10 DEF Table!Grow
<1> QED BY <1>4, <1>11 DEF Table!GrowBreak, Table!Pages, Pages, PageNow, PageThen

(* ... or its MoveBreak when it need not.                                   *)
LEMMA SetBreakTable ==
  ASSUME Bounds, Whole, NEW b \in 1 .. NumPages, SetBreak(b)
  PROVE  Table!Next
<1>1. /\ brk' \in Nat /\ DataEnd <= brk' /\ brk' <= NumPages
      /\ \/ brk' <= brk /\ UNCHANGED <<vmentry, objs, mem>>
         \/ \E v, i, q : Grown(v, i, q)
  BY SetBreakDoes
<1>2. ASSUME PageThen = PageNow PROVE Table!Next
  <2>1. Table!MoveBreak
    BY <1>1, <1>2 DEF Table!MoveBreak, PageThen, PageNow
  <2> QED BY <2>1 DEF Table!Next
<1>3. CASE brk' <= brk /\ UNCHANGED <<vmentry, objs, mem>>
  BY <1>2, <1>3 DEF PageThen, PageNow
<1>4. ASSUME NEW v, NEW i, NEW q, Grown(v, i, q) PROVE Table!Next
  <2>1. CASE q = EndPage(v[i])
    <3>1. \A p \in Nat : ~Within(p, v[i], q)
      <4>1. q \in Nat
        BY <1>4 DEF Grown
      <4> QED BY <2>1, <4>1 DEF Within
    <3>2. \A p \in Pages : Says(vmentry', objs', p) = Says(vmentry, objs, p)
      BY <1>4, <3>1 DEF Grown, Pages
    <3> QED BY <1>2, <3>2 DEF PageThen, PageNow
  <2>2. CASE EndPage(v[i]) < brk' /\ q = RoundUp(brk') /\ q <= NumPages
    <3>1. Table!GrowBreak
      BY <1>1, <1>4, <2>2, GrownTable
    <3> QED BY <3>1 DEF Table!Next
  <2> QED BY <1>4, <2>1, <2>2 DEF Grown
<1> QED BY <1>1, <1>3, <1>4

(* So every step of the map is a step of the table or leaves it as it was.  *)
LEMMA TableNext ==
  ASSUME Bounds
  PROVE  MapInvariant /\ [Next]_vars => [Table!Next]_(Table!vars)
<1> SUFFICES ASSUME MapInvariant, [Next]_vars PROVE [Table!Next]_(Table!vars)
  OBVIOUS
<1>0. Whole /\ Sound(vmentry, objs)
  BY DEF MapInvariant, Whole
<1>1. ASSUME NEW fixed \in BOOLEAN, NEW addr \in Nat, NEW npages \in Nat \ {0},
             NEW prot \in {"none", "rw"}, NEW file \in Files \cup {NoFile}, NEW offset \in Nat,
             NEW refused, Aligned(offset), file = NoFile => offset = 0,
             Mmap(fixed, addr, npages, prot, file, offset, refused)
      PROVE  Table!Next
  <2>1. PICK first, n, count : MmapResult(first, n, count, prot, file, offset, refused)
    BY <1>0, <1>1, MmapDoes
  <2> QED BY <1>1, <2>1, MmapTable
<1>2. ASSUME NEW start \in Nat, NEW npages \in Nat \ {0}, Munmap(start, npages)
      PROVE  Table!Next
  <2>1. PICK n :
          /\ CallRange(start, n, n)
          /\ \A p \in Nat : Says(vmentry', objs', p) =
               IF Outside(p, start, start + n) THEN Says(vmentry, objs, p) ELSE Hole
    BY <1>0, <1>2, MunmapDoes
  <2> QED BY <2>1, MunmapTable
<1>3. ASSUME NEW b \in 1 .. NumPages, SetBreak(b)
      PROVE  Table!Next
  BY <1>0, <1>3, SetBreakTable
<1>4. CASE UNCHANGED vars
  BY <1>4 DEF vars, Table!vars
<1>5. CASE Next
  <2>1. CASE \E fixed \in BOOLEAN, addr \in Nat, npages \in Nat \ {0}, prot \in {"none", "rw"},
                file \in Files \cup {NoFile}, offset \in Nat, refused \in Refusals :
               /\ Aligned(offset) /\ (file = NoFile => refused = "nothing" /\ offset = 0)
               /\ Mmap(fixed, addr, npages, prot, file, offset, refused)
    BY <1>1, <2>1
  <2> QED BY <1>2, <1>3, <1>4, <1>5, <2>1, Steps
<1> QED BY <1>4, <1>5

(* The array of regions implements the table of pages.                      *)
THEOREM MapImplementsTable ==
  ASSUME Bounds
  PROVE  Spec => ImplementsPageMap
<1>1. Init => Table!Init
  BY DEF Init, Table!Init
<1>2. Spec => []MapInvariant
  BY MapSound
<1> QED BY <1>1, <1>2, TableNext, PTL DEF Spec, ImplementsPageMap, Table!Spec

=============================================================================
