------------------------- MODULE BranchSearchProofs -------------------------
(***************************************************************************)
(* Theorems about the branch search, for any arguments, ranks and failures *)
(* and any interleaving of its waves with kills: what is recorded is what  *)
(* the worlds went through, reseeds never collide, the beam is never lost. *)
(***************************************************************************)
EXTENDS BranchSearch, FiniteSetTheorems, SequenceTheorems, NaturalsInduction,
        WellFoundedInduction, TLAPS

Running == phase \in {"wave", "rank"}
Ended   == phase \in {"down", "finished"}

-----------------------------------------------------------------------------
(* Numbers, sets and recursion.                                            *)

LEMMA ConstantsAreTyped ==
  /\ Replicas \in Nat \ {0} /\ Generations \in Nat \ {0} /\ Children \in Nat \ {0}
  /\ Concurrency \in Nat \ {0} /\ KeepTop \in Nat /\ KeepTop >= 2 /\ MaxResumes \in Nat
  /\ Ranks \in [0..(Generations - 1) -> SUBSET Int] /\ None \notin Id
BY ArgumentAssumption DEF Id

(* A set of naturals that is not empty has a smallest one.                 *)
LEMMA Smallest ==
  ASSUME NEW S \in SUBSET Nat, S # {}
  PROVE  \E m \in S : \A x \in S : m <= x
<1>1. PICK m \in S : \A y \in S : <<y, m>> \notin OpToRel(<, Nat)
  BY NatLessThanWellFounded, WFMin
<1>2. \A y \in S : ~(y < m)
  <2> SUFFICES ASSUME NEW y \in S, y < m
               PROVE  <<y, m>> \in OpToRel(<, Nat)
    BY <1>1
  <2>1. <<y, m>> \in Nat \X Nat /\ <<y, m>>[1] < <<y, m>>[2]
    OBVIOUS
  <2> QED BY <2>1 DEF OpToRel
<1> QED BY <1>2

(* One that is bounded has a largest one.                                  *)
LEMMA MaxIs ==
  ASSUME NEW S \in SUBSET Nat, S # {}, NEW b \in Nat, \A x \in S : x <= b
  PROVE  Max(S) \in S /\ \A x \in S : x <= Max(S)
<1> DEFINE T == {n \in Nat : \A x \in S : x <= n}
<1>1. T \in SUBSET Nat /\ T # {}
  OBVIOUS
<1>2. PICK m \in T : \A n \in T : m <= n
  <2> HIDE DEF T
  <2> QED BY <1>1, Smallest
<1>3. m \in S
  <2> SUFFICES ASSUME m \notin S PROVE FALSE
    OBVIOUS
  <2>1. PICK x \in S : TRUE
    OBVIOUS
  <2>2. x < m
    BY <1>2, <2>1
  <2>3. m - 1 \in T
    BY <1>2, <2>2
  <2> QED BY <1>2, <2>3
<1>4. \E x \in S : \A y \in S : x >= y
  BY <1>2, <1>3
<1> HIDE DEF T
<1>5. Max(S) \in S /\ \A y \in S : Max(S) >= y
  BY <1>4 DEF Max
<1> QED BY <1>5

(* A set that holds 0, and n if it holds n - 1, holds every number to N.   *)
LEMMA UpTo ==
  ASSUME NEW N \in Nat, NEW S, 0 \in S, \A n \in 1..N : n - 1 \in S => n \in S
  PROVE  \A n \in 0..N : n \in S
<1> DEFINE Bad == {n \in 0..N : n \notin S}
<1>1. CASE Bad # {}
  <2>1. PICK m \in Bad : \A x \in Bad : m <= x
    <3>1. Bad \in SUBSET Nat
      OBVIOUS
    <3> HIDE DEF Bad
    <3> QED BY <1>1, <3>1, Smallest
  <2>2. m \in 1..N /\ m - 1 \in 0..N /\ m - 1 \notin Bad
    BY <2>1
  <2> QED BY <2>1, <2>2
<1> QED BY <1>1

LEMMA TwoOrMore ==
  ASSUME NEW S, IsFiniteSet(S)
  PROVE  Cardinality(S) >= 2 <=> \E x, y \in S : x # y
<1>1. Cardinality(S) \in Nat
  BY FS_CardinalityType
<1>2. ASSUME NEW x \in S, NEW y \in S, x # y
      PROVE  Cardinality(S) >= 2
  <2>1. IsFiniteSet({x}) /\ Cardinality({x}) = 1
    BY FS_Singleton
  <2>2. IsFiniteSet({x} \cup {y}) /\ Cardinality({x} \cup {y}) = 2
    BY <1>2, <2>1, FS_AddElement
  <2>3. {x} \cup {y} \in SUBSET S
    OBVIOUS
  <2> QED BY <2>2, <2>3, <1>1, FS_Subset
<1>3. ASSUME Cardinality(S) >= 2
      PROVE  \E x, y \in S : x # y
  <2>1. S # {}
    BY <1>3, FS_EmptySet
  <2>2. PICK x \in S : TRUE
    BY <2>1
  <2>3. S # {x}
    BY <1>3, FS_Singleton
  <2> QED BY <2>2, <2>3
<1> QED BY <1>2, <1>3

-----------------------------------------------------------------------------
(* Ranking.  ahead[x] are the elements of S that come before x; the order  *)
(* is strict and total.                                                    *)

Orders(S, ahead) ==
  /\ ahead \in [S -> SUBSET S]
  /\ \A x \in S : x \notin ahead[x]
  /\ \A x, y \in S : x # y => x \in ahead[y] \/ y \in ahead[x]
  /\ \A x, y, z \in S : x \in ahead[y] /\ y \in ahead[z] => x \in ahead[z]

LEMMA AheadIsSmaller ==
  ASSUME NEW S, IsFiniteSet(S), NEW ahead, Orders(S, ahead), NEW x \in S, NEW y \in S
  PROVE  /\ Cardinality(ahead[x]) \in 0..(Cardinality(S) - 1)
         /\ x \in ahead[y] <=> Cardinality(ahead[x]) < Cardinality(ahead[y])
<1> DEFINE r(z) == Cardinality(ahead[z])
<1>1. ASSUME NEW z \in S
      PROVE  /\ IsFiniteSet(ahead[z]) /\ r(z) \in 0..(Cardinality(S) - 1)
             /\ IsFiniteSet(ahead[z] \cup {z}) /\ Cardinality(ahead[z] \cup {z}) = r(z) + 1
  <2>1. ahead[z] \in SUBSET S /\ z \notin ahead[z]
    BY DEF Orders
  <2>2. IsFiniteSet(ahead[z]) /\ r(z) \in Nat
    BY <2>1, FS_Subset, FS_CardinalityType
  <2>3. IsFiniteSet(ahead[z] \cup {z}) /\ Cardinality(ahead[z] \cup {z}) = r(z) + 1
    BY <2>1, <2>2, FS_AddElement
  <2>4. ahead[z] \cup {z} \in SUBSET S
    BY <2>1
  <2>5. Cardinality(ahead[z] \cup {z}) <= Cardinality(S) /\ Cardinality(S) \in Nat
    BY <2>4, FS_Subset, FS_CardinalityType
  <2> QED BY <2>2, <2>3, <2>5
<1>2. ASSUME NEW u \in S, NEW v \in S, u \in ahead[v]
      PROVE  r(u) < r(v)
  <2>1. ahead[u] \cup {u} \in SUBSET ahead[v]
    BY <1>2 DEF Orders
  <2>2. Cardinality(ahead[u] \cup {u}) <= r(v)
    BY <1>1, <2>1, FS_Subset
  <2>3. /\ Cardinality(ahead[u] \cup {u}) = r(u) + 1
        /\ r(u) \in 0..(Cardinality(S) - 1) /\ r(v) \in 0..(Cardinality(S) - 1)
    BY <1>1
  <2> HIDE DEF r
  <2> QED BY <2>2, <2>3
<1>3. x \in ahead[y] => r(x) < r(y)
  BY <1>2
<1>4. y \in ahead[x] => r(y) < r(x)
  BY <1>2
<1>5. x = y \/ x \in ahead[y] \/ y \in ahead[x]
  BY DEF Orders
<1>6. r(x) \in 0..(Cardinality(S) - 1) /\ r(x) \in Int /\ r(y) \in Int
  <2>1. r(x) \in 0..(Cardinality(S) - 1) /\ r(y) \in 0..(Cardinality(S) - 1)
    BY <1>1
  <2> HIDE DEF r
  <2> QED BY <2>1
<1>7. x = y => r(x) = r(y) /\ x \notin ahead[y]
  BY DEF Orders
<1> HIDE DEF r
<1>8. x \in ahead[y] <=> r(x) < r(y)
  BY <1>3, <1>4, <1>5, <1>6, <1>7
<1> QED BY <1>6, <1>8 DEF r

(* So each place is taken by one element.                                  *)
LEMMA EachHasAPlace ==
  ASSUME NEW S, IsFiniteSet(S), NEW ahead, Orders(S, ahead)
  PROVE  /\ \A x, y \in S : Cardinality(ahead[x]) = Cardinality(ahead[y]) => x = y
         /\ \A k \in 1..Cardinality(S) : \E x \in S : Cardinality(ahead[x]) = k - 1
<1> DEFINE n == Cardinality(S)
           f == [x \in S |-> Cardinality(ahead[x])]
<1>1. n \in Nat
  BY FS_CardinalityType
<1>2. f \in [S -> 0..(n - 1)]
  BY AheadIsSmaller
<1>3. \A x, y \in S : f[x] = f[y] => x = y
  <2> SUFFICES ASSUME NEW x \in S, NEW y \in S, f[x] = f[y], x # y PROVE FALSE
    OBVIOUS
  <2>1. x \in ahead[y] \/ y \in ahead[x]
    BY DEF Orders
  <2>2. f[x] \in Int /\ f[y] \in Int
    BY <1>1, <1>2
  <2> QED BY <2>1, <2>2, AheadIsSmaller
<1>4. IsFiniteSet(0..(n - 1)) /\ Cardinality(0..(n - 1)) = n
  BY <1>1, FS_Interval
<1> HIDE DEF n
<1>5. f \in Injection(S, 0..(n - 1))
  <2> HIDE DEF f
  <2> QED BY <1>2, <1>3 DEF Injection, IsInjective
<1>6. f \in Surjection(S, 0..(n - 1))
  <2> HIDE DEF f
  <2> QED BY <1>4, <1>5, FS_Injection DEF n
<1>7. \A k \in 1..n : \E x \in S : f[x] = k - 1
  <2> SUFFICES ASSUME NEW k \in 1..n PROVE \E x \in S : f[x] = k - 1
    OBVIOUS
  <2>1. k - 1 \in 0..(n - 1)
    BY <1>1
  <2> HIDE DEF f
  <2> QED BY <1>6, <2>1 DEF Surjection
<1> QED BY <1>3, <1>7 DEF n
-----------------------------------------------------------------------------
(* Sorting and keeping the best.                                           *)

Schedule == Seq(Nat \ {0})
Scored   == [id : Id, rank : Int, schedule : Schedule]

(* A list of scored nodes, some of which may be left out.                  *)
IsList(s) == /\ IsFiniteSet(DOMAIN s) /\ DOMAIN s \subseteq Nat
             /\ s \in [DOMAIN s -> Scored]

OneEach(s) == \A j, k \in DOMAIN s : s[j].id = s[k].id \/ s[j].schedule = s[k].schedule => j = k

AheadOf(s, i) == {j \in DOMAIN s : Before(s[j], s[i]) \/ (~Before(s[i], s[j]) /\ j < i)}

LEMMA ScoredIsTyped ==
  ASSUME NEW a \in Scored
  PROVE  a.id \in Id /\ a.rank \in Int /\ a.schedule \in Schedule /\ a.id[1] \in Nat /\ a.id[2] \in Nat
BY DEF Scored, Id

LEMMA BeforeOrders ==
  ASSUME NEW a \in Scored, NEW b \in Scored, NEW c \in Scored
  PROVE  /\ ~Before(a, a)
         /\ Before(a, b) => ~Before(b, a)
         /\ Before(a, b) /\ Before(b, c) => Before(a, c)
         /\ ~Before(a, b) /\ ~Before(b, c) => ~Before(a, c)
         /\ ~Before(a, b) /\ ~Before(b, a) => a.rank = b.rank /\ a.id[2] = b.id[2]
<1>1. /\ a.rank \in Int /\ b.rank \in Int /\ c.rank \in Int
      /\ a.id[2] \in Nat /\ b.id[2] \in Nat /\ c.id[2] \in Nat
  BY ScoredIsTyped
<1> QED BY <1>1 DEF Before

LEMMA SortOrders ==
  ASSUME NEW s, IsList(s)
  PROVE  Orders(DOMAIN s, [i \in DOMAIN s |-> AheadOf(s, i)])
<1> DEFINE B(i, j) == Before(s[i], s[j])
           A(i, j) == B(i, j) \/ (~B(j, i) /\ i < j)
<1>1. \A i, j, k \in DOMAIN s :
        /\ ~B(i, i) /\ (B(i, j) => ~B(j, i)) /\ (B(i, j) /\ B(j, k) => B(i, k))
        /\ ~B(i, j) /\ ~B(j, k) => ~B(i, k)
  <2> SUFFICES ASSUME NEW i \in DOMAIN s, NEW j \in DOMAIN s, NEW k \in DOMAIN s
               PROVE  /\ ~B(i, i) /\ (B(i, j) => ~B(j, i)) /\ (B(i, j) /\ B(j, k) => B(i, k))
                      /\ ~B(i, j) /\ ~B(j, k) => ~B(i, k)
    OBVIOUS
  <2>1. s[i] \in Scored /\ s[j] \in Scored /\ s[k] \in Scored
    BY DEF IsList
  <2> QED BY <2>1, BeforeOrders
<1>2. \A i \in DOMAIN s : i \in Nat
  BY DEF IsList
<1> HIDE DEF B
<1>3. \A i, j \in DOMAIN s : ~A(i, i) /\ (i # j => A(i, j) \/ A(j, i))
  BY <1>1, <1>2
<1>4. \A i, j, k \in DOMAIN s : A(i, j) /\ A(j, k) => A(i, k)
  <2> SUFFICES ASSUME NEW i \in DOMAIN s, NEW j \in DOMAIN s, NEW k \in DOMAIN s, A(i, j), A(j, k)
               PROVE  A(i, k)
    OBVIOUS
  <2>1. ~B(j, i) /\ ~B(k, j)
    BY <1>1
  <2>2. ~B(k, i)
    BY <1>1, <2>1
  <2>3. CASE B(i, j) \/ B(j, k)
    <3>1. B(i, k) \/ i < k
      BY <1>1, <1>2, <2>1, <2>3
    <3> QED BY <2>2, <3>1
  <2>4. CASE ~B(i, j) /\ ~B(j, k)
    BY <1>2, <2>2, <2>4
  <2> QED BY <2>3, <2>4
<1>5. \A i, j \in DOMAIN s : i \in AheadOf(s, j) <=> A(i, j)
  BY DEF AheadOf, B
<1>6. \A j \in DOMAIN s : AheadOf(s, j) \subseteq DOMAIN s
  BY DEF AheadOf
<1> HIDE DEF A
<1> QED BY <1>3, <1>4, <1>5, <1>6 DEF Orders

(* Sorting permutes a list; the k-th has k - 1 ahead of it.                *)
LEMMA SortedIs ==
  ASSUME NEW s, IsList(s)
  PROVE  /\ Cardinality(DOMAIN s) \in Nat
         /\ \E p \in [1..Cardinality(DOMAIN s) -> DOMAIN s] :
              /\ Sorted(s) = [k \in 1..Cardinality(DOMAIN s) |-> s[p[k]]]
              /\ \A k \in 1..Cardinality(DOMAIN s) : Cardinality(AheadOf(s, p[k])) = k - 1
              /\ \A i \in DOMAIN s : \E k \in 1..Cardinality(DOMAIN s) : p[k] = i
<1> DEFINE n == Cardinality(DOMAIN s)
           D == DOMAIN s
           c(i) == Cardinality(AheadOf(s, i))
           p == [k \in 1..n |-> CHOOSE i \in D : c(i) = k - 1]
           ahead == [i \in D |-> AheadOf(s, i)]
<1>1. n \in Nat /\ IsFiniteSet(D)
  BY FS_CardinalityType DEF IsList
<1>2. Orders(D, ahead)
  BY SortOrders
<1>3. \A i \in D : Cardinality(ahead[i]) = c(i)
  OBVIOUS
<1> HIDE DEF ahead
<1>4. \A i, j \in D : c(i) = c(j) => i = j
  <2> HIDE DEF D, c
  <2> QED BY <1>1, <1>2, <1>3, EachHasAPlace
<1>5. \A k \in 1..n : \E i \in D : c(i) = k - 1
  <2>1. \A k \in 1..n : \E i \in D : Cardinality(ahead[i]) = k - 1
    BY <1>1, <1>2, EachHasAPlace
  <2> HIDE DEF D, c
  <2> QED BY <1>3, <2>1
<1>6. \A i \in D : c(i) + 1 \in 1..n
  <2> SUFFICES ASSUME NEW i \in D PROVE c(i) + 1 \in 1..n
    OBVIOUS
  <2>1. Cardinality(ahead[i]) \in 0..(n - 1)
    BY <1>1, <1>2, AheadIsSmaller
  <2>2. c(i) \in 0..(n - 1)
    BY <1>3, <2>1
  <2> HIDE DEF n, c
  <2> QED BY <1>1, <2>2
<1> HIDE DEF c, n
<1>7. p \in [1..n -> D] /\ \A k \in 1..n : c(p[k]) = k - 1
  BY <1>5
<1>8. \A i \in D : \E k \in 1..n : p[k] = i
  <2> SUFFICES ASSUME NEW i \in D PROVE \E k \in 1..n : p[k] = i
    OBVIOUS
  <2>1. PICK k \in 1..n : k = c(i) + 1
    BY <1>6
  <2>2. c(i) \in Int
    BY <1>2, <1>3, <1>1, AheadIsSmaller
  <2>3. p[k] \in D /\ c(p[k]) = k - 1
    BY <1>7
  <2>4. k - 1 = c(i)
    BY <2>1, <2>2
  <2> QED BY <1>4, <2>3, <2>4
<1>9. Sorted(s) = [k \in 1..n |-> s[p[k]]]
  BY DEF Sorted, c, n, AheadOf
<1> HIDE DEF p
<1> QED BY <1>1, <1>7, <1>8, <1>9 DEF n, c

LEMMA SortedIsTyped ==
  ASSUME NEW s, IsList(s)
  PROVE  /\ Sorted(s) \in Seq(Scored) /\ Len(Sorted(s)) = Cardinality(DOMAIN s)
         /\ Cardinality(DOMAIN s) \in Nat
         /\ \A k \in DOMAIN Sorted(s) : \E i \in DOMAIN s : Sorted(s)[k] = s[i]
         /\ \A i \in DOMAIN s : \E k \in DOMAIN Sorted(s) : Sorted(s)[k] = s[i]
<1> DEFINE n == Cardinality(DOMAIN s)
<1>1. n \in Nat
  BY SortedIs
<1>2. PICK p \in [1..n -> DOMAIN s] :
        /\ Sorted(s) = [k \in 1..n |-> s[p[k]]]
        /\ \A i \in DOMAIN s : \E k \in 1..n : p[k] = i
  BY SortedIs
<1>3. \A k \in 1..n : s[p[k]] \in Scored
  BY DEF IsList
<1> HIDE DEF n
<1>4. Sorted(s) \in Seq(Scored) /\ Len(Sorted(s)) = n /\ DOMAIN Sorted(s) = 1..n
  BY <1>1, <1>2, <1>3
<1> QED BY <1>1, <1>2, <1>4 DEF n

LEMMA SortedOneEach ==
  ASSUME NEW s, IsList(s), OneEach(s)
  PROVE  OneEach(Sorted(s))
<1> DEFINE n == Cardinality(DOMAIN s)
<1>1. PICK p \in [1..n -> DOMAIN s] :
        /\ Sorted(s) = [k \in 1..n |-> s[p[k]]]
        /\ \A k \in 1..n : Cardinality(AheadOf(s, p[k])) = k - 1
  BY SortedIs
<1>2. n \in Nat
  BY SortedIs
<1> HIDE DEF n
<1>3. SUFFICES ASSUME NEW j \in 1..n, NEW k \in 1..n,
                      s[p[j]].id = s[p[k]].id \/ s[p[j]].schedule = s[p[k]].schedule
               PROVE  j = k
  BY <1>1 DEF OneEach
<1>4. p[j] = p[k]
  BY <1>3 DEF OneEach
<1>5. j - 1 = k - 1
  BY <1>1, <1>4
<1> QED BY <1>2, <1>5

LEMMA KeptIs ==
  ASSUME NEW s \in Seq(Scored)
  PROVE  /\ Kept(s) \in Seq(Scored) /\ Len(Kept(s)) = IF Len(s) < KeepTop THEN Len(s) ELSE KeepTop
         /\ Len(Kept(s)) <= Len(s) /\ Len(Kept(s)) <= KeepTop
         /\ \A k \in 1..Len(Kept(s)) : k \in DOMAIN s /\ Kept(s)[k] = s[k]
         /\ Len(s) >= 2 => Len(Kept(s)) >= 2
         /\ \A id : id \in Ids(Pruned(s)) <=> \E k \in DOMAIN s : k > KeepTop /\ s[k].id = id
<1> DEFINE m == IF Len(s) < KeepTop THEN Len(s) ELSE KeepTop
<1>1. KeepTop \in Nat /\ KeepTop >= 2 /\ Len(s) \in Nat
  BY ConstantsAreTyped
<1>2. m \in Nat /\ m <= Len(s) /\ m <= KeepTop /\ (Len(s) >= 2 => m >= 2)
  BY <1>1
<1>3. Kept(s) = SubSeq(s, 1, m)
  BY DEF Kept
<1>4. \A k \in DOMAIN s : s[k] \in Scored
  OBVIOUS
<1> HIDE DEF m
<1>5. Kept(s) \in Seq(Scored) /\ Len(Kept(s)) = m /\ \A k \in 1..m : k \in DOMAIN s /\ Kept(s)[k] = s[k]
  BY <1>1, <1>2, <1>3, <1>4
<1>6. /\ DOMAIN Pruned(s) = 1..(Len(s) - KeepTop)
      /\ \A k \in 1..(Len(s) - KeepTop) : Pruned(s)[k] = s[k + KeepTop]
  BY <1>1 DEF Pruned
<1>7. ASSUME NEW id
      PROVE  id \in Ids(Pruned(s)) <=> \E k \in DOMAIN s : k > KeepTop /\ s[k].id = id
  <2>1. ASSUME id \in Ids(Pruned(s)) PROVE \E k \in DOMAIN s : k > KeepTop /\ s[k].id = id
    <3>1. PICK k \in DOMAIN Pruned(s) : Pruned(s)[k].id = id
      BY <2>1 DEF Ids
    <3>2. k + KeepTop \in DOMAIN s /\ k + KeepTop > KeepTop /\ s[k + KeepTop].id = id
      BY <1>1, <1>6, <3>1
    <3> QED BY <3>2
  <2>2. ASSUME NEW k \in DOMAIN s, k > KeepTop, s[k].id = id PROVE id \in Ids(Pruned(s))
    <3>1. k - KeepTop \in 1..(Len(s) - KeepTop) /\ k - KeepTop + KeepTop = k
      BY <1>1, <2>2
    <3>2. Pruned(s)[k - KeepTop].id = id
      BY <1>6, <2>2, <3>1
    <3> QED BY <1>6, <3>1, <3>2 DEF Ids
  <2> QED BY <2>1, <2>2
<1> QED BY <1>2, <1>5, <1>7 DEF m

LEMMA KeptIdsAre ==
  ASSUME NEW s \in Seq(Scored)
  PROVE  /\ Ids(Kept(s)) = {s[k].id : k \in 1..Len(Kept(s))}
         /\ OneEach(s) => OneEach(Kept(s)) /\ Ids(Kept(s)) \cap Ids(Pruned(s)) = {}
<1>1. /\ Kept(s) \in Seq(Scored) /\ Len(Kept(s)) <= KeepTop
      /\ \A k \in 1..Len(Kept(s)) : k \in DOMAIN s /\ Kept(s)[k] = s[k]
  BY KeptIs
<1>2. DOMAIN Kept(s) = 1..Len(Kept(s)) /\ Len(Kept(s)) \in Nat /\ KeepTop \in Nat
  BY <1>1, ConstantsAreTyped
<1>3. Ids(Kept(s)) = {s[k].id : k \in 1..Len(Kept(s))}
  BY <1>1, <1>2 DEF Ids
<1>4. OneEach(s) => OneEach(Kept(s))
  BY <1>1, <1>2 DEF OneEach
<1>5. ASSUME OneEach(s), NEW id \in Ids(Kept(s)), id \in Ids(Pruned(s)) PROVE FALSE
  <2>1. PICK k \in 1..Len(Kept(s)) : s[k].id = id
    BY <1>3
  <2>2. PICK j \in DOMAIN s : j > KeepTop /\ s[j].id = id
    BY <1>5, KeptIs
  <2>3. j = k
    BY <1>1, <1>5, <2>1, <2>2 DEF OneEach
  <2> QED BY <1>1, <1>2, <2>2, <2>3
<1> QED BY <1>3, <1>4, <1>5

LEMMA SameCount ==
  ASSUME NEW S, NEW T, IsFiniteSet(S), NEW f \in [S -> T],
         \A x, y \in S : f[x] = f[y] => x = y, \A y \in T : \E x \in S : f[x] = y
  PROVE  IsFiniteSet(T) /\ Cardinality(T) = Cardinality(S)
<1>1. f \in Bijection(S, T)
  BY DEF Bijection, Injection, Surjection, IsInjective
<1>2. ExistsBijection(S, T)
  BY <1>1 DEF ExistsBijection
<1> QED BY <1>2, FS_Bijection

(* A list with different keys is sorted by what it holds, wherever it      *)
(* holds it.                                                               *)
Keyed(s)    == \A j, k \in DOMAIN s : s[j].id[2] = s[k].id[2] => j = k
AheadIn(S)  == [x \in S |-> {y \in S : Before(y, x)}]

LEMMA SortedByPlace ==
  ASSUME NEW s, IsList(s), Keyed(s)
  PROVE  /\ IsFiniteSet(Range(s)) /\ Cardinality(Range(s)) = Cardinality(DOMAIN s)
         /\ Orders(Range(s), AheadIn(Range(s)))
         /\ \A k \in DOMAIN Sorted(s) : /\ Sorted(s)[k] \in Range(s)
                                        /\ Cardinality(AheadIn(Range(s))[Sorted(s)[k]]) = k - 1
         /\ \A x \in Range(s) : \E k \in DOMAIN Sorted(s) : Sorted(s)[k] = x
<1> DEFINE S == Range(s)
           n == Cardinality(DOMAIN s)
<1>1. IsFiniteSet(DOMAIN s) /\ \A i \in DOMAIN s : s[i] \in Scored
  BY DEF IsList
<1>2. \A j, k \in DOMAIN s : s[j] = s[k] => j = k
  BY DEF Keyed
<1>3. s \in [DOMAIN s -> S] /\ \A y \in S : \E x \in DOMAIN s : s[x] = y
  BY DEF Range, IsList
<1>4. IsFiniteSet(S) /\ Cardinality(S) = n
  <2> HIDE DEF S
  <2> QED BY <1>1, <1>2, <1>3, SameCount
<1>5. \A x \in S : x \in Scored
  BY <1>1 DEF Range
<1>6. ASSUME NEW x \in S, NEW y \in S, x # y
      PROVE  Before(x, y) \/ Before(y, x)
  <2>1. PICK i \in DOMAIN s, j \in DOMAIN s : x = s[i] /\ y = s[j]
    BY <1>3
  <2>2. x.id[2] # y.id[2]
    BY <1>6, <2>1 DEF Keyed
  <2> QED BY <1>5, <2>2, BeforeOrders
<1>7. Orders(S, AheadIn(S))
  <2>1. /\ AheadIn(S) \in [S -> SUBSET S]
        /\ \A x, y \in S : x \in AheadIn(S)[y] <=> Before(x, y)
    BY DEF AheadIn
  <2>2. \A x, y, z \in S : ~Before(x, x) /\ (Before(x, y) /\ Before(y, z) => Before(x, z))
    BY <1>5, BeforeOrders
  <2> HIDE DEF S
  <2> QED BY <1>6, <2>1, <2>2 DEF Orders
<1>8. ASSUME NEW i \in DOMAIN s
      PROVE  Cardinality(AheadIn(S)[s[i]]) = Cardinality(AheadOf(s, i))
  <2> DEFINE A == AheadOf(s, i)
             B == {y \in S : Before(y, s[i])}
             f == [j \in A |-> s[j]]
  <2>1. \A j \in DOMAIN s : j \in A <=> Before(s[j], s[i])
    <3> SUFFICES ASSUME NEW j \in DOMAIN s, ~Before(s[i], s[j]), j < i
                 PROVE  Before(s[j], s[i])
      BY DEF AheadOf
    <3>1. s[j] # s[i]
      BY <1>2, <1>1 DEF IsList
    <3>2. s[j] \in S /\ s[i] \in S
      BY <1>3
    <3> QED BY <1>6, <3>1, <3>2
  <2>2. A \in SUBSET DOMAIN s
    BY DEF AheadOf
  <2>3. IsFiniteSet(A)
    BY <1>1, <2>2, FS_Subset
  <2>4. f \in [A -> B] /\ \A x, y \in A : f[x] = f[y] => x = y
    <3> HIDE DEF A
    <3>1. \A j \in A : s[j] \in B
      BY <2>1, <2>2, <1>3
    <3> HIDE DEF B
    <3> QED BY <1>2, <2>2, <3>1
  <2>5. \A y \in B : \E x \in A : f[x] = y
    <3> SUFFICES ASSUME NEW y \in S, Before(y, s[i]) PROVE \E x \in A : f[x] = y
      OBVIOUS
    <3>1. PICK j \in DOMAIN s : s[j] = y
      BY <1>3
    <3>2. j \in A
      BY <2>1, <3>1
    <3> HIDE DEF A
    <3> QED BY <3>1, <3>2
  <2>6. Cardinality(B) = Cardinality(A)
    <3> HIDE DEF A, B, f
    <3> QED BY <2>3, <2>4, <2>5, SameCount
  <2>7. AheadIn(S)[s[i]] = B
    <3>1. s[i] \in S
      BY <1>3
    <3> HIDE DEF S
    <3> QED BY <3>1 DEF AheadIn
  <2> QED BY <2>6, <2>7
<1>9. PICK p \in [1..n -> DOMAIN s] :
        /\ Sorted(s) = [k \in 1..n |-> s[p[k]]]
        /\ \A k \in 1..n : Cardinality(AheadOf(s, p[k])) = k - 1
        /\ \A i \in DOMAIN s : \E k \in 1..n : p[k] = i
  BY SortedIs
<1>10. DOMAIN Sorted(s) = 1..n /\ \A k \in 1..n : Sorted(s)[k] = s[p[k]] /\ p[k] \in DOMAIN s
  BY <1>9
<1>11. \A k \in 1..n : Sorted(s)[k] \in S /\ Cardinality(AheadIn(S)[Sorted(s)[k]]) = k - 1
  <2> HIDE DEF S, n
  <2> QED BY <1>3, <1>8, <1>9, <1>10
<1>12. \A x \in S : \E k \in 1..n : Sorted(s)[k] = x
  <2> HIDE DEF S, n
  <2> QED BY <1>3, <1>9, <1>10
<1> QED BY <1>4, <1>7, <1>10, <1>11, <1>12

(* What is left out below the best is not missed.                          *)
LEMMA KeptSame ==
  ASSUME NEW s, IsList(s), Keyed(s), NEW t, IsList(t), Keyed(t),
         Range(t) \subseteq Range(s), Range(Kept(Sorted(s))) \subseteq Range(t)
  PROVE  Kept(Sorted(t)) = Kept(Sorted(s))
<1> DEFINE S == Range(s)
           T == Range(t)
           a == Sorted(s)
           b == Sorted(t)
           K == IF Len(a) < KeepTop THEN Len(a) ELSE KeepTop
           pa(x) == Cardinality(AheadIn(S)[x])
           pb(x) == Cardinality(AheadIn(T)[x])
<1>1. /\ a \in Seq(Scored) /\ Len(a) \in Nat /\ DOMAIN a = 1..Len(a)
      /\ b \in Seq(Scored) /\ Len(b) \in Nat /\ DOMAIN b = 1..Len(b)
      /\ Cardinality(S) = Len(a) /\ Cardinality(T) = Len(b)
  <2>1. /\ a \in Seq(Scored) /\ Len(a) = Cardinality(DOMAIN s)
        /\ b \in Seq(Scored) /\ Len(b) = Cardinality(DOMAIN t)
    BY SortedIsTyped
  <2>2. Cardinality(S) = Cardinality(DOMAIN s) /\ Cardinality(T) = Cardinality(DOMAIN t)
    BY SortedByPlace
  <2> HIDE DEF a, b
  <2> QED BY <2>1, <2>2
<1>2. /\ IsFiniteSet(S) /\ Orders(S, AheadIn(S))
      /\ \A k \in DOMAIN a : a[k] \in S /\ pa(a[k]) = k - 1
      /\ \A x \in S : \E k \in DOMAIN a : a[k] = x
  BY SortedByPlace
<1>3. /\ IsFiniteSet(T) /\ Orders(T, AheadIn(T))
      /\ \A k \in DOMAIN b : b[k] \in T /\ pb(b[k]) = k - 1
      /\ \A x \in T : \E k \in DOMAIN b : b[k] = x
  BY SortedByPlace
<1>1a. Len(a) \in Nat /\ Len(b) \in Nat
  BY <1>1
<1>1c. DOMAIN a = 1..Len(a)
  BY <1>1
<1>1b. Cardinality(T) = Len(b)
  BY <1>1
<1>4. /\ K \in Nat /\ K <= Len(a) /\ KeepTop \in Nat
      /\ Len(a) <= KeepTop => K = Len(a)
      /\ Len(a) >= KeepTop => K = KeepTop
  <2>1. KeepTop \in Nat
    BY ConstantsAreTyped
  <2> HIDE DEF a
  <2> QED BY <1>1a, <2>1
<1>5. Len(Kept(a)) = K /\ Kept(a) \in Seq(Scored) /\ \A k \in 1..K : Kept(a)[k] = a[k]
  <2> HIDE DEF a
  <2> QED BY <1>1, KeptIs
<1>6. \A k \in 1..K : k \in DOMAIN a /\ a[k] \in T
  <2>1. \A k \in 1..K : Kept(a)[k] \in Range(Kept(a))
    <3> HIDE DEF K, a
    <3> QED BY <1>4, <1>5 DEF Range
  <2>2. 1..K \subseteq DOMAIN a
    <3>1. K <= Len(a) /\ K \in Nat
      BY <1>4
    <3> HIDE DEF K, a
    <3> QED BY <1>1a, <1>1c, <3>1
  <2> HIDE DEF K
  <2> QED BY <1>5, <2>1, <2>2
<1>7. T \in SUBSET S
  OBVIOUS
<1>8. ASSUME NEW k \in 1..K
      PROVE  pb(a[k]) = k - 1
  <2>1. a[k] \in T /\ a[k] \in S /\ k \in DOMAIN a
    BY <1>6, <1>7
  <2>2. \A y \in S : y \in AheadIn(S)[a[k]] => y \in T
    <3> SUFFICES ASSUME NEW y \in S, y \in AheadIn(S)[a[k]] PROVE y \in T
      OBVIOUS
    <3>1. PICK j \in DOMAIN a : a[j] = y
      BY <1>2
    <3>2. pa(y) < pa(a[k])
      <4> HIDE DEF S, a
      <4> QED BY <1>2, <2>1, AheadIsSmaller
    <3>3. pa(y) = j - 1 /\ pa(a[k]) = k - 1
      BY <1>2, <2>1, <3>1
    <3>4. j \in 1..K
      <4>1. j \in 1..Len(a) /\ K \in Nat
        BY <1>1c, <1>4
      <4> HIDE DEF K, a, pa
      <4> QED BY <1>1a, <3>2, <3>3, <4>1
    <3> QED BY <1>6, <3>1, <3>4
  <2>3. AheadIn(T)[a[k]] = AheadIn(S)[a[k]]
    <3> HIDE DEF S, T, a
    <3> QED BY <1>7, <2>1, <2>2 DEF AheadIn
  <2> QED BY <1>2, <2>1, <2>3
<1>9. Len(b) <= Len(a) /\ (Len(a) <= KeepTop => Len(b) = Len(a)) /\ K <= Len(b)
  <2>1. Cardinality(T) <= Cardinality(S)
    <3> HIDE DEF S, T
    <3> QED BY <1>2, <1>7, FS_Subset
  <2>2. K <= Len(b)
    <3>1. CASE K = 0
      <4> HIDE DEF K, b
      <4> QED BY <1>1, <3>1
    <3>2. CASE K # 0
      <4>1. K \in 1..K
        <5> HIDE DEF K
        <5> QED BY <1>4, <3>2
      <4>2. pb(a[K]) = K - 1
        BY <1>8, <4>1
      <4>3. a[K] \in T
        BY <1>6, <4>1
      <4>4. pb(a[K]) \in 0..(Cardinality(T) - 1)
        <5> HIDE DEF T, a, K
        <5> QED BY <1>3, <4>3, AheadIsSmaller
      <4>5. K \in Nat
        BY <1>4
      <4> HIDE DEF K, pb, b, T
      <4> QED BY <1>1a, <1>1b, <4>2, <4>4, <4>5 DEF pb
    <3> QED BY <3>1, <3>2
  <2>3. Cardinality(S) = Len(a) /\ Cardinality(T) = Len(b)
    BY <1>1
  <2> HIDE DEF K, a, b, S, T
  <2> QED BY <1>1a, <1>4, <2>1, <2>2, <2>3
<1>10. Len(Kept(b)) = K /\ Kept(b) \in Seq(Scored) /\ \A k \in 1..K : Kept(b)[k] = b[k] /\ k \in DOMAIN b
  <2>1. /\ Len(Kept(b)) = (IF Len(b) < KeepTop THEN Len(b) ELSE KeepTop) /\ Kept(b) \in Seq(Scored)
        /\ \A k \in 1..Len(Kept(b)) : k \in DOMAIN b /\ Kept(b)[k] = b[k]
    <3> HIDE DEF b
    <3> QED BY <1>1, KeptIs
  <2>2. Len(Kept(b)) = K
    <3>1. Len(Kept(b)) = IF Len(b) < KeepTop THEN Len(b) ELSE KeepTop
      BY <2>1
    <3> HIDE DEF K, a, b
    <3> QED BY <1>1a, <1>4, <1>9, <3>1
  <2> HIDE DEF K, b
  <2> QED BY <2>1, <2>2
<1>11. \A k \in 1..K : a[k] = b[k]
  <2> SUFFICES ASSUME NEW k \in 1..K PROVE a[k] = b[k]
    OBVIOUS
  <2>1. a[k] \in T /\ b[k] \in T /\ pb(a[k]) = k - 1 /\ pb(b[k]) = k - 1
    BY <1>3, <1>6, <1>8, <1>10
  <2> HIDE DEF T, a, b, K
  <2> QED BY <1>3, <2>1, EachHasAPlace
<1>12. Kept(b) = Kept(a)
  <2>1. /\ Len(Kept(b)) = K /\ Len(Kept(a)) = K /\ Kept(a) \in Seq(Scored) /\ Kept(b) \in Seq(Scored)
        /\ \A k \in 1..K : Kept(b)[k] = Kept(a)[k]
    BY <1>5, <1>10, <1>11
  <2> HIDE DEF K, a, b
  <2> QED BY <2>1
<1> QED BY <1>12

-----------------------------------------------------------------------------
(* Branching: the functions that recursions over a list are.               *)

StepOn(S, N, G) == G \in [S \X (1..N) -> S]
RunOf(f, S, base, N, G) ==
  /\ f \in [0..N -> S]
  /\ f[0] = base /\ \A n \in 1..N : f[n] = G[<<f[n - 1], n>>]

LEMMA Recursion ==
  ASSUME NEW S, NEW base \in S, NEW N \in Nat, NEW G, StepOn(S, N, G)
  PROVE  \E f : RunOf(f, S, base, N, G)
<1> USE DEF StepOn, RunOf
<1> DEFINE Is(f, m) == f[0] = base /\ \A n \in 1..m : f[n] = G[<<f[n - 1], n>>]
           Good == {m \in 0..N : \E f \in [0..m -> S] : Is(f, m)}
<1>1. 0 \in Good
  <2> DEFINE f == [n \in 0..0 |-> base]
  <2>1. f \in [0..0 -> S] /\ Is(f, 0)
    OBVIOUS
  <2> HIDE DEF f
  <2> QED BY <2>1
<1>2. ASSUME NEW m \in 1..N, m - 1 \in Good
      PROVE  m \in Good
  <2>1. PICK f \in [0..(m - 1) -> S] : Is(f, m - 1)
    BY <1>2
  <2> DEFINE x == G[<<f[m - 1], m>>]
             g == [n \in 0..m |-> IF n = m THEN x ELSE f[n]]
  <2>2. x \in S
    <3>1. f[m - 1] \in S
      OBVIOUS
    <3> QED BY <3>1
  <2>3. g \in [0..m -> S]
    <3> HIDE DEF x
    <3> QED BY <2>2
  <2>4. g[0] = base
    BY <2>1
  <2>5. ASSUME NEW n \in 1..m
        PROVE  g[n] = G[<<g[n - 1], n>>]
    <3>1. CASE n = m
      <4>1. g[n - 1] = f[m - 1] /\ g[n] = x
        BY <3>1
      <4> QED BY <3>1, <4>1
    <3>2. CASE n # m
      <4>1. n \in 1..(m - 1) /\ g[n] = f[n] /\ g[n - 1] = f[n - 1]
        BY <3>2
      <4> QED BY <2>1, <4>1
    <3> QED BY <3>1, <3>2
  <2> HIDE DEF g
  <2> QED BY <2>3, <2>4, <2>5
<1>3. N \in Good
  <2> HIDE DEF Good
  <2> QED BY <1>1, <1>2, UpTo
<1> QED BY <1>3

(* What is spare goes round the kept nodes.                                *)
Spare(keep)    == BeamWidth - Children * Len(keep)
Share(keep, k) == {s \in 0..(Spare(keep) - 1) : s % Len(keep) = k - 1}

LEMMA IdsAreFinite ==
  ASSUME NEW keep \in Seq(Scored)
  PROVE  /\ IsFiniteSet(Ids(keep)) /\ Cardinality(Ids(keep)) \in Nat
         /\ OneEach(keep) => Cardinality(Ids(keep)) = Len(keep)
<1> DEFINE n == Len(keep)
           f == [k \in 1..n |-> keep[k].id]
<1>1. n \in Nat /\ DOMAIN keep = 1..n
  OBVIOUS
<1> HIDE DEF n
<1>2. IsFiniteSet(1..n) /\ Cardinality(1..n) = n
  BY <1>1, FS_Interval
<1>3. f \in Surjection(1..n, Ids(keep))
  BY <1>1 DEF Surjection, Ids
<1>4. IsFiniteSet(Ids(keep))
  <2> HIDE DEF f
  <2> QED BY <1>2, <1>3, FS_Surjection
<1>5. OneEach(keep) => \A j, k \in 1..n : f[j] = f[k] => j = k
  BY <1>1 DEF OneEach
<1>6. f \in [1..n -> Ids(keep)] /\ \A y \in Ids(keep) : \E x \in 1..n : f[x] = y
  BY <1>1 DEF Ids
<1>7. OneEach(keep) => Cardinality(Ids(keep)) = n
  <2> HIDE DEF f
  <2> QED BY <1>2, <1>5, <1>6, SameCount
<1> QED BY <1>4, <1>7, FS_CardinalityType DEF n

LEMMA WidthIs ==
  ASSUME NEW n \in Nat, n <= KeepTop
  PROVE  BeamWidth \in Nat /\ Children * n \in Nat /\ Children * n <= BeamWidth
<1>1. KeepTop \in Nat /\ Children \in Nat /\ Replicas \in Nat
  BY ConstantsAreTyped
<1>2. PICK d \in Nat : KeepTop = n + d
  BY <1>1
<1>3. Children * n \in Nat /\ Children * d \in Nat /\ KeepTop * Children \in Nat
  BY <1>1
<1>4. KeepTop * Children = Children * n + Children * d
  BY <1>1, <1>2
<1>5. BeamWidth \in Nat /\ BeamWidth >= KeepTop * Children
  BY <1>1, <1>3 DEF BeamWidth
<1> QED BY <1>3, <1>4, <1>5

LEMMA ChildCountIs ==
  ASSUME NEW keep \in Seq(Scored), NEW k \in DOMAIN keep
  PROVE  /\ ChildCount(keep)[keep[k].id] \in Nat /\ ChildCount(keep)[keep[k].id] >= 1
         /\ OneEach(keep) =>
              ChildCount(keep)[keep[k].id] = Children + Cardinality(Share(keep, k))
<1> DEFINE spare == BeamWidth - Children * Cardinality(Ids(keep))
           Extra(id) == {s \in 0..(spare - 1) : keep[(s % Len(keep)) + 1].id = id}
           id == keep[k].id
<1>1. Children \in Nat \ {0} /\ BeamWidth \in Nat
  <2>1. 0 \in Nat /\ 0 <= KeepTop
    BY ConstantsAreTyped
  <2> QED BY <2>1, WidthIs, ConstantsAreTyped
<1>2. Cardinality(Ids(keep)) \in Nat /\ (OneEach(keep) => Cardinality(Ids(keep)) = Len(keep))
  BY IdsAreFinite
<1>3. spare \in Int
  <2>1. Children * Cardinality(Ids(keep)) \in Nat
    BY <1>1, <1>2
  <2> QED BY <1>1, <2>1
<1>4. ChildCount(keep)[id] = Children + Cardinality(Extra(id))
  BY DEF ChildCount, Ids
<1>5. IsFiniteSet(Extra(id)) /\ Cardinality(Extra(id)) \in Nat
  <2>1. Extra(id) \in SUBSET (0..(spare - 1))
    OBVIOUS
  <2>2. IsFiniteSet(0..(spare - 1))
    <3> HIDE DEF spare
    <3> QED BY <1>3, FS_Interval
  <2> HIDE DEF Extra, spare
  <2> QED BY <2>1, <2>2, FS_Subset, FS_CardinalityType
<1>6. ASSUME OneEach(keep)
      PROVE  Extra(id) = Share(keep, k)
  <2>1. spare = Spare(keep)
    BY <1>2, <1>6 DEF Spare
  <2>2. Len(keep) \in Nat \ {0} /\ k \in 1..Len(keep) /\ DOMAIN keep = 1..Len(keep)
    OBVIOUS
  <2>3. ASSUME NEW s \in 0..(spare - 1)
        PROVE  keep[(s % Len(keep)) + 1].id = id <=> s % Len(keep) = k - 1
    <3>1. s \in Int
      BY <1>3
    <3>2. s % Len(keep) \in 0..(Len(keep) - 1)
      BY <2>2, <3>1
    <3> DEFINE m == s % Len(keep)
    <3>3. m \in Int /\ m + 1 \in DOMAIN keep
      <4> HIDE DEF m
      <4> QED BY <2>2, <3>2 DEF m
    <3> HIDE DEF m
    <3>4. keep[m + 1].id = id => m + 1 = k
      BY <1>6, <3>3 DEF OneEach
    <3>5. keep[m + 1].id = id <=> m = k - 1
      BY <2>2, <3>3, <3>4
    <3> QED BY <3>5 DEF m
  <2> HIDE DEF spare
  <2> QED BY <2>1, <2>3 DEF Share
<1> HIDE DEF Extra
<1> QED BY <1>1, <1>4, <1>5, <1>6

LEMMA SlotsStep ==
  ASSUME NEW keep \in Seq(Scored)
  PROVE  LET f == Slots(keep)
             row(n) == [c \in 1..ChildCount(keep)[keep[n].id] |-> keep[n]]
         IN  /\ f \in [0..Len(keep) -> Seq(Scored)]
             /\ f[0] = <<>>
             /\ \A n \in 1..Len(keep) : row(n) \in Seq(Scored) /\ f[n] = f[n - 1] \o row(n)
<1> DEFINE N == Len(keep)
           S == Seq(Scored)
           row(n) == [c \in 1..ChildCount(keep)[keep[n].id] |-> keep[n]]
           G == [p \in S \X (1..N) |-> p[1] \o row(p[2])]
<1>1. N \in Nat /\ <<>> \in S
  OBVIOUS
<1>2. ASSUME NEW n \in 1..N PROVE row(n) \in S
  <2>1. n \in DOMAIN keep
    OBVIOUS
  <2>2. ChildCount(keep)[keep[n].id] \in Nat /\ keep[n] \in Scored
    BY <2>1, ChildCountIs
  <2> QED BY <2>2
<1> HIDE DEF row
<1>3. G \in [S \X (1..N) -> S]
  <2>1. \A u \in S, n \in 1..N : u \o row(n) \in S
    BY <1>2
  <2> QED BY <2>1
<1>4. PICK f : RunOf(f, S, <<>>, N, G)
  <2>1. StepOn(S, N, G)
    BY <1>3 DEF StepOn
  <2> HIDE DEF N, G, S
  <2> QED BY <1>1, <2>1, Recursion
<1>5. f \in [0..N -> S] /\ f[0] = <<>> /\ \A n \in 1..N : f[n] = G[<<f[n - 1], n>>]
  BY <1>4 DEF RunOf
<1>6. \A n \in 1..N : f[n] = f[n - 1] \o row(n)
  <2> SUFFICES ASSUME NEW n \in 1..N PROVE f[n] = f[n - 1] \o row(n)
    OBVIOUS
  <2>1. n - 1 \in 0..N
    BY <1>1
  <2>2. f[n - 1] \in S
    <3> HIDE DEF S
    <3> QED BY <1>5, <2>1
  <2>3. G[<<f[n - 1], n>>] = f[n - 1] \o row(n)
    <3> HIDE DEF S
    <3> QED BY <2>2
  <2> HIDE DEF G
  <2> QED BY <1>5, <2>3
<1> DEFINE Rec(h) == h = [n \in 0..N |-> IF n = 0 THEN <<>> ELSE h[n - 1] \o row(n)]
<1>7. Rec(f)
  <2> HIDE DEF G, S, N
  <2>1. \A n \in 0..N : f[n] = IF n = 0 THEN <<>> ELSE f[n - 1] \o row(n)
    BY <1>1, <1>5, <1>6
  <2> QED BY <1>5, <2>1
<1>8. Slots(keep) = CHOOSE h : Rec(h)
  BY DEF Slots, row
<1> DEFINE g == Slots(keep)
<1>9. Rec(g)
  <2> HIDE DEF Rec
  <2> QED BY <1>7, <1>8
<1>10. g = f
  <2> SUFFICES ASSUME TRUE PROVE \A n \in 0..N : g[n] = f[n]
    <3>1. DOMAIN g = 0..N
      BY <1>9
    <3> HIDE DEF g, S, N
    <3> QED BY <1>5, <3>1, <1>9
  <2> DEFINE Same == {n \in 0..N : g[n] = f[n]}
  <2> HIDE DEF g, S, N
  <2>1. 0 \in Same
    BY <1>1, <1>5, <1>9
  <2>2. ASSUME NEW n \in 1..N, n - 1 \in Same
        PROVE  n \in Same
    <3>1. n \in 0..N /\ n # 0 /\ g[n - 1] = f[n - 1]
      BY <1>1, <2>2
    <3>2. g[n] = g[n - 1] \o row(n)
      BY <1>9, <3>1
    <3> QED BY <1>6, <3>1, <3>2
  <2>3. \A n \in 0..N : n \in Same
    <3> HIDE DEF Same
    <3> QED BY <1>1, <2>1, <2>2, UpTo
  <2> QED BY <2>3
<1> HIDE DEF G
<1> QED BY <1>2, <1>5, <1>6, <1>10 DEF row

(* The kept nodes, every one of them, and nothing else have children.      *)
LEMMA SlotsAreKept ==
  ASSUME NEW keep \in Seq(Scored)
  PROVE  \A n \in 0..Len(keep) :
           /\ \A i \in DOMAIN Slots(keep)[n] : \E j \in 1..n : Slots(keep)[n][i] = keep[j]
           /\ \A j \in 1..n : \E i \in DOMAIN Slots(keep)[n] : Slots(keep)[n][i] = keep[j]
<1> DEFINE N == Len(keep)
           f == Slots(keep)
           From(n) == \A i \in DOMAIN f[n] : \E j \in 1..n : f[n][i] = keep[j]
           Onto(n) == \A j \in 1..n : \E i \in DOMAIN f[n] : f[n][i] = keep[j]
           row(n) == [c \in 1..ChildCount(keep)[keep[n].id] |-> keep[n]]
           Good == {n \in 0..N : From(n) /\ Onto(n)}
<1>1. N \in Nat
  OBVIOUS
<1>2. /\ f \in [0..N -> Seq(Scored)] /\ f[0] = <<>>
      /\ \A n \in 1..N : row(n) \in Seq(Scored) /\ f[n] = f[n - 1] \o row(n)
  BY SlotsStep
<1> HIDE DEF f
<1>3. 0 \in Good
  BY <1>1, <1>2
<1>4. ASSUME NEW n \in 1..N, n - 1 \in Good
      PROVE  n \in Good
  <2> DEFINE u == f[n - 1]
             v == row(n)
             a == Len(u)
             c == ChildCount(keep)[keep[n].id]
  <2>1. u \in Seq(Scored) /\ v \in Seq(Scored) /\ f[n] = u \o v
    <3>1. n - 1 \in 0..N
      BY <1>1
    <3> HIDE DEF row
    <3> QED BY <1>2, <3>1
  <2>2. c \in Nat /\ c >= 1
    <3>1. n \in DOMAIN keep
      OBVIOUS
    <3> QED BY <3>1, ChildCountIs
  <2> HIDE DEF c
  <2>3. Len(v) = c /\ \A i \in 1..c : v[i] = keep[n]
    BY <2>2 DEF c
  <2>4. From(n - 1) /\ Onto(n - 1)
    BY <1>4
  <2> HIDE DEF u, v
  <2>5. a \in Nat /\ Len(f[n]) = a + c /\ DOMAIN f[n] = 1..(a + c)
    <3>0. Len(v) = c
      BY <2>3
    <3>1. a \in Nat
      BY <2>1
    <3>2. Len(u \o v) = a + Len(v) /\ u \o v \in Seq(Scored)
      BY <2>1, ConcatProperties
    <3>3. Len(f[n]) = a + c /\ f[n] \in Seq(Scored)
      BY <2>1, <3>0, <3>2
    <3> HIDE DEF a
    <3> QED BY <3>1, <3>3
  <2>6. /\ \A i \in 1..a : f[n][i] = u[i]
        /\ \A i \in 1..(a + c) : i > a => f[n][i] = v[i - a]
    BY <2>1, <2>2, <2>3, ConcatProperties
  <2>7. From(n)
    <3> SUFFICES ASSUME NEW i \in DOMAIN f[n] PROVE \E j \in 1..n : f[n][i] = keep[j]
      OBVIOUS
    <3>1. i \in 1..(a + c)
      BY <2>5
    <3>2. CASE i <= a
      <4>1. i \in DOMAIN u
        BY <2>1, <2>5, <3>1, <3>2
      <4>2. PICK j \in 1..(n - 1) : u[i] = keep[j]
        BY <2>4, <4>1 DEF u
      <4>3. j \in 1..n /\ i \in 1..a
        BY <1>1, <2>5, <3>1, <3>2
      <4> QED BY <2>6, <4>2, <4>3
    <3>3. CASE i > a
      <4>1. i - a \in 1..c /\ n \in 1..n
        BY <1>1, <2>2, <2>5, <3>1, <3>3
      <4> QED BY <2>3, <2>6, <3>1, <3>3, <4>1
    <3> QED BY <2>5, <3>1, <3>2, <3>3
  <2>8. Onto(n)
    <3> SUFFICES ASSUME NEW j \in 1..n PROVE \E i \in DOMAIN f[n] : f[n][i] = keep[j]
      OBVIOUS
    <3>1. CASE j = n
      <4>1. a + 1 \in 1..(a + c) /\ a + 1 > a /\ a + 1 - a = 1 /\ 1 \in 1..c
        BY <2>2, <2>5
      <4>2. f[n][a + 1] = keep[n]
        BY <2>3, <2>6, <4>1
      <4> QED BY <2>5, <3>1, <4>1, <4>2
    <3>2. CASE j # n
      <4>1. j \in 1..(n - 1)
        BY <1>1, <3>2
      <4>2. PICK i \in DOMAIN u : u[i] = keep[j]
        BY <2>4, <4>1 DEF u
      <4>3. i \in 1..a /\ i \in 1..(a + c)
        BY <2>1, <2>2, <2>5
      <4> QED BY <2>5, <2>6, <4>2, <4>3
    <3> QED BY <3>1, <3>2
  <2> HIDE DEF From, Onto
  <2> QED BY <1>1, <2>7, <2>8
<1>5. \A n \in 0..N : n \in Good
  <2> HIDE DEF Good
  <2> QED BY <1>1, <1>3, <1>4, UpTo
<1> QED BY <1>5 DEF f

(* They fill the width the search was launched with.                       *)
LEMMA SlotsFill ==
  ASSUME NEW keep \in Seq(Scored), OneEach(keep), Len(keep) >= 1, Len(keep) <= KeepTop
  PROVE  Len(Slots(keep)[Len(keep)]) = BeamWidth
<1> DEFINE N == Len(keep)
           f == Slots(keep)
           spare == Spare(keep)
           Below(n) == {s \in 0..(spare - 1) : s % N < n}
           row(n) == [c \in 1..ChildCount(keep)[keep[n].id] |-> keep[n]]
           Good == {n \in 0..N : Len(f[n]) = Children * n + Cardinality(Below(n))}
<1>1. N \in Nat \ {0} /\ Children \in Nat /\ spare \in Nat /\ BeamWidth = Children * N + spare
  <2>1. N \in Nat \ {0} /\ N <= KeepTop /\ Children \in Nat
    BY ConstantsAreTyped
  <2>2. BeamWidth \in Nat /\ Children * N \in Nat /\ Children * N <= BeamWidth
    <3> HIDE DEF N
    <3> QED BY <2>1, WidthIs
  <2>3. spare = BeamWidth - Children * N
    BY DEF Spare
  <2> HIDE DEF N, spare
  <2> QED BY <2>1, <2>2, <2>3
<1>2. /\ f \in [0..N -> Seq(Scored)] /\ f[0] = <<>>
      /\ \A n \in 1..N : row(n) \in Seq(Scored) /\ f[n] = f[n - 1] \o row(n)
  BY SlotsStep
<1>2a. \A n \in 1..N : Share(keep, n) = {s \in 0..(spare - 1) : s % N = n - 1}
  BY DEF Share
<1> HIDE DEF f, spare
<1>3. IsFiniteSet(0..(spare - 1)) /\ Cardinality(0..(spare - 1)) = spare
  <2>1. spare \in Nat
    BY <1>1
  <2>2. 0 \in Int /\ spare - 1 \in Int /\ (0 > spare - 1 => spare = 0) /\ spare - 1 - 0 + 1 = spare
    BY <2>1
  <2> QED BY <2>1, <2>2, FS_Interval
<1>4. ASSUME NEW s \in 0..(spare - 1) PROVE s % N \in 0..(N - 1)
  <2>1. s \in Int
    BY <1>1
  <2> HIDE DEF N
  <2> QED BY <1>1, <2>1
<1>5. \A n \in 0..N : IsFiniteSet(Below(n)) /\ Cardinality(Below(n)) \in Nat
  <2> SUFFICES ASSUME NEW n \in 0..N PROVE IsFiniteSet(Below(n)) /\ Cardinality(Below(n)) \in Nat
    OBVIOUS
  <2>1. Below(n) \in SUBSET (0..(spare - 1))
    OBVIOUS
  <2> HIDE DEF Below
  <2> QED BY <1>3, <2>1, FS_Subset, FS_CardinalityType
<1>6. 0 \in Good
  <2>1. Below(0) = {}
    <3> SUFFICES ASSUME NEW s \in 0..(spare - 1), s % N < 0 PROVE FALSE
      OBVIOUS
    <3>1. s % N \in 0..(N - 1)
      BY <1>4
    <3> DEFINE m == s % N
    <3>2. m \in 0..(N - 1) /\ m < 0
      BY <3>1
    <3> HIDE DEF m, N
    <3> QED BY <1>1, <3>2
  <2>2. Cardinality(Below(0)) = 0
    <3> HIDE DEF Below
    <3> QED BY <2>1, FS_EmptySet
  <2>3. Len(f[0]) = 0
    BY <1>2
  <2> HIDE DEF Below
  <2> QED BY <1>1, <2>2, <2>3
<1>7. ASSUME NEW n \in 1..N, n - 1 \in Good
      PROVE  n \in Good
  <2> DEFINE c == ChildCount(keep)[keep[n].id]
             S == Share(keep, n)
  <2>1. n \in DOMAIN keep /\ n - 1 \in 0..N /\ n \in 0..N /\ n \in Int
    OBVIOUS
  <2>2. c \in Nat /\ c = Children + Cardinality(S)
    BY <2>1, ChildCountIs
  <2>3. Len(f[n]) = Len(f[n - 1]) + c
    <3>1. row(n) \in Seq(Scored) /\ Len(row(n)) = c
      BY <1>2, <2>2
    <3>2. f[n - 1] \in Seq(Scored) /\ f[n] = f[n - 1] \o row(n)
      <4> HIDE DEF row
      <4> QED BY <1>2, <2>1
    <3> HIDE DEF row, c
    <3> QED BY <3>1, <3>2, ConcatProperties
  <2>4. Below(n) = Below(n - 1) \cup S /\ Below(n - 1) \cap S = {}
    <3>1. S = {s \in 0..(spare - 1) : s % N = n - 1}
      BY <1>2a
    <3>2. ASSUME NEW s \in 0..(spare - 1)
          PROVE  /\ s % N < n <=> s % N < n - 1 \/ s % N = n - 1
                 /\ ~(s % N < n - 1 /\ s % N = n - 1)
      <4>1. s % N \in 0..(N - 1)
        BY <1>4
      <4> DEFINE m == s % N
      <4>2. m \in 0..(N - 1)
        BY <4>1
      <4> HIDE DEF m, N
      <4>3. m \in Int
        BY <1>1, <4>2
      <4>4. /\ m < n <=> m < n - 1 \/ m = n - 1
            /\ ~(m < n - 1 /\ m = n - 1)
        BY <2>1, <4>3
      <4> QED BY <4>4 DEF m
    <3> HIDE DEF S, N
    <3> QED BY <3>1, <3>2
  <2>5. Cardinality(Below(n)) = Cardinality(Below(n - 1)) + Cardinality(S)
    <3>1. S \in SUBSET (0..(spare - 1))
      BY <1>2a
    <3>2. IsFiniteSet(S) /\ Cardinality(S) \in Nat
      <4> HIDE DEF S
      <4> QED BY <1>3, <3>1, FS_Subset, FS_CardinalityType
    <3>3. IsFiniteSet(Below(n - 1)) /\ Cardinality(Below(n - 1)) \in Nat
      <4> HIDE DEF Below
      <4> QED BY <1>5, <2>1
    <3> HIDE DEF Below, S
    <3>4. /\ Cardinality(Below(n)) = Cardinality(Below(n - 1)) + Cardinality(S)
                                       - Cardinality(Below(n - 1) \cap S)
          /\ Cardinality(Below(n - 1) \cap S) = 0
      BY <2>4, <3>2, <3>3, FS_Union, FS_EmptySet
    <3> QED BY <3>2, <3>3, <3>4
  <2>6. Children * n = Children * (n - 1) + Children /\ Children * (n - 1) \in Int
    BY <1>1, <2>1
  <2>7. Len(f[n - 1]) = Children * (n - 1) + Cardinality(Below(n - 1))
    BY <1>7
  <2>8. Cardinality(Below(n - 1)) \in Nat /\ Cardinality(S) \in Nat
    <3>1. S \in SUBSET (0..(spare - 1))
      BY <1>2a
    <3>2. Cardinality(S) \in Nat
      <4> HIDE DEF S
      <4> QED BY <1>3, <3>1, FS_Subset, FS_CardinalityType
    <3> HIDE DEF Below
    <3> QED BY <1>5, <2>1, <3>2
  <2> DEFINE x == Children * (n - 1)
             y == Children * n
             l == Len(f[n - 1])
             m == Len(f[n])
             p == Cardinality(Below(n))
             q == Cardinality(Below(n - 1))
             r == Cardinality(S)
  <2>9. m = y + p
    <3>1. /\ m = l + c /\ c = Children + r /\ l = x + q /\ y = x + Children /\ p = q + r
          /\ x \in Int /\ q \in Nat /\ r \in Nat
      BY <2>2, <2>3, <2>5, <2>6, <2>7, <2>8
    <3> HIDE DEF x, y, l, m, p, q, r, c
    <3> QED BY <1>1, <3>1
  <2> HIDE DEF Below
  <2> QED BY <2>1, <2>9
<1>8. N \in Good
  <2>1. N \in Nat /\ N \in 0..N
    OBVIOUS
  <2> HIDE DEF Good, N
  <2> QED BY <1>6, <1>7, <2>1, UpTo
<1>9. Below(N) = 0..(spare - 1)
  <2> SUFFICES ASSUME NEW s \in 0..(spare - 1) PROVE s % N < N
    OBVIOUS
  <2>1. s % N \in 0..(N - 1)
    BY <1>4
  <2> DEFINE m == s % N
  <2>2. m \in 0..(N - 1)
    BY <2>1
  <2>3. m < N
    <3> HIDE DEF m, N
    <3> QED BY <1>1, <2>2
  <2> QED BY <2>3
<1>10. Len(f[N]) = Children * N + spare
  <2>1. Len(f[N]) = Children * N + Cardinality(Below(N))
    BY <1>8
  <2> HIDE DEF Below
  <2> QED BY <1>3, <1>9, <2>1
<1> QED BY <1>1, <1>10 DEF f
-----------------------------------------------------------------------------
(* The invariant, part one: it holds however often a search is resumed.    *)

Node     == [id : Id, parent : Id \cup {None}, ordinal : Nat \ {0}, schedule : Schedule]
Line     == [id : Id, parent : Id \cup {None}, ordinal : Nat \ {0}, schedule : Schedule,
             ok : BOOLEAN, rank : Int, world : History]
Copied   == [meta : BOOLEAN, world : History]
Progress == [at : {"todo", "ready", "copying", "ok", "error"}, rank : Int, world : History]

Shape ==
  /\ phase \in {"start", "wave", "rank", "prune", "down", "finished"}
  /\ gen \in 0..(Generations - 1) /\ width \in 1..Concurrency /\ ordinal \in Nat
  /\ beam \in Seq(Node) /\ status \in [DOMAIN beam -> Progress]
  /\ \A i \in DOMAIN beam : status[i].rank \in Ranks[gen] \cup {0}
  /\ recorded \in 0..Len(beam)
  /\ ranked \in Seq(Scored) /\ lineage \in Seq(Line)
  /\ DOMAIN checkpoints \subseteq Id /\ checkpoints \in [DOMAIN checkpoints -> Copied]
  /\ torn \in BOOLEAN /\ resumes \in 0..MaxResumes
  /\ lost.nodes \in Seq(Node) /\ lost.parents \in SUBSET (Id \cup {None})

(* What is in memory in which phase.                                       *)
InMemory ==
  /\ phase = "start" => resumes = 0
  /\ ~Running => beam = <<>>
  /\ phase = "wave" => recorded < Len(beam)
  /\ phase = "rank" => recorded = Len(beam)
  /\ phase = "prune" => Len(ranked) >= 2
  /\ \A j \in 1..recorded : status[j].at \in {"ok", "error"}

(* A schedule has one reseed for each generation, the node's own at last.  *)
Descends(nd) ==
  /\ Len(nd.schedule) = nd.id[1] + 1 /\ nd.schedule[nd.id[1] + 1] = nd.ordinal
  /\ IF nd.id[1] = 0 THEN nd.parent = None ELSE nd.parent \in Id /\ nd.parent[1] = nd.id[1] - 1

Family ==
  /\ \A i \in DOMAIN beam : beam[i].id = <<gen, i - 1>> /\ Descends(beam[i])
  /\ \A k \in DOMAIN ranked : ranked[k].id[1] = gen /\ Len(ranked[k].schedule) = gen + 1
  /\ \A k \in DOMAIN lineage : Descends(lineage[k])

(* The ordinals up to which records may go, while the beam has the ones    *)
(* after them.                                                             *)
Given == ordinal - Len(beam) + recorded

Numbers ==
  /\ Len(beam) <= ordinal
  /\ \A i \in DOMAIN beam : beam[i].ordinal = ordinal - Len(beam) + i
  /\ ~Ended => \A k \in DOMAIN lineage : lineage[k].ordinal <= Given
  /\ \A j, k \in DOMAIN lineage : lineage[j].ordinal = lineage[k].ordinal => j = k
  /\ \A k \in DOMAIN lineage : lineage[k].parent = None => lineage[k].ordinal = k
  /\ phase = "start" => lineage = <<>> /\ ordinal = 0
  /\ Running /\ gen = 0 => Len(lineage) = recorded /\ ordinal = Len(beam)

-----------------------------------------------------------------------------
(* Part two: the first life of a search and the one after its first        *)
(* resume.                                                                 *)

Whole(s) == \A k \in DOMAIN s : /\ HasCheckpoint(s[k].id)
                                /\ checkpoints[s[k].id].world = s[k].schedule

(* The worlds in memory are those on disk.                                 *)
Faithful ==
  /\ ParentsOnDisk /\ LineageFaithful
  /\ \A i \in DOMAIN beam :
       /\ status[i].at \in {"ready", "copying", "ok"} => status[i].world = beam[i].schedule
       /\ status[i].at = "copying" => beam[i].id \in DOMAIN checkpoints
       /\ status[i].at = "ok" => /\ HasCheckpoint(beam[i].id)
                                 /\ checkpoints[beam[i].id].world = beam[i].schedule
  /\ phase = "prune" => OneEach(ranked) /\ Whole(Kept(ranked))
  /\ Running /\ gen > 0 =>
       /\ Cardinality({beam[i].parent : i \in DOMAIN beam}) >= 2
       /\ Len(beam) = BeamWidth

(* What a resume would keep.                                               *)
NextKept == Kept(Sorted(Inherited(last_usable_generation)))

Unrecorded(g) == \A k \in DOMAIN lineage : lineage[k].id[1] # g

(* In its first life a search records every node once, in order.           *)
FirstLife ==
  /\ ~Ended => lost.nodes = <<>> /\ Len(lineage) = Given
  /\ \A j, k \in DOMAIN lineage : lineage[j].id = lineage[k].id => j = k
  /\ \A k \in DOMAIN lineage : Running /\ k <= Len(lineage) - recorded => lineage[k].id[1] < gen
  /\ \A j \in 1..recorded : Running => lineage[Len(lineage) - recorded + j] = Record(j)
  /\ phase = "prune" => \A k \in DOMAIN lineage : lineage[k].id[1] <= gen

(* While it lives, the files say where it is: two records of this          *)
(* generation, or its parents.                                             *)
OnFile ==
  /\ UsableGenerations # {} => Whole(NextKept)
  /\ Running /\ Cardinality(Usable(gen)) >= 2 => last_usable_generation = gen
  /\ Running /\ Cardinality(Usable(gen)) < 2 /\ gen = 0 => UsableGenerations = {}
  /\ Running /\ Cardinality(Usable(gen)) < 2 /\ gen > 0 =>
       /\ UsableGenerations # {} /\ last_usable_generation = gen - 1
       /\ beam = spawn_children(NextKept, gen - 1, ordinal - Len(beam))
  /\ phase = "prune" => /\ UsableGenerations # {} /\ last_usable_generation = gen
                        /\ NextKept = Kept(ranked)
  /\ phase = "start" => UsableGenerations = {}

(* What a resume makes of the files when the search has ended with nodes   *)
(* ns, grown out of ids.                                                   *)
Repeats(ns) ==
  ns # <<>> /\ ns[1].id[1] > 0 /\ Unrecorded(ns[1].id[1]) =>
    /\ UsableGenerations # {} /\ last_usable_generation = ns[1].id[1] - 1
    /\ ns = spawn_children(NextKept, last_usable_generation, RecoveredOrdinal)

Near(ns) ==
  ns # <<>> /\ UsableGenerations # {} => ns[1].id[1] <= last_usable_generation + 1

Advances(ids) ==
  UsableGenerations # {} =>
    \/ OnDisk(Ids(NextKept)) = OnDisk(ids)
    \/ \A h \in OnDisk(Ids(NextKept)) : Worlds!OneLegPast(h, OnDisk(ids))

LeftBehind ==
  Ended => Repeats(lost.nodes) /\ Near(lost.nodes) /\ Advances(lost.parents)

(* After the resume the lost generation is the next one, if it left        *)
(* nothing.                                                                *)
SecondLife ==
  lost.nodes # <<>> =>
    LET h == lost.nodes[1].id[1]
    IN /\ phase = "prune" =>
            /\ h <= gen + 1
            /\ h = gen + 1 /\ Unrecorded(h) =>
                 lost.nodes = spawn_children(Kept(ranked), gen, ordinal)
       /\ Running => h <= gen /\ (h = gen /\ Unrecorded(h) => beam = lost.nodes)

IInv ==
  /\ Shape /\ InMemory /\ Family /\ Numbers
  /\ resumes <= 1 => Faithful
  /\ resumes = 0 => FirstLife /\ OnFile /\ LeftBehind
  /\ resumes = 1 => SecondLife

-----------------------------------------------------------------------------
(* The nodes a generation starts with.                                     *)

LEMMA Launched ==
  /\ initial_nodes \in Seq(Node) /\ Len(initial_nodes) = Replicas
  /\ \A i \in 1..Replicas : /\ initial_nodes[i].id = <<0, i - 1>> /\ initial_nodes[i].parent = None
                            /\ initial_nodes[i].ordinal = i /\ initial_nodes[i].schedule = <<i>>
<1> DEFINE nd(i) == [id |-> <<0, i - 1>>, parent |-> None, ordinal |-> i, schedule |-> <<i>>]
<1>1. Replicas \in Nat
  BY ConstantsAreTyped
<1>2. \A i \in 1..Replicas : nd(i) \in Node
  BY <1>1 DEF Node, Id, Schedule
<1>3. initial_nodes = [i \in 1..Replicas |-> nd(i)]
  BY DEF initial_nodes
<1>4. \A i \in 1..Replicas : /\ nd(i).id = <<0, i - 1>> /\ nd(i).parent = None
                             /\ nd(i).ordinal = i /\ nd(i).schedule = <<i>>
  OBVIOUS
<1> HIDE DEF nd
<1>5. initial_nodes \in Seq(Node) /\ Len(initial_nodes) = Replicas
  BY <1>1, <1>2, <1>3
<1> QED BY <1>3, <1>4, <1>5

LEMMA Spawned ==
  ASSUME NEW keep \in Seq(Scored), Len(keep) >= 1, NEW g \in Nat, NEW o \in Nat
  PROVE  LET b == spawn_children(keep, g, o)
         IN  /\ b \in Seq(Node) /\ Len(b) >= 1
             /\ \A i \in DOMAIN b :
                  /\ b[i].id = <<g + 1, i - 1>> /\ b[i].ordinal = o + i
                  /\ \E j \in DOMAIN keep : /\ b[i].parent = keep[j].id
                                            /\ b[i].schedule = Append(keep[j].schedule, o + i)
             /\ \A j \in DOMAIN keep : \E i \in DOMAIN b : b[i].parent = keep[j].id
             /\ OneEach(keep) /\ Len(keep) <= KeepTop => Len(b) = BeamWidth
<1> DEFINE N == Len(keep)
           u == Slots(keep)[N]
           kid(i) == Child(u[i], g, i - 1, o + i)
           b == spawn_children(keep, g, o)
<1>1. N \in Nat /\ N \in 0..N /\ DOMAIN keep = 1..N /\ 1 \in 1..N
  OBVIOUS
<1>2. Slots(keep) \in [0..N -> Seq(Scored)]
  BY SlotsStep
<1>3. /\ \A i \in DOMAIN u : \E j \in 1..N : u[i] = keep[j]
      /\ \A j \in 1..N : \E i \in DOMAIN u : u[i] = keep[j]
  <2> HIDE DEF N
  <2> QED BY <1>1, SlotsAreKept DEF N
<1>4. OneEach(keep) /\ N <= KeepTop => Len(u) = BeamWidth
  BY SlotsFill
<1>5. b = [i \in DOMAIN u |-> kid(i)]
  BY DEF spawn_children
<1>6. u \in Seq(Scored)
  <2> HIDE DEF N
  <2> QED BY <1>1, <1>2
<1> HIDE DEF u
<1>7. ASSUME NEW i \in DOMAIN u
      PROVE  /\ kid(i) \in Node /\ kid(i).id = <<g + 1, i - 1>> /\ kid(i).ordinal = o + i
             /\ kid(i).parent = u[i].id /\ kid(i).schedule = Append(u[i].schedule, o + i)
  <2>1. u[i] \in Scored /\ i \in Nat \ {0}
    BY <1>6
  <2>2. u[i].id \in Id /\ u[i].schedule \in Schedule
    BY <2>1, ScoredIsTyped
  <2>3. o + i \in Nat \ {0} /\ <<g + 1, i - 1>> \in Id
    BY <2>1 DEF Id
  <2>4. Append(u[i].schedule, o + i) \in Schedule
    BY <2>2, <2>3 DEF Schedule
  <2> QED BY <2>2, <2>3, <2>4 DEF Child, Node
<1> HIDE DEF kid
<1>8. b \in Seq(Node) /\ DOMAIN b = DOMAIN u /\ Len(b) = Len(u)
  <2>1. DOMAIN u = 1..Len(u) /\ Len(u) \in Nat
    BY <1>6
  <2> HIDE DEF b
  <2> QED BY <1>5, <1>7, <2>1
<1>9. \A i \in DOMAIN u : b[i] = kid(i)
  BY <1>5
<1> HIDE DEF b
<1>10. Len(b) >= 1
  <2>1. PICK i \in DOMAIN u : u[i] = keep[1]
    BY <1>1, <1>3
  <2> HIDE DEF N
  <2> QED BY <1>6, <1>8, <2>1
<1>11. ASSUME NEW i \in DOMAIN b
       PROVE  /\ b[i].id = <<g + 1, i - 1>> /\ b[i].ordinal = o + i
              /\ \E j \in DOMAIN keep : /\ b[i].parent = keep[j].id
                                        /\ b[i].schedule = Append(keep[j].schedule, o + i)
  <2>1. i \in DOMAIN u
    BY <1>8
  <2>2. PICK j \in 1..N : u[i] = keep[j]
    BY <1>3, <2>1
  <2>3. b[i] = kid(i)
    BY <1>9, <2>1
  <2> QED BY <1>1, <1>7, <2>1, <2>2, <2>3
<1>12. \A j \in DOMAIN keep : \E i \in DOMAIN b : b[i].parent = keep[j].id
  <2> SUFFICES ASSUME NEW j \in 1..N PROVE \E i \in DOMAIN b : b[i].parent = keep[j].id
    BY <1>1
  <2>1. PICK i \in DOMAIN u : u[i] = keep[j]
    BY <1>3
  <2>2. b[i] = kid(i) /\ i \in DOMAIN b
    BY <1>8, <1>9
  <2> QED BY <1>7, <2>1, <2>2
<1> QED BY <1>4, <1>8, <1>10, <1>11, <1>12 DEF b

-----------------------------------------------------------------------------
(* The files as a resume reads them.                                       *)

LEMMA PartsAreTyped ==
  ASSUME Shape
  PROVE  /\ Len(beam) \in Nat /\ DOMAIN beam = 1..Len(beam)
         /\ \A i \in DOMAIN beam :
              /\ beam[i].id \in Id /\ beam[i].parent \in Id \cup {None}
              /\ beam[i].ordinal \in Nat \ {0} /\ beam[i].schedule \in Schedule
              /\ status[i].at \in {"todo", "ready", "copying", "ok", "error"}
              /\ status[i].rank \in Int /\ status[i].world \in History
         /\ Len(lineage) \in Nat /\ DOMAIN lineage = 1..Len(lineage)
         /\ \A k \in DOMAIN lineage :
              /\ lineage[k].id \in Id /\ lineage[k].parent \in Id \cup {None}
              /\ lineage[k].ordinal \in Nat \ {0} /\ lineage[k].schedule \in Schedule
              /\ lineage[k].ok \in BOOLEAN /\ lineage[k].rank \in Int
              /\ lineage[k].world \in History /\ lineage[k].id[1] \in Nat
<1>1. beam \in Seq(Node) /\ status \in [DOMAIN beam -> Progress] /\ lineage \in Seq(Line)
  BY DEF Shape
<1>2. \A nd \in Node : /\ nd.id \in Id /\ nd.parent \in Id \cup {None}
                       /\ nd.ordinal \in Nat \ {0} /\ nd.schedule \in Schedule
  BY DEF Node
<1>3. \A p \in Progress : /\ p.at \in {"todo", "ready", "copying", "ok", "error"}
                          /\ p.rank \in Int /\ p.world \in History
  BY DEF Progress
<1>4. \A l \in Line : /\ l.id \in Id /\ l.parent \in Id \cup {None}
                      /\ l.ordinal \in Nat \ {0} /\ l.schedule \in Schedule
                      /\ l.ok \in BOOLEAN /\ l.rank \in Int
                      /\ l.world \in History
  BY DEF Line
<1>5. \A id \in Id : id[1] \in Nat
  BY DEF Id
<1>6. \A i \in DOMAIN beam : beam[i] \in Node /\ status[i] \in Progress
  BY <1>1
<1>7. \A k \in DOMAIN lineage : lineage[k] \in Line
  BY <1>1
<1>8. Len(beam) \in Nat /\ DOMAIN beam = 1..Len(beam)
  BY <1>1
<1>9. Len(lineage) \in Nat /\ DOMAIN lineage = 1..Len(lineage)
  BY <1>1
<1> QED BY <1>2, <1>3, <1>4, <1>5, <1>6, <1>7, <1>8, <1>9

LEMMA ScalarsAreTyped ==
  ASSUME Shape
  PROVE  /\ gen \in 0..(Generations - 1) /\ gen \in Nat /\ ordinal \in Nat
         /\ recorded \in 0..Len(beam) /\ recorded \in Nat
         /\ resumes \in 0..MaxResumes /\ resumes \in Nat
<1>1. /\ gen \in 0..(Generations - 1) /\ ordinal \in Nat /\ recorded \in 0..Len(beam)
      /\ resumes \in 0..MaxResumes
  BY DEF Shape
<1>2. Len(beam) \in Nat
  BY PartsAreTyped
<1> QED BY <1>1, <1>2, ConstantsAreTyped

LEMMA ListsAre ==
  ASSUME Shape
  PROVE  /\ IsList(Alive) /\ DOMAIN Alive = {i \in DOMAIN beam : status[i].at = "ok"}
         /\ \A i \in DOMAIN Alive : /\ Alive[i].id = beam[i].id
                                    /\ Alive[i].rank = status[i].rank
                                    /\ Alive[i].schedule = beam[i].schedule
         /\ \A g : /\ IsList(Inherited(g)) /\ DOMAIN Inherited(g) = Usable(g)
                   /\ \A k \in Usable(g) : /\ k \in DOMAIN lineage
                                           /\ Inherited(g)[k].id = lineage[k].id
                                           /\ Inherited(g)[k].rank = lineage[k].rank
                                           /\ Inherited(g)[k].schedule = lineage[k].schedule
<1> DEFINE a(i) == [id |-> beam[i].id, rank |-> status[i].rank, schedule |-> beam[i].schedule]
           l(k) == [id |-> lineage[k].id, rank |-> lineage[k].rank,
                    schedule |-> lineage[k].schedule]
           D == {i \in DOMAIN beam : status[i].at = "ok"}
<1>1. \A i \in DOMAIN beam : a(i) \in Scored
  BY PartsAreTyped DEF Scored
<1>2. \A k \in DOMAIN lineage : l(k) \in Scored
  BY PartsAreTyped DEF Scored
<1>3. /\ \A i : a(i).id = beam[i].id /\ a(i).rank = status[i].rank /\ a(i).schedule = beam[i].schedule
      /\ \A k : /\ l(k).id = lineage[k].id /\ l(k).rank = lineage[k].rank
                /\ l(k).schedule = lineage[k].schedule
  OBVIOUS
<1>4. Alive = [i \in D |-> a(i)]
  BY DEF Alive
<1>5. \A g : Inherited(g) = [k \in Usable(g) |-> l(k)]
  BY DEF Inherited
<1>6. /\ IsFiniteSet(DOMAIN beam) /\ DOMAIN beam \subseteq Nat
      /\ IsFiniteSet(DOMAIN lineage) /\ DOMAIN lineage \subseteq Nat
  <2>1. /\ Len(beam) \in Nat /\ DOMAIN beam = 1..Len(beam)
        /\ Len(lineage) \in Nat /\ DOMAIN lineage = 1..Len(lineage)
    BY PartsAreTyped
  <2>2. IsFiniteSet(1..Len(beam)) /\ IsFiniteSet(1..Len(lineage))
    BY <2>1, FS_Interval
  <2> QED BY <2>1, <2>2
<1> HIDE DEF a, l
<1>7. IsList(Alive) /\ DOMAIN Alive = D /\ \A i \in D : Alive[i] = a(i)
  <2>1. D \in SUBSET DOMAIN beam
    OBVIOUS
  <2>2. IsFiniteSet(D)
    <3> HIDE DEF D
    <3> QED BY <1>6, <2>1, FS_Subset
  <2> HIDE DEF D
  <2> QED BY <1>1, <1>4, <1>6, <2>1, <2>2 DEF IsList
<1>8. ASSUME NEW g
      PROVE  /\ IsList(Inherited(g)) /\ DOMAIN Inherited(g) = Usable(g)
             /\ \A k \in Usable(g) : k \in DOMAIN lineage /\ Inherited(g)[k] = l(k)
  <2>1. Usable(g) \in SUBSET DOMAIN lineage
    BY DEF Usable
  <2>2. IsFiniteSet(Usable(g))
    BY <1>6, <2>1, FS_Subset
  <2> QED BY <1>2, <1>5, <1>6, <2>1, <2>2 DEF IsList
<1> QED BY <1>3, <1>7, <1>8

LEMMA LastUsable ==
  /\ UsableGenerations # {} =>
       /\ last_usable_generation \in UsableGenerations
       /\ \A g \in UsableGenerations : g <= last_usable_generation
  /\ \A g \in UsableGenerations :
       (\A h \in UsableGenerations : h <= g) => last_usable_generation = g
  /\ \A g \in UsableGenerations : g \in 0..(Generations - 1)
<1>1. Generations \in Nat \ {0} /\ Generations - 1 \in Nat
  BY ConstantsAreTyped
<1>2. UsableGenerations \in SUBSET Nat /\ \A g \in UsableGenerations : g \in 0..(Generations - 1)
  BY <1>1 DEF UsableGenerations
<1>3. UsableGenerations # {} =>
        /\ Max(UsableGenerations) \in UsableGenerations
        /\ \A g \in UsableGenerations : g <= Max(UsableGenerations)
  <2>1. \A g \in UsableGenerations : g <= Generations - 1
    BY <1>1, <1>2
  <2> QED BY <1>1, <1>2, <2>1, MaxIs
<1>4. ASSUME NEW g \in UsableGenerations, \A h \in UsableGenerations : h <= g
      PROVE  Max(UsableGenerations) = g
  <2>1. /\ Max(UsableGenerations) \in Nat /\ g \in Nat
        /\ Max(UsableGenerations) <= g /\ g <= Max(UsableGenerations)
    BY <1>2, <1>3, <1>4
  <2> QED BY <2>1
<1> QED BY <1>2, <1>3, <1>4 DEF last_usable_generation

(* The ordinals of a finite file have a bound.                             *)
LEMMA OrdinalsAreBounded ==
  ASSUME Shape
  PROVE  \E b \in Nat : \A k \in DOMAIN lineage : lineage[k].ordinal <= b
<1> DEFINE N == Len(lineage)
           Good == {n \in 0..N : \E b \in Nat : \A k \in 1..n : lineage[k].ordinal <= b}
<1>1. /\ N \in Nat /\ DOMAIN lineage = 1..N
      /\ \A k \in 1..N : lineage[k].ordinal \in Nat
  BY PartsAreTyped
<1> HIDE DEF N
<1>2. 0 \in Good
  BY <1>1
<1>3. ASSUME NEW n \in 1..N, n - 1 \in Good PROVE n \in Good
  <2>1. PICK b \in Nat : \A k \in 1..(n - 1) : lineage[k].ordinal <= b
    BY <1>3
  <2> DEFINE o == lineage[n].ordinal
  <2>2. o \in Nat
    BY <1>1
  <2>3. \A k \in 1..n : k = n \/ k \in 1..(n - 1)
    BY <1>1
  <2>4. \A k \in 1..n : lineage[k].ordinal \in Nat
    BY <1>1
  <2>5. \A k \in 1..n : lineage[k].ordinal <= b + o
    BY <2>1, <2>2, <2>3, <2>4
  <2>6. b + o \in Nat
    BY <2>2
  <2> HIDE DEF o
  <2> QED BY <1>1, <2>5, <2>6
<1>4. N \in Good
  <2>1. N \in Nat /\ N \in 0..N
    BY <1>1
  <2> HIDE DEF Good
  <2> QED BY <1>2, <1>3, <2>1, UpTo
<1> QED BY <1>1, <1>4

(* The counter that a resume finds is past everything recorded.            *)
LEMMA Recovered ==
  ASSUME Shape, \A k \in DOMAIN lineage : lineage[k].parent = None => lineage[k].ordinal = k
  PROVE  /\ RecoveredOrdinal \in Nat /\ Len(lineage) <= RecoveredOrdinal
         /\ \A k \in DOMAIN lineage : lineage[k].ordinal <= RecoveredOrdinal
         /\ \A b \in Nat : /\ Len(lineage) <= b /\ \A k \in DOMAIN lineage : lineage[k].ordinal <= b
                           => RecoveredOrdinal <= b
<1> DEFINE seen == {lineage[k].ordinal : k \in {j \in DOMAIN lineage : lineage[j].parent # None}}
           S == {Len(lineage)} \cup seen
<1>1. /\ Len(lineage) \in Nat /\ DOMAIN lineage = 1..Len(lineage)
      /\ \A k \in DOMAIN lineage : lineage[k].ordinal \in Nat
  BY PartsAreTyped
<1>2. PICK b \in Nat : \A k \in DOMAIN lineage : lineage[k].ordinal <= b
  BY OrdinalsAreBounded
<1>3. S \in SUBSET Nat /\ S # {} /\ \A x \in S : x <= b + Len(lineage)
  BY <1>1, <1>2
<1>4. Max(S) \in S /\ \A x \in S : x <= Max(S)
  <2>1. b + Len(lineage) \in Nat
    BY <1>1
  <2> HIDE DEF S
  <2> QED BY <1>3, <2>1, MaxIs
<1>5. RecoveredOrdinal = Max(S)
  BY DEF RecoveredOrdinal
<1>6. Len(lineage) \in S /\ \A k \in DOMAIN lineage : lineage[k].parent # None => lineage[k].ordinal \in S
  OBVIOUS
<1>7. \A x \in S : x = Len(lineage) \/ \E k \in DOMAIN lineage : x = lineage[k].ordinal
  OBVIOUS
<1> HIDE DEF S
<1>8. Max(S) \in Nat /\ Len(lineage) <= Max(S)
  BY <1>3, <1>4, <1>6
<1>9. ASSUME NEW k \in DOMAIN lineage PROVE lineage[k].ordinal <= Max(S)
  <2>1. CASE lineage[k].parent # None
    BY <1>4, <1>6, <2>1
  <2>2. CASE lineage[k].parent = None
    <3>1. lineage[k].ordinal = k /\ k <= Len(lineage) /\ k \in Nat
      BY <1>1, <2>2
    <3> QED BY <1>1, <1>8, <3>1
  <2> QED BY <2>1, <2>2
<1>10. ASSUME NEW c \in Nat, Len(lineage) <= c, \A k \in DOMAIN lineage : lineage[k].ordinal <= c
       PROVE  Max(S) <= c
  BY <1>4, <1>7, <1>10
<1> QED BY <1>5, <1>8, <1>9, <1>10

-----------------------------------------------------------------------------
(* What the steps do to the shape of things.                               *)

Stage(i) == Prepare(i) \/ checkpoint(i) \/ WriteMeta(i) \/ Fail(i)

LEMMA InTheWave ==
  ASSUME Shape, InMemory, NEW i \in DOMAIN beam, Stage(i)
  PROVE  phase = "wave" /\ i > recorded /\ recorded \in Nat /\ i \in Wave
<1>1. phase = "wave" /\ status[i].at \in {"todo", "ready", "copying"} /\ i \in Wave
  BY DEF Stage, Prepare, checkpoint, WriteMeta, Fail
<1>2. recorded \in Nat /\ i \in Nat \ {0}
  BY PartsAreTyped DEF Shape
<1>3. i \notin 1..recorded
  BY <1>1 DEF InMemory
<1> QED BY <1>1, <1>2, <1>3

(* Four steps change a node's status and its checkpoint, nothing else.     *)
LEMMA StageDoes ==
  ASSUME Shape, NEW i \in DOMAIN beam, Stage(i)
  PROVE  /\ UNCHANGED <<phase, gen, beam, width, recorded, ranked, ordinal,
                        lineage, torn, resumes, lost>>
         /\ status' \in [DOMAIN beam -> Progress]
         /\ \A j \in DOMAIN beam : j # i => status'[j] = status[j]
         /\ status'[i].rank \in Ranks[gen] \cup {0}
         /\ DOMAIN checkpoints \subseteq DOMAIN checkpoints'
         /\ DOMAIN checkpoints' \subseteq DOMAIN checkpoints \cup {beam[i].id}
         /\ checkpoints' \in [DOMAIN checkpoints' -> Copied]
         /\ \A id \in DOMAIN checkpoints : id # beam[i].id => checkpoints'[id] = checkpoints[id]
<1>1. /\ status \in [DOMAIN beam -> Progress] /\ checkpoints \in [DOMAIN checkpoints -> Copied]
      /\ \A j \in DOMAIN beam : status[j].rank \in Ranks[gen] \cup {0}
      /\ gen \in 0..(Generations - 1) /\ beam[i].id \in Id
      /\ status[i].world \in History /\ status[i].rank \in Int
  BY PartsAreTyped DEF Shape
<1>2. Half \in History /\ 0 \in Int
  BY DEF Half, History
<1>3. ASSUME NEW at \in {"error", "ready", "copying", "ok"}, NEW r \in Int,
             r \in Ranks[gen] \cup {0}, NEW w \in History, Reach(i, at, r, w)
      PROVE  /\ status' \in [DOMAIN beam -> Progress]
             /\ \A j \in DOMAIN beam : j # i => status'[j] = status[j]
             /\ status'[i].rank \in Ranks[gen] \cup {0}
  <2> DEFINE p == [at |-> at, rank |-> r, world |-> w]
  <2>1. p \in Progress /\ p.rank = r
    BY DEF Progress
  <2> HIDE DEF p
  <2>2. status' = [status EXCEPT ![i] = p]
    BY <1>3 DEF Reach, p
  <2> QED BY <1>1, <1>3, <2>1, <2>2
<1>4. ASSUME UNCHANGED checkpoints
      PROVE  /\ DOMAIN checkpoints \subseteq DOMAIN checkpoints'
             /\ DOMAIN checkpoints' \subseteq DOMAIN checkpoints \cup {beam[i].id}
             /\ checkpoints' \in [DOMAIN checkpoints' -> Copied]
             /\ \A id \in DOMAIN checkpoints : id # beam[i].id => checkpoints'[id] = checkpoints[id]
  BY <1>1, <1>4
<1>5. CASE Prepare(i)
  <2>1. \/ Reach(i, "error", 0, Half)
        \/ CanBoot(i) /\ Reach(i, "ready", 0, Booted(i))
    BY <1>5 DEF Prepare
  <2>2. CASE CanBoot(i) /\ Reach(i, "ready", 0, Booted(i))
    <3>1. beam[i].schedule \in History /\ beam[i].ordinal \in Nat
      BY PartsAreTyped DEF Schedule, History
    <3>2. Booted(i) \in History
      <4>1. CASE beam[i].parent = None
        BY <3>1, <4>1 DEF Booted
      <4>2. CASE beam[i].parent # None
        <5>1. checkpoints[beam[i].parent].world \in History
          BY <1>1, <2>2, <4>2 DEF CanBoot, HasCheckpoint, Copied
        <5>2. Append(checkpoints[beam[i].parent].world, beam[i].ordinal) \in History
          BY <3>1, <5>1 DEF History
        <5> QED BY <1>2, <4>2, <5>2 DEF Booted
      <4> QED BY <4>1, <4>2
    <3> HIDE DEF Booted
    <3> QED BY <1>2, <1>3, <1>4, <1>5, <2>2, <3>2 DEF Prepare, files
  <2>3. CASE Reach(i, "error", 0, Half)
    BY <1>2, <1>3, <1>4, <1>5, <2>3 DEF Prepare, files
  <2> QED BY <2>1, <2>2, <2>3
<1>6. CASE checkpoint(i)
  <2>1. PICK r \in Ranks[gen] : Reach(i, "copying", r, status[i].world)
    BY <1>6 DEF checkpoint
  <2>2. r \in Int
    BY <1>1, ConstantsAreTyped
  <2>3. PICK m \in {FALSE, HasCheckpoint(beam[i].id)} :
          checkpoints' = [id \in DOMAIN checkpoints \cup {beam[i].id} |->
                            IF id = beam[i].id THEN [meta |-> m, world |-> Half]
                            ELSE checkpoints[id]]
    BY <1>6 DEF checkpoint
  <2> DEFINE c == [meta |-> m, world |-> Half]
  <2>4. c \in Copied
    <3>1. m \in BOOLEAN
      BY DEF HasCheckpoint
    <3> QED BY <1>2, <3>1 DEF Copied
  <2>5. checkpoints' = [x \in DOMAIN checkpoints \cup {beam[i].id} |->
                          IF x = beam[i].id THEN c ELSE checkpoints[x]]
    BY <2>3
  <2> HIDE DEF c
  <2>6. /\ DOMAIN checkpoints \subseteq DOMAIN checkpoints'
        /\ DOMAIN checkpoints' \subseteq DOMAIN checkpoints \cup {beam[i].id}
        /\ checkpoints' \in [DOMAIN checkpoints' -> Copied]
        /\ \A id \in DOMAIN checkpoints : id # beam[i].id => checkpoints'[id] = checkpoints[id]
    BY <1>1, <2>4, <2>5
  <2>7. UNCHANGED <<phase, gen, beam, width, recorded, ranked, ordinal,
                    lineage, torn, resumes, lost>>
    BY <1>6 DEF checkpoint
  <2>8. /\ status' \in [DOMAIN beam -> Progress]
        /\ \A j \in DOMAIN beam : j # i => status'[j] = status[j]
        /\ status'[i].rank \in Ranks[gen] \cup {0}
    BY <1>1, <1>3, <2>1, <2>2
  <2> QED BY <2>6, <2>7, <2>8
<1>7. CASE WriteMeta(i)
  <2>1. Reach(i, "ok", status[i].rank, status[i].world)
    BY <1>7 DEF WriteMeta
  <2> DEFINE c == [meta |-> TRUE, world |-> status[i].world]
  <2>2. c \in Copied
    BY <1>1 DEF Copied
  <2>3. checkpoints' = [checkpoints EXCEPT ![beam[i].id] = c]
    BY <1>7 DEF WriteMeta
  <2> HIDE DEF c
  <2>4. /\ DOMAIN checkpoints \subseteq DOMAIN checkpoints'
        /\ DOMAIN checkpoints' \subseteq DOMAIN checkpoints \cup {beam[i].id}
        /\ checkpoints' \in [DOMAIN checkpoints' -> Copied]
        /\ \A id \in DOMAIN checkpoints : id # beam[i].id => checkpoints'[id] = checkpoints[id]
    BY <1>1, <2>2, <2>3
  <2>5. UNCHANGED <<phase, gen, beam, width, recorded, ranked, ordinal,
                    lineage, torn, resumes, lost>>
    BY <1>7 DEF WriteMeta
  <2>6. /\ status' \in [DOMAIN beam -> Progress]
        /\ \A j \in DOMAIN beam : j # i => status'[j] = status[j]
        /\ status'[i].rank \in Ranks[gen] \cup {0}
    BY <1>1, <1>3, <2>1
  <2> QED BY <2>4, <2>5, <2>6
<1>8. CASE Fail(i)
  BY <1>2, <1>3, <1>4, <1>8 DEF Fail, files
<1> QED BY <1>5, <1>6, <1>7, <1>8 DEF Stage

LEMMA StartDoes ==
  ASSUME NEW nodes \in Seq(Node), NEW g, ordinal \in Nat, StartGeneration(g, nodes)
  PROVE  /\ phase' = "wave" /\ gen' = g /\ beam' = nodes /\ width' \in 1..Concurrency
         /\ status' \in [DOMAIN nodes -> Progress]
         /\ \A i \in DOMAIN nodes : status'[i].at = "todo" /\ status'[i].rank = 0
         /\ recorded' = 0 /\ ranked' = <<>>
         /\ ordinal' = ordinal + Len(nodes) /\ ordinal' \in Nat
<1>1. NotStarted \in Progress /\ NotStarted.at = "todo" /\ NotStarted.rank = 0
  BY DEF NotStarted, Progress, Half, History
<1>2. Len(nodes) \in Nat
  OBVIOUS
<1>3. status' = [i \in DOMAIN nodes |-> NotStarted]
  BY DEF StartGeneration
<1>4. /\ status' \in [DOMAIN nodes -> Progress]
      /\ \A i \in DOMAIN nodes : status'[i].at = "todo" /\ status'[i].rank = 0
  BY <1>1, <1>3
<1> QED BY <1>2, <1>4 DEF StartGeneration

LEMMA RecordDoes ==
  ASSUME Shape, InMemory, record_wave
  PROVE  /\ phase = "wave" /\ recorded \in Nat /\ recorded + 1 \in DOMAIN beam
         /\ status[recorded + 1].at \in {"ok", "error"}
         /\ Record(recorded + 1) \in Line
         /\ lineage' = Append(lineage, Record(recorded + 1))
         /\ lineage' \in Seq(Line) /\ Len(lineage') = Len(lineage) + 1
         /\ DOMAIN lineage' = 1..(Len(lineage) + 1)
         /\ \A k \in DOMAIN lineage : lineage'[k] = lineage[k]
         /\ lineage'[Len(lineage) + 1] = Record(recorded + 1)
         /\ recorded' = recorded + 1
         /\ phase' = (IF recorded + 1 = Len(beam) THEN "rank" ELSE "wave")
         /\ UNCHANGED <<gen, beam, width, status, ranked, ordinal, torn, checkpoints, resumes, lost>>
<1>1. phase = "wave" /\ recorded \in Nat /\ recorded < Len(beam)
  BY PartsAreTyped DEF Shape, InMemory, record_wave
<1>2. recorded + 1 \in DOMAIN beam
  BY <1>1, PartsAreTyped
<1>3. recorded + 1 \in Wave
  <2> DEFINE j == recorded + 1
  <2>1. j - 1 = recorded /\ j \in DOMAIN beam
    BY <1>1, <1>2
  <2> HIDE DEF j
  <2>2. (j - 1) \div width = recorded \div width
    BY <2>1
  <2>3. j \in Wave
    BY <2>1, <2>2 DEF Wave
  <2> QED BY <2>3 DEF j
<1>4. status[recorded + 1].at \in {"ok", "error"}
  BY <1>3 DEF record_wave, WaveOver
<1>5. Record(recorded + 1) \in Line
  <2> DEFINE i == recorded + 1
  <2>1. i \in DOMAIN beam
    BY <1>2
  <2> HIDE DEF i
  <2>2. /\ beam[i].id \in Id /\ beam[i].parent \in Id \cup {None}
        /\ beam[i].ordinal \in Nat \ {0} /\ beam[i].schedule \in Schedule
        /\ status[i].rank \in Int /\ status[i].world \in History
    BY <2>1, PartsAreTyped
  <2>3. Record(i) \in Line
    BY <2>2 DEF Record, Line
  <2> QED BY <2>3 DEF i
<1>6. lineage' = Append(lineage, Record(recorded + 1))
  BY DEF record_wave
<1>7. lineage \in Seq(Line)
  BY DEF Shape
<1> HIDE DEF Record
<1>8. /\ lineage' \in Seq(Line) /\ Len(lineage') = Len(lineage) + 1
      /\ DOMAIN lineage' = 1..(Len(lineage) + 1)
      /\ \A k \in DOMAIN lineage : lineage'[k] = lineage[k]
      /\ lineage'[Len(lineage) + 1] = Record(recorded + 1)
  BY <1>5, <1>6, <1>7
<1>9. /\ recorded' = recorded + 1
      /\ phase' = (IF recorded + 1 = Len(beam) THEN "rank" ELSE "wave")
      /\ UNCHANGED <<gen, beam, width, status, ranked, ordinal, torn, checkpoints, resumes, lost>>
  BY DEF record_wave
<1> QED BY <1>1, <1>2, <1>4, <1>5, <1>6, <1>8, <1>9

LEMMA SelectDoes ==
  ASSUME Shape, Select
  PROVE  /\ phase = "rank" /\ phase' = "prune" /\ ranked' = Sorted(Alive)
         /\ ranked' \in Seq(Scored) /\ Len(ranked') >= 2
         /\ \A k \in DOMAIN ranked' : \E i \in DOMAIN beam :
              /\ status[i].at = "ok" /\ ranked'[k].id = beam[i].id
              /\ ranked'[k].schedule = beam[i].schedule
         /\ beam' = <<>> /\ status' = <<>> /\ recorded' = 0
         /\ UNCHANGED <<gen, width, ordinal, files, resumes, lost>>
<1>1. /\ phase = "rank" /\ phase' = "prune" /\ ranked' = Sorted(Alive)
      /\ Cardinality(DOMAIN Alive) >= 2
      /\ beam' = <<>> /\ status' = <<>> /\ recorded' = 0
      /\ UNCHANGED <<gen, width, ordinal, files, resumes, lost>>
  BY DEF Select, Cleared
<1>2. /\ IsList(Alive) /\ DOMAIN Alive = {i \in DOMAIN beam : status[i].at = "ok"}
      /\ \A i \in DOMAIN Alive : Alive[i].id = beam[i].id /\ Alive[i].schedule = beam[i].schedule
  BY ListsAre
<1>3. /\ ranked' \in Seq(Scored) /\ Len(ranked') = Cardinality(DOMAIN Alive)
      /\ \A k \in DOMAIN ranked' : \E i \in DOMAIN Alive : ranked'[k] = Alive[i]
  BY <1>1, <1>2, SortedIsTyped
<1> QED BY <1>1, <1>2, <1>3

(* Whatever the records are ranked by, they are the same nodes.            *)
LEMMA RerankedIs ==
  ASSUME Shape, NEW g \in 0..(Generations - 1), NEW list \in Reranked(g)
  PROVE  /\ IsList(list) /\ DOMAIN list = Usable(g)
         /\ \A k \in Usable(g) : /\ k \in DOMAIN lineage
                                 /\ list[k].id = lineage[k].id
                                 /\ list[k].schedule = lineage[k].schedule
<1>1. /\ IsList(Inherited(g)) /\ DOMAIN Inherited(g) = Usable(g)
      /\ \A k \in Usable(g) : /\ k \in DOMAIN lineage
                              /\ Inherited(g)[k].id = lineage[k].id
                              /\ Inherited(g)[k].schedule = lineage[k].schedule
  BY ListsAre
<1>2. CASE ~NewObjective
  BY <1>1, <1>2 DEF Reranked
<1>3. CASE NewObjective
  <2>1. PICK rank \in [Usable(g) -> Ranks[g]] :
          list = [k \in Usable(g) |-> [Inherited(g)[k] EXCEPT !.rank = rank[k]]]
    BY <1>3 DEF Reranked
  <2>2. Ranks[g] \subseteq Int
    BY ConstantsAreTyped
  <2>3. ASSUME NEW k \in Usable(g)
        PROVE  /\ list[k] \in Scored /\ list[k].id = Inherited(g)[k].id
               /\ list[k].schedule = Inherited(g)[k].schedule
    <3>1. Inherited(g)[k] \in Scored /\ rank[k] \in Int
      BY <1>1, <2>1, <2>2 DEF IsList
    <3>2. list[k] = [Inherited(g)[k] EXCEPT !.rank = rank[k]]
      BY <2>1
    <3> QED BY <3>1, <3>2 DEF Scored
  <2> QED BY <1>1, <2>1, <2>3 DEF IsList
<1> QED BY <1>2, <1>3

LEMMA RebuildDoes ==
  ASSUME Shape, \A k \in DOMAIN lineage : lineage[k].parent = None => lineage[k].ordinal = k,
         UsableGenerations # {}, resume_nodes
  PROVE  /\ phase' = "prune" /\ gen' = last_usable_generation /\ gen' \in 0..(Generations - 1)
         /\ (~NewObjective => ranked' = Sorted(Inherited(gen')))
         /\ ranked' \in Seq(Scored) /\ Len(ranked') >= 2
         /\ \A k \in DOMAIN ranked' : \E l \in DOMAIN lineage :
              /\ lineage[l].id[1] = gen' /\ ranked'[k].id = lineage[l].id
              /\ ranked'[k].schedule = lineage[l].schedule
         /\ ordinal' = RecoveredOrdinal /\ ordinal' \in Nat
         /\ beam' = <<>> /\ status' = <<>> /\ recorded' = 0 /\ width' = 1
<1> DEFINE g == last_usable_generation
<1>1. /\ phase' = "prune" /\ gen' = g /\ ordinal' = RecoveredOrdinal
      /\ beam' = <<>> /\ status' = <<>> /\ recorded' = 0 /\ width' = 1
  BY DEF resume_nodes, Cleared
<1>2. g \in UsableGenerations /\ g \in 0..(Generations - 1)
  BY LastUsable
<1>3. PICK list \in Reranked(g) : ranked' = Sorted(list)
  BY DEF resume_nodes
<1> HIDE DEF g
<1>4. Cardinality(Usable(g)) >= 2
  BY <1>2 DEF UsableGenerations
<1>5. /\ IsList(list) /\ DOMAIN list = Usable(g)
      /\ \A k \in Usable(g) : /\ k \in DOMAIN lineage
                              /\ list[k].id = lineage[k].id
                              /\ list[k].schedule = lineage[k].schedule
  BY <1>2, <1>3, RerankedIs
<1>6. /\ ranked' \in Seq(Scored) /\ Len(ranked') = Cardinality(Usable(g))
      /\ \A k \in DOMAIN ranked' : \E l \in Usable(g) : ranked'[k] = list[l]
  BY <1>3, <1>5, SortedIsTyped
<1>7. \A l \in Usable(g) : lineage[l].id[1] = g
  BY DEF Usable
<1>8. \A k \in DOMAIN ranked' : \E l \in DOMAIN lineage :
        /\ lineage[l].id[1] = g /\ ranked'[k].id = lineage[l].id
        /\ ranked'[k].schedule = lineage[l].schedule
  BY <1>5, <1>6, <1>7
<1>9. RecoveredOrdinal \in Nat
  BY Recovered
<1>10. ~NewObjective => ranked' = Sorted(Inherited(g))
  BY <1>3 DEF Reranked
<1> QED BY <1>1, <1>2, <1>4, <1>6, <1>8, <1>9, <1>10 DEF g

LEMMA SpawnDoes ==
  ASSUME Shape, InMemory, Spawn, gen + 1 < Generations
  PROVE  /\ phase = "prune" /\ phase' = "wave" /\ gen' = gen + 1 /\ gen' \in 0..(Generations - 1)
         /\ ranked \in Seq(Scored) /\ Kept(ranked) \in Seq(Scored)
         /\ Len(Kept(ranked)) >= 2 /\ Len(Kept(ranked)) <= KeepTop
         /\ beam' = spawn_children(Kept(ranked), gen, ordinal)
         /\ beam' \in Seq(Node) /\ Len(beam') >= 1 /\ Len(beam') \in Nat /\ DOMAIN beam' = 1..Len(beam')
         /\ width' \in 1..Concurrency /\ status' \in [DOMAIN beam' -> Progress]
         /\ \A i \in DOMAIN beam' : status'[i].at = "todo" /\ status'[i].rank = 0
         /\ recorded' = 0 /\ ranked' = <<>>
         /\ ordinal' = ordinal + Len(beam') /\ ordinal' \in Nat
         /\ UNCHANGED <<files, resumes, lost>>
<1>1. /\ phase = "prune" /\ UNCHANGED <<files, resumes, lost>>
      /\ StartGeneration(gen + 1, spawn_children(Kept(ranked), gen, ordinal))
  BY DEF Spawn
<1>2. ranked \in Seq(Scored) /\ Len(ranked) >= 2 /\ gen \in 0..(Generations - 1) /\ ordinal \in Nat
  BY <1>1 DEF Shape, InMemory
<1>3. /\ Kept(ranked) \in Seq(Scored) /\ Len(Kept(ranked)) >= 2 /\ Len(Kept(ranked)) <= KeepTop
  BY <1>2, KeptIs
<1> DEFINE b == spawn_children(Kept(ranked), gen, ordinal)
<1>4. gen \in Nat /\ gen + 1 \in 0..(Generations - 1) /\ Len(Kept(ranked)) >= 1
  BY <1>2, <1>3, ConstantsAreTyped
<1>5. b \in Seq(Node) /\ Len(b) >= 1
  BY <1>2, <1>3, <1>4, Spawned
<1> HIDE DEF b
<1>6. Len(b) \in Nat /\ DOMAIN b = 1..Len(b)
  BY <1>5
<1>7. /\ phase' = "wave" /\ gen' = gen + 1 /\ beam' = b /\ width' \in 1..Concurrency
      /\ status' \in [DOMAIN b -> Progress]
      /\ \A i \in DOMAIN b : status'[i].at = "todo" /\ status'[i].rank = 0
      /\ recorded' = 0 /\ ranked' = <<>>
      /\ ordinal' = ordinal + Len(b) /\ ordinal' \in Nat
  BY <1>1, <1>2, <1>5, StartDoes DEF b
<1> QED BY <1>1, <1>2, <1>3, <1>4, <1>5, <1>6, <1>7 DEF b

LEMMA SearchDoes ==
  ASSUME Shape, search
  PROVE  /\ phase = "start" /\ phase' = "wave" /\ gen' = 0 /\ 0 \in 0..(Generations - 1)
         /\ beam' = initial_nodes /\ beam' \in Seq(Node) /\ Len(beam') = Replicas
         /\ Replicas \in Nat \ {0} /\ DOMAIN beam' = 1..Replicas
         /\ width' \in 1..Concurrency /\ status' \in [DOMAIN beam' -> Progress]
         /\ \A i \in DOMAIN beam' : status'[i].at = "todo" /\ status'[i].rank = 0
         /\ recorded' = 0 /\ ranked' = <<>>
         /\ ordinal' = ordinal + Replicas /\ ordinal' \in Nat
         /\ UNCHANGED <<files, resumes, lost>>
<1>1. /\ phase = "start" /\ UNCHANGED <<files, resumes, lost>> /\ StartGeneration(0, initial_nodes)
  BY DEF search
<1>2. initial_nodes \in Seq(Node) /\ Len(initial_nodes) = Replicas /\ ordinal \in Nat
  BY Launched DEF Shape
<1>3. Replicas \in Nat \ {0} /\ 0 \in 0..(Generations - 1)
  BY ConstantsAreTyped
<1> HIDE DEF initial_nodes
<1>4. DOMAIN initial_nodes = 1..Replicas
  BY <1>2
<1>5. /\ phase' = "wave" /\ gen' = 0 /\ beam' = initial_nodes /\ width' \in 1..Concurrency
      /\ status' \in [DOMAIN initial_nodes -> Progress]
      /\ \A i \in DOMAIN initial_nodes : status'[i].at = "todo" /\ status'[i].rank = 0
      /\ recorded' = 0 /\ ranked' = <<>>
      /\ ordinal' = ordinal + Len(initial_nodes) /\ ordinal' \in Nat
  BY <1>1, <1>2, StartDoes
<1> QED BY <1>1, <1>2, <1>3, <1>4, <1>5

Leaves == TooFew \/ Finish \/ Stop \/ (Spawn /\ ~(gen + 1 < Generations))

LEMMA LeaveDoes ==
  ASSUME Shape, Leaves
  PROVE  /\ phase \in {"wave", "rank", "prune"} /\ phase' \in {"down", "finished"}
         /\ beam' = <<>> /\ status' = <<>> /\ recorded' = 0 /\ ranked' = <<>>
         /\ width' = 1 /\ ordinal' = 0 /\ gen' = 0
         /\ lost' = [nodes |-> beam, parents |-> Parents]
         /\ Parents \in SUBSET (Id \cup {None})
         /\ torn' \in BOOLEAN
         /\ UNCHANGED <<lineage, checkpoints, resumes>>
<1>1. /\ phase \in {"wave", "rank", "prune"} /\ torn' \in BOOLEAN
      /\ UNCHANGED <<lineage, checkpoints, resumes>>
      /\ \E p \in {"down", "finished"} : Leave(p)
  <2>1. torn \in BOOLEAN
    BY DEF Shape
  <2> QED BY <2>1 DEF Leaves, TooFew, Finish, Stop, Spawn, files
<1>2. Parents \in SUBSET (Id \cup {None})
  <2>1. CASE phase = "prune"
    <3>1. ranked \in Seq(Scored)
      BY DEF Shape
    <3>2. Kept(ranked) \in Seq(Scored)
      BY <3>1, KeptIs
    <3>3. \A k \in DOMAIN Kept(ranked) : Kept(ranked)[k].id \in Id
      BY <3>2, ScoredIsTyped
    <3> QED BY <2>1, <3>3 DEF Parents, Ids
  <2>2. CASE phase # "prune"
    BY <2>2, PartsAreTyped DEF Parents
  <2> QED BY <2>1, <2>2
<1> QED BY <1>1, <1>2 DEF Leave, Cleared

-----------------------------------------------------------------------------
(* Part one of the invariant, step by step.                                *)

Base == Shape /\ InMemory /\ Family /\ Numbers

LEMMA EmptyBeam ==
  ASSUME beam' = <<>>, status' = <<>>, recorded' = 0
  PROVE  /\ beam' \in Seq(Node) /\ status' \in [DOMAIN beam' -> Progress]
         /\ recorded' \in 0..Len(beam') /\ DOMAIN beam' = {}
<1>1. <<>> \in Seq(Node) /\ Len(<<>>) = 0 /\ DOMAIN <<>> = {}
  OBVIOUS
<1>2. <<>> \in [{} -> Progress]
  OBVIOUS
<1> QED BY <1>1, <1>2

LEMMA ShapeStep ==
  ASSUME Base, [Next]_vars
  PROVE  Shape'
<1> USE DEF Base
<1>1. CASE search
  <2>1. 0 \in 0..Len(beam') /\ \A i \in DOMAIN beam' : status'[i].rank \in Ranks[0] \cup {0}
    BY <1>1, SearchDoes
  <2>2. /\ phase' \in {"start", "wave", "rank", "prune", "down", "finished"}
        /\ gen' = 0 /\ 0 \in 0..(Generations - 1) /\ width' \in 1..Concurrency /\ ordinal' \in Nat
        /\ beam' \in Seq(Node) /\ status' \in [DOMAIN beam' -> Progress]
        /\ recorded' = 0 /\ ranked' = <<>> /\ UNCHANGED <<files, resumes, lost>>
    BY <1>1, SearchDoes
  <2> QED BY <2>1, <2>2 DEF Shape, files
<1>2. CASE record_wave
  <2>1. 0 <= recorded + 1 /\ recorded + 1 <= Len(beam) /\ recorded + 1 \in 0..Len(beam)
    BY <1>2, RecordDoes, PartsAreTyped
  <2> QED BY <1>2, <2>1, RecordDoes DEF Shape
<1>3. ASSUME NEW i \in DOMAIN beam, Stage(i) PROVE Shape'
  <2>1. beam[i].id \in Id
    BY PartsAreTyped
  <2>2. \A j \in DOMAIN beam : status'[j].rank \in Ranks[gen] \cup {0}
    BY <1>3, StageDoes DEF Shape
  <2> QED BY <1>3, <2>1, <2>2, StageDoes DEF Shape
<1>4. CASE Select
  <2>1. /\ beam' \in Seq(Node) /\ status' \in [DOMAIN beam' -> Progress]
        /\ recorded' \in 0..Len(beam') /\ DOMAIN beam' = {}
    BY <1>4, SelectDoes, EmptyBeam
  <2>2. /\ phase' = "prune" /\ ranked' \in Seq(Scored)
        /\ UNCHANGED <<gen, width, ordinal, files, resumes, lost>>
    BY <1>4, SelectDoes
  <2> QED BY <2>1, <2>2 DEF Shape, files
<1>5. CASE Spawn /\ gen + 1 < Generations
  <2>1. 0 \in 0..Len(beam')
    BY <1>5, SpawnDoes
  <2>2. /\ phase' \in {"start", "wave", "rank", "prune", "down", "finished"}
        /\ gen' \in 0..(Generations - 1) /\ width' \in 1..Concurrency /\ ordinal' \in Nat
        /\ beam' \in Seq(Node) /\ status' \in [DOMAIN beam' -> Progress]
        /\ \A i \in DOMAIN beam' : status'[i].rank = 0
        /\ recorded' = 0 /\ ranked' = <<>> /\ UNCHANGED <<files, resumes, lost>>
    BY <1>5, SpawnDoes
  <2> QED BY <2>1, <2>2 DEF Shape, files
<1>6. CASE Leaves
  <2>1. /\ beam' \in Seq(Node) /\ status' \in [DOMAIN beam' -> Progress]
        /\ recorded' \in 0..Len(beam') /\ DOMAIN beam' = {}
    BY <1>6, LeaveDoes, EmptyBeam
  <2>2. 0 \in 0..(Generations - 1) /\ 1 \in 1..Concurrency
    BY ConstantsAreTyped
  <2>3. lost'.nodes \in Seq(Node) /\ lost'.parents \in SUBSET (Id \cup {None})
    BY <1>6, LeaveDoes DEF Shape
  <2>4. /\ phase' \in {"down", "finished"} /\ width' = 1 /\ ordinal' = 0 /\ gen' = 0
        /\ ranked' = <<>> /\ torn' \in BOOLEAN /\ UNCHANGED <<lineage, checkpoints, resumes>>
    BY <1>6, LeaveDoes
  <2>5. <<>> \in Seq(Scored) /\ 0 \in Nat
    OBVIOUS
  <2> QED BY <2>1, <2>2, <2>3, <2>4, <2>5 DEF Shape
<1>7. ASSUME NEW id \in Doomed, Prune(id) PROVE Shape'
  <2>1. /\ id \in DOMAIN checkpoints
        /\ \/ checkpoints' = [checkpoints EXCEPT ![id].world = Half]
           \/ checkpoints' = Restrict(checkpoints, DOMAIN checkpoints \ {id})
        /\ UNCHANGED <<phase, memory, lineage, torn, resumes, lost>>
    BY <1>7 DEF Prune, Doomed
  <2>2. checkpoints \in [DOMAIN checkpoints -> Copied] /\ DOMAIN checkpoints \subseteq Id
    BY DEF Shape
  <2>3. checkpoints' \in [DOMAIN checkpoints' -> Copied] /\ DOMAIN checkpoints' \subseteq Id
    <3>1. CASE checkpoints' = [checkpoints EXCEPT ![id].world = Half]
      <4>1. checkpoints[id] \in Copied
        BY <2>1, <2>2
      <4>2. Half \in History
        BY DEF Half, History
      <4>3. [checkpoints[id] EXCEPT !.world = Half] \in Copied
        BY <4>1, <4>2 DEF Copied
      <4> QED BY <2>1, <2>2, <3>1, <4>3
    <3>2. CASE checkpoints' = Restrict(checkpoints, DOMAIN checkpoints \ {id})
      BY <2>2, <3>2 DEF Restrict
    <3> QED BY <2>1, <3>1, <3>2
  <2> QED BY <2>1, <2>3 DEF Shape, memory
<1>8. ASSUME UsableGenerations # {}, resume_nodes, resumes < MaxResumes, resumes' = resumes + 1,
             UNCHANGED <<lineage, torn, lost>>,
             checkpoints' \in [DOMAIN checkpoints' -> Copied], DOMAIN checkpoints' \subseteq Id
      PROVE  Shape'
  <2>1. /\ beam' \in Seq(Node) /\ status' \in [DOMAIN beam' -> Progress]
        /\ recorded' \in 0..Len(beam') /\ DOMAIN beam' = {}
    BY <1>8, RebuildDoes, EmptyBeam DEF Numbers
  <2>2. 1 \in 1..Concurrency /\ resumes + 1 \in 0..MaxResumes
    <3>1. resumes \in Nat /\ Concurrency \in Nat \ {0} /\ MaxResumes \in Nat
      BY ScalarsAreTyped, ConstantsAreTyped
    <3> QED BY <1>8, <3>1
  <2>3. /\ phase' = "prune" /\ gen' \in 0..(Generations - 1) /\ ranked' \in Seq(Scored)
        /\ ordinal' \in Nat /\ beam' = <<>> /\ status' = <<>> /\ recorded' = 0 /\ width' = 1
    BY <1>8, RebuildDoes DEF Numbers
  <2> QED BY <1>8, <2>1, <2>2, <2>3 DEF Shape
<1>9. CASE Resume
  <2>1. CASE Resumable
    <3>1. /\ UsableGenerations # {} /\ resume_nodes /\ resumes' = resumes + 1
          /\ resumes < MaxResumes /\ UNCHANGED <<lineage, torn, checkpoints, lost>>
      BY <1>9, <2>1 DEF Resume, Resumable, files
    <3>2. checkpoints' \in [DOMAIN checkpoints' -> Copied] /\ DOMAIN checkpoints' \subseteq Id
      BY <3>1 DEF Shape
    <3> QED BY <1>8, <3>1, <3>2
  <2>2. CASE ~Resumable
    <3>1. resumes + 1 \in 0..MaxResumes
      BY <1>9, ScalarsAreTyped, ConstantsAreTyped DEF Resume
    <3>2. /\ phase' = "down" /\ resumes' = resumes + 1
          /\ UNCHANGED <<gen, beam, width, status, recorded, ranked, ordinal,
                         lineage, torn, checkpoints, lost>>
      BY <1>9, <2>2 DEF Resume, memory, files
    <3> QED BY <3>1, <3>2 DEF Shape
  <2> QED BY <2>1, <2>2
<1>10. CASE clone_for_resume
  <2>1. PICK ok : checkpoints' = Restrict(checkpoints, Ids(ok)) /\ Ids(ok) \subseteq DOMAIN checkpoints
    <3> DEFINE g == last_usable_generation
    <3>1. checkpoints' = Restrict(checkpoints, Ids(Inherited(g)))
      BY <1>10 DEF clone_for_resume
    <3>2. \A k \in DOMAIN Inherited(g) : Inherited(g)[k].id \in DOMAIN checkpoints
      <4> HIDE DEF g
      <4>1. DOMAIN Inherited(g) = Usable(g) /\ \A k \in Usable(g) : Inherited(g)[k].id = lineage[k].id
        BY ListsAre
      <4>2. \A k \in Usable(g) : lineage[k].id \in DOMAIN checkpoints
        BY DEF Usable, HasCheckpoint
      <4> QED BY <4>1, <4>2
    <3>3. Ids(Inherited(g)) \subseteq DOMAIN checkpoints
      BY <3>2 DEF Ids
    <3> QED BY <3>1, <3>3
  <2>2. checkpoints' \in [DOMAIN checkpoints' -> Copied] /\ DOMAIN checkpoints' \subseteq Id
    BY <2>1 DEF Shape, Restrict
  <2> QED BY <1>8, <1>10, <2>2 DEF clone_for_resume, Resumable
<1>11. CASE UNCHANGED vars
  BY <1>11 DEF vars, memory, files, Shape
<1> QED BY <1>1, <1>2, <1>3, <1>4, <1>5, <1>6, <1>7, <1>9, <1>10, <1>11
        DEF Next, Work, Stage, Leaves

(* The kinds of steps there are.                                           *)
Rebuild      == (Resume \/ clone_for_resume) /\ Resumable
FailedResume == Resume /\ ~Resumable
SpawnNext    == Spawn /\ gen + 1 < Generations

LEMMA Kinds ==
  ASSUME [Next]_vars
  PROVE  \/ search \/ record_wave \/ (\E i \in DOMAIN beam : Stage(i))
         \/ Select \/ SpawnNext \/ Leaves \/ (\E id \in Doomed : Prune(id))
         \/ Rebuild \/ FailedResume \/ UNCHANGED vars
<1>1. CASE Resume \/ clone_for_resume
  BY <1>1 DEF Rebuild, FailedResume, clone_for_resume
<1>2. CASE Work \/ Stop
  BY <1>2 DEF Work, Stage, Leaves, SpawnNext
<1> QED BY <1>1, <1>2 DEF Next

(* A pruned directory is emptied or gone.                                  *)
LEMMA PruneDoes ==
  ASSUME Shape, NEW id \in Doomed, Prune(id)
  PROVE  /\ phase = "prune" /\ id \in Ids(Pruned(ranked)) /\ id \in DOMAIN checkpoints
         /\ UNCHANGED <<phase, gen, beam, width, status, recorded, ranked, ordinal,
                        lineage, torn, resumes, lost>>
         /\ DOMAIN checkpoints' \subseteq DOMAIN checkpoints
         /\ \A x \in DOMAIN checkpoints : x # id => x \in DOMAIN checkpoints' /\ checkpoints'[x] = checkpoints[x]
         /\ \A x \in DOMAIN checkpoints' : checkpoints'[x].meta = checkpoints[x].meta
<1>1. /\ phase = "prune" /\ id \in Ids(Pruned(ranked)) /\ id \in DOMAIN checkpoints
      /\ UNCHANGED <<phase, memory, lineage, torn, resumes, lost>>
  BY DEF Prune, Doomed
<1>2. /\ checkpoints \in [DOMAIN checkpoints -> Copied]
  BY DEF Shape
<1>3. CASE checkpoints' = [checkpoints EXCEPT ![id].world = Half]
  <2>1. [checkpoints[id] EXCEPT !.world = Half].meta = checkpoints[id].meta
    BY <1>1, <1>2 DEF Copied
  <2> QED BY <1>1, <1>2, <1>3, <2>1 DEF memory
<1>4. CASE checkpoints' = Restrict(checkpoints, DOMAIN checkpoints \ {id})
  <2>1. checkpoints' = [x \in DOMAIN checkpoints \ {id} |-> checkpoints[x]]
    BY <1>4 DEF Restrict
  <2> QED BY <1>1, <2>1 DEF memory
<1> QED BY <1>3, <1>4 DEF Prune

LEMMA RebuildStep ==
  ASSUME Shape, Numbers, Rebuild
  PROVE  /\ Ended /\ phase' = "prune"
         /\ gen' = last_usable_generation /\ gen' \in 0..(Generations - 1)
         /\ UsableGenerations # {}
         /\ (~NewObjective => ranked' = Sorted(Inherited(gen')))
         /\ ranked' \in Seq(Scored) /\ Len(ranked') >= 2
         /\ \A k \in DOMAIN ranked' : \E l \in DOMAIN lineage :
              /\ lineage[l].id[1] = gen' /\ ranked'[k].id = lineage[l].id
              /\ ranked'[k].schedule = lineage[l].schedule
         /\ ordinal' = RecoveredOrdinal /\ ordinal' \in Nat
         /\ beam' = <<>> /\ status' = <<>> /\ recorded' = 0 /\ width' = 1
         /\ resumes < MaxResumes /\ resumes' = resumes + 1
         /\ UNCHANGED <<lineage, torn, lost>>
         /\ \/ UNCHANGED checkpoints
            \/ checkpoints' = Restrict(checkpoints, Ids(Inherited(gen')))
<1>1. /\ UsableGenerations # {} /\ resume_nodes /\ Ended
      /\ resumes < MaxResumes /\ resumes' = resumes + 1
      /\ UNCHANGED <<lineage, torn, lost>>
      /\ \/ UNCHANGED checkpoints
         \/ checkpoints' = Restrict(checkpoints, Ids(Inherited(last_usable_generation)))
  BY DEF Rebuild, Resumable, Resume, clone_for_resume, files, Ended
<1>2. \A k \in DOMAIN lineage : lineage[k].parent = None => lineage[k].ordinal = k
  BY DEF Numbers
<1> HIDE DEF Ended
<1> QED BY <1>1, <1>2, RebuildDoes

LEMMA FailedDoes ==
  ASSUME FailedResume
  PROVE  /\ Ended /\ phase' = "down" /\ resumes < MaxResumes /\ resumes' = resumes + 1
         /\ UNCHANGED <<gen, beam, width, status, recorded, ranked, ordinal,
                        lineage, torn, checkpoints, lost>>
BY DEF FailedResume, Resume, memory, files, Ended

LEMMA InMemoryStep ==
  ASSUME Base, [Next]_vars
  PROVE  InMemory'
<1> USE DEF Base
<1>1. CASE search
  BY <1>1, SearchDoes DEF InMemory, Running
<1>2. CASE record_wave
  <2>1. recorded < Len(beam) /\ Len(beam) \in Nat /\ recorded \in Nat
    BY <1>2, RecordDoes, PartsAreTyped DEF InMemory
  <2>2. \A j \in 1..(recorded + 1) : status[j].at \in {"ok", "error"}
    <3>1. \A j \in 1..(recorded + 1) : j = recorded + 1 \/ j \in 1..recorded
      BY <2>1
    <3> QED BY <1>2, <3>1, RecordDoes DEF InMemory
  <2> QED BY <1>2, <2>1, <2>2, RecordDoes DEF InMemory, Running
<1>3. ASSUME NEW i \in DOMAIN beam, Stage(i) PROVE InMemory'
  <2>1. /\ phase = "wave" /\ i > recorded /\ recorded \in 0..Len(beam) /\ Len(beam) \in Nat
        /\ DOMAIN beam = 1..Len(beam)
    BY <1>3, InTheWave, PartsAreTyped DEF Shape
  <2>2. \A j \in 1..recorded : j \in DOMAIN beam /\ j # i
    BY <2>1
  <2>3. /\ UNCHANGED <<phase, beam, recorded, ranked, resumes>>
        /\ \A j \in DOMAIN beam : j # i => status'[j] = status[j]
    BY <1>3, StageDoes
  <2> QED BY <2>2, <2>3 DEF InMemory, Running
<1>4. CASE Select
  BY <1>4, SelectDoes DEF InMemory, Running
<1>5. CASE SpawnNext
  <2>1. phase' = "wave" /\ recorded' = 0 /\ Len(beam') >= 1 /\ Len(beam') \in Nat
    BY <1>5, SpawnDoes DEF SpawnNext
  <2> QED BY <2>1 DEF InMemory, Running
<1>6. CASE Leaves
  BY <1>6, LeaveDoes DEF InMemory, Running
<1>7. ASSUME NEW id \in Doomed, Prune(id) PROVE InMemory'
  BY <1>7, PruneDoes DEF InMemory, Running
<1>8. CASE Rebuild
  <2>1. phase' = "prune" /\ beam' = <<>> /\ recorded' = 0 /\ Len(ranked') >= 2
    BY <1>8, RebuildStep
  <2> QED BY <2>1 DEF InMemory, Running
<1>9. CASE FailedResume
  BY <1>9, FailedDoes DEF InMemory, Running, Ended
<1>10. CASE UNCHANGED vars
  BY <1>10 DEF vars, memory, files, InMemory, Running
<1> QED BY <1>1, <1>2, <1>3, <1>4, <1>5, <1>6, <1>7, <1>8, <1>9, <1>10, Kinds

LEMMA FamilyStep ==
  ASSUME Base, [Next]_vars
  PROVE  Family'
<1> USE DEF Base
<1> DEFINE B == \A i \in DOMAIN beam : beam[i].id = <<gen, i - 1>> /\ Descends(beam[i])
           R == \A k \in DOMAIN ranked : ranked[k].id[1] = gen /\ Len(ranked[k].schedule) = gen + 1
           L == \A k \in DOMAIN lineage : Descends(lineage[k])
<1>0. B /\ R /\ L /\ gen \in Nat /\ ranked \in Seq(Scored)
  <2>1. B /\ R /\ L
    BY DEF Family
  <2>2. ranked \in Seq(Scored)
    BY DEF Shape
  <2> QED BY <2>1, <2>2, ScalarsAreTyped
<1> SUFFICES B' /\ R' /\ L'
  BY DEF Family
<1>1. CASE search
  <2>1. \A i \in 1..Replicas : Descends(initial_nodes[i]) /\ initial_nodes[i].id = <<0, i - 1>>
    <3> SUFFICES ASSUME NEW i \in 1..Replicas
                 PROVE  Descends(initial_nodes[i]) /\ initial_nodes[i].id = <<0, i - 1>>
      OBVIOUS
    <3>1. /\ initial_nodes[i].id = <<0, i - 1>> /\ initial_nodes[i].parent = None
          /\ initial_nodes[i].ordinal = i /\ initial_nodes[i].schedule = <<i>>
      BY Launched
    <3>2. Len(<<i>>) = 0 + 1 /\ <<i>>[0 + 1] = i
      OBVIOUS
    <3> QED BY <3>1, <3>2 DEF Descends
  <2>2. /\ gen' = 0 /\ beam' = initial_nodes /\ DOMAIN beam' = 1..Replicas
        /\ ranked' = <<>> /\ lineage' = lineage
    BY <1>1, SearchDoes DEF files
  <2> QED BY <1>0, <2>1, <2>2
<1>2. CASE record_wave
  <2>1. Descends(Record(recorded + 1))
    <3>1. Descends(beam[recorded + 1])
      BY <1>0, <1>2, RecordDoes
    <3> QED BY <3>1 DEF Descends, Record
  <2>2. L'
    <3>1. \A k \in DOMAIN lineage' : k \in DOMAIN lineage \/ k = Len(lineage) + 1
      BY <1>2, RecordDoes, PartsAreTyped
    <3>2. /\ \A k \in DOMAIN lineage : lineage'[k] = lineage[k]
          /\ lineage'[Len(lineage) + 1] = Record(recorded + 1)
      BY <1>2, RecordDoes
    <3> HIDE DEF Record
    <3> QED BY <1>0, <2>1, <3>1, <3>2
  <2>3. UNCHANGED <<beam, gen, ranked>>
    BY <1>2, RecordDoes
  <2> QED BY <1>0, <2>2, <2>3
<1>3. ASSUME NEW i \in DOMAIN beam, Stage(i) PROVE B' /\ R' /\ L'
  <2>1. UNCHANGED <<beam, gen, ranked, lineage>>
    BY <1>3, StageDoes
  <2> QED BY <1>0, <2>1
<1>4. CASE Select
  <2>1. R'
    <3> SUFFICES ASSUME NEW k \in DOMAIN ranked'
                 PROVE  ranked'[k].id[1] = gen /\ Len(ranked'[k].schedule) = gen + 1
      BY <1>4, SelectDoes
    <3>1. PICK i \in DOMAIN beam : ranked'[k].id = beam[i].id /\ ranked'[k].schedule = beam[i].schedule
      BY <1>4, SelectDoes
    <3>2. beam[i].id = <<gen, i - 1>> /\ Len(beam[i].schedule) = beam[i].id[1] + 1
      BY <1>0 DEF Descends
    <3> QED BY <3>1, <3>2
  <2>2. beam' = <<>> /\ UNCHANGED lineage
    BY <1>4, SelectDoes DEF files
  <2> QED BY <1>0, <2>1, <2>2
<1>5. CASE SpawnNext
  <2> DEFINE keep == Kept(ranked)
             b == spawn_children(keep, gen, ordinal)
  <2>1. /\ keep \in Seq(Scored) /\ Len(keep) >= 1 /\ gen \in Nat /\ ordinal \in Nat
        /\ gen' = gen + 1 /\ beam' = b /\ ranked' = <<>> /\ lineage' = lineage
    BY <1>0, <1>5, SpawnDoes DEF SpawnNext, Shape, files
  <2>2. \A j \in DOMAIN keep : j \in DOMAIN ranked /\ keep[j] = ranked[j]
    <3>1. DOMAIN keep = 1..Len(keep)
      BY <2>1
    <3> QED BY <1>0, <3>1, KeptIs
  <2>3. \A i \in DOMAIN b :
          /\ b[i].id = <<gen + 1, i - 1>> /\ b[i].ordinal = ordinal + i
          /\ \E j \in DOMAIN keep : /\ b[i].parent = keep[j].id
                                    /\ b[i].schedule = Append(keep[j].schedule, ordinal + i)
    <3> HIDE DEF keep
    <3> QED BY <2>1, Spawned
  <2> HIDE DEF b, keep
  <2>4. ASSUME NEW i \in DOMAIN b PROVE Descends(b[i])
    <3>1. PICK j \in DOMAIN keep : /\ b[i].parent = keep[j].id
                                   /\ b[i].schedule = Append(keep[j].schedule, ordinal + i)
      BY <2>3
    <3>2. keep[j].id[1] = gen /\ Len(keep[j].schedule) = gen + 1
      BY <1>0, <2>2
    <3>3. keep[j].id \in Id /\ keep[j].schedule \in Seq(Nat \ {0})
      <4>1. keep[j] \in Scored
        BY <2>1
      <4> QED BY <4>1, ScoredIsTyped DEF Schedule
    <3>4. Len(b[i].schedule) = gen + 1 + 1 /\ b[i].schedule[gen + 1 + 1] = ordinal + i
      BY <1>0, <3>1, <3>2, <3>3
    <3>5. b[i].id[1] = gen + 1 /\ b[i].ordinal = ordinal + i
      BY <2>3
    <3>6. gen + 1 # 0 /\ gen = gen + 1 - 1
      BY <1>0
    <3> DEFINE h == gen + 1
    <3>7. b[i].parent \in Id /\ b[i].parent[1] = h - 1
      <4>1. b[i].parent = keep[j].id
        BY <3>1
      <4>2. b[i].parent[1] = gen
        BY <3>2, <4>1
      <4>3. h - 1 = gen
        BY <1>0
      <4>4. b[i].parent \in Id
        BY <3>3, <4>1
      <4> QED BY <4>2, <4>3, <4>4
    <3>8. Len(b[i].schedule) = h + 1 /\ b[i].schedule[h + 1] = b[i].ordinal
      BY <3>4, <3>5
    <3>9. b[i].id[1] = h /\ h # 0
      BY <3>5, <3>6
    <3> HIDE DEF h
    <3> QED BY <3>7, <3>8, <3>9 DEF Descends
  <2> QED BY <1>0, <2>1, <2>3, <2>4
<1>6. CASE Leaves
  <2>1. beam' = <<>> /\ ranked' = <<>> /\ lineage' = lineage
    BY <1>6, LeaveDoes
  <2> QED BY <1>0, <2>1
<1>7. ASSUME NEW id \in Doomed, Prune(id) PROVE B' /\ R' /\ L'
  <2>1. UNCHANGED <<beam, gen, ranked, lineage>>
    BY <1>7, PruneDoes
  <2> QED BY <1>0, <2>1
<1>8. CASE Rebuild
  <2>1. R'
    <3> SUFFICES ASSUME NEW k \in DOMAIN ranked'
                 PROVE  ranked'[k].id[1] = gen' /\ Len(ranked'[k].schedule) = gen' + 1
      OBVIOUS
    <3>1. PICK l \in DOMAIN lineage : /\ lineage[l].id[1] = gen' /\ ranked'[k].id = lineage[l].id
                                      /\ ranked'[k].schedule = lineage[l].schedule
      BY <1>8, RebuildStep
    <3>2. Len(lineage[l].schedule) = lineage[l].id[1] + 1
      BY <1>0 DEF Descends
    <3> QED BY <3>1, <3>2
  <2>2. beam' = <<>> /\ UNCHANGED lineage
    BY <1>8, RebuildStep
  <2> QED BY <1>0, <2>1, <2>2
<1>9. CASE FailedResume
  <2>1. UNCHANGED <<beam, gen, ranked, lineage>>
    BY <1>9, FailedDoes
  <2> QED BY <1>0, <2>1
<1>10. CASE UNCHANGED vars
  <2>1. UNCHANGED <<beam, gen, ranked, lineage>>
    BY <1>10 DEF vars, memory, files
  <2> QED BY <1>0, <2>1
<1> QED BY <1>1, <1>2, <1>3, <1>4, <1>5, <1>6, <1>7, <1>8, <1>9, <1>10, Kinds

(* The reseeds of a generation follow all that are recorded.               *)
LEMMA NumbersStep ==
  ASSUME Base, [Next]_vars
  PROVE  Numbers'
<1> USE DEF Base
<1> DEFINE A == /\ Len(beam) <= ordinal
                /\ \A i \in DOMAIN beam : beam[i].ordinal = ordinal - Len(beam) + i
           B == ~Ended => \A k \in DOMAIN lineage : lineage[k].ordinal <= Given
           C == /\ \A j, k \in DOMAIN lineage : lineage[j].ordinal = lineage[k].ordinal => j = k
                /\ \A k \in DOMAIN lineage : lineage[k].parent = None => lineage[k].ordinal = k
           D == /\ phase = "start" => lineage = <<>> /\ ordinal = 0
                /\ Running /\ gen = 0 => Len(lineage) = recorded /\ ordinal = Len(beam)
<1>0. A /\ B /\ C /\ D
  BY DEF Numbers
<1>0a. /\ Len(beam) \in Nat /\ ordinal \in Nat /\ recorded \in Nat /\ gen \in Nat
       /\ DOMAIN beam = 1..Len(beam)
       /\ Len(lineage) \in Nat /\ DOMAIN lineage = 1..Len(lineage)
       /\ \A k \in DOMAIN lineage : lineage[k].ordinal \in Nat
  BY PartsAreTyped, ScalarsAreTyped
<1> SUFFICES A' /\ B' /\ C' /\ D'
  BY DEF Numbers
<1>1. CASE search
  <2>1. /\ phase = "start" /\ phase' = "wave" /\ gen' = 0 /\ beam' = initial_nodes
        /\ Len(beam') = Replicas /\ Replicas \in Nat \ {0} /\ DOMAIN beam' = 1..Replicas
        /\ recorded' = 0 /\ ordinal' = ordinal + Replicas /\ lineage' = lineage
    BY <1>1, SearchDoes DEF files
  <2>2. lineage = <<>> /\ ordinal = 0
    BY <1>0, <2>1
  <2>3. \A i \in 1..Replicas : beam'[i].ordinal = i
    BY <2>1, Launched
  <2>4. ordinal' = Len(beam') /\ Len(lineage') = 0 /\ DOMAIN lineage' = {}
    BY <2>1, <2>2
  <2>5. A'
    BY <2>1, <2>3, <2>4
  <2> QED BY <2>1, <2>4, <2>5 DEF Running, Ended
<1>2. CASE record_wave
  <2> DEFINE r == Record(recorded + 1)
             n == Len(lineage) + 1
  <2>1. /\ phase = "wave" /\ recorded + 1 \in DOMAIN beam
        /\ DOMAIN lineage' = 1..n /\ \A k \in DOMAIN lineage : lineage'[k] = lineage[k]
        /\ lineage'[n] = r /\ Len(lineage') = n
        /\ recorded' = recorded + 1 /\ phase' \in {"wave", "rank"}
        /\ UNCHANGED <<gen, beam, ordinal>>
    BY <1>2, RecordDoes
  <2>2. r.ordinal = beam[recorded + 1].ordinal /\ r.parent = beam[recorded + 1].parent
    BY DEF Record
  <2> HIDE DEF r
  <2>3. r.ordinal = Given + 1 /\ Given \in Int /\ Given' = Given + 1
    <3>1. r.ordinal = ordinal - Len(beam) + (recorded + 1)
      <4>1. \A i \in DOMAIN beam : beam[i].ordinal = ordinal - Len(beam) + i
        BY <1>0
      <4> QED BY <2>1, <2>2, <4>1
    <3> QED BY <1>0a, <2>1, <3>1 DEF Given
  <2>4. \A k \in DOMAIN lineage : lineage[k].ordinal <= Given
    BY <1>0, <2>1 DEF Ended
  <2>5. \A k \in DOMAIN lineage' : k \in DOMAIN lineage \/ k = n
    BY <1>0a, <2>1
  <2>5a. n \in Nat /\ n \notin DOMAIN lineage
    BY <1>0a
  <2> HIDE DEF n
  <2>6. B'
    BY <1>0a, <2>1, <2>3, <2>4, <2>5
  <2>7. r.parent = None => r.ordinal = n
    <3> SUFFICES ASSUME r.parent = None PROVE r.ordinal = n
      OBVIOUS
    <3>1. Descends(beam[recorded + 1]) /\ beam[recorded + 1].id[1] = gen
      BY <2>1 DEF Family
    <3>2. gen = 0
      BY <2>2, <3>1, ConstantsAreTyped DEF Descends
    <3>3. Len(lineage) = recorded /\ ordinal = Len(beam)
      BY <1>0, <2>1, <3>2 DEF Running
    <3> QED BY <1>0a, <2>3, <3>3 DEF n, Given
  <2>8. C'
    <3>1. \A k \in DOMAIN lineage : lineage'[k].ordinal # r.ordinal
      BY <1>0a, <2>1, <2>3, <2>4
    <3>2. \A j, k \in DOMAIN lineage' : lineage'[j].ordinal = lineage'[k].ordinal => j = k
      <4>1. \A j, k \in DOMAIN lineage : lineage[j].ordinal = lineage[k].ordinal => j = k
        BY <1>0
      <4> HIDE DEF n
      <4> QED BY <2>1, <2>5, <3>1, <4>1
    <3>3. \A k \in DOMAIN lineage' : lineage'[k].parent = None => lineage'[k].ordinal = k
      <4>1. \A k \in DOMAIN lineage : lineage[k].parent = None => lineage[k].ordinal = k
        BY <1>0
      <4> HIDE DEF n
      <4> QED BY <2>1, <2>5, <2>7, <4>1
    <3> QED BY <3>2, <3>3
  <2>9. D'
    <3> SUFFICES ASSUME gen = 0 PROVE Len(lineage') = recorded' /\ ordinal' = Len(beam')
      BY <2>1
    <3>1. Len(lineage) = recorded /\ ordinal = Len(beam)
      BY <1>0, <2>1 DEF Running
    <3> QED BY <2>1, <3>1 DEF n
  <2> QED BY <1>0, <2>1, <2>6, <2>8, <2>9
<1>3. ASSUME NEW i \in DOMAIN beam, Stage(i) PROVE A' /\ B' /\ C' /\ D'
  <2>1. UNCHANGED <<phase, gen, beam, recorded, ordinal, lineage>>
    BY <1>3, StageDoes
  <2> QED BY <1>0, <2>1 DEF Given, Running, Ended
<1>4. CASE Select
  <2>1. /\ phase = "rank" /\ phase' = "prune" /\ beam' = <<>> /\ recorded' = 0
        /\ UNCHANGED <<gen, ordinal, lineage>> /\ Len(beam') = 0 /\ DOMAIN beam' = {}
    BY <1>4, SelectDoes DEF files
  <2>2. recorded = Len(beam)
    BY <2>1 DEF InMemory
  <2>3. Given' = Given
    BY <1>0a, <2>1, <2>2 DEF Given
  <2>4. B'
    BY <1>0, <2>1, <2>3 DEF Ended
  <2>5. A'
    BY <1>0a, <2>1
  <2> QED BY <1>0, <2>1, <2>4, <2>5 DEF Running
<1>5. CASE SpawnNext
  <2> DEFINE keep == Kept(ranked)
             b == spawn_children(keep, gen, ordinal)
  <2>1. /\ phase = "prune" /\ phase' = "wave" /\ gen' = gen + 1
        /\ keep \in Seq(Scored) /\ Len(keep) >= 1
        /\ beam' = b /\ recorded' = 0 /\ ordinal' = ordinal + Len(beam') /\ lineage' = lineage
        /\ Len(beam') \in Nat /\ DOMAIN beam' = 1..Len(beam')
    BY <1>5, SpawnDoes DEF SpawnNext, files
  <2>2. \A i \in DOMAIN b : b[i].ordinal = ordinal + i
    <3>1. keep \in Seq(Scored) /\ Len(keep) >= 1 /\ gen \in Nat /\ ordinal \in Nat
      BY <1>0a, <2>1
    <3> HIDE DEF keep
    <3>2. \A i \in DOMAIN spawn_children(keep, gen, ordinal) :
            spawn_children(keep, gen, ordinal)[i].ordinal = ordinal + i
      BY <3>1, Spawned
    <3> QED BY <3>2
  <2>3. beam = <<>> /\ recorded = 0
    <3>1. beam = <<>>
      BY <2>1 DEF InMemory, Running
    <3> QED BY <3>1 DEF Shape
  <2> HIDE DEF b, keep
  <2>4. A'
    BY <1>0a, <2>1, <2>2
  <2>5. Given' = ordinal /\ Given = ordinal
    BY <1>0a, <2>1, <2>3 DEF Given
  <2>6. B'
    BY <1>0, <2>1, <2>5 DEF Ended
  <2>7. gen' # 0
    BY <1>0a, <2>1
  <2> QED BY <1>0, <2>1, <2>4, <2>6, <2>7
<1>6. CASE Leaves
  <2>1. /\ beam' = <<>> /\ ordinal' = 0 /\ lineage' = lineage /\ Ended' /\ ~Running' /\ phase' # "start"
        /\ Len(beam') = 0 /\ DOMAIN beam' = {}
    BY <1>6, LeaveDoes DEF Ended, Running
  <2> QED BY <1>0, <2>1
<1>7. ASSUME NEW id \in Doomed, Prune(id) PROVE A' /\ B' /\ C' /\ D'
  <2>1. UNCHANGED <<phase, gen, beam, recorded, ordinal, lineage>>
    BY <1>7, PruneDoes
  <2> QED BY <1>0, <2>1 DEF Given, Running, Ended
<1>8. CASE Rebuild
  <2>1. /\ beam' = <<>> /\ recorded' = 0 /\ ordinal' = RecoveredOrdinal /\ ordinal' \in Nat
        /\ lineage' = lineage /\ phase' = "prune" /\ Len(beam') = 0 /\ DOMAIN beam' = {}
    BY <1>8, RebuildStep
  <2>2. \A k \in DOMAIN lineage : lineage[k].ordinal <= RecoveredOrdinal
    BY <1>0, Recovered
  <2>3. Given' = RecoveredOrdinal
    BY <2>1 DEF Given
  <2>4. A' /\ B'
    BY <2>1, <2>2, <2>3
  <2> QED BY <1>0, <2>1, <2>4 DEF Running
<1>9. CASE FailedResume
  <2>1. /\ UNCHANGED <<gen, beam, recorded, ordinal, lineage>>
        /\ Ended' /\ ~Running' /\ phase' # "start"
    BY <1>9, FailedDoes DEF Ended, Running
  <2> QED BY <1>0, <2>1
<1>10. CASE UNCHANGED vars
  <2>1. UNCHANGED <<phase, gen, beam, recorded, ordinal, lineage>>
    BY <1>10 DEF vars, memory, files
  <2> QED BY <1>0, <2>1 DEF Given, Running, Ended
<1> QED BY <1>1, <1>2, <1>3, <1>4, <1>5, <1>6, <1>7, <1>8, <1>9, <1>10, Kinds

LEMMA BaseAtStart == Init => Base
<1> SUFFICES ASSUME Init PROVE Base
  OBVIOUS
<1>1. /\ <<>> \in Seq(Node) /\ <<>> \in Seq(Scored) /\ <<>> \in Seq(Line)
      /\ Len(<<>>) = 0 /\ DOMAIN <<>> = {} /\ <<>> \in [{} -> Progress] /\ <<>> \in [{} -> Copied]
  OBVIOUS
<1>2. 0 \in 0..(Generations - 1) /\ 1 \in 1..Concurrency /\ 0 \in 0..MaxResumes
  BY ConstantsAreTyped
<1>2a. beam = <<>> /\ status = <<>> /\ ranked = <<>> /\ lineage = <<>> /\ checkpoints = <<>>
  BY DEF Init
<1>2b. /\ lost.nodes = <<>> /\ lost.parents = {}
       /\ {} \in SUBSET (Id \cup {None}) /\ {} \subseteq Id
  BY DEF Init
<1>2c. /\ phase = "start" /\ gen = 0 /\ width = 1 /\ ordinal = 0 /\ recorded = 0
       /\ torn = FALSE /\ resumes = 0
  BY DEF Init
<1>3. Shape
  <2>1. /\ beam \in Seq(Node) /\ status \in [DOMAIN beam -> Progress] /\ DOMAIN beam = {}
        /\ recorded \in 0..Len(beam) /\ ranked \in Seq(Scored) /\ lineage \in Seq(Line)
    BY <1>1, <1>2a, <1>2c
  <2>2. DOMAIN checkpoints \subseteq Id /\ checkpoints \in [DOMAIN checkpoints -> Copied]
    BY <1>1, <1>2a, <1>2b
  <2>3. lost.nodes \in Seq(Node) /\ lost.parents \in SUBSET (Id \cup {None})
    BY <1>1, <1>2b
  <2> QED BY <1>2, <1>2c, <2>1, <2>2, <2>3 DEF Shape
<1>4. InMemory /\ Family
  BY <1>1 DEF Init, InMemory, Family, Running
<1>5. Numbers
  BY <1>1 DEF Init, Numbers, Running, Ended
<1> QED BY <1>3, <1>4, <1>5 DEF Base

LEMMA BaseStep == Base /\ [Next]_vars => Base'
<1>1. ASSUME Base, [Next]_vars PROVE Shape' /\ InMemory' /\ Family' /\ Numbers'
  BY <1>1, ShapeStep, InMemoryStep, FamilyStep, NumbersStep
<1> QED BY <1>1 DEF Base

LEMMA AlwaysBase == Spec => []Base
BY BaseAtStart, BaseStep, PTL DEF Spec

(* Every variable keeps its shape, however often a search is resumed: node *)
(* names follow the generation, scores are of it, files hold what was put. *)
THEOREM TypeCorrect == Spec => []TypeOK
<1>1. ASSUME Base PROVE TypeOK
  <2> USE <1>1 DEF Base
  <2>1. gen \in Nat /\ \A i \in DOMAIN beam : beam[i].id = <<gen, i - 1>>
    BY ScalarsAreTyped DEF Family
  <2>2. \A i \in DOMAIN beam : /\ beam[i].schedule \in History
                               /\ status[i].rank \in Ranks[gen] \cup {0} /\ status[i].world \in History
    BY PartsAreTyped DEF Shape, Schedule, History
  <2>3. DOMAIN status = DOMAIN beam
    BY DEF Shape
  <2>4. \A k \in DOMAIN ranked : ranked[k].id \in Id
    <3>1. \A k \in DOMAIN ranked : ranked[k] \in Scored
      BY DEF Shape
    <3> QED BY <3>1, ScoredIsTyped
  <2>5. \A k \in DOMAIN lineage : lineage[k].id \in Id
    BY PartsAreTyped
  <2>6. \A id \in DOMAIN checkpoints : /\ id \in Id /\ checkpoints[id].meta \in BOOLEAN
                                       /\ checkpoints[id].world \in History
    <3>1. \A id \in DOMAIN checkpoints : id \in Id /\ checkpoints[id] \in Copied
      BY DEF Shape
    <3>2. \A c \in Copied : c.meta \in BOOLEAN /\ c.world \in History
      BY DEF Copied
    <3> QED BY <3>1, <3>2
  <2> QED BY <2>1, <2>2, <2>3, <2>4, <2>5, <2>6 DEF TypeOK, Shape
<1> QED BY <1>1, AlwaysBase, PTL

(* However often a search is killed and resumed, no two records share a    *)
(* reseed, and no node that is still running has one of a record.          *)
THEOREM ReseedsNeverCollide == Spec => []ReseedsDistinct
<1>1. ASSUME Base PROVE ReseedsDistinct
  <2> USE <1>1 DEF Base
  <2>1. \A j, k \in DOMAIN lineage : lineage[j].ordinal = lineage[k].ordinal => j = k
    BY DEF Numbers
  <2>2. ASSUME NEW i \in DOMAIN beam, NEW k \in DOMAIN lineage, i > recorded
        PROVE  beam[i].ordinal # lineage[k].ordinal
    <3>1. beam # <<>>
      BY <2>2
    <3>2. ~Ended
      BY <3>1 DEF InMemory, Running, Ended
    <3>3. lineage[k].ordinal <= Given /\ beam[i].ordinal = ordinal - Len(beam) + i
      BY <3>2 DEF Numbers
    <3>4. /\ Len(beam) \in Nat /\ ordinal \in Nat /\ recorded \in Nat /\ i \in Nat
          /\ lineage[k].ordinal \in Nat
      BY PartsAreTyped, ScalarsAreTyped
    <3> QED BY <2>2, <3>3, <3>4 DEF Given
  <2> QED BY <2>1, <2>2 DEF ReseedsDistinct
<1> QED BY <1>1, AlwaysBase, PTL

-----------------------------------------------------------------------------
(* Part two: worlds and schedules.                                         *)

LEMMA StageIs ==
  ASSUME Shape, NEW i \in DOMAIN beam, Stage(i)
  PROVE  \/ status'[i].at = "error" /\ UNCHANGED checkpoints
         \/ /\ status'[i].at = "ready" /\ status'[i].world = Booted(i) /\ CanBoot(i)
            /\ UNCHANGED checkpoints
         \/ /\ status[i].at = "ready" /\ status'[i].at = "copying"
            /\ status'[i].world = status[i].world /\ beam[i].id \in DOMAIN checkpoints'
         \/ /\ status[i].at = "copying" /\ status'[i].at = "ok"
            /\ status'[i].world = status[i].world
            /\ beam[i].id \in DOMAIN checkpoints =>
                 /\ beam[i].id \in DOMAIN checkpoints'
                 /\ checkpoints'[beam[i].id] = [meta |-> TRUE, world |-> status[i].world]
<1>1. status \in [DOMAIN beam -> Progress]
  BY DEF Shape
<1>2. ASSUME NEW at, NEW r, NEW w, Reach(i, at, r, w)
      PROVE  status'[i].at = at /\ status'[i].world = w
  BY <1>1, <1>2 DEF Reach
<1>3. CASE Prepare(i)
  BY <1>2, <1>3 DEF Prepare, files
<1>4. CASE checkpoint(i)
  <2>1. beam[i].id \in DOMAIN checkpoints'
    BY <1>4 DEF checkpoint
  <2> QED BY <1>2, <1>4, <2>1 DEF checkpoint
<1>5. CASE WriteMeta(i)
  <2> DEFINE c == [meta |-> TRUE, world |-> status[i].world]
  <2>1. checkpoints' = [checkpoints EXCEPT ![beam[i].id] = c]
    BY <1>5 DEF WriteMeta
  <2>2. beam[i].id \in DOMAIN checkpoints =>
          beam[i].id \in DOMAIN checkpoints' /\ checkpoints'[beam[i].id] = c
    <3> HIDE DEF c
    <3> QED BY <2>1
  <2>3. status[i].at = "copying" /\ Reach(i, "ok", status[i].rank, status[i].world)
    BY <1>5 DEF WriteMeta
  <2>4. status'[i].at = "ok" /\ status'[i].world = status[i].world
    BY <1>2, <2>3
  <2> QED BY <2>2, <2>3, <2>4
<1>6. CASE Fail(i)
  BY <1>2, <1>6 DEF Fail, files
<1> QED BY <1>3, <1>4, <1>5, <1>6 DEF Stage

(* The parents are of the generation before.                               *)
LEMMA ParentsAreOlder ==
  ASSUME Base, NEW i \in DOMAIN beam, NEW j \in DOMAIN beam
  PROVE  /\ beam[j].parent # None => beam[j].parent # beam[i].id /\ beam[j].parent \in Id
         /\ beam[i].id = beam[j].id => i = j
         /\ beam[i].schedule = beam[j].schedule => i = j
         /\ beam[j].parent # None <=> gen > 0
<1> USE DEF Base
<1>1. /\ beam[i].id = <<gen, i - 1>> /\ Descends(beam[i])
      /\ beam[j].id = <<gen, j - 1>> /\ Descends(beam[j])
  BY DEF Family
<1>2. gen \in Nat /\ i \in Nat /\ j \in Nat
  BY ScalarsAreTyped, PartsAreTyped
<1>3. beam[j].parent # None => beam[j].parent \in Id /\ beam[j].parent[1] = gen - 1
  BY <1>1, PartsAreTyped DEF Descends
<1>4. beam[j].parent # None => beam[j].parent # beam[i].id
  <2>1. gen - 1 # gen /\ beam[i].id[1] = gen
    BY <1>1, <1>2
  <2> QED BY <1>3, <2>1
<1>5. beam[i].id = beam[j].id => i = j
  <2>1. beam[i].id[2] = i - 1 /\ beam[j].id[2] = j - 1
    BY <1>1
  <2> QED BY <1>2, <2>1
<1>6. beam[i].schedule = beam[j].schedule => i = j
  <2> SUFFICES ASSUME beam[i].schedule = beam[j].schedule PROVE i = j
    OBVIOUS
  <2>1. beam[i].ordinal = beam[j].ordinal
    BY <1>1 DEF Descends
  <2>2. ordinal - Len(beam) + i = ordinal - Len(beam) + j
    BY <2>1 DEF Numbers
  <2>3. ordinal \in Nat /\ Len(beam) \in Nat
    BY PartsAreTyped DEF Shape
  <2> QED BY <1>2, <2>2, <2>3
<1>7. beam[j].parent # None <=> gen > 0
  <2>1. beam[j].id[1] = gen
    BY <1>1
  <2>2. gen = 0 => beam[j].parent = None
    BY <1>1, <2>1 DEF Descends
  <2>3. gen # 0 => beam[j].parent \in Id
    BY <1>1, <2>1 DEF Descends
  <2> QED BY <1>2, <2>2, <2>3, ConstantsAreTyped
<1> QED BY <1>3, <1>4, <1>5, <1>6, <1>7

(* A node boots the world that its schedule says.                          *)
LEMMA BootsItsSchedule ==
  ASSUME Base, ParentsOnDisk, NEW i \in DOMAIN beam
  PROVE  Booted(i) = beam[i].schedule
<1>1. CASE beam[i].parent = None
  BY <1>1 DEF Booted
<1>2. CASE beam[i].parent # None
  <2> DEFINE w == checkpoints[beam[i].parent].world
  <2>1. Append(w, beam[i].ordinal) = beam[i].schedule
    BY <1>2 DEF ParentsOnDisk
  <2>2. w # Half
    <3> SUFFICES ASSUME w = Half PROVE FALSE
      OBVIOUS
    <3>1. Append(Half, beam[i].ordinal)[1] = 0 /\ Len(Append(Half, beam[i].ordinal)) = 2
      BY DEF Half
    <3>2. beam[i].schedule \in Seq(Nat \ {0})
      BY PartsAreTyped DEF Base, Schedule
    <3>3. beam[i].schedule[1] = 0 /\ Len(beam[i].schedule) = 2
      <4> HIDE DEF w
      <4> QED BY <2>1, <3>1
    <3> QED BY <3>2, <3>3
  <2> QED BY <1>2, <2>1, <2>2 DEF Booted
<1> QED BY <1>1, <1>2

Steady ==
  \A i \in DOMAIN beam :
    /\ status[i].at \in {"ready", "copying", "ok"} => status[i].world = beam[i].schedule
    /\ status[i].at = "copying" => beam[i].id \in DOMAIN checkpoints
    /\ status[i].at = "ok" => /\ HasCheckpoint(beam[i].id)
                              /\ checkpoints[beam[i].id].world = beam[i].schedule

Broad == Running /\ gen > 0 =>
           /\ Cardinality({beam[i].parent : i \in DOMAIN beam}) >= 2
           /\ Len(beam) = BeamWidth

Chosen == phase = "prune" => OneEach(ranked) /\ Whole(Kept(ranked))

LEMMA FaithfulIs == Faithful <=> ParentsOnDisk /\ LineageFaithful /\ Steady /\ Chosen /\ Broad
BY DEF Faithful, Steady, Chosen, Broad

LEMMA StageIsFaithful ==
  ASSUME Base, Faithful, NEW i \in DOMAIN beam, Stage(i)
  PROVE  Faithful'
<1> USE DEF Base
<1>0. ParentsOnDisk /\ LineageFaithful /\ Steady /\ Chosen /\ Broad
  BY FaithfulIs
<1>1. /\ UNCHANGED <<phase, gen, beam, width, recorded, ranked, ordinal,
                     lineage, torn, resumes, lost>>
      /\ \A j \in DOMAIN beam : j # i => status'[j] = status[j]
      /\ DOMAIN checkpoints \subseteq DOMAIN checkpoints'
      /\ \A id \in DOMAIN checkpoints : id # beam[i].id => checkpoints'[id] = checkpoints[id]
  BY StageDoes
<1>2. phase = "wave"
  BY InTheWave
<1>3. ParentsOnDisk'
  <2> SUFFICES ASSUME NEW j \in DOMAIN beam, beam[j].parent # None
               PROVE  /\ beam[j].parent \in DOMAIN checkpoints'
                      /\ checkpoints'[beam[j].parent].meta
                      /\ Append(checkpoints'[beam[j].parent].world, beam[j].ordinal) = beam[j].schedule
    BY <1>1 DEF ParentsOnDisk, HasCheckpoint
  <2>1. /\ beam[j].parent \in DOMAIN checkpoints /\ checkpoints[beam[j].parent].meta
        /\ Append(checkpoints[beam[j].parent].world, beam[j].ordinal) = beam[j].schedule
    BY <1>0 DEF ParentsOnDisk, HasCheckpoint
  <2>2. beam[j].parent # beam[i].id
    BY ParentsAreOlder
  <2>3. beam[j].parent \in DOMAIN checkpoints' /\ checkpoints'[beam[j].parent] = checkpoints[beam[j].parent]
    BY <1>1, <2>1, <2>2
  <2> QED BY <2>1, <2>3
<1>4. Steady'
  <2> SUFFICES ASSUME NEW j \in DOMAIN beam
               PROVE  /\ status'[j].at \in {"ready", "copying", "ok"} => status'[j].world = beam[j].schedule
                      /\ status'[j].at = "copying" => beam[j].id \in DOMAIN checkpoints'
                      /\ status'[j].at = "ok" => /\ beam[j].id \in DOMAIN checkpoints'
                                                 /\ checkpoints'[beam[j].id].meta
                                                 /\ checkpoints'[beam[j].id].world = beam[j].schedule
    BY <1>1 DEF Steady, HasCheckpoint
  <2>1. CASE j # i
    <3>1. status'[j] = status[j] /\ beam[j].id # beam[i].id
      BY <1>1, <2>1, ParentsAreOlder
    <3> QED BY <1>0, <1>1, <3>1 DEF Steady, HasCheckpoint
  <2>2. CASE j = i
    <3>1. CASE status'[i].at = "error"
      BY <2>2, <3>1
    <3>2. CASE status'[i].at = "ready" /\ status'[i].world = Booted(i)
      BY <1>0, <2>2, <3>2, BootsItsSchedule
    <3>3. CASE /\ status[i].at = "ready" /\ status'[i].at = "copying"
               /\ status'[i].world = status[i].world /\ beam[i].id \in DOMAIN checkpoints'
      BY <1>0, <2>2, <3>3 DEF Steady
    <3>4. CASE /\ status[i].at = "copying" /\ status'[i].at = "ok"
               /\ status'[i].world = status[i].world
               /\ beam[i].id \in DOMAIN checkpoints =>
                    /\ beam[i].id \in DOMAIN checkpoints'
                    /\ checkpoints'[beam[i].id] = [meta |-> TRUE, world |-> status[i].world]
      <4>1. status[i].world = beam[i].schedule /\ beam[i].id \in DOMAIN checkpoints
        BY <1>0, <3>4 DEF Steady
      <4>2. checkpoints'[beam[i].id].meta /\ checkpoints'[beam[i].id].world = beam[i].schedule
        BY <3>4, <4>1
      <4> QED BY <2>2, <3>4, <4>1, <4>2
    <3> QED BY <3>1, <3>2, <3>3, <3>4, StageIs
  <2> QED BY <2>1, <2>2
<1>5. LineageFaithful' /\ Chosen' /\ Broad'
  BY <1>0, <1>1, <1>2 DEF LineageFaithful, Chosen, Broad, Running
<1>6. Faithful' <=> ParentsOnDisk' /\ LineageFaithful' /\ Steady' /\ Chosen' /\ Broad'
  BY DEF Faithful, Steady, Chosen, Broad
<1> QED BY <1>3, <1>4, <1>5, <1>6

(* The survivors of a generation are its best, each of them once, and each *)
(* of them saved.                                                          *)
LEMMA AliveOnce ==
  ASSUME Base, Faithful
  PROVE  /\ OneEach(Alive) /\ Keyed(Alive)
         /\ \A i \in DOMAIN Alive : /\ HasCheckpoint(Alive[i].id)
                                    /\ checkpoints[Alive[i].id].world = Alive[i].schedule
<1>1. /\ DOMAIN Alive = {i \in DOMAIN beam : status[i].at = "ok"}
      /\ \A i \in DOMAIN Alive : Alive[i].id = beam[i].id /\ Alive[i].schedule = beam[i].schedule
  BY ListsAre DEF Base
<1>2. OneEach(Alive)
  BY <1>1, ParentsAreOlder DEF OneEach
<1>3. Keyed(Alive)
  <2> SUFFICES ASSUME NEW j \in DOMAIN Alive, NEW k \in DOMAIN Alive, Alive[j].id[2] = Alive[k].id[2]
               PROVE  j = k
    BY DEF Keyed
  <2>1. /\ beam[j].id = <<gen, j - 1>> /\ beam[k].id = <<gen, k - 1>>
        /\ j \in DOMAIN beam /\ k \in DOMAIN beam
    BY <1>1 DEF Base, Family
  <2>2. j \in Nat /\ k \in Nat
    BY <2>1, PartsAreTyped DEF Base
  <2>3. Alive[j].id[2] = j - 1 /\ Alive[k].id[2] = k - 1
    BY <1>1, <2>1
  <2>4. j - 1 = k - 1
    BY <2>3
  <2> QED BY <2>2, <2>4
<1>4. \A i \in DOMAIN Alive : /\ HasCheckpoint(Alive[i].id)
                              /\ checkpoints[Alive[i].id].world = Alive[i].schedule
  BY <1>1, FaithfulIs DEF Steady
<1> QED BY <1>2, <1>3, <1>4

LEMMA KeptSubset ==
  ASSUME NEW s, IsList(s)
  PROVE  /\ Kept(Sorted(s)) \in Seq(Scored) /\ Sorted(s) \in Seq(Scored)
         /\ \A k \in DOMAIN Kept(Sorted(s)) : \E i \in DOMAIN s : Kept(Sorted(s))[k] = s[i]
<1> DEFINE a == Sorted(s)
<1>1. a \in Seq(Scored) /\ \A k \in DOMAIN a : \E i \in DOMAIN s : a[k] = s[i]
  BY SortedIsTyped
<1> HIDE DEF a
<1>2. /\ Kept(a) \in Seq(Scored)
      /\ \A k \in 1..Len(Kept(a)) : k \in DOMAIN a /\ Kept(a)[k] = a[k]
  BY <1>1, KeptIs
<1>3. DOMAIN Kept(a) = 1..Len(Kept(a))
  BY <1>2
<1> QED BY <1>1, <1>2, <1>3 DEF a

LEMMA ParentsFinite ==
  ASSUME NEW nodes \in Seq(Node)
  PROVE  IsFiniteSet({nodes[i].parent : i \in DOMAIN nodes})
<1> DEFINE n == Len(nodes)
           P == {nodes[i].parent : i \in DOMAIN nodes}
           f == [i \in 1..n |-> nodes[i].parent]
<1>1. n \in Nat /\ DOMAIN nodes = 1..n
  OBVIOUS
<1> HIDE DEF n
<1>2. f \in Surjection(1..n, P)
  BY <1>1 DEF Surjection
<1>3. IsFiniteSet(1..n)
  BY <1>1, FS_Interval
<1> HIDE DEF f, P
<1>4. IsFiniteSet(P)
  BY <1>2, <1>3, FS_Surjection
<1> QED BY <1>4 DEF P

(* Every child grows out of a kept world; two of them are different.       *)
LEMMA SpawnIsFaithful ==
  ASSUME Base, Base', Faithful, SpawnNext
  PROVE  ParentsOnDisk' /\ Broad'
<1> DEFINE keep == Kept(ranked)
           b == spawn_children(keep, gen, ordinal)
<1>1. /\ phase = "prune" /\ ranked \in Seq(Scored) /\ keep \in Seq(Scored)
      /\ Len(keep) >= 2 /\ Len(keep) <= KeepTop
      /\ beam' = b /\ checkpoints' = checkpoints
  BY SpawnDoes DEF SpawnNext, Base, files
<1>2. OneEach(keep) /\ Whole(keep)
  <2>1. OneEach(ranked) /\ Whole(keep)
    BY <1>1, FaithfulIs DEF Chosen
  <2> QED BY <1>1, <2>1, KeptIdsAre
<1>3. gen \in Nat /\ ordinal \in Nat
  BY ConstantsAreTyped DEF Base, Shape
<1> HIDE DEF keep
<1>4. /\ \A i \in DOMAIN b :
           /\ b[i].ordinal = ordinal + i
           /\ \E j \in DOMAIN keep : /\ b[i].parent = keep[j].id
                                     /\ b[i].schedule = Append(keep[j].schedule, ordinal + i)
      /\ \A j \in DOMAIN keep : \E i \in DOMAIN b : b[i].parent = keep[j].id
      /\ Len(b) = BeamWidth
  <2>1. Len(keep) >= 1 /\ keep \in Seq(Scored) /\ Len(keep) <= KeepTop /\ OneEach(keep)
    BY <1>1, <1>2
  <2> QED BY <1>3, <2>1, Spawned
<1> HIDE DEF b
<1>5. ParentsOnDisk'
  <2> SUFFICES ASSUME NEW i \in DOMAIN b
               PROVE  /\ b[i].parent \in DOMAIN checkpoints /\ checkpoints[b[i].parent].meta
                      /\ Append(checkpoints[b[i].parent].world, b[i].ordinal) = b[i].schedule
    BY <1>1 DEF ParentsOnDisk, HasCheckpoint
  <2>1. PICK j \in DOMAIN keep : /\ b[i].parent = keep[j].id
                                 /\ b[i].schedule = Append(keep[j].schedule, ordinal + i)
    BY <1>4
  <2>2. HasCheckpoint(keep[j].id) /\ checkpoints[keep[j].id].world = keep[j].schedule
    BY <1>2 DEF Whole
  <2> QED BY <1>4, <2>1, <2>2 DEF HasCheckpoint
<1>6. Broad'
  <2> DEFINE P == {b[i].parent : i \in DOMAIN b}
  <2>1. 1 \in DOMAIN keep /\ 2 \in DOMAIN keep
    BY <1>1
  <2>2. keep[1].id # keep[2].id
    BY <1>2, <2>1 DEF OneEach
  <2>3. keep[1].id \in P /\ keep[2].id \in P
    BY <1>4, <2>1
  <2>4. IsFiniteSet(P)
    <3>1. b \in Seq(Node)
      BY <1>1 DEF Base, Shape
    <3> QED BY <3>1, ParentsFinite
  <2> HIDE DEF P
  <2>5. Cardinality(P) >= 2
    BY <2>2, <2>3, <2>4, TwoOrMore
  <2> QED BY <1>1, <1>4, <2>5 DEF Broad, P
<1> QED BY <1>5, <1>6

LEMMA FaithfulStep ==
  ASSUME Base, Base', Faithful, [Next]_vars,
         Rebuild => /\ ~NewObjective /\ Whole(NextKept)
                    /\ OneEach(Inherited(last_usable_generation))
  PROVE  Faithful'
<1>0. ParentsOnDisk /\ LineageFaithful /\ Steady /\ Chosen /\ Broad
  BY FaithfulIs
<1> SUFFICES ParentsOnDisk' /\ LineageFaithful' /\ Steady' /\ Chosen' /\ Broad'
  BY DEF Faithful, Steady, Chosen, Broad
<1>a. ASSUME beam' = <<>>, ~Running'
      PROVE  ParentsOnDisk' /\ Steady' /\ Broad'
  BY <1>a DEF ParentsOnDisk, Steady, Broad
<1>1. CASE search
  <2>1. /\ phase' = "wave" /\ gen' = 0 /\ beam' = initial_nodes /\ DOMAIN beam' = 1..Replicas
        /\ lineage' = lineage /\ checkpoints' = checkpoints
        /\ \A i \in DOMAIN beam' : status'[i].at = "todo"
    BY <1>1, SearchDoes DEF files, Base
  <2>2. \A i \in DOMAIN beam' : beam'[i].parent = None
    BY <2>1, Launched
  <2> QED BY <1>0, <2>1, <2>2 DEF ParentsOnDisk, LineageFaithful, Steady, Chosen, Broad
<1>2. CASE record_wave
  <2> DEFINE j == recorded + 1
             n == Len(lineage) + 1
  <2>1. /\ phase = "wave" /\ j \in DOMAIN beam
        /\ DOMAIN lineage' = 1..n /\ \A k \in DOMAIN lineage : lineage'[k] = lineage[k]
        /\ lineage'[n] = Record(j) /\ phase' \in {"wave", "rank"}
        /\ UNCHANGED <<gen, beam, status, ranked, checkpoints>>
    BY <1>2, RecordDoes DEF Base
  <2>2. \A k \in DOMAIN lineage' : k \in DOMAIN lineage \/ k = n
    BY <2>1, PartsAreTyped DEF Base
  <2> HIDE DEF j, n
  <2>3. Record(j).ok => Record(j).schedule = Record(j).world
    BY <1>0, <2>1 DEF Record, Steady
  <2>4. LineageFaithful'
    <3> HIDE DEF Record
    <3> QED BY <1>0, <2>1, <2>2, <2>3 DEF LineageFaithful
  <2> QED BY <1>0, <2>1, <2>4 DEF ParentsOnDisk, Steady, Chosen, Broad, Running, HasCheckpoint
<1>3. ASSUME NEW i \in DOMAIN beam, Stage(i)
      PROVE  ParentsOnDisk' /\ LineageFaithful' /\ Steady' /\ Chosen' /\ Broad'
  <2>1. Faithful'
    BY <1>3, StageIsFaithful
  <2> QED BY <2>1 DEF Faithful, Steady, Chosen, Broad
<1>4. CASE Select
  <2>1. /\ phase' = "prune" /\ beam' = <<>> /\ ranked' = Sorted(Alive)
        /\ lineage' = lineage /\ checkpoints' = checkpoints
    BY <1>4, SelectDoes DEF files, Base
  <2>2. IsList(Alive)
    BY ListsAre DEF Base
  <2>3. OneEach(ranked')
    BY <2>1, <2>2, AliveOnce, SortedOneEach
  <2>4. \A k \in DOMAIN Kept(ranked') : /\ HasCheckpoint(Kept(ranked')[k].id)
                                        /\ checkpoints[Kept(ranked')[k].id].world = Kept(ranked')[k].schedule
    BY <2>1, <2>2, AliveOnce, KeptSubset
  <2>5. Chosen'
    BY <2>1, <2>3, <2>4 DEF Chosen, Whole, HasCheckpoint
  <2> QED BY <1>0, <1>a, <2>1, <2>5 DEF LineageFaithful, Running
<1>5. CASE SpawnNext
  <2>1. /\ phase' = "wave" /\ lineage' = lineage
        /\ \A i \in DOMAIN beam' : status'[i].at = "todo"
    BY <1>5, SpawnDoes DEF SpawnNext, files, Base
  <2> QED BY <1>0, <1>5, <2>1, SpawnIsFaithful DEF LineageFaithful, Steady, Chosen
<1>6. CASE Leaves
  <2>1. phase' \in {"down", "finished"} /\ beam' = <<>> /\ lineage' = lineage
    BY <1>6, LeaveDoes DEF Base
  <2> QED BY <1>0, <1>a, <2>1 DEF LineageFaithful, Chosen, Running
<1>7. ASSUME NEW id \in Doomed, Prune(id)
      PROVE  ParentsOnDisk' /\ LineageFaithful' /\ Steady' /\ Chosen' /\ Broad'
  <2>1. /\ phase = "prune" /\ id \in Ids(Pruned(ranked))
        /\ UNCHANGED <<phase, beam, ranked, lineage>>
        /\ \A x \in DOMAIN checkpoints : x # id => x \in DOMAIN checkpoints' /\ checkpoints'[x] = checkpoints[x]
    BY <1>7, PruneDoes DEF Base
  <2>2. beam = <<>>
    BY <2>1 DEF Base, InMemory, Running
  <2>3. OneEach(ranked) /\ Whole(Kept(ranked)) /\ ranked \in Seq(Scored)
    BY <1>0, <2>1 DEF Chosen, Base, Shape
  <2>4. \A k \in DOMAIN Kept(ranked) : Kept(ranked)[k].id # id
    BY <2>1, <2>3, KeptIdsAre DEF Ids
  <2>5. \A k \in DOMAIN Kept(ranked) :
          /\ Kept(ranked)[k].id \in DOMAIN checkpoints' /\ checkpoints'[Kept(ranked)[k].id].meta
          /\ checkpoints'[Kept(ranked)[k].id].world = Kept(ranked)[k].schedule
    BY <2>1, <2>3, <2>4 DEF Whole, HasCheckpoint
  <2>6. Chosen'
    BY <2>1, <2>3, <2>5 DEF Chosen, Whole, HasCheckpoint
  <2> QED BY <1>0, <1>a, <2>1, <2>2, <2>6 DEF LineageFaithful, Running
<1>8. CASE Rebuild
  <2> DEFINE g == last_usable_generation
             s == Inherited(g)
  <2>1. /\ phase' = "prune" /\ beam' = <<>> /\ ranked' = Sorted(s) /\ lineage' = lineage
        /\ checkpoints' = checkpoints \/ checkpoints' = Restrict(checkpoints, Ids(s))
    BY <1>8, RebuildStep DEF Base
  <2>2. IsList(s) /\ OneEach(s) /\ Whole(Kept(Sorted(s)))
    BY <1>8, ListsAre DEF Base, NextKept
  <2> HIDE DEF s
  <2>3. OneEach(ranked')
    BY <2>1, <2>2, SortedOneEach
  <2>4. \A k \in DOMAIN Kept(ranked') : Kept(ranked')[k].id \in Ids(s)
    BY <2>1, <2>2, KeptSubset DEF Ids
  <2>5. \A x \in Ids(s) : x \in DOMAIN checkpoints => x \in DOMAIN checkpoints' /\ checkpoints'[x] = checkpoints[x]
    BY <2>1 DEF Restrict
  <2>6. \A k \in DOMAIN Kept(ranked') :
          /\ Kept(ranked')[k].id \in DOMAIN checkpoints' /\ checkpoints'[Kept(ranked')[k].id].meta
          /\ checkpoints'[Kept(ranked')[k].id].world = Kept(ranked')[k].schedule
    BY <2>1, <2>2, <2>4, <2>5 DEF Whole, HasCheckpoint
  <2>7. Chosen'
    BY <2>1, <2>3, <2>6 DEF Chosen, Whole, HasCheckpoint
  <2> QED BY <1>0, <1>a, <2>1, <2>7 DEF LineageFaithful, Running
<1>9. CASE FailedResume
  <2>1. /\ phase' = "down" /\ Ended /\ UNCHANGED <<beam, lineage>>
    BY <1>9, FailedDoes
  <2>2. beam = <<>>
    BY <2>1 DEF Base, InMemory, Running, Ended
  <2> QED BY <1>0, <1>a, <2>1, <2>2 DEF LineageFaithful, Chosen, Running
<1>10. CASE UNCHANGED vars
  BY <1>0, <1>10 DEF vars, memory, files, ParentsOnDisk, LineageFaithful, Steady, Chosen, Broad,
                     Running, HasCheckpoint, Whole
<1> QED BY <1>1, <1>2, <1>3, <1>4, <1>5, <1>6, <1>7, <1>8, <1>9, <1>10, Kinds

-----------------------------------------------------------------------------
(* The first life of a search: where its records are.                      *)

LEMMA RecordsOfThisGeneration ==
  ASSUME Base, FirstLife, Running
  PROVE  /\ Len(lineage) = Given /\ recorded <= Len(lineage) /\ recorded \in Nat
         /\ \A k \in DOMAIN lineage :
              \/ k <= Len(lineage) - recorded /\ lineage[k].id[1] < gen
              \/ \E j \in 1..recorded : /\ k = Len(lineage) - recorded + j
                                        /\ j \in DOMAIN beam /\ lineage[k] = Record(j)
                                        /\ lineage[k].id = <<gen, j - 1>>
         /\ \A j \in 1..recorded : /\ Len(lineage) - recorded + j \in DOMAIN lineage
                                   /\ lineage[Len(lineage) - recorded + j] = Record(j)
<1> USE DEF Base
<1>1. /\ Len(lineage) \in Nat /\ DOMAIN lineage = 1..Len(lineage) /\ recorded \in 0..Len(beam)
      /\ Len(beam) \in Nat /\ DOMAIN beam = 1..Len(beam) /\ ordinal \in Nat
  BY PartsAreTyped DEF Shape
<1>2. Len(lineage) = Given /\ Len(beam) <= ordinal
  BY DEF FirstLife, Running, Ended, Numbers
<1>3. recorded <= Len(lineage) /\ recorded \in Nat
  BY <1>1, <1>2 DEF Given
<1>4. \A j \in 1..recorded : j \in DOMAIN beam
  BY <1>1
<1>5. \A j \in 1..recorded : lineage[Len(lineage) - recorded + j] = Record(j)
  BY DEF FirstLife
<1>6. \A k \in DOMAIN lineage : k <= Len(lineage) - recorded => lineage[k].id[1] < gen
  BY DEF FirstLife
<1>7. \A j \in DOMAIN beam : Record(j).id = <<gen, j - 1>>
  BY DEF Record, Family
<1>8. ASSUME NEW k \in DOMAIN lineage, ~(k <= Len(lineage) - recorded)
      PROVE  \E j \in 1..recorded : k = Len(lineage) - recorded + j
  <2>1. k - (Len(lineage) - recorded) \in 1..recorded
    BY <1>1, <1>3, <1>8
  <2>2. k = Len(lineage) - recorded + (k - (Len(lineage) - recorded))
    BY <1>1, <1>3
  <2> QED BY <2>1, <2>2
<1>9. \A j \in 1..recorded : Len(lineage) - recorded + j \in DOMAIN lineage
  BY <1>1, <1>3
<1> HIDE DEF Record, Running
<1>10. ASSUME NEW k \in DOMAIN lineage
       PROVE  \/ k <= Len(lineage) - recorded /\ lineage[k].id[1] < gen
              \/ \E j \in 1..recorded : /\ k = Len(lineage) - recorded + j
                                        /\ j \in DOMAIN beam /\ lineage[k] = Record(j)
                                        /\ lineage[k].id = <<gen, j - 1>>
  <2>1. CASE k <= Len(lineage) - recorded
    BY <1>6, <2>1
  <2>2. CASE ~(k <= Len(lineage) - recorded)
    <3>1. PICK j \in 1..recorded : k = Len(lineage) - recorded + j
      BY <1>8, <2>2
    <3>2. lineage[k] = Record(j) /\ j \in DOMAIN beam
      BY <1>4, <1>5, <3>1
    <3>3. lineage[k].id = <<gen, j - 1>>
      BY <1>7, <3>2
    <3> QED BY <3>1, <3>2, <3>3
  <2> QED BY <2>1, <2>2
<1> QED BY <1>2, <1>3, <1>5, <1>9, <1>10

LEMMA UpToThisGeneration ==
  ASSUME Base, FirstLife, Running
  PROVE  \A k \in DOMAIN lineage : lineage[k].id[1] \in 0..gen
<1>1. gen \in Nat /\ \A k \in DOMAIN lineage : lineage[k].id[1] \in Nat
  BY PartsAreTyped, ScalarsAreTyped DEF Base
<1>2. \A k \in DOMAIN lineage : lineage[k].id[1] < gen \/ lineage[k].id[1] = gen
  BY RecordsOfThisGeneration
<1> QED BY <1>1, <1>2

LEMMA NotYetRecorded ==
  ASSUME Base, FirstLife, Running, NEW i \in DOMAIN beam, i > recorded, NEW k \in DOMAIN lineage
  PROVE  lineage[k].id # beam[i].id
<1>1. beam[i].id = <<gen, i - 1>> /\ i \in Nat /\ recorded \in Nat /\ gen \in Nat
      /\ lineage[k].id[1] \in Nat
  <2>1. Shape /\ Family
    BY DEF Base
  <2>2. i \in Nat /\ lineage[k].id[1] \in Nat
    BY <2>1, PartsAreTyped
  <2>3. recorded \in Nat /\ gen \in Nat
    BY <2>1, ScalarsAreTyped
  <2> QED BY <2>1, <2>2, <2>3 DEF Family
<1>2. CASE lineage[k].id[1] < gen
  <2>1. beam[i].id[1] = gen
    BY <1>1
  <2> QED BY <1>1, <1>2, <2>1
<1>3. CASE \E j \in 1..recorded : lineage[k].id = <<gen, j - 1>>
  <2>1. PICK j \in 1..recorded : lineage[k].id = <<gen, j - 1>>
    BY <1>3
  <2>2. lineage[k].id[2] = j - 1 /\ beam[i].id[2] = i - 1 /\ j - 1 # i - 1
    BY <1>1, <2>1
  <2> QED BY <2>2
<1> QED BY <1>2, <1>3, RecordsOfThisGeneration

LEMMA FirstLifeStep ==
  ASSUME Base, Base', FirstLife, [Next]_vars, resumes' = 0
  PROVE  FirstLife'
<1> USE DEF Base
<1> DEFINE A == ~Ended => lost.nodes = <<>> /\ Len(lineage) = Given
           B == \A j, k \in DOMAIN lineage : lineage[j].id = lineage[k].id => j = k
           C == \A k \in DOMAIN lineage : Running /\ k <= Len(lineage) - recorded => lineage[k].id[1] < gen
           D == \A j \in 1..recorded : Running => lineage[Len(lineage) - recorded + j] = Record(j)
           E == phase = "prune" => \A k \in DOMAIN lineage : lineage[k].id[1] <= gen
<1>0. A /\ B /\ C /\ D /\ E
  BY DEF FirstLife
<1>0a. /\ Len(lineage) \in Nat /\ DOMAIN lineage = 1..Len(lineage) /\ recorded \in Nat
       /\ Len(beam) \in Nat /\ ordinal \in Nat /\ gen \in Nat /\ resumes \in Nat
       /\ \A k \in DOMAIN lineage : lineage[k].id[1] \in Nat
  <2>1. /\ Len(lineage) \in Nat /\ DOMAIN lineage = 1..Len(lineage) /\ Len(beam) \in Nat
        /\ \A k \in DOMAIN lineage : lineage[k].id[1] \in Nat
    BY PartsAreTyped
  <2>2. recorded \in Nat /\ ordinal \in Nat /\ gen \in Nat /\ resumes \in Nat
    BY ScalarsAreTyped
  <2> QED BY <2>1, <2>2
<1> SUFFICES A' /\ B' /\ C' /\ D' /\ E'
  BY DEF FirstLife
<1>1. CASE search
  <2>1. /\ phase = "start" /\ phase' = "wave" /\ recorded' = 0 /\ ordinal' = ordinal + Replicas
        /\ Len(beam') = Replicas /\ Replicas \in Nat \ {0} /\ UNCHANGED <<lineage, lost>>
    BY <1>1, SearchDoes DEF files
  <2>2. lineage = <<>> /\ ordinal = 0
    BY <2>1 DEF Numbers
  <2>3. Len(lineage') = 0 /\ DOMAIN lineage' = {} /\ lost.nodes = <<>>
    BY <1>0, <2>1, <2>2 DEF Ended
  <2>4. A'
    BY <2>1, <2>2, <2>3 DEF Given
  <2> QED BY <2>1, <2>3, <2>4
<1>2. CASE record_wave
  <2> DEFINE j == recorded + 1
             n == Len(lineage) + 1
  <2>1. /\ phase = "wave" /\ j \in DOMAIN beam
        /\ Len(lineage') = n /\ DOMAIN lineage' = 1..n /\ \A k \in DOMAIN lineage : lineage'[k] = lineage[k]
        /\ lineage'[n] = Record(j) /\ phase' \in {"wave", "rank"} /\ recorded' = j
        /\ UNCHANGED <<gen, beam, status, ranked, ordinal, lost>>
    BY <1>2, RecordDoes
  <2>2. \A k \in DOMAIN lineage' : k \in DOMAIN lineage \/ k = n
    BY <1>0a, <2>1
  <2>3. j \in Nat /\ j > recorded /\ n \in Nat /\ n \notin DOMAIN lineage
        /\ Len(lineage) - recorded = n - j
    BY <1>0a
  <2>4. Record(j).id = beam[j].id /\ \A i : Record(i)' = Record(i)
    BY <2>1 DEF Record
  <2>5. Running
    BY <2>1 DEF Running
  <2>5a. \A k \in DOMAIN lineage : lineage[k].id # beam[j].id
    BY <2>1, <2>3, <2>5, NotYetRecorded
  <2>6. B'
    <3> HIDE DEF j, n, Record
    <3> QED BY <1>0, <2>1, <2>2, <2>4, <2>5a
  <2>7. A'
    <3>1. lost.nodes = <<>> /\ Len(lineage) = Given
      BY <1>0, <2>1 DEF Ended
    <3> QED BY <1>0a, <2>1, <3>1 DEF Given
  <2>8. C'
    <3> SUFFICES ASSUME NEW k \in DOMAIN lineage', k <= n - j PROVE lineage'[k].id[1] < gen
      BY <2>1
    <3>1. k \in DOMAIN lineage /\ k <= Len(lineage) - recorded
      BY <1>0a, <2>1, <2>3
    <3>2. lineage'[k] = lineage[k]
      BY <2>1, <3>1
    <3> QED BY <1>0, <2>5, <3>1, <3>2
  <2>9. D'
    <3> SUFFICES ASSUME NEW i \in 1..j PROVE lineage'[n - j + i] = Record(i)
      BY <2>1, <2>4
    <3>1. CASE i = j
      <4>1. n - j + i = n
        BY <2>3, <3>1
      <4> QED BY <2>1, <3>1, <4>1
    <3>2. CASE i # j
      <4>1. i \in 1..recorded /\ n - j + i = Len(lineage) - recorded + i
        BY <1>0a, <2>3, <3>2
      <4>2. lineage[Len(lineage) - recorded + i] = Record(i) /\ Len(lineage) - recorded + i \in DOMAIN lineage
        BY <2>5, <4>1, RecordsOfThisGeneration
      <4> QED BY <2>1, <4>1, <4>2
    <3> QED BY <3>1, <3>2
  <2> QED BY <2>1, <2>6, <2>7, <2>8, <2>9
<1>3. ASSUME NEW i \in DOMAIN beam, Stage(i) PROVE A' /\ B' /\ C' /\ D' /\ E'
  <2>1. /\ UNCHANGED <<phase, gen, beam, recorded, ordinal, lineage, lost>>
        /\ \A j \in DOMAIN beam : j # i => status'[j] = status[j]
        /\ i > recorded /\ recorded \in Nat /\ i \in Nat /\ phase = "wave"
        /\ DOMAIN beam = 1..Len(beam) /\ recorded \in 0..Len(beam)
    BY <1>3, StageDoes, InTheWave, PartsAreTyped, ScalarsAreTyped
  <2>2. \A j \in 1..recorded : j \in DOMAIN beam /\ j # i
    BY <1>0a, <2>1
  <2>3. \A j \in 1..recorded : Record(j)' = Record(j)
    BY <2>1, <2>2 DEF Record
  <2>4. A' /\ B' /\ C' /\ E'
    BY <1>0, <2>1 DEF Given, Running, Ended
  <2>5. D'
    <3> HIDE DEF Record
    <3> QED BY <1>0, <2>1, <2>3 DEF Running
  <2> QED BY <2>4, <2>5
<1>4. CASE Select
  <2>1. /\ phase = "rank" /\ phase' = "prune" /\ beam' = <<>> /\ recorded' = 0 /\ Len(beam') = 0
        /\ UNCHANGED <<gen, ordinal, lineage, lost>>
    BY <1>4, SelectDoes DEF files
  <2>2. recorded = Len(beam) /\ Running
    BY <2>1 DEF InMemory, Running
  <2>3. Given' = Given
    BY <1>0a, <2>1, <2>2 DEF Given
  <2>4. \A k \in DOMAIN lineage : lineage[k].id[1] <= gen
    BY <1>0a, <2>2, UpToThisGeneration
  <2>5. A'
    BY <1>0, <2>1, <2>3 DEF Ended
  <2> QED BY <1>0, <2>1, <2>4, <2>5 DEF Running
<1>5. CASE SpawnNext
  <2>1. /\ phase = "prune" /\ phase' = "wave" /\ gen' = gen + 1 /\ recorded' = 0
        /\ ordinal' = ordinal + Len(beam') /\ Len(beam') \in Nat /\ UNCHANGED <<lineage, lost>>
    BY <1>5, SpawnDoes DEF SpawnNext, files
  <2>2. beam = <<>> /\ recorded = 0
    <3>1. beam = <<>>
      BY <2>1 DEF InMemory, Running
    <3> QED BY <3>1 DEF Shape
  <2>3. Given' = Given
    BY <1>0a, <2>1, <2>2 DEF Given
  <2>4. A'
    BY <1>0, <2>1, <2>3 DEF Ended
  <2>5. C'
    BY <1>0, <1>0a, <2>1
  <2> QED BY <1>0, <2>1, <2>4, <2>5
<1>6. CASE Leaves
  <2>1. phase' \in {"down", "finished"} /\ lineage' = lineage
    BY <1>6, LeaveDoes
  <2> QED BY <1>0, <2>1 DEF Ended, Running
<1>7. ASSUME NEW id \in Doomed, Prune(id) PROVE A' /\ B' /\ C' /\ D' /\ E'
  <2>1. /\ UNCHANGED <<phase, gen, beam, recorded, ordinal, lineage, lost>> /\ phase = "prune"
    BY <1>7, PruneDoes
  <2> QED BY <1>0, <2>1 DEF Given, Running, Ended
<1>8. CASE Rebuild
  BY <1>0a, <1>8, RebuildStep
<1>9. CASE FailedResume
  BY <1>0a, <1>9, FailedDoes
<1>10. CASE UNCHANGED vars
  <2>1. UNCHANGED <<phase, gen, beam, status, recorded, ordinal, lineage, lost>>
    BY <1>10 DEF vars, memory, files
  <2> QED BY <1>0, <2>1 DEF Given, Running, Ended, Record
<1> QED BY <1>1, <1>2, <1>3, <1>4, <1>5, <1>6, <1>7, <1>8, <1>9, <1>10, Kinds

-----------------------------------------------------------------------------
(* What the files say while a search lives.                                *)

LEMMA FilesSame ==
  ASSUME Shape, UNCHANGED lineage,
         \A k \in DOMAIN lineage :
           /\ lineage[k].id \in DOMAIN checkpoints' <=> lineage[k].id \in DOMAIN checkpoints
           /\ lineage[k].id \in DOMAIN checkpoints =>
                checkpoints'[lineage[k].id] = checkpoints[lineage[k].id]
  PROVE  /\ \A g : Usable(g)' = Usable(g)
         /\ UsableGenerations' = UsableGenerations
         /\ last_usable_generation' = last_usable_generation
         /\ NextKept' = NextKept /\ RecoveredOrdinal' = RecoveredOrdinal
         /\ Whole(NextKept) => Whole(NextKept)'
         /\ \A g : Unrecorded(g)' = Unrecorded(g)
<1>1. \A g : Usable(g)' = Usable(g)
  <2> SUFFICES ASSUME NEW g PROVE Usable(g)' = Usable(g)
    OBVIOUS
  <2>1. \A k \in DOMAIN lineage : HasCheckpoint(lineage[k].id)' <=> HasCheckpoint(lineage[k].id)
    BY DEF HasCheckpoint
  <2> QED BY <2>1 DEF Usable
<1>2. UsableGenerations' = UsableGenerations
  BY <1>1 DEF UsableGenerations
<1>3. last_usable_generation' = last_usable_generation
  BY <1>2 DEF last_usable_generation
<1>4. \A g : Inherited(g)' = Inherited(g)
  BY <1>1 DEF Inherited
<1>5. NextKept' = NextKept
  BY <1>3, <1>4 DEF NextKept
<1>6. RecoveredOrdinal' = RecoveredOrdinal /\ \A g : Unrecorded(g)' = Unrecorded(g)
  BY DEF RecoveredOrdinal, Unrecorded
<1>7. ASSUME Whole(NextKept) PROVE Whole(NextKept)'
  <2>1. \A k \in DOMAIN NextKept : \E l \in DOMAIN lineage : NextKept[k].id = lineage[l].id
    BY ListsAre, KeptSubset DEF NextKept
  <2>2. \A k \in DOMAIN NextKept : /\ NextKept[k].id \in DOMAIN checkpoints
                                   /\ checkpoints[NextKept[k].id].meta
                                   /\ checkpoints[NextKept[k].id].world = NextKept[k].schedule
    BY <1>7 DEF Whole, HasCheckpoint
  <2> DEFINE u == NextKept
  <2>3. \A k \in DOMAIN u : /\ u[k].id \in DOMAIN checkpoints' /\ checkpoints'[u[k].id].meta
                            /\ checkpoints'[u[k].id].world = u[k].schedule
    BY <2>1, <2>2
  <2> QED BY <1>5, <2>3 DEF Whole, HasCheckpoint
<1> QED BY <1>1, <1>2, <1>3, <1>5, <1>6, <1>7

LEMMA RecordIs ==
  \A j : /\ Record(j).ok <=> status[j].at = "ok"
         /\ Record(j).id = beam[j].id /\ Record(j).schedule = beam[j].schedule
BY DEF Record

LEMMA UsableAreAlive ==
  ASSUME Base, FirstLife, Running
  PROVE  /\ \A k \in Usable(gen) : \E j \in 1..recorded :
              /\ k = Len(lineage) - recorded + j
              /\ j \in DOMAIN Alive /\ Inherited(gen)[k] = Alive[j]
         /\ \A j \in 1..recorded : j \in DOMAIN Alive /\ HasCheckpoint(beam[j].id) =>
              Len(lineage) - recorded + j \in Usable(gen)
<1> USE DEF Base
<1>1. ASSUME NEW k \in Usable(gen)
      PROVE  \E j \in 1..recorded : /\ k = Len(lineage) - recorded + j
                                    /\ j \in DOMAIN Alive /\ Inherited(gen)[k] = Alive[j]
  <2>1. k \in DOMAIN lineage /\ lineage[k].id[1] = gen /\ lineage[k].ok
    BY DEF Usable
  <2>2. gen \in Nat
    BY ScalarsAreTyped, ConstantsAreTyped
  <2>3. PICK j \in 1..recorded : /\ k = Len(lineage) - recorded + j
                                 /\ j \in DOMAIN beam /\ lineage[k] = Record(j)
    BY <2>1, <2>2, RecordsOfThisGeneration
  <2>4. status[j].at = "ok"
    <3>1. Record(j).ok
      BY <2>1, <2>3
    <3> QED BY <3>1, RecordIs
  <2>5. Inherited(gen)[k] = Alive[j] /\ j \in DOMAIN Alive
    BY <2>3, <2>4 DEF Inherited, Alive, Record
  <2> QED BY <2>3, <2>5
<1>2. ASSUME NEW j \in 1..recorded, j \in DOMAIN Alive, HasCheckpoint(beam[j].id)
      PROVE  Len(lineage) - recorded + j \in Usable(gen)
  <2> DEFINE k == Len(lineage) - recorded + j
  <2>1. k \in DOMAIN lineage /\ lineage[k] = Record(j)
    BY RecordsOfThisGeneration
  <2>2. j \in DOMAIN beam /\ status[j].at = "ok"
    BY <1>2 DEF Alive
  <2>3. beam[j].id[1] = gen
    BY <2>2 DEF Family
  <2> HIDE DEF k
  <2>4. lineage[k].id = beam[j].id /\ lineage[k].ok
    <3>1. Record(j).ok /\ Record(j).id = beam[j].id
      BY <2>2, RecordIs
    <3> QED BY <2>1, <3>1
  <2>5. k \in Usable(gen)
    BY <1>2, <2>1, <2>3, <2>4 DEF Usable
  <2> QED BY <2>5 DEF k
<1> QED BY <1>1, <1>2

(* Two usable records of the generation that runs, and it is the last.     *)
LEMMA TwoRecorded ==
  Base /\ Faithful /\ FirstLife /\ Running /\ Cardinality(Usable(gen)) >= 2 =>
    /\ OnFile
    /\ \A k \in DOMAIN NextKept : \E j \in DOMAIN beam :
         NextKept[k].id = beam[j].id /\ NextKept[k].schedule = beam[j].schedule
<1> SUFFICES ASSUME Base, Faithful, FirstLife, Running, Cardinality(Usable(gen)) >= 2
             PROVE  /\ OnFile
                    /\ \A k \in DOMAIN NextKept : \E j \in DOMAIN beam :
                         NextKept[k].id = beam[j].id /\ NextKept[k].schedule = beam[j].schedule
  OBVIOUS
<1> USE DEF Base
<1>1. gen \in 0..(Generations - 1) /\ gen \in Nat /\ Generations \in Nat
  BY ScalarsAreTyped, ConstantsAreTyped
<1>2. gen \in UsableGenerations
  BY <1>1 DEF UsableGenerations
<1>3. \A h \in UsableGenerations : h <= gen
  <2> SUFFICES ASSUME NEW h \in 0..(Generations - 1), Cardinality(Usable(h)) >= 2 PROVE h <= gen
    BY DEF UsableGenerations
  <2>1. Usable(h) # {}
    BY FS_EmptySet
  <2>2. PICK k \in DOMAIN lineage : lineage[k].id[1] = h
    BY <2>1 DEF Usable
  <2>3. lineage[k].id[1] \in 0..gen
    BY UpToThisGeneration
  <2> QED BY <1>1, <2>2, <2>3
<1>4. last_usable_generation = gen /\ UsableGenerations # {}
  BY <1>2, <1>3, LastUsable
<1>5. IsList(Inherited(gen)) /\ DOMAIN Inherited(gen) = Usable(gen)
  BY ListsAre
<1>6. /\ NextKept = Kept(Sorted(Inherited(gen)))
      /\ \A k \in DOMAIN NextKept : \E l \in Usable(gen) : NextKept[k] = Inherited(gen)[l]
  BY <1>4, <1>5, KeptSubset DEF NextKept
<1>7. \A k \in DOMAIN NextKept : \E j \in DOMAIN Alive : NextKept[k] = Alive[j]
  <2> SUFFICES ASSUME NEW k \in DOMAIN NextKept PROVE \E j \in DOMAIN Alive : NextKept[k] = Alive[j]
    OBVIOUS
  <2>1. PICK l \in Usable(gen) : NextKept[k] = Inherited(gen)[l]
    BY <1>6
  <2> QED BY <2>1, UsableAreAlive
<1>8. Whole(NextKept)
  BY <1>7, AliveOnce DEF Whole
<1>9. \A k \in DOMAIN NextKept : \E j \in DOMAIN beam :
        NextKept[k].id = beam[j].id /\ NextKept[k].schedule = beam[j].schedule
  BY <1>7, ListsAre
<1>10. OnFile
  <2>1. Cardinality(Usable(gen)) \in Nat
    BY <1>5, SortedIs
  <2>2. ~(Cardinality(Usable(gen)) < 2)
    BY <2>1
  <2> QED BY <1>4, <1>8, <2>2 DEF OnFile, Running
<1> QED BY <1>9, <1>10

LEMMA TwoRecordedNext ==
  (Base /\ Faithful /\ FirstLife /\ Running /\ Cardinality(Usable(gen)) >= 2 =>
    /\ OnFile
    /\ \A k \in DOMAIN NextKept : \E j \in DOMAIN beam :
         NextKept[k].id = beam[j].id /\ NextKept[k].schedule = beam[j].schedule)'
BY TwoRecorded, PTL

OneOrNone == Cardinality(Usable(gen)) < 2

LEMMA OnFileAtSelect ==
  ASSUME Base, Faithful, FirstLife, OnFile, Select
  PROVE  /\ UsableGenerations # {} /\ last_usable_generation = gen
         /\ NextKept = Kept(ranked')
<1> USE DEF Base
<1>1. /\ phase = "rank" /\ ranked' = Sorted(Alive) /\ Len(ranked') >= 2
  BY SelectDoes
<1>2. Running /\ recorded = Len(beam)
  BY <1>1 DEF Running, InMemory
<1> DEFINE s == Inherited(gen)
           t == Alive
           off == Len(lineage) - recorded
<1>3. IsList(s) /\ IsList(t) /\ DOMAIN s = Usable(gen) /\ DOMAIN t \subseteq DOMAIN beam
  BY ListsAre
<1>4. OneEach(t) /\ Keyed(t)
  BY AliveOnce
<1>5. \A k \in DOMAIN s : \E j \in 1..recorded : k = off + j /\ j \in DOMAIN t /\ s[k] = t[j]
  BY <1>2, <1>3, UsableAreAlive
<1>6. \A j \in DOMAIN t : \E k \in DOMAIN s : s[k] = t[j] /\ k = off + j
  <2> SUFFICES ASSUME NEW j \in DOMAIN t PROVE \E k \in DOMAIN s : s[k] = t[j] /\ k = off + j
    OBVIOUS
  <2>1. j \in 1..recorded /\ j \in DOMAIN beam
    BY <1>2, <1>3, PartsAreTyped
  <2>2. HasCheckpoint(beam[j].id)
    BY <2>1, AliveOnce, ListsAre
  <2>3. off + j \in DOMAIN s
    BY <1>2, <1>3, <2>1, <2>2, UsableAreAlive
  <2>4. PICK i \in 1..recorded : off + j = off + i /\ s[off + j] = t[i]
    BY <1>5, <2>3
  <2>5. off \in Int /\ i \in Int /\ j \in Int
    <3>1. Len(lineage) \in Nat /\ recorded \in Nat
      BY PartsAreTyped, ScalarsAreTyped
    <3> QED BY <2>1, <3>1
  <2>6. i = j
    <3> HIDE DEF off
    <3> QED BY <2>4, <2>5
  <2> QED BY <2>3, <2>4, <2>6
<1>7. Len(lineage) \in Nat /\ recorded \in Nat
  BY PartsAreTyped, ScalarsAreTyped
<1>7a. off \in Int
  BY <1>7
<1> HIDE DEF s, t, off
<1>8. Range(s) = Range(t)
  BY <1>3, <1>5, <1>6 DEF Range, IsList
<1>9. Keyed(s)
  <2> SUFFICES ASSUME NEW k \in DOMAIN s, NEW l \in DOMAIN s, s[k].id[2] = s[l].id[2] PROVE k = l
    BY DEF Keyed
  <2>1. PICK i \in DOMAIN t : k = off + i /\ s[k] = t[i]
    BY <1>5
  <2>2. PICK j \in DOMAIN t : l = off + j /\ s[l] = t[j]
    BY <1>5
  <2>3. i = j
    BY <1>4, <2>1, <2>2 DEF Keyed
  <2> QED BY <2>1, <2>2, <2>3
<1>10. Kept(Sorted(t)) = Kept(Sorted(s))
  <2>1. Range(Kept(Sorted(s))) \subseteq Range(s)
    BY <1>3, KeptSubset DEF Range
  <2> QED BY <1>3, <1>4, <1>8, <1>9, <2>1, KeptSame
<1>11. Cardinality(Usable(gen)) >= 2
  <2>1. Cardinality(DOMAIN t) >= 2 /\ IsFiniteSet(DOMAIN t) /\ IsFiniteSet(DOMAIN s)
    BY <1>3 DEF IsList, t, Select
  <2>2. PICK i \in DOMAIN t, j \in DOMAIN t : i # j
    BY <2>1, TwoOrMore
  <2>3. PICK k \in DOMAIN s, l \in DOMAIN s : k = off + i /\ l = off + j
    BY <1>6
  <2>4. \A o \in Int, x \in Int, y \in Int : o + x = o + y => x = y
    OBVIOUS
  <2>5. k # l
    <3>1. i \in Int /\ j \in Int
      BY <1>3 DEF IsList
    <3> QED BY <1>7a, <2>2, <2>3, <2>4, <3>1
  <2> QED BY <1>3, <2>1, <2>5, TwoOrMore
<1>12. gen \in UsableGenerations /\ last_usable_generation = gen
  <2>1. gen \in 0..(Generations - 1)
    BY DEF Shape
  <2> QED BY <1>2, <1>11, <2>1 DEF OnFile, UsableGenerations
<1> QED BY <1>1, <1>10, <1>12 DEF NextKept, s, t

LEMMA OnFileAtPrune ==
  ASSUME Base, Faithful, FirstLife, OnFile, NEW id \in Doomed, Prune(id)
  PROVE  OnFile'
<1> USE DEF Base
<1>1. /\ phase = "prune" /\ id \in Ids(Pruned(ranked))
      /\ UNCHANGED <<phase, gen, beam, width, status, recorded, ranked, ordinal,
                     lineage, torn, resumes, lost>>
      /\ DOMAIN checkpoints' \subseteq DOMAIN checkpoints
      /\ \A x \in DOMAIN checkpoints : x # id => x \in DOMAIN checkpoints' /\ checkpoints'[x] = checkpoints[x]
      /\ \A x \in DOMAIN checkpoints' : checkpoints'[x].meta = checkpoints[x].meta
  BY PruneDoes
<1>2. /\ UsableGenerations # {} /\ last_usable_generation = gen /\ NextKept = Kept(ranked)
      /\ Whole(NextKept) /\ OneEach(ranked) /\ ranked \in Seq(Scored) /\ Len(ranked) >= 2
  BY <1>1, FaithfulIs DEF OnFile, Chosen, Shape, InMemory
<1> DEFINE keep == Kept(ranked)
           s == Inherited(gen)
           t == Inherited(gen)'
<1>3. /\ keep \in Seq(Scored) /\ Len(keep) >= 2 /\ OneEach(keep)
      /\ \A k \in DOMAIN keep : keep[k].id # id
  <2>1. keep \in Seq(Scored) /\ Len(keep) >= 2
    BY <1>2, KeptIs
  <2>2. OneEach(keep) /\ Ids(keep) \cap Ids(Pruned(ranked)) = {}
    BY <1>2, KeptIdsAre
  <2> QED BY <1>1, <2>1, <2>2 DEF Ids
<1>4. /\ IsList(s) /\ DOMAIN s = Usable(gen)
      /\ \A k \in Usable(gen) : k \in DOMAIN lineage /\ s[k].id = lineage[k].id
  BY ListsAre
<1>5. keep = Kept(Sorted(s))
  BY <1>2 DEF NextKept
<1>6. \A h : Usable(h)' \subseteq Usable(h) /\ \A k \in Usable(h) : lineage[k].id # id => k \in Usable(h)'
  BY <1>1 DEF Usable, HasCheckpoint
<1>6a. /\ Usable(gen)' \subseteq Usable(gen)
       /\ \A k \in Usable(gen) : lineage[k].id # id => k \in Usable(gen)'
  BY <1>1 DEF Usable, HasCheckpoint
<1>7. DOMAIN t = Usable(gen)' /\ \A k \in DOMAIN t : t[k] = s[k]
  BY <1>1, <1>6a DEF Inherited
<1>8. IsList(t)
  <2>1. DOMAIN t \in SUBSET DOMAIN s
    BY <1>4, <1>6a, <1>7
  <2>2. IsFiniteSet(DOMAIN t)
    BY <1>4, <2>1, FS_Subset DEF IsList
  <2>3. t = [k \in DOMAIN t |-> t[k]]
    BY DEF Inherited
  <2> HIDE DEF s, t
  <2> QED BY <1>4, <1>7, <2>1, <2>2, <2>3 DEF IsList
<1>9. Keyed(s)
  <2> SUFFICES ASSUME NEW k \in DOMAIN s, NEW l \in DOMAIN s, s[k].id[2] = s[l].id[2] PROVE k = l
    BY DEF Keyed
  <2>1. lineage[k].id \in Nat \X Nat /\ lineage[l].id \in Nat \X Nat
    BY <1>4, PartsAreTyped DEF Id
  <2>2. lineage[k].id[1] = gen /\ lineage[l].id[1] = gen
    BY <1>4 DEF Usable
  <2>3. lineage[k].id[2] = lineage[l].id[2]
    BY <1>4
  <2>4. lineage[k].id = lineage[l].id
    BY <2>1, <2>2, <2>3
  <2> QED BY <1>4, <2>4 DEF FirstLife
<1> HIDE DEF s, t, keep
<1>10. Keyed(t)
  BY <1>4, <1>6a, <1>7, <1>9 DEF Keyed
<1>11. \A k \in DOMAIN keep : \E l \in DOMAIN t : keep[k] = t[l]
  <2> SUFFICES ASSUME NEW k \in DOMAIN keep PROVE \E l \in DOMAIN t : keep[k] = t[l]
    OBVIOUS
  <2>1. PICK l \in DOMAIN s : keep[k] = s[l]
    BY <1>4, <1>5, KeptSubset
  <2>2. lineage[l].id # id
    BY <1>3, <1>4, <2>1
  <2>3. l \in Usable(gen)'
    BY <1>4, <1>6a, <2>1, <2>2
  <2> QED BY <1>7, <2>1, <2>3
<1>12. Kept(Sorted(t)) = keep
  <2>1. Range(t) \subseteq Range(s)
    BY <1>4, <1>6a, <1>7 DEF Range
  <2>2. Range(Kept(Sorted(s))) \subseteq Range(t)
    BY <1>5, <1>11 DEF Range
  <2> QED BY <1>4, <1>5, <1>8, <1>9, <1>10, <2>1, <2>2, KeptSame
<1>13. Cardinality(Usable(gen)') >= 2
  <2>1. 1 \in DOMAIN keep /\ 2 \in DOMAIN keep
    BY <1>3
  <2>2. PICK i \in DOMAIN t, j \in DOMAIN t : keep[1] = t[i] /\ keep[2] = t[j]
    BY <1>11, <2>1
  <2>3. i # j
    BY <1>3, <2>1, <2>2 DEF OneEach
  <2>4. IsFiniteSet(DOMAIN t)
    BY <1>8 DEF IsList
  <2> QED BY <1>7, <2>3, <2>4, TwoOrMore
<1>14. UsableGenerations' # {} /\ last_usable_generation' = gen
  <2>1. gen \in 0..(Generations - 1)
    BY DEF Shape
  <2>2. gen \in UsableGenerations'
    <3>1. PICK g \in 0..(Generations - 1) : g = gen
      BY <2>1
    <3>2. Usable(gen)' = Usable(g)'
      BY <1>1, <3>1 DEF Usable, HasCheckpoint
    <3> QED BY <1>13, <3>1, <3>2 DEF UsableGenerations
  <2>3. \A h \in UsableGenerations' : h \in 0..(Generations - 1) /\ Cardinality(Usable(h)') >= 2
    BY DEF UsableGenerations
  <2>4. \A h \in UsableGenerations' : h \in UsableGenerations
    <3> SUFFICES ASSUME NEW h \in UsableGenerations' PROVE h \in UsableGenerations
      OBVIOUS
    <3>1. Usable(h)' \in SUBSET Usable(h) /\ IsFiniteSet(Usable(h))
      BY <1>6, ListsAre DEF IsList
    <3>2. Cardinality(Usable(h)') <= Cardinality(Usable(h)) /\ Cardinality(Usable(h)) \in Nat
      BY <3>1, FS_Subset, FS_CardinalityType
    <3>3. Cardinality(Usable(h)') \in Nat
      BY <3>1, FS_Subset, FS_CardinalityType
    <3>4. Cardinality(Usable(h)) >= 2
      BY <2>3, <3>2, <3>3
    <3> QED BY <2>3, <3>4 DEF UsableGenerations
  <2>5. \A h \in UsableGenerations' : h <= gen
    BY <1>2, <2>4, LastUsable
  <2>6. (\A g \in UsableGenerations :
           (\A h \in UsableGenerations : h <= g) => last_usable_generation = g)'
    BY LastUsable, PTL
  <2> QED BY <2>2, <2>5, <2>6
<1>15. NextKept' = keep
  BY <1>12, <1>14, <1>1 DEF NextKept, t
<1>16. Whole(NextKept)'
  <2>1. \A k \in DOMAIN keep : /\ keep[k].id \in DOMAIN checkpoints' /\ checkpoints'[keep[k].id].meta
                               /\ checkpoints'[keep[k].id].world = keep[k].schedule
    BY <1>1, <1>2, <1>3 DEF Whole, HasCheckpoint, keep
  <2> QED BY <1>15, <2>1 DEF Whole, HasCheckpoint
<1> QED BY <1>1, <1>14, <1>15, <1>16 DEF OnFile, Running, keep

(* A record that leaves its generation with one world at most changes      *)
(* nothing in what a resume would go on from.                              *)
LEMMA RecordedInVain ==
  ASSUME Base, record_wave, ~(Cardinality(Usable(gen)) >= 2)'
  PROVE  /\ UsableGenerations' = UsableGenerations
         /\ last_usable_generation' = last_usable_generation
         /\ UsableGenerations # {} => last_usable_generation # gen /\ NextKept' = NextKept
         /\ Cardinality(Usable(gen)) < 2
<1> USE DEF Base
<1> DEFINE n == Len(lineage) + 1
<1>1. /\ recorded + 1 \in DOMAIN beam
      /\ DOMAIN lineage' = 1..n /\ \A k \in DOMAIN lineage : lineage'[k] = lineage[k]
      /\ lineage'[n] = Record(recorded + 1)
      /\ gen' = gen /\ UNCHANGED <<beam, checkpoints>>
  BY RecordDoes
<1>2. DOMAIN lineage = 1..Len(lineage) /\ Len(lineage) \in Nat
  BY PartsAreTyped
<1>3. n \notin DOMAIN lineage /\ DOMAIN lineage' = DOMAIN lineage \cup {n}
  BY <1>1, <1>2
<1>4. lineage'[n].id[1] = gen
  <2>1. beam[recorded + 1].id[1] = gen
    BY <1>1 DEF Family
  <2> QED BY <1>1, <2>1, RecordIs
<1> HIDE DEF n
<1>5. \A h : h # gen => Usable(h)' = Usable(h)
  BY <1>1, <1>3, <1>4 DEF Usable, HasCheckpoint
<1>6. Usable(gen) \subseteq Usable(gen)'
  BY <1>1, <1>3 DEF Usable, HasCheckpoint
<1>7. IsFiniteSet(Usable(gen)')
  <2>1. Usable(gen)' \in SUBSET (1..(Len(lineage) + 1))
    BY <1>1 DEF Usable, n
  <2>2. IsFiniteSet(1..(Len(lineage) + 1))
    BY <1>2, FS_Interval
  <2> QED BY <2>1, <2>2, FS_Subset
<1>8. Cardinality(Usable(gen)) < 2
  <2>1. Usable(gen) \in SUBSET (Usable(gen)')
    BY <1>6
  <2>2. /\ Cardinality(Usable(gen)) \in Nat /\ Cardinality(Usable(gen)') \in Nat
        /\ Cardinality(Usable(gen)) <= Cardinality(Usable(gen)')
    BY <1>7, <2>1, FS_Subset, FS_CardinalityType
  <2> QED BY <2>2
<1>9. \A h : Cardinality(Usable(h)') >= 2 <=> Cardinality(Usable(h)) >= 2
  <2> SUFFICES ASSUME NEW h PROVE Cardinality(Usable(h)') >= 2 <=> Cardinality(Usable(h)) >= 2
    OBVIOUS
  <2>1. CASE h # gen
    BY <1>5, <2>1
  <2>2. CASE h = gen
    <3>1. Usable(h)' = Usable(gen)'
      BY <1>1, <2>2 DEF Usable
    <3>2. Cardinality(Usable(gen)) \in Nat
      BY <1>6, <1>7, FS_Subset, FS_CardinalityType
    <3> QED BY <1>8, <2>2, <3>1, <3>2
  <2> QED BY <2>1, <2>2
<1>10. UsableGenerations' = UsableGenerations
  BY <1>9 DEF UsableGenerations
<1>11. last_usable_generation' = last_usable_generation
  BY <1>10 DEF last_usable_generation
<1>12. ASSUME UsableGenerations # {} PROVE last_usable_generation # gen
  <2>1. gen \notin UsableGenerations
    <3>1. Cardinality(Usable(gen)) \in Nat
      BY <1>6, <1>7, FS_Subset, FS_CardinalityType
    <3> QED BY <1>8, <3>1 DEF UsableGenerations
  <2> QED BY <1>12, <2>1, LastUsable
<1>13. \A h : h # gen => Inherited(h)' = Inherited(h)
  <2> SUFFICES ASSUME NEW h, h # gen PROVE Inherited(h)' = Inherited(h)
    OBVIOUS
  <2>1. \A k \in Usable(h) : lineage'[k] = lineage[k]
    BY <1>1 DEF Usable
  <2> QED BY <1>5, <2>1 DEF Inherited
<1> QED BY <1>8, <1>10, <1>11, <1>12, <1>13 DEF NextKept

LEMMA OnFileAtSearch ==
  ASSUME Base, search
  PROVE  OnFile'
<1> USE DEF Base
<1>1. phase = "start" /\ phase' = "wave" /\ gen' = 0 /\ UNCHANGED <<lineage, checkpoints>>
  BY SearchDoes DEF files
<1>2. DOMAIN lineage = {}
  <2>1. lineage = <<>>
    BY <1>1 DEF Numbers
  <2> QED BY <2>1
<1>3. \A h : Usable(h)' = {} /\ Cardinality(Usable(h)') = 0
  <2>1. \A h : Usable(h)' = {}
    BY <1>1, <1>2 DEF Usable
  <2> QED BY <2>1, FS_EmptySet
<1>4. UsableGenerations' = {}
  BY <1>3 DEF UsableGenerations
<1>5. ~(Cardinality(Usable(gen)) >= 2)'
  <2>1. Usable(gen)' = {}
    BY <1>1, <1>2 DEF Usable
  <2> QED BY <2>1, FS_EmptySet
<1> QED BY <1>1, <1>4, <1>5 DEF OnFile

LEMMA OnFileAtRecord ==
  ASSUME Base, Base', Faithful', FirstLife', OnFile, record_wave
  PROVE  OnFile'
<1> USE DEF Base
<1>1. /\ phase = "wave" /\ phase' \in {"wave", "rank"}
      /\ UNCHANGED <<gen, beam, ordinal, checkpoints>>
  BY RecordDoes
<1>2. Running /\ Running'
  BY <1>1 DEF Running
<1>3. CASE (Cardinality(Usable(gen)) >= 2)'
  BY <1>2, <1>3, TwoRecordedNext
<1>4. CASE ~(Cardinality(Usable(gen)) >= 2)'
  <2>1. /\ UsableGenerations' = UsableGenerations
        /\ last_usable_generation' = last_usable_generation
        /\ UsableGenerations # {} => NextKept' = NextKept
        /\ Cardinality(Usable(gen)) < 2
    BY <1>4, RecordedInVain
  <2>2. UsableGenerations # {} => Whole(NextKept) /\ Whole(NextKept)'
    <3>1. UsableGenerations # {} => Whole(NextKept)
      BY DEF OnFile
    <3> QED BY <1>1, <2>1, <3>1 DEF Whole, HasCheckpoint
  <2>3. gen = 0 => UsableGenerations = {}
    BY <1>2, <2>1 DEF OnFile
  <2>4. gen > 0 => /\ UsableGenerations # {} /\ last_usable_generation = gen - 1
                   /\ beam = spawn_children(NextKept, gen - 1, ordinal - Len(beam))
    BY <1>2, <2>1 DEF OnFile
  <2>5. gen > 0 => (/\ UsableGenerations # {} /\ last_usable_generation = gen - 1
                    /\ beam = spawn_children(NextKept, gen - 1, ordinal - Len(beam)))'
    <3> SUFFICES ASSUME gen > 0
                 PROVE  (/\ UsableGenerations # {} /\ last_usable_generation = gen - 1
                         /\ beam = spawn_children(NextKept, gen - 1, ordinal - Len(beam)))'
      OBVIOUS
    <3> DEFINE u == NextKept
    <3>1. u' = u
      BY <2>1, <2>4
    <3>2. \A x, y, z : spawn_children(x, y, z)' = spawn_children(x, y, z)
      BY DEF spawn_children
    <3> QED BY <1>1, <2>1, <2>4, <3>1, <3>2
  <2> QED BY <1>1, <1>4, <2>1, <2>2, <2>3, <2>5 DEF OnFile
<1> QED BY <1>3, <1>4

LEMMA OnFileAtSpawn ==
  ASSUME Base, FirstLife, OnFile, SpawnNext
  PROVE  OnFile'
<1> USE DEF Base
<1>1. /\ phase = "prune" /\ phase' = "wave" /\ gen' = gen + 1 /\ gen \in Nat
      /\ Len(beam') \in Nat /\ ordinal \in Nat /\ ordinal' = ordinal + Len(beam')
      /\ beam' = spawn_children(Kept(ranked), gen, ordinal)
      /\ UNCHANGED <<lineage, checkpoints>>
  BY SpawnDoes, ScalarsAreTyped DEF SpawnNext, files
<1>2. /\ UsableGenerations # {} /\ last_usable_generation = gen
      /\ NextKept = Kept(ranked) /\ Whole(NextKept)
  BY <1>1 DEF OnFile
<1>3. /\ UsableGenerations' = UsableGenerations
      /\ last_usable_generation' = last_usable_generation
      /\ NextKept' = NextKept /\ Whole(NextKept)'
  BY <1>1, <1>2, FilesSame
<1>4. ~(Cardinality(Usable(gen)) >= 2)'
  <2>1. \A k \in DOMAIN lineage : lineage[k].id[1] <= gen /\ lineage[k].id[1] \in Nat
    BY <1>1, PartsAreTyped DEF FirstLife
  <2>2. \A k \in DOMAIN lineage : lineage[k].id[1] # gen + 1
    BY <1>1, <2>1
  <2>3. Usable(gen)' = {}
    BY <1>1, <2>2 DEF Usable
  <2> QED BY <2>3, FS_EmptySet
<1>5. gen' > 0 /\ gen' - 1 = gen /\ ordinal' - Len(beam') = ordinal
  BY <1>1
<1>6. beam' = spawn_children(NextKept, gen - 1, ordinal - Len(beam))'
  <2>1. \A x, y, z : spawn_children(x, y, z)' = spawn_children(x, y, z)
    BY DEF spawn_children
  <2> DEFINE u == NextKept
  <2>2. u' = u
    BY <1>3
  <2>3. spawn_children(u', gen' - 1, ordinal' - Len(beam')) = spawn_children(Kept(ranked), gen, ordinal)
    BY <1>2, <1>5, <2>2
  <2> QED BY <1>1, <2>1, <2>3
<1> QED BY <1>1, <1>2, <1>3, <1>4, <1>5, <1>6 DEF OnFile

(* Nothing but copies of other nodes, and a search that stays where it is. *)
LEMMA OnFileKept ==
  ASSUME Base, OnFile, UNCHANGED <<phase, gen, beam, ranked, ordinal, lineage>>,
         \A k \in DOMAIN lineage :
           /\ lineage[k].id \in DOMAIN checkpoints' <=> lineage[k].id \in DOMAIN checkpoints
           /\ lineage[k].id \in DOMAIN checkpoints =>
                checkpoints'[lineage[k].id] = checkpoints[lineage[k].id]
  PROVE  OnFile'
<1> DEFINE u == NextKept
<1>1. /\ UsableGenerations' = UsableGenerations
      /\ last_usable_generation' = last_usable_generation
      /\ u' = u /\ (Whole(u) => Whole(u)') /\ \A g : Usable(g)' = Usable(g)
  BY FilesSame DEF Base
<1>2. Usable(gen)' = Usable(gen)
  <2>1. \A k \in DOMAIN lineage : HasCheckpoint(lineage[k].id)' <=> HasCheckpoint(lineage[k].id)
    BY DEF HasCheckpoint
  <2> QED BY <2>1 DEF Usable
<1>3. spawn_children(u, gen - 1, ordinal - Len(beam))' = spawn_children(u, gen - 1, ordinal - Len(beam))
  BY <1>1 DEF spawn_children
<1> QED BY <1>1, <1>2, <1>3 DEF OnFile, Running, Kept

LEMMA OnFileStep ==
  ASSUME Base, Base', Faithful, Faithful', FirstLife, FirstLife', OnFile, [Next]_vars, resumes' = 0
  PROVE  OnFile'
<1> USE DEF Base
<1>1. CASE search
  BY <1>1, OnFileAtSearch
<1>2. CASE record_wave
  BY <1>2, OnFileAtRecord
<1>3. ASSUME NEW i \in DOMAIN beam, Stage(i) PROVE OnFile'
  <2>1. /\ UNCHANGED <<phase, gen, beam, ranked, ordinal, lineage>>
        /\ DOMAIN checkpoints \subseteq DOMAIN checkpoints'
        /\ DOMAIN checkpoints' \subseteq DOMAIN checkpoints \cup {beam[i].id}
        /\ \A id \in DOMAIN checkpoints : id # beam[i].id => checkpoints'[id] = checkpoints[id]
    BY <1>3, StageDoes
  <2>2. phase = "wave" /\ i > recorded
    BY <1>3, InTheWave
  <2>3. Running
    BY <2>2 DEF Running
  <2>4. \A k \in DOMAIN lineage : lineage[k].id # beam[i].id
    BY <2>2, <2>3, NotYetRecorded
  <2> QED BY <2>1, <2>4, OnFileKept
<1>4. CASE Select
  <2>1. /\ phase' = "prune" /\ UNCHANGED <<gen, lineage, checkpoints>>
    BY <1>4, SelectDoes DEF files
  <2>2. /\ UsableGenerations # {} /\ last_usable_generation = gen
        /\ NextKept = Kept(ranked')
    BY <1>4, OnFileAtSelect
  <2>3. Whole(NextKept)
    BY <2>2 DEF OnFile
  <2> DEFINE u == NextKept
  <2>4. /\ UsableGenerations' = UsableGenerations
        /\ last_usable_generation' = last_usable_generation
        /\ u' = u /\ Whole(u)'
    BY <2>1, <2>3, FilesSame
  <2> QED BY <2>1, <2>2, <2>4 DEF OnFile, Running, Kept
<1>5. CASE SpawnNext
  BY <1>5, OnFileAtSpawn
<1>6. CASE Leaves
  <2>1. phase' \in {"down", "finished"} /\ UNCHANGED <<lineage, checkpoints>>
    BY <1>6, LeaveDoes
  <2>2. UsableGenerations # {} => Whole(NextKept)
    BY DEF OnFile
  <2>3. UsableGenerations' = UsableGenerations /\ (Whole(NextKept) => Whole(NextKept)')
    BY <2>1, FilesSame
  <2> QED BY <2>1, <2>2, <2>3 DEF OnFile, Running
<1>7. ASSUME NEW id \in Doomed, Prune(id) PROVE OnFile'
  BY <1>7, OnFileAtPrune
<1>8. CASE Rebuild \/ FailedResume
  <2>1. resumes \in Nat /\ resumes' = resumes + 1
    <3>1. resumes \in Nat
      BY ScalarsAreTyped
    <3> QED BY <1>8, <3>1, RebuildStep, FailedDoes
  <2> QED BY <2>1
<1>9. CASE UNCHANGED vars
  BY <1>9, OnFileKept DEF vars, memory, files
<1> QED BY <1>1, <1>2, <1>3, <1>4, <1>5, <1>6, <1>7, <1>8, <1>9, Kinds

-----------------------------------------------------------------------------
(* What a search leaves behind.                                            *)

LEMMA ParentsAre ==
  ASSUME Shape, phase # "prune"
  PROVE  Parents = {beam[i].parent : i \in DOMAIN beam}
BY DEF Parents

(* Every node that runs is one leg past the worlds it was branched from.   *)
LEMMA OneLegFurther ==
  ASSUME Base, ParentsOnDisk, Running, NEW i \in DOMAIN beam
  PROVE  Worlds!OneLegPast(beam[i].schedule, OnDisk(Parents))
<1> USE DEF Base
<1>1. /\ beam[i].schedule \in Schedule /\ Len(beam[i].schedule) = gen + 1 /\ gen \in Nat
      /\ beam[i].id = <<gen, i - 1>> /\ Descends(beam[i])
  <2>1. beam[i].schedule \in Schedule /\ gen \in Nat
    BY PartsAreTyped, ScalarsAreTyped
  <2>2. beam[i].id = <<gen, i - 1>> /\ Descends(beam[i])
    BY DEF Family
  <2>3. beam[i].id[1] = gen
    BY <2>2
  <2> QED BY <2>1, <2>2, <2>3 DEF Descends
<1>2. Parents = {beam[j].parent : j \in DOMAIN beam}
  BY ParentsAre DEF Running
<1>3. CASE gen = 0
  <2>1. \A j \in DOMAIN beam : beam[j].parent = None
    BY <1>3, ParentsAreOlder
  <2>2. None \notin DOMAIN checkpoints
    BY ConstantsAreTyped DEF Shape
  <2>3. OnDisk(Parents) = {}
    BY <1>2, <2>1, <2>2 DEF OnDisk
  <2> QED BY <1>1, <1>3, <2>3 DEF Worlds!OneLegPast
<1>4. CASE gen # 0
  <2> DEFINE w == checkpoints[beam[i].parent].world
             o == beam[i].ordinal
  <2>1. beam[i].parent # None
    BY <1>1, <1>4, ParentsAreOlder
  <2>2. beam[i].parent \in DOMAIN checkpoints /\ Append(w, o) = beam[i].schedule
    BY <2>1 DEF ParentsOnDisk, HasCheckpoint
  <2>3. w \in OnDisk(Parents)
    BY <1>2, <2>2 DEF OnDisk
  <2>4. w \in Seq(Nat) /\ o \in Nat
    <3>1. checkpoints[beam[i].parent] \in Copied
      BY <2>2 DEF Shape
    <3>2. o \in Nat
      BY PartsAreTyped
    <3> QED BY <3>1, <3>2 DEF Copied, History
  <2> HIDE DEF w, o
  <2>5. \A u \in Seq(Nat), n \in Nat : /\ Len(Append(u, n)) = Len(u) + 1 /\ Len(u) \in Nat
                                       /\ SubSeq(Append(u, n), 1, Len(u)) = u
    <3> SUFFICES ASSUME NEW u \in Seq(Nat), NEW n \in Nat
                 PROVE  SubSeq(Append(u, n), 1, Len(u)) = u
      OBVIOUS
    <3>1. Append(u, n) \in Seq(Nat) /\ Len(Append(u, n)) = Len(u) + 1 /\ Len(u) \in Nat
      OBVIOUS
    <3>2. \A k \in 1..Len(u) : Append(u, n)[k] = u[k]
      OBVIOUS
    <3> QED BY <3>1, <3>2
  <2>6. Len(Append(w, o)) > 1 /\ SubSeq(Append(w, o), 1, Len(Append(w, o)) - 1) = w
    <3>1. Len(w) \in Nat /\ Len(Append(w, o)) = Len(w) + 1 /\ SubSeq(Append(w, o), 1, Len(w)) = w
      BY <2>4, <2>5
    <3>2. Len(Append(w, o)) = gen + 1
      BY <1>1, <2>2
    <3>3. Len(Append(w, o)) - 1 = Len(w) /\ Len(Append(w, o)) > 1
      BY <1>1, <1>4, <3>1, <3>2
    <3> QED BY <3>1, <3>3
  <2> QED BY <2>2, <2>3, <2>6 DEF Worlds!OneLegPast
<1> QED BY <1>3, <1>4

LEMMA NextKeptIs ==
  ASSUME Shape, UsableGenerations # {}
  PROVE  /\ NextKept \in Seq(Scored) /\ Len(NextKept) >= 2 /\ Len(NextKept) <= KeepTop
         /\ \A k \in DOMAIN NextKept : \E l \in Usable(last_usable_generation) :
              /\ l \in DOMAIN lineage
              /\ NextKept[k] = Inherited(last_usable_generation)[l]
<1> DEFINE g == last_usable_generation
           s == Inherited(g)
<1>1. IsList(s) /\ DOMAIN s = Usable(g) /\ \A l \in Usable(g) : l \in DOMAIN lineage
  BY ListsAre
<1>2. Cardinality(Usable(g)) >= 2
  BY LastUsable DEF UsableGenerations
<1> HIDE DEF s, g
<1>3. Sorted(s) \in Seq(Scored) /\ Len(Sorted(s)) >= 2
  BY <1>1, <1>2, SortedIsTyped
<1>4. Kept(Sorted(s)) \in Seq(Scored) /\ Len(Kept(Sorted(s))) >= 2 /\ Len(Kept(Sorted(s))) <= KeepTop
  BY <1>3, KeptIs
<1> QED BY <1>1, <1>4, KeptSubset DEF NextKept, s, g

LEMMA LostIsRepeated ==
  ASSUME Base, Faithful, FirstLife, OnFile, phase \in {"wave", "rank", "prune"}
  PROVE  Repeats(beam) /\ Near(beam) /\ Advances(Parents)
<1> USE DEF Base
<1>0. /\ gen \in Nat /\ Len(beam) \in Nat /\ DOMAIN beam = 1..Len(beam) /\ ordinal \in Nat
      /\ Len(beam) <= ordinal
  <2>1. Len(beam) \in Nat /\ DOMAIN beam = 1..Len(beam)
    BY PartsAreTyped
  <2> QED BY <2>1, ScalarsAreTyped DEF Numbers
<1>1. ASSUME beam # <<>> PROVE Running /\ beam[1].id[1] = gen
  <2>1. 1 \in DOMAIN beam
    <3>1. beam \in Seq(Node)
      BY DEF Shape
    <3>2. Len(beam) # 0
      BY <1>1, <3>1
    <3> QED BY <1>0, <3>2
  <2>2. beam[1].id = <<gen, 0>>
    BY <2>1 DEF Family
  <2> QED BY <1>1, <2>2 DEF InMemory
<1>2. Repeats(beam)
  <2> SUFFICES ASSUME beam # <<>>, gen > 0, Unrecorded(gen)
               PROVE  /\ UsableGenerations # {} /\ last_usable_generation = gen - 1
                      /\ beam = spawn_children(NextKept, last_usable_generation, RecoveredOrdinal)
    BY <1>1 DEF Repeats
  <2>1. Running
    BY <1>1
  <2>2. recorded = 0
    <3>1. recorded \in Nat
      BY <2>1, RecordsOfThisGeneration
    <3>2. ~(1 <= recorded)
      <4> SUFFICES ASSUME 1 <= recorded PROVE FALSE
        OBVIOUS
      <4> DEFINE k == Len(lineage) - recorded + 1
      <4>1. 1 \in 1..recorded
        BY <3>1
      <4>2. k \in DOMAIN lineage /\ lineage[k] = Record(1)
        BY <2>1, <4>1, RecordsOfThisGeneration
      <4> HIDE DEF k
      <4>3. 1 \in DOMAIN beam
        <5>1. recorded \in 0..Len(beam)
          BY DEF Shape
        <5> QED BY <1>0, <4>1, <5>1
      <4>4. beam[1].id = <<gen, 0>>
        BY <4>3 DEF Family
      <4>5. lineage[k].id[1] = gen
        BY <4>2, <4>4, RecordIs
      <4> QED BY <4>2, <4>5 DEF Unrecorded
    <3> QED BY <3>1, <3>2
  <2>3. Cardinality(Usable(gen)) < 2
    <3>1. Usable(gen) = {}
      BY DEF Usable, Unrecorded
    <3> QED BY <3>1, FS_EmptySet
  <2>4. /\ UsableGenerations # {} /\ last_usable_generation = gen - 1
        /\ beam = spawn_children(NextKept, gen - 1, ordinal - Len(beam))
    BY <2>1, <2>3 DEF OnFile
  <2>5. RecoveredOrdinal = ordinal - Len(beam)
    <3> DEFINE b == ordinal - Len(beam)
    <3>1. b \in Nat /\ Len(lineage) = b
      BY <1>0, <2>1, <2>2, RecordsOfThisGeneration DEF Given
    <3>2. \A k \in DOMAIN lineage : lineage[k].ordinal <= b
      <4>1. Given = b
        BY <1>0, <2>2 DEF Given
      <4>2. \A k \in DOMAIN lineage : lineage[k].ordinal <= Given
        BY <2>1 DEF Numbers, Running, Ended
      <4> HIDE DEF b
      <4> QED BY <4>1, <4>2
    <3> HIDE DEF b
    <3>3. \A k \in DOMAIN lineage : lineage[k].parent = None => lineage[k].ordinal = k
      BY DEF Numbers
    <3>4. /\ RecoveredOrdinal \in Nat /\ Len(lineage) <= RecoveredOrdinal
          /\ RecoveredOrdinal <= b
      BY <3>1, <3>2, <3>3, Recovered
    <3> QED BY <3>1, <3>4 DEF b
  <2> QED BY <2>4, <2>5
<1>3. Near(beam)
  <2> SUFFICES ASSUME beam # <<>>, UsableGenerations # {} PROVE gen <= last_usable_generation + 1
    BY <1>1 DEF Near
  <2>1. Running
    BY <1>1
  <2>2. CASE Cardinality(Usable(gen)) >= 2
    BY <1>0, <2>1, <2>2 DEF OnFile
  <2>3. CASE Cardinality(Usable(gen)) < 2
    BY <1>0, <2>1, <2>3 DEF OnFile
  <2> QED BY <2>2, <2>3, ListsAre, FS_CardinalityType DEF IsList
<1>4. Advances(Parents)
  <2> SUFFICES ASSUME UsableGenerations # {}
               PROVE  \/ OnDisk(Ids(NextKept)) = OnDisk(Parents)
                      \/ \A h \in OnDisk(Ids(NextKept)) : Worlds!OneLegPast(h, OnDisk(Parents))
    BY DEF Advances
  <2>1. CASE phase = "prune"
    BY <2>1 DEF OnFile, Parents
  <2>2. CASE Running /\ Cardinality(Usable(gen)) < 2
    <3>1. gen > 0 /\ beam = spawn_children(NextKept, gen - 1, ordinal - Len(beam))
      BY <1>0, <2>2 DEF OnFile
    <3>2. Parents = {beam[i].parent : i \in DOMAIN beam}
      BY <2>2, ParentsAre DEF Running
    <3>3. NextKept \in Seq(Scored) /\ Len(NextKept) >= 1
      BY NextKeptIs
    <3>4. gen - 1 \in Nat /\ ordinal - Len(beam) \in Nat
      BY <1>0, <3>1
    <3>5. /\ \A i \in DOMAIN beam : \E j \in DOMAIN NextKept : beam[i].parent = NextKept[j].id
          /\ \A j \in DOMAIN NextKept : \E i \in DOMAIN beam : beam[i].parent = NextKept[j].id
      <4> DEFINE u == NextKept
                 h == gen - 1
                 o == ordinal - Len(beam)
      <4>1. u \in Seq(Scored) /\ Len(u) >= 1 /\ h \in Nat /\ o \in Nat /\ beam = spawn_children(u, h, o)
        BY <3>1, <3>3, <3>4
      <4> HIDE DEF u, h, o
      <4>2. /\ \A i \in DOMAIN beam : \E j \in DOMAIN u : beam[i].parent = u[j].id
            /\ \A j \in DOMAIN u : \E i \in DOMAIN beam : beam[i].parent = u[j].id
        BY <4>1, Spawned
      <4> QED BY <4>2 DEF u
    <3>6. Parents = Ids(NextKept)
      BY <3>2, <3>5 DEF Ids
    <3> QED BY <3>6
  <2>3. CASE Running /\ Cardinality(Usable(gen)) >= 2
    <3> SUFFICES ASSUME NEW k \in DOMAIN NextKept, NextKept[k].id \in DOMAIN checkpoints
                 PROVE  Worlds!OneLegPast(checkpoints[NextKept[k].id].world, OnDisk(Parents))
      BY DEF OnDisk, Ids
    <3>1. Whole(NextKept)
      BY DEF OnFile
    <3>2. PICK j \in DOMAIN beam : NextKept[k].schedule = beam[j].schedule
      BY <2>3, TwoRecorded
    <3>3. checkpoints[NextKept[k].id].world = beam[j].schedule
      BY <3>1, <3>2 DEF Whole
    <3>4. ParentsOnDisk
      BY FaithfulIs
    <3> QED BY <2>3, <3>3, <3>4, OneLegFurther
  <2>4. Cardinality(Usable(gen)) \in Nat
    BY ListsAre, FS_CardinalityType DEF IsList
  <2> QED BY <2>1, <2>2, <2>3, <2>4 DEF Running
<1> QED BY <1>2, <1>3, <1>4

LEMMA LeftBehindStep ==
  ASSUME Base, Faithful, FirstLife, OnFile, LeftBehind, [Next]_vars, resumes' = 0
  PROVE  LeftBehind'
<1> USE DEF Base
<1> DEFINE S == UNCHANGED <<lineage, checkpoints>>
           P(ns, ids) == /\ phase' \in {"down", "finished"} /\ S
                         /\ lost'.nodes = ns /\ lost'.parents = ids
                         /\ Repeats(ns) /\ Near(ns) /\ Advances(ids)
<1>1. ASSUME NEW ns, NEW ids, P(ns, ids) PROVE LeftBehind'
  <2> DEFINE u == NextKept
             l == last_usable_generation
             r == RecoveredOrdinal
  <2>1. /\ UsableGenerations' = UsableGenerations /\ l' = l /\ u' = u /\ r' = r
        /\ \A g : Unrecorded(g)' = Unrecorded(g)
    BY <1>1, FilesSame
  <2>2. \A x, y, z : spawn_children(x, y, z)' = spawn_children(x, y, z)
    BY DEF spawn_children
  <2>3. \A x : OnDisk(x)' = OnDisk(x)
    BY <1>1 DEF OnDisk
  <2>4. Ids(u)' = Ids(u)
    BY <2>1 DEF Ids
  <2>5. Repeats(lost.nodes)'
    <3>1. Unrecorded(lost.nodes[1].id[1])' = Unrecorded(ns[1].id[1])
      BY <1>1 DEF Unrecorded
    <3>2. spawn_children(u, l, r)' = spawn_children(u, l, r)
      BY <2>1 DEF spawn_children
    <3> HIDE DEF u, l, r
    <3>3. Repeats(ns) <=> (ns # <<>> /\ ns[1].id[1] > 0 /\ Unrecorded(ns[1].id[1]) =>
             UsableGenerations # {} /\ l = ns[1].id[1] - 1 /\ ns = spawn_children(u, l, r))
      BY DEF Repeats, u, l, r
    <3>4. Repeats(lost.nodes)' <=>
            (lost'.nodes # <<>> /\ lost'.nodes[1].id[1] > 0 /\ Unrecorded(lost.nodes[1].id[1])' =>
             UsableGenerations' # {} /\ l' = lost'.nodes[1].id[1] - 1 /\ lost'.nodes = spawn_children(u, l, r)')
      BY DEF Repeats, u, l, r
    <3> QED BY <1>1, <2>1, <3>1, <3>2, <3>3, <3>4
  <2>6. Near(lost.nodes)'
    BY <1>1, <2>1 DEF Near
  <2>7. Advances(lost.parents)'
    <3>1. OnDisk(Ids(u))' = OnDisk(Ids(u)) /\ OnDisk(lost.parents)' = OnDisk(ids)
      BY <1>1, <2>4 DEF OnDisk
    <3>2. \A h : Worlds!OneLegPast(h, OnDisk(lost.parents))' = Worlds!OneLegPast(h, OnDisk(ids))
      BY <3>1 DEF Worlds!OneLegPast
    <3> QED BY <1>1, <2>1, <3>1, <3>2 DEF Advances
  <2> QED BY <2>5, <2>6, <2>7 DEF LeftBehind
<1>2. CASE Leaves
  <2>1. /\ phase \in {"wave", "rank", "prune"} /\ phase' \in {"down", "finished"} /\ S
        /\ lost'.nodes = beam /\ lost'.parents = Parents
    BY <1>2, LeaveDoes
  <2>2. Repeats(beam) /\ Near(beam) /\ Advances(Parents)
    BY <2>1, LostIsRepeated
  <2> HIDE DEF S
  <2>3. P(beam, Parents)
    BY <2>1, <2>2
  <2>4. PICK ns, ids : ns = beam /\ ids = Parents
    OBVIOUS
  <2>5. P(ns, ids)
    BY <2>3, <2>4
  <2> HIDE DEF P
  <2> QED BY <1>1, <2>5
<1>3. CASE UNCHANGED vars
  <2>1. UNCHANGED <<phase, lineage, checkpoints, lost>>
    BY <1>3 DEF vars, files
  <2>2. Ended' => P(lost.nodes, lost.parents)
    BY <2>1 DEF Ended, LeftBehind
  <2>3. PICK ns, ids : ns = lost.nodes /\ ids = lost.parents
    OBVIOUS
  <2>4. Ended' => P(ns, ids)
    BY <2>2, <2>3
  <2> HIDE DEF P
  <2> QED BY <1>1, <2>4 DEF LeftBehind
<1>4. CASE Rebuild \/ FailedResume
  <2>1. resumes \in Nat /\ resumes' = resumes + 1
    <3>1. resumes \in Nat
      BY ScalarsAreTyped
    <3> QED BY <1>4, <3>1, RebuildStep, FailedDoes
  <2> QED BY <2>1
<1>5. ASSUME \/ search \/ record_wave \/ (\E i \in DOMAIN beam : Stage(i))
             \/ Select \/ SpawnNext \/ (\E id \in Doomed : Prune(id))
      PROVE  LeftBehind'
  <2>1. phase' \in {"wave", "rank", "prune"}
    <3>1. CASE search
      BY <3>1, SearchDoes
    <3>2. CASE record_wave
      BY <3>2, RecordDoes
    <3>3. CASE \E i \in DOMAIN beam : Stage(i)
      BY <3>3, StageDoes, InTheWave
    <3>4. CASE Select
      BY <3>4, SelectDoes
    <3>5. CASE SpawnNext
      BY <3>5, SpawnDoes DEF SpawnNext
    <3>6. CASE \E id \in Doomed : Prune(id)
      BY <3>6, PruneDoes
    <3> QED BY <1>5, <3>1, <3>2, <3>3, <3>4, <3>5, <3>6
  <2> QED BY <2>1 DEF LeftBehind, Ended
<1> QED BY <1>2, <1>3, <1>4, <1>5, Kinds

-----------------------------------------------------------------------------
(* The life after the first resume.                                        *)

LEMMA SecondLifeAtRebuild ==
  ASSUME ~NewObjective, Base, LeftBehind, Rebuild
  PROVE  SecondLife'
<1> USE DEF Base
<1>1. /\ Ended /\ phase' = "prune" /\ gen' = last_usable_generation /\ gen' \in Nat
      /\ UsableGenerations # {} /\ ranked' = Sorted(Inherited(gen'))
      /\ ordinal' = RecoveredOrdinal /\ UNCHANGED <<lineage, lost>>
  BY RebuildStep, ConstantsAreTyped
<1>2. Repeats(lost.nodes) /\ Near(lost.nodes)
  BY <1>1 DEF LeftBehind
<1> DEFINE ns == lost.nodes
           h == lost.nodes[1].id[1]
<1>3. Kept(ranked)' = NextKept
  BY <1>1 DEF NextKept, Kept
<1>4. ASSUME ns # <<>> PROVE h <= gen' + 1
  BY <1>1, <1>2, <1>4 DEF Near
<1>5. ASSUME ns # <<>>, h = gen' + 1, Unrecorded(h)'
      PROVE  ns = spawn_children(Kept(ranked), gen, ordinal)'
  <2>1. h > 0 /\ Unrecorded(h)
    BY <1>1, <1>5 DEF Unrecorded
  <2>2. ns = spawn_children(NextKept, gen', ordinal')
    BY <1>1, <1>2, <1>5, <2>1 DEF Repeats
  <2>3. spawn_children(Kept(ranked), gen, ordinal)' = spawn_children(NextKept, gen', ordinal')
    BY <1>3 DEF spawn_children
  <2> QED BY <2>2, <2>3
<1> QED BY <1>1, <1>4, <1>5 DEF SecondLife, Running, Unrecorded

LEMMA SecondLifeStep ==
  ASSUME Base, SecondLife, [Next]_vars, resumes = 1, resumes' = 1
  PROVE  SecondLife'
<1> USE DEF Base
<1> DEFINE ns == lost.nodes
           h == lost.nodes[1].id[1]
           s == spawn_children(Kept(ranked), gen, ordinal)
<1>1. CASE Leaves
  BY <1>1, LeaveDoes DEF SecondLife, Running
<1>2. CASE Rebuild \/ FailedResume
  BY <1>2, RebuildStep, FailedDoes
<1>3. CASE search
  BY <1>3, SearchDoes DEF InMemory
<1>4. ASSUME UNCHANGED <<phase, gen, beam, ranked, ordinal, lineage, lost>> PROVE SecondLife'
  <2>1. s' = s
    BY <1>4 DEF spawn_children, Kept
  <2> QED BY <1>4, <2>1 DEF SecondLife, Running, Unrecorded
<1>5. CASE record_wave
  <2>1. /\ phase = "wave" /\ phase' \in {"wave", "rank"} /\ UNCHANGED <<gen, beam, lost>>
        /\ DOMAIN lineage \subseteq DOMAIN lineage' /\ \A k \in DOMAIN lineage : lineage'[k] = lineage[k]
    <3>1. /\ phase = "wave" /\ phase' \in {"wave", "rank"} /\ UNCHANGED <<gen, beam, lost>>
          /\ DOMAIN lineage' = 1..(Len(lineage) + 1)
          /\ \A k \in DOMAIN lineage : lineage'[k] = lineage[k]
      BY <1>5, RecordDoes
    <3>2. Len(lineage) \in Nat /\ DOMAIN lineage = 1..Len(lineage)
      BY PartsAreTyped
    <3>3. DOMAIN lineage \subseteq DOMAIN lineage'
      BY <3>1, <3>2
    <3> QED BY <3>1, <3>3
  <2>2. Unrecorded(h)' => Unrecorded(h)
    BY <2>1 DEF Unrecorded
  <2>3. Running /\ Running' /\ phase' # "prune"
    BY <2>1 DEF Running
  <2> QED BY <2>1, <2>2, <2>3 DEF SecondLife
<1>6. CASE \E i \in DOMAIN beam : Stage(i)
  BY <1>4, <1>6, StageDoes
<1>7. ASSUME ns # <<>> PROVE h \in Nat /\ gen \in Nat
  <2>1. ns \in Seq(Node) /\ gen \in Nat
    BY ConstantsAreTyped DEF Shape
  <2>2. ns[1] \in Node
    BY <1>7, <2>1
  <2> QED BY <2>1, <2>2 DEF Node, Id
<1>8. CASE Select
  <2>1. phase = "rank" /\ phase' = "prune" /\ UNCHANGED <<gen, lost>>
    BY <1>8, SelectDoes
  <2>2. ns # <<>> => h <= gen
    BY <2>1 DEF SecondLife, Running
  <2>3. ns # <<>> => h <= gen + 1 /\ h # gen + 1
    BY <1>7, <2>2
  <2> QED BY <2>1, <2>3 DEF SecondLife, Running
<1>9. CASE SpawnNext
  <2>1. /\ phase = "prune" /\ phase' = "wave" /\ gen' = gen + 1 /\ beam' = s
        /\ UNCHANGED <<lineage, lost>>
    BY <1>9, SpawnDoes DEF SpawnNext, files
  <2>2. Unrecorded(h)' = Unrecorded(h)
    BY <2>1 DEF Unrecorded
  <2> QED BY <2>1, <2>2 DEF SecondLife, Running
<1>10. CASE \E id \in Doomed : Prune(id)
  BY <1>4, <1>10, PruneDoes
<1>11. CASE UNCHANGED vars
  BY <1>4, <1>11 DEF vars, memory, files
<1> QED BY <1>1, <1>2, <1>3, <1>5, <1>6, <1>8, <1>9, <1>10, <1>11, Kinds

-----------------------------------------------------------------------------
(* The invariant is inductive.                                             *)

LEMMA RecordsAreDistinct ==
  ASSUME Base, FirstLife, NEW g
  PROVE  OneEach(Inherited(g))
<1> USE DEF Base
<1> SUFFICES ASSUME NEW j \in Usable(g), NEW k \in Usable(g),
                    \/ lineage[j].id = lineage[k].id
                    \/ lineage[j].schedule = lineage[k].schedule
             PROVE  j = k
  BY ListsAre DEF OneEach
<1>1. j \in DOMAIN lineage /\ k \in DOMAIN lineage /\ lineage[j].id[1] = g /\ lineage[k].id[1] = g
  BY DEF Usable
<1>2. CASE lineage[j].id = lineage[k].id
  BY <1>1, <1>2 DEF FirstLife
<1>3. CASE lineage[j].schedule = lineage[k].schedule
  <2>1. Descends(lineage[j]) /\ Descends(lineage[k])
    BY <1>1 DEF Family
  <2>2. lineage[j].ordinal = lineage[k].ordinal
    BY <1>1, <1>3, <2>1 DEF Descends
  <2> QED BY <1>1, <2>2 DEF Numbers
<1> QED BY <1>2, <1>3

LEMMA FaithfulAtStart ==
  ASSUME Init, Base
  PROVE  Faithful /\ FirstLife /\ OnFile /\ LeftBehind
<1>1. DOMAIN beam = {} /\ DOMAIN lineage = {} /\ phase = "start" /\ Len(lineage) = 0
      /\ lost.nodes = <<>> /\ recorded = 0 /\ ordinal = 0 /\ Len(beam) = 0
  BY DEF Init
<1>2. ~Running /\ ~Ended
  BY <1>1 DEF Running, Ended
<1>3. ParentsOnDisk /\ LineageFaithful /\ Steady /\ Chosen /\ Broad
  BY <1>1, <1>2 DEF ParentsOnDisk, LineageFaithful, Steady, Chosen, Broad
<1>4. \A g : Usable(g) = {} /\ Cardinality(Usable(g)) = 0
  <2>1. \A g : Usable(g) = {}
    BY <1>1 DEF Usable
  <2> QED BY <2>1, FS_EmptySet
<1>5. UsableGenerations = {}
  BY <1>4 DEF UsableGenerations
<1>6. FirstLife
  BY <1>1, <1>2 DEF FirstLife, Given
<1> QED BY <1>1, <1>2, <1>3, <1>5, <1>6, FaithfulIs DEF OnFile, LeftBehind

LEMMA InvariantAtStart == Init => IInv
<1> SUFFICES ASSUME Init PROVE IInv
  OBVIOUS
<1>1. Base /\ resumes = 0
  BY BaseAtStart DEF Init
<1> QED BY <1>1, FaithfulAtStart DEF IInv, Base

LEMMA InvariantStep ==
  ASSUME ~NewObjective
  PROVE  IInv /\ [Next]_vars => IInv'
<1> SUFFICES ASSUME IInv, [Next]_vars PROVE IInv'
  OBVIOUS
<1>1. Base /\ Base'
  BY BaseStep DEF IInv, Base
<1>2. resumes \in Nat /\ resumes' \in Nat /\ (resumes' = resumes \/ resumes' = resumes + 1)
      /\ (resumes' # resumes => Rebuild \/ FailedResume)
  <2>1. resumes \in Nat
    BY <1>1, ScalarsAreTyped DEF Base
  <2>2. \/ resumes' = resumes
        \/ (Rebuild \/ FailedResume) /\ resumes' = resumes + 1
    <3>1. Shape /\ InMemory /\ Numbers
      BY <1>1 DEF Base
    <3>2. search \/ record_wave \/ Select \/ SpawnNext \/ Leaves => resumes' = resumes
      BY <3>1, RecordDoes, SelectDoes, LeaveDoes DEF search, SpawnNext, Spawn
    <3>3. (\E i \in DOMAIN beam : Stage(i)) => resumes' = resumes
      BY <3>1, StageDoes
    <3>4. (\E id \in Doomed : Prune(id)) => resumes' = resumes
      BY <3>1, PruneDoes
    <3>5. Rebuild \/ FailedResume => resumes' = resumes + 1
      BY <3>1, RebuildStep, FailedDoes
    <3>6. UNCHANGED vars => resumes' = resumes
      BY DEF vars
    <3>7. \/ search \/ record_wave \/ Select \/ SpawnNext \/ Leaves
          \/ (\E i \in DOMAIN beam : Stage(i)) \/ (\E id \in Doomed : Prune(id))
          \/ UNCHANGED vars \/ Rebuild \/ FailedResume
      BY Kinds
    <3> QED BY <3>2, <3>3, <3>4, <3>5, <3>6, <3>7, Zenon
  <2> QED BY <2>1, <2>2
<1>3. ASSUME resumes' <= 1 PROVE Faithful'
  <2>1. Faithful
    BY <1>2, <1>3 DEF IInv
  <2>2. ASSUME Rebuild PROVE Whole(NextKept) /\ OneEach(Inherited(last_usable_generation))
    <3>1. resumes = 0 /\ UsableGenerations # {}
      BY <1>1, <1>2, <1>3, <2>2, RebuildStep DEF Base
    <3> QED BY <1>1, <3>1, RecordsAreDistinct DEF IInv, OnFile
  <2> QED BY <1>1, <2>1, <2>2, FaithfulStep
<1>4. ASSUME resumes' = 0 PROVE FirstLife' /\ OnFile' /\ LeftBehind'
  <2>1. resumes = 0
    BY <1>2, <1>4
  <2>2. Faithful /\ FirstLife /\ OnFile /\ LeftBehind
    BY <2>1 DEF IInv
  <2>3. Faithful'
    BY <1>3, <1>4
  <2>4. FirstLife'
    BY <1>1, <1>4, <2>2, FirstLifeStep
  <2>5. OnFile'
    BY <1>1, <1>4, <2>2, <2>3, <2>4, OnFileStep
  <2>6. LeftBehind'
    BY <1>1, <1>4, <2>2, LeftBehindStep
  <2> QED BY <2>4, <2>5, <2>6
<1>5. ASSUME resumes' = 1 PROVE SecondLife'
  <2>1. CASE resumes = 1
    BY <1>1, <1>5, <2>1, SecondLifeStep DEF IInv
  <2>2. CASE resumes = 0 /\ Rebuild
    BY <1>1, <2>2, SecondLifeAtRebuild DEF IInv
  <2>3. CASE resumes = 0 /\ FailedResume
    BY <2>3, FailedDoes DEF SecondLife, Running
  <2> QED BY <1>2, <1>5, <2>1, <2>2, <2>3
<1> QED BY <1>1, <1>3, <1>4, <1>5 DEF IInv, Base

LEMMA AlwaysTrue ==
  ASSUME ~NewObjective
  PROVE  Spec => []IInv
BY InvariantAtStart, InvariantStep, PTL DEF Spec

-----------------------------------------------------------------------------
(* The safety of a search that is resumed once, and ranks by what its      *)
(* records were ranked by.                                                 *)

LEMMA ResumedOnce ==
  ASSUME MaxResumes <= 1
  PROVE  IInv => Base /\ Faithful /\ resumes \in {0, 1}
<1>1. IInv => Base /\ resumes \in 0..MaxResumes
  BY DEF IInv, Base, Shape
<1>2. IInv => resumes \in {0, 1}
  BY <1>1, ConstantsAreTyped
<1>3. IInv => Faithful
  BY <1>2 DEF IInv
<1> QED BY <1>1, <1>2, <1>3

(* Every record without an error has, as its schedule, the history of the  *)
(* world it was written for: no boot, copy, prune or resume mixes branches *)
(* up.                                                                     *)
THEOREM RecordsAreFaithful ==
  ASSUME MaxResumes <= 1, ~NewObjective
  PROVE  Spec => []LineageFaithful
<1>1. IInv => LineageFaithful
  BY ResumedOnce DEF Faithful
<1> QED BY <1>1, AlwaysTrue, PTL

(* The beam is never lost: the worlds that are branched from stay on disk  *)
(* as the children need them, and each generation is as wide as the first. *)
THEOREM TheBeamStaysWhole ==
  ASSUME MaxResumes <= 1, ~NewObjective
  PROVE  Spec => []BeamIsWhole
<1>1. IInv => BeamIsWhole
  <2>1. Broad => BeamKeepsItsWidth
    BY DEF Broad, BeamKeepsItsWidth, Running
  <2> QED BY <2>1, ResumedOnce, FaithfulIs DEF BeamIsWhole
<1> QED BY <1>1, AlwaysTrue, PTL

(* What is lost without a record is what the resume starts over: the same  *)
(* nodes, parents, schedules and reseeds.                                  *)
THEOREM ReseedsSurviveAResume ==
  ASSUME MaxResumes <= 1, ~NewObjective
  PROVE  Spec => []ReseedsSurvive
<1>1. IInv => RepeatsTheLostGeneration
  <2> SUFFICES ASSUME IInv, phase = "wave", lost.nodes # <<>>, lost.nodes[1].id[1] = gen,
                      Unrecorded(gen)
               PROVE  beam = lost.nodes
    BY DEF RepeatsTheLostGeneration, Unrecorded
  <2>1. Running /\ ~Ended
    BY DEF Running, Ended
  <2>2. CASE resumes = 0
    BY <2>1, <2>2 DEF IInv, FirstLife
  <2>3. CASE resumes = 1
    BY <2>1, <2>3 DEF IInv, SecondLife
  <2> QED BY <2>2, <2>3, ResumedOnce
<1> QED BY <1>1, AlwaysTrue, ReseedsNeverCollide, PTL DEF ReseedsSurvive

-----------------------------------------------------------------------------
(* The search carries a beam.                                              *)

(* While survivors are branched from, the beam is their worlds.            *)
LEMMA ChosenWorlds ==
  Base /\ Faithful /\ phase = "prune" =>
    /\ BeamNow = OnDisk(Ids(Kept(ranked)))
    /\ Cardinality(BeamNow) \in 2..KeepTop
    /\ \A h \in BeamNow : \E k \in DOMAIN ranked : h = ranked[k].schedule
<1> SUFFICES ASSUME Base, Faithful, phase = "prune"
             PROVE  /\ BeamNow = OnDisk(Ids(Kept(ranked)))
                    /\ Cardinality(BeamNow) \in 2..KeepTop
                    /\ \A h \in BeamNow : \E k \in DOMAIN ranked : h = ranked[k].schedule
  OBVIOUS
<1> USE DEF Base
<1> DEFINE keep == Kept(ranked)
<1>1. ranked \in Seq(Scored) /\ OneEach(ranked) /\ Whole(keep) /\ Len(ranked) >= 2
  BY FaithfulIs DEF Chosen, Shape, InMemory
<1>2. /\ keep \in Seq(Scored) /\ Len(keep) >= 2 /\ Len(keep) <= KeepTop
      /\ \A k \in 1..Len(keep) : k \in DOMAIN ranked /\ keep[k] = ranked[k]
  BY <1>1, KeptIs
<1>3. OneEach(keep)
  BY <1>1, KeptIdsAre
<1>4. BeamNow = OnDisk(Ids(keep))
  BY DEF BeamNow, Parents
<1> HIDE DEF keep
<1>5. DOMAIN keep = 1..Len(keep) /\ Len(keep) \in Nat
  BY <1>2
<1>6. OnDisk(Ids(keep)) = {keep[k].schedule : k \in DOMAIN keep}
  <2>1. \A k \in DOMAIN keep : /\ keep[k].id \in DOMAIN checkpoints
                               /\ checkpoints[keep[k].id].world = keep[k].schedule
    BY <1>1 DEF Whole, HasCheckpoint
  <2> QED BY <2>1 DEF OnDisk, Ids
<1>7. Cardinality(BeamNow) = Len(keep)
  <2> DEFINE D == 1..Len(keep)
             f == [k \in D |-> keep[k].schedule]
             T == {keep[k].schedule : k \in D}
  <2>1. f \in [D -> T] /\ \A y \in T : \E k \in D : f[k] = y
    OBVIOUS
  <2>2. \A x, y \in D : f[x] = f[y] => x = y
    BY <1>3, <1>5 DEF OneEach
  <2>3. IsFiniteSet(D) /\ Cardinality(D) = Len(keep)
    <3>1. IsFiniteSet(1..Len(keep)) /\ Cardinality(1..Len(keep)) = Len(keep) - 1 + 1
      <4>1. \A n \in Nat : IsFiniteSet(1..n) /\ Cardinality(1..n) = n
        BY FS_Interval
      <4> QED BY <1>5, <4>1
    <3> QED BY <1>5, <3>1
  <2>4. BeamNow = T
    BY <1>4, <1>5, <1>6
  <2> HIDE DEF D, f, T
  <2>5. Cardinality(T) = Cardinality(D)
    BY <2>1, <2>2, <2>3, SameCount
  <2> QED BY <2>3, <2>4, <2>5
<1>8. Cardinality(BeamNow) \in 2..KeepTop
  BY <1>2, <1>5, <1>7, ConstantsAreTyped
<1>9. \A h \in BeamNow : \E k \in DOMAIN ranked : h = ranked[k].schedule
  BY <1>2, <1>4, <1>5, <1>6
<1> QED BY <1>4, <1>8, <1>9 DEF keep

LEMMA ChosenWorldsNext ==
  (Base /\ Faithful /\ phase = "prune" =>
    /\ BeamNow = OnDisk(Ids(Kept(ranked)))
    /\ Cardinality(BeamNow) \in 2..KeepTop
    /\ \A h \in BeamNow : \E k \in DOMAIN ranked : h = ranked[k].schedule)'
BY ChosenWorlds, PTL

LEMMA SameCardinality == \A S : Worlds!Cardinality(S) = Cardinality(S)
BY DEF Worlds!Cardinality, Cardinality, Worlds!IsFiniteSet, IsFiniteSet

LEMMA SelectAdvances ==
  ASSUME Base, Base', Faithful, Faithful', Select
  PROVE  Worlds!Advance
<1> USE DEF Base
<1>1. /\ phase = "rank" /\ phase' = "prune"
      /\ \A k \in DOMAIN ranked' : \E i \in DOMAIN beam : ranked'[k].schedule = beam[i].schedule
  BY SelectDoes
<1>2. BeamNow = OnDisk(Parents) /\ Running /\ ParentsOnDisk
  BY <1>1, FaithfulIs DEF BeamNow, Running
<1>3. /\ Cardinality(BeamNow') \in 2..KeepTop
      /\ \A h \in BeamNow' : \E k \in DOMAIN ranked' : h = ranked'[k].schedule
  BY <1>1, ChosenWorldsNext
<1>4. \A h \in BeamNow' : Worlds!OneLegPast(h, BeamNow)
  <2> SUFFICES ASSUME NEW h \in BeamNow' PROVE Worlds!OneLegPast(h, BeamNow)
    OBVIOUS
  <2>1. PICK i \in DOMAIN beam : h = beam[i].schedule
    BY <1>1, <1>3
  <2>2. Worlds!OneLegPast(beam[i].schedule, OnDisk(Parents))
    BY <1>2, OneLegFurther
  <2> QED BY <1>2, <2>1, <2>2
<1> QED BY <1>3, <1>4, SameCardinality DEF Worlds!Advance

LEMMA RebuildAdvances ==
  ASSUME ~NewObjective, Base, Base', Faithful', OnFile, LeftBehind, Rebuild
  PROVE  Worlds!Advance \/ BeamNow' = BeamNow
<1> USE DEF Base
<1> DEFINE g == last_usable_generation
<1>1. /\ Ended /\ phase' = "prune" /\ gen' = g /\ UsableGenerations # {}
      /\ ranked' = Sorted(Inherited(g))
      /\ \/ UNCHANGED checkpoints
         \/ checkpoints' = Restrict(checkpoints, Ids(Inherited(g)))
  BY RebuildStep
<1>2. BeamNow = OnDisk(lost.parents) /\ Kept(ranked') = NextKept
  BY <1>1 DEF BeamNow, Ended, NextKept
<1>3. BeamNow' = OnDisk(Ids(NextKept))
  <2>1. BeamNow' = {checkpoints'[id].world : id \in Ids(Kept(ranked')) \cap DOMAIN checkpoints'}
    BY <1>1 DEF BeamNow, Parents, OnDisk, Ids, Kept
  <2>2. Ids(NextKept) \subseteq Ids(Inherited(g))
    <3>1. \A k \in DOMAIN NextKept : \E l \in DOMAIN Inherited(g) : NextKept[k] = Inherited(g)[l]
      BY <1>1, NextKeptIs, ListsAre
    <3> QED BY <3>1 DEF Ids
  <2> DEFINE I == Ids(Inherited(g))
             J == Ids(NextKept)
  <2>3. /\ J \cap DOMAIN checkpoints' = J \cap DOMAIN checkpoints
        /\ \A id \in J \cap DOMAIN checkpoints : checkpoints'[id] = checkpoints[id]
    <3>1. CASE UNCHANGED checkpoints
      BY <3>1
    <3>2. CASE checkpoints' = Restrict(checkpoints, I)
      <4>1. DOMAIN checkpoints' = I /\ \A id \in I : checkpoints'[id] = checkpoints[id]
        <5> HIDE DEF I
        <5> QED BY <3>2 DEF Restrict
      <4>2. I \subseteq DOMAIN checkpoints
        <5> HIDE DEF g
        <5>1. \A k \in Usable(g) : lineage[k].id \in DOMAIN checkpoints
          BY DEF Usable, HasCheckpoint
        <5>2. DOMAIN Inherited(g) = Usable(g) /\ \A k \in Usable(g) : Inherited(g)[k].id = lineage[k].id
          BY ListsAre
        <5> QED BY <5>1, <5>2 DEF Ids
      <4> HIDE DEF I, J
      <4> QED BY <2>2, <4>1, <4>2 DEF I, J
    <3> QED BY <1>1, <3>1, <3>2
  <2>4. BeamNow' = {checkpoints'[id].world : id \in J \cap DOMAIN checkpoints'}
    BY <1>2, <2>1
  <2> HIDE DEF I, J
  <2>5. BeamNow' = {checkpoints[id].world : id \in J \cap DOMAIN checkpoints}
    BY <2>3, <2>4
  <2> QED BY <2>5 DEF OnDisk, J
<1>4. Cardinality(BeamNow') \in 2..KeepTop
  BY <1>1, ChosenWorldsNext
<1>5. \/ OnDisk(Ids(NextKept)) = OnDisk(lost.parents)
      \/ \A h \in OnDisk(Ids(NextKept)) : Worlds!OneLegPast(h, OnDisk(lost.parents))
  BY <1>1 DEF LeftBehind, Advances
<1> QED BY <1>2, <1>3, <1>4, <1>5, SameCardinality DEF Worlds!Advance

(* A step that neither chooses nor resumes leaves the beam as it is.       *)
LEMMA BeamStays ==
  ASSUME Base, Base', Faithful, [Next]_vars, ~Select, ~Rebuild
  PROVE  BeamNow' = BeamNow
<1> USE DEF Base
<1> DEFINE Q(ids) == \A id \in ids : /\ id \in DOMAIN checkpoints' <=> id \in DOMAIN checkpoints
                                     /\ id \in DOMAIN checkpoints => checkpoints'[id] = checkpoints[id]
<1>1. ASSUME NEW ids, Q(ids) PROVE OnDisk(ids)' = OnDisk(ids)
  BY <1>1 DEF OnDisk
<1>2. None \notin DOMAIN checkpoints /\ None \notin DOMAIN checkpoints'
  BY ConstantsAreTyped DEF Shape
<1>3. CASE search
  <2>1. /\ phase = "start" /\ phase' = "wave" /\ gen' = 0 /\ beam = <<>>
    BY <1>3, SearchDoes DEF InMemory, Running
  <2>2. BeamNow = {}
    BY <2>1 DEF BeamNow, Parents, OnDisk
  <2>3. \A i \in DOMAIN beam' : beam'[i].id[1] = 0 /\ beam'[i].parent = None
    <3>1. \A i \in DOMAIN beam' : beam'[i].id = <<0, i - 1>> /\ Descends(beam[i])'
      BY <2>1 DEF Family
    <3> QED BY <3>1 DEF Descends
  <2>4. BeamNow' = {}
    BY <1>2, <2>1, <2>3 DEF BeamNow, Parents, OnDisk
  <2> QED BY <2>2, <2>4
<1>4. CASE record_wave
  <2>1. phase = "wave" /\ phase' \in {"wave", "rank"} /\ UNCHANGED <<beam, checkpoints>>
    BY <1>4, RecordDoes
  <2> QED BY <2>1 DEF BeamNow, Parents, OnDisk
<1>5. ASSUME NEW i \in DOMAIN beam, Stage(i) PROVE BeamNow' = BeamNow
  <2>1. /\ UNCHANGED <<phase, beam, ranked>>
        /\ DOMAIN checkpoints \subseteq DOMAIN checkpoints'
        /\ DOMAIN checkpoints' \subseteq DOMAIN checkpoints \cup {beam[i].id}
        /\ \A id \in DOMAIN checkpoints : id # beam[i].id => checkpoints'[id] = checkpoints[id]
    BY <1>5, StageDoes
  <2>2. phase = "wave"
    BY <1>5, InTheWave
  <2>3. \A j \in DOMAIN beam : beam[j].parent # beam[i].id
    <3>1. None # beam[i].id
      BY PartsAreTyped, ConstantsAreTyped
    <3> QED BY <3>1, ParentsAreOlder
  <2>4. \A id \in Parents : id # beam[i].id
    BY <2>2, <2>3, ParentsAre
  <2>5. OnDisk(Parents) = BeamNow /\ BeamNow' = OnDisk(Parents)'
    BY <2>1, <2>2 DEF BeamNow
  <2>6. Parents' = Parents
    BY <2>1, <2>2 DEF Parents
  <2>7. Q(Parents)
    BY <2>1, <2>4
  <2> QED BY <2>5, <2>6, <2>7 DEF OnDisk
<1>6. CASE SpawnNext
  <2>1. /\ phase = "prune" /\ phase' = "wave" /\ checkpoints' = checkpoints
        /\ Kept(ranked) \in Seq(Scored) /\ Len(Kept(ranked)) >= 1
        /\ beam' = spawn_children(Kept(ranked), gen, ordinal) /\ gen \in Nat /\ ordinal \in Nat
    <3>1. /\ phase = "prune" /\ phase' = "wave" /\ checkpoints' = checkpoints
          /\ Kept(ranked) \in Seq(Scored) /\ Len(Kept(ranked)) >= 2
          /\ beam' = spawn_children(Kept(ranked), gen, ordinal)
      BY <1>6, SpawnDoes DEF SpawnNext, files
    <3> QED BY <3>1, ScalarsAreTyped
  <2> DEFINE u == Kept(ranked)
  <2>2. /\ \A i \in DOMAIN beam' : \E j \in DOMAIN u : beam'[i].parent = u[j].id
        /\ \A j \in DOMAIN u : \E i \in DOMAIN beam' : beam'[i].parent = u[j].id
    <3> HIDE DEF u
    <3> QED BY <2>1, Spawned DEF u
  <2> HIDE DEF u
  <2>3. {beam'[i].parent : i \in DOMAIN beam'} = Ids(u)
    BY <2>2 DEF Ids
  <2> QED BY <2>1, <2>3 DEF BeamNow, Parents, OnDisk, u
<1>7. CASE Leaves
  <2>1. /\ phase \in {"wave", "rank", "prune"} /\ phase' \in {"down", "finished"}
        /\ lost'.parents = Parents /\ checkpoints' = checkpoints
    BY <1>7, LeaveDoes
  <2> QED BY <2>1 DEF BeamNow, OnDisk
<1>8. ASSUME NEW id \in Doomed, Prune(id) PROVE BeamNow' = BeamNow
  <2>1. /\ phase = "prune" /\ id \in Ids(Pruned(ranked)) /\ UNCHANGED <<phase, ranked>>
        /\ DOMAIN checkpoints' \subseteq DOMAIN checkpoints
        /\ \A x \in DOMAIN checkpoints : x # id => x \in DOMAIN checkpoints' /\ checkpoints'[x] = checkpoints[x]
    BY <1>8, PruneDoes
  <2>2. id \notin Ids(Kept(ranked))
    BY <2>1, FaithfulIs, KeptIdsAre DEF Chosen, Shape
  <2>3. BeamNow = OnDisk(Ids(Kept(ranked))) /\ BeamNow' = OnDisk(Ids(Kept(ranked)))'
    BY <2>1 DEF BeamNow, Parents
  <2>4. Ids(Kept(ranked))' = Ids(Kept(ranked))
    BY <2>1 DEF Ids, Kept
  <2>5. Q(Ids(Kept(ranked)))
    BY <2>1, <2>2
  <2> QED BY <2>3, <2>4, <2>5 DEF OnDisk
<1>9. CASE FailedResume
  BY <1>9, FailedDoes DEF BeamNow, Ended, OnDisk
<1>10. CASE UNCHANGED vars
  BY <1>10 DEF vars, memory, files, BeamNow, Parents, OnDisk, Ids, Kept
<1> QED BY <1>3, <1>4, <1>5, <1>6, <1>7, <1>8, <1>9, <1>10, Kinds

(* The search implements its specification: killed and resumed once, it    *)
(* carries at least two worlds forward, each grown out of the ones before. *)
THEOREM TheBeamIsCarried ==
  ASSUME MaxResumes <= 1, ~NewObjective
  PROVE  Spec => CarriesTheBeam
<1>1. Init => Worlds!Init
  BY DEF Init, Worlds!Init, BeamNow, Parents, OnDisk
<1>2. IInv /\ IInv' /\ [Next]_vars => [Worlds!Advance]_BeamNow
  <2> SUFFICES ASSUME IInv, IInv', [Next]_vars PROVE Worlds!Advance \/ BeamNow' = BeamNow
    OBVIOUS
  <2>1. Base /\ Faithful /\ resumes \in {0, 1}
    BY ResumedOnce
  <2>2. Base' /\ Faithful' /\ resumes' \in {0, 1}
    <3>1. (IInv => Base /\ Faithful /\ resumes \in {0, 1})'
      BY ResumedOnce, PTL
    <3> QED BY <3>1
  <2>3. CASE Select
    BY <2>1, <2>2, <2>3, SelectAdvances
  <2>4. CASE Rebuild
    <3>1. resumes = 0
      BY <2>1, <2>2, <2>4, RebuildStep DEF Base
    <3>2. OnFile /\ LeftBehind
      BY <3>1 DEF IInv
    <3> QED BY <2>1, <2>2, <2>4, <3>2, RebuildAdvances
  <2> QED BY <2>1, <2>2, <2>3, <2>4, BeamStays
<1> QED BY <1>1, <1>2, AlwaysTrue, PTL DEF Spec, CarriesTheBeam, Worlds!Spec
=============================================================================
