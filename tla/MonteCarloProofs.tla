-------------------------- MODULE MonteCarloProofs --------------------------
(***************************************************************************)
(* Theorems about the Monte Carlo model for every size of the slab, every  *)
(* number of loose blocks and every set of patterns: no pit is ever dug,   *)
(* and the datapack sees the shapes the model counts.                      *)
(***************************************************************************)
EXTENDS MonteCarlo, FiniteSetTheorems, NaturalsInduction, WellFoundedInduction, TLAPS

(* The columns alone: the rest of the state decides nothing about them.    *)
Columns ==
  /\ h \in [Slab -> Nat] /\ p \in [Slab -> Nat] /\ d \in [Slab -> Nat]
  /\ at \in Slab

IInv == Columns /\ GroundIsWhole

-----------------------------------------------------------------------------
(* What a take and a placement do to one column.                           *)

(* Whoever stands on whole ground reaches only placed blocks.              *)
LEMMA ReachesPlacedOnly ==
  ASSUME IInv, NEW c \in Slab, Reach(c)
  PROVE  p[c] > 0 /\ h[c] - 1 >= BASE
<1>1. h[at] = BASE + p[at] /\ h[c] = BASE + p[c]
  BY DEF IInv, Columns, GroundIsWhole
<1>2. p[at] \in Nat /\ p[c] \in Nat /\ BASE \in Nat \ {0}
  BY MonteCarloAssumption DEF IInv, Columns
<1>3. h[c] - 1 >= h[at]
  BY <1>1, <1>2 DEF Reach
<1> QED BY <1>1, <1>2, <1>3

LEMMA TakeKeepsTheGround ==
  ASSUME IInv, try_take
  PROVE  IInv'
<1>1. PICK c \in Slab :
        /\ Reach(c)
        /\ h' = [h EXCEPT ![c] = @ - 1]
        /\ IF p[c] > 0
           THEN p' = [p EXCEPT ![c] = @ - 1] /\ UNCHANGED d
           ELSE d' = [d EXCEPT ![c] = @ + 1] /\ UNCHANGED p
        /\ deep_pit' = IF h[c] - 1 < BASE THEN deep_pit + 1 ELSE deep_pit
  BY DEF try_take
<1>2. p[c] > 0 /\ h[c] - 1 >= BASE
  BY <1>1, ReachesPlacedOnly
<1>3. h[c] \in Nat /\ p[c] \in Nat /\ BASE \in Nat /\ h[c] = BASE + p[c]
  BY MonteCarloAssumption DEF IInv, Columns, GroundIsWhole
<1>4. p' = [p EXCEPT ![c] = @ - 1] /\ d' = d
  BY <1>1, <1>2
<1>5. deep_pit' = 0
  BY <1>1, <1>2, <1>3 DEF IInv, GroundIsWhole
<1>6. h[c] - 1 \in Nat /\ p[c] - 1 \in Nat
  BY <1>2, <1>3
<1>7. Columns'
  BY <1>1, <1>4, <1>6 DEF IInv, Columns, try_take
<1>8. ASSUME NEW x \in Slab PROVE d'[x] = 0 /\ h'[x] = BASE + p'[x]
  BY <1>1, <1>3, <1>4 DEF IInv, Columns, GroundIsWhole
<1> QED BY <1>5, <1>7, <1>8 DEF IInv, GroundIsWhole

LEMMA LeaveKeepsTheGround ==
  ASSUME IInv, try_leave
  PROVE  IInv'
<1>1. PICK c \in Slab :
        /\ h' = [h EXCEPT ![c] = @ + 1]
        /\ p' = [p EXCEPT ![c] = @ + 1]
  BY DEF try_leave
<1>2. h[c] \in Nat /\ p[c] \in Nat /\ BASE \in Nat /\ h[c] = BASE + p[c]
  BY MonteCarloAssumption DEF IInv, Columns, GroundIsWhole
<1>3. d' = d /\ at' = at /\ deep_pit' = deep_pit
  BY DEF try_leave
<1>4. Columns'
  BY <1>1, <1>2, <1>3 DEF IInv, Columns
<1>5. ASSUME NEW x \in Slab PROVE d'[x] = 0 /\ h'[x] = BASE + p'[x]
  BY <1>1, <1>2, <1>3 DEF IInv, Columns, GroundIsWhole
<1> QED BY <1>3, <1>4, <1>5 DEF IInv, GroundIsWhole

-----------------------------------------------------------------------------
LEMMA InitHolds == Init => IInv
<1> SUFFICES ASSUME Init PROVE IInv
  OBVIOUS
<1>1. PICK seeded \in kSubset(Loose, Slab) :
        /\ h = [c \in Slab |-> IF c \in seeded THEN BASE + 1 ELSE BASE]
        /\ p = [c \in Slab |-> IF c \in seeded THEN 1 ELSE 0]
  BY DEF Init
<1>2. BASE \in Nat
  BY MonteCarloAssumption
<1>3. Columns
  BY <1>1, <1>2 DEF Init, Columns
<1>4. ASSUME NEW c \in Slab PROVE d[c] = 0 /\ h[c] = BASE + p[c]
  BY <1>1, <1>2 DEF Init
<1> QED BY <1>3, <1>4 DEF Init, IInv, GroundIsWhole

LEMMA StepHolds == IInv /\ [Next]_vars => IInv'
<1> SUFFICES ASSUME IInv, [Next]_vars PROVE IInv'
  OBVIOUS
<1> USE DEF IInv, Columns, GroundIsWhole
<1>1. CASE Step
  BY <1>1 DEF Step
<1>2. CASE relocate
  BY <1>2 DEF relocate, Targets
<1>3. CASE advance_villager
  BY <1>3 DEF advance_villager
<1>4. CASE try_take
  BY <1>4, TakeKeepsTheGround
<1>5. CASE try_leave
  BY <1>5, LeaveKeepsTheGround
<1>6. CASE Scan
  BY <1>6 DEF Scan
<1>7. CASE UNCHANGED vars
  BY <1>7 DEF vars
<1> QED BY <1>1, <1>2, <1>3, <1>4, <1>5, <1>6, <1>7 DEF Next

LEMMA Invariance == Spec => []IInv
  BY InitHolds, StepHolds, PTL DEF Spec

(* However long it goes on, no original block is taken and nothing is dug  *)
(* below the flat ground: PARAMS.md's "pit depth" of zero.                 *)
THEOREM PitsNever == Spec => []GroundIsWhole
<1>1. IInv => GroundIsWhole
  BY DEF IInv
<1> QED BY <1>1, Invariance, PTL
-----------------------------------------------------------------------------
(* A cell of the slab is what the model marks exactly when the datapack's  *)
(* block tests and the reference matcher's tops say so.                    *)
LEMMA CellsAgree ==
  ASSUME IInv, NEW c \in Slab, NEW y \in Scanned
  PROVE  /\ PlacedAt(h, p, c, y) <=> top_at(h, c, y)
         /\ Tops(h)[c] = y <=> top_at(h, c, y)
<1>1. h[c] = BASE + p[c] /\ p[c] \in Nat /\ h[c] \in Nat
  BY DEF IInv, Columns, GroundIsWhole
<1>2. BASE \in Nat \ {0} /\ y \in Nat /\ y >= BASE
  BY MonteCarloAssumption
<1>3. top_at(h, c, y) <=> h[c] = y + 1
  BY <1>1, <1>2 DEF top_at, Block
<1>4. PlacedAt(h, p, c, y) <=> h[c] = y + 1
  BY <1>1, <1>2 DEF PlacedAt
<1>5. Tops(h)[c] = h[c] - 1
  BY DEF Tops
<1> QED BY <1>1, <1>2, <1>3, <1>4, <1>5

LEMMA InTheWindow ==
  ASSUME NEW P \in Shapes, NEW w \in Corners(P), NEW cell \in Window(P)
  PROVE  At(w, cell) \in Slab
  BY DEF Corners

LEMMA WindowsAgree ==
  ASSUME IInv, NEW P \in Shapes, NEW w \in Corners(P), NEW y \in Scanned
  PROVE  /\ SimCells(h, p, P, w, y) = PackCells(h, P, w, y)
         /\ TopCells(Tops(h), P, w, y) = PackCells(h, P, w, y)
<1>1. ASSUME NEW cell \in Window(P)
      PROVE  /\ PlacedAt(h, p, At(w, cell), y) <=> top_at(h, At(w, cell), y)
             /\ Tops(h)[At(w, cell)] = y <=> top_at(h, At(w, cell), y)
  BY InTheWindow, CellsAgree
<1> QED BY <1>1 DEF SimCells, PackCells, TopCells

(* A window that makes the pattern at y has its anchor's top at y.         *)
LEMMA AnchorIsThere ==
  ASSUME IInv, NEW P \in Shapes, NEW w \in Corners(P), NEW y \in Scanned,
         Makes(P, PackCells(h, P, w, y))
  PROVE  h[At(w, P.anchor)] - 1 = y
<1>1. P.anchor \in PackCells(h, P, w, y)
  BY MonteCarloAssumption DEF Makes
<1>2. P.anchor \in Window(P) /\ top_at(h, At(w, P.anchor), y)
  BY <1>1 DEF PackCells
<1>3. At(w, P.anchor) \in Slab
  BY <1>2, InTheWindow
<1>4. Tops(h)[At(w, P.anchor)] = y
  BY <1>2, <1>3, CellsAgree
<1> QED BY <1>3, <1>4 DEF Tops

LEMMA AnchorOnSlab ==
  ASSUME NEW P \in Shapes, NEW w \in Corners(P)
  PROVE  At(w, P.anchor) \in Slab
  BY InTheWindow, MonteCarloAssumption

LEMMA HitsAgree ==
  ASSUME IInv, NEW P \in Shapes
  PROVE  /\ PackHits(h, P, Scanned) = {x \in SimHits(h, p, P) : x[2] \in Scanned}
         /\ PackHits(h, P, Scanned) = match_tops(Tops(h), P, Scanned)
<1> DEFINE Y(w) == h[At(w, P.anchor)] - 1
<1>1. ASSUME NEW x \in PackHits(h, P, Scanned)
      PROVE  x \in SimHits(h, p, P) /\ x[2] \in Scanned /\ x \in match_tops(Tops(h), P, Scanned)
  <2>1. PICK w \in Corners(P), y \in Scanned : x = <<w, y>> /\ Makes(P, PackCells(h, P, w, y))
    BY <1>1 DEF PackHits
  <2>2. Y(w) = y
    BY <2>1, AnchorIsThere
  <2>3. Makes(P, SimCells(h, p, P, w, Y(w))) /\ Makes(P, TopCells(Tops(h), P, w, y))
    BY <2>1, <2>2, WindowsAgree
  <2>4. x \in SimHits(h, p, P)
    BY <2>1, <2>2, <2>3 DEF SimHits
  <2>5. Tops(h)[At(w, P.anchor)] = y
    BY <2>2, AnchorOnSlab DEF Tops
  <2>6. x \in match_tops(Tops(h), P, Scanned)
    BY <2>1, <2>3, <2>5 DEF match_tops
  <2> QED BY <2>1, <2>4, <2>6
<1>2. ASSUME NEW x \in SimHits(h, p, P), x[2] \in Scanned
      PROVE  x \in PackHits(h, P, Scanned)
  <2>1. PICK w \in Corners(P) : x = <<w, Y(w)>> /\ Makes(P, SimCells(h, p, P, w, Y(w)))
    BY <1>2 DEF SimHits
  <2>2. Y(w) \in Scanned
    BY <1>2, <2>1
  <2>3. Makes(P, PackCells(h, P, w, Y(w)))
    BY <2>1, <2>2, WindowsAgree
  <2> QED BY <2>1, <2>2, <2>3 DEF PackHits
<1>3. ASSUME NEW x \in match_tops(Tops(h), P, Scanned)
      PROVE  x \in PackHits(h, P, Scanned)
  <2>1. PICK w \in Corners(P) :
          /\ x = <<w, Tops(h)[At(w, P.anchor)]>>
          /\ Tops(h)[At(w, P.anchor)] \in Scanned
          /\ Makes(P, TopCells(Tops(h), P, w, Tops(h)[At(w, P.anchor)]))
    BY <1>3 DEF match_tops
  <2>2. Makes(P, PackCells(h, P, w, Tops(h)[At(w, P.anchor)]))
    BY <2>1, WindowsAgree
  <2> QED BY <2>1, <2>2 DEF PackHits
<1> QED BY <1>1, <1>2, <1>3

LEMMA StacksAgree ==
  ASSUME IInv, NEW k \in 1..5
  PROVE  ColumnStack(h, BASE, k) <=> Pillar(p, k)
<1>1. ASSUME NEW c \in Slab
      PROVE  (\A i \in 0..(k - 1) : Block(h, c, BASE + i)) <=> p[c] >= k
  <2>1. h[c] = BASE + p[c] /\ p[c] \in Nat /\ BASE \in Nat
    BY MonteCarloAssumption DEF IInv, Columns, GroundIsWhole
  <2>2. ASSUME NEW i \in 0..(k - 1) PROVE Block(h, c, BASE + i) <=> i < p[c]
    BY <2>1 DEF Block
  <2>3. k - 1 \in 0..(k - 1) /\ k \in Int
    OBVIOUS
  <2> QED BY <2>1, <2>2, <2>3
<1> QED BY <1>1 DEF ColumnStack, Stacked, Pillar

LEMMA TrapsAreEnclosed ==
  ASSUME IInv, NEW c \in Trap1(h, p)
  PROVE  Enclosed(h, c, {0})
<1>1. c \in Inner /\ c \in Slab
  BY DEF Trap1, Inner
<1>2. h[c] \in Nat
  BY <1>1 DEF IInv, Columns
<1>3. ASSUME NEW s \in Sides PROVE Block(h, At(c, s), h[c] + 0)
  <2>1. At(c, s) \in Slab /\ h[At(c, s)] - 1 = h[c]
    BY <1>1 DEF Trap1, PlacedAt, Inner
  <2>2. h[At(c, s)] \in Nat
    BY <2>1 DEF IInv, Columns
  <2> QED BY <1>2, <2>1, <2>2 DEF Block
<1> QED BY <1>3 DEF Enclosed, Walls

(* On every slab the model reaches, detectors and reference matcher see    *)
(* what the model counts: a hit in the game means what a hit in the Monte  *)
(* Carlo model means.                                                      *)
THEOREM SightsAgree == Spec => []SimAndPackAgree
<1>1. IInv => SimAndPackAgree
  BY HitsAgree, StacksAgree, TrapsAreEnclosed DEF SimAndPackAgree
<1> QED BY <1>1, Invariance, PTL

-----------------------------------------------------------------------------
(* Finite sets of columns, of cells and of scores.                         *)

LEMMA SlabIsFinite == IsFiniteSet(Slab)
<1>1. IsFiniteSet(0..(N - 1))
  BY SlabAssumption, FS_Interval
<1> QED BY <1>1, FS_Product DEF Slab

LEMMA TrapsAreFinite ==
  ASSUME NEW hh, NEW pp
  PROVE  Trap1(hh, pp) \subseteq Inner /\ IsFiniteSet(Trap1(hh, pp))
<1>1. Trap1(hh, pp) \subseteq Inner /\ Trap1(hh, pp) \in SUBSET Slab
  BY DEF Trap1, Inner
<1> QED BY <1>1, SlabIsFinite, FS_Subset

LEMMA StacksAreFinite ==
  ASSUME NEW base, NEW k
  PROVE  IsFiniteSet(Stacked(h, base, k))
<1>1. Stacked(h, base, k) \in SUBSET Slab
  BY DEF Stacked
<1> QED BY <1>1, SlabIsFinite, FS_Subset

(* The cells of any_of that match are counted, up to all of them.          *)
LEMMA MatchesAreCounted ==
  ASSUME NEW P \in Shapes, NEW cells
  PROVE  /\ Cardinality(P.any_of) \in Nat
         /\ Cardinality(P.any_of \cap cells) \in 0..Cardinality(P.any_of)
<1>1. IsFiniteSet(Window(P))
  <2>1. P.size \in Nat
    BY MonteCarloAssumption
  <2>2. IsFiniteSet(0..(P.size - 1))
    BY <2>1, FS_Interval
  <2> QED BY <2>2, FS_Product DEF Window
<1>2. P.any_of \in SUBSET Window(P)
  BY MonteCarloAssumption
<1>3. IsFiniteSet(P.any_of)
  BY <1>1, <1>2, FS_Subset
<1>4. IsFiniteSet(P.any_of \cap cells) /\ Cardinality(P.any_of \cap cells) <= Cardinality(P.any_of)
  BY <1>3, FS_Intersection
<1> QED BY <1>3, <1>4, FS_CardinalityType

(* A set of integers from -1 to n that is not empty has a largest one.     *)
LEMMA MaxIs ==
  ASSUME NEW n \in Nat, NEW S \in SUBSET (-1..n), S # {}
  PROVE  Max(S) \in S /\ \A x \in S : Max(S) >= x
<1> DEFINE Down == {n - x : x \in S}
<1>1. Down \in SUBSET Nat /\ Down # {}
  <2>1. \A x \in S : n - x \in Nat
    OBVIOUS
  <2>2. Down # {}
    <3>1. PICK x \in S : TRUE
      OBVIOUS
    <3> QED BY <3>1
  <2> QED BY <2>1, <2>2
<1>2. PICK m \in Down : \A y \in Down : <<y, m>> \notin OpToRel(<, Nat)
  <2> HIDE DEF Down
  <2> QED BY <1>1, NatLessThanWellFounded, WFMin
<1>3. \A y \in Down : ~(y < m)
  <2> SUFFICES ASSUME NEW y \in Down, y < m
               PROVE  <<y, m>> \in OpToRel(<, Nat)
    BY <1>2
  <2>1. <<y, m>> \in Nat \X Nat /\ <<y, m>>[1] < <<y, m>>[2]
    BY <1>1
  <2> QED BY <2>1 DEF OpToRel
<1>4. PICK x \in S : m = n - x
  BY <1>2
<1>5. \A y \in S : x >= y
  <2> SUFFICES ASSUME NEW y \in S PROVE x >= y
    OBVIOUS
  <2>1. ~(n - y < m)
    BY <1>3
  <2> QED BY <1>4, <2>1
<1> QED BY <1>4, <1>5 DEF Max

-----------------------------------------------------------------------------
(* The score.                                                              *)

LEMMA ScoreIsExact ==
  ASSUME IInv, NEW P \in Shapes, ~P.forbid_rest
  PROVE  BestGated(h, P, Scanned) >= P.min_any <=> PackHits(h, P, Scanned) # {}
<1> DEFINE Cells(x) == PackCells(h, P, x[1], x[2])
           Passed   == {x \in Corners(P) \X Scanned : Gated(P, Cells(x))}
           Score(x) == Cardinality(P.any_of \cap Cells(x))
           Scores   == {-1} \cup {Score(x) : x \in Passed}
           n        == Cardinality(P.any_of)
<1>1. n \in Nat /\ P.min_any \in 0..n /\ \A x \in Passed : Score(x) \in 0..n
  BY MatchesAreCounted, MonteCarloAssumption
<1>2. PackHits(h, P, Scanned) = {x \in Passed : Score(x) >= P.min_any}
  BY DEF PackHits, Makes, Gated, Forbidden
<1>3. BestGated(h, P, Scanned) = Max(Scores)
  BY DEF BestGated
<1> HIDE DEF n, Passed, Score
<1>4. Max(Scores) \in Scores /\ \A x \in Scores : Max(Scores) >= x
  <2>1. Scores \in SUBSET (-1..n) /\ Scores # {}
    BY <1>1
  <2> HIDE DEF Scores
  <2> QED BY <1>1, <2>1, MaxIs
<1>5. ASSUME Max(Scores) >= P.min_any
      PROVE  \E x \in Passed : Score(x) >= P.min_any
  <2>1. Max(Scores) # -1
    BY <1>1, <1>5
  <2> QED BY <1>4, <1>5, <2>1
<1>6. ASSUME NEW x \in Passed, Score(x) >= P.min_any
      PROVE  Max(Scores) >= P.min_any
  <2>1. Score(x) \in Scores /\ Max(Scores) >= Score(x)
    BY <1>4
  <2>2. Max(Scores) \in Int /\ Score(x) \in Int /\ P.min_any \in Int
    BY <1>1, <1>4
  <2> HIDE DEF Scores
  <2> QED BY <1>6, <2>1, <2>2
<1> QED BY <1>2, <1>3, <1>5, <1>6

LEMMA ProfileIsExact ==
  ASSUME IInv, NEW k \in 1..5
  PROVE  Profile(h, BASE, k) > 0 <=> Pillar(p, k)
<1>1. IsFiniteSet(Stacked(h, BASE, k))
  BY StacksAreFinite
<1>2. /\ Profile(h, BASE, k) \in Nat
      /\ Profile(h, BASE, k) = 0 <=> Stacked(h, BASE, k) = {}
  BY <1>1, FS_CardinalityType, FS_EmptySet DEF Profile
<1> QED BY <1>2, StacksAgree DEF ColumnStack

(* The score of a pattern reaches its goal in exactly the worlds in which  *)
(* the detector fires, for any pattern that forbids nothing, and so does   *)
(* that of a pillar (best_match_function, column_stack_profile).           *)
THEOREM ScoreIsTheEvent == Spec => []ScoreReachesTheEvent
<1>1. IInv => ScoreReachesTheEvent
  BY ScoreIsExact, ProfileIsExact DEF ScoreReachesTheEvent
<1> QED BY <1>1, Invariance, PTL

-----------------------------------------------------------------------------
(* Counting traps: a scan has never counted more than have formed, and     *)
(* those that stand and it has not seen are the difference.                *)
Counted ==
  /\ villager \in Slab /\ carrying \in BOOLEAN
  /\ trap_close \in Nat /\ counts \in Nat /\ formed \in Nat
  /\ prev \subseteq Inner
  /\ counts + Cardinality(Trap1(h, p) \ prev) <= formed

LEMMA Difference ==
  ASSUME NEW S, IsFiniteSet(S), NEW T
  PROVE  IsFiniteSet(S \ T) /\ Cardinality(S \ T) \in Nat
BY FS_Difference, FS_CardinalityType

(* What is new since the last scan was new before or is new now.           *)
LEMMA News ==
  ASSUME NEW S, IsFiniteSet(S), NEW T, IsFiniteSet(T), NEW Q
  PROVE  Cardinality(T \ Q) <= Cardinality(S \ Q) + Cardinality(T \ S)
<1> DEFINE A == S \ Q
           B == T \ S
<1>1. /\ IsFiniteSet(A) /\ IsFiniteSet(B)
      /\ Cardinality(A) \in Nat /\ Cardinality(B) \in Nat
  BY Difference
<1>2. T \ Q \in SUBSET (A \cup B)
  OBVIOUS
<1> HIDE DEF A, B
<1>3. /\ IsFiniteSet(A \cup B)
      /\ Cardinality(A \cup B) = Cardinality(A) + Cardinality(B) - Cardinality(A \cap B)
  BY <1>1, FS_Union
<1>4. Cardinality(A \cap B) \in Nat
  BY <1>1, FS_Intersection, FS_CardinalityType
<1>5. Cardinality(T \ Q) <= Cardinality(A \cup B) /\ Cardinality(T \ Q) \in Nat
  BY <1>2, <1>3, FS_Subset, FS_CardinalityType
<1>6. Cardinality(T \ Q) <= Cardinality(A) + Cardinality(B)
  BY <1>1, <1>3, <1>4, <1>5
<1> QED BY <1>6 DEF A, B

(* A block that is put down closes only traps that were not there: before, *)
(* its column was too low to be their wall.                                *)
LEMMA ClosesNewOnly ==
  ASSUME IInv, NEW c \in Slab,
         h' = [h EXCEPT ![c] = @ + 1], p' = [p EXCEPT ![c] = @ + 1]
  PROVE  check_trap(c, h', p') \in Nat /\ check_trap(c, h', p') <= Formed
<1> DEFINE T == Trap1(h, p)
           U == Trap1(h', p')
           Closed == {t \in U : \E s \in Sides : At(t, s) = c}
<1>1. ASSUME NEW t \in Closed
      PROVE  t \in U \ T
  <2>1. PICK s \in Sides : At(t, s) = c
    OBVIOUS
  <2>2. t \in Slab /\ PlacedAt(h', p', c, h'[t])
    BY <2>1 DEF Trap1, Inner
  <2>3. t # c
    <3>1. t[1] \in Int /\ t[2] \in Int
      BY <2>2, SlabAssumption DEF Slab
    <3>2. At(t, s)[1] # t[1] \/ At(t, s)[2] # t[2]
      BY <3>1 DEF At, Sides
    <3> QED BY <2>1, <3>2
  <2>4. h[c] \in Nat /\ h[t] \in Nat /\ h'[c] = h[c] + 1 /\ h'[t] = h[t]
    BY <2>2, <2>3 DEF IInv, Columns
  <2>5. ~PlacedAt(h, p, c, h[t])
    BY <2>2, <2>4 DEF PlacedAt
  <2> QED BY <2>1, <2>5 DEF Trap1
<1>2. IsFiniteSet(T) /\ IsFiniteSet(U)
  BY TrapsAreFinite
<1>3. Closed \in SUBSET (U \ T)
  BY <1>1
<1> HIDE DEF T, U, Closed
<1>4. IsFiniteSet(U \ T)
  BY <1>2, Difference
<1>5. Cardinality(Closed) \in Nat /\ Cardinality(Closed) <= Cardinality(U \ T)
  BY <1>3, <1>4, FS_Subset, FS_CardinalityType
<1> QED BY <1>5 DEF check_trap, Formed, T, U, Closed

LEMMA FormedIs ==
  /\ Formed \in Nat
  /\ Cardinality(Trap1(h', p') \ prev) <= Cardinality(Trap1(h, p) \ prev) + Formed
  /\ Cardinality(Trap1(h', p') \ prev) \in Nat
  /\ Cardinality(Trap1(h, p) \ prev) \in Nat
<1> DEFINE T == Trap1(h, p)
           U == Trap1(h', p')
<1>1. IsFiniteSet(T) /\ IsFiniteSet(U)
  BY TrapsAreFinite
<1> HIDE DEF T, U
<1>2. /\ Cardinality(U \ T) \in Nat /\ Cardinality(U \ prev) \in Nat
      /\ Cardinality(T \ prev) \in Nat
      /\ Cardinality(U \ prev) <= Cardinality(T \ prev) + Cardinality(U \ T)
  BY <1>1, Difference, News
<1> QED BY <1>2 DEF Formed, T, U

LEMMA CountsBegin == Init => Counted
<1> SUFFICES ASSUME Init PROVE Counted
  OBVIOUS
<1>1. prev = Trap1(h, p) /\ prev \subseteq Inner
  BY TrapsAreFinite DEF Init
<1>2. Trap1(h, p) \ prev = {}
  BY <1>1
<1>3. Cardinality(Trap1(h, p) \ prev) = 0
  BY <1>2, FS_EmptySet
<1>4. villager \in Slab /\ trap_close = 0 /\ counts = 0 /\ formed = 0
  BY MonteCarloAssumption DEF Init
<1>5. carrying \in BOOLEAN
  BY DEF Init
<1> QED BY <1>1, <1>3, <1>4, <1>5 DEF Counted

(* Neither walking nor carrying changes what was counted.                  *)
LEMMA CountsKeep ==
  ASSUME IInv, Counted, [Next]_vars
  PROVE  Counted' /\ Formed \in Nat /\ trap_close' - trap_close <= Formed
<1> USE DEF Counted
<1> DEFINE new  == Cardinality(Trap1(h, p) \ prev)
           new1 == Cardinality(Trap1(h', p') \ prev)
<1>1. Formed \in Nat /\ new1 <= new + Formed /\ new1 \in Nat /\ new \in Nat
  BY FormedIs
<1>2. CASE Step \/ relocate \/ advance_villager \/ UNCHANGED vars
  <2>1. /\ UNCHANGED <<h, p, trap_close, prev, counts, formed, carrying>>
        /\ villager' = villager \/ villager' \in Haunts
    BY <1>2 DEF Step, relocate, advance_villager, vars
  <2> QED BY <1>1, <2>1, MonteCarloAssumption
<1>3. CASE try_take
  <2>1. /\ carrying' = TRUE /\ formed' = formed + Formed
        /\ UNCHANGED <<villager, trap_close, prev, counts>>
    BY <1>3 DEF try_take
  <2>2. Cardinality(Trap1(h, p) \ prev)' = new1
    BY <2>1
  <2> HIDE DEF new, new1
  <2>3. counts + new <= formed
    BY DEF new
  <2>4. counts' + new1 <= formed' /\ formed' \in Nat
    BY <1>1, <2>1, <2>3
  <2>5. carrying' \in BOOLEAN
    BY <2>1
  <2> QED BY <1>1, <2>1, <2>2, <2>4, <2>5
<1>4. CASE try_leave
  <2>1. /\ carrying' = FALSE /\ formed' = formed + Formed
        /\ UNCHANGED <<villager, prev, counts>>
    BY <1>4 DEF try_leave
  <2>2. PICK c \in Slab :
          /\ h' = [h EXCEPT ![c] = @ + 1] /\ p' = [p EXCEPT ![c] = @ + 1]
          /\ trap_close' = trap_close + check_trap(c, h', p')
    BY <1>4 DEF try_leave
  <2>3. check_trap(c, h', p') \in Nat /\ check_trap(c, h', p') <= Formed
    BY <2>2, ClosesNewOnly
  <2>4. trap_close' \in Nat /\ trap_close' - trap_close <= Formed
    BY <1>1, <2>2, <2>3
  <2>5. Cardinality(Trap1(h, p) \ prev)' = new1
    BY <2>1
  <2> HIDE DEF new, new1
  <2>6. counts + new <= formed
    BY DEF new
  <2>7. counts' + new1 <= formed' /\ formed' \in Nat
    BY <1>1, <2>1, <2>6
  <2>8. carrying' \in BOOLEAN
    BY <2>1
  <2> QED BY <1>1, <2>1, <2>4, <2>5, <2>7, <2>8
<1>5. CASE Scan
  <2>1. /\ counts' = counts + new /\ prev' = Trap1(h, p)
        /\ UNCHANGED <<h, p, villager, carrying, trap_close, formed>>
    BY <1>5 DEF Scan, NextPrev
  <2>2. Trap1(h', p') \ prev' = {}
    BY <2>1
  <2>3. Cardinality(Trap1(h, p) \ prev)' = 0
    BY <2>2, FS_EmptySet
  <2>4. prev' \subseteq Inner
    BY <2>1, TrapsAreFinite
  <2> QED BY <1>1, <2>1, <2>3, <2>4
<1> QED BY <1>2, <1>3, <1>4, <1>5 DEF Next

LEMMA CountsHold == Spec => []Counted
  BY CountsBegin, CountsKeep, Invariance, PTL DEF Spec

(* Type correctness: the slab and the counters, for any slab and run.      *)
THEOREM TypeCorrect == Spec => []TypeOK
<1>1. IInv /\ Counted => TypeOK
  BY DEF IInv, Columns, GroundIsWhole, Counted, TypeOK
<1> QED BY <1>1, Invariance, CountsHold, PTL

(* However placements and scans alternate, trap_close grows by no more     *)
(* than the traps a placement forms, and the scans of run_one have counted *)
(* no more traps than have formed: none that stays is counted twice.       *)
THEOREM CountsOnce == Spec => TrapsCountedOnce
<1> DEFINE A == trap_close' - trap_close <= Formed /\ counts' <= formed'
<1>1. IInv /\ Counted /\ [Next]_vars => [A]_vars
  <2> SUFFICES ASSUME IInv, Counted, [Next]_vars PROVE A
    OBVIOUS
  <2>1. Counted' /\ trap_close' - trap_close <= Formed
    BY CountsKeep
  <2>2. Cardinality(Trap1(h', p') \ prev') \in Nat
    BY TrapsAreFinite, Difference
  <2>3. /\ counts' \in Nat /\ formed' \in Nat
        /\ counts' + Cardinality(Trap1(h', p') \ prev') <= formed'
    BY <2>1 DEF Counted
  <2>4. counts' <= formed'
    BY <2>2, <2>3
  <2> QED BY <2>1, <2>4
<1> QED BY <1>1, Invariance, CountsHold, PTL DEF Spec, TrapsCountedOnce
=============================================================================
