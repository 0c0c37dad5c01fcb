----------------------------- MODULE NodeRunProofs -----------------------------
(***************************************************************************)
(* Theorems about the nodes of a search on their servers, for any          *)
(* scenario (detectors, thresholds, `requires`, stops, summons, blocks),   *)
(* any checkpoint, and any number of nodes, retries and ticks.             *)
(***************************************************************************)
EXTENDS NodeRun, FiniteSetTheorems, NaturalsInduction, WellFoundedInduction, TLAPS

-----------------------------------------------------------------------------
(* Numbers and recursion.                                                  *)

(* A set of naturals that is not empty has a smallest one.                 *)
LEMMA Smallest ==
  ASSUME NEW S \in SUBSET Nat, S # {}
  PROVE  \E m \in S : \A x \in S : m <= x
<1>1. PICK m \in S : \A y \in S : <<y, m>> \notin OpToRel(<, Nat)
  BY NatLessThanWellFounded, WFMin
<1>2. \A y \in S : ~(y < m)
  <2> SUFFICES ASSUME NEW y \in S, y < m
               PROVE  <<y, m>> \in OpToRel(<, Nat)
    BY <1>1
  <2>1. <<y, m>> \in Nat \X Nat /\ <<y, m>>[1] < <<y, m>>[2]
    OBVIOUS
  <2> QED BY <2>1 DEF OpToRel
<1> QED BY <1>2

(* A set that holds 0, and n if it holds n - 1, holds every number to N.   *)
LEMMA UpTo ==
  ASSUME NEW N \in Nat, NEW S, 0 \in S, \A n \in 1..N : n - 1 \in S => n \in S
  PROVE  \A n \in 0..N : n \in S
<1> DEFINE Bad == {n \in 0..N : n \notin S}
<1>1. CASE Bad # {}
  <2>1. PICK m \in Bad : \A x \in Bad : m <= x
    <3>1. Bad \in SUBSET Nat
      OBVIOUS
    <3> HIDE DEF Bad
    <3> QED BY <1>1, <3>1, Smallest
  <2>2. m \in 1..N /\ m - 1 \in 0..N /\ m - 1 \notin Bad
    BY <2>1
  <2> QED BY <2>1, <2>2
<1> QED BY <1>1

(* The functions that the recursions of the detectors are.                 *)
StepOn(S, N, G) == G \in [S \X (1..N) -> S]
RunOf(f, S, base, N, G) ==
  /\ f \in [0..N -> S]
  /\ f[0] = base /\ \A n \in 1..N : f[n] = G[<<f[n - 1], n>>]

LEMMA Recursion ==
  ASSUME NEW S, NEW base \in S, NEW N \in Nat, NEW G, StepOn(S, N, G)
  PROVE  \E f : RunOf(f, S, base, N, G)
<1> USE DEF StepOn, RunOf
<1> DEFINE Is(f, m) == f[0] = base /\ \A n \in 1..m : f[n] = G[<<f[n - 1], n>>]
           Good == {m \in 0..N : \E f \in [0..m -> S] : Is(f, m)}
<1>1. 0 \in Good
  <2> DEFINE f == [n \in 0..0 |-> base]
  <2>1. f \in [0..0 -> S] /\ Is(f, 0)
    OBVIOUS
  <2> HIDE DEF f
  <2> QED BY <2>1
<1>2. ASSUME NEW m \in 1..N, m - 1 \in Good
      PROVE  m \in Good
  <2>1. PICK f \in [0..(m - 1) -> S] : Is(f, m - 1)
    BY <1>2
  <2> DEFINE x == G[<<f[m - 1], m>>]
             g == [n \in 0..m |-> IF n = m THEN x ELSE f[n]]
  <2>2. x \in S
    <3>1. f[m - 1] \in S
      OBVIOUS
    <3> QED BY <3>1
  <2>3. g \in [0..m -> S]
    <3> HIDE DEF x
    <3> QED BY <2>2
  <2>4. g[0] = base
    BY <2>1
  <2>5. ASSUME NEW n \in 1..m
        PROVE  g[n] = G[<<g[n - 1], n>>]
    <3>1. CASE n = m
      <4>1. g[n - 1] = f[m - 1] /\ g[n] = x
        BY <3>1
      <4> QED BY <3>1, <4>1
    <3>2. CASE n # m
      <4>1. n \in 1..(m - 1) /\ g[n] = f[n] /\ g[n - 1] = f[n - 1]
        BY <3>2
      <4> QED BY <2>1, <4>1
    <3> QED BY <3>1, <3>2
  <2> HIDE DEF g
  <2> QED BY <2>3, <2>4, <2>5
<1>3. N \in Good
  <2> HIDE DEF Good
  <2> QED BY <1>1, <1>2, UpTo
<1> QED BY <1>3

-----------------------------------------------------------------------------
(* Scoreboards.                                                            *)

LEMMA ConstantsAreTyped ==
  /\ Detectors \in Seq(Names) /\ MaxInt \in Nat \ {0} /\ Missing \notin Boards
  /\ Counts \subseteq 0..(MaxInt - 1) /\ Threshold \in [Names -> 0..(MaxInt - 1)]
  /\ Summons \in Nat /\ Blocks \in Nat /\ Nodes \in Nat \ {0} /\ MaxSteps \in Nat
  /\ Segment \in Nat \ {0} /\ DumpAt \subseteq 1..(Segment - 1)
  /\ None \notin Worlds
BY DetectorAssumption, NodeAssumption, NoneAssumption

(* The lines of detmc:check run in the order of the scenario.              *)
LEMMA CheckedIs ==
  ASSUME NEW b \in Boards, NEW count, NEW now \in Int
  PROVE  LET f == Checked(b, count, now)
         IN  /\ f \in [0..Len(Detectors) -> Boards]
             /\ f[0] = b
             /\ \A n \in 1..Len(Detectors) : f[n] = CheckOne(f[n - 1], Detectors[n], count, now)
<1> DEFINE N == Len(Detectors)
           G == [p \in Boards \X (1..N) |-> CheckOne(p[1], Detectors[p[2]], count, now)]
<1>1. N \in Nat
  BY ConstantsAreTyped
<1>2. \A c \in Boards, n \in 1..N : CheckOne(c, Detectors[n], count, now) \in Boards
  <2> SUFFICES ASSUME NEW c \in Boards, NEW n \in 1..N
               PROVE  CheckOne(c, Detectors[n], count, now) \in Boards
    OBVIOUS
  <2>1. Detectors[n] \in Names
    BY ConstantsAreTyped
  <2>2. Hit(c, Detectors[n], now) \in Boards
    BY <2>1 DEF Hit, Boards
  <2> QED BY <2>2 DEF CheckOne
<1>3. G \in [Boards \X (1..N) -> Boards]
  BY <1>2
<1>3a. PICK f : RunOf(f, Boards, b, N, G)
  <2>1. StepOn(Boards, N, G)
    BY <1>3 DEF StepOn
  <2> HIDE DEF N, G
  <2> QED BY <1>1, <2>1, Recursion
<1>4. f \in [0..N -> Boards] /\ f[0] = b /\ \A n \in 1..N : f[n] = G[<<f[n - 1], n>>]
  BY <1>3a DEF RunOf
<1>5. \A n \in 1..N : f[n] = CheckOne(f[n - 1], Detectors[n], count, now)
  <2> SUFFICES ASSUME NEW n \in 1..N
               PROVE  f[n] = CheckOne(f[n - 1], Detectors[n], count, now)
    OBVIOUS
  <2>1. n - 1 \in 0..N
    BY <1>1
  <2>2. f[n - 1] \in Boards /\ n \in 1..N
    BY <1>4, <2>1
  <2>3. G[<<f[n - 1], n>>] = CheckOne(f[n - 1], Detectors[n], count, now)
    BY <2>2
  <2> HIDE DEF G
  <2> QED BY <1>4, <2>3
<1> DEFINE Rec(h) == h = [n \in 0..N |-> IF n = 0 THEN b
                                         ELSE CheckOne(h[n - 1], Detectors[n], count, now)]
<1>6. Rec(f)
  <2> HIDE DEF G
  <2>1. \A n \in 0..N : f[n] = IF n = 0 THEN b
                               ELSE CheckOne(f[n - 1], Detectors[n], count, now)
    BY <1>1, <1>4, <1>5
  <2> QED BY <1>4, <2>1
<1>7. Checked(b, count, now) = CHOOSE h : Rec(h)
  BY DEF Checked
<1> DEFINE g == Checked(b, count, now)
<1>8. Rec(g)
  <2> HIDE DEF Rec
  <2> QED BY <1>6, <1>7
<1>9. g = f
  <2> SUFFICES ASSUME TRUE PROVE \A n \in 0..N : g[n] = f[n]
    <3>1. DOMAIN g = 0..N
      BY <1>8
    <3> HIDE DEF g
    <3> QED BY <1>4, <3>1, <1>8
  <2> DEFINE Same == {n \in 0..N : g[n] = f[n]}
  <2> HIDE DEF g
  <2>1. 0 \in Same
    BY <1>1, <1>4, <1>8
  <2>2. \A n \in 1..N : n - 1 \in Same => n \in Same
    BY <1>1, <1>5, <1>8
  <2>3. \A n \in 0..N : n \in Same
    <3> HIDE DEF Same
    <3> QED BY <1>1, <2>1, <2>2, UpTo
  <2> QED BY <2>3
<1> QED BY <1>4, <1>5, <1>9

-----------------------------------------------------------------------------
(* What should have fired, and when.                                       *)

Sightings == UNION {[S -> Int] : S \in SUBSET Names}

LEMMA SightingsAre ==
  \A s : s \in Sightings <=> /\ s = [d \in DOMAIN s |-> s[d]]
                             /\ DOMAIN s \subseteq Names /\ \A d \in DOMAIN s : s[d] \in Int
<1> SUFFICES ASSUME NEW s
             PROVE  s \in Sightings <=>
                      /\ s = [d \in DOMAIN s |-> s[d]]
                      /\ DOMAIN s \subseteq Names /\ \A d \in DOMAIN s : s[d] \in Int
  OBVIOUS
<1>1. ASSUME s \in Sightings
      PROVE  /\ s = [d \in DOMAIN s |-> s[d]]
             /\ DOMAIN s \subseteq Names /\ \A d \in DOMAIN s : s[d] \in Int
  <2>1. PICK S \in SUBSET Names : s \in [S -> Int]
    BY <1>1 DEF Sightings
  <2> QED BY <2>1
<1>2. ASSUME s = [d \in DOMAIN s |-> s[d]], DOMAIN s \subseteq Names,
             \A d \in DOMAIN s : s[d] \in Int
      PROVE  s \in Sightings
  <2>1. s \in [DOMAIN s -> Int] /\ DOMAIN s \in SUBSET Names
    BY <1>2
  <2> QED BY <2>1 DEF Sightings
<1> QED BY <1>1, <1>2

LEMMA SeeOneDoes ==
  ASSUME NEW s \in Sightings, NEW d \in Names, NEW count, world.time \in Int
  PROVE  LET v == SeeOne(s, d, count)
         IN  /\ v \in Sightings
             /\ DOMAIN s \subseteq DOMAIN v /\ \A e \in DOMAIN s : v[e] = s[e]
             /\ DOMAIN v \subseteq DOMAIN s \cup {d}
             /\ d \in DOMAIN v <=> \/ d \in DOMAIN s
                                   \/ /\ Requires[d] \subseteq DOMAIN s
                                      /\ Fires(d, count[d], meant[d])
             /\ d \in DOMAIN v \ DOMAIN s => v[d] = world.time
<1> DEFINE u == Noted(s, [e \in {d} |-> world.time])
<1>1. u = [e \in DOMAIN s \cup {d} |-> IF e \in DOMAIN s THEN s[e] ELSE world.time]
  <2> DEFINE t == [e \in {d} |-> world.time]
  <2>1. DOMAIN t = {d} /\ t[d] = world.time
    OBVIOUS
  <2> HIDE DEF t
  <2>2. Noted(s, t) = [e \in DOMAIN s \cup {d} |-> IF e \in DOMAIN s THEN s[e] ELSE world.time]
    BY <2>1 DEF Noted
  <2> QED BY <2>2 DEF t
<1> HIDE DEF u
<1>2. /\ DOMAIN u = DOMAIN s \cup {d} /\ \A e \in DOMAIN s : u[e] = s[e]
      /\ d \notin DOMAIN s => u[d] = world.time
  BY <1>1
<1>3. u \in Sightings
  <2>1. DOMAIN s \subseteq Names /\ \A e \in DOMAIN s : s[e] \in Int
    BY SightingsAre
  <2>2. DOMAIN u \subseteq Names /\ \A e \in DOMAIN u : u[e] \in Int
    BY <1>2, <2>1
  <2>3. u = [e \in DOMAIN u |-> u[e]]
    BY <1>1
  <2> QED BY <2>2, <2>3, SightingsAre
<1>4. SeeOne(s, d, count) = IF /\ d \notin DOMAIN s /\ Requires[d] \subseteq DOMAIN s
                               /\ Fires(d, count[d], meant[d])
                            THEN u ELSE s
  BY DEF SeeOne, u
<1> QED BY <1>2, <1>3, <1>4

(* It is looked for in the same order.                                     *)
LEMMA SightIs ==
  ASSUME NEW count, seen \in Sightings, world.time \in Int
  PROVE  LET f == Sight(count)
         IN  /\ f \in [0..Len(Detectors) -> Sightings]
             /\ f[0] = seen
             /\ \A n \in 1..Len(Detectors) : f[n] = SeeOne(f[n - 1], Detectors[n], count)
<1> DEFINE N == Len(Detectors)
           G == [p \in Sightings \X (1..N) |-> SeeOne(p[1], Detectors[p[2]], count)]
<1>1. N \in Nat
  BY ConstantsAreTyped
<1>2. \A s \in Sightings, n \in 1..N : SeeOne(s, Detectors[n], count) \in Sightings
  <2> SUFFICES ASSUME NEW s \in Sightings, NEW n \in 1..N
               PROVE  SeeOne(s, Detectors[n], count) \in Sightings
    OBVIOUS
  <2>1. Detectors[n] \in Names
    BY ConstantsAreTyped
  <2> QED BY <2>1, SeeOneDoes
<1>3. G \in [Sightings \X (1..N) -> Sightings]
  BY <1>2
<1>4. PICK f : RunOf(f, Sightings, seen, N, G)
  <2>1. StepOn(Sightings, N, G)
    BY <1>3 DEF StepOn
  <2> HIDE DEF N, G
  <2> QED BY <1>1, <2>1, Recursion
<1>5. f \in [0..N -> Sightings] /\ f[0] = seen /\ \A n \in 1..N : f[n] = G[<<f[n - 1], n>>]
  BY <1>4 DEF RunOf
<1>6. \A n \in 1..N : f[n] = SeeOne(f[n - 1], Detectors[n], count)
  <2> SUFFICES ASSUME NEW n \in 1..N
               PROVE  f[n] = SeeOne(f[n - 1], Detectors[n], count)
    OBVIOUS
  <2>1. n - 1 \in 0..N
    BY <1>1
  <2>2. f[n - 1] \in Sightings
    BY <1>5, <2>1
  <2>3. G[<<f[n - 1], n>>] = SeeOne(f[n - 1], Detectors[n], count)
    BY <2>2
  <2> HIDE DEF G
  <2> QED BY <1>5, <2>3
<1> DEFINE Rec(h) == h = [n \in 0..N |-> IF n = 0 THEN seen
                                         ELSE SeeOne(h[n - 1], Detectors[n], count)]
<1>7. Rec(f)
  <2> HIDE DEF G
  <2>1. \A n \in 0..N : f[n] = IF n = 0 THEN seen ELSE SeeOne(f[n - 1], Detectors[n], count)
    BY <1>1, <1>5, <1>6
  <2> QED BY <1>5, <2>1
<1>8. Sight(count) = CHOOSE h : Rec(h)
  BY DEF Sight
<1> DEFINE g == Sight(count)
<1>9. Rec(g)
  <2> HIDE DEF Rec
  <2> QED BY <1>7, <1>8
<1>10. g = f
  <2>1. DOMAIN g = 0..N /\ g = [n \in DOMAIN g |-> g[n]]
    BY <1>9
  <2> DEFINE Same == {n \in 0..N : g[n] = f[n]}
  <2> HIDE DEF g
  <2>2. 0 \in Same
    BY <1>1, <1>5, <1>9
  <2>3. \A n \in 1..N : n - 1 \in Same => n \in Same
    BY <1>1, <1>6, <1>9
  <2>4. \A n \in 0..N : n \in Same
    <3> HIDE DEF Same
    <3> QED BY <1>1, <2>2, <2>3, UpTo
  <2> QED BY <1>5, <2>1, <2>4
<1> QED BY <1>5, <1>6, <1>10

-----------------------------------------------------------------------------
(* The pack and the scenario, side by side.                                *)

Agree(b, s, R) ==
  \A d \in R : /\ b.hit[d] = 1 <=> d \in DOMAIN s
               /\ d \in DOMAIN s => b.gt[d] = s[d]

(* Detectors that depend on none outside R, and on no wrong threshold.     *)
Sound(b, R) ==
  /\ R \subseteq Names
  /\ \A d \in R : Requires[d] \subseteq R /\ (Op[d] = "present" \/ b.th[d] = meant[d])

LEMMA OneLine ==
  ASSUME NEW b \in Boards, NEW s \in Sightings, NEW R, Sound(b, R), Agree(b, s, R),
         NEW d \in Names, NEW count, world.time \in Int
  PROVE  LET c == CheckOne(b, d, count, world.time)
         IN  /\ c \in Boards /\ c.armed = b.armed /\ c.th = b.th
             /\ Agree(c, SeeOne(s, d, count), R)
<1> DEFINE c == CheckOne(b, d, count, world.time)
           v == SeeOne(s, d, count)
           h == Hit(b, d, world.time)
           Fire == /\ b.hit[d] = 0
                   /\ \A r \in Requires[d] : b.hit[r] = 1
                   /\ Fires(d, count[d], b.th[d])
<1>1. /\ h \in Boards /\ h.armed = b.armed /\ h.th = b.th
      /\ h.hit = [b.hit EXCEPT ![d] = 1] /\ h.gt = [b.gt EXCEPT ![d] = world.time]
  BY DEF Hit, Boards
<1>2. c = IF Fire THEN h ELSE b
  BY DEF CheckOne
<1>3. b.hit \in [Names -> {0, 1}] /\ b.gt \in [Names -> Int]
  BY DEF Boards
<1>4. /\ DOMAIN s \subseteq DOMAIN v /\ \A e \in DOMAIN s : v[e] = s[e]
      /\ DOMAIN v \subseteq DOMAIN s \cup {d}
      /\ d \in DOMAIN v <=> \/ d \in DOMAIN s
                            \/ Requires[d] \subseteq DOMAIN s /\ Fires(d, count[d], meant[d])
      /\ d \in DOMAIN v \ DOMAIN s => v[d] = world.time
  BY SeeOneDoes
<1> HIDE DEF c, v, h, Fire
<1>5. ASSUME NEW e \in R, e # d
      PROVE  (c.hit[e] = 1 <=> e \in DOMAIN v) /\ (e \in DOMAIN v => c.gt[e] = v[e])
  <2>1. c.hit[e] = b.hit[e] /\ c.gt[e] = b.gt[e]
    <3>1. CASE Fire
      BY <1>1, <1>2, <1>3, <1>5, <3>1 DEF Sound
    <3>2. CASE ~Fire
      BY <1>2, <3>2
    <3> QED BY <3>1, <3>2
  <2>2. (e \in DOMAIN v <=> e \in DOMAIN s) /\ (e \in DOMAIN s => v[e] = s[e])
    BY <1>4, <1>5
  <2> QED BY <2>1, <2>2 DEF Agree
<1>6. ASSUME d \in R
      PROVE  (c.hit[d] = 1 <=> d \in DOMAIN v) /\ (d \in DOMAIN v => c.gt[d] = v[d])
  <2>1. Fires(d, count[d], b.th[d]) = Fires(d, count[d], meant[d])
    BY <1>6 DEF Sound, Fires
  <2>2. (\A r \in Requires[d] : b.hit[r] = 1) <=> Requires[d] \subseteq DOMAIN s
    BY <1>6 DEF Sound, Agree
  <2>3. b.hit[d] \in {0, 1} /\ (b.hit[d] = 1 <=> d \in DOMAIN s)
    BY <1>3, <1>6 DEF Agree
  <2>4. Fire <=> d \in DOMAIN v \ DOMAIN s
    BY <1>4, <2>1, <2>2, <2>3 DEF Fire
  <2>5. CASE Fire
    <3>1. c.hit[d] = 1 /\ c.gt[d] = world.time
      BY <1>1, <1>2, <1>3, <2>5
    <3> QED BY <1>4, <2>4, <2>5, <3>1
  <2>6. CASE ~Fire
    <3>1. c = b /\ (d \in DOMAIN v <=> d \in DOMAIN s)
      BY <1>2, <1>4, <2>4, <2>6
    <3> QED BY <1>4, <1>6, <3>1 DEF Agree
  <2> QED BY <2>5, <2>6
<1>7. Agree(c, v, R)
  BY <1>5, <1>6 DEF Agree
<1>8. c \in Boards /\ c.armed = b.armed /\ c.th = b.th
  BY <1>1, <1>2
<1> QED BY <1>7, <1>8 DEF c, v

(* All lines of detmc:check.                                               *)
LEMMA EveryLine ==
  ASSUME NEW b \in Boards, seen \in Sightings, NEW R, Sound(b, R), Agree(b, seen, R),
         NEW count, world.time \in Int
  PROVE  LET c == Check(b, count, world.time)
             v == SeenWith(count)
         IN  /\ c \in Boards /\ c.armed = b.armed /\ c.th = b.th
             /\ v \in Sightings /\ Agree(c, v, R)
             /\ DOMAIN seen \subseteq DOMAIN v /\ \A d \in DOMAIN seen : v[d] = seen[d]
<1> DEFINE N == Len(Detectors)
           f == Checked(b, count, world.time)
           g == Sight(count)
           Like(x, y) ==
             /\ x.armed = b.armed /\ x.th = b.th /\ Agree(x, y, R)
             /\ DOMAIN seen \subseteq DOMAIN y /\ \A d \in DOMAIN seen : y[d] = seen[d]
           Good == {n \in 0..N : Like(f[n], g[n])}
<1>1. /\ f \in [0..N -> Boards] /\ f[0] = b
      /\ \A n \in 1..N : f[n] = CheckOne(f[n - 1], Detectors[n], count, world.time)
  BY CheckedIs
<1>2. /\ g \in [0..N -> Sightings] /\ g[0] = seen
      /\ \A n \in 1..N : g[n] = SeeOne(g[n - 1], Detectors[n], count)
  BY SightIs
<1>3. N \in Nat /\ \A n \in 1..N : Detectors[n] \in Names
  BY ConstantsAreTyped
<1>4. Check(b, count, world.time) = f[N] /\ SeenWith(count) = g[N]
  BY DEF Check, SeenWith
<1> HIDE DEF f, g
<1>5. 0 \in Good
  BY <1>1, <1>2, <1>3
<1>6. ASSUME NEW n \in 1..N, n - 1 \in Good
      PROVE  n \in Good
  <2> DEFINE x == f[n - 1]
             y == g[n - 1]
  <2>1. x \in Boards /\ y \in Sightings
    BY <1>1, <1>2, <1>3
  <2>2. x.armed = b.armed /\ x.th = b.th /\ Agree(x, y, R)
        /\ DOMAIN seen \subseteq DOMAIN y /\ \A d \in DOMAIN seen : y[d] = seen[d]
    BY <1>6
  <2>3. Sound(x, R)
    BY <2>2 DEF Sound
  <2>4. f[n] = CheckOne(x, Detectors[n], count, world.time)
        /\ g[n] = SeeOne(y, Detectors[n], count)
    BY <1>1, <1>2
  <2> HIDE DEF x, y
  <2>5. f[n].armed = x.armed /\ f[n].th = x.th /\ Agree(f[n], g[n], R)
    BY <1>3, <2>1, <2>2, <2>3, <2>4, OneLine
  <2>6. DOMAIN y \subseteq DOMAIN g[n] /\ \A d \in DOMAIN y : g[n][d] = y[d]
    BY <1>3, <2>1, <2>4, SeeOneDoes
  <2> QED BY <2>2, <2>5, <2>6
<1>7. N \in Good
  <2> HIDE DEF Good, N
  <2> QED BY <1>3, <1>5, <1>6, UpTo
<1>8. f[N] \in Boards /\ g[N] \in Sightings
  BY <1>1, <1>2, <1>3
<1> QED BY <1>4, <1>7, <1>8

-----------------------------------------------------------------------------
(* The inductive invariant.                                                *)

Stages == {"boot", "arena", "players", "summon", "reload", "install", "arm", "frozen",
           "ensure", "restock", "reseed", "ticking", "stopped", "ok", "error"}
NodeIs == [gen : Nat, seed : 0..Nodes, resume : Nat, start : Nat, stop : Nat, final : Nat,
           hits : Sightings]

Shape ==
  /\ world \in Worlds /\ parent \in Worlds \cup {None} /\ own \in Worlds \cup {None}
  /\ at \in Stages /\ boots \in 0..3 /\ steps \in 0..MaxSteps
  /\ node \in NodeIs /\ seen \in Sightings
  /\ meant \in [Names -> 0..MaxInt]
  /\ starts \in SUBSET Worlds /\ faults \in SUBSET Faults

(* Who is where: a server is booted as often as there are boots left, only *)
(* a child resumes, and a node that is through left a checkpoint.          *)
Path ==
  /\ at = "boot" => boots <= 2
  /\ Resumed => at \notin {"arena", "summon", "reload", "install"}
  /\ ~Resumed => at \notin {"frozen", "ensure", "restock", "reseed"}
  /\ at = "ok" => own # None
  /\ at = "error" => faults # {}

(* Setup, stage by stage.                                                  *)
Setting ==
  ~Resumed =>
    /\ world.due = FALSE /\ world.old = FALSE /\ starts = {}
    /\ at \in {"summon", "reload", "install", "arm"} => world.players = TRUE
    /\ at \in {"install", "arm"} => world.board # Missing
    /\ at = "arm" => world.board.th = meant /\ \A d \in Names : world.board.hit[d] = 0

(* A resume, stage by stage: what it makes of the world is decided by the  *)
(* checkpoint, whatever was retried; the stream is its reseed, and since.  *)
Mended(b) == IF b # Missing /\ b.loaded = 1 THEN b ELSE Load(b, FALSE)
MendedBlocks == IF parent.blocks < Blocks THEN Blocks ELSE parent.blocks

Resuming ==
  Resumed =>
    /\ at \in Range(ResumeOrder) => world.due = TRUE /\ world.old = FALSE
    /\ node.resume <= parent.time /\ (node.resume # parent.time => faults # {})
    /\ at = "frozen" => /\ parent.time <= world.time
                        /\ world.time # parent.time => faults # {}
    /\ at \in {"ensure", "restock", "players", "reseed", "arm"} =>
         world.time = parent.time /\ node.resume = parent.time
    /\ at \in {"frozen", "ensure"} => world.board = parent.board
    /\ at \in {"restock", "players", "reseed", "arm"} => world.board = Mended(parent.board)
    /\ at \in {"frozen", "ensure", "restock"} => /\ world.mobs = parent.mobs
                                                 /\ world.blocks = parent.blocks
    /\ at \in {"players", "reseed", "arm"} => /\ world.mobs = parent.mobs + Summons
                                              /\ world.blocks = MendedBlocks
    /\ at \in {"reseed", "arm"} => world.players = TRUE
    /\ at = "arm" => world.key = node.seed /\ world.draws = 0

(* The children of a checkpoint.                                           *)
Alike ==
  \A s \in starts :
    /\ s.time = parent.time /\ s.board = SetArmed(Mended(parent.board))
    /\ s.old = FALSE /\ s.due = TRUE /\ s.players = TRUE
    /\ s.mobs = parent.mobs + Summons /\ s.blocks = MendedBlocks
    /\ s.key = 0 /\ s.draws = 0

(* The detectors that depend on no threshold a resume does not keep.       *)
Relevant == {d \in Names : ~Resumed \/ ~Thresholded(d)}
Before   == Range(Order) \cup {"boot"}

(* A segment: watched from its first tick, and its pack agrees with the    *)
(* scenario as soon as the load tag has run.                               *)
Segments ==
  /\ at \in Before => node.hits = NoneFired
  /\ at \in {"ticking", "stopped"} =>
       /\ world.players = TRUE /\ world.board # Missing /\ world.board.armed = 1
       /\ world.old = FALSE
       /\ node.start <= world.time /\ node.start < node.stop
       /\ world.due = TRUE => world.time = node.start /\ seen = NoneFired
       /\ ~Resumed => world.board.th = meant
       /\ world.due = FALSE => Agree(world.board, seen, Relevant)
  /\ at = "ticking" /\ Resumed /\ world.time = node.start =>
       /\ world.time = parent.time /\ world.time = node.resume
       /\ world.key = node.seed /\ world.draws = 0
  /\ at = "stopped" => node.final <= world.time
  /\ at = "ok" => node.final <= own.time

(* What is reported happened, and at the end all that happened is.         *)
Reported ==
  /\ at \in {"ticking", "stopped", "ok"} /\ "not a tick" \notin faults =>
       \A d \in DOMAIN node.hits \cap Relevant :
         d \in DOMAIN seen /\ node.hits[d] = seen[d]
  /\ at \in {"stopped", "ok"} /\ "not a tick" \notin faults /\ "late tick" \notin faults =>
       DOMAIN seen \cap Relevant \subseteq DOMAIN node.hits

IInv == Shape /\ Path /\ Setting /\ Resuming /\ Alike /\ Segments /\ Reported

-----------------------------------------------------------------------------
(* Stages and worlds.                                                      *)

LEMMA OrdersAre ==
  /\ Range(SetupOrder) = {"arena", "players", "summon", "reload", "install", "arm"}
  /\ Range(ResumeOrder) = {"frozen", "ensure", "restock", "players", "reseed", "arm"}
<1>1. DOMAIN SetupOrder = {1, 2, 3, 4, 5, 6} /\ DOMAIN ResumeOrder = {1, 2, 3, 4, 5, 6}
  BY DEF SetupOrder, ResumeOrder
<1> QED BY <1>1 DEF Range, SetupOrder, ResumeOrder

(* The stage after a stage.                                                *)
LEMMA SetupGoesOn ==
  ASSUME ~Resumed
  PROVE  /\ Past("arena")   => at = "arena"   /\ at' = "players"
         /\ Past("players") => at = "players" /\ at' = "summon"
         /\ Past("summon")  => at = "summon"  /\ at' = "reload"
         /\ Past("reload")  => at = "reload"  /\ at' = "install"
         /\ Past("install") => at = "install" /\ at' = "arm"
         /\ Past("arm")     => at = "arm"     /\ at' = "ticking"
<1>1. Order = SetupOrder /\ DOMAIN SetupOrder = 1..6 /\ Len(SetupOrder) = 6
  BY DEF Order, SetupOrder
<1>2. /\ SetupOrder[1] = "arena" /\ SetupOrder[2] = "players" /\ SetupOrder[3] = "summon"
      /\ SetupOrder[4] = "reload" /\ SetupOrder[5] = "install" /\ SetupOrder[6] = "arm"
  BY DEF SetupOrder
<1>3. ASSUME NEW k \in 1..6, Past(SetupOrder[k])
      PROVE  at = SetupOrder[k] /\ at' = IF k = 6 THEN "ticking" ELSE SetupOrder[k + 1]
  <2> DEFINE i == CHOOSE i \in DOMAIN Order : Order[i] = SetupOrder[k]
  <2>1. \E j \in DOMAIN Order : Order[j] = SetupOrder[k]
    BY <1>1
  <2>2. i \in 1..6 /\ SetupOrder[i] = SetupOrder[k]
    BY <1>1, <2>1
  <2>3. at = SetupOrder[k] /\ at' = IF i = Len(Order) THEN "ticking" ELSE Order[i + 1]
    BY <1>3 DEF Past
  <2> HIDE DEF i
  <2>4. i = k
    <3>1. k \in {1, 2, 3, 4, 5, 6} /\ i \in {1, 2, 3, 4, 5, 6}
      BY <2>2
    <3> QED BY <1>2, <2>2, <3>1
  <2> QED BY <1>1, <2>3, <2>4
<1> QED BY <1>2, <1>3

LEMMA ResumeGoesOn ==
  ASSUME Resumed
  PROVE  /\ Past("frozen")  => at = "frozen"  /\ at' = "ensure"
         /\ Past("ensure")  => at = "ensure"  /\ at' = "restock"
         /\ Past("restock") => at = "restock" /\ at' = "players"
         /\ Past("players") => at = "players" /\ at' = "reseed"
         /\ Past("reseed")  => at = "reseed"  /\ at' = "arm"
         /\ Past("arm")     => at = "arm"     /\ at' = "ticking"
<1>1. Order = ResumeOrder /\ DOMAIN ResumeOrder = 1..6 /\ Len(ResumeOrder) = 6
  BY DEF Order, ResumeOrder
<1>2. /\ ResumeOrder[1] = "frozen" /\ ResumeOrder[2] = "ensure" /\ ResumeOrder[3] = "restock"
      /\ ResumeOrder[4] = "players" /\ ResumeOrder[5] = "reseed" /\ ResumeOrder[6] = "arm"
  BY DEF ResumeOrder
<1>3. ASSUME NEW k \in 1..6, Past(ResumeOrder[k])
      PROVE  at = ResumeOrder[k] /\ at' = IF k = 6 THEN "ticking" ELSE ResumeOrder[k + 1]
  <2> DEFINE i == CHOOSE i \in DOMAIN Order : Order[i] = ResumeOrder[k]
  <2>1. \E j \in DOMAIN Order : Order[j] = ResumeOrder[k]
    BY <1>1
  <2>2. i \in 1..6 /\ ResumeOrder[i] = ResumeOrder[k]
    BY <1>1, <2>1
  <2>3. at = ResumeOrder[k] /\ at' = IF i = Len(Order) THEN "ticking" ELSE Order[i + 1]
    BY <1>3 DEF Past
  <2> HIDE DEF i
  <2>4. i = k
    <3>1. k \in {1, 2, 3, 4, 5, 6} /\ i \in {1, 2, 3, 4, 5, 6}
      BY <2>2
    <3> QED BY <1>2, <2>2, <3>1
  <2> QED BY <1>1, <2>3, <2>4
<1> QED BY <1>2, <1>3

LEMMA Setters ==
  ASSUME NEW w \in Worlds
  PROVE  /\ \A x \in Nat : [w EXCEPT !.time = x] \in Worlds
         /\ \A x \in Boards \cup {Missing} : [w EXCEPT !.board = x] \in Worlds
         /\ \A x \in BOOLEAN : [w EXCEPT !.old = x] \in Worlds
         /\ \A x \in BOOLEAN : [w EXCEPT !.due = x] \in Worlds
         /\ \A x \in BOOLEAN : [w EXCEPT !.players = x] \in Worlds
         /\ \A x \in Nat : [w EXCEPT !.mobs = x] \in Worlds
         /\ \A x \in 0..Blocks : [w EXCEPT !.blocks = x] \in Worlds
         /\ \A x \in 0..Nodes : [w EXCEPT !.key = x] \in Worlds
         /\ \A x \in Nat : [w EXCEPT !.draws = x] \in Worlds
BY DEF Worlds

LEMMA DrawDoes ==
  ASSUME NEW w \in Worlds
  PROVE  LET v == Draw(w)
         IN  /\ v \in Worlds /\ v.draws = w.draws + 1
             /\ v.time = w.time /\ v.board = w.board /\ v.old = w.old /\ v.due = w.due
             /\ v.players = w.players /\ v.mobs = w.mobs /\ v.blocks = w.blocks
             /\ v.key = w.key
BY DEF Draw, Worlds

LEMMA BoardsDo ==
  /\ \A a \in {Unset, 0, 1} :
       /\ Reset(a) \in Boards /\ Reset(a).armed = a /\ Reset(a) # Missing
       /\ Reset(a).hit = [d \in Names |-> 0] /\ Reset(a).th = [d \in Names |-> MaxInt]
       /\ \A t \in [Names -> Int] : LET b == [Reset(a) EXCEPT !.th = t]
                                    IN  /\ b \in Boards /\ b.th = t /\ b.armed = a
                                        /\ b.hit = [d \in Names |-> 0]
  /\ \A b \in Boards \cup {Missing}, old \in BOOLEAN :
       Load(b, old) \in Boards /\ Mended(b) \in Boards
  /\ NewObjective \in Boards
  /\ \A b \in Boards \cup {Missing} : SetArmed(b) \in Boards \cup {Missing}
  /\ \A b \in Boards : /\ SetArmed(b) \in Boards /\ SetArmed(b).armed = 1 /\ b # Missing
                       /\ SetArmed(b).hit = b.hit /\ SetArmed(b).th = b.th
<1> USE ConstantsAreTyped
<1>1. \A a \in {Unset, 0, 1} :
       /\ Reset(a) \in Boards /\ Reset(a).armed = a
       /\ Reset(a).hit = [d \in Names |-> 0] /\ Reset(a).th = [d \in Names |-> MaxInt]
  BY DEF Reset, Boards
<1>2. \A a \in {Unset, 0, 1}, t \in [Names -> Int] :
        LET b == [Reset(a) EXCEPT !.th = t]
        IN  /\ b \in Boards /\ b.th = t /\ b.armed = a /\ b.hit = [d \in Names |-> 0]
  <2> SUFFICES ASSUME NEW a \in {Unset, 0, 1}, NEW t \in [Names -> Int]
               PROVE  LET b == [Reset(a) EXCEPT !.th = t]
                      IN  /\ b \in Boards /\ b.th = t /\ b.armed = a
                          /\ b.hit = [d \in Names |-> 0]
    OBVIOUS
  <2> DEFINE c == Reset(a)
  <2>1. c \in Boards /\ c.armed = a /\ c.hit = [d \in Names |-> 0]
    BY <1>1
  <2> HIDE DEF c
  <2>2. LET b == [c EXCEPT !.th = t]
        IN  b \in Boards /\ b.th = t /\ b.armed = a /\ b.hit = [d \in Names |-> 0]
    BY <2>1 DEF Boards
  <2> QED BY <2>2 DEF c
<1>3. \A b \in Boards : b # Missing /\ b.armed \in {Unset, 0, 1}
  BY DEF Boards
<1>4. \A b \in Boards \cup {Missing}, old \in BOOLEAN : Load(b, old) \in Boards
  BY <1>1, <1>3 DEF Load
<1>5. \A b \in Boards \cup {Missing} : Mended(b) \in Boards
  BY <1>4 DEF Mended
<1>6. NewObjective \in Boards
  <2> DEFINE c == Reset(Unset)
  <2>1. c \in Boards
    BY <1>1
  <2> HIDE DEF c
  <2>2. [c EXCEPT !.loaded = 0] \in Boards
    BY <2>1 DEF Boards
  <2> QED BY <2>2 DEF NewObjective, c
<1>7. \A b \in Boards : /\ SetArmed(b) \in Boards /\ SetArmed(b).armed = 1
                        /\ SetArmed(b).hit = b.hit /\ SetArmed(b).th = b.th
  BY <1>3 DEF SetArmed, Boards
<1>8. SetArmed(Missing) = Missing
  BY DEF SetArmed
<1> QED BY <1>1, <1>2, <1>3, <1>4, <1>5, <1>6, <1>7, <1>8

-----------------------------------------------------------------------------
(* The start, and what steps of one kind have in common.                   *)

LEMMA FreshIs == Fresh \in Worlds
<1>1. Missing \in Boards \cup {Missing} /\ 0 \in 0..Blocks /\ 0 \in 0..Nodes /\ 0 \in Nat
  BY ConstantsAreTyped
<1>2. FALSE \in BOOLEAN
  OBVIOUS
<1> QED BY <1>1, <1>2 DEF Fresh, Worlds

LEMMA NoneFiredIs == NoneFired \in Sightings /\ DOMAIN NoneFired = {}
<1>1. DOMAIN NoneFired = {} /\ NoneFired = [d \in DOMAIN NoneFired |-> NoneFired[d]]
  BY DEF NoneFired
<1> QED BY <1>1, SightingsAre

LEMMA InstalledAre == Installed \subseteq [Names -> 0..MaxInt]
<1> SUFFICES ASSUME NEW count \in [FromBaseline -> Counts]
             PROVE  [d \in Names |-> IF Op[d] = "present" THEN MaxInt
                                     ELSE IF d \in FromBaseline THEN count[d] ELSE Threshold[d]]
                      \in [Names -> 0..MaxInt]
  BY DEF Installed
<1>1. \A d \in Names : (IF Op[d] = "present" THEN MaxInt
                        ELSE IF d \in FromBaseline THEN count[d] ELSE Threshold[d]) \in 0..MaxInt
  <2> SUFFICES ASSUME NEW d \in Names
               PROVE  (IF Op[d] = "present" THEN MaxInt
                       ELSE IF d \in FromBaseline THEN count[d] ELSE Threshold[d]) \in 0..MaxInt
    OBVIOUS
  <2>1. MaxInt \in Nat /\ Counts \subseteq 0..(MaxInt - 1) /\ Threshold[d] \in 0..(MaxInt - 1)
    BY ConstantsAreTyped
  <2>2. d \in FromBaseline => count[d] \in 0..(MaxInt - 1)
    BY <2>1
  <2> QED BY <2>1, <2>2
<1> QED BY <1>1

LEMMA OldCheckpointsAre ==
  ASSUME NEW th \in [Names -> 0..MaxInt]
  PROVE  \A w \in OldCheckpoints(th) : w \in Worlds /\ w.time = 5
<1>1. ASSUME NEW b \in OldBoards(th)
      PROVE  b \in Boards \cup {Missing}
  <2>1. CASE b # Missing
    <3>1. PICK a \in {0, 1}, t \in {th, [d \in Names |-> MaxInt]} :
            b = [Reset(a) EXCEPT !.th = t]
      BY <1>1, <2>1 DEF OldBoards
    <3>2. t \in [Names -> Int]
      BY ConstantsAreTyped
    <3>3. a \in {Unset, 0, 1}
      OBVIOUS
    <3> QED BY <3>1, <3>2, <3>3, BoardsDo
  <2> QED BY <2>1
<1>2. 0 \in 0..Blocks /\ Blocks \in 0..Blocks /\ 0 \in 0..Nodes
  BY ConstantsAreTyped
<1>3. TRUE \in BOOLEAN /\ FALSE \in BOOLEAN
  OBVIOUS
<1> SUFFICES ASSUME NEW w \in OldCheckpoints(th)
             PROVE  w \in Worlds /\ w.time = 5
  OBVIOUS
<1>4. /\ w = [time |-> w.time, board |-> w.board, old |-> w.old, due |-> w.due,
               players |-> w.players, mobs |-> w.mobs, blocks |-> w.blocks, key |-> w.key,
               draws |-> w.draws]
      /\ w.time = 5 /\ w.board \in OldBoards(th) /\ w.old = TRUE /\ w.due = FALSE
      /\ w.players = FALSE /\ w.mobs = 0 /\ w.blocks \in {0, Blocks} /\ w.key = 0
      /\ w.draws = 0
  BY DEF OldCheckpoints
<1>5. /\ w.time \in Nat /\ w.board \in Boards \cup {Missing} /\ w.old \in BOOLEAN
      /\ w.due \in BOOLEAN /\ w.players \in BOOLEAN /\ w.mobs \in Nat
      /\ w.blocks \in 0..Blocks /\ w.key \in 0..Nodes /\ w.draws \in Nat
  <2>1. w.board \in Boards \cup {Missing}
    BY <1>1, <1>4
  <2>2. w.old \in BOOLEAN /\ w.due \in BOOLEAN /\ w.players \in BOOLEAN
    BY <1>4, Zenon
  <2>3. w.time \in Nat /\ w.mobs \in Nat /\ w.draws \in Nat
    BY <1>4
  <2>4. w.blocks \in 0..Blocks /\ w.key \in 0..Nodes
    BY <1>2, <1>4
  <2> QED BY <2>1, <2>2, <2>3, <2>4
<1>6. w \in Worlds
  BY <1>4, <1>5 DEF Worlds
<1> QED BY <1>4, <1>6

LEMMA NewNodeIs ==
  ASSUME NEW gen \in Nat, NEW seed \in 0..Nodes, NEW resume \in Nat
  PROVE  LET n == NewNode(gen, seed, resume)
         IN  n \in NodeIs /\ n.hits = NoneFired /\ n.resume = resume
BY NoneFiredIs DEF NewNode, NodeIs

LEMMA Start == Init => IInv
<1> SUFFICES ASSUME Init PROVE IInv
  OBVIOUS
<1> USE ConstantsAreTyped
<1>1. /\ at = "boot" /\ boots = 0 /\ steps = 0 /\ own = None /\ seen = NoneFired
      /\ starts = {} /\ faults = {} /\ world = Fresh
      /\ world.due = FALSE /\ world.old = FALSE
  BY DEF Init, Fresh
<1>2. meant \in [Names -> 0..MaxInt]
  BY InstalledAre DEF Init
<1>3. /\ parent \in Worlds \cup {None} /\ node \in NodeIs /\ node.hits = NoneFired
      /\ Resumed => node.resume = parent.time
  <2>1. CASE parent = None /\ node = NewNode(0, 0, 0)
    <3>1. 0 \in Nat /\ 0 \in 0..Nodes
      OBVIOUS
    <3> QED BY <2>1, <3>1, NewNodeIs DEF Resumed
  <2>2. CASE parent \in OldCheckpoints(meant) /\ node = NewNode(1, 1, parent.time)
    <3>1. parent \in Worlds /\ parent.time \in Nat /\ 1 \in Nat /\ 1 \in 0..Nodes
      BY <1>2, <2>2, OldCheckpointsAre
    <3> QED BY <2>2, <3>1, NewNodeIs
  <2> QED BY <2>1, <2>2 DEF Init
<1>4. Shape
  BY <1>1, <1>2, <1>3, FreshIs, NoneFiredIs DEF Shape, Stages
<1>5. Path /\ Alike
  BY <1>1 DEF Path, Alike
<1>6. Setting
  BY <1>1 DEF Setting
<1>7. Resuming
  <2>1. Resumed => parent.time \in Nat
    BY <1>3 DEF Resumed, Worlds
  <2> QED BY <1>1, <1>3, <2>1, OrdersAre DEF Resuming
<1>8. Segments /\ Reported
  BY <1>1, <1>3 DEF Segments, Reported
<1> QED BY <1>4, <1>5, <1>6, <1>7, <1>8 DEF IInv

(* Until it is armed a node reports nothing, and its segment is to come.   *)
LEMMA Unarmed ==
  ASSUME Path, Alike, Segments, at \in Before, at' \in Before, at' = "boot" => boots' <= 2,
         UNCHANGED <<node, parent, own, starts>>
  PROVE  Path' /\ Alike' /\ Segments' /\ Reported'
<1>1. Resumed' = Resumed /\ Before' = Before
  BY DEF Resumed, Before, Order, SetupOrder, ResumeOrder
<1>2. Before = IF Resumed
               THEN {"frozen", "ensure", "restock", "players", "reseed", "arm", "boot"}
               ELSE {"arena", "players", "summon", "reload", "install", "arm", "boot"}
  BY OrdersAre DEF Before, Order
<1>3. Path'
  BY <1>1, <1>2 DEF Path
<1>4. Alike'
  BY DEF Alike, MendedBlocks
<1>5. Segments' /\ Reported'
  BY <1>1, <1>2 DEF Segments, Reported
<1> QED BY <1>3, <1>4, <1>5

(* A node that is lost, to something that went wrong.                      *)
LEMMA Lost ==
  ASSUME IInv, at' = "error", faults' \in SUBSET Faults, faults' # {},
         boots' \in 0..3, steps' \in 0..MaxSteps,
         UNCHANGED <<world, node, parent, own, meant, seen, starts>>
  PROVE  IInv'
<1> USE DEF IInv
<1>1. Resumed' = Resumed
  BY DEF Resumed
<1>2. Shape'
  BY DEF Shape, Stages
<1>3. Path'
  BY DEF Path
<1>4. Setting'
  BY <1>1 DEF Setting
<1>5. Resuming'
  BY <1>1, OrdersAre DEF Resuming
<1>6. Alike'
  BY DEF Alike, MendedBlocks
<1>7. Segments' /\ Reported'
  <2>1. at' \notin Before'
    BY OrdersAre DEF Before, Order, SetupOrder, ResumeOrder
  <2> QED BY <2>1 DEF Segments, Reported
<1> QED BY <1>2, <1>3, <1>4, <1>5, <1>6, <1>7

(* A node that goes back to be booted.                                     *)
LEMMA Back ==
  ASSUME IInv, at \in Before, at' = "boot", faults' \in SUBSET Faults,
         boots' \in 0..2, steps' \in 0..MaxSteps, faults # {} => faults' # {},
         UNCHANGED <<world, node, parent, own, meant, seen, starts>>
  PROVE  IInv'
<1> USE DEF IInv
<1>1. Resumed' = Resumed
  BY DEF Resumed
<1>2. Shape'
  BY DEF Shape, Stages
<1>3. at' \in Before /\ boots' <= 2
  BY DEF Before
<1>4. Path' /\ Alike' /\ Segments' /\ Reported'
  BY <1>3, Unarmed
<1>5. Setting'
  BY <1>1 DEF Setting
<1>6. Resuming'
  BY <1>1, OrdersAre DEF Resuming
<1> QED BY <1>2, <1>4, <1>5, <1>6

LEMMA Dropped ==
  ASSUME IInv, at \in Before, Drop, faults' \in SUBSET Faults, faults' # {}
  PROVE  IInv'
<1>1. boots \in 0..3
  BY DEF IInv, Shape
<1>2. /\ boots' \in 0..3 /\ (boots < 3 => boots' \in 0..2)
      /\ steps' \in 0..MaxSteps
      /\ at' = IF boots < 3 THEN "boot" ELSE "error"
      /\ UNCHANGED <<world, node, parent, own, meant, seen, starts>>
  BY <1>1, ConstantsAreTyped DEF Drop, MayRetry
<1>3. CASE boots < 3
  BY <1>2, <1>3, Back
<1>4. CASE ~(boots < 3)
  BY <1>2, <1>4, Lost
<1> QED BY <1>3, <1>4

-----------------------------------------------------------------------------
(* Boots, and what is lost on the way.                                     *)

LEMMA PrepareDirDoes ==
  ASSUME Resumed, Shape
  PROVE  LET v == prepare_dir
         IN  /\ parent \in Worlds
             /\ v \in Worlds /\ v.due = TRUE /\ v.old = FALSE /\ v.time = parent.time
             /\ v.board = parent.board /\ v.mobs = parent.mobs /\ v.blocks = parent.blocks
<1> DEFINE u == [parent EXCEPT !.due = TRUE]
           v == [u EXCEPT !.players = FALSE]
           w == [v EXCEPT !.old = FALSE]
<1>0. TRUE \in BOOLEAN /\ FALSE \in BOOLEAN
  OBVIOUS
<1>1. parent \in Worlds
  BY DEF Resumed, Shape
<1>2. /\ u \in Worlds /\ u.due = TRUE /\ u.time = parent.time /\ u.board = parent.board
      /\ u.mobs = parent.mobs /\ u.blocks = parent.blocks
  BY <1>0, <1>1, Setters DEF Worlds
<1>3. /\ v \in Worlds /\ v.due = TRUE /\ v.time = parent.time /\ v.board = parent.board
      /\ v.mobs = parent.mobs /\ v.blocks = parent.blocks
  <2> HIDE DEF u
  <2>1. v \in Worlds
    BY <1>0, <1>2, Setters
  <2> QED BY <1>2, <2>1 DEF Worlds
<1>4. /\ w \in Worlds /\ w.due = TRUE /\ w.time = parent.time /\ w.board = parent.board
      /\ w.mobs = parent.mobs /\ w.blocks = parent.blocks /\ w.old = FALSE
  <2> HIDE DEF v
  <2>1. w \in Worlds
    BY <1>0, <1>3, Setters
  <2> QED BY <1>3, <2>1 DEF Worlds
<1>5. prepare_dir = w
  BY DEF prepare_dir
<1> QED BY <1>1, <1>4, <1>5

LEMMA BootStep ==
  ASSUME IInv, Boot
  PROVE  IInv'
<1> USE DEF IInv
<1>1. /\ at = "boot" /\ at' = Order[1] /\ boots' = boots + 1
      /\ UNCHANGED <<steps, node, parent, own, meant, seen, starts>>
  BY DEF Boot
<1>2. Resumed' = Resumed /\ boots' \in 0..3
  BY <1>1 DEF Resumed, Path, Shape
<1>3. at' = IF Resumed THEN "frozen" ELSE "arena"
  BY <1>1 DEF Order, SetupOrder, ResumeOrder
<1>4. at \in Before /\ at' \in Before
  BY <1>1, <1>3, OrdersAre DEF Before, Order
<1>5. Path' /\ Alike' /\ Segments' /\ Reported'
  BY <1>1, <1>3, <1>4, Unarmed
<1>6. CASE ~Resumed
  <2>1. world' = Fresh /\ faults' = faults
    BY <1>6 DEF Boot, Booted
  <2>2. Shape'
    BY <1>1, <1>2, <1>3, <2>1, FreshIs DEF Shape, Stages
  <2>3. Setting'
    BY <1>1, <1>2, <1>3, <1>6, <2>1 DEF Setting, Fresh
  <2>4. Resuming'
    BY <1>2, <1>6 DEF Resuming
  <2> QED BY <1>5, <2>2, <2>3, <2>4
<1>7. CASE Resumed
  <2> DEFINE v == prepare_dir
             w == [v EXCEPT !.time = @ + 1]
  <2>1. /\ parent \in Worlds
        /\ v \in Worlds /\ v.due = TRUE /\ v.old = FALSE /\ v.time = parent.time
        /\ v.board = parent.board /\ v.mobs = parent.mobs /\ v.blocks = parent.blocks
    BY <1>7, PrepareDirDoes
  <2>2. \/ world' = v /\ faults' = faults
        \/ world' = w /\ faults' = faults \cup {"fault"}
    BY <1>7 DEF Boot, Booted
  <2> HIDE DEF v
  <2>3. /\ w \in Worlds /\ w.due = TRUE /\ w.old = FALSE /\ w.board = parent.board
        /\ w.time = parent.time + 1 /\ parent.time \in Nat
        /\ w.mobs = parent.mobs /\ w.blocks = parent.blocks
    BY <2>1 DEF Worlds
  <2> HIDE DEF w
  <2>4. Shape'
    BY <1>1, <1>2, <1>3, <2>1, <2>2, <2>3 DEF Shape, Stages, Faults
  <2>5. Setting'
    BY <1>2, <1>7 DEF Setting
  <2>6. Resuming'
    <3>1. /\ world'.due = TRUE /\ world'.old = FALSE /\ world'.board = parent.board
          /\ world'.mobs = parent.mobs /\ world'.blocks = parent.blocks
          /\ parent.time <= world'.time /\ (world'.time # parent.time => faults' # {})
          /\ faults # {} => faults' # {}
      BY <2>1, <2>2, <2>3
    <3> QED BY <1>1, <1>2, <1>3, <1>7, <3>1 DEF Resuming
  <2> QED BY <1>5, <2>4, <2>5, <2>6
<1> QED BY <1>6, <1>7

LEMMA RaiseBootStep ==
  ASSUME IInv, RaiseBoot
  PROVE  IInv'
<1>0. boots \in 0..3 /\ steps \in 0..MaxSteps /\ faults \in SUBSET Faults
  BY DEF IInv, Shape
<1>1. /\ at = "boot" /\ boots \in 0..2 /\ boots' = boots + 1 /\ steps' \in 0..MaxSteps
      /\ at' = IF boots' < 3 THEN "boot" ELSE "error"
      /\ faults' = faults \cup {"fault"}
      /\ UNCHANGED <<world, node, parent, own, meant, seen, starts>>
  BY <1>0 DEF RaiseBoot
<1>5. faults' \in SUBSET Faults /\ faults' # {}
  BY <1>0, <1>1 DEF Faults
<1>2. CASE boots' < 3
  <2>1. at \in Before
    BY <1>1 DEF Before
  <2>2. boots' \in 0..2
    BY <1>1, <1>2
  <2> QED BY <1>1, <1>5, <1>2, <2>1, <2>2, Back
<1>3. CASE ~(boots' < 3)
  <2>1. boots' \in 0..3
    BY <1>1
  <2> QED BY <1>1, <1>5, <1>3, <2>1, Lost
<1> QED BY <1>2, <1>3

(* Whatever raises while the node is prepared.                             *)
LEMMA DropStep ==
  ASSUME IInv, RaisePrepare \/ ReloadNeverCompletes \/ WrongGametime
  PROVE  IInv'
<1>0. Before = IF Resumed
               THEN {"frozen", "ensure", "restock", "players", "reseed", "arm", "boot"}
               ELSE {"arena", "players", "summon", "reload", "install", "arm", "boot"}
  BY OrdersAre DEF Before, Order
<1>1. at \in Before
  BY <1>0 DEF RaisePrepare, Preparing, Before, ReloadNeverCompletes, WrongGametime, IInv, Path
<1>2. Drop
  BY DEF RaisePrepare, ReloadNeverCompletes, WrongGametime
<1>3. faults' \in SUBSET Faults /\ faults' # {}
  <2>1. CASE RaisePrepare \/ ReloadNeverCompletes
    BY <2>1 DEF RaisePrepare, ReloadNeverCompletes, IInv, Shape, Faults
  <2>2. CASE WrongGametime
    <3>1. Resumed
      BY <2>2 DEF WrongGametime, IInv, Path
    <3>2. at = "frozen" /\ world.time # node.resume /\ faults' = faults
      BY <2>2 DEF WrongGametime
    <3> QED BY <3>1, <3>2 DEF IInv, Shape, Resuming
  <2> QED BY <2>1, <2>2
<1> QED BY <1>1, <1>2, <1>3, Dropped

-----------------------------------------------------------------------------
(* Setup.                                                                  *)

LEMMA BeforeIs ==
  Before = IF Resumed
           THEN {"frozen", "ensure", "restock", "players", "reseed", "arm", "boot"}
           ELSE {"arena", "players", "summon", "reload", "install", "arm", "boot"}
BY OrdersAre DEF Before, Order

(* The server has a player, mobs come, and each of them draws.             *)
LEMMA PlayersDo ==
  ASSUME NEW w \in Worlds
  PROVE  LET v == Draw([w EXCEPT !.players = TRUE])
         IN  /\ v \in Worlds /\ v.players = TRUE
             /\ v.time = w.time /\ v.board = w.board /\ v.old = w.old /\ v.due = w.due
             /\ v.mobs = w.mobs /\ v.blocks = w.blocks
<1> DEFINE u == [w EXCEPT !.players = TRUE]
<1>1. u \in Worlds
  <2>1. TRUE \in BOOLEAN
    OBVIOUS
  <2> QED BY <2>1, Setters
<1>2. /\ u.players = TRUE /\ u.time = w.time /\ u.board = w.board /\ u.old = w.old
      /\ u.due = w.due /\ u.mobs = w.mobs /\ u.blocks = w.blocks
  BY DEF Worlds
<1> HIDE DEF u
<1>3. LET v == Draw(u)
      IN  /\ v \in Worlds /\ v.players = TRUE
          /\ v.time = w.time /\ v.board = w.board /\ v.old = w.old /\ v.due = w.due
          /\ v.mobs = w.mobs /\ v.blocks = w.blocks
  BY <1>1, <1>2, DrawDoes
<1> QED BY <1>3 DEF u

LEMMA SummonsDo ==
  ASSUME NEW w \in Worlds
  PROVE  LET v == do_summons(w)
         IN  /\ v \in Worlds /\ v.mobs = w.mobs + Summons
             /\ v.time = w.time /\ v.board = w.board /\ v.old = w.old /\ v.due = w.due
             /\ v.players = w.players /\ v.blocks = w.blocks
<1> DEFINE u == [w EXCEPT !.mobs = @ + Summons]
<1>1. u \in Worlds
  <2>1. w.mobs + Summons \in Nat
    BY ConstantsAreTyped DEF Worlds
  <2> QED BY <2>1, Setters
<1>2. /\ u.mobs = w.mobs + Summons /\ u.time = w.time /\ u.board = w.board /\ u.old = w.old
      /\ u.due = w.due /\ u.players = w.players /\ u.blocks = w.blocks
  BY DEF Worlds
<1> HIDE DEF u
<1>3. do_summons(w) = Draw(u)
  BY DEF do_summons, u
<1> QED BY <1>1, <1>2, <1>3, DrawDoes

LEMMA BuildArenaStep ==
  ASSUME IInv, BuildArena
  PROVE  IInv'
<1> USE DEF IInv
<1>1. /\ ~Resumed /\ at = "arena" /\ at' = "players"
      /\ world' = [world EXCEPT !.blocks = Blocks]
      /\ UNCHANGED <<boots, steps, node, parent, own, meant, seen, starts, faults>>
  BY SetupGoesOn DEF BuildArena, Path, Past
<1>2. ~Resumed'
  BY <1>1 DEF Resumed
<1>3. Path' /\ Alike' /\ Segments' /\ Reported'
  BY <1>1, BeforeIs, Unarmed
<1>4. world' \in Worlds
  <2>1. Blocks \in 0..Blocks /\ world \in Worlds
    BY ConstantsAreTyped DEF Shape
  <2> QED BY <1>1, <2>1, Setters
<1>5. Shape'
  BY <1>1, <1>4 DEF Shape, Stages
<1>6. Setting'
  BY <1>1 DEF Setting, Shape, Worlds
<1>7. Resuming'
  BY <1>2 DEF Resuming
<1> QED BY <1>3, <1>5, <1>6, <1>7

LEMMA PlayersStep ==
  ASSUME IInv, spawn_fake_players
  PROVE  IInv'
<1> USE DEF IInv
<1>1. /\ at = "players" /\ at' = IF Resumed THEN "reseed" ELSE "summon"
      /\ UNCHANGED <<boots, steps, node, parent, own, meant, seen, starts, faults>>
  BY SetupGoesOn, ResumeGoesOn DEF spawn_fake_players
<1>2. /\ world' \in Worlds /\ world'.players = TRUE
      /\ world'.time = world.time /\ world'.board = world.board /\ world'.old = world.old
      /\ world'.due = world.due /\ world'.mobs = world.mobs /\ world'.blocks = world.blocks
  BY PlayersDo DEF spawn_fake_players, Shape
<1>3. Resumed' = Resumed
  BY <1>1 DEF Resumed
<1>4. Path' /\ Alike' /\ Segments' /\ Reported'
  BY <1>1, BeforeIs, Unarmed
<1>5. Shape'
  BY <1>1, <1>2 DEF Shape, Stages
<1>6. Setting'
  BY <1>1, <1>2, <1>3 DEF Setting
<1>7. Resuming'
  BY <1>1, <1>2, <1>3, OrdersAre DEF Resuming, MendedBlocks, ResumeOrder
<1> QED BY <1>4, <1>5, <1>6, <1>7

LEMMA SummonStep ==
  ASSUME IInv, Summon
  PROVE  IInv'
<1> USE DEF IInv
<1>1. /\ ~Resumed /\ at = "summon" /\ at' = "reload"
      /\ UNCHANGED <<boots, steps, node, parent, own, meant, seen, starts, faults>>
  BY SetupGoesOn DEF Summon, Path, Past
<1>2. /\ world' \in Worlds /\ world'.players = world.players
      /\ world'.old = world.old /\ world'.due = world.due
  BY SummonsDo DEF Summon, Shape
<1>3. ~Resumed'
  BY <1>1 DEF Resumed
<1>4. Path' /\ Alike' /\ Segments' /\ Reported'
  BY <1>1, BeforeIs, Unarmed
<1>5. Shape'
  BY <1>1, <1>2 DEF Shape, Stages
<1>6. Setting'
  BY <1>1, <1>2 DEF Setting
<1>7. Resuming'
  BY <1>3 DEF Resuming
<1> QED BY <1>4, <1>5, <1>6, <1>7

(* A step of the frozen server, in which the reload completes or not.      *)
LEMMA ReloadStep ==
  ASSUME IInv, step_until_loaded
  PROVE  IInv'
<1> USE DEF IInv
<1>1. /\ ~Resumed /\ at = "reload" /\ at' = at /\ steps < MaxSteps /\ steps' = steps + 1
      /\ UNCHANGED <<boots, node, parent, own, meant, seen, starts, faults>>
  BY DEF step_until_loaded, Path
<1>2. /\ world' \in Worlds /\ world'.players = world.players
      /\ world'.old = world.old /\ world'.due = world.due
  <2> DEFINE b == IF steps = 0 THEN NewObjective ELSE world.board
  <2>1. b \in Boards \cup {Missing} /\ world \in Worlds /\ world.time + 1 \in Nat
    BY BoardsDo DEF Shape, Worlds
  <2>2. PICK done \in BOOLEAN :
          world' = Draw([world EXCEPT !.time = @ + 1,
                                      !.board = IF done THEN Load(b, FALSE) ELSE b])
    BY DEF step_until_loaded
  <2> HIDE DEF b
  <2> DEFINE c == IF done THEN Load(b, FALSE) ELSE b
             u == [world EXCEPT !.time = @ + 1]
             v == [u EXCEPT !.board = c]
  <2>3. c \in Boards \cup {Missing}
    BY <2>1, BoardsDo
  <2>4. /\ u \in Worlds /\ u.players = world.players
        /\ u.old = world.old /\ u.due = world.due
    BY <2>1 DEF Worlds
  <2> HIDE DEF c, u
  <2>5. v \in Worlds
    BY <2>3, <2>4, Setters
  <2>6. v.players = world.players /\ v.old = world.old /\ v.due = world.due
    BY <2>4 DEF Worlds
  <2>7. world' = Draw(v)
    BY <2>2 DEF u, c
  <2> HIDE DEF v
  <2> QED BY <2>5, <2>6, <2>7, DrawDoes
<1>3. ~Resumed'
  BY <1>1 DEF Resumed
<1>4. Path' /\ Alike' /\ Segments' /\ Reported'
  BY <1>1, BeforeIs, Unarmed
<1>5. Shape'
  <2>1. steps' \in 0..MaxSteps
    BY <1>1, ConstantsAreTyped DEF Shape
  <2> QED BY <1>1, <1>2, <2>1 DEF Shape
<1>6. Setting'
  BY <1>1, <1>2 DEF Setting
<1>7. Resuming'
  BY <1>3 DEF Resuming
<1> QED BY <1>4, <1>5, <1>6, <1>7

LEMMA ReloadedStep ==
  ASSUME IInv, Reloaded
  PROVE  IInv'
<1> USE DEF IInv
<1>1. /\ ~Resumed /\ at = "reload" /\ at' = "install" /\ world.board # Missing
      /\ UNCHANGED <<world, boots, steps, node, parent, own, meant, seen, starts, faults>>
  BY SetupGoesOn DEF Reloaded, Loaded, Path, Past
<1>2. ~Resumed'
  BY <1>1 DEF Resumed
<1>3. Path' /\ Alike' /\ Segments' /\ Reported'
  BY <1>1, BeforeIs, Unarmed
<1>4. Shape'
  BY <1>1 DEF Shape, Stages
<1>5. Setting'
  BY <1>1 DEF Setting
<1>6. Resuming'
  BY <1>2 DEF Resuming
<1> QED BY <1>3, <1>4, <1>5, <1>6

(* The thresholds are written, and nothing has fired.                      *)
LEMMA InstallStep ==
  ASSUME IInv, install_detector
  PROVE  IInv'
<1> USE DEF IInv
<1>1. /\ ~Resumed /\ at = "install" /\ at' = "arm"
      /\ world' = [world EXCEPT !.board = [Reset(world.board.armed) EXCEPT !.th = meant']]
      /\ UNCHANGED <<boots, steps, node, parent, own, seen, starts, faults>>
  BY SetupGoesOn DEF install_detector, Path, Past
<1>2. meant' \in [Names -> 0..MaxInt]
  BY InstalledAre DEF install_detector
<1> DEFINE b == [Reset(world.board.armed) EXCEPT !.th = meant']
<1>3. b \in Boards /\ b.th = meant' /\ b.hit = [d \in Names |-> 0] /\ b # Missing
  <2>1. world.board \in Boards
    BY <1>1 DEF Setting, Shape, Worlds
  <2>2. world.board.armed \in {Unset, 0, 1}
    BY <2>1 DEF Boards
  <2>3. meant' \in [Names -> Int]
    BY <1>2, ConstantsAreTyped
  <2>4. b \in Boards /\ b.th = meant' /\ b.hit = [d \in Names |-> 0]
    BY <2>2, <2>3, BoardsDo
  <2> QED BY <2>4, ConstantsAreTyped
<1> HIDE DEF b
<1>4. world' = [world EXCEPT !.board = b]
  BY <1>1 DEF b
<1>5. /\ world' \in Worlds /\ world'.board = b /\ world'.players = world.players
      /\ world'.old = world.old /\ world'.due = world.due
  BY <1>3, <1>4 DEF Shape, Worlds
<1>6. ~Resumed'
  BY <1>1 DEF Resumed
<1>7. Path' /\ Alike' /\ Segments' /\ Reported'
  BY <1>1, BeforeIs, Unarmed
<1>8. Shape'
  BY <1>1, <1>2, <1>5 DEF Shape, Stages
<1>9. Setting'
  BY <1>1, <1>3, <1>5 DEF Setting
<1>10. Resuming'
  BY <1>6 DEF Resuming
<1> QED BY <1>7, <1>8, <1>9, <1>10

-----------------------------------------------------------------------------
(* Resume.                                                                 *)

LEMMA GametimeStep ==
  ASSUME IInv, CheckGametime
  PROVE  IInv'
<1> USE DEF IInv
<1>1. /\ Resumed /\ at = "frozen" /\ at' = "ensure" /\ world.time = node.resume
      /\ UNCHANGED <<world, boots, steps, node, parent, own, meant, seen, starts, faults>>
  BY ResumeGoesOn DEF CheckGametime, Path, Past
<1>2. Resumed'
  BY <1>1 DEF Resumed
<1>3. Path' /\ Alike' /\ Segments' /\ Reported'
  BY <1>1, BeforeIs, Unarmed
<1>4. Shape'
  BY <1>1 DEF Shape, Stages
<1>5. Setting'
  BY <1>2 DEF Setting
<1>6. Resuming'
  <2>1. node.resume <= parent.time /\ parent.time <= world.time
    BY <1>1 DEF Resuming
  <2>2. parent.time \in Nat /\ node.resume \in Nat
    BY <1>1 DEF Shape, Resumed, Worlds, NodeIs
  <2>3. world.time = parent.time /\ node.resume = parent.time
    BY <1>1, <2>1, <2>2
  <2> QED BY <1>1, <1>2, <2>3, OrdersAre DEF Resuming
<1> QED BY <1>3, <1>4, <1>5, <1>6

LEMMA EnsureStep ==
  ASSUME IInv, ensure_detmc_loaded
  PROVE  IInv'
<1> USE DEF IInv
<1>1. /\ Resumed /\ at = "ensure" /\ at' = "restock"
      /\ world' = [world EXCEPT !.board = Repaired(@)]
      /\ UNCHANGED <<boots, steps, node, parent, own, meant, seen, starts, faults>>
  BY ResumeGoesOn DEF ensure_detmc_loaded, Path, Past
<1>2. world.board = parent.board /\ world \in Worlds
  BY <1>1 DEF Resuming, Shape
<1>3. Repaired(world.board) = Mended(parent.board)
  BY <1>2 DEF Repaired, Loaded, Mended
<1>4. /\ world' \in Worlds /\ world'.board = Mended(parent.board)
      /\ world'.time = world.time /\ world'.old = world.old /\ world'.due = world.due
      /\ world'.mobs = world.mobs /\ world'.blocks = world.blocks
  <2>1. Mended(parent.board) \in Boards \cup {Missing}
    BY <1>2, BoardsDo DEF Worlds
  <2> QED BY <1>1, <1>2, <1>3, <2>1 DEF Worlds
<1>5. Resumed'
  BY <1>1 DEF Resumed
<1>6. Path' /\ Alike' /\ Segments' /\ Reported'
  BY <1>1, BeforeIs, Unarmed
<1>7. Shape'
  BY <1>1, <1>4 DEF Shape, Stages
<1>8. Setting'
  BY <1>5 DEF Setting
<1>9. Resuming'
  BY <1>1, <1>4, OrdersAre DEF Resuming, ResumeOrder, Mended, Load, Reset
<1> QED BY <1>6, <1>7, <1>8, <1>9

LEMMA RestockStep ==
  ASSUME IInv, Restock
  PROVE  IInv'
<1> USE DEF IInv
<1>1. /\ Resumed /\ at = "restock" /\ at' = "players"
      /\ world' = [do_summons(world) EXCEPT !.blocks = IF @ < Blocks THEN Blocks ELSE @]
      /\ UNCHANGED <<boots, steps, node, parent, own, meant, seen, starts, faults>>
  BY ResumeGoesOn DEF Restock, Path, Past
<1> DEFINE u == do_summons(world)
<1>2. /\ u \in Worlds /\ u.mobs = world.mobs + Summons
      /\ u.time = world.time /\ u.board = world.board /\ u.old = world.old
      /\ u.due = world.due /\ u.blocks = world.blocks
  BY SummonsDo DEF Shape
<1>3. world.blocks = parent.blocks /\ world.mobs = parent.mobs
  BY <1>1 DEF Resuming
<1> HIDE DEF u
<1>4. /\ world' \in Worlds /\ world'.mobs = parent.mobs + Summons
      /\ world'.blocks = MendedBlocks
      /\ world'.time = world.time /\ world'.board = world.board /\ world'.old = world.old
      /\ world'.due = world.due
  <2>1. world' = [u EXCEPT !.blocks = MendedBlocks]
    BY <1>1, <1>2, <1>3 DEF u, MendedBlocks, Worlds
  <2>2. MendedBlocks \in 0..Blocks
    BY <1>2, <1>3, ConstantsAreTyped DEF MendedBlocks, Worlds
  <2> QED BY <1>2, <1>3, <2>1, <2>2 DEF Worlds
<1>5. Resumed' /\ MendedBlocks' = MendedBlocks
  BY <1>1 DEF Resumed, MendedBlocks
<1>6. Path' /\ Alike' /\ Segments' /\ Reported'
  BY <1>1, BeforeIs, Unarmed
<1>7. Shape'
  BY <1>1, <1>4 DEF Shape, Stages
<1>8. Setting'
  BY <1>5 DEF Setting
<1>9. Resuming'
  BY <1>1, <1>4, <1>5, OrdersAre DEF Resuming, ResumeOrder, Mended, Load, Reset
<1> QED BY <1>6, <1>7, <1>8, <1>9

LEMMA ReseedStep ==
  ASSUME IInv, Reseed
  PROVE  IInv'
<1> USE DEF IInv
<1>1. /\ Resumed /\ at = "reseed" /\ at' = "arm"
      /\ world' = [world EXCEPT !.key = node.seed, !.draws = 0]
      /\ UNCHANGED <<boots, steps, node, parent, own, meant, seen, starts, faults>>
  BY ResumeGoesOn DEF Reseed, Path, Past
<1>2. /\ world' \in Worlds /\ world'.key = node.seed /\ world'.draws = 0
      /\ world'.time = world.time /\ world'.board = world.board /\ world'.old = world.old
      /\ world'.due = world.due /\ world'.mobs = world.mobs /\ world'.blocks = world.blocks
      /\ world'.players = world.players
  <2>1. node.seed \in 0..Nodes /\ world \in Worlds /\ 0 \in Nat
    BY DEF Shape, NodeIs
  <2> DEFINE u == [world EXCEPT !.key = node.seed]
  <2>2. u \in Worlds
    BY <2>1, Setters
  <2>3. /\ u.key = node.seed /\ u.players = world.players
        /\ u.time = world.time /\ u.board = world.board /\ u.old = world.old
        /\ u.due = world.due /\ u.mobs = world.mobs /\ u.blocks = world.blocks
    BY <2>1 DEF Worlds
  <2>4. world' = [u EXCEPT !.draws = 0]
    BY <1>1
  <2> HIDE DEF u
  <2>5. world' \in Worlds
    BY <2>1, <2>2, <2>4, Setters
  <2> QED BY <2>2, <2>3, <2>4, <2>5 DEF Worlds
<1>3. Resumed'
  BY <1>1 DEF Resumed
<1>4. Path' /\ Alike' /\ Segments' /\ Reported'
  BY <1>1, BeforeIs, Unarmed
<1>5. Shape'
  BY <1>1, <1>2 DEF Shape, Stages
<1>6. Setting'
  BY <1>3 DEF Setting
<1>7. Resuming'
  BY <1>1, <1>2, OrdersAre DEF Resuming, ResumeOrder, Mended, MendedBlocks, Load, Reset
<1> QED BY <1>4, <1>5, <1>6, <1>7

-----------------------------------------------------------------------------
(* The segment.                                                            *)

LEMMA LeastIs ==
  ASSUME NEW S \in SUBSET Nat, S # {}
  PROVE  Least(S) \in S
BY Smallest DEF Least

LEMMA ArmStep ==
  ASSUME IInv, Arm
  PROVE  IInv'
<1> USE DEF IInv
<1> DEFINE now == [world EXCEPT !.board = SetArmed(@)]
<1>1. /\ at = "arm" /\ at' = "ticking" /\ world' = now
      /\ starts' = IF Resumed THEN starts \cup {[now EXCEPT !.key = 0]} ELSE starts
      /\ node' = [node EXCEPT !.start = world.time,
                              !.stop = world.time + Least(DumpAt \cup {Segment})]
      /\ seen' = NoneFired /\ boots' = 0 /\ steps' = 0
      /\ UNCHANGED <<parent, own, meant, faults>>
  BY SetupGoesOn, ResumeGoesOn DEF Arm
<1>2. world \in Worlds /\ world.board \in Boards /\ node.hits = NoneFired
  <2>1. CASE Resumed
    <3>1. world.board = Mended(parent.board)
      BY <1>1, <2>1 DEF Resuming
    <3>2. parent \in Worlds
      BY <2>1 DEF Resumed, Shape
    <3> QED BY <1>1, <2>1, <3>1, <3>2, BoardsDo, BeforeIs DEF Shape, Worlds, Segments
  <2>2. CASE ~Resumed
    BY <1>1, <2>2, BeforeIs DEF Shape, Worlds, Segments, Setting
  <2> QED BY <2>1, <2>2
<1>3. /\ now \in Worlds /\ now.board = SetArmed(world.board) /\ now.board \in Boards
      /\ now.time = world.time /\ now.old = world.old /\ now.due = world.due
      /\ now.players = world.players /\ now.mobs = world.mobs /\ now.blocks = world.blocks
      /\ now.key = world.key /\ now.draws = world.draws
  BY <1>2, BoardsDo DEF Worlds
<1> HIDE DEF now
<1>4. /\ now.board.armed = 1 /\ now.board # Missing
      /\ now.board.hit = world.board.hit /\ now.board.th = world.board.th
  BY <1>2, <1>3, BoardsDo
<1>5. Resumed' = Resumed /\ Before' = Before /\ Relevant' = Relevant
      /\ MendedBlocks' = MendedBlocks
  BY <1>1 DEF Resumed, Before, Order, SetupOrder, ResumeOrder, Relevant, MendedBlocks
<1>6. /\ node' \in NodeIs /\ node'.seed = node.seed /\ node'.hits = NoneFired
      /\ node'.resume = node.resume
      /\ node'.start = world.time /\ node'.stop > world.time /\ world.time \in Nat
  <2> DEFINE k == Least(DumpAt \cup {Segment})
  <2>1. DumpAt \cup {Segment} \in SUBSET (Nat \ {0})
    BY ConstantsAreTyped
  <2>2. k \in Nat \ {0}
    BY <2>1, LeastIs
  <2> HIDE DEF k
  <2>3. world.time \in Nat /\ node \in NodeIs
    BY DEF Shape, Worlds
  <2> DEFINE u == [node EXCEPT !.start = world.time]
  <2>4. u \in NodeIs /\ u.start = world.time /\ u.seed = node.seed /\ u.hits = node.hits
        /\ u.resume = node.resume
    BY <2>3 DEF NodeIs
  <2>5. node' = [u EXCEPT !.stop = world.time + k]
    BY <1>1 DEF k
  <2> HIDE DEF u
  <2>6. world.time + k \in Nat /\ world.time + k > world.time
    BY <2>2, <2>3
  <2>7. /\ node' \in NodeIs /\ node'.start = world.time /\ node'.seed = node.seed
        /\ node'.hits = node.hits /\ node'.stop = world.time + k /\ node'.resume = node.resume
    BY <2>4, <2>5, <2>6 DEF NodeIs
  <2> QED BY <1>2, <2>3, <2>6, <2>7
<1> DEFINE born == [now EXCEPT !.key = 0]
<1>7. /\ born \in Worlds /\ born.board = now.board
      /\ born.time = now.time /\ born.old = now.old /\ born.due = now.due
      /\ born.players = now.players /\ born.mobs = now.mobs /\ born.blocks = now.blocks
      /\ born.key = 0 /\ born.draws = now.draws
  <2>1. 0 \in 0..Nodes
    BY ConstantsAreTyped
  <2> QED BY <1>3, <2>1, Setters DEF Worlds
<1>8. starts' = IF Resumed THEN starts \cup {born} ELSE starts
  BY <1>1
<1> HIDE DEF born
<1>9. Shape'
  <2>1. boots' \in 0..3 /\ steps' \in 0..MaxSteps
    BY <1>1, ConstantsAreTyped
  <2>2. starts' \in SUBSET Worlds
    BY <1>7, <1>8 DEF Shape
  <2> QED BY <1>1, <1>3, <1>6, <2>1, <2>2, NoneFiredIs DEF Shape, Stages
<1>10. Path'
  BY <1>1, <1>5 DEF Path
<1>11. Setting'
  BY <1>1, <1>3, <1>5 DEF Setting
<1>12. Resuming'
  BY <1>1, <1>5, <1>6, OrdersAre DEF Resuming
<1>13. Alike'
  <2>1. CASE ~Resumed
    BY <1>1, <2>1 DEF Alike, Setting
  <2>2. CASE Resumed
    <3>1. /\ born.time = parent.time /\ born.board = SetArmed(Mended(parent.board))
          /\ born.old = FALSE /\ born.due = TRUE /\ born.players = TRUE
          /\ born.mobs = parent.mobs + Summons /\ born.blocks = MendedBlocks
          /\ born.key = 0 /\ born.draws = 0
      BY <1>1, <1>3, <1>7, <2>2, OrdersAre DEF Resuming
    <3>2. \A s \in starts' : s = born \/ s \in starts
      BY <1>8, <2>2
    <3> QED BY <1>1, <1>5, <3>1, <3>2 DEF Alike, Mended, Load, Reset, SetArmed
  <2> QED BY <2>1, <2>2
<1>14. Segments'
  <2>1. at' \notin Before'
    BY <1>1, <1>5, BeforeIs
  <2>2. world'.due = TRUE => world'.time = node'.start /\ seen' = NoneFired
    BY <1>1, <1>3, <1>6
  <2>3. world'.players = TRUE /\ world'.old = FALSE
    <3>1. CASE Resumed
      BY <1>1, <1>3, <3>1, OrdersAre DEF Resuming
    <3>2. CASE ~Resumed
      BY <1>1, <1>3, <3>2 DEF Setting
    <3> QED BY <3>1, <3>2
  <2>4. ~Resumed => world'.board.th = meant' /\ Agree(world'.board, seen', Relevant')
    <3> SUFFICES ASSUME ~Resumed
                 PROVE  world'.board.th = meant' /\ Agree(world'.board, seen', Relevant')
      OBVIOUS
    <3>1. world.board.th = meant /\ \A d \in Names : world.board.hit[d] = 0
      BY <1>1 DEF Setting
    <3>2. Relevant' \subseteq Names
      BY DEF Relevant
    <3>3. world'.board.th = meant' /\ \A d \in Names : world'.board.hit[d] = 0
      BY <1>1, <1>4, <3>1
    <3> QED BY <1>1, <3>2, <3>3, NoneFiredIs DEF Agree
  <2>5. Resumed => world'.due = TRUE /\ world'.time = parent'.time
                   /\ world'.time = node'.resume /\ world'.key = node'.seed /\ world'.draws = 0
    BY <1>1, <1>3, <1>6, OrdersAre DEF Resuming
  <2>6. /\ world'.board # Missing /\ world'.board.armed = 1
        /\ node'.start <= world'.time /\ node'.start < node'.stop
    BY <1>1, <1>3, <1>4, <1>6
  <2> QED BY <1>1, <1>5, <2>1, <2>2, <2>3, <2>4, <2>5, <2>6 DEF Segments
<1>15. Reported'
  BY <1>1, <1>6, NoneFiredIs DEF Reported
<1> QED BY <1>9, <1>10, <1>11, <1>12, <1>13, <1>14, <1>15

(* What depends on no threshold requires nothing that does.                *)
LEMMA Independent ==
  ASSUME NEW d \in Names, ~Thresholded(d)
  PROVE  Op[d] = "present" /\ \A r \in Requires[d] : r \in Names /\ ~Thresholded(r)
<1>1. PICK S \in SUBSET Names : Dependent(S) /\ d \notin S
  BY DEF Thresholded
<1>2. Op[d] = "present" /\ Requires[d] \cap S = {}
  BY <1>1 DEF Dependent
<1>3. \A r \in Requires[d] : r \in Names /\ ~Thresholded(r)
  BY <1>1, <1>2, NodeAssumption DEF Thresholded
<1> QED BY <1>2, <1>3

LEMMA RelevantIsSound ==
  ASSUME NEW b, ~Resumed => b.th = meant
  PROVE  Sound(b, Relevant)
<1> SUFFICES ASSUME NEW d \in Relevant
             PROVE  Requires[d] \subseteq Relevant /\ (Op[d] = "present" \/ b.th[d] = meant[d])
  BY DEF Sound, Relevant
<1>1. d \in Names
  BY DEF Relevant
<1>2. CASE ~Resumed
  BY <1>1, <1>2, NodeAssumption DEF Relevant
<1>3. CASE Resumed
  BY <1>1, <1>3, Independent DEF Relevant
<1> QED BY <1>2, <1>3

(* The pack in a tick of a segment: the load tag, if it is due, forgets    *)
(* what the parent saw, and the check then agrees with the scenario.       *)
LEMMA PackTickDoes ==
  ASSUME IInv, at \in {"ticking", "stopped"}, NEW count
  PROVE  LET b == PackTick(world.board, world.due, world.old, count, world.time)
             v == SeenWith(count)
         IN  /\ b \in Boards /\ b.armed = 1 /\ (~Resumed => b.th = meant)
             /\ v \in Sightings /\ Agree(b, v, Relevant)
             /\ DOMAIN seen \subseteq DOMAIN v /\ \A d \in DOMAIN seen : v[d] = seen[d]
<1> DEFINE c == IF world.due THEN Load(world.board, world.old) ELSE world.board
<1>1. /\ world \in Worlds /\ world.board \in Boards /\ world.board.armed = 1
      /\ world.board # Missing /\ world.old = FALSE /\ seen \in Sightings
      /\ world.due \in BOOLEAN /\ world.time \in Int
  BY DEF IInv, Shape, Worlds, Segments
<1>2. /\ c \in Boards /\ c.armed = 1 /\ c # Missing /\ (~Resumed => c.th = meant)
      /\ Agree(c, seen, Relevant)
  <2>1. CASE world.due = TRUE
    <3>1. seen = NoneFired /\ Resumed
      BY <2>1 DEF IInv, Segments, Setting
    <3>2. c = Reset(1)
      BY <1>1, <2>1 DEF Load, Unset
    <3> HIDE DEF c
    <3>3. Agree(c, seen, Relevant)
      BY <3>1, <3>2, BoardsDo, NoneFiredIs DEF Agree, Relevant
    <3> QED BY <3>1, <3>2, <3>3, BoardsDo
  <2>2. CASE world.due = FALSE
    BY <1>1, <2>2 DEF IInv, Segments
  <2> QED BY <1>1, <2>1, <2>2
<1>3. PackTick(world.board, world.due, world.old, count, world.time)
        = Check(c, count, world.time)
  <2> HIDE DEF c
  <2>1. PackTick(world.board, world.due, world.old, count, world.time)
          = TickTag(c, count, world.time)
    BY DEF PackTick, c
  <2> QED BY <1>2, <2>1 DEF TickTag
<1> HIDE DEF c
<1>4. Sound(c, Relevant)
  BY <1>2, RelevantIsSound
<1>5. /\ Check(c, count, world.time) \in Boards
      /\ Check(c, count, world.time).armed = c.armed /\ Check(c, count, world.time).th = c.th
      /\ SeenWith(count) \in Sightings
      /\ Agree(Check(c, count, world.time), SeenWith(count), Relevant)
      /\ DOMAIN seen \subseteq DOMAIN SeenWith(count)
      /\ \A d \in DOMAIN seen : SeenWith(count)[d] = seen[d]
  BY <1>1, <1>2, <1>4, EveryLine
<1> QED BY <1>2, <1>3, <1>5

LEMMA TickStep ==
  ASSUME IInv, Tick
  PROVE  IInv'
<1> USE DEF IInv
<1>1. /\ at \in {"ticking", "stopped"} /\ at' = at
      /\ faults' = IF at = "stopped" THEN faults \cup {"late tick"} ELSE faults
      /\ UNCHANGED <<boots, steps, node, parent, own, meant, starts>>
  BY DEF Tick
<1>2. PICK count \in [Names -> Counts], taken \in {0, 1} :
        /\ taken <= world.blocks
        /\ world' = Draw([world EXCEPT
             !.time = @ + 1, !.blocks = @ - taken, !.due = FALSE,
             !.board = PackTick(@, world.due, world.old, count, world.time)])
        /\ seen' = SeenWith(count)
  BY DEF Tick
<1> DEFINE b == PackTick(world.board, world.due, world.old, count, world.time)
<1>3. /\ b \in Boards /\ b.armed = 1 /\ (~Resumed => b.th = meant)
      /\ seen' \in Sightings /\ Agree(b, seen', Relevant)
      /\ DOMAIN seen \subseteq DOMAIN seen' /\ \A d \in DOMAIN seen : seen'[d] = seen[d]
  BY <1>1, <1>2, PackTickDoes
<1> HIDE DEF b
<1>4. /\ world' \in Worlds /\ world'.time = world.time + 1 /\ world'.due = FALSE
      /\ world'.board = b /\ world'.old = world.old /\ world'.players = world.players
  <2> DEFINE u == [world EXCEPT !.time = @ + 1]
             v == [u EXCEPT !.blocks = @ - taken]
             w == [v EXCEPT !.due = FALSE]
             x == [w EXCEPT !.board = b]
  <2>1. world \in Worlds /\ world.time + 1 \in Nat /\ world.blocks - taken \in 0..Blocks
    BY <1>2, ConstantsAreTyped DEF Shape, Worlds
  <2>2. /\ u \in Worlds /\ u.time = world.time + 1 /\ u.blocks = world.blocks
        /\ u.old = world.old /\ u.players = world.players
    BY <2>1 DEF Worlds
  <2> HIDE DEF u
  <2>3. /\ v \in Worlds /\ v.time = world.time + 1
        /\ v.old = world.old /\ v.players = world.players
    BY <2>1, <2>2 DEF Worlds
  <2> HIDE DEF v
  <2>4. w \in Worlds
    <3>1. FALSE \in BOOLEAN
      OBVIOUS
    <3> QED BY <2>3, <3>1, Setters
  <2>5. /\ w.time = world.time + 1 /\ w.due = FALSE
        /\ w.old = world.old /\ w.players = world.players
    BY <2>3 DEF Worlds
  <2> HIDE DEF w
  <2>6. /\ x \in Worlds /\ x.time = world.time + 1 /\ x.due = FALSE /\ x.board = b
        /\ x.old = world.old /\ x.players = world.players
    BY <1>3, <2>4, <2>5, Setters DEF Worlds
  <2>7. world' = Draw(x)
    BY <1>2 DEF u, v, w, b
  <2> HIDE DEF x
  <2> QED BY <2>6, <2>7, DrawDoes
<1>5. Resumed' = Resumed /\ Before' = Before /\ Relevant' = Relevant
  BY <1>1 DEF Resumed, Before, Order, SetupOrder, ResumeOrder, Relevant
<1>6. Shape'
  <2>1. faults' \in SUBSET Faults
    BY <1>1 DEF Shape, Faults
  <2> QED BY <1>1, <1>3, <1>4, <2>1 DEF Shape
<1>7. Path'
  BY <1>1, <1>5 DEF Path
<1>8. Setting'
  BY <1>1, <1>4, <1>5 DEF Setting
<1>1a. faults # {} => faults' # {}
  BY <1>1
<1>9. Resuming'
  BY <1>1, <1>1a, <1>5, OrdersAre DEF Resuming
<1>10. Alike'
  BY <1>1 DEF Alike, MendedBlocks, Mended, Load, Reset, SetArmed
<1>11. Segments'
  <2>1. at' \notin Before'
    BY <1>1, <1>5, BeforeIs
  <2>2. node.start <= world.time /\ world.time \in Nat /\ node.start \in Nat
    BY <1>1 DEF Segments, Shape, Worlds, NodeIs
  <2>2a. node' = node /\ world'.time = world.time + 1
    BY <1>1, <1>4
  <2>3. node'.start <= world'.time /\ world'.time # node'.start
    BY <2>2, <2>2a
  <2>3a. at' = "stopped" => node'.final <= world'.time
    <3>1. at = "stopped" => node.final <= world.time
      BY DEF Segments
    <3>2. node.final \in Nat
      BY DEF Shape, NodeIs
    <3>3. at' = at
      BY <1>1
    <3> QED BY <2>2, <2>2a, <3>1, <3>2, <3>3
  <2>4. /\ world'.players = TRUE /\ world'.old = FALSE /\ node'.start < node'.stop
    BY <1>1, <1>4 DEF Segments
  <2>5. /\ world'.board # Missing /\ world'.board.armed = 1
        /\ (~Resumed => world'.board.th = meant')
        /\ Agree(world'.board, seen', Relevant')
    BY <1>1, <1>3, <1>4, <1>5, ConstantsAreTyped
  <2> QED BY <1>1, <1>4, <1>5, <2>1, <2>3, <2>3a, <2>4, <2>5 DEF Segments
<1>12. Reported'
  <2>1. /\ "not a tick" \notin faults' => "not a tick" \notin faults
        /\ at' = "stopped" => "late tick" \in faults'
        /\ at' \in {"ticking", "stopped"}
    BY <1>1
  <2> QED BY <1>1, <1>3, <1>5, <2>1 DEF Reported
<1> QED BY <1>6, <1>7, <1>8, <1>9, <1>10, <1>11, <1>12

(* What the pack shows at a stop, added to what was read before.           *)
LEMMA ReadDoes ==
  ASSUME IInv, at = "ticking"
  PROVE  LET h == read_detector
         IN  /\ h \in Sightings
             /\ DOMAIN h = DOMAIN node.hits \cup Fired(world.board)
             /\ \A d \in DOMAIN h : h[d] = IF d \in DOMAIN node.hits THEN node.hits[d]
                                           ELSE world.board.gt[d]
<1> DEFINE s == node.hits
           F == Fired(world.board)
           t == [d \in F |-> world.board.gt[d]]
           h == Noted(s, t)
<1>1. world.board \in Boards /\ s \in Sightings
  BY DEF IInv, Shape, Worlds, Segments, NodeIs
<1>2. F \subseteq Names /\ world.board.gt \in [Names -> Int]
  BY <1>1 DEF Fired, Boards
<1> HIDE DEF s, F
<1>3. DOMAIN t = F /\ \A d \in F : t[d] = world.board.gt[d]
  OBVIOUS
<1> HIDE DEF t
<1>4. h = [d \in DOMAIN s \cup F |-> IF d \in DOMAIN s THEN s[d] ELSE t[d]]
  BY <1>3 DEF Noted
<1>5. /\ DOMAIN h = DOMAIN s \cup F
      /\ \A d \in DOMAIN h : h[d] = IF d \in DOMAIN s THEN s[d] ELSE t[d]
      /\ h = [d \in DOMAIN h |-> h[d]]
  BY <1>4
<1> HIDE DEF h
<1>6. DOMAIN s \subseteq Names /\ \A d \in DOMAIN s : s[d] \in Int
  BY <1>1, SightingsAre
<1>7. h \in Sightings
  <2>1. DOMAIN h \subseteq Names
    BY <1>2, <1>5, <1>6
  <2>2. \A d \in DOMAIN h : h[d] \in Int
    <3> SUFFICES ASSUME NEW d \in DOMAIN h PROVE h[d] \in Int
      OBVIOUS
    <3>1. CASE d \in DOMAIN s
      BY <1>5, <1>6, <3>1
    <3>2. CASE d \notin DOMAIN s
      <4>1. d \in F /\ h[d] = world.board.gt[d]
        BY <1>3, <1>5, <3>2
      <4> QED BY <1>2, <4>1
    <3> QED BY <3>1, <3>2
  <2> QED BY <1>5, <2>1, <2>2, SightingsAre
<1>8. read_detector = h
  BY DEF read_detector, h, s, t, F
<1> QED BY <1>3, <1>5, <1>7, <1>8 DEF s, F

LEMMA StopStep ==
  ASSUME IInv, Stop
  PROVE  IInv'
<1> USE DEF IInv
<1> DEFINE later == {s \in Stops : s > node.stop}
           h == read_detector
<1>1. /\ at = "ticking" /\ faults' = faults \cup Stall
      /\ IF later = {}
         THEN at' = "stopped" /\ node' = [node EXCEPT !.hits = h, !.final = world.time]
         ELSE at' = at /\ node' = [node EXCEPT !.hits = h, !.stop = Least(later)]
      /\ UNCHANGED <<world, boots, steps, parent, own, meant, seen, starts>>
  BY DEF Stop
<1>2. /\ h \in Sightings
      /\ DOMAIN h = DOMAIN node.hits \cup Fired(world.board)
      /\ \A d \in DOMAIN h : h[d] = IF d \in DOMAIN node.hits THEN node.hits[d]
                                    ELSE world.board.gt[d]
  BY <1>1, ReadDoes
<1> HIDE DEF h
<1>3. later \in SUBSET Nat /\ \A s \in later : s > node.stop
  BY ConstantsAreTyped DEF Stops, Shape, NodeIs
<1>4. later # {} => Least(later) \in Nat /\ Least(later) > node.stop
  <2> HIDE DEF later
  <2> QED BY <1>3, LeastIs
<1> HIDE DEF later
<1>5. node \in NodeIs /\ node.start < node.stop
  BY <1>1 DEF Shape, Segments
<1>6. /\ node' \in NodeIs /\ node'.start = node.start /\ node'.seed = node.seed
      /\ node'.hits = h /\ node'.start < node'.stop /\ node'.resume = node.resume
      /\ at' = "stopped" => node'.final = world.time
  <2> DEFINE u == [node EXCEPT !.hits = h]
  <2>1. /\ u \in NodeIs /\ u.start = node.start /\ u.seed = node.seed /\ u.hits = h
        /\ u.stop = node.stop /\ u.resume = node.resume
    BY <1>2, <1>5 DEF NodeIs
  <2>2. CASE later = {}
    <3>1. node' = [u EXCEPT !.final = world.time]
      BY <1>1, <2>2
    <3>2. world.time \in Nat
      BY DEF Shape, Worlds
    <3> HIDE DEF u
    <3> QED BY <1>5, <2>1, <3>1, <3>2 DEF NodeIs
  <2>3. CASE later # {}
    <3>1. node' = [u EXCEPT !.stop = Least(later)]
      BY <1>1, <2>3
    <3>2. at' = "ticking"
      BY <1>1, <2>3
    <3> HIDE DEF u
    <3> QED BY <3>2, <1>4, <1>5, <2>1, <2>3, <3>1 DEF NodeIs
  <2> QED BY <2>2, <2>3
<1>7. Resumed' = Resumed /\ Before' = Before /\ Relevant' = Relevant
  BY <1>1 DEF Resumed, Before, Order, SetupOrder, ResumeOrder, Relevant
<1>8. at' \in {"ticking", "stopped"}
  BY <1>1
<1>9. Shape'
  BY <1>1, <1>6, <1>8 DEF Shape, Stages, Stall, Faults
<1>10. Path'
  BY <1>1, <1>7, <1>8 DEF Path
<1>11. Setting'
  BY <1>1, <1>7, <1>8 DEF Setting
<1>12. Resuming'
  BY <1>1, <1>6, <1>7, <1>8, OrdersAre DEF Resuming
<1>13. Alike'
  BY <1>1 DEF Alike, MendedBlocks, Mended, Load, Reset, SetArmed
<1>14. Segments'
  <2>1. at' \notin Before'
    BY <1>7, <1>8, BeforeIs
  <2>2. at' = "ticking" => at = "ticking"
    BY <1>1
  <2>3. world.time \in Nat
    BY DEF Shape, Worlds
  <2> QED BY <1>1, <1>6, <1>7, <1>8, <2>1, <2>2, <2>3 DEF Segments
<1>15. world.time = node.stop \/ world.time # node.start => world.due = FALSE
  <2>1. world.due \in BOOLEAN /\ node.start \in Nat /\ node.stop \in Nat
    BY <1>5 DEF Shape, Worlds, NodeIs
  <2>2. world.due = TRUE => world.time = node.start
    BY <1>1 DEF Segments
  <2>3. node.start # node.stop
    BY <1>5, <2>1
  <2>4. world.due = TRUE \/ world.due = FALSE
    BY <2>1
  <2> QED BY <2>2, <2>3, <2>4
<1>16. Reported'
  <2> SUFFICES ASSUME "not a tick" \notin faults'
               PROVE  /\ \A d \in DOMAIN h \cap Relevant : d \in DOMAIN seen /\ h[d] = seen[d]
                      /\ DOMAIN seen \cap Relevant \subseteq DOMAIN h
    BY <1>1, <1>6, <1>7, <1>8 DEF Reported
  <2>1. "not a tick" \notin faults /\ (world.time = node.stop \/ world.time # node.start)
    BY <1>1 DEF Stall
  <2>2. world.due = FALSE
    BY <1>15, <2>1
  <2>3. Agree(world.board, seen, Relevant)
    BY <1>1, <2>2 DEF Segments
  <2>4. \A d \in DOMAIN node.hits \cap Relevant : d \in DOMAIN seen /\ node.hits[d] = seen[d]
    BY <1>1, <2>1 DEF Reported
  <2>5. \A d \in Relevant : /\ d \in Fired(world.board) <=> d \in DOMAIN seen
                            /\ d \in DOMAIN seen => world.board.gt[d] = seen[d]
    BY <2>3 DEF Agree, Fired, Relevant
  <2> QED BY <1>2, <2>4, <2>5
<1> QED BY <1>9, <1>10, <1>11, <1>12, <1>13, <1>14, <1>16

(* The world is kept, and the runner has seen that the pack was armed.     *)
LEMMA CheckpointStep ==
  ASSUME IInv, Checkpoint
  PROVE  IInv'
<1> USE DEF IInv
<1>1. /\ at = "stopped" /\ at' = "ok" /\ own' = world
      /\ UNCHANGED <<world, boots, steps, node, parent, meant, seen, starts, faults>>
  BY DEF Checkpoint, StillArmed, Segments
<1>2. Resumed' = Resumed /\ Before' = Before /\ Relevant' = Relevant
  BY <1>1 DEF Resumed, Before, Order, SetupOrder, ResumeOrder, Relevant
<1>3. Shape'
  BY <1>1 DEF Shape, Stages
<1>4. Path'
  <2>1. own' # None
    BY <1>1, ConstantsAreTyped DEF Shape
  <2> QED BY <1>1, <1>2, <2>1 DEF Path
<1>5. Setting'
  BY <1>1, <1>2 DEF Setting
<1>6. Resuming'
  BY <1>1, <1>2, OrdersAre DEF Resuming
<1>7. Alike'
  BY <1>1 DEF Alike, MendedBlocks, Mended, Load, Reset, SetArmed
<1>8. Segments'
  <2>1. at' \notin Before'
    BY <1>1, <1>2, BeforeIs
  <2> QED BY <1>1, <2>1 DEF Segments
<1>9. Reported'
  BY <1>1, <1>2 DEF Reported
<1> QED BY <1>3, <1>4, <1>5, <1>6, <1>7, <1>8, <1>9

LEMMA RaiseAdvanceStep ==
  ASSUME IInv, RaiseAdvance
  PROVE  IInv'
<1>1. boots \in 0..3 /\ steps \in 0..MaxSteps /\ faults \in SUBSET Faults
  BY DEF IInv, Shape
<1>2. /\ at' = "error" /\ faults' = faults \cup {"fault"}
      /\ UNCHANGED <<world, boots, steps, node, parent, own, meant, seen, starts>>
  BY DEF RaiseAdvance
<1>3. boots' \in 0..3 /\ steps' \in 0..MaxSteps /\ faults' \in SUBSET Faults /\ faults' # {}
  BY <1>1, <1>2 DEF Faults
<1> QED BY <1>2, <1>3, Lost

-----------------------------------------------------------------------------
(* The next node starts with nothing but the checkpoint.                   *)

LEMMA NextNodeStep ==
  ASSUME IInv, Sibling \/ Descend
  PROVE  IInv'
<1> USE DEF IInv
<1>1. PICK from \in Worlds, gen \in Nat, resume \in Nat :
        /\ NextNode(from, gen, resume) /\ resume <= from.time
        /\ \/ Resumed /\ from = parent /\ starts' = starts
           \/ starts' = {}
  <2>1. CASE Sibling
    <3>1. parent \in Worlds /\ node.gen \in Nat /\ node.resume \in Nat /\ node.resume <= parent.time
      BY <2>1 DEF Sibling, Resumed, Resuming, Shape, NodeIs
    <3> QED BY <2>1, <3>1 DEF Sibling
  <2>2. CASE Descend
    <3>1. own \in Worlds /\ node.gen + 1 \in Nat /\ node.final \in Nat /\ node.final <= own.time
      BY <2>2 DEF Descend, Path, Shape, NodeIs, Segments
    <3> QED BY <2>2, <3>1 DEF Descend
  <2> QED BY <2>1, <2>2
<1>2. /\ node.seed < Nodes
      /\ at' = "boot" /\ boots' = 0 /\ steps' = 0 /\ own' = None
      /\ parent' = from /\ world' = from
      /\ node' = NewNode(gen, node.seed + 1, resume)
      /\ seen' = NoneFired /\ meant' = meant
      /\ faults' \in SUBSET Faults /\ (resume # from.time => faults' # {})
  BY <1>1 DEF NextNode, Faults
<1>3. Resumed'
  BY <1>2, ConstantsAreTyped DEF Resumed
<1>4. node' \in NodeIs /\ node'.hits = NoneFired /\ node'.resume = resume
  <2>1. node.seed + 1 \in 0..Nodes
    BY <1>2, ConstantsAreTyped DEF Shape, NodeIs
  <2> QED BY <1>2, <2>1, NewNodeIs
<1>5. Shape'
  <2>1. starts' \in SUBSET Worlds
    BY <1>1 DEF Shape
  <2> QED BY <1>2, <1>4, <2>1, ConstantsAreTyped, NoneFiredIs DEF Shape, Stages
<1>6. Path'
  BY <1>2 DEF Path
<1>7. Setting'
  BY <1>3 DEF Setting
<1>8. Resuming'
  BY <1>1, <1>2, <1>4, OrdersAre DEF Resuming
<1>9. Alike'
  BY <1>1, <1>2 DEF Alike, MendedBlocks, Mended, Load, Reset, SetArmed
<1>10. Segments' /\ Reported'
  BY <1>2, <1>4 DEF Segments, Reported
<1> QED BY <1>5, <1>6, <1>7, <1>8, <1>9, <1>10

LEMMA StutterStep ==
  ASSUME IInv, UNCHANGED vars
  PROVE  IInv'
<1> USE DEF IInv, vars
<1>1. Resumed' = Resumed /\ Before' = Before /\ Relevant' = Relevant
  BY DEF Resumed, Before, Order, SetupOrder, ResumeOrder, Relevant
<1>2. Shape' /\ Path' /\ Setting'
  BY <1>1 DEF Shape, Path, Setting
<1>3. Resuming' /\ Alike'
  BY <1>1, OrdersAre DEF Resuming, Alike, MendedBlocks, Mended, Load, Reset, SetArmed, ResumeOrder
<1>4. Segments' /\ Reported'
  BY <1>1 DEF Segments, Reported, Agree
<1> QED BY <1>2, <1>3, <1>4

LEMMA Invariant == Spec => []IInv
<1>1. ASSUME IInv, [Next]_vars PROVE IInv'
  <2>1. CASE Next
    BY <1>1, <2>1, BootStep, RaiseBootStep, DropStep, BuildArenaStep, PlayersStep, SummonStep,
       ReloadStep, ReloadedStep, InstallStep, GametimeStep, EnsureStep, RestockStep,
       ReseedStep, ArmStep, TickStep, StopStep, CheckpointStep, RaiseAdvanceStep,
       NextNodeStep DEF Next, Work
  <2>2. CASE UNCHANGED vars
    BY <1>1, <2>2, StutterStep
  <2> QED BY <1>1, <2>1, <2>2
<1> QED BY <1>1, Start, PTL DEF Spec

-----------------------------------------------------------------------------
(* The theorems.                                                           *)

(* Type correctness: worlds, checkpoints, stages and reports are what the  *)
(* runner takes them for, and no node is booted more than three times.     *)
THEOREM TypeCorrect == Spec => []TypeOK
<1>1. IInv => TypeOK
  <2> SUFFICES ASSUME IInv PROVE TypeOK
    OBVIOUS
  <2>1. /\ node.gen \in Nat /\ node.seed \in 0..Nodes
        /\ {node.resume, node.start, node.stop, node.final} \subseteq Nat
        /\ node.hits \in Sightings /\ seen \in Sightings
    BY DEF IInv, Shape, NodeIs
  <2>2. DOMAIN node.hits \subseteq Names /\ DOMAIN seen \subseteq Names
    BY <2>1, SightingsAre
  <2> QED BY <2>1, <2>2, OrdersAre DEF IInv, Shape, Stages, TypeOK
<1> QED BY <1>1, Invariant, PTL

(* A node that is through reports what happened in its segment, and when:  *)
(* what read_detector gathers at its stops is what the detectors of the    *)
(* scenario saw, whichever they are and whatever requires what.            *)
THEOREM ReportsTheSegment == Spec => []HitsAreTrue
<1>1. IInv => HitsAreTrue
  <2> SUFFICES ASSUME IInv, at = "ok", "not a tick" \notin faults,
                      NEW d \in Names, ~Resumed \/ ~Thresholded(d)
               PROVE  Reports(d) = Meant(d) \/ (Reports(d) = -1 /\ "late tick" \in faults)
    BY DEF HitsAreTrue
  <2>1. d \in Relevant
    BY DEF Relevant
  <2>2. /\ d \in DOMAIN node.hits => d \in DOMAIN seen /\ node.hits[d] = seen[d]
        /\ d \in DOMAIN seen => d \in DOMAIN node.hits \/ "late tick" \in faults
    BY <2>1 DEF IInv, Reported
  <2> QED BY <2>2 DEF Reports, Meant
<1> QED BY <1>1, Invariant, PTL

(* Children of one checkpoint start from one world, whatever was retried,  *)
(* and each on the stream of its reseed: resume rebuilds the world from    *)
(* the checkpoint and reseeds last.                                        *)
THEOREM StartsRight == Spec => []SegmentStartsRight
<1>1. IInv => SegmentStartsRight
  <2> SUFFICES ASSUME IInv PROVE SegmentStartsRight
    OBVIOUS
  <2>1. \A s, t \in starts : s = t
    <3> SUFFICES ASSUME NEW s \in starts, NEW t \in starts PROVE s = t
      OBVIOUS
    <3>1. s \in Worlds /\ t \in Worlds
      BY DEF IInv, Shape
    <3>2. /\ s.time = t.time /\ s.board = t.board /\ s.old = t.old /\ s.due = t.due
          /\ s.players = t.players /\ s.mobs = t.mobs /\ s.blocks = t.blocks
          /\ s.key = t.key /\ s.draws = t.draws
      BY DEF IInv, Alike
    <3> QED BY <3>1, <3>2 DEF Worlds
  <2>2. SiblingsStartAlike
    <3>1. CASE starts = {}
      BY <3>1, FS_EmptySet DEF SiblingsStartAlike
    <3>2. CASE starts # {}
      <4>1. PICK s \in starts : starts = {s}
        BY <2>1, <3>2
      <4>2. Cardinality(starts) = 1
        BY <4>1, FS_Singleton
      <4> QED BY <4>2 DEF SiblingsStartAlike
    <3> QED BY <3>1, <3>2
  <2>3. StartsAtItsReseed
    BY DEF IInv, Segments, StartsAtItsReseed
  <2> QED BY <2>2, <2>3 DEF SegmentStartsRight
<1> QED BY <1>1, Invariant, PTL

(* A node is lost only to what failed outside the runner: no scoreboard an *)
(* older pack left, and no order of retries, makes resume or the check of  *)
(* #armed after the segment give it up.                                    *)
THEOREM LosesToFaultsOnly == Spec => []LostToFaultsOnly
<1>1. IInv => LostToFaultsOnly
  BY DEF IInv, Path, LostToFaultsOnly
<1> QED BY <1>1, Invariant, PTL

(* Every tick of a segment is run with the pack armed, and with a player   *)
(* on the server: also the first, in which the load tag is due.            *)
THEOREM WatchesEveryTick == Spec => TicksAreWatched
<1> DEFINE A == world'.time > world.time /\ at \in {"ticking", "stopped"}
                  => world'.board.armed = 1 /\ world.players
<1>1. ASSUME IInv, Next PROVE A
  <2> SUFFICES ASSUME at \in {"ticking", "stopped"}, world'.time > world.time
               PROVE  world'.board.armed = 1 /\ world.players
    OBVIOUS
  <2>1. world.players
    BY <1>1 DEF IInv, Segments
  <2>2. world.time \in Nat /\ world \in Worlds
    BY <1>1 DEF IInv, Shape, Worlds
  <2>3. CASE Tick
    <3>1. PICK count \in [Names -> Counts], taken \in {0, 1} :
            world' = Draw([world EXCEPT
                       !.time = @ + 1, !.blocks = @ - taken, !.due = FALSE,
                       !.board = PackTick(@, world.due, world.old, count, world.time)])
      BY <2>3 DEF Tick
    <3> DEFINE b == PackTick(world.board, world.due, world.old, count, world.time)
    <3>2. b.armed = 1
      BY <1>1, PackTickDoes
    <3> HIDE DEF b
    <3>3. world'.board = b
      BY <2>2, <3>1 DEF Draw, Worlds, b
    <3> QED BY <2>1, <3>2, <3>3
  <2>4. CASE ~Tick
    <3>1. ~Preparing /\ ~Ended
      BY OrdersAre DEF Preparing, Ended, Order
    <3>2. Stop \/ Checkpoint \/ RaiseAdvance
      BY <1>1, <2>4, <3>1, SetupGoesOn, ResumeGoesOn
         DEF Next, Work, Boot, RaiseBoot, RaisePrepare, BuildArena, spawn_fake_players, Summon,
             step_until_loaded, Reloaded, ReloadNeverCompletes, install_detector, CheckGametime,
             WrongGametime, ensure_detmc_loaded, Restock, Reseed, Arm, Sibling, Descend, NextNode, Past
    <3>3. world' = world
      BY <3>2 DEF Stop, Checkpoint, RaiseAdvance
    <3> QED BY <2>2, <3>3
  <2> QED BY <2>3, <2>4
<1>2. IInv /\ [Next]_vars => [A]_vars
  BY <1>1
<1> QED BY <1>2, Invariant, PTL DEF Spec, TicksAreWatched
===============================================================================
