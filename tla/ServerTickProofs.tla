--------------------------- MODULE ServerTickProofs ---------------------------
(***************************************************************************)
(* Theorems about the main thread of a server with detmc, for any levels,  *)
(* chunks, commands and loading times, any number of ticks, and whenever   *)
(* the clock, the rcon clients and the IO workers strike: each level goes  *)
(* through what it would if commands and ticks took all their chunk work   *)
(* with them at once, a tick leaves nothing behind, a reseed reaches what  *)
(* is in the world, and the autosave keeps to the grid of the world's      *)
(* clock.                                                                  *)
(***************************************************************************)
EXTENDS ServerTick, SequenceTheorems, FiniteSetTheorems, NaturalsInduction,
        WellFoundedInduction, TLAPS

-----------------------------------------------------------------------------
(* Worlds, as far as the theorems look at them.                            *)

Fields == {"q", "at", "writes", "unload", "inbox", "live", "saved", "key", "level", "master",
           "log", "born"}

(* What waits, comes in or lives in a level is of that level.              *)
IsWorld(w) ==
  /\ DOMAIN w = Fields
  /\ w.q \in [LevelSet -> SUBSET (Chunks \X Nat)]
  /\ w.inbox \in [LevelSet -> Seq(Chunks)] /\ w.live \in [LevelSet -> SUBSET Chunks]
  /\ w.key \in [Chunks -> Nat] /\ w.level \in [LevelSet -> Nat] /\ w.master \in Nat
  /\ \A l \in LevelSet :
       /\ \A t \in w.q[l] : LevelOf[t[1]] = l
       /\ \A c \in w.live[l] \cup Range(w.inbox[l]) : LevelOf[c] = l

(* Levels and entities draw from the newest key, those in m excepted.      *)
Keyed(w, m) ==
  \A l \in LevelSet :
    /\ w.level[l] = w.master
    /\ \A c \in (w.live[l] \cup Range(w.inbox[l])) \ m : w.key[c] = w.master

LEMMA ConstantsAreTyped ==
  /\ Chunks \subseteq Nat \ {0} /\ LevelOf \in [Chunks -> LevelSet]
  /\ Priority \in [Chunks -> Nat] /\ Steps \in [Chunks -> Nat \ {0}]
  /\ AutosaveTicks \in Nat /\ AutosaveTicks > 1 /\ MaxValue \in Nat /\ MaxValue > 1
  /\ MaxRounds \in Nat \ {0} /\ MaxPolls \in Nat \ {0}
  /\ Starts \subseteq Nat /\ Levels \in Seq(LevelSet)
BY WorkAssumption, TickAssumption

(* A set of naturals that is not empty has a smallest one.                 *)
LEMMA Smallest ==
  ASSUME NEW S \in SUBSET Nat, S # {}
  PROVE  \E m \in S : \A x \in S : m <= x
<1>1. PICK m \in S : \A y \in S : <<y, m>> \notin OpToRel(<, Nat)
  BY NatLessThanWellFounded, WFMin
<1>2. \A y \in S : ~(y < m)
  <2> SUFFICES ASSUME NEW y \in S, y < m
               PROVE  <<y, m>> \in OpToRel(<, Nat)
    BY <1>1
  <2>1. <<y, m>> \in Nat \X Nat /\ <<y, m>>[1] < <<y, m>>[2]
    OBVIOUS
  <2> QED BY <2>1 DEF OpToRel
<1> QED BY <1>2

LEMMA RangeOfAppend ==
  ASSUME NEW S, NEW s \in Seq(S), NEW x \in S
  PROVE  Range(Append(s, x)) = Range(s) \cup {x}
<1>1. /\ Len(s) \in Nat /\ DOMAIN s = 1..Len(s)
      /\ DOMAIN Append(s, x) = 1..(Len(s) + 1)
      /\ \A i \in 1..Len(s) : Append(s, x)[i] = s[i]
      /\ Append(s, x)[Len(s) + 1] = x
  OBVIOUS
<1>2. 1..(Len(s) + 1) = (1..Len(s)) \cup {Len(s) + 1}
  BY <1>1
<1> QED BY <1>1, <1>2 DEF Range

(* pop takes a task of the level it is asked for, the lowest position of   *)
(* its top priority.                                                       *)
LEMMA PopIsQueued ==
  ASSUME NEW w, IsWorld(w), NEW l \in LevelSet, Busy(w, l)
  PROVE  /\ pop(w, l) \in w.q[l] /\ pop(w, l) \in Chunks \X Nat
         /\ LevelOf[pop(w, l)[1]] = l
         /\ \A u \in w.q[l] :
              /\ Priority[pop(w, l)[1]] <= Priority[u[1]]
              /\ Priority[pop(w, l)[1]] = Priority[u[1]] => pop(w, l)[1] <= u[1]
<1> DEFINE Q   == w.q[l]
           t   == pop(w, l)
           top == {x \in Q : \A y \in Q : Priority[x[1]] <= Priority[y[1]]}
<1>1. Q \subseteq Chunks \X Nat /\ Q # {} /\ \A x \in Q : LevelOf[x[1]] = l
  BY DEF IsWorld, Busy
<1> HIDE DEF Q
<1>2. \A x \in Q : x[1] \in Chunks /\ x[1] \in Nat /\ Priority[x[1]] \in Nat
  BY <1>1, ConstantsAreTyped
<1>3. t = CHOOSE x \in top : \A y \in top : x[1] <= y[1]
  BY DEF pop, Q
<1>4. top # {}
  <2> DEFINE P == {Priority[x[1]] : x \in Q}
  <2>1. P \subseteq Nat /\ P # {}
    BY <1>1, <1>2
  <2>2. PICK m \in P : \A x \in P : m <= x
    <3> HIDE DEF P
    <3> QED BY <2>1, Smallest
  <2> QED BY <2>2
<1>5. \E x \in top : \A y \in top : x[1] <= y[1]
  <2> DEFINE F == {x[1] : x \in top}
  <2>1. F \subseteq Nat /\ F # {}
    <3>1. \A x \in top : x[1] \in Nat
      BY <1>2
    <3> HIDE DEF top
    <3> QED BY <1>4, <3>1
  <2>2. PICK m \in F : \A x \in F : m <= x
    <3> HIDE DEF F
    <3> QED BY <2>1, Smallest
  <2> QED BY <2>2
<1>6. t \in top /\ \A y \in top : t[1] <= y[1]
  <2> HIDE DEF top, t
  <2> QED BY <1>3, <1>5
<1> HIDE DEF t
<1>7. \A u \in Q : Priority[t[1]] <= Priority[u[1]]
  BY <1>6
<1>8. ASSUME NEW u \in Q, Priority[t[1]] = Priority[u[1]]
      PROVE  t[1] <= u[1]
  <2>1. u \in top
    BY <1>7, <1>8
  <2> QED BY <1>6, <2>1
<1> QED BY <1>1, <1>6, <1>7, <1>8 DEF Q, t

(* What is in a level, or in its inbox, is a chunk.                        *)
LEMMA HomeIsChunk ==
  ASSUME NEW w, IsWorld(w), NEW l \in LevelSet
  PROVE  w.live[l] \cup Range(w.inbox[l]) \subseteq Chunks
<1>1. w.live[l] \subseteq Chunks /\ w.inbox[l] \in Seq(Chunks)
  BY DEF IsWorld
<1>2. Range(w.inbox[l]) \subseteq Chunks
  BY <1>1 DEF Range
<1> QED BY <1>1, <1>2

-----------------------------------------------------------------------------
(* What the steps of the main thread do to a world.                        *)

LEMMA LoadEntitiesDoes ==
  ASSUME NEW w, IsWorld(w), NEW m, Keyed(w, m), NEW l \in LevelSet,
         NEW c \in Chunks, LevelOf[c] = l
  PROVE  LET v == LoadEntities(w, l, c)
         IN  IsWorld(v) /\ Keyed(v, m)
<1>0. CASE c \in Unreadable
  BY <1>0 DEF LoadEntities
<1> SUFFICES ASSUME c \notin Unreadable
             PROVE  LET v == LoadEntities(w, l, c)
                    IN  IsWorld(v) /\ Keyed(v, m)
  BY <1>0
<1> DEFINE v == LoadEntities(w, l, c)
<1>1. /\ DOMAIN v = Fields
      /\ v.q = w.q /\ v.live = w.live /\ v.level = w.level /\ v.master = w.master
      /\ v.inbox = [w.inbox EXCEPT ![l] = Append(@, c)]
      /\ v.key = [w.key EXCEPT ![c] = w.master]
  BY DEF LoadEntities, IsWorld, Fields
<1> HIDE DEF v
<1>2. v.inbox \in [LevelSet -> Seq(Chunks)] /\ v.key \in [Chunks -> Nat]
  BY <1>1 DEF IsWorld
<1>3. /\ Range(v.inbox[l]) = Range(w.inbox[l]) \cup {c}
      /\ \A k \in LevelSet \ {l} : v.inbox[k] = w.inbox[k]
  <2>1. w.inbox[l] \in Seq(Chunks) /\ v.inbox[l] = Append(w.inbox[l], c)
    BY <1>1 DEF IsWorld
  <2>2. Range(Append(w.inbox[l], c)) = Range(w.inbox[l]) \cup {c}
    BY <2>1, RangeOfAppend
  <2> QED BY <1>1, <2>1, <2>2 DEF IsWorld
<1>4. \A k \in LevelSet : Range(v.inbox[k]) \subseteq Range(w.inbox[k]) \cup {c}
                          /\ (k # l => Range(v.inbox[k]) = Range(w.inbox[k]))
  BY <1>3
<1>5. IsWorld(v)
  BY <1>1, <1>2, <1>3, <1>4 DEF IsWorld
<1>6. Keyed(v, m)
  <2> SUFFICES ASSUME NEW k \in LevelSet, NEW d \in (v.live[k] \cup Range(v.inbox[k])) \ m
               PROVE  v.key[d] = w.master
    BY <1>1 DEF Keyed
  <2>1. CASE d = c
    BY <1>1, <2>1 DEF IsWorld
  <2>2. CASE d # c
    <3>1. d \in (w.live[k] \cup Range(w.inbox[k])) \ m
      BY <1>1, <1>4, <2>2
    <3>2. w.key[d] = w.master
      BY <3>1 DEF Keyed
    <3> QED BY <1>1, <1>2, <2>2, <3>2, HomeIsChunk, <3>1 DEF IsWorld
  <2> QED BY <2>1, <2>2
<1> QED BY <1>5, <1>6 DEF v

(* A task may wait for another one, and a chunk may come in.               *)
LEMMA RunTaskDoes ==
  ASSUME NEW w, IsWorld(w), NEW m, Keyed(w, m), NEW l \in LevelSet, Busy(w, l)
  PROVE  IsWorld(RunTask(w, l)) /\ Keyed(RunTask(w, l), m)
<1> DEFINE t    == pop(w, l)
           c    == t[1]
           k    == t[2]
           read == IF k = 1 THEN LoadEntities(w, l, c) ELSE w
           v    == RunTask(w, l)
<1>1. t \in w.q[l] /\ c \in Chunks /\ k \in Nat /\ LevelOf[c] = l
  BY PopIsQueued
<1>2. IsWorld(read) /\ Keyed(read, m)
  BY <1>1, LoadEntitiesDoes
<1>3. v = IF k = Steps[c]
          THEN Log([read EXCEPT !.q[l] = @ \ {t}, !.at[c] = "in"], l, "in", c)
          ELSE [read EXCEPT !.q[l] = (@ \ {t}) \cup {<<c, k + 1>>}]
  BY DEF RunTask
<1> HIDE DEF v, read, t
<1>4. /\ DOMAIN v = Fields /\ v.inbox = read.inbox /\ v.key = read.key
      /\ v.live = read.live /\ v.level = read.level /\ v.master = read.master
  <2>1. CASE k = Steps[c]
    BY <1>2, <1>3, <2>1 DEF Log, IsWorld, Fields
  <2>2. CASE k # Steps[c]
    BY <1>2, <1>3, <2>2 DEF IsWorld, Fields
  <2> QED BY <2>1, <2>2
<1>5. PICK S : v.q = [read.q EXCEPT ![l] = S] /\ S \subseteq read.q[l] \cup {<<c, k + 1>>}
  <2>1. CASE k = Steps[c]
    <3>1. v.q = [read.q EXCEPT ![l] = read.q[l] \ {t}]
      BY <1>2, <1>3, <2>1 DEF Log, IsWorld, Fields
    <3> QED BY <3>1
  <2>2. CASE k # Steps[c]
    <3>1. v.q = [read.q EXCEPT ![l] = (read.q[l] \ {t}) \cup {<<c, k + 1>>}]
      BY <1>2, <1>3, <2>2 DEF IsWorld, Fields
    <3> QED BY <3>1
  <2> QED BY <2>1, <2>2
<1>6. IsWorld(v)
  <2>1. S \subseteq Chunks \X Nat /\ \A u \in S : LevelOf[u[1]] = l
    <3>1. <<c, k + 1>> \in Chunks \X Nat /\ LevelOf[<<c, k + 1>>[1]] = l
      BY <1>1
    <3>2. read.q[l] \subseteq Chunks \X Nat /\ \A u \in read.q[l] : LevelOf[u[1]] = l
      BY <1>2 DEF IsWorld
    <3> QED BY <1>5, <3>1, <3>2
  <2>2. v.q \in [LevelSet -> SUBSET (Chunks \X Nat)]
    BY <1>2, <1>5, <2>1 DEF IsWorld
  <2>3. \A j \in LevelSet : \A u \in v.q[j] : LevelOf[u[1]] = j
    BY <1>2, <1>5, <2>1 DEF IsWorld
  <2> QED BY <1>2, <1>4, <2>2, <2>3 DEF IsWorld
<1>7. Keyed(v, m)
  BY <1>2, <1>4 DEF Keyed
<1> QED BY <1>6, <1>7 DEF v

(* A change of the queues alone.                                           *)
LEMMA OnlyTheQueues ==
  ASSUME NEW w, IsWorld(w), NEW m, Keyed(w, m), NEW v, DOMAIN v = Fields,
         v.inbox = w.inbox, v.live = w.live, v.key = w.key, v.level = w.level,
         v.master = w.master,
         v.q \in [LevelSet -> SUBSET (Chunks \X Nat)],
         \A l \in LevelSet : \A t \in v.q[l] : LevelOf[t[1]] = l
  PROVE  IsWorld(v) /\ Keyed(v, m)
BY DEF IsWorld, Keyed

LEMMA LogDoes ==
  ASSUME NEW w, IsWorld(w), NEW m, Keyed(w, m), NEW l, NEW what, NEW c
  PROVE  /\ IsWorld(Log(w, l, what, c)) /\ Keyed(Log(w, l, what, c), m)
         /\ Log(w, l, what, c).at = w.at
<1> DEFINE v == Log(w, l, what, c)
<1>1. /\ DOMAIN v = Fields /\ v.q = w.q /\ v.inbox = w.inbox /\ v.live = w.live
      /\ v.key = w.key /\ v.level = w.level /\ v.master = w.master /\ v.at = w.at
  BY DEF Log, IsWorld, Fields
<1> HIDE DEF v
<1>2. /\ v.q \in [LevelSet -> SUBSET (Chunks \X Nat)]
      /\ \A k \in LevelSet : \A t \in v.q[k] : LevelOf[t[1]] = k
  BY <1>1 DEF IsWorld
<1>3. IsWorld(v) /\ Keyed(v, m)
  BY <1>1, <1>2, OnlyTheQueues
<1> QED BY <1>1, <1>3 DEF v

LEMMA RequestDoes ==
  ASSUME NEW w, IsWorld(w), NEW m, Keyed(w, m), NEW c \in Chunks
  PROVE  IsWorld(Request(w, c)) /\ Keyed(Request(w, c), m)
<1>1. CASE w.at[c] = "out"
  <2> DEFINE v == Request(w, c)
             h == LevelOf[c]
  <2>1. /\ DOMAIN v = Fields /\ v.inbox = w.inbox /\ v.live = w.live
        /\ v.key = w.key /\ v.level = w.level /\ v.master = w.master
        /\ v.q = [w.q EXCEPT ![h] = @ \cup {<<c, 1>>}]
    BY <1>1 DEF Request, IsWorld, Fields
  <2>2. h \in LevelSet
    BY ConstantsAreTyped
  <2> HIDE DEF v
  <2>3. v.q \in [LevelSet -> SUBSET (Chunks \X Nat)]
    BY <2>1, <2>2 DEF IsWorld
  <2>4. \A k \in LevelSet : \A t \in v.q[k] : LevelOf[t[1]] = k
    BY <2>1, <2>2 DEF IsWorld
  <2>5. IsWorld(v) /\ Keyed(v, m)
    BY <2>1, <2>3, <2>4, OnlyTheQueues
  <2> QED BY <2>5 DEF v
<1>2. CASE w.at[c] # "out"
  BY <1>2 DEF Request
<1> QED BY <1>1, <1>2

(* What a reseed does not reach is in a loading inbox.                     *)
Unborn(w) == UNION {Range(w.inbox[l]) : l \in LevelSet}

LEMMA ReseedDoes ==
  ASSUME NEW w, IsWorld(w)
  PROVE  IsWorld(reseed(w)) /\ Keyed(reseed(w), Unborn(w))
<1> DEFINE v == reseed(w)
           k == w.master + 1
<1>1. /\ DOMAIN v = Fields /\ v.q = w.q /\ v.inbox = w.inbox /\ v.live = w.live
      /\ v.master = k /\ v.level = [l \in LevelSet |-> k]
      /\ v.key = [c \in Chunks |-> IF c \in w.live[LevelOf[c]] THEN k ELSE w.key[c]]
  BY DEF reseed, IsWorld, Fields
<1>2. k \in Nat
  BY DEF IsWorld
<1> HIDE DEF v, k
<1>3. v.key \in [Chunks -> Nat] /\ v.level \in [LevelSet -> Nat]
  BY <1>1, <1>2 DEF IsWorld
<1>4. IsWorld(v)
  BY <1>1, <1>2, <1>3 DEF IsWorld
<1>5. Keyed(v, Unborn(w))
  <2> SUFFICES ASSUME NEW l \in LevelSet,
                      NEW c \in (w.live[l] \cup Range(w.inbox[l])) \ Unborn(w)
               PROVE  v.key[c] = k
    BY <1>1 DEF Keyed
  <2>1. c \in w.live[l]
    BY DEF Unborn
  <2>2. c \in Chunks /\ LevelOf[c] = l
    BY <2>1 DEF IsWorld
  <2> QED BY <1>1, <2>1, <2>2
<1> QED BY <1>4, <1>5 DEF v

LEMMA Wider ==
  ASSUME NEW w, NEW m, NEW n, m \subseteq n, Keyed(w, m)
  PROVE  Keyed(w, n)
BY DEF Keyed

LEMMA DoDoes ==
  ASSUME NEW w, IsWorld(w), NEW m, Keyed(w, m), NEW cmd \in Commands
  PROVE  /\ IsWorld(Do(w, cmd))
         /\ Keyed(Do(w, cmd), IF cmd[1] = "reseed" THEN m \cup Unborn(w) ELSE m)
<1>1. cmd[1] \in {"load", "drop", "reseed"} /\ (cmd[1] # "reseed" => cmd[2] \in Chunks)
  BY TickAssumption
<1>2. CASE cmd[1] = "load"
  <2> DEFINE v == Log(w, LevelOf[cmd[2]], "load", cmd[2])
  <2>1. IsWorld(v) /\ Keyed(v, m)
    BY LogDoes
  <2> HIDE DEF v
  <2>2. IsWorld(Request(v, cmd[2])) /\ Keyed(Request(v, cmd[2]), m)
    BY <1>1, <1>2, <2>1, RequestDoes
  <2>3. Do(w, cmd) = Request(v, cmd[2])
    BY <1>2 DEF Do, v
  <2> QED BY <1>2, <2>2, <2>3
<1>3. CASE cmd[1] = "drop"
  <2> DEFINE v == Do(w, cmd)
  <2>1. /\ DOMAIN v = Fields /\ v.q = w.q /\ v.inbox = w.inbox /\ v.live = w.live
        /\ v.key = w.key /\ v.level = w.level /\ v.master = w.master
    BY <1>3 DEF Do, IsWorld, Fields
  <2> HIDE DEF v
  <2>2. /\ v.q \in [LevelSet -> SUBSET (Chunks \X Nat)]
        /\ \A l \in LevelSet : \A t \in v.q[l] : LevelOf[t[1]] = l
    BY <2>1 DEF IsWorld
  <2>3. IsWorld(v) /\ Keyed(v, m)
    BY <2>1, <2>2, OnlyTheQueues
  <2> QED BY <1>3, <2>3 DEF v
<1>4. CASE cmd[1] = "reseed"
  <2>1. Do(w, cmd) = reseed(w)
    BY <1>4 DEF Do
  <2>2. IsWorld(reseed(w)) /\ Keyed(reseed(w), Unborn(w))
    BY ReseedDoes
  <2>3. Keyed(reseed(w), m \cup Unborn(w))
    BY <2>2, Wider
  <2> QED BY <1>4, <2>1, <2>2, <2>3
<1> QED BY <1>1, <1>2, <1>3, <1>4

(* The body of a tick asks for chunks, and what is in the inbox comes to   *)
(* live in the world.                                                      *)
LEMMA BodyDoes ==
  ASSUME NEW w, IsWorld(w), NEW m, Keyed(w, m), NEW asked, NEW now
  PROVE  IsWorld(Body(w, asked, now)) /\ Keyed(Body(w, asked, now), m)
<1> DEFINE v    == Body(w, asked, now)
           gone == UNION {Range(w.unload[l]) : l \in LevelSet}
           new  == {c \in asked : w.at[c] = "out"}
<1>1. /\ DOMAIN v = Fields
      /\ v.key = w.key /\ v.level = w.level /\ v.master = w.master
      /\ v.inbox = [l \in LevelSet |-> <<>>]
      /\ v.live = [l \in LevelSet |-> (w.live[l] \ gone) \cup Range(w.inbox[l])]
      /\ v.q = [l \in LevelSet |-> w.q[l] \cup {<<c, 1>> : c \in new \cap Of(l)}]
  BY DEF Body, IsWorld, Fields
<1> HIDE DEF v, gone, new
<1>2. \A l \in LevelSet : v.live[l] \cup Range(v.inbox[l]) \subseteq w.live[l] \cup Range(w.inbox[l])
  BY <1>1 DEF Range
<1>3. v.q \in [LevelSet -> SUBSET (Chunks \X Nat)]
  <2> SUFFICES ASSUME NEW l \in LevelSet
               PROVE  w.q[l] \cup {<<c, 1>> : c \in new \cap Of(l)} \subseteq Chunks \X Nat
    BY <1>1
  <2> QED BY DEF IsWorld, Of
<1>4. \A l \in LevelSet : \A t \in v.q[l] : LevelOf[t[1]] = l
  BY <1>1 DEF IsWorld, Of
<1>5. v.live \in [LevelSet -> SUBSET Chunks] /\ v.inbox \in [LevelSet -> Seq(Chunks)]
  BY <1>1, <1>2, HomeIsChunk
<1>6. IsWorld(v)
  BY <1>1, <1>2, <1>3, <1>4, <1>5 DEF IsWorld
<1>7. Keyed(v, m)
  BY <1>1, <1>2 DEF Keyed
<1> QED BY <1>6, <1>7 DEF v

(* Writes that land and histories that end change nothing of this.         *)
LEMMA OthersDo ==
  ASSUME NEW w, IsWorld(w), NEW m, Keyed(w, m), NEW l
  PROVE  \A v \in {Land(w, l), ioBarrierOf(w), Forget(w)} :
            IsWorld(v) /\ Keyed(v, m) /\ v.q = w.q
<1> SUFFICES ASSUME NEW v \in {Land(w, l), ioBarrierOf(w), Forget(w)}
             PROVE  IsWorld(v) /\ Keyed(v, m) /\ v.q = w.q
  OBVIOUS
<1>1. /\ DOMAIN v = Fields /\ v.q = w.q /\ v.inbox = w.inbox /\ v.live = w.live
      /\ v.key = w.key /\ v.level = w.level /\ v.master = w.master
  <2>1. CASE v = Land(w, l)
    BY <2>1 DEF Land, IsWorld, Fields
  <2>2. CASE v = ioBarrierOf(w)
    BY <2>2 DEF ioBarrierOf, LandAllOf, IsWorld, Fields
  <2>3. CASE v = Forget(w)
    BY <2>3 DEF Forget, IsWorld, Fields
  <2> QED BY <2>1, <2>2, <2>3
<1>2. /\ v.q \in [LevelSet -> SUBSET (Chunks \X Nat)]
      /\ \A k \in LevelSet : \A t \in v.q[k] : LevelOf[t[1]] = k
  BY <1>1 DEF IsWorld
<1> QED BY <1>1, <1>2, OnlyTheQueues

-----------------------------------------------------------------------------
(* Finite sets in order: that there is one sequence of each, and one only. *)

Linear(R, S) ==
  /\ \A x, y \in S : <<x, y>> \in R => <<y, x>> \notin R
  /\ \A x, y, z \in S : <<x, y>> \in R /\ <<y, z>> \in R => <<x, z>> \in R
  /\ \A x, y \in S : x # y => <<x, y>> \in R \/ <<y, x>> \in R

Along(s, S, R) ==
  /\ s \in Seq(S) /\ Range(s) = S
  /\ \A i, j \in DOMAIN s : i < j => <<s[i], s[j]>> \in R

LEMMA LinearBelow ==
  ASSUME NEW R, NEW S, Linear(R, S), NEW T \in SUBSET S
  PROVE  Linear(R, T)
BY DEF Linear

(* A finite set that is not empty has a first element.                     *)
LEMMA First ==
  ASSUME NEW R, NEW A, Linear(R, A), NEW S \in SUBSET A, IsFiniteSet(S), S # {}
  PROVE  \E m \in S : \A x \in S \ {m} : <<m, x>> \in R
<1> DEFINE Has(T) == \E m \in T : \A x \in T \ {m} : <<m, x>> \in R
           Bad == {n \in Nat : \E T \in SUBSET A : /\ IsFiniteSet(T) /\ Cardinality(T) = n
                                                   /\ T # {} /\ ~Has(T)}
<1>1. Bad = {}
  <2> SUFFICES ASSUME Bad # {} PROVE FALSE
    OBVIOUS
  <2>1. PICK n \in Bad : \A k \in Bad : n <= k
    <3>1. Bad \in SUBSET Nat
      OBVIOUS
    <3> HIDE DEF Bad
    <3> QED BY <3>1, Smallest
  <2>2. PICK T \in SUBSET A : IsFiniteSet(T) /\ Cardinality(T) = n /\ T # {} /\ ~Has(T)
    BY <2>1
  <2>3. PICK x \in T : TRUE
    BY <2>2
  <2> DEFINE U == T \ {x}
  <2>4. IsFiniteSet(U) /\ Cardinality(U) = n - 1 /\ n \in Nat
    BY <2>2, <2>3, FS_RemoveElement
  <2>5. CASE U = {}
    <3>1. \A y \in T \ {x} : <<x, y>> \in R
      BY <2>5
    <3> QED BY <2>2, <2>3, <3>1
  <2>6. CASE U # {}
    <3>1. Has(U)
      <4>1. n > 0
        BY <2>2, <2>4, FS_EmptySet
      <4>2. n - 1 \in Nat /\ ~(n <= n - 1)
        BY <2>4, <4>1
      <4>3. n - 1 \notin Bad
        BY <2>1, <4>2
      <4> QED BY <2>4, <2>6, <4>2, <4>3
    <3>2. PICK m \in U : \A y \in U \ {m} : <<m, y>> \in R
      BY <3>1
    <3>3. CASE <<x, m>> \in R
      <4>1. \A y \in T \ {x} : <<x, y>> \in R
        BY <2>3, <3>2, <3>3 DEF Linear
      <4> QED BY <2>2, <2>3, <4>1
    <3>4. CASE <<x, m>> \notin R
      <4>1. <<m, x>> \in R
        BY <2>3, <3>2, <3>4 DEF Linear
      <4>2. \A y \in T \ {m} : <<m, y>> \in R
        BY <3>2, <4>1
      <4> QED BY <2>2, <3>2, <4>2
    <3> QED BY <3>3, <3>4
  <2> QED BY <2>5, <2>6
<1>2. Cardinality(S) \notin Bad /\ Cardinality(S) \in Nat
  BY <1>1, FS_CardinalityType
<1> QED BY <1>2

(* What comes first, and then the rest in order.                           *)
LEMMA ConsIsAlong ==
  ASSUME NEW R, NEW S, NEW m \in S, \A x \in S \ {m} : <<m, x>> \in R,
         NEW s, Along(s, S \ {m}, R)
  PROVE  Along(<<m>> \o s, S, R)
<1> DEFINE t == <<m>> \o s
<1>1. s \in Seq(S \ {m}) /\ s \in Seq(S) /\ Range(s) = S \ {m} /\ Len(s) \in Nat
  BY DEF Along
<1>2. /\ t \in Seq(S) /\ Len(t) = Len(s) + 1 /\ t[1] = m
      /\ \A i \in 2..(Len(s) + 1) : t[i] = s[i - 1]
  BY <1>1
<1> HIDE DEF t
<1>3. DOMAIN s = 1..Len(s) /\ DOMAIN t = 1..(Len(s) + 1)
  BY <1>1, <1>2
<1>4. \A i \in 2..(Len(s) + 1) : i - 1 \in DOMAIN s /\ t[i] \in S \ {m}
  BY <1>1, <1>2, <1>3
<1>5. Range(t) = S
  <2>1. Range(t) \subseteq S
    BY <1>2, <1>3 DEF Range
  <2>2. ASSUME NEW x \in S PROVE x \in Range(t)
    <3>1. CASE x = m
      BY <1>2, <1>3, <3>1 DEF Range
    <3>2. CASE x # m
      <4>1. PICK i \in DOMAIN s : s[i] = x
        BY <1>1, <3>2 DEF Range
      <4>2. i + 1 \in 2..(Len(s) + 1) /\ t[i + 1] = x
        BY <1>1, <1>2, <1>3, <4>1
      <4> QED BY <1>1, <1>3, <4>2 DEF Range
    <3> QED BY <3>1, <3>2
  <2> QED BY <2>1, <2>2
<1>6. ASSUME NEW i \in DOMAIN t, NEW j \in DOMAIN t, i < j
      PROVE  <<t[i], t[j]>> \in R
  <2>1. j \in 2..(Len(s) + 1)
    BY <1>1, <1>3, <1>6
  <2>2. CASE i = 1
    BY <1>2, <1>4, <2>1, <2>2
  <2>3. CASE i # 1
    <3>1. i \in 2..(Len(s) + 1)
      BY <1>1, <1>3, <2>3
    <3>2. i - 1 \in DOMAIN s /\ j - 1 \in DOMAIN s /\ i - 1 < j - 1
      BY <1>4, <1>6, <2>1, <3>1
    <3>3. <<s[i - 1], s[j - 1]>> \in R
      BY <3>2 DEF Along
    <3> QED BY <1>2, <2>1, <3>1, <3>3
  <2> QED BY <2>2, <2>3
<1>7. t \in Seq(S) /\ Range(t) = S /\ \A i, j \in DOMAIN t : i < j => <<t[i], t[j]>> \in R
  BY <1>2, <1>5, <1>6
<1> QED BY <1>7 DEF Along, t

LEMMA EnumerationExists ==
  ASSUME NEW R, NEW A, Linear(R, A), NEW S \in SUBSET A, IsFiniteSet(S)
  PROVE  \E s : Along(s, S, R)
<1> DEFINE Bad == {n \in Nat : \E T \in SUBSET A : /\ IsFiniteSet(T) /\ Cardinality(T) = n
                                                   /\ ~\E s : Along(s, T, R)}
<1>1. Bad = {}
  <2> SUFFICES ASSUME Bad # {} PROVE FALSE
    OBVIOUS
  <2>1. PICK n \in Bad : \A k \in Bad : n <= k
    <3>1. Bad \in SUBSET Nat
      OBVIOUS
    <3> HIDE DEF Bad
    <3> QED BY <3>1, Smallest
  <2>2. PICK T \in SUBSET A : IsFiniteSet(T) /\ Cardinality(T) = n /\ ~\E s : Along(s, T, R)
    BY <2>1
  <2>3. T # {}
    <3> SUFFICES ASSUME T = {} PROVE Along(<<>>, T, R)
      BY <2>2
    <3> QED BY DEF Along, Range
  <2>4. PICK m \in T : \A x \in T \ {m} : <<m, x>> \in R
    BY <2>2, <2>3, First
  <2>5. IsFiniteSet(T \ {m}) /\ Cardinality(T \ {m}) = n - 1 /\ n \in Nat
    BY <2>2, <2>4, FS_RemoveElement
  <2>6. n - 1 \in Nat /\ n - 1 \notin Bad
    <3>1. n > 0
      BY <2>2, <2>3, <2>5, FS_EmptySet
    <3>2. n - 1 \in Nat /\ ~(n <= n - 1)
      BY <2>5, <3>1
    <3> QED BY <2>1, <3>2
  <2>7. PICK s : Along(s, T \ {m}, R)
    BY <2>5, <2>6
  <2>8. Along(<<m>> \o s, T, R)
    BY <2>4, <2>7, ConsIsAlong
  <2> QED BY <2>2, <2>8
<1>2. Cardinality(S) \notin Bad /\ Cardinality(S) \in Nat
  BY <1>1, FS_CardinalityType
<1> QED BY <1>2

(* No two enumerations differ anywhere.                                    *)
LEMMA PrefixOfTheOther ==
  ASSUME NEW R, NEW S, Linear(R, S), NEW s, Along(s, S, R), NEW t, Along(t, S, R)
  PROVE  \A i \in DOMAIN s : i \in DOMAIN t /\ t[i] = s[i]
<1> DEFINE Bad == {i \in DOMAIN s : ~(i \in DOMAIN t /\ t[i] = s[i])}
<1>1. /\ s \in Seq(S) /\ Range(s) = S /\ t \in Seq(S) /\ Range(t) = S
      /\ Len(s) \in Nat /\ Len(t) \in Nat
      /\ DOMAIN s = 1..Len(s) /\ DOMAIN t = 1..Len(t)
  BY DEF Along
<1>2. /\ \A i \in DOMAIN s : s[i] \in S
      /\ \A j \in DOMAIN t : t[j] \in S
  BY <1>1
<1>3. /\ \A i \in DOMAIN s : \E j \in DOMAIN t : t[j] = s[i]
      /\ \A j \in DOMAIN t : \E i \in DOMAIN s : s[i] = t[j]
  BY <1>1, <1>2 DEF Range
<1>4. /\ \A i, j \in DOMAIN s : i < j => <<s[i], s[j]>> \in R
      /\ \A i, j \in DOMAIN t : i < j => <<t[i], t[j]>> \in R
  BY DEF Along
<1>5. /\ \A x \in S : <<x, x>> \notin R
      /\ \A x, y \in S : <<x, y>> \in R => <<y, x>> \notin R
  BY DEF Linear
<1>6. Bad = {}
  <2> SUFFICES ASSUME Bad # {} PROVE FALSE
    OBVIOUS
  <2>1. PICK i \in Bad : \A k \in Bad : i <= k
    <3>1. Bad \in SUBSET Nat
      BY <1>1
    <3> HIDE DEF Bad
    <3> QED BY <3>1, Smallest
  <2>2. i \in DOMAIN s /\ i \in Nat /\ \A k \in DOMAIN s : k < i => k \in DOMAIN t /\ t[k] = s[k]
    <3>1. i \in DOMAIN s /\ DOMAIN s \subseteq Nat
      BY <1>1
    <3>2. \A k \in DOMAIN s : k < i => k \notin Bad
      BY <2>1, <3>1
    <3> QED BY <3>1, <3>2
  <2>3. PICK j \in DOMAIN t : t[j] = s[i]
    BY <1>3, <2>2
  <2>4. ~(j < i)
    <3> SUFFICES ASSUME j < i PROVE FALSE
      OBVIOUS
    <3>1. j \in DOMAIN s
      BY <1>1, <2>2, <2>3
    <3>2. s[j] = s[i] /\ <<s[j], s[i]>> \in R
      BY <1>4, <2>2, <2>3, <3>1
    <3> QED BY <1>2, <1>5, <2>2, <3>2
  <2>5. i \in DOMAIN t
    BY <1>1, <2>2, <2>3, <2>4
  <2>6. t[i] # s[i]
    BY <2>1, <2>5
  <2>7. i < j
    BY <1>1, <2>2, <2>3, <2>4, <2>6
  <2>8. <<t[i], s[i]>> \in R
    BY <1>4, <2>3, <2>5, <2>7
  <2>9. PICK k \in DOMAIN s : s[k] = t[i]
    BY <1>3, <2>5
  <2>10. CASE k < i
    <3>1. t[k] = t[i] /\ k \in DOMAIN t
      BY <2>2, <2>9, <2>10
    <3>2. <<t[k], t[i]>> \in R
      BY <1>4, <2>5, <2>10, <3>1
    <3> QED BY <1>2, <1>5, <2>5, <3>1, <3>2
  <2>11. CASE k = i
    BY <2>6, <2>9, <2>11
  <2>12. CASE i < k
    <3>1. <<s[i], t[i]>> \in R
      BY <1>4, <2>2, <2>9, <2>12
    <3> QED BY <1>2, <1>5, <2>2, <2>5, <2>8, <3>1
  <2> QED BY <1>1, <2>2, <2>9, <2>10, <2>11, <2>12
<1> QED BY <1>6

LEMMA EnumerationIsUnique ==
  ASSUME NEW R, NEW S, Linear(R, S), NEW s, Along(s, S, R), NEW t, Along(t, S, R)
  PROVE  s = t
<1>1. /\ s \in Seq(S) /\ t \in Seq(S) /\ Len(s) \in Nat /\ Len(t) \in Nat
      /\ DOMAIN s = 1..Len(s) /\ DOMAIN t = 1..Len(t)
  BY DEF Along
<1>2. /\ \A i \in DOMAIN s : i \in DOMAIN t /\ t[i] = s[i]
      /\ \A i \in DOMAIN t : i \in DOMAIN s /\ s[i] = t[i]
  BY PrefixOfTheOther
<1>3. Len(s) = Len(t)
  <2>1. Len(s) \in 1..Len(s) => Len(s) \in 1..Len(t)
    BY <1>1, <1>2
  <2>2. Len(t) \in 1..Len(t) => Len(t) \in 1..Len(s)
    BY <1>1, <1>2
  <2>3. ASSUME NEW m \in Nat, NEW n \in Nat, m \in 1..m => m \in 1..n, n \in 1..n => n \in 1..m
        PROVE  m = n
    BY <2>3
  <2>4. Len(s) \in Nat /\ Len(t) \in Nat
    BY <1>1
  <2> QED BY ONLY <2>1, <2>2, <2>3, <2>4
<1> QED BY <1>1, <1>2, <1>3, SeqEqual

(* It is as long as the set, and every increasing function of this length  *)
(* is the one.                                                             *)
LEMMA AlongIsInjective ==
  ASSUME NEW R, NEW S, Linear(R, S), NEW s, Along(s, S, R)
  PROVE  IsInjective(s)
<1>1. s \in Seq(S) /\ DOMAIN s = 1..Len(s) /\ Len(s) \in Nat
  BY DEF Along
<1>2. ASSUME NEW i \in DOMAIN s, NEW j \in DOMAIN s, s[i] = s[j]
      PROVE  i = j
  <2>1. s[i] \in S /\ <<s[i], s[i]>> \notin R
    BY <1>1 DEF Linear
  <2>2. ~(i < j) /\ ~(j < i)
    BY <1>2, <2>1 DEF Along
  <2> QED BY <1>1, <2>2
<1> QED BY <1>2 DEF IsInjective

LEMMA AlongHasTheLength ==
  ASSUME NEW R, NEW S, IsFiniteSet(S), Linear(R, S), NEW s, Along(s, S, R)
  PROVE  Len(s) = Cardinality(S) /\ s \in [1..Cardinality(S) -> S]
<1>1. s \in [1..Len(s) -> S] /\ Len(s) \in Nat /\ Range(s) = S /\ DOMAIN s = 1..Len(s)
  BY DEF Along
<1>2. \A i, j \in 1..Len(s) : s[i] = s[j] => i = j
  BY <1>1, AlongIsInjective DEF IsInjective
<1>3. s \in Bijection(1..Len(s), S)
  <2>1. \A x \in S : \E i \in 1..Len(s) : s[i] = x
    BY <1>1 DEF Range
  <2> QED BY <1>1, <1>2, <2>1 DEF Bijection, Injection, Surjection, IsInjective
<1>4. IsFiniteSet(1..Len(s)) /\ Cardinality(1..Len(s)) = Len(s)
  <2>1. 1 \in Int /\ Len(s) \in Int
    BY <1>1
  <2>2. /\ IsFiniteSet(1..Len(s))
        /\ Cardinality(1..Len(s)) = IF 1 > Len(s) THEN 0 ELSE Len(s) - 1 + 1
    BY <2>1, FS_Interval
  <2> QED BY <1>1, <2>2
<1>5. Cardinality(S) = Cardinality(1..Len(s))
  BY <1>3, <1>4, FS_Bijection DEF ExistsBijection
<1> QED BY <1>1, <1>4, <1>5

LEMMA IncreasingIsAlong ==
  ASSUME NEW R, NEW S, IsFiniteSet(S), Linear(R, S),
         NEW s \in [1..Cardinality(S) -> S],
         \A i, j \in DOMAIN s : i < j => <<s[i], s[j]>> \in R
  PROVE  Along(s, S, R)
<1> DEFINE n == Cardinality(S)
<1>1. n \in Nat /\ IsFiniteSet(1..n) /\ Cardinality(1..n) = n
  <2>1. n \in Nat
    BY FS_CardinalityType
  <2> QED BY <2>1, FS_Interval
<1>2. \A i, j \in 1..n : s[i] = s[j] => i = j
  <2> SUFFICES ASSUME NEW i \in 1..n, NEW j \in 1..n, s[i] = s[j]
               PROVE  i = j
    OBVIOUS
  <2>1. s[i] \in S /\ <<s[i], s[i]>> \notin R
    BY DEF Linear
  <2>2. ~(i < j) /\ ~(j < i)
    BY <2>1
  <2> QED BY <1>1, <2>2
<1>3. s \in Injection(1..n, S)
  BY <1>2 DEF Injection, IsInjective
<1>4. s \in Surjection(1..n, S)
  <2> HIDE DEF n
  <2>1. Cardinality(1..n) = Cardinality(S)
    BY <1>1 DEF n
  <2> QED BY <1>3, <2>1, FS_Injection
<1>5. Range(s) = S
  BY <1>4 DEF Surjection, Range
<1>6. s \in Seq(S)
  BY <1>1
<1> QED BY <1>5, <1>6 DEF Along

-----------------------------------------------------------------------------
(* What the operators of TickWork on sets and sequences return.            *)

LessOf   == {p \in Nat \X Nat : p[1] < p[2]}
BeforeOf == {p \in Chunks \X Chunks : Before(p[1], p[2])}

LEMMA LessIsLinear == Linear(LessOf, Nat)
<1>1. \A x, y \in Nat : <<x, y>> \in LessOf <=> x < y
  BY DEF LessOf
<1> HIDE DEF LessOf
<1> QED BY <1>1 DEF Linear

LEMMA BeforeIsLinear == Linear(BeforeOf, Chunks)
<1>1. \A x, y \in Chunks : <<x, y>> \in BeforeOf <=> Before(x, y)
  BY DEF BeforeOf
<1>2. \A x \in Chunks : x \in Nat /\ Priority[x] \in Nat
  BY WorkAssumption
<1>3. \A x, y \in Chunks : Before(x, y) <=>
          Priority[x] < Priority[y] \/ (Priority[x] = Priority[y] /\ x < y)
  BY DEF Before
<1>4. \A x, y \in Chunks : <<x, y>> \in BeforeOf => <<y, x>> \notin BeforeOf
  BY <1>1, <1>2, <1>3
<1>5. \A x, y, z \in Chunks : Before(x, y) /\ Before(y, z) => Before(x, z)
  BY <1>2, <1>3
<1>6. \A x, y \in Chunks : x # y => Before(x, y) \/ Before(y, x)
  BY <1>2, <1>3
<1> QED BY <1>1, <1>4, <1>5, <1>6 DEF Linear

LEMMA InOrderIs ==
  ASSUME NEW S \in SUBSET Nat, IsFiniteSet(S)
  PROVE  Along(InOrder(S), S, LessOf)
<1> DEFINE Rising(s) == \A i, j \in DOMAIN s : i < j => s[i] < s[j]
<1>1. Linear(LessOf, S)
  BY LessIsLinear, LinearBelow
<1>2. PICK s : Along(s, S, LessOf)
  BY LessIsLinear, EnumerationExists
<1>3. s \in [1..Cardinality(S) -> S] /\ Rising(s)
  <2>1. s \in [1..Cardinality(S) -> S]
    BY <1>1, <1>2, AlongHasTheLength
  <2> QED BY <1>2, <2>1 DEF Along, LessOf
<1>4. InOrder(S) \in [1..Cardinality(S) -> S] /\ Rising(InOrder(S))
  <2>1. InOrder(S) = CHOOSE t \in [1..Cardinality(S) -> S] : Rising(t)
    BY DEF InOrder
  <2> HIDE DEF Rising
  <2> QED BY <1>3, <2>1
<1>5. \A i, j \in DOMAIN InOrder(S) : i < j => <<InOrder(S)[i], InOrder(S)[j]>> \in LessOf
  BY <1>4 DEF LessOf
<1> QED BY <1>1, <1>4, <1>5, IncreasingIsAlong

LEMMA AsPoppedIs ==
  ASSUME NEW S \in SUBSET Chunks
  PROVE  Along(AsPopped(S), S, BeforeOf)
<1> DEFINE Rising(s) == \A i, j \in DOMAIN s : i < j => Before(s[i], s[j])
<1>0. IsFiniteSet(S)
  BY WorkAssumption, FS_Subset
<1>1. Linear(BeforeOf, S)
  BY BeforeIsLinear, LinearBelow
<1>2. PICK s : Along(s, S, BeforeOf)
  BY <1>0, BeforeIsLinear, EnumerationExists
<1>3. s \in [1..Cardinality(S) -> S] /\ Rising(s)
  <2>1. s \in [1..Cardinality(S) -> S]
    BY <1>0, <1>1, <1>2, AlongHasTheLength
  <2> QED BY <1>2, <2>1 DEF Along, BeforeOf
<1>4. AsPopped(S) \in [1..Cardinality(S) -> S] /\ Rising(AsPopped(S))
  <2>1. AsPopped(S) = CHOOSE t \in [1..Cardinality(S) -> S] : Rising(t)
    BY DEF AsPopped
  <2> HIDE DEF Rising
  <2> QED BY <1>3, <2>1
<1>5. \A i, j \in DOMAIN AsPopped(S) : i < j => <<AsPopped(S)[i], AsPopped(S)[j]>> \in BeforeOf
  BY <1>4 DEF BeforeOf
<1> QED BY <1>0, <1>1, <1>4, <1>5, IncreasingIsAlong

LEMMA AsPoppedOfNone == AsPopped({}) = <<>>
<1>1. AsPopped({}) \in Seq({})
  BY AsPoppedIs DEF Along
<1> QED BY <1>1

(* The next chunk to be popped comes first.                                *)
LEMMA AsPoppedOfMore ==
  ASSUME NEW S \in SUBSET Chunks, NEW m \in S, \A x \in S \ {m} : Before(m, x)
  PROVE  AsPopped(S) = <<m>> \o AsPopped(S \ {m})
<1>1. Along(AsPopped(S \ {m}), S \ {m}, BeforeOf)
  BY AsPoppedIs
<1>2. \A x \in S \ {m} : <<m, x>> \in BeforeOf
  BY DEF BeforeOf
<1>3. Along(<<m>> \o AsPopped(S \ {m}), S, BeforeOf)
  BY <1>1, <1>2, ConsIsAlong
<1>4. Linear(BeforeOf, S) /\ Along(AsPopped(S), S, BeforeOf)
  BY BeforeIsLinear, LinearBelow, AsPoppedIs
<1> QED BY <1>3, <1>4, EnumerationIsUnique

-----------------------------------------------------------------------------
(* The writes that unloads wait for.                                       *)

Writes == Chunks \X BOOLEAN

UnloadsAt(s) == {i \in DOMAIN s : s[i][2]}

LEMMA PositionsAre ==
  ASSUME NEW s \in Seq(Writes)
  PROVE  /\ UnloadsAt(s) \in SUBSET Nat /\ IsFiniteSet(UnloadsAt(s))
         /\ Along(InOrder(UnloadsAt(s)), UnloadsAt(s), LessOf)
<1>1. DOMAIN s = 1..Len(s) /\ Len(s) \in Nat
  OBVIOUS
<1>2. IsFiniteSet(DOMAIN s)
  BY <1>1, FS_Interval
<1>3. UnloadsAt(s) \in SUBSET DOMAIN s /\ UnloadsAt(s) \in SUBSET Nat
  BY <1>1 DEF UnloadsAt
<1>4. IsFiniteSet(UnloadsAt(s))
  BY <1>2, <1>3, FS_Subset
<1> QED BY <1>3, <1>4, InOrderIs

LEMMA UnloadsIs ==
  ASSUME NEW s \in Seq(Writes), NEW at, Along(at, UnloadsAt(s), LessOf)
  PROVE  /\ at \in Seq(UnloadsAt(s)) /\ \A k \in DOMAIN at : at[k] \in UnloadsAt(s)
         /\ Unloads(s) \in Seq(Writes) /\ DOMAIN Unloads(s) = DOMAIN at
         /\ Len(Unloads(s)) = Len(at)
         /\ \A k \in DOMAIN at : Unloads(s)[k] = s[at[k]] /\ s[at[k]][2]
<1>1. UnloadsAt(s) \in SUBSET Nat /\ Along(InOrder(UnloadsAt(s)), UnloadsAt(s), LessOf)
  BY PositionsAre
<1>2. Linear(LessOf, UnloadsAt(s))
  BY <1>1, LessIsLinear, LinearBelow
<1>3. InOrder(UnloadsAt(s)) = at
  BY <1>1, <1>2, EnumerationIsUnique
<1>4. Unloads(s) = [k \in DOMAIN at |-> s[at[k]]]
  BY <1>3 DEF Unloads, UnloadsAt
<1>5. at \in Seq(UnloadsAt(s)) /\ DOMAIN at = 1..Len(at) /\ Len(at) \in Nat
  BY DEF Along
<1>6. \A k \in DOMAIN at : at[k] \in UnloadsAt(s)
  BY <1>5
<1>7. \A k \in DOMAIN at : at[k] \in DOMAIN s /\ s[at[k]] \in Writes /\ s[at[k]][2]
  BY <1>6 DEF UnloadsAt
<1>8. Unloads(s) \in [1..Len(at) -> Writes]
  BY <1>4, <1>5, <1>7
<1>9. Unloads(s) \in Seq(Writes) /\ Len(Unloads(s)) = Len(at)
  BY <1>5, <1>8
<1> QED BY <1>4, <1>5, <1>6, <1>7, <1>9

(* They are writes that unloads wait for.                                  *)
LEMMA UnloadsAreTyped ==
  ASSUME NEW s \in Seq(Writes)
  PROVE  /\ Unloads(s) \in Seq(Writes)
         /\ \A k \in DOMAIN Unloads(s) : Unloads(s)[k][2] /\ \E i \in DOMAIN s : Unloads(s)[k] = s[i]
<1> DEFINE at == InOrder(UnloadsAt(s))
<1>1. Along(at, UnloadsAt(s), LessOf)
  BY PositionsAre
<1> HIDE DEF at
<1>2. /\ Unloads(s) \in Seq(Writes) /\ DOMAIN Unloads(s) = DOMAIN at
      /\ \A k \in DOMAIN at : at[k] \in UnloadsAt(s)
      /\ \A k \in DOMAIN at : Unloads(s)[k] = s[at[k]] /\ s[at[k]][2]
  BY <1>1, UnloadsIs
<1> QED BY <1>2 DEF UnloadsAt

(* All or none of s.                                                       *)
LEMMA UnloadsOfAll ==
  ASSUME NEW s \in Seq(Writes), \A i \in DOMAIN s : s[i][2]
  PROVE  Unloads(s) = s
<1> DEFINE at == [i \in 1..Len(s) |-> i]
<1>1. Len(s) \in Nat /\ DOMAIN s = 1..Len(s) /\ UnloadsAt(s) = 1..Len(s)
  BY DEF UnloadsAt
<1>2. at \in [1..Len(s) -> 1..Len(s)]
  OBVIOUS
<1>3. at \in Seq(1..Len(s)) /\ DOMAIN at = 1..Len(s) /\ Len(at) = Len(s)
  BY <1>1, <1>2
<1>4. Range(at) = 1..Len(s)
  BY DEF Range
<1>5. \A i, j \in DOMAIN at : i < j => <<at[i], at[j]>> \in LessOf
  BY <1>1 DEF LessOf
<1>6. Along(at, UnloadsAt(s), LessOf)
  <2> HIDE DEF at
  <2> QED BY <1>1, <1>3, <1>4, <1>5 DEF Along
<1>7. /\ Unloads(s) \in Seq(Writes) /\ Len(Unloads(s)) = Len(s)
      /\ \A k \in 1..Len(s) : Unloads(s)[k] = s[at[k]]
  BY <1>3, <1>6, UnloadsIs
<1>8. \A k \in 1..Len(s) : Unloads(s)[k] = s[k]
  BY <1>7
<1> QED BY <1>7, <1>8, SeqEqual

LEMMA UnloadsOfNone ==
  ASSUME NEW s \in Seq(Writes), \A i \in DOMAIN s : ~s[i][2]
  PROVE  Unloads(s) = <<>>
<1>1. UnloadsAt(s) = {} /\ Along(<<>>, UnloadsAt(s), LessOf)
  BY DEF UnloadsAt, Along, Range
<1>2. Unloads(s) \in Seq(Writes) /\ Len(Unloads(s)) = Len(<<>>)
  BY <1>1, UnloadsIs
<1> QED BY <1>2

(* One sequence after another.                                             *)
LEMMA UnloadsOfBoth ==
  ASSUME NEW s \in Seq(Writes), NEW t \in Seq(Writes)
  PROVE  Unloads(s \o t) = Unloads(s) \o Unloads(t)
<1> DEFINE a == InOrder(UnloadsAt(s))
           b == InOrder(UnloadsAt(t))
           u == s \o t
           c == [k \in 1..(Len(a) + Len(b)) |-> IF k <= Len(a) THEN a[k]
                                                ELSE Len(s) + b[k - Len(a)]]
<1>1. Along(a, UnloadsAt(s), LessOf) /\ Along(b, UnloadsAt(t), LessOf)
  BY PositionsAre
<1> HIDE DEF a, b
<1>2. /\ Unloads(s) \in Seq(Writes) /\ DOMAIN Unloads(s) = DOMAIN a /\ Len(Unloads(s)) = Len(a)
      /\ \A k \in DOMAIN a : a[k] \in UnloadsAt(s) /\ Unloads(s)[k] = s[a[k]]
  BY <1>1, UnloadsIs
<1>3. /\ Unloads(t) \in Seq(Writes) /\ DOMAIN Unloads(t) = DOMAIN b /\ Len(Unloads(t)) = Len(b)
      /\ \A k \in DOMAIN b : b[k] \in UnloadsAt(t) /\ Unloads(t)[k] = t[b[k]]
  BY <1>1, UnloadsIs
<1>4. /\ Len(a) \in Nat /\ DOMAIN a = 1..Len(a) /\ Len(b) \in Nat /\ DOMAIN b = 1..Len(b)
      /\ Len(s) \in Nat /\ DOMAIN s = 1..Len(s) /\ Len(t) \in Nat /\ DOMAIN t = 1..Len(t)
  BY <1>1 DEF Along
<1>5. /\ u \in Seq(Writes) /\ Len(u) = Len(s) + Len(t) /\ DOMAIN u = 1..(Len(s) + Len(t))
      /\ \A i \in DOMAIN s : u[i] = s[i]
      /\ \A i \in DOMAIN t : u[Len(s) + i] = t[i]
  OBVIOUS
<1> HIDE DEF u
<1>6. /\ \A k \in DOMAIN a : a[k] \in 1..Len(s) /\ s[a[k]][2]
      /\ \A k \in DOMAIN b : b[k] \in 1..Len(t) /\ t[b[k]][2]
  BY <1>2, <1>3, <1>4 DEF UnloadsAt
<1>7. /\ \A k \in 1..Len(a) : c[k] = a[k]
      /\ \A k \in 1..Len(b) : c[Len(a) + k] = Len(s) + b[k]
      /\ DOMAIN c = 1..(Len(a) + Len(b))
  BY <1>4
<1>8. \A k \in 1..(Len(a) + Len(b)) : k \in 1..Len(a) \/ \E j \in 1..Len(b) : k = Len(a) + j
  <2> SUFFICES ASSUME NEW k \in 1..(Len(a) + Len(b)), k \notin 1..Len(a)
               PROVE  \E j \in 1..Len(b) : k = Len(a) + j
    OBVIOUS
  <2>1. k - Len(a) \in 1..Len(b) /\ k = Len(a) + (k - Len(a))
    BY <1>4
  <2> QED BY <2>1
<1> HIDE DEF c
<1>9. /\ \A k \in 1..Len(a) : c[k] \in UnloadsAt(u) /\ u[c[k]] = s[a[k]]
      /\ \A k \in 1..Len(b) : c[Len(a) + k] \in UnloadsAt(u) /\ u[c[Len(a) + k]] = t[b[k]]
  <2>1. ASSUME NEW k \in 1..Len(a)
        PROVE  c[k] \in UnloadsAt(u) /\ u[c[k]] = s[a[k]]
    <3>1. a[k] \in DOMAIN s /\ a[k] \in DOMAIN u /\ s[a[k]][2]
      BY <1>4, <1>5, <1>6
    <3> QED BY <1>5, <1>7, <3>1 DEF UnloadsAt
  <2>2. ASSUME NEW k \in 1..Len(b)
        PROVE  c[Len(a) + k] \in UnloadsAt(u) /\ u[c[Len(a) + k]] = t[b[k]]
    <3>1. b[k] \in DOMAIN t /\ Len(s) + b[k] \in DOMAIN u /\ t[b[k]][2]
      BY <1>4, <1>5, <1>6
    <3> QED BY <1>5, <1>7, <3>1 DEF UnloadsAt
  <2> QED BY <2>1, <2>2
<1>10. Along(c, UnloadsAt(u), LessOf)
  <2>1. \A k \in DOMAIN c : c[k] \in UnloadsAt(u)
    BY <1>7, <1>8, <1>9
  <2>2. c \in Seq(UnloadsAt(u))
    <3>1. c \in [1..(Len(a) + Len(b)) -> UnloadsAt(u)]
      <4>1. c = [k \in 1..(Len(a) + Len(b)) |-> c[k]]
        BY DEF c
      <4> QED BY <1>7, <2>1, <4>1
    <3> QED BY <1>4, <3>1
  <2>3. ASSUME NEW i \in UnloadsAt(u) PROVE i \in Range(c)
    <3>1. i \in 1..(Len(s) + Len(t)) /\ u[i][2]
      BY <1>5 DEF UnloadsAt
    <3>2. CASE i \in 1..Len(s)
      <4>1. i \in UnloadsAt(s)
        BY <1>4, <1>5, <3>1, <3>2 DEF UnloadsAt
      <4>2. PICK k \in DOMAIN a : a[k] = i
        BY <1>1, <4>1 DEF Along, Range
      <4>3. k \in DOMAIN c /\ c[k] = i
        BY <1>4, <1>7, <4>2
      <4> QED BY <4>3 DEF Range
    <3>3. CASE i \notin 1..Len(s)
      <4> DEFINE j == i - Len(s)
      <4>1. j \in 1..Len(t) /\ i = Len(s) + j
        BY <1>4, <3>1, <3>3
      <4> HIDE DEF j
      <4>2. j \in UnloadsAt(t)
        BY <1>4, <1>5, <3>1, <4>1 DEF UnloadsAt
      <4>3. PICK k \in DOMAIN b : b[k] = j
        BY <1>1, <4>2 DEF Along, Range
      <4>4. Len(a) + k \in DOMAIN c /\ c[Len(a) + k] = i
        BY <1>4, <1>7, <4>1, <4>3
      <4> QED BY <4>4 DEF Range
    <3> QED BY <3>2, <3>3
  <2>4. Range(c) = UnloadsAt(u)
    BY <2>1, <2>3 DEF Range
  <2>5. ASSUME NEW i \in DOMAIN c, NEW j \in DOMAIN c, i < j
        PROVE  <<c[i], c[j]>> \in LessOf
    <3>1. CASE i \in 1..Len(a) /\ j \in 1..Len(a)
      <4>1. <<a[i], a[j]>> \in LessOf
        BY <1>1, <1>4, <2>5, <3>1 DEF Along
      <4> QED BY <1>7, <3>1, <4>1
    <3>2. CASE i \in 1..Len(a) /\ j \notin 1..Len(a)
      <4>1. PICK k \in 1..Len(b) : j = Len(a) + k
        BY <1>7, <1>8, <3>2
      <4>2. c[i] \in 1..Len(s) /\ c[j] = Len(s) + b[k] /\ b[k] \in 1..Len(t)
        BY <1>4, <1>6, <1>7, <3>2, <4>1
      <4> QED BY <1>4, <4>2 DEF LessOf
    <3>3. CASE i \notin 1..Len(a)
      <4>1. PICK k \in 1..Len(b) : i = Len(a) + k
        BY <1>7, <1>8, <3>3
      <4>2. j \notin 1..Len(a)
        BY <1>4, <2>5, <4>1
      <4>3. PICK l \in 1..Len(b) : j = Len(a) + l
        BY <1>7, <1>8, <4>2
      <4>4. k < l
        BY <1>4, <2>5, <4>1, <4>3
      <4>5. <<b[k], b[l]>> \in LessOf
        BY <1>1, <1>4, <4>4 DEF Along
      <4>6. b[k] < b[l] /\ b[k] \in Nat /\ b[l] \in Nat
        BY <4>5 DEF LessOf
      <4>7. c[i] = Len(s) + b[k] /\ c[j] = Len(s) + b[l]
        BY <1>7, <4>1, <4>3
      <4> QED BY <1>4, <4>6, <4>7 DEF LessOf
    <3> QED BY <3>1, <3>2, <3>3
  <2> QED BY <2>2, <2>4, <2>5 DEF Along
<1>11. /\ Unloads(u) \in Seq(Writes) /\ Len(Unloads(u)) = Len(c)
       /\ \A k \in DOMAIN c : Unloads(u)[k] = u[c[k]]
  BY <1>5, <1>10, UnloadsIs
<1>12. Len(c) = Len(a) + Len(b)
  BY <1>4, <1>7, <1>10 DEF Along
<1> DEFINE v == Unloads(s) \o Unloads(t)
<1>13. /\ v \in Seq(Writes) /\ Len(v) = Len(a) + Len(b)
       /\ \A k \in 1..Len(a) : v[k] = Unloads(s)[k]
       /\ \A k \in 1..Len(b) : v[Len(a) + k] = Unloads(t)[k]
  <2>1. ASSUME NEW x \in Seq(Writes), NEW y \in Seq(Writes)
        PROVE  /\ x \o y \in Seq(Writes) /\ Len(x \o y) = Len(x) + Len(y)
               /\ \A k \in 1..Len(x) : (x \o y)[k] = x[k]
               /\ \A k \in 1..Len(y) : (x \o y)[Len(x) + k] = y[k]
    OBVIOUS
  <2>2. /\ v \in Seq(Writes) /\ Len(v) = Len(Unloads(s)) + Len(Unloads(t))
        /\ \A k \in 1..Len(Unloads(s)) : v[k] = Unloads(s)[k]
        /\ \A k \in 1..Len(Unloads(t)) : v[Len(Unloads(s)) + k] = Unloads(t)[k]
    <3>1. Unloads(s) \in Seq(Writes) /\ Unloads(t) \in Seq(Writes)
      BY <1>2, <1>3
    <3> QED BY ONLY <2>1, <3>1
  <2>3. Len(Unloads(s)) = Len(a) /\ Len(Unloads(t)) = Len(b)
    BY <1>2, <1>3
  <2> HIDE DEF v
  <2> QED BY ONLY <2>2, <2>3
<1> HIDE DEF v
<1>14. \A k \in 1..Len(c) : Unloads(u)[k] = v[k]
  <2>1. \A k \in 1..Len(a) : k \in DOMAIN c /\ Unloads(u)[k] = v[k]
    <3>1. \A k \in 1..Len(a) : k \in DOMAIN c /\ k \in DOMAIN a
      BY <1>4, <1>7
    <3> QED BY <1>2, <1>9, <1>11, <1>13, <3>1
  <2>2. \A k \in 1..Len(b) : Len(a) + k \in DOMAIN c /\ Unloads(u)[Len(a) + k] = v[Len(a) + k]
    <3>1. \A k \in 1..Len(b) : Len(a) + k \in DOMAIN c /\ k \in DOMAIN b
      BY <1>4, <1>7
    <3>2. ASSUME NEW k \in 1..Len(b)
          PROVE  Unloads(u)[Len(a) + k] = t[b[k]] /\ v[Len(a) + k] = t[b[k]]
      BY <1>3, <1>9, <1>11, <1>13, <3>1
    <3> QED BY <3>1, <3>2
  <2> QED BY <1>8, <1>12, <2>1, <2>2
<1>15. Unloads(u) = v
  BY <1>11, <1>12, <1>13, <1>14, SeqEqual
<1> QED BY <1>15 DEF u, v

-----------------------------------------------------------------------------
(* Sequences that name nothing twice.                                      *)

LEMMA InjectiveBoth ==
  ASSUME NEW S, NEW s \in Seq(S), NEW t \in Seq(S)
  PROVE  /\ Range(s \o t) = Range(s) \cup Range(t)
         /\ IsInjective(s \o t) <=>
              IsInjective(s) /\ IsInjective(t) /\ Range(s) \cap Range(t) = {}
<1> DEFINE u == s \o t
<1>1. /\ Len(s) \in Nat /\ DOMAIN s = 1..Len(s) /\ Len(t) \in Nat /\ DOMAIN t = 1..Len(t)
      /\ DOMAIN u = 1..(Len(s) + Len(t))
      /\ \A i \in 1..Len(s) : u[i] = s[i]
      /\ \A i \in 1..Len(t) : u[Len(s) + i] = t[i]
  OBVIOUS
<1> HIDE DEF u
<1>2. /\ \A i \in 1..Len(s) : i \in DOMAIN u
      /\ \A i \in 1..Len(t) : Len(s) + i \in DOMAIN u
      /\ \A k \in DOMAIN u : k \in 1..Len(s) \/ \E i \in 1..Len(t) : k = Len(s) + i
  <2>1. ASSUME NEW k \in DOMAIN u, k \notin 1..Len(s)
        PROVE  \E i \in 1..Len(t) : k = Len(s) + i
    <3>1. k - Len(s) \in 1..Len(t) /\ k = Len(s) + (k - Len(s))
      BY <1>1, <2>1
    <3> QED BY <3>1
  <2> QED BY <1>1, <2>1
<1>3. Range(u) = Range(s) \cup Range(t)
  <2>1. ASSUME NEW x \in Range(u) PROVE x \in Range(s) \cup Range(t)
    <3>1. PICK k \in DOMAIN u : x = u[k]
      BY DEF Range
    <3>2. CASE k \in 1..Len(s)
      BY <1>1, <3>1, <3>2 DEF Range
    <3>3. CASE \E i \in 1..Len(t) : k = Len(s) + i
      BY <1>1, <3>1, <3>3 DEF Range
    <3> QED BY <1>2, <3>2, <3>3
  <2>2. \A x \in Range(s) \cup Range(t) : x \in Range(u)
    BY <1>1, <1>2 DEF Range
  <2> QED BY <2>1, <2>2
<1>4. ASSUME IsInjective(u)
      PROVE  IsInjective(s) /\ IsInjective(t) /\ Range(s) \cap Range(t) = {}
  <2>1. \A i, j \in DOMAIN u : u[i] = u[j] => i = j
    BY <1>4 DEF IsInjective
  <2>2. \A i, j \in DOMAIN s : s[i] = s[j] => i = j
    BY <1>1, <1>2, <2>1
  <2>3. ASSUME NEW i \in DOMAIN t, NEW j \in DOMAIN t, t[i] = t[j] PROVE i = j
    <3>1. Len(s) + i \in DOMAIN u /\ Len(s) + j \in DOMAIN u /\ u[Len(s) + i] = u[Len(s) + j]
      BY <1>1, <1>2, <2>3
    <3>2. Len(s) + i = Len(s) + j
      BY <2>1, <3>1
    <3> QED BY <1>1, <3>2
  <2>4. ASSUME NEW i \in DOMAIN s, NEW j \in DOMAIN t, s[i] = t[j] PROVE FALSE
    <3>1. i \in DOMAIN u /\ Len(s) + j \in DOMAIN u /\ u[i] = u[Len(s) + j]
      BY <1>1, <1>2, <2>4
    <3>2. i = Len(s) + j
      BY <2>1, <3>1
    <3> QED BY <1>1, <3>2
  <2> QED BY <2>2, <2>3, <2>4 DEF IsInjective, Range
<1>5. ASSUME IsInjective(s), IsInjective(t), Range(s) \cap Range(t) = {}
      PROVE  IsInjective(u)
  <2>1. /\ \A i, j \in DOMAIN s : s[i] = s[j] => i = j
        /\ \A i, j \in DOMAIN t : t[i] = t[j] => i = j
        /\ \A i \in DOMAIN s : \A j \in DOMAIN t : s[i] # t[j]
    BY <1>5 DEF IsInjective, Range
  <2>2. ASSUME NEW i \in DOMAIN u, NEW j \in DOMAIN u, u[i] = u[j] PROVE i = j
    <3>1. CASE i \in 1..Len(s) /\ j \in 1..Len(s)
      BY <1>1, <2>1, <2>2, <3>1
    <3>2. CASE i \in 1..Len(s) /\ j \notin 1..Len(s)
      <4>1. PICK b \in 1..Len(t) : j = Len(s) + b
        BY <1>2, <3>2
      <4> QED BY <1>1, <2>1, <2>2, <3>2, <4>1
    <3>3. CASE i \notin 1..Len(s) /\ j \in 1..Len(s)
      <4>1. PICK a \in 1..Len(t) : i = Len(s) + a
        BY <1>2, <3>3
      <4> QED BY <1>1, <2>1, <2>2, <3>3, <4>1
    <3>4. CASE i \notin 1..Len(s) /\ j \notin 1..Len(s)
      <4>1. PICK a \in 1..Len(t) : i = Len(s) + a
        BY <1>2, <3>4
      <4>2. PICK b \in 1..Len(t) : j = Len(s) + b
        BY <1>2, <3>4
      <4> QED BY <1>1, <2>1, <2>2, <4>1, <4>2
    <3> QED BY <3>1, <3>2, <3>3, <3>4
  <2> QED BY <2>2 DEF IsInjective
<1> QED BY <1>3, <1>4, <1>5 DEF u

LEMMA InjectiveOne ==
  ASSUME NEW S, NEW s \in Seq(S), NEW x \in S
  PROVE  /\ Append(s, x) = s \o <<x>> /\ <<x>> \in Seq(S) /\ Range(<<x>>) = {x}
         /\ IsInjective(s) /\ x \notin Range(s) => IsInjective(Append(s, x))
<1>1. Append(s, x) = s \o <<x>> /\ <<x>> \in Seq(S)
  OBVIOUS
<1>2. Range(<<x>>) = {x} /\ IsInjective(<<x>>)
  BY DEF Range, IsInjective
<1> HIDE DEF IsInjective
<1>3. IsInjective(s) /\ Range(s) \cap Range(<<x>>) = {} => IsInjective(s \o <<x>>)
  BY <1>1, <1>2, InjectiveBoth
<1> QED BY <1>1, <1>2, <1>3

-----------------------------------------------------------------------------
(* The chunks whose unload waits, on the IO workers or already on the      *)
(* queue of unloads, in order.                                             *)

Names(s) == [k \in DOMAIN Unloads(s) |-> Unloads(s)[k][1]]

LEMMA NamesAre ==
  ASSUME NEW s \in Seq(Writes)
  PROVE  /\ Names(s) \in Seq(Chunks) /\ Len(Names(s)) = Len(Unloads(s))
         /\ DOMAIN Names(s) = 1..Len(Unloads(s)) /\ Len(Unloads(s)) \in Nat
         /\ \A k \in 1..Len(Unloads(s)) : Names(s)[k] = Unloads(s)[k][1]
<1>1. Unloads(s) \in Seq(Writes)
  BY UnloadsAreTyped
<1>2. DOMAIN Unloads(s) = 1..Len(Unloads(s)) /\ Len(Unloads(s)) \in Nat
  BY <1>1
<1>3. \A k \in DOMAIN Unloads(s) : Unloads(s)[k][1] \in Chunks
  BY <1>1 DEF Writes
<1>4. Names(s) \in [1..Len(Unloads(s)) -> Chunks]
  BY <1>2, <1>3 DEF Names
<1> QED BY <1>2, <1>4 DEF Names

LEMMA NamesOfBoth ==
  ASSUME NEW s \in Seq(Writes), NEW t \in Seq(Writes)
  PROVE  Names(s \o t) = Names(s) \o Names(t)
<1> DEFINE u == s \o t
           a == Unloads(s)
           b == Unloads(t)
<1>1. u \in Seq(Writes) /\ Unloads(u) = a \o b /\ a \in Seq(Writes) /\ b \in Seq(Writes)
  <2>1. u \in Seq(Writes) /\ a \in Seq(Writes) /\ b \in Seq(Writes)
    BY UnloadsAreTyped
  <2> QED BY <2>1, UnloadsOfBoth
<1>2. /\ Names(s) \in Seq(Chunks) /\ Len(Names(s)) = Len(a) /\ Len(a) \in Nat
      /\ \A k \in 1..Len(a) : Names(s)[k] = a[k][1]
  BY NamesAre
<1>3. /\ Names(t) \in Seq(Chunks) /\ Len(Names(t)) = Len(b) /\ Len(b) \in Nat
      /\ \A k \in 1..Len(b) : Names(t)[k] = b[k][1]
  BY NamesAre
<1> HIDE DEF u, a, b
<1>4. /\ Names(u) \in Seq(Chunks) /\ Len(Names(u)) = Len(a \o b)
      /\ \A k \in 1..Len(a \o b) : Names(u)[k] = (a \o b)[k][1]
  BY <1>1, NamesAre
<1>5. /\ Len(a \o b) = Len(a) + Len(b)
      /\ \A k \in 1..Len(a) : (a \o b)[k] = a[k]
      /\ \A k \in 1..Len(b) : (a \o b)[Len(a) + k] = b[k]
  BY ONLY <1>1
<1> DEFINE v == Names(s) \o Names(t)
<1>6. /\ v \in Seq(Chunks) /\ Len(v) = Len(a) + Len(b)
      /\ \A k \in 1..Len(a) : v[k] = a[k][1]
      /\ \A k \in 1..Len(b) : v[Len(a) + k] = b[k][1]
  <2>1. ASSUME NEW x \in Seq(Chunks), NEW y \in Seq(Chunks)
        PROVE  /\ x \o y \in Seq(Chunks) /\ Len(x \o y) = Len(x) + Len(y)
               /\ \A k \in 1..Len(x) : (x \o y)[k] = x[k]
               /\ \A k \in 1..Len(y) : (x \o y)[Len(x) + k] = y[k]
    OBVIOUS
  <2>2. /\ v \in Seq(Chunks) /\ Len(v) = Len(Names(s)) + Len(Names(t))
        /\ \A k \in 1..Len(Names(s)) : v[k] = Names(s)[k]
        /\ \A k \in 1..Len(Names(t)) : v[Len(Names(s)) + k] = Names(t)[k]
    <3>1. Names(s) \in Seq(Chunks) /\ Names(t) \in Seq(Chunks)
      BY <1>2, <1>3
    <3> QED BY ONLY <2>1, <3>1
  <2> HIDE DEF v
  <2> QED BY <1>2, <1>3, <2>2
<1> HIDE DEF v
<1>7. \A k \in 1..(Len(a) + Len(b)) : Names(u)[k] = v[k]
  <2> SUFFICES ASSUME NEW k \in 1..(Len(a) + Len(b)) PROVE Names(u)[k] = v[k]
    OBVIOUS
  <2>1. CASE k \in 1..Len(a)
    <3>1. k \in 1..Len(a \o b)
      BY <1>2, <1>3, <1>5, <2>1
    <3>2. Names(u)[k] = (a \o b)[k][1] /\ (a \o b)[k] = a[k]
      BY <1>4, <1>5, <2>1, <3>1
    <3> QED BY <1>6, <2>1, <3>2
  <2>2. CASE k \notin 1..Len(a)
    <3> DEFINE j == k - Len(a)
    <3>1. j \in 1..Len(b) /\ k = Len(a) + j /\ k \in 1..Len(a \o b)
      BY <1>2, <1>3, <1>5, <2>2
    <3> HIDE DEF j
    <3> QED BY <1>4, <1>5, <1>6, <3>1
  <2> QED BY <2>1, <2>2
<1>8. Names(u) = v
  BY <1>4, <1>5, <1>6, <1>7, SeqEqual
<1> QED BY <1>8 DEF u, v

LEMMA NamesOfOne ==
  ASSUME NEW x \in Writes
  PROVE  Names(<<x>>) = IF x[2] THEN <<x[1]>> ELSE <<>>
<1>1. <<x>> \in Seq(Writes)
  OBVIOUS
<1>2. CASE x[2]
  <2>1. Unloads(<<x>>) = <<x>>
    <3>1. \A i \in DOMAIN <<x>> : <<x>>[i][2]
      BY <1>2
    <3> QED BY <1>1, <3>1, UnloadsOfAll
  <2> QED BY <1>2, <2>1 DEF Names
<1>3. CASE ~x[2]
  <2>1. Unloads(<<x>>) = <<>>
    <3>1. \A i \in DOMAIN <<x>> : ~<<x>>[i][2]
      BY <1>3
    <3> QED BY <1>1, <3>1, UnloadsOfNone
  <2> QED BY <1>3, <2>1 DEF Names
<1> QED BY <1>2, <1>3

LEMMA NamesOfNone == Names(<<>>) = <<>> /\ Unloads(<<>>) = <<>>
<1>1. Unloads(<<>>) = <<>>
  <2>1. <<>> \in Seq(Writes) /\ \A i \in DOMAIN <<>> : ~<<>>[i][2]
    OBVIOUS
  <2> QED BY <2>1, UnloadsOfNone
<1> QED BY <1>1 DEF Names

LEMMA UnloadsTwice ==
  ASSUME NEW s \in Seq(Writes)
  PROVE  Unloads(Unloads(s)) = Unloads(s) /\ Names(Unloads(s)) = Names(s)
<1>1. Unloads(Unloads(s)) = Unloads(s)
  BY UnloadsAreTyped, UnloadsOfAll
<1> QED BY <1>1 DEF Names

-----------------------------------------------------------------------------
(* Where the chunks are: on the way in as long as a task of theirs is on   *)
(* the queue, once; once in the inbox, from their first task on; and their *)
(* unload waits once, from the tick that leaves them to the tick that      *)
(* takes it.                                                               *)

Places  == {"out", "coming", "in", "leaving", "saving"}
Entries == ({"load", "in"} \X Chunks)
             \cup {<<"tick", out, unload, due, inbox>> :
                      out \in SUBSET Chunks, unload \in Seq(Chunks),
                      due \in SUBSET Chunks, inbox \in Seq(Chunks)}

Waiting(w, l) == w.unload[l] \o Names(w.writes[l])

Ranged(w) ==
  /\ w.at \in [Chunks -> Places] /\ w.log \in [LevelSet -> Seq(Entries)]
  /\ w.writes \in [LevelSet -> Seq(Writes)] /\ w.unload \in [LevelSet -> Seq(Chunks)]
Queued(w) ==
  \A l \in LevelSet :
    /\ \A t \in w.q[l] : w.at[t[1]] = "coming" /\ t[2] \in 1..Steps[t[1]]
    /\ \A t, u \in w.q[l] : t[1] = u[1] => t = u
Comes(w) ==
  \A c \in Chunks : w.at[c] = "coming" => \E t \in w.q[LevelOf[c]] : t[1] = c
Entering(w) ==
  \A l \in LevelSet :
    /\ IsInjective(w.inbox[l])
    /\ \A c \in Range(w.inbox[l]) : /\ w.at[c] \in {"coming", "in", "leaving"}
                                    /\ <<c, 1>> \notin w.q[l]
Unloading(w) ==
  \A l \in LevelSet :
    /\ IsInjective(Waiting(w, l))
    /\ \A c \in Range(Waiting(w, l)) : LevelOf[c] = l /\ w.at[c] = "saving"

Placed(w) == Ranged(w) /\ Queued(w) /\ Comes(w) /\ Entering(w) /\ Unloading(w)

(* What a step does not look at.                                           *)
LEMMA UnloadingKept ==
  ASSUME NEW w, Unloading(w), NEW v, v.unload = w.unload, v.writes = w.writes,
         \A c \in Chunks : w.at[c] = "saving" => v.at[c] = "saving",
         Ranged(w)
  PROVE  Unloading(v)
<1> SUFFICES ASSUME NEW l \in LevelSet
             PROVE  /\ IsInjective(Waiting(v, l))
                    /\ \A c \in Range(Waiting(v, l)) : LevelOf[c] = l /\ v.at[c] = "saving"
  BY DEF Unloading
<1>1. Waiting(v, l) = Waiting(w, l)
  BY DEF Waiting
<1>2. Range(Waiting(w, l)) \subseteq Chunks
  <2>1. Waiting(w, l) \in Seq(Chunks)
    <3>1. w.unload[l] \in Seq(Chunks) /\ w.writes[l] \in Seq(Writes)
      BY DEF Ranged
    <3>2. Names(w.writes[l]) \in Seq(Chunks)
      BY <3>1, NamesAre
    <3> QED BY <3>1, <3>2 DEF Waiting
  <2> QED BY <2>1 DEF Range
<1> QED BY <1>1, <1>2 DEF Unloading

LEMMA LoggedIs ==
  ASSUME NEW s \in Seq(Entries), NEW c \in Chunks, NEW what \in {"load", "in"}
  PROVE  Append(s, <<what, c>>) \in Seq(Entries)
<1>1. <<what, c>> \in Entries
  BY DEF Entries
<1> QED BY <1>1

-----------------------------------------------------------------------------
(* One chunk task.                                                         *)

(* The k-th task of c brings its entity in.                                *)
Reading(c, k) == k = 1 /\ c \notin Unreadable

LEMMA RunTaskIs ==
  ASSUME NEW w, IsWorld(w), Placed(w), NEW l \in LevelSet, Busy(w, l)
  PROVE  LET t == pop(w, l)
             c == t[1]
             k == t[2]
             v == RunTask(w, l)
         IN  /\ t \in w.q[l] /\ t = <<c, k>> /\ c \in Chunks /\ LevelOf[c] = l /\ w.at[c] = "coming"
             /\ k \in 1..Steps[c]
             /\ DOMAIN v = Fields /\ v.writes = w.writes /\ v.unload = w.unload
             /\ v.live = w.live /\ v.saved = w.saved /\ v.level = w.level /\ v.master = w.master
             /\ v.inbox = IF Reading(c, k) THEN [w.inbox EXCEPT ![l] = Append(@, c)] ELSE w.inbox
             /\ v.key = IF Reading(c, k) THEN [w.key EXCEPT ![c] = w.master] ELSE w.key
             /\ v.q = [w.q EXCEPT ![l] = (@ \ {t}) \cup (IF k = Steps[c] THEN {} ELSE {<<c, k + 1>>})]
             /\ v.at = IF k = Steps[c] THEN [w.at EXCEPT ![c] = "in"] ELSE w.at
             /\ v.log = IF k = Steps[c] THEN [w.log EXCEPT ![l] = Append(@, <<"in", c>>)] ELSE w.log
<1> DEFINE t    == pop(w, l)
           c    == t[1]
           k    == t[2]
           read == IF k = 1 THEN LoadEntities(w, l, c) ELSE w
           v    == RunTask(w, l)
<1>1. t \in w.q[l] /\ t \in Chunks \X Nat /\ LevelOf[c] = l
  BY PopIsQueued
<1>2. t = <<c, k>> /\ c \in Chunks /\ w.at[c] = "coming" /\ k \in 1..Steps[c]
  BY <1>1 DEF Placed, Queued
<1>3. v = IF k = Steps[c]
          THEN Log([read EXCEPT !.q[l] = @ \ {t}, !.at[c] = "in"], l, "in", c)
          ELSE [read EXCEPT !.q[l] = (@ \ {t}) \cup {<<c, k + 1>>}]
  BY DEF RunTask
<1>4. /\ DOMAIN read = Fields /\ read.q = w.q /\ read.at = w.at /\ read.log = w.log
      /\ read.writes = w.writes /\ read.unload = w.unload
      /\ read.live = w.live /\ read.saved = w.saved /\ read.level = w.level
      /\ read.master = w.master
      /\ read.inbox = IF Reading(c, k) THEN [w.inbox EXCEPT ![l] = Append(@, c)] ELSE w.inbox
      /\ read.key = IF Reading(c, k) THEN [w.key EXCEPT ![c] = w.master] ELSE w.key
  <2> HIDE DEF t
  <2>1. CASE Reading(c, k)
    <3>1. read = [w EXCEPT !.inbox[l] = Append(@, c), !.key[c] = w.master,
                           !.born = Append(@, c)]
      BY <2>1 DEF LoadEntities, Reading
    <3> HIDE DEF read
    <3> QED BY <2>1, <3>1 DEF IsWorld, Fields
  <2>2. CASE ~Reading(c, k)
    <3>1. read = w
      BY <2>2 DEF LoadEntities, Reading
    <3> HIDE DEF read
    <3> QED BY <2>2, <3>1 DEF IsWorld
  <2> QED BY <2>1, <2>2
<1> HIDE DEF v, read, t
<1>5. CASE k = Steps[c]
  <2>1. /\ DOMAIN v = Fields /\ v.writes = read.writes /\ v.unload = read.unload
        /\ v.live = read.live /\ v.saved = read.saved /\ v.level = read.level
        /\ v.master = read.master /\ v.inbox = read.inbox /\ v.key = read.key
        /\ v.q = [read.q EXCEPT ![l] = @ \ {t}]
        /\ v.at = [read.at EXCEPT ![c] = "in"]
        /\ v.log = [read.log EXCEPT ![l] = Append(@, <<"in", c>>)]
    BY <1>3, <1>4, <1>5 DEF Log, Fields
  <2>2. [read.q EXCEPT ![l] = @ \ {t}] = [read.q EXCEPT ![l] = (@ \ {t}) \cup {}]
    OBVIOUS
  <2> QED BY <1>1, <1>2, <1>4, <1>5, <2>1, <2>2 DEF v, t
<1>6. CASE k # Steps[c]
  <2>1. /\ DOMAIN v = Fields /\ v.writes = read.writes /\ v.unload = read.unload
        /\ v.live = read.live /\ v.saved = read.saved /\ v.level = read.level
        /\ v.master = read.master /\ v.inbox = read.inbox /\ v.key = read.key
        /\ v.q = [read.q EXCEPT ![l] = (@ \ {t}) \cup {<<c, k + 1>>}]
        /\ v.at = read.at /\ v.log = read.log
    BY <1>3, <1>4, <1>6 DEF Fields
  <2> QED BY <1>1, <1>2, <1>4, <1>6, <2>1 DEF v, t
<1> QED BY <1>5, <1>6

LEMMA RunTaskPlaces ==
  ASSUME NEW w, IsWorld(w), Placed(w), NEW l \in LevelSet, Busy(w, l)
  PROVE  Placed(RunTask(w, l))
<1> DEFINE t == pop(w, l)
           c == t[1]
           k == t[2]
           v == RunTask(w, l)
<1>0. /\ t \in w.q[l] /\ t = <<c, k>> /\ c \in Chunks /\ LevelOf[c] = l /\ w.at[c] = "coming"
      /\ k \in 1..Steps[c]
      /\ DOMAIN v = Fields /\ v.writes = w.writes /\ v.unload = w.unload
      /\ v.live = w.live /\ v.saved = w.saved /\ v.level = w.level /\ v.master = w.master
      /\ v.inbox = IF Reading(c, k) THEN [w.inbox EXCEPT ![l] = Append(@, c)] ELSE w.inbox
      /\ v.key = IF Reading(c, k) THEN [w.key EXCEPT ![c] = w.master] ELSE w.key
      /\ v.q = [w.q EXCEPT ![l] = (@ \ {t}) \cup (IF k = Steps[c] THEN {} ELSE {<<c, k + 1>>})]
      /\ v.at = IF k = Steps[c] THEN [w.at EXCEPT ![c] = "in"] ELSE w.at
      /\ v.log = IF k = Steps[c] THEN [w.log EXCEPT ![l] = Append(@, <<"in", c>>)] ELSE w.log
  BY RunTaskIs
<1>1. /\ t \in w.q[l] /\ t = <<c, k>> /\ c \in Chunks /\ LevelOf[c] = l /\ w.at[c] = "coming"
      /\ k \in 1..Steps[c] /\ Steps[c] \in Nat
  BY <1>0, WorkAssumption
<1>2. /\ v.writes = w.writes /\ v.unload = w.unload
      /\ v.inbox = IF Reading(c, k) THEN [w.inbox EXCEPT ![l] = Append(@, c)] ELSE w.inbox
      /\ v.q = [w.q EXCEPT ![l] = (@ \ {t}) \cup (IF k = Steps[c] THEN {} ELSE {<<c, k + 1>>})]
      /\ v.at = IF k = Steps[c] THEN [w.at EXCEPT ![c] = "in"] ELSE w.at
      /\ v.log = IF k = Steps[c] THEN [w.log EXCEPT ![l] = Append(@, <<"in", c>>)] ELSE w.log
  BY <1>0
<1> HIDE DEF v, t
<1>3. Ranged(w) /\ Queued(w) /\ Comes(w) /\ Entering(w) /\ Unloading(w)
  BY DEF Placed
<1>4. /\ w.q \in [LevelSet -> SUBSET (Chunks \X Nat)] /\ w.inbox \in [LevelSet -> Seq(Chunks)]
      /\ \A j \in LevelSet : \A u \in w.q[j] : LevelOf[u[1]] = j
      /\ \A j \in LevelSet : \A d \in Range(w.inbox[j]) : LevelOf[d] = j
  BY DEF IsWorld
<1>5. Ranged(v)
  <2>1. v.at \in [Chunks -> Places]
    BY <1>1, <1>2, <1>3 DEF Ranged, Places
  <2>2. v.log \in [LevelSet -> Seq(Entries)]
    <3>1. CASE k # Steps[c]
      BY <1>2, <1>3, <3>1 DEF Ranged
    <3>2. CASE k = Steps[c]
      <4>1. w.log[l] \in Seq(Entries)
        BY <1>3 DEF Ranged
      <4>2. Append(w.log[l], <<"in", c>>) \in Seq(Entries)
        BY <1>1, <4>1, LoggedIs
      <4> QED BY <1>2, <1>3, <3>2, <4>2 DEF Ranged
    <3> QED BY <3>1, <3>2
  <2> QED BY <1>2, <1>3, <2>1, <2>2 DEF Ranged
<1>6. \A u \in w.q[l] : u[1] = c => u = t
  BY <1>1, <1>3 DEF Queued
<1>7. \A j \in LevelSet : j # l => v.q[j] = w.q[j]
  BY <1>2, <1>4
<1>8. v.q[l] = (w.q[l] \ {t}) \cup (IF k = Steps[c] THEN {} ELSE {<<c, k + 1>>})
  BY <1>2, <1>4
<1>9. \A d \in Chunks : d # c => v.at[d] = w.at[d]
  BY <1>2, <1>3 DEF Ranged
<1>10. /\ k = Steps[c] => v.at[c] = "in"
       /\ k # Steps[c] => v.at[c] = "coming"
  BY <1>1, <1>2, <1>3 DEF Ranged
<1>11. \A u \in w.q[l] \ {t} : u[1] # c /\ u[1] \in Chunks
  BY <1>4, <1>6
<1>12. Queued(v)
  <2> SUFFICES ASSUME NEW j \in LevelSet
               PROVE  /\ \A u \in v.q[j] : v.at[u[1]] = "coming" /\ u[2] \in 1..Steps[u[1]]
                      /\ \A u, x \in v.q[j] : u[1] = x[1] => u = x
    BY DEF Queued
  <2>1. CASE j # l
    <3>1. \A u \in w.q[j] : u[1] \in Chunks /\ u[1] # c
      BY <1>1, <1>4, <2>1
    <3> QED BY <1>3, <1>7, <1>9, <2>1, <3>1 DEF Queued
  <2>2. CASE j = l
    <3>1. \A u \in w.q[l] \ {t} : v.at[u[1]] = "coming" /\ u[2] \in 1..Steps[u[1]]
      BY <1>3, <1>9, <1>11 DEF Queued
    <3>2. CASE k = Steps[c]
      BY <1>3, <1>8, <2>2, <3>1, <3>2 DEF Queued
    <3>3. CASE k # Steps[c]
      <4>1. k + 1 \in 1..Steps[c]
        BY <1>1, <3>3
      <4> QED BY <1>3, <1>8, <1>10, <1>11, <2>2, <3>1, <3>3, <4>1 DEF Queued
    <3> QED BY <3>2, <3>3
  <2> QED BY <2>1, <2>2
<1>13. Comes(v)
  <2> SUFFICES ASSUME NEW d \in Chunks, v.at[d] = "coming"
               PROVE  \E u \in v.q[LevelOf[d]] : u[1] = d
    BY DEF Comes
  <2>1. CASE d # c
    <3>1. PICK u \in w.q[LevelOf[d]] : u[1] = d
      BY <1>3, <1>9, <2>1 DEF Comes
    <3>2. u \in v.q[LevelOf[d]]
      <4>1. LevelOf[d] \in LevelSet
        BY WorkAssumption
      <4> QED BY <1>1, <1>7, <1>8, <2>1, <3>1, <4>1
    <3> QED BY <3>1, <3>2
  <2>2. CASE d = c
    <3>1. <<c, k + 1>> \in v.q[l]
      BY <1>8, <1>10, <2>2
    <3> QED BY <1>1, <2>2, <3>1
  <2> QED BY <2>1, <2>2
<1>14. Entering(v)
  <2>1. \A j \in LevelSet : \A d \in Range(w.inbox[j]) :
          /\ d \in Chunks /\ w.at[d] \in {"coming", "in", "leaving"} /\ <<d, 1>> \notin w.q[j]
    <3>1. \A j \in LevelSet : Range(w.inbox[j]) \subseteq Chunks
      BY <1>4 DEF Range
    <3> QED BY <1>3, <3>1 DEF Entering
  <2>2. \A j \in LevelSet : \A d \in Range(w.inbox[j]) : v.at[d] \in {"coming", "in", "leaving"}
    BY <1>9, <1>10, <2>1
  <2>3. \A j \in LevelSet : \A d \in Chunks : <<d, 1>> \notin w.q[j] => <<d, 1>> \notin v.q[j]
    <3>1. <<c, k + 1>> # <<c, 1>> /\ \A d : <<d, 1>> = <<c, k + 1>> => FALSE
      BY <1>1
    <3> QED BY <1>7, <1>8, <3>1
  <2>4. CASE ~Reading(c, k)
    BY <1>2, <1>3, <2>1, <2>2, <2>3, <2>4 DEF Entering
  <2>5. CASE Reading(c, k)
    <3>0. k = 1
      BY <2>5 DEF Reading
    <3>1. c \notin Range(w.inbox[l])
      BY <1>1, <2>1, <3>0
    <3>2. <<c, 1>> \notin v.q[l]
      <4>1. <<c, k + 1>> # <<c, 1>>
        BY <3>0
      <4> QED BY <1>1, <1>8, <3>0, <4>1
    <3>3. v.inbox[l] = Append(w.inbox[l], c) /\ \A j \in LevelSet : j # l => v.inbox[j] = w.inbox[j]
      BY <1>2, <1>4, <2>5
    <3>4. w.inbox[l] \in Seq(Chunks) /\ IsInjective(w.inbox[l])
      BY <1>3, <1>4 DEF Entering
    <3>5. Range(v.inbox[l]) = Range(w.inbox[l]) \cup {c} /\ IsInjective(v.inbox[l])
      <4>1. Range(Append(w.inbox[l], c)) = Range(w.inbox[l]) \cup {c}
        BY <1>1, <3>4, RangeOfAppend
      <4>2. IsInjective(Append(w.inbox[l], c))
        BY <1>1, <3>1, <3>4, InjectiveOne
      <4> QED BY <3>3, <4>1, <4>2
    <3> SUFFICES ASSUME NEW j \in LevelSet
                 PROVE  /\ IsInjective(v.inbox[j])
                        /\ \A d \in Range(v.inbox[j]) : /\ v.at[d] \in {"coming", "in", "leaving"}
                                                        /\ <<d, 1>> \notin v.q[j]
      BY DEF Entering
    <3>6. CASE j # l
      BY <1>3, <2>1, <2>2, <2>3, <3>3, <3>6 DEF Entering
    <3>7. CASE j = l
      BY <1>10, <2>1, <2>2, <2>3, <3>2, <3>5, <3>7
    <3> QED BY <3>6, <3>7
  <2> QED BY <2>4, <2>5
<1>15. Unloading(v)
  <2>1. \A d \in Chunks : w.at[d] = "saving" => v.at[d] = "saving"
    BY <1>1, <1>9
  <2> QED BY <1>2, <1>3, <2>1, UnloadingKept
<1> QED BY <1>5, <1>12, <1>13, <1>14, <1>15 DEF Placed, v

-----------------------------------------------------------------------------
(* One command.                                                            *)

LEMMA LoadIs ==
  ASSUME NEW w, IsWorld(w), NEW c \in Chunks, NEW v,
         v = Request(Log(w, LevelOf[c], "load", c), c)
  PROVE  /\ DOMAIN v = Fields /\ v.writes = w.writes /\ v.unload = w.unload
         /\ v.live = w.live /\ v.saved = w.saved /\ v.level = w.level /\ v.master = w.master
         /\ v.inbox = w.inbox /\ v.key = w.key
         /\ v.log = [w.log EXCEPT ![LevelOf[c]] = Append(@, <<"load", c>>)]
         /\ v.at = IF w.at[c] = "out" THEN [w.at EXCEPT ![c] = "coming"] ELSE w.at
         /\ v.q = IF w.at[c] = "out" THEN [w.q EXCEPT ![LevelOf[c]] = @ \cup {<<c, 1>>}] ELSE w.q
<1> DEFINE u == Log(w, LevelOf[c], "load", c)
<1>1. /\ DOMAIN u = Fields /\ u.writes = w.writes /\ u.unload = w.unload
      /\ u.live = w.live /\ u.saved = w.saved /\ u.level = w.level /\ u.master = w.master
      /\ u.inbox = w.inbox /\ u.key = w.key /\ u.q = w.q /\ u.at = w.at
      /\ u.log = [w.log EXCEPT ![LevelOf[c]] = Append(@, <<"load", c>>)]
  BY DEF Log, IsWorld, Fields
<1>2. v = Request(u, c)
  OBVIOUS
<1> HIDE DEF u
<1>3. CASE w.at[c] = "out"
  <2>1. v = [u EXCEPT !.at[c] = "coming", !.q[LevelOf[c]] = @ \cup {<<c, 1>>}]
    BY <1>1, <1>2, <1>3 DEF Request
  <2>2. /\ DOMAIN v = Fields /\ v.writes = u.writes /\ v.unload = u.unload
        /\ v.live = u.live /\ v.saved = u.saved /\ v.level = u.level /\ v.master = u.master
        /\ v.inbox = u.inbox /\ v.key = u.key /\ v.log = u.log
        /\ v.at = [u.at EXCEPT ![c] = "coming"]
        /\ v.q = [u.q EXCEPT ![LevelOf[c]] = @ \cup {<<c, 1>>}]
    BY <1>1, <2>1 DEF Fields
  <2> QED BY <1>1, <1>3, <2>2
<1>4. CASE w.at[c] # "out"
  BY <1>1, <1>2, <1>4 DEF Request
<1> QED BY <1>3, <1>4

LEMMA LoadPlaces ==
  ASSUME NEW w, IsWorld(w), Placed(w), NEW c \in Chunks
  PROVE  Placed(Request(Log(w, LevelOf[c], "load", c), c))
<1> DEFINE v == Request(Log(w, LevelOf[c], "load", c), c)
           l == LevelOf[c]
<1>1. /\ v.writes = w.writes /\ v.unload = w.unload /\ v.inbox = w.inbox
      /\ v.log = [w.log EXCEPT ![l] = Append(@, <<"load", c>>)]
      /\ v.at = IF w.at[c] = "out" THEN [w.at EXCEPT ![c] = "coming"] ELSE w.at
      /\ v.q = IF w.at[c] = "out" THEN [w.q EXCEPT ![l] = @ \cup {<<c, 1>>}] ELSE w.q
  BY LoadIs
<1>2. l \in LevelSet /\ Steps[c] \in Nat \ {0}
  BY WorkAssumption
<1> HIDE DEF v
<1>3. Ranged(w) /\ Queued(w) /\ Comes(w) /\ Entering(w) /\ Unloading(w)
  BY DEF Placed
<1>4. /\ w.q \in [LevelSet -> SUBSET (Chunks \X Nat)]
      /\ \A j \in LevelSet : \A u \in w.q[j] : LevelOf[u[1]] = j /\ u[1] \in Chunks
      /\ \A j \in LevelSet : Range(w.inbox[j]) \subseteq Chunks
  BY DEF IsWorld, Range
<1>5. v.log \in [LevelSet -> Seq(Entries)]
  <2>1. w.log[l] \in Seq(Entries)
    BY <1>2, <1>3 DEF Ranged
  <2>2. Append(w.log[l], <<"load", c>>) \in Seq(Entries)
    BY <2>1, LoggedIs
  <2> QED BY <1>1, <1>2, <1>3, <2>2 DEF Ranged
<1>6. CASE w.at[c] # "out"
  <2>1. v.at = w.at /\ v.q = w.q
    BY <1>1, <1>6
  <2>2. Ranged(v) /\ Queued(v) /\ Comes(v) /\ Entering(v)
    BY <1>1, <1>3, <1>5, <2>1 DEF Ranged, Queued, Comes, Entering
  <2>3. Unloading(v)
    BY <1>1, <1>3, <2>1, UnloadingKept
  <2> QED BY <2>2, <2>3 DEF Placed, v
<1>7. CASE w.at[c] = "out"
  <2>1. v.at = [w.at EXCEPT ![c] = "coming"] /\ w.at \in [Chunks -> Places]
    BY <1>1, <1>3, <1>7 DEF Ranged
  <2>2. v.at \in [Chunks -> Places] /\ v.at[c] = "coming" /\ \A d \in Chunks : d # c => v.at[d] = w.at[d]
    BY <2>1 DEF Places
  <2>3. v.q[l] = w.q[l] \cup {<<c, 1>>} /\ \A j \in LevelSet : j # l => v.q[j] = w.q[j]
    BY <1>1, <1>2, <1>4, <1>7
  <2>4. \A j \in LevelSet : \A u \in w.q[j] : u[1] # c
    BY <1>3, <1>7 DEF Queued
  <2>5. Ranged(v)
    BY <1>1, <1>3, <1>5, <2>2 DEF Ranged
  <2>6. Queued(v)
    <3> SUFFICES ASSUME NEW j \in LevelSet
                 PROVE  /\ \A u \in v.q[j] : v.at[u[1]] = "coming" /\ u[2] \in 1..Steps[u[1]]
                        /\ \A u, x \in v.q[j] : u[1] = x[1] => u = x
      BY DEF Queued
    <3>1. /\ \A u \in w.q[j] : v.at[u[1]] = "coming" /\ u[2] \in 1..Steps[u[1]] /\ u[1] # c
          /\ \A u, x \in w.q[j] : u[1] = x[1] => u = x
      BY <1>3, <1>4, <2>2, <2>4 DEF Queued
    <3>2. 1 \in 1..Steps[c]
      BY <1>2
    <3>3. CASE j = l
      BY <2>2, <2>3, <3>1, <3>2, <3>3
    <3>4. CASE j # l
      BY <2>3, <3>1, <3>4
    <3> QED BY <3>3, <3>4
  <2>7. Comes(v)
    <3> SUFFICES ASSUME NEW d \in Chunks, v.at[d] = "coming"
                 PROVE  \E u \in v.q[LevelOf[d]] : u[1] = d
      BY DEF Comes
    <3>1. CASE d = c
      <4>1. <<c, 1>> \in v.q[LevelOf[d]] /\ <<c, 1>>[1] = d
        BY <2>3, <3>1
      <4> QED BY <4>1
    <3>2. CASE d # c
      <4>1. PICK u \in w.q[LevelOf[d]] : u[1] = d
        BY <1>3, <2>2, <3>2 DEF Comes
      <4>2. LevelOf[d] \in LevelSet
        BY WorkAssumption
      <4>3. u \in v.q[LevelOf[d]]
        BY <2>3, <4>1, <4>2
      <4> QED BY <4>1, <4>3
    <3> QED BY <3>1, <3>2
  <2>8. Entering(v)
    <3> SUFFICES ASSUME NEW j \in LevelSet, NEW d \in Range(w.inbox[j])
                 PROVE  v.at[d] \in {"coming", "in", "leaving"} /\ <<d, 1>> \notin v.q[j]
      BY <1>1, <1>3 DEF Entering
    <3>1. d \in Chunks /\ w.at[d] \in {"coming", "in", "leaving"} /\ <<d, 1>> \notin w.q[j] /\ d # c
      BY <1>3, <1>4, <1>7 DEF Entering
    <3> QED BY <2>2, <2>3, <3>1
  <2>9. Unloading(v)
    <3>1. \A d \in Chunks : w.at[d] = "saving" => v.at[d] = "saving"
      BY <1>7, <2>2
    <3> QED BY <1>1, <1>3, <3>1, UnloadingKept
  <2> QED BY <2>5, <2>6, <2>7, <2>8, <2>9 DEF Placed, v
<1> QED BY <1>6, <1>7

(* What a command does to the fields that no chunk is placed by.           *)
LEMMA DropIs ==
  ASSUME NEW w, IsWorld(w), NEW cmd \in Commands, cmd[1] = "drop", NEW v, v = Do(w, cmd)
  PROVE  /\ DOMAIN v = Fields /\ v.writes = w.writes /\ v.unload = w.unload
         /\ v.live = w.live /\ v.saved = w.saved /\ v.level = w.level /\ v.master = w.master
         /\ v.inbox = w.inbox /\ v.key = w.key /\ v.log = w.log /\ v.q = w.q
         /\ v.at = IF w.at[cmd[2]] = "in" THEN [w.at EXCEPT ![cmd[2]] = "leaving"] ELSE w.at
<1>1. v = IF w.at[cmd[2]] = "in" THEN [w EXCEPT !.at[cmd[2]] = "leaving"] ELSE w
  BY DEF Do
<1>2. CASE w.at[cmd[2]] = "in"
  BY <1>1, <1>2 DEF IsWorld, Fields
<1>3. CASE w.at[cmd[2]] # "in"
  BY <1>1, <1>3 DEF IsWorld
<1> QED BY <1>2, <1>3

LEMMA ReseedIs ==
  ASSUME NEW w, IsWorld(w)
  PROVE  LET v == reseed(w)
         IN  /\ DOMAIN v = Fields /\ v.writes = w.writes /\ v.unload = w.unload
             /\ v.live = w.live /\ v.saved = w.saved /\ v.inbox = w.inbox /\ v.log = w.log
             /\ v.q = w.q /\ v.at = w.at /\ v.master = w.master + 1
             /\ v.level = [l \in LevelSet |-> w.master + 1]
             /\ v.key = [c \in Chunks |-> IF c \in w.live[LevelOf[c]] THEN w.master + 1
                                          ELSE w.key[c]]
BY DEF reseed, IsWorld, Fields

LEMMA DoPlaces ==
  ASSUME NEW w, IsWorld(w), Placed(w), NEW cmd \in Commands
  PROVE  Placed(Do(w, cmd))
<1>1. cmd[1] \in {"load", "drop", "reseed"} /\ (cmd[1] # "reseed" => cmd[2] \in Chunks)
  BY TickAssumption
<1>2. CASE cmd[1] = "load"
  <2>1. Do(w, cmd) = Request(Log(w, LevelOf[cmd[2]], "load", cmd[2]), cmd[2])
    BY <1>2 DEF Do
  <2> QED BY <1>1, <1>2, <2>1, LoadPlaces
<1> DEFINE v == Do(w, cmd)
           c == cmd[2]
<1>3. Ranged(w) /\ Queued(w) /\ Comes(w) /\ Entering(w) /\ Unloading(w)
  BY DEF Placed
<1>4. CASE cmd[1] = "drop"
  <2>1. /\ v.writes = w.writes /\ v.unload = w.unload /\ v.inbox = w.inbox
        /\ v.log = w.log /\ v.q = w.q
        /\ v.at = IF w.at[c] = "in" THEN [w.at EXCEPT ![c] = "leaving"] ELSE w.at
    BY <1>4, DropIs
  <2> HIDE DEF v
  <2>2. /\ v.at \in [Chunks -> Places]
        /\ \A d \in Chunks : v.at[d] = w.at[d] \/ (w.at[d] = "in" /\ v.at[d] = "leaving")
    BY <1>3, <2>1 DEF Ranged, Places
  <2>3. /\ \A j \in LevelSet : Range(w.inbox[j]) \subseteq Chunks
        /\ \A j \in LevelSet : \A u \in w.q[j] : u[1] \in Chunks
    BY DEF IsWorld, Range
  <2>4. Ranged(v)
    BY <1>3, <2>1, <2>2 DEF Ranged
  <2>5. Queued(v)
    BY <1>3, <2>1, <2>2, <2>3 DEF Queued
  <2>6. Comes(v)
    BY <1>3, <2>1, <2>2 DEF Comes
  <2>7. Entering(v)
    <3> SUFFICES ASSUME NEW j \in LevelSet, NEW d \in Range(w.inbox[j])
                 PROVE  v.at[d] \in {"coming", "in", "leaving"} /\ <<d, 1>> \notin w.q[j]
      BY <1>3, <2>1 DEF Entering
    <3>1. d \in Chunks /\ w.at[d] \in {"coming", "in", "leaving"} /\ <<d, 1>> \notin w.q[j]
      BY <1>3, <2>3 DEF Entering
    <3> QED BY <2>2, <3>1
  <2>8. Unloading(v)
    <3>1. \A d \in Chunks : w.at[d] = "saving" => v.at[d] = "saving"
      BY <2>2
    <3> QED BY <1>3, <2>1, <3>1, UnloadingKept
  <2> QED BY <2>4, <2>5, <2>6, <2>7, <2>8 DEF Placed, v
<1>5. CASE cmd[1] = "reseed"
  <2>1. v = reseed(w)
    BY <1>5 DEF Do
  <2>2. /\ v.writes = w.writes /\ v.unload = w.unload /\ v.inbox = w.inbox
        /\ v.log = w.log /\ v.q = w.q /\ v.at = w.at
    <3> HIDE DEF v
    <3> QED BY <2>1, ReseedIs
  <2> HIDE DEF v
  <2>3. Unloading(v)
    BY <1>3, <2>2, UnloadingKept
  <2>4. Ranged(v) /\ Queued(v) /\ Comes(v) /\ Entering(v)
    BY <1>3, <2>2 DEF Ranged, Queued, Comes, Entering
  <2> QED BY <2>3, <2>4 DEF Placed, v
<1> QED BY <1>1, <1>2, <1>4, <1>5

-----------------------------------------------------------------------------
(* Writes that land, and histories that end.                               *)

LEMMA WritesAre ==
  ASSUME NEW w, Ranged(w), NEW l \in LevelSet
  PROVE  /\ w.writes[l] \in Seq(Writes) /\ w.unload[l] \in Seq(Chunks)
         /\ Names(w.writes[l]) \in Seq(Chunks) /\ Waiting(w, l) \in Seq(Chunks)
<1>1. w.writes[l] \in Seq(Writes) /\ w.unload[l] \in Seq(Chunks)
  BY DEF Ranged
<1>2. Names(w.writes[l]) \in Seq(Chunks)
  BY <1>1, NamesAre
<1> QED BY <1>1, <1>2 DEF Waiting

(* Nothing but the place where an unload waits.                            *)
LEMMA SamePlaces ==
  ASSUME NEW w, Placed(w), NEW v, v.q = w.q, v.at = w.at, v.inbox = w.inbox,
         v.log \in [LevelSet -> Seq(Entries)],
         v.writes \in [LevelSet -> Seq(Writes)], v.unload \in [LevelSet -> Seq(Chunks)],
         \A l \in LevelSet : Waiting(v, l) = Waiting(w, l)
  PROVE  Placed(v)
<1>1. Ranged(v)
  BY DEF Placed, Ranged
<1>2. Queued(v) /\ Comes(v)
  BY DEF Placed, Queued, Comes
<1>3. Entering(v)
  BY DEF Placed, Entering
<1>4. Unloading(v)
  BY DEF Placed, Unloading
<1> QED BY <1>1, <1>2, <1>3, <1>4 DEF Placed

LEMMA LandIs ==
  ASSUME NEW w, IsWorld(w), NEW l \in LevelSet, w.writes[l] # <<>>
  PROVE  LET v == Land(w, l)
             h == Head(w.writes[l])
         IN  /\ DOMAIN v = Fields /\ v.q = w.q /\ v.at = w.at /\ v.inbox = w.inbox /\ v.live = w.live
             /\ v.saved = w.saved /\ v.key = w.key /\ v.level = w.level /\ v.master = w.master
             /\ v.log = w.log
             /\ v.writes = [w.writes EXCEPT ![l] = Tail(@)]
             /\ v.unload = [w.unload EXCEPT ![l] = IF h[2] THEN Append(@, h[1]) ELSE @]
BY DEF Land, IsWorld, Fields

LEMMA HeadIs ==
  ASSUME NEW w, Ranged(w), NEW l \in LevelSet, w.writes[l] # <<>>
  PROVE  /\ Head(w.writes[l]) \in Writes /\ Tail(w.writes[l]) \in Seq(Writes)
         /\ w.writes[l] = <<Head(w.writes[l])>> \o Tail(w.writes[l])
<1>1. w.writes[l] \in Seq(Writes)
  BY DEF Ranged
<1> QED BY <1>1

LEMMA LandPlaces ==
  ASSUME NEW w, IsWorld(w), Placed(w), NEW l \in LevelSet
  PROVE  Placed(Land(w, l))
<1>1. CASE w.writes[l] = <<>>
  BY <1>1 DEF Land
<1>2. CASE w.writes[l] # <<>>
  <2> DEFINE v == Land(w, l)
             h == Head(w.writes[l])
             s == Tail(w.writes[l])
  <2>0. Ranged(w)
    BY DEF Placed
  <2>1. /\ v.q = w.q /\ v.at = w.at /\ v.inbox = w.inbox /\ v.log = w.log
        /\ v.writes = [w.writes EXCEPT ![l] = Tail(@)]
        /\ v.unload = [w.unload EXCEPT ![l] = IF h[2] THEN Append(@, h[1]) ELSE @]
        /\ h \in Writes /\ s \in Seq(Writes) /\ w.writes[l] = <<h>> \o s
    <3>1. h \in Writes /\ s \in Seq(Writes) /\ w.writes[l] = <<h>> \o s
      BY <1>2, <2>0, HeadIs
    <3> QED BY <1>2, <3>1, LandIs
  <2>2. w.unload[l] \in Seq(Chunks) /\ h[1] \in Chunks
    BY <2>0, <2>1 DEF Ranged, Writes
  <2> HIDE DEF v, h
  <2>3. /\ v.writes \in [LevelSet -> Seq(Writes)] /\ v.writes[l] = s
        /\ v.unload \in [LevelSet -> Seq(Chunks)]
        /\ v.unload[l] = IF h[2] THEN Append(w.unload[l], h[1]) ELSE w.unload[l]
        /\ \A j \in LevelSet \ {l} : v.writes[j] = w.writes[j] /\ v.unload[j] = w.unload[j]
    BY <2>0, <2>1, <2>2 DEF Ranged
  <2> HIDE DEF s
  <2>4. Waiting(v, l) = Waiting(w, l)
    <3>1. Names(w.writes[l]) = Names(<<h>>) \o Names(s)
      <4>1. <<h>> \in Seq(Writes)
        BY <2>1
      <4> QED BY <2>1, <4>1, NamesOfBoth
    <3>2. Names(<<h>>) = IF h[2] THEN <<h[1]>> ELSE <<>>
      BY <2>1, NamesOfOne
    <3>3. Names(s) \in Seq(Chunks)
      BY <2>1, NamesAre
    <3>4. ASSUME NEW x \in Seq(Chunks), NEW y \in Seq(Chunks), NEW c \in Chunks
          PROVE  x \o (<<c>> \o y) = Append(x, c) \o y /\ <<>> \o y = y
      OBVIOUS
    <3>5. CASE h[2]
      <4>1. w.unload[l] \o (<<h[1]>> \o Names(s)) = Append(w.unload[l], h[1]) \o Names(s)
        BY <2>2, <3>3, <3>4
      <4> QED BY <2>3, <3>1, <3>2, <3>5, <4>1 DEF Waiting
    <3>6. CASE ~h[2]
      <4>1. Names(w.writes[l]) = Names(s)
        BY <2>2, <3>1, <3>2, <3>3, <3>4, <3>6
      <4> QED BY <2>3, <3>6, <4>1 DEF Waiting
    <3> QED BY <3>5, <3>6
  <2>5. \A j \in LevelSet : Waiting(v, j) = Waiting(w, j)
    BY <2>3, <2>4 DEF Waiting
  <2>6. v.log \in [LevelSet -> Seq(Entries)]
    BY <2>0, <2>1 DEF Ranged
  <2>7. Placed(v)
    BY <2>1, <2>3, <2>5, <2>6, SamePlaces
  <2> QED BY <2>7 DEF v
<1> QED BY <1>1, <1>2

LEMMA BarrierIs ==
  ASSUME NEW w, IsWorld(w)
  PROVE  LET v == ioBarrierOf(w)
         IN  /\ DOMAIN v = Fields /\ v.q = w.q /\ v.at = w.at /\ v.inbox = w.inbox /\ v.live = w.live
             /\ v.saved = w.saved /\ v.key = w.key /\ v.level = w.level /\ v.master = w.master
             /\ v.log = w.log /\ v.writes = [l \in LevelSet |-> <<>>]
             /\ v.unload = [l \in LevelSet |-> w.unload[l] \o Names(w.writes[l])]
<1> DEFINE v == ioBarrierOf(w)
<1>1. /\ DOMAIN v = Fields /\ v.q = w.q /\ v.at = w.at /\ v.inbox = w.inbox /\ v.live = w.live
      /\ v.saved = w.saved /\ v.key = w.key /\ v.level = w.level /\ v.master = w.master
      /\ v.log = w.log
      /\ v.writes = [l \in LevelSet |-> IF l \in LevelSet THEN <<>> ELSE w.writes[l]]
      /\ v.unload = [l \in LevelSet |->
                       IF l \in LevelSet
                       THEN w.unload[l] \o [i \in DOMAIN Unloads(w.writes[l]) |->
                                              Unloads(w.writes[l])[i][1]]
                       ELSE w.unload[l]]
  BY DEF ioBarrierOf, LandAllOf, IsWorld, Fields
<1> HIDE DEF v
<1>2. v.writes = [l \in LevelSet |-> <<>>]
  BY <1>1
<1>3. v.unload = [l \in LevelSet |-> w.unload[l] \o Names(w.writes[l])]
  BY <1>1 DEF Names
<1> QED BY <1>1, <1>2, <1>3 DEF v

LEMMA BarrierPlaces ==
  ASSUME NEW w, IsWorld(w), Placed(w)
  PROVE  Placed(ioBarrierOf(w))
<1> DEFINE v == ioBarrierOf(w)
<1>1. /\ v.q = w.q /\ v.at = w.at /\ v.inbox = w.inbox /\ v.log = w.log
      /\ v.writes = [l \in LevelSet |-> <<>>]
      /\ v.unload = [l \in LevelSet |-> Waiting(w, l)]
  BY BarrierIs DEF Waiting
<1> HIDE DEF v
<1>2. Ranged(w)
  BY DEF Placed
<1>3. \A l \in LevelSet : Waiting(w, l) \in Seq(Chunks)
  BY <1>2, WritesAre
<1>4. \A l \in LevelSet : Waiting(v, l) = Waiting(w, l)
  <2> SUFFICES ASSUME NEW l \in LevelSet PROVE Waiting(v, l) = Waiting(w, l)
    OBVIOUS
  <2>1. v.writes[l] = <<>> /\ v.unload[l] = Waiting(w, l)
    BY <1>1
  <2>2. Waiting(v, l) = Waiting(w, l) \o <<>>
    BY <2>1, NamesOfNone DEF Waiting
  <2>3. Waiting(w, l) \in Seq(Chunks)
    BY <1>3
  <2> HIDE DEF Waiting
  <2> QED BY <2>2, <2>3
<1>5. v.writes \in [LevelSet -> Seq(Writes)] /\ v.unload \in [LevelSet -> Seq(Chunks)]
      /\ v.log \in [LevelSet -> Seq(Entries)]
  BY <1>1, <1>2, <1>3 DEF Ranged
<1>6. Placed(v)
  BY <1>1, <1>4, <1>5, SamePlaces
<1> QED BY <1>6 DEF v

LEMMA ForgetIs ==
  ASSUME NEW w, IsWorld(w)
  PROVE  LET v == Forget(w)
         IN  /\ DOMAIN v = Fields /\ v.q = w.q /\ v.at = w.at /\ v.inbox = w.inbox /\ v.live = w.live
             /\ v.saved = w.saved /\ v.key = w.key /\ v.level = w.level /\ v.master = w.master
             /\ v.writes = w.writes /\ v.unload = w.unload
             /\ v.log = [l \in LevelSet |-> <<>>]
BY DEF Forget, IsWorld, Fields

LEMMA FastIs ==
  ASSUME NEW w, IsWorld(w)
  PROVE  LET v == Fast(w)
         IN  /\ DOMAIN v = Fields /\ v.q = w.q /\ v.at = w.at /\ v.inbox = w.inbox /\ v.live = w.live
             /\ v.saved = w.saved /\ v.key = w.key /\ v.level = w.level /\ v.master = w.master
             /\ v.log = w.log /\ v.unload = w.unload
             /\ v.writes = [l \in LevelSet |-> Unloads(w.writes[l])]
BY DEF Fast, IsWorld, Fields

LEMMA ForgetPlaces ==
  ASSUME NEW w, IsWorld(w), Placed(w)
  PROVE  Placed(Forget(w))
<1> DEFINE v == Forget(w)
<1>1. /\ v.q = w.q /\ v.at = w.at /\ v.inbox = w.inbox /\ v.writes = w.writes
      /\ v.unload = w.unload /\ v.log = [l \in LevelSet |-> <<>>]
  BY ForgetIs
<1> HIDE DEF v
<1>2. /\ v.log \in [LevelSet -> Seq(Entries)] /\ v.writes \in [LevelSet -> Seq(Writes)]
      /\ v.unload \in [LevelSet -> Seq(Chunks)]
  BY <1>1 DEF Placed, Ranged
<1>3. \A l \in LevelSet : Waiting(v, l) = Waiting(w, l)
  BY <1>1 DEF Waiting
<1>4. Placed(v)
  BY <1>1, <1>2, <1>3, SamePlaces
<1> QED BY <1>4 DEF v

LEMMA FastPlaces ==
  ASSUME NEW w, IsWorld(w), Placed(w)
  PROVE  Placed(Fast(w))
<1> DEFINE v == Fast(w)
<1>1. /\ v.q = w.q /\ v.at = w.at /\ v.inbox = w.inbox /\ v.unload = w.unload
      /\ v.log = w.log /\ v.writes = [l \in LevelSet |-> Unloads(w.writes[l])]
  BY FastIs
<1> HIDE DEF v
<1>2. Ranged(w)
  BY DEF Placed
<1>3. \A l \in LevelSet : /\ Unloads(w.writes[l]) \in Seq(Writes)
                          /\ Names(Unloads(w.writes[l])) = Names(w.writes[l])
  <2> SUFFICES ASSUME NEW l \in LevelSet
               PROVE  /\ Unloads(w.writes[l]) \in Seq(Writes)
                      /\ Names(Unloads(w.writes[l])) = Names(w.writes[l])
    OBVIOUS
  <2>1. w.writes[l] \in Seq(Writes)
    BY <1>2 DEF Ranged
  <2> QED BY <2>1, UnloadsAreTyped, UnloadsTwice
<1>4. /\ v.log \in [LevelSet -> Seq(Entries)] /\ v.writes \in [LevelSet -> Seq(Writes)]
      /\ v.unload \in [LevelSet -> Seq(Chunks)]
  BY <1>1, <1>2, <1>3 DEF Ranged
<1>5. \A l \in LevelSet : Waiting(v, l) = Waiting(w, l)
  BY <1>1, <1>3 DEF Waiting
<1>6. Placed(v)
  BY <1>1, <1>4, <1>5, SamePlaces
<1> QED BY <1>6 DEF v

-----------------------------------------------------------------------------
(* The body of a tick.                                                     *)

Gone(w)          == UNION {Range(w.unload[l]) : l \in LevelSet}
Unloaded(w, l)   == Handed(Leaving(w, l), TRUE)
Saved(w, l, now) == Handed(SaveDue(w, l, now), FALSE)

BodyFields(v, w, asked, now) ==
  LET new == {c \in asked : w.at[c] = "out"}
  IN  /\ DOMAIN v = Fields /\ v.key = w.key /\ v.level = w.level /\ v.master = w.master
      /\ v.at = [c \in Chunks |-> CASE c \in Leaving(w, LevelOf[c]) -> "saving"
                                    [] c \in Gone(w) -> "out" [] c \in new -> "coming"
                                    [] OTHER -> w.at[c]]
      /\ v.q = [l \in LevelSet |-> w.q[l] \cup {<<c, 1>> : c \in new \cap Of(l)}]
      /\ v.writes = [l \in LevelSet |-> (w.writes[l] \o Unloaded(w, l)) \o Saved(w, l, now)]
      /\ v.unload = [l \in LevelSet |-> <<>>] /\ v.inbox = [l \in LevelSet |-> <<>>]
      /\ v.live = [l \in LevelSet |-> (w.live[l] \ Gone(w)) \cup Range(w.inbox[l])]
      /\ v.saved = [c \in Chunks |-> IF c \in SaveDue(w, LevelOf[c], now)
                                     THEN now + Resave ELSE w.saved[c]]
      /\ v.log = [l \in LevelSet |->
                    Append(w.log[l], <<"tick", Leaving(w, l), w.unload[l],
                                       SaveDue(w, l, now), w.inbox[l]>>)]

LEMMA BodyIs ==
  ASSUME NEW w, IsWorld(w), NEW asked, NEW now
  PROVE  BodyFields(Body(w, asked, now), w, asked, now)
<1> DEFINE gone == UNION {Range(w.unload[l]) : l \in LevelSet}
           new  == {c \in asked : w.at[c] = "out"}
           due  == [l \in LevelSet |-> SaveDue(w, l, now)]
           out  == [l \in LevelSet |-> Leaving(w, l)]
           v    == Body(w, asked, now)
           W1(l) == Handed(out[l], TRUE)
           W2(l) == Handed(due[l], FALSE)
<1>1. /\ DOMAIN v = Fields /\ v.key = w.key /\ v.level = w.level /\ v.master = w.master
      /\ v.at = [c \in Chunks |-> CASE c \in out[LevelOf[c]] -> "saving"
                                    [] c \in gone -> "out" [] c \in new -> "coming"
                                    [] OTHER -> w.at[c]]
      /\ v.q = [l \in LevelSet |-> w.q[l] \cup {<<c, 1>> : c \in new \cap Of(l)}]
      /\ v.writes = [l \in LevelSet |-> (w.writes[l] \o W1(l)) \o W2(l)]
      /\ v.unload = [l \in LevelSet |-> <<>>] /\ v.inbox = [l \in LevelSet |-> <<>>]
      /\ v.live = [l \in LevelSet |-> (w.live[l] \ gone) \cup Range(w.inbox[l])]
      /\ v.saved = [c \in Chunks |-> IF c \in due[LevelOf[c]] THEN now + Resave ELSE w.saved[c]]
      /\ v.log = [l \in LevelSet |->
                    Append(w.log[l], <<"tick", out[l], w.unload[l], due[l], w.inbox[l]>>)]
  <2> HIDE DEF gone, new, due, out
  <2> QED BY DEF Body, gone, new, due, out, IsWorld, Fields
<1>2. \A l \in LevelSet : out[l] = Leaving(w, l) /\ due[l] = SaveDue(w, l, now)
  OBVIOUS
<1>3. \A c \in Chunks : LevelOf[c] \in LevelSet
  BY WorkAssumption
<1>4. gone = Gone(w) /\ \A l \in LevelSet : W1(l) = Unloaded(w, l) /\ W2(l) = Saved(w, l, now)
  BY DEF Gone, Unloaded, Saved
<1> HIDE DEF v, gone, new, due, out, W1, W2
<1>5. v.at = [c \in Chunks |-> CASE c \in Leaving(w, LevelOf[c]) -> "saving"
                                 [] c \in Gone(w) -> "out" [] c \in new -> "coming"
                                 [] OTHER -> w.at[c]]
  BY <1>1, <1>2, <1>3, <1>4
<1>6. v.writes = [l \in LevelSet |-> (w.writes[l] \o Unloaded(w, l)) \o Saved(w, l, now)]
  <2>1. \A l \in LevelSet : v.writes[l] = (w.writes[l] \o Unloaded(w, l)) \o Saved(w, l, now)
    <3> SUFFICES ASSUME NEW l \in LevelSet
                 PROVE  v.writes[l] = (w.writes[l] \o Unloaded(w, l)) \o Saved(w, l, now)
      OBVIOUS
    <3>1. v.writes[l] = (w.writes[l] \o W1(l)) \o W2(l)
      BY <1>1
    <3>2. W1(l) = Unloaded(w, l) /\ W2(l) = Saved(w, l, now)
      BY <1>4
    <3> QED BY <3>1, <3>2
  <2>2. v.writes = [l \in LevelSet |-> v.writes[l]]
    BY <1>1
  <2> QED BY <2>1, <2>2
<1>7. v.saved = [c \in Chunks |-> IF c \in SaveDue(w, LevelOf[c], now)
                                  THEN now + Resave ELSE w.saved[c]]
  BY <1>1, <1>2, <1>3
<1>8. v.log = [l \in LevelSet |-> Append(w.log[l], <<"tick", Leaving(w, l), w.unload[l],
                                                     SaveDue(w, l, now), w.inbox[l]>>)]
  BY <1>1, <1>2
<1> QED BY <1>1, <1>4, <1>5, <1>6, <1>7, <1>8 DEF v, new, BodyFields

(* What a tick hands to the IO workers.                                    *)
LEMMA UnloadedIs ==
  ASSUME NEW w, NEW l \in LevelSet
  PROVE  /\ Unloaded(w, l) \in Seq(Writes) /\ Unloads(Unloaded(w, l)) = Unloaded(w, l)
         /\ Names(Unloaded(w, l)) \in Seq(Chunks) /\ IsInjective(Names(Unloaded(w, l)))
         /\ Range(Names(Unloaded(w, l))) = Leaving(w, l)
<1> DEFINE S == Leaving(w, l)
           s == InOrder(S)
           x == Unloaded(w, l)
<1>1. S \in SUBSET Chunks /\ S \in SUBSET Nat /\ IsFiniteSet(S)
  <2>1. S \in SUBSET Chunks
    BY DEF Leaving, Of
  <2> QED BY <2>1, WorkAssumption, FS_Subset
<1> HIDE DEF S
<1>2. Along(s, S, LessOf) /\ Linear(LessOf, S)
  BY <1>1, InOrderIs, LessIsLinear, LinearBelow
<1>3. s \in Seq(S) /\ Len(s) = Cardinality(S) /\ s \in [1..Cardinality(S) -> S] /\ IsInjective(s)
      /\ Cardinality(S) \in Nat /\ Range(s) = S
  <2> HIDE DEF s
  <2> QED BY <1>1, <1>2, AlongHasTheLength, AlongIsInjective, FS_CardinalityType DEF Along
<1>4. x = [i \in 1..Cardinality(S) |-> <<s[i], TRUE>>]
  BY DEF Unloaded, Handed, S
<1> HIDE DEF s, x
<1>5. x \in [1..Cardinality(S) -> Writes]
  BY <1>1, <1>3, <1>4 DEF Writes
<1>6. x \in Seq(Writes) /\ DOMAIN x = 1..Cardinality(S)
  BY <1>3, <1>5
<1>7. \A i \in DOMAIN x : x[i][2] /\ x[i][1] = s[i]
  BY <1>4, <1>6
<1>8. Unloads(x) = x
  BY <1>6, <1>7, UnloadsOfAll
<1>9. Names(x) = s
  <2>1. Names(x) = [i \in 1..Cardinality(S) |-> s[i]]
    BY <1>6, <1>7, <1>8 DEF Names
  <2> QED BY <1>3, <2>1
<1>10. Names(x) \in Seq(Chunks)
  BY <1>6, NamesAre
<1> QED BY <1>3, <1>6, <1>8, <1>9, <1>10 DEF x, S

(* What is saved in place unloads nothing.                                 *)
LEMMA HandedIs ==
  ASSUME NEW S \in SUBSET Chunks
  PROVE  /\ Handed(S, FALSE) \in Seq(Writes) /\ Unloads(Handed(S, FALSE)) = <<>>
         /\ Names(Handed(S, FALSE)) = <<>>
<1> DEFINE s == InOrder(S)
           x == Handed(S, FALSE)
<1>1. S \in SUBSET Nat /\ IsFiniteSet(S)
  BY WorkAssumption, FS_Subset
<1>2. Along(s, S, LessOf) /\ Linear(LessOf, S)
  BY <1>1, InOrderIs, LessIsLinear, LinearBelow
<1>3. s \in [1..Cardinality(S) -> S] /\ Cardinality(S) \in Nat
  <2> HIDE DEF s
  <2> QED BY <1>1, <1>2, AlongHasTheLength, FS_CardinalityType
<1>4. x = [i \in 1..Cardinality(S) |-> <<s[i], FALSE>>]
  BY DEF Handed
<1> HIDE DEF s, x
<1>5. x \in [1..Cardinality(S) -> Writes]
  BY <1>3, <1>4 DEF Writes
<1>6. x \in Seq(Writes) /\ DOMAIN x = 1..Cardinality(S)
  BY <1>3, <1>5
<1>7. \A i \in DOMAIN x : ~x[i][2]
  BY <1>4, <1>6
<1>8. Unloads(x) = <<>>
  BY <1>6, <1>7, UnloadsOfNone
<1>9. Names(x) = <<>>
  BY <1>8 DEF Names
<1> QED BY <1>6, <1>8, <1>9 DEF x

LEMMA SavedIs ==
  ASSUME NEW w, NEW l \in LevelSet, NEW now
  PROVE  /\ SaveDue(w, l, now) \in SUBSET Chunks
         /\ Saved(w, l, now) \in Seq(Writes) /\ Unloads(Saved(w, l, now)) = <<>>
         /\ Names(Saved(w, l, now)) = <<>>
<1>1. SaveDue(w, l, now) \in SUBSET Chunks
  BY DEF SaveDue, Loaded, Of
<1> QED BY <1>1, HandedIs DEF Saved

(* What the unloads wait for after it.                                     *)
LEMMA WritesOfBody ==
  ASSUME NEW w, NEW s \in Seq(Writes), NEW l \in LevelSet, NEW now
  PROVE  LET z == (s \o Unloaded(w, l)) \o Saved(w, l, now)
         IN  /\ z \in Seq(Writes) /\ Unloads(z) = Unloads(s) \o Unloaded(w, l)
             /\ Names(z) = Names(s) \o Names(Unloaded(w, l))
<1> DEFINE x == Unloaded(w, l)
           y == Saved(w, l, now)
<1>1. /\ x \in Seq(Writes) /\ Unloads(x) = x
      /\ y \in Seq(Writes) /\ Unloads(y) = <<>> /\ Names(y) = <<>>
  BY UnloadedIs, SavedIs
<1> HIDE DEF x, y
<1>2. s \o x \in Seq(Writes) /\ (s \o x) \o y \in Seq(Writes)
  BY <1>1
<1>3. Unloads((s \o x) \o y) = (Unloads(s) \o x) \o <<>>
  <2>1. Unloads(s \o x) = Unloads(s) \o Unloads(x)
    BY <1>1, UnloadsOfBoth
  <2>2. Unloads((s \o x) \o y) = Unloads(s \o x) \o Unloads(y)
    BY <1>1, <1>2, UnloadsOfBoth
  <2> QED BY <1>1, <2>1, <2>2
<1>4. Names((s \o x) \o y) = (Names(s) \o Names(x)) \o <<>>
  <2>1. Names(s \o x) = Names(s) \o Names(x)
    BY <1>1, NamesOfBoth
  <2>2. Names((s \o x) \o y) = Names(s \o x) \o Names(y)
    BY <1>1, <1>2, NamesOfBoth
  <2> QED BY <1>1, <2>1, <2>2
<1>5. Unloads(s) \o x \in Seq(Writes) /\ Names(s) \o Names(x) \in Seq(Chunks)
  <2>1. Unloads(s) \in Seq(Writes) /\ Names(s) \in Seq(Chunks) /\ Names(x) \in Seq(Chunks)
    BY <1>1, UnloadsAreTyped, NamesAre
  <2> QED BY <1>1, <2>1
<1>6. \A S : \A a \in Seq(S) : a \o <<>> = a
  OBVIOUS
<1> QED BY <1>2, <1>3, <1>4, <1>5, <1>6 DEF x, y

LEMMA BodyPlaces ==
  ASSUME NEW w, IsWorld(w), Placed(w), NEW asked, NEW now
  PROVE  Placed(Body(w, asked, now))
<1> DEFINE v == Body(w, asked, now)
           new == {c \in asked : w.at[c] = "out"}
<1>1. /\ v.at = [c \in Chunks |-> CASE c \in Leaving(w, LevelOf[c]) -> "saving"
                                    [] c \in Gone(w) -> "out" [] c \in new -> "coming"
                                    [] OTHER -> w.at[c]]
      /\ v.q = [l \in LevelSet |-> w.q[l] \cup {<<c, 1>> : c \in new \cap Of(l)}]
      /\ v.writes = [l \in LevelSet |-> (w.writes[l] \o Unloaded(w, l)) \o Saved(w, l, now)]
      /\ v.unload = [l \in LevelSet |-> <<>>] /\ v.inbox = [l \in LevelSet |-> <<>>]
      /\ v.log = [l \in LevelSet |->
                    Append(w.log[l], <<"tick", Leaving(w, l), w.unload[l],
                                       SaveDue(w, l, now), w.inbox[l]>>)]
  <2>1. BodyFields(v, w, asked, now)
    BY BodyIs
  <2> HIDE DEF v
  <2> QED BY <2>1 DEF BodyFields
<1> HIDE DEF v
<1>2. Ranged(w) /\ Queued(w) /\ Comes(w) /\ Entering(w) /\ Unloading(w)
  BY DEF Placed
<1>3. /\ w.q \in [LevelSet -> SUBSET (Chunks \X Nat)]
      /\ \A j \in LevelSet : \A u \in w.q[j] : LevelOf[u[1]] = j /\ u[1] \in Chunks
      /\ w.inbox \in [LevelSet -> Seq(Chunks)]
      /\ w.at \in [Chunks -> Places]
  BY <1>2 DEF IsWorld, Ranged
<1>4. \A c \in Chunks : c \in Leaving(w, LevelOf[c]) <=> w.at[c] = "leaving"
  BY DEF Leaving, Of
<1>5. \A l \in LevelSet : /\ Waiting(w, l) = w.unload[l] \o Names(w.writes[l])
                          /\ w.unload[l] \in Seq(Chunks) /\ Names(w.writes[l]) \in Seq(Chunks)
                          /\ w.writes[l] \in Seq(Writes)
  BY <1>2, WritesAre DEF Waiting
<1>6. \A l \in LevelSet : /\ Range(Waiting(w, l)) = Range(w.unload[l]) \cup Range(Names(w.writes[l]))
                          /\ IsInjective(Names(w.writes[l]))
                          /\ Range(w.unload[l]) \cap Range(Names(w.writes[l])) = {}
                          /\ Range(Names(w.writes[l])) \subseteq Chunks
                          /\ Range(w.unload[l]) \subseteq Chunks
  <2> SUFFICES ASSUME NEW l \in LevelSet
               PROVE  /\ Range(Waiting(w, l)) = Range(w.unload[l]) \cup Range(Names(w.writes[l]))
                      /\ IsInjective(Names(w.writes[l]))
                      /\ Range(w.unload[l]) \cap Range(Names(w.writes[l])) = {}
                      /\ Range(Names(w.writes[l])) \subseteq Chunks
                      /\ Range(w.unload[l]) \subseteq Chunks
    OBVIOUS
  <2>1. IsInjective(Waiting(w, l))
    BY <1>2 DEF Unloading
  <2>2. \A a \in Seq(Chunks) : Range(a) \subseteq Chunks
    BY DEF Range
  <2> DEFINE a == w.unload[l]
             b == Names(w.writes[l])
  <2>3. a \in Seq(Chunks) /\ b \in Seq(Chunks) /\ Waiting(w, l) = a \o b
    BY <1>5
  <2> HIDE DEF a, b
  <2>4. /\ Range(a \o b) = Range(a) \cup Range(b)
        /\ IsInjective(a \o b) <=> IsInjective(a) /\ IsInjective(b) /\ Range(a) \cap Range(b) = {}
    BY <2>3, InjectiveBoth
  <2> QED BY <2>1, <2>2, <2>3, <2>4 DEF a, b
<1>7. \A c \in Gone(w) : w.at[c] = "saving" /\ c \in Chunks
                          /\ \E j \in LevelSet : LevelOf[c] = j /\ c \in Range(w.unload[j])
  BY <1>2, <1>6 DEF Gone, Unloading
<1>8. \A c \in Chunks :
        /\ w.at[c] = "leaving" => v.at[c] = "saving"
        /\ c \in Gone(w) => v.at[c] = "out"
        /\ c \in new => v.at[c] = "coming"
        /\ w.at[c] # "leaving" /\ c \notin Gone(w) /\ c \notin new => v.at[c] = w.at[c]
  <2> SUFFICES ASSUME NEW c \in Chunks
               PROVE  /\ w.at[c] = "leaving" => v.at[c] = "saving"
                      /\ c \in Gone(w) => v.at[c] = "out"
                      /\ c \in new => v.at[c] = "coming"
                      /\ w.at[c] # "leaving" /\ c \notin Gone(w) /\ c \notin new => v.at[c] = w.at[c]
    OBVIOUS
  <2>1. v.at[c] = CASE w.at[c] = "leaving" -> "saving"
                    [] c \in Gone(w) -> "out" [] c \in new -> "coming"
                    [] OTHER -> w.at[c]
    <3> HIDE DEF new
    <3> QED BY <1>1, <1>4
  <2>2. c \in Gone(w) => w.at[c] = "saving"
    BY <1>7
  <2>3. c \in new => w.at[c] = "out"
    OBVIOUS
  <2> HIDE DEF new
  <2>4. CASE w.at[c] = "leaving"
    BY <2>1, <2>2, <2>3, <2>4
  <2>5. CASE c \in Gone(w)
    BY <2>1, <2>2, <2>3, <2>5
  <2>6. CASE c \in new
    BY <2>1, <2>2, <2>3, <2>6
  <2>7. CASE w.at[c] # "leaving" /\ c \notin Gone(w) /\ c \notin new
    BY <2>1, <2>7
  <2> QED BY <2>4, <2>5, <2>6, <2>7
<1>9. \A c \in Chunks : v.at[c] \in Places
  BY <1>3, <1>8 DEF Places
<1>10. \A c \in new : w.at[c] = "out"
  OBVIOUS
<1> HIDE DEF new
<1>11. Ranged(v)
  <2>1. v.at \in [Chunks -> Places]
    <3>1. DOMAIN v.at = Chunks /\ v.at = [c \in Chunks |-> v.at[c]]
      BY <1>1
    <3> QED BY <1>9, <3>1
  <2>2. v.writes \in [LevelSet -> Seq(Writes)]
    <3>1. \A l \in LevelSet : (w.writes[l] \o Unloaded(w, l)) \o Saved(w, l, now) \in Seq(Writes)
      BY <1>5, WritesOfBody
    <3> QED BY <1>1, <3>1
  <2>3. v.unload \in [LevelSet -> Seq(Chunks)]
    BY <1>1
  <2>4. v.log \in [LevelSet -> Seq(Entries)]
    <3> SUFFICES ASSUME NEW l \in LevelSet
                 PROVE  Append(w.log[l], <<"tick", Leaving(w, l), w.unload[l],
                                           SaveDue(w, l, now), w.inbox[l]>>) \in Seq(Entries)
      BY <1>1
    <3>1. w.log[l] \in Seq(Entries)
      BY <1>2 DEF Ranged
    <3>2. <<"tick", Leaving(w, l), w.unload[l], SaveDue(w, l, now), w.inbox[l]>> \in Entries
      <4>1. Leaving(w, l) \in SUBSET Chunks /\ SaveDue(w, l, now) \in SUBSET Chunks
            /\ w.unload[l] \in Seq(Chunks) /\ w.inbox[l] \in Seq(Chunks)
        BY <1>3, <1>5, SavedIs DEF Leaving, Of
      <4> QED BY <4>1 DEF Entries
    <3> QED BY <3>1, <3>2
  <2> QED BY <2>1, <2>2, <2>3, <2>4 DEF Ranged
<1>12. \A l \in LevelSet : \A u \in v.q[l] :
          \/ u \in w.q[l]
          \/ \E c \in new : c \in Chunks /\ LevelOf[c] = l /\ u = <<c, 1>>
  BY <1>1 DEF Of
<1>13. \A l \in LevelSet : \A u \in w.q[l] : /\ w.at[u[1]] = "coming" /\ u[1] \in Chunks
                                             /\ u[1] \notin Gone(w) /\ u[1] \notin new
                                             /\ v.at[u[1]] = "coming" /\ u[2] \in 1..Steps[u[1]]
  <2> SUFFICES ASSUME NEW l \in LevelSet, NEW u \in w.q[l]
               PROVE  /\ w.at[u[1]] = "coming" /\ u[1] \in Chunks
                      /\ u[1] \notin Gone(w) /\ u[1] \notin new
                      /\ v.at[u[1]] = "coming" /\ u[2] \in 1..Steps[u[1]]
    OBVIOUS
  <2>1. w.at[u[1]] = "coming" /\ u[1] \in Chunks /\ u[2] \in 1..Steps[u[1]]
    BY <1>2, <1>3 DEF Queued
  <2>2. u[1] \notin Gone(w) /\ u[1] \notin new
    BY <1>7, <1>10, <2>1
  <2> QED BY <1>8, <2>1, <2>2
<1>14. Queued(v)
  <2> SUFFICES ASSUME NEW l \in LevelSet
               PROVE  /\ \A u \in v.q[l] : v.at[u[1]] = "coming" /\ u[2] \in 1..Steps[u[1]]
                      /\ \A u, x \in v.q[l] : u[1] = x[1] => u = x
    BY DEF Queued
  <2>1. ASSUME NEW u \in v.q[l] PROVE v.at[u[1]] = "coming" /\ u[2] \in 1..Steps[u[1]]
    <3>1. CASE u \in w.q[l]
      BY <1>13, <3>1
    <3>2. CASE \E c \in new : c \in Chunks /\ LevelOf[c] = l /\ u = <<c, 1>>
      <4>1. PICK c \in new : c \in Chunks /\ u = <<c, 1>>
        BY <3>2
      <4>2. v.at[c] = "coming" /\ 1 \in 1..Steps[c]
        BY <1>8, <4>1, WorkAssumption
      <4> QED BY <4>1, <4>2
    <3> QED BY <1>12, <3>1, <3>2
  <2>2. ASSUME NEW u \in v.q[l], NEW x \in v.q[l], u[1] = x[1] PROVE u = x
    <3>1. CASE u \in w.q[l] /\ x \in w.q[l]
      BY <1>2, <2>2, <3>1 DEF Queued
    <3>2. CASE u \notin w.q[l] /\ x \notin w.q[l]
      BY <1>12, <2>2, <3>2
    <3>3. CASE u \in w.q[l] /\ x \notin w.q[l]
      BY <1>12, <1>13, <2>2, <3>3
    <3>4. CASE u \notin w.q[l] /\ x \in w.q[l]
      BY <1>12, <1>13, <2>2, <3>4
    <3> QED BY <3>1, <3>2, <3>3, <3>4
  <2> QED BY <2>1, <2>2
<1>15. Comes(v)
  <2> SUFFICES ASSUME NEW c \in Chunks, v.at[c] = "coming"
               PROVE  \E u \in v.q[LevelOf[c]] : u[1] = c
    BY DEF Comes
  <2>1. LevelOf[c] \in LevelSet
    BY WorkAssumption
  <2>2. CASE c \in new
    <3>1. <<c, 1>> \in v.q[LevelOf[c]] /\ <<c, 1>>[1] = c
      BY <1>1, <2>1, <2>2 DEF Of
    <3> QED BY <3>1
  <2>3. CASE c \notin new
    <3>1. w.at[c] = "coming"
      BY <1>8, <2>3
    <3>2. PICK u \in w.q[LevelOf[c]] : u[1] = c
      BY <1>2, <3>1 DEF Comes
    <3>3. u \in v.q[LevelOf[c]]
      BY <1>1, <2>1, <3>2
    <3> QED BY <3>2, <3>3
  <2> QED BY <2>2, <2>3
<1>16. Entering(v)
  BY <1>1 DEF Entering, IsInjective, Range
<1>17. Unloading(v)
  <2> SUFFICES ASSUME NEW l \in LevelSet
               PROVE  /\ IsInjective(Waiting(v, l))
                      /\ \A c \in Range(Waiting(v, l)) : LevelOf[c] = l /\ v.at[c] = "saving"
    BY DEF Unloading
  <2> DEFINE n == Names(w.writes[l])
             x == Names(Unloaded(w, l))
  <2>1. Waiting(v, l) = n \o x
    <3>1. v.unload[l] = <<>> /\ v.writes[l] = (w.writes[l] \o Unloaded(w, l)) \o Saved(w, l, now)
      BY <1>1
    <3>2. Names(v.writes[l]) = n \o x
      BY <1>5, <3>1, WritesOfBody
    <3>3. n \o x \in Seq(Chunks)
      <4>1. n \in Seq(Chunks) /\ x \in Seq(Chunks)
        BY <1>5, UnloadedIs
      <4> HIDE DEF n, x
      <4> QED BY <4>1
    <3> HIDE DEF n, x
    <3> QED BY <3>1, <3>2, <3>3 DEF Waiting
  <2>2. /\ n \in Seq(Chunks) /\ IsInjective(n) /\ Range(n) \subseteq Chunks
        /\ x \in Seq(Chunks) /\ IsInjective(x) /\ Range(x) = Leaving(w, l)
    BY <1>5, <1>6, UnloadedIs
  <2>3. \A c \in Range(n) : LevelOf[c] = l /\ w.at[c] = "saving" /\ c \notin Gone(w)
    <3> SUFFICES ASSUME NEW c \in Range(n)
                 PROVE  LevelOf[c] = l /\ w.at[c] = "saving" /\ c \notin Gone(w)
      OBVIOUS
    <3>1. LevelOf[c] = l /\ w.at[c] = "saving"
      BY <1>2, <1>6 DEF Unloading
    <3>2. c \notin Range(w.unload[l])
      BY <1>6
    <3> QED BY <1>7, <3>1, <3>2
  <2>4. \A c \in Leaving(w, l) : c \in Chunks /\ LevelOf[c] = l /\ w.at[c] = "leaving"
    BY DEF Leaving, Of
  <2> HIDE DEF n, x
  <2>5. Range(n) \cap Range(x) = {}
    BY <2>2, <2>3, <2>4
  <2>6. IsInjective(n \o x) /\ Range(n \o x) = Range(n) \cup Range(x)
    BY <2>2, <2>5, InjectiveBoth
  <2>7. \A c \in Range(n) : v.at[c] = "saving"
    BY <1>8, <1>10, <2>2, <2>3
  <2>8. \A c \in Range(x) : v.at[c] = "saving"
    BY <1>8, <2>2, <2>4
  <2> QED BY <2>1, <2>2, <2>3, <2>4, <2>6, <2>7, <2>8
<1> QED BY <1>11, <1>14, <1>15, <1>16, <1>17 DEF Placed, v

-----------------------------------------------------------------------------
(* An autosave.                                                            *)

LEMMA SaveAllIs ==
  ASSUME NEW w, IsWorld(w), NEW now
  PROVE  LET v == saveAllChunks(w, now)
         IN  /\ DOMAIN v = Fields /\ v.q = w.q /\ v.at = w.at /\ v.inbox = w.inbox /\ v.live = w.live
             /\ v.key = w.key /\ v.level = w.level /\ v.master = w.master
             /\ v.log = w.log /\ v.unload = w.unload
             /\ v.writes = [l \in LevelSet |-> w.writes[l] \o Handed(Loaded(w, l), FALSE)]
             /\ v.saved = [c \in Chunks |-> IF c \in Loaded(w, LevelOf[c])
                                            THEN now + Resave ELSE w.saved[c]]
BY DEF saveAllChunks, IsWorld, Fields

(* It adds no unload to what waits.                                        *)
LEMMA SaveAllWrites ==
  ASSUME NEW w, IsWorld(w), Ranged(w), NEW now, NEW l \in LevelSet
  PROVE  LET s == saveAllChunks(w, now).writes[l]
         IN  /\ s \in Seq(Writes) /\ Unloads(s) = Unloads(w.writes[l])
             /\ Names(s) = Names(w.writes[l])
<1> DEFINE r == w.writes[l]
           h == Handed(Loaded(w, l), FALSE)
<1>1. Loaded(w, l) \in SUBSET Chunks
  BY DEF Loaded, Of
<1>2. /\ r \in Seq(Writes) /\ h \in Seq(Writes) /\ Unloads(h) = <<>> /\ Names(h) = <<>>
  BY <1>1, WritesAre, HandedIs
<1>3. saveAllChunks(w, now).writes[l] = r \o h
  <2> DEFINE v == saveAllChunks(w, now)
  <2>1. v.writes = [j \in LevelSet |-> w.writes[j] \o Handed(Loaded(w, j), FALSE)]
    BY SaveAllIs
  <2> HIDE DEF v
  <2>2. v.writes[l] = r \o h
    BY <2>1
  <2> QED BY <2>2 DEF v
<1> HIDE DEF r, h
<1>4. Unloads(r \o h) = Unloads(r) \o <<>> /\ Names(r \o h) = Names(r) \o <<>>
  BY <1>2, UnloadsOfBoth, NamesOfBoth
<1>5. Unloads(r) \in Seq(Writes) /\ Names(r) \in Seq(Chunks)
  BY <1>2, UnloadsAreTyped, NamesAre
<1>6. \A S : \A a \in Seq(S) : a \o <<>> = a
  OBVIOUS
<1>7. r \o h \in Seq(Writes) /\ Unloads(r \o h) = Unloads(r) /\ Names(r \o h) = Names(r)
  BY <1>2, <1>4, <1>5, <1>6
<1> QED BY <1>3, <1>7 DEF r

LEMMA SaveAllDoes ==
  ASSUME NEW w, IsWorld(w), NEW m, Keyed(w, m), NEW now
  PROVE  IsWorld(saveAllChunks(w, now)) /\ Keyed(saveAllChunks(w, now), m)
<1> DEFINE v == saveAllChunks(w, now)
<1>1. /\ DOMAIN v = Fields /\ v.q = w.q /\ v.inbox = w.inbox /\ v.live = w.live
      /\ v.key = w.key /\ v.level = w.level /\ v.master = w.master
  BY SaveAllIs
<1> HIDE DEF v
<1>2. /\ v.q \in [LevelSet -> SUBSET (Chunks \X Nat)]
      /\ \A k \in LevelSet : \A t \in v.q[k] : LevelOf[t[1]] = k
  BY <1>1 DEF IsWorld
<1>3. IsWorld(v) /\ Keyed(v, m)
  BY <1>1, <1>2, OnlyTheQueues
<1> QED BY <1>3 DEF v

LEMMA SaveAllPlaces ==
  ASSUME NEW w, IsWorld(w), Placed(w), NEW now
  PROVE  Placed(saveAllChunks(w, now))
<1> DEFINE v == saveAllChunks(w, now)
<1>1. Ranged(w)
  BY DEF Placed
<1>6. /\ v.q = w.q /\ v.at = w.at /\ v.inbox = w.inbox /\ v.unload = w.unload
      /\ v.log = w.log
      /\ v.writes = [l \in LevelSet |-> w.writes[l] \o Handed(Loaded(w, l), FALSE)]
  BY SaveAllIs
<1>7. \A l \in LevelSet : v.writes[l] \in Seq(Writes) /\ Names(v.writes[l]) = Names(w.writes[l])
  BY <1>1, SaveAllWrites
<1> HIDE DEF v
<1>2. /\ v.q = w.q /\ v.at = w.at /\ v.inbox = w.inbox /\ v.unload = w.unload
      /\ v.log = w.log /\ v.writes = [l \in LevelSet |-> v.writes[l]]
      /\ \A l \in LevelSet : v.writes[l] \in Seq(Writes) /\ Names(v.writes[l]) = Names(w.writes[l])
  BY <1>6, <1>7
<1>3. /\ v.log \in [LevelSet -> Seq(Entries)] /\ v.writes \in [LevelSet -> Seq(Writes)]
      /\ v.unload \in [LevelSet -> Seq(Chunks)]
  BY <1>1, <1>2 DEF Ranged
<1>4. \A l \in LevelSet : Waiting(v, l) = Waiting(w, l)
  BY <1>2 DEF Waiting
<1>5. Placed(v)
  BY <1>2, <1>3, <1>4, SamePlaces
<1> QED BY <1>5 DEF v

-----------------------------------------------------------------------------
(* All chunk work at once.                                                 *)

Comers(w, l) == AsPopped({t[1] : t \in w.q[l]})
Reads(w, l)  == AsPopped(ToRead(w, l))
Ins(s)       == [i \in DOMAIN s |-> <<"in", s[i]>>]

FinishFields(v, w) ==
  /\ DOMAIN v = Fields /\ v.writes = w.writes /\ v.unload = w.unload /\ v.live = w.live
  /\ v.saved = w.saved /\ v.level = w.level /\ v.master = w.master
  /\ v.q = [l \in LevelSet |-> {}]
  /\ v.at = [c \in Chunks |-> IF w.at[c] = "coming" THEN "in" ELSE w.at[c]]
  /\ v.inbox = [l \in LevelSet |-> w.inbox[l] \o Reads(w, l)]
  /\ v.key = [c \in Chunks |-> IF c \in ToRead(w, LevelOf[c]) THEN w.master ELSE w.key[c]]
  /\ v.log = [l \in LevelSet |-> w.log[l] \o Ins(Comers(w, l))]

LEMMA FinishIs ==
  ASSUME NEW w, IsWorld(w)
  PROVE  FinishFields(Finish(w), w)
<1> DEFINE all  == [l \in LevelSet |-> AsPopped({t[1] : t \in w.q[l]})]
           read == [l \in LevelSet |-> AsPopped(ToRead(w, l))]
           I(l) == [i \in DOMAIN all[l] |-> <<"in", all[l][i]>>]
           B    == w.born \o FlattenSeq([i \in DOMAIN Levels |-> read[Levels[i]]])
           v    == Finish(w)
<1>1. v = [w EXCEPT
             !.q     = [l \in LevelSet |-> {}],
             !.at    = [c \in Chunks |-> IF w.at[c] = "coming" THEN "in" ELSE w.at[c]],
             !.inbox = [l \in LevelSet |-> w.inbox[l] \o read[l]],
             !.key   = [c \in Chunks |-> IF c \in ToRead(w, LevelOf[c]) THEN w.master
                                         ELSE w.key[c]],
             !.log   = [l \in LevelSet |-> w.log[l] \o I(l)],
             !.born  = B]
  BY DEF Finish
<1>2. \A l \in LevelSet : all[l] = Comers(w, l) /\ read[l] = Reads(w, l)
  BY DEF Comers, Reads
<1>3. \A l \in LevelSet : I(l) = Ins(all[l])
  BY DEF Ins
<1> HIDE DEF all, read, I, B, v
<1>4. /\ DOMAIN v = Fields /\ v.writes = w.writes /\ v.unload = w.unload /\ v.live = w.live
      /\ v.saved = w.saved /\ v.level = w.level /\ v.master = w.master
      /\ v.q = [l \in LevelSet |-> {}]
      /\ v.at = [c \in Chunks |-> IF w.at[c] = "coming" THEN "in" ELSE w.at[c]]
      /\ v.inbox = [l \in LevelSet |-> w.inbox[l] \o read[l]]
      /\ v.key = [c \in Chunks |-> IF c \in ToRead(w, LevelOf[c]) THEN w.master ELSE w.key[c]]
      /\ v.log = [l \in LevelSet |-> w.log[l] \o I(l)]
  BY <1>1 DEF IsWorld, Fields
<1>5. v.inbox = [l \in LevelSet |-> w.inbox[l] \o Reads(w, l)]
  <2>1. ASSUME NEW l \in LevelSet PROVE v.inbox[l] = w.inbox[l] \o Reads(w, l)
    <3>1. v.inbox[l] = w.inbox[l] \o read[l]
      BY <1>4
    <3>2. read[l] = Reads(w, l)
      BY <1>2
    <3> QED BY <3>1, <3>2
  <2>2. v.inbox = [l \in LevelSet |-> v.inbox[l]]
    BY <1>4
  <2> QED BY <2>1, <2>2
<1>6. v.log = [l \in LevelSet |-> w.log[l] \o Ins(Comers(w, l))]
  <2>1. ASSUME NEW l \in LevelSet PROVE v.log[l] = w.log[l] \o Ins(Comers(w, l))
    <3>1. v.log[l] = w.log[l] \o I(l)
      BY <1>4
    <3>2. I(l) = Ins(Comers(w, l))
      BY <1>2, <1>3
    <3> QED BY <3>1, <3>2
  <2>2. v.log = [l \in LevelSet |-> v.log[l]]
    BY <1>4
  <2> QED BY <2>1, <2>2
<1> QED BY <1>4, <1>5, <1>6 DEF FinishFields, v

LEMMA ComersAre ==
  ASSUME NEW w, IsWorld(w), NEW l \in LevelSet
  PROVE  /\ {t[1] : t \in w.q[l]} \in SUBSET Chunks
         /\ ToRead(w, l) \in SUBSET Chunks
         /\ Comers(w, l) \in Seq(Chunks) /\ Ins(Comers(w, l)) \in Seq(Entries)
         /\ Reads(w, l) \in Seq(Chunks) /\ IsInjective(Reads(w, l))
         /\ Range(Reads(w, l)) = ToRead(w, l)
<1> DEFINE S == {t[1] : t \in w.q[l]}
           R == ToRead(w, l)
           s == Comers(w, l)
           r == Reads(w, l)
<1>1. S \in SUBSET Chunks /\ R \in SUBSET Chunks
  BY DEF IsWorld, Of, ToRead
<1>2. s = AsPopped(S) /\ r = AsPopped(R)
  BY DEF Comers, Reads
<1> HIDE DEF S, R, s, r
<1>3. Along(s, S, BeforeOf) /\ Along(r, R, BeforeOf) /\ Linear(BeforeOf, R)
  BY <1>1, <1>2, AsPoppedIs, BeforeIsLinear, LinearBelow
<1>4. s \in Seq(Chunks) /\ r \in Seq(Chunks) /\ Range(r) = R /\ IsInjective(r)
  <2>1. s \in Seq(S) /\ r \in Seq(R) /\ Range(r) = R
    BY <1>3 DEF Along
  <2> QED BY <1>1, <1>3, <2>1, AlongIsInjective
<1>5. Ins(s) \in Seq(Entries)
  <2>1. DOMAIN s = 1..Len(s) /\ Len(s) \in Nat /\ \A i \in 1..Len(s) : s[i] \in Chunks
    BY <1>4
  <2>2. \A c \in Chunks : <<"in", c>> \in Entries
    BY DEF Entries
  <2>3. Ins(s) \in [1..Len(s) -> Entries]
    BY <2>1, <2>2 DEF Ins
  <2> QED BY <2>1, <2>3
<1> QED BY <1>1, <1>4, <1>5 DEF S, R, s, r

LEMMA FinishDoes ==
  ASSUME NEW w, IsWorld(w), NEW m, Keyed(w, Chunks)
  PROVE  IsWorld(Finish(w)) /\ Keyed(Finish(w), Chunks)
<1> DEFINE v == Finish(w)
<1>1. FinishFields(v, w)
  BY FinishIs
<1> HIDE DEF v
<1>2. \A l \in LevelSet : /\ w.inbox[l] \in Seq(Chunks) /\ Reads(w, l) \in Seq(Chunks)
                          /\ Range(Reads(w, l)) \subseteq Of(l)
                          /\ v.inbox[l] = w.inbox[l] \o Reads(w, l) /\ v.inbox[l] \in Seq(Chunks)
  <2> SUFFICES ASSUME NEW l \in LevelSet
               PROVE  /\ w.inbox[l] \in Seq(Chunks) /\ Reads(w, l) \in Seq(Chunks)
                      /\ Range(Reads(w, l)) \subseteq Of(l)
                      /\ v.inbox[l] = w.inbox[l] \o Reads(w, l) /\ v.inbox[l] \in Seq(Chunks)
    OBVIOUS
  <2>1. w.inbox[l] \in Seq(Chunks) /\ Reads(w, l) \in Seq(Chunks)
        /\ Range(Reads(w, l)) \subseteq Of(l)
    BY ComersAre DEF IsWorld, ToRead
  <2>2. v.inbox[l] = w.inbox[l] \o Reads(w, l)
    BY <1>1 DEF FinishFields
  <2> QED BY <2>1, <2>2
<1>3. \A l \in LevelSet : Range(v.inbox[l]) = Range(w.inbox[l]) \cup Range(Reads(w, l))
  <2> SUFFICES ASSUME NEW l \in LevelSet
               PROVE  Range(v.inbox[l]) = Range(w.inbox[l]) \cup Range(Reads(w, l))
    OBVIOUS
  <2> DEFINE a == w.inbox[l]
             b == Reads(w, l)
  <2>1. a \in Seq(Chunks) /\ b \in Seq(Chunks) /\ v.inbox[l] = a \o b
    BY <1>2
  <2> HIDE DEF a, b
  <2>2. Range(a \o b) = Range(a) \cup Range(b)
    BY <2>1, InjectiveBoth
  <2> QED BY <2>1, <2>2 DEF a, b
<1>4. v.inbox \in [LevelSet -> Seq(Chunks)]
  <2>1. v.inbox = [l \in LevelSet |-> w.inbox[l] \o Reads(w, l)]
    BY <1>1 DEF FinishFields
  <2> QED BY <1>2, <2>1
<1>5. /\ DOMAIN v = Fields /\ v.q = [l \in LevelSet |-> {}]
      /\ v.live = w.live /\ v.level = w.level /\ v.master = w.master
      /\ v.key = [c \in Chunks |-> IF c \in ToRead(w, LevelOf[c]) THEN w.master ELSE w.key[c]]
  BY <1>1 DEF FinishFields
<1>6. v.key \in [Chunks -> Nat]
  BY <1>5 DEF IsWorld
<1>7. \A l \in LevelSet : \A c \in v.live[l] \cup Range(v.inbox[l]) : LevelOf[c] = l
  BY <1>2, <1>3, <1>5 DEF IsWorld, Of
<1>8. IsWorld(v)
  BY <1>4, <1>5, <1>6, <1>7 DEF IsWorld
<1>9. Keyed(v, Chunks)
  <2>1. \A l \in LevelSet : v.live[l] \cup Range(v.inbox[l]) \subseteq Chunks
    BY <1>8, HomeIsChunk
  <2>2. \A l \in LevelSet : v.level[l] = v.master
    BY <1>5 DEF Keyed
  <2> QED BY <2>1, <2>2 DEF Keyed
<1> QED BY <1>8, <1>9 DEF v

LEMMA FastDoes ==
  ASSUME NEW w, IsWorld(w), NEW m, Keyed(w, m)
  PROVE  IsWorld(Fast(w)) /\ Keyed(Fast(w), m)
<1> DEFINE v == Fast(w)
<1>1. /\ DOMAIN v = Fields /\ v.q = w.q /\ v.inbox = w.inbox /\ v.live = w.live
      /\ v.key = w.key /\ v.level = w.level /\ v.master = w.master
  BY FastIs
<1> HIDE DEF v
<1>2. /\ v.q \in [LevelSet -> SUBSET (Chunks \X Nat)]
      /\ \A k \in LevelSet : \A t \in v.q[k] : LevelOf[t[1]] = k
  BY <1>1 DEF IsWorld
<1>3. IsWorld(v) /\ Keyed(v, m)
  BY <1>1, <1>2, OnlyTheQueues
<1> QED BY <1>3 DEF v

LEMMA FinishPlaces ==
  ASSUME NEW w, IsWorld(w), Placed(w)
  PROVE  Placed(Finish(w))
<1> DEFINE v == Finish(w)
<1>1. FinishFields(v, w)
  BY FinishIs
<1> HIDE DEF v
<1>2. Ranged(w) /\ Queued(w) /\ Comes(w) /\ Entering(w) /\ Unloading(w)
  BY DEF Placed
<1>3. /\ v.writes = w.writes /\ v.unload = w.unload
      /\ v.q = [l \in LevelSet |-> {}]
      /\ v.at = [c \in Chunks |-> IF w.at[c] = "coming" THEN "in" ELSE w.at[c]]
      /\ \A l \in LevelSet : v.inbox[l] = w.inbox[l] \o Reads(w, l)
      /\ v.log = [l \in LevelSet |-> w.log[l] \o Ins(Comers(w, l))]
  BY <1>1 DEF FinishFields
<1>4. /\ v.at \in [Chunks -> Places]
      /\ \A c \in Chunks : /\ v.at[c] = IF w.at[c] = "coming" THEN "in" ELSE w.at[c]
                           /\ v.at[c] # "coming"
  BY <1>2, <1>3 DEF Ranged, Places
<1>5. Ranged(v)
  <2>1. \A l \in LevelSet : w.log[l] \o Ins(Comers(w, l)) \in Seq(Entries)
    <3> SUFFICES ASSUME NEW l \in LevelSet
                 PROVE  w.log[l] \o Ins(Comers(w, l)) \in Seq(Entries)
      OBVIOUS
    <3>1. w.log[l] \in Seq(Entries) /\ Ins(Comers(w, l)) \in Seq(Entries)
      BY <1>2, ComersAre DEF Ranged
    <3> QED BY <3>1
  <2>2. v.log \in [LevelSet -> Seq(Entries)]
    BY <1>3, <2>1
  <2> QED BY <1>2, <1>3, <1>4, <2>2 DEF Ranged
<1>6. Queued(v)
  BY <1>3 DEF Queued
<1>7. Comes(v)
  BY <1>4 DEF Comes
<1>8. Entering(v)
  <2> SUFFICES ASSUME NEW l \in LevelSet
               PROVE  /\ IsInjective(v.inbox[l])
                      /\ \A c \in Range(v.inbox[l]) : v.at[c] \in {"coming", "in", "leaving"}
    BY <1>3 DEF Entering
  <2> DEFINE a == w.inbox[l]
             b == Reads(w, l)
  <2>1. /\ a \in Seq(Chunks) /\ b \in Seq(Chunks) /\ v.inbox[l] = a \o b
        /\ IsInjective(a) /\ IsInjective(b)
        /\ Range(b) = ToRead(w, l)
    BY <1>2, <1>3, ComersAre DEF IsWorld, Entering
  <2>2. /\ Range(a) \subseteq Chunks
        /\ \A c \in Range(a) : w.at[c] \in {"coming", "in", "leaving"} /\ <<c, 1>> \notin w.q[l]
    BY <1>2, <2>1 DEF Entering, Range
  <2>3. \A c \in Range(b) : c \in Chunks /\ <<c, 1>> \in w.q[l] /\ w.at[c] = "coming"
    <3> SUFFICES ASSUME NEW c \in Range(b)
                 PROVE  c \in Chunks /\ <<c, 1>> \in w.q[l] /\ w.at[c] = "coming"
      OBVIOUS
    <3>1. c \in Chunks /\ <<c, 1>> \in w.q[l]
      BY <2>1 DEF Of, ToRead
    <3>2. w.at[<<c, 1>>[1]] = "coming"
      BY <1>2, <3>1 DEF Queued
    <3> QED BY <3>1, <3>2
  <2> HIDE DEF a, b
  <2>4. Range(a) \cap Range(b) = {}
    BY <2>2, <2>3
  <2>5. IsInjective(a \o b) /\ Range(a \o b) = Range(a) \cup Range(b)
    BY <2>1, <2>4, InjectiveBoth
  <2>6. \A c \in Range(a) \cup Range(b) : v.at[c] \in {"coming", "in", "leaving"}
    BY <1>4, <2>2, <2>3
  <2> QED BY <2>1, <2>5, <2>6
<1>9. Unloading(v)
  <2>1. \A c \in Chunks : w.at[c] = "saving" => v.at[c] = "saving"
    BY <1>4
  <2> QED BY <1>2, <1>3, <2>1, UnloadingKept
<1> QED BY <1>5, <1>6, <1>7, <1>8, <1>9 DEF Placed, v

-----------------------------------------------------------------------------
(* Two worlds that differ in their writes and births at most, and in the   *)
(* unloads that may go ahead.                                              *)

Same(w, v) ==
  /\ w.q = v.q /\ w.at = v.at /\ w.inbox = v.inbox /\ w.live = v.live /\ w.saved = v.saved
  /\ w.key = v.key /\ w.level = v.level /\ w.master = v.master /\ w.log = v.log

LEMMA SameIsTransitive ==
  ASSUME NEW u, NEW w, NEW v, Same(u, w), Same(w, v)
  PROVE  Same(u, v)
BY DEF Same

LEMMA SameFinish ==
  ASSUME NEW w, IsWorld(w), NEW v, IsWorld(v), Same(w, v)
  PROVE  Same(Finish(w), Finish(v))
<1> DEFINE x == Finish(w)
           y == Finish(v)
<1>1. FinishFields(x, w) /\ FinishFields(y, v)
  BY FinishIs
<1> HIDE DEF x, y
<1>2. \A l \in LevelSet : Comers(w, l) = Comers(v, l) /\ Reads(w, l) = Reads(v, l)
  BY DEF Same, Comers, Reads, ToRead
<1>3. x.inbox = y.inbox
  <2>1. /\ x.inbox = [l \in LevelSet |-> w.inbox[l] \o Reads(w, l)]
        /\ y.inbox = [l \in LevelSet |-> v.inbox[l] \o Reads(v, l)]
    BY <1>1 DEF FinishFields
  <2>2. ASSUME NEW l \in LevelSet PROVE x.inbox[l] = y.inbox[l]
    <3>1. Reads(w, l) = Reads(v, l) /\ w.inbox = v.inbox
      BY <1>2 DEF Same
    <3> QED BY <2>1, <3>1
  <2>3. x.inbox = [l \in LevelSet |-> x.inbox[l]] /\ y.inbox = [l \in LevelSet |-> y.inbox[l]]
    BY <2>1
  <2> QED BY <2>2, <2>3
<1>4. x.log = y.log
  <2>1. /\ x.log = [l \in LevelSet |-> w.log[l] \o Ins(Comers(w, l))]
        /\ y.log = [l \in LevelSet |-> v.log[l] \o Ins(Comers(v, l))]
    BY <1>1 DEF FinishFields
  <2>2. ASSUME NEW l \in LevelSet PROVE x.log[l] = y.log[l]
    <3>1. Comers(w, l) = Comers(v, l) /\ w.log = v.log
      BY <1>2 DEF Same
    <3> QED BY <2>1, <3>1
  <2>3. x.log = [l \in LevelSet |-> x.log[l]] /\ y.log = [l \in LevelSet |-> y.log[l]]
    BY <2>1
  <2> QED BY <2>2, <2>3
<1>5. x.q = y.q /\ x.live = y.live /\ x.saved = y.saved /\ x.level = y.level
      /\ x.master = y.master
  BY <1>1 DEF FinishFields, Same
<1>6. x.at = y.at /\ x.key = y.key
  <2>1. /\ x.at = [c \in Chunks |-> IF w.at[c] = "coming" THEN "in" ELSE w.at[c]]
        /\ x.key = [c \in Chunks |-> IF c \in ToRead(w, LevelOf[c]) THEN w.master ELSE w.key[c]]
        /\ y.at = [c \in Chunks |-> IF v.at[c] = "coming" THEN "in" ELSE v.at[c]]
        /\ y.key = [c \in Chunks |-> IF c \in ToRead(v, LevelOf[c]) THEN v.master ELSE v.key[c]]
    BY <1>1 DEF FinishFields
  <2>2. w.at = v.at /\ w.key = v.key /\ w.master = v.master
        /\ \A l : ToRead(w, l) = ToRead(v, l)
    BY DEF Same, ToRead
  <2> QED BY <2>1, <2>2
<1>7. Same(x, y)
  BY <1>3, <1>4, <1>5, <1>6 DEF Same
<1> QED BY <1>7 DEF x, y

LEMMA SameForget ==
  ASSUME NEW w, IsWorld(w), NEW v, IsWorld(v), Same(w, v)
  PROVE  Same(Forget(w), Forget(v))
BY ForgetIs DEF Same

LEMMA SameDo ==
  ASSUME NEW w, IsWorld(w), NEW v, IsWorld(v), Same(w, v), NEW cmd \in Commands
  PROVE  Same(Do(w, cmd), Do(v, cmd))
<1>1. cmd[1] \in {"load", "drop", "reseed"} /\ (cmd[1] # "reseed" => cmd[2] \in Chunks)
  BY TickAssumption
<1> DEFINE x == Do(w, cmd)
           y == Do(v, cmd)
           c == cmd[2]
<1>2. CASE cmd[1] = "load"
  <2>1. /\ x = Request(Log(w, LevelOf[c], "load", c), c)
        /\ y = Request(Log(v, LevelOf[c], "load", c), c)
    BY <1>2 DEF Do
  <2> c \in Chunks
    BY <1>1, <1>2
  <2> HIDE DEF x, y, c
  <2> USE <2>1
  <2>2. /\ x.live = w.live /\ x.saved = w.saved /\ x.level = w.level /\ x.master = w.master
        /\ x.inbox = w.inbox /\ x.key = w.key
        /\ x.log = [w.log EXCEPT ![LevelOf[c]] = Append(@, <<"load", c>>)]
        /\ x.at = IF w.at[c] = "out" THEN [w.at EXCEPT ![c] = "coming"] ELSE w.at
        /\ x.q = IF w.at[c] = "out" THEN [w.q EXCEPT ![LevelOf[c]] = @ \cup {<<c, 1>>}] ELSE w.q
    BY ONLY IsWorld(w), c \in Chunks, x = Request(Log(w, LevelOf[c], "load", c), c), LoadIs
  <2>3. /\ y.live = v.live /\ y.saved = v.saved /\ y.level = v.level /\ y.master = v.master
        /\ y.inbox = v.inbox /\ y.key = v.key
        /\ y.log = [v.log EXCEPT ![LevelOf[c]] = Append(@, <<"load", c>>)]
        /\ y.at = IF v.at[c] = "out" THEN [v.at EXCEPT ![c] = "coming"] ELSE v.at
        /\ y.q = IF v.at[c] = "out" THEN [v.q EXCEPT ![LevelOf[c]] = @ \cup {<<c, 1>>}] ELSE v.q
    BY ONLY IsWorld(v), c \in Chunks, y = Request(Log(v, LevelOf[c], "load", c), c), LoadIs
  <2> QED BY <2>2, <2>3 DEF Same, x, y
<1>3. CASE cmd[1] = "drop"
  <2>1. /\ x.live = w.live /\ x.saved = w.saved /\ x.level = w.level /\ x.master = w.master
        /\ x.inbox = w.inbox /\ x.key = w.key /\ x.log = w.log /\ x.q = w.q
        /\ x.at = IF w.at[c] = "in" THEN [w.at EXCEPT ![c] = "leaving"] ELSE w.at
    BY <1>3, DropIs
  <2>2. /\ y.live = v.live /\ y.saved = v.saved /\ y.level = v.level /\ y.master = v.master
        /\ y.inbox = v.inbox /\ y.key = v.key /\ y.log = v.log /\ y.q = v.q
        /\ y.at = IF v.at[c] = "in" THEN [v.at EXCEPT ![c] = "leaving"] ELSE v.at
    BY <1>3, DropIs
  <2> HIDE DEF x, y
  <2> QED BY <2>1, <2>2 DEF Same, x, y
<1>4. CASE cmd[1] = "reseed"
  <2>1. x = reseed(w) /\ y = reseed(v)
    BY <1>4 DEF Do
  <2> HIDE DEF x, y
  <2>2. /\ x.live = w.live /\ x.saved = w.saved /\ x.inbox = w.inbox /\ x.log = w.log
        /\ x.q = w.q /\ x.at = w.at /\ x.master = w.master + 1
        /\ x.level = [l \in LevelSet |-> w.master + 1]
        /\ x.key = [d \in Chunks |-> IF d \in w.live[LevelOf[d]] THEN w.master + 1 ELSE w.key[d]]
    BY <2>1, ReseedIs
  <2>3. /\ y.live = v.live /\ y.saved = v.saved /\ y.inbox = v.inbox /\ y.log = v.log
        /\ y.q = v.q /\ y.at = v.at /\ y.master = v.master + 1
        /\ y.level = [l \in LevelSet |-> v.master + 1]
        /\ y.key = [d \in Chunks |-> IF d \in v.live[LevelOf[d]] THEN v.master + 1 ELSE v.key[d]]
    BY <2>1, ReseedIs
  <2> QED BY <2>2, <2>3 DEF Same, x, y
<1> QED BY <1>1, <1>2, <1>3, <1>4

(* A command leaves writes and unloads alone.                              *)
LEMMA DoKeeps ==
  ASSUME NEW w, IsWorld(w), NEW cmd \in Commands
  PROVE  Do(w, cmd).writes = w.writes /\ Do(w, cmd).unload = w.unload
<1>1. cmd[1] \in {"load", "drop", "reseed"} /\ (cmd[1] # "reseed" => cmd[2] \in Chunks)
  BY TickAssumption
<1>2. CASE cmd[1] = "load"
  <2> DEFINE x == Do(w, cmd)
             c == cmd[2]
  <2>1. x = Request(Log(w, LevelOf[c], "load", c), c)
    BY <1>2 DEF Do
  <2> c \in Chunks
    BY <1>1, <1>2
  <2> HIDE DEF x, c
  <2> USE <2>1
  <2>2. /\ x.writes = w.writes /\ x.unload = w.unload
        /\ x.log = [w.log EXCEPT ![LevelOf[c]] = Append(@, <<"load", c>>)]
        /\ x.at = IF w.at[c] = "out" THEN [w.at EXCEPT ![c] = "coming"] ELSE w.at
        /\ x.q = IF w.at[c] = "out" THEN [w.q EXCEPT ![LevelOf[c]] = @ \cup {<<c, 1>>}] ELSE w.q
    BY ONLY IsWorld(w), c \in Chunks, x = Request(Log(w, LevelOf[c], "load", c), c), LoadIs
  <2> QED BY <2>2 DEF x
<1>3. CASE cmd[1] = "drop"
  BY <1>3, DropIs
<1>4. CASE cmd[1] = "reseed"
  <2>1. Do(w, cmd) = reseed(w)
    BY <1>4 DEF Do
  <2>2. reseed(w).writes = w.writes /\ reseed(w).unload = w.unload
    BY ReseedIs
  <2> QED BY <2>1, <2>2
<1> QED BY <1>1, <1>2, <1>3, <1>4

LEMMA SameBody ==
  ASSUME NEW w, IsWorld(w), NEW v, IsWorld(v), Same(w, v), w.unload = v.unload,
         NEW asked, NEW now
  PROVE  /\ Same(Body(w, asked, now), Body(v, asked, now))
         /\ Body(w, asked, now).unload = Body(v, asked, now).unload
         /\ \A l \in LevelSet : Unloaded(w, l) = Unloaded(v, l)
<1> DEFINE x == Body(w, asked, now)
           y == Body(v, asked, now)
<1>1. BodyFields(x, w, asked, now) /\ BodyFields(y, v, asked, now)
  BY BodyIs
<1> HIDE DEF x, y
<1>2. \A l : Leaving(w, l) = Leaving(v, l) /\ SaveDue(w, l, now) = SaveDue(v, l, now)
  BY DEF Same, Leaving, SaveDue, Loaded
<1>3. Gone(w) = Gone(v)
  BY DEF Gone
<1>4. \A l \in LevelSet : Unloaded(w, l) = Unloaded(v, l)
  BY <1>2 DEF Unloaded
<1>5. x.at = y.at /\ x.q = y.q
  BY <1>1, <1>2, <1>3 DEF BodyFields, Same
<1>6. x.live = y.live /\ x.saved = y.saved /\ x.log = y.log
  BY <1>1, <1>2, <1>3 DEF BodyFields, Same
<1>7. x.inbox = y.inbox /\ x.key = y.key /\ x.level = y.level /\ x.master = y.master
      /\ x.unload = y.unload
  BY <1>1 DEF BodyFields, Same
<1> QED BY <1>4, <1>5, <1>6, <1>7 DEF Same, x, y

-----------------------------------------------------------------------------
(* A task that runs leaves what all the tasks add up to as it is.          *)

(* The tasks of a level run along the order that finishes them.            *)
LEMMA PopIsFirst ==
  ASSUME NEW w, IsWorld(w), NEW l \in LevelSet, Busy(w, l), NEW u \in w.q[l],
         u[1] # pop(w, l)[1]
  PROVE  u[1] \in Chunks /\ Before(pop(w, l)[1], u[1])
<1> DEFINE t == pop(w, l)
<1>1. u \in Chunks \X Nat /\ t \in Chunks \X Nat
  BY PopIsQueued DEF IsWorld
<1>2. /\ Priority[t[1]] <= Priority[u[1]]
      /\ Priority[t[1]] = Priority[u[1]] => t[1] <= u[1]
  BY PopIsQueued
<1> HIDE DEF t
<1>3. /\ u[1] \in Chunks /\ u[1] \in Nat /\ Priority[u[1]] \in Nat
      /\ t[1] \in Nat /\ Priority[t[1]] \in Nat /\ t[1] # u[1]
  BY <1>1, ConstantsAreTyped DEF t
<1>4. Before(t[1], u[1])
  BY <1>2, <1>3 DEF Before
<1> QED BY <1>3, <1>4 DEF t

LEMMA InsAre ==
  ASSUME NEW c \in Chunks, NEW s \in Seq(Chunks), NEW log \in Seq(Entries)
  PROVE  /\ <<c>> \o s \in Seq(Chunks) /\ Ins(s) \in Seq(Entries)
         /\ log \o Ins(<<c>> \o s) = Append(log, <<"in", c>>) \o Ins(s)
<1> DEFINE t == <<c>> \o s
           e == <<"in", c>>
<1>0. t \in Seq(Chunks) /\ Len(t) = Len(s) + 1 /\ Len(s) \in Nat /\ t[1] = c
      /\ DOMAIN t = 1..(Len(s) + 1) /\ DOMAIN s = 1..Len(s)
      /\ \A i \in 1..Len(s) : t[i + 1] = s[i] /\ s[i] \in Chunks
  OBVIOUS
<1> HIDE DEF t
<1>1. \A d \in Chunks : <<"in", d>> \in Entries
  BY DEF Entries
<1>2. Ins(s) \in Seq(Entries) /\ Len(Ins(s)) = Len(s)
      /\ \A i \in 1..Len(s) : Ins(s)[i] = <<"in", s[i]>>
  <2>1. Ins(s) \in [1..Len(s) -> Entries]
    BY <1>0, <1>1 DEF Ins
  <2> QED BY <1>0, <2>1 DEF Ins
<1>3. Ins(t) \in Seq(Entries) /\ Len(Ins(t)) = Len(s) + 1
      /\ \A i \in 1..(Len(s) + 1) : Ins(t)[i] = <<"in", t[i]>>
  <2>1. \A i \in 1..(Len(s) + 1) : t[i] \in Chunks
    BY <1>0
  <2>2. Ins(t) \in [1..(Len(s) + 1) -> Entries]
    BY <1>0, <1>1, <2>1 DEF Ins
  <2> QED BY <1>0, <2>2 DEF Ins
<1>4. e \in Entries
  BY <1>1
<1>5. Ins(t) = <<e>> \o Ins(s)
  <2> DEFINE r == <<e>> \o Ins(s)
  <2>1. ASSUME NEW z \in Seq(Entries)
        PROVE  /\ <<e>> \o z \in Seq(Entries) /\ Len(<<e>> \o z) = Len(z) + 1
               /\ (<<e>> \o z)[1] = e /\ \A i \in 1..Len(z) : (<<e>> \o z)[i + 1] = z[i]
    <3> HIDE DEF e
    <3> QED BY <1>4
  <2>2. /\ r \in Seq(Entries) /\ Len(r) = Len(s) + 1 /\ r[1] = e
        /\ \A i \in 1..Len(s) : r[i + 1] = Ins(s)[i]
    <3> HIDE DEF e
    <3> QED BY <1>2, <2>1
  <2> HIDE DEF r
  <2>3. Ins(t)[1] = r[1]
    BY <1>0, <1>3, <2>2
  <2>4. ASSUME NEW i \in 2..(Len(s) + 1) PROVE Ins(t)[i] = r[i]
    <3>1. i - 1 \in 1..Len(s) /\ i = (i - 1) + 1 /\ i \in 1..(Len(s) + 1)
      BY <1>0
    <3>2. r[i] = <<"in", s[i - 1]>>
      BY <1>2, <2>2, <3>1
    <3>3. Ins(t)[i] = <<"in", s[i - 1]>>
      BY <1>0, <1>3, <3>1
    <3> QED BY <3>2, <3>3
  <2>5. \A i \in 1..(Len(s) + 1) : Ins(t)[i] = r[i]
    <3>1. \A i \in 1..(Len(s) + 1) : i = 1 \/ i \in 2..(Len(s) + 1)
      BY <1>0
    <3> QED BY <2>3, <2>4, <3>1
  <2> QED BY <1>3, <2>2, <2>5, SeqEqual DEF r
<1>6. ASSUME NEW x \in Seq(Entries), NEW d \in Entries, NEW y \in Seq(Entries)
      PROVE  x \o (<<d>> \o y) = Append(x, d) \o y
  OBVIOUS
<1>7. log \o Ins(t) = Append(log, e) \o Ins(s)
  <2> HIDE DEF e
  <2> QED BY <1>2, <1>4, <1>5, <1>6
<1> QED BY <1>0, <1>2, <1>7 DEF t

LEMMA RunTaskFinishes ==
  ASSUME NEW w, IsWorld(w), Keyed(w, Chunks), Placed(w), NEW l \in LevelSet, Busy(w, l)
  PROVE  Same(Finish(RunTask(w, l)), Finish(w))
<1> DEFINE t == pop(w, l)
           c == t[1]
           k == t[2]
           v == RunTask(w, l)
           x == Finish(v)
           y == Finish(w)
           C(u, j) == {z[1] : z \in u.q[j]}
           R(u, j) == ToRead(u, j)
<1>0. /\ t \in w.q[l] /\ t = <<c, k>> /\ c \in Chunks /\ LevelOf[c] = l /\ w.at[c] = "coming"
      /\ k \in 1..Steps[c]
      /\ DOMAIN v = Fields /\ v.writes = w.writes /\ v.unload = w.unload
      /\ v.live = w.live /\ v.saved = w.saved /\ v.level = w.level /\ v.master = w.master
      /\ v.inbox = IF Reading(c, k) THEN [w.inbox EXCEPT ![l] = Append(@, c)] ELSE w.inbox
      /\ v.key = IF Reading(c, k) THEN [w.key EXCEPT ![c] = w.master] ELSE w.key
      /\ v.q = [w.q EXCEPT ![l] = (@ \ {t}) \cup (IF k = Steps[c] THEN {} ELSE {<<c, k + 1>>})]
      /\ v.at = IF k = Steps[c] THEN [w.at EXCEPT ![c] = "in"] ELSE w.at
      /\ v.log = IF k = Steps[c] THEN [w.log EXCEPT ![l] = Append(@, <<"in", c>>)] ELSE w.log
  BY RunTaskIs, Z3T(60)
<1>1. /\ t \in w.q[l] /\ t = <<c, k>> /\ c \in Chunks /\ LevelOf[c] = l /\ w.at[c] = "coming"
      /\ k \in 1..Steps[c] /\ Steps[c] \in Nat
      /\ v.live = w.live /\ v.saved = w.saved /\ v.level = w.level /\ v.master = w.master
      /\ v.inbox = IF Reading(c, k) THEN [w.inbox EXCEPT ![l] = Append(@, c)] ELSE w.inbox
      /\ v.key = IF Reading(c, k) THEN [w.key EXCEPT ![c] = w.master] ELSE w.key
      /\ v.q = [w.q EXCEPT ![l] = (@ \ {t}) \cup (IF k = Steps[c] THEN {} ELSE {<<c, k + 1>>})]
      /\ v.at = IF k = Steps[c] THEN [w.at EXCEPT ![c] = "in"] ELSE w.at
      /\ v.log = IF k = Steps[c] THEN [w.log EXCEPT ![l] = Append(@, <<"in", c>>)] ELSE w.log
  BY <1>0, WorkAssumption
<1>2. \A u \in w.q[l] : u[1] \in Chunks /\ (u[1] # c => Before(c, u[1]))
  <2>1. \A u \in w.q[l] : u[1] \in Chunks
    BY DEF IsWorld
  <2> QED BY <2>1, PopIsFirst
<1>3. IsWorld(v)
  BY RunTaskDoes
<1>4. FinishFields(x, v) /\ FinishFields(y, w)
  BY <1>3, FinishIs
<1>5. Ranged(w) /\ Queued(w) /\ Comes(w) /\ Entering(w)
  BY DEF Placed
<1>6. /\ w.q \in [LevelSet -> SUBSET (Chunks \X Nat)] /\ w.inbox \in [LevelSet -> Seq(Chunks)]
      /\ w.key \in [Chunks -> Nat] /\ w.at \in [Chunks -> Places]
      /\ w.log \in [LevelSet -> Seq(Entries)]
      /\ \A j \in LevelSet : \A u \in w.q[j] : LevelOf[u[1]] = j
  BY <1>5 DEF IsWorld, Ranged
<1> HIDE DEF t, v, x, y
<1>7. \A u \in w.q[l] : u[1] = c => u = t
  BY <1>1, <1>5 DEF Queued
<1>8. \A j \in LevelSet : j # l => v.q[j] = w.q[j]
  BY <1>1, <1>6
<1>9. v.q[l] = (w.q[l] \ {t}) \cup (IF k = Steps[c] THEN {} ELSE {<<c, k + 1>>})
  BY <1>1, <1>6
<1>10. k + 1 # 1 /\ <<c, k + 1>>[1] = c /\ \A d : <<d, 1>> # <<c, k + 1>>
  BY <1>1
<1>11. \A d \in Chunks : d # c => \A j \in LevelSet : <<d, 1>> \in v.q[j] <=> <<d, 1>> \in w.q[j]
  BY <1>1, <1>8, <1>9
<1>12. <<c, 1>> \notin v.q[l] /\ (<<c, 1>> \in w.q[l] <=> k = 1)
  BY <1>1, <1>7, <1>9, <1>10
<1>13. x.q = y.q /\ x.live = y.live /\ x.saved = y.saved /\ x.level = y.level
       /\ x.master = y.master
  BY <1>1, <1>4 DEF FinishFields
<1>14. x.at = y.at
  <2>1. /\ x.at = [d \in Chunks |-> IF v.at[d] = "coming" THEN "in" ELSE v.at[d]]
        /\ y.at = [d \in Chunks |-> IF w.at[d] = "coming" THEN "in" ELSE w.at[d]]
    BY <1>4 DEF FinishFields
  <2>2. \A d \in Chunks : d # c => v.at[d] = w.at[d]
    BY <1>1, <1>6
  <2>3. w.at[c] = "coming" /\ v.at[c] \in {"coming", "in"}
    BY <1>1, <1>6
  <2> QED BY <2>1, <2>2, <2>3
<1>15. x.key = y.key
  <2>1. /\ x.key = [d \in Chunks |-> IF d \in ToRead(v, LevelOf[d]) THEN v.master ELSE v.key[d]]
        /\ y.key = [d \in Chunks |-> IF d \in ToRead(w, LevelOf[d]) THEN w.master ELSE w.key[d]]
    BY <1>4 DEF FinishFields
  <2>2. ASSUME NEW d \in Chunks, d # c PROVE x.key[d] = y.key[d]
    <3>1. v.key[d] = w.key[d] /\ v.master = w.master
      BY <1>1, <1>6, <2>2
    <3>2. d \in ToRead(v, LevelOf[d]) <=> d \in ToRead(w, LevelOf[d])
      <4>1. <<d, 1>> \in v.q[LevelOf[d]] <=> <<d, 1>> \in w.q[LevelOf[d]]
        BY <1>11, <2>2, ConstantsAreTyped
      <4> QED BY <4>1 DEF ToRead
    <3> QED BY <2>1, <3>1, <3>2
  <2>3. x.key[c] = y.key[c]
    <3>1. v.key[c] = IF Reading(c, k) THEN w.master ELSE w.key[c]
      BY <1>1, <1>6
    <3>2. c \notin ToRead(v, l) /\ (c \in ToRead(w, l) <=> Reading(c, k))
      BY <1>1, <1>12 DEF ToRead, Reading, Of
    <3> QED BY <1>1, <2>1, <3>1, <3>2
  <2> QED BY <2>1, <2>2, <2>3
<1>16. x.inbox = y.inbox
  <2>1. /\ x.inbox = [j \in LevelSet |-> v.inbox[j] \o Reads(v, j)]
        /\ y.inbox = [j \in LevelSet |-> w.inbox[j] \o Reads(w, j)]
    BY <1>4 DEF FinishFields
  <2>2. \A u, j : Reads(u, j) = AsPopped(R(u, j))
    BY DEF Reads
  <2>3. \A u, j : R(u, j) \in SUBSET Chunks
    BY DEF Of, ToRead
  <2>4. ASSUME NEW j \in LevelSet, j # l \/ ~Reading(c, k) PROVE x.inbox[j] = y.inbox[j]
    <3>1. R(v, j) = R(w, j)
      <4>1. CASE j # l
        BY <1>8, <4>1 DEF ToRead
      <4>2. CASE j = l
        <5>1. \A d \in Chunks \ Unreadable : <<d, 1>> \in v.q[l] <=> <<d, 1>> \in w.q[l]
          BY <1>1, <1>11, <1>12, <2>4, <4>2 DEF Reading
        <5> QED BY <4>2, <5>1 DEF Of, ToRead
      <4> QED BY <4>1, <4>2
    <3>2. v.inbox[j] = w.inbox[j]
      BY <1>1, <1>6, <2>4
    <3>3. Reads(v, j) = Reads(w, j)
      <4> HIDE DEF R
      <4> QED BY <2>2, <3>1
    <3>4. x.inbox[j] = v.inbox[j] \o Reads(v, j) /\ y.inbox[j] = w.inbox[j] \o Reads(w, j)
      BY <2>1
    <3> QED BY <3>2, <3>3, <3>4
  <2>5. CASE Reading(c, k)
    <3>1. c \in R(w, l) /\ R(v, l) = R(w, l) \ {c}
      <4>1. c \in Of(l) \ Unreadable /\ k = 1
        BY <1>1, <2>5 DEF Of, Reading
      <4>2. \A d \in Chunks : <<d, 1>> \in v.q[l] <=> <<d, 1>> \in w.q[l] /\ d # c
        BY <1>11, <1>12
      <4> QED BY <1>12, <4>1, <4>2 DEF Of, ToRead
    <3>2. \A d \in R(w, l) \ {c} : Before(c, d)
      <4>1. \A d : <<d, 1>> \in w.q[l] /\ d # c => Before(c, d)
        <5> SUFFICES ASSUME NEW d, <<d, 1>> \in w.q[l], d # c PROVE Before(c, d)
          OBVIOUS
        <5>1. <<d, 1>>[1] = d
          OBVIOUS
        <5> QED BY <1>2, <5>1
      <4> QED BY <4>1 DEF ToRead
    <3>3. Reads(w, l) = <<c>> \o Reads(v, l)
      <4> HIDE DEF R
      <4>1. AsPopped(R(w, l)) = <<c>> \o AsPopped(R(w, l) \ {c})
        BY <2>3, <3>1, <3>2, AsPoppedOfMore
      <4> QED BY <2>2, <3>1, <4>1
    <3>4. v.inbox[l] = Append(w.inbox[l], c) /\ w.inbox[l] \in Seq(Chunks)
      BY <1>1, <1>6, <2>5
    <3>5. Reads(v, l) \in Seq(Chunks)
      BY <1>3, ComersAre
    <3>6. ASSUME NEW a \in Seq(Chunks), NEW b \in Seq(Chunks)
          PROVE  Append(a, c) \o b = a \o (<<c>> \o b)
      BY <1>1
    <3>7. x.inbox[l] = y.inbox[l]
      <4>1. x.inbox[l] = Append(w.inbox[l], c) \o Reads(v, l)
        BY <2>1, <3>4
      <4>2. y.inbox[l] = w.inbox[l] \o (<<c>> \o Reads(v, l))
        BY <2>1, <3>3
      <4> QED BY <3>4, <3>5, <3>6, <4>1, <4>2
    <3>8. \A j \in LevelSet : x.inbox[j] = y.inbox[j]
      BY <2>4, <3>7
    <3> QED BY <2>1, <3>8
  <2>6. CASE ~Reading(c, k)
    BY <2>1, <2>4, <2>6
  <2> QED BY <2>5, <2>6
<1>17. x.log = y.log
  <2>1. /\ x.log = [j \in LevelSet |-> v.log[j] \o Ins(Comers(v, j))]
        /\ y.log = [j \in LevelSet |-> w.log[j] \o Ins(Comers(w, j))]
    BY <1>4 DEF FinishFields
  <2>2. \A u, j : Comers(u, j) = AsPopped(C(u, j))
    BY DEF Comers
  <2>3. C(w, l) \in SUBSET Chunks
    BY <1>2
  <2>4. ASSUME NEW j \in LevelSet, j # l \/ k # Steps[c] PROVE x.log[j] = y.log[j]
    <3>1. C(v, j) = C(w, j)
      <4>1. CASE j # l
        BY <1>8, <4>1
      <4>2. CASE j = l
        <5>1. v.q[l] = (w.q[l] \ {t}) \cup {<<c, k + 1>>}
          BY <1>9, <2>4, <4>2
        <5>2. \A z \in v.q[l] : \E u \in w.q[l] : z[1] = u[1]
          BY <1>1, <5>1
        <5>3. \A u \in w.q[l] : \E z \in v.q[l] : z[1] = u[1]
          <6>1. <<c, k + 1>> \in v.q[l] /\ <<c, k + 1>>[1] = t[1]
            BY <5>1
          <6> QED BY <5>1, <6>1
        <5> QED BY <4>2, <5>2, <5>3
      <4> QED BY <4>1, <4>2
    <3>2. v.log[j] = w.log[j]
      BY <1>1, <1>6, <2>4
    <3>3. Comers(v, j) = Comers(w, j)
      <4> HIDE DEF C
      <4> QED BY <2>2, <3>1
    <3>4. x.log[j] = v.log[j] \o Ins(Comers(v, j)) /\ y.log[j] = w.log[j] \o Ins(Comers(w, j))
      BY <2>1
    <3> QED BY <3>2, <3>3, <3>4
  <2>5. CASE k = Steps[c]
    <3>1. c \in C(w, l) /\ C(v, l) = C(w, l) \ {c}
      <4>1. v.q[l] = w.q[l] \ {t}
        BY <1>9, <2>5
      <4> QED BY <1>1, <1>7, <4>1
    <3>2. \A d \in C(w, l) \ {c} : Before(c, d)
      BY <1>2
    <3>3. Comers(w, l) = <<c>> \o Comers(v, l)
      <4> HIDE DEF C
      <4>1. AsPopped(C(w, l)) = <<c>> \o AsPopped(C(w, l) \ {c})
        BY <2>3, <3>1, <3>2, AsPoppedOfMore
      <4> QED BY <2>2, <3>1, <4>1
    <3>4. v.log[l] = Append(w.log[l], <<"in", c>>) /\ w.log[l] \in Seq(Entries)
      BY <1>1, <1>6, <2>5
    <3>5. Comers(v, l) \in Seq(Chunks)
      BY <1>3, ComersAre
    <3>6. x.log[l] = y.log[l]
      <4>1. x.log[l] = Append(w.log[l], <<"in", c>>) \o Ins(Comers(v, l))
        BY <2>1, <3>4
      <4>2. y.log[l] = w.log[l] \o Ins(<<c>> \o Comers(v, l))
        BY <2>1, <3>3
      <4> DEFINE s == Comers(v, l)
                 a == w.log[l]
      <4>3. s \in Seq(Chunks) /\ a \in Seq(Entries)
        BY <3>4, <3>5
      <4>5. c \in Chunks
        BY <1>1
      <4> HIDE DEF s, a, c
      <4>4. a \o Ins(<<c>> \o s) = Append(a, <<"in", c>>) \o Ins(s)
        BY <4>3, <4>5, InsAre
      <4> QED BY <4>1, <4>2, <4>4 DEF s, a
    <3>7. \A j \in LevelSet : x.log[j] = y.log[j]
      BY <2>4, <3>6
    <3> QED BY <2>1, <3>7
  <2>6. CASE k # Steps[c]
    <3>1. \A j \in LevelSet : x.log[j] = y.log[j]
      BY <2>4, <2>6
    <3> QED BY <2>1, <3>1
  <2> QED BY <2>5, <2>6
<1>18. Same(x, y)
  BY <1>13, <1>14, <1>15, <1>16, <1>17 DEF Same
<1> QED BY <1>18 DEF x, y, v

(* And quiet queues add nothing.                                           *)
LEMMA QuietFinishes ==
  ASSUME NEW w, IsWorld(w), Placed(w), Quiet(w)
  PROVE  Same(Finish(w), w)
<1> DEFINE v == Finish(w)
<1>1. FinishFields(v, w)
  BY FinishIs
<1> HIDE DEF v
<1>2. \A l \in LevelSet : w.q[l] = {}
  BY DEF Quiet, Busy
<1>3. Ranged(w) /\ Comes(w) /\ w.q \in [LevelSet -> SUBSET (Chunks \X Nat)]
      /\ w.inbox \in [LevelSet -> Seq(Chunks)] /\ w.key \in [Chunks -> Nat]
  BY DEF Placed, IsWorld
<1>4. v.q = w.q
  BY <1>1, <1>2, <1>3 DEF FinishFields
<1>5. v.at = w.at
  <2>1. v.at = [c \in Chunks |-> IF w.at[c] = "coming" THEN "in" ELSE w.at[c]]
        /\ w.at \in [Chunks -> Places]
    BY <1>1, <1>3 DEF FinishFields, Ranged
  <2>2. \A c \in Chunks : w.at[c] # "coming"
    BY <1>2, <1>3, ConstantsAreTyped DEF Comes
  <2> QED BY <2>1, <2>2
<1>6. v.key = w.key
  <2>1. v.key = [c \in Chunks |-> IF c \in ToRead(w, LevelOf[c]) THEN w.master ELSE w.key[c]]
    BY <1>1 DEF FinishFields
  <2>2. \A c \in Chunks : c \notin ToRead(w, LevelOf[c])
    BY <1>2, ConstantsAreTyped DEF ToRead
  <2> QED BY <1>3, <2>1, <2>2
<1>7. \A l \in LevelSet : Comers(w, l) = <<>> /\ Reads(w, l) = <<>>
  <2> SUFFICES ASSUME NEW l \in LevelSet
               PROVE  Comers(w, l) = <<>> /\ Reads(w, l) = <<>>
    OBVIOUS
  <2>1. {t[1] : t \in w.q[l]} = {} /\ ToRead(w, l) = {}
    BY <1>2 DEF ToRead
  <2> QED BY <2>1, AsPoppedOfNone DEF Comers, Reads
<1>8. Ins(<<>>) = <<>>
  BY DEF Ins
<1>9. \A S : \A s \in Seq(S) : s \o <<>> = s
  OBVIOUS
<1>10. v.inbox = w.inbox
  <2>1. v.inbox = [l \in LevelSet |-> w.inbox[l] \o Reads(w, l)]
    BY <1>1 DEF FinishFields
  <2>2. ASSUME NEW l \in LevelSet PROVE v.inbox[l] = w.inbox[l]
    <3>1. w.inbox[l] \in Seq(Chunks)
      BY <1>3
    <3>2. v.inbox[l] = w.inbox[l] \o <<>>
      BY <1>7, <2>1
    <3> QED BY <1>9, <3>1, <3>2
  <2>3. v.inbox = [l \in LevelSet |-> v.inbox[l]]
    BY <2>1
  <2> QED BY <1>3, <2>2, <2>3
<1>11. v.log = w.log
  <2>1. v.log = [l \in LevelSet |-> w.log[l] \o Ins(Comers(w, l))]
    BY <1>1 DEF FinishFields
  <2>0. w.log \in [LevelSet -> Seq(Entries)]
    BY <1>3 DEF Ranged
  <2>2. ASSUME NEW l \in LevelSet PROVE v.log[l] = w.log[l]
    <3>1. w.log[l] \in Seq(Entries)
      BY <2>0
    <3>2. v.log[l] = w.log[l] \o <<>>
      BY <1>7, <1>8, <2>1
    <3> QED BY <1>9, <3>1, <3>2
  <2>3. v.log = [l \in LevelSet |-> v.log[l]]
    BY <2>1
  <2> QED BY <2>0, <2>2, <2>3
<1>12. v.live = w.live /\ v.saved = w.saved /\ v.level = w.level /\ v.master = w.master
  BY <1>1 DEF FinishFields
<1>13. Same(v, w)
  BY <1>4, <1>5, <1>6, <1>10, <1>11, <1>12 DEF Same
<1> QED BY <1>13 DEF v

-----------------------------------------------------------------------------
(* Worlds of the server, and a world next to the same one where every      *)
(* command and every tick took its chunk work with it.                     *)

Sound(w) == IsWorld(w) /\ Keyed(w, Chunks) /\ Placed(w)

Linked(w, v) ==
  /\ Same(Finish(w), v) /\ v.unload = w.unload
  /\ \A l \in LevelSet : v.writes[l] = Unloads(w.writes[l])

LEMMA SoundStays ==
  ASSUME NEW w, Sound(w)
  PROVE  /\ \A l \in LevelSet : Busy(w, l) => Sound(RunTask(w, l))
         /\ \A cmd \in Commands : Sound(Do(w, cmd))
         /\ \A asked, now : Sound(Body(w, asked, now))
         /\ \A l \in LevelSet : Sound(Land(w, l))
         /\ \A now : Sound(saveAllChunks(w, now))
         /\ Sound(Finish(w)) /\ Sound(Fast(w)) /\ Sound(Forget(w)) /\ Sound(ioBarrierOf(w))
<1>0. IsWorld(w) /\ Keyed(w, Chunks) /\ Placed(w)
  BY DEF Sound
<1>1. ASSUME NEW l \in LevelSet, Busy(w, l) PROVE Sound(RunTask(w, l))
  BY <1>0, <1>1, RunTaskDoes, RunTaskPlaces DEF Sound
<1>2. ASSUME NEW cmd \in Commands PROVE Sound(Do(w, cmd))
  <2>1. /\ IsWorld(Do(w, cmd)) /\ Placed(Do(w, cmd))
        /\ Keyed(Do(w, cmd), IF cmd[1] = "reseed" THEN Chunks \cup Unborn(w) ELSE Chunks)
    BY <1>0, DoDoes, DoPlaces
  <2>2. Unborn(w) \subseteq Chunks
    BY <1>0, HomeIsChunk DEF Unborn
  <2>3. (IF cmd[1] = "reseed" THEN Chunks \cup Unborn(w) ELSE Chunks) = Chunks
    BY <2>2
  <2> QED BY <2>1, <2>3 DEF Sound
<1>3. ASSUME NEW asked, NEW now PROVE Sound(Body(w, asked, now))
  BY <1>0, BodyDoes, BodyPlaces DEF Sound
<1>4. ASSUME NEW l \in LevelSet PROVE Sound(Land(w, l))
  <2>1. IsWorld(Land(w, l)) /\ Keyed(Land(w, l), Chunks)
    BY <1>0, OthersDo
  <2> QED BY <1>0, <2>1, LandPlaces DEF Sound
<1>5. Sound(Finish(w))
  BY <1>0, FinishDoes, FinishPlaces DEF Sound
<1>6. Sound(Fast(w))
  BY <1>0, FastDoes, FastPlaces DEF Sound
<1>7. IsWorld(Forget(w)) /\ Keyed(Forget(w), Chunks)
      /\ IsWorld(ioBarrierOf(w)) /\ Keyed(ioBarrierOf(w), Chunks)
  BY <1>0, OthersDo
<1>8. Sound(Forget(w)) /\ Sound(ioBarrierOf(w))
  BY <1>0, <1>7, ForgetPlaces, BarrierPlaces DEF Sound
<1>9. ASSUME NEW now PROVE Sound(saveAllChunks(w, now))
  BY <1>0, SaveAllDoes, SaveAllPlaces DEF Sound
<1> QED BY <1>1, <1>2, <1>3, <1>4, <1>5, <1>6, <1>8, <1>9

LEMMA FinishKeeps ==
  ASSUME NEW w, Sound(w)
  PROVE  Finish(w).writes = w.writes /\ Finish(w).unload = w.unload /\ Finish(w).q = [l \in LevelSet |-> {}]
<1>1. FinishFields(Finish(w), w)
  BY FinishIs DEF Sound
<1> QED BY <1>1 DEF FinishFields

LEMMA LinkedRunTask ==
  ASSUME NEW w, Sound(w), NEW v, Linked(w, v), NEW l \in LevelSet, Busy(w, l)
  PROVE  Linked(RunTask(w, l), v)
<1> DEFINE x == RunTask(w, l)
<1>1. x.writes = w.writes /\ x.unload = w.unload
  BY RunTaskIs DEF Sound
<1>2. Same(Finish(x), Finish(w))
  BY RunTaskFinishes DEF Sound
<1> HIDE DEF x
<1>3. Same(Finish(x), v)
  BY <1>2, SameIsTransitive DEF Linked
<1>4. Linked(x, v)
  BY <1>1, <1>3 DEF Linked
<1> QED BY <1>4 DEF x

(* Next to quiet queues it is the same world.                              *)
LEMMA LinkedIsSame ==
  ASSUME NEW w, Sound(w), NEW v, Linked(w, v), Quiet(w)
  PROVE  Same(w, v)
<1>1. Same(Finish(w), w)
  BY QuietFinishes DEF Sound
<1>2. Same(Finish(w), v)
  BY DEF Linked
<1> QED BY <1>1, <1>2 DEF Same

LEMMA LinkedDo ==
  ASSUME NEW w, Sound(w), NEW v, Sound(v), Linked(w, v), Quiet(w), NEW cmd \in Commands
  PROVE  Linked(Do(w, cmd), Finish(Do(v, cmd)))
<1> DEFINE x == Do(w, cmd)
           y == Do(v, cmd)
<1>1. Sound(x) /\ Sound(y)
  BY SoundStays
<1>2. Same(x, y)
  BY LinkedIsSame, SameDo DEF Sound
<1>3. x.writes = w.writes /\ x.unload = w.unload /\ y.writes = v.writes /\ y.unload = v.unload
  BY DoKeeps DEF Sound
<1> HIDE DEF x, y
<1>4. Same(Finish(x), Finish(y))
  BY <1>1, <1>2, SameFinish DEF Sound
<1>5. Finish(y).writes = v.writes /\ Finish(y).unload = v.unload
  BY <1>1, <1>3, FinishKeeps
<1>6. Linked(x, Finish(y))
  BY <1>3, <1>4, <1>5 DEF Linked
<1> QED BY <1>6 DEF x, y

LEMMA LinkedForget ==
  ASSUME NEW w, Sound(w), Quiet(w)
  PROVE  /\ Linked(Forget(w), Fast(Forget(w)))
         /\ \A v : Sound(v) /\ Linked(w, v) => Linked(Forget(w), Forget(v))
<1> DEFINE x == Forget(w)
<1>1. Sound(x) /\ x.writes = w.writes /\ x.unload = w.unload /\ x.q = w.q
  BY SoundStays, ForgetIs DEF Sound
<1>2. Quiet(x)
  BY <1>1 DEF Quiet, Busy
<1> HIDE DEF x
<1>3. Same(Finish(x), x)
  BY <1>1, <1>2, QuietFinishes DEF Sound
<1>4. Linked(x, Fast(x))
  <2>1. /\ Fast(x).q = x.q /\ Fast(x).at = x.at /\ Fast(x).inbox = x.inbox /\ Fast(x).live = x.live
        /\ Fast(x).saved = x.saved /\ Fast(x).key = x.key /\ Fast(x).level = x.level
        /\ Fast(x).master = x.master /\ Fast(x).log = x.log /\ Fast(x).unload = x.unload
        /\ Fast(x).writes = [l \in LevelSet |-> Unloads(x.writes[l])]
    BY <1>1, FastIs DEF Sound
  <2>2. Same(Finish(x), Fast(x))
    BY <1>3, <2>1 DEF Same
  <2> QED BY <2>1, <2>2 DEF Linked
<1>5. ASSUME NEW v, Sound(v), Linked(w, v) PROVE Linked(x, Forget(v))
  <2>1. Same(x, Forget(v))
    BY <1>5, LinkedIsSame, SameForget DEF Sound, x
  <2>2. Forget(v).writes = v.writes /\ Forget(v).unload = v.unload
    BY <1>5, ForgetIs DEF Sound
  <2>3. Same(Finish(x), Forget(v))
    BY <1>3, <2>1, SameIsTransitive
  <2> QED BY <1>1, <1>5, <2>2, <2>3 DEF Linked
<1> QED BY <1>4, <1>5 DEF x

LEMMA LinkedBody ==
  ASSUME NEW w, Sound(w), NEW v, Sound(v), Linked(w, v), Quiet(w), NEW asked, NEW now
  PROVE  Linked(Body(w, asked, now), Fast(Finish(Body(v, asked, now))))
<1> DEFINE x == Body(w, asked, now)
           y == Body(v, asked, now)
           z == Finish(y)
           f == Fast(z)
<1>1. Sound(x) /\ Sound(y)
  BY SoundStays
<1>2. /\ Same(x, y) /\ x.unload = y.unload
      /\ \A l \in LevelSet : Unloaded(w, l) = Unloaded(v, l)
  <2>1. w.unload = v.unload /\ Same(w, v) /\ IsWorld(w) /\ IsWorld(v)
    BY LinkedIsSame DEF Linked, Sound
  <2> QED BY <2>1, SameBody
<1>3. \A l \in LevelSet : /\ x.writes[l] = (w.writes[l] \o Unloaded(w, l)) \o Saved(w, l, now)
                          /\ y.writes[l] = (v.writes[l] \o Unloaded(v, l)) \o Saved(v, l, now)
  <2>1. BodyFields(x, w, asked, now) /\ BodyFields(y, v, asked, now)
    BY BodyIs DEF Sound
  <2> HIDE DEF x, y
  <2>2. x.writes = [l \in LevelSet |-> (w.writes[l] \o Unloaded(w, l)) \o Saved(w, l, now)]
    BY <2>1 DEF BodyFields
  <2>3. y.writes = [l \in LevelSet |-> (v.writes[l] \o Unloaded(v, l)) \o Saved(v, l, now)]
    BY <2>1 DEF BodyFields
  <2> QED BY <2>2, <2>3
<1> HIDE DEF x, y
<1>4. Sound(z) /\ Same(Finish(x), z) /\ z.writes = y.writes /\ z.unload = y.unload
  <2>1. Same(Finish(x), z)
    BY <1>1, <1>2, SameFinish DEF Sound
  <2> QED BY <1>1, <2>1, FinishKeeps, SoundStays
<1> HIDE DEF z
<1>5. /\ f.q = z.q /\ f.at = z.at /\ f.inbox = z.inbox /\ f.live = z.live
      /\ f.saved = z.saved /\ f.key = z.key /\ f.level = z.level /\ f.master = z.master
      /\ f.log = z.log /\ f.unload = z.unload
      /\ f.writes = [l \in LevelSet |-> Unloads(z.writes[l])]
  BY <1>4, FastIs DEF Sound
<1> HIDE DEF f
<1>6. Same(Finish(x), f)
  BY <1>4, <1>5 DEF Same
<1>7. ASSUME NEW l \in LevelSet PROVE f.writes[l] = Unloads(x.writes[l])
  <2> DEFINE s == w.writes[l]
             r == v.writes[l]
  <2>1. s \in Seq(Writes) /\ r \in Seq(Writes) /\ r = Unloads(s)
    BY WritesAre DEF Sound, Placed, Linked
  <2>2. /\ x.writes[l] = (s \o Unloaded(w, l)) \o Saved(w, l, now)
        /\ y.writes[l] = (r \o Unloaded(v, l)) \o Saved(v, l, now)
    BY <1>3
  <2> HIDE DEF s, r
  <2>3. Unloads(x.writes[l]) = Unloads(s) \o Unloaded(w, l)
    <3>1. Unloads((s \o Unloaded(w, l)) \o Saved(w, l, now)) = Unloads(s) \o Unloaded(w, l)
      BY <2>1, WritesOfBody
    <3> QED BY <2>2, <3>1
  <2>4. Unloads(y.writes[l]) = Unloads(r) \o Unloaded(v, l)
    <3>1. Unloads((r \o Unloaded(v, l)) \o Saved(v, l, now)) = Unloads(r) \o Unloaded(v, l)
      BY <2>1, WritesOfBody
    <3> QED BY <2>2, <3>1
  <2>5. Unloads(r) = r
    BY <2>1, UnloadsTwice
  <2>6. Unloaded(w, l) = Unloaded(v, l)
    BY <1>2
  <2>7. f.writes[l] = Unloads(y.writes[l])
    BY <1>4, <1>5
  <2> QED BY <2>1, <2>3, <2>4, <2>5, <2>6, <2>7
<1>8. Linked(x, f)
  BY <1>2, <1>4, <1>5, <1>6, <1>7 DEF Linked
<1> QED BY <1>8 DEF x, y, z, f

(* An autosave next to one whose writes take no time.                      *)
LEMMA LinkedSaveAll ==
  ASSUME NEW w, Sound(w), NEW v, Sound(v), Linked(w, v), Quiet(w), NEW now
  PROVE  Linked(saveAllChunks(w, now), Fast(saveAllChunks(v, now)))
<1> DEFINE x == saveAllChunks(w, now)
           y == saveAllChunks(v, now)
<1>0. IsWorld(w) /\ Ranged(w) /\ IsWorld(v) /\ Ranged(v)
  BY DEF Sound, Placed
<1>1. Sound(x) /\ Sound(y)
  BY SoundStays
<1>2. Same(w, v) /\ v.unload = w.unload
  BY LinkedIsSame DEF Linked
<1>3. /\ x.q = w.q /\ x.at = w.at /\ x.inbox = w.inbox /\ x.live = w.live
      /\ x.key = w.key /\ x.level = w.level /\ x.master = w.master
      /\ x.log = w.log /\ x.unload = w.unload
      /\ x.saved = [c \in Chunks |-> IF c \in Loaded(w, LevelOf[c])
                                     THEN now + Resave ELSE w.saved[c]]
  <2>1. IsWorld(w)
    BY <1>0
  <2>2. x.saved = [c \in Chunks |-> IF c \in Loaded(w, LevelOf[c])
                                   THEN now + Resave ELSE w.saved[c]]
    BY <2>1 DEF saveAllChunks, IsWorld, Fields
  <2>3. /\ x.q = w.q /\ x.at = w.at /\ x.inbox = w.inbox /\ x.live = w.live
        /\ x.key = w.key /\ x.level = w.level /\ x.master = w.master
        /\ x.log = w.log /\ x.unload = w.unload
    BY <2>1 DEF saveAllChunks, IsWorld, Fields
  <2> QED BY <2>2, <2>3
<1>4. /\ y.q = v.q /\ y.at = v.at /\ y.inbox = v.inbox /\ y.live = v.live
      /\ y.key = v.key /\ y.level = v.level /\ y.master = v.master
      /\ y.log = v.log /\ y.unload = v.unload
      /\ y.saved = [c \in Chunks |-> IF c \in Loaded(v, LevelOf[c])
                                     THEN now + Resave ELSE v.saved[c]]
  <2>1. IsWorld(v)
    BY <1>0
  <2>2. y.saved = [c \in Chunks |-> IF c \in Loaded(v, LevelOf[c])
                                   THEN now + Resave ELSE v.saved[c]]
    BY <2>1 DEF saveAllChunks, IsWorld, Fields
  <2>3. /\ y.q = v.q /\ y.at = v.at /\ y.inbox = v.inbox /\ y.live = v.live
        /\ y.key = v.key /\ y.level = v.level /\ y.master = v.master
        /\ y.log = v.log /\ y.unload = v.unload
    BY <2>1 DEF saveAllChunks, IsWorld, Fields
  <2> QED BY <2>2, <2>3
<1>5. \A l \in LevelSet : /\ Unloads(x.writes[l]) = Unloads(w.writes[l])
                          /\ Unloads(y.writes[l]) = Unloads(v.writes[l])
  BY <1>0, SaveAllWrites
<1> HIDE DEF x, y
<1> DEFINE f == Fast(y)
<1>6. /\ f.q = y.q /\ f.at = y.at /\ f.inbox = y.inbox /\ f.live = y.live
      /\ f.saved = y.saved /\ f.key = y.key /\ f.level = y.level /\ f.master = y.master
      /\ f.log = y.log /\ f.unload = y.unload
      /\ f.writes = [l \in LevelSet |-> Unloads(y.writes[l])]
  BY <1>1, FastIs DEF Sound
<1> HIDE DEF f
<1>7. x.saved = y.saved
  <2>1. \A l : Loaded(w, l) = Loaded(v, l)
    BY <1>2 DEF Loaded, Same
  <2> QED BY <1>2, <1>3, <1>4, <2>1 DEF Same
<1>8. Same(x, f)
  BY <1>2, <1>3, <1>4, <1>6, <1>7 DEF Same
<1>9. Quiet(x)
  BY <1>3 DEF Quiet, Busy
<1>10. Same(Finish(x), f)
  <2>1. Same(Finish(x), x)
    BY <1>1, <1>9, QuietFinishes DEF Sound
  <2> QED BY <1>8, <2>1, SameIsTransitive
<1>11. ASSUME NEW l \in LevelSet PROVE f.writes[l] = Unloads(x.writes[l])
  <2>1. w.writes[l] \in Seq(Writes) /\ v.writes[l] = Unloads(w.writes[l])
    BY <1>0, WritesAre DEF Linked
  <2>2. Unloads(v.writes[l]) = Unloads(w.writes[l])
    BY <2>1, UnloadsTwice
  <2> QED BY <1>5, <1>6, <2>2
<1>12. f.unload = x.unload
  BY <1>2, <1>3, <1>4, <1>6
<1>13. Linked(x, f)
  BY <1>10, <1>11, <1>12 DEF Linked
<1> QED BY <1>13 DEF x, y, f

LEMMA LinkedBarrier ==
  ASSUME NEW w, Sound(w), NEW v, Sound(v), Linked(w, v)
  PROVE  Linked(ioBarrierOf(w), ioBarrierOf(v))
<1> DEFINE x == ioBarrierOf(w)
           y == ioBarrierOf(v)
<1>1. /\ x.q = w.q /\ x.at = w.at /\ x.inbox = w.inbox /\ x.live = w.live
      /\ x.saved = w.saved /\ x.key = w.key /\ x.level = w.level /\ x.master = w.master
      /\ x.log = w.log /\ x.writes = [l \in LevelSet |-> <<>>]
      /\ x.unload = [l \in LevelSet |-> w.unload[l] \o Names(w.writes[l])]
  BY BarrierIs DEF Sound
<1>2. /\ y.q = v.q /\ y.at = v.at /\ y.inbox = v.inbox /\ y.live = v.live
      /\ y.saved = v.saved /\ y.key = v.key /\ y.level = v.level /\ y.master = v.master
      /\ y.log = v.log /\ y.writes = [l \in LevelSet |-> <<>>]
      /\ y.unload = [l \in LevelSet |-> v.unload[l] \o Names(v.writes[l])]
  BY BarrierIs DEF Sound
<1>3. IsWorld(x) /\ IsWorld(w)
  BY SoundStays DEF Sound
<1> HIDE DEF x, y
<1>4. Same(x, w) /\ Same(v, y)
  BY <1>1, <1>2 DEF Same
<1>5. Same(Finish(x), Finish(w)) /\ Same(Finish(w), v)
  BY <1>3, <1>4, SameFinish DEF Linked
<1>6. Same(Finish(x), y)
  BY <1>4, <1>5 DEF Same
<1>7. \A l \in LevelSet : y.writes[l] = Unloads(x.writes[l])
  BY <1>1, <1>2, NamesOfNone
<1>8. y.unload = x.unload
  <2>1. ASSUME NEW l \in LevelSet PROVE y.unload[l] = x.unload[l]
    <3>1. w.writes[l] \in Seq(Writes) /\ v.writes[l] = Unloads(w.writes[l]) /\ v.unload = w.unload
      BY WritesAre DEF Sound, Placed, Linked
    <3>2. Names(v.writes[l]) = Names(w.writes[l])
      BY <3>1, UnloadsTwice
    <3>3. /\ y.unload[l] = v.unload[l] \o Names(v.writes[l])
          /\ x.unload[l] = w.unload[l] \o Names(w.writes[l])
      BY <1>1, <1>2
    <3> QED BY <3>1, <3>2, <3>3
  <2>2. y.unload = [l \in LevelSet |-> y.unload[l]] /\ x.unload = [l \in LevelSet |-> x.unload[l]]
    BY <1>1, <1>2
  <2> QED BY <2>1, <2>2
<1>9. Linked(x, y)
  BY <1>6, <1>7, <1>8 DEF Linked
<1> QED BY <1>9 DEF x, y

(* A write lands in the world next to it if it is an unload's.             *)
LEMMA UnloadsOfHead ==
  ASSUME NEW s \in Seq(Writes), s # <<>>
  PROVE  /\ Head(s)[2] => Unloads(s) # <<>> /\ Head(Unloads(s)) = Head(s)
                           /\ Tail(Unloads(s)) = Unloads(Tail(s))
         /\ ~Head(s)[2] => Unloads(s) = Unloads(Tail(s))
<1> DEFINE h == Head(s)
           t == Tail(s)
           o == <<h>>
<1>1. h \in Writes /\ t \in Seq(Writes) /\ s = o \o t /\ o \in Seq(Writes)
      /\ \A i \in DOMAIN o : o[i] = h
  OBVIOUS
<1>2. o = <<h>>
  OBVIOUS
<1> HIDE DEF h, t, o
<1>3. Unloads(s) = Unloads(o) \o Unloads(t) /\ Unloads(t) \in Seq(Writes)
  BY <1>1, UnloadsOfBoth, UnloadsAreTyped
<1>4. CASE h[2]
  <2>1. \A i \in DOMAIN o : o[i][2]
    BY <1>1, <1>4
  <2>2. Unloads(o) = <<h>>
    BY <1>1, <1>2, <2>1, UnloadsOfAll
  <2>3. \A x \in Seq(Writes) : <<h>> \o x # <<>> /\ Head(<<h>> \o x) = h /\ Tail(<<h>> \o x) = x
    BY <1>1
  <2> QED BY <1>3, <1>4, <2>2, <2>3 DEF h, t
<1>5. CASE ~h[2]
  <2>1. \A i \in DOMAIN o : ~o[i][2]
    BY <1>1, <1>5
  <2>2. Unloads(o) = <<>>
    BY <1>1, <2>1, UnloadsOfNone
  <2>3. \A x \in Seq(Writes) : <<>> \o x = x
    OBVIOUS
  <2> QED BY <1>3, <1>5, <2>2, <2>3 DEF h, t
<1> QED BY <1>4, <1>5

LEMMA LinkedLand ==
  ASSUME NEW w, Sound(w), NEW v, Sound(v), Linked(w, v), NEW l \in LevelSet, w.writes[l] # <<>>
  PROVE  Linked(Land(w, l), IF Head(w.writes[l])[2] THEN Land(v, l) ELSE v)
<1> DEFINE s == w.writes[l]
           h == Head(s)
           x == Land(w, l)
           y == IF h[2] THEN Land(v, l) ELSE v
<1>1. /\ x.q = w.q /\ x.at = w.at /\ x.inbox = w.inbox /\ x.live = w.live
      /\ x.saved = w.saved /\ x.key = w.key /\ x.level = w.level /\ x.master = w.master
      /\ x.log = w.log /\ x.writes = [w.writes EXCEPT ![l] = Tail(@)]
      /\ x.unload = [w.unload EXCEPT ![l] = IF h[2] THEN Append(@, h[1]) ELSE @]
  BY LandIs DEF Sound
<1>2. /\ w.writes \in [LevelSet -> Seq(Writes)] /\ v.writes \in [LevelSet -> Seq(Writes)]
      /\ s \in Seq(Writes) /\ s # <<>> /\ IsWorld(w) /\ IsWorld(v) /\ IsWorld(x)
      /\ w.unload \in [LevelSet -> Seq(Chunks)]
  BY SoundStays DEF Sound, Placed, Ranged
<1>3. /\ v.unload = w.unload /\ \A k \in LevelSet : v.writes[k] = Unloads(w.writes[k])
  BY DEF Linked
<1>4. /\ h[2] => Unloads(s) # <<>> /\ Head(Unloads(s)) = h /\ Tail(Unloads(s)) = Unloads(Tail(s))
      /\ ~h[2] => Unloads(s) = Unloads(Tail(s))
  BY <1>2, UnloadsOfHead
<1>5. v.writes[l] = Unloads(s)
  BY <1>3
<1>6. /\ y.q = v.q /\ y.at = v.at /\ y.inbox = v.inbox /\ y.live = v.live
      /\ y.saved = v.saved /\ y.key = v.key /\ y.level = v.level /\ y.master = v.master
      /\ y.log = v.log
      /\ y.writes = IF h[2] THEN [v.writes EXCEPT ![l] = Tail(@)] ELSE v.writes
      /\ y.unload = IF h[2] THEN [v.unload EXCEPT ![l] = Append(@, h[1])] ELSE v.unload
  <2>1. CASE ~h[2]
    BY <2>1
  <2>2. CASE h[2]
    <3> DEFINE u == Land(v, l)
    <3>1. v.writes[l] # <<>> /\ Head(v.writes[l]) = h
      BY <1>4, <1>5, <2>2
    <3>2. /\ u.q = v.q /\ u.at = v.at /\ u.inbox = v.inbox /\ u.live = v.live
          /\ u.saved = v.saved /\ u.key = v.key /\ u.level = v.level /\ u.master = v.master
          /\ u.log = v.log /\ u.writes = [v.writes EXCEPT ![l] = Tail(@)]
          /\ u.unload = [v.unload EXCEPT ![l] = IF Head(v.writes[l])[2]
                                                 THEN Append(@, Head(v.writes[l])[1]) ELSE @]
      <4> IsWorld(v) /\ v.writes[l] # <<>>
        BY <1>2, <3>1
      <4> QED BY ONLY IsWorld(v), l \in LevelSet, v.writes[l] # <<>>, LandIs
    <3>3. y = u
      BY <2>2
    <3> HIDE DEF u, y, h, s
    <3> QED BY <2>2, <3>1, <3>2, <3>3
  <2> QED BY <2>1, <2>2
<1> HIDE DEF x, y, h, s
<1>7. Same(x, w) /\ Same(v, y)
  BY <1>1, <1>6 DEF Same
<1>8. Same(Finish(x), Finish(w)) /\ Same(Finish(w), v)
  BY <1>2, <1>7, SameFinish DEF Linked
<1>9. Same(Finish(x), y)
  BY <1>7, <1>8 DEF Same
<1>10. \A k \in LevelSet : y.writes[k] = Unloads(x.writes[k])
  <2>1. x.writes[l] = Tail(s) /\ y.writes[l] = Unloads(Tail(s))
    <3>1. x.writes[l] = Tail(s)
      BY <1>1, <1>2 DEF s
    <3>2. y.writes[l] = Unloads(Tail(s))
      BY <1>2, <1>4, <1>5, <1>6
    <3> QED BY <3>1, <3>2
  <2>2. \A k \in LevelSet : k # l => x.writes[k] = w.writes[k] /\ y.writes[k] = v.writes[k]
    BY <1>1, <1>2, <1>6
  <2> QED BY <1>3, <2>1, <2>2
<1>11. y.unload = x.unload
  <2>1. CASE h[2]
    BY <1>1, <1>3, <1>6, <2>1
  <2>2. CASE ~h[2]
    <3>1. x.unload = w.unload
      BY <1>1, <1>2, <2>2
    <3> QED BY <1>3, <1>6, <2>2, <3>1
  <2> QED BY <2>1, <2>2
<1>12. Linked(x, y)
  BY <1>9, <1>10, <1>11 DEF Linked
<1> QED BY <1>12 DEF x, y, h, s

-----------------------------------------------------------------------------
(* The inductive invariant.                                                *)

Typed ==
  /\ IsWorld(world) /\ mainq \in Seq(Commands)
  /\ pc \in {"wait", "drain", "barrier", "tail"}
  /\ drain \in [level : Nat \ {0}, more : BOOLEAN, guard : Nat, round : Nat]

(* At the head of the drain's loop the levels are quiet, or nothing of the *)
(* drain has run; past the loop they are, and past the barrier the writes  *)
(* have landed, unless it gave up.                                         *)
Drained ==
  /\ pc = "drain" /\ drain.level = 1 => Quiet(world) \/ (drain.guard = 0 /\ drain.more)
  /\ pc \in {"barrier", "tail"} => Quiet(world)
  /\ pc = "tail" /\ ioBarrier /\ ~gaveUp => \A l \in LevelSet : world.writes[l] = <<>>

(* The autosave marks the last gametime it looked at, which the world is   *)
(* at or one past.  Vanilla's countdown never runs out.                    *)
NeverEnded ==
  lastAutosave = -1 =>
    /\ saves = <<>>
    /\ pc = "wait" => ticks = 0 /\ gt = booted
    /\ pc # "wait" => gt \in {booted, booted + 1}
Ended ==
  lastAutosave # -1 =>
    /\ \E from \in {booted, booted + 1} : from <= lastAutosave /\ OnTheGrid(from, lastAutosave)
    /\ pc = "wait" => gt = lastAutosave
    /\ pc # "wait" => gt \in {lastAutosave, lastAutosave + 1}
Clock ==
  /\ gt \in Nat /\ booted \in Nat /\ ticks \in Nat /\ saves \in Seq(Nat)
  /\ lastAutosave \in Nat \cup {-1}
  /\ countdown \in Nat \ {0} /\ (pc = "wait" => countdown > 1)
  /\ NeverEnded /\ Ended

(* Unless this tick began on unfinished work, what the chunk tasks of the  *)
(* world still add up to is what they came to next to it.                  *)
Atomic ==
  /\ Sound(world) /\ Sound(ideal)
  /\ pc = "wait" => ~cut
  /\ ~cut => Linked(world, ideal)

(* The counters stay below their limits.                                   *)
Bounded == drain.guard <= MaxPolls /\ drain.round < MaxRounds /\ countdown <= MaxValue

IInv == Typed /\ Keyed(world, missed) /\ Drained /\ Clock /\ Atomic /\ Bounded

LEMMA EmptyIsSound == Sound(Empty) /\ Quiet(Empty) /\ Linked(Empty, Empty)
<1>1. IsWorld(Empty) /\ Keyed(Empty, Chunks)
  BY ConstantsAreTyped DEF Empty, IsWorld, Keyed, Fields, Range
<1>2. Ranged(Empty) /\ Queued(Empty) /\ Comes(Empty)
  BY DEF Empty, Ranged, Queued, Comes, Places
<1>3. Entering(Empty)
  BY DEF Empty, Entering, Range, IsInjective
<1>4. Unloading(Empty)
  <2> SUFFICES ASSUME NEW l \in LevelSet
               PROVE  /\ IsInjective(Waiting(Empty, l))
                      /\ \A c \in Range(Waiting(Empty, l)) : LevelOf[c] = l /\ Empty.at[c] = "saving"
    BY DEF Unloading
  <2>1. Empty.unload[l] = <<>> /\ Empty.writes[l] = <<>>
    BY DEF Empty
  <2>2. Waiting(Empty, l) = <<>>
    BY <2>1, NamesOfNone DEF Waiting
  <2> QED BY <2>2 DEF IsInjective, Range
<1>5. Sound(Empty)
  BY <1>1, <1>2, <1>3, <1>4 DEF Sound, Placed
<1>6. Quiet(Empty)
  BY DEF Empty, Quiet, Busy
<1>7. Same(Finish(Empty), Empty)
  BY <1>5, <1>6, QuietFinishes DEF Sound
<1>8. \A l \in LevelSet : Empty.writes[l] = Unloads(Empty.writes[l])
  BY NamesOfNone DEF Empty
<1> QED BY <1>5, <1>6, <1>7, <1>8 DEF Linked

LEMMA Start == Init => IInv
<1> SUFFICES ASSUME Init PROVE IInv
  OBVIOUS
<1> USE ConstantsAreTyped
<1>1. IsWorld(world)
  BY DEF Init, Empty, IsWorld, Fields, Range
<1>2. Keyed(world, missed)
  BY DEF Init, Empty, Keyed, Range
<1>3. Typed /\ Drained
  BY <1>1 DEF Init, Typed, Drained
<1>4. Clock
  BY DEF Init, Clock, NeverEnded, Ended
<1>5. Atomic
  BY EmptyIsSound DEF Init, Atomic
<1>6. Bounded
  BY TickAssumption DEF Init, Bounded
<1> QED BY <1>2, <1>3, <1>4, <1>5, <1>6 DEF IInv

-----------------------------------------------------------------------------
(* Steps of the world.                                                     *)

(* The worlds that a tick ends with.                                       *)
LEMMA TickEndIs ==
  ASSUME TickEnd
  PROVE  LET x == saveAllChunks(world, gt)
             y == Fast(saveAllChunks(ideal, gt))
         IN  \E p \in {<<world, ideal>>, <<x, y>>, <<ioBarrierOf(x), ioBarrierOf(y)>>} :
               /\ world' = Forget(p[1])
               /\ ideal' = IF cut THEN Fast(Forget(p[1])) ELSE Forget(p[2])
               /\ ~AutosaveDue => p = <<world, ideal>> /\ ~gaveUp'
               /\ AutosaveDue /\ ~gaveUp' => p = <<ioBarrierOf(x), ioBarrierOf(y)>>
<1> DEFINE x == saveAllChunks(world, gt)
           y == Fast(saveAllChunks(ideal, gt))
           Ends(p) == /\ world' = Forget(p[1])
                      /\ ideal' = IF cut THEN Fast(Forget(p[1])) ELSE Forget(p[2])
                      /\ ~AutosaveDue => p = <<world, ideal>> /\ ~gaveUp'
                      /\ AutosaveDue /\ ~gaveUp' => p = <<ioBarrierOf(x), ioBarrierOf(y)>>
<1>1. CASE ~AutosaveDue
  <2>1. Ends(<<world, ideal>>)
    BY <1>1 DEF TickEnd, Settle
  <2> QED BY <2>1
<1>2. CASE AutosaveDue
  <2>1. \/ gaveUp' = FALSE /\ Settle(ioBarrierOf(x), ioBarrierOf(y))
        \/ gaveUp' = TRUE /\ Settle(x, y)
    BY <1>2 DEF TickEnd, Autosave
  <2> HIDE DEF x, y
  <2>2. Ends(<<ioBarrierOf(x), ioBarrierOf(y)>>) \/ Ends(<<x, y>>)
    BY <1>2, <2>1 DEF Settle
  <2> QED BY <2>2 DEF x, y
<1> QED BY <1>1, <1>2

LEMMA PollChunksStep ==
  ASSUME Typed, Keyed(world, missed), PollChunks
  PROVE  IsWorld(world') /\ Keyed(world', missed')
<1>1. PICK i \in DOMAIN Levels : Busy(world, Levels[i]) /\ world' = RunTask(world, Levels[i])
  BY DEF PollChunks
<1>2. Levels[i] \in LevelSet
  BY DEF LevelSet, Range
<1>3. IsWorld(world) /\ missed' = missed
  BY DEF PollChunks, Typed
<1> QED BY <1>1, <1>2, <1>3, RunTaskDoes

LEMMA PollCommandStep ==
  ASSUME Typed, Keyed(world, missed), PollCommand
  PROVE  /\ IsWorld(world') /\ Keyed(world', missed')
         /\ mainq' \in Seq(Commands)
<1>1. mainq \in Seq(Commands) /\ mainq # <<>> /\ mainq' = Tail(mainq)
  BY DEF Typed, PollCommand, MayRun
<1>2. Head(mainq) \in Commands /\ mainq' \in Seq(Commands)
  BY <1>1
<1> DEFINE cmd == Head(mainq)
<1>3. /\ world' = Do(world, cmd)
      /\ missed' = IF cmd[1] = "reseed" THEN missed \cup Unborn(world) ELSE missed
  BY DEF PollCommand, Unborn
<1>4. IsWorld(world)
  BY DEF Typed
<1> HIDE DEF cmd
<1>5. /\ IsWorld(Do(world, cmd))
      /\ Keyed(Do(world, cmd), IF cmd[1] = "reseed" THEN missed \cup Unborn(world) ELSE missed)
  <2> cmd \in Commands
    BY <1>2 DEF cmd
  <2> QED BY <1>4, DoDoes
<1> QED BY <1>2, <1>3, <1>5

LEMMA WorldStep ==
  ASSUME Typed, Keyed(world, missed), [Next]_vars
  PROVE  IsWorld(world') /\ Keyed(world', missed')
<1> USE DEF Typed
<1>1. CASE Arrive
  BY <1>1 DEF Arrive
<1>2. CASE Written
  <2>1. PICK l \in LevelSet : world' = Land(world, l)
    BY <1>2 DEF Written
  <2>2. missed' = missed
    BY <1>2 DEF Written
  <2> QED BY <2>1, <2>2, OthersDo
<1>3. CASE pollTask
  BY <1>3, PollChunksStep, PollCommandStep DEF pollTask
<1>4. CASE StartTick
  <2>1. \E asked : world' = Body(world, asked, gt')
    BY <1>4 DEF StartTick
  <2>2. missed' = missed
    BY <1>4 DEF StartTick
  <2> QED BY <2>1, <2>2, BodyDoes
<1>5. CASE EnterLoop
  BY <1>5 DEF EnterLoop
<1>6. CASE DrainLevel
  <2>1. LevelAt \in LevelSet
    <3>1. drain.level \in 2..(Len(Levels) + 1) /\ Levels \in Seq(LevelSet)
      BY <1>6, ConstantsAreTyped DEF DrainLevel
    <3> QED BY <3>1 DEF LevelAt
  <2>2. /\ world' = IF Busy(world, LevelAt) THEN RunTask(world, LevelAt) ELSE world
        /\ missed' = missed
    BY <1>6 DEF DrainLevel
  <2> QED BY <2>1, <2>2, RunTaskDoes
<1>7. CASE DrainTurn
  BY <1>7 DEF DrainTurn
<1>8. CASE Barrier
  <2>1. world' \in {world, ioBarrierOf(world)} /\ missed' = missed
    BY <1>8 DEF Barrier
  <2> QED BY <2>1, OthersDo
<1>9. CASE TickEnd
  <2> DEFINE x == saveAllChunks(world, gt)
  <2>1. PICK w \in {world, x, ioBarrierOf(x)} : world' = Forget(w)
    BY <1>9, TickEndIs
  <2>2. IsWorld(x) /\ Keyed(x, missed)
    BY SaveAllDoes
  <2> HIDE DEF x
  <2>3. IsWorld(w) /\ Keyed(w, missed)
    <3>1. IsWorld(ioBarrierOf(x)) /\ Keyed(ioBarrierOf(x), missed)
      BY <2>2, OthersDo
    <3> QED BY <2>1, <2>2, <3>1 DEF Typed
  <2>4. missed' = missed
    BY <1>9 DEF TickEnd
  <2> QED BY <2>1, <2>3, <2>4, OthersDo
<1>10. CASE UNCHANGED vars
  BY <1>10 DEF vars
<1>11. Wait \/ DrainMain => pollTask
  BY DEF Wait, DrainMain
<1> QED BY <1>1, <1>2, <1>3, <1>4, <1>5, <1>6, <1>7, <1>8, <1>9, <1>10, <1>11 DEF Next, InTick

-----------------------------------------------------------------------------
(* Steps of the rest.                                                      *)

(* What the loops of the drain do to their counters.                       *)
LEMMA DrainStep ==
  ASSUME Typed, [Next]_vars
  PROVE  /\ drain' \in [level : Nat \ {0}, more : BOOLEAN, guard : Nat, round : Nat]
         /\ pc' \in {"wait", "drain", "barrier", "tail"}
<1> DEFINE Counters == [level : Nat \ {0}, more : BOOLEAN, guard : Nat, round : Nat]
<1>0. drain \in Counters /\ pc \in {"wait", "drain", "barrier", "tail"}
  BY DEF Typed
<1>a. ASSUME NEW l \in Nat \ {0}, NEW b \in BOOLEAN, NEW g \in Nat, NEW r \in Nat
      PROVE  [level |-> l, more |-> b, guard |-> g, round |-> r] \in Counters
  OBVIOUS
<1>1. CASE Arrive \/ Written \/ Wait \/ UNCHANGED vars
  BY <1>0, <1>1 DEF Arrive, Written, Wait, vars
<1>2. CASE StartTick
  BY <1>2 DEF StartTick
<1>3. CASE EnterLoop
  <2>1. /\ \/ drain' = drain
           \/ drain' = [drain EXCEPT !.level = 2, !.more = FALSE, !.guard = @ + 1]
        /\ pc' \in {pc, "barrier"}
    BY <1>3 DEF EnterLoop
  <2> DEFINE first  == [drain EXCEPT !.level = 2]
             second == [first EXCEPT !.more = FALSE]
  <2>2. first \in Counters
    BY <1>0
  <2>3. second \in Counters
    <3> HIDE DEF first
    <3>1. FALSE \in BOOLEAN
      OBVIOUS
    <3> QED BY <2>2, <3>1
  <2>4. [second EXCEPT !.guard = @ + 1] \in Counters
    <3> HIDE DEF second
    <3> QED BY <2>3
  <2>5. [second EXCEPT !.guard = @ + 1]
          = [drain EXCEPT !.level = 2, !.more = FALSE, !.guard = @ + 1]
    OBVIOUS
  <2> QED BY <1>0, <2>1, <2>4, <2>5
<1>4. CASE DrainLevel
  <2>1. PICK busy \in BOOLEAN : drain' = [drain EXCEPT !.level = @ + 1, !.more = @ \/ busy]
    BY <1>4 DEF DrainLevel, Busy
  <2>2. drain' = [level |-> drain.level + 1, more |-> drain.more \/ busy,
                  guard |-> drain.guard, round |-> drain.round]
    BY <1>0, <2>1
  <2>3. (drain.more \/ busy) \in BOOLEAN
    OBVIOUS
  <2> QED BY <1>0, <1>4, <2>2, <2>3 DEF DrainLevel
<1>5. CASE DrainMain
  BY <1>0, <1>5 DEF DrainMain
<1>6. CASE DrainTurn
  BY <1>0, <1>6 DEF DrainTurn
<1>7. CASE Barrier
  <2>1. /\ \/ drain' = drain
           \/ drain' = [level |-> 1, more |-> TRUE, guard |-> 0, round |-> NextRound]
        /\ pc' \in {"drain", "tail"}
    BY <1>7 DEF Barrier
  <2>2. NextRound \in Nat
    BY <1>0 DEF NextRound
  <2>3. 1 \in Nat \ {0} /\ TRUE \in BOOLEAN /\ 0 \in Nat
    OBVIOUS
  <2>4. [level |-> 1, more |-> TRUE, guard |-> 0, round |-> NextRound] \in Counters
    BY <2>2, <2>3, <1>a
  <2> QED BY <1>0, <2>1, <2>4
<1>8. CASE TickEnd
  BY <1>8 DEF TickEnd
<1> QED BY <1>1, <1>2, <1>3, <1>4, <1>5, <1>6, <1>7, <1>8 DEF Next, InTick

LEMMA TypedStep ==
  ASSUME Typed, Keyed(world, missed), [Next]_vars
  PROVE  Typed'
<1>1. IsWorld(world)' /\ Keyed(world, missed)'
  BY WorldStep
<1>2. mainq' \in Seq(Commands)
  <2>0. mainq \in Seq(Commands)
    BY DEF Typed
  <2>1. CASE Arrive
    BY <2>0, <2>1 DEF Arrive
  <2>2. CASE PollCommand
    BY <2>2, PollCommandStep
  <2>3. CASE PollChunks \/ Written \/ StartTick \/ UNCHANGED vars
    BY <2>0, <2>3 DEF PollChunks, Written, StartTick, vars
  <2>4. CASE EnterLoop \/ DrainLevel \/ DrainTurn \/ Barrier \/ TickEnd
    BY <2>0, <2>4 DEF EnterLoop, DrainLevel, DrainTurn, Barrier, TickEnd
  <2>5. Wait \/ DrainMain => PollChunks \/ PollCommand
    BY DEF Wait, DrainMain, pollTask
  <2> QED BY <2>1, <2>2, <2>3, <2>4, <2>5 DEF Next, InTick
<1> QED BY <1>1, <1>2, DrainStep DEF Typed

(* The queues are quiet where they were, as long as none of their tasks is *)
(* submitted or run.                                                       *)
LEMMA DrainedStep ==
  ASSUME Typed, Keyed(world, missed), Drained, [Next]_vars
  PROVE  Drained'
<1>0. drain \in [level : Nat \ {0}, more : BOOLEAN, guard : Nat, round : Nat]
  BY DEF Typed
<1> DEFINE Landed(w) == \A l \in LevelSet : w.writes[l] = <<>>
<1>1. CASE Arrive \/ UNCHANGED vars
  BY <1>1 DEF Arrive, vars, timing, Drained
<1>2. CASE Written
  <2>1. PICK l \in LevelSet : world.writes[l] # <<>> /\ world' = Land(world, l)
    BY <1>2 DEF Written
  <2>2. world'.q = world.q
    BY <2>1, OthersDo DEF Typed
  <2>3. Quiet(world') = Quiet(world)
    BY <2>2 DEF Quiet, Busy
  <2>4. ~(pc = "tail" /\ ioBarrier /\ ~gaveUp)
    BY <2>1 DEF Drained
  <2> QED BY <1>2, <2>3, <2>4 DEF Written, timing, Drained
<1>3. CASE Wait
  BY <1>3 DEF Wait, Drained
<1>4. CASE StartTick
  BY <1>4 DEF StartTick, Drained
<1>5. CASE EnterLoop
  <2>1. CASE Entered
    <3>1. drain'.level = 2 /\ pc' = "drain"
      BY <1>0, <1>5, <2>1 DEF EnterLoop
    <3> QED BY <3>1 DEF Drained
  <2>2. CASE ~Entered
    <3>1. Quiet(world)
      <4>1. ~(drain.guard = 0 /\ drain.more)
        BY <2>2, ConstantsAreTyped DEF Entered
      <4> QED BY <1>5, <4>1 DEF EnterLoop, Drained
    <3>2. pc' = "barrier" /\ world' = world
      BY <1>5, <2>2 DEF EnterLoop
    <3> QED BY <3>1, <3>2 DEF Drained
  <2> QED BY <2>1, <2>2
<1>6. CASE DrainLevel
  <2>1. drain'.level = drain.level + 1 /\ pc' = "drain" /\ drain.level \in Nat \ {0}
    BY <1>0, <1>6 DEF DrainLevel
  <2> QED BY <2>1 DEF Drained
<1>7. CASE DrainMain
  <2>1. drain'.level = Len(Levels) + 2 /\ pc' = "drain"
    BY <1>0, <1>7 DEF DrainMain
  <2>2. Len(Levels) \in Nat
    BY ConstantsAreTyped
  <2> QED BY <2>1, <2>2 DEF Drained
<1>8. CASE DrainTurn
  <2>1. Quiet(world) /\ world' = world /\ pc' \in {"drain", "barrier"}
    BY <1>8 DEF DrainTurn, Idle
  <2> QED BY <2>1 DEF Drained
<1>9. CASE Barrier
  <2>1. Quiet(world) /\ pc = "barrier"
    BY <1>9 DEF Barrier, Drained
  <2>2. CASE ioBarrier /\ (\E l \in LevelSet : world.writes[l] # <<>>)
    <3>1. (world' = ioBarrierOf(world) /\ gaveUp' = gaveUp) \/ (gaveUp' = TRUE /\ world' = world)
      BY <1>9, <2>2 DEF Barrier
    <3>2. Quiet(world') /\ (gaveUp' \/ Landed(world'))
      <4>1. CASE gaveUp' = TRUE /\ world' = world
        BY <2>1, <4>1
      <4>2. CASE world' = ioBarrierOf(world)
        <5>1. world'.q = world.q
          BY <4>2, OthersDo DEF Typed
        <5>2. world'.writes = [l \in LevelSet |-> <<>>]
          BY <4>2 DEF ioBarrierOf, LandAllOf, Typed, IsWorld, Fields
        <5> QED BY <2>1, <5>1, <5>2 DEF Quiet, Busy
      <4> QED BY <3>1, <4>1, <4>2
    <3>3. \/ pc' = "tail"
          \/ pc' = "drain" /\ drain'.guard = 0 /\ drain'.more
      BY <1>9, <2>2 DEF Barrier
    <3> QED BY <3>2, <3>3 DEF Drained
  <2>3. CASE ~ioBarrier \/ Landed(world)
    <3>1. pc' = "tail" /\ world' = world /\ ioBarrier' = ioBarrier
      BY <1>9, <2>3 DEF Barrier, timing
    <3> QED BY <2>1, <2>3, <3>1 DEF Drained
  <2> QED BY <2>2, <2>3
<1>10. CASE TickEnd
  BY <1>10 DEF TickEnd, Drained
<1> QED BY <1>1, <1>2, <1>3, <1>4, <1>5, <1>6, <1>7, <1>8, <1>9, <1>10 DEF Next, InTick

-----------------------------------------------------------------------------
(* Steps of the world and of the one next to it.                           *)

LEMMA PollAgrees ==
  ASSUME Typed, Atomic, pollTask
  PROVE  Sound(world') /\ Sound(ideal') /\ (~cut => Linked(world', ideal'))
<1>0. Sound(world) /\ Sound(ideal) /\ (~cut => Linked(world, ideal))
  BY DEF Atomic
<1>1. CASE PollChunks
  <2>1. PICK i \in DOMAIN Levels : Busy(world, Levels[i]) /\ world' = RunTask(world, Levels[i])
    BY <1>1 DEF PollChunks
  <2>2. Levels[i] \in LevelSet /\ ideal' = ideal
    BY <1>1 DEF LevelSet, Range, PollChunks
  <2>3. Sound(RunTask(world, Levels[i]))
    BY <1>0, <2>1, <2>2, SoundStays
  <2>4. ~cut => Linked(RunTask(world, Levels[i]), ideal)
    BY <1>0, <2>1, <2>2, LinkedRunTask
  <2> QED BY <1>0, <2>1, <2>2, <2>3, <2>4
<1>2. CASE PollCommand
  <2>1. mainq \in Seq(Commands) /\ mainq # <<>> /\ Quiet(world)
    BY <1>2 DEF Typed, PollCommand, MayRun
  <2> DEFINE cmd == Head(mainq)
  <2>2. cmd \in Commands
    BY <2>1
  <2>3. world' = Do(world, cmd) /\ ideal' = Finish(Do(ideal, cmd))
    BY <1>2 DEF PollCommand
  <2> HIDE DEF cmd
  <2>4. Sound(Do(world, cmd)) /\ Sound(Do(ideal, cmd))
    BY <1>0, <2>2, SoundStays
  <2>5. Sound(Finish(Do(ideal, cmd)))
    BY <2>4, SoundStays
  <2>6. ~cut => Linked(Do(world, cmd), Finish(Do(ideal, cmd)))
    BY <1>0, <2>1, <2>2, LinkedDo
  <2> QED BY <2>3, <2>4, <2>5, <2>6
<1> QED BY <1>1, <1>2 DEF pollTask

LEMMA AtomicStep ==
  ASSUME Typed, Drained, Atomic, [Next]_vars
  PROVE  Atomic'
<1>0. Sound(world) /\ Sound(ideal) /\ (pc = "wait" => ~cut) /\ (~cut => Linked(world, ideal))
  BY DEF Atomic
<1>1. CASE Arrive \/ EnterLoop \/ DrainTurn \/ UNCHANGED vars
  <2>1. world' = world /\ ideal' = ideal /\ cut' = cut /\ (pc' = "wait" => pc = "wait")
    BY <1>1 DEF Arrive, EnterLoop, DrainTurn, vars
  <2> QED BY <1>0, <2>1 DEF Atomic
<1>2. CASE Written
  <2>1. PICK l \in LevelSet : /\ world.writes[l] # <<>> /\ world' = Land(world, l)
                              /\ ideal' = IF Head(world.writes[l])[2] THEN Land(ideal, l) ELSE ideal
    BY <1>2 DEF Written
  <2>2. cut' = cut /\ pc' = pc
    BY <1>2 DEF Written
  <2>3. Sound(Land(world, l)) /\ Sound(Land(ideal, l))
    BY <1>0, SoundStays
  <2>4. ~cut => Linked(world', ideal')
    BY <1>0, <2>1, LinkedLand
  <2> QED BY <1>0, <2>1, <2>2, <2>3, <2>4 DEF Atomic
<1>3. CASE Wait \/ DrainMain
  <2>1. pollTask /\ cut' = cut /\ pc' = pc
    BY <1>3 DEF Wait, DrainMain
  <2> QED BY <1>0, <2>1, PollAgrees DEF Atomic
<1>4. CASE StartTick
  <2>1. PICK asked : /\ world' = Body(world, asked, gt')
                     /\ ideal' = Fast(Finish(Body(ideal, asked, gt')))
    BY <1>4 DEF StartTick
  <2>2. cut' = ~Quiet(world) /\ pc' = "drain" /\ ~cut
    BY <1>0, <1>4 DEF StartTick
  <2>3. Sound(Body(world, asked, gt')) /\ Sound(Body(ideal, asked, gt'))
    BY <1>0, SoundStays
  <2>4. Sound(Finish(Body(ideal, asked, gt')))
    BY <2>3, SoundStays
  <2>5. Sound(Fast(Finish(Body(ideal, asked, gt'))))
    BY <2>4, SoundStays
  <2>6. Quiet(world) => Linked(Body(world, asked, gt'), Fast(Finish(Body(ideal, asked, gt'))))
    BY <1>0, <2>2, LinkedBody
  <2> QED BY <2>1, <2>2, <2>3, <2>5, <2>6 DEF Atomic
<1>5. CASE DrainLevel
  <2>1. LevelAt \in LevelSet
    <3>1. drain.level \in 2..(Len(Levels) + 1) /\ Levels \in Seq(LevelSet)
      BY <1>5, ConstantsAreTyped DEF DrainLevel
    <3> QED BY <3>1 DEF LevelAt
  <2>2. /\ world' = IF Busy(world, LevelAt) THEN RunTask(world, LevelAt) ELSE world
        /\ ideal' = ideal /\ cut' = cut /\ pc' = pc
    BY <1>5 DEF DrainLevel
  <2> DEFINE l == LevelAt
  <2> HIDE DEF l
  <2>3. l \in LevelSet /\ world' = IF Busy(world, l) THEN RunTask(world, l) ELSE world
    BY <2>1, <2>2 DEF l
  <2>4. Sound(world') /\ (~cut => Linked(world', ideal))
    BY <1>0, <2>3, SoundStays, LinkedRunTask
  <2> QED BY <1>0, <2>2, <2>4 DEF Atomic
<1>6. CASE Barrier
  <2>1. /\ \/ world' = ioBarrierOf(world) /\ ideal' = ioBarrierOf(ideal)
           \/ UNCHANGED <<world, ideal>>
        /\ cut' = cut /\ pc' \in {"drain", "tail"}
    BY <1>6 DEF Barrier
  <2>2. Sound(ioBarrierOf(world)) /\ Sound(ioBarrierOf(ideal))
    BY <1>0, SoundStays
  <2>3. ~cut => Linked(ioBarrierOf(world), ioBarrierOf(ideal))
    BY <1>0, LinkedBarrier
  <2> QED BY <1>0, <2>1, <2>2, <2>3 DEF Atomic
<1>7. CASE TickEnd
  <2> DEFINE x == saveAllChunks(world, gt)
             y == Fast(saveAllChunks(ideal, gt))
  <2>1. Quiet(world) /\ cut' = FALSE
    BY <1>7 DEF TickEnd, Drained
  <2>2. PICK p \in {<<world, ideal>>, <<x, y>>, <<ioBarrierOf(x), ioBarrierOf(y)>>} :
               /\ world' = Forget(p[1])
               /\ ideal' = IF cut THEN Fast(Forget(p[1])) ELSE Forget(p[2])
    BY <1>7, TickEndIs
  <2>3. Sound(x) /\ x.q = world.q /\ (~cut => Linked(x, y))
    <3>1. ~cut => Linked(x, y)
      BY <1>0, <2>1, LinkedSaveAll
    <3>2. x.q = world.q
      BY <1>0, SaveAllIs DEF Sound
    <3> QED BY <1>0, <3>1, <3>2, SoundStays
  <2>4. Sound(y)
    <3>1. Sound(saveAllChunks(ideal, gt))
      BY <1>0, SoundStays
    <3> QED BY <3>1, SoundStays
  <2> HIDE DEF x, y
  <2>5. Sound(ioBarrierOf(x)) /\ Sound(ioBarrierOf(y)) /\ ioBarrierOf(x).q = world.q
        /\ (~cut => Linked(ioBarrierOf(x), ioBarrierOf(y)))
    <3>1. ioBarrierOf(x).q = x.q
      BY <2>3, BarrierIs DEF Sound
    <3> QED BY <2>3, <2>4, <3>1, SoundStays, LinkedBarrier
  <2> DEFINE w == p[1]
             v == p[2]
  <2>6. Sound(w) /\ Sound(v) /\ w.q = world.q /\ (~cut => Linked(w, v))
    BY <1>0, <2>2, <2>3, <2>4, <2>5
  <2>7. world' = Forget(w) /\ ideal' = IF cut THEN Fast(Forget(w)) ELSE Forget(v)
    BY <2>2
  <2> HIDE DEF w, v
  <2>8. Quiet(w)
    BY <2>1, <2>6 DEF Quiet, Busy
  <2>9. Sound(Forget(w)) /\ Sound(Forget(v))
    BY <2>6, SoundStays
  <2>10. Sound(Fast(Forget(w)))
    BY <2>9, SoundStays
  <2>11. Linked(Forget(w), Fast(Forget(w)))
    BY <2>6, <2>8, LinkedForget
  <2>12. ~cut => Linked(Forget(w), Forget(v))
    BY <2>6, <2>8, LinkedForget
  <2> QED BY <2>1, <2>7, <2>9, <2>10, <2>11, <2>12 DEF Atomic
<1> QED BY <1>1, <1>2, <1>3, <1>4, <1>5, <1>6, <1>7 DEF Next, InTick

LEMMA BoundedStep ==
  ASSUME Typed, Clock, Bounded, [Next]_vars
  PROVE  Bounded'
<1> USE ConstantsAreTyped
<1>0. /\ drain \in [level : Nat \ {0}, more : BOOLEAN, guard : Nat, round : Nat]
      /\ drain.guard <= MaxPolls /\ drain.round < MaxRounds
      /\ countdown \in Nat \ {0} /\ countdown <= MaxValue
  BY DEF Typed, Clock, Bounded
<1>1. CASE Arrive \/ Written \/ Wait \/ UNCHANGED vars
  <2>1. drain' = drain /\ countdown' = countdown
    BY <1>1 DEF Arrive, Written, Wait, vars, timing
  <2> QED BY <1>0, <2>1 DEF Bounded
<1>2. CASE StartTick
  <2>1. drain'.guard = 0 /\ drain'.round = 0
        /\ countdown' = IF countdown > 1 THEN countdown - 1 ELSE AutosaveTicks
    BY <1>2 DEF StartTick
  <2> QED BY <1>0, <2>1, TickAssumption DEF Bounded
<1>3. CASE EnterLoop
  <2>1. countdown' = countdown
    BY <1>3 DEF EnterLoop, timing
  <2>2. CASE Entered
    <3>1. drain.guard < MaxPolls
          /\ drain' = [drain EXCEPT !.level = 2, !.more = FALSE, !.guard = @ + 1]
      BY <1>3, <2>2 DEF EnterLoop, Entered
    <3>2. drain'.guard = drain.guard + 1 /\ drain'.round = drain.round
      BY <1>0, <3>1
    <3> QED BY <1>0, <2>1, <3>1, <3>2 DEF Bounded
  <2>3. CASE ~Entered
    <3>1. drain' = drain
      BY <1>3, <2>3 DEF EnterLoop
    <3> QED BY <1>0, <2>1, <3>1 DEF Bounded
  <2> QED BY <2>2, <2>3
<1>4. CASE DrainLevel \/ DrainMain \/ DrainTurn
  <2>1. countdown' = countdown
    BY <1>4 DEF DrainLevel, DrainMain, DrainTurn, timing
  <2>2. drain'.guard = drain.guard /\ drain'.round = drain.round
    BY <1>0, <1>4 DEF DrainLevel, DrainMain, DrainTurn
  <2> QED BY <1>0, <2>1, <2>2 DEF Bounded
<1>5. CASE Barrier
  <2>1. countdown' = countdown
    BY <1>5 DEF Barrier, timing
  <2>2. \/ drain' = drain
        \/ /\ drain' = [level |-> 1, more |-> TRUE, guard |-> 0, round |-> NextRound]
           /\ NextRound < MaxRounds
    BY <1>5 DEF Barrier
  <2> QED BY <1>0, <2>1, <2>2 DEF Bounded
<1>6. CASE TickEnd
  <2>1. drain'.guard = 0 /\ drain'.round = 0 /\ countdown' = MaxValue
    BY <1>6 DEF TickEnd
  <2> QED BY <2>1 DEF Bounded
<1> QED BY <1>1, <1>2, <1>3, <1>4, <1>5, <1>6 DEF Next, InTick

-----------------------------------------------------------------------------
(* Steps of the clock.                                                     *)

(* A gametime the autosave saves at, and OnTheGrid of any saves.           *)
OnAMultiple(g) == g > 0 /\ g % AutosaveTicks = 0

Grid(s, from, to) ==
  /\ Range(s) = {g \in from..to : OnAMultiple(g)}
  /\ \A i, j \in DOMAIN s : i < j => s[i] < s[j]

LEMMA GridIs == \A from, to : OnTheGrid(from, to) <=> Grid(saves, from, to)
BY DEF OnTheGrid, Grid, OnAMultiple

(* One gametime further.                                                   *)
LEMMA GridGrows ==
  ASSUME NEW s \in Seq(Nat), NEW from \in Nat, NEW to \in Nat, from <= to + 1,
         Grid(s, from, to)
  PROVE  Grid(IF OnAMultiple(to + 1) THEN Append(s, to + 1) ELSE s, from, to + 1)
<1>1. from..(to + 1) = (from..to) \cup {to + 1}
  OBVIOUS
<1>2. CASE ~OnAMultiple(to + 1)
  <2>1. {g \in from..(to + 1) : OnAMultiple(g)} = {g \in from..to : OnAMultiple(g)}
    BY <1>1, <1>2
  <2> QED BY <1>2, <2>1 DEF Grid
<1>3. CASE OnAMultiple(to + 1)
  <2> DEFINE t == Append(s, to + 1)
  <2>1. Range(t) = Range(s) \cup {to + 1}
    BY RangeOfAppend
  <2>2. {g \in from..(to + 1) : OnAMultiple(g)}
          = {g \in from..to : OnAMultiple(g)} \cup {to + 1}
    BY <1>1, <1>3
  <2>3. \A i \in DOMAIN s : s[i] \in Nat /\ s[i] <= to
    <3> SUFFICES ASSUME NEW i \in DOMAIN s PROVE s[i] \in Nat /\ s[i] <= to
      OBVIOUS
    <3>1. s[i] \in Range(s)
      BY DEF Range
    <3> QED BY <3>1 DEF Grid
  <2>4. \A i, j \in DOMAIN t : i < j => t[i] < t[j]
    <3> SUFFICES ASSUME NEW i \in 1..(Len(s) + 1), NEW j \in 1..(Len(s) + 1), i < j
                 PROVE  t[i] < t[j]
      OBVIOUS
    <3>1. i \in DOMAIN s /\ t[i] = s[i]
      OBVIOUS
    <3>2. CASE j \in DOMAIN s
      <4>1. t[j] = s[j]
        BY <3>2
      <4> QED BY <3>1, <3>2, <4>1 DEF Grid
    <3>3. CASE j = Len(s) + 1
      <4>1. t[j] = to + 1
        BY <3>3
      <4> QED BY <2>3, <3>1, <4>1
    <3> QED BY <3>2, <3>3
  <2> HIDE DEF t
  <2>5. Grid(t, from, to + 1)
    BY <2>1, <2>2, <2>4 DEF Grid
  <2> QED BY <1>3, <2>5 DEF t
<1> QED BY <1>2, <1>3

(* The first look of the autosave at the clock.                            *)
LEMMA GridStarts ==
  ASSUME NEW g \in Nat
  PROVE  Grid(IF OnAMultiple(g) THEN <<g>> ELSE <<>>, g, g)
<1>1. g..g = {g}
  OBVIOUS
<1>2. CASE OnAMultiple(g)
  BY <1>1, <1>2 DEF Grid, Range
<1>3. CASE ~OnAMultiple(g)
  BY <1>1, <1>3 DEF Grid, Range
<1> QED BY <1>2, <1>3

(* The steps inside a wait or a tick, which leave the clock alone.         *)
Elsewhere ==
  /\ UNCHANGED <<gt, booted, ticks, countdown, lastAutosave, saves>>
  /\ (pc' = "wait") = (pc = "wait")

LEMMA ElsewhereIs ==
  ASSUME Typed, [Next]_vars
  PROVE  Elsewhere \/ StartTick \/ TickEnd
<1> USE DEF Elsewhere, timing
<1>1. CASE Arrive \/ Written \/ Wait \/ UNCHANGED vars
  BY <1>1 DEF Arrive, Written, Wait, vars
<1>2. CASE EnterLoop \/ DrainLevel \/ DrainMain
  BY <1>2 DEF EnterLoop, DrainLevel, DrainMain
<1>3. CASE DrainTurn \/ Barrier
  BY <1>3 DEF DrainTurn, Barrier
<1> QED BY <1>1, <1>2, <1>3 DEF Next, InTick

LEMMA ClockStep ==
  ASSUME Typed, Clock, [Next]_vars
  PROVE  Clock'
<1> USE ConstantsAreTyped
<1>1. CASE Elsewhere
  <2>1. NeverEnded' /\ Ended'
    BY <1>1 DEF Elsewhere, Clock, NeverEnded, Ended, OnTheGrid
  <2> QED BY <1>1, <2>1 DEF Elsewhere, Clock
<1>2. CASE StartTick
  <2>1. /\ gt' \in {gt, gt + 1} /\ booted' = booted /\ ticks' = ticks + 1
        /\ countdown' = countdown - 1 /\ lastAutosave' = lastAutosave /\ saves' = saves
        /\ pc = "wait" /\ pc' = "drain"
    BY <1>2 DEF StartTick, Clock
  <2>2. NeverEnded' /\ Ended'
    BY <2>1 DEF Clock, NeverEnded, Ended, OnTheGrid
  <2> QED BY <2>1, <2>2 DEF Clock
<1>3. CASE TickEnd
  <2>1. /\ gt' = gt /\ booted' = booted /\ ticks' = ticks /\ countdown' = MaxValue
        /\ lastAutosave' = gt /\ pc = "tail" /\ pc' = "wait"
        /\ saves' = IF gt # lastAutosave /\ OnAMultiple(gt) THEN Append(saves, gt) ELSE saves
    BY <1>3 DEF TickEnd, AutosaveDue, OnAMultiple
  <2>2. gt \in Nat /\ booted \in Nat /\ saves \in Seq(Nat) /\ lastAutosave \in Nat \cup {-1}
    BY DEF Clock
  <2>3. saves' \in Seq(Nat)
    BY <2>1, <2>2
  <2>4. \E from \in {booted, booted + 1} : from <= gt /\ Grid(saves', from, gt)
    <3>1. CASE lastAutosave = -1
      <4>1. saves = <<>> /\ gt \in {booted, booted + 1}
        BY <2>1, <3>1 DEF Clock, NeverEnded
      <4>2. saves' = IF OnAMultiple(gt) THEN <<gt>> ELSE <<>>
        BY <2>1, <2>2, <3>1, <4>1
      <4> QED BY <2>2, <4>1, <4>2, GridStarts
    <3>2. CASE lastAutosave # -1
      <4>1. PICK from \in {booted, booted + 1} : from <= lastAutosave
                                                   /\ Grid(saves, from, lastAutosave)
        BY <3>2, GridIs DEF Clock, Ended
      <4>2. lastAutosave \in Nat /\ gt \in {lastAutosave, lastAutosave + 1}
        BY <2>1, <2>2, <3>2 DEF Clock, Ended
      <4>3. CASE gt = lastAutosave
        BY <2>1, <4>1, <4>3
      <4>4. CASE gt = lastAutosave + 1
        <5>1. saves' = IF OnAMultiple(lastAutosave + 1)
                       THEN Append(saves, lastAutosave + 1) ELSE saves
          BY <2>1, <4>2, <4>4
        <5>2. from \in Nat /\ from <= lastAutosave + 1
          BY <2>2, <4>1, <4>2
        <5>3. Grid(saves', from, lastAutosave + 1)
          BY <2>2, <4>1, <4>2, <5>1, <5>2, GridGrows
        <5> QED BY <4>4, <5>2, <5>3, <4>1
      <4> QED BY <4>2, <4>3, <4>4
    <3> QED BY <3>1, <3>2
  <2>5. NeverEnded'
    BY <2>1, <2>2 DEF NeverEnded
  <2>6. Ended'
    BY <2>1, <2>4 DEF Ended, OnTheGrid, Grid, OnAMultiple
  <2> QED BY <2>1, <2>2, <2>3, <2>5, <2>6 DEF Clock
<1> QED BY <1>1, <1>2, <1>3, ElsewhereIs

-----------------------------------------------------------------------------
(* The theorems.                                                           *)

LEMMA Invariant == Spec => []IInv
<1>1. Init => IInv
  BY Start
<1>2. IInv /\ [Next]_vars => IInv'
  <2> SUFFICES ASSUME IInv, [Next]_vars PROVE IInv'
    OBVIOUS
  <2>1. Typed /\ Keyed(world, missed) /\ Drained /\ Clock /\ Atomic /\ Bounded
    BY DEF IInv
  <2>2. Typed'
    BY <2>1, TypedStep
  <2>3. Keyed(world, missed)'
    BY <2>1, WorldStep
  <2>4. Drained'
    BY <2>1, DrainedStep
  <2>5. Clock'
    BY <2>1, ClockStep
  <2>6. Atomic'
    BY <2>1, AtomicStep
  <2>7. Bounded'
    BY <2>1, BoundedStep
  <2> QED BY <2>2, <2>3, <2>4, <2>5, <2>6, <2>7 DEF IInv
<1> QED BY <1>1, <1>2, PTL DEF Spec

(* After a reseed no level draws from an older key, and no entity does     *)
(* that is in the world, unless a reseed found it in a loading inbox: for  *)
(* any levels and chunks, and whatever of them loads, leaves or is written *)
(* when the reseed comes (DetCommands.reseed, processPendingLoads).        *)
THEOREM ReseedReaches == Spec => []ReseedReachesTheLoaded
<1>1. IInv => ReseedReachesTheLoaded
  BY DEF IInv, Keyed, ReseedReachesTheLoaded
<1> QED BY <1>1, Invariant, PTL

(* Autosaves come at the multiples of AutosaveTicks and once at each, for  *)
(* any period, any gametime a world is loaded at and any number of ticks,  *)
(* frozen or not (detmc$autosaveOnWorldClock, ticksUntilAutosave).         *)
THEOREM AutosavesKeepTheGrid == Spec => []AutosavesOnTheGrid
<1>1. IInv => AutosavesOnTheGrid
  <2> SUFFICES ASSUME IInv, pc = "wait", ticks > 0
               PROVE  OnTheGrid(booted, gt) \/ OnTheGrid(booted + 1, gt)
    BY DEF AutosavesOnTheGrid
  <2>1. lastAutosave # -1
    BY DEF IInv, Clock, NeverEnded
  <2>2. gt = lastAutosave
    BY <2>1 DEF IInv, Clock, Ended
  <2> QED BY <2>1, <2>2 DEF IInv, Clock, Ended
<1> QED BY <1>1, Invariant, PTL

(* The drain of a tick ends on quiet queues however the chunk tasks of the *)
(* levels and the commands feed one another; with the IO barrier, and      *)
(* after an autosave that hands every chunk over once more, the tick ends  *)
(* on landed writes, whenever the IO workers land them, unless a barrier   *)
(* gave up (detmc$drainChunkTasksAtTickEnd, detmc$ioBarrier,               *)
(* detmc$autosaveOnWorldClock, detmc$saveBarrier).                         *)
THEOREM TickEndsQuiet == Spec => TickLeavesNothing
<1>1. IInv /\ [Next]_vars =>
        [pc = "tail" /\ pc' = "wait" =>
           /\ Quiet(world')
           /\ Waited /\ ~gaveUp' => \A l \in LevelSet : world'.writes[l] = <<>>]_vars
  <2> SUFFICES ASSUME IInv, [Next]_vars, pc = "tail", pc' = "wait"
               PROVE  /\ Quiet(world')
                      /\ Waited /\ ~gaveUp' => \A l \in LevelSet : world'.writes[l] = <<>>
    OBVIOUS
  <2> DEFINE x == saveAllChunks(world, gt)
             b == ioBarrierOf(x)
  <2>1. TickEnd
    <3>1. CASE Arrive \/ Written \/ Wait \/ StartTick \/ UNCHANGED vars
      BY <3>1 DEF Arrive, Written, Wait, StartTick, vars
    <3>2. CASE EnterLoop \/ DrainLevel \/ DrainMain \/ DrainTurn \/ Barrier
      BY <3>2 DEF EnterLoop, DrainLevel, DrainMain, DrainTurn, Barrier
    <3> QED BY <3>1, <3>2 DEF Next, InTick
  <2>2. PICK w \in {world, x, b} : /\ world' = Forget(w)
                                   /\ ~AutosaveDue => w = world
                                   /\ AutosaveDue /\ ~gaveUp' => w = b
    BY <2>1, TickEndIs
  <2>3. IsWorld(world) /\ Sound(world) /\ Quiet(world)
    BY DEF IInv, Typed, Atomic, Drained
  <2>4. Sound(x) /\ x.q = world.q
    BY <2>3, SoundStays, SaveAllIs
  <2> HIDE DEF x
  <2>5. IsWorld(b) /\ b.q = world.q /\ b.writes = [l \in LevelSet |-> <<>>]
    BY <2>4, SoundStays, BarrierIs DEF Sound
  <2> HIDE DEF b
  <2>6. IsWorld(w) /\ w.q = world.q
    BY <2>2, <2>3, <2>4, <2>5 DEF Sound
  <2>7. world'.q = world.q /\ world'.writes = w.writes
    BY <2>2, <2>6, ForgetIs
  <2>8. Quiet(world')
    BY <2>3, <2>7 DEF Quiet, Busy
  <2>9. ASSUME Waited, ~gaveUp', NEW l \in LevelSet PROVE world'.writes[l] = <<>>
    <3>1. CASE AutosaveDue
      BY <2>2, <2>5, <2>7, <2>9, <3>1
    <3>2. CASE ~AutosaveDue
      <4>1. ioBarrier /\ ~gaveUp /\ w = world
        BY <2>2, <2>9, <3>2 DEF Waited
      <4> QED BY <2>7, <4>1 DEF IInv, Drained
    <3> QED BY <3>1, <3>2
  <2> QED BY <2>8, <2>9
<1> QED BY <1>1, Invariant, PTL DEF Spec, TickLeavesNothing

(* Every variable has its shape, for any levels, chunks and limits: no     *)
(* chunk is twice in an inbox or in a queue of unloads, every task is one  *)
(* of its chunk's, and no loop of the drain runs past its limit            *)
(* (loadingInbox, unloadQueue, detmc$drainChunkTasksAtTickEnd).            *)
THEOREM TypeCorrect == Spec => []TypeOK
<1>1. ASSUME NEW w, Sound(w)
      PROVE  /\ \A l \in LevelSet :
                  /\ \A t \in w.q[l] : t[1] \in Of(l) /\ t[2] \in 1..Steps[t[1]]
                  /\ w.live[l] \subseteq Of(l)
                  /\ \A s \in {w.unload[l], w.inbox[l]} : IsInjective(s) /\ Range(s) \subseteq Of(l)
             /\ \A c \in Chunks : w.at[c] \in {"out", "coming", "in", "leaving", "saving"}
  <2>1. IsWorld(w) /\ Ranged(w) /\ Queued(w) /\ Entering(w) /\ Unloading(w)
    BY <1>1 DEF Sound, Placed
  <2>2. \A c \in Chunks : w.at[c] \in {"out", "coming", "in", "leaving", "saving"}
    BY <2>1 DEF Ranged, Places
  <2>3. ASSUME NEW l \in LevelSet
        PROVE  /\ \A t \in w.q[l] : t[1] \in Of(l) /\ t[2] \in 1..Steps[t[1]]
               /\ w.live[l] \subseteq Of(l)
               /\ \A s \in {w.unload[l], w.inbox[l]} : IsInjective(s) /\ Range(s) \subseteq Of(l)
    <3>1. \A t \in w.q[l] : t[1] \in Of(l) /\ t[2] \in 1..Steps[t[1]]
      BY <2>1 DEF IsWorld, Queued, Of
    <3>2. w.live[l] \subseteq Of(l) /\ Range(w.inbox[l]) \subseteq Of(l)
      BY <2>1, HomeIsChunk DEF IsWorld, Of
    <3>3. IsInjective(w.inbox[l])
      BY <2>1 DEF Entering
    <3> DEFINE a == w.unload[l]
               b == Names(w.writes[l])
    <3>4. a \in Seq(Chunks) /\ b \in Seq(Chunks) /\ Waiting(w, l) = a \o b
      BY <2>1, WritesAre DEF Waiting
    <3>5. IsInjective(Waiting(w, l)) /\ \A c \in Range(Waiting(w, l)) : LevelOf[c] = l
      BY <2>1 DEF Unloading
    <3> HIDE DEF a, b
    <3>6. IsInjective(a) /\ Range(a) \subseteq Range(Waiting(w, l))
      BY <3>4, <3>5, InjectiveBoth
    <3>7. Range(a) \subseteq Chunks
      BY <3>4 DEF Range
    <3>8. Range(a) \subseteq Of(l)
      BY <3>5, <3>6, <3>7 DEF Of
    <3> QED BY <3>1, <3>2, <3>3, <3>6, <3>8 DEF a
  <2> QED BY <2>2, <2>3
<1>2. IInv => TypeOK
  <2> SUFFICES ASSUME IInv PROVE TypeOK
    OBVIOUS
  <2>1. Sound(world) /\ Sound(ideal)
    BY DEF IInv, Atomic
  <2>2. /\ pc \in {"wait", "drain", "barrier", "tail"}
        /\ drain.guard \in 0..MaxPolls /\ drain.round \in 0..(MaxRounds - 1)
        /\ gt \in Nat /\ countdown \in 1..MaxValue /\ saves \in Seq(Nat)
    BY ConstantsAreTyped DEF IInv, Typed, Clock, Bounded
  <2> QED BY <1>1, <2>1, <2>2 DEF TypeOK
<1> QED BY <1>2, Invariant, PTL

(* Each level goes through the same history, and ends in the same chunks,  *)
(* entities and keys, as if every command and every tick took all its      *)
(* chunk work with it at once: for any levels, priorities and lengths of   *)
(* the chunk tasks, whenever the clock ends a wait, commands come or       *)
(* writes land, unless a tick begins on unfinished work                    *)
(* (detmc$chunkWorkBeforeCommands, detmc$drainChunkTasksAtTickEnd,         *)
(* saveChunksEagerly, processPendingLoads, ChunkTaskPriorityQueue.pop).    *)
THEOREM WorksAsIfAtomic == Spec => []AsIfAtomic
<1>1. IInv => AsIfAtomic
  <2> SUFFICES ASSUME IInv, Quiet(world), ~cut
               PROVE  View(world) = View(ideal)
    BY DEF AsIfAtomic
  <2>1. Sound(world) /\ Sound(ideal) /\ Linked(world, ideal)
    BY DEF IInv, Atomic
  <2>2. Same(world, ideal) /\ world.unload = ideal.unload
    BY <2>1, LinkedIsSame DEF Linked
  <2>3. \A l \in LevelSet : Unloads(world.writes[l]) = Unloads(ideal.writes[l])
    <3> SUFFICES ASSUME NEW l \in LevelSet
                 PROVE  Unloads(world.writes[l]) = Unloads(ideal.writes[l])
      OBVIOUS
    <3>1. world.writes[l] \in Seq(Writes) /\ ideal.writes[l] = Unloads(world.writes[l])
      BY <2>1, WritesAre DEF Sound, Placed, Linked
    <3> QED BY <3>1, UnloadsTwice
  <2> DEFINE x == View(world)
             y == View(ideal)
             F == [l \in LevelSet |-> Unloads(world.writes[l])]
             G == [l \in LevelSet |-> Unloads(ideal.writes[l])]
  <2>4. F = G
    BY <2>3
  <2>5. /\ x = [f \in Fields |-> IF f = "writes" THEN F ELSE IF f = "born" THEN <<>> ELSE world[f]]
        /\ y = [f \in Fields |-> IF f = "writes" THEN G ELSE IF f = "born" THEN <<>> ELSE ideal[f]]
    <3>1. DOMAIN world = Fields /\ DOMAIN ideal = Fields
      BY <2>1 DEF Sound, IsWorld
    <3> QED BY <3>1 DEF View, Fast
  <2> HIDE DEF x, y, F, G
  <2>6. \A f \in Fields \ {"writes", "born"} : world[f] = ideal[f]
    BY <2>2 DEF Fields, Same
  <2>7. x = y
    BY <2>4, <2>5, <2>6
  <2> QED BY <2>7 DEF x, y
<1> QED BY <1>1, Invariant, PTL

=============================================================================
