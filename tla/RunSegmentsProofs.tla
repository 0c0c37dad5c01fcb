-------------------------- MODULE RunSegmentsProofs --------------------------
(***************************************************************************)
(* Theorems about the segment runner, for any replicas, detectors, length  *)
(* and interval of the run, and any schedule of reseeds: whatever stalls,  *)
(* overshoots, dies or raises, and in any order of the threads.            *)
(***************************************************************************)
EXTENDS RunSegments, FiniteSetTheorems, SequenceTheorems, TLAPS

(* The runner's view is at most behind its server, and not behind once the *)
(* thread that reads it is through.                                        *)
HitsAreKept ==
  \A r \in Replica :
    /\ hits[r] \subseteq fired[r]
    /\ thread[r] = "ended" /\ ~faulty[r] => hits[r] = fired[r]

(* Between two boundaries of the grid there are Interval ticks, except     *)
(* before the end of the run.                                              *)
OnGrid == tick \in {k * Interval : k \in 0..Ticks} \cup {Ticks}

(* This segment began at the k-th boundary.                                *)
BeganAt(k) == k * Interval < Ticks /\ tick = Min({k * Interval + Interval, Ticks})

(* The reseeds of r are the first ones of the schedule.                    *)
Prefix ==
  \A r \in Replica : ~faulty[r] =>
    /\ Len(branched[r]) <= Len(Schedule)
    /\ reseeded[r] = {Schedule[i] : i \in 1..Len(branched[r])}
    /\ \A i \in 1..Len(branched[r]) :
         branched[r][i] = [at |-> Schedule[i], time |-> Boundary(Schedule[i])]

(* They are exactly the ones scheduled up to t.                            *)
TakenUpTo(r, t) == \A i \in DOMAIN Schedule : Schedule[i] <= t <=> i <= Len(branched[r])

(* A replica that is through has no thread any more.                       *)
DoneRests == \A r \in Replica : done[r] => thread[r] = "ended"

(* A replica that reaches its targets is at the boundary before the goto   *)
(* and at the next one after it, and takes its reseeds there.              *)
Arrives(r) ==
  /\ thread[r] = "goto" =>
       \E k \in 0..Ticks :
         BeganAt(k) /\ time[r] = k * Interval /\ TakenUpTo(r, k * Interval)
  /\ thread[r] = "reseed" =>
       /\ time[r] = tick
       /\ \E k \in 0..Ticks :
            /\ BeganAt(k)
            /\ \A i \in DOMAIN Schedule :
                 /\ Schedule[i] <= k * Interval => i <= Len(branched[r])
                 /\ i <= Len(branched[r]) => Schedule[i] <= tick
  /\ thread[r] \in {"read", "ended"} => time[r] = tick /\ TakenUpTo(r, tick)

OnTarget == \A r \in Replica : ~faulty[r] /\ ~done[r] => Arrives(r)

(* What is recorded is what the runner holds of a replica that no thread   *)
(* changes any more; a run that goes through the record has all of them.   *)
Records ==
  /\ main \in {"up", "boot", "setup", "loop"} => results = <<>>
  /\ main \in {"up", "boot", "setup", "loop", "record"} => status = 0
  /\ \A i, j \in DOMAIN results : results[i].replica = results[j].replica => i = j
  /\ main \in {"record", "finally", "done"} /\ status = 0 =>
       Joined /\ \A i \in DOMAIN results : results[i].hits = hits[results[i].replica]
  /\ main \in {"finally", "done"} /\ status = 0 =>
       \A r \in Replica : \E i \in DOMAIN results : results[i].replica = r
  /\ marker # None => main = "exited"

IInv == TypeOK /\ HitsAreKept /\ Records /\ ReportIsComplete
        /\ OnGrid /\ DoneRests /\ Prefix /\ OnTarget

-----------------------------------------------------------------------------
LEMMA ConstantsAreTyped ==
  /\ IsFiniteSet(Replica) /\ Cardinality(Replica) \in Nat
  /\ Ticks \in Nat \ {0} /\ Interval \in Nat \ {0}
  /\ Schedule \in Seq(Nat \ {0}) /\ Len(Schedule) \in Nat /\ DOMAIN Schedule = 1..Len(Schedule)
  /\ \A i \in DOMAIN Schedule : Schedule[i] \in Nat \ {0} /\ Schedule[i] \in ToSet(Schedule)
  /\ \A i, j \in DOMAIN Schedule : i < j => Schedule[i] < Schedule[j]
<1>1. Schedule \in Seq(Nat \ {0})
  BY RunAssumption
<1>2. Len(Schedule) \in Nat /\ DOMAIN Schedule = 1..Len(Schedule)
      /\ \A i \in DOMAIN Schedule : Schedule[i] \in Nat \ {0}
  BY <1>1
<1> QED BY <1>1, <1>2, RunAssumption, FS_CardinalityType DEF ToSet

(* A set of numbers has one minimum.                                       *)
LEMMA MinIs ==
  ASSUME NEW S \in SUBSET Int, NEW m \in S, \A x \in S : m <= x
  PROVE  Min(S) = m
<1>1. Min(S) \in S /\ \A y \in S : Min(S) <= y
  <2>1. \E x \in S : \A y \in S : x <= y
    OBVIOUS
  <2> QED BY <2>1 DEF Min
<1>2. Min(S) <= m /\ m <= Min(S) /\ Min(S) \in Int /\ m \in Int
  BY <1>1
<1> QED BY <1>2

(* A set of naturals that is not empty has one.                            *)
LEMMA MinExists ==
  ASSUME NEW S \in SUBSET Nat, S # {}
  PROVE  Min(S) \in S /\ \A x \in S : Min(S) <= x
<1>1. PICK m \in S : \A y \in S : <<y, m>> \notin OpToRel(<, Nat)
  BY NatLessThanWellFounded, WFMin
<1>2. \A y \in S : ~(y < m)
  <2> SUFFICES ASSUME NEW y \in S, y < m
               PROVE  <<y, m>> \in OpToRel(<, Nat)
    BY <1>1
  <2>1. <<y, m>> \in Nat \X Nat /\ <<y, m>>[1] < <<y, m>>[2]
    OBVIOUS
  <2> QED BY <2>1 DEF OpToRel
<1>3. \A y \in S : m <= y
  BY <1>2
<1> QED BY <1>3, MinIs

LEMMA MaxOfTwo ==
  ASSUME NEW a \in Int, NEW b \in Int
  PROVE  Max({a, b}) = IF a <= b THEN b ELSE a
BY DEF Max

LEMMA MinOfTwo ==
  ASSUME NEW a \in Int, NEW b \in Int
  PROVE  Min({a, b}) = IF a <= b THEN a ELSE b
<1>1. CASE a <= b
  BY <1>1, MinIs
<1>2. CASE b < a
  BY <1>2, MinIs
<1> QED BY <1>1, <1>2

(* A multiple of a positive number beyond another one is a whole step      *)
(* beyond it, and no multiple is smaller than its factor.                  *)
LEMMA Multiples ==
  ASSUME NEW i \in Nat, NEW j \in Nat, NEW n \in Nat \ {0}
  PROVE  /\ i * n \in Nat /\ i <= i * n /\ (i + 1) * n = i * n + n
         /\ i < j => i * n + n <= j * n
<1>1. i * n \in Nat /\ (i + 1) * n = i * n + n
  OBVIOUS
<1>2. i <= i * n
  OBVIOUS
<1>3. ASSUME i < j
      PROVE  i * n + n <= j * n
  <2> DEFINE d == j - i - 1
  <2>1. d \in Nat /\ j = i + 1 + d
    BY <1>3
  <2> HIDE DEF d
  <2>2. j * n = i * n + n + d * n /\ d * n >= 0
    BY <2>1
  <2> QED BY <1>1, <2>1, <2>2
<1> QED BY <1>1, <1>2, <1>3

-----------------------------------------------------------------------------
(* What the main thread does beside starting segments.                     *)
Elsewhere ==
  \/ ComposeUp \/ SetUp \/ SetUpJoined \/ LoopEnds \/ Recorded \/ Teardown \/ write_done
  \/ Raise \/ Exited \/ UNCHANGED vars
  \/ \E r \in Replica : Boot(r) \/ SetUpEnds(r) \/ _record(r)

LEMMA ElsewhereLeavesSegments ==
  ASSUME Elsewhere
  PROVE  UNCHANGED <<tick, segment>>
BY DEF Elsewhere, ComposeUp, SetUp, SetUpJoined, LoopEnds, Recorded, Teardown, write_done,
       Raise, Exited, vars, Boot, SetUpEnds, _record

LEMMA StepsOfARun ==
  ASSUME [Next]_vars
  PROVE  \/ Elsewhere \/ StartSegment
         \/ \E r \in Replica : Thread(r) \/ Server(r)
BY DEF Next, Main, Elsewhere

(* A server's clock only moves forward.                                    *)
LEMMA TickingIsTyped ==
  ASSUME TypeOK, NEW r \in Replica, NEW t \in 0..(Ticks + 1), TicksTo(r, t)
  PROVE  /\ time' \in [Replica -> 0..(Ticks + 1)] /\ fired' \in [Replica -> SUBSET Detector]
         /\ time' = [time EXCEPT ![r] = t]
         /\ fired[r] \subseteq fired'[r] /\ \A q \in Replica \ {r} : fired'[q] = fired[q]
<1>1. PICK new \in SUBSET Detector : fired' = [fired EXCEPT ![r] = @ \cup new]
  BY DEF TicksTo
<1>2. time' = [time EXCEPT ![r] = t]
  BY DEF TicksTo
<1>3. time' \in [Replica -> 0..(Ticks + 1)]
  BY <1>2 DEF TypeOK
<1>4. fired' \in [Replica -> SUBSET Detector]
  BY <1>1 DEF TypeOK
<1>5. fired[r] \subseteq fired'[r] /\ \A q \in Replica \ {r} : fired'[q] = fired[q]
  BY <1>1 DEF TypeOK
<1> QED BY <1>2, <1>3, <1>4, <1>5

(* goto leaves the clock between 0 and one past the end of the run.        *)
LEMMA GotoTicks ==
  ASSUME TypeOK, NEW r \in Replica, goto(r)
  PROVE  \E t \in 0..(Ticks + 1) : TicksTo(r, t)
<1>1. Max({time[r], tick}) \in 0..(Ticks + 1)
  <2>1. time[r] \in 0..(Ticks + 1) /\ tick \in 0..Ticks
    BY DEF TypeOK
  <2>2. Max({time[r], tick}) = IF time[r] <= tick THEN tick ELSE time[r]
    BY <2>1, MaxOfTwo
  <2> QED BY <2>1, <2>2, ConstantsAreTyped
<1>2. (time[r]..(tick + 1)) \ {tick} \subseteq 0..(Ticks + 1)
  BY ConstantsAreTyped DEF TypeOK
<1> QED BY <1>1, <1>2 DEF goto

(* The number of due reseeds that reseed takes is one of them.             *)
LEMMA DueIsScheduled ==
  ASSUME NEW r \in Replica, Due(r) # {}
  PROVE  Min(Due(r)) \in Due(r) /\ Min(Due(r)) \in DOMAIN Schedule
<1>1. Due(r) \subseteq DOMAIN Schedule /\ DOMAIN Schedule \subseteq Nat
  BY ConstantsAreTyped DEF Due
<1> QED BY <1>1, MinExists

-----------------------------------------------------------------------------
Reseed == [at : ToSet(Schedule), time : 0..(Ticks + 1)]
Record == [replica : Replica, hits : SUBSET Detector, reseeds : SUBSET ToSet(Schedule)]

(* There are no more records than replicas, if each has one at most, and   *)
(* then as many records as replicas are all of them.                       *)
LEMMA RecordsAreReplicas ==
  ASSUME NEW s \in Seq(Record),
         \A i, j \in DOMAIN s : s[i].replica = s[j].replica => i = j
  PROVE  /\ Len(s) <= Cardinality(Replica)
         /\ Len(s) = Cardinality(Replica) =>
              \A r \in Replica : \E i \in DOMAIN s : s[i].replica = r
<1> DEFINE f == [i \in 1..Len(s) |-> s[i].replica]
<1>1. Len(s) \in Nat /\ DOMAIN s = 1..Len(s) /\ \A i \in DOMAIN s : s[i].replica \in Replica
  <2>1. Len(s) \in Nat /\ DOMAIN s = 1..Len(s)
    BY LenProperties
  <2>2. \A i \in 1..Len(s) : s[i] \in Record
    BY ElementOfSeq
  <2> QED BY <2>1, <2>2 DEF Record
<1>2. f \in [1..Len(s) -> Replica]
  BY <1>1
<1>3. \A i, j \in DOMAIN f : f[i] = f[j] => i = j
  BY <1>1
<1>4. \A i \in 1..Len(s) : f[i] = s[i].replica
  OBVIOUS
<1> HIDE DEF f
<1>5. f \in Injection(1..Len(s), Replica)
  BY <1>2, <1>3 DEF Injection, IsInjective
<1>6. Cardinality(1..Len(s)) = Len(s)
  BY <1>1, FS_Interval
<1>7. /\ Cardinality(1..Len(s)) <= Cardinality(Replica)
      /\ Cardinality(1..Len(s)) = Cardinality(Replica) => f \in Surjection(1..Len(s), Replica)
  BY <1>5, FS_Injection, ConstantsAreTyped
<1>8. f \in Surjection(1..Len(s), Replica) =>
        \A r \in Replica : \E i \in 1..Len(s) : f[i] = r
  BY DEF Surjection
<1> QED BY <1>1, <1>4, <1>6, <1>7, <1>8

LEMMA TypeAtStart ==
  ASSUME Init
  PROVE  TypeOK
<1> USE ConstantsAreTyped
<1>1. done \in [Replica -> BOOLEAN] /\ faulty \in [Replica -> BOOLEAN]
  BY Zenon DEF Init
<1>2. tick \in 0..Ticks /\ time \in [Replica -> 0..(Ticks + 1)]
  BY DEF Init
<1>3. results = <<>> /\ Len(results) = 0
  BY DEF Init
<1> QED BY <1>1, <1>2, <1>3 DEF Init, TypeOK

LEMMA TypeIsKept ==
  ASSUME TypeOK, Records, [Next]_vars
  PROVE  TypeOK'
<1> USE ConstantsAreTyped
<1>1. CASE Elsewhere
  <2>1. UNCHANGED <<tick, segment>>
    BY <1>1, ElsewhereLeavesSegments
  <2>2. main' \in {"up", "boot", "setup", "loop", "record", "finally", "done", "exited"}
    BY <1>1 DEF Elsewhere, ComposeUp, SetUp, SetUpJoined, LoopEnds, Recorded, Teardown,
                write_done, Raise, Exited, vars, Boot, SetUpEnds, _record, TypeOK
  <2>5. ready' \subseteq Replica /\ failed' \subseteq Replica /\ status' \in {0, 1}
    <3>1. CASE \E r \in Replica : Boot(r) \/ SetUpEnds(r)
      BY <3>1 DEF Boot, SetUpEnds, TypeOK
    <3>2. CASE SetUp \/ Raise
      BY <3>2 DEF SetUp, Raise, TypeOK
    <3>3. CASE \/ ComposeUp \/ SetUpJoined \/ LoopEnds \/ Recorded \/ Teardown \/ write_done
               \/ Exited \/ UNCHANGED vars \/ \E r \in Replica : _record(r)
      BY <3>3 DEF ComposeUp, SetUpJoined, LoopEnds, Recorded, Teardown, write_done, Exited,
                  vars, _record, TypeOK
    <3> QED BY <1>1, <3>1, <3>2, <3>3 DEF Elsewhere
  <2>3. marker' \in {None} \cup [status : {0, 1}, hits : [Replica -> SUBSET Detector]]
    <3>1. CASE write_done
      BY <3>1 DEF write_done, TypeOK
    <3>2. CASE ~write_done
      <4>1. UNCHANGED marker
        BY <1>1, <3>2 DEF Elsewhere, ComposeUp, SetUp, SetUpJoined, LoopEnds, Recorded, Teardown,
                          Raise, Exited, vars, Boot, SetUpEnds, _record
      <4> QED BY <4>1 DEF TypeOK
    <3> QED BY <3>1, <3>2
  <2>4. results' \in Seq(Record) /\ Len(results') <= Cardinality(Replica)
    <3>1. CASE \E r \in Replica : _record(r)
      <4>1. PICK r \in Replica : _record(r)
        BY <3>1
      <4> DEFINE new == [replica |-> r, hits |-> hits[r], reseeds |-> reseeded[r]]
      <4>2. new \in Record /\ results \in Seq(Record)
        BY DEF TypeOK, Record
      <4>3. results' = Append(results, new) /\ \A k \in DOMAIN results : results[k].replica # r
        BY <4>1 DEF _record
      <4>4. new.replica = r
        OBVIOUS
      <4> HIDE DEF new
      <4>5. results' \in Seq(Record)
        BY <4>2, <4>3
      <4>6. \A i, j \in DOMAIN results' : results'[i].replica = results'[j].replica => i = j
        BY <4>2, <4>3, <4>4 DEF Records
      <4> QED BY <4>5, <4>6, RecordsAreReplicas
    <3>2. CASE ~ \E r \in Replica : _record(r)
      <4>1. UNCHANGED results
        BY <1>1, <3>2 DEF Elsewhere, ComposeUp, SetUp, SetUpJoined, LoopEnds, Recorded, Teardown,
                    write_done, Raise, Exited, vars, Boot, SetUpEnds
      <4> QED BY <4>1 DEF TypeOK, Record
    <3> QED BY <3>1, <3>2
  <2> QED BY <2>1, <2>2, <2>3, <2>4, <2>5 DEF TypeOK, segment, Record
<1>2. CASE StartSegment
  <2>1. tick' \in 0..Ticks
    <3>1. tick + Interval \in Nat /\ tick' = Min({tick + Interval, Ticks})
      BY <1>2 DEF StartSegment, TypeOK
    <3>2. tick' = IF tick + Interval <= Ticks THEN tick + Interval ELSE Ticks
      BY <3>1, MinOfTwo
    <3> QED BY <3>1, <3>2
  <2>2. thread' \in [Replica -> {"goto", "reseed", "read", "ended"}]
    BY <1>2 DEF StartSegment
  <2> QED BY <1>2, <2>1, <2>2 DEF StartSegment, TypeOK
<1>3. ASSUME NEW r \in Replica, goto(r)
      PROVE  TypeOK'
  <2>1. \E t \in 0..(Ticks + 1) : TicksTo(r, t)
    BY <1>3, GotoTicks
  <2>2. time' \in [Replica -> 0..(Ticks + 1)] /\ fired' \in [Replica -> SUBSET Detector]
    BY <2>1, TickingIsTyped
  <2>3. faulty' \in [Replica -> BOOLEAN]
    <3>1. \E b \in BOOLEAN : faulty' = [faulty EXCEPT ![r] = b]
      BY <1>3 DEF goto, TypeOK
    <3> QED BY <3>1 DEF TypeOK
  <2> QED BY <1>3, <2>2, <2>3 DEF goto, Enter, TypeOK
<1>4. ASSUME NEW r \in Replica, reseed(r)
      PROVE  TypeOK'
  <2>1. CASE Due(r) = {}
    BY <1>4, <2>1 DEF reseed, Enter, TypeOK
  <2>2. CASE Due(r) # {}
    <3> DEFINE at  == Schedule[Min(Due(r))]
               new == [at |-> at, time |-> time[r]]
    <3>1. /\ branched' = [branched EXCEPT ![r] = Append(@, new)]
          /\ reseeded' = [reseeded EXCEPT ![r] = @ \cup {at}] /\ UNCHANGED thread
      BY <1>4, <2>2 DEF reseed
    <3>2. at \in ToSet(Schedule)
      BY <2>2, DueIsScheduled
    <3> HIDE DEF at
    <3>3. new \in Reseed
      BY <3>2 DEF Reseed, TypeOK
    <3> HIDE DEF new
    <3>4. branched' \in [Replica -> Seq(Reseed)]
      <4>1. \A q \in Replica : branched[q] \in Seq(Reseed)
        BY DEF TypeOK, Reseed
      <4>2. Append(branched[r], new) \in Seq(Reseed)
        BY <3>3, <4>1, AppendProperties
      <4> QED BY <3>1, <4>1, <4>2 DEF TypeOK
    <3>5. reseeded' \in [Replica -> SUBSET ToSet(Schedule)]
      BY <3>1, <3>2 DEF TypeOK
    <3> QED BY <1>4, <3>1, <3>4, <3>5 DEF reseed, TypeOK, Reseed
  <2> QED BY <2>1, <2>2
<1>5. ASSUME NEW r \in Replica, read_detector(r)
      PROVE  TypeOK'
  <2>1. done' \in [Replica -> BOOLEAN]
    BY <1>5, Zenon DEF read_detector, TypeOK
  <2>2. hits' \in [Replica -> SUBSET Detector]
    BY <1>5 DEF read_detector, TypeOK
  <2> QED BY <1>5, <2>1, <2>2 DEF read_detector, Enter, TypeOK
<1>6. ASSUME NEW r \in Replica, ThreadDies(r)
      PROVE  TypeOK'
  BY <1>6 DEF ThreadDies, Enter, TypeOK
<1>7. ASSUME NEW r \in Replica, TicksOn(r)
      PROVE  TypeOK'
  <2>1. time' \in [Replica -> 0..(Ticks + 1)] /\ fired' \in [Replica -> SUBSET Detector]
    <3>1. time[r] + 1 \in 0..(Ticks + 1) /\ TicksTo(r, time[r] + 1)
      BY <1>7 DEF TicksOn, TypeOK
    <3> QED BY <3>1, TickingIsTyped
  <2> QED BY <1>7, <2>1 DEF TicksOn, TypeOK
<1> QED BY <1>1, <1>2, <1>3, <1>4, <1>5, <1>6, <1>7, StepsOfARun DEF Thread, Server

-----------------------------------------------------------------------------
LEMMA HitsAreKeptStill ==
  ASSUME TypeOK, HitsAreKept, [Next]_vars
  PROVE  HitsAreKept'
<1>1. CASE Elsewhere
  BY <1>1, ElsewhereLeavesSegments DEF segment, HitsAreKept
<1>2. CASE StartSegment
  BY <1>2 DEF StartSegment, Joined, HitsAreKept
<1>3. ASSUME NEW r \in Replica, goto(r)
      PROVE  HitsAreKept'
  <2>1. \E t \in 0..(Ticks + 1) : TicksTo(r, t)
    BY <1>3, GotoTicks
  <2>2. fired[r] \subseteq fired'[r] /\ \A q \in Replica \ {r} : fired'[q] = fired[q]
    BY <2>1, TickingIsTyped
  <2> QED BY <1>3, <2>2 DEF goto, Enter, HitsAreKept, TypeOK
<1>4. ASSUME NEW r \in Replica, reseed(r)
      PROVE  HitsAreKept'
  BY <1>4 DEF reseed, Enter, HitsAreKept, TypeOK
<1>5. ASSUME NEW r \in Replica, read_detector(r)
      PROVE  HitsAreKept'
  BY <1>5 DEF read_detector, Enter, HitsAreKept, TypeOK
<1>6. ASSUME NEW r \in Replica, ThreadDies(r)
      PROVE  HitsAreKept'
  BY <1>6 DEF ThreadDies, Enter, HitsAreKept, TypeOK
<1>7. ASSUME NEW r \in Replica, TicksOn(r)
      PROVE  HitsAreKept'
  <2>1. time[r] + 1 \in 0..(Ticks + 1) /\ TicksTo(r, time[r] + 1)
    BY <1>7, ConstantsAreTyped DEF TicksOn, TypeOK
  <2>2. fired[r] \subseteq fired'[r] /\ \A q \in Replica \ {r} : fired'[q] = fired[q]
    BY <2>1, TickingIsTyped
  <2> QED BY <1>7, <2>2 DEF TicksOn, HitsAreKept
<1> QED BY <1>1, <1>2, <1>3, <1>4, <1>5, <1>6, <1>7, StepsOfARun DEF Thread, Server

LEMMA OnGridStill ==
  ASSUME TypeOK, OnGrid, [Next]_vars
  PROVE  OnGrid'
<1>1. CASE StartSegment
  <2>1. tick + Interval \in Nat /\ Ticks \in Nat /\ tick < Ticks
        /\ tick' = Min({tick + Interval, Ticks})
    BY <1>1, ConstantsAreTyped DEF StartSegment, MoreSegments, TypeOK
  <2>2. PICK k \in 0..Ticks : tick = k * Interval
    BY <2>1 DEF OnGrid
  <2>3. tick' = IF tick + Interval <= Ticks THEN tick + Interval ELSE Ticks
    BY <2>1, MinOfTwo
  <2>4. CASE tick + Interval <= Ticks
    <3>1. tick + Interval = (k + 1) * Interval
      BY <2>2, ConstantsAreTyped
    <3>2. k + 1 \in 0..Ticks
      BY <2>2, <2>4, Multiples, ConstantsAreTyped
    <3> QED BY <2>3, <2>4, <3>1, <3>2 DEF OnGrid
  <2> QED BY <2>1, <2>3, <2>4 DEF OnGrid
<1>2. CASE ~StartSegment
  <2>1. UNCHANGED tick
    BY <1>2, StepsOfARun, ElsewhereLeavesSegments
    DEF Thread, Server, goto, reseed, read_detector, ThreadDies, TicksOn
  <2> QED BY <2>1 DEF OnGrid
<1> QED BY <1>1, <1>2

-----------------------------------------------------------------------------
(* A new record is of another replica than the old ones.                   *)
LEMMA AnotherRecord ==
  ASSUME TypeOK, Records, NEW r \in Replica, _record(r)
  PROVE  /\ \A i, j \in DOMAIN results' : results'[i].replica = results'[j].replica => i = j
         /\ (\A i \in DOMAIN results : results[i].hits = hits[results[i].replica]) =>
              \A i \in DOMAIN results' : results'[i].hits = hits[results'[i].replica]
<1> DEFINE new == [replica |-> r, hits |-> hits[r], reseeds |-> reseeded[r]]
<1>1. new \in Record /\ results \in Seq(Record)
  BY DEF TypeOK, Record
<1>2. results' = Append(results, new) /\ \A k \in DOMAIN results : results[k].replica # r
  BY DEF _record
<1>3. new.replica = r /\ new.hits = hits[r]
  OBVIOUS
<1> HIDE DEF new
<1>4. \A i, j \in DOMAIN results' : results'[i].replica = results'[j].replica => i = j
  BY <1>1, <1>2, <1>3 DEF Records
<1>5. DOMAIN results = 1..Len(results) /\ DOMAIN results' = 1..(Len(results) + 1)
      /\ Len(results) \in Nat
  BY <1>1, <1>2
<1>6. results'[Len(results) + 1] = new /\ \A i \in DOMAIN results : results'[i] = results[i]
  BY <1>1, <1>2, <1>5
<1> QED BY <1>3, <1>4, <1>5, <1>6

LEMMA RecordsStill ==
  ASSUME TypeOK, Records, [Next]_vars
  PROVE  Records'
<1>1. CASE ComposeUp \/ SetUp \/ SetUpJoined \/ \E r \in Replica : Boot(r) \/ SetUpEnds(r)
  <2>1. main \in {"up", "boot", "setup"} /\ main' \in {"boot", "setup", "loop", "exited"}
        /\ UNCHANGED <<results, status, marker>>
    BY <1>1 DEF ComposeUp, SetUp, SetUpJoined, Boot, SetUpEnds
  <2> QED BY <2>1 DEF Records
<1>2. CASE LoopEnds
  BY <1>2 DEF LoopEnds, Records, segment, Joined
<1>3. ASSUME NEW r \in Replica, _record(r)
      PROVE  Records'
  BY <1>3, AnotherRecord DEF _record, Records, segment, Joined
<1>4. CASE Recorded
  <2>1. \A r \in Replica : \E i \in DOMAIN results : results[i].replica = r
    BY <1>4, RecordsAreReplicas DEF Recorded, Records, TypeOK, Record
  <2> QED BY <1>4, <2>1 DEF Recorded, Records, segment, Joined
<1>5. CASE Raise
  BY <1>5 DEF Raise, Records
<1>6. CASE Teardown
  BY <1>6 DEF Teardown, Records, segment, Joined
<1>7. CASE write_done
  BY <1>7 DEF write_done, Records
<1>8. CASE Exited \/ UNCHANGED vars
  BY <1>8 DEF Exited, vars, segment, Records, Joined
<1>9. CASE StartSegment
  BY <1>9 DEF StartSegment, Records
<1>10. ASSUME NEW r \in Replica, Thread(r) \/ Server(r)
       PROVE  Records'
  <2>1. UNCHANGED <<main, results, status, marker>>
    BY <1>10 DEF Thread, Server, goto, reseed, read_detector, ThreadDies, TicksOn
  <2>2. CASE thread[r] = "ended"
    <3>1. UNCHANGED <<thread, hits>>
      BY <1>10, <2>2 DEF Thread, Server, goto, reseed, read_detector, ThreadDies, TicksOn
    <3> QED BY <2>1, <3>1 DEF Records, Joined
  <2>3. CASE thread[r] # "ended"
    <3>1. ~(main \in {"record", "finally", "done"} /\ status = 0)
      BY <2>3 DEF Records, Joined
    <3> QED BY <2>1, <3>1 DEF Records
  <2> QED BY <2>2, <2>3
<1> QED BY <1>1, <1>2, <1>3, <1>4, <1>5, <1>6, <1>7, <1>8, <1>9, <1>10, StepsOfARun DEF Elsewhere

LEMMA ReportIsCompleteStill ==
  ASSUME TypeOK, HitsAreKept, Records, ReportIsComplete, [Next]_vars
  PROVE  ReportIsComplete'
<1>1. CASE write_done
  <2> SUFFICES ASSUME marker' # None, marker'.status = 0, NEW r \in Replica
               PROVE  /\ \E k \in DOMAIN results' :
                           results'[k].replica = r /\ results'[k].hits = marker'.hits[r]
                      /\ ~faulty'[r] => marker'.hits[r] = fired'[r]
    BY DEF ReportIsComplete
  <2>1. /\ main = "done" /\ marker' = [status |-> status, hits |-> hits]
        /\ UNCHANGED <<results, faulty, fired>>
    BY <1>1 DEF write_done, segment
  <2>2. status = 0 /\ marker'.hits[r] = hits[r]
    BY <2>1
  <2>3. PICK k \in DOMAIN results : results[k].replica = r
    BY <2>1, <2>2 DEF Records
  <2>4. results[k].hits = hits[r] /\ thread[r] = "ended"
    BY <2>1, <2>2, <2>3 DEF Records, Joined
  <2>5. ~faulty[r] => hits[r] = fired[r]
    BY <2>4 DEF HitsAreKept
  <2> QED BY <2>1, <2>2, <2>3, <2>4, <2>5
<1>2. CASE ~write_done /\ main = "exited"
  <2>1. UNCHANGED <<results, marker, faulty, fired>>
    BY <1>2, StepsOfARun
    DEF Elsewhere, ComposeUp, SetUp, SetUpJoined, LoopEnds, Recorded, Teardown, Raise, Exited,
        vars, segment, Boot, SetUpEnds, _record, StartSegment, Thread, Server
  <2> QED BY <2>1 DEF ReportIsComplete
<1>3. CASE ~write_done /\ main # "exited"
  <2>1. marker = None
    BY <1>3 DEF Records
  <2>2. UNCHANGED marker
    BY <1>3, StepsOfARun
    DEF Elsewhere, ComposeUp, SetUp, SetUpJoined, LoopEnds, Recorded, Teardown, Raise, Exited,
        vars, Boot, SetUpEnds, _record, StartSegment, Thread, Server,
        goto, reseed, read_detector, ThreadDies, TicksOn
  <2> QED BY <2>1, <2>2 DEF ReportIsComplete
<1> QED BY <1>1, <1>2, <1>3

-----------------------------------------------------------------------------
(* What is due after the boundary a segment began at lands at the one it   *)
(* goes to.                                                                *)
LEMMA LandsAtTick ==
  ASSUME TypeOK, OnGrid, NEW k \in 0..Ticks, BeganAt(k),
         NEW at \in Nat, k * Interval < at, at <= tick
  PROVE  Boundary(at) = tick
<1> DEFINE Grid == {j * Interval : j \in 0..Ticks} \cup {Ticks}
           Later == {t \in Grid : t >= at}
<1>1. /\ Ticks \in Nat /\ Interval \in Nat \ {0} /\ tick \in Nat /\ tick <= Ticks
      /\ \A j \in 0..Ticks : j \in Nat /\ j * Interval \in Nat
  BY ConstantsAreTyped DEF TypeOK
<1>2. tick <= k * Interval + Interval
  <2>1. k * Interval + Interval \in Nat
    BY <1>1
  <2> QED BY <1>1, <2>1, MinOfTwo DEF BeganAt
<1>3. \A t \in Later : tick <= t
  <2> SUFFICES ASSUME NEW j \in 0..Ticks, j * Interval >= at
               PROVE  tick <= j * Interval
    BY <1>1
  <2>1. k < j
    <3>1. ASSUME j < k
          PROVE  FALSE
      <4>1. j * Interval + Interval <= k * Interval
        BY <1>1, <3>1, Multiples
      <4> QED BY <1>1, <4>1
    <3>2. j # k
      BY <1>1
    <3> QED BY <3>1, <3>2
  <2>2. k * Interval + Interval <= j * Interval
    BY <1>1, <2>1, Multiples
  <2> QED BY <1>1, <1>2, <2>2
<1>4. tick \in Later /\ Later \subseteq Int
  <2>1. tick \in Grid
    BY DEF OnGrid
  <2>2. Grid \subseteq Int
    BY <1>1
  <2> HIDE DEF Grid
  <2> QED BY <1>1, <2>1, <2>2
<1>5. Boundary(at) = Min(Later)
  BY DEF Boundary
<1> HIDE DEF Later
<1> QED BY <1>3, <1>4, <1>5, MinIs

(* What is due to a replica on target is the rest of the schedule up to    *)
(* now, so the next reseed is the next one of the schedule.                *)
LEMMA NextOfSchedule ==
  ASSUME TypeOK, OnGrid, Prefix, DoneRests, OnTarget,
         NEW r \in Replica, thread[r] = "reseed", ~faulty[r]
  PROVE  /\ time[r] = tick /\ Len(branched[r]) \in Nat
         /\ Due(r) = {} => TakenUpTo(r, tick)
         /\ Due(r) # {} =>
              /\ Min(Due(r)) = Len(branched[r]) + 1
              /\ Len(branched[r]) + 1 \in DOMAIN Schedule
              /\ Schedule[Len(branched[r]) + 1] <= tick
              /\ Boundary(Schedule[Len(branched[r]) + 1]) = tick
<1> DEFINE n == Len(branched[r])
<1>1. n \in Nat /\ n <= Len(Schedule) /\ tick \in Nat
  <2>1. branched[r] \in Seq(Reseed)
    BY DEF TypeOK, Reseed
  <2>2. n \in Nat
    BY <2>1, LenProperties
  <2> QED BY <2>2, ConstantsAreTyped DEF Prefix, TypeOK
<1>2. reseeded[r] = {Schedule[i] : i \in 1..n}
  BY DEF Prefix
<1>3. time[r] = tick
  BY DEF OnTarget, Arrives, DoneRests
<1>4. PICK k \in 0..Ticks :
        /\ BeganAt(k)
        /\ \A i \in DOMAIN Schedule :
             /\ Schedule[i] <= k * Interval => i <= n
             /\ i <= n => Schedule[i] <= tick
  BY DEF OnTarget, Arrives, DoneRests
<1> HIDE DEF n
<1>5. Due(r) = {i \in DOMAIN Schedule : n < i /\ Schedule[i] <= tick}
  <2>1. ASSUME NEW i \in DOMAIN Schedule
        PROVE  Schedule[i] \notin reseeded[r] <=> n < i
    <3>1. CASE i <= n
      BY <1>1, <1>2, <3>1, ConstantsAreTyped
    <3>2. CASE n < i
      <4>1. \A j \in 1..n : j \in DOMAIN Schedule /\ j < i
        BY <1>1, <3>2, ConstantsAreTyped
      <4>2. \A j \in 1..n : Schedule[j] < Schedule[i]
        BY <4>1, ConstantsAreTyped
      <4>3. \A j \in 1..n : Schedule[j] # Schedule[i]
        BY <4>1, <4>2, ConstantsAreTyped
      <4> QED BY <1>1, <1>2, <3>2, <4>3
    <3> QED BY <1>1, <3>1, <3>2, ConstantsAreTyped
  <2> QED BY <2>1 DEF Due
<1>6. Due(r) = {} => TakenUpTo(r, tick)
  BY <1>1, <1>4, <1>5, ConstantsAreTyped DEF TakenUpTo, n
<1>7. ASSUME Due(r) # {}
      PROVE  /\ Min(Due(r)) = n + 1 /\ n + 1 \in DOMAIN Schedule
             /\ Schedule[n + 1] <= tick /\ Boundary(Schedule[n + 1]) = tick
  <2>1. PICK i \in DOMAIN Schedule : n < i /\ Schedule[i] <= tick
    BY <1>5, <1>7
  <2>2. n + 1 \in DOMAIN Schedule /\ n + 1 <= i /\ i \in Nat
    BY <1>1, <2>1, ConstantsAreTyped
  <2>3. Schedule[n + 1] <= tick /\ Schedule[n + 1] \in Nat
    <3>1. CASE n + 1 = i
      BY <2>1, <3>1, ConstantsAreTyped
    <3>2. CASE n + 1 < i
      <4>1. Schedule[n + 1] < Schedule[i] /\ Schedule[n + 1] \in Nat /\ Schedule[i] \in Nat
        BY <2>1, <2>2, <3>2, ConstantsAreTyped
      <4> QED BY <1>1, <2>1, <4>1
    <3> QED BY <1>1, <2>2, <3>1, <3>2
  <2>4. Min(Due(r)) = n + 1
    <3>1. Due(r) \subseteq Int /\ n + 1 \in Due(r) /\ \A x \in Due(r) : n + 1 <= x
      BY <1>1, <1>5, <2>2, <2>3, ConstantsAreTyped
    <3> QED BY <3>1, MinIs
  <2>5. k * Interval < Schedule[n + 1]
    <3>1. k * Interval \in Nat
      BY ConstantsAreTyped
    <3>2. ~(Schedule[n + 1] <= k * Interval)
      BY <1>1, <1>4, <2>2
    <3> QED BY <2>3, <3>1, <3>2
  <2>6. Boundary(Schedule[n + 1]) = tick
    BY <1>4, <2>3, <2>5, LandsAtTick
  <2> QED BY <2>2, <2>3, <2>4, <2>6
<1> QED BY <1>1, <1>3, <1>6, <1>7 DEF n

-----------------------------------------------------------------------------
LEMMA DoneRestsStill ==
  ASSUME TypeOK, DoneRests, [Next]_vars
  PROVE  DoneRests'
<1>1. CASE Elsewhere
  BY <1>1, ElsewhereLeavesSegments DEF segment, DoneRests
<1>2. CASE StartSegment
  BY <1>2 DEF StartSegment, DoneRests
<1>3. ASSUME NEW r \in Replica, Thread(r) \/ Server(r)
      PROVE  DoneRests'
  BY <1>3 DEF Thread, Server, goto, reseed, read_detector, ThreadDies, TicksOn, Enter,
              DoneRests, TypeOK
<1> QED BY <1>1, <1>2, <1>3, StepsOfARun

(* What went wrong stays so, and only reseed branches a server.            *)
LEMMA FaultyStays ==
  ASSUME TypeOK, [Next]_vars, NEW r \in Replica, ~faulty'[r]
  PROVE  /\ ~faulty[r]
         /\ ~reseed(r) => branched'[r] = branched[r] /\ reseeded'[r] = reseeded[r]
<1>1. CASE Elsewhere
  BY <1>1, ElsewhereLeavesSegments DEF segment
<1>2. CASE StartSegment
  BY <1>2 DEF StartSegment
<1>3. ASSUME NEW q \in Replica, Thread(q) \/ Server(q)
      PROVE  /\ ~faulty[r]
             /\ ~reseed(r) => branched'[r] = branched[r] /\ reseeded'[r] = reseeded[r]
  <2>1. CASE goto(q)
    BY <2>1 DEF goto, TypeOK
  <2>2. CASE reseed(q)
    BY <2>2 DEF reseed, TypeOK
  <2>3. CASE read_detector(q) \/ ThreadDies(q) \/ TicksOn(q)
    BY <2>3 DEF read_detector, ThreadDies, TicksOn, TypeOK
  <2> QED BY <1>3, <2>1, <2>2, <2>3 DEF Thread, Server
<1> QED BY <1>1, <1>2, <1>3, StepsOfARun

(* Taking a due reseed takes the next one of the schedule, at its boundary.*)
LEMMA TakesTheNext ==
  ASSUME TypeOK, OnGrid, Prefix, DoneRests, OnTarget,
         NEW r \in Replica, ~faulty[r], reseed(r), Due(r) # {}
  PROVE  LET n == Len(branched[r]) + 1
         IN  /\ n \in DOMAIN Schedule /\ Schedule[n] <= tick
             /\ Len(branched'[r]) = n
             /\ \A i \in 1..(n - 1) : branched'[r][i] = branched[r][i]
             /\ branched'[r][n] = [at |-> Schedule[n], time |-> Boundary(Schedule[n])]
             /\ reseeded'[r] = reseeded[r] \cup {Schedule[n]}
             /\ UNCHANGED <<tick, thread, time, done>>
<1> DEFINE n   == Len(branched[r]) + 1
           new == [at |-> Schedule[n], time |-> tick]
<1>1. /\ Len(branched[r]) \in Nat /\ n \in DOMAIN Schedule /\ Schedule[n] <= tick
      /\ Boundary(Schedule[n]) = tick /\ Min(Due(r)) = n /\ time[r] = tick
  BY NextOfSchedule DEF reseed
<1>2. /\ branched' = [branched EXCEPT ![r] = Append(@, new)]
      /\ reseeded' = [reseeded EXCEPT ![r] = @ \cup {Schedule[n]}]
      /\ UNCHANGED <<tick, thread, time, done>>
  BY <1>1 DEF reseed
<1>3. branched[r] \in Seq(Reseed)
  BY DEF TypeOK, Reseed
<1>4. new \in Reseed
  BY <1>1, ConstantsAreTyped DEF Reseed, TypeOK
<1>5. new = [at |-> Schedule[n], time |-> Boundary(Schedule[n])]
  BY <1>1
<1> HIDE DEF new
<1>6. branched'[r] = Append(branched[r], new) /\ reseeded'[r] = reseeded[r] \cup {Schedule[n]}
  BY <1>2 DEF TypeOK
<1>7. /\ Len(branched'[r]) = n /\ branched'[r][n] = new
      /\ \A i \in 1..(n - 1) : branched'[r][i] = branched[r][i]
  BY <1>1, <1>3, <1>4, <1>6, AppendProperties
<1> QED BY <1>1, <1>2, <1>5, <1>6, <1>7

LEMMA PrefixStill ==
  ASSUME TypeOK, OnGrid, Prefix, DoneRests, OnTarget, [Next]_vars
  PROVE  Prefix'
<1> SUFFICES ASSUME NEW r \in Replica, ~faulty'[r]
             PROVE  /\ Len(branched'[r]) <= Len(Schedule)
                    /\ reseeded'[r] = {Schedule[i] : i \in 1..Len(branched'[r])}
                    /\ \A i \in 1..Len(branched'[r]) :
                         branched'[r][i] = [at |-> Schedule[i], time |-> Boundary(Schedule[i])]
  BY DEF Prefix, Boundary
<1>1. ~faulty[r]
  BY FaultyStays
<1>2. /\ Len(branched[r]) <= Len(Schedule)
      /\ reseeded[r] = {Schedule[i] : i \in 1..Len(branched[r])}
      /\ \A i \in 1..Len(branched[r]) :
           branched[r][i] = [at |-> Schedule[i], time |-> Boundary(Schedule[i])]
  BY <1>1 DEF Prefix
<1>3. CASE ~reseed(r)
  BY <1>2, <1>3, FaultyStays
<1>4. CASE reseed(r) /\ Due(r) = {}
  BY <1>2, <1>4 DEF reseed
<1>5. CASE reseed(r) /\ Due(r) # {}
  <2> DEFINE m == Len(branched[r])
             n == m + 1
  <2>1. /\ n \in DOMAIN Schedule /\ Len(branched'[r]) = n
        /\ \A i \in 1..(n - 1) : branched'[r][i] = branched[r][i]
        /\ branched'[r][n] = [at |-> Schedule[n], time |-> Boundary(Schedule[n])]
        /\ reseeded'[r] = reseeded[r] \cup {Schedule[n]}
    BY <1>1, <1>5, TakesTheNext
  <2>2. m \in Nat
    BY <1>1, <1>5, NextOfSchedule DEF reseed
  <2>3. n <= Len(Schedule) /\ 1..n = (1..m) \cup {n}
    BY <2>1, <2>2, ConstantsAreTyped
  <2> HIDE DEF m
  <2>4. \A i \in 1..n : i \in 1..m \/ i = n
    BY <2>3
  <2>5. \A i \in 1..n :
          branched'[r][i] = [at |-> Schedule[i], time |-> Boundary(Schedule[i])]
    BY <1>2, <2>1, <2>2, <2>4 DEF m
  <2>6. reseeded'[r] = {Schedule[i] : i \in 1..n}
    BY <1>2, <2>1, <2>3 DEF m
  <2> QED BY <2>1, <2>3, <2>5, <2>6
<1> QED BY <1>3, <1>4, <1>5

-----------------------------------------------------------------------------
LEMMA UntouchedArrives ==
  ASSUME NEW r \in Replica, Arrives(r), tick' = tick, thread'[r] = thread[r],
         time'[r] = time[r], branched'[r] = branched[r]
  PROVE  Arrives(r)'
BY DEF Arrives, BeganAt, TakenUpTo

LEMMA OnTargetStill ==
  ASSUME TypeOK, OnGrid, Prefix, DoneRests, OnTarget, [Next]_vars
  PROVE  OnTarget'
<1> SUFFICES ASSUME NEW r \in Replica, ~faulty'[r], ~done'[r]
             PROVE  Arrives(r)'
  BY DEF OnTarget
<1>1. ~faulty[r]
  BY FaultyStays
<1>2. ~done[r] => Arrives(r)
  BY <1>1 DEF OnTarget
<1>3. CASE Elsewhere
  BY <1>2, <1>3, ElsewhereLeavesSegments, UntouchedArrives DEF segment
<1>4. CASE StartSegment
  <2>1. /\ thread[r] = "ended" /\ thread'[r] = "goto" /\ tick < Ticks
        /\ tick' = Min({tick + Interval, Ticks})
        /\ UNCHANGED <<time, branched, done>>
    BY <1>4 DEF StartSegment, Joined, MoreSegments
  <2>2. time[r] = tick /\ TakenUpTo(r, tick)
    BY <1>2, <2>1 DEF Arrives
  <2>3. PICK k \in 0..Ticks : tick = k * Interval
    BY <2>1, ConstantsAreTyped DEF OnGrid, TypeOK
  <2>4. BeganAt(k)'
    BY <2>1, <2>3 DEF BeganAt
  <2>5. TakenUpTo(r, k * Interval)'
    BY <2>1, <2>2, <2>3 DEF TakenUpTo
  <2> QED BY <2>1, <2>2, <2>3, <2>4, <2>5 DEF Arrives
<1>5. ASSUME NEW q \in Replica, Thread(q) \/ Server(q), q # r
      PROVE  Arrives(r)'
  BY <1>2, <1>5, UntouchedArrives
  DEF Thread, Server, goto, reseed, read_detector, ThreadDies, TicksOn, TicksTo, Enter, TypeOK
<1>6. CASE goto(r)
  <2>1. /\ thread[r] = "goto" /\ thread'[r] = "reseed" /\ ~(time[r] > tick)
        /\ TicksTo(r, Max({time[r], tick}))
        /\ UNCHANGED <<tick, branched, done>>
    BY <1>6 DEF goto, Enter, TypeOK
  <2>2. time'[r] = tick
    <3>1. time[r] \in Nat /\ tick \in Nat
      BY ConstantsAreTyped DEF TypeOK
    <3>2. Max({time[r], tick}) = tick
      BY <2>1, <3>1, MaxOfTwo
    <3> QED BY <2>1, <3>2 DEF TicksTo, TypeOK
  <2>3. PICK k \in 0..Ticks : BeganAt(k) /\ time[r] = k * Interval /\ TakenUpTo(r, k * Interval)
    BY <1>2, <2>1 DEF Arrives
  <2>4. k * Interval \in Nat /\ k * Interval <= tick
    BY <2>1, <2>3, ConstantsAreTyped DEF TypeOK
  <2>5. \A i \in DOMAIN Schedule :
          /\ Schedule[i] <= k * Interval => i <= Len(branched[r])
          /\ i <= Len(branched[r]) => Schedule[i] <= tick
    <3> SUFFICES ASSUME NEW i \in DOMAIN Schedule
                 PROVE  /\ Schedule[i] <= k * Interval => i <= Len(branched[r])
                        /\ i <= Len(branched[r]) => Schedule[i] <= tick
      OBVIOUS
    <3>1. Schedule[i] \in Nat /\ tick \in Nat
      BY ConstantsAreTyped DEF TypeOK
    <3>2. Schedule[i] <= k * Interval <=> i <= Len(branched[r])
      BY <2>3 DEF TakenUpTo
    <3> QED BY <2>4, <3>1, <3>2
  <2>6. BeganAt(k)'
    BY <2>1, <2>3 DEF BeganAt
  <2> QED BY <2>1, <2>2, <2>5, <2>6 DEF Arrives
<1>7. CASE reseed(r) /\ Due(r) = {}
  <2>1. /\ thread'[r] = "read" /\ UNCHANGED <<tick, time, branched, done>>
        /\ time[r] = tick /\ TakenUpTo(r, tick)
    BY <1>1, <1>7, NextOfSchedule DEF reseed, Enter, TypeOK
  <2> QED BY <2>1 DEF Arrives, TakenUpTo
<1>8. CASE reseed(r) /\ Due(r) # {}
  <2> DEFINE n == Len(branched[r]) + 1
  <2>1. /\ n \in DOMAIN Schedule /\ Schedule[n] <= tick /\ Len(branched'[r]) = n
        /\ UNCHANGED <<tick, thread, time, done>>
    BY <1>1, <1>8, TakesTheNext
  <2>2. thread[r] = "reseed" /\ Len(branched[r]) \in Nat /\ time[r] = tick
    BY <1>1, <1>8, NextOfSchedule DEF reseed
  <2>3. PICK k \in 0..Ticks :
          /\ BeganAt(k)
          /\ \A i \in DOMAIN Schedule :
               /\ Schedule[i] <= k * Interval => i <= Len(branched[r])
               /\ i <= Len(branched[r]) => Schedule[i] <= tick
    BY <1>2, <2>1, <2>2 DEF Arrives
  <2>4. \A i \in DOMAIN Schedule :
          /\ Schedule[i] <= k * Interval => i <= n
          /\ i <= n => Schedule[i] <= tick
    <3> SUFFICES ASSUME NEW i \in DOMAIN Schedule
                 PROVE  /\ Schedule[i] <= k * Interval => i <= n
                        /\ i <= n => Schedule[i] <= tick
      OBVIOUS
    <3>1. i \in Nat
      BY ConstantsAreTyped
    <3>2. CASE i = n
      BY <2>1, <3>2, <3>1
    <3>3. CASE i # n
      BY <2>2, <2>3, <3>1, <3>3
    <3> QED BY <3>2, <3>3
  <2>5. BeganAt(k)'
    BY <2>1, <2>3 DEF BeganAt
  <2> HIDE DEF n
  <2> QED BY <2>1, <2>2, <2>4, <2>5 DEF Arrives
<1>9. CASE read_detector(r)
  <2>1. /\ thread[r] = "read" /\ thread'[r] = "ended" /\ UNCHANGED <<tick, time, branched>>
        /\ ~done[r]
    BY <1>9 DEF read_detector, Enter, DoneRests, TypeOK
  <2> QED BY <1>2, <2>1 DEF Arrives, TakenUpTo
<1>10. CASE ThreadDies(r) \/ TicksOn(r)
  BY <1>1, <1>10 DEF ThreadDies, TicksOn, TypeOK
<1> QED
  BY <1>3, <1>4, <1>5, <1>6, <1>7, <1>8, <1>9, <1>10, StepsOfARun DEF Thread, Server

-----------------------------------------------------------------------------
LEMMA InvariantAtStart ==
  ASSUME Init
  PROVE  IInv
<1>1. TypeOK
  BY TypeAtStart
<1>2. HitsAreKept /\ Records /\ DoneRests
  BY DEF Init, HitsAreKept, Records, DoneRests
<1>3. ReportIsComplete
  BY DEF Init, ReportIsComplete
<1>4. OnGrid
  <2>1. 0 \in 0..Ticks /\ 0 * Interval = 0
    BY ConstantsAreTyped
  <2> QED BY <2>1 DEF Init, OnGrid
<1>5. Prefix
  BY ConstantsAreTyped DEF Init, Prefix
<1>6. OnTarget
  BY ConstantsAreTyped DEF Init, OnTarget, Arrives, TakenUpTo
<1> QED BY <1>1, <1>2, <1>3, <1>4, <1>5, <1>6 DEF IInv

LEMMA InvariantIsKept ==
  ASSUME IInv, [Next]_vars
  PROVE  IInv'
<1>1. TypeOK' /\ HitsAreKept' /\ Records' /\ ReportIsComplete'
  BY TypeIsKept, HitsAreKeptStill, RecordsStill, ReportIsCompleteStill DEF IInv
<1>2. OnGrid' /\ DoneRests' /\ Prefix' /\ OnTarget'
  BY OnGridStill, DoneRestsStill, PrefixStill, OnTargetStill DEF IInv
<1> QED BY <1>1, <1>2 DEF IInv

(* The reseeds of a replica on target are those of the schedule.           *)
LEMMA OnSchedule ==
  ASSUME IInv
  PROVE  ReseedsOnSchedule
<1> SUFFICES ASSUME NEW r \in Replica, ~faulty[r]
             PROVE  /\ \A i \in DOMAIN branched[r] :
                         branched[r][i] = [at |-> Schedule[i], time |-> Boundary(Schedule[i])]
                    /\ thread[r] \in {"ended", "read"} /\ main = "loop" /\ ~done[r] =>
                         Len(branched[r]) =
                           Cardinality({i \in DOMAIN Schedule : Schedule[i] <= tick})
  BY DEF ReseedsOnSchedule
<1> DEFINE n == Len(branched[r])
<1>1. n \in Nat /\ DOMAIN branched[r] = 1..n /\ n <= Len(Schedule)
  <2>1. branched[r] \in Seq(Reseed)
    BY DEF IInv, TypeOK, Reseed
  <2> QED BY <2>1, LenProperties DEF IInv, Prefix
<1>2. \A i \in DOMAIN branched[r] :
        branched[r][i] = [at |-> Schedule[i], time |-> Boundary(Schedule[i])]
  BY <1>1 DEF IInv, Prefix
<1>3. ASSUME thread[r] \in {"ended", "read"}, ~done[r]
      PROVE  n = Cardinality({i \in DOMAIN Schedule : Schedule[i] <= tick})
  <2>1. TakenUpTo(r, tick)
    BY <1>3 DEF IInv, OnTarget, Arrives
  <2>2. \A i \in DOMAIN Schedule : Schedule[i] <= tick <=> i <= n
    BY <2>1 DEF TakenUpTo
  <2> HIDE DEF n
  <2>3. {i \in DOMAIN Schedule : Schedule[i] <= tick} = 1..n
    BY <1>1, <2>2, ConstantsAreTyped
  <2>4. Cardinality(1..n) = n
    BY <1>1, FS_Interval
  <2> QED BY <2>3, <2>4
<1> QED BY <1>2, <1>3

(* A replica on target is at the boundary or at the one before.            *)
LEMMA LockStep ==
  ASSUME IInv
  PROVE  InLockStep
<1>1. tick \in Nat /\ Interval \in Nat /\ \A r \in Replica : time[r] \in Nat
  BY ConstantsAreTyped DEF IInv, TypeOK
<1>2. ASSUME NEW r \in Replica, ~faulty[r], ~done[r]
      PROVE  time[r] <= tick /\ tick <= time[r] + Interval
  <2>1. Arrives(r)
    BY <1>2 DEF IInv, OnTarget
  <2>2. CASE thread[r] = "goto"
    <3>1. PICK k \in 0..Ticks : BeganAt(k) /\ time[r] = k * Interval
      BY <2>1, <2>2 DEF Arrives
    <3>2. time[r] < Ticks /\ tick = Min({time[r] + Interval, Ticks}) /\ Ticks \in Nat
      BY <3>1, ConstantsAreTyped DEF BeganAt
    <3>3. tick = IF time[r] + Interval <= Ticks THEN time[r] + Interval ELSE Ticks
      BY <1>1, <3>2, MinOfTwo
    <3>4. time[r] \in Nat /\ Ticks \in Nat /\ time[r] < Ticks /\ Interval \in Nat
      BY <1>1, <3>2
    <3>5. CASE time[r] + Interval <= Ticks
      BY <3>3, <3>4, <3>5
    <3>6. CASE ~(time[r] + Interval <= Ticks)
      BY <3>3, <3>4, <3>6
    <3> QED BY <3>5, <3>6
  <2>3. CASE thread[r] # "goto"
    <3>1. time[r] = tick
      BY <2>1, <2>3 DEF Arrives, IInv, TypeOK
    <3> QED BY <1>1, <3>1
  <2> QED BY <2>2, <2>3
<1>3. SUFFICES ASSUME NEW r \in Replica, NEW s \in Replica,
                      ~faulty[r], ~faulty[s], ~done[r], ~done[s]
               PROVE  time[r] - time[s] <= Interval
  BY DEF InLockStep
<1>4. time[r] <= tick /\ tick <= time[s] + Interval
  BY <1>2, <1>3
<1> QED BY <1>1, <1>4

(* Every variable keeps its type; no replica is recorded twice.            *)
THEOREM TypeCorrect == Spec => []TypeOK
<1>1. IInv => TypeOK
  BY DEF IInv
<1> QED BY InvariantAtStart, InvariantIsKept, <1>1, PTL DEF Spec

(* For any schedule and any length of the run, a replica whose gotos land  *)
(* takes the reseeds of reseed_schedule in order, each at the first        *)
(* boundary at or after it and each once, and no two such replicas are     *)
(* ever further apart than one segment.                                    *)
THEOREM StaysInStep == Spec => []InStep
<1>1. IInv => InStep
  BY OnSchedule, LockStep DEF InStep
<1> QED BY InvariantAtStart, InvariantIsKept, <1>1, PTL DEF Spec

(* However threads die, stall and overshoot, and whatever the main thread  *)
(* raises: a DONE file with status 0 stands for a record of every replica, *)
(* with every hit its server saw unless that replica missed a target.      *)
THEOREM DoneMeansComplete == Spec => []ReportIsComplete
<1>1. IInv => ReportIsComplete
  BY DEF IInv
<1> QED BY InvariantAtStart, InvariantIsKept, <1>1, PTL DEF Spec
===============================================================================
