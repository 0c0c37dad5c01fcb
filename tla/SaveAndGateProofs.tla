------------------------- MODULE SaveAndGateProofs -------------------------
(***************************************************************************)
(* Theorems about the two places where processes wait for one another.     *)
(*                                                                         *)
(* Saving a world and copying it into a checkpoint, for any number of      *)
(* attempts and whatever fails: barriers that give up, saves that outlast  *)
(* the wait, a server that dies.  The save barrier is on, which is its     *)
(* default; without it there is nothing to prove.                          *)
(*                                                                         *)
(* The memory gate, for any number of launchers, whatever they ask for,    *)
(* however often they poll and replace containers.  Its theorems rest on   *)
(* counting: Count(n) is the sum of the n[l], and the lemmas say how it    *)
(* changes with one of them.                                               *)
(***************************************************************************)
EXTENDS SaveCheckpoint, MemGate, FiniteSetTheorems, TLAPS

-----------------------------------------------------------------------------
(* The save.                                                               *)

(* The server is between saves and none is asked for.                      *)
AtRest == requests = 0 /\ server \in {"idle", "dead"}

(* The world on disk is of now, and stays as it is.                        *)
Settled == pending = {} /\ disk = [f \in Files |-> "now"]

(* What the barriers before server's next step have let through.           *)
Passed ==
  CASE server = "sections" -> {"chunks"}
    [] server = "data"     -> {"chunks", "sections"}
    [] server = "sidecar"  -> Parts
    [] OTHER               -> {}

Saving == server \in Files

(* A part that is half-written has a writer; a save queues every part that *)
(* is still old; and what a barrier let through is on disk.                *)
WritesAreQueued ==
  /\ \A p \in Parts : disk[p] = "half" => p \in pending
  /\ Saving => \A p \in Parts : disk[p] = "old" => p \in pending
  /\ ~broken => Passed \cap pending = {}

(* One save-all is one save, and its sidecar answers the harness that sent *)
(* it: nothing is left of it when the harness goes on.                     *)
OneSaveAtATime ==
  /\ ~late /\ (moved \/ harness # "wait") => AtRest
  /\ ~late => requests <= 1 /\ (Saving => requests = 0)

(* So from the sidecar to the next save-all there is one world to read.    *)
CopiesTheSettled ==
  /\ ~late /\ ~broken /\ ((harness = "wait" /\ moved) \/ harness \in {"copy", "accepted"}) => Settled
  /\ ~late /\ ~broken /\ harness \in {"copy", "accepted"} =>
       \A f \in Files : copy[f] \in {"none", "now"}
  /\ harness = "accepted" => (\A f \in Files : copy[f] # "none") /\ ~BadNbt

SaveIInv == SaveTypeOK /\ WritesAreQueued /\ OneSaveAtATime /\ CopiesTheSettled

-----------------------------------------------------------------------------
LEMMA SaveTypeAtStart ==
  ASSUME SaveInit
  PROVE  SaveTypeOK
<1>1. attempt \in 1..Attempts
  BY AttemptsAssumption DEF SaveInit
<1>2. moved \in BOOLEAN /\ broken \in BOOLEAN /\ late \in BOOLEAN
  BY Zenon DEF SaveInit
<1>3. disk \in [Files -> Content] /\ copy \in [Files -> Content \cup {"none"}]
  BY DEF SaveInit, Content
<1> QED BY <1>1, <1>2, <1>3 DEF SaveInit, SaveTypeOK

(* Every variable keeps its type, with or without the barrier.             *)
THEOREM SaveTypeCorrect == SaveSpec => []SaveTypeOK
<1>1. SaveInit => SaveTypeOK
  BY SaveTypeAtStart
<1>2. SaveTypeOK /\ [SaveNext]_saveVars => SaveTypeOK'
  <2> SUFFICES ASSUME SaveTypeOK, [SaveNext]_saveVars PROVE SaveTypeOK'
    OBVIOUS
  <2> USE DEF SaveTypeOK, Content, Files, Parts
  <2>1. CASE saveEverything
    BY <2>1 DEF saveEverything, hrn
  <2>2. ASSUME NEW p \in Parts, saveBarrier(p) PROVE SaveTypeOK'
    <3>1. broken' \in BOOLEAN
      BY <2>2 DEF saveBarrier
    <3>2. server' \in Files
      BY <2>2 DEF saveBarrier, After
    <3> QED BY <2>2, <3>1, <3>2 DEF saveBarrier, hrn
  <2>3. CASE persistState
    BY <2>3 DEF persistState, hrn
  <2>4. ASSUME NEW p \in Parts, Write(p) PROVE SaveTypeOK'
    BY <2>4 DEF Write, hrn
  <2>5. CASE Die
    BY <2>5 DEF Die, hrn
  <2>6. CASE save_world
    <3>1. moved' \in BOOLEAN
      BY <2>6, Zenon DEF save_world
    <3> QED BY <2>6, <3>1 DEF save_world
  <2>7. CASE SaveReturns
    BY <2>7 DEF SaveReturns, srv
  <2>8. ASSUME NEW f \in Files, CopyFile(f) PROVE SaveTypeOK'
    BY <2>8 DEF CopyFile, srv
  <2>9. CASE CheckpointVerified
    BY <2>9, AttemptsAssumption DEF CheckpointVerified, srv
  <2>10. CASE UNCHANGED saveVars
    BY <2>10 DEF saveVars, srv, hrn
  <2> QED BY <2>1, <2>2, <2>3, <2>4, <2>5, <2>6, <2>7, <2>8, <2>9, <2>10
          DEF SaveNext, Server, Harness
<1> QED BY <1>1, <1>2, PTL DEF SaveSpec

-----------------------------------------------------------------------------
LEMMA SaveInitHolds == SaveInit => SaveIInv
<1> SUFFICES ASSUME SaveInit, SaveTypeOK PROVE SaveIInv
  BY SaveTypeAtStart DEF SaveIInv
<1> USE DEF SaveInit
<1>1. WritesAreQueued
  BY DEF WritesAreQueued, Saving, Files, Parts
<1>2. OneSaveAtATime
  BY DEF OneSaveAtATime, AtRest, Saving, Files, Parts
<1>3. CopiesTheSettled
  BY DEF CopiesTheSettled
<1> QED BY <1>1, <1>2, <1>3 DEF SaveIInv

LEMMA SaveStepHolds ==
  ASSUME SaveBarrier, SaveIInv, SaveTypeOK', [SaveNext]_saveVars
  PROVE  SaveIInv'
<1> USE DEF SaveIInv, SaveTypeOK, WritesAreQueued, OneSaveAtATime, CopiesTheSettled, AtRest, Settled,
            Saving, Passed, Content, Files, Parts
<1>1. CASE saveEverything
  BY <1>1 DEF saveEverything, hrn, Running, BadNbt
<1>2. ASSUME NEW p \in Parts, saveBarrier(p) PROVE SaveIInv'
  BY <1>2 DEF saveBarrier, After, hrn, Running, BadNbt
<1>3. CASE persistState
  <2>1. /\ server' = "idle" /\ requests' = requests /\ late' = late
        /\ pending' = pending /\ broken' = broken /\ harness' = harness /\ copy' = copy
    BY <1>3 DEF persistState, hrn
  <2>2. harness' # "accepted"
    BY <1>3, <2>1 DEF persistState, Running
  <2>3. ~late => ~moved /\ harness = "wait"
    BY <1>3 DEF persistState
  <2>4. ASSUME ~broken, moved', ~moved PROVE Settled'
    BY <1>3, <2>4 DEF persistState
  <2>5. WritesAreQueued'
    BY <1>3, <2>1 DEF persistState
  <2>6. OneSaveAtATime'
    BY <1>3, <2>1 DEF persistState
  <2>7. CopiesTheSettled'
    BY <2>1, <2>2, <2>3, <2>4
  <2> QED BY <2>5, <2>6, <2>7
<1>4. ASSUME NEW p \in Parts, Write(p) PROVE SaveIInv'
  BY <1>4 DEF Write, hrn, Running, BadNbt
<1>5. CASE Die
  BY <1>5 DEF Die, hrn, Running, BadNbt
<1>6. CASE save_world
  BY <1>6 DEF save_world, BadNbt
<1>7. CASE SaveReturns
  BY <1>7 DEF SaveReturns, srv, BadNbt
<1>8. ASSUME NEW f \in Files, CopyFile(f) PROVE SaveIInv'
  BY <1>8 DEF CopyFile, srv, BadNbt
<1>9. CASE CheckpointVerified
  BY <1>9 DEF CheckpointVerified, Copied, srv, BadNbt
<1>10. CASE UNCHANGED saveVars
  BY <1>10 DEF saveVars, srv, hrn, BadNbt
<1> QED BY <1>1, <1>2, <1>3, <1>4, <1>5, <1>6, <1>7, <1>8, <1>9, <1>10
        DEF SaveNext, Server, Harness

LEMMA SaveInvariance ==
  ASSUME SaveBarrier
  PROVE  SaveSpec => []SaveIInv
<1>1. SaveTypeOK /\ SaveTypeOK' /\ SaveIInv /\ [SaveNext]_saveVars => SaveIInv'
  BY SaveStepHolds
<1> QED BY <1>1, SaveInitHolds, SaveTypeCorrect, PTL DEF SaveSpec

(* A checkpoint is one moment, whatever the IO workers hold, however long  *)
(* a save takes and whenever the server dies.                              *)
THEOREM OneMoment ==
  ASSUME SaveBarrier
  PROVE  SaveSpec => []CheckpointIsOneMoment
<1>1. SaveIInv => CheckpointIsOneMoment
  BY DEF SaveIInv, CopiesTheSettled, CheckpointIsOneMoment, BadNbt
<1> QED BY <1>1, SaveInvariance, PTL

(* The sidecar moves when every write its save queued is on disk.          *)
THEOREM SidecarLast ==
  ASSUME SaveBarrier
  PROVE  SaveSpec => SidecarIsLast
<1>1. SaveIInv /\ [SaveNext]_saveVars =>
        [disk'["sidecar"] # disk["sidecar"] \/ (~moved /\ moved') => pending = {} \/ broken]_saveVars
  <2> SUFFICES ASSUME SaveIInv, SaveNext,
                      disk'["sidecar"] # disk["sidecar"] \/ (~moved /\ moved')
               PROVE  pending = {} \/ broken
    OBVIOUS
  <2>1. CASE persistState
    BY <2>1 DEF persistState, SaveIInv, WritesAreQueued, Passed, SaveTypeOK
  <2>2. ASSUME NEW p \in Parts, Write(p) PROVE FALSE
    BY <2>2 DEF Write, SaveIInv, SaveTypeOK, Files, Parts
  <2>3. CASE saveEverything \/ (\E p \in Parts : saveBarrier(p)) \/ Die \/ Harness
    BY <2>3 DEF saveEverything, saveBarrier, Die, Harness, save_world, SaveReturns, CopyFile,
                CheckpointVerified
  <2> QED BY <2>1, <2>2, <2>3 DEF SaveNext, Server
<1> QED BY <1>1, SaveInvariance, PTL DEF SaveSpec, SidecarIsLast

-----------------------------------------------------------------------------
(* The memory gate.                                                        *)

(* The containers of n that are not of launcher l.                         *)
OfOthers(n, l) == {c \in Containers(n) : c[1] # l}

(* There are finitely many containers, if nobody has more than K.          *)
LEMMA CountIsNatural ==
  ASSUME NEW K \in Nat, NEW n \in [Launcher -> 0..K]
  PROVE  IsFiniteSet(Containers(n)) /\ Count(n) \in Nat
<1>1. IsFiniteSet(1..K)
  BY FS_Interval
<1>2. IsFiniteSet(Launcher \X (1..K))
  BY <1>1, FS_Product, HostAssumption
<1>3. Containers(n) \subseteq Launcher \X (1..K)
  <2> SUFFICES ASSUME NEW l \in Launcher, NEW c \in {l} \X (1..n[l])
               PROVE  c \in Launcher \X (1..K)
    BY DEF Containers
  <2>1. n[l] \in 0..K
    OBVIOUS
  <2>2. 1..n[l] \subseteq 1..K
    BY <2>1
  <2> QED BY <2>2
<1>4. IsFiniteSet(Containers(n))
  BY <1>2, <1>3, FS_Subset
<1> QED BY <1>4, FS_CardinalityType DEF Count

(* A launcher's containers are as many as it says, beside all the others.  *)
LEMMA CountSplits ==
  ASSUME NEW K \in Nat, NEW n \in [Launcher -> 0..K], NEW l \in Launcher
  PROVE  /\ Count(n) = Cardinality(OfOthers(n, l)) + n[l]
         /\ Cardinality(OfOthers(n, l)) \in Nat
<1> DEFINE Own == {l} \X (1..n[l])
<1>1. n[l] \in Nat
  OBVIOUS
<1>2. IsFiniteSet(1..n[l]) /\ Cardinality(1..n[l]) = n[l]
  BY <1>1, FS_Interval
<1>3. IsFiniteSet({l}) /\ Cardinality({l}) = 1
  BY FS_Singleton
<1>4. IsFiniteSet(Own) /\ Cardinality(Own) = 1 * n[l]
  BY <1>2, <1>3, FS_Product
<1>5. IsFiniteSet(OfOthers(n, l)) /\ Cardinality(OfOthers(n, l)) \in Nat
  BY CountIsNatural, FS_Subset, FS_CardinalityType DEF OfOthers
<1>6. Containers(n) = OfOthers(n, l) \cup Own
  BY DEF Containers, OfOthers
<1>7. OfOthers(n, l) \cap Own = {}
  BY DEF OfOthers
<1>8. Cardinality({}) = 0
  BY FS_EmptySet
<1> HIDE DEF Own
<1>9. Cardinality(OfOthers(n, l) \cup Own) =
        Cardinality(OfOthers(n, l)) + Cardinality(Own) - Cardinality({})
  BY <1>4, <1>5, <1>7, FS_Union
<1> QED BY <1>1, <1>4, <1>5, <1>6, <1>8, <1>9 DEF Count

(* Changing what one launcher has changes the count by the difference.     *)
LEMMA CountOfUpdate ==
  ASSUME NEW K \in Nat, NEW n \in [Launcher -> 0..K], NEW l \in Launcher,
         NEW v \in 0..K
  PROVE  Count([n EXCEPT ![l] = v]) = Count(n) - n[l] + v
<1> DEFINE m == [n EXCEPT ![l] = v]
<1>1. m \in [Launcher -> 0..K] /\ m[l] = v
  OBVIOUS
<1>2. \A k \in Launcher \ {l} : m[k] = n[k]
  OBVIOUS
<1> HIDE DEF m
<1>3. OfOthers(m, l) = OfOthers(n, l)
  BY <1>2 DEF OfOthers, Containers
<1>4. /\ Count(m) = Cardinality(OfOthers(m, l)) + m[l]
      /\ Cardinality(OfOthers(m, l)) \in Nat
  BY <1>1, CountSplits
<1>5. /\ Count(n) = Cardinality(OfOthers(n, l)) + n[l]
      /\ Cardinality(OfOthers(n, l)) \in Nat
  BY CountSplits
<1>6. Count(m) = Count(n) - n[l] + v
  BY <1>1, <1>3, <1>4, <1>5
<1> QED BY <1>6 DEF m

-----------------------------------------------------------------------------
(* Only who holds the lock is between its check and its return.            *)
LockIsHeld == \A l \in Launcher : stage[l] \in {"check", "settle"} <=> lock = l

(* A wave starts from nothing and asks for no more than Cap; afterwards a  *)
(* launcher only asks for the one container it replaces.                   *)
AskIsModest ==
  \A l \in Launcher :
    /\ stage[l] = "plan" => started[l] = 0
    /\ stage[l] \in {"ask", "check", "settle", "asleep", "start"} =>
         /\ started[l] + need[l] <= Cap
         /\ started[l] > 0 => need[l] = 1

OnlyTheStarted ==
  \A l \in Launcher : /\ resident[l] <= started[l]
                      /\ stage[l] = "up" => started[l] > 0

(* The hidden containers of one launcher.                                  *)
HiddenOf(l) == {c \in Hidden : c[1] = l}

(* Who asks again while its other containers still boot leaves room for    *)
(* what it asks for, since it has given a container up; or another check   *)
(* has missed as many as it hides.  The guard of Check does not see these  *)
(* containers, so this is what makes the answer right.                     *)
RoomIsLeft ==
  \A l \in Launcher : stage[l] \in {"ask", "check", "asleep"} =>
    \/ Count(Granted) + need[l] + Reserve <= Total + unseen
    \/ Cardinality(HiddenOf(l)) <= unseen

IInv == TypeOK /\ LockIsHeld /\ AskIsModest /\ OnlyTheStarted
        /\ RoomIsLeft /\ GrantsFitTheHost

-----------------------------------------------------------------------------
(* The maximum and minimum of two numbers are one of them, and bound both. *)
LEMMA MaxMinOfTwo ==
  ASSUME NEW a \in Int, NEW b \in Int
  PROVE  /\ Max({a, b}) \in {a, b} /\ Max({a, b}) >= a /\ Max({a, b}) >= b
         /\ Min({a, b}) \in {a, b} /\ Min({a, b}) <= a /\ Min({a, b}) <= b
<1>1. CASE a <= b
  BY <1>1 DEF Max, Min
<1>2. CASE b < a
  BY <1>2 DEF Max, Min
<1> QED BY <1>1, <1>2

LEMMA ConstantsAreNatural ==
  /\ Total \in Nat /\ Reserve \in Nat /\ Patience \in Nat /\ MaxRetries \in Nat
  /\ Cap \in Nat /\ Cap >= 1 /\ Cap + Reserve <= Total
BY HostAssumption

LEMMA FreeIsInteger ==
  ASSUME TypeOK
  PROVE  Count(resident) \in Nat /\ Free \in Int
BY CountIsNatural, ConstantsAreNatural DEF TypeOK, Free

(* A search asks for one container at least and Cap at most.               *)
LEMMA BudgetInRange ==
  ASSUME TypeOK
  PROVE  budget_nodes \in 1..Cap
<1> DEFINE fits == Max({0, Free - Reserve})
<1>1. fits \in Int
  BY FreeIsInteger, ConstantsAreNatural, MaxMinOfTwo
<1> HIDE DEF fits
<1> DEFINE some == Max({1, fits})
<1>2. some \in Int /\ some >= 1
  <2> DEFINE one == 1
  <2>1. one \in Int
    OBVIOUS
  <2> HIDE DEF one
  <2>2. Max({one, fits}) \in {one, fits} /\ Max({one, fits}) >= one
    BY <1>1, <2>1, MaxMinOfTwo
  <2> QED BY <1>1, <2>2 DEF one
<1> HIDE DEF some
<1>3. Min({Cap, some}) \in 1..Cap
  BY <1>2, ConstantsAreNatural, MaxMinOfTwo
<1> QED BY <1>3 DEF budget_nodes, some, fits

(* What is granted is typed, and counted.                                  *)
LEMMA GrantedIsCounted ==
  ASSUME TypeOK
  PROVE  Granted \in [Launcher -> 0..(Cap + Cap)] /\ Count(Granted) \in Nat
<1>1. Granted \in [Launcher -> 0..(Cap + Cap)]
  BY ConstantsAreNatural DEF TypeOK, Granted
<1>2. Cap + Cap \in Nat
  BY ConstantsAreNatural
<1> QED BY <1>1, <1>2, CountIsNatural

LEMMA HiddenIsCounted ==
  ASSUME TypeOK
  PROVE  /\ IsFiniteSet(Hidden) /\ Cardinality(Hidden) \in Nat
         /\ \A S \in SUBSET Hidden : /\ IsFiniteSet(S) /\ Cardinality(S) \in Nat
                                     /\ Cardinality(S) <= Cardinality(Hidden)
<1>1. Through \in [Launcher -> 0..(Cap + Cap)]
  BY ConstantsAreNatural DEF TypeOK, Through
<1>2. Cap + Cap \in Nat
  BY ConstantsAreNatural
<1>3. IsFiniteSet(Containers(Through))
  BY <1>1, <1>2, CountIsNatural
<1>4. IsFiniteSet(Hidden)
  BY <1>3, FS_Subset DEF Hidden
<1> QED BY <1>4, FS_Subset, FS_CardinalityType

-----------------------------------------------------------------------------
LEMMA TypeIsKept ==
  ASSUME TypeOK, LockIsHeld, AskIsModest, OnlyTheStarted, [Next]_vars
  PROVE  TypeOK'
<1> USE ConstantsAreNatural
<1>1. ASSUME NEW l \in Launcher, Plan(l)
      PROVE  TypeOK'
  <2>1. PICK n \in {budget_nodes, Cap} : need' = [need EXCEPT ![l] = n]
    BY <1>1 DEF Plan
  <2>2. n \in 1..Cap
    BY BudgetInRange
  <2> QED BY <1>1, <2>1, <2>2 DEF Plan, Goes, TypeOK, host
<1>2. ASSUME NEW l \in Launcher, Lock(l)
      PROVE  TypeOK'
  BY <1>2 DEF Lock, Goes, TypeOK, host
<1>3. ASSUME NEW l \in Launcher, Check(l)
      PROVE  TypeOK'
  <2>1. unseen' \in Nat
    <3>1. Cardinality(Hidden) \in Nat
      BY HiddenIsCounted
    <3> QED BY <1>3, <3>1 DEF Check, TypeOK, Missed
  <2>2. stage' \in [Launcher -> {"plan", "ask", "check", "settle", "asleep", "start",
                                 "up", "over", "refused"}]
    BY <1>3 DEF Check, TypeOK, Goes
  <2>3. lock' \in Launcher \cup {None}
    BY <1>3 DEF Check, TypeOK
  <2>4. UNCHANGED <<need, host, waited, retries>>
    BY <1>3 DEF Check
  <2> QED BY <2>1, <2>2, <2>3, <2>4 DEF TypeOK, host
<1>4. ASSUME NEW l \in Launcher, Return(l)
      PROVE  TypeOK'
  BY <1>4 DEF Return, Goes, TypeOK, host
<1>5. ASSUME NEW l \in Launcher, Poll(l)
      PROVE  TypeOK'
  BY <1>5 DEF Poll, Goes, TypeOK, host
<1>6. ASSUME NEW l \in Launcher, GiveUp(l)
      PROVE  TypeOK'
  BY <1>6 DEF GiveUp, Goes, TypeOK, host
<1>7. ASSUME NEW l \in Launcher, Up(l)
      PROVE  TypeOK'
  <2>1. started[l] + need[l] \in 0..Cap
    BY <1>7 DEF Up, Goes, TypeOK, AskIsModest
  <2> QED BY <1>7, <2>1 DEF Up, Goes, TypeOK
<1>8. ASSUME NEW l \in Launcher, Allocate(l)
      PROVE  TypeOK'
  BY <1>8 DEF Allocate, TypeOK
<1>9. ASSUME NEW l \in Launcher, Retry(l)
      PROVE  TypeOK'
  <2>1. started[l] - 1 \in 0..Cap
    BY <1>9 DEF Retry, Goes, TypeOK, OnlyTheStarted
  <2>2. started' = [started EXCEPT ![l] = started[l] - 1]
    BY <1>9 DEF Retry
  <2>3. started'[l] = started[l] - 1 /\ started' \in [Launcher -> 0..Cap]
    BY <2>1, <2>2 DEF TypeOK
  <2>4. resident' \in [Launcher -> 0..Cap]
    <3>1. PICK left \in {resident[l], resident[l] - 1} \cap 0..started'[l] :
            resident' = [resident EXCEPT ![l] = left]
      BY <1>9 DEF Retry
    <3>2. left \in 0..Cap
      BY <2>1, <2>3
    <3> QED BY <3>1, <3>2 DEF TypeOK
  <2> QED BY <1>9, <2>3, <2>4 DEF Retry, Goes, TypeOK
<1>10. ASSUME NEW l \in Launcher, Down(l)
       PROVE  TypeOK'
  BY <1>10 DEF Down, Goes, TypeOK
<1>11. CASE UNCHANGED vars
  BY <1>11 DEF vars, host, TypeOK
<1> QED
  BY <1>1, <1>2, <1>3, <1>4, <1>5, <1>6, <1>7, <1>8, <1>9, <1>10, <1>11
  DEF Next, Over

LEMMA LockIsHeldStill ==
  ASSUME TypeOK, LockIsHeld, [Next]_vars
  PROVE  LockIsHeld'
<1>1. ASSUME NEW l \in Launcher, Plan(l) \/ Poll(l) \/ GiveUp(l) \/ Up(l) \/ Retry(l) \/ Down(l)
      PROVE  LockIsHeld'
  BY <1>1 DEF Plan, Poll, GiveUp, Up, Retry, Down, Goes, LockIsHeld, TypeOK, host
<1>2. ASSUME NEW l \in Launcher, Lock(l)
      PROVE  LockIsHeld'
  BY <1>2, HostAssumption DEF Lock, Goes, LockIsHeld, TypeOK
<1>3. ASSUME NEW l \in Launcher, Check(l)
      PROVE  LockIsHeld'
  BY <1>3, HostAssumption DEF Check, Goes, LockIsHeld, TypeOK
<1>4. ASSUME NEW l \in Launcher, Return(l)
      PROVE  LockIsHeld'
  BY <1>4, HostAssumption DEF Return, Goes, LockIsHeld, TypeOK
<1>5. ASSUME NEW l \in Launcher, Allocate(l)
      PROVE  LockIsHeld'
  BY <1>5 DEF Allocate, LockIsHeld
<1>6. CASE UNCHANGED vars
  BY <1>6 DEF vars, LockIsHeld
<1> QED BY <1>1, <1>2, <1>3, <1>4, <1>5, <1>6 DEF Next, Over

LEMMA AskIsModestStill ==
  ASSUME TypeOK, AskIsModest, OnlyTheStarted, [Next]_vars
  PROVE  AskIsModest'
<1> USE ConstantsAreNatural
<1>1. ASSUME NEW l \in Launcher, Plan(l)
      PROVE  AskIsModest'
  <2>1. PICK n \in {budget_nodes, Cap} : need' = [need EXCEPT ![l] = n]
    BY <1>1 DEF Plan
  <2>2. n \in 1..Cap
    BY BudgetInRange
  <2> QED BY <1>1, <2>1, <2>2 DEF Plan, Goes, TypeOK, AskIsModest, host
<1>2. ASSUME NEW l \in Launcher, Lock(l) \/ Return(l) \/ Poll(l) \/ GiveUp(l)
      PROVE  AskIsModest'
  BY <1>2 DEF Lock, Return, Poll, GiveUp, Goes, TypeOK, AskIsModest, host
<1>3. ASSUME NEW l \in Launcher, Check(l)
      PROVE  AskIsModest'
  BY <1>3 DEF Check, Goes, TypeOK, AskIsModest, host
<1>4. ASSUME NEW l \in Launcher, Up(l) \/ Down(l)
      PROVE  AskIsModest'
  BY <1>4 DEF Up, Down, Goes, TypeOK, AskIsModest
<1>5. ASSUME NEW l \in Launcher, Retry(l)
      PROVE  AskIsModest'
  BY <1>5 DEF Retry, Goes, TypeOK, AskIsModest, OnlyTheStarted
<1>6. ASSUME NEW l \in Launcher, Allocate(l)
      PROVE  AskIsModest'
  BY <1>6 DEF Allocate, AskIsModest
<1>7. CASE UNCHANGED vars
  BY <1>7 DEF vars, host, AskIsModest
<1> QED BY <1>1, <1>2, <1>3, <1>4, <1>5, <1>6, <1>7 DEF Next, Over

LEMMA OnlyTheStartedStill ==
  ASSUME TypeOK, OnlyTheStarted, [Next]_vars
  PROVE  OnlyTheStarted'
<1>1. ASSUME NEW l \in Launcher,
             Plan(l) \/ Lock(l) \/ Check(l) \/ Return(l) \/ Poll(l) \/ GiveUp(l)
      PROVE  OnlyTheStarted'
  BY <1>1 DEF Plan, Lock, Check, Return, Poll, GiveUp, Goes, TypeOK, OnlyTheStarted, host
<1>2. ASSUME NEW l \in Launcher, Up(l)
      PROVE  OnlyTheStarted'
  BY <1>2, ConstantsAreNatural DEF Up, Goes, TypeOK, OnlyTheStarted
<1>3. ASSUME NEW l \in Launcher, Allocate(l)
      PROVE  OnlyTheStarted'
  BY <1>3 DEF Allocate, TypeOK, OnlyTheStarted
<1>4. ASSUME NEW l \in Launcher, Retry(l)
      PROVE  OnlyTheStarted'
  <2>1. PICK left \in {resident[l], resident[l] - 1} \cap 0..started'[l] :
          resident' = [resident EXCEPT ![l] = left]
    BY <1>4 DEF Retry
  <2>2. resident'[l] <= started'[l] /\ stage'[l] = "ask"
    BY <1>4, <2>1 DEF Retry, Goes, TypeOK
  <2>3. \A k \in Launcher \ {l} : /\ resident'[k] = resident[k] /\ started'[k] = started[k]
                                 /\ stage'[k] = stage[k]
    BY <1>4, <2>1 DEF Retry, Goes, TypeOK
  <2> QED BY <2>2, <2>3 DEF OnlyTheStarted
<1>5. ASSUME NEW l \in Launcher, Down(l)
      PROVE  OnlyTheStarted'
  BY <1>5 DEF Down, Goes, TypeOK, OnlyTheStarted
<1>6. CASE UNCHANGED vars
  BY <1>6 DEF vars, host, OnlyTheStarted
<1> QED BY <1>1, <1>2, <1>3, <1>4, <1>5, <1>6 DEF Next, Over

-----------------------------------------------------------------------------
(* No step but a passed check, a replacement and the end of a wave changes *)
(* what is granted: from the check to the start it is in need, after it in *)
(* started.                                                                *)
LEMMA GrantedStays ==
  ASSUME TypeOK, NEW l \in Launcher,
         \/ Plan(l) \/ Lock(l) \/ (Check(l) /\ stage'[l] = "asleep") \/ Return(l)
         \/ Poll(l) \/ GiveUp(l) \/ Up(l) \/ Allocate(l)
  PROVE  Granted' = Granted
<1>1. SUFFICES ASSUME NEW k \in Launcher
               PROVE  Granted'[k] = Granted[k]
  BY DEF Granted
<1>2. CASE Plan(l)
  BY <1>2 DEF Plan, Goes, TypeOK, host, Granted
<1>3. CASE Lock(l) \/ Return(l) \/ Poll(l) \/ GiveUp(l)
  BY <1>3 DEF Lock, Return, Poll, GiveUp, Goes, TypeOK, host, Granted
<1>4. CASE Check(l) /\ stage'[l] = "asleep"
  BY <1>4 DEF Check, Goes, TypeOK, host, Granted
<1>5. CASE Up(l)
  BY <1>5, ConstantsAreNatural DEF Up, Goes, TypeOK, Granted
<1>6. CASE Allocate(l)
  BY <1>6 DEF Allocate, Granted
<1> QED BY <1>2, <1>3, <1>4, <1>5, <1>6

(* When a check is made nobody else is between check and start: whatever   *)
(* was granted is resident or hidden.                                      *)
LEMMA GrantedIsResidentOrHidden ==
  ASSUME IInv, NEW l \in Launcher, stage[l] = "check"
  PROVE  Count(Granted) = Count(resident) + Cardinality(Hidden)
<1>1. \A k \in Launcher : stage[k] # "settle"
  BY DEF IInv, LockIsHeld, TypeOK
<1>2. Through = Granted
  BY <1>1 DEF Through, Granted, IInv, TypeOK
<1>3. Containers(resident) \subseteq Containers(Granted)
  <2> SUFFICES ASSUME NEW k \in Launcher
               PROVE  {k} \X (1..resident[k]) \subseteq {k} \X (1..Granted[k])
    BY DEF Containers
  <2>1. resident[k] \in Nat /\ started[k] \in Nat /\ need[k] \in Nat
    BY ConstantsAreNatural DEF IInv, TypeOK
  <2>2. resident[k] <= started[k]
    BY DEF IInv, OnlyTheStarted
  <2>3. Granted[k] \in Nat /\ resident[k] <= Granted[k]
    BY <2>1, <2>2 DEF Granted
  <2> QED BY <2>1, <2>3
<1>4. IsFiniteSet(Containers(resident)) /\ IsFiniteSet(Hidden)
      /\ Count(resident) \in Nat /\ Cardinality(Hidden) \in Nat
  <2>1. Cap \in Nat /\ resident \in [Launcher -> 0..Cap]
    BY ConstantsAreNatural DEF IInv, TypeOK
  <2> QED BY <2>1, CountIsNatural, HiddenIsCounted DEF IInv
<1>5. /\ Containers(Granted) = Containers(resident) \cup Hidden
      /\ Containers(resident) \cap Hidden = {}
  BY <1>2, <1>3 DEF Hidden
<1>6. Cardinality(Containers(resident) \cup Hidden) =
        Cardinality(Containers(resident)) + Cardinality(Hidden)
          - Cardinality(Containers(resident) \cap Hidden)
  BY <1>4, FS_Union
<1>7. Cardinality(Containers(resident) \cap Hidden) = 0
  BY <1>5, FS_EmptySet
<1> QED BY <1>4, <1>5, <1>6, <1>7 DEF Count

(* A passed check grants what there is room for beside what it missed.     *)
LEMMA PassedCheckFits ==
  ASSUME IInv, NEW l \in Launcher, Check(l), stage'[l] = "settle"
  PROVE  Count(Granted') + Reserve <= Total + unseen'
<1>1. /\ stage[l] = "check" /\ stage' = [stage EXCEPT ![l] = "settle"]
      /\ Free >= need[l] + Reserve /\ unseen' = Missed(l)
      /\ UNCHANGED <<need, started, resident>>
  BY DEF Check, Goes, IInv, TypeOK, host
<1>2. /\ Count(Granted) \in Nat /\ Count(resident) \in Nat /\ Cardinality(Hidden) \in Nat
      /\ need[l] \in Nat /\ Reserve \in Nat /\ Total \in Nat /\ unseen \in Nat
  BY GrantedIsCounted, FreeIsInteger, HiddenIsCounted, ConstantsAreNatural DEF IInv, TypeOK
<1>3. Count(resident) + need[l] + Reserve <= Total
  BY <1>1, <1>2 DEF Free
<1>4. Granted[l] = started[l] /\ started[l] + need[l] \in 0..(Cap + Cap)
  BY <1>1, ConstantsAreNatural DEF Granted, IInv, TypeOK
<1>5. Granted' = [Granted EXCEPT ![l] = started[l] + need[l]]
  BY <1>1 DEF Granted, IInv, TypeOK
<1>6. Count(Granted') = Count(Granted) + need[l]
  <2>1. Cap + Cap \in Nat /\ Granted \in [Launcher -> 0..(Cap + Cap)]
    BY GrantedIsCounted, ConstantsAreNatural DEF IInv
  <2>2. Count([Granted EXCEPT ![l] = started[l] + need[l]]) =
          Count(Granted) - Granted[l] + (started[l] + need[l])
    BY <1>4, <2>1, CountOfUpdate
  <2>3. started[l] \in Nat
    BY ConstantsAreNatural DEF IInv, TypeOK
  <2> QED BY <1>2, <1>4, <1>5, <2>2, <2>3
<1>7. Count(Granted) = Count(resident) + Cardinality(Hidden)
  BY <1>1, GrantedIsResidentOrHidden
<1>8. CASE \E c \in Hidden : c[1] # l
  <2>1. unseen' = Cardinality(Hidden)
    BY <1>1, <1>8 DEF Missed
  <2> QED BY <1>2, <1>3, <1>6, <1>7, <2>1
<1>9. CASE ~(\E c \in Hidden : c[1] # l)
  <2>1. unseen' = unseen
    BY <1>1, <1>9 DEF Missed
  <2>2. HiddenOf(l) = Hidden
    BY <1>9 DEF HiddenOf
  <2>3. \/ Count(Granted) + need[l] + Reserve <= Total + unseen
        \/ Cardinality(Hidden) <= unseen
    BY <1>1, <2>2 DEF IInv, RoomIsLeft
  <2> QED BY <1>2, <1>3, <1>6, <1>7, <2>1, <2>3
<1> QED BY <1>8, <1>9

(* A container given up is one the next ask has room for; a wave that ends *)
(* takes all its containers with it.                                       *)
LEMMA GivenUpIsFree ==
  ASSUME IInv, NEW l \in Launcher
  PROVE  /\ Retry(l) => Count(Granted') = Count(Granted) - 1
         /\ Down(l) => Count(Granted') = Count(Granted) - Granted[l]
<1>1. Cap + Cap \in Nat /\ Granted \in [Launcher -> 0..(Cap + Cap)] /\ Count(Granted) \in Nat
  BY GrantedIsCounted, ConstantsAreNatural DEF IInv
<1>2. ASSUME Retry(l)
      PROVE  Count(Granted') = Count(Granted) - 1
  <2>1. started[l] \in 1..Cap /\ Granted[l] = started[l]
    BY <1>2, ConstantsAreNatural DEF Retry, Goes, Granted, IInv, TypeOK, OnlyTheStarted
  <2>2. Granted' = [Granted EXCEPT ![l] = started[l] - 1]
    <3>1. \A k \in Launcher \ {l} : Granted'[k] = Granted[k]
      BY <1>2 DEF Retry, Goes, Granted, IInv, TypeOK
    <3>2. Granted'[l] = started[l] - 1
      BY <1>2, <2>1 DEF Retry, Goes, Granted, IInv, TypeOK
    <3> QED BY <3>1, <3>2 DEF Granted
  <2>3. started[l] - 1 \in 0..(Cap + Cap)
    BY <2>1, ConstantsAreNatural
  <2>4. Count([Granted EXCEPT ![l] = started[l] - 1]) =
          Count(Granted) - Granted[l] + (started[l] - 1)
    BY <1>1, <2>3, CountOfUpdate
  <2> QED BY <1>1, <2>1, <2>2, <2>4
<1>3. ASSUME Down(l)
      PROVE  Count(Granted') = Count(Granted) - Granted[l]
  <2>1. Granted[l] \in Nat /\ 0 \in 0..(Cap + Cap)
    BY <1>1, ConstantsAreNatural
  <2>2. Granted' = [Granted EXCEPT ![l] = 0]
    <3>1. \A k \in Launcher \ {l} : Granted'[k] = Granted[k]
      BY <1>3 DEF Down, Goes, Granted, IInv, TypeOK
    <3>2. Granted'[l] = 0
      BY <1>3 DEF Down, Goes, Granted, IInv, TypeOK
    <3> QED BY <3>1, <3>2 DEF Granted
  <2>3. Count([Granted EXCEPT ![l] = 0]) = Count(Granted) - Granted[l] + 0
    BY <1>1, <2>1, CountOfUpdate
  <2> QED BY <1>1, <2>1, <2>2, <2>3
<1> QED BY <1>2, <1>3

LEMMA GrantsStillFit ==
  ASSUME IInv, [Next]_vars
  PROVE  GrantsFitTheHost'
<1> SUFFICES Count(Granted') + Reserve <= Total + unseen'
  BY DEF GrantsFitTheHost, Count, Containers
<1>1. Count(Granted) \in Nat /\ Reserve \in Nat /\ Total \in Nat /\ unseen \in Nat
  BY GrantedIsCounted, ConstantsAreNatural DEF IInv, TypeOK
<1>2. ASSUME NEW l \in Launcher,
             \/ Plan(l) \/ Lock(l) \/ (Check(l) /\ stage'[l] = "asleep") \/ Return(l)
             \/ Poll(l) \/ GiveUp(l) \/ Up(l) \/ Allocate(l)
      PROVE  Count(Granted') + Reserve <= Total + unseen'
  <2>1. unseen' = unseen
    BY <1>2 DEF Plan, Lock, Check, Return, Poll, GiveUp, Up, Allocate, Goes, IInv, TypeOK
  <2>2. Granted' = Granted
    BY <1>2, GrantedStays DEF IInv
  <2> QED BY <2>1, <2>2 DEF IInv, GrantsFitTheHost
<1>3. ASSUME NEW l \in Launcher, Check(l)
      PROVE  Count(Granted') + Reserve <= Total + unseen'
  <2>1. stage'[l] \in {"settle", "asleep"}
    BY <1>3 DEF Check, Goes, IInv, TypeOK
  <2> QED BY <1>2, <1>3, <2>1, PassedCheckFits
<1>4. ASSUME NEW l \in Launcher, Retry(l) \/ Down(l)
      PROVE  Count(Granted') + Reserve <= Total + unseen'
  <2>1. Count(Granted) + Reserve <= Total + unseen /\ unseen' = unseen
    BY <1>4 DEF Retry, Down, IInv, GrantsFitTheHost
  <2>2. \/ Count(Granted') = Count(Granted) - 1
        \/ Count(Granted') = Count(Granted) - Granted[l]
    BY <1>4, GivenUpIsFree
  <2>3. Granted[l] \in Nat
    BY GrantedIsCounted DEF IInv
  <2> QED BY <1>1, <2>1, <2>2, <2>3
<1>5. CASE UNCHANGED vars
  BY <1>5 DEF vars, host, IInv, GrantsFitTheHost, Granted
<1>6. CASE \E l \in Launcher :
              \/ Plan(l) \/ Lock(l) \/ Check(l) \/ Return(l) \/ Poll(l) \/ GiveUp(l)
              \/ Up(l) \/ Allocate(l) \/ Retry(l) \/ Down(l)
  <2>1. PICK l \in Launcher : \/ Plan(l) \/ Lock(l) \/ Check(l) \/ Return(l) \/ Poll(l)
                                  \/ GiveUp(l) \/ Up(l) \/ Allocate(l) \/ Retry(l) \/ Down(l)
    BY <1>6
  <2> QED BY <1>2, <1>3, <1>4, <2>1
<1> QED BY <1>5, <1>6 DEF Next, Over

(* A launcher that is not let through hides no more than it did.           *)
LEMMA HidesNoMore ==
  ASSUME TypeOK, NEW k \in Launcher, stage[k] # "start", stage'[k] # "start",
         started'[k] = started[k], resident'[k] \in Nat, resident[k] <= resident'[k]
  PROVE  HiddenOf(k)' \subseteq HiddenOf(k)
<1> SUFFICES ASSUME NEW c \in HiddenOf(k)'
             PROVE  c \in HiddenOf(k)
  OBVIOUS
<1>1. /\ c \in Containers(Through') /\ c \notin Containers(resident') /\ c[1] = k
  BY DEF HiddenOf, Hidden, Containers
<1>2. Through'[k] = started[k] /\ Through[k] = started[k]
  <2>1. started[k] \in Nat
    BY ConstantsAreNatural DEF TypeOK
  <2> QED BY <2>1 DEF Through
<1>3. PICK j \in Launcher : c \in {j} \X (1..Through'[j])
  BY <1>1 DEF Containers
<1>4. c \in {k} \X (1..started[k]) /\ c \notin {k} \X (1..resident'[k])
  BY <1>1, <1>2, <1>3 DEF Containers
<1>5. resident[k] \in Nat
  BY ConstantsAreNatural DEF TypeOK
<1>6. 1..resident[k] \subseteq 1..resident'[k]
  BY <1>5
<1>7. c \in Containers(Through)
  BY <1>2, <1>4 DEF Containers
<1>8. c \notin Containers(resident)
  <2> SUFFICES ASSUME NEW i \in Launcher, c \in {i} \X (1..resident[i])
               PROVE  FALSE
    BY DEF Containers
  <2>1. i = k
    BY <1>1
  <2> QED BY <1>4, <1>6, <2>1
<1> QED BY <1>1, <1>7, <1>8 DEF HiddenOf, Hidden

LEMMA RoomIsLeftStill ==
  ASSUME IInv, [Next]_vars
  PROVE  RoomIsLeft'
<1> DEFINE Waits(k) == stage[k] \in {"ask", "check", "asleep"}
           Room(k)  == Count(Granted) + need[k] + Reserve <= Total + unseen
           Few(k)   == Cardinality(HiddenOf(k)) <= unseen
<1> SUFFICES ASSUME NEW k \in Launcher, Waits(k)'
             PROVE  Room(k)' \/ Few(k)'
  BY DEF RoomIsLeft
<1>1. /\ Count(Granted) \in Nat /\ Reserve \in Nat /\ Total \in Nat /\ need[k] \in Nat
      /\ unseen \in Nat
  BY GrantedIsCounted, ConstantsAreNatural DEF IInv, TypeOK
<1>2. Waits(k) => Room(k) \/ Few(k)
  BY DEF IInv, RoomIsLeft
<1>3. /\ Cardinality(HiddenOf(k)) \in Nat /\ IsFiniteSet(HiddenOf(k))
      /\ Cardinality(HiddenOf(k)) <= Cardinality(Hidden) /\ Cardinality(Hidden) \in Nat
  <2>1. HiddenOf(k) \in SUBSET Hidden
    BY DEF HiddenOf
  <2> QED BY <2>1, HiddenIsCounted DEF IInv
<1>4. ASSUME Waits(k), need'[k] = need[k], unseen' = unseen, started'[k] = started[k],
             resident'[k] \in Nat, resident[k] <= resident'[k],
             Count(Granted') \in Int, Count(Granted') <= Count(Granted)
      PROVE  Room(k)' \/ Few(k)'
  <2>1. HiddenOf(k)' \subseteq HiddenOf(k)
    BY <1>4, HidesNoMore DEF IInv
  <2>2. /\ Cardinality(HiddenOf(k)') <= Cardinality(HiddenOf(k))
        /\ Cardinality(HiddenOf(k)') \in Nat
    BY <1>3, <2>1, FS_Subset, FS_CardinalityType
  <2>3. CASE Room(k)
    <3>1. Count(Granted') + need'[k] + Reserve <= Total + unseen'
      BY <1>1, <1>4, <2>3
    <3> QED BY <3>1 DEF Count, Containers
  <2>4. CASE Few(k)
    BY <1>1, <1>3, <1>4, <2>2, <2>4
  <2> QED BY <1>2, <1>4, <2>3, <2>4
<1>5. resident[k] \in Nat /\ started[k] \in Nat
  BY ConstantsAreNatural DEF IInv, TypeOK
<1>6. ASSUME NEW l \in Launcher, Plan(l)
      PROVE  Room(k)' \/ Few(k)'
  <2>1. Granted' = Granted
    BY <1>6, GrantedStays DEF IInv
  <2>2. CASE k = l
    <3>1. started'[k] = 0 /\ stage'[k] = "ask" /\ unseen' = unseen
      BY <1>6, <2>2 DEF Plan, Goes, host, IInv, TypeOK, AskIsModest
    <3>2. Through'[k] = 0
      BY <3>1 DEF Through
    <3>3. HiddenOf(k)' = {}
      <4> SUFFICES ASSUME NEW c \in HiddenOf(k)' PROVE FALSE
        OBVIOUS
      <4>1. c \in Containers(Through') /\ c[1] = k
        BY DEF HiddenOf, Hidden, Containers
      <4>2. PICK j \in Launcher : c \in {j} \X (1..Through'[j])
        BY <4>1 DEF Containers
      <4> QED BY <3>2, <4>1, <4>2
    <3>4. Cardinality(HiddenOf(k)') = 0
      BY <3>3, FS_EmptySet
    <3> QED BY <1>1, <3>1, <3>4
  <2>3. CASE k # l
    BY <1>1, <1>4, <1>5, <1>6, <2>1, <2>3 DEF Plan, Goes, host, IInv, TypeOK
  <2> QED BY <2>2, <2>3
<1>7. ASSUME NEW l \in Launcher,
             \/ Lock(l) \/ (Check(l) /\ stage'[l] = "asleep") \/ Return(l)
             \/ Poll(l) \/ GiveUp(l) \/ Up(l) \/ Allocate(l)
      PROVE  Room(k)' \/ Few(k)'
  <2>1. Granted' = Granted
    BY <1>7, GrantedStays DEF IInv
  <2>2. /\ need'[k] = need[k] /\ unseen' = unseen
    BY <1>7 DEF Lock, Check, Return, Poll, GiveUp, Up, Allocate, Goes, host, IInv, TypeOK
  <2>3. CASE Up(l)
    <3>1. k # l
      BY <2>3 DEF Up, Goes, IInv, TypeOK
    <3>2. Waits(k) /\ started'[k] = started[k] /\ resident'[k] = resident[k]
      BY <2>3, <3>1 DEF Up, Goes, IInv, TypeOK
    <3> QED BY <1>1, <1>4, <1>5, <2>1, <2>2, <3>2
  <2>4. CASE Allocate(l)
    <3>1. Waits(k) /\ started'[k] = started[k]
      BY <2>4 DEF Allocate
    <3>2. resident'[k] = IF k = l THEN resident[k] + 1 ELSE resident[k]
      BY <2>4 DEF Allocate, IInv, TypeOK
    <3>3. resident'[k] \in Nat /\ resident[k] <= resident'[k]
      BY <1>5, <3>2
    <3> QED BY <1>1, <1>4, <2>1, <2>2, <3>1, <3>3
  <2>5. CASE Lock(l) \/ (Check(l) /\ stage'[l] = "asleep") \/ Return(l) \/ Poll(l) \/ GiveUp(l)
    <3>1. Waits(k)
      BY <2>5 DEF Lock, Check, Return, Poll, GiveUp, Goes, IInv, TypeOK
    <3>2. started' = started /\ resident' = resident
      BY <2>5 DEF Lock, Check, Return, Poll, GiveUp, host
    <3> QED BY <1>1, <1>4, <1>5, <2>1, <2>2, <3>1, <3>2
  <2> QED BY <1>7, <2>3, <2>4, <2>5
<1>8. ASSUME NEW l \in Launcher, Check(l), stage'[l] = "settle"
      PROVE  Room(k)' \/ Few(k)'
  <2>1. /\ k # l /\ unseen' = Missed(l) /\ started' = started /\ resident' = resident
        /\ Waits(k)
    BY <1>8 DEF Check, Goes, host, IInv, TypeOK
  <2>2. HiddenOf(k)' \subseteq HiddenOf(k)
    BY <1>5, <2>1, HidesNoMore DEF IInv
  <2>3. /\ Cardinality(HiddenOf(k)') <= Cardinality(HiddenOf(k))
        /\ Cardinality(HiddenOf(k)') \in Nat
    BY <1>3, <2>2, FS_Subset, FS_CardinalityType
  <2>4. CASE HiddenOf(k) = {}
    <3>1. HiddenOf(k)' = {} /\ Cardinality({}) = 0
      BY <2>2, <2>4, FS_EmptySet
    <3>2. unseen' \in Nat
      BY <1>1, <1>3, <2>1 DEF Missed
    <3>3. Cardinality(HiddenOf(k)') = 0
      BY <3>1
    <3> QED BY <3>2, <3>3
  <2>5. CASE HiddenOf(k) # {}
    <3>1. \E c \in Hidden : c[1] # l
      BY <2>1, <2>5 DEF HiddenOf
    <3>2. unseen' = Cardinality(Hidden)
      BY <2>1, <3>1 DEF Missed
    <3> QED BY <1>3, <2>3, <3>2
  <2> QED BY <2>4, <2>5
<1>9. ASSUME NEW l \in Launcher, Retry(l) \/ Down(l)
      PROVE  Room(k)' \/ Few(k)'
  <2>1. /\ unseen' = unseen
        /\ \/ Retry(l) /\ Count(Granted') = Count(Granted) - 1
           \/ Down(l) /\ Count(Granted') = Count(Granted) - Granted[l]
    BY <1>9, GivenUpIsFree DEF Retry, Down
  <2>2. Granted[l] \in Nat /\ Count(Granted') \in Int
    <3>1. Granted[l] \in Nat
      BY GrantedIsCounted DEF IInv
    <3> QED BY <1>1, <2>1, <3>1
  <2>3. CASE k = l
    <3>1. Retry(l) /\ need'[k] = 1
      BY <1>9, <2>3 DEF Retry, Down, Goes, IInv, TypeOK
    <3>2. Count(Granted') = Count(Granted) - 1
      BY <2>1, <3>1 DEF Retry, Down, Goes, IInv, TypeOK
    <3>3. Count(Granted) + Reserve <= Total + unseen
      BY DEF IInv, GrantsFitTheHost
    <3>4. Count(Granted') + need'[k] + Reserve <= Total + unseen'
      BY <1>1, <2>1, <3>1, <3>2, <3>3
    <3> QED BY <3>4 DEF Count, Containers
  <2>4. CASE k # l
    <3>1. /\ Waits(k) /\ need'[k] = need[k] /\ started'[k] = started[k]
          /\ resident'[k] = resident[k]
      BY <1>9, <2>4 DEF Retry, Down, Goes, IInv, TypeOK
    <3>2. Count(Granted') <= Count(Granted)
      BY <1>1, <2>1, <2>2
    <3> QED BY <1>1, <1>4, <1>5, <2>1, <2>2, <3>1, <3>2
  <2> QED BY <2>3, <2>4
<1>10. CASE UNCHANGED vars
  <2>1. Granted' = Granted /\ Waits(k) /\ UNCHANGED <<need, unseen, started, resident>>
    BY <1>10 DEF vars, host, Granted
  <2> QED BY <1>1, <1>4, <1>5, <2>1
<1>11. ASSUME NEW l \in Launcher, Check(l)
       PROVE  stage'[l] \in {"settle", "asleep"}
  BY <1>11 DEF Check, Goes, IInv, TypeOK
<1>12. CASE \E l \in Launcher :
              \/ Plan(l) \/ Lock(l) \/ Check(l) \/ Return(l) \/ Poll(l) \/ GiveUp(l)
              \/ Up(l) \/ Allocate(l) \/ Retry(l) \/ Down(l)
  <2>1. PICK l \in Launcher : \/ Plan(l) \/ Lock(l) \/ Check(l) \/ Return(l) \/ Poll(l)
                                  \/ GiveUp(l) \/ Up(l) \/ Allocate(l) \/ Retry(l) \/ Down(l)
    BY <1>12
  <2> QED BY <1>6, <1>7, <1>8, <1>9, <1>11, <2>1
<1> QED BY <1>10, <1>12 DEF Next, Over

-----------------------------------------------------------------------------
LEMMA InvariantAtStart ==
  ASSUME Init
  PROVE  IInv
<1>1. TypeOK
  BY ConstantsAreNatural DEF Init, TypeOK
<1>2. LockIsHeld
  BY HostAssumption DEF Init, LockIsHeld
<1>3. AskIsModest /\ OnlyTheStarted /\ RoomIsLeft
  BY DEF Init, AskIsModest, OnlyTheStarted, RoomIsLeft
<1>4. GrantsFitTheHost
  <2>1. Granted = resident /\ \A l \in Launcher : resident[l] = 0
    BY DEF Init, Granted
  <2>2. Containers(resident) = {}
    BY <2>1 DEF Containers
  <2>3. Count(Granted) = 0
    BY <2>1, <2>2, FS_EmptySet DEF Count
  <2>4. unseen = 0
    BY DEF Init
  <2> QED BY <2>3, <2>4, ConstantsAreNatural DEF GrantsFitTheHost
<1> QED BY <1>1, <1>2, <1>3, <1>4 DEF IInv

LEMMA InvariantIsKept ==
  ASSUME IInv, [Next]_vars
  PROVE  IInv'
<1>1. TypeOK' /\ LockIsHeld' /\ AskIsModest' /\ OnlyTheStarted'
  BY TypeIsKept, LockIsHeldStill, AskIsModestStill, OnlyTheStartedStill DEF IInv
<1>2. RoomIsLeft' /\ GrantsFitTheHost'
  BY RoomIsLeftStill, GrantsStillFit
<1> QED BY <1>1, <1>2 DEF IInv

(* Every variable keeps its type: no launcher ever has more than Cap       *)
(* containers up, and none is counted below zero.                          *)
THEOREM TypeCorrect == Spec => []TypeOK
<1>1. IInv => TypeOK
  BY DEF IInv
<1> QED BY InvariantAtStart, InvariantIsKept, <1>1, PTL DEF Spec

(* What memgate.acquire has let through, booted or not, exceeds what the   *)
(* host has beside its reserve by no more than the containers that the     *)
(* last check to miss some could not see: nothing at all if each grant was *)
(* resident before the next check, and otherwise no megabyte is promised   *)
(* twice for another reason, for any number of launchers, waves, polls and *)
(* replaced containers.                                                    *)
THEOREM GrantsFit == Spec => []GrantsFitTheHost
<1>1. IInv => GrantsFitTheHost
  BY DEF IInv
<1> QED BY InvariantAtStart, InvariantIsKept, <1>1, PTL DEF Spec
=============================================================================
