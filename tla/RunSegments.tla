----------------------------- MODULE RunSegments -----------------------------
(***************************************************************************)
(* The segment runner (run.py, Run.execute): boot and set up replicas,     *)
(* advance them segment by segment with one thread each, reseed and read   *)
(* the detectors at every boundary, record, tear down, write DONE.         *)
(*                                                                         *)
(* Times are ticks since setup.  What a thread raises ends that thread and *)
(* nothing else; what the main thread raises, Ctrl-C included, goes        *)
(* through the finally block while the daemon threads still run.           *)
(***************************************************************************)
EXTENDS Integers, FiniteSetsExt, SequencesExt

CONSTANTS
  Replica, Detector,
  Ticks,          \* run.ticks
  Interval,       \* the segment length execute settles on
  Schedule,       \* the ticks of reseed_schedule, ascending
  StopOnHit,      \* detector.stop_on_hit: "never", "any" or "all"
  Keep,           \* --keep
  None            \* no DONE file

ASSUME RunAssumption ==
  /\ IsFiniteSet(Replica) /\ Ticks \in Nat \ {0} /\ Interval \in Nat \ {0}
  /\ Schedule \in Seq(Nat \ {0})
  /\ \A i, j \in DOMAIN Schedule : i < j => Schedule[i] < Schedule[j]
  /\ Detector # {} /\ StopOnHit \in {"never", "any", "all"} /\ Keep \in BOOLEAN

VARIABLES
  main,         \* what the main thread is at
  ready,        \* replicas that are booted, or set up
  failed,       \* replicas with a setup_error
  tick,
  thread,       \* what each replica's thread is at
  time, fired, branched,     \* each server: gametime, detectors hit, reseeds
  hits, reseeded, done,      \* what the runner keeps of each replica
  results, status, marker,   \* records written, exit status, DONE
  faulty        \* history: a goto missed its target, or a thread died

segment == <<thread, time, fired, branched, hits, reseeded, done, faulty>>
vars    == <<main, ready, failed, tick, segment, results, status, marker>>

Enter(r, at) == thread' = [thread EXCEPT ![r] = at]
Joined == \A r \in Replica : thread[r] = "ended"

-----------------------------------------------------------------------------
Init ==
  /\ main = "up" /\ ready = {} /\ failed = {} /\ tick = 0
  /\ thread = [r \in Replica |-> "ended"]
  /\ time = [r \in Replica |-> 0]
  /\ fired = [r \in Replica |-> {}] /\ hits = [r \in Replica |-> {}]
  /\ branched = [r \in Replica |-> <<>>] /\ reseeded = [r \in Replica |-> {}]
  /\ done = [r \in Replica |-> FALSE] /\ faulty = [r \in Replica |-> FALSE]
  /\ results = <<>> /\ status = 0 /\ marker = None

(* The first compose up comes before the try block.                        *)
ComposeUp ==
  /\ main = "up"
  /\ main' \in {"boot", "exited"}
  /\ UNCHANGED <<ready, failed, tick, segment, results, status, marker>>

(* One after the other, with one retry from a clean data directory.        *)
Boot(r) ==
  /\ main = "boot" /\ r \notin ready
  /\ ready' = ready \cup {r}
  /\ UNCHANGED <<main, failed, tick, segment, results, status, marker>>

SetUp ==
  /\ main = "boot" /\ ready = Replica
  /\ main' = "setup" /\ ready' = {}
  /\ UNCHANGED <<failed, tick, segment, results, status, marker>>

(* Setup threads note their exception.                                     *)
SetUpEnds(r) ==
  /\ main = "setup" /\ r \notin ready
  /\ ready' = ready \cup {r}
  /\ failed' \in {failed, failed \cup {r}}
  /\ UNCHANGED <<main, tick, segment, results, status, marker>>

SetUpJoined ==
  /\ main = "setup" /\ ready = Replica /\ failed = {}
  /\ main' = "loop"
  /\ UNCHANGED <<ready, failed, tick, segment, results, status, marker>>

-----------------------------------------------------------------------------
(* Mutant: only the detectors end the loop.                                *)
MoreSegments_noTicks == \E r \in Replica : ~done[r]

MoreSegments == tick < Ticks /\ \E r \in Replica : ~done[r]

(* Mutant: the last segment is not cut to what is left of the run.         *)
StartSegment_uncut ==
  /\ main = "loop" /\ Joined /\ MoreSegments
  /\ tick' = tick + Interval
  /\ thread' = [r \in Replica |-> IF done[r] THEN "ended" ELSE "goto"]
  /\ UNCHANGED <<main, ready, failed, time, fired, branched, hits, reseeded, done, faulty,
                 results, status, marker>>

StartSegment ==
  /\ main = "loop" /\ Joined /\ MoreSegments
  /\ tick' = Min({tick + Interval, Ticks})
  /\ thread' = [r \in Replica |-> IF done[r] THEN "ended" ELSE "goto"]
  /\ UNCHANGED <<main, ready, failed, time, fired, branched, hits, reseeded, done, faulty,
                 results, status, marker>>

(* A server ticks to t, and detectors may fire on the way.                 *)
TicksTo(r, t) ==
  /\ time' = [time EXCEPT ![r] = t]
  /\ \E new \in SUBSET Detector :
       /\ t = time[r] => new = {}
       /\ fired' = [fired EXCEPT ![r] = @ \cup new]

(* goto: the sprint and the step land on the target; a stall short of it   *)
(* or a sprint past it is only logged.                                     *)
goto(r) ==
  /\ thread[r] = "goto"
  /\ \/ TicksTo(r, Max({time[r], tick})) /\ faulty' = [faulty EXCEPT ![r] = @ \/ time[r] > tick]
     \/ /\ \E t \in (time[r]..(tick + 1)) \ {tick} : TicksTo(r, t)
        /\ faulty' = [faulty EXCEPT ![r] = TRUE]
  /\ Enter(r, "reseed")
  /\ UNCHANGED <<main, ready, failed, tick, branched, hits, reseeded, done, results, status, marker>>

(* Mutant: only a reseed of this very boundary is due.                     *)
Due_exact(r) == {i \in DOMAIN Schedule : Schedule[i] = tick /\ Schedule[i] \notin reseeded[r]}

Due(r) == {i \in DOMAIN Schedule : Schedule[i] <= tick /\ Schedule[i] \notin reseeded[r]}

reseed(r) ==
  /\ thread[r] = "reseed"
  /\ IF Due(r) = {}
     THEN Enter(r, "read") /\ UNCHANGED <<branched, reseeded>>
     ELSE LET at == Schedule[Min(Due(r))]
          IN /\ branched' = [branched EXCEPT ![r] = Append(@, [at |-> at, time |-> time[r]])]
             /\ reseeded' = [reseeded EXCEPT ![r] = @ \cup {at}]
             /\ UNCHANGED thread
  /\ UNCHANGED <<main, ready, failed, tick, time, fired, hits, done, faulty, results, status, marker>>

(* read_detector, and whether the replica is through.                      *)
read_detector(r) ==
  /\ thread[r] = "read"
  /\ hits' = [hits EXCEPT ![r] = @ \cup fired[r]]
  /\ done' = [done EXCEPT ![r] = @ \/ (StopOnHit = "any" /\ fired[r] # {})
                                   \/ (StopOnHit = "all" /\ fired[r] = Detector)]
  /\ Enter(r, "ended")
  /\ UNCHANGED <<main, ready, failed, tick, time, fired, branched, reseeded, faulty,
                 results, status, marker>>

(* An rcon call raises in the thread, and nobody notes it.                 *)
ThreadDies(r) ==
  /\ thread[r] # "ended"
  /\ Enter(r, "ended")
  /\ faulty' = [faulty EXCEPT ![r] = TRUE]
  /\ UNCHANGED <<main, ready, failed, tick, time, fired, branched, hits, reseeded, done,
                 results, status, marker>>

(* The server goes on with a step that its thread gave up waiting for.     *)
TicksOn(r) ==
  /\ faulty[r] /\ time[r] < tick
  /\ TicksTo(r, time[r] + 1)
  /\ UNCHANGED <<main, ready, failed, tick, thread, branched, hits, reseeded, done, faulty,
                 results, status, marker>>

-----------------------------------------------------------------------------
LoopEnds ==
  /\ main = "loop" /\ Joined /\ ~MoreSegments
  /\ main' = "record"
  /\ UNCHANGED <<ready, failed, tick, segment, results, status, marker>>

_record(r) ==
  /\ main = "record"
  /\ \A k \in DOMAIN results : results[k].replica # r
  /\ results' = Append(results, [replica |-> r, hits |-> hits[r], reseeds |-> reseeded[r]])
  /\ UNCHANGED <<main, ready, failed, tick, segment, status, marker>>

Recorded ==
  /\ main = "record" /\ Len(results) = Cardinality(Replica)
  /\ main' = "finally"
  /\ UNCHANGED <<ready, failed, tick, segment, results, status, marker>>

(* Mutant: an exception is not noted.                                      *)
Raise_unnoted ==
  /\ main \in {"boot", "setup", "loop", "record"}
  /\ main' = "finally"
  /\ UNCHANGED <<ready, failed, tick, segment, results, status, marker>>

(* Anything the main thread does may raise.                                *)
Raise ==
  /\ main \in {"boot", "setup", "loop", "record"}
  /\ main' = "finally" /\ status' = 1
  /\ UNCHANGED <<ready, failed, tick, segment, results, marker>>

(* compose down is not checked, but it has a timeout that raises.          *)
Teardown ==
  /\ main = "finally"
  /\ main' = "done" \/ (~Keep /\ main' = "exited")
  /\ UNCHANGED <<ready, failed, tick, segment, results, status, marker>>

write_done ==
  /\ main = "done"
  /\ marker' = [status |-> status, hits |-> hits]
  /\ main' = "exited"
  /\ UNCHANGED <<ready, failed, tick, segment, results, status>>

Exited == main = "exited" /\ UNCHANGED vars

Main == \/ ComposeUp \/ SetUp \/ SetUpJoined \/ StartSegment \/ LoopEnds \/ Recorded
        \/ Teardown \/ write_done
        \/ \E r \in Replica : Boot(r) \/ SetUpEnds(r) \/ _record(r)

(* Daemon threads end with the process.                                    *)
Thread(r) == main # "exited" /\ (goto(r) \/ reseed(r) \/ read_detector(r) \/ ThreadDies(r))
Server(r) == main # "exited" /\ TicksOn(r)

Next == Main \/ Raise \/ (\E r \in Replica : Thread(r) \/ Server(r)) \/ Exited

(* The main thread goes on, and raises when a setup failed; every wait of  *)
(* a thread is bounded, and no server has to go on.                        *)
Spec ==
  /\ Init /\ [][Next]_vars
  /\ WF_vars(Main \/ (Raise /\ failed # {}))
  /\ \A r \in Replica : WF_vars(Thread(r))

-----------------------------------------------------------------------------
(* The shape of every variable.                                            *)
TypeOK ==
  /\ main \in {"up", "boot", "setup", "loop", "record", "finally", "done", "exited"}
  /\ ready \subseteq Replica /\ failed \subseteq Replica
  /\ tick \in 0..Ticks /\ time \in [Replica -> 0..(Ticks + 1)]
  /\ thread \in [Replica -> {"goto", "reseed", "read", "ended"}]
  /\ fired \in [Replica -> SUBSET Detector] /\ hits \in [Replica -> SUBSET Detector]
  /\ reseeded \in [Replica -> SUBSET ToSet(Schedule)]
  /\ branched \in [Replica -> Seq([at : ToSet(Schedule), time : 0..(Ticks + 1)])]
  /\ done \in [Replica -> BOOLEAN] /\ faulty \in [Replica -> BOOLEAN]
  /\ results \in Seq([replica : Replica, hits : SUBSET Detector,
                      reseeds : SUBSET ToSet(Schedule)])
  /\ Len(results) <= Cardinality(Replica)
  /\ status \in {0, 1}
  /\ marker \in {None} \cup [status : {0, 1}, hits : [Replica -> SUBSET Detector]]

(* The first boundary at or after a tick.                                  *)
Boundary(at) == Min({t \in {k * Interval : k \in 0..Ticks} \cup {Ticks} : t >= at})

(* On a replica that never missed a target, every reseed due at a boundary *)
(* the replica has left lands there, once, in the order of the schedule:   *)
(* the stream of the run is a function of the manifest.                    *)
ReseedsOnSchedule ==
  \A r \in Replica : ~faulty[r] =>
    /\ \A i \in DOMAIN branched[r] : branched[r][i] = [at |-> Schedule[i],
                                                       time |-> Boundary(Schedule[i])]
    /\ thread[r] \in {"ended", "read"} /\ main = "loop" /\ ~done[r] =>
         Len(branched[r]) = Cardinality({i \in DOMAIN Schedule : Schedule[i] <= tick})

(* Replicas that land where they are sent are never further apart than one *)
(* segment while they run.                                                 *)
InLockStep ==
  \A r, s \in Replica :
    ~faulty[r] /\ ~faulty[s] /\ ~done[r] /\ ~done[s] => time[r] - time[s] <= Interval

(* Replicas that reach their targets take the same reseeds at the same     *)
(* ticks and stay together.                                                *)
InStep == ReseedsOnSchedule /\ InLockStep

(* DONE with status 0 means that every replica is in results.jsonl, with   *)
(* the hits DONE counts and, if nothing went wrong with it, every hit its  *)
(* server saw.                                                             *)
ReportIsComplete ==
  marker # None /\ marker.status = 0 =>
    \A r \in Replica :
      /\ \E k \in DOMAIN results : results[k].replica = r /\ results[k].hits = marker.hits[r]
      /\ ~faulty[r] => marker.hits[r] = fired[r]

(* A run comes to its end, whatever dies on the way.                       *)
RunEnds == <>(main = "exited")
=============================================================================
