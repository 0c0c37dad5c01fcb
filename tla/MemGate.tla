------------------------------- MODULE MemGate -------------------------------
(***************************************************************************)
(* The host memory gate (memgate.py) and the launchers that go through it: *)
(* the search and the runner, which wait for ever, and shell scripts with  *)
(* a --timeout.  A launcher plans how many containers it starts at once,   *)
(* asks for their memory, starts them, may replace one that failed to boot *)
(* while the others keep running, and takes them all down.                 *)
(*                                                                         *)
(* Memory is counted in containers: every one costs the same, and its      *)
(* memory is gone from MemAvailable only some time after it was started.   *)
(* A Free below zero is the OOM kill the gate is there to prevent.         *)
(***************************************************************************)
EXTENDS Integers, FiniteSetsExt

CONSTANTS
  Launcher,
  Patient,       \* the launchers without a timeout: branch.py and run.py
  None,          \* nobody
  Total,         \* MemAvailable of the host with no container up
  Reserve,       \* reserve_mb
  Cap,           \* what a launcher would like to start at once
  Patience,      \* how often a launcher with a timeout polls
  MaxRetries     \* containers a launcher replaces: two a node in branch.py

ASSUME HostAssumption ==
  /\ IsFiniteSet(Launcher) /\ Patient \subseteq Launcher /\ None \notin Launcher
  /\ {Total, Reserve, Patience, MaxRetries} \subseteq Nat
  /\ Cap \in 1..(Total - Reserve)

VARIABLES
  stage,        \* what each launcher is at
  need,         \* what it asks for
  started,      \* the containers it has up
  resident,     \* how many of them have their memory
  lock,         \* who holds the file lock
  waited, retries,
  unseen        \* history: the containers Free did not show when it mattered

host == <<started, resident>>
vars == <<stage, need, host, lock, waited, retries, unseen>>

(* How many containers n[l] for each launcher l are.                       *)
Containers(n) == UNION {{l} \X (1..n[l]) : l \in Launcher}
Count(n)      == Cardinality(Containers(n))

(* mem_available_mb.                                                       *)
Free == Total - Count(resident)

Goes(l, from, to) == stage[l] = from /\ stage' = [stage EXCEPT ![l] = to]

-----------------------------------------------------------------------------
Init ==
  /\ stage = [l \in Launcher |-> "plan"] /\ need = [l \in Launcher |-> 1]
  /\ started = [l \in Launcher |-> 0] /\ resident = [l \in Launcher |-> 0]
  /\ lock = None /\ unseen = 0
  /\ waited = [l \in Launcher |-> 0] /\ retries = [l \in Launcher |-> 0]

(* Mutant: no container fits, so none is asked for.                        *)
budget_nodes_none == LET fits == Max({0, Free - Reserve}) IN Min({Cap, fits})

budget_nodes == LET fits == Max({0, Free - Reserve}) IN Min({Cap, Max({1, fits})})

(* A search narrows its waves to what fits now; the others ask for it all. *)
Plan(l) ==
  /\ Goes(l, "plan", "ask")
  /\ \E n \in {budget_nodes, Cap} : need' = [need EXCEPT ![l] = n]
  /\ UNCHANGED <<host, lock, waited, retries, unseen>>

(* Mutant: everybody opens a lock file of its own.                         *)
Lock_shared(l) ==
  /\ Goes(l, "ask", "check")
  /\ lock' = l
  /\ UNCHANGED <<need, host, waited, retries, unseen>>

Lock(l) ==
  /\ Goes(l, "ask", "check")
  /\ lock = None /\ lock' = l
  /\ UNCHANGED <<need, host, waited, retries, unseen>>

(* The containers that were let through and do not have their memory yet.  *)
Through == [l \in Launcher |-> started[l] + IF stage[l] = "start" THEN need[l] ELSE 0]
Hidden  == Containers(Through) \ Containers(resident)

(* A launcher that replaces a container has left the room for it: its      *)
(* check misses nothing unless another one has something on the way.       *)
Missed(l) == IF \E c \in Hidden : c[1] # l THEN Cardinality(Hidden) ELSE unseen

Check(l) ==
  /\ \/ /\ Free >= need[l] + Reserve
        /\ Goes(l, "check", "settle")
        /\ unseen' = Missed(l)
        /\ UNCHANGED lock
     \/ /\ Free < need[l] + Reserve
        /\ Goes(l, "check", "asleep")
        /\ lock' = None
        /\ UNCHANGED unseen
  /\ UNCHANGED <<need, host, waited, retries>>

(* acquire returns after the settle time, and the lock goes with it: the   *)
(* container is only started by the caller.                                *)
Return(l) ==
  /\ Goes(l, "settle", "start")
  /\ lock' = None
  /\ UNCHANGED <<need, host, waited, retries, unseen>>

Poll(l) ==
  /\ Goes(l, "asleep", "ask")
  /\ IF l \in Patient
     THEN UNCHANGED waited
     ELSE waited[l] < Patience /\ waited' = [waited EXCEPT ![l] = @ + 1]
  /\ UNCHANGED <<need, host, lock, retries, unseen>>

GiveUp(l) ==
  /\ l \notin Patient /\ waited[l] = Patience
  /\ Goes(l, "asleep", "refused")
  /\ UNCHANGED <<need, host, lock, waited, retries, unseen>>

-----------------------------------------------------------------------------
(* compose up.                                                             *)
Up(l) ==
  /\ Goes(l, "start", "up")
  /\ started' = [started EXCEPT ![l] = @ + need[l]]
  /\ UNCHANGED <<need, resident, lock, waited, retries, unseen>>

(* A JVM takes its memory.                                                 *)
Allocate(l) ==
  /\ resident[l] < started[l]
  /\ resident' = [resident EXCEPT ![l] = @ + 1]
  /\ UNCHANGED <<stage, need, started, lock, waited, retries, unseen>>

(* Mutant: the failed container is not removed first.                      *)
Retry_noRemoval(l) ==
  /\ l \in Patient /\ retries[l] < MaxRetries
  /\ Goes(l, "up", "ask")
  /\ need' = [need EXCEPT ![l] = 1]
  /\ retries' = [retries EXCEPT ![l] = @ + 1]
  /\ UNCHANGED <<host, lock, waited, unseen>>

(* A node failed to boot: its container is removed, whether it had its     *)
(* memory or not, and asked for again; the others of the wave stay up.     *)
Retry(l) ==
  /\ l \in Patient /\ retries[l] < MaxRetries
  /\ Goes(l, "up", "ask")
  /\ started' = [started EXCEPT ![l] = @ - 1]
  /\ \E left \in {resident[l], resident[l] - 1} \cap 0..started'[l] :
       resident' = [resident EXCEPT ![l] = left]
  /\ need' = [need EXCEPT ![l] = 1]
  /\ retries' = [retries EXCEPT ![l] = @ + 1]
  /\ UNCHANGED <<lock, waited, unseen>>

(* compose down, which never waits for the gate.                           *)
Down(l) ==
  /\ Goes(l, "up", "over")
  /\ started' = [started EXCEPT ![l] = 0]
  /\ resident' = [resident EXCEPT ![l] = 0]
  /\ UNCHANGED <<need, lock, waited, retries, unseen>>

Over == /\ \A l \in Launcher : stage[l] \in {"over", "refused"}
        /\ UNCHANGED vars

Next ==
  \/ \E l \in Launcher :
       \/ Plan(l) \/ Lock(l) \/ Check(l) \/ Return(l) \/ Poll(l) \/ GiveUp(l)
       \/ Up(l) \/ Allocate(l) \/ Retry(l) \/ Down(l)
  \/ Over

(* Launchers run, JVMs allocate, every wave comes down in the end, and     *)
(* flock wakes its waiters in turn.  No container has to fail.             *)
Fairness ==
  \A l \in Launcher :
    /\ WF_vars(Plan(l) \/ Check(l) \/ Return(l) \/ Poll(l) \/ GiveUp(l) \/ Up(l))
    /\ WF_vars(Allocate(l)) /\ WF_vars(Down(l)) /\ SF_vars(Lock(l))

Spec == Init /\ [][Next]_vars /\ Fairness

-----------------------------------------------------------------------------
(* The shape of every variable; nobody asks for nothing.                   *)
TypeOK ==
  /\ stage \in [Launcher -> {"plan", "ask", "check", "settle", "asleep", "start",
                             "up", "over", "refused"}]
  /\ need \in [Launcher -> 1..Cap]
  /\ started \in [Launcher -> 0..Cap] /\ resident \in [Launcher -> 0..Cap]
  /\ lock \in Launcher \cup {None}
  /\ waited \in [Launcher -> 0..Patience] /\ retries \in [Launcher -> 0..MaxRetries]
  /\ unseen \in Nat

Granted ==
  [l \in Launcher |-> started[l] + IF stage[l] \in {"settle", "start"} THEN need[l] ELSE 0]

(* What was granted fits the host beside its reserve, but for the          *)
(* containers a check could not see: the lock is dropped before a granted  *)
(* container has its memory, and then the next check counts that memory    *)
(* again.  Nothing else is ever promised twice, however launchers, polls,  *)
(* replacements and slow boots interleave.                                 *)
GrantsFitTheHost ==
  Count(Granted) + Reserve <= Total + unseen

(* Unless memory was promised twice, every launcher gets its answer:       *)
(* holding a wave and waiting for the memory of one more container never   *)
(* locks up.                                                               *)
EveryoneIsAnswered ==
  \/ <>(unseen > 0)
  \/ \A l \in Launcher :
       stage[l] \in {"ask", "check", "asleep"} ~> stage[l] \in {"start", "refused"}
===============================================================================
