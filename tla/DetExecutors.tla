---------------------------- MODULE DetExecutors ----------------------------
(***************************************************************************)
(* The two same-thread executors of DetExecutors.java.  The trampoline     *)
(* (runHere) replaces the chunk executor: the first execute on a thread    *)
(* becomes its drain loop, and what a task submits is queued behind it.    *)
(* The direct service replaces Util.backgroundExecutor: it runs the task   *)
(* inside the call, because the caller joins the result at once.           *)
(*                                                                         *)
(* A thread is the stack of calls it is in.  Its bottom frame is the       *)
(* thread's own code; a "drain" frame is a runHere in its loop, a "queued" *)
(* frame a task that loop runs, a "direct" frame a task the service runs   *)
(* inline.  What a task does is arbitrary: it may submit, submit and join, *)
(* return or throw.                                                        *)
(***************************************************************************)
EXTENDS Naturals, Sequences

CONSTANTS Thread, Task,
          None            \* no task

ASSUME NoneAssumption == None \notin Task

VARIABLES
  queue,      \* PENDING, one per thread
  draining,   \* DRAINING, one per thread
  stack,      \* the calls each thread is in, the innermost last
  done,       \* the tasks that have returned or thrown
  used        \* the tasks that were ever submitted

vars == <<queue, draining, stack, done, used>>

Frame == [kind : {"main", "drain", "queued", "direct"},
          task : Task \cup {None},
          joins : Task \cup {None}]    \* the future this frame is joining

Call(kind, x) == [kind |-> kind, task |-> x, joins |-> None]

Depth(t) == Len(stack[t])
Top(t)   == stack[t][Depth(t)]
Push(s, frame) == Append(s, frame)
Pop(s)   == SubSeq(s, 1, Len(s) - 1)

-----------------------------------------------------------------------------
Init ==
  /\ queue = [t \in Thread |-> <<>>]
  /\ draining = [t \in Thread |-> FALSE]
  /\ stack = [t \in Thread |-> <<Call("main", None)>>]
  /\ done = {}
  /\ used = {}

(* The innermost frame is code that can go on: no loop, and no join of a   *)
(* future that is not complete.                                            *)
Acting(t) ==
  /\ Top(t).kind # "drain"
  /\ Top(t).joins \in done \cup {None}

(* Mutant: a nested submission starts a loop of its own.                   *)
runHere_nests(t, x) ==
  /\ queue' = [queue EXCEPT ![t] = Append(@, x)]
  /\ draining' = [draining EXCEPT ![t] = TRUE]
  /\ stack' = [stack EXCEPT ![t] = Push(@, Call("drain", None))]
  /\ UNCHANGED done

(* Mutant: a task goes to the head of the queue.                           *)
runHere_lastFirst(t, x) ==
  /\ queue' = [queue EXCEPT ![t] = <<x>> \o @]
  /\ IF draining[t]
     THEN UNCHANGED <<draining, stack>>
     ELSE /\ draining' = [draining EXCEPT ![t] = TRUE]
          /\ stack' = [stack EXCEPT ![t] = Push(@, Call("drain", None))]
  /\ UNCHANGED done

(* runHere, up to the point where it returns or becomes the loop.          *)
runHere(t, x) ==
  /\ queue' = [queue EXCEPT ![t] = Append(@, x)]
  /\ IF draining[t]
     THEN UNCHANGED <<draining, stack>>
     ELSE /\ draining' = [draining EXCEPT ![t] = TRUE]
          /\ stack' = [stack EXCEPT ![t] = Push(@, Call("drain", None))]
  /\ UNCHANGED done

Submit(t, x) ==
  /\ x \notin used
  /\ Acting(t)
  /\ used' = used \cup {x}
  /\ runHere(t, x)

(* The loop polls its queue and runs what it finds.                        *)
RunNext(t) ==
  /\ Top(t).kind = "drain"
  /\ queue[t] # <<>>
  /\ queue' = [queue EXCEPT ![t] = Tail(@)]
  /\ stack' = [stack EXCEPT ![t] = Push(@, Call("queued", Head(queue[t])))]
  /\ UNCHANGED <<draining, done, used>>

(* Mutant: the flag is removed where it has to be FALSE again.             *)
LoopEnds_noFlag(t) ==
  /\ Top(t).kind = "drain"
  /\ queue[t] = <<>>
  /\ stack' = [stack EXCEPT ![t] = Pop(@)]
  /\ draining' = [draining EXCEPT ![t] = None]
  /\ UNCHANGED <<queue, done, used>>

(* The queue is empty: the loop ends and its finally block runs.           *)
LoopEnds(t) ==
  /\ Top(t).kind = "drain"
  /\ queue[t] = <<>>
  /\ stack' = [stack EXCEPT ![t] = Pop(@)]
  /\ draining' = [draining EXCEPT ![t] = FALSE]
  /\ UNCHANGED <<queue, done, used>>

(* SameThreadService.execute.                                              *)
executeDirect(t, x) ==
  /\ stack' = [stack EXCEPT ![t] = Push([@ EXCEPT ![Len(@)].joins = x], Call("direct", x))]
  /\ UNCHANGED <<queue, draining, done>>

(* supplyAsync on the background executor, and the join of its future.     *)
SupplyAndJoin(t, x) ==
  /\ x \notin used
  /\ Acting(t)
  /\ used' = used \cup {x}
  /\ executeDirect(t, x)

(* A task returns to its caller.                                           *)
Return(t) ==
  /\ Acting(t)
  /\ Top(t).kind \in {"queued", "direct"}
  /\ done' = done \cup {Top(t).task}
  /\ stack' = [stack EXCEPT ![t] = Pop(@)]
  /\ UNCHANGED <<queue, draining, used>>

(* A task throws: the loop logs and goes on with the next task; on the     *)
(* direct service the future takes the exception.                          *)
Throw(t) ==
  /\ Acting(t)
  /\ Top(t).kind \in {"queued", "direct"}
  /\ done' = done \cup {Top(t).task}
  /\ stack' = [stack EXCEPT ![t] = Pop(@)]
  /\ UNCHANGED <<queue, draining, used>>

(* Every task was submitted and every thread is back in its own code.      *)
Quiescent ==
  /\ used = Task
  /\ \A t \in Thread : Depth(t) = 1
  /\ UNCHANGED vars

Next ==
  \/ \E t \in Thread :
       \/ \E x \in Task : Submit(t, x) \/ SupplyAndJoin(t, x)
       \/ RunNext(t) \/ LoopEnds(t) \/ Return(t) \/ Throw(t)
  \/ Quiescent

(* A running thread executes its loop, and the tasks terminate.            *)
Fairness ==
  \A t \in Thread : /\ WF_vars(RunNext(t))
                    /\ WF_vars(LoopEnds(t))
                    /\ WF_vars(Return(t) \/ Throw(t))

Spec == Init /\ [][Next]_vars /\ Fairness

-----------------------------------------------------------------------------
(* Every variable has its type.                                            *)
TypeOK ==
  /\ queue \in [Thread -> Seq(Task)]
  /\ draining \in [Thread -> BOOLEAN]
  /\ stack \in [Thread -> Seq(Frame)]
  /\ done \subseteq used
  /\ used \subseteq Task

FramesOf(t, kind) == {i \in 1..Depth(t) : stack[t][i].kind = kind}

(* The flag says exactly that the thread is in its one loop, whatever      *)
(* threw; so nothing is ever queued where nobody will run it.              *)
OneLoop ==
  \A t \in Thread :
    /\ draining[t] <=> FramesOf(t, "drain") # {}
    /\ \A i, j \in FramesOf(t, "drain") : i = j
    /\ queue[t] # <<>> => draining[t]

(* The trampoline never nests: a queued task is not run inside another,    *)
(* however deep the direct calls between them are.                         *)
DepthStaysAtOne ==
  \A t \in Thread : \A i, j \in FramesOf(t, "queued") : i = j

(* A thread never waits on itself: when control is back at a frame, the    *)
(* future that frame joins is complete.                                    *)
NeverJoinsItself ==
  \A t \in Thread : Top(t).joins \in done \cup {None}

(* What the trampoline is for: one loop, no task inside another, and no    *)
(* thread that waits for what only it could run.                           *)
TrampolineHolds == OneLoop /\ DepthStaysAtOne /\ NeverJoinsItself

(* Tasks run one at a time, in submission order, and all of them do.       *)
RunningQueued(t) ==
  IF FramesOf(t, "queued") = {} THEN None
  ELSE stack[t][CHOOSE i \in FramesOf(t, "queued") : TRUE].task

Serial == INSTANCE SerialExecutor WITH
  waiting <- queue,
  current <- [t \in Thread |-> RunningQueued(t)]

RunsInSubmissionOrder == Serial!Spec
=============================================================================
