--------------------------- MODULE SerialExecutor ---------------------------
(***************************************************************************)
(* What the chunk pipeline relies on in the executor detmc gives it: each  *)
(* thread runs the tasks it was given one at a time, in the order they     *)
(* were given, and gets through all of them.                               *)
(***************************************************************************)
EXTENDS Sequences

CONSTANTS Thread, Task, None

VARIABLES waiting,   \* waiting[t]: the tasks t has still to run, in order
          current    \* current[t]: the task t is running, or None

vars == <<waiting, current>>

Init ==
  /\ waiting = [t \in Thread |-> <<>>]
  /\ current = [t \in Thread |-> None]

Give(t, x) ==
  /\ waiting' = [waiting EXCEPT ![t] = Append(@, x)]
  /\ UNCHANGED current

Begin(t) ==
  /\ current[t] = None
  /\ waiting[t] # <<>>
  /\ current' = [current EXCEPT ![t] = Head(waiting[t])]
  /\ waiting' = [waiting EXCEPT ![t] = Tail(@)]

End(t) ==
  /\ current[t] # None
  /\ current' = [current EXCEPT ![t] = None]
  /\ UNCHANGED waiting

Next == \E t \in Thread : (\E x \in Task : Give(t, x)) \/ Begin(t) \/ End(t)

Spec ==
  /\ Init
  /\ [][Next]_vars
  /\ \A t \in Thread : WF_vars(Begin(t)) /\ WF_vars(End(t))
=============================================================================
