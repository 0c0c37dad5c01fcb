--------------------------- MODULE DurableStream ---------------------------
(***************************************************************************)
(* What detmc promises about its seed source across restarts, without the  *)
(* lock, the sidecar's temporary file, the start-up phases or the numbers. *)
(* A position in the seed stream is a timeline: the launch-time key, the   *)
(* branch (the argument of the last reseed, or None), the draws taken from *)
(* that branch and the number of entities ever seeded.  A life of the      *)
(* server moves along one timeline, a save makes the position it began at  *)
(* durable, and the next life continues from the durable position when     *)
(* that belongs to the same launch-time key.                               *)
(***************************************************************************)
EXTENDS Naturals

CONSTANTS Seed,        \* the 64-bit seeds
          None,        \* the branch of a timeline that was never reseeded
          ReadErrors   \* whether a life may find the save unreadable

Position == [base : Seed, branch : Seed \cup {None}, drawn : Nat, ordinal : Nat]

NoPosition == [base |-> None]   \* the server is down, or nothing is durable

VARIABLES live,     \* where the running server is
          durable,  \* where the next life may continue from
          pending   \* the position a save in progress will make durable

vars == <<live, durable, pending>>

Start(base) == [base |-> base, branch |-> None, drawn |-> 0, ordinal |-> 0]

Init ==
  /\ live = NoPosition
  /\ durable \in Position \cup {NoPosition}
  /\ pending = NoPosition

MoveTo(p) ==
  /\ live' = p
  /\ UNCHANGED <<durable, pending>>

(* A life whose key wrote the save continues it; every other life starts   *)
(* its own timeline.                                                       *)
Launch(base) ==
  /\ live = NoPosition
  /\ MoveTo(IF durable.base = base THEN durable ELSE Start(base))

LaunchUnreadable(base) ==
  /\ ReadErrors
  /\ live = NoPosition
  /\ MoveTo(Start(base))

DrawShared == live # NoPosition /\ MoveTo([live EXCEPT !.drawn = @ + 1])
DrawEntity == live # NoPosition /\ MoveTo([live EXCEPT !.ordinal = @ + 1])

(* A reseed starts a branch; the entities already seeded stay counted.     *)
Branch(n) ==
  /\ live # NoPosition
  /\ MoveTo([base |-> live.base, branch |-> n, drawn |-> 0, ordinal |-> live.ordinal])

(* The stream moves on while a save is in progress: the save keeps the     *)
(* position it began with, whole, or is abandoned.                         *)
BeginSave ==
  /\ live # NoPosition
  /\ pending = NoPosition
  /\ pending' = live
  /\ UNCHANGED <<live, durable>>

EndSave ==
  /\ pending # NoPosition
  /\ durable' \in {durable, pending}
  /\ pending' = NoPosition
  /\ UNCHANGED live

Stop ==
  /\ live' = NoPosition
  /\ pending' = NoPosition
  /\ UNCHANGED durable

Next ==
  \/ \E s \in Seed : Launch(s) \/ LaunchUnreadable(s) \/ Branch(s)
  \/ DrawShared
  \/ DrawEntity
  \/ BeginSave
  \/ EndSave
  \/ Stop

Spec == Init /\ [][Next]_vars
=============================================================================
