-------------------------------- MODULE Beam --------------------------------
(***************************************************************************)
(* What the branching search promises, with the waves, the files and the   *)
(* process left out.  At any moment there is a beam of worlds the search   *)
(* can go on from.  The only thing that ever happens to it is that it is   *)
(* replaced by at least two worlds, each one leg further than a world of   *)
(* the beam before it.  Nothing, a crash included, shrinks it, rewinds it  *)
(* or puts a world in it that did not grow out of it.                      *)
(*                                                                         *)
(* A world is its history: the base seed it was launched with, then the    *)
(* reseed of every resume point it went through.                           *)
(***************************************************************************)
EXTENDS Naturals, Sequences, FiniteSets

CONSTANT KeepTop        \* the beam is never wider than this, at least 2
VARIABLE beam

(* The worlds one leg past the beam B; a launch when there is no beam yet. *)
OneLegPast(h, B) ==
  \/ B = {} /\ Len(h) = 1
  \/ Len(h) > 1 /\ SubSeq(h, 1, Len(h) - 1) \in B

Init == beam = {}

Advance ==
  /\ Cardinality(beam') \in 2..KeepTop
  /\ \A h \in beam' : OneLegPast(h, beam)

Spec == Init /\ [][Advance]_beam
=============================================================================
