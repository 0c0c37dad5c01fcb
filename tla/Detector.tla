------------------------------ MODULE Detector ------------------------------
(***************************************************************************)
(* The generated detector datapack (run.py, detector_pack) on the          *)
(* scoreboard objective `detmc` it keeps everything in.  Its functions map *)
(* a scoreboard to a scoreboard.                                           *)
(*                                                                         *)
(* An `entity_count` detector compares what it counts with a threshold the *)
(* runner writes beside it; any other kind looks for blocks, and its count *)
(* is how many of the places it scans match.                               *)
(***************************************************************************)
EXTENDS Integers, FiniteSets, SequencesExt

CONSTANTS
  Detectors,      \* their names, in the order of the scenario
  Op,             \* name -> "<", ">=" or, for a block detector, "present"
  Requires,       \* name -> the detectors that must have fired before
  MaxInt,         \* the largest score, which no count reaches
  Missing         \* the scoreboard of a world without the objective

Names == Range(Detectors)
Unset == -1                   \* a holder without a value

(* Does a count fire a detector whose threshold is th?                     *)
Fires(d, count, th) ==
  CASE Op[d] = "<"  -> count < th
    [] Op[d] = ">=" -> count >= th
    [] OTHER        -> count > 0

(* No detector has fired and none has a threshold.                         *)
Reset(armed) ==
  [armed |-> armed, loaded |-> 1, any |-> 0,
   hit |-> [d \in Names |-> 0], gt |-> [d \in Names |-> -1],
   th  |-> [d \in Names |-> MaxInt]]

(* detmc:load.  The packs of older versions disarm; this one initialises.  *)
Load(board, old) ==
  Reset(IF old \/ board = Missing \/ board.armed = Unset THEN 0 ELSE board.armed)

(* detmc:hit_<d>.                                                          *)
Hit(board, d, now) ==
  [board EXCEPT !.hit[d] = 1, !.gt[d] = now, !.any = 1]

(* Mutant: a consequence is looked for before its cause.                   *)
CheckOne_ungated(board, d, count, now) ==
  IF board.hit[d] = 0 /\ Fires(d, count[d], board.th[d]) THEN Hit(board, d, now) ELSE board

(* One line of detmc:check and the detmc:check_<d> it calls.               *)
CheckOne(board, d, count, now) ==
  IF /\ board.hit[d] = 0
     /\ \A r \in Requires[d] : board.hit[r] = 1
     /\ Fires(d, count[d], board.th[d])
  THEN Hit(board, d, now)
  ELSE board

(* detmc:check: every detector, in the order of the scenario.              *)
Checked(board, count, now) ==
  LET after[n \in 0..Len(Detectors)] ==
        IF n = 0 THEN board ELSE CheckOne(after[n - 1], Detectors[n], count, now)
  IN after

Check(board, count, now) == Checked(board, count, now)[Len(Detectors)]

(* The tick of a server with the pack: the load tag, if it is due, and     *)
(* then the tick tag.                                                      *)
TickTag(board, count, now) ==
  IF board # Missing /\ board.armed = 1 THEN Check(board, count, now) ELSE board

PackTick(board, due, old, count, now) ==
  TickTag(IF due THEN Load(board, old) ELSE board, count, now)

(* What a scoreboard command leaves: without the objective it only answers *)
(* an error, which the runner does not look at.                            *)
SetArmed(board) ==
  IF board = Missing THEN Missing ELSE [board EXCEPT !.armed = 1]

Boards == [armed : {Unset, 0, 1}, loaded : {Unset, 0, 1}, any : {0, 1},
           hit : [Names -> {0, 1}], gt : [Names -> Int], th : [Names -> Int]]

ASSUME DetectorAssumption ==
  /\ Detectors \in Seq(Names) /\ MaxInt \in Nat \ {0} /\ Missing \notin Boards
=============================================================================
