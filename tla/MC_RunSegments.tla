--------------------------- MODULE MC_RunSegments ---------------------------
EXTENDS RunSegments
(* A reseed between two boundaries, and one on the last.                   *)
MCSchedule == <<1, 3>>
=============================================================================
