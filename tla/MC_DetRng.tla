----------------------------- MODULE MC_DetRng -----------------------------
EXTENDS DetRng

(* One-bit seeds: enough for a launch key, a foreign one, and a branch     *)
(* that returns to the launch key.                                         *)
MCSeed == 0..1
MCXor == [a \in MCSeed |-> [b \in MCSeed |-> IF a = b THEN 0 ELSE 1]]
=============================================================================
