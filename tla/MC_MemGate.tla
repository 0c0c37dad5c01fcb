----------------------------- MODULE MC_MemGate -----------------------------
EXTENDS MemGate
=============================================================================
