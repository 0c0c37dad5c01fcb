------------------------- MODULE MC_SaveCheckpoint -------------------------
EXTENDS SaveCheckpoint
=============================================================================
