-------------------------- MODULE MC_DetExecutors --------------------------
EXTENDS DetExecutors
=============================================================================
