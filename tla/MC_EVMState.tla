---------------------------- MODULE MC_EVMState ----------------------------
EXTENDS EVMState, TLC
=============================================================================
