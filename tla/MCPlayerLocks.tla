---------------------------- MODULE MCPlayerLocks ----------------------------
EXTENDS PlayerLocks
=============================================================================
