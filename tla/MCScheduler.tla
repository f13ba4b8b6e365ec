---------------------------- MODULE MCScheduler -----------------------------
EXTENDS Scheduler, TLC

Symmetric == Permutations(Requests)
=============================================================================
