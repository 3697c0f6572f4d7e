---------------------------- MODULE MCWorkerPool ----------------------------
EXTENDS WorkerPool, TLC
Symm == Permutations(Reqs) \cup Permutations(Workers)
=============================================================================
