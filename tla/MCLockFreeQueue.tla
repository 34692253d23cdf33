-------------------------- MODULE MCLockFreeQueue --------------------------
(* LockFreeQueue for TLC: threads, addresses and values are interchangeable. *)
EXTENDS LockFreeQueue, TLC

Symmetry == Permutations(Threads) \cup Permutations(Nodes)
            \cup Permutations(Values)
============================================================================
