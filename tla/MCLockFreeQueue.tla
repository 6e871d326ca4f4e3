--------------------------- MODULE MCLockFreeQueue ---------------------------
(* Instances of the lock-free queue for TLC. *)
EXTENDS LockFreeQueueProperties, TLC

Symmetry == Permutations(Procs) \cup Permutations(Nodes)
=============================================================================
