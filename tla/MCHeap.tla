------------------------------- MODULE MCHeap -------------------------------
(* Instances of the allocator for TLC. *)
EXTENDS HeapProperties
=============================================================================
