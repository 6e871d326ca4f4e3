----------------------------- MODULE MCCoroutine -----------------------------
(* Instances of the coroutines for TLC. *)
EXTENDS CoroutineProperties
=============================================================================
