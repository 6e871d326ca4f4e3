------------------------------- MODULE Callers -------------------------------
(***************************************************************************)
(* The threads of the program that uses a component, and the null pointer. *)
(***************************************************************************)
CONSTANTS Threads, NULL
=============================================================================
