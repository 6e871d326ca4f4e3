----------------------- MODULE LockFreeQueueProperties -----------------------
(***************************************************************************)
(* The properties of the lock-free queue.                                  *)
(***************************************************************************)
EXTENDS LockFreeQueue

Fifo == INSTANCE FifoQueue
          WITH q <- Contents, call <- call, Items <- 1..MaxOps, NoItem <- Junk

Linked == {Chain[i] : i \in 1..Len(Chain)}

\* Nodes that only the process that allocated or unlinked them knows of.
Unlinked(p) == IF pc[p] \in {"e_tail", "e_next", "e_check", "e_link", "e_help"}
               THEN {loc[p].node} ELSE {}
ToFree(p) == IF pc[p] = "d_free" THEN {loc[p].head.pointer} ELSE {}

(* Every node is in exactly one place: free, on the list, in the hands of the
   enqueue that will link it, or of the dequeue that will free it.  So nothing
   is freed twice or while it is on the list, and nothing leaks, although
   enqueue and dequeue use nodes they do not own (queue.c:43-100, destroy
   included: afterwards every node is free). *)
NodesAccounted ==
  LET place(n) == <<n \in free, n \in Linked>>
      holders(n) == {p \in Procs : n \in Unlinked(p) \cup ToFree(p)}
  IN \A n \in Nodes :
       Cardinality({i \in 1..2 : place(n)[i]}) + Cardinality(holders(n)) = 1

(* The tail pointer names the last node of the list or the one before it, so
   that one help moves it to the end, and the head pointer never overtakes it:
   a dequeue that goes for a value has a node to take it from and never reads it
   through a NULL pointer, however often tail and head moved since it read them
   (queue.c:60-65, 84-91). *)
TailIsNear ==
  /\ Len(Chain) > 0 =>
       /\ tail.pointer \in {Chain[i] : i \in {j \in 1..Len(Chain) : j >= Len(Chain) - 1}}
       /\ mem[Chain[Len(Chain)]].next.pointer = NULL
  /\ \A p \in Procs : pc[p] # "crashed"

(* The queue is a FIFO queue: every enqueue that returns has appended its value
   once, every dequeue has taken the first value once, and "DEQUEUE_FAIL if the
   list is empty" (queue.c:68-70) is returned only when it was empty at some
   moment of the call; no other step changes what the queue holds. *)
ImplementsFifo == Fifo!Spec

(* The queue is lock-free: whichever processes the scheduler stops, and
   wherever it stops them, calls go on returning, so that all MaxOps of them
   have returned after a while (queue.c:60-61, 88: whoever finds the tail
   behind moves it). *)
LockFree == <>[](\A p \in Procs : pc[p] = "idle")
=============================================================================
