------------------------------ MODULE FifoQueue ------------------------------
(***************************************************************************)
(* A concurrent FIFO queue as its callers see it: between its call and its *)
(* return, an enqueue appends its value once, a dequeue takes the first    *)
(* value once or finds the queue empty at some moment.                     *)
(***************************************************************************)
EXTENDS Sequences

CONSTANTS Procs, Items, NoItem
VARIABLES
  q,     \* the values in the queue
  call   \* of each process: op "none", "enq" or "deq", its value, whether it
         \* took effect, whether it saw the queue empty

None == [op |-> "none", val |-> NoItem, done |-> FALSE, empty |-> FALSE]

Init == q = <<>> /\ call = [p \in Procs |-> None]

CallEnqueue(p, v) ==
  /\ call[p] = None
  /\ call' = [call EXCEPT ![p] = [None EXCEPT !.op = "enq", !.val = v]]
  /\ UNCHANGED q

CallDequeue(p) ==
  /\ call[p] = None
  /\ call' = [call EXCEPT ![p] = [None EXCEPT !.op = "deq"]]
  /\ UNCHANGED q

AppendLast(p) ==
  /\ call[p].op = "enq" /\ ~call[p].done
  /\ q' = Append(q, call[p].val)
  /\ call' = [call EXCEPT ![p].done = TRUE]

TakeFirst(p) ==
  /\ call[p].op = "deq" /\ ~call[p].done
  /\ q # <<>>
  /\ q' = Tail(q)
  /\ call' = [call EXCEPT ![p] = [@ EXCEPT !.done = TRUE, !.val = Head(q)]]

SeeEmpty(p) ==
  /\ call[p].op = "deq" /\ ~call[p].done
  /\ q = <<>>
  /\ call' = [call EXCEPT ![p].empty = TRUE]
  /\ UNCHANGED q

Return(p) ==
  /\ call[p].done \/ call[p].empty
  /\ call' = [call EXCEPT ![p] = None]
  /\ UNCHANGED q

\* Nobody uses the queue any more.
Discard ==
  /\ \A p \in Procs : call[p] = None
  /\ q' = <<>>
  /\ UNCHANGED call

Next ==
  \/ \E p \in Procs :
       \/ \E v \in Items : CallEnqueue(p, v)
       \/ CallDequeue(p) \/ AppendLast(p) \/ TakeFirst(p) \/ SeeEmpty(p) \/ Return(p)
  \/ Discard

Spec == Init /\ [][Next]_<<q, call>>
=============================================================================
