---------------------------- MODULE LockFreeQueue ----------------------------
(***************************************************************************)
(* The lock-free queue of "Lock-free Queue/queue.c": a linked list with a  *)
(* dummy node at its head, tail pointer possibly one node behind, counted  *)
(* pointers (16 bytes) changed by compare-and-swap, nodes malloc'ed by     *)
(* enqueue and freed by dequeue, so that a process may still look at a     *)
(* node that has been freed and allocated again.                           *)
(*                                                                         *)
(* Only cas is atomic.  The plain accesses race with it: a counted pointer *)
(* is compared as two 8-byte halves in either order; how it is copied, and *)
(* what else the build may do to these accesses, is a parameter.           *)
(***************************************************************************)
EXTENDS Integers, Sequences, FiniteSets

CONSTANTS
  Procs, Nodes, NULL, Junk,
  MaxOps,       \* bound: calls made in all; the k-th call enqueues the value k
  KeepsCounter, \* malloc returns memory with the next.counter that was there
                \* when it was freed; FALSE: with any counter
  Garbage,      \* counters found in memory that does not keep its content
  WholeCopies,  \* the build copies a counted pointer by one 16-byte load;
                \* FALSE: by two 8-byte loads, in either order
  ReadsAgain    \* the build reads queue->tail and queue->head a second time to
                \* compare them; FALSE: it reuses the first read

ASSUME BuildAssumption == {KeepsCounter, WholeCopies, ReadsAgain} \subseteq BOOLEAN
ASSUME NodeAssumption ==
  NULL \notin Nodes /\ IsFiniteSet(Nodes) /\ MaxOps \in Nat /\ Garbage \subseteq Nat

VARIABLES
  head, tail,  \* queue_t: counted pointers
  mem,         \* node -> [value, next]
  free,        \* nodes that malloc may return
  pc, loc,     \* of each process: where it is, and its local variables
  half,        \* the half of a counted pointer it has copied or compared
  ops,         \* calls made so far
  call         \* history: the call of each process, as FifoQueue tells it

qvars == <<head, tail, mem, free>>
vars  == <<head, tail, mem, free, pc, loc, half, ops, call>>

Halves == {"pointer", "counter"}
Ptr(n, c) == [pointer |-> n, counter |-> c]
Unset == Ptr(NULL, 0)
NoLocals == [node |-> NULL, head |-> Unset, tail |-> Unset, next |-> Unset, val |-> Junk]
NoCall == [op |-> "none", val |-> Junk, done |-> FALSE, empty |-> FALSE]

\* The list: nodes in the order of their next pointers, from head.
Chain ==
  LET nth[k \in 0..Cardinality(Nodes)] ==
        IF k = 0 THEN head.pointer
        ELSE LET n == nth[k - 1] IN IF n = NULL THEN NULL ELSE mem[n].next.pointer
      len == Cardinality({k \in 0..Cardinality(Nodes) : nth[k] # NULL})
  IN [i \in 1..len |-> nth[i - 1]]

Contents == [i \in 1..(Len(Chain) - 1) |-> mem[Chain[i + 1]].value]

initialize(n) ==
  /\ head = Ptr(n, 0)
  /\ tail = Ptr(n, 0)
  /\ mem = [m \in Nodes |-> [value |-> Junk, next |-> Ptr(NULL, 0)]]
  /\ free = Nodes \ {n}

Init ==
  /\ \E n \in Nodes : initialize(n)
  /\ pc = [p \in Procs |-> "idle"]
  /\ loc = [p \in Procs |-> NoLocals]
  /\ half = [p \in Procs |-> {}]
  /\ ops = 0
  /\ call = [p \in Procs |-> NoCall]

-----------------------------------------------------------------------------
(* Copies, comparisons and cas.                                            *)

Goto(p, l) == pc' = [pc EXCEPT ![p] = l]

\* "loc.f = src", at once or half by half; then the process goes on to l.
Copy(p, f, src, l) ==
  \/ /\ WholeCopies
     /\ loc' = [loc EXCEPT ![p][f] = src]
     /\ Goto(p, l)
     /\ UNCHANGED half
  \/ /\ ~WholeCopies
     /\ \E h \in Halves \ half[p] :
          /\ loc' = [loc EXCEPT ![p][f][h] = src[h]]
          /\ half' = [half EXCEPT ![p] = IF @ = {} THEN {h} ELSE {}]
          /\ IF half[p] = {} THEN UNCHANGED pc ELSE Goto(p, l)

\* "if (loc.f == src)", half by half; if they differ the loop starts again.
Compare(p, f, src, equal, different) ==
  LET again == IF ReadsAgain THEN src ELSE loc[p][f]
  IN \E h \in Halves \ half[p] :
       IF loc[p][f][h] # again[h]
       THEN Goto(p, different) /\ half' = [half EXCEPT ![p] = {}]
       ELSE /\ half' = [half EXCEPT ![p] = IF @ = {} THEN {h} ELSE {}]
            /\ IF half[p] = {} THEN UNCHANGED pc ELSE Goto(p, equal)

\* cas(&queue->tail, loc.tail, {n, loc.tail.counter + 1}), either way.
CasTail(p, n) ==
  tail' = IF tail = loc[p].tail THEN Ptr(n, loc[p].tail.counter + 1) ELSE tail

-----------------------------------------------------------------------------
(* enqueue.                                                                *)

malloc(n, v) ==
  /\ n \in free
  /\ free' = free \ {n}
  /\ \E c \in (IF KeepsCounter THEN {mem[n].next.counter} ELSE Garbage) :
       mem' = [mem EXCEPT ![n] = [value |-> v, next |-> Ptr(NULL, c)]]

e_call(p) ==
  /\ pc[p] = "idle"
  /\ ops < MaxOps
  /\ ops' = ops + 1
  /\ \E n \in Nodes :
       /\ malloc(n, ops + 1)
       /\ loc' = [loc EXCEPT ![p] = [NoLocals EXCEPT !.node = n]]
  /\ Goto(p, "e_tail")
  /\ call' = [call EXCEPT ![p] = [NoCall EXCEPT !.op = "enq", !.val = ops + 1]]
  /\ UNCHANGED <<head, tail, half>>

e_tail(p) ==
  /\ pc[p] = "e_tail"
  /\ Copy(p, "tail", tail, "e_next")
  /\ UNCHANGED <<qvars, ops, call>>

e_next(p) ==
  /\ pc[p] = "e_next"
  /\ Copy(p, "next", mem[loc[p].tail.pointer].next, "e_check")
  /\ UNCHANGED <<qvars, ops, call>>

e_check(p) ==
  /\ pc[p] = "e_check"
  /\ Compare(p, "tail", tail,
             IF loc[p].next.pointer = NULL THEN "e_link" ELSE "e_help", "e_tail")
  /\ UNCHANGED <<qvars, loc, ops, call>>

\* Mutant: the link is changed without counting.
e_link_no_count(p) ==
  LET t == loc[p].tail.pointer
      n == loc[p].next
  IN /\ pc[p] = "e_link"
     /\ IF mem[t].next = n
        THEN /\ mem' = [mem EXCEPT ![t].next = Ptr(loc[p].node, n.counter)]
             /\ Goto(p, "e_swing")
             /\ call' = [call EXCEPT ![p].done = TRUE]
        ELSE Goto(p, "e_tail") /\ UNCHANGED <<mem, call>>
     /\ UNCHANGED <<head, tail, free, loc, half, ops>>

e_link(p) ==
  LET t == loc[p].tail.pointer
      n == loc[p].next
  IN /\ pc[p] = "e_link"
     /\ IF mem[t].next = n
        THEN /\ mem' = [mem EXCEPT ![t].next = Ptr(loc[p].node, n.counter + 1)]
             /\ Goto(p, "e_swing")
             /\ call' = [call EXCEPT ![p].done = TRUE]
        ELSE Goto(p, "e_tail") /\ UNCHANGED <<mem, call>>
     /\ UNCHANGED <<head, tail, free, loc, half, ops>>

\* Mutant: an enqueue waits until the tail has been moved.
e_help_wait(p) ==
  /\ pc[p] = "e_help"
  /\ Goto(p, "e_tail")
  /\ UNCHANGED <<qvars, loc, half, ops, call>>

e_help(p) ==
  /\ pc[p] = "e_help"
  /\ CasTail(p, loc[p].next.pointer)
  /\ Goto(p, "e_tail")
  /\ UNCHANGED <<head, mem, free, loc, half, ops, call>>

\* The last cas, and the return to the caller.
e_swing(p) ==
  /\ pc[p] = "e_swing"
  /\ CasTail(p, loc[p].node)
  /\ Goto(p, "idle")
  /\ loc' = [loc EXCEPT ![p] = NoLocals]
  /\ call' = [call EXCEPT ![p] = NoCall]
  /\ UNCHANGED <<head, mem, free, half, ops>>

-----------------------------------------------------------------------------
(* dequeue.                                                                *)

d_call(p) ==
  /\ pc[p] = "idle"
  /\ ops < MaxOps
  /\ ops' = ops + 1
  /\ Goto(p, "d_head")
  /\ call' = [call EXCEPT ![p] = [NoCall EXCEPT !.op = "deq"]]
  /\ UNCHANGED <<qvars, loc, half>>

d_head(p) ==
  /\ pc[p] = "d_head"
  /\ Copy(p, "head", head, "d_tail")
  /\ UNCHANGED <<qvars, ops, call>>

d_tail(p) ==
  /\ pc[p] = "d_tail"
  /\ Copy(p, "tail", tail, "d_next")
  /\ UNCHANGED <<qvars, ops, call>>

\* The moment at which a dequeue that fails has seen the queue empty.
d_next(p) ==
  /\ pc[p] = "d_next"
  /\ Copy(p, "next", mem[loc[p].head.pointer].next, "d_check")
  /\ call' = [call EXCEPT ![p].empty = @ \/ Contents = <<>>]
  /\ UNCHANGED <<qvars, ops>>

\* Mutant: the tail is not looked at.
d_check_no_tail(p) ==
  /\ pc[p] = "d_check"
  /\ Compare(p, "head", head,
             IF loc[p].next.pointer = NULL THEN "d_fail" ELSE "d_value", "d_head")
  /\ UNCHANGED <<qvars, loc, ops, call>>

d_check(p) ==
  /\ pc[p] = "d_check"
  /\ Compare(p, "head", head,
             IF loc[p].head.pointer # loc[p].tail.pointer THEN "d_value"
             ELSE IF loc[p].next.pointer = NULL THEN "d_fail" ELSE "d_help", "d_head")
  /\ UNCHANGED <<qvars, loc, ops, call>>

d_help(p) ==
  /\ pc[p] = "d_help"
  /\ CasTail(p, loc[p].next.pointer)
  /\ Goto(p, "d_head")
  /\ UNCHANGED <<head, mem, free, loc, half, ops, call>>

d_value(p) ==
  /\ pc[p] = "d_value"
  /\ IF loc[p].next.pointer = NULL
     THEN Goto(p, "crashed") /\ UNCHANGED loc
     ELSE /\ loc' = [loc EXCEPT ![p].val = mem[loc[p].next.pointer].value]
          /\ Goto(p, "d_take")
  /\ UNCHANGED <<qvars, half, ops, call>>

\* Mutant: the outcome of the cas is ignored.
d_take_unchecked(p) ==
  /\ pc[p] = "d_take"
  /\ head' = IF head = loc[p].head
             THEN Ptr(loc[p].next.pointer, loc[p].head.counter + 1) ELSE head
  /\ Goto(p, "d_free")
  /\ call' = [call EXCEPT ![p] = [@ EXCEPT !.done = TRUE, !.val = loc[p].val]]
  /\ UNCHANGED <<tail, mem, free, loc, half, ops>>

d_take(p) ==
  /\ pc[p] = "d_take"
  /\ IF head = loc[p].head
     THEN /\ head' = Ptr(loc[p].next.pointer, loc[p].head.counter + 1)
          /\ Goto(p, "d_free")
          /\ call' = [call EXCEPT ![p] = [@ EXCEPT !.done = TRUE, !.val = loc[p].val]]
     ELSE Goto(p, "d_head") /\ UNCHANGED <<head, call>>
  /\ UNCHANGED <<tail, mem, free, loc, half, ops>>

Return(p) ==
  /\ Goto(p, "idle")
  /\ loc' = [loc EXCEPT ![p] = NoLocals]
  /\ call' = [call EXCEPT ![p] = NoCall]

\* The allocator's own data overwrites the value of a freed node.
d_free(p) ==
  /\ pc[p] = "d_free"
  /\ free' = free \cup {loc[p].head.pointer}
  /\ mem' = [mem EXCEPT ![loc[p].head.pointer].value = Junk]
  /\ Return(p)
  /\ UNCHANGED <<head, tail, half, ops>>

d_fail(p) ==
  /\ pc[p] = "d_fail"
  /\ Return(p)
  /\ UNCHANGED <<qvars, half, ops>>

-----------------------------------------------------------------------------
\* destroy, when no call is being made: every node of the list is freed.
destroy ==
  /\ ops = MaxOps
  /\ \A p \in Procs : pc[p] = "idle"
  /\ head.pointer # NULL
  /\ free' = free \cup {Chain[i] : i \in 1..Len(Chain)}
  /\ head' = mem[Chain[Len(Chain)]].next
  /\ UNCHANGED <<tail, mem, pc, loc, half, ops, call>>

Step(p) ==
  \/ e_call(p) \/ e_tail(p) \/ e_next(p) \/ e_check(p) \/ e_link(p) \/ e_help(p) \/ e_swing(p)
  \/ d_call(p) \/ d_head(p) \/ d_tail(p) \/ d_next(p) \/ d_check(p) \/ d_help(p)
  \/ d_value(p) \/ d_take(p) \/ d_free(p) \/ d_fail(p)

Finished == head.pointer = NULL /\ UNCHANGED vars

Next == (\E p \in Procs : Step(p)) \/ destroy \/ Finished

Spec == Init /\ [][Next]_vars

\* Some process keeps taking steps; which one is up to the scheduler, so no
\* process is sure to get a turn.
FairSpec == Spec /\ WF_vars(\E p \in Procs : Step(p))
=============================================================================
