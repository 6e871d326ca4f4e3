------------------------ MODULE LockFreeQueueProofs ------------------------
(***************************************************************************)
(* Proofs about the lock-free queue, for any sets of processes and nodes   *)
(* and any number of calls, in a build that copies counted pointers at     *)
(* once, reads head and tail again where the code says so, and has a       *)
(* malloc that keeps the counters of freed nodes.                          *)
(***************************************************************************)
EXTENDS LockFreeQueueProperties, FiniteSetTheorems, SequenceTheorems, TLAPS

-----------------------------------------------------------------------------
(* The inductive invariant.                                                *)

Pointers == [pointer : Nodes \cup {NULL}, counter : Nat]
Values == 1..MaxOps \cup {Junk}
Locals == [node : Nodes \cup {NULL}, head : Pointers, tail : Pointers,
           next : Pointers, val : Values]
Calls == [op : {"none", "enq", "deq"}, val : Values, done : BOOLEAN, empty : BOOLEAN]

Linking == {"e_tail", "e_next", "e_check", "e_link", "e_help"}
Taking == {"d_head", "d_tail", "d_next", "d_check", "d_help", "d_value", "d_take"}
Labels == {"idle", "e_swing", "d_free", "d_fail"} \cup Linking \cup Taking

QType ==
  /\ head \in Pointers
  /\ tail \in Pointers
  /\ mem \in [Nodes -> [value : Values, next : Pointers]]
  /\ free \subseteq Nodes
  /\ pc \in [Procs -> Labels]
  /\ loc \in [Procs -> Locals]
  /\ half \in [Procs -> {{}, {"pointer"}, {"counter"}}]
  /\ \A p \in Procs : pc[p] \notin {"e_check", "d_check"} => half[p] = {}
  /\ ops \in 0..MaxOps
  /\ call \in [Procs -> Calls]

\* s holds the nodes from head on: it has no cycle, and the last one ends it.
IsList(s) ==
  /\ s \in Seq(Nodes) /\ s # <<>>
  /\ s[1] = head.pointer
  /\ \A i \in 1..(Len(s) - 1) : mem[s[i]].next.pointer = s[i + 1]
  /\ mem[s[Len(s)]].next.pointer = NULL
  /\ \A i, j \in 1..Len(s) : s[i] = s[j] => i = j

\* Before destroy.
InUse == head.pointer # NULL

Near == \/ tail.pointer = Chain[Len(Chain)]
        \/ Len(Chain) > 1 /\ tail.pointer = Chain[Len(Chain) - 1]

\* Every node is free, linked, or in the hands of one process.
Held(p) == Unlinked(p) \cup ToFree(p)
Places ==
  /\ free \cap Linked = {}
  /\ \A p \in Procs : Held(p) \subseteq Nodes \ (free \cup Linked)
  /\ \A p, q \in Procs : p # q => Held(p) \cap Held(q) = {}
  /\ \A n \in Nodes : n \in free \cup Linked \/ \E p \in Procs : n \in Held(p)

\* What a process knows.  Its copies of head and tail are as old as their
\* counters say: as long as the counter has not moved on they are up to date.
TailSeen(p) ==
  pc[p] \in {"e_next", "e_check", "e_link", "e_help", "e_swing", "d_next", "d_check", "d_help"} =>
    /\ loc[p].tail.pointer \in Nodes
    /\ loc[p].tail.counter <= tail.counter
    /\ loc[p].tail.counter = tail.counter => loc[p].tail = tail
HeadSeen(p) ==
  pc[p] \in {"d_tail", "d_next", "d_check", "d_help", "d_value", "d_take"} =>
    /\ loc[p].head.pointer \in Nodes
    /\ loc[p].head.counter <= head.counter
    /\ loc[p].head.counter = head.counter => loc[p].head = head

\* An enqueue has a node of its own with its value, which ends the list it
\* will be linked to.
OwnNode(p) ==
  pc[p] \in Linking =>
    /\ loc[p].node \in Nodes
    /\ mem[loc[p].node].next.pointer = NULL
    /\ mem[loc[p].node].value = call[p].val

\* While the counter of the next pointer it has seen stays, the node it wants
\* to link to has no successor, and once the tail has been seen there again
\* the tail is still there: it is the last node of the list.
NextEnd(p) == loc[p].next.pointer = NULL
                /\ loc[p].next.counter = mem[loc[p].tail.pointer].next.counter
EndSeen(p) ==
  /\ pc[p] \in {"e_check", "e_link"} =>
       /\ loc[p].next.counter <= mem[loc[p].tail.pointer].next.counter
       /\ NextEnd(p) => mem[loc[p].tail.pointer].next.pointer = NULL
  /\ pc[p] = "e_link" \/ (pc[p] = "e_check" /\ "pointer" \in half[p]) =>
       (NextEnd(p) => tail.pointer = loc[p].tail.pointer)
  /\ pc[p] = "e_link" => loc[p].next.pointer = NULL

\* While the tail has not moved on, n is the node behind it.
Behind(p, n) == tail = loc[p].tail => mem[loc[p].tail.pointer].next.pointer = n

SuccessorSeen(p) ==
  /\ /\ \/ pc[p] \in {"e_check", "e_help"}
        \/ pc[p] \in {"d_check", "d_help"} /\ loc[p].head.pointer = loc[p].tail.pointer
     /\ loc[p].next.pointer # NULL
     => Behind(p, loc[p].next.pointer)
  /\ pc[p] = "e_swing" => loc[p].node \in Nodes /\ Behind(p, loc[p].node)
  /\ pc[p] \in {"e_help", "d_help"} => loc[p].next.pointer # NULL
  /\ pc[p] = "d_help" => loc[p].head.pointer = loc[p].tail.pointer

\* What a dequeue saw of the list, as long as the head has not moved on.
AheadSeen(p) ==
  head = loc[p].head =>
    /\ /\ pc[p] \in {"d_next", "d_check", "d_value", "d_take"}
       /\ loc[p].tail.pointer # loc[p].head.pointer
       => tail.pointer # loc[p].head.pointer
    /\ pc[p] \in {"d_check", "d_value", "d_take"} /\ loc[p].next.pointer # NULL
         => mem[loc[p].head.pointer].next.pointer = loc[p].next.pointer
    /\ pc[p] = "d_take" => loc[p].val = mem[loc[p].next.pointer].value

\* Whether there is a node to take was seen at a moment when its copy of head
\* was up to date; the moment is known to have come when the counter of head
\* has been compared.
EmptyOrNot(p) ==
  /\ loc[p].tail.pointer # loc[p].head.pointer => loc[p].next.pointer # NULL
  /\ loc[p].next.pointer = NULL => call[p].empty
EmptySeen(p) ==
  /\ pc[p] = "d_check" /\ (head = loc[p].head \/ "counter" \in half[p]) => EmptyOrNot(p)
  /\ pc[p] \in {"d_value", "d_take"} =>
       loc[p].tail.pointer # loc[p].head.pointer /\ loc[p].next.pointer # NULL
  /\ pc[p] = "d_fail" => call[p].empty

\* The history of a call goes with where its process is.
CallSeen(p) ==
  /\ pc[p] = "idle" => call[p] = NoCall
  /\ pc[p] \in Linking => call[p].op = "enq" /\ ~call[p].done
  /\ pc[p] \in Taking => call[p].op = "deq" /\ ~call[p].done
  /\ pc[p] \in {"e_swing", "d_free"} => call[p].done

Knows(p) ==
  /\ TailSeen(p) /\ HeadSeen(p) /\ OwnNode(p) /\ EndSeen(p)
  /\ SuccessorSeen(p) /\ AheadSeen(p) /\ EmptySeen(p) /\ CallSeen(p)

QInv ==
  /\ QType
  /\ InUse => IsList(Chain) /\ Near /\ Places /\ \A p \in Procs : Knows(p)
  /\ ~InUse => /\ Chain = <<>> /\ free = Nodes /\ ops = MaxOps
               /\ \A p \in Procs : pc[p] = "idle" /\ call[p] = NoCall

-----------------------------------------------------------------------------
(* Chain computes the list.                                                *)

\* Induction, as the fact that the numbers are well ordered.
LEMMA LeastNumber ==
  ASSUME NEW T, T \subseteq Nat, T # {}
  PROVE  \E x \in T : \A y \in T : x <= y
<1> DEFINE R == OpToRel(<, Nat)
<1>1. IsWellFoundedOn(R, Nat)
  BY NatLessThanWellFounded, Zenon
<1>2. PICK x \in T : \A y \in T : <<y, x>> \notin R
  <2> HIDE DEF R
  <2> QED  BY <1>1, WFMin
<1>3. \A y \in T : ~ (y < x)
  BY <1>2 DEF OpToRel
<1> QED  BY <1>3

\* A list has at most as many elements as there are nodes.
LEMMA ListFits ==
  ASSUME NEW s \in Seq(Nodes), \A i, j \in 1..Len(s) : s[i] = s[j] => i = j
  PROVE  Len(s) \in Nat /\ Cardinality(Nodes) \in Nat /\ Len(s) <= Cardinality(Nodes)
<1>1. Len(s) \in Nat /\ s \in [1..Len(s) -> Nodes]
  OBVIOUS
<1>2. s \in Injection(1..Len(s), Nodes)
  BY <1>1 DEF Injection, IsInjective
<1>3. Cardinality(1..Len(s)) = Len(s)
  BY <1>1, FS_Interval
<1> QED  BY <1>1, <1>2, <1>3, FS_Injection, FS_CardinalityType, NodeAssumption

\* Sequences by their elements.
LEMMA AppendIs ==
  ASSUME NEW S, NEW q \in Seq(S), NEW v \in S, NEW r,
         r = [i \in 1..(Len(q) + 1) |-> r[i]],
         \A i \in 1..Len(q) : r[i] = q[i], r[Len(q) + 1] = v
  PROVE  r = Append(q, v)
<1>1. Len(q) \in Nat /\ \A i \in 1..(Len(q) + 1) : i \in 1..Len(q) \/ i = Len(q) + 1
  OBVIOUS
<1>2. \A i \in 1..(Len(q) + 1) : r[i] \in S
  <2>1. \A i \in 1..Len(q) : q[i] \in S
    OBVIOUS
  <2>2. \A i \in 1..Len(q) : r[i] \in S
    BY <2>1
  <2> QED  BY <1>1, <2>2
<1>3. r \in Seq(S) /\ Len(r) = Len(q) + 1
  BY <1>1, <1>2
<1>4. /\ Append(q, v) \in Seq(S)
      /\ Len(Append(q, v)) = Len(q) + 1
      /\ \A i \in 1..Len(q) : Append(q, v)[i] = q[i]
      /\ Append(q, v)[Len(q) + 1] = v
  BY AppendProperties
<1>5. \A i \in 1..Len(r) : r[i] = Append(q, v)[i]
  BY <1>1, <1>3, <1>4
<1>6. PICK a : a = Append(q, v)
  OBVIOUS
<1>7. a \in Seq(S) /\ Len(r) = Len(a) /\ \A i \in 1..Len(r) : r[i] = a[i]
  BY <1>3, <1>4, <1>5, <1>6
<1>8. r = a
  BY <1>3, <1>7, SeqEqual
<1> QED  BY <1>6, <1>8

LEMMA TailIs ==
  ASSUME NEW S, NEW q \in Seq(S), q # <<>>, NEW r,
         r = [i \in 1..(Len(q) - 1) |-> q[i + 1]]
  PROVE  r = Tail(q)
<1>1. Len(q) \in Nat \ {0} /\ \A i \in 1..(Len(q) - 1) : q[i + 1] \in S
  OBVIOUS
<1>2. r \in Seq(S) /\ Len(r) = Len(q) - 1 /\ \A i \in 1..Len(r) : r[i] = q[i + 1]
  BY <1>1
<1>3. /\ Tail(q) \in Seq(S) /\ Len(Tail(q)) = Len(q) - 1
      /\ \A i \in 1..Len(Tail(q)) : Tail(q)[i] = q[i + 1]
  BY HeadTailProperties
<1>4. PICK a : a = Tail(q)
  OBVIOUS
<1> QED  BY <1>2, <1>3, <1>4, SeqEqual

\* The walk along the links is determined by its start and its steps.
LEMMA WalkOnce ==
  ASSUME NEW c \in Nat, NEW f, NEW g,
         f = [k \in 0..c |-> f[k]], g = [k \in 0..c |-> g[k]],
         c >= 0 => f[0] = g[0],
         \A k \in 1..c : f[k - 1] = g[k - 1] => f[k] = g[k]
  PROVE  f = g
<1> DEFINE D == {k \in 0..c : f[k] # g[k]}
<1>1. ASSUME D # {} PROVE FALSE
  <2>1. D \subseteq Nat
    OBVIOUS
  <2>2. PICK x \in D : \A y \in D : x <= y
    <3> HIDE DEF D
    <3> QED  BY <1>1, <2>1, LeastNumber
  <2>3. x \in 1..c
    BY <2>2
  <2>4. x - 1 \in 0..c /\ x - 1 \notin D
    BY <2>2, <2>3
  <2> QED  BY <2>2, <2>3, <2>4
<1>2. \A k \in 0..c : f[k] = g[k]
  BY <1>1
<1> QED  BY <1>2

\* Chain in terms of the walk it takes.
Link(n) == IF n = NULL THEN NULL ELSE mem[n].next.pointer
IsWalk(f) ==
  f = [k \in 0..Cardinality(Nodes) |-> IF k = 0 THEN head.pointer ELSE Link(f[k - 1])]

LEMMA WalkUnfolds ==
  ASSUME NEW f, IsWalk(f), Cardinality(Nodes) \in Nat
  PROVE  /\ f = [k \in 0..Cardinality(Nodes) |-> f[k]]
         /\ f[0] = head.pointer
         /\ \A k \in 1..Cardinality(Nodes) : f[k] = Link(f[k - 1])
<1> DEFINE step(k) == IF k = 0 THEN head.pointer ELSE Link(f[k - 1])
<1>1. f = [k \in 0..Cardinality(Nodes) |-> step(k)]
  BY DEF IsWalk
<1>2. step(0) = head.pointer /\ \A k \in 1..Cardinality(Nodes) : step(k) = Link(f[k - 1])
  OBVIOUS
<1> HIDE DEF step
<1> QED  BY <1>1, <1>2

LEMMA ChainWalks ==
  ASSUME NEW f, IsWalk(f), Cardinality(Nodes) \in Nat
  PROVE  Chain = [i \in 1..Cardinality({k \in 0..Cardinality(Nodes) : f[k] # NULL}) |-> f[i - 1]]
<1> DEFINE nth[k \in 0..Cardinality(Nodes)] ==
             IF k = 0 THEN head.pointer
             ELSE LET n == nth[k - 1] IN IF n = NULL THEN NULL ELSE mem[n].next.pointer
           Follows(g) ==
             g = [k \in 0..Cardinality(Nodes) |->
                    IF k = 0 THEN head.pointer
                    ELSE LET n == g[k - 1] IN IF n = NULL THEN NULL ELSE mem[n].next.pointer]
<1>1. IsWalk(nth)
  <2>1. nth = CHOOSE g : Follows(g)
    OBVIOUS
  <2>2. Follows(f)
    BY DEF IsWalk, Link
  <2>3. \A g : Follows(g) => IsWalk(g)
    BY DEF IsWalk, Link
  <2> HIDE DEF nth, Follows
  <2>4. Follows(nth)
    BY <2>1, <2>2
  <2> QED  BY <2>3, <2>4
<1>2. Chain = [i \in 1..Cardinality({k \in 0..Cardinality(Nodes) : nth[k] # NULL}) |-> nth[i - 1]]
  BY DEF Chain
<1> HIDE DEF nth
<1>3. nth = f
  BY <1>1, WalkUnfolds, WalkOnce
<1> QED  BY <1>2, <1>3

LEMMA ChainIs == ASSUME NEW s, IsList(s), NULL \notin Nodes PROVE Chain = s
<1> DEFINE c == Cardinality(Nodes)
           f == [k \in 0..c |-> IF k < Len(s) THEN s[k + 1] ELSE NULL]
<1>1. /\ s \in Seq(Nodes) /\ Len(s) \in Nat /\ Len(s) > 0 /\ c \in Nat /\ Len(s) <= c
      /\ \A i \in 1..Len(s) : s[i] \in Nodes
  BY ListFits DEF IsList
<1> HIDE DEF c
<1>2. /\ f[0] = s[1]
      /\ \A k \in 1..c : f[k] = IF k < Len(s) THEN s[k + 1] ELSE NULL
      /\ \A k \in 1..c : f[k - 1] = IF k <= Len(s) THEN s[k] ELSE NULL
  BY <1>1
<1>3. ASSUME NEW k \in 1..c PROVE f[k] = Link(f[k - 1])
  <2>1. CASE k < Len(s)
    BY <1>1, <1>2, <2>1 DEF IsList, Link
  <2>2. CASE k = Len(s)
    BY <1>1, <1>2, <2>2 DEF IsList, Link
  <2>3. CASE k > Len(s)
    <3>1. f[k] = NULL /\ f[k - 1] = NULL
      BY <1>1, <1>2, <2>3
    <3> QED  BY <3>1 DEF Link
  <2> QED  BY <1>1, <2>1, <2>2, <2>3
<1>4. f = [k \in 0..c |-> f[k]]
  OBVIOUS
<1>5. {k \in 0..c : f[k] # NULL} = 0..(Len(s) - 1)
  BY <1>1
<1>6. \A i \in 1..Len(s) : f[i - 1] = s[i]
  BY <1>1
<1> HIDE DEF f
<1>7. IsWalk(f)
  <2>1. \A k \in 0..c : f[k] = IF k = 0 THEN head.pointer ELSE Link(f[k - 1])
    BY <1>1, <1>2, <1>3 DEF IsList
  <2> QED  BY <1>4, <2>1 DEF IsWalk, c
<1>8. Cardinality({k \in 0..c : f[k] # NULL}) = Len(s)
  <2>1. 0 \in Int /\ Len(s) - 1 \in Int /\ ~(0 > Len(s) - 1) /\ Len(s) - 1 - 0 + 1 = Len(s)
    BY <1>1
  <2> QED  BY <1>5, <2>1, FS_Interval
<1>9. Chain = [i \in 1..Cardinality({k \in 0..c : f[k] # NULL}) |-> f[i - 1]]
  BY <1>1, <1>7, ChainWalks DEF c
<1>10. Chain = [i \in 1..Len(s) |-> f[i - 1]]
  BY <1>8, <1>9
<1> QED  BY <1>1, <1>6, <1>10

LEMMA ChainIsNow == \A s : IsList(s) => Chain = s
BY ChainIs, NodeAssumption

LEMMA ChainIsNext == (\A s : IsList(s) => Chain = s)'
BY ChainIsNow, PTL

LEMMA ChainEmpty ==
  ASSUME head.pointer = NULL, NULL \notin Nodes
  PROVE  Chain = <<>>
<1> DEFINE c == Cardinality(Nodes)
           f == [k \in 0..c |-> NULL]
<1>1. c \in Nat
  BY FS_CardinalityType, NodeAssumption
<1>2. f = [k \in 0..c |-> IF k = 0 THEN head.pointer ELSE Link(f[k - 1])]
  <2>1. \A k \in 0..c : NULL = IF k = 0 THEN head.pointer ELSE Link(f[k - 1])
    BY <1>1 DEF Link
  <2> QED  BY <2>1
<1>3. {k \in 0..c : f[k] # NULL} = {} /\ Cardinality({}) = 0
  BY FS_EmptySet
<1> HIDE DEF f
<1>4. Chain = [i \in 1..0 |-> f[i - 1]]
  BY <1>1, <1>2, <1>3, ChainWalks DEF IsWalk
<1> QED  BY <1>4

LEMMA ChainEmptyNow == head.pointer = NULL => Chain = <<>>
BY ChainEmpty, NodeAssumption

LEMMA ChainEmptyNext == (head.pointer = NULL => Chain = <<>>)'
BY ChainEmptyNow, PTL

-----------------------------------------------------------------------------
(* What the steps do to the list.                                          *)

ListInv == QType /\ InUse /\ IsList(Chain)

LEMMA ListFacts ==
  ASSUME ListInv
  PROVE  /\ Len(Chain) \in Nat \ {0}
         /\ Chain \in Seq(Nodes)
         /\ Chain = [i \in 1..Len(Chain) |-> Chain[i]]
         /\ Linked = {Chain[i] : i \in 1..Len(Chain)} /\ Linked \subseteq Nodes
         /\ head.pointer = Chain[1] /\ head.pointer \in Linked
         /\ Chain[Len(Chain)] \in Linked
         /\ mem[Chain[Len(Chain)]].next.pointer = NULL
         /\ \A i \in 1..(Len(Chain) - 1) : mem[Chain[i]].next.pointer = Chain[i + 1]
         /\ \A i, j \in 1..Len(Chain) : Chain[i] = Chain[j] => i = j
         /\ \A n \in Linked : mem[n].next.pointer = NULL => n = Chain[Len(Chain)]
         /\ \A n \in Linked : mem[n].next.pointer # NULL => mem[n].next.pointer \in Linked
<1>1. IsList(Chain) /\ NULL \notin Nodes
  BY NodeAssumption DEF ListInv
<1>2. /\ Len(Chain) \in Nat \ {0}
      /\ Chain \in Seq(Nodes)
      /\ Chain = [i \in 1..Len(Chain) |-> Chain[i]]
      /\ \A i \in 1..Len(Chain) : Chain[i] \in Nodes
  BY <1>1 DEF IsList
<1>3. Linked = {Chain[i] : i \in 1..Len(Chain)}
  BY DEF Linked
<1>4. \A i \in 1..(Len(Chain) - 1) : i + 1 \in 1..Len(Chain) /\ i \in 1..Len(Chain)
  BY <1>2
<1>5. \A i \in 1..Len(Chain) : i = Len(Chain) \/ i \in 1..(Len(Chain) - 1)
  BY <1>2
<1>6. ASSUME NEW n \in Linked
      PROVE  /\ mem[n].next.pointer = NULL => n = Chain[Len(Chain)]
             /\ mem[n].next.pointer # NULL => mem[n].next.pointer \in Linked
  <2>1. PICK i \in 1..Len(Chain) : n = Chain[i]
    BY <1>3
  <2>2. CASE i = Len(Chain)
    BY <1>1, <2>1, <2>2 DEF IsList
  <2>3. CASE i \in 1..(Len(Chain) - 1)
    BY <1>1, <1>2, <1>3, <1>4, <2>1, <2>3 DEF IsList
  <2> QED  BY <1>5, <2>2, <2>3
<1> QED  BY <1>1, <1>2, <1>3, <1>6 DEF IsList

\* head and the nodes stay.
LEMMA ListSame ==
  ASSUME head' = head, mem' = mem
  PROVE  /\ Chain' = Chain /\ Linked' = Linked /\ Contents' = Contents
         /\ IsList(Chain)' = IsList(Chain)
<1>1. Chain' = Chain
  BY DEF Chain
<1> QED  BY <1>1 DEF Linked, Contents, IsList

\* A node changes that is not on the list.
LEMMA ListApart ==
  ASSUME ListInv, head' = head, NEW n \in Nodes, n \notin Linked,
         NEW r, mem' = [mem EXCEPT ![n] = r]
  PROVE  /\ Chain' = Chain /\ Linked' = Linked /\ Contents' = Contents
         /\ IsList(Chain)'
<1>1. PICK s : s = Chain
  OBVIOUS
<1>2. \A i \in 1..Len(s) : mem'[s[i]] = mem[s[i]] /\ s[i] \in Linked
  BY <1>1, ListFacts DEF ListInv, QType
<1>3. s \in Seq(Nodes) /\ Len(s) \in Nat \ {0} /\ IsList(s)
  BY <1>1, ListFacts DEF ListInv
<1>4. IsList(s)'
  BY <1>2, <1>3 DEF IsList
<1>5. Chain' = s
  BY <1>4, ChainIsNext
<1>6. Linked' = Linked /\ IsList(Chain)'
  BY <1>1, <1>4, <1>5 DEF Linked
<1>7. Contents' = Contents
  BY <1>1, <1>2, <1>3, <1>5 DEF Contents
<1> QED  BY <1>1, <1>5, <1>6, <1>7

\* A node without successor is linked behind the last one.
LEMMA ListLink ==
  ASSUME ListInv, head' = head, NEW t \in Linked, mem[t].next.pointer = NULL,
         NEW n \in Nodes, n \notin Linked, mem[n].next.pointer = NULL,
         NEW c, mem' = [mem EXCEPT ![t].next = Ptr(n, c)]
  PROVE  /\ Chain' = Append(Chain, n) /\ IsList(Chain)' /\ Linked' = Linked \cup {n}
         /\ Contents' = Append(Contents, mem[n].value)
<1>1. PICK s : s = Chain
  OBVIOUS
<1>2. /\ s \in Seq(Nodes) /\ Len(s) \in Nat \ {0} /\ IsList(s) /\ n # NULL
      /\ \A i \in 1..Len(s) : s[i] \in Linked
      /\ t = s[Len(s)]
  BY <1>1, ListFacts, NodeAssumption DEF ListInv
<1>3. PICK r : r = Append(s, n)
  OBVIOUS
<1>4. /\ r \in Seq(Nodes) /\ r # <<>> /\ Len(r) = Len(s) + 1
      /\ r[Len(s) + 1] = n
      /\ \A i \in 1..Len(s) : r[i] = s[i]
  BY <1>2, <1>3
<1>5. /\ \A m \in Nodes \ {t} : mem'[m] = mem[m]
      /\ mem'[t].next.pointer = n
      /\ mem'[t].value = mem[t].value
  BY <1>2 DEF ListInv, QType, Ptr
<1>6. /\ \A i \in 1..(Len(s) - 1) : s[i] \in Nodes /\ s[i] # t
      /\ n # t
  <2>1. \A i \in 1..(Len(s) - 1) : i \in 1..Len(s) /\ Len(s) \in 1..Len(s) /\ i # Len(s)
    BY <1>2
  <2>2. \A i \in 1..(Len(s) - 1) : s[i] # s[Len(s)]
    BY <1>2, <2>1 DEF IsList
  <2> QED  BY <1>2, <2>1, <2>2
<1>7. \A i \in 1..(Len(r) - 1) : mem'[r[i]].next.pointer = r[i + 1]
  <2>1. ASSUME NEW i \in 1..(Len(s) - 1) PROVE mem'[r[i]].next.pointer = r[i + 1]
    BY <1>2, <1>4, <1>5, <1>6 DEF IsList
  <2>2. mem'[r[Len(s)]].next.pointer = r[Len(s) + 1]
    BY <1>2, <1>4, <1>5
  <2> QED  BY <1>2, <1>4, <2>1, <2>2
<1>8. \A i, j \in 1..Len(r) : r[i] = r[j] => i = j
  <2>1. \A i \in 1..Len(r) : i \in 1..Len(s) \/ i = Len(s) + 1
    BY <1>2, <1>4
  <2>2. \A i \in 1..Len(s) : r[i] # n
    BY <1>2, <1>4
  <2> QED  BY <1>2, <1>4, <2>1, <2>2 DEF IsList
<1>9. IsList(r)'
  BY <1>2, <1>4, <1>5, <1>6, <1>7, <1>8 DEF IsList
<1>10. Chain' = r
  BY <1>9, ChainIsNext
<1>11. Linked' = Linked \cup {n}
  <2>1. Linked = {s[i] : i \in 1..Len(s)} /\ Linked' = {r[i] : i \in 1..Len(r)}
    BY <1>1, <1>10 DEF Linked
  <2>2. \A i \in 1..Len(r) : i \in 1..Len(s) \/ i = Len(s) + 1
    BY <1>2, <1>4
  <2>3. Len(s) + 1 \in 1..Len(r) /\ \A i \in 1..Len(s) : i \in 1..Len(r)
    BY <1>2, <1>4
  <2>4. Linked' \subseteq Linked \cup {n}
    BY <1>4, <2>1, <2>2
  <2>5. Linked \subseteq Linked' /\ n \in Linked'
    BY <1>4, <2>1, <2>3
  <2> QED  BY <2>4, <2>5
<1>12. Contents' = Append(Contents, mem[n].value)
  <2>1. \A m \in Nodes : mem'[m].value = mem[m].value
    BY <1>5
  <2>2. Contents = [i \in 1..(Len(s) - 1) |-> mem[s[i + 1]].value]
    BY <1>1 DEF Contents
  <2>3. Contents' = [i \in 1..Len(s) |-> mem'[r[i + 1]].value]
    BY <1>2, <1>4, <1>10 DEF Contents
  <2>4. \A i \in 1..Len(s) : mem'[r[i + 1]].value =
                               IF i = Len(s) THEN mem[n].value ELSE mem[s[i + 1]].value
    BY <1>2, <1>4, <2>1
  <2>5. PICK q : q = Contents
    OBVIOUS
  <2>6. Len(q) = Len(s) - 1 /\ \A i \in 1..(Len(s) - 1) : q[i] = mem[s[i + 1]].value
    BY <1>2, <2>2, <2>5
  <2>7. PICK S : S = {mem[m].value : m \in Nodes}
    OBVIOUS
  <2>8. PICK v : v = mem[n].value /\ v \in S
    BY <2>7
  <2>9. PICK z : z = Contents'
    OBVIOUS
  <2>10. z = [i \in 1..(Len(q) + 1) |-> z[i]]
    BY <1>2, <2>3, <2>6, <2>9
  <2>11. \A i \in 1..Len(q) : z[i] = q[i]
    BY <1>2, <2>3, <2>4, <2>6, <2>9
  <2>12. z[Len(q) + 1] = v
    BY <1>2, <2>3, <2>4, <2>6, <2>8, <2>9
  <2>13. q \in Seq(S)
    BY <1>2, <2>2, <2>5, <2>7
  <2>14. z = Append(q, v)
    BY <2>8, <2>10, <2>11, <2>12, <2>13, AppendIs
  <2> QED  BY <2>5, <2>8, <2>9, <2>14
<1> QED  BY <1>1, <1>3, <1>9, <1>10, <1>11, <1>12

\* The head moves on to the second node.
LEMMA ListTake ==
  ASSUME ListInv, mem' = mem, mem[head.pointer].next.pointer # NULL,
         head'.pointer = mem[head.pointer].next.pointer
  PROVE  /\ Chain' = Tail(Chain) /\ IsList(Chain)' /\ Linked' = Linked \ {head.pointer}
         /\ Len(Chain) > 1
         /\ Contents # <<>> /\ Contents' = Tail(Contents)
         /\ Head(Contents) = mem[head'.pointer].value
<1>1. PICK s : s = Chain
  OBVIOUS
<1>2. /\ s \in Seq(Nodes) /\ Len(s) \in Nat \ {0} /\ IsList(s)
      /\ head.pointer = s[1] /\ Len(s) > 1
      /\ head'.pointer = s[2]
  BY <1>1, ListFacts, NodeAssumption DEF ListInv
<1>3. PICK r : r = Tail(s)
  OBVIOUS
<1>4. /\ r \in Seq(Nodes) /\ r # <<>> /\ Len(r) = Len(s) - 1
      /\ \A i \in 1..(Len(s) - 1) : r[i] = s[i + 1]
  <2>1. s # <<>>
    BY <1>2 DEF IsList
  <2>2. /\ r \in Seq(Nodes) /\ Len(r) = Len(s) - 1
        /\ \A i \in 1..(Len(s) - 1) : r[i] = s[i + 1]
    BY <1>2, <1>3, <2>1, HeadTailProperties
  <2> QED  BY <1>2, <2>2
<1>5. IsList(r)'
  <2>1. /\ r[1] = head'.pointer
        /\ \A i \in 1..(Len(r) - 1) : mem[r[i]].next.pointer = r[i + 1]
        /\ mem[r[Len(r)]].next.pointer = NULL
    BY <1>2, <1>4 DEF IsList
  <2>2. \A i, j \in 1..Len(r) : r[i] = r[j] => i = j
    <3>1. \A i, j \in 1..Len(r) : s[i + 1] = s[j + 1] => i + 1 = j + 1
      BY <1>2, <1>4 DEF IsList
    <3> QED  BY <1>2, <1>4, <3>1
  <2> QED  BY <1>4, <2>1, <2>2 DEF IsList
<1>6. Chain' = r
  BY <1>5, ChainIsNext
<1>7. Linked' = Linked \ {head.pointer}
  <2>1. \A i \in 2..Len(s) : s[i] # s[1]
    BY <1>2 DEF IsList
  <2>2. Linked = {s[i] : i \in 1..Len(s)} /\ Linked' = {r[i] : i \in 1..Len(r)}
    BY <1>1, <1>6 DEF Linked
  <2>3. ASSUME NEW x PROVE x \in Linked' => x \in Linked \ {s[1]}
    BY <1>2, <1>4, <2>1, <2>2
  <2>4. ASSUME NEW x \in Linked, x # s[1] PROVE x \in Linked'
    <3>1. PICK i \in 2..Len(s) : x = s[i]
      BY <1>2, <2>2, <2>4
    <3>2. i - 1 \in 1..Len(r) /\ x = r[i - 1]
      BY <1>2, <1>4, <3>1
    <3> QED  BY <2>2, <3>2
  <2> QED  BY <1>2, <2>3, <2>4
<1>8. /\ Contents # <<>> /\ Contents' = Tail(Contents)
      /\ Head(Contents) = mem[head'.pointer].value
  <2>1. Contents = [i \in 1..(Len(s) - 1) |-> mem[s[i + 1]].value]
    BY <1>1 DEF Contents
  <2>2. Contents' = [i \in 1..(Len(s) - 2) |-> mem[r[i + 1]].value]
    BY <1>2, <1>4, <1>6 DEF Contents
  <2>3. \A i \in 1..(Len(s) - 2) : r[i + 1] = s[i + 2]
    BY <1>2, <1>4
  <2>4. PICK q : q = Contents
    OBVIOUS
  <2>5. /\ q \in Seq({mem[m].value : m \in Nodes}) /\ Len(q) = Len(s) - 1 /\ Len(q) > 0
        /\ \A i \in 1..Len(q) : q[i] = mem[s[i + 1]].value
    BY <1>2, <2>1, <2>4
  <2>6. q # <<>> /\ Head(q) = mem[s[2]].value
    BY <2>5
  <2>7. \A z : z = [i \in 1..(Len(q) - 1) |-> q[i + 1]] => z = Tail(q)
    BY <2>5, <2>6, TailIs
  <2>8. \A i \in 1..(Len(q) - 1) : q[i + 1] = mem[r[i + 1]].value
    BY <1>2, <2>3, <2>5
  <2>9. Contents' = [i \in 1..(Len(q) - 1) |-> q[i + 1]]
    BY <1>2, <2>2, <2>5, <2>8
  <2> QED  BY <1>2, <2>4, <2>6, <2>7, <2>9
<1> QED  BY <1>1, <1>2, <1>3, <1>5, <1>6, <1>7, <1>8

-----------------------------------------------------------------------------
(* What a step leaves of what the other processes know.                    *)

Using == ListInv /\ Near

LEMMA Types ==
  ASSUME QType, NEW p \in Procs
  PROVE  /\ head \in Pointers /\ tail \in Pointers
         /\ head.pointer \in Nodes \cup {NULL} /\ head.counter \in Nat
         /\ tail.pointer \in Nodes \cup {NULL} /\ tail.counter \in Nat
         /\ pc[p] \in Labels
         /\ loc[p] \in Locals
         /\ loc[p].node \in Nodes \cup {NULL} /\ loc[p].val \in Values
         /\ loc[p].head \in Pointers /\ loc[p].tail \in Pointers /\ loc[p].next \in Pointers
         /\ loc[p].head.pointer \in Nodes \cup {NULL} /\ loc[p].head.counter \in Nat
         /\ loc[p].tail.pointer \in Nodes \cup {NULL} /\ loc[p].tail.counter \in Nat
         /\ loc[p].next.pointer \in Nodes \cup {NULL} /\ loc[p].next.counter \in Nat
         /\ half[p] \in {{}, {"pointer"}, {"counter"}}
         /\ call[p] \in Calls
         /\ \A n \in Nodes : /\ mem[n] \in [value : Values, next : Pointers]
                             /\ mem[n].value \in Values
                             /\ mem[n].next \in Pointers
                             /\ mem[n].next.pointer \in Nodes \cup {NULL}
                             /\ mem[n].next.counter \in Nat
<1>1. /\ head \in Pointers /\ tail \in Pointers
      /\ pc[p] \in Labels
      /\ loc[p] \in Locals
      /\ half[p] \in {{}, {"pointer"}, {"counter"}}
      /\ call[p] \in Calls
      /\ \A n \in Nodes : mem[n] \in [value : Values, next : Pointers]
  BY DEF QType
<1>2. /\ loc[p].node \in Nodes \cup {NULL} /\ loc[p].val \in Values
      /\ loc[p].head \in Pointers /\ loc[p].tail \in Pointers /\ loc[p].next \in Pointers
  BY <1>1 DEF Locals
<1>3. \A n \in Nodes : mem[n].value \in Values /\ mem[n].next \in Pointers
  BY <1>1
<1>4. \A c \in Pointers : c.pointer \in Nodes \cup {NULL} /\ c.counter \in Nat
  BY DEF Pointers
<1> QED  BY <1>1, <1>2, <1>3, <1>4

\* head is the first node, so that nothing comes before it, and tail is on the list.
LEMMA Ends ==
  ASSUME Using
  PROVE  /\ head.pointer \in Linked /\ tail.pointer \in Linked /\ Linked \subseteq Nodes
         /\ \A n \in Linked : mem[n].next.pointer # head.pointer
         /\ \A n \in Linked : mem[n].next.pointer # NULL => mem[n].next.pointer \in Linked
         /\ NULL \notin Nodes
<1>1. PICK s : s = Chain
  OBVIOUS
<1>2. /\ s \in Seq(Nodes) /\ Len(s) \in Nat \ {0} /\ IsList(s)
      /\ Linked = {s[i] : i \in 1..Len(s)} /\ Linked \subseteq Nodes
      /\ head.pointer = s[1] /\ head.pointer \in Linked
      /\ \A n \in Linked : mem[n].next.pointer # NULL => mem[n].next.pointer \in Linked
      /\ NULL \notin Nodes
  BY <1>1, ListFacts, NodeAssumption DEF Using, ListInv
<1>3. tail.pointer \in Linked
  BY <1>1, <1>2 DEF Using, Near
<1>4. ASSUME NEW n \in Linked PROVE mem[n].next.pointer # head.pointer
  <2>1. PICK i \in 1..Len(s) : n = s[i]
    BY <1>2
  <2>2. CASE i = Len(s)
    BY <1>2, <2>1, <2>2 DEF IsList
  <2>3. CASE i \in 1..(Len(s) - 1)
    <3>1. mem[n].next.pointer = s[i + 1]
      BY <1>2, <2>1, <2>3 DEF IsList
    <3>2. i + 1 \in 1..Len(s) /\ 1 \in 1..Len(s) /\ i + 1 # 1
      BY <1>2, <2>3
    <3>3. s[i + 1] # s[1]
      BY <1>2, <3>2 DEF IsList
    <3> QED  BY <1>2, <3>1, <3>3
  <2> QED  BY <1>2, <2>2, <2>3
<1> QED  BY <1>2, <1>3, <1>4

Stays(q) ==
  pc'[q] = pc[q] /\ loc'[q] = loc[q] /\ half'[q] = half[q] /\ call'[q] = call[q]

LEMMA KnowsSame ==
  ASSUME NEW q \in Procs, Knows(q), Stays(q), head' = head, tail' = tail, mem' = mem
  PROVE  Knows(q)'
BY DEF Stays, Knows, TailSeen, HeadSeen, OwnNode, EndSeen, NextEnd, SuccessorSeen, Behind,
       AheadSeen, EmptySeen, EmptyOrNot, CallSeen

\* A node changes that is not on the list; its next pointer keeps its counter.
LEMMA KnowsApart ==
  ASSUME NEW q \in Procs, Using, Knows(q), Stays(q), head' = head, tail' = tail,
         NEW n \in Nodes, n \notin Linked, n \notin Unlinked(q),
         \A m \in Nodes \ {n} : mem'[m] = mem[m],
         mem'[n].next.counter = mem[n].next.counter,
         mem'[n].next.pointer \in {NULL, mem[n].next.pointer}
  PROVE  Knows(q)'
<1>1. /\ head.pointer # n /\ tail.pointer # n
      /\ head.pointer \in Nodes /\ tail.pointer \in Nodes
      /\ mem[head.pointer].next.pointer # NULL =>
           mem[head.pointer].next.pointer # n /\ mem[head.pointer].next.pointer \in Nodes
  BY Ends
<1>2. \A m \in Nodes : /\ mem'[m].next.counter = mem[m].next.counter
                       /\ mem[m].next.pointer = NULL => mem'[m].next.pointer = NULL
  OBVIOUS
<1>3. pc[q] \in Linking => loc[q].node # n
  BY DEF Unlinked, Linking
<1>4. QType
  BY DEF Using, ListInv
<1>5. TailSeen(q)' /\ HeadSeen(q)' /\ EmptySeen(q)' /\ CallSeen(q)'
  BY DEF Stays, Knows, TailSeen, HeadSeen, EmptySeen, EmptyOrNot, CallSeen
<1>6. OwnNode(q)'
  BY <1>3 DEF Stays, Knows, OwnNode
<1>7. EndSeen(q)'
  BY <1>2 DEF Stays, Knows, EndSeen, NextEnd, TailSeen
<1>8. SuccessorSeen(q)'
  BY <1>1 DEF Stays, Knows, SuccessorSeen, Behind
<1>9. AheadSeen(q)'
  <2> SUFFICES ASSUME head = loc[q].head PROVE AheadSeen(q)'
    BY DEF Stays, AheadSeen
  <2>1. mem'[loc[q].head.pointer] = mem[loc[q].head.pointer]
    BY <1>1
  <2>2. /\ pc[q] \in {"d_check", "d_value", "d_take"} /\ loc[q].next.pointer # NULL
        => mem[loc[q].head.pointer].next.pointer = loc[q].next.pointer
    BY DEF Knows, AheadSeen
  <2>3. pc[q] = "d_take" => mem'[loc[q].next.pointer] = mem[loc[q].next.pointer]
    BY <1>1, <2>2 DEF Knows, EmptySeen
  <2> QED  BY <2>1, <2>2, <2>3 DEF Stays, Knows, AheadSeen
<1> QED  BY <1>5, <1>6, <1>7, <1>8, <1>9 DEF Knows

\* The node tail names, which has no successor, gets one.
LEMMA KnowsLink ==
  ASSUME NEW q \in Procs, Using, Knows(q), Stays(q), head' = head, tail' = tail,
         mem[tail.pointer].next.pointer = NULL,
         \A m \in Nodes \ {tail.pointer} : mem'[m] = mem[m],
         mem'[tail.pointer].value = mem[tail.pointer].value,
         mem'[tail.pointer].next.counter \in Nat,
         mem'[tail.pointer].next.counter > mem[tail.pointer].next.counter,
         pc[q] \in Linking => loc[q].node # tail.pointer
  PROVE  Knows(q)'
<1>1. /\ head.pointer \in Nodes /\ tail.pointer \in Nodes
      /\ mem[head.pointer].next.pointer # NULL => mem[head.pointer].next.pointer \in Nodes
      /\ NULL \notin Nodes
      /\ QType
  BY Ends DEF Using, ListInv
<1>2. /\ loc[q].next.counter \in Nat
      /\ \A m \in Nodes : mem[m].next.counter \in Nat
  BY <1>1, Types
<1>3. TailSeen(q)' /\ HeadSeen(q)' /\ EmptySeen(q)' /\ CallSeen(q)'
  BY DEF Stays, Knows, TailSeen, HeadSeen, EmptySeen, EmptyOrNot, CallSeen
<1>4. OwnNode(q)'
  BY DEF Stays, Knows, OwnNode
<1>5. EndSeen(q)'
  <2>1. CASE pc[q] \in {"e_check", "e_link"} /\ loc[q].tail.pointer = tail.pointer
    <3>1. loc[q].next.counter < mem'[loc[q].tail.pointer].next.counter
      BY <1>1, <1>2, <2>1 DEF Knows, EndSeen
    <3>2. ~NextEnd(q)'
      BY <1>1, <1>2, <3>1 DEF Stays, NextEnd
    <3> QED  BY <1>1, <1>2, <2>1, <3>1, <3>2 DEF Stays, Knows, EndSeen
  <2>2. CASE loc[q].tail.pointer # tail.pointer
    BY <2>2 DEF Stays, Knows, EndSeen, NextEnd, TailSeen
  <2>3. CASE pc[q] \notin {"e_check", "e_link"}
    BY <2>3 DEF Stays, EndSeen
  <2> QED  BY <2>1, <2>2, <2>3
<1>6. SuccessorSeen(q)'
  BY <1>1 DEF Stays, Knows, SuccessorSeen, Behind
<1>7. AheadSeen(q)'
  <2> SUFFICES ASSUME head = loc[q].head PROVE AheadSeen(q)'
    BY DEF Stays, AheadSeen
  <2>1. /\ pc[q] \in {"d_check", "d_value", "d_take"} /\ loc[q].next.pointer # NULL
        => /\ mem[loc[q].head.pointer].next.pointer = loc[q].next.pointer
           /\ loc[q].head.pointer # tail.pointer
           /\ mem'[loc[q].head.pointer] = mem[loc[q].head.pointer]
    BY <1>1 DEF Knows, AheadSeen
  <2>2. pc[q] = "d_take" => mem'[loc[q].next.pointer].value = mem[loc[q].next.pointer].value
    BY <1>1, <2>1 DEF Knows, EmptySeen
  <2> QED  BY <2>1, <2>2 DEF Stays, Knows, AheadSeen
<1> QED  BY <1>3, <1>4, <1>5, <1>6, <1>7 DEF Knows

\* tail moves to the successor.
Swings ==
  /\ mem[tail.pointer].next.pointer # NULL
  /\ tail' = Ptr(mem[tail.pointer].next.pointer, tail.counter + 1)

LEMMA KnowsSwing ==
  ASSUME NEW q \in Procs, Using, Knows(q), Stays(q), head' = head, mem' = mem, Swings
  PROVE  Knows(q)'
<1>1. /\ tail'.pointer # head.pointer
      /\ QType
  BY Ends DEF Using, ListInv, Swings, Ptr
<1>2. tail'.counter = tail.counter + 1 /\ tail.counter \in Nat /\ loc[q].tail.counter \in Nat
  BY <1>1, Types DEF Swings, Ptr
<1>3. HeadSeen(q)' /\ EmptySeen(q)' /\ CallSeen(q)' /\ OwnNode(q)'
  BY DEF Stays, Knows, HeadSeen, EmptySeen, EmptyOrNot, CallSeen, OwnNode
<1>4. TailSeen(q)'
  BY <1>2 DEF Stays, Knows, TailSeen
<1>5. EndSeen(q)'
  BY DEF Stays, Knows, EndSeen, NextEnd, Swings
<1>6. SuccessorSeen(q)'
  <2>1. pc[q] \in {"e_check", "e_help", "e_swing", "d_check", "d_help"} => tail' # loc[q].tail
    BY <1>2 DEF Knows, TailSeen
  <2> QED  BY <2>1 DEF Stays, Knows, SuccessorSeen, Behind
<1>7. AheadSeen(q)'
  BY <1>1 DEF Stays, Knows, AheadSeen
<1> QED  BY <1>3, <1>4, <1>5, <1>6, <1>7 DEF Knows

\* head moves to the successor.
Takes ==
  /\ mem[head.pointer].next.pointer # NULL
  /\ head' = Ptr(mem[head.pointer].next.pointer, head.counter + 1)

LEMMA KnowsTake ==
  ASSUME NEW q \in Procs, Using, Knows(q), Stays(q), tail' = tail, mem' = mem, Takes
  PROVE  Knows(q)'
<1>1. QType
  BY DEF Using, ListInv
<1>2. head'.counter = head.counter + 1 /\ head.counter \in Nat /\ loc[q].head.counter \in Nat
  BY <1>1, Types DEF Takes, Ptr
<1>3. TailSeen(q)' /\ CallSeen(q)' /\ OwnNode(q)' /\ EndSeen(q)' /\ SuccessorSeen(q)'
  BY DEF Stays, Knows, TailSeen, CallSeen, OwnNode, EndSeen, NextEnd, SuccessorSeen, Behind
<1>4. HeadSeen(q)'
  BY <1>2 DEF Stays, Knows, HeadSeen
<1>5. pc[q] \in {"d_next", "d_check", "d_value", "d_take"} => head' # loc[q].head
  BY <1>2 DEF Knows, HeadSeen
<1>6. AheadSeen(q)' /\ EmptySeen(q)'
  BY <1>5 DEF Stays, Knows, AheadSeen, EmptySeen, EmptyOrNot
<1> QED  BY <1>3, <1>4, <1>6 DEF Knows

-----------------------------------------------------------------------------
(* The list after a step on shared memory.                                 *)

Shape == InUse /\ IsList(Chain) /\ Near

LEMMA UsingIs == Using <=> QType /\ Shape
BY DEF Using, ListInv, Shape

LEMMA ShapeSame ==
  ASSUME Shape, head' = head, tail' = tail, mem' = mem
  PROVE  Shape' /\ Linked' = Linked /\ Contents' = Contents
BY ListSame DEF Shape, InUse, Near

LEMMA ShapeApart ==
  ASSUME Using, head' = head, tail' = tail, NEW n \in Nodes, n \notin Linked,
         NEW r, mem' = [mem EXCEPT ![n] = r]
  PROVE  Shape' /\ Linked' = Linked /\ Contents' = Contents
<1>1. Chain' = Chain /\ Linked' = Linked /\ Contents' = Contents /\ IsList(Chain)'
  BY ListApart DEF Using
<1> QED  BY <1>1 DEF Using, ListInv, Shape, InUse, Near

LEMMA ShapeLink ==
  ASSUME Using, head' = head, tail' = tail, mem[tail.pointer].next.pointer = NULL,
         NEW n \in Nodes, n \notin Linked, mem[n].next.pointer = NULL,
         NEW c, mem' = [mem EXCEPT ![tail.pointer].next = Ptr(n, c)]
  PROVE  Shape' /\ Linked' = Linked \cup {n} /\ Contents' = Append(Contents, mem[n].value)
<1>1. PICK s : s = Chain
  OBVIOUS
<1>2. ListInv /\ tail.pointer \in Linked
  BY Ends DEF Using
<1>3. /\ Chain' = Append(s, n) /\ IsList(Chain)' /\ Linked' = Linked \cup {n}
      /\ Contents' = Append(Contents, mem[n].value)
  BY <1>1, <1>2, ListLink
<1>4. s \in Seq(Nodes) /\ Len(s) \in Nat \ {0} /\ tail.pointer = s[Len(s)]
  BY <1>1, <1>2, ListFacts
<1>5. Len(Append(s, n)) = Len(s) + 1 /\ Append(s, n)[Len(s)] = s[Len(s)]
  BY <1>4
<1>6. PICK r : r = Append(s, n)
  OBVIOUS
<1>7. Len(r) > 1 /\ r[Len(r) - 1] = s[Len(s)]
  BY <1>4, <1>5, <1>6
<1>8. Near'
  BY <1>3, <1>4, <1>6, <1>7 DEF Near
<1> QED  BY <1>3, <1>8 DEF Using, ListInv, Shape, InUse

LEMMA ShapeSwing ==
  ASSUME Using, head' = head, mem' = mem, Swings
  PROVE  Shape' /\ Linked' = Linked /\ Contents' = Contents
<1>1. Chain' = Chain /\ Linked' = Linked /\ Contents' = Contents /\ IsList(Chain)'
  BY ListSame DEF Using, ListInv
<1>2. PICK s : s = Chain
  OBVIOUS
<1>3. /\ s \in Seq(Nodes) /\ Len(s) \in Nat \ {0}
      /\ mem[s[Len(s)]].next.pointer = NULL
      /\ \A i \in 1..(Len(s) - 1) : mem[s[i]].next.pointer = s[i + 1]
  BY <1>2, ListFacts DEF Using
<1>4. Len(s) > 1 /\ tail.pointer = s[Len(s) - 1]
  BY <1>2, <1>3 DEF Using, Near, Swings
<1>5. mem[tail.pointer].next.pointer = s[Len(s)]
  BY <1>3, <1>4
<1>6. tail'.pointer = s[Len(s)]
  BY <1>5 DEF Swings, Ptr
<1> QED  BY <1>1, <1>2, <1>6 DEF Using, ListInv, Shape, InUse, Near

LEMMA ShapeTake ==
  ASSUME Using, tail' = tail, mem' = mem, Takes, tail.pointer # head.pointer
  PROVE  /\ Shape' /\ Linked' = Linked \ {head.pointer}
         /\ Contents # <<>> /\ Contents' = Tail(Contents)
         /\ Head(Contents) = mem[head'.pointer].value
<1>1. PICK s : s = Chain
  OBVIOUS
<1>2. head'.pointer = mem[head.pointer].next.pointer
  BY DEF Takes, Ptr
<1>3. /\ Chain' = Tail(s) /\ IsList(Chain)' /\ Linked' = Linked \ {head.pointer}
      /\ Len(s) > 1
      /\ Contents # <<>> /\ Contents' = Tail(Contents)
      /\ Head(Contents) = mem[head'.pointer].value
  BY <1>1, <1>2, ListTake DEF Using, Takes
<1>4. s \in Seq(Nodes) /\ s # <<>> /\ Len(s) \in Nat \ {0} /\ head.pointer = s[1]
  BY <1>1, ListFacts DEF Using
<1>5. PICK r : r = Tail(s)
  OBVIOUS
<1>6. Len(r) = Len(s) - 1 /\ \A i \in 1..(Len(s) - 1) : r[i] = s[i + 1]
  BY <1>4, <1>5, HeadTailProperties
<1>7. tail.pointer = s[Len(s)] \/ tail.pointer = s[Len(s) - 1]
  BY <1>1 DEF Using, Near
<1>8. Chain' = r
  BY <1>3, <1>5
<1>9. InUse' /\ IsList(Chain)'
  BY <1>2, <1>3 DEF InUse, Takes
<1>10. CASE tail.pointer = s[Len(s)]
  <2>1. tail'.pointer = r[Len(r)]
    BY <1>3, <1>4, <1>6, <1>10
  <2>2. Near'
    BY <1>8, <2>1 DEF Near
  <2> QED  BY <1>3, <1>9, <2>2 DEF Shape
<1>11. CASE tail.pointer = s[Len(s) - 1]
  <2>1. Len(s) - 1 # 1
    BY <1>3, <1>4, <1>11
  <2>2. Len(r) > 1 /\ tail'.pointer = r[Len(r) - 1]
    <3>1. Len(s) > 2 /\ Len(s) \in Nat /\ Len(r) = Len(s) - 1
      BY <1>3, <1>4, <1>6, <2>1
    <3>2. r[Len(s) - 2] = s[Len(s) - 1]
      BY <1>6, <3>1
    <3> QED  BY <1>11, <3>1, <3>2
  <2>3. Near'
    BY <1>8, <2>2 DEF Near
  <2> QED  BY <1>3, <1>9, <2>3 DEF Shape
<1> QED  BY <1>7, <1>10, <1>11

-----------------------------------------------------------------------------
(* The steps.                                                              *)

Build == KeepsCounter /\ WholeCopies /\ ReadsAgain

\* loc.f = src.
LEMMA CopyDoes ==
  ASSUME Build, QType, NEW p \in Procs, NEW src \in Pointers, NEW l,
         NEW f \in {"head", "tail", "next"}, Copy(p, f, src, l)
  PROVE  /\ loc' \in [Procs -> Locals]
         /\ pc' = [pc EXCEPT ![p] = l] /\ pc'[p] = l /\ half' = half
         /\ \A q \in Procs \ {p} : pc'[q] = pc[q] /\ loc'[q] = loc[q]
         /\ loc'[p].node = loc[p].node /\ loc'[p].val = loc[p].val
         /\ f = "head" => loc'[p].head = src /\ loc'[p].tail = loc[p].tail
                           /\ loc'[p].next = loc[p].next
         /\ f = "tail" => loc'[p].tail = src /\ loc'[p].head = loc[p].head
                           /\ loc'[p].next = loc[p].next
         /\ f = "next" => loc'[p].next = src /\ loc'[p].head = loc[p].head
                           /\ loc'[p].tail = loc[p].tail
<1>1. /\ loc' = [loc EXCEPT ![p][f] = src]
      /\ pc' = [pc EXCEPT ![p] = l]
      /\ half' = half
  BY DEF Copy, Goto, Build
<1>2. pc \in [Procs -> Labels] /\ loc \in [Procs -> Locals]
  BY DEF QType
<1>3. CASE f = "head"
  BY <1>1, <1>2, <1>3 DEF Locals
<1>4. CASE f = "tail"
  BY <1>1, <1>2, <1>4 DEF Locals
<1>5. CASE f = "next"
  BY <1>1, <1>2, <1>5 DEF Locals
<1> QED  BY <1>3, <1>4, <1>5

\* if (loc.f == src), one half of it.
LEMMA CompareDoes ==
  ASSUME Build, QType, NEW p \in Procs, NEW f \in {"head", "tail"}, NEW src \in Pointers,
         NEW equal \in Labels, NEW different \in Labels, different \notin {"e_check", "d_check"},
         equal \notin {"e_check", "d_check"},
         Compare(p, f, src, equal, different)
  PROVE  /\ pc' \in [Procs -> Labels] /\ half' \in [Procs -> {{}, {"pointer"}, {"counter"}}]
         /\ \A q \in Procs \ {p} : pc'[q] = pc[q] /\ half'[q] = half[q]
         /\ \/ pc'[p] = different /\ half'[p] = {}
            \/ /\ half[p] = {} /\ pc'[p] = pc[p]
               /\ "pointer" \in half'[p] => loc[p][f].pointer = src.pointer
               /\ "counter" \in half'[p] => loc[p][f].counter = src.counter
            \/ /\ pc'[p] = equal /\ half'[p] = {}
               /\ \/ "pointer" \in half[p] /\ loc[p][f].counter = src.counter
                  \/ "counter" \in half[p] /\ loc[p][f].pointer = src.pointer
<1>1. PICK h \in Halves \ half[p] :
        IF loc[p][f][h] # src[h]
        THEN pc' = [pc EXCEPT ![p] = different] /\ half' = [half EXCEPT ![p] = {}]
        ELSE /\ half' = [half EXCEPT ![p] = IF @ = {} THEN {h} ELSE {}]
             /\ IF half[p] = {} THEN pc' = pc ELSE pc' = [pc EXCEPT ![p] = equal]
  BY DEF Compare, Goto, Build
<1>2. /\ pc \in [Procs -> Labels]
      /\ half \in [Procs -> {{}, {"pointer"}, {"counter"}}]
      /\ h \in {"pointer", "counter"} /\ h \notin half[p]
  BY <1>1 DEF QType, Halves
<1>3. CASE h = "pointer"
  BY <1>1, <1>2, <1>3
<1>4. CASE h = "counter"
  BY <1>1, <1>2, <1>4
<1> QED  BY <1>2, <1>3, <1>4

LEMMA Facts ==
  ASSUME QInv, InUse
  PROVE  QType /\ Using /\ Shape /\ Places /\ \A q \in Procs : Knows(q)
BY DEF QInv, Using, ListInv, Shape

\* Every process but p stays where it is.
Others(p) == \A q \in Procs \ {p} : Stays(q)

LEMMA HeldStays == ASSUME NEW q \in Procs, Stays(q) PROVE Held(q)' = Held(q)
BY DEF Stays, Held, Unlinked, ToFree

LEMMA InvNext ==
  ASSUME QType', Shape', Places', \A q \in Procs : Knows(q)'
  PROVE  QInv'
BY DEF QInv, Shape

\* A step of p that leaves the shared memory alone.
LEMMA LocalStep ==
  ASSUME QInv, InUse, NEW p \in Procs, head' = head, tail' = tail, mem' = mem, free' = free,
         QType', Others(p), Held(p)' = Held(p), Knows(p)'
  PROVE  QInv'
<1>1. Shape' /\ Linked' = Linked
  BY Facts, ShapeSame
<1>2. \A q \in Procs : Held(q)' = Held(q)
  BY HeldStays DEF Others
<1>3. Places'
  BY <1>1, <1>2, Facts DEF Places
<1>4. \A q \in Procs \ {p} : Knows(q)'
  BY Facts, KnowsSame DEF Others
<1> QED  BY <1>1, <1>3, <1>4, InvNext

\* A step of p that may move the tail.
LEMMA TailStep ==
  ASSUME QInv, InUse, NEW p \in Procs, head' = head, mem' = mem, free' = free, Swings,
         QType', Others(p), Held(p)' = Held(p), Knows(p)'
  PROVE  QInv'
<1>1. Shape' /\ Linked' = Linked
  BY Facts, ShapeSwing
<1>2. \A q \in Procs : Held(q)' = Held(q)
  BY HeldStays DEF Others
<1>3. Places'
  BY <1>1, <1>2, Facts DEF Places
<1>4. \A q \in Procs \ {p} : Knows(q)'
  BY Facts, KnowsSwing DEF Others
<1> QED  BY <1>1, <1>3, <1>4, InvNext

LEMMA StepTail ==
  ASSUME QInv, InUse, Build, NEW p \in Procs, e_tail(p)
  PROVE  QInv'
<1>1. /\ pc[p] = "e_tail" /\ Copy(p, "tail", tail, "e_next")
      /\ head' = head /\ tail' = tail /\ mem' = mem /\ free' = free
      /\ ops' = ops /\ call' = call
  BY DEF e_tail, qvars
<1>2. /\ loc' \in [Procs -> Locals]
      /\ pc' = [pc EXCEPT ![p] = "e_next"] /\ pc'[p] = "e_next" /\ half' = half
      /\ \A q \in Procs \ {p} : pc'[q] = pc[q] /\ loc'[q] = loc[q]
      /\ loc'[p].node = loc[p].node /\ loc'[p].tail = tail
  BY <1>1, Facts, Types, CopyDoes
<1>3. Others(p)
  BY <1>1, <1>2 DEF Others, Stays
<1>4. QType'
  BY <1>1, <1>2, Facts DEF QType, Labels, Linking
<1>5. Held(p)' = Held(p)
  BY <1>1, <1>2 DEF Held, Unlinked, ToFree
<1>6. Knows(p)'
  <2>1. tail.pointer \in Nodes /\ tail.counter \in Nat /\ Knows(p)
    BY Facts, Ends, Types
  <2> QED  BY <1>1, <1>2, <2>1 DEF Knows, TailSeen, HeadSeen, OwnNode, EndSeen, SuccessorSeen,
              AheadSeen, EmptySeen, CallSeen, Linking, Taking
<1> QED  BY <1>1, <1>3, <1>4, <1>5, <1>6, LocalStep

LEMMA StepNext ==
  ASSUME QInv, InUse, Build, NEW p \in Procs, e_next(p)
  PROVE  QInv'
<1>1. /\ pc[p] = "e_next" /\ Copy(p, "next", mem[loc[p].tail.pointer].next, "e_check")
      /\ head' = head /\ tail' = tail /\ mem' = mem /\ free' = free
      /\ ops' = ops /\ call' = call
  BY DEF e_next, qvars
<1>2. Knows(p) /\ loc[p].tail.pointer \in Nodes /\ mem[loc[p].tail.pointer].next \in Pointers
  <2>1. Knows(p) /\ loc[p].tail.pointer \in Nodes
    BY <1>1, Facts DEF Knows, TailSeen
  <2> QED  BY <2>1, Facts, Types
<1>3. /\ loc' \in [Procs -> Locals]
      /\ pc' = [pc EXCEPT ![p] = "e_check"] /\ pc'[p] = "e_check" /\ half' = half
      /\ \A q \in Procs \ {p} : pc'[q] = pc[q] /\ loc'[q] = loc[q]
      /\ loc'[p].node = loc[p].node /\ loc'[p].tail = loc[p].tail
      /\ loc'[p].next = mem[loc[p].tail.pointer].next
  BY <1>1, <1>2, Facts, CopyDoes
<1>4. Others(p)
  BY <1>1, <1>3 DEF Others, Stays
<1>5. QType' /\ half[p] = {}
  BY <1>1, <1>3, Facts DEF QType, Labels, Linking
<1>6. Held(p)' = Held(p)
  BY <1>1, <1>3 DEF Held, Unlinked, ToFree
<1>7. Knows(p)'
  <2>1. mem[loc[p].tail.pointer].next.counter \in Nat
    BY <1>2, Facts, Types
  <2>2. TailSeen(p)' /\ OwnNode(p)' /\ CallSeen(p)'
    BY <1>1, <1>2, <1>3 DEF Knows, TailSeen, OwnNode, CallSeen, Linking, Taking
  <2>3. HeadSeen(p)' /\ AheadSeen(p)' /\ EmptySeen(p)'
    BY <1>3 DEF HeadSeen, AheadSeen, EmptySeen
  <2>4. EndSeen(p)'
    <3>1. /\ loc'[p].next.pointer = mem'[loc'[p].tail.pointer].next.pointer
          /\ loc'[p].next.counter = mem'[loc'[p].tail.pointer].next.counter
          /\ loc'[p].next.counter \in Nat
          /\ half'[p] = {} /\ pc'[p] = "e_check"
      BY <1>1, <1>3, <1>5, <2>1
    <3> QED  BY <3>1 DEF EndSeen, NextEnd
  <2>5. SuccessorSeen(p)'
    BY <1>1, <1>3 DEF SuccessorSeen, Behind
  <2> QED  BY <2>2, <2>3, <2>4, <2>5 DEF Knows
<1> QED  BY <1>1, <1>4, <1>5, <1>6, <1>7, LocalStep

LEMMA StepCheck ==
  ASSUME QInv, InUse, Build, NEW p \in Procs, e_check(p)
  PROVE  QInv'
<1> DEFINE equal == IF loc[p].next.pointer = NULL THEN "e_link" ELSE "e_help"
<1>1. /\ pc[p] = "e_check" /\ Compare(p, "tail", tail, equal, "e_tail")
      /\ head' = head /\ tail' = tail /\ mem' = mem /\ free' = free
      /\ ops' = ops /\ call' = call /\ loc' = loc
  BY DEF e_check, qvars
<1>2. equal \in {"e_link", "e_help"} /\ (equal = "e_link" <=> loc[p].next.pointer = NULL)
  OBVIOUS
<1> HIDE DEF equal
<1>3. /\ pc' \in [Procs -> Labels] /\ half' \in [Procs -> {{}, {"pointer"}, {"counter"}}]
      /\ \A q \in Procs \ {p} : pc'[q] = pc[q] /\ half'[q] = half[q]
      /\ \/ pc'[p] = "e_tail" /\ half'[p] = {}
         \/ /\ half[p] = {} /\ pc'[p] = "e_check"
            /\ "pointer" \in half'[p] => loc[p].tail.pointer = tail.pointer
         \/ /\ pc'[p] = equal /\ half'[p] = {}
            /\ "pointer" \in half[p] \/ loc[p].tail.pointer = tail.pointer
  <2>1. /\ Build /\ QType /\ tail \in Pointers
        /\ equal \in Labels /\ "e_tail" \in Labels /\ equal \notin {"e_check", "d_check"}
    BY <1>2, Facts, Types DEF Labels, Linking
  <2>2. "tail" \in {"head", "tail"} /\ "e_tail" \notin {"e_check", "d_check"}
    OBVIOUS
  <2>3. /\ pc' \in [Procs -> Labels] /\ half' \in [Procs -> {{}, {"pointer"}, {"counter"}}]
        /\ \A q \in Procs \ {p} : pc'[q] = pc[q] /\ half'[q] = half[q]
        /\ \/ pc'[p] = "e_tail" /\ half'[p] = {}
           \/ /\ half[p] = {} /\ pc'[p] = pc[p]
              /\ "pointer" \in half'[p] => loc[p]["tail"].pointer = tail.pointer
              /\ "counter" \in half'[p] => loc[p]["tail"].counter = tail.counter
           \/ /\ pc'[p] = equal /\ half'[p] = {}
              /\ \/ "pointer" \in half[p] /\ loc[p]["tail"].counter = tail.counter
                 \/ "counter" \in half[p] /\ loc[p]["tail"].pointer = tail.pointer
    BY <1>1, <2>1, <2>2, CompareDoes
  <2>4. loc[p]["tail"].pointer = loc[p].tail.pointer
    OBVIOUS
  <2> QED  BY <1>1, <2>3, <2>4
<1>4. Others(p)
  BY <1>1, <1>3 DEF Others, Stays
<1>5. QType'
  BY <1>1, <1>2, <1>3, Facts DEF QType
<1>6. Held(p)' = Held(p)
  BY <1>1, <1>2, <1>3 DEF Held, Unlinked, ToFree
<1>7. Knows(p)'
  <2>1. Knows(p)
    BY Facts
  <2> QED  BY <1>1, <1>2, <1>3, <2>1 DEF Knows, TailSeen, HeadSeen, OwnNode, EndSeen, NextEnd,
              SuccessorSeen, Behind, AheadSeen, EmptySeen, CallSeen, Linking, Taking
<1> QED  BY <1>1, <1>4, <1>5, <1>6, <1>7, LocalStep

\* The cas on tail, when the next pointer behind the copy of tail is known.
LEMMA CasDoes ==
  ASSUME QType, NEW p \in Procs, NEW n \in Nodes, Behind(p, n), CasTail(p, n), NULL \notin Nodes
  PROVE  /\ tail' \in Pointers
         /\ tail' = tail \/ Swings
<1>1. CASE tail = loc[p].tail
  BY <1>1, Types DEF Behind, CasTail, Swings, Ptr, Pointers
<1>2. CASE tail # loc[p].tail
  BY <1>2, Types DEF CasTail
<1> QED  BY <1>1, <1>2

LEMMA StepHelp ==
  ASSUME QInv, InUse, Build, NEW p \in Procs, e_help(p)
  PROVE  QInv'
<1>1. /\ pc[p] = "e_help" /\ CasTail(p, loc[p].next.pointer)
      /\ pc' = [pc EXCEPT ![p] = "e_tail"]
      /\ head' = head /\ mem' = mem /\ free' = free
      /\ loc' = loc /\ half' = half /\ ops' = ops /\ call' = call
  BY DEF e_help, Goto
<1>2. /\ Knows(p) /\ loc[p].next.pointer \in Nodes
      /\ Behind(p, loc[p].next.pointer)
  <2>1. Knows(p) /\ QType
    BY Facts
  <2> QED  BY <1>1, <2>1, Types DEF Knows, SuccessorSeen
<1>3. tail' \in Pointers /\ (tail' = tail \/ Swings)
  BY <1>1, <1>2, Facts, CasDoes, NodeAssumption
<1>4. Others(p) /\ QType' /\ pc'[p] = "e_tail"
  BY <1>1, <1>3, Facts DEF Others, Stays, QType, Labels, Linking
<1>5. Held(p)' = Held(p)
  BY <1>1, <1>4 DEF Held, Unlinked, ToFree
<1>6. Knows(p)'
  BY <1>1, <1>2, <1>4 DEF Knows, TailSeen, HeadSeen, OwnNode, EndSeen, SuccessorSeen,
     AheadSeen, EmptySeen, CallSeen, Linking, Taking
<1> QED  BY <1>1, <1>3, <1>4, <1>5, <1>6, LocalStep, TailStep

LEMMA StepSwing ==
  ASSUME QInv, InUse, Build, NEW p \in Procs, e_swing(p)
  PROVE  QInv'
<1>1. /\ pc[p] = "e_swing" /\ CasTail(p, loc[p].node)
      /\ pc' = [pc EXCEPT ![p] = "idle"]
      /\ loc' = [loc EXCEPT ![p] = NoLocals] /\ call' = [call EXCEPT ![p] = NoCall]
      /\ head' = head /\ mem' = mem /\ free' = free /\ half' = half /\ ops' = ops
  BY DEF e_swing, Goto
<1>2. Knows(p) /\ loc[p].node \in Nodes /\ Behind(p, loc[p].node)
  BY <1>1, Facts DEF Knows, SuccessorSeen
<1>3. tail' \in Pointers /\ (tail' = tail \/ Swings)
  BY <1>1, <1>2, Facts, CasDoes, NodeAssumption
<1>4. NoLocals \in Locals /\ NoCall \in Calls
  BY DEF NoLocals, Locals, NoCall, Calls, Unset, Ptr, Pointers, Values
<1>5. Others(p) /\ QType' /\ pc'[p] = "idle" /\ call'[p] = NoCall
  BY <1>1, <1>3, <1>4, Facts DEF Others, Stays, QType, Labels
<1>6. Held(p)' = Held(p)
  BY <1>1, <1>5 DEF Held, Unlinked, ToFree
<1>7. Knows(p)'
  BY <1>1, <1>2, <1>5 DEF Knows, TailSeen, HeadSeen, OwnNode, EndSeen, SuccessorSeen,
     AheadSeen, EmptySeen, CallSeen, Linking, Taking
<1> QED  BY <1>1, <1>3, <1>5, <1>6, <1>7, LocalStep, TailStep

\* If the first node has no successor it is the only one.
LEMMA OnlyNode ==
  ASSUME Using, mem[head.pointer].next.pointer = NULL
  PROVE  tail.pointer = head.pointer /\ Contents = <<>>
<1>1. PICK s : s = Chain
  OBVIOUS
<1>2. /\ s \in Seq(Nodes) /\ Len(s) \in Nat \ {0}
      /\ head.pointer = s[1]
      /\ \A i \in 1..(Len(s) - 1) : mem[s[i]].next.pointer = s[i + 1]
      /\ NULL \notin Nodes
  BY <1>1, ListFacts, NodeAssumption DEF Using
<1>3. Len(s) = 1
  <2>1. Len(s) > 1 => mem[s[1]].next.pointer = s[2] /\ s[2] \in Nodes
    BY <1>2
  <2>2. mem[s[1]].next.pointer = NULL
    BY <1>2
  <2>3. ~(Len(s) > 1)
    BY <1>2, <2>1, <2>2
  <2>4. PICK k : k = Len(s) /\ k \in Nat /\ k # 0
    BY <1>2
  <2>5. ~(k > 1)
    BY <2>3, <2>4
  <2>6. k = 1
    BY <2>4, <2>5
  <2> QED  BY <2>4, <2>6
<1>4. tail.pointer = s[1]
  BY <1>1, <1>3 DEF Using, Near
<1>5. Contents = [i \in 1..(Len(s) - 1) |-> mem[s[i + 1]].value]
  BY <1>1 DEF Contents
<1> QED  BY <1>2, <1>3, <1>4, <1>5

LEMMA StepCallDequeue ==
  ASSUME QInv, InUse, Build, NEW p \in Procs, d_call(p)
  PROVE  QInv'
<1>1. /\ pc[p] = "idle" /\ ops < MaxOps /\ ops' = ops + 1
      /\ pc' = [pc EXCEPT ![p] = "d_head"]
      /\ call' = [call EXCEPT ![p] = [NoCall EXCEPT !.op = "deq"]]
      /\ head' = head /\ tail' = tail /\ mem' = mem /\ free' = free
      /\ loc' = loc /\ half' = half
  BY DEF d_call, qvars, Goto
<1>2. Knows(p) /\ QType /\ ops \in 0..MaxOps /\ MaxOps \in Nat
  BY Facts, NodeAssumption DEF QType
<1>3. [NoCall EXCEPT !.op = "deq"] \in Calls
  BY DEF NoCall, Calls, Values
<1>4. /\ call' \in [Procs -> Calls] /\ call'[p].op = "deq" /\ ~call'[p].done
      /\ pc'[p] = "d_head" /\ pc' \in [Procs -> Labels]
      /\ Others(p)
  BY <1>1, <1>2, <1>3 DEF Others, Stays, QType, Labels, Taking, NoCall
<1>5. QType'
  BY <1>1, <1>2, <1>4 DEF QType
<1>6. Held(p)' = Held(p)
  BY <1>1, <1>4 DEF Held, Unlinked, ToFree
<1>7. Knows(p)'
  BY <1>4 DEF Knows, TailSeen, HeadSeen, OwnNode, EndSeen, SuccessorSeen,
     AheadSeen, EmptySeen, CallSeen, Linking, Taking
<1> QED  BY <1>1, <1>4, <1>5, <1>6, <1>7, LocalStep

LEMMA StepHead ==
  ASSUME QInv, InUse, Build, NEW p \in Procs, d_head(p)
  PROVE  QInv'
<1>1. /\ pc[p] = "d_head" /\ Copy(p, "head", head, "d_tail")
      /\ head' = head /\ tail' = tail /\ mem' = mem /\ free' = free
      /\ ops' = ops /\ call' = call
  BY DEF d_head, qvars
<1>2. /\ loc' \in [Procs -> Locals]
      /\ pc' = [pc EXCEPT ![p] = "d_tail"] /\ pc'[p] = "d_tail" /\ half' = half
      /\ \A q \in Procs \ {p} : pc'[q] = pc[q] /\ loc'[q] = loc[q]
      /\ loc'[p].head = head
  BY <1>1, Facts, Types, CopyDoes
<1>3. Others(p)
  BY <1>1, <1>2 DEF Others, Stays
<1>4. QType'
  BY <1>1, <1>2, Facts DEF QType, Labels, Taking
<1>5. Held(p)' = Held(p)
  BY <1>1, <1>2 DEF Held, Unlinked, ToFree
<1>6. Knows(p)'
  <2>1. head.pointer \in Nodes /\ head.counter \in Nat /\ Knows(p)
    BY Facts, Ends, Types
  <2> QED  BY <1>1, <1>2, <2>1 DEF Knows, TailSeen, HeadSeen, OwnNode, EndSeen, SuccessorSeen,
              AheadSeen, EmptySeen, CallSeen, Linking, Taking
<1> QED  BY <1>1, <1>3, <1>4, <1>5, <1>6, LocalStep

LEMMA StepTailAgain ==
  ASSUME QInv, InUse, Build, NEW p \in Procs, d_tail(p)
  PROVE  QInv'
<1>1. /\ pc[p] = "d_tail" /\ Copy(p, "tail", tail, "d_next")
      /\ head' = head /\ tail' = tail /\ mem' = mem /\ free' = free
      /\ ops' = ops /\ call' = call
  BY DEF d_tail, qvars
<1>2. /\ loc' \in [Procs -> Locals]
      /\ pc' = [pc EXCEPT ![p] = "d_next"] /\ pc'[p] = "d_next" /\ half' = half
      /\ \A q \in Procs \ {p} : pc'[q] = pc[q] /\ loc'[q] = loc[q]
      /\ loc'[p].head = loc[p].head /\ loc'[p].tail = tail
  BY <1>1, Facts, Types, CopyDoes
<1>3. Others(p)
  BY <1>1, <1>2 DEF Others, Stays
<1>4. QType'
  BY <1>1, <1>2, Facts DEF QType, Labels, Taking
<1>5. Held(p)' = Held(p)
  BY <1>1, <1>2 DEF Held, Unlinked, ToFree
<1>6. Knows(p)'
  <2>1. tail.pointer \in Nodes /\ tail.counter \in Nat /\ Knows(p)
    BY Facts, Ends, Types
  <2>2. TailSeen(p)' /\ HeadSeen(p)' /\ CallSeen(p)'
    BY <1>1, <1>2, <2>1 DEF Knows, TailSeen, HeadSeen, CallSeen, Linking, Taking
  <2>3. OwnNode(p)' /\ EndSeen(p)' /\ SuccessorSeen(p)' /\ EmptySeen(p)'
    BY <1>2 DEF OwnNode, EndSeen, SuccessorSeen, EmptySeen, Linking
  <2>4. AheadSeen(p)'
    BY <1>1, <1>2 DEF AheadSeen
  <2> QED  BY <2>2, <2>3, <2>4 DEF Knows
<1> QED  BY <1>1, <1>3, <1>4, <1>5, <1>6, LocalStep

LEMMA StepNextAgain ==
  ASSUME QInv, InUse, Build, NEW p \in Procs, d_next(p)
  PROVE  QInv'
<1>1. /\ pc[p] = "d_next" /\ Copy(p, "next", mem[loc[p].head.pointer].next, "d_check")
      /\ head' = head /\ tail' = tail /\ mem' = mem /\ free' = free
      /\ ops' = ops
      /\ call' = [call EXCEPT ![p].empty = call[p].empty \/ Contents = <<>>]
  BY DEF d_next, qvars
<1>2. Knows(p) /\ loc[p].head.pointer \in Nodes /\ mem[loc[p].head.pointer].next \in Pointers
  <2>1. Knows(p) /\ loc[p].head.pointer \in Nodes
    BY <1>1, Facts DEF Knows, HeadSeen
  <2> QED  BY <2>1, Facts, Types
<1>3. /\ loc' \in [Procs -> Locals]
      /\ pc' = [pc EXCEPT ![p] = "d_check"] /\ pc'[p] = "d_check" /\ half' = half
      /\ \A q \in Procs \ {p} : pc'[q] = pc[q] /\ loc'[q] = loc[q]
      /\ loc'[p].head = loc[p].head /\ loc'[p].tail = loc[p].tail
      /\ loc'[p].next = mem[loc[p].head.pointer].next
  BY <1>1, <1>2, Facts, CopyDoes
<1>4. /\ call' \in [Procs -> Calls]
      /\ call'[p].op = call[p].op /\ call'[p].done = call[p].done
      /\ Contents = <<>> => call'[p].empty
      /\ \A q \in Procs \ {p} : call'[q] = call[q]
  BY <1>1, Facts DEF QType, Calls
<1>5. Others(p)
  BY <1>1, <1>3, <1>4 DEF Others, Stays
<1>6. QType' /\ half[p] = {}
  BY <1>1, <1>3, <1>4, Facts DEF QType, Labels, Taking
<1>7. Held(p)' = Held(p)
  BY <1>1, <1>3 DEF Held, Unlinked, ToFree
<1>8. Knows(p)'
  <2>1. TailSeen(p)' /\ HeadSeen(p)' /\ CallSeen(p)'
    BY <1>1, <1>2, <1>3, <1>4 DEF Knows, TailSeen, HeadSeen, CallSeen, Linking, Taking
  <2>2. OwnNode(p)' /\ EndSeen(p)'
    BY <1>3 DEF OwnNode, EndSeen, Linking
  <2>3. SuccessorSeen(p)'
    BY <1>1, <1>3 DEF SuccessorSeen, Behind
  <2>4. AheadSeen(p)'
    BY <1>1, <1>2, <1>3 DEF Knows, AheadSeen
  <2>5. head = loc[p].head => EmptyOrNot(p)'
    <3>1. mem[head.pointer].next.pointer = NULL => tail.pointer = head.pointer /\ Contents = <<>>
      BY Facts, OnlyNode
    <3>2. head = loc[p].head /\ loc[p].tail.pointer # loc[p].head.pointer
            => tail.pointer # head.pointer
      BY <1>1, <1>2 DEF Knows, AheadSeen
    <3> QED  BY <1>3, <1>4, <3>1, <3>2 DEF EmptyOrNot
  <2>6. EmptySeen(p)'
    BY <1>1, <1>3, <1>6, <2>5 DEF EmptySeen
  <2> QED  BY <2>1, <2>2, <2>3, <2>4, <2>6 DEF Knows
<1> QED  BY <1>1, <1>5, <1>6, <1>7, <1>8, LocalStep

LEMMA StepCheckAgain ==
  ASSUME QInv, InUse, Build, NEW p \in Procs, d_check(p)
  PROVE  QInv'
<1> DEFINE equal == IF loc[p].head.pointer # loc[p].tail.pointer THEN "d_value"
                    ELSE IF loc[p].next.pointer = NULL THEN "d_fail" ELSE "d_help"
<1>1. /\ pc[p] = "d_check" /\ Compare(p, "head", head, equal, "d_head")
      /\ head' = head /\ tail' = tail /\ mem' = mem /\ free' = free
      /\ ops' = ops /\ call' = call /\ loc' = loc
  BY DEF d_check, qvars
<1>2. /\ equal \in {"d_value", "d_fail", "d_help"}
      /\ equal = "d_value" => loc[p].head.pointer # loc[p].tail.pointer
      /\ equal # "d_value" => loc[p].head.pointer = loc[p].tail.pointer
      /\ equal = "d_fail" => loc[p].next.pointer = NULL
      /\ equal = "d_help" => loc[p].next.pointer # NULL
  OBVIOUS
<1> HIDE DEF equal
<1>3. /\ pc' \in [Procs -> Labels] /\ half' \in [Procs -> {{}, {"pointer"}, {"counter"}}]
      /\ \A q \in Procs \ {p} : pc'[q] = pc[q] /\ half'[q] = half[q]
      /\ \/ pc'[p] = "d_head" /\ half'[p] = {}
         \/ /\ half[p] = {} /\ pc'[p] = "d_check"
            /\ "counter" \in half'[p] => loc[p].head.counter = head.counter
         \/ /\ pc'[p] = equal /\ half'[p] = {}
            /\ "counter" \in half[p] \/ loc[p].head.counter = head.counter
  <2>1. /\ Build /\ QType /\ head \in Pointers
        /\ equal \in Labels /\ "d_head" \in Labels /\ equal \notin {"e_check", "d_check"}
    BY <1>2, Facts, Types DEF Labels, Taking
  <2>2. "head" \in {"head", "tail"} /\ "d_head" \notin {"e_check", "d_check"}
    OBVIOUS
  <2>3. /\ pc' \in [Procs -> Labels] /\ half' \in [Procs -> {{}, {"pointer"}, {"counter"}}]
        /\ \A q \in Procs \ {p} : pc'[q] = pc[q] /\ half'[q] = half[q]
        /\ \/ pc'[p] = "d_head" /\ half'[p] = {}
           \/ /\ half[p] = {} /\ pc'[p] = pc[p]
              /\ "pointer" \in half'[p] => loc[p]["head"].pointer = head.pointer
              /\ "counter" \in half'[p] => loc[p]["head"].counter = head.counter
           \/ /\ pc'[p] = equal /\ half'[p] = {}
              /\ \/ "pointer" \in half[p] /\ loc[p]["head"].counter = head.counter
                 \/ "counter" \in half[p] /\ loc[p]["head"].pointer = head.pointer
    BY <1>1, <2>1, <2>2, CompareDoes
  <2>4. loc[p]["head"].counter = loc[p].head.counter
    OBVIOUS
  <2> QED  BY <1>1, <2>3, <2>4
<1>4. Others(p)
  BY <1>1, <1>3 DEF Others, Stays
<1>5. QType'
  BY <1>1, <1>2, <1>3, Facts DEF QType
<1>6. Held(p)' = Held(p)
  BY <1>1, <1>2, <1>3 DEF Held, Unlinked, ToFree
<1>7. Knows(p)'
  <2>1. Knows(p)
    BY Facts
  <2>2. loc[p].head.counter = head.counter => EmptyOrNot(p)
    BY <1>1, <2>1 DEF Knows, HeadSeen, EmptySeen
  <2>3. "counter" \in half[p] => EmptyOrNot(p)
    BY <1>1, <2>1 DEF Knows, EmptySeen
  <2>4. EmptyOrNot(p)' <=> EmptyOrNot(p)
    BY <1>1 DEF EmptyOrNot
  <2>5. TailSeen(p)' /\ HeadSeen(p)' /\ CallSeen(p)'
    BY <1>1, <1>2, <1>3, <2>1 DEF Knows, TailSeen, HeadSeen, CallSeen, Linking, Taking
  <2>6. OwnNode(p)' /\ EndSeen(p)'
    BY <1>2, <1>3 DEF OwnNode, EndSeen, Linking
  <2>7. SuccessorSeen(p)'
    BY <1>1, <1>2, <1>3, <2>1 DEF Knows, SuccessorSeen, Behind
  <2>8. AheadSeen(p)'
    BY <1>1, <1>2, <1>3, <2>1 DEF Knows, AheadSeen
  <2>9. EmptySeen(p)'
    <3>1. CASE pc'[p] = "d_head"
      BY <3>1 DEF EmptySeen
    <3>2. CASE half[p] = {} /\ pc'[p] = "d_check"
      BY <1>1, <1>3, <2>1, <2>2, <2>3, <2>4, <3>2 DEF Knows, EmptySeen
    <3>3. CASE pc'[p] = equal
      <4>1. EmptyOrNot(p)
        BY <1>2, <1>3, <2>2, <2>3, <3>3
      <4> QED  BY <1>1, <1>2, <3>3, <4>1 DEF EmptySeen, EmptyOrNot
    <3> QED  BY <1>3, <3>1, <3>2, <3>3
  <2> QED  BY <2>5, <2>6, <2>7, <2>8, <2>9 DEF Knows
<1> QED  BY <1>1, <1>4, <1>5, <1>6, <1>7, LocalStep

LEMMA StepHelpAgain ==
  ASSUME QInv, InUse, Build, NEW p \in Procs, d_help(p)
  PROVE  QInv'
<1>1. /\ pc[p] = "d_help" /\ CasTail(p, loc[p].next.pointer)
      /\ pc' = [pc EXCEPT ![p] = "d_head"]
      /\ head' = head /\ mem' = mem /\ free' = free
      /\ loc' = loc /\ half' = half /\ ops' = ops /\ call' = call
  BY DEF d_help, Goto
<1>2. /\ Knows(p) /\ loc[p].next.pointer \in Nodes
      /\ Behind(p, loc[p].next.pointer)
  <2>1. Knows(p) /\ QType
    BY Facts
  <2> QED  BY <1>1, <2>1, Types DEF Knows, SuccessorSeen
<1>3. tail' \in Pointers /\ (tail' = tail \/ Swings)
  BY <1>1, <1>2, Facts, CasDoes, NodeAssumption
<1>4. Others(p) /\ QType' /\ pc'[p] = "d_head"
  BY <1>1, <1>3, Facts DEF Others, Stays, QType, Labels, Taking
<1>5. Held(p)' = Held(p)
  BY <1>1, <1>4 DEF Held, Unlinked, ToFree
<1>6. Knows(p)'
  BY <1>1, <1>2, <1>4 DEF Knows, TailSeen, HeadSeen, OwnNode, EndSeen, SuccessorSeen,
     AheadSeen, EmptySeen, CallSeen, Linking, Taking
<1> QED  BY <1>1, <1>3, <1>4, <1>5, <1>6, LocalStep, TailStep

LEMMA StepValue ==
  ASSUME QInv, InUse, Build, NEW p \in Procs, d_value(p)
  PROVE  QInv'
<1>1. Knows(p) /\ QType /\ pc[p] = "d_value" /\ loc[p].next.pointer # NULL
  BY Facts DEF Knows, EmptySeen, d_value
<1>2. /\ pc' = [pc EXCEPT ![p] = "d_take"]
      /\ loc' = [loc EXCEPT ![p].val = mem[loc[p].next.pointer].value]
      /\ head' = head /\ tail' = tail /\ mem' = mem /\ free' = free
      /\ half' = half /\ ops' = ops /\ call' = call
  BY <1>1 DEF d_value, qvars, Goto
<1>3. loc[p].next.pointer \in Nodes /\ mem[loc[p].next.pointer].value \in Values
  BY <1>1, Types
<1>4. /\ loc' \in [Procs -> Locals]
      /\ loc'[p].node = loc[p].node /\ loc'[p].head = loc[p].head
      /\ loc'[p].tail = loc[p].tail /\ loc'[p].next = loc[p].next
      /\ loc'[p].val = mem[loc[p].next.pointer].value
      /\ \A q \in Procs \ {p} : loc'[q] = loc[q]
  BY <1>1, <1>2, <1>3 DEF QType, Locals
<1>5. pc'[p] = "d_take" /\ pc' \in [Procs -> Labels] /\ Others(p)
  BY <1>1, <1>2, <1>4 DEF QType, Labels, Taking, Others, Stays
<1>6. QType'
  BY <1>1, <1>2, <1>4, <1>5 DEF QType
<1>7. Held(p)' = Held(p)
  BY <1>1, <1>2, <1>5 DEF Held, Unlinked, ToFree
<1>8. Knows(p)'
  BY <1>1, <1>2, <1>4, <1>5 DEF Knows, TailSeen, HeadSeen, OwnNode, EndSeen, SuccessorSeen,
     AheadSeen, EmptySeen, CallSeen, Linking, Taking
<1> QED  BY <1>2, <1>5, <1>6, <1>7, <1>8, LocalStep

LEMMA StepFail ==
  ASSUME QInv, InUse, Build, NEW p \in Procs, d_fail(p)
  PROVE  QInv'
<1>1. /\ pc[p] = "d_fail" /\ pc' = [pc EXCEPT ![p] = "idle"]
      /\ loc' = [loc EXCEPT ![p] = NoLocals] /\ call' = [call EXCEPT ![p] = NoCall]
      /\ head' = head /\ tail' = tail /\ mem' = mem /\ free' = free
      /\ half' = half /\ ops' = ops
  BY DEF d_fail, qvars, Return, Goto
<1>2. NoLocals \in Locals /\ NoCall \in Calls
  BY DEF NoLocals, Locals, NoCall, Calls, Unset, Ptr, Pointers, Values
<1>3. Others(p) /\ QType' /\ pc'[p] = "idle" /\ call'[p] = NoCall
  BY <1>1, <1>2, Facts DEF Others, Stays, QType, Labels
<1>4. Held(p)' = Held(p)
  BY <1>1, <1>3 DEF Held, Unlinked, ToFree
<1>5. Knows(p)'
  BY <1>3 DEF Knows, TailSeen, HeadSeen, OwnNode, EndSeen, SuccessorSeen,
     AheadSeen, EmptySeen, CallSeen, Linking, Taking
<1> QED  BY <1>1, <1>3, <1>4, <1>5, LocalStep

LEMMA StepCallEnqueue ==
  ASSUME QInv, InUse, Build, NEW p \in Procs, e_call(p)
  PROVE  QInv'
<1>1. PICK n \in Nodes :
        /\ n \in free /\ free' = free \ {n}
        /\ mem' = [mem EXCEPT ![n] = [value |-> ops + 1, next |-> Ptr(NULL, mem[n].next.counter)]]
        /\ loc' = [loc EXCEPT ![p] = [NoLocals EXCEPT !.node = n]]
  BY DEF e_call, malloc, Build
<1>2. /\ pc[p] = "idle" /\ ops < MaxOps /\ ops' = ops + 1
      /\ pc' = [pc EXCEPT ![p] = "e_tail"]
      /\ call' = [call EXCEPT ![p] = [NoCall EXCEPT !.op = "enq", !.val = ops + 1]]
      /\ head' = head /\ tail' = tail /\ half' = half
  BY DEF e_call, Goto
<1>3. /\ Using /\ QType /\ Places /\ \A q \in Procs : Knows(q)
      /\ ops \in 0..MaxOps /\ MaxOps \in Nat /\ ops + 1 \in Values
      /\ mem[n].next.counter \in Nat
  <2>1. Using /\ QType /\ Places /\ \A q \in Procs : Knows(q)
    BY Facts
  <2>2. ops \in 0..MaxOps /\ MaxOps \in Nat
    BY <2>1, NodeAssumption DEF QType
  <2> QED  BY <1>1, <1>2, <2>1, <2>2, Types DEF Values
<1>4. n \notin Linked /\ \A q \in Procs : n \notin Held(q)
  BY <1>1, <1>3 DEF Places
<1>5. /\ mem' \in [Nodes -> [value : Values, next : Pointers]]
      /\ \A m \in Nodes \ {n} : mem'[m] = mem[m]
      /\ mem'[n].value = ops + 1
      /\ mem'[n].next.pointer = NULL /\ mem'[n].next.counter = mem[n].next.counter
  BY <1>1, <1>3 DEF QType, Ptr, Pointers
<1>6. /\ loc' \in [Procs -> Locals] /\ loc'[p].node = n
      /\ \A q \in Procs \ {p} : loc'[q] = loc[q]
  BY <1>1, <1>3 DEF QType, NoLocals, Locals, Unset, Ptr, Pointers, Values
<1>7. /\ call' \in [Procs -> Calls]
      /\ call'[p].op = "enq" /\ call'[p].val = ops + 1 /\ ~call'[p].done
      /\ \A q \in Procs \ {p} : call'[q] = call[q]
  BY <1>2, <1>3 DEF QType, NoCall, Calls, Values
<1>8. pc'[p] = "e_tail" /\ pc' \in [Procs -> Labels] /\ Others(p)
  BY <1>2, <1>3, <1>6, <1>7 DEF QType, Labels, Linking, Others, Stays
<1>9. QType'
  BY <1>1, <1>2, <1>3, <1>5, <1>6, <1>7, <1>8 DEF QType
<1>10. Shape' /\ Linked' = Linked
  <2>1. PICK r : mem' = [mem EXCEPT ![n] = r]
    BY <1>1
  <2> QED  BY <1>2, <1>3, <1>4, <2>1, ShapeApart
<1>11. Places'
  <2>1. Held(p) = {} /\ Held(p)' = {n}
    BY <1>2, <1>6, <1>8 DEF Held, Unlinked, ToFree
  <2>2. \A q \in Procs \ {p} : Held(q)' = Held(q)
    BY <1>8, HeldStays DEF Others
  <2> QED  BY <1>1, <1>3, <1>4, <1>10, <2>1, <2>2 DEF Places
<1>12. Knows(p)'
  BY <1>5, <1>6, <1>7, <1>8 DEF Knows, TailSeen, HeadSeen, OwnNode, EndSeen, SuccessorSeen,
     AheadSeen, EmptySeen, CallSeen, Linking, Taking
<1>13. ASSUME NEW q \in Procs \ {p} PROVE Knows(q)'
  <2>1. n \notin Unlinked(q)
    BY <1>4 DEF Held
  <2> QED  BY <1>2, <1>3, <1>4, <1>5, <1>8, <2>1, KnowsApart DEF Others
<1> QED  BY <1>9, <1>10, <1>11, <1>12, <1>13, InvNext

LEMMA StepLink ==
  ASSUME QInv, InUse, Build, NEW p \in Procs, e_link(p)
  PROVE  QInv'
<1> DEFINE t == loc[p].tail.pointer
           n == loc[p].node
<1>1. /\ pc[p] = "e_link"
      /\ head' = head /\ tail' = tail /\ free' = free
      /\ loc' = loc /\ half' = half /\ ops' = ops
  BY DEF e_link
<1>2. /\ Using /\ QType /\ Places /\ \A q \in Procs : Knows(q)
  BY Facts
<1>3. CASE mem[t].next # loc[p].next
  <2>1. pc' = [pc EXCEPT ![p] = "e_tail"] /\ mem' = mem /\ call' = call
    BY <1>1, <1>3 DEF e_link, Goto
  <2>2. Others(p) /\ QType' /\ pc'[p] = "e_tail"
    BY <1>1, <1>2, <2>1 DEF Others, Stays, QType, Labels, Linking
  <2>3. Held(p)' = Held(p)
    BY <1>1, <2>2 DEF Held, Unlinked, ToFree
  <2>4. Knows(p)'
    BY <1>1, <1>2, <2>1, <2>2 DEF Knows, TailSeen, HeadSeen, OwnNode, EndSeen, SuccessorSeen,
       AheadSeen, EmptySeen, CallSeen, Linking, Taking
  <2> QED  BY <1>1, <2>1, <2>2, <2>3, <2>4, LocalStep
<1>4. CASE mem[t].next = loc[p].next
  <2>1. /\ mem' = [mem EXCEPT ![t].next = Ptr(n, loc[p].next.counter + 1)]
        /\ pc' = [pc EXCEPT ![p] = "e_swing"]
        /\ call' = [call EXCEPT ![p].done = TRUE]
    BY <1>1, <1>4 DEF e_link, Goto
  <2>2. /\ t = tail.pointer /\ t \in Linked /\ t \in Nodes
        /\ mem[t].next.pointer = NULL
        /\ n \in Nodes /\ mem[n].next.pointer = NULL
    BY <1>1, <1>2, <1>4, Ends DEF Knows, EndSeen, NextEnd, OwnNode, Linking
  <2>3. loc[p].next.counter \in Nat /\ loc[p].next.counter = mem[t].next.counter
    BY <1>2, <1>4, Types
  <2>4. Held(p) = {n} /\ n \notin Linked /\ n # t
    <3>1. Held(p) = {n}
      BY <1>1 DEF Held, Unlinked, ToFree
    <3> QED  BY <1>2, <2>2, <3>1 DEF Places
  <2>5. /\ mem' \in [Nodes -> [value : Values, next : Pointers]]
        /\ \A m \in Nodes \ {t} : mem'[m] = mem[m]
        /\ mem'[t].value = mem[t].value
        /\ mem'[t].next.pointer = n
        /\ mem'[t].next.counter = mem[t].next.counter + 1
    BY <1>2, <2>1, <2>2, <2>3 DEF QType, Ptr, Pointers
  <2>6. /\ call' \in [Procs -> Calls] /\ call'[p].done
        /\ \A q \in Procs \ {p} : call'[q] = call[q]
    BY <1>2, <2>1 DEF QType, Calls
  <2>7. pc'[p] = "e_swing" /\ pc' \in [Procs -> Labels] /\ Others(p)
    BY <1>1, <1>2, <2>1, <2>6 DEF QType, Labels, Others, Stays
  <2>8. QType'
    BY <1>1, <1>2, <2>5, <2>6, <2>7 DEF QType, Others, Stays
  <2>9. Shape' /\ Linked' = Linked \cup {n}
    <3>1. PICK c : mem' = [mem EXCEPT ![tail.pointer].next = Ptr(n, c)]
      BY <2>1, <2>2
    <3> HIDE DEF n, t
    <3> QED  BY <1>1, <1>2, <2>2, <2>4, <3>1, ShapeLink
  <2>10. Places'
    <3>1. Held(p)' = {}
      BY <2>7 DEF Held, Unlinked, ToFree
    <3>2. \A q \in Procs \ {p} : Held(q)' = Held(q)
      BY <2>7, HeldStays DEF Others
    <3> HIDE DEF n, t
    <3> QED  BY <1>1, <1>2, <2>2, <2>4, <2>9, <3>1, <3>2 DEF Places
  <2>11. Knows(p)'
    <3>1. Behind(p, n)'
      BY <1>1, <2>2, <2>5 DEF Behind
    <3> QED  BY <1>1, <1>2, <2>2, <2>6, <2>7, <3>1 DEF Knows, TailSeen, HeadSeen, OwnNode, EndSeen,
                SuccessorSeen, AheadSeen, EmptySeen, CallSeen, Linking, Taking
  <2>12. ASSUME NEW q \in Procs \ {p} PROVE Knows(q)'
    <3>1. Unlinked(q) \cap Linked = {}
      BY <1>2 DEF Places, Held
    <3>2. pc[q] \in Linking => loc[q].node # tail.pointer
      BY <2>2, <3>1 DEF Unlinked, Linking
    <3>3. mem'[tail.pointer].next.counter \in Nat
            /\ mem'[tail.pointer].next.counter > mem[tail.pointer].next.counter
      BY <2>2, <2>3, <2>5
    <3> QED  BY <1>1, <1>2, <2>2, <2>5, <2>7, <3>2, <3>3, KnowsLink DEF Others
  <2> QED  BY <2>8, <2>9, <2>10, <2>11, <2>12, InvNext
<1> QED  BY <1>3, <1>4

LEMMA StepTake ==
  ASSUME QInv, InUse, Build, NEW p \in Procs, d_take(p)
  PROVE  QInv'
<1> DEFINE h == head.pointer
<1>1. /\ pc[p] = "d_take"
      /\ tail' = tail /\ mem' = mem /\ free' = free
      /\ loc' = loc /\ half' = half /\ ops' = ops
  BY DEF d_take
<1>2. /\ Using /\ QType /\ Places /\ \A q \in Procs : Knows(q)
  BY Facts
<1>3. CASE head # loc[p].head
  <2>1. pc' = [pc EXCEPT ![p] = "d_head"] /\ head' = head /\ call' = call
    BY <1>1, <1>3 DEF d_take, Goto
  <2>2. Others(p) /\ QType' /\ pc'[p] = "d_head"
    BY <1>1, <1>2, <2>1 DEF Others, Stays, QType, Labels, Taking
  <2>3. Held(p)' = Held(p)
    BY <1>1, <2>2 DEF Held, Unlinked, ToFree
  <2>4. Knows(p)'
    BY <1>1, <1>2, <2>1, <2>2 DEF Knows, TailSeen, HeadSeen, OwnNode, EndSeen, SuccessorSeen,
       AheadSeen, EmptySeen, CallSeen, Linking, Taking
  <2> QED  BY <1>1, <2>1, <2>2, <2>3, <2>4, LocalStep
<1>4. CASE head = loc[p].head
  <2>1. /\ head' = Ptr(loc[p].next.pointer, head.counter + 1)
        /\ pc' = [pc EXCEPT ![p] = "d_free"]
        /\ call' = [call EXCEPT ![p] = [call[p] EXCEPT !.done = TRUE, !.val = loc[p].val]]
    BY <1>1, <1>4 DEF d_take, Goto
  <2>2. /\ Takes /\ tail.pointer # h /\ h \in Linked
    BY <1>1, <1>2, <1>4, <2>1, Ends DEF Knows, AheadSeen, EmptySeen, Takes
  <2>3. /\ Shape' /\ Linked' = Linked \ {h}
    BY <1>1, <1>2, <2>2, ShapeTake
  <2>4. head' \in Pointers
    BY <1>2, <2>1, Types DEF Ptr, Pointers
  <2>5. /\ call' \in [Procs -> Calls] /\ call'[p].done
        /\ \A q \in Procs \ {p} : call'[q] = call[q]
    <3>1. loc[p].val \in Values
      BY <1>2, Types
    <3> QED  BY <1>2, <2>1, <3>1 DEF QType, Calls
  <2>6. pc'[p] = "d_free" /\ pc' \in [Procs -> Labels] /\ Others(p)
    BY <1>1, <1>2, <2>1, <2>5 DEF QType, Labels, Others, Stays
  <2>7. QType'
    BY <1>1, <1>2, <2>4, <2>5, <2>6 DEF QType, Others, Stays
  <2>8. Places'
    <3>1. Held(p) = {} /\ Held(p)' = {h}
      BY <1>1, <1>4, <2>6 DEF Held, Unlinked, ToFree
    <3>2. \A q \in Procs \ {p} : Held(q)' = Held(q)
      BY <2>6, HeldStays DEF Others
    <3>3. h \in Nodes
      BY <1>2, <2>2, Ends
    <3> HIDE DEF h
    <3> QED  BY <1>1, <1>2, <2>2, <2>3, <3>1, <3>2, <3>3 DEF Places
  <2>9. Knows(p)'
    BY <2>5, <2>6 DEF Knows, TailSeen, HeadSeen, OwnNode, EndSeen,
       SuccessorSeen, AheadSeen, EmptySeen, CallSeen, Linking, Taking
  <2>10. ASSUME NEW q \in Procs \ {p} PROVE Knows(q)'
    BY <1>1, <1>2, <2>2, <2>6, KnowsTake DEF Others
  <2> QED  BY <2>3, <2>7, <2>8, <2>9, <2>10, InvNext
<1> QED  BY <1>3, <1>4

LEMMA StepFree ==
  ASSUME QInv, InUse, Build, NEW p \in Procs, d_free(p)
  PROVE  QInv'
<1> DEFINE n == loc[p].head.pointer
<1>1. /\ pc[p] = "d_free" /\ pc' = [pc EXCEPT ![p] = "idle"]
      /\ free' = free \cup {n} /\ mem' = [mem EXCEPT ![n].value = Junk]
      /\ loc' = [loc EXCEPT ![p] = NoLocals] /\ call' = [call EXCEPT ![p] = NoCall]
      /\ head' = head /\ tail' = tail /\ half' = half /\ ops' = ops
  BY DEF d_free, Return, Goto
<1>2. /\ Using /\ QType /\ Places /\ \A q \in Procs : Knows(q)
  BY Facts
<1>3. Held(p) = {n}
  BY <1>1 DEF Held, Unlinked, ToFree
<1> HIDE DEF n
<1>4. n \in Nodes /\ n \notin Linked /\ \A q \in Procs \ {p} : n \notin Held(q)
  BY <1>2, <1>3 DEF Places
<1>5. /\ mem' \in [Nodes -> [value : Values, next : Pointers]]
      /\ \A m \in Nodes \ {n} : mem'[m] = mem[m]
      /\ mem'[n].next = mem[n].next
  BY <1>1, <1>2, <1>4 DEF QType, Values
<1>6. NoLocals \in Locals /\ NoCall \in Calls
  BY DEF NoLocals, Locals, NoCall, Calls, Unset, Ptr, Pointers, Values
<1>7. /\ pc'[p] = "idle" /\ call'[p] = NoCall
      /\ pc' \in [Procs -> Labels] /\ loc' \in [Procs -> Locals] /\ call' \in [Procs -> Calls]
      /\ Others(p)
  BY <1>1, <1>2, <1>6 DEF QType, Labels, Others, Stays
<1>8. QType'
  BY <1>1, <1>2, <1>4, <1>5, <1>7 DEF QType, Others, Stays
<1>9. Shape' /\ Linked' = Linked
  <2>1. PICK r : mem' = [mem EXCEPT ![n] = r]
    BY <1>1
  <2> QED  BY <1>1, <1>2, <1>4, <2>1, ShapeApart
<1>10. Places'
  <2>1. Held(p)' = {}
    BY <1>7 DEF Held, Unlinked, ToFree
  <2>2. \A q \in Procs \ {p} : Held(q)' = Held(q)
    BY <1>7, HeldStays DEF Others
  <2> QED  BY <1>1, <1>2, <1>3, <1>4, <1>9, <2>1, <2>2 DEF Places
<1>11. Knows(p)'
  BY <1>7 DEF Knows, TailSeen, HeadSeen, OwnNode, EndSeen,
     SuccessorSeen, AheadSeen, EmptySeen, CallSeen, Linking, Taking
<1>12. ASSUME NEW q \in Procs \ {p} PROVE Knows(q)'
  <2>1. n \notin Unlinked(q)
    BY <1>4 DEF Held
  <2>2. mem'[n].next.counter = mem[n].next.counter /\ mem'[n].next.pointer = mem[n].next.pointer
    BY <1>5
  <2> QED  BY <1>1, <1>2, <1>4, <1>5, <1>7, <2>1, <2>2, KnowsApart DEF Others
<1> QED  BY <1>8, <1>9, <1>10, <1>11, <1>12, InvNext

LEMMA StepDestroy ==
  ASSUME QInv, destroy
  PROVE  QInv'
<1>1. InUse
  BY DEF destroy, InUse
<1>2. /\ Using /\ QType /\ Places /\ \A q \in Procs : Knows(q)
  BY <1>1, Facts
<1>3. /\ ops = MaxOps /\ \A p \in Procs : pc[p] = "idle"
      /\ free' = free \cup Linked /\ head' = mem[Chain[Len(Chain)]].next
      /\ tail' = tail /\ mem' = mem /\ pc' = pc /\ loc' = loc /\ half' = half
      /\ ops' = ops /\ call' = call
  BY DEF destroy, Linked
<1>4. head'.pointer = NULL /\ head' \in Pointers /\ Linked \subseteq Nodes
  <2>1. Chain[Len(Chain)] \in Nodes /\ mem[Chain[Len(Chain)]].next.pointer = NULL
    BY <1>2, ListFacts DEF Using
  <2>2. Linked \subseteq Nodes
    BY <1>2, Ends
  <2>3. mem[Chain[Len(Chain)]].next \in Pointers
    BY <1>2, <2>1 DEF QType
  <2> QED  BY <1>3, <2>1, <2>2, <2>3
<1>5. QType'
  BY <1>2, <1>3, <1>4 DEF QType
<1>6. \A p \in Procs : Held(p) = {}
  BY <1>3 DEF Held, Unlinked, ToFree
<1>7. free' = Nodes
  BY <1>2, <1>3, <1>4, <1>6 DEF Places, QType
<1>8. Chain' = <<>>
  BY <1>4, ChainEmptyNext
<1>9. \A p \in Procs : pc'[p] = "idle" /\ call'[p] = NoCall
  BY <1>2, <1>3 DEF Knows, CallSeen
<1>10. ~InUse'
  BY <1>4 DEF InUse
<1> QED  BY <1>3, <1>5, <1>7, <1>8, <1>9, <1>10 DEF QInv

-----------------------------------------------------------------------------
(* The invariant.                                                          *)

LEMMA QInit == Init => QInv
<1> SUFFICES ASSUME Init PROVE QInv
  OBVIOUS
<1>1. PICK n \in Nodes : initialize(n)
  BY DEF Init
<1>2. /\ head = Ptr(n, 0) /\ tail = Ptr(n, 0)
      /\ mem = [m \in Nodes |-> [value |-> Junk, next |-> Ptr(NULL, 0)]]
      /\ free = Nodes \ {n}
      /\ pc = [p \in Procs |-> "idle"]
      /\ loc = [p \in Procs |-> NoLocals]
      /\ half = [p \in Procs |-> {}]
      /\ ops = 0
      /\ call = [p \in Procs |-> NoCall]
  BY <1>1 DEF Init, initialize
<1>3. NoLocals \in Locals /\ NoCall \in Calls
  BY DEF NoLocals, Locals, NoCall, Calls, Unset, Ptr, Pointers, Values
<1>4. QType
  <2>1. head \in Pointers /\ tail \in Pointers /\ Ptr(NULL, 0) \in Pointers /\ Junk \in Values
    BY <1>2 DEF Ptr, Pointers, Values
  <2>2. MaxOps \in Nat
    BY NodeAssumption
  <2> QED  BY <1>2, <1>3, <2>1, <2>2 DEF QType, Labels
<1>5. head.pointer = n /\ tail.pointer = n /\ mem[n].next.pointer = NULL
  BY <1>2 DEF Ptr
<1>6. PICK s : s = <<n>>
  OBVIOUS
<1>7. s \in Seq(Nodes) /\ Len(s) = 1 /\ s[1] = n /\ s # <<>>
  BY <1>6
<1>8. IsList(s)
  BY <1>5, <1>7 DEF IsList
<1>9. Chain = s
  BY <1>8, ChainIsNow
<1>10. Linked = {n}
  BY <1>7, <1>9 DEF Linked
<1>11. \A p \in Procs : Held(p) = {}
  BY <1>2 DEF Held, Unlinked, ToFree
<1>12. InUse
  BY <1>5, NodeAssumption DEF InUse
<1>13. Near
  BY <1>5, <1>7, <1>9 DEF Near
<1>14. Places
  BY <1>2, <1>10, <1>11 DEF Places
<1>15. ASSUME NEW p \in Procs PROVE Knows(p)
  BY <1>2 DEF Knows, TailSeen, HeadSeen, OwnNode, EndSeen, SuccessorSeen, AheadSeen,
     EmptySeen, CallSeen, Linking, Taking
<1> QED  BY <1>4, <1>8, <1>9, <1>12, <1>13, <1>14, <1>15 DEF QInv

\* After destroy nobody does anything.
LEMMA NoStepAfterDestroy ==
  ASSUME QInv, ~InUse, NEW p \in Procs, Step(p)
  PROVE  FALSE
<1>1. pc[p] = "idle" /\ ops = MaxOps /\ MaxOps \in Nat
  BY NodeAssumption DEF QInv
<1> QED
  BY <1>1 DEF Step, e_call, e_tail, e_next, e_check, e_link, e_help, e_swing, d_call, d_head,
     d_tail, d_next, d_check, d_help, d_value, d_take, d_free, d_fail

LEMMA QInvStays ==
  ASSUME QInv, vars' = vars
  PROVE  QInv'
<1>1. QType'
  BY DEF QInv, QType, vars
<1>2. Chain' = Chain /\ Linked' = Linked /\ IsList(Chain)' = IsList(Chain)
  BY ListSame DEF vars
<1>3. CASE InUse
  <2>1. Shape' /\ Places'
    <3>1. Shape'
      BY <1>3, Facts, ShapeSame DEF vars
    <3>2. \A q \in Procs : Held(q)' = Held(q)
      BY HeldStays DEF vars, Stays
    <3>3. free' = free
      BY DEF vars
    <3> QED  BY <1>2, <1>3, <3>1, <3>2, <3>3, Facts DEF Places
  <2>2. ASSUME NEW q \in Procs PROVE Knows(q)'
    BY <1>3, Facts, KnowsSame DEF vars, Stays
  <2> QED  BY <1>1, <2>1, <2>2, InvNext
<1>4. CASE ~InUse
  BY <1>1, <1>2, <1>4 DEF QInv, vars, InUse
<1> QED  BY <1>3, <1>4

LEMMA QNext == ASSUME Build, QInv, [Next]_vars PROVE QInv'
<1>1. ASSUME NEW p \in Procs, Step(p) PROVE QInv'
  <2>1. InUse
    BY <1>1, NoStepAfterDestroy
  <2> QED
    BY <1>1, <2>1, StepCallEnqueue, StepTail, StepNext, StepCheck, StepLink, StepHelp, StepSwing,
       StepCallDequeue, StepHead, StepTailAgain, StepNextAgain, StepCheckAgain, StepHelpAgain,
       StepValue, StepTake, StepFree, StepFail DEF Step
<1>2. CASE destroy
  BY <1>2, StepDestroy
<1>3. CASE vars' = vars
  BY <1>3, QInvStays
<1> QED  BY <1>1, <1>2, <1>3 DEF Next, Finished

LEMMA QueueInvariant == ASSUME Build PROVE Spec => []QInv
<1>1. QInv /\ [Next]_vars => QInv'
  BY QNext
<1> QED  BY <1>1, QInit, PTL DEF Spec

-----------------------------------------------------------------------------
(* What follows from it.                                                   *)

LEMMA AccountedFor == QInv => NodesAccounted
<1> SUFFICES ASSUME QInv, NEW n \in Nodes
             PROVE  Cardinality({i \in 1..2 : <<n \in free, n \in Linked>>[i]})
                      + Cardinality({p \in Procs : n \in Unlinked(p) \cup ToFree(p)}) = 1
  BY DEF NodesAccounted
<1> DEFINE Places2 == {i \in 1..2 : <<n \in free, n \in Linked>>[i]}
           Holders == {p \in Procs : n \in Unlinked(p) \cup ToFree(p)}
<1> SUFFICES Cardinality(Places2) + Cardinality(Holders) = 1
  OBVIOUS
<1>1. Holders = {p \in Procs : n \in Held(p)}
  BY DEF Held
<1>2. /\ Places2 \subseteq {1, 2}
      /\ 1 \in Places2 <=> n \in free
      /\ 2 \in Places2 <=> n \in Linked
  <2>1. 1 \in 1..2 /\ 2 \in 1..2 /\ 1..2 = {1, 2}
    OBVIOUS
  <2>2. /\ <<n \in free, n \in Linked>>[1] = (n \in free)
        /\ <<n \in free, n \in Linked>>[2] = (n \in Linked)
    OBVIOUS
  <2> QED  BY <2>1, <2>2, Zenon
<1>3. /\ ~(n \in free /\ n \in Linked)
      /\ \A p \in Procs : n \in Held(p) => n \notin free /\ n \notin Linked
      /\ \A p, q \in Procs : n \in Held(p) /\ n \in Held(q) => p = q
      /\ n \in free \/ n \in Linked \/ \E p \in Procs : n \in Held(p)
  <2>1. CASE InUse
    BY <2>1 DEF QInv, Places
  <2>2. CASE ~InUse
    <3>1. Linked = {}
      BY <2>2 DEF QInv, Linked
    <3>2. \A p \in Procs : Held(p) = {}
      BY <2>2 DEF QInv, Held, Unlinked, ToFree
    <3> QED  BY <2>2, <3>1, <3>2 DEF QInv
  <2> QED  BY <2>1, <2>2
<1> HIDE DEF Places2, Holders
<1>4. Cardinality({}) = 0 /\ \A x : Cardinality({x}) = 1
  BY FS_EmptySet, FS_Singleton
<1>5. CASE n \in free
  <2>1. Places2 = {1} /\ Holders = {}
    BY <1>1, <1>2, <1>3, <1>5
  <2>2. Cardinality(Places2) = 1 /\ Cardinality(Holders) = 0
    BY <1>4, <2>1
  <2> QED  BY <2>2
<1>6. CASE n \in Linked
  <2>1. Places2 = {2} /\ Holders = {}
    BY <1>1, <1>2, <1>3, <1>6
  <2>2. Cardinality(Places2) = 1 /\ Cardinality(Holders) = 0
    BY <1>4, <2>1
  <2> QED  BY <2>2
<1>7. CASE \E p \in Procs : n \in Held(p)
  <2>1. PICK p \in Procs : n \in Held(p)
    BY <1>7
  <2>2. Places2 = {} /\ Holders = {p}
    BY <1>1, <1>2, <1>3, <2>1
  <2>3. Cardinality(Places2) = 0 /\ Cardinality(Holders) = 1
    BY <1>4, <2>2
  <2> QED  BY <2>3
<1> QED  BY <1>3, <1>5, <1>6, <1>7

LEMMA TailIsThere == QInv => TailIsNear
<1> SUFFICES ASSUME QInv PROVE TailIsNear
  OBVIOUS
<1>1. \A p \in Procs : pc[p] # "crashed"
  BY DEF QInv, QType, Labels, Linking, Taking
<1>2. ASSUME Len(Chain) > 0
      PROVE  /\ tail.pointer \in {Chain[i] : i \in {j \in 1..Len(Chain) : j >= Len(Chain) - 1}}
             /\ mem[Chain[Len(Chain)]].next.pointer = NULL
  <2>1. InUse
    <3>1. Len(<<>>) = 0
      OBVIOUS
    <3> QED  BY <1>2, <3>1 DEF QInv
  <2>2. PICK s : s = Chain
    OBVIOUS
  <2>3. Len(s) \in Nat \ {0} /\ mem[s[Len(s)]].next.pointer = NULL
    BY <2>1, <2>2, Facts, ListFacts DEF Using
  <2>4. tail.pointer = s[Len(s)] \/ (Len(s) > 1 /\ tail.pointer = s[Len(s) - 1])
    BY <2>1, <2>2 DEF QInv, Near
  <2>5. tail.pointer \in {s[i] : i \in {j \in 1..Len(s) : j >= Len(s) - 1}}
    <3>1. PICK k : k = Len(s) /\ k \in Nat \ {0}
      BY <2>3
    <3>2. /\ k \in {j \in 1..k : j >= k - 1}
          /\ k > 1 => k - 1 \in {j \in 1..k : j >= k - 1}
      BY <3>1
    <3>3. \E i \in {j \in 1..k : j >= k - 1} : tail.pointer = s[i]
      BY <2>4, <3>1, <3>2
    <3> QED  BY <3>1, <3>3
  <2> QED  BY <2>2, <2>3, <2>5
<1> QED  BY <1>1, <1>2 DEF TailIsNear

-----------------------------------------------------------------------------
(* Every step is a step of the FIFO queue, or none.                        *)

Abstract == <<Contents, call>>

LEMMA NoEffect ==
  ASSUME head' = head, mem' = mem, call' = call
  PROVE  Abstract' = Abstract
BY ListSame DEF Abstract

LEMMA RefineReturn ==
  ASSUME Contents' = Contents, NEW p \in Procs, call[p].done \/ call[p].empty,
         call' = [call EXCEPT ![p] = NoCall]
  PROVE  Fifo!Next
BY DEF Fifo!Next, Fifo!Return, Fifo!None, NoCall

LEMMA RefineCallEnqueue ==
  ASSUME QInv, InUse, Build, NEW p \in Procs, e_call(p)
  PROVE  Fifo!Next
<1>1. PICK n \in Nodes :
        /\ n \in free
        /\ mem' = [mem EXCEPT ![n] = [value |-> ops + 1, next |-> Ptr(NULL, mem[n].next.counter)]]
  BY DEF e_call, malloc, Build
<1>2. /\ pc[p] = "idle" /\ ops < MaxOps /\ head' = head /\ tail' = tail
      /\ call' = [call EXCEPT ![p] = [NoCall EXCEPT !.op = "enq", !.val = ops + 1]]
  BY DEF e_call
<1>3. call[p] = NoCall /\ ops + 1 \in 1..MaxOps /\ n \notin Linked /\ Using
  BY <1>1, <1>2, Facts, NodeAssumption DEF Knows, CallSeen, QType, Places
<1>4. Contents' = Contents
  <2>1. PICK r : mem' = [mem EXCEPT ![n] = r]
    BY <1>1
  <2> QED  BY <1>2, <1>3, <2>1, ShapeApart
<1>5. Fifo!CallEnqueue(p, ops + 1)
  BY <1>2, <1>3, <1>4 DEF Fifo!CallEnqueue, Fifo!None, NoCall
<1> QED  BY <1>3, <1>5 DEF Fifo!Next

LEMMA RefineLink ==
  ASSUME QInv, InUse, Build, NEW p \in Procs, e_link(p)
  PROVE  Fifo!Next \/ Abstract' = Abstract
<1> DEFINE t == loc[p].tail.pointer
           n == loc[p].node
<1>1. pc[p] = "e_link" /\ head' = head /\ tail' = tail
  BY DEF e_link
<1>2. Using /\ QType /\ Places /\ Knows(p)
  BY Facts
<1>3. CASE mem[t].next # loc[p].next
  BY <1>1, <1>3, NoEffect DEF e_link
<1>4. CASE mem[t].next = loc[p].next
  <2>1. /\ mem' = [mem EXCEPT ![t].next = Ptr(n, loc[p].next.counter + 1)]
        /\ call' = [call EXCEPT ![p].done = TRUE]
    BY <1>1, <1>4 DEF e_link
  <2>2. /\ t = tail.pointer /\ t \in Linked
        /\ mem[t].next.pointer = NULL
        /\ n \in Nodes /\ mem[n].next.pointer = NULL /\ mem[n].value = call[p].val
        /\ call[p].op = "enq" /\ ~call[p].done
    BY <1>1, <1>2, <1>4, Ends DEF Knows, EndSeen, NextEnd, OwnNode, CallSeen, Linking
  <2>3. n \notin Linked
    <3>1. Held(p) = {n}
      BY <1>1 DEF Held, Unlinked, ToFree
    <3> QED  BY <1>2, <3>1 DEF Places
  <2>4. Contents' = Append(Contents, call[p].val)
    <3>1. PICK c : mem' = [mem EXCEPT ![tail.pointer].next = Ptr(n, c)]
      BY <2>1, <2>2
    <3>2. n \in Nodes /\ mem[n].next.pointer = NULL /\ mem[n].value = call[p].val
      BY <2>2
    <3> HIDE DEF n, t
    <3>3. Contents' = Append(Contents, mem[n].value)
      BY <1>1, <1>2, <2>2, <2>3, <3>1, ShapeLink
    <3> QED  BY <3>2, <3>3
  <2>5. Fifo!AppendLast(p)
    BY <2>1, <2>2, <2>4 DEF Fifo!AppendLast
  <2> QED  BY <2>5 DEF Fifo!Next
<1> QED  BY <1>3, <1>4

LEMMA RefineSwing ==
  ASSUME QInv, InUse, NEW p \in Procs, e_swing(p)
  PROVE  Fifo!Next
<1>1. /\ head' = head /\ mem' = mem /\ call' = [call EXCEPT ![p] = NoCall]
      /\ call[p].done
  BY Facts DEF e_swing, Knows, CallSeen
<1> QED  BY <1>1, ListSame, RefineReturn

LEMMA RefineCallDequeue ==
  ASSUME QInv, InUse, NEW p \in Procs, d_call(p)
  PROVE  Fifo!Next
<1>1. /\ head' = head /\ mem' = mem /\ call[p] = NoCall
      /\ call' = [call EXCEPT ![p] = [NoCall EXCEPT !.op = "deq"]]
  BY Facts DEF d_call, qvars, Knows, CallSeen
<1>2. Contents' = Contents
  BY <1>1, ListSame
<1>3. Fifo!CallDequeue(p)
  BY <1>1, <1>2 DEF Fifo!CallDequeue, Fifo!None, NoCall
<1> QED  BY <1>3 DEF Fifo!Next

LEMMA RefineNextAgain ==
  ASSUME QInv, InUse, NEW p \in Procs, d_next(p)
  PROVE  Fifo!Next \/ Abstract' = Abstract
<1>1. /\ pc[p] = "d_next" /\ head' = head /\ mem' = mem
      /\ call' = [call EXCEPT ![p].empty = call[p].empty \/ Contents = <<>>]
  BY DEF d_next, qvars
<1>2. /\ call[p].op = "deq" /\ ~call[p].done
      /\ call \in [Procs -> Calls] /\ call[p].empty \in BOOLEAN
  BY <1>1, Facts DEF Knows, CallSeen, Taking, QType, Calls
<1>3. Contents' = Contents
  BY <1>1, ListSame
<1>4. CASE Contents = <<>>
  <2>1. call' = [call EXCEPT ![p].empty = TRUE]
    BY <1>1, <1>4
  <2>2. Fifo!SeeEmpty(p)
    BY <1>2, <1>3, <1>4, <2>1 DEF Fifo!SeeEmpty
  <2> QED  BY <2>2 DEF Fifo!Next
<1>5. CASE Contents # <<>>
  <2>1. call' = [call EXCEPT ![p].empty = call[p].empty]
    BY <1>1, <1>2, <1>5
  <2>2. call' = call
    BY <1>2, <2>1 DEF Calls
  <2> QED  BY <1>3, <2>2 DEF Abstract
<1> QED  BY <1>4, <1>5

LEMMA RefineTake ==
  ASSUME QInv, InUse, Build, NEW p \in Procs, d_take(p)
  PROVE  Fifo!Next \/ Abstract' = Abstract
<1>1. pc[p] = "d_take" /\ tail' = tail /\ mem' = mem
  BY DEF d_take
<1>2. Using /\ QType /\ Knows(p)
  BY Facts
<1>3. CASE head # loc[p].head
  BY <1>1, <1>3, NoEffect DEF d_take
<1>4. CASE head = loc[p].head
  <2>1. /\ head' = Ptr(loc[p].next.pointer, head.counter + 1)
        /\ call' = [call EXCEPT ![p] = [call[p] EXCEPT !.done = TRUE, !.val = loc[p].val]]
    BY <1>1, <1>4 DEF d_take
  <2>2. /\ Takes /\ tail.pointer # head.pointer
        /\ loc[p].val = mem[head'.pointer].value
        /\ call[p].op = "deq" /\ ~call[p].done
    BY <1>1, <1>2, <1>4, <2>1 DEF Knows, AheadSeen, EmptySeen, Takes, CallSeen, Taking, Ptr
  <2>3. /\ Contents # <<>> /\ Contents' = Tail(Contents)
        /\ Head(Contents) = loc[p].val
    BY <1>1, <1>2, <2>2, ShapeTake
  <2>4. call' = [call EXCEPT ![p] = [call[p] EXCEPT !.done = TRUE, !.val = Head(Contents)]]
    BY <2>1, <2>3
  <2>5. Fifo!TakeFirst(p)
    BY <2>2, <2>3, <2>4 DEF Fifo!TakeFirst
  <2> QED  BY <2>5 DEF Fifo!Next
<1> QED  BY <1>3, <1>4

LEMMA RefineFree ==
  ASSUME QInv, InUse, NEW p \in Procs, d_free(p)
  PROVE  Fifo!Next
<1> DEFINE n == loc[p].head.pointer
<1>1. /\ pc[p] = "d_free" /\ mem' = [mem EXCEPT ![n].value = Junk]
      /\ call' = [call EXCEPT ![p] = NoCall]
      /\ head' = head /\ tail' = tail
  BY DEF d_free, Return
<1>2. Held(p) = {n}
  BY <1>1 DEF Held, Unlinked, ToFree
<1> HIDE DEF n
<1>3. n \in Nodes /\ n \notin Linked /\ Using /\ call[p].done
  BY <1>1, <1>2, Facts DEF Places, Knows, CallSeen
<1>4. Contents' = Contents
  <2>1. PICK r : mem' = [mem EXCEPT ![n] = r]
    BY <1>1
  <2> QED  BY <1>1, <1>3, <2>1, ShapeApart
<1> QED  BY <1>1, <1>3, <1>4, RefineReturn

LEMMA RefineFail ==
  ASSUME QInv, InUse, NEW p \in Procs, d_fail(p)
  PROVE  Fifo!Next
<1>1. /\ head' = head /\ mem' = mem /\ call' = [call EXCEPT ![p] = NoCall]
      /\ call[p].empty
  BY Facts DEF d_fail, qvars, Return, Knows, EmptySeen
<1> QED  BY <1>1, ListSame, RefineReturn

LEMMA RefineDestroy ==
  ASSUME QInv, destroy
  PROVE  Fifo!Next
<1>1. InUse /\ (\A p \in Procs : pc[p] = "idle") /\ call' = call
  BY DEF destroy, InUse
<1>2. \A p \in Procs : call[p] = NoCall
  BY <1>1, Facts DEF Knows, CallSeen
<1>3. head'.pointer = NULL
  <2>1. mem[Chain[Len(Chain)]].next.pointer = NULL
    BY <1>1, Facts, ListFacts DEF Using
  <2> QED  BY <2>1 DEF destroy
<1>4. Chain' = <<>>
  BY <1>3, ChainEmptyNext
<1>5. Contents' = <<>>
  BY <1>4 DEF Contents
<1>6. Fifo!Discard
  BY <1>1, <1>2, <1>5 DEF Fifo!Discard, Fifo!None, NoCall
<1> QED  BY <1>6 DEF Fifo!Next

LEMMA Refines == ASSUME Build, QInv, [Next]_vars PROVE Fifo!Next \/ Abstract' = Abstract
<1>1. ASSUME NEW p \in Procs, Step(p) PROVE Fifo!Next \/ Abstract' = Abstract
  <2>1. InUse
    BY <1>1, NoStepAfterDestroy
  <2>2. CASE e_tail(p) \/ e_next(p) \/ e_check(p) \/ e_help(p) \/ d_head(p) \/ d_tail(p)
             \/ d_check(p) \/ d_help(p) \/ d_value(p)
    <3>1. head' = head /\ mem' = mem /\ call' = call
      BY <2>2 DEF e_tail, e_next, e_check, e_help, d_head, d_tail, d_check, d_help, d_value, qvars
    <3> QED  BY <3>1, NoEffect
  <2> QED
    BY <1>1, <2>1, <2>2, RefineCallEnqueue, RefineLink, RefineSwing, RefineCallDequeue,
       RefineNextAgain, RefineTake, RefineFree, RefineFail DEF Step
<1>2. CASE destroy
  BY <1>2, RefineDestroy
<1>3. CASE vars' = vars
  BY <1>3, NoEffect DEF vars
<1> QED  BY <1>1, <1>2, <1>3 DEF Next, Finished

LEMMA RefinesInit == Init => Fifo!Init
<1> SUFFICES ASSUME Init PROVE Fifo!Init
  OBVIOUS
<1>1. call = [p \in Procs |-> NoCall]
  BY DEF Init
<1>2. QInv /\ InUse /\ mem[head.pointer].next.pointer = NULL
  <2>1. PICK n \in Nodes : initialize(n)
    BY DEF Init
  <2> QED  BY <2>1, QInit, NodeAssumption DEF initialize, Ptr, InUse
<1>3. Contents = <<>>
  BY <1>2, Facts, OnlyNode
<1> QED  BY <1>1, <1>3 DEF Fifo!Init, Fifo!None, NoCall

-----------------------------------------------------------------------------
(* The theorems.                                                           *)

(* However the calls interleave, however many of them there are and however
   often nodes are freed and allocated again, every node is free, on the list
   or in the hands of one process (queue.c:43-100), if the memory of a freed
   node keeps its counter, counted pointers are copied at once and head and
   tail are read again to compare them. *)
THEOREM NodesStayAccounted == ASSUME Build PROVE Spec => []NodesAccounted
BY QueueInvariant, AccountedFor, PTL

(* In the same builds the tail stays at the last node or the one before, and no
   dequeue reads a value through NULL (queue.c:60-65, 84-91). *)
THEOREM TailStaysNear == ASSUME Build PROVE Spec => []TailIsNear
BY QueueInvariant, TailIsThere, PTL

(* In the same builds the queue implements the FIFO queue: its effect is that
   of the cas of enqueue that links the node, of the cas of dequeue that moves
   the head, or, when dequeue fails, of its read of the next pointer at a
   moment when the queue was empty (queue.c:54-56, 68-70, 82). *)
THEOREM QueueIsFifo == ASSUME Build PROVE Spec => ImplementsFifo
<1>1. QInv /\ [Next]_vars => [Fifo!Next]_<<Contents, call>>
  BY Refines DEF Abstract
<1> QED  BY <1>1, RefinesInit, QueueInvariant, PTL DEF Spec, ImplementsFifo, Fifo!Spec
=============================================================================
