--------------------------- MODULE ThreadsafeList ---------------------------
(***************************************************************************)
(* The list of threadsafe_list.hpp: a mutex in each node, and walks that   *)
(* lock the next node before they unlock the current one.  What a walk     *)
(* does under the two locks is one action with the step from the one to    *)
(* the other.  Predicates may say anything of any element, so that the     *)
(* elements themselves need not be modelled.                               *)
(***************************************************************************)
EXTENDS Callers

CONSTANTS Nodes, HeadNode
ASSUME NodesAssumption == NULL \notin Nodes \cup Threads /\ HeadNode \notin Nodes \cup {NULL}

VARIABLES
  next,   \* of each node, the head included
  used,   \* the nodes that are allocated
  mtx,    \* the thread that has locked each node
  walk,   \* of each thread: "none", "for_each", "find_first_of" or "remove_if"
  cur,    \* local variable current of a walk, the node it has locked
  nxt,    \* local variable next of a walk
  due,    \* history: elements there when the walk began and not removed since
  seen    \* history: elements the walk has been at

listVars == <<next, used, mtx, walk, cur, nxt, due, seen>>

ListInit ==
  /\ next = [n \in Nodes \cup {HeadNode} |-> NULL]
  /\ used = {}
  /\ mtx = [n \in Nodes \cup {HeadNode} |-> NULL]
  /\ walk = [t \in Threads |-> "none"]
  /\ cur = [t \in Threads |-> NULL]
  /\ nxt = [t \in Threads |-> NULL]
  /\ due = [t \in Threads |-> {}]
  /\ seen = [t \in Threads |-> {}]

push_front(n) ==
  /\ mtx[HeadNode] = NULL /\ n \notin used
  /\ next' = [next EXCEPT ![n] = next[HeadNode], ![HeadNode] = n]
  /\ used' = used \cup {n}
  /\ UNCHANGED <<mtx, walk, cur, nxt, due, seen>>

Begin(t, kind) ==
  /\ walk[t] = "none" /\ mtx[HeadNode] = NULL
  /\ walk' = [walk EXCEPT ![t] = kind]
  /\ mtx' = [mtx EXCEPT ![HeadNode] = t]
  /\ cur' = [cur EXCEPT ![t] = HeadNode]
  /\ nxt' = [nxt EXCEPT ![t] = next[HeadNode]]
  /\ due' = [due EXCEPT ![t] = used]
  /\ seen' = [seen EXCEPT ![t] = {}]
  /\ UNCHANGED <<next, used>>

\* Locks the next node; the thread goes on when it has the lock.
LockNext(t) == walk[t] # "none" /\ nxt[t] # NULL /\ mtx[nxt[t]] = NULL
Visit(t) == seen' = [seen EXCEPT ![t] = @ \cup {nxt[t]}]

\* for_each, and the others at an element that does not match.
Advance(t) ==
  /\ LockNext(t) /\ Visit(t)
  /\ mtx' = [mtx EXCEPT ![cur[t]] = NULL, ![nxt[t]] = t]
  /\ cur' = [cur EXCEPT ![t] = nxt[t]]
  /\ nxt' = [nxt EXCEPT ![t] = next[nxt[t]]]
  /\ UNCHANGED <<next, used, walk, due>>

\* Mutant: the lock of the current node is not released.
Return_locked(t) ==
  /\ walk' = [walk EXCEPT ![t] = "none"]
  /\ cur' = [cur EXCEPT ![t] = NULL]
  /\ nxt' = [nxt EXCEPT ![t] = NULL]
  /\ due' = [due EXCEPT ![t] = {}]
  /\ seen' = [seen EXCEPT ![t] = {}]
  /\ UNCHANGED <<next, used, mtx>>

Return(t) ==
  /\ walk' = [walk EXCEPT ![t] = "none"]
  /\ mtx' = [mtx EXCEPT ![cur[t]] = NULL]
  /\ cur' = [cur EXCEPT ![t] = NULL]
  /\ nxt' = [nxt EXCEPT ![t] = NULL]
  /\ due' = [due EXCEPT ![t] = {}]
  /\ seen' = [seen EXCEPT ![t] = {}]
  /\ UNCHANGED <<next, used>>

find_first_of(t) ==
  /\ walk[t] = "find_first_of" /\ LockNext(t)
  /\ Return(t)

\* Mutant: the node to be deleted is not locked.
remove_if_unlocked(t) ==
  /\ walk[t] = "remove_if" /\ nxt[t] # NULL /\ Visit(t)
  /\ next' = [next EXCEPT ![cur[t]] = next[nxt[t]]]
  /\ nxt' = [nxt EXCEPT ![t] = next[nxt[t]]]
  /\ used' = used \ {nxt[t]}
  /\ due' = [u \in Threads |-> due[u] \ {nxt[t]}]
  /\ UNCHANGED <<mtx, walk, cur>>

\* Mutant: the walk steps over the node behind the deleted one.
remove_if_skips(t) ==
  /\ walk[t] = "remove_if" /\ LockNext(t) /\ Visit(t)
  /\ next' = [next EXCEPT ![cur[t]] = next[nxt[t]]]
  /\ nxt' = [nxt EXCEPT ![t] = IF next[nxt[t]] = NULL THEN NULL ELSE next[next[nxt[t]]]]
  /\ used' = used \ {nxt[t]}
  /\ due' = [u \in Threads |-> due[u] \ {nxt[t]}]
  /\ UNCHANGED <<mtx, walk, cur>>

\* Unlinks a matching element and deletes it; the walk stays where it is.
remove_if(t) ==
  /\ walk[t] = "remove_if" /\ LockNext(t) /\ Visit(t)
  /\ next' = [next EXCEPT ![cur[t]] = next[nxt[t]]]
  /\ nxt' = [nxt EXCEPT ![t] = next[nxt[t]]]
  /\ used' = used \ {nxt[t]}
  /\ due' = [u \in Threads |-> due[u] \ {nxt[t]}]
  /\ UNCHANGED <<mtx, walk, cur>>

ReachEnd(t) ==
  /\ walk[t] # "none" /\ nxt[t] = NULL
  /\ Return(t)

Step(t) == Advance(t) \/ find_first_of(t) \/ remove_if(t) \/ ReachEnd(t)

ListNext ==
  \/ \E n \in Nodes : push_front(n)
  \/ \E t \in Threads :
       \/ \E kind \in {"for_each", "find_first_of", "remove_if"} : Begin(t, kind)
       \/ Step(t)

ListSpec == ListInit /\ [][ListNext]_listVars

\* A walk that can take a step takes it; nothing is assumed of the head's lock.
ListFairness == \A t \in Threads : WF_listVars(Step(t))

-----------------------------------------------------------------------------
Walking == {t \in Threads : walk[t] # "none"}

(* No walk comes to a deleted node, although nodes are deleted while others
   walk: the current node of a walk is allocated and locked by it, and the next
   one, which it waits to lock, is still the next one and allocated
   (threadsafe_list.hpp:41-96). *)
WalkersSafe ==
  \A t \in Walking :
    /\ cur[t] \in used \cup {HeadNode} /\ mtx[cur[t]] = t
    /\ nxt[t] = next[cur[t]] /\ nxt[t] \in used \cup {NULL}

(* A walk that ends has been at every element that was there all the time, and
   at none twice, whatever is pushed and removed meanwhile
   (threadsafe_list.hpp:32-96). *)
VisitsAll ==
  \A t \in Walking : (nxt[t] = NULL => due[t] \subseteq seen[t]) /\ nxt[t] \notin seen[t]

(* Every walk ends: nobody overtakes a walk to the lock it waits for, so that
   it gets it when those ahead go on (threadsafe_list.hpp:45-52, 60-70, 79-94). *)
WalksEnd == \A t \in Threads : walk[t] # "none" ~> walk[t] = "none"
=============================================================================
