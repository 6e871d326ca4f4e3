--------------------------- MODULE ThreadsafeQueue ---------------------------
(***************************************************************************)
(* The blocking queue of threadsafe_queue.hpp; an action is a critical     *)
(* section.  The items are abstracted to their number; what only reads     *)
(* (empty, copies of the queue, a try_pop that fails) changes nothing.     *)
(***************************************************************************)
EXTENDS Integers, FiniteSets, CondVar

CONSTANT MaxItems   \* bound
ASSUME PoppersAssumption == IsFiniteSet(Threads)

VARIABLES
  items,      \* data_queue.size()
  popping,    \* the threads in wait_and_pop that have not found an item yet
  popAsleep   \* those of them asleep on cv

tqVars == <<items, popping, popAsleep>>

TqInit == items = 0 /\ popping = {} /\ popAsleep = {}

\* Mutant: nobody is notified unless the queue was empty.
push_if_empty ==
  /\ items < MaxItems
  /\ items' = items + 1
  /\ popAsleep' \in IF items = 0 THEN NotifyOne(popAsleep) ELSE {popAsleep}
  /\ UNCHANGED popping

push ==
  /\ items < MaxItems
  /\ items' = items + 1
  /\ popAsleep' \in NotifyOne(popAsleep)
  /\ UNCHANGED popping

wait_and_pop(t) ==
  /\ t \notin popAsleep /\ items > 0
  /\ items' = items - 1
  /\ popping' = popping \ {t}
  /\ UNCHANGED popAsleep

wait_and_pop_sleep(t) ==
  /\ t \notin popAsleep /\ items = 0
  /\ popping' = popping \cup {t} /\ popAsleep' = popAsleep \cup {t}
  /\ UNCHANGED items

try_pop ==
  /\ items > 0
  /\ items' = items - 1
  /\ UNCHANGED <<popping, popAsleep>>

\* The move constructor of another queue takes everything.
MoveAway ==
  /\ items' = 0
  /\ UNCHANGED <<popping, popAsleep>>

Tq_spurious(t) ==
  /\ t \in popAsleep
  /\ popAsleep' = popAsleep \ {t}
  /\ UNCHANGED <<items, popping>>

TqNext ==
  \/ push \/ try_pop \/ MoveAway
  \/ \E t \in Threads : wait_and_pop(t) \/ wait_and_pop_sleep(t) \/ Tq_spurious(t)

TqSpec == TqInit /\ [][TqNext]_tqVars

-----------------------------------------------------------------------------
(* While a thread sleeps in wait_and_pop there are as many others awake in it
   as there are items, although try_pop and newcomers take items that sleepers
   were woken for (threadsafe_queue.hpp:31-80). *)
PoppersWoken == popAsleep # {} => items <= Cardinality(popping \ popAsleep)
=============================================================================
