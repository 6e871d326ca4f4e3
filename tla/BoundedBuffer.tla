---------------------------- MODULE BoundedBuffer ----------------------------
(***************************************************************************)
(* The blocking queue of bounded_buffer_queue.h and its destruction.  The  *)
(* items are abstracted to their number; GetFront and Push, which differ   *)
(* in nothing else than the condition and the effect on the queue, are the *)
(* operations "get" and "push" of the same actions.                        *)
(*                                                                         *)
(* What may come between two steps of a thread that has the mutex is an    *)
(* action: the counters go up before the mutex is locked and down before   *)
(* it is unlocked, and stop_ is set without it.                            *)
(***************************************************************************)
EXTENDS Integers, FiniteSets, CondVar

CONSTANT cap_
ASSUME CapAssumption == cap_ \in Nat
ASSUME CallersAssumption == IsFiniteSet(Threads)

VARIABLES
  size,      \* queue_.size()
  stop_,
  counter_,  \* "get": get_counter_, "push": push_counter_
  cv,        \* who is asleep, "get": on cv1_, in GetFront; "push": on cv2_, in Push
  call,      \* the operation and the place of each thread
  dtor,      \* the destructor: "none", "notify", "spin" or "done"
  cut        \* history: stop_ ended a call, or a call fell asleep after it

bufferVars == <<size, stop_, counter_, cv, call, dtor, cut>>

Ops == {"get", "push"}
Other(op) == IF op = "get" THEN "push" ELSE "get"

\* "test": about to lock the mutex and test the predicate, or asleep; with the
\* mutex, "false": the predicate was false; "done": about to notify and unlock.
Outside == <<"none", "out">>
LockMutex == \A t \in Threads : call[t][2] \notin {"false", "done"}
Tests(t, op) == call[t] = <<op, "test">> /\ t \notin cv[op] /\ LockMutex
Goto(t, op, place) == call' = [call EXCEPT ![t] = <<op, place>>]

BufferInit ==
  /\ size = 0
  /\ stop_ = FALSE
  /\ counter_ = [op \in Ops |-> 0]
  /\ cv = [op \in Ops |-> {}]
  /\ call = [t \in Threads |-> Outside]
  /\ dtor = "none"
  /\ cut = FALSE

\* Nobody may call when destruction has begun.
Enter(t, op) ==
  /\ dtor = "none" /\ call[t] = Outside
  /\ counter_' = [counter_ EXCEPT ![op] = @ + 1]
  /\ Goto(t, op, "test")
  /\ UNCHANGED <<size, stop_, cv, dtor, cut>>

Ready(op) == IF op = "get" THEN size > 0 ELSE size < cap_

\* Mutant: the call stays counted.
Proceed_counted(t, op) ==
  /\ Tests(t, op) /\ ~stop_ /\ Ready(op)
  /\ size' = IF op = "get" THEN size - 1 ELSE size + 1
  /\ Goto(t, op, "done")
  /\ UNCHANGED <<stop_, counter_, cv, dtor, cut>>

Proceed(t, op) ==
  /\ Tests(t, op) /\ ~stop_ /\ Ready(op)
  /\ size' = IF op = "get" THEN size - 1 ELSE size + 1
  /\ counter_' = [counter_ EXCEPT ![op] = @ - 1]
  /\ Goto(t, op, "done")
  /\ UNCHANGED <<stop_, cv, dtor, cut>>

\* Mutant: the wrong condition variable is notified.
Notify_own(t, op) ==
  /\ call[t] = <<op, "done">>
  /\ \E asleep \in NotifyOne(cv[op]) : cv' = [cv EXCEPT ![op] = asleep]
  /\ call' = [call EXCEPT ![t] = Outside]
  /\ UNCHANGED <<size, stop_, counter_, dtor, cut>>

Notify(t, op) ==
  /\ call[t] = <<op, "done">>
  /\ \E asleep \in NotifyOne(cv[Other(op)]) : cv' = [cv EXCEPT ![Other(op)] = asleep]
  /\ call' = [call EXCEPT ![t] = Outside]
  /\ UNCHANGED <<size, stop_, counter_, dtor, cut>>

\* The early return leaves the counter as it is.
ReturnStopped(t, op) ==
  /\ Tests(t, op) /\ stop_
  /\ call' = [call EXCEPT ![t] = Outside]
  /\ cut' = TRUE
  /\ UNCHANGED <<size, stop_, counter_, cv, dtor>>

FindFalse(t, op) ==
  /\ Tests(t, op) /\ ~stop_ /\ ~Ready(op)
  /\ Goto(t, op, "false")
  /\ UNCHANGED <<size, stop_, counter_, cv, dtor, cut>>

FallAsleep(t, op) ==
  /\ call[t] = <<op, "false">>
  /\ cv' = [cv EXCEPT ![op] = @ \cup {t}]
  /\ cut' = (cut \/ stop_)
  /\ Goto(t, op, "test")
  /\ UNCHANGED <<size, stop_, counter_, dtor>>

Buffer_spurious(t, op) ==
  /\ t \in cv[op]
  /\ cv' = [cv EXCEPT ![op] = @ \ {t}]
  /\ UNCHANGED <<size, stop_, counter_, call, dtor, cut>>

\* The destructor: sets stop_, wakes everybody, spins until nobody is inside.
Destroy ==
  /\ dtor = "none"
  /\ stop_' = TRUE
  /\ dtor' = "notify"
  /\ UNCHANGED <<size, counter_, cv, call, cut>>

Destroy_notify ==
  /\ dtor = "notify"
  /\ cv' \in [Ops -> NotifyAll(cv)]
  /\ dtor' = "spin"
  /\ UNCHANGED <<size, stop_, counter_, call, cut>>

Destroy_leave ==
  /\ dtor = "spin" /\ \A op \in Ops : counter_[op] <= 0
  /\ dtor' = "done"
  /\ UNCHANGED <<size, stop_, counter_, cv, call, cut>>

Continue(t) ==
  \E op \in Ops : \/ Proceed(t, op) \/ Notify(t, op) \/ ReturnStopped(t, op)
                  \/ FindFalse(t, op) \/ FallAsleep(t, op)
Destroying == Destroy_notify \/ Destroy_leave

BufferNext ==
  \/ \E t \in Threads :
       Continue(t) \/ \E op \in Ops : Enter(t, op) \/ Buffer_spurious(t, op)
  \/ Destroy \/ Destroying

BufferSpec == BufferInit /\ [][BufferNext]_bufferVars

\* Threads and the destructor go on when they can; nobody has to call or destroy.
BufferFairness ==
  WF_bufferVars(Destroying) /\ \A t \in Threads : WF_bufferVars(Continue(t))

-----------------------------------------------------------------------------
\* Awake threads that will test for op, or notify one that does.
Awake(op) ==
  {t \in Threads : call[t] = <<Other(op), "done">>
                     \/ (call[t] = <<op, "test">> /\ t \notin cv[op])}

(* No wake-up is lost.  While a thread sleeps in GetFront there are, for the
   items in the queue, as many threads awake that will test for one or notify
   for the item they put in; and so it is for Push and the free places
   (bounded_buffer_queue.h:24-56). *)
EnoughAwake ==
  ~stop_ =>
    /\ cv["get"] # {} => size <= Cardinality(Awake("get"))
    /\ cv["push"] # {} => cap_ - size <= Cardinality(Awake("push"))

(* The destructor returns, if no call has to wait for another one: a call that
   is ended by stop_, or that goes to sleep although stop_ is set, leaves its
   counter up, and the destructor spins for ever
   (bounded_buffer_queue.h:28-30, 50-52, 58-63). *)
DestructorEnds == dtor # "none" ~> dtor = "done" \/ cut

=============================================================================
