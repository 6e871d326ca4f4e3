------------------------- MODULE ThreadLibProperties -------------------------
(***************************************************************************)
(* The properties of the thread library, and the monitor it implements.    *)
(***************************************************************************)
EXTENDS ThreadLib

\* The type invariant.
TypeOK ==
  /\ already_inited \in BOOLEAN
  /\ main_thread \in BOOLEAN
  /\ running_thread \in Threads \cup {NULL}
  /\ ready_threads \in Seq(Threads)
  /\ locks_held \in [Locks -> Threads \cup {NULL}]
  /\ lock_blocked_threads \in [Locks -> Seq(Threads)]
  /\ monitor_blocked_threads \in [Locks \X Conds -> Seq(Threads)]
  /\ ctx \in {"caller", "main", "thread", "exited", "deadlocked", "aborted"}
  /\ pc \in [Threads -> {"free", "user", "locking", "waiting", "done"}]
  /\ arg \in [Threads -> Locks \cup {NULL}]
  /\ owns \in [Threads -> SUBSET Locks]

NoRepeats(s) == \A i, j \in 1..Len(s) : s[i] = s[j] => i = j

OnProcessor(t)   == ctx \in {"thread", "deadlocked"} /\ running_thread = t
InReady(t)       == t \in Elems(ready_threads)
InLockQueue(t, l) == t \in Elems(lock_blocked_threads[l])
InMonitor(t, m)  == t \in Elems(monitor_blocked_threads[m])

-----------------------------------------------------------------------------
(* A thread is never lost and never runs twice: a live thread is in exactly
   one place (on the processor, in the ready queue, in one lock queue, in one
   monitor queue), once; an address without a live thread is in none.  A
   thread pushed twice or forgotten by lock, wait, signal or broadcast breaks
   it.  (thread.cc moves Thread* between four queues by hand.) *)
OnePlace ==
  /\ NoRepeats(ready_threads)
  /\ \A l \in Locks : NoRepeats(lock_blocked_threads[l])
  /\ \A m \in Locks \X Conds : NoRepeats(monitor_blocked_threads[m])
  /\ \A t \in Threads :
       /\ Live(t) <=> \/ OnProcessor(t) \/ InReady(t)
                      \/ \E l \in Locks : InLockQueue(t, l)
                      \/ \E m \in Locks \X Conds : InMonitor(t, m)
       /\ OnProcessor(t) => ~InReady(t)
       /\ \A l \in Locks : InLockQueue(t, l) =>
            /\ ~OnProcessor(t) /\ ~InReady(t)
            /\ \A k \in Locks \ {l} : ~InLockQueue(t, k)
       /\ \A m \in Locks \X Conds : InMonitor(t, m) =>
            /\ ~OnProcessor(t) /\ ~InReady(t)
            /\ \A l \in Locks : ~InLockQueue(t, l)
            /\ \A n \in (Locks \X Conds) \ {m} : ~InMonitor(t, n)

(* A thread that was told it holds a lock (thread_lock or thread_wait returned
   0) is the holder the library has recorded, so no two threads are told they
   hold the same lock; the recorded holder either knows it or is a thread the
   lock was handed to that is about to run (thread.cc:219-224, 280-284). *)
HolderKnows ==
  \A l \in Locks, t \in Threads :
    /\ l \in owns[t] => locks_held[l] = t
    /\ locks_held[l] = t => \/ l \in owns[t]
                            \/ /\ pc[t] = "locking" /\ arg[t] = l
                               /\ InReady(t) \/ OnProcessor(t)

(* No lock is free while threads are blocked on it, and nobody is blocked on a
   lock it holds itself: a release is never lost on the blocked threads, which
   only a hand-over wakes (thread.cc:271-284). *)
NoIdleLock ==
  \A l \in Locks :
    /\ lock_blocked_threads[l] # <<>> => locks_held[l] # NULL
    /\ ~InLockQueue(locks_held[l], l)

(* Hand-over is first come, first served and cannot be overtaken: while
   threads are blocked on a lock, the only thread it can pass to is the first
   of them, and the others keep their order. *)
NoBarging ==
  [][\A l \in Locks : lock_blocked_threads[l] # <<>> =>
       \/ /\ locks_held'[l] = locks_held[l]
          /\ \E s \in {<<>>} \cup {<<t>> : t \in Threads} :
               lock_blocked_threads'[l] = lock_blocked_threads[l] \o s
       \/ /\ locks_held'[l] = Head(lock_blocked_threads[l])
          /\ lock_blocked_threads'[l] = Tail(lock_blocked_threads[l])
    ]_vars

(* Ready threads are served in order: in a step every ready thread keeps its
   place or all move up by one, and nobody is put in front of them (yield,
   unlock, signal and broadcast push at the back, the front is taken). *)
ReadyInOrder ==
  [][\E n \in {0, 1} :
       \A i \in 1..(Len(ready_threads) - n) :
         i <= Len(ready_threads') /\ ready_threads'[i] = ready_threads[i + n]
    ]_vars

-----------------------------------------------------------------------------
(* The library implements the Mesa monitor: the holders are the ones recorded,
   a thread contends for a lock when it is blocked on it or has been woken
   from a monitor of it and has not run yet. *)
Contenders == [l \in Locks |->
  Elems(lock_blocked_threads[l]) \cup
  {t \in Threads : /\ pc[t] = "waiting" /\ arg[t] = l
                   /\ InReady(t) \/ OnProcessor(t)}]
Waiters == [m \in Locks \X Conds |-> Elems(monitor_blocked_threads[m])]

Monitor == INSTANCE MesaMonitor
             WITH holder <- locks_held, contenders <- Contenders, waiters <- Waiters

ImplementsMonitor == Monitor!Spec

-----------------------------------------------------------------------------
(* No starvation in the ready queue: if no thread keeps the processor for
   ever, a thread that is ready gets it (or the program ends). *)
Cooperative == \A t \in Threads : []<>~(ctx = "thread" /\ running_thread = t)

ReadyRuns ==
  Cooperative =>
    \A t \in Threads :
      (InReady(t) /\ ctx # "caller") ~> (OnProcessor(t) \/ Over)

(* No starvation on a lock: if, besides, whoever holds a lock gives it up
   again, a thread blocked on a lock gets it (or the program ends). *)
Releasing == \A t \in Threads, l \in Locks : []<>(l \notin owns[t])

BlockedAcquires ==
  (Cooperative /\ Releasing) =>
    \A t \in Threads, l \in Locks :
      InLockQueue(t, l) ~> (l \in owns[t] \/ Over)

-----------------------------------------------------------------------------
(* A thread refused by thread_lock as the holder of the lock was told that it
   holds it: "If the running thread has held the lock, deadlock"
   (thread.cc:212).  Fails when threads finish while holding a lock: nothing
   clears locks_held, and a later thread can get the address left there. *)
RefusedOnlyIfHeld ==
  \A l \in Locks :
    (InUserCode /\ locks_held[l] = running_thread) => l \in owns[running_thread]
=============================================================================
