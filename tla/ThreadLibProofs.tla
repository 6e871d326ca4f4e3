--------------------------- MODULE ThreadLibProofs ---------------------------
(***************************************************************************)
(* Proofs about the thread library, for any sets of threads, locks and     *)
(* conditions.                                                             *)
(***************************************************************************)
EXTENDS ThreadLibProperties, TLAPS

-----------------------------------------------------------------------------
(* Queues.                                                                 *)

\* push(): one more element, at the end.
LEMMA AppendQueue ==
  ASSUME NEW S, NEW s \in Seq(S), NEW x \in S
  PROVE  /\ Append(s, x) \in Seq(S)
         /\ Append(s, x) # <<>>
         /\ Elems(Append(s, x)) = Elems(s) \cup {x}
         /\ NoRepeats(s) /\ x \notin Elems(s) => NoRepeats(Append(s, x))
<1>1. /\ Append(s, x) \in Seq(S)
      /\ Len(Append(s, x)) = Len(s) + 1
      /\ Append(s, x)[Len(s) + 1] = x
      /\ \A i \in 1..Len(s) : Append(s, x)[i] = s[i]
  OBVIOUS
<1>2. Len(s) \in Nat
  OBVIOUS
<1>3. Append(s, x) # <<>>
  BY <1>1, <1>2
<1>4. 1..(Len(s) + 1) = (1..Len(s)) \cup {Len(s) + 1}
  BY <1>2
<1>5. Elems(Append(s, x)) = Elems(s) \cup {x}
  BY <1>1, <1>2, <1>4 DEF Elems
<1>6. ASSUME NoRepeats(s), x \notin Elems(s)
      PROVE  NoRepeats(Append(s, x))
  BY <1>1, <1>2, <1>4, <1>6 DEF Elems, NoRepeats
<1> QED  BY <1>1, <1>3, <1>5, <1>6

\* front() and pop(): the first element, and the others in order.
LEMMA PopQueue ==
  ASSUME NEW S, NEW s \in Seq(S), s # <<>>
  PROVE  /\ Head(s) \in S
         /\ Tail(s) \in Seq(S)
         /\ Elems(s) = {Head(s)} \cup Elems(Tail(s))
         /\ NoRepeats(s) => NoRepeats(Tail(s)) /\ Head(s) \notin Elems(Tail(s))
<1>1. /\ Len(s) \in Nat \ {0}
      /\ Head(s) = s[1]
      /\ Head(s) \in S
      /\ Tail(s) \in Seq(S)
      /\ Len(Tail(s)) = Len(s) - 1
      /\ \A i \in 1..(Len(s) - 1) : Tail(s)[i] = s[i + 1]
  OBVIOUS
<1>2. Elems(s) = {Head(s)} \cup Elems(Tail(s))
  <2>1. ASSUME NEW y \in Elems(s) PROVE y \in {Head(s)} \cup Elems(Tail(s))
    <3>1. PICK i \in 1..Len(s) : y = s[i]
      BY <2>1 DEF Elems
    <3>2. CASE i = 1
      BY <3>1, <3>2, <1>1
    <3>3. CASE i # 1
      <4>1. /\ i - 1 \in 1..Len(Tail(s))
            /\ Tail(s)[i - 1] = s[i]
        BY <3>3, <1>1
      <4> QED  BY <4>1, <3>1 DEF Elems
    <3> QED  BY <3>2, <3>3
  <2>2. ASSUME NEW y \in Elems(Tail(s)) PROVE y \in Elems(s)
    <3>1. PICK i \in 1..Len(Tail(s)) : y = Tail(s)[i]
      BY <2>2 DEF Elems
    <3>2. /\ i + 1 \in 1..Len(s)
          /\ Tail(s)[i] = s[i + 1]
      BY <1>1
    <3> QED  BY <3>1, <3>2 DEF Elems
  <2>3. Head(s) \in Elems(s)
    BY <1>1 DEF Elems
  <2> QED  BY <2>1, <2>2, <2>3
<1>3. ASSUME NoRepeats(s)
      PROVE  NoRepeats(Tail(s)) /\ Head(s) \notin Elems(Tail(s))
  BY <1>1, <1>3 DEF Elems, NoRepeats
<1> QED  BY <1>1, <1>2, <1>3

\* Pushing the elements of a second queue, one after the other.
LEMMA ConcatQueue ==
  ASSUME NEW S, NEW s \in Seq(S), NEW u \in Seq(S)
  PROVE  /\ s \o u \in Seq(S)
         /\ Elems(s \o u) = Elems(s) \cup Elems(u)
         /\ NoRepeats(s) /\ NoRepeats(u) /\ Elems(s) \cap Elems(u) = {}
              => NoRepeats(s \o u)
<1>1. /\ s \o u \in Seq(S)
      /\ Len(s \o u) = Len(s) + Len(u)
      /\ Len(s) \in Nat
      /\ Len(u) \in Nat
      /\ \A i \in 1..(Len(s) + Len(u)) :
           (s \o u)[i] = IF i <= Len(s) THEN s[i] ELSE u[i - Len(s)]
  OBVIOUS
<1>2. Elems(s \o u) = Elems(s) \cup Elems(u)
  <2>1. ASSUME NEW y \in Elems(s \o u) PROVE y \in Elems(s) \cup Elems(u)
    <3>1. PICK i \in 1..(Len(s) + Len(u)) : y = (s \o u)[i]
      BY <1>1, <2>1 DEF Elems
    <3> QED  BY <1>1, <3>1 DEF Elems
  <2>2. ASSUME NEW y \in Elems(s) PROVE y \in Elems(s \o u)
    <3>1. PICK i \in 1..Len(s) : y = s[i]
      BY <2>2 DEF Elems
    <3>2. i \in 1..Len(s \o u) /\ (s \o u)[i] = y
      BY <1>1, <3>1
    <3> QED  BY <3>2 DEF Elems
  <2>3. ASSUME NEW y \in Elems(u) PROVE y \in Elems(s \o u)
    <3>1. PICK i \in 1..Len(u) : y = u[i]
      BY <2>3 DEF Elems
    <3>2. i + Len(s) \in 1..Len(s \o u) /\ (s \o u)[i + Len(s)] = y
      BY <1>1, <3>1
    <3> QED  BY <3>2 DEF Elems
  <2> QED  BY <2>1, <2>2, <2>3
<1>3. ASSUME NoRepeats(s), NoRepeats(u), Elems(s) \cap Elems(u) = {},
             NEW i \in 1..Len(s \o u), NEW j \in 1..Len(s \o u),
             (s \o u)[i] = (s \o u)[j]
      PROVE  i = j
  <2>1. CASE i <= Len(s) /\ j <= Len(s)
    BY <1>1, <1>3, <2>1 DEF NoRepeats
  <2>2. CASE i > Len(s) /\ j > Len(s)
    BY <1>1, <1>3, <2>2 DEF NoRepeats
  <2>3. CASE i <= Len(s) /\ j > Len(s)
    <3>1. s[i] \in Elems(s) /\ u[j - Len(s)] \in Elems(u)
      BY <1>1, <2>3 DEF Elems
    <3> QED  BY <1>1, <1>3, <2>3, <3>1
  <2>4. CASE i > Len(s) /\ j <= Len(s)
    <3>1. s[j] \in Elems(s) /\ u[i - Len(s)] \in Elems(u)
      BY <1>1, <2>4 DEF Elems
    <3> QED  BY <1>1, <1>3, <2>4, <3>1
  <2> QED  BY <1>1, <2>1, <2>2, <2>3, <2>4
<1> QED  BY <1>1, <1>2, <1>3 DEF NoRepeats

LEMMA EmptyQueue == Elems(<<>>) = {} /\ NoRepeats(<<>>)
  BY DEF Elems, NoRepeats

-----------------------------------------------------------------------------
(* Types.  While a thread executes there is a running thread.              *)

Running == ctx \in {"thread", "deadlocked"} => running_thread \in Threads

\* A suspended call has a lock as its argument.
Calling == \A t \in Threads : pc[t] \in {"locking", "waiting"} => arg[t] \in Locks

TypeInv == TypeOK /\ Running /\ Calling

LEMMA TypeInit == Init => TypeInv
<1> SUFFICES ASSUME Init PROVE TypeInv
  OBVIOUS
<1>1. <<>> \in Seq(Threads)
  OBVIOUS
<1>2. /\ lock_blocked_threads \in [Locks -> Seq(Threads)]
      /\ monitor_blocked_threads \in [Locks \X Conds -> Seq(Threads)]
  BY <1>1 DEF Init
<1>3. ready_threads \in Seq(Threads)
  BY <1>1 DEF Init
<1> QED  BY <1>2, <1>3 DEF Init, TypeInv, TypeOK, Running, Calling

LEMMA TypeLockHelper ==
  ASSUME TypeInv, ctx = "thread", NEW l \in Locks, thread_lock_helper(l)
  PROVE  TypeInv'
<1> USE DEF TypeInv, TypeOK, Running, Calling, scheduling, blocking
<1>1. CASE RefuseHeld(l)
  BY <1>1 DEF RefuseHeld
<1>2. CASE AcquireFree(l)
  BY <1>2 DEF AcquireFree, ReturnWithLock
<1>3. CASE BlockOnLock(l)
  BY <1>3 DEF BlockOnLock
<1>4. CASE ExitNoReady(l)
  BY <1>4 DEF ExitNoReady
<1> QED  BY <1>1, <1>2, <1>3, <1>4 DEF thread_lock_helper

\* What a release leaves behind has the right types.
LEMMA TypeUnlockHelper ==
  ASSUME TypeInv, ctx = "thread", NEW l \in Locks, thread_unlock_helper(l)
  PROVE  /\ HolderAfterUnlock(l) \in Threads \cup {NULL}
         /\ ReadyAfterUnlock(l) \in Seq(Threads)
         /\ locks_held' \in [Locks -> Threads \cup {NULL}]
         /\ lock_blocked_threads' \in [Locks -> Seq(Threads)]
         /\ owns' \in [Threads -> SUBSET Locks]
  BY DEF TypeInv, TypeOK, Running, Calling, thread_unlock_helper, HolderAfterUnlock, ReadyAfterUnlock

LEMMA TypeNext == TypeInv /\ [Next]_vars => TypeInv'
<1> SUFFICES ASSUME TypeInv, [Next]_vars PROVE TypeInv'
  OBVIOUS
<1> USE DEF TypeInv, TypeOK, Running, Calling, scheduling, blocking
<1>1. CASE dispatch
  BY <1>1 DEF dispatch
<1>2. CASE dispatch_exit
  BY <1>2 DEF dispatch_exit
<1>3. CASE thread_lock_return
  BY <1>3 DEF thread_lock_return, ReturnWithLock
<1>4. CASE thread_wait_relock
  <2>1. ctx = "thread" /\ thread_lock_helper(arg[running_thread])
    BY <1>4 DEF thread_wait_relock
  <2>2. arg[running_thread] \in Locks
    BY <1>4 DEF thread_wait_relock
  <2> QED  BY <2>1, <2>2, TypeLockHelper
<1>5. CASE thread_libinit_out_of_memory
  BY <1>5 DEF thread_libinit_out_of_memory
<1>6. CASE call_without_thread
  BY <1>6 DEF call_without_thread
<1>7. ASSUME NEW t \in Threads, thread_libinit(t) PROVE TypeInv'
  BY <1>7 DEF thread_libinit, thread_create_helper
<1>8. ASSUME NEW t \in Threads, thread_create(t) PROVE TypeInv'
  BY <1>8 DEF thread_create, thread_create_helper, InUserCode
<1>9. CASE thread_wrapper
  BY <1>9 DEF thread_wrapper, InUserCode
<1>10. CASE thread_yield
  BY <1>10 DEF thread_yield, InUserCode
<1>11. ASSUME NEW l \in Locks, thread_lock(l) PROVE TypeInv'
  BY <1>11, TypeLockHelper DEF thread_lock, InUserCode
<1>12. ASSUME NEW l \in Locks, thread_unlock(l) PROVE TypeInv'
  BY <1>12, TypeUnlockHelper DEF thread_unlock, InUserCode
<1>13. ASSUME NEW l \in Locks, thread_wait_exit(l) PROVE TypeInv'
  BY <1>13, TypeUnlockHelper DEF thread_wait_exit, InUserCode
<1>14. ASSUME NEW l \in Locks, NEW c \in Conds, thread_wait(l, c) PROVE TypeInv'
  BY <1>14, TypeUnlockHelper DEF thread_wait, InUserCode
<1>15. ASSUME NEW l \in Locks, NEW c \in Conds, thread_signal(l, c) PROVE TypeInv'
  BY <1>15 DEF thread_signal, InUserCode
<1>16. ASSUME NEW l \in Locks, NEW c \in Conds, thread_broadcast(l, c) PROVE TypeInv'
  BY <1>16 DEF thread_broadcast, InUserCode
<1>17. CASE UNCHANGED vars
  BY <1>17 DEF vars
<1> QED
  BY <1>1, <1>2, <1>3, <1>4, <1>5, <1>6, <1>7, <1>8, <1>9, <1>10, <1>11, <1>12,
     <1>13, <1>14, <1>15, <1>16, <1>17
     DEF Next, LibraryCode, ProgramCall, Terminated

\* The variables of thread.cc always have their types; in particular a queue
\* never holds a null pointer.
THEOREM TypeCorrect == Spec => []TypeOK
<1>1. TypeInv => TypeOK
  BY DEF TypeInv
<1> QED  BY <1>1, TypeInit, TypeNext, PTL DEF Spec

-----------------------------------------------------------------------------
(* Every live thread is in one place.  The invariant also says where a       *)
(* suspended thread will continue, and that the thread which ran last has    *)
(* finished whenever no thread executes: the dispatch loop deletes it.       *)

Finished ==
  ctx \notin {"thread", "deadlocked"} =>
    running_thread = NULL \/ pc[running_thread] = "done"

Suspended ==
  /\ \A t \in Threads, l \in Locks :
       InLockQueue(t, l) => pc[t] = "locking" /\ arg[t] = l
  /\ \A t \in Threads, m \in Locks \X Conds :
       InMonitor(t, m) => pc[t] = "waiting" /\ arg[t] = m[1]

PlaceInv == TypeInv /\ OnePlace /\ Finished /\ Suspended

LEMMA PlaceInit == Init => PlaceInv
<1> SUFFICES ASSUME Init PROVE PlaceInv
  OBVIOUS
<1>1. /\ \A l \in Locks : lock_blocked_threads[l] = <<>>
      /\ \A m \in Locks \X Conds : monitor_blocked_threads[m] = <<>>
      /\ ready_threads = <<>>
      /\ \A t \in Threads : ~Live(t) /\ ~OnProcessor(t)
  BY DEF Init, Live, OnProcessor
<1>2. OnePlace
  BY <1>1, EmptyQueue DEF OnePlace, InReady, InLockQueue, InMonitor
<1>3. Suspended
  BY <1>1, EmptyQueue DEF Suspended, InLockQueue, InMonitor
<1>4. Finished
  BY DEF Init, Finished
<1> QED  BY <1>2, <1>3, <1>4, TypeInit DEF PlaceInv

\* The running thread is live and in no queue.
LEMMA RunningNowhere ==
  ASSUME PlaceInv, ctx = "thread"
  PROVE  /\ running_thread \in Threads
         /\ Live(running_thread)
         /\ running_thread \notin Elems(ready_threads)
         /\ \A l \in Locks : running_thread \notin Elems(lock_blocked_threads[l])
         /\ \A m \in Locks \X Conds :
              running_thread \notin Elems(monitor_blocked_threads[m])
<1>1. running_thread \in Threads /\ OnProcessor(running_thread)
  BY DEF PlaceInv, TypeInv, Running, OnProcessor
<1> QED
  BY <1>1 DEF PlaceInv, OnePlace, InReady, InLockQueue, InMonitor

LEMMA PlaceYield == PlaceInv /\ thread_yield => OnePlace' /\ Finished' /\ Suspended'
<1> SUFFICES ASSUME PlaceInv, thread_yield PROVE OnePlace' /\ Finished' /\ Suspended'
  OBVIOUS
<1>1. ctx = "thread" /\ pc[running_thread] = "user"
  BY DEF thread_yield, InUserCode
<1>2. /\ ready_threads \in Seq(Threads)
      /\ ready_threads # <<>>
      /\ NoRepeats(ready_threads)
  BY DEF thread_yield, PlaceInv, TypeInv, TypeOK, OnePlace
<1> DEFINE h == Head(ready_threads)  T == Tail(ready_threads)
<1>3. /\ h \in Threads
      /\ T \in Seq(Threads)
      /\ Elems(ready_threads) = {h} \cup Elems(T)
      /\ NoRepeats(T)
      /\ h \notin Elems(T)
  BY <1>2, PopQueue
<1>4. running_thread \in Threads /\ running_thread \notin Elems(T)
  BY <1>1, <1>3, RunningNowhere
<1>5. /\ NoRepeats(ready_threads')
      /\ Elems(ready_threads') = Elems(T) \cup {running_thread}
  <2>1. ready_threads' = Append(T, running_thread)
    BY DEF thread_yield
  <2> HIDE DEF T
  <2> QED  BY <2>1, <1>3, <1>4, AppendQueue
<1>6. Finished'
  BY <1>1 DEF thread_yield, Finished
<1>7. Suspended'
  BY DEF thread_yield, PlaceInv, Suspended, InLockQueue, InMonitor, blocking
<1>8. OnePlace'
  BY <1>1, <1>3, <1>4, <1>5, RunningNowhere
     DEF thread_yield, PlaceInv, OnePlace, Live, OnProcessor, InReady, InLockQueue, InMonitor, blocking
<1> QED  BY <1>6, <1>7, <1>8

\* A thread that finishes leaves the processor, and is placed nowhere.
LEMMA PlaceWrapper == PlaceInv /\ thread_wrapper => OnePlace' /\ Finished' /\ Suspended'
<1> SUFFICES ASSUME PlaceInv, thread_wrapper PROVE OnePlace' /\ Finished' /\ Suspended'
  OBVIOUS
<1> USE DEF InUserCode, blocking
<1>1. ctx = "thread" /\ ctx' = "main" /\ running_thread' = running_thread
  BY DEF thread_wrapper
<1>2. pc' = [pc EXCEPT ![running_thread] = "done"]
  BY DEF thread_wrapper
<1>3. pc \in [Threads -> {"free", "user", "locking", "waiting", "done"}]
  BY DEF PlaceInv, TypeInv, TypeOK
<1>4. Finished'
  BY <1>1, <1>2, <1>3, RunningNowhere DEF Finished
<1>5. Suspended'
  BY <1>1, <1>2, <1>3, RunningNowhere
     DEF thread_wrapper, PlaceInv, Suspended, InLockQueue, InMonitor
<1>6. OnePlace'
  BY <1>1, <1>2, <1>3, RunningNowhere
     DEF thread_wrapper, PlaceInv, OnePlace, Live, OnProcessor, InReady, InLockQueue, InMonitor
<1> QED  BY <1>4, <1>5, <1>6

\* A new thread is ready, its address was placed nowhere.
LEMMA PlaceCreate ==
  ASSUME PlaceInv, NEW t \in Threads, thread_create_helper(t),
         ctx' = ctx \/ (ctx = "caller" /\ ctx' = "main"),
         UNCHANGED <<running_thread, blocking, arg, owns>>
  PROVE  OnePlace' /\ Finished' /\ Suspended'
<1>1. /\ pc[t] = "free"
      /\ pc' = [pc EXCEPT ![t] = "user"]
      /\ ready_threads' = Append(ready_threads, t)
  BY DEF thread_create_helper
<1>2. /\ pc \in [Threads -> {"free", "user", "locking", "waiting", "done"}]
      /\ ready_threads \in Seq(Threads)
      /\ NoRepeats(ready_threads)
  BY DEF PlaceInv, TypeInv, TypeOK, OnePlace
<1>3. /\ ~OnProcessor(t)
      /\ t \notin Elems(ready_threads)
      /\ \A l \in Locks : ~InLockQueue(t, l)
      /\ \A m \in Locks \X Conds : ~InMonitor(t, m)
  BY <1>1 DEF PlaceInv, OnePlace, Live, InReady
<1>4. /\ Elems(ready_threads') = Elems(ready_threads) \cup {t}
      /\ NoRepeats(ready_threads')
  BY <1>1, <1>2, <1>3, AppendQueue
<1>5. Finished'
  BY <1>1, <1>2 DEF PlaceInv, Finished
<1>6. Suspended'
  BY <1>1, <1>2, <1>3 DEF PlaceInv, Suspended, InLockQueue, InMonitor, blocking
<1>7. OnePlace'
  BY <1>1, <1>2, <1>3, <1>4
     DEF PlaceInv, OnePlace, Live, OnProcessor, InReady, InLockQueue, InMonitor, blocking
<1> QED  BY <1>5, <1>6, <1>7

\* The first ready thread leaves the ready queue.
LEMMA ReadyFront ==
  ASSUME PlaceInv, ready_threads # <<>>
  PROVE  /\ Head(ready_threads) \in Threads
         /\ Elems(ready_threads) = {Head(ready_threads)} \cup Elems(Tail(ready_threads))
         /\ NoRepeats(Tail(ready_threads))
         /\ Head(ready_threads) \notin Elems(Tail(ready_threads))
         /\ Live(Head(ready_threads))
         /\ \A l \in Locks : ~InLockQueue(Head(ready_threads), l)
         /\ \A m \in Locks \X Conds : ~InMonitor(Head(ready_threads), m)
<1>1. ready_threads \in Seq(Threads) /\ NoRepeats(ready_threads)
  BY DEF PlaceInv, TypeInv, TypeOK, OnePlace
<1>2. /\ Head(ready_threads) \in Threads
      /\ Elems(ready_threads) = {Head(ready_threads)} \cup Elems(Tail(ready_threads))
      /\ NoRepeats(Tail(ready_threads))
      /\ Head(ready_threads) \notin Elems(Tail(ready_threads))
  BY <1>1, PopQueue
<1>3. InReady(Head(ready_threads))
  BY <1>2 DEF InReady
<1> QED  BY <1>2, <1>3 DEF PlaceInv, OnePlace

LEMMA PlaceDispatch == PlaceInv /\ dispatch => OnePlace' /\ Finished' /\ Suspended'
<1> SUFFICES ASSUME PlaceInv, dispatch PROVE OnePlace' /\ Finished' /\ Suspended'
  OBVIOUS
<1>1. /\ ctx = "main" /\ ctx' = "thread"
      /\ ready_threads # <<>>
      /\ running_thread' = Head(ready_threads)
      /\ ready_threads' = Tail(ready_threads)
      /\ UNCHANGED <<lock_blocked_threads, monitor_blocked_threads, arg>>
  BY DEF dispatch, blocking
<1>2. /\ \A t \in Threads : Live(t)' <=> Live(t)
      /\ \A t \in Threads : Live(t) => pc'[t] = pc[t]
  BY <1>1 DEF dispatch, PlaceInv, TypeInv, TypeOK, Finished, Live
<1>3. Finished'
  BY <1>1 DEF Finished
<1>4. Suspended'
  BY <1>1, <1>2 DEF PlaceInv, Suspended, InLockQueue, InMonitor, Live
<1>5. OnePlace'
  BY <1>1, <1>2, ReadyFront
     DEF PlaceInv, OnePlace, OnProcessor, InReady, InLockQueue, InMonitor
<1> QED  BY <1>3, <1>4, <1>5

\* The running thread blocks on a lock, or gets it, or ends the program.
LEMMA PlaceLock ==
  ASSUME PlaceInv, ctx = "thread", NEW l \in Locks, thread_lock_helper(l)
  PROVE  OnePlace' /\ Finished' /\ Suspended'
<1> DEFINE r == running_thread
<1>1. /\ pc \in [Threads -> {"free", "user", "locking", "waiting", "done"}]
      /\ arg \in [Threads -> Locks \cup {NULL}]
      /\ lock_blocked_threads \in [Locks -> Seq(Threads)]
  BY DEF PlaceInv, TypeInv, TypeOK
<1>2. CASE BlockOnLock(l)
  <2>1. /\ ctx' = ctx
        /\ ready_threads # <<>>
        /\ lock_blocked_threads' = [lock_blocked_threads EXCEPT ![l] = Append(@, r)]
        /\ pc' = [pc EXCEPT ![r] = "locking"]
        /\ arg' = [arg EXCEPT ![r] = l]
        /\ running_thread' = Head(ready_threads)
        /\ ready_threads' = Tail(ready_threads)
        /\ UNCHANGED monitor_blocked_threads
    BY <1>2 DEF BlockOnLock
  <2>2. /\ lock_blocked_threads'[l] = Append(lock_blocked_threads[l], r)
        /\ \A k \in Locks \ {l} : lock_blocked_threads'[k] = lock_blocked_threads[k]
    BY <2>1, <1>1
  <2>3. /\ Elems(lock_blocked_threads'[l]) = Elems(lock_blocked_threads[l]) \cup {r}
        /\ NoRepeats(lock_blocked_threads'[l])
    <3>1. lock_blocked_threads[l] \in Seq(Threads) /\ NoRepeats(lock_blocked_threads[l])
      BY <1>1 DEF PlaceInv, OnePlace
    <3> QED  BY <2>2, <3>1, RunningNowhere, AppendQueue
  <2>4. Finished'
    BY <2>1 DEF Finished
  <2>5. Suspended'
    BY <2>1, <2>2, <2>3, <1>1, RunningNowhere DEF PlaceInv, Suspended, InLockQueue, InMonitor
  <2>6. OnePlace'
    <3>1. /\ NoRepeats(ready_threads')
          /\ \A k \in Locks : NoRepeats(lock_blocked_threads'[k])
          /\ \A m \in Locks \X Conds : NoRepeats(monitor_blocked_threads'[m])
      BY <2>1, <2>2, <2>3, ReadyFront DEF PlaceInv, OnePlace
    <3>2. ASSUME NEW t \in Threads
          PROVE  /\ Live(t)' <=> Live(t)
                 /\ OnProcessor(t)' <=> t = Head(ready_threads)
                 /\ InReady(t)' <=> InReady(t) /\ t # Head(ready_threads)
                 /\ InLockQueue(t, l)' <=> InLockQueue(t, l) \/ t = r
                 /\ \A k \in Locks \ {l} : InLockQueue(t, k)' <=> InLockQueue(t, k)
                 /\ \A m \in Locks \X Conds : InMonitor(t, m)' <=> InMonitor(t, m)
      BY <2>1, <2>2, <2>3, <1>1, RunningNowhere, ReadyFront
         DEF Live, OnProcessor, InReady, InLockQueue, InMonitor
    <3>3. \A t \in Threads : OnProcessor(t) <=> t = r
      BY DEF OnProcessor
    <3> QED
      BY <3>1, <3>2, <3>3, RunningNowhere, ReadyFront, <2>1 DEF PlaceInv, OnePlace, InReady, InLockQueue, InMonitor
  <2> QED  BY <2>4, <2>5, <2>6
<1>3. CASE AcquireFree(l) \/ RefuseHeld(l)
  <2>1. /\ UNCHANGED <<ctx, ready_threads, running_thread, lock_blocked_threads,
                       monitor_blocked_threads>>
        /\ pc' = [pc EXCEPT ![r] = "user"]
        /\ arg' = [arg EXCEPT ![r] = NULL]
    BY <1>3 DEF AcquireFree, RefuseHeld, ReturnWithLock, scheduling, blocking
  <2>2. Finished'
    BY <2>1 DEF Finished
  <2>3. Suspended'
    BY <2>1, <1>1, RunningNowhere DEF PlaceInv, Suspended, InLockQueue, InMonitor
  <2>4. OnePlace'
    BY <2>1, <1>1, RunningNowhere
       DEF PlaceInv, OnePlace, Live, OnProcessor, InReady, InLockQueue, InMonitor
  <2> QED  BY <2>2, <2>3, <2>4
<1>4. CASE ExitNoReady(l)
  BY <1>4 DEF ExitNoReady, blocking, PlaceInv, Finished, Suspended, OnePlace, Live,
              OnProcessor, InReady, InLockQueue, InMonitor
<1> QED  BY <1>2, <1>3, <1>4 DEF thread_lock_helper

\* The lock was handed over: the call returns, nothing moves.
LEMMA PlaceLockReturn ==
  PlaceInv /\ thread_lock_return => OnePlace' /\ Finished' /\ Suspended'
<1> SUFFICES ASSUME PlaceInv, thread_lock_return
             PROVE  OnePlace' /\ Finished' /\ Suspended'
  OBVIOUS
<1>1. /\ ctx = "thread"
      /\ UNCHANGED <<ctx, ready_threads, running_thread, lock_blocked_threads,
                     monitor_blocked_threads>>
      /\ pc' = [pc EXCEPT ![running_thread] = "user"]
      /\ arg' = [arg EXCEPT ![running_thread] = NULL]
  BY DEF thread_lock_return, ReturnWithLock, scheduling, blocking
<1>2. /\ pc \in [Threads -> {"free", "user", "locking", "waiting", "done"}]
      /\ arg \in [Threads -> Locks \cup {NULL}]
  BY DEF PlaceInv, TypeInv, TypeOK
<1>3. Finished'
  BY <1>1 DEF Finished
<1>4. Suspended'
  BY <1>1, <1>2, RunningNowhere DEF PlaceInv, Suspended, InLockQueue, InMonitor
<1>5. OnePlace'
  BY <1>1, <1>2, RunningNowhere
     DEF PlaceInv, OnePlace, Live, OnProcessor, InReady, InLockQueue, InMonitor
<1> QED  BY <1>3, <1>4, <1>5

\* A release moves at most one thread, from the lock's queue to the ready
\* queue; no thread is lost or doubled on the way.
LEMMA UnlockQueues ==
  ASSUME PlaceInv, ctx = "thread", NEW l \in Locks, thread_unlock_helper(l)
  PROVE  /\ ReadyAfterUnlock(l) \in Seq(Threads)
         /\ NoRepeats(ReadyAfterUnlock(l))
         /\ running_thread \notin Elems(ReadyAfterUnlock(l))
         /\ \A k \in Locks : NoRepeats(lock_blocked_threads'[k])
         /\ \A k \in Locks \ {l} : lock_blocked_threads'[k] = lock_blocked_threads[k]
         /\ Elems(lock_blocked_threads'[l]) \subseteq Elems(lock_blocked_threads[l])
         /\ Elems(ReadyAfterUnlock(l)) =
              Elems(ready_threads) \cup
                (Elems(lock_blocked_threads[l]) \ Elems(lock_blocked_threads'[l]))
<1> DEFINE q == lock_blocked_threads[l]
<1>1. /\ lock_blocked_threads \in [Locks -> Seq(Threads)]
      /\ q \in Seq(Threads)
      /\ ready_threads \in Seq(Threads)
      /\ NoRepeats(ready_threads)
      /\ \A k \in Locks : NoRepeats(lock_blocked_threads[k])
  BY DEF PlaceInv, TypeInv, TypeOK, OnePlace
<1>2. CASE q = <<>>
  <2>1. /\ ReadyAfterUnlock(l) = ready_threads
        /\ lock_blocked_threads' = lock_blocked_threads
    BY <1>2 DEF ReadyAfterUnlock, thread_unlock_helper
  <2> QED  BY <1>1, <2>1, RunningNowhere
<1>3. CASE q # <<>>
  <2>1. /\ ReadyAfterUnlock(l) = Append(ready_threads, Head(q))
        /\ lock_blocked_threads' = [lock_blocked_threads EXCEPT ![l] = Tail(q)]
    BY <1>3 DEF ReadyAfterUnlock, thread_unlock_helper
  <2>2. /\ Head(q) \in Threads
        /\ Elems(q) = {Head(q)} \cup Elems(Tail(q))
        /\ NoRepeats(Tail(q))
        /\ Head(q) \notin Elems(Tail(q))
    BY <1>1, <1>3, PopQueue
  <2>3. Head(q) \notin Elems(ready_threads) /\ Head(q) # running_thread
    BY <2>2, RunningNowhere DEF PlaceInv, OnePlace, InLockQueue, InReady
  <2>4. /\ ReadyAfterUnlock(l) \in Seq(Threads)
        /\ NoRepeats(ReadyAfterUnlock(l))
        /\ Elems(ReadyAfterUnlock(l)) = Elems(ready_threads) \cup {Head(q)}
    BY <1>1, <2>1, <2>2, <2>3, AppendQueue
  <2>5. /\ lock_blocked_threads'[l] = Tail(q)
        /\ \A k \in Locks \ {l} : lock_blocked_threads'[k] = lock_blocked_threads[k]
    BY <1>1, <2>1
  <2>6. \A k \in Locks : NoRepeats(lock_blocked_threads'[k])
    BY <1>1, <2>2, <2>5
  <2>7. running_thread \notin Elems(ReadyAfterUnlock(l))
    BY <2>3, <2>4, RunningNowhere
  <2> QED  BY <2>2, <2>4, <2>5, <2>6, <2>7
<1> QED  BY <1>2, <1>3

LEMMA PlaceUnlock ==
  ASSUME PlaceInv, NEW l \in Locks, thread_unlock(l)
  PROVE  OnePlace' /\ Finished' /\ Suspended'
<1>1. /\ ctx = "thread" /\ ctx' = "thread"
      /\ thread_unlock_helper(l)
      /\ ready_threads' = ReadyAfterUnlock(l)
      /\ UNCHANGED <<running_thread, monitor_blocked_threads, pc, arg>>
  BY DEF thread_unlock, InUserCode
<1>2. Finished'
  BY <1>1 DEF Finished
<1>3. Suspended'
  BY <1>1, UnlockQueues DEF PlaceInv, Suspended, InLockQueue, InMonitor
<1>4. ASSUME NEW t \in Threads
      PROVE  /\ Live(t)' <=> Live(t)
             /\ OnProcessor(t)' <=> OnProcessor(t)
             /\ InReady(t)' <=> InReady(t) \/ (InLockQueue(t, l) /\ ~InLockQueue(t, l)')
             /\ InLockQueue(t, l)' => InLockQueue(t, l)
             /\ \A k \in Locks \ {l} : InLockQueue(t, k)' <=> InLockQueue(t, k)
             /\ \A m \in Locks \X Conds : InMonitor(t, m)' <=> InMonitor(t, m)
  BY <1>1, UnlockQueues DEF Live, OnProcessor, InReady, InLockQueue, InMonitor
<1>5. /\ NoRepeats(ready_threads')
      /\ \A k \in Locks : NoRepeats(lock_blocked_threads'[k])
      /\ \A m \in Locks \X Conds : NoRepeats(monitor_blocked_threads'[m])
  BY <1>1, UnlockQueues DEF PlaceInv, OnePlace
<1>6. OnePlace'
  BY <1>4, <1>5 DEF PlaceInv, OnePlace
<1> QED  BY <1>2, <1>3, <1>6

LEMMA PlaceWaitExit ==
  ASSUME PlaceInv, NEW l \in Locks, thread_wait_exit(l)
  PROVE  OnePlace' /\ Finished' /\ Suspended'
<1>1. /\ ctx = "thread" /\ ctx' = "deadlocked"
      /\ thread_unlock_helper(l)
      /\ lock_blocked_threads[l] = <<>>
      /\ UNCHANGED <<running_thread, ready_threads, monitor_blocked_threads, pc, arg>>
  <2>1. ASSUME lock_blocked_threads[l] # <<>>
        PROVE  Append(ready_threads, Head(lock_blocked_threads[l])) # <<>>
    <3>1. ready_threads \in Seq(Threads) /\ lock_blocked_threads[l] \in Seq(Threads)
      BY DEF PlaceInv, TypeInv, TypeOK
    <3> QED  BY <2>1, <3>1, PopQueue, AppendQueue
  <2> QED  BY <2>1 DEF thread_wait_exit, InUserCode, ReadyAfterUnlock
<1>2. lock_blocked_threads' = lock_blocked_threads
  BY <1>1 DEF thread_unlock_helper
<1> QED
  BY <1>1, <1>2 DEF PlaceInv, Finished, Suspended, OnePlace, Live, OnProcessor,
                    InReady, InLockQueue, InMonitor

LEMMA PlaceWait ==
  ASSUME PlaceInv, NEW l \in Locks, NEW c \in Conds, thread_wait(l, c)
  PROVE  OnePlace' /\ Finished' /\ Suspended'
<1> DEFINE r == running_thread  m0 == <<l, c>>  R == ReadyAfterUnlock(l)
<1>1. /\ ctx = "thread" /\ ctx' = "thread"
      /\ thread_unlock_helper(l)
      /\ R # <<>>
      /\ monitor_blocked_threads' = [monitor_blocked_threads EXCEPT ![m0] = Append(@, r)]
      /\ pc' = [pc EXCEPT ![r] = "waiting"]
      /\ arg' = [arg EXCEPT ![r] = l]
      /\ running_thread' = Head(R)
      /\ ready_threads' = Tail(R)
  BY DEF thread_wait, InUserCode
<1>2. /\ pc \in [Threads -> {"free", "user", "locking", "waiting", "done"}]
      /\ arg \in [Threads -> Locks \cup {NULL}]
      /\ monitor_blocked_threads \in [Locks \X Conds -> Seq(Threads)]
      /\ m0 \in Locks \X Conds
      /\ m0[1] = l
  BY DEF PlaceInv, TypeInv, TypeOK
<1>3. /\ R \in Seq(Threads)
      /\ NoRepeats(R)
      /\ r \notin Elems(R)
      /\ Elems(R) = Elems(ready_threads) \cup
                      (Elems(lock_blocked_threads[l]) \ Elems(lock_blocked_threads'[l]))
  BY <1>1, UnlockQueues
<1>4. /\ \A k \in Locks : NoRepeats(lock_blocked_threads'[k])
      /\ \A k \in Locks \ {l} : lock_blocked_threads'[k] = lock_blocked_threads[k]
      /\ Elems(lock_blocked_threads'[l]) \subseteq Elems(lock_blocked_threads[l])
  BY <1>1, UnlockQueues
<1> HIDE DEF R, m0
<1>5. /\ Head(R) \in Threads
      /\ Elems(R) = {Head(R)} \cup Elems(Tail(R))
      /\ NoRepeats(Tail(R))
      /\ Head(R) \notin Elems(Tail(R))
  BY <1>1, <1>3, PopQueue
<1>6. /\ monitor_blocked_threads'[m0] = Append(monitor_blocked_threads[m0], r)
      /\ \A m \in (Locks \X Conds) \ {m0} :
           monitor_blocked_threads'[m] = monitor_blocked_threads[m]
  BY <1>1, <1>2
<1>7. /\ Elems(monitor_blocked_threads'[m0]) = Elems(monitor_blocked_threads[m0]) \cup {r}
      /\ NoRepeats(monitor_blocked_threads'[m0])
  <2>1. monitor_blocked_threads[m0] \in Seq(Threads) /\ NoRepeats(monitor_blocked_threads[m0])
    BY <1>2 DEF PlaceInv, OnePlace
  <2> QED  BY <1>1, <1>2, <1>6, <2>1, RunningNowhere, AppendQueue
<1>8. Finished'
  BY <1>1 DEF Finished
<1>9. Suspended'
  BY <1>1, <1>2, <1>4, <1>6, <1>7, RunningNowhere
     DEF PlaceInv, Suspended, InLockQueue, InMonitor
<1>10. ASSUME NEW t \in Threads
       PROVE  /\ Live(t)' <=> Live(t)
              /\ OnProcessor(t)' <=> t = Head(R)
              /\ InReady(t)' <=> /\ InReady(t) \/ (InLockQueue(t, l) /\ ~InLockQueue(t, l)')
                                 /\ t # Head(R)
              /\ InLockQueue(t, l)' => InLockQueue(t, l)
              /\ \A k \in Locks \ {l} : InLockQueue(t, k)' <=> InLockQueue(t, k)
              /\ InMonitor(t, m0)' <=> InMonitor(t, m0) \/ t = r
              /\ \A m \in (Locks \X Conds) \ {m0} : InMonitor(t, m)' <=> InMonitor(t, m)
  BY <1>1, <1>2, <1>3, <1>4, <1>5, <1>6, <1>7, RunningNowhere
     DEF Live, OnProcessor, InReady, InLockQueue, InMonitor
<1>11. /\ NoRepeats(ready_threads')
       /\ \A k \in Locks : NoRepeats(lock_blocked_threads'[k])
       /\ \A m \in Locks \X Conds : NoRepeats(monitor_blocked_threads'[m])
  BY <1>1, <1>4, <1>5, <1>6, <1>7 DEF PlaceInv, OnePlace
<1>12. /\ r \in Threads /\ Live(r) /\ r # Head(R)
       /\ ~InReady(r)
       /\ \A k \in Locks : ~InLockQueue(r, k)
       /\ \A m \in Locks \X Conds : ~InMonitor(r, m)
  BY <1>1, <1>3, <1>5, RunningNowhere DEF InReady, InLockQueue, InMonitor
<1>13. \A t \in Threads : OnProcessor(t) <=> t = r
  BY <1>1 DEF OnProcessor
<1>14. ASSUME NEW t \in Threads, t = Head(R)
       PROVE  InReady(t) \/ (InLockQueue(t, l) /\ ~InLockQueue(t, l)')
  BY <1>3, <1>5, <1>14 DEF InReady, InLockQueue
<1>15. ASSUME NEW t \in Threads
       PROVE  /\ Live(t)' <=> \/ OnProcessor(t)' \/ InReady(t)'
                              \/ \E k \in Locks : InLockQueue(t, k)'
                              \/ \E m \in Locks \X Conds : InMonitor(t, m)'
              /\ OnProcessor(t)' => ~InReady(t)'
  <2>1. CASE t = r
    BY <1>2, <1>10, <1>12, <2>1
  <2>2. CASE t = Head(R)
    BY <1>5, <1>10, <1>12, <1>14, <2>2 DEF PlaceInv, OnePlace
  <2>3. CASE t # r /\ t # Head(R)
    BY <1>2, <1>10, <1>13, <2>3 DEF PlaceInv, OnePlace
  <2> QED  BY <2>1, <2>2, <2>3
<1>16. ASSUME NEW t \in Threads, NEW k \in Locks, InLockQueue(t, k)'
       PROVE  /\ ~OnProcessor(t)' /\ ~InReady(t)'
              /\ \A j \in Locks \ {k} : ~InLockQueue(t, j)'
  <2>1. InLockQueue(t, k)
    BY <1>10, <1>16
  <2>2. t # Head(R)
    BY <1>10, <1>14, <1>16, <2>1 DEF PlaceInv, OnePlace
  <2>3. ~InReady(t) /\ \A j \in Locks \ {k} : ~InLockQueue(t, j)
    BY <2>1 DEF PlaceInv, OnePlace
  <2> QED  BY <1>10, <1>16, <2>2, <2>3
<1>17. ASSUME NEW t \in Threads, NEW m \in Locks \X Conds, InMonitor(t, m)'
       PROVE  /\ ~OnProcessor(t)' /\ ~InReady(t)'
              /\ \A k \in Locks : ~InLockQueue(t, k)'
              /\ \A n \in (Locks \X Conds) \ {m} : ~InMonitor(t, n)'
  <2>1. CASE t = r
    <3>1. \A n \in (Locks \X Conds) \ {m0} : ~InMonitor(t, n)'
      BY <1>10, <1>12, <2>1
    <3> QED  BY <1>2, <1>10, <1>12, <1>17, <2>1, <3>1
  <2>2. CASE t # r
    <3>1. InMonitor(t, m)
      BY <1>2, <1>10, <1>17, <2>2
    <3>2. /\ ~InReady(t)
          /\ \A k \in Locks : ~InLockQueue(t, k)
          /\ \A n \in (Locks \X Conds) \ {m} : ~InMonitor(t, n)
      BY <3>1 DEF PlaceInv, OnePlace
    <3>3. t # Head(R)
      BY <1>14, <3>2
    <3> QED  BY <1>2, <1>10, <2>2, <3>2, <3>3
  <2> QED  BY <2>1, <2>2
<1>18. OnePlace'
  BY <1>11, <1>15, <1>16, <1>17 DEF OnePlace
<1> QED  BY <1>8, <1>9, <1>18

\* Signal and broadcast move waiters behind the ready threads.
LEMMA PlaceWake ==
  ASSUME PlaceInv, NEW m0 \in Locks \X Conds, NEW ws \in Seq(Threads), NEW rest \in Seq(Threads),
         ctx = "thread",
         Elems(monitor_blocked_threads[m0]) = Elems(ws) \cup Elems(rest),
         Elems(ws) \cap Elems(rest) = {},
         NoRepeats(ws), NoRepeats(rest),
         ready_threads' = ready_threads \o ws,
         monitor_blocked_threads' = [monitor_blocked_threads EXCEPT ![m0] = rest],
         UNCHANGED <<ctx, running_thread, lock_blocked_threads, pc, arg>>
  PROVE  OnePlace' /\ Finished' /\ Suspended'
<1>1. /\ ready_threads \in Seq(Threads)
      /\ NoRepeats(ready_threads)
      /\ monitor_blocked_threads \in [Locks \X Conds -> Seq(Threads)]
  BY DEF PlaceInv, TypeInv, TypeOK, OnePlace
<1>2. Elems(ready_threads) \cap Elems(ws) = {}
  <2>1. ASSUME NEW t \in Elems(ws) PROVE t \notin Elems(ready_threads)
    <3>1. t \in Threads
      BY <2>1 DEF Elems
    <3>2. InMonitor(t, m0)
      BY <2>1 DEF InMonitor
    <3> QED  BY <3>1, <3>2 DEF PlaceInv, OnePlace, InReady
  <2> QED  BY <2>1
<1>3. /\ Elems(ready_threads') = Elems(ready_threads) \cup Elems(ws)
      /\ NoRepeats(ready_threads')
  BY <1>1, <1>2, ConcatQueue
<1>4. /\ monitor_blocked_threads'[m0] = rest
      /\ \A m \in (Locks \X Conds) \ {m0} :
           monitor_blocked_threads'[m] = monitor_blocked_threads[m]
  BY <1>1
<1>5. ASSUME NEW t \in Threads
      PROVE  /\ Live(t)' <=> Live(t)
             /\ OnProcessor(t)' <=> OnProcessor(t)
             /\ InReady(t)' <=> InReady(t) \/ (InMonitor(t, m0) /\ ~InMonitor(t, m0)')
             /\ InMonitor(t, m0)' => InMonitor(t, m0)
             /\ \A m \in (Locks \X Conds) \ {m0} : InMonitor(t, m)' <=> InMonitor(t, m)
             /\ \A l \in Locks : InLockQueue(t, l)' <=> InLockQueue(t, l)
  BY <1>3, <1>4 DEF Live, OnProcessor, InReady, InLockQueue, InMonitor
<1>6. /\ \A l \in Locks : NoRepeats(lock_blocked_threads'[l])
      /\ \A m \in Locks \X Conds : NoRepeats(monitor_blocked_threads'[m])
  BY <1>4 DEF PlaceInv, OnePlace
<1>7. Finished'
  BY DEF Finished
<1>8. Suspended'
  BY <1>5, <1>4 DEF PlaceInv, Suspended, InLockQueue, InMonitor
<1>9. ASSUME NEW t \in Threads
      PROVE  /\ Live(t)' <=> \/ OnProcessor(t)' \/ InReady(t)'
                             \/ \E l \in Locks : InLockQueue(t, l)'
                             \/ \E m \in Locks \X Conds : InMonitor(t, m)'
             /\ OnProcessor(t)' => ~InReady(t)'
  BY <1>5 DEF PlaceInv, OnePlace
<1>10. ASSUME NEW t \in Threads, NEW l \in Locks, InLockQueue(t, l)'
       PROVE  /\ ~OnProcessor(t)' /\ ~InReady(t)'
              /\ \A k \in Locks \ {l} : ~InLockQueue(t, k)'
  BY <1>5, <1>10 DEF PlaceInv, OnePlace
<1>11. ASSUME NEW t \in Threads, NEW m \in Locks \X Conds, InMonitor(t, m)'
       PROVE  /\ ~OnProcessor(t)' /\ ~InReady(t)'
              /\ \A l \in Locks : ~InLockQueue(t, l)'
              /\ \A n \in (Locks \X Conds) \ {m} : ~InMonitor(t, n)'
  <2>1. InMonitor(t, m)
    BY <1>5, <1>11
  <2>2. /\ ~OnProcessor(t) /\ ~InReady(t)
        /\ \A l \in Locks : ~InLockQueue(t, l)
        /\ \A n \in (Locks \X Conds) \ {m} : ~InMonitor(t, n)
    BY <2>1 DEF PlaceInv, OnePlace
  <2> QED  BY <1>5, <1>11, <2>2
<1>12. OnePlace'
  BY <1>3, <1>6, <1>9, <1>10, <1>11 DEF OnePlace
<1> QED  BY <1>7, <1>8, <1>12

LEMMA PlaceSignal ==
  ASSUME PlaceInv, NEW l \in Locks, NEW c \in Conds, thread_signal(l, c)
  PROVE  OnePlace' /\ Finished' /\ Suspended'
<1> DEFINE m0 == <<l, c>>  q == monitor_blocked_threads[m0]
<1>1. /\ m0 \in Locks \X Conds
      /\ q \in Seq(Threads)
      /\ NoRepeats(q)
      /\ ready_threads \in Seq(Threads)
  BY DEF PlaceInv, TypeInv, TypeOK, OnePlace
<1>2. /\ ctx = "thread"
      /\ q # <<>>
      /\ ready_threads' = Append(ready_threads, Head(q))
      /\ monitor_blocked_threads' = [monitor_blocked_threads EXCEPT ![m0] = Tail(q)]
      /\ UNCHANGED <<ctx, running_thread, lock_blocked_threads, pc, arg>>
  BY DEF thread_signal, InUserCode
<1> HIDE DEF m0, q
<1>3. /\ Head(q) \in Threads
      /\ Tail(q) \in Seq(Threads)
      /\ Elems(q) = {Head(q)} \cup Elems(Tail(q))
      /\ NoRepeats(Tail(q))
      /\ Head(q) \notin Elems(Tail(q))
  BY <1>1, <1>2, PopQueue
<1> DEFINE ws == <<Head(q)>>
<1>4. ws \in Seq(Threads) /\ Elems(ws) = {Head(q)} /\ NoRepeats(ws)
  BY <1>3 DEF Elems, NoRepeats
<1>5. ready_threads' = ready_threads \o ws
  BY <1>1, <1>2, <1>3
<1> HIDE DEF ws
<1>6. Elems(q) = Elems(ws) \cup Elems(Tail(q)) /\ Elems(ws) \cap Elems(Tail(q)) = {}
  BY <1>3, <1>4
<1> QED  BY <1>1, <1>2, <1>3, <1>4, <1>5, <1>6, PlaceWake DEF q

LEMMA PlaceBroadcast ==
  ASSUME PlaceInv, NEW l \in Locks, NEW c \in Conds, thread_broadcast(l, c)
  PROVE  OnePlace' /\ Finished' /\ Suspended'
<1> DEFINE m0 == <<l, c>>  q == monitor_blocked_threads[m0]
<1>1. /\ m0 \in Locks \X Conds
      /\ q \in Seq(Threads)
      /\ NoRepeats(q)
  BY DEF PlaceInv, TypeInv, TypeOK, OnePlace
<1>2. /\ ctx = "thread"
      /\ ready_threads' = ready_threads \o q
      /\ monitor_blocked_threads' = [monitor_blocked_threads EXCEPT ![m0] = <<>>]
      /\ UNCHANGED <<ctx, running_thread, lock_blocked_threads, pc, arg>>
  BY DEF thread_broadcast, InUserCode, blocking
<1>3. <<>> \in Seq(Threads)
  OBVIOUS
<1> HIDE DEF m0
<1> QED  BY <1>1, <1>2, <1>3, EmptyQueue, PlaceWake

LEMMA PlaceNext == PlaceInv /\ [Next]_vars => PlaceInv'
<1> SUFFICES ASSUME PlaceInv, [Next]_vars PROVE PlaceInv'
  OBVIOUS
<1>1. TypeInv'
  BY TypeNext DEF PlaceInv
<1> SUFFICES OnePlace' /\ Finished' /\ Suspended'
  BY <1>1 DEF PlaceInv
<1> USE DEF blocking
<1>2. CASE dispatch
  BY <1>2, PlaceDispatch
<1>3. CASE dispatch_exit
  BY <1>3 DEF dispatch_exit, PlaceInv, Finished, Suspended, OnePlace, Live, OnProcessor,
              InReady, InLockQueue, InMonitor
<1>4. CASE thread_lock_return
  BY <1>4, PlaceLockReturn
<1>5. CASE thread_wait_relock
  <2>1. ctx = "thread" /\ thread_lock_helper(arg[running_thread])
    BY <1>5 DEF thread_wait_relock
  <2>2. arg[running_thread] \in Locks
    BY <1>5 DEF thread_wait_relock, PlaceInv, TypeInv, Calling, Running
  <2> QED  BY <2>1, <2>2, PlaceLock
<1>6. CASE thread_libinit_out_of_memory
  BY <1>6 DEF thread_libinit_out_of_memory, PlaceInv, Finished, Suspended, OnePlace, Live,
              OnProcessor, InReady, InLockQueue, InMonitor
<1>7. CASE call_without_thread
  BY <1>7 DEF call_without_thread, PlaceInv, Finished, Suspended, OnePlace, Live,
              OnProcessor, InReady, InLockQueue, InMonitor
<1>8. ASSUME NEW t \in Threads, thread_libinit(t) PROVE OnePlace' /\ Finished' /\ Suspended'
  BY <1>8, PlaceCreate DEF thread_libinit
<1>9. ASSUME NEW t \in Threads, thread_create(t) PROVE OnePlace' /\ Finished' /\ Suspended'
  BY <1>9, PlaceCreate DEF thread_create
<1>10. CASE thread_wrapper
  BY <1>10, PlaceWrapper
<1>11. CASE thread_yield
  BY <1>11, PlaceYield
<1>12. ASSUME NEW l \in Locks, thread_lock(l) PROVE OnePlace' /\ Finished' /\ Suspended'
  BY <1>12, PlaceLock DEF thread_lock, InUserCode
<1>13. ASSUME NEW l \in Locks, thread_unlock(l) PROVE OnePlace' /\ Finished' /\ Suspended'
  BY <1>13, PlaceUnlock
<1>14. ASSUME NEW l \in Locks, thread_wait_exit(l) PROVE OnePlace' /\ Finished' /\ Suspended'
  BY <1>14, PlaceWaitExit
<1>15. ASSUME NEW l \in Locks, NEW c \in Conds, thread_wait(l, c)
       PROVE  OnePlace' /\ Finished' /\ Suspended'
  BY <1>15, PlaceWait
<1>16. ASSUME NEW l \in Locks, NEW c \in Conds, thread_signal(l, c)
       PROVE  OnePlace' /\ Finished' /\ Suspended'
  BY <1>16, PlaceSignal
<1>17. ASSUME NEW l \in Locks, NEW c \in Conds, thread_broadcast(l, c)
       PROVE  OnePlace' /\ Finished' /\ Suspended'
  BY <1>17, PlaceBroadcast
<1>18. CASE UNCHANGED vars
  BY <1>18 DEF vars, PlaceInv, Finished, Suspended, OnePlace, Live, OnProcessor,
               InReady, InLockQueue, InMonitor
<1> QED
  BY <1>2, <1>3, <1>4, <1>5, <1>6, <1>7, <1>8, <1>9, <1>10, <1>11, <1>12, <1>13,
     <1>14, <1>15, <1>16, <1>17, <1>18
     DEF Next, LibraryCode, ProgramCall, Terminated

\* A live thread is in exactly one queue or on the processor, whatever the
\* number of threads, locks and conditions, and also when threads finish
\* while they hold locks (thread.cc moves Thread* between queues by hand).
THEOREM EveryThreadInOnePlace == Spec => []OnePlace
<1>1. PlaceInv => OnePlace
  BY DEF PlaceInv
<1> QED  BY <1>1, PlaceInit, PlaceNext, PTL DEF Spec

-----------------------------------------------------------------------------
(* No lock is free while threads are blocked on it.                         *)

LEMMA IdleInit == Init => NoIdleLock
<1> SUFFICES ASSUME Init PROVE NoIdleLock
  OBVIOUS
<1>1. \A l \in Locks : lock_blocked_threads[l] = <<>>
  BY DEF Init
<1> QED  BY <1>1, EmptyQueue DEF NoIdleLock, InLockQueue

LEMMA IdleLock ==
  ASSUME PlaceInv, NoIdleLock, ctx = "thread", NEW l \in Locks, thread_lock_helper(l)
  PROVE  NoIdleLock'
<1> DEFINE r == running_thread
<1>1. /\ lock_blocked_threads \in [Locks -> Seq(Threads)]
      /\ locks_held \in [Locks -> Threads \cup {NULL}]
  BY DEF PlaceInv, TypeInv, TypeOK
<1>2. CASE BlockOnLock(l)
  <2>1. /\ locks_held[l] \notin {NULL, r}
        /\ lock_blocked_threads' = [lock_blocked_threads EXCEPT ![l] = Append(@, r)]
        /\ locks_held' = locks_held
    BY <1>2 DEF BlockOnLock
  <2>2. /\ lock_blocked_threads'[l] = Append(lock_blocked_threads[l], r)
        /\ \A k \in Locks \ {l} : lock_blocked_threads'[k] = lock_blocked_threads[k]
    BY <2>1, <1>1
  <2>3. Elems(lock_blocked_threads'[l]) = Elems(lock_blocked_threads[l]) \cup {r}
    BY <1>1, <2>2, RunningNowhere, AppendQueue
  <2> QED  BY <2>1, <2>2, <2>3 DEF NoIdleLock, InLockQueue
<1>3. CASE AcquireFree(l)
  <2>1. /\ locks_held[l] = NULL
        /\ locks_held' = [locks_held EXCEPT ![l] = r]
        /\ lock_blocked_threads' = lock_blocked_threads
    BY <1>3 DEF AcquireFree
  <2>2. locks_held'[l] = r /\ \A k \in Locks \ {l} : locks_held'[k] = locks_held[k]
    BY <1>1, <2>1
  <2> QED  BY <2>1, <2>2, RunningNowhere, NullAssumption DEF NoIdleLock, InLockQueue
<1>4. CASE RefuseHeld(l) \/ ExitNoReady(l)
  BY <1>4 DEF RefuseHeld, ExitNoReady, blocking, NoIdleLock, InLockQueue
<1> QED  BY <1>2, <1>3, <1>4 DEF thread_lock_helper

LEMMA IdleUnlock ==
  ASSUME PlaceInv, NoIdleLock, NEW l \in Locks, thread_unlock_helper(l)
  PROVE  NoIdleLock'
<1> DEFINE q == lock_blocked_threads[l]
<1>1. /\ lock_blocked_threads \in [Locks -> Seq(Threads)]
      /\ locks_held \in [Locks -> Threads \cup {NULL}]
      /\ q \in Seq(Threads) /\ NoRepeats(q)
  BY DEF PlaceInv, TypeInv, TypeOK, OnePlace
<1>2. /\ locks_held'[l] = HolderAfterUnlock(l)
      /\ \A k \in Locks \ {l} : locks_held'[k] = locks_held[k]
  BY <1>1 DEF thread_unlock_helper
<1>3. CASE q = <<>>
  <2>1. locks_held'[l] = NULL /\ lock_blocked_threads' = lock_blocked_threads
    BY <1>2, <1>3 DEF HolderAfterUnlock, thread_unlock_helper
  <2>2. Elems(q) = {}
    BY <1>3, EmptyQueue
  <2> QED  BY <1>2, <1>3, <2>1, <2>2 DEF NoIdleLock, InLockQueue
<1>4. CASE q # <<>>
  <2>1. /\ locks_held'[l] = Head(q)
        /\ lock_blocked_threads' = [lock_blocked_threads EXCEPT ![l] = Tail(q)]
    BY <1>2, <1>4 DEF HolderAfterUnlock, thread_unlock_helper
  <2>2. /\ lock_blocked_threads'[l] = Tail(q)
        /\ \A k \in Locks \ {l} : lock_blocked_threads'[k] = lock_blocked_threads[k]
    BY <1>1, <2>1
  <2>3. Head(q) \in Threads /\ Head(q) \notin Elems(Tail(q))
    BY <1>1, <1>4, PopQueue
  <2> QED  BY <1>2, <2>1, <2>2, <2>3, NullAssumption DEF NoIdleLock, InLockQueue
<1> QED  BY <1>3, <1>4

LEMMA IdleNext == PlaceInv /\ NoIdleLock /\ [Next]_vars => NoIdleLock'
<1> SUFFICES ASSUME PlaceInv, NoIdleLock, [Next]_vars PROVE NoIdleLock'
  OBVIOUS
<1>1. CASE UNCHANGED <<locks_held, lock_blocked_threads>>
  BY <1>1 DEF NoIdleLock, InLockQueue
<1>2. ASSUME NEW l \in Locks, thread_lock(l) PROVE NoIdleLock'
  BY <1>2, IdleLock DEF thread_lock, InUserCode
<1>3. CASE thread_wait_relock
  <2>1. ctx = "thread" /\ thread_lock_helper(arg[running_thread])
    BY <1>3 DEF thread_wait_relock
  <2>2. arg[running_thread] \in Locks
    BY <1>3 DEF thread_wait_relock, PlaceInv, TypeInv, Calling, Running
  <2> QED  BY <2>1, <2>2, IdleLock
<1>4. ASSUME NEW l \in Locks, thread_unlock(l) PROVE NoIdleLock'
  BY <1>4, IdleUnlock DEF thread_unlock
<1>5. ASSUME NEW l \in Locks, thread_wait_exit(l) PROVE NoIdleLock'
  BY <1>5, IdleUnlock DEF thread_wait_exit
<1>6. ASSUME NEW l \in Locks, NEW c \in Conds, thread_wait(l, c) PROVE NoIdleLock'
  BY <1>6, IdleUnlock DEF thread_wait
<1> QED
  BY <1>1, <1>2, <1>3, <1>4, <1>5, <1>6
     DEF Next, LibraryCode, ProgramCall, Terminated, vars, blocking, scheduling, dispatch,
         dispatch_exit, thread_lock_return, ReturnWithLock, thread_libinit_out_of_memory,
         call_without_thread, thread_libinit, thread_create, thread_wrapper, thread_yield,
         thread_signal, thread_broadcast

\* A release always reaches the threads blocked on the lock, also when threads
\* finish while they hold locks.
THEOREM LocksAreNotIdle == Spec => []NoIdleLock
<1> QED  BY PlaceInit, PlaceNext, IdleInit, IdleNext, PTL DEF Spec

-----------------------------------------------------------------------------
(* What threads were told about the locks they hold.  Which thread is ready *)
(* matters only through the lock queues: a thread inside thread_lock is     *)
(* blocked, or the lock has been handed to it.                              *)

OwnersHold == \A t \in Threads, l \in Locks : l \in owns[t] => locks_held[l] = t

HoldersKnow ==
  \A t \in Threads, l \in Locks :
    locks_held[l] = t => l \in owns[t] \/ (pc[t] = "locking" /\ arg[t] = l)

HandedOver ==
  \A t \in Threads :
    pc[t] = "locking" => InLockQueue(t, arg[t]) \/ locks_held[arg[t]] = t

OwnersLive == \A t \in Threads : owns[t] # {} => Live(t)

HolderInv == OwnersHold /\ HoldersKnow /\ HandedOver /\ OwnersLive

LEMMA HolderImplies == PlaceInv /\ NoIdleLock /\ HolderInv => HolderKnows
<1> SUFFICES ASSUME PlaceInv, NoIdleLock, HolderInv,
                    NEW l \in Locks, NEW t \in Threads,
                    locks_held[l] = t, pc[t] = "locking", arg[t] = l
             PROVE  InReady(t) \/ OnProcessor(t)
  BY DEF HolderInv, OwnersHold, HoldersKnow, HolderKnows
<1>1. ~InLockQueue(t, l)
  BY DEF NoIdleLock
<1>2. \A k \in Locks : ~InLockQueue(t, k)
  BY <1>1 DEF PlaceInv, Suspended
<1>3. \A m \in Locks \X Conds : ~InMonitor(t, m)
  BY DEF PlaceInv, Suspended
<1> QED  BY <1>2, <1>3 DEF PlaceInv, OnePlace, Live

LEMMA HolderInit == Init => HolderInv
  BY NullAssumption
     DEF Init, HolderInv, OwnersHold, HoldersKnow, HandedOver, OwnersLive

\* Calls that change neither the locks nor where the threads continue.
LEMMA HolderUnchanged ==
  ASSUME HolderInv, UNCHANGED <<locks_held, lock_blocked_threads, owns>>,
         \A t \in Threads : Live(t) => pc'[t] = pc[t] /\ arg'[t] = arg[t],
         \A t \in Threads : pc'[t] = "locking" => pc[t] = "locking"
  PROVE  HolderInv'
  BY DEF HolderInv, OwnersHold, HoldersKnow, HandedOver, OwnersLive, Live, InLockQueue

LEMMA HolderLock ==
  ASSUME PlaceInv, HolderInv, ctx = "thread", pc[running_thread] \in {"user", "waiting"},
         NEW l \in Locks, thread_lock_helper(l)
  PROVE  HolderInv'
<1> DEFINE r == running_thread
<1>1. /\ r \in Threads
      /\ pc \in [Threads -> {"free", "user", "locking", "waiting", "done"}]
      /\ arg \in [Threads -> Locks \cup {NULL}]
      /\ owns \in [Threads -> SUBSET Locks]
      /\ lock_blocked_threads \in [Locks -> Seq(Threads)]
      /\ locks_held \in [Locks -> Threads \cup {NULL}]
  BY RunningNowhere DEF PlaceInv, TypeInv, TypeOK
<1>2. CASE BlockOnLock(l)
  <2>1. /\ lock_blocked_threads' = [lock_blocked_threads EXCEPT ![l] = Append(@, r)]
        /\ pc' = [pc EXCEPT ![r] = "locking"]
        /\ arg' = [arg EXCEPT ![r] = l]
        /\ UNCHANGED <<locks_held, owns>>
    BY <1>2 DEF BlockOnLock
  <2>2. /\ lock_blocked_threads'[l] = Append(lock_blocked_threads[l], r)
        /\ \A k \in Locks \ {l} : lock_blocked_threads'[k] = lock_blocked_threads[k]
    BY <2>1, <1>1
  <2>3. Elems(lock_blocked_threads'[l]) = Elems(lock_blocked_threads[l]) \cup {r}
    BY <1>1, <2>2, AppendQueue
  <2>4. \A t \in Threads, k \in Locks :
          InLockQueue(t, k)' <=> InLockQueue(t, k) \/ (t = r /\ k = l)
    BY <2>2, <2>3 DEF InLockQueue
  <2>5. HandedOver'
    BY <1>1, <2>1, <2>4 DEF PlaceInv, TypeInv, Calling, HolderInv, HandedOver
  <2> QED
    BY <1>1, <2>1, <2>5 DEF HolderInv, OwnersHold, HoldersKnow, OwnersLive, Live
<1>3. CASE AcquireFree(l)
  <2>1. /\ locks_held[l] = NULL
        /\ locks_held' = [locks_held EXCEPT ![l] = r]
        /\ pc' = [pc EXCEPT ![r] = "user"]
        /\ owns' = [owns EXCEPT ![r] = @ \cup {l}]
        /\ arg' = [arg EXCEPT ![r] = NULL]
        /\ lock_blocked_threads' = lock_blocked_threads
    BY <1>3 DEF AcquireFree, ReturnWithLock
  <2>2. OwnersHold' /\ HoldersKnow' /\ OwnersLive'
    BY <1>1, <2>1, NullAssumption
       DEF HolderInv, OwnersHold, HoldersKnow, OwnersLive, Live
  <2>3. HandedOver'
    BY <1>1, <2>1, NullAssumption
       DEF PlaceInv, TypeInv, Calling, HolderInv, HandedOver, InLockQueue
  <2> QED  BY <2>2, <2>3 DEF HolderInv
<1>4. CASE RefuseHeld(l)
  <2>1. /\ pc' = [pc EXCEPT ![r] = "user"]
        /\ arg' = [arg EXCEPT ![r] = NULL]
        /\ UNCHANGED <<locks_held, lock_blocked_threads, owns>>
    BY <1>4 DEF RefuseHeld, blocking
  <2> QED
    BY <1>1, <2>1 DEF HolderInv, OwnersHold, HoldersKnow, HandedOver, OwnersLive,
                      Live, InLockQueue
<1>5. CASE ExitNoReady(l)
  BY <1>5, HolderUnchanged DEF ExitNoReady, blocking
<1> QED  BY <1>2, <1>3, <1>4, <1>5 DEF thread_lock_helper

\* A release: the lock is handed to the first blocked thread.
LEMMA HolderUnlock ==
  ASSUME PlaceInv, HolderInv, ctx = "thread", pc[running_thread] = "user",
         NEW l \in Locks, thread_unlock_helper(l),
         \/ pc' = pc /\ arg' = arg
         \/ /\ pc' = [pc EXCEPT ![running_thread] = "waiting"]
            /\ arg' = [arg EXCEPT ![running_thread] = l]
  PROVE  HolderInv'
<1> DEFINE r == running_thread  q == lock_blocked_threads[l]
<1>1. /\ r \in Threads
      /\ pc \in [Threads -> {"free", "user", "locking", "waiting", "done"}]
      /\ arg \in [Threads -> Locks \cup {NULL}]
      /\ owns \in [Threads -> SUBSET Locks]
      /\ lock_blocked_threads \in [Locks -> Seq(Threads)]
      /\ locks_held \in [Locks -> Threads \cup {NULL}]
      /\ q \in Seq(Threads)
  BY RunningNowhere DEF PlaceInv, TypeInv, TypeOK
<1>2. /\ locks_held[l] = r
      /\ locks_held' = [locks_held EXCEPT ![l] = HolderAfterUnlock(l)]
      /\ owns' = [owns EXCEPT ![r] = @ \ {l}]
  BY DEF thread_unlock_helper
<1>3. /\ locks_held'[l] = HolderAfterUnlock(l)
      /\ \A k \in Locks \ {l} : locks_held'[k] = locks_held[k]
      /\ \A t \in Threads \ {r} : owns'[t] = owns[t]
      /\ owns'[r] = owns[r] \ {l}
  BY <1>1, <1>2
<1>4. /\ \A t \in Threads \ {r} : pc'[t] = pc[t] /\ arg'[t] = arg[t]
      /\ pc'[r] \in {"user", "waiting"}
  BY <1>1
<1>5. HolderAfterUnlock(l) # NULL =>
        /\ HolderAfterUnlock(l) \in Threads \ {r}
        /\ InLockQueue(HolderAfterUnlock(l), l)
  <2>1. CASE q = <<>>
    BY <2>1 DEF HolderAfterUnlock
  <2>2. CASE q # <<>>
    <3>1. HolderAfterUnlock(l) = Head(q)
      BY <2>2 DEF HolderAfterUnlock
    <3>2. Head(q) \in Threads /\ Head(q) \in Elems(q)
      BY <1>1, <2>2, PopQueue
    <3> QED  BY <3>1, <3>2, RunningNowhere DEF InLockQueue
  <2> QED  BY <2>1, <2>2
<1>6. ASSUME NEW t \in Threads, NEW k \in Locks, InLockQueue(t, k)
      PROVE  InLockQueue(t, k)' \/ locks_held'[k] = t
  <2>1. CASE k = l /\ q # <<>>
    <3>1. lock_blocked_threads'[l] = Tail(q) /\ locks_held'[l] = Head(q)
      BY <1>1, <1>3, <2>1 DEF thread_unlock_helper, HolderAfterUnlock
    <3>2. Elems(q) = {Head(q)} \cup Elems(Tail(q))
      BY <1>1, <2>1, PopQueue
    <3> QED  BY <1>6, <2>1, <3>1, <3>2 DEF InLockQueue
  <2>2. CASE k # l \/ q = <<>>
    <3>1. lock_blocked_threads'[k] = lock_blocked_threads[k]
      BY <1>1, <2>2 DEF thread_unlock_helper
    <3> QED  BY <1>6, <3>1 DEF InLockQueue
  <2> QED  BY <2>1, <2>2
<1>7. OwnersHold'
  BY <1>1, <1>2, <1>3 DEF HolderInv, OwnersHold
<1>8. HoldersKnow'
  <2>1. ASSUME NEW t \in Threads, locks_held'[l] = t
        PROVE  l \in owns'[t] \/ (pc'[t] = "locking" /\ arg'[t] = l)
    BY <1>3, <1>4, <1>5, <2>1, NullAssumption DEF PlaceInv, Suspended
  <2>2. ASSUME NEW t \in Threads, NEW k \in Locks \ {l}, locks_held'[k] = t
        PROVE  k \in owns'[t] \/ (pc'[t] = "locking" /\ arg'[t] = k)
    BY <1>1, <1>3, <1>4, <2>2 DEF HolderInv, HoldersKnow
  <2> QED  BY <2>1, <2>2 DEF HoldersKnow
<1>9. HandedOver'
  <2> SUFFICES ASSUME NEW t \in Threads, pc'[t] = "locking"
               PROVE  InLockQueue(t, arg[t])' \/ locks_held'[arg'[t]] = t
    BY DEF HandedOver
  <2>1. t # r /\ pc[t] = "locking" /\ arg'[t] = arg[t] /\ arg[t] \in Locks
    BY <1>4 DEF PlaceInv, TypeInv, Calling
  <2>2. CASE InLockQueue(t, arg[t])
    BY <1>6, <2>1, <2>2 DEF InLockQueue
  <2>3. CASE locks_held[arg[t]] = t
    BY <1>2, <1>3, <2>1, <2>3
  <2> QED  BY <2>1, <2>2, <2>3 DEF HolderInv, HandedOver
<1>10. OwnersLive'
  BY <1>1, <1>3, <1>4, RunningNowhere DEF HolderInv, OwnersLive, Live
<1> QED  BY <1>7, <1>8, <1>9, <1>10 DEF HolderInv

LEMMA HolderNext ==
  Disciplined /\ PlaceInv /\ HolderInv /\ [Next]_vars => HolderInv'
<1> SUFFICES ASSUME Disciplined, PlaceInv, HolderInv, [Next]_vars PROVE HolderInv'
  OBVIOUS
<1>1. /\ pc \in [Threads -> {"free", "user", "locking", "waiting", "done"}]
      /\ arg \in [Threads -> Locks \cup {NULL}]
      /\ owns \in [Threads -> SUBSET Locks]
  BY DEF PlaceInv, TypeInv, TypeOK
<1>2. CASE dispatch
  <2>1. running_thread # NULL => pc[running_thread] = "done"
    BY <1>2 DEF dispatch, PlaceInv, Finished
  <2> QED  BY <1>1, <1>2, <2>1, HolderUnchanged DEF dispatch, blocking, Live
<1>3. CASE thread_lock_return
  <2>1. /\ ctx = "thread" /\ running_thread \in Threads
        /\ pc[running_thread] = "locking"
        /\ pc' = [pc EXCEPT ![running_thread] = "user"]
        /\ arg' = [arg EXCEPT ![running_thread] = NULL]
        /\ owns' = [owns EXCEPT ![running_thread] = @ \cup {arg[running_thread]}]
        /\ UNCHANGED <<locks_held, lock_blocked_threads>>
    BY <1>3, RunningNowhere DEF thread_lock_return, ReturnWithLock, blocking
  <2>2. /\ arg[running_thread] \in Locks
        /\ locks_held[arg[running_thread]] = running_thread
    BY <2>1, RunningNowhere
       DEF PlaceInv, TypeInv, Calling, HolderInv, HandedOver, InLockQueue
  <2>3. OwnersHold' /\ HoldersKnow' /\ OwnersLive'
    BY <1>1, <2>1, <2>2 DEF HolderInv, OwnersHold, HoldersKnow, OwnersLive, Live
  <2>4. HandedOver'
    BY <1>1, <2>1 DEF HolderInv, HandedOver, InLockQueue
  <2> QED  BY <2>3, <2>4 DEF HolderInv
<1>4. CASE thread_wait_relock
  <2>1. /\ ctx = "thread" /\ pc[running_thread] = "waiting"
        /\ thread_lock_helper(arg[running_thread])
    BY <1>4 DEF thread_wait_relock
  <2>2. arg[running_thread] \in Locks
    BY <2>1 DEF PlaceInv, TypeInv, Calling, Running
  <2> QED  BY <2>1, <2>2, HolderLock
<1>5. ASSUME NEW t \in Threads, thread_create_helper(t),
             UNCHANGED <<blocking, arg, owns>>
      PROVE  HolderInv'
  BY <1>1, <1>5, HolderUnchanged DEF thread_create_helper, blocking, Live
<1>6. CASE thread_wrapper
  <2>1. /\ ctx = "thread" /\ pc[running_thread] = "user"
        /\ owns[running_thread] = {}
        /\ pc' = [pc EXCEPT ![running_thread] = "done"]
        /\ owns' = [owns EXCEPT ![running_thread] = {}]
        /\ UNCHANGED <<locks_held, lock_blocked_threads, arg>>
    BY <1>6 DEF thread_wrapper, InUserCode, blocking
  <2> QED
    BY <1>1, <2>1, RunningNowhere
       DEF HolderInv, OwnersHold, HoldersKnow, HandedOver, OwnersLive, Live, InLockQueue
<1>7. ASSUME NEW l \in Locks, thread_lock(l) PROVE HolderInv'
  BY <1>7, HolderLock DEF thread_lock, InUserCode
<1>8. ASSUME NEW l \in Locks, thread_unlock(l) PROVE HolderInv'
  BY <1>8, HolderUnlock DEF thread_unlock, InUserCode
<1>9. ASSUME NEW l \in Locks, thread_wait_exit(l) PROVE HolderInv'
  BY <1>9, HolderUnlock DEF thread_wait_exit, InUserCode
<1>10. ASSUME NEW l \in Locks, NEW c \in Conds, thread_wait(l, c) PROVE HolderInv'
  BY <1>10, HolderUnlock DEF thread_wait, InUserCode
<1>11. CASE UNCHANGED <<locks_held, lock_blocked_threads, owns, pc, arg>>
  BY <1>11, HolderUnchanged
<1> QED
  BY <1>2, <1>3, <1>4, <1>5, <1>6, <1>7, <1>8, <1>9, <1>10, <1>11
     DEF Next, LibraryCode, ProgramCall, Terminated, vars, blocking, dispatch_exit,
         thread_libinit_out_of_memory, call_without_thread, thread_libinit, thread_create,
         thread_yield, thread_signal, thread_broadcast

\* When threads release their locks before they finish, a thread that was told
\* it holds a lock is its only holder, and the recorded holder of a lock knows
\* it or is about to run.
THEOREM HolderIsTold ==
  ASSUME Disciplined
  PROVE  Spec => []HolderKnows
<1>1. Init => PlaceInv /\ NoIdleLock /\ HolderInv
  BY PlaceInit, IdleInit, HolderInit
<1>2. PlaceInv /\ NoIdleLock /\ HolderInv /\ [Next]_vars
        => (PlaceInv /\ NoIdleLock /\ HolderInv)'
  BY PlaceNext, IdleNext, HolderNext
<1>3. PlaceInv /\ NoIdleLock /\ HolderInv => HolderKnows
  BY HolderImplies
<1> QED  BY <1>1, <1>2, <1>3, PTL DEF Spec

-----------------------------------------------------------------------------
(* Order of service.                                                        *)

\* Queue r goes on from queue s: the elements of s keep their places, or the
\* first one is gone and the others move up.
GoesOn(s, r) == \E n \in {0, 1} : \A i \in 1..(Len(s) - n) : i <= Len(r) /\ r[i] = s[i + n]

LEMMA QueuesGoOn ==
  ASSUME NEW S, NEW s \in Seq(S), NEW u \in Seq(S)
  PROVE  /\ GoesOn(s, s)
         /\ GoesOn(s, s \o u)
         /\ s \o u # <<>> => GoesOn(s, Tail(s \o u))
         /\ s # <<>> => GoesOn(s, Tail(s) \o u)
<1>1. /\ Len(s) \in Nat /\ Len(u) \in Nat
      /\ Len(s \o u) = Len(s) + Len(u)
      /\ \A i \in 1..Len(s) : (s \o u)[i] = s[i]
      /\ s \o u \in Seq(S)
  OBVIOUS
<1>2. GoesOn(s, s) /\ GoesOn(s, s \o u)
  <2>1. \A i \in 1..(Len(s) - 0) : /\ i <= Len(s) /\ s[i] = s[i + 0]
                                   /\ i <= Len(s \o u) /\ (s \o u)[i] = s[i + 0]
    BY <1>1
  <2> QED  BY <2>1 DEF GoesOn
<1>3. ASSUME s \o u # <<>> PROVE GoesOn(s, Tail(s \o u))
  <2>1. /\ Len(Tail(s \o u)) = Len(s) + Len(u) - 1
        /\ \A i \in 1..(Len(s) + Len(u) - 1) : Tail(s \o u)[i] = (s \o u)[i + 1]
    BY <1>1, <1>3
  <2>2. \A i \in 1..(Len(s) - 1) : i <= Len(Tail(s \o u)) /\ Tail(s \o u)[i] = s[i + 1]
    BY <1>1, <2>1
  <2> QED  BY <2>2 DEF GoesOn
<1>4. ASSUME s # <<>> PROVE GoesOn(s, Tail(s) \o u)
  <2>1. /\ Tail(s) \in Seq(S)
        /\ Len(Tail(s)) = Len(s) - 1
        /\ \A i \in 1..(Len(s) - 1) : Tail(s)[i] = s[i + 1]
    BY <1>1, <1>4
  <2>2. /\ Len(Tail(s) \o u) = Len(s) - 1 + Len(u)
        /\ \A i \in 1..(Len(s) - 1) : (Tail(s) \o u)[i] = Tail(s)[i]
    BY <1>1, <2>1
  <2>3. \A i \in 1..(Len(s) - 1) : i <= Len(Tail(s) \o u) /\ (Tail(s) \o u)[i] = s[i + 1]
    BY <1>1, <2>1, <2>2
  <2> QED  BY <2>3 DEF GoesOn
<1> QED  BY <1>2, <1>3, <1>4

\* One more at the end is a queue of one more.
LEMMA AppendIsConcat ==
  ASSUME NEW S, NEW s \in Seq(S), NEW x \in S
  PROVE  <<x>> \in Seq(S) /\ Append(s, x) = s \o <<x>> /\ s = s \o <<>> /\ <<>> \in Seq(S)
OBVIOUS

LEMMA ReadyGoesOn ==
  ASSUME TypeInv, [Next]_vars
  PROVE  GoesOn(ready_threads, ready_threads')
<1> DEFINE q == ready_threads
           Grown == \E u \in Seq(Threads) : q' = q \o u
           Moved == q # <<>> /\ \E u \in Seq(Threads) : q' = Tail(q) \o u
           Passed == \E u \in Seq(Threads) : q \o u # <<>> /\ q' = Tail(q \o u)
<1>1. /\ q \in Seq(Threads)
      /\ lock_blocked_threads \in [Locks -> Seq(Threads)]
      /\ monitor_blocked_threads \in [Locks \X Conds -> Seq(Threads)]
      /\ ctx = "thread" => running_thread \in Threads
  BY DEF TypeInv, TypeOK, Running
<1>2. ASSUME NEW s \in Seq(Threads) PROVE s = s \o <<>> /\ <<>> \in Seq(Threads)
  OBVIOUS
<1>3. ASSUME q' = q \/ Grown \/ Moved \/ Passed
      PROVE  GoesOn(q, q')
  <2>1. CASE q' = q
    BY <1>1, <1>2, <2>1, QueuesGoOn
  <2>2. CASE Grown
    BY <1>1, <2>2, QueuesGoOn
  <2>3. CASE Moved
    BY <1>1, <2>3, QueuesGoOn
  <2>4. CASE Passed
    BY <1>1, <2>4, QueuesGoOn
  <2> QED  BY <1>3, <2>1, <2>2, <2>3, <2>4
<1>4. ASSUME q # <<>>, q' = Tail(q) PROVE Moved
  <2>1. Tail(q) \in Seq(Threads)
    BY <1>1, <1>4
  <2> QED  BY <1>2, <1>4, <2>1
<1>5. ASSUME NEW t \in Threads, q' = Append(q, t) PROVE Grown
  BY <1>1, <1>5, AppendIsConcat
<1>6. CASE dispatch
  BY <1>6, <1>4, <1>3 DEF dispatch
<1>7. ASSUME NEW t \in Threads, thread_create_helper(t) PROVE GoesOn(q, q')
  BY <1>7, <1>5, <1>3 DEF thread_create_helper
<1>8. CASE thread_yield
  <2>1. q # <<>> /\ q' = Append(Tail(q), running_thread) /\ running_thread \in Threads
    BY <1>8, <1>1 DEF thread_yield, InUserCode
  <2>2. Tail(q) \in Seq(Threads)
    BY <1>1, <2>1
  <2>3. Moved
    BY <2>1, <2>2, AppendIsConcat
  <2> QED  BY <2>3, <1>3
<1>9. ASSUME NEW l, thread_lock_helper(l) PROVE GoesOn(q, q')
  BY <1>9, <1>4, <1>3
     DEF thread_lock_helper, RefuseHeld, AcquireFree, BlockOnLock, ExitNoReady, scheduling
<1>10. ASSUME NEW l \in Locks
       PROVE  \E u \in Seq(Threads) : ReadyAfterUnlock(l) = q \o u
  <2>1. CASE lock_blocked_threads[l] = <<>>
    BY <1>1, <1>2, <2>1 DEF ReadyAfterUnlock
  <2>2. CASE lock_blocked_threads[l] # <<>>
    <3>1. Head(lock_blocked_threads[l]) \in Threads
      BY <1>1, <2>2
    <3> QED  BY <1>1, <2>2, <3>1, AppendIsConcat DEF ReadyAfterUnlock
  <2> QED  BY <2>1, <2>2
<1>11. ASSUME NEW l \in Locks, thread_unlock(l) PROVE GoesOn(q, q')
  BY <1>11, <1>10, <1>3 DEF thread_unlock
<1>12. ASSUME NEW l \in Locks, NEW c \in Conds, thread_wait(l, c) PROVE GoesOn(q, q')
  BY <1>12, <1>10, <1>3 DEF thread_wait
<1>13. ASSUME NEW l \in Locks, NEW c \in Conds, thread_signal(l, c) PROVE GoesOn(q, q')
  <2>1. /\ monitor_blocked_threads[<<l, c>>] \in Seq(Threads)
        /\ monitor_blocked_threads[<<l, c>>] # <<>>
        /\ q' = Append(q, Head(monitor_blocked_threads[<<l, c>>]))
    BY <1>1, <1>13 DEF thread_signal
  <2>2. Head(monitor_blocked_threads[<<l, c>>]) \in Threads
    BY <2>1
  <2> QED  BY <2>1, <2>2, <1>5, <1>3
<1>14. ASSUME NEW l \in Locks, NEW c \in Conds, thread_broadcast(l, c) PROVE GoesOn(q, q')
  BY <1>1, <1>14, <1>3 DEF thread_broadcast
<1>15. CASE q' = q
  BY <1>15, <1>3
<1> QED
  BY <1>6, <1>7, <1>8, <1>9, <1>11, <1>12, <1>13, <1>14, <1>15
     DEF Next, LibraryCode, ProgramCall, Terminated, vars, scheduling, dispatch_exit,
         thread_lock_return, thread_wait_relock, thread_libinit_out_of_memory,
         call_without_thread, thread_libinit, thread_create, thread_wrapper,
         thread_lock, thread_wait_exit

\* Ready threads are served in order: nobody is put in front of them (yield,
\* unlock, wait, signal and broadcast push at the back, the front is taken).
THEOREM ReadyServedInOrder == Spec => ReadyInOrder
<1>1. TypeInv /\ [Next]_vars =>
        [\E n \in {0, 1} :
           \A i \in 1..(Len(ready_threads) - n) :
             i <= Len(ready_threads') /\ ready_threads'[i] = ready_threads[i + n]]_vars
  BY ReadyGoesOn DEF GoesOn
<1> QED  BY <1>1, TypeInit, TypeNext, PTL DEF Spec, ReadyInOrder

\* While threads are blocked on a lock it is only handed to the first of them,
\* and newcomers queue up behind (thread_lock, thread_unlock and thread_wait).
THEOREM LocksServedInOrder == Spec => NoBarging
<1> DEFINE Fair(l) ==
      lock_blocked_threads[l] # <<>> =>
        \/ /\ locks_held'[l] = locks_held[l]
           /\ \E s \in {<<>>} \cup {<<t>> : t \in Threads} :
                lock_blocked_threads'[l] = lock_blocked_threads[l] \o s
        \/ /\ locks_held'[l] = Head(lock_blocked_threads[l])
           /\ lock_blocked_threads'[l] = Tail(lock_blocked_threads[l])
<1>1. ASSUME TypeInv, NoIdleLock, Next, NEW k \in Locks PROVE Fair(k)
  <2> DEFINE b == lock_blocked_threads[k]
  <2>1. /\ lock_blocked_threads \in [Locks -> Seq(Threads)]
        /\ locks_held \in [Locks -> Threads \cup {NULL}]
        /\ b \in Seq(Threads)
        /\ ctx = "thread" => running_thread \in Threads
    BY <1>1 DEF TypeInv, TypeOK, Running
  <2>2. ASSUME locks_held'[k] = locks_held[k], lock_blocked_threads'[k] = b PROVE Fair(k)
    <3>1. b = b \o <<>>
      BY <2>1
    <3> QED  BY <2>2, <3>1
  <2>3. ASSUME ctx = "thread", NEW l \in Locks, thread_lock_helper(l) PROVE Fair(k)
    <3>1. CASE AcquireFree(l)
      <4>1. locks_held[l] = NULL /\ lock_blocked_threads' = lock_blocked_threads
            /\ locks_held' = [locks_held EXCEPT ![l] = running_thread]
        BY <3>1 DEF AcquireFree
      <4>2. CASE k = l
        BY <1>1, <4>1, <4>2 DEF NoIdleLock
      <4>3. CASE k # l
        BY <2>1, <2>2, <4>1, <4>3
      <4> QED  BY <4>2, <4>3
    <3>2. CASE BlockOnLock(l)
      <4>1. /\ locks_held' = locks_held
            /\ lock_blocked_threads' =
                 [lock_blocked_threads EXCEPT ![l] = Append(@, running_thread)]
        BY <3>2 DEF BlockOnLock
      <4>2. CASE k = l
        <5>1. lock_blocked_threads'[k] = b \o <<running_thread>>
          BY <2>1, <2>3, <4>1, <4>2, AppendIsConcat
        <5> QED  BY <2>1, <2>3, <4>1, <5>1
      <4>3. CASE k # l
        BY <2>1, <2>2, <4>1, <4>3
      <4> QED  BY <4>2, <4>3
    <3>3. CASE RefuseHeld(l) \/ ExitNoReady(l)
      BY <2>2, <3>3 DEF RefuseHeld, ExitNoReady, blocking
    <3> QED  BY <2>3, <3>1, <3>2, <3>3 DEF thread_lock_helper
  <2>4. ASSUME NEW l \in Locks, thread_unlock_helper(l) PROVE Fair(k)
    <3>1. CASE k # l
      BY <2>1, <2>2, <2>4, <3>1 DEF thread_unlock_helper
    <3>2. CASE k = l
      BY <2>1, <2>4, <3>2 DEF thread_unlock_helper, HolderAfterUnlock
    <3> QED  BY <3>1, <3>2
  <2>5. CASE thread_wait_relock
    <3>1. ctx = "thread" /\ thread_lock_helper(arg[running_thread])
      BY <2>5 DEF thread_wait_relock
    <3>2. arg[running_thread] \in Locks
      BY <1>1, <2>5 DEF thread_wait_relock, TypeInv, Calling, Running
    <3> QED  BY <2>3, <3>1, <3>2
  <2>6. CASE UNCHANGED <<locks_held, lock_blocked_threads>>
    BY <2>2, <2>6
  <2> QED
    BY <1>1, <2>3, <2>4, <2>5, <2>6
       DEF Next, LibraryCode, ProgramCall, Terminated, vars, blocking, dispatch,
           dispatch_exit, thread_lock_return, thread_libinit_out_of_memory,
           call_without_thread, thread_libinit, thread_create, thread_wrapper,
           thread_yield, thread_lock, thread_unlock, thread_wait, thread_wait_exit,
           thread_signal, thread_broadcast, InUserCode
<1>2. TypeInv /\ NoIdleLock /\ [Next]_vars => [\A l \in Locks : Fair(l)]_vars
  BY <1>1
<1>3. Init => PlaceInv /\ NoIdleLock
  BY PlaceInit, IdleInit
<1>4. PlaceInv /\ NoIdleLock /\ [Next]_vars => (PlaceInv /\ NoIdleLock)'
  BY PlaceNext, IdleNext
<1>5. PlaceInv => TypeInv
  BY DEF PlaceInv
<1> QED  BY <1>2, <1>3, <1>4, <1>5, PTL DEF Spec, NoBarging

-----------------------------------------------------------------------------
(* The library implements the Mesa monitor.  A thread contends for a lock    *)
(* when it is blocked on it, or waits for it and is in no monitor any more.  *)

Woken(l) ==
  {t \in Threads : /\ pc[t] = "waiting" /\ arg[t] = l
                   /\ \A m \in Locks \X Conds : t \notin Elems(monitor_blocked_threads[m])}

\* A thread that waits has given its lock up, and nobody hands it back.
WaitersGaveUp == \A t \in Threads : pc[t] = "waiting" => locks_held[arg[t]] # t

LEMMA ContendersAre ==
  PlaceInv => Contenders = [l \in Locks |-> Elems(lock_blocked_threads[l]) \cup Woken(l)]
<1> SUFFICES ASSUME PlaceInv
             PROVE  Contenders = [l \in Locks |-> Elems(lock_blocked_threads[l]) \cup Woken(l)]
  OBVIOUS
<1>1. ASSUME NEW t \in Threads, pc[t] = "waiting"
      PROVE  (InReady(t) \/ OnProcessor(t))
               <=> (\A m \in Locks \X Conds : t \notin Elems(monitor_blocked_threads[m]))
  BY <1>1 DEF PlaceInv, OnePlace, Suspended, Live, InMonitor
<1>2. ASSUME NEW l \in Locks
      PROVE  Woken(l) = {t \in Threads : /\ pc[t] = "waiting" /\ arg[t] = l
                                         /\ InReady(t) \/ OnProcessor(t)}
  BY <1>1 DEF Woken
<1> QED  BY <1>2, Zenon DEF Contenders

LEMMA ContendersNext ==
  PlaceInv' => Contenders' = [l \in Locks |-> Elems(lock_blocked_threads'[l]) \cup Woken(l)']
<1>1. (PlaceInv => Contenders = [l \in Locks |-> Elems(lock_blocked_threads[l]) \cup Woken(l)])'
  BY ContendersAre, PTL
<1> QED  BY <1>1

\* The contenders, lock by lock, before and after a step.
LEMMA ContendersOf ==
  ASSUME PlaceInv, PlaceInv'
  PROVE  /\ Contenders = [l \in Locks |-> Contenders[l]]
         /\ Contenders' = [l \in Locks |-> Contenders'[l]]
         /\ \A l \in Locks :
              /\ Contenders[l] = Elems(lock_blocked_threads[l]) \cup Woken(l)
              /\ Contenders'[l] = Elems(lock_blocked_threads'[l]) \cup Woken(l)'
<1>1. Contenders = [l \in Locks |-> Elems(lock_blocked_threads[l]) \cup Woken(l)]
  BY ContendersAre
<1>2. Contenders' = [l \in Locks |-> Elems(lock_blocked_threads'[l]) \cup Woken(l)']
  BY ContendersNext
<1> QED  BY <1>1, <1>2, Zenon

\* A thread in user code is in no call of the monitor.
LEMMA CallerOutside ==
  ASSUME PlaceInv, ctx = "thread", pc[running_thread] = "user"
  PROVE  ~Monitor!InCall(running_thread)
<1>1. Contenders = [l \in Locks |-> Elems(lock_blocked_threads[l]) \cup Woken(l)]
  BY ContendersAre
<1>2. ASSUME NEW l \in Locks PROVE running_thread \notin Contenders[l]
  BY <1>1, RunningNowhere DEF Woken
<1>3. ASSUME NEW m \in Locks \X Conds PROVE running_thread \notin Waiters[m]
  BY RunningNowhere DEF Waiters
<1> QED  BY <1>2, <1>3 DEF Monitor!InCall

\* A step that leaves the locks, the queues and the waiting threads alone.
LEMMA MonitorStutter ==
  ASSUME PlaceInv, PlaceInv', UNCHANGED blocking,
         \A t \in Threads : /\ pc'[t] = "waiting" <=> pc[t] = "waiting"
                            /\ pc[t] = "waiting" => arg'[t] = arg[t]
  PROVE  UNCHANGED Monitor!mvars
<1>1. /\ locks_held' = locks_held
      /\ lock_blocked_threads' = lock_blocked_threads
      /\ monitor_blocked_threads' = monitor_blocked_threads
  BY DEF blocking
<1>2. ASSUME NEW l \in Locks PROVE Woken(l)' = Woken(l)
  BY <1>1 DEF Woken
<1>3. ASSUME NEW l \in Locks PROVE Contenders'[l] = Contenders[l]
  BY <1>1, <1>2, ContendersOf
<1>4. Contenders' = Contenders
  BY <1>3, ContendersOf
<1>5. Waiters' = Waiters
  BY <1>1 DEF Waiters
<1> QED  BY <1>1, <1>4, <1>5 DEF Monitor!mvars

\* thread_lock, and the second half of thread_wait.
LEMMA MonitorLock ==
  ASSUME PlaceInv, PlaceInv', WaitersGaveUp, ctx = "thread", NEW l \in Locks,
         pc[running_thread] = "user" \/ (pc[running_thread] = "waiting" /\ arg[running_thread] = l),
         thread_lock_helper(l)
  PROVE  [Monitor!Next]_(Monitor!mvars)
<1> DEFINE r == running_thread
<1>1. /\ r \in Threads
      /\ \A k \in Locks : r \notin Elems(lock_blocked_threads[k])
      /\ \A m \in Locks \X Conds : r \notin Elems(monitor_blocked_threads[m])
  BY RunningNowhere
<1>2. /\ pc \in [Threads -> {"free", "user", "locking", "waiting", "done"}]
      /\ arg \in [Threads -> Locks \cup {NULL}]
      /\ locks_held \in [Locks -> Threads \cup {NULL}]
      /\ lock_blocked_threads \in [Locks -> Seq(Threads)]
  BY DEF PlaceInv, TypeInv, TypeOK
<1>3. CASE RefuseHeld(l)
  <2>1. locks_held[l] = r
    BY <1>3 DEF RefuseHeld
  <2>2. pc[r] = "user"
    BY <1>1, <2>1 DEF WaitersGaveUp
  <2> QED  BY <1>2, <1>3, <2>2, MonitorStutter DEF RefuseHeld
<1>4. CASE ExitNoReady(l)
  BY <1>4, MonitorStutter DEF ExitNoReady
<1>5. CASE AcquireFree(l)
  <2>1. /\ locks_held[l] = NULL
        /\ locks_held' = [locks_held EXCEPT ![l] = r]
        /\ pc' = [pc EXCEPT ![r] = "user"]
        /\ arg' = [arg EXCEPT ![r] = NULL]
        /\ lock_blocked_threads' = lock_blocked_threads
        /\ monitor_blocked_threads' = monitor_blocked_threads
    BY <1>5 DEF AcquireFree, ReturnWithLock
  <2>2. ASSUME NEW k \in Locks
        PROVE  Woken(k)' = IF k = l THEN Woken(k) \ {r} ELSE Woken(k)
    BY <1>1, <1>2, <2>1 DEF Woken
  <2>3. ASSUME NEW k \in Locks
        PROVE  Contenders'[k] = IF k = l THEN Contenders[k] \ {r} ELSE Contenders[k]
    <3>1. r \notin Elems(lock_blocked_threads[k])
      BY <1>1
    <3>2. /\ Contenders[k] = Elems(lock_blocked_threads[k]) \cup Woken(k)
          /\ Contenders'[k] = Elems(lock_blocked_threads[k]) \cup Woken(k)'
      BY <2>1, ContendersOf
    <3> QED  BY <2>2, <3>1, <3>2
  <2>4. Contenders' = [Contenders EXCEPT ![l] = @ \ {r}]
    BY <2>3, ContendersOf
  <2>5. r \in Contenders[l] \/ ~Monitor!InCall(r)
    <3>1. CASE pc[r] = "user"
      BY <3>1, CallerOutside
    <3>2. CASE pc[r] = "waiting" /\ arg[r] = l
      <4>1. r \in Woken(l)
        BY <1>1, <3>2 DEF Woken
      <4> QED  BY <4>1, ContendersOf
    <3> QED  BY <3>1, <3>2
  <2>6. Waiters' = Waiters
    BY <2>1 DEF Waiters
  <2>7. Monitor!Acquire(r, l)
    BY <2>1, <2>4, <2>5, <2>6 DEF Monitor!Acquire
  <2> QED  BY <1>1, <2>7 DEF Monitor!Next
<1>6. CASE BlockOnLock(l)
  <2>1. /\ locks_held[l] \notin {NULL, r}
        /\ locks_held' = locks_held
        /\ lock_blocked_threads' = [lock_blocked_threads EXCEPT ![l] = Append(@, r)]
        /\ pc' = [pc EXCEPT ![r] = "locking"]
        /\ arg' = [arg EXCEPT ![r] = l]
        /\ monitor_blocked_threads' = monitor_blocked_threads
    BY <1>6 DEF BlockOnLock
  <2>2. ASSUME NEW k \in Locks
        PROVE  Woken(k)' = IF k = l THEN Woken(k) \ {r} ELSE Woken(k)
    BY <1>1, <1>2, <2>1 DEF Woken
  <2>3. Elems(Append(lock_blocked_threads[l], r)) = Elems(lock_blocked_threads[l]) \cup {r}
    BY <1>1, <1>2, AppendQueue
  <2>4. ASSUME NEW k \in Locks
        PROVE  Contenders'[k] = IF k = l THEN Contenders[k] \cup {r} ELSE Contenders[k]
    <3>1. lock_blocked_threads'[k] =
            IF k = l THEN Append(lock_blocked_threads[l], r) ELSE lock_blocked_threads[k]
      BY <1>2, <2>1
    <3> QED  BY <2>2, <2>3, <3>1, ContendersOf
  <2>5. Contenders' = [Contenders EXCEPT ![l] = @ \cup {r}]
    BY <2>4, ContendersOf
  <2>6. Waiters' = Waiters
    BY <2>1 DEF Waiters
  <2>7. CASE pc[r] = "user"
    <3>1. Monitor!Contend(r, l)
      BY <2>1, <2>5, <2>6, <2>7, CallerOutside DEF Monitor!Contend
    <3> QED  BY <1>1, <3>1 DEF Monitor!Next
  <2>8. CASE pc[r] = "waiting" /\ arg[r] = l
    <3>1. r \in Contenders[l]
      BY <1>1, <2>8, ContendersOf DEF Woken
    <3>2. Contenders' = Contenders
      BY <2>4, <3>1, ContendersOf
    <3> QED  BY <2>1, <2>6, <3>2 DEF Monitor!mvars
  <2> QED  BY <2>7, <2>8
<1> QED  BY <1>3, <1>4, <1>5, <1>6 DEF thread_lock_helper

\* A release: thread_unlock, and the first half of thread_wait.
LEMMA MonitorGiveUp ==
  ASSUME PlaceInv, PlaceInv', ctx = "thread", pc[running_thread] = "user",
         NEW l \in Locks, thread_unlock_helper(l),
         \A k \in Locks : Woken(k)' = Woken(k)
  PROVE  Monitor!GiveUp(running_thread, l)
<1> DEFINE r == running_thread
           b == lock_blocked_threads[l]
           u == Head(b)
<1>1. /\ locks_held[l] = r
      /\ locks_held' = [locks_held EXCEPT ![l] = HolderAfterUnlock(l)]
      /\ lock_blocked_threads' = IF b = <<>> THEN lock_blocked_threads
                                 ELSE [lock_blocked_threads EXCEPT ![l] = Tail(b)]
  BY DEF thread_unlock_helper
<1>2. /\ locks_held \in [Locks -> Threads \cup {NULL}]
      /\ lock_blocked_threads \in [Locks -> Seq(Threads)]
      /\ b \in Seq(Threads) /\ NoRepeats(b)
  BY DEF PlaceInv, TypeInv, TypeOK, OnePlace
<1>3. ~Monitor!InCall(r)
  BY CallerOutside
<1>4. CASE b = <<>>
  <2>1. locks_held' = [locks_held EXCEPT ![l] = NULL] /\ lock_blocked_threads' = lock_blocked_threads
    BY <1>1, <1>4 DEF HolderAfterUnlock
  <2>2. ASSUME NEW k \in Locks PROVE Contenders'[k] = Contenders[k]
    BY <2>1, ContendersOf
  <2>3. Contenders' = Contenders
    BY <2>2, ContendersOf
  <2> QED  BY <1>1, <1>3, <2>1, <2>3 DEF Monitor!GiveUp
<1>5. CASE b # <<>>
  <2>1. /\ locks_held' = [locks_held EXCEPT ![l] = u]
        /\ lock_blocked_threads' = [lock_blocked_threads EXCEPT ![l] = Tail(b)]
    BY <1>1, <1>5 DEF HolderAfterUnlock
  <2>2. /\ u \in Threads /\ Elems(b) = {u} \cup Elems(Tail(b)) /\ u \notin Elems(Tail(b))
    BY <1>2, <1>5, PopQueue
  <2>3. pc[u] = "locking"
    BY <2>2 DEF PlaceInv, Suspended, InLockQueue
  <2>4. u \notin Woken(l)
    BY <2>3 DEF Woken
  <2>5. ASSUME NEW k \in Locks
        PROVE  Contenders'[k] = IF k = l THEN Contenders[k] \ {u} ELSE Contenders[k]
    <3>1. lock_blocked_threads'[k] = IF k = l THEN Tail(b) ELSE lock_blocked_threads[k]
      BY <1>2, <2>1
    <3> QED  BY <2>2, <2>4, <3>1, ContendersOf
  <2>6. Contenders' = [Contenders EXCEPT ![l] = @ \ {u}]
    BY <2>5, ContendersOf
  <2>7. u \in Contenders[l]
    BY <2>2, ContendersOf
  <2> QED  BY <1>1, <1>3, <2>1, <2>6, <2>7 DEF Monitor!GiveUp
<1> QED  BY <1>4, <1>5

\* A wake-up: the threads in S leave the monitor and contend for the lock.
LEMMA MonitorWake ==
  ASSUME PlaceInv, PlaceInv', NEW l \in Locks, NEW c \in Conds,
         NEW S, S \subseteq Elems(monitor_blocked_threads[<<l, c>>]),
         NEW q, Elems(q) = Elems(monitor_blocked_threads[<<l, c>>]) \ S,
         monitor_blocked_threads' = [monitor_blocked_threads EXCEPT ![<<l, c>>] = q],
         UNCHANGED <<locks_held, lock_blocked_threads, pc, arg>>
  PROVE  Monitor!Wake(S, l, c)
<1> DEFINE m == <<l, c>>
<1>1. /\ m \in Locks \X Conds /\ m[1] = l
      /\ monitor_blocked_threads \in [Locks \X Conds -> Seq(Threads)]
      /\ \A n \in Locks \X Conds :
           monitor_blocked_threads'[n] = IF n = m THEN q ELSE monitor_blocked_threads[n]
  BY DEF PlaceInv, TypeInv, TypeOK
<1>2. ASSUME NEW t \in S
      PROVE  /\ t \in Threads
             /\ pc[t] = "waiting" /\ arg[t] = l
             /\ \A n \in Locks \X Conds : n # m => t \notin Elems(monitor_blocked_threads[n])
  <2>1. t \in Elems(monitor_blocked_threads[m])
    OBVIOUS
  <2>2. t \in Threads
    BY <1>1, <2>1 DEF Elems
  <2> QED  BY <1>1, <2>1, <2>2 DEF PlaceInv, OnePlace, Suspended, InMonitor
<1>3. ASSUME NEW k \in Locks
      PROVE  Woken(k)' = IF k = l THEN Woken(k) \cup S ELSE Woken(k)
  <2>1. ASSUME NEW t \in Threads
        PROVE  (\A n \in Locks \X Conds : t \notin Elems(monitor_blocked_threads'[n]))
                 <=> \/ t \in S
                     \/ \A n \in Locks \X Conds : t \notin Elems(monitor_blocked_threads[n])
    BY <1>1, <1>2
  <2> QED  BY <1>2, <2>1 DEF Woken
<1>4. ASSUME NEW k \in Locks
      PROVE  Contenders'[k] = IF k = l THEN Contenders[k] \cup S ELSE Contenders[k]
  BY <1>3, ContendersOf
<1>5. Contenders' = [Contenders EXCEPT ![l] = @ \cup S]
  BY <1>4, ContendersOf
<1>6. Waiters' = [Waiters EXCEPT ![m] = @ \ S]
  BY <1>1 DEF Waiters
<1> QED  BY <1>5, <1>6 DEF Monitor!Wake

LEMMA MonitorNext ==
  PlaceInv /\ PlaceInv' /\ WaitersGaveUp /\ [Next]_vars => [Monitor!Next]_(Monitor!mvars)
<1> SUFFICES ASSUME PlaceInv, PlaceInv', WaitersGaveUp, [Next]_vars
             PROVE  [Monitor!Next]_(Monitor!mvars)
  OBVIOUS
<1>1. /\ pc \in [Threads -> {"free", "user", "locking", "waiting", "done"}]
      /\ arg \in [Threads -> Locks \cup {NULL}]
      /\ monitor_blocked_threads \in [Locks \X Conds -> Seq(Threads)]
  BY DEF PlaceInv, TypeInv, TypeOK
<1>2. CASE UNCHANGED <<blocking, pc, arg>>
  BY <1>2, MonitorStutter
<1>3. CASE dispatch
  <2>1. running_thread # NULL => pc[running_thread] = "done"
    BY <1>3 DEF dispatch, PlaceInv, Finished
  <2>2. \A t \in Threads : pc'[t] = "waiting" <=> pc[t] = "waiting"
    BY <1>1, <1>3, <2>1 DEF dispatch
  <2> QED  BY <1>3, <2>2, MonitorStutter DEF dispatch
<1>4. CASE thread_lock_return
  <2>1. /\ pc[running_thread] = "locking"
        /\ pc' = [pc EXCEPT ![running_thread] = "user"]
        /\ arg' = [arg EXCEPT ![running_thread] = NULL]
        /\ UNCHANGED blocking
    BY <1>4 DEF thread_lock_return, ReturnWithLock
  <2>2. \A t \in Threads : /\ pc'[t] = "waiting" <=> pc[t] = "waiting"
                           /\ pc[t] = "waiting" => arg'[t] = arg[t]
    BY <1>1, <2>1
  <2> QED  BY <2>1, <2>2, MonitorStutter
<1>5. CASE thread_wait_relock
  <2>1. /\ ctx = "thread" /\ pc[running_thread] = "waiting"
        /\ thread_lock_helper(arg[running_thread])
    BY <1>5 DEF thread_wait_relock
  <2>2. arg[running_thread] \in Locks
    BY <2>1, RunningNowhere DEF PlaceInv, TypeInv, Calling
  <2> QED  BY <2>1, <2>2, MonitorLock
<1>6. ASSUME NEW t \in Threads, thread_create_helper(t), UNCHANGED <<blocking, arg>>
      PROVE  [Monitor!Next]_(Monitor!mvars)
  <2>1. \A u \in Threads : pc'[u] = "waiting" <=> pc[u] = "waiting"
    BY <1>1, <1>6 DEF thread_create_helper
  <2> QED  BY <1>6, <2>1, MonitorStutter
<1>7. CASE thread_wrapper
  <2>1. \A u \in Threads : pc'[u] = "waiting" <=> pc[u] = "waiting"
    BY <1>1, <1>7 DEF thread_wrapper, InUserCode
  <2> QED  BY <1>7, <2>1, MonitorStutter DEF thread_wrapper
<1>8. ASSUME NEW l \in Locks, thread_lock(l) PROVE [Monitor!Next]_(Monitor!mvars)
  BY <1>8, MonitorLock DEF thread_lock, InUserCode
<1>9. ASSUME NEW l \in Locks, thread_unlock_helper(l), InUserCode,
             UNCHANGED <<monitor_blocked_threads, pc, arg>>
      PROVE  [Monitor!Next]_(Monitor!mvars)
  <2>1. running_thread \in Threads
    BY <1>9, RunningNowhere DEF InUserCode
  <2>2. \A k \in Locks : Woken(k)' = Woken(k)
    BY <1>9 DEF Woken
  <2>3. Monitor!GiveUp(running_thread, l)
    BY <1>9, <2>2, MonitorGiveUp DEF InUserCode
  <2>4. Monitor!Release(running_thread, l)
    BY <1>9, <2>3 DEF Monitor!Release, Waiters
  <2> QED  BY <2>1, <2>4 DEF Monitor!Next
<1>10. ASSUME NEW l \in Locks, NEW c \in Conds, thread_wait(l, c)
       PROVE  [Monitor!Next]_(Monitor!mvars)
  <2> DEFINE r == running_thread
             m == <<l, c>>
             b == monitor_blocked_threads[m]
  <2>1. /\ InUserCode /\ thread_unlock_helper(l)
        /\ monitor_blocked_threads' = [monitor_blocked_threads EXCEPT ![m] = Append(b, r)]
        /\ pc' = [pc EXCEPT ![r] = "waiting"]
        /\ arg' = [arg EXCEPT ![r] = l]
    BY <1>10 DEF thread_wait
  <2>2. ctx = "thread" /\ pc[r] = "user" /\ r \in Threads
    BY <2>1, RunningNowhere DEF InUserCode
  <2>3. m \in Locks \X Conds /\ b \in Seq(Threads)
    BY <1>1
  <2>4. Elems(Append(b, r)) = Elems(b) \cup {r}
    BY <2>2, <2>3, AppendQueue
  <2>5. ASSUME NEW n \in Locks \X Conds
        PROVE  Elems(monitor_blocked_threads'[n]) =
                 IF n = m THEN Elems(b) \cup {r} ELSE Elems(monitor_blocked_threads[n])
    BY <1>1, <2>1, <2>4
  <2>6. ASSUME NEW k \in Locks, NEW t \in Threads
        PROVE  t \in Woken(k)' <=> t \in Woken(k)
    <3>1. CASE t = r
      <4>1. t \in Elems(monitor_blocked_threads'[m])
        BY <2>3, <2>5, <3>1
      <4>2. t \notin Woken(k)'
        BY <2>3, <4>1 DEF Woken
      <4>3. t \notin Woken(k)
        BY <2>2, <3>1 DEF Woken
      <4> QED  BY <4>2, <4>3
    <3>2. CASE t # r
      <4>1. pc'[t] = pc[t] /\ arg'[t] = arg[t]
        BY <1>1, <2>1, <3>2
      <4>2. \A n \in Locks \X Conds : t \in Elems(monitor_blocked_threads'[n])
                                        <=> t \in Elems(monitor_blocked_threads[n])
        BY <2>5, <3>2
      <4> QED  BY <4>1, <4>2 DEF Woken
    <3> QED  BY <3>1, <3>2
  <2>7. \A k \in Locks : Woken(k)' = Woken(k)
    BY <2>6 DEF Woken
  <2>8. Monitor!GiveUp(r, l)
    BY <2>1, <2>2, <2>7, MonitorGiveUp
  <2>9. Waiters' = [Waiters EXCEPT ![m] = @ \cup {r}]
    BY <2>5 DEF Waiters
  <2>10. Monitor!Wait(r, l, c)
    BY <2>8, <2>9 DEF Monitor!Wait
  <2> QED  BY <2>2, <2>10 DEF Monitor!Next
<1>11. ASSUME NEW l \in Locks, NEW c \in Conds, thread_signal(l, c)
       PROVE  [Monitor!Next]_(Monitor!mvars)
  <2> DEFINE b == monitor_blocked_threads[<<l, c>>]
  <2>1. b \in Seq(Threads) /\ b # <<>> /\ NoRepeats(b)
    BY <1>1, <1>11 DEF thread_signal, PlaceInv, OnePlace
  <2>2. Head(b) \in Elems(b) /\ Elems(Tail(b)) = Elems(b) \ {Head(b)}
    BY <2>1, PopQueue
  <2>3. /\ monitor_blocked_threads' = [monitor_blocked_threads EXCEPT ![<<l, c>>] = Tail(b)]
        /\ UNCHANGED <<locks_held, lock_blocked_threads, pc, arg>>
    BY <1>11 DEF thread_signal
  <2>4. Monitor!Wake({Head(b)}, l, c)
    BY <2>2, <2>3, MonitorWake
  <2>5. Head(b) \in Waiters[<<l, c>>]
    BY <2>2 DEF Waiters
  <2> QED  BY <2>4, <2>5 DEF Monitor!Next, Monitor!Signal
<1>12. ASSUME NEW l \in Locks, NEW c \in Conds, thread_broadcast(l, c)
       PROVE  [Monitor!Next]_(Monitor!mvars)
  <2> DEFINE b == monitor_blocked_threads[<<l, c>>]
  <2>1. /\ monitor_blocked_threads' = [monitor_blocked_threads EXCEPT ![<<l, c>>] = <<>>]
        /\ UNCHANGED <<locks_held, lock_blocked_threads, pc, arg>>
    BY <1>12 DEF thread_broadcast
  <2>2. Elems(<<>>) = Elems(b) \ Elems(b)
    BY EmptyQueue
  <2>3. Monitor!Wake(Elems(b), l, c)
    BY <2>1, <2>2, MonitorWake
  <2>4. Waiters[<<l, c>>] = Elems(b)
    BY DEF Waiters
  <2> QED  BY <2>3, <2>4 DEF Monitor!Next, Monitor!Broadcast
<1> QED
  BY <1>2, <1>3, <1>4, <1>5, <1>6, <1>7, <1>8, <1>9, <1>10, <1>11, <1>12
     DEF Next, LibraryCode, ProgramCall, Terminated, vars, blocking, dispatch, dispatch_exit,
         thread_libinit_out_of_memory, call_without_thread, thread_libinit, thread_create,
         thread_yield, thread_unlock, thread_wait_exit

LEMMA GaveUpNext == PlaceInv /\ WaitersGaveUp /\ [Next]_vars => WaitersGaveUp'
<1> SUFFICES ASSUME PlaceInv, WaitersGaveUp, [Next]_vars PROVE WaitersGaveUp'
  OBVIOUS
<1>1. /\ pc \in [Threads -> {"free", "user", "locking", "waiting", "done"}]
      /\ arg \in [Threads -> Locks \cup {NULL}]
      /\ locks_held \in [Locks -> Threads \cup {NULL}]
      /\ lock_blocked_threads \in [Locks -> Seq(Threads)]
      /\ \A t \in Threads : pc[t] = "waiting" => arg[t] \in Locks
  BY DEF PlaceInv, TypeInv, TypeOK, Calling
<1>2. ASSUME UNCHANGED locks_held,
             \A t \in Threads : pc'[t] = "waiting" => pc[t] = "waiting" /\ arg'[t] = arg[t]
      PROVE  WaitersGaveUp'
  BY <1>2 DEF WaitersGaveUp
<1>3. CASE dispatch
  BY <1>1, <1>2, <1>3 DEF dispatch, blocking
<1>4. CASE thread_lock_return
  BY <1>1, <1>2, <1>4 DEF thread_lock_return, ReturnWithLock, blocking
<1>5. ASSUME NEW l \in Locks, ctx = "thread", thread_lock_helper(l) PROVE WaitersGaveUp'
  <2>1. CASE RefuseHeld(l)
    BY <1>1, <1>2, <2>1 DEF RefuseHeld, blocking
  <2>2. CASE ExitNoReady(l)
    BY <1>2, <2>2 DEF ExitNoReady, blocking
  <2>3. CASE BlockOnLock(l)
    BY <1>1, <1>2, <2>3 DEF BlockOnLock
  <2>4. CASE AcquireFree(l)
    BY <1>1, <2>4, RunningNowhere DEF AcquireFree, ReturnWithLock, WaitersGaveUp
  <2> QED  BY <1>5, <2>1, <2>2, <2>3, <2>4 DEF thread_lock_helper
<1>6. CASE thread_wait_relock
  <2>1. /\ ctx = "thread" /\ pc[running_thread] = "waiting"
        /\ thread_lock_helper(arg[running_thread])
    BY <1>6 DEF thread_wait_relock
  <2> QED  BY <1>1, <1>5, <2>1, RunningNowhere
<1>7. ASSUME NEW t \in Threads, thread_create_helper(t), UNCHANGED <<blocking, arg>>
      PROVE  WaitersGaveUp'
  BY <1>1, <1>2, <1>7 DEF thread_create_helper, blocking
<1>8. CASE thread_wrapper
  BY <1>1, <1>2, <1>8 DEF thread_wrapper, blocking
<1>9. ASSUME NEW l \in Locks, InUserCode, thread_unlock_helper(l),
             \/ UNCHANGED <<pc, arg>>
             \/ /\ pc' = [pc EXCEPT ![running_thread] = "waiting"]
                /\ arg' = [arg EXCEPT ![running_thread] = l]
      PROVE  WaitersGaveUp'
  <2>1. /\ running_thread \in Threads
        /\ locks_held' = [locks_held EXCEPT ![l] = HolderAfterUnlock(l)]
        /\ running_thread \notin Elems(lock_blocked_threads[l])
    BY <1>9, RunningNowhere DEF thread_unlock_helper, InUserCode
  <2>2. \/ HolderAfterUnlock(l) = NULL
        \/ /\ HolderAfterUnlock(l) \in Elems(lock_blocked_threads[l])
           /\ HolderAfterUnlock(l) \in Threads
    <3>1. CASE lock_blocked_threads[l] = <<>>
      BY <3>1 DEF HolderAfterUnlock
    <3>2. CASE lock_blocked_threads[l] # <<>>
      BY <1>1, <3>2, PopQueue DEF HolderAfterUnlock
    <3> QED  BY <3>1, <3>2
  <2>3. /\ HolderAfterUnlock(l) # running_thread
        /\ \A t \in Threads : pc[t] = "waiting" => HolderAfterUnlock(l) # t
    BY <2>1, <2>2, NullAssumption DEF PlaceInv, Suspended, InLockQueue
  <2> QED  BY <1>1, <1>9, <2>1, <2>3 DEF WaitersGaveUp
<1>10. CASE UNCHANGED <<locks_held, pc, arg>>
  BY <1>2, <1>10
<1> QED
  BY <1>3, <1>4, <1>5, <1>6, <1>7, <1>8, <1>9, <1>10
     DEF Next, LibraryCode, ProgramCall, Terminated, vars, blocking, InUserCode, dispatch_exit,
         thread_libinit_out_of_memory, call_without_thread, thread_libinit, thread_create,
         thread_yield, thread_lock, thread_unlock, thread_wait, thread_wait_exit,
         thread_signal, thread_broadcast

\* Whatever its scheduler does, the library is the Mesa monitor: a lock has one
\* holder, thread_wait gives the lock up and starts waiting in one step, and a
\* woken waiter obtains the lock before it continues.
THEOREM LibraryIsMonitor == Spec => ImplementsMonitor
<1>1. Init => PlaceInv /\ WaitersGaveUp
  BY PlaceInit DEF Init, WaitersGaveUp
<1>2. PlaceInv /\ WaitersGaveUp /\ [Next]_vars => (PlaceInv /\ WaitersGaveUp)'
  BY PlaceNext, GaveUpNext
<1>3. Init => Monitor!Init
  <2> SUFFICES ASSUME Init PROVE Monitor!Init
    OBVIOUS
  <2>1. /\ locks_held = [l \in Locks |-> NULL]
        /\ lock_blocked_threads = [l \in Locks |-> <<>>]
        /\ monitor_blocked_threads = [m \in Locks \X Conds |-> <<>>]
        /\ \A t \in Threads : pc[t] = "free"
    BY DEF Init
  <2>2. Contenders = [l \in Locks |-> {}]
    BY <2>1, EmptyQueue DEF Contenders
  <2>3. Waiters = [m \in Locks \X Conds |-> {}]
    BY <2>1, EmptyQueue DEF Waiters
  <2> QED  BY <2>1, <2>2, <2>3 DEF Monitor!Init
<1>4. PlaceInv /\ PlaceInv' /\ WaitersGaveUp /\ [Next]_vars => [Monitor!Next]_(Monitor!mvars)
  BY MonitorNext
<1> QED  BY <1>1, <1>2, <1>3, <1>4, PTL DEF Spec, ImplementsMonitor, Monitor!Spec
=============================================================================
