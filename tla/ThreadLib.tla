------------------------------ MODULE ThreadLib ------------------------------
(***************************************************************************)
(* The user-level thread library of "Coroutine Lib/thread.cc": threads run *)
(* one at a time and give the processor up only inside library calls       *)
(* (swapcontext), so one action is the code between two context switches.  *)
(* The library keeps a FIFO queue of ready threads, locks that are handed  *)
(* from their holder to the first blocked thread, and Mesa monitors (a     *)
(* woken waiter contends for the lock again).                              *)
(*                                                                         *)
(* A thread is named by the address of its Thread object.  An address is   *)
(* reused: "new" may return any address whose object has been deleted.     *)
(***************************************************************************)
EXTENDS Naturals, Sequences

CONSTANTS
  Threads,      \* addresses a Thread object can have
  Locks,        \* lock numbers used by the program
  Conds,        \* condition numbers used by the program
  NULL,         \* the null pointer
  Disciplined   \* TRUE: the program's threads release their locks before
                \* they finish; FALSE: they may finish while holding some

ASSUME NullAssumption == NULL \notin Threads /\ NULL \notin Locks
ASSUME DisciplinedAssumption == Disciplined \in BOOLEAN

VARIABLES
  already_inited, main_thread, running_thread, ready_threads,
  locks_held, lock_blocked_threads, monitor_blocked_threads,
  ctx,    \* whose code executes: the program before thread_libinit took over
          \* ("caller"), the dispatch loop ("main"), a "thread", or nobody:
          \* "exited", "deadlocked" (both exit()), "aborted" (an assert)
  pc,     \* where a thread is, or will continue when it is switched to: in
          \* the "user" function, behind the swapcontext of thread_lock
          \* ("locking") or thread_wait ("waiting"), finished ("done");
          \* "free": no object at this address
  arg,    \* the lock of the thread's suspended call
  owns    \* history: locks the thread was told it holds (calls returned 0)

scheduling == <<already_inited, main_thread, running_thread, ready_threads, ctx>>
blocking   == <<locks_held, lock_blocked_threads, monitor_blocked_threads>>
vars == <<already_inited, main_thread, running_thread, ready_threads,
          locks_held, lock_blocked_threads, monitor_blocked_threads,
          ctx, pc, arg, owns>>

-----------------------------------------------------------------------------
Elems(s) == {s[i] : i \in 1..Len(s)}

Live(t) == pc[t] \in {"user", "locking", "waiting"}

Init ==
  /\ already_inited = FALSE
  /\ main_thread = FALSE
  /\ running_thread = NULL
  /\ ready_threads = <<>>
  /\ locks_held = [l \in Locks |-> NULL]
  /\ lock_blocked_threads = [l \in Locks |-> <<>>]
  /\ monitor_blocked_threads = [m \in Locks \X Conds |-> <<>>]
  /\ ctx = "caller"
  /\ pc = [t \in Threads |-> "free"]
  /\ arg = [t \in Threads |-> NULL]
  /\ owns = [t \in Threads |-> {}]

-----------------------------------------------------------------------------
(* Creation, the dispatch loop and the end of a thread.                    *)

\* Mutant: "new (nothrow)" is not tested, a null pointer is pushed.
thread_create_helper_unchecked(t) ==
  /\ pc[t] = "free"
  /\ ready_threads' = Append(ready_threads, NULL)
  /\ UNCHANGED pc

thread_create_helper(t) ==
  /\ pc[t] = "free"
  /\ pc' = [pc EXCEPT ![t] = "user"]
  /\ ready_threads' = Append(ready_threads, t)

thread_libinit(t) ==
  /\ ctx = "caller"
  /\ ~already_inited
  /\ already_inited' = TRUE
  /\ main_thread' = TRUE
  /\ thread_create_helper(t)
  /\ ctx' = "main"
  /\ UNCHANGED <<running_thread, blocking, arg, owns>>

\* An allocation fails, before or after main_thread is set: -1 to the caller.
thread_libinit_out_of_memory ==
  /\ ctx = "caller"
  /\ ~already_inited
  /\ already_inited' = TRUE
  /\ main_thread' \in BOOLEAN
  /\ UNCHANGED <<running_thread, ready_threads, ctx, blocking, pc, arg, owns>>

\* One round of the loop: the thread that finished is deleted, the first
\* ready thread is switched to.
dispatch ==
  /\ ctx = "main"
  /\ ready_threads # <<>>
  /\ pc' = IF running_thread # NULL
           THEN [pc EXCEPT ![running_thread] = "free"] ELSE pc
  /\ running_thread' = Head(ready_threads)
  /\ ready_threads' = Tail(ready_threads)
  /\ ctx' = "thread"
  /\ UNCHANGED <<already_inited, main_thread, blocking, arg, owns>>

dispatch_exit ==
  /\ ctx = "main"
  /\ ready_threads = <<>>
  /\ main_thread' = FALSE
  /\ ctx' = "exited"
  /\ UNCHANGED <<already_inited, running_thread, ready_threads,
                 blocking, pc, arg, owns>>

InUserCode == ctx = "thread" /\ pc[running_thread] = "user"

\* A call is refused while the library is not initialised: -1, no change.
thread_create(t) ==
  /\ InUserCode \/ (ctx = "caller" /\ already_inited)
  /\ thread_create_helper(t)
  /\ UNCHANGED <<already_inited, main_thread, running_thread, ctx,
                 blocking, arg, owns>>

\* After a failed thread_libinit the calls that need a running thread abort.
call_without_thread ==
  /\ ctx = "caller"
  /\ already_inited
  /\ ctx' = "aborted"
  /\ UNCHANGED <<already_inited, main_thread, running_thread, ready_threads,
                 blocking, pc, arg, owns>>

\* The user function returns; the wrapper switches to the dispatch loop.
thread_wrapper ==
  /\ InUserCode
  /\ Disciplined => owns[running_thread] = {}
  /\ pc' = [pc EXCEPT ![running_thread] = "done"]
  /\ owns' = [owns EXCEPT ![running_thread] = {}]
  /\ ctx' = "main"
  /\ UNCHANGED <<already_inited, main_thread, running_thread, ready_threads,
                 blocking, arg>>

\* Mutants: the yielding thread goes to the front; the last one is taken.
thread_yield_front ==
  /\ InUserCode
  /\ ready_threads # <<>>
  /\ running_thread' = Head(ready_threads)
  /\ ready_threads' = <<running_thread>> \o Tail(ready_threads)
  /\ UNCHANGED <<already_inited, main_thread, ctx, blocking, pc, arg, owns>>
thread_yield_last ==
  /\ InUserCode
  /\ ready_threads # <<>>
  /\ running_thread' = ready_threads[Len(ready_threads)]
  /\ ready_threads' = [ready_threads EXCEPT ![Len(ready_threads)] = running_thread]
  /\ UNCHANGED <<already_inited, main_thread, ctx, blocking, pc, arg, owns>>

\* With no ready thread the call returns at once.
thread_yield ==
  /\ InUserCode
  /\ ready_threads # <<>>
  /\ running_thread' = Head(ready_threads)
  /\ ready_threads' = Append(Tail(ready_threads), running_thread)
  /\ UNCHANGED <<already_inited, main_thread, ctx, blocking, pc, arg, owns>>

-----------------------------------------------------------------------------
(* Locks.                                                                  *)

\* The calling thread goes back to user code, told that it holds l.
ReturnWithLock(l) ==
  /\ pc' = [pc EXCEPT ![running_thread] = "user"]
  /\ arg' = [arg EXCEPT ![running_thread] = NULL]
  /\ owns' = [owns EXCEPT ![running_thread] = @ \cup {l}]

\* Mutant: the lock is taken whoever holds it.
AcquireAny(l) ==
  /\ locks_held[l] # running_thread
  /\ locks_held' = [locks_held EXCEPT ![l] = running_thread]
  /\ ReturnWithLock(l)
  /\ UNCHANGED <<scheduling, lock_blocked_threads, monitor_blocked_threads>>

AcquireFree(l) ==
  /\ locks_held[l] = NULL
  /\ locks_held' = [locks_held EXCEPT ![l] = running_thread]
  /\ ReturnWithLock(l)
  /\ UNCHANGED <<scheduling, lock_blocked_threads, monitor_blocked_threads>>

\* "Lock has been held for running thread, deadlock": -1.
RefuseHeld(l) ==
  /\ locks_held[l] = running_thread
  /\ pc' = [pc EXCEPT ![running_thread] = "user"]
  /\ arg' = [arg EXCEPT ![running_thread] = NULL]
  /\ UNCHANGED <<scheduling, blocking, owns>>

\* Mutant: a stack of blocked threads instead of a queue.
BlockInFront(l) ==
  /\ locks_held[l] \notin {NULL, running_thread}
  /\ ready_threads # <<>>
  /\ lock_blocked_threads' = [lock_blocked_threads EXCEPT ![l] = <<running_thread>> \o @]
  /\ pc' = [pc EXCEPT ![running_thread] = "locking"]
  /\ arg' = [arg EXCEPT ![running_thread] = l]
  /\ running_thread' = Head(ready_threads)
  /\ ready_threads' = Tail(ready_threads)
  /\ UNCHANGED <<already_inited, main_thread, ctx, locks_held,
                 monitor_blocked_threads, owns>>

BlockOnLock(l) ==
  /\ locks_held[l] \notin {NULL, running_thread}
  /\ ready_threads # <<>>
  /\ lock_blocked_threads' = [lock_blocked_threads EXCEPT ![l] = Append(@, running_thread)]
  /\ pc' = [pc EXCEPT ![running_thread] = "locking"]
  /\ arg' = [arg EXCEPT ![running_thread] = l]
  /\ running_thread' = Head(ready_threads)
  /\ ready_threads' = Tail(ready_threads)
  /\ UNCHANGED <<already_inited, main_thread, ctx, locks_held,
                 monitor_blocked_threads, owns>>

ExitNoReady(l) ==
  /\ locks_held[l] \notin {NULL, running_thread}
  /\ ready_threads = <<>>
  /\ ctx' = "deadlocked"
  /\ UNCHANGED <<already_inited, main_thread, running_thread, ready_threads,
                 blocking, pc, arg, owns>>

thread_lock_helper(l) ==
  RefuseHeld(l) \/ AcquireFree(l) \/ BlockOnLock(l) \/ ExitNoReady(l)

thread_lock(l) == InUserCode /\ thread_lock_helper(l)

\* Switched to behind the swapcontext of BlockOnLock: the call returns 0.
thread_lock_return ==
  /\ ctx = "thread"
  /\ pc[running_thread] = "locking"
  /\ ReturnWithLock(arg[running_thread])
  /\ UNCHANGED <<scheduling, blocking>>

\* Mutant: no hand-over, the lock is left free for the thread made ready.
HolderWithoutHandOff(l) == NULL

\* Holder, lock queue and ready queue after the running thread, which holds
\* l, releases it: the first blocked thread gets the lock and becomes ready.
HolderAfterUnlock(l) ==
  IF lock_blocked_threads[l] = <<>> THEN NULL ELSE Head(lock_blocked_threads[l])
ReadyAfterUnlock(l) ==
  IF lock_blocked_threads[l] = <<>> THEN ready_threads
  ELSE Append(ready_threads, Head(lock_blocked_threads[l]))

\* Mutant: the lock is released without a look at the blocked threads.
thread_unlock_helper_no_queue(l) ==
  /\ locks_held[l] = running_thread
  /\ locks_held' = [locks_held EXCEPT ![l] = NULL]
  /\ owns' = [owns EXCEPT ![running_thread] = @ \ {l}]
  /\ UNCHANGED lock_blocked_threads

thread_unlock_helper(l) ==
  /\ locks_held[l] = running_thread
  /\ locks_held' = [locks_held EXCEPT ![l] = HolderAfterUnlock(l)]
  /\ lock_blocked_threads' = IF lock_blocked_threads[l] = <<>> THEN lock_blocked_threads
                             ELSE [lock_blocked_threads EXCEPT ![l] = Tail(@)]
  /\ owns' = [owns EXCEPT ![running_thread] = @ \ {l}]

\* A thread that does not hold l is refused: -1, no change.
thread_unlock(l) ==
  /\ InUserCode
  /\ thread_unlock_helper(l)
  /\ ready_threads' = ReadyAfterUnlock(l)
  /\ UNCHANGED <<already_inited, main_thread, running_thread, ctx,
                 monitor_blocked_threads, pc, arg>>

-----------------------------------------------------------------------------
(* Monitors.                                                               *)

\* The first half of thread_wait, up to its swapcontext.
thread_wait(l, c) ==
  /\ InUserCode
  /\ thread_unlock_helper(l)
  /\ ReadyAfterUnlock(l) # <<>>
  /\ monitor_blocked_threads' =
       [monitor_blocked_threads EXCEPT ![<<l, c>>] = Append(@, running_thread)]
  /\ pc' = [pc EXCEPT ![running_thread] = "waiting"]
  /\ arg' = [arg EXCEPT ![running_thread] = l]
  /\ running_thread' = Head(ReadyAfterUnlock(l))
  /\ ready_threads' = Tail(ReadyAfterUnlock(l))
  /\ UNCHANGED <<already_inited, main_thread, ctx>>

thread_wait_exit(l) ==
  /\ InUserCode
  /\ thread_unlock_helper(l)
  /\ ReadyAfterUnlock(l) = <<>>
  /\ ctx' = "deadlocked"
  /\ UNCHANGED <<already_inited, main_thread, running_thread, ready_threads,
                 monitor_blocked_threads, pc, arg>>

\* Mutant: the woken waiter returns without the lock.
thread_wait_no_relock ==
  /\ ctx = "thread"
  /\ pc[running_thread] = "waiting"
  /\ ReturnWithLock(arg[running_thread])
  /\ UNCHANGED <<scheduling, blocking>>

\* The second half: a woken waiter acquires the lock again, or blocks on it.
thread_wait_relock ==
  /\ ctx = "thread"
  /\ pc[running_thread] = "waiting"
  /\ thread_lock_helper(arg[running_thread])

\* With nobody waiting the call returns at once.
thread_signal(l, c) ==
  /\ InUserCode
  /\ monitor_blocked_threads[<<l, c>>] # <<>>
  /\ ready_threads' = Append(ready_threads, Head(monitor_blocked_threads[<<l, c>>]))
  /\ monitor_blocked_threads' = [monitor_blocked_threads EXCEPT ![<<l, c>>] = Tail(@)]
  /\ UNCHANGED <<already_inited, main_thread, running_thread, ctx, locks_held,
                 lock_blocked_threads, pc, arg, owns>>

\* Mutant: the woken threads are not popped from the monitor's queue.
thread_broadcast_no_pop(l, c) ==
  /\ InUserCode
  /\ monitor_blocked_threads[<<l, c>>] # <<>>
  /\ ready_threads' = ready_threads \o monitor_blocked_threads[<<l, c>>]
  /\ UNCHANGED <<already_inited, main_thread, running_thread, ctx, blocking,
                 pc, arg, owns>>

thread_broadcast(l, c) ==
  /\ InUserCode
  /\ monitor_blocked_threads[<<l, c>>] # <<>>
  /\ ready_threads' = ready_threads \o monitor_blocked_threads[<<l, c>>]
  /\ monitor_blocked_threads' = [monitor_blocked_threads EXCEPT ![<<l, c>>] = <<>>]
  /\ UNCHANGED <<already_inited, main_thread, running_thread, ctx, locks_held,
                 lock_blocked_threads, pc, arg, owns>>

-----------------------------------------------------------------------------
Over == ctx \in {"exited", "deadlocked", "aborted"}
Terminated == Over /\ UNCHANGED vars

\* What the library does by itself when it has the processor.
LibraryCode ==
  dispatch \/ dispatch_exit \/ thread_lock_return \/ thread_wait_relock

\* The calls a program can make.
ProgramCall ==
  \/ thread_libinit_out_of_memory \/ call_without_thread
  \/ \E t \in Threads : thread_libinit(t) \/ thread_create(t)
  \/ thread_wrapper \/ thread_yield
  \/ \E l \in Locks : thread_lock(l) \/ thread_unlock(l) \/ thread_wait_exit(l)
  \/ \E l \in Locks, c \in Conds :
       thread_wait(l, c) \/ thread_signal(l, c) \/ thread_broadcast(l, c)

Next == LibraryCode \/ ProgramCall \/ Terminated

Spec == Init /\ [][Next]_vars

\* The process keeps executing the library's own code.  Nothing is assumed
\* about the threads: what a liveness property needs of them is its premise.
FairSpec == Spec /\ WF_vars(LibraryCode)
=============================================================================
