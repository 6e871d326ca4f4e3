----------------------------- MODULE ThreadPool -----------------------------
(***************************************************************************)
(* The thread pool of threadpool.hpp.  Workers lock the mutex to look for a *)
(* task; the destructor sets stop and notifies without it, and so it may   *)
(* come between the test of a worker and its sleep.                        *)
(***************************************************************************)
EXTENDS Integers, Sequences, FiniteSets, CondVar

CONSTANT Tasks   \* what is given to execute, each task once
\* A pool without workers runs nothing, and its destructor leaves what is queued.
ASSUME TasksAssumption == NULL \notin Tasks /\ Threads # {} /\ IsFiniteSet(Threads)

VARIABLES
  stop,
  tasks,     \* the queue
  worker,    \* of each thread: "loop" (about to lock the mutex and test, or
             \* asleep), "idle" (the test failed, mutex locked), "running", "gone"
  idle,      \* the threads asleep on cv
  job,       \* the task of each running worker, NULL of the others
  fresh,     \* history: tasks not given to execute
  done,      \* history: tasks that have run
  owner,     \* the owner of the pool: "using", "stopping", "joining", "rid" of it
  late       \* history: a worker fell asleep after stop was set

poolVars == <<stop, tasks, worker, idle, job, fresh, done, owner, late>>

PoolInit ==
  /\ stop = FALSE
  /\ tasks = <<>>
  /\ worker = [w \in Threads |-> "loop"]
  /\ idle = {}
  /\ job = [w \in Threads |-> NULL]
  /\ fresh = Tasks
  /\ done = {}
  /\ owner = "using"
  /\ late = FALSE

LockPool == \A w \in Threads : worker[w] # "idle"
Looks(w) == worker[w] = "loop" /\ w \notin idle /\ LockPool
Becomes(w, state) == worker' = [worker EXCEPT ![w] = state]

\* Mutant: no worker is notified.
execute_silent(k) ==
  /\ owner = "using" /\ LockPool /\ k \in fresh
  /\ tasks' = Append(tasks, k)
  /\ fresh' = fresh \ {k}
  /\ UNCHANGED <<stop, worker, idle, job, done, owner, late>>

\* assert(!stop) holds: the destructor is called when nobody calls execute.
execute(k) ==
  /\ owner = "using" /\ LockPool /\ k \in fresh
  /\ tasks' = Append(tasks, k)
  /\ fresh' = fresh \ {k}
  /\ idle' \in NotifyOne(idle)
  /\ UNCHANGED <<stop, worker, job, done, owner, late>>

\* Mutant: the task stays in the queue.
TakeTask_no_pop(w) ==
  /\ Looks(w) /\ tasks # <<>>
  /\ job' = [job EXCEPT ![w] = Head(tasks)]
  /\ Becomes(w, "running")
  /\ UNCHANGED <<stop, tasks, idle, fresh, done, owner, late>>

TakeTask(w) ==
  /\ Looks(w) /\ tasks # <<>>
  /\ job' = [job EXCEPT ![w] = Head(tasks)]
  /\ tasks' = Tail(tasks)
  /\ Becomes(w, "running")
  /\ UNCHANGED <<stop, idle, fresh, done, owner, late>>

RunTask(w) ==
  /\ worker[w] = "running"
  /\ done' = done \cup {job[w]}
  /\ job' = [job EXCEPT ![w] = NULL]
  /\ Becomes(w, "loop")
  /\ UNCHANGED <<stop, tasks, idle, fresh, owner, late>>

Leave(w) ==
  /\ Looks(w) /\ tasks = <<>> /\ stop
  /\ Becomes(w, "gone")
  /\ UNCHANGED <<stop, tasks, idle, job, fresh, done, owner, late>>

FindNothing(w) ==
  /\ Looks(w) /\ tasks = <<>> /\ ~stop
  /\ Becomes(w, "idle")
  /\ UNCHANGED <<stop, tasks, idle, job, fresh, done, owner, late>>

SleepIdle(w) ==
  /\ worker[w] = "idle"
  /\ idle' = idle \cup {w}
  /\ Becomes(w, "loop")
  /\ late' = (late \/ stop)
  /\ UNCHANGED <<stop, tasks, job, fresh, done, owner>>

Pool_spurious(w) ==
  /\ w \in idle
  /\ idle' = idle \ {w}
  /\ UNCHANGED <<stop, tasks, worker, job, fresh, done, owner, late>>

\* The destructor.
StopPool ==
  /\ owner = "using"
  /\ stop' = TRUE
  /\ owner' = "stopping"
  /\ UNCHANGED <<tasks, worker, idle, job, fresh, done, late>>

\* Mutant: one worker is notified.
NotifyWorkers_one ==
  /\ owner = "stopping"
  /\ idle' \in NotifyOne(idle)
  /\ owner' = "joining"
  /\ UNCHANGED <<stop, tasks, worker, job, fresh, done, late>>

NotifyWorkers ==
  /\ owner = "stopping"
  /\ idle' \in NotifyAll(idle)
  /\ owner' = "joining"
  /\ UNCHANGED <<stop, tasks, worker, job, fresh, done, late>>

JoinWorkers ==
  /\ owner = "joining" /\ \A w \in Threads : worker[w] = "gone"
  /\ owner' = "rid"
  /\ UNCHANGED <<stop, tasks, worker, idle, job, fresh, done, late>>

Work(w) == TakeTask(w) \/ RunTask(w) \/ Leave(w) \/ FindNothing(w) \/ SleepIdle(w)
Ending == NotifyWorkers \/ JoinWorkers

PoolNext ==
  \/ \E k \in Tasks : execute(k)
  \/ \E w \in Threads : Work(w) \/ Pool_spurious(w)
  \/ StopPool \/ Ending

PoolSpec == PoolInit /\ [][PoolNext]_poolVars

\* Workers and the destructor go on when they can, and tasks end.
PoolFairness == WF_poolVars(Ending) /\ \A w \in Threads : WF_poolVars(Work(w))

-----------------------------------------------------------------------------
Queued == {tasks[i] : i \in 1..Len(tasks)}
Busy == {w \in Threads : worker[w] = "running"}
Run == {job[w] : w \in Busy}

(* Every task is run once: it is not yet given to the pool, in the queue at one
   place, run by one worker, or has run, and only one of these; and when the
   destructor has returned, everything given to the pool has run
   (threadpool.hpp:30-34, 48-62). *)
TasksOnce ==
  /\ Tasks = fresh \cup Queued \cup Run \cup done
  /\ \A i, j \in 1..Len(tasks) : tasks[i] = tasks[j] => i = j
  /\ \A v, w \in Busy : job[v] = job[w] => v = w
  /\ fresh \cap (Queued \cup Run \cup done) = {}
  /\ Queued \cap (Run \cup done) = {}
  /\ Run \cap done = {}
  /\ owner = "rid" => done = Tasks \ fresh

(* While a worker sleeps there are as many workers up to look for a task as
   there are tasks (threadpool.hpp:29-33, 48-51). *)
WorkersWoken ==
  idle # {} => Len(tasks) <= Cardinality({w \in Threads \ idle : worker[w] = "loop"})

(* The destructor returns, unless a worker falls asleep after stop was set:
   it had tested stop before, has missed notify_all, and the destructor joins
   it for ever (threadpool.hpp:30, 56-60). *)
PoolEnds == owner = "stopping" ~> owner = "rid" \/ late
=============================================================================
