--------------------------- MODULE ThreadPoolProofs ---------------------------
(***************************************************************************)
(* Proofs that the pool runs every task once and leaves none, and that it  *)
(* loses no wake-up, for any number of workers and tasks.                  *)
(***************************************************************************)
EXTENDS ThreadPool, FiniteSetTheorems, TLAPS

PoolType ==
  /\ stop \in BOOLEAN
  /\ tasks \in Seq(Tasks)
  /\ worker \in [Threads -> {"loop", "idle", "running", "gone"}]
  /\ job \in [Threads -> Tasks \cup {NULL}]
  /\ \A w \in Busy : job[w] \in Tasks
  /\ fresh \subseteq Tasks /\ done \subseteq Tasks
  /\ owner \in {"using", "stopping", "joining", "rid"}

Distinct == \A i, j \in 1..Len(tasks) : tasks[i] = tasks[j] => i = j
Apart ==
  /\ Tasks = fresh \cup Queued \cup Run \cup done
  /\ \A v, w \in Busy : job[v] = job[w] => v = w
  /\ fresh \cap (Queued \cup Run \cup done) = {}
  /\ Queued \cap (Run \cup done) = {}
  /\ Run \cap done = {}

\* A worker leaves when stop is set and nothing is queued; nothing comes any more.
Drained ==
  /\ owner = "using" => ~stop
  /\ \A w \in Threads : worker[w] = "gone" => stop /\ tasks = <<>>
  /\ owner = "rid" => \A w \in Threads : worker[w] = "gone"

PoolInv == PoolType /\ Distinct /\ Apart /\ Drained

\* tasks.emplace: one task more, at the end.
LEMMA Emplaced ==
  ASSUME tasks \in Seq(Tasks), Distinct, NEW k \in Tasks \ Queued, tasks' = Append(tasks, k)
  PROVE  tasks' \in Seq(Tasks) /\ Distinct' /\ Queued' = Queued \cup {k}
<1>1. /\ Len(tasks) \in Nat /\ Len(tasks') = Len(tasks) + 1 /\ tasks' \in Seq(Tasks)
      /\ tasks'[Len(tasks) + 1] = k
      /\ \A i \in 1..Len(tasks) : tasks'[i] = tasks[i]
  OBVIOUS
<1>2. 1..Len(tasks') = (1..Len(tasks)) \cup {Len(tasks) + 1}
  BY <1>1
<1>3. Distinct' /\ Queued' = Queued \cup {k}
  BY <1>1, <1>2 DEF Distinct, Queued
<1> QED  BY <1>1, <1>3

\* front and pop: the first task, and the others in order.
LEMMA Popped ==
  ASSUME tasks \in Seq(Tasks), Distinct, tasks # <<>>, tasks' = Tail(tasks)
  PROVE  /\ tasks' \in Seq(Tasks) /\ Distinct' /\ Head(tasks) \in Tasks
         /\ Queued = Queued' \cup {Head(tasks)} /\ Head(tasks) \notin Queued'
<1>1. /\ Len(tasks) \in Nat \ {0} /\ Len(tasks') = Len(tasks) - 1 /\ tasks' \in Seq(Tasks)
      /\ Head(tasks) = tasks[1] /\ Head(tasks) \in Tasks
      /\ \A i \in 1..(Len(tasks) - 1) : tasks'[i] = tasks[i + 1]
  OBVIOUS
<1>2. Distinct' /\ Head(tasks) \notin Queued'
  BY <1>1 DEF Distinct, Queued
<1>3. Queued = Queued' \cup {Head(tasks)}
  <2>1. ASSUME NEW i \in 1..Len(tasks) PROVE tasks[i] \in Queued' \cup {Head(tasks)}
    <3>1. CASE i = 1
      BY <1>1, <3>1
    <3>2. CASE i # 1
      <4>1. i - 1 \in 1..Len(tasks') /\ tasks'[i - 1] = tasks[i]
        BY <1>1, <3>2
      <4> QED  BY <4>1 DEF Queued
    <3> QED  BY <3>1, <3>2
  <2>2. ASSUME NEW i \in 1..Len(tasks') PROVE tasks'[i] \in Queued
    <3>1. i + 1 \in 1..Len(tasks) /\ tasks'[i] = tasks[i + 1]
      BY <1>1
    <3> QED  BY <3>1 DEF Queued
  <2>3. Head(tasks) \in Queued
    BY <1>1 DEF Queued
  <2> QED  BY <2>1, <2>2, <2>3 DEF Queued
<1> QED  BY <1>1, <1>2, <1>3

LEMMA PoolInitially == PoolInit => PoolInv
<1> SUFFICES ASSUME PoolInit PROVE PoolInv
  OBVIOUS
<1>1. Queued = {} /\ Busy = {} /\ Run = {}
  BY DEF PoolInit, Queued, Busy, Run
<1>2. PoolType
  <2>1. tasks \in Seq(Tasks)
    BY DEF PoolInit
  <2>2. worker \in [Threads -> {"loop", "idle", "running", "gone"}]
    BY DEF PoolInit
  <2>3. job \in [Threads -> Tasks \cup {NULL}]
    BY DEF PoolInit
  <2> QED  BY <1>1, <2>1, <2>2, <2>3 DEF PoolInit, PoolType
<1>3. Distinct
  BY DEF PoolInit, Distinct
<1>4. Apart
  BY <1>1 DEF PoolInit, Apart
<1>5. Drained
  BY DEF PoolInit, Drained
<1> QED  BY <1>2, <1>3, <1>4, <1>5 DEF PoolInv

LEMMA ExecuteKeeps == ASSUME PoolInv, NEW k \in Tasks, execute(k) PROVE PoolInv'
<1> USE DEF PoolInv, PoolType, execute
<1>1. k \notin Queued /\ Busy' = Busy /\ Run' = Run
  BY DEF Apart, Busy, Run
<1>2. tasks' \in Seq(Tasks) /\ Distinct' /\ Queued' = Queued \cup {k}
  BY <1>1, Emplaced
<1>3. PoolType'
  BY <1>1, <1>2
<1>4. Apart'
  BY <1>1, <1>2 DEF Apart
<1>5. Drained'
  BY DEF Drained
<1> QED  BY <1>2, <1>3, <1>4, <1>5

LEMMA TakeTaskKeeps == ASSUME PoolInv, NEW w \in Threads, TakeTask(w) PROVE PoolInv'
<1> USE DEF PoolInv, PoolType, TakeTask, Looks, Becomes
<1>1. /\ tasks' \in Seq(Tasks) /\ Distinct' /\ Head(tasks) \in Tasks
      /\ Queued = Queued' \cup {Head(tasks)} /\ Head(tasks) \notin Queued'
  BY Popped
<1>2. w \notin Busy /\ Busy' = Busy \cup {w}
  BY DEF Busy
<1>3. job'[w] = Head(tasks) /\ \A v \in Busy : job'[v] = job[v]
  BY <1>2 DEF Busy
<1>4. Run' = Run \cup {Head(tasks)}
  BY <1>2, <1>3 DEF Run
<1>5. Head(tasks) \notin Run
  BY <1>1 DEF Apart
<1>6. PoolType'
  BY <1>1, <1>2, <1>3
<1>7. Apart'
  <2>1. \A u, v \in Busy' : job'[u] = job'[v] => u = v
    BY <1>2, <1>3, <1>5 DEF Apart, Run
  <2> QED  BY <1>1, <1>4, <1>5, <2>1 DEF Apart
<1>8. Drained'
  BY DEF Drained
<1> QED  BY <1>1, <1>6, <1>7, <1>8

LEMMA RunTaskKeeps == ASSUME PoolInv, NEW w \in Threads, RunTask(w) PROVE PoolInv'
<1> USE DEF PoolInv, PoolType, RunTask, Becomes
<1>1. w \in Busy /\ Busy' = Busy \ {w} /\ job[w] \in Tasks
  BY DEF Busy
<1>2. \A v \in Busy' : job'[v] = job[v]
  BY <1>1 DEF Busy
<1>3. Run' = Run \ {job[w]}
  BY <1>1, <1>2 DEF Apart, Run
<1>4. job[w] \in Run /\ Queued' = Queued
  BY <1>1 DEF Run, Queued
<1>5. PoolType'
  BY <1>1, <1>2
<1>6. Apart'
  BY <1>1, <1>2, <1>3, <1>4 DEF Apart
<1>7. Distinct' /\ Drained'
  BY DEF Distinct, Drained
<1> QED  BY <1>5, <1>6, <1>7

\* Looking for a task without finding one, sleeping and the destructor change no task.
LEMMA OthersKeep ==
  ASSUME PoolInv, UNCHANGED <<tasks, job, fresh, done>>, Busy' = Busy,
         stop' \in BOOLEAN, worker' \in [Threads -> {"loop", "idle", "running", "gone"}],
         owner' \in {"using", "stopping", "joining", "rid"}, Drained'
  PROVE  PoolInv'
<1>1. Queued' = Queued /\ Run' = Run
  BY DEF Queued, Run
<1> QED  BY <1>1 DEF PoolInv, PoolType, Distinct, Apart

LEMMA PoolStep == PoolInv /\ [PoolNext]_poolVars => PoolInv'
<1> SUFFICES ASSUME PoolInv, [PoolNext]_poolVars PROVE PoolInv'
  OBVIOUS
<1>1. ASSUME NEW k \in Tasks, execute(k) PROVE PoolInv'
  BY <1>1, ExecuteKeeps
<1>2. ASSUME NEW w \in Threads, Work(w) PROVE PoolInv'
  <2>1. CASE TakeTask(w)
    BY <2>1, TakeTaskKeeps
  <2>2. CASE RunTask(w)
    BY <2>2, RunTaskKeeps
  <2>3. CASE Leave(w)
    <3>1. Busy' = Busy /\ Drained'
      BY <2>3 DEF Leave, Looks, Becomes, Busy, Drained, PoolInv, PoolType
    <3> QED  BY <2>3, <3>1, OthersKeep DEF Leave, Becomes, PoolInv, PoolType
  <2>4. CASE FindNothing(w)
    <3>1. Busy' = Busy /\ Drained'
      BY <2>4 DEF FindNothing, Looks, Becomes, Busy, Drained, PoolInv, PoolType
    <3> QED  BY <2>4, <3>1, OthersKeep DEF FindNothing, Becomes, PoolInv, PoolType
  <2>5. CASE SleepIdle(w)
    <3>1. Busy' = Busy /\ Drained'
      BY <2>5 DEF SleepIdle, Becomes, Busy, Drained, PoolInv, PoolType
    <3> QED  BY <2>5, <3>1, OthersKeep DEF SleepIdle, Becomes, PoolInv, PoolType
  <2> QED  BY <1>2, <2>1, <2>2, <2>3, <2>4, <2>5 DEF Work
<1>3. ASSUME NEW w \in Threads, Pool_spurious(w) PROVE PoolInv'
  BY <1>3, OthersKeep DEF Pool_spurious, PoolInv, PoolType, Busy, Drained
<1>4. CASE StopPool
  <2>1. Drained'
    BY <1>4 DEF StopPool, Drained, PoolInv
  <2> QED  BY <1>4, <2>1, OthersKeep DEF StopPool, Busy, PoolInv, PoolType
<1>5. CASE NotifyWorkers
  <2>1. Drained'
    BY <1>5 DEF NotifyWorkers, Drained, PoolInv
  <2> QED  BY <1>5, <2>1, OthersKeep DEF NotifyWorkers, Busy, PoolInv, PoolType
<1>6. CASE JoinWorkers
  <2>1. Drained'
    BY <1>6 DEF JoinWorkers, Drained, PoolInv
  <2> QED  BY <1>6, <2>1, OthersKeep DEF JoinWorkers, Busy, PoolInv, PoolType
<1>7. CASE UNCHANGED poolVars
  BY <1>7, OthersKeep DEF poolVars, Busy, Drained, PoolInv, PoolType
<1> QED  BY <1>1, <1>2, <1>3, <1>4, <1>5, <1>6, <1>7 DEF PoolNext, Ending

LEMMA PoolInvImplies == PoolInv => TasksOnce
<1> SUFFICES ASSUME PoolInv PROVE TasksOnce
  OBVIOUS
<1>1. ASSUME owner = "rid" PROVE done = Tasks \ fresh
  <2>1. PICK w \in Threads : TRUE
    BY TasksAssumption
  <2>2. tasks = <<>> /\ Busy = {}
    BY <1>1, <2>1 DEF PoolInv, Drained, Busy
  <2>3. Queued = {} /\ Run = {}
    BY <2>2 DEF Queued, Run
  <2> QED  BY <2>3 DEF PoolInv, Apart
<1> QED  BY <1>1 DEF PoolInv, Apart, Distinct, TasksOnce

(* Every task given to the pool is run once, and when the destructor has
   returned all have run (execute, the workers and ~ThreadPool of
   threadpool.hpp). *)
THEOREM EveryTaskOnce == PoolSpec => []TasksOnce
BY PoolInitially, PoolStep, PoolInvImplies, PTL DEF PoolSpec

-----------------------------------------------------------------------------
\* The workers up to look for a task.
Lookers == {w \in Threads \ idle : worker[w] = "loop"}

\* Who sleeps sleeps in his loop; who is about to has the mutex and found nothing.
IdleOnes ==
  /\ idle \subseteq {w \in Threads : worker[w] = "loop"}
  /\ \A w \in Threads : worker[w] = "idle" => tasks = <<>>

WakeInv == PoolInv /\ IdleOnes /\ WorkersWoken

LEMMA CountWorkers ==
  ASSUME NEW S, S \subseteq Threads PROVE IsFiniteSet(S) /\ Cardinality(S) \in Nat
BY TasksAssumption, FS_Subset, FS_CardinalityType

LEMMA TasksCount == ASSUME PoolInv PROVE Len(tasks) \in Nat
BY DEF PoolInv, PoolType

\* Nothing is queued, or nobody sleeps: nobody has to be up.
LEMMA NobodyNeeded == ASSUME tasks' = <<>> \/ idle' = {} PROVE WorkersWoken'
<1>1. CASE tasks' = <<>>
  <2>1. Lookers' \subseteq Threads /\ Len(tasks') = 0
    BY <1>1 DEF Lookers
  <2>2. Cardinality(Lookers') \in Nat
    BY <2>1, CountWorkers
  <2>3. Len(tasks') <= Cardinality(Lookers')
    BY <2>1, <2>2
  <2> QED  BY <2>3 DEF WorkersWoken, Lookers
<1>2. CASE idle' = {}
  BY <1>2 DEF WorkersWoken
<1> QED  BY <1>1, <1>2

\* As many tasks and no less workers up.
LEMMA MoreUp ==
  ASSUME WakeInv, UNCHANGED tasks, idle' \subseteq idle, Lookers \subseteq Lookers'
  PROVE  WorkersWoken'
<1>1. Lookers \subseteq Threads /\ Lookers' \subseteq Threads
  BY DEF Lookers
<1>2. Cardinality(Lookers) <= Cardinality(Lookers')
  BY <1>1, CountWorkers, FS_Subset
<1>3. Cardinality(Lookers) \in Nat /\ Cardinality(Lookers') \in Nat /\ Len(tasks) \in Nat
  BY <1>1, CountWorkers, TasksCount DEF WakeInv
<1>4. idle' # {} => Len(tasks) <= Cardinality(Lookers)
  BY DEF WakeInv, WorkersWoken, Lookers
<1>5. idle' # {} => Len(tasks) <= Cardinality(Lookers')
  BY <1>2, <1>3, <1>4
<1> QED  BY <1>5 DEF WorkersWoken, Lookers

\* The worker that is woken makes up for the task that is added.
LEMMA ExecuteWakes == ASSUME WakeInv, NEW k \in Tasks, execute(k) PROVE WorkersWoken'
<1>1. /\ tasks' = Append(tasks, k) /\ worker' = worker
      /\ (idle = {} /\ idle' = {}) \/ \E w \in idle : idle' = idle \ {w}
  BY DEF execute, NotifyOne
<1>2. CASE idle' = {}
  BY <1>2, NobodyNeeded
<1>3. CASE idle' # {}
  <2>1. PICK w \in idle : idle' = idle \ {w}
    BY <1>1, <1>3
  <2>2. w \in Threads /\ worker[w] = "loop"
    BY DEF WakeInv, IdleOnes
  <2>3. Lookers' = Lookers \cup {w} /\ w \notin Lookers /\ Lookers \subseteq Threads
    BY <1>1, <2>1, <2>2 DEF Lookers
  <2>4. Cardinality(Lookers') = Cardinality(Lookers) + 1
    BY <2>3, CountWorkers, FS_AddElement
  <2>5. Cardinality(Lookers) \in Nat /\ Len(tasks) \in Nat
    BY <2>3, CountWorkers, TasksCount DEF WakeInv
  <2>6. Len(tasks') = Len(tasks) + 1
    BY <1>1 DEF WakeInv, PoolInv, PoolType
  <2>7. Len(tasks) <= Cardinality(Lookers)
    BY <2>1 DEF WakeInv, WorkersWoken, Lookers
  <2>8. Len(tasks') <= Cardinality(Lookers')
    BY <2>4, <2>5, <2>6, <2>7
  <2> QED  BY <2>8 DEF WorkersWoken, Lookers
<1> QED  BY <1>2, <1>3

\* A worker that takes a task is one less up, for one task less.
LEMMA TakeTaskWakes == ASSUME WakeInv, NEW w \in Threads, TakeTask(w) PROVE WorkersWoken'
<1>1. /\ worker[w] = "loop" /\ w \notin idle /\ idle' = idle
      /\ tasks # <<>> /\ tasks' = Tail(tasks) /\ worker' = [worker EXCEPT ![w] = "running"]
  BY DEF TakeTask, Looks, Becomes
<1>2. w \in Lookers /\ Lookers' = Lookers \ {w} /\ Lookers \subseteq Threads
  BY <1>1 DEF Lookers, WakeInv, PoolInv, PoolType
<1>3. Cardinality(Lookers') = Cardinality(Lookers) - 1
  BY <1>2, CountWorkers, FS_RemoveElement
<1>4. Cardinality(Lookers) \in Nat /\ Len(tasks) \in Nat
  BY <1>2, CountWorkers, TasksCount DEF WakeInv
<1>5. Len(tasks') = Len(tasks) - 1
  BY <1>1 DEF WakeInv, PoolInv, PoolType
<1>6. idle' # {} => Len(tasks) <= Cardinality(Lookers)
  BY <1>1 DEF WakeInv, WorkersWoken, Lookers
<1>7. idle' # {} => Len(tasks') <= Cardinality(Lookers')
  BY <1>3, <1>4, <1>5, <1>6
<1> QED  BY <1>7 DEF WorkersWoken, Lookers

LEMMA WakeStep == WakeInv /\ [PoolNext]_poolVars => WakeInv'
<1> SUFFICES ASSUME WakeInv, [PoolNext]_poolVars PROVE IdleOnes' /\ WorkersWoken'
  BY PoolStep DEF WakeInv
<1>1. /\ worker \in [Threads -> {"loop", "idle", "running", "gone"}]
      /\ idle \subseteq {w \in Threads : worker[w] = "loop"}
      /\ \A w \in Threads : worker[w] = "idle" => tasks = <<>>
  BY DEF WakeInv, PoolInv, PoolType, IdleOnes
<1>2. ASSUME NEW k \in Tasks, execute(k) PROVE IdleOnes' /\ WorkersWoken'
  <2>1. IdleOnes'
    BY <1>1, <1>2 DEF execute, NotifyOne, LockPool, IdleOnes
  <2> QED  BY <1>2, <2>1, ExecuteWakes
<1>3. ASSUME NEW w \in Threads, TakeTask(w) PROVE IdleOnes' /\ WorkersWoken'
  <2>1. IdleOnes'
    BY <1>1, <1>3 DEF TakeTask, Looks, Becomes, LockPool, IdleOnes
  <2> QED  BY <1>3, <2>1, TakeTaskWakes
<1>4. ASSUME NEW w \in Threads, RunTask(w) PROVE IdleOnes' /\ WorkersWoken'
  <2>1. IdleOnes' /\ idle' = idle /\ tasks' = tasks
    BY <1>1, <1>4 DEF RunTask, Becomes, IdleOnes
  <2>2. Lookers \subseteq Lookers'
    BY <1>1, <1>4 DEF RunTask, Becomes, Lookers
  <2> QED  BY <2>1, <2>2, MoreUp
<1>5. ASSUME NEW w \in Threads, Leave(w) \/ FindNothing(w) PROVE IdleOnes' /\ WorkersWoken'
  <2>1. tasks = <<>> /\ tasks' = <<>>
    BY <1>5 DEF Leave, FindNothing
  <2>2. IdleOnes'
    BY <1>1, <1>5, <2>1 DEF Leave, FindNothing, Looks, Becomes, IdleOnes
  <2> QED  BY <2>1, <2>2, NobodyNeeded
<1>6. ASSUME NEW w \in Threads, SleepIdle(w) PROVE IdleOnes' /\ WorkersWoken'
  <2>1. tasks = <<>> /\ tasks' = <<>>
    BY <1>1, <1>6 DEF SleepIdle
  <2>2. IdleOnes'
    BY <1>1, <1>6, <2>1 DEF SleepIdle, Becomes, IdleOnes
  <2> QED  BY <2>1, <2>2, NobodyNeeded
<1>7. ASSUME NEW w \in Threads, Pool_spurious(w) PROVE IdleOnes' /\ WorkersWoken'
  <2>1. IdleOnes' /\ tasks' = tasks /\ idle' \subseteq idle
    BY <1>1, <1>7 DEF Pool_spurious, IdleOnes
  <2>2. Lookers \subseteq Lookers'
    BY <1>7 DEF Pool_spurious, Lookers
  <2> QED  BY <2>1, <2>2, MoreUp
<1>8. CASE NotifyWorkers
  <2>1. idle' = {} /\ UNCHANGED <<tasks, worker>>
    BY <1>8 DEF NotifyWorkers, NotifyAll
  <2> QED  BY <1>1, <2>1, NobodyNeeded DEF IdleOnes
<1>9. CASE StopPool \/ JoinWorkers \/ UNCHANGED poolVars
  <2>1. UNCHANGED <<tasks, worker, idle>>
    BY <1>9 DEF StopPool, JoinWorkers, poolVars
  <2>2. Lookers' = Lookers
    BY <2>1 DEF Lookers
  <2> QED  BY <1>1, <2>1, <2>2, MoreUp DEF IdleOnes
<1> QED  BY <1>2, <1>3, <1>4, <1>5, <1>6, <1>7, <1>8, <1>9 DEF PoolNext, Work, Ending

\* While a worker sleeps, as many are up to look for a task as there are tasks
\* (execute and the workers of threadpool.hpp).
THEOREM NoTaskForgotten == PoolSpec => []WorkersWoken
<1>1. PoolInit => WakeInv
  BY PoolInitially DEF PoolInit, WakeInv, IdleOnes, WorkersWoken
<1> QED  BY <1>1, WakeStep, PTL DEF PoolSpec, WakeInv
=============================================================================
