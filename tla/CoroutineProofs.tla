--------------------------- MODULE CoroutineProofs ---------------------------
(***************************************************************************)
(* Proofs about the coroutines, for any sizes and frames: the count of     *)
(* slots, the status of the running coroutine, and the frames on the       *)
(* common stack.                                                           *)
(***************************************************************************)
EXTENDS CoroutineProperties, FiniteSetTheorems, TLAPS

Coroutines == [status : {"READY", "RUNNING", "SUSPEND"},
               cap : 0..STACK_SIZE, size : 0..STACK_SIZE,
               stack : Seq(Values), sp : 0..STACK_SIZE]

CoType ==
  /\ nco \in Nat /\ cap \in Nat \ {0} /\ cap <= MaxCap /\ sp \in 0..STACK_SIZE
  /\ running \in {-1} \cup 0..(cap - 1)
  /\ co \in [0..(cap - 1) -> Coroutines \cup {NULL}]
  /\ stack \in [1..STACK_SIZE -> Values]
  /\ frames \in [0..(MaxCap - 1) -> Seq(Values)]
  /\ phase \in {"open", "closed", "aborted"}

\* OneRunning, slot by slot.
RunsAlone ==
  phase # "closed" =>
    /\ running # -1 => running \in Used
    /\ \A id \in Used : co[id].status = "RUNNING" <=> id = running

\* What the library keeps of a coroutine and the frames it should have.
Kept(c, f) ==
  /\ c.size <= c.cap /\ Len(c.stack) = c.size
  /\ c.status = "READY" => f = <<>>
  /\ c.status = "SUSPEND" =>
       c.sp = Len(f) /\ c.size = Len(f) /\ \A i \in 1..Len(f) : c.stack[i] = f[i]

\* The stack mem, of which n frames are in use, holds the frames f.
OnStack(mem, n, f) == n = Len(f) /\ \A i \in 1..Len(f) : mem[i] = f[i]

FramesKept ==
  /\ \A id \in Used : Kept(co[id], frames[id])
  /\ phase # "closed" => \A id \in (0..(MaxCap - 1)) \ Used : frames[id] = <<>>
  /\ phase # "closed" /\ running # -1 => OnStack(stack, sp, frames[running])

CoInv == CoType /\ NcoCounts /\ RunsAlone /\ FramesKept

-----------------------------------------------------------------------------
LEMMA NullIsNone == NULL \notin Coroutines
BY NullAssumption DEF Coroutines

LEMMA NewIsOne == _co_new \in Coroutines /\ Kept(_co_new, <<>>) /\ _co_new.status = "READY"
<1>1. 0 \in 0..STACK_SIZE /\ <<>> \in Seq(Values)
  BY SizeAssumption
<1> QED  BY <1>1 DEF _co_new, Coroutines, Kept

LEMMA ProbeInside == ASSUME CoType, NEW i \in Nat PROVE Probe(i) \in 0..(cap - 1)
<1>1. i + nco \in Nat /\ cap \in Nat \ {0}
  BY DEF CoType
<1> QED  BY <1>1 DEF Probe

\* Used slots are finitely many, so taking or leaving one counts.
LEMMA UsedFinite ==
  ASSUME CoType PROVE IsFiniteSet(Used) /\ Cardinality(Used) \in Nat /\ Used \subseteq 0..(cap - 1)
<1>1. DOMAIN co = 0..(cap - 1) /\ 0 \in Int /\ cap - 1 \in Int
  BY DEF CoType
<1>2. Used \subseteq 0..(cap - 1)
  BY <1>1 DEF Used
<1>3. IsFiniteSet(Used)
  BY <1>1, <1>2, FS_Interval, FS_Subset
<1> QED  BY <1>2, <1>3, FS_CardinalityType

LEMMA UsedIs ==
  ASSUME CoType, NEW id \in Used
  PROVE  /\ co[id] \in Coroutines /\ id \in 0..(cap - 1)
         /\ id \in 0..(MaxCap - 1) /\ frames[id] \in Seq(Values)
<1>1. co[id] \in Coroutines /\ id \in 0..(cap - 1)
  BY DEF Used, CoType
<1>2. 0..(cap - 1) \subseteq 0..(MaxCap - 1)
  BY SizeAssumption DEF CoType
<1> QED  BY <1>1, <1>2 DEF CoType

-----------------------------------------------------------------------------
LEMMA CoInitially == Init => CoInv
<1> SUFFICES ASSUME Init PROVE CoInv
  OBVIOUS
<1>1. Used = {}
  BY DEF Init, Used
<1>2. CoType
  BY SizeAssumption DEF Init, CoType
<1>3. NcoCounts
  BY <1>1, FS_EmptySet DEF Init, NcoCounts
<1>4. RunsAlone /\ FramesKept
  BY <1>1 DEF Init, RunsAlone, FramesKept
<1> QED  BY <1>2, <1>3, <1>4 DEF CoInv

\* A free slot gets a new coroutine.
LEMMA NewInSlot ==
  ASSUME CoInv, NEW id, CoType', id \notin Used, Used' = Used \cup {id},
         co'[id] = _co_new, \A j \in Used : co'[j] = co[j],
         nco' = nco + 1, phase = "open", UNCHANGED <<running, stack, sp, frames, phase>>
  PROVE  CoInv'
<1>1. NcoCounts'
  <2>1. Cardinality(Used') = Cardinality(Used) + 1
    BY UsedFinite, FS_AddElement DEF CoInv
  <2> QED  BY <2>1 DEF CoInv, NcoCounts
<1>2. id \in 0..(MaxCap - 1)
  <2>1. DOMAIN co' = 0..(cap' - 1) /\ cap' \in Nat /\ cap' <= MaxCap
    BY DEF CoType
  <2>2. id \in DOMAIN co'
    BY DEF Used
  <2> QED  BY <2>1, <2>2, SizeAssumption
<1>3. RunsAlone'
  <2>1. id # running
    BY <1>2 DEF CoInv, RunsAlone
  <2> QED  BY <2>1, NewIsOne DEF CoInv, RunsAlone
<1>4. FramesKept'
  <2>1. frames[id] = <<>>
    BY <1>2 DEF CoInv, FramesKept
  <2> QED  BY <2>1, NewIsOne DEF CoInv, FramesKept, OnStack
<1> QED  BY <1>1, <1>3, <1>4 DEF CoInv

LEMMA NewKeeps == ASSUME CoInv, coroutine_new PROVE CoInv'
<1>1. CASE GrowAndPut
  <2>1. /\ cap \in Nat /\ cap' \in Nat \ {0} /\ cap' <= MaxCap
        /\ cap < cap' /\ cap' = 2 * cap
    BY <1>1, SizeAssumption DEF CoInv, CoType, GrowAndPut
  <2>2. co' = [id \in 0..(cap' - 1) |->
                 IF id < cap THEN co[id] ELSE IF id = cap THEN _co_new ELSE NULL]
    BY <1>1 DEF GrowAndPut
  <2>3. /\ DOMAIN co = 0..(cap - 1) /\ DOMAIN co' = 0..(cap' - 1)
        /\ \A id \in 0..(cap - 1) : id \in 0..(cap' - 1) /\ co'[id] = co[id]
        /\ cap \in 0..(cap' - 1) /\ co'[cap] = _co_new
        /\ \A id \in 0..(cap' - 1) : id \in 0..(cap - 1) \/ id = cap \/ co'[id] = NULL
    BY <2>1, <2>2 DEF CoInv, CoType
  <2>4. cap \notin Used /\ Used' = Used \cup {cap}
    <3>1. cap \notin 0..(cap - 1)
      BY <2>1
    <3> QED  BY <2>3, <3>1, NullIsNone, NewIsOne DEF Used
  <2>5. co' \in [0..(cap' - 1) -> Coroutines \cup {NULL}]
    BY <2>1, <2>2, NewIsOne DEF CoInv, CoType
  <2>6. running \in {-1} \cup 0..(cap' - 1)
    BY <2>3 DEF CoInv, CoType
  <2>7. CoType'
    BY <1>1, <2>1, <2>5, <2>6 DEF CoInv, CoType, coroutine_new, GrowAndPut
  <2>8. \A j \in Used : co'[j] = co[j]
    BY <2>3 DEF Used
  <2> QED  BY <1>1, <2>3, <2>4, <2>7, <2>8, NewInSlot DEF coroutine_new, GrowAndPut
<1>2. CASE PutInFreeSlot
  <2>1. PICK i \in 0..(cap - 1) :
          co[Probe(i)] = NULL /\ co' = [co EXCEPT ![Probe(i)] = _co_new]
    BY <1>2 DEF PutInFreeSlot
  <2> DEFINE id == Probe(i)
  <2>2. i \in Nat
    BY DEF CoInv, CoType
  <2>3. id \in 0..(cap - 1)
    BY <2>2, ProbeInside DEF CoInv
  <2> HIDE DEF id
  <2>4. /\ co[id] = NULL /\ co' = [co EXCEPT ![id] = _co_new]
        /\ nco' = nco + 1 /\ phase = "open"
        /\ UNCHANGED <<cap, phase, running, stack, sp, frames>>
    BY <1>2, <2>1 DEF id, PutInFreeSlot, coroutine_new
  <2>5. CoType'
    BY <2>3, <2>4, NewIsOne DEF CoInv, CoType
  <2>6. id \notin Used /\ Used' = Used \cup {id}
    BY <2>3, <2>4, NullIsNone, NewIsOne DEF CoInv, CoType, Used
  <2>7. co'[id] = _co_new /\ \A j \in Used : co'[j] = co[j]
    BY <2>3, <2>4, <2>6 DEF CoInv, CoType, Used
  <2> QED  BY <2>4, <2>5, <2>6, <2>7, NewInSlot
<1>3. CASE NoSlot
  BY <1>3 DEF NoSlot, coroutine_new, CoInv, CoType, NcoCounts, RunsAlone, FramesKept,
              Used, OnStack
<1> QED  BY <1>1, <1>2, <1>3 DEF coroutine_new

-----------------------------------------------------------------------------
\* What is known of the coroutine that runs.
LEMMA RunningOne ==
  ASSUME CoInv, phase = "open", running # -1
  PROVE  /\ running \in Used /\ co[running] \in Coroutines
         /\ running \in 0..(cap - 1) /\ running \in 0..(MaxCap - 1)
         /\ frames[running] \in Seq(Values)
         /\ OnStack(stack, sp, frames[running]) /\ Kept(co[running], frames[running])
         /\ \A id \in Used : id # running => co[id].status # "RUNNING"
BY UsedIs DEF CoInv, RunsAlone, FramesKept

\* A slot in use is given another coroutine.
LEMMA SlotChanges ==
  ASSUME CoType, NEW id \in Used, NEW c \in Coroutines, co' = [co EXCEPT ![id] = c]
  PROVE  /\ Used' = Used /\ co' \in [0..(cap - 1) -> Coroutines \cup {NULL}]
         /\ co'[id] = c /\ \A j \in Used : j # id => co'[j] = co[j]
<1>1. DOMAIN co = 0..(cap - 1) /\ id \in DOMAIN co
  BY DEF CoType, Used
<1> QED  BY <1>1, NullIsNone DEF CoType, Used

LEMMA ResumeKeeps ==
  ASSUME CoInv, NEW id \in DOMAIN co, coroutine_resume(id) PROVE CoInv'
<1> DEFINE c == [co[id] EXCEPT !.status = "RUNNING"]
<1>1. /\ phase = "open" /\ running = -1 /\ running' = id
      /\ id \in Used /\ co' = [co EXCEPT ![id] = c]
      /\ UNCHANGED <<nco, cap, phase, frames>>
  BY DEF coroutine_resume, Used
<1>2. /\ co[id] \in Coroutines /\ id \in 0..(cap - 1) /\ frames[id] \in Seq(Values)
      /\ Kept(co[id], frames[id])
  BY <1>1, UsedIs DEF CoInv, FramesKept
<1>3. c \in Coroutines /\ c.status = "RUNNING" /\ Kept(c, frames[id])
  BY <1>2 DEF Coroutines, Kept
<1> HIDE DEF c
<1>4. /\ Used' = Used /\ co' \in [0..(cap - 1) -> Coroutines \cup {NULL}]
      /\ co'[id] = c /\ \A j \in Used : j # id => co'[j] = co[j]
  BY <1>1, <1>3, SlotChanges DEF CoInv
<1>5. stack' \in [1..STACK_SIZE -> Values] /\ sp' \in 0..STACK_SIZE /\ OnStack(stack', sp', frames[id])
  <2>1. CASE Start(id)
    <3>1. frames[id] = <<>> /\ sp' = 0 /\ stack' = stack
      BY <1>2, <2>1 DEF Kept, Start
    <3> QED  BY <1>1, <3>1, SizeAssumption DEF OnStack, CoInv, CoType
  <2>2. CASE Restore(id)
    <3> DEFINE size == co[id].size
    <3>1. /\ size \in 0..STACK_SIZE /\ co[id].stack \in Seq(Values) /\ Len(co[id].stack) = size
          /\ size = Len(frames[id]) /\ co[id].sp = size
          /\ \A i \in 1..size : co[id].stack[i] = frames[id][i]
      BY <1>2, <2>2 DEF Kept, Coroutines, Restore
    <3>2. /\ sp' = size
          /\ stack' = [i \in 1..STACK_SIZE |->
                         IF i <= size THEN co[id].stack[i] ELSE stack[i]]
      BY <2>2, <3>1 DEF Restore
    <3>3. \A i \in 1..size : i \in 1..STACK_SIZE /\ i <= size /\ co[id].stack[i] \in Values
      BY <3>1, SizeAssumption
    <3> HIDE DEF size
    <3>4. stack' \in [1..STACK_SIZE -> Values]
      <4>1. \A i \in 1..STACK_SIZE : i <= size => i \in 1..size
        BY <3>1, SizeAssumption
      <4> QED  BY <3>2, <3>3, <4>1 DEF CoInv, CoType
    <3>5. \A i \in 1..size : stack'[i] = frames[id][i]
      BY <3>1, <3>2, <3>3
    <3> QED  BY <1>1, <3>1, <3>2, <3>4, <3>5 DEF OnStack
  <2> QED  BY <2>1, <2>2 DEF coroutine_resume
<1>6. CoType'
  BY <1>1, <1>2, <1>4, <1>5 DEF CoInv, CoType
<1>7. NcoCounts'
  BY <1>1, <1>4 DEF CoInv, NcoCounts
<1>8. RunsAlone'
  <2>1. \A j \in Used : j # -1
    BY UsedIs DEF CoInv, CoType
  <2> QED  BY <1>1, <1>3, <1>4, <2>1 DEF CoInv, RunsAlone
<1>9. FramesKept'
  BY <1>1, <1>3, <1>4, <1>5 DEF CoInv, FramesKept
<1> QED  BY <1>6, <1>7, <1>8, <1>9 DEF CoInv

\* The copy that is made is all the coroutine has on the stack.
LEMMA YieldKeeps == ASSUME CoInv, coroutine_yield PROVE CoInv'
<1> DEFINE old == co[running]
           c == [status |-> "SUSPEND",
                 cap |-> IF old.cap < sp THEN sp ELSE old.cap,
                 size |-> sp, stack |-> [i \in 1..sp |-> stack[i]], sp |-> sp]
<1>1. /\ phase = "open" /\ running # -1 /\ running' = -1 /\ sp' = 0
      /\ co' = [co EXCEPT ![running] = c]
      /\ UNCHANGED <<nco, cap, stack, phase, frames>>
  BY DEF coroutine_yield
<1>2. /\ running \in Used /\ old \in Coroutines
      /\ frames[running] \in Seq(Values) /\ OnStack(stack, sp, frames[running])
      /\ \A id \in Used : id # running => co[id].status # "RUNNING"
  BY <1>1, RunningOne
<1>3. c \in Coroutines /\ c.status = "SUSPEND" /\ Kept(c, frames[running])
  <2>1. sp \in 0..STACK_SIZE /\ STACK_SIZE \in Nat /\ old.cap \in 0..STACK_SIZE
    BY <1>2, SizeAssumption DEF CoInv, CoType, Coroutines
  <2> DEFINE copy == [i \in 1..sp |-> stack[i]]
  <2>2. \A i \in 1..sp : stack[i] \in Values
    BY <2>1 DEF CoInv, CoType
  <2>3. copy \in Seq(Values) /\ Len(copy) = sp /\ \A i \in 1..sp : copy[i] = stack[i]
    BY <2>1, <2>2
  <2> HIDE DEF copy
  <2>4. /\ c.status = "SUSPEND" /\ c.size = sp /\ c.sp = sp /\ c.stack = copy
        /\ c.cap = IF old.cap < sp THEN sp ELSE old.cap
    BY DEF copy
  <2>5. c \in Coroutines
    BY <2>1, <2>3 DEF Coroutines, copy
  <2>6. c.cap \in Nat /\ c.size <= c.cap
    BY <2>1, <2>4
  <2> QED  BY <1>2, <2>3, <2>4, <2>5, <2>6 DEF Kept, OnStack
<1> HIDE DEF c
<1>4. /\ Used' = Used /\ co' \in [0..(cap - 1) -> Coroutines \cup {NULL}]
      /\ co'[running] = c /\ \A j \in Used : j # running => co'[j] = co[j]
  BY <1>1, <1>2, <1>3, SlotChanges DEF CoInv
<1>5. CoType'
  BY <1>1, <1>4, SizeAssumption DEF CoInv, CoType
<1>6. NcoCounts'
  BY <1>1, <1>4 DEF CoInv, NcoCounts
<1>7. RunsAlone'
  <2>1. \A j \in Used : j # -1
    BY UsedIs DEF CoInv, CoType
  <2> QED  BY <1>1, <1>2, <1>3, <1>4, <2>1 DEF RunsAlone
<1>8. FramesKept'
  BY <1>1, <1>3, <1>4 DEF CoInv, FramesKept
<1> QED  BY <1>5, <1>6, <1>7, <1>8 DEF CoInv

LEMMA MainfuncKeeps == ASSUME CoInv, mainfunc PROVE CoInv'
<1>1. /\ phase = "open" /\ running # -1 /\ running' = -1 /\ sp' = 0
      /\ co' = [co EXCEPT ![running] = NULL] /\ nco' = nco - 1
      /\ frames' = [frames EXCEPT ![running] = <<>>]
      /\ UNCHANGED <<cap, stack, phase>>
  BY DEF mainfunc
<1>2. /\ running \in Used /\ running \in 0..(cap - 1) /\ running \in 0..(MaxCap - 1)
      /\ \A id \in Used : id # running => co[id].status # "RUNNING"
  BY <1>1, RunningOne
<1>3. /\ Used' = Used \ {running} /\ co' \in [0..(cap - 1) -> Coroutines \cup {NULL}]
      /\ \A id \in Used' : co'[id] = co[id] /\ frames'[id] = frames[id]
  <2>1. DOMAIN co = 0..(cap - 1) /\ DOMAIN co' = DOMAIN co
    BY <1>1 DEF CoInv, CoType
  <2>2. Used' = Used \ {running}
    BY <1>1, <1>2, <2>1 DEF Used
  <2>3. co' \in [0..(cap - 1) -> Coroutines \cup {NULL}]
    BY <1>1 DEF CoInv, CoType
  <2>4. \A id \in Used' : id # running /\ id \in DOMAIN co /\ id \in DOMAIN frames
    BY <2>2, UsedIs DEF CoInv, CoType
  <2> QED  BY <1>1, <2>1, <2>2, <2>3, <2>4
<1>4. frames' \in [0..(MaxCap - 1) -> Seq(Values)] /\ frames'[running] = <<>>
      /\ \A id \in 0..(MaxCap - 1) : id # running => frames'[id] = frames[id]
  <2>1. <<>> \in Seq(Values)
    OBVIOUS
  <2> QED  BY <1>1, <1>2, <2>1 DEF CoInv, CoType
<1>5. nco' \in Nat /\ nco' = Cardinality(Used')
  <2>1. Cardinality(Used') = Cardinality(Used) - 1
    BY <1>2, <1>3, UsedFinite, FS_RemoveElement DEF CoInv
  <2>2. IsFiniteSet(Used')
    BY <1>3, UsedFinite, FS_RemoveElement DEF CoInv
  <2>3. nco = Cardinality(Used)
    BY <1>1 DEF CoInv, NcoCounts
  <2> QED  BY <1>1, <2>1, <2>2, <2>3, FS_CardinalityType
<1>6. CoType'
  BY <1>1, <1>3, <1>4, <1>5, SizeAssumption DEF CoInv, CoType
<1>7. NcoCounts' /\ RunsAlone'
  <2>1. \A j \in Used : j # -1
    BY UsedIs DEF CoInv, CoType
  <2> QED  BY <1>1, <1>2, <1>3, <1>5, <2>1 DEF NcoCounts, RunsAlone
<1>8. FramesKept'
  BY <1>1, <1>3, <1>4 DEF CoInv, FramesKept
<1> QED  BY <1>6, <1>7, <1>8 DEF CoInv

LEMMA CloseKeeps == ASSUME CoInv, coroutine_close PROVE CoInv'
<1>1. Used' = {}
  BY DEF coroutine_close, Used
<1>2. CoType'
  BY DEF CoInv, CoType, coroutine_close
<1> QED  BY <1>1, <1>2 DEF CoInv, coroutine_close, NcoCounts, RunsAlone, FramesKept

LEMMA PushKeeps == ASSUME CoInv, NEW v \in Values, Push(v) PROVE CoInv'
<1> DEFINE f == frames[running]
<1>1. /\ phase = "open" /\ running # -1 /\ sp < STACK_SIZE
      /\ stack' = [stack EXCEPT ![sp + 1] = v] /\ sp' = sp + 1
      /\ frames' = [frames EXCEPT ![running] = Append(f, v)]
      /\ UNCHANGED <<nco, cap, running, co, phase>>
  BY DEF Push
<1>2. /\ running \in Used /\ running \in 0..(MaxCap - 1) /\ f \in Seq(Values)
      /\ OnStack(stack, sp, f) /\ Kept(co[running], f) /\ co[running].status = "RUNNING"
  BY <1>1, RunningOne DEF CoInv, RunsAlone
<1> HIDE DEF f
<1>3. sp + 1 \in 1..STACK_SIZE /\ sp' \in 0..STACK_SIZE /\ sp \in Nat
  BY <1>1, SizeAssumption DEF CoInv, CoType
<1>4. OnStack(stack', sp', Append(f, v))
  <2>1. Len(Append(f, v)) = sp + 1 /\ Append(f, v)[sp + 1] = v
        /\ \A i \in 1..sp : Append(f, v)[i] = f[i] /\ f[i] = stack[i]
    BY <1>2, <1>3 DEF OnStack
  <2>2. stack'[sp + 1] = v /\ \A i \in 1..sp : stack'[i] = stack[i]
    BY <1>1, <1>3, SizeAssumption DEF CoInv, CoType
  <2>3. \A i \in 1..(sp + 1) : i \in 1..sp \/ i = sp + 1
    BY <1>3
  <2> QED  BY <1>1, <2>1, <2>2, <2>3 DEF OnStack
<1>5. Append(f, v) \in Seq(Values)
  BY <1>2
<1>6. /\ frames' \in [0..(MaxCap - 1) -> Seq(Values)] /\ frames'[running] = Append(f, v)
      /\ \A id \in 0..(MaxCap - 1) : id # running => frames'[id] = frames[id]
  BY <1>1, <1>2, <1>5 DEF CoInv, CoType
<1>7. CoType'
  BY <1>1, <1>3, <1>6 DEF CoInv, CoType
<1>8. Used' = Used /\ NcoCounts' /\ RunsAlone'
  BY <1>1 DEF CoInv, Used, NcoCounts, RunsAlone
<1>9. Kept(co[running], Append(f, v))
  BY <1>2 DEF Kept
<1>10. FramesKept'
  <2>1. \A id \in Used : Kept(co[id], frames'[id])
    BY <1>6, <1>9, UsedIs DEF CoInv, FramesKept
  <2>2. \A id \in (0..(MaxCap - 1)) \ Used : frames'[id] = <<>>
    BY <1>1, <1>2, <1>6 DEF CoInv, FramesKept
  <2> QED  BY <1>1, <1>4, <1>6, <1>8, <2>1, <2>2 DEF FramesKept
<1> QED  BY <1>7, <1>8, <1>10 DEF CoInv

LEMMA PopKeeps == ASSUME CoInv, Pop PROVE CoInv'
<1> DEFINE f == frames[running]
           g == SubSeq(f, 1, Len(f) - 1)
<1>1. /\ phase = "open" /\ running # -1 /\ sp > 0 /\ sp' = sp - 1
      /\ frames' = [frames EXCEPT ![running] = g]
      /\ UNCHANGED <<nco, cap, running, co, stack, phase>>
  BY DEF Pop
<1>2. /\ running \in Used /\ running \in 0..(MaxCap - 1) /\ f \in Seq(Values)
      /\ OnStack(stack, sp, f) /\ Kept(co[running], f) /\ co[running].status = "RUNNING"
  BY <1>1, RunningOne DEF CoInv, RunsAlone
<1>3. sp \in Nat /\ sp' \in 0..STACK_SIZE /\ Len(f) = sp
  BY <1>1, <1>2, SizeAssumption DEF CoInv, CoType, OnStack
<1>4. g \in Seq(Values) /\ Len(g) = Len(f) - 1 /\ \A i \in 1..Len(g) : g[i] = f[i]
  BY <1>1, <1>2, <1>3
<1> HIDE DEF f, g
<1>5. OnStack(stack', sp', g)
  BY <1>1, <1>2, <1>3, <1>4 DEF OnStack
<1>6. /\ frames' \in [0..(MaxCap - 1) -> Seq(Values)] /\ frames'[running] = g
      /\ \A id \in 0..(MaxCap - 1) : id # running => frames'[id] = frames[id]
  BY <1>1, <1>2, <1>4 DEF CoInv, CoType
<1>7. CoType'
  BY <1>1, <1>3, <1>6 DEF CoInv, CoType
<1>8. Used' = Used /\ NcoCounts' /\ RunsAlone'
  BY <1>1 DEF CoInv, Used, NcoCounts, RunsAlone
<1>9. Kept(co[running], g)
  BY <1>2 DEF Kept
<1>10. FramesKept'
  <2>1. \A id \in Used : Kept(co[id], frames'[id])
    BY <1>6, <1>9, UsedIs DEF CoInv, FramesKept
  <2>2. \A id \in (0..(MaxCap - 1)) \ Used : frames'[id] = <<>>
    BY <1>1, <1>2, <1>6 DEF CoInv, FramesKept
  <2> QED  BY <1>1, <1>5, <1>6, <1>8, <2>1, <2>2 DEF FramesKept
<1> QED  BY <1>7, <1>8, <1>10 DEF CoInv

LEMMA NothingKeeps ==
  ASSUME CoInv, Misuse \/ UNCHANGED vars PROVE CoInv'
BY DEF CoInv, CoType, NcoCounts, RunsAlone, FramesKept, Used, OnStack, Misuse, vars

-----------------------------------------------------------------------------
LEMMA CoInvariant == Spec => []CoInv
<1>1. CoInv /\ [Next]_vars => CoInv'
  BY NewKeeps, ResumeKeeps, YieldKeeps, MainfuncKeeps, CloseKeeps, PushKeeps, PopKeeps,
     NothingKeeps DEF Next, Over
<1> QED  BY <1>1, CoInitially, PTL DEF Spec

\* The number of coroutines the schedule keeps is the number of its slots in use,
\* so coroutine_new finds a free slot whenever it looks for one (coroutine.c:96-119).
THEOREM SlotsAreCounted == Spec => []NcoCounts
BY CoInvariant, PTL DEF CoInv

\* The running coroutine is the only one with that status (coroutine.c:141-173).
THEOREM RunningIsOne == Spec => []OneRunning
<1>1. CoInv => OneRunning
  <2> SUFFICES ASSUME CoInv, phase # "closed" PROVE OneRunning
    BY DEF OneRunning
  <2>1. \A id \in Used : id # -1
    BY UsedIs DEF CoInv, CoType
  <2> QED  BY <2>1 DEF CoInv, RunsAlone, OneRunning
<1> QED  BY <1>1, CoInvariant, PTL

\* A coroutine finds its frames on the common stack as it left them, and what is
\* copied fits its allocation (coroutine.c:163-168, 176-189).
THEOREM FramesComeBack == Spec => []FramesIntact
<1>1. CoInv => FramesIntact
  <2> SUFFICES ASSUME CoInv PROVE FramesIntact
    OBVIOUS
  <2>1. \A id \in Used : co[id].size <= co[id].cap /\ Len(co[id].stack) = co[id].size
    BY DEF CoInv, FramesKept, Kept
  <2>2. ASSUME phase = "open", running # -1
        PROVE  sp = Len(frames[running]) /\ \A i \in 1..sp : stack[i] = frames[running][i]
    BY <2>2 DEF CoInv, FramesKept, OnStack
  <2> QED  BY <2>1, <2>2 DEF FramesIntact
<1> QED  BY <1>1, CoInvariant, PTL

\* No call changes or moves a coroutine it is not about (coroutine.c:96-119: the
\* array is reallocated, a free slot is taken; and all other calls).
THEOREM OthersStay == Spec => OthersUntouched
<1> DEFINE Untouched(id) == id \in DOMAIN co' /\ co'[id] = co[id] /\ frames'[id] = frames[id]
<1>1. ASSUME CoInv, Next, phase' = "open", NEW id \in Used \ {running, running'}
      PROVE  Untouched(id)
  <2>1. /\ id \in 0..(cap - 1) /\ DOMAIN co = 0..(cap - 1) /\ co[id] # NULL
        /\ id \in 0..(MaxCap - 1) /\ DOMAIN frames = 0..(MaxCap - 1)
    BY <1>1, UsedIs DEF CoInv, CoType, Used
  <2>2. CASE coroutine_new
    <3>1. CASE GrowAndPut
      <4>1. cap \in Nat /\ id \in 0..(2 * cap - 1) /\ id < cap
        BY <1>1, <2>1 DEF CoInv, CoType
      <4> QED  BY <2>2, <3>1, <4>1 DEF coroutine_new, GrowAndPut
    <3>2. CASE PutInFreeSlot
      BY <2>1, <2>2, <3>2 DEF coroutine_new, PutInFreeSlot
    <3>3. CASE NoSlot
      BY <1>1, <3>3 DEF NoSlot
    <3> QED  BY <2>2, <3>1, <3>2, <3>3 DEF coroutine_new
  <2>3. CASE coroutine_yield
    BY <2>1, <2>3, <1>1 DEF coroutine_yield
  <2>4. CASE mainfunc
    BY <2>1, <2>4, <1>1 DEF mainfunc
  <2>5. CASE coroutine_close \/ Misuse \/ Over
    BY <1>1, <2>1, <2>5 DEF coroutine_close, Misuse, Over, vars
  <2>6. ASSUME NEW i \in DOMAIN co, coroutine_resume(i) PROVE Untouched(id)
    BY <1>1, <2>1, <2>6 DEF coroutine_resume
  <2>7. ASSUME NEW v \in Values, Push(v) PROVE Untouched(id)
    BY <1>1, <2>1, <2>7 DEF Push
  <2>8. CASE Pop
    BY <1>1, <2>1, <2>8 DEF Pop
  <2> QED  BY <1>1, <2>2, <2>3, <2>4, <2>5, <2>6, <2>7, <2>8 DEF Next
<1>2. CoInv /\ [Next]_vars =>
        [phase' = "open" => \A id \in Used \ {running, running'} : Untouched(id)]_vars
  BY <1>1
<1> QED  BY <1>2, CoInvariant, PTL DEF Spec, OthersUntouched
=============================================================================
