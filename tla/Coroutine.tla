------------------------------ MODULE Coroutine ------------------------------
(***************************************************************************)
(* The coroutines of coroutine/coroutine.c: a schedule with an array of    *)
(* slots that doubles when it is full, and ONE stack on which every        *)
(* coroutine runs.  A coroutine that yields copies its part of the stack   *)
(* away and gets it back, at the same place, when it is resumed.           *)
(*                                                                         *)
(* The stack is counted from its high end, where a coroutine starts:       *)
(* stack[1] is the first frame.  A frame is abstracted to one value.       *)
(***************************************************************************)
EXTENDS Integers, Sequences, FiniteSets

CONSTANTS
  DEFAULT_COROUTINE,  \* first capacity
  STACK_SIZE,         \* frames on the common stack
  Values,             \* what a frame can hold
  MaxCap,             \* bound: the array grows up to this capacity
  NULL

ASSUME SizeAssumption ==
  /\ DEFAULT_COROUTINE \in Nat \ {0}
  /\ STACK_SIZE \in Nat
  /\ MaxCap \in Nat /\ DEFAULT_COROUTINE <= MaxCap
ASSUME NullAssumption == NULL \notin [status : {"READY", "RUNNING", "SUSPEND"},
                                      cap : 0..STACK_SIZE, size : 0..STACK_SIZE,
                                      stack : Seq(Values), sp : 0..STACK_SIZE]

VARIABLES
  nco, cap, running, co,   \* struct schedule; co[id] is a coroutine or NULL
  stack,   \* the common stack
  sp,      \* frames in use by the running coroutine (0 when main runs)
  phase,   \* "open", "closed" (coroutine_close), "aborted" (an assert failed)
  frames   \* history: the frames each coroutine has, by id

vars == <<nco, cap, running, co, stack, sp, phase, frames>>

Init ==
  /\ nco = 0
  /\ cap = DEFAULT_COROUTINE
  /\ running = -1
  /\ co = [id \in 0..(DEFAULT_COROUTINE - 1) |-> NULL]
  /\ stack \in [1..STACK_SIZE -> Values]
  /\ sp = 0
  /\ phase = "open"
  /\ frames = [id \in 0..(MaxCap - 1) |-> <<>>]

-----------------------------------------------------------------------------
_co_new == [status |-> "READY", cap |-> 0, size |-> 0, stack |-> <<>>, sp |-> 0]

\* The array is full: it doubles, the new coroutine gets the first new slot.
GrowAndPut ==
  /\ nco >= cap
  /\ 2 * cap <= MaxCap
  /\ co' = [id \in 0..(2 * cap - 1) |->
              IF id < cap THEN co[id] ELSE IF id = cap THEN _co_new ELSE NULL]
  /\ cap' = 2 * cap
  /\ nco' = nco + 1
  /\ UNCHANGED phase

Probe(i) == (i + nco) % cap

\* Mutant: the first slot looked at is taken, free or not.
PutWithoutProbing ==
  /\ nco < cap
  /\ co' = [co EXCEPT ![Probe(0)] = _co_new]
  /\ nco' = nco + 1
  /\ UNCHANGED <<cap, phase>>

PutInFreeSlot ==
  /\ nco < cap
  /\ \E i \in 0..(cap - 1) :
       /\ co[Probe(i)] = NULL
       /\ \A j \in 0..(i - 1) : co[Probe(j)] # NULL
       /\ co' = [co EXCEPT ![Probe(i)] = _co_new]
  /\ nco' = nco + 1
  /\ UNCHANGED <<cap, phase>>

\* "always fail, shouldn't reach here"
NoSlot ==
  /\ nco < cap
  /\ \A i \in 0..(cap - 1) : co[Probe(i)] # NULL
  /\ phase' = "aborted"
  /\ UNCHANGED <<nco, cap, co>>

\* Called by main or by the running coroutine.
coroutine_new ==
  /\ phase = "open"
  /\ GrowAndPut \/ PutInFreeSlot \/ NoSlot
  /\ UNCHANGED <<running, stack, sp, frames>>

\* The coroutine starts on an empty stack.
Start(id) ==
  /\ co[id].status = "READY"
  /\ sp' = 0
  /\ UNCHANGED stack

\* Mutant: the frames are not copied back.
RestoreContextOnly(id) ==
  /\ co[id].status = "SUSPEND"
  /\ sp' = co[id].sp
  /\ UNCHANGED stack

\* memcpy of C->size frames to the high end; the context restores sp.
Restore(id) ==
  /\ co[id].status = "SUSPEND"
  /\ stack' = [i \in 1..STACK_SIZE |->
                 IF i <= co[id].size THEN co[id].stack[i] ELSE stack[i]]
  /\ sp' = co[id].sp

\* The id of a coroutine that has ended: nothing happens.
coroutine_resume(id) ==
  /\ phase = "open"
  /\ running = -1
  /\ id \in DOMAIN co /\ co[id] # NULL
  /\ Start(id) \/ Restore(id)
  /\ running' = id
  /\ co' = [co EXCEPT ![id].status = "RUNNING"]
  /\ UNCHANGED <<nco, cap, phase, frames>>

\* Mutant: the status stays RUNNING.
yield_still_running ==
  /\ phase = "open"
  /\ running # -1
  /\ co' = [co EXCEPT ![running] =
              [status |-> "RUNNING",
               cap |-> IF @.cap < sp THEN sp ELSE @.cap,
               size |-> sp,
               stack |-> [i \in 1..sp |-> stack[i]],
               sp |-> sp]]
  /\ running' = -1
  /\ sp' = 0
  /\ UNCHANGED <<nco, cap, stack, phase, frames>>

\* With _save_stack: the copy is reallocated only to grow.
coroutine_yield ==
  /\ phase = "open"
  /\ running # -1
  /\ co' = [co EXCEPT ![running] =
              [status |-> "SUSPEND",
               cap |-> IF @.cap < sp THEN sp ELSE @.cap,
               size |-> sp,
               stack |-> [i \in 1..sp |-> stack[i]],
               sp |-> sp]]
  /\ running' = -1
  /\ sp' = 0
  /\ UNCHANGED <<nco, cap, stack, phase, frames>>

\* Mutant: the coroutine is deleted but still counted.
mainfunc_no_count ==
  /\ phase = "open"
  /\ running # -1
  /\ co' = [co EXCEPT ![running] = NULL]
  /\ running' = -1
  /\ sp' = 0
  /\ frames' = [frames EXCEPT ![running] = <<>>]
  /\ UNCHANGED <<nco, cap, stack, phase>>

\* The coroutine's function returns.
mainfunc ==
  /\ phase = "open"
  /\ running # -1
  /\ co' = [co EXCEPT ![running] = NULL]
  /\ nco' = nco - 1
  /\ running' = -1
  /\ sp' = 0
  /\ frames' = [frames EXCEPT ![running] = <<>>]
  /\ UNCHANGED <<cap, stack, phase>>

\* resume inside a coroutine, resume of an id that never was, yield by main.
Misuse ==
  /\ phase = "open"
  /\ phase' = "aborted"
  /\ UNCHANGED <<nco, cap, running, co, stack, sp, frames>>

coroutine_close ==
  /\ phase = "open"
  /\ running = -1
  /\ co' = [id \in DOMAIN co |-> NULL]
  /\ phase' = "closed"
  /\ UNCHANGED <<nco, cap, running, stack, sp, frames>>

-----------------------------------------------------------------------------
(* What a coroutine does to its stack between calls of the library.        *)

Push(v) ==
  /\ phase = "open"
  /\ running # -1
  /\ sp < STACK_SIZE
  /\ stack' = [stack EXCEPT ![sp + 1] = v]
  /\ sp' = sp + 1
  /\ frames' = [frames EXCEPT ![running] = Append(@, v)]
  /\ UNCHANGED <<nco, cap, running, co, phase>>

Pop ==
  /\ phase = "open"
  /\ running # -1
  /\ sp > 0
  /\ sp' = sp - 1
  /\ frames' = [frames EXCEPT ![running] = SubSeq(@, 1, Len(@) - 1)]
  /\ UNCHANGED <<nco, cap, running, co, stack, phase>>

Over == phase # "open" /\ UNCHANGED vars

Next ==
  \/ coroutine_new \/ coroutine_yield \/ mainfunc \/ coroutine_close \/ Misuse
  \/ \E id \in DOMAIN co : coroutine_resume(id)
  \/ \E v \in Values : Push(v)
  \/ Pop
  \/ Over

Spec == Init /\ [][Next]_vars
=============================================================================
