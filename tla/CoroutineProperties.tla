------------------------- MODULE CoroutineProperties -------------------------
(***************************************************************************)
(* The properties of the coroutines.                                       *)
(***************************************************************************)
EXTENDS Coroutine

Used == {id \in DOMAIN co : co[id] # NULL}

(* nco is the number of occupied slots, so a search is only made when there is
   a free slot and the array only grows when there is none
   (coroutine.c:96-119; the assert behind the search cannot be reached). *)
NcoCounts == phase # "closed" => nco = Cardinality(Used)

(* Exactly the coroutine that the schedule records as running has the status
   RUNNING: resume never finds a RUNNING coroutine, the case its switch
   asserts away (coroutine.c:141-173). *)
OneRunning ==
  phase # "closed" =>
    {id \in Used : co[id].status = "RUNNING"} = IF running = -1 THEN {} ELSE {running}

(* A coroutine finds its frames as it left them, whatever the other coroutines
   did on the common stack while it was suspended, and although it may have been
   deeper or shallower the time before: the copy is complete and fits its
   allocation, so the memcpy of coroutine_yield and of coroutine_resume stay
   inside it (coroutine.c:163-168, 176-189). *)
FramesIntact ==
  /\ phase = "open" /\ running # -1 =>
       /\ sp = Len(frames[running])
       /\ \A i \in 1..sp : stack[i] = frames[running][i]
  /\ \A id \in Used : co[id].size <= co[id].cap /\ Len(co[id].stack) = co[id].size

(* An id names the same coroutine until that coroutine ends: no call made for
   other coroutines, the growth of the array included, moves or changes a
   coroutine that neither runs nor is switched to. *)
OthersUntouched ==
  [][phase' = "open" =>
       \A id \in Used \ {running, running'} :
         id \in DOMAIN co' /\ co'[id] = co[id] /\ frames'[id] = frames[id]
    ]_vars
=============================================================================
