---------------------------- MODULE MesaMonitor ----------------------------
(***************************************************************************)
(* What a program may rely on when it uses locks and Mesa monitors,        *)
(* whatever the scheduler does: a lock has one holder; thread_wait gives   *)
(* the lock up and starts waiting in one step; only a signal or a          *)
(* broadcast on its monitor takes a thread out of the waiters, and then it *)
(* contends for the lock like a thread that called thread_lock.            *)
(***************************************************************************)
CONSTANTS Threads, Locks, Conds, NULL

VARIABLES
  holder,      \* the holder of each lock, or NULL
  contenders,  \* threads that must obtain the lock before they continue
  waiters      \* threads that wait for a signal, by <<lock, condition>>

mvars == <<holder, contenders, waiters>>

Init ==
  /\ holder = [l \in Locks |-> NULL]
  /\ contenders = [l \in Locks |-> {}]
  /\ waiters = [m \in Locks \X Conds |-> {}]

\* A thread occupied by a lock or a monitor is inside a call.
InCall(t) ==
  \/ \E l \in Locks : t \in contenders[l]
  \/ \E m \in Locks \X Conds : t \in waiters[m]

Contend(t, l) ==
  /\ ~InCall(t)
  /\ holder[l] \notin {NULL, t}
  /\ contenders' = [contenders EXCEPT ![l] = @ \cup {t}]
  /\ UNCHANGED <<holder, waiters>>

Acquire(t, l) ==
  /\ holder[l] = NULL
  /\ t \in contenders[l] \/ ~InCall(t)
  /\ holder' = [holder EXCEPT ![l] = t]
  /\ contenders' = [contenders EXCEPT ![l] = @ \ {t}]
  /\ UNCHANGED waiters

\* The lock becomes free or goes straight to a contender.
GiveUp(t, l) ==
  /\ ~InCall(t)
  /\ holder[l] = t
  /\ \/ /\ holder' = [holder EXCEPT ![l] = NULL]
        /\ UNCHANGED contenders
     \/ \E u \in contenders[l] :
          /\ holder' = [holder EXCEPT ![l] = u]
          /\ contenders' = [contenders EXCEPT ![l] = @ \ {u}]

Release(t, l) == GiveUp(t, l) /\ UNCHANGED waiters

Wait(t, l, c) ==
  /\ GiveUp(t, l)
  /\ waiters' = [waiters EXCEPT ![<<l, c>>] = @ \cup {t}]

Wake(S, l, c) ==
  /\ waiters' = [waiters EXCEPT ![<<l, c>>] = @ \ S]
  /\ contenders' = [contenders EXCEPT ![l] = @ \cup S]
  /\ UNCHANGED holder

Signal(l, c)    == \E t \in waiters[<<l, c>>] : Wake({t}, l, c)
Broadcast(l, c) == Wake(waiters[<<l, c>>], l, c)

Next ==
  \/ \E t \in Threads, l \in Locks : Contend(t, l) \/ Acquire(t, l) \/ Release(t, l)
  \/ \E l \in Locks, c \in Conds :
       \/ \E t \in Threads : Wait(t, l, c)
       \/ Signal(l, c)
       \/ Broadcast(l, c)

Spec == Init /\ [][Next]_mvars
=============================================================================
