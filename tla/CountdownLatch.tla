--------------------------- MODULE CountdownLatch ---------------------------
(***************************************************************************)
(* The latch of countdown_latch.h.  An action is a critical section.       *)
(***************************************************************************)
EXTENDS Integers, CondVar

CONSTANTS
  Count,    \* what the latch is made with
  MaxDown   \* bound: how often Countdown is called

VARIABLES
  count_,     \* calls of Countdown still missing; negative after more calls
  waiter,     \* of each thread: "out", "waiting" (inside Wait) or "passed"
  cvAsleep    \* the threads asleep on cv_

latchVars == <<count_, waiter, cvAsleep>>

LatchInit ==
  /\ count_ = Count
  /\ waiter = [t \in Threads |-> "out"]
  /\ cvAsleep = {}

AtWait(t) == waiter[t] # "passed" /\ t \notin cvAsleep

Wait(t) ==
  /\ AtWait(t)
  /\ count_ = 0
  /\ waiter' = [waiter EXCEPT ![t] = "passed"]
  /\ UNCHANGED <<count_, cvAsleep>>

Wait_sleep(t) ==
  /\ AtWait(t)
  /\ count_ # 0
  /\ waiter' = [waiter EXCEPT ![t] = "waiting"]
  /\ cvAsleep' = cvAsleep \cup {t}
  /\ UNCHANGED count_

\* Mutant: nobody is notified.
Countdown_silent ==
  /\ Count - count_ < MaxDown
  /\ count_' = count_ - 1
  /\ UNCHANGED <<waiter, cvAsleep>>

Countdown ==
  /\ Count - count_ < MaxDown
  /\ count_' = count_ - 1
  /\ cvAsleep' \in IF count_' = 0 THEN NotifyOne(cvAsleep) ELSE {cvAsleep}
  /\ UNCHANGED waiter

Wait_spurious(t) ==
  /\ t \in cvAsleep
  /\ cvAsleep' = cvAsleep \ {t}
  /\ UNCHANGED <<count_, waiter>>

LatchNext ==
  \/ Countdown
  \/ \E t \in Threads : Wait(t) \/ Wait_sleep(t) \/ Wait_spurious(t)

LatchSpec == LatchInit /\ [][LatchNext]_latchVars

-----------------------------------------------------------------------------
(* When the count is 0, whoever waited for it has not been forgotten as a
   group: at least one of them has passed or is up to pass
   (countdown_latch.h:20-22).  That all of them are, is not so: only one is
   notified and Wait wakes nobody else. *)
OneIsWoken ==
  count_ = 0 /\ cvAsleep # {} => \E t \in Threads \ cvAsleep : waiter[t] # "out"
=============================================================================
