------------------------------- MODULE RwLock -------------------------------
(***************************************************************************)
(* The readers-writer lock of rwlock.h: a counter and two condition        *)
(* variables, all used under one mutex.  An action is a critical section:  *)
(* a whole call, or the part of it up to or from a sleep.                  *)
(***************************************************************************)
EXTENDS Integers, FiniteSets, CondVar

ASSUME ThreadsAssumption == IsFiniteSet(Threads)

VARIABLES
  counter,   \* 0 free, > 0 so many readers, -1 a writer
  mode,      \* of each thread: "out", "reading", "writing", or inside a call
             \* that waits: "to read", "to write"
  rAsleep,   \* the threads asleep on rCv
  wAsleep,   \* the threads asleep on wCv
  lastOut    \* history: the kind of the last release

rwVars == <<counter, mode, rAsleep, wAsleep, lastOut>>

RwInit ==
  /\ counter = 0
  /\ mode = [t \in Threads |-> "out"]
  /\ rAsleep = {} /\ wAsleep = {}
  /\ lastOut = "none"

\* Calls AcquireRead or AcquireWrite now, or was woken in it.
WantsRead(t) == mode[t] = "out" \/ (mode[t] = "to read" /\ t \notin rAsleep)
WantsWrite(t) == mode[t] = "out" \/ (mode[t] = "to write" /\ t \notin wAsleep)

AcquireWrite(t) ==
  /\ WantsWrite(t)
  /\ counter = 0
  /\ counter' = counter - 1
  /\ mode' = [mode EXCEPT ![t] = "writing"]
  /\ UNCHANGED <<rAsleep, wAsleep, lastOut>>

AcquireWrite_sleep(t) ==
  /\ WantsWrite(t)
  /\ counter # 0
  /\ mode' = [mode EXCEPT ![t] = "to write"]
  /\ wAsleep' = wAsleep \cup {t}
  /\ UNCHANGED <<counter, rAsleep, lastOut>>

\* Mutant: one reader is notified, not all.
ReleaseWrite_one(t) ==
  /\ mode[t] = "writing"
  /\ counter' = 0
  /\ rAsleep' \in NotifyOne(rAsleep)
  /\ mode' = [mode EXCEPT ![t] = "out"]
  /\ lastOut' = "write"
  /\ UNCHANGED wAsleep

ReleaseWrite(t) ==
  /\ mode[t] = "writing"
  /\ counter' = 0
  /\ rAsleep' \in NotifyAll(rAsleep)
  /\ mode' = [mode EXCEPT ![t] = "out"]
  /\ lastOut' = "write"
  /\ UNCHANGED wAsleep

\* Mutant: a reader takes the writer's mark for a free lock.
AcquireRead_off(t) ==
  /\ WantsRead(t)
  /\ counter >= -1
  /\ counter' = counter + 1
  /\ mode' = [mode EXCEPT ![t] = "reading"]
  /\ UNCHANGED <<rAsleep, wAsleep, lastOut>>

AcquireRead(t) ==
  /\ WantsRead(t)
  /\ counter >= 0
  /\ counter' = counter + 1
  /\ mode' = [mode EXCEPT ![t] = "reading"]
  /\ UNCHANGED <<rAsleep, wAsleep, lastOut>>

AcquireRead_sleep(t) ==
  /\ WantsRead(t)
  /\ counter < 0
  /\ mode' = [mode EXCEPT ![t] = "to read"]
  /\ rAsleep' = rAsleep \cup {t}
  /\ UNCHANGED <<counter, wAsleep, lastOut>>

ReleaseRead(t) ==
  /\ mode[t] = "reading"
  /\ counter' = counter - 1
  /\ wAsleep' \in NotifyOne(wAsleep)
  /\ mode' = [mode EXCEPT ![t] = "out"]
  /\ lastOut' = "read"
  /\ UNCHANGED rAsleep

\* wait may return without a notification.
SpuriousWakeUp(t) ==
  /\ rAsleep' = rAsleep \ {t} /\ wAsleep' = wAsleep \ {t}
  /\ UNCHANGED <<counter, mode, lastOut>>

RwNext ==
  \E t \in Threads :
    \/ AcquireWrite(t) \/ AcquireWrite_sleep(t) \/ ReleaseWrite(t)
    \/ AcquireRead(t) \/ AcquireRead_sleep(t) \/ ReleaseRead(t)
    \/ SpuriousWakeUp(t)

RwSpec == RwInit /\ [][RwNext]_rwVars

-----------------------------------------------------------------------------
Readers == {t \in Threads : mode[t] = "reading"}
Writers == {t \in Threads : mode[t] = "writing"}

(* A writer excludes everybody else, and the counter is what rwlock.h:47 says:
   "0 for free, positive for reader share, -1 for write exclusive". *)
Exclusion ==
  \/ Writers = {} /\ counter = Cardinality(Readers)
  \/ Cardinality(Writers) = 1 /\ Readers = {} /\ counter = -1

(* Whoever makes the lock available wakes those it is available to.  A reader
   only sleeps while a writer is inside; and a lock that a reader left free is
   not slept on by all who want to write: one of them is up to take it
   (rwlock.h:20-36).  Nothing of the kind is true of a lock that a writer left
   free, as ReleaseWrite wakes no writer. *)
ReadersWoken == rAsleep # {} => counter = -1
WritersWoken ==
  counter = 0 /\ wAsleep # {} /\ lastOut = "read" =>
    \E t \in Threads \ wAsleep : mode[t] = "to write"
ReleaseWakes == ReadersWoken /\ WritersWoken
=============================================================================
