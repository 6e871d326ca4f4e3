------------------------------ MODULE SyncProofs ------------------------------
(***************************************************************************)
(* Proofs about the readers-writer lock, the thread-safe queue, the        *)
(* countdown latch and the bounded buffer, for any finite set of threads.  *)
(***************************************************************************)
EXTENDS RwLock, CountdownLatch, ThreadsafeQueue, BoundedBuffer, FiniteSetTheorems, TLAPS

(* The readers-writer lock. *)

Modes == {"out", "reading", "writing", "to read", "to write"}

RwType ==
  /\ counter \in Int
  /\ mode \in [Threads -> Modes]
  /\ rAsleep \subseteq {t \in Threads : mode[t] = "to read"}
  /\ wAsleep \subseteq {t \in Threads : mode[t] = "to write"}

\* The two parts of Exclusion, without counting the one writer.
Shared == Writers = {} /\ counter = Cardinality(Readers)
Exclusive == counter = -1 /\ Readers = {} /\ \E t \in Threads : Writers = {t}

RwInv == RwType /\ (Shared \/ Exclusive) /\ ReleaseWakes

LEMMA RwInitially == RwInit => RwInv
<1> SUFFICES ASSUME RwInit PROVE RwInv
  OBVIOUS
<1>1. Readers = {} /\ Writers = {}
  BY DEF RwInit, Readers, Writers
<1>2. Shared
  BY <1>1, FS_EmptySet DEF RwInit, Shared
<1>3. RwType /\ ReleaseWakes
  BY DEF RwInit, RwType, Modes, ReleaseWakes, ReadersWoken, WritersWoken
<1> QED  BY <1>2, <1>3 DEF RwInv

\* How many readers there are is a natural number, 0 only if there are none.
LEMMA CountReaders == /\ IsFiniteSet(Readers) /\ Cardinality(Readers) \in Nat
                      /\ Cardinality(Readers) = 0 <=> Readers = {}
<1>1. IsFiniteSet(Readers)
  BY ThreadsAssumption, FS_Subset DEF Readers
<1> QED  BY <1>1, FS_CardinalityType, FS_EmptySet

\* What the counter says of who is inside, and of who sleeps.
LEMMA CounterTells ==
  ASSUME RwInv
  PROVE  /\ counter = 0 => Shared /\ Readers = {}
         /\ counter >= 0 => Shared /\ rAsleep = {}
         /\ counter < 0 => Exclusive
         /\ \A t \in Readers : Shared /\ counter > 0 /\ rAsleep = {}
<1>1. /\ Shared => counter = Cardinality(Readers)
      /\ Exclusive => counter = -1 /\ Readers = {}
  BY DEF Shared, Exclusive
<1>2. Shared \/ Exclusive
  BY DEF RwInv
<1>3. counter = -1 \/ counter \in Nat
  BY <1>1, <1>2, CountReaders
<1>4. counter >= 0 => Shared
  BY <1>1, <1>2
<1>5. counter < 0 => Exclusive
  BY <1>1, <1>2, CountReaders
<1>6. rAsleep # {} => counter = -1
  BY DEF RwInv, ReleaseWakes, ReadersWoken
<1>7. counter = 0 => Readers = {}
  BY <1>1, <1>4, CountReaders
<1>8. ASSUME NEW t \in Readers PROVE Shared /\ counter > 0 /\ rAsleep = {}
  <2>1. Shared /\ Readers # {}
    BY <1>1, <1>2, <1>8
  <2>2. counter > 0
    BY <1>1, <2>1, CountReaders
  <2> QED  BY <1>6, <2>1, <2>2
<1> QED  BY <1>3, <1>4, <1>5, <1>6, <1>7, <1>8

\* A thread that does not sleep changes its mode.
LEMMA TypeKeeps ==
  ASSUME RwType, NEW t \in Threads, NEW m \in Modes, mode' = [mode EXCEPT ![t] = m],
         counter' \in Int, t \notin rAsleep, t \notin wAsleep,
         rAsleep' \subseteq rAsleep, wAsleep' \subseteq wAsleep
  PROVE  RwType'
<1>1. mode' \in [Threads -> Modes]
  BY DEF RwType
<1>2. \A u \in Threads \ {t} : mode'[u] = mode[u]
  BY DEF RwType
<1>3. rAsleep' \subseteq {u \in Threads : mode'[u] = "to read"}
  BY <1>2 DEF RwType
<1>4. wAsleep' \subseteq {u \in Threads : mode'[u] = "to write"}
  BY <1>2 DEF RwType
<1> QED  BY <1>1, <1>3, <1>4 DEF RwType

\* How the counter changes.
LEMMA CounterChanges ==
  ASSUME RwInv, NEW t \in Threads
  PROVE  /\ AcquireWrite(t) => counter' = -1
         /\ AcquireRead(t) => /\ counter >= 0 /\ counter' = counter + 1
                              /\ counter' \in Int /\ counter' # 0
         /\ ReleaseRead(t) => counter' \in Int
         /\ ReleaseWrite(t) => counter' = 0
<1>1. counter \in Int
  BY DEF RwInv, RwType
<1>2. AcquireWrite(t) => counter = 0 /\ counter' = counter - 1
  BY DEF AcquireWrite
<1>3. AcquireRead(t) => counter >= 0 /\ counter' = counter + 1
  BY DEF AcquireRead
<1>4. ReleaseRead(t) => counter' = counter - 1
  BY DEF ReleaseRead
<1>5. ReleaseWrite(t) => counter' = 0
  BY DEF ReleaseWrite
<1> QED  BY <1>1, <1>2, <1>3, <1>4, <1>5

LEMMA AcquireWriteKeeps == ASSUME RwInv, NEW t \in Threads, AcquireWrite(t) PROVE RwInv'
<1>1. counter' = -1 /\ counter' # 0 /\ counter' \in Int
  BY CounterChanges
<1>2. Shared /\ Readers = {}
  BY CounterTells DEF AcquireWrite
<1>3. t \notin rAsleep /\ t \notin wAsleep
  BY DEF AcquireWrite, WantsWrite, RwInv, RwType
<1>4. mode \in [Threads -> Modes] /\ mode' = [mode EXCEPT ![t] = "writing"]
  BY DEF AcquireWrite, RwInv, RwType
<1>5. RwType'
  BY <1>1, <1>3, <1>4, TypeKeeps DEF AcquireWrite, RwInv, Modes
<1>6. Readers' = {} /\ Writers' = {t}
  BY <1>2, <1>4 DEF Readers, Writers, Shared
<1>7. Exclusive' /\ ReleaseWakes'
  BY <1>1, <1>6 DEF Exclusive, ReleaseWakes, ReadersWoken, WritersWoken
<1> QED  BY <1>5, <1>7 DEF RwInv

LEMMA AcquireReadKeeps == ASSUME RwInv, NEW t \in Threads, AcquireRead(t) PROVE RwInv'
<1>1. /\ counter >= 0 /\ counter' = counter + 1
      /\ counter' \in Int /\ counter' # 0
  BY CounterChanges
<1>2. Shared /\ rAsleep = {}
  BY <1>1, CounterTells
<1>3. t \notin wAsleep /\ t \notin Readers
  BY DEF AcquireRead, WantsRead, RwInv, RwType, Readers
<1>4. mode \in [Threads -> Modes] /\ mode' = [mode EXCEPT ![t] = "reading"]
  BY DEF AcquireRead, RwInv, RwType
<1>5. RwType'
  BY <1>1, <1>2, <1>3, <1>4, TypeKeeps DEF AcquireRead, RwInv, Modes
<1>6. Readers' = Readers \cup {t} /\ Writers' = {}
  BY <1>2, <1>4 DEF Readers, Writers, Shared
<1>7. Cardinality(Readers') = Cardinality(Readers) + 1
  BY <1>3, <1>6, CountReaders, FS_AddElement
<1>8. Shared'
  BY <1>1, <1>2, <1>6, <1>7 DEF Shared
<1>9. ReleaseWakes'
  BY <1>1, <1>2 DEF AcquireRead, ReleaseWakes, ReadersWoken, WritersWoken
<1> QED  BY <1>5, <1>8, <1>9 DEF RwInv

\* The reader that leaves wakes a writer, if one sleeps.
LEMMA ReleaseReadKeeps == ASSUME RwInv, NEW t \in Threads, ReleaseRead(t) PROVE RwInv'
<1>1. counter' = counter - 1 /\ counter' \in Int
  BY CounterChanges DEF ReleaseRead
<1>2. t \in Readers
  BY DEF ReleaseRead, Readers
<1>3. Shared /\ rAsleep = {}
  BY <1>2, CounterTells
<1>4. t \notin wAsleep
  BY <1>2 DEF RwInv, RwType, Readers
<1>5. (wAsleep = {} /\ wAsleep' = {}) \/ \E u \in wAsleep : wAsleep' = wAsleep \ {u}
  BY DEF ReleaseRead, NotifyOne
<1>6. /\ mode \in [Threads -> Modes] /\ mode' = [mode EXCEPT ![t] = "out"]
      /\ wAsleep \subseteq {u \in Threads : mode[u] = "to write"} /\ rAsleep' = rAsleep
  BY DEF ReleaseRead, RwInv, RwType
<1>7. RwType'
  BY <1>1, <1>3, <1>4, <1>5, <1>6, TypeKeeps DEF RwInv, Modes
<1>8. Readers' = Readers \ {t} /\ Writers' = {}
  BY <1>3, <1>6 DEF Readers, Writers, Shared
<1>9. Cardinality(Readers') = Cardinality(Readers) - 1
  BY <1>2, <1>8, CountReaders, FS_RemoveElement
<1>10. Shared'
  BY <1>1, <1>3, <1>8, <1>9 DEF Shared
<1>11. wAsleep' # {} => \E u \in Threads \ wAsleep' : mode'[u] = "to write"
  BY <1>4, <1>5, <1>6
<1>12. ReleaseWakes'
  BY <1>3, <1>6, <1>11 DEF ReleaseWakes, ReadersWoken, WritersWoken
<1> QED  BY <1>7, <1>10, <1>12 DEF RwInv

LEMMA ReleaseWriteKeeps == ASSUME RwInv, NEW t \in Threads, ReleaseWrite(t) PROVE RwInv'
<1>1. counter' = 0 /\ counter' \in Int
  BY CounterChanges
<1>2. Writers = {t} /\ Readers = {}
  BY DEF ReleaseWrite, RwInv, Shared, Exclusive, Writers
<1>3. t \notin rAsleep /\ t \notin wAsleep /\ rAsleep' = {}
  BY DEF ReleaseWrite, RwInv, RwType, NotifyAll
<1>4. mode \in [Threads -> Modes] /\ mode' = [mode EXCEPT ![t] = "out"]
  BY DEF ReleaseWrite, RwInv, RwType
<1>5. RwType'
  BY <1>1, <1>3, <1>4, TypeKeeps DEF ReleaseWrite, RwInv, Modes
<1>6. Readers' = {} /\ Writers' = {}
  BY <1>2, <1>4 DEF Readers, Writers
<1>7. Shared'
  BY <1>1, <1>6, FS_EmptySet DEF Shared
<1>8. ReleaseWakes'
  BY <1>3 DEF ReleaseWrite, ReleaseWakes, ReadersWoken, WritersWoken
<1> QED  BY <1>5, <1>7, <1>8 DEF RwInv

\* Who falls asleep or wakes up changes neither the counter nor who is inside.
LEMMA SleepKeeps ==
  ASSUME RwInv, NEW t \in Threads,
         AcquireWrite_sleep(t) \/ AcquireRead_sleep(t) \/ SpuriousWakeUp(t)
  PROVE  RwInv'
<1> USE DEF RwInv, RwType
<1>1. Readers' = Readers /\ Writers' = Writers /\ counter' = counter
  BY DEF AcquireWrite_sleep, AcquireRead_sleep, SpuriousWakeUp, WantsRead, WantsWrite,
         Readers, Writers, Modes
<1>2. Shared' = Shared /\ Exclusive' = Exclusive
  BY <1>1 DEF Shared, Exclusive
<1>3. CASE AcquireWrite_sleep(t)
  <2>1. RwType' /\ ReleaseWakes'
    BY <1>3 DEF AcquireWrite_sleep, WantsWrite, Modes, ReleaseWakes, ReadersWoken, WritersWoken
  <2> QED  BY <1>2, <2>1
<1>4. CASE AcquireRead_sleep(t)
  <2>1. counter = -1
    BY <1>4, CounterTells DEF AcquireRead_sleep, Exclusive
  <2>2. RwType' /\ ReleaseWakes'
    BY <1>4, <2>1 DEF AcquireRead_sleep, WantsRead, Modes, ReleaseWakes, ReadersWoken, WritersWoken
  <2> QED  BY <1>2, <2>2
<1>5. CASE SpuriousWakeUp(t)
  <2>1. RwType' /\ ReleaseWakes'
    BY <1>5 DEF SpuriousWakeUp, Modes, ReleaseWakes, ReadersWoken, WritersWoken
  <2> QED  BY <1>2, <2>1
<1> QED  BY <1>3, <1>4, <1>5

LEMMA RwStep == RwInv /\ [RwNext]_rwVars => RwInv'
<1> SUFFICES ASSUME RwInv, [RwNext]_rwVars PROVE RwInv'
  OBVIOUS
<1>1. CASE RwNext
  BY <1>1, AcquireWriteKeeps, AcquireReadKeeps, ReleaseReadKeeps, ReleaseWriteKeeps, SleepKeeps
     DEF RwNext
<1>2. CASE UNCHANGED rwVars
  BY <1>2 DEF rwVars, RwInv, RwType, Shared, Exclusive, Readers, Writers,
              ReleaseWakes, ReadersWoken, WritersWoken
<1> QED  BY <1>1, <1>2

LEMMA RwInvImplies == RwInv => Exclusion /\ ReleaseWakes
<1>1. Exclusive => Cardinality(Writers) = 1
  BY FS_Singleton DEF Exclusive
<1> QED  BY <1>1 DEF RwInv, Shared, Exclusive, Exclusion

(* A writer is alone, and the counter says who is inside (the four calls of
   rwlock.h). *)
THEOREM WritersExclude == RwSpec => []Exclusion
BY RwInitially, RwStep, RwInvImplies, PTL DEF RwSpec

(* No reader sleeps on a lock it could take, and a lock that a reader left free
   has a writer awake if any sleeps (ReleaseRead and ReleaseWrite of rwlock.h). *)
THEOREM ReleasesWake == RwSpec => []ReleaseWakes
BY RwInitially, RwStep, RwInvImplies, PTL DEF RwSpec

-----------------------------------------------------------------------------
(* The thread-safe queue. *)

TqType == items \in Nat /\ popping \subseteq Threads /\ popAsleep \subseteq popping
TqInv == TqType /\ PoppersWoken

\* Who is in wait_and_pop and not asleep.
AwakePoppers == popping \ popAsleep

LEMMA TqCounts ==
  ASSUME TqType
  PROVE  IsFiniteSet(AwakePoppers) /\ Cardinality(AwakePoppers) \in Nat
<1>1. IsFiniteSet(AwakePoppers)
  BY PoppersAssumption, FS_Subset DEF TqType, AwakePoppers
<1> QED  BY <1>1, FS_CardinalityType

\* A push wakes one who will look for the item, if anybody sleeps.
LEMMA PushKeeps == ASSUME TqInv, push PROVE TqInv'
<1>1. items \in Nat /\ items' = items + 1 /\ popping' = popping
  BY DEF push, TqInv, TqType
<1>2. (popAsleep = {} /\ popAsleep' = {}) \/ \E u \in popAsleep : popAsleep' = popAsleep \ {u}
  BY DEF push, NotifyOne
<1>3. TqType'
  BY <1>1, <1>2 DEF TqInv, TqType
<1>4. ASSUME popAsleep' # {} PROVE items' <= Cardinality(AwakePoppers')
  <2>1. PICK u \in popAsleep : popAsleep' = popAsleep \ {u}
    BY <1>2, <1>4
  <2>2. AwakePoppers' = AwakePoppers \cup {u} /\ u \notin AwakePoppers
    BY <1>1, <2>1 DEF TqInv, TqType, AwakePoppers
  <2>3. Cardinality(AwakePoppers') = Cardinality(AwakePoppers) + 1
    BY <2>2, TqCounts, FS_AddElement DEF TqInv
  <2>4. items <= Cardinality(AwakePoppers)
    BY <2>1 DEF TqInv, PoppersWoken, AwakePoppers
  <2> QED  BY <1>1, <2>3, <2>4, TqCounts DEF TqInv
<1> QED  BY <1>3, <1>4 DEF TqInv, PoppersWoken, AwakePoppers

\* One item less and at most one awake popper less.
LEMMA PopKeeps == ASSUME TqInv, NEW t \in Threads, wait_and_pop(t) PROVE TqInv'
<1>1. items \in Nat /\ items' = items - 1 /\ items' \in Nat
  BY DEF wait_and_pop, TqInv, TqType
<1>2. popping' = popping \ {t} /\ popAsleep' = popAsleep /\ t \notin popAsleep
  BY DEF wait_and_pop
<1>3. TqType'
  BY <1>1, <1>2 DEF TqInv, TqType
<1>4. AwakePoppers' = AwakePoppers \ {t}
  BY <1>2 DEF AwakePoppers
<1>5. Cardinality(AwakePoppers') >= Cardinality(AwakePoppers) - 1
  BY <1>4, TqCounts, FS_RemoveElement DEF TqInv
<1>6. popAsleep # {} => items <= Cardinality(AwakePoppers)
  BY DEF TqInv, PoppersWoken, AwakePoppers
<1>7. popAsleep' # {} => items' <= Cardinality(AwakePoppers')
  <2>1. IsFiniteSet(AwakePoppers')
    BY <1>4, TqCounts, FS_RemoveElement DEF TqInv
  <2>2. Cardinality(AwakePoppers') \in Nat /\ Cardinality(AwakePoppers) \in Nat
    BY <2>1, TqCounts, FS_CardinalityType DEF TqInv
  <2> QED  BY <1>1, <1>2, <1>5, <1>6, <2>2
<1> QED  BY <1>3, <1>7 DEF TqInv, PoppersWoken, AwakePoppers

\* Fewer items, or none, and the same poppers or more awake.
LEMMA FewerKeeps ==
  ASSUME TqInv, items' \in Nat, items' <= items, popping' \subseteq Threads,
         popAsleep' \subseteq popping',
         items' = 0 \/ (popping' = popping /\ popAsleep' \subseteq popAsleep)
  PROVE  TqInv'
<1>1. TqType'
  BY DEF TqType
<1>2. Cardinality(AwakePoppers') \in Nat /\ IsFiniteSet(AwakePoppers')
  <2>1. IsFiniteSet(AwakePoppers')
    BY PoppersAssumption, FS_Subset DEF AwakePoppers
  <2> QED  BY <2>1, FS_CardinalityType
<1>3. ASSUME popAsleep' # {} PROVE items' <= Cardinality(AwakePoppers')
  <2>1. CASE items' = 0
    BY <1>2, <2>1
  <2>2. CASE popping' = popping /\ popAsleep' \subseteq popAsleep
    <3>1. AwakePoppers \subseteq AwakePoppers'
      BY <2>2 DEF AwakePoppers
    <3>2. Cardinality(AwakePoppers) <= Cardinality(AwakePoppers')
      BY <1>2, <3>1, FS_Subset
    <3>3. items <= Cardinality(AwakePoppers)
      BY <1>3, <2>2 DEF TqInv, PoppersWoken, AwakePoppers
    <3>4. items \in Nat
      BY DEF TqInv, TqType
    <3> QED  BY <1>2, <3>2, <3>3, <3>4, TqCounts DEF TqInv
  <2> QED  BY <2>1, <2>2
<1> QED  BY <1>1, <1>3 DEF TqInv, PoppersWoken, AwakePoppers

LEMMA TqStep == TqInv /\ [TqNext]_tqVars => TqInv'
<1> SUFFICES ASSUME TqInv, [TqNext]_tqVars PROVE TqInv'
  OBVIOUS
<1>0. items \in Nat /\ popping \subseteq Threads /\ popAsleep \subseteq popping
  BY DEF TqInv, TqType
<1>1. CASE push
  BY <1>1, PushKeeps
<1>2. CASE try_pop
  <2>1. items' \in Nat /\ items' <= items
    BY <1>0, <1>2 DEF try_pop
  <2> QED  BY <1>0, <1>2, <2>1, FewerKeeps DEF try_pop
<1>3. CASE MoveAway
  <2>1. items' \in Nat /\ items' <= items /\ items' = 0
    BY <1>0, <1>3 DEF MoveAway
  <2> QED  BY <1>0, <1>3, <2>1, FewerKeeps DEF MoveAway
<1>4. ASSUME NEW t \in Threads, wait_and_pop(t) PROVE TqInv'
  BY <1>4, PopKeeps
<1>5. ASSUME NEW t \in Threads, wait_and_pop_sleep(t) PROVE TqInv'
  <2>1. items' \in Nat /\ items' <= items /\ items' = 0
    BY <1>0, <1>5 DEF wait_and_pop_sleep
  <2> QED  BY <1>0, <1>5, <2>1, FewerKeeps DEF wait_and_pop_sleep
<1>6. ASSUME NEW t \in Threads, Tq_spurious(t) PROVE TqInv'
  <2>1. items' \in Nat /\ items' <= items
    BY <1>0, <1>6 DEF Tq_spurious
  <2> QED  BY <1>0, <1>6, <2>1, FewerKeeps DEF Tq_spurious
<1>7. CASE UNCHANGED tqVars
  BY <1>7 DEF tqVars, TqInv, TqType, PoppersWoken
<1> QED  BY <1>1, <1>2, <1>3, <1>4, <1>5, <1>6, <1>7 DEF TqNext

(* While a thread sleeps in wait_and_pop, at least as many are awake in it as
   there are items (push, wait_and_pop and try_pop of threadsafe_queue.hpp). *)
THEOREM NoPopperForgotten == TqSpec => []PoppersWoken
<1>1. TqInit => TqInv
  BY DEF TqInit, TqInv, TqType, PoppersWoken
<1>2. TqInv => PoppersWoken
  BY DEF TqInv
<1> QED  BY <1>1, <1>2, TqStep, PTL DEF TqSpec

-----------------------------------------------------------------------------
(* The countdown latch. *)

\* Whoever sleeps is inside Wait.
LatchInv ==
  /\ waiter \in [Threads -> {"out", "waiting", "passed"}]
  /\ cvAsleep \subseteq {t \in Threads : waiter[t] = "waiting"}
  /\ OneIsWoken

LEMMA LatchStep == LatchInv /\ [LatchNext]_latchVars => LatchInv'
<1> SUFFICES ASSUME LatchInv, [LatchNext]_latchVars PROVE LatchInv'
  OBVIOUS
<1>1. CASE Countdown
  <2>1. /\ waiter' = waiter /\ cvAsleep' \subseteq cvAsleep
        /\ count_' = 0 /\ cvAsleep # {} => \E t \in cvAsleep : t \notin cvAsleep'
    BY <1>1 DEF Countdown, NotifyOne
  <2>2. ASSUME count_' = 0, cvAsleep' # {}
        PROVE  \E t \in Threads \ cvAsleep' : waiter'[t] # "out"
    <3>1. PICK t \in cvAsleep : t \notin cvAsleep'
      BY <2>1, <2>2
    <3>2. t \in Threads /\ waiter'[t] = "waiting"
      BY <2>1 DEF LatchInv
    <3> QED  BY <3>1, <3>2
  <2> QED  BY <2>1, <2>2 DEF LatchInv, OneIsWoken
<1>2. ASSUME NEW t \in Threads, Wait(t) PROVE LatchInv'
  <2>1. t \notin cvAsleep' /\ waiter'[t] = "passed"
    BY <1>2 DEF Wait, AtWait, LatchInv
  <2> QED  BY <1>2, <2>1 DEF Wait, AtWait, LatchInv, OneIsWoken
<1>3. ASSUME NEW t \in Threads, Wait_sleep(t) PROVE LatchInv'
  BY <1>3 DEF Wait_sleep, AtWait, LatchInv, OneIsWoken
<1>4. ASSUME NEW t \in Threads, Wait_spurious(t) PROVE LatchInv'
  <2>1. t \notin cvAsleep' /\ waiter'[t] = "waiting"
    BY <1>4 DEF Wait_spurious, LatchInv
  <2> QED  BY <1>4, <2>1 DEF Wait_spurious, LatchInv, OneIsWoken
<1>5. CASE UNCHANGED latchVars
  BY <1>5 DEF latchVars, LatchInv, OneIsWoken
<1> QED  BY <1>1, <1>2, <1>3, <1>4, <1>5 DEF LatchNext

(* When the count is 0 not everybody who waited for it is asleep: Countdown
   notified one, who passes (countdown_latch.h). *)
THEOREM LatchWakesOne == LatchSpec => []OneIsWoken
<1>1. LatchInit => LatchInv
  BY DEF LatchInit, LatchInv, OneIsWoken
<1>2. LatchInv => OneIsWoken
  BY DEF LatchInv
<1> QED  BY <1>1, <1>2, LatchStep, PTL DEF LatchSpec

-----------------------------------------------------------------------------
(* The bounded buffer, for any capacity. *)

Places == {"test", "false", "done"}

BufferType ==
  /\ size \in 0..cap_
  /\ stop_ \in BOOLEAN
  /\ call \in [Threads -> {Outside} \cup Ops \X Places]
  /\ cv \in [Ops -> SUBSET Threads]

\* Who sleeps is in the call that the condition variable is for.
SleepersCalled == \A op \in Ops : \A t \in cv[op] : call[t] = <<op, "test">>

\* The items that GetFront can take, the places that Push can fill.
Avail(op) == IF op = "get" THEN size ELSE cap_ - size

\* Who found nothing and is not asleep yet has the mutex: there is still nothing.
FalseStays == \A t \in Threads, op \in Ops : call[t] = <<op, "false">> => Avail(op) = 0

\* EnoughAwake, for one operation.
Enough(op) == ~stop_ /\ cv[op] # {} => Avail(op) <= Cardinality(Awake(op))

BufferInv ==
  BufferType /\ SleepersCalled /\ FalseStays /\ \A op \in Ops : Enough(op)

-----------------------------------------------------------------------------
LEMMA CountAwake ==
  ASSUME NEW S, S \subseteq Threads PROVE IsFiniteSet(S) /\ Cardinality(S) \in Nat
BY CallersAssumption, FS_Subset, FS_CardinalityType

LEMMA AvailCounts == ASSUME BufferType PROVE \A op \in Ops : Avail(op) \in Nat
BY CapAssumption DEF BufferType, Avail

LEMMA NextAvailCounts == ASSUME BufferType' PROVE \A op \in Ops : Avail(op)' \in Nat
<1>1. size' \in 0..cap_
  BY DEF BufferType
<1>2. \A n \in 0..cap_ : n \in Nat /\ cap_ - n \in Nat
  BY CapAssumption
<1>3. size' \in Nat /\ cap_ - size' \in Nat
  BY <1>1, <1>2
<1> QED  BY <1>3 DEF Avail

LEMMA AvailStays == ASSUME UNCHANGED size, NEW op PROVE Avail(op)' = Avail(op)
BY DEF Avail

\* No less awake and no more to do.
LEMMA MoreAwake ==
  ASSUME BufferType, BufferType', NEW op \in Ops, Enough(op), UNCHANGED stop_,
         cv[op] # {}, Avail(op)' <= Avail(op), Awake(op) \subseteq Awake(op)'
  PROVE  Enough(op)'
<1>1. Awake(op) \subseteq Threads /\ Awake(op)' \subseteq Threads
  BY DEF Awake
<1>2. Cardinality(Awake(op)) <= Cardinality(Awake(op)')
  BY <1>1, CountAwake, FS_Subset
<1>3. Cardinality(Awake(op)) \in Nat /\ Cardinality(Awake(op)') \in Nat
  BY <1>1, CountAwake
<1>4. Avail(op) \in Nat /\ Avail(op)' \in Nat
  BY AvailCounts, NextAvailCounts
<1>5. SUFFICES ASSUME ~stop_ PROVE Avail(op)' <= Cardinality(Awake(op)')
  BY DEF Enough
<1>6. Avail(op) <= Cardinality(Awake(op))
  BY <1>5 DEF Enough
<1> QED  BY <1>2, <1>3, <1>4, <1>6

\* One less awake, and one less to do.
LEMMA BothLess ==
  ASSUME BufferType, BufferType', NEW op \in Ops, Enough(op), UNCHANGED stop_,
         cv[op] # {}, Avail(op)' = Avail(op) - 1,
         NEW t \in Awake(op), Awake(op)' = Awake(op) \ {t}
  PROVE  Enough(op)'
<1>1. Awake(op) \subseteq Threads
  BY DEF Awake
<1>2. Cardinality(Awake(op)') = Cardinality(Awake(op)) - 1
  BY <1>1, CountAwake, FS_RemoveElement
<1>3. Cardinality(Awake(op)) \in Nat /\ Avail(op) \in Nat
  BY <1>1, CountAwake, AvailCounts
<1>4. SUFFICES ASSUME ~stop_ PROVE Avail(op)' <= Cardinality(Awake(op)')
  BY DEF Enough
<1>5. Avail(op) <= Cardinality(Awake(op))
  BY <1>4 DEF Enough
<1> QED  BY <1>2, <1>3, <1>5

\* One more awake, and one more to do.
LEMMA BothMore ==
  ASSUME BufferType, BufferType', NEW op \in Ops, Enough(op), UNCHANGED stop_,
         cv[op] # {}, Avail(op)' = Avail(op) + 1,
         NEW t \in Threads \ Awake(op), Awake(op)' = Awake(op) \cup {t}
  PROVE  Enough(op)'
<1>1. Awake(op) \subseteq Threads
  BY DEF Awake
<1>2. Cardinality(Awake(op)') = Cardinality(Awake(op)) + 1
  BY <1>1, CountAwake, FS_AddElement
<1>3. Cardinality(Awake(op)) \in Nat /\ Avail(op) \in Nat
  BY <1>1, CountAwake, AvailCounts
<1>4. SUFFICES ASSUME ~stop_ PROVE Avail(op)' <= Cardinality(Awake(op)')
  BY DEF Enough
<1>5. Avail(op) <= Cardinality(Awake(op))
  BY <1>4 DEF Enough
<1> QED  BY <1>2, <1>3, <1>5

\* The same number awake, one for another.
LEMMA SameAwake ==
  ASSUME BufferType, BufferType', NEW op \in Ops, Enough(op), UNCHANGED <<stop_, size>>,
         cv[op] # {}, NEW t \in Awake(op), NEW u \in Threads \ Awake(op),
         Awake(op)' = (Awake(op) \ {t}) \cup {u}
  PROVE  Enough(op)'
<1>1. Awake(op) \subseteq Threads
  BY DEF Awake
<1>2. /\ IsFiniteSet(Awake(op) \ {t}) /\ u \notin Awake(op) \ {t}
      /\ Cardinality(Awake(op) \ {t}) = Cardinality(Awake(op)) - 1
  BY <1>1, CountAwake, FS_RemoveElement
<1>3. Cardinality(Awake(op)') = Cardinality(Awake(op) \ {t}) + 1
  BY <1>2, FS_AddElement
<1>4. Cardinality(Awake(op)) \in Nat
  BY <1>1, CountAwake
<1>5. Cardinality(Awake(op)') = Cardinality(Awake(op))
  BY <1>2, <1>3, <1>4
<1> QED  BY <1>5, AvailStays DEF Enough

-----------------------------------------------------------------------------
LEMMA BufferInitially == BufferInit => BufferInv
<1> SUFFICES ASSUME BufferInit PROVE BufferInv
  OBVIOUS
<1>1. /\ size = 0 /\ stop_ = FALSE /\ \A op \in Ops : cv[op] = {}
      /\ \A t \in Threads, op \in Ops : call[t] # <<op, "false">>
  BY DEF BufferInit, Outside
<1>2. BufferType
  <2>1. size \in 0..cap_
    BY <1>1, CapAssumption
  <2>2. call \in [Threads -> {Outside} \cup Ops \X Places]
    BY DEF BufferInit
  <2>3. cv \in [Ops -> SUBSET Threads]
    BY DEF BufferInit
  <2>4. stop_ \in BOOLEAN
    BY <1>1
  <2> QED  BY <2>1, <2>2, <2>3, <2>4 DEF BufferType
<1> QED  BY <1>1, <1>2 DEF BufferInv, SleepersCalled, FalseStays, Enough

LEMMA TwoOps ==
  ASSUME NEW op \in Ops
  PROVE  /\ Other(op) \in Ops /\ op # Other(op) /\ Other(Other(op)) = op
         /\ \A o \in Ops : o = op \/ o = Other(op)
BY DEF Ops, Other

\* Where each thread is after one has gone on.
LEMMA Gone ==
  ASSUME BufferType, NEW t \in Threads, NEW to \in {Outside} \cup Ops \X Places,
         call' = [call EXCEPT ![t] = to]
  PROVE  /\ call' \in [Threads -> {Outside} \cup Ops \X Places]
         /\ call'[t] = to /\ \A u \in Threads : u # t => call'[u] = call[u]
BY DEF BufferType

LEMMA PlacesDiffer ==
  ASSUME NEW op \in Ops, NEW o \in Ops
  PROVE  /\ <<op, "test">> # Outside /\ <<op, "false">> # Outside /\ <<op, "done">> # Outside
         /\ <<op, "test">> # <<o, "false">> /\ <<op, "test">> # <<o, "done">>
         /\ <<op, "false">> # <<o, "done">>
         /\ (op # o => <<op, "test">> # <<o, "test">> /\ <<op, "done">> # <<o, "done">>
                       /\ <<op, "false">> # <<o, "false">>)
BY DEF Outside

LEMMA InPlaces ==
  ASSUME NEW op \in Ops
  PROVE  /\ <<op, "test">> \in {Outside} \cup Ops \X Places
         /\ <<op, "false">> \in {Outside} \cup Ops \X Places
         /\ <<op, "done">> \in {Outside} \cup Ops \X Places
         /\ Outside \in {Outside} \cup Ops \X Places
BY DEF Places

\* A new call is awake.
LEMMA EnterKeeps ==
  ASSUME BufferInv, NEW t \in Threads, NEW op \in Ops, Enter(t, op) PROVE BufferInv'
<1>1. /\ call[t] = Outside /\ call' = [call EXCEPT ![t] = <<op, "test">>]
      /\ UNCHANGED <<size, stop_, cv>>
  BY DEF Enter, Goto
<1>2. /\ call' \in [Threads -> {Outside} \cup Ops \X Places]
      /\ call'[t] = <<op, "test">> /\ \A u \in Threads : u # t => call'[u] = call[u]
  BY <1>1, Gone, InPlaces DEF BufferInv
<1>3. BufferType'
  BY <1>1, <1>2 DEF BufferInv, BufferType
<1>4. SleepersCalled'
  <2>1. \A o \in Ops : t \notin cv[o]
    BY <1>1, PlacesDiffer DEF BufferInv, SleepersCalled
  <2> QED  BY <1>1, <1>2, <2>1 DEF BufferInv, BufferType, SleepersCalled
<1>5. FalseStays'
  BY <1>1, <1>2, PlacesDiffer, AvailStays DEF BufferInv, FalseStays
<1>6. ASSUME NEW o \in Ops PROVE Enough(o)'
  <2>1. Awake(o) \subseteq Awake(o)'
    BY <1>1, <1>2, PlacesDiffer, TwoOps DEF Awake
  <2>2. CASE cv[o] = {}
    BY <1>1, <2>2 DEF Enough
  <2>3. CASE cv[o] # {}
    <3>1. Avail(o)' <= Avail(o)
      BY <1>1, AvailStays, AvailCounts DEF BufferInv
    <3> QED  BY <1>1, <1>3, <2>1, <2>3, <3>1, MoreAwake DEF BufferInv
  <2> QED  BY <2>2, <2>3
<1> QED  BY <1>3, <1>4, <1>5, <1>6 DEF BufferInv

\* One who does not wait any more has taken what he was counted for, and will
\* notify the other side of what he has made available.
LEMMA ProceedKeeps ==
  ASSUME BufferInv, NEW t \in Threads, NEW op \in Ops, Proceed(t, op) PROVE BufferInv'
<1>1. /\ call[t] = <<op, "test">> /\ t \notin cv[op] /\ LockMutex /\ ~stop_ /\ Ready(op)
      /\ size' = IF op = "get" THEN size - 1 ELSE size + 1
      /\ call' = [call EXCEPT ![t] = <<op, "done">>]
      /\ UNCHANGED <<stop_, cv>>
  BY DEF Proceed, Tests, Goto
<1>2. /\ call' \in [Threads -> {Outside} \cup Ops \X Places]
      /\ call'[t] = <<op, "done">> /\ \A u \in Threads : u # t => call'[u] = call[u]
  BY <1>1, Gone, InPlaces DEF BufferInv
<1>3. /\ size \in 0..cap_ /\ size' \in 0..cap_
      /\ Avail(op)' = Avail(op) - 1 /\ Avail(Other(op))' = Avail(Other(op)) + 1
  <2>1. size \in 0..cap_
    BY DEF BufferInv, BufferType
  <2> QED  BY <1>1, <2>1, CapAssumption DEF Ready, Avail, Ops, Other
<1>4. BufferType'
  BY <1>1, <1>2, <1>3 DEF BufferInv, BufferType
<1>5. SleepersCalled'
  <2>1. \A o \in Ops : t \notin cv[o]
    BY <1>1, PlacesDiffer DEF BufferInv, SleepersCalled
  <2> QED  BY <1>1, <1>2, <2>1 DEF BufferInv, BufferType, SleepersCalled
<1>6. FalseStays'
  <2>1. \A u \in Threads, o \in Ops : call[u] # <<o, "false">>
    BY <1>1 DEF LockMutex
  <2> QED  BY <1>2, <2>1, PlacesDiffer DEF FalseStays
<1>7. /\ t \in Awake(op) /\ Awake(op)' = Awake(op) \ {t}
      /\ t \notin Awake(Other(op)) /\ Awake(Other(op))' = Awake(Other(op)) \cup {t}
  BY <1>1, <1>2, PlacesDiffer, TwoOps DEF Awake
<1>8. Enough(op)'
  <2>1. CASE cv[op] = {}
    BY <1>1, <2>1 DEF Enough
  <2>2. CASE cv[op] # {}
    BY <1>1, <1>3, <1>4, <1>7, <2>2, BothLess DEF BufferInv
  <2> QED  BY <2>1, <2>2
<1>9. Enough(Other(op))'
  <2>1. CASE cv[Other(op)] = {}
    BY <1>1, <2>1 DEF Enough
  <2>2. CASE cv[Other(op)] # {}
    BY <1>1, <1>3, <1>4, <1>7, <2>2, TwoOps, BothMore DEF BufferInv
  <2> QED  BY <2>1, <2>2
<1> QED  BY <1>4, <1>5, <1>6, <1>8, <1>9, TwoOps DEF BufferInv

\* Who notifies is replaced by the one he wakes; if he wakes nobody, nobody sleeps.
LEMMA NotifyKeeps ==
  ASSUME BufferInv, NEW t \in Threads, NEW op \in Ops, Notify(t, op) PROVE BufferInv'
<1> DEFINE o == Other(op)
<1>1. PICK asleep \in NotifyOne(cv[o]) : cv' = [cv EXCEPT ![o] = asleep]
  BY DEF Notify
<1>2. /\ call[t] = <<op, "done">> /\ call' = [call EXCEPT ![t] = Outside]
      /\ UNCHANGED <<size, stop_>>
  BY DEF Notify
<1>3. /\ call' \in [Threads -> {Outside} \cup Ops \X Places]
      /\ call'[t] = Outside /\ \A u \in Threads : u # t => call'[u] = call[u]
  BY <1>2, Gone, InPlaces DEF BufferInv
<1>4. /\ o \in Ops /\ cv[o] \subseteq Threads /\ cv'[o] = asleep /\ cv'[op] = cv[op]
      /\ \/ cv[o] = {} /\ asleep = {}
         \/ \E u \in cv[o] : asleep = cv[o] \ {u}
  BY <1>1, TwoOps DEF BufferInv, BufferType, NotifyOne
<1>5. BufferType'
  BY <1>1, <1>2, <1>3, <1>4 DEF BufferInv, BufferType
<1>6. \A p \in Ops : t \notin cv[p] /\ cv'[p] \subseteq cv[p]
  <2>1. \A p \in Ops : t \notin cv[p]
    BY <1>2, PlacesDiffer DEF BufferInv, SleepersCalled
  <2> QED  BY <1>4, <2>1, TwoOps
<1>7. SleepersCalled'
  BY <1>3, <1>6 DEF BufferInv, BufferType, SleepersCalled
<1>8. FalseStays'
  BY <1>2, <1>3, PlacesDiffer, AvailStays DEF BufferInv, FalseStays
<1>9. Enough(op)'
  <2>1. Awake(op)' = Awake(op)
    BY <1>2, <1>3, <1>4, PlacesDiffer, TwoOps DEF Awake
  <2> QED  BY <1>2, <1>4, <2>1, AvailStays DEF BufferInv, Enough
<1>10. Enough(o)'
  <2>1. CASE asleep = {}
    BY <1>4, <2>1 DEF Enough
  <2>2. CASE asleep # {}
    <3>1. PICK u \in cv[o] : asleep = cv[o] \ {u}
      BY <1>4, <2>2
    <3>2. call[u] = <<o, "test">> /\ u \in Threads /\ u # t
      BY <1>4, <1>6, <3>1 DEF BufferInv, SleepersCalled
    <3>3. /\ t \in Awake(o) /\ u \in Threads \ Awake(o)
          /\ Awake(o)' = (Awake(o) \ {t}) \cup {u}
      <4>1. t \in Awake(o) /\ u \in Threads /\ u \notin Awake(o)
        BY <1>2, <1>4, <3>1, <3>2, PlacesDiffer, TwoOps DEF Awake
      <4>2. t \notin Awake(o)' /\ u \in Awake(o)'
        BY <1>3, <1>4, <3>1, <3>2, PlacesDiffer, TwoOps DEF Awake
      <4>3. \A x \in Threads \ {t, u} : x \in Awake(o)' <=> x \in Awake(o)
        <5>1. \A x \in Threads \ {t, u} : call'[x] = call[x]
          BY <1>3
        <5>2. \A x \in Threads \ {t, u} : x \in cv'[o] <=> x \in cv[o]
          BY <1>4, <3>1
        <5> QED  BY <5>1, <5>2 DEF Awake
      <4>4. Awake(o) \subseteq Threads /\ Awake(o)' \subseteq Threads
        BY DEF Awake
      <4> QED  BY <4>1, <4>2, <4>3, <4>4
    <3>4. cv[o] # {} /\ Enough(o)
      BY <1>4, <3>1 DEF BufferInv
    <3> QED  BY <1>2, <1>4, <1>5, <3>3, <3>4, SameAwake DEF BufferInv
  <2> QED  BY <2>1, <2>2
<1> QED  BY <1>5, <1>7, <1>8, <1>9, <1>10, TwoOps DEF BufferInv

\* When stop_ is set nothing is promised about wake-ups.
LEMMA StoppedKeeps ==
  ASSUME BufferInv, NEW t \in Threads, NEW op \in Ops, ReturnStopped(t, op)
  PROVE  BufferInv'
<1>1. /\ stop_ /\ call[t] = <<op, "test">> /\ t \notin cv[op]
      /\ call' = [call EXCEPT ![t] = Outside] /\ UNCHANGED <<size, stop_, cv>>
  BY DEF ReturnStopped, Tests
<1>2. /\ call' \in [Threads -> {Outside} \cup Ops \X Places]
      /\ call'[t] = Outside /\ \A u \in Threads : u # t => call'[u] = call[u]
  BY <1>1, Gone, InPlaces DEF BufferInv
<1>3. BufferType'
  BY <1>1, <1>2 DEF BufferInv, BufferType
<1>4. SleepersCalled'
  <2>1. \A o \in Ops : t \notin cv[o]
    BY <1>1, PlacesDiffer DEF BufferInv, SleepersCalled
  <2> QED  BY <1>1, <1>2, <2>1 DEF BufferInv, BufferType, SleepersCalled
<1>5. FalseStays'
  BY <1>1, <1>2, PlacesDiffer, AvailStays DEF BufferInv, FalseStays
<1> QED  BY <1>1, <1>3, <1>4, <1>5 DEF BufferInv, Enough

\* With nothing to do it takes nobody awake.
LEMMA FindFalseKeeps ==
  ASSUME BufferInv, NEW t \in Threads, NEW op \in Ops, FindFalse(t, op) PROVE BufferInv'
<1>1. /\ call[t] = <<op, "test">> /\ t \notin cv[op] /\ ~Ready(op)
      /\ call' = [call EXCEPT ![t] = <<op, "false">>] /\ UNCHANGED <<size, stop_, cv>>
  BY DEF FindFalse, Tests, Goto
<1>2. /\ call' \in [Threads -> {Outside} \cup Ops \X Places]
      /\ call'[t] = <<op, "false">> /\ \A u \in Threads : u # t => call'[u] = call[u]
  BY <1>1, Gone, InPlaces DEF BufferInv
<1>3. BufferType'
  BY <1>1, <1>2 DEF BufferInv, BufferType
<1>4. SleepersCalled'
  <2>1. \A o \in Ops : t \notin cv[o]
    BY <1>1, PlacesDiffer DEF BufferInv, SleepersCalled
  <2> QED  BY <1>1, <1>2, <2>1 DEF BufferInv, BufferType, SleepersCalled
<1>5. Avail(op) = 0
  <2>1. size \in 0..cap_
    BY DEF BufferInv, BufferType
  <2> QED  BY <1>1, <2>1, CapAssumption DEF Ready, Avail, Ops
<1>6. FalseStays'
  <2>1. \A u \in Threads, o \in Ops : call'[u] = <<o, "false">> => Avail(o) = 0
    BY <1>1, <1>2, <1>5, PlacesDiffer DEF BufferInv, FalseStays
  <2> QED  BY <1>1, <2>1, AvailStays DEF FalseStays
<1>7. Enough(op)'
  <2>1. Awake(op)' \subseteq Threads
    BY DEF Awake
  <2>2. Avail(op)' = 0 /\ Cardinality(Awake(op)') \in Nat
    BY <1>1, <1>5, <2>1, AvailStays, CountAwake
  <2> QED  BY <2>2 DEF Enough
<1>8. Enough(Other(op))'
  <2>1. Awake(Other(op))' = Awake(Other(op))
    BY <1>1, <1>2, PlacesDiffer, TwoOps DEF Awake
  <2>2. Avail(Other(op))' = Avail(Other(op)) /\ Enough(Other(op))
    BY <1>1, AvailStays, TwoOps DEF BufferInv
  <2> QED  BY <1>1, <2>1, <2>2 DEF Enough
<1> QED  BY <1>3, <1>4, <1>6, <1>7, <1>8, TwoOps DEF BufferInv

LEMMA FallAsleepKeeps ==
  ASSUME BufferInv, NEW t \in Threads, NEW op \in Ops, FallAsleep(t, op) PROVE BufferInv'
<1>1. /\ call[t] = <<op, "false">> /\ cv' = [cv EXCEPT ![op] = @ \cup {t}]
      /\ call' = [call EXCEPT ![t] = <<op, "test">>] /\ UNCHANGED <<size, stop_>>
  BY DEF FallAsleep, Goto
<1>2. /\ call' \in [Threads -> {Outside} \cup Ops \X Places]
      /\ call'[t] = <<op, "test">> /\ \A u \in Threads : u # t => call'[u] = call[u]
  BY <1>1, Gone, InPlaces DEF BufferInv
<1>3. cv'[op] = cv[op] \cup {t} /\ cv'[Other(op)] = cv[Other(op)]
  BY <1>1, TwoOps DEF BufferInv, BufferType
<1>4. BufferType'
  BY <1>1, <1>2 DEF BufferInv, BufferType
<1>5. SleepersCalled'
  <2>1. \A o \in Ops : t \notin cv[o]
    BY <1>1, PlacesDiffer DEF BufferInv, SleepersCalled
  <2>2. \A u \in cv[op] : u \in Threads /\ call[u] = <<op, "test">>
    BY DEF BufferInv, BufferType, SleepersCalled
  <2>3. \A u \in cv[Other(op)] : u \in Threads /\ call[u] = <<Other(op), "test">>
    BY TwoOps DEF BufferInv, BufferType, SleepersCalled
  <2>4. \A u \in cv'[op] : call'[u] = <<op, "test">>
    BY <1>2, <1>3, <2>1, <2>2
  <2>5. \A u \in cv'[Other(op)] : call'[u] = <<Other(op), "test">>
    BY <1>2, <1>3, <2>1, <2>3, TwoOps
  <2> QED  BY <2>4, <2>5, TwoOps DEF SleepersCalled
<1>6. FalseStays'
  BY <1>1, <1>2, PlacesDiffer, AvailStays DEF BufferInv, FalseStays
<1>7. Enough(op)'
  <2>1. Awake(op)' \subseteq Threads /\ Avail(op) = 0
    BY <1>1 DEF Awake, BufferInv, FalseStays
  <2>2. Avail(op)' = 0 /\ Cardinality(Awake(op)') \in Nat
    BY <1>1, <2>1, AvailStays, CountAwake
  <2> QED  BY <2>2 DEF Enough
<1>8. Enough(Other(op))'
  <2>1. Awake(Other(op))' = Awake(Other(op))
    BY <1>1, <1>2, <1>3, PlacesDiffer, TwoOps DEF Awake
  <2>2. Avail(Other(op))' = Avail(Other(op)) /\ Enough(Other(op))
    BY <1>1, AvailStays, TwoOps DEF BufferInv
  <2> QED  BY <1>1, <1>3, <2>1, <2>2 DEF Enough
<1> QED  BY <1>4, <1>5, <1>6, <1>7, <1>8, TwoOps DEF BufferInv

LEMMA SpuriousKeeps ==
  ASSUME BufferInv, NEW t \in Threads, NEW op \in Ops, Buffer_spurious(t, op)
  PROVE  BufferInv'
<1>1. cv' = [cv EXCEPT ![op] = @ \ {t}] /\ UNCHANGED <<size, stop_, call>>
  BY DEF Buffer_spurious
<1>2. BufferType' /\ \A o \in Ops : cv'[o] \subseteq cv[o]
  BY <1>1 DEF BufferInv, BufferType
<1>3. SleepersCalled' /\ FalseStays'
  BY <1>1, <1>2, AvailStays DEF BufferInv, SleepersCalled, FalseStays
<1>4. ASSUME NEW o \in Ops PROVE Enough(o)'
  <2>1. CASE cv[o] = {}
    BY <1>2, <2>1 DEF Enough
  <2>2. CASE cv[o] # {}
    <3>1. Awake(o) \subseteq Awake(o)'
      BY <1>1, <1>2 DEF Awake
    <3>2. Avail(o)' <= Avail(o)
      BY <1>1, AvailStays, AvailCounts DEF BufferInv
    <3> QED  BY <1>1, <1>2, <2>2, <3>1, <3>2, MoreAwake DEF BufferInv
  <2> QED  BY <2>1, <2>2
<1> QED  BY <1>2, <1>3, <1>4 DEF BufferInv

LEMMA DestroyKeeps ==
  ASSUME BufferInv, Destroy \/ Destroying \/ UNCHANGED bufferVars PROVE BufferInv'
<1>1. CASE Destroy
  <2>1. stop_' = TRUE /\ UNCHANGED <<size, cv, call>>
    BY <1>1 DEF Destroy
  <2> QED  BY <2>1, AvailStays DEF BufferInv, BufferType, SleepersCalled, FalseStays, Enough
<1>2. CASE Destroy_notify
  <2>1. cv' \in [Ops -> {{}}] /\ UNCHANGED <<size, stop_, call>>
    BY <1>2 DEF Destroy_notify, NotifyAll
  <2>2. \A o \in Ops : cv'[o] = {}
    BY <2>1
  <2>3. BufferType' /\ SleepersCalled' /\ \A o \in Ops : Enough(o)'
    BY <2>1, <2>2 DEF BufferInv, BufferType, SleepersCalled, Enough
  <2>4. FalseStays'
    BY <2>1, AvailStays DEF BufferInv, FalseStays
  <2> QED  BY <2>3, <2>4 DEF BufferInv
<1>3. CASE Destroy_leave \/ UNCHANGED bufferVars
  <2>1. UNCHANGED <<size, stop_, cv, call>>
    BY <1>3 DEF Destroy_leave, bufferVars
  <2>2. \A o \in Ops : Awake(o)' = Awake(o) /\ Avail(o)' = Avail(o)
    BY <2>1, AvailStays DEF Awake
  <2> QED  BY <2>1, <2>2 DEF BufferInv, BufferType, SleepersCalled, FalseStays, Enough
<1> QED  BY <1>1, <1>2, <1>3 DEF Destroying

-----------------------------------------------------------------------------
\* As many are awake as there is to do, on both sides, so nobody sleeps in
\* GetFront beside an item, or in Push beside a free place, that no thread on its
\* way will see to (bounded_buffer_queue.h:24-56).
THEOREM NoCallForgotten == BufferSpec => []EnoughAwake
<1>1. BufferInv /\ [BufferNext]_bufferVars => BufferInv'
  <2> SUFFICES ASSUME BufferInv, [BufferNext]_bufferVars PROVE BufferInv'
    OBVIOUS
  <2>1. ASSUME NEW t \in Threads, Continue(t) PROVE BufferInv'
    BY <2>1, ProceedKeeps, NotifyKeeps, StoppedKeeps, FindFalseKeeps, FallAsleepKeeps
       DEF Continue
  <2>2. ASSUME NEW t \in Threads, NEW op \in Ops, Enter(t, op) \/ Buffer_spurious(t, op)
        PROVE  BufferInv'
    BY <2>2, EnterKeeps, SpuriousKeeps
  <2> QED  BY <2>1, <2>2, DestroyKeeps DEF BufferNext
<1>2. BufferInv => EnoughAwake
  BY DEF BufferInv, Enough, EnoughAwake, Avail, Ops
<1> QED  BY <1>1, <1>2, BufferInitially, PTL DEF BufferSpec
=============================================================================
