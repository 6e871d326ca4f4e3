------------------------------- MODULE MCSync -------------------------------
(***************************************************************************)
(* The components built on std::condition_variable, for TLC.  They have    *)
(* nothing to do with each other, and a behaviour is one of one of them,   *)
(* the subject; the state of the others stays as it is.                    *)
(***************************************************************************)
EXTENDS RwLock, CountdownLatch, BoundedBuffer, ThreadPool, ThreadsafeQueue

CONSTANT Subjects
VARIABLE subject

vars == <<subject, rwVars, latchVars, bufferVars, poolVars, tqVars>>

Init ==
  /\ subject \in Subjects
  /\ RwInit /\ LatchInit /\ BufferInit /\ PoolInit /\ TqInit

Next ==
  /\ UNCHANGED subject
  /\ \/ subject = "rwlock" /\ RwNext /\ UNCHANGED <<latchVars, bufferVars, poolVars, tqVars>>
     \/ subject = "latch" /\ LatchNext /\ UNCHANGED <<rwVars, bufferVars, poolVars, tqVars>>
     \/ subject = "buffer" /\ BufferNext /\ UNCHANGED <<rwVars, latchVars, poolVars, tqVars>>
     \/ subject = "pool" /\ PoolNext /\ UNCHANGED <<rwVars, latchVars, bufferVars, tqVars>>
     \/ subject = "queue" /\ TqNext /\ UNCHANGED <<rwVars, latchVars, bufferVars, poolVars>>

Spec == Init /\ [][Next]_vars

FairSpec ==
  /\ Spec
  /\ subject = "buffer" => BufferFairness
  /\ subject = "pool" => PoolFairness
=============================================================================
