------------------------------- MODULE CondVar -------------------------------
(***************************************************************************)
(* std::mutex and std::condition_variable as the components use them.      *)
(*                                                                         *)
(* A condition variable is the set of the threads asleep on it.            *)
(* cv.wait(lck, pred) tests pred with the mutex locked, and if it is false *)
(* releases the mutex and falls asleep in one step; a thread that is woken *)
(* locks the mutex and tests again; a sleep may also end unnotified.  Code *)
(* between locking and unlocking or falling asleep is one action where all *)
(* it touches is only touched under the mutex.                             *)
(***************************************************************************)
EXTENDS Callers

\* Who is still asleep after notify_one: one thread less, if there was any.
NotifyOne(asleep) == IF asleep = {} THEN {{}} ELSE {asleep \ {t} : t \in asleep}

\* The same after notify_all.
NotifyAll(asleep) == {{}}
=============================================================================
