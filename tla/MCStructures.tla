---------------------------- MODULE MCStructures ----------------------------
(***************************************************************************)
(* The data structures, for TLC.  They have nothing to do with each other, *)
(* and a behaviour is one of one of them, the subject; the state of the    *)
(* others stays as it is.                                                  *)
(***************************************************************************)
EXTENDS StockFactory, ThreadsafeList, LookupTable, Skiplist, Minipool

CONSTANT Subjects
VARIABLE subject

vars == <<subject, stockVars, listVars, tableVars, skipVars, miniVars>>

Init ==
  /\ subject \in Subjects
  /\ StockInit /\ ListInit /\ TableInit /\ SkipInit /\ MiniInit

Next ==
  /\ UNCHANGED subject
  /\ \/ subject = "stocks" /\ StockNext /\ UNCHANGED <<listVars, tableVars, skipVars, miniVars>>
     \/ subject = "list" /\ ListNext /\ UNCHANGED <<stockVars, tableVars, skipVars, miniVars>>
     \/ subject = "table" /\ TableNext /\ UNCHANGED <<stockVars, listVars, skipVars, miniVars>>
     \/ subject = "skiplist" /\ SkipNext /\ UNCHANGED <<stockVars, listVars, tableVars, miniVars>>
     \/ subject = "minipool" /\ MiniNext /\ UNCHANGED <<stockVars, listVars, tableVars, skipVars>>

Spec == Init /\ [][Next]_vars

FairSpec == Spec /\ (subject = "list" => ListFairness)

\* Hashes for TLC: two keys of one bucket, one of another, one out of range.
MCHash == <<1, 5, 2, 3>>
=============================================================================
