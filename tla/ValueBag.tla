------------------------------ MODULE ValueBag ------------------------------
(***************************************************************************)
(* What the skip list promises: a bag of values; search says whether a     *)
(* value is in it, erase takes one copy out and says whether there was one.*)
(***************************************************************************)
EXTENDS Integers

CONSTANT Vals
VARIABLES
  copies,   \* how many copies of each value
  last      \* the last call: its name, its value and what it returned

Init == copies = [v \in Vals |-> 0] /\ last = <<"none">>

Add(v) == copies' = [copies EXCEPT ![v] = @ + 1] /\ last' = <<"add", v>>
Search(v) == last' = <<"search", v, copies[v] > 0>> /\ UNCHANGED copies
Erase(v) ==
  /\ last' = <<"erase", v, copies[v] > 0>>
  /\ copies' = [copies EXCEPT ![v] = IF @ > 0 THEN @ - 1 ELSE 0]

Next == \E v \in Vals : Add(v) \/ Search(v) \/ Erase(v)

Spec == Init /\ [][Next]_<<copies, last>>
=============================================================================
