------------------------------ MODULE Skiplist ------------------------------
(***************************************************************************)
(* The skip list of skiplist.hpp: rows of nodes linked to the right, each  *)
(* row with a head node of its own, and links down.  The coin that decides *)
(* how high a new value goes may show anything.                            *)
(***************************************************************************)
EXTENDS Integers, Sequences, FiniteSets

CONSTANTS
  Vals,        \* the values: integers
  NumNodes     \* bound: how many nodes there is memory for
ASSUME ValsAssumption == Vals \subseteq Int
ASSUME FirstHeadAssumption == NumNodes \in Nat \ {0}

Addr == 1..NumNodes
Null == 0      \* nullptr

VARIABLES
  node,     \* memory: val, right and down of each address
  alloc,    \* the addresses in use
  head,
  result     \* the last call: its name, its value and what it returned

skipVars == <<node, alloc, head, result>>

\* A new node is put at the lowest free address.
FreeAddr(k) ==
  CHOOSE a \in Addr \ alloc : Cardinality({b \in Addr \ alloc : b <= a}) = k
Room(k) == Cardinality(Addr \ alloc) >= k

Blank == [val |-> 0, right |-> Null, down |-> Null]

SkipInit ==
  /\ node = [a \in Addr |-> Blank]
  /\ alloc = {1}
  /\ head = 1
  /\ result = <<"none">>

\* Where the walk to the right stops, before the first value that is not smaller.
StopBefore(v) ==
  LET stop[a \in Addr] ==
        LET r == node[a].right
        IN IF r # Null /\ node[r].val < v THEN stop[r] ELSE a
  IN stop

\* The nodes at which the walk for v goes down, the lowest one first.
Points(v) ==
  LET path[a \in Addr \cup {Null}] ==
        IF a = Null THEN <<>>
        ELSE LET p == StopBefore(v)[a] IN Append(path[node[p].down], p)
  IN path[head]

Hits(v) ==
  {p \in {Points(v)[i] : i \in 1..Len(Points(v))} :
     node[p].right # Null /\ node[node[p].right].val = v}

search(v) ==
  /\ result' = <<"search", v, Hits(v) # {}>>
  /\ UNCHANGED <<node, alloc, head>>

\* Mutant: the nodes of a tower are not linked downwards.
Tower_no_down(v, k) ==
  [a \in Addr |->
     IF \E i \in 1..k : a = FreeAddr(i)
     THEN LET i == CHOOSE j \in 1..k : a = FreeAddr(j)
          IN [val |-> v, right |-> node[Points(v)[i]].right, down |-> Null]
     ELSE IF \E i \in 1..k : a = Points(v)[i]
     THEN [node[a] EXCEPT !.right = FreeAddr(CHOOSE i \in 1..k : a = Points(v)[i])]
     ELSE node[a]]

\* The value goes into the k lowest rows: one node in each.
Tower(v, k) ==
  [a \in Addr |->
     IF \E i \in 1..k : a = FreeAddr(i)
     THEN LET i == CHOOSE j \in 1..k : a = FreeAddr(j)
          IN [val |-> v, right |-> node[Points(v)[i]].right,
              down |-> IF i = 1 THEN Null ELSE FreeAddr(i - 1)]
     ELSE IF \E i \in 1..k : a = Points(v)[i]
     THEN [node[a] EXCEPT !.right = FreeAddr(CHOOSE i \in 1..k : a = Points(v)[i])]
     ELSE node[a]]

add(v) ==
  \E k \in 1..Len(Points(v)) :
    /\ Room(k)
    /\ node' = Tower(v, k)
    /\ alloc' = alloc \cup {FreeAddr(i) : i \in 1..k}
    /\ result' = <<"add", v>>
    /\ UNCHANGED head

\* The coin never shows tails: a new row on top, with the value and a new head.
add_row(v) ==
  LET k == Len(Points(v)) IN
    /\ Room(k + 2)
    /\ node' = [Tower(v, k) EXCEPT
                  ![FreeAddr(k + 1)] = [val |-> v, right |-> Null, down |-> FreeAddr(k)],
                  ![FreeAddr(k + 2)] = [val |-> 0, right |-> FreeAddr(k + 1), down |-> head]]
    /\ alloc' = alloc \cup {FreeAddr(i) : i \in 1..(k + 2)}
    /\ head' = FreeAddr(k + 2)
    /\ result' = <<"add", v>>

\* Mutant: only the node in the highest row goes.
erase_highest(v) ==
  LET hit == CHOOSE p \in Hits(v) :
               \E i \in 1..Len(Points(v)) :
                 Points(v)[i] = p /\ \A j \in (i + 1)..Len(Points(v)) : Points(v)[j] \notin Hits(v)
      gone == IF Hits(v) = {} THEN {} ELSE {node[hit].right}
  IN /\ result' = <<"erase", v, Hits(v) # {}>>
     /\ node' = [a \in Addr |-> CASE a \in gone -> Blank
                                  [] gone # {} /\ a = hit -> [node[a] EXCEPT !.right = node[@].right]
                                  [] OTHER -> node[a]]
     /\ alloc' = alloc \ gone
     /\ UNCHANGED head

\* In each row the first node with the value goes.
erase(v) ==
  LET gone == {node[p].right : p \in Hits(v)} IN
  /\ result' = <<"erase", v, Hits(v) # {}>>
  /\ node' = [a \in Addr |-> CASE a \in gone -> Blank
                               [] a \in Hits(v) -> [node[a] EXCEPT !.right = node[@].right]
                               [] OTHER -> node[a]]
  /\ alloc' = alloc \ gone
  /\ UNCHANGED head

SkipNext == \E v \in Vals : search(v) \/ add(v) \/ add_row(v) \/ erase(v)

SkipSpec == SkipInit /\ [][SkipNext]_skipVars

-----------------------------------------------------------------------------
\* The nodes right of a, in order.
RightOf(a) ==
  LET row[b \in Addr \cup {Null}] ==
        IF b = Null THEN <<>> ELSE <<b>> \o row[node[b].right]
  IN row[node[a].right]

\* The heads of the rows, from the top down.
Heads ==
  LET below[a \in Addr \cup {Null}] ==
        IF a = Null THEN <<>> ELSE <<a>> \o below[node[a].down]
  IN below[head]
NumRows == Len(Heads)
Row(i) == RightOf(Heads[i])

(* Every row is sorted, and is found in the same order in the row below, where
   its down links lead; so erase, which deletes the first copy of a value in
   every row, never leaves a link to a deleted node, copies of a value with
   towers of any heights included.  All nodes are in some row
   (skiplist.hpp:45-102). *)
RowsNested ==
  /\ alloc = UNION {{Heads[i]} \cup {Row(i)[j] : j \in 1..Len(Row(i))} : i \in 1..NumRows}
  /\ \A i \in 1..NumRows :
       /\ \A j \in 1..(Len(Row(i)) - 1) : node[Row(i)[j]].val <= node[Row(i)[j + 1]].val
       /\ \A j \in 1..Len(Row(i)) :
            LET a == Row(i)[j] IN
            IF i = NumRows THEN node[a].down = Null
            ELSE \E n \in 1..Len(Row(i + 1)) :
                   /\ node[a].down = Row(i + 1)[n]
                   /\ node[Row(i + 1)[n]].val = node[a].val
                   /\ j < Len(Row(i)) => \E m \in (n + 1)..Len(Row(i + 1)) :
                                           node[Row(i)[j + 1]].down = Row(i + 1)[m]

\* The list is a bag of values: refines ValueBag.
Bottom == Row(NumRows)
Bag == INSTANCE ValueBag
         WITH copies <- [v \in Vals |->
                           Cardinality({j \in 1..Len(Bottom) : node[Bottom[j]].val = v})],
              last <- result
ImplementsBag == Bag!Spec
=============================================================================
