------------------------------ MODULE Minipool ------------------------------
(***************************************************************************)
(* The pool of minipool.h: arenas of slots; a slot that is not in use      *)
(* holds the link of the free list where the object would be.              *)
(***************************************************************************)
EXTENDS Integers

CONSTANTS
  arena_size, MaxArenas,   \* MaxArenas is a bound
  Object                   \* what a slot contains while an object is, or was, in it

ASSUME ArenaAssumption ==
  arena_size \in Nat \ {0} /\ MaxArenas \in Nat \ {0} /\ Object \notin Nat

None == 0    \* nullptr
VARIABLES
  slots,      \* how many slots the arenas have, numbered from 1
  content,    \* of each slot: an Object or the next free slot
  free_list,  \* the first free slot
  objects,    \* history: the slots with an object
  lost        \* history: the slots in which a constructor threw

miniVars == <<slots, content, free_list, objects, lost>>

\* The new arena's slots in order, the last one linked to nothing.
NewArena(first) ==
  [s \in first..(first + arena_size - 1) |-> IF s = first + arena_size - 1 THEN None ELSE s + 1]
Join(f, g) == [s \in DOMAIN f \cup DOMAIN g |-> IF s \in DOMAIN g THEN g[s] ELSE f[s]]

MiniInit ==
  /\ slots = arena_size
  /\ content = NewArena(1)
  /\ free_list = 1
  /\ objects = {} /\ lost = {}

\* Takes the first slot, of a new arena if there is none; the constructor runs
\* in it, and may throw.
Take(s, memory) ==
  /\ free_list' = memory[s]
  /\ content' = [memory EXCEPT ![s] = Object]
  /\ \/ objects' = objects \cup {s} /\ UNCHANGED lost
     \/ lost' = lost \cup {s} /\ UNCHANGED objects

alloc_slot ==
  /\ free_list # None
  /\ Take(free_list, content)
  /\ UNCHANGED slots

alloc_arena ==
  /\ free_list = None
  /\ slots < MaxArenas * arena_size
  /\ Take(slots + 1, Join(content, NewArena(slots + 1)))
  /\ slots' = slots + arena_size

\* Mutant: the slot becomes the first one before it is linked to the first one.
free_slot_swapped(s) ==
  /\ s \in objects
  /\ free_list' = s
  /\ content' = [content EXCEPT ![s] = free_list']
  /\ objects' = objects \ {s}
  /\ UNCHANGED <<slots, lost>>

free_slot(s) ==
  /\ s \in objects
  /\ content' = [content EXCEPT ![s] = free_list]
  /\ free_list' = s
  /\ objects' = objects \ {s}
  /\ UNCHANGED <<slots, lost>>

MiniNext == alloc_slot \/ alloc_arena \/ \E s \in 1..slots : free_slot(s)

MiniSpec == MiniInit /\ [][MiniNext]_miniVars

-----------------------------------------------------------------------------
\* The k-th slot of the free list, or None.
nthFree[k \in 1..(MaxArenas * arena_size + 1)] ==
  IF k = 1 THEN free_list
  ELSE IF nthFree[k - 1] \in {None, Object} THEN nthFree[k - 1] ELSE content[nthFree[k - 1]]
Listed == {nthFree[k] : k \in DOMAIN nthFree}

(* Every slot holds an object, is on the free list, or was lost to a constructor
   that threw, and only one of these; the free list ends, and no object of the
   program stands where a link was expected (minipool.h:67-91). *)
SlotsOnce ==
  /\ nthFree[MaxArenas * arena_size + 1] = None
  /\ Listed \ {None} = (1..slots) \ (objects \cup lost)
  /\ objects \cap lost = {}
=============================================================================
