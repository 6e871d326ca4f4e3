----------------------------- MODULE Allocator ------------------------------
(***************************************************************************)
(* What a caller may expect of an allocator: memory it was given is its    *)
(* own, aligned and inside the heap, until it frees it.                    *)
(***************************************************************************)
EXTENDS Naturals

CONSTANTS Size,      \* bytes in the heap
          Alignment,
          Requests
VARIABLE live        \* [0..Size-1 -> Nat]: bytes given out at an address, or 0

Addr == DOMAIN live

Overlap(a, n, b, m) == a < b + m /\ b < a + n

\* Nothing given out overlaps the n bytes at a.
Unused(a, n) == \A b \in Addr : live[b] # 0 => ~Overlap(a, n, b, live[b])

Init == \A a \in Addr : live[a] = 0

Allocate(a, n) ==
  /\ a % Alignment = 0
  /\ a + n <= Size
  /\ Unused(a, n)
  /\ live' = [live EXCEPT ![a] = n]

Release(a) ==
  /\ live[a] # 0
  /\ live' = [live EXCEPT ![a] = 0]

Next == \E a \in Addr : Release(a) \/ \E n \in Requests : Allocate(a, n)

Spec == Init /\ [][Next]_live
=============================================================================
