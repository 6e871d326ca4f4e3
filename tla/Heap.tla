-------------------------------- MODULE Heap --------------------------------
(***************************************************************************)
(* The allocator of "Heap Manager/dmm.c": one mmap'ed region, cut into     *)
(* blocks  header | payload | footer  (boundary tags), free blocks in      *)
(* doubly linked lists by the power of two of their size, first fit,       *)
(* splitting, and coalescing with both neighbours when a block is freed.   *)
(*                                                                         *)
(* Addresses are byte offsets in the region (start_addr is 0, end_addr is  *)
(* max_bytes).  A header or footer is a record in a function from aligned  *)
(* offsets; an offset that holds neither is Junk (payload of the program,  *)
(* or what a merge left behind).                                           *)
(***************************************************************************)
EXTENDS Integers

CONSTANTS
  ALIGNMENT, METADATA_T_ALIGNED, FOOTER_T_ALIGNED, ENTRY_SIZE, MAX_HEAP_SIZE,
  SIZE_BITS,   \* the width of size_t
  Requests,    \* values of numbytes in calls of dmalloc
  NULL, Junk

Overhead == METADATA_T_ALIGNED + FOOTER_T_ALIGNED

ASSUME LayoutAssumption ==
  /\ ALIGNMENT \in Nat \ {0}
  /\ METADATA_T_ALIGNED \in Nat \ {0} /\ METADATA_T_ALIGNED % ALIGNMENT = 0
  /\ FOOTER_T_ALIGNED \in Nat \ {0} /\ FOOTER_T_ALIGNED % ALIGNMENT = 0
  /\ MAX_HEAP_SIZE \in Nat /\ MAX_HEAP_SIZE > Overhead

\* The number 1, shifted left k times ("val <<= 1").
val[k \in 0..ENTRY_SIZE] == IF k = 0 THEN 1 ELSE 2 * val[k - 1]

ASSUME WidthAssumption ==
  /\ ENTRY_SIZE \in Nat
  /\ SIZE_BITS \in Nat \ {0} /\ SIZE_BITS <= ENTRY_SIZE
  /\ MAX_HEAP_SIZE + ALIGNMENT <= val[SIZE_BITS - 1]
  /\ Requests \subseteq 1..(val[SIZE_BITS] - 1)

\* Mutant: rounds down.
RoundDown(n) == n - (n % ALIGNMENT)

\* Arithmetic on size_t wraps around.
ALIGN(n) == LET m == (n + ALIGNMENT - 1) % val[SIZE_BITS] IN m - (m % ALIGNMENT)

max_bytes == ALIGN(MAX_HEAP_SIZE)

Addr == {a \in 0..(max_bytes - 1) : a % ALIGNMENT = 0}

Headers == [is_free : BOOLEAN, size : Nat, prev : Addr \cup {NULL}, next : Addr \cup {NULL}]

ASSUME JunkAssumption == NULL \notin Int /\ Junk \notin Headers

VARIABLES
  has_initialized,
  status,  \* "ok"; "aborted" when an assert failed, "hung" in an endless loop
  heap,    \* [hdr, ftr, arr, ok]: headers and footers by address, the list
           \* heads, and whether all asserts on blocks and lists held
  live     \* history: bytes asked for, by address returned; 0 when not live

vars == <<has_initialized, status, heap, live>>

-----------------------------------------------------------------------------
(* The functions of dmm.c as operators on the heap.                        *)

\* "val <<= 1" reaches 0 behind the largest power of two: no end of the loop.
IndexLoops(size) == size > val[SIZE_BITS - 1]

get_index(size) == CHOOSE i \in 0..(ENTRY_SIZE - 1) :
                     /\ size <= val[i]
                     /\ \A j \in 0..(i - 1) : size > val[j]

FooterOf(h, b) == b + METADATA_T_ALIGNED + h.hdr[b].size
After(h, b)    == FooterOf(h, b) + FOOTER_T_ALIGNED

Assert(h, P) == [h EXCEPT !.ok = @ /\ P]

has_previous_address(b) == b # 0
has_next_address(h, b)  == After(h, b) # max_bytes

set_occupied(h, b, size) ==
  [h EXCEPT !.hdr[b].is_free = FALSE,
            !.ftr[FooterOf(h, b)] = [is_free |-> FALSE, size |-> size]]

\* Mutant: the removed block keeps its links.
remove_keeping_links(h, b) ==
  LET e == h.hdr[b]
      index == get_index(e.size)
      arr2 == IF e.prev = NULL THEN [h.arr EXCEPT ![index] = e.next] ELSE h.arr
      hdr2 == IF e.prev = NULL THEN h.hdr ELSE [h.hdr EXCEPT ![e.prev].next = e.next]
      hdr3 == IF e.next = NULL THEN hdr2 ELSE [hdr2 EXCEPT ![e.next].prev = e.prev]
  IN [Assert(h, e.prev = NULL => h.arr[index] = b) EXCEPT !.arr = arr2, !.hdr = hdr3]

remove_from_list(h, b) ==
  LET e == h.hdr[b]
      index == get_index(e.size)
      arr2 == IF e.prev = NULL THEN [h.arr EXCEPT ![index] = e.next] ELSE h.arr
      hdr2 == IF e.prev = NULL THEN h.hdr ELSE [h.hdr EXCEPT ![e.prev].next = e.next]
      hdr3 == IF e.next = NULL THEN hdr2 ELSE [hdr2 EXCEPT ![e.next].prev = e.prev]
  IN [Assert(h, e.prev = NULL => h.arr[index] = b) EXCEPT
        !.arr = arr2, !.hdr = [hdr3 EXCEPT ![b].prev = NULL, ![b].next = NULL]]

\* Mutant: the old head is not linked back.
add_without_back_link(h, b) ==
  LET index == get_index(h.hdr[b].size)
  IN [h EXCEPT !.arr[index] = b,
               !.hdr[b] = [@ EXCEPT !.next = h.arr[index], !.prev = NULL]]

add_to_free_list(h, b) ==
  LET index == get_index(h.hdr[b].size)
      head == h.arr[index]
  IN IF head = NULL THEN [h EXCEPT !.arr[index] = b]
     ELSE [h EXCEPT !.arr[index] = b,
                    !.hdr = [@ EXCEPT ![b].next = head, ![b].prev = NULL, ![head].prev = b]]

\* The footer of the first part keeps the size found in memory (line 162).
split_free_block(h, b, total_size) ==
  LET left_size == h.hdr[b].size - total_size
      left == b + total_size
      a_size == total_size - Overhead
      a_foot == b + METADATA_T_ALIGNED + a_size
      h2 == [Assert(h, h.hdr[b].size >= total_size + ALIGNMENT) EXCEPT
        !.hdr = [@ EXCEPT
           ![b] = [is_free |-> FALSE, size |-> a_size, prev |-> NULL, next |-> NULL],
           ![left] = [is_free |-> TRUE, size |-> left_size, prev |-> NULL, next |-> NULL]],
        !.ftr = [@ EXCEPT
           ![a_foot] = [is_free |-> FALSE, size |-> Junk],
           ![left + METADATA_T_ALIGNED + left_size] = [is_free |-> TRUE, size |-> left_size]]]
  IN add_to_free_list(h2, left)

SetFree(h, b) == [h EXCEPT !.hdr[b].is_free = TRUE, !.ftr[FooterOf(h, b)].is_free = TRUE]

\* The free blocks b and c, c behind b, become one block at b.  The tags that
\* were between them are payload now: Junk, which nothing may depend on.
Merge(h, b, c) ==
  LET size == h.hdr[b].size + Overhead + h.hdr[c].size
  IN [h EXCEPT
        !.hdr = [@ EXCEPT ![c] = Junk,
                          ![b] = [is_free |-> TRUE, size |-> size, prev |-> NULL, next |-> NULL]],
        !.ftr = [@ EXCEPT ![FooterOf(h, b)] = Junk,
                          ![FooterOf(h, c)] = [is_free |-> TRUE, size |-> size]]]

\* The two halves of coalesce return the heap and the merged block.
coalesce_with_prev(h, b) ==
  LET foot == h.ftr[b - FOOTER_T_ALIGNED]
      prev == b - FOOTER_T_ALIGNED - foot.size - METADATA_T_ALIGNED
  IN IF ~has_previous_address(b) THEN [heap |-> h, block |-> b]
     ELSE IF ~foot.is_free THEN [heap |-> SetFree(h, b), block |-> b]
     ELSE [heap |-> Merge(remove_from_list(h, prev), prev, b), block |-> prev]

\* Mutant: the block behind is never merged.
coalesce_without_next(h, b) == [heap |-> SetFree(h, b), block |-> b]

coalesce_with_next(h, b) ==
  LET next == After(h, b)
      h1 == Assert(h, next < max_bytes)
  IN IF ~has_next_address(h, b) THEN [heap |-> h, block |-> b]
     ELSE IF ~h.hdr[next].is_free THEN [heap |-> SetFree(h1, b), block |-> b]
     ELSE [heap |-> Merge(remove_from_list(h1, next), b, next), block |-> b]

coalesce(h, b) ==
  LET p == coalesce_with_prev(h, b)
      n == coalesce_with_next(p.heap, p.block)
      e == n.heap.hdr[n.block]
  IN [n EXCEPT !.heap = Assert(@,
        /\ e.is_free /\ e.prev = NULL /\ e.next = NULL
        /\ n.heap.ftr[FooterOf(n.heap, n.block)] = [is_free |-> TRUE, size |-> e.size])]

-----------------------------------------------------------------------------
(* dmalloc and dfree.                                                      *)

MaxBlocks == max_bytes \div (Overhead + ALIGNMENT)

\* The k-th block of a free list (NULL behind its end).
InList(h, i, k) ==
  LET nth[j \in 0..MaxBlocks] == IF j = 0 THEN h.arr[i]
                                 ELSE IF nth[j - 1] = NULL THEN NULL
                                 ELSE h.hdr[nth[j - 1]].next
  IN nth[k]

\* Mutant: only the first list is searched.
VisitedFirstList(h, n) == {p \in {get_index(ALIGN(n))} \X (0..MaxBlocks) :
                             InList(h, p[1], p[2]) # NULL}

\* Every free block, in the order the two loops of dmalloc visit them.
Visited(h, n) == {p \in (get_index(ALIGN(n))..(ENTRY_SIZE - 1)) \X (0..MaxBlocks) :
                    InList(h, p[1], p[2]) # NULL}
Suits(h, p, n) == h.hdr[InList(h, p[1], p[2])].size >= ALIGN(n)
Sooner(p, q) == p[1] < q[1] \/ (p[1] = q[1] /\ p[2] <= q[2])

\* Mutant: the first free block of all, whatever its size.
FirstBlock(h, n) ==
  LET S == {p \in (0..(ENTRY_SIZE - 1)) \X (0..MaxBlocks) : InList(h, p[1], p[2]) # NULL}
      first == CHOOSE p \in S : \A q \in S : Sooner(p, q)
  IN IF S = {} THEN NULL ELSE InList(h, first[1], first[2])

\* The block dmalloc(n) takes, or NULL.
FirstFit(h, n) ==
  LET S == {p \in Visited(h, n) : Suits(h, p, n)}
      first == CHOOSE p \in S : \A q \in S : Sooner(p, q)
  IN IF S = {} THEN NULL ELSE InList(h, first[1], first[2])

\* dmalloc takes block b; its payload belongs to the caller from then on.
Take(h, b, n) ==
  LET total_size == Overhead + ALIGN(n)
      h1 == remove_from_list(h, b)
      split == h1.hdr[b].size >= total_size + ALIGNMENT
      h2 == IF split THEN split_free_block(h1, b, total_size) ELSE h1
      left == b + total_size
      h3 == Assert(h2, split =>
              /\ h2.arr[get_index(h2.hdr[left].size)] = left
              /\ h2.hdr[left].is_free /\ h2.hdr[left].prev = NULL
              /\ h2.ftr[FooterOf(h2, left)] = [is_free |-> TRUE, size |-> h2.hdr[left].size])
      h4 == set_occupied(h3, b, h3.hdr[b].size)
  IN Assert(h4, /\ h4.hdr[b].prev = NULL /\ h4.hdr[b].next = NULL /\ ~h4.hdr[b].is_free
                /\ h4.ftr[FooterOf(h4, b)] = [is_free |-> FALSE, size |-> h4.hdr[b].size]
                /\ After(h4, b) <= max_bytes)

\* The caller writes its payload.
Written(h, b) ==
  LET inside == (b + METADATA_T_ALIGNED)..(FooterOf(h, b) - 1)
  IN [h EXCEPT !.hdr = [a \in Addr |-> IF a \in inside THEN Junk ELSE @[a]],
               !.ftr = [a \in Addr |-> IF a \in inside THEN Junk ELSE @[a]]]

\* The state of the region and the lists before dmalloc_init.
NoHeap == [hdr |-> [a \in Addr |-> Junk], ftr |-> [a \in Addr |-> Junk],
           arr |-> [i \in 0..(ENTRY_SIZE - 1) |-> NULL], ok |-> TRUE]

FreshHeap ==
  LET size == max_bytes - Overhead
  IN [NoHeap EXCEPT
        !.hdr[0] = [is_free |-> TRUE, size |-> size, prev |-> NULL, next |-> NULL],
        !.ftr[METADATA_T_ALIGNED + size] = [is_free |-> TRUE, size |-> size],
        !.arr[get_index(size)] = 0]

Init ==
  /\ has_initialized = FALSE
  /\ status = "ok"
  /\ heap = NoHeap
  /\ live = [a \in Addr |-> 0]

\* The first dmalloc finds the heap uninitialised; its mmap fails: NULL, and
\* the empty lists are all later calls will see.
dmalloc_init_fails ==
  /\ status = "ok"
  /\ ~has_initialized
  /\ has_initialized' = TRUE
  /\ UNCHANGED <<status, heap, live>>

\* The heap a call of dmalloc works on.
Initialized == IF has_initialized THEN heap ELSE FreshHeap

\* The request is rounded to 0 (an assert fails) or get_index never returns.
dmalloc_huge(n) ==
  /\ status = "ok"
  /\ has_initialized' = TRUE
  /\ heap' = Initialized
  /\ \/ ALIGN(n) = 0 /\ status' = "aborted"
     \/ ALIGN(n) # 0 /\ IndexLoops(ALIGN(n)) /\ status' = "hung"
  /\ UNCHANGED live

dmalloc(n) ==
  LET b == FirstFit(Initialized, n)
      h == Take(Initialized, b, n)
  IN /\ status = "ok"
     /\ ALIGN(n) # 0 /\ ~IndexLoops(ALIGN(n))
     /\ b # NULL
     /\ has_initialized' = TRUE
     /\ heap' = Written(h, b)
     /\ status' = IF h.ok THEN "ok" ELSE "aborted"
     /\ live' = IF h.ok THEN [live EXCEPT ![b + METADATA_T_ALIGNED] = n] ELSE live

dmalloc_returns_NULL(n) ==
  /\ status = "ok"
  /\ ALIGN(n) # 0 /\ ~IndexLoops(ALIGN(n))
  /\ FirstFit(Initialized, n) = NULL
  /\ has_initialized' = TRUE
  /\ heap' = Initialized
  /\ UNCHANGED <<status, live>>

\* The program frees what it was given, once.
dfree(a) ==
  LET b == a - METADATA_T_ALIGNED
      checked == Assert(heap, /\ heap.hdr[b].prev = NULL /\ heap.hdr[b].next = NULL
                              /\ ~heap.hdr[b].is_free)
      merged == coalesce(checked, b)
  IN /\ status = "ok"
     /\ live[a] # 0
     /\ status' = IF merged.heap.ok THEN "ok" ELSE "aborted"
     /\ heap' = IF merged.heap.ok THEN add_to_free_list(merged.heap, merged.block)
                ELSE merged.heap
     /\ live' = [live EXCEPT ![a] = 0]
     /\ UNCHANGED has_initialized

Stopped == status # "ok" /\ UNCHANGED vars

Next ==
  \/ dmalloc_init_fails
  \/ \E n \in Requests : dmalloc(n) \/ dmalloc_returns_NULL(n) \/ dmalloc_huge(n)
  \/ \E a \in Addr : dfree(a)
  \/ Stopped

Spec == Init /\ [][Next]_vars
=============================================================================
