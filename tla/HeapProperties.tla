--------------------------- MODULE HeapProperties ---------------------------
(***************************************************************************)
(* The properties of the allocator.                                        *)
(***************************************************************************)
EXTENDS Heap

Free(b) == heap.hdr[b].is_free

\* The blocks as the code finds them: from the start, each behind the last.
nthBlock[k \in 0..MaxBlocks] ==
  IF k = 0 THEN 0
  ELSE LET b == nthBlock[k - 1]
       IN IF b \notin Addr THEN max_bytes
          ELSE IF heap.hdr[b] = Junk THEN -1
          ELSE After(heap, b)
Blocks == {nthBlock[k] : k \in 0..MaxBlocks} \ {max_bytes}

Up == status = "ok" /\ heap # NoHeap

-----------------------------------------------------------------------------
(* The blocks tile the heap, header and footer of each agree, and an occupied
   block is one the program holds, at least as large as it asked for.  A wrong
   size or a forgotten footer in split, coalesce or set_occupied breaks it
   only calls later, when a neighbour is freed (dmm.c:142-273). *)
BlocksTile ==
  Up =>
    /\ Blocks \subseteq Addr
    /\ \E k \in 0..MaxBlocks : nthBlock[k] # max_bytes /\ After(heap, nthBlock[k]) = max_bytes
    /\ \A b \in Blocks :
         heap.ftr[FooterOf(heap, b)] = [is_free |-> Free(b), size |-> heap.hdr[b].size]
    /\ \A a \in Addr : (live[a] # 0) <=> \E b \in Blocks : ~Free(b) /\ a = b + METADATA_T_ALIGNED
    /\ \A b \in Blocks : ~Free(b) => live[b + METADATA_T_ALIGNED] <= heap.hdr[b].size

(* The lists hold exactly the free blocks, each once, in the list of its size,
   linked both ways (dmm.c:94-140). *)
Listed(i) == {InList(heap, i, k) : k \in 0..MaxBlocks} \ {NULL}
ListsExact ==
  Up =>
    /\ UNION {Listed(i) : i \in 0..(ENTRY_SIZE - 1)} = {b \in Blocks : Free(b)}
    /\ \A i \in 0..(ENTRY_SIZE - 1) : \A b \in Listed(i) :
         /\ get_index(heap.hdr[b].size) = i
         /\ (heap.hdr[b].prev = NULL) <=> (heap.arr[i] = b)
         /\ heap.hdr[b].prev # NULL => heap.hdr[heap.hdr[b].prev].next = b

(* Two neighbours are never both free, so when everything has been freed the
   heap is one block again (dmm.c:275-295). *)
Coalesced ==
  Up => /\ \A b \in Blocks :
             Free(b) /\ has_next_address(heap, b) => ~Free(After(heap, b))
        /\ (\A a \in Addr : live[a] = 0) => Blocks = {0}

(* dmalloc gives up only when no free block is large enough, although it
   searches from one list upwards (dmm.c:313-371). *)
FindsFit ==
  Up => \A n \in Requests :
          ~IndexLoops(ALIGN(n)) /\ (\E b \in Blocks : Free(b) /\ heap.hdr[b].size >= ALIGN(n))
            => FirstFit(heap, n) # NULL

(* The asserts on blocks and lists hold, but for one case: the block that fills
   the whole heap, freed, is not marked free by either half of coalesce. *)
AbortsOnlyOnWhole ==
  ~heap.ok => After(heap, 0) = max_bytes /\ \A a \in Addr : live[a] = 0

\* The memory a program holds is its own: refines the abstract allocator.
Abstract == INSTANCE Allocator
              WITH Size <- max_bytes, Alignment <- ALIGNMENT
ImplementsAllocator == Abstract!Spec

-----------------------------------------------------------------------------
(* A statement of dmm.c that its code does not keep.                       *)

\* "assert(ptr->is_free == true)" (dmm.c:287), for requests dmalloc can serve.
CoalescedIsFree == status # "aborted"
=============================================================================
