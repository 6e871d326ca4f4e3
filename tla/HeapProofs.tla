----------------------------- MODULE HeapProofs -----------------------------
(***************************************************************************)
(* Proofs about the allocator, for any sizes and any requests.             *)
(***************************************************************************)
EXTENDS HeapProperties, FiniteSetTheorems, NaturalsInduction, WellFoundedInduction, TLAPS

-----------------------------------------------------------------------------
(* Numbers.                                                                *)

\* Every set of numbers that is not empty has a least one.
LEMMA LeastNumber ==
  ASSUME NEW T, T \subseteq Nat, T # {}
  PROVE  \E x \in T : \A y \in T : x <= y
<1> DEFINE R == OpToRel(<, Nat)
<1>1. IsWellFoundedOn(R, Nat)
  BY NatLessThanWellFounded, Zenon
<1>2. PICK x \in T : \A y \in T : <<y, x>> \notin R
  <2> HIDE DEF R
  <2> QED  BY <1>1, WFMin
<1>3. \A y \in T : ~ (y < x)
  BY <1>2, Zenon DEF OpToRel
<1> QED  BY <1>3

\* A function on 0..n can be defined step by step.
Steps(f, a, G, n) == f[0] = a /\ \A k \in 1..n : f[k] = G[f[k - 1]]

LEMMA StepByStep ==
  ASSUME NEW V, NEW a \in V, NEW G \in [V -> V], NEW n \in Nat
  PROVE  \E f \in [0..n -> V] : Steps(f, a, G, n)
<1> DEFINE Good(m) == \E f \in [0..m -> V] : Steps(f, a, G, m)
           Bad == {m \in Nat : ~Good(m)}
<1>1. Good(0)
  <2> DEFINE g == [k \in 0..0 |-> a]
  <2>1. g \in [0..0 -> V] /\ g[0] = a /\ \A k \in 1..0 : g[k] = G[g[k - 1]]
    OBVIOUS
  <2> HIDE DEF g
  <2> QED  BY <2>1 DEF Steps
<1>2. ASSUME NEW m \in Nat, Good(m) PROVE Good(m + 1)
  <2>1. PICK f \in [0..m -> V] : f[0] = a /\ \A k \in 1..m : f[k] = G[f[k - 1]]
    BY <1>2 DEF Steps
  <2> DEFINE g == [k \in 0..(m + 1) |-> IF k = m + 1 THEN G[f[m]] ELSE f[k]]
  <2>2. g \in [0..(m + 1) -> V]
    BY <2>1
  <2>3. g[0] = a
    BY <2>1
  <2>4. ASSUME NEW k \in 1..(m + 1) PROVE g[k] = G[g[k - 1]]
    <3>1. k - 1 \in 0..m /\ g[k - 1] = f[k - 1]
      BY <2>4
    <3>2. CASE k = m + 1
      BY <3>1, <3>2
    <3>3. CASE k # m + 1
      BY <2>1, <2>4, <3>1, <3>3
    <3> QED  BY <3>2, <3>3
  <2> HIDE DEF g
  <2> QED  BY <2>2, <2>3, <2>4 DEF Steps
<1>3. CASE Bad # {}
  <2> HIDE DEF Good
  <2>1. PICK m \in Bad : \A x \in Bad : m <= x
    BY <1>3, LeastNumber
  <2>2. m # 0
    BY <1>1, <2>1
  <2>3. m - 1 \in Nat /\ m - 1 \notin Bad /\ (m - 1) + 1 = m
    BY <2>1, <2>2
  <2> QED  BY <1>2, <2>1, <2>3
<1> QED  BY <1>3

\* "val" is 1 at first and doubles.
LEMMA Powers ==
  /\ val \in [0..ENTRY_SIZE -> Nat]
  /\ val[0] = 1
  /\ \A k \in 1..ENTRY_SIZE : val[k] = 2 * val[k - 1]
<1> DEFINE Follows(g) == g = [k \in 0..ENTRY_SIZE |-> IF k = 0 THEN 1 ELSE 2 * g[k - 1]]
           G == [x \in Nat |-> 2 * x]
<1>1. ENTRY_SIZE \in Nat
  BY WidthAssumption
<1>2. PICK f \in [0..ENTRY_SIZE -> Nat] : f[0] = 1 /\ \A k \in 1..ENTRY_SIZE : f[k] = G[f[k - 1]]
  <2>1. G \in [Nat -> Nat] /\ 1 \in Nat
    OBVIOUS
  <2> HIDE DEF G
  <2>2. \E f \in [0..ENTRY_SIZE -> Nat] : Steps(f, 1, G, ENTRY_SIZE)
    BY <1>1, <2>1, StepByStep
  <2> QED  BY <2>2 DEF Steps
<1>3. ASSUME NEW g, Follows(g)
      PROVE  /\ g[0] = 1
             /\ \A k \in 1..ENTRY_SIZE : g[k] = 2 * g[k - 1]
             /\ g = [k \in 0..ENTRY_SIZE |-> g[k]]
  BY <1>1, <1>3
<1>4. Follows(f)
  <2>1. ASSUME NEW k \in 1..ENTRY_SIZE PROVE f[k] = 2 * f[k - 1]
    <3>1. f[k - 1] \in Nat
      BY <1>1, <1>2
    <3> QED  BY <1>2, <3>1
  <2>2. f = [k \in 0..ENTRY_SIZE |-> f[k]]
    OBVIOUS
  <2>3. \A k \in 0..ENTRY_SIZE : f[k] = IF k = 0 THEN 1 ELSE 2 * f[k - 1]
    BY <1>1, <1>2, <2>1
  <2> QED  BY <2>2, <2>3
<1>5. Follows(val)
  <2>1. val = CHOOSE g : Follows(g)
    BY DEF val
  <2> HIDE DEF Follows
  <2> QED  BY <1>4, <2>1
<1>6. /\ val[0] = 1
      /\ \A k \in 1..ENTRY_SIZE : val[k] = 2 * val[k - 1]
      /\ val = [k \in 0..ENTRY_SIZE |-> val[k]]
  <2> HIDE DEF Follows
  <2> QED  BY <1>3, <1>5
<1>7. \A k \in 0..ENTRY_SIZE : val[k] \in Nat
  <2> DEFINE Bad == {k \in 0..ENTRY_SIZE : val[k] \notin Nat}
  <2>1. CASE Bad # {}
    <3>1. PICK m \in Bad : \A x \in Bad : m <= x
      <4>1. Bad \subseteq Nat
        BY <1>1
      <4> HIDE DEF Bad
      <4> QED  BY <2>1, <4>1, LeastNumber
    <3>2. m # 0
      BY <1>6, <3>1
    <3>3. m \in 1..ENTRY_SIZE /\ m - 1 \in 0..ENTRY_SIZE /\ m - 1 \notin Bad
      BY <1>1, <3>1, <3>2
    <3>4. val[m - 1] \in Nat
      BY <3>3
    <3>5. val[m] = 2 * val[m - 1]
      BY <1>6, <3>3
    <3> QED  BY <3>1, <3>4, <3>5
  <2> QED  BY <2>1
<1> QED  BY <1>6, <1>7

-----------------------------------------------------------------------------
(* Alignment.                                                              *)

Mult(x) == x \in Int /\ x % ALIGNMENT = 0

\* Sums and differences of multiples of ALIGNMENT are multiples, at least ALIGNMENT apart.
LEMMA Multiples ==
  ASSUME NEW x, NEW y, Mult(x), Mult(y)
  PROVE  /\ Mult(x + y) /\ Mult(x - y) /\ Mult(0)
         /\ x < y => x + ALIGNMENT <= y
<1>1. ALIGNMENT \in Nat \ {0} /\ 0 \in 0..(ALIGNMENT - 1)
  BY LayoutAssumption
<1>2. PICK p \in Int : x = p * ALIGNMENT
  BY <1>1 DEF Mult
<1>3. PICK q \in Int : y = q * ALIGNMENT
  BY <1>1 DEF Mult
<1>4. ASSUME NEW k \in Int PROVE Mult(k * ALIGNMENT)
  <2>1. (k * ALIGNMENT + 0) % ALIGNMENT = 0
    BY <1>1
  <2> QED  BY <1>1, <2>1 DEF Mult
<1>5. x + y = (p + q) * ALIGNMENT /\ x - y = (p - q) * ALIGNMENT /\ 0 = 0 * ALIGNMENT
  BY <1>1, <1>2, <1>3
<1>6. Mult(x + y) /\ Mult(x - y) /\ Mult(0)
  <2>1. p + q \in Int /\ p - q \in Int /\ 0 \in Int
    OBVIOUS
  <2> QED  BY <1>4, <1>5, <2>1
<1>7. ASSUME x < y PROVE x + ALIGNMENT <= y
  <2>1. p < q
    BY <1>1, <1>2, <1>3, <1>7
  <2>2. (p + 1) * ALIGNMENT <= q * ALIGNMENT
    BY <1>1, <2>1
  <2> QED  BY <1>1, <1>2, <1>3, <2>2
<1> QED  BY <1>6, <1>7

\* What is left of a number without its remainder.
LEMMA WithoutRemainder ==
  ASSUME NEW m \in Nat
  PROVE  /\ Mult(m - (m % ALIGNMENT)) /\ m - (m % ALIGNMENT) \in Nat
         /\ m - (m % ALIGNMENT) <= m /\ m < m - (m % ALIGNMENT) + ALIGNMENT
<1>1. ALIGNMENT \in Nat \ {0}
  BY LayoutAssumption
<1>2. m % ALIGNMENT \in 0..(ALIGNMENT - 1)
  BY <1>1
<1>3. PICK q \in Int : m = q * ALIGNMENT + (m % ALIGNMENT)
  <2>1. m \div ALIGNMENT \in Int /\ m = (m \div ALIGNMENT) * ALIGNMENT + (m % ALIGNMENT)
    BY <1>1
  <2> QED  BY <2>1
<1>4. (q * ALIGNMENT + 0) % ALIGNMENT = 0
  <2>1. 0 \in 0..(ALIGNMENT - 1)
    BY <1>1
  <2> QED  BY <1>1, <2>1
<1>5. m - (m % ALIGNMENT) = q * ALIGNMENT + 0
  BY <1>1, <1>2, <1>3
<1>6. q >= 0
  BY <1>1, <1>2, <1>3
<1> QED  BY <1>1, <1>2, <1>4, <1>5, <1>6 DEF Mult

\* ALIGN rounds up, or wraps around to 0.
LEMMA Rounded ==
  ASSUME NEW n \in Nat, n < val[SIZE_BITS]
  PROVE  /\ ALIGN(n) \in Nat /\ Mult(ALIGN(n))
         /\ n # 0 /\ ALIGN(n) # 0 => n <= ALIGN(n)
         /\ n + ALIGNMENT <= val[SIZE_BITS - 1] => n <= ALIGN(n) /\ ALIGN(n) < val[SIZE_BITS - 1]
<1> DEFINE P == val[SIZE_BITS]
           H == val[SIZE_BITS - 1]
           m == (n + ALIGNMENT - 1) % P
<1>1. /\ ALIGNMENT \in Nat \ {0}
      /\ P \in Nat /\ H \in Nat /\ P = 2 * H
      /\ ALIGNMENT <= H
  <2>1. SIZE_BITS \in 1..ENTRY_SIZE /\ SIZE_BITS \in 0..ENTRY_SIZE /\ SIZE_BITS - 1 \in 0..ENTRY_SIZE
    BY WidthAssumption
  <2>2. P \in Nat /\ H \in Nat /\ P = 2 * H
    BY <2>1, Powers
  <2> QED  BY <2>2, LayoutAssumption, WidthAssumption
<1> HIDE DEF P, H
<1>2. ALIGN(n) = m - (m % ALIGNMENT)
  BY DEF ALIGN, P
<1>3. n < P
  BY DEF P
<1>4. m \in Nat /\ m < P
  BY <1>1
<1>5. n + ALIGNMENT - 1 < P => m = n + ALIGNMENT - 1
  BY <1>1
<1>6. n + ALIGNMENT - 1 >= P => m = n + ALIGNMENT - 1 - P
  BY <1>1, <1>3
<1> HIDE DEF m
<1>7. /\ ALIGN(n) \in Nat /\ Mult(ALIGN(n))
      /\ ALIGN(n) <= m /\ m < ALIGN(n) + ALIGNMENT
  BY <1>2, <1>4, WithoutRemainder
<1>8. CASE n + ALIGNMENT - 1 < P
  BY <1>1, <1>4, <1>5, <1>7, <1>8 DEF H
<1>9. CASE n + ALIGNMENT - 1 >= P
  <2>1. m < ALIGNMENT - 1
    BY <1>1, <1>3, <1>6, <1>9
  <2>2. ALIGN(n) = 0
    <3>1. Mult(0)
      BY <1>7, Multiples
    <3>2. 0 < ALIGN(n) => 0 + ALIGNMENT <= ALIGN(n)
      BY <1>7, <3>1, Multiples
    <3> QED  BY <1>1, <1>4, <1>7, <2>1, <3>2
  <2>3. ~(n + ALIGNMENT <= H)
    BY <1>1, <1>9
  <2> QED  BY <1>7, <2>2, <2>3 DEF H
<1> QED  BY <1>1, <1>4, <1>8, <1>9

\* What requests are rounded to.
LEMMA Requested ==
  ASSUME NEW n \in Requests
  PROVE  /\ n \in Nat /\ n # 0
         /\ ALIGN(n) \in Nat /\ Mult(ALIGN(n))
         /\ ALIGN(n) # 0 => n <= ALIGN(n)
<1>1. SIZE_BITS \in 0..ENTRY_SIZE /\ val[SIZE_BITS] \in Nat
  BY WidthAssumption, Powers
<1>2. n \in Nat /\ n # 0 /\ n < val[SIZE_BITS]
  BY <1>1, WidthAssumption
<1> QED  BY <1>2, Rounded

\* The size of the region.
LEMMA Region ==
  /\ max_bytes \in Nat /\ Mult(max_bytes)
  /\ Overhead \in Nat /\ Mult(METADATA_T_ALIGNED) /\ Mult(FOOTER_T_ALIGNED)
  /\ Overhead = METADATA_T_ALIGNED + FOOTER_T_ALIGNED
  /\ METADATA_T_ALIGNED \in Nat \ {0} /\ FOOTER_T_ALIGNED \in Nat \ {0} /\ ALIGNMENT \in Nat \ {0}
  /\ Overhead + ALIGNMENT <= max_bytes
  /\ val[SIZE_BITS - 1] \in Nat /\ max_bytes <= val[SIZE_BITS - 1]
<1>1. /\ ALIGNMENT \in Nat \ {0}
      /\ METADATA_T_ALIGNED \in Nat \ {0} /\ FOOTER_T_ALIGNED \in Nat \ {0}
      /\ Mult(METADATA_T_ALIGNED) /\ Mult(FOOTER_T_ALIGNED)
      /\ MAX_HEAP_SIZE \in Nat /\ MAX_HEAP_SIZE > Overhead
      /\ Overhead = METADATA_T_ALIGNED + FOOTER_T_ALIGNED
  BY LayoutAssumption DEF Mult, Overhead
<1>2. /\ SIZE_BITS \in 1..ENTRY_SIZE /\ SIZE_BITS - 1 \in 0..ENTRY_SIZE /\ SIZE_BITS \in 0..ENTRY_SIZE
      /\ MAX_HEAP_SIZE + ALIGNMENT <= val[SIZE_BITS - 1]
  BY WidthAssumption
<1>3. val[SIZE_BITS] = 2 * val[SIZE_BITS - 1] /\ val[SIZE_BITS - 1] \in Nat /\ val[SIZE_BITS] \in Nat
  BY <1>2, Powers
<1>4. MAX_HEAP_SIZE < val[SIZE_BITS]
  BY <1>1, <1>2, <1>3
<1>5. /\ max_bytes \in Nat /\ Mult(max_bytes)
      /\ MAX_HEAP_SIZE <= max_bytes /\ max_bytes < val[SIZE_BITS - 1]
  BY <1>1, <1>2, <1>4, Rounded DEF max_bytes
<1>6. Mult(Overhead) /\ Overhead \in Nat
  BY <1>1, Multiples
<1>7. Overhead + ALIGNMENT <= max_bytes
  <2>1. Overhead < max_bytes
    BY <1>1, <1>5, <1>6
  <2> QED  BY <1>5, <1>6, <2>1, Multiples
<1> QED  BY <1>1, <1>3, <1>5, <1>6, <1>7

Index == 0..(ENTRY_SIZE - 1)

\* The list of a size.
LEMMA IndexOf ==
  ASSUME NEW s \in Nat, s <= val[SIZE_BITS - 1]
  PROVE  /\ get_index(s) \in Index
         /\ s <= val[get_index(s)]
         /\ \A j \in 0..(get_index(s) - 1) : s > val[j]
<1> DEFINE T == {i \in Index : s <= val[i]}
<1>1. SIZE_BITS - 1 \in Index /\ ENTRY_SIZE \in Nat /\ Index \subseteq 0..ENTRY_SIZE /\ Index \subseteq Nat
  BY WidthAssumption DEF Index
<1>2. PICK i \in T : \A j \in T : i <= j
  <2>1. T \subseteq Nat /\ T # {}
    BY <1>1
  <2> HIDE DEF T
  <2> QED  BY <2>1, LeastNumber
<1>3. \A j \in Index : val[j] \in Nat
  BY <1>1, Powers
<1>4. \A j \in 0..(i - 1) : s > val[j]
  <2> TAKE j \in 0..(i - 1)
  <2>1. j \in Index /\ j < i
    BY <1>1, <1>2 DEF Index
  <2>2. ~(s <= val[j]) /\ val[j] \in Nat
    BY <1>1, <1>2, <1>3, <2>1
  <2> QED  BY <2>2
<1> QED  BY <1>2, <1>4 DEF get_index, Index

\* Larger blocks are in later lists.
LEMMA IndexGrows ==
  ASSUME NEW s \in Nat, NEW t \in Nat, s <= t, t <= val[SIZE_BITS - 1]
  PROVE  get_index(s) <= get_index(t)
<1>1. val[SIZE_BITS - 1] \in Nat
  BY Region
<1>2. /\ get_index(s) \in Index /\ \A j \in 0..(get_index(s) - 1) : s > val[j]
      /\ get_index(t) \in Index /\ t <= val[get_index(t)]
  BY <1>1, IndexOf
<1>3. val[get_index(t)] \in Nat
  BY <1>2, Powers, WidthAssumption DEF Index
<1> QED  BY <1>2, <1>3, WidthAssumption DEF Index

-----------------------------------------------------------------------------
(* The blocks of a heap.                                                     *)

Footers == [is_free : BOOLEAN, size : Nat \cup {Junk}]

Heaps == [hdr : [Addr -> Headers \cup {Junk}], ftr : [Addr -> Footers \cup {Junk}],
          arr : [Index -> Addr \cup {NULL}], ok : BOOLEAN]

Heads(h) == {a \in Addr : h.hdr[a] # Junk}

\* The blocks tile the region.
Tiles(h) ==
  /\ 0 \in Heads(h)
  /\ \A b \in Heads(h) : /\ Mult(h.hdr[b].size) /\ h.hdr[b].size # 0
                         /\ After(h, b) \in Heads(h) \cup {max_bytes}
  /\ \A b, c \in Heads(h) : b < c => After(h, b) <= c

\* Footers say what headers say.
TagOk(h, b) ==
  h.ftr[FooterOf(h, b)] = [is_free |-> h.hdr[b].is_free, size |-> h.hdr[b].size]
Tagged(h) == \A b \in Heads(h) : TagOk(h, b)

\* What is known of one block.
LEMMA Blocks1 ==
  ASSUME NEW h \in Heaps, Tiles(h), NEW b \in Heads(h)
  PROVE  /\ h.hdr[b] \in Headers
         /\ b \in Addr /\ b \in Nat /\ Mult(b)
         /\ h.hdr[b].size \in Nat /\ Mult(h.hdr[b].size) /\ ALIGNMENT <= h.hdr[b].size
         /\ FooterOf(h, b) = b + METADATA_T_ALIGNED + h.hdr[b].size
         /\ After(h, b) = b + Overhead + h.hdr[b].size
         /\ After(h, b) = FooterOf(h, b) + FOOTER_T_ALIGNED
         /\ After(h, b) \in Nat /\ Mult(After(h, b)) /\ After(h, b) <= max_bytes
         /\ FooterOf(h, b) \in Addr
         /\ b + METADATA_T_ALIGNED \in Addr
<1>1. b \in Addr /\ h.hdr[b] \in Headers
  BY DEF Heads, Heaps
<1>2. b \in Nat /\ Mult(b) /\ b < max_bytes
  BY <1>1, Region DEF Addr, Mult
<1>3. h.hdr[b].size \in Nat /\ Mult(h.hdr[b].size) /\ h.hdr[b].size # 0
  BY <1>1 DEF Headers, Tiles
<1>4. ALIGNMENT <= h.hdr[b].size
  <2>1. Mult(0)
    BY <1>3, Multiples
  <2> QED  BY <2>1, <1>3, Multiples, Region
<1>5. /\ FooterOf(h, b) = b + METADATA_T_ALIGNED + h.hdr[b].size
      /\ After(h, b) = b + Overhead + h.hdr[b].size
      /\ After(h, b) = FooterOf(h, b) + FOOTER_T_ALIGNED
      /\ After(h, b) \in Nat
  BY <1>2, <1>3, Region DEF FooterOf, After
<1>6. Mult(b + METADATA_T_ALIGNED)
  BY <1>2, Region, Multiples
<1>7. Mult(FooterOf(h, b))
  BY <1>3, <1>5, <1>6, Multiples
<1>8. Mult(After(h, b))
  BY <1>5, <1>7, Region, Multiples
<1>9. After(h, b) <= max_bytes
  <2>1. After(h, b) \in Heads(h) \cup {max_bytes}
    BY DEF Tiles
  <2>2. \A a \in Heads(h) : a <= max_bytes
    BY Region DEF Heads, Addr
  <2> QED  BY <2>1, <2>2, Region
<1>10. ASSUME NEW x, Mult(x), 0 <= x, x < max_bytes PROVE x \in Addr
  BY <1>10, Region DEF Addr, Mult
<1>11. FooterOf(h, b) \in Addr
  BY <1>2, <1>3, <1>5, <1>7, <1>9, <1>10, Region
<1>12. b + METADATA_T_ALIGNED \in Addr
  BY <1>2, <1>3, <1>5, <1>6, <1>9, <1>10, Region
<1> QED  BY <1>1, <1>2, <1>3, <1>4, <1>5, <1>8, <1>9, <1>11, <1>12

\* Two blocks do not overlap.
LEMMA Blocks2 ==
  ASSUME NEW h \in Heaps, Tiles(h), NEW b \in Heads(h), NEW c \in Heads(h), b # c
  PROVE  /\ After(h, b) <= c \/ After(h, c) <= b
         /\ FooterOf(h, b) # FooterOf(h, c)
         /\ FooterOf(h, b) # c
<1>1. b < c \/ c < b
  BY Blocks1
<1>2. After(h, b) <= c \/ After(h, c) <= b
  BY <1>1 DEF Tiles
<1> QED  BY <1>2, Blocks1, Region

\* The same blocks in both heaps; the links may differ.
SameBlocks(h, g) ==
  /\ g \in Heaps /\ g.ftr = h.ftr
  /\ \A a \in Addr : /\ g.hdr[a] = Junk <=> h.hdr[a] = Junk
                     /\ h.hdr[a] # Junk => /\ g.hdr[a].size = h.hdr[a].size
                                           /\ g.hdr[a].is_free = h.hdr[a].is_free

\* Changing links moves no block.
LEMMA SameBlocksTile ==
  ASSUME NEW h \in Heaps, NEW g, SameBlocks(h, g)
  PROVE  /\ Heads(g) = Heads(h)
         /\ \A b \in Heads(h) : FooterOf(g, b) = FooterOf(h, b) /\ After(g, b) = After(h, b)
         /\ Tiles(h) => Tiles(g)
         /\ Tagged(h) => Tagged(g)
<1>1. Heads(g) = Heads(h)
  BY DEF Heads, SameBlocks
<1>2. \A b \in Heads(h) : g.hdr[b].size = h.hdr[b].size /\ g.hdr[b].is_free = h.hdr[b].is_free
  BY DEF Heads, SameBlocks
<1>3. \A b \in Heads(h) : FooterOf(g, b) = FooterOf(h, b) /\ After(g, b) = After(h, b)
  BY <1>2 DEF FooterOf, After
<1>4. Tiles(h) => Tiles(g)
  BY <1>1, <1>2, <1>3 DEF Tiles
<1>5. Tagged(h) => Tagged(g)
  BY <1>1, <1>2, <1>3 DEF Tagged, TagOk, SameBlocks
<1> QED  BY <1>1, <1>3, <1>4, <1>5

-----------------------------------------------------------------------------
(* The free lists.  The blocks in F are linked in the lists of their sizes;  *)
(* the ranks r fall along a list, so that it does not turn back.             *)

ListOf(h, b) == get_index(h.hdr[b].size)

NextOk(h, F, r, b) ==
  LET n == h.hdr[b].next
  IN n = NULL \/ (n \in F /\ ListOf(h, n) = ListOf(h, b) /\ h.hdr[n].prev = b /\ r[n] < r[b])
PrevOk(h, F, b) ==
  LET p == h.hdr[b].prev
  IN IF p = NULL THEN h.arr[ListOf(h, b)] = b ELSE p \in F /\ h.hdr[p].next = b
HeadOk(h, F, i) ==
  LET a == h.arr[i]
  IN a = NULL \/ (a \in F /\ ListOf(h, a) = i /\ h.hdr[a].prev = NULL)

Links(h, F, r) ==
  /\ F \subseteq Heads(h)
  /\ r \in [Addr -> Nat] /\ \E n \in Nat : \A a \in Addr : r[a] <= n
  /\ \A b \in F : NextOk(h, F, r, b) /\ PrevOk(h, F, b)
  /\ \A i \in Index : HeadOk(h, F, i)
  /\ \A b \in Heads(h) \ F : h.hdr[b].prev = NULL /\ h.hdr[b].next = NULL

\* Every block has a list.
LEMMA ListOfBlock ==
  ASSUME NEW h \in Heaps, Tiles(h), NEW b \in Heads(h)
  PROVE  ListOf(h, b) \in Index
<1>1. /\ h.hdr[b].size \in Nat /\ After(h, b) <= max_bytes /\ b \in Nat
      /\ After(h, b) = b + Overhead + h.hdr[b].size
  BY Blocks1
<1>2. h.hdr[b].size <= val[SIZE_BITS - 1]
  BY <1>1, Region
<1> QED  BY <1>1, <1>2, IndexOf DEF ListOf

\* What is listed stays listed if nothing happens to it.
LEMMA LinksKept ==
  ASSUME NEW h, NEW g, NEW F, NEW r, Links(h, F, r),
         F \subseteq Heads(g), g.arr = h.arr,
         \A b \in F : /\ g.hdr[b].size = h.hdr[b].size
                      /\ g.hdr[b].prev = h.hdr[b].prev /\ g.hdr[b].next = h.hdr[b].next,
         \A b \in Heads(g) \ F : g.hdr[b].prev = NULL /\ g.hdr[b].next = NULL
  PROVE  Links(g, F, r)
<1>1. \A b \in F : ListOf(g, b) = ListOf(h, b)
  BY DEF ListOf
<1>2. \A b \in F : NextOk(g, F, r, b)
  BY <1>1 DEF Links, NextOk
<1>3. \A b \in F : PrevOk(g, F, b)
  BY <1>1 DEF Links, PrevOk
<1>4. \A i \in Index : HeadOk(g, F, i)
  BY <1>1 DEF Links, HeadOk
<1> QED  BY <1>2, <1>3, <1>4 DEF Links

\* The neighbours of a block in its list are different blocks.
LEMMA Neighbours ==
  ASSUME NEW h \in Heaps, Tiles(h), NEW F, NEW r, Links(h, F, r), NEW b \in F
  PROVE  /\ b \in Heads(h) /\ b # NULL
         /\ h.hdr[b].prev = NULL \/ (h.hdr[b].prev \in F /\ h.hdr[b].prev # b)
         /\ h.hdr[b].next = NULL \/ (h.hdr[b].next \in F /\ h.hdr[b].next # b)
         /\ h.hdr[b].prev = h.hdr[b].next => h.hdr[b].prev = NULL
<1> DEFINE p == h.hdr[b].prev
           n == h.hdr[b].next
<1>1. /\ b \in Heads(h) /\ F \subseteq Heads(h) /\ b # NULL
      /\ \A a \in F : a \in Addr /\ a # NULL /\ r[a] \in Nat
  <2>1. \A a \in F : a \in Heads(h) /\ a \in Nat /\ a \in Addr
    BY Blocks1 DEF Links
  <2> QED  BY <2>1, JunkAssumption DEF Links
<1>2. n = NULL \/ (n \in F /\ r[n] < r[b])
  BY DEF Links, NextOk
<1>3. p = NULL \/ (p \in F /\ h.hdr[p].next = b)
  BY DEF Links, PrevOk
<1>4. p # NULL => r[b] < r[p]
  <2> SUFFICES ASSUME p # NULL PROVE r[b] < r[p]
    OBVIOUS
  <2>1. p \in F /\ h.hdr[p].next = b
    BY <1>3
  <2>2. NextOk(h, F, r, p)
    BY <2>1 DEF Links
  <2> QED  BY <1>1, <2>1, <2>2 DEF NextOk
<1> HIDE DEF p, n
<1>5. p # NULL => p \in F /\ p # b
  BY <1>1, <1>3, <1>4
<1>6. n # NULL => n \in F /\ n # b
  BY <1>1, <1>2
<1>7. p = n => p = NULL
  BY <1>1, <1>2, <1>4, <1>5, <1>6
<1> QED  BY <1>1, <1>5, <1>6, <1>7 DEF p, n

\* What remove_from_list makes of the heap, field by field.
Removed(h, b, g) ==
  /\ g \in Heaps /\ g.ftr = h.ftr
  /\ g.ok = (h.ok /\ (h.hdr[b].prev = NULL => h.arr[ListOf(h, b)] = b))
  /\ g.arr = IF h.hdr[b].prev = NULL THEN [h.arr EXCEPT ![ListOf(h, b)] = h.hdr[b].next] ELSE h.arr
  /\ \A a \in Addr : h.hdr[a] = Junk => g.hdr[a] = Junk
  /\ \A a \in Heads(h) :
       /\ g.hdr[a] \in Headers
       /\ g.hdr[a].is_free = h.hdr[a].is_free /\ g.hdr[a].size = h.hdr[a].size
       /\ g.hdr[a].prev = IF a = b THEN NULL
                          ELSE IF a = h.hdr[b].next THEN h.hdr[b].prev ELSE h.hdr[a].prev
       /\ g.hdr[a].next = IF a = b THEN NULL
                          ELSE IF a = h.hdr[b].prev THEN h.hdr[b].next ELSE h.hdr[a].next

\* remove_from_list, whichever neighbours the block has.
LEMMA RemoveFields ==
  ASSUME NEW h \in Heaps, Tiles(h), NEW F, NEW r, Links(h, F, r), NEW b \in F,
         NEW g, g = remove_from_list(h, b)
  PROVE  Removed(h, b, g)
<1> DEFINE e == h.hdr[b]
           i == ListOf(h, b)
           H == [Addr -> Headers \cup {Junk}]
           arr2 == IF e.prev = NULL THEN [h.arr EXCEPT ![i] = e.next] ELSE h.arr
           hdr2 == IF e.prev = NULL THEN h.hdr ELSE [h.hdr EXCEPT ![e.prev].next = e.next]
           hdr3 == IF e.next = NULL THEN hdr2 ELSE [hdr2 EXCEPT ![e.next].prev = e.prev]
           hdr4 == [hdr3 EXCEPT ![b].prev = NULL, ![b].next = NULL]
<1>1. g = [[h EXCEPT !.ok = @ /\ (e.prev = NULL => h.arr[i] = b)] EXCEPT !.arr = arr2, !.hdr = hdr4]
  BY DEF remove_from_list, Assert, ListOf
<1>2. /\ h.hdr \in H /\ h.ftr \in [Addr -> Footers \cup {Junk}]
      /\ h.arr \in [Index -> Addr \cup {NULL}] /\ h.ok \in BOOLEAN
  BY DEF Heaps
<1>3. g = [hdr |-> hdr4, ftr |-> h.ftr, arr |-> arr2,
           ok |-> h.ok /\ (e.prev = NULL => h.arr[i] = b)]
  <2> HIDE DEF hdr4, arr2, e, i
  <2> QED  BY <1>1 DEF Heaps
<1>4. /\ b \in Heads(h) /\ i \in Index
      /\ \A a \in Heads(h) : a \in Addr /\ h.hdr[a] \in Headers
      /\ e.prev = NULL \/ (e.prev \in Heads(h) /\ e.prev # b)
      /\ e.next = NULL \/ (e.next \in Heads(h) /\ e.next # b)
      /\ e.prev = e.next => e.prev = NULL
      /\ e.prev \in Addr \cup {NULL} /\ e.next \in Addr \cup {NULL}
  <2>1. b \in Heads(h) /\ F \subseteq Heads(h)
    BY DEF Links
  <2>2. \A a \in Heads(h) : a \in Addr /\ h.hdr[a] \in Headers
    BY Blocks1
  <2> QED  BY <2>1, <2>2, Neighbours, ListOfBlock DEF Headers
<1>5. NULL \notin Heads(h)
  BY JunkAssumption DEF Heads, Addr
<1>6. arr2 \in [Index -> Addr \cup {NULL}]
  BY <1>2, <1>4
<1>7. /\ hdr2 \in H
      /\ \A a \in Addr : h.hdr[a] = Junk => hdr2[a] = Junk
      /\ \A a \in Heads(h) :
           /\ hdr2[a] \in Headers
           /\ hdr2[a].is_free = h.hdr[a].is_free /\ hdr2[a].size = h.hdr[a].size
           /\ hdr2[a].prev = h.hdr[a].prev
           /\ hdr2[a].next = IF a = e.prev THEN e.next ELSE h.hdr[a].next
  <2> HIDE DEF e
  <2>1. CASE e.prev = NULL
    BY <1>2, <1>4, <1>5, <2>1
  <2>2. CASE e.prev # NULL
    <3>1. e.prev \in Heads(h) /\ hdr2 = [h.hdr EXCEPT ![e.prev] = [h.hdr[e.prev] EXCEPT !.next = e.next]]
      BY <1>2, <1>4, <2>2
    <3>2. [h.hdr[e.prev] EXCEPT !.next = e.next] \in Headers
      BY <1>4, <3>1 DEF Headers
    <3>3. h.hdr[e.prev] # Junk
      BY <3>1 DEF Heads
    <3> QED  BY <1>2, <1>4, <3>1, <3>2, <3>3 DEF Headers
  <2> QED  BY <2>1, <2>2
<1>8. /\ hdr3 \in H
      /\ \A a \in Addr : h.hdr[a] = Junk => hdr3[a] = Junk
      /\ \A a \in Heads(h) :
           /\ hdr3[a] \in Headers
           /\ hdr3[a].is_free = h.hdr[a].is_free /\ hdr3[a].size = h.hdr[a].size
           /\ hdr3[a].prev = IF a = e.next THEN e.prev ELSE h.hdr[a].prev
           /\ hdr3[a].next = IF a = e.prev THEN e.next ELSE h.hdr[a].next
  <2> HIDE DEF e, hdr2
  <2>1. CASE e.next = NULL
    BY <1>4, <1>5, <1>7, <2>1
  <2>2. CASE e.next # NULL
    <3>1. e.next \in Heads(h) /\ hdr3 = [hdr2 EXCEPT ![e.next] = [hdr2[e.next] EXCEPT !.prev = e.prev]]
      BY <1>4, <1>7, <2>2
    <3>2. [hdr2[e.next] EXCEPT !.prev = e.prev] \in Headers
      BY <1>4, <1>7, <3>1 DEF Headers
    <3>3. h.hdr[e.next] # Junk
      BY <3>1 DEF Heads
    <3> QED  BY <1>4, <1>7, <3>1, <3>2, <3>3 DEF Headers
  <2> QED  BY <2>1, <2>2
<1>9. /\ hdr4 \in H
      /\ \A a \in Addr : h.hdr[a] = Junk => hdr4[a] = Junk
      /\ \A a \in Heads(h) :
           /\ hdr4[a] \in Headers
           /\ hdr4[a].is_free = h.hdr[a].is_free /\ hdr4[a].size = h.hdr[a].size
           /\ hdr4[a].prev = IF a = b THEN NULL ELSE IF a = e.next THEN e.prev ELSE h.hdr[a].prev
           /\ hdr4[a].next = IF a = b THEN NULL ELSE IF a = e.prev THEN e.next ELSE h.hdr[a].next
  <2> HIDE DEF e, hdr2, hdr3
  <2>1. hdr4 = [hdr3 EXCEPT ![b] = [hdr3[b] EXCEPT !.prev = NULL, !.next = NULL]]
    BY <1>4, <1>8
  <2>2. [hdr3[b] EXCEPT !.prev = NULL, !.next = NULL] \in Headers
    <3>1. hdr3[b] \in Headers
      BY <1>4, <1>8
    <3> QED  BY <3>1 DEF Headers
  <2>3. h.hdr[b] # Junk
    BY <1>4 DEF Heads
  <2> QED  BY <1>4, <1>8, <2>1, <2>2, <2>3 DEF Headers
<1>10. g \in Heaps
  <2> HIDE DEF hdr4, arr2, e, i
  <2> QED  BY <1>2, <1>3, <1>6, <1>9 DEF Heaps
<1> QED
  <2> HIDE DEF hdr4
  <2> QED  BY <1>3, <1>9, <1>10 DEF Removed

\* remove_from_list takes the block out of its list and leaves the rest linked.
LEMMA RemoveList ==
  ASSUME NEW h \in Heaps, Tiles(h), NEW F, NEW r, Links(h, F, r), NEW b \in F,
         NEW g, g = remove_from_list(h, b)
  PROVE  /\ SameBlocks(h, g)
         /\ Links(g, F \ {b}, r)
         /\ g.ok = h.ok
<1> DEFINE p == h.hdr[b].prev
           n == h.hdr[b].next
           i == ListOf(h, b)
           F2 == F \ {b}
<1>0. Removed(h, b, g)
  BY RemoveFields
<1>1. /\ g \in Heaps /\ g.ftr = h.ftr
      /\ g.ok = (h.ok /\ (p = NULL => h.arr[i] = b))
      /\ g.arr = IF p = NULL THEN [h.arr EXCEPT ![i] = n] ELSE h.arr
      /\ \A a \in Addr : h.hdr[a] = Junk => g.hdr[a] = Junk
  BY <1>0 DEF Removed
<1>2. \A a \in Heads(h) :
        /\ g.hdr[a] \in Headers
        /\ g.hdr[a].is_free = h.hdr[a].is_free /\ g.hdr[a].size = h.hdr[a].size
        /\ g.hdr[a].prev = IF a = b THEN NULL ELSE IF a = n THEN p ELSE h.hdr[a].prev
        /\ g.hdr[a].next = IF a = b THEN NULL ELSE IF a = p THEN n ELSE h.hdr[a].next
  BY <1>0 DEF Removed
<1>3. /\ F \subseteq Heads(h) /\ b \in Heads(h) /\ NULL \notin Heads(h)
      /\ p = NULL \/ (p \in F2 /\ p # b)
      /\ n = NULL \/ (n \in F2 /\ n # b)
      /\ p = n => p = NULL
      /\ i \in Index /\ h.arr \in [Index -> Addr \cup {NULL}] /\ h.ok \in BOOLEAN
  <2>1. F \subseteq Heads(h) /\ b \in Heads(h)
    BY DEF Links
  <2>2. NULL \notin Heads(h)
    BY JunkAssumption DEF Heads, Addr
  <2>3. h.arr \in [Index -> Addr \cup {NULL}] /\ h.ok \in BOOLEAN
    BY DEF Heaps
  <2> QED  BY <2>1, <2>2, <2>3, Neighbours, ListOfBlock
<1>4. \A a \in Heads(h) : ListOf(g, a) = ListOf(h, a)
  BY <1>2 DEF ListOf
<1>5. /\ NextOk(h, F, r, b) /\ PrevOk(h, F, b)
      /\ \A c \in F : NextOk(h, F, r, c) /\ PrevOk(h, F, c)
      /\ \A j \in Index : HeadOk(h, F, j)
      /\ \A c \in F : r[c] \in Nat
  BY <1>3 DEF Links, Heads
<1>6. SameBlocks(h, g)
  <2>1. \A a \in Addr : h.hdr[a] # Junk => g.hdr[a] # Junk
    BY <1>2, JunkAssumption DEF Heads
  <2> QED  BY <1>1, <1>2, <2>1 DEF SameBlocks, Heads
<1>7. g.ok = h.ok
  BY <1>1, <1>3, <1>5 DEF PrevOk
<1>8. p # NULL => NextOk(h, F, r, p) /\ r[b] < r[p] /\ h.hdr[p].next = b /\ ListOf(h, p) = i
  BY <1>3, <1>5 DEF NextOk, PrevOk
<1>9. n # NULL => ListOf(h, n) = i /\ h.hdr[n].prev = b /\ r[n] < r[b]
  BY <1>5 DEF NextOk
<1> HIDE DEF p, n, i
<1>10. ASSUME NEW c \in F2 PROVE NextOk(g, F2, r, c)
  <2>1. c \in F /\ c \in Heads(h) /\ c # b
    BY <1>3
  <2>2. CASE c = p
    <3>1. g.hdr[c].next = n
      BY <1>2, <2>1, <2>2
    <3>2. CASE n # NULL
      <4>1. n \in F2 /\ n \in Heads(h) /\ n # b
        BY <1>3, <3>2
      <4>2. g.hdr[n].prev = c
        BY <1>2, <2>2, <4>1
      <4>3. r[n] < r[c]
        BY <1>3, <1>5, <1>8, <1>9, <2>1, <2>2, <3>2, <4>1
      <4>4. ListOf(g, n) = ListOf(g, c)
        BY <1>3, <1>4, <1>8, <1>9, <2>1, <2>2, <3>2, <4>1
      <4> QED  BY <3>1, <4>1, <4>2, <4>3, <4>4 DEF NextOk
    <3> QED  BY <3>1, <3>2 DEF NextOk
  <2>3. CASE c # p
    <3> DEFINE m == h.hdr[c].next
    <3>1. g.hdr[c].next = m
      BY <1>2, <2>1, <2>3
    <3>2. m = NULL \/ (m \in F /\ ListOf(h, m) = ListOf(h, c) /\ h.hdr[m].prev = c /\ r[m] < r[c])
      BY <1>5, <2>1 DEF NextOk
    <3> HIDE DEF m
    <3>3. CASE m # NULL
      <4>1. m # b
        BY <2>3, <3>2, <3>3 DEF p
      <4>2. m \in F2 /\ m \in Heads(h)
        BY <1>3, <3>2, <3>3, <4>1
      <4>3. m # n
        BY <1>9, <2>1, <3>2, <3>3
      <4>4. g.hdr[m].prev = c
        BY <1>2, <3>2, <3>3, <4>1, <4>2, <4>3
      <4>5. ListOf(g, m) = ListOf(g, c)
        BY <1>4, <2>1, <3>2, <3>3, <4>2
      <4> QED  BY <3>1, <3>2, <3>3, <4>2, <4>4, <4>5 DEF NextOk
    <3> QED  BY <3>1, <3>3 DEF NextOk
  <2> QED  BY <2>2, <2>3
<1>11. ASSUME NEW c \in F2 PROVE PrevOk(g, F2, c)
  <2>1. c \in F /\ c \in Heads(h) /\ c # b /\ ListOf(g, c) = ListOf(h, c)
    BY <1>3, <1>4
  <2>2. ListOf(h, c) \in Index
    BY <2>1, ListOfBlock
  <2>3. CASE c = n
    <3>1. g.hdr[c].prev = p
      BY <1>2, <2>1, <2>3
    <3>2. CASE p = NULL
      <4>1. g.arr[ListOf(g, c)] = c
        BY <1>1, <1>3, <1>9, <2>1, <2>3, <3>2
      <4> QED  BY <3>1, <3>2, <4>1 DEF PrevOk
    <3>3. CASE p # NULL
      <4>1. p \in F2 /\ g.hdr[p].next = c
        BY <1>2, <1>3, <2>3, <3>3
      <4> QED  BY <3>1, <3>3, <4>1 DEF PrevOk
    <3> QED  BY <3>2, <3>3
  <2>4. CASE c # n
    <3> DEFINE q == h.hdr[c].prev
    <3>1. g.hdr[c].prev = q
      BY <1>2, <2>1, <2>4
    <3>2. IF q = NULL THEN h.arr[ListOf(h, c)] = c ELSE q \in F /\ h.hdr[q].next = c
      BY <1>5, <2>1 DEF PrevOk
    <3> HIDE DEF q
    <3>3. CASE q = NULL
      <4>1. p = NULL => h.arr[i] = b
        BY <1>5 DEF PrevOk, p, i
      <4>2. g.arr[ListOf(h, c)] = c
        BY <1>1, <1>3, <2>1, <2>2, <3>2, <3>3, <4>1
      <4> QED  BY <2>1, <3>1, <3>3, <4>2 DEF PrevOk
    <3>4. CASE q # NULL
      <4>1. q # b
        BY <2>4, <3>2, <3>4 DEF n
      <4>2. q \in F2 /\ q \in Heads(h)
        BY <1>3, <3>2, <3>4, <4>1
      <4>3. q # p
        BY <1>8, <2>1, <3>2, <3>4
      <4>4. g.hdr[q].next = c
        BY <1>2, <3>2, <3>4, <4>1, <4>2, <4>3
      <4> QED  BY <3>1, <3>4, <4>2, <4>4 DEF PrevOk
    <3> QED  BY <3>3, <3>4
  <2> QED  BY <2>3, <2>4
<1>12. ASSUME NEW j \in Index PROVE HeadOk(g, F2, j)
  <2>1. CASE p = NULL /\ j = i
    <3>1. g.arr[j] = n
      BY <1>1, <1>3, <2>1
    <3>2. CASE n # NULL
      <4>1. n \in F2 /\ n \in Heads(h) /\ n # b
        BY <1>3, <3>2
      <4>2. g.hdr[n].prev = NULL
        BY <1>2, <2>1, <4>1
      <4>3. ListOf(g, n) = j
        BY <1>4, <1>9, <2>1, <3>2, <4>1
      <4> QED  BY <3>1, <4>1, <4>2, <4>3 DEF HeadOk
    <3> QED  BY <3>1, <3>2 DEF HeadOk
  <2>2. CASE ~(p = NULL /\ j = i)
    <3> DEFINE a == h.arr[j]
    <3>1. g.arr[j] = a
      BY <1>1, <1>3, <2>2
    <3>2. a = NULL \/ (a \in F /\ ListOf(h, a) = j /\ h.hdr[a].prev = NULL)
      BY <1>5 DEF HeadOk
    <3> HIDE DEF a
    <3>3. CASE a # NULL
      <4>1. a # b
        BY <2>2, <3>2, <3>3 DEF p, i
      <4>2. a \in F2 /\ a \in Heads(h)
        BY <1>3, <3>2, <3>3, <4>1
      <4>3. a # n
        BY <1>3, <1>9, <3>2, <3>3
      <4>4. g.hdr[a].prev = NULL
        BY <1>2, <3>2, <3>3, <4>1, <4>2, <4>3
      <4>5. ListOf(g, a) = j
        BY <1>4, <3>2, <3>3, <4>2
      <4> QED  BY <3>1, <4>2, <4>4, <4>5 DEF HeadOk
    <3> QED  BY <3>1, <3>3 DEF HeadOk
  <2> QED  BY <2>1, <2>2
<1>13. ASSUME NEW a \in Heads(g) \ F2 PROVE g.hdr[a].prev = NULL /\ g.hdr[a].next = NULL
  <2>1. a \in Heads(h)
    BY <1>6, SameBlocksTile
  <2>2. a # b => a \notin F /\ a # p /\ a # n
    BY <1>3, <2>1
  <2>3. a # b => h.hdr[a].prev = NULL /\ h.hdr[a].next = NULL
    BY <2>1, <2>2 DEF Links
  <2> QED  BY <1>2, <2>1, <2>2, <2>3
<1>14. F2 \subseteq Heads(g) /\ r \in [Addr -> Nat] /\ \E m \in Nat : \A a \in Addr : r[a] <= m
  BY <1>3, <1>6, SameBlocksTile DEF Links
<1>15. Links(g, F2, r)
  <2> HIDE DEF F2
  <2> QED  BY <1>10, <1>11, <1>12, <1>13, <1>14 DEF Links
<1> QED  BY <1>6, <1>7, <1>15

\* What add_to_free_list makes of the heap, field by field.
Added(h, b, g) ==
  LET head == h.arr[ListOf(h, b)]
  IN /\ g \in Heaps /\ g.ftr = h.ftr /\ g.ok = h.ok
     /\ g.arr = [h.arr EXCEPT ![ListOf(h, b)] = b]
     /\ \A a \in Addr : h.hdr[a] = Junk => g.hdr[a] = Junk
     /\ \A a \in Heads(h) :
          /\ g.hdr[a] \in Headers
          /\ g.hdr[a].is_free = h.hdr[a].is_free /\ g.hdr[a].size = h.hdr[a].size
          /\ g.hdr[a].prev = IF a = head THEN b ELSE h.hdr[a].prev
          /\ g.hdr[a].next = IF a = b THEN head ELSE h.hdr[a].next

\* add_to_free_list, whether the list is empty or not.
LEMMA AddFields ==
  ASSUME NEW h \in Heaps, Tiles(h), NEW F, NEW r, Links(h, F, r), NEW b \in Heads(h) \ F,
         NEW g, g = add_to_free_list(h, b)
  PROVE  Added(h, b, g)
<1> DEFINE i == ListOf(h, b)
           head == h.arr[i]
           H == [Addr -> Headers \cup {Junk}]
           hdr2 == [h.hdr EXCEPT ![b].next = head, ![b].prev = NULL, ![head].prev = b]
<1>1. /\ h.hdr \in H /\ h.ftr \in [Addr -> Footers \cup {Junk}]
      /\ h.arr \in [Index -> Addr \cup {NULL}] /\ h.ok \in BOOLEAN
  BY DEF Heaps
<1>2. /\ b \in Heads(h) /\ i \in Index /\ b \in Addr /\ h.hdr[b] \in Headers
      /\ \A a \in Heads(h) : a \in Addr /\ h.hdr[a] \in Headers /\ h.hdr[a] # Junk
      /\ h.hdr[b].prev = NULL /\ h.hdr[b].next = NULL
      /\ head = NULL \/ (head \in Heads(h) /\ head # b)
      /\ NULL \notin Heads(h)
  <2>1. \A a \in Heads(h) : a \in Addr /\ h.hdr[a] \in Headers /\ h.hdr[a] # Junk
    BY Blocks1 DEF Heads
  <2>2. i \in Index
    BY ListOfBlock
  <2>3. HeadOk(h, F, i) /\ F \subseteq Heads(h)
    BY <2>2 DEF Links
  <2>4. NULL \notin Heads(h)
    BY JunkAssumption DEF Heads, Addr
  <2> QED  BY <2>1, <2>2, <2>3, <2>4 DEF Links, HeadOk
<1>3. [h.arr EXCEPT ![i] = b] \in [Index -> Addr \cup {NULL}]
  BY <1>1, <1>2
<1> HIDE DEF i, head
<1>4. CASE head = NULL
  <2>1. g = [h EXCEPT !.arr[i] = b]
    BY <1>4 DEF add_to_free_list, ListOf, head, i
  <2>2. g = [hdr |-> h.hdr, ftr |-> h.ftr, arr |-> [h.arr EXCEPT ![i] = b], ok |-> h.ok]
    BY <2>1 DEF Heaps
  <2>3. g \in Heaps
    BY <1>1, <1>3, <2>2 DEF Heaps
  <2> QED  BY <1>2, <1>4, <2>2, <2>3 DEF Added, i, head
<1>5. CASE head # NULL
  <2>1. g = [h EXCEPT !.arr[i] = b, !.hdr = hdr2]
    BY <1>5 DEF add_to_free_list, ListOf, head, i
  <2>2. g = [hdr |-> hdr2, ftr |-> h.ftr, arr |-> [h.arr EXCEPT ![i] = b], ok |-> h.ok]
    <3> HIDE DEF hdr2
    <3> QED  BY <2>1 DEF Heaps
  <2> DEFINE eb == [h.hdr[b] EXCEPT !.next = head, !.prev = NULL]
             eh == [h.hdr[head] EXCEPT !.prev = b]
  <2>3. hdr2 = [h.hdr EXCEPT ![b] = eb, ![head] = eh]
    BY <1>1, <1>2, <1>5
  <2>4. head \in Heads(h) /\ head \in Addr /\ head # b /\ h.hdr[head] \in Headers
    BY <1>2, <1>5
  <2>5. eb \in Headers /\ eh \in Headers
    BY <1>2, <2>4 DEF Headers
  <2>6. /\ eb.is_free = h.hdr[b].is_free /\ eb.size = h.hdr[b].size /\ eb.prev = NULL /\ eb.next = head
        /\ eh.is_free = h.hdr[head].is_free /\ eh.size = h.hdr[head].size
        /\ eh.prev = b /\ eh.next = h.hdr[head].next
    BY <1>2, <2>4 DEF Headers
  <2> HIDE DEF eb, eh, hdr2
  <2>7. hdr2 \in H
    BY <1>1, <1>2, <2>3, <2>4, <2>5
  <2>8. /\ hdr2[b] = eb /\ hdr2[head] = eh
        /\ \A a \in Addr : a # b /\ a # head => hdr2[a] = h.hdr[a]
    BY <1>1, <1>2, <2>3, <2>4
  <2>9. g \in Heaps
    BY <1>1, <1>3, <2>2, <2>7 DEF Heaps
  <2>10. /\ \A a \in Addr : h.hdr[a] = Junk => hdr2[a] = Junk
         /\ \A a \in Heads(h) :
              /\ hdr2[a] \in Headers
              /\ hdr2[a].is_free = h.hdr[a].is_free /\ hdr2[a].size = h.hdr[a].size
              /\ hdr2[a].prev = IF a = head THEN b ELSE h.hdr[a].prev
              /\ hdr2[a].next = IF a = b THEN head ELSE h.hdr[a].next
    BY <1>2, <2>4, <2>5, <2>6, <2>8
  <2> QED  BY <2>2, <2>9, <2>10 DEF Added, i, head
<1> QED  BY <1>4, <1>5

\* add_to_free_list puts the block in front of the list of its size.
LEMMA AddList ==
  ASSUME NEW h \in Heaps, Tiles(h), NEW F, NEW r, Links(h, F, r), NEW b \in Heads(h) \ F,
         NEW g, g = add_to_free_list(h, b)
  PROVE  /\ SameBlocks(h, g)
         /\ \E s : Links(g, F \cup {b}, s)
         /\ g.ok = h.ok
         /\ g.arr[ListOf(h, b)] = b /\ g.hdr[b].prev = NULL
<1> DEFINE i == ListOf(h, b)
           head == h.arr[i]
           G == F \cup {b}
           s == [a \in Addr |-> IF a = b /\ head # NULL THEN r[head] + 1 ELSE r[a]]
<1>0. Added(h, b, g)
  BY AddFields
<1>1. /\ g \in Heaps /\ g.ftr = h.ftr /\ g.ok = h.ok
      /\ g.arr = [h.arr EXCEPT ![i] = b]
      /\ \A a \in Addr : h.hdr[a] = Junk => g.hdr[a] = Junk
  BY <1>0 DEF Added
<1>2. \A a \in Heads(h) :
        /\ g.hdr[a] \in Headers
        /\ g.hdr[a].is_free = h.hdr[a].is_free /\ g.hdr[a].size = h.hdr[a].size
        /\ g.hdr[a].prev = IF a = head THEN b ELSE h.hdr[a].prev
        /\ g.hdr[a].next = IF a = b THEN head ELSE h.hdr[a].next
  BY <1>0 DEF Added
<1>3. /\ F \subseteq Heads(h) /\ Heads(h) \subseteq Addr /\ b \in Heads(h) /\ b \notin F
      /\ NULL \notin Heads(h)
      /\ i \in Index /\ h.arr \in [Index -> Addr \cup {NULL}]
      /\ h.hdr[b].prev = NULL /\ h.hdr[b].next = NULL
  <2>1. NULL \notin Heads(h)
    BY JunkAssumption DEF Heads, Addr
  <2>2. h.arr \in [Index -> Addr \cup {NULL}]
    BY DEF Heaps
  <2> QED  BY <2>1, <2>2, ListOfBlock DEF Links, Heads
<1>4. \A a \in Heads(h) : ListOf(g, a) = ListOf(h, a)
  BY <1>2 DEF ListOf
<1>5. /\ \A c \in F : NextOk(h, F, r, c) /\ PrevOk(h, F, c)
      /\ \A j \in Index : HeadOk(h, F, j)
      /\ r \in [Addr -> Nat]
  BY DEF Links
<1>6. head = NULL \/ (head \in F /\ ListOf(h, head) = i /\ h.hdr[head].prev = NULL /\ r[head] \in Nat)
  BY <1>3, <1>5 DEF HeadOk
<1>7. SameBlocks(h, g)
  <2>1. \A a \in Addr : h.hdr[a] # Junk => g.hdr[a] # Junk
    BY <1>2, JunkAssumption DEF Heads
  <2> QED  BY <1>1, <1>2, <2>1 DEF SameBlocks, Heads
<1>8. /\ s \in [Addr -> Nat]
      /\ \A a \in F : s[a] = r[a]
      /\ head # NULL => s[b] = r[head] + 1
  BY <1>3, <1>5, <1>6
<1>9. \E n \in Nat : \A a \in Addr : s[a] <= n
  <2>1. PICK n \in Nat : \A a \in Addr : r[a] <= n
    BY DEF Links
  <2>2. \A a \in Addr : s[a] <= n + 1
    BY <1>3, <1>5, <1>6, <2>1
  <2> QED  BY <2>1, <2>2
<1> HIDE DEF s, head, i
<1>10. ASSUME NEW c \in G PROVE NextOk(g, G, s, c)
  <2>1. CASE c = b
    <3>1. g.hdr[c].next = head
      BY <1>2, <1>3, <2>1
    <3>2. CASE head # NULL
      <4>1. head \in G /\ head \in Heads(h)
        BY <1>3, <1>6, <3>2
      <4>2. g.hdr[head].prev = c
        BY <1>2, <2>1, <4>1
      <4>3. ListOf(g, head) = ListOf(g, c)
        BY <1>3, <1>4, <1>6, <2>1, <3>2, <4>1 DEF i
      <4>4. s[head] < s[c]
        BY <1>6, <1>8, <2>1, <3>2
      <4> QED  BY <3>1, <4>1, <4>2, <4>3, <4>4 DEF NextOk
    <3> QED  BY <3>1, <3>2 DEF NextOk
  <2>2. CASE c # b
    <3> DEFINE m == h.hdr[c].next
    <3>1. c \in F /\ c \in Heads(h) /\ g.hdr[c].next = m
      BY <1>2, <1>3, <2>2
    <3>2. m = NULL \/ (m \in F /\ ListOf(h, m) = ListOf(h, c) /\ h.hdr[m].prev = c /\ r[m] < r[c])
      BY <1>5, <3>1 DEF NextOk
    <3> HIDE DEF m
    <3>3. CASE m # NULL
      <4>1. m \in F /\ m \in Heads(h) /\ m \in G
        BY <1>3, <3>2, <3>3
      <4>2. m # head
        BY <1>3, <1>6, <3>1, <3>2, <3>3
      <4>3. g.hdr[m].prev = c
        BY <1>2, <3>2, <3>3, <4>1, <4>2
      <4>4. ListOf(g, m) = ListOf(g, c)
        BY <1>4, <3>1, <3>2, <3>3, <4>1
      <4>5. s[m] < s[c]
        BY <1>8, <3>1, <3>2, <3>3, <4>1
      <4> QED  BY <3>1, <4>1, <4>3, <4>4, <4>5 DEF NextOk
    <3> QED  BY <3>1, <3>3 DEF NextOk
  <2> QED  BY <2>1, <2>2
<1>11. ASSUME NEW c \in G PROVE PrevOk(g, G, c)
  <2>1. c \in Heads(h) /\ ListOf(g, c) = ListOf(h, c)
    BY <1>3, <1>4
  <2>2. CASE c = b
    <3>1. g.hdr[c].prev = NULL /\ g.arr[i] = b
      BY <1>1, <1>2, <1>3, <1>6, <2>1, <2>2
    <3> QED  BY <2>1, <2>2, <3>1 DEF PrevOk, i
  <2>3. CASE c = head
    <3>1. g.hdr[c].prev = b /\ g.hdr[b].next = c /\ b \in G /\ b # NULL
      BY <1>2, <1>3, <2>1, <2>3
    <3> QED  BY <3>1 DEF PrevOk
  <2>4. CASE c # b /\ c # head
    <3> DEFINE q == h.hdr[c].prev
    <3>1. g.hdr[c].prev = q /\ c \in F
      BY <1>2, <2>1, <2>4
    <3>2. IF q = NULL THEN h.arr[ListOf(h, c)] = c ELSE q \in F /\ h.hdr[q].next = c
      BY <1>5, <3>1 DEF PrevOk
    <3> HIDE DEF q
    <3>3. CASE q = NULL
      <4>1. ListOf(h, c) # i
        BY <2>4, <3>2, <3>3 DEF head
      <4>2. g.arr[ListOf(h, c)] = c
        BY <1>1, <1>3, <3>2, <3>3, <4>1
      <4> QED  BY <2>1, <3>1, <3>3, <4>2 DEF PrevOk
    <3>4. CASE q # NULL
      <4>1. q \in G /\ q \in Heads(h) /\ q # b
        BY <1>3, <3>2, <3>4
      <4>2. g.hdr[q].next = c
        BY <1>2, <3>2, <3>4, <4>1
      <4> QED  BY <3>1, <3>4, <4>1, <4>2 DEF PrevOk
    <3> QED  BY <3>3, <3>4
  <2> QED  BY <2>2, <2>3, <2>4
<1>12. ASSUME NEW j \in Index PROVE HeadOk(g, G, j)
  <2>1. CASE j = i
    <3>1. g.arr[j] = b /\ g.hdr[b].prev = NULL /\ ListOf(g, b) = j
      BY <1>1, <1>2, <1>3, <1>4, <1>6, <2>1 DEF i
    <3> QED  BY <3>1 DEF HeadOk
  <2>2. CASE j # i
    <3> DEFINE a == h.arr[j]
    <3>1. g.arr[j] = a
      BY <1>1, <1>3, <2>2
    <3>2. a = NULL \/ (a \in F /\ ListOf(h, a) = j /\ h.hdr[a].prev = NULL)
      BY <1>5 DEF HeadOk
    <3> HIDE DEF a
    <3>3. CASE a # NULL
      <4>1. a \in G /\ a \in Heads(h) /\ a # head
        BY <1>3, <1>6, <2>2, <3>2, <3>3
      <4>2. g.hdr[a].prev = NULL /\ ListOf(g, a) = j
        BY <1>2, <1>4, <3>2, <3>3, <4>1
      <4> QED  BY <3>1, <4>1, <4>2 DEF HeadOk
    <3> QED  BY <3>1, <3>3 DEF HeadOk
  <2> QED  BY <2>1, <2>2
<1>13. ASSUME NEW a \in Heads(g) \ G PROVE g.hdr[a].prev = NULL /\ g.hdr[a].next = NULL
  <2>1. a \in Heads(h) /\ a # b /\ a \notin F /\ a # head
    BY <1>3, <1>6, <1>7, SameBlocksTile
  <2>2. h.hdr[a].prev = NULL /\ h.hdr[a].next = NULL
    BY <2>1 DEF Links
  <2> QED  BY <1>2, <2>1, <2>2
<1>14. G \subseteq Heads(g)
  BY <1>3, <1>7, SameBlocksTile
<1>15. Links(g, G, s)
  <2> HIDE DEF G
  <2> QED  BY <1>8, <1>9, <1>10, <1>11, <1>12, <1>13, <1>14 DEF Links
<1>16. g.arr[i] = b /\ g.hdr[b].prev = NULL
  BY <1>1, <1>2, <1>3, <1>6
<1> QED  BY <1>1, <1>7, <1>15, <1>16 DEF i

-----------------------------------------------------------------------------
(* Marking, merging and cutting blocks.                                    *)

Retag(h, b, f) ==
  [h EXCEPT !.hdr[b].is_free = f,
            !.ftr[FooterOf(h, b)] = [is_free |-> f, size |-> h.hdr[b].size]]

\* Block b is marked f; nothing else has changed.
Retagged(h, b, f, g) ==
  /\ g \in Heaps /\ Heads(g) = Heads(h) /\ g.arr = h.arr /\ g.ok = h.ok
  /\ \A a \in Heads(h) :
       /\ g.hdr[a].is_free = IF a = b THEN f ELSE h.hdr[a].is_free
       /\ g.hdr[a].size = h.hdr[a].size
       /\ g.hdr[a].prev = h.hdr[a].prev /\ g.hdr[a].next = h.hdr[a].next
       /\ FooterOf(g, a) = FooterOf(h, a) /\ After(g, a) = After(h, a)
  /\ TagOk(g, b)
  /\ \A a \in Heads(h) \ {b} : TagOk(h, a) => TagOk(g, a)

\* Marking a block in header and footer.
LEMMA RetagFields ==
  ASSUME NEW h \in Heaps, Tiles(h), NEW b \in Heads(h), NEW f \in BOOLEAN, NEW g, g = Retag(h, b, f)
  PROVE  Retagged(h, b, f, g)
<1> DEFINE H == [Addr -> Headers \cup {Junk}]
           K == [Addr -> Footers \cup {Junk}]
           x == FooterOf(h, b)
           e == [h.hdr[b] EXCEPT !.is_free = f]
           t == [is_free |-> f, size |-> h.hdr[b].size]
           hdr2 == [h.hdr EXCEPT ![b] = e]
           ftr2 == [h.ftr EXCEPT ![x] = t]
<1>1. /\ h.hdr \in H /\ h.ftr \in K
      /\ h.arr \in [Index -> Addr \cup {NULL}] /\ h.ok \in BOOLEAN
  BY DEF Heaps
<1>2. /\ b \in Addr /\ x \in Addr /\ h.hdr[b] \in Headers /\ h.hdr[b].size \in Nat
      /\ \A a \in Heads(h) : a \in Addr /\ h.hdr[a] # Junk
  BY Blocks1 DEF Heads
<1>3. g = [hdr |-> hdr2, ftr |-> ftr2, arr |-> h.arr, ok |-> h.ok]
  <2>1. g = [h EXCEPT !.hdr = hdr2, !.ftr = ftr2]
    BY DEF Retag
  <2> HIDE DEF hdr2, ftr2
  <2> QED  BY <2>1 DEF Heaps
<1>4. /\ e \in Headers /\ e.is_free = f /\ e.size = h.hdr[b].size
      /\ e.prev = h.hdr[b].prev /\ e.next = h.hdr[b].next
  BY <1>2 DEF Headers
<1>5. t \in Footers /\ e # Junk
  BY <1>2, <1>4, JunkAssumption DEF Footers
<1>6. hdr2 \in H /\ ftr2 \in K
  BY <1>1, <1>2, <1>4, <1>5
<1>7. /\ hdr2[b] = e /\ ftr2[x] = t
      /\ \A a \in Addr : a # b => hdr2[a] = h.hdr[a]
      /\ \A a \in Addr : a # x => ftr2[a] = h.ftr[a]
  BY <1>1, <1>2
<1> HIDE DEF e, t, hdr2, ftr2
<1>8. g \in Heaps
  BY <1>1, <1>3, <1>6 DEF Heaps
<1>9. Heads(g) = Heads(h)
  BY <1>2, <1>3, <1>5, <1>7 DEF Heads
<1>10. \A a \in Heads(h) :
       /\ g.hdr[a].is_free = IF a = b THEN f ELSE h.hdr[a].is_free
       /\ g.hdr[a].size = h.hdr[a].size
       /\ g.hdr[a].prev = h.hdr[a].prev /\ g.hdr[a].next = h.hdr[a].next
  BY <1>2, <1>3, <1>4, <1>7
<1>11. \A a \in Heads(h) : FooterOf(g, a) = FooterOf(h, a) /\ After(g, a) = After(h, a)
  BY <1>10 DEF FooterOf, After
<1>12. TagOk(g, b)
  BY <1>3, <1>7, <1>10, <1>11 DEF TagOk, t
<1>13. ASSUME NEW a \in Heads(h) \ {b}, TagOk(h, a) PROVE TagOk(g, a)
  <2>1. FooterOf(h, a) # x /\ FooterOf(h, a) \in Addr
    BY Blocks1, Blocks2
  <2> QED  BY <1>3, <1>7, <1>10, <1>11, <1>13, <2>1 DEF TagOk
<1> QED  BY <1>3, <1>8, <1>9, <1>10, <1>11, <1>12, <1>13 DEF Retagged

\* A mark moves no block and no link.
LEMMA RetagKeeps ==
  ASSUME NEW h \in Heaps, Tiles(h), NEW b \in Heads(h), NEW f \in BOOLEAN, NEW g, Retagged(h, b, f, g)
  PROVE  /\ Tiles(g)
         /\ (\A a \in Heads(h) \ {b} : TagOk(h, a)) => Tagged(g)
         /\ \A F, r : Links(h, F, r) => Links(g, F, r)
<1>1. Tiles(g)
  BY DEF Retagged, Tiles
<1>2. (\A a \in Heads(h) \ {b} : TagOk(h, a)) => Tagged(g)
  BY DEF Retagged, Tagged
<1>3. ASSUME NEW F, NEW r, Links(h, F, r) PROVE Links(g, F, r)
  <2>1. F \subseteq Heads(h) /\ \A a \in Heads(h) \ F : h.hdr[a].prev = NULL /\ h.hdr[a].next = NULL
    BY <1>3 DEF Links
  <2>2. /\ Heads(g) = Heads(h) /\ g.arr = h.arr
        /\ \A a \in Heads(h) : /\ g.hdr[a].size = h.hdr[a].size
                               /\ g.hdr[a].prev = h.hdr[a].prev /\ g.hdr[a].next = h.hdr[a].next
    BY DEF Retagged
  <2> QED  BY <1>3, <2>1, <2>2, LinksKept
<1> QED  BY <1>1, <1>2, <1>3

\* Block c has become part of block b, which lies before it.
Merged(h, b, c, g) ==
  /\ g \in Heaps /\ Heads(g) = Heads(h) \ {c} /\ g.arr = h.arr /\ g.ok = h.ok
  /\ \A a \in Heads(h) \ {b, c} :
       /\ g.hdr[a] = h.hdr[a]
       /\ FooterOf(g, a) = FooterOf(h, a) /\ After(g, a) = After(h, a)
       /\ TagOk(h, a) => TagOk(g, a)
  /\ g.hdr[b].is_free = TRUE /\ g.hdr[b].size = h.hdr[b].size + Overhead + h.hdr[c].size
  /\ g.hdr[b].prev = NULL /\ g.hdr[b].next = NULL
  /\ FooterOf(g, b) = FooterOf(h, c) /\ After(g, b) = After(h, c)
  /\ TagOk(g, b)

\* Merging two neighbours.
LEMMA MergeFields ==
  ASSUME NEW h \in Heaps, Tiles(h), NEW b \in Heads(h), NEW c \in Heads(h), After(h, b) = c,
         NEW g, g = Merge(h, b, c)
  PROVE  Merged(h, b, c, g)
<1> DEFINE H == [Addr -> Headers \cup {Junk}]
           K == [Addr -> Footers \cup {Junk}]
           x == FooterOf(h, b)
           y == FooterOf(h, c)
           size == h.hdr[b].size + Overhead + h.hdr[c].size
           e == [is_free |-> TRUE, size |-> size, prev |-> NULL, next |-> NULL]
           t == [is_free |-> TRUE, size |-> size]
           hdr2 == [h.hdr EXCEPT ![c] = Junk, ![b] = e]
           ftr2 == [h.ftr EXCEPT ![x] = Junk, ![y] = t]
<1>1. /\ h.hdr \in H /\ h.ftr \in K
      /\ h.arr \in [Index -> Addr \cup {NULL}] /\ h.ok \in BOOLEAN
  BY DEF Heaps
<1>2. /\ b \in Addr /\ c \in Addr /\ x \in Addr /\ y \in Addr /\ x # y
      /\ b \in Nat /\ c \in Nat /\ b # c
      /\ h.hdr[b].size \in Nat /\ h.hdr[c].size \in Nat /\ Overhead \in Nat
      /\ x = b + METADATA_T_ALIGNED + h.hdr[b].size /\ y = c + METADATA_T_ALIGNED + h.hdr[c].size
      /\ c = b + Overhead + h.hdr[b].size
      /\ After(h, c) = c + Overhead + h.hdr[c].size /\ After(h, c) = y + FOOTER_T_ALIGNED
      /\ METADATA_T_ALIGNED \in Nat /\ FOOTER_T_ALIGNED \in Nat
      /\ \A a \in Heads(h) : a \in Addr /\ h.hdr[a] # Junk
  <2>1. b < c
    BY Blocks1, Region
  <2>2. b # c
    BY <2>1, Blocks1
  <2>3. x # y
    BY <2>2, Blocks2
  <2> QED  BY <2>2, <2>3, Blocks1, Region DEF Heads
<1>3. g = [hdr |-> hdr2, ftr |-> ftr2, arr |-> h.arr, ok |-> h.ok]
  <2>1. g = [h EXCEPT !.hdr = hdr2, !.ftr = ftr2]
    BY DEF Merge
  <2> HIDE DEF hdr2, ftr2
  <2> QED  BY <2>1 DEF Heaps
<1>4. size \in Nat
  BY <1>2
<1> HIDE DEF size
<1>5. e \in Headers /\ t \in Footers
  BY <1>4 DEF Headers, Footers
<1>6. e # Junk
  BY <1>5, JunkAssumption
<1>7. /\ e.is_free = TRUE /\ e.size = size /\ e.prev = NULL /\ e.next = NULL
  OBVIOUS
<1> HIDE DEF e, t
<1>8. hdr2 \in H /\ ftr2 \in K
  BY <1>1, <1>2, <1>5
<1>9. /\ hdr2[b] = e /\ ftr2[y] = t /\ hdr2[c] = Junk
      /\ \A a \in Addr : a # b /\ a # c => hdr2[a] = h.hdr[a]
      /\ \A a \in Addr : a # x /\ a # y => ftr2[a] = h.ftr[a]
  BY <1>1, <1>2
<1> HIDE DEF hdr2, ftr2
<1>10. g \in Heaps
  BY <1>1, <1>3, <1>8 DEF Heaps
<1>11. Heads(g) = Heads(h) \ {c}
  <2>1. \A a \in Addr : hdr2[a] # Junk <=> h.hdr[a] # Junk /\ a # c
    BY <1>2, <1>6, <1>9
  <2>2. Heads(g) = {a \in Addr : hdr2[a] # Junk}
    BY <1>3 DEF Heads
  <2> QED  BY <2>1, <2>2 DEF Heads
<1>12. \A a \in Heads(h) \ {b, c} : g.hdr[a] = h.hdr[a]
  BY <1>2, <1>3, <1>9
<1>13. \A a \in Heads(h) \ {b, c} : FooterOf(g, a) = FooterOf(h, a) /\ After(g, a) = After(h, a)
  BY <1>12 DEF FooterOf, After
<1>14. ASSUME NEW a \in Heads(h) \ {b, c}, TagOk(h, a) PROVE TagOk(g, a)
  <2>1. FooterOf(h, a) # x /\ FooterOf(h, a) # y /\ FooterOf(h, a) \in Addr
    BY Blocks1, Blocks2
  <2> QED  BY <1>3, <1>9, <1>12, <1>13, <1>14, <2>1 DEF TagOk
<1>15. g.hdr[b] = e
  BY <1>3, <1>9
<1>16. FooterOf(g, b) = y /\ After(g, b) = After(h, c)
  <2>1. FooterOf(g, b) = b + METADATA_T_ALIGNED + size /\ After(g, b) = FooterOf(g, b) + FOOTER_T_ALIGNED
    BY <1>7, <1>15 DEF FooterOf, After
  <2> QED  BY <1>2, <2>1, Region DEF size
<1>17. TagOk(g, b)
  <2>1. g.ftr[FooterOf(g, b)] = t
    BY <1>3, <1>9, <1>16
  <2>2. t = [is_free |-> g.hdr[b].is_free, size |-> g.hdr[b].size]
    BY <1>7, <1>15 DEF t
  <2> QED  BY <2>1, <2>2 DEF TagOk
<1>18. /\ g.arr = h.arr /\ g.ok = h.ok
       /\ g.hdr[b].is_free = TRUE /\ g.hdr[b].size = size /\ g.hdr[b].prev = NULL /\ g.hdr[b].next = NULL
  BY <1>3, <1>7, <1>15
<1> QED
  BY <1>10, <1>11, <1>12, <1>13, <1>14, <1>16, <1>17, <1>18 DEF Merged, size

\* The merged block takes the place of both.
LEMMA MergeKeeps ==
  ASSUME NEW h \in Heaps, Tiles(h), NEW b \in Heads(h), NEW c \in Heads(h), After(h, b) = c,
         NEW g, Merged(h, b, c, g)
  PROVE  /\ b # c /\ Tiles(g)
         /\ Tagged(h) => Tagged(g)
         /\ \A F, r : Links(h, F, r) /\ b \notin F /\ c \notin F => Links(g, F, r)
<1>1. /\ b < c /\ c < After(h, c)
      /\ \A a \in Heads(h) : a \in Nat /\ a < After(h, a) /\ After(h, a) \in Nat
  BY Blocks1, Region
<1>2. Heads(g) = Heads(h) \ {c} /\ b # c /\ b \in Heads(g)
  BY <1>1, Blocks1 DEF Merged
<1>3. \A a \in Heads(g) \ {b} : g.hdr[a] = h.hdr[a] /\ After(g, a) = After(h, a)
  BY <1>2 DEF Merged
<1>4. /\ After(g, b) = After(h, c)
      /\ g.hdr[b].size = h.hdr[b].size + Overhead + h.hdr[c].size
      /\ g.hdr[b].prev = NULL /\ g.hdr[b].next = NULL
  BY DEF Merged
<1>5. 0 \in Heads(g)
  BY <1>1, <1>2, Blocks1 DEF Tiles
<1>6. Mult(g.hdr[b].size) /\ g.hdr[b].size # 0
  <2>1. Mult(h.hdr[b].size) /\ Mult(h.hdr[c].size) /\ h.hdr[b].size \in Nat \ {0} /\ h.hdr[c].size \in Nat
    BY Blocks1, Region
  <2>2. Mult(Overhead) /\ Overhead \in Nat
    BY Region, Multiples
  <2>3. Mult(h.hdr[b].size + Overhead)
    BY <2>1, <2>2, Multiples
  <2> QED  BY <1>4, <2>1, <2>2, <2>3, Multiples
<1>7. ASSUME NEW a \in Heads(g)
      PROVE  /\ Mult(g.hdr[a].size) /\ g.hdr[a].size # 0
             /\ After(g, a) \in Heads(g) \cup {max_bytes}
  <2>1. CASE a = b
    <3>1. After(h, c) \in Heads(h) \cup {max_bytes}
      BY DEF Tiles
    <3>2. After(h, c) # c
      BY <1>1, Blocks1
    <3> QED  BY <1>2, <1>4, <1>6, <2>1, <3>1, <3>2
  <2>2. CASE a # b
    <3>1. a \in Heads(h) /\ a # c /\ After(h, a) \in Heads(h) \cup {max_bytes}
      BY <1>2 DEF Tiles
    <3>2. After(h, a) # c
      <4>1. After(h, a) <= b \/ After(h, b) <= a
        BY <2>2, <3>1, Blocks2
      <4> QED  BY <1>1, <3>1, <4>1, Blocks1
    <3> QED  BY <1>2, <1>3, <2>2, <3>1, <3>2 DEF Tiles
  <2> QED  BY <2>1, <2>2
<1>8. ASSUME NEW p \in Heads(g), NEW q \in Heads(g), p < q PROVE After(g, p) <= q
  <2>1. p \in Heads(h) /\ q \in Heads(h) /\ After(h, p) <= q /\ q # c
    BY <1>2, <1>8 DEF Tiles
  <2>2. CASE p = b
    <3>1. c < q
      BY <1>1, <2>1, <2>2
    <3> QED  BY <1>4, <2>1, <2>2, <3>1 DEF Tiles
  <2> QED  BY <1>3, <2>1, <2>2
<1>9. Tiles(g)
  BY <1>5, <1>7, <1>8 DEF Tiles
<1>10. ASSUME Tagged(h) PROVE Tagged(g)
  <2>1. TagOk(g, b) /\ \A a \in Heads(h) \ {b, c} : TagOk(g, a)
    BY <1>10 DEF Tagged, Merged
  <2> QED  BY <1>2, <2>1 DEF Tagged
<1>11. ASSUME NEW F, NEW r, Links(h, F, r), b \notin F, c \notin F PROVE Links(g, F, r)
  <2>1. F \subseteq Heads(h) /\ \A a \in Heads(h) \ F : h.hdr[a].prev = NULL /\ h.hdr[a].next = NULL
    BY <1>11 DEF Links
  <2>2. F \subseteq Heads(g) \ {b} /\ g.arr = h.arr
    BY <1>2, <1>11, <2>1 DEF Merged
  <2>3. \A a \in Heads(g) \ F : g.hdr[a].prev = NULL /\ g.hdr[a].next = NULL
    BY <1>2, <1>3, <1>4, <2>1
  <2> QED  BY <1>3, <1>11, <2>2, <2>3, LinksKept
<1> QED  BY <1>2, <1>9, <1>10, <1>11

\* split_free_block before it lists the block that is left.
Cut(h, b, total_size) ==
  LET left_size == h.hdr[b].size - total_size
      left == b + total_size
      a_size == total_size - Overhead
      a_foot == b + METADATA_T_ALIGNED + a_size
  IN [Assert(h, h.hdr[b].size >= total_size + ALIGNMENT) EXCEPT
        !.hdr = [@ EXCEPT
           ![b] = [is_free |-> FALSE, size |-> a_size, prev |-> NULL, next |-> NULL],
           ![left] = [is_free |-> TRUE, size |-> left_size, prev |-> NULL, next |-> NULL]],
        !.ftr = [@ EXCEPT
           ![a_foot] = [is_free |-> FALSE, size |-> Junk],
           ![left + METADATA_T_ALIGNED + left_size] = [is_free |-> TRUE, size |-> left_size]]]

\* split_free_block cuts, then lists.
LEMMA SplitIsCut ==
  ASSUME NEW h, NEW b, NEW total_size
  PROVE  split_free_block(h, b, total_size) = add_to_free_list(Cut(h, b, total_size), b + total_size)
BY DEF split_free_block, Cut

\* The last part of block b is a block of its own, free; the footer of the
\* first part is not yet what it should be.
CutAt(h, b, total_size, g) ==
  LET left == b + total_size
  IN /\ g \in Heaps /\ Heads(g) = Heads(h) \cup {left} /\ left \notin Heads(h)
     /\ g.arr = h.arr /\ g.ok = h.ok
     /\ \A a \in Heads(h) \ {b} :
          /\ g.hdr[a] = h.hdr[a]
          /\ FooterOf(g, a) = FooterOf(h, a) /\ After(g, a) = After(h, a)
          /\ TagOk(h, a) => TagOk(g, a)
     /\ g.hdr[b].is_free = FALSE /\ g.hdr[b].size = total_size - Overhead
     /\ g.hdr[b].prev = NULL /\ g.hdr[b].next = NULL
     /\ After(g, b) = left
     /\ g.hdr[left].is_free = TRUE /\ g.hdr[left].size = h.hdr[b].size - total_size
     /\ g.hdr[left].prev = NULL /\ g.hdr[left].next = NULL
     /\ After(g, left) = After(h, b)
     /\ TagOk(g, left)

\* Cutting a block in two.
LEMMA CutFields ==
  ASSUME NEW h \in Heaps, Tiles(h), NEW b \in Heads(h), NEW n, Mult(n), n > Overhead,
         h.hdr[b].size >= n + ALIGNMENT,
         NEW g, g = Cut(h, b, n)
  PROVE  CutAt(h, b, n, g)
<1> DEFINE H == [Addr -> Headers \cup {Junk}]
           K == [Addr -> Footers \cup {Junk}]
           left == b + n
           a_size == n - Overhead
           left_size == h.hdr[b].size - n
           x == b + METADATA_T_ALIGNED + a_size
           y == left + METADATA_T_ALIGNED + left_size
           e == [is_free |-> FALSE, size |-> a_size, prev |-> NULL, next |-> NULL]
           f == [is_free |-> TRUE, size |-> left_size, prev |-> NULL, next |-> NULL]
           s == [is_free |-> FALSE, size |-> Junk]
           t == [is_free |-> TRUE, size |-> left_size]
           hdr2 == [h.hdr EXCEPT ![b] = e, ![left] = f]
           ftr2 == [h.ftr EXCEPT ![x] = s, ![y] = t]
<1>1. /\ h.hdr \in H /\ h.ftr \in K
      /\ h.arr \in [Index -> Addr \cup {NULL}] /\ h.ok \in BOOLEAN
  BY DEF Heaps
<1>2. /\ n \in Nat /\ Overhead \in Nat /\ ALIGNMENT \in Nat \ {0}
      /\ METADATA_T_ALIGNED \in Nat \ {0} /\ FOOTER_T_ALIGNED \in Nat \ {0}
      /\ Overhead = METADATA_T_ALIGNED + FOOTER_T_ALIGNED
      /\ b \in Addr /\ b \in Nat /\ h.hdr[b].size \in Nat
      /\ FooterOf(h, b) = b + METADATA_T_ALIGNED + h.hdr[b].size
      /\ After(h, b) = b + Overhead + h.hdr[b].size
      /\ After(h, b) <= max_bytes /\ max_bytes \in Nat
      /\ \A a \in Heads(h) : a \in Addr /\ h.hdr[a] # Junk
  <2>1. n \in Int
    BY DEF Mult
  <2> QED  BY <2>1, Blocks1, Region DEF Heads
<1>3. /\ left \in Nat /\ a_size \in Nat /\ left_size \in Nat
      /\ y = FooterOf(h, b) /\ b < left /\ left < y /\ b < x /\ x < left /\ y < After(h, b)
  BY <1>2
<1>4. \A z : Mult(z) /\ 0 <= z /\ z < max_bytes => z \in Addr
  BY Region DEF Addr, Mult
<1>5. left \in Addr /\ x \in Addr /\ y \in Addr
  <2>1. Mult(b) /\ Mult(METADATA_T_ALIGNED) /\ Mult(FOOTER_T_ALIGNED)
    BY Blocks1, Region
  <2>2. Mult(left)
    BY <2>1, Multiples
  <2>3. Mult(left - FOOTER_T_ALIGNED)
    BY <2>1, <2>2, Multiples
  <2>4. x = left - FOOTER_T_ALIGNED
    BY <1>2
  <2>5. y \in Addr
    BY <1>3, Blocks1
  <2> QED  BY <1>2, <1>3, <1>4, <2>2, <2>3, <2>4, <2>5
<1>6. left \notin Heads(h)
  <2>1. left \in Heads(h) => After(h, b) <= left
    BY <1>2, <1>3 DEF Tiles
  <2> QED  BY <1>2, <1>3, <2>1
<1>7. \A a \in Heads(h) \ {b} : FooterOf(h, a) # x /\ FooterOf(h, a) # y /\ FooterOf(h, a) \in Addr
  <2> TAKE a \in Heads(h) \ {b}
  <2>1. /\ FooterOf(h, a) \in Addr /\ FooterOf(h, a) # FooterOf(h, b)
        /\ After(h, b) <= a \/ After(h, a) <= b
    BY Blocks1, Blocks2
  <2>2. /\ a \in Nat /\ h.hdr[a].size \in Nat
        /\ FooterOf(h, a) = a + METADATA_T_ALIGNED + h.hdr[a].size
        /\ After(h, a) = FooterOf(h, a) + FOOTER_T_ALIGNED
    BY Blocks1
  <2> QED  BY <1>2, <1>3, <2>1, <2>2
<1>8. g = [hdr |-> hdr2, ftr |-> ftr2, arr |-> h.arr, ok |-> h.ok]
  <2>1. g = [Assert(h, h.hdr[b].size >= n + ALIGNMENT) EXCEPT !.hdr = hdr2, !.ftr = ftr2]
    BY DEF Cut, Assert
  <2>2. Assert(h, h.hdr[b].size >= n + ALIGNMENT) = h
    BY DEF Assert, Heaps
  <2> HIDE DEF hdr2, ftr2
  <2> QED  BY <2>1, <2>2 DEF Heaps
<1> HIDE DEF left, a_size, left_size, x, y
<1>9. e \in Headers /\ f \in Headers /\ s \in Footers /\ t \in Footers
  BY <1>3 DEF Headers, Footers
<1>10. e # Junk /\ f # Junk
  BY <1>9, JunkAssumption
<1>11. /\ e.is_free = FALSE /\ e.size = a_size /\ e.prev = NULL /\ e.next = NULL
       /\ f.is_free = TRUE /\ f.size = left_size /\ f.prev = NULL /\ f.next = NULL
  OBVIOUS
<1> HIDE DEF e, f, s, t
<1>12. b # left /\ x # y
  BY <1>2, <1>3
<1>13. hdr2 \in H /\ ftr2 \in K
  BY <1>1, <1>2, <1>5, <1>9
<1>14. /\ hdr2[b] = e /\ hdr2[left] = f /\ ftr2[y] = t
       /\ \A a \in Addr : a # b /\ a # left => hdr2[a] = h.hdr[a]
       /\ \A a \in Addr : a # x /\ a # y => ftr2[a] = h.ftr[a]
  BY <1>1, <1>2, <1>5, <1>12
<1> HIDE DEF hdr2, ftr2
<1>15. g \in Heaps
  BY <1>1, <1>8, <1>13 DEF Heaps
<1>16. Heads(g) = Heads(h) \cup {left}
  <2>1. \A a \in Addr : hdr2[a] # Junk <=> h.hdr[a] # Junk \/ a = left
    BY <1>2, <1>10, <1>14
  <2>2. Heads(g) = {a \in Addr : hdr2[a] # Junk}
    BY <1>8 DEF Heads
  <2> QED  BY <1>5, <2>1, <2>2 DEF Heads
<1>17. \A a \in Heads(h) \ {b} : g.hdr[a] = h.hdr[a]
  BY <1>2, <1>6, <1>8, <1>14
<1>18. \A a \in Heads(h) \ {b} : FooterOf(g, a) = FooterOf(h, a) /\ After(g, a) = After(h, a)
  BY <1>17 DEF FooterOf, After
<1>19. ASSUME NEW a \in Heads(h) \ {b}, TagOk(h, a) PROVE TagOk(g, a)
  BY <1>7, <1>8, <1>14, <1>17, <1>18, <1>19 DEF TagOk
<1>20. g.hdr[b] = e /\ g.hdr[left] = f
  BY <1>8, <1>14
<1>21. After(g, b) = left
  BY <1>2, <1>11, <1>20 DEF FooterOf, After, left, a_size
<1>22. FooterOf(g, left) = y /\ After(g, left) = After(h, b)
  <2>1. FooterOf(g, left) = left + METADATA_T_ALIGNED + left_size /\ After(g, left) = FooterOf(g, left) + FOOTER_T_ALIGNED
    BY <1>11, <1>20 DEF FooterOf, After
  <2> QED  BY <1>3, <2>1, Blocks1 DEF y
<1>23. TagOk(g, left)
  <2>1. g.ftr[FooterOf(g, left)] = t
    BY <1>8, <1>14, <1>22
  <2>2. t = [is_free |-> g.hdr[left].is_free, size |-> g.hdr[left].size]
    BY <1>11, <1>20 DEF t
  <2> QED  BY <2>1, <2>2 DEF TagOk
<1>24. /\ g.arr = h.arr /\ g.ok = h.ok
       /\ g.hdr[b].is_free = FALSE /\ g.hdr[b].size = a_size
       /\ g.hdr[b].prev = NULL /\ g.hdr[b].next = NULL
       /\ g.hdr[left].is_free = TRUE /\ g.hdr[left].size = left_size
       /\ g.hdr[left].prev = NULL /\ g.hdr[left].next = NULL
  BY <1>8, <1>11, <1>20
<1> QED
  BY <1>6, <1>15, <1>16, <1>17, <1>18, <1>19, <1>21, <1>22, <1>23, <1>24 DEF CutAt, left, a_size, left_size

\* The two parts take the place of the block.
LEMMA CutKeeps ==
  ASSUME NEW h \in Heaps, Tiles(h), NEW b \in Heads(h), NEW n, Mult(n), n > Overhead,
         h.hdr[b].size >= n + ALIGNMENT,
         NEW g, CutAt(h, b, n, g)
  PROVE  /\ b + n # b /\ Tiles(g)
         /\ \A F, r : Links(h, F, r) /\ b \notin F => Links(g, F, r)
<1> DEFINE left == b + n
<1>1. /\ n \in Nat /\ Overhead \in Nat /\ ALIGNMENT \in Nat \ {0}
      /\ b \in Nat /\ h.hdr[b].size \in Nat
      /\ After(h, b) = b + Overhead + h.hdr[b].size
  <2>1. n \in Int
    BY DEF Mult
  <2> QED  BY <2>1, Blocks1, Region
<1>2. left \in Nat /\ b < left /\ left < After(h, b)
  BY <1>1
<1>3. /\ Heads(g) = Heads(h) \cup {left} /\ left \notin Heads(h)
      /\ \A a \in Heads(h) \ {b} : g.hdr[a] = h.hdr[a] /\ After(g, a) = After(h, a)
      /\ g.hdr[b].size = n - Overhead /\ g.hdr[b].prev = NULL /\ g.hdr[b].next = NULL
      /\ After(g, b) = left
      /\ g.hdr[left].size = h.hdr[b].size - n
      /\ g.hdr[left].prev = NULL /\ g.hdr[left].next = NULL
      /\ After(g, left) = After(h, b)
      /\ g.arr = h.arr
  BY DEF CutAt
<1> HIDE DEF left
<1>4. /\ 0 \in Heads(h)
      /\ \A a \in Heads(h) : /\ Mult(h.hdr[a].size) /\ h.hdr[a].size # 0
                             /\ After(h, a) \in Heads(h) \cup {max_bytes}
      /\ \A p, q \in Heads(h) : p < q => After(h, p) <= q
      /\ \A a \in Heads(h) : a \in Nat /\ After(h, a) \in Nat /\ a < After(h, a)
  <2>1. \A a \in Heads(h) : a \in Nat /\ After(h, a) \in Nat /\ a < After(h, a)
    BY Blocks1, Region
  <2> QED  BY <2>1 DEF Tiles
<1>5. /\ Mult(g.hdr[b].size) /\ g.hdr[b].size # 0
      /\ Mult(g.hdr[left].size) /\ g.hdr[left].size # 0
  <2>1. Mult(Overhead) /\ Mult(h.hdr[b].size)
    BY <1>4, Region, Multiples
  <2>2. Mult(n - Overhead) /\ Mult(h.hdr[b].size - n)
    BY <2>1, Multiples
  <2> QED  BY <1>1, <1>3, <2>2
<1>6. ASSUME NEW a \in Heads(g)
      PROVE  /\ Mult(g.hdr[a].size) /\ g.hdr[a].size # 0
             /\ After(g, a) \in Heads(g) \cup {max_bytes}
  BY <1>3, <1>4, <1>5
<1>7. ASSUME NEW p \in Heads(g), NEW q \in Heads(g), p < q PROVE After(g, p) <= q
  <2>1. CASE p = left
    <3>1. q \in Heads(h)
      BY <1>2, <1>3, <1>7, <2>1
    <3>2. b < q
      BY <1>1, <1>2, <1>4, <1>7, <2>1, <3>1
    <3> QED  BY <1>3, <1>4, <2>1, <3>1, <3>2
  <2>2. CASE p = b
    <3>1. CASE q = left
      BY <1>2, <1>3, <2>2, <3>1
    <3>2. CASE q # left
      BY <1>2, <1>3, <1>4, <1>7, <2>2, <3>2
    <3> QED  BY <3>1, <3>2
  <2>3. CASE p # left /\ p # b
    <3>1. p \in Heads(h) /\ After(g, p) = After(h, p)
      BY <1>3, <2>3
    <3>2. CASE q = left
      <4>1. p < b
        <5>1. p \in Nat /\ p < left /\ After(h, b) \in Nat
          BY <1>4, <1>7, <3>1, <3>2
        <5>2. b < p => After(h, b) <= p
          BY <1>4, <3>1
        <5> QED  BY <1>1, <1>2, <2>3, <5>1, <5>2
      <4>2. After(h, p) <= b
        BY <1>4, <3>1, <4>1
      <4> QED  BY <1>1, <1>2, <1>4, <3>1, <3>2, <4>2
    <3>3. CASE q # left
      BY <1>3, <1>4, <1>7, <3>1, <3>3
    <3> QED  BY <3>2, <3>3
  <2> QED  BY <2>1, <2>2, <2>3
<1>8. Tiles(g)
  BY <1>3, <1>4, <1>6, <1>7 DEF Tiles
<1>9. ASSUME NEW F, NEW r, Links(h, F, r), b \notin F PROVE Links(g, F, r)
  <2>1. F \subseteq Heads(h) /\ \A a \in Heads(h) \ F : h.hdr[a].prev = NULL /\ h.hdr[a].next = NULL
    BY <1>9 DEF Links
  <2>2. F \subseteq Heads(g) \ {b, left}
    BY <1>3, <1>9, <2>1
  <2>3. \A a \in Heads(g) \ F : g.hdr[a].prev = NULL /\ g.hdr[a].next = NULL
    BY <1>3, <2>1
  <2> QED  BY <1>3, <1>9, <2>1, <2>2, <2>3, LinksKept
<1> QED  BY <1>1, <1>2, <1>8, <1>9 DEF left

\* The program's own bytes hold no header and no footer.
LEMMA WrittenFields ==
  ASSUME NEW h \in Heaps, Tiles(h), NEW b \in Heads(h), NEW g, g = Written(h, b)
  PROVE  /\ g \in Heaps /\ Heads(g) = Heads(h) /\ g.arr = h.arr /\ g.ok = h.ok
         /\ \A a \in Heads(h) : /\ g.hdr[a] = h.hdr[a]
                                /\ FooterOf(g, a) = FooterOf(h, a) /\ After(g, a) = After(h, a)
                                /\ g.ftr[FooterOf(h, a)] = h.ftr[FooterOf(h, a)]
         /\ Tiles(g) /\ (Tagged(h) => Tagged(g))
         /\ \A F, r : Links(h, F, r) => Links(g, F, r)
<1> DEFINE I == (b + METADATA_T_ALIGNED)..(FooterOf(h, b) - 1)
           hdr2 == [a \in Addr |-> IF a \in I THEN Junk ELSE h.hdr[a]]
           ftr2 == [a \in Addr |-> IF a \in I THEN Junk ELSE h.ftr[a]]
<1>1. /\ h.hdr \in [Addr -> Headers \cup {Junk}] /\ h.ftr \in [Addr -> Footers \cup {Junk}]
      /\ h.arr \in [Index -> Addr \cup {NULL}] /\ h.ok \in BOOLEAN
  BY DEF Heaps
<1>2. g = [hdr |-> hdr2, ftr |-> ftr2, arr |-> h.arr, ok |-> h.ok]
  <2>1. g = [h EXCEPT !.hdr = hdr2, !.ftr = ftr2]
    BY DEF Written
  <2> HIDE DEF hdr2, ftr2
  <2> QED  BY <2>1 DEF Heaps
<1>3. ASSUME NEW a \in Heads(h) PROVE a \notin I /\ FooterOf(h, a) \notin I /\ FooterOf(h, a) \in Addr /\ a \in Addr
  <2>1. /\ a \in Nat /\ a \in Addr /\ FooterOf(h, a) \in Nat /\ FooterOf(h, a) \in Addr /\ h.hdr[a].size \in Nat
        /\ FooterOf(h, a) = a + METADATA_T_ALIGNED + h.hdr[a].size
        /\ After(h, a) = FooterOf(h, a) + FOOTER_T_ALIGNED
        /\ b \in Nat /\ FooterOf(h, b) \in Nat /\ h.hdr[b].size \in Nat
        /\ FooterOf(h, b) = b + METADATA_T_ALIGNED + h.hdr[b].size
        /\ After(h, b) = FooterOf(h, b) + FOOTER_T_ALIGNED
    BY Blocks1, Region DEF Addr
  <2>2. CASE a = b
    BY <2>1, <2>2, Region
  <2>3. CASE a # b
    <3>1. After(h, a) <= b \/ After(h, b) <= a
      BY <2>3, Blocks2
    <3> QED  BY <2>1, <3>1, Region
  <2> QED  BY <2>2, <2>3
<1>4. \A a \in Heads(h) : hdr2[a] = h.hdr[a] /\ ftr2[FooterOf(h, a)] = h.ftr[FooterOf(h, a)]
  BY <1>3
<1>5. hdr2 \in [Addr -> Headers \cup {Junk}] /\ ftr2 \in [Addr -> Footers \cup {Junk}]
  BY <1>1
<1>6. \A a \in Addr : a \notin Heads(h) => hdr2[a] = Junk
  BY DEF Heads
<1> HIDE DEF hdr2, ftr2
<1>7. g \in Heaps
  BY <1>1, <1>2, <1>5 DEF Heaps
<1>8. Heads(g) = Heads(h)
  <2>1. \A a \in Addr : hdr2[a] # Junk <=> h.hdr[a] # Junk
    BY <1>4, <1>6 DEF Heads
  <2>2. Heads(g) = {a \in Addr : hdr2[a] # Junk}
    BY <1>2 DEF Heads
  <2> QED  BY <2>1, <2>2 DEF Heads
<1>9. /\ g.arr = h.arr /\ g.ok = h.ok
      /\ \A a \in Heads(h) : g.hdr[a] = h.hdr[a] /\ g.ftr[FooterOf(h, a)] = h.ftr[FooterOf(h, a)]
  BY <1>2, <1>4
<1>10. \A a \in Heads(h) : FooterOf(g, a) = FooterOf(h, a) /\ After(g, a) = After(h, a)
  BY <1>9 DEF FooterOf, After
<1>11. Tiles(g)
  BY <1>8, <1>9, <1>10 DEF Tiles
<1>12. Tagged(h) => Tagged(g)
  BY <1>8, <1>9, <1>10 DEF Tagged, TagOk
<1>13. ASSUME NEW F, NEW r, Links(h, F, r) PROVE Links(g, F, r)
  <2>1. F \subseteq Heads(h) /\ \A a \in Heads(h) \ F : h.hdr[a].prev = NULL /\ h.hdr[a].next = NULL
    BY <1>13 DEF Links
  <2> QED  BY <1>8, <1>9, <1>13, <2>1, LinksKept
<1> QED  BY <1>7, <1>8, <1>9, <1>10, <1>11, <1>12, <1>13

-----------------------------------------------------------------------------
(* Sound heaps, and what dmalloc does to them.                             *)

FreeHeads(h) == {b \in Heads(h) : h.hdr[b].is_free}
Occupied(h) == Heads(h) \ FreeHeads(h)

\* Between two calls: the free blocks are listed, and no two are neighbours.
Sound(h) ==
  /\ h \in Heaps /\ Tiles(h) /\ Tagged(h) /\ h.ok
  /\ \E r : Links(h, FreeHeads(h), r)
  /\ \A b \in FreeHeads(h) : After(h, b) \notin FreeHeads(h)

\* Block b has been taken out of a sound heap; it is not yet marked.
Carved(h, b, size, g) ==
  /\ g \in Heaps /\ Tiles(g) /\ g.ok /\ b \in Heads(g)
  /\ \A a \in Heads(g) \ {b} : TagOk(g, a)
  /\ \E s : Links(g, FreeHeads(g) \ {b}, s)
  /\ \A a \in FreeHeads(g) \ {b} : After(g, a) \notin FreeHeads(g) \ {b}
  /\ Occupied(g) \ {b} = Occupied(h)
  /\ \A a \in Occupied(h) : g.hdr[a].size = h.hdr[a].size
  /\ g.hdr[b].size >= size

\* dmalloc takes a whole free block.
LEMMA CarveWhole ==
  ASSUME NEW h, Sound(h), NEW b \in FreeHeads(h), NEW size, h.hdr[b].size >= size,
         NEW g, g = remove_from_list(h, b)
  PROVE  Carved(h, b, size, g)
<1>1. h \in Heaps /\ Tiles(h) /\ Tagged(h) /\ h.ok /\ b \in Heads(h)
  BY DEF Sound, FreeHeads
<1>2. PICK r : Links(h, FreeHeads(h), r)
  BY DEF Sound
<1>3. SameBlocks(h, g) /\ Links(g, FreeHeads(h) \ {b}, r) /\ g.ok = h.ok
  BY <1>1, <1>2, RemoveList
<1>4. /\ Heads(g) = Heads(h) /\ Tiles(g) /\ Tagged(g)
      /\ \A a \in Heads(h) : After(g, a) = After(h, a)
  BY <1>1, <1>3, SameBlocksTile
<1>5. \A a \in Heads(h) : g.hdr[a].size = h.hdr[a].size /\ g.hdr[a].is_free = h.hdr[a].is_free
  BY <1>3 DEF SameBlocks, Heads
<1>6. FreeHeads(g) = FreeHeads(h)
  BY <1>4, <1>5 DEF FreeHeads
<1>7. Occupied(g) \ {b} = Occupied(h)
  BY <1>4, <1>6 DEF Occupied
<1>8. g \in Heaps
  BY <1>3 DEF SameBlocks
<1>9. \A a \in FreeHeads(g) \ {b} : After(g, a) \notin FreeHeads(g) \ {b}
  BY <1>4, <1>6 DEF Sound, FreeHeads
<1>10. \A a \in Occupied(h) : g.hdr[a].size = h.hdr[a].size
  BY <1>5 DEF Occupied
<1> QED
  BY <1>1, <1>3, <1>4, <1>5, <1>6, <1>7, <1>8, <1>9, <1>10 DEF Carved, Tagged

\* What dmalloc asserts of the block that is left.
LeftOk(g, left) ==
  /\ g.arr[get_index(g.hdr[left].size)] = left
  /\ g.hdr[left].is_free /\ g.hdr[left].prev = NULL
  /\ g.ftr[FooterOf(g, left)] = [is_free |-> TRUE, size |-> g.hdr[left].size]

\* dmalloc splits a free block and lists what is left.
LEMMA CarveSplit ==
  ASSUME NEW h, Sound(h), NEW b \in FreeHeads(h),
         NEW size \in Nat \ {0}, Mult(size), h.hdr[b].size >= Overhead + size + ALIGNMENT,
         NEW g, g = split_free_block(remove_from_list(h, b), b, Overhead + size)
  PROVE  Carved(h, b, size, g) /\ LeftOk(g, b + (Overhead + size))
<1> DEFINE h1 == remove_from_list(h, b)
           n == Overhead + size
           left == b + n
           c == Cut(h1, b, n)
           F == FreeHeads(h) \ {b}
<1>1. h \in Heaps /\ Tiles(h) /\ Tagged(h) /\ h.ok /\ b \in Heads(h)
  BY DEF Sound, FreeHeads
<1>2. PICK r : Links(h, FreeHeads(h), r)
  BY DEF Sound
<1>3. SameBlocks(h, h1) /\ Links(h1, F, r) /\ h1.ok = h.ok
  BY <1>1, <1>2, RemoveList
<1>4. /\ Heads(h1) = Heads(h) /\ Tiles(h1) /\ Tagged(h1) /\ h1 \in Heaps
      /\ \A a \in Heads(h) : After(h1, a) = After(h, a)
      /\ \A a \in Heads(h) : h1.hdr[a].size = h.hdr[a].size /\ h1.hdr[a].is_free = h.hdr[a].is_free
  <2>1. \A a \in Heads(h) : h1.hdr[a].size = h.hdr[a].size /\ h1.hdr[a].is_free = h.hdr[a].is_free
    BY <1>3 DEF SameBlocks, Heads
  <2>2. h1 \in Heaps
    BY <1>3 DEF SameBlocks
  <2> QED  BY <1>1, <1>3, <2>1, <2>2, SameBlocksTile
<1> HIDE DEF h1
<1>5. Mult(n) /\ n > Overhead /\ n - Overhead = size /\ n \in Nat
  <2>1. Mult(Overhead) /\ Overhead \in Nat
    BY Region, Multiples
  <2> QED  BY <2>1, Multiples
<1>6. h1.hdr[b].size >= n + ALIGNMENT
  BY <1>1, <1>4
<1>7. g = add_to_free_list(c, left)
  BY SplitIsCut DEF h1
<1> HIDE DEF n
<1>8. CutAt(h1, b, n, c)
  BY <1>1, <1>4, <1>5, <1>6, CutFields
<1>9. left # b /\ Tiles(c) /\ Links(c, F, r)
  BY <1>1, <1>3, <1>4, <1>5, <1>6, <1>8, CutKeeps
<1> HIDE DEF c, left
<1>10. /\ c \in Heaps /\ Heads(c) = Heads(h) \cup {left} /\ left \notin Heads(h) /\ c.ok
       /\ \A a \in Heads(h) \ {b} :
            /\ c.hdr[a].size = h.hdr[a].size /\ c.hdr[a].is_free = h.hdr[a].is_free
            /\ After(c, a) = After(h, a) /\ TagOk(c, a)
       /\ c.hdr[b].is_free = FALSE /\ c.hdr[b].size = size
       /\ c.hdr[left].is_free = TRUE
       /\ After(c, left) = After(h, b)
       /\ TagOk(c, left)
  <2>1. \A a \in Heads(h) : TagOk(h1, a)
    BY <1>4 DEF Tagged
  <2> QED  BY <1>1, <1>3, <1>4, <1>5, <1>8, <2>1 DEF CutAt, left
<1>11. left \in Heads(c) \ F
  BY <1>10 DEF FreeHeads
<1>12. /\ SameBlocks(c, g) /\ g.ok = c.ok
       /\ g.arr[ListOf(c, left)] = left /\ g.hdr[left].prev = NULL
       /\ \E s : Links(g, F \cup {left}, s)
  <2> HIDE DEF F
  <2>1. c \in Heaps /\ Tiles(c) /\ Links(c, F, r) /\ left \in Heads(c) \ F /\ g = add_to_free_list(c, left)
    BY <1>7, <1>9, <1>10, <1>11
  <2> QED  BY <2>1, AddList
<1>13. PICK s : Links(g, F \cup {left}, s)
  <2> HIDE DEF F
  <2> QED  BY <1>12
<1>14. /\ Heads(g) = Heads(c) /\ Tiles(g) /\ g \in Heaps /\ g.ftr = c.ftr
       /\ \A a \in Heads(c) : After(g, a) = After(c, a) /\ FooterOf(g, a) = FooterOf(c, a)
       /\ \A a \in Heads(c) : g.hdr[a].size = c.hdr[a].size /\ g.hdr[a].is_free = c.hdr[a].is_free
  <2>1. \A a \in Heads(c) : g.hdr[a].size = c.hdr[a].size /\ g.hdr[a].is_free = c.hdr[a].is_free
    BY <1>12 DEF SameBlocks, Heads
  <2>2. g \in Heaps /\ g.ftr = c.ftr
    BY <1>12 DEF SameBlocks
  <2> QED  BY <1>9, <1>10, <1>12, <2>1, <2>2, SameBlocksTile
<1>15. FreeHeads(g) = F \cup {left} /\ b \notin FreeHeads(g)
  <2>1. \A a \in Heads(g) : g.hdr[a].is_free <=> a \in F \cup {left}
    BY <1>1, <1>9, <1>10, <1>14 DEF FreeHeads
  <2>2. F \cup {left} \subseteq Heads(g)
    BY <1>10, <1>14 DEF FreeHeads
  <2>3. b \notin F \cup {left}
    BY <1>9
  <2> HIDE DEF F
  <2> QED  BY <2>1, <2>2, <2>3 DEF FreeHeads
<1>16. LeftOk(g, left)
  <2>1. get_index(g.hdr[left].size) = ListOf(c, left)
    BY <1>11, <1>14 DEF ListOf
  <2>2. TagOk(g, left)
    BY <1>10, <1>11, <1>14 DEF TagOk
  <2>3. g.hdr[left].is_free = TRUE
    BY <1>10, <1>11, <1>14
  <2> QED  BY <1>12, <2>1, <2>2, <2>3 DEF LeftOk, TagOk
<1>17. \A a \in Heads(g) \ {b} : TagOk(g, a)
  BY <1>10, <1>14 DEF TagOk
<1>18. ASSUME NEW a \in FreeHeads(g) \ {b} PROVE After(g, a) \notin FreeHeads(g) \ {b}
  <2>1. /\ \A x \in FreeHeads(h) : After(h, x) \notin FreeHeads(h)
        /\ \A x \in Heads(h) : After(h, x) \in Heads(h) \cup {max_bytes}
    BY <1>1 DEF Sound, Tiles
  <2>2. left \in Heads(c) /\ left # max_bytes
    BY <1>10, Region DEF Heads, Addr
  <2>3. CASE a = left
    <3>1. After(g, a) = After(h, b)
      BY <1>10, <1>14, <2>2, <2>3
    <3>2. After(h, b) \in Heads(h) \cup {max_bytes} /\ After(h, b) \notin FreeHeads(h)
      BY <1>1, <2>1
    <3>3. After(h, b) # left
      BY <1>10, <2>2, <3>2
    <3> QED  BY <1>15, <3>1, <3>2, <3>3
  <2>4. CASE a # left
    <3>1. a \in FreeHeads(h) /\ a \in Heads(h) /\ a # b
      BY <1>15, <1>18, <2>4 DEF FreeHeads
    <3>2. After(g, a) = After(h, a)
      BY <1>10, <1>14, <3>1
    <3>3. After(h, a) # left /\ After(h, a) \notin FreeHeads(h)
      BY <1>10, <2>1, <2>2, <3>1
    <3> QED  BY <1>15, <3>2, <3>3
  <2> QED  BY <2>3, <2>4
<1>19. Occupied(g) \ {b} = Occupied(h)
  <2>1. b \in FreeHeads(h) /\ left \notin Heads(h)
    BY <1>10
  <2> QED  BY <1>10, <1>14, <1>15, <2>1 DEF Occupied
<1>20. \A a \in Occupied(h) : g.hdr[a].size = h.hdr[a].size
  BY <1>10, <1>14 DEF Occupied
<1>21. Links(g, FreeHeads(g) \ {b}, s)
  <2>1. FreeHeads(g) \ {b} = F \cup {left}
    BY <1>15
  <2> HIDE DEF F
  <2> QED  BY <1>13, <2>1
<1>22. g.ok /\ b \in Heads(g) /\ g.hdr[b].size >= size
  <2>1. b \in Heads(c)
    BY <1>1, <1>10
  <2>2. g.hdr[b].size = size
    BY <1>10, <1>14, <2>1
  <2>3. g.ok
    BY <1>10, <1>12
  <2> QED  BY <1>14, <2>1, <2>2, <2>3
<1>23. Carved(h, b, size, g)
  BY <1>14, <1>17, <1>18, <1>19, <1>20, <1>21, <1>22 DEF Carved
<1> QED  BY <1>16, <1>23 DEF left, n

\* An assert that holds changes nothing.
LEMMA AssertHolds ==
  ASSUME NEW h \in Heaps, NEW P \in BOOLEAN, P
  PROVE  Assert(h, P) = h
BY DEF Assert, Heaps

\* The heap g differs from h in one more block that is in use.
Taken(h, b, size, g) ==
  /\ Sound(g)
  /\ b \in Occupied(g) /\ Occupied(g) = Occupied(h) \cup {b}
  /\ \A a \in Occupied(h) : g.hdr[a].size = h.hdr[a].size
  /\ g.hdr[b].size >= size

\* What dmalloc asserts of the block it returns.
TakenOk(g, b) ==
  /\ g.hdr[b].prev = NULL /\ g.hdr[b].next = NULL /\ ~g.hdr[b].is_free
  /\ g.ftr[FooterOf(g, b)] = [is_free |-> FALSE, size |-> g.hdr[b].size]
  /\ After(g, b) <= max_bytes

\* set_occupied makes the heap sound again.
LEMMA MarkTaken ==
  ASSUME NEW h, NEW b, NEW size, NEW k, Carved(h, b, size, k), NEW g, g = Retag(k, b, FALSE)
  PROVE  Taken(h, b, size, g) /\ TakenOk(g, b)
<1>1. k \in Heaps /\ Tiles(k) /\ b \in Heads(k) /\ k.ok
  BY DEF Carved
<1>2. Retagged(k, b, FALSE, g)
  BY <1>1, RetagFields
<1>3. \A a \in Heads(k) \ {b} : TagOk(k, a)
  BY DEF Carved
<1>4. /\ Tiles(g) /\ Tagged(g)
      /\ \A F, r : Links(k, F, r) => Links(g, F, r)
  BY <1>1, <1>2, <1>3, RetagKeeps
<1>5. /\ g \in Heaps /\ Heads(g) = Heads(k) /\ g.ok = k.ok
      /\ \A a \in Heads(k) :
           /\ g.hdr[a].is_free = IF a = b THEN FALSE ELSE k.hdr[a].is_free
           /\ g.hdr[a].size = k.hdr[a].size
           /\ After(g, a) = After(k, a)
      /\ TagOk(g, b)
  BY <1>2 DEF Retagged
<1>6. FreeHeads(g) = FreeHeads(k) \ {b}
  <2>1. \A a \in Heads(k) : g.hdr[a].is_free <=> a # b /\ k.hdr[a].is_free
    BY <1>5
  <2> QED  BY <1>5, <2>1 DEF FreeHeads
<1>7. PICK s : Links(k, FreeHeads(k) \ {b}, s)
  BY DEF Carved
<1>8. Links(g, FreeHeads(g), s)
  BY <1>4, <1>6, <1>7
<1>9. \A a \in FreeHeads(g) : After(g, a) \notin FreeHeads(g)
  BY <1>5, <1>6 DEF Carved, FreeHeads
<1>10. Sound(g)
  BY <1>1, <1>4, <1>5, <1>8, <1>9 DEF Sound
<1>11. Occupied(g) = (Occupied(k) \ {b}) \cup {b} /\ b \in Occupied(g)
  BY <1>1, <1>5, <1>6 DEF Occupied
<1>12. Occupied(g) = Occupied(h) \cup {b}
  BY <1>11 DEF Carved
<1>13. \A a \in Occupied(h) : g.hdr[a].size = h.hdr[a].size
  <2>1. \A a \in Occupied(h) : a \in Heads(k)
    BY DEF Carved, Occupied
  <2> QED  BY <1>5, <2>1 DEF Carved
<1>14. g.hdr[b].size >= size
  BY <1>1, <1>5 DEF Carved
<1>15. g.hdr[b].prev = NULL /\ g.hdr[b].next = NULL
  BY <1>8, <1>11 DEF Links, Occupied
<1>16. g.hdr[b].is_free = FALSE /\ g.ftr[FooterOf(g, b)] = [is_free |-> FALSE, size |-> g.hdr[b].size]
  BY <1>1, <1>5 DEF TagOk
<1>17. After(g, b) <= max_bytes
  BY <1>1, <1>4, <1>5, Blocks1
<1> QED
  BY <1>10, <1>11, <1>12, <1>13, <1>14, <1>15, <1>16, <1>17 DEF Taken, TakenOk

\* dmalloc turns a free block into one in use and keeps the heap sound.
LEMMA TakeBlock ==
  ASSUME NEW h, Sound(h), NEW n \in Requests, ALIGN(n) # 0,
         NEW b \in FreeHeads(h), h.hdr[b].size >= ALIGN(n),
         NEW g, g = Take(h, b, n)
  PROVE  Taken(h, b, ALIGN(n), g)
<1> DEFINE size == ALIGN(n)
           total_size == Overhead + size
           h1 == remove_from_list(h, b)
           split == h1.hdr[b].size >= total_size + ALIGNMENT
           h2 == IF split THEN split_free_block(h1, b, total_size) ELSE h1
           left == b + total_size
           h3 == Assert(h2, split => LeftOk(h2, left))
           h4 == set_occupied(h3, b, h3.hdr[b].size)
           Q == TakenOk(h4, b)
<1>1. g = Assert(h4, Q)
  BY DEF Take, LeftOk, TakenOk
<1>2. size \in Nat \ {0} /\ Mult(size) /\ h.hdr[b].size >= size
  BY Requested
<1>3. h1.hdr[b].size = h.hdr[b].size
  <2>1. h \in Heaps /\ Tiles(h) /\ b \in Heads(h) /\ \E r : Links(h, FreeHeads(h), r)
    BY DEF Sound, FreeHeads
  <2>2. SameBlocks(h, h1)
    BY <2>1, RemoveList
  <2> QED  BY <2>1, <2>2 DEF SameBlocks, Heads
<1> HIDE DEF size
<1>4. Carved(h, b, size, h2) /\ (split => LeftOk(h2, left))
  <2>1. CASE split
    <3>1. h.hdr[b].size >= Overhead + size + ALIGNMENT
      BY <1>3, <2>1
    <3>2. h2 = split_free_block(remove_from_list(h, b), b, Overhead + size)
      BY <2>1
    <3> HIDE DEF h2
    <3> QED  BY <1>2, <3>1, <3>2, CarveSplit
  <2>2. CASE ~split
    <3>1. h2 = remove_from_list(h, b)
      BY <2>2
    <3> HIDE DEF h2
    <3>2. Carved(h, b, size, h2)
      BY <1>2, <3>1, CarveWhole
    <3> QED  BY <2>2, <3>2
  <2> QED  BY <2>1, <2>2
<1> HIDE DEF h2, split, left
<1>5. h3 = h2
  <2>1. h2 \in Heaps /\ h2.ok
    BY <1>4 DEF Carved
  <2> DEFINE P == split => LeftOk(h2, left)
  <2>2. P \in BOOLEAN /\ P
    BY <1>4
  <2> HIDE DEF P
  <2>3. Assert(h2, P) = h2
    BY <2>1, <2>2, AssertHolds
  <2> QED  BY <2>3 DEF P
<1>6. h4 = Retag(h2, b, FALSE)
  BY <1>5 DEF set_occupied, Retag
<1> HIDE DEF h4
<1>7. Taken(h, b, size, h4) /\ Q
  <2>1. Carved(h, b, size, h2)
    BY <1>4
  <2> QED  BY <1>6, <2>1, MarkTaken
<1>8. h4 \in Heaps /\ Q \in BOOLEAN
  BY <1>7 DEF Taken, Sound
<1> HIDE DEF Q
<1>9. g = h4
  BY <1>1, <1>7, <1>8, AssertHolds
<1> QED  BY <1>7, <1>9 DEF size

-----------------------------------------------------------------------------
(* What dfree does to a sound heap.                                        *)

\* The block before b is found through its footer.
Before(h, b, c) ==
  /\ c \in Heads(h) /\ After(h, c) = b
  /\ b - FOOTER_T_ALIGNED = FooterOf(h, c)
  /\ h.ftr[b - FOOTER_T_ALIGNED].is_free = h.hdr[c].is_free
  /\ b - FOOTER_T_ALIGNED - h.ftr[b - FOOTER_T_ALIGNED].size - METADATA_T_ALIGNED = c

\* The footer before a block leads to the block it belongs to.
LEMMA BlockBefore ==
  ASSUME NEW h \in Heaps, Tiles(h), Tagged(h), NEW b \in Heads(h), b # 0
  PROVE  \E c : Before(h, b, c)
<1> DEFINE T == {d \in Nat : b - d \in Heads(h) /\ d # 0}
<1>1. /\ b \in Nat /\ b # max_bytes /\ max_bytes \in Nat
      /\ \A a \in Heads(h) : /\ a \in Nat /\ After(h, a) \in Nat /\ a < After(h, a)
                             /\ After(h, a) \in Heads(h) \cup {max_bytes}
                             /\ a < b => After(h, a) <= b
      /\ 0 \in Heads(h) /\ b <= max_bytes
  <2>1. b \in Nat /\ b # max_bytes /\ b <= max_bytes /\ max_bytes \in Nat
    BY Region DEF Heads, Addr
  <2>2. \A a \in Heads(h) : a \in Nat /\ After(h, a) \in Nat /\ a < After(h, a)
    BY Blocks1, Region
  <2> QED  BY <2>1, <2>2 DEF Tiles
<1>2. PICK d \in T : \A x \in T : d <= x
  <2>1. b \in T /\ T \subseteq Nat
    BY <1>1
  <2> HIDE DEF T
  <2> QED  BY <2>1, LeastNumber
<1> DEFINE c == b - d
<1>3. c \in Heads(h) /\ c < b /\ c \in Nat
  BY <1>1, <1>2
<1>4. After(h, c) = b
  <2>1. After(h, c) \in Nat /\ c < After(h, c) /\ After(h, c) <= b /\ After(h, c) \in Heads(h) \cup {max_bytes}
    BY <1>1, <1>3
  <2>2. CASE After(h, c) # b
    <3>1. After(h, c) \in Heads(h)
      BY <1>1, <2>1, <2>2
    <3> DEFINE y == b - After(h, c)
    <3>2. y \in Nat /\ y # 0 /\ b - y = After(h, c) /\ y < d
      BY <1>1, <1>2, <2>1, <2>2
    <3>3. y \in T
      BY <3>1, <3>2
    <3> QED  BY <1>2, <3>2, <3>3
  <2> QED  BY <2>2
<1> HIDE DEF c
<1>5. /\ After(h, c) = FooterOf(h, c) + FOOTER_T_ALIGNED
      /\ FooterOf(h, c) = c + METADATA_T_ALIGNED + h.hdr[c].size
      /\ h.hdr[c].size \in Nat /\ FOOTER_T_ALIGNED \in Nat /\ METADATA_T_ALIGNED \in Nat
  BY <1>3, Blocks1, Region
<1>6. TagOk(h, c)
  BY <1>3 DEF Tagged
<1>7. b - FOOTER_T_ALIGNED = FooterOf(h, c)
  BY <1>3, <1>4, <1>5
<1>8. /\ h.ftr[b - FOOTER_T_ALIGNED].is_free = h.hdr[c].is_free
      /\ h.ftr[b - FOOTER_T_ALIGNED].size = h.hdr[c].size
  BY <1>6, <1>7 DEF TagOk
<1>9. b - FOOTER_T_ALIGNED - h.ftr[b - FOOTER_T_ALIGNED].size - METADATA_T_ALIGNED = c
  BY <1>3, <1>5, <1>7, <1>8
<1>10. Before(h, b, c)
  BY <1>3, <1>4, <1>7, <1>8, <1>9 DEF Before
<1> QED  BY <1>10

\* No two blocks have the same successor.
LEMMA AfterInjective ==
  ASSUME NEW h \in Heaps, Tiles(h), NEW b \in Heads(h), NEW c \in Heads(h), After(h, b) = After(h, c)
  PROVE  b = c
<1>1. /\ b \in Nat /\ c \in Nat /\ b < After(h, b) /\ c < After(h, c)
      /\ After(h, b) \in Nat /\ After(h, c) \in Nat
  BY Blocks1, Region
<1>2. b < c => After(h, b) <= c
  BY DEF Tiles
<1>3. c < b => After(h, c) <= b
  BY DEF Tiles
<1> QED  BY <1>1, <1>2, <1>3

\* Block b of heap h is being freed: it is now block p of g, which is listed
\* nowhere, and may have a free block behind it.
Loose(h, b, g, p) ==
  /\ g \in Heaps /\ Tiles(g) /\ Tagged(g) /\ g.ok
  /\ p \in Heads(g) /\ (p \in FreeHeads(g) \/ p = 0)
  /\ \E r : Links(g, FreeHeads(g) \ {p}, r)
  /\ \A x \in FreeHeads(g) \ {p} : After(g, x) \notin FreeHeads(g)
  /\ Occupied(g) \ {p} = Occupied(h) \ {b}
  /\ \A x \in Occupied(h) \ {b} : g.hdr[x].size = h.hdr[x].size

\* SetFree keeps the size in the footer, which is the right one already.
LEMMA SetFreeIsRetag ==
  ASSUME NEW h \in Heaps, Tiles(h), NEW b \in Heads(h), TagOk(h, b)
  PROVE  SetFree(h, b) = Retag(h, b, TRUE)
<1>1. FooterOf(h, b) \in Addr /\ h.hdr \in [Addr -> Headers \cup {Junk}] /\ h.ftr \in [Addr -> Footers \cup {Junk}]
  BY Blocks1 DEF Heaps
<1> DEFINE x == FooterOf(h, b)
           t == [is_free |-> TRUE, size |-> h.hdr[b].size]
<1>2. [h.ftr[x] EXCEPT !.is_free = TRUE] = t
  <2>1. h.ftr[x] = [is_free |-> h.hdr[b].is_free, size |-> h.hdr[b].size]
    BY DEF TagOk
  <2>2. h.hdr[b].is_free \in BOOLEAN /\ h.hdr[b].size \in Nat
    BY Blocks1 DEF Headers
  <2>3. h.ftr[x] \in Footers /\ h.ftr[x].size = h.hdr[b].size
    BY <2>1, <2>2 DEF Footers
  <2>4. ASSUME NEW y \in Footers
        PROVE  [y EXCEPT !.is_free = TRUE] = [is_free |-> TRUE, size |-> y.size]
    <3> DEFINE z == [y EXCEPT !.is_free = TRUE]
    <3>1. z \in Footers /\ z.is_free = TRUE /\ z.size = y.size
      BY DEF Footers
    <3> HIDE DEF z
    <3>2. z = [is_free |-> z.is_free, size |-> z.size]
      BY <3>1 DEF Footers
    <3>3. z = [is_free |-> TRUE, size |-> y.size]
      BY <3>1, <3>2
    <3> QED  BY <3>3 DEF z
  <2> QED  BY <2>3, <2>4
<1>3. [h.ftr EXCEPT ![x].is_free = TRUE] = [h.ftr EXCEPT ![x] = t]
  BY <1>2
<1> HIDE DEF t, x
<1>4. [h EXCEPT !.hdr[b].is_free = TRUE, !.ftr[x].is_free = TRUE]
        = [h EXCEPT !.hdr[b].is_free = TRUE, !.ftr[x] = t]
  BY <1>3
<1> QED  BY <1>4 DEF SetFree, Retag, t, x

\* After coalesce_with_prev only the block behind can still be free.
LEMMA CoalescePrev ==
  ASSUME NEW h, Sound(h), NEW b \in Occupied(h), NEW m, m = coalesce_with_prev(h, b)
  PROVE  Loose(h, b, m.heap, m.block)
<1>1. /\ h \in Heaps /\ Tiles(h) /\ Tagged(h) /\ h.ok
      /\ b \in Heads(h) /\ b \notin FreeHeads(h) /\ FreeHeads(h) \subseteq Heads(h)
      /\ \A x \in FreeHeads(h) : After(h, x) \notin FreeHeads(h)
  BY DEF Sound, Occupied, FreeHeads
<1>2. PICK r : Links(h, FreeHeads(h), r)
  BY DEF Sound
<1>3. CASE b = 0
  <2>1. m.heap = h /\ m.block = b
    BY <1>3 DEF coalesce_with_prev, has_previous_address
  <2>2. FreeHeads(h) \ {b} = FreeHeads(h)
    BY <1>1
  <2> QED  BY <1>1, <1>2, <1>3, <2>1, <2>2 DEF Loose
<1>4. CASE b # 0
  <2>1. PICK c : Before(h, b, c)
    BY <1>1, <1>4, BlockBefore
  <2>2. c \in Heads(h) /\ After(h, c) = b /\ c # b
    <3>1. c \in Heads(h) /\ After(h, c) = b
      BY <2>1 DEF Before
    <3>2. After(h, c) # c
      BY <1>1, <3>1, Blocks1, Region
    <3> QED  BY <3>1, <3>2
  <2>3. CASE ~ h.hdr[c].is_free
    <3> DEFINE g == SetFree(h, b)
    <3>1. m.heap = g /\ m.block = b
      BY <1>4, <2>1, <2>3 DEF coalesce_with_prev, has_previous_address, Before
    <3>2. g = Retag(h, b, TRUE)
      BY <1>1, SetFreeIsRetag DEF Tagged
    <3> HIDE DEF g
    <3>3. Retagged(h, b, TRUE, g)
      BY <1>1, <3>2, RetagFields
    <3>4. Tiles(g) /\ Tagged(g) /\ Links(g, FreeHeads(h), r)
      BY <1>1, <1>2, <3>3, RetagKeeps DEF Tagged
    <3>5. /\ g \in Heaps /\ Heads(g) = Heads(h) /\ g.ok = h.ok
          /\ \A a \in Heads(h) :
               /\ g.hdr[a].is_free = IF a = b THEN TRUE ELSE h.hdr[a].is_free
               /\ g.hdr[a].size = h.hdr[a].size
               /\ After(g, a) = After(h, a)
      BY <3>3 DEF Retagged
    <3>6. FreeHeads(g) = FreeHeads(h) \cup {b}
      <4>1. \A a \in Heads(h) : g.hdr[a].is_free <=> a = b \/ h.hdr[a].is_free
        BY <3>5
      <4> QED  BY <1>1, <3>5, <4>1 DEF FreeHeads
    <3>7. FreeHeads(g) \ {b} = FreeHeads(h)
      BY <1>1, <3>6
    <3>8. ASSUME NEW x \in FreeHeads(h) PROVE After(g, x) \notin FreeHeads(g)
      <4>1. x \in Heads(h) /\ x # c /\ After(g, x) = After(h, x) /\ After(h, x) \notin FreeHeads(h)
        BY <1>1, <2>3, <3>5 DEF FreeHeads
      <4>2. After(h, x) # b
        BY <1>1, <2>2, <4>1, AfterInjective
      <4> QED  BY <3>6, <4>1, <4>2
    <3>9. Occupied(g) \ {b} = Occupied(h) \ {b}
      BY <3>5, <3>6 DEF Occupied
    <3>10. \A x \in Occupied(h) \ {b} : g.hdr[x].size = h.hdr[x].size
      BY <3>5 DEF Occupied
    <3>11. Loose(h, b, g, b)
      BY <1>1, <3>4, <3>5, <3>6, <3>7, <3>8, <3>9, <3>10 DEF Loose
    <3> QED  BY <3>1, <3>11
  <2>4. CASE h.hdr[c].is_free
    <3> DEFINE h1 == remove_from_list(h, c)
               g == Merge(h1, c, b)
    <3>1. m.heap = g /\ m.block = c
      BY <1>4, <2>1, <2>4 DEF coalesce_with_prev, has_previous_address, Before
    <3>2. c \in FreeHeads(h)
      BY <2>2, <2>4 DEF FreeHeads
    <3>3. SameBlocks(h, h1) /\ Links(h1, FreeHeads(h) \ {c}, r) /\ h1.ok = h.ok
      BY <1>1, <1>2, <3>2, RemoveList
    <3> HIDE DEF h1
    <3>4. /\ h1 \in Heaps /\ Tiles(h1) /\ Tagged(h1) /\ Heads(h1) = Heads(h)
          /\ \A a \in Heads(h) : After(h1, a) = After(h, a)
          /\ \A a \in Heads(h) : h1.hdr[a].size = h.hdr[a].size /\ h1.hdr[a].is_free = h.hdr[a].is_free
      <4>1. h1 \in Heaps
        BY <3>3 DEF SameBlocks
      <4>2. \A a \in Heads(h) : h1.hdr[a].size = h.hdr[a].size /\ h1.hdr[a].is_free = h.hdr[a].is_free
        BY <3>3 DEF SameBlocks, Heads
      <4> QED  BY <1>1, <3>3, <4>1, <4>2, SameBlocksTile
    <3>5. c \in Heads(h1) /\ b \in Heads(h1) /\ After(h1, c) = b
      BY <1>1, <2>2, <3>4
    <3>6. Merged(h1, c, b, g)
      BY <3>4, <3>5, MergeFields
    <3> HIDE DEF g
    <3>7. Tiles(g) /\ Tagged(g) /\ Links(g, FreeHeads(h) \ {c}, r)
      BY <1>1, <3>3, <3>4, <3>5, <3>6, MergeKeeps
    <3>8. /\ g \in Heaps /\ Heads(g) = Heads(h) \ {b} /\ g.ok = h1.ok
          /\ \A a \in Heads(h) \ {b, c} : g.hdr[a] = h1.hdr[a] /\ After(g, a) = After(h, a)
          /\ g.hdr[c].is_free = TRUE
      BY <3>4, <3>6 DEF Merged
    <3>9. \A a \in Heads(h) \ {b} : g.hdr[a].is_free <=> h.hdr[a].is_free
      BY <2>2, <2>4, <3>4, <3>8
    <3>10. FreeHeads(g) = FreeHeads(h)
      BY <1>1, <3>8, <3>9 DEF FreeHeads
    <3>11. ASSUME NEW x \in FreeHeads(g) \ {c} PROVE After(g, x) \notin FreeHeads(g)
      BY <1>1, <3>8, <3>10, <3>11
    <3>12. Occupied(g) \ {c} = Occupied(h) \ {b}
      BY <3>2, <3>8, <3>10 DEF Occupied
    <3>13. \A x \in Occupied(h) \ {b} : g.hdr[x].size = h.hdr[x].size
      BY <3>2, <3>4, <3>8 DEF Occupied
    <3>14. c \in Heads(g) /\ c \in FreeHeads(g)
      BY <2>2, <3>2, <3>8, <3>10
    <3>15. Links(g, FreeHeads(g) \ {c}, r)
      BY <3>7, <3>10
    <3>16. Loose(h, b, g, c)
      BY <1>1, <3>3, <3>7, <3>8, <3>11, <3>12, <3>13, <3>14, <3>15 DEF Loose
    <3> QED  BY <3>1, <3>16
  <2> QED  BY <2>3, <2>4
<1> QED  BY <1>3, <1>4

\* After coalesce_with_next neither neighbour is, and the block is marked free unless it is the whole region.
LEMMA CoalesceNext ==
  ASSUME NEW h, NEW b, NEW k, NEW p, Loose(h, b, k, p), NEW m, m = coalesce_with_next(k, p)
  PROVE  /\ m.block = p /\ Loose(h, b, m.heap, p)
         /\ After(m.heap, p) \notin FreeHeads(m.heap)
         /\ p \in FreeHeads(m.heap) \/ (p = 0 /\ After(m.heap, p) = max_bytes)
<1> DEFINE next == After(k, p)
           F == FreeHeads(k)
<1>1. /\ k \in Heaps /\ Tiles(k) /\ Tagged(k) /\ k.ok
      /\ p \in Heads(k) /\ (p \in F \/ p = 0) /\ F \subseteq Heads(k)
      /\ \A x \in F \ {p} : After(k, x) \notin F
      /\ \A x \in Occupied(h) \ {b} : x # p /\ x \in Occupied(k) /\ k.hdr[x].size = h.hdr[x].size
      /\ Occupied(k) \ {p} = Occupied(h) \ {b}
  BY DEF Loose, FreeHeads
<1>2. PICK r : Links(k, F \ {p}, r)
  BY DEF Loose
<1>3. /\ next \in Heads(k) \cup {max_bytes} /\ max_bytes \notin Heads(k)
      /\ \A x \in Heads(k) : x \in Nat /\ After(k, x) \in Nat /\ x < After(k, x)
      /\ max_bytes \in Nat /\ \A x \in Heads(k) : x < max_bytes
  <2>1. \A x \in Heads(k) : x \in Nat /\ After(k, x) \in Nat /\ x < After(k, x)
    BY <1>1, Blocks1, Region
  <2>2. max_bytes \notin Heads(k) /\ max_bytes \in Nat /\ \A x \in Heads(k) : x < max_bytes
    BY Region DEF Heads, Addr
  <2> QED  BY <1>1, <2>1, <2>2 DEF Tiles
<1>4. \A x \in F \ {p} : After(k, x) # p
  BY <1>1, <1>3
<1>5. CASE next = max_bytes
  <2>1. m.heap = k /\ m.block = p
    BY <1>5 DEF coalesce_with_next, has_next_address
  <2>2. After(k, p) \notin F
    BY <1>1, <1>3, <1>5
  <2> QED  BY <1>1, <1>5, <2>1, <2>2
<1>6. CASE next # max_bytes
  <2>1. next \in Heads(k) /\ next < max_bytes /\ next # p
    BY <1>1, <1>3, <1>6
  <2> DEFINE P == next < max_bytes
  <2>2. Assert(k, P) = k
    <3>1. P \in BOOLEAN /\ P
      BY <2>1
    <3> HIDE DEF P
    <3> QED  BY <1>1, <3>1, AssertHolds
  <2>3. CASE ~ k.hdr[next].is_free
    <3> DEFINE g == SetFree(k, p)
    <3>1. m.heap = g /\ m.block = p
      BY <1>6, <2>2, <2>3 DEF coalesce_with_next, has_next_address
    <3>2. g = Retag(k, p, TRUE)
      BY <1>1, SetFreeIsRetag DEF Tagged
    <3> HIDE DEF g
    <3>3. Retagged(k, p, TRUE, g)
      BY <1>1, <3>2, RetagFields
    <3>4. Tiles(g) /\ Tagged(g) /\ Links(g, F \ {p}, r)
      BY <1>1, <1>2, <3>3, RetagKeeps DEF Tagged
    <3>5. /\ g \in Heaps /\ Heads(g) = Heads(k) /\ g.ok = k.ok
          /\ \A a \in Heads(k) :
               /\ g.hdr[a].is_free = IF a = p THEN TRUE ELSE k.hdr[a].is_free
               /\ g.hdr[a].size = k.hdr[a].size
               /\ After(g, a) = After(k, a)
      BY <3>3 DEF Retagged
    <3>6. FreeHeads(g) = F \cup {p}
      <4>1. \A a \in Heads(k) : g.hdr[a].is_free <=> a = p \/ k.hdr[a].is_free
        BY <3>5
      <4> QED  BY <1>1, <3>5, <4>1 DEF FreeHeads
    <3>7. FreeHeads(g) \ {p} = F \ {p}
      BY <3>6
    <3>8. ASSUME NEW x \in F \ {p} PROVE After(g, x) \notin FreeHeads(g)
      <4>1. x \in Heads(k) /\ After(g, x) = After(k, x)
        BY <1>1, <3>5
      <4> QED  BY <1>1, <1>4, <3>6, <4>1
    <3>9. Occupied(g) \ {p} = Occupied(k) \ {p}
      BY <3>5, <3>6 DEF Occupied
    <3>10. \A x \in Occupied(h) \ {b} : g.hdr[x].size = h.hdr[x].size
      BY <1>1, <3>5 DEF Occupied
    <3>11. After(g, p) \notin FreeHeads(g)
      <4>1. next \notin F
        BY <2>3 DEF FreeHeads
      <4> QED  BY <1>1, <2>1, <3>5, <3>6, <4>1
    <3>12. Links(g, FreeHeads(g) \ {p}, r)
      BY <3>4, <3>7
    <3>13. Loose(h, b, g, p) /\ p \in FreeHeads(g)
      BY <1>1, <3>4, <3>5, <3>6, <3>7, <3>8, <3>9, <3>10, <3>12 DEF Loose
    <3> QED  BY <3>1, <3>11, <3>13
  <2>4. CASE k.hdr[next].is_free
    <3> DEFINE k1 == remove_from_list(k, next)
               g == Merge(k1, p, next)
               G == F \ {p, next}
    <3>1. m.heap = g /\ m.block = p
      BY <1>6, <2>2, <2>4 DEF coalesce_with_next, has_next_address
    <3>2. next \in F /\ next \in F \ {p} /\ (F \ {p}) \ {next} = G
      BY <2>1, <2>4 DEF FreeHeads
    <3>3. SameBlocks(k, k1) /\ Links(k1, G, r) /\ k1.ok = k.ok
      <4> HIDE DEF F, G
      <4>1. Links(k1, (F \ {p}) \ {next}, r) /\ SameBlocks(k, k1) /\ k1.ok = k.ok
        BY <1>1, <1>2, <3>2, RemoveList
      <4> QED  BY <3>2, <4>1
    <3> HIDE DEF k1
    <3>4. /\ k1 \in Heaps /\ Tiles(k1) /\ Tagged(k1) /\ Heads(k1) = Heads(k)
          /\ \A a \in Heads(k) : After(k1, a) = After(k, a)
          /\ \A a \in Heads(k) : k1.hdr[a].size = k.hdr[a].size /\ k1.hdr[a].is_free = k.hdr[a].is_free
      <4>1. k1 \in Heaps
        BY <3>3 DEF SameBlocks
      <4>2. \A a \in Heads(k) : k1.hdr[a].size = k.hdr[a].size /\ k1.hdr[a].is_free = k.hdr[a].is_free
        BY <3>3 DEF SameBlocks, Heads
      <4> QED  BY <1>1, <3>3, <4>1, <4>2, SameBlocksTile
    <3>5. p \in Heads(k1) /\ next \in Heads(k1) /\ After(k1, p) = next
      BY <1>1, <2>1, <3>4
    <3>6. Merged(k1, p, next, g)
      BY <3>4, <3>5, MergeFields
    <3> HIDE DEF g
    <3>7. Tiles(g) /\ Tagged(g) /\ Links(g, G, r)
      BY <3>3, <3>4, <3>5, <3>6, MergeKeeps
    <3>8. /\ g \in Heaps /\ Heads(g) = Heads(k) \ {next} /\ g.ok = k1.ok
          /\ \A a \in Heads(k) \ {p, next} : g.hdr[a] = k1.hdr[a] /\ After(g, a) = After(k, a)
          /\ g.hdr[p].is_free = TRUE
          /\ After(g, p) = After(k, next)
      BY <2>1, <3>4, <3>6 DEF Merged
    <3>9. FreeHeads(g) = (F \cup {p}) \ {next}
      <4>1. \A a \in Heads(k) \ {next} : g.hdr[a].is_free <=> a = p \/ k.hdr[a].is_free
        BY <3>4, <3>8
      <4> QED  BY <1>1, <2>1, <3>8, <4>1 DEF FreeHeads
    <3>10. FreeHeads(g) \ {p} = G
      BY <3>9
    <3>11. ASSUME NEW x \in G PROVE After(g, x) \notin FreeHeads(g)
      <4>1. x \in F \ {p} /\ After(g, x) = After(k, x)
        BY <1>1, <3>8
      <4> QED  BY <1>1, <1>4, <3>9, <4>1
    <3>12. Occupied(g) \ {p} = Occupied(k) \ {p}
      BY <3>2, <3>8, <3>9 DEF Occupied
    <3>13. \A x \in Occupied(h) \ {b} : g.hdr[x].size = h.hdr[x].size
      BY <1>1, <3>2, <3>4, <3>8 DEF Occupied
    <3>14. p \in Heads(g) /\ p \in FreeHeads(g)
      BY <1>1, <2>1, <3>8, <3>9
    <3>15. Links(g, FreeHeads(g) \ {p}, r)
      BY <3>7, <3>10
    <3>16. Loose(h, b, g, p)
      BY <1>1, <3>3, <3>7, <3>8, <3>10, <3>11, <3>12, <3>13, <3>14, <3>15 DEF Loose
    <3>17. After(g, p) \notin FreeHeads(g)
      <4>1. After(k, next) \notin F
        BY <1>1, <3>2
      <4>2. p < next /\ next < After(k, next) /\ next \in Nat /\ p \in Nat /\ After(k, next) \in Nat
        BY <1>1, <1>3, <2>1
      <4>3. After(k, next) # p
        BY <4>2
      <4> QED  BY <3>8, <3>9, <4>1, <4>3
    <3> QED  BY <3>1, <3>14, <3>16, <3>17
  <2> QED  BY <2>3, <2>4
<1> QED  BY <1>5, <1>6

\* What a free block looks like when dfree has put it back.
Freed(h, b, g) ==
  /\ Sound(g)
  /\ Occupied(g) = Occupied(h) \ {b}
  /\ \A x \in Occupied(g) : g.hdr[x].size = h.hdr[x].size

\* Or the whole region was one block, which nobody marks free.
Whole(h, b, g) ==
  /\ g \in Heaps /\ ~g.ok /\ After(g, 0) = max_bytes
  /\ Occupied(h) \ {b} = {}

\* dfree makes a block in use a free one and keeps the heap sound, unless the block was the whole region.
LEMMA FreeBlock ==
  ASSUME NEW h, Sound(h), NEW b \in Occupied(h), NEW m, m = coalesce(h, b)
  PROVE  /\ m.heap.ok => Freed(h, b, add_to_free_list(m.heap, m.block))
         /\ ~m.heap.ok => Whole(h, b, m.heap)
<1> DEFINE q == coalesce_with_prev(h, b)
           n == coalesce_with_next(q.heap, q.block)
           p == n.block
           g == n.heap
           e == g.hdr[p]
           P == /\ e.is_free /\ e.prev = NULL /\ e.next = NULL
                /\ g.ftr[FooterOf(g, p)] = [is_free |-> TRUE, size |-> e.size]
<1>1. m = [n EXCEPT !.heap = Assert(@, P)]
  BY DEF coalesce
<1>2. Loose(h, b, q.heap, q.block)
  BY CoalescePrev
<1>3. p = q.block /\ Loose(h, b, g, p)
      /\ After(g, p) \notin FreeHeads(g)
      /\ (p \in FreeHeads(g) \/ (p = 0 /\ After(g, p) = max_bytes))
  BY <1>2, CoalesceNext
<1>4. m.heap = Assert(g, P) /\ m.block = p
  <2>1. n = [heap |-> n.heap, block |-> n.block]
    BY DEF coalesce_with_next
  <2> HIDE DEF n, P
  <2> QED  BY <1>1, <2>1
<1> HIDE DEF q, n
<1>5. /\ g \in Heaps /\ Tiles(g) /\ Tagged(g) /\ g.ok /\ p \in Heads(g)
      /\ \E r : Links(g, FreeHeads(g) \ {p}, r)
      /\ \A x \in FreeHeads(g) \ {p} : After(g, x) \notin FreeHeads(g)
      /\ Occupied(g) \ {p} = Occupied(h) \ {b}
      /\ \A x \in Occupied(h) \ {b} : g.hdr[x].size = h.hdr[x].size
  BY <1>3 DEF Loose
<1> HIDE DEF p, g
<1>6. CASE p \in FreeHeads(g)
  <2>1. e.is_free = TRUE
    <3>1. e.is_free /\ e.is_free \in BOOLEAN
      BY <1>5, <1>6, Blocks1 DEF FreeHeads, Headers
    <3> QED  BY <3>1
  <2>2. P
    BY <1>5, <2>1 DEF Links, Tagged, TagOk
  <2>3. m.heap = g
    <3>1. P \in BOOLEAN
      BY <1>5, <2>1, <2>2
    <3> HIDE DEF P
    <3> QED  BY <1>4, <1>5, <2>2, <3>1, AssertHolds
  <2> DEFINE k == add_to_free_list(g, p)
             F == FreeHeads(g)
  <2>4. PICK r : Links(g, F \ {p}, r)
    BY <1>5
  <2>5. p \in Heads(g) \ (F \ {p}) /\ (F \ {p}) \cup {p} = F
    BY <1>5, <1>6
  <2> HIDE DEF F, k
  <2>6. SameBlocks(g, k) /\ k.ok = g.ok /\ \E s : Links(k, F, s)
    <3>1. SameBlocks(g, k) /\ k.ok = g.ok /\ \E s : Links(k, (F \ {p}) \cup {p}, s)
      BY <1>5, <2>4, <2>5, AddList DEF k
    <3> QED  BY <2>5, <3>1
  <2>7. /\ Heads(k) = Heads(g) /\ Tiles(k) /\ Tagged(k) /\ k \in Heaps
        /\ \A a \in Heads(g) : After(k, a) = After(g, a)
        /\ \A a \in Heads(g) : k.hdr[a].size = g.hdr[a].size /\ k.hdr[a].is_free = g.hdr[a].is_free
    <3>1. k \in Heaps
      BY <2>6 DEF SameBlocks
    <3>2. \A a \in Heads(g) : k.hdr[a].size = g.hdr[a].size /\ k.hdr[a].is_free = g.hdr[a].is_free
      BY <2>6 DEF SameBlocks, Heads
    <3> QED  BY <1>5, <2>6, <3>1, <3>2, SameBlocksTile
  <2>8. FreeHeads(k) = F
    BY <2>7 DEF FreeHeads, F
  <2>9. \A x \in FreeHeads(k) : After(k, x) \notin FreeHeads(k)
    BY <1>3, <1>5, <2>7, <2>8 DEF F, FreeHeads
  <2>10. Sound(k)
    BY <1>5, <2>6, <2>7, <2>8, <2>9 DEF Sound
  <2>11. Occupied(k) = Occupied(h) \ {b}
    BY <1>5, <1>6, <2>7, <2>8 DEF Occupied, F
  <2>12. \A x \in Occupied(k) : k.hdr[x].size = h.hdr[x].size
    BY <1>5, <2>7, <2>11 DEF Occupied
  <2>13. Freed(h, b, k)
    BY <2>10, <2>11, <2>12 DEF Freed
  <2> QED  BY <1>4, <1>5, <2>3, <2>13 DEF k
<1>7. CASE p \notin FreeHeads(g)
  <2>1. p = 0 /\ After(g, 0) = max_bytes
    BY <1>3, <1>7
  <2>2. ~P
    BY <1>5, <1>7 DEF FreeHeads
  <2>3. m.heap = [g EXCEPT !.ok = FALSE]
    <3>1. Assert(g, P) = [g EXCEPT !.ok = g.ok /\ P]
      BY DEF Assert
    <3>2. (g.ok /\ P) = FALSE
      BY <2>2
    <3> QED  BY <1>4, <3>1, <3>2
  <2>4. m.heap \in Heaps /\ ~m.heap.ok /\ m.heap.hdr = g.hdr
    BY <1>5, <2>3 DEF Heaps
  <2>5. After(m.heap, 0) = max_bytes
    BY <2>1, <2>4 DEF After, FooterOf
  <2>6. Heads(g) = {0}
    <3>1. ASSUME NEW x \in Heads(g), x # 0 PROVE FALSE
      <4>1. x \in Nat /\ x < max_bytes /\ 0 < x
        BY <3>1, Region DEF Heads, Addr
      <4>2. After(g, 0) <= x
        BY <1>5, <2>1, <4>1 DEF Tiles
      <4> QED  BY <2>1, <4>1, <4>2, Region
    <3> QED  BY <1>5, <2>1, <3>1
  <2>7. Occupied(h) \ {b} = {}
    BY <1>5, <2>1, <2>6 DEF Occupied
  <2> QED  BY <2>4, <2>5, <2>7 DEF Whole
<1> QED  BY <1>6, <1>7

-----------------------------------------------------------------------------
(* Walks through a list, and from block to block.                          *)

\* There is only one function that a step-by-step definition defines.
StepsIn(V, g, a, G, n) ==
  /\ g = [k \in 0..n |-> g[k]] /\ g[0] = a
  /\ \A k \in 1..n : g[k - 1] \in V => g[k] = G[g[k - 1]]

\* Whatever takes the same steps is the same function.
LEMMA StepsUnique ==
  ASSUME NEW V, NEW a, NEW G, NEW n \in Nat,
         NEW f \in [0..n -> V], Steps(f, a, G, n),
         NEW g, StepsIn(V, g, a, G, n)
  PROVE  g = f
<1> USE DEF StepsIn
<1> DEFINE Bad == {k \in 0..n : g[k] # f[k]}
<1>1. CASE Bad # {}
  <2>1. PICK k \in Bad : \A x \in Bad : k <= x
    <3>1. Bad \subseteq Nat
      OBVIOUS
    <3> HIDE DEF Bad
    <3> QED  BY <1>1, <3>1, LeastNumber
  <2>2. f[0] = a /\ \A x \in 1..n : f[x] = G[f[x - 1]]
    BY DEF Steps
  <2>3. k # 0
    BY <2>1, <2>2
  <2>4. k \in 1..n /\ k - 1 \in 0..n /\ k - 1 \notin Bad
    BY <2>1, <2>3
  <2>5. g[k - 1] = f[k - 1] /\ f[k - 1] \in V
    BY <2>4
  <2>6. g[k] = G[g[k - 1]]
    BY <2>4, <2>5
  <2>7. f[k] = G[f[k - 1]]
    BY <2>2, <2>4
  <2> QED  BY <2>1, <2>5, <2>6, <2>7
<1>2. CASE Bad = {}
  <2>1. \A k \in 0..n : g[k] = f[k]
    BY <1>2
  <2>2. f = [k \in 0..n |-> f[k]]
    OBVIOUS
  <2> QED  BY <2>1, <2>2
<1> QED  BY <1>1, <1>2

\* A block takes at least so many bytes.
Least == Overhead + ALIGNMENT

\* MaxBlocks is a quotient.
LEMMA Count ==
  /\ Least \in Nat \ {0} /\ MaxBlocks \in Nat
  /\ MaxBlocks * Least <= max_bytes /\ max_bytes < (MaxBlocks + 1) * Least
<1>1. Least \in Nat \ {0} /\ max_bytes \in Nat
  BY Region DEF Least
<1>2. MaxBlocks = max_bytes \div Least
  BY DEF MaxBlocks, Least
<1>3. max_bytes = (max_bytes \div Least) * Least + (max_bytes % Least) /\ max_bytes % Least \in 0..(Least - 1)
  BY <1>1
<1>4. max_bytes \div Least \in Int
  BY <1>1
<1> DEFINE q == max_bytes \div Least
           d == max_bytes % Least
<1>5. q \in Int /\ max_bytes = q * Least + d /\ d \in 0..(Least - 1)
  BY <1>3, <1>4
<1> HIDE DEF q, d
<1>6. q >= 0
  BY <1>1, <1>5
<1>7. (q + 1) * Least = q * Least + Least
  BY <1>1, <1>5
<1>8. q * Least <= max_bytes /\ max_bytes < (q + 1) * Least
  BY <1>1, <1>5, <1>7
<1> QED  BY <1>1, <1>2, <1>5, <1>6, <1>8 DEF q

\* The walk of a list: f[k] is what InList finds.
Walk(h, F, i, f) ==
  /\ f \in [0..MaxBlocks -> F \cup {NULL}] /\ f[0] = h.arr[i]
  /\ \A k \in 1..MaxBlocks : f[k] = IF f[k - 1] = NULL THEN NULL ELSE h.hdr[f[k - 1]].next
  /\ \A k \in 0..MaxBlocks : InList(h, i, k) = f[k]

\* InList walks along the links.
LEMMA ListWalk ==
  ASSUME NEW h, NEW F, NEW r, Links(h, F, r), NEW i \in Index
  PROVE  \E f : Walk(h, F, i, f)
<1> DEFINE V == F \cup {NULL}
           n == MaxBlocks
           G == [x \in V |-> IF x = NULL THEN NULL ELSE h.hdr[x].next]
           Follows(g) == g = [j \in 0..n |-> IF j = 0 THEN h.arr[i]
                                             ELSE IF g[j - 1] = NULL THEN NULL
                                             ELSE h.hdr[g[j - 1]].next]
<1>1. n \in Nat
  BY Count
<1>2. h.arr[i] \in V
  BY DEF Links, HeadOk
<1>3. G \in [V -> V]
  <2>1. ASSUME NEW x \in V PROVE (IF x = NULL THEN NULL ELSE h.hdr[x].next) \in V
    BY DEF Links, NextOk
  <2> QED  BY <2>1
<1>4. PICK f \in [0..n -> V] : Steps(f, h.arr[i], G, n)
  <2> HIDE DEF G, V, n
  <2> QED  BY <1>1, <1>2, <1>3, StepByStep
<1>5. f[0] = h.arr[i] /\ \A k \in 1..n : f[k] = IF f[k - 1] = NULL THEN NULL ELSE h.hdr[f[k - 1]].next
  <2>1. f[0] = h.arr[i] /\ \A k \in 1..n : f[k] = G[f[k - 1]]
    <3> HIDE DEF G
    <3> QED  BY <1>4 DEF Steps
  <2>2. \A k \in 1..n : f[k - 1] \in V
    BY <1>1, <1>4
  <2> QED  BY <2>1, <2>2
<1>6. Follows(f)
  <2>1. f = [k \in 0..n |-> f[k]]
    BY <1>4
  <2>2. \A k \in 0..n : f[k] = IF k = 0 THEN h.arr[i]
                               ELSE IF f[k - 1] = NULL THEN NULL ELSE h.hdr[f[k - 1]].next
    BY <1>1, <1>5
  <2> QED  BY <2>1, <2>2
<1>7. ASSUME NEW g, Follows(g) PROVE g = f
  <2>1. /\ g = [k \in 0..n |-> g[k]] /\ g[0] = h.arr[i]
        /\ \A k \in 1..n : g[k] = IF g[k - 1] = NULL THEN NULL ELSE h.hdr[g[k - 1]].next
    <3>1. \A k \in 0..n : g[k] = IF k = 0 THEN h.arr[i]
                                 ELSE IF g[k - 1] = NULL THEN NULL ELSE h.hdr[g[k - 1]].next
      BY <1>7
    <3>2. g = [k \in 0..n |-> g[k]]
      BY <1>7
    <3> HIDE DEF n, Follows
    <3>3. 0 \in 0..n /\ \A k \in 1..n : k \in 0..n /\ k # 0
      BY <1>1
    <3> QED  BY <3>1, <3>2, <3>3
  <2>2. \A k \in 1..n : g[k - 1] \in V => g[k] = G[g[k - 1]]
    BY <2>1
  <2>3. StepsIn(V, g, h.arr[i], G, n)
    BY <2>1, <2>2 DEF StepsIn
  <2> HIDE DEF G, V, n, Follows
  <2> QED  BY <1>1, <1>4, <2>3, StepsUnique
<1>8. \A k \in 0..n : InList(h, i, k) = (CHOOSE g : Follows(g))[k]
  BY DEF InList
<1>9. (CHOOSE g : Follows(g)) = f
  <2> HIDE DEF Follows
  <2> QED  BY <1>6, <1>7
<1>10. \A k \in 0..n : InList(h, i, k) = f[k]
  BY <1>8, <1>9
<1>11. Walk(h, F, i, f)
  BY <1>4, <1>5, <1>10 DEF Walk
<1> QED  BY <1>11

\* There are at most MaxBlocks blocks.
LEMMA Quotient ==
  ASSUME NEW b \in Nat
  PROVE  /\ b \div Least \in Nat
         /\ \E d \in 0..(Least - 1) : b = (b \div Least) * Least + d
<1>1. Least \in Nat \ {0}
  BY Count
<1>2. b \div Least \in Int /\ b = (b \div Least) * Least + (b % Least) /\ b % Least \in 0..(Least - 1)
  BY <1>1
<1> DEFINE q == b \div Least
           d == b % Least
<1>3. q \in Int /\ b = q * Least + d /\ d \in 0..(Least - 1)
  BY <1>2
<1> HIDE DEF q, d
<1>4. q >= 0
  <2>1. q < 0 => q * Least <= 0 - Least
    BY <1>1, <1>3
  <2> QED  BY <1>1, <1>3, <2>1
<1> QED  BY <1>3, <1>4 DEF q

\* Blocks that are all different are fewer than MaxBlocks.
LEMMA Crowd ==
  ASSUME NEW h \in Heaps, Tiles(h), NEW m \in Nat, NEW g \in [0..m -> Heads(h)],
         \A x, y \in 0..m : x < y => g[x] # g[y]
  PROVE  m < MaxBlocks
<1> DEFINE T == 0..(MaxBlocks - 1)
           f == [x \in 0..m |-> g[x] \div Least]
<1>1. /\ Least \in Nat \ {0} /\ MaxBlocks \in Nat
      /\ max_bytes < (MaxBlocks + 1) * Least /\ max_bytes \in Nat
      /\ (MaxBlocks + 1) * Least = MaxBlocks * Least + Least
  <2>1. Least \in Nat \ {0} /\ MaxBlocks \in Nat
    BY Count
  <2> QED  BY <2>1, Count, Region
<1>2. ASSUME NEW b \in Heads(h)
      PROVE  b \in Nat /\ After(h, b) \in Nat /\ b + Least <= After(h, b) /\ After(h, b) <= max_bytes
  <2>1. /\ b \in Nat /\ h.hdr[b].size \in Nat /\ ALIGNMENT <= h.hdr[b].size
        /\ After(h, b) = b + Overhead + h.hdr[b].size
        /\ After(h, b) \in Nat /\ After(h, b) <= max_bytes
    BY Blocks1
  <2>2. Least = Overhead + ALIGNMENT /\ Overhead \in Nat /\ ALIGNMENT \in Nat
    BY Region DEF Least
  <2> QED  BY <2>1, <2>2
<1>3. ASSUME NEW b \in Heads(h) PROVE b \div Least \in T
  <2>1. b + Least <= max_bytes /\ b \in Nat
    BY <1>1, <1>2
  <2>2. b < MaxBlocks * Least
    BY <1>1, <2>1
  <2>3. b \div Least \in Nat
    BY <2>1, Quotient
  <2>4. PICK d \in 0..(Least - 1) : b = (b \div Least) * Least + d
    BY <2>1, Quotient
  <2> DEFINE q == b \div Least
  <2>5. q \in Nat /\ q * Least < MaxBlocks * Least
    BY <1>1, <2>2, <2>3, <2>4
  <2> HIDE DEF q
  <2>6. q < MaxBlocks
    BY <1>1, <2>5
  <2> QED  BY <1>1, <2>5, <2>6 DEF q
<1>4. ASSUME NEW b \in Heads(h), NEW c \in Heads(h), b # c PROVE b \div Least # c \div Least
  <2>1. b \in Nat /\ c \in Nat /\ (b + Least <= c \/ c + Least <= b)
    <3>1. After(h, b) <= c \/ After(h, c) <= b
      BY <1>4, Blocks2
    <3> QED  BY <1>1, <1>2, <3>1
  <2>2. PICK d \in 0..(Least - 1) : b = (b \div Least) * Least + d
    BY <2>1, Quotient
  <2>3. PICK e \in 0..(Least - 1) : c = (c \div Least) * Least + e
    BY <2>1, Quotient
  <2>4. CASE b \div Least = c \div Least
    <3> DEFINE u == (b \div Least) * Least
    <3>1. u \in Int /\ b = u + d /\ c = u + e
      <4>1. b \div Least \in Nat
        BY <2>1, Quotient
      <4> QED  BY <1>1, <2>2, <2>3, <2>4, <4>1
    <3> HIDE DEF u
    <3> QED  BY <1>1, <2>1, <2>2, <2>3, <3>1
  <2> QED  BY <2>4
<1>5. f \in [0..m -> T]
  BY <1>3
<1>6. CASE m >= MaxBlocks
  <2>1. /\ IsFiniteSet(0..m) /\ Cardinality(0..m) = m + 1
        /\ IsFiniteSet(T) /\ Cardinality(T) = MaxBlocks
    <3>1. 0 \in Int /\ m \in Int /\ MaxBlocks - 1 \in Int /\ m >= 0
      BY <1>1
    <3>2. IsFiniteSet(0..m) /\ Cardinality(0..m) = IF 0 > m THEN 0 ELSE m - 0 + 1
      BY <3>1, FS_Interval
    <3>3. IsFiniteSet(T) /\ Cardinality(T) = IF 0 > MaxBlocks - 1 THEN 0 ELSE (MaxBlocks - 1) - 0 + 1
      BY <3>1, FS_Interval
    <3> QED  BY <1>1, <3>1, <3>2, <3>3
  <2>2. Cardinality(T) < Cardinality(0..m)
    BY <1>1, <1>6, <2>1
  <2>3. PICK x \in 0..m, y \in 0..m : x # y /\ f[x] = f[y]
    <3> HIDE DEF T, f
    <3> QED  BY <1>5, <2>1, <2>2, FS_PigeonHole
  <2>4. g[x] # g[y] /\ g[x] \in Heads(h) /\ g[y] \in Heads(h)
    <3>1. x < y \/ y < x
      BY <2>3
    <3> QED  BY <2>3, <3>1
  <2> QED  BY <1>4, <2>3, <2>4
<1> QED  BY <1>1, <1>6

\* The walk of list i meets blocks of list i only.
LEMMA ListRange ==
  ASSUME NEW h, NEW F, NEW r, Links(h, F, r), NEW i \in Index, NEW f, Walk(h, F, i, f)
  PROVE  \A k \in 0..MaxBlocks : f[k] = NULL \/ (f[k] \in F /\ ListOf(h, f[k]) = i)
<1> DEFINE Bad == {k \in 0..MaxBlocks : f[k] # NULL /\ ListOf(h, f[k]) # i}
<1>1. /\ f \in [0..MaxBlocks -> F \cup {NULL}] /\ f[0] = h.arr[i] /\ MaxBlocks \in Nat
      /\ \A k \in 1..MaxBlocks : f[k] = IF f[k - 1] = NULL THEN NULL ELSE h.hdr[f[k - 1]].next
  BY Count DEF Walk
<1>2. CASE Bad # {}
  <2>1. PICK k \in Bad : \A x \in Bad : k <= x
    <3>1. Bad \subseteq Nat
      BY <1>1
    <3> HIDE DEF Bad
    <3> QED  BY <1>2, <3>1, LeastNumber
  <2>2. k # 0
    BY <1>1, <2>1 DEF Links, HeadOk
  <2>3. k \in 1..MaxBlocks /\ k - 1 \in 0..MaxBlocks /\ k - 1 \notin Bad
    BY <1>1, <2>1, <2>2
  <2>4. f[k - 1] # NULL /\ f[k] = h.hdr[f[k - 1]].next
    BY <1>1, <2>1, <2>3
  <2>5. f[k - 1] \in F /\ ListOf(h, f[k - 1]) = i
    BY <1>1, <2>3, <2>4
  <2>6. NextOk(h, F, r, f[k - 1])
    BY <2>5 DEF Links
  <2> QED  BY <2>1, <2>4, <2>5, <2>6 DEF NextOk
<1> QED  BY <1>1, <1>2

\* It does not meet a block twice, so it ends, and meets all of them.
LEMMA ListReach ==
  ASSUME NEW h \in Heaps, Tiles(h), NEW F, NEW r, Links(h, F, r), NEW i \in Index, NEW f, Walk(h, F, i, f),
         NEW b0 \in F, ListOf(h, b0) = i
  PROVE  \E k \in 0..MaxBlocks : f[k] = b0
<1> DEFINE M == MaxBlocks
           Missed == {b \in F : ListOf(h, b) = i /\ \A k \in 0..M : f[k] # b}
<1>1. /\ f \in [0..M -> F \cup {NULL}] /\ f[0] = h.arr[i] /\ M \in Nat
      /\ \A k \in 1..M : f[k] = IF f[k - 1] = NULL THEN NULL ELSE h.hdr[f[k - 1]].next
  BY Count DEF Walk
<1>2. /\ F \subseteq Heads(h) /\ NULL \notin F
      /\ \A b \in F : r[b] \in Nat /\ NextOk(h, F, r, b) /\ PrevOk(h, F, b)
  <2>1. F \subseteq Addr
    BY DEF Links, Heads
  <2>2. NULL \notin F
    <3>1. NULL \notin Heads(h)
      BY JunkAssumption DEF Heads, Addr
    <3> QED  BY <3>1 DEF Links
  <2>3. \A b \in F : r[b] \in Nat
    BY <2>1 DEF Links
  <2> QED  BY <2>2, <2>3 DEF Links
<1>3. \A k \in 0..M : f[k] = NULL \/ (f[k] \in F /\ ListOf(h, f[k]) = i)
  BY ListRange
<1>4. PICK N \in Nat : \A a \in F : r[a] <= N
  BY DEF Links, Heads
<1> HIDE DEF M
<1>5. f[M] = NULL
  <2> SUFFICES ASSUME f[M] # NULL PROVE FALSE
    OBVIOUS
  <2>1. \A k \in 0..M : f[k] # NULL
    <3> DEFINE Bad == {d \in 0..M : f[M - d] = NULL}
    <3>1. CASE Bad # {}
      <4>1. PICK d \in Bad : \A x \in Bad : d <= x
        <5>1. Bad \subseteq Nat
          BY <1>1
        <5> HIDE DEF Bad
        <5> QED  BY <3>1, <5>1, LeastNumber
      <4>2. d # 0
        BY <1>1, <4>1
      <4>3. d - 1 \in 0..M /\ d - 1 \notin Bad /\ M - (d - 1) \in 1..M /\ (M - (d - 1)) - 1 = M - d
        <5>1. d \in Nat /\ d <= M /\ 1 <= d /\ \A x \in Bad : d <= x
          BY <1>1, <4>1, <4>2
        <5> HIDE DEF Bad
        <5> QED  BY <1>1, <5>1
      <4>4. f[M - (d - 1)] = NULL
        BY <1>1, <4>1, <4>3
      <4> QED  BY <4>3, <4>4
    <3>2. CASE Bad = {}
      <4> TAKE k \in 0..M
      <4>1. M - k \in 0..M /\ M - (M - k) = k
        BY <1>1
      <4> QED  BY <3>2, <4>1
    <3> QED  BY <3>1, <3>2
  <2>2. \A k \in 0..M : f[k] \in F
    BY <1>3, <2>1
  <2>3. \A k \in 1..M : r[f[k]] < r[f[k - 1]]
    <3> TAKE k \in 1..M
    <3>1. k - 1 \in 0..M /\ k \in 0..M
      BY <1>1
    <3>2. f[k - 1] \in F /\ f[k] # NULL /\ f[k] = h.hdr[f[k - 1]].next
      BY <1>1, <2>1, <2>2, <3>1
    <3>3. NextOk(h, F, r, f[k - 1])
      BY <1>2, <3>2
    <3> QED  BY <3>2, <3>3 DEF NextOk
  <2>4. ASSUME NEW x \in 0..M, NEW y \in 0..M, x < y PROVE r[f[y]] < r[f[x]]
    <3> DEFINE Bad == {z \in (x + 1)..M : ~ (r[f[z]] < r[f[x]])}
    <3>1. CASE Bad # {}
      <4>1. PICK z \in Bad : \A w \in Bad : z <= w
        <5>1. Bad \subseteq Nat
          BY <1>1
        <5> HIDE DEF Bad
        <5> QED  BY <3>1, <5>1, LeastNumber
      <4>2. z \in 1..M /\ z - 1 \in 0..M /\ z \in 0..M /\ r[f[z]] < r[f[z - 1]]
        BY <1>1, <2>3, <4>1
      <4>3. z - 1 = x \/ r[f[z - 1]] < r[f[x]]
        BY <1>1, <4>1, <4>2
      <4>4. r[f[z]] \in Nat /\ r[f[z - 1]] \in Nat /\ r[f[x]] \in Nat
        BY <1>2, <2>2, <4>2
      <4> QED  BY <4>1, <4>2, <4>3, <4>4
    <3>2. CASE Bad = {}
      <4>1. y \in (x + 1)..M
        BY <1>1, <2>4
      <4> QED  BY <3>2, <4>1
    <3> QED  BY <3>1, <3>2
  <2>5. \A x, y \in 0..M : x < y => f[x] # f[y]
    <3> TAKE x \in 0..M, y \in 0..M
    <3>1. x < y => r[f[y]] < r[f[x]]
      BY <2>4
    <3>2. r[f[x]] \in Nat
      BY <1>2, <2>2
    <3> QED  BY <3>1, <3>2
  <2>6. f \in [0..M -> Heads(h)]
    BY <1>1, <1>2, <2>2
  <2>7. M < M
    BY <1>1, <2>5, <2>6, Crowd DEF M
  <2> QED  BY <1>1, <2>7
<1>6. CASE Missed # {}
  <2> DEFINE T == {N - r[b] : b \in Missed}
  <2>1. PICK t \in T : \A x \in T : t <= x
    <3>1. T \subseteq Nat /\ T # {}
      BY <1>2, <1>4, <1>6
    <3> HIDE DEF T
    <3> QED  BY <3>1, LeastNumber
  <2>2. PICK b \in Missed : t = N - r[b]
    BY <2>1
  <2>3. \A c \in Missed : r[c] <= r[b]
    <3> TAKE c \in Missed
    <3>1. N - r[b] <= N - r[c]
      BY <2>1, <2>2
    <3>2. r[b] \in Nat /\ r[c] \in Nat
      BY <1>2
    <3> QED  BY <1>4, <3>1, <3>2
  <2>4. b \in F /\ ListOf(h, b) = i /\ \A k \in 0..M : f[k] # b
    BY <2>2
  <2> DEFINE p == h.hdr[b].prev
  <2>5. p # NULL
    <3>1. f[0] # b
      BY <1>1, <2>4
    <3> QED  BY <1>1, <1>2, <2>4, <3>1 DEF PrevOk
  <2>6. p \in F /\ h.hdr[p].next = b
    BY <1>2, <2>4, <2>5 DEF PrevOk
  <2> HIDE DEF p
  <2>7. b # NULL /\ ListOf(h, p) = i /\ r[b] < r[p]
    <3>1. b # NULL /\ NextOk(h, F, r, p)
      BY <1>2, <2>4, <2>6
    <3> QED  BY <2>4, <2>6, <3>1 DEF NextOk
  <2>8. p \notin Missed
    <3>1. r[b] \in Nat /\ r[p] \in Nat
      BY <1>2, <2>4, <2>6
    <3>2. p \in Missed => r[p] <= r[b]
      BY <2>3
    <3> QED  BY <2>7, <3>1, <3>2
  <2>9. PICK k \in 0..M : f[k] = p
    BY <2>6, <2>7, <2>8
  <2>10. k # M
    BY <1>5, <2>5, <2>9
  <2>11. k + 1 \in 1..M /\ (k + 1) - 1 = k /\ k + 1 \in 0..M
    BY <1>1, <2>10
  <2>12. f[k + 1] = b
    BY <1>1, <2>5, <2>6, <2>9, <2>11
  <2> QED  BY <2>4, <2>11, <2>12
<1>7. CASE Missed = {}
  BY <1>7 DEF M
<1> QED  BY <1>6, <1>7

-----------------------------------------------------------------------------
(* The search of dmalloc.                                                  *)

\* Of the places in the lists, some come first.
LEMMA FirstOfAll ==
  ASSUME NEW S, S \subseteq Nat \X Nat, S # {}
  PROVE  \E p \in S : \A q \in S : Sooner(p, q)
<1> DEFINE T == {p[1] : p \in S}
<1>1. PICK i \in T : \A x \in T : i <= x
  <2>1. T \subseteq Nat /\ T # {}
    OBVIOUS
  <2> HIDE DEF T
  <2> QED  BY <2>1, LeastNumber
<1> DEFINE U == {p[2] : p \in {q \in S : q[1] = i}}
<1>2. PICK j \in U : \A x \in U : j <= x
  <2>1. U \subseteq Nat /\ U # {}
    BY <1>1
  <2> HIDE DEF U
  <2> QED  BY <2>1, LeastNumber
<1>3. PICK p \in S : p[1] = i /\ p[2] = j
  BY <1>2
<1>4. ASSUME NEW q \in S PROVE Sooner(p, q)
  <2>1. q[1] \in Nat /\ q[2] \in Nat /\ i \in Nat /\ j \in Nat
    BY <1>3
  <2>2. i <= q[1]
    BY <1>1
  <2>3. q[1] = i => j <= q[2]
    BY <1>2
  <2> QED  BY <1>3, <2>1, <2>2, <2>3 DEF Sooner
<1> QED  BY <1>3, <1>4

Candidates(h, n) == {p \in Visited(h, n) : Suits(h, p, n)}

\* FirstFit is the first block that suits, if any does.
LEMMA CandidateFirst ==
  ASSUME NEW h, NEW n \in Requests, ~ IndexLoops(ALIGN(n))
  PROVE  /\ get_index(ALIGN(n)) \in Index
         /\ Candidates(h, n) = {} => FirstFit(h, n) = NULL
         /\ Candidates(h, n) # {} => \E p \in Candidates(h, n) : FirstFit(h, n) = InList(h, p[1], p[2])
<1> DEFINE S == Candidates(h, n)
           first == CHOOSE p \in S : \A q \in S : Sooner(p, q)
<1>1. get_index(ALIGN(n)) \in Index
  <2>1. ALIGN(n) \in Nat /\ ALIGN(n) <= val[SIZE_BITS - 1]
    BY Requested, Region DEF IndexLoops
  <2> QED  BY <2>1, IndexOf
<1>2. S \subseteq Nat \X Nat
  <2>1. (get_index(ALIGN(n))..(ENTRY_SIZE - 1)) \subseteq Nat /\ (0..MaxBlocks) \subseteq Nat
    BY <1>1, Count, WidthAssumption DEF Index
  <2> QED  BY <2>1 DEF Candidates, Visited
<1>3. FirstFit(h, n) = IF S = {} THEN NULL ELSE InList(h, first[1], first[2])
  BY DEF FirstFit, Candidates
<1>4. ASSUME S # {} PROVE first \in S
  <2> HIDE DEF S
  <2>1. \E p \in S : \A q \in S : Sooner(p, q)
    BY <1>2, <1>4, FirstOfAll
  <2> QED  BY <2>1
<1> HIDE DEF first
<1> QED  BY <1>1, <1>3, <1>4

\* What dmalloc finds is a free block large enough.
LEMMA FitFits ==
  ASSUME NEW h, NEW F, NEW r, Links(h, F, r), NEW n \in Requests, ~ IndexLoops(ALIGN(n)),
         FirstFit(h, n) # NULL
  PROVE  FirstFit(h, n) \in F /\ h.hdr[FirstFit(h, n)].size >= ALIGN(n)
<1>1. PICK p \in Candidates(h, n) : FirstFit(h, n) = InList(h, p[1], p[2])
  BY CandidateFirst
<1>2. /\ p[1] \in get_index(ALIGN(n))..(ENTRY_SIZE - 1) /\ p[2] \in 0..MaxBlocks
      /\ InList(h, p[1], p[2]) # NULL /\ Suits(h, p, n)
  BY DEF Candidates, Visited
<1>3. p[1] \in Index
  BY <1>2, CandidateFirst, WidthAssumption DEF Index
<1>4. PICK f : Walk(h, F, p[1], f)
  BY <1>3, ListWalk
<1>5. f[p[2]] = InList(h, p[1], p[2])
  BY <1>2, <1>4 DEF Walk
<1>6. f[p[2]] \in F
  BY <1>2, <1>3, <1>4, <1>5, ListRange
<1> QED  BY <1>1, <1>2, <1>5, <1>6 DEF Suits

\* If there is one it finds one.
LEMMA FitFound ==
  ASSUME NEW h \in Heaps, Tiles(h), NEW F, NEW r, Links(h, F, r),
         NEW n \in Requests, ~ IndexLoops(ALIGN(n)),
         NEW b \in F, h.hdr[b].size >= ALIGN(n)
  PROVE  FirstFit(h, n) # NULL
<1> DEFINE i == ListOf(h, b)
<1>1. b \in Heads(h) /\ NULL \notin F
  <2>1. NULL \notin Heads(h)
    BY JunkAssumption DEF Heads, Addr
  <2> QED  BY <2>1 DEF Links
<1>2. i \in Index
  BY <1>1, ListOfBlock
<1>3. get_index(ALIGN(n)) <= i
  <2>1. ALIGN(n) \in Nat
    BY Requested
  <2>2. h.hdr[b].size \in Nat /\ h.hdr[b].size <= val[SIZE_BITS - 1]
    <3>1. /\ h.hdr[b].size \in Nat /\ After(h, b) <= max_bytes /\ b \in Nat
          /\ After(h, b) = b + Overhead + h.hdr[b].size
      BY <1>1, Blocks1
    <3> QED  BY <3>1, Region
  <2> QED  BY <2>1, <2>2, IndexGrows DEF ListOf
<1>4. PICK f : Walk(h, F, i, f)
  BY <1>2, ListWalk
<1>5. PICK k \in 0..MaxBlocks : f[k] = b
  BY <1>2, <1>4, ListReach
<1>6. InList(h, i, k) = b /\ b # NULL
  BY <1>1, <1>4, <1>5 DEF Walk
<1>7. i \in get_index(ALIGN(n))..(ENTRY_SIZE - 1)
  BY <1>2, <1>3, CandidateFirst, WidthAssumption DEF Index
<1> HIDE DEF i
<1>8. <<i, k>> \in Candidates(h, n)
  BY <1>5, <1>6, <1>7 DEF Candidates, Visited, Suits
<1>9. PICK p \in Candidates(h, n) : FirstFit(h, n) = InList(h, p[1], p[2])
  BY <1>8, CandidateFirst
<1> QED  BY <1>9 DEF Candidates, Visited

-----------------------------------------------------------------------------
(* The walk from block to block.                                           *)

BlockWalk ==
  /\ nthBlock \in [0..MaxBlocks -> Heads(heap) \cup {max_bytes}] /\ nthBlock[0] = 0
  /\ \A k \in 1..MaxBlocks :
       nthBlock[k] = IF nthBlock[k - 1] = max_bytes THEN max_bytes ELSE After(heap, nthBlock[k - 1])

\* nthBlock goes from block to block and stays at the end.
LEMMA BlocksInOrder ==
  ASSUME heap \in Heaps, Tiles(heap)
  PROVE  BlockWalk
<1> DEFINE V == Heads(heap) \cup {max_bytes}
           n == MaxBlocks
           G == [x \in V |-> IF x = max_bytes THEN max_bytes ELSE After(heap, x)]
           Follows(g) == g = [k \in 0..n |->
                                IF k = 0 THEN 0
                                ELSE LET b == g[k - 1]
                                     IN IF b \notin Addr THEN max_bytes
                                        ELSE IF heap.hdr[b] = Junk THEN -1
                                        ELSE After(heap, b)]
<1>1. n \in Nat
  BY Count
<1>2. 0 \in V /\ max_bytes \notin Heads(heap) /\ \A x \in Heads(heap) : x \in Addr /\ heap.hdr[x] # Junk
  BY Region DEF Tiles, Heads, Addr
<1>3. G \in [V -> V]
  <2>1. ASSUME NEW x \in V PROVE (IF x = max_bytes THEN max_bytes ELSE After(heap, x)) \in V
    BY DEF Tiles
  <2> QED  BY <2>1
<1>4. \A x \in V : G[x] = IF x \notin Addr THEN max_bytes
                          ELSE IF heap.hdr[x] = Junk THEN -1 ELSE After(heap, x)
  <2>1. max_bytes \notin Addr
    BY Region DEF Addr
  <2> QED  BY <1>2, <2>1
<1>5. PICK f \in [0..n -> V] : Steps(f, 0, G, n)
  <2> HIDE DEF G, V, n
  <2> QED  BY <1>1, <1>2, <1>3, StepByStep
<1>6. f[0] = 0 /\ \A k \in 1..n : f[k - 1] \in V /\ f[k] = G[f[k - 1]]
  <2>1. f[0] = 0 /\ \A k \in 1..n : f[k] = G[f[k - 1]]
    <3> HIDE DEF G
    <3> QED  BY <1>5 DEF Steps
  <2> HIDE DEF V, G
  <2> QED  BY <1>1, <1>5, <2>1
<1>7. Follows(f)
  <2>1. f = [k \in 0..n |-> f[k]]
    BY <1>5
  <2>2. \A k \in 0..n : f[k] = IF k = 0 THEN 0
                               ELSE LET b == f[k - 1]
                                    IN IF b \notin Addr THEN max_bytes
                                       ELSE IF heap.hdr[b] = Junk THEN -1
                                       ELSE After(heap, b)
    <3> HIDE DEF G, V
    <3> QED  BY <1>1, <1>4, <1>6
  <2> QED  BY <2>1, <2>2
<1>8. ASSUME NEW g, Follows(g) PROVE g = f
  <2>1. \A k \in 0..n : g[k] = IF k = 0 THEN 0
                               ELSE LET b == g[k - 1]
                                    IN IF b \notin Addr THEN max_bytes
                                       ELSE IF heap.hdr[b] = Junk THEN -1
                                       ELSE After(heap, b)
    BY <1>8
  <2>2. g = [k \in 0..n |-> g[k]]
    BY <1>8
  <2> HIDE DEF n, Follows, G, V
  <2>3. 0 \in 0..n /\ \A k \in 1..n : k \in 0..n /\ k # 0
    BY <1>1
  <2>4. g[0] = 0 /\ \A k \in 1..n : g[k - 1] \in V => g[k] = G[g[k - 1]]
    BY <1>4, <2>1, <2>3
  <2>5. StepsIn(V, g, 0, G, n)
    BY <2>2, <2>4 DEF StepsIn
  <2> QED  BY <1>1, <1>5, <2>5, StepsUnique
<1>9. nthBlock = CHOOSE g : Follows(g)
  BY DEF nthBlock
<1>10. nthBlock = f
  <2> HIDE DEF Follows
  <2> QED  BY <1>7, <1>8, <1>9
<1>11. \A k \in 1..n : f[k] = IF f[k - 1] = max_bytes THEN max_bytes ELSE After(heap, f[k - 1])
  BY <1>6
<1> HIDE DEF G, Follows
<1> QED  BY <1>5, <1>6, <1>10, <1>11 DEF BlockWalk

\* The walk meets every block, and arrives at the end of the region.
LEMMA BlocksAreHeads ==
  ASSUME heap \in Heaps, Tiles(heap)
  PROVE  /\ Blocks = Heads(heap)
         /\ \E k \in 0..MaxBlocks : nthBlock[k] # max_bytes /\ After(heap, nthBlock[k]) = max_bytes
<1> DEFINE f == nthBlock
           M == MaxBlocks
           H == Heads(heap)
<1>1. /\ f \in [0..M -> H \cup {max_bytes}] /\ f[0] = 0
      /\ \A k \in 1..M : f[k] = IF f[k - 1] = max_bytes THEN max_bytes ELSE After(heap, f[k - 1])
  BY BlocksInOrder DEF BlockWalk
<1>2. /\ M \in Nat /\ Least \in Nat \ {0} /\ max_bytes \in Nat /\ max_bytes # 0
      /\ max_bytes < M * Least + Least
  <2>1. M \in Nat /\ Least \in Nat \ {0} /\ max_bytes < (M + 1) * Least
    BY Count
  <2>2. (M + 1) * Least = M * Least + Least
    BY <2>1
  <2> QED  BY <2>1, <2>2, Region
<1>3. \A b \in H : /\ b \in Nat /\ After(heap, b) \in Nat /\ b < max_bytes
                   /\ b + Least <= After(heap, b) /\ After(heap, b) <= max_bytes
                   /\ \A c \in H : b < c => After(heap, b) <= c
  <2> TAKE b \in H
  <2>1. /\ b \in Nat /\ heap.hdr[b].size \in Nat /\ ALIGNMENT <= heap.hdr[b].size
        /\ After(heap, b) = b + Overhead + heap.hdr[b].size
        /\ After(heap, b) \in Nat /\ After(heap, b) <= max_bytes
    BY Blocks1
  <2>2. Least = Overhead + ALIGNMENT /\ Overhead \in Nat /\ ALIGNMENT \in Nat
    BY Region DEF Least
  <2>3. b < max_bytes
    BY Region DEF Heads, Addr
  <2>4. \A c \in H : b < c => After(heap, b) <= c
    BY DEF Tiles
  <2> QED  BY <2>1, <2>2, <2>3, <2>4
<1> HIDE DEF f, M, H
<1>4. \A k \in 0..M : f[k] # max_bytes => f[k] \in H /\ f[k] >= k * Least
  <2> DEFINE Bad == {k \in 0..M : f[k] # max_bytes /\ ~ (f[k] >= k * Least)}
  <2>1. CASE Bad # {}
    <3>1. PICK k \in Bad : \A x \in Bad : k <= x
      <4>1. Bad \subseteq Nat
        BY <1>2
      <4> HIDE DEF Bad
      <4> QED  BY <2>1, <4>1, LeastNumber
    <3>2. k # 0
      <4>1. 0 * Least = 0
        BY <1>2
      <4> QED  BY <1>1, <3>1, <4>1
    <3>3. k \in 1..M /\ k - 1 \in 0..M /\ k - 1 \notin Bad
      BY <1>2, <3>1, <3>2
    <3>4. f[k - 1] # max_bytes /\ f[k] = After(heap, f[k - 1])
      BY <1>1, <3>1, <3>3
    <3>5. f[k - 1] \in H /\ f[k - 1] >= (k - 1) * Least
      BY <1>1, <3>3, <3>4
    <3>6. (k - 1) * Least = k * Least - Least /\ k * Least \in Nat
      BY <1>2, <3>3
    <3>7. f[k] \in Nat /\ f[k - 1] \in Nat /\ f[k - 1] + Least <= f[k]
      BY <1>3, <3>4, <3>5
    <3>8. f[k] >= k * Least
      BY <1>2, <3>5, <3>6, <3>7
    <3> QED  BY <3>1, <3>8
  <2>2. CASE Bad = {}
    BY <1>1, <2>2
  <2> QED  BY <2>1, <2>2
<1>5. f[M] = max_bytes
  <2> SUFFICES ASSUME f[M] # max_bytes PROVE FALSE
    OBVIOUS
  <2>1. f[M] \in H /\ f[M] >= M * Least
    BY <1>2, <1>4
  <2>2. f[M] + Least <= max_bytes /\ f[M] \in Nat
    BY <1>2, <1>3, <2>1
  <2>3. M * Least \in Nat
    BY <1>2
  <2> QED  BY <1>2, <2>1, <2>2, <2>3
<1>6. \E k \in 0..M : f[k] # max_bytes /\ After(heap, f[k]) = max_bytes
  <2> DEFINE T == {k \in 0..M : f[k] = max_bytes}
  <2>1. PICK k \in T : \A x \in T : k <= x
    <3>1. T \subseteq Nat /\ T # {}
      BY <1>2, <1>5
    <3> HIDE DEF T
    <3> QED  BY <3>1, LeastNumber
  <2>2. k # 0
    BY <1>1, <1>2, <2>1
  <2>3. k \in 1..M /\ k - 1 \in 0..M /\ k - 1 \notin T
    BY <1>2, <2>1, <2>2
  <2> QED  BY <1>1, <2>1, <2>3
<1>7. ASSUME NEW c \in H PROVE \E k \in 0..M : f[k] = c
  <2> SUFFICES ASSUME \A k \in 0..M : f[k] # c PROVE FALSE
    OBVIOUS
  <2> DEFINE Bad == {k \in 0..M : ~ (f[k] < c)}
  <2>1. c \in Nat /\ c < max_bytes
    BY <1>3
  <2>2. PICK k \in Bad : \A x \in Bad : k <= x
    <3>1. Bad \subseteq Nat /\ M \in Bad
      BY <1>2, <1>5, <2>1
    <3> HIDE DEF Bad
    <3> QED  BY <3>1, LeastNumber
  <2>3. k # 0
    <3>1. 0 # c
      BY <1>1, <1>2
    <3>2. f[0] < c
      BY <1>1, <2>1, <3>1
    <3> QED  BY <2>2, <3>2
  <2>4. k \in 1..M /\ k - 1 \in 0..M /\ k - 1 \notin Bad /\ k \in 0..M
    BY <1>2, <2>2, <2>3
  <2>5. f[k - 1] < c /\ f[k - 1] # max_bytes
    BY <1>2, <2>1, <2>4
  <2>6. f[k - 1] \in H /\ f[k] = After(heap, f[k - 1])
    BY <1>1, <2>4, <2>5
  <2>7. f[k] <= c /\ f[k] \in Nat /\ f[k] # c
    BY <1>3, <1>7, <2>4, <2>5, <2>6
  <2> QED  BY <2>1, <2>2, <2>7
<1>8. \A k \in 0..M : f[k] \in H \cup {max_bytes}
  BY <1>1
<1>9. max_bytes \notin H
  BY <1>2, <1>3
<1>10. Blocks = H
  BY <1>7, <1>8, <1>9 DEF Blocks, f, M
<1> QED  BY <1>6, <1>10 DEF f, M, H

-----------------------------------------------------------------------------
(* The inductive invariant.                                                *)

NoneLive == \A a \in Addr : live[a] = 0

\* The program holds the blocks in use, and asked for no more than they have.
Held(h, l) ==
  /\ \A a \in Addr : l[a] # 0 <=> \E b \in Occupied(h) : a = b + METADATA_T_ALIGNED
  /\ \A b \in Occupied(h) : l[b + METADATA_T_ALIGNED] <= h.hdr[b].size

\* A heap between two calls; mmap may have failed.
Usable(h) == (h = NoHeap /\ NoneLive) \/ (Sound(h) /\ Held(h, live))

HeapInv ==
  /\ live \in [Addr -> Nat] /\ heap \in Heaps
  /\ has_initialized \/ (heap = NoHeap /\ NoneLive)
  /\ heap.ok => Usable(heap)
  /\ status = "ok" => heap.ok
  /\ ~heap.ok => After(heap, 0) = max_bytes /\ NoneLive

\* Before dmalloc_init all lists are empty.
LEMMA NoHeapLists ==
  /\ NoHeap \in Heaps /\ NoHeap.ok
  /\ \E r : Links(NoHeap, {}, r)
<1>1. NoHeap \in Heaps /\ NoHeap.ok
  BY DEF NoHeap, Heaps, Index
<1>2. Heads(NoHeap) = {}
  BY DEF Heads, NoHeap
<1> DEFINE r == [a \in Addr |-> 0]
<1>3. r \in [Addr -> Nat] /\ \E n \in Nat : \A a \in Addr : r[a] <= n
  OBVIOUS
<1> HIDE DEF r
<1>4. \A i \in Index : HeadOk(NoHeap, {}, i)
  BY DEF HeadOk, NoHeap, Index
<1>5. Links(NoHeap, {}, r)
  BY <1>2, <1>3, <1>4 DEF Links
<1> QED  BY <1>1, <1>5

\* dmalloc_init makes one free block of the whole region.
LEMMA FreshIsSound ==
  Sound(FreshHeap) /\ Occupied(FreshHeap) = {}
<1> DEFINE g == FreshHeap
           size == max_bytes - Overhead
           e == [is_free |-> TRUE, size |-> size, prev |-> NULL, next |-> NULL]
           t == [is_free |-> TRUE, size |-> size]
           x == METADATA_T_ALIGNED + size
           i == get_index(size)
           hdr2 == [[a \in Addr |-> Junk] EXCEPT ![0] = e]
           ftr2 == [[a \in Addr |-> Junk] EXCEPT ![x] = t]
           arr2 == [[j \in Index |-> NULL] EXCEPT ![i] = 0]
<1>1. g = [hdr |-> hdr2, ftr |-> ftr2, arr |-> arr2, ok |-> TRUE]
  <2>1. g = [NoHeap EXCEPT !.hdr = [NoHeap.hdr EXCEPT ![0] = e], !.ftr = [NoHeap.ftr EXCEPT ![x] = t],
                           !.arr = [NoHeap.arr EXCEPT ![i] = 0]]
    BY DEF FreshHeap
  <2>2. NoHeap = [hdr |-> [a \in Addr |-> Junk], ftr |-> [a \in Addr |-> Junk],
                  arr |-> [j \in Index |-> NULL], ok |-> TRUE]
    BY DEF NoHeap, Index
  <2>3. /\ [NoHeap.hdr EXCEPT ![0] = e] = hdr2 /\ [NoHeap.ftr EXCEPT ![x] = t] = ftr2
        /\ [NoHeap.arr EXCEPT ![i] = 0] = arr2 /\ NoHeap.ok = TRUE
    BY <2>2
  <2> HIDE DEF hdr2, ftr2, arr2, e, t, x, i, g
  <2>4. NoHeap \in Heaps
    BY NoHeapLists
  <2> QED  BY <2>1, <2>3, <2>4 DEF Heaps
<1>2. /\ size \in Nat /\ size # 0 /\ Mult(size) /\ size <= val[SIZE_BITS - 1]
      /\ x \in Nat /\ x < max_bytes /\ x + FOOTER_T_ALIGNED = max_bytes /\ 0 < max_bytes
  <2>1. Mult(Overhead)
    BY Region, Multiples
  <2>2. Mult(size)
    BY <2>1, Region, Multiples
  <2> QED  BY <2>2, Region
<1>3. 0 \in Addr /\ x \in Addr /\ i \in Index
  <2>1. Mult(0) /\ Mult(x)
    BY <1>2, Region, Multiples
  <2>2. i \in Index
    BY <1>2, IndexOf
  <2> QED  BY <1>2, <2>1, <2>2, Region DEF Addr, Mult
<1> HIDE DEF size, x, i, g
<1>4. e \in Headers /\ t \in Footers /\ e # Junk
  <2>1. e \in Headers /\ t \in Footers
    BY <1>2 DEF Headers, Footers
  <2> QED  BY <2>1, JunkAssumption
<1>5. e.is_free = TRUE /\ e.size = size /\ e.prev = NULL /\ e.next = NULL
  OBVIOUS
<1> HIDE DEF e, t
<1>6. /\ hdr2 \in [Addr -> Headers \cup {Junk}] /\ ftr2 \in [Addr -> Footers \cup {Junk}]
      /\ arr2 \in [Index -> Addr \cup {NULL}]
      /\ hdr2[0] = e /\ ftr2[x] = t /\ arr2[i] = 0
      /\ \A a \in Addr : a # 0 => hdr2[a] = Junk
      /\ \A j \in Index : j # i => arr2[j] = NULL
  BY <1>3, <1>4
<1> HIDE DEF hdr2, ftr2, arr2
<1>7. g \in Heaps /\ g.ok /\ g.hdr[0] = e
  BY <1>1, <1>6 DEF Heaps
<1>8. Heads(g) = {0}
  BY <1>1, <1>3, <1>4, <1>6 DEF Heads
<1>9. FooterOf(g, 0) = x /\ After(g, 0) = max_bytes
  <2>1. FooterOf(g, 0) = 0 + METADATA_T_ALIGNED + size
    BY <1>5, <1>7 DEF FooterOf
  <2>2. FooterOf(g, 0) = x
    BY <1>2, <2>1, Region DEF x
  <2> QED  BY <1>2, <2>2 DEF After
<1>10. Tiles(g)
  BY <1>2, <1>5, <1>7, <1>8, <1>9 DEF Tiles
<1>11. Tagged(g)
  <2>1. g.ftr[FooterOf(g, 0)] = t
    BY <1>1, <1>6, <1>9
  <2>2. t = [is_free |-> g.hdr[0].is_free, size |-> g.hdr[0].size]
    BY <1>5, <1>7 DEF t
  <2> QED  BY <1>8, <2>1, <2>2 DEF Tagged, TagOk
<1>12. FreeHeads(g) = {0}
  BY <1>5, <1>7, <1>8 DEF FreeHeads
<1> DEFINE r == [a \in Addr |-> 0]
<1>13. r \in [Addr -> Nat] /\ \E n \in Nat : \A a \in Addr : r[a] <= n
  OBVIOUS
<1> HIDE DEF r
<1>14. ListOf(g, 0) = i
  BY <1>5, <1>7 DEF ListOf, i
<1>15. NextOk(g, {0}, r, 0) /\ PrevOk(g, {0}, 0)
  BY <1>1, <1>5, <1>6, <1>7, <1>14 DEF NextOk, PrevOk
<1>16. ASSUME NEW j \in Index PROVE HeadOk(g, {0}, j)
  BY <1>1, <1>5, <1>6, <1>7, <1>14 DEF HeadOk
<1>17. Links(g, {0}, r)
  BY <1>8, <1>13, <1>15, <1>16 DEF Links
<1>18. \A b \in FreeHeads(g) : After(g, b) \notin FreeHeads(g)
  BY <1>2, <1>9, <1>12
<1>19. Sound(g) /\ Occupied(g) = {}
  BY <1>7, <1>8, <1>10, <1>11, <1>12, <1>17, <1>18 DEF Sound, Occupied
<1> QED  BY <1>19 DEF g

\* Whatever dmalloc works on is sound, or empty after a failed mmap.
LEMMA InitializedUsable ==
  ASSUME HeapInv, status = "ok"
  PROVE  Usable(Initialized) /\ Initialized \in Heaps /\ Initialized.ok
<1>1. CASE has_initialized
  BY <1>1 DEF HeapInv, Initialized
<1>2. CASE ~has_initialized
  <2>1. Initialized = FreshHeap /\ NoneLive
    BY <1>2 DEF HeapInv, Initialized
  <2>2. Held(FreshHeap, live)
    BY <2>1, FreshIsSound DEF Held, NoneLive
  <2>3. Sound(FreshHeap)
    BY FreshIsSound
  <2> QED  BY <2>1, <2>2, <2>3 DEF Usable, Sound
<1> QED  BY <1>1, <1>2

\* What the program writes to its block disturbs nothing.
LEMMA WrittenIsSound ==
  ASSUME NEW k, Sound(k), NEW b \in Occupied(k), NEW g, g = Written(k, b)
  PROVE  /\ Sound(g) /\ Occupied(g) = Occupied(k)
         /\ \A a \in Occupied(k) : g.hdr[a].size = k.hdr[a].size
<1>1. k \in Heaps /\ Tiles(k) /\ Tagged(k) /\ k.ok /\ b \in Heads(k)
  BY DEF Sound, Occupied
<1>2. /\ g \in Heaps /\ Heads(g) = Heads(k) /\ g.ok = k.ok
      /\ \A a \in Heads(k) : g.hdr[a] = k.hdr[a] /\ After(g, a) = After(k, a)
      /\ Tiles(g) /\ Tagged(g)
  BY <1>1, WrittenFields
<1>3. FreeHeads(g) = FreeHeads(k)
  BY <1>2 DEF FreeHeads
<1>4. PICK r : Links(k, FreeHeads(k), r)
  BY DEF Sound
<1>5. Links(g, FreeHeads(g), r)
  BY <1>1, <1>3, <1>4, WrittenFields
<1>6. \A a \in FreeHeads(g) : After(g, a) \notin FreeHeads(g)
  BY <1>2, <1>3 DEF Sound, FreeHeads
<1> QED  BY <1>1, <1>2, <1>3, <1>5, <1>6 DEF Sound, Occupied

\* The block dmalloc returns is held afterwards.
LEMMA HeldAfterTake ==
  ASSUME NEW h, NEW b, NEW n \in Requests, ALIGN(n) # 0,
         NEW k, Taken(h, b, ALIGN(n), k), b \notin Occupied(h),
         NEW l \in [Addr -> Nat], Held(h, l), NEW g, g = Written(k, b)
  PROVE  /\ Sound(g) /\ b + METADATA_T_ALIGNED \in Addr
         /\ Held(g, [l EXCEPT ![b + METADATA_T_ALIGNED] = n])
<1> DEFINE a0 == b + METADATA_T_ALIGNED
           m == [l EXCEPT ![a0] = n]
<1>1. /\ Sound(k) /\ b \in Occupied(k) /\ Occupied(k) = Occupied(h) \cup {b}
      /\ \A a \in Occupied(h) : k.hdr[a].size = h.hdr[a].size
      /\ k.hdr[b].size >= ALIGN(n)
  BY DEF Taken
<1>2. /\ Sound(g) /\ Occupied(g) = Occupied(h) \cup {b}
      /\ \A a \in Occupied(h) : g.hdr[a].size = h.hdr[a].size
      /\ g.hdr[b].size = k.hdr[b].size
  BY <1>1, WrittenIsSound
<1>3. \A c \in Occupied(g) : c \in Int /\ c + METADATA_T_ALIGNED \in Addr /\ g.hdr[c].size \in Nat
  <2> TAKE c \in Occupied(g)
  <2>1. c \in Heads(g) /\ g \in Heaps /\ Tiles(g)
    BY <1>2 DEF Occupied, Sound
  <2> QED  BY <2>1, Blocks1
<1>4. b \in Int /\ a0 \in Addr /\ METADATA_T_ALIGNED \in Nat
  BY <1>2, <1>3, Region
<1>5. n \in Nat /\ n # 0 /\ n <= ALIGN(n) /\ ALIGN(n) \in Nat
  BY Requested
<1>6. m[a0] = n /\ \A a \in Addr : a # a0 => m[a] = l[a]
  BY <1>4
<1>7. \A c \in Occupied(h) : c + METADATA_T_ALIGNED \in Addr /\ c + METADATA_T_ALIGNED # a0
  BY <1>2, <1>3, <1>4
<1> HIDE DEF m
<1>8. ASSUME NEW a \in Addr PROVE m[a] # 0 <=> \E c \in Occupied(g) : a = c + METADATA_T_ALIGNED
  <2>1. CASE a = a0
    BY <1>2, <1>5, <1>6, <2>1
  <2>2. CASE a # a0
    <3>1. l[a] # 0 <=> \E c \in Occupied(h) : a = c + METADATA_T_ALIGNED
      BY DEF Held
    <3> QED  BY <1>2, <1>6, <2>2, <3>1
  <2> QED  BY <2>1, <2>2
<1>9. ASSUME NEW c \in Occupied(g) PROVE m[c + METADATA_T_ALIGNED] <= g.hdr[c].size
  <2>1. CASE c = b
    BY <1>1, <1>2, <1>3, <1>5, <1>6, <2>1
  <2>2. CASE c \in Occupied(h)
    <3>1. m[c + METADATA_T_ALIGNED] = l[c + METADATA_T_ALIGNED]
      BY <1>6, <1>7, <2>2
    <3>2. l[c + METADATA_T_ALIGNED] <= h.hdr[c].size
      BY <2>2 DEF Held
    <3> QED  BY <1>2, <2>2, <3>1, <3>2
  <2> QED  BY <1>2, <2>1, <2>2
<1>10. Held(g, m)
  BY <1>8, <1>9 DEF Held
<1> QED  BY <1>2, <1>4, <1>10 DEF m

\* The block dfree was given is not held any more, and the others are.
LEMMA HeldAfterFree ==
  ASSUME NEW h, Sound(h), NEW b \in Occupied(h), NEW g, Freed(h, b, g),
         NEW l \in [Addr -> Nat], Held(h, l)
  PROVE  Held(g, [l EXCEPT ![b + METADATA_T_ALIGNED] = 0])
<1> DEFINE a0 == b + METADATA_T_ALIGNED
           m == [l EXCEPT ![a0] = 0]
<1>1. /\ Occupied(g) = Occupied(h) \ {b}
      /\ \A x \in Occupied(g) : g.hdr[x].size = h.hdr[x].size
  BY DEF Freed
<1>2. \A c \in Occupied(h) : c \in Int /\ c + METADATA_T_ALIGNED \in Addr
  <2> TAKE c \in Occupied(h)
  <2>1. c \in Heads(h) /\ h \in Heaps /\ Tiles(h)
    BY DEF Occupied, Sound
  <2> QED  BY <2>1, Blocks1
<1>3. METADATA_T_ALIGNED \in Nat /\ a0 \in Addr
  BY <1>2, Region
<1>4. m[a0] = 0 /\ \A a \in Addr : a # a0 => m[a] = l[a]
  BY <1>3
<1>5. \A c \in Occupied(g) : c + METADATA_T_ALIGNED \in Addr /\ c + METADATA_T_ALIGNED # a0
  BY <1>1, <1>2, <1>3
<1> HIDE DEF m
<1>6. ASSUME NEW a \in Addr PROVE m[a] # 0 <=> \E c \in Occupied(g) : a = c + METADATA_T_ALIGNED
  <2>1. l[a] # 0 <=> \E c \in Occupied(h) : a = c + METADATA_T_ALIGNED
    BY DEF Held
  <2>2. CASE a = a0
    BY <1>4, <1>5, <2>2
  <2>3. CASE a # a0
    BY <1>1, <1>4, <2>1, <2>3
  <2> QED  BY <2>2, <2>3
<1>7. ASSUME NEW c \in Occupied(g) PROVE m[c + METADATA_T_ALIGNED] <= g.hdr[c].size
  <2>1. l[c + METADATA_T_ALIGNED] <= h.hdr[c].size
    BY <1>1 DEF Held
  <2> QED  BY <1>1, <1>4, <1>5, <2>1
<1>8. Held(g, m)
  BY <1>6, <1>7 DEF Held
<1> QED  BY <1>8 DEF m

\* When the block was the whole region nothing is held.
LEMMA NoneAfterWhole ==
  ASSUME NEW h, Sound(h), NEW b \in Occupied(h), NEW g, Whole(h, b, g),
         NEW l \in [Addr -> Nat], Held(h, l)
  PROVE  \A a \in Addr : [l EXCEPT ![b + METADATA_T_ALIGNED] = 0][a] = 0
<1> TAKE a \in Addr
<1>1. CASE a = b + METADATA_T_ALIGNED
  BY <1>1
<1>2. CASE a # b + METADATA_T_ALIGNED
  BY <1>2 DEF Held, Whole
<1> QED  BY <1>1, <1>2

\* No block is listed or in use: the program holds nothing.
LEMMA HeapInvInit ==
  Init => HeapInv
<1> SUFFICES ASSUME Init PROVE HeapInv
  OBVIOUS
<1>1. has_initialized = FALSE /\ status = "ok" /\ heap = NoHeap /\ live = [a \in Addr |-> 0]
  BY DEF Init
<1>2. live \in [Addr -> Nat] /\ NoneLive
  BY <1>1 DEF NoneLive
<1>3. heap \in Heaps /\ heap.ok
  BY <1>1, NoHeapLists
<1> QED  BY <1>1, <1>2, <1>3 DEF HeapInv, Usable

\* The steps that leave the heap as it is when it has been initialised.
LEMMA KeepsHeap ==
  ASSUME HeapInv, status = "ok", has_initialized', heap' = Initialized, live' = live
  PROVE  HeapInv'
<1>1. PICK h : h = Initialized
  OBVIOUS
<1>2. heap' = h /\ live' = live /\ live \in [Addr -> Nat]
  BY <1>1 DEF HeapInv
<1>3. h \in Heaps /\ h.ok /\ ((h = NoHeap /\ NoneLive) \/ (Sound(h) /\ Held(h, live)))
  BY <1>1, InitializedUsable DEF Usable
<1>4. NoneLive => NoneLive'
  BY <1>2 DEF NoneLive
<1>5. heap' \in Heaps /\ heap'.ok /\ ((heap' = NoHeap /\ NoneLive') \/ (Sound(heap') /\ Held(heap', live')))
  BY <1>2, <1>3, <1>4
<1> QED  BY <1>2, <1>5 DEF HeapInv, Usable

\* One lemma per action: a failed mmap leaves the empty lists.
LEMMA KeptByInitFails ==
  ASSUME HeapInv, dmalloc_init_fails
  PROVE  HeapInv'
<1>1. heap = NoHeap /\ NoneLive /\ has_initialized' /\ heap' = heap /\ live' = live /\ status' = status
  BY DEF HeapInv, dmalloc_init_fails
<1>2. NoneLive'
  BY <1>1 DEF NoneLive
<1> QED  BY <1>1, <1>2, NoHeapLists DEF HeapInv, Usable

\* What dmalloc takes is a free block of a sound heap.
LEMMA TakesFree ==
  ASSUME HeapInv, status = "ok", NEW n \in Requests, ALIGN(n) # 0, ~IndexLoops(ALIGN(n)),
         NEW h, h = Initialized, NEW b, b = FirstFit(h, n), b # NULL
  PROVE  /\ Sound(h) /\ Held(h, live) /\ b \in FreeHeads(h) /\ b \notin Occupied(h)
         /\ h.hdr[b].size >= ALIGN(n)
         /\ Taken(h, b, ALIGN(n), Take(h, b, n))
<1>1. (h = NoHeap /\ NoneLive) \/ (Sound(h) /\ Held(h, live))
  BY InitializedUsable DEF Usable
<1>2. h # NoHeap
  <2>1. SUFFICES ASSUME h = NoHeap PROVE FALSE
    OBVIOUS
  <2>2. PICK r : Links(h, {}, r)
    BY <2>1, NoHeapLists
  <2>3. FirstFit(h, n) # NULL
    OBVIOUS
  <2> QED  BY <2>2, <2>3, FitFits
<1>3. Sound(h) /\ Held(h, live)
  BY <1>1, <1>2
<1>4. PICK r : Links(h, FreeHeads(h), r)
  BY <1>3 DEF Sound
<1>5. b \in FreeHeads(h) /\ h.hdr[b].size >= ALIGN(n)
  <2>1. FirstFit(h, n) # NULL
    OBVIOUS
  <2>2. FirstFit(h, n) \in FreeHeads(h) /\ h.hdr[FirstFit(h, n)].size >= ALIGN(n)
    BY <1>4, <2>1, FitFits
  <2> QED  BY <2>2
<1>6. b \notin Occupied(h)
  BY <1>5 DEF Occupied
<1>7. Taken(h, b, ALIGN(n), Take(h, b, n))
  BY <1>3, <1>5, TakeBlock
<1> QED  BY <1>3, <1>5, <1>6, <1>7

\* dmalloc marks a free block and records it as held.
LEMMA KeptByMalloc ==
  ASSUME HeapInv, NEW n \in Requests, dmalloc(n)
  PROVE  HeapInv'
<1>1. PICK h : h = Initialized
  OBVIOUS
<1>2. PICK b : b = FirstFit(h, n)
  OBVIOUS
<1>3. PICK k : k = Take(h, b, n)
  OBVIOUS
<1>4. /\ status = "ok" /\ ALIGN(n) # 0 /\ ~IndexLoops(ALIGN(n)) /\ b # NULL
      /\ has_initialized' = TRUE /\ heap' = Written(k, b)
      /\ status' = (IF k.ok THEN "ok" ELSE "aborted")
      /\ live' = IF k.ok THEN [live EXCEPT ![b + METADATA_T_ALIGNED] = n] ELSE live
  BY <1>1, <1>2, <1>3 DEF dmalloc
<1>5. Held(h, live) /\ b \notin Occupied(h) /\ Taken(h, b, ALIGN(n), k)
  BY <1>1, <1>2, <1>3, <1>4, TakesFree
<1>6. k.ok
  BY <1>5 DEF Taken, Sound
<1>7. live \in [Addr -> Nat] /\ n \in Nat
  BY Requested DEF HeapInv
<1>8. /\ Sound(Written(k, b)) /\ b + METADATA_T_ALIGNED \in Addr
      /\ Held(Written(k, b), [live EXCEPT ![b + METADATA_T_ALIGNED] = n])
  BY <1>4, <1>5, <1>7, HeldAfterTake
<1>9. Sound(heap') /\ Held(heap', live')
  BY <1>4, <1>6, <1>8
<1>10. heap' \in Heaps /\ heap'.ok /\ live' \in [Addr -> Nat]
  BY <1>4, <1>6, <1>7, <1>9 DEF Sound
<1> QED  BY <1>4, <1>9, <1>10 DEF HeapInv, Usable

\* What the program frees is a block in use; what dfree asserts of it holds.
LEMMA FreesOccupied ==
  ASSUME HeapInv, status = "ok", NEW a \in Addr, live[a] # 0,
         NEW b, b = a - METADATA_T_ALIGNED
  PROVE  /\ Sound(heap) /\ Held(heap, live) /\ b \in Occupied(heap) /\ a = b + METADATA_T_ALIGNED
         /\ heap.hdr[b].prev = NULL /\ heap.hdr[b].next = NULL /\ ~heap.hdr[b].is_free
<1>1. Sound(heap) /\ Held(heap, live)
  BY DEF HeapInv, Usable, NoneLive
<1>2. PICK c \in Occupied(heap) : a = c + METADATA_T_ALIGNED
  BY <1>1 DEF Held
<1>3. c \in Heads(heap) /\ c \notin FreeHeads(heap) /\ heap \in Heaps /\ Tiles(heap)
  BY <1>1, <1>2 DEF Occupied, Sound
<1>4. c = b
  <2>1. c \in Nat /\ METADATA_T_ALIGNED \in Nat
    BY <1>3, Blocks1, Region
  <2> QED  BY <1>2, <2>1
<1>5. PICK r : Links(heap, FreeHeads(heap), r)
  BY <1>1 DEF Sound
<1>6. heap.hdr[c].prev = NULL /\ heap.hdr[c].next = NULL /\ ~heap.hdr[c].is_free
  BY <1>3, <1>5 DEF Links, FreeHeads
<1> QED  BY <1>1, <1>2, <1>4, <1>6

\* dfree frees a block in use, or fails its assert on the whole region.
LEMMA KeptByFree ==
  ASSUME HeapInv, NEW a \in Addr, dfree(a)
  PROVE  HeapInv'
<1>1. PICK h : h = heap
  OBVIOUS
<1>2. PICK b : b = a - METADATA_T_ALIGNED
  OBVIOUS
<1>3. status = "ok" /\ live[a] # 0
  BY DEF dfree
<1>4. /\ Sound(h) /\ Held(h, live) /\ b \in Occupied(h) /\ a = b + METADATA_T_ALIGNED
      /\ h.hdr[b].prev = NULL /\ h.hdr[b].next = NULL /\ ~h.hdr[b].is_free
  BY <1>1, <1>2, <1>3, FreesOccupied
<1>5. Assert(h, h.hdr[b].prev = NULL /\ h.hdr[b].next = NULL /\ ~h.hdr[b].is_free) = h
  <2>1. PICK P \in BOOLEAN : P = (h.hdr[b].prev = NULL /\ h.hdr[b].next = NULL /\ ~h.hdr[b].is_free)
    OBVIOUS
  <2>2. P /\ h \in Heaps
    BY <1>4, <2>1 DEF Sound
  <2>3. Assert(h, P) = h
    BY <2>2, AssertHolds
  <2> QED  BY <2>1, <2>3
<1>6. PICK m : m = coalesce(h, b)
  OBVIOUS
<1>7. /\ status' = (IF m.heap.ok THEN "ok" ELSE "aborted")
      /\ heap' = IF m.heap.ok THEN add_to_free_list(m.heap, m.block) ELSE m.heap
      /\ live' = [live EXCEPT ![a] = 0] /\ has_initialized' = has_initialized
  BY <1>1, <1>2, <1>5, <1>6 DEF dfree
<1>8. live \in [Addr -> Nat] /\ has_initialized
  BY <1>3 DEF HeapInv, NoneLive
<1>9. live' \in [Addr -> Nat] /\ has_initialized'
  BY <1>7, <1>8
<1>10. CASE m.heap.ok
  <2>1. Freed(h, b, heap')
    BY <1>4, <1>6, <1>7, <1>10, FreeBlock
  <2>2. Sound(heap') /\ Held(heap', live')
    BY <1>4, <1>7, <1>8, <2>1, HeldAfterFree DEF Freed
  <2> QED  BY <1>9, <2>2 DEF HeapInv, Usable, Sound
<1>11. CASE ~m.heap.ok
  <2>1. Whole(h, b, heap')
    BY <1>4, <1>6, <1>7, <1>11, FreeBlock
  <2>2. NoneLive'
    <3>1. \A x \in Addr : [live EXCEPT ![b + METADATA_T_ALIGNED] = 0][x] = 0
      BY <1>4, <1>8, <2>1, NoneAfterWhole
    <3>2. \A x \in Addr : live'[x] = 0
      BY <1>4, <1>7, <3>1
    <3> QED  BY <3>2 DEF NoneLive
  <2>3. heap' \in Heaps /\ ~heap'.ok /\ After(heap', 0) = max_bytes
    BY <2>1 DEF Whole
  <2> QED  BY <1>7, <1>9, <1>11, <2>2, <2>3 DEF HeapInv
<1> QED  BY <1>10, <1>11

\* Every step keeps the invariant.
LEMMA HeapInvNext ==
  HeapInv /\ [Next]_vars => HeapInv'
<1> SUFFICES ASSUME HeapInv, [Next]_vars PROVE HeapInv'
  OBVIOUS
<1>1. CASE UNCHANGED vars
  <2>1. has_initialized' = has_initialized /\ status' = status /\ heap' = heap /\ live' = live
    BY <1>1 DEF vars
  <2> QED  BY <2>1 DEF HeapInv, Usable, NoneLive
<1>2. CASE dmalloc_init_fails
  BY <1>2, KeptByInitFails
<1>3. CASE \E n \in Requests : dmalloc(n)
  BY <1>3, KeptByMalloc
<1>4. CASE \E n \in Requests : dmalloc_returns_NULL(n)
  <2>1. status = "ok" /\ has_initialized' /\ heap' = Initialized /\ live' = live
    BY <1>4 DEF dmalloc_returns_NULL
  <2> QED  BY <2>1, KeepsHeap
<1>5. CASE \E n \in Requests : dmalloc_huge(n)
  <2>1. status = "ok" /\ has_initialized' /\ heap' = Initialized /\ live' = live
    BY <1>5 DEF dmalloc_huge
  <2> QED  BY <2>1, KeepsHeap
<1>6. CASE \E a \in Addr : dfree(a)
  BY <1>6, KeptByFree
<1>7. CASE Stopped
  BY <1>1, <1>7 DEF Stopped
<1> QED  BY <1>1, <1>2, <1>3, <1>4, <1>5, <1>6, <1>7 DEF Next

\* The invariant holds in every reachable state.
LEMMA HeapInvAlways ==
  Spec => []HeapInv
<1> QED  BY HeapInvInit, HeapInvNext, PTL DEF Spec

-----------------------------------------------------------------------------
(* The properties.                                                         *)

\* A heap that has been initialised, between two calls.
UpSound == Up => Sound(heap) /\ Held(heap, live)

\* What the properties need of the invariant.
LEMMA HeapInvUp ==
  HeapInv => UpSound
BY DEF HeapInv, UpSound, Up, Usable

\* Nothing is in use when nothing is held.
LEMMA NothingInUse ==
  ASSUME Sound(heap), Held(heap, live), \A a \in Addr : live[a] = 0
  PROVE  Occupied(heap) = {}
<1>1. heap \in Heaps /\ Tiles(heap)
  BY DEF Sound
<1>2. ASSUME NEW b \in Occupied(heap) PROVE FALSE
  <2>1. b \in Heads(heap)
    BY DEF Occupied
  <2>2. b + METADATA_T_ALIGNED \in Addr
    BY <1>1, <2>1, Blocks1
  <2>3. live[b + METADATA_T_ALIGNED] # 0
    BY <2>2 DEF Held
  <2> QED  BY <2>2, <2>3
<1> QED  BY <1>2

\* Each property of the runs follows from a sound heap whose blocks in use are
\* those the program holds.
LEMMA TilesWhenUp ==
  UpSound => BlocksTile
<1> SUFFICES ASSUME UpSound, Up PROVE BlocksTile
  BY DEF BlocksTile
<1>1. Sound(heap) /\ Held(heap, live)
  BY DEF UpSound
<1>2. heap \in Heaps /\ Tiles(heap) /\ Tagged(heap)
  BY <1>1 DEF Sound
<1>3. /\ Blocks = Heads(heap)
      /\ \E k \in 0..MaxBlocks : nthBlock[k] # max_bytes /\ After(heap, nthBlock[k]) = max_bytes
  BY <1>2, BlocksAreHeads
<1> HIDE DEF Blocks
<1>4. Blocks \subseteq Addr
  BY <1>3 DEF Heads
<1>5. \A b \in Blocks : heap.ftr[FooterOf(heap, b)] = [is_free |-> Free(b), size |-> heap.hdr[b].size]
  BY <1>2, <1>3 DEF Tagged, TagOk, Free
<1>6. \A b : b \in Occupied(heap) <=> (b \in Blocks /\ ~Free(b))
  BY <1>3 DEF Occupied, FreeHeads, Free
<1>7. \A a \in Addr : (live[a] # 0) <=> \E b \in Blocks : ~Free(b) /\ a = b + METADATA_T_ALIGNED
  BY <1>1, <1>6 DEF Held
<1>8. \A b \in Blocks : ~Free(b) => live[b + METADATA_T_ALIGNED] <= heap.hdr[b].size
  BY <1>1, <1>6 DEF Held
<1> QED  BY <1>3, <1>4, <1>5, <1>7, <1>8 DEF BlocksTile

\* A list holds the free blocks of its sizes and no others.
LEMMA ListedAre ==
  ASSUME Sound(heap), NEW i \in Index
  PROVE  \A b : b \in Listed(i) <=> (b \in FreeHeads(heap) /\ ListOf(heap, b) = i)
<1>1. heap \in Heaps /\ Tiles(heap)
  BY DEF Sound
<1>2. PICK r : Links(heap, FreeHeads(heap), r)
  BY DEF Sound
<1>3. PICK f : Walk(heap, FreeHeads(heap), i, f)
  BY <1>2, ListWalk
<1>4. \A k \in 0..MaxBlocks : f[k] = NULL \/ (f[k] \in FreeHeads(heap) /\ ListOf(heap, f[k]) = i)
  BY <1>2, <1>3, ListRange
<1>5. \A k \in 0..MaxBlocks : InList(heap, i, k) = f[k]
  BY <1>3 DEF Walk
<1>6. \A b : b \in Listed(i) <=> (b # NULL /\ \E k \in 0..MaxBlocks : f[k] = b)
  BY <1>5 DEF Listed
<1>7. ASSUME NEW b \in FreeHeads(heap), ListOf(heap, b) = i PROVE b # NULL /\ \E k \in 0..MaxBlocks : f[k] = b
  <2>1. b # NULL
    BY JunkAssumption DEF FreeHeads, Heads, Addr
  <2>2. \E k \in 0..MaxBlocks : f[k] = b
    BY <1>1, <1>2, <1>3, <1>7, ListReach
  <2> QED  BY <2>1, <2>2
<1> QED  BY <1>4, <1>6, <1>7

\* The lists are exact.
LEMMA ListsWhenUp ==
  UpSound => ListsExact
<1> SUFFICES ASSUME UpSound, Up PROVE ListsExact
  BY DEF ListsExact
<1>1. Sound(heap) /\ heap \in Heaps /\ Tiles(heap)
  BY DEF UpSound, Sound
<1>2. Blocks = Heads(heap)
  BY <1>1, BlocksAreHeads
<1>3. \A b : b \in FreeHeads(heap) <=> (b \in Blocks /\ Free(b))
  BY <1>2 DEF FreeHeads, Free
<1>4. \A i \in Index : \A b : b \in Listed(i) <=> (b \in FreeHeads(heap) /\ ListOf(heap, b) = i)
  BY <1>1, ListedAre
<1>5. \A b \in FreeHeads(heap) : ListOf(heap, b) \in Index
  BY <1>1, ListOfBlock DEF FreeHeads
<1>6. UNION {Listed(i) : i \in Index} = {b \in Blocks : Free(b)}
  <2> HIDE DEF Listed, Blocks, Free, ListOf
  <2>1. \A b : b \in UNION {Listed(i) : i \in Index} <=> \E i \in Index : b \in Listed(i)
    OBVIOUS
  <2>2. \A b : (\E i \in Index : b \in Listed(i)) <=> b \in FreeHeads(heap)
    BY <1>4, <1>5
  <2> QED  BY <1>3, <2>1, <2>2
<1>7. PICK r : Links(heap, FreeHeads(heap), r)
  BY <1>1 DEF Sound
<1>8. ASSUME NEW i \in Index, NEW b \in Listed(i)
      PROVE  /\ get_index(heap.hdr[b].size) = i
             /\ (heap.hdr[b].prev = NULL) <=> (heap.arr[i] = b)
             /\ heap.hdr[b].prev # NULL => heap.hdr[heap.hdr[b].prev].next = b
  <2>1. b \in FreeHeads(heap) /\ ListOf(heap, b) = i
    BY <1>4, <1>8
  <2>2. b # NULL
    BY <2>1, JunkAssumption DEF FreeHeads, Heads, Addr
  <2>3. PrevOk(heap, FreeHeads(heap), b) /\ HeadOk(heap, FreeHeads(heap), i)
    BY <1>7, <2>1 DEF Links
  <2>4. heap.hdr[b].prev = NULL => heap.arr[i] = b
    BY <2>1, <2>3 DEF PrevOk
  <2>5. heap.hdr[b].prev # NULL => heap.hdr[heap.hdr[b].prev].next = b
    BY <2>3 DEF PrevOk
  <2>6. heap.arr[i] = b => heap.hdr[b].prev = NULL
    BY <2>2, <2>3 DEF HeadOk
  <2> QED  BY <2>1, <2>4, <2>5, <2>6 DEF ListOf
<1> QED  BY <1>6, <1>8 DEF ListsExact, Index

\* Free neighbours are merged.
LEMMA CoalescedWhenUp ==
  UpSound => Coalesced
<1> SUFFICES ASSUME UpSound, Up PROVE Coalesced
  BY DEF Coalesced
<1>1. Sound(heap) /\ Held(heap, live) /\ heap \in Heaps /\ Tiles(heap)
  BY DEF UpSound, Sound
<1>2. Blocks = Heads(heap)
  BY <1>1, BlocksAreHeads
<1>3. ASSUME NEW b \in Blocks, Free(b), has_next_address(heap, b) PROVE ~Free(After(heap, b))
  <2>1. b \in FreeHeads(heap) /\ After(heap, b) # max_bytes
    BY <1>2, <1>3 DEF FreeHeads, Free, has_next_address
  <2>2. After(heap, b) \in Heads(heap)
    BY <1>1, <2>1 DEF Tiles, FreeHeads
  <2>3. After(heap, b) \notin FreeHeads(heap)
    BY <1>1, <2>1 DEF Sound
  <2> QED  BY <2>2, <2>3 DEF FreeHeads, Free
<1>4. ASSUME \A a \in Addr : live[a] = 0 PROVE Blocks = {0}
  <2>1. Occupied(heap) = {}
    BY <1>1, <1>4, NothingInUse
  <2>2. FreeHeads(heap) = Heads(heap)
    BY <2>1 DEF Occupied, FreeHeads
  <2>3. 0 \in Heads(heap)
    BY <1>1 DEF Tiles
  <2>4. After(heap, 0) = max_bytes
    BY <1>1, <2>2, <2>3 DEF Tiles, Sound
  <2>5. ASSUME NEW c \in Heads(heap), c # 0 PROVE FALSE
    <3>1. c \in Nat /\ c < max_bytes
      BY Region DEF Heads, Addr
    <3>2. 0 < c
      BY <2>5, <3>1
    <3>3. After(heap, 0) <= c
      BY <1>1, <2>3, <3>2 DEF Tiles
    <3> QED  BY <2>4, <3>1, <3>3, Region
  <2> QED  BY <1>2, <2>3, <2>5
<1> QED  BY <1>3, <1>4 DEF Coalesced

\* The search succeeds when it can.
LEMMA FitsWhenUp ==
  UpSound => FindsFit
<1> SUFFICES ASSUME UpSound, Up,
                    NEW n \in Requests, ~IndexLoops(ALIGN(n)),
                    NEW b \in Blocks, Free(b), heap.hdr[b].size >= ALIGN(n)
             PROVE  FirstFit(heap, n) # NULL
  BY DEF FindsFit
<1>1. Sound(heap) /\ heap \in Heaps /\ Tiles(heap)
  BY DEF UpSound, Sound
<1>2. b \in FreeHeads(heap)
  BY <1>1, BlocksAreHeads DEF FreeHeads, Free
<1>3. PICK r : Links(heap, FreeHeads(heap), r)
  BY <1>1 DEF Sound
<1> QED  BY <1>1, <1>2, <1>3, FitFound

\* For any sizes and any calls: header and footer of every block agree, the
\* blocks fill the region from its start to its end, and the blocks in use are
\* those the program holds, as large as it asked for (split_free_block, the two
\* halves of coalesce, set_occupied).
THEOREM HeapBlocksTile ==
  Spec => []BlocksTile
<1>1. HeapInv => BlocksTile
  BY HeapInvUp, TilesWhenUp
<1> QED  BY <1>1, HeapInvAlways, PTL

\* For any sizes and any calls: the lists hold the free blocks and no others,
\* each in the list of its size, linked both ways (add_to_free_list,
\* remove_from_list).
THEOREM HeapListsExact ==
  Spec => []ListsExact
<1>1. HeapInv => ListsExact
  BY HeapInvUp, ListsWhenUp
<1> QED  BY <1>1, HeapInvAlways, PTL

\* For any sizes and any calls: two free blocks are never neighbours, and what
\* has been freed entirely is one block again (coalesce).
THEOREM HeapCoalesced ==
  Spec => []Coalesced
<1>1. HeapInv => Coalesced
  BY HeapInvUp, CoalescedWhenUp
<1> QED  BY <1>1, HeapInvAlways, PTL

\* For any sizes and any calls: when some free block is large enough, the
\* search of dmalloc from the list of the request upwards finds one.
THEOREM HeapFindsFit ==
  Spec => []FindsFit
<1>1. HeapInv => FindsFit
  BY HeapInvUp, FitsWhenUp
<1> QED  BY <1>1, HeapInvAlways, PTL

\* For any sizes and any calls: the asserts on blocks and lists fail in no case
\* but the one of the block that fills the whole region, when it is freed.
THEOREM HeapAborts ==
  Spec => []AbortsOnlyOnWhole
<1>1. HeapInv => AbortsOnlyOnWhole
  BY DEF HeapInv, AbortsOnlyOnWhole, NoneLive
<1> QED  BY <1>1, HeapInvAlways, PTL

-----------------------------------------------------------------------------
(* The abstract allocator.                                                 *)

\* What dmalloc returns is inside the region, and nobody else's.
LEMMA MallocAllocates ==
  ASSUME HeapInv, NEW n \in Requests, dmalloc(n)
  PROVE  \E a \in Addr : Abstract!Allocate(a, n)
<1>1. PICK h : h = Initialized
  OBVIOUS
<1>2. PICK b : b = FirstFit(h, n)
  OBVIOUS
<1>3. PICK k : k = Take(h, b, n)
  OBVIOUS
<1>4. /\ status = "ok" /\ ALIGN(n) # 0 /\ ~IndexLoops(ALIGN(n)) /\ b # NULL
      /\ live' = IF k.ok THEN [live EXCEPT ![b + METADATA_T_ALIGNED] = n] ELSE live
  BY <1>1, <1>2, <1>3 DEF dmalloc
<1>5. /\ Sound(h) /\ Held(h, live) /\ b \in FreeHeads(h) /\ b \notin Occupied(h)
      /\ h.hdr[b].size >= ALIGN(n) /\ Taken(h, b, ALIGN(n), k)
  BY <1>1, <1>2, <1>3, <1>4, TakesFree
<1>6. live' = [live EXCEPT ![b + METADATA_T_ALIGNED] = n]
  BY <1>4, <1>5 DEF Taken, Sound
<1>7. h \in Heaps /\ Tiles(h) /\ b \in Heads(h)
  BY <1>5 DEF Sound, FreeHeads
<1>8. /\ b \in Nat /\ b + METADATA_T_ALIGNED \in Addr /\ h.hdr[b].size \in Nat
      /\ After(h, b) = b + Overhead + h.hdr[b].size /\ After(h, b) <= max_bytes
  BY <1>7, Blocks1
<1>9. n \in Nat /\ n # 0 /\ n <= ALIGN(n) /\ ALIGN(n) \in Nat
  BY <1>4, Requested
<1> DEFINE a == b + METADATA_T_ALIGNED
<1>10. a \in Addr /\ a \in Nat /\ a % ALIGNMENT = 0 /\ a + n < After(h, b)
  BY <1>5, <1>8, <1>9, Region DEF Addr
<1>11. DOMAIN live = Addr /\ live \in [Addr -> Nat]
  BY DEF HeapInv
<1>12. ASSUME NEW x \in Addr, live[x] # 0 PROVE ~ (a < x + live[x] /\ x < a + n)
  <2>1. PICK c \in Occupied(h) : x = c + METADATA_T_ALIGNED
    BY <1>5, <1>12 DEF Held
  <2>2. live[x] <= h.hdr[c].size /\ live[x] \in Nat
    BY <1>5, <1>11, <2>1 DEF Held
  <2>3. c \in Heads(h) /\ c # b
    BY <1>5, <2>1 DEF Occupied
  <2>4. /\ c \in Nat /\ h.hdr[c].size \in Nat /\ After(h, c) \in Nat
        /\ After(h, c) = c + Overhead + h.hdr[c].size
    BY <1>7, <2>3, Blocks1
  <2>5. After(h, b) <= c \/ After(h, c) <= b
    BY <1>7, <2>3, Blocks2
  <2>6. CASE After(h, b) <= c
    BY <1>8, <1>9, <1>10, <2>1, <2>2, <2>4, <2>6, Region
  <2>7. CASE After(h, c) <= b
    BY <1>8, <1>9, <1>10, <2>1, <2>2, <2>4, <2>7, Region
  <2> QED  BY <2>5, <2>6, <2>7
<1>13. Abstract!Unused(a, n)
  BY <1>11, <1>12 DEF Abstract!Unused, Abstract!Overlap, Abstract!Addr
<1>14. a + n <= max_bytes
  BY <1>8, <1>9, <1>10, Region
<1>15. Abstract!Allocate(a, n)
  BY <1>6, <1>10, <1>13, <1>14 DEF Abstract!Allocate
<1> QED  BY <1>10, <1>15

\* For any sizes and any calls, as far as the program frees what it was given
\* once: memory returned by dmalloc is aligned, inside the region and apart
\* from all that is held, until dfree (dmm.c:313-404).
THEOREM HeapIsAllocator ==
  Spec => ImplementsAllocator
<1>1. Init => Abstract!Init
  <2> SUFFICES ASSUME Init PROVE Abstract!Init
    OBVIOUS
  <2>1. live = [a \in Addr |-> 0]
    BY DEF Init
  <2> QED  BY <2>1 DEF Abstract!Init, Abstract!Addr
<1>2. HeapInv /\ [Next]_vars => [Abstract!Next]_live
  <2> SUFFICES ASSUME HeapInv, [Next]_vars, live' # live PROVE Abstract!Next
    OBVIOUS
  <2>1. DOMAIN live = Addr
    BY DEF HeapInv
  <2>2. CASE \E n \in Requests : dmalloc(n)
    <3>1. PICK n \in Requests : dmalloc(n)
      BY <2>2
    <3>2. \E a \in Addr : Abstract!Allocate(a, n)
      BY <3>1, MallocAllocates
    <3> QED  BY <2>1, <3>2 DEF Abstract!Next, Abstract!Addr
  <2>3. CASE \E a \in Addr : dfree(a)
    <3>1. PICK a \in Addr : dfree(a)
      BY <2>3
    <3>2. Abstract!Release(a)
      BY <3>1 DEF dfree, Abstract!Release
    <3> QED  BY <2>1, <3>2 DEF Abstract!Next, Abstract!Addr
  <2>4. ~dmalloc_init_fails /\ ~Stopped /\ ~UNCHANGED vars
    BY DEF dmalloc_init_fails, Stopped, vars
  <2>5. \A n \in Requests : ~dmalloc_returns_NULL(n) /\ ~dmalloc_huge(n)
    BY DEF dmalloc_returns_NULL, dmalloc_huge
  <2> QED  BY <2>2, <2>3, <2>4, <2>5 DEF Next
<1> QED  BY <1>1, <1>2, HeapInvAlways, PTL DEF Spec, ImplementsAllocator, Abstract!Spec

=============================================================================
