---------------------------- MODULE SkiplistProofs ----------------------------
(***************************************************************************)
(* Proofs about the skip list, for any values and any amount of memory.    *)
(***************************************************************************)
EXTENDS Skiplist, FiniteSetTheorems, NaturalsInduction, TLAPS

-----------------------------------------------------------------------------
(* Ranks, and functions that are defined by following links.               *)

\* Every set of numbers that is not empty has a least one.
LEMMA LeastNumber ==
  ASSUME NEW T, T \subseteq Nat, T # {}
  PROVE  \E x \in T : \A y \in T : x <= y
<1> DEFINE R == OpToRel(<, Nat)
<1>1. IsWellFoundedOn(R, Nat)
  BY NatLessThanWellFounded, Zenon
<1>2. PICK x \in T : \A y \in T : <<y, x>> \notin R
  <2> HIDE DEF R
  <2> QED  BY <1>1, WFMin
<1>3. \A y \in T : ~ (y < x)
  BY <1>2, Zenon DEF OpToRel
<1> QED  BY <1>3

\* What passes from lower ranks to higher ones is so at all.
LEMMA ByRank ==
  ASSUME NEW S, NEW rank \in [S -> Nat], NEW P,
         \A a \in S : (\A b \in S : rank[b] < rank[a] => b \in P) => a \in P
  PROVE  S \subseteq P
<1> SUFFICES ASSUME ~ (S \subseteq P) PROVE FALSE
  OBVIOUS
<1> DEFINE T == {rank[a] : a \in S \ P}
<1>1. T \subseteq Nat /\ T # {}
  OBVIOUS
<1>2. PICK n \in T : \A y \in T : n <= y
  <2> HIDE DEF T
  <2> QED  BY <1>1, LeastNumber
<1>3. PICK a \in S \ P : rank[a] = n
  BY <1>2
<1>4. ASSUME NEW b \in S, rank[b] < rank[a] PROVE b \in P
  <2>1. rank[b] \in Nat /\ rank[a] \in Nat
    OBVIOUS
  <2>2. rank[b] \notin T
    <3> HIDE DEF T
    <3>1. rank[b] \in T => n <= rank[b]
      BY <1>2
    <3> QED  BY <1>3, <1>4, <2>1, <3>1
  <2> QED  BY <2>2
<1> QED  BY <1>3, <1>4

\* f[a] is given at the ends, and elsewhere depends on f at the next place.
Recursion(S, End, base, G, nx, f) ==
  \A a \in S : f[a] = IF a \in End THEN base[a] ELSE G[<<a, f[nx[a]]>>]

\* There is such a function if ranks fall from each place to the next.
LEMMA RecursionEnds ==
  ASSUME NEW S, NEW V, NEW End, NEW base \in [S -> V], NEW G \in [S \X V -> V],
         NEW nx, \A a \in S \ End : nx[a] \in S,
         NEW rank \in [S -> Nat], \A a \in S \ End : rank[nx[a]] < rank[a],
         NEW n \in Nat, \A a \in S : rank[a] <= n
  PROVE  \E f \in [S -> V] : Recursion(S, End, base, G, nx, f)
<1> DEFINE Upto(f, m) == \A a \in S : rank[a] < m => f[a] = IF a \in End THEN base[a] ELSE G[<<a, f[nx[a]]>>]
           Good == {m \in Nat : \E f \in [S -> V] : Upto(f, m)}
           id == [m \in Nat |-> m]
<1>1. \A m \in Nat : (\A k \in Nat : id[k] < id[m] => k \in Good) => m \in Good
  <2> SUFFICES ASSUME NEW m \in Nat, \A k \in Nat : id[k] < id[m] => k \in Good
               PROVE  \E f \in [S -> V] : Upto(f, m)
    OBVIOUS
  <2>1. CASE m = 0
    <3>1. \A a \in S : ~ (rank[a] < m)
      BY <2>1
    <3>2. Upto(base, m)
      BY <3>1
    <3> QED  BY <3>2
  <2>2. CASE m # 0
    <3>1. m - 1 \in Nat /\ m - 1 < m
      BY <2>2
    <3>2. PICK f \in [S -> V] : Upto(f, m - 1)
      BY <3>1
    <3> DEFINE g == [a \in S |-> IF a \in End THEN base[a] ELSE G[<<a, f[nx[a]]>>]]
    <3>3. g \in [S -> V]
      OBVIOUS
    <3>4. ASSUME NEW a \in S, rank[a] < m, a \notin End PROVE g[nx[a]] = f[nx[a]]
      <4>1. nx[a] \in S /\ rank[nx[a]] < rank[a] /\ rank[nx[a]] \in Nat /\ rank[a] \in Nat
        BY <3>4
      <4>2. rank[nx[a]] < m - 1
        BY <3>4, <4>1
      <4>3. f[nx[a]] = IF nx[a] \in End THEN base[nx[a]] ELSE G[<<nx[a], f[nx[nx[a]]]>>]
        BY <3>2, <4>1, <4>2
      <4> QED  BY <4>1, <4>3
    <3>5. Upto(g, m)
      BY <3>4
    <3> HIDE DEF g
    <3> QED  BY <3>3, <3>5
  <2> QED  BY <2>1, <2>2
<1>2. n + 1 \in Good
  <2> HIDE DEF Good
  <2>1. id \in [Nat -> Nat]
    OBVIOUS
  <2> HIDE DEF id
  <2>2. Nat \subseteq Good
    BY <1>1, <2>1, ByRank
  <2> QED  BY <2>2
<1>3. PICK f \in [S -> V] : Upto(f, n + 1)
  BY <1>2
<1>4. \A a \in S : rank[a] < n + 1
  OBVIOUS
<1> QED  BY <1>3, <1>4 DEF Recursion

-----------------------------------------------------------------------------
(* Memory.                                                                 *)

\* The free addresses are taken one after the other.
LEMMA Fresh ==
  ASSUME NEW m \in Nat, Room(m)
  PROVE  /\ \A i \in 1..m : FreeAddr(i) \in Addr \ alloc
         /\ \A i, j \in 1..m : FreeAddr(i) = FreeAddr(j) => i = j
<1> DEFINE S == Addr \ alloc
           U(a) == {b \in S : b <= a}
           c == [a \in 0..NumNodes |-> Cardinality(U(a))]
<1>1. IsFiniteSet(S) /\ NumNodes \in Nat /\ S \subseteq 1..NumNodes
  <2>1. NumNodes \in Int /\ 1 \in Int /\ S \subseteq 1..NumNodes
    BY FirstHeadAssumption DEF Addr
  <2>2. IsFiniteSet(1..NumNodes)
    BY <2>1, FS_Interval
  <2>3. IsFiniteSet(S)
    <3> HIDE DEF S
    <3> QED  BY <2>1, <2>2, FS_Subset
  <2> QED  BY <2>1, <2>3, FirstHeadAssumption
<1>2. ASSUME NEW a PROVE IsFiniteSet(U(a)) /\ Cardinality(U(a)) \in Nat
  <2>1. U(a) \subseteq S
    OBVIOUS
  <2> HIDE DEF U, S
  <2> QED  BY <1>1, <2>1, FS_Subset, FS_CardinalityType
<1>3. c \in [0..NumNodes -> Nat]
  BY <1>2
<1>4. c[0] = 0
  <2>1. U(0) = {}
    BY <1>1
  <2>2. c[0] = Cardinality(U(0))
    BY <1>1
  <2> QED  BY <2>1, <2>2, FS_EmptySet
<1>5. c[NumNodes] >= m
  <2>1. U(NumNodes) = S
    BY <1>1
  <2>2. c[NumNodes] = Cardinality(U(NumNodes))
    BY <1>1
  <2> QED  BY <2>1, <2>2 DEF Room
<1>6. ASSUME NEW a \in 1..NumNodes
      PROVE  c[a] = IF a \in S THEN c[a - 1] + 1 ELSE c[a - 1]
  <2>1. a - 1 \in 0..NumNodes /\ a \in 0..NumNodes
    BY <1>1
  <2>2. c[a] = Cardinality(U(a)) /\ c[a - 1] = Cardinality(U(a - 1))
    BY <2>1
  <2>3. CASE a \notin S
    <3>1. U(a) = U(a - 1)
      BY <1>1, <2>3
    <3> QED  BY <2>2, <2>3, <3>1
  <2>4. CASE a \in S
    <3>1. U(a) = U(a - 1) \cup {a} /\ a \notin U(a - 1)
      BY <1>1, <2>4
    <3>2. IsFiniteSet(U(a - 1))
      BY <1>2
    <3>3. Cardinality(U(a)) = Cardinality(U(a - 1)) + 1
      <4> HIDE DEF U
      <4> QED  BY <3>1, <3>2, FS_AddElement
    <3> HIDE DEF c, U
    <3> QED  BY <2>2, <2>4, <3>3
  <2> QED  BY <2>3, <2>4
<1> HIDE DEF c
<1>7. ASSUME NEW k \in 1..m PROVE \E a \in S : c[a] = k
  <2> DEFINE T == {a \in 0..NumNodes : c[a] >= k}
  <2>1. NumNodes \in T
    BY <1>1, <1>3, <1>5
  <2>2. PICK a \in T : \A y \in T : a <= y
    <3>1. T \subseteq Nat /\ T # {}
      BY <1>1, <2>1
    <3> HIDE DEF T
    <3> QED  BY <3>1, LeastNumber
  <2>3. a # 0
    BY <1>4, <2>2
  <2>4. a \in 1..NumNodes /\ a - 1 \in 0..NumNodes /\ a - 1 \notin T
    BY <1>1, <2>2, <2>3
  <2>5. c[a - 1] < k /\ c[a] >= k /\ c[a - 1] \in Nat
    BY <1>3, <2>2, <2>4
  <2> QED  BY <1>6, <2>4, <2>5
<1>8. \A a \in S : c[a] = Cardinality(U(a))
  BY <1>1 DEF c
<1>9. \A i \in 1..m : FreeAddr(i) \in S /\ Cardinality(U(FreeAddr(i))) = i
  <2> TAKE k \in 1..m
  <2>1. \E a \in S : Cardinality(U(a)) = k
    BY <1>7, <1>8
  <2>2. FreeAddr(k) = CHOOSE a \in S : Cardinality(U(a)) = k
    BY DEF FreeAddr
  <2> HIDE DEF U, S
  <2> QED  BY <2>1, <2>2
<1> HIDE DEF U
<1> QED  BY <1>9

-----------------------------------------------------------------------------
(* The grid.  Every node has a level, the number of its row counted from   *)
(* the bottom, and a position, which is 0 for the head of a row and common *)
(* to the nodes of a tower.                                                *)

Cells == [val : Int, right : Addr \cup {Null}, down : Addr \cup {Null}]

Memory(nd, al) == nd \in [Addr -> Cells] /\ \A a \in Addr \ al : nd[a] = Blank

Placed(al, hd, K, N, lvl, pos) ==
  /\ al \subseteq Addr /\ hd \in al
  /\ K \in Nat \ {0} /\ N \in Nat
  /\ lvl \in [Addr -> Nat] /\ pos \in [Addr -> Nat]
  /\ lvl[hd] = K /\ pos[hd] = 0
  /\ \A a \in al : 1 <= lvl[a] /\ lvl[a] <= K /\ pos[a] <= N
  /\ \A a, b \in al : lvl[a] = lvl[b] /\ pos[a] = pos[b] => a = b

\* The right link leads to the next node of the row.
RightOk(nd, al, lvl, pos) ==
  \A a \in al :
    IF nd[a].right = Null
    THEN \A c \in al : lvl[c] = lvl[a] => pos[c] <= pos[a]
    ELSE /\ nd[a].right \in al
         /\ lvl[nd[a].right] = lvl[a]
         /\ pos[a] < pos[nd[a].right]
         /\ \A c \in al : lvl[c] = lvl[a] /\ pos[a] < pos[c] => pos[nd[a].right] <= pos[c]

\* The down link leads to the node of the same tower in the next row.
DownOk(nd, al, lvl, pos) ==
  \A a \in al :
    IF lvl[a] = 1
    THEN nd[a].down = Null
    ELSE /\ nd[a].down \in al
         /\ lvl[nd[a].down] = lvl[a] - 1
         /\ pos[nd[a].down] = pos[a]

Sorted(nd, al, pos) ==
  \A a, b \in al : 0 < pos[a] /\ pos[a] <= pos[b] => nd[a].val <= nd[b].val

Grid(nd, al, hd, K, N, lvl, pos) ==
  /\ Memory(nd, al)
  /\ Placed(al, hd, K, N, lvl, pos)
  /\ RightOk(nd, al, lvl, pos)
  /\ DownOk(nd, al, lvl, pos)
  /\ Sorted(nd, al, pos)

SkipInv == \E K, N, lvl, pos : Grid(node, alloc, head, K, N, lvl, pos)

\* What a leaf may know of a cell and of the place of a node.
LEMMA AddrNat == Addr \subseteq Nat /\ Null \notin Addr /\ 1 \in Addr
  BY FirstHeadAssumption DEF Addr, Null

\* The fields of a cell; a free cell has no links.
LEMMA CellFields ==
  ASSUME NEW nd, NEW al, Memory(nd, al), NEW a \in Addr
  PROVE  /\ nd[a].val \in Int
         /\ nd[a].right \in Addr \cup {Null}
         /\ nd[a].down \in Addr \cup {Null}
         /\ a \notin al => nd[a].right = Null /\ nd[a].down = Null
<1>1. nd[a] \in Cells
  BY DEF Memory
<1>2. a \notin al => nd[a] = Blank
  BY DEF Memory
<1> QED  BY <1>1, <1>2 DEF Cells, Blank

\* A cell with another right link.
LEMMA Relinked ==
  ASSUME NEW c \in Cells, NEW r
  PROVE  [c EXCEPT !.right = r] = [val |-> c.val, right |-> r, down |-> c.down]
  BY DEF Cells

-----------------------------------------------------------------------------
(* The walk to the right.                                                  *)

Before(v, pos, a) == pos[a] = 0 \/ node[a].val < v

\* Where the walk leaves row i.
PointAt(v, lvl, pos, i, p) ==
  /\ p \in alloc
  /\ lvl[p] = i
  /\ Before(v, pos, p)
  /\ node[p].right # Null => node[node[p].right].val >= v

\* Nodes up to one before v are before v.
LEMMA BeforeDown ==
  ASSUME NEW K, NEW N, NEW lvl, NEW pos, Grid(node, alloc, head, K, N, lvl, pos),
         NEW v \in Int, NEW a \in alloc, NEW b \in alloc, pos[a] <= pos[b], Before(v, pos, b)
  PROVE  Before(v, pos, a)
<1>1. /\ a \in Addr /\ b \in Addr /\ pos[a] \in Nat /\ pos[b] \in Nat
      /\ node[a].val \in Int /\ node[b].val \in Int
  BY CellFields DEF Grid, Placed
<1>2. 0 < pos[a] => node[a].val <= node[b].val
  BY DEF Grid, Sorted
<1> QED  BY <1>1, <1>2 DEF Before

\* The point of a row is its last node before v.
LEMMA PointLast ==
  ASSUME NEW K, NEW N, NEW lvl, NEW pos, Grid(node, alloc, head, K, N, lvl, pos),
         NEW v \in Int, NEW i, NEW p, PointAt(v, lvl, pos, i, p),
         NEW a \in alloc, lvl[a] = i
  PROVE  Before(v, pos, a) <=> pos[a] <= pos[p]
<1>1. /\ p \in alloc /\ a \in Addr /\ p \in Addr /\ pos[a] \in Nat /\ pos[p] \in Nat
      /\ node[a].val \in Int /\ node[p].right \in Addr \cup {Null} /\ lvl[p] = lvl[a]
  BY CellFields DEF Grid, Placed, PointAt
<1>2. pos[a] <= pos[p] => Before(v, pos, a)
  BY <1>1, BeforeDown DEF PointAt
<1>3. ASSUME pos[p] < pos[a] PROVE ~ Before(v, pos, a)
  <2>1. node[p].right # Null
    BY <1>1, <1>3 DEF Grid, RightOk
  <2>2. /\ node[p].right \in alloc /\ pos[p] < pos[node[p].right] /\ pos[node[p].right] <= pos[a]
    BY <1>1, <1>3, <2>1 DEF Grid, RightOk
  <2>3. node[node[p].right].val >= v /\ node[node[p].right].val \in Int /\ pos[node[p].right] \in Nat
    BY <1>1, <2>1, <2>2, CellFields DEF PointAt, Grid, Placed
  <2>4. node[node[p].right].val <= node[a].val
    BY <1>1, <2>2, <2>3 DEF Grid, Sorted
  <2> QED  BY <1>1, <1>3, <2>3, <2>4 DEF Before
<1> QED  BY <1>1, <1>2, <1>3

\* What a walk to the right from each node ends in.
Stopped(v, lvl, pos, stop) ==
  /\ stop \in [Addr -> Addr]
  /\ \A a \in Addr \ alloc : stop[a] = a
  /\ \A a \in alloc : stop[a] \in alloc /\ lvl[stop[a]] = lvl[a]
  /\ \A a \in alloc : Before(v, pos, a) => PointAt(v, lvl, pos, lvl[a], stop[a])

\* StopBefore does just that.
LEMMA StopBeforeStops ==
  ASSUME NEW K, NEW N, NEW lvl, NEW pos, Grid(node, alloc, head, K, N, lvl, pos), NEW v \in Int
  PROVE  Stopped(v, lvl, pos, StopBefore(v))
<1> DEFINE Goes(a) == node[a].right # Null /\ node[node[a].right].val < v
           Walk(f) == f = [a \in Addr |-> LET r == node[a].right
                                          IN IF r # Null /\ node[r].val < v THEN f[r] ELSE a]
           End == {a \in Addr : ~ Goes(a)}
           base == [a \in Addr |-> a]
           G == [t \in Addr \X Addr |-> t[2]]
           nx == [a \in Addr |-> node[a].right]
           rank == [a \in Addr |-> IF a \in alloc THEN N - pos[a] ELSE 0]
<1>1. /\ alloc \subseteq Addr /\ N \in Nat /\ pos \in [Addr -> Nat] /\ lvl \in [Addr -> Nat]
      /\ \A a \in alloc : pos[a] <= N
      /\ Null \notin Addr
  BY AddrNat DEF Grid, Placed
<1>2. \A a \in Addr : /\ node[a].right \in Addr \cup {Null}
                      /\ a \notin alloc => node[a].right = Null
                      /\ node[a].val \in Int
  BY CellFields DEF Grid
<1>3. ASSUME NEW a \in Addr, Goes(a)
      PROVE  /\ a \in alloc /\ node[a].right \in alloc
             /\ lvl[node[a].right] = lvl[a] /\ pos[a] < pos[node[a].right]
             /\ Before(v, pos, node[a].right)
  BY <1>2, <1>3 DEF Grid, RightOk, Before
<1>4. \E f \in [Addr -> Addr] : Recursion(Addr, End, base, G, nx, f)
  <2>1. base \in [Addr -> Addr] /\ G \in [Addr \X Addr -> Addr] /\ rank \in [Addr -> Nat]
    <3>1. \A a \in alloc : N - pos[a] \in Nat
      BY <1>1
    <3> QED  BY <1>1, <3>1
  <2>2. \A a \in Addr \ End : nx[a] \in Addr /\ rank[nx[a]] < rank[a]
    <3> TAKE a \in Addr \ End
    <3>1. Goes(a)
      OBVIOUS
    <3>2. a \in alloc /\ node[a].right \in alloc /\ pos[a] < pos[node[a].right]
      <4> HIDE DEF Goes
      <4> QED  BY <1>3, <3>1
    <3>3. nx[a] = node[a].right /\ nx[a] \in Addr
      BY <1>1, <3>2
    <3>4. rank[a] = N - pos[a] /\ rank[nx[a]] = N - pos[nx[a]]
      BY <1>1, <3>2, <3>3
    <3> QED  BY <1>1, <3>2, <3>3, <3>4
  <2>3. \A a \in Addr : rank[a] <= N
    BY <1>1
  <2>4. (\A a \in Addr \ End : nx[a] \in Addr) /\ (\A a \in Addr \ End : rank[nx[a]] < rank[a])
    <3> HIDE DEF End, nx, rank
    <3> QED  BY <2>2
  <2> HIDE DEF End, base, G, nx, rank
  <2> QED  BY <1>1, <2>1, <2>3, <2>4, RecursionEnds
<1>5. PICK f \in [Addr -> Addr] : Recursion(Addr, End, base, G, nx, f)
  BY <1>4
<1>6. Walk(f)
  <2>1. ASSUME NEW a \in Addr
        PROVE  f[a] = LET r == node[a].right IN IF r # Null /\ node[r].val < v THEN f[r] ELSE a
    <3>1. f[a] = IF a \in End THEN base[a] ELSE G[<<a, f[nx[a]]>>]
      BY <1>5 DEF Recursion
    <3>2. CASE Goes(a)
      <4>1. nx[a] \in Addr /\ nx[a] = node[a].right
        BY <1>2, <3>2
      <4> QED  BY <3>1, <3>2, <4>1
    <3>3. CASE ~ Goes(a)
      BY <3>1, <3>3
    <3> QED  BY <3>2, <3>3
  <2> QED  BY <2>1
<1>7. StopBefore(v) = CHOOSE g : Walk(g)
  BY DEF StopBefore
<1> DEFINE stop == StopBefore(v)
<1>8. Walk(stop)
  <2> HIDE DEF Walk
  <2> QED  BY <1>6, <1>7
<1>9. \A a \in Addr : stop[a] = IF Goes(a) THEN stop[node[a].right] ELSE a
  BY <1>8
<1> HIDE DEF stop
<1> DEFINE Good == {a \in Addr : /\ stop[a] \in Addr
                                 /\ a \notin alloc => stop[a] = a
                                 /\ a \in alloc => stop[a] \in alloc /\ lvl[stop[a]] = lvl[a]
                                 /\ a \in alloc /\ Before(v, pos, a) => PointAt(v, lvl, pos, lvl[a], stop[a])}
<1>10. \A a \in Addr : (\A b \in Addr : rank[b] < rank[a] => b \in Good) => a \in Good
  <2> SUFFICES ASSUME NEW a \in Addr, \A b \in Addr : rank[b] < rank[a] => b \in Good
               PROVE  a \in Good
    OBVIOUS
  <2>1. CASE Goes(a)
    <3> DEFINE r == node[a].right
    <3>1. /\ a \in alloc /\ r \in alloc /\ lvl[r] = lvl[a] /\ pos[a] < pos[r] /\ Before(v, pos, r)
      <4> HIDE DEF Goes
      <4> QED  BY <1>3, <2>1
    <3>2. r \in Addr /\ rank[r] < rank[a]
      BY <1>1, <3>1
    <3>3. r \in Good
      BY <3>2
    <3>4. stop[a] = stop[r]
      BY <1>9, <2>1
    <3> HIDE DEF r, rank
    <3> QED  BY <3>1, <3>3, <3>4
  <2>2. CASE ~ Goes(a)
    <3>1. stop[a] = a
      BY <1>9, <2>2
    <3>2. a \in alloc /\ Before(v, pos, a) => PointAt(v, lvl, pos, lvl[a], a)
      <4>1. node[a].right # Null => node[node[a].right].val \in Int /\ ~ (node[node[a].right].val < v)
        BY <1>2, <2>2
      <4> QED  BY <4>1 DEF PointAt
    <3> HIDE DEF rank, Goes
    <3> QED  BY <3>1, <3>2
  <2> QED  BY <2>1, <2>2
<1>11. Addr \subseteq Good
  <2>1. rank \in [Addr -> Nat]
    <3>1. \A a \in alloc : N - pos[a] \in Nat
      BY <1>1
    <3> QED  BY <1>1, <3>1
  <2> HIDE DEF Good, rank
  <2> QED  BY <1>10, <2>1, ByRank
<1>12. stop \in [Addr -> Addr]
  <2>1. stop = [a \in Addr |-> stop[a]]
    <3>1. stop = [a \in Addr |-> LET r == node[a].right
                                 IN IF r # Null /\ node[r].val < v THEN stop[r] ELSE a]
      BY <1>8
    <3> QED  BY <3>1
  <2> HIDE DEF rank
  <2> QED  BY <1>11, <2>1
<1> HIDE DEF rank
<1> QED  BY <1>1, <1>11, <1>12 DEF Stopped, stop

-----------------------------------------------------------------------------
(* The walk downwards.                                                     *)

\* ps holds the points of the rows 1 to m.
PointsUpto(v, lvl, pos, m, ps) ==
  /\ ps \in Seq(Addr)
  /\ Len(ps) = m
  /\ \A i \in 1..m : PointAt(v, lvl, pos, i, ps[i])

\* Points holds one point of each row, the lowest one first.
LEMMA PointsFound ==
  ASSUME NEW K, NEW N, NEW lvl, NEW pos, Grid(node, alloc, head, K, N, lvl, pos), NEW v \in Int
  PROVE  PointsUpto(v, lvl, pos, K, Points(v))
<1> DEFINE stop == StopBefore(v)
           S == Addr \cup {Null}
           Path(f) == f = [a \in Addr \cup {Null} |->
                             IF a = Null THEN <<>>
                             ELSE LET p == StopBefore(v)[a] IN Append(f[node[p].down], p)]
           End == {Null}
           base == [a \in S |-> << >>]
           G == [t \in S \X Seq(Addr) |-> Append(t[2], IF t[1] = Null THEN 1 ELSE stop[t[1]])]
           nx == [a \in S |-> IF a = Null THEN Null ELSE node[stop[a]].down]
           rank == [a \in S |-> IF a = Null THEN 0 ELSE IF a \in alloc THEN lvl[a] ELSE 1]
<1>1. /\ alloc \subseteq Addr /\ K \in Nat \ {0} /\ lvl \in [Addr -> Nat]
      /\ pos \in [Addr -> Nat]
      /\ \A a \in alloc : 1 <= lvl[a] /\ lvl[a] <= K
      /\ head \in alloc /\ lvl[head] = K /\ pos[head] = 0
      /\ Null \notin Addr /\ 1 \in Addr
  BY AddrNat DEF Grid, Placed
<1>2. Stopped(v, lvl, pos, stop)
  BY StopBeforeStops
<1>3. ASSUME NEW a \in Addr
      PROVE  /\ stop[a] \in Addr /\ node[stop[a]].down \in S
             /\ a \notin alloc => node[stop[a]].down = Null
             /\ a \in alloc => /\ stop[a] \in alloc /\ lvl[stop[a]] = lvl[a]
                               /\ IF lvl[a] = 1 THEN node[stop[a]].down = Null
                                  ELSE /\ node[stop[a]].down \in alloc
                                       /\ lvl[node[stop[a]].down] = lvl[a] - 1
                                       /\ pos[node[stop[a]].down] = pos[stop[a]]
  <2>1. stop[a] \in Addr /\ (a \notin alloc => stop[a] = a)
        /\ (a \in alloc => stop[a] \in alloc /\ lvl[stop[a]] = lvl[a])
    BY <1>2 DEF Stopped
  <2> HIDE DEF stop
  <2>2. /\ node[stop[a]].down \in S
        /\ stop[a] \notin alloc => node[stop[a]].down = Null
    BY <2>1, CellFields DEF Grid
  <2> QED  BY <2>1, <2>2 DEF Grid, DownOk
<1> HIDE DEF stop
<1>4. ASSUME NEW a \in S \ End PROVE nx[a] \in S /\ rank[nx[a]] < rank[a]
  <2>1. a \in Addr /\ a # Null /\ nx[a] = node[stop[a]].down
    OBVIOUS
  <2>2. nx[a] \in S
    <3> HIDE DEF nx
    <3> QED  BY <1>3, <2>1
  <2>3. CASE a \in alloc
    <3>1. rank[a] = lvl[a] /\ lvl[a] \in Nat /\ 1 <= lvl[a]
      BY <1>1, <2>1, <2>3
    <3>2. CASE lvl[a] = 1
      <4>1. nx[a] = Null
        <5> HIDE DEF nx
        <5> QED  BY <1>3, <2>1, <2>3, <3>2
      <4>2. rank[nx[a]] = 0
        <5> HIDE DEF nx
        <5> QED  BY <4>1
      <4> QED  BY <2>2, <3>1, <4>2
    <3>3. CASE lvl[a] # 1
      <4>1. nx[a] \in alloc /\ lvl[nx[a]] = lvl[a] - 1
        <5> HIDE DEF nx
        <5> QED  BY <1>3, <2>1, <2>3, <3>3
      <4>2. rank[nx[a]] = lvl[nx[a]]
        <5> HIDE DEF nx
        <5> QED  BY <1>1, <4>1
      <4> QED  BY <2>2, <3>1, <4>1, <4>2
    <3> QED  BY <3>2, <3>3
  <2>4. CASE a \notin alloc
    <3>1. rank[a] = 1
      BY <2>1, <2>4
    <3>2. nx[a] = Null
      <4> HIDE DEF nx
      <4> QED  BY <1>3, <2>1, <2>4
    <3>3. rank[nx[a]] = 0
      <4> HIDE DEF nx
      <4> QED  BY <3>2
    <3> QED  BY <2>2, <3>1, <3>3
  <2> QED  BY <2>3, <2>4
<1>5. rank \in [S -> Nat] /\ (\A a \in S : rank[a] <= K)
  BY <1>1
<1>6. \E f \in [S -> Seq(Addr)] : Recursion(S, End, base, G, nx, f)
  <2>1. base \in [S -> Seq(Addr)]
    OBVIOUS
  <2>2. G \in [S \X Seq(Addr) -> Seq(Addr)]
    <3>1. ASSUME NEW a \in S, NEW s \in Seq(Addr)
          PROVE  Append(s, IF a = Null THEN 1 ELSE stop[a]) \in Seq(Addr)
      <4>1. (IF a = Null THEN 1 ELSE stop[a]) \in Addr
        BY <1>1, <1>3
      <4> HIDE DEF S
      <4> QED  BY <4>1
    <3> HIDE DEF S
    <3> QED  BY <3>1
  <2>3. (\A a \in S \ End : nx[a] \in S) /\ (\A a \in S \ End : rank[nx[a]] < rank[a])
    BY <1>4
  <2>4. K \in Nat
    BY <1>1
  <2> HIDE DEF S, End, base, G, nx, rank
  <2> QED  BY <1>5, <2>1, <2>2, <2>3, <2>4, RecursionEnds
<1>7. PICK f \in [S -> Seq(Addr)] : Recursion(S, End, base, G, nx, f)
  BY <1>6
<1>8. Path(f)
  <2>1. ASSUME NEW a \in S
        PROVE  f[a] = IF a = Null THEN <<>> ELSE Append(f[node[stop[a]].down], stop[a])
    <3>1. f[a] = IF a \in End THEN base[a] ELSE G[<<a, f[nx[a]]>>]
      BY <1>7 DEF Recursion
    <3>2. CASE a = Null
      BY <3>1, <3>2
    <3>3. CASE a # Null
      <4>1. a \in S \ End /\ nx[a] = node[stop[a]].down
        BY <3>3
      <4>2. nx[a] \in S
        <5> HIDE DEF nx, S, End
        <5> QED  BY <1>4, <4>1
      <4>3. f[nx[a]] \in Seq(Addr)
        <5> HIDE DEF nx, S
        <5> QED  BY <1>7, <4>2
      <4>4. G[<<a, f[nx[a]]>>] = Append(f[nx[a]], stop[a])
        <5> HIDE DEF nx
        <5> QED  BY <3>3, <4>3
      <4> QED  BY <3>1, <3>3, <4>1, <4>4
    <3> QED  BY <3>2, <3>3
  <2>2. f = [a \in S |-> f[a]]
    <3> HIDE DEF S
    <3> QED  BY <1>7
  <2>3. f = [a \in S |-> IF a = Null THEN <<>> ELSE Append(f[node[stop[a]].down], stop[a])]
    <3> HIDE DEF S
    <3> QED  BY <2>1, <2>2
  <2> QED  BY <2>3 DEF stop
<1>9. Points(v) = (CHOOSE g : Path(g))[head]
  BY DEF Points
<1> DEFINE path == CHOOSE g : Path(g)
<1>10. Path(path)
  <2> HIDE DEF Path
  <2> QED  BY <1>8
<1>11. \A a \in Addr : path[a] = Append(path[node[stop[a]].down], stop[a])
  <2> HIDE DEF path
  <2> QED  BY <1>1, <1>10 DEF stop
<1>12. path[Null] = << >>
  <2> HIDE DEF path
  <2> QED  BY <1>10
<1> HIDE DEF path, Path, End, base, G, nx, rank, S
<1> DEFINE R == {a \in alloc : Before(v, pos, a)}
           level == [a \in R |-> lvl[a]]
           Good == {a \in R : PointsUpto(v, lvl, pos, lvl[a], path[a])}
<1>13. \A a \in R : (\A b \in R : level[b] < level[a] => b \in Good) => a \in Good
  <2> SUFFICES ASSUME NEW a \in R, \A b \in R : level[b] < level[a] => b \in Good
               PROVE  PointsUpto(v, lvl, pos, lvl[a], path[a])
    OBVIOUS
  <2> DEFINE d == node[stop[a]].down
  <2>1. a \in alloc /\ a \in Addr /\ Before(v, pos, a) /\ lvl[a] \in Nat /\ 1 <= lvl[a]
    BY <1>1
  <2>2. PointAt(v, lvl, pos, lvl[a], stop[a]) /\ stop[a] \in Addr
    BY <1>2, <2>1, <1>3 DEF Stopped
  <2>3. PointsUpto(v, lvl, pos, lvl[a] - 1, path[d])
    <3>1. CASE lvl[a] = 1
      <4>1. d = Null
        BY <1>3, <2>1, <3>1
      <4>2. lvl[a] - 1 = 0
        BY <3>1
      <4>3. path[d] = << >>
        <5> HIDE DEF d
        <5> QED  BY <1>12, <4>1
      <4>4. PointsUpto(v, lvl, pos, 0, << >>)
        BY DEF PointsUpto
      <4> HIDE DEF d
      <4> QED  BY <4>2, <4>3, <4>4
    <3>2. CASE lvl[a] # 1
      <4>1. d \in alloc /\ lvl[d] = lvl[a] - 1 /\ pos[d] = pos[stop[a]]
        BY <1>3, <2>1, <3>2
      <4>2. stop[a] \in alloc /\ Before(v, pos, stop[a]) /\ pos[d] <= pos[stop[a]]
        BY <1>1, <2>2, <4>1 DEF PointAt
      <4>3. Before(v, pos, d)
        <5> HIDE DEF d
        <5> QED  BY <4>1, <4>2, BeforeDown
      <4>4. d \in R /\ level[d] < level[a]
        <5>1. d \in R
          BY <4>1, <4>3
        <5> HIDE DEF d
        <5> QED  BY <2>1, <4>1, <5>1
      <4> HIDE DEF d, R, level
      <4> QED  BY <4>1, <4>4
    <3> QED  BY <3>1, <3>2
  <2>4. path[a] = Append(path[d], stop[a])
    BY <1>11, <2>1
  <2> HIDE DEF d
  <2>5. path[a] \in Seq(Addr) /\ Len(path[a]) = lvl[a]
    BY <2>1, <2>2, <2>3, <2>4 DEF PointsUpto
  <2>6. ASSUME NEW i \in 1..lvl[a] PROVE PointAt(v, lvl, pos, i, path[a][i])
    <3>1. CASE i = lvl[a]
      <4>1. path[a][i] = stop[a]
        BY <2>1, <2>2, <2>3, <2>4, <3>1 DEF PointsUpto
      <4> QED  BY <2>2, <3>1, <4>1
    <3>2. CASE i # lvl[a]
      <4>1. i \in 1..(lvl[a] - 1)
        BY <2>1, <3>2
      <4>2. path[a][i] = path[d][i]
        BY <2>1, <2>2, <2>3, <2>4, <4>1 DEF PointsUpto
      <4> QED  BY <2>3, <4>1, <4>2 DEF PointsUpto
    <3> QED  BY <3>1, <3>2
  <2> QED  BY <2>5, <2>6 DEF PointsUpto
<1>14. R \subseteq Good
  <2>1. level \in [R -> Nat]
    BY <1>1
  <2> HIDE DEF R, Good, level
  <2> QED  BY <1>13, <2>1, ByRank
<1>15. head \in Good
  <2>1. head \in R
    BY <1>1 DEF Before
  <2> HIDE DEF R, Good
  <2> QED  BY <1>14, <2>1
<1> HIDE DEF R
<1> QED  BY <1>1, <1>9, <1>15 DEF path

\* A row has one point.
LEMMA PointUnique ==
  ASSUME NEW K, NEW N, NEW lvl, NEW pos, Grid(node, alloc, head, K, N, lvl, pos),
         NEW v \in Int, NEW i, NEW p, PointAt(v, lvl, pos, i, p), NEW q, PointAt(v, lvl, pos, i, q)
  PROVE  p = q
<1>1. p \in alloc /\ q \in alloc /\ lvl[p] = i /\ lvl[q] = i /\ Before(v, pos, p) /\ Before(v, pos, q)
  BY DEF PointAt
<1>2. pos[p] <= pos[q] /\ pos[q] <= pos[p]
  BY <1>1, PointLast
<1>3. pos[p] \in Nat /\ pos[q] \in Nat
  BY <1>1 DEF Grid, Placed
<1>4. pos[p] = pos[q]
  BY <1>2, <1>3
<1> QED  BY <1>1, <1>4 DEF Grid, Placed

\* What is found right of the points, and that every copy of v is behind one of them.
HitAt(v, lvl, pos, p) ==
  /\ PointAt(v, lvl, pos, lvl[p], p)
  /\ p \in alloc
  /\ node[p].right \in alloc
  /\ node[p].right # Null
  /\ lvl[node[p].right] = lvl[p]
  /\ pos[p] < pos[node[p].right]
  /\ node[node[p].right].val = v

\* Hits holds at most one node of each row, and one where the row has the value.
LEMMA HitsFound ==
  ASSUME NEW K, NEW N, NEW lvl, NEW pos, Grid(node, alloc, head, K, N, lvl, pos), NEW v \in Int
  PROVE  /\ \A p \in Hits(v) : HitAt(v, lvl, pos, p)
         /\ \A a \in alloc : 0 < pos[a] /\ node[a].val = v =>
              \E p \in Hits(v) : lvl[p] = lvl[a] /\ pos[node[p].right] <= pos[a]
         /\ \A p, q \in Hits(v) : lvl[p] = lvl[q] => p = q
<1> DEFINE ps == Points(v)
<1>1. PointsUpto(v, lvl, pos, K, ps)
  BY PointsFound
<1>2. Hits(v) = {p \in {ps[i] : i \in 1..Len(ps)} :
                   node[p].right # Null /\ node[node[p].right].val = v}
  BY DEF Hits
<1> HIDE DEF ps
<1>3. Hits(v) = {p \in {ps[i] : i \in 1..K} : node[p].right # Null /\ node[node[p].right].val = v}
  BY <1>1, <1>2 DEF PointsUpto
<1>4. ASSUME NEW p \in Hits(v) PROVE HitAt(v, lvl, pos, p)
  <2>1. PICK i \in 1..K : p = ps[i]
    BY <1>3
  <2>2. node[p].right # Null /\ node[node[p].right].val = v
    BY <1>3
  <2>3. PointAt(v, lvl, pos, i, p)
    BY <1>1, <2>1 DEF PointsUpto
  <2>4. lvl[p] = i /\ p \in alloc
    BY <2>3 DEF PointAt
  <2>5. node[p].right \in alloc /\ lvl[node[p].right] = lvl[p] /\ pos[p] < pos[node[p].right]
    BY <2>2, <2>4 DEF Grid, RightOk
  <2> QED  BY <2>2, <2>3, <2>4, <2>5 DEF HitAt
<1>5. ASSUME NEW a \in alloc, 0 < pos[a], node[a].val = v
      PROVE  \E p \in Hits(v) : lvl[p] = lvl[a] /\ pos[node[p].right] <= pos[a]
  <2>1. /\ a \in Addr /\ pos[a] \in Nat /\ lvl[a] \in Nat /\ 1 <= lvl[a] /\ lvl[a] <= K /\ K \in Nat
    BY DEF Grid, Placed
  <2>2. lvl[a] \in 1..K
    BY <2>1
  <2> DEFINE p == ps[lvl[a]]
             r == node[p].right
  <2>3. PointAt(v, lvl, pos, lvl[a], p)
    BY <1>1, <2>2 DEF PointsUpto
  <2> HIDE DEF p
  <2>4. ~ Before(v, pos, a)
    BY <1>5, <2>1 DEF Before
  <2>5. p \in alloc /\ lvl[p] = lvl[a] /\ p \in Addr /\ pos[p] \in Nat
    BY <2>3 DEF PointAt, Grid, Placed
  <2>6. pos[p] < pos[a]
    BY <2>1, <2>3, <2>4, <2>5, PointLast
  <2>7. r # Null /\ r \in alloc /\ pos[p] < pos[r] /\ pos[r] <= pos[a]
    BY <2>1, <2>5, <2>6 DEF Grid, RightOk
  <2>8. pos[r] \in Nat /\ node[r].val \in Int
    BY <2>7, CellFields DEF Grid, Placed
  <2>9. node[r].val <= node[a].val
    BY <2>5, <2>7, <2>8 DEF Grid, Sorted
  <2>10. node[r].val = v
    BY <1>5, <2>3, <2>7, <2>8, <2>9 DEF PointAt
  <2>11. p \in Hits(v)
    BY <1>3, <2>2, <2>7, <2>10 DEF p
  <2> QED  BY <2>5, <2>7, <2>11
<1>6. ASSUME NEW p \in Hits(v), NEW q \in Hits(v), lvl[p] = lvl[q] PROVE p = q
  <2>1. PointAt(v, lvl, pos, lvl[p], p) /\ PointAt(v, lvl, pos, lvl[p], q)
    BY <1>4, <1>6 DEF HitAt
  <2> QED  BY <2>1, PointUnique
<1> QED  BY <1>4, <1>5, <1>6

-----------------------------------------------------------------------------
(* A tower.                                                                *)

\* What Tower writes, with the points ps and the free addresses.
Towered(nd, v, k, ps) ==
  /\ nd \in [Addr -> Cells]
  /\ \A i \in 1..k :
       /\ nd[FreeAddr(i)].val = v
       /\ nd[FreeAddr(i)].right = node[ps[i]].right
       /\ nd[FreeAddr(i)].down = IF i = 1 THEN Null ELSE FreeAddr(i - 1)
       /\ nd[ps[i]].val = node[ps[i]].val
       /\ nd[ps[i]].right = FreeAddr(i)
       /\ nd[ps[i]].down = node[ps[i]].down
  /\ \A a \in Addr : (\A i \in 1..k : a # FreeAddr(i) /\ a # ps[i]) => nd[a] = node[a]

\* Tower writes the new nodes and the right links of the points, no more.
LEMMA TowerWrites ==
  ASSUME NEW K, NEW N, NEW lvl, NEW pos, Grid(node, alloc, head, K, N, lvl, pos),
         NEW v \in Int, NEW k \in 1..K, NEW m \in Nat, k <= m, Room(m)
  PROVE  Towered(Tower(v, k), v, k, Points(v))
<1> DEFINE ps == Points(v)
           nd == Tower(v, k)
<1>1. PointsUpto(v, lvl, pos, K, ps)
  BY PointsFound
<1>2. nd = [a \in Addr |->
              IF \E i \in 1..k : a = FreeAddr(i)
              THEN LET i == CHOOSE j \in 1..k : a = FreeAddr(j)
                   IN [val |-> v, right |-> node[ps[i]].right,
                       down |-> IF i = 1 THEN Null ELSE FreeAddr(i - 1)]
              ELSE IF \E i \in 1..k : a = ps[i]
              THEN [node[a] EXCEPT !.right = FreeAddr(CHOOSE i \in 1..k : a = ps[i])]
              ELSE node[a]]
  BY DEF Tower
<1> HIDE DEF ps, nd
<1>3. /\ K \in Nat /\ alloc \subseteq Addr /\ Null \notin Addr
      /\ \A i \in 1..k : i \in 1..m /\ i \in 1..K
      /\ \A i \in 1..k : i = 1 \/ i - 1 \in 1..k
  BY AddrNat DEF Grid, Placed
<1>4. /\ \A i \in 1..k : FreeAddr(i) \in Addr \ alloc
      /\ \A i, j \in 1..k : FreeAddr(i) = FreeAddr(j) => i = j
  <2>1. /\ \A i \in 1..m : FreeAddr(i) \in Addr \ alloc
        /\ \A i, j \in 1..m : FreeAddr(i) = FreeAddr(j) => i = j
    BY Fresh
  <2> QED  BY <1>3, <2>1
<1>5. /\ \A i \in 1..k : ps[i] \in alloc
      /\ \A i, j \in 1..k : ps[i] = ps[j] => i = j
  BY <1>1, <1>3 DEF PointsUpto, PointAt
<1>6. \A a \in Addr : /\ node[a] \in Cells
                      /\ node[a].right \in Addr \cup {Null}
                      /\ node[a].val \in Int
                      /\ node[a].down \in Addr \cup {Null}
  BY CellFields DEF Grid, Memory
<1>7. ASSUME NEW i \in 1..k
      PROVE  nd[FreeAddr(i)] = [val |-> v, right |-> node[ps[i]].right,
                                down |-> IF i = 1 THEN Null ELSE FreeAddr(i - 1)]
  <2>1. (CHOOSE j \in 1..k : FreeAddr(i) = FreeAddr(j)) = i
    BY <1>4
  <2>2. FreeAddr(i) \in Addr /\ \E j \in 1..k : FreeAddr(i) = FreeAddr(j)
    BY <1>4
  <2> QED  BY <1>2, <2>1, <2>2
<1>8. ASSUME NEW i \in 1..k
      PROVE  nd[ps[i]] = [node[ps[i]] EXCEPT !.right = FreeAddr(i)]
  <2>1. (CHOOSE j \in 1..k : ps[i] = ps[j]) = i
    BY <1>5
  <2>2. ps[i] \in Addr /\ (\E j \in 1..k : ps[i] = ps[j]) /\ ~ (\E j \in 1..k : ps[i] = FreeAddr(j))
    BY <1>3, <1>4, <1>5
  <2> QED  BY <1>2, <2>1, <2>2
<1>9. \A a \in Addr : (\A i \in 1..k : a # FreeAddr(i) /\ a # ps[i]) => nd[a] = node[a]
  BY <1>2
<1>10. ASSUME NEW i \in 1..k
       PROVE  /\ nd[FreeAddr(i)] \in Cells
              /\ nd[FreeAddr(i)].val = v
              /\ nd[FreeAddr(i)].right = node[ps[i]].right
              /\ nd[FreeAddr(i)].down = IF i = 1 THEN Null ELSE FreeAddr(i - 1)
  <2>1. node[ps[i]].right \in Addr \cup {Null}
    BY <1>3, <1>5, <1>6
  <2>2. (IF i = 1 THEN Null ELSE FreeAddr(i - 1)) \in Addr \cup {Null}
    BY <1>3, <1>4
  <2> DEFINE d == IF i = 1 THEN Null ELSE FreeAddr(i - 1)
  <2>3. nd[FreeAddr(i)] = [val |-> v, right |-> node[ps[i]].right, down |-> d]
    BY <1>7
  <2> HIDE DEF d
  <2>4. [val |-> v, right |-> node[ps[i]].right, down |-> d] \in Cells
    BY <2>1, <2>2 DEF Cells, d
  <2>5. nd[FreeAddr(i)].val = v /\ nd[FreeAddr(i)].right = node[ps[i]].right /\ nd[FreeAddr(i)].down = d
    BY <2>3
  <2>6. nd[FreeAddr(i)] \in Cells
    BY <2>3, <2>4
  <2> QED  BY <2>5, <2>6 DEF d
<1>11. ASSUME NEW i \in 1..k
       PROVE  /\ nd[ps[i]] \in Cells
              /\ nd[ps[i]].val = node[ps[i]].val
              /\ nd[ps[i]].right = FreeAddr(i)
              /\ nd[ps[i]].down = node[ps[i]].down
  <2>1. node[ps[i]] \in Cells /\ FreeAddr(i) \in Addr
    BY <1>3, <1>4, <1>5, <1>6
  <2>2. [node[ps[i]] EXCEPT !.right = FreeAddr(i)] =
          [val |-> node[ps[i]].val, right |-> FreeAddr(i), down |-> node[ps[i]].down]
    BY <2>1, Relinked
  <2>3. node[ps[i]].val \in Int /\ node[ps[i]].down \in Addr \cup {Null}
    BY <1>3, <1>5, <1>6
  <2>4. nd[ps[i]] = [val |-> node[ps[i]].val, right |-> FreeAddr(i), down |-> node[ps[i]].down]
    BY <1>8, <2>2
  <2>5. FreeAddr(i) \in Addr \cup {Null}
    BY <2>1
  <2>6. /\ nd[ps[i]].val = node[ps[i]].val /\ nd[ps[i]].right = FreeAddr(i)
        /\ nd[ps[i]].down = node[ps[i]].down
    BY <2>4
  <2>7. [val |-> node[ps[i]].val, right |-> FreeAddr(i), down |-> node[ps[i]].down] \in Cells
    BY <2>3, <2>5 DEF Cells
  <2>8. nd[ps[i]] \in Cells
    BY <2>4, <2>7
  <2> QED  BY <2>6, <2>8
<1>12. nd \in [Addr -> Cells]
  <2>1. \A a \in Addr : nd[a] \in Cells
    <3> TAKE a \in Addr
    <3>1. CASE \E i \in 1..k : a = FreeAddr(i)
      BY <1>10, <3>1
    <3>2. CASE \E i \in 1..k : a = ps[i]
      BY <1>11, <3>2
    <3>3. CASE \A i \in 1..k : a # FreeAddr(i) /\ a # ps[i]
      BY <1>6, <1>9, <3>3
    <3> QED  BY <3>1, <3>2, <3>3
  <2>2. nd = [a \in Addr |-> nd[a]]
    BY <1>2
  <2> QED  BY <2>1, <2>2
<1>13. Towered(nd, v, k, ps)
  BY <1>9, <1>10, <1>11, <1>12 DEF Towered
<1> QED  BY <1>13 DEF nd, ps

\* The places once v is in the k lowest rows: the nodes before v stay where
\* they are, the new tower comes next, and all others move on behind it.
New(k) == {FreeAddr(i) : i \in 1..k}
LvlWith(k, lvl) ==
  [a \in Addr |-> IF a \in New(k) THEN CHOOSE i \in 1..k : a = FreeAddr(i) ELSE lvl[a]]
PosWith(v, k, N, pos) ==
  [a \in Addr |-> IF a \in New(k) THEN N + 1
                  ELSE IF Before(v, pos, a) THEN pos[a] ELSE pos[a] + N + 2]

PlacedWith(v, k, N, lvl, pos, lvl2, pos2) ==
  /\ lvl2 \in [Addr -> Nat] /\ pos2 \in [Addr -> Nat]
  /\ \A i \in 1..k : lvl2[FreeAddr(i)] = i /\ pos2[FreeAddr(i)] = N + 1
  /\ \A a \in alloc : lvl2[a] = lvl[a]
  /\ \A a \in alloc : pos2[a] = IF Before(v, pos, a) THEN pos[a] ELSE pos[a] + N + 2

\* The two functions place the nodes in that way.
LEMMA PlacesWith ==
  ASSUME NEW K, NEW N, NEW lvl, NEW pos, Grid(node, alloc, head, K, N, lvl, pos),
         NEW v \in Int, NEW k \in 1..K, NEW m \in Nat, k <= m, Room(m)
  PROVE  PlacedWith(v, k, N, lvl, pos, LvlWith(k, lvl), PosWith(v, k, N, pos))
<1> DEFINE lvl2 == LvlWith(k, lvl)
           pos2 == PosWith(v, k, N, pos)
<1>1. /\ K \in Nat /\ N \in Nat /\ lvl \in [Addr -> Nat] /\ pos \in [Addr -> Nat]
      /\ alloc \subseteq Addr
      /\ \A i \in 1..k : i \in 1..m /\ i \in Nat
  BY DEF Grid, Placed
<1>2. /\ \A i \in 1..k : FreeAddr(i) \in Addr \ alloc
      /\ \A i, j \in 1..k : FreeAddr(i) = FreeAddr(j) => i = j
  <2>1. /\ \A i \in 1..m : FreeAddr(i) \in Addr \ alloc
        /\ \A i, j \in 1..m : FreeAddr(i) = FreeAddr(j) => i = j
    BY Fresh
  <2> QED  BY <1>1, <2>1
<1>3. ASSUME NEW a \in New(k)
      PROVE  /\ (CHOOSE i \in 1..k : a = FreeAddr(i)) \in 1..k
             /\ a = FreeAddr(CHOOSE i \in 1..k : a = FreeAddr(i))
  BY DEF New
<1>4. lvl2 \in [Addr -> Nat] /\ pos2 \in [Addr -> Nat]
  <2>1. \A a \in Addr : lvl2[a] \in Nat
    BY <1>1, <1>3 DEF LvlWith
  <2>2. \A a \in Addr : pos2[a] \in Nat
    BY <1>1 DEF PosWith
  <2> QED  BY <2>1, <2>2 DEF LvlWith, PosWith
<1>5. ASSUME NEW i \in 1..k PROVE lvl2[FreeAddr(i)] = i /\ pos2[FreeAddr(i)] = N + 1
  <2>1. FreeAddr(i) \in New(k) /\ FreeAddr(i) \in Addr
    BY <1>2 DEF New
  <2>2. (CHOOSE j \in 1..k : FreeAddr(i) = FreeAddr(j)) = i
    BY <1>2
  <2> QED  BY <2>1, <2>2 DEF LvlWith, PosWith
<1>6. ASSUME NEW a \in alloc
      PROVE  lvl2[a] = lvl[a] /\ pos2[a] = IF Before(v, pos, a) THEN pos[a] ELSE pos[a] + N + 2
  <2>1. a \notin New(k) /\ a \in Addr
    BY <1>1, <1>2 DEF New
  <2> QED  BY <2>1 DEF LvlWith, PosWith
<1> HIDE DEF lvl2, pos2
<1>7. PlacedWith(v, k, N, lvl, pos, lvl2, pos2)
  BY <1>4, <1>5, <1>6 DEF PlacedWith
<1> QED  BY <1>7 DEF lvl2, pos2

\* With the tower the list is a grid again, with these places.
LEMMA TowerGrid ==
  ASSUME NEW K, NEW N, NEW lvl, NEW pos, Grid(node, alloc, head, K, N, lvl, pos),
         NEW v \in Int, NEW k \in 1..K, NEW m \in Nat, k <= m, Room(m),
         NEW nd, Towered(nd, v, k, Points(v))
  PROVE  Grid(nd, alloc \cup New(k), head, K, 2 * N + 2, LvlWith(k, lvl), PosWith(v, k, N, pos))
<1> DEFINE lvl2 == LvlWith(k, lvl)
           pos2 == PosWith(v, k, N, pos)
           ps == Points(v)
           al == alloc \cup New(k)
<1>1. PlacedWith(v, k, N, lvl, pos, lvl2, pos2) /\ Towered(nd, v, k, ps)
  BY PlacesWith
<1>2. PointsUpto(v, lvl, pos, K, ps)
  BY PointsFound
<1> HIDE DEF lvl2, pos2, ps
<1>3. /\ K \in Nat \ {0} /\ N \in Nat /\ lvl \in [Addr -> Nat] /\ pos \in [Addr -> Nat]
      /\ alloc \subseteq Addr /\ head \in alloc /\ lvl[head] = K /\ pos[head] = 0
      /\ \A a \in alloc : 1 <= lvl[a] /\ lvl[a] <= K /\ pos[a] <= N
      /\ \A a, b \in alloc : lvl[a] = lvl[b] /\ pos[a] = pos[b] => a = b
      /\ \A i \in 1..k : i \in 1..m /\ i \in 1..K /\ i \in Nat /\ 1 <= i /\ i <= K
      /\ \A i \in 1..k : i = 1 \/ i - 1 \in 1..k
      /\ Null \notin Addr
  BY AddrNat DEF Grid, Placed
<1>4. /\ \A i \in 1..k : FreeAddr(i) \in Addr \ alloc
      /\ \A i, j \in 1..k : FreeAddr(i) = FreeAddr(j) => i = j
  <2>1. /\ \A i \in 1..m : FreeAddr(i) \in Addr \ alloc
        /\ \A i, j \in 1..m : FreeAddr(i) = FreeAddr(j) => i = j
    BY Fresh
  <2> QED  BY <1>3, <2>1
<1>5. \A i \in 1..k : /\ PointAt(v, lvl, pos, i, ps[i])
                      /\ ps[i] \in alloc /\ lvl[ps[i]] = i /\ Before(v, pos, ps[i])
  BY <1>2, <1>3 DEF PointsUpto, PointAt
<1>6. \A a \in alloc : /\ a \in Addr /\ lvl2[a] = lvl[a] /\ lvl[a] \in Nat
                       /\ pos[a] \in Nat /\ pos[a] <= N /\ pos2[a] \in Nat
                       /\ Before(v, pos, a) => pos2[a] = pos[a] /\ pos2[a] <= N
                       /\ ~ Before(v, pos, a) => pos2[a] = pos[a] + N + 2 /\ N + 2 <= pos2[a]
                       /\ node[a].val \in Int
  <2> TAKE a \in alloc
  <2>1. a \in Addr /\ lvl2[a] = lvl[a] /\ lvl[a] \in Nat /\ pos[a] \in Nat /\ pos[a] <= N
    BY <1>1, <1>3 DEF PlacedWith
  <2>2. pos2[a] \in Nat
    BY <1>1, <2>1 DEF PlacedWith
  <2>3. pos2[a] = IF Before(v, pos, a) THEN pos[a] ELSE pos[a] + N + 2
    BY <1>1 DEF PlacedWith
  <2>4. node[a].val \in Int
    BY <2>1, CellFields DEF Grid
  <2> QED  BY <1>3, <2>1, <2>2, <2>3, <2>4
<1>7. \A i \in 1..k : FreeAddr(i) \in Addr /\ lvl2[FreeAddr(i)] = i /\ pos2[FreeAddr(i)] = N + 1
  BY <1>1, <1>4 DEF PlacedWith
<1>8. \A a, b \in alloc : /\ pos2[a] < pos2[b] <=> pos[a] < pos[b]
                          /\ pos2[a] <= pos2[b] <=> pos[a] <= pos[b]
  <2> TAKE a, b \in alloc
  <2>1. /\ pos[a] <= pos[b] /\ Before(v, pos, b) => Before(v, pos, a)
        /\ pos[b] <= pos[a] /\ Before(v, pos, a) => Before(v, pos, b)
    BY BeforeDown
  <2> QED  BY <1>3, <1>6, <2>1
<1>9. \A a \in al : a \in alloc \/ \E i \in 1..k : a = FreeAddr(i)
  BY DEF New
<1>10. \A a \in alloc : nd[a].val = node[a].val /\ nd[a].down = node[a].down
  <2> TAKE a \in alloc
  <2>1. CASE \E i \in 1..k : a = ps[i]
    BY <1>1, <2>1 DEF Towered
  <2>2. CASE \A i \in 1..k : a # ps[i]
    BY <1>1, <1>4, <1>6, <2>2 DEF Towered
  <2> QED  BY <2>1, <2>2
<1>11. Memory(nd, al)
  <2>1. nd \in [Addr -> Cells]
    BY <1>1 DEF Towered
  <2>2. ASSUME NEW a \in Addr \ al PROVE nd[a] = Blank
    <3>1. a \in Addr \ alloc /\ \A i \in 1..k : a # FreeAddr(i) /\ a # ps[i]
      BY <1>5 DEF New
    <3>2. nd[a] = node[a]
      BY <1>1, <3>1 DEF Towered
    <3> QED  BY <3>1, <3>2 DEF Grid, Memory
  <2> QED  BY <2>1, <2>2 DEF Memory
<1>12. Placed(al, head, K, 2 * N + 2, lvl2, pos2)
  <2>1. al \subseteq Addr
    BY <1>3, <1>4, <1>9
  <2>2. lvl2 \in [Addr -> Nat] /\ pos2 \in [Addr -> Nat]
    BY <1>1 DEF PlacedWith
  <2>3. lvl2[head] = K /\ pos2[head] = 0 /\ head \in al
    BY <1>3, <1>6 DEF Before
  <2>4. ASSUME NEW a \in al PROVE 1 <= lvl2[a] /\ lvl2[a] <= K /\ pos2[a] <= 2 * N + 2
    <3>1. CASE a \in alloc
      BY <1>3, <1>6, <3>1
    <3>2. CASE \E i \in 1..k : a = FreeAddr(i)
      BY <1>3, <1>7, <3>2
    <3> QED  BY <1>9, <3>1, <3>2
  <2>5. ASSUME NEW a \in al, NEW b \in al, lvl2[a] = lvl2[b], pos2[a] = pos2[b] PROVE a = b
    <3>1. CASE a \in alloc /\ b \in alloc
      <4>1. pos[a] = pos[b]
        BY <1>6, <1>8, <2>5, <3>1
      <4> QED  BY <1>3, <1>6, <2>5, <3>1, <4>1
    <3>2. CASE (\E i \in 1..k : a = FreeAddr(i)) /\ (\E i \in 1..k : b = FreeAddr(i))
      BY <1>7, <2>5, <3>2
    <3>3. ASSUME NEW c \in alloc, NEW i \in 1..k, pos2[c] = pos2[FreeAddr(i)] PROVE FALSE
      BY <1>3, <1>6, <1>7, <3>3
    <3> QED  BY <1>9, <2>5, <3>1, <3>2, <3>3
  <2>6. K \in Nat \ {0} /\ 2 * N + 2 \in Nat
    BY <1>3
  <2> HIDE DEF al
  <2> QED  BY <2>1, <2>2, <2>3, <2>4, <2>5, <2>6 DEF Placed
<1>13. DownOk(nd, al, lvl2, pos2)
  <2> SUFFICES ASSUME NEW a \in al
               PROVE  IF lvl2[a] = 1 THEN nd[a].down = Null
                      ELSE /\ nd[a].down \in al
                           /\ lvl2[nd[a].down] = lvl2[a] - 1
                           /\ pos2[nd[a].down] = pos2[a]
    BY DEF DownOk
  <2>1. CASE a \in alloc
    <3>1. lvl2[a] = lvl[a] /\ nd[a].down = node[a].down
      BY <1>6, <1>10, <2>1
    <3>2. CASE lvl[a] = 1
      BY <2>1, <3>1, <3>2 DEF Grid, DownOk
    <3>3. CASE lvl[a] # 1
      <4>1. node[a].down \in alloc /\ lvl[node[a].down] = lvl[a] - 1 /\ pos[node[a].down] = pos[a]
        BY <2>1, <3>3 DEF Grid, DownOk
      <4>2. pos2[node[a].down] = pos2[a]
        BY <1>6, <1>8, <2>1, <4>1
      <4> QED  BY <1>6, <3>1, <3>3, <4>1, <4>2
    <3> QED  BY <3>2, <3>3
  <2>2. ASSUME NEW i \in 1..k, a = FreeAddr(i)
        PROVE  IF lvl2[a] = 1 THEN nd[a].down = Null
               ELSE /\ nd[a].down \in al
                    /\ lvl2[nd[a].down] = lvl2[a] - 1
                    /\ pos2[nd[a].down] = pos2[a]
    <3>1. lvl2[a] = i /\ pos2[a] = N + 1 /\ nd[a].down = IF i = 1 THEN Null ELSE FreeAddr(i - 1)
      BY <1>1, <1>7, <2>2 DEF Towered
    <3>2. CASE i = 1
      BY <3>1, <3>2
    <3>3. CASE i # 1
      <4>1. i - 1 \in 1..k /\ FreeAddr(i - 1) \in al
        BY <1>3, <3>3 DEF New
      <4> QED  BY <1>7, <3>1, <3>3, <4>1
    <3> QED  BY <3>2, <3>3
  <2> QED  BY <1>9, <2>1, <2>2
<1>14. Sorted(nd, al, pos2)
  <2> SUFFICES ASSUME NEW a \in al, NEW b \in al, 0 < pos2[a], pos2[a] <= pos2[b]
               PROVE  nd[a].val <= nd[b].val
    BY DEF Sorted
  <2>1. \A c \in alloc : /\ Before(v, pos, c) /\ 0 < pos2[c] => node[c].val < v
                         /\ ~ Before(v, pos, c) => v <= node[c].val
    BY <1>6 DEF Before
  <2>2. \A i \in 1..k : nd[FreeAddr(i)].val = v
    BY <1>1 DEF Towered
  <2>3. CASE a \in alloc /\ b \in alloc
    <3>1. 0 < pos[a] /\ pos[a] <= pos[b]
      BY <1>6, <1>8, <2>3 DEF Before
    <3>2. node[a].val <= node[b].val
      BY <2>3, <3>1 DEF Grid, Sorted
    <3> QED  BY <1>10, <2>3, <3>2
  <2>4. CASE a \in alloc /\ \E i \in 1..k : b = FreeAddr(i)
    <3>1. Before(v, pos, a)
      BY <1>3, <1>6, <1>7, <2>4
    <3> QED  BY <1>6, <1>10, <2>1, <2>2, <2>4, <3>1
  <2>5. CASE (\E i \in 1..k : a = FreeAddr(i)) /\ b \in alloc
    <3>1. ~ Before(v, pos, b)
      BY <1>3, <1>6, <1>7, <2>5
    <3> QED  BY <1>6, <1>10, <2>1, <2>2, <2>5, <3>1
  <2>6. CASE (\E i \in 1..k : a = FreeAddr(i)) /\ (\E i \in 1..k : b = FreeAddr(i))
    BY <2>2, <2>6
  <2> QED  BY <1>9, <2>3, <2>4, <2>5, <2>6

<1>15. RightOk(nd, al, lvl2, pos2)
  <2> DEFINE Ok(a) ==
               IF nd[a].right = Null
               THEN \A c \in al : lvl2[c] = lvl2[a] => pos2[c] <= pos2[a]
               ELSE /\ nd[a].right \in al
                    /\ lvl2[nd[a].right] = lvl2[a]
                    /\ pos2[a] < pos2[nd[a].right]
                    /\ \A c \in al : lvl2[c] = lvl2[a] /\ pos2[a] < pos2[c]
                         => pos2[nd[a].right] <= pos2[c]
  <2>1. ASSUME NEW i \in 1..k, NEW c \in alloc, lvl[c] = i
        PROVE  /\ Before(v, pos, c) => pos[c] <= pos[ps[i]]
               /\ ~ Before(v, pos, c) => pos[ps[i]] < pos[c]
    <3>1. Before(v, pos, c) <=> pos[c] <= pos[ps[i]]
      BY <1>5, <2>1, PointLast
    <3> QED  BY <1>5, <1>6, <3>1
  <2>2. ASSUME NEW i \in 1..k PROVE Ok(FreeAddr(i))
    <3> DEFINE a == FreeAddr(i)
               p == ps[i]
               r == node[p].right
    <3>1. /\ nd[a].right = r /\ lvl2[a] = i /\ pos2[a] = N + 1
          /\ p \in alloc /\ lvl[p] = i /\ Before(v, pos, p)
          /\ r # Null => node[r].val >= v
      BY <1>1, <1>5, <1>7 DEF Towered, PointAt
    <3>2. ASSUME NEW c \in al, lvl2[c] = i, N + 1 < pos2[c]
          PROVE  c \in alloc /\ lvl[c] = i /\ pos[p] < pos[c]
      <4>1. c \in alloc
        BY <1>3, <1>7, <1>9, <3>2
      <4>2. lvl[c] = i /\ ~ Before(v, pos, c)
        BY <1>3, <1>6, <3>2, <4>1
      <4> QED  BY <2>1, <4>1, <4>2
    <3>3. CASE r = Null
      <4>1. \A c \in al : ~ (lvl2[c] = i /\ N + 1 < pos2[c])
        <5> SUFFICES ASSUME NEW c \in al, lvl2[c] = i, N + 1 < pos2[c] PROVE FALSE
          OBVIOUS
        <5>1. c \in alloc /\ lvl[c] = lvl[p] /\ pos[p] < pos[c]
          BY <3>1, <3>2
        <5>2. pos[c] <= pos[p]
          BY <3>1, <3>3, <5>1 DEF Grid, RightOk
        <5> QED  BY <1>6, <3>1, <5>1, <5>2
      <4>2. \A c \in al : pos2[c] \in Nat
        BY <1>3, <1>6, <1>7, <1>9
      <4> QED  BY <1>3, <3>1, <3>3, <4>1, <4>2
    <3>4. CASE r # Null
      <4>1. /\ r \in alloc /\ lvl[r] = i /\ pos[p] < pos[r]
            /\ \A c \in alloc : lvl[c] = i /\ pos[p] < pos[c] => pos[r] <= pos[c]
        BY <3>1, <3>4 DEF Grid, RightOk
      <4>2. ~ Before(v, pos, r)
        BY <1>6, <3>1, <3>4, <4>1 DEF Before
      <4>3. r \in al /\ lvl2[r] = i /\ N + 1 < pos2[r]
        BY <1>3, <1>6, <4>1, <4>2
      <4>4. ASSUME NEW c \in al, lvl2[c] = i, N + 1 < pos2[c] PROVE pos2[r] <= pos2[c]
        <5>1. c \in alloc /\ pos[r] <= pos[c]
          BY <3>2, <4>1, <4>4
        <5> QED  BY <1>8, <4>1, <5>1
      <4> HIDE DEF a, r, al
      <4>5. Ok(a)
        BY <3>1, <3>4, <4>3, <4>4
      <4> QED  BY <4>5 DEF a
    <3> QED  BY <3>3, <3>4
  <2>3. ASSUME NEW i \in 1..k PROVE Ok(ps[i])
    <3> DEFINE p == ps[i]
               r == FreeAddr(i)
    <3>1. /\ nd[p].right = r /\ r # Null /\ r \in al /\ lvl2[r] = i /\ pos2[r] = N + 1
          /\ p \in alloc /\ lvl[p] = i /\ Before(v, pos, p)
      BY <1>1, <1>3, <1>4, <1>5, <1>7 DEF Towered, New
    <3>2. lvl2[p] = i /\ pos2[p] < N + 1
      BY <1>3, <1>6, <3>1
    <3>3. ASSUME NEW c \in al, lvl2[c] = i, pos2[p] < pos2[c] PROVE N + 1 <= pos2[c]
      <4>1. CASE c \in alloc
        <5>1. pos[p] < pos[c] /\ lvl[c] = i
          BY <1>6, <1>8, <3>1, <3>3, <4>1
        <5>2. ~ Before(v, pos, c)
          BY <1>6, <2>1, <3>1, <4>1, <5>1
        <5> QED  BY <1>3, <1>6, <4>1, <5>2
      <4>2. CASE \E j \in 1..k : c = FreeAddr(j)
        BY <1>3, <1>7, <4>2
      <4> QED  BY <1>9, <4>1, <4>2
    <3> HIDE DEF p, r, al
    <3>4. Ok(p)
      BY <3>1, <3>2, <3>3
    <3> QED  BY <3>4 DEF p
  <2>4. ASSUME NEW a \in alloc, \A i \in 1..k : a # ps[i] PROVE Ok(a)
    <3> DEFINE r == node[a].right
    <3>1. nd[a].right = r
      BY <1>1, <1>4, <1>6, <2>4 DEF Towered
    <3>2. lvl2[a] = lvl[a] /\ pos2[a] \in Nat
      BY <1>6
    <3>3. ASSUME NEW i \in 1..k, lvl[a] = i, pos2[a] < N + 1
          PROVE  r # Null /\ pos2[r] < N + 1
      <4> DEFINE p == ps[i]
      <4>1. Before(v, pos, a)
        BY <1>3, <1>6, <3>3
      <4>2. PointAt(v, lvl, pos, i, p) /\ p \in alloc /\ lvl[p] = i /\ a # p
        BY <1>5, <2>4
      <4>3. pos[a] <= pos[p]
        BY <2>1, <3>3, <4>1
      <4> HIDE DEF p
      <4>4. pos[a] < pos[p]
        BY <1>3, <1>6, <3>3, <4>2, <4>3
      <4>5. r # Null /\ r \in alloc /\ lvl[r] = i /\ pos[r] <= pos[p]
        BY <1>6, <3>3, <4>2, <4>4 DEF Grid, RightOk
      <4>6. Before(v, pos, r)
        BY <4>2, <4>5, BeforeDown DEF PointAt
      <4> QED  BY <1>3, <1>6, <4>5, <4>6
    <3>4. CASE r = Null
      <4>1. ASSUME NEW c \in al, lvl2[c] = lvl2[a] PROVE pos2[c] <= pos2[a]
        <5>1. CASE c \in alloc
          <6>1. pos[c] <= pos[a]
            BY <1>6, <3>4, <4>1, <5>1 DEF Grid, RightOk
          <6> QED  BY <1>8, <5>1, <6>1
        <5>2. ASSUME NEW i \in 1..k, c = FreeAddr(i) PROVE pos2[c] <= pos2[a]
          <6>1. lvl[a] = i /\ pos2[c] = N + 1
            BY <1>7, <3>2, <4>1, <5>2
          <6>2. ~ (pos2[a] < N + 1)
            BY <3>3, <3>4, <6>1
          <6> QED  BY <1>3, <3>2, <6>1, <6>2
        <5> QED  BY <1>9, <5>1, <5>2
      <4> QED  BY <3>1, <3>4, <4>1
    <3>5. CASE r # Null
      <4>1. /\ r \in alloc /\ lvl[r] = lvl[a] /\ pos[a] < pos[r]
            /\ \A c \in alloc : lvl[c] = lvl[a] /\ pos[a] < pos[c] => pos[r] <= pos[c]
        BY <3>5 DEF Grid, RightOk
      <4>2. r \in al /\ lvl2[r] = lvl2[a] /\ pos2[a] < pos2[r] /\ pos2[r] \in Nat
        BY <1>6, <1>8, <4>1
      <4>3. ASSUME NEW c \in al, lvl2[c] = lvl2[a], pos2[a] < pos2[c] PROVE pos2[r] <= pos2[c]
        <5>1. CASE c \in alloc
          <6>1. pos[r] <= pos[c]
            BY <1>6, <1>8, <4>1, <4>3, <5>1
          <6> QED  BY <1>8, <4>1, <5>1, <6>1
        <5>2. ASSUME NEW i \in 1..k, c = FreeAddr(i) PROVE pos2[r] <= pos2[c]
          <6>1. lvl[a] = i /\ pos2[c] = N + 1
            BY <1>7, <3>2, <4>3, <5>2
          <6>2. pos2[r] < N + 1
            BY <3>3, <4>3, <6>1
          <6> QED  BY <1>3, <4>2, <6>1, <6>2
        <5> QED  BY <1>9, <5>1, <5>2
      <4> HIDE DEF r, al
      <4> QED  BY <3>1, <3>5, <4>2, <4>3
    <3> QED  BY <3>4, <3>5
  <2>5. \A a \in al : Ok(a)
    <3> HIDE DEF Ok, al
    <3>1. ASSUME NEW a \in al PROVE Ok(a)
      <4>1. CASE \E i \in 1..k : a = FreeAddr(i)
        BY <2>2, <4>1
      <4>2. CASE \E i \in 1..k : a = ps[i]
        BY <2>3, <4>2
      <4>3. CASE a \in alloc /\ \A i \in 1..k : a # ps[i]
        BY <2>4, <4>3
      <4> QED  BY <1>9, <4>1, <4>2, <4>3
    <3> QED  BY <3>1
  <2> HIDE DEF al
  <2> QED  BY <2>5 DEF RightOk
<1> HIDE DEF al
<1>16. Grid(nd, al, head, K, 2 * N + 2, lvl2, pos2)
  BY <1>11, <1>12, <1>13, <1>14, <1>15 DEF Grid
<1> QED  BY <1>16 DEF al, lvl2, pos2

-----------------------------------------------------------------------------
(* A row on top.                                                           *)

RowLvl(lvl, K, x, y) == [a \in Addr |-> IF a = x \/ a = y THEN K + 1 ELSE lvl[a]]
RowPos(pos, t, x, y) == [a \in Addr |-> IF a = x THEN pos[t] ELSE IF a = y THEN 0 ELSE pos[a]]

\* nd2 is nd with a copy x of the top t of a tower and the head y of a new row.
RowWritten(nd2, nd, hd, t, x, y) ==
  nd2 = [nd EXCEPT ![x] = [val |-> nd[t].val, right |-> Null, down |-> t],
                   ![y] = [val |-> 0, right |-> x, down |-> hd]]

\* That keeps the grid.
LEMMA RowGrid ==
  ASSUME NEW nd, NEW al, NEW hd, NEW K, NEW N, NEW lvl, NEW pos, Grid(nd, al, hd, K, N, lvl, pos),
         NEW t \in al, lvl[t] = K, 0 < pos[t],
         NEW x \in Addr \ al, NEW y \in Addr \ al, x # y,
         NEW nd2, RowWritten(nd2, nd, hd, t, x, y)
  PROVE  Grid(nd2, al \cup {x, y}, y, K + 1, N, RowLvl(lvl, K, x, y), RowPos(pos, t, x, y))
<1> DEFINE lvl2 == RowLvl(lvl, K, x, y)
           pos2 == RowPos(pos, t, x, y)
           al2 == al \cup {x, y}
<1>1. /\ K \in Nat \ {0} /\ N \in Nat /\ lvl \in [Addr -> Nat] /\ pos \in [Addr -> Nat]
      /\ al \subseteq Addr /\ hd \in al /\ lvl[hd] = K /\ pos[hd] = 0
      /\ \A a \in al : 1 <= lvl[a] /\ lvl[a] <= K /\ pos[a] <= N
      /\ \A a, b \in al : lvl[a] = lvl[b] /\ pos[a] = pos[b] => a = b
      /\ Null \notin Addr /\ nd \in [Addr -> Cells]
  BY AddrNat DEF Grid, Placed, Memory
<1>2. /\ lvl2 \in [Addr -> Nat] /\ pos2 \in [Addr -> Nat]
      /\ lvl2[x] = K + 1 /\ lvl2[y] = K + 1 /\ pos2[x] = pos[t] /\ pos2[y] = 0
      /\ \A a \in al : lvl2[a] = lvl[a] /\ pos2[a] = pos[a]
  BY <1>1 DEF RowLvl, RowPos
<1> HIDE DEF lvl2, pos2
<1>3. /\ nd2[x] = [val |-> nd[t].val, right |-> Null, down |-> t]
      /\ nd2[y] = [val |-> 0, right |-> x, down |-> hd]
      /\ \A a \in Addr : a # x /\ a # y => nd2[a] = nd[a]
      /\ nd2 = [a \in Addr |-> nd2[a]]
  BY <1>1 DEF RowWritten
<1>4. /\ nd2[x].val = nd[t].val /\ nd2[x].right = Null /\ nd2[x].down = t
      /\ nd2[y].right = x /\ nd2[y].down = hd
      /\ \A a \in al : nd2[a] = nd[a]
  BY <1>1, <1>3
<1>5. \A a \in al2 : a \in al \/ a = x \/ a = y
  OBVIOUS
<1>6. \A a \in al : /\ a \in Addr /\ pos[a] \in Nat /\ lvl[a] \in Nat /\ lvl[a] # K + 1
                    /\ nd[a].val \in Int
  BY <1>1, CellFields DEF Grid
<1>7. Memory(nd2, al2)
  <2>1. nd2[x] \in Cells /\ nd2[y] \in Cells
    <3>1. nd[t].val \in Int /\ t \in Addr \cup {Null} /\ hd \in Addr \cup {Null}
      BY <1>1, <1>6
    <3> QED  BY <1>3, <3>1 DEF Cells
  <2>2. \A a \in Addr : nd2[a] \in Cells
    BY <1>1, <1>3, <2>1
  <2>3. \A a \in Addr \ al2 : nd2[a] = Blank
    BY <1>3 DEF Grid, Memory
  <2> HIDE DEF al2
  <2> QED  BY <1>3, <2>2, <2>3 DEF Memory
<1>8. Placed(al2, y, K + 1, N, lvl2, pos2)
  <2>1. \A a \in al2 : 1 <= lvl2[a] /\ lvl2[a] <= K + 1 /\ pos2[a] <= N
    BY <1>1, <1>2, <1>5
  <2>2. ASSUME NEW a \in al2, NEW b \in al2, lvl2[a] = lvl2[b], pos2[a] = pos2[b] PROVE a = b
    BY <1>1, <1>2, <1>5, <1>6, <2>2
  <2>3. al2 \subseteq Addr /\ y \in al2 /\ K + 1 \in Nat \ {0} /\ N \in Nat
    BY <1>1
  <2> HIDE DEF al2
  <2> QED  BY <1>2, <2>1, <2>2, <2>3 DEF Placed
<1>9. RightOk(nd2, al2, lvl2, pos2)
  <2> DEFINE Ok(a) ==
               IF nd2[a].right = Null
               THEN \A c \in al2 : lvl2[c] = lvl2[a] => pos2[c] <= pos2[a]
               ELSE /\ nd2[a].right \in al2
                    /\ lvl2[nd2[a].right] = lvl2[a]
                    /\ pos2[a] < pos2[nd2[a].right]
                    /\ \A c \in al2 : lvl2[c] = lvl2[a] /\ pos2[a] < pos2[c]
                         => pos2[nd2[a].right] <= pos2[c]
  <2>1. \A c \in al2 : lvl2[c] = K + 1 => c = x \/ c = y
    BY <1>2, <1>5, <1>6
  <2>2. Ok(x)
    BY <1>1, <1>2, <1>4, <2>1
  <2>3. Ok(y)
    <3>1. x \in al2 /\ x # Null
      BY <1>1
    <3>2. \A c \in al2 : lvl2[c] = K + 1 /\ 0 < pos2[c] => pos2[x] <= pos2[c]
      BY <1>1, <1>2, <2>1
    <3>3. 0 < pos2[x] /\ lvl2[x] = lvl2[y] /\ pos2[y] = 0 /\ lvl2[y] = K + 1
      BY <1>2
    <3> HIDE DEF al2
    <3> QED  BY <1>4, <3>1, <3>2, <3>3
  <2>4. ASSUME NEW a \in al PROVE Ok(a)
    <3>1. nd2[a].right = nd[a].right /\ lvl2[a] = lvl[a] /\ pos2[a] = pos[a]
      BY <1>2, <1>4
    <3>2. \A c \in al2 : lvl2[c] = lvl2[a] => c \in al /\ lvl[c] = lvl[a] /\ pos2[c] = pos[c]
      BY <1>2, <1>5, <1>6
    <3>3. CASE nd[a].right = Null
      <4>1. \A c \in al : lvl[c] = lvl[a] => pos[c] <= pos[a]
        BY <3>3 DEF Grid, RightOk
      <4> QED  BY <3>1, <3>2, <3>3, <4>1
    <3>4. CASE nd[a].right # Null
      <4>1. /\ nd[a].right \in al /\ lvl[nd[a].right] = lvl[a] /\ pos[a] < pos[nd[a].right]
            /\ \A c \in al : lvl[c] = lvl[a] /\ pos[a] < pos[c] => pos[nd[a].right] <= pos[c]
        BY <3>4 DEF Grid, RightOk
      <4>2. nd[a].right \in al2 /\ lvl2[nd[a].right] = lvl[a] /\ pos2[nd[a].right] = pos[nd[a].right]
        BY <1>2, <4>1
      <4> HIDE DEF al2
      <4> QED  BY <3>1, <3>2, <3>4, <4>1, <4>2
    <3> QED  BY <3>3, <3>4
  <2>5. \A a \in al2 : Ok(a)
    <3> HIDE DEF Ok, al2
    <3> QED  BY <1>5, <2>2, <2>3, <2>4
  <2> HIDE DEF al2
  <2> QED  BY <2>5 DEF RightOk
<1>10. DownOk(nd2, al2, lvl2, pos2)
  <2> SUFFICES ASSUME NEW a \in al2
               PROVE  IF lvl2[a] = 1 THEN nd2[a].down = Null
                      ELSE /\ nd2[a].down \in al2
                           /\ lvl2[nd2[a].down] = lvl2[a] - 1
                           /\ pos2[nd2[a].down] = pos2[a]
    BY DEF DownOk
  <2>1. CASE a \in al
    <3>1. IF lvl[a] = 1 THEN nd[a].down = Null
          ELSE nd[a].down \in al /\ lvl[nd[a].down] = lvl[a] - 1 /\ pos[nd[a].down] = pos[a]
      BY <2>1 DEF Grid, DownOk
    <3> QED  BY <1>2, <1>4, <2>1, <3>1
  <2>2. CASE a = x
    BY <1>1, <1>2, <1>4, <2>2
  <2>3. CASE a = y
    BY <1>1, <1>2, <1>4, <2>3
  <2> QED  BY <1>5, <2>1, <2>2, <2>3
<1>11. Sorted(nd2, al2, pos2)
  <2> SUFFICES ASSUME NEW a \in al2, NEW b \in al2, 0 < pos2[a], pos2[a] <= pos2[b]
               PROVE  nd2[a].val <= nd2[b].val
    BY DEF Sorted
  <2> DEFINE at(c) == IF c = x THEN t ELSE c
  <2>1. a # y /\ b # y
    BY <1>1, <1>2, <1>5, <1>6
  <2>2. \A c \in al2 \ {y} : at(c) \in al /\ pos2[c] = pos[at(c)] /\ nd2[c].val = nd[at(c)].val
    BY <1>2, <1>4, <1>5
  <2> HIDE DEF at, al2
  <2>3. nd[at(a)].val <= nd[at(b)].val
    BY <2>1, <2>2 DEF Grid, Sorted
  <2> QED  BY <2>1, <2>2, <2>3
<1> HIDE DEF al2
<1>12. Grid(nd2, al2, y, K + 1, N, lvl2, pos2)
  BY <1>7, <1>8, <1>9, <1>10, <1>11 DEF Grid
<1> QED  BY <1>12 DEF al2, lvl2, pos2

-----------------------------------------------------------------------------
(* The first copies of a value go.                                         *)

Gone(v) == {node[p].right : p \in Hits(v)}

\* What erase writes.
Erased(nd, v) ==
  /\ nd \in [Addr -> Cells]
  /\ \A a \in Addr : a \in Gone(v) => nd[a] = Blank
  /\ \A a \in Addr : a \notin Gone(v) =>
       /\ nd[a].val = node[a].val
       /\ nd[a].down = node[a].down
       /\ nd[a].right = IF a \in Hits(v) THEN node[node[a].right].right ELSE node[a].right
  /\ \A a \in Addr \ alloc : nd[a] = Blank

\* Of each row the node behind the hit goes, and no other.
LEMMA GoneFound ==
  ASSUME NEW K, NEW N, NEW lvl, NEW pos, Grid(node, alloc, head, K, N, lvl, pos), NEW v \in Int
  PROVE  /\ \A g \in Gone(v) : g \in alloc /\ 0 < pos[g] /\ node[g].val = v
         /\ \A g, c \in Gone(v) : lvl[g] = lvl[c] => g = c
         /\ \A g \in Gone(v) : \A a \in alloc :
              0 < pos[a] /\ node[a].val = v /\ lvl[a] = lvl[g] => pos[g] <= pos[a]
         /\ \A p \in Hits(v) : node[p].right \in Gone(v) /\ p \notin Gone(v)
         /\ \A a \in alloc : node[a].right \in Gone(v) => a \in Hits(v)
<1>1. /\ \A p \in Hits(v) : HitAt(v, lvl, pos, p)
      /\ \A a \in alloc : 0 < pos[a] /\ node[a].val = v =>
           \E p \in Hits(v) : lvl[p] = lvl[a] /\ pos[node[p].right] <= pos[a]
      /\ \A p, q \in Hits(v) : lvl[p] = lvl[q] => p = q
  BY HitsFound
<1>2. \A a \in alloc : a \in Addr /\ pos[a] \in Nat /\ lvl[a] \in Nat /\ node[a].val \in Int
  BY CellFields DEF Grid, Placed
<1>3. \A g \in Gone(v) : \E p \in Hits(v) : g = node[p].right
  BY DEF Gone
<1>4. ASSUME NEW g \in Gone(v) PROVE g \in alloc /\ 0 < pos[g] /\ node[g].val = v
  <2>1. PICK p \in Hits(v) : g = node[p].right
    BY <1>3
  <2> QED  BY <1>1, <1>2, <2>1 DEF HitAt
<1>5. ASSUME NEW g \in Gone(v), NEW c \in Gone(v), lvl[g] = lvl[c] PROVE g = c
  <2>1. PICK p \in Hits(v) : g = node[p].right
    BY <1>3
  <2>2. PICK q \in Hits(v) : c = node[q].right
    BY <1>3
  <2>3. lvl[p] = lvl[q]
    BY <1>1, <1>5, <2>1, <2>2 DEF HitAt
  <2> QED  BY <1>1, <2>1, <2>2, <2>3
<1>6. ASSUME NEW g \in Gone(v), NEW a \in alloc, 0 < pos[a], node[a].val = v, lvl[a] = lvl[g]
      PROVE  pos[g] <= pos[a]
  <2>1. PICK p \in Hits(v) : lvl[p] = lvl[a] /\ pos[node[p].right] <= pos[a]
    BY <1>1, <1>6
  <2>2. node[p].right \in Gone(v) /\ lvl[node[p].right] = lvl[g]
    BY <1>1, <1>6, <2>1 DEF Gone, HitAt
  <2>3. node[p].right = g
    BY <1>5, <2>2
  <2> QED  BY <2>1, <2>3
<1>7. ASSUME NEW p \in Hits(v) PROVE node[p].right \in Gone(v) /\ p \notin Gone(v)
  <2>1. node[p].right \in Gone(v)
    BY DEF Gone
  <2>2. lvl[node[p].right] = lvl[p] /\ pos[p] < pos[node[p].right] /\ p \in alloc
    BY <1>1 DEF HitAt
  <2>3. p # node[p].right
    BY <1>2, <2>2
  <2> QED  BY <1>5, <2>1, <2>2, <2>3
<1>8. ASSUME NEW a \in alloc, node[a].right \in Gone(v) PROVE a \in Hits(v)
  <2>1. PICK p \in Hits(v) : node[a].right = node[p].right
    BY <1>3, <1>8
  <2>2. p \in alloc /\ node[p].right # Null /\ lvl[node[p].right] = lvl[p] /\ pos[p] < pos[node[p].right]
    BY <1>1 DEF HitAt
  <2>3. lvl[node[a].right] = lvl[a] /\ pos[a] < pos[node[a].right]
        /\ \A c \in alloc : lvl[c] = lvl[a] /\ pos[a] < pos[c] => pos[node[a].right] <= pos[c]
    BY <2>1, <2>2 DEF Grid, RightOk
  <2>4. \A c \in alloc : lvl[c] = lvl[p] /\ pos[p] < pos[c] => pos[node[p].right] <= pos[c]
    BY <2>2 DEF Grid, RightOk
  <2>5. lvl[a] = lvl[p]
    BY <2>1, <2>2, <2>3
  <2>6. node[p].right \in alloc
    BY <1>1 DEF HitAt
  <2>7. pos[a] = pos[p]
    BY <1>2, <2>1, <2>2, <2>3, <2>4, <2>5, <2>6
  <2>8. a = p
    BY <2>2, <2>5, <2>7 DEF Grid, Placed
  <2> QED  BY <2>8
<1> QED  BY <1>4, <1>5, <1>6, <1>7, <1>8

\* The assignment in erase writes that.
LEMMA EraseWrites ==
  ASSUME NEW K, NEW N, NEW lvl, NEW pos, Grid(node, alloc, head, K, N, lvl, pos),
         NEW v \in Int, NEW nd,
         nd = [a \in Addr |-> CASE a \in Gone(v) -> Blank
                                [] a \in Hits(v) -> [node[a] EXCEPT !.right = node[@].right]
                                [] OTHER -> node[a]]
  PROVE  Erased(nd, v)
<1>1. \A p \in Hits(v) : p \in alloc /\ node[p].right \in alloc
  BY HitsFound DEF HitAt
<1>2. alloc \subseteq Addr
  BY DEF Grid, Placed
<1>3. \A p \in Hits(v) : node[p].right \in Gone(v) /\ p \notin Gone(v)
  BY GoneFound
<1>4. \A a \in Addr : /\ node[a] \in Cells /\ node[a].val \in Int
                      /\ node[a].right \in Addr \cup {Null} /\ node[a].down \in Addr \cup {Null}
  BY CellFields DEF Grid, Memory
<1>5. \A a \in Addr : a \in Gone(v) => nd[a] = Blank
  BY <1>3
<1>6. \A a \in Addr : a \notin Gone(v) /\ a \notin Hits(v) => nd[a] = node[a]
  OBVIOUS
<1>7. ASSUME NEW a \in Hits(v)
      PROVE  nd[a] = [val |-> node[a].val, right |-> node[node[a].right].right, down |-> node[a].down]
  <2>1. a \in Addr /\ a \notin Gone(v) /\ node[a] \in Cells
    BY <1>1, <1>2, <1>3, <1>4
  <2>2. nd[a] = [node[a] EXCEPT !.right = node[node[a].right].right]
    BY <2>1
  <2>3. [node[a] EXCEPT !.right = node[node[a].right].right] =
          [val |-> node[a].val, right |-> node[node[a].right].right, down |-> node[a].down]
    BY <2>1, Relinked
  <2> QED  BY <2>2, <2>3
<1>8. \A a \in Addr : nd[a] \in Cells
  <2> TAKE a \in Addr
  <2>1. Blank \in Cells
    BY DEF Blank, Cells
  <2>2. CASE a \in Hits(v)
    <3>1. node[a].right \in Addr
      BY <1>1, <1>2, <2>2
    <3>2. node[node[a].right].right \in Addr \cup {Null}
      BY <1>4, <3>1
    <3>3. [val |-> node[a].val, right |-> node[node[a].right].right, down |-> node[a].down] \in Cells
      BY <1>4, <3>2 DEF Cells
    <3> QED  BY <1>7, <2>2, <3>3
  <2> QED  BY <1>4, <1>5, <1>6, <2>1, <2>2
<1>9. nd \in [Addr -> Cells]
  <2>1. nd = [a \in Addr |-> nd[a]]
    OBVIOUS
  <2> QED  BY <1>8, <2>1
<1>10. ASSUME NEW a \in Addr, a \notin Gone(v)
       PROVE  /\ nd[a].val = node[a].val
              /\ nd[a].down = node[a].down
              /\ nd[a].right = IF a \in Hits(v) THEN node[node[a].right].right ELSE node[a].right
  <2>1. CASE a \in Hits(v)
    <3>1. nd[a] = [val |-> node[a].val, right |-> node[node[a].right].right, down |-> node[a].down]
      BY <1>7, <2>1
    <3> QED  BY <2>1, <3>1
  <2>2. CASE a \notin Hits(v)
    <3>1. nd[a] = node[a]
      BY <1>6, <1>10, <2>2
    <3> QED  BY <2>2, <3>1
  <2> QED  BY <2>1, <2>2
<1>11. \A a \in Addr \ alloc : nd[a] = Blank
  <2>1. \A a \in Addr \ alloc : node[a] = Blank
    BY DEF Grid, Memory
  <2> QED  BY <1>1, <1>5, <1>6, <2>1
<1> QED  BY <1>5, <1>9, <1>10, <1>11 DEF Erased

\* Without the nodes that go the list is a grid, with the same places: had a down
\* link led to one of them, its owner would be the first copy of its row, and gone.
LEMMA EraseGrid ==
  ASSUME NEW K, NEW N, NEW lvl, NEW pos, Grid(node, alloc, head, K, N, lvl, pos),
         NEW v \in Int, NEW nd, Erased(nd, v)
  PROVE  Grid(nd, alloc \ Gone(v), head, K, N, lvl, pos)
<1> DEFINE al == alloc \ Gone(v)
<1>1. /\ \A g \in Gone(v) : g \in alloc /\ 0 < pos[g] /\ node[g].val = v
      /\ \A g, c \in Gone(v) : lvl[g] = lvl[c] => g = c
      /\ \A g \in Gone(v) : \A a \in alloc :
           0 < pos[a] /\ node[a].val = v /\ lvl[a] = lvl[g] => pos[g] <= pos[a]
      /\ \A p \in Hits(v) : node[p].right \in Gone(v) /\ p \notin Gone(v)
      /\ \A a \in alloc : node[a].right \in Gone(v) => a \in Hits(v)
  BY GoneFound
<1>2. /\ alloc \subseteq Addr /\ lvl \in [Addr -> Nat] /\ pos \in [Addr -> Nat]
      /\ head \in alloc /\ pos[head] = 0 /\ Null \notin Addr
      /\ \A a, b \in alloc : lvl[a] = lvl[b] /\ pos[a] = pos[b] => a = b
  BY AddrNat DEF Grid, Placed
<1>3. \A a \in alloc : a \in Addr /\ pos[a] \in Nat /\ lvl[a] \in Nat /\ node[a].val \in Int
  BY <1>2, CellFields DEF Grid
<1>4. \A a \in al : /\ a \in alloc /\ a \in Addr
                    /\ nd[a].val = node[a].val /\ nd[a].down = node[a].down
                    /\ nd[a].right = IF a \in Hits(v) THEN node[node[a].right].right ELSE node[a].right
  BY <1>2 DEF Erased
<1>5. Memory(nd, al)
  <2>1. nd \in [Addr -> Cells] /\ \A a \in Addr \ al : nd[a] = Blank
    BY DEF Erased
  <2> HIDE DEF al
  <2> QED  BY <2>1 DEF Memory
<1>6. Placed(al, head, K, N, lvl, pos)
  <2>1. head \notin Gone(v)
    BY <1>1, <1>2
  <2> QED  BY <2>1 DEF Grid, Placed
<1>7. Sorted(nd, al, pos)
  BY <1>4 DEF Grid, Sorted
<1>8. RightOk(nd, al, lvl, pos)
  <2> SUFFICES ASSUME NEW a \in al
               PROVE  IF nd[a].right = Null
                      THEN \A c \in al : lvl[c] = lvl[a] => pos[c] <= pos[a]
                      ELSE /\ nd[a].right \in al
                           /\ lvl[nd[a].right] = lvl[a]
                           /\ pos[a] < pos[nd[a].right]
                           /\ \A c \in al : lvl[c] = lvl[a] /\ pos[a] < pos[c]
                                => pos[nd[a].right] <= pos[c]
    BY DEF RightOk
  <2> DEFINE r == node[a].right
  <2>1. a \in alloc /\ a \notin Gone(v)
    OBVIOUS
  <2>2. IF r = Null
        THEN \A c \in alloc : lvl[c] = lvl[a] => pos[c] <= pos[a]
        ELSE /\ r \in alloc /\ lvl[r] = lvl[a] /\ pos[a] < pos[r]
             /\ \A c \in alloc : lvl[c] = lvl[a] /\ pos[a] < pos[c] => pos[r] <= pos[c]
    BY <2>1 DEF Grid, RightOk
  <2>3. CASE a \notin Hits(v)
    <3>1. r # Null => r \in al
      BY <1>1, <2>1, <2>2, <2>3
    <3>2. nd[a].right = r
      BY <1>4, <2>3
    <3> HIDE DEF r
    <3> QED  BY <2>2, <3>1, <3>2
  <2>4. CASE a \in Hits(v)
    <3> DEFINE s == node[r].right
    <3>1. nd[a].right = s /\ r \in Gone(v)
      BY <1>1, <1>4, <2>4
    <3>2. r # Null /\ r \in alloc
      BY <1>1, <1>2, <3>1
    <3>3. IF s = Null
          THEN \A c \in alloc : lvl[c] = lvl[r] => pos[c] <= pos[r]
          ELSE /\ s \in alloc /\ lvl[s] = lvl[r] /\ pos[r] < pos[s]
               /\ \A c \in alloc : lvl[c] = lvl[r] /\ pos[r] < pos[c] => pos[s] <= pos[c]
      BY <3>2 DEF Grid, RightOk
    <3> HIDE DEF r, s
    <3>4. \A c \in al : lvl[c] = lvl[a] /\ pos[a] < pos[c] => pos[r] < pos[c]
      <4> SUFFICES ASSUME NEW c \in al, lvl[c] = lvl[a], pos[a] < pos[c] PROVE pos[r] < pos[c]
        OBVIOUS
      <4>1. pos[r] <= pos[c] /\ lvl[c] = lvl[r] /\ c # r
        BY <2>2, <3>1, <3>2
      <4>2. pos[r] # pos[c]
        BY <1>2, <3>2, <4>1
      <4> QED  BY <1>3, <3>2, <4>1, <4>2
    <3>5. CASE s = Null
      <4>1. ASSUME NEW c \in al, lvl[c] = lvl[a] PROVE pos[c] <= pos[a]
        <5>1. pos[c] <= pos[r]
          BY <2>2, <3>2, <3>3, <3>5, <4>1
        <5>2. ~ (pos[r] < pos[c])
          BY <1>3, <3>2, <5>1
        <5> QED  BY <1>3, <3>4, <4>1, <5>2
      <4> QED  BY <3>1, <3>5, <4>1
    <3>6. CASE s # Null
      <4>1. /\ s \in alloc /\ lvl[s] = lvl[a] /\ pos[a] < pos[s] /\ pos[r] < pos[s]
            /\ \A c \in alloc : lvl[c] = lvl[a] /\ pos[r] < pos[c] => pos[s] <= pos[c]
        BY <1>3, <2>1, <2>2, <3>2, <3>3, <3>6
      <4>2. s \in al
        <5>1. s \in Gone(v) => s = r
          BY <1>1, <2>2, <3>1, <3>2, <4>1
        <5> QED  BY <1>3, <3>2, <4>1, <5>1
      <4>3. \A c \in al : lvl[c] = lvl[a] /\ pos[a] < pos[c] => pos[s] <= pos[c]
        BY <3>4, <4>1
      <4> HIDE DEF al
      <4> QED  BY <3>1, <3>6, <4>1, <4>2, <4>3
    <3> QED  BY <3>5, <3>6
  <2> QED  BY <2>3, <2>4
<1>9. DownOk(nd, al, lvl, pos)
  <2> SUFFICES ASSUME NEW a \in al
               PROVE  IF lvl[a] = 1 THEN nd[a].down = Null
                      ELSE /\ nd[a].down \in al
                           /\ lvl[nd[a].down] = lvl[a] - 1
                           /\ pos[nd[a].down] = pos[a]
    BY DEF DownOk
  <2> DEFINE d == node[a].down
  <2>1. nd[a].down = d /\ a \in alloc /\ a \notin Gone(v)
    BY <1>4
  <2>2. IF lvl[a] = 1 THEN d = Null
        ELSE d \in alloc /\ lvl[d] = lvl[a] - 1 /\ pos[d] = pos[a]
    BY <2>1 DEF Grid, DownOk
  <2>3. ASSUME lvl[a] # 1, d \in Gone(v) PROVE FALSE
    <3>1. d \in alloc /\ lvl[d] = lvl[a] - 1 /\ pos[d] = pos[a] /\ 0 < pos[d] /\ node[d].val = v
      BY <1>1, <2>2, <2>3
    <3>2. node[a].val = v /\ 0 < pos[a]
      <4>1. node[a].val <= node[d].val /\ node[d].val <= node[a].val
        BY <1>3, <2>1, <3>1 DEF Grid, Sorted
      <4> QED  BY <1>3, <2>1, <3>1, <4>1
    <3>3. \E p \in Hits(v) : HitAt(v, lvl, pos, p) /\ lvl[p] = lvl[a] /\ pos[node[p].right] <= pos[a]
      BY <2>1, <3>2, HitsFound
    <3>4. PICK g \in Gone(v) : lvl[g] = lvl[a] /\ pos[g] <= pos[a]
      BY <1>1, <3>3 DEF HitAt
    <3>5. g \in alloc /\ 0 < pos[g] /\ node[g].val = v /\ g # a /\ pos[g] # pos[a]
      BY <1>1, <1>2, <2>1, <3>4
    <3> DEFINE e == node[g].down
    <3>6. e \in alloc /\ lvl[e] = lvl[d] /\ pos[e] = pos[g]
      BY <2>3, <3>1, <3>4, <3>5 DEF Grid, DownOk
    <3>7. node[e].val = v
      <4>1. node[e].val <= node[g].val /\ node[g].val <= node[e].val
        BY <1>3, <3>5, <3>6 DEF Grid, Sorted
      <4> QED  BY <1>3, <3>5, <3>6, <4>1
    <3>8. pos[d] <= pos[e]
      BY <1>1, <2>3, <3>5, <3>6, <3>7
    <3> QED  BY <1>3, <2>1, <3>1, <3>4, <3>5, <3>6, <3>8
  <2> HIDE DEF d
  <2> QED  BY <2>1, <2>2, <2>3
<1> HIDE DEF al
<1>10. Grid(nd, al, head, K, N, lvl, pos)
  BY <1>5, <1>6, <1>7, <1>8, <1>9 DEF Grid
<1> QED  BY <1>10 DEF al

-----------------------------------------------------------------------------
(* The grid is an invariant.                                               *)

\* An empty list is a grid of one node.
LEMMA GridStarts == SkipInit => SkipInv
<1> SUFFICES ASSUME SkipInit PROVE SkipInv
  OBVIOUS
<1> DEFINE one == [a \in Addr |-> 1]
           zero == [a \in Addr |-> 0]
<1>1. 1 \in Addr /\ node = [a \in Addr |-> Blank] /\ alloc = {1} /\ head = 1
  BY AddrNat DEF SkipInit
<1>2. Memory(node, alloc)
  <2>1. Blank \in Cells
    BY DEF Blank, Cells
  <2> QED  BY <1>1, <2>1 DEF Memory
<1>3. Placed(alloc, head, 1, 0, one, zero)
  BY <1>1 DEF Placed
<1>4. node[1].right = Null /\ node[1].down = Null /\ node[1].val = 0
  BY <1>1 DEF Blank
<1>5. RightOk(node, alloc, one, zero)
  BY <1>1, <1>4 DEF RightOk
<1>6. DownOk(node, alloc, one, zero)
  BY <1>1, <1>4 DEF DownOk
<1>7. Sorted(node, alloc, zero)
  BY <1>1 DEF Sorted
<1> HIDE DEF one, zero
<1>8. Grid(node, alloc, head, 1, 0, one, zero)
  BY <1>2, <1>3, <1>5, <1>6, <1>7 DEF Grid
<1> QED  BY <1>8 DEF SkipInv

\* add.
LEMMA AddKeepsGrid ==
  ASSUME NEW K, NEW N, NEW lvl, NEW pos, Grid(node, alloc, head, K, N, lvl, pos),
         NEW v \in Int, NEW k \in 1..K, Room(k)
  PROVE  Grid(Tower(v, k), alloc \cup {FreeAddr(i) : i \in 1..k}, head,
              K, 2 * N + 2, LvlWith(k, lvl), PosWith(v, k, N, pos))
<1>1. K \in Nat
  BY DEF Grid, Placed
<1>2. k \in Nat /\ k <= k
  BY <1>1
<1>3. Towered(Tower(v, k), v, k, Points(v))
  BY <1>2, TowerWrites
<1>4. Grid(Tower(v, k), alloc \cup New(k), head, K, 2 * N + 2, LvlWith(k, lvl), PosWith(v, k, N, pos))
  BY <1>2, <1>3, TowerGrid
<1> QED  BY <1>4 DEF New

\* The tower and the two nodes of the new row.
RowAdded(v, K) ==
  [Tower(v, K) EXCEPT
     ![FreeAddr(K + 1)] = [val |-> v, right |-> Null, down |-> FreeAddr(K)],
     ![FreeAddr(K + 2)] = [val |-> 0, right |-> FreeAddr(K + 1), down |-> head]]
LvlWithRow(K, lvl) == RowLvl(LvlWith(K, lvl), K, FreeAddr(K + 1), FreeAddr(K + 2))
PosWithRow(v, K, N, pos) ==
  RowPos(PosWith(v, K, N, pos), FreeAddr(K), FreeAddr(K + 1), FreeAddr(K + 2))

\* add, when it makes a row.
LEMMA AddRowKeepsGrid ==
  ASSUME NEW K, NEW N, NEW lvl, NEW pos, Grid(node, alloc, head, K, N, lvl, pos),
         NEW v \in Int, Room(K + 2)
  PROVE  Grid(RowAdded(v, K), alloc \cup {FreeAddr(i) : i \in 1..(K + 2)}, FreeAddr(K + 2),
              K + 1, 2 * N + 2, LvlWithRow(K, lvl), PosWithRow(v, K, N, pos))
<1> DEFINE lvl2 == LvlWith(K, lvl)
           pos2 == PosWith(v, K, N, pos)
           nd == Tower(v, K)
           al == alloc \cup New(K)
           t == FreeAddr(K)
           x == FreeAddr(K + 1)
           y == FreeAddr(K + 2)
<1>1. K \in Nat \ {0} /\ N \in Nat
  BY DEF Grid, Placed
<1>2. K \in 1..K /\ K + 2 \in Nat /\ K <= K + 2
  BY <1>1
<1>3. Towered(nd, v, K, Points(v))
  BY <1>2, TowerWrites
<1>4. Grid(nd, al, head, K, 2 * N + 2, lvl2, pos2)
  <2> HIDE DEF nd
  <2> QED  BY <1>2, <1>3, TowerGrid
<1>5. lvl2[t] = K /\ pos2[t] = N + 1
  <2>1. PlacedWith(v, K, N, lvl, pos, lvl2, pos2)
    BY <1>2, PlacesWith
  <2> HIDE DEF lvl2, pos2
  <2> QED  BY <1>2, <2>1 DEF PlacedWith
<1>6. nd[t].val = v
  <2> HIDE DEF nd
  <2> QED  BY <1>2, <1>3 DEF Towered
<1>7. t \in al /\ x \in Addr \ al /\ y \in Addr \ al /\ x # y
  <2>1. /\ \A i \in 1..(K + 2) : FreeAddr(i) \in Addr \ alloc
        /\ \A i, j \in 1..(K + 2) : FreeAddr(i) = FreeAddr(j) => i = j
    BY <1>2, Fresh
  <2>2. K + 1 \in 1..(K + 2) /\ K + 2 \in 1..(K + 2) /\ \A i \in 1..K : i \in 1..(K + 2) /\ i # K + 1 /\ i # K + 2
    BY <1>1
  <2>3. K + 1 # K + 2
    BY <1>1
  <2>4. x \in Addr \ alloc /\ y \in Addr \ alloc /\ x # y
    BY <2>1, <2>2, <2>3
  <2>5. x \notin New(K) /\ y \notin New(K)
    BY <2>1, <2>2 DEF New
  <2> QED  BY <1>2, <2>4, <2>5 DEF New
<1>8. alloc \cup {FreeAddr(i) : i \in 1..(K + 2)} = al \cup {x, y}
  <2>1. \A i \in 1..(K + 2) : i \in 1..K \/ i = K + 1 \/ i = K + 2
    BY <1>1
  <2>2. K + 1 \in 1..(K + 2) /\ K + 2 \in 1..(K + 2) /\ \A i \in 1..K : i \in 1..(K + 2)
    BY <1>1
  <2> QED  BY <2>1, <2>2 DEF New
<1>9. RowWritten(RowAdded(v, K), nd, head, t, x, y)
  BY <1>6 DEF RowAdded, RowWritten
<1>10. 0 < pos2[t]
  BY <1>1, <1>5
<1> HIDE DEF nd, al, lvl2, pos2, t, x, y
<1>11. Grid(RowAdded(v, K), al \cup {x, y}, y, K + 1, 2 * N + 2, RowLvl(lvl2, K, x, y), RowPos(pos2, t, x, y))
  BY <1>4, <1>5, <1>7, <1>9, <1>10, RowGrid
<1> QED  BY <1>8, <1>11 DEF LvlWithRow, PosWithRow, lvl2, pos2, t, x, y

\* erase.
LEMMA EraseKeepsGrid ==
  ASSUME NEW K, NEW N, NEW lvl, NEW pos, Grid(node, alloc, head, K, N, lvl, pos),
         NEW v \in Int, erase(v)
  PROVE  Grid(node', alloc', head', K, N, lvl, pos)
<1>1. /\ node' = [a \in Addr |-> CASE a \in Gone(v) -> Blank
                                   [] a \in Hits(v) -> [node[a] EXCEPT !.right = node[@].right]
                                   [] OTHER -> node[a]]
      /\ alloc' = alloc \ Gone(v) /\ head' = head
  BY DEF erase, Gone
<1>2. Erased(node', v)
  BY <1>1, EraseWrites
<1>3. Grid(node', alloc \ Gone(v), head, K, N, lvl, pos)
  BY <1>2, EraseGrid
<1> QED  BY <1>1, <1>3

\* There are as many points as rows.
LEMMA RowsFound ==
  ASSUME NEW K, NEW N, NEW lvl, NEW pos, Grid(node, alloc, head, K, N, lvl, pos), NEW v \in Int
  PROVE  Len(Points(v)) = K
  BY PointsFound DEF PointsUpto

\* The nodes of the list always lie on a grid.
THEOREM GridStays == SkipSpec => []SkipInv
<1>1. SkipInit => SkipInv
  BY GridStarts
<1>2. SkipInv /\ [SkipNext]_skipVars => SkipInv'
  <2> SUFFICES ASSUME SkipInv, [SkipNext]_skipVars PROVE SkipInv'
    OBVIOUS
  <2>1. PICK K, N, lvl, pos : Grid(node, alloc, head, K, N, lvl, pos)
    BY DEF SkipInv
  <2>2. CASE UNCHANGED <<node, alloc, head>>
    BY <2>1, <2>2 DEF SkipInv
  <2>3. CASE UNCHANGED skipVars
    BY <2>2, <2>3 DEF skipVars
  <2>4. ASSUME NEW v \in Vals, search(v) PROVE SkipInv'
    BY <2>2, <2>4 DEF search
  <2>5. ASSUME NEW v \in Vals, add(v) PROVE SkipInv'
    <3>1. v \in Int
      BY ValsAssumption
    <3>2. Len(Points(v)) = K
      BY <2>1, <3>1, RowsFound
    <3>3. PICK k \in 1..K : /\ Room(k) /\ node' = Tower(v, k) /\ head' = head
                            /\ alloc' = alloc \cup {FreeAddr(i) : i \in 1..k}
      BY <2>5, <3>2 DEF add
    <3>4. Grid(Tower(v, k), alloc \cup {FreeAddr(i) : i \in 1..k}, head,
               K, 2 * N + 2, LvlWith(k, lvl), PosWith(v, k, N, pos))
      BY <2>1, <3>1, <3>3, AddKeepsGrid
    <3>5. Grid(node', alloc', head', K, 2 * N + 2, LvlWith(k, lvl), PosWith(v, k, N, pos))
      BY <3>3, <3>4
    <3> QED  BY <3>5 DEF SkipInv
  <2>6. ASSUME NEW v \in Vals, add_row(v) PROVE SkipInv'
    <3>1. v \in Int
      BY ValsAssumption
    <3>2. Len(Points(v)) = K
      BY <2>1, <3>1, RowsFound
    <3>3. /\ Room(K + 2) /\ node' = RowAdded(v, K) /\ head' = FreeAddr(K + 2)
          /\ alloc' = alloc \cup {FreeAddr(i) : i \in 1..(K + 2)}
      BY <2>6, <3>2 DEF add_row, RowAdded
    <3>4. Grid(RowAdded(v, K), alloc \cup {FreeAddr(i) : i \in 1..(K + 2)}, FreeAddr(K + 2),
               K + 1, 2 * N + 2, LvlWithRow(K, lvl), PosWithRow(v, K, N, pos))
      BY <2>1, <3>1, <3>3, AddRowKeepsGrid
    <3>5. Grid(node', alloc', head', K + 1, 2 * N + 2, LvlWithRow(K, lvl), PosWithRow(v, K, N, pos))
      BY <3>3, <3>4
    <3> QED  BY <3>5 DEF SkipInv
  <2>7. ASSUME NEW v \in Vals, erase(v) PROVE SkipInv'
    <3>1. v \in Int
      BY ValsAssumption
    <3>2. Grid(node', alloc', head', K, N, lvl, pos)
      BY <2>1, <2>7, <3>1, EraseKeepsGrid
    <3> QED  BY <3>2 DEF SkipInv
  <2> QED  BY <2>3, <2>4, <2>5, <2>6, <2>7 DEF SkipNext
<1> QED  BY <1>1, <1>2, PTL DEF SkipSpec

-----------------------------------------------------------------------------
(* The rows as sequences.                                                  *)

\* Following links that lower the rank yields a sequence.
LEMMA ChainEnds ==
  ASSUME NEW nx \in [Addr -> Addr \cup {Null}],
         NEW rank \in [Addr \cup {Null} -> Nat], \A a \in Addr : rank[nx[a]] < rank[a],
         NEW n \in Nat, \A a \in Addr \cup {Null} : rank[a] <= n
  PROVE  \E f \in [Addr \cup {Null} -> Seq(Addr)] :
           \A a \in Addr \cup {Null} : f[a] = IF a = Null THEN <<>> ELSE <<a>> \o f[nx[a]]
<1> DEFINE S == Addr \cup {Null}
           End == {Null}
           base == [a \in S |-> << >>]
           G == [t \in S \X Seq(Addr) |-> <<IF t[1] = Null THEN 1 ELSE t[1]>> \o t[2]]
           next == [a \in S |-> IF a = Null THEN Null ELSE nx[a]]
<1>1. Null \notin Addr /\ 1 \in Addr
  BY AddrNat
<1>2. base \in [S -> Seq(Addr)]
  OBVIOUS
<1>3. G \in [S \X Seq(Addr) -> Seq(Addr)]
  <2>1. ASSUME NEW a \in S, NEW s \in Seq(Addr)
        PROVE  <<IF a = Null THEN 1 ELSE a>> \o s \in Seq(Addr)
    <3>1. (IF a = Null THEN 1 ELSE a) \in Addr
      BY <1>1
    <3> HIDE DEF S
    <3> QED  BY <3>1
  <2> HIDE DEF S
  <2> QED  BY <2>1
<1>4. \A a \in S \ End : next[a] \in S /\ next[a] = nx[a] /\ rank[next[a]] < rank[a]
  OBVIOUS
<1>5. \E f \in [S -> Seq(Addr)] : Recursion(S, End, base, G, next, f)
  <2>1. (\A a \in S \ End : next[a] \in S) /\ (\A a \in S \ End : rank[next[a]] < rank[a])
    BY <1>4
  <2>2. rank \in [S -> Nat] /\ \A a \in S : rank[a] <= n
    OBVIOUS
  <2> HIDE DEF S, End, base, G, next
  <2> QED  BY <1>2, <1>3, <2>1, <2>2, RecursionEnds
<1>6. PICK f \in [S -> Seq(Addr)] : Recursion(S, End, base, G, next, f)
  BY <1>5
<1>7. ASSUME NEW a \in S PROVE f[a] = IF a = Null THEN <<>> ELSE <<a>> \o f[nx[a]]
  <2>1. f[a] = IF a \in End THEN base[a] ELSE G[<<a, f[next[a]]>>]
    BY <1>6 DEF Recursion
  <2>2. CASE a = Null
    BY <2>1, <2>2
  <2>3. CASE a # Null
    <3>1. next[a] \in S /\ next[a] = nx[a]
      BY <2>3
    <3>2. f[next[a]] \in Seq(Addr)
      <4> HIDE DEF next, S
      <4> QED  BY <1>6, <3>1
    <3>3. G[<<a, f[next[a]]>>] = <<a>> \o f[next[a]]
      <4> HIDE DEF next
      <4> QED  BY <2>3, <3>2
    <3> QED  BY <2>1, <2>3, <3>1, <3>3
  <2> QED  BY <2>2, <2>3
<1> QED  BY <1>6, <1>7

\* s lists the nodes of row i from position lo on.
IsRow(lvl, pos, i, lo, s) ==
  /\ s \in Seq(Addr)
  /\ \A j \in 1..Len(s) : s[j] \in alloc /\ lvl[s[j]] = i /\ lo <= pos[s[j]]
  /\ \A j, k \in 1..Len(s) : j < k => pos[s[j]] < pos[s[k]]
  /\ \A c \in alloc : lvl[c] = i /\ lo <= pos[c] => \E j \in 1..Len(s) : c = s[j]

\* A node before a row is one more node of it.
LEMMA RowGrows ==
  ASSUME NEW K, NEW N, NEW lvl, NEW pos, Grid(node, alloc, head, K, N, lvl, pos),
         NEW b \in alloc, NEW lo \in Nat, pos[b] < lo, NEW s, IsRow(lvl, pos, lvl[b], lo, s),
         \A c \in alloc : lvl[c] = lvl[b] /\ pos[b] < pos[c] => lo <= pos[c]
  PROVE  IsRow(lvl, pos, lvl[b], pos[b], <<b>> \o s)
<1> DEFINE t == <<b>> \o s
<1>1. b \in Addr /\ s \in Seq(Addr) /\ Len(s) \in Nat
  BY DEF Grid, Placed, IsRow
<1>2. \A a \in alloc : a \in Addr /\ pos[a] \in Nat /\ lvl[a] \in Nat
  BY DEF Grid, Placed
<1>3. /\ t \in Seq(Addr) /\ Len(t) = Len(s) + 1 /\ t[1] = b
      /\ \A j \in 1..Len(t) : j = 1 \/ (j - 1 \in 1..Len(s) /\ t[j] = s[j - 1])
      /\ \A j \in 1..Len(s) : j + 1 \in 1..Len(t) /\ t[j + 1] = s[j]
  BY <1>1
<1> HIDE DEF t
<1>4. ASSUME NEW j \in 1..Len(t) PROVE t[j] \in alloc /\ lvl[t[j]] = lvl[b] /\ pos[b] <= pos[t[j]]
  <2>1. CASE j = 1
    BY <1>2, <1>3, <2>1
  <2>2. CASE j - 1 \in 1..Len(s) /\ t[j] = s[j - 1]
    <3>1. t[j] \in alloc /\ lvl[t[j]] = lvl[b] /\ lo <= pos[t[j]]
      BY <2>2 DEF IsRow
    <3> QED  BY <1>2, <3>1
  <2> QED  BY <1>3, <2>1, <2>2
<1>5. ASSUME NEW j \in 1..Len(t), NEW k \in 1..Len(t), j < k PROVE pos[t[j]] < pos[t[k]]
  <2>1. k # 1
    BY <1>1, <1>3, <1>5
  <2>2. k - 1 \in 1..Len(s) /\ t[k] = s[k - 1] /\ t[k] \in alloc /\ lo <= pos[t[k]]
    BY <1>3, <2>1 DEF IsRow
  <2>3. CASE j = 1
    BY <1>2, <1>3, <2>2, <2>3
  <2>4. CASE j - 1 \in 1..Len(s) /\ t[j] = s[j - 1]
    <3>1. j - 1 < k - 1
      BY <1>1, <1>3, <1>5
    <3> QED  BY <2>2, <2>4, <3>1 DEF IsRow
  <2> QED  BY <1>3, <2>3, <2>4
<1>6. ASSUME NEW c \in alloc, lvl[c] = lvl[b], pos[b] <= pos[c] PROVE \E j \in 1..Len(t) : c = t[j]
  <2>1. CASE pos[b] = pos[c]
    <3>1. c = b
      BY <1>6, <2>1 DEF Grid, Placed
    <3>2. 1 \in 1..Len(t)
      BY <1>1, <1>3
    <3> QED  BY <1>3, <3>1, <3>2
  <2>2. CASE pos[b] < pos[c]
    <3>1. PICK j \in 1..Len(s) : c = s[j]
      BY <1>6, <2>2 DEF IsRow
    <3> QED  BY <1>3, <3>1
  <2> QED  BY <1>2, <1>6, <2>1, <2>2
<1>7. IsRow(lvl, pos, lvl[b], pos[b], t)
  BY <1>3, <1>4, <1>5, <1>6 DEF IsRow
<1> QED  BY <1>7 DEF t

\* RightOf lists the rest of the row.
LEMMA RightOfRow ==
  ASSUME NEW K, NEW N, NEW lvl, NEW pos, Grid(node, alloc, head, K, N, lvl, pos), NEW h \in alloc
  PROVE  IsRow(lvl, pos, lvl[h], pos[h] + 1, RightOf(h))
<1> DEFINE S == Addr \cup {Null}
           Follows(f) == f = [b \in Addr \cup {Null} |->
                                IF b = Null THEN <<>> ELSE <<b>> \o f[node[b].right]]
           nx == [b \in Addr |-> node[b].right]
           rank == [b \in S |-> IF b = Null THEN 0 ELSE IF b \in alloc THEN N - pos[b] + 1 ELSE 1]
<1>1. /\ alloc \subseteq Addr /\ N \in Nat /\ pos \in [Addr -> Nat] /\ lvl \in [Addr -> Nat]
      /\ \A a \in alloc : pos[a] <= N
      /\ Null \notin Addr
  BY AddrNat DEF Grid, Placed
<1>2. \A a \in Addr : /\ node[a].right \in S
                      /\ a \notin alloc => node[a].right = Null
  BY CellFields DEF Grid
<1>3. ASSUME NEW a \in alloc, node[a].right # Null
      PROVE  /\ node[a].right \in alloc /\ lvl[node[a].right] = lvl[a] /\ pos[a] < pos[node[a].right]
             /\ \A c \in alloc : lvl[c] = lvl[a] /\ pos[a] < pos[c] => pos[node[a].right] <= pos[c]
  BY <1>3 DEF Grid, RightOk
<1>4. ASSUME NEW a \in alloc, node[a].right = Null
      PROVE  \A c \in alloc : lvl[c] = lvl[a] => pos[c] <= pos[a]
  BY <1>4 DEF Grid, RightOk
<1>5. /\ rank \in [S -> Nat]
      /\ \A b \in S : rank[b] <= N + 1
      /\ rank[Null] = 0 /\ \A b \in Addr \ alloc : rank[b] = 1
      /\ \A b \in alloc : rank[b] = N - pos[b] + 1
  <2>1. \A b \in alloc : N - pos[b] + 1 \in Nat /\ N - pos[b] + 1 <= N + 1
    BY <1>1
  <2> QED  BY <1>1, <2>1
<1> HIDE DEF rank
<1>6. \A a \in Addr : rank[node[a].right] < rank[a]
  <2> TAKE a \in Addr
  <2>1. CASE a \in alloc /\ node[a].right # Null
    <3>1. node[a].right \in alloc /\ pos[a] < pos[node[a].right]
      BY <1>3, <2>1
    <3> QED  BY <1>1, <1>5, <2>1, <3>1
  <2>2. CASE node[a].right = Null
    BY <1>1, <1>5, <2>2
  <2> QED  BY <1>2, <2>1, <2>2
<1>7. \E f \in [S -> Seq(Addr)] : \A a \in S : f[a] = IF a = Null THEN <<>> ELSE <<a>> \o f[nx[a]]
  <2>1. nx \in [Addr -> Addr \cup {Null}]
    BY <1>2
  <2>2. \A a \in Addr : rank[nx[a]] < rank[a]
    BY <1>6
  <2>3. rank \in [Addr \cup {Null} -> Nat] /\ \A a \in Addr \cup {Null} : rank[a] <= N + 1
    BY <1>5
  <2>4. N + 1 \in Nat
    BY <1>1
  <2> HIDE DEF nx
  <2> QED  BY <2>1, <2>2, <2>3, <2>4, ChainEnds
<1>8. PICK f \in [S -> Seq(Addr)] : \A a \in S : f[a] = IF a = Null THEN <<>> ELSE <<a>> \o f[nx[a]]
  BY <1>7
<1>9. Follows(f)
  <2>1. \A a \in S : f[a] = IF a = Null THEN <<>> ELSE <<a>> \o f[node[a].right]
    BY <1>8
  <2>2. f = [a \in S |-> f[a]]
    <3> HIDE DEF S
    <3> QED  BY <1>8
  <2>3. f = [a \in S |-> IF a = Null THEN <<>> ELSE <<a>> \o f[node[a].right]]
    <3> HIDE DEF S
    <3> QED  BY <2>1, <2>2
  <2> QED  BY <2>3
<1> DEFINE row == CHOOSE g : Follows(g)
<1>10. RightOf(h) = row[node[h].right]
  BY DEF RightOf
<1>11. Follows(row)
  <2> HIDE DEF Follows
  <2> QED  BY <1>9
<1>12. row[Null] = << >> /\ \A a \in Addr : row[a] = <<a>> \o row[node[a].right]
  <2> HIDE DEF row
  <2> QED  BY <1>1, <1>11
<1> HIDE DEF row, Follows, S, nx
<1>13. ASSUME NEW a \in alloc,
              node[a].right # Null =>
                IsRow(lvl, pos, lvl[a], pos[node[a].right], row[node[a].right])
       PROVE  IsRow(lvl, pos, lvl[a], pos[a] + 1, row[node[a].right])
  <2>1. CASE node[a].right = Null
    <3>1. \A c \in alloc : ~ (lvl[c] = lvl[a] /\ pos[a] + 1 <= pos[c])
      BY <1>1, <1>4, <2>1
    <3>2. << >> \in Seq(Addr) /\ Len(<< >>) = 0
      OBVIOUS
    <3>3. IsRow(lvl, pos, lvl[a], pos[a] + 1, << >>)
      BY <3>1, <3>2 DEF IsRow
    <3> QED  BY <1>12, <2>1, <3>3
  <2>2. CASE node[a].right # Null
    <3> DEFINE r == node[a].right
    <3>1. /\ r \in alloc /\ lvl[r] = lvl[a] /\ pos[a] < pos[r]
          /\ \A c \in alloc : lvl[c] = lvl[a] /\ pos[a] < pos[c] => pos[r] <= pos[c]
      BY <1>3, <2>2
    <3>2. IsRow(lvl, pos, lvl[a], pos[r], row[r])
      BY <1>13, <2>2
    <3> HIDE DEF r
    <3>3. \A c \in alloc : pos[c] \in Nat
      BY <1>1
    <3>4. \A c \in alloc : lvl[c] = lvl[a] => (pos[a] + 1 <= pos[c] <=> pos[r] <= pos[c])
      BY <3>1, <3>3
    <3>5. IsRow(lvl, pos, lvl[a], pos[a] + 1, row[r])
      BY <3>2, <3>4 DEF IsRow
    <3> QED  BY <3>5 DEF r
  <2> QED  BY <2>1, <2>2
<1> DEFINE height == [a \in alloc |-> rank[a]]
           Good == {a \in alloc : IsRow(lvl, pos, lvl[a], pos[a], row[a])}
<1>14. \A a \in alloc : (\A b \in alloc : height[b] < height[a] => b \in Good) => a \in Good
  <2> SUFFICES ASSUME NEW a \in alloc, \A b \in alloc : height[b] < height[a] => b \in Good
               PROVE  IsRow(lvl, pos, lvl[a], pos[a], row[a])
    OBVIOUS
  <2> DEFINE r == node[a].right
  <2>1. r # Null => IsRow(lvl, pos, lvl[a], pos[r], row[r])
    <3>1. ASSUME r # Null PROVE IsRow(lvl, pos, lvl[a], pos[r], row[r])
      <4>1. r \in alloc /\ lvl[r] = lvl[a] /\ rank[r] < rank[a]
        BY <1>1, <1>3, <1>6, <3>1
      <4> HIDE DEF r
      <4>2. height[r] < height[a]
        BY <4>1
      <4>3. r \in Good
        <5> HIDE DEF height, Good
        <5> QED  BY <4>1, <4>2
      <4> QED  BY <4>1, <4>3
    <3> QED  BY <3>1
  <2>2. IsRow(lvl, pos, lvl[a], pos[a] + 1, row[r])
    BY <1>13, <2>1
  <2>3. row[a] = <<a>> \o row[r]
    BY <1>1, <1>12
  <2> HIDE DEF r
  <2>4. pos[a] + 1 \in Nat /\ pos[a] < pos[a] + 1
        /\ \A c \in alloc : lvl[c] = lvl[a] /\ pos[a] < pos[c] => pos[a] + 1 <= pos[c]
    BY <1>1
  <2> HIDE DEF height, Good
  <2> QED  BY <2>2, <2>3, <2>4, RowGrows
<1>15. alloc \subseteq Good
  <2>1. height \in [alloc -> Nat]
    BY <1>1, <1>5 DEF S
  <2> HIDE DEF Good, height
  <2> QED  BY <1>14, <2>1, ByRank
<1>16. node[h].right # Null => IsRow(lvl, pos, lvl[h], pos[node[h].right], row[node[h].right])
  <2>1. ASSUME node[h].right # Null PROVE IsRow(lvl, pos, lvl[h], pos[node[h].right], row[node[h].right])
    <3>1. node[h].right \in alloc /\ lvl[node[h].right] = lvl[h]
      BY <1>3, <2>1
    <3> QED  BY <1>15, <3>1
  <2> QED  BY <2>1
<1>17. IsRow(lvl, pos, lvl[h], pos[h] + 1, row[node[h].right])
  BY <1>13, <1>16
<1> QED  BY <1>10, <1>17

\* s goes straight down from level m.
IsColumn(lvl, pos, m, p, s) ==
  /\ s \in Seq(Addr)
  /\ Len(s) = m
  /\ \A i \in 1..m : s[i] \in alloc /\ lvl[s[i]] = m + 1 - i /\ pos[s[i]] = p

\* The heads of the rows, one of each level.
LEMMA HeadsFound ==
  ASSUME NEW K, NEW N, NEW lvl, NEW pos, Grid(node, alloc, head, K, N, lvl, pos)
  PROVE  IsColumn(lvl, pos, K, 0, Heads)
<1> DEFINE S == Addr \cup {Null}
           Follows(f) == f = [b \in Addr \cup {Null} |->
                                IF b = Null THEN <<>> ELSE <<b>> \o f[node[b].down]]
           nx == [b \in Addr |-> node[b].down]
           rank == [b \in S |-> IF b = Null THEN 0 ELSE IF b \in alloc THEN lvl[b] ELSE 1]
<1>1. /\ alloc \subseteq Addr /\ K \in Nat \ {0} /\ pos \in [Addr -> Nat] /\ lvl \in [Addr -> Nat]
      /\ \A a \in alloc : 1 <= lvl[a] /\ lvl[a] <= K
      /\ head \in alloc /\ lvl[head] = K /\ pos[head] = 0
      /\ Null \notin Addr
  BY AddrNat DEF Grid, Placed
<1>2. \A a \in Addr : /\ node[a].down \in S
                      /\ a \notin alloc => node[a].down = Null
  BY CellFields DEF Grid
<1>3. \A a \in alloc : IF lvl[a] = 1 THEN node[a].down = Null
                       ELSE /\ node[a].down \in alloc
                            /\ lvl[node[a].down] = lvl[a] - 1
                            /\ pos[node[a].down] = pos[a]
  BY DEF Grid, DownOk
<1>4. /\ rank \in [S -> Nat]
      /\ \A b \in S : rank[b] <= K
      /\ rank[Null] = 0 /\ \A b \in Addr \ alloc : rank[b] = 1
      /\ \A b \in alloc : rank[b] = lvl[b]
  BY <1>1
<1> HIDE DEF rank
<1>5. \A a \in Addr : rank[node[a].down] < rank[a]
  BY <1>1, <1>2, <1>3, <1>4
<1>6. \E f \in [S -> Seq(Addr)] : \A a \in S : f[a] = IF a = Null THEN <<>> ELSE <<a>> \o f[nx[a]]
  <2>1. nx \in [Addr -> Addr \cup {Null}]
    BY <1>2
  <2>2. \A a \in Addr : rank[nx[a]] < rank[a]
    BY <1>5
  <2>3. rank \in [Addr \cup {Null} -> Nat] /\ \A a \in Addr \cup {Null} : rank[a] <= K
    BY <1>4
  <2>4. K \in Nat
    BY <1>1
  <2> HIDE DEF nx
  <2> QED  BY <2>1, <2>2, <2>3, <2>4, ChainEnds
<1>7. PICK f \in [S -> Seq(Addr)] : \A a \in S : f[a] = IF a = Null THEN <<>> ELSE <<a>> \o f[nx[a]]
  BY <1>6
<1>8. Follows(f)
  <2>1. \A a \in S : f[a] = IF a = Null THEN <<>> ELSE <<a>> \o f[node[a].down]
    BY <1>7
  <2>2. f = [a \in S |-> f[a]]
    <3> HIDE DEF S
    <3> QED  BY <1>7
  <2>3. f = [a \in S |-> IF a = Null THEN <<>> ELSE <<a>> \o f[node[a].down]]
    <3> HIDE DEF S
    <3> QED  BY <2>1, <2>2
  <2> QED  BY <2>3
<1> DEFINE below == CHOOSE g : Follows(g)
<1>9. Heads = below[head]
  BY DEF Heads
<1>10. Follows(below)
  <2> HIDE DEF Follows
  <2> QED  BY <1>8
<1>11. below[Null] = << >> /\ \A a \in Addr : below[a] = <<a>> \o below[node[a].down]
  <2> HIDE DEF below
  <2> QED  BY <1>1, <1>10
<1> HIDE DEF below, Follows, S, nx
<1> DEFINE level == [a \in alloc |-> lvl[a]]
           Good == {a \in alloc : IsColumn(lvl, pos, lvl[a], pos[a], below[a])}
<1>12. \A a \in alloc : (\A b \in alloc : level[b] < level[a] => b \in Good) => a \in Good
  <2> SUFFICES ASSUME NEW a \in alloc, \A b \in alloc : level[b] < level[a] => b \in Good
               PROVE  IsColumn(lvl, pos, lvl[a], pos[a], below[a])
    OBVIOUS
  <2> DEFINE d == node[a].down
             s == below[d]
             t == below[a]
  <2>1. t = <<a>> \o s /\ a \in Addr /\ lvl[a] \in Nat /\ 1 <= lvl[a]
    BY <1>1, <1>11
  <2>2. IsColumn(lvl, pos, lvl[a] - 1, pos[a], s)
    <3>1. CASE lvl[a] = 1
      <4>1. s = << >> /\ lvl[a] - 1 = 0
        BY <1>3, <1>11, <3>1
      <4>2. IsColumn(lvl, pos, 0, pos[a], << >>)
        BY DEF IsColumn
      <4> HIDE DEF s
      <4> QED  BY <4>1, <4>2
    <3>2. CASE lvl[a] # 1
      <4>1. d \in alloc /\ lvl[d] = lvl[a] - 1 /\ pos[d] = pos[a]
        BY <1>3, <3>2
      <4>2. level[d] < level[a]
        <5> HIDE DEF d
        <5> QED  BY <1>1, <4>1
      <4>3. d \in Good
        <5> HIDE DEF level, Good, d
        <5> QED  BY <4>1, <4>2
      <4> QED  BY <4>1, <4>3
    <3> QED  BY <3>1, <3>2
  <2> HIDE DEF d, s, t
  <2>3. s \in Seq(Addr) /\ Len(s) = lvl[a] - 1
    BY <2>2 DEF IsColumn
  <2>4. /\ t \in Seq(Addr) /\ Len(t) = lvl[a] /\ t[1] = a
        /\ \A i \in 1..lvl[a] : i = 1 \/ (i - 1 \in 1..(lvl[a] - 1) /\ t[i] = s[i - 1])
    BY <2>1, <2>3
  <2>5. ASSUME NEW i \in 1..lvl[a]
        PROVE  t[i] \in alloc /\ lvl[t[i]] = lvl[a] + 1 - i /\ pos[t[i]] = pos[a]
    <3>1. CASE i = 1
      BY <2>1, <2>4, <3>1
    <3>2. CASE i - 1 \in 1..(lvl[a] - 1) /\ t[i] = s[i - 1]
      <4>1. t[i] \in alloc /\ lvl[t[i]] = (lvl[a] - 1) + 1 - (i - 1) /\ pos[t[i]] = pos[a]
        BY <2>2, <3>2 DEF IsColumn
      <4>2. lvl[a] \in Nat /\ i \in Nat
        BY <2>1
      <4>3. (lvl[a] - 1) + 1 - (i - 1) = lvl[a] + 1 - i
        BY <4>2
      <4> QED  BY <4>1, <4>3
    <3> QED  BY <2>4, <3>1, <3>2
  <2>6. IsColumn(lvl, pos, lvl[a], pos[a], t)
    BY <2>4, <2>5 DEF IsColumn
  <2> QED  BY <2>6 DEF t
<1>13. alloc \subseteq Good
  <2>1. level \in [alloc -> Nat]
    BY <1>1
  <2> HIDE DEF Good, level
  <2> QED  BY <1>12, <2>1, ByRank
<1>14. head \in Good
  <2> HIDE DEF Good
  <2> QED  BY <1>1, <1>13
<1> QED  BY <1>1, <1>9, <1>14

\* The rows from the top down, by level and position.
LEMMA RowsListed ==
  ASSUME NEW K, NEW N, NEW lvl, NEW pos, Grid(node, alloc, head, K, N, lvl, pos)
  PROVE  /\ NumRows = K
         /\ \A i \in 1..K : /\ Heads[i] \in alloc /\ lvl[Heads[i]] = K + 1 - i /\ pos[Heads[i]] = 0
                            /\ IsRow(lvl, pos, K + 1 - i, 1, Row(i))
<1>1. IsColumn(lvl, pos, K, 0, Heads)
  BY HeadsFound
<1>2. ASSUME NEW i \in 1..K
      PROVE  /\ Heads[i] \in alloc /\ lvl[Heads[i]] = K + 1 - i /\ pos[Heads[i]] = 0
             /\ IsRow(lvl, pos, K + 1 - i, 1, Row(i))
  <2>1. Heads[i] \in alloc /\ lvl[Heads[i]] = K + 1 - i /\ pos[Heads[i]] = 0
    BY <1>1 DEF IsColumn
  <2>2. IsRow(lvl, pos, lvl[Heads[i]], pos[Heads[i]] + 1, RightOf(Heads[i]))
    BY <2>1, RightOfRow
  <2>3. pos[Heads[i]] + 1 = 1
    BY <2>1
  <2> QED  BY <2>1, <2>2, <2>3 DEF Row
<1> QED  BY <1>1, <1>2 DEF IsColumn, NumRows

\* On a grid the rows are sorted and nested.
LEMMA GridNested == SkipInv => RowsNested
<1> SUFFICES ASSUME SkipInv PROVE RowsNested
  OBVIOUS
<1>1. PICK K, N, lvl, pos : Grid(node, alloc, head, K, N, lvl, pos)
  BY DEF SkipInv
<1>2. /\ alloc \subseteq Addr /\ K \in Nat \ {0} /\ pos \in [Addr -> Nat] /\ lvl \in [Addr -> Nat]
      /\ \A a \in alloc : 1 <= lvl[a] /\ lvl[a] <= K
      /\ \A a, b \in alloc : lvl[a] = lvl[b] /\ pos[a] = pos[b] => a = b
  BY <1>1 DEF Grid, Placed
<1>3. \A a \in alloc : a \in Addr /\ pos[a] \in Nat /\ lvl[a] \in Nat /\ node[a].val \in Int
  BY <1>1, <1>2, CellFields DEF Grid
<1>4. /\ NumRows = K
      /\ \A i \in 1..K : /\ Heads[i] \in alloc /\ lvl[Heads[i]] = K + 1 - i /\ pos[Heads[i]] = 0
                         /\ IsRow(lvl, pos, K + 1 - i, 1, Row(i))
  BY <1>1, RowsListed
<1>5. ASSUME NEW i \in 1..K
      PROVE  /\ Len(Row(i)) \in Nat
             /\ \A j \in 1..Len(Row(i)) : /\ Row(i)[j] \in alloc /\ lvl[Row(i)[j]] = K + 1 - i
                                          /\ 1 <= pos[Row(i)[j]]
             /\ \A j, k \in 1..Len(Row(i)) : j < k => pos[Row(i)[j]] < pos[Row(i)[k]]
             /\ \A c \in alloc : lvl[c] = K + 1 - i /\ 1 <= pos[c] => \E j \in 1..Len(Row(i)) : c = Row(i)[j]
  <2>1. IsRow(lvl, pos, K + 1 - i, 1, Row(i))
    BY <1>4
  <2>2. Len(Row(i)) \in Nat
    BY <2>1 DEF IsRow
  <2> QED  BY <2>1, <2>2 DEF IsRow
<1> DEFINE Part(i) == {Heads[i]} \cup {Row(i)[j] : j \in 1..Len(Row(i))}
<1>6. alloc = UNION {Part(i) : i \in 1..K}
  <2>1. ASSUME NEW a \in alloc PROVE \E i \in 1..K : a \in Part(i)
    <3> DEFINE i == K + 1 - lvl[a]
    <3>1. i \in 1..K /\ K + 1 - i = lvl[a]
      BY <1>2, <1>3
    <3> HIDE DEF i
    <3>2. CASE pos[a] = 0
      <4>1. a = Heads[i]
        BY <1>2, <1>4, <3>1, <3>2
      <4> QED  BY <3>1, <4>1
    <3>3. CASE pos[a] # 0
      <4>1. 1 <= pos[a]
        BY <1>3, <3>3
      <4>2. \E j \in 1..Len(Row(i)) : a = Row(i)[j]
        BY <1>5, <3>1, <4>1
      <4> QED  BY <3>1, <4>2
    <3> QED  BY <3>2, <3>3
  <2>2. ASSUME NEW i \in 1..K, NEW a \in Part(i) PROVE a \in alloc
    BY <1>4, <1>5
  <2> HIDE DEF Part
  <2> QED  BY <2>1, <2>2
<1>7. ASSUME NEW i \in 1..K, NEW j \in 1..(Len(Row(i)) - 1)
      PROVE  node[Row(i)[j]].val <= node[Row(i)[j + 1]].val
  <2>1. j \in 1..Len(Row(i)) /\ j + 1 \in 1..Len(Row(i)) /\ j < j + 1
    BY <1>5
  <2>2. /\ Row(i)[j] \in alloc /\ Row(i)[j + 1] \in alloc
        /\ 1 <= pos[Row(i)[j]] /\ pos[Row(i)[j]] < pos[Row(i)[j + 1]]
    BY <1>5, <2>1
  <2>3. 0 < pos[Row(i)[j]] /\ pos[Row(i)[j]] <= pos[Row(i)[j + 1]]
    BY <1>3, <2>2
  <2> QED  BY <1>1, <2>2, <2>3 DEF Grid, Sorted
<1> DEFINE Below(i, j, n) ==
             /\ node[Row(i)[j]].down = Row(i + 1)[n]
             /\ node[Row(i + 1)[n]].val = node[Row(i)[j]].val
             /\ j < Len(Row(i)) => \E m \in (n + 1)..Len(Row(i + 1)) :
                                     node[Row(i)[j + 1]].down = Row(i + 1)[m]
<1>8. ASSUME NEW i \in 1..K, NEW j \in 1..Len(Row(i)), i = K
      PROVE  node[Row(i)[j]].down = Null
  <2>1. Row(i)[j] \in alloc /\ lvl[Row(i)[j]] = K + 1 - i
    BY <1>5
  <2>2. lvl[Row(i)[j]] = 1
    BY <1>2, <1>8, <2>1
  <2> QED  BY <1>1, <2>1, <2>2 DEF Grid, DownOk
<1>9. ASSUME NEW i \in 1..K, i # K, NEW j \in 1..Len(Row(i))
      PROVE  \E n \in 1..Len(Row(i + 1)) : node[Row(i)[j]].down = Row(i + 1)[n]
                                           /\ pos[Row(i + 1)[n]] = pos[Row(i)[j]]
  <2> DEFINE a == Row(i)[j]
  <2>1. a \in alloc /\ lvl[a] = K + 1 - i /\ 1 <= pos[a]
    BY <1>5
  <2> HIDE DEF a
  <2>2. i + 1 \in 1..K /\ K + 1 - i # 1 /\ (K + 1 - i) - 1 = K + 1 - (i + 1)
    BY <1>2, <1>9
  <2>3. node[a].down \in alloc /\ lvl[node[a].down] = K + 1 - (i + 1) /\ pos[node[a].down] = pos[a]
    BY <1>1, <2>1, <2>2 DEF Grid, DownOk
  <2>4. PICK n \in 1..Len(Row(i + 1)) : node[a].down = Row(i + 1)[n]
    BY <1>5, <2>1, <2>2, <2>3
  <2> QED  BY <2>3, <2>4 DEF a
<1>10. ASSUME NEW i \in 1..K, i # K, NEW j \in 1..Len(Row(i))
       PROVE  \E n \in 1..Len(Row(i + 1)) : Below(i, j, n)
  <2>1. PICK n \in 1..Len(Row(i + 1)) : /\ node[Row(i)[j]].down = Row(i + 1)[n]
                                        /\ pos[Row(i + 1)[n]] = pos[Row(i)[j]]
    BY <1>9, <1>10
  <2>2. i + 1 \in 1..K
    BY <1>2, <1>10
  <2>3. /\ Row(i)[j] \in alloc /\ 1 <= pos[Row(i)[j]] /\ Row(i + 1)[n] \in alloc
        /\ Len(Row(i)) \in Nat /\ Len(Row(i + 1)) \in Nat
    BY <1>5, <2>2
  <2>4. node[Row(i + 1)[n]].val = node[Row(i)[j]].val
    <3>1. 0 < pos[Row(i)[j]] /\ pos[Row(i)[j]] <= pos[Row(i + 1)[n]]
          /\ 0 < pos[Row(i + 1)[n]] /\ pos[Row(i + 1)[n]] <= pos[Row(i)[j]]
      BY <1>3, <2>1, <2>3
    <3>2. /\ node[Row(i)[j]].val <= node[Row(i + 1)[n]].val
          /\ node[Row(i + 1)[n]].val <= node[Row(i)[j]].val
      BY <1>1, <2>3, <3>1 DEF Grid, Sorted
    <3>3. node[Row(i)[j]].val \in Int /\ node[Row(i + 1)[n]].val \in Int
      BY <1>3, <2>3
    <3> QED  BY <3>2, <3>3
  <2>5. ASSUME j < Len(Row(i))
        PROVE  \E m \in (n + 1)..Len(Row(i + 1)) : node[Row(i)[j + 1]].down = Row(i + 1)[m]
    <3>1. j + 1 \in 1..Len(Row(i)) /\ j < j + 1
      BY <2>3, <2>5
    <3>2. PICK m \in 1..Len(Row(i + 1)) : /\ node[Row(i)[j + 1]].down = Row(i + 1)[m]
                                          /\ pos[Row(i + 1)[m]] = pos[Row(i)[j + 1]]
      BY <1>9, <1>10, <3>1
    <3>3. Row(i + 1)[m] \in alloc /\ pos[Row(i)[j]] < pos[Row(i)[j + 1]]
      BY <1>5, <2>2, <3>1
    <3>4. pos[Row(i + 1)[n]] < pos[Row(i + 1)[m]] /\ pos[Row(i + 1)[n]] \in Nat /\ pos[Row(i + 1)[m]] \in Nat
      BY <1>3, <2>1, <2>3, <3>2, <3>3
    <3>5. ~ (m < n) /\ m # n
      <4>1. m < n => pos[Row(i + 1)[m]] < pos[Row(i + 1)[n]]
        BY <1>5, <2>2
      <4> QED  BY <3>4, <4>1
    <3>6. m \in (n + 1)..Len(Row(i + 1))
      BY <2>3, <3>5
    <3> QED  BY <3>2, <3>6
  <2> QED  BY <2>1, <2>4, <2>5
<1>11. \A i \in 1..K :
         \A j \in 1..Len(Row(i)) :
           IF i = K THEN node[Row(i)[j]].down = Null
           ELSE \E n \in 1..Len(Row(i + 1)) : Below(i, j, n)
  <2> HIDE DEF Below
  <2> QED  BY <1>8, <1>10
<1> QED  BY <1>4, <1>6, <1>7, <1>11 DEF RowsNested

\* Every row is sorted and found, in the same order, in the row below it, so
\* that erase leaves no link to a node that is deleted; no node is lost.
THEOREM RowsStayNested == SkipSpec => []RowsNested
  BY GridStays, GridNested, PTL

-----------------------------------------------------------------------------
(* The bag: the copies of a value are the nodes of the lowest row.         *)

Bases(nd, al, lvl, pos, v) == {a \in al : lvl[a] = 1 /\ 0 < pos[a] /\ nd[a].val = v}
Counted(nd, al, lvl, pos) == [v \in Vals |-> Cardinality(Bases(nd, al, lvl, pos, v))]
CopiesHere == [v \in Vals |-> Cardinality({j \in 1..Len(Bottom) : node[Bottom[j]].val = v})]

CountsOk ==
  \A K, N, lvl, pos :
    Grid(node, alloc, head, K, N, lvl, pos) => CopiesHere = Counted(node, alloc, lvl, pos)

\* The copies can be counted.
LEMMA BasesFinite ==
  ASSUME NEW nd, NEW al, NEW hd, NEW K, NEW N, NEW lvl, NEW pos, Grid(nd, al, hd, K, N, lvl, pos), NEW v
  PROVE  /\ IsFiniteSet(Bases(nd, al, lvl, pos, v))
         /\ Cardinality(Bases(nd, al, lvl, pos, v)) \in Nat
         /\ Cardinality(Bases(nd, al, lvl, pos, v)) > 0 <=> Bases(nd, al, lvl, pos, v) # {}
<1> DEFINE B == Bases(nd, al, lvl, pos, v)
<1>1. B \subseteq Addr
  BY DEF Bases, Grid, Placed
<1>2. IsFiniteSet(Addr)
  <2>1. 1 \in Int /\ NumNodes \in Int
    BY FirstHeadAssumption
  <2> QED  BY <2>1, FS_Interval DEF Addr
<1> HIDE DEF B
<1>3. IsFiniteSet(B)
  BY <1>1, <1>2, FS_Subset
<1>4. Cardinality(B) \in Nat /\ (Cardinality(B) = 0 <=> B = {})
  BY <1>3, FS_CardinalityType, FS_EmptySet
<1>5. Cardinality(B) > 0 <=> B # {}
  BY <1>4
<1> QED  BY <1>3, <1>4, <1>5 DEF B

\* Counted along the lowest row or over the nodes of level 1, the copies are as many.
LEMMA CountsAreOk == CountsOk
<1> SUFFICES ASSUME NEW K, NEW N, NEW lvl, NEW pos, Grid(node, alloc, head, K, N, lvl, pos)
             PROVE  CopiesHere = Counted(node, alloc, lvl, pos)
  BY DEF CountsOk
<1>1. IsRow(lvl, pos, 1, 1, Bottom)
  <2>1. K \in Nat \ {0}
    BY DEF Grid, Placed
  <2>2. K \in 1..K /\ K + 1 - K = 1
    BY <2>1
  <2>3. NumRows = K /\ IsRow(lvl, pos, K + 1 - K, 1, Row(K))
    BY <2>2, RowsListed
  <2> QED  BY <2>2, <2>3 DEF Bottom
<1> DEFINE s == Bottom
<1>2. /\ Len(s) \in Nat
      /\ \A j \in 1..Len(s) : s[j] \in alloc /\ lvl[s[j]] = 1 /\ 1 <= pos[s[j]]
      /\ \A j, k \in 1..Len(s) : j < k => pos[s[j]] < pos[s[k]]
      /\ \A c \in alloc : lvl[c] = 1 /\ 1 <= pos[c] => \E j \in 1..Len(s) : c = s[j]
  <2> HIDE DEF s
  <2>1. IsRow(lvl, pos, 1, 1, s)
    BY <1>1 DEF s
  <2>2. Len(s) \in Nat
    BY <2>1 DEF IsRow
  <2> QED  BY <2>1, <2>2 DEF IsRow
<1>3. \A a \in alloc : pos[a] \in Nat
  BY DEF Grid, Placed
<1>4. ASSUME NEW v \in Vals
      PROVE  Cardinality({j \in 1..Len(s) : node[s[j]].val = v}) =
             Cardinality(Bases(node, alloc, lvl, pos, v))
  <2> HIDE DEF s
  <2> DEFINE J == {j \in 1..Len(s) : node[s[j]].val = v}
             B == Bases(node, alloc, lvl, pos, v)
             f == [j \in J |-> s[j]]
  <2>1. f \in [J -> B]
    <3>1. \A j \in J : s[j] \in B
      <4> TAKE j \in J
      <4>1. j \in 1..Len(s) /\ node[s[j]].val = v
        OBVIOUS
      <4>2. s[j] \in alloc /\ lvl[s[j]] = 1 /\ 0 < pos[s[j]]
        BY <1>2, <1>3, <4>1
      <4> QED  BY <4>1, <4>2 DEF Bases
    <3> HIDE DEF J, B
    <3> QED  BY <3>1
  <2>2. \A j, k \in J : f[j] = f[k] => j = k
    <3> TAKE j, k \in J
    <3>1. j \in 1..Len(s) /\ k \in 1..Len(s) /\ f[j] = s[j] /\ f[k] = s[k]
      OBVIOUS
    <3>2. pos[s[j]] \in Nat /\ pos[s[k]] \in Nat
      BY <1>2, <1>3, <3>1
    <3>3. (j < k => pos[s[j]] < pos[s[k]]) /\ (k < j => pos[s[k]] < pos[s[j]])
      BY <1>2, <3>1
    <3> HIDE DEF f, J
    <3>4. ASSUME f[j] = f[k] PROVE j = k
      <4>1. s[j] = s[k]
        BY <3>1, <3>4
      <4>2. ~ (j < k) /\ ~ (k < j)
        BY <3>2, <3>3, <4>1
      <4> QED  BY <3>1, <4>2
    <3> QED  BY <3>4
  <2>3. \A b \in B : \E j \in J : f[j] = b
    <3> TAKE b \in B
    <3>1. b \in alloc /\ lvl[b] = 1 /\ 0 < pos[b] /\ node[b].val = v
      BY DEF Bases
    <3>2. 1 <= pos[b]
      BY <1>3, <3>1
    <3>3. PICK j \in 1..Len(s) : b = s[j]
      BY <1>2, <3>1, <3>2
    <3>4. j \in J
      BY <3>1, <3>3
    <3> QED  BY <3>3, <3>4
  <2>4. IsFiniteSet(J)
    <3>1. J \subseteq 1..Len(s) /\ 1 \in Int /\ Len(s) \in Int
      BY <1>2
    <3> HIDE DEF J
    <3> QED  BY <3>1, FS_Interval, FS_Subset
  <2> HIDE DEF f, J, B
  <2>5. f \in Bijection(J, B)
    <3>1. DOMAIN f = J
      BY <2>1
    <3> QED  BY <2>1, <2>2, <2>3, <3>1 DEF Bijection, Injection, Surjection, IsInjective
  <2>6. ExistsBijection(J, B)
    BY <2>5 DEF ExistsBijection
  <2>7. Cardinality(B) = Cardinality(J)
    BY <2>4, <2>6, FS_Bijection
  <2> QED  BY <2>7 DEF B, J
<1>5. CopiesHere = [v \in Vals |-> Cardinality({j \in 1..Len(s) : node[s[j]].val = v})]
  BY DEF CopiesHere
<1> HIDE DEF s
<1> DEFINE num(v) == Cardinality({j \in 1..Len(s) : node[s[j]].val = v})
           bas(v) == Cardinality(Bases(node, alloc, lvl, pos, v))
<1>6. \A v \in Vals : num(v) = bas(v)
  BY <1>4
<1>7. CopiesHere = [v \in Vals |-> num(v)] /\ Counted(node, alloc, lvl, pos) = [v \in Vals |-> bas(v)]
  BY <1>5 DEF Counted
<1> HIDE DEF num, bas
<1> QED  BY <1>6, <1>7

\* Under every node lies one of the lowest row.
LEMMA HasBase ==
  ASSUME NEW K, NEW N, NEW lvl, NEW pos, Grid(node, alloc, head, K, N, lvl, pos)
  PROVE  \A a \in alloc : \E b \in alloc : lvl[b] = 1 /\ pos[b] = pos[a]
<1> DEFINE level == [a \in alloc |-> lvl[a]]
           Good == {a \in alloc : \E b \in alloc : lvl[b] = 1 /\ pos[b] = pos[a]}
<1>1. \A a \in alloc : lvl[a] \in Nat
  BY DEF Grid, Placed
<1>2. \A a \in alloc : (\A b \in alloc : level[b] < level[a] => b \in Good) => a \in Good
  <2> SUFFICES ASSUME NEW a \in alloc, \A b \in alloc : level[b] < level[a] => b \in Good
               PROVE  a \in Good
    OBVIOUS
  <2>1. CASE lvl[a] = 1
    BY <2>1
  <2>2. CASE lvl[a] # 1
    <3> DEFINE d == node[a].down
    <3>1. d \in alloc /\ lvl[d] = lvl[a] - 1 /\ pos[d] = pos[a]
      BY <2>2 DEF Grid, DownOk
    <3> HIDE DEF d
    <3>2. level[d] < level[a]
      BY <1>1, <3>1
    <3>3. d \in Good
      <4> HIDE DEF level, Good
      <4> QED  BY <3>1, <3>2
    <3> QED  BY <3>1, <3>3
  <2> QED  BY <2>1, <2>2
<1>3. alloc \subseteq Good
  <2>1. level \in [alloc -> Nat]
    BY <1>1
  <2> HIDE DEF level, Good
  <2> QED  BY <1>2, <2>1, ByRank
<1> QED  BY <1>3

\* The walk for a value hits it if and only if there is a copy.
LEMMA HitsCounted ==
  ASSUME NEW K, NEW N, NEW lvl, NEW pos, Grid(node, alloc, head, K, N, lvl, pos), NEW v \in Vals
  PROVE  Hits(v) # {} <=> Counted(node, alloc, lvl, pos)[v] > 0
<1> DEFINE B == Bases(node, alloc, lvl, pos, v)
<1>1. v \in Int
  BY ValsAssumption
<1>2. Counted(node, alloc, lvl, pos)[v] > 0 <=> B # {}
  <2>1. Counted(node, alloc, lvl, pos)[v] = Cardinality(B)
    BY DEF Counted
  <2>2. Cardinality(B) > 0 <=> B # {}
    BY BasesFinite
  <2> HIDE DEF B
  <2> QED  BY <2>1, <2>2
<1>3. ASSUME NEW a \in B PROVE Hits(v) # {}
  <2>1. a \in alloc /\ 0 < pos[a] /\ node[a].val = v
    BY DEF Bases
  <2>2. \E p \in Hits(v) : lvl[p] = lvl[a] /\ pos[node[p].right] <= pos[a]
    BY <1>1, <2>1, HitsFound
  <2> QED  BY <2>2
<1>4. ASSUME NEW p \in Hits(v) PROVE B # {}
  <2> DEFINE g == node[p].right
  <2>1. g \in alloc /\ pos[p] < pos[g] /\ node[g].val = v /\ p \in alloc
    BY <1>1, HitsFound DEF HitAt
  <2> HIDE DEF g
  <2>2. PICK b \in alloc : lvl[b] = 1 /\ pos[b] = pos[g]
    BY <2>1, HasBase
  <2>3. /\ pos[p] \in Nat /\ pos[g] \in Nat /\ pos[b] \in Nat
        /\ node[b].val \in Int /\ node[g].val \in Int
    BY <2>1, CellFields DEF Grid, Placed
  <2>4. 0 < pos[g] /\ pos[g] <= pos[b] /\ 0 < pos[b] /\ pos[b] <= pos[g]
    BY <2>1, <2>2, <2>3
  <2>5. node[b].val <= node[g].val /\ node[g].val <= node[b].val
    BY <2>1, <2>4 DEF Grid, Sorted
  <2>6. node[b].val = v
    BY <2>1, <2>3, <2>5
  <2>7. b \in B
    BY <2>2, <2>4, <2>6 DEF Bases
  <2> QED  BY <2>7
<1> HIDE DEF B
<1> QED  BY <1>2, <1>3, <1>4

\* A tower adds one copy, its lowest node.
LEMMA AddCounts ==
  ASSUME NEW K, NEW N, NEW lvl, NEW pos, Grid(node, alloc, head, K, N, lvl, pos),
         NEW v \in Vals, NEW k \in 1..K, NEW m \in Nat, k <= m, Room(m)
  PROVE  Counted(Tower(v, k), alloc \cup New(k), LvlWith(k, lvl), PosWith(v, k, N, pos)) =
           [Counted(node, alloc, lvl, pos) EXCEPT ![v] = @ + 1]
<1> DEFINE lvl2 == LvlWith(k, lvl)
           pos2 == PosWith(v, k, N, pos)
           ps == Points(v)
           al == alloc \cup New(k)
           nd == Tower(v, k)
           old(w) == Bases(node, alloc, lvl, pos, w)
           new(w) == Bases(nd, al, lvl2, pos2, w)
<1>1. v \in Int
  BY ValsAssumption
<1>2. PlacedWith(v, k, N, lvl, pos, lvl2, pos2) /\ Towered(nd, v, k, ps)
  BY <1>1, PlacesWith, TowerWrites
<1>3. PointsUpto(v, lvl, pos, K, ps)
  BY <1>1, PointsFound
<1> HIDE DEF lvl2, pos2, ps, nd
<1>4. /\ K \in Nat \ {0} /\ N \in Nat /\ alloc \subseteq Addr /\ pos \in [Addr -> Nat]
      /\ \A i \in 1..k : i \in 1..m /\ i \in 1..K
      /\ 1 \in 1..k
  BY DEF Grid, Placed
<1>5. /\ \A i \in 1..k : FreeAddr(i) \in Addr \ alloc
      /\ \A i, j \in 1..k : FreeAddr(i) = FreeAddr(j) => i = j
  <2>1. /\ \A i \in 1..m : FreeAddr(i) \in Addr \ alloc
        /\ \A i, j \in 1..m : FreeAddr(i) = FreeAddr(j) => i = j
    BY Fresh
  <2> QED  BY <1>4, <2>1
<1>6. ASSUME NEW a \in alloc
      PROVE  nd[a].val = node[a].val /\ lvl2[a] = lvl[a] /\ (0 < pos2[a] <=> 0 < pos[a])
  <2>1. nd[a].val = node[a].val
    <3>1. CASE \E i \in 1..k : a = ps[i]
      BY <1>2, <3>1 DEF Towered
    <3>2. CASE \A i \in 1..k : a # ps[i]
      BY <1>2, <1>4, <1>5, <3>2 DEF Towered
    <3> QED  BY <3>1, <3>2
  <2>2. lvl2[a] = lvl[a] /\ pos2[a] = IF Before(v, pos, a) THEN pos[a] ELSE pos[a] + N + 2
    BY <1>2 DEF PlacedWith
  <2>3. a \in Addr /\ pos[a] \in Nat
    BY <1>4
  <2>4. ~ Before(v, pos, a) => pos[a] # 0
    BY DEF Before
  <2> QED  BY <1>4, <2>1, <2>2, <2>3, <2>4
<1> DEFINE b == FreeAddr(1)
<1>7. \A i \in 1..k : /\ nd[FreeAddr(i)].val = v /\ lvl2[FreeAddr(i)] = i /\ 0 < pos2[FreeAddr(i)]
  BY <1>2, <1>4 DEF PlacedWith, Towered
<1>8. \A a \in al : a \in alloc \/ \E i \in 1..k : a = FreeAddr(i)
  BY DEF New
<1>9. b \in al /\ b \notin alloc /\ alloc \subseteq al
  BY <1>4, <1>5 DEF New
<1>10. b \notin old(v)
  BY <1>9 DEF Bases
<1> HIDE DEF al
<1>11. new(v) = old(v) \cup {b}
  <2>1. \A a \in al : (lvl2[a] = 1 /\ 0 < pos2[a] /\ nd[a].val = v) =>
          (a = b \/ (a \in alloc /\ lvl[a] = 1 /\ 0 < pos[a] /\ node[a].val = v))
    BY <1>6, <1>7, <1>8
  <2>2. lvl2[b] = 1 /\ 0 < pos2[b] /\ nd[b].val = v
    BY <1>4, <1>7
  <2>3. \A a \in alloc : (lvl[a] = 1 /\ 0 < pos[a] /\ node[a].val = v) =>
          (a \in al /\ lvl2[a] = 1 /\ 0 < pos2[a] /\ nd[a].val = v)
    BY <1>6, <1>9
  <2> HIDE DEF b
  <2> QED  BY <1>9, <2>1, <2>2, <2>3 DEF Bases
<1>12. ASSUME NEW w \in Vals, w # v PROVE new(w) = old(w)
  <2>1. \A a \in al : (lvl2[a] = 1 /\ 0 < pos2[a] /\ nd[a].val = w) =>
          (a \in alloc /\ lvl[a] = 1 /\ 0 < pos[a] /\ node[a].val = w)
    BY <1>6, <1>7, <1>8, <1>12
  <2>2. \A a \in alloc : (lvl[a] = 1 /\ 0 < pos[a] /\ node[a].val = w) =>
          (a \in al /\ lvl2[a] = 1 /\ 0 < pos2[a] /\ nd[a].val = w)
    BY <1>6, <1>9
  <2> QED  BY <2>1, <2>2 DEF Bases
<1> HIDE DEF b
<1> DEFINE cnt(w) == Cardinality(old(w))
           cnt2(w) == Cardinality(new(w))
<1>13. cnt2(v) = cnt(v) + 1
  <2>1. IsFiniteSet(old(v))
    BY BasesFinite
  <2> HIDE DEF old, new
  <2> QED  BY <1>10, <1>11, <2>1, FS_AddElement
<1>14. \A w \in Vals : w # v => cnt2(w) = cnt(w)
  BY <1>12
<1>15. /\ Counted(nd, al, lvl2, pos2) = [w \in Vals |-> cnt2(w)]
       /\ Counted(node, alloc, lvl, pos) = [w \in Vals |-> cnt(w)]
  BY DEF Counted
<1> HIDE DEF old, new, cnt, cnt2
<1>16. Counted(nd, al, lvl2, pos2) = [Counted(node, alloc, lvl, pos) EXCEPT ![v] = @ + 1]
  BY <1>13, <1>14, <1>15
<1> QED  BY <1>16 DEF nd, al, lvl2, pos2

\* A row on top adds no other copy.
LEMMA AddRowCounts ==
  ASSUME NEW K, NEW N, NEW lvl, NEW pos, Grid(node, alloc, head, K, N, lvl, pos),
         NEW v \in Vals, Room(K + 2)
  PROVE  Counted(RowAdded(v, K), alloc \cup {FreeAddr(i) : i \in 1..(K + 2)},
                 LvlWithRow(K, lvl), PosWithRow(v, K, N, pos)) =
           [Counted(node, alloc, lvl, pos) EXCEPT ![v] = @ + 1]
<1> DEFINE x == FreeAddr(K + 1)
           y == FreeAddr(K + 2)
           nd == Tower(v, K)
           nd2 == RowAdded(v, K)
           al == alloc \cup New(K)
           al2 == alloc \cup {FreeAddr(i) : i \in 1..(K + 2)}
           lvl2 == LvlWith(K, lvl)
           pos2 == PosWith(v, K, N, pos)
           lvl3 == LvlWithRow(K, lvl)
           pos3 == PosWithRow(v, K, N, pos)
<1>1. K \in Nat \ {0} /\ K \in 1..K /\ K + 2 \in Nat /\ K <= K + 2 /\ alloc \subseteq Addr /\ v \in Int
  BY ValsAssumption DEF Grid, Placed
<1>2. Counted(nd, al, lvl2, pos2) = [Counted(node, alloc, lvl, pos) EXCEPT ![v] = @ + 1]
  BY <1>1, AddCounts
<1>3. /\ \A i \in 1..(K + 2) : FreeAddr(i) \in Addr \ alloc
      /\ \A i, j \in 1..(K + 2) : FreeAddr(i) = FreeAddr(j) => i = j
  BY <1>1, Fresh
<1>4. /\ K + 1 \in 1..(K + 2) /\ K + 2 \in 1..(K + 2)
      /\ \A i \in 1..K : i \in 1..(K + 2) /\ i # K + 1 /\ i # K + 2
      /\ \A i \in 1..(K + 2) : i \in 1..K \/ i = K + 1 \/ i = K + 2
  BY <1>1
<1>5. x \in Addr /\ y \in Addr /\ x \notin al /\ y \notin al /\ al \subseteq Addr
  BY <1>1, <1>3, <1>4 DEF New
<1>6. al2 = al \cup {x, y}
  <2>1. \A i \in 1..(K + 2) : i \in 1..K \/ i = K + 1 \/ i = K + 2
    BY <1>4
  <2>2. K + 1 \in 1..(K + 2) /\ K + 2 \in 1..(K + 2) /\ \A i \in 1..K : i \in 1..(K + 2)
    BY <1>4
  <2> QED  BY <2>1, <2>2 DEF New
<1>7. nd \in [Addr -> Cells]
  <2>1. Towered(nd, v, K, Points(v))
    BY <1>1, TowerWrites
  <2> HIDE DEF nd
  <2> QED  BY <2>1 DEF Towered
<1>8. \A a \in al : nd2[a] = nd[a] /\ lvl3[a] = lvl2[a] /\ pos3[a] = pos2[a]
  <2> TAKE a \in al
  <2>1. a \in Addr /\ a # x /\ a # y
    BY <1>5
  <2>2. nd2[a] = nd[a]
    <3> HIDE DEF nd
    <3>1. nd2 = [nd EXCEPT ![x] = [val |-> v, right |-> Null, down |-> FreeAddr(K)],
                           ![y] = [val |-> 0, right |-> x, down |-> head]]
      BY DEF RowAdded, nd
    <3> HIDE DEF nd2, x, y
    <3> QED  BY <1>7, <2>1, <3>1
  <2>3. lvl3[a] = lvl2[a] /\ pos3[a] = pos2[a]
    BY <2>1 DEF LvlWithRow, PosWithRow, RowLvl, RowPos
  <2> QED  BY <2>2, <2>3
<1>9. lvl3[x] = K + 1 /\ lvl3[y] = K + 1
  BY <1>5 DEF LvlWithRow, RowLvl
<1> HIDE DEF x, y, nd, nd2, al, al2, lvl2, pos2, lvl3, pos3
<1>10. \A w : Bases(nd2, al2, lvl3, pos3, w) = Bases(nd, al, lvl2, pos2, w)
  <2> TAKE w
  <2>1. \A a \in al2 : lvl3[a] = 1 => a \in al
    BY <1>1, <1>6, <1>9
  <2>2. al \subseteq al2
    BY <1>6
  <2> QED  BY <1>8, <2>1, <2>2 DEF Bases
<1>11. Counted(nd2, al2, lvl3, pos3) = Counted(nd, al, lvl2, pos2)
  BY <1>10 DEF Counted
<1> QED  BY <1>2, <1>11 DEF nd2, al2, lvl3, pos3

\* erase takes one copy away if there is one.
LEMMA EraseCounts ==
  ASSUME NEW K, NEW N, NEW lvl, NEW pos, Grid(node, alloc, head, K, N, lvl, pos),
         NEW v \in Vals, NEW nd, Erased(nd, v)
  PROVE  Counted(nd, alloc \ Gone(v), lvl, pos) =
           [Counted(node, alloc, lvl, pos) EXCEPT ![v] = IF @ > 0 THEN @ - 1 ELSE 0]
<1> DEFINE al == alloc \ Gone(v)
           old(w) == Bases(node, alloc, lvl, pos, w)
           new(w) == Bases(nd, al, lvl, pos, w)
           cnt(w) == Cardinality(old(w))
           cnt2(w) == Cardinality(new(w))
<1>1. v \in Int /\ alloc \subseteq Addr
  BY ValsAssumption DEF Grid, Placed
<1>2. /\ \A g \in Gone(v) : g \in alloc /\ 0 < pos[g] /\ node[g].val = v
      /\ \A g, c \in Gone(v) : lvl[g] = lvl[c] => g = c
      /\ \A p \in Hits(v) : node[p].right \in Gone(v)
  BY <1>1, GoneFound
<1>3. \A a \in al : a \in alloc /\ nd[a].val = node[a].val
  BY <1>1 DEF Erased
<1>4. \A w : new(w) = old(w) \ Gone(v)
  <2> TAKE w
  <2> QED  BY <1>3 DEF Bases
<1>5. \A w \in Vals : w # v => new(w) = old(w)
  <2> SUFFICES ASSUME NEW w \in Vals, w # v PROVE new(w) = old(w)
    OBVIOUS
  <2>1. old(w) \cap Gone(v) = {}
    BY <1>2 DEF Bases
  <2> HIDE DEF new, old
  <2> QED  BY <1>4, <2>1
<1>6. /\ IsFiniteSet(old(v)) /\ cnt(v) \in Nat /\ (cnt(v) > 0 <=> old(v) # {})
  BY BasesFinite
<1>7. cnt2(v) = IF cnt(v) > 0 THEN cnt(v) - 1 ELSE 0
  <2>1. CASE old(v) = {}
    <3>1. new(v) = {} /\ old(v) = {}
      <4> HIDE DEF new, old
      <4> QED  BY <1>4, <2>1
    <3>2. cnt2(v) = 0 /\ ~ (cnt(v) > 0)
      <4> HIDE DEF new, old
      <4> QED  BY <1>6, <3>1, FS_EmptySet
    <3> QED  BY <3>2
  <2>2. CASE old(v) # {}
    <3>1. PICK a \in alloc : lvl[a] = 1 /\ 0 < pos[a] /\ node[a].val = v
      BY <2>2 DEF Bases
    <3>2. PICK p \in Hits(v) : lvl[p] = lvl[a] /\ HitAt(v, lvl, pos, p)
      BY <1>1, <3>1, HitsFound
    <3> DEFINE g == node[p].right
    <3>3. g \in Gone(v) /\ lvl[g] = 1
      BY <1>2, <3>1, <3>2 DEF HitAt
    <3> HIDE DEF g
    <3>4. g \in old(v)
      BY <1>2, <3>3 DEF Bases
    <3>5. \A c \in Gone(v) : lvl[c] = 1 => c = g
      BY <1>2, <3>3
    <3>6. \A c \in old(v) : c \in Gone(v) => c = g
      BY <3>5 DEF Bases
    <3>7. new(v) = old(v) \ {g}
      <4> HIDE DEF new, old
      <4> QED  BY <1>4, <3>3, <3>6
    <3>8. cnt2(v) = cnt(v) - 1
      <4> HIDE DEF new, old
      <4> QED  BY <1>6, <3>4, <3>7, FS_RemoveElement
    <3> HIDE DEF new, old, cnt, cnt2
    <3> QED  BY <1>6, <2>2, <3>8
  <2> HIDE DEF new, old, cnt, cnt2
  <2> QED  BY <2>1, <2>2
<1>8. \A w \in Vals : w # v => cnt2(w) = cnt(w)
  BY <1>5
<1>9. /\ Counted(nd, al, lvl, pos) = [w \in Vals |-> cnt2(w)]
      /\ Counted(node, alloc, lvl, pos) = [w \in Vals |-> cnt(w)]
  BY DEF Counted
<1> HIDE DEF al, old, new, cnt, cnt2
<1>10. Counted(nd, al, lvl, pos) =
         [Counted(node, alloc, lvl, pos) EXCEPT ![v] = IF @ > 0 THEN @ - 1 ELSE 0]
  BY <1>7, <1>8, <1>9
<1> QED  BY <1>10 DEF al

-----------------------------------------------------------------------------
(* Every call is a call of the bag.                                        *)

\* The empty list is the empty bag.
LEMMA BagStarts == SkipInit => Bag!Init
<1> SUFFICES ASSUME SkipInit PROVE Bag!Init
  OBVIOUS
<1>1. SkipInv
  BY GridStarts
<1>2. PICK K, N, lvl, pos : Grid(node, alloc, head, K, N, lvl, pos)
  BY <1>1 DEF SkipInv
<1>3. alloc = {1} /\ head = 1 /\ pos[head] = 0
  BY <1>2 DEF SkipInit, Grid, Placed
<1>4. \A v : Bases(node, alloc, lvl, pos, v) = {}
  BY <1>3 DEF Bases
<1>5. Counted(node, alloc, lvl, pos) = [v \in Vals |-> 0]
  BY <1>4, FS_EmptySet DEF Counted
<1>6. CopiesHere = [v \in Vals |-> 0]
  BY <1>2, <1>5, CountsAreOk DEF CountsOk
<1>7. result = <<"none">>
  BY DEF SkipInit
<1> QED  BY <1>6, <1>7 DEF Bag!Init, CopiesHere

\* What a step must do for the bag to make one.
LEMMA BagAdds ==
  ASSUME NEW v \in Vals, CopiesHere' = [CopiesHere EXCEPT ![v] = @ + 1], result' = <<"add", v>>
  PROVE  Bag!Next
<1>1. Bag!Add(v)
  BY DEF Bag!Add, CopiesHere
<1> QED  BY <1>1 DEF Bag!Next

LEMMA BagSearches ==
  ASSUME NEW v \in Vals, CopiesHere' = CopiesHere, result' = <<"search", v, CopiesHere[v] > 0>>
  PROVE  Bag!Next
<1>1. Bag!Search(v)
  BY DEF Bag!Search, CopiesHere
<1> QED  BY <1>1 DEF Bag!Next

LEMMA BagErases ==
  ASSUME NEW v \in Vals, CopiesHere' = [CopiesHere EXCEPT ![v] = IF @ > 0 THEN @ - 1 ELSE 0],
         result' = <<"erase", v, CopiesHere[v] > 0>>
  PROVE  Bag!Next
<1>1. Bag!Erase(v)
  BY DEF Bag!Erase, CopiesHere
<1> QED  BY <1>1 DEF Bag!Next

\* Each call is a step of the bag.
LEMMA BagSteps ==
  ASSUME SkipInv, CountsOk, CountsOk', SkipNext
  PROVE  Bag!Next
<1>1. PICK K, N, lvl, pos : Grid(node, alloc, head, K, N, lvl, pos)
  BY DEF SkipInv
<1>2. CopiesHere = Counted(node, alloc, lvl, pos)
  BY <1>1 DEF CountsOk
<1>3. \A K2, N2, lvl2, pos2 :
        Grid(node', alloc', head', K2, N2, lvl2, pos2) => CopiesHere' = Counted(node', alloc', lvl2, pos2)
  BY DEF CountsOk
<1>4. ASSUME NEW v \in Vals, search(v) PROVE Bag!Next
  <2>1. Grid(node', alloc', head', K, N, lvl, pos) /\ node' = node /\ alloc' = alloc
    BY <1>1, <1>4 DEF search
  <2>2. CopiesHere' = CopiesHere
    BY <1>2, <1>3, <2>1
  <2>3. (Hits(v) # {}) = (CopiesHere[v] > 0)
    BY <1>1, <1>2, HitsCounted
  <2>4. result' = <<"search", v, Hits(v) # {}>>
    BY <1>4 DEF search
  <2>5. result' = <<"search", v, CopiesHere[v] > 0>>
    BY <2>3, <2>4
  <2> QED  BY <2>2, <2>5, BagSearches
<1>5. ASSUME NEW v \in Vals, add(v) PROVE Bag!Next
  <2>1. v \in Int
    BY ValsAssumption
  <2>2. Len(Points(v)) = K /\ K \in Nat
    BY <1>1, <2>1, RowsFound DEF Grid, Placed
  <2>3. PICK k \in 1..K : /\ Room(k) /\ node' = Tower(v, k) /\ head' = head
                          /\ alloc' = alloc \cup {FreeAddr(i) : i \in 1..k}
                          /\ result' = <<"add", v>>
    BY <1>5, <2>2 DEF add
  <2> DEFINE lvl2 == LvlWith(k, lvl)
             pos2 == PosWith(v, k, N, pos)
  <2>4. Grid(Tower(v, k), alloc \cup {FreeAddr(i) : i \in 1..k}, head, K, 2 * N + 2, lvl2, pos2)
    BY <1>1, <2>1, <2>3, AddKeepsGrid
  <2>5. Counted(Tower(v, k), alloc \cup New(k), lvl2, pos2) =
          [Counted(node, alloc, lvl, pos) EXCEPT ![v] = @ + 1]
    <3>1. k \in Nat /\ k <= k
      BY <2>2
    <3> QED  BY <1>1, <2>3, <3>1, AddCounts
  <2>6. alloc' = alloc \cup New(k)
    BY <2>3 DEF New
  <2> HIDE DEF lvl2, pos2
  <2>7. Grid(node', alloc', head', K, 2 * N + 2, lvl2, pos2)
    BY <2>3, <2>4
  <2>8. CopiesHere' = Counted(node', alloc', lvl2, pos2)
    BY <1>3, <2>7
  <2>9. CopiesHere' = [CopiesHere EXCEPT ![v] = @ + 1]
    BY <1>2, <2>3, <2>5, <2>6, <2>8
  <2> QED  BY <2>3, <2>9, BagAdds
<1>6. ASSUME NEW v \in Vals, add_row(v) PROVE Bag!Next
  <2>1. v \in Int
    BY ValsAssumption
  <2>2. Len(Points(v)) = K
    BY <1>1, <2>1, RowsFound
  <2>3. /\ Room(K + 2) /\ node' = RowAdded(v, K) /\ head' = FreeAddr(K + 2)
        /\ alloc' = alloc \cup {FreeAddr(i) : i \in 1..(K + 2)}
        /\ result' = <<"add", v>>
    BY <1>6, <2>2 DEF add_row, RowAdded
  <2> DEFINE lvl3 == LvlWithRow(K, lvl)
             pos3 == PosWithRow(v, K, N, pos)
             al3 == alloc \cup {FreeAddr(i) : i \in 1..(K + 2)}
  <2>4. Grid(RowAdded(v, K), al3, FreeAddr(K + 2), K + 1, 2 * N + 2, lvl3, pos3)
    BY <1>1, <2>1, <2>3, AddRowKeepsGrid
  <2>5. Counted(RowAdded(v, K), al3, lvl3, pos3) = [Counted(node, alloc, lvl, pos) EXCEPT ![v] = @ + 1]
    BY <1>1, <2>3, AddRowCounts
  <2>6. alloc' = al3
    BY <2>3
  <2> HIDE DEF lvl3, pos3, al3
  <2>7. Grid(node', alloc', head', K + 1, 2 * N + 2, lvl3, pos3)
    BY <2>3, <2>4, <2>6
  <2>8. CopiesHere' = Counted(node', alloc', lvl3, pos3)
    BY <1>3, <2>7
  <2>9. CopiesHere' = [CopiesHere EXCEPT ![v] = @ + 1]
    BY <1>2, <2>3, <2>5, <2>6, <2>8
  <2> QED  BY <2>3, <2>9, BagAdds
<1>7. ASSUME NEW v \in Vals, erase(v) PROVE Bag!Next
  <2>1. v \in Int
    BY ValsAssumption
  <2>2. /\ node' = [a \in Addr |-> CASE a \in Gone(v) -> Blank
                                     [] a \in Hits(v) -> [node[a] EXCEPT !.right = node[@].right]
                                     [] OTHER -> node[a]]
        /\ alloc' = alloc \ Gone(v) /\ result' = <<"erase", v, Hits(v) # {}>>
    BY <1>7 DEF erase, Gone
  <2>3. Erased(node', v)
    BY <1>1, <2>1, <2>2, EraseWrites
  <2>4. Grid(node', alloc', head', K, N, lvl, pos)
    BY <1>1, <1>7, <2>1, EraseKeepsGrid
  <2>5. CopiesHere' = Counted(node', alloc', lvl, pos)
    BY <1>3, <2>4
  <2>6. Counted(node', alloc \ Gone(v), lvl, pos) =
          [Counted(node, alloc, lvl, pos) EXCEPT ![v] = IF @ > 0 THEN @ - 1 ELSE 0]
    BY <1>1, <2>3, EraseCounts
  <2>7. CopiesHere' = [CopiesHere EXCEPT ![v] = IF @ > 0 THEN @ - 1 ELSE 0]
    BY <1>2, <2>2, <2>5, <2>6
  <2>8. (Hits(v) # {}) = (CopiesHere[v] > 0)
    BY <1>1, <1>2, HitsCounted
  <2>9. result' = <<"erase", v, Hits(v) # {}>>
    BY <2>2
  <2>10. result' = <<"erase", v, CopiesHere[v] > 0>>
    BY <2>8, <2>9
  <2> QED  BY <2>7, <2>10, BagErases
<1> QED  BY <1>4, <1>5, <1>6, <1>7 DEF SkipNext

\* The list is the bag of its lowest row: each call adds, finds or takes away
\* one copy of the value, and returns what the bag returns.
THEOREM SkiplistIsBag == SkipSpec => ImplementsBag
<1>1. SkipInv /\ CountsOk /\ CountsOk' /\ [SkipNext]_skipVars => [Bag!Next]_<<CopiesHere, result>>
  <2> SUFFICES ASSUME SkipInv, CountsOk, CountsOk', [SkipNext]_skipVars
               PROVE  [Bag!Next]_<<CopiesHere, result>>
    OBVIOUS
  <2>1. CASE SkipNext
    BY <2>1, BagSteps
  <2>2. CASE UNCHANGED skipVars
    <3>1. PICK K, N, lvl, pos : Grid(node, alloc, head, K, N, lvl, pos)
      BY DEF SkipInv
    <3>2. UNCHANGED <<node, alloc, head, result>>
      BY <2>2 DEF skipVars
    <3>3. Grid(node', alloc', head', K, N, lvl, pos)
      BY <3>1, <3>2
    <3>4. CopiesHere = Counted(node, alloc, lvl, pos)
      BY <3>1 DEF CountsOk
    <3>5. CopiesHere' = Counted(node', alloc', lvl, pos)
      BY <3>3 DEF CountsOk
    <3>6. CopiesHere' = CopiesHere
      BY <3>2, <3>4, <3>5
    <3> QED  BY <3>2, <3>6
  <2> QED  BY <2>1, <2>2
<1> QED  BY <1>1, CountsAreOk, BagStarts, GridStays, PTL DEF SkipSpec, ImplementsBag, Bag!Spec, CopiesHere

=============================================================================
