--------------------------- MODULE StructuresProofs ---------------------------
(***************************************************************************)
(* Proofs about the data structures: the stock factory, the thread-safe    *)
(* list, the lookup table and the pool, for any threads, keys and nodes,   *)
(* and any sizes.                                                          *)
(***************************************************************************)
EXTENDS StockFactory, ThreadsafeList, LookupTable, Minipool, FiniteSetTheorems,
        NaturalsInduction, WellFoundedInduction, TLAPS

(* The stock factory: only a late deleter makes two stocks of a key. *)

StockType ==
  /\ key \in [Stocks -> Keys \cup {NULL}]
  /\ holds \in [Threads -> SUBSET Stocks]
  /\ stocks_ \in [Keys -> Stocks \cup {NULL}]
  /\ dying \in [Threads -> Stocks \cup {NULL}]
  /\ stage \in [Threads -> {"none", "callback", "remove", "delete"}]
  /\ have \in BOOLEAN /\ raced \in BOOLEAN

\* A stock somebody holds has its key.
HeldExist == \A s \in Stocks : Live(s) => key[s] \in Keys

\* A stock being deleted is in existence, and out of reach.
DoomedAreGone ==
  \A t \in Threads : stage[t] # "none" =>
    dying[t] \in Stocks /\ key[dying[t]] \in Keys /\ ~Live(dying[t])

\* A stock is deleted by one thread.
DoomedOnce ==
  \A t, u \in Threads :
    t # u /\ stage[t] # "none" /\ stage[u] # "none" => dying[t] # dying[u]

\* While there is a factory its table has every live stock.
LiveAreListed ==
  ~raced /\ FactoryAlive => \A s \in Stocks : Live(s) => stocks_[key[s]] = s

StockInv ==
  /\ StockType /\ HeldExist /\ DoomedAreGone /\ DoomedOnce
  /\ LiveAreListed /\ OneStock

LEMMA StockInitially == StockInit => StockInv
BY DEF StockInit, StockInv, StockType, HeldExist, DoomedAreGone, DoomedOnce,
       LiveAreListed, OneStock, Live

\* What a step may do about live stocks for them to stay the only ones: as long
\* as there is a factory, the table tells; without one, nothing becomes live.
LEMMA StillOne ==
  ASSUME OneStock, LiveAreListed', raced => raced',
         FactoryAlive' \/ \A s \in Stocks : Live(s)' => Live(s) /\ key'[s] = key[s]
  PROVE  OneStock'
BY DEF OneStock, LiveAreListed

\* One more pointer to a live stock: nothing becomes live.
LEMMA GetKeeps ==
  ASSUME StockInv, NEW t \in Threads, NEW k \in Keys, GetStock(t, k)
  PROVE  StockInv'
<1> USE DEF StockInv, GetStock
<1>1. stocks_[k] \in Stocks /\ Live(stocks_[k])
  BY DEF StockType
<1>2. StockType'
  BY <1>1 DEF StockType
<1>3. \A s : Live(s)' <=> Live(s)
  BY <1>1 DEF StockType, Live
<1>4. FactoryAlive' <=> FactoryAlive
  BY DEF FactoryAlive
<1>5. HeldExist' /\ DoomedAreGone' /\ DoomedOnce'
  BY <1>3 DEF HeldExist, DoomedAreGone, DoomedOnce
<1>6. LiveAreListed'
  BY <1>3, <1>4 DEF LiveAreListed
<1>7. OneStock'
  BY <1>3, <1>6, StillOne
<1> QED  BY <1>2, <1>5, <1>6, <1>7

\* The table had no live stock of the key, so there was none.
LEMMA NewKeeps ==
  ASSUME StockInv, NEW t \in Threads, NEW k \in Keys, GetStock_new(t, k)
  PROVE  StockInv'
<1>1. PICK s \in Stocks :
        /\ key[s] = NULL
        /\ key' = [key EXCEPT ![s] = k]
        /\ stocks_' = [stocks_ EXCEPT ![k] = s]
        /\ holds' = [holds EXCEPT ![t] = @ \cup {s}]
  BY DEF GetStock_new
<1>2. /\ have /\ FactoryAlive /\ FactoryAlive'
      /\ UNCHANGED <<have, dying, stage, up, raced>>
      /\ stocks_[k] = NULL \/ ~Live(stocks_[k])
  BY DEF GetStock_new, FactoryAlive
<1>3. StockType'
  BY <1>1, <1>2 DEF StockInv, StockType
<1>4. key'[s] = k /\ \A r \in Stocks : r # s => key'[r] = key[r]
  BY <1>1 DEF StockInv, StockType
<1>5. \A r : Live(r)' <=> Live(r) \/ r = s
  BY <1>1 DEF StockInv, StockType, Live
<1>6. ~Live(s) /\ \A u \in Threads : stage[u] # "none" => dying[u] # s
  BY <1>1, StocksAssumption DEF StockInv, HeldExist, DoomedAreGone
<1>7. HeldExist'
  BY <1>4, <1>5 DEF StockInv, HeldExist
<1>8. DoomedAreGone' /\ DoomedOnce'
  BY <1>2, <1>4, <1>5, <1>6 DEF StockInv, DoomedAreGone, DoomedOnce
<1>9. LiveAreListed'
  <2> SUFFICES ASSUME ~raced, NEW r \in Stocks, Live(r) \/ r = s
               PROVE  stocks_'[key'[r]] = r
    BY <1>2, <1>5 DEF LiveAreListed
  <2>1. CASE r = s
    BY <1>1, <1>4, <2>1 DEF StockInv, StockType
  <2>2. CASE r # s
    <3>1. stocks_[key[r]] = r /\ key[r] \in Keys /\ key'[r] = key[r]
      BY <1>2, <1>4, <2>2 DEF StockInv, LiveAreListed, HeldExist
    <3>2. key[r] # k
      BY <1>2, <2>2, <3>1, StocksAssumption
    <3> QED  BY <1>1, <3>1, <3>2 DEF StockInv, StockType
  <2> QED  BY <2>1, <2>2
<1>10. OneStock'
  BY <1>2, <1>9, StillOne DEF StockInv
<1> QED  BY <1>3, <1>7, <1>8, <1>9, <1>10 DEF StockInv

\* Only the stock whose pointer ends can stop being live.
LEMMA ReleaseKeeps ==
  ASSUME StockInv, NEW t \in Threads, NEW s \in Stocks, Release(t, s)
  PROVE  StockInv'
<1>1. /\ UNCHANGED <<key, stocks_, have, up, raced>>
      /\ stage[t] = "none" /\ s \in holds[t] /\ Live(s)
      /\ holds' = [holds EXCEPT ![t] = @ \ {s}]
  BY DEF Release, Live
<1>2. \A r : Live(r)' => Live(r)
  BY <1>1 DEF StockInv, StockType, Live
<1>3. StockType'
  BY DEF Release, StockInv, StockType
<1>4. HeldExist'
  BY <1>1, <1>2 DEF StockInv, HeldExist
<1>5. \/ UNCHANGED <<dying, stage>>
      \/ /\ dying' = [dying EXCEPT ![t] = s]
         /\ stage' = [stage EXCEPT ![t] = "callback"]
         /\ ~Live(s)'
  <2>1. CASE \E u \in Threads \ {t} : s \in holds[u]
    BY <2>1 DEF Release
  <2>2. CASE ~\E u \in Threads \ {t} : s \in holds[u]
    <3>1. ~Live(s)'
      BY <1>1, <2>2 DEF StockInv, StockType, Live
    <3> QED  BY <2>2, <3>1 DEF Release
  <2> QED  BY <2>1, <2>2
<1>6. key[s] \in Keys /\ \A u \in Threads : stage[u] # "none" => dying[u] # s
  BY <1>1 DEF StockInv, HeldExist, DoomedAreGone
<1>7. DoomedAreGone' /\ DoomedOnce'
  BY <1>1, <1>2, <1>5, <1>6 DEF StockInv, StockType, DoomedAreGone, DoomedOnce
<1>8. FactoryAlive' => FactoryAlive
  BY <1>1, <1>5 DEF StockInv, StockType, FactoryAlive
<1>9. LiveAreListed'
  BY <1>1, <1>2, <1>8 DEF StockInv, LiveAreListed
<1>10. OneStock'
  BY <1>1, <1>2, <1>9, StillOne DEF StockInv
<1> QED  BY <1>3, <1>4, <1>7, <1>9, <1>10 DEF StockInv

\* The deleter finds the factory; if not, the program has ended.
LEMMA CallbackKeeps ==
  ASSUME StockInv, NEW t \in Threads, WeakDeleteCallback(t)
  PROVE  StockInv'
<1>1. /\ UNCHANGED <<key, holds, stocks_, have, dying, raced>>
      /\ stage[t] = "callback"
      /\ \/ FactoryAlive /\ stage' = [stage EXCEPT ![t] = "remove"]
         \/ UNCHANGED stage
  BY DEF WeakDeleteCallback
<1>2. \A r : Live(r)' <=> Live(r)
  BY <1>1 DEF Live
<1>3. FactoryAlive' => FactoryAlive
  BY <1>1 DEF FactoryAlive
<1>4. StockType' /\ \A u \in Threads : stage'[u] # "none" => stage[u] # "none"
  BY <1>1 DEF StockInv, StockType
<1>5. HeldExist' /\ DoomedAreGone' /\ DoomedOnce'
  BY <1>1, <1>2, <1>4 DEF StockInv, HeldExist, DoomedAreGone, DoomedOnce
<1>6. LiveAreListed'
  BY <1>1, <1>2, <1>3 DEF StockInv, LiveAreListed
<1>7. OneStock'
  BY <1>1, <1>2, <1>6, StillOne DEF StockInv
<1> QED  BY <1>4, <1>5, <1>6, <1>7 DEF StockInv

\* The entry that is erased is that of the dead stock, or the race is recorded.
LEMMA RemoveKeeps ==
  ASSUME StockInv, NEW t \in Threads, RemoveStock(t)
  PROVE  StockInv'
<1>1. /\ UNCHANGED <<key, holds, have, dying>>
      /\ stage[t] = "remove" /\ stage' = [stage EXCEPT ![t] = "delete"]
      /\ stocks_' = [stocks_ EXCEPT ![key[dying[t]]] = NULL]
      /\ raced' = (raced \/ stocks_[key[dying[t]]] \notin {NULL, dying[t]})
  BY DEF RemoveStock
<1>2. \A r : Live(r)' <=> Live(r)
  BY <1>1 DEF Live
<1>3. StockType' /\ \A u \in Threads : stage'[u] # "none" => stage[u] # "none"
  BY <1>1 DEF StockInv, StockType
<1>4. HeldExist' /\ DoomedAreGone' /\ DoomedOnce'
  BY <1>1, <1>2, <1>3 DEF StockInv, HeldExist, DoomedAreGone, DoomedOnce
<1>5. LiveAreListed'
  <2> SUFFICES ASSUME ~raced', NEW r \in Stocks, Live(r)
               PROVE  stocks_'[key[r]] = r
    BY <1>1, <1>2 DEF LiveAreListed
  <2>1. FactoryAlive
    BY <1>1 DEF FactoryAlive
  <2>2. stocks_[key[r]] = r /\ key[r] \in Keys
    BY <1>1, <2>1 DEF StockInv, LiveAreListed, HeldExist
  <2>3. ~Live(dying[t])
    BY <1>1 DEF StockInv, DoomedAreGone
  <2>4. key[r] # key[dying[t]]
    BY <1>1, <2>2, <2>3, StocksAssumption
  <2> QED  BY <1>1, <2>2, <2>4 DEF StockInv, StockType
<1>6. OneStock'
  BY <1>1, <1>2, <1>5, StillOne DEF StockInv
<1> QED  BY <1>3, <1>4, <1>5, <1>6 DEF StockInv

\* The table ends only with the factory.
LEMMA DeleteKeeps ==
  ASSUME StockInv, NEW t \in Threads, DeleteStock(t)
  PROVE  StockInv'
<1>1. /\ UNCHANGED <<holds, have, raced>> /\ stage[t] = "delete"
      /\ key' = [key EXCEPT ![dying[t]] = NULL]
      /\ dying' = [dying EXCEPT ![t] = NULL]
      /\ stage' = [stage EXCEPT ![t] = "none"]
      /\ \/ UNCHANGED stocks_
         \/ stocks_' = [k \in Keys |-> NULL]
  BY DEF DeleteStock
<1>2. \A r : Live(r)' <=> Live(r)
  BY <1>1 DEF Live
<1>3. StockType'
  BY <1>1 DEF StockInv, StockType
<1>4. dying[t] \in Stocks /\ ~Live(dying[t])
  BY <1>1 DEF StockInv, DoomedAreGone
<1>5. \A r \in Stocks : r # dying[t] => key'[r] = key[r]
  BY <1>1 DEF StockInv, StockType
<1>6. HeldExist'
  BY <1>2, <1>4, <1>5 DEF StockInv, HeldExist
<1>7. \A u \in Threads : stage'[u] # "none" =>
        u # t /\ stage[u] # "none" /\ dying'[u] = dying[u] /\ dying[u] # dying[t]
  BY <1>1 DEF StockInv, StockType, DoomedOnce
<1>8. DoomedAreGone' /\ DoomedOnce'
  BY <1>2, <1>5, <1>7 DEF StockInv, DoomedAreGone, DoomedOnce
<1>9. FactoryAlive' => FactoryAlive /\ UNCHANGED stocks_
  <2> SUFFICES ASSUME FactoryAlive' PROVE FactoryAlive /\ UNCHANGED stocks_
    OBVIOUS
  <2>1. have \/ \E u \in Threads \ {t} : stage[u] \in {"remove", "delete"}
    BY <1>1 DEF FactoryAlive, StockInv, StockType
  <2> QED  BY <2>1 DEF FactoryAlive, DeleteStock
<1>10. LiveAreListed'
  BY <1>1, <1>2, <1>4, <1>5, <1>9 DEF StockInv, LiveAreListed
<1>11. OneStock'
  BY <1>1, <1>2, <1>4, <1>5, <1>10, StillOne DEF StockInv
<1> QED  BY <1>3, <1>6, <1>8, <1>10, <1>11 DEF StockInv

LEMMA ReleaseFactoryKeeps == ASSUME StockInv, ReleaseFactory PROVE StockInv'
<1>1. /\ UNCHANGED <<key, holds, dying, stage, raced>> /\ have' = FALSE
      /\ \/ UNCHANGED stocks_
         \/ stocks_' = [k \in Keys |-> NULL]
  BY DEF ReleaseFactory
<1>2. \A r : Live(r)' <=> Live(r)
  BY <1>1 DEF Live
<1>3. StockType' /\ HeldExist' /\ DoomedAreGone' /\ DoomedOnce'
  BY <1>1, <1>2 DEF StockInv, StockType, HeldExist, DoomedAreGone, DoomedOnce
<1>4. FactoryAlive' => FactoryAlive /\ UNCHANGED stocks_
  BY DEF ReleaseFactory, FactoryAlive
<1>5. LiveAreListed'
  BY <1>1, <1>2, <1>4 DEF StockInv, LiveAreListed
<1>6. OneStock'
  BY <1>1, <1>2, <1>5, StillOne DEF StockInv
<1> QED  BY <1>3, <1>5, <1>6 DEF StockInv

\* GetStock of a key gives the same stock to everybody as long as no deleter
\* comes too late (factory.cc:27-55, asserted in factory.cc:64-66).
THEOREM OneStockOfAKey == StockSpec => []OneStock
<1>1. StockInv /\ [StockNext]_stockVars => StockInv'
  <2> SUFFICES ASSUME StockInv, [StockNext]_stockVars PROVE StockInv'
    OBVIOUS
  <2>1. ASSUME NEW t \in Threads, NEW k \in Keys, GetStock(t, k) \/ GetStock_new(t, k)
        PROVE  StockInv'
    BY <2>1, GetKeeps, NewKeeps
  <2>2. ASSUME NEW t \in Threads, NEW s \in Stocks, Release(t, s) PROVE StockInv'
    BY <2>2, ReleaseKeeps
  <2>3. ASSUME NEW t \in Threads, WeakDeleteCallback(t) \/ RemoveStock(t) \/ DeleteStock(t)
        PROVE  StockInv'
    BY <2>3, CallbackKeeps, RemoveKeeps, DeleteKeeps
  <2>4. CASE ReleaseFactory
    BY <2>4, ReleaseFactoryKeeps
  <2>5. CASE UNCHANGED stockVars
    BY <2>5 DEF stockVars, StockInv, StockType, HeldExist, DoomedAreGone, DoomedOnce,
                LiveAreListed, OneStock, Live, FactoryAlive
  <2> QED  BY <2>1, <2>2, <2>3, <2>4, <2>5 DEF StockNext
<1> QED  BY <1>1, StockInitially, PTL DEF StockSpec, StockInv

-----------------------------------------------------------------------------
(* The thread-safe list: its walks are safe. *)

Kinds == {"for_each", "find_first_of", "remove_if"}

ListType ==
  /\ next \in [Nodes \cup {HeadNode} -> Nodes \cup {NULL}]
  /\ used \subseteq Nodes
  /\ mtx \in [Nodes \cup {HeadNode} -> Threads \cup {NULL}]
  /\ walk \in [Threads -> {"none"} \cup Kinds]
  /\ cur \in [Threads -> Nodes \cup {HeadNode, NULL}]
  /\ nxt \in [Threads -> Nodes \cup {NULL}]

\* What is in the list leads to what is in the list, or ends it.
Linked == \A n \in used \cup {HeadNode} : next[n] \in used \cup {NULL}

\* No node has two predecessors: who has locked the one has all that lead to it.
OnePredecessor ==
  \A m, n \in used \cup {HeadNode} : next[m] = next[n] /\ next[m] # NULL => m = n

ListInv == ListType /\ Linked /\ OnePredecessor /\ WalkersSafe

LEMMA ListInitially == ListInit => ListInv
BY NodesAssumption
   DEF ListInit, ListInv, ListType, Linked, OnePredecessor, WalkersSafe, Walking

\* A new node has no predecessor but the head, which nobody has locked.
LEMMA PushKeeps == ASSUME ListInv, NEW n \in Nodes, push_front(n) PROVE ListInv'
<1> USE NodesAssumption DEF ListInv, ListType, push_front
<1>1. /\ next' \in [Nodes \cup {HeadNode} -> Nodes \cup {NULL}]
      /\ next'[HeadNode] = n /\ next'[n] = next[HeadNode]
      /\ \A m \in (Nodes \cup {HeadNode}) \ {n, HeadNode} : next'[m] = next[m]
  OBVIOUS
<1>2. ListType'
  BY <1>1
<1>3. Linked'
  BY <1>1 DEF Linked
<1>4. OnePredecessor'
  BY <1>1 DEF Linked, OnePredecessor
<1>5. WalkersSafe'
  <2> SUFFICES ASSUME NEW t \in Threads, walk[t] # "none"
               PROVE  /\ cur[t] \in used' \cup {HeadNode} /\ mtx[cur[t]] = t
                      /\ nxt[t] = next'[cur[t]] /\ nxt[t] \in used' \cup {NULL}
    BY DEF WalkersSafe, Walking
  <2>1. /\ cur[t] \in used \cup {HeadNode} /\ mtx[cur[t]] = t
        /\ nxt[t] = next[cur[t]] /\ nxt[t] \in used \cup {NULL}
    BY DEF WalkersSafe, Walking
  <2>2. cur[t] \notin {n, HeadNode}
    BY <2>1
  <2> QED  BY <1>1, <2>1, <2>2
<1> QED  BY <1>2, <1>3, <1>4, <1>5

LEMMA BeginKeeps ==
  ASSUME ListInv, NEW t \in Threads, NEW kind \in Kinds, Begin(t, kind) PROVE ListInv'
<1> USE NodesAssumption DEF ListInv, ListType, Begin
<1>1. ListType' /\ Linked' /\ OnePredecessor'
  BY DEF Linked, OnePredecessor, Kinds
<1>2. WalkersSafe'
  <2> SUFFICES ASSUME NEW u \in Threads, walk'[u] # "none"
               PROVE  /\ cur'[u] \in used \cup {HeadNode} /\ mtx'[cur'[u]] = u
                      /\ nxt'[u] = next[cur'[u]] /\ nxt'[u] \in used \cup {NULL}
    BY DEF WalkersSafe, Walking
  <2>1. CASE u = t
    BY <2>1 DEF Linked
  <2>2. CASE u # t
    BY <2>2 DEF WalkersSafe, Walking
  <2> QED  BY <2>1, <2>2
<1> QED  BY <1>1, <1>2

LEMMA AdvanceKeeps == ASSUME ListInv, NEW t \in Threads, Advance(t) PROVE ListInv'
<1> USE NodesAssumption DEF ListInv, ListType, Advance, LockNext, Visit
<1>1. cur[t] \in used \cup {HeadNode} /\ nxt[t] \in used /\ mtx[cur[t]] = t
  BY DEF WalkersSafe, Walking
<1>2. ListType' /\ Linked' /\ OnePredecessor'
  BY <1>1 DEF Linked, OnePredecessor
<1>3. WalkersSafe'
  <2> SUFFICES ASSUME NEW u \in Threads, walk[u] # "none"
               PROVE  /\ cur'[u] \in used \cup {HeadNode} /\ mtx'[cur'[u]] = u
                      /\ nxt'[u] = next[cur'[u]] /\ nxt'[u] \in used \cup {NULL}
    BY DEF WalkersSafe, Walking
  <2>1. CASE u = t
    BY <1>1, <2>1 DEF Linked
  <2>2. CASE u # t
    <3>1. /\ cur[u] \in used \cup {HeadNode} /\ mtx[cur[u]] = u
          /\ nxt[u] = next[cur[u]] /\ nxt[u] \in used \cup {NULL}
      BY DEF WalkersSafe, Walking
    <3>2. cur[u] # cur[t] /\ cur[u] # nxt[t]
      BY <1>1, <2>2, <3>1
    <3> QED  BY <1>1, <2>2, <3>1, <3>2
  <2> QED  BY <2>1, <2>2
<1> QED  BY <1>2, <1>3

LEMMA ReturnKeeps ==
  ASSUME ListInv, NEW t \in Threads, walk[t] # "none", Return(t) PROVE ListInv'
<1> USE NodesAssumption DEF ListInv, ListType, Return
<1>1. cur[t] \in used \cup {HeadNode} /\ mtx[cur[t]] = t
  BY DEF WalkersSafe, Walking
<1>2. ListType' /\ Linked' /\ OnePredecessor'
  BY <1>1 DEF Linked, OnePredecessor
<1>3. WalkersSafe'
  <2> SUFFICES ASSUME NEW u \in Threads \ {t}, walk[u] # "none"
               PROVE  /\ cur'[u] \in used \cup {HeadNode} /\ mtx'[cur'[u]] = u
                      /\ nxt'[u] = next[cur'[u]] /\ nxt'[u] \in used \cup {NULL}
    BY DEF WalkersSafe, Walking
  <2>1. /\ cur[u] \in used \cup {HeadNode} /\ mtx[cur[u]] = u
        /\ nxt[u] = next[cur[u]] /\ nxt[u] \in used \cup {NULL}
    BY DEF WalkersSafe, Walking
  <2> QED  BY <1>1, <2>1
<1> QED  BY <1>2, <1>3

\* The deleted node has one predecessor, which the walk has locked: nobody else
\* is at it, and nobody else goes to it.
LEMMA UnlinkKeeps == ASSUME ListInv, NEW t \in Threads, remove_if(t) PROVE ListInv'
<1> USE NodesAssumption DEF ListInv, ListType, remove_if, LockNext, Visit
<1>1. /\ cur[t] \in used \cup {HeadNode} /\ nxt[t] \in used /\ mtx[cur[t]] = t
      /\ nxt[t] = next[cur[t]] /\ cur[t] # nxt[t]
  BY DEF WalkersSafe, Walking
<1>2. /\ next' \in [Nodes \cup {HeadNode} -> Nodes \cup {NULL}]
      /\ next'[cur[t]] = next[nxt[t]]
      /\ \A m \in (Nodes \cup {HeadNode}) \ {cur[t]} : next'[m] = next[m]
  BY <1>1
<1>3. \A m \in (used \cup {HeadNode}) \ {cur[t]} : next[m] # nxt[t]
  BY <1>1 DEF OnePredecessor
<1>4. next[nxt[t]] \in (used \ {nxt[t]}) \cup {NULL}
  BY <1>1, <1>3 DEF Linked
<1>5. ListType'
  BY <1>1, <1>2
<1>6. Linked'
  BY <1>1, <1>2, <1>3, <1>4 DEF Linked
<1>7. OnePredecessor'
  BY <1>1, <1>2, <1>3 DEF OnePredecessor
<1>8. WalkersSafe'
  <2> SUFFICES ASSUME NEW u \in Threads, walk[u] # "none"
               PROVE  /\ cur[u] \in used' \cup {HeadNode} /\ mtx[cur[u]] = u
                      /\ nxt'[u] = next'[cur[u]] /\ nxt'[u] \in used' \cup {NULL}
    BY DEF WalkersSafe, Walking
  <2>1. CASE u = t
    BY <1>1, <1>2, <1>4, <2>1
  <2>2. CASE u # t
    <3>1. /\ cur[u] \in used \cup {HeadNode} /\ mtx[cur[u]] = u
          /\ nxt[u] = next[cur[u]] /\ nxt[u] \in used \cup {NULL}
      BY DEF WalkersSafe, Walking
    <3>2. cur[u] # cur[t] /\ cur[u] # nxt[t]
      BY <1>1, <2>2, <3>1
    <3> QED  BY <1>2, <1>3, <2>2, <3>1, <3>2
  <2> QED  BY <2>1, <2>2
<1> QED  BY <1>5, <1>6, <1>7, <1>8

LEMMA ListStep == ListInv /\ [ListNext]_listVars => ListInv'
<1> SUFFICES ASSUME ListInv, [ListNext]_listVars PROVE ListInv'
  OBVIOUS
<1>1. ASSUME NEW n \in Nodes, push_front(n) PROVE ListInv'
  BY <1>1, PushKeeps
<1>2. ASSUME NEW t \in Threads, NEW kind \in Kinds, Begin(t, kind) PROVE ListInv'
  BY <1>2, BeginKeeps
<1>3. ASSUME NEW t \in Threads, Step(t) PROVE ListInv'
  <2>1. CASE Advance(t)
    BY <2>1, AdvanceKeeps
  <2>2. CASE find_first_of(t)
    BY <2>2, ReturnKeeps DEF find_first_of, LockNext
  <2>3. CASE remove_if(t)
    BY <2>3, UnlinkKeeps
  <2>4. CASE ReachEnd(t)
    BY <2>4, ReturnKeeps DEF ReachEnd
  <2> QED  BY <1>3, <2>1, <2>2, <2>3, <2>4 DEF Step
<1>4. CASE UNCHANGED listVars
  BY <1>4 DEF listVars, ListInv, ListType, Linked, OnePredecessor, WalkersSafe, Walking
<1> QED  BY <1>1, <1>2, <1>3, <1>4 DEF ListNext, Kinds

(* No walk ever comes to a deleted node, whoever removes whatever in between
   (for_each, find_first_of and remove_if of threadsafe_list.hpp). *)
THEOREM WalksAreSafe == ListSpec => []WalkersSafe
<1>1. ListInv => WalkersSafe
  BY DEF ListInv
<1> QED  BY ListInitially, ListStep, <1>1, PTL DEF ListSpec

(* The walks visit everything once. *)

\* The nodes of the list after m, by their ranks, which go down along the list.
After(r, m) == {x \in used : m = HeadNode \/ r[x] < r[m]}

Ordered(r) ==
  /\ r \in [Nodes -> Nat]
  /\ \A m, n \in used : r[m] = r[n] => m = n
  /\ \A m \in used \cup {HeadNode} :
       IF next[m] = NULL THEN After(r, m) = {}
       ELSE next[m] \in After(r, m) /\ \A x \in After(r, m) : r[x] <= r[next[m]]

\* What a walk still has to visit is after its node, what it has visited is not.
Progress(r) ==
  \A t \in Walking : due[t] \subseteq seen[t] \cup After(r, cur[t]) /\ seen[t] \cap After(r, cur[t]) = {}

Histories == due \in [Threads -> SUBSET Nodes] /\ seen \in [Threads -> SUBSET Nodes]

VisitInv == ListInv /\ Histories /\ \E r : Ordered(r) /\ Progress(r)

\* After the next node are all nodes after this one but the next.
LEMMA NextAfter ==
  ASSUME ListInv, NEW r, Ordered(r), NEW c \in used \cup {HeadNode}, NEW d, d = next[c], d # NULL
  PROVE  After(r, d) = After(r, c) \ {d}
<1>1. d \in After(r, c) /\ \A x \in After(r, c) : r[x] <= r[d]
  BY DEF Ordered
<1>2. \A x \in used : r[x] \in Nat
  BY DEF Ordered, ListInv, ListType
<1>3. d \in used /\ d # HeadNode /\ r[d] \in Nat
  BY <1>1, <1>2, NodesAssumption DEF After, ListInv, ListType
<1>4. After(r, d) = {x \in used : r[x] < r[d]}
  BY <1>3 DEF After
<1>5. ASSUME NEW x \in used PROVE r[x] < r[d] <=> x \in After(r, c) \ {d}
  <2>1. r[x] \in Nat
    BY <1>2
  <2>2. r[x] < r[d] => x # d /\ x \in After(r, c)
    <3>1. c = HeadNode \/ (c \in used /\ r[c] \in Nat /\ r[d] < r[c])
      BY <1>1, <1>2 DEF After
    <3> QED  BY <1>3, <2>1, <3>1 DEF After
  <2>3. x \in After(r, c) /\ x # d => r[x] < r[d]
    <3>1. x # d => r[x] # r[d]
      BY <1>3 DEF Ordered
    <3> QED  BY <1>1, <1>3, <2>1, <3>1
  <2> QED  BY <2>2, <2>3
<1>6. After(r, c) \subseteq used
  BY DEF After
<1> QED  BY <1>4, <1>5, <1>6

\* One more rank, above the others.
LEMMA PushOrders == ASSUME VisitInv, NEW n \in Nodes, push_front(n) PROVE VisitInv'
<1> USE NodesAssumption DEF push_front
<1>1. ListInv' /\ Histories'
  BY PushKeeps DEF VisitInv, Histories
<1>2. PICK r : Ordered(r) /\ Progress(r)
  BY DEF VisitInv
<1>3. /\ next \in [Nodes \cup {HeadNode} -> Nodes \cup {NULL}] /\ used \subseteq Nodes
      /\ r \in [Nodes -> Nat] /\ n \notin used /\ n # HeadNode
  BY <1>2 DEF VisitInv, ListInv, ListType, Ordered
<1>4. PICK h \in Nat : \A x \in used : r[x] < h
  <2>1. CASE next[HeadNode] = NULL
    <3>1. used = {}
      BY <1>2, <2>1 DEF Ordered, After
    <3> QED  BY <3>1
  <2>2. CASE next[HeadNode] # NULL
    <3>1. next[HeadNode] \in used /\ \A x \in used : r[x] <= r[next[HeadNode]]
      BY <1>2, <2>2 DEF Ordered, After
    <3>2. r[next[HeadNode]] + 1 \in Nat /\ \A x \in used : r[x] < r[next[HeadNode]] + 1
      BY <1>3, <3>1
    <3> QED  BY <3>2
  <2> QED  BY <2>1, <2>2
<1>5. PICK s \in [Nodes -> Nat] : s[n] = h /\ \A x \in used : s[x] = r[x]
  <2>1. [r EXCEPT ![n] = h] \in [Nodes -> Nat]
    BY <1>3, <1>4
  <2>2. \A x \in used : [r EXCEPT ![n] = h][x] = r[x]
    BY <1>3
  <2>3. [r EXCEPT ![n] = h][n] = h
    BY <1>3
  <2> QED  BY <2>1, <2>2, <2>3
<1>6. used' = used \cup {n} /\ next'[HeadNode] = n /\ next'[n] = next[HeadNode]
      /\ \A m \in used : next'[m] = next[m]
  BY <1>3
<1>7. ASSUME NEW m \in used PROVE After(s, m)' = After(r, m)
  <2>1. \A x \in used : s[x] < s[m] <=> r[x] < r[m]
    BY <1>5
  <2>2. ~(s[n] < s[m])
    BY <1>3, <1>4, <1>5
  <2>3. m # HeadNode
    BY <1>3
  <2> QED  BY <1>6, <2>1, <2>2, <2>3 DEF After
<1>8. After(s, n)' = used /\ After(s, HeadNode)' = used \cup {n}
  BY <1>3, <1>4, <1>5, <1>6 DEF After
<1>9. After(r, HeadNode) = used
  BY DEF After
<1>10. Ordered(s)'
  <2>1. \A x, y \in used' : s[x] = s[y] => x = y
    <3>1. \A x, y \in used : s[x] = s[y] => x = y
      BY <1>2, <1>5 DEF Ordered
    <3>2. \A x \in used : s[x] # s[n]
      BY <1>3, <1>4, <1>5
    <3> QED  BY <1>6, <3>1, <3>2
  <2>2. ASSUME NEW m \in used
        PROVE  IF next'[m] = NULL THEN After(s, m)' = {}
               ELSE next'[m] \in After(s, m)' /\ \A x \in After(s, m)' : s[x] <= s[next'[m]]
    <3>1. IF next[m] = NULL THEN After(r, m) = {}
          ELSE next[m] \in After(r, m) /\ \A x \in After(r, m) : r[x] <= r[next[m]]
      BY <1>2 DEF Ordered
    <3>2. After(r, m) \subseteq used
      BY DEF After
    <3> QED  BY <1>5, <1>6, <1>7, <3>1, <3>2
  <2>3. IF next'[n] = NULL THEN After(s, n)' = {}
        ELSE next'[n] \in After(s, n)' /\ \A x \in After(s, n)' : s[x] <= s[next'[n]]
    <3>1. IF next[HeadNode] = NULL THEN used = {}
          ELSE next[HeadNode] \in used /\ \A x \in used : r[x] <= r[next[HeadNode]]
      BY <1>2, <1>9 DEF Ordered
    <3> QED  BY <1>5, <1>6, <1>8, <3>1
  <2>4. next'[HeadNode] # NULL /\ next'[HeadNode] \in After(s, HeadNode)'
        /\ \A x \in After(s, HeadNode)' : s[x] <= s[next'[HeadNode]]
    BY <1>3, <1>4, <1>5, <1>6, <1>8
  <2>5. s \in [Nodes -> Nat]
    OBVIOUS
  <2> HIDE DEF push_front
  <2> QED  BY <1>6, <2>1, <2>2, <2>3, <2>4, <2>5 DEF Ordered
<1>11. Progress(s)'
  <2> SUFFICES ASSUME NEW t \in Threads, walk[t] # "none"
               PROVE  /\ due[t] \subseteq seen[t] \cup After(s, cur[t])'
                      /\ seen[t] \cap After(s, cur[t])' = {}
    BY DEF Progress, Walking
  <2>1. cur[t] \in used \cup {HeadNode} /\ mtx[cur[t]] = t /\ t # NULL
    BY DEF VisitInv, ListInv, WalkersSafe, Walking
  <2>2. cur[t] \in used
    BY <2>1
  <2>3. After(s, cur[t])' = After(r, cur[t])
    BY <1>7, <2>2
  <2> QED  BY <1>2, <2>3 DEF Progress, Walking
<1> QED  BY <1>1, <1>10, <1>11 DEF VisitInv

\* The list stays; one walk begins, ends, or comes to the next node.
LEMMA WalkProgresses ==
  ASSUME VisitInv, NEW t \in Threads, ListInv', Histories', UNCHANGED <<next, used>>,
         \A u \in Threads \ {t} :
           walk'[u] = walk[u] /\ cur'[u] = cur[u] /\ due'[u] = due[u] /\ seen'[u] = seen[u],
         NEW r, Ordered(r), Progress(r),
         t \in Walking' => /\ due'[t] \subseteq seen'[t] \cup After(r, cur'[t])
                           /\ seen'[t] \cap After(r, cur'[t]) = {}
  PROVE  VisitInv'
<1>1. \A m : After(r, m)' = After(r, m)
  BY DEF After
<1>2. Ordered(r)'
  BY <1>1 DEF Ordered
<1>3. Progress(r)'
  <2> SUFFICES ASSUME NEW u \in Walking'
               PROVE  /\ due'[u] \subseteq seen'[u] \cup After(r, cur'[u])
                      /\ seen'[u] \cap After(r, cur'[u]) = {}
    BY DEF Progress, After
  <2>1. CASE u = t
    BY <2>1
  <2>2. CASE u # t
    BY <2>2 DEF Progress, Walking
  <2> QED  BY <2>1, <2>2
<1> QED  BY <1>2, <1>3 DEF VisitInv

LEMMA BeginProgresses ==
  ASSUME VisitInv, NEW t \in Threads, NEW kind \in Kinds, Begin(t, kind) PROVE VisitInv'
<1> USE DEF Begin
<1>1. ListInv'
  BY BeginKeeps DEF VisitInv
<1>2. Histories' /\ used \subseteq Nodes
  BY DEF VisitInv, ListInv, ListType, Histories
<1>3. PICK r : Ordered(r) /\ Progress(r)
  BY DEF VisitInv
<1>4. due'[t] = used /\ seen'[t] = {} /\ cur'[t] = HeadNode
  BY DEF VisitInv, ListInv, ListType, Histories
<1>5. After(r, HeadNode) = used
  BY DEF After
<1>6. \A u \in Threads \ {t} :
        walk'[u] = walk[u] /\ cur'[u] = cur[u] /\ due'[u] = due[u] /\ seen'[u] = seen[u]
  BY DEF VisitInv, ListInv, ListType, Histories
<1> QED  BY <1>1, <1>2, <1>3, <1>4, <1>5, <1>6, WalkProgresses

LEMMA AdvanceProgresses == ASSUME VisitInv, NEW t \in Threads, Advance(t) PROVE VisitInv'
<1> USE DEF Advance, LockNext, Visit
<1>1. ListInv'
  BY AdvanceKeeps DEF VisitInv
<1>2. Histories' /\ used \subseteq Nodes
  BY DEF VisitInv, ListInv, ListType, Histories
<1>3. PICK r : Ordered(r) /\ Progress(r)
  BY DEF VisitInv
<1>4. due'[t] = due[t] /\ seen'[t] = seen[t] \cup {nxt[t]} /\ cur'[t] = nxt[t]
  BY DEF VisitInv, ListInv, ListType, Histories
<1>5. cur[t] \in used \cup {HeadNode} /\ nxt[t] = next[cur[t]] /\ next[cur[t]] # NULL /\ nxt[t] \in used
  BY DEF VisitInv, ListInv, WalkersSafe, Walking
<1>7. After(r, nxt[t]) = After(r, cur[t]) \ {nxt[t]}
  BY <1>3, <1>5, NextAfter DEF VisitInv
<1>8. due[t] \subseteq seen[t] \cup After(r, cur[t]) /\ seen[t] \cap After(r, cur[t]) = {}
  BY <1>3 DEF Progress, Walking
<1>9. /\ due'[t] \subseteq seen'[t] \cup After(r, cur'[t])
      /\ seen'[t] \cap After(r, cur'[t]) = {}
  BY <1>4, <1>7, <1>8
<1>10. \A u \in Threads \ {t} :
         walk'[u] = walk[u] /\ cur'[u] = cur[u] /\ due'[u] = due[u] /\ seen'[u] = seen[u]
  BY DEF VisitInv, ListInv, ListType, Histories
<1> QED  BY <1>1, <1>2, <1>3, <1>9, <1>10, WalkProgresses

LEMMA ReturnProgresses ==
  ASSUME VisitInv, NEW t \in Threads, walk[t] # "none", Return(t) PROVE VisitInv'
<1> USE DEF Return
<1>1. ListInv'
  BY ReturnKeeps DEF VisitInv
<1>2. Histories'
  BY DEF VisitInv, Histories
<1>3. PICK r : Ordered(r) /\ Progress(r)
  BY DEF VisitInv
<1>4. t \notin Walking'
  BY DEF VisitInv, ListInv, ListType, Walking
<1>5. \A u \in Threads \ {t} :
        walk'[u] = walk[u] /\ cur'[u] = cur[u] /\ due'[u] = due[u] /\ seen'[u] = seen[u]
  BY DEF VisitInv, ListInv, ListType, Histories
<1> QED  BY <1>1, <1>2, <1>3, <1>4, <1>5, WalkProgresses

\* One node less; the ranks of the others stay in order.
LEMMA RemoveOrders == ASSUME VisitInv, NEW t \in Threads, remove_if(t) PROVE VisitInv'
<1> USE DEF remove_if, LockNext, Visit
<1>1. ListInv'
  BY UnlinkKeeps DEF VisitInv
<1>2. Histories' /\ used \subseteq Nodes
  BY DEF VisitInv, ListInv, ListType, Histories
<1>3. PICK r : Ordered(r) /\ Progress(r)
  BY DEF VisitInv
<1> DEFINE d == nxt[t]
           c == cur[t]
<1>4. /\ c \in used \cup {HeadNode} /\ d \in used /\ d = next[c] /\ next[c] # NULL
      /\ mtx[c] = t /\ mtx[d] = NULL
  BY DEF VisitInv, ListInv, WalkersSafe, Walking
<1>5. c # d /\ d # HeadNode
  BY <1>4, NodesAssumption, <1>2
<1>6. /\ used' = used \ {d} /\ next'[c] = next[d]
      /\ \A m \in (used \cup {HeadNode}) \ {c} : next'[m] = next[m]
  BY <1>2, <1>4 DEF VisitInv, ListInv, ListType
<1>7. \A m \in (used \cup {HeadNode}) \ {c} : next[m] # d
  BY <1>4 DEF VisitInv, ListInv, OnePredecessor
<1>8. \A m : After(r, m)' = After(r, m) \ {d}
  BY <1>6 DEF After
<1>10. After(r, d) = After(r, c) \ {d}
  BY <1>3, <1>4, NextAfter DEF VisitInv
<1>11. Ordered(r)'
  <2>1. r \in [Nodes -> Nat] /\ \A x, y \in used' : r[x] = r[y] => x = y
    BY <1>3, <1>6 DEF Ordered
  <2>2. ASSUME NEW m \in used' \cup {HeadNode}
        PROVE  IF next'[m] = NULL THEN After(r, m)' = {}
               ELSE next'[m] \in After(r, m)' /\ \A x \in After(r, m)' : r[x] <= r[next'[m]]
    <3>1. CASE m = c
      <4>1. IF next[d] = NULL THEN After(r, d) = {}
            ELSE next[d] \in After(r, d) /\ \A x \in After(r, d) : r[x] <= r[next[d]]
        BY <1>3, <1>4 DEF Ordered
      <4>2. After(r, m)' = After(r, d)
        BY <1>8, <1>10, <3>1
      <4> QED  BY <1>6, <3>1, <4>1, <4>2
    <3>2. CASE m # c
      <4>1. IF next[m] = NULL THEN After(r, m) = {}
            ELSE next[m] \in After(r, m) /\ \A x \in After(r, m) : r[x] <= r[next[m]]
        BY <1>3, <1>6 DEF Ordered
      <4>2. next'[m] = next[m] /\ next[m] # d
        BY <1>6, <1>7, <3>2
      <4> QED  BY <1>8, <4>1, <4>2
    <3> QED  BY <3>1, <3>2
  <2> QED  BY <2>1, <2>2 DEF Ordered
<1>12. Progress(r)'
  <2> SUFFICES ASSUME NEW u \in Threads, walk[u] # "none"
               PROVE  /\ due'[u] \subseteq seen'[u] \cup (After(r, cur[u]) \ {d})
                      /\ seen'[u] \cap (After(r, cur[u]) \ {d}) = {}
    BY <1>8 DEF Progress, Walking
  <2>1. due[u] \subseteq seen[u] \cup After(r, cur[u]) /\ seen[u] \cap After(r, cur[u]) = {}
    BY <1>3 DEF Progress, Walking
  <2>2. due'[u] = due[u] \ {d} /\ (seen'[u] = seen[u] \/ seen'[u] = seen[u] \cup {d})
    BY DEF VisitInv, Histories
  <2> QED  BY <2>1, <2>2
<1> QED  BY <1>1, <1>2, <1>11, <1>12 DEF VisitInv

LEMMA VisitStep == VisitInv /\ [ListNext]_listVars => VisitInv'
<1> SUFFICES ASSUME VisitInv, [ListNext]_listVars PROVE VisitInv'
  OBVIOUS
<1>1. ASSUME NEW n \in Nodes, push_front(n) PROVE VisitInv'
  BY <1>1, PushOrders
<1>2. ASSUME NEW t \in Threads, NEW kind \in Kinds, Begin(t, kind) PROVE VisitInv'
  BY <1>2, BeginProgresses
<1>3. ASSUME NEW t \in Threads, Step(t) PROVE VisitInv'
  <2>1. CASE Advance(t)
    BY <2>1, AdvanceProgresses
  <2>2. CASE find_first_of(t)
    BY <2>2, ReturnProgresses DEF find_first_of, LockNext
  <2>3. CASE remove_if(t)
    BY <2>3, RemoveOrders
  <2>4. CASE ReachEnd(t)
    BY <2>4, ReturnProgresses DEF ReachEnd
  <2> QED  BY <1>3, <2>1, <2>2, <2>3, <2>4 DEF Step
<1>4. CASE UNCHANGED listVars
  <2>1. ListInv'
    BY <1>4, ListStep DEF VisitInv
  <2>2. Histories' /\ Walking' = Walking
    BY <1>4 DEF listVars, VisitInv, Histories, Walking
  <2>3. \A r : Ordered(r) /\ Progress(r) => Ordered(r)' /\ Progress(r)'
    BY <1>4, <2>2 DEF listVars, Ordered, Progress, After
  <2> QED  BY <2>1, <2>2, <2>3 DEF VisitInv
<1> QED  BY <1>1, <1>2, <1>3, <1>4 DEF ListNext, Kinds

LEMMA VisitInitially == ListInit => VisitInv
<1> SUFFICES ASSUME ListInit PROVE VisitInv
  OBVIOUS
<1> DEFINE r == [n \in Nodes |-> 0]
<1>1. used = {} /\ Walking = {} /\ next[HeadNode] = NULL
  BY DEF ListInit, Walking
<1>2. Ordered(r)
  BY <1>1 DEF Ordered, After
<1>3. Progress(r)
  BY <1>1 DEF Progress
<1>4. Histories
  BY DEF ListInit, Histories
<1> QED  BY <1>2, <1>3, <1>4, ListInitially DEF VisitInv

(* A walk that ends has been at every element that was there all the time, and
   at none twice (for_each, find_first_of and remove_if of
   threadsafe_list.hpp). *)
THEOREM WalksVisitAll == ListSpec => []VisitsAll
<1>1. ASSUME VisitInv PROVE VisitsAll
  <2> SUFFICES ASSUME NEW t \in Walking
               PROVE  (nxt[t] = NULL => due[t] \subseteq seen[t]) /\ nxt[t] \notin seen[t]
    BY DEF VisitsAll
  <2>1. PICK r : Ordered(r) /\ Progress(r)
    BY <1>1 DEF VisitInv
  <2>2. due[t] \subseteq seen[t] \cup After(r, cur[t]) /\ seen[t] \cap After(r, cur[t]) = {}
    BY <2>1 DEF Progress
  <2>3. cur[t] \in used \cup {HeadNode} /\ nxt[t] = next[cur[t]] /\ seen[t] \subseteq Nodes
    BY <1>1 DEF VisitInv, ListInv, WalkersSafe, Histories, Walking
  <2>4. IF nxt[t] = NULL THEN After(r, cur[t]) = {} ELSE nxt[t] \in After(r, cur[t])
    BY <2>1, <2>3 DEF Ordered
  <2> QED  BY <2>2, <2>3, <2>4, NodesAssumption
<1> QED  BY <1>1, VisitInitially, VisitStep, PTL DEF ListSpec

-----------------------------------------------------------------------------
(* The lookup table: what get_map returns. *)

TableType ==
  /\ data \in [MapKeys -> MapVals \cup {NULL}]
  /\ lockedBy \in [Buckets -> Threads \cup {NULL}]
  /\ reached \in [Threads -> Int]
  /\ copying \subseteq Threads
  /\ res \in [Threads -> [MapKeys -> MapVals \cup {NULL}]]

\* Nothing is in a bucket outside of the array.
NothingOutside ==
  \A k \in MapKeys : get_bucket(k) \notin Buckets =>
    data[k] = NULL /\ \A t \in Threads : res[t][k] = NULL

\* A get_map has the buckets it has passed, and all of them while it copies.
LocksKept ==
  \A t \in Threads, b \in Buckets :
    t \in copying \/ b < reached[t] => lockedBy[b] = t

\* What has been copied is still so in the table.
CopiesHold ==
  \A t \in copying, k \in MapKeys :
    get_bucket(k) \in Buckets /\ get_bucket(k) < reached[t] => res[t][k] = data[k]

TableInv == TableType /\ NothingOutside /\ LocksKept /\ CopiesHold

LEMMA TableInitially == TableInit => TableInv
BY DEF TableInit, TableInv, TableType, NothingOutside, LocksKept, CopiesHold, Empty, Buckets

\* A key whose bucket is free is in no bucket that a get_map copies.
LEMMA UpdateKeeps ==
  ASSUME TableInv, NEW k \in MapKeys, NEW v \in MapVals \cup {NULL}, BucketFree(k),
         data' = [data EXCEPT ![k] = v],
         UNCHANGED <<lockedBy, reached, copying, res, wild>>
  PROVE  TableInv'
<1> USE DEF TableInv
<1>1. get_bucket(k) \in Buckets /\ \A t \in copying : lockedBy[get_bucket(k)] # t
  BY TableAssumption DEF BucketFree, TableType
<1>2. copying = {}
  BY <1>1 DEF LocksKept, TableType
<1>3. TableType' /\ LocksKept' /\ CopiesHold'
  BY <1>2 DEF TableType, LocksKept, CopiesHold
<1>4. NothingOutside'
  BY <1>1 DEF NothingOutside, TableType, get_bucket
<1> QED  BY <1>3, <1>4

LEMMA LockKeeps == ASSUME TableInv, NEW t \in Threads, get_map_lock(t) PROVE TableInv'
<1> USE DEF TableInv
<1> DEFINE b == reached[t]
<1>1. b \in Buckets /\ lockedBy[b] = NULL /\ t \notin copying /\ b \in Int
      /\ data' = data /\ res' = res /\ lockedBy' = [lockedBy EXCEPT ![b] = t]
  BY DEF get_map_lock, TableType
<1>2. \/ b + 1 = bucket_size /\ reached' = [reached EXCEPT ![t] = 0]
         /\ copying' = copying \cup {t}
      \/ reached' = [reached EXCEPT ![t] = b + 1] /\ copying' = copying
  BY DEF get_map_lock
<1>3. TableType' /\ NothingOutside'
  BY <1>1, <1>2 DEF TableType, NothingOutside, get_bucket
<1>4. LocksKept'
  <2> SUFFICES ASSUME NEW u \in Threads, NEW c \in Buckets, u \in copying' \/ c < reached'[u]
               PROVE  lockedBy'[c] = u
    BY DEF LocksKept, Buckets
  <2>1. CASE u = t
    <3>1. c < b \/ c = b
      BY <1>1, <1>2, <2>1, TableAssumption DEF Buckets, TableType
    <3> QED  BY <1>1, <2>1, <3>1 DEF LocksKept, TableType
  <2>2. CASE u # t
    <3>1. lockedBy[c] = u
      BY <1>2, <2>2 DEF LocksKept, TableType
    <3> QED  BY <1>1, <3>1, TableAssumption DEF TableType
  <2> QED  BY <2>1, <2>2
<1>5. CopiesHold'
  BY <1>1, <1>2 DEF CopiesHold, TableType, get_bucket, Buckets
<1> QED  BY <1>3, <1>4, <1>5

LEMMA CopyKeeps == ASSUME TableInv, NEW t \in Threads, get_map_copy(t) PROVE TableInv'
<1> USE DEF TableInv
<1> DEFINE b == reached[t]
           copied == [k \in MapKeys |-> IF get_bucket(k) = b THEN data[k] ELSE res[t][k]]
<1>1. /\ t \in copying /\ b \in Buckets /\ b \in Int
      /\ UNCHANGED <<data, lockedBy, copying>>
      /\ res' = [res EXCEPT ![t] = copied]
      /\ reached' = [reached EXCEPT ![t] = b + 1]
  BY DEF get_map_copy, TableType
<1>2. copied \in [MapKeys -> MapVals \cup {NULL}]
  BY DEF TableType
<1>3. TableType' /\ LocksKept'
  BY <1>1, <1>2 DEF TableType, LocksKept
<1>4. NothingOutside'
  BY <1>1 DEF NothingOutside, TableType, get_bucket
<1>5. CopiesHold'
  <2> SUFFICES ASSUME NEW u \in copying, NEW k \in MapKeys,
                      get_bucket(k) \in Buckets, get_bucket(k) < reached'[u]
               PROVE  res'[u][k] = data[k]
    BY <1>1 DEF CopiesHold, get_bucket
  <2>1. CASE u = t
    <3>1. get_bucket(k) = b \/ get_bucket(k) < b
      BY <1>1, <2>1 DEF TableType, Buckets
    <3>2. res'[u][k] = copied[k]
      BY <1>1, <2>1 DEF TableType
    <3> QED  BY <2>1, <3>1, <3>2 DEF CopiesHold
  <2>2. CASE u # t
    BY <1>1, <2>2 DEF CopiesHold, TableType
  <2> QED  BY <2>1, <2>2
<1> QED  BY <1>3, <1>4, <1>5

LEMMA ReturnsMap == ASSUME TableInv, NEW t \in Threads, get_map_return(t) PROVE TableInv'
<1> USE DEF TableInv
<1>1. TableType'
  BY DEF TableType, get_map_return, Empty
<1>2. NothingOutside'
  BY DEF NothingOutside, TableType, get_map_return, Empty, get_bucket
<1>3. LocksKept'
  <2> SUFFICES ASSUME NEW u \in Threads, NEW c \in Buckets, u \in copying' \/ c < reached'[u]
               PROVE  lockedBy'[c] = u
    BY DEF LocksKept, Buckets
  <2>1. u # t
    BY DEF get_map_return, TableType, Buckets
  <2>2. lockedBy[c] = u
    BY <2>1 DEF get_map_return, LocksKept, TableType
  <2> QED  BY <2>1, <2>2 DEF get_map_return
<1>4. CopiesHold'
  BY DEF CopiesHold, TableType, get_map_return, get_bucket, Buckets
<1> QED  BY <1>1, <1>2, <1>3, <1>4

LEMMA TableStep == TableInv /\ [TableNext]_tableVars => TableInv'
<1> SUFFICES ASSUME TableInv, [TableNext]_tableVars PROVE TableInv'
  OBVIOUS
<1>1. ASSUME NEW k \in MapKeys, OutOfRange(k) PROVE TableInv'
  BY <1>1 DEF OutOfRange, TableInv, TableType, NothingOutside, LocksKept, CopiesHold, get_bucket
<1>2. ASSUME NEW k \in MapKeys, remove_mapping(k) PROVE TableInv'
  BY <1>2, UpdateKeeps DEF remove_mapping
<1>3. ASSUME NEW k \in MapKeys, NEW v \in MapVals, add_or_update_mapping(k, v) PROVE TableInv'
  BY <1>3, UpdateKeeps DEF add_or_update_mapping
<1>4. ASSUME NEW t \in Threads, get_map(t) PROVE TableInv'
  BY <1>4 DEF get_map, TableInv, TableType, NothingOutside, LocksKept, CopiesHold, get_bucket, Buckets
<1>5. ASSUME NEW t \in Threads, get_map_lock(t) PROVE TableInv'
  BY <1>5, LockKeeps
<1>6. ASSUME NEW t \in Threads, get_map_copy(t) PROVE TableInv'
  BY <1>6, CopyKeeps
<1>7. ASSUME NEW t \in Threads, get_map_return(t) PROVE TableInv'
  BY <1>7, ReturnsMap
<1>8. CASE UNCHANGED tableVars
  BY <1>8 DEF tableVars, TableInv, TableType, NothingOutside, LocksKept, CopiesHold, get_bucket
<1> QED  BY <1>1, <1>2, <1>3, <1>4, <1>5, <1>6, <1>7, <1>8 DEF TableNext

(* What get_map returns was the content of the whole table at one moment, the
   moment it returns, whatever else is going on (get_map of
   threadsafe_lookup_table.hpp). *)
THEOREM SnapshotsAreAtomic == TableSpec => []SnapshotAtomic
<1>1. ASSUME TableInv PROVE SnapshotAtomic
  <2> SUFFICES ASSUME NEW t \in copying, reached[t] = bucket_size PROVE res[t] = data
    BY DEF SnapshotAtomic
  <2>1. \A k \in MapKeys : res[t][k] = data[k]
    BY <1>1, TableAssumption
       DEF TableInv, TableType, NothingOutside, CopiesHold, Buckets
  <2> QED  BY <1>1, <2>1 DEF TableInv, TableType
<1> QED  BY <1>1, TableInitially, TableStep, PTL DEF TableSpec

-----------------------------------------------------------------------------
(* The pool: its slots. *)

\* Every set of numbers has a least one.
LEMMA LeastNumber ==
  ASSUME NEW T, T \subseteq Nat, T # {}
  PROVE  \E x \in T : \A y \in T : x <= y
<1> DEFINE R == OpToRel(<, Nat)
<1>1. IsWellFoundedOn(R, Nat)
  BY NatLessThanWellFounded, Zenon
<1>2. PICK x \in T : \A y \in T : <<y, x>> \notin R
  <2> HIDE DEF R
  <2> QED  BY <1>1, WFMin
<1>3. \A y \in T : ~ (y < x)
  BY <1>2, Zenon DEF OpToRel
<1> QED  BY <1>3

NumSlots == MaxArenas * arena_size
Unused == (1..slots) \ (objects \cup lost)

Whole(x) == \E a \in 1..MaxArenas : x = a * arena_size

MiniType ==
  /\ slots \in Nat /\ Whole(slots)
  /\ content \in [1..slots -> Nat \cup {Object}]
  /\ objects \subseteq 1..slots /\ lost \subseteq 1..slots
  /\ objects \cap lost = {}

\* The free list from its last slot to its first, the n-th, at 0 what ends it.
IsFreeList(s, n) ==
  /\ s \in [Nat -> Nat] /\ n \in Nat
  /\ s[0] = None /\ free_list = s[n]
  /\ \A i \in 1..n : s[i] \in Unused /\ content[s[i]] = s[i - 1]
  /\ \A i, j \in 1..n : s[i] = s[j] => i = j
  /\ \A x \in Unused : \E i \in 1..n : s[i] = x

MiniInv == MiniType /\ \E s, n : IsFreeList(s, n)

LEMMA Arenas == NumSlots \in Nat /\ \A a \in 1..MaxArenas : a * arena_size \in 1..NumSlots
<1>1. arena_size \in Nat /\ arena_size > 0 /\ MaxArenas \in Nat /\ MaxArenas > 0
  BY ArenaAssumption
<1>2. NumSlots \in Nat
  BY <1>1 DEF NumSlots
<1>3. ASSUME NEW a \in 1..MaxArenas PROVE a * arena_size \in Nat /\ 1 <= a * arena_size /\ a * arena_size <= NumSlots
  BY <1>1 DEF NumSlots
<1> QED  BY <1>2, <1>3

LEMMA MiniInitially == MiniInit => MiniInv
<1> SUFFICES ASSUME MiniInit PROVE MiniInv
  OBVIOUS
<1> USE DEF MiniInit
<1>0. arena_size \in Nat /\ arena_size > 0
  BY ArenaAssumption
<1>1. slots = arena_size /\ Whole(arena_size)
  <2>1. 1 \in 1..MaxArenas /\ arena_size = 1 * arena_size
    BY ArenaAssumption
  <2> QED  BY <2>1 DEF Whole
<1>2. MiniType
  BY <1>0, <1>1 DEF MiniType, NewArena, None
<1> DEFINE s == [i \in Nat |-> IF i \in 1..arena_size THEN arena_size + 1 - i ELSE 0]
<1>3. s \in [Nat -> Nat]
  <2>1. \A i \in Nat : i \in 1..arena_size => arena_size + 1 - i \in Nat
    BY <1>0
  <2> QED  BY <2>1
<1>4. s[0] = None /\ \A i \in 1..arena_size : s[i] = arena_size + 1 - i
  <2>1. \A i \in 1..arena_size : i \in Nat
    BY <1>0
  <2>2. 0 \in Nat /\ 0 \notin 1..arena_size
    OBVIOUS
  <2> QED  BY <2>1, <2>2 DEF None
<1> HIDE DEF s
<1>5. ASSUME NEW i \in 1..arena_size PROVE content[s[i]] = s[i - 1]
  <2>1. content[s[i]] = IF s[i] = arena_size THEN None ELSE s[i] + 1
    BY <1>0, <1>4 DEF NewArena
  <2>2. s[i - 1] = IF i = 1 THEN None ELSE arena_size + 2 - i
    BY <1>0, <1>4
  <2> QED  BY <1>0, <1>4, <2>1, <2>2 DEF None
<1>6. IsFreeList(s, arena_size)
  <2>1. Unused = 1..arena_size
    BY DEF Unused
  <2>2. \A x \in 1..arena_size : s[arena_size + 1 - x] = x /\ arena_size + 1 - x \in 1..arena_size
    BY <1>0, <1>4
  <2>3. s[arena_size] = free_list /\ \A i \in 1..arena_size : s[i] \in 1..arena_size
    BY <1>0, <1>4
  <2>4. \A i, j \in 1..arena_size : s[i] = s[j] => i = j
    BY <1>0, <1>4
  <2> QED  BY <1>0, <1>3, <1>4, <1>5, <2>1, <2>2, <2>3, <2>4 DEF IsFreeList
<1> QED  BY <1>2, <1>6 DEF MiniInv

\* The first slot is taken.
LEMMA TakeSlot == ASSUME MiniInv, alloc_slot PROVE MiniInv'
<1> USE DEF alloc_slot, Take
<1>1. PICK s, n : IsFreeList(s, n)
  BY DEF MiniInv
<1>2. n \in Nat /\ n # 0 /\ free_list = s[n] /\ s[n] \in Unused /\ content[s[n]] = s[n - 1]
  BY <1>1 DEF IsFreeList
<1>3. /\ free_list' = s[n - 1] /\ slots' = slots
      /\ content' = [content EXCEPT ![s[n]] = Object]
      /\ objects' \cup lost' = objects \cup lost \cup {s[n]}
  BY <1>2
<1>4. Unused' = Unused \ {s[n]}
  BY <1>3 DEF Unused
<1>5. MiniType'
  <2>1. Whole(slots)' /\ content' \in [1..slots -> Nat \cup {Object}]
    BY <1>3 DEF MiniInv, MiniType, Whole
  <2>2. s[n] \in 1..slots /\ s[n] \notin objects \cup lost
    BY <1>2 DEF Unused
  <2>3. /\ objects' \subseteq 1..slots /\ lost' \subseteq 1..slots
        /\ objects' \cap lost' = {}
    BY <1>2, <2>2 DEF MiniInv, MiniType
  <2> QED  BY <1>3, <2>1, <2>3 DEF MiniInv, MiniType
<1>6. IsFreeList(s, n - 1)'
  <2>1. s \in [Nat -> Nat] /\ n - 1 \in Nat /\ s[0] = None
    BY <1>1, <1>2 DEF IsFreeList
  <2>2. \A i \in 1..(n - 1) : i \in 1..n /\ s[i] # s[n]
    BY <1>1, <1>2 DEF IsFreeList
  <2>3. \A i \in 1..(n - 1) : s[i] \in Unused' /\ content'[s[i]] = s[i - 1]
    <3>1. \A i \in 1..(n - 1) : s[i] \in Unused /\ content[s[i]] = s[i - 1]
      BY <1>1, <2>2 DEF IsFreeList
    <3>2. \A x \in Unused : x # s[n] => content'[x] = content[x]
      BY <1>3 DEF Unused, MiniInv, MiniType
    <3> QED  BY <1>4, <2>2, <3>1, <3>2
  <2>4. \A x \in Unused' : \E i \in 1..(n - 1) : s[i] = x
    BY <1>1, <1>2, <1>4 DEF IsFreeList
  <2>5. \A i, j \in 1..(n - 1) : s[i] = s[j] => i = j
    BY <1>1, <2>2 DEF IsFreeList
  <2> QED  BY <1>3, <2>1, <2>3, <2>4, <2>5 DEF IsFreeList
<1> QED  BY <1>5, <1>6 DEF MiniInv

\* The first slot of a new arena is taken, the others are the free list.
LEMMA TakeOfArena == ASSUME MiniInv, alloc_arena PROVE MiniInv'
<1> USE ArenaAssumption
<1> DEFINE top == slots + arena_size
<1>1. PICK r, m : IsFreeList(r, m)
  BY DEF MiniInv
<1>2. Unused = {}
  BY <1>1 DEF IsFreeList, alloc_arena, Unused, None
<1>3. slots \in Nat /\ slots' = top /\ top \in Nat /\ slots + 1 <= top
  BY DEF alloc_arena, MiniInv, MiniType
<1>4. Whole(top)
  <2>1. PICK a \in 1..MaxArenas : slots = a * arena_size
    BY DEF MiniInv, MiniType, Whole
  <2>2. a * arena_size < MaxArenas * arena_size
    BY <2>1 DEF alloc_arena
  <2>3. a < MaxArenas
    BY <2>2
  <2>4. a + 1 \in 1..MaxArenas
    BY <2>3
  <2>5. (a + 1) * arena_size = a * arena_size + arena_size
    OBVIOUS
  <2> QED  BY <2>1, <2>4, <2>5 DEF Whole
<1> DEFINE arena == [x \in (slots + 1)..top |-> IF x = top THEN None ELSE x + 1]
           memory == [x \in 1..top |-> IF x \in (slots + 1)..top THEN arena[x] ELSE content[x]]
<1>5. Join(content, NewArena(slots + 1)) = memory
  <2>1. NewArena(slots + 1) = arena
    BY <1>3 DEF NewArena
  <2>2. DOMAIN content \cup DOMAIN arena = 1..top
    BY <1>3 DEF MiniInv, MiniType
  <2> QED  BY <2>1, <2>2 DEF Join
<1>6. memory \in [1..top -> Nat \cup {Object}]
  BY <1>3 DEF MiniInv, MiniType, None
<1>7. \A x \in (slots + 1)..top : memory[x] = IF x = top THEN None ELSE x + 1
  BY <1>3
<1> HIDE DEF arena, memory
<1>8. /\ free_list' = memory[slots + 1]
      /\ content' = [memory EXCEPT ![slots + 1] = Object]
      /\ \/ objects' = objects \cup {slots + 1} /\ lost' = lost
         \/ lost' = lost \cup {slots + 1} /\ objects' = objects
  BY <1>5 DEF alloc_arena, Take
<1>9. slots + 1 \notin objects \cup lost
  BY <1>3 DEF MiniInv, MiniType
<1>10. MiniType'
  <2>1. /\ objects \subseteq 1..top /\ lost \subseteq 1..top /\ slots + 1 \in 1..top
        /\ objects \cap lost = {}
    BY <1>3, ArenaAssumption DEF MiniInv, MiniType
  <2>2. /\ objects' \subseteq 1..top /\ lost' \subseteq 1..top
        /\ objects' \cap lost' = {}
    BY <1>8, <1>9, <2>1
  <2>3. content' \in [1..top -> Nat \cup {Object}] /\ Whole(slots')
    BY <1>3, <1>4, <1>6, <1>8
  <2> QED  BY <1>3, <2>2, <2>3 DEF MiniType
<1>11. Unused' = (slots + 2)..top
  BY <1>2, <1>3, <1>8 DEF Unused, MiniInv, MiniType
<1> DEFINE n == arena_size - 1
<1>12. PICK s \in [Nat -> Nat] : s[0] = None /\ n \in Nat /\ \A i \in 1..n : s[i] = top + 1 - i
  <2> DEFINE f == [i \in Nat |-> IF i \in 1..n THEN top + 1 - i ELSE 0]
  <2>1. n \in Nat /\ \A i \in 1..n : i \in Nat /\ top + 1 - i \in Nat
    BY <1>3
  <2>2. f \in [Nat -> Nat]
    BY <2>1
  <2>3. f[0] = None /\ \A i \in 1..n : f[i] = top + 1 - i
    <3>1. 0 \in Nat /\ 0 \notin 1..n
      OBVIOUS
    <3> QED  BY <2>1, <3>1 DEF None
  <2> HIDE DEF f
  <2> QED  BY <2>1, <2>2, <2>3
<1>13. free_list' = s[n]
  <2>1. memory[slots + 1] = IF slots + 1 = top THEN None ELSE slots + 2
    BY <1>3, <1>7
  <2>2. n = 0 \/ n \in 1..n
    BY <1>12
  <2> QED  BY <1>3, <1>8, <1>12, <2>1, <2>2
<1>14. \A i \in 1..n : s[i] \in Unused' /\ content'[s[i]] = s[i - 1]
  <2> SUFFICES ASSUME NEW i \in 1..n PROVE s[i] \in Unused' /\ content'[s[i]] = s[i - 1]
    OBVIOUS
  <2>1. s[i] = top + 1 - i /\ s[i] \in (slots + 2)..top
    BY <1>3, <1>12
  <2>2. content'[s[i]] = memory[s[i]]
    BY <1>3, <1>6, <1>8, <2>1
  <2>3. memory[s[i]] = IF s[i] = top THEN None ELSE s[i] + 1
    BY <1>3, <1>7, <2>1
  <2>4. i = 1 \/ i - 1 \in 1..n
    BY <1>12
  <2>5. s[i - 1] = IF i = 1 THEN None ELSE top + 2 - i
    BY <1>3, <1>12, <2>4
  <2> QED  BY <1>3, <1>11, <2>1, <2>2, <2>3, <2>5
<1>15. \A i, j \in 1..n : s[i] = s[j] => i = j
  BY <1>3, <1>12
<1>16. \A x \in Unused' : \E i \in 1..n : s[i] = x
  <2>1. \A x \in (slots + 2)..top : top + 1 - x \in 1..n /\ s[top + 1 - x] = x
    BY <1>3, <1>12
  <2> QED  BY <1>11, <2>1
<1>17. IsFreeList(s, n)'
  BY <1>12, <1>13, <1>14, <1>15, <1>16 DEF IsFreeList
<1> QED  BY <1>10, <1>17 DEF MiniInv

\* A slot becomes the first of the free list.
LEMMA FreeKeeps == ASSUME MiniInv, NEW x \in 1..slots, free_slot(x) PROVE MiniInv'
<1> USE DEF free_slot
<1>1. PICK r, m : IsFreeList(r, m)
  BY DEF MiniInv
<1>2. /\ slots \in Nat /\ m \in Nat /\ r \in [Nat -> Nat] /\ r[0] = None /\ free_list = r[m]
      /\ x \in Nat /\ x \notin Unused
  <2>1. slots \in Nat
    BY DEF MiniInv, MiniType
  <2> QED  BY <1>1, <2>1 DEF IsFreeList, Unused
<1>3. Unused' = Unused \cup {x}
  BY DEF MiniInv, MiniType, Unused
<1>4. MiniType'
  <2>1. Whole(slots)' /\ content' \in [1..slots -> Nat \cup {Object}]
    BY <1>2 DEF MiniInv, MiniType, Whole
  <2> QED  BY <1>2, <2>1 DEF MiniInv, MiniType
<1>5. PICK s \in [Nat -> Nat] :
        s[0] = None /\ s[m + 1] = x /\ m + 1 \in Nat /\ \A i \in 0..m : s[i] = r[i]
  <2> DEFINE f == [r EXCEPT ![m + 1] = x]
  <2>1. f \in [Nat -> Nat] /\ f[m + 1] = x /\ m + 1 \in Nat
    BY <1>2
  <2>2. \A i \in 0..m : f[i] = r[i] /\ 0 \in 0..m
    BY <1>2
  <2>3. f[0] = None
    BY <1>2, <2>2
  <2> HIDE DEF f
  <2> QED  BY <2>1, <2>2, <2>3
<1>6. \A i \in 1..m : r[i] \in Unused /\ content[r[i]] = r[i - 1] /\ r[i] # x
  BY <1>1, <1>2 DEF IsFreeList
<1>7. \A i \in 1..(m + 1) : s[i] \in Unused' /\ content'[s[i]] = s[i - 1]
  <2> SUFFICES ASSUME NEW i \in 1..(m + 1) PROVE s[i] \in Unused' /\ content'[s[i]] = s[i - 1]
    OBVIOUS
  <2>1. CASE i = m + 1
    <3>1. content'[x] = free_list
      BY DEF MiniInv, MiniType
    <3>2. m \in 0..m /\ i - 1 = m
      BY <1>2, <2>1
    <3> QED  BY <1>2, <1>3, <1>5, <2>1, <3>1, <3>2
  <2>2. CASE i \in 1..m
    <3>1. s[i] = r[i] /\ s[i - 1] = r[i - 1]
      BY <1>2, <1>5, <2>2
    <3>2. content'[r[i]] = content[r[i]]
      BY <1>6, <2>2 DEF MiniInv, MiniType, Unused
    <3> QED  BY <1>3, <1>6, <2>2, <3>1, <3>2
  <2> QED  BY <1>2, <2>1, <2>2
<1>8. \A i, j \in 1..(m + 1) : s[i] = s[j] => i = j
  <2>1. \A i \in 1..(m + 1) : i = m + 1 \/ (i \in 1..m /\ s[i] = r[i] /\ s[i] # x)
    BY <1>2, <1>5, <1>6
  <2>2. \A i, j \in 1..m : r[i] = r[j] => i = j
    BY <1>1 DEF IsFreeList
  <2> QED  BY <1>5, <2>1, <2>2
<1>9. \A y \in Unused' : \E i \in 1..(m + 1) : s[i] = y
  <2>1. \A y \in Unused : \E i \in 1..m : r[i] = y
    BY <1>1 DEF IsFreeList
  <2>2. \A i \in 1..m : i \in 1..(m + 1) /\ s[i] = r[i]
    BY <1>2, <1>5
  <2>3. m + 1 \in 1..(m + 1)
    BY <1>2
  <2> QED  BY <1>3, <1>5, <2>1, <2>2, <2>3
<1>10. IsFreeList(s, m + 1)'
  BY <1>5, <1>7, <1>8, <1>9 DEF IsFreeList
<1> QED  BY <1>4, <1>10 DEF MiniInv

LEMMA MiniStep == MiniInv /\ [MiniNext]_miniVars => MiniInv'
<1> SUFFICES ASSUME MiniInv, [MiniNext]_miniVars PROVE MiniInv'
  OBVIOUS
<1>1. CASE UNCHANGED miniVars
  <2>1. MiniType' /\ Unused' = Unused
    BY <1>1 DEF miniVars, MiniInv, MiniType, Whole, Unused
  <2> QED  BY <1>1, <2>1 DEF miniVars, MiniInv, IsFreeList
<1> QED  BY <1>1, TakeSlot, TakeOfArena, FreeKeeps DEF MiniNext

\* There are no more free slots than slots.
LEMMA FreeListFits == ASSUME MiniInv, NEW s, NEW n, IsFreeList(s, n) PROVE n \in 0..NumSlots
<1>1. n \in Nat /\ slots \in Nat /\ slots <= NumSlots /\ NumSlots \in Nat
  BY Arenas DEF IsFreeList, MiniInv, MiniType, Whole
<1>2. [i \in 1..n |-> s[i]] \in Injection(1..n, 1..slots)
  BY DEF IsFreeList, Unused, Injection, IsInjective
<1>3. Cardinality(1..n) = n /\ Cardinality(1..slots) = slots /\ IsFiniteSet(1..slots)
  BY <1>1, FS_Interval
<1>4. n <= slots
  BY <1>2, <1>3, FS_Injection
<1> QED  BY <1>1, <1>4

\* nthFree goes down the free list.
LEMMA WalkIsFreeList ==
  ASSUME MiniInv, NEW s, NEW n, IsFreeList(s, n)
  PROVE  nthFree = [k \in 1..(NumSlots + 1) |-> IF k <= n THEN s[n + 1 - k] ELSE None]
<1> DEFINE K == 1..(NumSlots + 1)
           Follows(g) == g = [k \in 1..(MaxArenas * arena_size + 1) |->
                                IF k = 1 THEN free_list
                                ELSE IF g[k - 1] \in {None, Object} THEN g[k - 1]
                                ELSE content[g[k - 1]]]
           Next(x) == IF x \in {None, Object} THEN x ELSE content[x]
           f == [k \in K |-> IF k <= n THEN s[n + 1 - k] ELSE None]
<1>1. n \in 0..NumSlots /\ NumSlots \in Nat /\ n \in Nat
  BY FreeListFits, Arenas
<1>2. f[1] = free_list
  <2>1. 1 \in K /\ (n = 0 \/ 1 <= n)
    BY <1>1
  <2> QED  BY <1>1, <2>1 DEF IsFreeList
<1>3. ASSUME NEW k \in K, k # 1 PROVE f[k] = Next(f[k - 1]) /\ k - 1 \in K
  <2>1. k - 1 \in K /\ k \in Nat
    BY <1>1, <1>3
  <2>2. CASE k - 1 > n
    <3>1. f[k - 1] = None /\ f[k] = None
      BY <1>1, <2>1, <2>2
    <3> QED  BY <2>1, <3>1
  <2>3. CASE k - 1 <= n
    <3>1. f[k - 1] = s[n + 2 - k] /\ n + 2 - k \in 1..n
      BY <1>1, <1>3, <2>1, <2>3
    <3>2. s[n + 2 - k] \in Unused /\ content[s[n + 2 - k]] = s[(n + 2 - k) - 1]
      BY <3>1 DEF IsFreeList
    <3>3. s[n + 2 - k] \notin {None, Object}
      BY <3>2, ArenaAssumption DEF Unused, None
    <3>4. f[k] = IF k = n + 1 THEN None ELSE s[n + 1 - k]
      BY <1>1, <2>1, <2>3
    <3>5. k = n + 1 => n + 1 - k = 0
      BY <1>1
    <3>6. f[k] = s[n + 1 - k] /\ (n + 2 - k) - 1 = n + 1 - k
      BY <1>1, <2>1, <3>4, <3>5 DEF IsFreeList
    <3> QED  BY <2>1, <3>1, <3>2, <3>3, <3>6
  <2> QED  BY <1>1, <2>1, <2>2, <2>3
<1>4. ASSUME NEW g PROVE Follows(g) <=> g = [k \in K |-> IF k = 1 THEN free_list ELSE Next(g[k - 1])]
  BY DEF NumSlots
<1>5. f = [k \in K |-> f[k]]
  OBVIOUS
<1> HIDE DEF f, Next
<1>6. Follows(f)
  <2>1. \A k \in K : f[k] = IF k = 1 THEN free_list ELSE Next(f[k - 1])
    BY <1>2, <1>3
  <2> HIDE DEF K, Follows
  <2> QED  BY <1>4, <1>5, <2>1
<1>7. Follows(nthFree)
  <2>1. nthFree = CHOOSE g : Follows(g)
    BY DEF nthFree
  <2> HIDE DEF Follows
  <2> QED  BY <1>6, <2>1
<1>8. nthFree = [k \in K |-> IF k = 1 THEN free_list ELSE Next(nthFree[k - 1])]
  <2> HIDE DEF K, Follows
  <2> QED  BY <1>4, <1>7
<1>9. \A k \in K : nthFree[k] = f[k]
  <2> DEFINE D == {k \in K : nthFree[k] # f[k]}
  <2>1. ASSUME D # {} PROVE FALSE
    <3>1. D \subseteq Nat
      BY <1>1
    <3>2. PICK x \in D : \A y \in D : x <= y
      <4> HIDE DEF D
      <4> QED  BY <2>1, <3>1, LeastNumber
    <3>3. x \in K /\ x # 1
      BY <1>1, <1>2, <1>8
    <3>4. x - 1 \in K /\ x - 1 \notin D
      BY <1>1, <1>3, <3>2, <3>3
    <3>5. nthFree[x] = Next(nthFree[x - 1])
      <4> HIDE DEF K
      <4> QED  BY <1>8, <3>3
    <3> QED  BY <1>3, <3>3, <3>4, <3>5
  <2> QED  BY <2>1
<1>10. nthFree = [k \in K |-> nthFree[k]]
  <2> HIDE DEF K
  <2> QED  BY <1>8
<1>11. nthFree = f
  <2> HIDE DEF K
  <2> QED  BY <1>5, <1>9, <1>10
<1> QED  BY <1>11 DEF f

LEMMA FreeListIsWhole == MiniInv => SlotsOnce
<1> SUFFICES ASSUME MiniInv PROVE SlotsOnce
  OBVIOUS
<1>1. PICK s, n : IsFreeList(s, n)
  BY DEF MiniInv
<1>2. n \in 0..NumSlots /\ NumSlots \in Nat /\ n \in Nat
  BY <1>1, FreeListFits, Arenas
<1>3. /\ DOMAIN nthFree = 1..(NumSlots + 1)
      /\ \A k \in 1..(NumSlots + 1) : nthFree[k] = IF k <= n THEN s[n + 1 - k] ELSE None
  BY <1>1, WalkIsFreeList
<1>4. nthFree[NumSlots + 1] = None
  BY <1>2, <1>3
<1>5. ASSUME NEW x PROVE x \in Listed \ {None} <=> x \in Unused
  <2>1. ASSUME x \in Listed, x # None PROVE x \in Unused
    <3>1. PICK k \in 1..(NumSlots + 1) : nthFree[k] = x
      BY <1>3, <2>1 DEF Listed
    <3>2. k <= n /\ n + 1 - k \in 1..n /\ x = s[n + 1 - k]
      BY <1>2, <1>3, <2>1, <3>1
    <3> QED  BY <1>1, <3>2 DEF IsFreeList
  <2>2. ASSUME x \in Unused PROVE x \in Listed /\ x # None
    <3>1. PICK i \in 1..n : s[i] = x
      BY <1>1, <2>2 DEF IsFreeList
    <3>2. n + 1 - i \in 1..(NumSlots + 1) /\ n + 1 - i <= n /\ n + 1 - (n + 1 - i) = i
      BY <1>2
    <3>3. nthFree[n + 1 - i] = x
      BY <1>3, <3>1, <3>2
    <3>4. x # None
      BY <2>2 DEF Unused, None
    <3> QED  BY <1>3, <3>2, <3>3, <3>4 DEF Listed
  <2> QED  BY <2>1, <2>2
<1>6. Listed \ {None} = Unused
  BY <1>5
<1> QED  BY <1>4, <1>6 DEF SlotsOnce, NumSlots, Unused, MiniInv, MiniType

(* Every slot of the pool is in one place: with an object, on the free list,
   which ends, or lost to a constructor that threw (alloc and free of
   minipool.h). *)
THEOREM SlotsAreAccounted == MiniSpec => []SlotsOnce
BY MiniInitially, MiniStep, FreeListIsWhole, PTL DEF MiniSpec
===============================================================================
