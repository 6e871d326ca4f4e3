---------------------------- MODULE StockFactory ----------------------------
(***************************************************************************)
(* The stock factory of factory.cc: a table of weak pointers to the stocks *)
(* that the program shares, and the deleter of a stock, which runs in the  *)
(* thread that lets the last pointer to it go.  A critical section on mtx_ *)
(* is one action; the deleter is in three parts, as other threads run      *)
(* between the end of the last pointer and RemoveStock.                    *)
(***************************************************************************)
EXTENDS Callers

CONSTANTS Keys, Stocks
ASSUME StocksAssumption == NULL \notin Keys \cup Stocks

VARIABLES
  key,       \* of each stock in existence, NULL of the others
  holds,     \* the stocks each thread has a shared_ptr to
  stocks_,   \* the table: for each key the stock its weak_ptr was made from
  have,      \* does the program still have a shared_ptr to the factory?
  dying,     \* the stock each thread is deleting
  stage,     \* and how far: "none", "callback", "remove" or "delete"
  up,        \* FALSE when an exception has left the deleter: std::terminate
  raced      \* history: RemoveStock erased the entry of another stock

stockVars == <<key, holds, stocks_, have, dying, stage, up, raced>>

StockInit ==
  /\ key = [s \in Stocks |-> NULL]
  /\ holds = [t \in Threads |-> {}]
  /\ stocks_ = [k \in Keys |-> NULL]
  /\ have = TRUE
  /\ dying = [t \in Threads |-> NULL]
  /\ stage = [t \in Threads |-> "none"]
  /\ up = TRUE
  /\ raced = FALSE

\* use_count() > 0; a deleter holds the factory from its first line on.
Live(s) == \E t \in Threads : s \in holds[t]
FactoryAlive == have \/ \E t \in Threads : stage[t] \in {"remove", "delete"}

GetStock(t, k) ==
  /\ up /\ have /\ stage[t] = "none"
  /\ stocks_[k] # NULL /\ Live(stocks_[k])
  /\ holds' = [holds EXCEPT ![t] = @ \cup {stocks_[k]}]
  /\ UNCHANGED <<key, stocks_, have, dying, stage, up, raced>>

\* Mutant: the table is not told of the new stock.
GetStock_new_unknown(t, k) ==
  /\ up /\ have /\ stage[t] = "none"
  /\ stocks_[k] = NULL \/ ~Live(stocks_[k])
  /\ \E s \in Stocks :
       /\ key[s] = NULL /\ \A j \in Keys : stocks_[j] # s
       /\ key' = [key EXCEPT ![s] = k]
       /\ holds' = [holds EXCEPT ![t] = @ \cup {s}]
  /\ UNCHANGED <<stocks_, have, dying, stage, up, raced>>

\* A stock of which weak pointers are left keeps its identity.
GetStock_new(t, k) ==
  /\ up /\ have /\ stage[t] = "none"
  /\ stocks_[k] = NULL \/ ~Live(stocks_[k])
  /\ \E s \in Stocks :
       /\ key[s] = NULL /\ \A j \in Keys : stocks_[j] # s
       /\ key' = [key EXCEPT ![s] = k]
       /\ stocks_' = [stocks_ EXCEPT ![k] = s]
       /\ holds' = [holds EXCEPT ![t] = @ \cup {s}]
  /\ UNCHANGED <<have, dying, stage, up, raced>>

\* A shared_ptr ends; the last one calls the deleter.
Release(t, s) ==
  /\ up /\ stage[t] = "none"
  /\ s \in holds[t]
  /\ holds' = [holds EXCEPT ![t] = @ \ {s}]
  /\ IF \E u \in Threads \ {t} : s \in holds[u]
     THEN UNCHANGED <<dying, stage>>
     ELSE /\ dying' = [dying EXCEPT ![t] = s]
          /\ stage' = [stage EXCEPT ![t] = "callback"]
  /\ UNCHANGED <<key, stocks_, have, up, raced>>

\* shared_ptr(wkFactory) does not give NULL for an expired pointer, it throws.
WeakDeleteCallback(t) ==
  /\ up /\ stage[t] = "callback"
  /\ IF FactoryAlive
     THEN stage' = [stage EXCEPT ![t] = "remove"] /\ UNCHANGED up
     ELSE up' = FALSE /\ UNCHANGED stage
  /\ UNCHANGED <<key, holds, stocks_, have, dying, raced>>

RemoveStock(t) ==
  /\ up /\ stage[t] = "remove"
  /\ LET k == key[dying[t]] IN
       /\ stocks_' = [stocks_ EXCEPT ![k] = NULL]
       /\ raced' = (raced \/ stocks_[k] \notin {NULL, dying[t]})
  /\ stage' = [stage EXCEPT ![t] = "delete"]
  /\ UNCHANGED <<key, holds, have, dying, up>>

\* delete stock; with the deleter's pointer the factory and its table may end.
DeleteStock(t) ==
  /\ up /\ stage[t] = "delete"
  /\ key' = [key EXCEPT ![dying[t]] = NULL]
  /\ dying' = [dying EXCEPT ![t] = NULL]
  /\ stage' = [stage EXCEPT ![t] = "none"]
  /\ stocks_' = IF have \/ \E u \in Threads \ {t} : stage[u] \in {"remove", "delete"}
                THEN stocks_ ELSE [k \in Keys |-> NULL]
  /\ UNCHANGED <<holds, have, up, raced>>

\* The program is done with the factory, not with the stocks.
ReleaseFactory ==
  /\ up /\ have
  /\ have' = FALSE
  /\ stocks_' = IF \E t \in Threads : stage[t] \in {"remove", "delete"}
                THEN stocks_ ELSE [k \in Keys |-> NULL]
  /\ UNCHANGED <<key, holds, dying, stage, up, raced>>

StockNext ==
  \/ \E t \in Threads :
       \/ \E k \in Keys : GetStock(t, k) \/ GetStock_new(t, k)
       \/ \E s \in Stocks : Release(t, s)
       \/ WeakDeleteCallback(t) \/ RemoveStock(t) \/ DeleteStock(t)
  \/ ReleaseFactory

StockSpec == StockInit /\ [][StockNext]_stockVars

-----------------------------------------------------------------------------
(* There is one live stock of a key, "assert(stock1 == stock2)" of
   factory.cc:64-66, whoever gets it, unless the deleter of an older one came
   late and erased the entry of the newer (factory.cc:44-54). *)
OneStock ==
  \A r, s \in Stocks : Live(r) /\ Live(s) /\ key[r] = key[s] /\ r # s => raced

(* "Consider the situation where StockFactory has been deleted, while stocks
   not." (factory.cc:43): a stock may end after the factory.  The code does not
   keep it. *)
OutlivesFactory == up
=============================================================================
