---------------------------- MODULE LookupTable ----------------------------
(***************************************************************************)
(* The hash table of threadsafe_lookup_table.hpp: buckets of pairs, each   *)
(* with a std::shared_mutex.  An operation on one key is one critical      *)
(* section of one bucket; get_map locks all buckets, one after the other,  *)
(* and copies them before it unlocks any.  value_for only reads.           *)
(***************************************************************************)
EXTENDS Integers, Callers

CONSTANTS
  MapKeys, hasher,     \* hasher[k] is the hash of k
  MapVals,
  bucket_size
ASSUME TableAssumption ==
  /\ hasher \in [MapKeys -> Nat] /\ bucket_size \in Nat \ {0}
  /\ NULL \notin MapVals \cup Threads

VARIABLES
  data,        \* the pairs of all buckets: the value of each key, or NULL
  lockedBy,    \* of each bucket: the get_map that has it locked
  reached,     \* of each get_map: how many buckets it has locked, or copied
  copying,     \* the threads whose get_map has all locks
  res,         \* local variable res of get_map
  wild         \* a bucket outside of the array has been used

tableVars == <<data, lockedBy, reached, copying, res, wild>>

Buckets == 0..(bucket_size - 1)
Empty == [k \in MapKeys |-> NULL]

\* a & b of the code.
and[a \in Nat] ==
  [b \in Nat |-> IF a = 0 THEN 0 ELSE 2 * and[a \div 2][b \div 2] + (a % 2) * (b % 2)]

\* The & is the code's: the index may be any submask of the number of buckets,
\* this number itself included.
get_bucket(k) == and[hasher[k]][bucket_size]

TableInit ==
  /\ data = Empty
  /\ lockedBy = [b \in Buckets |-> NULL]
  /\ reached = [t \in Threads |-> -1]
  /\ copying = {}
  /\ res = [t \in Threads |-> Empty]
  /\ wild = FALSE

\* What a bucket outside of the array does is undefined.
OutOfRange(k) ==
  /\ get_bucket(k) \notin Buckets
  /\ wild' = TRUE
  /\ UNCHANGED <<data, lockedBy, reached, copying, res>>

BucketFree(k) == get_bucket(k) \in Buckets /\ lockedBy[get_bucket(k)] = NULL

add_or_update_mapping(k, v) ==
  /\ BucketFree(k)
  /\ data' = [data EXCEPT ![k] = v]
  /\ UNCHANGED <<lockedBy, reached, copying, res, wild>>

remove_mapping(k) ==
  /\ BucketFree(k)
  /\ data' = [data EXCEPT ![k] = NULL]
  /\ UNCHANGED <<lockedBy, reached, copying, res, wild>>

get_map(t) ==
  /\ reached[t] = -1
  /\ reached' = [reached EXCEPT ![t] = 0]
  /\ UNCHANGED <<data, lockedBy, copying, res, wild>>

get_map_lock(t) ==
  LET b == reached[t] IN
  /\ t \notin copying /\ b \in Buckets
  /\ lockedBy[b] = NULL
  /\ lockedBy' = [lockedBy EXCEPT ![b] = t]
  /\ IF b + 1 = bucket_size
     THEN reached' = [reached EXCEPT ![t] = 0] /\ copying' = copying \cup {t}
     ELSE reached' = [reached EXCEPT ![t] = b + 1] /\ UNCHANGED copying
  /\ UNCHANGED <<data, res, wild>>

\* Mutant: a bucket is unlocked as soon as it has been copied.
get_map_copy_unlock(t) ==
  LET b == reached[t] IN
  /\ t \in copying /\ b \in Buckets
  /\ res' = [res EXCEPT ![t] = [k \in MapKeys |-> IF get_bucket(k) = b THEN data[k] ELSE @[k]]]
  /\ reached' = [reached EXCEPT ![t] = b + 1]
  /\ lockedBy' = [lockedBy EXCEPT ![b] = NULL]
  /\ UNCHANGED <<data, copying, wild>>

get_map_copy(t) ==
  LET b == reached[t] IN
  /\ t \in copying /\ b \in Buckets
  /\ res' = [res EXCEPT ![t] = [k \in MapKeys |-> IF get_bucket(k) = b THEN data[k] ELSE @[k]]]
  /\ reached' = [reached EXCEPT ![t] = b + 1]
  /\ UNCHANGED <<data, lockedBy, copying, wild>>

get_map_return(t) ==
  /\ t \in copying /\ reached[t] = bucket_size
  /\ lockedBy' = [b \in Buckets |-> IF lockedBy[b] = t THEN NULL ELSE lockedBy[b]]
  /\ reached' = [reached EXCEPT ![t] = -1]
  /\ copying' = copying \ {t}
  /\ res' = [res EXCEPT ![t] = Empty]
  /\ UNCHANGED <<data, wild>>

TableNext ==
  /\ ~wild
  /\ \/ \E k \in MapKeys :
          \/ OutOfRange(k) \/ remove_mapping(k)
          \/ \E v \in MapVals : add_or_update_mapping(k, v)
     \/ \E t \in Threads :
          get_map(t) \/ get_map_lock(t) \/ get_map_copy(t) \/ get_map_return(t)

TableSpec == TableInit /\ [][TableNext]_tableVars

-----------------------------------------------------------------------------
(* "lock every bucket, equals to locking the whole map"
   (threadsafe_lookup_table.hpp:114): what get_map returns is what the table
   holds when it returns, of all buckets together, and not some buckets before
   and some after an update. *)
SnapshotAtomic ==
  \A t \in copying : reached[t] = bucket_size => res[t] = data
=============================================================================
