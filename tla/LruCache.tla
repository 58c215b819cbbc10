------------------------------ MODULE LruCache ------------------------------
(***************************************************************************)
(* LRU_Cache and HashLRU_Cache (ds/LRUCache.h).  A cache is a list of      *)
(* entries and a map from keys to places in the list; HashLRU_Cache spreads*)
(* the keys over several of them.  Every operation holds the mutex of its  *)
(* cache from the first look to the last change: it is one step.           *)
(***************************************************************************)
EXTENDS Naturals, Sequences, SequencesExt, FiniteSets

CONSTANTS
  Keys,       (* numbers, which are their own hash                         *)
  Vals,
  Bucket,     (* _bucket of a HashLRU_Cache                                *)
  MaxSizes,   (* values of setMaxSize for one bucket; 0 is no limit        *)
  Elasticities

LruAssumption ==
  /\ Keys \subseteq Nat /\ Bucket \in Nat \ {0}
  /\ MaxSizes \subseteq Nat /\ Elasticities \subseteq Nat

VARIABLES
  hashed,     (* this is a HashLRU_Cache                                   *)
  keys,       (* keys[b]: _keys of bucket b, the list                      *)
  cache,      (* cache[b]: _cache of bucket b, the keys of the map         *)
  maxSize, elasticity,
  used        (* used[b]: keys set since the last clear, last used first   *)

vars == <<hashed, keys, cache, maxSize, elasticity, used>>

Buckets == 0..Bucket - 1
Entries == [key : Keys, val : Vals]
KeysOf(list) == [i \in DOMAIN list |-> list[i].key]

\* The places in a map are the entries of their keys, once each.
TypeOK ==
  /\ hashed \in BOOLEAN
  /\ keys \in [Buckets -> Seq(Entries)]
  /\ \A b \in Buckets : IsInjective(KeysOf(keys[b])) /\ cache[b] = Range(KeysOf(keys[b]))
  /\ maxSize \in MaxSizes /\ elasticity \in Elasticities
  /\ used \in [Buckets -> Seq(Keys)]

Init ==
  /\ hashed \in BOOLEAN
  /\ keys = [b \in Buckets |-> << >>] /\ cache = [b \in Buckets |-> {}]
  /\ maxSize \in MaxSizes /\ elasticity \in Elasticities
  /\ used = [b \in Buckets |-> << >>]

BucketOf(k) == IF hashed THEN k % Bucket ELSE 0
PlaceOf(ks, k) == CHOOSE i \in DOMAIN ks : ks[i] = k
Without(ks, k) == IF Contains(ks, k) THEN RemoveAt(ks, PlaceOf(ks, k)) ELSE ks
UseNow(b, k) == used' = [used EXCEPT ![b] = <<k>> \o Without(@, k)]

\* the place in the list that the map has for k
EntryOf(k) == PlaceOf(KeysOf(keys[BucketOf(k)]), k)

\* Faulty variant: the front of the list goes.
PrunedFront(list) ==
  IF maxSize = 0 \/ Len(list) < maxSize + elasticity \/ Len(list) <= maxSize THEN list
  ELSE SubSeq(list, Len(list) - maxSize + 1, Len(list))

\* prune(): the back of the list goes until maxSize entries are left
Pruned(list) ==
  IF maxSize = 0 \/ Len(list) < maxSize + elasticity \/ Len(list) <= maxSize THEN list
  ELSE SubSeq(list, 1, maxSize)

Set(k, v) ==
  LET b   == BucketOf(k)
      new == <<[key |-> k, val |-> v]>>
  IN /\ keys' = [keys EXCEPT ![b] = IF k \in cache[b] THEN new \o RemoveAt(@, EntryOf(k))
                                    ELSE Pruned(new \o @)]
     /\ cache' = [cache EXCEPT ![b] = Range(KeysOf(keys'[b]))]
     /\ UseNow(b, k)
     /\ UNCHANGED <<hashed, maxSize, elasticity>>

\* a hit; a miss changes nothing
Get(k) ==
  LET b == BucketOf(k) IN
  /\ k \in cache[b]
  /\ keys' = [keys EXCEPT ![b] = <<@[EntryOf(k)]>> \o RemoveAt(@, EntryOf(k))]
  /\ UseNow(b, k)
  /\ UNCHANGED <<hashed, cache, maxSize, elasticity>>

\* HashLRU_Cache::del calls get
Del(k) ==
  LET b == BucketOf(k) IN
  IF hashed THEN Get(k)
  ELSE /\ k \in cache[b]
       /\ keys' = [keys EXCEPT ![b] = RemoveAt(@, EntryOf(k))]
       /\ cache' = [cache EXCEPT ![b] = @ \ {k}]
       /\ used' = [used EXCEPT ![b] = Without(@, k)]
       /\ UNCHANGED <<hashed, maxSize, elasticity>>

\* clear() goes from bucket to bucket
Clear(b) ==
  /\ keys' = [keys EXCEPT ![b] = << >>] /\ cache' = [cache EXCEPT ![b] = {}]
  /\ used' = [used EXCEPT ![b] = << >>]
  /\ UNCHANGED <<hashed, maxSize, elasticity>>

SetMaxSize ==
  /\ maxSize' \in MaxSizes
  /\ UNCHANGED <<hashed, keys, cache, elasticity, used>>

SetElasticity ==
  /\ elasticity' \in Elasticities
  /\ UNCHANGED <<hashed, keys, cache, maxSize, used>>

Next ==
  \/ \E k \in Keys : Get(k) \/ Del(k) \/ \E v \in Vals : Set(k, v)
  \/ \E b \in Buckets : Clear(b)
  \/ SetMaxSize \/ SetElasticity

Spec == Init /\ [][Next]_vars

(***************************************************************************)
(* Properties                                                              *)
(***************************************************************************)
\* x is nearer to the front than y
Before(ks, x, y) == \E i, j \in DOMAIN ks : i < j /\ ks[i] = x /\ ks[j] = y

\* prune() evicts several entries at once after the limit was lowered, and
\* the order of the list is kept by set, get and del together
\* (ds/LRUCache.h 55-107, 169-185): a key is evicted only if maxSize keys that
\* were used after it stay, and all that stay were used after it.
StepEvictsOldest ==
  \A b \in Buckets, k \in Keys :
    k \in cache[b] \ cache'[b] /\ Contains(used'[b], k) =>
      /\ \A j \in cache'[b] : Before(used'[b], j, k)
      /\ Cardinality(cache'[b]) >= maxSize
EvictsOldest == [][StepEvictsOldest]_vars
=============================================================================
