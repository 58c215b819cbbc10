----------------------------- MODULE TimedCache -----------------------------
(***************************************************************************)
(* Timed_Cache (ds/TimedCache.h): a map from keys to items of a set that   *)
(* is ordered by time of expiry and key.  set() takes a new place in the   *)
(* set and leaves the old item there, which nothing in the map points to.  *)
(*                                                                         *)
(* Every operation holds the lock and is one step, except checkTimeout,    *)
(* which walks through the set under the read lock while others read.  Two *)
(* of them at once are a data race and are left out.  expired() takes an   *)
(* item out of the set and enters its copy unchanged: it changes nothing.  *)
(***************************************************************************)
EXTENDS Integers, FiniteSets

CONSTANTS
  Keys,       (* ordered as numbers                                        *)
  Vals,
  Lives,      (* times to live that are set                                *)
  MaxNow,     (* bound: the clock                                          *)
  MaxSize, Elasticity

TimedAssumption ==
  /\ Keys \subseteq Nat /\ Lives \subseteq Nat /\ MaxNow \in Nat
  /\ MaxSize \in Nat /\ Elasticity \in Nat

VARIABLES
  now,        (* GetCurrentMs()                                            *)
  timed,      (* _timed                                                    *)
  cache,      (* _cache: the item of a key, or None                        *)
  iter,       (* checkTimeout: the item it is at, None, or "spin"          *)
  limit       (* its time                                                  *)

vars == <<now, timed, cache, iter, limit>>

None == [key |-> -1]
End == [key |-> -2]
Spin == [key |-> -3]
Items == [key : Keys, val : Vals, ts : Nat]

TypeOK ==
  /\ now \in 0..MaxNow
  /\ timed \subseteq Items
  /\ cache \in [Keys -> Items \cup {None}]
  /\ iter \in Items \cup {None, End, Spin} /\ limit \in 0..MaxNow

Init ==
  /\ now = 0 /\ timed = {} /\ cache = [k \in Keys |-> None]
  /\ iter = None /\ limit = 0

\* operator< of Item: the value plays no part
Before(a, b) == a.ts < b.ts \/ (a.ts = b.ts /\ a.key < b.key)
First(S) == IF S = {} THEN End ELSE CHOOSE a \in S : \A b \in S : a = b \/ Before(a, b)
After(S, a) == First({b \in S : Before(a, b)})
Cached(c) == {k \in Keys : c[k] # None}
Writing == iter = None

\* Faulty variant: what points to an item that goes stays in the map.
DroppedItem(c, a) == [c EXCEPT ![a.key] = IF @ # None /\ @.ts < a.ts THEN None ELSE @]

\* _cache.erase(it->key): whatever item the key has now
Dropped(c, a) == [c EXCEPT ![a.key] = None]

\* prune(): items go in their order while more than MaxSize keys are left; the
\* map has an item of its own for every key, so the set does not run out
Pruned(S, c) ==
  {a \in S : Cardinality({k \in Cached(c) : ~\E b \in S : Before(b, a) /\ b.key = k}) > MaxSize}

Set(k, v, life) ==
  /\ Writing
  /\ LET new  == [key |-> k, val |-> v, ts |-> now + life]
         same == {a \in timed : a.key = k /\ a.ts = new.ts}
         item == IF same = {} THEN new ELSE CHOOSE a \in same : TRUE
         S    == timed \cup {item}
         c    == [cache EXCEPT ![k] = item]
         out  == IF MaxSize = 0 \/ Cardinality(Cached(c)) < MaxSize + Elasticity
                 THEN {} ELSE Pruned(S, c)
     IN /\ timed' = S \ out
        /\ cache' = [j \in Keys |-> IF \E a \in out : a.key = j THEN None ELSE c[j]]
  /\ UNCHANGED <<now, iter, limit>>

Del(k) ==
  /\ Writing /\ cache[k] # None
  /\ timed' = timed \ {cache[k]}
  /\ cache' = Dropped(cache, cache[k])
  /\ UNCHANGED <<now, iter, limit>>

\* clear() holds the read lock only: with no other writer
Clear ==
  /\ Writing
  /\ timed' = {} /\ cache' = [k \in Keys |-> None]
  /\ UNCHANGED <<now, iter, limit>>

\* checkTimeout begins: the read lock is taken
CheckTimeout ==
  /\ Writing
  /\ iter' = First(timed) /\ limit' = now
  /\ UNCHANGED <<now, timed, cache>>

\* An item that is due goes, and the one after it is stepped over.  A step past
\* the end of the set goes round for ever if the set is empty; otherwise it
\* leads to some item of it.
CheckItem ==
  /\ iter \in Items /\ iter.ts <= limit
  /\ timed' = timed \ {iter}
  /\ cache' = Dropped(cache, iter)
  /\ LET next == After(timed, iter)
     IN IF next # End THEN iter' = After(timed, next)
        ELSE IF timed' = {} THEN iter' = Spin ELSE iter' \in timed'
  /\ UNCHANGED <<now, limit>>

CheckEnds ==
  /\ iter = End \/ (iter \in Items /\ iter.ts > limit)
  /\ iter' = None /\ limit' = 0
  /\ UNCHANGED <<now, timed, cache>>

Tick ==
  /\ now < MaxNow
  /\ now' = now + 1
  /\ UNCHANGED <<timed, cache, iter, limit>>

Next ==
  \/ \E k \in Keys : Del(k) \/ \E v \in Vals, life \in Lives : Set(k, v, life)
  \/ Clear \/ CheckTimeout \/ CheckItem \/ CheckEnds \/ Tick

Spec == Init /\ [][Next]_vars

(***************************************************************************)
(* Properties                                                              *)
(***************************************************************************)
\* Items of overwritten entries stay in the set, and prune and checkTimeout
\* erase whatever entry has the key of the item they remove
\* (ds/TimedCache.h 70-80, 196-230): they may lose a newer entry, but the map
\* never keeps an iterator whose item is gone, which get() would follow.
NoDangling == \A k \in Keys : cache[k] # None => cache[k] \in timed /\ cache[k].key = k
=============================================================================
