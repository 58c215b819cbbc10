----------------------------- MODULE LoadBalance -----------------------------
(***************************************************************************)
(* One load balancer of src/src/streams/LoadBalance.cpp: RoundRobin-,      *)
(* Weight- and FairLoadBalance over the items SDLoadBalance gives it.      *)
(*                                                                         *)
(* get() does not look at _datas but at _items and _weights, which         *)
(* initNolock() rebuilds whenever _datas changes and, through refresh(),   *)
(* twice a second; meanwhile streams connect and disconnect on their own.  *)
(* A second is two ticks, so that two refreshes may fall into one second.  *)
(***************************************************************************)
EXTENDS Integers, Sequences, FiniteSets, SequencesExt, FiniteSetsExt

CONSTANTS
  Ids,        (* providers                                                 *)
  None,       (* a null pointer                                            *)
  Kinds,      (* types of load balancer in the instance                    *)
  Weights,    (* weights an item may have when it is added; {0} for those
                 made by createLoadBalanceItem                             *)
  MaxCalls,   (* bound: calls counted in the window of an item             *)
  MaxChanges  (* bound: changes of _datas                                  *)

\* With at most ten calls in the window, every factor of the fair weight but
\* the one for a young item is 1.
LoadBalanceAssumption ==
  /\ None \notin Ids
  /\ Kinds \subseteq {"ROUNDROBIN", "WEIGHT", "FAIR"}
  /\ Weights \subseteq Nat
  /\ MaxCalls \in 1..10 /\ MaxChanges \in Nat

VARIABLES
  kind,     (* the type of the load balancer                               *)
  datas,    (* ids in _datas                                               *)
  valid,    (* items of _datas whose stream is connected                   *)
  weight,   (* weight[i]: _weight                                          *)
  total,    (* total[i]: calls in the window of item i                     *)
  young,    (* items discovered in the current second                      *)
  items,    (* _items                                                      *)
  weights,  (* _weights                                                    *)
  half,     (* half of the current second                                  *)
  due,      (* more than 500 ms since _lastInitTime                        *)
  changes,  (* number of changes of _datas                                 *)
  crashed   (* a division by zero has ended the process                    *)

vars == <<kind, datas, valid, weight, total, young, items, weights, half, due,
          changes, crashed>>

TypeOK ==
  /\ kind \in Kinds
  /\ datas \subseteq Ids /\ valid \subseteq datas /\ young \subseteq Ids
  /\ weight \in [Ids -> Nat] /\ total \in [Ids -> 0..MaxCalls]
  /\ items \in Seq(datas) /\ weights \in Seq(Nat)
  /\ half \in {0, 1} /\ due \in BOOLEAN /\ crashed \in BOOLEAN

Init ==
  /\ kind \in Kinds
  /\ datas = {} /\ valid = {} /\ young = {}
  /\ weight = [i \in Ids |-> 0] /\ total = [i \in Ids |-> 0]
  /\ items = <<>> /\ weights = <<>>
  /\ half = 0 /\ due = TRUE /\ changes = 0 /\ crashed = FALSE

(***************************************************************************)
(* initNolock                                                              *)
(***************************************************************************)
\* HolderStats::getWeight for an item with at most ten calls
FairWeight(s, i) ==
  IF \A k \in DOMAIN s : total[s[k]] = 0 THEN 100
  ELSE IF i \in young THEN 0 ELSE 1

\* the sums of the weights up to each item
Sums(s, w) ==
  LET upTo[k \in 0..Len(s)] == IF k = 0 THEN 0 ELSE upTo[k - 1] + w[s[k]]
  IN  [k \in 1..Len(s) |-> upTo[k]]

\* The connected items `on', in the order of the hash table, and the sums of
\* their weights; FairLoadBalance computes the weights first.
InitNolock(on, w) ==
  /\ items' \in SetToSeqs(on)
  /\ weight' = IF kind = "FAIR"
               THEN [i \in Ids |-> IF i \in ToSet(items') THEN FairWeight(items', i) ELSE w[i]]
               ELSE w
  /\ weights' = IF kind = "ROUNDROBIN" THEN <<>> ELSE Sums(items', weight')

(***************************************************************************)
(* get                                                                     *)
(***************************************************************************)
\* std::upper_bound: the first position whose sum is greater
UpperBound(ws, d) == {k \in DOMAIN ws : ws[k] > d /\ \A j \in 1..k - 1 : ws[j] <= d}

\* -1 when there is nothing; positions count from 0
GetIdx(v) ==
  IF weights = <<>> THEN -1
  ELSE (CHOOSE k \in UpperBound(weights, v % Last(weights)) : TRUE) - 1

\* Where the search starts
Start(v) ==
  IF kind = "ROUNDROBIN" THEN (IF items = <<>> THEN -1 ELSE v % Len(items))
  ELSE GetIdx(v)

\* Faulty variant: the last item is never tried.
GetShort(v) ==
  LET r  == Start(v)
      at(i) == items[((r + i) % Len(items)) + 1]
      ok == {i \in 0..Len(items) - 2 : at(i) \in valid}
  IN  IF r = -1 \/ ok = {} THEN None ELSE at(Min(ok))

\* the first connected item from there on, around the end
Get(v) ==
  LET r  == Start(v)
      at(i) == items[((r + i) % Len(items)) + 1]
      ok == {i \in 0..Len(items) - 1 : at(i) \in valid}
  IN  IF r = -1 \/ ok = {} THEN None ELSE at(Min(ok))

\* v % total with a total of 0
DividesByZero == kind # "ROUNDROBIN" /\ weights # <<>> /\ Last(weights) = 0

(***************************************************************************)
(* Actions                                                                 *)
(***************************************************************************)
\* update(): what onServiceChange does with providers that come and go; add(),
\* del() and set() are special cases.  Some of the new streams are connected.
Update(adds, dels, on, w) ==
  /\ ~crashed /\ changes < MaxChanges
  /\ adds \cap datas = {} /\ dels \subseteq datas /\ adds \cup dels # {}
  /\ on \subseteq adds
  /\ changes' = changes + 1
  /\ datas' = (datas \ dels) \cup adds
  /\ valid' = (valid \ dels) \cup on
  /\ total' = [i \in Ids |-> IF i \in adds THEN 0 ELSE total[i]]
  /\ young' = (young \ dels) \cup adds
  /\ InitNolock(valid', [i \in Ids |-> IF i \in adds THEN w ELSE weight[i]])
  /\ UNCHANGED <<kind, half, due, crashed>>

\* A stream connects, or loses its connection; the balancer is not told.
Connects(i) ==
  /\ ~crashed /\ i \in datas
  /\ valid' = valid \cup {i}
  /\ i \notin valid
  /\ UNCHANGED <<kind, datas, weight, total, young, items, weights, half, due, changes,
                 crashed>>

Disconnects(i) ==
  /\ ~crashed /\ i \in valid
  /\ valid' = valid \ {i}
  /\ UNCHANGED <<kind, datas, weight, total, young, items, weights, half, due, changes,
                 crashed>>

\* Half a second passes.
Tick ==
  /\ ~crashed
  /\ due' = TRUE /\ half' = 1 - half
  /\ young' = IF half = 1 THEN {} ELSE young
  /\ UNCHANGED <<kind, datas, valid, weight, total, items, weights, changes, crashed>>

\* refresh() -> checkInit() -> init()
Refresh ==
  /\ ~crashed /\ due
  /\ due' = FALSE /\ UNCHANGED datas
  /\ InitNolock(valid, weight)
  /\ UNCHANGED <<kind, valid, total, young, half, changes, crashed>>

\* RockSDLoadBalance::request: get(), then a call counted in the item's
\* window, where older slots may have been cleared
Request(v) ==
  /\ ~crashed /\ ~DividesByZero
  /\ Get(v) # None
  /\ \E n \in 1..Min({total[Get(v)] + 1, MaxCalls}) : total' = [total EXCEPT ![Get(v)] = n]
  /\ UNCHANGED <<kind, datas, valid, weight, young, items, weights, half, due, changes,
                 crashed>>

\* get() with a total weight of 0 ends the process.
Crash ==
  /\ ~crashed /\ DividesByZero
  /\ crashed' = TRUE
  /\ UNCHANGED <<kind, datas, valid, weight, total, young, items, weights, half, due,
                 changes>>

\* The values of v that tell positions apart
Draws == 0..(IF weights = <<>> THEN Len(items) ELSE Last(weights)) - 1

Next ==
  \/ \E adds, dels, on \in SUBSET Ids, w \in Weights : Update(adds, dels, on, w)
  \/ \E i \in Ids : Connects(i) \/ Disconnects(i)
  \/ Tick \/ Refresh \/ Crash
  \/ \E v \in Draws : Request(v)

Spec == Init /\ [][Next]_vars

(***************************************************************************)
(* Properties                                                              *)
(***************************************************************************)
\* Whatever v is, get() answers with a connected item of _datas whenever
\* _items has a connected one, and otherwise with none: stale entries of
\* _items are passed over and the search misses nobody.
GetFindsValid ==
  ~DividesByZero =>
    \A v \in Draws :
      IF ToSet(items) \cap valid = {} THEN Get(v) = None
      ELSE Get(v) \in valid \cap datas

\* get() never divides by a total weight of 0: each of the three strategies
\* can be used with the items SDLoadBalance makes.
NeverDividesByZero == ~crashed
=============================================================================
