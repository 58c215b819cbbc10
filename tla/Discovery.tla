------------------------------ MODULE Discovery ------------------------------
(***************************************************************************)
(* Service discovery for one service: ZKServiceDiscovery                   *)
(* (src/src/streams/ServiceDiscovery.cpp) with its callback                *)
(* SDLoadBalance::onServiceChange (src/src/streams/LoadBalance.cpp), which *)
(* keeps one stream per provider.                                          *)
(*                                                                         *)
(* Two threads run the same code: the watcher thread of the ZooKeeper      *)
(* client, and the fiber of the one-minute timer.  The locks cover single  *)
(* steps only: reading the children, exchanging _datas, telling the load   *)
(* balancer.                                                               *)
(***************************************************************************)
EXTENDS Integers, Sequences, FiniteSets

CONSTANTS
  Ids,        (* providers of the service                                  *)
  MaxChanges, (* bound: providers that come or go                          *)
  MaxDrops,   (* bound: connections to ZooKeeper that are lost             *)
  MaxFails    (* bound: reads of the children that fail with the session up *)

Threads == {"watch", "timer"}

VARIABLES
  zk,        (* providers registered in ZooKeeper                          *)
  node,      (* our own node: "none", "mine", or "stale" when it belongs to
                the session of an earlier process                          *)
  session,   (* "down" while a new client connects, "up", "lost", "expired" *)
  watch,     (* a watch on the children is set                             *)
  events,    (* events for the watcher thread                              *)
  changes, drops, fails,   (* counters for the bounds                      *)
  timed,     (* history: the one-minute timer has fired                    *)
  missed,    (* history: the last read of the children failed with the
                session up, so that it may have left no watch              *)
  datas,     (* _datas of the service: ids of providers                    *)
  pc,        (* pc[t]: where thread t is                                   *)
  val,       (* val[t]: the children t has read                            *)
  old,       (* old[t]: what was in _datas before                          *)
  made,      (* made[t]: <<id, stream>> of the streams t has created; like
                val, old, inst and gone empty when t is idle               *)
  inst,      (* inst[t]: the load balancer t has got                       *)
  gone,      (* gone[t]: streams t has to close                            *)
  cur,       (* the load balancer in SDLoadBalance::_datas; 0 for none     *)
  lbs,       (* lbs[n]: <<id, stream>> in the n-th load balancer           *)
  streams,   (* number of streams created                                  *)
  closed,    (* streams that have been closed                              *)
  skipped    (* history: providers that got no stream when they were new   *)

zkVars == <<zk, node, session, watch>>
bounds == <<changes, drops, fails, timed, missed>>
lbVars == <<cur, lbs, streams, closed, skipped>>
locals == <<val, old, made, inst, gone>>
vars == <<zkVars, events, bounds, datas, pc, locals, lbVars>>

Pairs == Ids \X Nat
IdsOf(ps) == {p[1] : p \in ps}
StreamsOf(ps) == {p[2] : p \in ps}

TypeOK ==
  /\ zk \subseteq Ids /\ datas \subseteq Ids
  /\ node \in {"none", "mine", "stale"}
  /\ session \in {"up", "down", "lost", "expired"}
  /\ watch \in BOOLEAN /\ timed \in BOOLEAN /\ missed \in BOOLEAN
  /\ skipped \subseteq Ids
  /\ events \in Seq({"session", "child", "expired"})
  /\ pc \in [Threads -> {"idle", "register", "read", "swap", "create", "lookup",
                         "new", "update", "close"}]
  /\ val \in [Threads -> SUBSET Ids] /\ old \in [Threads -> SUBSET Ids]
  /\ \A t \in Threads : made[t] \subseteq Pairs /\ gone[t] \subseteq 1..streams
  /\ cur \in 0..Len(lbs)
  /\ \A n \in 1..Len(lbs) :
       /\ lbs[n] \subseteq Pairs
       /\ \A p, q \in lbs[n] : p[1] = q[1] => p = q
  /\ closed \subseteq 1..streams

\* start(): the client is connecting
Init ==
  /\ zk \in SUBSET Ids /\ node \in {"none", "stale"}
  /\ session = "down" /\ watch = FALSE /\ events = <<>>
  /\ changes = 0 /\ drops = 0 /\ fails = 0 /\ timed = FALSE /\ missed = FALSE
  /\ datas = {}
  /\ pc = [t \in Threads |-> "idle"]
  /\ val = [t \in Threads |-> {}] /\ old = [t \in Threads |-> {}]
  /\ made = [t \in Threads |-> {}] /\ gone = [t \in Threads |-> {}]
  /\ inst = [t \in Threads |-> 0]
  /\ cur = 0 /\ lbs = <<>> /\ streams = 0 /\ closed = {} /\ skipped = {}

(***************************************************************************)
(* ZooKeeper                                                               *)
(***************************************************************************)
Connect ==
  /\ session \in {"down", "lost"}
  /\ session' = "up"
  /\ events' = Append(events, "session")
  /\ UNCHANGED <<zk, node, watch, bounds, datas, pc, locals, lbVars>>

Disconnect ==
  /\ session = "up" /\ drops < MaxDrops
  /\ session' = "lost" /\ drops' = drops + 1
  /\ UNCHANGED <<zk, node, watch, events, changes, fails, timed, missed, datas, pc, locals,
                 lbVars>>

\* The session's nodes and watches go with it.
Expire ==
  /\ session = "lost"
  /\ session' = "expired"
  /\ node' = IF node = "mine" THEN "none" ELSE node
  /\ watch' = FALSE
  /\ events' = Append(events, "expired")
  /\ UNCHANGED <<zk, bounds, datas, pc, locals, lbVars>>

\* A provider comes or goes; the watch fires once.
Change(i) ==
  /\ changes < MaxChanges
  /\ changes' = changes + 1
  /\ zk' = IF i \in zk THEN zk \ {i} ELSE zk \cup {i}
  /\ watch' = FALSE
  /\ events' = IF watch THEN Append(events, "child") ELSE events
  /\ UNCHANGED <<node, session, drops, fails, timed, missed, datas, pc, locals, lbVars>>

\* the session of the process before us runs out
StaleGone ==
  /\ node = "stale"
  /\ node' = "none"
  /\ UNCHANGED <<zk, session, watch, events, bounds, datas, pc, locals, lbVars>>

(***************************************************************************)
(* ZKServiceDiscovery                                                      *)
(***************************************************************************)
\* onWatch: onZKConnect, onZKChild or onZKExpiredSession
OnWatch ==
  /\ pc["watch"] = "idle" /\ events # <<>>
  /\ events' = Tail(events)
  /\ LET e == Head(events)
     IN  /\ pc' = [pc EXCEPT !["watch"] =
                     CASE e = "session" -> "register"
                       [] e = "child"   -> "read"
                       [] e = "expired" -> "idle"]
         /\ session' = IF e = "expired" /\ session = "expired" THEN "down" ELSE session
  /\ UNCHANGED <<zk, node, watch, bounds, datas, locals, lbVars>>

\* the timer calls onZKConnect
OnTimer ==
  /\ pc["timer"] = "idle"
  /\ timed' = TRUE
  /\ pc' = [pc EXCEPT !["timer"] = "register"]
  /\ UNCHANGED <<zkVars, events, changes, drops, fails, missed, datas, locals, lbVars>>

\* registerInfo: ZNODEEXISTS counts as success, a failure is only logged
RegisterInfo(t) ==
  /\ pc[t] = "register"
  /\ node' = IF session = "up" /\ node = "none" THEN "mine" ELSE node
  /\ pc' = [pc EXCEPT ![t] = "read"]
  /\ UNCHANGED <<zk, session, watch, events, bounds, datas, locals, lbVars>>

\* An error of the read: without a session; with one, for example when nobody
\* has created the service's path yet or the answer does not arrive.
ChildrenFail(t) ==
  /\ pc' = [pc EXCEPT ![t] = "idle"]
  /\ \/ session # "up" /\ UNCHANGED <<fails, missed>>
     \/ session = "up" /\ fails < MaxFails /\ fails' = fails + 1 /\ missed' = TRUE

\* Faulty variant: the children are read without a watch.
GetChildrenNoWatch(t) ==
  /\ pc[t] = "read"
  /\ \/ ChildrenFail(t) /\ UNCHANGED val
     \/ /\ session = "up"
        /\ val' = [val EXCEPT ![t] = zk] /\ pc' = [pc EXCEPT ![t] = "swap"]
        /\ missed' = FALSE /\ UNCHANGED fails
  /\ UNCHANGED <<zkVars, events, changes, drops, timed, datas, old, made, inst, gone, lbVars>>

\* zoo_get_children2 with a watch; on an error getChildren returns
GetChildren(t) ==
  /\ pc[t] = "read"
  /\ \/ ChildrenFail(t) /\ UNCHANGED <<val, watch>>
     \/ /\ session = "up"
        /\ val' = [val EXCEPT ![t] = zk] /\ watch' = TRUE
        /\ pc' = [pc EXCEPT ![t] = "swap"]
        /\ missed' = FALSE /\ UNCHANGED fails
  /\ UNCHANGED <<zk, node, session, events, changes, drops, timed, datas, old, made, inst,
                 gone, lbVars>>

\* Faulty variant: what has been read is added to what is there.
SwapDatasMerges(t) ==
  /\ pc[t] = "swap"
  /\ old' = [old EXCEPT ![t] = datas]
  /\ datas' = datas \cup val[t]
  /\ pc' = [pc EXCEPT ![t] = "create"]
  /\ UNCHANGED <<zkVars, events, bounds, val, made, inst, gone, lbVars>>

\* _datas[domain][service].swap(infos) under the write lock
SwapDatas(t) ==
  /\ pc[t] = "swap"
  /\ old' = [old EXCEPT ![t] = datas]
  /\ datas' = val[t]
  /\ pc' = [pc EXCEPT ![t] = "create"]
  /\ UNCHANGED <<zkVars, events, bounds, val, made, inst, gone, lbVars>>

(***************************************************************************)
(* SDLoadBalance::onServiceChange                                          *)
(***************************************************************************)
Added(t)   == val[t] \ old[t]
Removed(t) == old[t] \ val[t]

\* onServiceChange returns: val and old go out of scope.
Return(t) ==
  /\ pc' = [pc EXCEPT ![t] = "idle"]
  /\ val' = [val EXCEPT ![t] = {}] /\ old' = [old EXCEPT ![t] = {}]

\* _callback creates a stream for each provider that is new, or returns none:
\* then the provider is skipped.
CreateStreams(t) ==
  /\ pc[t] = "create"
  /\ \E new \in SUBSET Added(t) :
       /\ \E f \in [new -> streams + 1 .. streams + Cardinality(new)] :
            /\ \A i, j \in new : f[i] = f[j] => i = j
            /\ made' = [made EXCEPT ![t] = {<<i, f[i]>> : i \in new}]
       /\ streams' = streams + Cardinality(new)
       /\ skipped' = (skipped \cup Added(t)) \ new
       /\ IF new \cup Removed(t) = {} THEN Return(t)
          ELSE pc' = [pc EXCEPT ![t] = "lookup"] /\ UNCHANGED <<val, old>>
  /\ UNCHANGED <<zkVars, events, bounds, datas, inst, gone, cur, lbs, closed>>

\* get(domain, service, true): look it up under the read lock ...
Lookup(t) ==
  /\ pc[t] = "lookup"
  /\ inst' = [inst EXCEPT ![t] = cur]
  /\ pc' = [pc EXCEPT ![t] = IF cur = 0 THEN "new" ELSE "update"]
  /\ UNCHANGED <<zkVars, events, bounds, datas, val, old, made, gone, lbVars>>

\* ... or put a new one there under the write lock
NewLoadBalance(t) ==
  /\ pc[t] = "new"
  /\ lbs' = Append(lbs, {})
  /\ cur' = Len(lbs) + 1
  /\ inst' = [inst EXCEPT ![t] = Len(lbs) + 1]
  /\ pc' = [pc EXCEPT ![t] = "update"]
  /\ UNCHANGED <<zkVars, events, bounds, datas, val, old, made, gone, streams, closed,
                 skipped>>

\* LoadBalance::update: removed items are handed back, added ones replace
\* what is there under their id
Update(t) ==
  /\ pc[t] = "update"
  /\ LET items == lbs[inst[t]]
         dels  == {p \in items : p[1] \in Removed(t)}
     IN  /\ lbs' = [lbs EXCEPT ![inst[t]] =
                      {p \in items \ dels : p[1] \notin IdsOf(made[t])} \cup made[t]]
         /\ gone' = [gone EXCEPT ![t] = StreamsOf(dels)]
  /\ made' = [made EXCEPT ![t] = {}]
  /\ pc' = [pc EXCEPT ![t] = "close"]
  /\ UNCHANGED <<zkVars, events, bounds, datas, val, old, inst, cur, streams, closed,
                 skipped>>

CloseDels(t) ==
  /\ pc[t] = "close"
  /\ closed' = closed \cup gone[t]
  /\ gone' = [gone EXCEPT ![t] = {}] /\ inst' = [inst EXCEPT ![t] = 0]
  /\ Return(t)
  /\ UNCHANGED <<zkVars, events, bounds, datas, made, cur, lbs, streams, skipped>>

Steps(t) ==
  \/ RegisterInfo(t) \/ GetChildren(t) \/ SwapDatas(t) \/ CreateStreams(t)
  \/ Lookup(t) \/ NewLoadBalance(t) \/ Update(t) \/ CloseDels(t)

ZooKeeper ==
  \/ Connect \/ Disconnect \/ Expire \/ StaleGone
  \/ \E i \in Ids : Change(i)

\* Nothing happens any more at a service that does not change.
Rest ==
  /\ \A t \in Threads : pc[t] = "idle"
  /\ events = <<>> /\ session = "up"
  /\ UNCHANGED vars

Next == ZooKeeper \/ OnWatch \/ OnTimer \/ (\E t \in Threads : Steps(t)) \/ Rest

Spec == Init /\ [][Next]_vars

\* ZooKeeper comes back and drops dead sessions; the threads run.
FairSpec ==
  /\ Spec
  /\ WF_vars(Connect) /\ WF_vars(StaleGone)
  /\ WF_vars(OnWatch) /\ WF_vars(OnTimer)
  /\ \A t \in Threads : WF_vars(Steps(t))

(***************************************************************************)
(* Properties                                                              *)
(***************************************************************************)
Idle == \A t \in Threads : pc[t] = "idle"

Items == IF cur = 0 THEN {} ELSE lbs[cur]

\* Once the watcher has handled its events, the load balancer has a stream for
\* each provider that is registered, save those skipped when they were new, and
\* for no other: no change of the children goes unnoticed, over lost
\* connections and expired sessions, unless the last read has failed with the
\* session up; and the differences handed to onServiceChange add up.  It holds
\* until the timer's fiber has run, which may report its difference before or
\* after the watcher's; DatasConverge is what remains then.
BalancerFollows ==
  ~timed /\ ~missed /\ Idle /\ events = <<>> /\ session = "up"
    => IdsOf(Items) = zk \ skipped

\* Both directions converge (ServiceDiscovery.cpp 308-489).  Our own node is
\* there again and again, also after an expired session and when the node of an
\* earlier process made the first registration succeed; and when no provider
\* comes or goes any more, _datas becomes the list of those that are registered
\* and stays so, whichever of watcher and timer read an older list meanwhile.
Registered == []<>(node = "mine")
DatasConverge == <>[](datas = zk)
=============================================================================
