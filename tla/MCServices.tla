----------------------------- MODULE MCServices -----------------------------
(* Small instances of four components that have no state in common:        *)
(* Discovery, LoadBalance, HolderStats and WorkerGroup.  The variable part *)
(* says which of them a behaviour is about; the others stay as they are.   *)
EXTENDS Integers, Sequences

CONSTANTS
  \* Discovery
  Ids, MaxChanges, MaxDrops, MaxFails,
  \* LoadBalance
  Providers, None, Kinds, Weights, MaxCounted, MaxUpdates,
  \* HolderStats
  Requests, N, Width, OneThread, MaxAge, MaxNow,
  \* WorkerGroup
  Fibers, Owner, Batch, Vectors, Orderly, MaxCalls

VARIABLES
  part,
  \* Discovery
  zk, node, session, watch, events, changes, drops, fails, timed, missed, datas, pc, val,
  old, made, inst, gone, cur, lbs, streams, closed, skipped,
  \* LoadBalance
  kind, lbDatas, valid, weight, total, young, items, weights, half, due, lbChanges,
  crashed,
  \* HolderStats
  now, last, stats, reqPc, ts, at, out,
  \* WorkerGroup
  concurrency, waiters, finish, fiberPc, park, need, taken, woken, queue, running, calls

D == INSTANCE Discovery

LB == INSTANCE LoadBalance
        WITH Ids <- Providers, MaxCalls <- MaxCounted, MaxChanges <- MaxUpdates,
             datas <- lbDatas, changes <- lbChanges

HS == INSTANCE HolderStats WITH Reqs <- Requests, pc <- reqPc

WG == INSTANCE WorkerGroup WITH pc <- fiberPc

ASSUME ServicesAssumption ==
  LB!LoadBalanceAssumption /\ HS!HolderStatsAssumption /\ WG!WorkerGroupAssumption

discoveryVars == <<zk, node, session, watch, events, changes, drops, fails, timed, missed,
                   datas, pc, val, old, made, inst, gone, cur, lbs, streams, closed,
                   skipped>>
balanceVars == <<kind, lbDatas, valid, weight, total, young, items, weights, half, due,
                 lbChanges, crashed>>
statsVars == <<now, last, stats, reqPc, ts, at, out>>
groupVars == <<concurrency, waiters, finish, fiberPc, park, need, taken, woken, queue,
               running, calls>>
vars == <<part, discoveryVars, balanceVars, statsVars, groupVars>>

Init ==
  /\ part \in {"discovery", "balance", "stats", "group"}
  /\ D!Init /\ LB!Init /\ HS!Init /\ WG!Init
  /\ part # "discovery" => zk = {} /\ node = "none"
  /\ part # "balance" => kind = "FAIR"

Next ==
  \/ part = "discovery" /\ D!Next /\ UNCHANGED <<part, balanceVars, statsVars, groupVars>>
  \/ part = "balance" /\ LB!Next /\ UNCHANGED <<part, discoveryVars, statsVars, groupVars>>
  \/ part = "stats" /\ HS!Next /\ UNCHANGED <<part, discoveryVars, balanceVars, groupVars>>
  \/ part = "group" /\ WG!Next /\ UNCHANGED <<part, discoveryVars, balanceVars, statsVars>>

Spec == Init /\ [][Next]_vars

FairSpec ==
  /\ Spec
  /\ WF_discoveryVars(part = "discovery" /\ D!Connect)
  /\ WF_discoveryVars(part = "discovery" /\ D!StaleGone)
  /\ WF_discoveryVars(part = "discovery" /\ D!OnWatch)
  /\ WF_discoveryVars(part = "discovery" /\ D!OnTimer)
  /\ \A t \in D!Threads : WF_discoveryVars(part = "discovery" /\ D!Steps(t))
  /\ \A f \in Fibers : WF_groupVars(part = "group" /\ WG!FiberStep(f))
  /\ WF_groupVars(part = "group" /\ WG!StartWork)
  /\ WF_groupVars(part = "group" /\ WG!EndWork)

\* The properties of each part, as its module states them
\* (streams/ServiceDiscovery.cpp, streams/LoadBalance.cpp, Worker.cpp).
BalancerFollows == D!BalancerFollows
GetFindsValid == LB!GetFindsValid
StatsExact == HS!StatsExact
TokensKept == WG!TokensKept
DiscoveryConverges == part = "discovery" => D!Registered /\ D!DatasConverge
CallsReturn == part = "group" => WG!CallsReturn
=============================================================================
