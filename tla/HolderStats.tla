----------------------------- MODULE HolderStats -----------------------------
(***************************************************************************)
(* The statistics of one LoadBalanceItem: HolderStatsSet, a ring of slots, *)
(* one per second (src/src/streams/LoadBalance.cpp), as                    *)
(* RockSDLoadBalance::request (src/src/rpc/RockStream.cpp) uses it.        *)
(*                                                                         *)
(* request() takes a reference to the slot of the current second, counts   *)
(* there, gives the worker away until the answer comes, and counts the     *)
(* outcome in the slot it still refers to.  The counters are atomic;       *)
(* init(), which clears the slots that are reused, has no lock.            *)
(***************************************************************************)
EXTENDS Integers, FiniteSets

CONSTANTS
  Reqs,      (* calls of request()                                         *)
  N,         (* slots in the ring: 5 in the code                           *)
  Width,     (* counters are modulo 2^Width: 32 in the code                *)
  OneThread, (* TRUE: only waiting for the answer gives the worker away    *)
  MaxAge,    (* bound: seconds a call may take                             *)
  MaxNow     (* bound: seconds in the instance                             *)

HolderStatsAssumption ==
  /\ N \in Nat \ {0} /\ Width \in Nat \ {0}
  /\ OneThread \in BOOLEAN /\ MaxAge \in Nat /\ MaxNow \in Nat

Slots == 0..N - 1
Fields == {"total", "doing", "oks", "timeouts", "errs"}
Cleared == [f \in Fields |-> 0]

VARIABLES
  now,    (* the clock, in seconds                                         *)
  last,   (* _lastUpdateTime                                               *)
  stats,  (* _stats                                                        *)
  pc,     (* pc[r]: where request r is                                     *)
  ts,     (* ts[r]: second r has read                                      *)
  at,     (* at[r]: the loop's t, next second to clear                     *)
  out     (* out[r]: how r ended                                           *)

vars == <<now, last, stats, pc, ts, at, out>>

TypeOK ==
  /\ now \in 1..MaxNow /\ last \in 0..now
  /\ stats \in [Slots -> [Fields -> 0..2^Width - 1]]
  /\ pc \in [Reqs -> {"idle", "init", "clear", "doing", "total", "wait", "dec", "done"}]
  /\ ts \in [Reqs -> 0..now] /\ at \in [Reqs -> 0..now + 1]
  /\ out \in [Reqs -> {"none", "oks", "timeouts", "errs", "other"}]

Init ==
  /\ now = 1 /\ last = 0
  /\ stats = [k \in Slots |-> Cleared]
  /\ pc = [r \in Reqs |-> "idle"]
  /\ ts = [r \in Reqs |-> 0] /\ at = [r \in Reqs |-> 0]
  /\ out = [r \in Reqs |-> "none"]

Busy(r) == pc[r] \notin {"idle", "wait", "done"}
MayRun(r) == OneThread => \A q \in Reqs \ {r} : ~Busy(q)

\* Atomic::addFetch and subFetch on a field of the slot r refers to
AddFetch(r, f, v) ==
  stats' = [stats EXCEPT ![ts[r] % N][f] = (@ + v + 2^Width) % 2^Width]

(***************************************************************************)
(* request                                                                 *)
(***************************************************************************)
Begin(r) ==
  /\ pc[r] = "idle" /\ MayRun(r)
  /\ ts' = [ts EXCEPT ![r] = now]
  /\ pc' = [pc EXCEPT ![r] = "init"]
  /\ UNCHANGED <<now, last, stats, at, out>>

\* init(): compare _lastUpdateTime
InitCheck(r) ==
  /\ pc[r] = "init" /\ MayRun(r)
  /\ IF last < ts[r]
     THEN pc' = [pc EXCEPT ![r] = "clear"] /\ at' = [at EXCEPT ![r] = last + 1]
     ELSE pc' = [pc EXCEPT ![r] = "doing"] /\ UNCHANGED at
  /\ UNCHANGED <<now, last, stats, ts, out>>

\* Faulty variant: the slot of the current second is not cleared.
ClearShort(r) ==
  /\ pc[r] = "clear" /\ MayRun(r)
  /\ stats' = [k \in Slots |->
                 IF \E t \in at[r]..ts[r] - 1 : t % N = k THEN Cleared ELSE stats[k]]
  /\ last' = ts[r]
  /\ pc' = [pc EXCEPT ![r] = "doing"]
  /\ UNCHANGED <<now, ts, at, out>>

\* init(): clear the slots of the seconds since then, N at most, and set
\* _lastUpdateTime
Clear(r) ==
  /\ pc[r] = "clear" /\ MayRun(r)
  /\ stats' = [k \in Slots |->
                 IF \E t \in at[r]..ts[r] : t % N = k THEN Cleared ELSE stats[k]]
  /\ last' = ts[r]
  /\ pc' = [pc EXCEPT ![r] = "doing"]
  /\ UNCHANGED <<now, ts, at, out>>

IncDoing(r) ==
  /\ pc[r] = "doing" /\ MayRun(r)
  /\ AddFetch(r, "doing", 1)
  /\ pc' = [pc EXCEPT ![r] = "total"]
  /\ UNCHANGED <<now, last, ts, at, out>>

IncTotal(r) ==
  /\ pc[r] = "total" /\ MayRun(r)
  /\ AddFetch(r, "total", 1)
  /\ pc' = [pc EXCEPT ![r] = "wait"]
  /\ UNCHANGED <<now, last, ts, at, out>>

\* RockStream::request returns; a positive result is not counted
Answer(r, o) ==
  /\ pc[r] = "wait" /\ MayRun(r)
  /\ out' = [out EXCEPT ![r] = o]
  /\ IF o = "other" THEN UNCHANGED stats ELSE AddFetch(r, o, 1)
  /\ pc' = [pc EXCEPT ![r] = "dec"]
  /\ UNCHANGED <<now, last, ts, at>>

DecDoing(r) ==
  /\ pc[r] = "dec" /\ MayRun(r)
  /\ AddFetch(r, "doing", -1)
  /\ pc' = [pc EXCEPT ![r] = "done"]
  /\ UNCHANGED <<now, last, ts, at, out>>

\* The clock; calls time out, so they do not get older than MaxAge.
Tick ==
  /\ now < MaxNow
  /\ \A r \in Reqs : Busy(r) \/ pc[r] = "wait" => now < ts[r] + MaxAge
  /\ now' = now + 1
  /\ UNCHANGED <<last, stats, pc, ts, at, out>>

Steps(r) ==
  \/ Begin(r) \/ InitCheck(r) \/ Clear(r) \/ IncDoing(r) \/ IncTotal(r) \/ DecDoing(r)
  \/ \E o \in {"oks", "timeouts", "errs", "other"} : Answer(r, o)

Next == Tick \/ \E r \in Reqs : Steps(r)

Spec == Init /\ [][Next]_vars

(***************************************************************************)
(* Properties                                                              *)
(***************************************************************************)
Counted(r) == pc[r] \in {"total", "wait", "dec"}

\* _doing of each slot is the number of calls under way that have counted
\* themselves there: a slot is not cleared under a call that still refers to it,
\* and no counter wraps around.
DoingExact ==
  \A k \in Slots :
    stats[k]["doing"] = Cardinality({r \in Reqs : Counted(r) /\ ts[r] % N = k})

\* The window is a window: whenever no call is being counted in, each slot has
\* exactly the calls of the one second of the last N that it stands for, and
\* their outcomes.
WindowExact ==
  (\A r \in Reqs : ~Busy(r)) =>
    \A k \in Slots :
      LET mine == {r \in Reqs : pc[r] # "idle" /\ ts[r] % N = k /\ ts[r] > last - N}
      IN  /\ stats[k]["total"] = Cardinality(mine)
          /\ \A o \in {"oks", "timeouts", "errs"} :
               stats[k][o] = Cardinality({r \in mine : out[r] = o})

\* What the balancer reads of an item (LoadBalance.cpp 80-153) is what its
\* calls have done.
StatsExact == DoingExact /\ WindowExact
=============================================================================
