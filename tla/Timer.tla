------------------------------- MODULE Timer -------------------------------
(***************************************************************************)
(* Timer and TimerManager (src/src/Timer.cpp), driven by the idle loop of  *)
(* the worker threads of an IOManager (src/src/IoManager.cpp).             *)
(*                                                                         *)
(* TimerManager keeps its timers in a std::set ordered by (deadline,       *)
(* address).  The order key is the mutable field _next of the timer, so    *)
(* the set is modelled by the keys it was given at insertion: find() on a  *)
(* timer succeeds only if the key it has now is the key it was filed       *)
(* under.  A worker that finds no task asks for the nearest deadline,      *)
(* sleeps in epoll_wait, and on waking collects what has expired; a timer  *)
(* inserted in front of the set wakes a sleeper through the tickle pipe.   *)
(*                                                                         *)
(* Each step is one critical section of TimerManager::_mutex, or the code  *)
(* between two of them.                                                    *)
(***************************************************************************)
EXTENDS Integers, FiniteSets

CONSTANTS
  Timers,      (* addresses of the Timer objects (the set's tie-break)     *)
  Recurring,   (* those of them that are created recurring                 *)
  Threads,     (* worker threads                                           *)
  Periods,     (* values of _ms a client asks for                          *)
  StartTime,   (* clock value at construction                              *)
  MaxTime,     (* bound: the clock stops here                              *)
  Hour,        (* 60 * 60 * 1000, the rollover threshold                   *)
  MaxTimeout,  (* MAX_TIMEOUT, the longest epoll_wait                      *)
  IntLimit,    (* 2^31: an int is less than this, in either direction      *)
  MaxTickles,  (* bound: insertions whose tickle is still to come          *)
  StepBack     (* TRUE when the wall clock may be set back                 *)

\* GetCurrentMs() is the wall clock; it never reads less than an hour, so
\* the unsigned _previousTime - Hour of detectClockRollover cannot wrap.
ASSUME TimerAssumption ==
  /\ Timers \subseteq Nat /\ Recurring \subseteq Timers
  /\ Threads # {}
  /\ Periods \subseteq Nat
  /\ StartTime \in Nat /\ MaxTime \in Nat /\ Hour \in Nat
  /\ Hour <= StartTime /\ StartTime <= MaxTime
  /\ MaxTimeout \in Nat /\ IntLimit \in Nat /\ MaxTimeout < IntLimit
  /\ MaxTickles \in Nat
  /\ StepBack \in BOOLEAN

VARIABLES
  now,          (* GetCurrentMs()                                          *)
  stage,        (* "free", "made" by the constructor, "added" to the set   *)
  live,         (* _callback is not null                                   *)
  ms,           (* _ms                                                     *)
  next,         (* _next                                                   *)
  timers,       (* TimerManager::_timers, as the keys timers are filed at  *)
  tickled,      (* TimerManager::_tickled                                  *)
  previousTime, (* TimerManager::_previousTime                             *)
  tickling,     (* calls of onTimerInsertedAtFront still to come           *)
  pipe,         (* tickle pipe: "empty", "edge" unreported, "seen"         *)
  pc,           (* where a worker is in run() / idle(); its locals below   *)
                (* are reset when they go out of scope                     *)
  wakeAt,       (* when its epoll_wait times out, or Never                 *)
  nowMs,        (* now_ms read by listExpiredCb before it locks            *)
  gotTickle,    (* its epoll_wait reported the tickle pipe                 *)
  fired,        (* history: callbacks handed out (0, 1, 2 = more)          *)
  cancelled     (* history: timers whose cancel() returned true            *)

timerVars  == <<stage, live, ms, next, timers>>
threadVars == <<pc, wakeAt, nowMs, gotTickle>>
vars == <<now, timerVars, tickled, previousTime, tickling, pipe, threadVars,
          fired, cancelled>>

Stages == {"free", "made", "added"}
Pcs    == {"run", "idle", "sleep", "list", "drain"}

\* the timeout of an epoll_wait that waits for events only
Never == -1

TypeOK ==
  /\ now \in Nat
  /\ stage \in [Timers -> Stages]
  /\ live \in [Timers -> BOOLEAN]
  /\ ms \in [Timers -> Nat]
  /\ next \in [Timers -> Nat]
  /\ timers \subseteq Nat \X Timers
  /\ tickled \in BOOLEAN
  /\ previousTime \in Nat
  /\ tickling \in Nat
  /\ pipe \in {"empty", "edge", "seen"}
  /\ pc \in [Threads -> Pcs]
  /\ wakeAt \in [Threads -> Nat \cup {Never}]
  /\ nowMs \in [Threads -> Nat]
  /\ gotTickle \in [Threads -> BOOLEAN]
  /\ fired \in [Timers -> 0..2]
  /\ cancelled \subseteq Timers

Init ==
  /\ now = StartTime
  /\ stage = [t \in Timers |-> "free"]
  /\ live = [t \in Timers |-> FALSE]
  /\ ms = [t \in Timers |-> 0]
  /\ next = [t \in Timers |-> 0]
  /\ timers = {}
  /\ tickled = FALSE
  /\ previousTime = StartTime
  /\ tickling = 0
  /\ pipe = "empty"
  /\ pc = [th \in Threads |-> "run"]
  /\ wakeAt = [th \in Threads |-> 0]
  /\ nowMs = [th \in Threads |-> 0]
  /\ gotTickle = [th \in Threads |-> FALSE]
  /\ fired = [t \in Timers |-> 0]
  /\ cancelled = {}

(***************************************************************************)
(* The ordered set                                                         *)
(***************************************************************************)
\* Timer::Comparator: by deadline, then by address.
Before(a, b) == a[1] < b[1] \/ (a[1] = b[1] /\ a[2] < b[2])

Key(t) == <<next[t], t>>

AtFront(k, S) == \A j \in S : ~Before(j, k)

\* TimerManager::addTimer(val, lock): file k into S and owe a tickle if it
\* is the new front and nobody has been tickled since the last getNextTimer.
AddTimerLocked(k, S) ==
  LET at_front == AtFront(k, S \cup {k}) /\ ~tickled
  IN  /\ timers' = S \cup {k}
      /\ tickled' = (tickled \/ at_front)
      /\ tickling' = IF at_front THEN tickling + 1 ELSE tickling

\* Faulty variant: the comparison with the previous reading is reversed.
RolloverReversed(now_ms) == previousTime < now_ms - Hour

\* detectClockRollover(now_ms), without its assignment to _previousTime
Rollover(now_ms) == now_ms < previousTime /\ now_ms < previousTime - Hour

\* [_timers.begin(), it) in listExpiredCb
Expired(now_ms) == {k \in timers : Rollover(now_ms) \/ k[1] <= now_ms}

(***************************************************************************)
(* Clients                                                                 *)
(***************************************************************************)
\* new Timer(ms, cb, recurring, this): the deadline is fixed before the lock
Construct(t, m) ==
  /\ stage[t] = "free"
  /\ stage' = [stage EXCEPT ![t] = "made"]
  /\ live' = [live EXCEPT ![t] = TRUE]
  /\ ms' = [ms EXCEPT ![t] = m]
  /\ next' = [next EXCEPT ![t] = now + m]
  /\ UNCHANGED <<now, timers, tickled, previousTime, tickling, pipe, threadVars,
                 fired, cancelled>>

AddTimer(t) ==
  /\ stage[t] = "made" /\ tickling < MaxTickles
  /\ stage' = [stage EXCEPT ![t] = "added"]
  /\ AddTimerLocked(Key(t), timers)
  /\ UNCHANGED <<now, live, ms, next, previousTime, pipe, threadVars,
                 fired, cancelled>>

\* Faulty variant: the wake-up is forgotten.
OnTimerInsertedAtFrontSilent ==
  /\ tickling > 0
  /\ tickling' = tickling - 1
  /\ UNCHANGED <<now, timerVars, tickled, previousTime, pipe, threadVars, fired,
                 cancelled>>

\* IOManager::onTimerInsertedAtFront: tickle() writes to the pipe only if
\* hasIdleThreads().
OnTimerInsertedAtFront ==
  /\ tickling > 0
  /\ tickling' = tickling - 1
  /\ pipe' = IF \E th \in Threads : pc[th] # "run" THEN "edge" ELSE pipe
  /\ UNCHANGED <<now, timerVars, tickled, previousTime, threadVars, fired,
                 cancelled>>

Refresh(t) ==
  /\ stage[t] = "added" /\ live[t] /\ Key(t) \in timers
  /\ next' = [next EXCEPT ![t] = now + ms[t]]
  /\ timers' = (timers \ {Key(t)}) \cup {<<now + ms[t], t>>}
  /\ UNCHANGED <<now, stage, live, ms, tickled, previousTime,
                 tickling, pipe, threadVars, fired, cancelled>>

\* Faulty variant: the callback is dropped but the timer stays in the set.
CancelKeepsEntry(t) ==
  /\ stage[t] = "added" /\ live[t]
  /\ live' = [live EXCEPT ![t] = FALSE]
  /\ cancelled' = cancelled \cup {t}
  /\ UNCHANGED <<now, stage, ms, next, timers, tickled, previousTime,
                 tickling, pipe, threadVars, fired>>

\* erase(find(this)) has no check for end(): see CancelFindsTimer.
Cancel(t) ==
  /\ stage[t] = "added" /\ live[t]
  /\ live' = [live EXCEPT ![t] = FALSE]
  /\ timers' = timers \ {Key(t)}
  /\ cancelled' = cancelled \cup {t}
  /\ UNCHANGED <<now, stage, ms, next, tickled, previousTime,
                 tickling, pipe, threadVars, fired>>

Reset(t, m, from_now) ==
  LET start == IF from_now THEN now ELSE next[t] - ms[t]
  IN  /\ m # ms[t] \/ from_now
      /\ stage[t] = "added" /\ live[t] /\ Key(t) \in timers
      /\ tickling < MaxTickles
      /\ ms' = [ms EXCEPT ![t] = m]
      /\ next' = [next EXCEPT ![t] = start + m]
      /\ AddTimerLocked(<<start + m, t>>, timers \ {Key(t)})
      /\ UNCHANGED <<now, stage, live, previousTime, pipe,
                     threadVars, fired, cancelled>>

(***************************************************************************)
(* Workers                                                                 *)
(***************************************************************************)
\* run() found no task: ++_idle_thread_cnt, swap into the idle fiber
EnterIdle(th) ==
  /\ pc[th] = "run"
  /\ pc' = [pc EXCEPT ![th] = "idle"]
  /\ UNCHANGED <<now, timerVars, tickled, previousTime, tickling, pipe, wakeAt,
                 nowMs, gotTickle, fired, cancelled>>

\* getNextTimer(): the delay to the first deadline, 0 if it is past
Delay(n) == IF now >= n THEN 0 ELSE n - now

\* (int)d for an unsigned 64 bit d
ToInt(d) ==
  LET low == d % (2 * IntLimit)
  IN  IF low < IntLimit THEN low ELSE low - 2 * IntLimit

\* The timeout idle() passes to epoll_wait: the delay, as an int, is compared
\* with MAX_TIMEOUT, so one of 2^31 ms or more may come out negative.
Capped(d) == IF ToInt(d) > MaxTimeout THEN MaxTimeout ELSE ToInt(d)

\* epoll_wait(.., timeout) waits for ever when the timeout is negative.
WaitUntil(timeout) == IF timeout < 0 THEN Never ELSE now + timeout

\* Faulty variant: _tickled is not reset.
GetNextTimerKeepsTickled(th) ==
  /\ pc[th] = "idle"
  /\ \/ /\ timers = {}
        /\ wakeAt' = [wakeAt EXCEPT ![th] = now + MaxTimeout]
     \/ \E k \in timers :
          /\ AtFront(k, timers)
          /\ wakeAt' = [wakeAt EXCEPT ![th] = WaitUntil(Capped(Delay(k[1])))]
  /\ pc' = [pc EXCEPT ![th] = "sleep"]
  /\ UNCHANGED <<now, timerVars, tickled, previousTime, tickling, pipe, nowMs,
                 gotTickle, fired, cancelled>>

GetNextTimer(th) ==
  /\ pc[th] = "idle"
  /\ tickled' = FALSE
  /\ \/ /\ timers = {}
        /\ wakeAt' = [wakeAt EXCEPT ![th] = now + MaxTimeout]
     \/ \E k \in timers :
          /\ AtFront(k, timers)
          /\ wakeAt' = [wakeAt EXCEPT ![th] = WaitUntil(Capped(Delay(k[1])))]
  /\ pc' = [pc EXCEPT ![th] = "sleep"]
  /\ UNCHANGED <<now, timerVars, previousTime, tickling, pipe, nowMs, gotTickle,
                 fired, cancelled>>

\* epoll_wait returns; listExpiredCb reads the clock before it locks
Wake(th, tickle) ==
  /\ pc[th] = "sleep"
  /\ pc' = [pc EXCEPT ![th] = "list"]
  /\ nowMs' = [nowMs EXCEPT ![th] = now]
  /\ gotTickle' = [gotTickle EXCEPT ![th] = tickle]
  /\ wakeAt' = [wakeAt EXCEPT ![th] = 0]
  /\ UNCHANGED <<now, timerVars, tickled, previousTime, tickling, fired,
                 cancelled>>

WakeTimeout(th) ==
  /\ wakeAt[th] # Never /\ wakeAt[th] <= now
  /\ Wake(th, FALSE) /\ UNCHANGED pipe

\* The pipe is registered EPOLLIN | EPOLLET: one sleeper is told of an edge.
WakeTickle(th) == pipe = "edge" /\ Wake(th, TRUE) /\ pipe' = "seen"

\* A descriptor became ready (src/src/IoManager.cpp); may happen at any time.
WakeEvent(th) == Wake(th, FALSE) /\ UNCHANGED pipe

Saturate(n) == IF n >= 2 THEN 2 ELSE n + 1

\* Faulty variant: a one-shot timer keeps its callback after it expired.
ListExpiredCbKeepsCb(th) ==
  LET E == Expired(nowMs[th])
      hit == {k[2] : k \in E}
      again == hit \cap Recurring
  IN  /\ pc[th] = "list"
      /\ pc' = [pc EXCEPT ![th] = "drain"]
      /\ previousTime' = IF timers = {} THEN previousTime ELSE nowMs[th]
      /\ next' = [t \in Timers |->
                    IF t \in again THEN nowMs[th] + ms[t] ELSE next[t]]
      /\ timers' = (timers \ E) \cup {<<nowMs[th] + ms[t], t>> : t \in again}
      /\ fired' = [t \in Timers |->
                    IF t \in hit THEN Saturate(fired[t]) ELSE fired[t]]
      /\ nowMs' = [nowMs EXCEPT ![th] = 0]
      /\ UNCHANGED <<now, stage, live, ms, tickled, tickling, pipe, wakeAt,
                     gotTickle, cancelled>>

\* Collect what has expired; recurring timers are filed again, others lose
\* their callback.  Nothing at all happens to an empty set.
ListExpiredCb(th) ==
  LET E == Expired(nowMs[th])
      hit == {k[2] : k \in E}
      again == hit \cap Recurring
  IN  /\ pc[th] = "list"
      /\ pc' = [pc EXCEPT ![th] = "drain"]
      /\ previousTime' = IF timers = {} THEN previousTime ELSE nowMs[th]
      /\ next' = [t \in Timers |->
                    IF t \in again THEN nowMs[th] + ms[t] ELSE next[t]]
      /\ timers' = (timers \ E) \cup {<<nowMs[th] + ms[t], t>> : t \in again}
      /\ live' = [t \in Timers |-> live[t] /\ t \notin (hit \ again)]
      /\ fired' = [t \in Timers |->
                    IF t \in hit THEN Saturate(fired[t]) ELSE fired[t]]
      /\ nowMs' = [nowMs EXCEPT ![th] = 0]
      /\ UNCHANGED <<now, stage, ms, tickled, tickling, pipe, wakeAt,
                     gotTickle, cancelled>>

\* schedule(cbs), drain the pipe if it was reported, swap out of idle
Drain(th) ==
  /\ pc[th] = "drain"
  /\ pc' = [pc EXCEPT ![th] = "run"]
  /\ pipe' = IF gotTickle[th] THEN "empty" ELSE pipe
  /\ gotTickle' = [gotTickle EXCEPT ![th] = FALSE]
  /\ UNCHANGED <<now, timerVars, tickled, previousTime, tickling, wakeAt, nowMs,
                 fired, cancelled>>

(***************************************************************************)
(* The clock                                                               *)
(***************************************************************************)
\* GetCurrentMs(): it advances, and with StepBack it may be set back
ClockMoves ==
  /\ now' \in {n \in Hour..MaxTime : n = now + 1 \/ (StepBack /\ n < now)}
  /\ UNCHANGED <<timerVars, tickled, previousTime, tickling, pipe, threadVars,
                 fired, cancelled>>

Client ==
  \/ \E t \in Timers, m \in Periods : Construct(t, m)
  \/ \E t \in Timers : AddTimer(t) \/ Refresh(t) \/ Cancel(t)
  \/ \E t \in Timers, m \in Periods, b \in BOOLEAN : Reset(t, m, b)
  \/ OnTimerInsertedAtFront

Worker(th) ==
  \/ EnterIdle(th) \/ GetNextTimer(th)
  \/ WakeTimeout(th) \/ WakeTickle(th) \/ WakeEvent(th)
  \/ ListExpiredCb(th) \/ Drain(th)

Next == Client \/ (\E th \in Threads : Worker(th)) \/ ClockMoves

Spec == Init /\ [][Next]_vars

\* Threads are scheduled by the operating system: a worker that can take a
\* step of its own takes one, an expired epoll_wait returns, a reported edge
\* reaches a sleeper, and a caller of addTimer goes on to its tickle.
Fairness ==
  /\ WF_vars(OnTimerInsertedAtFront)
  /\ \A th \in Threads :
       /\ WF_vars(EnterIdle(th)) /\ WF_vars(GetNextTimer(th))
       /\ WF_vars(WakeTimeout(th)) /\ WF_vars(WakeTickle(th))
       /\ WF_vars(ListExpiredCb(th)) /\ WF_vars(Drain(th))

FairSpec == Spec /\ Fairness

(***************************************************************************)
(* Properties                                                              *)
(***************************************************************************)
\* The set is filed under current keys: no timer's deadline changes while it
\* is in the set, so find() can never miss (Timer.cpp 35, 49, 65).
KeysFresh ==
  \A k \in timers : k = Key(k[2]) /\ live[k[2]] /\ stage[k[2]] = "added"

\* A timer that still has its callback is in the set.  cancel() relies on it:
\* it erases find(this) without comparing it with end() (Timer.cpp 47-50).
CancelFindsTimer ==
  \A t \in Timers : stage[t] = "added" /\ live[t] => Key(t) \in timers

\* A one-shot timer hands its callback out at most once, whatever refresh(),
\* reset() and concurrent collections by several workers do, and never after
\* a cancel() that returned true.
OneShotOnce ==
  \A t \in Timers : t \notin Recurring =>
    fired[t] + (IF t \in cancelled THEN 1 ELSE 0) <= 1

\* A worker that saw the first deadline 2^31 ms away or more, and whose
\* epoll_wait got a negative timeout for it (IoManager.cpp 369-374).
SleepsForEver == \E th \in Threads : wakeAt[th] = Never

\* Every delay a client asks for fits an int: under this nobody sleeps for
\* ever (theorem TimerTimeoutsFit).
PeriodsFit == \A m \in Periods : m < IntLimit

\* When every worker sleeps, none of them for ever, and no tickle is on its
\* way, some worker wakes at once or no later than the first deadline:
\* _tickled never suppresses a wake-up that somebody needs.  While a worker
\* sleeps for ever the timers filed behind the deadline it saw, short ones
\* too, may go unnoticed: an insertion behind it tickles nobody.
NoOversleep ==
  (/\ \A th \in Threads : pc[th] = "sleep"
   /\ ~SleepsForEver
   /\ tickling = 0
   /\ pipe # "edge")
  => \A k \in timers : \E th \in Threads :
       wakeAt[th] <= now \/ wakeAt[th] <= k[1]

\* Setting the wall clock back delays a timer by an hour at most: a
\* collection either sees the set-back and expires everything, or what it
\* leaves is due within an hour more than its period (Timer.cpp 165-188,
\* 205-214).  The premise says that the deadlines were computed no later than
\* the previous collection, the reading a set-back is measured against.
CollectsBounded ==
  \A th \in Threads :
    /\ ListExpiredCb(th)
    /\ \A k \in timers : k[1] <= previousTime + ms[k[2]]
    => \A k \in timers' : k[1] <= nowMs[th] + Hour + ms[k[2]]
SetBackDelayBounded == [][CollectsBounded]_vars

\* A deadline that has passed is acted on: the timer fires, or is cancelled
\* or moved to another deadline by its owner; unless a worker goes to sleep
\* for ever, which takes a deadline 2^31 ms away.
DueIsCollected ==
  \A n \in StartTime..MaxTime, t \in Timers :
    (<<n, t>> \in timers /\ n <= now) ~> (<<n, t>> \notin timers \/ SleepsForEver)
=============================================================================
