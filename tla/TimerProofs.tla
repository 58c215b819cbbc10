---------------------------- MODULE TimerProofs ----------------------------
(***************************************************************************)
(* Proofs about the timer set, for any number of timers, workers and       *)
(* periods and whether or not the clock is set back.                       *)
(*                                                                         *)
(* The two facts TimerManager relies on, KeysFresh and CancelFindsTimer,   *)
(* say together that the set is exactly the timers that still have a       *)
(* callback, each filed under its present deadline.  TimerInv adds what    *)
(* the induction needs: a timer that has been constructed but not added    *)
(* has its callback, start = _next - _ms of reset() does not wrap, and the *)
(* history of hand-outs agrees with the callbacks.                         *)
(***************************************************************************)
EXTENDS Timer, TLAPS

\* A timer not yet given to the manager has its callback.
MadeIsLive == \A t \in Timers : stage[t] = "made" => live[t]

\* A deadline is never before its period: _next - _ms stays unsigned.
StartIsNat == \A t \in Timers : next[t] - ms[t] \in Nat

\* Once handed out or cancelled, a one-shot timer has no callback; a timer
\* that is cancelled has none; one that was never constructed has no history.
HistoryAgrees ==
  \A t \in Timers :
    /\ t \in cancelled => ~live[t]
    /\ t \notin Recurring /\ live[t] => fired[t] = 0
    /\ stage[t] = "free" => ~live[t] /\ fired[t] = 0 /\ t \notin cancelled
    /\ stage[t] = "made" => fired[t] = 0 /\ t \notin cancelled

TimerInv ==
  /\ TypeOK /\ KeysFresh /\ CancelFindsTimer
  /\ MadeIsLive /\ StartIsNat /\ HistoryAgrees /\ OneShotOnce

-----------------------------------------------------------------------------
\* Initially the set is empty and no timer exists.
LEMMA InitInv == Init => TimerInv
<1> SUFFICES ASSUME Init PROVE TimerInv
  OBVIOUS
<1>1. TypeOK
  <2>1. now \in Nat /\ previousTime \in Nat /\ tickling \in Nat
    BY TimerAssumption DEF Init
  <2>2. /\ ms \in [Timers -> Nat] /\ next \in [Timers -> Nat]
        /\ fired \in [Timers -> 0..2]
        /\ wakeAt \in [Threads -> Nat] /\ nowMs \in [Threads -> Nat]
    BY DEF Init
  <2>3. /\ live \in [Timers -> BOOLEAN] /\ gotTickle \in [Threads -> BOOLEAN]
        /\ tickled \in BOOLEAN
    BY DEF Init
  <2>4. stage \in [Timers -> Stages] /\ pc \in [Threads -> Pcs]
    BY DEF Init, Stages, Pcs
  <2>5. /\ timers \subseteq Nat \X Timers /\ cancelled \subseteq Timers
        /\ pipe \in {"empty", "edge", "seen"}
    BY DEF Init
  <2>6. QED BY <2>1, <2>2, <2>3, <2>4, <2>5 DEF TypeOK
<1>2. KeysFresh /\ CancelFindsTimer /\ MadeIsLive
  BY DEF Init, KeysFresh, CancelFindsTimer, MadeIsLive
<1>3. StartIsNat
  BY DEF Init, StartIsNat
<1>4. HistoryAgrees /\ OneShotOnce
  BY DEF Init, HistoryAgrees, OneShotOnce
<1>5. QED BY <1>1, <1>2, <1>3, <1>4 DEF TimerInv

\* Steps that touch neither the timers nor the history preserve everything
\* but the typing of the variables they change.
LEMMA FrameInv ==
  ASSUME TimerInv, TypeOK', UNCHANGED timerVars, UNCHANGED <<fired, cancelled>>
  PROVE  TimerInv'
  BY DEF TimerInv, timerVars, KeysFresh, CancelFindsTimer, MadeIsLive,
         StartIsNat, HistoryAgrees, OneShotOnce, Key

LEMMA ConstructInv ==
  ASSUME TimerInv, NEW t \in Timers, NEW m \in Periods, Construct(t, m)
  PROVE  TimerInv'
  BY TimerAssumption
  DEF TimerInv, TypeOK, KeysFresh, CancelFindsTimer, MadeIsLive, StartIsNat,
      HistoryAgrees, OneShotOnce, Key, Construct, threadVars, Stages

LEMMA AddTimerInv ==
  ASSUME TimerInv, NEW t \in Timers, AddTimer(t)
  PROVE  TimerInv'
<1>1. TypeOK'
  BY DEF TimerInv, TypeOK, AddTimer, AddTimerLocked, Key, threadVars, Stages
<1>2. timers' = timers \cup {Key(t)} /\ UNCHANGED <<live, ms, next>>
  BY DEF AddTimer, AddTimerLocked
<1>3. KeysFresh' /\ CancelFindsTimer'
  BY <1>2 DEF TimerInv, TypeOK, KeysFresh, CancelFindsTimer, MadeIsLive, Key,
             AddTimer
<1>4. MadeIsLive' /\ StartIsNat' /\ HistoryAgrees' /\ OneShotOnce'
  BY <1>2 DEF TimerInv, TypeOK, MadeIsLive, StartIsNat, HistoryAgrees,
             OneShotOnce, AddTimer
<1>5. QED BY <1>1, <1>3, <1>4 DEF TimerInv

LEMMA RefreshInv ==
  ASSUME TimerInv, NEW t \in Timers, Refresh(t)
  PROVE  TimerInv'
<1>1. TypeOK'
  BY DEF TimerInv, TypeOK, Refresh, Key, threadVars
<1>2. KeysFresh' /\ CancelFindsTimer'
  BY DEF TimerInv, TypeOK, KeysFresh, CancelFindsTimer, Key, Refresh
<1>3. MadeIsLive' /\ StartIsNat' /\ HistoryAgrees' /\ OneShotOnce'
  BY DEF TimerInv, TypeOK, MadeIsLive, StartIsNat, HistoryAgrees, OneShotOnce,
         Refresh
<1>4. QED BY <1>1, <1>2, <1>3 DEF TimerInv

LEMMA CancelInv ==
  ASSUME TimerInv, NEW t \in Timers, Cancel(t)
  PROVE  TimerInv'
<1>1. TypeOK'
  BY DEF TimerInv, TypeOK, Cancel, Key, threadVars
<1>2. KeysFresh' /\ CancelFindsTimer'
  BY DEF TimerInv, TypeOK, KeysFresh, CancelFindsTimer, Key, Cancel
<1>3. MadeIsLive' /\ StartIsNat' /\ HistoryAgrees' /\ OneShotOnce'
  BY DEF TimerInv, TypeOK, MadeIsLive, StartIsNat, HistoryAgrees, OneShotOnce,
         Cancel
<1>4. QED BY <1>1, <1>2, <1>3 DEF TimerInv

LEMMA ResetInv ==
  ASSUME TimerInv, NEW t \in Timers, NEW m \in Periods, NEW b \in BOOLEAN,
         Reset(t, m, b)
  PROVE  TimerInv'
<1> DEFINE start == IF b THEN now ELSE next[t] - ms[t]
<1>1. start \in Nat /\ m \in Nat
  BY TimerAssumption DEF TimerInv, TypeOK, StartIsNat
<1>2. /\ ms' = [ms EXCEPT ![t] = m]
      /\ next' = [next EXCEPT ![t] = start + m]
      /\ timers' = (timers \ {Key(t)}) \cup {<<start + m, t>>}
      /\ tickled' \in BOOLEAN /\ tickling' \in Nat
      /\ UNCHANGED <<now, stage, live, previousTime, pipe, threadVars, fired,
                     cancelled>>
  BY DEF Reset, AddTimerLocked, TimerInv, TypeOK
<1> HIDE DEF start
<1>3. TypeOK'
  BY <1>1, <1>2 DEF TimerInv, TypeOK, threadVars
<1>4. KeysFresh' /\ CancelFindsTimer'
  BY <1>1, <1>2 DEF TimerInv, TypeOK, KeysFresh, CancelFindsTimer, Key, Reset
<1>5. MadeIsLive' /\ StartIsNat' /\ HistoryAgrees' /\ OneShotOnce'
  BY <1>1, <1>2 DEF TimerInv, TypeOK, MadeIsLive, StartIsNat, HistoryAgrees,
             OneShotOnce
<1>6. QED BY <1>3, <1>4, <1>5 DEF TimerInv

\* The collection takes out exactly the timers it expires, because each of
\* them has one key; a recurring one comes back under its new key.
LEMMA ListExpiredCbInv ==
  ASSUME TimerInv, NEW th \in Threads, ListExpiredCb(th)
  PROVE  TimerInv'
<1> DEFINE E == Expired(nowMs[th])
           hit == {k[2] : k \in E}
           again == hit \cap Recurring
           n == nowMs[th]
<1>1. /\ next' = [t \in Timers |-> IF t \in again THEN n + ms[t] ELSE next[t]]
      /\ timers' = (timers \ E) \cup {<<n + ms[t], t>> : t \in again}
      /\ live' = [t \in Timers |-> live[t] /\ t \notin (hit \ again)]
      /\ fired' = [t \in Timers |->
                    IF t \in hit THEN Saturate(fired[t]) ELSE fired[t]]
      /\ UNCHANGED <<now, stage, ms, tickled, tickling, pipe, wakeAt, gotTickle,
                     cancelled>>
      /\ pc' = [pc EXCEPT ![th] = "drain"]
      /\ previousTime' = IF timers = {} THEN previousTime ELSE n
      /\ nowMs' = [nowMs EXCEPT ![th] = 0]
  BY DEF ListExpiredCb
<1>2. n \in Nat /\ E \subseteq timers
  BY DEF TimerInv, TypeOK, Expired
<1>3. \A t \in Timers : t \in hit <=> (Key(t) \in E /\ live[t])
  BY <1>2 DEF TimerInv, TypeOK, KeysFresh, Key
<1>4. hit \subseteq Timers
  BY <1>2 DEF TimerInv, TypeOK
<1> HIDE DEF E, hit, n
<1>5. TypeOK'
  <2>1. next' \in [Timers -> Nat]
    BY <1>1, <1>2 DEF TimerInv, TypeOK
  <2>2. timers' \subseteq Nat \X Timers
    BY <1>1, <1>2, <1>4 DEF TimerInv, TypeOK
  <2>3. live' \in [Timers -> BOOLEAN] /\ fired' \in [Timers -> 0..2]
    BY <1>1 DEF TimerInv, TypeOK, Saturate
  <2>4. QED BY <1>1, <1>2, <2>1, <2>2, <2>3 DEF TimerInv, TypeOK, Pcs
<1>6. KeysFresh'
  <2> SUFFICES ASSUME NEW k \in timers'
               PROVE  (k = Key(k[2]) /\ live[k[2]] /\ stage[k[2]] = "added")'
    BY DEF KeysFresh
  <2>1. CASE k \in timers \ E
    <3>1. k[2] \in Timers /\ k = Key(k[2]) /\ live[k[2]] /\ stage[k[2]] = "added"
      BY <2>1 DEF TimerInv, TypeOK, KeysFresh
    <3>2. k[2] \notin hit
      BY <2>1, <3>1, <1>3
    <3>3. QED BY <3>1, <3>2, <1>1 DEF Key
  <2>2. CASE k \in {<<n + ms[t], t>> : t \in again}
    <3>1. PICK t \in again : k = <<n + ms[t], t>>
      BY <2>2
    <3>2. t \in Timers /\ live[t] /\ stage[t] = "added"
      BY <1>3, <1>4, <1>2 DEF TimerInv, KeysFresh, Key
    <3>3. QED BY <3>1, <3>2, <1>1 DEF Key
  <2>3. QED BY <2>1, <2>2, <1>1
<1>7. CancelFindsTimer'
  <2> SUFFICES ASSUME NEW t \in Timers, stage'[t] = "added", live'[t]
               PROVE  Key(t)' \in timers'
    BY DEF CancelFindsTimer
  <2>1. Key(t) \in timers
    BY <1>1 DEF TimerInv, CancelFindsTimer
  <2>2. CASE t \in again
    BY <2>2, <1>1 DEF Key
  <2>3. CASE t \notin again
    <3>1. t \notin hit
      BY <2>3, <1>1
    <3>2. Key(t) \notin E
      BY <3>1, <1>3, <1>1
    <3>3. QED BY <2>1, <2>3, <3>2, <1>1 DEF Key
  <2>4. QED BY <2>2, <2>3
<1>8. MadeIsLive' /\ StartIsNat'
  <2>1. \A t \in hit : stage[t] = "added"
    BY <1>2, <1>3, <1>4 DEF TimerInv, KeysFresh, Key
  <2>2. MadeIsLive'
    BY <1>1, <2>1 DEF TimerInv, MadeIsLive
  <2>3. StartIsNat'
    BY <1>1, <1>2 DEF TimerInv, StartIsNat, TypeOK
  <2>4. QED BY <2>2, <2>3
<1>9. HistoryAgrees' /\ OneShotOnce'
  <2>1. \A t \in hit : stage[t] = "added" /\ live[t]
    BY <1>2, <1>3, <1>4 DEF TimerInv, KeysFresh, Key
  <2>2. HistoryAgrees'
    BY <1>1, <1>4, <2>1 DEF TimerInv, HistoryAgrees, Saturate, TypeOK
  <2>3. OneShotOnce'
    BY <1>1, <1>4, <2>1 DEF TimerInv, HistoryAgrees, OneShotOnce, Saturate, TypeOK
  <2>4. QED BY <2>2, <2>3
<1>10. QED BY <1>5, <1>6, <1>7, <1>8, <1>9 DEF TimerInv

-----------------------------------------------------------------------------
\* The conversion to int of a delay that fits an int changes nothing, and of
\* any other it yields a smaller number.
LEMMA ToIntFacts ==
  ASSUME NEW d \in Nat
  PROVE  /\ ToInt(d) \in Int /\ ToInt(d) <= d
         /\ d < IntLimit => ToInt(d) = d
<1> DEFINE m == 2 * IntLimit
<1>1. m \in Nat /\ m > IntLimit /\ IntLimit \in Nat
  BY TimerAssumption
<1>2. d % m \in 0..(m - 1) /\ d % m <= d /\ (d < m => d % m = d)
  <2> HIDE DEF m
  <2> QED BY <1>1, SMTT(30)
<1>3. QED BY <1>1, <1>2 DEF ToInt

\* A timeout that is not negative is over by the time the delay is.
LEMMA WaitUntilFacts ==
  ASSUME TimerInv, NEW d \in Nat
  PROVE  /\ WaitUntil(Capped(d)) \in Nat \cup {Never}
         /\ WaitUntil(Capped(d)) # Never => WaitUntil(Capped(d)) <= now + d
         /\ d < IntLimit => WaitUntil(Capped(d)) # Never
<1>1. /\ MaxTimeout \in Nat /\ now \in Nat
      /\ ToInt(d) \in Int /\ ToInt(d) <= d /\ (d < IntLimit => ToInt(d) = d)
  BY TimerAssumption, ToIntFacts DEF TimerInv, TypeOK
<1> HIDE DEF ToInt
<1>2. QED BY <1>1 DEF WaitUntil, Capped, Never

LEMMA WorkerInv ==
  ASSUME TimerInv, NEW th \in Threads, Worker(th)
  PROVE  TimerInv'
<1>1. CASE EnterIdle(th)
  BY <1>1, FrameInv DEF EnterIdle, TimerInv, TypeOK, timerVars, Pcs
<1>2. CASE GetNextTimer(th)
  <2>1. wakeAt' \in [Threads -> Nat \cup {Never}]
    <3>1. now + MaxTimeout \in Nat /\ wakeAt \in [Threads -> Nat \cup {Never}]
      BY TimerAssumption DEF TimerInv, TypeOK
    <3>2. ASSUME NEW k \in timers
          PROVE  WaitUntil(Capped(Delay(k[1]))) \in Nat \cup {Never}
      <4>1. Delay(k[1]) \in Nat
        BY <3>2 DEF TimerInv, TypeOK, Delay
      <4>2. QED BY <4>1, WaitUntilFacts
    <3>3. QED BY <1>2, <3>1, <3>2 DEF GetNextTimer
  <2>2. QED BY <1>2, <2>1, FrameInv
            DEF GetNextTimer, TimerInv, TypeOK, timerVars, Pcs
<1>3. CASE WakeTimeout(th)
  BY <1>3, FrameInv DEF WakeTimeout, Wake, TimerInv, TypeOK, timerVars, Pcs
<1>4. CASE WakeTickle(th)
  BY <1>4, FrameInv DEF WakeTickle, Wake, TimerInv, TypeOK, timerVars, Pcs
<1>5. CASE WakeEvent(th)
  BY <1>5, FrameInv DEF WakeEvent, Wake, TimerInv, TypeOK, timerVars, Pcs
<1>6. CASE ListExpiredCb(th)
  BY <1>6, ListExpiredCbInv
<1>7. CASE Drain(th)
  BY <1>7, FrameInv DEF Drain, TimerInv, TypeOK, timerVars, Pcs
<1>8. QED BY <1>1, <1>2, <1>3, <1>4, <1>5, <1>6, <1>7 DEF Worker

LEMMA StepInv == TimerInv /\ [Next]_vars => TimerInv'
<1> SUFFICES ASSUME TimerInv, [Next]_vars PROVE TimerInv'
  OBVIOUS
<1>1. ASSUME NEW t \in Timers, NEW m \in Periods, Construct(t, m)
      PROVE  TimerInv'
  BY <1>1, ConstructInv
<1>2. ASSUME NEW t \in Timers, AddTimer(t) \/ Refresh(t) \/ Cancel(t)
      PROVE  TimerInv'
  BY <1>2, AddTimerInv, RefreshInv, CancelInv
<1>3. ASSUME NEW t \in Timers, NEW m \in Periods, NEW b \in BOOLEAN,
             Reset(t, m, b)
      PROVE  TimerInv'
  BY <1>3, ResetInv
<1>4. CASE OnTimerInsertedAtFront
  BY <1>4, FrameInv
  DEF OnTimerInsertedAtFront, TimerInv, TypeOK, timerVars, threadVars
<1>5. ASSUME NEW th \in Threads, Worker(th) PROVE TimerInv'
  BY <1>5, WorkerInv
<1>6. CASE ClockMoves
  BY <1>6, FrameInv, TimerAssumption
  DEF ClockMoves, TimerInv, TypeOK, timerVars, threadVars
<1>7. CASE UNCHANGED vars
  BY <1>7, FrameInv DEF vars, TimerInv, TypeOK, timerVars, threadVars
<1>8. QED
  BY <1>1, <1>2, <1>3, <1>4, <1>5, <1>6, <1>7 DEF Next, Client

\* The inductive invariant holds of every behaviour.
THEOREM TimerInvariant == Spec => []TimerInv
  BY InitInv, StepInv, PTL DEF Spec

\* Every variable keeps its type; in particular the unsigned subtraction
\* start = _next - _ms of Timer::reset never wraps.
THEOREM TimerTypeOK == Spec => []TypeOK
  BY TimerInvariant, PTL DEF TimerInv

\* A timer is never moved while it is filed: the set's order stays sound.
THEOREM TimerKeysFresh == Spec => []KeysFresh
  BY TimerInvariant, PTL DEF TimerInv

\* Timer::cancel never erases end(): a timer with a callback is in the set.
THEOREM TimerCancelFinds == Spec => []CancelFindsTimer
  BY TimerInvariant, PTL DEF TimerInv

\* A one-shot timer fires at most once and never after a successful cancel.
THEOREM TimerOneShotOnce == Spec => []OneShotOnce
  BY TimerInvariant, PTL DEF TimerInv

-----------------------------------------------------------------------------
(***************************************************************************)
(* NoOversleep, for a clock that is not set back.  A timer that is filed   *)
(* at the front while _tickled is set owes its wake-up to a tickle that is *)
(* still on its way, or to a worker that has yet to call getNextTimer; a   *)
(* timer filed behind another one, or moved by refresh(), which tickles    *)
(* nobody, is due no earlier than one that a sleeper knows of.             *)
(***************************************************************************)
Awake == \E th \in Threads : pc[th] # "sleep"
WakeUpComing == tickling > 0 \/ pipe = "edge" \/ Awake
InTime(k) == \E th \in Threads : wakeAt[th] <= now \/ wakeAt[th] <= k[1]

\* _tickled suppresses no wake-up that is needed.
TickledIsComing == tickled => WakeUpComing

\* Deadlines were computed from clock values that have been read.
StartsPast ==
  /\ \A t \in Timers : next[t] - ms[t] <= now
  /\ \A th \in Threads : nowMs[th] <= now

AllInTime == WakeUpComing \/ SleepsForEver \/ \A k \in timers : InTime(k)

SleepInv == TickledIsComing /\ StartsPast /\ AllInTime

LEMMA SleepInit == Init => SleepInv
<1>1. \A th \in Threads : pc[th] = "run" /\ nowMs[th] = 0 => Awake
  BY DEF Awake
<1>2. QED
  BY <1>1, TimerAssumption
  DEF Init, SleepInv, TickledIsComing, StartsPast, AllInTime, WakeUpComing, Awake

\* Filing a key that some filed key precedes, or that is no earlier than the
\* one it replaces, leaves everything in time.
LEMMA FiledInTime ==
  ASSUME TimerInv, NEW S \in SUBSET timers, NEW k \in Nat \X Timers,
         AllInTime, TickledIsComing, AddTimerLocked(k, S),
         UNCHANGED <<now, pipe, threadVars>>
  PROVE  AllInTime' /\ TickledIsComing'
<1>1. timers' = S \cup {k} /\ Awake' = Awake /\ \A j : InTime(j)' = InTime(j)
  BY DEF AddTimerLocked, Awake, InTime, threadVars
<1>2. CASE WakeUpComing'
  BY <1>2 DEF AllInTime, TickledIsComing, SleepsForEver
<1>3. CASE ~WakeUpComing'
  <2>1. tickling \in Nat /\ timers \subseteq Nat \X Timers
    BY DEF TimerInv, TypeOK
  <2>2. ~(AtFront(k, S \cup {k}) /\ ~tickled) /\ tickling' = tickling
    BY <1>3, <2>1 DEF AddTimerLocked, WakeUpComing
  <2>3. ~WakeUpComing
    BY <1>1, <1>3, <2>2 DEF WakeUpComing
  <2>4. ~tickled /\ ~tickled'
    BY <2>2, <2>3 DEF TickledIsComing, AddTimerLocked
  <2>5. PICK j \in S \cup {k} : Before(j, k)
    BY <2>2, <2>4 DEF AtFront
  <2>6. j \in timers /\ j[1] <= k[1] /\ j[1] \in Nat
    <3>1. k[1] \in Nat /\ k[2] \in Nat
      BY TimerAssumption
    <3>2. j # k
      BY <2>5, <3>1 DEF Before
    <3>3. j \in timers /\ j[1] \in Nat
      BY <2>1, <3>2
    <3>4. QED BY <2>5, <3>1, <3>3 DEF Before
  <2>7. ASSUME ~SleepsForEver PROVE InTime(k)
    <3>1. PICK th \in Threads : wakeAt[th] <= now \/ wakeAt[th] <= j[1]
      BY <2>3, <2>6, <2>7 DEF AllInTime, InTime
    <3>2. wakeAt[th] \in Int /\ now \in Nat /\ k[1] \in Nat
      BY DEF TimerInv, TypeOK, Never
    <3>3. QED BY <2>6, <3>1, <3>2 DEF InTime
  <2>8. QED
    <3>1. SleepsForEver' = SleepsForEver
      BY DEF SleepsForEver, threadVars
    <3>2. QED BY <1>1, <2>3, <2>4, <2>7, <3>1 DEF AllInTime, TickledIsComing
<1>4. QED BY <1>2, <1>3

\* What clients do to the timers.
LEMMA SleepClient ==
  ASSUME TimerInv, SleepInv, Client
  PROVE  SleepInv'
<1>1. ASSUME NEW t \in Timers, NEW m \in Periods, Construct(t, m) PROVE SleepInv'
  <2>1. UNCHANGED <<now, timers, tickled, tickling, pipe, threadVars>>
    BY <1>1 DEF Construct
  <2>2. AllInTime' /\ TickledIsComing'
    BY <2>1 DEF SleepInv, AllInTime, TickledIsComing, SleepsForEver, WakeUpComing, Awake, InTime, threadVars
  <2>3. StartsPast'
    BY <1>1, <2>1, TimerAssumption
    DEF SleepInv, StartsPast, Construct, TimerInv, TypeOK, threadVars
  <2>4. QED BY <2>2, <2>3 DEF SleepInv
<1>2. ASSUME NEW t \in Timers, AddTimer(t) PROVE SleepInv'
  <2>1. Key(t) \in Nat \X Timers
    BY DEF Key, TimerInv, TypeOK
  <2>2. AllInTime' /\ TickledIsComing'
    BY <1>2, <2>1, FiledInTime DEF SleepInv, AddTimer
  <2>3. StartsPast'
    BY <1>2 DEF SleepInv, StartsPast, AddTimer, threadVars
  <2>4. QED BY <2>2, <2>3 DEF SleepInv
<1>3. ASSUME NEW t \in Timers, Refresh(t) PROVE SleepInv'
  <2>1. UNCHANGED <<now, tickled, tickling, pipe, threadVars>>
    BY <1>3 DEF Refresh
  <2>2. \A k \in timers' : InTime(k) \/ WakeUpComing \/ SleepsForEver
    <3>1. ASSUME ~WakeUpComing, ~SleepsForEver PROVE InTime(<<now + ms[t], t>>)
      <4>1. PICK th \in Threads : wakeAt[th] <= now \/ wakeAt[th] <= next[t]
        BY <1>3, <3>1 DEF SleepInv, AllInTime, InTime, Refresh, Key
      <4>2. next[t] <= now + ms[t]
        BY DEF SleepInv, StartsPast, TimerInv, TypeOK
      <4>3. QED BY <4>1, <4>2 DEF InTime, TimerInv, TypeOK, Never
    <3>2. QED BY <1>3, <3>1 DEF Refresh, SleepInv, AllInTime
  <2>3. AllInTime' /\ TickledIsComing'
    BY <2>1, <2>2 DEF SleepInv, AllInTime, TickledIsComing, SleepsForEver, WakeUpComing, Awake, InTime,
                      threadVars
  <2>4. StartsPast'
    BY <1>3, <2>1 DEF SleepInv, StartsPast, Refresh, TimerInv, TypeOK, threadVars
  <2>5. QED BY <2>3, <2>4 DEF SleepInv
<1>4. ASSUME NEW t \in Timers, Cancel(t) PROVE SleepInv'
  <2>1. timers' \subseteq timers
        /\ UNCHANGED <<now, ms, next, tickled, tickling, pipe, threadVars>>
    BY <1>4 DEF Cancel, threadVars
  <2>2. QED
    BY <2>1 DEF SleepInv, AllInTime, TickledIsComing, SleepsForEver, StartsPast, WakeUpComing, Awake, InTime,
                threadVars
<1>5. ASSUME NEW t \in Timers, NEW m \in Periods, NEW b \in BOOLEAN, Reset(t, m, b)
      PROVE  SleepInv'
  <2> DEFINE start == IF b THEN now ELSE next[t] - ms[t]
  <2>1. start \in Nat /\ m \in Nat /\ start <= now /\ start + m \in Nat
    BY TimerAssumption DEF TimerInv, TypeOK, StartIsNat, SleepInv, StartsPast
  <2>2. /\ ms' = [ms EXCEPT ![t] = m] /\ next' = [next EXCEPT ![t] = start + m]
        /\ AddTimerLocked(<<start + m, t>>, timers \ {Key(t)})
        /\ UNCHANGED <<now, pipe, threadVars>>
    BY <1>5 DEF Reset
  <2> HIDE DEF start
  <2>3. AllInTime' /\ TickledIsComing'
    BY <2>1, <2>2, FiledInTime DEF SleepInv
  <2>4. StartsPast'
    BY <2>1, <2>2 DEF SleepInv, StartsPast, TimerInv, TypeOK, threadVars
  <2>5. QED BY <2>3, <2>4 DEF SleepInv
<1>6. CASE OnTimerInsertedAtFront
  <2>1. UNCHANGED <<now, timers, ms, next, tickled, threadVars>>
    BY <1>6 DEF OnTimerInsertedAtFront, timerVars
  <2>2. WakeUpComing'
    BY <1>6, TimerAssumption DEF OnTimerInsertedAtFront, WakeUpComing, Awake, threadVars
  <2>3. StartsPast'
    BY <2>1 DEF SleepInv, StartsPast, threadVars
  <2>4. QED BY <2>2, <2>3 DEF SleepInv, AllInTime, TickledIsComing
<1>7. QED BY <1>1, <1>2, <1>3, <1>4, <1>5, <1>6 DEF Client

\* A worker that is awake calls getNextTimer before it sleeps, and then knows
\* of the first deadline.
LEMMA SleepWorker ==
  ASSUME TimerInv, SleepInv, NEW th \in Threads, Worker(th)
  PROVE  SleepInv'
<1>1. CASE GetNextTimer(th)
  <2>1. /\ UNCHANGED <<now, timers, ms, next, nowMs>> /\ ~tickled'
        /\ now \in Nat /\ wakeAt \in [Threads -> Nat \cup {Never}]
    BY <1>1 DEF GetNextTimer, timerVars, TimerInv, TypeOK
  <2>2. ASSUME NEW k \in timers, wakeAt'[th] # Never
        PROVE  wakeAt'[th] <= now \/ wakeAt'[th] <= k[1]
    <3>1. PICK j \in timers : /\ AtFront(j, timers)
                              /\ wakeAt' = [wakeAt EXCEPT ![th] = WaitUntil(Capped(Delay(j[1])))]
      BY <1>1, <2>2 DEF GetNextTimer
    <3>2. j[1] \in Nat /\ k[1] \in Nat /\ j[1] <= k[1]
      BY <3>1, <2>2 DEF AtFront, Before, TimerInv, TypeOK
    <3>3. wakeAt'[th] = WaitUntil(Capped(Delay(j[1]))) /\ Delay(j[1]) \in Nat
      BY <2>1, <3>1, <3>2 DEF Delay
    <3>4. /\ wakeAt'[th] \in Nat /\ wakeAt'[th] <= now + Delay(j[1])
      BY <2>2, <3>3, WaitUntilFacts
    <3>5. QED BY <2>1, <3>2, <3>4 DEF Delay
  <2>3. AllInTime' /\ TickledIsComing'
    BY <2>1, <2>2 DEF AllInTime, InTime, TickledIsComing, SleepsForEver
  <2>4. StartsPast'
    BY <2>1 DEF SleepInv, StartsPast
  <2>5. QED BY <2>3, <2>4 DEF SleepInv
<1>2. ASSUME ~GetNextTimer(th) PROVE pc'[th] # "sleep"
  BY <1>2 DEF Worker, EnterIdle, WakeTimeout, WakeTickle, WakeEvent, Wake, ListExpiredCb, Drain,
              TimerInv, TypeOK
<1>3. CASE ~GetNextTimer(th)
  <2>1. AllInTime' /\ TickledIsComing'
    BY <1>2, <1>3 DEF AllInTime, TickledIsComing, SleepsForEver, WakeUpComing, Awake
  <2>2. CASE ~ListExpiredCb(th)
    <3>1. UNCHANGED <<now, ms, next>> /\ nowMs' \in {nowMs, [nowMs EXCEPT ![th] = now]}
      BY <1>3, <2>2 DEF Worker, EnterIdle, WakeTimeout, WakeTickle, WakeEvent, Wake, Drain,
                        timerVars
    <3>2. StartsPast'
      BY <3>1 DEF SleepInv, StartsPast, TimerInv, TypeOK
    <3>3. QED BY <2>1, <3>2 DEF SleepInv
  <2>3. CASE ListExpiredCb(th)
    <3>1. PICK again \in SUBSET Recurring :
            next' = [t \in Timers |-> IF t \in again THEN nowMs[th] + ms[t] ELSE next[t]]
      BY <2>3 DEF ListExpiredCb
    <3>2. UNCHANGED <<now, ms>> /\ nowMs' = [nowMs EXCEPT ![th] = 0]
      BY <2>3 DEF ListExpiredCb
    <3>3. StartsPast'
      BY <3>1, <3>2 DEF SleepInv, StartsPast, TimerInv, TypeOK
    <3>4. QED BY <2>1, <3>3 DEF SleepInv
  <2>4. QED BY <2>2, <2>3
<1>4. QED BY <1>1, <1>3

LEMMA SleepStep ==
  ASSUME ~StepBack, TimerInv, SleepInv, [Next]_vars
  PROVE  SleepInv'
<1>1. CASE ClockMoves
  <2>1. now' >= now /\ now \in Nat /\ now' \in Nat
    BY <1>1, TimerAssumption DEF ClockMoves, TimerInv, TypeOK
  <2>2. UNCHANGED <<ms, next, timers, tickled, tickling, pipe, pc, wakeAt, nowMs>>
    BY <1>1 DEF ClockMoves, timerVars, threadVars
  <2>3. \A k \in timers : InTime(k) => InTime(k)'
    BY <2>1, <2>2 DEF InTime, TimerInv, TypeOK, Never
  <2>4. AllInTime' /\ TickledIsComing'
    BY <2>2, <2>3 DEF SleepInv, AllInTime, TickledIsComing, SleepsForEver, WakeUpComing, Awake
  <2>5. StartsPast'
    BY <2>1, <2>2 DEF SleepInv, StartsPast, TimerInv, TypeOK
  <2>6. QED BY <2>4, <2>5 DEF SleepInv
<1>2. CASE UNCHANGED vars
  BY <1>2 DEF vars, timerVars, threadVars, SleepInv, AllInTime, TickledIsComing, SleepsForEver, StartsPast,
              WakeUpComing, Awake, InTime
<1>3. QED BY <1>1, <1>2, SleepClient, SleepWorker DEF Next

\* When every worker sleeps, none for ever, and no tickle is on its way, some
\* worker wakes no later than the first deadline (Timer.cpp 133-151, 191-203).
THEOREM TimerNoOversleep == ~StepBack => (Spec => []NoOversleep)
<1> SUFFICES ASSUME ~StepBack PROVE Spec => []NoOversleep
  OBVIOUS
<1>1. Init => SleepInv
  BY SleepInit
<1>2. TimerInv /\ SleepInv /\ [Next]_vars => SleepInv'
  BY SleepStep
<1>3. TimerInv /\ SleepInv => NoOversleep
  BY DEF SleepInv, AllInTime, InTime, WakeUpComing, Awake, SleepsForEver, NoOversleep, TimerInv, TypeOK
<1>4. QED BY <1>1, <1>2, <1>3, TimerInvariant, PTL DEF Spec

-----------------------------------------------------------------------------
\* Every period that is in use is one that a client asked for.
MsFit == \A t \in Timers : ms[t] < IntLimit

LEMMA FitStep ==
  ASSUME PeriodsFit, TimerInv, SleepInv, MsFit, ~SleepsForEver, [Next]_vars
  PROVE  MsFit' /\ ~SleepsForEver'
<1>1. MsFit'
  <2>1. CASE UNCHANGED ms
    BY <2>1 DEF MsFit
  <2>2. ASSUME NEW t \in Timers, NEW m \in Periods, ms' = [ms EXCEPT ![t] = m] PROVE MsFit'
    BY <2>2, TimerAssumption DEF MsFit, PeriodsFit, TimerInv, TypeOK
  <2>3. QED
    BY <2>1, <2>2
    DEF Next, Client, Worker, Construct, AddTimer, OnTimerInsertedAtFront, Refresh, Cancel,
        Reset, EnterIdle, GetNextTimer, WakeTimeout, WakeTickle, WakeEvent, Wake,
        ListExpiredCb, Drain, ClockMoves, vars, timerVars
<1>2. ASSUME UNCHANGED wakeAt PROVE ~SleepsForEver'
  BY <1>2 DEF SleepsForEver
<1>3. ASSUME NEW th \in Threads, GetNextTimer(th) PROVE ~SleepsForEver'
  <2>1. /\ now + MaxTimeout \in Nat /\ \A j \in Threads : wakeAt[j] # Never
        /\ wakeAt \in [Threads -> Nat \cup {Never}]
    BY TimerAssumption DEF SleepsForEver, TimerInv, TypeOK
  <2>2. ASSUME NEW k \in timers PROVE WaitUntil(Capped(Delay(k[1]))) # Never
    <3>1. PICK t \in Timers : k[1] = next[t] /\ next[t] \in Nat /\ ms[t] \in Nat
      BY <2>2 DEF TimerInv, TypeOK, KeysFresh, Key
    <3>2. next[t] - ms[t] <= now /\ ms[t] < IntLimit /\ now \in Nat /\ IntLimit \in Nat
      BY TimerAssumption DEF SleepInv, StartsPast, MsFit, TimerInv, TypeOK
    <3>3. Delay(k[1]) \in Nat /\ Delay(k[1]) < IntLimit
      BY <3>1, <3>2 DEF Delay
    <3>4. QED BY <3>3, WaitUntilFacts
  <2>3. \E n \in Nat \cup {Never} : n # Never /\ wakeAt' = [wakeAt EXCEPT ![th] = n]
    <3>1. CASE timers = {} /\ wakeAt' = [wakeAt EXCEPT ![th] = now + MaxTimeout]
      <4>1. now + MaxTimeout \in Nat \cup {Never} /\ now + MaxTimeout # Never
        BY <2>1 DEF Never
      <4>2. QED BY <3>1, <4>1
    <3>2. ASSUME NEW k \in timers,
                 wakeAt' = [wakeAt EXCEPT ![th] = WaitUntil(Capped(Delay(k[1])))]
          PROVE  \E n \in Nat \cup {Never} : n # Never /\ wakeAt' = [wakeAt EXCEPT ![th] = n]
      <4>1. Delay(k[1]) \in Nat
        BY <3>2 DEF Delay, TimerInv, TypeOK
      <4>2. QED BY <2>2, <3>2, <4>1, WaitUntilFacts
    <3>3. QED BY <1>3, <3>1, <3>2 DEF GetNextTimer
  <2>4. QED BY <2>1, <2>3 DEF SleepsForEver
<1>4. ASSUME NEW th \in Threads, Wake(th, TRUE) \/ Wake(th, FALSE) PROVE ~SleepsForEver'
  BY <1>4 DEF Wake, SleepsForEver, TimerInv, TypeOK, Never
<1>5. QED
  BY <1>1, <1>2, <1>3, <1>4
  DEF Next, Client, Worker, Construct, AddTimer, OnTimerInsertedAtFront, Refresh, Cancel,
      Reset, EnterIdle, WakeTimeout, WakeTickle, WakeEvent, ListExpiredCb, Drain,
      ClockMoves, vars, threadVars

\* Nobody sleeps for ever when every delay that is asked for is less than
\* 2^31 ms and the clock is not set back: the conversion of the delay to an
\* int (IoManager.cpp 369, 374) changes nothing then.
THEOREM TimerTimeoutsFit == ~StepBack /\ PeriodsFit => (Spec => []~SleepsForEver)
<1> SUFFICES ASSUME ~StepBack, PeriodsFit PROVE Spec => []~SleepsForEver
  OBVIOUS
<1>1. Init => SleepInv /\ MsFit /\ ~SleepsForEver
  BY SleepInit, TimerAssumption DEF Init, MsFit, SleepsForEver, Never
<1>2. /\ TimerInv /\ SleepInv /\ [Next]_vars => SleepInv'
      /\ TimerInv /\ SleepInv /\ MsFit /\ ~SleepsForEver /\ [Next]_vars
         => MsFit' /\ ~SleepsForEver'
  BY SleepStep, FitStep
<1>3. QED BY <1>1, <1>2, TimerInvariant, PTL DEF Spec

\* A collection after the clock has been set back leaves nothing that is due
\* later than an hour more than its period (Timer.cpp 165-188, 205-214).
THEOREM TimerSetBackDelayBounded == Spec => SetBackDelayBounded
<1>1. ASSUME TimerInv PROVE CollectsBounded
  <2>1. SUFFICES ASSUME NEW th \in Threads, ListExpiredCb(th),
                        \A j \in timers : j[1] <= previousTime + ms[j[2]],
                        NEW k \in timers'
                 PROVE  k[1] <= nowMs[th] + Hour + ms[k[2]]
    BY DEF CollectsBounded
  <2>2. /\ nowMs[th] \in Nat /\ previousTime \in Nat /\ Hour \in Nat
        /\ \A t \in Timers : ms[t] \in Nat
        /\ timers \subseteq Nat \X Timers
    BY <1>1, TimerAssumption DEF TimerInv, TypeOK
  <2>3. CASE k \in timers \ Expired(nowMs[th])
    <3>1. nowMs[th] >= previousTime - Hour
      BY <2>2, <2>3 DEF Expired, Rollover
    <3>2. k[1] <= previousTime + ms[k[2]] /\ k[1] \in Nat /\ ms[k[2]] \in Nat
      BY <2>1, <2>2, <2>3
    <3>3. QED BY <2>2, <3>1, <3>2
  <2>4. CASE k \notin timers \ Expired(nowMs[th])
    <3>1. PICK t \in {j[2] : j \in Expired(nowMs[th])} : k = <<nowMs[th] + ms[t], t>>
      BY <2>1, <2>4 DEF ListExpiredCb
    <3>2. t \in Timers
      BY <2>2, <3>1 DEF Expired
    <3>3. QED BY <2>2, <3>1, <3>2
  <2>5. QED BY <2>3, <2>4
<1>2. QED BY <1>1, TimerInvariant, PTL DEF SetBackDelayBounded
=============================================================================
