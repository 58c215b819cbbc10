---------------------------- MODULE HookIoProofs ----------------------------
(***************************************************************************)
(* Proofs about the hooked calls, for any number of calls, any arrivals    *)
(* and closes, and whether the IOManager has one worker or many.           *)
(*                                                                         *)
(* The three things that may bring a fiber back meet it only through the   *)
(* event table (reg), the task queue (woken) and tinfo (cancelled).        *)
(* HookInv says at which places of a call each of these may be set, that   *)
(* queued callbacks are of timers that did expire, that the callback of a  *)
(* sleep is the only thing that can wake it, and whose event a cancel that *)
(* is under way asks for.                                                  *)
(***************************************************************************)
EXTENDS HookIo, TLAPS

\* Where the fiber is in a call, and which of the tables may name it there.
Places ==
  /\ pc # "idle" => call \in Calls /\ kind[call] \in Ops
  /\ op = "sleep" => pc \in {"addtimer", "yield", "hold"}
  /\ reg => pc \in {"yield", "hold"} /\ op # "sleep"
  /\ timer => pc \in {"addevent", "yield", "hold"}
  /\ \A c \in Calls : kind[c] = "connect" => c = 1
  /\ \A c \in Calls : kind[c] # "none" => c <= call

\* Callbacks are of calls that have been made and whose timer has expired;
\* a call that has not set its timer yet has none.
CallbacksOfExpired ==
  /\ \A c \in Calls : expired[c] > 0 => c \in timedOut
  /\ \A c \in timedOut : c <= call
  /\ pc \in {"try", "addtimer"} /\ op = "sleep" => call \notin timedOut

\* A sleep has one callback at most, and it is not awake while that is queued
\* or still to come.
SleepsOnce ==
  /\ op = "sleep" /\ timer => woken = 0 /\ expired[call] = 0
  /\ \A c \in Calls : kind[c] = "sleep" /\ expired[c] > 0 =>
       /\ c = call /\ pc \in {"yield", "hold"}
       /\ expired[c] = 1 /\ woken = 0 /\ ~timer

\* A cancel under way is of a call that has timed out, and asks for the event
\* of that call.  A single worker has the call on hold meanwhile.
CutsOwn ==
  \A c \in Calls, ev \in {"READ", "WRITE"} : <<c, ev>> \in cutting =>
    /\ c \in timedOut /\ kind[c] \in {"read", "connect"} /\ ev = Event(kind[c])
    /\ oneThread => pc = "hold" /\ c = call

\* What has arrived and what is still to come fit the bound.
DataBounded == data + arrivals <= MaxData

Flow == Places /\ CallbacksOfExpired /\ SleepsOnce /\ CutsOwn /\ DataBounded

HookInv == TypeOK /\ Flow /\ TimeoutIsOwn /\ WokenOnce /\ CancelMeetsOwn

-----------------------------------------------------------------------------
\* What the proofs use of the constants.
LEMMA BoundsAreNat == MaxCalls \in Nat /\ MaxData \in Nat
  BY HookAssumption
LEMMA CountsAreNat == HookInv => woken \in 0..2 /\ data \in Nat /\ arrivals \in Nat
  BY BoundsAreNat DEF HookInv, TypeOK
LEMMA OpsAreCalls == Ops \subseteq {"read", "connect", "sleep"}
  BY HookAssumption

\* Before the first call nothing is registered, set or queued.
LEMMA HookInit == Init => HookInv
<1> SUFFICES ASSUME Init PROVE HookInv
  OBVIOUS
<1>1. TypeOK
  <2>1. /\ call \in 0..MaxCalls /\ data \in 0..MaxData /\ arrivals \in 0..MaxData
        /\ expired \in [Calls -> Nat] /\ kind \in [Calls -> Ops \cup {"none"}]
    BY BoundsAreNat DEF Init
  <2>2. /\ oneThread \in Single /\ limited \in [Calls -> Timeouts]
        /\ cancelled \in BOOLEAN /\ timer \in BOOLEAN /\ reg \in BOOLEAN /\ kern \in BOOLEAN
        /\ crashed \in BOOLEAN /\ userNb \in BOOLEAN /\ kernNb \in BOOLEAN
    BY Zenon DEF Init
  <2>3. woken \in 0..2
    BY DEF Init
  <2>4. QED BY <2>1, <2>2, <2>3 DEF Init, TypeOK
<1>2. Flow /\ TimeoutIsOwn /\ WokenOnce /\ CancelMeetsOwn
  BY BoundsAreNat
  DEF Init, Flow, DataBounded, Places, CallbacksOfExpired, SleepsOnce, CutsOwn, TimeoutIsOwn,
      WokenOnce, CancelMeetsOwn, Calls, op
<1>3. QED BY <1>1, <1>2 DEF HookInv

\* Nothing has crashed while the program runs.
LEMMA RunningSound == ASSUME Running, ~crashed' PROVE CancelMeetsOwn'
  BY DEF CancelMeetsOwn

-----------------------------------------------------------------------------
\* The fiber's own steps.
LEMMA EnterStep ==
  ASSUME HookInv, NEW o \in Ops, Running, Enter(o)
  PROVE  HookInv'
<1>1. /\ call' = call + 1 /\ call' \in Calls /\ call' \in 0..MaxCalls
      /\ kind' = [kind EXCEPT ![call'] = o] /\ pc = "idle"
      /\ o = "sleep" <=> pc' = "addtimer"
      /\ pc' \in {"try", "addtimer"} /\ cancelled' = FALSE
      /\ o = "connect" => call' = 1
      /\ oneThread => cutting = {}
  BY BoundsAreNat DEF HookInv, TypeOK, Enter, Calls, FiberRuns
<1>2. UNCHANGED <<oneThread, limited, result, timer, expired, cutting, timedOut, reg, kern, woken,
                  crashed, data, arrivals, sock, userNb, kernNb>>
  BY DEF Running, Enter, tmVars, evVars, fdVars
<1>3. kind' \in [Calls -> Ops \cup {"none"}] /\ kind'[call'] = o /\ op' = o
      /\ \A c \in Calls : c # call' => kind'[c] = kind[c]
  BY <1>1 DEF HookInv, TypeOK, op
<1>4. TypeOK'
  <2>1. cancelled' \in BOOLEAN /\ pc' \in {"idle", "try", "addtimer", "addevent", "yield", "hold"}
    BY <1>1
  <2>2. QED BY <1>1, <1>2, <1>3, <2>1 DEF HookInv, TypeOK
<1>5. \A c \in Calls : c \in Nat /\ (c <= call => c # call' /\ c <= call') /\ call' <= call'
      /\ call \in Nat
  BY <1>1, BoundsAreNat DEF HookInv, TypeOK, Calls
<1>6. Places'
  BY <1>1, <1>2, <1>3, <1>5 DEF HookInv, Flow, Places
<1>7. call' \notin timedOut /\ timedOut \subseteq Calls
  BY <1>1, <1>5 DEF HookInv, TypeOK, Flow, CallbacksOfExpired
<1>8. CallbacksOfExpired'
  BY <1>1, <1>2, <1>3, <1>5, <1>7 DEF HookInv, TypeOK, Flow, CallbacksOfExpired
<1>9. SleepsOnce'
  BY <1>1, <1>2, <1>3, <1>5, <1>7, BoundsAreNat
  DEF HookInv, TypeOK, Flow, SleepsOnce, Places, CallbacksOfExpired
<1>10. CutsOwn'
  BY <1>1, <1>2, <1>3, <1>7 DEF HookInv, Flow, CutsOwn
<1>11. DataBounded' /\ TimeoutIsOwn' /\ WokenOnce' /\ CancelMeetsOwn'
  BY <1>1, <1>2 DEF HookInv, Flow, DataBounded, TimeoutIsOwn, WokenOnce, Places, Running,
                    CancelMeetsOwn
<1>12. QED BY <1>4, <1>6, <1>8, <1>9, <1>10, <1>11 DEF HookInv, Flow

LEMMA EnterRawStep ==
  ASSUME HookInv, NEW o \in Ops, Running, EnterRaw(o)
  PROVE  HookInv'
<1>1. /\ call' = call + 1 /\ call' \in Calls /\ call' \in 0..MaxCalls
      /\ pc = "idle" /\ pc' = "idle" /\ cancelled' = FALSE /\ kind' = kind
      /\ oneThread => cutting = {}
      /\ result' \in {"ok", "again", "error"}
  BY BoundsAreNat DEF HookInv, TypeOK, EnterRaw, Calls, FiberRuns
<1>2. UNCHANGED <<oneThread, limited, timer, expired, cutting, timedOut, reg, kern, woken,
                  crashed, arrivals, sock, userNb, kernNb>>
  BY DEF Running, EnterRaw, tmVars, evVars, fdVars
<1>3. data' \in 0..MaxData /\ data' <= data
  BY BoundsAreNat DEF HookInv, TypeOK, EnterRaw
<1>4. TypeOK'
  <2>1. cancelled' \in BOOLEAN
    BY <1>1
  <2>2. /\ pc' \in {"idle", "try", "addtimer", "addevent", "yield", "hold"}
        /\ result' \in {"none", "ok", "again", "timeout", "error"}
    BY <1>1
  <2>3. QED BY <1>1, <1>2, <1>3, <2>1, <2>2, Zenon DEF HookInv, TypeOK
<1>5. \A c \in Calls : c \in Nat /\ (c <= call => c <= call') /\ call \in Nat
  BY <1>1, BoundsAreNat DEF HookInv, TypeOK, Calls
<1>6. op = "none" /\ op' = "none"
  BY <1>1 DEF op
<1>7. Places'
  BY <1>1, <1>2, <1>5, <1>6 DEF HookInv, Flow, Places
<1>8. CallbacksOfExpired'
  BY <1>1, <1>2, <1>5, <1>6 DEF HookInv, TypeOK, Flow, CallbacksOfExpired
<1>9. SleepsOnce'
  BY <1>1, <1>2, <1>6 DEF HookInv, Flow, SleepsOnce
<1>10. CutsOwn'
  BY <1>1, <1>2 DEF HookInv, Flow, CutsOwn
<1>11. DataBounded'
  BY <1>2, <1>3, BoundsAreNat, CountsAreNat DEF HookInv, Flow, DataBounded
<1>12. TimeoutIsOwn' /\ WokenOnce' /\ CancelMeetsOwn'
  BY <1>1, <1>2 DEF HookInv, TimeoutIsOwn, WokenOnce, Running, CancelMeetsOwn
<1>13. QED BY <1>4, <1>7, <1>8, <1>9, <1>10, <1>11, <1>12 DEF HookInv, Flow

\* The steps within a call: it keeps its kind, and what its timers have done.
LEMMA CallStep ==
  ASSUME HookInv, Running, Try \/ AddTimer \/ AddEvent \/ YieldToHold \/ Resume
  PROVE  HookInv'
<1>1. /\ UNCHANGED <<oneThread, limited, kind, call, cancelled, expired, cutting, timedOut>>
      /\ UNCHANGED <<crashed, arrivals, sock, userNb, kernNb>>
      /\ pc # "idle"
  BY DEF Running, Try, AddTimer, AddEvent, YieldToHold, Resume, tmVars, evVars, fdVars
<1>2. /\ pc' \in {"idle", "try", "addtimer", "addevent", "yield", "hold"}
      /\ result' \in {"none", "ok", "again", "timeout", "error"}
  BY DEF HookInv, TypeOK, Try, AddTimer, AddEvent, YieldToHold, Resume, Return
<1>3. data' \in 0..MaxData /\ data' <= data
  BY BoundsAreNat DEF HookInv, TypeOK, Try, AddTimer, AddEvent, YieldToHold, Resume, fdVars
<1>4. timer' \in BOOLEAN /\ reg' \in BOOLEAN /\ kern' \in BOOLEAN /\ woken' \in 0..2
  <2>1. timer' \in BOOLEAN /\ reg' \in BOOLEAN /\ kern' \in BOOLEAN
    BY Zenon DEF HookInv, TypeOK, Try, AddTimer, AddEvent, YieldToHold, Resume, tmVars, evVars
  <2>2. woken' \in 0..2
    BY CountsAreNat DEF Try, AddTimer, AddEvent, YieldToHold, Resume, evVars
  <2>3. QED BY <2>1, <2>2
<1>5. TypeOK'
  BY <1>1, <1>2, <1>3, <1>4 DEF HookInv, TypeOK
<1>6. call \in Calls /\ op = kind[call] /\ op \in {"read", "connect", "sleep"}
      /\ (pc' # "idle" => op' = op) /\ (pc' = "idle" => op' = "none")
  BY <1>1, OpsAreCalls DEF HookInv, Flow, Places, op
<1>7. Places' /\ WokenOnce'
  <2>1. CASE Try
    BY <2>1, <1>1, <1>6 DEF HookInv, Flow, Places, WokenOnce, Try, Return, tmVars, evVars
  <2>2. CASE AddTimer
    BY <2>2, <1>1, <1>6 DEF HookInv, Flow, Places, WokenOnce, AddTimer, evVars
  <2>3. CASE AddEvent
    BY <2>3, <1>1, <1>6 DEF HookInv, Flow, Places, WokenOnce, AddEvent, Return
  <2>4. CASE YieldToHold
    BY <2>4, <1>1, <1>6 DEF HookInv, Flow, Places, WokenOnce, YieldToHold, tmVars, evVars
  <2>5. CASE Resume
    BY <2>5, <1>1, <1>6 DEF HookInv, TypeOK, Flow, Places, WokenOnce, Resume, Return
  <2>6. QED BY <2>1, <2>2, <2>3, <2>4, <2>5
<1>8. CallbacksOfExpired'
  BY <1>1, <1>6
  DEF HookInv, Flow, Places, CallbacksOfExpired, Try, AddTimer, AddEvent, YieldToHold, Resume,
      Return
<1>9. SleepsOnce'
  <2>1. CASE Try
    BY <2>1, <1>1, <1>6 DEF HookInv, Flow, Places, SleepsOnce, Try, Return, tmVars, evVars
  <2>2. CASE AddTimer
    <3>1. op = "sleep" => call \notin timedOut /\ woken = 0 /\ expired[call] = 0
      BY <2>2, <1>6 DEF HookInv, TypeOK, Flow, CallbacksOfExpired, WokenOnce, AddTimer
    <3>2. UNCHANGED woken /\ (op = "sleep" => pc' = "yield") /\ pc = "addtimer" /\ pc' # "idle"
      BY <2>2 DEF AddTimer, evVars
    <3>3. QED BY <3>1, <3>2, <1>1, <1>6 DEF HookInv, Flow, SleepsOnce
  <2>3. CASE AddEvent
    BY <2>3, <1>1, <1>6 DEF HookInv, Flow, Places, SleepsOnce, AddEvent, Return
  <2>4. CASE YieldToHold
    BY <2>4, <1>1, <1>6 DEF HookInv, Flow, Places, SleepsOnce, YieldToHold, tmVars, evVars
  <2>5. CASE Resume
    BY <2>5, <1>1, <1>6 DEF HookInv, TypeOK, Flow, SleepsOnce, Resume, Return
  <2>6. QED BY <2>1, <2>2, <2>3, <2>4, <2>5
<1>10. CutsOwn'
  <2>1. oneThread /\ pc = "hold" => cutting = {}
    BY DEF Try, AddTimer, AddEvent, YieldToHold, Resume, FiberRuns
  <2>2. QED BY <2>1, <1>1 DEF HookInv, Flow, CutsOwn
<1>11. DataBounded'
  BY <1>1, <1>3, BoundsAreNat, CountsAreNat DEF HookInv, Flow, DataBounded
<1>12. TimeoutIsOwn' /\ CancelMeetsOwn'
  BY <1>1 DEF HookInv, TimeoutIsOwn, CancelMeetsOwn, Running, Try, AddTimer, AddEvent,
              YieldToHold, Resume, Return
<1>13. QED BY <1>5, <1>7, <1>8, <1>9, <1>10, <1>11, <1>12 DEF HookInv, Flow

-----------------------------------------------------------------------------
\* The fiber leaves the table and is queued: by data, by close() or by the
\* cancel of a timeout.
Awakens ==
  /\ UNCHANGED <<oneThread, limited, kind, call, pc, result, cancelled, timer, expired, timedOut>>
  /\ UNCHANGED <<crashed, data, arrivals, userNb, kernNb>>
  /\ cutting' \subseteq cutting
  /\ sock' \in {"open", "closing", "unknown", "closed"}
  /\ \/ reg /\ reg' = FALSE /\ kern' = FALSE /\ Wake
     \/ UNCHANGED <<reg, woken>> /\ kern' \in {kern, FALSE}

LEMMA AwakensStep ==
  ASSUME HookInv, Running, Awakens
  PROVE  HookInv'
<1>1. op' = op
  BY DEF Awakens, op
<1>2. \/ reg /\ woken = 0 /\ ~reg' /\ woken' = 1
      \/ (reg' <=> reg) /\ woken' = woken
  <2>1. reg => woken = 0
    BY CountsAreNat DEF HookInv, WokenOnce
  <2>2. QED BY <2>1 DEF Awakens, Wake
<1>3. TypeOK'
  <2>1. reg' \in BOOLEAN /\ kern' \in BOOLEAN /\ woken' \in 0..2
    <3>1. reg' \in BOOLEAN /\ kern' \in BOOLEAN
      BY Zenon DEF HookInv, TypeOK, Awakens
    <3>2. woken' \in 0..2
      BY <1>2, CountsAreNat
    <3>3. QED BY <3>1, <3>2
  <2>2. cutting' \subseteq Calls \X {"READ", "WRITE"}
    BY DEF HookInv, TypeOK, Awakens
  <2>3. QED BY <2>1, <2>2 DEF HookInv, TypeOK, Awakens
<1>4. Places'
  BY <1>1, <1>2 DEF HookInv, Flow, Places, Awakens
<1>9. WokenOnce'
  <2>1. reg => pc \in {"yield", "hold"}
    BY DEF HookInv, Flow, Places
  <2>2. UNCHANGED pc /\ woken <= 1 /\ (woken = 1 => pc \in {"yield", "hold"} /\ ~reg)
    BY DEF HookInv, WokenOnce, Awakens
  <2>3. QED BY <1>2, <2>1, <2>2 DEF WokenOnce
<1>5. CallbacksOfExpired' /\ CutsOwn' /\ DataBounded'
  BY <1>1 DEF HookInv, Flow, CallbacksOfExpired, CutsOwn, DataBounded, Awakens
<1>6. SleepsOnce'
  <2>1. reg => pc # "idle" /\ op # "sleep" /\ op = kind[call]
    BY DEF HookInv, Flow, Places, op
  <2>2. QED BY <1>1, <1>2, <2>1 DEF HookInv, Flow, SleepsOnce, Awakens
<1>7. TimeoutIsOwn' /\ CancelMeetsOwn'
  BY DEF HookInv, TimeoutIsOwn, CancelMeetsOwn, Running, Awakens
<1>8. QED BY <1>3, <1>4, <1>5, <1>6, <1>7, <1>9 DEF HookInv, Flow

\* The timer leaves the set.
LEMMA ExpireStep ==
  ASSUME HookInv, Running, Expire
  PROVE  HookInv'
<1>1. /\ call \in Calls /\ call \in Nat /\ expired' = [expired EXCEPT ![call] = @ + 1]
      /\ timedOut' = timedOut \cup {call} /\ timer' = FALSE /\ timer
      /\ pc \in {"addevent", "yield", "hold"}
  BY BoundsAreNat DEF HookInv, TypeOK, Flow, Places, Expire, Calls
<1>2. UNCHANGED <<oneThread, limited, kind, call, pc, result, cancelled, cutting, reg, kern, woken,
                  crashed, data, arrivals, sock, userNb, kernNb>>
  BY DEF Running, Expire, evVars, fdVars
<1>3. op' = op /\ op = kind[call]
  BY <1>1, <1>2 DEF op
<1>4. expired' \in [Calls -> Nat] /\ expired'[call] = expired[call] + 1
      /\ \A c \in Calls : c # call => expired'[c] = expired[c]
  BY <1>1 DEF HookInv, TypeOK
<1>5. TypeOK'
  <2>1. timer' \in BOOLEAN /\ timedOut' \subseteq Calls
    BY <1>1 DEF HookInv, TypeOK
  <2>2. QED BY <1>2, <1>4, <2>1 DEF HookInv, TypeOK
<1>6. Places' /\ DataBounded' /\ WokenOnce' /\ TimeoutIsOwn' /\ CancelMeetsOwn'
  BY <1>1, <1>2, <1>3 DEF HookInv, Flow, Places, DataBounded, WokenOnce, TimeoutIsOwn,
                          CancelMeetsOwn, Running
<1>7. CallbacksOfExpired'
  BY <1>1, <1>2, <1>3, <1>4 DEF HookInv, TypeOK, Flow, CallbacksOfExpired
<1>8. SleepsOnce'
  BY <1>1, <1>2, <1>3, <1>4 DEF HookInv, Flow, Places, SleepsOnce
<1>9. CutsOwn'
  BY <1>1, <1>2 DEF HookInv, Flow, CutsOwn
<1>10. QED BY <1>5, <1>6, <1>7, <1>8, <1>9 DEF HookInv, Flow

\* The callback of an expired timer: it wakes a sleep, marks a call that is
\* still waiting, or does nothing.
LEMMA CallbackStep ==
  ASSUME HookInv, NEW c \in Calls, Running, Callback(c)
  PROVE  HookInv'
<1>1. expired' = [expired EXCEPT ![c] = @ - 1] /\ expired[c] > 0 /\ c \in timedOut
  BY DEF HookInv, Flow, CallbacksOfExpired, Callback
<1>2. UNCHANGED <<oneThread, limited, kind, call, pc, result, timer, timedOut, reg, kern, crashed,
                  data, arrivals, sock, userNb, kernNb>>
  BY DEF Running, Callback, fdVars
<1>3. op' = op
  BY <1>2 DEF op
<1>4. expired' \in [Calls -> Nat] /\ expired'[c] = expired[c] - 1
      /\ \A d \in Calls : d # c => expired'[d] = expired[d]
  BY <1>1 DEF HookInv, TypeOK
<1>5. Places' /\ DataBounded' /\ CancelMeetsOwn'
  BY <1>2, <1>3 DEF HookInv, Flow, Places, DataBounded, CancelMeetsOwn, Running
<1>6. CallbacksOfExpired'
  BY <1>1, <1>2, <1>3, <1>4 DEF HookInv, TypeOK, Flow, CallbacksOfExpired
<1>7. CASE kind[c] = "sleep"
  <2>1. /\ c = call /\ pc \in {"yield", "hold"} /\ op = "sleep"
        /\ expired[c] = 1 /\ woken = 0 /\ ~timer
    BY <1>1, <1>7 DEF HookInv, Flow, SleepsOnce, op
  <2>2. woken' = 1 /\ UNCHANGED <<cancelled, cutting>> /\ expired'[c] = 0
    BY <1>4, <1>7, <2>1 DEF Callback, Wake
  <2>3. TypeOK'
    BY <1>2, <1>4, <2>2 DEF HookInv, TypeOK
  <2>4. WokenOnce' /\ TimeoutIsOwn' /\ CutsOwn'
    BY <1>2, <2>1, <2>2 DEF HookInv, Flow, Places, WokenOnce, TimeoutIsOwn, CutsOwn
  <2>5. SleepsOnce'
    BY <1>2, <1>3, <1>4, <2>1, <2>2 DEF HookInv, Flow, SleepsOnce
  <2>6. QED BY <1>5, <1>6, <2>3, <2>4, <2>5 DEF HookInv, Flow
<1>8. CASE kind[c] # "sleep"
  <2>1. /\ UNCHANGED woken
        /\ \/ (cancelled' <=> cancelled) /\ cutting' = cutting
           \/ /\ c = call /\ pc # "idle" /\ (oneThread => pc = "hold")
              /\ cancelled' = TRUE /\ cutting' = cutting \cup {<<c, Event(kind[c])>>}
    BY <1>8 DEF Callback, StillWaiting, OtherRuns
  <2>2. c = call /\ pc # "idle" => /\ kind[c] \in {"read", "connect"}
                                   /\ Event(kind[c]) \in {"READ", "WRITE"}
    BY <1>8, OpsAreCalls DEF HookInv, Flow, Places, Event
  <2>3. TypeOK'
    <3>1. cutting \subseteq Calls \X {"READ", "WRITE"} /\ cancelled \in BOOLEAN
      BY DEF HookInv, TypeOK
    <3>2. cutting' \subseteq Calls \X {"READ", "WRITE"}
      BY <2>1, <2>2, <3>1
    <3>3. cancelled' \in BOOLEAN
      BY Zenon, <3>1 DEF Callback
    <3>4. QED BY <1>2, <1>4, <2>1, <3>2, <3>3 DEF HookInv, TypeOK
  <2>4. WokenOnce' /\ TimeoutIsOwn'
    BY <1>1, <1>2, <2>1 DEF HookInv, WokenOnce, TimeoutIsOwn
  <2>5. SleepsOnce'
    <3>1. op = "sleep" => call # c /\ call \in Calls
      BY <1>8 DEF HookInv, Flow, Places, op
    <3>2. QED BY <1>2, <1>3, <1>4, <1>8, <2>1, <3>1 DEF HookInv, Flow, SleepsOnce
  <2>6. CutsOwn'
    <3>1. \A d \in Calls, ev \in {"READ", "WRITE"} : <<d, ev>> \in cutting' =>
            \/ <<d, ev>> \in cutting
            \/ /\ d = c /\ c = call /\ pc # "idle" /\ (oneThread => pc = "hold")
               /\ ev = Event(kind[c])
      BY <2>1
    <3>2. UNCHANGED <<oneThread, kind, call, pc, timedOut>>
      BY <1>2
    <3>3. QED BY <1>1, <2>2, <3>1, <3>2 DEF HookInv, Flow, CutsOwn
  <2>7. QED BY <1>5, <1>6, <2>3, <2>4, <2>5, <2>6 DEF HookInv, Flow
<1>9. QED BY <1>7, <1>8

\* The assertion fails: the cancel of a connect has met a read.
LEMMA CrashStep ==
  ASSUME HookInv, NEW c \in Calls, NEW ev \in {"READ", "WRITE"}, <<c, ev>> \in cutting,
         reg, Event(op) # ev
  PROVE  /\ ~oneThread /\ kind[1] = "connect" /\ 1 \in timedOut
         /\ call > 1 /\ op = "read"
<1>1. pc # "idle" /\ op = kind[call] /\ op \in {"read", "connect"} /\ call \in Calls
  BY OpsAreCalls DEF HookInv, Flow, Places, op
<1>2. c \in timedOut /\ kind[c] \in {"read", "connect"} /\ ev = Event(kind[c])
      /\ (oneThread => c = call)
  BY DEF HookInv, Flow, CutsOwn
<1>3. c # call /\ ~oneThread /\ op # kind[c]
  BY <1>1, <1>2
<1>4. c <= call /\ c \in Nat /\ call \in Nat /\ c >= 1
  BY <1>2, BoundsAreNat DEF HookInv, TypeOK, Flow, CallbacksOfExpired, Calls
<1>5. op # "connect"
  <2> SUFFICES ASSUME op = "connect" PROVE FALSE
    OBVIOUS
  <2>1. call = 1
    BY <1>1 DEF HookInv, Flow, Places
  <2>2. QED BY <2>1, <1>3, <1>4
<1>6. kind[c] = "connect" /\ c = 1
  BY <1>1, <1>2, <1>3, <1>5 DEF HookInv, Flow, Places
<1>7. QED BY <1>1, <1>2, <1>3, <1>4, <1>5, <1>6

LEMMA CancelEventStep ==
  ASSUME HookInv, NEW c \in Calls, NEW ev \in {"READ", "WRITE"}, Running, CancelEvent(c, ev)
  PROVE  HookInv'
<1>1. CASE reg /\ kern /\ Event(op) # ev
  <2>1. /\ ~oneThread /\ kind[1] = "connect" /\ 1 \in timedOut /\ call > 1 /\ op = "read"
    BY <1>1, CrashStep DEF CancelEvent
  <2>2. /\ UNCHANGED <<oneThread, limited, kind, call, pc, result, cancelled, timer, expired,
                       timedOut, reg, kern, woken, data, arrivals, sock, userNb, kernNb>>
        /\ crashed' = TRUE /\ cutting' \subseteq cutting
    BY <1>1 DEF Running, CancelEvent, evVars, fdVars
  <2>3. op' = op
    BY <2>2 DEF op
  <2>4. TypeOK'
    <3>1. cutting' \subseteq Calls \X {"READ", "WRITE"}
      BY <2>2 DEF HookInv, TypeOK
    <3>2. QED BY <2>2, <3>1 DEF HookInv, TypeOK
  <2>5. Flow'
    BY <2>2, <2>3 DEF HookInv, Flow, Places, CallbacksOfExpired, SleepsOnce, CutsOwn, DataBounded
  <2>6. TimeoutIsOwn' /\ WokenOnce' /\ CancelMeetsOwn'
    BY <1>1, <2>1, <2>2, <2>3 DEF HookInv, TimeoutIsOwn, WokenOnce, CancelMeetsOwn
  <2>7. QED BY <2>4, <2>5, <2>6 DEF HookInv
<1>2. CASE ~(reg /\ kern /\ Event(op) # ev)
  <2>1. Awakens
    BY <1>2 DEF Running, CancelEvent, Awakens, evVars, fdVars, HookInv, TypeOK
  <2>2. QED BY <2>1, AwakensStep
<1>3. QED BY <1>1, <1>2

\* The socket: data and the flags, which touch none of the tables.
LEMMA DataStep ==
  ASSUME HookInv, Running,
         \/ Arrive \/ Steal
         \/ \E nb \in BOOLEAN : FcntlSetFl(nb)
         \/ \E nb \in Ioctls : IoctlFionbio(nb)
  PROVE  HookInv'
<1>1. UNCHANGED <<oneThread, limited, kind, call, pc, result, cancelled, timer, expired, cutting,
                  timedOut, reg, kern, woken, crashed, sock>>
  BY DEF Running, Arrive, Steal, FcntlSetFl, IoctlFionbio, tmVars, evVars
<1>2. data' \in 0..MaxData /\ arrivals' \in 0..MaxData /\ data' + arrivals' <= MaxData
  BY BoundsAreNat DEF Arrive, Steal, FcntlSetFl, IoctlFionbio, HookInv, TypeOK, Flow, DataBounded
<1>3. userNb' \in BOOLEAN /\ kernNb' \in BOOLEAN
  BY HookAssumption DEF Arrive, Steal, FcntlSetFl, IoctlFionbio, HookInv, TypeOK
<1>4. op' = op
  BY <1>1 DEF op
<1>5. TypeOK'
  BY <1>1, <1>2, <1>3 DEF HookInv, TypeOK
<1>6. QED
  BY <1>1, <1>2, <1>4, <1>5
  DEF HookInv, Flow, Places, CallbacksOfExpired, SleepsOnce, CutsOwn, DataBounded, TimeoutIsOwn,
      WokenOnce, CancelMeetsOwn

\* The three steps of close().
LEMMA CloseStep ==
  ASSUME HookInv, Running, CloseBegin \/ CloseDel \/ CloseEnd
  PROVE  HookInv'
<1>1. Awakens
  BY DEF Running, Awakens, CloseBegin, CloseDel, CloseEnd, tmVars, evVars, fdVars, HookInv, TypeOK
<1>2. QED BY <1>1, AwakensStep

LEMMA WorkerStep ==
  ASSUME HookInv, Running, Workers
  PROVE  HookInv'
<1>1. CASE Trigger
  <2>1. Awakens
    BY <1>1 DEF Running, Awakens, Trigger, tmVars, fdVars, HookInv, TypeOK
  <2>2. QED BY <2>1, AwakensStep
<1>2. QED BY <1>1, ExpireStep, CallbackStep, CancelEventStep DEF Workers

LEMMA HookNext ==
  ASSUME HookInv, [Next]_vars
  PROVE  HookInv'
<1>1. CASE Running /\ (Fiber \/ Workers \/ Socket)
  BY <1>1, EnterStep, EnterRawStep, CallStep, WorkerStep, DataStep, CloseStep DEF Fiber, Socket
<1>2. CASE UNCHANGED vars
  <2>1. UNCHANGED op
    BY <1>2 DEF vars, op
  <2>2. QED
    BY <1>2, <2>1
    DEF vars, HookInv, TypeOK, Flow, DataBounded, Places, CallbacksOfExpired, SleepsOnce, CutsOwn,
        TimeoutIsOwn, WokenOnce, CancelMeetsOwn, tmVars, evVars, fdVars
<1>3. QED BY <1>1, <1>2 DEF Next, AllDone

THEOREM HookInvariant == Spec => []HookInv
<1>1. Init => HookInv
  BY HookInit
<1>2. HookInv /\ [Next]_vars => HookInv'
  BY HookNext
<1>3. QED BY <1>1, <1>2, PTL DEF Spec

\* A callback of an earlier call, or one that comes late, never marks a call as
\* timed out (Hook.cpp 127-137).
THEOREM HookTimeoutIsOwn == Spec => []TimeoutIsOwn
<1>1. HookInv => TimeoutIsOwn
  BY DEF HookInv
<1>2. QED BY <1>1, HookInvariant, PTL

\* Data, timeout and close queue the fiber once, while it is about to yield or
\* on hold, and in no table (Hook.cpp 116-173, IoManager.cpp 200-300).
THEOREM HookWokenOnce == Spec => []WokenOnce
<1>1. HookInv => WokenOnce
  BY DEF HookInv
<1>2. QED BY <1>1, HookInvariant, PTL

\* The assertion of triggerEvent can fail under the cancel of a timeout in one
\* way only: the cancel of a connect that has returned meets a later read
\* (Hook.cpp 300-301, IoManager.cpp 89 and 250).
THEOREM HookCancelMeetsOwn == Spec => []CancelMeetsOwn
<1>1. HookInv => CancelMeetsOwn
  BY DEF HookInv
<1>2. QED BY <1>1, HookInvariant, PTL
=============================================================================
