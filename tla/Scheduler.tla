----------------------------- MODULE Scheduler -----------------------------
(***************************************************************************)
(* Schedular (src/src/Scheduler.cpp) as IOManager specialises it: the task *)
(* queue, the run loop of every worker thread, fibers that are swapped in  *)
(* and out (src/src/Fiber.cpp), the idle fiber that sleeps in epoll_wait,  *)
(* tickle(), and the way stop() brings the workers down.                   *)
(*                                                                         *)
(* A callback task runs in a fiber of its own (cb_fiber), so tasks are     *)
(* fibers.  What a fiber does is any bounded sequence of the calls that    *)
(* touch the scheduler.  EXCEPT is treated by run() like TERM and is not   *)
(* told apart from it.  IOManager's events and timers appear as two sets   *)
(* of tasks to come: the event table is the subject of IoManager, the      *)
(* timer set that of Timer.  Each step is one critical section of          *)
(* Schedular::_mutex or one access of a shared counter.                    *)
(***************************************************************************)
EXTENDS Integers, SequencesExt

CONSTANTS
  Fibers,     (* tasks                                                     *)
  Workers,    (* worker threads                                            *)
  Crews,      (* sets of workers a scheduler may be created with           *)
  Caller,     (* with use_caller, the worker that is the creating thread,
                 running only inside stop(); otherwise not in the crew     *)
  Pins,       (* thread ids tasks may be bound to (subset of Workers)      *)
  MaxCalls,   (* bound: calls of one fiber that touch the scheduler        *)
  Readies     (* TRUE when fibers call YieldToReady                        *)

Anywhere    == "anywhere"     \* thread id -1
Nobody == "nobody"

ASSUME SchedulerAssumption ==
  /\ IsFiniteSet(Workers)
  /\ Pins \subseteq Workers /\ Crews \subseteq SUBSET Workers
  /\ MaxCalls \in Nat
  /\ Readies \in BOOLEAN
  /\ Anywhere \notin Workers /\ Nobody \notin Fibers /\ "pipe" \notin Fibers

VARIABLES
  status,    (* Fiber::_fstatus                                            *)
  calls,     (* calls a fiber has still to make                            *)
  used,      (* fibers that have been handed to the scheduler              *)
  queue,     (* _fibers                                                    *)
  active,    (* _active_thread_cnt                                         *)
  idle,      (* _idle_thread_cnt                                           *)
  pending,   (* _pendingEventCount                                         *)
  events,    (* fibers waiting for a registered event                      *)
  timers,    (* callbacks in the timer set                                 *)
  pipe,      (* the tickle pipe: "empty", unreported "edge", "seen"        *)
  stopFlag,  (* _autostop && _stopping                                     *)
  client,    (* where the thread that owns the scheduler is                *)
  pc,        (* where a worker is; "none" if it is not in the crew         *)
  after,     (* where it goes on after tickle()                            *)
  cur,       (* ft, the task it has taken                                  *)
  got,       (* what epoll_wait reported to it                             *)
  cbs,       (* callbacks it has collected and not yet scheduled           *)
  idleDone   (* its idle fiber has terminated                              *)

fiberVars  == <<status, calls, used>>
sourceVars == <<pending, events, timers>>
workerVars == <<after, cur, got, cbs, idleDone>>
vars == <<fiberVars, queue, active, idle, sourceVars, pipe, stopFlag, client,
          pc, workerVars>>

Pcs == {"off", "scan", "start", "exec", "swap", "back", "settle", "notask",
        "tickle", "stop1", "stop2", "stop3", "wait", "collect", "cbs",
        "handle", "dec", "leave", "exit", "none"}

Entries == [fiber : Fibers, thread : Workers \cup {Anywhere}]

TypeOK ==
  /\ status \in [Fibers -> {"INIT", "HOLD", "EXEC", "READY", "TERM"}]
  /\ calls \in [Fibers -> 0..MaxCalls]
  /\ used \subseteq Fibers
  /\ queue \in Seq(Entries)
  /\ active \in Nat /\ idle \in Nat /\ pending \in Nat
  /\ events \subseteq Fibers /\ timers \subseteq Fibers
  /\ pipe \in {"empty", "edge", "seen"}
  /\ stopFlag \in BOOLEAN
  /\ client \in {"open", "tickle", "stop", "root", "join", "done"}
  /\ pc \in [Workers -> Pcs] /\ after \in [Workers -> Pcs]
  /\ cur \in [Workers -> Fibers \cup {Nobody}]
  /\ got \in [Workers -> Fibers \cup {Nobody, "pipe"}]
  /\ cbs \in [Workers -> SUBSET Fibers]
  /\ idleDone \in [Workers -> BOOLEAN]

Init ==
  /\ status = [f \in Fibers |-> "INIT"]
  /\ calls = [f \in Fibers |-> MaxCalls]
  /\ used = {}
  /\ queue = <<>>
  /\ active = 0 /\ idle = 0 /\ pending = 0
  /\ events = {} /\ timers = {}
  /\ pipe = "empty"
  /\ stopFlag = FALSE
  /\ client = "open"
  /\ \E crew \in Crews :
       pc = [w \in Workers |-> IF w \notin crew THEN "none"
                               ELSE IF w = Caller THEN "off" ELSE "scan"]
  /\ after = [w \in Workers |-> "scan"]
  /\ cur = [w \in Workers |-> Nobody]
  /\ got = [w \in Workers |-> Nobody]
  /\ cbs = [w \in Workers |-> {}]
  /\ idleDone = [w \in Workers |-> FALSE]

(***************************************************************************)
(* Building blocks                                                         *)
(***************************************************************************)
Crew == {w \in Workers : pc[w] # "none"}

Goto(w, p) == pc' = [pc EXCEPT ![w] = p] /\ UNCHANGED after

GotoViaTickle(w, p) ==
  pc' = [pc EXCEPT ![w] = "tickle"] /\ after' = [after EXCEPT ![w] = p]

\* schedule() by worker w, which goes on at p: tickle() only if the queue was
\* empty, and only after the lock has been given up.
Schedule(w, entries, p) ==
  /\ queue' = queue \o entries
  /\ IF queue = <<>> THEN GotoViaTickle(w, p) ELSE Goto(w, p)

Entry(f, t) == [fiber |-> f, thread |-> t]

\* IOManager::tickle()
WritePipe == pipe' = IF idle > 0 THEN "edge" ELSE pipe

Tickle(w) ==
  /\ pc[w] = "tickle"
  /\ WritePipe
  /\ Goto(w, after[w])
  /\ UNCHANGED <<fiberVars, queue, active, idle, sourceVars, stopFlag, client,
                 workerVars>>

(***************************************************************************)
(* Schedular::run                                                          *)
(***************************************************************************)
\* Faulty variant: a fiber that has not been swapped out yet is taken.
MayTakeRunning(w, e) == e.thread \in {Anywhere, w}

\* Faulty variant: the test for thread id -1 is left out.
MayTakeBoundOnly(w, e) == e.thread = w /\ status[e.fiber] # "EXEC"

MayTake(w, e) == e.thread \in {Anywhere, w} /\ status[e.fiber] # "EXEC"

\* The first entry this worker may take; on its way it notes entries that are
\* bound to another thread, and tickles for them.
Scan(w) ==
  LET taken  == {i \in DOMAIN queue : MayTake(w, queue[i])}
      passed == {j \in DOMAIN queue : \A i \in taken : j < i}
      pinned == \E j \in passed : queue[j].thread \notin {Anywhere, w}
      go(p)  == IF pinned THEN GotoViaTickle(w, p) ELSE Goto(w, p)
  IN  /\ pc[w] = "scan"
      /\ \/ \E i \in taken :
              /\ \A k \in taken : i <= k
              /\ queue' = RemoveAt(queue, i)
              /\ active' = active + 1
              /\ cur' = [cur EXCEPT ![w] = queue[i].fiber]
              /\ go("start")
         \/ /\ taken = {}
            /\ go("notask")
            /\ UNCHANGED <<queue, active, cur>>
      /\ UNCHANGED <<fiberVars, idle, sourceVars, pipe, stopFlag, client, got,
                     cbs, idleDone>>

\* swapIn(); a task that is over already is dropped
Start(w) ==
  /\ pc[w] = "start"
  /\ IF status[cur[w]] = "TERM"
     THEN /\ active' = active - 1
          /\ cur' = [cur EXCEPT ![w] = Nobody]
          /\ Goto(w, "scan")
          /\ UNCHANGED status
     ELSE /\ status' = [status EXCEPT ![cur[w]] = "EXEC"]
          /\ Goto(w, "exec")
          /\ UNCHANGED <<active, cur>>
  /\ UNCHANGED <<calls, used, queue, idle, sourceVars, pipe, stopFlag, client,
                 got, cbs, idleDone>>

\* swapOut() is over: the fiber's stack is free, run() goes on
SwapOut(w) ==
  /\ pc[w] = "swap"
  /\ Goto(w, "back")
  /\ UNCHANGED <<fiberVars, queue, active, idle, sourceVars, pipe, stopFlag,
                 client, workerVars>>

Back(w) ==
  /\ pc[w] = "back"
  /\ active' = active - 1
  /\ Goto(w, "settle")
  /\ UNCHANGED <<fiberVars, queue, idle, sourceVars, pipe, stopFlag, client,
                 workerVars>>

\* Faulty variant: a fiber that yielded to READY is not queued again.
SettleForgetsReady(w) ==
  /\ pc[w] = "settle"
  /\ cur' = [cur EXCEPT ![w] = Nobody]
  /\ status' = [status EXCEPT ![cur[w]] = IF @ = "TERM" THEN @ ELSE "HOLD"]
  /\ Goto(w, "scan") /\ UNCHANGED queue
  /\ UNCHANGED <<calls, used, active, idle, sourceVars, pipe, stopFlag, client,
                 got, cbs, idleDone>>

\* READY: queue it again, unbound.  Neither READY nor over: it is on HOLD.
Settle(w) ==
  /\ pc[w] = "settle"
  /\ cur' = [cur EXCEPT ![w] = Nobody]
  /\ IF status[cur[w]] = "READY"
     THEN Schedule(w, <<Entry(cur[w], Anywhere)>>, "scan") /\ UNCHANGED status
     ELSE /\ status' = [status EXCEPT ![cur[w]] = IF @ = "TERM" THEN @ ELSE "HOLD"]
          /\ Goto(w, "scan") /\ UNCHANGED queue
  /\ UNCHANGED <<calls, used, active, idle, sourceVars, pipe, stopFlag, client,
                 got, cbs, idleDone>>

NoTask(w) ==
  /\ pc[w] = "notask"
  /\ IF idleDone[w]
     THEN Goto(w, "exit") /\ UNCHANGED idle
     ELSE Goto(w, "stop1") /\ idle' = idle + 1
  /\ UNCHANGED <<fiberVars, queue, active, sourceVars, pipe, stopFlag, client,
                 cur, got, cbs, idleDone>>

(***************************************************************************)
(* What a running fiber does                                               *)
(***************************************************************************)
Call(w) ==
  /\ pc[w] = "exec" /\ calls[cur[w]] > 0
  /\ calls' = [calls EXCEPT ![cur[w]] = @ - 1]

\* addEvent for itself, then YieldToHold: the fiber can be triggered, and
\* queued, before it has been swapped out; its status stays EXEC till then.
WaitEvent(w) ==
  /\ Call(w)
  /\ pending' = pending + 1
  /\ events' = events \cup {cur[w]}
  /\ Goto(w, "swap")
  /\ UNCHANGED <<status, used, queue, active, idle, timers, pipe, stopFlag,
                 client, cur, got, cbs, idleDone>>

YieldToReady(w) ==
  /\ Readies /\ Call(w)
  /\ status' = [status EXCEPT ![cur[w]] = "READY"]
  /\ Goto(w, "swap")
  /\ UNCHANGED <<used, queue, active, idle, sourceVars, pipe, stopFlag, client,
                 cur, got, cbs, idleDone>>

\* schedule(Fiber::GetThis(), thread), YieldToHold()
SwitchTo(w, t) ==
  /\ Call(w) /\ t # w
  /\ Schedule(w, <<Entry(cur[w], t)>>, "swap")
  /\ UNCHANGED <<status, used, active, idle, sourceVars, pipe, stopFlag, client,
                 cur, got, cbs, idleDone>>

Spawn(w, g, t) ==
  /\ Call(w) /\ g \notin used
  /\ used' = used \cup {g}
  /\ Schedule(w, <<Entry(g, t)>>, "exec")
  /\ UNCHANGED <<status, active, idle, sourceVars, pipe, stopFlag, client,
                 cur, got, cbs, idleDone>>

\* addTimer with callback g; it tickles if the timer is the nearest
AddTimer(w, g) ==
  /\ Call(w) /\ g \notin used
  /\ used' = used \cup {g}
  /\ timers' = timers \cup {g}
  /\ GotoViaTickle(w, "exec") \/ (timers # {} /\ Goto(w, "exec"))
  /\ UNCHANGED <<status, queue, active, idle, pending, events, pipe, stopFlag,
                 client, cur, got, cbs, idleDone>>

\* The function returns, MainFunc sets TERM and swaps out.
Finish(w) ==
  /\ pc[w] = "exec"
  /\ status' = [status EXCEPT ![cur[w]] = "TERM"]
  /\ Goto(w, "swap")
  /\ UNCHANGED <<calls, used, queue, active, idle, sourceVars, pipe, stopFlag,
                 client, cur, got, cbs, idleDone>>

(***************************************************************************)
(* IOManager::idle                                                         *)
(***************************************************************************)
\* stopping() reads the timer set, the event count and the queue one after
\* the other.
Stopping1(w) ==
  /\ pc[w] = "stop1"
  /\ Goto(w, IF timers = {} THEN "stop2" ELSE "wait")
  /\ UNCHANGED <<fiberVars, queue, active, idle, sourceVars, pipe, stopFlag,
                 client, cur, got, cbs, idleDone>>

\* Faulty variant: fibers that wait for events do not keep the workers.
Stopping2IgnoresEvents(w) ==
  /\ pc[w] = "stop2"
  /\ Goto(w, "stop3")
  /\ UNCHANGED <<fiberVars, queue, active, idle, sourceVars, pipe, stopFlag,
                 client, cur, got, cbs, idleDone>>

Stopping2(w) ==
  /\ pc[w] = "stop2"
  /\ Goto(w, IF pending = 0 THEN "stop3" ELSE "wait")
  /\ UNCHANGED <<fiberVars, queue, active, idle, sourceVars, pipe, stopFlag,
                 client, cur, got, cbs, idleDone>>

SchedularStopping == stopFlag /\ queue = <<>> /\ active = 0

Stopping3(w) ==
  /\ pc[w] = "stop3"
  /\ idleDone' = [idleDone EXCEPT ![w] = SchedularStopping]
  /\ Goto(w, IF SchedularStopping THEN "leave" ELSE "wait")
  /\ UNCHANGED <<fiberVars, queue, active, idle, sourceVars, pipe, stopFlag,
                 client, cur, got, cbs>>

Wake(w, what) ==
  /\ pc[w] = "wait"
  /\ got' = [got EXCEPT ![w] = what]
  /\ Goto(w, "collect")
  /\ UNCHANGED <<fiberVars, queue, active, idle, sourceVars, stopFlag, client,
                 cur, cbs, idleDone>>

\* MAX_TIMEOUT or the nearest timer is over
WakeTimeout(w) == Wake(w, Nobody) /\ UNCHANGED pipe

WakeTickle(w) == pipe = "edge" /\ Wake(w, "pipe") /\ pipe' = "seen"

WakeEvent(w, f) == f \in events /\ Wake(w, f) /\ UNCHANGED pipe

\* listExpiredCb: some of the timers have expired
Collect(w) ==
  /\ pc[w] = "collect"
  /\ \E E \in SUBSET timers :
       /\ timers' = timers \ E
       /\ cbs' = [cbs EXCEPT ![w] = E]
       /\ Goto(w, IF E = {} THEN "handle" ELSE "cbs")
  /\ UNCHANGED <<fiberVars, queue, active, idle, pending, events, pipe,
                 stopFlag, client, cur, got, idleDone>>

ScheduleCbs(w) ==
  /\ pc[w] = "cbs"
  /\ \E s \in SetToSeqs(cbs[w]) :
       Schedule(w, [i \in DOMAIN s |-> Entry(s[i], Anywhere)], "handle")
  /\ cbs' = [cbs EXCEPT ![w] = {}]
  /\ UNCHANGED <<fiberVars, active, idle, sourceVars, pipe, stopFlag, client,
                 cur, got, idleDone>>

Unregister(f) == events \ {f}

\* Drain the pipe, or trigger the event if it is still registered.
Handle(w) ==
  /\ pc[w] = "handle"
  /\ got' = [got EXCEPT ![w] = Nobody]
  /\ \/ /\ got[w] \in events
        /\ events' = Unregister(got[w])
        /\ Schedule(w, <<Entry(got[w], Anywhere)>>, "dec")
        /\ UNCHANGED pipe
     \/ /\ got[w] \notin events
        /\ pipe' = IF got[w] = "pipe" THEN "empty" ELSE pipe
        /\ Goto(w, "leave")
        /\ UNCHANGED <<queue, events>>
  /\ UNCHANGED <<fiberVars, active, idle, pending, timers, stopFlag, client,
                 cur, cbs, idleDone>>

\* Faulty variant: a triggered event is not counted down.
DecForgotten(w) ==
  /\ pc[w] = "dec"
  /\ Goto(w, "leave")
  /\ UNCHANGED <<fiberVars, queue, active, idle, sourceVars, pipe,
                 stopFlag, client, cur, got, cbs, idleDone>>

\* --_pendingEventCount
Dec(w) ==
  /\ pc[w] = "dec"
  /\ pending' = pending - 1
  /\ Goto(w, "leave")
  /\ UNCHANGED <<fiberVars, queue, active, idle, events, timers, pipe,
                 stopFlag, client, cur, got, cbs, idleDone>>

\* The idle fiber swaps out or is over.
Leave(w) ==
  /\ pc[w] = "leave"
  /\ idle' = idle - 1
  /\ Goto(w, "scan")
  /\ UNCHANGED <<fiberVars, queue, active, sourceVars, pipe, stopFlag, client,
                 cur, got, cbs, idleDone>>

(***************************************************************************)
(* The owner of the scheduler                                              *)
(***************************************************************************)
ClientSchedule(f, t) ==
  /\ client = "open" /\ f \notin used
  /\ used' = used \cup {f}
  /\ queue' = Append(queue, Entry(f, t))
  /\ client' = IF queue = <<>> THEN "tickle" ELSE "open"
  /\ UNCHANGED <<status, calls, active, idle, sourceVars, pipe, stopFlag, pc,
                 workerVars>>

ClientTickle ==
  /\ client = "tickle"
  /\ client' = "open"
  /\ WritePipe
  /\ UNCHANGED <<fiberVars, queue, active, idle, sourceVars, stopFlag, pc,
                 workerVars>>

\* stop(): the flags, then one tickle per thread
Stop ==
  /\ client = "open"
  /\ stopFlag' = TRUE
  /\ client' = "stop"
  /\ UNCHANGED <<fiberVars, queue, active, idle, sourceVars, pipe, pc,
                 workerVars>>

StopTickle ==
  /\ client = "stop"
  /\ WritePipe
  /\ client' = IF Caller \in Crew THEN "root" ELSE "join"
  /\ UNCHANGED <<fiberVars, queue, active, idle, sourceVars, stopFlag, pc,
                 workerVars>>

\* With use_caller the thread becomes a worker unless all is done already.
StopRoot ==
  /\ client = "root"
  /\ client' = "join"
  /\ pc' = IF timers = {} /\ pending = 0 /\ SchedularStopping
           THEN pc ELSE [pc EXCEPT ![Caller] = "scan"]
  /\ UNCHANGED <<fiberVars, queue, active, idle, sourceVars, pipe, stopFlag,
                 workerVars>>

Gone == \A w \in Crew : pc[w] \in {"exit", "off"}

Join ==
  /\ client = "join" /\ Gone
  /\ client' = "done"
  /\ UNCHANGED <<fiberVars, queue, active, idle, sourceVars, pipe, stopFlag, pc,
                 workerVars>>

Targets == (Pins \cap Crew) \cup {Anywhere}

Client ==
  \/ \E f \in Fibers, t \in Targets : ClientSchedule(f, t)
  \/ ClientTickle \/ Stop \/ StopTickle \/ StopRoot \/ Join

FiberStep(w) ==
  \/ WaitEvent(w) \/ YieldToReady(w) \/ Finish(w)
  \/ \E t \in Targets : SwitchTo(w, t)
  \/ \E g \in Fibers : AddTimer(w, g) \/ \E t \in Targets : Spawn(w, g, t)

RunStep(w) ==
  \/ Tickle(w) \/ Scan(w) \/ Start(w) \/ SwapOut(w) \/ Back(w) \/ Settle(w)
  \/ NoTask(w) \/ FiberStep(w)
  \/ Stopping1(w) \/ Stopping2(w) \/ Stopping3(w) \/ WakeTimeout(w)
  \/ Collect(w) \/ ScheduleCbs(w) \/ Handle(w) \/ Dec(w) \/ Leave(w)

WorkerStep(w) == RunStep(w) \/ WakeTickle(w) \/ \E f \in Fibers : WakeEvent(w, f)

\* stop() has returned; nothing more happens.
Stopped == client = "done" /\ UNCHANGED vars

Next == Client \/ (\E w \in Workers : WorkerStep(w)) \/ Stopped

Spec == Init /\ [][Next]_vars

\* Every thread keeps running and epoll_wait returns after MAX_TIMEOUT at the
\* latest; a timer expires and a registered event comes at some time.
FairSpec ==
  /\ Spec
  /\ WF_vars(ClientTickle \/ StopTickle \/ StopRoot \/ Join)
  /\ \A w \in Workers : WF_vars(RunStep(w))
  /\ \A f \in Fibers :
       /\ SF_vars(\E w \in Workers : Collect(w) /\ f \in timers \ timers')
       /\ SF_vars(\E w \in Workers : WakeEvent(w, f))

(***************************************************************************)
(* Properties                                                              *)
(***************************************************************************)
\* Where a worker is, or goes on once it has written the pipe.
At(w) == IF pc[w] = "tickle" THEN after[w] ELSE pc[w]

\* The fiber whose stack a worker is on.
OnStack(w) == IF At(w) \in {"exec", "swap"} THEN {cur[w]} ELSE {}

\* No two workers are on the same stack.  A fiber that waits for an event or
\* switches thread is queued while it still runs; the workers pass over it
\* because its status is EXEC until it has been swapped out
\* (Scheduler.cpp 178, Fiber.cpp 155, IoManager.cpp 188).
OneStack ==
  \A v, w \in Workers : v # w => OnStack(v) \cap OnStack(w) = {}

Queued(f) == {i \in DOMAIN queue : queue[i].fiber = f}

\* What will bring fiber f back: an entry of the queue, a registered event, a
\* timer, or a callback some worker has collected.
WakeUps(f) ==
  Cardinality(Queued(f)) + Cardinality({w \in Workers : f \in cbs[w]})
  + (IF f \in events THEN 1 ELSE 0) + (IF f \in timers THEN 1 ELSE 0)

\* A task is never lost and never doubled: until it is over, a task that no
\* worker has in hand has exactly one thing that will bring it back, and no
\* task ever has two.
ExactlyOneWakeUp ==
  \A f \in used :
    /\ WakeUps(f) <= 1
    /\ status[f] # "TERM" /\ (\A w \in Workers : cur[w] # f) => WakeUps(f) = 1

\* A worker is at p with f in hand.
InHandAt(f, p) == \E w \in Workers : cur[w] = f /\ At(w) = p

Waits(f) == f \in events \/ f \in timers \/ \E w \in Workers : f \in cbs[w]

\* What has become of a task; one that nothing will bring back is lost.
Life(f) ==
  IF f \notin used THEN "new"
  ELSE IF status[f] = "TERM" THEN "over"
  ELSE IF Waits(f) THEN "waiting"
  ELSE IF InHandAt(f, "start") THEN "taken"
  ELSE IF InHandAt(f, "exec") THEN "running"
  ELSE IF Queued(f) # {} \/ status[f] = "READY" THEN "ready" ELSE "lost"

Lives   == [f \in Fibers |-> Life(f)]
Binding == [f \in Fibers |-> {queue[i].thread : i \in Queued(f)} \ {Anywhere}]
Stacks  == [w \in Workers |-> IF At(w) \in {"start", "exec", "swap"} THEN cur[w] ELSE Nobody]

TL == INSTANCE TaskLife WITH life <- Lives, bound <- Binding, stack <- Stacks

\* Every step of the scheduler is a step of a task's life, or none: no task is
\* lost, doubled or brought back once it is over, none is taken by a worker it
\* is not bound to (Scheduler.cpp 168-188), and none that is queued while it
\* still runs is taken before it has been swapped out.
ImplementsTaskLife == TL!Spec

\* When stop() has returned no fiber is left unfinished: ~IOManager deletes
\* the event contexts with the fibers in them, and ~Fiber asserts that a
\* fiber is TERM, EXCEPT or INIT (Fiber.cpp 91).  Each worker decides alone,
\* on values that stopping() reads one after the other.
StopLeavesNothing ==
  client = "done" => \A f \in used : status[f] \in {"TERM", "INIT"}

\* The same with a single worker, whose values cannot be changed by another
\* one while it reads them.
StopLeavesNothingAlone == Cardinality(Crew) = 1 => StopLeavesNothing

\* stop() returns.
StopReturns == (client = "stop") ~> (client = "done")

\* A task in the queue is taken, although the tickle that should wake a
\* worker for it may be left out (a worker that has seen the empty queue but
\* is not counted as idle yet).
QueuedIsTaken ==
  \A f \in Fibers : (Queued(f) # {}) ~> (Queued(f) = {})
=============================================================================
