------------------------------- MODULE HookIo -------------------------------
(***************************************************************************)
(* The hooked blocking calls of src/src/Hook.cpp on one socket, with the   *)
(* FdCtx of src/src/FdManager.cpp: a fiber that reads (do_io), connects    *)
(* (connect_with_timeout) or sleeps is put on hold until its event, its    *)
(* timeout or a close() brings it back.                                    *)
(*                                                                         *)
(* The timeout is a task of its own: the timer expires in the idle loop of *)
(* some worker, its callback runs later on any worker, sets                *)
(* tinfo->cancelled and only then cancels the event.  tinfo belongs to one *)
(* call; callbacks hold it weakly.  The event table (IoManager) appears as *)
(* two bits, what the table says and what the kernel knows.  A fiber may be*)
(* scheduled while it still runs, between addEvent and YieldToHold: workers*)
(* pass over the task of a fiber that is EXEC.                             *)
(***************************************************************************)
EXTENDS Integers

CONSTANTS
  Ops,       (* calls the fiber makes: subset of {"read", "connect", "sleep"} *)
  MaxCalls,  (* bound: calls of the fiber                                   *)
  MaxData,   (* bound: arrivals of data at the socket                       *)
  Steals,    (* TRUE when another process may take the data (a shared
                listening socket)                                           *)
  Timeouts,  (* may a call have a timeout, may it have none: subset of
                BOOLEAN (SO_RCVTIMEO, tcp.connect.timeout)                  *)
  Single,    (* may the IOManager have a single worker, may it have more:
                subset of BOOLEAN                                           *)
  Closes,    (* TRUE when another fiber may close the socket                *)
  Ioctls     (* the arguments of ioctl(FIONBIO): subset of BOOLEAN          *)

ASSUME HookAssumption ==
  /\ Ops \subseteq {"read", "connect", "sleep"}
  /\ MaxCalls \in Nat /\ MaxData \in Nat
  /\ {Steals, Closes} \subseteq BOOLEAN
  /\ Single \subseteq BOOLEAN /\ Single # {}
  /\ Ioctls \subseteq BOOLEAN
  /\ Timeouts \subseteq BOOLEAN /\ Timeouts # {}

Calls == 1..MaxCalls

\* the event a call waits for
Event(o) == CASE o = "read" -> "READ" [] o = "connect" -> "WRITE" [] OTHER -> "NONE"

VARIABLES
  oneThread, (* the IOManager has a single worker: fibers and callbacks
                give way to each other only where they yield               *)
  limited,   (* limited[c]: call c has a timeout                           *)
  kind,      (* kind[c]: what call c is, "none" before it is made          *)
  call,      (* calls made so far; tinfo of the call                       *)
  pc,        (* where the fiber is                                         *)
  result,    (* what the last call returned                                *)
  cancelled, (* tinfo->cancelled of the current call                       *)
  timer,     (* the current timer is in the timer set                      *)
  expired,   (* expired[c]: callbacks of call c that are queued as tasks   *)
  cutting,   (* calls, with their event, whose callback is between setting
                cancelled and cancelEvent                                  *)
  reg,       (* the fiber is in the FdContext                              *)
  kern,      (* the kernel knows of the registration                       *)
  woken,     (* how often the fiber is in the task queue (2 = more)        *)
  crashed,   (* an assertion has failed                                    *)
  data,      (* readiness of the socket                                    *)
  arrivals,  (* data that has still to arrive                              *)
  sock,      (* "open", "closing" after cancelAll, "unknown" after
                FdManager::del, "closed"                                   *)
  userNb,    (* FdCtx::_userNonblock                                       *)
  kernNb,    (* O_NONBLOCK of the descriptor                               *)
  timedOut   (* history: calls one of whose timers has expired             *)

fdVars  == <<data, arrivals, sock, userNb, kernNb>>
tmVars  == <<timer, expired, cutting, timedOut>>
evVars  == <<reg, kern, woken, crashed>>
vars == <<oneThread, limited, kind, call, pc, result, cancelled, tmVars, evVars, fdVars>>

TypeOK ==
  /\ oneThread \in Single /\ limited \in [Calls -> Timeouts]
  /\ kind \in [Calls -> Ops \cup {"none"}]
  /\ call \in 0..MaxCalls
  /\ pc \in {"idle", "try", "addtimer", "addevent", "yield", "hold"}
  /\ result \in {"none", "ok", "again", "timeout", "error"}
  /\ cancelled \in BOOLEAN /\ timer \in BOOLEAN
  /\ expired \in [Calls -> Nat]
  /\ cutting \subseteq Calls \X {"READ", "WRITE"} /\ timedOut \subseteq Calls
  /\ reg \in BOOLEAN /\ kern \in BOOLEAN /\ woken \in 0..2 /\ crashed \in BOOLEAN
  /\ data \in 0..MaxData /\ arrivals \in 0..MaxData
  /\ sock \in {"open", "closing", "unknown", "closed"}
  /\ userNb \in BOOLEAN /\ kernNb \in BOOLEAN

\* socket(): FdCtx::init has set O_NONBLOCK behind the user's back
Init ==
  /\ oneThread \in Single /\ limited \in [Calls -> Timeouts]
  /\ kind = [c \in Calls |-> "none"] /\ call = 0 /\ pc = "idle" /\ result = "none"
  /\ cancelled = FALSE /\ timer = FALSE
  /\ expired = [c \in Calls |-> 0]
  /\ cutting = {} /\ timedOut = {}
  /\ reg = FALSE /\ kern = FALSE /\ woken = 0 /\ crashed = FALSE
  /\ data = 0 /\ arrivals = MaxData
  /\ sock = "open"
  /\ userNb = FALSE /\ kernNb = TRUE

\* the call in progress
op == IF pc = "idle" THEN "none" ELSE kind[call]

\* schedule(fiber)
Wake == woken' = IF woken = 0 THEN 1 ELSE 2

\* With one worker a fiber runs while no callback and no close() is under
\* way, and these run while the fiber is in no call or on hold.
FiberRuns == oneThread => cutting = {} /\ sock \notin {"closing", "unknown"}
OtherRuns == oneThread => pc \in {"idle", "hold"}

(***************************************************************************)
(* The calls                                                               *)
(***************************************************************************)
\* A socket is connected once, before anything else is done with it.
Enter(o) ==
  /\ pc = "idle" /\ call < MaxCalls /\ FiberRuns
  /\ o = "connect" => call = 0
  /\ o # "sleep" => sock \in {"open", "closing"}
  /\ kind' = [kind EXCEPT ![call + 1] = o] /\ call' = call + 1 /\ cancelled' = FALSE
  /\ pc' = IF o = "sleep" THEN "addtimer" ELSE "try"
  /\ UNCHANGED <<result, tmVars, evVars, fdVars>>

\* FdManager has no FdCtx any more: the call goes straight to the kernel,
\* connect is refused.
EnterRaw(o) ==
  /\ pc = "idle" /\ call < MaxCalls /\ FiberRuns
  /\ o = "connect" => call = 0
  /\ o # "sleep" /\ sock \in {"unknown", "closed"}
  /\ call' = call + 1 /\ cancelled' = FALSE
  /\ LET reads == o = "read" /\ sock = "unknown"
     IN  /\ result' = IF ~reads THEN "error" ELSE IF data > 0 THEN "ok" ELSE "again"
         /\ data' = IF reads /\ data > 0 THEN data - 1 ELSE data
  /\ UNCHANGED <<kind, pc, tmVars, evVars, arrivals, sock, userNb, kernNb>>

Return(r) == pc' = "idle" /\ result' = r

\* The system call itself.  It reports EAGAIN (EINPROGRESS) to a caller who
\* asked for a non-blocking socket; any other caller has to wait.  On a
\* blocking descriptor without data it does not come back.
Try ==
  /\ pc = "try"
  /\ \/ /\ sock = "closed"
        /\ Return("error") /\ UNCHANGED data
     \/ /\ sock # "closed" /\ data > 0
        /\ Return("ok")
        /\ data' = IF op = "read" THEN data - 1 ELSE data
     \/ /\ sock # "closed" /\ data = 0 /\ kernNb
        /\ IF userNb THEN Return("again")
           ELSE pc' = "addtimer" /\ UNCHANGED result
        /\ UNCHANGED data
  /\ UNCHANGED <<kind, call, cancelled, tmVars, evVars, arrivals, sock, userNb, kernNb>>

\* addConditionTimer when the call has a timeout, or addTimer with
\* schedule(fiber) as its callback
AddTimer ==
  /\ pc = "addtimer"
  /\ timer' = (op = "sleep" \/ limited[call])
  /\ pc' = IF op = "sleep" THEN "yield" ELSE "addevent"
  /\ UNCHANGED <<kind, call, result, cancelled, expired, cutting, timedOut, evVars,
                 fdVars>>

\* epoll_ctl refuses a closed descriptor.
AddEvent ==
  /\ pc = "addevent"
  /\ IF sock = "closed"
     THEN /\ Return("error") /\ timer' = FALSE
          /\ UNCHANGED <<reg, kern>>
     ELSE /\ reg' = TRUE /\ kern' = TRUE /\ pc' = "yield"
          /\ UNCHANGED <<result, timer>>
  /\ UNCHANGED <<kind, call, cancelled, expired, cutting, timedOut, woken, crashed, fdVars>>

\* YieldToHold: the worker swaps the fiber out.
YieldToHold ==
  /\ pc = "yield"
  /\ pc' = "hold"
  /\ UNCHANGED <<kind, call, result, cancelled, tmVars, evVars, fdVars>>

\* Faulty variant: the call is tried again without looking for a timeout.
ResumeRetriesFirst ==
  /\ pc = "hold" /\ woken > 0 /\ FiberRuns
  /\ woken' = woken - 1 /\ timer' = FALSE
  /\ \/ op = "sleep" /\ Return("ok")
     \/ op # "sleep" /\ pc' = "try" /\ UNCHANGED result
  /\ UNCHANGED <<kind, call, cancelled, expired, cutting, timedOut, reg, kern, crashed,
                 fdVars>>

\* YieldToHold returns: cancel the timer, look for a timeout, try again.
\* connect asks for SO_ERROR instead: no error yet is success.
Resume ==
  /\ pc = "hold" /\ woken > 0 /\ FiberRuns
  /\ woken' = woken - 1 /\ timer' = FALSE
  /\ \/ op = "sleep" /\ Return("ok")
     \/ op # "sleep" /\ cancelled /\ Return("timeout")
     \/ /\ op = "connect" /\ ~cancelled
        /\ Return(IF sock = "closed" THEN "error" ELSE "ok")
     \/ op = "read" /\ ~cancelled /\ pc' = "try" /\ UNCHANGED result
  /\ UNCHANGED <<kind, call, cancelled, expired, cutting, timedOut, reg, kern, crashed,
                 fdVars>>

(***************************************************************************)
(* What brings the fiber back                                              *)
(***************************************************************************)
\* triggerEvent in the idle loop
Trigger ==
  /\ reg /\ kern /\ data > 0 /\ OtherRuns
  /\ reg' = FALSE /\ kern' = FALSE /\ Wake
  /\ UNCHANGED <<kind, call, pc, result, cancelled, crashed, tmVars, fdVars>>

\* The timer leaves the set and its callback is queued as a task.
Expire ==
  /\ timer /\ OtherRuns
  /\ timer' = FALSE
  /\ expired' = [expired EXCEPT ![call] = @ + 1]
  /\ timedOut' = timedOut \cup {call}
  /\ UNCHANGED <<kind, call, pc, result, cancelled, cutting, evVars, fdVars>>

\* Faulty variant: tinfo outlives its call.
StillWaitingAlways(c) == ~cancelled

\* winfo.lock() && !t->cancelled: the call is still in progress
StillWaiting(c) == c = call /\ pc # "idle" /\ ~cancelled

\* sleep(): schedule(fiber); otherwise mark the call, then cancel its event
Callback(c) ==
  /\ expired[c] > 0 /\ OtherRuns
  /\ expired' = [expired EXCEPT ![c] = @ - 1]
  /\ IF kind[c] = "sleep"
     THEN Wake /\ UNCHANGED <<cancelled, cutting>>
     ELSE /\ IF StillWaiting(c)
             THEN cancelled' = TRUE /\ cutting' = cutting \cup {<<c, Event(kind[c])>>}
             ELSE UNCHANGED <<cancelled, cutting>>
          /\ UNCHANGED woken
  /\ UNCHANGED <<kind, call, pc, result, timer, timedOut, reg, kern, crashed,
                 fdVars>>

\* Faulty variant: the fiber is scheduled whether or not it is registered.
CancelEventAlways(c, ev) ==
  /\ <<c, ev>> \in cutting
  /\ cutting' = cutting \ {<<c, ev>>}
  /\ reg' = FALSE /\ kern' = FALSE /\ Wake
  /\ UNCHANGED <<kind, call, pc, result, cancelled, timer, expired, timedOut, crashed,
                 fdVars>>

\* cancelEvent: it fails when table or kernel have no event.  Another event
\* than ev passes its guard, and fails the assertion of triggerEvent.
CancelEvent(c, ev) ==
  /\ <<c, ev>> \in cutting
  /\ cutting' = cutting \ {<<c, ev>>}
  /\ \/ ~(reg /\ kern) /\ UNCHANGED evVars
     \/ /\ reg /\ kern /\ Event(op) = ev
        /\ reg' = FALSE /\ kern' = FALSE /\ Wake /\ UNCHANGED crashed
     \/ /\ reg /\ kern /\ Event(op) # ev
        /\ crashed' = TRUE /\ UNCHANGED <<reg, kern, woken>>
  /\ UNCHANGED <<kind, call, pc, result, cancelled, timer, expired, timedOut, fdVars>>

(***************************************************************************)
(* The socket                                                              *)
(***************************************************************************)
Arrive ==
  /\ arrivals > 0 /\ sock = "open"
  /\ arrivals' = arrivals - 1 /\ data' = data + 1
  /\ UNCHANGED <<kind, call, pc, result, cancelled, tmVars, evVars, sock, userNb,
                 kernNb>>

Steal ==
  /\ Steals /\ data > 0
  /\ data' = data - 1
  /\ UNCHANGED <<kind, call, pc, result, cancelled, tmVars, evVars, arrivals, sock,
                 userNb, kernNb>>

\* close(): cancelAll(fd) ...
CloseBegin ==
  /\ Closes /\ sock = "open" /\ OtherRuns
  /\ sock' = "closing"
  /\ IF reg /\ kern
     THEN reg' = FALSE /\ kern' = FALSE /\ Wake /\ UNCHANGED crashed
     ELSE UNCHANGED evVars
  /\ UNCHANGED <<kind, call, pc, result, cancelled, tmVars, data, arrivals, userNb,
                 kernNb>>

\* ... FdManager::del(fd) ...
CloseDel ==
  /\ sock = "closing"
  /\ sock' = "unknown"
  /\ UNCHANGED <<kind, call, pc, result, cancelled, tmVars, evVars, data, arrivals,
                 userNb, kernNb>>

\* ... then close_f(fd), which takes the descriptor out of the epoll set
CloseEnd ==
  /\ sock = "unknown"
  /\ sock' = "closed" /\ kern' = FALSE
  /\ UNCHANGED <<kind, call, pc, result, cancelled, tmVars, reg, woken, crashed, data,
                 arrivals, userNb, kernNb>>

\* fcntl(F_SETFL) sets O_NONBLOCK whatever the user asks: _sysNonblock is set.
FcntlSetFl(nb) ==
  /\ pc = "idle" /\ sock = "open"
  /\ userNb' = nb /\ kernNb' = TRUE
  /\ UNCHANGED <<kind, call, pc, result, cancelled, tmVars, evVars, data, arrivals,
                 sock>>

\* ioctl(FIONBIO) records the wish and passes it on to the descriptor.
IoctlFionbio(nb) ==
  /\ pc = "idle" /\ sock = "open"
  /\ userNb' = nb /\ kernNb' = nb
  /\ UNCHANGED <<kind, call, pc, result, cancelled, tmVars, evVars, data, arrivals,
                 sock>>

Fiber == (\E o \in Ops : Enter(o) \/ EnterRaw(o)) \/ Try \/ AddTimer \/ AddEvent
         \/ YieldToHold \/ Resume

Workers ==
  \/ Trigger \/ Expire
  \/ \E c \in Calls : Callback(c) \/ \E ev \in {"READ", "WRITE"} : CancelEvent(c, ev)

Socket ==
  \/ Arrive \/ Steal \/ CloseBegin \/ CloseDel \/ CloseEnd
  \/ \E nb \in BOOLEAN : FcntlSetFl(nb)
  \/ \E nb \in Ioctls : IoctlFionbio(nb)

\* Every call has returned.
AllDone == pc = "idle" /\ call = MaxCalls /\ UNCHANGED vars

\* A failed assertion ends the process.
Running == ~crashed /\ UNCHANGED <<oneThread, limited>>

Next ==
  \/ Running /\ (Fiber \/ Workers \/ Socket)
  \/ AllDone

Spec == Init /\ [][Next]_vars

\* Workers run what is queued, timers expire and ready sockets are reported.
\* No data needs to arrive.
FairSpec ==
  /\ Spec
  /\ WF_vars(Running /\ (Try \/ AddTimer \/ AddEvent \/ YieldToHold \/ Resume))
  /\ WF_vars(Running /\ Trigger) /\ WF_vars(Running /\ Expire)
  /\ WF_vars(Running /\ \E c \in Calls : Callback(c))
  /\ WF_vars(Running /\ \E c \in Calls, ev \in {"READ", "WRITE"} : CancelEvent(c, ev))
  /\ WF_vars(Running /\ (CloseDel \/ CloseEnd))

(***************************************************************************)
(* Properties                                                              *)
(***************************************************************************)
\* A call is marked as timed out only by an expired timer of its own: a
\* callback that was queued for an earlier call, or comes after its call has
\* returned, leaves the calls that follow alone (Hook.cpp 127-137).
TimeoutIsOwn ==
  /\ cancelled => call \in timedOut
  /\ result = "timeout" => timedOut # {}

\* The fiber is in the task queue once at most, and only while it is about to
\* yield or on hold, and in no table: none of data, timeout and close
\* schedules it twice or for a call that it is not in (Hook.cpp 131-160).
WokenOnce == woken <= 1 /\ (woken = 1 => pc \in {"yield", "hold"} /\ ~reg)

\* A blocking call with a timeout returns: by its event, by its timeout when
\* no data ever comes, or because the socket is closed (Hook.cpp 116-173,
\* 277-316).  Calls on a descriptor that ioctl(FIONBIO, 0) has made blocking
\* are left out: they block the thread, whatever their timeout (Hook.cpp 512).
CallReturns ==
  \A c \in Calls :
    (call = c /\ pc # "idle" /\ ((limited[c] /\ kernNb) \/ op = "sleep"))
      ~> (pc = "idle" \/ call # c)

\* The same with a single worker, where no callback can come between setting
\* the timeout and registering the event.
CallReturnsAlone == oneThread => CallReturns

\* The cancel of a timeout meets the event of its own call, so that the
\* assertion of triggerEvent holds (IoManager.cpp 89): always with a single
\* worker.  With several it fails in one way only, when the callback of a
\* connect is overtaken between its two statements (Hook.cpp 300-301): the
\* connect has returned, and a read waits on the descriptor.
CancelMeetsOwn ==
  crashed => /\ ~oneThread
             /\ kind[1] = "connect" /\ 1 \in timedOut
             /\ call > 1 /\ op = "read" /\ reg
=============================================================================
