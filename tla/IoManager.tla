----------------------------- MODULE IoManager -----------------------------
(***************************************************************************)
(* The event table of IOManager (src/src/IoManager.cpp): which fibers or   *)
(* callbacks wait for which descriptor, what the epoll instance has been   *)
(* told, and how the idle loops of several workers turn edge-triggered     *)
(* reports into wake-ups.                                                  *)
(*                                                                         *)
(* A waiter is a pair <<fd, ev>>: the program has at most one fiber        *)
(* reading and one writing a descriptor (addEvent asserts it).  Every      *)
(* action is one critical section of FdContext::mutex; epoll_wait and the  *)
(* handling of its report are two steps, so a report can be stale when it  *)
(* is handled.  A failed ROUTN_ASSERT aborts the process and is recorded   *)
(* in failed.                                                              *)
(***************************************************************************)
EXTENDS Integers, FiniteSets

CONSTANTS
  Fds,      (* descriptors                                                 *)
  Uses,     (* Uses[fd]: the directions fibers wait for on fd              *)
  Workers,  (* threads running IOManager::idle                             *)
  Cancels   (* TRUE when other code calls cancelEvent, cancelAll, delEvent *)

Kinds == {"READ", "WRITE"}

ASSUME IoAssumption ==
  /\ IsFiniteSet(Fds)
  /\ Uses \in [Fds -> SUBSET Kinds]
  /\ Cancels \in BOOLEAN

VARIABLES
  events,   (* FdContext::events                                           *)
  ctx,      (* the EventContexts that are set (scheduler, fiber, callback) *)
  pending,  (* _pendingEventCount                                          *)
  kern,     (* the interest set in the epoll instance, {} if not added     *)
  ready,    (* what the descriptor is ready for; "ERR" is EPOLLERR|EPOLLHUP*)
  armed,    (* the descriptor has an edge no epoll_wait has reported       *)
  report,   (* report[w]: the epoll_event a worker has still to handle     *)
  st,       (* waiters: "run", "wait" for the event, "woken" by a schedule *)
  failed    (* a ROUTN_ASSERT has failed                                   *)

vars == <<events, ctx, pending, kern, ready, armed, report, st, failed>>

NoReport == [fd |-> 0, evs |-> {}]

Waiters == Fds \X Kinds

TypeOK ==
  /\ events \in [Fds -> SUBSET Kinds]
  /\ ctx \subseteq Waiters
  /\ pending \in Nat
  /\ kern \in [Fds -> SUBSET Kinds]
  /\ ready \in [Fds -> SUBSET (Kinds \cup {"ERR"})]
  /\ armed \in [Fds -> BOOLEAN]
  /\ report \in [Workers -> {NoReport} \cup
                            [fd : Fds, evs : SUBSET (Kinds \cup {"ERR"})]]
  /\ st \in [Waiters -> {"run", "wait", "woken"}]
  /\ failed \in BOOLEAN

Init ==
  /\ events = [fd \in Fds |-> {}]
  /\ ctx = {}
  /\ pending = 0
  /\ kern = [fd \in Fds |-> {}]
  /\ ready = [fd \in Fds |-> {}]
  /\ armed = [fd \in Fds |-> FALSE]
  /\ report = [w \in Workers |-> NoReport]
  /\ st = [x \in Waiters |-> "run"]
  /\ failed = FALSE

(***************************************************************************)
(* epoll, as the program uses it                                           *)
(***************************************************************************)
\* MOD and DEL need a registration, ADD needs none.
CtlOk(op, fd) == (op = "ADD") = (kern[fd] = {})

\* ADD and MOD look at the descriptor again: what is ready is a new edge.
Ctl(fd, evs) ==
  /\ kern' = [kern EXCEPT ![fd] = evs]
  /\ armed' = [armed EXCEPT ![fd] =
                 evs # {} /\ (@ \/ ready[fd] \cap (evs \cup {"ERR"}) # {})]

OpFor(evs) == IF evs = {} THEN "DEL" ELSE "MOD"

\* What epoll_wait reports: the ready part of the interest set, and errors.
Reported(fd) == ready[fd] \cap (kern[fd] \cup {"ERR"})

(***************************************************************************)
(* FdContext                                                               *)
(***************************************************************************)
\* Faulty variant: the event stays registered.
TriggerKeepsEvent(fd, evs) ==
  /\ events' = events
  /\ ctx' = ctx \ ({fd} \X evs)
  /\ st' = [x \in Waiters |-> IF x \in {fd} \X evs THEN "woken" ELSE st[x]]
  /\ UNCHANGED failed

\* triggerEvent for each of evs: schedule the waiter and empty its context.
\* ROUTN_ASSERT(events & event) guards it.
Trigger(fd, evs) ==
  IF evs \subseteq events[fd]
  THEN /\ events' = [events EXCEPT ![fd] = @ \ evs]
       /\ ctx' = ctx \ ({fd} \X evs)
       /\ st' = [x \in Waiters |-> IF x \in {fd} \X evs THEN "woken" ELSE st[x]]
       /\ UNCHANGED failed
  ELSE failed' = TRUE /\ UNCHANGED <<events, ctx, st>>

\* (!fd_ctx->events) & event: ! yields 1, which is READ's bit but not WRITE's
NothingToCancel(fd, ev) == events[fd] = {} /\ ev = "READ"

(***************************************************************************)
(* Operations                                                              *)
(***************************************************************************)
\* Called by the waiter itself, which then yields.
AddEvent(fd, ev) ==
  /\ st[<<fd, ev>>] = "run" /\ ev \in Uses[fd]
  /\ IF ev \in events[fd] \/ <<fd, ev>> \in ctx
     THEN failed' = TRUE /\ UNCHANGED <<events, ctx, pending, kern, armed, st>>
     ELSE /\ CtlOk(IF events[fd] = {} THEN "ADD" ELSE "MOD", fd)
          /\ Ctl(fd, events[fd] \cup {ev})
          /\ pending' = pending + 1
          /\ events' = [events EXCEPT ![fd] = @ \cup {ev}]
          /\ ctx' = ctx \cup {<<fd, ev>>}
          /\ st' = [st EXCEPT ![<<fd, ev>>] = "wait"]
          /\ UNCHANGED failed
  /\ UNCHANGED <<ready, report>>

\* The waiter is forgotten, not woken; its owner goes on by itself.
DelEvent(fd, ev) ==
  /\ Cancels /\ ev \in Uses[fd]
  /\ ~NothingToCancel(fd, ev)
  /\ CtlOk(OpFor(events[fd] \ {ev}), fd)
  /\ Ctl(fd, events[fd] \ {ev})
  /\ pending' = pending - 1
  /\ events' = [events EXCEPT ![fd] = @ \ {ev}]
  /\ ctx' = ctx \ {<<fd, ev>>}
  /\ st' = [st EXCEPT ![<<fd, ev>>] = IF @ = "wait" THEN "run" ELSE @]
  /\ UNCHANGED <<ready, report, failed>>

\* Faulty variant: the count of pending events is not brought down.
CancelEventUncounted(fd, ev) ==
  /\ Cancels /\ st[<<fd, ev>>] # "run"
  /\ ~NothingToCancel(fd, ev)
  /\ CtlOk(OpFor(events[fd] \ {ev}), fd)
  /\ Ctl(fd, events[fd] \ {ev})
  /\ Trigger(fd, {ev})
  /\ UNCHANGED <<pending, ready, report>>

\* Called by the timeout of a wait whose fiber has not run again.
CancelEvent(fd, ev) ==
  /\ Cancels /\ st[<<fd, ev>>] # "run"
  /\ ~NothingToCancel(fd, ev)
  /\ CtlOk(OpFor(events[fd] \ {ev}), fd)
  /\ Ctl(fd, events[fd] \ {ev})
  /\ Trigger(fd, {ev})
  /\ pending' = pending - 1
  /\ UNCHANGED <<ready, report>>

CancelAll(fd) ==
  /\ Cancels
  /\ events[fd] # {}
  /\ CtlOk("DEL", fd)
  /\ Ctl(fd, {})
  /\ Trigger(fd, events[fd])
  /\ pending' = pending - Cardinality(events[fd])
  /\ UNCHANGED <<ready, report>>

(***************************************************************************)
(* IOManager::idle                                                         *)
(***************************************************************************)
\* epoll_wait hands one edge to one worker.
EpollWait(w, fd) ==
  /\ report[w] = NoReport
  /\ armed[fd] /\ Reported(fd) # {}
  /\ armed' = [armed EXCEPT ![fd] = FALSE]
  /\ report' = [report EXCEPT ![w] = [fd |-> fd, evs |-> Reported(fd)]]
  /\ UNCHANGED <<events, ctx, pending, kern, ready, st, failed>>

\* Faulty variant: errors are not turned into the registered events.
RealEventsNoError(fd, evs) == evs \cap Kinds

\* real_events: an error counts as every registered event.
RealEvents(fd, evs) ==
  (evs \cup (IF "ERR" \in evs THEN events[fd] ELSE {})) \cap Kinds

\* Faulty variant: the worker asks epoll for what it has just triggered.
LeftEventsSwapped(fd, real) == events[fd] \cap real

LeftEvents(fd, real) == events[fd] \ real

HandleEvent(w) ==
  LET fd   == report[w].fd
      real == RealEvents(fd, report[w].evs)
      left == LeftEvents(fd, real)
  IN  /\ report[w] # NoReport
      /\ report' = [report EXCEPT ![w] = NoReport]
      /\ IF events[fd] \cap real # {} /\ CtlOk(OpFor(left), fd)
         THEN /\ Ctl(fd, left)
              /\ Trigger(fd, real)
              /\ pending' = pending - Cardinality(real)
         ELSE UNCHANGED <<events, ctx, pending, kern, armed, st, failed>>
      /\ UNCHANGED ready

(***************************************************************************)
(* The descriptors and the fibers that use them                            *)
(***************************************************************************)
\* Data, space or an error arrives: an edge if somebody asked for it.
BecomeReady(fd, ev) ==
  /\ ready' = [ready EXCEPT ![fd] = @ \cup {ev}]
  /\ armed' = [armed EXCEPT ![fd] = @ \/ ev \in kern[fd]
                                      \/ (ev = "ERR" /\ kern[fd] # {})]
  /\ UNCHANGED <<events, ctx, pending, kern, report, st, failed>>

\* A woken fiber runs again and reads or writes until EAGAIN.
Resume(fd, ev) ==
  /\ st[<<fd, ev>>] = "woken"
  /\ st' = [st EXCEPT ![<<fd, ev>>] = "run"]
  /\ ready' = [ready EXCEPT ![fd] = @ \ {ev}]
  /\ UNCHANGED <<events, ctx, pending, kern, armed, report, failed>>

Next ==
  /\ ~failed
  /\ \/ \E fd \in Fds, ev \in Kinds :
          \/ AddEvent(fd, ev) \/ DelEvent(fd, ev) \/ CancelEvent(fd, ev)
          \/ Resume(fd, ev)
     \/ \E fd \in Fds : CancelAll(fd)
     \/ \E fd \in Fds : \E ev \in Uses[fd] \cup {"ERR"} : BecomeReady(fd, ev)
     \/ \E w \in Workers : HandleEvent(w) \/ \E fd \in Fds : EpollWait(w, fd)

Spec == Init /\ [][Next]_vars

\* A worker handles the report it has got, and one call of epoll_wait returns
\* the whole ready list (64 entries): a descriptor on it is not passed over
\* for ever while workers keep calling.
FairSpec ==
  /\ Spec
  /\ \A w \in Workers : WF_vars(HandleEvent(w))
  /\ \A fd \in Fds : SF_vars(\E w \in Workers : EpollWait(w, fd))

(***************************************************************************)
(* Properties                                                              *)
(***************************************************************************)
\* No ROUTN_ASSERT of addEvent or triggerEvent fails: an event is triggered
\* only while it is registered, and registered only once
\* (IoManager.cpp 89, 166, 187).
NoAssertFails == ~failed

Registered == {x \in Waiters : x[2] \in events[x[1]]}

\* _pendingEventCount is the number of registered events.  stopping() takes
\* it for that: too small a count stops the workers under a waiting fiber,
\* too large a one keeps them for ever.
PendingExact == ~failed => pending = Cardinality(Registered)

\* A fiber waits if and only if it is registered with the program and with
\* the kernel, and a fiber that was woken is in no table: nobody waits for an
\* event that will not be reported, and nobody is scheduled twice.
WaitersRegistered ==
  ~failed => \A x \in Waiters :
    LET fd == x[1] IN
    /\ st[x] = "wait" <=> x[2] \in events[fd]
    /\ st[x] = "wait" <=> x \in ctx
    /\ events[fd] = kern[fd]

\* A registered event whose descriptor is ready, or in error, is triggered or
\* withdrawn, though reports are edge-triggered and may reach a worker late.
ReadyIsTriggered ==
  \A fd \in Fds : \A ev \in Kinds :
    (ev \in events[fd] /\ {ev, "ERR"} \cap ready[fd] # {})
      ~> (ev \notin events[fd])
=============================================================================
