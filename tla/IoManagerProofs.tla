-------------------------- MODULE IoManagerProofs --------------------------
(***************************************************************************)
(* If fibers wait on every descriptor in one direction only, then for any  *)
(* number of descriptors and workers, with reports as stale as they like   *)
(* and cancellations at any time, no assertion of IOManager fails, the     *)
(* count of pending events is exact, and a fiber waits exactly when both   *)
(* the table and the kernel know of it.                                    *)
(*                                                                         *)
(* The condition is needed: with a reader and a writer on one descriptor   *)
(* TLC finds the assertion of triggerEvent violated (run io_stale).  The   *)
(* argument: under it a report that mentions a registered event mentions   *)
(* nothing else, so all of real_events is registered.                      *)
(***************************************************************************)
EXTENDS IoManager, FiniteSetTheorems, TLAPS

\* Every descriptor is used for reading or for writing, not for both.
OneDirection == \A fd \in Fds : \A a, b \in Uses[fd] : a = b

\* Only what is used is ever registered, woken, ready or reported.
OnlyUsed ==
  /\ \A fd \in Fds : events[fd] \subseteq Uses[fd]
  /\ \A fd \in Fds : ready[fd] \subseteq Uses[fd] \cup {"ERR"}
  /\ \A w \in Workers : report[w] # NoReport =>
       report[w].fd \in Fds /\ report[w].evs \subseteq Uses[report[w].fd] \cup {"ERR"}
  /\ \A fd \in Fds, ev \in Kinds : st[<<fd, ev>>] # "run" => ev \in Uses[fd]

IoInv ==
  /\ TypeOK /\ NoAssertFails /\ OnlyUsed
  /\ WaitersRegistered /\ PendingExact

-----------------------------------------------------------------------------
\* The registered events are finitely many, so their number is defined.
LEMMA RegisteredFinite == IsFiniteSet(Registered)
<1>1. IsFiniteSet(Kinds)
  <2>1. IsFiniteSet({"READ"})
    BY FS_Singleton
  <2>2. IsFiniteSet({"READ"} \cup {"WRITE"})
    BY <2>1, FS_AddElement
  <2>3. QED BY <2>2, Kinds = {"READ"} \cup {"WRITE"} DEF Kinds
<1>2. IsFiniteSet(Waiters)
  BY <1>1, FS_Product, IoAssumption DEF Waiters
<1>3. QED BY <1>2, FS_Subset DEF Registered

\* A descriptor has at most one registered event.
LEMMA SingleEvent ==
  ASSUME OneDirection, IoInv, NEW fd \in Fds, NEW S \in SUBSET Uses[fd],
         events[fd] \cap S # {}
  PROVE  \E ev \in Kinds : events[fd] = {ev} /\ S = {ev}
  BY IoAssumption DEF IoInv, OnlyUsed, OneDirection, TypeOK

\* Registering one event and counting it keeps the count exact.
LEMMA CountUp ==
  ASSUME IoInv, NEW fd \in Fds, NEW ev \in Kinds, ev \notin events[fd],
         events' = [events EXCEPT ![fd] = @ \cup {ev}], pending' = pending + 1
  PROVE  PendingExact'
<1>1. Registered' = Registered \cup {<<fd, ev>>} /\ <<fd, ev>> \notin Registered
  BY DEF Registered, Waiters, IoInv, TypeOK
<1>2. Cardinality(Registered') = Cardinality(Registered) + 1
  BY <1>1, RegisteredFinite, FS_AddElement
<1>3. QED BY <1>2 DEF IoInv, PendingExact, NoAssertFails

\* Withdrawing a descriptor's only event and counting it down as well.
LEMMA CountDown ==
  ASSUME IoInv, NEW fd \in Fds, NEW ev \in Kinds, events[fd] = {ev},
         events' = [events EXCEPT ![fd] = {}], pending' = pending - 1
  PROVE  PendingExact' /\ pending' \in Nat
<1>1. Registered' = Registered \ {<<fd, ev>>} /\ <<fd, ev>> \in Registered
  BY DEF Registered, Waiters, IoInv, TypeOK
<1>2. Cardinality(Registered') = Cardinality(Registered) - 1
  BY <1>1, RegisteredFinite, FS_RemoveElement
<1>3. Cardinality(Registered') \in Nat
  BY <1>1, RegisteredFinite, FS_CardinalityType, FS_RemoveElement
<1>4. QED BY <1>2, <1>3 DEF IoInv, PendingExact, NoAssertFails

-----------------------------------------------------------------------------
LEMMA IoInit == Init => IoInv
<1> SUFFICES ASSUME Init PROVE IoInv
  OBVIOUS
<1>1. TypeOK
  BY DEF Init, TypeOK
<1>2. Registered = {}
  BY DEF Init, Registered, Waiters
<1>3. PendingExact
  BY <1>2, FS_EmptySet DEF Init, PendingExact
<1>4. NoAssertFails /\ OnlyUsed /\ WaitersRegistered
  BY DEF Init, NoAssertFails, OnlyUsed, WaitersRegistered, Waiters
<1>5. QED BY <1>1, <1>3, <1>4 DEF IoInv

\* Waking the only waiter of a descriptor: what cancelEvent, cancelAll and
\* the idle loop have in common.
LEMMA WakeOnly ==
  ASSUME IoInv, NEW fd \in Fds, NEW ev \in Kinds, events[fd] = {ev},
         Ctl(fd, {}), Trigger(fd, {ev}), pending' = pending - 1, ready' = ready,
         report' \in [Workers -> {NoReport} \cup
                            [fd : Fds, evs : SUBSET (Kinds \cup {"ERR"})]],
         \A w \in Workers : report'[w] = report[w] \/ report'[w] = NoReport
  PROVE  IoInv'
<1>1. /\ events' = [events EXCEPT ![fd] = {}]
      /\ ctx' = ctx \ {<<fd, ev>>}
      /\ st' = [x \in Waiters |-> IF x = <<fd, ev>> THEN "woken" ELSE st[x]]
      /\ failed' = failed
      /\ kern' = [kern EXCEPT ![fd] = {}]
  BY DEF Trigger, Ctl, IoInv, TypeOK
<1>2. PendingExact' /\ pending' \in Nat
  BY <1>1, CountDown
<1>3. TypeOK'
  BY <1>1, <1>2 DEF Ctl, IoInv, TypeOK
<1>4. NoAssertFails'
  BY <1>1 DEF IoInv, NoAssertFails
<1>5. OnlyUsed'
  <2>1. ev \in Uses[fd]
    BY DEF IoInv, OnlyUsed
  <2>2. \A f \in Fds, e \in Kinds :
          st'[<<f, e>>] # "run" => st[<<f, e>>] # "run" \/ <<f, e>> = <<fd, ev>>
    BY <1>1 DEF Waiters
  <2>3. \A f \in Fds, e \in Kinds : st'[<<f, e>>] # "run" => e \in Uses[f]
    BY <2>1, <2>2 DEF IoInv, OnlyUsed
  <2>4. \A f \in Fds : events'[f] \subseteq Uses[f]
    BY <1>1 DEF IoInv, OnlyUsed, TypeOK
  <2>5. \A w \in Workers : report'[w] # NoReport =>
          report'[w].fd \in Fds
          /\ report'[w].evs \subseteq Uses[report'[w].fd] \cup {"ERR"}
    BY DEF IoInv, OnlyUsed
  <2>6. QED BY <2>3, <2>4, <2>5 DEF IoInv, OnlyUsed
<1>6. WaitersRegistered'
  <2> SUFFICES ASSUME NEW x \in Waiters
               PROVE  /\ st'[x] = "wait" <=> x[2] \in events'[x[1]]
                      /\ st'[x] = "wait" <=> x \in ctx'
                      /\ events'[x[1]] = kern'[x[1]]
    BY DEF WaitersRegistered
  <2>1. /\ st[x] = "wait" <=> x[2] \in events[x[1]]
        /\ st[x] = "wait" <=> x \in ctx
        /\ events[x[1]] = kern[x[1]]
    BY DEF IoInv, WaitersRegistered, NoAssertFails
  <2>2. CASE x = <<fd, ev>>
    BY <1>1, <2>1, <2>2 DEF IoInv, TypeOK
  <2>3. CASE x # <<fd, ev>>
    <3>1. x[1] \in Fds /\ x[2] \in Kinds /\ x = <<x[1], x[2]>>
      BY DEF Waiters
    <3>2. QED BY <1>1, <2>1, <2>3, <3>1 DEF IoInv, TypeOK
  <2>4. QED BY <2>2, <2>3
<1>7. QED BY <1>2, <1>3, <1>4, <1>5, <1>6 DEF IoInv

LEMMA AddEventInv ==
  ASSUME OneDirection, IoInv, NEW fd \in Fds, NEW ev \in Kinds, AddEvent(fd, ev)
  PROVE  IoInv'
<1>1. <<fd, ev>> \in Waiters
  BY DEF Waiters
<1>2. ev \notin events[fd] /\ <<fd, ev>> \notin ctx
  BY <1>1 DEF AddEvent, IoInv, WaitersRegistered, NoAssertFails
<1>3. /\ Ctl(fd, events[fd] \cup {ev})
      /\ pending' = pending + 1
      /\ events' = [events EXCEPT ![fd] = @ \cup {ev}]
      /\ ctx' = ctx \cup {<<fd, ev>>}
      /\ st' = [st EXCEPT ![<<fd, ev>>] = "wait"]
      /\ ev \in Uses[fd]
      /\ UNCHANGED <<ready, report, failed>>
  BY <1>2 DEF AddEvent
<1>4. PendingExact'
  BY <1>2, <1>3, CountUp
<1>5. TypeOK'
  BY <1>1, <1>3 DEF Ctl, IoInv, TypeOK
<1>6. NoAssertFails' /\ OnlyUsed'
  BY <1>1, <1>3 DEF IoInv, NoAssertFails, OnlyUsed, TypeOK, Waiters
<1>7. WaitersRegistered'
  BY <1>1, <1>3 DEF Ctl, IoInv, NoAssertFails, WaitersRegistered, TypeOK, Waiters
<1>8. QED BY <1>4, <1>5, <1>6, <1>7 DEF IoInv

\* delEvent and cancelEvent pass their guard only if the event is registered.
LEMMA GuardMeansRegistered ==
  ASSUME OneDirection, IoInv, NEW fd \in Fds, NEW ev \in Uses[fd],
         CtlOk(OpFor(events[fd] \ {ev}), fd)
  PROVE  ev \in Kinds /\ events[fd] = {ev}
<1>1. ev \in Kinds /\ <<fd, ev>> \in Waiters
  BY IoAssumption DEF Waiters
<1>2. events[fd] = kern[fd]
  BY <1>1 DEF IoInv, WaitersRegistered, NoAssertFails
<1>3. events[fd] # {}
  BY <1>2 DEF CtlOk, OpFor
<1>4. QED BY <1>1, <1>3 DEF IoInv, OnlyUsed, OneDirection

LEMMA DelEventInv ==
  ASSUME OneDirection, IoInv, NEW fd \in Fds, NEW ev \in Kinds, DelEvent(fd, ev)
  PROVE  IoInv'
<1>1. events[fd] = {ev} /\ <<fd, ev>> \in Waiters
  BY GuardMeansRegistered DEF DelEvent, Waiters
<1>2. /\ Ctl(fd, {})
      /\ pending' = pending - 1
      /\ events' = [events EXCEPT ![fd] = {}]
      /\ ctx' = ctx \ {<<fd, ev>>}
      /\ st' = [st EXCEPT ![<<fd, ev>>] = "run"]
      /\ UNCHANGED <<ready, report, failed>>
  <2>1. st[<<fd, ev>>] = "wait"
    BY <1>1 DEF IoInv, WaitersRegistered, NoAssertFails
  <2>2. events[fd] \ {ev} = {}
    BY <1>1
  <2>3. QED BY <2>1, <2>2 DEF DelEvent
<1>3. PendingExact' /\ pending' \in Nat
  BY <1>1, <1>2, CountDown
<1>4. TypeOK'
  BY <1>1, <1>2, <1>3 DEF Ctl, IoInv, TypeOK
<1>5. NoAssertFails' /\ OnlyUsed'
  BY <1>1, <1>2 DEF IoInv, NoAssertFails, OnlyUsed, TypeOK, Waiters
<1>6. WaitersRegistered'
  BY <1>1, <1>2 DEF Ctl, IoInv, NoAssertFails, WaitersRegistered, TypeOK, Waiters
<1>7. QED BY <1>3, <1>4, <1>5, <1>6 DEF IoInv

LEMMA CancelEventInv ==
  ASSUME OneDirection, IoInv, NEW fd \in Fds, NEW ev \in Kinds, CancelEvent(fd, ev)
  PROVE  IoInv'
<1>1. ev \in Uses[fd]
  BY DEF CancelEvent, IoInv, OnlyUsed
<1>2. events[fd] = {ev}
  BY <1>1, GuardMeansRegistered DEF CancelEvent
<1>3. Ctl(fd, {}) /\ Trigger(fd, {ev}) /\ pending' = pending - 1
  <2>1. events[fd] \ {ev} = {}
    BY <1>2
  <2>2. QED BY <2>1 DEF CancelEvent
<1>4. UNCHANGED <<ready, report>>
  BY DEF CancelEvent
<1>5. QED BY <1>2, <1>3, <1>4, WakeOnly DEF IoInv, TypeOK

LEMMA CancelAllInv ==
  ASSUME OneDirection, IoInv, NEW fd \in Fds, CancelAll(fd)
  PROVE  IoInv'
<1>1. PICK ev \in Kinds : events[fd] = {ev}
  <2>1. events[fd] \cap events[fd] # {} /\ events[fd] \in SUBSET Uses[fd]
    BY DEF CancelAll, IoInv, OnlyUsed
  <2>2. QED BY <2>1, SingleEvent
<1>2. Cardinality(events[fd]) = 1
  BY <1>1, FS_Singleton
<1>3. Ctl(fd, {}) /\ Trigger(fd, {ev}) /\ pending' = pending - 1
  BY <1>1, <1>2 DEF CancelAll
<1>4. UNCHANGED <<ready, report>>
  BY DEF CancelAll
<1>5. QED BY <1>1, <1>3, <1>4, WakeOnly DEF IoInv, TypeOK

LEMMA HandleEventInv ==
  ASSUME OneDirection, IoInv, NEW w \in Workers, HandleEvent(w)
  PROVE  IoInv'
<1> DEFINE fd   == report[w].fd
           real == RealEvents(fd, report[w].evs)
           left == LeftEvents(fd, real)
<1>1. /\ report[w] # NoReport
      /\ report' = [report EXCEPT ![w] = NoReport]
      /\ ready' = ready
      /\ \/ /\ events[fd] \cap real # {}
            /\ Ctl(fd, left) /\ Trigger(fd, real)
            /\ pending' = pending - Cardinality(real)
         \/ UNCHANGED <<events, ctx, pending, kern, armed, st, failed>>
  BY DEF HandleEvent
<1>2. fd \in Fds /\ real \in SUBSET Uses[fd]
  <2>1. fd \in Fds /\ report[w].evs \subseteq Uses[fd] \cup {"ERR"}
    BY <1>1 DEF IoInv, OnlyUsed
  <2>2. events[fd] \subseteq Uses[fd] /\ "ERR" \notin Kinds
    BY <2>1 DEF IoInv, OnlyUsed, Kinds
  <2>3. QED BY <2>1, <2>2 DEF RealEvents
<1>3. /\ report' \in [Workers -> {NoReport} \cup
                            [fd : Fds, evs : SUBSET (Kinds \cup {"ERR"})]]
      /\ \A v \in Workers : report'[v] = report[v] \/ report'[v] = NoReport
  BY <1>1 DEF IoInv, TypeOK
<1>4. CASE /\ events[fd] \cap real # {}
           /\ Ctl(fd, left) /\ Trigger(fd, real)
           /\ pending' = pending - Cardinality(real)
  <2>1. PICK ev \in Kinds : events[fd] = {ev} /\ real = {ev}
    <3> HIDE DEF fd, real
    <3>1. QED BY <1>2, <1>4, SingleEvent
  <2>2. left = {} /\ Cardinality(real) = 1
    BY <2>1, FS_Singleton DEF LeftEvents
  <2>3. Ctl(fd, {}) /\ Trigger(fd, {ev}) /\ pending' = pending - 1
    BY <1>4, <2>1, <2>2
  <2>4. QED BY <1>1, <1>2, <1>3, <2>1, <2>3, WakeOnly
<1>5. CASE UNCHANGED <<events, ctx, pending, kern, armed, st, failed>>
  <2>1. TypeOK' /\ OnlyUsed'
    BY <1>1, <1>3, <1>5 DEF IoInv, TypeOK, OnlyUsed
  <2>2. NoAssertFails' /\ WaitersRegistered' /\ PendingExact'
    BY <1>5 DEF IoInv, NoAssertFails, WaitersRegistered, PendingExact, Registered
  <2>3. QED BY <2>1, <2>2 DEF IoInv
<1>6. QED BY <1>1, <1>4, <1>5

LEMMA EpollWaitInv ==
  ASSUME IoInv, NEW w \in Workers, NEW fd \in Fds, EpollWait(w, fd)
  PROVE  IoInv'
<1>1. Reported(fd) \subseteq Uses[fd] \cup {"ERR"}
  BY DEF Reported, IoInv, OnlyUsed
<1>2. TypeOK' /\ OnlyUsed'
  BY <1>1, IoAssumption DEF EpollWait, IoInv, TypeOK, OnlyUsed
<1>3. NoAssertFails' /\ WaitersRegistered' /\ PendingExact'
  BY DEF EpollWait, IoInv, NoAssertFails, WaitersRegistered, PendingExact, Registered
<1>4. QED BY <1>2, <1>3 DEF IoInv

LEMMA EnvironmentInv ==
  ASSUME IoInv, NEW fd \in Fds,
         \/ \E ev \in Uses[fd] \cup {"ERR"} : BecomeReady(fd, ev)
         \/ \E ev \in Kinds : Resume(fd, ev)
  PROVE  IoInv'
<1>1. ASSUME NEW ev \in Uses[fd] \cup {"ERR"}, BecomeReady(fd, ev) PROVE IoInv'
  <2>1. TypeOK'
    <3>1. ev \in Kinds \cup {"ERR"}
      BY <1>1, IoAssumption
    <3>2. ready' \in [Fds -> SUBSET (Kinds \cup {"ERR"})]
      BY <1>1, <3>1 DEF BecomeReady, IoInv, TypeOK
    <3>3. PICK b \in BOOLEAN : armed' = [armed EXCEPT ![fd] = b]
      BY <1>1 DEF BecomeReady
    <3>4. armed' \in [Fds -> BOOLEAN]
      BY <3>3 DEF IoInv, TypeOK
    <3>5. QED BY <1>1, <3>2, <3>4 DEF BecomeReady, IoInv, TypeOK
  <2>2. OnlyUsed'
    BY <1>1 DEF BecomeReady, IoInv, TypeOK, OnlyUsed
  <2>3. NoAssertFails' /\ WaitersRegistered' /\ PendingExact'
    BY <1>1 DEF BecomeReady, IoInv, NoAssertFails, WaitersRegistered,
                PendingExact, Registered
  <2>4. QED BY <2>1, <2>2, <2>3 DEF IoInv
<1>2. ASSUME NEW ev \in Kinds, Resume(fd, ev) PROVE IoInv'
  <2>1. TypeOK' /\ OnlyUsed'
    BY <1>2 DEF Resume, IoInv, TypeOK, OnlyUsed, Waiters
  <2>2. NoAssertFails' /\ WaitersRegistered' /\ PendingExact'
    BY <1>2 DEF Resume, IoInv, TypeOK, NoAssertFails, WaitersRegistered,
                PendingExact, Registered, Waiters
  <2>3. QED BY <2>1, <2>2 DEF IoInv
<1>3. QED BY <1>1, <1>2

LEMMA IoStep == OneDirection /\ IoInv /\ [Next]_vars => IoInv'
<1> SUFFICES ASSUME OneDirection, IoInv, [Next]_vars PROVE IoInv'
  OBVIOUS
<1>1. ASSUME NEW fd \in Fds, NEW ev \in Kinds,
             AddEvent(fd, ev) \/ DelEvent(fd, ev) \/ CancelEvent(fd, ev)
             \/ Resume(fd, ev)
      PROVE  IoInv'
  BY <1>1, AddEventInv, DelEventInv, CancelEventInv, EnvironmentInv
<1>2. ASSUME NEW fd \in Fds, CancelAll(fd) PROVE IoInv'
  BY <1>2, CancelAllInv
<1>3. ASSUME NEW fd \in Fds,
             \E ev \in Uses[fd] \cup {"ERR"} : BecomeReady(fd, ev)
      PROVE  IoInv'
  BY <1>3, EnvironmentInv
<1>4. ASSUME NEW w \in Workers,
             HandleEvent(w) \/ \E fd \in Fds : EpollWait(w, fd)
      PROVE  IoInv'
  BY <1>4, HandleEventInv, EpollWaitInv
<1>5. CASE UNCHANGED vars
  BY <1>5 DEF vars, IoInv, TypeOK, NoAssertFails, OnlyUsed, WaitersRegistered,
              PendingExact, Registered
<1>6. QED BY <1>1, <1>2, <1>3, <1>4, <1>5 DEF Next

\* The inductive invariant holds of every behaviour.
THEOREM IoInvariant == OneDirection => (Spec => []IoInv)
<1> SUFFICES ASSUME OneDirection PROVE Spec => []IoInv
  OBVIOUS
<1>1. IoInv /\ [Next]_vars => IoInv'
  BY IoStep
<1>2. QED BY <1>1, IoInit, PTL DEF Spec

\* With one direction per descriptor, no ROUTN_ASSERT of addEvent or
\* triggerEvent fails, however late a worker handles its report.
THEOREM IoNoAssertFails == OneDirection => (Spec => []NoAssertFails)
  BY IoInvariant, PTL DEF IoInv

\* With one direction per descriptor, the count stopping() reads is exact.
THEOREM IoPendingExact == OneDirection => (Spec => []PendingExact)
  BY IoInvariant, PTL DEF IoInv

\* With one direction per descriptor, a fiber waits if and only if the table
\* and the kernel have its event.
THEOREM IoWaitersRegistered == OneDirection => (Spec => []WaitersRegistered)
  BY IoInvariant, PTL DEF IoInv
=============================================================================
