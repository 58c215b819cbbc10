----------------------------- MODULE WorkerGroup -----------------------------
(***************************************************************************)
(* FiberSemaphore (src/src/FiberSync.cpp) and WorkerGroup                  *)
(* (src/src/Worker.cpp), which lets at most batch_size callbacks be in the *)
(* scheduler at a time: schedule() takes a token of the semaphore for each *)
(* callback, doWork() gives it back, waitAll() collects them all.          *)
(*                                                                         *)
(* A fiber that finds no token enters m_waiters under the spin lock and    *)
(* gives its worker away after the unlock: it may be scheduled again while *)
(* it still runs, and the scheduler then leaves it in its queue.           *)
(***************************************************************************)
EXTENDS Integers, Sequences, FiniteSets

CONSTANTS
  Fibers,    (* fibers that use the group                                  *)
  Owner,     (* the one of them that calls waitAll                         *)
  Batch,     (* batch_size                                                 *)
  Vectors,   (* numbers of callbacks given to one schedule()               *)
  Orderly,   (* TRUE: waitAll is called when nobody is in schedule(), and
                schedule() not after it                                    *)
  MaxCalls   (* bound: calls of schedule()                                 *)

WorkerGroupAssumption ==
  /\ Owner \in Fibers /\ Batch \in Nat \ {0}
  /\ Vectors \subseteq Nat \ {0}
  /\ Orderly \in BOOLEAN /\ MaxCalls \in Nat

VARIABLES
  concurrency,  (* m_concurrency                                           *)
  waiters,      (* m_waiters                                               *)
  finish,       (* m_finish                                                *)
  pc,           (* pc[f]: "idle", "schedule" or "waitAll" in the loop of
                   waits, "push" after it, "done" after waitAll            *)
  park,         (* park[f]: "no", "parking" from m_waiters to the switch,
                   "held" after it                                         *)
  need,         (* need[f]: waits the loop of f still has to do            *)
  taken,        (* taken[f]: tokens f has taken in the loop                *)
  woken,        (* fibers notify() has given to the scheduler              *)
  queue,        (* callbacks in the scheduler                              *)
  running,      (* callbacks that run                                      *)
  calls         (* calls of schedule()                                     *)

sem == <<concurrency, waiters>>
jobs == <<queue, running>>
vars == <<sem, finish, pc, park, need, taken, woken, jobs, calls>>

TypeOK ==
  /\ concurrency \in Nat /\ waiters \in Seq(Fibers) /\ finish \in BOOLEAN
  /\ pc \in [Fibers -> {"idle", "schedule", "waitAll", "push", "done"}]
  /\ park \in [Fibers -> {"no", "parking", "held"}]
  /\ need \in [Fibers -> Nat] /\ taken \in [Fibers -> Nat]
  /\ woken \subseteq {f \in Fibers : park[f] # "no"}
  /\ queue \in Nat /\ running \in Nat /\ calls \in 0..MaxCalls

Init ==
  /\ concurrency = Batch /\ waiters = <<>> /\ finish = FALSE
  /\ pc = [f \in Fibers |-> "idle"]
  /\ park = [f \in Fibers |-> "no"]
  /\ need = [f \in Fibers |-> 0] /\ taken = [f \in Fibers |-> 0]
  /\ woken = {} /\ queue = 0 /\ running = 0 /\ calls = 0

(***************************************************************************)
(* FiberSemaphore                                                          *)
(***************************************************************************)
InLoop(f) == pc[f] \in {"schedule", "waitAll"} /\ park[f] = "no" /\ need[f] > 0

\* f has its token: the next round of the loop
HasToken(f) ==
  /\ taken' = [taken EXCEPT ![f] = @ + 1]
  /\ need' = [need EXCEPT ![f] = @ - 1]

\* wait() with a token there ...
WaitTakes(f) ==
  /\ InLoop(f) /\ concurrency > 0
  /\ concurrency' = concurrency - 1
  /\ HasToken(f)
  /\ UNCHANGED <<waiters, finish, pc, park, woken, jobs, calls>>

\* ... and with none
WaitParks(f) ==
  /\ InLoop(f) /\ concurrency = 0
  /\ waiters' = Append(waiters, f)
  /\ park' = [park EXCEPT ![f] = "parking"]
  /\ UNCHANGED <<concurrency, finish, pc, need, taken, woken, jobs, calls>>

\* YieldToHold
Yields(f) ==
  /\ park[f] = "parking"
  /\ park' = [park EXCEPT ![f] = "held"]
  /\ UNCHANGED <<sem, finish, pc, need, taken, woken, jobs, calls>>

\* The scheduler resumes f, which returns from wait().
Resumes(f) ==
  /\ f \in woken /\ park[f] = "held"
  /\ woken' = woken \ {f}
  /\ park' = [park EXCEPT ![f] = "no"]
  /\ HasToken(f)
  /\ UNCHANGED <<sem, finish, pc, jobs, calls>>

\* Faulty variant: the token is put back and nobody is woken.
NotifyNobody ==
  /\ concurrency' = concurrency + 1
  /\ UNCHANGED <<waiters, woken>>

\* notify(): the first waiter gets the token
Notify ==
  IF waiters # <<>>
  THEN /\ woken' = woken \cup {Head(waiters)}
       /\ waiters' = Tail(waiters)
       /\ UNCHANGED concurrency
  ELSE /\ concurrency' = concurrency + 1
       /\ UNCHANGED <<waiters, woken>>

(***************************************************************************)
(* WorkerGroup                                                             *)
(***************************************************************************)
\* schedule(cbs), or schedule(cb) for one callback
Schedule(f, n) ==
  /\ pc[f] = "idle" /\ calls < MaxCalls
  /\ Orderly => ~finish
  /\ calls' = calls + 1
  /\ pc' = [pc EXCEPT ![f] = "schedule"]
  /\ need' = [need EXCEPT ![f] = n]
  /\ UNCHANGED <<sem, finish, park, taken, woken, jobs>>

\* the loop is over: the callbacks go to the scheduler, or waitAll returns
Leave(f) ==
  /\ pc[f] \in {"schedule", "waitAll"} /\ park[f] = "no" /\ need[f] = 0
  /\ pc' = [pc EXCEPT ![f] = IF pc[f] = "schedule" THEN "push" ELSE "done"]
  /\ UNCHANGED <<sem, finish, park, need, taken, woken, jobs, calls>>

Push(f) ==
  /\ pc[f] = "push"
  /\ queue' = queue + taken[f]
  /\ taken' = [taken EXCEPT ![f] = 0]
  /\ pc' = [pc EXCEPT ![f] = "idle"]
  /\ UNCHANGED <<sem, finish, park, need, woken, running, calls>>

\* waitAll(): m_finish is not set before
WaitAll(f) ==
  /\ f = Owner /\ pc[f] = "idle"
  /\ Orderly => \A g \in Fibers : pc[g] = "idle"
  /\ finish' = TRUE
  /\ pc' = [pc EXCEPT ![f] = "waitAll"]
  /\ need' = [need EXCEPT ![f] = Batch]
  /\ UNCHANGED <<sem, park, taken, woken, jobs, calls>>

\* A worker takes a callback.
StartWork ==
  /\ queue > 0
  /\ queue' = queue - 1 /\ running' = running + 1
  /\ UNCHANGED <<sem, finish, pc, park, need, taken, woken, calls>>

\* doWork(): cb has returned
EndWork ==
  /\ running > 0
  /\ running' = running - 1
  /\ Notify
  /\ UNCHANGED <<finish, pc, park, need, taken, queue, calls>>

FiberStep(f) == WaitTakes(f) \/ WaitParks(f) \/ Yields(f) \/ Resumes(f) \/ Leave(f) \/ Push(f)

Next ==
  \/ \E f \in Fibers : FiberStep(f) \/ WaitAll(f) \/ \E n \in Vectors : Schedule(f, n)
  \/ StartWork \/ EndWork

Spec == Init /\ [][Next]_vars

\* Workers run what is scheduled, and callbacks return.
FairSpec ==
  /\ Spec
  /\ \A f \in Fibers : WF_vars(FiberStep(f))
  /\ WF_vars(StartWork) /\ WF_vars(EndWork)

(***************************************************************************)
(* Properties                                                              *)
(***************************************************************************)
\* Nobody waits while there is a token, nobody waits twice, and whoever waits
\* has been promised nothing yet.
NoWaitWithToken ==
  /\ waiters # <<>> => concurrency = 0
  /\ \A i, j \in DOMAIN waiters : waiters[i] = waiters[j] => i = j
  /\ \A i \in DOMAIN waiters : park[waiters[i]] # "no" /\ waiters[i] \notin woken
  /\ \A f \in Fibers : park[f] # "no" => f \in woken \/ \E i \in DOMAIN waiters : waiters[i] = f

\* the tokens in the loops, numbered for each fiber
Held == UNION {{f} \X (1..taken[f]) : f \in Fibers}

\* Each of the batch_size tokens is free, on its way to a fiber that has been
\* woken, held by a fiber in the loop or by one callback; when waitAll has
\* returned, every callback has (FiberSync.cpp 22-66, Worker.cpp 29-60).
TokensKept ==
  /\ NoWaitWithToken
  /\ concurrency + Cardinality(woken) + Cardinality(Held) + queue + running = Batch
  /\ pc[Owner] = "done" => queue + running = 0

\* With callbacks scheduled one by one, every call of schedule() and of
\* waitAll() returns.
CallsReturn ==
  /\ \A f \in Fibers : pc[f] = "schedule" ~> pc[f] = "idle"
  /\ pc[Owner] = "waitAll" ~> pc[Owner] = "done"
=============================================================================
