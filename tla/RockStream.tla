----------------------------- MODULE RockStream -----------------------------
(***************************************************************************)
(* One RPC connection: AsyncSocketStream (src/src/streams) with the        *)
(* request, receive and handler code of RockStream (src/src/rpc).          *)
(*                                                                         *)
(* Fibers call request(): they add a Ctx to _ctxs, set a timer, queue the  *)
(* Ctx and hold.  A reader and a writer fiber serve the socket; each start *)
(* of the connection takes the two tokens of _waitSem that the last reader *)
(* and writer give back.  A Ctx is answered by whoever gets its scheduler  *)
(* pointer in Ctx::doRsp: the reader with the response, the timer, or an   *)
(* innerClose.                                                             *)
(*                                                                         *)
(* The semaphores have one waiting fiber each and are plain counters here; *)
(* sequence numbers are distinct, so a request stands for its sn.          *)
(***************************************************************************)
EXTENDS Integers, Sequences, FiniteSets

CONSTANTS
  Reqs,      (* requests; each is made by a fiber of its own               *)
  Msgs,      (* requests and notifications coming from the peer            *)
  AutoConnect, (* _autoConnect: TRUE for RockConnection, FALSE for RockSession *)
  MaxBreaks, (* bound: connections that break                             *)
  MaxSem,    (* bound: how far _sem is counted; a further notify() would only
                take the writer round its loop once more                   *)
  Closes     (* TRUE when the user may close() the stream                  *)

ASSUME RockAssumption ==
  /\ Reqs \cap Msgs = {}
  /\ AutoConnect \in BOOLEAN /\ Closes \in BOOLEAN
  /\ MaxBreaks \in Nat /\ MaxSem \in Nat \ {0}

OK == "OK"
TIMEOUT == "TIMEOUT"
IO_ERROR == "IO_ERROR"
NOT_CONNECT == "NOT_CONNECT"

\* Fibers that call innerClose.  The writer would after a failed doSend, but
\* doSend does not fail, see SendStuck.
Closers == {"reader", "starter"}
Senders == Reqs \cup Msgs
NoReq == "none"

VARIABLES
  conn,      (* isConnected()                                              *)
  broken,    (* the peer is gone, or has sent what is no message           *)
  auto,      (* _autoConnect                                               *)
  local,     (* _localAddress of the socket is known                       *)
  breaks,    (* breaks of the connection so far                            *)
  net,       (* requests the peer has not answered on this connection      *)
  sem,       (* _sem: the queue may be non-empty                           *)
  waitSem,   (* _waitSem: tokens of the reader and the writer              *)
  ctxs,      (* _ctxs                                                      *)
  queue,     (* _queue                                                     *)
  rpc,       (* the reader fiber                                           *)
  rctx,      (* the Ctx doRecv has taken out of _ctxs                      *)
  wpc,       (* the writer fiber                                           *)
  batch,     (* what the writer has taken from the queue                   *)
  spc,       (* the fiber in start()                                       *)
  soon,      (* the 10 ms timer of doRead is pending                       *)
  retry,     (* _timer: the 2 s timer of start() is pending                *)
  inner,     (* inner[a]: where closer a is in innerClose                  *)
  mine,      (* mine[a]: the Ctxs closer a has swapped out of _ctxs        *)
  pc,        (* pc[s]: where sender s is                                   *)
  tmr,       (* tmr[r]: timer of r and its callback onTimeOut              *)
  sched,     (* sched[r]: ctx->scheduler is not null                       *)
  timed,     (* ctx->timed                                                 *)
  result,    (* ctx->result                                                *)
  wakes,     (* history: how often the fiber of r has been scheduled       *)
  answered   (* history: requests whose response doRecv has matched        *)

linkVars == <<conn, broken, auto, local, breaks, net>>
semVars  == <<sem, waitSem>>
readVars == <<rpc, rctx, answered>>
sendVars == <<wpc, batch>>
startVars == <<spc, soon, retry>>
innerVars == <<inner, mine>>
ctxVars  == <<tmr, sched, timed, result, wakes>>
vars == <<linkVars, semVars, ctxs, queue, readVars, sendVars, startVars,
          innerVars, pc, ctxVars>>

TypeOK ==
  /\ conn \in BOOLEAN /\ broken \in BOOLEAN /\ auto \in BOOLEAN /\ local \in BOOLEAN
  /\ breaks \in 0..MaxBreaks
  /\ net \subseteq Reqs /\ ctxs \subseteq Reqs /\ answered \subseteq Reqs
  /\ sem \in 0..MaxSem /\ waitSem \in 0..2
  /\ queue \in Seq(Senders) /\ batch \in Seq(Senders)
  /\ rpc \in {"off", "loop", "recv", "result", "rsp", "exit", "stuck"}
  /\ rctx \in Reqs \cup {NoReq}
  /\ wpc \in {"off", "loop", "wait", "swap", "send", "clear", "stuck"}
  /\ spc \in {"off", "wait1", "wait2", "connect", "failed", "spawn"}
  /\ soon \in BOOLEAN /\ retry \in BOOLEAN
  /\ inner \in [Closers -> {"no", "swap", "clear", "fail"}]
  /\ mine \in [Closers -> SUBSET Reqs]
  /\ pc \in [Senders -> {"idle", "add", "timer", "push", "pushed", "notify", "hold",
                         "done"}]
  /\ tmr \in [Reqs -> {"none", "set", "due", "rsp", "over"}]
  /\ sched \in [Reqs -> BOOLEAN] /\ timed \in [Reqs -> BOOLEAN]
  /\ result \in [Reqs -> {OK, TIMEOUT, IO_ERROR, NOT_CONNECT}]
  /\ wakes \in [Reqs -> Nat]

\* connect() has been tried and start() is called.  The socket has learnt its
\* local address when it was connected.
Init ==
  /\ conn \in BOOLEAN /\ local = conn /\ broken = FALSE /\ auto = AutoConnect
  /\ breaks = 0 /\ net = {}
  /\ sem = 0 /\ waitSem = 2 /\ ctxs = {} /\ queue = <<>>
  /\ rpc = "off" /\ rctx = NoReq /\ answered = {}
  /\ wpc = "off" /\ batch = <<>>
  /\ spc = "wait1" /\ soon = FALSE /\ retry = FALSE
  /\ inner = [a \in Closers |-> "no"] /\ mine = [a \in Closers |-> {}]
  /\ pc = [s \in Senders |-> "idle"]
  /\ tmr = [r \in Reqs |-> "none"]
  /\ sched = [r \in Reqs |-> TRUE] /\ timed = [r \in Reqs |-> FALSE]
  /\ result = [r \in Reqs |-> OK] /\ wakes = [r \in Reqs |-> 0]

(***************************************************************************)
(* Ctx::doRsp                                                              *)
(***************************************************************************)
\* Faulty variant: the scheduler pointer is used but not taken.
DoRspKeepsScheduler(r, res) ==
  /\ UNCHANGED sched
  /\ wakes' = [wakes EXCEPT ![r] = @ + 1]
  /\ result' = [res EXCEPT ![r] = IF timed[r] THEN TIMEOUT ELSE @]

\* The compare-and-swap on ctx->scheduler has one winner: it settles the
\* result and schedules the fiber.  res is the result written before.
DoRsp(r, res) ==
  /\ sched' = [sched EXCEPT ![r] = FALSE]
  /\ IF sched[r]
     THEN /\ wakes' = [wakes EXCEPT ![r] = @ + 1]
          /\ result' = [res EXCEPT ![r] = IF timed[r] THEN TIMEOUT ELSE @]
     ELSE wakes' = wakes /\ result' = res

\* timer->cancel() has no effect on a timer whose callback is under way.
CancelTimer(r) ==
  tmr' = [tmr EXCEPT ![r] = IF @ = "set" /\ sched[r] THEN "over" ELSE @]

(***************************************************************************)
(* RockStream::request                                                     *)
(***************************************************************************)
Request(r) ==
  /\ pc[r] = "idle"
  /\ IF conn THEN pc' = [pc EXCEPT ![r] = "add"] /\ UNCHANGED result
     ELSE /\ pc' = [pc EXCEPT ![r] = "done"]
          /\ result' = [result EXCEPT ![r] = NOT_CONNECT]
  /\ UNCHANGED <<linkVars, semVars, ctxs, queue, readVars, sendVars, startVars,
                 innerVars, tmr, sched, timed, wakes>>

AddCtx(r) ==
  /\ pc[r] = "add"
  /\ ctxs' = ctxs \cup {r}
  /\ pc' = [pc EXCEPT ![r] = "timer"]
  /\ UNCHANGED <<linkVars, semVars, queue, readVars, sendVars, startVars, innerVars,
                 ctxVars>>

\* Faulty variant: no timer is set.
AddTimerForgotten(r) ==
  /\ pc[r] = "timer"
  /\ pc' = [pc EXCEPT ![r] = "push"]
  /\ UNCHANGED <<linkVars, semVars, ctxs, queue, readVars, sendVars, startVars,
                 innerVars, ctxVars>>

AddTimer(r) ==
  /\ pc[r] = "timer"
  /\ tmr' = [tmr EXCEPT ![r] = "set"]
  /\ pc' = [pc EXCEPT ![r] = "push"]
  /\ UNCHANGED <<linkVars, semVars, ctxs, queue, readVars, sendVars, startVars,
                 innerVars, sched, timed, result, wakes>>

\* enqueue: _sem is notified only by the sender that found the queue empty
Push(s) ==
  /\ pc[s] = "push"
  /\ queue' = Append(queue, s)
  /\ pc' = [pc EXCEPT ![s] = IF queue = <<>> THEN "notify" ELSE "pushed"]
  /\ UNCHANGED <<linkVars, semVars, ctxs, readVars, sendVars, startVars, innerVars,
                 ctxVars>>

\* _sem.notify()
NotifySem == sem' = IF sem < MaxSem THEN sem + 1 ELSE sem

\* Faulty variant: the first sender does not notify.
NotifyForgotten(s) ==
  /\ pc[s] \in {"notify", "pushed"}
  /\ pc' = [pc EXCEPT ![s] = IF s \in Reqs THEN "hold" ELSE "done"]
  /\ UNCHANGED <<linkVars, semVars, ctxs, queue, readVars, sendVars, startVars,
                 innerVars, ctxVars>>

Notify(s) ==
  /\ pc[s] \in {"notify", "pushed"}
  /\ IF pc[s] = "notify" THEN NotifySem ELSE UNCHANGED sem
  /\ pc' = [pc EXCEPT ![s] = IF s \in Reqs THEN "hold" ELSE "done"]
  /\ UNCHANGED <<linkVars, waitSem, ctxs, queue, readVars, sendVars, startVars,
                 innerVars, ctxVars>>

\* the fiber has been scheduled: request() returns ctx->result
Return(r) ==
  /\ pc[r] = "hold" /\ wakes[r] > 0
  /\ pc' = [pc EXCEPT ![r] = "done"]
  /\ UNCHANGED <<linkVars, semVars, ctxs, queue, readVars, sendVars, startVars,
                 innerVars, ctxVars>>

(***************************************************************************)
(* onTimeOut                                                               *)
(***************************************************************************)
Fire(r) ==
  /\ tmr[r] = "set"
  /\ tmr' = [tmr EXCEPT ![r] = "due"]
  /\ UNCHANGED <<linkVars, semVars, ctxs, queue, readVars, sendVars, startVars,
                 innerVars, pc, sched, timed, result, wakes>>

OnTimeOut(r) ==
  /\ tmr[r] = "due"
  /\ ctxs' = ctxs \ {r}
  /\ timed' = [timed EXCEPT ![r] = TRUE]
  /\ tmr' = [tmr EXCEPT ![r] = "rsp"]
  /\ UNCHANGED <<linkVars, semVars, queue, readVars, sendVars, startVars, innerVars,
                 pc, sched, result, wakes>>

TimeOutRsp(r) ==
  /\ tmr[r] = "rsp"
  /\ DoRsp(r, result)
  /\ tmr' = [tmr EXCEPT ![r] = "over"]
  /\ UNCHANGED <<linkVars, semVars, ctxs, queue, readVars, sendVars, startVars,
                 innerVars, pc, timed>>

(***************************************************************************)
(* innerClose, called by closer a                                          *)
(***************************************************************************)
\* Socket::close and _sem.notify()
CloseSocket(a) ==
  /\ conn' = FALSE
  /\ NotifySem
  /\ inner' = [inner EXCEPT ![a] = "swap"]

SwapCtxs(a) ==
  /\ inner[a] = "swap"
  /\ mine' = [mine EXCEPT ![a] = ctxs]
  /\ ctxs' = {}
  /\ inner' = [inner EXCEPT ![a] = "clear"]
  /\ UNCHANGED <<linkVars, semVars, queue, readVars, sendVars, startVars, pc, ctxVars>>

ClearQueue(a) ==
  /\ inner[a] = "clear"
  /\ queue' = <<>>
  /\ inner' = [inner EXCEPT ![a] = IF mine[a] = {} THEN "no" ELSE "fail"]
  /\ UNCHANGED <<linkVars, semVars, ctxs, readVars, sendVars, startVars, mine, pc,
                 ctxVars>>

\* result = IO_ERROR and doRsp for each of them
FailCtx(a, r) ==
  /\ inner[a] = "fail" /\ r \in mine[a]
  /\ DoRsp(r, [result EXCEPT ![r] = IO_ERROR])
  /\ CancelTimer(r)
  /\ mine' = [mine EXCEPT ![a] = @ \ {r}]
  /\ inner' = [inner EXCEPT ![a] = IF mine[a] = {r} THEN "no" ELSE "fail"]
  /\ UNCHANGED <<linkVars, semVars, ctxs, queue, readVars, sendVars, startVars, pc,
                 timed>>

(***************************************************************************)
(* doRead with RockStream::doRecv                                          *)
(***************************************************************************)
\* while(isConnected()); on the way out innerClose is called (again)
ReadLoop ==
  /\ rpc = "loop" /\ inner["reader"] = "no"
  /\ \/ /\ conn
        /\ rpc' = "recv"
        /\ UNCHANGED <<conn, sem, inner>>
     \/ /\ ~conn
        /\ rpc' = "exit"
        /\ CloseSocket("reader")
  /\ UNCHANGED <<auto, local, broken, breaks, net, waitSem, ctxs, queue, rctx, answered,
                 sendVars, startVars, mine, pc, ctxVars>>

\* getAndDelCtxAs: no Ctx means the request has timed out
RecvResponse(r) ==
  /\ rpc = "recv" /\ conn /\ r \in net
  /\ net' = net \ {r}
  /\ IF r \in ctxs
     THEN rpc' = "result" /\ rctx' = r /\ answered' = answered \cup {r}
     ELSE rpc' = "loop" /\ UNCHANGED <<rctx, answered>>
  /\ ctxs' = ctxs \ {r}
  /\ UNCHANGED <<conn, broken, auto, local, breaks, semVars, queue, sendVars, startVars,
                 innerVars, pc, ctxVars>>

\* ctx->result and ctx->response are written without a lock ...
SetResult ==
  /\ rpc = "result"
  /\ result' = [result EXCEPT ![rctx] = OK]
  /\ rpc' = "rsp"
  /\ UNCHANGED <<linkVars, semVars, ctxs, queue, rctx, answered, sendVars, startVars,
                 innerVars, pc, tmr, sched, timed, wakes>>

\* ... before doRsp
ReadRsp ==
  /\ rpc = "rsp"
  /\ DoRsp(rctx, result)
  /\ CancelTimer(rctx)
  /\ rpc' = "loop" /\ rctx' = NoReq
  /\ UNCHANGED <<linkVars, semVars, ctxs, queue, answered, sendVars, startVars,
                 innerVars, pc, timed>>

\* A request or a notification is handed to a fiber of the worker.
RecvMessage(m) ==
  /\ rpc = "recv" /\ conn /\ pc[m] = "idle"
  /\ pc' = [pc EXCEPT ![m] = "add"]
  /\ rpc' = "loop"
  /\ UNCHANGED <<linkVars, semVars, ctxs, queue, rctx, answered, sendVars, startVars,
                 innerVars, ctxVars>>

\* the connection fails; nobody has noticed yet
Break ==
  /\ conn /\ ~broken /\ breaks < MaxBreaks
  /\ broken' = TRUE
  /\ breaks' = breaks + 1
  /\ UNCHANGED <<conn, auto, local, net, semVars, ctxs, queue, readVars, sendVars,
                 startVars, innerVars, pc, ctxVars>>

\* parseFrom fails: the connection is at its end, or this was no message.
\* An error of recv is not noticed by readFixSize, the end that follows it is.
RecvFails ==
  /\ rpc = "recv" /\ conn /\ broken
  /\ CloseSocket("reader")
  /\ rpc' = "loop"
  /\ UNCHANGED <<auto, local, broken, breaks, net, waitSem, ctxs, queue, rctx, answered,
                 sendVars, startVars, mine, pc, ctxVars>>

\* The socket is closed under the reader.  read() returns -1, which readFixSize
\* keeps as a size_t: it is not <= 0 and the loop goes on for ever.
RecvStuck ==
  /\ rpc = "recv" /\ ~conn
  /\ rpc' = "stuck"
  /\ UNCHANGED <<linkVars, semVars, ctxs, queue, rctx, answered, sendVars, startVars,
                 innerVars, pc, ctxVars>>

\* Faulty variant: the reader keeps its token.
ReadLeaveSilent ==
  /\ rpc = "exit" /\ inner["reader"] = "no"
  /\ rpc' = "off"
  /\ soon' = (soon \/ auto)
  /\ UNCHANGED <<linkVars, semVars, ctxs, queue, rctx, answered, sendVars, spc, retry,
                 innerVars, pc, ctxVars>>

\* _waitSem.notify(), and a new start() in 10 ms
ReadLeave ==
  /\ rpc = "exit" /\ inner["reader"] = "no"
  /\ rpc' = "off"
  /\ waitSem' = waitSem + 1
  /\ soon' = (soon \/ auto)
  /\ UNCHANGED <<linkVars, sem, ctxs, queue, rctx, answered, sendVars, spc, retry,
                 innerVars, pc, ctxVars>>

(***************************************************************************)
(* handleRequest and handleNotify                                          *)
(***************************************************************************)
\* the response is queued when the stream is still connected
Handle(m) ==
  /\ pc[m] = "add"
  /\ \/ conn /\ pc' = [pc EXCEPT ![m] = "push"]
     \/ pc' = [pc EXCEPT ![m] = "done"]
  /\ UNCHANGED <<linkVars, semVars, ctxs, queue, readVars, sendVars, startVars,
                 innerVars, ctxVars>>

(***************************************************************************)
(* doWrite                                                                 *)
(***************************************************************************)
WriteLoop ==
  /\ wpc = "loop"
  /\ wpc' = IF conn THEN "wait" ELSE "clear"
  /\ UNCHANGED <<linkVars, semVars, ctxs, queue, readVars, batch, startVars,
                 innerVars, pc, ctxVars>>

WriteWait ==
  /\ wpc = "wait" /\ sem > 0
  /\ sem' = sem - 1
  /\ wpc' = "swap"
  /\ UNCHANGED <<linkVars, waitSem, ctxs, queue, readVars, batch, startVars,
                 innerVars, pc, ctxVars>>

WriteSwap ==
  /\ wpc = "swap"
  /\ batch' = queue /\ queue' = <<>>
  /\ wpc' = "send"
  /\ UNCHANGED <<linkVars, semVars, ctxs, readVars, startVars, innerVars, pc, ctxVars>>

\* doSend of each of them: what is sent on a broken connection is lost
Send ==
  /\ wpc = "send"
  /\ \/ /\ batch = <<>>
        /\ wpc' = "loop"
        /\ UNCHANGED <<net, batch>>
     \/ /\ batch # <<>> /\ conn
        /\ net' = IF broken THEN net ELSE net \cup ({Head(batch)} \cap Reqs)
        /\ batch' = Tail(batch)
        /\ UNCHANGED wpc
  /\ UNCHANGED <<conn, broken, auto, local, breaks, semVars, ctxs, queue, readVars,
                 startVars, innerVars, pc, ctxVars>>

\* write() returns -1, and writeFixSize goes on for ever like readFixSize
SendStuck ==
  /\ wpc = "send" /\ batch # <<>> /\ (broken \/ ~conn)
  /\ wpc' = "stuck"
  /\ UNCHANGED <<linkVars, semVars, ctxs, queue, readVars, batch, startVars, innerVars,
                 pc, ctxVars>>

WriteLeave ==
  /\ wpc = "clear"
  /\ queue' = <<>>
  /\ waitSem' = waitSem + 1
  /\ wpc' = "off"
  /\ UNCHANGED <<linkVars, sem, ctxs, readVars, batch, startVars, innerVars, pc,
                 ctxVars>>

(***************************************************************************)
(* start and close                                                         *)
(***************************************************************************)
StartAgain ==
  /\ spc = "off" /\ (soon \/ retry)
  /\ \/ soon /\ soon' = FALSE /\ UNCHANGED retry
     \/ retry /\ retry' = FALSE /\ UNCHANGED soon
  /\ spc' = "wait1"
  /\ UNCHANGED <<linkVars, semVars, ctxs, queue, readVars, sendVars, innerVars, pc,
                 ctxVars>>

\* Faulty variant: start() waits for one of the two fibers only.
WaitFiberOne ==
  /\ spc = "wait1" /\ waitSem > 0
  /\ waitSem' = waitSem - 1
  /\ spc' = "connect" /\ retry' = FALSE
  /\ UNCHANGED <<linkVars, sem, ctxs, queue, readVars, sendVars, soon, innerVars, pc,
                 ctxVars>>

\* two tokens of _waitSem, then _timer is cancelled
WaitFiber ==
  /\ spc \in {"wait1", "wait2"} /\ waitSem > 0
  /\ waitSem' = waitSem - 1
  /\ \/ spc = "wait1" /\ spc' = "wait2" /\ UNCHANGED retry
     \/ spc = "wait2" /\ spc' = "connect" /\ retry' = FALSE
  /\ UNCHANGED <<linkVars, sem, ctxs, queue, readVars, sendVars, soon, innerVars, pc,
                 ctxVars>>

\* A stream that is not connected calls Socket::reconnect(), which needs the
\* local address and dials that: who answers there, if anybody, is left open.
\* It may fail any number of times, and so may connectCB.
Reconnect ==
  /\ spc = "connect" /\ inner["starter"] = "no"
  /\ \/ /\ conn \/ local
        /\ spc' = "spawn"
        /\ conn' = TRUE
        /\ IF conn THEN UNCHANGED <<broken, net>> ELSE broken' = FALSE /\ net' = {}
        /\ UNCHANGED <<sem, inner>>
     \/ /\ CloseSocket("starter")
        /\ spc' = "failed"
        /\ UNCHANGED <<broken, net>>
  /\ UNCHANGED <<auto, local, breaks, waitSem, ctxs, queue, readVars, sendVars, soon, retry,
                 mine, pc, ctxVars>>

StartFailed ==
  /\ spc = "failed" /\ inner["starter"] = "no"
  /\ waitSem' = waitSem + 2
  /\ retry' = auto
  /\ spc' = "off"
  /\ UNCHANGED <<linkVars, sem, ctxs, queue, readVars, sendVars, soon, innerVars, pc,
                 ctxVars>>

\* startRead and startWrite
Spawn ==
  /\ spc = "spawn"
  /\ rpc' = "loop" /\ wpc' = "loop" /\ spc' = "off"
  /\ UNCHANGED <<linkVars, semVars, ctxs, queue, rctx, answered, batch, soon, retry,
                 innerVars, pc, ctxVars>>

\* close() by the user, or by a handler that returned false
Close ==
  /\ Closes /\ (auto \/ conn)
  /\ auto' = FALSE /\ retry' = FALSE /\ conn' = FALSE
  /\ UNCHANGED <<broken, local, breaks, net, semVars, ctxs, queue, readVars, sendVars, spc,
                 soon, innerVars, pc, ctxVars>>

Callers ==
  \E r \in Reqs : \/ Request(r) \/ AddCtx(r) \/ AddTimer(r) \/ Return(r)
                  \/ Fire(r) \/ OnTimeOut(r) \/ TimeOutRsp(r)
Queueing == (\E s \in Senders : Push(s) \/ Notify(s)) \/ \E m \in Msgs : Handle(m)
InnerClose ==
  \E a \in Closers : SwapCtxs(a) \/ ClearQueue(a) \/ \E r \in Reqs : FailCtx(a, r)
Reader ==
  \/ ReadLoop \/ SetResult \/ ReadRsp \/ RecvFails \/ RecvStuck \/ ReadLeave
  \/ (\E r \in Reqs : RecvResponse(r)) \/ \E m \in Msgs : RecvMessage(m)
Writer == WriteLoop \/ WriteWait \/ WriteSwap \/ Send \/ SendStuck \/ WriteLeave
Starter == StartAgain \/ WaitFiber \/ Reconnect \/ StartFailed \/ Spawn

\* A quiet connection waits for requests, a closed one is at rest; whether a
\* fiber that holds is ever brought back is the subject of RequestReturns.
Rest == (\A r \in Reqs : pc[r] \in {"hold", "done"}) /\ UNCHANGED vars

Next ==
  Callers \/ Queueing \/ InnerClose \/ Break \/ Reader \/ Writer \/ Starter \/ Close \/ Rest

Spec == Init /\ [][Next]_vars

\* The scheduler runs every fiber that is not waiting and every timer that is
\* due (one that is stuck keeps its worker thread: others must be left); the
\* end of a connection is noticed.  The peer need not answer.
FairSpec ==
  /\ Spec
  /\ \A r \in Reqs : WF_vars(AddCtx(r) \/ AddTimer(r) \/ Return(r))
  /\ \A r \in Reqs : WF_vars(Fire(r) \/ OnTimeOut(r) \/ TimeOutRsp(r))
  /\ \A s \in Senders : WF_vars(Push(s) \/ Notify(s))
  /\ WF_vars(InnerClose)
  /\ WF_vars(ReadLoop \/ SetResult \/ ReadRsp \/ ReadLeave)
  /\ WF_vars(RecvFails \/ RecvStuck)
  /\ WF_vars(Writer) /\ WF_vars(Starter)

(***************************************************************************)
(* Properties                                                              *)
(***************************************************************************)
\* Response, timeout and close race for a Ctx; the fiber that made the
\* request is scheduled at most once (AsyncSocketStream.cpp 36-52), and it
\* returns OK only when its response has been received (RockStream.cpp 97-120).
AnsweredOnce ==
  \A r \in Reqs :
    /\ wakes[r] <= 1 /\ (wakes[r] = 1 <=> ~sched[r])
    /\ pc[r] = "done" /\ result[r] = OK => r \in answered

\* A connection gets its reader and writer only when those of the connection
\* before are gone (waitFiber), and only one start() is ever pending.
OneReaderOneWriter ==
  /\ spc = "spawn" => rpc = "off" /\ wpc = "off"
  /\ rpc # "off" => spc = "off" /\ ~soon /\ ~retry
  /\ ~(soon /\ retry)

\* enqueue() notifies only when the queue was empty, and the queue is also
\* emptied by innerClose and doWrite: a message is still never left in the
\* queue without a notification, unless the writer is just about to take it
\* or to throw it away.
NoLostSend ==
  queue # <<>> => \/ sem > 0 \/ wpc \in {"swap", "clear"}
                  \/ \E s \in Senders : pc[s] = "notify"

\* request() returns whatever becomes of the connection.
RequestReturns == \A r \in Reqs : (pc[r] # "idle") ~> (pc[r] = "done")

\* A stream that is not connected and not closed dials again and again, unless
\* its writer is caught in writeFixSize: doRead and a failed start() set a
\* timer, and start() finds both tokens of _waitSem.  That somebody answers
\* cannot be said: reconnect() dials the stream's own local address.
KeepsDialling == []<>(conn \/ ~auto \/ wpc = "stuck" \/ spc = "connect")
=============================================================================
