--------------------------- MODULE RockStreamProofs ---------------------------
(***************************************************************************)
(* Proofs about an RPC connection, for any set of requests and messages,   *)
(* any number of failures, with and without reconnection and close().      *)
(*                                                                         *)
(* The reader and the writer are kept apart from those of the next         *)
(* connection by the two tokens of _waitSem alone, so the invariant counts *)
(* the tokens (Tokens).  The answer of a request is settled by whoever     *)
(* takes ctx->scheduler, but ctx->result is written outside of that        *)
(* exchange by the reader: Answers says for whom an OK can be left there.  *)
(* NoLostSend rests on Tokens: a writer that is about to look at the queue *)
(* must not be replaced by a new one.                                      *)
(***************************************************************************)
EXTENDS RockStream, SequenceTheorems, TLAPS

Held(b) == IF b THEN 1 ELSE 0

\* The tokens start() has taken and not passed on to a reader and a writer.
Taken ==
  CASE spc \in {"off", "wait1"} -> 0
    [] spc = "wait2" -> 1
    [] OTHER -> 2

\* Each token of _waitSem is in the semaphore, with start(), or with a reader
\* or writer that has not given it back; start() runs once at a time.
Tokens ==
  /\ waitSem + Taken + Held(rpc # "off") + Held(wpc # "off") = 2
  /\ spc # "off" => ~soon /\ ~retry
  /\ rpc # "off" => spc = "off" /\ ~soon /\ ~retry
  /\ ~(soon /\ retry)

\* ctx->scheduler is taken once.  Whoever finds OK in ctx->result after that
\* finds it because the response has come.
Answers ==
  /\ rpc \in {"result", "rsp"} => rctx \in Reqs /\ rctx \in answered
  /\ \A r \in Reqs :
       /\ wakes[r] \in {0, 1} /\ (wakes[r] = 1 <=> ~sched[r])
       /\ tmr[r] = "rsp" => timed[r]
       /\ ~sched[r] \/ pc[r] = "done" => result[r] # OK \/ r \in answered

RockInv == TypeOK /\ Tokens /\ Answers /\ NoLostSend

-----------------------------------------------------------------------------
(***************************************************************************)
(* Types                                                                   *)
(***************************************************************************)
LEMMA DoRspTypes ==
  ASSUME TypeOK, NEW r \in Reqs, NEW res \in [Reqs -> {OK, TIMEOUT, IO_ERROR, NOT_CONNECT}],
         DoRsp(r, res)
  PROVE  /\ sched' \in [Reqs -> BOOLEAN] /\ wakes' \in [Reqs -> Nat]
         /\ result' \in [Reqs -> {OK, TIMEOUT, IO_ERROR, NOT_CONNECT}]
<1>1. /\ sched \in [Reqs -> BOOLEAN] /\ timed \in [Reqs -> BOOLEAN] /\ wakes \in [Reqs -> Nat]
      /\ sched' = [sched EXCEPT ![r] = FALSE]
  BY DEF TypeOK, DoRsp
<1>2. CASE sched[r]
  <2>1. /\ wakes' = [wakes EXCEPT ![r] = @ + 1]
        /\ result' = [res EXCEPT ![r] = IF timed[r] THEN TIMEOUT ELSE @]
    BY <1>2 DEF DoRsp
  <2>2. wakes' \in [Reqs -> Nat]
    BY <1>1, <2>1
  <2>3. QED BY <1>1, <2>1, <2>2
<1>3. CASE ~sched[r]
  BY <1>1, <1>3 DEF DoRsp
<1>4. QED BY <1>2, <1>3

\* _sem.notify() leaves a notification.
LEMMA Notified ==
  ASSUME TypeOK, NotifySem
  PROVE  sem' \in 0..MaxSem /\ sem' > 0
<1>1. sem \in 0..MaxSem /\ MaxSem \in Nat /\ MaxSem > 0
  BY RockAssumption DEF TypeOK
<1>2. QED BY <1>1 DEF NotifySem

LEMMA CallersTypes ==
  ASSUME TypeOK, Callers
  PROVE  TypeOK'
<1>1. ASSUME NEW r \in Reqs, Request(r) \/ AddCtx(r) \/ AddTimer(r) \/ Return(r) \/ Fire(r) \/ OnTimeOut(r)
      PROVE  TypeOK'
  <2>1. /\ ctxs' \subseteq Reqs
        /\ pc' \in [Senders -> {"idle", "add", "timer", "push", "pushed", "notify", "hold", "done"}]
        /\ tmr' \in [Reqs -> {"none", "set", "due", "rsp", "over"}]
        /\ timed' \in [Reqs -> BOOLEAN]
        /\ result' \in [Reqs -> {OK, TIMEOUT, IO_ERROR, NOT_CONNECT}]
    <3>1. CASE Request(r)
      BY <3>1 DEF TypeOK, Request
    <3>2. CASE AddCtx(r) \/ Return(r)
      BY <3>2 DEF TypeOK, AddCtx, Return, ctxVars
    <3>3. CASE AddTimer(r) \/ Fire(r)
      BY <3>3 DEF TypeOK, AddTimer, Fire
    <3>4. CASE OnTimeOut(r)
      BY <3>4 DEF TypeOK, OnTimeOut
    <3>5. QED BY <1>1, <3>1, <3>2, <3>3, <3>4
  <2>2. UNCHANGED <<linkVars, semVars, queue, readVars, sendVars, startVars, innerVars, sched, wakes>>
    BY <1>1 DEF Request, AddCtx, AddTimer, Return, Fire, OnTimeOut, ctxVars
  <2>3. QED
    BY <2>1, <2>2 DEF TypeOK, linkVars, semVars, readVars, sendVars, startVars, innerVars
<1>2. ASSUME NEW r \in Reqs, TimeOutRsp(r)
      PROVE  TypeOK'
  <2>1. /\ sched' \in [Reqs -> BOOLEAN] /\ wakes' \in [Reqs -> Nat]
        /\ result' \in [Reqs -> {OK, TIMEOUT, IO_ERROR, NOT_CONNECT}]
    <3>1. result \in [Reqs -> {OK, TIMEOUT, IO_ERROR, NOT_CONNECT}] /\ DoRsp(r, result)
      BY <1>2 DEF TypeOK, TimeOutRsp
    <3>2. QED BY <3>1, DoRspTypes
  <2>2. tmr' \in [Reqs -> {"none", "set", "due", "rsp", "over"}]
    BY <1>2 DEF TypeOK, TimeOutRsp
  <2>3. QED
    BY <1>2, <2>1, <2>2 DEF TimeOutRsp, TypeOK, linkVars, semVars, readVars, sendVars, startVars, innerVars
<1>3. QED BY <1>1, <1>2 DEF Callers

LEMMA QueueingTypes ==
  ASSUME TypeOK, Queueing
  PROVE  TypeOK'
<1>1. /\ pc' \in [Senders -> {"idle", "add", "timer", "push", "pushed", "notify", "hold", "done"}]
      /\ queue' \in Seq(Senders) /\ sem' \in 0..MaxSem
  <2>1. ASSUME NEW s \in Senders, Push(s)
        PROVE  /\ pc' \in [Senders -> {"idle", "add", "timer", "push", "pushed", "notify", "hold", "done"}]
               /\ queue' \in Seq(Senders) /\ sem' = sem
    BY <2>1 DEF Push, TypeOK, semVars
  <2>2. ASSUME NEW s \in Senders, Notify(s)
        PROVE  /\ pc' \in [Senders -> {"idle", "add", "timer", "push", "pushed", "notify", "hold", "done"}]
               /\ queue' = queue /\ sem' \in 0..MaxSem
    <3>1. /\ pc' \in [Senders -> {"idle", "add", "timer", "push", "pushed", "notify", "hold", "done"}]
          /\ queue' = queue /\ (NotifySem \/ UNCHANGED sem)
      BY <2>2 DEF Notify, TypeOK
    <3>2. QED BY <3>1, Notified DEF TypeOK
  <2>3. ASSUME NEW m \in Msgs, Handle(m)
        PROVE  /\ pc' \in [Senders -> {"idle", "add", "timer", "push", "pushed", "notify", "hold", "done"}]
               /\ queue' = queue /\ sem' = sem
    BY <2>3 DEF Handle, TypeOK, semVars
  <2>4. QED BY <2>1, <2>2, <2>3 DEF Queueing, TypeOK
<1>2. UNCHANGED <<linkVars, waitSem, ctxs, readVars, sendVars, startVars, innerVars, ctxVars>>
  BY DEF Queueing, Push, Notify, Handle, semVars
<1>3. QED
  BY <1>1, <1>2 DEF TypeOK, linkVars, readVars, sendVars, startVars, innerVars, ctxVars

LEMMA InnerCloseTypes ==
  ASSUME TypeOK, InnerClose
  PROVE  TypeOK'
<1>1. ASSUME NEW a \in Closers, SwapCtxs(a) \/ ClearQueue(a)
      PROVE  TypeOK'
  <2>1. /\ inner' \in [Closers -> {"no", "swap", "clear", "fail"}]
        /\ mine' \in [Closers -> SUBSET Reqs] /\ ctxs' \subseteq Reqs /\ queue' \in Seq(Senders)
    <3>1. CASE SwapCtxs(a)
      BY <3>1 DEF SwapCtxs, TypeOK
    <3>2. CASE ClearQueue(a)
      <4>1. inner' = [inner EXCEPT ![a] = IF mine[a] = {} THEN "no" ELSE "fail"] /\ queue' = <<>>
        BY <3>2 DEF ClearQueue
      <4>2. queue' \in Seq(Senders)
        BY <4>1
      <4>3. QED BY <3>2, <4>1, <4>2 DEF ClearQueue, TypeOK
    <3>3. QED BY <1>1, <3>1, <3>2
  <2>2. UNCHANGED <<linkVars, semVars, readVars, sendVars, startVars, pc, ctxVars>>
    BY <1>1 DEF SwapCtxs, ClearQueue
  <2>3. QED
    BY <2>1, <2>2 DEF TypeOK, linkVars, semVars, readVars, sendVars, startVars, ctxVars
<1>2. ASSUME NEW a \in Closers, NEW r \in Reqs, FailCtx(a, r)
      PROVE  TypeOK'
  <2>1. /\ sched' \in [Reqs -> BOOLEAN] /\ wakes' \in [Reqs -> Nat]
        /\ result' \in [Reqs -> {OK, TIMEOUT, IO_ERROR, NOT_CONNECT}]
    <3>1. [result EXCEPT ![r] = IO_ERROR] \in [Reqs -> {OK, TIMEOUT, IO_ERROR, NOT_CONNECT}]
      BY DEF TypeOK
    <3>2. DoRsp(r, [result EXCEPT ![r] = IO_ERROR])
      BY <1>2 DEF FailCtx
    <3>3. QED BY <3>1, <3>2, DoRspTypes
  <2>2. tmr' \in [Reqs -> {"none", "set", "due", "rsp", "over"}]
    BY <1>2 DEF FailCtx, CancelTimer, TypeOK
  <2>3. /\ inner' \in [Closers -> {"no", "swap", "clear", "fail"}]
        /\ mine' \in [Closers -> SUBSET Reqs]
    BY <1>2 DEF FailCtx, TypeOK
  <2>4. UNCHANGED <<linkVars, semVars, ctxs, queue, readVars, sendVars, startVars, pc, timed>>
    BY <1>2 DEF FailCtx
  <2>5. QED
    BY <2>1, <2>2, <2>3, <2>4 DEF TypeOK, linkVars, semVars, readVars, sendVars, startVars
<1>3. QED BY <1>1, <1>2 DEF InnerClose

(***************************************************************************)
(* Tokens                                                                  *)
(***************************************************************************)
LEMMA TokensFrame ==
  ASSUME Tokens, UNCHANGED <<waitSem, spc, soon>>, retry' => retry,
         rpc' = "off" <=> rpc = "off", wpc' = "off" <=> wpc = "off"
  PROVE  Tokens'
BY DEF Tokens, Taken, Held

LEMMA ReaderTokens ==
  ASSUME TypeOK, Tokens, Reader
  PROVE  Tokens'
<1>1. CASE ReadLeave
  <2>1. /\ rpc # "off" /\ rpc' = "off" /\ waitSem' = waitSem + 1 /\ (soon' => soon \/ auto)
        /\ UNCHANGED <<wpc, spc, retry>>
    BY <1>1 DEF ReadLeave, sendVars
  <2>2. Taken' = Taken /\ Held(rpc # "off") = 1 /\ Held(rpc' # "off") = 0
        /\ Held(wpc # "off") \in {0, 1} /\ Taken \in {0, 1, 2} /\ waitSem \in 0..2
    BY <2>1 DEF Taken, Held, TypeOK
  <2>3. waitSem' + Taken' + Held(rpc' # "off") + Held(wpc' # "off") = 2
    BY <2>1, <2>2 DEF Tokens
  <2>4. QED BY <2>1, <2>3 DEF Tokens, Taken, Held
<1>2. CASE \/ ReadLoop \/ SetResult \/ ReadRsp \/ RecvFails \/ RecvStuck
           \/ (\E r \in Reqs : RecvResponse(r)) \/ \E m \in Msgs : RecvMessage(m)
  <2>1. rpc # "off" /\ rpc' # "off"
    BY <1>2 DEF ReadLoop, SetResult, ReadRsp, RecvFails, RecvStuck, RecvResponse, RecvMessage
  <2>2. UNCHANGED <<waitSem, spc, soon, retry, wpc>>
    BY <1>2 DEF ReadLoop, SetResult, ReadRsp, RecvFails, RecvStuck, RecvResponse, RecvMessage,
                semVars, startVars, sendVars
  <2>3. QED BY <2>1, <2>2, TokensFrame
<1>3. QED BY <1>1, <1>2 DEF Reader

LEMMA WriterTokens ==
  ASSUME TypeOK, Tokens, Writer
  PROVE  Tokens'
<1>1. CASE WriteLeave
  <2>1. /\ wpc # "off" /\ wpc' = "off" /\ waitSem' = waitSem + 1
        /\ UNCHANGED <<rpc, spc, soon, retry>>
    BY <1>1 DEF WriteLeave, readVars, startVars
  <2>2. Taken' = Taken /\ Held(wpc # "off") = 1 /\ Held(wpc' # "off") = 0
        /\ Held(rpc # "off") \in {0, 1} /\ Taken \in {0, 1, 2} /\ waitSem \in 0..2
    BY <2>1 DEF Taken, Held, TypeOK
  <2>3. waitSem' + Taken' + Held(rpc' # "off") + Held(wpc' # "off") = 2
    BY <2>1, <2>2 DEF Tokens
  <2>4. QED BY <2>1, <2>3 DEF Tokens, Taken, Held
<1>2. CASE WriteLoop \/ WriteWait \/ WriteSwap \/ Send \/ SendStuck
  <2>1. wpc # "off" /\ wpc' # "off"
    BY <1>2 DEF WriteLoop, WriteWait, WriteSwap, Send, SendStuck
  <2>2. UNCHANGED <<waitSem, spc, soon, retry, rpc>>
    BY <1>2 DEF WriteLoop, WriteWait, WriteSwap, Send, SendStuck, semVars, startVars, readVars
  <2>3. QED BY <2>1, <2>2, TokensFrame
<1>3. QED BY <1>1, <1>2 DEF Writer

LEMMA StarterTokens ==
  ASSUME TypeOK, Tokens, Starter
  PROVE  Tokens'
<1>1. Held(rpc # "off") \in {0, 1} /\ Held(wpc # "off") \in {0, 1} /\ waitSem \in 0..2
  BY DEF Held, TypeOK
<1>2. CASE StartAgain
  <2>1. /\ spc = "off" /\ spc' = "wait1" /\ UNCHANGED <<rpc, wpc, waitSem>>
        /\ (soon \/ retry) /\ ~soon' /\ ~retry'
    BY <1>2 DEF StartAgain, Tokens, readVars, sendVars, semVars
  <2>2. Taken' = 0 /\ Taken = 0
    BY <2>1 DEF Taken
  <2>3. QED BY <2>1, <2>2 DEF Tokens
<1>3. CASE WaitFiber
  <2>1. /\ UNCHANGED <<rpc, wpc, soon>> /\ waitSem' = waitSem - 1 /\ (retry' => retry)
        /\ spc # "off" /\ spc' # "off" /\ Taken \in {0, 1} /\ Taken' = Taken + 1
    BY <1>3 DEF WaitFiber, Taken, readVars, sendVars
  <2>2. QED BY <1>1, <2>1 DEF Tokens
<1>4. CASE Reconnect
  <2>1. UNCHANGED <<rpc, wpc, soon, retry, waitSem>> /\ spc # "off" /\ spc' # "off" /\ Taken' = Taken
    BY <1>4 DEF Reconnect, Taken, readVars, sendVars
  <2>2. QED BY <2>1 DEF Tokens
<1>5. CASE StartFailed
  <2>1. /\ UNCHANGED <<rpc, wpc, soon>> /\ waitSem' = waitSem + 2 /\ spc # "off" /\ spc' = "off"
        /\ Taken = 2 /\ Taken' = 0
    BY <1>5 DEF StartFailed, Taken, readVars, sendVars
  <2>2. rpc = "off" /\ ~soon
    BY <2>1 DEF Tokens
  <2>3. QED BY <1>1, <2>1, <2>2 DEF Tokens
<1>6. CASE Spawn
  <2>1. /\ UNCHANGED <<soon, retry, waitSem>> /\ spc = "spawn" /\ spc' = "off"
        /\ rpc' = "loop" /\ wpc' = "loop" /\ Taken = 2 /\ Taken' = 0
    BY <1>6 DEF Spawn, Taken, semVars
  <2>2. waitSem = 0 /\ ~soon /\ ~retry
    BY <1>1, <2>1 DEF Tokens
  <2>3. Held(rpc' # "off") = 1 /\ Held(wpc' # "off") = 1
    BY <2>1 DEF Held
  <2>4. QED BY <2>1, <2>2, <2>3 DEF Tokens
<1>7. QED BY <1>2, <1>3, <1>4, <1>5, <1>6 DEF Starter

LEMMA OtherTokens ==
  ASSUME Tokens, Callers \/ Queueing \/ InnerClose \/ Break \/ Close \/ Rest
  PROVE  Tokens'
<1>1. UNCHANGED <<waitSem, spc, soon, rpc, wpc>> /\ (retry' => retry)
  <2>1. CASE Callers
    BY <2>1 DEF Callers, Request, AddCtx, AddTimer, Return, Fire, OnTimeOut, TimeOutRsp,
                semVars, startVars, readVars, sendVars
  <2>2. CASE Queueing
    BY <2>2 DEF Queueing, Push, Notify, Handle, semVars, startVars, readVars, sendVars
  <2>3. CASE InnerClose
    <3>1. UNCHANGED <<semVars, startVars, readVars, sendVars>>
      <4>1. ASSUME NEW a \in Closers, SwapCtxs(a) \/ ClearQueue(a)
            PROVE  UNCHANGED <<semVars, startVars, readVars, sendVars>>
        BY <4>1 DEF SwapCtxs, ClearQueue
      <4>2. ASSUME NEW a \in Closers, NEW r \in Reqs, FailCtx(a, r)
            PROVE  UNCHANGED <<semVars, startVars, readVars, sendVars>>
        BY <4>2 DEF FailCtx
      <4>3. QED BY <2>3, <4>1, <4>2 DEF InnerClose
    <3>2. QED BY <3>1 DEF semVars, startVars, readVars, sendVars
  <2>4. CASE Break \/ Close
    BY <2>4 DEF Break, Close, semVars, startVars, readVars, sendVars
  <2>5. CASE Rest
    BY <2>5 DEF Rest, vars, semVars, startVars, readVars, sendVars
  <2>6. QED BY <2>1, <2>2, <2>3, <2>4, <2>5
<1>2. QED BY <1>1, TokensFrame

LEMMA NextTokens ==
  ASSUME TypeOK, Tokens, Next
  PROVE  Tokens'
BY ReaderTokens, WriterTokens, StarterTokens, OtherTokens DEF Next

(***************************************************************************)
(* Types of the fibers of the connection                                   *)
(***************************************************************************)
LEMMA TokensBound ==
  ASSUME Tokens', waitSem' \in Nat
  PROVE  waitSem' \in 0..2
<1>1. Held(rpc' # "off") \in {0, 1} /\ Held(wpc' # "off") \in {0, 1} /\ Taken' \in {0, 1, 2}
  BY DEF Held, Taken
<1>2. QED BY <1>1 DEF Tokens

LEMMA ClosingTypes ==
  ASSUME TypeOK, NEW a \in Closers, CloseSocket(a)
  PROVE  conn' \in BOOLEAN /\ sem' \in 0..MaxSem /\ inner' \in [Closers -> {"no", "swap", "clear", "fail"}]
<1>1. conn' \in BOOLEAN /\ sem' \in 0..MaxSem
  <2>1. NotifySem /\ conn' = FALSE
    BY DEF CloseSocket
  <2>2. sem' \in 0..MaxSem
    BY <2>1, Notified
  <2>3. conn' \in BOOLEAN
    BY <2>1
  <2>4. QED BY <2>2, <2>3
<1>2. inner \in [Closers -> {"no", "swap", "clear", "fail"}] /\ inner' = [inner EXCEPT ![a] = "swap"]
  BY DEF CloseSocket, TypeOK
<1>3. QED BY <1>1, <1>2

LEMMA ReaderTypes ==
  ASSUME TypeOK, Tokens, Answers, Reader
  PROVE  TypeOK'
<1>1. CASE ReadLoop \/ RecvFails
  <2>1. /\ conn' \in BOOLEAN /\ sem' \in 0..MaxSem
        /\ rpc' \in {"off", "loop", "recv", "result", "rsp", "exit", "stuck"}
        /\ inner' \in [Closers -> {"no", "swap", "clear", "fail"}]
    <3>1. CASE CloseSocket("reader") /\ rpc' \in {"loop", "exit"}
      BY <3>1, ClosingTypes DEF Closers
    <3>2. CASE rpc' = "recv" /\ UNCHANGED <<conn, sem, inner>>
      BY <3>2 DEF TypeOK
    <3>3. QED BY <1>1, <3>1, <3>2 DEF ReadLoop, RecvFails
  <2>2. UNCHANGED <<broken, auto, local, breaks, net, waitSem, ctxs, queue, rctx, answered, sendVars,
                    startVars, mine, pc, ctxVars>>
    BY <1>1 DEF ReadLoop, RecvFails
  <2>3. QED BY <2>1, <2>2 DEF TypeOK, sendVars, startVars, ctxVars
<1>2. ASSUME NEW r \in Reqs, RecvResponse(r) PROVE TypeOK'
  <2>1. /\ net' \subseteq Reqs /\ ctxs' \subseteq Reqs /\ answered' \subseteq Reqs
        /\ rpc' \in {"off", "loop", "recv", "result", "rsp", "exit", "stuck"}
        /\ rctx' \in Reqs \cup {NoReq}
    BY <1>2 DEF RecvResponse, TypeOK
  <2>2. UNCHANGED <<conn, broken, auto, local, breaks, semVars, queue, sendVars, startVars, innerVars,
                    pc, ctxVars>>
    BY <1>2 DEF RecvResponse
  <2>3. QED BY <2>1, <2>2 DEF TypeOK, semVars, sendVars, startVars, innerVars, ctxVars
<1>3. CASE SetResult
  <2>1. result' \in [Reqs -> {OK, TIMEOUT, IO_ERROR, NOT_CONNECT}] /\ rpc' = "rsp"
    BY <1>3 DEF SetResult, TypeOK
  <2>2. UNCHANGED <<linkVars, semVars, ctxs, queue, rctx, answered, sendVars, startVars,
                    innerVars, pc, tmr, sched, timed, wakes>>
    BY <1>3 DEF SetResult
  <2>3. QED BY <2>1, <2>2 DEF TypeOK, linkVars, semVars, sendVars, startVars, innerVars
<1>4. CASE ReadRsp
  <2>1. PICK r \in Reqs : r = rctx
    BY <1>4 DEF ReadRsp, Answers
  <2>2. /\ sched' \in [Reqs -> BOOLEAN] /\ wakes' \in [Reqs -> Nat]
        /\ result' \in [Reqs -> {OK, TIMEOUT, IO_ERROR, NOT_CONNECT}]
    <3>1. result \in [Reqs -> {OK, TIMEOUT, IO_ERROR, NOT_CONNECT}] /\ DoRsp(r, result)
      BY <1>4, <2>1 DEF TypeOK, ReadRsp
    <3>2. QED BY <3>1, DoRspTypes
  <2>3. tmr' \in [Reqs -> {"none", "set", "due", "rsp", "over"}]
    BY <1>4, <2>1 DEF ReadRsp, CancelTimer, TypeOK
  <2>4. UNCHANGED <<linkVars, semVars, ctxs, queue, answered, sendVars, startVars, innerVars,
                    pc, timed>> /\ rpc' = "loop" /\ rctx' = NoReq
    BY <1>4 DEF ReadRsp
  <2>5. QED BY <2>2, <2>3, <2>4 DEF TypeOK, linkVars, semVars, sendVars, startVars, innerVars
<1>5. ASSUME NEW m \in Msgs, RecvMessage(m) PROVE TypeOK'
  <2>1. /\ pc' \in [Senders -> {"idle", "add", "timer", "push", "pushed", "notify", "hold", "done"}]
        /\ rpc' = "loop"
    BY <1>5 DEF RecvMessage, TypeOK
  <2>2. UNCHANGED <<linkVars, semVars, ctxs, queue, rctx, answered, sendVars, startVars,
                    innerVars, ctxVars>>
    BY <1>5 DEF RecvMessage
  <2>3. QED BY <2>1, <2>2 DEF TypeOK, linkVars, semVars, sendVars, startVars, innerVars, ctxVars
<1>6. CASE RecvStuck \/ ReadLeave
  <2>1. /\ rpc' \in {"stuck", "off"} /\ soon' \in BOOLEAN /\ waitSem' \in Nat
        /\ UNCHANGED <<linkVars, sem, ctxs, queue, rctx, answered, sendVars, spc, retry,
                       innerVars, pc, ctxVars>>
    <3>1. CASE RecvStuck
      BY <3>1 DEF RecvStuck, TypeOK, startVars, semVars
    <3>2. CASE ReadLeave
      BY <3>2 DEF ReadLeave, TypeOK
    <3>3. QED BY <1>6, <3>1, <3>2
  <2>2. waitSem' \in 0..2
    <3>1. Tokens'
      BY ReaderTokens
    <3>2. QED BY <2>1, <3>1, TokensBound
  <2>3. QED BY <2>1, <2>2 DEF TypeOK, linkVars, sendVars, innerVars, ctxVars
<1>7. QED BY <1>1, <1>2, <1>3, <1>4, <1>5, <1>6 DEF Reader

LEMMA WriterTypes ==
  ASSUME TypeOK, Tokens, Writer
  PROVE  TypeOK'
<1>1. queue \in Seq(Senders) /\ batch \in Seq(Senders) /\ waitSem \in Nat /\ sem \in Nat
      /\ wpc \in {"off", "loop", "wait", "swap", "send", "clear", "stuck"} /\ net \subseteq Reqs
  BY DEF TypeOK
<1>2. wpc' \in {"off", "loop", "wait", "swap", "send", "clear", "stuck"}
  BY <1>1 DEF Writer, WriteLoop, WriteWait, WriteSwap, Send, SendStuck, WriteLeave
<1>3. queue' \in Seq(Senders) /\ batch' \in Seq(Senders)
  <2>1. CASE Send
    <3>1. batch # <<>> => Tail(batch) \in Seq(Senders)
      BY <1>1
    <3>2. QED BY <1>1, <2>1, <3>1 DEF Send
  <2>2. CASE WriteLoop \/ WriteWait \/ SendStuck
    BY <1>1, <2>2 DEF WriteLoop, WriteWait, SendStuck
  <2>3. CASE WriteSwap \/ WriteLeave
    <3>1. <<>> \in Seq(Senders)
      OBVIOUS
    <3>2. QED BY <1>1, <2>3, <3>1 DEF WriteSwap, WriteLeave
  <2>4. QED BY <2>1, <2>2, <2>3 DEF Writer
<1>4. sem' \in 0..MaxSem /\ waitSem' \in Nat
  <2>1. sem \in 0..MaxSem
    BY DEF TypeOK
  <2>2. QED
    BY <1>1, <2>1, RockAssumption DEF Writer, WriteLoop, WriteWait, WriteSwap, Send, SendStuck, WriteLeave, semVars
<1>5. net' \subseteq Reqs
  BY <1>1 DEF Writer, WriteLoop, WriteWait, WriteSwap, Send, SendStuck, WriteLeave, linkVars
<1>6. UNCHANGED <<conn, broken, auto, local, breaks, ctxs, readVars, startVars, innerVars, pc, ctxVars>>
  BY DEF Writer, WriteLoop, WriteWait, WriteSwap, Send, SendStuck, WriteLeave, linkVars
<1>7. waitSem' \in 0..2
  BY <1>4, WriterTokens, TokensBound
<1>8. QED
  BY <1>2, <1>3, <1>4, <1>5, <1>6, <1>7 DEF TypeOK, readVars, startVars, innerVars, ctxVars

LEMMA StarterTypes ==
  ASSUME TypeOK, Tokens, Starter
  PROVE  TypeOK'
<1>1. /\ UNCHANGED <<auto, local, ctxs, queue, rctx, answered, batch, mine, pc, ctxVars>>
      /\ soon' \in BOOLEAN /\ retry' \in BOOLEAN
      /\ spc' \in {"off", "wait1", "wait2", "connect", "failed", "spawn"}
      /\ rpc' \in {rpc, "loop"} /\ wpc' \in {wpc, "loop"}
  <2>1. CASE StartAgain \/ WaitFiber
    BY <2>1 DEF StartAgain, WaitFiber, TypeOK, linkVars, readVars, sendVars, innerVars
  <2>2. CASE Reconnect
    BY <2>2 DEF Reconnect, TypeOK, readVars, sendVars
  <2>3. CASE StartFailed \/ Spawn
    BY <2>3 DEF StartFailed, Spawn, TypeOK, linkVars, readVars, sendVars, innerVars
  <2>4. QED BY <2>1, <2>2, <2>3 DEF Starter
<1>2. /\ conn' \in BOOLEAN /\ broken' \in BOOLEAN /\ breaks' \in 0..MaxBreaks /\ net' \subseteq Reqs
      /\ sem' \in 0..MaxSem /\ waitSem' \in Nat
      /\ inner' \in [Closers -> {"no", "swap", "clear", "fail"}]
  <2>1. CASE Reconnect
    <3>1. CASE /\ conn' = TRUE /\ UNCHANGED <<sem, inner>>
               /\ (IF conn THEN UNCHANGED <<broken, net>> ELSE broken' = FALSE /\ net' = {})
      <4>1. conn' \in BOOLEAN /\ broken' \in BOOLEAN /\ net' \subseteq Reqs
        BY <3>1 DEF TypeOK
      <4>2. waitSem' = waitSem /\ breaks' = breaks
        BY <2>1 DEF Reconnect
      <4>3. QED BY <3>1, <4>1, <4>2 DEF TypeOK
    <3>2. CASE CloseSocket("starter") /\ UNCHANGED <<broken, net>>
      <4>1. breaks' \in 0..MaxBreaks
        BY <2>1 DEF Reconnect, TypeOK
      <4>2. conn' \in BOOLEAN /\ sem' \in 0..MaxSem /\ inner' \in [Closers -> {"no", "swap", "clear", "fail"}]
        BY <3>2, ClosingTypes DEF Closers
      <4>3. QED BY <2>1, <3>2, <4>1, <4>2 DEF Reconnect, TypeOK
    <3>3. QED BY <2>1, <3>1, <3>2 DEF Reconnect
  <2>2. CASE StartAgain \/ WaitFiber \/ StartFailed \/ Spawn
    <3>1. UNCHANGED <<conn, broken, breaks, net, sem, inner>>
      BY <2>2 DEF StartAgain, WaitFiber, StartFailed, Spawn, linkVars, semVars, innerVars
    <3>2. waitSem' \in Nat
      BY <2>2 DEF StartAgain, WaitFiber, StartFailed, Spawn, semVars, TypeOK
    <3>3. QED BY <3>1, <3>2 DEF TypeOK
  <2>3. QED BY <2>1, <2>2 DEF Starter
<1>3. waitSem' \in 0..2
  BY <1>2, StarterTokens, TokensBound
<1>4. QED BY <1>1, <1>2, <1>3 DEF TypeOK, ctxVars

LEMMA OtherTypes ==
  ASSUME TypeOK, Break \/ Close \/ Rest
  PROVE  TypeOK'
<1>1. CASE Break
  <2>1. breaks' \in 0..MaxBreaks
    BY <1>1, RockAssumption DEF Break, TypeOK
  <2>2. QED
    BY <1>1, <2>1 DEF Break, TypeOK, semVars, readVars, sendVars, startVars, innerVars, ctxVars
<1>2. CASE Close
  <2>1. conn' \in BOOLEAN /\ auto' \in BOOLEAN /\ retry' \in BOOLEAN
    BY <1>2 DEF Close
  <2>2. UNCHANGED <<broken, local, breaks, net, semVars, ctxs, queue, readVars, sendVars, spc, soon,
                    innerVars, pc, ctxVars>>
    BY <1>2 DEF Close
  <2>3. QED BY <2>1, <2>2 DEF TypeOK, semVars, readVars, sendVars, innerVars, ctxVars
<1>3. CASE Rest
  BY <1>3 DEF Rest, vars, TypeOK, linkVars, semVars, readVars, sendVars, startVars, innerVars, ctxVars
<1>4. QED BY <1>1, <1>2, <1>3

LEMMA NextTypes ==
  ASSUME TypeOK, Tokens, Answers, Next
  PROVE  TypeOK'
BY CallersTypes, QueueingTypes, InnerCloseTypes, ReaderTypes, WriterTypes, StarterTypes, OtherTypes
   DEF Next

-----------------------------------------------------------------------------
(***************************************************************************)
(* Answers                                                                 *)
(***************************************************************************)
\* What the answer of one request amounts to.
Answer(r) ==
  /\ wakes[r] \in {0, 1} /\ (wakes[r] = 1 <=> ~sched[r])
  /\ tmr[r] = "rsp" => timed[r]
  /\ ~sched[r] \/ pc[r] = "done" => result[r] # OK \/ r \in answered

LEMMA AnswersAre ==
  Answers <=> /\ rpc \in {"result", "rsp"} => rctx \in Reqs /\ rctx \in answered
              /\ \A r \in Reqs : Answer(r)
BY DEF Answers, Answer

\* doRsp for r leaves an OK only where the response has come, or where the
\* answer was settled before.
LEMMA DoRspAnswers ==
  ASSUME TypeOK, Answers, NEW r \in Reqs,
         NEW res \in [Reqs -> {OK, TIMEOUT, IO_ERROR, NOT_CONNECT}], DoRsp(r, res),
         \A q \in Reqs \ {r} : res[q] = result[q],
         res[r] = result[r] \/ res[r] # OK,
         r \in answered \/ timed[r] \/ res[r] # OK,
         UNCHANGED <<pc, timed>>, answered \subseteq answered',
         \A q \in Reqs : tmr'[q] = "rsp" => tmr[q] = "rsp"
  PROVE  \A q \in Reqs : Answer(q)'
<1>1. /\ sched \in [Reqs -> BOOLEAN] /\ wakes \in [Reqs -> Nat]
      /\ \A q \in Reqs : Answer(q)
  BY AnswersAre DEF TypeOK
<1>2. /\ ~sched'[r] /\ \A q \in Reqs \ {r} : sched'[q] = sched[q]
  BY <1>1 DEF DoRsp
<1>3. OK # TIMEOUT
  BY DEF OK, TIMEOUT
<1>4. /\ \A q \in Reqs \ {r} : wakes'[q] = wakes[q] /\ result'[q] = result[q]
      /\ wakes'[r] = IF sched[r] THEN wakes[r] + 1 ELSE wakes[r]
      /\ result'[r] = IF sched[r] /\ timed[r] THEN TIMEOUT ELSE res[r]
  <2>1. CASE sched[r]
    <3>1. /\ wakes' = [wakes EXCEPT ![r] = @ + 1]
          /\ result' = [res EXCEPT ![r] = IF timed[r] THEN TIMEOUT ELSE @]
      BY <2>1 DEF DoRsp
    <3>2. QED BY <1>1, <2>1, <3>1
  <2>2. CASE ~sched[r]
    BY <2>2 DEF DoRsp
  <2>3. QED BY <2>1, <2>2
<1>5. ASSUME NEW q \in Reqs \ {r} PROVE Answer(q)'
  BY <1>1, <1>2, <1>4 DEF Answer
<1>6. Answer(r)'
  <2>1. Answer(r)
    BY <1>1
  <2>2. wakes'[r] \in {0, 1} /\ (wakes'[r] = 1 <=> ~sched'[r])
    BY <1>2, <1>4, <2>1 DEF Answer
  <2>3. tmr'[r] = "rsp" => timed'[r]
    BY <2>1 DEF Answer
  <2>4. result'[r] # OK \/ r \in answered'
    BY <1>3, <1>4, <2>1 DEF Answer
  <2>5. QED BY <2>2, <2>3, <2>4 DEF Answer
<1>7. QED BY <1>5, <1>6

\* Nothing is settled.
LEMMA AnswersFrame ==
  ASSUME TypeOK, Answers, UNCHANGED <<wakes, sched>>, answered \subseteq answered',
         rpc' \in {"result", "rsp"} => rctx' \in Reqs /\ rctx' \in answered',
         \A r \in Reqs : /\ tmr'[r] = "rsp" => timed'[r]
                         /\ pc'[r] = "done" => pc[r] = "done" \/ wakes[r] > 0 \/ result'[r] # OK
                         /\ result'[r] = result[r] \/ result'[r] # OK \/ r \in answered
  PROVE  Answers'
<1>1. \A r \in Reqs : Answer(r)
  BY AnswersAre
<1>2. ASSUME NEW r \in Reqs PROVE Answer(r)'
  <2>1. wakes[r] > 0 => ~sched[r]
    BY <1>1 DEF Answer
  <2>2. /\ tmr'[r] = "rsp" => timed'[r]
        /\ pc'[r] = "done" => pc[r] = "done" \/ ~sched[r] \/ result'[r] # OK
        /\ result'[r] = result[r] \/ result'[r] # OK \/ r \in answered
    <3>1. /\ tmr'[r] = "rsp" => timed'[r]
          /\ result'[r] = result[r] \/ result'[r] # OK \/ r \in answered
      OBVIOUS
    <3>2. pc'[r] = "done" => pc[r] = "done" \/ wakes[r] > 0 \/ result'[r] # OK
      OBVIOUS
    <3>3. QED BY <2>1, <3>1, <3>2
  <2>3. /\ wakes'[r] \in {0, 1} /\ (wakes'[r] = 1 <=> ~sched'[r])
        /\ ~sched'[r] <=> ~sched[r]
        /\ ~sched[r] \/ pc[r] = "done" => result[r] # OK \/ r \in answered
    BY <1>1 DEF Answer
  <2>4. ~sched'[r] \/ pc'[r] = "done" => result'[r] # OK \/ r \in answered'
    BY <2>2, <2>3
  <2>5. QED BY <2>2, <2>3, <2>4 DEF Answer
<1>3. QED BY <1>2 DEF Answers, Answer

LEMMA CallersAnswers ==
  ASSUME TypeOK, Answers, Callers
  PROVE  Answers'
<1>1. (rpc \in {"result", "rsp"} => rctx \in Reqs /\ rctx \in answered) /\ \A q \in Reqs : Answer(q)
  BY AnswersAre
<1>2. UNCHANGED readVars
  BY DEF Callers, Request, AddCtx, AddTimer, Return, Fire, OnTimeOut, TimeOutRsp
<1>3. ASSUME NEW r \in Reqs, Request(r)
      PROVE  Answers'
  <2>1. UNCHANGED <<wakes, sched, tmr, timed>>
    BY <1>3 DEF Request
  <2>2. \A q \in Reqs : /\ pc'[q] = "done" => pc[q] = "done" \/ result'[q] # OK
                        /\ result'[q] = result[q] \/ result'[q] # OK
    <3>1. NOT_CONNECT # OK
      BY DEF NOT_CONNECT, OK
    <3>2. QED BY <1>3, <3>1 DEF Request, TypeOK, Senders
  <2>3. \A q \in Reqs : tmr[q] = "rsp" => timed[q]
    BY <1>1 DEF Answer
  <2>4. QED BY <1>1, <1>2, <2>1, <2>2, <2>3, AnswersFrame DEF readVars
<1>4. ASSUME NEW r \in Reqs, AddCtx(r) \/ AddTimer(r) \/ Return(r) \/ Fire(r)
      PROVE  Answers'
  <2>1. UNCHANGED <<wakes, sched, timed, result>>
    BY <1>4 DEF AddCtx, AddTimer, Return, Fire, ctxVars
  <2>2. \A q \in Reqs : tmr'[q] = "rsp" => tmr[q] = "rsp"
    BY <1>4 DEF AddCtx, AddTimer, Return, Fire, ctxVars, TypeOK
  <2>3. \A q \in Reqs : pc'[q] = "done" => pc[q] = "done" \/ wakes[q] > 0
    BY <1>4 DEF AddCtx, AddTimer, Return, Fire, TypeOK, Senders
  <2>4. \A q \in Reqs : tmr'[q] = "rsp" => timed'[q]
    BY <1>1, <2>1, <2>2 DEF Answer
  <2>5. QED BY <1>1, <1>2, <2>1, <2>3, <2>4, AnswersFrame DEF readVars
<1>5. ASSUME NEW r \in Reqs, OnTimeOut(r)
      PROVE  Answers'
  <2>1. UNCHANGED <<wakes, sched, result, pc>>
    BY <1>5 DEF OnTimeOut
  <2>2. \A q \in Reqs : tmr'[q] = "rsp" => timed'[q]
    BY <1>1, <1>5 DEF OnTimeOut, TypeOK, Answer
  <2>3. QED BY <1>1, <1>2, <2>1, <2>2, AnswersFrame DEF readVars
<1>6. ASSUME NEW r \in Reqs, TimeOutRsp(r)
      PROVE  Answers'
  <2>1. DoRsp(r, result) /\ timed[r] /\ UNCHANGED <<pc, timed>>
    BY <1>1, <1>6 DEF TimeOutRsp, Answer
  <2>2. \A q \in Reqs : tmr'[q] = "rsp" => tmr[q] = "rsp"
    BY <1>6 DEF TimeOutRsp, TypeOK
  <2>3. result \in [Reqs -> {OK, TIMEOUT, IO_ERROR, NOT_CONNECT}] /\ answered \subseteq answered'
    BY <1>2 DEF TypeOK, readVars
  <2>4. \A q \in Reqs : Answer(q)'
    BY <2>1, <2>2, <2>3, DoRspAnswers
  <2>5. QED BY <1>1, <1>2, <2>4 DEF Answers, Answer, readVars
<1>7. QED BY <1>3, <1>4, <1>5, <1>6 DEF Callers

LEMMA InnerCloseAnswers ==
  ASSUME TypeOK, Answers, InnerClose
  PROVE  Answers'
<1>1. (rpc \in {"result", "rsp"} => rctx \in Reqs /\ rctx \in answered) /\ \A q \in Reqs : Answer(q)
  BY AnswersAre
<1>2. ASSUME NEW a \in Closers, SwapCtxs(a) \/ ClearQueue(a)
      PROVE  Answers'
  <2>1. UNCHANGED <<readVars, pc, ctxVars>>
    BY <1>2 DEF SwapCtxs, ClearQueue
  <2>2. QED BY <2>1 DEF Answers, readVars, ctxVars
<1>3. ASSUME NEW a \in Closers, NEW r \in Reqs, FailCtx(a, r)
      PROVE  Answers'
  <2> DEFINE res == [result EXCEPT ![r] = IO_ERROR]
  <2>1. DoRsp(r, res) /\ UNCHANGED <<pc, timed, readVars>>
    BY <1>3 DEF FailCtx
  <2>2. \A q \in Reqs : tmr'[q] = "rsp" => tmr[q] = "rsp"
    BY <1>3 DEF FailCtx, CancelTimer, TypeOK
  <2>3. /\ res \in [Reqs -> {OK, TIMEOUT, IO_ERROR, NOT_CONNECT}]
        /\ res[r] # OK /\ \A q \in Reqs \ {r} : res[q] = result[q]
    BY DEF TypeOK, IO_ERROR, OK
  <2>4. answered \subseteq answered'
    BY <2>1 DEF readVars
  <2> HIDE DEF res
  <2>5. \A q \in Reqs : Answer(q)'
    BY <2>1, <2>2, <2>3, <2>4, DoRspAnswers
  <2>6. QED BY <1>1, <2>1, <2>5 DEF Answers, Answer, readVars
<1>4. QED BY <1>2, <1>3 DEF InnerClose

LEMMA ReaderAnswers ==
  ASSUME TypeOK, Answers, Reader
  PROVE  Answers'
<1>1. (rpc \in {"result", "rsp"} => rctx \in Reqs /\ rctx \in answered) /\ \A q \in Reqs : Answer(q)
  BY AnswersAre
<1>2. \A q \in Reqs : tmr[q] = "rsp" => timed[q]
  BY <1>1 DEF Answer
<1>3. CASE ReadLoop \/ RecvFails \/ RecvStuck \/ ReadLeave
  <2>1. UNCHANGED <<pc, ctxVars, answered, rctx>> /\ rpc' \notin {"result", "rsp"}
    BY <1>3 DEF ReadLoop, RecvFails, RecvStuck, ReadLeave
  <2>2. QED BY <1>2, <2>1, AnswersFrame DEF ctxVars
<1>4. ASSUME NEW r \in Reqs, RecvResponse(r) PROVE Answers'
  <2>1. UNCHANGED <<pc, ctxVars>> /\ answered \subseteq answered'
    BY <1>4 DEF RecvResponse
  <2>2. rpc' \in {"result", "rsp"} => rctx' \in Reqs /\ rctx' \in answered'
    BY <1>4 DEF RecvResponse
  <2>3. QED BY <1>2, <2>1, <2>2, AnswersFrame DEF ctxVars
<1>5. ASSUME NEW m \in Msgs, RecvMessage(m) PROVE Answers'
  <2>1. UNCHANGED <<ctxVars, answered>> /\ rpc' = "loop" /\ pc' = [pc EXCEPT ![m] = "add"]
    BY <1>5 DEF RecvMessage
  <2>2. \A q \in Reqs : pc'[q] = "done" => pc[q] = "done"
    BY <2>1 DEF TypeOK, Senders
  <2>3. QED BY <1>2, <2>1, <2>2, AnswersFrame DEF ctxVars
<1>6. CASE SetResult
  <2>1. UNCHANGED <<pc, tmr, sched, timed, wakes, answered, rctx>> /\ rctx \in Reqs /\ rctx \in answered
        /\ result' = [result EXCEPT ![rctx] = OK]
    BY <1>1, <1>6 DEF SetResult
  <2>2. \A q \in Reqs : result'[q] = result[q] \/ q \in answered
    BY <2>1 DEF TypeOK
  <2>3. QED BY <1>2, <2>1, <2>2, AnswersFrame
<1>7. CASE ReadRsp
  <2>1. PICK r \in Reqs : r = rctx /\ r \in answered
    BY <1>1, <1>7 DEF ReadRsp
  <2>2. DoRsp(r, result) /\ UNCHANGED <<pc, timed, answered>> /\ rpc' = "loop"
    BY <1>7, <2>1 DEF ReadRsp
  <2>3. \A q \in Reqs : tmr'[q] = "rsp" => tmr[q] = "rsp"
    BY <1>7, <2>1 DEF ReadRsp, CancelTimer, TypeOK
  <2>4. result \in [Reqs -> {OK, TIMEOUT, IO_ERROR, NOT_CONNECT}] /\ answered \subseteq answered'
    BY <2>2 DEF TypeOK
  <2>5. \A q \in Reqs : Answer(q)'
    BY <2>1, <2>2, <2>3, <2>4, DoRspAnswers
  <2>6. QED BY <2>2, <2>5 DEF Answers, Answer
<1>8. QED BY <1>3, <1>4, <1>5, <1>6, <1>7 DEF Reader

LEMMA NextAnswers ==
  ASSUME TypeOK, Tokens, Answers, Next
  PROVE  Answers'
<1>1. \A q \in Reqs : tmr[q] = "rsp" => timed[q]
  BY DEF Answers
<1>2. CASE Queueing
  <2>1. UNCHANGED <<readVars, ctxVars>>
    BY <1>2 DEF Queueing, Push, Notify, Handle
  <2>2. \A q \in Reqs : pc'[q] = "done" => pc[q] = "done"
    BY <1>2, RockAssumption DEF Queueing, Push, Notify, Handle, TypeOK, Senders
  <2>3. QED BY <1>1, <2>1, <2>2, AnswersFrame DEF readVars, ctxVars, Answers
<1>3. CASE Writer
  <2>1. UNCHANGED <<readVars, ctxVars, pc>>
    BY <1>3 DEF Writer, WriteLoop, WriteWait, WriteSwap, Send, SendStuck, WriteLeave
  <2>2. QED BY <2>1 DEF readVars, ctxVars, Answers
<1>4. CASE Starter
  <2>1. UNCHANGED <<rctx, answered, ctxVars, pc>> /\ rpc' \in {rpc, "loop"}
    BY <1>4 DEF Starter, StartAgain, WaitFiber, Reconnect, StartFailed, Spawn, readVars
  <2>2. QED BY <2>1 DEF ctxVars, Answers
<1>5. CASE Break \/ Close \/ Rest
  <2>1. UNCHANGED <<readVars, ctxVars, pc>>
    BY <1>5 DEF Break, Close, Rest, vars
  <2>2. QED BY <2>1 DEF readVars, ctxVars, Answers
<1>6. QED
  BY <1>2, <1>3, <1>4, <1>5, CallersAnswers, InnerCloseAnswers, ReaderAnswers DEF Next

-----------------------------------------------------------------------------
(***************************************************************************)
(* The queue                                                               *)
(***************************************************************************)
LEMMA QueueFrame ==
  ASSUME NoLostSend, queue' = queue \/ queue' = <<>>, sem > 0 => sem' > 0,
         wpc \in {"swap", "clear"} => wpc' \in {"swap", "clear"},
         \A s \in Senders : pc[s] = "notify" => pc'[s] = "notify"
  PROVE  NoLostSend'
BY DEF NoLostSend

LEMMA QueueingKeepsSend ==
  ASSUME TypeOK, NoLostSend, Queueing
  PROVE  NoLostSend'
<1>1. UNCHANGED wpc
  BY DEF Queueing, Push, Notify, Handle, sendVars
<1>2. ASSUME NEW s \in Senders, Push(s) PROVE NoLostSend'
  <2>1. pc[s] = "push" /\ sem' = sem
        /\ pc' = [pc EXCEPT ![s] = IF queue = <<>> THEN "notify" ELSE "pushed"]
    BY <1>2 DEF Push, semVars
  <2>2. CASE queue = <<>>
    <3>1. pc'[s] = "notify"
      BY <2>1, <2>2 DEF TypeOK
    <3>2. QED BY <3>1 DEF NoLostSend
  <2>3. CASE queue # <<>>
    <3>1. sem > 0 \/ wpc \in {"swap", "clear"} \/ \E q \in Senders : pc[q] = "notify"
      BY <2>3 DEF NoLostSend
    <3>2. \A q \in Senders : pc[q] = "notify" => pc'[q] = "notify"
      BY <2>1 DEF TypeOK
    <3>3. QED BY <1>1, <2>1, <3>1, <3>2 DEF NoLostSend
  <2>4. QED BY <2>2, <2>3
<1>3. ASSUME NEW s \in Senders, Notify(s) PROVE NoLostSend'
  <2>1. CASE pc[s] = "notify"
    <3>1. sem' > 0
      BY <1>3, <2>1, Notified DEF Notify
    <3>2. QED BY <3>1 DEF NoLostSend
  <2>2. CASE pc[s] = "pushed"
    <3>1. sem' = sem /\ queue' = queue
      BY <1>3, <2>2 DEF Notify
    <3>2. \A q \in Senders : pc[q] = "notify" => pc'[q] = "notify"
      BY <1>3, <2>2 DEF Notify, TypeOK
    <3>3. QED BY <1>1, <3>1, <3>2, QueueFrame
  <2>3. QED BY <1>3, <2>1, <2>2 DEF Notify
<1>4. ASSUME NEW m \in Msgs, Handle(m) PROVE NoLostSend'
  <2>1. sem' = sem /\ queue' = queue
    BY <1>4 DEF Handle, semVars
  <2>2. \A q \in Senders : pc[q] = "notify" => pc'[q] = "notify"
    BY <1>4 DEF Handle, TypeOK
  <2>3. QED BY <1>1, <2>1, <2>2, QueueFrame
<1>5. QED BY <1>2, <1>3, <1>4 DEF Queueing

LEMMA WriterKeepsSend ==
  ASSUME TypeOK, NoLostSend, Writer
  PROVE  NoLostSend'
<1>1. UNCHANGED pc
  BY DEF Writer, WriteLoop, WriteWait, WriteSwap, Send, SendStuck, WriteLeave
<1>2. CASE WriteLoop \/ Send \/ SendStuck
  <2>1. UNCHANGED <<queue, sem>> /\ wpc \notin {"swap", "clear"}
    BY <1>2 DEF WriteLoop, Send, SendStuck, semVars
  <2>2. QED BY <1>1, <2>1, QueueFrame
<1>3. CASE WriteWait
  BY <1>3 DEF WriteWait, NoLostSend
<1>4. CASE WriteSwap \/ WriteLeave
  BY <1>4 DEF WriteSwap, WriteLeave, NoLostSend
<1>5. QED BY <1>2, <1>3, <1>4 DEF Writer

LEMMA NextKeepsSend ==
  ASSUME TypeOK, Tokens, NoLostSend, Next
  PROVE  NoLostSend'
<1>1. CASE Callers
  <2>1. UNCHANGED <<queue, sem, wpc>>
    BY <1>1 DEF Callers, Request, AddCtx, AddTimer, Return, Fire, OnTimeOut, TimeOutRsp,
                semVars, sendVars
  <2>2. \A s \in Senders : pc[s] = "notify" => pc'[s] = "notify"
    BY <1>1 DEF Callers, Request, AddCtx, AddTimer, Return, Fire, OnTimeOut, TimeOutRsp, TypeOK
  <2>3. QED BY <2>1, <2>2, QueueFrame
<1>2. CASE InnerClose
  <2>1. ASSUME NEW a \in Closers, SwapCtxs(a) \/ ClearQueue(a)
        PROVE  queue' \in {queue, <<>>} /\ UNCHANGED <<sem, wpc, pc>>
    BY <2>1 DEF SwapCtxs, ClearQueue, semVars, sendVars
  <2>2. ASSUME NEW a \in Closers, NEW r \in Reqs, FailCtx(a, r)
        PROVE  UNCHANGED <<queue, sem, wpc, pc>>
    BY <2>2 DEF FailCtx, semVars, sendVars
  <2>3. QED BY <1>2, <2>1, <2>2, QueueFrame DEF InnerClose
<1>3. CASE Reader
  <2>1. sem \in Nat
    BY DEF TypeOK
  <2>2. UNCHANGED <<queue, wpc>>
    BY <1>3 DEF Reader, ReadLoop, SetResult, ReadRsp, RecvFails, RecvStuck, ReadLeave, RecvResponse,
                RecvMessage, sendVars
  <2>3. sem > 0 => sem' > 0
    <3>1. NotifySem \/ UNCHANGED sem
      BY <1>3 DEF Reader, ReadLoop, SetResult, ReadRsp, RecvFails, RecvStuck, ReadLeave,
                  RecvResponse, RecvMessage, semVars, CloseSocket
    <3>2. QED BY <2>1, <3>1, Notified
  <2>4. \A s \in Senders : pc[s] = "notify" => pc'[s] = "notify"
    BY <1>3 DEF Reader, ReadLoop, SetResult, ReadRsp, RecvFails, RecvStuck, ReadLeave, RecvResponse,
                RecvMessage, TypeOK
  <2>5. QED BY <2>2, <2>3, <2>4, QueueFrame
<1>4. CASE Starter
  <2>1. sem \in Nat
    BY DEF TypeOK
  <2>2. UNCHANGED <<queue, pc>> /\ (sem > 0 => sem' > 0)
    <3>1. UNCHANGED <<queue, pc>> /\ (NotifySem \/ UNCHANGED sem)
      BY <1>4 DEF Starter, StartAgain, WaitFiber, Reconnect, StartFailed, Spawn, semVars,
                  CloseSocket
    <3>2. QED BY <2>1, <3>1, Notified
  <2>3. wpc = "off" \/ UNCHANGED wpc
    <3>1. CASE Spawn
      <4>1. spc = "spawn" /\ waitSem \in Nat
        BY <3>1 DEF Spawn, TypeOK
      <4>2. Taken = 2 /\ Held(rpc # "off") \in {0, 1} /\ Held(wpc # "off") \in {0, 1}
        BY <4>1 DEF Taken, Held
      <4>3. Held(wpc # "off") = 0
        BY <4>1, <4>2 DEF Tokens
      <4>4. QED BY <4>3 DEF Held
    <3>2. CASE StartAgain \/ WaitFiber \/ Reconnect \/ StartFailed
      BY <3>2 DEF StartAgain, WaitFiber, Reconnect, StartFailed, sendVars
    <3>3. QED BY <1>4, <3>1, <3>2 DEF Starter
  <2>4. QED BY <2>2, <2>3, QueueFrame
<1>5. CASE Break \/ Close \/ Rest
  <2>1. UNCHANGED <<queue, sem, wpc, pc>>
    BY <1>5 DEF Break, Close, Rest, vars, semVars, sendVars
  <2>2. QED BY <2>1, QueueFrame
<1>6. QED
  BY <1>1, <1>2, <1>3, <1>4, <1>5, QueueingKeepsSend, WriterKeepsSend DEF Next

-----------------------------------------------------------------------------
(***************************************************************************)
(* The invariant                                                           *)
(***************************************************************************)
LEMMA RockInit ==
  ASSUME Init
  PROVE  RockInv
<1>1. TypeOK
  <2>1. queue \in Seq(Senders) /\ batch \in Seq(Senders) /\ wakes \in [Reqs -> Nat]
    BY DEF Init
  <2>2. auto \in BOOLEAN /\ breaks \in 0..MaxBreaks
    BY RockAssumption DEF Init
  <2>3. /\ conn \in BOOLEAN /\ local \in BOOLEAN /\ broken \in BOOLEAN /\ soon \in BOOLEAN /\ retry \in BOOLEAN
        /\ sched \in [Reqs -> BOOLEAN] /\ timed \in [Reqs -> BOOLEAN]
    BY DEF Init
  <2>4. /\ inner \in [Closers -> {"no", "swap", "clear", "fail"}]
        /\ mine \in [Closers -> SUBSET Reqs]
        /\ pc \in [Senders -> {"idle", "add", "timer", "push", "pushed", "notify", "hold", "done"}]
        /\ tmr \in [Reqs -> {"none", "set", "due", "rsp", "over"}]
        /\ result \in [Reqs -> {OK, TIMEOUT, IO_ERROR, NOT_CONNECT}]
    BY DEF Init
  <2>5. sem \in 0..MaxSem /\ waitSem \in 0..2
    BY RockAssumption DEF Init
  <2>6. QED BY <2>1, <2>2, <2>3, <2>4, <2>5 DEF Init, TypeOK
<1>2. Tokens
  BY DEF Init, Tokens, Taken, Held
<1>3. Answers
  BY RockAssumption DEF Init, Answers, Senders
<1>4. NoLostSend
  BY DEF Init, NoLostSend
<1>5. QED BY <1>1, <1>2, <1>3, <1>4 DEF RockInv

LEMMA RockStep ==
  ASSUME RockInv, [Next]_vars
  PROVE  RockInv'
<1>1. CASE Next
  BY <1>1, NextTypes, NextTokens, NextAnswers, NextKeepsSend DEF RockInv
<1>2. CASE UNCHANGED vars
  <2>1. TypeOK'
    BY <1>2 DEF RockInv, TypeOK, vars, linkVars, semVars, readVars, sendVars, startVars, innerVars, ctxVars
  <2>2. Tokens' /\ Answers' /\ NoLostSend'
    BY <1>2 DEF RockInv, Tokens, Taken, Answers, NoLostSend, vars, linkVars, semVars, readVars, sendVars,
                startVars, innerVars, ctxVars
  <2>3. QED BY <2>1, <2>2 DEF RockInv
<1>3. QED BY <1>1, <1>2

\* The tokens of _waitSem, the answers and the queue of a connection fit
\* together as RockInv says, through every failure and every reconnection.
THEOREM RockStreamInvariant == Spec => []RockInv
<1>1. Init => RockInv
  BY RockInit
<1>2. RockInv /\ [Next]_vars => RockInv'
  BY RockStep
<1>3. QED BY <1>1, <1>2, PTL DEF Spec

\* A new reader and writer are started only when those before are gone, and
\* at most one timer is due to call start().
THEOREM RockStreamOneReaderOneWriter == Spec => []OneReaderOneWriter
<1>1. RockInv => OneReaderOneWriter
  <2> SUFFICES ASSUME RockInv PROVE OneReaderOneWriter
    OBVIOUS
  <2>1. ASSUME spc = "spawn" PROVE rpc = "off" /\ wpc = "off"
    <3>1. waitSem \in Nat
      BY DEF RockInv, TypeOK
    <3>2. Taken = 2 /\ Held(rpc # "off") \in {0, 1} /\ Held(wpc # "off") \in {0, 1}
      BY <2>1 DEF Taken, Held
    <3>3. Held(rpc # "off") = 0 /\ Held(wpc # "off") = 0
      BY <3>1, <3>2 DEF RockInv, Tokens
    <3>4. QED BY <3>3 DEF Held
  <2>2. QED BY <2>1 DEF RockInv, Tokens, OneReaderOneWriter
<1>2. QED BY <1>1, RockStreamInvariant, PTL

\* Whatever races for a request, its fiber is scheduled once at most, and it
\* returns OK only when its response has been received.
THEOREM RockStreamAnsweredOnce == Spec => []AnsweredOnce
<1>1. RockInv => AnsweredOnce
  BY DEF RockInv, Answers, AnsweredOnce
<1>2. QED BY <1>1, RockStreamInvariant, PTL

\* A message in the queue is seen: _sem is up, the writer is about to empty
\* the queue, or the sender that found it empty has still to notify.
THEOREM RockStreamNoLostSend == Spec => []NoLostSend
<1>1. RockInv => NoLostSend
  BY DEF RockInv
<1>2. QED BY <1>1, RockStreamInvariant, PTL
=============================================================================
