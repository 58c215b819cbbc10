----------------------------- MODULE MCRecovery -----------------------------
(* Small instances of three components that have no state in common and    *)
(* that get over failures: a RockConnection, the client of the name server *)
(* and a Dns.  The variable part says which of them a behaviour is about.  *)
EXTENDS Integers

CONSTANT Caller

VARIABLES
  part,
  \* RockStream
  conn, broken, auto, local, breaks, net, sem, waitSem, ctxs, sendQueue, rpc, rctx, wpc, batch,
  spc, soon, retry, inner, mine, rockPc, tmr, sched, ctxTimed, result, wakes, answered,
  \* NameServer
  linked, refused, sessions, domains, nregs, owners, queryDomains, nedits, view, qpc, asked,
  got, notes,
  \* Dns
  pool, up, turns, sets, addrs, address, dnsValid, socks, hand, dnsPc, dnsResult, dnsAnswer,
  dnsOld, dnsNew

RS == INSTANCE RockStream
        WITH Reqs <- {Caller}, Msgs <- {}, AutoConnect <- TRUE, MaxBreaks <- 1, MaxSem <- 2,
             Closes <- TRUE,
             queue <- sendQueue, pc <- rockPc, timed <- ctxTimed

NS == INSTANCE NameServer
        WITH Streams <- {1}, Nodes <- {1}, Domains <- {1, 2},
             Keys <- {<<1, 1>>}, Weights <- {1, 2}, Queries <- {1, 2},
             MaxRegs <- 2, MaxEdits <- 2, Notifies <- TRUE

DN == INSTANCE Dns
        WITH Addrs <- {1}, Refreshers <- {1, 2}, Timer <- 2, Items <- 1..5, MaxSets <- 1,
             MaxTurns <- 1, valid <- dnsValid, pc <- dnsPc, result <- dnsResult,
             answer <- dnsAnswer, old <- dnsOld, new <- dnsNew

ASSUME RecoveryAssumption == RS!RockAssumption /\ NS!NameServerAssumption /\ DN!DnsAssumption

rockVars == <<conn, broken, auto, local, breaks, net, sem, waitSem, ctxs, sendQueue, rpc,
              rctx, wpc, batch, spc, soon, retry, inner, mine, rockPc, tmr, sched, ctxTimed,
              result, wakes, answered>>
nameVars == <<linked, refused, sessions, domains, nregs, owners, queryDomains, nedits,
              view, qpc, asked, got, notes>>
dnsVars == <<pool, up, turns, sets, addrs, address, dnsValid, socks, hand, dnsPc, dnsResult,
             dnsAnswer, dnsOld, dnsNew>>
vars == <<part, rockVars, nameVars, dnsVars>>

Init ==
  /\ part \in {"rock", "names", "dns"}
  /\ RS!Init /\ NS!Init /\ DN!Init
  /\ part # "rock" => ~conn
  /\ part # "dns" => ~pool /\ ~up[1]

Next ==
  \/ part = "rock" /\ RS!Next /\ UNCHANGED <<part, nameVars, dnsVars>>
  \/ part = "names" /\ NS!Next /\ UNCHANGED <<part, rockVars, dnsVars>>
  \/ part = "dns" /\ DN!Next /\ UNCHANGED <<part, rockVars, nameVars>>

FairRock ==
  /\ WF_rockVars(part = "rock" /\ (RS!AddCtx(Caller) \/ RS!AddTimer(Caller) \/ RS!Return(Caller)))
  /\ WF_rockVars(part = "rock" /\ (RS!Fire(Caller) \/ RS!OnTimeOut(Caller) \/ RS!TimeOutRsp(Caller)))
  /\ WF_rockVars(part = "rock" /\ (RS!Push(Caller) \/ RS!Notify(Caller)))
  /\ WF_rockVars(part = "rock" /\ RS!InnerClose)
  /\ WF_rockVars(part = "rock" /\ (RS!ReadLoop \/ RS!SetResult \/ RS!ReadRsp \/ RS!ReadLeave))
  /\ WF_rockVars(part = "rock" /\ (RS!RecvFails \/ RS!RecvStuck))
  /\ WF_rockVars(part = "rock" /\ RS!Writer)
  /\ WF_rockVars(part = "rock" /\ RS!Starter)

FairNames ==
  /\ \A x \in {1, 2} :
       /\ WF_nameVars(part = "names" /\ NS!QueryAgain(x))
       /\ SF_nameVars(part = "names" /\ NS!HandleQuery(x))
       /\ WF_nameVars(part = "names" /\ (NS!Build(x) \/ NS!Swap(x)))
  /\ \A c \in NS!Changes : WF_nameVars(part = "names" /\ NS!OnNotify(c))

FairDns ==
  /\ WF_dnsVars(part = "dns" /\ DN!Refresh)
  /\ \A r \in {1, 2} : WF_dnsVars(part = "dns" /\ DN!Step(r))

FairSpec == Init /\ [][Next]_vars /\ FairRock /\ FairNames /\ FairDns

\* The properties of each part, as its module states them
\* (streams/AsyncSocketStream.cpp, ns/NameServerClient.cpp, Dns.cpp).
RequestReturns == part = "rock" => RS!RequestReturns
KeepsDialling == part = "rock" => RS!KeepsDialling
ViewConverges == part = "names" => NS!ViewConverges
ChecksConverge == part = "dns" => DN!ChecksConverge
=============================================================================
