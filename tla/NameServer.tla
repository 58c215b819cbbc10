----------------------------- MODULE NameServer -----------------------------
(***************************************************************************)
(* The name server (src/src/ns): NameServerModule keeps what providers     *)
(* have registered over their connections, NSClient keeps a copy of the    *)
(* domains it asks for.                                                    *)
(*                                                                         *)
(* A provider registers one node for a set of commands of domains.  The    *)
(* node comes with the request, so that two connections may register the   *)
(* same one; a connection that has a node keeps to it.  The next           *)
(* registration replaces the one before, the end of the connection removes *)
(* the node, whoever else has registered it.  The handlers of the server   *)
(* run to the end without a switch of fibers: each is one step, as on a    *)
(* worker with one thread.                                                 *)
(*                                                                         *)
(* The client asks for all its domains when the connection is up, when the *)
(* domains change and after every tick of its timer.  Its queries overlap  *)
(* with each other, with changes of the domains and with notifications.    *)
(***************************************************************************)
EXTENDS Integers, FiniteSets

CONSTANTS
  Streams,    (* connections of providers                                  *)
  Nodes,      (* ids of nodes, ip and port                                 *)
  Domains,
  Keys,       (* pairs of a domain and a command                           *)
  Weights,
  Queries,    (* fibers of the client that are in query()                  *)
  MaxRegs,    (* bound: registrations and disconnections                   *)
  MaxEdits,   (* bound: changes of the client's domains                    *)
  Notifies    (* the server sends NODE_CHANGE                              *)

None == [node |-> "none"]
NoWeight == 0

NameServerAssumption ==
  /\ \A k \in Keys : k[1] \in Domains
  /\ Weights \subseteq Nat \ {NoWeight}
  /\ MaxRegs \in Nat /\ MaxEdits \in Nat

VARIABLES
  linked,     (* linked[s]: isConnected() of s at the server               *)
  refused,    (* refused[s]: the server has closed s                       *)
  sessions,   (* _sessions of the module                                   *)
  domains,    (* _domains of the module: weights of the nodes of a key     *)
  nregs,      (* registrations and disconnections so far                   *)
  owners,     (* history: owners[n], the connections that registered n     *)
  queryDomains, (* _queryDomains of the client                             *)
  nedits,     (* changes of them so far                                    *)
  view,       (* _domains of the client                                    *)
  qpc,        (* qpc[x]: where query x is                                  *)
  asked,      (* asked[x]: the domains in the request                      *)
  got,        (* got[x]: the response, later the new set of domains        *)
  notes       (* notifications on their way                                *)

serverVars == <<linked, refused, sessions, domains, nregs, owners>>
queryVars == <<qpc, asked, got>>
vars == <<serverVars, queryDomains, nedits, view, queryVars, notes>>

Tables == [Keys -> [Nodes -> Weights \cup {NoWeight}]]
Empty == [k \in Keys |-> [n \in Nodes |-> NoWeight]]
Infos == [node : Nodes, weight : Weights, cmds : (SUBSET Keys) \ {{}}]
Changes == [key : Keys, node : Nodes, weight : Weights \cup {NoWeight}]

TypeOK ==
  /\ linked \in [Streams -> BOOLEAN] /\ refused \in [Streams -> BOOLEAN]
  /\ sessions \in [Streams -> Infos \cup {None}]
  /\ domains \in Tables /\ view \in Tables /\ owners \in [Nodes -> SUBSET Streams]
  /\ nregs \in 0..MaxRegs /\ nedits \in 0..MaxEdits
  /\ queryDomains \subseteq Domains
  /\ qpc \in [Queries -> {"off", "sent", "answered", "built"}]
  /\ asked \in [Queries -> SUBSET Domains]
  /\ got \in [Queries -> Tables]
  /\ notes \subseteq Changes

Init ==
  /\ linked = [s \in Streams |-> TRUE] /\ refused = [s \in Streams |-> FALSE]
  /\ sessions = [s \in Streams |-> None]
  /\ domains = Empty /\ nregs = 0 /\ owners = [n \in Nodes |-> {}]
  /\ queryDomains = {} /\ nedits = 0
  /\ view = Empty
  /\ qpc = [x \in Queries |-> "off"]
  /\ asked = [x \in Queries |-> {}] /\ got = [x \in Queries |-> Empty]
  /\ notes = {}

\* what a table says about the domains of D
Only(table, D) ==
  [k \in Keys |-> IF k[1] \in D THEN table[k] ELSE [n \in Nodes |-> NoWeight]]

(***************************************************************************)
(* The server                                                              *)
(***************************************************************************)
Cmds(info) == IF info = None THEN {} ELSE info.cmds

\* diff() and the three loops of set(): commands that are gone, new, or the
\* same with another weight
Updated(old, new) ==
  LET dels  == Cmds(old) \ Cmds(new)
      news  == Cmds(new) \ Cmds(old)
      comms == {k \in Cmds(old) \cap Cmds(new) : old.weight # new.weight}
  IN [k \in Keys |->
       CASE k \in dels          -> [domains[k] EXCEPT ![old.node] = NoWeight]
         [] k \in news \cup comms -> [domains[k] EXCEPT ![new.node] = new.weight]
         [] OTHER               -> domains[k]]

\* set(): a stream that has been closed meanwhile is not entered
Set(s, info) ==
  LET new == IF linked[s] THEN info ELSE None
  IN /\ domains' = Updated(sessions[s], new)
     /\ sessions' = [sessions EXCEPT ![s] = new]
     /\ owners' = [n \in Nodes |-> IF new # None /\ n = new.node
                                   THEN owners[n] \cup {s} ELSE owners[n]]
     /\ notes' = notes \cup {c \in Changes : /\ Notifies
                                            /\ c.weight = domains'[c.key][c.node]
                                            /\ c.weight # domains[c.key][c.node]}

\* A registration without any info takes back what was registered; one that
\* has infos names the node of the last registration, if there is one.  The
\* handler may run when the stream is closed already.
HandleRegister(s) ==
  /\ nregs < MaxRegs
  /\ nregs' = nregs + 1
  /\ \/ Set(s, None)
     \/ \E info \in Infos : /\ sessions[s] # None => info.node = sessions[s].node
                           /\ Set(s, info)
  /\ UNCHANGED <<linked, refused, queryDomains, nedits, view, queryVars>>

\* A registration that lacks a field or names another node than before: the
\* handler returns FALSE and RockStream::handleRequest closes the stream, for
\* which onDisconnect is not called any more.
RefuseRegister(s) ==
  /\ nregs < MaxRegs /\ linked[s]
  /\ nregs' = nregs + 1
  /\ linked' = [linked EXCEPT ![s] = FALSE]
  /\ refused' = [refused EXCEPT ![s] = TRUE]
  /\ UNCHANGED <<sessions, domains, owners, queryDomains, nedits, view, queryVars, notes>>

\* Faulty variant: the end of the connection is not handled.
OnDisconnectForgotten(s) ==
  /\ nregs < MaxRegs /\ linked[s]
  /\ nregs' = nregs + 1
  /\ linked' = [linked EXCEPT ![s] = FALSE]
  /\ UNCHANGED <<refused, sessions, domains, owners, queryDomains, nedits, view, queryVars,
                 notes>>

\* innerClose calls onDisconnect before it closes the socket
OnDisconnect(s) ==
  /\ nregs < MaxRegs /\ linked[s]
  /\ nregs' = nregs + 1
  /\ Set(s, None)
  /\ linked' = [linked EXCEPT ![s] = FALSE]
  /\ UNCHANGED <<refused, queryDomains, nedits, view, queryVars>>

(***************************************************************************)
(* The client                                                              *)
(***************************************************************************)
\* the request of a query; with no domain there is none
Ask(x, D) ==
  /\ qpc[x] = "off"
  /\ qpc' = IF D = {} THEN qpc ELSE [qpc EXCEPT ![x] = "sent"]
  /\ asked' = IF D = {} THEN asked ELSE [asked EXCEPT ![x] = D]
  /\ UNCHANGED got

\* setQueryDomains, addQueryDomain, delQueryDomain with onQueryDomainChange
QueryDomainChange(x) ==
  /\ nedits < MaxEdits
  /\ nedits' = nedits + 1
  /\ \E D \in SUBSET Domains :
       D # queryDomains /\ queryDomains' = D /\ Ask(x, D)
  /\ UNCHANGED <<serverVars, view, notes>>

\* onConnect, and onTimer after the tick
QueryAgain(x) ==
  /\ queryDomains # {}
  /\ Ask(x, queryDomains)
  /\ UNCHANGED <<serverVars, queryDomains, nedits, view, notes>>

HandleQuery(x) ==
  /\ qpc[x] = "sent"
  /\ qpc' = [qpc EXCEPT ![x] = "answered"]
  /\ got' = [got EXCEPT ![x] = Only(domains, asked[x])]
  /\ UNCHANGED <<serverVars, queryDomains, nedits, view, asked, notes>>

QueryDone(x) ==
  /\ qpc' = [qpc EXCEPT ![x] = "off"]
  /\ asked' = [asked EXCEPT ![x] = {}] /\ got' = [got EXCEPT ![x] = Empty]

\* no connection, or no response in a second
QueryFails(x) ==
  /\ qpc[x] = "sent"
  /\ QueryDone(x)
  /\ UNCHANGED <<serverVars, queryDomains, nedits, view, notes>>

\* the new set has what is still asked for ...
Build(x) ==
  /\ qpc[x] = "answered"
  /\ qpc' = [qpc EXCEPT ![x] = "built"]
  /\ got' = [got EXCEPT ![x] = Only(@, queryDomains)]
  /\ UNCHANGED <<serverVars, queryDomains, nedits, view, asked, notes>>

\* Faulty variant: what is known is kept, the response is added to it.
SwapMerges(x) ==
  /\ qpc[x] = "built"
  /\ view' = [k \in Keys |-> [n \in Nodes |->
                IF got[x][k][n] = NoWeight THEN view[k][n] ELSE got[x][k][n]]]
  /\ QueryDone(x)
  /\ UNCHANGED <<serverVars, queryDomains, nedits, notes>>

\* ... and takes the place of the old one
Swap(x) ==
  /\ qpc[x] = "built"
  /\ view' = got[x]
  /\ QueryDone(x)
  /\ UNCHANGED <<serverVars, queryDomains, nedits, notes>>

\* notifications are handled by fibers of their own, in any order
OnNotify(c) ==
  /\ c \in notes
  /\ notes' = notes \ {c}
  /\ view' = IF c.key[1] \in queryDomains
             THEN [view EXCEPT ![c.key][c.node] = c.weight] ELSE view
  /\ UNCHANGED <<serverVars, queryDomains, nedits, queryVars>>

Server == \E s \in Streams : HandleRegister(s) \/ RefuseRegister(s) \/ OnDisconnect(s)
Client ==
  \/ \E x \in Queries : \/ QueryDomainChange(x) \/ QueryAgain(x) \/ HandleQuery(x)
                        \/ QueryFails(x) \/ Build(x) \/ Swap(x)
  \/ \E c \in notes : OnNotify(c)
Next == Server \/ Client

Spec == Init /\ [][Next]_vars

\* The timer keeps asking, a query that is asked again and again is answered
\* some time, and the fibers of the client run.
FairSpec ==
  /\ Spec
  /\ \A x \in Queries :
       /\ WF_vars(QueryAgain(x)) /\ SF_vars(HandleQuery(x))
       /\ WF_vars(Build(x) \/ Swap(x))
  /\ \A c \in Changes : WF_vars(OnNotify(c))

(***************************************************************************)
(* Properties                                                              *)
(***************************************************************************)
\* s has registered the node for the key.
Registers(s, k, n) == k \in Cmds(sessions[s]) /\ sessions[s].node = n

\* set() edits the domains by differences (NameServerModule.cpp 83-178): after
\* any sequence of registrations and disconnections each entry is what a
\* stream in _sessions has registered, with its weight, and the domains have
\* everything that is registered, but for nodes that came over more than one
\* stream: a provider that registers again over a new stream is lost when the
\* old one ends.  A stream in _sessions is connected, unless the server itself
\* has closed it, which leaves its node behind.
RegistryExact ==
  /\ \A k \in Keys, n \in Nodes :
       /\ domains[k][n] # NoWeight =>
            \E s \in Streams : Registers(s, k, n) /\ domains[k][n] = sessions[s].weight
       /\ \A s \in Streams :
            Registers(s, k, n) /\ owners[n] = {s} => domains[k][n] = sessions[s].weight
  /\ \A s \in Streams : sessions[s] # None => linked[s] \/ refused[s]

\* Queries, notifications and changes of the domains overlap in the client
\* (NameServerClient.cpp 57-108, 157-199), and an old response may overwrite
\* a newer one; when all has come to rest the client knows what the server
\* knows of its domains.  With no domain left it keeps what it had.
ViewConverges == <>[](queryDomains = {} \/ view = Only(domains, queryDomains))
=============================================================================
