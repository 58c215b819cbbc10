------------------------------ MODULE HttpPool ------------------------------
(***************************************************************************)
(* HttpConnectionPool and HttpConnection (http/HttpConnection.cpp): a user *)
(* takes an idle connection or makes one, sends its request, reads the     *)
(* response and gives the connection back.  The server answers in parts    *)
(* that take their time, and may close.                                    *)
(*                                                                         *)
(* A response is its header alone, a header and a body of known length, or *)
(* a header and one chunk (its size, its data in two parts) and the empty  *)
(* chunk.  A read gets any number of the parts that have arrived.  A part  *)
(* where the parser expects another is an error, but for the rest of a     *)
(* response that was given up: its bytes are anything, and the parser of a *)
(* later response may take them for a header.  The age of connections plays*)
(* no role: _create_time is never set, and both tests of it compare an age *)
(* limit with the time of day.                                             *)
(***************************************************************************)
EXTENDS Integers, Sequences, SequencesExt

CONSTANTS
  Users,        (* fibers that make requests                               *)
  Conns,        (* bound: connections that are made                        *)
  MaxRequest,   (* _maxRequest                                             *)
  MaxCalls      (* bound: requests                                         *)

None == "none"
HttpAssumption == MaxRequest \in Nat /\ MaxCalls \in Nat /\ None \notin Conns

VARIABLES
  pool,         (* _conns                                                  *)
  made,         (* connections that have been made                         *)
  open,         (* open[c]: isConnected()                                  *)
  count,        (* count[c]: _request_count                                *)
  torn,         (* history: connections left open inside a chunk           *)
  peer,         (* peer[c]: the server has not closed c                    *)
  owed,         (* owed[c]: parts the server has still to send             *)
  wire,         (* wire[c]: parts that have arrived                        *)
  calls,        (* requests so far                                         *)
  upc,          (* upc[u]: where u is                                      *)
  conn,         (* conn[u]: the connection u has, or None                  *)
  call,         (* call[u]: the number of u's request                      *)
  head,         (* head[u]: the request whose response u has accepted, or 0*)
  buf           (* buf[u]: parts read and not yet parsed                   *)

poolVars == <<pool, made, open, count, torn>>
serverVars == <<peer, owed>>
userVars == <<upc, conn, call, head, buf>>
vars == <<poolVars, serverVars, wire, calls, userVars>>

Kinds == { <<"head">>, <<"length", "body">>, <<"chunked", "size", "part1", "part2", "end">> }
Response(r, k) == [i \in DOMAIN k |-> [req |-> r, part |-> k[i]]]
Parts == [req : 1..MaxCalls, part : UNION {Range(k) : k \in Kinds}]

TypeOK ==
  /\ pool \in Seq(Conns) /\ made \subseteq Conns
  /\ open \in [Conns -> BOOLEAN] /\ peer \in [Conns -> BOOLEAN]
  /\ count \in [Conns -> Nat] /\ torn \subseteq Conns
  /\ owed \in [Conns -> Seq(Parts)] /\ wire \in [Conns -> Seq(Parts)]
  /\ calls \in 0..MaxCalls
  /\ upc \in [Users -> {"idle", "send", "head", "body", "size", "data", "over", "end",
                         "stuck", "astray"}]
  /\ conn \in [Users -> Conns \cup {None}]
  /\ call \in [Users -> 0..MaxCalls] /\ head \in [Users -> 0..MaxCalls]
  /\ buf \in [Users -> Seq(Parts)]

Init ==
  /\ pool = << >> /\ made = {}
  /\ open = [c \in Conns |-> TRUE] /\ peer = [c \in Conns |-> TRUE]
  /\ count = [c \in Conns |-> 0] /\ torn = {}
  /\ owed = [c \in Conns |-> << >>] /\ wire = [c \in Conns |-> << >>]
  /\ calls = 0
  /\ upc = [u \in Users |-> "idle"] /\ conn = [u \in Users |-> None]
  /\ call = [u \in Users |-> 0] /\ head = [u \in Users |-> 0]
  /\ buf = [u \in Users |-> << >>]

(***************************************************************************)
(* The pool                                                                *)
(***************************************************************************)
\* getConnection: the first idle connection that is connected, or a new one;
\* those before it are deleted
GetConnection(u) ==
  /\ upc[u] = "idle" /\ calls < MaxCalls
  /\ \/ \E i \in DOMAIN pool :
          /\ open[pool[i]] /\ \A j \in 1..(i - 1) : ~open[pool[j]]
          /\ conn' = [conn EXCEPT ![u] = pool[i]]
          /\ pool' = SubSeq(pool, i + 1, Len(pool))
          /\ made' = made
     \/ /\ \A i \in DOMAIN pool : ~open[pool[i]]
        /\ \E c \in Conns \ made : conn' = [conn EXCEPT ![u] = c] /\ made' = made \cup {c}
        /\ pool' = << >>
  /\ calls' = calls + 1
  /\ call' = [call EXCEPT ![u] = calls']
  /\ upc' = [upc EXCEPT ![u] = "send"]
  /\ UNCHANGED <<open, count, torn, serverVars, wire, head, buf>>

\* ReleasePtr, when the last reference of the call goes; isOpen: isConnected().
\* A connection that is deleted is closed.
Release(u, isOpen) ==
  LET c == conn[u] IN
  /\ count' = [count EXCEPT ![c] = @ + 1]
  /\ open' = [open EXCEPT ![c] = isOpen /\ count'[c] < MaxRequest]
  /\ pool' = IF open'[c] THEN Append(pool, c) ELSE pool
  /\ upc' = [upc EXCEPT ![u] = "idle"] /\ conn' = [conn EXCEPT ![u] = None]
  /\ call' = [call EXCEPT ![u] = 0] /\ head' = [head EXCEPT ![u] = 0]
  /\ buf' = [buf EXCEPT ![u] = << >>]
  /\ UNCHANGED <<made, calls, serverVars>>

\* The rest of the response of u is still to come on a connection that is
\* given back open.
Tears(u) == torn' = torn \cup {conn[u]}

(***************************************************************************)
(* A request                                                               *)
(***************************************************************************)
\* sendRequest; once the peer has closed the write may fail, and then
\* writeFixSize does not end
Send(u) ==
  /\ upc[u] = "send"
  /\ LET c == conn[u] IN
     \/ /\ upc' = [upc EXCEPT ![u] = "head"]
        /\ \E k \in Kinds :
             owed' = IF peer[c] THEN [owed EXCEPT ![c] = @ \o Response(call[u], k)] ELSE owed
     \/ /\ ~peer[c]
        /\ upc' = [upc EXCEPT ![u] = "stuck"] /\ owed' = owed
  /\ UNCHANGED <<poolVars, peer, wire, calls, conn, call, head, buf>>

\* read() of the connection of u appends to its buffer ...
Reads(u) ==
  LET c == conn[u] IN
  \E n \in 1..Len(wire[c]) :
    /\ buf' = [buf EXCEPT ![u] = @ \o SubSeq(wire[c], 1, n)]
    /\ wire' = [wire EXCEPT ![c] = SubSeq(@, n + 1, Len(@))]

\* ... or fails: the time is up, or the server has closed
ReadFails(u) == wire[conn[u]] = << >> /\ UNCHANGED wire

\* u reads when the parser has nothing left to parse
Read(u) ==
  /\ upc[u] \in {"head", "body", "size", "data", "end"} /\ buf[u] = << >>
  /\ Reads(u)
  /\ UNCHANGED <<poolVars, serverVars, calls, upc, conn, call, head>>

\* Faulty variant: the connection stays open when no header arrives.
ReadHeaderKeepsOpen(u) ==
  /\ upc[u] \in {"head", "size", "end"} /\ buf[u] = << >>
  /\ ReadFails(u)
  /\ Release(u, upc[u] = "head") /\ UNCHANGED torn

\* close() and no response
ReadHeaderFails(u) ==
  /\ upc[u] \in {"head", "size", "end"} /\ buf[u] = << >>
  /\ ReadFails(u)
  /\ Release(u, FALSE) /\ UNCHANGED torn

\* what the parser expects where u is
Expected == [head |-> {"head", "length", "chunked"}, body |-> {"body"}, size |-> {"size"},
             data |-> {"part1", "part2"}, end |-> {"end"}]

\* anything else than a header, a size or the empty chunk where one is due
ParseError(u) ==
  /\ upc[u] \in {"head", "size", "end"} /\ buf[u] # << >>
  /\ Head(buf[u]).part \notin Expected[upc[u]]
  /\ Release(u, FALSE)
  /\ UNCHANGED <<torn, wire>>

\* Bytes of the rest of a chunk may be a status line or the size of a chunk:
\* a parser that expects a header takes either.
ParseRest(u) ==
  /\ upc[u] = "head" /\ conn[u] \in torn /\ buf[u] # << >>
  /\ Head(buf[u]).part \notin Expected["head"]
  /\ upc' = [upc EXCEPT ![u] = "astray"]
  /\ head' = [head EXCEPT ![u] = Head(buf[u]).req]
  /\ UNCHANGED <<poolVars, serverVars, wire, calls, conn, call, buf>>

\* The response such a header begins ends where its bytes say, or in an
\* error, or waits for more; it may end inside a part, whose rest is data.
Astray(u) ==
  LET c == conn[u] IN
  /\ upc[u] = "astray"
  /\ \/ Reads(u) /\ UNCHANGED <<poolVars, serverVars, calls, upc, conn, call, head>>
     \/ /\ \E isOpen \in BOOLEAN : Release(u, isOpen) /\ torn' = torn
        /\ \/ UNCHANGED wire
           \/ wire[c] # << >> /\ wire' = [wire EXCEPT ![c][1].part = "part2"]
     \/ /\ ReadFails(u) /\ upc' = [upc EXCEPT ![u] = "stuck"]
        /\ UNCHANGED <<poolVars, serverVars, calls, conn, call, head, buf>>

\* The chunk is taken from the buffer if all of it is there.  Otherwise the
\* buffer is emptied into the body, and the length still to be read is
\* computed as if it had been empty: more is read than the chunk has left.
Parse(u) ==
  /\ upc[u] \in {"head", "size", "data", "body", "end"} /\ buf[u] # << >>
  /\ Head(buf[u]).part \in Expected[upc[u]]
  /\ LET part == Head(buf[u]).part
         rest == Tail(buf[u])
         cut == part = "size" /\ Len(rest) = 1
         done == part \in {"head", "body", "end"}
     IN IF done THEN Release(u, TRUE) /\ UNCHANGED torn
        ELSE /\ upc' = [upc EXCEPT ![u] =
                  CASE part = "length"  -> "body"
                    [] part = "chunked" -> "size"
                    [] cut              -> "over"
                    [] part \in {"size", "part1"} /\ ~cut -> "data"
                    [] part = "part2" -> "end"]
             /\ buf' = [buf EXCEPT ![u] = rest]
             /\ head' = IF upc[u] = "head" THEN [head EXCEPT ![u] = Head(buf[u]).req] ELSE head
             /\ UNCHANGED <<poolVars, serverVars, calls, conn, call>>
  /\ UNCHANGED wire

\* the data of a chunk that fails: no response, and nobody closes
DataFails(u) ==
  /\ upc[u] = "data" /\ buf[u] = << >>
  /\ ReadFails(u)
  /\ Release(u, TRUE) /\ Tears(u)

\* Reading past the chunk eats into the empty chunk, which makes the parser
\* fail, or all of it and waits for more in vain.
Over(u) ==
  /\ upc[u] = "over"
  /\ \/ Reads(u) /\ UNCHANGED <<poolVars, serverVars, calls, upc, conn, call, head>>
     \/ /\ \E i \in DOMAIN buf[u] : buf[u][i].part = "end"
        /\ Release(u, FALSE) /\ UNCHANGED <<torn, wire>>
     \/ ReadFails(u) /\ Release(u, TRUE) /\ Tears(u)

\* A body of known length is read by readFixSize, which takes a time that is
\* up for 2^64 - 1 bytes: it does not end before the server closes.
BodyStuck(u) ==
  /\ upc[u] = "body" /\ buf[u] = << >>
  /\ ReadFails(u)
  /\ \/ peer[conn[u]] /\ upc' = [upc EXCEPT ![u] = "stuck"]
        /\ UNCHANGED <<poolVars, serverVars, calls, conn, call, head, buf>>
     \/ ~peer[conn[u]] /\ Release(u, FALSE) /\ UNCHANGED torn

StuckEnds(u) ==
  /\ upc[u] = "stuck" /\ ~peer[conn[u]] /\ head[u] # 0
  /\ Release(u, FALSE)
  /\ UNCHANGED <<torn, wire>>

(***************************************************************************)
(* The server                                                              *)
(***************************************************************************)
Deliver(c) ==
  /\ open[c] /\ owed[c] # << >>
  /\ wire' = [wire EXCEPT ![c] = Append(@, Head(owed[c]))]
  /\ owed' = [owed EXCEPT ![c] = Tail(@)]
  /\ UNCHANGED <<poolVars, peer, calls, userVars>>

PeerCloses(c) ==
  /\ c \in made /\ open[c] /\ peer[c]
  /\ peer' = [peer EXCEPT ![c] = FALSE]
  /\ owed' = [owed EXCEPT ![c] = << >>]
  /\ UNCHANGED <<poolVars, wire, calls, userVars>>

UserStep(u) ==
  \/ GetConnection(u) \/ Send(u) \/ Read(u) \/ ReadHeaderFails(u) \/ ParseError(u)
  \/ ParseRest(u) \/ Astray(u) \/ Parse(u) \/ DataFails(u) \/ Over(u) \/ BodyStuck(u)
  \/ StuckEnds(u)

Next ==
  \/ \E u \in Users : UserStep(u)
  \/ \E c \in Conns : Deliver(c) \/ PeerCloses(c)

Spec == Init /\ [][Next]_vars

(***************************************************************************)
(* Properties                                                              *)
(***************************************************************************)
\* Connections go back to the pool after requests that failed
\* (HttpConnection.cpp 38-171, 525-537): a response that is accepted is the
\* one to the request just sent, and no connection has two users or is idle
\* twice.  The one exception are connections that were left open inside the
\* data of a chunk (112-115): their rest is read by the next user.
ResponseIsOwn ==
  /\ \A u \in Users : conn[u] \notin torn => head[u] \in {0, call[u]}
  /\ IsInjective(pool)
  /\ \A u, v \in Users : conn[u] # None =>
       /\ ~Contains(pool, conn[u])
       /\ u # v => conn[u] # conn[v]
=============================================================================
