----------------------------- MODULE HttpProofs -----------------------------
(***************************************************************************)
(* Proofs about two components of the HTTP library: HttpConnectionPool, for*)
(* any number of users, connections and requests, and the frames of a      *)
(* WebSocket, for any number of frames and any limit of a message.         *)
(*                                                                         *)
(* In the pool, what matters is what the server has sent on a connection   *)
(* and nobody has read (Unread).  While a user is inside a response it is  *)
(* the rest of that response (Inside); when the connection goes back to the*)
(* pool it may not begin with what the parser takes for a header (Quiet).  *)
(* A connection that is given back open inside a chunk is torn: nothing is *)
(* said of its streams from then on, only of who has it.                   *)
(*                                                                         *)
(* On a WebSocket, the parts on their way are each what the reader, or the *)
(* part before, makes the reader expect (Line), up to what the writer      *)
(* writes next (Ends), unless a control frame got into a data frame.       *)
(***************************************************************************)
EXTENDS HttpPool, SequenceTheorems, FiniteSetTheorems, TLAPS

\* The WebSocket, with the names MCData gives its variables.
CONSTANTS Sizes, MaxFrames, MaxPings, MaxMessage
VARIABLES client, frames, spc, controls, mixed, wsWire, up, broken, rpc, wsHead, length, opcode,
  data, wsSize, got
WS == INSTANCE WebSocket
        WITH MaxSize <- MaxMessage, wire <- wsWire, head <- wsHead, size <- wsSize

-----------------------------------------------------------------------------
(***************************************************************************)
(* HttpConnectionPool: for any number of users, connections and requests   *)
(***************************************************************************)
Unread(c) == wire[c] \o owed[c]
\* what u has still to parse: its buffer, then the connection
Rest(u) == buf[u] \o Unread(conn[u])

\* The part that comes after another one of the same response; none comes
\* after a header without a body, a body or the empty chunk.
Follows(p, q) ==
  \/ p = "length" /\ q = "body"
  \/ p = "chunked" /\ q = "size"
  \/ p = "size" /\ q = "part1"
  \/ p = "part1" /\ q = "part2"
  \/ p = "part2" /\ q = "end"

\* The parts of s are consecutive parts of one response.
Chain(s) == \A i \in 1..(Len(s) - 1) : Follows(s[i].part, s[i + 1].part)

\* A parser that expects a header finds an error in s, or nothing.
Quiet(s) == s # << >> => s[1].part \notin Expected.head

\* Where u is inside a response.
Mid == {"body", "size", "data", "end"}

\* What u has still to parse is what its request or an error calls for.
Inside(u) ==
  /\ upc[u] = "head" => \/ Quiet(Rest(u))
                        \/ Chain(Rest(u)) /\ Rest(u)[1].req = call[u]
  /\ upc[u] \in Mid => /\ Chain(Rest(u))
                       /\ Rest(u) # << >> => Rest(u)[1].part \in Expected[upc[u]]
  /\ upc[u] = "over" => Chain(Rest(u))

\* The connection of a user is open, and is no one else's.
Places ==
  /\ \A i \in DOMAIN pool : pool[i] \in made /\ open[pool[i]]
  /\ \A i, j \in DOMAIN pool : pool[i] = pool[j] => i = j
  /\ \A u \in Users :
       /\ conn[u] = None <=> upc[u] = "idle"
       /\ conn[u] # None =>
            /\ conn[u] \in made /\ open[conn[u]]
            /\ \A i \in DOMAIN pool : pool[i] # conn[u]
            /\ \A v \in Users : v # u => conn[v] # conn[u]
  /\ \A c \in Conns : c \notin made => open[c]

\* Outside a response there is nothing a parser would take for a header.
Resting ==
  \A c \in Conns \ torn :
    open[c] /\ (\A u \in Users : conn[u] = c => upc[u] = "send") => Quiet(Unread(c))

Local(u) ==
  /\ upc[u] \in {"idle", "send"} => buf[u] = << >>
  /\ upc[u] \in {"idle", "send", "head"} => head[u] = 0
  /\ upc[u] = "send" => call[u] # 0
  /\ upc[u] = "over" => buf[u] # << >>
  /\ upc[u] = "astray" => conn[u] \in torn
  /\ conn[u] \notin torn => head[u] \in {0, call[u]} /\ Inside(u)

Streams == Resting /\ \A u \in Users : Local(u)

HttpInv == TypeOK /\ Places /\ Streams

-----------------------------------------------------------------------------
(***************************************************************************)
(* Sequences of parts                                                      *)
(***************************************************************************)
LEMMA PartNames ==
  /\ UNION {Range(k) : k \in Kinds} =
       {"head", "length", "body", "chunked", "size", "part1", "part2", "end"}
  /\ \A k \in Kinds : k = <<"head">> \/ k = <<"length", "body">>
                        \/ k = <<"chunked", "size", "part1", "part2", "end">>
<1>1. Range(<<"head">>) = {"head"}
  BY DEF Range
<1>2. Range(<<"length", "body">>) = {"length", "body"}
  BY DEF Range
<1>3. Range(<<"chunked", "size", "part1", "part2", "end">>) =
        {"chunked", "size", "part1", "part2", "end"}
  BY DEF Range
<1>4. UNION {Range(k) : k \in Kinds} =
        Range(<<"head">>) \cup Range(<<"length", "body">>)
          \cup Range(<<"chunked", "size", "part1", "part2", "end">>)
  BY Zenon DEF Kinds
<1>5. QED
  BY <1>1, <1>2, <1>3, <1>4 DEF Kinds

LEMMA ExpectedParts ==
  /\ Expected["head"] = {"head", "length", "chunked"}
  /\ Expected["body"] = {"body"}
  /\ Expected["size"] = {"size"}
  /\ Expected["data"] = {"part1", "part2"}
  /\ Expected["end"] = {"end"}
BY DEF Expected

LEMMA FunctionIsSeq ==
  ASSUME NEW S, NEW n \in Nat, NEW s \in [1..n -> S]
  PROVE  s \in Seq(S) /\ Len(s) = n
<1>1. s \in Seq(S)
  BY SeqDef
<1>2. DOMAIN s = 1..Len(s) /\ Len(s) \in Nat
  BY <1>1, LenProperties
<1>3. QED
  BY <1>1, <1>2

\* A response starts with its header and is a chain.
LEMMA ResponseParts ==
  ASSUME NEW r \in 1..MaxCalls, NEW k \in Kinds
  PROVE  /\ Response(r, k) \in Seq(Parts)
         /\ Response(r, k) # << >>
         /\ Chain(Response(r, k))
         /\ Response(r, k)[1].req = r
<1> DEFINE s == Response(r, k)
<1>1. CASE k = <<"head">>
  <2>1. s \in [1..1 -> Parts] /\ \A i \in 1..1 : s[i] = [req |-> r, part |-> k[i]]
    BY <1>1, PartNames DEF Response, Parts
  <2>2. s \in Seq(Parts) /\ Len(s) = 1
    BY <2>1, FunctionIsSeq
  <2>3. QED
    BY <1>1, <2>1, <2>2 DEF Chain
<1>2. CASE k = <<"length", "body">>
  <2>1. s \in [1..2 -> Parts] /\ \A i \in 1..2 : s[i] = [req |-> r, part |-> k[i]]
    BY <1>2, PartNames DEF Response, Parts
  <2>2. s \in Seq(Parts) /\ Len(s) = 2
    <3> HIDE DEF s
    <3>1. PICK n \in Nat : n = 2
      OBVIOUS
    <3>2. s \in [1..n -> Parts]
      BY <2>1, <3>1
    <3>3. s \in Seq(Parts) /\ Len(s) = n
      BY ONLY <3>2, FunctionIsSeq
    <3>4. QED BY <3>1, <3>3
  <2>3. \A i \in 1..1 : Follows(k[i], k[i + 1])
    BY <1>2 DEF Follows
  <2>4. QED
    BY <1>2, <2>1, <2>2, <2>3 DEF Chain
<1>3. CASE k = <<"chunked", "size", "part1", "part2", "end">>
  <2>1. s \in [1..5 -> Parts] /\ \A i \in 1..5 : s[i] = [req |-> r, part |-> k[i]]
    BY <1>3, PartNames DEF Response, Parts
  <2>2. \A i \in 1..4 : Follows(k[i], k[i + 1])
    BY <1>3 DEF Follows
  <2>3. \A i \in 1..4 : i \in 1..5 /\ i + 1 \in 1..5
    OBVIOUS
  <2> HIDE DEF s
  <2>4. s \in [1..5 -> Parts]
    BY <2>1
  <2>5. s \in Seq(Parts) /\ Len(s) = 5
    BY <2>4, FunctionIsSeq
  <2>6. \A i \in 1..4 : s[i].part = k[i] /\ s[i + 1].part = k[i + 1]
    BY <2>1, <2>3
  <2>7. Chain(s)
    BY <2>2, <2>5, <2>6 DEF Chain
  <2>8. s # << >> /\ s[1].req = r
    <3>1. s[1].req = r
      BY <2>1
    <3>2. QED
      BY <2>5, <3>1
  <2>9. QED
    BY <2>5, <2>7, <2>8 DEF s
<1>4. QED
  BY <1>1, <1>2, <1>3, PartNames

\* A read takes the first parts of the connection.
LEMMA Split ==
  ASSUME NEW S, NEW w \in Seq(S), NEW n \in 1..Len(w)
  PROVE  /\ SubSeq(w, 1, n) \in Seq(S) /\ SubSeq(w, n + 1, Len(w)) \in Seq(S)
         /\ SubSeq(w, 1, n) # << >>
         /\ SubSeq(w, 1, n) \o SubSeq(w, n + 1, Len(w)) = w
OBVIOUS

\* The parts of a buffer, a connection and the server, in this order.
Joined(b, w, o) == b \o (w \o o)

LEMMA Moved ==
  ASSUME NEW b \in Seq(Parts), NEW w \in Seq(Parts), NEW o \in Seq(Parts), NEW n \in 1..Len(w)
  PROVE  Joined(b \o SubSeq(w, 1, n), SubSeq(w, n + 1, Len(w)), o) = Joined(b, w, o)
<1> DEFINE p == SubSeq(w, 1, n)
           q == SubSeq(w, n + 1, Len(w))
<1>1. p \in Seq(Parts) /\ q \in Seq(Parts)
  BY Split
<1>2. p \o q = w
  BY Split
<1> HIDE DEF p, q
<1>3. (b \o p) \o (q \o o) = b \o ((p \o q) \o o)
  <2>1. q \o o \in Seq(Parts) /\ (p \o q) \o o = p \o (q \o o)
    BY <1>1
  <2>2. (b \o p) \o (q \o o) = b \o (p \o (q \o o))
    <3>1. PICK z \in Seq(Parts) : z = q \o o
      BY <2>1
    <3>2. b \in Seq(Parts) /\ p \in Seq(Parts) /\ z \in Seq(Parts)
      BY <1>1
    <3>3. b \o p \in Seq(Parts) /\ b \o (p \o z) = (b \o p) \o z
      BY ONLY <3>2
    <3>4. QED BY <3>1, <3>3
  <2>3. QED BY <2>1, <2>2
<1>4. QED
  BY <1>2, <1>3 DEF p, q, Joined

\* A part that arrives moves from the server to the connection.
LEMMA Arrived ==
  ASSUME NEW S, NEW w \in Seq(S), NEW o \in Seq(S), o # << >>
  PROVE  /\ Append(w, Head(o)) \in Seq(S) /\ Tail(o) \in Seq(S)
         /\ Append(w, Head(o)) \o Tail(o) = w \o o
<1>1. Append(w, Head(o)) \in Seq(S) /\ Tail(o) \in Seq(S)
  OBVIOUS
<1>2. /\ Append(w, Head(o)) \o Tail(o) \in Seq(S)
      /\ Len(Append(w, Head(o)) \o Tail(o)) = Len(w \o o)
  BY <1>1
<1>3. \A i \in 1..Len(w \o o) : (Append(w, Head(o)) \o Tail(o))[i] = (w \o o)[i]
  OBVIOUS
<1>4. QED
  BY <1>1, <1>2, <1>3, SeqEqual

LEMMA ChainTail ==
  ASSUME NEW s \in Seq(Parts), s # << >>, Chain(s)
  PROVE  /\ Tail(s) \in Seq(Parts) /\ Chain(Tail(s))
         /\ Tail(s) # << >> => Follows(s[1].part, Tail(s)[1].part)
<1>1. Tail(s) \in Seq(Parts) /\ Len(Tail(s)) = Len(s) - 1
  OBVIOUS
<1>2. \A i \in 1..(Len(s) - 1) : Tail(s)[i] = s[i + 1]
  OBVIOUS
<1>3. \A i \in 1..(Len(s) - 1) : Follows(s[i].part, s[i + 1].part)
  BY DEF Chain
<1>4. Chain(Tail(s))
  BY <1>1, <1>2, <1>3 DEF Chain
<1>5. ASSUME Tail(s) # << >> PROVE Follows(s[1].part, Tail(s)[1].part)
  BY <1>1, <1>2, <1>3, <1>5
<1>6. QED
  BY <1>1, <1>4, <1>5

LEMMA ChainPrefix ==
  ASSUME NEW s \in Seq(Parts), NEW t \in Seq(Parts), Chain(s \o t)
  PROVE  Chain(s)
<1>1. Len(s \o t) = Len(s) + Len(t) /\ \A i \in 1..Len(s) : (s \o t)[i] = s[i]
  OBVIOUS
<1>2. QED
  BY <1>1 DEF Chain

\* What is left after the start of a chain is no header.
LEMMA ChainSuffix ==
  ASSUME NEW s \in Seq(Parts), NEW t \in Seq(Parts), s # << >>, Chain(s \o t)
  PROVE  Quiet(t)
<1>1. SUFFICES ASSUME t # << >> PROVE t[1].part \notin Expected["head"]
  BY DEF Quiet
<1>2. /\ Len(s \o t) = Len(s) + Len(t) /\ Len(s) > 0 /\ Len(t) > 0
      /\ (s \o t)[Len(s) + 1] = t[1]
  BY <1>1
<1>3. Follows((s \o t)[Len(s)].part, t[1].part)
  BY <1>2 DEF Chain
<1>4. QED
  BY <1>3, ExpectedParts DEF Follows

\* A connection the server has closed holds the start of what it would have.
LEMMA ClosedPrefix ==
  ASSUME NEW b \in Seq(Parts), NEW w \in Seq(Parts), NEW o \in Seq(Parts)
  PROVE  /\ w \o << >> = w
         /\ b \o w \in Seq(Parts)
         /\ b \o (w \o o) = (b \o w) \o o
OBVIOUS

LEMMA LongerByConcat ==
  ASSUME NEW s \in Seq(Parts), NEW t \in Seq(Parts), t # << >>
  PROVE  s \o t \in Seq(Parts) /\ s \o t # << >>
OBVIOUS

LEMMA FirstOfConcat ==
  ASSUME NEW s \in Seq(Parts), NEW t \in Seq(Parts), s # << >>
  PROVE  s \o t # << >> /\ (s \o t)[1] = s[1] /\ Head(s) = s[1]
OBVIOUS

LEMMA TailOfConcat ==
  ASSUME NEW s \in Seq(Parts), NEW t \in Seq(Parts), s # << >>
  PROVE  Tail(s) \o t = Tail(s \o t)
<1>1. Tail(s) \in Seq(Parts) /\ Len(Tail(s)) = Len(s) - 1 /\ s \o t \in Seq(Parts)
  OBVIOUS
<1>2. /\ Tail(s) \o t \in Seq(Parts) /\ Tail(s \o t) \in Seq(Parts)
      /\ Len(Tail(s) \o t) = Len(Tail(s \o t))
  BY <1>1
<1>3. \A i \in 1..Len(Tail(s \o t)) : (Tail(s) \o t)[i] = Tail(s \o t)[i]
  BY <1>1
<1>4. QED
  BY <1>2, <1>3, SeqEqual

\* What a user has still to parse, and what nobody has read, are parts.
LEMMA RestTypes ==
  ASSUME TypeOK
  PROVE  /\ \A c \in Conns : Unread(c) \in Seq(Parts)
         /\ \A u \in Users : conn[u] # None => Rest(u) \in Seq(Parts)
<1>1. \A c \in Conns : Unread(c) \in Seq(Parts)
  BY DEF TypeOK, Unread
<1>2. ASSUME NEW u \in Users, conn[u] # None PROVE Rest(u) \in Seq(Parts)
  <2>1. conn[u] \in Conns /\ buf[u] \in Seq(Parts)
    BY <1>2 DEF TypeOK
  <2>2. Unread(conn[u]) \in Seq(Parts)
    BY <1>1, <2>1
  <2>3. QED
    BY <2>1, <2>2 DEF Rest
<1>3. QED
  BY <1>1, <1>2

LEMMA QuietFirst ==
  ASSUME NEW s \in Seq(Parts), Quiet(s), NEW k \in Kinds, NEW r \in 1..MaxCalls
  PROVE  \/ Quiet(s \o Response(r, k))
         \/ /\ Chain(s \o Response(r, k))
            /\ (s \o Response(r, k))[1].req = r
<1> DEFINE t == Response(r, k)
<1>1. t \in Seq(Parts) /\ t # << >> /\ Chain(t) /\ t[1].req = r
  BY ResponseParts
<1> HIDE DEF t
<1>2. CASE s = << >>
  <2>1. s \o t = t
    BY <1>1, <1>2
  <2>2. QED
    BY <1>1, <2>1 DEF t
<1>3. CASE s # << >>
  <2>1. (s \o t)[1] = s[1]
    BY <1>1, <1>3, FirstOfConcat
  <2>2. Quiet(s \o t)
    BY <1>3, <2>1 DEF Quiet
  <2>3. QED
    BY <2>2 DEF t
<1>4. QED
  BY <1>2, <1>3

-----------------------------------------------------------------------------
(***************************************************************************)
(* The steps                                                               *)
(***************************************************************************)
LEMMA HttpInit == HttpAssumption /\ Init => HttpInv
<1>1. SUFFICES ASSUME HttpAssumption, Init PROVE HttpInv
  OBVIOUS
<1>2. << >> \in Seq(Conns) /\ << >> \in Seq(Parts)
  OBVIOUS
<1>3. pool \in Seq(Conns) /\ made \subseteq Conns
  BY <1>1, <1>2 DEF Init
<1>4. /\ open \in [Conns -> BOOLEAN] /\ peer \in [Conns -> BOOLEAN]
      /\ count \in [Conns -> Nat]
  BY <1>1 DEF Init
<1>5. /\ owed \in [Conns -> Seq(Parts)] /\ wire \in [Conns -> Seq(Parts)]
      /\ buf \in [Users -> Seq(Parts)]
  BY <1>1, <1>2 DEF Init
<1>6. calls \in 0..MaxCalls /\ 0 \in 0..MaxCalls
  BY <1>1 DEF Init, HttpAssumption
<1>7. /\ upc \in [Users -> {"idle", "send", "head", "body", "size", "data", "over", "end",
                             "stuck", "astray"}]
      /\ conn \in [Users -> Conns \cup {None}]
      /\ call \in [Users -> 0..MaxCalls] /\ head \in [Users -> 0..MaxCalls]
  BY <1>1, <1>6 DEF Init
<1>8. TypeOK
  BY <1>1, <1>3, <1>4, <1>5, <1>6, <1>7 DEF Init, TypeOK
<1>9. Places
  <2>1. DOMAIN pool = {}
    BY <1>1 DEF Init
  <2>2. \A u \in Users : conn[u] = None /\ upc[u] = "idle"
    BY <1>1 DEF Init
  <2>3. \A c \in Conns : open[c]
    BY <1>1 DEF Init
  <2>4. QED
    BY <2>1, <2>2, <2>3 DEF Places
<1>10. Resting
  <2>1. \A c \in Conns : Unread(c) = << >>
    BY <1>1 DEF Init, Unread
  <2>2. QED
    BY <2>1 DEF Resting, Quiet
<1>11. \A u \in Users : Local(u)
  BY <1>1 DEF Init, Local, Inside, Mid
<1>12. QED
  BY <1>8, <1>9, <1>10, <1>11 DEF HttpInv, Streams

\* A user that stays where it is keeps its part of the invariant as long as
\* what it has still to parse is the same, read or not.
LEMMA SameLocal ==
  ASSUME NEW v \in Users, Local(v),
         upc'[v] = upc[v], call'[v] = call[v], head'[v] = head[v],
         conn'[v] = conn[v], torn \subseteq torn',
         upc[v] \in {"idle", "send"} => buf'[v] = buf[v],
         upc[v] = "over" => buf'[v] # << >>,
         upc[v] \notin {"idle", "send"} => Rest(v)' = Rest(v)
  PROVE  Local(v)'
<1>1. conn[v] \notin torn => Inside(v)'
  BY DEF Local, Inside, Mid
<1>2. QED
  BY <1>1 DEF Local

\* Another user's step does not touch its connection.
LEMMA OtherLocal ==
  ASSUME NEW v \in Users, Local(v), Places,
         upc'[v] = upc[v], call'[v] = call[v], head'[v] = head[v],
         buf'[v] = buf[v], conn'[v] = conn[v], torn \subseteq torn',
         conn[v] # None => wire'[conn[v]] = wire[conn[v]] /\ owed'[conn[v]] = owed[conn[v]]
  PROVE  Local(v)'
<1>1. upc[v] # "idle" => Rest(v)' = Rest(v)
  BY DEF Places, Rest, Unread
<1>2. upc[v] = "over" => buf'[v] # << >>
  BY DEF Local
<1>3. QED
  BY <1>1, <1>2, SameLocal

LEMMA SamePlaces ==
  ASSUME Places, UNCHANGED <<pool, made, open, conn>>,
         \A u \in Users : upc'[u] = "idle" <=> upc[u] = "idle"
  PROVE  Places'
BY DEF Places

\* A connection goes back to the pool, or is deleted.  It may stay open only
\* when no header can be left in it, or it is torn.
LEMMA ReleaseStep ==
  ASSUME HttpAssumption, HttpInv, NEW u \in Users, upc[u] # "idle",
         NEW isOpen \in BOOLEAN, Release(u, isOpen),
         torn \subseteq torn', torn' \subseteq Conns, wire' \in [Conns -> Seq(Parts)],
         \A d \in Conns : d # conn[u] => wire'[d] = wire[d],
         conn[u] \in torn' \/ (UNCHANGED wire /\ (isOpen => Quiet(Unread(conn[u]))))
  PROVE  HttpInv'
<1> DEFINE c == conn[u]
<1> USE DEF HttpInv
<1>1. c \in Conns /\ c # None /\ c \in made /\ open[c]
  BY DEF HttpAssumption, TypeOK, Places
<1>2. PICK o \in BOOLEAN :
        /\ open' = [open EXCEPT ![c] = o]
        /\ o => isOpen
        /\ pool' = IF o THEN Append(pool, c) ELSE pool
        /\ count' = [count EXCEPT ![c] = @ + 1]
  <2> DEFINE o == isOpen /\ count'[c] < MaxRequest
  <2>1. o \in BOOLEAN
    OBVIOUS
  <2>2. open' = [open EXCEPT ![c] = o] /\ open'[c] = o
    BY <1>1 DEF Release, TypeOK
  <2>3. /\ pool' = IF o THEN Append(pool, c) ELSE pool
        /\ count' = [count EXCEPT ![c] = @ + 1]
    BY <2>2 DEF Release
  <2>4. o => isOpen
    OBVIOUS
  <2> HIDE DEF o
  <2>5. QED
    BY <2>1, <2>2, <2>3, <2>4
<1>3. /\ upc' = [upc EXCEPT ![u] = "idle"] /\ conn' = [conn EXCEPT ![u] = None]
      /\ call' = [call EXCEPT ![u] = 0] /\ head' = [head EXCEPT ![u] = 0]
      /\ buf' = [buf EXCEPT ![u] = << >>]
      /\ UNCHANGED <<made, calls, peer, owed>>
  BY DEF Release, serverVars
<1>9. /\ \A d \in Conns : d # c => wire'[d] = wire[d]
      /\ c \in torn' \/ (UNCHANGED wire /\ (isOpen => Quiet(Unread(c))))
  OBVIOUS
<1> HIDE DEF c
<1>4. TypeOK'
  <2>1. pool' \in Seq(Conns) /\ made' \subseteq Conns
    <3>1. pool \in Seq(Conns) /\ made \subseteq Conns
      BY DEF TypeOK
    <3>2. Append(pool, c) \in Seq(Conns)
      BY <1>1, <3>1
    <3>3. QED
      BY <1>2, <1>3, <3>1, <3>2
  <2>2. /\ open' \in [Conns -> BOOLEAN] /\ peer' \in [Conns -> BOOLEAN]
        /\ count' \in [Conns -> Nat]
    <3>1. open \in [Conns -> BOOLEAN] /\ peer \in [Conns -> BOOLEAN] /\ count \in [Conns -> Nat]
      BY DEF TypeOK
    <3>2. count' \in [Conns -> Nat]
      BY ONLY <1>1, <1>2, <3>1, SMT
    <3>3. open' \in [Conns -> BOOLEAN] /\ peer' \in [Conns -> BOOLEAN]
      BY ONLY <1>1, <1>2, <1>3, <3>1, Zenon
    <3>4. QED
      BY <3>2, <3>3
  <2>3. owed' \in [Conns -> Seq(Parts)]
    BY <1>3 DEF TypeOK
  <2>4. calls' \in 0..MaxCalls /\ 0 \in 0..MaxCalls
    BY <1>3 DEF TypeOK, HttpAssumption
  <2>5. /\ upc' \in [Users -> {"idle", "send", "head", "body", "size", "data", "over",
                               "end", "stuck", "astray"}]
        /\ conn' \in [Users -> Conns \cup {None}]
        /\ call' \in [Users -> 0..MaxCalls] /\ head' \in [Users -> 0..MaxCalls]
    BY <1>3, <2>4 DEF TypeOK
  <2>6. buf' \in [Users -> Seq(Parts)]
    <3>1. << >> \in Seq(Parts)
      OBVIOUS
    <3>2. QED
      BY <1>3, <3>1 DEF TypeOK
  <2>7. QED
    BY <2>1, <2>2, <2>3, <2>4, <2>5, <2>6 DEF TypeOK
<1>5. Places'
  <2>1. /\ conn'[u] = None /\ upc'[u] = "idle"
        /\ \A v \in Users \ {u} : conn'[v] = conn[v] /\ upc'[v] = upc[v] /\ conn[v] # c
    BY <1>1, <1>3 DEF TypeOK, Places, c
  <2>2. open'[c] = o /\ \A d \in Conns \ {c} : open'[d] = open[d]
    BY <1>1, <1>2 DEF TypeOK
  <2>3. \A i \in DOMAIN pool : pool[i] # c /\ pool[i] \in Conns
    BY <1>1 DEF TypeOK, Places, c
  <2>4. CASE o
    <3>1. /\ pool' = Append(pool, c) /\ pool \in Seq(Conns)
          /\ DOMAIN pool = 1..Len(pool) /\ DOMAIN pool' = 1..(Len(pool) + 1)
          /\ pool'[Len(pool) + 1] = c /\ \A i \in DOMAIN pool : pool'[i] = pool[i]
      <4>1. pool \in Seq(Conns) /\ pool' = Append(pool, c)
        BY <1>2, <2>4 DEF TypeOK
      <4>2. QED
        BY <1>1, <4>1
    <3>2. \A i \in DOMAIN pool' : pool'[i] \in made' /\ open'[pool'[i]]
      <4>1. ASSUME NEW i \in DOMAIN pool PROVE pool'[i] \in made' /\ open'[pool'[i]]
        <5>1. pool[i] \in made /\ open[pool[i]]
          BY DEF Places
        <5>2. QED
          BY <1>3, <2>2, <2>3, <3>1, <5>1
      <4>2. c \in made' /\ open'[c]
        BY <1>1, <1>3, <2>2, <2>4
      <4>3. \A i \in DOMAIN pool' : i \in DOMAIN pool \/ pool'[i] = c
        BY <3>1
      <4>4. QED
        BY <4>1, <4>2, <4>3
    <3>3. \A i, j \in DOMAIN pool' : pool'[i] = pool'[j] => i = j
      BY <2>3, <3>1 DEF Places
    <3>4. ASSUME NEW v \in Users, conn'[v] # None, NEW i \in DOMAIN pool'
          PROVE  pool'[i] # conn'[v]
      <4>1. v # u /\ conn'[v] = conn[v] /\ conn[v] # c
        BY <2>1, <3>4
      <4>2. CASE i \in DOMAIN pool
        BY <3>1, <3>4, <4>1, <4>2 DEF Places
      <4>3. CASE i \notin DOMAIN pool
        BY <3>1, <4>1, <4>3
      <4>4. QED
        BY <4>2, <4>3
    <3>5. \A v \in Users : conn'[v] # None =>
            /\ conn'[v] \in made' /\ open'[conn'[v]]
            /\ \A w \in Users : w # v => conn'[w] # conn'[v]
      BY <1>3, <2>1, <2>2 DEF Places, TypeOK
    <3>6. \A d \in Conns : d \notin made' => open'[d]
      BY <1>1, <1>3, <2>2 DEF Places
    <3>7. \A v \in Users : conn'[v] = None <=> upc'[v] = "idle"
      BY <2>1 DEF Places
    <3>8. QED
      BY <3>2, <3>3, <3>4, <3>5, <3>6, <3>7 DEF Places
  <2>5. CASE ~o
    <3>1. pool' = pool
      BY <1>2, <2>5
    <3>2. \A i \in DOMAIN pool' : pool'[i] \in made' /\ open'[pool'[i]]
      BY <1>3, <2>2, <2>3, <3>1 DEF Places
    <3>3. \A v \in Users : conn'[v] # None =>
            /\ conn'[v] \in made' /\ open'[conn'[v]]
            /\ \A i \in DOMAIN pool' : pool'[i] # conn'[v]
            /\ \A w \in Users : w # v => conn'[w] # conn'[v]
      BY <1>3, <2>1, <2>2, <3>1 DEF Places, TypeOK
    <3>4. \A d \in Conns : d \notin made' => open'[d]
      BY <1>1, <1>3, <2>2 DEF Places
    <3>5. \A v \in Users : conn'[v] = None <=> upc'[v] = "idle"
      BY <2>1 DEF Places
    <3>6. QED
      BY <3>1, <3>2, <3>3, <3>4, <3>5 DEF Places
  <2>6. QED
    BY <2>4, <2>5
<1>6. Resting'
  <2>1. SUFFICES ASSUME NEW d \in Conns \ torn', open'[d],
                        \A v \in Users : conn'[v] = d => upc'[v] = "send"
                 PROVE  Quiet(Unread(d))'
    BY DEF Resting
  <2>2. Unread(d)' = Unread(d)
    BY <1>3, <1>9 DEF Unread
  <2>3. Quiet(Unread(d))
    <3>1. CASE d = c
      <4>1. open'[c] = o
        BY <1>1, <1>2 DEF TypeOK
      <4>2. QED
        BY <1>2, <1>9, <2>1, <3>1, <4>1
    <3>2. CASE d # c
      <4>1. open[d]
        BY <1>2, <2>1, <3>2 DEF TypeOK
      <4>2. \A v \in Users : conn[v] = d => upc[v] = "send"
        BY <1>3, <2>1, <3>2 DEF TypeOK, c
      <4>3. QED
        BY <4>1, <4>2 DEF Streams, Resting
    <3>3. QED
      BY <3>1, <3>2
  <2>4. QED
    BY <2>2, <2>3 DEF Quiet
<1>7. ASSUME NEW v \in Users PROVE Local(v)'
  <2>1. CASE v = u
    BY <1>3, <2>1 DEF TypeOK, Local, Inside, Mid
  <2>2. CASE v # u
    <3>1. /\ upc'[v] = upc[v] /\ call'[v] = call[v] /\ head'[v] = head[v]
          /\ buf'[v] = buf[v] /\ conn'[v] = conn[v]
      BY <1>3, <2>2 DEF TypeOK
    <3>2. conn[v] # None => conn[v] \in Conns /\ conn[v] # c
      BY <1>1, <2>2 DEF TypeOK, Places, c
    <3>3. conn[v] # None => wire'[conn[v]] = wire[conn[v]] /\ owed'[conn[v]] = owed[conn[v]]
      BY <1>3, <1>9, <3>2
    <3>4. QED
      BY <3>1, <3>3, OtherLocal DEF Streams
  <2>3. QED
    BY <2>1, <2>2
<1>8. QED
  BY <1>4, <1>5, <1>6, <1>7 DEF Streams

\* A user that keeps its connection and is not about to send changes what is
\* unread in its own connection only.
LEMMA StayResting ==
  ASSUME Resting, NEW u \in Users, UNCHANGED <<open, conn, torn>>, upc'[u] # "send",
         \A v \in Users : v # u => upc'[v] = upc[v],
         \A d \in Conns : d # conn[u] => Unread(d)' = Unread(d)
  PROVE  Resting'
<1>1. SUFFICES ASSUME NEW d \in Conns \ torn, open'[d],
                      \A v \in Users : conn'[v] = d => upc'[v] = "send"
               PROVE  Quiet(Unread(d))'
  BY DEF Resting
<1>2. d # conn[u]
  BY <1>1
<1>3. Quiet(Unread(d))
  BY <1>1, <1>2 DEF Resting
<1>4. Unread(d)' = Unread(d)
  BY <1>2
<1>5. QED
  BY <1>3, <1>4 DEF Quiet

\* The user gets a connection nobody has; what is left of the pool was there.
Takes(u, c) ==
  /\ conn' = [conn EXCEPT ![u] = c]
  /\ c \in made' /\ made \subseteq made' /\ made' \subseteq Conns
  /\ open[c] /\ \A v \in Users : conn[v] # c
  /\ pool' \in Seq(Conns)
  /\ \A i \in DOMAIN pool' : pool'[i] # c /\ \E j \in DOMAIN pool : pool[j] = pool'[i]
  /\ \A i, j \in DOMAIN pool' : pool'[i] = pool'[j] => i = j

LEMMA GetConnectionStep ==
  ASSUME HttpAssumption, HttpInv, NEW u \in Users, GetConnection(u)
  PROVE  HttpInv'
<1> USE DEF HttpInv
<1>1. /\ upc[u] = "idle" /\ conn[u] = None /\ buf[u] = << >> /\ head[u] = 0
      /\ upc' = [upc EXCEPT ![u] = "send"] /\ calls' = calls + 1 /\ calls < MaxCalls
      /\ call' = [call EXCEPT ![u] = calls + 1]
      /\ UNCHANGED <<open, count, torn, peer, owed, wire, head, buf>>
  BY DEF GetConnection, Places, Streams, Local, serverVars
<1>2. PICK c \in Conns : Takes(u, c)
  <2>1. pool \in Seq(Conns) /\ DOMAIN pool = 1..Len(pool) /\ Len(pool) \in Nat
    BY DEF TypeOK
  <2>2. ASSUME NEW i \in DOMAIN pool, open[pool[i]],
               conn' = [conn EXCEPT ![u] = pool[i]],
               pool' = SubSeq(pool, i + 1, Len(pool)), made' = made
        PROVE  \E c \in Conns : Takes(u, c)
    <3>1. pool[i] \in Conns /\ pool[i] \in made
      BY <2>1, <2>2 DEF Places
    <3>2. \A v \in Users : conn[v] # pool[i]
      BY <2>2, <3>1 DEF Places, HttpAssumption
    <3>3. /\ pool' \in Seq(Conns) /\ DOMAIN pool' = 1..(Len(pool) - i)
          /\ \A j \in 1..(Len(pool) - i) : pool'[j] = pool[i + j]
      BY <2>1, <2>2
    <3>4. \A j \in DOMAIN pool' : i + j \in DOMAIN pool /\ i + j # i
      BY <2>1, <2>2, <3>3
    <3>5. \A j, k \in DOMAIN pool' : i + j = i + k => j = k
      BY <2>1, <2>2, <3>3
    <3>6. \A j \in DOMAIN pool' : pool'[j] # pool[i] /\ \E k \in DOMAIN pool : pool[k] = pool'[j]
      BY <2>2, <3>3, <3>4 DEF Places
    <3>7. ASSUME NEW j \in DOMAIN pool', NEW k \in DOMAIN pool', pool'[j] = pool'[k]
          PROVE  j = k
      <4>1. pool[i + j] = pool[i + k]
        BY <3>3, <3>7
      <4>2. i + j = i + k
        BY <3>4, <4>1 DEF Places
      <4>3. QED
        BY <3>5, <4>2
    <3>8. made \subseteq Conns
      BY DEF TypeOK
    <3>9. Takes(u, pool[i])
      BY <2>2, <3>1, <3>2, <3>3, <3>6, <3>7, <3>8 DEF Takes
    <3>10. QED
      BY <3>1, <3>9
  <2>3. ASSUME NEW c \in Conns \ made,
               conn' = [conn EXCEPT ![u] = c], made' = made \cup {c}, pool' = << >>
        PROVE  Takes(u, c)
    <3>1. open[c] /\ \A v \in Users : conn[v] # c
      BY <2>3 DEF Places, HttpAssumption
    <3>2. pool' \in Seq(Conns) /\ DOMAIN pool' = {}
      BY <2>3
    <3>3. made \subseteq Conns
      BY DEF TypeOK
    <3>4. QED
      BY <2>3, <3>1, <3>2, <3>3 DEF Takes
  <2>4. QED
    BY <2>2, <2>3 DEF GetConnection
<1>3. TypeOK'
  <2>1. /\ open' \in [Conns -> BOOLEAN] /\ peer' \in [Conns -> BOOLEAN] /\ torn' \subseteq Conns
        /\ count' \in [Conns -> Nat] /\ owed' \in [Conns -> Seq(Parts)]
        /\ wire' \in [Conns -> Seq(Parts)] /\ buf' \in [Users -> Seq(Parts)]
        /\ head' \in [Users -> 0..MaxCalls]
    BY <1>1 DEF TypeOK
  <2>2. calls' \in 0..MaxCalls
    BY <1>1 DEF TypeOK, HttpAssumption
  <2>3. call' \in [Users -> 0..MaxCalls]
    BY <1>1, <2>2 DEF TypeOK
  <2>4. /\ upc' \in [Users -> {"idle", "send", "head", "body", "size", "data", "over",
                               "end", "stuck", "astray"}]
        /\ conn' \in [Users -> Conns \cup {None}]
    BY <1>1, <1>2 DEF TypeOK, Takes
  <2>5. QED
    BY <1>2, <2>1, <2>2, <2>3, <2>4 DEF TypeOK, Takes
<1>4. /\ conn'[u] = c /\ upc'[u] = "send"
      /\ \A v \in Users \ {u} : conn'[v] = conn[v] /\ upc'[v] = upc[v]
  BY <1>1, <1>2 DEF TypeOK, Takes
<1>5. Places'
  <2>1. \A i \in DOMAIN pool' : pool'[i] \in made' /\ open'[pool'[i]]
    BY <1>1, <1>2 DEF Places, Takes
  <2>2. \A v \in Users : conn'[v] = None <=> upc'[v] = "idle"
    BY <1>4 DEF Places, HttpAssumption
  <2>3. \A v \in Users : conn'[v] # None =>
          /\ conn'[v] \in made' /\ open'[conn'[v]]
          /\ \A w \in Users : w # v => conn'[w] # conn'[v]
    BY <1>1, <1>2, <1>4 DEF Places, Takes
  <2>4. ASSUME NEW v \in Users, conn'[v] # None, NEW i \in DOMAIN pool'
        PROVE  pool'[i] # conn'[v]
    <3>1. CASE v = u
      BY <1>2, <1>4, <3>1 DEF Takes
    <3>2. CASE v # u
      BY <1>2, <1>4, <2>4, <3>2 DEF Places, Takes
    <3>3. QED
      BY <3>1, <3>2
  <2>5. \A d \in Conns : d \notin made' => open'[d]
    BY <1>1, <1>2 DEF Places, Takes
  <2>6. QED
    BY <1>2, <2>1, <2>2, <2>3, <2>4, <2>5 DEF Places, Takes
<1>6. \A d \in Conns : Unread(d)' = Unread(d)
  BY <1>1 DEF Unread
<1>7. Resting'
  <2>1. SUFFICES ASSUME NEW d \in Conns \ torn, open'[d],
                        \A v \in Users : conn'[v] = d => upc'[v] = "send"
                 PROVE  Quiet(Unread(d))'
    BY <1>1 DEF Resting
  <2>2. \A v \in Users : conn[v] = d => upc[v] = "send"
    BY <1>1, <1>4, <2>1 DEF HttpAssumption
  <2>3. Quiet(Unread(d))
    BY <1>1, <2>1, <2>2 DEF Streams, Resting
  <2>4. QED
    BY <1>6, <2>3 DEF Quiet
<1>8. ASSUME NEW v \in Users PROVE Local(v)'
  <2>1. CASE v = u
    <3>1. call'[u] # 0
      BY <1>1 DEF TypeOK
    <3>2. QED
      BY <1>1, <1>4, <2>1, <3>1 DEF Local, Inside, Mid
  <2>2. CASE v # u
    <3>1. /\ upc'[v] = upc[v] /\ call'[v] = call[v] /\ head'[v] = head[v]
          /\ buf'[v] = buf[v] /\ conn'[v] = conn[v]
      BY <1>1, <1>4, <2>2 DEF TypeOK
    <3>2. wire' = wire /\ owed' = owed /\ torn' = torn
      BY <1>1
    <3>3. QED
      BY <3>1, <3>2, OtherLocal DEF Streams
  <2>3. QED
    BY <2>1, <2>2
<1>9. QED
  BY <1>3, <1>5, <1>7, <1>8 DEF Streams

\* A step of a user that keeps its connection disturbs nobody else.
LEMMA StayStep ==
  ASSUME HttpAssumption, HttpInv, NEW u \in Users, upc[u] # "idle",
         upc'[u] \notin {"idle", "send"}, UNCHANGED <<pool, made, open, torn, conn, call>>,
         \A v \in Users \ {u} : upc'[v] = upc[v] /\ head'[v] = head[v] /\ buf'[v] = buf[v],
         \A d \in Conns \ {conn[u]} : wire'[d] = wire[d] /\ owed'[d] = owed[d],
         TypeOK', Local(u)'
  PROVE  HttpInv'
<1> USE DEF HttpInv
<1>1. Places'
  BY SamePlaces
<1>2. Resting'
  <2>1. \A d \in Conns : d # conn[u] => Unread(d)' = Unread(d)
    BY DEF Unread
  <2>2. QED
    BY <2>1, StayResting DEF Streams
<1>3. ASSUME NEW v \in Users, v # u PROVE Local(v)'
  <2>1. conn[v] # None => conn[v] \in Conns \ {conn[u]}
    BY <1>3 DEF TypeOK, Places
  <2>2. conn[v] # None => wire'[conn[v]] = wire[conn[v]] /\ owed'[conn[v]] = owed[conn[v]]
    BY <2>1
  <2>3. /\ upc'[v] = upc[v] /\ call'[v] = call[v] /\ head'[v] = head[v]
        /\ buf'[v] = buf[v] /\ conn'[v] = conn[v]
    BY <1>3
  <2>4. QED
    BY <2>2, <2>3, OtherLocal DEF Streams
<1>4. QED
  BY <1>1, <1>2, <1>3 DEF Streams

LEMMA SendStep ==
  ASSUME HttpAssumption, HttpInv, NEW u \in Users, Send(u)
  PROVE  HttpInv'
<1> DEFINE c == conn[u]
<1> USE DEF HttpInv
<1>1. /\ upc[u] = "send" /\ c \in Conns /\ c # None /\ open[c]
      /\ UNCHANGED <<pool, made, open, count, torn, peer, wire, calls, conn, call, head, buf>>
  BY DEF Send, poolVars, Places, TypeOK
<1>2. buf[u] = << >> /\ head[u] = 0 /\ call[u] \in 1..MaxCalls
  BY <1>1 DEF Streams, Local, TypeOK, HttpAssumption
<1>3. (c \notin torn => Quiet(Unread(c))) /\ Unread(c) \in Seq(Parts)
  <2>1. \A v \in Users : conn[v] = c => upc[v] = "send"
    BY <1>1 DEF Places
  <2>2. QED
    BY <1>1, <2>1, RestTypes DEF Streams, Resting
<1>4. PICK p \in {"head", "stuck"} : upc' = [upc EXCEPT ![u] = p]
  BY DEF Send
<1>5. \/ owed' = owed
      \/ \E k \in Kinds : owed' = [owed EXCEPT ![c] = @ \o Response(call[u], k)]
  BY DEF Send
<1>6. owed' \in [Conns -> Seq(Parts)] /\ \A d \in Conns \ {c} : owed'[d] = owed[d]
  <2>1. CASE owed' = owed
    BY <2>1 DEF TypeOK
  <2>2. ASSUME NEW k \in Kinds, owed' = [owed EXCEPT ![c] = @ \o Response(call[u], k)]
        PROVE  <1>6
    <3>1. Response(call[u], k) \in Seq(Parts) /\ owed[c] \in Seq(Parts)
      BY <1>1, <1>2, ResponseParts DEF TypeOK
    <3>2. owed[c] \o Response(call[u], k) \in Seq(Parts)
      BY <3>1
    <3>3. QED
      BY <2>2, <3>2 DEF TypeOK
  <2>3. QED
    BY <1>5, <2>1, <2>2
<1>7. TypeOK'
  <2>1. upc' \in [Users -> {"idle", "send", "head", "body", "size", "data", "over", "end",
                            "stuck", "astray"}]
    BY <1>4 DEF TypeOK
  <2>2. QED
    BY <1>1, <1>6, <2>1 DEF TypeOK
<1>8. Local(u)'
  <2>1. upc'[u] = p /\ buf'[u] = << >> /\ head'[u] = 0 /\ conn'[u] = c
    BY <1>1, <1>2, <1>4 DEF TypeOK
  <2>2. Rest(u)' = Unread(c)' /\ call'[u] = call[u]
    <3>1. Unread(c)' \in Seq(Parts)
      BY <1>1, <1>7, <1>6 DEF Unread, TypeOK
    <3>2. << >> \o Unread(c)' = Unread(c)'
      BY <3>1
    <3>3. QED
      BY <1>1, <2>1, <3>2 DEF Rest, Unread
  <2>3. CASE c \in torn
    BY <1>1, <2>1, <2>3 DEF Local
  <2>4. ASSUME c \notin torn
        PROVE  \/ Quiet(Unread(c)')
               \/ Chain(Unread(c)') /\ Unread(c)'[1].req = call[u]
    <3>1. CASE owed' = owed
      <4>1. Unread(c)' = Unread(c)
        BY <1>1, <3>1 DEF Unread
      <4>2. QED
        BY <1>3, <2>4, <4>1
    <3>2. ASSUME NEW k \in Kinds, owed' = [owed EXCEPT ![c] = @ \o Response(call[u], k)]
          PROVE  \/ Quiet(Unread(c)')
                 \/ Chain(Unread(c)') /\ Unread(c)'[1].req = call[u]
      <4>1. Response(call[u], k) \in Seq(Parts)
        BY <1>2, ResponseParts
      <4>2. wire[c] \in Seq(Parts) /\ owed[c] \in Seq(Parts)
        BY <1>1 DEF TypeOK
      <4>3. wire[c] \o (owed[c] \o Response(call[u], k)) =
              (wire[c] \o owed[c]) \o Response(call[u], k)
        <5>1. PICK w \in Seq(Parts) : w = wire[c]
          BY <4>2
        <5>2. PICK o \in Seq(Parts) : o = owed[c]
          BY <4>2
        <5>3. PICK t \in Seq(Parts) : t = Response(call[u], k)
          BY <4>1
        <5>4. w \o (o \o t) = (w \o o) \o t
          OBVIOUS
        <5>5. QED
          BY <5>1, <5>2, <5>3, <5>4
      <4>4. Unread(c)' = Unread(c) \o Response(call[u], k)
        BY <1>1, <3>2, <4>3 DEF Unread, TypeOK
      <4>5. \/ Quiet(Unread(c) \o Response(call[u], k))
            \/ /\ Chain(Unread(c) \o Response(call[u], k))
               /\ (Unread(c) \o Response(call[u], k))[1].req = call[u]
        BY <1>2, <1>3, <2>4, QuietFirst
      <4>6. QED
        BY <4>4, <4>5
    <3>3. QED
      BY <1>5, <3>1, <3>2
  <2>5. ASSUME c \notin torn PROVE Inside(u)'
    BY <2>1, <2>2, <2>4, <2>5 DEF Inside, Mid
  <2>6. QED
    BY <1>1, <2>1, <2>3, <2>5 DEF Local
<1>9. QED
  <2>1. upc[u] # "idle" /\ upc'[u] \notin {"idle", "send"}
    BY <1>1, <1>4 DEF TypeOK
  <2>2. \A v \in Users \ {u} : upc'[v] = upc[v] /\ head'[v] = head[v] /\ buf'[v] = buf[v]
    BY <1>1, <1>4 DEF TypeOK
  <2>3. \A d \in Conns \ {conn[u]} : wire'[d] = wire[d] /\ owed'[d] = owed[d]
    BY <1>1, <1>6
  <2>4. UNCHANGED <<pool, made, open, torn, conn, call>>
    BY <1>1
  <2>5. QED
    BY <1>7, <1>8, <2>1, <2>2, <2>3, <2>4, StayStep

\* A read, of a user inside a response, before one, or beyond its chunk.
LEMMA ReadsStep ==
  ASSUME HttpAssumption, HttpInv, NEW u \in Users, upc[u] \in Mid \cup {"head", "over", "astray"},
         Reads(u), UNCHANGED <<poolVars, serverVars, calls, upc, conn, call, head>>
  PROVE  HttpInv'
<1> DEFINE c == conn[u]
<1> USE DEF HttpInv
<1>1. c \in Conns /\ c # None /\ upc[u] # "idle"
  BY DEF Mid, Places, TypeOK
<1>2. /\ UNCHANGED <<pool, made, open, count, torn, peer, owed, calls, upc, conn, call, head>>
      /\ wire[c] \in Seq(Parts) /\ buf[u] \in Seq(Parts) /\ owed[c] \in Seq(Parts)
  BY <1>1 DEF poolVars, serverVars, TypeOK
<1>3. PICK n \in 1..Len(wire[c]) :
        /\ buf' = [buf EXCEPT ![u] = @ \o SubSeq(wire[c], 1, n)]
        /\ wire' = [wire EXCEPT ![c] = SubSeq(@, n + 1, Len(@))]
  BY DEF Reads
<1>4. PICK q : q = SubSeq(wire[c], n + 1, Len(wire[c])) /\ q \in Seq(Parts)
  BY <1>2, <1>3, Split
<1>5. PICK b : b = buf[u] \o SubSeq(wire[c], 1, n) /\ b \in Seq(Parts) /\ b # << >>
  <2>1. PICK p : p = SubSeq(wire[c], 1, n) /\ p \in Seq(Parts) /\ p # << >>
    BY <1>2, <1>3, Split
  <2>2. buf[u] \o p \in Seq(Parts) /\ buf[u] \o p # << >>
    BY <1>2, <2>1, LongerByConcat
  <2>3. QED
    BY <2>1, <2>2
<1>6. Joined(b, q, owed[c]) = Joined(buf[u], wire[c], owed[c])
  BY <1>2, <1>3, <1>4, <1>5, Moved
<1>7. buf' = [buf EXCEPT ![u] = b] /\ wire' = [wire EXCEPT ![c] = q]
  BY <1>3, <1>4, <1>5
<1>8. TypeOK'
  <2>1. buf' \in [Users -> Seq(Parts)] /\ wire' \in [Conns -> Seq(Parts)]
    BY <1>1, <1>4, <1>5, <1>7 DEF TypeOK
  <2>2. QED
    BY <1>2, <2>1 DEF TypeOK
<1>9. Rest(u)' = Rest(u)
  <2>1. buf'[u] = b /\ wire'[c] = q
    BY <1>1, <1>7 DEF TypeOK
  <2>2. QED
    BY <1>2, <1>6, <2>1 DEF Rest, Unread, Joined
<1>10. Local(u)'
  <2>1. buf'[u] # << >> /\ upc[u] \notin {"idle", "send"}
    BY <1>5, <1>7 DEF TypeOK, Mid
  <2>2. /\ upc'[u] = upc[u] /\ call'[u] = call[u] /\ head'[u] = head[u]
        /\ conn'[u] = conn[u] /\ torn' = torn
    BY <1>2
  <2>3. QED
    BY <1>9, <2>1, <2>2, SameLocal DEF Streams
<1>11. QED
  <2>1. upc'[u] \notin {"idle", "send"}
    BY <1>2 DEF Mid
  <2>2. \A v \in Users \ {u} : upc'[v] = upc[v] /\ head'[v] = head[v] /\ buf'[v] = buf[v]
    BY <1>2, <1>7 DEF TypeOK
  <2>3. \A d \in Conns \ {conn[u]} : wire'[d] = wire[d] /\ owed'[d] = owed[d]
    BY <1>2, <1>7 DEF TypeOK
  <2>4. UNCHANGED <<pool, made, open, torn, conn, call>>
    BY <1>2
  <2>5. QED
    BY <1>1, <1>8, <1>10, <2>1, <2>2, <2>3, <2>4, StayStep

\* A user that has begun a response has only parts of it to parse, and
\* whatever it has not read is no header.
LEMMA Begun ==
  ASSUME HttpAssumption, HttpInv, NEW u \in Users, buf[u] # << >>, conn[u] \notin torn,
         \/ upc[u] = "over"
         \/ /\ upc[u] \in Mid \cup {"head"}
            /\ Head(buf[u]).part \in Expected[upc[u]]
  PROVE  /\ Rest(u) \in Seq(Parts) /\ Chain(Rest(u))
         /\ Rest(u) # << >> /\ Rest(u)[1] = Head(buf[u])
         /\ upc[u] = "head" => Rest(u)[1].req = call[u]
         /\ Quiet(Unread(conn[u]))
<1> USE DEF HttpInv
<1>1. conn[u] # None /\ conn[u] \in Conns /\ buf[u] \in Seq(Parts)
  BY DEF Mid, Places, TypeOK
<1>2. Unread(conn[u]) \in Seq(Parts) /\ Rest(u) \in Seq(Parts)
  BY <1>1, RestTypes
<1>3. Rest(u) # << >> /\ Rest(u)[1] = Head(buf[u])
  BY <1>1, <1>2, FirstOfConcat DEF Rest
<1>4. CASE upc[u] = "head"
  <2>1. ~Quiet(Rest(u))
    BY <1>3, <1>4 DEF Quiet, Expected
  <2>2. Chain(Rest(u)) /\ Rest(u)[1].req = call[u]
    BY <1>4, <2>1 DEF Streams, Local, Inside
  <2>3. QED
    BY <1>1, <1>2, <1>3, <2>2, ChainSuffix DEF Rest
<1>5. CASE upc[u] \in Mid \cup {"over"}
  <2>1. Chain(Rest(u))
    BY <1>5 DEF Streams, Local, Inside
  <2>2. upc[u] # "head"
    BY <1>5 DEF Mid
  <2>3. QED
    BY <1>1, <1>2, <1>3, <2>1, <2>2, ChainSuffix DEF Rest
<1>6. QED
  BY <1>4, <1>5

LEMMA ParseStep ==
  ASSUME HttpAssumption, HttpInv, NEW u \in Users, Parse(u)
  PROVE  HttpInv'
<1> DEFINE c == conn[u]
           part == Head(buf[u]).part
           rest == Tail(buf[u])
           cut == part = "size" /\ Len(rest) = 1
<1> USE DEF HttpInv
<1>1. /\ upc[u] \in Mid \cup {"head"} /\ buf[u] # << >> /\ part \in Expected[upc[u]]
      /\ wire' = wire /\ upc[u] # "idle" /\ c \in Conns /\ c # None
  BY DEF Parse, Mid, Places, TypeOK
<1>2. c \notin torn =>
        /\ Rest(u) \in Seq(Parts) /\ Chain(Rest(u))
        /\ Rest(u) # << >> /\ Rest(u)[1] = Head(buf[u])
        /\ upc[u] = "head" => Rest(u)[1].req = call[u]
        /\ Quiet(Unread(c))
  BY <1>1, Begun
<1>3. CASE part \in {"head", "body", "end"}
  <2>1. Release(u, TRUE) /\ torn' = torn
    BY <1>3 DEF Parse
  <2>2. torn \subseteq Conns /\ wire \in [Conns -> Seq(Parts)]
    BY DEF TypeOK
  <2>3. QED
    BY <1>1, <1>2, <2>1, <2>2, ReleaseStep
<1>4. CASE part \notin {"head", "body", "end"}
  <2>1. /\ upc' = [upc EXCEPT ![u] =
             CASE part = "length"  -> "body"
               [] part = "chunked" -> "size"
               [] cut              -> "over"
               [] part \in {"size", "part1"} /\ ~cut -> "data"
               [] part = "part2" -> "end"]
        /\ buf' = [buf EXCEPT ![u] = rest]
        /\ head' = IF upc[u] = "head" THEN [head EXCEPT ![u] = Head(buf[u]).req] ELSE head
        /\ UNCHANGED <<pool, made, open, count, torn, peer, owed, wire, calls, conn, call>>
    BY <1>1, <1>4 DEF Parse, poolVars, serverVars
  <2>2. part \in {"length", "chunked", "size", "part1", "part2"}
    BY <1>1, <1>4, ExpectedParts DEF Mid
  <2> HIDE DEF rest
  <2>3. PICK p \in {"body", "size", "over", "data", "end"} :
          /\ upc' = [upc EXCEPT ![u] = p]
          /\ p = "over" => rest # << >>
          /\ p # "over" => \A x : Follows(part, x) => x \in Expected[p]
    <3>1. CASE part = "length"
      BY <2>1, <3>1, ExpectedParts DEF Follows
    <3>2. CASE part = "chunked"
      BY <2>1, <3>2, ExpectedParts DEF Follows
    <3>3. CASE cut
      <4>1. upc' = [upc EXCEPT ![u] = "over"]
        BY <2>1, <3>3
      <4>2. QED
        BY <3>3, <4>1
    <3>4. CASE part = "size" /\ ~cut
      BY <2>1, <3>4, ExpectedParts DEF Follows
    <3>5. CASE part = "part1"
      BY <2>1, <3>5, ExpectedParts DEF Follows
    <3>6. CASE part = "part2"
      BY <2>1, <3>6, ExpectedParts DEF Follows
    <3>7. QED
      BY <2>2, <3>1, <3>2, <3>3, <3>4, <3>5, <3>6
  <2>4. /\ buf[u] \in Seq(Parts) /\ rest \in Seq(Parts) /\ Head(buf[u]) \in Parts
        /\ Unread(c) \in Seq(Parts)
    BY <1>1, RestTypes DEF TypeOK, rest
  <2>5. PICK h \in 0..MaxCalls :
          /\ head' = [head EXCEPT ![u] = h]
          /\ c \notin torn => h \in {0, call[u]}
    <3>1. CASE upc[u] = "head"
      <4>1. Head(buf[u]).req \in 0..MaxCalls
        BY <2>4 DEF Parts
      <4>2. QED
        BY <1>2, <2>1, <3>1, <4>1
    <3>2. CASE upc[u] # "head"
      BY <2>1, <3>2 DEF TypeOK, Streams, Local
    <3>3. QED
      BY <3>1, <3>2
  <2>6. TypeOK'
    <3>1. upc' \in [Users -> {"idle", "send", "head", "body", "size", "data", "over", "end",
                              "stuck", "astray"}]
      BY <2>3 DEF TypeOK
    <3>2. buf' \in [Users -> Seq(Parts)] /\ head' \in [Users -> 0..MaxCalls]
      BY <2>1, <2>4, <2>5 DEF TypeOK
    <3>3. QED
      BY <2>1, <3>1, <3>2 DEF TypeOK
  <2>7. Local(u)'
    <3>1. upc'[u] = p /\ buf'[u] = rest /\ head'[u] = h /\ conn'[u] = c /\ call'[u] = call[u]
      BY <2>1, <2>3, <2>5 DEF TypeOK
    <3>6. CASE c \in torn
      BY <2>1, <2>3, <3>1, <3>6 DEF Local
    <3>2. ASSUME c \notin torn PROVE Rest(u)' = Tail(Rest(u))
      <4>1. Tail(buf[u]) \o Unread(c) = Tail(buf[u] \o Unread(c))
        BY <1>1, <2>4, TailOfConcat
      <4>2. QED
        BY <2>1, <3>1, <4>1 DEF Rest, Unread, rest
    <3>3. ASSUME c \notin torn
          PROVE  /\ Chain(Tail(Rest(u)))
                 /\ Tail(Rest(u)) # << >> => Follows(part, Tail(Rest(u))[1].part)
      BY <1>2, <3>3, ChainTail
    <3>4. ASSUME c \notin torn PROVE Inside(u)'
      BY <2>3, <3>1, <3>2, <3>3, <3>4 DEF Inside, Mid
    <3>5. QED
      BY <2>1, <2>3, <2>5, <3>1, <3>4, <3>6 DEF Local
  <2>8. upc'[u] \notin {"idle", "send"}
    BY <2>3 DEF TypeOK
  <2>9. \A v \in Users \ {u} : upc'[v] = upc[v] /\ head'[v] = head[v] /\ buf'[v] = buf[v]
    BY <2>1, <2>3, <2>5 DEF TypeOK
  <2>10. \A d \in Conns \ {conn[u]} : wire'[d] = wire[d] /\ owed'[d] = owed[d]
    BY <2>1
  <2>11. UNCHANGED <<pool, made, open, torn, conn, call>>
    BY <2>1
  <2>12. QED
    BY <1>1, <2>6, <2>7, <2>8, <2>9, <2>10, <2>11, StayStep
<1>5. QED
  BY <1>3, <1>4

LEMMA OverStep ==
  ASSUME HttpAssumption, HttpInv, NEW u \in Users, Over(u)
  PROVE  HttpInv'
<1> USE DEF HttpInv
<1>1. upc[u] = "over" /\ buf[u] # << >> /\ upc[u] # "idle"
  BY DEF Over, Streams, Local
<1>2. /\ conn[u] \in Conns /\ torn \subseteq Conns /\ wire \in [Conns -> Seq(Parts)]
  BY <1>1 DEF TypeOK, Places
<1>3. CASE Reads(u) /\ UNCHANGED <<poolVars, serverVars, calls, upc, conn, call, head>>
  BY <1>1, <1>3, ReadsStep
<1>4. CASE Release(u, FALSE) /\ UNCHANGED <<torn, wire>>
  BY <1>1, <1>2, <1>4, ReleaseStep
<1>5. CASE ReadFails(u) /\ Release(u, TRUE) /\ Tears(u)
  <2>1. Release(u, TRUE) /\ UNCHANGED wire /\ torn' = torn \cup {conn[u]}
    BY <1>5 DEF ReadFails, Tears
  <2>2. QED
    BY <1>1, <1>2, <2>1, ReleaseStep
<1>6. QED
  BY <1>3, <1>4, <1>5 DEF Over

\* A user that waits for a connection that is closed, and no longer parses.
LEMMA StuckStep ==
  ASSUME HttpAssumption, HttpInv, NEW u \in Users, upc[u] \in {"body", "astray"}, ReadFails(u),
         upc' = [upc EXCEPT ![u] = "stuck"],
         UNCHANGED <<poolVars, serverVars, calls, conn, call, head, buf>>
  PROVE  HttpInv'
<1> USE DEF HttpInv
<1>1. UNCHANGED <<pool, made, open, count, torn, peer, owed, wire, calls, conn, call, head, buf>>
  BY DEF poolVars, serverVars, ReadFails
<1>2. upc' \in [Users -> {"idle", "send", "head", "body", "size", "data", "over", "end",
                          "stuck", "astray"}]
  BY DEF TypeOK
<1>3. TypeOK'
  BY <1>1, <1>2 DEF TypeOK
<1>4. upc'[u] = "stuck" /\ upc[u] # "idle" /\ \A v \in Users \ {u} : upc'[v] = upc[v]
  BY DEF TypeOK
<1>5. Local(u)'
  BY <1>1, <1>4 DEF Streams, Local, Inside, Mid
<1>6. QED
  BY <1>1, <1>3, <1>4, <1>5, StayStep

LEMMA DataFailsStep ==
  ASSUME HttpAssumption, HttpInv, NEW u \in Users, DataFails(u)
  PROVE  HttpInv'
<1>1. /\ upc[u] = "data" /\ Release(u, TRUE) /\ UNCHANGED wire
      /\ torn' = torn \cup {conn[u]}
  BY DEF DataFails, ReadFails, Tears
<1>2. conn[u] \in Conns /\ torn \subseteq Conns /\ wire \in [Conns -> Seq(Parts)]
  BY <1>1 DEF HttpInv, TypeOK, Places
<1>3. QED
  BY <1>1, <1>2, ReleaseStep

\* A parser on a torn connection takes the rest of a chunk for a header.
LEMMA ParseRestStep ==
  ASSUME HttpAssumption, HttpInv, NEW u \in Users, ParseRest(u)
  PROVE  HttpInv'
<1> USE DEF HttpInv
<1>1. /\ upc[u] = "head" /\ conn[u] \in torn /\ buf[u] # << >>
      /\ upc' = [upc EXCEPT ![u] = "astray"]
      /\ head' = [head EXCEPT ![u] = Head(buf[u]).req]
      /\ UNCHANGED <<pool, made, open, count, torn, peer, owed, wire, calls, conn, call, buf>>
  BY DEF ParseRest, poolVars, serverVars
<1>2. Head(buf[u]).req \in 0..MaxCalls
  <2>1. Head(buf[u]) \in Parts
    BY <1>1 DEF TypeOK
  <2>2. QED
    BY <2>1 DEF Parts
<1>3. TypeOK'
  <2>1. upc' \in [Users -> {"idle", "send", "head", "body", "size", "data", "over", "end",
                            "stuck", "astray"}]
    BY <1>1 DEF TypeOK
  <2>2. head' \in [Users -> 0..MaxCalls]
    BY <1>1, <1>2 DEF TypeOK
  <2>3. QED
    BY <1>1, <2>1, <2>2 DEF TypeOK
<1>4. /\ upc'[u] = "astray" /\ upc[u] # "idle"
      /\ \A v \in Users \ {u} : upc'[v] = upc[v] /\ head'[v] = head[v] /\ buf'[v] = buf[v]
  BY <1>1 DEF TypeOK
<1>5. Local(u)'
  BY <1>1, <1>4 DEF Local
<1>6. QED
  BY <1>1, <1>3, <1>4, <1>5, StayStep

\* The response it begins so.
LEMMA AstrayStep ==
  ASSUME HttpAssumption, HttpInv, NEW u \in Users, Astray(u)
  PROVE  HttpInv'
<1> USE DEF HttpInv
<1>1. upc[u] = "astray" /\ upc[u] # "idle" /\ conn[u] \in torn
  BY DEF Astray, Streams, Local
<1>2. conn[u] \in Conns /\ torn \subseteq Conns /\ wire \in [Conns -> Seq(Parts)]
  BY <1>1 DEF TypeOK, Places
<1>3. CASE Reads(u) /\ UNCHANGED <<poolVars, serverVars, calls, upc, conn, call, head>>
  BY <1>1, <1>3, ReadsStep
<1>4. CASE /\ \E isOpen \in BOOLEAN : Release(u, isOpen) /\ torn' = torn
           /\ \/ UNCHANGED wire
              \/ wire[conn[u]] # << >> /\ wire' = [wire EXCEPT ![conn[u]][1].part = "part2"]
  <2>1. PICK isOpen \in BOOLEAN : Release(u, isOpen) /\ torn' = torn
    BY <1>4
  <2>2. /\ wire' \in [Conns -> Seq(Parts)]
        /\ \A d \in Conns : d # conn[u] => wire'[d] = wire[d]
    <3>1. CASE UNCHANGED wire
      BY <1>2, <3>1
    <3>2. CASE wire[conn[u]] # << >> /\ wire' = [wire EXCEPT ![conn[u]][1].part = "part2"]
      <4>1. PICK s \in Seq(Parts) : s = wire[conn[u]] /\ s # << >>
        BY <1>2, <3>2
      <4>2. PICK p \in Parts : p = [s[1] EXCEPT !.part = "part2"]
        <5>1. s[1] \in Parts
          BY <4>1
        <5>2. "part2" \in UNION {Range(k) : k \in Kinds}
          BY PartNames
        <5>3. QED
          BY <5>1, <5>2 DEF Parts
      <4>3. [s EXCEPT ![1] = p] \in Seq(Parts)
        BY <4>1
      <4>4. wire' = [wire EXCEPT ![conn[u]] = [s EXCEPT ![1] = p]]
        BY <1>2, <3>2, <4>1, <4>2
      <4>5. QED
        BY <1>2, <4>3, <4>4
    <3>3. QED
      BY <1>4, <3>1, <3>2
  <2>3. QED
    BY <1>1, <1>2, <2>1, <2>2, ReleaseStep
<1>5. CASE /\ ReadFails(u) /\ upc' = [upc EXCEPT ![u] = "stuck"]
           /\ UNCHANGED <<poolVars, serverVars, calls, conn, call, head, buf>>
  BY <1>1, <1>5, StuckStep
<1>6. QED
  BY <1>3, <1>4, <1>5 DEF Astray

LEMMA BodyStuckStep ==
  ASSUME HttpAssumption, HttpInv, NEW u \in Users, BodyStuck(u)
  PROVE  HttpInv'
<1> USE DEF HttpInv
<1>1. upc[u] = "body" /\ UNCHANGED wire
  BY DEF BodyStuck, ReadFails
<1>2. CASE Release(u, FALSE) /\ UNCHANGED torn
  <2>1. torn \subseteq Conns /\ wire \in [Conns -> Seq(Parts)]
    BY DEF TypeOK
  <2>2. QED
    BY <1>1, <1>2, <2>1, ReleaseStep
<1>3. CASE /\ upc' = [upc EXCEPT ![u] = "stuck"]
           /\ UNCHANGED <<poolVars, serverVars, calls, conn, call, head, buf>>
  BY <1>1, <1>3, StuckStep DEF BodyStuck
<1>4. QED
  BY <1>2, <1>3 DEF BodyStuck

LEMMA DeliverStep ==
  ASSUME HttpAssumption, HttpInv, NEW c \in Conns, Deliver(c)
  PROVE  HttpInv'
<1> USE DEF HttpInv
<1>1. /\ owed[c] # << >> /\ wire[c] \in Seq(Parts) /\ owed[c] \in Seq(Parts)
      /\ wire' = [wire EXCEPT ![c] = Append(@, Head(owed[c]))]
      /\ owed' = [owed EXCEPT ![c] = Tail(@)]
      /\ UNCHANGED <<pool, made, open, count, torn, peer, calls, upc, conn, call, head, buf>>
  BY DEF Deliver, poolVars, userVars, TypeOK
<1>2. PICK w \in Seq(Parts) : w = Append(wire[c], Head(owed[c]))
  BY <1>1, Arrived
<1>3. PICK o \in Seq(Parts) : o = Tail(owed[c])
  BY <1>1, Arrived
<1>4. wire' = [wire EXCEPT ![c] = w] /\ owed' = [owed EXCEPT ![c] = o]
  BY <1>1, <1>2, <1>3
<1>5. TypeOK'
  <2>1. wire' \in [Conns -> Seq(Parts)] /\ owed' \in [Conns -> Seq(Parts)]
    BY <1>4 DEF TypeOK
  <2>2. QED
    BY <1>1, <2>1 DEF TypeOK
<1>6. ASSUME NEW d \in Conns PROVE Unread(d)' = Unread(d)
  <2>1. CASE d = c
    <3>1. Append(wire[c], Head(owed[c])) \o Tail(owed[c]) = wire[c] \o owed[c]
      BY <1>1, Arrived
    <3>2. QED
      BY <1>2, <1>3, <1>4, <2>1, <3>1 DEF TypeOK, Unread
  <2>2. CASE d # c
    BY <1>4, <2>2 DEF TypeOK, Unread
  <2>3. QED
    BY <2>1, <2>2
<1>7. Places'
  BY <1>1, SamePlaces
<1>8. Resting'
  BY <1>1, <1>6 DEF Streams, Resting, Quiet
<1>9. ASSUME NEW v \in Users PROVE Local(v)'
  <2>1. upc[v] # "idle" => Rest(v)' = Rest(v)
    BY <1>1, <1>6 DEF Rest, Places, TypeOK
  <2>2. upc[v] = "over" => buf'[v] # << >>
    BY <1>1 DEF Streams, Local
  <2>3. QED
    BY <1>1, <2>1, <2>2, SameLocal DEF Streams
<1>10. QED
  BY <1>5, <1>7, <1>8, <1>9 DEF Streams

\* What has arrived before the server closes is the start of what was to come.
LEMMA PeerClosesStep ==
  ASSUME HttpAssumption, HttpInv, NEW c \in Conns, PeerCloses(c)
  PROVE  HttpInv'
<1> USE DEF HttpInv
<1>1. /\ peer' = [peer EXCEPT ![c] = FALSE] /\ owed' = [owed EXCEPT ![c] = << >>]
      /\ wire[c] \in Seq(Parts) /\ owed[c] \in Seq(Parts)
      /\ UNCHANGED <<pool, made, open, count, torn, wire, calls, upc, conn, call, head, buf>>
  BY DEF PeerCloses, poolVars, userVars, TypeOK
<1>2. TypeOK'
  <2>1. peer' \in [Conns -> BOOLEAN]
    BY <1>1 DEF TypeOK
  <2>2. owed' \in [Conns -> Seq(Parts)]
    <3>1. << >> \in Seq(Parts)
      OBVIOUS
    <3>2. QED
      BY <1>1, <3>1 DEF TypeOK
  <2>3. QED
    BY <1>1, <2>1, <2>2 DEF TypeOK
<1>3. Unread(c)' = wire[c]
  <2>1. owed'[c] = << >> /\ wire'[c] = wire[c]
    BY <1>1 DEF TypeOK
  <2>2. wire[c] \o << >> = wire[c]
    BY <1>1
  <2>3. QED
    BY <2>1, <2>2 DEF Unread
<1>4. \A d \in Conns \ {c} : Unread(d)' = Unread(d)
  BY <1>1 DEF TypeOK, Unread
<1>5. Places'
  BY <1>1, SamePlaces
<1>6. Resting'
  <2>1. ASSUME NEW d \in Conns, Quiet(Unread(d)) PROVE Quiet(Unread(d)')
    <3>1. CASE d = c
      <4>1. wire[c] # << >> => Unread(c) # << >> /\ Unread(c)[1] = wire[c][1]
        BY <1>1, FirstOfConcat DEF Unread
      <4>2. QED
        BY <1>3, <2>1, <3>1, <4>1 DEF Quiet
    <3>2. CASE d # c
      BY <1>4, <2>1, <3>2
    <3>3. QED
      BY <3>1, <3>2
  <2>2. QED
    BY <1>1, <2>1 DEF Streams, Resting, Quiet
<1>7. ASSUME NEW v \in Users PROVE Local(v)'
  <2>1. CASE conn[v] # c
    <3>1. conn[v] # None => wire'[conn[v]] = wire[conn[v]] /\ owed'[conn[v]] = owed[conn[v]]
      BY <1>1, <2>1 DEF TypeOK
    <3>2. QED
      BY <1>1, <3>1, OtherLocal DEF Streams
  <2>2. CASE conn[v] = c
    <3>1. PICK s \in Seq(Parts) : s = Rest(v)' /\ Rest(v) = s \o owed[c]
      <4>1. buf[v] \in Seq(Parts)
        BY DEF TypeOK
      <4>2. /\ buf[v] \o wire[c] \in Seq(Parts)
            /\ buf[v] \o (wire[c] \o owed[c]) = (buf[v] \o wire[c]) \o owed[c]
        <5>1. wire[c] \in Seq(Parts) /\ owed[c] \in Seq(Parts)
          BY <1>1
        <5>2. PICK b, w, o : b = buf[v] /\ w = wire[c] /\ o = owed[c]
          OBVIOUS
        <5>3. b \in Seq(Parts) /\ w \in Seq(Parts) /\ o \in Seq(Parts)
          BY <4>1, <5>1, <5>2
        <5>4. b \o w \in Seq(Parts) /\ b \o (w \o o) = (b \o w) \o o
          BY ONLY <5>3
        <5>5. QED BY <5>2, <5>4
      <4>3. Rest(v)' = buf[v] \o wire[c]
        BY <1>1, <1>3, <2>2 DEF Rest
      <4>4. QED
        BY <2>2, <4>2, <4>3 DEF Rest, Unread
    <3>2. s # << >> => Rest(v) # << >> /\ Rest(v)[1] = s[1]
      BY <1>1, <3>1, FirstOfConcat
    <3>3. Chain(Rest(v)) => Chain(s)
      BY <1>1, <3>1, ChainPrefix
    <3>4. c \notin torn => Inside(v)'
      BY <1>1, <2>2, <3>1, <3>2, <3>3 DEF Streams, Local, Inside, Mid, Quiet
    <3>5. QED
      BY <1>1, <2>2, <3>4 DEF Streams, Local
  <2>3. QED
    BY <2>1, <2>2
<1>8. QED
  BY <1>2, <1>5, <1>6, <1>7 DEF Streams

LEMMA HttpStep ==
  ASSUME HttpAssumption, HttpInv, [Next]_vars
  PROVE  HttpInv'
<1>1. ASSUME NEW u \in Users, GetConnection(u) PROVE HttpInv'
  BY <1>1, GetConnectionStep
<1>2. ASSUME NEW u \in Users, Send(u) PROVE HttpInv'
  BY <1>2, SendStep
<1>3. ASSUME NEW u \in Users, Read(u) PROVE HttpInv'
  <2>1. upc[u] \in Mid \cup {"head", "over"}
    BY <1>3 DEF Read, Mid
  <2>2. Reads(u) /\ UNCHANGED <<poolVars, serverVars, calls, upc, conn, call, head>>
    BY <1>3 DEF Read
  <2>3. QED
    BY <2>1, <2>2, ReadsStep
<1>4. ASSUME NEW u \in Users, ReadHeaderFails(u) \/ ParseError(u) \/ StuckEnds(u)
      PROVE  HttpInv'
  <2>1. upc[u] # "idle" /\ Release(u, FALSE) /\ UNCHANGED <<torn, wire>>
    BY <1>4 DEF ReadHeaderFails, ParseError, StuckEnds, ReadFails
  <2>2. torn \subseteq Conns /\ wire \in [Conns -> Seq(Parts)]
    BY DEF HttpInv, TypeOK
  <2>3. QED
    BY <2>1, <2>2, ReleaseStep
<1>5. ASSUME NEW u \in Users, Parse(u) PROVE HttpInv'
  BY <1>5, ParseStep
<1>6. ASSUME NEW u \in Users, DataFails(u) PROVE HttpInv'
  BY <1>6, DataFailsStep
<1>7. ASSUME NEW u \in Users, Over(u) PROVE HttpInv'
  BY <1>7, OverStep
<1>8. ASSUME NEW u \in Users, BodyStuck(u) PROVE HttpInv'
  BY <1>8, BodyStuckStep
<1>9. ASSUME NEW c \in Conns, Deliver(c) PROVE HttpInv'
  BY <1>9, DeliverStep
<1>10. ASSUME NEW c \in Conns, PeerCloses(c) PROVE HttpInv'
  BY <1>10, PeerClosesStep
<1>13. ASSUME NEW u \in Users, ParseRest(u) PROVE HttpInv'
  BY <1>13, ParseRestStep
<1>14. ASSUME NEW u \in Users, Astray(u) PROVE HttpInv'
  BY <1>14, AstrayStep
<1>11. ASSUME UNCHANGED vars PROVE HttpInv'
  <2>1. UNCHANGED <<pool, made, open, count, torn, peer, owed, wire, calls, upc, conn, call,
                    head, buf>>
    BY <1>11 DEF vars, poolVars, serverVars, userVars
  <2>2. TypeOK' /\ Places'
    BY <2>1 DEF HttpInv, TypeOK, Places
  <2>3. \A d \in Conns : Unread(d)' = Unread(d)
    BY <2>1 DEF Unread
  <2>4. Resting'
    BY <2>1, <2>3 DEF HttpInv, Streams, Resting, Quiet
  <2>5. \A v \in Users : Local(v)'
    BY <2>1, OtherLocal DEF HttpInv, Streams
  <2>6. QED
    BY <2>2, <2>4, <2>5 DEF HttpInv, Streams
<1>12. QED
  BY <1>1, <1>2, <1>3, <1>4, <1>5, <1>6, <1>7, <1>8, <1>9, <1>10, <1>11, <1>13,
     <1>14
     DEF Next, UserStep

\* The inductive invariant of the pool (HttpConnection.cpp 38-171, 357-402,
\* 525-537): who has which connection, and what may be left in each.
THEOREM HttpInvariant == HttpAssumption => (Spec => []HttpInv)
<1>1. SUFFICES ASSUME HttpAssumption PROVE Spec => []HttpInv
  OBVIOUS
<1>2. Init => HttpInv
  BY <1>1, HttpInit
<1>3. HttpInv /\ [Next]_vars => HttpInv'
  BY <1>1, HttpStep
<1>4. QED
  BY <1>2, <1>3, PTL DEF Spec

\* A response that recvResponse accepts is the one to the request its user has
\* just sent, whatever earlier users left in the connection, save one given back
\* open inside a chunk (112-115); no connection has two users or is idle twice
\* (HttpConnection.cpp 38-171, 525-537).
THEOREM HttpResponseIsOwn == HttpAssumption => (Spec => []ResponseIsOwn)
<1>1. SUFFICES ASSUME HttpAssumption PROVE Spec => []ResponseIsOwn
  OBVIOUS
<1>2. HttpInv => ResponseIsOwn
  <2>1. SUFFICES ASSUME HttpInv PROVE ResponseIsOwn
    OBVIOUS
  <2>2. \A u \in Users : conn[u] \notin torn => head[u] \in {0, call[u]}
    BY <2>1 DEF HttpInv, Streams, Local
  <2>3. IsInjective(pool)
    BY <2>1 DEF HttpInv, Places, IsInjective
  <2>4. DOMAIN pool = 1..Len(pool)
    BY <2>1 DEF HttpInv, TypeOK
  <2>5. \A u, v \in Users : conn[u] # None =>
          /\ ~Contains(pool, conn[u])
          /\ u # v => conn[u] # conn[v]
    BY <2>1, <2>4 DEF HttpInv, Places, Contains
  <2>6. QED
    BY <2>2, <2>3, <2>5 DEF ResponseIsOwn
<1>3. Spec => []HttpInv
  BY <1>1, HttpInvariant
<1>4. QED
  BY <1>2, <1>3, PTL

-----------------------------------------------------------------------------
(***************************************************************************)
(* WebSocket: for any number of frames and any limit of a message          *)
(***************************************************************************)
SocketParts == {"head", "length", "mask", "data", "control"}
Reading == {"head", "length", "mask", "data"}
InFrame == {"length", "mask", "data"}
WirePart == [part : SocketParts, frame : Nat, length : Nat]
Fragment == [opcode : WS!Opcodes, fin : BOOLEAN, size : 0..3]
Whole == [opcode : WS!Opcodes, data : Seq(Nat)]

SocketTypes ==
  /\ client \in BOOLEAN /\ mixed \in BOOLEAN /\ broken \in BOOLEAN
  /\ frames \in Seq(Fragment) /\ wsWire \in Seq(WirePart)
  /\ spc \in {"idle", "head", "length", "mask", "data", "stuck"}
  /\ up \in [{"sender", "receiver"} -> BOOLEAN]
  /\ rpc \in {"head", "length", "mask", "data", "stuck", "closed", "lost"}
  /\ wsHead \in Nat /\ data \in Seq(Nat)

\* What follows a part p of a frame of fr, when the data is masked (cl) or not;
\* and whether p is what a reader expects that is at part e of frame f.
Follow(fr, cl, p) ==
  IF p.part = "head" /\ fr[p.frame].size = 2 THEN "length"
  ELSE IF p.part \in {"head", "length"} THEN (IF cl THEN "mask" ELSE "data")
  ELSE IF p.part = "mask" THEN "data" ELSE "head"
Fits(p, e, f) ==
  IF e = "head" THEN p.part \in {"head", "control"} ELSE p.part = e /\ p.frame = f
PartOf(fr, p) ==
  /\ p.part # "control" => p.frame \in DOMAIN fr
  /\ p.part = "length" => fr[p.frame].size = 2 /\ p.length = 2
  /\ p.part = "data" => fr[p.frame].size # 0

\* The parts w on their way are each what the one before, or the reader, wants.
Line(fr, cl, w, e, f) ==
  /\ w # << >> => Fits(w[1], e, f)
  /\ \A i \in 1..Len(w) - 1 : Fits(w[i + 1], Follow(fr, cl, w[i]), w[i].frame)
  /\ \A i \in 1..Len(w) : PartOf(fr, w[i])
EndPart(fr, cl, w, e) == IF w = << >> THEN e ELSE Follow(fr, cl, w[Len(w)])
EndFrame(w, f) == IF w = << >> THEN f ELSE w[Len(w)].frame

LEMMA LineMore ==
  ASSUME NEW fr, NEW cl, NEW w \in Seq(WirePart), NEW e, NEW f, NEW p \in WirePart,
         Line(fr, cl, w, e, f), PartOf(fr, p),
         Fits(p, EndPart(fr, cl, w, e), EndFrame(w, f))
  PROVE  /\ Line(fr, cl, Append(w, p), e, f) /\ Append(w, p) \in Seq(WirePart)
         /\ EndPart(fr, cl, Append(w, p), e) = Follow(fr, cl, p)
         /\ EndFrame(Append(w, p), f) = p.frame
<1>1. PICK n \in Nat : n = Len(w)
  OBVIOUS
<1>2. PICK v \in Seq(WirePart) : v = Append(w, p)
  BY AppendProperties
<1>3. Len(v) = n + 1 /\ v[n + 1] = p /\ v # << >> /\ \A i \in 1..n : v[i] = w[i]
  BY <1>1, <1>2, AppendProperties
<1>4. EndPart(fr, cl, v, e) = Follow(fr, cl, p) /\ EndFrame(v, f) = p.frame
  BY <1>3 DEF EndPart, EndFrame
<1>5. Fits(v[1], e, f)
  BY <1>1, <1>3 DEF Line, EndPart, EndFrame
<1>6. ASSUME NEW i \in 1..n PROVE Fits(v[i + 1], Follow(fr, cl, v[i]), v[i].frame)
  <2>1. CASE i = n
    <3>1. w # << >> /\ v[n] = w[n]
      BY <1>1, <1>3, <2>1
    <3>2. QED BY <1>1, <1>3, <2>1, <3>1 DEF EndPart, EndFrame
  <2>2. CASE i # n
    <3>1. i \in 1..n - 1 /\ i + 1 \in 1..n
      BY <2>2
    <3>2. QED BY <1>1, <1>3, <3>1 DEF Line
  <2>3. QED BY <2>1, <2>2
<1>7. ASSUME NEW i \in 1..n + 1 PROVE PartOf(fr, v[i])
  BY <1>1, <1>3 DEF Line
<1>8. Line(fr, cl, v, e, f)
  BY <1>3, <1>5, <1>6, <1>7 DEF Line
<1>9. QED BY <1>2, <1>4, <1>8

LEMMA LineLess ==
  ASSUME NEW fr, NEW cl, NEW w \in Seq(WirePart), NEW e, NEW f, w # << >>, Line(fr, cl, w, e, f)
  PROVE  /\ Line(fr, cl, Tail(w), Follow(fr, cl, w[1]), w[1].frame)
         /\ Tail(w) \in Seq(WirePart)
         /\ EndPart(fr, cl, Tail(w), Follow(fr, cl, w[1])) = EndPart(fr, cl, w, e)
         /\ EndFrame(Tail(w), w[1].frame) = EndFrame(w, f)
<1>1. PICK n \in Nat : n + 1 = Len(w)
  <2>1. Len(w) \in Nat /\ Len(w) # 0
    OBVIOUS
  <2>2. Len(w) - 1 \in Nat /\ Len(w) - 1 + 1 = Len(w)
    BY <2>1
  <2>3. QED BY <2>2
<1>2. PICK v \in Seq(WirePart) : v = Tail(w)
  BY HeadTailProperties
<1>3. Len(v) = n /\ (v = << >> <=> n = 0) /\ \A i \in 1..n : v[i] = w[i + 1]
  <2>1. Len(v) = n /\ \A i \in 1..Len(v) : v[i] = w[i + 1]
    BY <1>1, <1>2, HeadTailProperties
  <2>2. QED BY <2>1
<1>4. CASE n = 0
  BY <1>1, <1>2, <1>3, <1>4 DEF Line, EndPart, EndFrame
<1>5. CASE n # 0
  <2>1. v[1] = w[2] /\ v[n] = w[n + 1] /\ 1 \in 1..Len(w) - 1
    BY <1>1, <1>3, <1>5
  <2>2. Fits(v[1], Follow(fr, cl, w[1]), w[1].frame)
    BY <2>1 DEF Line
  <2>3. ASSUME NEW i \in 1..n - 1 PROVE Fits(v[i + 1], Follow(fr, cl, v[i]), v[i].frame)
    <3>1. i \in 1..n /\ i + 1 \in 1..n /\ i + 1 \in 1..Len(w) - 1
      BY <1>1
    <3>2. v[i] = w[i + 1] /\ v[i + 1] = w[i + 1 + 1]
      BY <1>3, <3>1
    <3>3. QED BY <3>1, <3>2 DEF Line
  <2>4. \A i \in 1..n : PartOf(fr, v[i])
    BY <1>1, <1>3 DEF Line
  <2>5. Line(fr, cl, v, Follow(fr, cl, w[1]), w[1].frame)
    BY <1>3, <2>2, <2>3, <2>4 DEF Line
  <2>6. QED BY <1>1, <1>2, <1>3, <1>5, <2>1, <2>5 DEF EndPart, EndFrame
<1>6. QED BY <1>4, <1>5

\* The line does not depend on frames that are added, nor on the frame of a
\* reader that is between frames.
LEMMA LineFrames ==
  ASSUME NEW fr \in Seq(Fragment), NEW x \in Fragment, NEW cl, NEW w \in Seq(WirePart),
         NEW e, NEW f, Line(fr, cl, w, e, f)
  PROVE  /\ Line(Append(fr, x), cl, w, e, f)
         /\ EndPart(Append(fr, x), cl, w, e) = EndPart(fr, cl, w, e)
<1>1. PICK v \in Seq(Fragment) : v = Append(fr, x)
  BY AppendProperties
<1>2. DOMAIN fr \subseteq DOMAIN v /\ \A i \in DOMAIN fr : v[i] = fr[i]
  <2>1. Len(v) = Len(fr) + 1 /\ \A i \in 1..Len(fr) : v[i] = fr[i]
    BY <1>1, AppendProperties
  <2>2. QED BY <2>1
<1>3. ASSUME NEW i \in 1..Len(w)
      PROVE  PartOf(v, w[i]) /\ Follow(v, cl, w[i]) = Follow(fr, cl, w[i])
  <2>1. PartOf(fr, w[i])
    BY DEF Line
  <2>2. w[i].part # "control" => w[i].frame \in DOMAIN fr
    BY <2>1 DEF PartOf
  <2>3. PartOf(v, w[i])
    BY <1>2, <2>1 DEF PartOf
  <2>4. QED BY <1>2, <2>2, <2>3 DEF Follow
<1>4. Line(v, cl, w, e, f)
  BY <1>3 DEF Line
<1>5. EndPart(v, cl, w, e) = EndPart(fr, cl, w, e)
  <2>1. w # << >> => Len(w) \in 1..Len(w)
    OBVIOUS
  <2>2. QED BY <1>3, <2>1 DEF EndPart
<1>6. QED BY <1>1, <1>4, <1>5

LEMMA LineAny ==
  ASSUME NEW fr, NEW cl, NEW w, NEW f, NEW g, Line(fr, cl, w, "head", f)
  PROVE  Line(fr, cl, w, "head", g)
  BY DEF Line, Fits

\* The heads on their way are those of the frames after at, in order, up to one
\* that is not after sent.
Heads(w, at, sent) ==
  /\ at <= sent
  /\ \A i \in 1..Len(w) : w[i].part = "head" => at < w[i].frame /\ w[i].frame <= sent
  /\ \A i, j \in 1..Len(w) :
       w[i].part = "head" /\ w[j].part = "head" /\ i < j => w[i].frame < w[j].frame
  /\ \A i \in 1..Len(w) :
       w[i].part = "head" /\ w[i].frame # at + 1 =>
         \E j \in 1..i - 1 : w[j].part = "head" /\ w[j].frame = w[i].frame - 1
AllSent(w, at, sent) ==
  at < sent => \E i \in 1..Len(w) : w[i].part = "head" /\ w[i].frame = sent

LEMMA HeadsMore ==
  ASSUME NEW w \in Seq(WirePart), NEW at \in Nat, NEW sent \in Nat, NEW p \in WirePart,
         Heads(w, at, sent), AllSent(w, at, sent), p.part = "head", p.frame = sent + 1
  PROVE  Heads(Append(w, p), at, sent + 1) /\ AllSent(Append(w, p), at, sent + 1)
<1>1. PICK n \in Nat : n = Len(w)
  OBVIOUS
<1>2. PICK v \in Seq(WirePart) : v = Append(w, p)
  BY AppendProperties
<1>3. Len(v) = n + 1 /\ v[n + 1] = p /\ \A i \in 1..n : v[i] = w[i]
  BY <1>1, <1>2, AppendProperties
<1>4. /\ \A i \in 1..n : w[i].frame \in Nat
      /\ \A i \in 1..n : w[i].part = "head" => at < w[i].frame /\ w[i].frame <= sent
  <2>1. ASSUME NEW i \in 1..n PROVE w[i].frame \in Nat
    <3>1. w[i] \in WirePart
      BY <1>1
    <3>2. QED BY <3>1 DEF WirePart
  <2>2. QED BY <1>1, <2>1 DEF Heads
<1>5. \A i \in 1..n + 1 : i \in 1..n \/ i = n + 1
  OBVIOUS
<1>6. \A i \in 1..n + 1 : v[i].part = "head" => at < v[i].frame /\ v[i].frame <= sent + 1
  <2>1. ASSUME NEW i \in 1..n, w[i].part = "head"
        PROVE  at < w[i].frame /\ w[i].frame <= sent + 1
    <3>1. w[i].frame \in Nat /\ at < w[i].frame /\ w[i].frame <= sent
      BY <1>4, <2>1
    <3>2. QED BY <3>1
  <2>2. at < sent + 1
    BY DEF Heads
  <2>3. ASSUME NEW i \in 1..n + 1, v[i].part = "head"
        PROVE  at < v[i].frame /\ v[i].frame <= sent + 1
    <3>1. CASE i = n + 1
      BY <1>3, <2>2, <3>1
    <3>2. CASE i \in 1..n
      BY <1>3, <2>1, <2>3, <3>2
    <3>3. QED BY <1>5, <3>1, <3>2
  <2>4. QED BY <2>3
<1>7. ASSUME NEW i \in 1..n + 1, NEW j \in 1..n + 1,
             v[i].part = "head", v[j].part = "head", i < j
      PROVE  v[i].frame < v[j].frame
  <2>1. i \in 1..n
    BY <1>7
  <2>2. CASE j \in 1..n
    BY <1>1, <1>3, <1>7, <2>1, <2>2 DEF Heads
  <2>3. CASE j = n + 1
    <3>1. w[i].frame \in Nat /\ w[i].frame <= sent /\ v[i].frame = w[i].frame
      BY <1>3, <1>4, <1>7, <2>1
    <3>2. v[j].frame = sent + 1
      BY <1>3, <2>3
    <3>3. QED BY <3>1, <3>2
  <2>4. QED BY <1>5, <2>2, <2>3
<1>8. ASSUME NEW i \in 1..n + 1, v[i].part = "head", v[i].frame # at + 1
      PROVE  \E j \in 1..i - 1 : v[j].part = "head" /\ v[j].frame = v[i].frame - 1
  <2>1. CASE i \in 1..n
    <3>1. w[i].part = "head" /\ w[i].frame # at + 1 /\ i \in 1..Len(w) /\ v[i] = w[i]
      BY <1>1, <1>3, <1>8, <2>1
    <3>2. PICK j \in 1..i - 1 : w[j].part = "head" /\ w[j].frame = w[i].frame - 1
      BY <3>1 DEF Heads
    <3>3. j \in 1..n
      BY <2>1
    <3>4. v[j] = w[j]
      BY <1>3, <3>3
    <3>5. QED BY <3>1, <3>2, <3>4
  <2>2. CASE i = n + 1
    <3>1. at < sent
      <4>1. at <= sent
        BY DEF Heads
      <4>2. v[i] = p
        BY <1>3, <2>2
      <4>3. v[i].frame = sent + 1
        BY <4>2
      <4>4. QED BY <1>8, <4>1, <4>3
    <3>2. PICK j \in 1..n : w[j].part = "head" /\ w[j].frame = sent
      BY <1>1, <3>1 DEF AllSent
    <3>3. j \in 1..i - 1 /\ v[i].frame - 1 = sent
      <4>1. v[i] = p
        BY <1>3, <2>2
      <4>2. j \in 1..i - 1
        BY <2>2
      <4>3. QED BY <4>1, <4>2
    <3>4. QED BY <1>3, <3>2, <3>3
  <2>3. QED BY <1>5, <2>1, <2>2
<1>9. AllSent(v, at, sent + 1)
  BY <1>3 DEF AllSent
<1>10. Heads(v, at, sent + 1)
  BY <1>3, <1>6, <1>7, <1>8 DEF Heads
<1>11. QED BY <1>2, <1>9, <1>10

\* Any other part leaves the heads as they are.
LEMMA HeadsOther ==
  ASSUME NEW w \in Seq(WirePart), NEW at \in Nat, NEW sent \in Nat, NEW p \in WirePart,
         p.part # "head"
  PROVE  /\ Heads(w, at, sent) => Heads(Append(w, p), at, sent)
         /\ AllSent(w, at, sent) => AllSent(Append(w, p), at, sent)
<1>1. PICK n \in Nat : n = Len(w)
  OBVIOUS
<1>2. PICK v \in Seq(WirePart) : v = Append(w, p)
  BY AppendProperties
<1>3. Len(v) = n + 1 /\ v[n + 1] = p /\ \A i \in 1..n : v[i] = w[i]
  BY <1>1, <1>2, AppendProperties
<1>4. \A i \in 1..n + 1 : v[i].part = "head" => i \in 1..n
  BY <1>3
<1>5. ASSUME Heads(w, at, sent) PROVE Heads(v, at, sent)
  <2>1. \A i \in 1..n : \A j \in 1..i - 1 : j \in 1..n
    OBVIOUS
  <2>2. \A i \in 1..n + 1 : v[i].part = "head" => at < v[i].frame /\ v[i].frame <= sent
    BY <1>1, <1>3, <1>4, <1>5 DEF Heads
  <2>3. \A i, j \in 1..n + 1 :
          v[i].part = "head" /\ v[j].part = "head" /\ i < j => v[i].frame < v[j].frame
    BY <1>1, <1>3, <1>4, <1>5 DEF Heads
  <2>4. \A i \in 1..n + 1 :
          v[i].part = "head" /\ v[i].frame # at + 1 =>
            \E j \in 1..i - 1 : v[j].part = "head" /\ v[j].frame = v[i].frame - 1
    BY <1>1, <1>3, <1>4, <1>5, <2>1 DEF Heads
  <2>5. at <= sent
    BY <1>5 DEF Heads
  <2>6. QED BY <1>3, <2>2, <2>3, <2>4, <2>5 DEF Heads
<1>6. ASSUME AllSent(w, at, sent) PROVE AllSent(v, at, sent)
  BY <1>1, <1>3, <1>6 DEF AllSent
<1>7. QED BY <1>2, <1>5, <1>6

\* What the reader takes from the front
LEMMA HeadsLess ==
  ASSUME NEW w \in Seq(WirePart), NEW at \in Nat, NEW sent \in Nat, w # << >>,
         Heads(w, at, sent)
  PROVE  /\ w[1].part = "head" => /\ w[1].frame = at + 1
                                  /\ Heads(Tail(w), at + 1, sent)
                                  /\ AllSent(w, at, sent) => AllSent(Tail(w), at + 1, sent)
         /\ w[1].part # "head" => /\ Heads(Tail(w), at, sent)
                                  /\ AllSent(w, at, sent) => AllSent(Tail(w), at, sent)
<1>1. PICK n \in Nat : n + 1 = Len(w)
  <2>1. Len(w) \in Nat /\ Len(w) # 0
    OBVIOUS
  <2>2. Len(w) - 1 \in Nat /\ Len(w) - 1 + 1 = Len(w)
    BY <2>1
  <2>3. QED BY <2>2
<1>2. PICK v \in Seq(WirePart) : v = Tail(w)
  BY HeadTailProperties
<1>3. Len(v) = n /\ \A i \in 1..n : v[i] = w[i + 1]
  <2>1. Len(v) = n /\ \A i \in 1..Len(v) : v[i] = w[i + 1]
    BY <1>1, <1>2, HeadTailProperties
  <2>2. QED BY <2>1
<1>4. \A i \in 1..n : i + 1 \in 1..n + 1
  OBVIOUS
<1>5. \A i \in 1..n + 1 : w[i].frame \in Nat
  <2>1. ASSUME NEW i \in 1..n + 1 PROVE w[i].frame \in Nat
    <3>1. w[i] \in WirePart
      BY <1>1
    <3>2. QED BY <3>1 DEF WirePart
  <2>2. QED BY <2>1
<1>6. \A i, j \in 1..n :
        v[i].part = "head" /\ v[j].part = "head" /\ i < j => v[i].frame < v[j].frame
  <2>1. SUFFICES ASSUME NEW i \in 1..n, NEW j \in 1..n,
                        v[i].part = "head", v[j].part = "head", i < j
                 PROVE  v[i].frame < v[j].frame
    OBVIOUS
  <2>2. PICK k \in 1..n + 1, l \in 1..n + 1 : k = i + 1 /\ l = j + 1 /\ k < l
    BY <2>1
  <2>3. v[i] = w[k] /\ v[j] = w[l]
    BY <1>3, <2>2
  <2>4. QED BY <1>1, <2>1, <2>2, <2>3 DEF Heads
<1>7. CASE w[1].part = "head"
  <2>1. 1 \in 1..n + 1 /\ \A j : j \notin 1..1 - 1
    OBVIOUS
  <2>2. w[1].frame = at + 1 /\ at + 1 <= sent
    BY <1>1, <1>7, <2>1 DEF Heads
  <2>3. \A i \in 1..n : v[i].part = "head" => at + 1 < v[i].frame /\ v[i].frame <= sent
    <3>1. ASSUME NEW i \in 1..n, v[i].part = "head"
          PROVE  at + 1 < v[i].frame /\ v[i].frame <= sent
      <4>1. i + 1 \in 1..n + 1 /\ 1 < i + 1 /\ w[i + 1].part = "head" /\ v[i] = w[i + 1]
        BY <1>3, <3>1
      <4>2. w[1].frame < w[i + 1].frame /\ w[i + 1].frame <= sent
        BY <1>1, <1>7, <2>1, <4>1 DEF Heads
      <4>3. QED BY <2>2, <4>1, <4>2
    <3>2. QED BY <3>1
  <2>4. ASSUME NEW i \in 1..n, v[i].part = "head", v[i].frame # at + 1 + 1
        PROVE  \E j \in 1..i - 1 : v[j].part = "head" /\ v[j].frame = v[i].frame - 1
    <3>1. v[i].frame \in Nat /\ at + 1 < v[i].frame
      BY <1>3, <1>4, <1>5, <2>3, <2>4
    <3>2. PICK j \in 1..i : w[j].part = "head" /\ w[j].frame = v[i].frame - 1
      <4>1. i + 1 \in 1..n + 1 /\ i + 1 - 1 = i /\ v[i] = w[i + 1]
        BY <1>3
      <4>2. w[i + 1].part = "head" /\ w[i + 1].frame # at + 1
        BY <2>4, <3>1, <4>1
      <4>3. QED BY <1>1, <4>1, <4>2 DEF Heads
    <3>3. j # 1
      BY <2>2, <2>4, <3>1, <3>2
    <3>4. j - 1 \in 1..i - 1 /\ j - 1 \in 1..n /\ j - 1 + 1 = j
      BY <3>3
    <3>5. v[j - 1] = w[j]
      BY <1>3, <3>4
    <3>6. QED BY <3>2, <3>4, <3>5
  <2>5. Heads(v, at + 1, sent)
    BY <1>3, <1>6, <2>2, <2>3, <2>4 DEF Heads
  <2>6. ASSUME AllSent(w, at, sent), at + 1 < sent
        PROVE  \E i \in 1..n : v[i].part = "head" /\ v[i].frame = sent
    <3>1. PICK j \in 1..n + 1 : w[j].part = "head" /\ w[j].frame = sent
      BY <1>1, <2>6 DEF AllSent
    <3>2. j # 1
      BY <2>2, <2>6, <3>1
    <3>3. j - 1 \in 1..n /\ j - 1 + 1 = j
      BY <3>2
    <3>4. QED BY <1>3, <3>1, <3>3
  <2>7. AllSent(w, at, sent) => AllSent(v, at + 1, sent)
    BY <1>3, <2>6 DEF AllSent
  <2>8. QED BY <1>2, <1>7, <2>2, <2>5, <2>7
<1>8. CASE w[1].part # "head"
  <2>1. \A j \in 1..n + 1 : w[j].part = "head" => j - 1 \in 1..n /\ v[j - 1] = w[j]
    <3>1. ASSUME NEW j \in 1..n + 1, w[j].part = "head" PROVE j - 1 \in 1..n /\ v[j - 1] = w[j]
      <4>1. j # 1
        BY <1>8, <3>1
      <4>2. j - 1 \in 1..n /\ j - 1 + 1 = j
        BY <4>1
      <4>3. QED BY <1>3, <4>2
    <3>2. QED BY <3>1
  <2>2. \A i \in 1..n : v[i].part = "head" => at < v[i].frame /\ v[i].frame <= sent
    BY <1>1, <1>3, <1>4 DEF Heads
  <2>3. ASSUME NEW i \in 1..n, v[i].part = "head", v[i].frame # at + 1
        PROVE  \E j \in 1..i - 1 : v[j].part = "head" /\ v[j].frame = v[i].frame - 1
    <3>1. PICK j \in 1..i : w[j].part = "head" /\ w[j].frame = v[i].frame - 1
      <4>1. i + 1 \in 1..Len(w) /\ v[i] = w[i + 1]
        BY <1>1, <1>3, <1>4
      <4>2. w[i + 1].part = "head" /\ w[i + 1].frame # at + 1
        BY <2>3, <4>1
      <4>3. \E j \in 1..i + 1 - 1 : w[j].part = "head" /\ w[j].frame = w[i + 1].frame - 1
        BY <4>1, <4>2 DEF Heads
      <4>4. i + 1 - 1 = i
        OBVIOUS
      <4>5. QED BY <4>1, <4>3, <4>4
    <3>2. j \in 1..n + 1
      OBVIOUS
    <3>3. j - 1 \in 1..n /\ v[j - 1] = w[j]
      BY <2>1, <3>1, <3>2
    <3>4. j - 1 \in 1..i - 1
      BY <3>3
    <3>5. QED BY <3>1, <3>3, <3>4
  <2>4. at <= sent
    BY DEF Heads
  <2>5. Heads(v, at, sent)
    BY <1>3, <1>6, <2>2, <2>3, <2>4 DEF Heads
  <2>6. AllSent(w, at, sent) => AllSent(v, at, sent)
    BY <1>1, <1>3, <2>1 DEF AllSent
  <2>7. QED BY <1>2, <1>8, <2>5, <2>6
<1>9. QED BY <1>7, <1>8

\* Of the frames fr the reader has the messages g, and the fragments d and the
\* opcode op of the next; fed is the last fragment it has.
BeginsIn(g, i) == IF i = 1 THEN 1 ELSE g[i - 1].data[Len(g[i - 1].data)] + 1
OpensIn(fr, o, ids) ==
  \/ o = "CONTINUE" /\ \A j \in DOMAIN ids : fr[ids[j]].opcode = "CONTINUE"
  \/ /\ o # "CONTINUE"
     /\ \E j \in DOMAIN ids : /\ fr[ids[j]].opcode = o
                              /\ \A k \in 1..j - 1 : fr[ids[k]].opcode = "CONTINUE"
InOrder(fr, g, i, ids) == \A j \in DOMAIN ids : ids[j] = BeginsIn(g, i) + j - 1 /\ ids[j] \in DOMAIN fr
Intact(fr, g, i) ==
  LET ids == g[i].data
  IN /\ ids # << >> /\ InOrder(fr, g, i, ids)
     /\ \A j \in DOMAIN ids : fr[ids[j]].fin <=> j = Len(ids)
     /\ OpensIn(fr, g[i].opcode, ids)
Underway(fr, g, d, op, fed) ==
  /\ InOrder(fr, g, Len(g) + 1, d) /\ \A j \in DOMAIN d : ~fr[d[j]].fin
  /\ OpensIn(fr, op, d)
  /\ fed = BeginsIn(g, Len(g) + 1) + Len(d) - 1
Received(fr, g, d, op, fed) == Underway(fr, g, d, op, fed) /\ \A i \in 1..Len(g) : Intact(fr, g, i)

LEMMA OpensMore ==
  ASSUME NEW fr, NEW o, NEW d \in Seq(Nat), NEW f \in Nat, NEW op, OpensIn(fr, o, d),
         op = IF o = "CONTINUE" THEN fr[f].opcode ELSE o
  PROVE  OpensIn(fr, op, Append(d, f))
<1>1. PICK n \in Nat : n = Len(d) /\ DOMAIN d = 1..n
  OBVIOUS
<1>2. PICK v : v = Append(d, f)
  OBVIOUS
<1>3. DOMAIN v = 1..n + 1 /\ v[n + 1] = f /\ \A i \in 1..n : v[i] = d[i]
  <2>1. v \in Seq(Nat) /\ Len(v) = n + 1
    BY <1>1, <1>2, AppendProperties
  <2>2. QED BY <1>1, <1>2, <2>1, AppendProperties
<1>4. CASE o # "CONTINUE"
  <2>1. PICK j \in 1..n : fr[d[j]].opcode = o /\ \A k \in 1..j - 1 : fr[d[k]].opcode = "CONTINUE"
    BY <1>1, <1>4 DEF OpensIn
  <2>2. j \in 1..n + 1 /\ \A k \in 1..j - 1 : k \in 1..n
    OBVIOUS
  <2>3. op = o /\ fr[v[j]].opcode = op
    BY <1>3, <1>4, <2>1
  <2>4. \A k \in 1..j - 1 : fr[v[k]].opcode = "CONTINUE"
    BY <1>3, <2>1, <2>2
  <2>5. QED BY <1>2, <1>3, <1>4, <2>2, <2>3, <2>4 DEF OpensIn
<1>5. CASE o = "CONTINUE"
  <2>1. \A j \in 1..n : fr[v[j]].opcode = "CONTINUE"
    BY <1>1, <1>3, <1>5 DEF OpensIn
  <2>2. fr[v[n + 1]].opcode = op
    BY <1>3, <1>5
  <2>3. CASE op = "CONTINUE"
    <3>1. \A j \in 1..n + 1 : fr[v[j]].opcode = "CONTINUE"
      <4>1. \A j \in 1..n + 1 : j \in 1..n \/ j = n + 1
        OBVIOUS
      <4>2. QED BY <2>1, <2>2, <2>3, <4>1
    <3>2. QED BY <1>2, <1>3, <2>3, <3>1 DEF OpensIn
  <2>4. CASE op # "CONTINUE"
    <3>1. n + 1 \in DOMAIN v /\ \A k \in 1..n + 1 - 1 : k \in 1..n
      BY <1>3
    <3>2. \A k \in 1..n + 1 - 1 : fr[v[k]].opcode = "CONTINUE"
      BY <2>1, <3>1
    <3>3. \E j \in DOMAIN v : /\ fr[v[j]].opcode = op
                            /\ \A k \in 1..j - 1 : fr[v[k]].opcode = "CONTINUE"
      BY <2>2, <3>1, <3>2
    <3>4. QED BY <1>2, <2>4, <3>3 DEF OpensIn
  <2>5. QED BY <2>3, <2>4
<1>6. QED BY <1>4, <1>5

LEMMA BeginsTyped ==
  ASSUME NEW fr, NEW g \in Seq(Whole), \A i \in 1..Len(g) : Intact(fr, g, i),
         NEW k \in 1..Len(g) + 1
  PROVE  BeginsIn(g, k) \in Nat \ {0}
<1>1. CASE k = 1
  BY <1>1 DEF BeginsIn
<1>2. CASE k # 1
  <2>1. PICK i \in 1..Len(g) : i = k - 1
    BY <1>2
  <2>2. g[i] \in Whole /\ g[i].data # << >>
    BY DEF Intact
  <2>3. PICK ids \in Seq(Nat) : ids = g[i].data /\ ids # << >>
    BY <2>2 DEF Whole
  <2>4. ids[Len(ids)] \in Nat
    BY <2>3
  <2>5. BeginsIn(g, k) = ids[Len(ids)] + 1
    BY <1>2, <2>1, <2>3 DEF BeginsIn
  <2>6. QED BY <2>4, <2>5
<1>3. QED BY <1>1, <1>2

\* Frames that are added change nothing.
LEMMA ReceivedFrames ==
  ASSUME NEW fr \in Seq(Fragment), NEW x \in Fragment, NEW g \in Seq(Whole),
         NEW d \in Seq(Nat), NEW op, NEW fed, Received(fr, g, d, op, fed)
  PROVE  Received(Append(fr, x), g, d, op, fed)
<1>1. PICK v \in Seq(Fragment) : v = Append(fr, x)
  BY AppendProperties
<1>2. DOMAIN fr \subseteq DOMAIN v /\ \A i \in DOMAIN fr : v[i] = fr[i]
  <2>1. PICK m \in Nat : m = Len(fr)
    OBVIOUS
  <2>2. Len(v) = m + 1 /\ \A i \in 1..m : v[i] = fr[i]
    BY <1>1, <2>1, AppendProperties
  <2>3. DOMAIN v = 1..m + 1 /\ DOMAIN fr = 1..m
    BY <2>1, <2>2
  <2>4. QED BY <2>2, <2>3
<1>3. ASSUME NEW ids \in Seq(Nat), NEW i, InOrder(fr, g, i, ids)
      PROVE  /\ InOrder(v, g, i, ids)
             /\ \A j \in DOMAIN ids : v[ids[j]] = fr[ids[j]]
             /\ \A o : OpensIn(fr, o, ids) => OpensIn(v, o, ids)
  <2>1. \A j \in DOMAIN ids : v[ids[j]] = fr[ids[j]]
    BY <1>2, <1>3 DEF InOrder
  <2>2. InOrder(v, g, i, ids)
    BY <1>2, <1>3 DEF InOrder
  <2>3. \A j \in DOMAIN ids : \A k \in 1..j - 1 : k \in DOMAIN ids
    OBVIOUS
  <2>4. ASSUME NEW o, OpensIn(fr, o, ids) PROVE OpensIn(v, o, ids)
    <3>1. CASE o = "CONTINUE"
      BY <2>1, <2>4, <3>1 DEF OpensIn
    <3>2. CASE o # "CONTINUE"
      <4>1. PICK j \in DOMAIN ids : /\ fr[ids[j]].opcode = o
                                    /\ \A k \in 1..j - 1 : fr[ids[k]].opcode = "CONTINUE"
        BY <2>4, <3>2 DEF OpensIn
      <4>2. v[ids[j]].opcode = o /\ \A k \in 1..j - 1 : v[ids[k]].opcode = "CONTINUE"
        BY <2>1, <2>3, <4>1
      <4>3. QED BY <3>2, <4>2 DEF OpensIn
    <3>3. QED BY <3>1, <3>2
  <2>5. QED BY <2>1, <2>2, <2>4
<1>4. Underway(v, g, d, op, fed)
  BY <1>3 DEF Received, Underway
<1>5. ASSUME NEW i \in 1..Len(g) PROVE Intact(v, g, i)
  <2>1. PICK ids : ids = g[i].data
    OBVIOUS
  <2>2. ids \in Seq(Nat)
    <3>1. g[i] \in Whole
      OBVIOUS
    <3>2. QED BY <2>1, <3>1 DEF Whole
  <2>3. Intact(fr, g, i)
    BY DEF Received
  <2>4. ids # << >> /\ InOrder(fr, g, i, ids) /\ OpensIn(fr, g[i].opcode, ids)
        /\ \A j \in DOMAIN ids : fr[ids[j]].fin <=> j = Len(ids)
    BY <2>1, <2>3 DEF Intact
  <2>5. InOrder(v, g, i, ids) /\ OpensIn(v, g[i].opcode, ids)
        /\ \A j \in DOMAIN ids : v[ids[j]].fin <=> j = Len(ids)
    BY <1>3, <2>2, <2>4
  <2>6. QED BY <2>1, <2>4, <2>5 DEF Intact
<1>6. QED BY <1>1, <1>4, <1>5 DEF Received

\* The next fragment, which is not the last of its message ...
LEMMA ReceivedMore ==
  ASSUME NEW fr \in Seq(Fragment), NEW g \in Seq(Whole), NEW d \in Seq(Nat), NEW o, NEW op,
         NEW fed \in Nat, Received(fr, g, d, o, fed), fed + 1 \in DOMAIN fr,
         op = IF o = "CONTINUE" THEN fr[fed + 1].opcode ELSE o
  PROVE  /\ InOrder(fr, g, Len(g) + 1, Append(d, fed + 1))
         /\ OpensIn(fr, op, Append(d, fed + 1))
         /\ ~fr[fed + 1].fin => Received(fr, g, Append(d, fed + 1), op, fed + 1)
<1>1. PICK n \in Nat : n = Len(d) /\ DOMAIN d = 1..n
  OBVIOUS
<1>2. PICK v \in Seq(Nat) : v = Append(d, fed + 1)
  <2>1. fed + 1 \in Nat
    OBVIOUS
  <2>2. QED BY <2>1, AppendProperties
<1>3. DOMAIN v = 1..n + 1 /\ v[n + 1] = fed + 1 /\ (\A i \in 1..n : v[i] = d[i]) /\ Len(v) = n + 1
  <2>1. Len(v) = n + 1
    BY <1>1, <1>2, AppendProperties
  <2>2. QED BY <1>1, <1>2, <2>1, AppendProperties
<1>4. PICK b : b = BeginsIn(g, Len(g) + 1)
  OBVIOUS
<1>5. fed = b + n - 1 /\ \A j \in 1..n : d[j] = b + j - 1 /\ d[j] \in DOMAIN fr
  BY <1>1, <1>4 DEF Received, Underway, InOrder
<1>6. b \in Nat
  <2>1. PICK m \in Nat : m = Len(g)
    OBVIOUS
  <2>2. Len(g) + 1 \in 1..Len(g) + 1
    BY <2>1
  <2>3. BeginsIn(g, Len(g) + 1) \in Nat \ {0}
    BY <2>2, BeginsTyped DEF Received
  <2>4. QED BY <1>4, <2>3
<1>7. ASSUME NEW j \in 1..n + 1 PROVE v[j] = b + j - 1 /\ v[j] \in DOMAIN fr
  <2>1. CASE j \in 1..n
    BY <1>3, <1>5, <2>1
  <2>2. CASE j = n + 1
    BY <1>3, <1>5, <1>6, <2>2
  <2>3. QED BY <2>1, <2>2
<1>8. InOrder(fr, g, Len(g) + 1, v)
  BY <1>3, <1>4, <1>7 DEF InOrder
<1>9. OpensIn(fr, op, v)
  <2>1. OpensIn(fr, o, d)
    BY DEF Received, Underway
  <2>2. QED BY <1>2, <2>1, OpensMore
<1>10. ASSUME ~fr[fed + 1].fin PROVE Received(fr, g, v, op, fed + 1)
  <2>1. \A j \in 1..n : ~fr[d[j]].fin
    BY <1>1 DEF Received, Underway
  <2>2. ASSUME NEW j \in 1..n + 1 PROVE ~fr[v[j]].fin
    <3>1. j \in 1..n \/ j = n + 1
      OBVIOUS
    <3>2. QED BY <1>3, <1>10, <2>1, <3>1
  <2>3. fed + 1 = b + (n + 1) - 1
    BY <1>5, <1>6
  <2>4. QED BY <1>3, <1>4, <1>8, <1>9, <2>2, <2>3 DEF Received, Underway
<1>11. QED BY <1>2, <1>8, <1>9, <1>10

\* ... or which ends it.
LEMMA ReceivedWhole ==
  ASSUME NEW fr \in Seq(Fragment), NEW g \in Seq(Whole), NEW d \in Seq(Nat), NEW o,
         NEW op \in WS!Opcodes, NEW fed \in Nat, Received(fr, g, d, o, fed),
         fed + 1 \in DOMAIN fr, fr[fed + 1].fin,
         op = IF o = "CONTINUE" THEN fr[fed + 1].opcode ELSE o
  PROVE  /\ Append(g, [opcode |-> op, data |-> Append(d, fed + 1)]) \in Seq(Whole)
         /\ Received(fr, Append(g, [opcode |-> op, data |-> Append(d, fed + 1)]), << >>,
                     "CONTINUE", fed + 1)
<1>1. PICK n \in Nat : n = Len(d) /\ DOMAIN d = 1..n
  OBVIOUS
<1>2. PICK v \in Seq(Nat) : v = Append(d, fed + 1)
  <2>1. fed + 1 \in Nat
    OBVIOUS
  <2>2. QED BY <2>1, AppendProperties
<1>3. DOMAIN v = 1..n + 1 /\ v[n + 1] = fed + 1 /\ (\A i \in 1..n : v[i] = d[i]) /\ Len(v) = n + 1
      /\ v # << >>
  <2>1. fed + 1 \in Nat
    OBVIOUS
  <2>2. Len(v) = n + 1 /\ v # << >>
    BY <1>1, <1>2, <2>1, AppendProperties
  <2>3. QED BY <1>1, <1>2, <2>1, <2>2, AppendProperties
<1>4. PICK m \in Nat : m = Len(g)
  OBVIOUS
<1>5. PICK w \in Whole : w = [opcode |-> op, data |-> v]
  BY DEF Whole
<1>6. PICK h \in Seq(Whole) : h = Append(g, w)
  BY AppendProperties
<1>7. Len(h) = m + 1 /\ h[m + 1] = w /\ \A i \in 1..m : h[i] = g[i]
  BY <1>4, <1>6, AppendProperties
<1>8. \A i \in 1..m + 1 : BeginsIn(h, i) = BeginsIn(g, i)
  <2>1. \A i \in 1..m + 1 : i # 1 => i - 1 \in 1..m
    OBVIOUS
  <2>2. QED BY <1>7, <2>1 DEF BeginsIn
<1>9. ASSUME NEW i \in 1..m PROVE Intact(fr, h, i)
  <2>1. i \in 1..m + 1 /\ i \in 1..Len(g)
    BY <1>4
  <2>2. Intact(fr, g, i)
    BY <2>1 DEF Received
  <2>3. h[i] = g[i] /\ BeginsIn(h, i) = BeginsIn(g, i)
    BY <1>7, <1>8, <2>1
  <2>4. QED BY <2>2, <2>3 DEF Intact, InOrder
<1>10. Intact(fr, h, m + 1)
  <2>1. InOrder(fr, g, m + 1, v) /\ OpensIn(fr, op, v)
    BY <1>2, <1>4, ReceivedMore
  <2>2. InOrder(fr, h, m + 1, v)
    BY <1>8, <2>1 DEF InOrder
  <2>3. \A j \in 1..n : ~fr[d[j]].fin
    BY <1>1 DEF Received, Underway
  <2>4. ASSUME NEW j \in 1..n + 1 PROVE fr[v[j]].fin <=> j = n + 1
    <3>1. CASE j \in 1..n
      BY <1>3, <2>3, <3>1
    <3>2. CASE j = n + 1
      BY <1>3, <3>2
    <3>3. QED BY <3>1, <3>2
  <2>5. h[m + 1].data = v /\ h[m + 1].opcode = op
    BY <1>5, <1>7
  <2>6. QED BY <1>3, <2>1, <2>2, <2>4, <2>5 DEF Intact
<1>11. Underway(fr, h, << >>, "CONTINUE", fed + 1)
  <2>1. BeginsIn(h, m + 1 + 1) = fed + 1 + 1
    BY <1>3, <1>5, <1>7 DEF BeginsIn
  <2>2. fed + 1 = BeginsIn(h, m + 1 + 1) + 0 - 1
    BY <2>1
  <2>3. OpensIn(fr, "CONTINUE", << >>)
    BY DEF OpensIn
  <2>4. QED BY <1>7, <2>2, <2>3 DEF Underway, InOrder
<1>12. \A i \in 1..m + 1 : Intact(fr, h, i)
  <2>1. \A i \in 1..m + 1 : i \in 1..m \/ i = m + 1
    OBVIOUS
  <2>2. QED BY <1>9, <1>10, <2>1
<1>13. QED BY <1>2, <1>5, <1>6, <1>7, <1>11, <1>12 DEF Received

\* How the ends and the wire fit together: the reader is at part rp of frame hd,
\* which has length ln, and has had fed frames; the writer is at sp of the last
\* frame of fr; while lk, all that is written goes on the wire.
CurOf(rp, hd, fed) == IF rp \in InFrame THEN hd ELSE fed
SentOf(fr, sp) == IF sp = "head" THEN Len(fr) - 1 ELSE Len(fr)
Met(fr, cl, w, rp, hd, sp, fed) ==
  /\ AllSent(w, CurOf(rp, hd, fed), SentOf(fr, sp))
  /\ sp # "stuck"
  /\ IF sp \in InFrame THEN EndPart(fr, cl, w, rp) = sp /\ EndFrame(w, hd) = Len(fr)
     ELSE EndPart(fr, cl, w, rp) = "head"
Ends(fr, cl, w, rp, hd, ln, sp, fed, lk) ==
  rp \in Reading =>
    /\ Line(fr, cl, w, rp, hd)
    /\ Heads(w, CurOf(rp, hd, fed), SentOf(fr, sp))
    /\ rp \in InFrame => hd = fed + 1 /\ hd \in DOMAIN fr
    /\ rp \in {"mask", "data"} => ln = fr[hd].size
    /\ lk => Met(fr, cl, w, rp, hd, sp, fed)

\* What the writer writes where it is, and where it is then
Writes(fr, cl, p, sp, sq) ==
  \/ sp = "head" /\ p.part = "head" /\ p.frame = Len(fr) /\ sq = Follow(fr, cl, p)
  \/ /\ sp \in InFrame /\ p.part = sp /\ p.frame = Len(fr)
     /\ sq = IF sp = "data" THEN "idle" ELSE Follow(fr, cl, p)
  \/ sp \in {"idle", "head"} /\ p.part = "control" /\ sq = sp

LEMMA EndsWrite ==
  ASSUME NEW fr \in Seq(Fragment), NEW cl \in BOOLEAN, NEW w \in Seq(WirePart), NEW rp,
         NEW hd \in Nat, NEW ln, NEW sp, NEW sq, NEW fed \in Nat, NEW p \in WirePart,
         Ends(fr, cl, w, rp, hd, ln, sp, fed, TRUE), PartOf(fr, p),
         Len(fr) # 0 \/ sp = "idle",
         Writes(fr, cl, p, sp, sq)
  PROVE  Ends(fr, cl, Append(w, p), rp, hd, ln, sq, fed, TRUE)
<1> SUFFICES ASSUME rp \in Reading PROVE Ends(fr, cl, Append(w, p), rp, hd, ln, sq, fed, TRUE)
  BY DEF Ends
<1>1. Len(fr) \in Nat /\ (sp # "idle" => Len(fr) - 1 \in Nat /\ Len(fr) - 1 + 1 = Len(fr))
  <2>1. Len(fr) \in Nat
    OBVIOUS
  <2>2. QED BY <2>1
<1>2. PICK at \in Nat : at = CurOf(rp, hd, fed)
  BY DEF CurOf
<1>3. PICK v \in Seq(WirePart) : v = Append(w, p)
  BY AppendProperties
<1>4. /\ Line(fr, cl, w, rp, hd) /\ Heads(w, at, SentOf(fr, sp))
      /\ AllSent(w, at, SentOf(fr, sp))
      /\ IF sp \in InFrame THEN EndPart(fr, cl, w, rp) = sp /\ EndFrame(w, hd) = Len(fr)
         ELSE EndPart(fr, cl, w, rp) = "head"
      /\ rp \in InFrame => hd = fed + 1 /\ hd \in DOMAIN fr
      /\ rp \in {"mask", "data"} => ln = fr[hd].size
  BY <1>2 DEF Ends, Met
<1>5. Fits(p, EndPart(fr, cl, w, rp), EndFrame(w, hd))
  BY <1>4 DEF Fits, InFrame, Writes
<1>6. /\ Line(fr, cl, v, rp, hd) /\ EndPart(fr, cl, v, rp) = Follow(fr, cl, p)
      /\ EndFrame(v, hd) = p.frame
  BY <1>3, <1>4, <1>5, LineMore
<1>7. CASE sp = "head" /\ p.part = "head" /\ p.frame = Len(fr) /\ sq = Follow(fr, cl, p)
  <2>1. sq \in InFrame /\ sq # "stuck"
    BY <1>7 DEF Follow, InFrame
  <2>2. PICK n \in Nat : n + 1 = Len(fr) /\ SentOf(fr, sp) = n /\ SentOf(fr, sq) = n + 1
    BY <1>1, <1>7, <2>1 DEF SentOf, InFrame
  <2>3. Heads(v, at, n + 1) /\ AllSent(v, at, n + 1)
    BY <1>3, <1>4, <1>7, <2>2, HeadsMore
  <2>4. QED BY <1>2, <1>3, <1>4, <1>6, <1>7, <2>1, <2>2, <2>3 DEF Ends, Met
<1>8. CASE p.part # "head"
  <2>1. /\ SentOf(fr, sp) = SentOf(fr, sq) /\ SentOf(fr, sp) \in Nat /\ sq # "stuck"
        /\ sq \in {"idle", "head"} => Follow(fr, cl, p) = "head"
        /\ sq \notin {"idle", "head"} => sq \in InFrame /\ sq = Follow(fr, cl, p)
                                         /\ p.frame = Len(fr)
    BY <1>1, <1>8 DEF SentOf, Follow, InFrame, Writes
  <2>2. Heads(v, at, SentOf(fr, sq)) /\ AllSent(v, at, SentOf(fr, sq))
    BY <1>3, <1>4, <1>8, <2>1, HeadsOther
  <2>3. Met(fr, cl, v, rp, hd, sq, fed)
    BY <1>2, <1>6, <2>1, <2>2 DEF Met, InFrame
  <2>4. QED BY <1>2, <1>3, <1>4, <1>6, <2>2, <2>3 DEF Ends
<1>9. QED BY <1>7, <1>8 DEF InFrame, Writes

\* Where the reader is after it has taken p: at part rq of frame hq, of length
\* lq, with fq frames had
TakesPart(fr, cl, p, fed, rq, hq, lq, fq) ==
  /\ rq = Follow(fr, cl, p)
  /\ rq \in InFrame => hq = p.frame
  /\ rq \in {"mask", "data"} => lq = fr[p.frame].size
  /\ fq = IF p.part = "data" THEN fed + 1 ELSE fed

\* What the reader takes is what it expects.
LEMMA EndsRead ==
  ASSUME NEW fr \in Seq(Fragment), NEW cl \in BOOLEAN, NEW w \in Seq(WirePart),
         NEW rp \in Reading, NEW hd \in Nat, NEW ln, NEW sp, NEW fed \in Nat, NEW lk,
         Ends(fr, cl, w, rp, hd, ln, sp, fed, lk), w # << >>,
         NEW rq, NEW hq, NEW lq, NEW fq,
         TakesPart(fr, cl, w[1], fed, rq, hq, lq, fq)
  PROVE  /\ Ends(fr, cl, Tail(w), rq, hq, lq, sp, fq, lk) /\ Tail(w) \in Seq(WirePart)
         /\ w[1].part = rp \/ (w[1].part = "control" /\ rp = "head")
         /\ rp \in InFrame => w[1].frame = hd
         /\ w[1].part = "head" => w[1].frame = fed + 1
         /\ PartOf(fr, w[1])
<1>1. PICK p \in WirePart : p = w[1]
  OBVIOUS
<1> USE DEF TakesPart
<1>2. PICK at \in Nat : at = CurOf(rp, hd, fed)
  BY DEF CurOf
<1>3. PICK sent \in Int : sent = SentOf(fr, sp)
  <2>1. Len(fr) \in Nat
    OBVIOUS
  <2>2. SentOf(fr, sp) \in Int
    BY <2>1 DEF SentOf
  <2>3. QED BY <2>2
<1>4. /\ Line(fr, cl, w, rp, hd) /\ Heads(w, at, sent)
      /\ rp \in InFrame => hd = fed + 1 /\ hd \in DOMAIN fr
      /\ lk => Met(fr, cl, w, rp, hd, sp, fed)
  BY <1>2, <1>3 DEF Ends
<1>5. sent \in Nat
  BY <1>4 DEF Heads
<1>6. Fits(p, rp, hd) /\ PartOf(fr, p)
  BY <1>1, <1>4 DEF Line
<1>7. /\ p.part = rp \/ (p.part = "control" /\ rp = "head")
      /\ rp \in InFrame => p.frame = hd
  BY <1>6 DEF Fits, Reading, InFrame
<1>8. PICK v \in Seq(WirePart) : v = Tail(w)
  BY HeadTailProperties
<1>9. /\ Line(fr, cl, v, rq, p.frame)
      /\ EndPart(fr, cl, v, rq) = EndPart(fr, cl, w, rp) /\ EndFrame(v, p.frame) = EndFrame(w, hd)
  BY <1>1, <1>4, <1>8, LineLess
<1>10. rq \in Reading
  BY DEF Follow, Reading
<1>11. Line(fr, cl, v, rq, hq)
  <2>1. CASE rq \in InFrame
    BY <1>1, <1>9, <2>1
  <2>2. CASE rq \notin InFrame
    <3>1. rq = "head"
      BY <1>10, <2>2 DEF Reading, InFrame
    <3>2. QED BY <1>9, <3>1, LineAny
  <2>3. QED BY <2>1, <2>2
<1>12. p.part = "head" => p.frame = fed + 1
  BY <1>1, <1>2, <1>4, <1>5, <1>7, HeadsLess DEF CurOf, InFrame
<1>13. rq \in InFrame => hq = fq + 1 /\ hq \in DOMAIN fr
  BY <1>1, <1>4, <1>6, <1>7, <1>12 DEF Follow, InFrame, Reading, PartOf
<1>14. PICK at2 \in Nat : at2 = CurOf(rq, hq, fq)
  BY <1>13 DEF CurOf
<1>15. at2 = IF p.part = "head" THEN at + 1 ELSE at
  BY <1>1, <1>2, <1>4, <1>7, <1>12, <1>14 DEF CurOf, Follow, InFrame, Reading
<1>16. Heads(v, at2, sent) /\ (AllSent(w, at, sent) => AllSent(v, at2, sent))
  BY <1>1, <1>4, <1>5, <1>8, <1>15, HeadsLess
<1>17. ASSUME lk PROVE Met(fr, cl, v, rq, hq, sp, fq)
  <2>1. Met(fr, cl, w, rp, hd, sp, fed)
    BY <1>4, <1>17
  <2>2. AllSent(v, at2, sent)
    BY <1>2, <1>3, <1>16, <2>1 DEF Met
  <2>3. sp # "stuck"
        /\ IF sp \in InFrame THEN EndPart(fr, cl, v, rq) = sp /\ EndFrame(v, p.frame) = Len(fr)
           ELSE EndPart(fr, cl, v, rq) = "head"
    BY <1>9, <2>1 DEF Met
  <2>4. sp \in InFrame => EndFrame(v, hq) = EndFrame(v, p.frame)
    <3>1. CASE v = << >>
      <4>1. sp \in InFrame => rq \in InFrame
        BY <2>3, <3>1 DEF EndPart
      <4>2. QED BY <1>1, <4>1 DEF EndFrame
    <3>2. CASE v # << >>
      BY <3>2 DEF EndFrame
    <3>3. QED BY <3>1, <3>2
  <2>5. QED BY <1>3, <1>14, <2>2, <2>3, <2>4 DEF Met
<1>18. rq \in {"mask", "data"} => lq = fr[hq].size
  BY DEF InFrame
<1>19. Ends(fr, cl, v, rq, hq, lq, sp, fq, lk)
  BY <1>3, <1>11, <1>13, <1>14, <1>16, <1>17, <1>18 DEF Ends
<1>20. QED BY <1>1, <1>6, <1>7, <1>8, <1>12, <1>19

Calm == ~mixed /\ \A i \in DOMAIN frames : frames[i].size # 3
Linked == ~broken /\ up["sender"] /\ up["receiver"]
Fed == BeginsIn(got, Len(got) + 1) + Len(data) - 1

SocketInv ==
  /\ SocketTypes
  /\ spc \in {"head"} \cup InFrame => Len(frames) # 0
  /\ spc = "length" => frames[Len(frames)].size \in {2, 3}
  /\ Calm => /\ rpc # "lost"
             /\ opcode \in WS!Opcodes /\ got \in Seq(Whole)
             /\ Received(frames, got, data, opcode, Fed)
             /\ Ends(frames, client, wsWire, rpc, wsHead, length, spc, Fed, Linked)


LEMMA FedTyped ==
  ASSUME SocketTypes, got \in Seq(Whole), NEW f, Received(frames, got, data, opcode, f)
  PROVE  f = Fed /\ f \in Nat
<1>1. PICK m \in Nat : m = Len(got)
  OBVIOUS
<1>2. Len(got) + 1 \in 1..Len(got) + 1
  BY <1>1
<1>3. BeginsIn(got, Len(got) + 1) \in Nat \ {0}
  BY <1>2, BeginsTyped DEF Received, SocketTypes
<1>4. Len(data) \in Nat
  BY DEF SocketTypes
<1>5. f = Fed
  BY DEF Received, Underway, Fed
<1>6. QED BY <1>3, <1>4, <1>5 DEF Fed

LEMMA SocketInit == WS!Init => SocketInv
<1> SUFFICES ASSUME WS!Init PROVE SocketInv
  OBVIOUS
<1>1. SocketTypes /\ opcode \in WS!Opcodes /\ got \in Seq(Whole)
  <2>1. frames \in Seq(Fragment) /\ wsWire \in Seq(WirePart) /\ data \in Seq(Nat)
        /\ got \in Seq(Whole)
    BY DEF WS!Init
  <2>2. QED BY <2>1 DEF WS!Init, SocketTypes, WS!Opcodes, WS!NoFrame
<1>2. /\ frames = << >> /\ got = << >> /\ data = << >> /\ wsWire = << >>
      /\ rpc = "head" /\ spc = "idle" /\ opcode = "CONTINUE"
  BY DEF WS!Init
<1>3. Len(got) = 0 /\ Len(data) = 0 /\ Len(frames) = 0 /\ Len(wsWire) = 0 /\ DOMAIN data = {}
  BY <1>2
<1>4. Fed = 0
  BY <1>3 DEF Fed, BeginsIn
<1>5. Received(frames, got, data, opcode, Fed)
  <2>1. Underway(frames, got, data, opcode, Fed)
    BY <1>2, <1>3, <1>4 DEF Underway, BeginsIn, InOrder, OpensIn
  <2>2. QED BY <1>3, <2>1 DEF Received
<1>6. Ends(frames, client, wsWire, rpc, wsHead, length, spc, Fed, Linked)
  <2>1. Line(frames, client, wsWire, rpc, wsHead)
    BY <1>2, <1>3 DEF Line
  <2>2. CurOf(rpc, wsHead, Fed) = 0 /\ SentOf(frames, spc) = 0
    BY <1>2, <1>3, <1>4 DEF CurOf, SentOf, InFrame
  <2>3. Heads(wsWire, 0, 0) /\ AllSent(wsWire, 0, 0)
    BY <1>3 DEF Heads, AllSent
  <2>4. Met(frames, client, wsWire, rpc, wsHead, spc, Fed)
    BY <1>2, <2>2, <2>3 DEF Met, EndPart, InFrame
  <2>5. QED BY <1>2, <2>1, <2>2, <2>3, <2>4 DEF Ends, InFrame
<1>7. QED BY <1>1, <1>2, <1>5, <1>6 DEF SocketInv, InFrame

\* Types and the sender's last frame, action by action
LEMMA SocketTypesStep ==
  ASSUME WS!WebSocketAssumption, SocketInv, WS!Next
  PROVE  /\ SocketTypes'
         /\ (spc \in {"head"} \cup InFrame => Len(frames) # 0)'
         /\ (spc = "length" => frames[Len(frames)].size \in {2, 3})'
<1>1. SocketTypes
  BY DEF SocketInv
<1>2. Sizes \subseteq 0..3 /\ MaxFrames \in Nat /\ MaxMessage \in Nat
  BY DEF WS!WebSocketAssumption, WS!WebSocketAssumption, WS!Empty, WS!Long
<1>3. ASSUME NEW piece \in SocketParts, NEW n \in Nat, WS!Write(piece, n)
      PROVE  wsWire' \in Seq(WirePart)
  <2>1. Len(frames) \in Nat
    BY <1>1 DEF SocketTypes
  <2>2. [part |-> piece, frame |-> IF piece = "control" THEN WS!NoFrame ELSE Len(frames),
         length |-> n] \in WirePart
    BY <2>1 DEF WirePart, WS!NoFrame
  <2>3. QED BY <1>1, <1>3, <2>2, AppendProperties DEF WS!Write, SocketTypes
<1>4. WS!AfterHead \in {"mask", "data"}
  BY DEF WS!AfterHead
<1>5. CASE WS!SendMessage
  <2>1. PICK f \in WS!Frames : frames' = Append(frames, f)
    BY <1>5 DEF WS!SendMessage
  <2>2. f \in Fragment
    BY <1>2 DEF WS!Frames, Fragment
  <2>3. frames' \in Seq(Fragment) /\ Len(frames') # 0
    <3>1. PICK v : v = Append(frames, f)
      OBVIOUS
    <3>2. v \in Seq(Fragment) /\ v # << >>
      BY <1>1, <2>2, <3>1, AppendProperties DEF SocketTypes
    <3>3. QED BY <2>1, <3>1, <3>2
  <2>4. QED BY <1>1, <1>5, <2>3 DEF WS!SendMessage, SocketTypes, WS!recvVars, InFrame
<1>6. CASE WS!SendHead
  <2>1. wsWire' \in Seq(WirePart)
    BY <1>3, <1>6 DEF WS!SendHead, SocketParts
  <2>2. frames' = frames /\ spc = "head"
        /\ spc' = IF frames[Len(frames)].size \in {2, 3} THEN "length" ELSE WS!AfterHead
    BY <1>6 DEF WS!SendHead, WS!frame, WS!Medium, WS!Long
  <2>3. SocketTypes'
    BY <1>1, <1>4, <1>6, <2>1, <2>2 DEF WS!SendHead, SocketTypes, WS!recvVars
  <2>4. QED BY <1>4, <2>2, <2>3 DEF SocketInv
<1>7. CASE WS!SendLength
  <2>1. wsWire' \in Seq(WirePart)
    BY <1>2, <1>3, <1>7 DEF WS!SendLength, SocketParts, WS!Medium
  <2>2. frames' = frames /\ spc = "length" /\ spc' = WS!AfterHead
    BY <1>7 DEF WS!SendLength
  <2>3. SocketTypes'
    BY <1>1, <1>4, <1>7, <2>1, <2>2 DEF WS!SendLength, SocketTypes, WS!recvVars
  <2>4. QED BY <1>4, <2>2, <2>3 DEF SocketInv, InFrame
<1>8. CASE WS!SendMask
  <2>1. wsWire' \in Seq(WirePart)
    BY <1>3, <1>8 DEF WS!SendMask, SocketParts
  <2>2. QED BY <1>1, <1>8, <2>1 DEF WS!SendMask, SocketTypes, WS!recvVars, SocketInv, InFrame
<1>9. CASE WS!SendData
  <2>1. wsWire' \in Seq(WirePart)
    BY <1>1, <1>3, <1>9 DEF WS!SendData, SocketParts, SocketTypes
  <2>2. QED BY <1>1, <1>9, <2>1 DEF WS!SendData, SocketTypes, WS!recvVars, InFrame
<1>10. CASE WS!SendFails
  BY <1>1, <1>10 DEF WS!SendFails, SocketTypes, WS!recvVars, InFrame
<1>11. CASE WS!SendControl
  <2>1. wsWire' \in Seq(WirePart)
    BY <1>3, <1>11 DEF WS!SendControl, SocketParts
  <2>2. mixed' \in BOOLEAN
    BY <1>1, <1>11, Zenon DEF WS!SendControl, SocketTypes
  <2>3. QED BY <1>1, <1>11, <2>1, <2>2 DEF WS!SendControl, SocketTypes, WS!recvVars, SocketInv, InFrame
<1>12. CASE WS!Recv
  <2>1. UNCHANGED WS!sendVars /\ client' = client /\ broken' = broken
    BY <1>12 DEF WS!Recv, WS!RecvHead, WS!RecvLength, WS!RecvMask, WS!RecvData, WS!RecvControl,
      WS!RecvLost, WS!RecvFails
  <2>2. wsWire # << >> => /\ Head(wsWire) \in WirePart /\ Tail(wsWire) \in Seq(WirePart)
                          /\ Head(wsWire).frame \in Nat
    <3>1. wsWire # << >> => Head(wsWire) \in WirePart /\ Tail(wsWire) \in Seq(WirePart)
      BY <1>1, HeadTailProperties DEF SocketTypes
    <3>2. QED BY <3>1 DEF WirePart
  <2>3. wsWire' = wsWire \/ (wsWire # << >> /\ wsWire' = Tail(wsWire))
    BY <1>12 DEF WS!Recv, WS!RecvHead, WS!RecvLength, WS!RecvMask,
      WS!RecvData, WS!RecvControl, WS!RecvLost, WS!RecvFails, WS!Got
  <2>4. /\ up' \in [{"sender", "receiver"} -> BOOLEAN]
        /\ rpc' \in {"head", "length", "mask", "data", "stuck", "closed", "lost"}
    BY <1>1, <1>4, <1>12 DEF WS!Recv, WS!RecvHead, WS!RecvLength, WS!RecvMask,
      WS!RecvData, WS!RecvControl, WS!RecvLost, WS!RecvFails, WS!Got, SocketTypes, WS!Closes,
      WS!LengthIs
  <2>5. wsHead' = wsHead \/ wsHead' = 0 \/ (wsWire # << >> /\ wsHead' = Head(wsWire).frame)
    BY <1>12 DEF WS!Recv, WS!RecvHead, WS!RecvLength, WS!RecvMask,
      WS!RecvData, WS!RecvControl, WS!RecvLost, WS!RecvFails, WS!Got, WS!Closes,
      WS!LengthIs, WS!NoFrame
  <2>6. data' = data \/ data' = << >> \/ (wsWire # << >> /\ data' = Append(data, Head(wsWire).frame))
    BY <1>12 DEF WS!Recv, WS!RecvHead, WS!RecvLength, WS!RecvMask,
      WS!RecvData, WS!RecvControl, WS!RecvLost, WS!RecvFails, WS!Got, WS!Closes, WS!LengthIs
  <2>7. data' \in Seq(Nat) /\ wsHead' \in Nat /\ wsWire' \in Seq(WirePart)
    <3>0. wsWire' \in Seq(WirePart)
      BY <1>1, <2>2, <2>3 DEF SocketTypes
    <3>1. wsHead' \in Nat
      BY <1>1, <2>2, <2>5 DEF SocketTypes
    <3>2. ASSUME wsWire # << >>, data' = Append(data, Head(wsWire).frame) PROVE data' \in Seq(Nat)
      <4>1. PICK f \in Nat : f = Head(wsWire).frame
        BY <2>2, <3>2
      <4>2. QED BY <1>1, <3>2, <4>1, AppendProperties DEF SocketTypes
    <3>3. data' = data \/ data' = << >> => data' \in Seq(Nat)
      <4>1. << >> \in Seq(Nat) /\ data \in Seq(Nat)
        BY <1>1 DEF SocketTypes
      <4>2. QED BY <4>1
    <3>4. QED BY <2>6, <3>0, <3>1, <3>2, <3>3
  <2>8. QED BY <1>1, <2>1, <2>4, <2>7 DEF SocketTypes, SocketInv, WS!sendVars
<1>13. CASE WS!Break
  BY <1>1, <1>13 DEF WS!Break, SocketTypes, SocketInv, WS!sendVars, WS!recvVars
<1>14. QED
  BY <1>5, <1>6, <1>7, <1>8, <1>9, <1>10, <1>11, <1>12, <1>13 DEF WS!Next, WS!Send

LEMMA CalmBefore ==
  ASSUME SocketInv, WS!Next, Calm'
  PROVE  Calm
<1>1. frames' = frames \/ \E f \in WS!Frames : frames' = Append(frames, f)
  BY DEF WS!Next, WS!Send, WS!Recv, WS!SendMessage, WS!SendHead, WS!SendLength, WS!SendMask,
    WS!SendData, WS!SendFails, WS!SendControl, WS!RecvHead, WS!RecvLength, WS!RecvMask,
    WS!RecvData, WS!RecvControl, WS!RecvLost, WS!RecvFails, WS!Break, WS!sendVars
<1>2. ~mixed
  BY DEF Calm, WS!Next, WS!Send, WS!Recv, WS!SendMessage, WS!SendHead, WS!SendLength, WS!SendMask,
    WS!SendData, WS!SendFails, WS!SendControl, WS!RecvHead, WS!RecvLength, WS!RecvMask,
    WS!RecvData, WS!RecvControl, WS!RecvLost, WS!RecvFails, WS!Break, WS!sendVars
<1>3. ASSUME NEW f, frames' = Append(frames, f), NEW i \in DOMAIN frames
      PROVE  i \in DOMAIN frames' /\ frames'[i] = frames[i]
  <2>1. PICK m \in Nat : m = Len(frames) /\ DOMAIN frames = 1..m
    BY DEF SocketInv, SocketTypes
  <2>2. PICK v : v = Append(frames, f)
    OBVIOUS
  <2>3. DOMAIN v = 1..m + 1 /\ v[i] = frames[i]
    BY <2>1, <2>2 DEF SocketInv, SocketTypes
  <2>4. QED BY <1>3, <2>1, <2>2, <2>3
<1>4. \A i \in DOMAIN frames : frames[i].size # 3
  BY <1>1, <1>3 DEF Calm
<1>5. QED BY <1>2, <1>4 DEF Calm

\* A step of the writer, whether or not what it writes goes on the wire
LEMMA WriterStep ==
  ASSUME NEW fr \in Seq(Fragment), NEW cl \in BOOLEAN, NEW w \in Seq(WirePart), NEW rp,
         NEW hd \in Nat, NEW ln, NEW sp, NEW sq, NEW fed \in Nat, NEW p \in WirePart,
         NEW lk \in BOOLEAN, NEW v,
         Ends(fr, cl, w, rp, hd, ln, sp, fed, lk), PartOf(fr, p),
         Len(fr) # 0 \/ sp = "idle",
         Writes(fr, cl, p, sp, sq),
         v = IF lk THEN Append(w, p) ELSE w
  PROVE  Ends(fr, cl, v, rp, hd, ln, sq, fed, lk)
<1>1. CASE lk
  <2>1. Ends(fr, cl, w, rp, hd, ln, sp, fed, TRUE)
    BY <1>1
  <2>2. Ends(fr, cl, Append(w, p), rp, hd, ln, sq, fed, TRUE)
    BY <2>1, EndsWrite
  <2>3. QED BY <1>1, <2>2
<1>2. CASE ~lk
  <2>1. Len(fr) \in Nat
    OBVIOUS
  <2>2. SentOf(fr, sp) <= SentOf(fr, sq) /\ SentOf(fr, sp) \in Int /\ SentOf(fr, sq) \in Int
    BY <2>1 DEF SentOf, Follow, InFrame, Writes
  <2>3. ASSUME NEW at \in Nat, Heads(w, at, SentOf(fr, sp)) PROVE Heads(w, at, SentOf(fr, sq))
    <3>1. PICK s \in Int, t \in Int : s = SentOf(fr, sp) /\ t = SentOf(fr, sq) /\ s <= t
      BY <2>2
    <3>2. ASSUME NEW i \in 1..Len(w) PROVE w[i].frame \in Nat
      <4>1. w[i] \in WirePart
        OBVIOUS
      <4>2. QED BY <4>1 DEF WirePart
    <3>3. QED BY <2>3, <3>1, <3>2 DEF Heads
  <2>4. CurOf(rp, hd, fed) \in Nat
    BY DEF CurOf
  <2>5. QED BY <1>2, <2>3, <2>4 DEF Ends
<1>3. QED BY <1>1, <1>2

SocketRest ==
  /\ rpc # "lost"
  /\ opcode \in WS!Opcodes /\ got \in Seq(Whole)
  /\ Received(frames, got, data, opcode, Fed)
  /\ Ends(frames, client, wsWire, rpc, wsHead, length, spc, Fed, Linked)

\* The sender writes a part of its frame, or a control frame.
LEMMA SenderWrites ==
  ASSUME SocketInv, SocketRest, Len(frames) # 0 \/ spc = "idle", up["sender"],
         NEW piece \in SocketParts, NEW n \in Nat, WS!Write(piece, n),
         UNCHANGED <<client, frames, WS!recvVars, up, broken>>,
         piece = "length" => n = 2 /\ frames[Len(frames)].size = 2,
         piece = "data" => frames[Len(frames)].size # 0,
         \/ /\ spc = "head" /\ piece = "head"
            /\ spc' = IF frames[Len(frames)].size = 2 THEN "length" ELSE WS!AfterHead
         \/ spc = "length" /\ piece = spc /\ spc' = WS!AfterHead
         \/ spc = "mask" /\ piece = spc /\ spc' = "data"
         \/ spc = "data" /\ piece = spc /\ spc' = "idle"
         \/ spc \in {"idle", "head"} /\ piece = "control" /\ spc' = spc
  PROVE  SocketRest'
<1>1. SocketTypes
  BY DEF SocketInv
<1>2. PICK m \in Nat : m = Len(frames)
  BY <1>1 DEF SocketTypes
<1>3. PICK p \in WirePart : p = [part |-> piece, frame |-> IF piece = "control" THEN 0 ELSE Len(frames),
                                 length |-> n]
  <2>1. (IF piece = "control" THEN 0 ELSE Len(frames)) \in Nat
    BY <1>2
  <2>2. QED BY <2>1 DEF WirePart
<1>4. PICK lk \in BOOLEAN : lk = Linked
  BY <1>1, Zenon DEF Linked, SocketTypes
<1>5. wsWire' = IF lk THEN Append(wsWire, p) ELSE wsWire
  BY <1>3, <1>4 DEF WS!Write, WS!NoFrame, Linked
<1>6. /\ p.part = piece /\ (piece # "control" => p.frame = Len(frames)) /\ p.length = n
  BY <1>3
<1>7. PartOf(frames, p)
  <2>1. piece # "control" => Len(frames) \in DOMAIN frames
    BY <1>1, <1>2 DEF SocketTypes
  <2>2. QED BY <1>6, <2>1 DEF PartOf
<1>8. Fed \in Nat
  BY <1>1, FedTyped DEF SocketRest
<1>9. Ends(frames, client, wsWire, rpc, wsHead, length, spc, Fed, lk)
  BY <1>4, Zenon DEF SocketRest
<1>10. Writes(frames, client, p, spc, spc')
  BY <1>6 DEF Writes, Follow, WS!AfterHead, InFrame
<1>11. Ends(frames, client, wsWire', rpc, wsHead, length, spc', Fed, lk)
  <2>1. /\ frames \in Seq(Fragment) /\ client \in BOOLEAN /\ wsWire \in Seq(WirePart)
        /\ wsHead \in Nat
    BY <1>1 DEF SocketTypes
  <2>2. PICK sq, v : sq = spc' /\ v = wsWire'
    OBVIOUS
  <2>3. Writes(frames, client, p, spc, sq)
    BY <1>10, <2>2, Zenon
  <2>4. v = IF lk THEN Append(wsWire, p) ELSE wsWire
    BY <1>5, <2>2
  <2>5. Ends(frames, client, v, rpc, wsHead, length, sq, Fed, lk)
    BY <1>7, <1>8, <1>9, <2>1, <2>3, <2>4, WriterStep
  <2>6. QED BY <2>2, <2>5, Zenon
<1>12. UNCHANGED <<client, frames, rpc, wsHead, length, opcode, data, got, Fed, Linked>>
  BY DEF WS!recvVars, Fed, Linked
<1>13. Ends(frames, client, wsWire, rpc, wsHead, length, spc, Fed, Linked)'
  BY <1>4, <1>11, <1>12, Zenon
<1>14. QED BY <1>12, <1>13 DEF SocketRest

LEMMA SendMessageRest ==
  ASSUME WS!WebSocketAssumption, SocketInv, SocketRest, WS!SendMessage
  PROVE  SocketRest'
<1>1. SocketTypes /\ Sizes \subseteq 0..3
  BY DEF SocketInv, WS!WebSocketAssumption, WS!WebSocketAssumption, WS!Empty, WS!Long
<1>2. PICK f \in Fragment : frames' = Append(frames, f)
  BY <1>1 DEF WS!SendMessage, WS!Frames, Fragment
<1>3. /\ spc = "idle" /\ spc' = "head"
      /\ UNCHANGED <<client, wsWire, rpc, wsHead, length, opcode, data, got, Fed, Linked>>
  BY DEF WS!SendMessage, WS!recvVars, Fed, Linked
<1>4. PICK v \in Seq(Fragment) : v = Append(frames, f)
  BY <1>1, AppendProperties DEF SocketTypes
<1>5. PICK m \in Nat : m = Len(frames)
  BY <1>1 DEF SocketTypes
<1>6. Len(v) = m + 1 /\ DOMAIN v = 1..m + 1 /\ DOMAIN frames = 1..m
      /\ \A i \in 1..m : v[i] = frames[i]
  <2>1. frames \in Seq(Fragment)
    BY <1>1 DEF SocketTypes
  <2>2. Len(v) = m + 1 /\ \A i \in 1..m : v[i] = frames[i]
    BY <1>4, <1>5, <2>1, AppendProperties
  <2>3. QED BY <1>5, <2>1, <2>2
<1>7. Received(v, got, data, opcode, Fed)
  BY <1>1, <1>4, ReceivedFrames DEF SocketRest, SocketTypes
<1>8. Ends(v, client, wsWire, rpc, wsHead, length, "head", Fed, Linked)
  <2> SUFFICES ASSUME rpc \in Reading
               PROVE  Ends(v, client, wsWire, rpc, wsHead, length, "head", Fed, Linked)
    BY DEF Ends
  <2>1. /\ Line(frames, client, wsWire, rpc, wsHead)
        /\ Heads(wsWire, CurOf(rpc, wsHead, Fed), SentOf(frames, "idle"))
        /\ rpc \in InFrame => wsHead = Fed + 1 /\ wsHead \in DOMAIN frames
        /\ rpc \in {"mask", "data"} => length = frames[wsHead].size
        /\ Linked => Met(frames, client, wsWire, rpc, wsHead, "idle", Fed)
    BY <1>3 DEF SocketRest, Ends
  <2>2. SentOf(v, "head") = m /\ SentOf(frames, "idle") = m
    BY <1>5, <1>6 DEF SentOf
  <2>3. /\ Line(v, client, wsWire, rpc, wsHead)
        /\ EndPart(v, client, wsWire, rpc) = EndPart(frames, client, wsWire, rpc)
    BY <1>1, <1>4, <2>1, LineFrames DEF SocketTypes
  <2>4. Linked => Met(v, client, wsWire, rpc, wsHead, "head", Fed)
    BY <2>1, <2>2, <2>3 DEF Met, InFrame
  <2>5. rpc \in InFrame => wsHead \in DOMAIN v /\ v[wsHead] = frames[wsHead]
    BY <1>6, <2>1
  <2>6. QED BY <2>1, <2>2, <2>3, <2>4, <2>5 DEF Ends, InFrame
<1>9. Ends(frames, client, wsWire, rpc, wsHead, length, spc, Fed, Linked)'
  BY <1>2, <1>3, <1>4, <1>8, Zenon
<1>10. QED BY <1>2, <1>3, <1>4, <1>7, <1>9 DEF SocketRest

\* Once the connection is gone for the sender nothing has to fit its end.
LEMMA SenderGone ==
  ASSUME SocketInv, SocketRest, UNCHANGED <<client, frames, WS!recvVars, wsWire>>, ~Linked',
         spc' = spc \/ spc' = "stuck" \/ (spc = "data" /\ spc' = "idle")
  PROVE  SocketRest'
<1>1. UNCHANGED <<rpc, wsHead, length, opcode, data, got, Fed>>
  BY DEF WS!recvVars, Fed
<1>2. PICK m \in Nat : m = Len(frames)
  BY DEF SocketInv, SocketTypes
<1>3. PICK s \in Int, t \in Int : s = SentOf(frames, spc) /\ t = SentOf(frames, spc') /\ s <= t
  BY <1>2 DEF SentOf
<1>4. PICK at \in Nat : at = CurOf(rpc, wsHead, Fed)
  BY FedTyped DEF SocketRest, SocketInv, SocketTypes, CurOf
<1>5. rpc \in Reading =>
        /\ Line(frames, client, wsWire, rpc, wsHead) /\ Heads(wsWire, at, s)
        /\ rpc \in InFrame => wsHead = Fed + 1 /\ wsHead \in DOMAIN frames
        /\ rpc \in {"mask", "data"} => length = frames[wsHead].size
  BY <1>3, <1>4 DEF SocketRest, Ends
<1>6. \A i \in 1..Len(wsWire) : wsWire[i].frame \in Nat
  <2>1. ASSUME NEW i \in 1..Len(wsWire) PROVE wsWire[i].frame \in Nat
    <3>1. wsWire[i] \in WirePart
      BY DEF SocketInv, SocketTypes
    <3>2. QED BY <3>1 DEF WirePart
  <2>2. QED BY <2>1
<1>7. Heads(wsWire, at, s) => Heads(wsWire, at, t)
  BY <1>3, <1>6 DEF Heads
<1>8. Ends(frames, client, wsWire, rpc, wsHead, length, spc', Fed, Linked')
  BY <1>3, <1>4, <1>5, <1>7 DEF Ends
<1>9. client' = client /\ frames' = frames /\ wsWire' = wsWire
  OBVIOUS
<1>10. Ends(frames, client, wsWire, rpc, wsHead, length, spc, Fed, Linked)'
  BY <1>1, <1>8, <1>9, Zenon
<1>11. QED BY <1>1, <1>9, <1>10 DEF SocketRest

LEMMA SendRest ==
  ASSUME WS!WebSocketAssumption, SocketInv, SocketRest, Calm, WS!Send \/ WS!Break, Calm'
  PROVE  SocketRest'
<1>1. Sizes \subseteq 0..3 /\ SocketTypes
  BY DEF SocketInv, WS!WebSocketAssumption, WS!WebSocketAssumption, WS!Empty, WS!Long
<1>2. Len(frames) # 0 => Len(frames) \in DOMAIN frames /\ frames[Len(frames)].size # 3
  BY <1>1 DEF SocketTypes, Calm
<1>3. CASE WS!SendMessage
  BY <1>3, SendMessageRest
<1>4. CASE WS!SendHead
  <2>1. Len(frames) # 0
    BY <1>4 DEF WS!SendHead, SocketInv
  <2>2. /\ spc' = IF frames[Len(frames)].size = 2 THEN "length" ELSE WS!AfterHead
        /\ spc = "head" /\ WS!Write("head", 0) /\ up["sender"]
        /\ UNCHANGED <<client, frames, WS!recvVars, up, broken>>
    BY <1>2, <1>4, <2>1 DEF WS!SendHead, WS!frame, WS!Medium, WS!Long
  <2>3. QED BY <2>1, <2>2, SenderWrites DEF SocketParts
<1>5. CASE WS!SendLength
  <2>1. Len(frames) # 0 /\ frames[Len(frames)].size = 2
    BY <1>2, <1>5 DEF WS!SendLength, SocketInv, InFrame
  <2>2. /\ spc' = WS!AfterHead /\ spc = "length" /\ WS!Write("length", 2) /\ up["sender"]
        /\ UNCHANGED <<client, frames, WS!recvVars, up, broken>>
    BY <1>5, <2>1 DEF WS!SendLength, WS!frame, WS!Medium
  <2>3. QED BY <2>1, <2>2, SenderWrites DEF SocketParts
<1>6. CASE WS!SendMask
  <2>1. Len(frames) # 0
    BY <1>6 DEF WS!SendMask, SocketInv, InFrame
  <2>2. /\ spc' = "data" /\ spc = "mask" /\ WS!Write("mask", 0) /\ up["sender"]
        /\ UNCHANGED <<client, frames, WS!recvVars, up, broken>>
    BY <1>6 DEF WS!SendMask
  <2>3. QED BY <2>1, <2>2, SenderWrites DEF SocketParts
<1>7. CASE WS!SendData
  <2>1. Len(frames) # 0 /\ spc = "data" /\ spc' = "idle"
        /\ UNCHANGED <<client, frames, WS!recvVars, broken>>
    BY <1>7 DEF WS!SendData, SocketInv, InFrame
  <2>2. CASE frames[Len(frames)].size = 0
    <3>1. wsWire' = wsWire /\ ~up'["sender"]
      BY <1>1, <1>7, <2>2 DEF WS!SendData, WS!frame, WS!Empty, SocketTypes
    <3>2. QED BY <2>1, <3>1, SenderGone DEF Linked
  <2>3. CASE frames[Len(frames)].size # 0
    <3>1. WS!Write("data", 0) /\ up' = up /\ up["sender"]
      BY <1>7, <2>3 DEF WS!SendData, WS!frame, WS!Empty
    <3>2. QED BY <2>1, <2>3, <3>1, SenderWrites DEF SocketParts
  <2>4. QED BY <2>2, <2>3
<1>8. CASE WS!SendFails
  <2>1. /\ spc' = "stuck" /\ wsWire' = wsWire
        /\ UNCHANGED <<client, frames, WS!recvVars, up, broken>> /\ WS!Gone
    BY <1>8 DEF WS!SendFails
  <2>2. ~Linked'
    BY <2>1 DEF WS!Gone, Linked
  <2>3. QED BY <2>1, <2>2, SenderGone
<1>9. CASE WS!SendControl
  <2>1. /\ WS!Write("control", 0) /\ up["sender"] /\ spc' = spc
        /\ UNCHANGED <<client, frames, WS!recvVars, up, broken>>
    BY <1>9 DEF WS!SendControl
  <2>2. spc \notin InFrame
    BY <1>9 DEF WS!SendControl, Calm, InFrame
  <2>3. CASE Linked
    <3>1. spc \in {"idle", "head", "stuck"}
      BY <1>1, <2>2 DEF SocketTypes, InFrame
    <3>2. CASE spc # "stuck"
      <4>1. Len(frames) # 0 \/ spc = "idle"
        BY <3>1, <3>2 DEF SocketInv
      <4>2. QED BY <2>1, <3>1, <3>2, <4>1, SenderWrites DEF SocketParts
    <3>3. CASE spc = "stuck"
      <4>1. rpc \notin Reading
        BY <2>3, <3>3 DEF SocketRest, Ends, Met
      <4>2. UNCHANGED <<frames, rpc, wsHead, length, opcode, data, got, Fed>>
        BY <2>1 DEF WS!recvVars, Fed
      <4>3. QED BY <4>1, <4>2 DEF SocketRest, Ends
    <3>4. QED BY <3>2, <3>3
  <2>4. CASE ~Linked
    <3>1. wsWire' = wsWire
      BY <2>1, <2>4 DEF WS!Write, Linked
    <3>2. ~Linked'
      BY <2>1, <2>4 DEF Linked
    <3>3. QED BY <2>1, <3>1, <3>2, SenderGone
  <2>5. QED BY <2>3, <2>4
<1>10. CASE WS!Break
  <2>1. /\ spc' = spc /\ wsWire' = wsWire /\ broken'
        /\ UNCHANGED <<client, frames, WS!recvVars>>
    BY <1>10 DEF WS!Break, WS!sendVars
  <2>2. QED BY <2>1, SenderGone DEF Linked
<1>11. QED
  BY <1>3, <1>4, <1>5, <1>6, <1>7, <1>8, <1>9, <1>10 DEF WS!Send

\* The receiver takes a part that is not data, or gives up.
LEMMA ReaderTakes ==
  ASSUME SocketInv, SocketRest, wsWire # << >>, rpc \in Reading,
         wsWire' = Tail(wsWire), wsWire[1].part # "data",
         UNCHANGED <<client, WS!sendVars, opcode, data, got, up, broken>>,
         rpc' = Follow(frames, client, wsWire[1]),
         rpc' \in InFrame => wsHead' = wsWire[1].frame,
         rpc' \in {"mask", "data"} => length' = frames[wsWire[1].frame].size
  PROVE  SocketRest'
<1>1. UNCHANGED <<client, frames, spc, opcode, data, got, Fed, Linked>>
  BY DEF WS!sendVars, Fed, Linked
<1>2. Fed \in Nat
  BY FedTyped DEF SocketRest, SocketInv
<1>3. /\ frames \in Seq(Fragment) /\ client \in BOOLEAN /\ wsWire \in Seq(WirePart)
      /\ wsHead \in Nat
  BY DEF SocketInv, SocketTypes
<1>4. Ends(frames, client, wsWire, rpc, wsHead, length, spc, Fed, Linked)
  BY DEF SocketRest
<1>5. PICK rq, hq, lq : rq = rpc' /\ hq = wsHead' /\ lq = length'
  OBVIOUS
<1>6. TakesPart(frames, client, wsWire[1], Fed, rq, hq, lq, Fed)
  BY <1>5 DEF TakesPart
<1>7. PICK lk : lk = Linked
  OBVIOUS
<1>8. Ends(frames, client, wsWire', rpc', wsHead', length', spc', Fed', Linked')
  <2>1. Ends(frames, client, wsWire, rpc, wsHead, length, spc, Fed, lk)
    BY <1>4, <1>7, Zenon
  <2>2. Ends(frames, client, Tail(wsWire), rq, hq, lq, spc, Fed, lk)
    BY <1>2, <1>3, <1>6, <2>1, EndsRead
  <2>3. QED BY <1>1, <1>5, <1>7, <2>2, Zenon
<1>9. rpc' # "lost"
  BY DEF Follow
<1>10. QED BY <1>1, <1>8, <1>9 DEF SocketRest

LEMMA ReaderEnds ==
  ASSUME SocketInv, SocketRest, rpc' \in {"closed", "stuck"},
         UNCHANGED <<WS!sendVars, opcode, data, got>>
  PROVE  SocketRest'
<1>1. UNCHANGED <<frames, opcode, data, got, Fed>>
  BY DEF WS!sendVars, Fed
<1>2. Ends(frames, client, wsWire, rpc, wsHead, length, spc, Fed, Linked)'
  BY DEF Ends, Reading
<1>3. QED BY <1>1, <1>2 DEF SocketRest

LEMMA ReceiveDataRest ==
  ASSUME SocketInv, SocketRest, WS!RecvData
  PROVE  SocketRest'
<1>1. /\ wsWire # << >> /\ wsWire[1].part = "data" /\ wsWire' = Tail(wsWire) /\ rpc = "data"
      /\ UNCHANGED <<client, frames, spc, Linked>>
  BY DEF WS!RecvData, WS!Got, WS!sendVars, Linked
<1>2. Fed \in Nat
  BY FedTyped DEF SocketRest, SocketInv
<1>3. /\ frames \in Seq(Fragment) /\ client \in BOOLEAN /\ wsWire \in Seq(WirePart)
      /\ wsHead \in Nat /\ data \in Seq(Nat)
  BY DEF SocketInv, SocketTypes
<1>4. Ends(frames, client, wsWire, rpc, wsHead, length, spc, Fed, Linked)
  BY DEF SocketRest
<1>5. wsHead = Fed + 1 /\ wsHead \in DOMAIN frames /\ length = frames[wsHead].size
  BY <1>1, <1>4 DEF Ends, Reading, InFrame
<1>6. Follow(frames, client, wsWire[1]) = "head"
  BY <1>1 DEF Follow
<1>7. ASSUME NEW hq, NEW lq
      PROVE  /\ Ends(frames, client, Tail(wsWire), "head", hq, lq, spc, Fed + 1, Linked)
             /\ wsWire[1].frame = wsHead
  <2>1. rpc \in Reading /\ rpc \in InFrame
        /\ TakesPart(frames, client, wsWire[1], Fed, "head", hq, lq, Fed + 1)
    BY <1>1, <1>6 DEF InFrame, Reading, TakesPart
  <2>2. PICK lk : lk = Linked
    OBVIOUS
  <2>3. Ends(frames, client, wsWire, rpc, wsHead, length, spc, Fed, lk)
    BY <1>4, <2>2, Zenon
  <2>4. Ends(frames, client, Tail(wsWire), "head", hq, lq, spc, Fed + 1, lk)
        /\ wsWire[1].frame = wsHead
    BY <1>1, <1>2, <1>3, <2>1, <2>3, EndsRead
  <2>5. QED BY <2>2, <2>4, Zenon
<1>8. /\ rpc' = "head"
      /\ IF frames[wsHead].fin
         THEN /\ got' = Append(got, [opcode |-> WS!MessageOpcode, data |-> Append(data, wsHead)])
              /\ opcode' = "CONTINUE" /\ data' = << >>
         ELSE opcode' = WS!MessageOpcode /\ data' = Append(data, wsHead) /\ got' = got
  <2>1. wsWire[1].frame = wsHead /\ Head(wsWire) = wsWire[1]
    <3>1. wsWire[1].frame = wsHead
      BY <1>7
    <3>2. QED BY <1>1, <1>3, <3>1
  <2>2. PICK h : h = Head(wsWire) /\ h.frame = wsHead
    BY <2>1
  <2>3. length = frames[wsHead].size
    BY <1>5
  <2>4. QED BY <2>2, <2>3 DEF WS!RecvData
<1>9. PICK op : op = WS!MessageOpcode
  OBVIOUS
<1>10. op \in WS!Opcodes /\ op = IF opcode = "CONTINUE" THEN frames[Fed + 1].opcode ELSE opcode
  <2>1. frames[wsHead] \in Fragment
    BY <1>3, <1>5
  <2>2. QED BY <1>5, <1>9, <2>1 DEF WS!MessageOpcode, SocketRest, Fragment
<1>11. got \in Seq(Whole) /\ Received(frames, got, data, opcode, Fed)
  BY DEF SocketRest
<1>12. opcode' \in WS!Opcodes /\ got' \in Seq(Whole)
       /\ Received(frames, got', data', opcode', Fed + 1)
  <2>1. CASE frames[wsHead].fin
    <3>1. PICK g : g = Append(got, [opcode |-> op, data |-> Append(data, Fed + 1)])
      OBVIOUS
    <3>2. g \in Seq(Whole) /\ Received(frames, g, << >>, "CONTINUE", Fed + 1)
      BY <1>2, <1>3, <1>5, <1>10, <1>11, <2>1, <3>1, ReceivedWhole
    <3>3. got' = g /\ data' = << >> /\ opcode' = "CONTINUE"
      BY <1>5, <1>8, <1>9, <2>1, <3>1
    <3>4. QED BY <3>2, <3>3 DEF WS!Opcodes
  <2>2. CASE ~frames[wsHead].fin
    <3>1. Received(frames, got, Append(data, Fed + 1), op, Fed + 1)
      BY <1>2, <1>3, <1>5, <1>10, <1>11, <2>2, ReceivedMore
    <3>2. got' = got /\ data' = Append(data, Fed + 1) /\ opcode' = op
      BY <1>5, <1>8, <1>9, <2>2
    <3>3. QED BY <1>10, <1>11, <3>1, <3>2
  <2>3. QED BY <2>1, <2>2
<1>13. Fed' = Fed + 1
  BY <1>12 DEF Received, Underway, Fed
<1>14. Ends(frames, client, wsWire, rpc, wsHead, length, spc, Fed, Linked)'
  <2>1. Ends(frames, client, Tail(wsWire), "head", wsHead', length', spc, Fed + 1, Linked)
    BY <1>7
  <2>2. QED BY <1>1, <1>8, <1>13, <2>1, Zenon
<1>15. QED BY <1>1, <1>8, <1>12, <1>13, <1>14 DEF SocketRest

LEMMA RecvRest ==
  ASSUME SocketInv, SocketRest, Calm, WS!Recv
  PROVE  SocketRest'
<1>1. SocketTypes
  BY DEF SocketInv
<1>2. ASSUME rpc \in Reading, wsWire # << >>
      PROVE  /\ wsWire[1].part = rpc \/ (wsWire[1].part = "control" /\ rpc = "head")
             /\ rpc \in InFrame => wsWire[1].frame = wsHead
             /\ PartOf(frames, wsWire[1]) /\ Head(wsWire) = wsWire[1]
  <2>1. Ends(frames, client, wsWire, rpc, wsHead, length, spc, Fed, Linked)
    BY DEF SocketRest
  <2>2. Line(frames, client, wsWire, rpc, wsHead)
    BY <1>2, <2>1 DEF Ends
  <2>3. Fits(wsWire[1], rpc, wsHead) /\ PartOf(frames, wsWire[1])
    BY <1>1, <1>2, <2>2 DEF Line, SocketTypes
  <2>4. QED BY <1>1, <1>2, <2>3 DEF Fits, SocketTypes, Reading, InFrame
<1>3. ASSUME NEW f, NEW n, WS!LengthIs(f, n), wsWire # << >>, rpc \in {"head", "length"},
             wsWire' = Tail(wsWire), UNCHANGED <<client, WS!sendVars, broken>>,
             f = wsWire[1].frame, n = frames[f].size,
             Follow(frames, client, wsWire[1]) = WS!AfterHead
      PROVE  SocketRest'
  <2>1. CASE WS!Closes
    BY <1>3, <2>1, ReaderEnds DEF WS!Closes
  <2>2. CASE /\ rpc' = WS!AfterHead /\ wsHead' = f /\ length' = n
             /\ UNCHANGED <<opcode, data, wsSize, got, up>>
    <3>1. wsWire[1].part # "data" /\ rpc \in Reading
      BY <1>2, <1>3 DEF Reading
    <3>2. QED BY <1>3, <2>2, <3>1, ReaderTakes
  <2>3. QED BY <1>3, <2>1, <2>2 DEF WS!LengthIs
<1>4. CASE WS!RecvHead
  <2>1. /\ rpc = "head" /\ wsWire # << >> /\ wsWire' = Tail(wsWire)
        /\ Head(wsWire).part = "head" /\ UNCHANGED <<client, WS!sendVars, broken>>
    BY <1>4 DEF WS!RecvHead, WS!Got
  <2>2. PICK f : f = wsWire[1].frame
    OBVIOUS
  <2>3. wsWire[1].part = "head" /\ f \in DOMAIN frames /\ frames[f].size # 3 /\ Head(wsWire).frame = f
    BY <1>2, <2>1, <2>2 DEF Reading, PartOf, Calm
  <2>4. CASE frames[f].size = 2
    <3>1. rpc' = "length" /\ wsHead' = f /\ UNCHANGED <<length, opcode, data, wsSize, got, up>>
      BY <1>4, <2>3, <2>4 DEF WS!RecvHead, WS!Medium, WS!Long
    <3>2. Follow(frames, client, wsWire[1]) = "length"
      BY <2>2, <2>3, <2>4 DEF Follow
    <3>3. QED BY <2>1, <2>2, <2>3, <3>1, <3>2, ReaderTakes DEF Reading
  <2>5. CASE frames[f].size # 2
    <3>1. WS!LengthIs(f, frames[f].size)
      BY <1>4, <2>3, <2>5 DEF WS!RecvHead, WS!Medium, WS!Long
    <3>2. Follow(frames, client, wsWire[1]) = WS!AfterHead
      BY <2>2, <2>3, <2>5 DEF Follow, WS!AfterHead
    <3>3. QED BY <1>3, <2>1, <2>2, <3>1, <3>2
  <2>6. QED BY <2>4, <2>5
<1>5. CASE WS!RecvLength
  <2>1. /\ rpc = "length" /\ wsWire # << >> /\ wsWire' = Tail(wsWire)
        /\ Head(wsWire).part = "length" /\ UNCHANGED <<client, WS!sendVars, broken>>
        /\ WS!LengthIs(wsHead, Head(wsWire).length)
    BY <1>5 DEF WS!RecvLength, WS!Got
  <2>2. /\ wsWire[1].part = "length" /\ wsWire[1].frame = wsHead
        /\ frames[wsHead].size = 2 /\ Head(wsWire).length = 2
    BY <1>2, <2>1 DEF Reading, PartOf, InFrame
  <2>3. Follow(frames, client, wsWire[1]) = WS!AfterHead
    BY <2>2 DEF Follow, WS!AfterHead
  <2>4. QED BY <1>3, <2>1, <2>2, <2>3
<1>6. CASE WS!RecvMask
  <2>1. /\ rpc = "mask" /\ wsWire # << >> /\ wsWire' = Tail(wsWire)
        /\ Head(wsWire).part = "mask" /\ UNCHANGED <<client, WS!sendVars, broken>>
    BY <1>6 DEF WS!RecvMask, WS!Got
  <2>2. wsWire[1].part = "mask" /\ wsWire[1].frame = wsHead /\ rpc \in Reading
    BY <1>2, <2>1 DEF Reading, InFrame
  <2>3. length = frames[wsHead].size
    BY <2>1, <2>2 DEF SocketRest, Ends
  <2>4. Follow(frames, client, wsWire[1]) = "data"
    BY <2>2 DEF Follow
  <2>5. CASE WS!Closes
    BY <2>1, <2>5, ReaderEnds DEF WS!Closes
  <2>6. CASE rpc' = "data" /\ UNCHANGED <<up, wsHead, length, opcode, data, wsSize, got>>
    BY <2>1, <2>2, <2>3, <2>4, <2>6, ReaderTakes
  <2>7. QED BY <1>6, <2>5, <2>6 DEF WS!RecvMask
<1>7. CASE WS!RecvData
  BY <1>7, ReceiveDataRest
<1>8. CASE WS!RecvControl
  <2>1. /\ rpc = "head" /\ wsWire # << >> /\ wsWire' = Tail(wsWire)
        /\ Head(wsWire).part = "control" /\ rpc' \in {"head", "stuck"}
        /\ UNCHANGED <<client, WS!sendVars, broken, up, wsHead, length, opcode, data, got>>
    BY <1>8 DEF WS!RecvControl
  <2>2. wsWire[1].part = "control" /\ rpc \in Reading
    BY <1>2, <2>1 DEF Reading
  <2>3. Follow(frames, client, wsWire[1]) = "head"
    BY <2>2 DEF Follow
  <2>4. CASE rpc' = "head"
    BY <2>1, <2>2, <2>3, <2>4, ReaderTakes DEF InFrame
  <2>5. CASE rpc' = "stuck"
    BY <2>1, <2>5, ReaderEnds
  <2>6. QED BY <2>1, <2>4, <2>5
<1>9. CASE WS!RecvLost
  BY <1>2, <1>9 DEF WS!RecvLost, Reading
<1>10. CASE WS!RecvFails
  BY <1>10, ReaderEnds DEF WS!RecvFails, WS!Closes
<1>11. QED
  BY <1>4, <1>5, <1>6, <1>7, <1>8, <1>9, <1>10 DEF WS!Recv

LEMMA SocketStep == WS!WebSocketAssumption /\ SocketInv /\ [WS!Next]_(WS!vars) => SocketInv'
<1> SUFFICES ASSUME WS!WebSocketAssumption, SocketInv, [WS!Next]_(WS!vars) PROVE SocketInv'
  OBVIOUS
<1>1. CASE WS!Next
  <2>1. ASSUME Calm' PROVE SocketRest'
    <3>1. Calm
      BY <1>1, <2>1, CalmBefore
    <3>2. SocketRest
      BY <3>1 DEF SocketInv, SocketRest
    <3>3. CASE WS!Send \/ WS!Break
      BY <2>1, <3>1, <3>2, <3>3, SendRest
    <3>4. CASE WS!Recv
      BY <3>1, <3>2, <3>4, RecvRest
    <3>5. QED BY <1>1, <3>3, <3>4 DEF WS!Next
  <2>2. QED BY <1>1, <2>1, SocketTypesStep DEF SocketInv, SocketRest
<1>2. CASE UNCHANGED WS!vars
  <2>1. UNCHANGED <<client, frames, spc, controls, mixed, wsWire, up, broken, rpc, wsHead,
                    length, opcode, data, wsSize, got>>
    BY <1>2 DEF WS!vars, WS!sendVars, WS!recvVars
  <2>2. UNCHANGED <<Fed, Linked>> /\ SocketTypes' = SocketTypes /\ Calm' = Calm
    BY <2>1 DEF Fed, Linked, SocketTypes, Calm
  <2>3. QED BY <2>1, <2>2 DEF SocketInv
<1>3. QED BY <1>1, <1>2

LEMMA SocketIntact == SocketInv => WS!MessagesIntact
<1> SUFFICES ASSUME SocketInv, ~mixed, \A f \in WS!Range(frames) : f.size # WS!Long
             PROVE  /\ rpc # "lost"
                    /\ \A j \in DOMAIN data : data[j] = WS!Begins(Len(got) + 1) + j - 1
                    /\ \A i \in DOMAIN got :
                         LET ids == got[i].data
                         IN /\ ids # << >> /\ \A j \in DOMAIN ids : ids[j] = WS!Begins(i) + j - 1
                            /\ \A j \in DOMAIN ids : frames[ids[j]].fin <=> j = Len(ids)
                            /\ WS!Opens(got[i].opcode, ids)
  BY DEF WS!MessagesIntact
<1>1. Calm
  BY DEF Calm, WS!Range, WS!Long
<1>2. rpc # "lost" /\ Received(frames, got, data, opcode, Fed)
  BY <1>1 DEF SocketInv
<1>3. \A i : WS!Begins(i) = BeginsIn(got, i)
  BY DEF WS!Begins, BeginsIn, WS!Last
<1>4. \A j \in DOMAIN data : data[j] = WS!Begins(Len(got) + 1) + j - 1
  BY <1>2, <1>3 DEF Received, Underway, InOrder
<1>5. ASSUME NEW i \in DOMAIN got
      PROVE  LET ids == got[i].data
             IN /\ ids # << >> /\ \A j \in DOMAIN ids : ids[j] = WS!Begins(i) + j - 1
                /\ \A j \in DOMAIN ids : frames[ids[j]].fin <=> j = Len(ids)
                /\ WS!Opens(got[i].opcode, ids)
  <2>1. i \in 1..Len(got)
    BY <1>1 DEF SocketInv
  <2>2. Intact(frames, got, i)
    BY <1>2, <2>1 DEF Received
  <2>3. OpensIn(frames, got[i].opcode, got[i].data) => WS!Opens(got[i].opcode, got[i].data)
    BY DEF OpensIn, WS!Opens
  <2>4. QED BY <1>3, <2>2, <2>3 DEF Intact, InOrder
<1>6. QED BY <1>2, <1>4, <1>5

\* Unless a control frame got into a data frame or a length took eight bytes,
\* the receiver gets the fragments in order, each message whole.
THEOREM SocketMessagesIntact == WS!WebSocketAssumption => (WS!Spec => []WS!MessagesIntact)
<1> SUFFICES ASSUME WS!WebSocketAssumption PROVE WS!Spec => []WS!MessagesIntact
  OBVIOUS
<1>1. WS!Init => SocketInv
  BY SocketInit
<1>2. SocketInv /\ [WS!Next]_(WS!vars) => SocketInv'
  BY SocketStep
<1>3. SocketInv => WS!MessagesIntact
  BY SocketIntact
<1>4. QED BY <1>1, <1>2, <1>3, PTL DEF WS!Spec

=============================================================================
