----------------------------- MODULE ByteArray -----------------------------
(***************************************************************************)
(* ByteArray (ByteArray.cpp): a list of nodes of one size that grows at    *)
(* its end, a position, and a pointer to the node of the position, which   *)
(* every operation moves along with the position.  At the end of the last  *)
(* node there is none to point at.  Bytes states what it promises.         *)
(*                                                                         *)
(* Receive and Send are SocketStream's use of it: the socket reads into or *)
(* writes from the nodes themselves, then the position is set.             *)
(***************************************************************************)
EXTENDS Naturals, Sequences

CONSTANTS
  BaseSize,   (* _baseSize                                                 *)
  MaxNodes,   (* bound: nodes of the list                                  *)
  Byte,       (* bytes that are written                                    *)
  Junk        (* what new memory holds                                     *)

ByteArrayAssumption == BaseSize \in Nat \ {0} /\ MaxNodes \in Nat \ {0} /\ Junk \notin Byte

VARIABLES
  mem,        (* the memory of the nodes, one after the other              *)
  nodes,      (* nodes in the list: _capacity is nodes * BaseSize          *)
  cur,        (* _cur: the index of a node, or Null                        *)
  position, size,
  crashed     (* the null pointer has been followed                        *)

vars == <<mem, nodes, cur, position, size, crashed>>

Null == MaxNodes
Addresses == 0..MaxNodes * BaseSize - 1
Data == UNION {[1..n -> Byte] : n \in 0..BaseSize + 1}
capacity == nodes * BaseSize

TypeOK ==
  /\ mem \in [Addresses -> Byte \cup {Junk}]
  /\ nodes \in 1..MaxNodes /\ cur \in 0..nodes - 1 \cup {Null}
  /\ position \in 0..size /\ size \in 0..capacity
  /\ crashed \in BOOLEAN

Init ==
  /\ mem = [a \in Addresses |-> Junk]
  /\ nodes = 1 /\ cur = 0 /\ position = 0 /\ size = 0
  /\ crashed = FALSE

ReadSize == size - position
Larger(a, b) == IF a > b THEN a ELSE b
Offset == position % BaseSize

\* the node k steps after node c in a list of n nodes
After(c, k, n) == IF c + k < n THEN c + k ELSE Null

\* addCapacity(n): nodes are appended until n bytes fit after the position
Grown(n) ==
  LET room == capacity - position
      more == IF room >= n THEN 0 ELSE (n - room + BaseSize - 1) \div BaseSize
  IN [nodes |-> nodes + more, cur |-> IF room = 0 /\ more > 0 THEN nodes ELSE cur]

\* the memory with d stored from the offset of the position in node c on
Stored(c, d) ==
  [a \in Addresses |->
    LET i == a + 1 - (c * BaseSize + Offset) IN IF i \in DOMAIN d THEN d[i] ELSE mem[a]]

Write(d) ==
  LET g == Grown(Len(d)) IN
  /\ d # << >> /\ ~crashed /\ g.nodes <= MaxNodes
  /\ IF g.cur = Null
     THEN crashed' = TRUE /\ UNCHANGED <<mem, nodes, cur, position, size>>
     ELSE /\ nodes' = g.nodes
          /\ position' = position + Len(d)
          /\ cur' = After(g.cur, (Offset + Len(d)) \div BaseSize, nodes')
          /\ size' = Larger(size, position')
          /\ mem' = Stored(g.cur, d)
          /\ UNCHANGED crashed

\* Reading no bytes at the end of the last node follows the null pointer: the
\* end of a message whose last string is empty.
Read(n) ==
  /\ ~crashed /\ n <= ReadSize
  /\ crashed' = (cur = Null)
  /\ cur' = IF crashed' \/ n = 0 THEN cur
            ELSE After(cur, (Offset + n) \div BaseSize, nodes)
  /\ position' = IF crashed' THEN position ELSE position + n
  /\ UNCHANGED <<mem, nodes, size>>

\* Faulty variant: the end of a node is still in it.
SeekStays(v, n) ==
  /\ position' = v
  /\ size' = Larger(size, v)
  /\ cur' = IF v > 0 /\ v % BaseSize = 0 THEN v \div BaseSize - 1
            ELSE After(0, v \div BaseSize, n)

\* setPosition(v) in a list of n nodes
Seek(v, n) ==
  /\ position' = v
  /\ size' = Larger(size, v)
  /\ cur' = After(0, v \div BaseSize, n)

SetPosition(v) ==
  /\ ~crashed /\ v <= capacity
  /\ Seek(v, nodes)
  /\ UNCHANGED <<mem, nodes, crashed>>

Clear ==
  /\ ~crashed
  /\ position' = 0 /\ size' = 0 /\ nodes' = 1 /\ cur' = 0
  /\ mem' = [a \in Addresses |-> IF a < BaseSize THEN mem[a] ELSE Junk]
  /\ UNCHANGED crashed

\* SocketStream::read(ba, room): the socket gives d, or nothing
Receive(room, d) ==
  LET g == Grown(room) IN
  /\ ~crashed /\ room > 0 /\ g.nodes <= MaxNodes /\ Len(d) <= room
  /\ nodes' = g.nodes
  /\ IF d = << >> THEN cur' = g.cur /\ UNCHANGED <<position, size>>
     ELSE Seek(position + Len(d), g.nodes)
  /\ mem' = Stored(g.cur, d)
  /\ UNCHANGED crashed

\* SocketStream::write(ba, n): the socket takes k bytes of them
Send(k) ==
  /\ ~crashed /\ k \in 1..ReadSize
  /\ Seek(position + k, nodes)
  /\ UNCHANGED <<mem, nodes, crashed>>

Next ==
  \/ \E d \in Data : Write(d) \/ \E room \in 1..BaseSize + 1 : Receive(room, d)
  \/ \E n \in 0..size : Read(n) \/ Send(n)
  \/ \E v \in 0..capacity : SetPosition(v)
  \/ Clear

Spec == Init /\ [][Next]_vars

\* getReadBuffers(n) and what read(n) copies, from _cur on
Fetched(n) == [i \in 1..n |-> mem[cur * BaseSize + Offset + i - 1]]

\* toString(): only the first and the last node are read as in read(); the
\* nodes between are taken to be the first one again
Shown ==
  [i \in 1..ReadSize |->
    LET at == Offset + i - 1
        last == (Offset + ReadSize - 1) \div BaseSize
    IN mem[cur * BaseSize + IF at \div BaseSize = last THEN at ELSE at % BaseSize]]

(***************************************************************************)
(* Properties                                                              *)
(***************************************************************************)
content == [i \in 1..size |-> mem[i - 1]]
B == INSTANCE Bytes

\* Every operation moves _cur by its own loop (ByteArray.cpp 408-559, 611-649):
\* after any sequence of them it is at the position, a read returns what is
\* there, and toString() does as long as that takes two nodes at most.
CurExact ==
  /\ cur = IF position = capacity THEN Null ELSE position \div BaseSize
  /\ \A n \in 1..ReadSize : Fetched(n) = SubSeq(content, position + 1, position + n)
  /\ crashed => position = capacity
  /\ Offset + ReadSize <= 2 * BaseSize /\ ReadSize > 0 =>
       Shown = SubSeq(content, position + 1, size)

\* Each operation does what Bytes says of it (ByteArray.cpp 408-559): whatever
\* the boundaries of nodes it crosses, a write changes the bytes from the
\* position on and no others, no other operation changes any, and what is read
\* afterwards is what is there.
StepIsBytes ==
  /\ CurExact'
  /\ ~crashed' =>
       /\ \A d \in Data : Write(d) => B!Write(d)
       /\ \A r \in 1..BaseSize + 1, d \in Data : Receive(r, d) => B!Write(d)
       /\ \A n \in 0..size : Read(n) \/ Send(n) => B!Read(n)
       /\ \A v \in 0..capacity : SetPosition(v) => B!SetPosition(v)
       /\ Clear => B!Clear
ImplementsBytes == B!Init /\ CurExact /\ [][StepIsBytes]_vars
=============================================================================
