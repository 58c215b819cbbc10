----------------------------- MODULE WebSocket -----------------------------
(***************************************************************************)
(* WSSendMessage, WSRecvMessage, WSPing and WSPong (http/WSSession.cpp):   *)
(* one end sends fragments of messages, the other receives.  A frame is    *)
(* written in up to four parts, and nothing keeps two fibers from writing  *)
(* at once: a PING, or the PONG for one that has come, may get between the *)
(* parts of a frame.                                                       *)
(*                                                                         *)
(* Lengths are counted in units: a Long frame is one whose length takes    *)
(* eight bytes, a Medium one two, a Short one is in the head.              *)
(***************************************************************************)
EXTENDS Naturals, Sequences, SequencesExt

CONSTANTS
  Sizes,      (* sizes of frames                                           *)
  MaxFrames,  (* bound: fragments that are sent                            *)
  MaxPings,   (* bound: PINGs and PONGs of the sending end                 *)
  MaxSize     (* websocket.message.max_size                                *)

Empty == 0
Short == 1
Medium == 2
Long == 3

WebSocketAssumption ==
  Sizes \subseteq Empty..Long /\ MaxFrames \in Nat /\ MaxPings \in Nat /\ MaxSize \in Nat

VARIABLES
  client,     (* the client sends, the server receives: data is masked     *)
  frames,     (* the fragments the sender has begun                        *)
  spc,        (* what the sender has to write next                         *)
  controls,   (* PINGs and PONGs written                                   *)
  mixed,      (* one of them got into a frame                              *)
  wire,       (* parts on their way                                        *)
  up,         (* the sender's and the receiver's socket: isConnected()     *)
  broken,     (* the connection has failed                                 *)
  rpc,        (* what the receiver has to read next                        *)
  head, length, (* its current frame                                       *)
  opcode, data, size, (* its current message                               *)
  got         (* messages received                                         *)

sendVars == <<frames, spc, controls, mixed>>
recvVars == <<rpc, head, length, opcode, data, size, got>>
vars == <<client, sendVars, wire, up, broken, recvVars>>

Opcodes == {"CONTINUE", "TEXT", "BIN"}
Frames == [opcode : Opcodes, fin : BOOLEAN, size : Sizes]
NoFrame == 0
Parts == [part : {"head", "length", "mask", "data", "control"}, frame : NoFrame..MaxFrames,
          length : {Medium} \cup 0..MaxSize]
Messages == [opcode : Opcodes, data : Seq(1..MaxFrames)]

TypeOK ==
  /\ client \in BOOLEAN /\ mixed \in BOOLEAN /\ broken \in BOOLEAN
  /\ frames \in Seq(Frames) /\ controls \in 0..MaxPings
  /\ spc \in {"idle", "head", "length", "mask", "data", "stuck"}
  /\ wire \in Seq(Parts)
  /\ up \in [{"sender", "receiver"} -> BOOLEAN]
  /\ rpc \in {"head", "length", "mask", "data", "stuck", "closed", "lost"}
  /\ head \in NoFrame..MaxFrames /\ length \in 0..MaxSize
  /\ opcode \in Opcodes /\ data \in Seq(1..MaxFrames) /\ size \in 0..MaxSize
  /\ got \in Seq(Messages)

Init ==
  /\ client \in BOOLEAN
  /\ frames = << >> /\ spc = "idle" /\ controls = 0 /\ mixed = FALSE
  /\ wire = << >> /\ up = [e \in {"sender", "receiver"} |-> TRUE] /\ broken = FALSE
  /\ rpc = "head" /\ head = NoFrame /\ length = 0
  /\ opcode = "CONTINUE" /\ data = << >> /\ size = 0 /\ got = << >>

(***************************************************************************)
(* The sender                                                              *)
(***************************************************************************)
frame == frames[Len(frames)]

\* writeFixSize of a part; on a connection that is gone it may not end
Write(part, n) ==
  /\ wire' = IF broken \/ ~up["receiver"] THEN wire
             ELSE Append(wire, [part |-> part, frame |-> IF part = "control" THEN NoFrame
                                                          ELSE Len(frames), length |-> n])
Gone == broken \/ ~up["sender"] \/ ~up["receiver"]
AfterHead == IF client THEN "mask" ELSE "data"

SendMessage ==
  /\ spc = "idle" /\ Len(frames) < MaxFrames
  /\ \E f \in Frames : frames' = Append(frames, f)
  /\ spc' = "head"
  /\ UNCHANGED <<client, controls, mixed, wire, up, broken, recvVars>>

SendHead ==
  /\ spc = "head" /\ up["sender"]
  /\ Write("head", 0)
  /\ spc' = IF frame.size \in {Medium, Long} THEN "length" ELSE AfterHead
  /\ UNCHANGED <<client, frames, controls, mixed, up, broken, recvVars>>

\* the eight bytes of a length are those of a variable that is not yet set
SendLength ==
  /\ spc = "length" /\ up["sender"]
  /\ \E n \in IF frame.size = Medium THEN {Medium} ELSE 0..MaxSize : Write("length", n)
  /\ spc' = AfterHead
  /\ UNCHANGED <<client, frames, controls, mixed, up, broken, recvVars>>

SendMask ==
  /\ spc = "mask" /\ up["sender"]
  /\ Write("mask", 0)
  /\ spc' = "data"
  /\ UNCHANGED <<client, frames, controls, mixed, up, broken, recvVars>>

\* nothing to write counts as a failure: the sender closes
SendData ==
  /\ spc = "data" /\ up["sender"]
  /\ IF frame.size = Empty THEN wire' = wire /\ up' = [up EXCEPT !["sender"] = FALSE]
     ELSE Write("data", 0) /\ up' = up
  /\ spc' = "idle"
  /\ UNCHANGED <<client, frames, controls, mixed, broken, recvVars>>

SendFails ==
  /\ spc \notin {"idle", "stuck"} /\ Gone
  /\ spc' = "stuck"
  /\ UNCHANGED <<client, frames, controls, mixed, wire, up, broken, recvVars>>

\* WSPing and WSPong of another fiber of the sending end
SendControl ==
  /\ controls < MaxPings /\ up["sender"]
  /\ controls' = controls + 1
  /\ Write("control", 0)
  /\ mixed' = (mixed \/ spc \in {"length", "mask", "data"})
  /\ UNCHANGED <<client, frames, spc, up, broken, recvVars>>

(***************************************************************************)
(* The receiver                                                            *)
(***************************************************************************)
Got(part) == rpc = part /\ wire # << >> /\ Head(wire).part = part /\ wire' = Tail(wire)
Closes ==
  /\ rpc' = "closed" /\ up' = [up EXCEPT !["receiver"] = FALSE]
  /\ UNCHANGED <<head, length, opcode, data, size, got>>

\* A frame of n bytes, none of them read yet; to read no data counts as a
\* failure, after the mask if there is one.
LengthIs(f, n) ==
  IF size + n >= MaxSize \/ (n = 0 /\ ~client) THEN Closes
  ELSE /\ rpc' = AfterHead /\ head' = f /\ length' = n
       /\ UNCHANGED <<opcode, data, size, got, up>>

RecvHead ==
  /\ Got("head")
  /\ LET f == Head(wire).frame IN
     IF frames[f].size \in {Medium, Long}
     THEN rpc' = "length" /\ head' = f /\ UNCHANGED <<length, opcode, data, size, got, up>>
     ELSE LengthIs(f, frames[f].size)
  /\ UNCHANGED <<client, sendVars, broken>>

RecvLength ==
  /\ Got("length")
  /\ LengthIs(head, Head(wire).length)
  /\ UNCHANGED <<client, sendVars, broken>>

RecvMask ==
  /\ Got("mask")
  /\ IF length = 0 THEN Closes
     ELSE rpc' = "data" /\ UNCHANGED <<up, head, length, opcode, data, size, got>>
  /\ UNCHANGED <<client, sendVars, broken>>

\* Faulty variant: every fragment sets the opcode.
MessageOpcodeLast == IF frames[head].opcode = "CONTINUE" THEN opcode ELSE frames[head].opcode

\* the first opcode that is not CONTINUE
MessageOpcode == IF opcode = "CONTINUE" THEN frames[head].opcode ELSE opcode

\* A length other than that of the data leads into the middle of a frame.  After
\* a whole message the user calls recvMessage again.
RecvData ==
  /\ Got("data")
  /\ IF length # frames[head].size
     THEN rpc' = "lost" /\ UNCHANGED <<head, length, opcode, data, size, got>>
     ELSE /\ rpc' = "head" /\ head' = NoFrame /\ length' = 0
          /\ LET all == Append(data, Head(wire).frame) IN
             IF frames[head].fin
             THEN /\ got' = Append(got, [opcode |-> MessageOpcode, data |-> all])
                  /\ opcode' = "CONTINUE" /\ data' = << >> /\ size' = 0
             ELSE /\ opcode' = MessageOpcode /\ data' = all /\ size' = size + length
                  /\ got' = got
  /\ UNCHANGED <<client, sendVars, up, broken>>

\* a PING, which is answered, or a PONG; the answer may not end
RecvControl ==
  /\ rpc = "head" /\ wire # << >> /\ Head(wire).part = "control"
  /\ wire' = Tail(wire)
  /\ rpc' = "head" \/ (Gone /\ rpc' = "stuck")
  /\ UNCHANGED <<client, sendVars, up, broken, head, length, opcode, data, size, got>>

\* a part where another is expected
RecvLost ==
  /\ rpc \in {"head", "length", "mask", "data"} /\ wire # << >>
  /\ Head(wire).part # rpc /\ ~(rpc = "head" /\ Head(wire).part = "control")
  /\ rpc' = "lost"
  /\ UNCHANGED <<client, sendVars, wire, up, broken, head, length, opcode, data, size, got>>

\* the end of the connection closes; an error does not end readFixSize
RecvFails ==
  /\ rpc \in {"head", "length", "mask", "data"} /\ wire = << >>
  /\ \/ ~up["sender"] /\ ~broken /\ Closes
     \/ /\ broken /\ rpc' = "stuck"
        /\ UNCHANGED <<up, head, length, opcode, data, size, got>>
  /\ UNCHANGED <<client, sendVars, wire, broken>>

Break ==
  /\ ~broken
  /\ broken' = TRUE
  /\ UNCHANGED <<client, sendVars, wire, up, recvVars>>

Send == SendMessage \/ SendHead \/ SendLength \/ SendMask \/ SendData \/ SendFails \/ SendControl
Recv == RecvHead \/ RecvLength \/ RecvMask \/ RecvData \/ RecvControl \/ RecvLost \/ RecvFails
\* What a receiver makes of bytes from the middle of a frame is left out.
Next == rpc # "lost" /\ (Send \/ Recv \/ Break)

Spec == Init /\ [][Next]_vars

(***************************************************************************)
(* Properties                                                              *)
(***************************************************************************)
\* The first fragment of a message after the messages before it
Begins(i) == IF i = 1 THEN 1 ELSE Last(got[i - 1].data) + 1

\* o is the first opcode of these fragments that says what they are.
Opens(o, ids) ==
  \/ o = "CONTINUE" /\ \A j \in DOMAIN ids : frames[ids[j]].opcode = "CONTINUE"
  \/ /\ o # "CONTINUE"
     /\ \E j \in DOMAIN ids : /\ frames[ids[j]].opcode = o
                              /\ \A k \in 1..j - 1 : frames[ids[k]].opcode = "CONTINUE"

\* Fragments, PINGs between them and the end of the connection
\* (http/WSSession.cpp 119-253): unless a control frame got into a data frame
\* or a length took eight bytes, the receiver gets the fragments in order and
\* without a gap, each message ends with its last fragment and no sooner, and
\* has the first opcode that says what it is.
MessagesIntact ==
  ~mixed /\ (\A f \in Range(frames) : f.size # Long) =>
    /\ rpc # "lost"
    /\ \A j \in DOMAIN data : data[j] = Begins(Len(got) + 1) + j - 1
    /\ \A i \in DOMAIN got :
         LET ids == got[i].data
         IN /\ ids # << >> /\ \A j \in DOMAIN ids : ids[j] = Begins(i) + j - 1
            /\ \A j \in DOMAIN ids : frames[ids[j]].fin <=> j = Len(ids)
            /\ Opens(got[i].opcode, ids)
=============================================================================
