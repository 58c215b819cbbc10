------------------------------- MODULE Bytes -------------------------------
(* What a ByteArray promises: a sequence of bytes with a position.  Writing *)
(* replaces or appends from the position on and moves it; reading moves it  *)
(* over bytes that are there; setting it past the end appends bytes nobody  *)
(* has written.                                                             *)
EXTENDS Naturals, Sequences

CONSTANT Byte
VARIABLES content, position

Init == content = << >> /\ position = 0

End == IF position' > Len(content) THEN position' ELSE Len(content)

Write(d) ==
  /\ position' = position + Len(d)
  /\ content' = [i \in 1..End |-> IF i \in position + 1..position' THEN d[i - position]
                                  ELSE content[i]]

Read(n) ==
  /\ position + n <= Len(content)
  /\ position' = position + n
  /\ content' = content

SetPosition(v) ==
  /\ position' = v
  /\ Len(content') = End
  /\ \A i \in 1..Len(content) : content'[i] = content[i]

Clear == content' = << >> /\ position' = 0

Next ==
  \/ \E d \in Seq(Byte) : Write(d)
  \/ \E n \in Nat : Read(n) \/ SetPosition(n)
  \/ Clear

Spec == Init /\ [][Next]_<<content, position>>
=============================================================================
