------------------------------- MODULE Varint -------------------------------
(***************************************************************************)
(* The integers of variable length of a ByteArray (ByteArray.cpp 138-353): *)
(* seven bits to a byte, the lowest first, the high bit set in all but the *)
(* last; signed ones by way of zigzag.  The widths are parameters: the     *)
(* code has Group 7, Half 32 and 64 for the other two.                     *)
(***************************************************************************)
EXTENDS Integers, Sequences

CONSTANTS Group, Half
Full == 2 * Half

VarintAssumption == Group \in Nat \ {0} /\ Half \in Nat /\ Half > 1

VARIABLES
  kind,       (* "uint32", "int32", "uint64" or "int64"                    *)
  value,      (* what is written                                           *)
  bytes,      (* the bytes written                                         *)
  back,       (* what is read back                                         *)
  taken       (* bytes that were read                                      *)

vars == <<kind, value, bytes, back, taken>>

Width(k) == IF k \in {"uint32", "int32"} THEN Half ELSE Full
Signed(k) == k \in {"int32", "int64"}
Values(k) == IF Signed(k) THEN -(2^(Width(k) - 1))..2^(Width(k) - 1) - 1
             ELSE 0..2^Width(k) - 1

TypeOK ==
  /\ kind \in {"uint32", "int32", "uint64", "int64"}
  /\ value \in Values(kind)
  /\ bytes \in Seq(0..2^(Group + 1) - 1)
  /\ back \in Values(kind)
  /\ taken \in 0..Len(bytes)

Init ==
  /\ kind \in {"uint32", "int32", "uint64", "int64"}
  /\ value \in Values(kind)
  /\ bytes = << >> /\ back = 0 /\ taken = 0

\* Faulty variant: twice the absolute value, with no room for the sign.
EncodeWithoutSign(v) == (IF v < 0 THEN -(2 * v) ELSE 2 * v) % 2^Half

\* EncodeZigzag32 and EncodeZigzag64: both return a uint32_t
EncodeZigzag(v) == (IF v < 0 THEN -(2 * v) - 1 ELSE 2 * v) % 2^Half

\* DecodeZigzag32 and DecodeZigzag64
DecodeZigzag(u) == IF u % 2 = 0 THEN u \div 2 ELSE -(u \div 2) - 1

\* the loop of writeUint32 and writeUint64
Groups[u \in 0..2^Full - 1] ==
  IF u < 2^Group THEN <<u>>
  ELSE <<(u % 2^Group) + 2^Group>> \o Groups[u \div 2^Group]

\* the loop of readUint32 and readUint64 from byte i on
Parse[i \in Nat] ==
  LET bit == Group * (i - 1)
      b   == (bytes[i] % 2^Group) * 2^bit
  IN IF bit >= Width(kind) THEN [value |-> 0, taken |-> 0]
     ELSE IF bytes[i] < 2^Group THEN [value |-> b, taken |-> 1]
     ELSE [value |-> b + Parse[i + 1].value, taken |-> 1 + Parse[i + 1].taken]

Write ==
  /\ bytes = << >>
  /\ bytes' = Groups[IF Signed(kind) THEN EncodeZigzag(value) ELSE value]
  /\ UNCHANGED <<kind, value, back, taken>>

Read ==
  /\ bytes # << >> /\ taken = 0
  /\ LET u == Parse[1].value % 2^Width(kind) IN
       back' = IF Signed(kind) THEN DecodeZigzag(u) ELSE u
  /\ taken' = Parse[1].taken
  /\ UNCHANGED <<kind, value, bytes>>

Next == Write \/ Read

Spec == Init /\ [][Next]_vars

\* What is written is read back, from the very bytes that were written
\* (ByteArray.cpp 138-353), for every value of the type, except that an int64
\* has to be one of an int32: its zigzag code is cut to 32 bits.
RoundTrips ==
  taken > 0 => /\ taken = Len(bytes)
               /\ kind # "int64" \/ value \in Values("int32") => back = value
=============================================================================
