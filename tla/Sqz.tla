--------------------------------- MODULE Sqz ---------------------------------
(***************************************************************************)
(* The record decompressor (decompress_impl in sqz.rs): a loop over control*)
(* bytes, each of which copies bytes or repeats one.                       *)
(*                                                                         *)
(* The input is what a record on a page can be: the segments Firebird      *)
(* wrote, cut off anywhere (the slot's length is read from a page that     *)
(* changes).  The specification knows the segments, the loop does not.     *)
(***************************************************************************)
EXTENDS Integers, SequencesExt

CONSTANTS
  Payload,       \* bytes of a record
  Literals,      \* lengths of the segments to copy
  Repeats,       \* lengths of the segments to repeat
  MaxRecord,     \* MAX_RECORD_SIZE
  MaxSegments    \* bound: segments of a record

Radix == 256     \* values of a byte

ASSUME SqzAssumption ==
  /\ Payload \subseteq 0..(Radix - 1)
  /\ Literals \subseteq 0..(Radix \div 2 - 1)
  /\ Repeats \subseteq Nat
  /\ MaxRecord \in Nat
  /\ MaxSegments \in Nat

(***************************************************************************)
(* Firebird's side (the format in the head of sqz.rs).  A segment is what  *)
(* it stands for, and the number of bytes its count takes: 0 = the control *)
(* byte itself, or 2 or 4 bytes, the lowest first.                         *)
(***************************************************************************)
LiteralSegs == {[copy |-> TRUE, text |-> s, width |-> 0] : s \in UNION {[1..k -> Payload] : k \in Literals}}
RepeatSegs  == {[copy |-> FALSE, text |-> [j \in 1..k |-> b], byte |-> b, width |-> x] :
                  k \in Repeats, b \in Payload, x \in {0, 2, 4}}

Byte(v)  == v % Radix                     \* two's complement
Count(v, width) ==
  SubSeq(<<v % Radix, (v \div Radix) % Radix,
           (v \div (Radix * Radix)) % Radix, (v \div (Radix * Radix * Radix)) % Radix>>, 1, width)

Encoded(seg) ==
  LET len == Len(seg.text)
  IN  IF seg.copy THEN <<len>> \o seg.text
      ELSE IF seg.width = 0 THEN <<Byte(-len), seg.byte>>
      ELSE <<Byte(IF seg.width = 2 THEN -1 ELSE -2)>> \o Count(len, seg.width) \o <<seg.byte>>

\* A count in the control byte has to be told apart from -1, -2 and a copy.
Writable(seg) ==
  \/ seg.copy
  \/ seg.width = 0 /\ Len(seg.text) \in 3..(Radix \div 2)
  \/ seg.width = 2 /\ Len(seg.text) < Radix * Radix
  \/ seg.width = 4 /\ Len(seg.text) \div (Radix * Radix * Radix) < Radix

VARIABLES
  segs,          \* the segments of the record
  input,         \* its bytes, or the first of them
  pos,           \* index of the next byte to read
  out,
  verdict        \* "reading", "ok" (true), "malformed" (false)

sqzVars == <<segs, input, pos, out, verdict>>

AllBytes(ss) == FlattenSeq([j \in 1..Len(ss) |-> Encoded(ss[j])])
Text(ss)     == FlattenSeq([j \in 1..Len(ss) |-> ss[j].text])

SqzTypeOK ==
  /\ pos \in 1..(Len(input) + 1)
  /\ \A j \in 1..Len(out) : out[j] \in 0..(Radix - 1)
  /\ verdict \in {"reading", "ok", "malformed"}

SqzInit ==
  /\ segs \in BoundedSeq({s \in LiteralSegs \cup RepeatSegs : Writable(s)}, MaxSegments)
  /\ \E k \in 0..Len(AllBytes(segs)) : input = SubSeq(AllBytes(segs), 1, k)
  /\ pos = 1
  /\ out = <<>>
  /\ verdict = "reading"

-----------------------------------------------------------------------------
\* The control byte as an i8, and the bytes there are behind it.
Ctrl == IF input[pos] < Radix \div 2 THEN input[pos] ELSE input[pos] - Radix
Left == Len(input) - pos

More == verdict = "reading" /\ pos <= Len(input)

\* The size is tested after the bytes are there.
Emit(bytes, width) ==
  /\ out' = out \o bytes
  /\ pos' = pos + width
  /\ verdict' = IF Len(out') > MaxRecord THEN "malformed" ELSE "reading"
  /\ UNCHANGED <<segs, input>>

Malformed == verdict' = "malformed" /\ UNCHANGED <<segs, input, pos, out>>

\* Mutant: a copy takes what is left of a record cut short.
CopyWhatIsLeft ==
  /\ More /\ Ctrl >= 0
  /\ LET len == IF Ctrl > Left THEN Left ELSE Ctrl
     IN  Emit(SubSeq(input, pos + 1, pos + len), 1 + len)

Copy ==
  /\ More /\ Ctrl >= 0
  /\ IF Ctrl > Left THEN Malformed
     ELSE Emit(SubSeq(input, pos + 1, pos + Ctrl), 1 + Ctrl)

CountWidth == IF Ctrl = -1 THEN 2 ELSE IF Ctrl = -2 THEN 4 ELSE 0
CountByte(j) == IF j <= CountWidth THEN input[pos + j] ELSE 0

\* from_le_bytes, or the magnitude of the control byte.
RunLength ==
  IF CountWidth = 0 THEN -Ctrl
  ELSE CountByte(1) + Radix * (CountByte(2) + Radix * (CountByte(3) + Radix * CountByte(4)))

\* Mutant: the size of the record is not tested before it is filled up.
RepeatUnbounded ==
  /\ More /\ Ctrl < 0
  /\ IF Left < CountWidth + 1
     THEN Malformed
     ELSE /\ out' = out \o [j \in 1..RunLength |-> input[pos + CountWidth + 1]]
          /\ pos' = pos + CountWidth + 2
          /\ UNCHANGED <<segs, input, verdict>>

\* The size is tested before the bytes are there.
Repeat ==
  /\ More /\ Ctrl < 0
  /\ IF Left < CountWidth + 1 \/ Len(out) + RunLength > MaxRecord
     THEN Malformed
     ELSE Emit([j \in 1..RunLength |-> input[pos + CountWidth + 1]], CountWidth + 2)

Finish ==
  /\ verdict = "reading"
  /\ pos > Len(input)
  /\ verdict' = "ok"
  /\ UNCHANGED <<segs, input, pos, out>>

SqzNext == Copy \/ Repeat \/ Finish

SqzSpec == SqzInit /\ [][SqzNext]_sqzVars

-----------------------------------------------------------------------------
(***************************************************************************)
(* What is accepted is what Firebird packed, or, where the bytes end       *)
(* between two segments, the beginning of it; and a record that is there   *)
(* in full and not too long is not rejected.  (decompress_impl)            *)
(***************************************************************************)
AcceptsTheRecord ==
  /\ verdict = "ok" =>
       \E k \in 0..Len(segs) : /\ input = AllBytes(SubSeq(segs, 1, k))
                               /\ out = Text(SubSeq(segs, 1, k))
  /\ verdict = "malformed" =>
       input # AllBytes(segs) \/ Len(Text(segs)) > MaxRecord

(***************************************************************************)
(* No accepted record, and none on the way, is longer than MaxRecord: a    *)
(* count read from a damaged page must not claim memory.                   *)
(* (MAX_RECORD_SIZE)                                                       *)
(***************************************************************************)
RecordIsBounded == verdict # "malformed" => Len(out) <= MaxRecord

=============================================================================
