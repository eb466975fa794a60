-------------------------------- MODULE Wire ---------------------------------
(***************************************************************************)
(* One request and its answer on the wire (wire.rs): the header, the       *)
(* chunked body of a FULL or the two length-prefixed bodies of a DELTA,    *)
(* and the gateway's reader, which may find the stream cut anywhere.       *)
(*                                                                         *)
(* The stream is a sequence of atoms: a length, or a piece of payload.     *)
(* TCP neither loses nor reorders, so the gateway reads what was sent or,  *)
(* when the connection breaks or the agent dies, the beginning of it.      *)
(***************************************************************************)
EXTENDS Integers, SequencesExt

CONSTANTS
  WireRows,      \* rows of a table, as numbers
  LenMod,        \* values of a length on the wire: 2^32
  MaxDump, MaxUpserts, MaxDeletes,    \* bounds: rows of a dump, and of the bodies of a delta
  LongBodies     \* whether the last body of a delta may be too long for a length

ASSUME WireAssumption ==
  /\ WireRows \subseteq Nat
  /\ LenMod \in Nat \ {0, 1}
  /\ {MaxDump, MaxUpserts, MaxDeletes} \subseteq Nat
  /\ LongBodies \in BOOLEAN

VARIABLES
  request,       \* what the agent sends
  cut,           \* history: the stream ends before the request does
  rest,          \* the atoms that are still to be read
  reader,        \* what the gateway reads next, or how it ended
  left,          \* atoms left of the chunk or the body
  copied,        \* what the two COPYs were given: upserts (or the dump), deletes
  told           \* what the agent makes of the answer: "none", "ok", "error"

wireVars == <<request, cut, rest, reader, left, copied, told>>

Atom(k, value) == [kind |-> k, val |-> value]
Length(len)    == Atom("len", len % LenMod)

\* COPY BINARY: signature, rows, trailer (write_copy_stream, scan_changes_into).
CopyOf(rows) == <<Atom("PGCOPY", 0)>> \o [j \in 1..Len(rows) |-> Atom("row", rows[j])] \o <<Atom("-1", 0)>>

(***************************************************************************)
(* The requests: 1 is a FULL, 2 a DELTA, 3 an operation of some later      *)
(* protocol.  The dump of a FULL is framed as its BufWriter is flushed, in *)
(* pieces that are never empty and never longer than a length can say;     *)
(* `ends` says where each of them ends.                                    *)
(***************************************************************************)
Bodies(max) == UNION {[1..k -> WireRows] : k \in 0..max}

\* Where the piece before the j-th ends.
Before(ends, j) == IF j = 1 THEN 0 ELSE ends[j - 1]

CutsUp(ends, len) ==
  /\ ends # <<>> /\ ends[Len(ends)] = len
  /\ \A j \in 1..Len(ends) : ends[j] \in (Before(ends, j) + 1)..len /\ ends[j] - Before(ends, j) < LenMod

Fulls == {q \in [op : {1, 3}, version : {1, 2}, ups : Bodies(MaxDump), dels : {<<>>},
                 ends : BoundedSeq(1..(MaxDump + 2), MaxDump + 2)] :
            CutsUp(q.ends, Len(CopyOf(q.ups)))}

\* The body whose length is not followed by that of another one: the deletes,
\* or the upserts if there are no deletes.
LastBody(q) == IF q.dels = <<>> THEN q.ups ELSE q.dels

Deltas == {q \in [op : {2}, version : {1}, ups : Bodies(MaxUpserts), dels : Bodies(MaxDeletes), ends : {<<>>}] :
             LongBodies \/ Len(CopyOf(LastBody(q))) < LenMod}

\* Mutant: nothing is sent for a body without rows.
FramesIfAny(rows) == IF rows = <<>> THEN <<>> ELSE <<Length(Len(CopyOf(rows)))>> \o CopyOf(rows)

\* write_u32_prefixed.
Prefixed(rows) == <<Length(Len(CopyOf(rows)))>> \o CopyOf(rows)

\* ChunkWriter: a frame for each write, and finish.
Frame(bytes, from, to) == <<Length(to - from)>> \o SubSeq(bytes, from + 1, to)

Chunked(bytes, ends) ==
  FlattenSeq([j \in 1..Len(ends) |-> Frame(bytes, Before(ends, j), ends[j])]) \o <<Length(0)>>

\* write_request_header and the body.
Stream(q) ==
  <<Atom("FDBI", 0), Atom("version", q.version), Atom("op", q.op), Atom("header", 0)>> \o
  (IF q.op = 2 THEN Prefixed(q.ups) \o Prefixed(q.dels) ELSE Chunked(CopyOf(q.ups), q.ends))

Readers == {"FDBI", "version", "op", "header", "chunk", "frame", "ulen", "upserts", "dlen", "deletes"}

WireTypeOK ==
  /\ request \in Fulls \cup Deltas
  /\ cut \in BOOLEAN
  /\ reader \in Readers \cup {"refused", "committed"}
  /\ left \in 0..(LenMod - 1)
  /\ told \in {"none", "ok", "error"}

WireInit ==
  /\ request \in Fulls \cup Deltas
  /\ \E k \in 0..Len(Stream(request)) :
       rest = SubSeq(Stream(request), 1, k) /\ cut = (k < Len(Stream(request)))
  /\ reader = "FDBI"
  /\ left = 0
  /\ copied = <<<<>>, <<>>>>
  /\ told = "none"

-----------------------------------------------------------------------------
(***************************************************************************)
(* PostgreSQL's end of a COPY: the signature is required; the end of the   *)
(* data between two rows is as good as the trailer; nothing may follow it. *)
(***************************************************************************)
CopyAccepts(bytes) ==
  /\ bytes # <<>> /\ bytes[1].kind = "PGCOPY"
  /\ \A j \in 2..Len(bytes) : bytes[j].kind = "row" \/ (bytes[j].kind = "-1" /\ j = Len(bytes))

-----------------------------------------------------------------------------
(***************************************************************************)
(* The gateway's reader.  In "upserts" and "deletes" it is in              *)
(* copy_u32_prefixed, in "chunk" and "frame" in ChunkReader::read.         *)
(***************************************************************************)
\* An error of the reader or of PostgreSQL rolls everything back.
Refuse == reader' = "refused" /\ UNCHANGED <<request, cut, rest, left, copied, told>>

Mid == reader \in {"frame", "upserts", "deletes"}

\* Something is expected, and nothing is on its way.
Starved == reader \in Readers /\ rest = <<>> /\ (Mid => left > 0)

\* The connection has ended.  While it is open the gateway waits, as the agent
\* does for its answer.
ReadCut == Starved /\ cut /\ Refuse

\* What is read behind each field of a request, but for the last.
After == [FDBI |-> "version", version |-> "op", op |-> "header", header |-> IF request.op = 2 THEN "ulen" ELSE "chunk",
          ulen |-> "upserts", upserts |-> "dlen", dlen |-> "deletes", frame |-> "chunk"]

\* read_request_header: another version, or an unknown operation, is refused.
ReadHeader ==
  /\ reader \in {"FDBI", "version", "op", "header"}
  /\ rest # <<>>
  /\ IF \/ reader = "version" /\ rest[1].val # 1
        \/ reader = "op" /\ rest[1].val \notin {1, 2}
     THEN Refuse
     ELSE /\ reader' = After[reader]
          /\ rest' = Tail(rest)
          /\ UNCHANGED <<request, cut, left, copied, told>>

\* The number that four bytes are read as: any, if they are payload.
ReadAs(atom) == IF atom.kind = "len" THEN {atom.val} ELSE 0..(LenMod - 1)

ReadLength ==
  /\ reader \in {"chunk", "ulen", "dlen"}
  /\ rest # <<>>
  /\ left' \in ReadAs(rest[1])
  /\ rest' = Tail(rest)
  /\ reader' = IF reader # "chunk" THEN After[reader]
               ELSE IF left' > 0 THEN "frame"
               ELSE IF CopyAccepts(copied[1]) THEN "committed" ELSE "refused"
  /\ UNCHANGED <<request, cut, copied, told>>

\* The delete body goes to COPY, or nowhere if n_deletes = 0.
Target == IF reader # "deletes" THEN 1 ELSE IF request.dels = <<>> THEN 0 ELSE 2

\* Mutant: the end of the stream ends a body, however long it was to be.
ReadBytesToTheEnd ==
  /\ Mid
  /\ left > 0
  /\ left' = IF Len(rest) <= 1 THEN 0 ELSE left - 1
  /\ rest' = IF rest = <<>> THEN <<>> ELSE Tail(rest)
  /\ copied' = IF Target = 0 \/ rest = <<>> THEN copied ELSE [copied EXCEPT ![Target] = Append(@, rest[1])]
  /\ UNCHANGED <<request, cut, reader, told>>

ReadBytes ==
  /\ Mid
  /\ left > 0 /\ rest # <<>>
  /\ left' = left - 1
  /\ rest' = Tail(rest)
  /\ copied' = IF Target = 0 THEN copied ELSE [copied EXCEPT ![Target] = Append(@, rest[1])]
  /\ UNCHANGED <<request, cut, reader, told>>

\* A frame or a body is through: PostgreSQL ends the COPY, a delta is merged
\* after the second one (apply_delta_streaming).
EndOfBytes ==
  /\ Mid
  /\ left = 0
  /\ IF reader # "frame" /\ Target > 0 /\ ~CopyAccepts(copied[Target])
     THEN Refuse
     ELSE /\ reader' = IF reader = "deletes" THEN "committed" ELSE After[reader]
          /\ UNCHANGED <<request, cut, rest, left, copied, told>>

\* write_response and read_response: the answer arrives whole or not at all.
Answer ==
  /\ reader \in {"refused", "committed"}
  /\ told = "none"
  /\ told' \in {IF reader = "refused" THEN "error" ELSE "ok", "error"}
  /\ UNCHANGED <<request, cut, rest, reader, left, copied>>

WireNext == ReadCut \/ ReadHeader \/ ReadLength \/ ReadBytes \/ EndOfBytes \/ Answer

WireSpec == WireInit /\ [][WireNext]_wireVars

-----------------------------------------------------------------------------
(***************************************************************************)
(* What is committed, and confirmed, is what was sent, row for row: no     *)
(* cut, and no length that wraps around, lets a part of a body through.    *)
(* (ChunkReader, copy_u32_prefixed, apply_delta_streaming)                 *)
(***************************************************************************)
CommitsWhatWasSent ==
  reader = "committed" \/ told = "ok" =>
    /\ reader = "committed"
    /\ copied[1] = CopyOf(request.ups)
    /\ copied[2] = IF request.dels = <<>> THEN <<>> ELSE CopyOf(request.dels)
    /\ rest = <<>>

(***************************************************************************)
(* A request that arrives whole, and whose lengths can be said, is neither *)
(* refused nor waited for, wherever the pieces of the dump end: both ends  *)
(* agree on where each body is over.                                       *)
(* (ChunkWriter and ChunkReader, write_ and copy_u32_prefixed)             *)
(***************************************************************************)
WholeIsServed ==
  reader = "refused" \/ (Starved /\ ~cut) =>
    \/ cut
    \/ request.version # 1 \/ request.op = 3
    \/ request.op = 2 /\ Len(CopyOf(request.ups)) >= LenMod

=============================================================================
