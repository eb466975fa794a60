------------------------------ MODULE Fragments ------------------------------
(***************************************************************************)
(* A row that is larger than a page: its head names the slot of the next   *)
(* piece, that one names the next, and so on (reassemble_fragments in      *)
(* ods.rs).  The dump follows the chain slot by slot in a file in which    *)
(* Firebird goes on to replace the row and to collect what was replaced.   *)
(***************************************************************************)
EXTENDS Integers, FiniteSets, FiniteSetsExt, Sequences

CONSTANTS
  PieceSlots,      \* slots for pieces and old versions; the head has slot 0
  MaxPieces,       \* pieces of a version
  MaxFragments,    \* the guard against a chain that never ends
  MaxRewrites,     \* bound: versions of the row
  FragEnv          \* "collect": a version may be collected while it is read

ASSUME FragmentsAssumption ==
  /\ PieceSlots \subseteq Nat \ {0}
  /\ MaxPieces \in Nat \ {0} /\ MaxFragments \in Nat /\ MaxRewrites \in Nat
  /\ FragEnv \subseteq {"collect"}

VARIABLES
  piece,           \* piece[s]: version, number of the piece, slot of the next one (0 = last)
  pieces,          \* history: how many pieces each version has
  reading,         \* "idle", "piece", "row" (the row is emitted), "none" (it is passed over)
  cur,             \* the slot to read
  got              \* the pieces read

fragVars == <<piece, pieces, reading, cur, got>>

HeadSlot == 0
Free     == [ver |-> 0, part |-> 0, next |-> 0]
Slots0   == PieceSlots \cup {HeadSlot}

FragTypeOK ==
  /\ piece \in [Slots0 -> [ver : 0..Len(pieces), part : 0..MaxPieces, next : Slots0]]
  /\ pieces \in Seq(1..MaxPieces) /\ Len(pieces) <= MaxRewrites
  /\ reading \in {"idle", "piece", "row", "none"}
  /\ cur \in Slots0
  /\ Len(got) <= MaxFragments

FragInit ==
  /\ piece = [s \in Slots0 |-> Free]
  /\ pieces = <<>>
  /\ reading = "idle" /\ cur = HeadSlot /\ got = <<>>

-----------------------------------------------------------------------------
\* INSERT or UPDATE: what was at the head moves to a slot of its own, and the
\* pieces of the new version are there before the head that leads to them.
Rewrite(n) ==
  LET ver == Len(pieces) + 1
  IN  /\ ver <= MaxRewrites
      /\ pieces' = Append(pieces, n)
      /\ \E to \in [2..n -> PieceSlots], old \in PieceSlots :
           /\ \A j, k \in DOMAIN to : to[j] = to[k] => j = k
           /\ \A s \in {to[j] : j \in DOMAIN to} \cup {old} : piece[s] = Free
           /\ old \notin {to[j] : j \in DOMAIN to}
           /\ LET next(k) == IF k < n THEN to[k + 1] ELSE 0
                  part(k) == [ver |-> ver, part |-> k, next |-> next(k)]
              IN  piece' = [s \in Slots0 |->
                     IF s = HeadSlot THEN part(1)
                     ELSE IF s = old THEN piece[HeadSlot]
                     ELSE IF \E k \in DOMAIN to : to[k] = s THEN part(CHOOSE k \in DOMAIN to : to[k] = s)
                     ELSE piece[s]]
      /\ UNCHANGED <<reading, cur, got>>

\* Garbage collection of a version that was replaced.
CollectOld(ver) ==
  /\ ver < Len(pieces)
  /\ "collect" \in FragEnv \/ reading # "piece"
  /\ \E s \in Slots0 : piece[s].ver = ver
  /\ piece' = [s \in Slots0 |-> IF piece[s].ver = ver THEN Free ELSE piece[s]]
  /\ UNCHANGED <<pieces, reading, cur, got>>

-----------------------------------------------------------------------------
\* The scan of the dump comes to the head; an old version is passed over.
MeetRow ==
  /\ reading # "piece"
  /\ reading' = "piece" /\ cur' = HeadSlot /\ got' = <<>>
  /\ UNCHANGED <<piece, pieces>>

\* Mutant: a chain ends where the last piece begins.
ReadWithoutLast ==
  /\ reading = "piece"
  /\ IF piece[cur] = Free \/ Len(got) = MaxFragments
     THEN reading' = "none" /\ UNCHANGED <<cur, got>>
     ELSE IF piece[cur].next = 0
     THEN reading' = "row" /\ UNCHANGED <<cur, got>>
     ELSE got' = Append(got, piece[cur]) /\ cur' = piece[cur].next /\ UNCHANGED reading
  /\ UNCHANGED <<piece, pieces>>

\* One piece, whatever record is in the slot by now.
ReadPiece ==
  /\ reading = "piece"
  /\ IF piece[cur] = Free \/ Len(got) = MaxFragments
     THEN reading' = "none" /\ UNCHANGED <<cur, got>>
     ELSE /\ got' = Append(got, piece[cur])
          /\ IF piece[cur].next = 0 THEN reading' = "row" /\ UNCHANGED cur
             ELSE cur' = piece[cur].next /\ UNCHANGED reading
  /\ UNCHANGED <<piece, pieces>>

FragNext ==
  \/ \E n \in 1..MaxPieces : Rewrite(n)
  \/ \E ver \in 1..MaxRewrites : CollectOld(ver)
  \/ MeetRow \/ ReadPiece

FragSpec == FragInit /\ [][FragNext]_fragVars

-----------------------------------------------------------------------------
(***************************************************************************)
(* A row that is emitted is one version of it, with all of its pieces in   *)
(* order, however often the row is replaced while it is read; and a row    *)
(* that exists is not passed over.                                         *)
(* (reassemble_fragments, write_copy_stream)                               *)
(***************************************************************************)
ReadsOneVersion ==
  /\ reading = "row" =>
       \E ver \in DOMAIN pieces :
          /\ Len(got) = pieces[ver]
          /\ \A k \in DOMAIN got : got[k].ver = ver /\ got[k].part = k
  /\ reading = "none" => got = <<>>

=============================================================================
