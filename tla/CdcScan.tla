------------------------------ MODULE CdcScan -------------------------------
(***************************************************************************)
(* scan_changes_into (cdc.rs): what one scan of a table takes from a data  *)
(* page, and the express deletes it derives from the primary-key snapshots.*)
(* Only operators: CdcWatch owns the state and calls them page by page.    *)
(*                                                                         *)
(* A slot that holds a continuation fragment or a blob is never looked at  *)
(* by the scan and is left out of the disk; "INCOMPLETE" is the head of a  *)
(* fragmented row.                                                         *)
(***************************************************************************)
EXTENDS FbDisk

CONSTANTS
  FixedPk,        \* tables whose key has a fixed encoded length (pk_byte_len > 0)
  NoPks,          \* a page the snapshot map has no entry for
  MaxChainDepth   \* MAX_CHAIN_DEPTH

ASSUME CdcScanAssumption ==
  /\ FixedPk \subseteq Tables
  /\ \A ks \in SUBSET Keys : NoPks # ks
  /\ MaxChainDepth \in Nat

Snapshot      == [Pages -> (SUBSET Keys) \cup {NoPks}]
EmptySnapshot == [p \in Pages |-> NoPks]
Kept(snap)    == {p \in Pages : snap[p] # NoPks}

\* The values of a row that no transaction wrote.
Garbage == MaxTxn + 1

\* record_transaction and unpack_record_cdc give up on the head of a fragmented row.
Readable(rec) == "INCOMPLETE" \notin rec.flags

(***************************************************************************)
(* The key a delete stub stands for: follow the back pointers, for at most *)
(* MaxChainDepth records, to the first one that can be unpacked; a record  *)
(* that cannot is passed only when it is itself a link of a chain.  {} when*)
(* nothing is found, or the stub points nowhere (b_page = 0).              *)
(***************************************************************************)
ChainKey(t, loc) ==
  LET from[d \in 0..MaxChainDepth] ==
        [l \in Locs \cup {NoLoc} |->
           IF d = 0 \/ ~IsRec(t, l) THEN {}
           ELSE IF Readable(RecAt(t, l)) THEN {RecAt(t, l).reads}
           ELSE IF RecAt(t, l).flags \cap {"CHAIN", "DELETED"} = {} THEN {}
           ELSE from[d - 1][RecAt(t, l).back]]
  IN  from[MaxChainDepth][loc]

(***************************************************************************)
(* One data page.  `known` maps pages to the generation last applied (0 =  *)
(* none); `first` says that the table has no snapshot yet.                 *)
(***************************************************************************)
PageChanged(t, p, known) == known[p] # disk[t][p].gen
RebuildsPks(t, p, known, first) == t \in FixedPk /\ (PageChanged(t, p, known) \/ first)

\* An unchanged page whose keys need no rebuilding is searched for stubs only.
Examined(t, p, known, first) ==
  {s \in Used(t, p) :
     LET rec == disk[t][p].slots[s]
     IN  /\ Readable(rec)
         /\ \/ PageChanged(t, p, known)
            \/ RebuildsPks(t, p, known, first)
            \/ "DELETED" \in rec.flags}

\* Mutant: the watermark itself counts as new (>= for >).
NewRecsAtWatermark(t, p, known, first, lastTxn) ==
  {s \in Examined(t, p, known, first) : disk[t][p].slots[s].txn >= lastTxn}

\* Records above the watermark.
NewRecs(t, p, known, first, lastTxn) ==
  {s \in Examined(t, p, known, first) : disk[t][p].slots[s].txn > lastTxn}

\* The row a record is sent as: of a difference, what its bytes happen to mean.
RowOf(p, s, rec) ==
  [loc |-> <<p, s>>, key |-> rec.reads, txn |-> IF "DELTA" \in rec.flags THEN Garbage ELSE rec.txn]

\* Mutant: a delete stub is taken for a row.
UpsertsWithStubs(t, p, known, first, lastTxn) ==
  IF ~PageChanged(t, p, known) THEN {}
  ELSE {RowOf(p, s, disk[t][p].slots[s]) : s \in NewRecs(t, p, known, first, lastTxn)}

\* Upserts come from changed pages only, and never from a delete stub.
PageUpserts(t, p, known, first, lastTxn) ==
  IF ~PageChanged(t, p, known) THEN {}
  ELSE {RowOf(p, s, disk[t][p].slots[s]) :
          s \in {r \in NewRecs(t, p, known, first, lastTxn) :
                   "DELETED" \notin disk[t][p].slots[r].flags}}

PageDeletes(t, p, known, first, lastTxn) ==
  {k \in Keys : \E s \in NewRecs(t, p, known, first, lastTxn) :
                  /\ "DELETED" \in disk[t][p].slots[s].flags
                  /\ k \in ChainKey(t, disk[t][p].slots[s].back)}

\* max_txn advances over every record above the watermark, applied or passed over.
PageTxns(t, p, known, first, lastTxn) ==
  {disk[t][p].slots[s].txn : s \in NewRecs(t, p, known, first, lastTxn)}

\* The keys of the primary versions that are on the page now.
PagePks(t, p) ==
  {disk[t][p].slots[s].key : s \in {r \in Used(t, p) : disk[t][p].slots[r].flags = {}}}

(***************************************************************************)
(* Express deletes: keys that were on a page scanned now (`new`) when the  *)
(* snapshot `prev` was taken and are on no page any more.  A page that was *)
(* not scanned is taken to hold what it held in `prev`.                    *)
(***************************************************************************)
AliveKeys(prev, new) ==
  UNION ({new[p] : p \in Kept(new)} \cup {prev[p] : p \in Kept(prev) \ Kept(new)})

\* Mutant: a page that was not scanned counts as empty.
DeletesOfUnscanned(prev, new) ==
  IF Kept(prev) = {} \/ Kept(new) = {} THEN {}
  ELSE (UNION {prev[p] : p \in Kept(prev)}) \ (UNION {new[p] : p \in Kept(new)})

ExpressDeletes(prev, new) ==
  IF Kept(prev) = {} \/ Kept(new) = {} THEN {}
  ELSE (UNION {prev[p] : p \in Kept(prev) \cap Kept(new)}) \ AliveKeys(prev, new)

=============================================================================
