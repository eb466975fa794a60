------------------------------- MODULE FbDisk -------------------------------
(***************************************************************************)
(* The Firebird database file, as far as fdb-extract can see it: pointer   *)
(* pages, data pages with their generations, record headers with flags,    *)
(* transaction number and back pointer, and the header page's generation.  *)
(* Firebird is not part of the repository: it is modelled from what ods.rs *)
(* and cdc.rs read and say of the file, and every definition is external.  *)
(*                                                                         *)
(* One version of a row is identified by the transaction that wrote it, so *)
(* a record needs no payload beside its key and its transaction.  `reads`  *)
(* is the key that whoever unpacks the record finds in it.                 *)
(***************************************************************************)
EXTENDS Integers, FiniteSets

CONSTANTS
  Tables,      \* user tables
  Pages,       \* physical page numbers a table may use, the same set for each
  FarPages,    \* those that a later pointer page names, not the first one
  Slots,       \* record slots of a data page
  Keys,        \* primary-key values
  NoRec,       \* an empty slot: offset or length is zero
  MaxTxn,      \* bound: transactions Firebird may start
  MaxChanges   \* bound: changes Firebird may make to the file

ASSUME FbDiskAssumption ==
  /\ Pages \subseteq Nat \ {0}     \* page 0 is the header page
  /\ FarPages \subseteq Pages
  /\ Slots \subseteq Nat
  /\ IsFiniteSet(Pages)
  /\ MaxTxn \in Nat
  /\ MaxChanges \in Nat

VARIABLES
  disk,        \* disk[t][p]: generation and slots of data page p of table t
  listed,      \* listed[t]: data pages the pointer pages of t name
  ppGen,       \* ppGen[t]: generation of t's first pointer page, 0 = none yet
  hdrGen,      \* generation of the header page
  nextTxn,     \* number of the transaction that writes now, or of the next one
  begun,       \* earlier transactions that have not ended
  written      \* history: every row version Firebird ever wrote

fbVars == <<disk, listed, ppGen, hdrGen, nextTxn, begun, written>>

Locs  == Pages \X Slots
NoLoc == <<0, 0>>                  \* rhd_b_page = 0: no back version
\* "DELTA" is no flag of the header: Firebird keeps its difference to the next
\* version in place of the record, which no flag tells a reader of one record.
Flags == {"DELETED", "CHAIN", "INCOMPLETE", "DELTA"}

Record == [flags : SUBSET Flags, txn : Nat, key : Keys, reads : Keys, back : Locs \cup {NoLoc}]
Page   == [gen : Nat, slots : [Slots -> Record \cup {NoRec}]]

ASSUME NoRecAssumption == NoRec \notin Record

Used(t, p) == {s \in Slots : disk[t][p].slots[s] # NoRec}
RecAt(t, l) == disk[t][l[1]].slots[l[2]]
IsRec(t, l) == l \in Locs /\ RecAt(t, l) # NoRec

FbTypeOK ==
  /\ disk \in [Tables -> [Pages -> Page]]
  /\ listed \in [Tables -> SUBSET Pages]
  /\ ppGen \in [Tables -> Nat]
  /\ hdrGen \in Nat \ {0}
  /\ nextTxn \in Nat \ {0}
  /\ begun \in SUBSET Nat
  /\ written \in SUBSET (Tables \X Keys \X Nat)

FbInit ==
  /\ disk = [t \in Tables |-> [p \in Pages |-> [gen |-> 1, slots |-> [s \in Slots |-> NoRec]]]]
  /\ listed = [t \in Tables |-> {}]
  /\ ppGen = [t \in Tables |-> 0]
  /\ hdrGen = 1
  /\ nextTxn = 1
  /\ begun = {}
  /\ written = {}

(***************************************************************************)
(* The row versions a reader with no open snapshot sees: the primary       *)
(* version of each row, fragmented or not, unless it is a delete stub.     *)
(***************************************************************************)
IsPrimary(rec) == rec # NoRec /\ rec.flags \cap {"DELETED", "CHAIN"} = {}
LiveLocs(t)    == {l \in Locs : IsPrimary(RecAt(t, l))}
LiveKeys(t)    == {RecAt(t, l).key : l \in LiveLocs(t)}

(***************************************************************************)
(* Writing the records new[l], each at its location l: every page touched  *)
(* gets a new generation.                                                  *)
(***************************************************************************)
Store(t, new) ==
  disk' = [disk EXCEPT ![t] = [p \in Pages |->
             IF \E s \in Slots : <<p, s>> \in DOMAIN new
             THEN [gen   |-> disk[t][p].gen + 1,
                   slots |-> [s \in Slots |->
                                IF <<p, s>> \in DOMAIN new THEN new[<<p, s>>]
                                ELSE disk[t][p].slots[s]]]
             ELSE disk[t][p]]]

\* The free slot Firebird takes on page p: the first one.
FreeLoc(t, l) ==
  /\ l \in Locs
  /\ RecAt(t, l) = NoRec
  /\ \A s \in Slots : s < l[2] => disk[t][l[1]].slots[s] # NoRec

\* A page the pointer pages do not name yet is allocated to the table; the
\* later pointer pages come into use when there is a first one.
List(t, ps) ==
  /\ ppGen[t] # 0 \/ ps \cap FarPages = {}
  /\ listed' = [listed EXCEPT ![t] = @ \cup ps]
  /\ ppGen' = [ppGen EXCEPT ![t] = IF ps \ FarPages \subseteq listed[t] THEN @ ELSE @ + 1]

\* Whatever Firebird does to the file moves the header page's generation, which
\* was 1 at first.
Change ==
  /\ hdrGen <= MaxChanges
  /\ hdrGen' = hdrGen + 1

\* The transaction x writes; it may have written before and may write again.
Uses(x) ==
  /\ x \in begun \cup {nextTxn}
  /\ x <= MaxTxn
  /\ Change
  /\ UNCHANGED <<nextTxn, begun>>

\* A later transaction begins while the one that writes now stays open.
Begin ==
  /\ nextTxn <= MaxTxn
  /\ begun' = begun \cup {nextTxn}
  /\ nextTxn' = nextTxn + 1
  /\ Change
  /\ UNCHANGED <<disk, listed, ppGen, written>>

\* COMMIT: the code reads nothing that it changes.
Commit(x) ==
  /\ x \in begun \cup {nextTxn}
  /\ x <= MaxTxn
  /\ begun' = begun \ {x}
  /\ nextTxn' = IF x = nextTxn THEN nextTxn + 1 ELSE nextTxn
  /\ UNCHANGED <<disk, listed, ppGen, hdrGen, written>>

Ended(x) == x < nextTxn /\ x \notin begun

\* A row too wide for one page: its primary version is a fragment head.
HeadFlags(wide) == IF wide THEN {"INCOMPLETE"} ELSE {}

(***************************************************************************)
(* What Firebird keeps of the version at l when an UPDATE replaces it: the *)
(* record as it was, or its difference to the new one.  The difference has *)
(* the bytes of no record: a reader that takes it for one finds any key.   *)
(***************************************************************************)
OldVersion(t, l)  == [RecAt(t, l) EXCEPT !.flags = @ \cup {"CHAIN"}]
Delta(t, l, k)    == [RecAt(t, l) EXCEPT !.flags = {"CHAIN", "DELTA"}, !.reads = k]
OldVersions(t, l) == {OldVersion(t, l)} \cup {Delta(t, l, k) : k \in Keys}

\* A key is free for a new row when whoever deleted the last one has committed.
FreeKey(t, k) ==
  /\ k \in Keys \ LiveKeys(t)
  /\ \A l \in Locs : IsRec(t, l) =>
       LET rec == RecAt(t, l)
       IN  "DELETED" \in rec.flags /\ rec.key = k => Ended(rec.txn)

\* A record that is what it looks like.
NewRecord(flags, x, k, b) == [flags |-> flags, txn |-> x, key |-> k, reads |-> k, back |-> b]

\* INSERT: a new primary version.
Insert(t, l, k, x, wide) ==
  /\ FreeLoc(t, l)
  /\ FreeKey(t, k)
  /\ Uses(x)
  /\ Store(t, [m \in {l} |-> NewRecord(HeadFlags(wide), x, k, NoLoc)])
  /\ List(t, {l[1]})
  /\ written' = written \cup {<<t, k, x>>}

\* UPDATE: the new version replaces the primary, the old one moves to slot b.
\* (A transaction that changes a row again overwrites its own version: whoever
\* has not looked in between sees no difference.)
Update(t, l, b, x, wide) ==
  /\ l \in LiveLocs(t)
  /\ RecAt(t, l).txn < x
  /\ FreeLoc(t, b)
  /\ Uses(x)
  /\ \E old \in OldVersions(t, l) :
       Store(t, [m \in {l, b} |->
         IF m = l THEN NewRecord(HeadFlags(wide), x, RecAt(t, l).key, b) ELSE old])
  /\ List(t, {b[1]})
  /\ written' = written \cup {<<t, RecAt(t, l).key, x>>}

\* DELETE: a stub replaces the primary and points to the version it deleted,
\* which is kept as it was: a stub has no record to differ from.
Delete(t, l, b, x) ==
  /\ l \in LiveLocs(t)
  /\ RecAt(t, l).txn < x
  /\ FreeLoc(t, b)
  /\ Uses(x)
  /\ Store(t, [m \in {l, b} |->
         IF m = l THEN NewRecord({"DELETED"}, x, RecAt(t, l).key, b) ELSE OldVersion(t, l)])
  /\ List(t, {b[1]})
  /\ UNCHANGED written

\* What the old version at b is once it is a row's primary version again: a
\* difference is narrow even when the row it stands for is wide.
Restored(t, b, wide) ==
  IF "DELTA" \in RecAt(t, b).flags
  THEN [RecAt(t, b) EXCEPT !.flags = HeadFlags(wide), !.reads = RecAt(t, b).key]
  ELSE [RecAt(t, b) EXCEPT !.flags = @ \ {"CHAIN"}]

\* Rollback of the UPDATE or DELETE that wrote the version at l: the one it
\* replaced, at b, takes its place again.
Undo(t, l, b, wide) ==
  /\ IsRec(t, l) /\ IsRec(t, b)
  /\ RecAt(t, l).back = b
  /\ "CHAIN" \notin RecAt(t, l).flags
  /\ ~Ended(RecAt(t, l).txn)
  /\ "DELETED" \in RecAt(t, l).flags => RecAt(t, b).key \notin LiveKeys(t)
  /\ Store(t, [m \in {l, b} |-> IF m = l THEN Restored(t, b, wide) ELSE NoRec])
  /\ Change
  /\ UNCHANGED <<listed, ppGen, nextTxn, begun, written>>

\* Garbage collection of the oldest version b, which l leads to.
CollectBack(t, l, b) ==
  /\ IsRec(t, l) /\ IsRec(t, b)
  /\ RecAt(t, l).back = b
  /\ RecAt(t, b).back = NoLoc
  /\ Ended(RecAt(t, l).txn)
  /\ Store(t, [m \in {l, b} |-> IF m = l THEN [RecAt(t, l) EXCEPT !.back = NoLoc] ELSE NoRec])
  /\ Change
  /\ UNCHANGED <<listed, ppGen, nextTxn, begun, written>>

\* Garbage collection of a delete stub that has no back version left.
CollectStub(t, l) ==
  /\ IsRec(t, l)
  /\ "DELETED" \in RecAt(t, l).flags
  /\ RecAt(t, l).back = NoLoc
  /\ Ended(RecAt(t, l).txn)
  /\ Store(t, [m \in {l} |-> NoRec])
  /\ Change
  /\ UNCHANGED <<listed, ppGen, nextTxn, begun, written>>

\* An empty data page goes back to the database.
Release(t, p) ==
  /\ p \in listed[t]
  /\ Used(t, p) = {}
  /\ listed' = [listed EXCEPT ![t] = @ \ {p}]
  /\ ppGen' = [ppGen EXCEPT ![t] = IF p \in FarPages THEN @ ELSE @ + 1]
  /\ Change
  /\ UNCHANGED <<disk, nextTxn, begun, written>>

=============================================================================
