-------------------------- MODULE CdcWatch_proofs ---------------------------
(***************************************************************************)
(* Theorems about CdcWatch, for every set of tables, pages, slots and keys,*)
(* every order of the tables, every environment Env and every bound.       *)
(***************************************************************************)
EXTENDS CdcWatch, TLAPS

-----------------------------------------------------------------------------
(***************************************************************************)
(* Type correctness of the Firebird file.                                  *)
(***************************************************************************)

LEMMA FbInitType == FbInit => FbTypeOK
BY FbDiskAssumption DEF FbInit, FbTypeOK, Page, Record

\* Storing well-formed records, or emptying slots, keeps the disk well formed.
LEMMA StoreType ==
  ASSUME FbTypeOK, NEW t \in Tables, NEW new,
         \A l \in DOMAIN new : new[l] \in Record \cup {NoRec},
         Store(t, new)
  PROVE  disk' \in [Tables -> [Pages -> Page]]
<1>1. ASSUME NEW p \in Pages
      PROVE  (IF \E s \in Slots : <<p, s>> \in DOMAIN new
              THEN [gen   |-> disk[t][p].gen + 1,
                    slots |-> [s \in Slots |->
                                IF <<p, s>> \in DOMAIN new THEN new[<<p, s>>]
                                ELSE disk[t][p].slots[s]]]
              ELSE disk[t][p]) \in Page
  <2>1. disk[t][p] \in Page
    BY DEF FbTypeOK
  <2>2. [s \in Slots |-> IF <<p, s>> \in DOMAIN new THEN new[<<p, s>>]
                         ELSE disk[t][p].slots[s]] \in [Slots -> Record \cup {NoRec}]
    BY <2>1 DEF Page
  <2> QED
    BY <2>1, <2>2 DEF Page
<1> QED
  BY <1>1 DEF FbTypeOK, Store

\* What Store leaves at a location is the new record, or what was there.
LEMMA StoreAt ==
  ASSUME FbTypeOK, NEW t \in Tables, NEW new, Store(t, new), NEW u \in Tables, NEW l \in Locs
  PROVE  RecAt(u, l)' = IF u = t /\ l \in DOMAIN new THEN new[l] ELSE RecAt(u, l)
<1>1. PICK p \in Pages, s \in Slots : l = <<p, s>>
  BY DEF Locs
<1>2. disk[u][p] \in Page /\ disk[t] \in [Pages -> Page]
  BY <1>1 DEF FbTypeOK
<1>3. CASE u # t
  BY <1>1, <1>3 DEF Store, RecAt, FbTypeOK
<1>4. CASE u = t /\ \E r \in Slots : <<p, r>> \in DOMAIN new
  BY <1>1, <1>2, <1>4 DEF Store, RecAt, FbTypeOK, Page
<1>5. CASE u = t /\ ~\E r \in Slots : <<p, r>> \in DOMAIN new
  BY <1>1, <1>2, <1>5 DEF Store, RecAt, FbTypeOK, Page
<1> QED
  BY <1>3, <1>4, <1>5

LEMMA RecAtType ==
  ASSUME FbTypeOK, NEW t \in Tables, NEW l \in Locs, RecAt(t, l) # NoRec
  PROVE  RecAt(t, l) \in Record
BY DEF FbTypeOK, Page, RecAt, Locs

LEMMA OldVersionType ==
  ASSUME FbTypeOK, NEW t \in Tables, NEW l \in LiveLocs(t)
  PROVE  /\ OldVersions(t, l) \subseteq Record
         /\ OldVersion(t, l) \in OldVersions(t, l)
         /\ RecAt(t, l) \in Record
<1>1. l \in Locs /\ RecAt(t, l) # NoRec
  BY DEF LiveLocs, IsPrimary
<1>2. RecAt(t, l) \in Record
  BY <1>1, RecAtType
<1>3. OldVersion(t, l) \in Record
  BY <1>2 DEF OldVersion, Record, Flags
<1>4. \A k \in Keys : Delta(t, l, k) \in Record
  BY <1>2 DEF Delta, Record, Flags
<1> QED
  BY <1>2, <1>3, <1>4 DEF OldVersions

LEMMA NewRecordType ==
  ASSUME NEW f \in SUBSET Flags, NEW x \in Nat, NEW k \in Keys, NEW b \in Locs \cup {NoLoc}
  PROVE  /\ NewRecord(f, x, k, b) \in Record
         /\ NewRecord(f, x, k, b).flags = f
         /\ NewRecord(f, x, k, b).txn = x
         /\ NewRecord(f, x, k, b).key = k
         /\ NewRecord(f, x, k, b).reads = k
         /\ NewRecord(f, x, k, b).back = b
BY DEF NewRecord, Record

LEMMA HeadFlagsType == \A w : HeadFlags(w) \in SUBSET Flags /\ "CHAIN" \notin HeadFlags(w)
                              /\ "DELETED" \notin HeadFlags(w) /\ "DELTA" \notin HeadFlags(w)
BY DEF HeadFlags, Flags

LEMMA ListType ==
  ASSUME FbTypeOK, NEW t \in Tables, NEW ps \in SUBSET Pages, List(t, ps)
  PROVE  listed' \in [Tables -> SUBSET Pages] /\ ppGen' \in [Tables -> Nat]
BY DEF FbTypeOK, List

LEMMA UsesType ==
  ASSUME FbTypeOK, NEW x, Uses(x)
  PROVE  /\ x \in Nat
         /\ hdrGen' \in Nat \ {0}
         /\ nextTxn' \in Nat \ {0}
         /\ begun' \in SUBSET Nat
BY DEF FbTypeOK, Uses, Change

LEMMA InsertType ==
  ASSUME FbTypeOK, NEW t \in Tables, NEW l, NEW k, NEW x, NEW w, Insert(t, l, k, x, w)
  PROVE  FbTypeOK'
<1>1. l \in Locs /\ k \in Keys
  BY DEF Insert, FreeLoc, FreeKey
<1>2. x \in Nat /\ hdrGen' \in Nat \ {0} /\ nextTxn' \in Nat \ {0} /\ begun' \in SUBSET Nat
  BY UsesType DEF Insert
<1>3. NewRecord(HeadFlags(w), x, k, NoLoc) \in Record
  BY <1>1, <1>2, NewRecordType, HeadFlagsType
<1>4. disk' \in [Tables -> [Pages -> Page]]
  BY <1>3, StoreType DEF Insert
<1>5. listed' \in [Tables -> SUBSET Pages] /\ ppGen' \in [Tables -> Nat]
  BY <1>1, ListType DEF Insert, Locs
<1>6. written' \in SUBSET (Tables \X Keys \X Nat)
  BY <1>1, <1>2 DEF Insert, FbTypeOK
<1> QED
  BY <1>2, <1>4, <1>5, <1>6 DEF FbTypeOK

LEMMA UpdateType ==
  ASSUME FbTypeOK, NEW t \in Tables, NEW l, NEW b, NEW x, NEW w, Update(t, l, b, x, w)
  PROVE  FbTypeOK'
<1>1. l \in LiveLocs(t) /\ b \in Locs
  BY DEF Update, FreeLoc
<1>2. x \in Nat /\ hdrGen' \in Nat \ {0} /\ nextTxn' \in Nat \ {0} /\ begun' \in SUBSET Nat
  BY UsesType DEF Update
<1>3. RecAt(t, l) \in Record /\ RecAt(t, l).key \in Keys /\ OldVersions(t, l) \subseteq Record
  BY <1>1, OldVersionType DEF Record
<1>4. NewRecord(HeadFlags(w), x, RecAt(t, l).key, b) \in Record
  BY <1>1, <1>2, <1>3, NewRecordType, HeadFlagsType
<1>5. disk' \in [Tables -> [Pages -> Page]]
  <2>1. PICK old \in OldVersions(t, l) :
          Store(t, [m \in {l, b} |->
            IF m = l THEN NewRecord(HeadFlags(w), x, RecAt(t, l).key, b) ELSE old])
    BY DEF Update
  <2>2. old \in Record
    BY <1>3
  <2> QED
    BY <1>4, <2>1, <2>2, StoreType
<1>6. listed' \in [Tables -> SUBSET Pages] /\ ppGen' \in [Tables -> Nat]
  BY <1>1, ListType DEF Update, Locs
<1>7. written' \in SUBSET (Tables \X Keys \X Nat)
  BY <1>2, <1>3 DEF Update, FbTypeOK, Record
<1> QED
  BY <1>2, <1>5, <1>6, <1>7 DEF FbTypeOK

LEMMA DeleteType ==
  ASSUME FbTypeOK, NEW t \in Tables, NEW l, NEW b, NEW x, Delete(t, l, b, x)
  PROVE  FbTypeOK'
<1>1. l \in LiveLocs(t) /\ b \in Locs
  BY DEF Delete, FreeLoc
<1>2. x \in Nat /\ hdrGen' \in Nat \ {0} /\ nextTxn' \in Nat \ {0} /\ begun' \in SUBSET Nat
  BY UsesType DEF Delete
<1>3. RecAt(t, l) \in Record /\ RecAt(t, l).key \in Keys /\ OldVersion(t, l) \in Record
  BY <1>1, OldVersionType DEF Record
<1>4. NewRecord({"DELETED"}, x, RecAt(t, l).key, b) \in Record
  BY <1>1, <1>2, <1>3, NewRecordType DEF Flags
<1>5. disk' \in [Tables -> [Pages -> Page]]
  BY <1>3, <1>4, StoreType DEF Delete
<1>6. listed' \in [Tables -> SUBSET Pages] /\ ppGen' \in [Tables -> Nat]
  BY <1>1, ListType DEF Delete, Locs
<1> QED
  BY <1>2, <1>5, <1>6 DEF FbTypeOK, Delete

LEMMA CollectType ==
  ASSUME FbTypeOK, NEW t \in Tables, NEW l, NEW b,
         CollectBack(t, l, b) \/ CollectStub(t, l)
  PROVE  FbTypeOK'
<1>1. l \in Locs /\ RecAt(t, l) \in Record
  BY RecAtType DEF CollectBack, CollectStub, IsRec
<1>2. [RecAt(t, l) EXCEPT !.back = NoLoc] \in Record
  BY <1>1 DEF Record
<1>3. disk' \in [Tables -> [Pages -> Page]]
  BY <1>2, StoreType DEF CollectBack, CollectStub
<1> QED
  BY <1>3 DEF FbTypeOK, CollectBack, CollectStub, Change

LEMMA UndoType ==
  ASSUME FbTypeOK, NEW t \in Tables, NEW l, NEW b, NEW w, Undo(t, l, b, w)
  PROVE  FbTypeOK'
<1>1. b \in Locs /\ RecAt(t, b) \in Record
  BY RecAtType DEF Undo, IsRec
<1>2. Restored(t, b, w) \in Record
  BY <1>1, HeadFlagsType DEF Restored, Record
<1>3. disk' \in [Tables -> [Pages -> Page]]
  BY <1>2, StoreType DEF Undo
<1> QED
  BY <1>3 DEF FbTypeOK, Undo, Change

LEMMA BeginReleaseType ==
  ASSUME FbTypeOK, Begin \/ (\E x : Commit(x)) \/ \E t \in Tables, p \in Pages : Release(t, p)
  PROVE  FbTypeOK'
<1>1. CASE Begin
  BY <1>1 DEF FbTypeOK, Begin, Change
<1>2. CASE \E x : Commit(x)
  BY <1>2 DEF FbTypeOK, Commit
<1>3. CASE \E t \in Tables, p \in Pages : Release(t, p)
  BY <1>3 DEF FbTypeOK, Release, Change
<1> QED
  BY <1>1, <1>2, <1>3

\* Whatever Firebird does, its file stays well formed.
LEMMA FirebirdType == ASSUME FbTypeOK, Firebird PROVE FbTypeOK'
<1>1. CASE Begin \/ (\E x : Commit(x)) \/ \E t \in Tables, p \in Pages : Release(t, p)
  BY <1>1, BeginReleaseType
<1>2. CASE \E t \in Tables, l \in Locs, x \in begun \cup {nextTxn} :
             \E k \in Keys, w \in Widths : Insert(t, l, k, x, w)
  BY <1>2, InsertType
<1>3. CASE \E t \in Tables, l \in Locs, x \in begun \cup {nextTxn} :
             \E b \in Locs, w \in Widths : Update(t, l, b, x, w)
  BY <1>3, UpdateType
<1>4. CASE \E t \in Tables, l \in Locs, x \in begun \cup {nextTxn} :
             \E b \in Locs : Delete(t, l, b, x)
  BY <1>4, DeleteType
<1>5. CASE \E t \in Tables, l \in Locs :
             (\E b \in Locs : CollectBack(t, l, b)) \/ CollectStub(t, l)
  BY <1>5, CollectType
<1>6. CASE \E t \in Tables, l, b \in Locs, w \in Widths : Undo(t, l, b, w)
  BY <1>6, UndoType
<1> QED
  BY <1>1, <1>2, <1>3, <1>4, <1>5, <1>6 DEF Firebird

-----------------------------------------------------------------------------
(***************************************************************************)
(* Type correctness of the loop.                                           *)
(***************************************************************************)

LEMMA InitialValuesType ==
  /\ FreshState \in States
  /\ EmptySnapshot \in Snapshot
  /\ NoCache \in Caches
  /\ NoCycle \in Cycles
  /\ NoScan \in Scans
<1>1. EmptySnapshot \in Snapshot
  BY DEF EmptySnapshot, Snapshot
<1>2. FreshState \in States
  BY DEF FreshState, States
<1>3. NoCache \in Caches /\ NoCycle \in Cycles
  BY <1>1 DEF NoCache, Caches, NoCycle, Cycles
<1>4. NoScan \in Scans
  BY <1>1 DEF NoScan, Scans
<1> QED
  BY <1>1, <1>2, <1>3, <1>4

LEMMA InitType == Init => TypeOK
<1> SUFFICES ASSUME Init PROVE TypeOK
  OBVIOUS
<1>1. 1 \in 1..(Len(TableOrder) + 1) /\ 0 \in 0..MaxFaults
  BY CdcWatchAssumption
<1>2. FbTypeOK
  BY FbInitType DEF Init
<1>3. pc = "down" /\ pc \in PCs /\ exiting \in BOOLEAN /\ mapped \in BOOLEAN /\ lastHdr \in Nat
  BY DEF Init, PCs
<1>4. pg \in [Tables -> [Keys -> Nat]]
  BY DEF Init, NoRow
<1> QED
  BY <1>1, <1>2, <1>3, <1>4, InitialValuesType DEF Init, TypeOK

\* The entries of TableOrder are tables.
LEMMA TurnType ==
  ASSUME turn \in DOMAIN TableOrder
  PROVE  TableOrder[turn] \in Tables /\ turn + 1 \in 1..(Len(TableOrder) + 1)
BY CdcWatchAssumption

\* What one page yields is a set of upserts, keys and transaction numbers.
LEMMA PageTypes ==
  ASSUME FbTypeOK, NEW t \in Tables, NEW p \in Pages, NEW known, NEW first, NEW lastTxn
  PROVE  /\ PageUpserts(t, p, known, first, lastTxn) \subseteq Upsert
         /\ PageDeletes(t, p, known, first, lastTxn) \subseteq Keys
         /\ PageTxns(t, p, known, first, lastTxn) \subseteq Nat
         /\ PagePks(t, p) \subseteq Keys
         /\ disk[t][p].gen \in Nat
<1>1. \A s \in Used(t, p) : s \in Slots /\ disk[t][p].slots[s] \in Record
  BY DEF FbTypeOK, Page, Used
<1>2. NewRecs(t, p, known, first, lastTxn) \subseteq Used(t, p)
  BY DEF NewRecs, Examined
<1>3. \A s \in Used(t, p) : /\ disk[t][p].slots[s].txn \in Nat
                            /\ disk[t][p].slots[s].key \in Keys
                            /\ disk[t][p].slots[s].reads \in Keys
                            /\ <<p, s>> \in Locs
  BY <1>1 DEF Record, Locs
<1>4. PageUpserts(t, p, known, first, lastTxn) \subseteq Upsert
  <2>1. Garbage \in Nat
    BY FbDiskAssumption DEF Garbage
  <2>2. \A s \in Used(t, p) : RowOf(p, s, disk[t][p].slots[s]) \in Upsert
    BY <1>3, <2>1 DEF RowOf, Upsert
  <2> QED
    BY <1>2, <2>2 DEF PageUpserts
<1>5. PageTxns(t, p, known, first, lastTxn) \subseteq Nat
  BY <1>2, <1>3 DEF PageTxns
<1>6. PagePks(t, p) \subseteq Keys
  BY <1>3 DEF PagePks
<1>7. disk[t][p].gen \in Nat
  BY DEF FbTypeOK, Page
<1> QED
  BY <1>4, <1>5, <1>6, <1>7 DEF PageDeletes

\* Express deletes are keys.
LEMMA DeltaDeletesType ==
  ASSUME TypeOK, pc = "scan"
  PROVE  DeltaDeletes \subseteq Keys
<1>1. scan.dels \in SUBSET Keys
  BY DEF TypeOK, Scans
<1>2. cache[TableOrder[turn]].prev \in Snapshot
  <2>1. TableOrder[turn] \in Tables
    BY TurnType DEF TypeOK
  <2> QED
    BY <2>1 DEF TypeOK, Caches
<1>3. ExpressDeletes(cache[TableOrder[turn]].prev, scan.newPks) \subseteq Keys
  BY <1>2 DEF ExpressDeletes, Kept, Snapshot
<1> QED
  BY <1>1, <1>3 DEF DeltaDeletes

\* Applying the delta yields a table.
LEMMA MergedType ==
  ASSUME TypeOK, NEW rows \in [Keys -> Nat]
  PROVE  Merged(rows) \in [Keys -> Nat]
<1>1. \A k \in Keys : (\E u \in scan.ups : u.key = k)
                      => (CHOOSE u \in scan.ups : u.key = k) \in scan.ups
  OBVIOUS
<1>2. \A u \in scan.ups : u.txn \in Nat
  BY DEF TypeOK, Scans, Upsert
<1> QED
  BY <1>1, <1>2 DEF Merged, NoRow

\* What the loop may remember of a page is a generation and a set of keys.
LEMMA AdvancedType ==
  ASSUME TypeOK
  PROVE  /\ \A gens \in [Pages -> Nat] : Advanced(gens) \in [Pages -> Nat]
         /\ \A prev \in Snapshot : AdvancedPks(prev) \in Snapshot
<1>1. scan.newGens \in [Pages -> Nat] /\ scan.newPks \in Snapshot
  BY DEF TypeOK, Scans
<1>2. ASSUME NEW gens \in [Pages -> Nat] PROVE Advanced(gens) \in [Pages -> Nat]
  BY <1>1 DEF Advanced
<1>3. ASSUME NEW prev \in Snapshot PROVE AdvancedPks(prev) \in Snapshot
  BY <1>1 DEF AdvancedPks, Snapshot
<1> QED
  BY <1>2, <1>3

LEMMA WatermarkType ==
  ASSUME NEW st \in States, NEW t \in Tables
  PROVE  /\ Watermark(st, t) \in Nat
         /\ Watermark(st, t) >= st.tableTxn[t]
         /\ Watermark(st, t) >= st.lastTxn
BY DEF Watermark, Max2, States

-----------------------------------------------------------------------------
(***************************************************************************)
(* Each step keeps the types.                                              *)
(***************************************************************************)

LEMMA FaultType == ASSUME TypeOK, NEW f, Fault(f) PROVE faults' \in 0..MaxFaults
BY CdcWatchAssumption DEF TypeOK, Fault

LEMMA DieType ==
  ASSUME TypeOK, Die, UNCHANGED <<fbVars, pg>>, faults' \in 0..MaxFaults,
         file' \in States, snap' \in [Tables -> Snapshot]
  PROVE  TypeOK'
<1>1. FbTypeOK'
  BY DEF TypeOK, FbTypeOK, fbVars, Page, Record, Locs
<1>2. 1 \in 1..(Len(TableOrder) + 1)
  BY CdcWatchAssumption
<1>3. pc' = "down" /\ pc' \in PCs
  BY DEF Die, PCs
<1> QED
  BY <1>1, <1>2, <1>3, InitialValuesType DEF TypeOK, Die

LEMMA StartType == ASSUME TypeOK, Start PROVE TypeOK'
<1>1. FbTypeOK'
  BY DEF TypeOK, FbTypeOK, Start, fbVars
<1>2. pc' = "idle" /\ pc' \in PCs
  BY DEF Start, PCs
<1> QED
  BY <1>1, <1>2 DEF TypeOK, Start

LEMMA PollType == ASSUME TypeOK, Poll PROVE TypeOK'
<1>1. FbTypeOK'
  BY DEF TypeOK, FbTypeOK, Poll, fbVars
<1>2. hdrGen \in Nat /\ 1 \in 1..(Len(TableOrder) + 1)
  BY CdcWatchAssumption DEF TypeOK, FbTypeOK
<1>3. pc' \in PCs /\ pc' # "scan"
  BY DEF Poll, PCs
<1>4. cycle' \in Cycles
  <2>1. [newMax |-> mem.lastTxn, changes |-> FALSE, dirty |-> FALSE] \in Cycles
    BY DEF TypeOK, Cycles, States
  <2> QED
    BY <2>1 DEF TypeOK, Poll
<1>5. cache' \in [Tables -> Caches] /\ turn' \in 1..(Len(TableOrder) + 1)
  BY <1>2, InitialValuesType DEF TypeOK, Poll
<1> QED
  BY <1>1, <1>2, <1>3, <1>4, <1>5 DEF TypeOK, Poll

LEMMA StopType == ASSUME TypeOK, Stop PROVE TypeOK'
<1>1. FbTypeOK'
  BY DEF TypeOK, FbTypeOK, Stop, fbVars
<1>2. pc' = "saveState" /\ pc' \in PCs /\ faults' \in 0..MaxFaults
  BY FaultType DEF Stop, PCs
<1> QED
  BY <1>1, <1>2 DEF TypeOK, Stop

LEMMA SkipTableType == ASSUME TypeOK, SkipTable PROVE TypeOK'
<1>1. FbTypeOK'
  BY DEF TypeOK, FbTypeOK, SkipTable, fbVars
<1>2. turn' \in 1..(Len(TableOrder) + 1) /\ pc # "scan"
  BY TurnType DEF SkipTable
<1>3. faults' \in 0..MaxFaults
  BY FaultType DEF SkipTable, TypeOK
<1> QED
  BY <1>1, <1>2, <1>3 DEF TypeOK, SkipTable

LEMMA OpenFailsType == ASSUME TypeOK, OpenFails PROVE TypeOK'
<1>1. FbTypeOK'
  BY DEF TypeOK, FbTypeOK, OpenFails, fbVars
<1>2. turn' \in 1..(Len(TableOrder) + 1) /\ pc # "scan" /\ faults' \in 0..MaxFaults
  BY TurnType, FaultType DEF OpenFails
<1>3. pending' \in [Tables -> Snapshot]
  BY InitialValuesType DEF TypeOK, OpenFails
<1> QED
  BY <1>1, <1>2, <1>3 DEF TypeOK, OpenFails

LEMMA SyncTableType == ASSUME TypeOK, SyncTable PROVE TypeOK'
<1> DEFINE t == TableOrder[turn]
<1>1. FbTypeOK'
  BY DEF TypeOK, FbTypeOK, SyncTable, fbVars
<1>2. t \in Tables /\ turn + 1 \in 1..(Len(TableOrder) + 1) /\ pc # "scan"
  BY TurnType DEF SyncTable
<1>3. ppGen[t] \in Nat /\ listed[t] \subseteq Pages
  BY <1>2 DEF TypeOK, FbTypeOK
<1>4. Opened(t) \in Caches
  <2>1. cache[t] \in Caches /\ pending[t] \in Snapshot
    BY <1>2 DEF TypeOK
  <2> QED
    BY <1>3, <2>1, InitialValuesType DEF Opened, Caches
<1>5. cache' \in [Tables -> Caches]
  <2>1. [Opened(t) EXCEPT !.ppGen = ppGen[t],
           !.pages = IF Opened(t).ppGen = ppGen[t] THEN @ ELSE listed[t]] \in Caches
    BY <1>3, <1>4 DEF Caches
  <2> QED
    BY <2>1 DEF TypeOK, SyncTable
<1>6. pending' \in [Tables -> Snapshot]
  BY InitialValuesType DEF TypeOK, SyncTable
<1>7. Watermark(mem, t) \in Nat
  BY <1>2, WatermarkType DEF TypeOK
<1>8. CASE ppGen[t] = 0
  <2>1. mem' \in States
    <3>1. mem \in States /\ mem' = [mem EXCEPT !.tableTxn[t] = Watermark(mem, t)]
      BY <1>8 DEF TypeOK, SyncTable
    <3> HIDE DEF t
    <3> QED
      BY <1>2, <1>7, <3>1 DEF States
  <2>2. Max2(cycle.newMax, Watermark(mem, t)) \in Nat
    BY <1>7 DEF Max2, TypeOK, Cycles
  <2>3. cycle' \in Cycles
    BY <1>8, <2>2 DEF TypeOK, SyncTable, Cycles
  <2> QED
    BY <1>1, <1>2, <1>5, <1>6, <1>8, <2>1, <2>3 DEF TypeOK, SyncTable
<1>9. CASE ppGen[t] # 0
  <2>1. cache'[t].pages \in SUBSET Pages
    BY <1>2, <1>5 DEF Caches
  <2>2. [NoScan EXCEPT !.lastTxn = Watermark(mem, t), !.maxTxn = Watermark(mem, t),
           !.todo = cache'[t].pages, !.refreshed = Opened(t).ppGen # ppGen[t]] \in Scans
    BY <1>7, <2>1, InitialValuesType DEF Scans
  <2>3. scan' \in Scans
    BY <1>9, <2>2 DEF SyncTable
  <2>4. pc' = "scan" /\ pc' \in PCs /\ turn \in DOMAIN TableOrder
    BY <1>9 DEF SyncTable, PCs
  <2> QED
    BY <1>1, <1>5, <1>6, <1>9, <2>3, <2>4 DEF TypeOK, SyncTable
<1> QED
  BY <1>8, <1>9

LEMMA ScanPageType == ASSUME TypeOK, ScanPage PROVE TypeOK'
<1> DEFINE t == TableOrder[turn]
           known == mem.gens[t]
           first == t \in FixedPk /\ Kept(cache[t].prev) = {}
<1>1. FbTypeOK'
  BY DEF TypeOK, FbTypeOK, ScanPage, fbVars
<1>2. t \in Tables /\ scan \in Scans
  BY TurnType DEF TypeOK, ScanPage
<1>3. PICK p \in scan.todo :
        \E m \in PageTxns(t, p, known, first, scan.lastTxn) \cup {scan.maxTxn} :
          /\ \A q \in scan.todo : p <= q
          /\ \A x \in PageTxns(t, p, known, first, scan.lastTxn) \cup {scan.maxTxn} : x <= m
          /\ scan' = [scan EXCEPT
                !.todo = @ \ {p},
                !.ups = @ \cup PageUpserts(t, p, known, first, scan.lastTxn),
                !.dels = @ \cup PageDeletes(t, p, known, first, scan.lastTxn),
                !.maxTxn = m,
                !.newGens[p] = IF PageChanged(t, p, known) THEN disk[t][p].gen ELSE 0,
                !.newPks[p] = IF RebuildsPks(t, p, known, first) THEN PagePks(t, p) ELSE NoPks]
  BY DEF ScanPage
<1>4. PICK m \in PageTxns(t, p, known, first, scan.lastTxn) \cup {scan.maxTxn} :
          scan' = [scan EXCEPT
                !.todo = @ \ {p},
                !.ups = @ \cup PageUpserts(t, p, known, first, scan.lastTxn),
                !.dels = @ \cup PageDeletes(t, p, known, first, scan.lastTxn),
                !.maxTxn = m,
                !.newGens[p] = IF PageChanged(t, p, known) THEN disk[t][p].gen ELSE 0,
                !.newPks[p] = IF RebuildsPks(t, p, known, first) THEN PagePks(t, p) ELSE NoPks]
  BY <1>3
<1>5. p \in Pages
  BY <1>2 DEF Scans
<1>6. /\ PageUpserts(t, p, known, first, scan.lastTxn) \subseteq Upsert
      /\ PageDeletes(t, p, known, first, scan.lastTxn) \subseteq Keys
      /\ PageTxns(t, p, known, first, scan.lastTxn) \subseteq Nat
      /\ PagePks(t, p) \subseteq Keys
      /\ disk[t][p].gen \in Nat
  BY <1>2, <1>5, PageTypes DEF TypeOK
<1>7. m \in Nat
  BY <1>2, <1>6 DEF Scans
<1> HIDE DEF t, known, first
<1>8. /\ scan'.todo \subseteq Pages /\ scan'.ups \subseteq Upsert /\ scan'.dels \subseteq Keys
      /\ scan'.maxTxn \in Nat /\ scan'.lastTxn \in Nat /\ scan'.refreshed = scan.refreshed
  BY <1>2, <1>4, <1>6, <1>7 DEF Scans
<1>9. scan'.newGens \in [Pages -> Nat]
  BY <1>2, <1>4, <1>6 DEF Scans
<1>10. scan'.newPks \in Snapshot
  BY <1>2, <1>4, <1>6 DEF Scans, Snapshot
<1>11. scan' \in Scans
  BY <1>2, <1>4, <1>8, <1>9, <1>10 DEF Scans
<1> QED
  BY <1>1, <1>11 DEF TypeOK, ScanPage

LEMMA SyncOkType == ASSUME TypeOK, SyncOk PROVE TypeOK'
<1> DEFINE t == TableOrder[turn]
<1>1. FbTypeOK'
  BY DEF TypeOK, FbTypeOK, SyncOk, fbVars
<1>2. t \in Tables /\ turn' \in 1..(Len(TableOrder) + 1)
  BY TurnType DEF TypeOK, SyncOk, ScanDone
<1>3. pg' \in [Tables -> [Keys -> Nat]]
  <2>1. Merged(pg[t]) \in [Keys -> Nat]
    BY <1>2, MergedType DEF TypeOK
  <2> QED
    BY <2>1 DEF TypeOK, SyncOk
<1>4. scan.maxTxn \in Nat
  BY DEF TypeOK, Scans
<1>5. mem' \in States
  <2>1. mem \in States /\ mem' = [mem EXCEPT !.gens[t] = Advanced(mem.gens[t]), !.tableTxn[t] = scan.maxTxn]
    BY DEF TypeOK, SyncOk
  <2>2. Advanced(mem.gens[t]) \in [Pages -> Nat]
    BY <1>2, <2>1, AdvancedType DEF States
  <2> HIDE DEF t
  <2> QED
    BY <1>2, <1>4, <2>1, <2>2 DEF States
<1>6. cache' \in [Tables -> Caches]
  <2>1. cache \in [Tables -> Caches] /\ cache' = [cache EXCEPT ![t].prev = AdvancedPks(cache[t].prev)]
    BY DEF TypeOK, SyncOk
  <2>2. AdvancedPks(cache[t].prev) \in Snapshot
    BY <1>2, <2>1, AdvancedType DEF Caches
  <2> HIDE DEF t
  <2> QED
    BY <1>2, <2>1, <2>2 DEF Caches
<1>7. cycle' \in Cycles
  <2>1. Max2(cycle.newMax, scan.maxTxn) \in Nat
    BY <1>4 DEF TypeOK, Cycles, Max2
  <2>2. cycle.changes \in BOOLEAN /\ cycle.dirty \in BOOLEAN
    BY DEF TypeOK, Cycles
  <2>3. cycle'.newMax \in Nat /\ cycle'.changes \in BOOLEAN /\ cycle'.dirty \in BOOLEAN
    BY <2>1, <2>2, Zenon DEF SyncOk
  <2>4. cycle' = [newMax |-> cycle'.newMax, changes |-> cycle'.changes, dirty |-> cycle'.dirty]
    BY DEF SyncOk
  <2> QED
    BY <2>3, <2>4 DEF Cycles
<1>8. scan' \in Scans /\ pc' = "table" /\ pc' \in PCs
  BY InitialValuesType DEF SyncOk, PCs
<1> QED
  BY <1>1, <1>2, <1>3, <1>5, <1>6, <1>7, <1>8 DEF TypeOK, SyncOk

LEMMA SyncErrType ==
  ASSUME TypeOK, ScanDone, SyncErr, faults' \in 0..MaxFaults, pg' \in [Tables -> [Keys -> Nat]]
  PROVE  TypeOK'
<1>1. FbTypeOK'
  BY DEF TypeOK, FbTypeOK, SyncErr, fbVars
<1>2. turn' \in 1..(Len(TableOrder) + 1)
  BY TurnType DEF TypeOK, SyncErr, ScanDone
<1>3. scan' \in Scans /\ pc' = "table" /\ pc' \in PCs
  BY InitialValuesType DEF SyncErr, PCs
<1> QED
  BY <1>1, <1>2, <1>3 DEF TypeOK, SyncErr

\* The three ways a delta is not acknowledged.
LEMMA SyncFailureType == ASSUME TypeOK, SyncRejected \/ SyncFails \/ SyncAckLost PROVE TypeOK'
<1>1. CASE SyncRejected
  BY <1>1, SyncErrType DEF SyncRejected, TypeOK
<1>2. CASE SyncFails
  BY <1>2, SyncErrType, FaultType DEF SyncFails, TypeOK
<1>3. CASE SyncAckLost
  <2>1. TableOrder[turn] \in Tables
    BY <1>3, TurnType DEF TypeOK, SyncAckLost, ScanDone
  <2>2. pg' \in [Tables -> [Keys -> Nat]]
    BY <1>3, <2>1, MergedType DEF TypeOK, SyncAckLost
  <2> QED
    BY <1>3, <2>2, SyncErrType, FaultType DEF SyncAckLost
<1> QED
  BY <1>1, <1>2, <1>3

LEMMA EndCycleType == ASSUME TypeOK, EndCycle PROVE TypeOK'
<1>1. FbTypeOK'
  BY DEF TypeOK, FbTypeOK, EndCycle, fbVars
<1>2. 1 \in 1..(Len(TableOrder) + 1) /\ pc' \in PCs /\ pc' # "scan"
  BY CdcWatchAssumption DEF EndCycle, PCs
<1>3. mem' \in States
  BY DEF TypeOK, EndCycle, States, Cycles
<1> QED
  BY <1>1, <1>2, <1>3, InitialValuesType DEF TypeOK, EndCycle

LEMMA SaveStateType == ASSUME TypeOK, SaveState PROVE TypeOK'
<1>1. FbTypeOK'
  BY DEF TypeOK, FbTypeOK, SaveState, fbVars
<1>2. pc' = "saveSnap" /\ pc' \in PCs
  BY DEF SaveState, PCs
<1> QED
  BY <1>1, <1>2 DEF TypeOK, SaveState, loopVars

LEMMA SaveSnapType == ASSUME TypeOK, SaveSnap \/ SaveSnapFails PROVE TypeOK'
<1>1. UNCHANGED <<fbVars, file, pg>> /\ faults' \in 0..MaxFaults
  BY FaultType DEF SaveSnap, SaveSnapFails, TypeOK
<1>2. snap' \in [Tables -> Snapshot]
  BY InitialValuesType DEF TypeOK, SaveSnap, SaveSnapFails, Caches
<1>3. CASE exiting
  BY <1>1, <1>2, <1>3, DieType DEF SaveSnap, SaveSnapFails, AfterSave, TypeOK
<1>4. CASE ~exiting
  <2>1. FbTypeOK'
    BY <1>1 DEF TypeOK, FbTypeOK, fbVars
  <2>2. pc' = "idle" /\ pc' \in PCs /\ UNCHANGED <<mem, cache, pending, loopVars>>
    BY <1>4 DEF SaveSnap, SaveSnapFails, AfterSave, PCs
  <2> QED
    BY <1>1, <1>2, <2>1, <2>2 DEF TypeOK, loopVars
<1> QED
  BY <1>3, <1>4

\* The process dies in a crash or when the state file cannot be written.
LEMMA CrashType == ASSUME TypeOK, Crash \/ SaveStateFails PROVE TypeOK'
BY DieType, FaultType DEF Crash, SaveStateFails, TypeOK

LEMMA EnvironmentType == ASSUME TypeOK, Firebird \/ Grow PROVE TypeOK'
<1>1. FbTypeOK'
  BY FirebirdType DEF TypeOK, FbTypeOK, Grow, fbVars
<1>2. UNCHANGED <<pc, mem, file, cache, pending, snap, lastHdr, turn, cycle, scan, exiting, pg, faults>>
      /\ mapped' \in BOOLEAN
  BY DEF TypeOK, Firebird, Grow, loopVars
<1> QED
  BY <1>1, <1>2 DEF TypeOK

LEMMA NextType == ASSUME TypeOK, [Next]_vars PROVE TypeOK'
<1>1. CASE Watch
  BY <1>1, StartType, PollType, SkipTableType, SyncTableType, ScanPageType, SyncOkType,
     SyncFailureType, EndCycleType, SaveStateType, SaveSnapType DEF Watch
<1>2. CASE Failure
  BY <1>2, StopType, OpenFailsType, SyncFailureType, CrashType, SaveSnapType DEF Failure
<1>3. CASE Firebird \/ Grow
  BY <1>3, EnvironmentType
<1>4. CASE UNCHANGED vars
  BY <1>4 DEF TypeOK, FbTypeOK, vars, fbVars, loopVars
<1> QED
  BY <1>1, <1>2, <1>3, <1>4 DEF Next

\* Every state of the loop, its two files, the replica and the Firebird file
\* is well formed: run_watch never leaves its table list, a scan is open only
\* for a table of that list, and no generation, watermark or key is out of type.
THEOREM TypeCorrect == Spec => []TypeOK
BY InitType, NextType, PTL DEF Spec

-----------------------------------------------------------------------------
(***************************************************************************)
(* The saved watermark never falls: what is in memory is never behind the  *)
(* state file while the process runs, and neither the maximum of a scan    *)
(* nor that of a cycle is behind what it started from.                     *)
(***************************************************************************)
MemoryAhead == pc # "down" => \A t \in Tables : Watermark(mem, t) >= Watermark(file, t)
CycleAhead  == pc \in {"table", "scan"} => cycle.newMax >= mem.lastTxn
ScanAhead   == pc = "scan" => /\ scan.lastTxn = Watermark(mem, TableOrder[turn])
                              /\ scan.maxTxn >= scan.lastTxn
Ahead == MemoryAhead /\ CycleAhead /\ ScanAhead

LEMMA AheadInit == Init => Ahead
BY DEF Init, Ahead, MemoryAhead, CycleAhead, ScanAhead

LEMMA AheadStart == ASSUME TypeOK, Start PROVE Ahead' /\ file' = file
<1>1. \A t \in Tables : Watermark(file, t) \in Nat
  BY WatermarkType DEF TypeOK
<1>2. pc' = "idle" /\ mem' = file /\ file' = file
  BY DEF Start
<1>3. MemoryAhead'
  BY <1>1, <1>2 DEF MemoryAhead
<1> QED
  BY <1>2, <1>3 DEF Ahead, CycleAhead, ScanAhead

\* A step that leaves mem and file alone and opens neither a cycle nor a scan.
LEMMA AheadKept ==
  ASSUME Ahead, UNCHANGED <<mem, file>>, pc # "down",
         \/ pc' \notin {"table", "scan"}
         \/ pc' = "table" /\ pc \in {"table", "scan"} /\ UNCHANGED cycle
  PROVE  Ahead'
<1>1. MemoryAhead'
  BY DEF Ahead, MemoryAhead, Watermark, Max2
<1> QED
  BY <1>1 DEF Ahead, CycleAhead, ScanAhead

LEMMA AheadPoll == ASSUME TypeOK, Ahead, Poll PROVE Ahead' /\ file' = file
<1>1. UNCHANGED <<mem, file>> /\ pc = "idle"
  BY DEF Poll
<1>2. CASE lastHdr # hdrGen
  <2>1. pc' = "table" /\ cycle'.newMax = mem.lastTxn /\ mem.lastTxn \in Nat
    BY <1>2 DEF Poll, TypeOK, States
  <2>2. MemoryAhead'
    BY <1>1 DEF Ahead, MemoryAhead, Watermark, Max2
  <2> QED
    BY <1>1, <2>1, <2>2 DEF Ahead, CycleAhead, ScanAhead
<1>3. CASE lastHdr = hdrGen
  BY <1>1, <1>3, AheadKept DEF Poll
<1> QED
  BY <1>1, <1>2, <1>3

LEMMA AheadSyncTable == ASSUME TypeOK, Ahead, SyncTable PROVE Ahead' /\ file' = file
<1> DEFINE t == TableOrder[turn]
<1>1. t \in Tables /\ pc = "table" /\ file' = file /\ mem \in States
  BY TurnType DEF SyncTable, TypeOK
<1>2. \A u \in Tables : Watermark(mem, u) \in Nat /\ Watermark(file, u) \in Nat
  BY WatermarkType DEF TypeOK
<1>3. CASE ppGen[t] = 0
  <2>1. /\ pc' = "table"
        /\ mem' = [mem EXCEPT !.tableTxn[t] = Watermark(mem, t)]
        /\ cycle' = [cycle EXCEPT !.newMax = Max2(cycle.newMax, Watermark(mem, t))]
    BY <1>1, <1>3 DEF SyncTable
  <2> HIDE DEF t
  <2>2. \A u \in Tables : Watermark(mem', u) = Watermark(mem, u)
    BY <1>1, <1>2, <2>1 DEF Watermark, Max2, States
  <2>3. cycle'.newMax >= mem'.lastTxn
    BY <1>1, <1>2, <2>1 DEF Ahead, CycleAhead, TypeOK, Cycles, States, Max2
  <2> QED
    BY <1>1, <2>1, <2>2, <2>3 DEF Ahead, MemoryAhead, CycleAhead, ScanAhead
<1>4. CASE ppGen[t] # 0
  <2>1. /\ pc' = "scan" /\ UNCHANGED <<mem, cycle, turn>>
        /\ scan' = [NoScan EXCEPT !.lastTxn = Watermark(mem, t), !.maxTxn = Watermark(mem, t),
                      !.todo = cache'[t].pages, !.refreshed = Opened(t).ppGen # ppGen[t]]
    BY <1>1, <1>4 DEF SyncTable
  <2>2. scan'.lastTxn = Watermark(mem, t) /\ scan'.maxTxn = Watermark(mem, t)
    BY <2>1 DEF NoScan
  <2>3. mem' = mem /\ TableOrder[turn'] = t
    BY <2>1
  <2>4. ScanAhead'
    BY <1>1, <1>2, <2>2, <2>3 DEF ScanAhead
  <2>5. MemoryAhead' /\ CycleAhead'
    BY <1>1, <2>1 DEF Ahead, MemoryAhead, CycleAhead, Watermark, Max2
  <2> QED
    BY <1>1, <2>4, <2>5 DEF Ahead
<1> QED
  BY <1>3, <1>4

LEMMA AheadScanPage == ASSUME TypeOK, Ahead, ScanPage PROVE Ahead' /\ file' = file
<1>1. UNCHANGED <<mem, file, pc, cycle, turn>> /\ pc = "scan"
  BY DEF ScanPage
<1>2. scan'.lastTxn = scan.lastTxn /\ scan'.maxTxn >= scan.maxTxn
  BY DEF ScanPage, TypeOK, Scans
<1>3. scan.lastTxn \in Nat /\ scan.maxTxn \in Nat /\ scan'.maxTxn \in Nat
  BY ScanPageType DEF TypeOK, Scans
<1>4. ScanAhead'
  <2>1. mem' = mem /\ TableOrder[turn'] = TableOrder[turn]
    BY <1>1
  <2> QED
    BY <1>1, <1>2, <1>3, <2>1 DEF Ahead, ScanAhead
<1>5. MemoryAhead' /\ CycleAhead'
  BY <1>1 DEF Ahead, MemoryAhead, CycleAhead, Watermark, Max2
<1> QED
  BY <1>1, <1>4, <1>5 DEF Ahead

LEMMA AheadSyncOk == ASSUME TypeOK, Ahead, SyncOk PROVE Ahead' /\ file' = file
<1> DEFINE t == TableOrder[turn]
<1>1. t \in Tables /\ pc = "scan" /\ pc' = "table" /\ file' = file /\ mem \in States
  BY TurnType DEF SyncOk, ScanDone, TypeOK
<1>2. /\ mem' = [mem EXCEPT !.gens[t] = Advanced(mem.gens[t]), !.tableTxn[t] = scan.maxTxn]
      /\ cycle'.newMax = Max2(cycle.newMax, scan.maxTxn)
  BY DEF SyncOk
<1>3. \A u \in Tables : Watermark(mem, u) \in Nat /\ Watermark(file, u) \in Nat
  BY WatermarkType DEF TypeOK
<1>4. scan.maxTxn \in Nat /\ scan.maxTxn >= Watermark(mem, t)
  BY <1>1 DEF Ahead, ScanAhead, TypeOK, Scans
<1> HIDE DEF t
<1>5. mem'.lastTxn = mem.lastTxn /\ mem'.tableTxn = [mem.tableTxn EXCEPT ![t] = scan.maxTxn]
  BY <1>1, <1>2 DEF States
<1>6. \A u \in Tables : Watermark(mem', u) >= Watermark(mem, u)
  BY <1>1, <1>3, <1>4, <1>5 DEF Watermark, Max2, States
<1>7. \A u \in Tables : Watermark(mem', u) \in Nat
  BY SyncOkType, WatermarkType DEF TypeOK
<1>8. MemoryAhead'
  BY <1>1, <1>3, <1>6, <1>7 DEF Ahead, MemoryAhead
<1>9. CycleAhead'
  BY <1>1, <1>2, <1>4, <1>5 DEF Ahead, CycleAhead, Max2, TypeOK, Cycles, States
<1> QED
  BY <1>1, <1>8, <1>9 DEF Ahead, ScanAhead

LEMMA AheadEndCycle == ASSUME TypeOK, Ahead, EndCycle PROVE Ahead' /\ file' = file
<1>1. /\ pc = "table" /\ pc' \notin {"table", "scan"} /\ file' = file
      /\ mem' = [mem EXCEPT !.lastTxn = IF cycle.changes THEN cycle.newMax ELSE mem.lastTxn]
  BY DEF EndCycle
<1>2. mem'.tableTxn = mem.tableTxn /\ mem'.lastTxn >= mem.lastTxn /\ mem'.lastTxn \in Nat
  BY <1>1 DEF Ahead, CycleAhead, TypeOK, States, Cycles
<1>3. \A u \in Tables : Watermark(mem', u) >= Watermark(mem, u)
  BY <1>2 DEF Watermark, Max2, TypeOK, States
<1>4. \A u \in Tables : Watermark(mem, u) \in Nat /\ Watermark(file, u) \in Nat
                         /\ Watermark(mem', u) \in Nat
  BY EndCycleType, WatermarkType DEF TypeOK
<1> QED
  BY <1>1, <1>3, <1>4 DEF Ahead, MemoryAhead, CycleAhead, ScanAhead

\* Saving copies what is ahead; leaving the process saves nothing.
LEMMA AheadSave ==
  ASSUME TypeOK, Ahead,
         SaveState \/ SaveSnap \/ SaveSnapFails \/ SaveStateFails \/ Crash
  PROVE  /\ Ahead'
         /\ \A t \in Tables : Watermark(file', t) >= Watermark(file, t)
<1>1. \A t \in Tables : Watermark(mem, t) \in Nat /\ Watermark(file, t) \in Nat
  BY WatermarkType DEF TypeOK
<1>2. CASE SaveState
  <2>1. pc = "saveState" /\ pc' = "saveSnap" /\ file' = mem /\ mem' = mem
    BY <1>2 DEF SaveState
  <2> QED
    BY <1>1, <2>1 DEF Ahead, MemoryAhead, CycleAhead, ScanAhead
<1>3. CASE SaveSnap \/ SaveSnapFails \/ SaveStateFails \/ Crash
  <2>1. file' = file
    BY <1>3 DEF SaveSnap, SaveSnapFails, SaveStateFails, Crash
  <2>2. CASE pc' = "down"
    BY <1>1, <2>1, <2>2 DEF Ahead, MemoryAhead, CycleAhead, ScanAhead
  <2>3. CASE pc' # "down"
    <3>1. pc = "saveSnap" /\ pc' = "idle" /\ mem' = mem
      BY <1>3, <2>3 DEF SaveSnap, SaveSnapFails, SaveStateFails, Crash, AfterSave, Die
    <3> QED
      BY <1>1, <2>1, <3>1, AheadKept
  <2> QED
    BY <2>2, <2>3
<1> QED
  BY <1>2, <1>3

\* The steps that touch neither mem nor file and stay where they are, or give
\* up on the current table.
LEMMA AheadOther ==
  ASSUME TypeOK, Ahead,
         \/ Stop \/ SkipTable \/ OpenFails \/ SyncRejected \/ SyncFails \/ SyncAckLost
         \/ Firebird \/ Grow \/ UNCHANGED vars
  PROVE  Ahead' /\ file' = file
<1>1. CASE Stop \/ SkipTable \/ OpenFails
  BY <1>1, AheadKept DEF Stop, SkipTable, OpenFails
<1>2. CASE SyncRejected \/ SyncFails \/ SyncAckLost
  BY <1>2, AheadKept DEF SyncRejected, SyncFails, SyncAckLost, SyncErr, ScanDone
<1>3. CASE Firebird \/ Grow \/ UNCHANGED vars
  <2>1. UNCHANGED <<pc, mem, file, turn, cycle, scan>>
    BY <1>3 DEF Firebird, Grow, loopVars, vars
  <2>2. TableOrder[turn'] = TableOrder[turn]
    BY <2>1
  <2> QED
    BY <2>1, <2>2 DEF Ahead, MemoryAhead, CycleAhead, ScanAhead, Watermark, Max2
<1> QED
  BY <1>1, <1>2, <1>3

LEMMA AheadNext ==
  ASSUME TypeOK, Ahead, [Next]_vars
  PROVE  /\ Ahead'
         /\ \A t \in Tables : Watermark(file', t) >= Watermark(file, t)
<1>1. \A t \in Tables : Watermark(file, t) \in Nat
  BY WatermarkType DEF TypeOK
<1>2. CASE Start \/ Poll \/ SyncTable \/ ScanPage \/ SyncOk \/ EndCycle
  BY <1>1, <1>2, AheadStart, AheadPoll, AheadSyncTable, AheadScanPage, AheadSyncOk, AheadEndCycle
<1>3. CASE SaveState \/ SaveSnap \/ SaveSnapFails \/ SaveStateFails \/ Crash
  BY <1>3, AheadSave
<1>4. CASE \/ Stop \/ SkipTable \/ OpenFails \/ SyncRejected \/ SyncFails \/ SyncAckLost
           \/ Firebird \/ Grow \/ UNCHANGED vars
  BY <1>1, <1>4, AheadOther
<1> QED
  BY <1>2, <1>3, <1>4 DEF Next, Watch, Failure

\* No crash, lost answer, failed save or early table error ever makes a state
\* file with a lower watermark: run_watch only replaces it by what is ahead.
THEOREM SavedWatermarkMonotone == Spec => WatermarkNeverFalls
<1>1. Init => TypeOK /\ Ahead
  BY InitType, AheadInit
<1>2. TypeOK /\ Ahead /\ [Next]_vars => TypeOK' /\ Ahead'
  BY NextType, AheadNext
<1>3. TypeOK /\ Ahead /\ [Next]_vars
        => [\A t \in Tables : Watermark(file', t) >= Watermark(file, t)]_vars
  BY AheadNext
<1> QED
  BY <1>1, <1>2, <1>3, PTL DEF Spec, WatermarkNeverFalls

-----------------------------------------------------------------------------
(***************************************************************************)
(* A row changes again only after the watermark has passed its last change.*)
(* This is what keeps the old versions behind the watermark: sync_table    *)
(* takes every old version for a row, and Firebird often keeps no more of  *)
(* one than its difference to the next.                                    *)
(***************************************************************************)
ChangesOnce == "rewrite" \notin Env

\* And Firebird does not write between the reads of two pages.
CalmWrites == ChangesOnce /\ "duringScan" \notin Env

-----------------------------------------------------------------------------
(***************************************************************************)
(* The version chains of a table: one primary version for each key, and    *)
(* back pointers that lead to one old version each, of the same row, which *)
(* the saved watermark has passed; whoever unpacks a record finds its key, *)
(* unless it is a difference, and a delete stub leads to none of those.    *)
(***************************************************************************)
OnePrimary(t) ==
  \A l, m \in LiveLocs(t) : RecAt(t, l).key = RecAt(t, m).key => l = m

BackIsOld(t) ==
  \A l \in Locs : RecAt(t, l) # NoRec /\ RecAt(t, l).back # NoLoc =>
     LET b == RecAt(t, l).back
     IN  /\ b \in Locs /\ RecAt(t, b) # NoRec
         /\ "CHAIN" \in RecAt(t, b).flags
         /\ RecAt(t, b).key = RecAt(t, l).key

BackIsOwn(t) ==
  \A l, m \in Locs :
     /\ RecAt(t, l) # NoRec /\ RecAt(t, m) # NoRec
     /\ RecAt(t, l).back # NoLoc /\ RecAt(t, l).back = RecAt(t, m).back
     => l = m

OldIsPassed(t) ==
  \A l \in Locs : RecAt(t, l) # NoRec /\ "CHAIN" \in RecAt(t, l).flags =>
     "DELETED" \notin RecAt(t, l).flags /\ Passed(t, l)

ReadsAsIs(t) ==
  \A l \in Locs : RecAt(t, l) # NoRec =>
     LET rec == RecAt(t, l)
     IN  /\ "DELTA" \in rec.flags => "CHAIN" \in rec.flags
         /\ "DELTA" \notin rec.flags => rec.reads = rec.key
         /\ "DELETED" \in rec.flags /\ rec.back # NoLoc
              => "DELTA" \notin RecAt(t, rec.back).flags

Chains(t) == OnePrimary(t) /\ BackIsOld(t) /\ BackIsOwn(t) /\ OldIsPassed(t) /\ ReadsAsIs(t)

\* What the scan has gathered is what stands on the disk.
UpsOnDisk ==
  /\ pc # "scan" => scan.ups = {}
  /\ pc = "scan" => \A u \in scan.ups :
       /\ u.loc \in LiveLocs(TableOrder[turn])
       /\ u.key = RecAt(TableOrder[turn], u.loc).key
       /\ u.txn = RecAt(TableOrder[turn], u.loc).txn

DeltaInv == (\A t \in Tables : Chains(t)) /\ UpsOnDisk

LEMMA NoLocIsNowhere == NoLoc \notin Locs
BY FbDiskAssumption DEF NoLoc, Locs

LEMMA ChainsInit == Init => \A t \in Tables : Chains(t)
<1> SUFFICES ASSUME Init PROVE \A t \in Tables : Chains(t)
  OBVIOUS
<1>1. \A t \in Tables, l \in Locs : RecAt(t, l) = NoRec
  BY DEF Init, FbInit, RecAt, Locs
<1> QED
  BY <1>1 DEF Chains, OnePrimary, BackIsOld, BackIsOwn, OldIsPassed, ReadsAsIs, LiveLocs, IsPrimary

LEMMA DeltaInit == Init => DeltaInv
BY ChainsInit DEF DeltaInv, UpsOnDisk, Init, NoScan

-----------------------------------------------------------------------------
(***************************************************************************)
(* Firebird keeps the chains.                                              *)
(***************************************************************************)

\* A table whose records stay as they are keeps its chains.
LEMMA ChainsKept ==
  ASSUME NEW t \in Tables, Chains(t), TypeOK, TypeOK',
         \A l \in Locs : RecAt(t, l)' = RecAt(t, l),
         Watermark(file', t) >= Watermark(file, t)
  PROVE  Chains(t)'
<1>1. \A l \in Locs : RecAt(t, l) # NoRec => RecAt(t, l).txn \in Nat
  BY RecAtType DEF TypeOK, Record
<1>2. Watermark(file, t) \in Nat /\ Watermark(file', t) \in Nat
  BY WatermarkType DEF TypeOK
<1>3. OnePrimary(t)'
  BY DEF Chains, OnePrimary, LiveLocs
<1>4. BackIsOld(t)' /\ BackIsOwn(t)'
  BY DEF Chains, BackIsOld, BackIsOwn
<1>5. OldIsPassed(t)'
  BY <1>1, <1>2 DEF Chains, OldIsPassed, Passed
<1>6. ReadsAsIs(t)'
  BY NoLocIsNowhere DEF Chains, BackIsOld, ReadsAsIs
<1> QED
  BY <1>3, <1>4, <1>5, <1>6 DEF Chains

\* INSERT.
LEMMA InsertChains ==
  ASSUME TypeOK, TypeOK', UNCHANGED file, NEW t \in Tables, Chains(t),
         NEW l, NEW k, NEW x, NEW w, Insert(t, l, k, x, w)
  PROVE  Chains(t)'
<1> DEFINE rec == NewRecord(HeadFlags(w), x, k, NoLoc)
           new == [m \in {l} |-> rec]
<1>1. Store(t, new) /\ l \in Locs /\ RecAt(t, l) = NoRec /\ k \in Keys \ LiveKeys(t)
  BY DEF Insert, FreeLoc, FreeKey
<1>2. RecAt(t, l)' = rec /\ \A m \in Locs : m # l => RecAt(t, m)' = RecAt(t, m)
  BY <1>1, StoreAt DEF TypeOK
<1>3. /\ rec.key = k /\ rec.reads = k /\ rec.back = NoLoc
      /\ rec.flags \cap {"CHAIN", "DELETED", "DELTA"} = {}
  BY HeadFlagsType DEF NewRecord
<1> HIDE DEF rec, new
<1>4. OnePrimary(t)'
  BY <1>1, <1>2, <1>3 DEF Chains, OnePrimary, LiveLocs, LiveKeys, IsPrimary
<1>5. BackIsOld(t)' /\ BackIsOwn(t)'
  BY <1>1, <1>2, <1>3 DEF Chains, BackIsOld, BackIsOwn
<1>6. OldIsPassed(t)'
  BY <1>1, <1>2, <1>3 DEF Chains, OldIsPassed, Passed
<1>7. ReadsAsIs(t)'
  BY <1>1, <1>2, <1>3 DEF Chains, BackIsOld, ReadsAsIs
<1> QED
  BY <1>4, <1>5, <1>6, <1>7 DEF Chains

\* What may be kept of a version: its place in the chain, its row, its number.
LEMMA OldVersionKeeps ==
  ASSUME FbTypeOK, NEW t \in Tables, NEW l \in LiveLocs(t), NEW old \in OldVersions(t, l)
  PROVE  /\ old \in Record
         /\ old.key = RecAt(t, l).key /\ old.txn = RecAt(t, l).txn /\ old.back = RecAt(t, l).back
         /\ "CHAIN" \in old.flags /\ "DELETED" \notin old.flags
         /\ "DELTA" \notin old.flags =>
              old.reads = RecAt(t, l).reads /\ old.flags = RecAt(t, l).flags \cup {"CHAIN"}
         /\ old = OldVersion(t, l) => old.flags = RecAt(t, l).flags \cup {"CHAIN"}
<1>1. RecAt(t, l) \in Record /\ old \in Record
  BY OldVersionType
<1>2. "DELETED" \notin RecAt(t, l).flags
  BY DEF LiveLocs, IsPrimary
<1>3. CASE old = OldVersion(t, l)
  BY <1>1, <1>2, <1>3 DEF OldVersion, Record
<1>4. CASE \E k \in Keys : old = Delta(t, l, k)
  <2>1. /\ old.flags = {"CHAIN", "DELTA"} /\ old.key = RecAt(t, l).key
        /\ old.txn = RecAt(t, l).txn /\ old.back = RecAt(t, l).back
    BY <1>1, <1>4 DEF Delta, Record
  <2>2. old # OldVersion(t, l) \/ old.flags = RecAt(t, l).flags \cup {"CHAIN"}
    BY <1>1 DEF OldVersion, Record
  <2> QED
    BY <1>1, <2>1, <2>2
<1> QED
  BY <1>3, <1>4 DEF OldVersions

\* UPDATE and DELETE: the record head at l, the version it replaces at b.
LEMMA ReplaceChains ==
  ASSUME TypeOK, UNCHANGED file, NEW t \in Tables, Chains(t),
         NEW l \in LiveLocs(t), NEW b \in Locs, RecAt(t, b) = NoRec, Passed(t, l),
         NEW head \in Record, head.key = RecAt(t, l).key, head.back = b,
         head.reads = head.key, {"CHAIN", "DELTA"} \cap head.flags = {},
         NEW old \in OldVersions(t, l),
         "DELETED" \in head.flags => old = OldVersion(t, l),
         Store(t, [m \in {l, b} |-> IF m = l THEN head ELSE old])
  PROVE  Chains(t)'
<1> DEFINE new == [m \in {l, b} |-> IF m = l THEN head ELSE old]
<1>1. l \in Locs /\ RecAt(t, l) # NoRec /\ b # l /\ RecAt(t, l) \in Record
      /\ {"DELETED", "CHAIN"} \cap RecAt(t, l).flags = {} /\ head # NoRec
  BY NoRecAssumption, OldVersionType DEF LiveLocs, IsPrimary, TypeOK
<1>2. /\ RecAt(t, l)' = head /\ RecAt(t, b)' = old
      /\ \A m \in Locs : m \notin {l, b} => RecAt(t, m)' = RecAt(t, m)
  BY <1>1, StoreAt DEF TypeOK
<1>3. /\ old.key = RecAt(t, l).key /\ old.back = RecAt(t, l).back /\ old.txn = RecAt(t, l).txn
      /\ "CHAIN" \in old.flags /\ "DELETED" \notin old.flags /\ old # NoRec
  BY OldVersionKeeps, NoRecAssumption DEF TypeOK
<1>4. /\ "DELTA" \notin RecAt(t, l).flags
      /\ "DELTA" \notin old.flags => old.reads = old.key
      /\ "DELETED" \in head.flags => "DELTA" \notin old.flags
  BY <1>1, <1>3, OldVersionKeeps DEF Chains, ReadsAsIs, TypeOK
<1> HIDE DEF new
<1>5. OnePrimary(t)'
  BY <1>1, <1>2, <1>3 DEF Chains, OnePrimary, LiveLocs, IsPrimary
<1>6. b # NoLoc
  BY NoLocIsNowhere
<1>7. BackIsOld(t)'
  BY <1>1, <1>2, <1>3, <1>6 DEF Chains, BackIsOld
<1>8. BackIsOwn(t)'
  BY <1>1, <1>2, <1>3, <1>6 DEF Chains, BackIsOld, BackIsOwn
<1>9. OldIsPassed(t)'
  BY <1>1, <1>2, <1>3 DEF Chains, OldIsPassed, Passed
<1>10. ReadsAsIs(t)'
  <2>1. \A m \in Locs : RecAt(t, m) # NoRec => RecAt(t, m).back \notin {l, b}
    BY <1>1, <1>6, NoLocIsNowhere DEF Chains, BackIsOld
  <2> QED
    BY <1>1, <1>2, <1>3, <1>4, <1>6, <2>1 DEF Chains, BackIsOld, ReadsAsIs
<1> QED
  BY <1>5, <1>7, <1>8, <1>9, <1>10 DEF Chains

\* The rollback of an UPDATE or DELETE: nothing leads to the slot of the old
\* version but the record that was rolled back.
LEMMA UndoChains ==
  ASSUME TypeOK, UNCHANGED file, NEW t \in Tables, Chains(t), NEW l, NEW b, NEW w,
         Undo(t, l, b, w)
  PROVE  Chains(t)'
<1> DEFINE old == Restored(t, b, w)
           new == [n \in {l, b} |-> IF n = l THEN old ELSE NoRec]
<1>1. /\ Store(t, new) /\ l \in Locs /\ b \in Locs /\ RecAt(t, l).back = b
      /\ RecAt(t, l) # NoRec /\ RecAt(t, b) # NoRec /\ b # NoLoc
      /\ RecAt(t, b) \in Record /\ "CHAIN" \notin RecAt(t, l).flags
      /\ "DELETED" \in RecAt(t, l).flags => RecAt(t, b).key \notin LiveKeys(t)
  BY RecAtType, NoLocIsNowhere DEF Undo, IsRec, TypeOK
<1>2. /\ "CHAIN" \in RecAt(t, b).flags /\ RecAt(t, b).key = RecAt(t, l).key
      /\ l # b /\ "DELETED" \notin RecAt(t, b).flags
  BY <1>1 DEF Chains, BackIsOld, OldIsPassed
<1>3. /\ old.key = RecAt(t, b).key /\ old.back = RecAt(t, b).back /\ old \in Record /\ old # NoRec
      /\ {"CHAIN", "DELETED", "DELTA"} \cap old.flags = {} /\ old.reads = old.key
  <2>1. RecAt(t, b).reads = RecAt(t, b).key \/ "DELTA" \in RecAt(t, b).flags
    BY <1>1 DEF Chains, ReadsAsIs
  <2>2. CASE "DELTA" \in RecAt(t, b).flags
    <3>1. old = [RecAt(t, b) EXCEPT !.flags = HeadFlags(w), !.reads = RecAt(t, b).key]
      BY <2>2 DEF Restored
    <3>2. HeadFlags(w) \in SUBSET Flags /\ {"CHAIN", "DELETED", "DELTA"} \cap HeadFlags(w) = {}
      BY HeadFlagsType
    <3> QED
      BY <1>1, <3>1, <3>2, NoRecAssumption DEF Record
  <2>3. CASE "DELTA" \notin RecAt(t, b).flags
    BY <1>1, <1>2, <2>1, <2>3, NoRecAssumption DEF Restored, Record
  <2> QED
    BY <2>2, <2>3
<1>4. /\ RecAt(t, l)' = old /\ RecAt(t, b)' = NoRec
      /\ \A m \in Locs : m \notin {l, b} => RecAt(t, m)' = RecAt(t, m)
  BY <1>1, <1>2, StoreAt DEF TypeOK
<1> HIDE DEF new, old
<1>5. \A m \in LiveLocs(t) : RecAt(t, m).key = RecAt(t, l).key => m = l
  <2>1. CASE "DELETED" \in RecAt(t, l).flags
    BY <1>1, <1>2, <2>1 DEF LiveKeys
  <2>2. CASE "DELETED" \notin RecAt(t, l).flags
    <3>1. l \in LiveLocs(t)
      BY <1>1, <2>2 DEF LiveLocs, IsPrimary
    <3> QED
      BY <3>1 DEF Chains, OnePrimary
  <2> QED
    BY <2>1, <2>2
<1>6. OnePrimary(t)'
  BY <1>1, <1>2, <1>3, <1>4, <1>5 DEF Chains, OnePrimary, LiveLocs, IsPrimary
<1>7. \A m \in Locs : RecAt(t, m) # NoRec /\ RecAt(t, m).back = b => m = l
  BY <1>1 DEF Chains, BackIsOwn
<1>8. \A m \in Locs : RecAt(t, m) # NoRec => RecAt(t, m).back # l
  BY <1>1, NoLocIsNowhere DEF Chains, BackIsOld
<1>9. BackIsOld(t)'
  BY <1>1, <1>2, <1>3, <1>4, <1>7, <1>8 DEF Chains, BackIsOld
<1>10. BackIsOwn(t)'
  BY <1>1, <1>2, <1>3, <1>4, <1>7, <1>8 DEF Chains, BackIsOwn
<1>11. OldIsPassed(t)'
  BY <1>1, <1>3, <1>4 DEF Chains, OldIsPassed, Passed
<1>12. ReadsAsIs(t)'
  BY <1>1, <1>2, <1>3, <1>4, <1>7, <1>8 DEF Chains, BackIsOld, ReadsAsIs
<1> QED
  BY <1>6, <1>9, <1>10, <1>11, <1>12 DEF Chains

\* Garbage collection of the oldest version of a chain.
LEMMA CollectBackChains ==
  ASSUME TypeOK, UNCHANGED file, NEW t \in Tables, Chains(t), NEW l, NEW b, CollectBack(t, l, b)
  PROVE  Chains(t)'
<1> DEFINE cut == [RecAt(t, l) EXCEPT !.back = NoLoc]
           new == [n \in {l, b} |-> IF n = l THEN cut ELSE NoRec]
<1>1. /\ Store(t, new) /\ l \in Locs /\ b \in Locs /\ RecAt(t, l).back = b
      /\ RecAt(t, l) # NoRec /\ RecAt(t, b) # NoRec /\ b # NoLoc /\ l # b
      /\ RecAt(t, l) \in Record
  BY RecAtType, NoLocIsNowhere DEF CollectBack, IsRec, TypeOK
<1>2. /\ cut.key = RecAt(t, l).key /\ cut.flags = RecAt(t, l).flags /\ cut.txn = RecAt(t, l).txn
      /\ cut.reads = RecAt(t, l).reads /\ cut.back = NoLoc /\ cut \in Record /\ cut # NoRec
  BY <1>1, NoRecAssumption DEF Record
<1>3. /\ RecAt(t, l)' = cut /\ RecAt(t, b)' = NoRec
      /\ \A m \in Locs : m \notin {l, b} => RecAt(t, m)' = RecAt(t, m)
  BY <1>1, StoreAt DEF TypeOK
<1> HIDE DEF new, cut
<1>4. \A m \in Locs : RecAt(t, m) # NoRec /\ RecAt(t, m).back = b => m = l
  BY <1>1 DEF Chains, BackIsOwn
<1>5. OnePrimary(t)'
  BY <1>1, <1>2, <1>3 DEF Chains, OnePrimary, LiveLocs, IsPrimary
<1>6. BackIsOld(t)'
  BY <1>1, <1>2, <1>3, <1>4 DEF Chains, BackIsOld
<1>7. BackIsOwn(t)'
  BY <1>1, <1>2, <1>3 DEF Chains, BackIsOwn
<1>8. OldIsPassed(t)'
  BY <1>1, <1>2, <1>3 DEF Chains, OldIsPassed, Passed
<1>9. ReadsAsIs(t)'
  BY <1>1, <1>2, <1>3, <1>4 DEF Chains, BackIsOld, ReadsAsIs
<1> QED
  BY <1>5, <1>6, <1>7, <1>8, <1>9 DEF Chains

\* Garbage collection of a delete stub: no back pointer leads to one.
LEMMA CollectStubChains ==
  ASSUME TypeOK, UNCHANGED file, NEW t \in Tables, Chains(t), NEW l, CollectStub(t, l)
  PROVE  Chains(t)'
<1>1. Store(t, [n \in {l} |-> NoRec]) /\ l \in Locs /\ RecAt(t, l) # NoRec
      /\ "DELETED" \in RecAt(t, l).flags
  BY DEF CollectStub, IsRec
<1>2. RecAt(t, l)' = NoRec /\ \A m \in Locs : m # l => RecAt(t, m)' = RecAt(t, m)
  BY <1>1, StoreAt DEF TypeOK
<1>3. \A m \in Locs : RecAt(t, m) # NoRec => RecAt(t, m).back # l
  BY <1>1, NoLocIsNowhere DEF Chains, BackIsOld, OldIsPassed
<1>4. OnePrimary(t)'
  BY <1>1, <1>2 DEF Chains, OnePrimary, LiveLocs, IsPrimary
<1>5. BackIsOld(t)' /\ BackIsOwn(t)'
  BY <1>1, <1>2, <1>3 DEF Chains, BackIsOld, BackIsOwn
<1>6. OldIsPassed(t)'
  BY <1>1, <1>2 DEF Chains, OldIsPassed, Passed
<1>7. ReadsAsIs(t)'
  BY <1>1, <1>2, <1>3 DEF Chains, BackIsOld, ReadsAsIs
<1> QED
  BY <1>4, <1>5, <1>6, <1>7 DEF Chains

\* A step of Firebird changes the records of one table at most.
LEMMA OneTableChanges ==
  ASSUME FbTypeOK, NEW t \in Tables, NEW new, Store(t, new), NEW u \in Tables \ {t}
  PROVE  \A l \in Locs : RecAt(u, l)' = RecAt(u, l)
BY StoreAt

LEMMA FirebirdChains ==
  ASSUME TypeOK, TypeOK', ChangesOnce, \A t \in Tables : Chains(t), Firebird
  PROVE  \A t \in Tables : Chains(t)'
<1>1. UNCHANGED file /\ FbTypeOK
  BY DEF Firebird, TypeOK
<1>2. \A t \in Tables : Watermark(file', t) >= Watermark(file, t)
  BY <1>1, WatermarkType DEF TypeOK
<1>3. ASSUME NEW t \in Tables, Chains(t)', NEW new, Store(t, new)
      PROVE  \A u \in Tables : Chains(u)'
  <2>1. ASSUME NEW u \in Tables \ {t} PROVE Chains(u)'
    BY <1>1, <1>2, <1>3, <2>1, OneTableChanges, ChainsKept
  <2> QED
    BY <1>3, <2>1
<1>4. ASSUME NEW t \in Tables, NEW l \in Locs, NEW k \in Keys, NEW x, NEW w, Insert(t, l, k, x, w)
      PROVE  \A u \in Tables : Chains(u)'
  <2>1. Chains(t)'
    BY <1>1, <1>4, InsertChains
  <2> QED
    BY <1>3, <1>4, <2>1 DEF Insert
<1>5. ASSUME NEW t \in Tables, NEW l \in LiveLocs(t), NEW b \in Locs, NEW x, NEW w,
             MayRewrite(t, l), Update(t, l, b, x, w)
      PROVE  \A u \in Tables : Chains(u)'
  <2> DEFINE head == NewRecord(HeadFlags(w), x, RecAt(t, l).key, b)
  <2>1. PICK old \in OldVersions(t, l) :
          Store(t, [m \in {l, b} |-> IF m = l THEN head ELSE old])
    BY <1>5 DEF Update
  <2>2. Passed(t, l) /\ RecAt(t, b) = NoRec /\ x \in Nat /\ RecAt(t, l).key \in Keys
    BY <1>1, <1>5, OldVersionType, UsesType DEF ChangesOnce, MayRewrite, Update, FreeLoc, Record
  <2>3. /\ head \in Record /\ head.key = RecAt(t, l).key /\ head.back = b /\ head.reads = head.key
        /\ {"CHAIN", "DELTA", "DELETED"} \cap head.flags = {}
    BY <2>2, NewRecordType, HeadFlagsType
  <2> HIDE DEF head
  <2>4. Chains(t)'
    BY <1>1, <2>1, <2>2, <2>3, ReplaceChains
  <2> QED
    BY <1>3, <2>1, <2>4
<1>6. ASSUME NEW t \in Tables, NEW l \in LiveLocs(t), NEW b \in Locs, NEW x,
             MayRewrite(t, l), Delete(t, l, b, x)
      PROVE  \A u \in Tables : Chains(u)'
  <2> DEFINE head == NewRecord({"DELETED"}, x, RecAt(t, l).key, b)
  <2>1. Store(t, [m \in {l, b} |-> IF m = l THEN head ELSE OldVersion(t, l)])
    BY <1>6 DEF Delete
  <2>2. /\ Passed(t, l) /\ RecAt(t, b) = NoRec /\ x \in Nat /\ RecAt(t, l).key \in Keys
        /\ OldVersion(t, l) \in OldVersions(t, l)
    BY <1>1, <1>6, OldVersionType, UsesType DEF ChangesOnce, MayRewrite, Delete, FreeLoc, Record
  <2>3. /\ head \in Record /\ head.key = RecAt(t, l).key /\ head.back = b /\ head.reads = head.key
        /\ {"CHAIN", "DELTA"} \cap head.flags = {}
    BY <2>2, NewRecordType DEF Flags
  <2> HIDE DEF head
  <2>4. Chains(t)'
    BY <1>1, <2>1, <2>2, <2>3, ReplaceChains
  <2> QED
    BY <1>3, <2>1, <2>4
<1>7. ASSUME NEW t \in Tables, NEW l \in Locs, NEW b \in Locs,
             CollectBack(t, l, b) \/ CollectStub(t, l) \/ \E w \in Widths : Undo(t, l, b, w)
      PROVE  \A u \in Tables : Chains(u)'
  <2>1. Chains(t)'
    BY <1>1, <1>7, CollectBackChains, CollectStubChains, UndoChains
  <2> QED
    BY <1>3, <1>7, <2>1 DEF CollectBack, CollectStub, Undo
<1>8. CASE Begin \/ (\E x : Commit(x)) \/ \E t \in Tables, p \in Pages : Release(t, p)
  <2>1. \A t \in Tables, l \in Locs : RecAt(t, l)' = RecAt(t, l)
    BY <1>8 DEF Begin, Commit, Release, RecAt
  <2> QED
    BY <1>2, <2>1, ChainsKept
<1>9. CASE \E t \in Tables, l \in Locs, x \in begun \cup {nextTxn} :
             \E k \in Keys, w \in Widths : Insert(t, l, k, x, w)
  BY <1>4, <1>9
<1>10. CASE \E t \in Tables, l \in Locs, x \in begun \cup {nextTxn} :
              \E b \in Locs, w \in Widths : l \in LiveLocs(t) /\ MayRewrite(t, l) /\ Update(t, l, b, x, w)
  BY <1>5, <1>10
<1>11. CASE \E t \in Tables, l \in Locs, x \in begun \cup {nextTxn} :
              \E b \in Locs : l \in LiveLocs(t) /\ MayRewrite(t, l) /\ Delete(t, l, b, x)
  BY <1>6, <1>11
<1>12. CASE \E t \in Tables, l \in Locs :
              (\E b \in Locs : CollectBack(t, l, b)) \/ CollectStub(t, l)
  BY <1>7, <1>12
<1>13. CASE \E t \in Tables, l, b \in Locs, w \in Widths : Undo(t, l, b, w)
  BY <1>7, <1>13
<1> QED
  BY <1>8, <1>9, <1>10, <1>11, <1>12, <1>13 DEF Firebird

\* The steps of the loop leave the file alone.
LEMMA LoopLeavesFile == ASSUME [Watch \/ Failure \/ Grow]_vars PROVE UNCHANGED fbVars
<1>1. CASE Start \/ Poll \/ Stop \/ SkipTable \/ OpenFails \/ SyncTable \/ ScanPage
  BY <1>1 DEF Start, Poll, Stop, SkipTable, OpenFails, SyncTable, ScanPage
<1>2. CASE SyncOk \/ SyncRejected \/ SyncFails \/ SyncAckLost
  BY <1>2 DEF SyncOk, SyncRejected, SyncFails, SyncAckLost, SyncErr
<1>3. CASE EndCycle \/ SaveState \/ SaveSnap \/ SaveSnapFails \/ SaveStateFails \/ Crash
  BY <1>3 DEF EndCycle, SaveState, SaveSnap, SaveSnapFails, SaveStateFails, Crash
<1>4. CASE Grow \/ UNCHANGED vars
  BY <1>4 DEF Grow, vars
<1> QED
  BY <1>1, <1>2, <1>3, <1>4 DEF Watch, Failure

LEMMA ChainsNext ==
  ASSUME ChangesOnce, TypeOK, TypeOK', Ahead, \A t \in Tables : Chains(t), [Next]_vars
  PROVE  \A t \in Tables : Chains(t)'
<1>1. CASE Firebird
  BY <1>1, FirebirdChains
<1>2. CASE [Watch \/ Failure \/ Grow]_vars
  <2>1. \A t \in Tables : Watermark(file', t) >= Watermark(file, t)
    BY AheadNext
  <2>2. \A t \in Tables, l \in Locs : RecAt(t, l)' = RecAt(t, l)
    BY <1>2, LoopLeavesFile DEF fbVars, RecAt
  <2> QED
    BY <2>1, <2>2, ChainsKept
<1> QED
  BY <1>1, <1>2 DEF Next

-----------------------------------------------------------------------------
(***************************************************************************)
(* The scan.                                                               *)
(***************************************************************************)
\* A page yields primary versions only: an old version is behind the watermark.
LEMMA PageUpsLive ==
  ASSUME TypeOK, Ahead, \A t \in Tables : Chains(t), pc = "scan", NEW p \in Pages,
         NEW known, NEW first,
         NEW u \in PageUpserts(TableOrder[turn], p, known, first, scan.lastTxn)
  PROVE  /\ u.loc \in LiveLocs(TableOrder[turn])
         /\ u.key = RecAt(TableOrder[turn], u.loc).key
         /\ u.txn = RecAt(TableOrder[turn], u.loc).txn
<1> DEFINE t == TableOrder[turn]
<1>1. t \in Tables
  BY TurnType DEF TypeOK
<1>2. /\ scan.lastTxn = Watermark(mem, t) /\ Watermark(mem, t) >= Watermark(file, t)
      /\ Watermark(mem, t) \in Nat /\ Watermark(file, t) \in Nat
  BY <1>1, WatermarkType DEF Ahead, ScanAhead, MemoryAhead, TypeOK
<1> HIDE DEF t
<1>3. PICK s \in Slots : /\ disk[t][p].slots[s] # NoRec
                         /\ "DELETED" \notin disk[t][p].slots[s].flags
                         /\ disk[t][p].slots[s].txn > scan.lastTxn
                         /\ u = RowOf(p, s, disk[t][p].slots[s])
  BY DEF PageUpserts, NewRecs, Examined, Used, t
<1>4. u.loc = <<p, s>> /\ u.loc \in Locs /\ RecAt(t, u.loc) = disk[t][p].slots[s]
  BY <1>3 DEF Locs, RecAt, RowOf
<1>5. RecAt(t, u.loc).txn \in Nat
  BY <1>1, <1>3, <1>4, RecAtType DEF Record, TypeOK
<1>6. "CHAIN" \notin RecAt(t, u.loc).flags
  BY <1>1, <1>2, <1>3, <1>4, <1>5 DEF Chains, OldIsPassed, Passed
<1>7. "DELTA" \notin RecAt(t, u.loc).flags /\ RecAt(t, u.loc).reads = RecAt(t, u.loc).key
  BY <1>1, <1>3, <1>4, <1>6 DEF Chains, ReadsAsIs
<1>8. u.key = RecAt(t, u.loc).key /\ u.txn = RecAt(t, u.loc).txn
  BY <1>3, <1>4, <1>7 DEF RowOf
<1>9. u.loc \in LiveLocs(t)
  BY <1>3, <1>4, <1>6 DEF LiveLocs, IsPrimary
<1> QED
  BY <1>8, <1>9 DEF t

LEMMA ScanPageUps ==
  ASSUME TypeOK, Ahead, DeltaInv, ScanPage
  PROVE  UpsOnDisk'
<1> DEFINE t == TableOrder[turn]
           known == mem.gens[t]
           first == t \in FixedPk /\ Kept(cache[t].prev) = {}
<1>1. t \in Tables /\ UNCHANGED <<fbVars, pc, turn>> /\ pc = "scan" /\ scan \in Scans
  BY TurnType DEF ScanPage, TypeOK
<1>2. PICK p \in scan.todo :
        scan'.ups = scan.ups \cup PageUpserts(t, p, known, first, scan.lastTxn)
  BY <1>1 DEF ScanPage, Scans
<1>3. p \in Pages
  BY <1>1 DEF Scans
<1> HIDE DEF known, first
<1>5. ASSUME NEW u \in PageUpserts(t, p, known, first, scan.lastTxn)
      PROVE  u.loc \in LiveLocs(t) /\ u.key = RecAt(t, u.loc).key /\ u.txn = RecAt(t, u.loc).txn
  BY <1>1, <1>3, <1>5, PageUpsLive DEF DeltaInv
<1>6. \A l \in Locs : RecAt(t, l)' = RecAt(t, l)
  BY <1>1 DEF fbVars, RecAt
<1>7. LiveLocs(t)' = LiveLocs(t) /\ TableOrder[turn'] = t /\ LiveLocs(t) \subseteq Locs
  BY <1>1, <1>6 DEF LiveLocs
<1> QED
  BY <1>1, <1>2, <1>5, <1>6, <1>7 DEF UpsOnDisk, DeltaInv

\* A step that leaves the disk alone and ends the scan or touches none.
LEMMA UpsKept ==
  ASSUME UpsOnDisk, UNCHANGED fbVars,
         \/ UNCHANGED <<pc, turn, scan>>
         \/ scan'.ups = {}
         \/ pc # "scan" /\ pc' # "scan" /\ UNCHANGED scan
  PROVE  UpsOnDisk'
<1>1. CASE UNCHANGED <<pc, turn, scan>>
  <2>1. TableOrder[turn'] = TableOrder[turn]
    BY <1>1
  <2>2. \A t, l : RecAt(t, l)' = RecAt(t, l)
    BY DEF fbVars, RecAt
  <2>3. \A t : LiveLocs(t)' = LiveLocs(t)
    BY <2>2 DEF LiveLocs
  <2> QED
    BY <1>1, <2>1, <2>2, <2>3 DEF UpsOnDisk
<1>2. CASE scan'.ups = {}
  BY <1>2 DEF UpsOnDisk
<1>3. CASE pc # "scan" /\ pc' # "scan" /\ UNCHANGED scan
  BY <1>3 DEF UpsOnDisk
<1> QED
  BY <1>1, <1>2, <1>3

\* The steps of the loop keep what is gathered.
LEMMA LoopKeepsUps ==
  ASSUME TypeOK, Ahead, DeltaInv, [Watch \/ Failure \/ Grow]_vars
  PROVE  UpsOnDisk'
<1>1. NoScan.ups = {} /\ UpsOnDisk
  BY DEF NoScan, DeltaInv
<1>2. CASE ScanPage
  BY <1>2, ScanPageUps DEF ScanPage
<1>3. CASE Start \/ Poll \/ Stop \/ SkipTable \/ OpenFails
  BY <1>1, <1>3, UpsKept DEF Start, Poll, Stop, SkipTable, OpenFails
<1>4. CASE SyncTable
  <2>1. UNCHANGED fbVars /\ pc = "table"
    BY <1>4 DEF SyncTable
  <2>2. CASE ppGen[TableOrder[turn]] = 0
    BY <1>1, <1>4, <2>1, <2>2, UpsKept DEF SyncTable
  <2>3. CASE ppGen[TableOrder[turn]] # 0
    <3>1. scan'.ups = {}
      BY <1>4, <2>3 DEF SyncTable, NoScan
    <3> QED
      BY <1>1, <2>1, <3>1, UpsKept
  <2> QED
    BY <2>2, <2>3
<1>5. CASE SyncOk \/ SyncRejected \/ SyncFails \/ SyncAckLost
  BY <1>1, <1>5, UpsKept DEF SyncOk, SyncRejected, SyncFails, SyncAckLost, SyncErr
<1>6. CASE EndCycle \/ SaveState
  BY <1>1, <1>6, UpsKept DEF EndCycle, SaveState, loopVars
<1>7. CASE SaveSnap \/ SaveSnapFails \/ SaveStateFails \/ Crash
  BY <1>1, <1>7, UpsKept DEF SaveSnap, SaveSnapFails, SaveStateFails, Crash, AfterSave, Die, loopVars
<1>8. CASE Grow \/ UNCHANGED vars
  BY <1>1, <1>8, UpsKept DEF Grow, vars, loopVars
<1> QED
  BY <1>2, <1>3, <1>4, <1>5, <1>6, <1>7, <1>8 DEF Watch, Failure

LEMMA DeltaNext ==
  ASSUME CalmWrites, TypeOK, TypeOK', Ahead, DeltaInv, [Next]_vars
  PROVE  DeltaInv'
<1>1. \A t \in Tables : Chains(t)'
  BY ChainsNext DEF CalmWrites, DeltaInv
<1>2. CASE Firebird
  <2>1. pc # "scan" /\ UNCHANGED <<pc, scan>>
    BY <1>2 DEF Firebird, MayWrite, CalmWrites, loopVars
  <2>2. UpsOnDisk'
    BY <2>1 DEF DeltaInv, UpsOnDisk
  <2> QED
    BY <1>1, <2>2 DEF DeltaInv
<1>3. CASE [Watch \/ Failure \/ Grow]_vars
  BY <1>1, <1>3, LoopKeepsUps DEF DeltaInv
<1> QED
  BY <1>2, <1>3 DEF Next

\* Two upserts of one key would be two primary versions of one row.
LEMMA NoConflict == ASSUME TypeOK, DeltaInv PROVE NoDoubleKey
<1> SUFFICES ASSUME NEW u \in scan.ups, NEW v \in scan.ups, u.key = v.key
             PROVE  u = v
  BY DEF NoDoubleKey, Conflicting
<1> DEFINE t == TableOrder[turn]
<1>1. pc = "scan" /\ t \in Tables /\ scan.ups \subseteq Upsert
  BY TurnType DEF DeltaInv, UpsOnDisk, TypeOK, Scans
<1>2. u.loc \in LiveLocs(t) /\ v.loc \in LiveLocs(t)
      /\ u.key = RecAt(t, u.loc).key /\ u.txn = RecAt(t, u.loc).txn
      /\ v.key = RecAt(t, v.loc).key /\ v.txn = RecAt(t, v.loc).txn
  BY <1>1 DEF DeltaInv, UpsOnDisk
<1>3. u.loc = v.loc
  BY <1>1, <1>2 DEF DeltaInv, Chains, OnePrimary
<1> HIDE DEF t
<1>4. u.txn = v.txn
  BY <1>2, <1>3
<1> QED
  BY <1>1, <1>3, <1>4 DEF Upsert

\* PostgreSQL never refuses a delta because it has two versions of one row
\* (ON CONFLICT DO UPDATE in merge.rs), whatever rollbacks, slow transactions,
\* early garbage collection and failures there are: sync_table reads old
\* versions as rows, and only the watermark keeps them out.
THEOREM DeltaNamesRowsOnce == CalmWrites => (Spec => []NoDoubleKey)
<1> SUFFICES ASSUME CalmWrites PROVE Spec => []NoDoubleKey
  OBVIOUS
<1> DEFINE Inv == TypeOK /\ Ahead /\ DeltaInv
<1>1. Init => Inv
  BY InitType, AheadInit, DeltaInit
<1>2. Inv /\ [Next]_vars => Inv'
  BY NextType, AheadNext, DeltaNext
<1>3. Inv => NoDoubleKey
  BY NoConflict
<1> QED
  BY <1>1, <1>2, <1>3, PTL DEF Spec

-----------------------------------------------------------------------------
(***************************************************************************)
(* Nothing invented: the rows on the pages, in the delta being collected   *)
(* and in the replica are all versions Firebird wrote, even when Firebird  *)
(* writes between the reads of two pages.                                  *)
(***************************************************************************)
DiskWritten ==
  \A t \in Tables, l \in Locs :
     RecAt(t, l) # NoRec /\ "DELETED" \notin RecAt(t, l).flags
       => <<t, RecAt(t, l).key, RecAt(t, l).txn>> \in written
ScanWritten ==
  pc = "scan" => \A u \in scan.ups : <<TableOrder[turn], u.key, u.txn>> \in written
AllWritten == DiskWritten /\ ScanWritten /\ NoInventedRow

LEMMA WrittenInit == Init => AllWritten
BY DEF Init, FbInit, AllWritten, DiskWritten, ScanWritten, NoInventedRow, RecAt, Locs, NoRow

LEMMA InsertWritten ==
  ASSUME FbTypeOK, DiskWritten, NEW t \in Tables, NEW l, NEW k, NEW x, NEW w,
         Insert(t, l, k, x, w)
  PROVE  DiskWritten' /\ written \subseteq written'
<1> DEFINE new == [m \in {l} |-> NewRecord(HeadFlags(w), x, k, NoLoc)]
<1>1. Store(t, new) /\ written' = written \cup {<<t, k, x>>}
  BY DEF Insert
<1>2. new[l].key = k /\ new[l].txn = x /\ DOMAIN new = {l}
  BY DEF NewRecord
<1> HIDE DEF new
<1>3. ASSUME NEW u \in Tables, NEW m \in Locs,
             RecAt(u, m)' # NoRec, "DELETED" \notin RecAt(u, m)'.flags
      PROVE  <<u, RecAt(u, m)'.key, RecAt(u, m)'.txn>> \in written'
  <2>1. RecAt(u, m)' = IF u = t /\ m \in DOMAIN new THEN new[m] ELSE RecAt(u, m)
    BY <1>1, StoreAt
  <2> QED
    BY <1>1, <1>2, <1>3, <2>1 DEF DiskWritten
<1> QED
  BY <1>1, <1>3 DEF DiskWritten

\* An UPDATE or DELETE: what is kept of the old version is a row that was there.
LEMMA ReplaceWritten ==
  ASSUME FbTypeOK, DiskWritten, NEW t \in Tables, NEW l \in LiveLocs(t), NEW b,
         NEW head, NEW old \in OldVersions(t, l),
         Store(t, [m \in {l, b} |-> IF m = l THEN head ELSE old]),
         written \subseteq written',
         "DELETED" \notin head.flags => <<t, head.key, head.txn>> \in written'
  PROVE  DiskWritten'
<1> DEFINE new == [m \in {l, b} |-> IF m = l THEN head ELSE old]
<1>1. /\ old.key = RecAt(t, l).key /\ old.txn = RecAt(t, l).txn
      /\ <<t, RecAt(t, l).key, RecAt(t, l).txn>> \in written
  <2>1. l \in Locs /\ RecAt(t, l) # NoRec /\ "DELETED" \notin RecAt(t, l).flags
    BY DEF LiveLocs, IsPrimary
  <2> QED
    BY <2>1, OldVersionKeeps DEF DiskWritten
<1>2. Store(t, new) /\ DOMAIN new = {l, b} /\ new[l] = head /\ (b # l => new[b] = old)
  OBVIOUS
<1> HIDE DEF new
<1>3. ASSUME NEW u \in Tables, NEW m \in Locs,
             RecAt(u, m)' # NoRec, "DELETED" \notin RecAt(u, m)'.flags
      PROVE  <<u, RecAt(u, m)'.key, RecAt(u, m)'.txn>> \in written'
  <2>1. RecAt(u, m)' = IF u = t /\ m \in DOMAIN new THEN new[m] ELSE RecAt(u, m)
    BY <1>2, StoreAt
  <2>2. CASE u = t /\ m \in {l, b}
    BY <1>1, <1>2, <1>3, <2>1, <2>2
  <2>3. CASE ~(u = t /\ m \in {l, b})
    BY <1>2, <1>3, <2>1, <2>3 DEF DiskWritten
  <2> QED
    BY <2>2, <2>3
<1> QED
  BY <1>3 DEF DiskWritten

LEMMA UpdateWritten ==
  ASSUME FbTypeOK, DiskWritten, NEW t \in Tables, NEW l, NEW b, NEW x, NEW w,
         Update(t, l, b, x, w)
  PROVE  DiskWritten' /\ written \subseteq written'
<1> DEFINE head == NewRecord(HeadFlags(w), x, RecAt(t, l).key, b)
<1>1. PICK old \in OldVersions(t, l) :
        Store(t, [m \in {l, b} |-> IF m = l THEN head ELSE old])
  BY DEF Update
<1>2. written' = written \cup {<<t, RecAt(t, l).key, x>>} /\ l \in LiveLocs(t)
  BY DEF Update
<1>3. <<t, head.key, head.txn>> \in written' /\ written \subseteq written'
  BY <1>2 DEF NewRecord
<1> HIDE DEF head
<1> QED
  BY <1>1, <1>2, <1>3, ReplaceWritten

LEMMA DeleteWritten ==
  ASSUME FbTypeOK, DiskWritten, NEW t \in Tables, NEW l, NEW b, NEW x, Delete(t, l, b, x)
  PROVE  DiskWritten' /\ written \subseteq written'
<1> DEFINE head == NewRecord({"DELETED"}, x, RecAt(t, l).key, b)
<1>1. /\ Store(t, [m \in {l, b} |-> IF m = l THEN head ELSE OldVersion(t, l)])
      /\ written' = written /\ l \in LiveLocs(t)
  BY DEF Delete
<1>2. "DELETED" \in head.flags
  BY DEF NewRecord
<1>3. OldVersion(t, l) \in OldVersions(t, l)
  BY DEF OldVersions
<1> HIDE DEF head
<1> QED
  BY <1>1, <1>2, <1>3, ReplaceWritten

LEMMA CollectWritten ==
  ASSUME FbTypeOK, DiskWritten, NEW t \in Tables, NEW l, NEW b,
         CollectBack(t, l, b) \/ CollectStub(t, l)
  PROVE  DiskWritten' /\ written \subseteq written'
<1>1. written' = written
  BY DEF CollectBack, CollectStub
<1>2. l \in Locs /\ RecAt(t, l) # NoRec /\ RecAt(t, l) \in Record
  BY RecAtType DEF CollectBack, CollectStub, IsRec
<1> DEFINE cut == [RecAt(t, l) EXCEPT !.back = NoLoc]
<1>3. cut.key = RecAt(t, l).key /\ cut.txn = RecAt(t, l).txn /\ cut.flags = RecAt(t, l).flags
  BY <1>2 DEF Record
<1> HIDE DEF cut
<1>4. ASSUME NEW u \in Tables, NEW m \in Locs
      PROVE  \/ RecAt(u, m)' = RecAt(u, m)
             \/ RecAt(u, m)' = NoRec
             \/ u = t /\ m = l /\ RecAt(u, m)' = cut
  <2>1. CASE CollectBack(t, l, b)
    <3> DEFINE new == [n \in {l, b} |-> IF n = l THEN cut ELSE NoRec]
    <3>1. Store(t, new)
      BY <2>1 DEF CollectBack, cut
    <3>2. RecAt(u, m)' = IF u = t /\ m \in DOMAIN new THEN new[m] ELSE RecAt(u, m)
      BY <3>1, StoreAt
    <3> QED
      BY <3>2
  <2>2. CASE CollectStub(t, l)
    <3> DEFINE new == [n \in {l} |-> NoRec]
    <3>1. Store(t, new)
      BY <2>2 DEF CollectStub
    <3>2. RecAt(u, m)' = IF u = t /\ m \in DOMAIN new THEN new[m] ELSE RecAt(u, m)
      BY <3>1, StoreAt
    <3> QED
      BY <3>2
  <2> QED
    BY <2>1, <2>2
<1> QED
  BY <1>1, <1>2, <1>3, <1>4 DEF DiskWritten

\* The version that a rollback restores is one that Firebird wrote.
LEMMA UndoWritten ==
  ASSUME FbTypeOK, DiskWritten, NEW t \in Tables, NEW l, NEW b, NEW w, Undo(t, l, b, w),
         "DELTA" \in RecAt(t, b).flags => "DELETED" \notin RecAt(t, b).flags
  PROVE  DiskWritten' /\ written \subseteq written'
<1> DEFINE old == Restored(t, b, w)
           new == [n \in {l, b} |-> IF n = l THEN old ELSE NoRec]
<1>1. written' = written /\ Store(t, new)
  BY DEF Undo
<1>2. b \in Locs /\ RecAt(t, b) # NoRec /\ RecAt(t, b) \in Record
  BY RecAtType DEF Undo, IsRec
<1>3. /\ old.key = RecAt(t, b).key /\ old.txn = RecAt(t, b).txn
      /\ "DELETED" \notin old.flags => "DELETED" \notin RecAt(t, b).flags
  BY <1>2 DEF Restored, Record
<1>4. DOMAIN new = {l, b} /\ new[l] = old /\ (b # l => new[b] = NoRec)
  OBVIOUS
<1> HIDE DEF old, new
<1>5. ASSUME NEW u \in Tables, NEW m \in Locs
      PROVE  \/ RecAt(u, m)' = RecAt(u, m)
             \/ RecAt(u, m)' = NoRec
             \/ u = t /\ RecAt(u, m)' = old
  <2>1. RecAt(u, m)' = IF u = t /\ m \in DOMAIN new THEN new[m] ELSE RecAt(u, m)
    BY <1>1, StoreAt
  <2> QED
    BY <1>4, <2>1
<1> QED
  BY <1>1, <1>2, <1>3, <1>5 DEF DiskWritten

LEMMA FirebirdWritten ==
  ASSUME TypeOK, \A t \in Tables : Chains(t), AllWritten, Firebird
  PROVE  AllWritten'
<1>1. FbTypeOK /\ DiskWritten
  BY DEF TypeOK, AllWritten
<1>2. DiskWritten' /\ written \subseteq written'
  <2>1. CASE Begin \/ (\E x : Commit(x)) \/ \E t \in Tables, p \in Pages : Release(t, p)
    BY <1>1, <2>1 DEF Begin, Commit, Release, DiskWritten, RecAt
  <2>2. CASE \E t \in Tables, l \in Locs, x \in begun \cup {nextTxn} :
               \E k \in Keys, w \in Widths : Insert(t, l, k, x, w)
    BY <1>1, <2>2, InsertWritten
  <2>3. CASE \E t \in Tables, l \in Locs, x \in begun \cup {nextTxn} :
               \E b \in Locs, w \in Widths : Update(t, l, b, x, w)
    BY <1>1, <2>3, UpdateWritten
  <2>4. CASE \E t \in Tables, l \in Locs, x \in begun \cup {nextTxn} :
               \E b \in Locs : Delete(t, l, b, x)
    BY <1>1, <2>4, DeleteWritten
  <2>5. CASE \E t \in Tables, l \in Locs :
               (\E b \in Locs : CollectBack(t, l, b)) \/ CollectStub(t, l)
    BY <1>1, <2>5, CollectWritten
  <2>6. CASE \E t \in Tables, l, b \in Locs, w \in Widths : Undo(t, l, b, w)
    <3>1. PICK t \in Tables, l \in Locs, b \in Locs, w \in Widths : Undo(t, l, b, w)
      BY <2>6
    <3>2. "DELTA" \in RecAt(t, b).flags => "DELETED" \notin RecAt(t, b).flags
      BY <3>1 DEF Undo, IsRec, Chains, ReadsAsIs, OldIsPassed
    <3> QED
      BY <1>1, <3>1, <3>2, UndoWritten
  <2> QED
    BY <2>1, <2>2, <2>3, <2>4, <2>5, <2>6 DEF Firebird
<1>3. UNCHANGED <<pc, scan, turn, pg>>
  BY DEF Firebird, loopVars
<1>4. TableOrder[turn'] = TableOrder[turn]
  BY <1>3
<1> QED
  BY <1>2, <1>3, <1>4 DEF AllWritten, ScanWritten, NoInventedRow

LEMMA ScanPageWritten ==
  ASSUME TypeOK, Ahead, \A t \in Tables : Chains(t), AllWritten, ScanPage
  PROVE  AllWritten'
<1> DEFINE t == TableOrder[turn]
           known == mem.gens[t]
           first == t \in FixedPk /\ Kept(cache[t].prev) = {}
<1>1. t \in Tables /\ UNCHANGED <<fbVars, pc, turn, pg>> /\ pc = "scan" /\ scan \in Scans
  BY TurnType DEF ScanPage, TypeOK
<1>2. PICK p \in scan.todo :
        scan'.ups = scan.ups \cup PageUpserts(t, p, known, first, scan.lastTxn)
  BY <1>1 DEF ScanPage, Scans
<1>3. p \in Pages
  BY <1>1 DEF Scans
<1> HIDE DEF known, first
<1>4. ASSUME NEW u \in PageUpserts(t, p, known, first, scan.lastTxn)
      PROVE  <<t, u.key, u.txn>> \in written
  <2>1. u.loc \in LiveLocs(t) /\ u.key = RecAt(t, u.loc).key /\ u.txn = RecAt(t, u.loc).txn
    BY <1>1, <1>3, <1>4, PageUpsLive
  <2>2. u.loc \in Locs /\ RecAt(t, u.loc) # NoRec /\ "DELETED" \notin RecAt(t, u.loc).flags
    BY <2>1 DEF LiveLocs, IsPrimary
  <2> QED
    BY <1>1, <2>1, <2>2 DEF AllWritten, DiskWritten
<1>5. written' = written /\ TableOrder[turn'] = t
  BY <1>1 DEF fbVars
<1>6. ScanWritten'
  BY <1>1, <1>2, <1>4, <1>5 DEF AllWritten, ScanWritten
<1> QED
  BY <1>1, <1>6 DEF AllWritten, DiskWritten, NoInventedRow, RecAt, fbVars

\* Applying the delta leaves rows of the delta and rows that were there.
LEMMA ApplyWritten ==
  ASSUME TypeOK, AllWritten, ScanDone, SyncOk \/ SyncAckLost
  PROVE  AllWritten'
<1> DEFINE t == TableOrder[turn]
<1>1. t \in Tables /\ pc' = "table" /\ UNCHANGED fbVars
  BY TurnType DEF ScanDone, SyncOk, SyncAckLost, SyncErr, TypeOK
<1>2. pg' = [pg EXCEPT ![t] = Merged(pg[t])] /\ pg \in [Tables -> [Keys -> Nat]]
  BY DEF SyncOk, SyncAckLost, TypeOK
<1>3. ASSUME NEW k \in Keys, Merged(pg[t])[k] # NoRow
      PROVE  <<t, k, Merged(pg[t])[k]>> \in written
  <2>1. CASE \E u \in scan.ups : u.key = k
    <3>1. PICK v \in scan.ups : v.key = k /\ Merged(pg[t])[k] = v.txn
      BY <2>1 DEF Merged
    <3> QED
      BY <3>1 DEF AllWritten, ScanWritten, ScanDone
  <2>2. CASE ~\E u \in scan.ups : u.key = k
    <3>1. Merged(pg[t])[k] = pg[t][k]
      BY <1>3, <2>2 DEF Merged
    <3> QED
      BY <1>1, <1>3, <3>1 DEF AllWritten, NoInventedRow
  <2> QED
    BY <2>1, <2>2
<1> HIDE DEF t
<1>4. NoInventedRow'
  <2>1. ASSUME NEW u \in Tables, NEW k \in Keys, pg'[u][k] # NoRow
        PROVE  <<u, k, pg'[u][k]>> \in written'
    <3>1. CASE u = t
      BY <1>1, <1>2, <1>3, <2>1, <3>1 DEF fbVars
    <3>2. CASE u # t
      BY <1>1, <1>2, <2>1, <3>2 DEF fbVars, AllWritten, NoInventedRow
    <3> QED
      BY <3>1, <3>2
  <2> QED
    BY <2>1 DEF NoInventedRow
<1> QED
  BY <1>1, <1>4 DEF AllWritten, DiskWritten, ScanWritten, RecAt, fbVars

\* Every other step leaves the disk and the replica alone, and a scan that it
\* starts is empty.
LEMMA OtherWritten ==
  ASSUME TypeOK, AllWritten, UNCHANGED <<fbVars, pg>>,
         \/ pc' # "scan"
         \/ UNCHANGED <<pc, scan, turn>>
         \/ scan'.ups = {}
  PROVE  AllWritten'
<1>1. DiskWritten' /\ NoInventedRow'
  BY DEF AllWritten, DiskWritten, NoInventedRow, RecAt, fbVars
<1>2. ScanWritten'
  <2>1. CASE UNCHANGED <<pc, scan, turn>>
    <3>1. TableOrder[turn'] = TableOrder[turn]
      BY <2>1
    <3> QED
      BY <2>1, <3>1 DEF AllWritten, ScanWritten, fbVars
  <2>2. CASE pc' # "scan" \/ scan'.ups = {}
    BY <2>2 DEF ScanWritten
  <2> QED
    BY <2>1, <2>2
<1> QED
  BY <1>1, <1>2 DEF AllWritten

LEMMA WrittenNext ==
  ASSUME TypeOK, Ahead, \A t \in Tables : Chains(t), AllWritten, [Next]_vars
  PROVE  AllWritten'
<1>1. CASE SyncOk \/ SyncAckLost
  BY <1>1, ApplyWritten DEF SyncOk, SyncAckLost
<1>2. CASE ScanPage
  BY <1>2, ScanPageWritten
<1>3. CASE Firebird
  BY <1>3, FirebirdWritten
<1>4. CASE Start \/ Poll \/ Stop \/ SkipTable \/ OpenFails
  BY <1>4, OtherWritten DEF Start, Poll, Stop, SkipTable, OpenFails
<1>5. CASE SyncTable
  <2>1. UNCHANGED <<fbVars, pg>> /\ pc = "table"
    BY <1>5 DEF SyncTable
  <2>2. pc' # "scan" \/ scan'.ups = {}
    BY <1>5, <2>1 DEF SyncTable, NoScan
  <2> QED
    BY <2>1, <2>2, OtherWritten
<1>6. CASE SyncRejected \/ SyncFails
  BY <1>6, OtherWritten DEF SyncRejected, SyncFails, SyncErr
<1>7. CASE EndCycle \/ SaveState
  BY <1>7, OtherWritten DEF EndCycle, SaveState
<1>8. CASE SaveSnap \/ SaveSnapFails \/ SaveStateFails \/ Crash
  BY <1>8, OtherWritten DEF SaveSnap, SaveSnapFails, SaveStateFails, Crash, AfterSave, Die
<1>9. CASE Grow \/ UNCHANGED vars
  BY <1>9, OtherWritten DEF Grow, vars, loopVars
<1> QED
  BY <1>1, <1>2, <1>3, <1>4, <1>5, <1>6, <1>7, <1>8, <1>9 DEF Next, Watch, Failure

\* When a row changes only once between two polls, a row of the replica is a
\* version that Firebird wrote for that key, in whatever order Firebird writes,
\* collects and reuses slots, even between the reads of two pages, and whatever
\* fails: sync_table unpacks every old version as a row, a difference too, and
\* only the watermark keeps them out of the delta.
THEOREM ReplicaRowsWereWritten == ChangesOnce => (Spec => []NoInventedRow)
<1> SUFFICES ASSUME ChangesOnce PROVE Spec => []NoInventedRow
  OBVIOUS
<1> DEFINE Inv == TypeOK /\ Ahead /\ (\A t \in Tables : Chains(t)) /\ AllWritten
<1>1. Init => Inv
  BY InitType, AheadInit, ChainsInit, WrittenInit
<1>2. Inv /\ [Next]_vars => Inv'
  <2> SUFFICES ASSUME Inv, [Next]_vars PROVE Inv'
    OBVIOUS
  <2>1. TypeOK' /\ Ahead'
    BY NextType, AheadNext
  <2> QED
    BY <2>1, ChainsNext, WrittenNext
<1>3. Inv => NoInventedRow
  BY DEF AllWritten
<1> QED
  BY <1>1, <1>2, <1>3, PTL DEF Spec

==============================================================================
