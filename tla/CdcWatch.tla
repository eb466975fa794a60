------------------------------ MODULE CdcWatch ------------------------------
(***************************************************************************)
(* run_watch and sync_table (cdc.rs): the loop that polls a live Firebird  *)
(* file, scans each table for changes, applies the delta to the replica    *)
(* through a DeltaSink and persists its watermarks, with the Firebird      *)
(* server writing, the sink failing and the process stopping or crashing.  *)
(*                                                                         *)
(* Env names the behaviours of the surroundings a run allows; a run with   *)
(* Env = {} is the environment the loop needs to be right.  See README.    *)
(***************************************************************************)
EXTENDS CdcScan, Sequences

CONSTANTS
  TableOrder,   \* the tables of the command line, in order
  Keyed,        \* tables with a primary key: the others are skipped
  Env,          \* behaviours of the surroundings: a subset of Behaviours
  MaxFaults     \* bound: failures, crashes and stops of one behaviour

Behaviours == {
  "rewrite",      \* a row changes again before the watermark has passed its last change
  "earlyGc",      \* a delete stub is collected before the watermark has passed it
  "duringCycle",  \* Firebird writes between the scans of two tables
  "duringScan",   \* Firebird writes between the reads of two pages
  "slowTxn",      \* a transaction writes after a later one has, or after the watermark
                  \* has reached its number
  "rollback",     \* an UPDATE or DELETE is rolled back after it was written
  "wide",         \* a row does not fit a page and is stored in fragments
  "release",      \* an empty data page is given back
  "grow",         \* the file grows
  "sinkFails",    \* the sink returns an error and nothing was applied
  "ackLost",      \* the sink returns an error and the delta was applied
  "readFails",    \* the catalog cannot be read when the cache is built
  "saveFails",    \* the state file cannot be written
  "snapFails",    \* the snapshot file cannot be written
  "stop",         \* Ctrl-C
  "crash",        \* the process dies at any step but between the two saves
  "crashMidSave", \* the process dies between the two saves
  "whileDown" }   \* Firebird writes while the process is down

ASSUME CdcWatchAssumption ==
  /\ TableOrder \in Seq(Tables)
  /\ \A i, j \in DOMAIN TableOrder : TableOrder[i] = TableOrder[j] => i = j
  /\ Keyed \subseteq Tables
  /\ Env \subseteq Behaviours
  /\ MaxFaults \in Nat

VARIABLES
  pc,         \* where run_watch is
  mem,        \* CdcState in memory: lastTxn, tableTxn, gens
  file,       \* CdcState in the state file
  cache,      \* table_caches
  pending,    \* pending_snapshots: read at start, not yet handed to a cache
  snap,       \* the snapshot file
  lastHdr,    \* last_hdr_gen; 0 = None
  mapped,     \* the mapping has the file's size
  turn,       \* index of the table being synchronised
  cycle,      \* of this cycle: newMax, changes (total_ups, total_del), dirty
  scan,       \* the scan of the current table
  exiting,    \* the stop flag was seen
  pg,         \* the replica: pg[t][k] is the version of row k, or NoRow
  faults      \* failures so far

loopVars == <<lastHdr, mapped, turn, cycle, scan, exiting>>
vars == <<fbVars, pc, mem, file, cache, pending, snap, loopVars, pg, faults>>

\* No transaction has number 0: the replica has no such row.
NoRow == 0

States == [lastTxn : Nat, tableTxn : [Tables -> Nat], gens : [Tables -> [Pages -> Nat]]]
Caches == [on : BOOLEAN, ppGen : Nat, pages : SUBSET Pages, prev : Snapshot]
Cycles == [newMax : Nat, changes : BOOLEAN, dirty : BOOLEAN]
Upsert == [loc : Locs, key : Keys, txn : Nat]
Scans  == [lastTxn : Nat, maxTxn : Nat, todo : SUBSET Pages, refreshed : BOOLEAN,
           ups : SUBSET Upsert, dels : SUBSET Keys,
           newGens : [Pages -> Nat], newPks : Snapshot]
PCs == {"down", "idle", "table", "scan", "saveState", "saveSnap"}

FreshState == [lastTxn |-> 0, tableTxn |-> [t \in Tables |-> 0],
               gens |-> [t \in Tables |-> [p \in Pages |-> 0]]]
NoCache    == [on |-> FALSE, ppGen |-> 0, pages |-> {}, prev |-> EmptySnapshot]
NoCycle    == [newMax |-> 0, changes |-> FALSE, dirty |-> FALSE]
NoScan     == [lastTxn |-> 0, maxTxn |-> 0, todo |-> {}, refreshed |-> FALSE,
               ups |-> {}, dels |-> {}, newGens |-> [p \in Pages |-> 0],
               newPks |-> EmptySnapshot]

TypeOK ==
  /\ FbTypeOK
  /\ pc \in PCs
  /\ mem \in States
  /\ file \in States
  /\ cache \in [Tables -> Caches]
  /\ pending \in [Tables -> Snapshot]
  /\ snap \in [Tables -> Snapshot]
  /\ lastHdr \in Nat
  /\ mapped \in BOOLEAN
  /\ turn \in 1..(Len(TableOrder) + 1)
  /\ cycle \in Cycles
  /\ scan \in Scans
  /\ exiting \in BOOLEAN
  /\ pg \in [Tables -> [Keys -> Nat]]
  /\ faults \in 0..MaxFaults
  /\ pc = "scan" => turn \in DOMAIN TableOrder

Init ==
  /\ FbInit
  /\ pc = "down"
  /\ mem = FreshState
  /\ file = FreshState
  /\ cache = [t \in Tables |-> NoCache]
  /\ pending = [t \in Tables |-> EmptySnapshot]
  /\ snap = [t \in Tables |-> EmptySnapshot]
  /\ lastHdr = 0
  /\ mapped = TRUE
  /\ turn = 1
  /\ cycle = NoCycle
  /\ scan = NoScan
  /\ exiting = FALSE
  /\ pg = [t \in Tables |-> [k \in Keys |-> NoRow]]
  /\ faults = 0

Max2(a, b) == IF a >= b THEN a ELSE b
Watermark(st, t) == Max2(st.tableTxn[t], st.lastTxn)

Fault(f) == f \in Env /\ faults < MaxFaults /\ faults' = faults + 1

-----------------------------------------------------------------------------
(***************************************************************************)
(* The loop of run_watch.                                                  *)
(***************************************************************************)

\* Mutant: the header generation found at start counts as handled.
StartAtCurrentHeader ==
  /\ pc = "down"
  /\ mem' = file
  /\ pending' = snap
  /\ mapped' = TRUE
  /\ lastHdr' = hdrGen
  /\ pc' = "idle"
  /\ UNCHANGED <<fbVars, file, cache, snap, turn, cycle, scan, exiting, pg, faults>>

\* Mutant: the state file is not read.
StartAfresh ==
  /\ pc = "down"
  /\ pending' = snap
  /\ mapped' = TRUE
  /\ pc' = "idle"
  /\ UNCHANGED <<fbVars, mem, file, cache, snap, lastHdr, turn, cycle, scan, exiting, pg, faults>>

\* CdcState::load and load_snapshots, the first OdsReader::open.
Start ==
  /\ pc = "down"
  /\ mem' = file
  /\ pending' = snap
  /\ mapped' = TRUE
  /\ pc' = "idle"
  /\ UNCHANGED <<fbVars, file, cache, snap, lastHdr, turn, cycle, scan, exiting, pg, faults>>

\* Mutant: tables are counted from zero.
PollFromZero ==
  /\ pc = "idle"
  /\ lastHdr # hdrGen
  /\ lastHdr' = hdrGen
  /\ pc' = "table"
  /\ turn' = 0
  /\ cycle' = [newMax |-> mem.lastTxn, changes |-> FALSE, dirty |-> FALSE]
  /\ UNCHANGED <<fbVars, mem, file, cache, pending, snap, mapped, scan, exiting, pg, faults>>

\* One pass over the top of the loop; nothing happens when neither the size
\* of the file nor the header generation has moved.
Poll ==
  /\ pc = "idle"
  /\ ~mapped \/ lastHdr # hdrGen
  /\ mapped' = TRUE
  /\ cache' = IF mapped THEN cache ELSE [t \in Tables |-> NoCache]
  /\ lastHdr' = hdrGen
  /\ IF lastHdr # hdrGen
     THEN /\ pc' = "table"
          /\ turn' = 1
          /\ cycle' = [newMax |-> mem.lastTxn, changes |-> FALSE, dirty |-> FALSE]
     ELSE UNCHANGED <<pc, turn, cycle>>
  /\ UNCHANGED <<fbVars, mem, file, pending, snap, scan, exiting, pg, faults>>

\* The stop flag is seen at the top of the loop.
Stop ==
  /\ pc = "idle"
  /\ Fault("stop")
  /\ exiting' = TRUE
  /\ pc' = "saveState"
  /\ UNCHANGED <<fbVars, mem, file, cache, pending, snap, lastHdr, mapped, turn, cycle,
                 scan, pg>>

\* read_primary_key_fields fails: warn and go on with the next table.  It does
\* for a table without a key, and may for a table whose key is not known yet.
SkipTable ==
  /\ pc = "table"
  /\ turn \in DOMAIN TableOrder
  /\ \/ TableOrder[turn] \notin Keyed /\ UNCHANGED faults
     \/ ~cache[TableOrder[turn]].on /\ Fault("readFails")
  /\ turn' = turn + 1
  /\ UNCHANGED <<fbVars, pc, mem, file, cache, pending, snap, lastHdr, mapped, cycle,
                 scan, exiting, pg>>

(***************************************************************************)
(* sync_table, up to the scan.  The snapshot read from disk is handed over *)
(* (and gone from pending) whenever there is no cache, even if building it *)
(* fails.                                                                  *)
(***************************************************************************)
Opened(t) ==
  IF cache[t].on THEN cache[t]
  ELSE [on |-> TRUE, ppGen |-> ppGen[t],
        pages |-> IF ppGen[t] = 0 THEN {} ELSE listed[t],
        prev |-> IF t \in FixedPk THEN pending[t] ELSE EmptySnapshot]

OpenFails ==
  /\ pc = "table"
  /\ turn \in DOMAIN TableOrder
  /\ TableOrder[turn] \in Keyed
  /\ ~cache[TableOrder[turn]].on
  /\ Fault("readFails")
  /\ pending' = [pending EXCEPT ![TableOrder[turn]] = EmptySnapshot]
  /\ turn' = turn + 1
  /\ UNCHANGED <<fbVars, pc, mem, file, cache, snap, lastHdr, mapped, cycle, scan,
                 exiting, pg>>

SyncTable ==
  LET t == TableOrder[turn]
      c == Opened(t)
      lastTxn == Watermark(mem, t)
  IN  /\ pc = "table"
      /\ turn \in DOMAIN TableOrder
      /\ t \in Keyed
      /\ pending' = [pending EXCEPT ![t] = IF cache[t].on THEN @ ELSE EmptySnapshot]
      /\ cache' = [cache EXCEPT ![t] = [c EXCEPT !.ppGen = ppGen[t],
                     !.pages = IF c.ppGen = ppGen[t] THEN @ ELSE listed[t]]]
      /\ IF ppGen[t] = 0
         THEN \* no pointer page yet: return early, nothing scanned
              /\ mem' = [mem EXCEPT !.tableTxn[t] = lastTxn]
              /\ cycle' = [cycle EXCEPT !.newMax = Max2(@, lastTxn)]
              /\ turn' = turn + 1
              /\ UNCHANGED <<pc, scan>>
         ELSE /\ scan' = [NoScan EXCEPT !.lastTxn = lastTxn, !.maxTxn = lastTxn,
                            !.todo = cache'[t].pages, !.refreshed = c.ppGen # ppGen[t]]
              /\ pc' = "scan"
              /\ UNCHANGED <<mem, cycle, turn>>
      /\ UNCHANGED <<fbVars, file, snap, lastHdr, mapped, exiting, pg, faults>>

\* The next data page, in physical order.
ScanPage ==
  LET t == TableOrder[turn]
      known == mem.gens[t]
      first == t \in FixedPk /\ Kept(cache[t].prev) = {}
  IN  /\ pc = "scan"
      /\ \E p \in scan.todo :
         \E m \in PageTxns(t, p, known, first, scan.lastTxn) \cup {scan.maxTxn} :
           /\ \A q \in scan.todo : p <= q
           /\ \A x \in PageTxns(t, p, known, first, scan.lastTxn) \cup {scan.maxTxn} : x <= m
           /\ scan' = [scan EXCEPT
                !.todo = @ \ {p},
                !.ups = @ \cup PageUpserts(t, p, known, first, scan.lastTxn),
                !.dels = @ \cup PageDeletes(t, p, known, first, scan.lastTxn),
                !.maxTxn = m,
                !.newGens[p] = IF PageChanged(t, p, known) THEN disk[t][p].gen ELSE 0,
                !.newPks[p] = IF RebuildsPks(t, p, known, first) THEN PagePks(t, p) ELSE NoPks]
      /\ UNCHANGED <<fbVars, pc, mem, file, cache, pending, snap, lastHdr, mapped, turn,
                     cycle, exiting, pg, faults>>

-----------------------------------------------------------------------------
(***************************************************************************)
(* The delta and the sink.                                                 *)
(***************************************************************************)
\* Mutant: delete stubs are left to the snapshot comparison.
ExpressOnly == ExpressDeletes(cache[TableOrder[turn]].prev, scan.newPks)

DeltaDeletes == scan.dels \cup ExpressDeletes(cache[TableOrder[turn]].prev, scan.newPks)

\* ON CONFLICT DO UPDATE refuses to touch one row twice in one command.  (The DO
\* NOTHING for tables whose columns are all key columns does not refuse it; the
\* rows are equal then, and in the delta twice all the same.)
Conflicting == \E u, v \in scan.ups : u # v /\ u.key = v.key

\* Mutant: INSERT, then DELETE.
MergedDeletesLast(rows) ==
  [k \in Keys |->
     IF k \in DeltaDeletes THEN NoRow
     ELSE IF \E u \in scan.ups : u.key = k THEN (CHOOSE u \in scan.ups : u.key = k).txn
     ELSE rows[k]]

\* merge::apply_delta in its one transaction: DELETE, then INSERT.
Merged(rows) ==
  [k \in Keys |->
     IF \E u \in scan.ups : u.key = k THEN (CHOOSE u \in scan.ups : u.key = k).txn
     ELSE IF k \in DeltaDeletes THEN NoRow
     ELSE rows[k]]

\* Page generations and key snapshots after a successful apply.
Advanced(gens) ==
  [p \in Pages |->
     IF scan.refreshed /\ p \notin cache[TableOrder[turn]].pages THEN 0
     ELSE IF scan.newGens[p] # 0 THEN scan.newGens[p] ELSE gens[p]]

AdvancedPks(prev) ==
  [p \in Pages |->
     IF scan.refreshed /\ p \notin cache[TableOrder[turn]].pages THEN NoPks
     ELSE IF scan.newPks[p] # NoPks THEN scan.newPks[p] ELSE prev[p]]

ScanDone == pc = "scan" /\ scan.todo = {}

\* sync_table returns Ok: the loop takes its statistics into the state.  The
\* sink is called only when there is something to apply.
SyncOk ==
  LET t == TableOrder[turn]
  IN  /\ ScanDone
      /\ ~Conflicting
      /\ pg' = [pg EXCEPT ![t] = Merged(@)]
      /\ mem' = [mem EXCEPT !.gens[t] = Advanced(@), !.tableTxn[t] = scan.maxTxn]
      /\ cache' = [cache EXCEPT ![t].prev = AdvancedPks(@)]
      /\ cycle' = [newMax  |-> Max2(cycle.newMax, scan.maxTxn),
                   changes |-> cycle.changes \/ scan.ups # {} \/ DeltaDeletes # {},
                   dirty   |-> \/ cycle.dirty
                               \/ \E p \in Pages : scan.newGens[p] # 0
                               \/ scan.maxTxn > scan.lastTxn]
      /\ turn' = turn + 1
      /\ scan' = NoScan
      /\ pc' = "table"
      /\ UNCHANGED <<fbVars, file, pending, snap, lastHdr, mapped, exiting, faults>>

\* Mutant: the page generations are merged although nothing was applied.
SyncErrRemembersPages ==
  /\ turn' = turn + 1
  /\ scan' = NoScan
  /\ pc' = "table"
  /\ mem' = [mem EXCEPT !.gens[TableOrder[turn]] = Advanced(@)]
  /\ UNCHANGED <<fbVars, file, cache, pending, snap, lastHdr, mapped, cycle, exiting>>

\* Mutant: the watermark of the table moves although nothing was applied.
SyncErrMovesWatermark ==
  /\ turn' = turn + 1
  /\ scan' = NoScan
  /\ pc' = "table"
  /\ mem' = [mem EXCEPT !.tableTxn[TableOrder[turn]] = scan.maxTxn]
  /\ UNCHANGED <<fbVars, file, cache, pending, snap, lastHdr, mapped, cycle, exiting>>

\* sync_table returns Err: log, reconnect, go on with the next table.
SyncErr ==
  /\ turn' = turn + 1
  /\ scan' = NoScan
  /\ pc' = "table"
  /\ UNCHANGED <<fbVars, mem, file, cache, pending, snap, lastHdr, mapped, cycle, exiting>>

\* A row of nobody's values, which may be such as no column accepts.
Garbled == \E u \in scan.ups : u.txn = Garbage

\* PostgreSQL rejects the delta and the transaction is rolled back.
SyncRejected == ScanDone /\ (Conflicting \/ Garbled) /\ SyncErr /\ UNCHANGED <<pg, faults>>

\* The connection fails before COMMIT.
SyncFails ==
  /\ ScanDone
  /\ scan.ups # {} \/ DeltaDeletes # {}
  /\ SyncErr
  /\ Fault("sinkFails")
  /\ UNCHANGED pg

\* The transaction commits and the answer is lost.
SyncAckLost ==
  /\ ScanDone
  /\ scan.ups # {} \/ DeltaDeletes # {}
  /\ ~Conflicting
  /\ SyncErr
  /\ Fault("ackLost")
  /\ pg' = [pg EXCEPT ![TableOrder[turn]] = Merged(@)]

-----------------------------------------------------------------------------
(***************************************************************************)
(* The end of a cycle, and the two files.                                  *)
(***************************************************************************)
EndCycle ==
  /\ pc = "table"
  /\ turn \notin DOMAIN TableOrder
  /\ mem' = [mem EXCEPT !.lastTxn = IF cycle.changes THEN cycle.newMax ELSE @]
  /\ pc' = IF cycle.dirty \/ cycle.changes THEN "saveState" ELSE "idle"
  /\ turn' = 1
  /\ cycle' = NoCycle
  /\ UNCHANGED <<fbVars, file, cache, pending, snap, lastHdr, mapped, scan, exiting, pg,
                 faults>>

\* CdcState::save, atomic by rename.
SaveState ==
  /\ pc = "saveState"
  /\ file' = mem
  /\ pc' = "saveSnap"
  /\ UNCHANGED <<fbVars, mem, cache, pending, snap, loopVars, pg, faults>>

\* The process holds nothing any more.
Die ==
  /\ pc' = "down"
  /\ mem' = FreshState
  /\ cache' = [t \in Tables |-> NoCache]
  /\ pending' = [t \in Tables |-> EmptySnapshot]
  /\ lastHdr' = 0
  /\ mapped' = TRUE
  /\ turn' = 1
  /\ cycle' = NoCycle
  /\ scan' = NoScan
  /\ exiting' = FALSE

\* An error from save leaves run_watch.
SaveStateFails ==
  /\ pc = "saveState"
  /\ Fault("saveFails")
  /\ Die
  /\ UNCHANGED <<fbVars, file, snap, pg>>

\* After the second save: return when stopping, else sleep.
AfterSave ==
  IF exiting THEN Die
  ELSE /\ pc' = "idle"
       /\ UNCHANGED <<mem, cache, pending, loopVars>>

\* save_snapshots writes the tables that have a cache with a snapshot.
SaveSnap ==
  /\ pc = "saveSnap"
  /\ snap' = [t \in Tables |-> IF t \in FixedPk THEN cache[t].prev ELSE EmptySnapshot]
  /\ AfterSave
  /\ UNCHANGED <<fbVars, file, pg, faults>>

\* Its failure is only a warning.
SaveSnapFails ==
  /\ pc = "saveSnap"
  /\ Fault("snapFails")
  /\ AfterSave
  /\ UNCHANGED <<fbVars, file, snap, pg>>

Crash ==
  /\ pc # "down"
  /\ Fault(IF pc = "saveSnap" THEN "crashMidSave" ELSE "crash")
  /\ Die
  /\ UNCHANGED <<fbVars, file, snap, pg>>

-----------------------------------------------------------------------------
(***************************************************************************)
(* Firebird, as the environment of a run allows it.                        *)
(***************************************************************************)
MayWrite ==
  \/ pc = "idle"
  \/ pc = "down" /\ ("whileDown" \in Env \/ file = FreshState)
  \/ pc = "table" /\ "duringCycle" \in Env
  \/ pc = "scan" /\ "duringScan" \in Env

\* The persisted watermark has passed the version at l.
Passed(t, l) == RecAt(t, l).txn <= Watermark(file, t)

MayRewrite(t, l) == "rewrite" \in Env \/ Passed(t, l)
MayCollect(t, l) == \/ "DELETED" \notin RecAt(t, l).flags
                    \/ "earlyGc" \in Env
                    \/ Passed(t, l)

\* No watermark has reached the transaction x.
Unreached(x) == \A t \in Tables : Watermark(mem, t) < x /\ Watermark(file, t) < x
MayUse(x)    == "slowTxn" \in Env \/ Unreached(x)

Widths == IF "wide" \in Env THEN BOOLEAN ELSE {FALSE}

Firebird ==
  /\ MayWrite
  /\ \/ "slowTxn" \in Env /\ Begin
     \/ \E x \in begun \cup {nextTxn} : Commit(x)
     \/ \E t \in Tables, l \in Locs, x \in {y \in begun \cup {nextTxn} : MayUse(y)} :
          \/ \E k \in Keys, w \in Widths : Insert(t, l, k, x, w)
          \/ \E b \in Locs, w \in Widths :
               l \in LiveLocs(t) /\ MayRewrite(t, l) /\ Update(t, l, b, x, w)
          \/ \E b \in Locs :
               l \in LiveLocs(t) /\ MayRewrite(t, l) /\ Delete(t, l, b, x)
     \/ \E t \in Tables, l \in Locs :
          \/ \E b \in Locs : IsRec(t, l) /\ MayCollect(t, l) /\ CollectBack(t, l, b)
          \/ IsRec(t, l) /\ MayCollect(t, l) /\ CollectStub(t, l)
     \/ "rollback" \in Env /\ \E t \in Tables, l, b \in Locs, w \in Widths : Undo(t, l, b, w)
     \/ "release" \in Env /\ \E t \in Tables, p \in Pages : Release(t, p)
  /\ UNCHANGED <<pc, mem, file, cache, pending, snap, loopVars, pg, faults>>

\* The file gets longer than the mapping.
Grow ==
  /\ "grow" \in Env
  /\ mapped
  /\ pc = "idle"
  /\ mapped' = FALSE
  /\ UNCHANGED <<fbVars, pc, mem, file, cache, pending, snap, lastHdr, turn, cycle, scan,
                 exiting, pg, faults>>

-----------------------------------------------------------------------------
Watch ==
  \/ Start \/ Poll \/ SkipTable \/ SyncTable \/ ScanPage \/ SyncOk \/ SyncRejected
  \/ EndCycle \/ SaveState \/ SaveSnap

Failure ==
  \/ Stop \/ OpenFails \/ SyncFails \/ SyncAckLost \/ SaveStateFails \/ SaveSnapFails
  \/ Crash

Next == Watch \/ Failure \/ Firebird \/ Grow

Spec == Init /\ [][Next]_vars

\* The loop never ends by itself and a stopped process is started again;
\* Firebird and the failures owe nothing.
FairSpec == Spec /\ WF_vars(Watch)

-----------------------------------------------------------------------------
(***************************************************************************)
(* Properties.                                                             *)
(***************************************************************************)
Followed == Keyed \cap {TableOrder[i] : i \in DOMAIN TableOrder}

\* What the replica of t should hold.
Content(t) ==
  [k \in Keys |-> IF k \in LiveKeys(t)
                  THEN RecAt(t, CHOOSE l \in LiveLocs(t) : RecAt(t, l).key = k).txn
                  ELSE NoRow]

\* The loop has seen every page generation of t there is.
SeesAll(t) ==
  /\ pc # "down"
  /\ cache[t].on /\ cache[t].ppGen = ppGen[t]
  /\ \A p \in listed[t] : mem.gens[t][p] = disk[t][p].gen

\* A page generation is remembered only for pages whose changes are in the
\* replica: when the loop has remembered the generation of every page of a
\* table, so that it will skip them all, the replica is the table.
SeenIsReplicated == \A t \in Followed : SeesAll(t) => pg[t] = Content(t)

\* The watermark of the state file passes over nothing: a row version it has
\* reached is in the replica, and of a row whose delete it has reached the
\* replica holds no version from before the delete.
WatermarkCovers ==
  \A t \in Followed, l \in Locs :
     IsRec(t, l) /\ "CHAIN" \notin RecAt(t, l).flags /\ Passed(t, l) =>
       LET rec == RecAt(t, l)
       IN  \/ pg[t][rec.key] = rec.txn /\ "DELETED" \notin rec.flags
           \/ pg[t][rec.key] \notin 1..rec.txn /\ "DELETED" \in rec.flags

\* The replica holds only versions of rows that Firebird once wrote.
NoInventedRow ==
  \A t \in Tables, k \in Keys : pg[t][k] # NoRow => <<t, k, pg[t][k]>> \in written

\* A delta names each row once (ON CONFLICT DO UPDATE would reject it).
NoDoubleKey == ~Conflicting

\* No delta takes a row out of the replica that is still in the table.
LiveRowsStay ==
  [][\A t \in Followed : \A k \in LiveKeys(t) : pg[t][k] # NoRow => pg'[t][k] # NoRow]_vars

\* A delta is what Ingest takes it for: its upserts are the rows changed since
\* the watermark, as they are now, it removes every row that is gone, and none
\* that has not changed.
DeltaIsWhatChanged ==
  ScanDone =>
    LET t == TableOrder[turn]
        changed == {k \in LiveKeys(t) : Content(t)[k] > scan.lastTxn}
    IN  /\ {<<u.key, u.txn>> : u \in scan.ups} = {<<k, Content(t)[k]>> : k \in changed}
        /\ \A k \in Keys \ LiveKeys(t) : pg[t][k] # NoRow => k \in DeltaDeletes
        /\ DeltaDeletes \cap LiveKeys(t) \subseteq changed

\* When the loop goes to sleep on a generation of the header page, the replica
\* is the tables: there is nothing left for a later cycle that Firebird would
\* have to bring about first.
SleepsWhenReplicated ==
  pc = "idle" /\ lastHdr = hdrGen => \A t \in Followed : pg[t] = Content(t)

\* Each table in the replica is at every moment a whole state of the table in
\* Firebird and moves on to later ones in one step: sync_table and apply_delta
\* implement the promise of change capture.
Mirrored == INSTANCE Mirror WITH
  Tables   <- Followed,
  Contents <- [Keys -> Nat],
  source   <- [t \in Followed |-> Content(t)],
  shown    <- [t \in Followed |-> pg[t]]

IsMirror == Mirrored!Spec

\* A saved watermark never goes back, whatever is lost in between.
WatermarkNeverFalls ==
  [][\A t \in Tables : Watermark(file', t) >= Watermark(file, t)]_vars

\* When Firebird has become quiet the replica comes to equal the tables.
Converges == \A t \in Followed : <>[](pg[t] = Content(t))

=============================================================================
