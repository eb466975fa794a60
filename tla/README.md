# A TLA+ model of fdb-extract

fdb-extract replicates a Firebird database into PostgreSQL by reading the pages of
the `.fdb` file while Firebird writes it. This directory holds a model of the change
capture (`src/cdc.rs`), of the push replication over a gateway (`src/bin/agent.rs`,
`src/bin/ingest.rs`, `src/merge.rs`), and of the parts they stand on: the wire, the
snapshot file, the key arrays, the record codec, fragmented rows, altered tables and
the local migration; the TLC configurations that check it, and proofs checked by TLAPS.
Paths in this document are relative to the repository; `PROJECT.json` maps every
definition to the lines it models.

## The system

| Component | State it keeps | Operations | Modelled in |
|---|---|---|---|
| Firebird file (external) | data pages with a generation and record slots, pointer pages, header generation | insert, update, delete, garbage collection, page allocation and release | `FbDisk` |
| Scan (`cdc.rs` `scan_changes_into`, `ods.rs` record readers) | none: it reads pages, the remembered page generations and the key snapshots | one data page; delete stubs; express deletes | `CdcScan` |
| Watch loop (`cdc.rs` `run_watch`, `sync_table`, `CdcState`) | watermarks, page generations, caches with key snapshots, two files, last header generation | start, poll, remap, per-table sync, end of cycle, two saves, stop | `CdcWatch`; its promise in `Mirror` |
| Sinks and merge (`sink.rs`, `merge.rs`) | a PostgreSQL session | one delta in one transaction | `CdcWatch` (as one step), `Ingest` (streamed) |
| Agent (`bin/agent.rs`) | a connection per request, the watch loop's state | FULL of each table at start, then deltas | `Ingest` |
| Gateway (`bin/ingest.rs`) | one thread and one PostgreSQL session per connection; relations `<table>__load` and `<table>` | `handle_full`, `handle_delta` | `Ingest`; its promise in `Replica` |
| Wire protocol (`wire.rs`) | position in a body | chunked and length-prefixed bodies, request header, responses | `Wire`; in `Ingest` a body is complete or cut |
| Key arrays (`cdc.rs` `flat_pk_*`) | chunks laid end to end | sort, deduplicate, search | `FlatPk` |
| Snapshot file (`cdc.rs` `save_snapshots`, `load_snapshots`) | a file, its temporary file, the snapshots not yet taken over | write, rename, read, hand over to a cache | `SnapFile` |
| Record codec (`sqz.rs`) | input position, output | one control byte | `Sqz` |
| Fragmented rows (`ods.rs` `reassemble_fragments`) | a chain of slots in a file that changes | one piece | `Fragments` |
| Formats, fields, schema (`ods.rs` catalog, `extract.rs`, `schema.rs`, slots of `TableCache`) | layouts cached by the loop | dump and delta of a table that is altered, CREATE TABLE | `SchemaSync` |
| Local migration (`pg.rs`) | a session, the tables in PostgreSQL | DROP, CREATE, COPY of a list of tables | `Migrate` |
| CLI, inspection, bench, certificates, TLS, scripts | none of interest | | not modelled |

How they interact: the watch loop shares only the memory-mapped file with Firebird and
learns of changes through generation counters; it calls a `DeltaSink` synchronously and
takes its answer into its state; it talks to its own later incarnations through two
files. Agent and gateway exchange one request and one response per connection; the
threads of the gateway share nothing but PostgreSQL, whose relation locks are their
only synchronisation.

What makes it hard: Firebird writes between any two reads; garbage collection removes
the evidence of deletes; one watermark is shared by all tables; a delta can be applied
and reported as failed; the process can die between any two steps and particularly
between its two saves; a thread of the gateway outlives the agent it serves.

What makes each part correct:

* scan and watch loop: what the loop will not look at again is in the replica
  (`SeenIsReplicated`, `WatermarkCovers`), rows that exist are not deleted
  (`LiveRowsStay`), a delta can be applied (`NoDoubleKey`), nothing is invented
  (`NoInventedRow`), watermarks only rise (`WatermarkNeverFalls`), a delta holds exactly
  what changed (`DeltaIsWhatChanged`), readers see whole states of a table, each later than
  the one before (`IsMirror`), the loop does not sleep on a change (`SleepsWhenReplicated`),
  the replica gets there (`Converges`);
* gateway: readers see whole tables that never go back, and what was confirmed stays
  (`KeepsPromise`, `ConfirmedIsShown`, `SavedIsShown`, `NeverSeenEmpty`), the agent does not
  sleep on a change (`SleepsWhenShown`), and every thread ends (`ThreadsEnd`);
* the parts below them: a key search answers membership (`SearchIsMembership`), a start
  finds a whole snapshot file or none (`LoadIsWhole`), only what was sent is committed
  (`CommitsWhatWasSent`) and what was sent is served (`WholeIsServed`), a record that
  was cut short is not taken for a record (`AcceptsTheRecord`), a row that is read is
  one version of it (`ReadsOneVersion`), rows of every format decode right and fit the
  table (`RowsDecodeRight`, `NothingRefused`, `CleanIsWhole`), one failure costs the
  migration one table (`OneFailureEach`) and a run repairs an earlier one
  (`CleanRunRepairs`).

## Modules

* `FbDisk` — the Firebird file as `ods.rs` and `cdc.rs` read it. A row version is
  known by the transaction that wrote it, so a record is a set of flags, a
  transaction, a key and a back pointer. `INCOMPLETE` is the head of a fragmented
  row; continuation fragments and blobs are never looked at and are left out.
  Every definition is external. A transaction may write any rows of any tables, before
  and after any step of the loop, until it commits (`Uses`, `Commit`); several may be
  open at once (`Begin`). What an UPDATE replaces is kept as it was or as a difference to
  the new version (`OldVersions`). A difference has the bytes of no record: `reads`, the
  key a reader finds in one that it takes for a record, is any key. Updates and deletes
  may be rolled back (`Undo`: the version before comes back from its slot).
* `CdcScan` — operators for one data page, in the order of `scan_changes_into`:
  which slots are looked at, what is above the watermark, upserts, deletes with
  the chain followed for at most `MaxChainDepth` (8) records, the keys of the page,
  and the express deletes. A difference taken for a row (`RowOf`) has values nobody
  wrote (`Garbage`). Upserts and deletes are sets: their order in the buffers
  has no effect, because the delta is staged and merged as a whole. `FixedPk` is the
  set of tables with `pk_byte_len > 0`; a page without an entry in
  `prev_pks_per_page` has `NoPks`.
* `CdcWatch` — the loop. `pc` is where it is: `down` (no process), `idle` (top of the
  loop and sleep), `table` (before a table), `scan` (between pages of a table),
  `saveState`, `saveSnap`. `ScanPage` takes one data page at a time in physical order,
  so Firebird may write between two pages. `SyncOk`, `SyncRejected`, `SyncFails` and
  `SyncAckLost` are the four outcomes of a delta: applied; refused by PostgreSQL
  because a row is in it twice, or has values that may fit no column; failed before the
  commit; committed, and the answer lost. The cached metadata of a table is abstracted to
  "there is a cache" here, and modelled in `SchemaSync`. `FarPages` are the data pages that a later pointer page
  names: `sync_table` compares the generation of the first pointer page only.
* `Mirror` — what change capture promises the readers: a table in the replica is at every
  moment a whole state of the table in Firebird, and only moves on to later ones.
* `Replica` — what push replication promises: in one step the readers see a dump or a
  delta as a whole, no row goes back, nothing confirmed is lost.
* `Ingest` — one table, the agent, the threads of the gateway and PostgreSQL. A thread
  does one SQL statement per step, waiting for the locks the statement needs: `DROP`
  and `RENAME` of the staging relation wait for a `COPY` into it, the swap waits for
  deltas, deltas wait for the swap. The state of a row is a version; a deleted row
  keeps the version of its delete so that going back can be told from going forward.
  The watch loop is abstracted to "a delta holds the latest state of every row that
  changed since the watermark", which is `DeltaIsWhatChanged` of `CdcWatch`, and keeps its
  poll, its watermark and its file.
* `FlatPk` — the key arrays, chunk by chunk: `SortConst` is the library's sort for the
  lengths in `ConstStrides`; `SortGeneric`, `Heapify`, `Pop` and `Sift` are the heap sort
  for the others, one exchange per step; `SkipSort` is its early return, `Dedup` and
  `Halve` are one round of their loops. A chunk is a number; a search may ask for any.
* `SnapFile` — the snapshot file as a sequence of fields. `BeginSave`, `WriteField` and
  `Rename` write it, `Load`, `ReadTable`, `ReadPage`, `ReadShort` and `ReadEnd` read it.
  `BuildCache` hands the pages over to `sync_table`, which knows the key's length from
  the catalog of today. The process may die between any two fields (`Die`), and power
  may fail (`LosePower`): nothing is synced, so the renames since the disk last had the
  file (`durable`) may be undone and an older one be there again, and of the file that is
  there any prefix may be left. With `zeroes` in `SnapEnv` what is missing reads as zeroes.
* `Sqz` — the decompressor against the segments Firebird packed: the specification
  knows the segments, the loop has only their bytes, cut off anywhere.
* `Wire` — one request: atoms on a stream that may end anywhere, the gateway's reader
  (`ReadHeader`, `ReadLength`, `ReadBytes`, `EndOfBytes`, `ReadCut`), PostgreSQL's end of
  the COPY (`CopyAccepts`) and the answer. Lengths are taken modulo `LenMod`; a length
  read from payload is any number. A dump goes out in the pieces its `BufWriter` is
  flushed in: `ends` says where each of them ends, and may say anything.
* `Fragments` — a row of several pieces. `Rewrite` moves the head to a slot of its own
  and links the new pieces, `CollectOld` frees the pieces of a version, `ReadPiece` reads
  one slot, whatever is in it by then.
* `SchemaSync` — a table whose columns are added, dropped or retyped, its FULL (catalog,
  `DdlNow`, one row at a time, swap) and its loop (`Slots` of the cache, `Sync`). A field
  is read at the offset that the layout in use gives it; if the record's own format has
  another column there the result is `Garbage`, if the record ends before it, NULL. A table
  is a set of columns: their order goes by field position everywhere and is left out.
* `Migrate` — `run_table_list` and `migrate_table`: one statement per step, each of which
  commits by itself, failures that break the session or not, a reconnection that may
  fail too, and several runs one after the other.
* `Maps` — functions of which the domain grows, for `SnapFile` and `SchemaSync`.
* `MCCdcWatch`, `MCIngest`, `MCParts` — table orders and symmetry sets for TLC. The last
  seven modules share no state, so `MCParts` runs them side by side: a behaviour of
  `PartsSpec` is a behaviour of one of them while the others rest.
* `CdcWatch_proofs`, `Covered_proofs` (which builds on it), `Ingest_proofs`,
  `FlatPk_proofs`, `SnapFile_proofs`, `Parts_proofs` (altered tables, decompressor, wire,
  migration, fragments), `MCParts_proofs` (the parts side by side) — theorems; `Joined` — the
  lemmas they share, on least numbers, on sequences joined from others, and on the parts of
  a sequence.

Operators commented *Mutant* are plausible mistakes in the definition that follows
them; no specification uses them. Each property is violated once its mutant takes
the place of the definition.

## The surroundings

`Env` names what the surroundings may do, and each run says which behaviours it
allows. `CdcWatch!Behaviours` and `Ingest!Behaviours` explain each of them. With
`Env = {}` Firebird writes only while the loop sleeps, in the order of transaction
numbers and with none that a watermark has reached, changes a row again only after the
watermark has passed its last change, collects a delete stub only after the watermark has
passed it, stores rows in one piece, and neither grows nor gives back pages; nothing fails.
The passing runs add behaviours that the code copes with, the violation runs add one that
it does not cope with. (`CdcAnyEnvironment` adds all of them, and checks only what
holds in spite of them.) The restrictions of `Env = {}` are therefore the conditions under
which change capture is right:

| Condition | Without it | Seen by |
|---|---|---|
| no write between the scans of two tables | what a transaction wrote to the first of them is never sent | `CdcWriteBetweenTables` |
| a row changes once between two polls, its insertion counted | the delta is refused | `CdcBackVersions` |
| every data page is named by the first pointer page of its table | a new page is not looked at | `CdcFarPages` |
| a request starts when the last one's thread has ended | readers see an empty table | `IngSharedStaging` |
| a row changes once between two polls | a row nobody wrote is sent | `rewrite` in `CdcOneTable`: `NoInventedRow` |
| a transaction writes only before a watermark reaches its number, and not after a later one | what it writes afterwards is never sent | `slowTxn` in `CdcOneTable`, with `MaxTxn = 1` as well: `WatermarkCovers` |
| with several tables, no delta fails while another succeeds | a change is never sent | `sinkFails` in `CdcTwoTables`: `WatermarkCovers` |
| Firebird writes again after a failed delta | the delta is not retried | `sinkFails` in `CdcConverges`: `Converges` |
| the sink refuses no delta | the loop sleeps on a change until Firebird writes again | `sinkFails` in `CdcTwoTables`: `SleepsWhenReplicated` |
| the process does not die between its two saves | a delete is lost | `crashMidSave` in `CdcOneTable`: `SeenIsReplicated` |
| rows fit a page | a row is deleted from the replica | `wide` in `CdcOneTable`: `LiveRowsStay`, `SeenIsReplicated` |
| no transaction is rolled back after the loop has seen it | the restored row is not sent | `rollback` in `CdcOneTable`: `WatermarkCovers` |
| a page of a later pointer page is not given back | rows that exist are deleted | `FarPages = {2}` in `CdcOneTable`: `LiveRowsStay`, `WatermarkCovers` |
| no stub is collected unseen before the file grows | a delete is lost | `grow` in `CdcOneTable`: `SeenIsReplicated` |
| no stub is collected unseen on a page that is given back | a delete is lost | `release` in `CdcOneTable`: `SeenIsReplicated` |
| no stub is collected unseen before a Ctrl-C that comes before the first cycle | a delete is lost | `stop` in `CdcOneTable`: `SeenIsReplicated` |
| no stub is collected unseen when the catalog could not be read at first | a delete is lost | `readFails` in `CdcOneTable`: `SeenIsReplicated` |
| the snapshot file can be written | a delete is lost, a row is deleted | `snapFails` in `CdcOneTable`: `SeenIsReplicated`, `LiveRowsStay` |
| Firebird does not write between the reads of two pages | a row is deleted from the replica | `duringScan` in `CdcOneTable`: `LiveRowsStay`, `WatermarkCovers` |
| PostgreSQL does not crash (`synchronous_commit = off`) | a confirmed delta is gone | `pgCrash` in `IngOneAtATime`: `ConfirmedIsShown` |
| a thread has ended when the next request starts | a late delta undoes a newer one | `overlap` in `IngOneAtATime`: `ConfirmedIsShown` |
| the gateway is told when the agent's machine dies | a thread, and every later FULL, waits for ever | `silent` in `IngConverges`: `ThreadsEnd` |
| no key is longer than 64 bytes | a search misses a key | 72 added to `Strides` in `Parts`: `SearchIsMembership` |
| a key with snapshots keeps its type | keys are searched with the wrong length | `SnapEnv = {"retype"}` in `Parts`: `ChunksHaveKeyLength` |
| what a power failure takes of a file does not read as zeroes | a start has some of the keys | `zeroes` added to `SnapEnv` of `Parts`: `LoadIsWhole` |
| the upserts of a delta without deletes, and all deletes, have less than 4 GiB | rows of a confirmed delta are missing | `LongBodies = TRUE` in `Parts`: `CommitsWhatWasSent` |
| a version is not collected while the dump reads its pieces | a row of two versions, or none | `FragEnv = {"collect"}` in `Parts`: `ReadsOneVersion` |
| no ALTER TABLE while the loop runs | a row of a new format is decoded as one of an old format | `watchAlter` in `SchemaEnv` of `Parts`: `RowsDecodeRight` |
| a column with values keeps its type | PostgreSQL refuses the dump | `retype` in `SchemaEnv` of `Parts`: `NothingRefused` |
| the catalog row of a dropped column is collected before the next start | PostgreSQL refuses what is sent | `uncollected` in `SchemaEnv` of `Parts`: `NothingRefused` |

The first four are runs of the project, and each quotes in `PROJECT.json` the sentence of
the documentation that says otherwise. The others are seen by adding the behaviour named
to the environment in the configuration named. Some of these contradict a sentence, too:
`rewrite` the "back-versions are skipped" of `README.md:49-50` a second time (the comment at
`src/ods.rs:671-675` says what becomes of a back version that is not skipped),
`crashMidSave` the "crash-safe (write-tmp-then-rename) state files" of `README.md:61-62`
(each file is safe, the pair is not), `wide` the "fragmented records are reassembled
across pages" of `README.md:48-49` (the dump does, the change capture does not),
`retype` the handling of old formats in `README.md:50-52`, and `watchAlter` the
comment at `src/cdc.rs:155-156` that a live record always finds its format.

The condition on transactions is what the watermark asks of Firebird. The code takes a
transaction whose number a watermark has for one that has written all it will (`txn >
last_txn`, `cdc.rs:732`), so a row written later under that number, or under a smaller one,
is never sent. One transaction that writes a row, is polled, and writes another is enough
(`slowTxn` in `CdcOneTable` with `MaxTxn = 1`). The passing runs keep to the condition with
`Unreached`: until a watermark reaches it, a transaction may write any rows of any tables,
between the steps of the loop where `Env` allows that, and after a poll of which the delta
failed.

`PushFull` is also where the code and `deploy/DEPLOY.md:76` and `86-87` ("seed FULL once",
"a restart resumes without re-scanning") differ: `main` in `bin/agent.rs` pushes every
table as a FULL at each start, whatever the state file says.

## Runs

| Run | Checks | Instance |
|---|---|---|
| `CdcOneTable` | `SeenIsReplicated`, `WatermarkCovers`, `NoDoubleKey`, `NoInventedRow`, `LiveRowsStay`, `DeltaIsWhatChanged`, `IsMirror` | 1 table, 2 pages of 2 slots, 2 rows, 3 transactions, 5 changes, 2 failures, stubs collected unseen |
| `CdcTwoTables` | `SeenIsReplicated`, `WatermarkCovers`, `SleepsWhenReplicated`, `IsMirror` | 2 tables of 1 row, one without key snapshots, 3 transactions, 5 changes, 1 failure, pages released |
| `CdcConverges` | `Converges` | 1 table, 2 rows, 3 transactions, 4 changes, 1 failure, file growing, fairness |
| `CdcAnyEnvironment` | `TypeOK`, `WatermarkNeverFalls` | 2 tables of 1 row, one without a primary key, every behaviour, 2 transactions, 3 changes, 1 failure |
| `CdcWriteBetweenTables` | `WatermarkCovers`, violated | 2 tables, one transaction that writes both, the second one's row between their scans |
| `CdcBackVersions` | `NoDoubleKey`, violated | 1 table, 3 transactions, a row written twice |
| `CdcFarPages` | `Converges`, violated | 1 table, page 2 on a later pointer page, nothing fails |
| `IngOneAtATime` | `ConfirmedIsShown`, `SavedIsShown`, `KeepsPromise` | 2 rows, 3 changes, 3 failures |
| `IngConverges` | `Converges`, `ThreadsEnd`, `SleepsWhenShown` | 2 rows, 2 changes, 2 crashes, fairness |
| `IngAnyEnvironment` | `TypeOK` | every behaviour, 2 rows, 1 change, 2 failures |
| `IngSharedStaging` | `NeverSeenEmpty`, violated | overlapping requests, 1 crash |
| `Parts` | `PartsTypeOK` and the properties of the seven parts | see below |

The bounds: `MaxTxn`/`MaxVer` (transactions, versions), `MaxChanges` (what Firebird does to
the file: writes, collections, pages given back) and `MaxFaults` cap what would be
unbounded; the code has no other counter. Two pages are the fewest on which a
page that is scanned and a page that is skipped matter to each other, two slots let
a row have a back version beside it, and two keys let one row vanish while another
stays. Three transactions and five changes allow insert, delete, collection of the old version and
of the stub, and a new insert of the same row around a failure; they also let a transaction
write several rows. With one row `CdcTwoTables` still has it in both tables, and one
transaction write both. Two failures in `CdcOneTable` let one of them leave a stale file and
the next one fall back on it: with a single one, `stop`, `readFails` and `snapFails` look
harmless there. Generation counters are not bounded by themselves: they move only
with changes, which are finite. They do not wrap in the model; in the
file they have 32 bits. Two connections are enough for one thread to outlive its agent
while another serves the next one. Symmetry (keys, connections) is used in safety runs
only.

`Parts` has about 1 600 000 states, a million of them of the snapshot file; the rest of its
time goes to altered tables and fragments. Its bounds, part by part:

* keys: arrays of up to 5 chunks with 3 values, of length 8 (library sort) and 28 (heap
  sort). Five chunks are a heap of three levels with a parent of one child, and three
  values on five chunks repeat. `FlatPk_proofs` covers every other length.
* snapshots: 2 tables, 1 page, keys of no fixed length and of two lengths,
  2 scans: a table that is left out of the file, one with a page without keys, and a page whose
  second array must replace the first.
* records: up to 2 segments, literals of 0 to 2 bytes, runs of 0, 1, 3 and 6 in each
  encoding that can hold them, every cut, a limit of 7 that two segments exceed.
* wire: `LenMod = 5` stands for 2^32. With `LongBodies = FALSE` only the upserts of a
  delta with deletes may be too long for their length, and it is refused. Three rows of a
  dump in every framing, up to 5 upserts and one delete in a delta.
* fragments: 5 slots, versions of up to 3 pieces, 3 versions: one that is read, one that
  replaces it and one that takes the slots of a collected one.
* altered tables: 2 rows, 2 columns at first, 3 formats, widths 4 and 8, 3 versions: a
  column that comes and goes between two versions, and a column of another width that
  moves the ones behind it.
* migration: 3 tables, 2 failures in a run, 2 runs: one that leaves a mess and one that
  meets it; a reconnection that fails and one more table to notice.

Deadlock is not checked. Firebird may be quiet for ever, and an `idle`
loop that sees no new generation then has no step to take; the agent waits in the same way,
and the other parts end.

Fairness: `CdcWatch!FairSpec` asks weak fairness of the loop's own steps (`Watch`,
including `Start`), since the loop polls for ever and the agent is run as a service
that is started again (`deploy/DEPLOY.md`, section 4). `Ingest!FairSpec` asks it of the
agent and of each thread. Firebird, the failures and PostgreSQL's log writer owe nothing.
That a change in the file moves the header generation is taken from the comment at
`cdc.rs:1023`; `Change` does so at every write.

## Proofs

`CdcWatch_proofs` proves, for every value of the constants that satisfies the
assumptions of the modules, in particular for every `Env`, and so for every way
Firebird and the failures may behave:

* `TypeCorrect` — `Spec => []TypeOK`. `TypeOK` is inductive as it stands; it contains
  that a scan has a current table.
* `SavedWatermarkMonotone` — `Spec => WatermarkNeverFalls`. A save can only lower a
  watermark if the memory is behind the file. The strengthening `Ahead` says that it
  is not: `MemoryAhead` (a running process has at least the watermarks of the file),
  `CycleAhead` (the maximum of the cycle is at least the global watermark) and
  `ScanAhead` (the scan began at the table's watermark and has not gone below it).
* `ReplicaRowsWereWritten` — `Spec => []NoInventedRow`, if no row changes again before the
  watermark has passed its last change (`ChangesOnce`: `Env` has no `rewrite`); everything
  else is allowed. Rows reach the replica through the scan, so the strengthening
  `AllWritten` says the same of the records on disk (`DiskWritten`) and of the upserts
  gathered by the scan (`ScanWritten`). Old versions that are differences are on the disk
  all the same, so `Chains`, below, is needed to show that none is above the watermark.
  With `rewrite` TLC finds the property violated.
* `DeltaNamesRowsOnce` — `Spec => []NoDoubleKey`, under the same condition and without
  `duringScan`; every failure, rollback, slow transaction and early garbage collection is
  allowed. The scan takes old versions for rows like any other, so the proof has to show
  that the watermark keeps them out. `Chains` says of each table that a key has one
  primary version (`OnePrimary`), that a back pointer leads to an old version of the same
  row (`BackIsOld`) and no two lead to the same one (`BackIsOwn`, or a rollback would
  bring back a row beside its successor), that the saved watermark has passed every
  old version (`OldIsPassed`), and that a record that is no difference reads as its own
  key and a stub leads to none (`ReadsAsIs`); `Ahead` carries this to the watermark the scan compares
  with. `UpsOnDisk` says that what the scan has gathered still stands on the disk.
  `CdcBackVersions` shows the first condition to be needed.

Rolled-back updates and deletes are among the steps these proofs cover: `UndoWritten`
says that the version that comes back was written before. `NoRecAssumption`, that an
empty slot is no record, is used for the last theorem and in `Covered_proofs`.

`Covered_proofs` proves what change capture is for, for any tables, pages, slots and keys
and any number of transactions and failures:

* `RememberedIsReplicated` — `Spec => []SeenIsReplicated`,
* `SavedWatermarkCovers` — `Spec => []WatermarkCovers`,
* `LiveRowsAreKept` — `Spec => LiveRowsStay`,

if the surroundings are those of `CopedWith`. It has the conditions of the table above and
no others: one pointer page names every page; rows fit a page, change once between two
polls, in the order of the transaction numbers and before a watermark reaches them, are not
rolled back and do not change during a scan; a table with key snapshots finds its snapshot file as the last save left
it; with several tables (`~Alone`) nothing is written between the scans and no delta fails
before its commit; and where stubs are collected unseen (`earlyGc`), every table has
snapshots, no page is given back, the file does not grow, no catalog read fails, nobody
stops the loop, and with several tables no answer is lost. Crashes, failed saves, lost
answers and writes while the process is down are allowed. TLC finds one of the three
properties violated when any one of these conditions is dropped (`CdcOneTable` and
`CdcTwoTables` with the behaviour added; `MaxChainDepth > 0` with `FixedPk = {}`), and
`CdcOneTable`, `CdcTwoTables` and `CdcConverges` are instances of `CopedWith`.

The invariant, `Covered`, says of a table's pages, its rows in the replica and what a
process remembers of it (`MissesNothing`):

* `Knows` — the process is not ahead of the file (`NotAhead`), a record above its watermark
  is on a page whose generation it has not seen (`NewIsUnseen`), the snapshot of a page it
  has seen is the page's (`SnapIsTrue`) and, where stubs are collected unseen, has every row
  the watermark has passed (`SnapHasRows`);
* `Holds` — the replica has what the watermark has passed (`RowsHeld`, `StubsHeld`), and a
  row that is gone from the table and not from the replica will be noticed by its stub or
  by the snapshots (`GoneNoticed`).

This holds twice: of memory (`MemCovers`) and of the two files (`FileCovers`), because any
step may be the last one before a restart from the files; only between the two saves the
files are not a pair, and then the state file equals memory (`SaveFacts`). The scan adds
`ScanFacts`: what has been gathered of the pages done with is complete and comes from the
disk (`Tells`), so that the delta of a finished scan makes the replica the table
(`MergedIs`), and what is remembered then is true of it (`AdvancedKnows`). `CycleFacts`
has the watermark that the tables share: it may pass what one of them has shown because
the tables done with are replicated as they are (`Settled`), or because there is only one.
`Evolves` is what a step of Firebird does to the pages of a process that looks away and
whose watermark has not reached the transaction that writes (`Watermarks`), and
`KnowsEvolves` and `HoldsEvolves` that it takes nothing from what the process knows. The
records on the disk are older than `Fresh`, the number after that of the transaction that
writes now: one that is still writing may already be in the replica.
None of the three properties is inductive: each speaks of one moment only, and a lost
change is lost several steps before it shows. TLC was used to check `Covered` as an
invariant on one table and on two, with and without `earlyGc`, before it was proved.
`ChainKeyIs` computes the recursive function of `ChainKey`: when every record can be read
its first step decides.

In the same surroundings, and from the same invariant:

* `DeltasAreWhatChanged` — `Spec => []DeltaIsWhatChanged`: the delta of a finished scan has
  the rows above the table's watermark as they are, the delete of every row that is gone,
  and no delete of another. This is the abstraction `Ingest` makes of the watch loop.
* `ReplicaIsMirror` — `Spec => IsMirror`: `CdcWatch` implements `Mirror`. A delta that is
  applied is a `Refresh` of its table, because what the sink makes of it is the table
  (`AppliedIsWhole`), a write of Firebird a `Change`, and every other step stutters.
* `SleepsReplicated` — `Spec => []SleepsWhenReplicated`, if besides no delta is refused and
  the catalog can be read (`NothingRefused`; adding `sinkFails` to `CdcTwoTables` violates
  the property). The loop remembers the generation it read before the cycle, so the
  invariant, `Handled`, says that if nothing was written since, the tables already done in
  this cycle are replicated, and that a process that has just started has handled no
  generation. This is the safety half of `Converges`: the other half, that the loop takes
  its steps, is fairness.

`FlatPk_proofs` proves, for arrays of any length:

* `SortKeepsKeys` — `FlatSpec => []KeysKept`, for every stride. In the deduplication the
  chunks below `w` and from `r` on have all the keys (`Unspent`), what lies between is
  spent.
* `SearchFindsKeys` — `FlatSpec => []SearchIsMembership` if no stride exceeds `Scratch`
  (64), the condition that 72 in `Strides` shows to be needed. `SortInv` says what each
  loop knows of the order: a heap from parent `i` on while it is built (`IsHeap`), a heap
  that one chunk may break while that chunk sinks (`HeapBut`), a sorted end whose chunks
  are at least as large as the rest (`Ascends`, `Splits`), and in the search that
  neither side that was left holds the key (`SearchOrder`). `SiftStep` and `PopStep`
  are the two lemmas of the heap.

A heap is described by its edges alone. That its top is its largest chunk
(`TopIsLargest`) is an induction over the parents, done here by a least counterexample:
`LeastOf` of `Joined`, that a set of numbers has a least element, follows from the
library's theorem that strict inclusion of finite sets is well founded.

`SnapFile_proofs` proves, for any finite sets of tables and pages, any key lengths and
any number of scans, saves and starts:

* `SnapshotsLoadWhole` — `SnapSpec => LoadIsWhole`, if what a power failure takes of the
  file does not read as zeroes (`"zeroes" \notin SnapEnv`). A page count or a length of
  zero is a valid one, so the reader would take the keys before it for the whole file.
* `ChunksFitTheirKey` — `SnapSpec => []ChunksHaveKeyLength`, if no key is given another
  type while its table is remembered (`"retype" \notin SnapEnv`, as in `Parts`).

A start that reads half of a file looks no different from one that reads all of it until
it ends, so the invariant, `SnapInv`, says where the reader stands: between two tables it
is behind the i-th one and has read exactly the tables up to there (`BetweenTables`),
between two pages also the pages up to there (`BetweenPages`). `TableAt` and `PageAt` say
which fields stand at that place, `ShortIsCut` that only a cut file runs short, and
`EndIsWhole` that at the end everything was read. `FileInv` says that the file is a
beginning of what was saved, all of it unless power failed, `IsFile` and `DurableInv` say
the same of the file that a power failure may bring back, `ReadInv` that a reader has only
what was saved, `SaveInv` that the temporary
file and what is still to be written make up a whole file, and `KeysInv` that caches,
snapshots and file fit the keys as they are today (`FitsKeys`). The order in which a map is
gone through is any one (`SetAsSeq`). TLC was used to check `SnapInv` on two tables of
two pages before it was proved.

`Parts_proofs` proves, for any rows, columns, formats, widths and versions:

* `AlteredRowsDecodeRight`, `AlteredTableIsTaken`, `AlteredTableIsWhole` — `RowsDecodeRight`,
  `NothingRefused` and `CleanIsWhole`, if the table is altered during a dump or between
  two runs only (`AltersAtRest`, the instance of `Parts`; the last rows of the
  table under "The surroundings" say what happens otherwise). A record is read through
  the layout the loop holds for its format, so the invariant, `SchemaInv`, has to say that
  what the loop has cached are the columns and the number of formats of the catalog
  (`CacheInv`), that the format of a live record gives the columns it shares with the
  latest format the same width (`CatalogInv`, `Agree`), that each row a dump has staged is
  a version that was written, and the present one unless the row has changed since
  (`DumpInv`), and the same of the rows of the replica, in the columns it shares with the
  table (`ReplicaInv`).

for any payload, segments and limit:

* `RecordIsAccepted`, `RecordStaysBounded` — `AcceptsTheRecord` and `RecordIsBounded`,
  without a condition. `SqzInv` says that between two control bytes the loop stands at the
  beginning of a segment and has put out the text of those before it. `AtASegment` finds
  that segment and what its bytes are (`AtSegment`), `RunIs` reads the count of a run back
  from one, two or four bytes, and a segment that was cut ends in `Reject`.

for any rows, dumps, framings and cuts, and any modulus of the lengths:

* `CommittedIsWhatWasSent`, `WholeRequestIsServed` — `CommitsWhatWasSent` and
  `WholeIsServed`, if only the first of the two bodies of a delta may be too long for its
  length (`LongBodies = FALSE`; with `TRUE` TLC shows the first one violated).
  `FullStreamIs` and `DeltaStreamIs` say what each atom of a stream is; the invariant,
  `Standing`, says for each state of the reader which atom comes next (`Reads`) and how
  much of which body the COPYs have had. A first length that wraps around leads the
  reader astray: what it takes for the deletes then never begins as a COPY does
  (`Astray`), and PostgreSQL refuses it. Neither property is inductive: a body is
  only known to be whole because of where the reader stands.

for lists of tables of any length and any number of failures and runs:

* `FailuresStayApart` — `MigSpec => []OneFailureEach`. `FailuresCounted` adds the failure
  that a session still broken has cost and no table has shown yet (`Debt`).
* `DropRunRepairs` — `MigSpec => []CleanRunRepairs`. `Behind` says that in a run with
  `--drop` without a failure the tables before the one at work are whole and the one to
  be created is not there, so that CREATE TABLE cannot meet it.

and for any slots, any number of pieces and of rewrites:

* `RowIsOneVersion` — `FragSpec => []ReadsOneVersion`, if nothing is collected while it
  is read (`FragEnv = {}`) and no version has more pieces than the guard against endless
  chains lets through (`MaxPieces <= MaxFragments`). The invariant has two parts.
  `ChainsHold`: the head has the first piece of the newest version, and every piece leads
  to the next one of its version (`Leads`). `ReaderHolds`: between two pieces the reader
  has the beginning of one version and stands on its next piece (`OnTheWay`). The
  property alone says nothing of a chain that is half read.

`MCParts_proofs` proves, for all values of the constants:

* `PartsTypeCorrect` — `PartsSpec => []PartsTypeOK`, without a condition: also with bodies
  that are too long for their length, collected fragments, power failures and every kind of
  ALTER TABLE, where the properties above may fail. `PartsAreSpecified` says that a behaviour of
  the parts side by side is one of each part, so that it is enough to prove each type of its
  part alone. Key arrays, wire and fragments keep their types by themselves, the wire if
  what is still on the stream are atoms; the types of the snapshot reader, of the
  decompressor and of the migration need the invariants above. For altered tables
  `SchemaShapes` adds what a dump has staged and that a record's format is one of the
  catalog's; a record that is misread may have a wrong key, but always has the
  columns that were asked for.

What a stream, a record or a file is joined from is computed by `FlattenSeq`, a recursive
function. In `Joined`, `JoinedExists` and `JoinedAgree` show by a least counterexample that
there is one such function for each sequence, and `TakeNext`, `TakeGrows` and `PlaceOf`
where the k-th of the joined sequences is.

`Ingest_proofs` proves, for any rows, connections and bounds:

* `IngestTypeCorrect` — `Spec => []TypeOK` in every environment. It needs what the
  relation locks give (`Locked`: a `COPY` has its staging relation, a delta its
  target), that the handler at work serves the request the agent made
  (`ServesRequest`) and that a FULL body sent to its end is complete (`BodyComplete`).
* `ConfirmedStays`, `SavedStays`, `NeverEmpty` — `ConfirmedIsShown`, `SavedIsShown` and
  `NeverSeenEmpty`, if `Env` has neither `overlap` nor `pgCrash`.
* `SleepsShown` — `Spec => []SleepsWhenShown`, if the agent may crash but no thread outlives
  its request, no connection is cut and neither gateway nor PostgreSQL goes down
  (`Undisturbed`). The invariant, `WatchInv`, adds to `IInv` that what was polled is shown
  whenever the agent waits (`PolledIsShown`), that the table is there once the agent watches,
  so that a delta is not refused (`NoDeltaRefused`), and that a version is of one state of a
  row (`RowOfVersion`). It is the safety half of the gateway's `Converges`.
* `PromiseKept` — `Spec => KeepsPromise` under the same two conditions: `Ingest`
  implements `Replica`. A handler step that changes the target is a `Publish`
  (`HandlerGrows`), an answer is a `Confirm`, and every other step stutters.

The two conditions are needed: `IngSharedStaging` and the table above show what
happens without them. The inductive invariant `IInv` says that one thread is at work
(`OneThread`), what it has left in the staging relation at each place
(`StagingKnown`), that "ok" means the body is in the target (`OkIsShown`), that
target, body and source are ordered row by row (`Ordered`), and that every change up
to the watermark is shown while a delta on its way has all later ones up to its poll
(`MarkIsShown`, `DeltaFresh`, `MarksBounded`). None of the properties is inductive without these: an
answer can only be trusted because of what the thread did several statements before.
TLC was used to check `IInv` on the instance of `IngOneAtATime`, with `silent` added,
before it was proved.

The assumption `IngestAssumption` asks of `None` only that it is not one of the values
it is told apart from.

Only model-checked: liveness (`Converges` twice, `ThreadsEnd`), which needs fairness and is
beyond the prover; `SleepsWhenReplicated` and `SleepsWhenShown` are as much of it as is
safety. The violation runs are TLC's alone. Every invariant and action property of a passing
run is a theorem, under the conditions named with it. `Newest` is written as a set of one, so
that the proofs need not show that a set of transaction numbers has a greatest element.

## Not modelled

* Blobs, arrays and the values of fields: dates, decimals and text conversions are pure
  functions of a field, tested one by one in `extract.rs`. `SchemaSync` distinguishes
  the right value, NULL and bytes of another column, no more.
* Byte offsets in pages and in the system catalog, indices, and whatever `inspect`
  prints.
* ALTER TABLE between the two readings of the catalog at the start of `push_full`
  (DDL, then field order): `BeginFull` reads both at once.
* The DEFAULT of a column that is added NOT NULL: Firebird shows it for old rows, the
  code does not look at it.
* The rollback of an INSERT, a second change of a row by the same transaction, and a new
  insert of a row by the transaction that deleted it: `FbDisk` knows a row version by the
  transaction that wrote it. (A second change overwrites the version in place.)
* What other transactions see while one is open, and that readers of the replica may see
  half of a transaction: the code never reads the transaction inventory, so `Mirror`
  promises whole states of the file, committed or not. `Commit` changes nothing in it that
  the code looks at.
* The bytes of a difference: taken for a row it has a key of `Keys` and values nobody
  wrote, or PostgreSQL refuses it. That the decompressor may reject it, so that it is
  skipped, is left out.
* A power failure that brings back an older *state* file beside newer key snapshots, and
  zeroes in the middle of a file: `SnapFile` is the snapshot file by itself. An older
  snapshot file beside a newer state file is what `crashMidSave` leaves behind.
* The upsert of a table of which every column belongs to the key (`ON CONFLICT DO NOTHING`,
  `merge.rs:54-57`): such a row has no second version. A key met twice in one delta, which
  PostgreSQL refuses for the other tables, is accepted for these.
* Several tables or tenants at the gateway: they share no relation and no row.
* Certificates, TLS, the command line, the benchmark and the JavaScript scripts: no
  state that a later step depends on.

`PROJECT.json` lists every hazard found in the code, those no property covers included.

## Plan

1. Done: the watch loop (`FbDisk`, `CdcScan`, `CdcWatch`) and the push replication
   (`Ingest`, which implements `Replica`), their runs and first theorems; then the parts
   (`FlatPk`, `SnapFile`, `Sqz`, `Wire`, `Fragments`, `SchemaSync`, `Migrate`), rollbacks
   and later pointer pages in `FbDisk`; the proofs of the key search, the fragment
   chains, the migration, the deltas, that the watch loop misses nothing, the altered
   tables, the decompressor, the wire and the snapshot file; what a delta is, that the loop
   implements `Mirror` and does not sleep on a change, and the types of the parts;
   transactions of several writes, old versions kept as differences, and snapshot files
   that a power failure takes back.
2. No invariant or action property is left to prove; liveness stays with TLC.
3. Next modules: the composition of `CdcWatch` with `Ingest` in place of the perfect
   change capture, and that it implements `Ingest`'s view of a delta.
