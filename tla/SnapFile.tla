------------------------------ MODULE SnapFile -------------------------------
(***************************************************************************)
(* The snapshot file of the watch loop (CdcState::save_snapshots and       *)
(* load_snapshots in cdc.rs): written field by field to a temporary file,  *)
(* renamed, read back field by field by the next process, and handed to    *)
(* the caches of the tables as they are built.                             *)
(*                                                                         *)
(* A file is a sequence of fields.  A length stands together with the      *)
(* bytes it announces: the reader gives up if either is cut short.         *)
(***************************************************************************)
EXTENDS Integers, SequencesExt, Maps

CONSTANTS
  SnapTables,
  SnapPages,
  KeyLengths,      \* encoded lengths a key may have; 0: no fixed length
  SnapEnv,         \* what may happen:
                   \*   "power"    the power fails: what was not synced may be lost
                   \*   "zeroes"   ... and what is lost of a file may read as zeroes
                   \*   "retype"   a key is altered while something is remembered of its table
  MaxSnapScans     \* bound: pages scanned

ASSUME SnapFileAssumption ==
  /\ IsFiniteSet(SnapTables) /\ IsFiniteSet(SnapPages)
  /\ KeyLengths \subseteq Nat
  /\ SnapEnv \subseteq {"power", "zeroes", "retype"}
  /\ MaxSnapScans \in Nat

VARIABLES
  proc,            \* the process: "down", "load", "ready", "save"
  keyLength,       \* encoded length of each table's key, by the catalog
  caches,          \* table_caches: the tables that have one
  pending,         \* pending_snapshots
  tmp, snap,       \* <state>.snap.tmp and <state>.snap; <<>> = missing
  fields,          \* what is still to be written, or to be read
  tablesLeft, pagesLeft, name,   \* the loops of the reader
  scans,           \* pages scanned so far
  saved,           \* history: the snapshots the file was written with
  lost,            \* history: a power failure has cut the file
  durable          \* the file, its saved and its lost, that a power failure may bring back

readVars == <<fields, tablesLeft, pagesLeft, name>>
snapVars == <<proc, keyLength, caches, pending, tmp, snap, readVars, scans, saved, lost, durable>>

InPlace == [snap |-> snap, saved |-> saved, lost |-> lost]

\* The array of a page: its chunk length and which scan filled it, or no keys.
NoKeys   == [len |-> 0, scan |-> 0]
Arrays   == [len : KeyLengths \ {0}, scan : 1..MaxSnapScans]
PageMaps == UNION {[ps -> Arrays \cup {NoKeys}] : ps \in SUBSET SnapPages}
SnapMaps == UNION {[ts -> [len : KeyLengths, pages : PageMaps]] : ts \in SUBSET SnapTables}
Nothing  == [x \in {} |-> x]

SnapTypeOK ==
  /\ proc \in {"down", "load", "ready", "save"}
  /\ keyLength \in [SnapTables -> KeyLengths]
  /\ {caches, pending, saved, durable.saved} \subseteq SnapMaps
  /\ tablesLeft \in 0..Cardinality(SnapTables)
  /\ pagesLeft \in 0..Cardinality(SnapPages)
  /\ name \in SnapTables
  /\ scans \in 0..MaxSnapScans
  /\ {lost, durable.lost} \subseteq BOOLEAN

SnapInit ==
  /\ proc = "down"
  /\ keyLength \in [SnapTables -> KeyLengths]
  /\ caches = Nothing /\ pending = Nothing
  /\ tmp = <<>> /\ snap = <<>> /\ fields = <<>>
  /\ tablesLeft = 0 /\ pagesLeft = 0 /\ name \in SnapTables
  /\ scans = 0
  /\ saved = Nothing
  /\ lost = FALSE
  /\ durable = InPlace

-----------------------------------------------------------------------------
\* sync_table builds the cache: the length is that of the catalog today, the
\* pages are those of the file; run_watch has dropped the length in the file.
BuildCache(t) ==
  /\ proc = "ready"
  /\ t \notin DOMAIN caches
  /\ caches' = Put(caches, t, [len   |-> keyLength[t],
                               pages |-> IF t \in DOMAIN pending /\ keyLength[t] > 0
                                         THEN pending[t].pages ELSE Nothing])
  /\ pending' = Restrict(pending, DOMAIN pending \ {t})
  /\ UNCHANGED <<proc, keyLength, tmp, snap, readVars, scans, saved, lost, durable>>

\* A scan replaces the array of a page, by one that may be empty.
ScanKeys(t, p) ==
  /\ proc = "ready"
  /\ t \in DOMAIN caches /\ caches[t].len > 0
  /\ scans < MaxSnapScans
  /\ scans' = scans + 1
  /\ \E a \in {NoKeys, [len |-> caches[t].len, scan |-> scans']} :
       caches' = [caches EXCEPT ![t].pages = Put(@, p, a)]
  /\ UNCHANGED <<proc, keyLength, pending, tmp, snap, readVars, saved, lost, durable>>

\* The file of the database has grown: the caches are cleared.
Remap ==
  /\ proc = "ready"
  /\ caches # Nothing
  /\ caches' = Nothing
  /\ UNCHANGED <<proc, keyLength, pending, tmp, snap, readVars, scans, saved, lost, durable>>

-----------------------------------------------------------------------------
Kept(c) == Restrict(c, {t \in DOMAIN c : c[t].len > 0 /\ DOMAIN c[t].pages # {}})

\* A page: its number and the length of its array, then the bytes if there are any.
PageFields(pages, p) ==
  <<<<"page", p, pages[p].len>>>> \o (IF pages[p] = NoKeys THEN <<>> ELSE <<<<"keys", pages[p]>>>>)

TableFields(c, t) ==
  LET ps == SetToSeq(DOMAIN c[t].pages)
  IN  <<<<"name", t>>, <<"pk_byte_len", c[t].len>>, <<"n_pages", Len(ps)>>>>
      \o FlattenSeq([j \in 1..Len(ps) |-> PageFields(c[t].pages, ps[j])])

\* Mutant: n_tables counts the tables that are passed over, too.
CountsAllTables(c) ==
  LET ts == SetToSeq(DOMAIN Kept(c))
  IN  <<<<"FDBS">>, <<"n_tables", Cardinality(DOMAIN c)>>>>
      \o FlattenSeq([j \in 1..Len(ts) |-> TableFields(c, ts[j])])

\* The buffer of save_snapshots; the maps are gone through in some order.
FileOf(c) ==
  LET ts == SetToSeq(DOMAIN Kept(c))
  IN  <<<<"FDBS">>, <<"n_tables", Len(ts)>>>>
      \o FlattenSeq([j \in 1..Len(ts) |-> TableFields(c, ts[j])])

\* Opening the temporary file empties it.
BeginSave ==
  /\ proc = "ready"
  /\ proc' = "save"
  /\ tmp' = <<>>
  /\ fields' = FileOf(caches)
  /\ UNCHANGED <<keyLength, caches, pending, snap, tablesLeft, pagesLeft, name, scans, saved, lost, durable>>

WriteField ==
  /\ proc = "save"
  /\ fields # <<>>
  /\ tmp' = Append(tmp, Head(fields))
  /\ fields' = Tail(fields)
  /\ UNCHANGED <<proc, keyLength, caches, pending, snap, tablesLeft, pagesLeft, name, scans, saved, lost, durable>>

\* The directory is not synced: until the system does so of itself, the rename
\* is in memory only, and the disk has the file of this or of an earlier save.
Rename ==
  /\ proc = "save"
  /\ fields = <<>>
  /\ proc' = "ready"
  /\ snap' = tmp /\ tmp' = <<>>
  /\ saved' = Kept(caches)
  /\ lost' = FALSE
  /\ durable' \in {durable, InPlace}
  /\ UNCHANGED <<keyLength, caches, pending, readVars, scans>>

\* The disk is full: a warning, and the loop goes on.
SaveFails ==
  /\ proc = "save"
  /\ proc' = "ready"
  /\ fields' = <<>>
  /\ UNCHANGED <<keyLength, caches, pending, tmp, snap, tablesLeft, pagesLeft, name, scans, saved, lost, durable>>

-----------------------------------------------------------------------------
\* The header; a file that is missing or too short has no tables.
Load ==
  /\ proc = "down"
  /\ pending' = Nothing
  /\ pagesLeft' = 0
  /\ IF Len(snap) >= 2
     THEN /\ proc' = "load"
          /\ tablesLeft' = snap[2][2]
          /\ fields' = SubSeq(snap, 3, Len(snap))
     ELSE proc' = "ready" /\ tablesLeft' = 0 /\ fields' = <<>>
  /\ UNCHANGED <<keyLength, caches, tmp, snap, name, scans, saved, lost, durable>>

LoadRest == UNCHANGED <<keyLength, caches, tmp, snap, scans, saved, lost, durable>>

\* Mutant: the pages go to the table read before.
ReadTableUnderOldName ==
  /\ proc = "load" /\ pagesLeft = 0 /\ tablesLeft > 0
  /\ Len(fields) >= 3
  /\ tablesLeft' = tablesLeft - 1
  /\ pending' = Put(pending, name, [len |-> fields[2][2], pages |-> Nothing])
  /\ pagesLeft' = fields[3][2]
  /\ fields' = SubSeq(fields, 4, Len(fields))
  /\ UNCHANGED <<proc, name>>
  /\ LoadRest

ReadTable ==
  /\ proc = "load" /\ pagesLeft = 0 /\ tablesLeft > 0
  /\ Len(fields) >= 3
  /\ tablesLeft' = tablesLeft - 1
  /\ name' = fields[1][2]
  /\ pending' = Put(pending, fields[1][2], [len |-> fields[2][2], pages |-> Nothing])
  /\ pagesLeft' = fields[3][2]
  /\ fields' = SubSeq(fields, 4, Len(fields))
  /\ UNCHANGED proc
  /\ LoadRest

\* How many fields the page in front of `fields` has.
PageWidth == IF fields # <<>> /\ fields[1][3] # 0 THEN 2 ELSE 1

ReadPage ==
  /\ proc = "load" /\ pagesLeft > 0
  /\ Len(fields) >= PageWidth
  /\ pagesLeft' = pagesLeft - 1
  /\ pending' = [pending EXCEPT ![name].pages =
                   Put(@, fields[1][2], IF PageWidth = 1 THEN NoKeys ELSE fields[2][2])]
  /\ fields' = SubSeq(fields, PageWidth + 1, Len(fields))
  /\ UNCHANGED <<proc, tablesLeft, name>>
  /\ LoadRest

\* A field is missing: everything read so far is dropped. Zeroes in its place
\* read as tables without a name and as pages 0 without keys, which nobody asks
\* for: what was read before them stays.
ReadShort ==
  /\ proc = "load"
  /\ \/ pagesLeft = 0 /\ tablesLeft > 0 /\ Len(fields) < 3
     \/ pagesLeft > 0 /\ Len(fields) < PageWidth
  /\ proc' = "ready"
  /\ pending' \in {Nothing} \cup {m \in {pending} : "zeroes" \in SnapEnv}
  /\ fields' = <<>> /\ tablesLeft' = 0 /\ pagesLeft' = 0
  /\ UNCHANGED name
  /\ LoadRest

\* What comes behind the last table is not looked at.
ReadEnd ==
  /\ proc = "load" /\ pagesLeft = 0 /\ tablesLeft = 0
  /\ proc' = "ready"
  /\ fields' = <<>>
  /\ UNCHANGED <<pending, tablesLeft, pagesLeft, name>>
  /\ LoadRest

-----------------------------------------------------------------------------
\* The process dies, with its memory.
Die ==
  /\ proc # "down"
  /\ proc' = "down"
  /\ caches' = Nothing /\ pending' = Nothing
  /\ fields' = <<>> /\ tablesLeft' = 0 /\ pagesLeft' = 0
  /\ UNCHANGED <<keyLength, tmp, snap, name, scans, saved, lost, durable>>

\* A power failure: no file was synced. The renames since may be undone, and of
\* the file that is there then any part at its end is missing.
LosePower ==
  /\ "power" \in SnapEnv
  /\ proc # "down"
  /\ proc' = "down"
  /\ caches' = Nothing /\ pending' = Nothing
  /\ fields' = <<>> /\ tablesLeft' = 0 /\ pagesLeft' = 0
  /\ \E f \in {InPlace, durable} : \E k \in 0..Len(f.snap) :
       /\ snap' = SubSeq(f.snap, 1, k)
       /\ saved' = f.saved
       /\ lost' = (f.lost \/ k < Len(f.snap))
  /\ durable' = InPlace'
  /\ tmp' = <<>>
  /\ UNCHANGED <<keyLength, name, scans>>

\* ALTER TABLE gives the key of t another type; unless SnapEnv has "retype",
\* only if nothing is remembered of t.
RetypeKey(t, len) ==
  /\ "retype" \in SnapEnv \/ t \notin UNION {DOMAIN m : m \in {saved, durable.saved, caches, pending}}
  /\ keyLength[t] # len
  /\ keyLength' = [keyLength EXCEPT ![t] = len]
  /\ UNCHANGED <<proc, caches, pending, tmp, snap, readVars, scans, saved, lost, durable>>

SnapNext ==
  \/ \E t \in SnapTables : BuildCache(t) \/ (\E p \in SnapPages : ScanKeys(t, p))
                           \/ (\E len \in KeyLengths : RetypeKey(t, len))
  \/ Remap \/ BeginSave \/ WriteField \/ Rename \/ SaveFails
  \/ Load \/ ReadTable \/ ReadPage \/ ReadShort \/ ReadEnd
  \/ Die \/ LosePower

SnapSpec == SnapInit /\ [][SnapNext]_snapVars

-----------------------------------------------------------------------------
(***************************************************************************)
(* A start finds the snapshots of the last save that was completed, whole, *)
(* whatever a later save has left behind; only if power failed may it find *)
(* those of an earlier save, or none, and never a part of them.            *)
(* (save_snapshots, load_snapshots)                                        *)
(***************************************************************************)
LoadIsWhole ==
  [][proc # "ready" /\ proc' = "ready" /\ proc # "save"
       => pending' = saved \/ (lost /\ pending' = Nothing)]_snapVars

(***************************************************************************)
(* The arrays of a cache have chunks of the length they are searched with. *)
(* (run_watch, sync_table: the hydrated snapshot)                          *)
(***************************************************************************)
ChunksHaveKeyLength ==
  \A t \in DOMAIN caches : \A p \in DOMAIN caches[t].pages :
     caches[t].pages[p] # NoKeys => caches[t].pages[p].len = caches[t].len

=============================================================================
