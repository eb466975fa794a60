----------------------------- MODULE SchemaSync ------------------------------
(***************************************************************************)
(* A table whose columns change (ALTER TABLE): Firebird leaves every record*)
(* in the format it was written under, and extract.rs, schema.rs and cdc.rs*)
(* must find the right layout for each of them, in the dump that seeds the *)
(* replica and in the deltas, whose layouts are cached.                    *)
(*                                                                         *)
(* Columns are field ids.  A version of a row has one value in all of its  *)
(* columns: the number of the version.  SchemaEnv names what the           *)
(* surroundings may do beyond adding and dropping columns while the        *)
(* process is down and seeding the replica again before it goes on.        *)
(***************************************************************************)
EXTENDS Integers, SequencesExt, Maps

CONSTANTS
  SyncRows,       \* rows, by the value of their key
  KeyColumn,      \* the field id of the key
  FirstColumns,   \* the table as it was created
  Widths,         \* bytes of a column type
  SchemaEnv,      \* see above: a subset of Alterations
  MaxFormats, MaxVersion     \* bounds: ALTER TABLEs and writes

Alterations == {
  "retype",       \* a column with values is given a wider type
  "dumpAlter",    \* ALTER TABLE while the dump is read
  "watchAlter",   \* ALTER TABLE while the loop runs
  "uncollected",  \* the catalog row of a dropped column is still there as an old version
  "resume" }      \* the loop is started again after ALTER TABLE without a new dump

ASSUME SchemaSyncAssumption ==
  /\ SyncRows \subseteq Nat \ {0}
  /\ FirstColumns \subseteq Nat /\ IsFiniteSet(FirstColumns) /\ KeyColumn \in FirstColumns
  /\ Widths \subseteq Nat \ {0} /\ Widths # {}
  /\ SchemaEnv \subseteq Alterations
  /\ MaxFormats \in Nat /\ MaxVersion \in Nat

VARIABLES
  formats,        \* RDB$FORMATS: format n maps its columns to their widths
  columns,        \* RDB$RELATION_FIELDS as it is read: the columns, by name
  record,         \* the head version of each row; a stub keeps what it deleted
  clock,          \* versions written
  wrote,          \* history: all of them
  daemon,         \* "down", "copy": a FULL, "watch": the loop
  ddl,            \* the FULL's CREATE TABLE: columns and widths
  order,          \* its field_order, of which the order is left out
  todo, staged,   \* rows to copy, and copied
  known,          \* TableCache: columns, and how many formats there were; 0 = no cache
  dirty,          \* rows changed since the last delta was applied
  target,         \* the replica: columns with widths, rows by key
  refused         \* history: a dump was refused, or a delta for the table as it is

catalogVars == <<formats, columns, record, clock, wrote>>
pushVars    == <<ddl, order, todo, staged>>
schemaVars  == <<catalogVars, daemon, pushVars, known, dirty, target, refused>>

NULL    == 0
Garbage == -1       \* bytes of another column
Bogus   == 0        \* a key read from them
TEXT    == 0        \* the width of a column that takes no number
NoSlots == [columns |-> {}, fmts |-> 0]
NoTable == [cols |-> [c \in {} |-> 0], rows |-> [k \in {} |-> 0]]
Latest  == formats[Len(formats)]

\* No dump is under way.
NoDump == ddl' = NoTable.cols /\ order' = {} /\ todo' = {} /\ staged' = NoTable.rows

SchemaTypeOK ==
  /\ \A n \in DOMAIN formats : formats[n] \in [DOMAIN formats[n] -> Widths]
  /\ DOMAIN Latest \subseteq columns
  /\ record \in [SyncRows -> [fmt : DOMAIN formats, ver : 0..MaxVersion, live : BOOLEAN]]
  /\ daemon \in {"down", "copy", "watch"}
  /\ todo \subseteq SyncRows /\ dirty \subseteq SyncRows
  /\ known.fmts \in 0..Len(formats)
  /\ DOMAIN target.rows \subseteq SyncRows \cup {Bogus}
  /\ \A k \in DOMAIN target.rows : DOMAIN target.rows[k] = DOMAIN target.cols

SchemaInit ==
  /\ formats = <<[c \in FirstColumns |-> Min(Widths)]>>
  /\ columns = FirstColumns
  /\ record = [k \in SyncRows |-> [fmt |-> 1, ver |-> 0, live |-> FALSE]]
  /\ clock = 0
  /\ wrote = {}
  /\ daemon = "down"
  /\ ddl = NoTable.cols /\ order = {} /\ todo = {} /\ staged = NoTable.rows
  /\ known = NoSlots
  /\ dirty = {}
  /\ target = NoTable
  /\ refused = FALSE

-----------------------------------------------------------------------------
(***************************************************************************)
(* Firebird.  A dropped column takes no place in the formats that follow;  *)
(* field ids are not used again.                                           *)
(***************************************************************************)
\* INSERT, UPDATE and DELETE at any time; a row that is new has its own format.
WriteRow(k, live) ==
  /\ clock < MaxVersion
  /\ live \/ record[k].live
  /\ clock' = clock + 1
  /\ record' = [record EXCEPT ![k] = IF live THEN [fmt |-> Len(formats), ver |-> clock', live |-> TRUE]
                                     ELSE [@ EXCEPT !.live = FALSE]]
  /\ wrote' = IF live THEN wrote \cup {[key |-> k, fmt |-> Len(formats), ver |-> clock']} ELSE wrote
  /\ dirty' = dirty \cup {k}
  /\ UNCHANGED <<formats, columns, daemon, pushVars, known, target, refused>>

MayAlter ==
  \/ daemon = "down"
  \/ daemon = "copy" /\ "dumpAlter" \in SchemaEnv
  \/ daemon = "watch" /\ "watchAlter" \in SchemaEnv

Alter(format, cs) ==
  /\ MayAlter
  /\ Len(formats) < MaxFormats
  /\ formats' = Append(formats, format)
  /\ columns' = cs
  /\ UNCHANGED <<record, clock, wrote, daemon, pushVars, known, dirty, target, refused>>

AddColumn(width) ==
  LET c == Max(UNION {DOMAIN formats[n] : n \in DOMAIN formats}) + 1
  IN  Alter(Put(Latest, c, width), columns \cup {c})

\* Old versions count when the catalog is read (unpack_record_meta).
DropColumn(c) ==
  /\ c # KeyColumn
  /\ \E cs \in {columns \ {c}} \cup
               (IF "uncollected" \in SchemaEnv THEN {columns} ELSE {}) :
       Alter(Restrict(Latest, DOMAIN Latest \ {c}), cs)

\* Without "retype", only in a table that has no rows.
RetypeColumn(c, width) ==
  /\ "retype" \in SchemaEnv \/ (daemon = "down" /\ \A k \in SyncRows : ~record[k].live)
  /\ c # KeyColumn /\ width > Latest[c]
  /\ Alter([Latest EXCEPT ![c] = width], columns)

-----------------------------------------------------------------------------
(***************************************************************************)
(* A field of a record, read where the format g has it: NULL if g has no   *)
(* such column or the record is too short; its value if the record's own   *)
(* format has the column there.                                            *)
(***************************************************************************)
Offset(g, c) == FoldFunctionOnSet(+, 0, g, {d \in DOMAIN g : d < c})

Field(rec, g, c) ==
  LET own == formats[rec.fmt]
  IN  IF c \notin DOMAIN g THEN NULL
      ELSE IF c \in DOMAIN own /\ own[c] = g[c] /\ Offset(own, c) = Offset(g, c) THEN rec.ver
      ELSE IF Offset(g, c) + g[c] > FoldFunction(+, 0, own) THEN NULL
      ELSE Garbage

KeyOf(k, g) == IF Field(record[k], g, KeyColumn) = record[k].ver THEN k ELSE Bogus

\* PostgreSQL takes a value of the column's width, or NULL.
Fits(rec, g, cs, table) ==
  \A c \in cs : c \in DOMAIN table /\ (Field(rec, g, c) # NULL => g[c] = table[c])

Decoded(rec, g, cs) == [c \in cs |-> Field(rec, g, c)]

-----------------------------------------------------------------------------
(***************************************************************************)
(* A FULL (push_full).                                                     *)
(***************************************************************************)
\* Mutant: the columns are described by the first format that is found.
DdlOfAnyFormat ==
  [c \in columns |-> IF c \in DOMAIN formats[1] THEN formats[1][c] ELSE 0]

\* create_table_sql_from: the columns by their latest format, TEXT if it has none.
DdlNow == [c \in columns |-> IF c \in DOMAIN Latest THEN Latest[c] ELSE TEXT]

\* The catalog is read, for the DDL and for the fields of the COPY.
BeginFull ==
  /\ daemon = "down"
  /\ daemon' = "copy"
  /\ ddl' = DdlNow
  /\ order' = columns
  /\ todo' = SyncRows
  /\ staged' = NoTable.rows
  /\ UNCHANGED <<catalogVars, known, dirty, target, refused>>

\* write_copy_stream looks up a record's own format when it meets it.
DumpFormat(k) == formats[record[k].fmt]

CopyRow(k) ==
  LET g == DumpFormat(k)
  IN  /\ daemon = "copy"
      /\ k \in todo
      /\ IF ~record[k].live
         THEN todo' = todo \ {k} /\ UNCHANGED <<daemon, ddl, order, staged, refused>>
         ELSE IF Fits(record[k], g, order, ddl) /\ KeyOf(k, g) \notin DOMAIN staged
         THEN /\ todo' = todo \ {k}
              /\ staged' = Put(staged, KeyOf(k, g), Decoded(record[k], g, order))
              /\ UNCHANGED <<daemon, ddl, order, refused>>
         ELSE \* the gateway rejects the FULL, the agent exits
              daemon' = "down" /\ refused' = TRUE /\ NoDump
      /\ UNCHANGED <<catalogVars, known, dirty, target>>

\* The swap, and the agent goes on to the loop.
FinishFull ==
  /\ daemon = "copy"
  /\ todo = {}
  /\ target' = [cols |-> ddl, rows |-> staged]
  /\ daemon' = "watch"
  /\ NoDump
  /\ UNCHANGED <<catalogVars, known, dirty, refused>>

-----------------------------------------------------------------------------
(***************************************************************************)
(* The loop.                                                               *)
(***************************************************************************)
\* fdb-extract --watch starts with no FULL.
Resume ==
  /\ daemon = "down"
  /\ "resume" \in SchemaEnv \/ target.cols = Latest
  /\ daemon' = "watch"
  /\ UNCHANGED <<catalogVars, pushVars, known, dirty, target, refused>>

\* sync_table fills its cache on first use.
Slots == IF known.fmts > 0 THEN known ELSE [columns |-> columns, fmts |-> Len(formats)]

\* Mutant: every record is decoded by the slots of the latest format.
SlotsOfLatest(k) == formats[Slots.fmts]

\* slots_for: the record's format, or the latest one of the cache.
SlotsFor(k) == formats[IF record[k].fmt <= Slots.fmts THEN record[k].fmt ELSE Slots.fmts]

\* Mutant: the keys of deletes are encoded by the slots of the latest format.
DeleteKeyByLatest(k) == KeyOf(k, formats[Slots.fmts])

\* encode_pk_pgcopy, on the version that a stub deleted.
DeleteKey(k) == KeyOf(k, SlotsFor(k))

Ups  == {k \in dirty : record[k].live}
Dels == {DeleteKey(k) : k \in {d \in dirty : ~record[d].live}}

Accepted ==
  /\ Slots.columns \subseteq DOMAIN target.cols
  /\ \A k \in Ups : Fits(record[k], SlotsFor(k), Slots.columns, target.cols)
  /\ \A j, k \in Ups : KeyOf(j, SlotsFor(j)) = KeyOf(k, SlotsFor(k)) => j = k

\* Columns the delta does not name keep what they held.
Applied ==
  LET kept == Restrict(target.rows, DOMAIN target.rows \ Dels)
      row(k) == Overlay(Decoded(record[k], SlotsFor(k), Slots.columns),
                        IF KeyOf(k, SlotsFor(k)) \in DOMAIN kept THEN kept[KeyOf(k, SlotsFor(k))]
                        ELSE [c \in DOMAIN target.cols |-> NULL])
      new == {KeyOf(k, SlotsFor(k)) : k \in Ups}
  IN  Overlay([x \in new |-> row(CHOOSE k \in Ups : KeyOf(k, SlotsFor(k)) = x)], kept)

Sync ==
  /\ daemon = "watch"
  /\ dirty # {}
  /\ known' = Slots
  /\ IF Accepted
     THEN dirty' = {} /\ target' = [target EXCEPT !.rows = Applied] /\ UNCHANGED refused
     ELSE refused' = (refused \/ target.cols = Latest) /\ UNCHANGED <<dirty, target>>
  /\ UNCHANGED <<catalogVars, daemon, pushVars>>

\* The file has grown.
DropSlots ==
  /\ daemon = "watch"
  /\ known # NoSlots
  /\ known' = NoSlots
  /\ UNCHANGED <<catalogVars, daemon, pushVars, dirty, target, refused>>

\* The process ends, at any step.
End ==
  /\ daemon # "down"
  /\ daemon' = "down"
  /\ known' = NoSlots
  /\ NoDump
  /\ UNCHANGED <<catalogVars, dirty, target, refused>>

SchemaNext ==
  \/ \E k \in SyncRows : CopyRow(k) \/ (\E live \in BOOLEAN : WriteRow(k, live))
  \/ \E w \in Widths : AddColumn(w) \/ (\E c \in DOMAIN Latest : RetypeColumn(c, w))
  \/ \E c \in DOMAIN Latest : DropColumn(c)
  \/ BeginFull \/ FinishFull \/ Resume \/ Sync \/ DropSlots \/ End

SchemaSpec == SchemaInit /\ [][SchemaNext]_schemaVars

-----------------------------------------------------------------------------
Common == columns \cap DOMAIN target.cols

\* What the replica should hold of a version.
Image(format, ver) == [c \in Common |-> IF c \in DOMAIN format THEN ver ELSE NULL]

(***************************************************************************)
(* Every row of the replica is one version Firebird wrote to the row of    *)
(* that key, with NULL where the version is older than the column, however *)
(* often the table was altered; of a dropped column nothing is asked.      *)
(* (slots_for_format, build_slots, slots_for)                              *)
(***************************************************************************)
RowsDecodeRight ==
  \A k \in DOMAIN target.rows :
    \E w \in wrote : w.key = k /\ Restrict(target.rows[k], Common) = Image(formats[w.fmt], w.ver)

(***************************************************************************)
(* PostgreSQL takes every dump, and every delta while the replica has the  *)
(* columns of the table: what is sent for a row fits the table, whichever  *)
(* format the row has.  (create_table_sql_from, copy_slots,                *)
(* write_copy_stream, sync_table)                                          *)
(***************************************************************************)
NothingRefused == ~refused

(***************************************************************************)
(* While the loop runs and has nothing left to send, the replica holds the *)
(* rows of the table and no other, so the delete of a row that was written *)
(* under an old format found it.  (encode_pk_pgcopy)                       *)
(***************************************************************************)
CleanIsWhole ==
  daemon = "watch" /\ dirty = {} =>
    /\ DOMAIN target.rows = {k \in SyncRows : record[k].live}
    /\ \A k \in DOMAIN target.rows :
         Restrict(target.rows[k], Common) = Image(formats[record[k].fmt], record[k].ver)

=============================================================================
