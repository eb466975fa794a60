---------------------------- MODULE Parts_proofs -----------------------------
(***************************************************************************)
(* Theorems about five of the parts that MCParts runs side by side:        *)
(* altered tables (SchemaSync), the decompressor (Sqz), the wire (Wire),   *)
(* the migration (Migrate) and fragmented rows (Fragments).                *)
(***************************************************************************)
EXTENDS SchemaSync, Sqz, Wire, Migrate, Fragments, Joined

-----------------------------------------------------------------------------
(***************************************************************************)
(* Altered tables (SchemaSync).                                            *)
(*                                                                         *)
(* What the theorems ask of the surroundings: the catalog is clean, columns*)
(* with values keep their type, and nobody alters the table while the loop *)
(* runs.  It may be altered during a dump and between two runs.            *)
(***************************************************************************)
AltersAtRest == SchemaEnv \subseteq {"dumpAlter", "resume"}

OwnFormat(k) == formats[record[k].fmt]
EverColumns  == UNION {DOMAIN formats[n] : n \in DOMAIN formats}
Formats      == UNION {[d -> Widths] : d \in {e \in SUBSET Nat : IsFiniteSet(e) /\ KeyColumn \in e}}
Records      == [fmt : DOMAIN formats, ver : 0..MaxVersion, live : BOOLEAN]
Versions     == [key : SyncRows, fmt : DOMAIN formats, ver : 0..MaxVersion]

\* What a version is decoded to for the columns cs by its own format.
Seen(format, ver, cs) == [c \in cs |-> IF c \in DOMAIN format THEN ver ELSE NULL]

\* The row shows that version in the columns cs.
Shows(row, format, ver, cs) == \A c \in cs : row[c] = IF c \in DOMAIN format THEN ver ELSE NULL

\* Two formats give the columns they share the same width.
Agree(f, g) == \A c \in DOMAIN f \cap DOMAIN g : f[c] = g[c]

\* The catalog: the columns are those of the latest format, and the format of a
\* record of today gives those it shares with the latest the same width.
CatalogInv ==
  /\ formats \in Seq(Formats) /\ Len(formats) >= 1
  /\ columns = DOMAIN Latest
  /\ record \in [SyncRows -> Records]
  /\ clock \in 0..MaxVersion
  /\ wrote \subseteq Versions
  /\ \A k \in SyncRows : record[k].live => [key |-> k, fmt |-> record[k].fmt, ver |-> record[k].ver] \in wrote
  /\ \A k \in SyncRows : record[k].live => Agree(OwnFormat(k), Latest)

\* What the loop has cached is what the catalog says, and nothing was refused.
CacheInv ==
  /\ daemon \in {"down", "copy", "watch"}
  /\ known # NoSlots => daemon = "watch" /\ known = [columns |-> columns, fmts |-> Len(formats)]
  /\ dirty \subseteq SyncRows
  /\ ~refused

\* A dump: what is staged are versions that were written; a row that is staged,
\* or passed over, and has not changed since, is staged as it is.
DumpInv ==
  /\ order = DOMAIN ddl /\ order \subseteq EverColumns
  /\ todo \subseteq SyncRows
  /\ DOMAIN staged \subseteq SyncRows \ todo
  /\ \A k \in DOMAIN staged : \E w \in wrote : w.key = k /\ staged[k] = Seen(formats[w.fmt], w.ver, order)
  /\ daemon = "copy" =>
       /\ Agree(ddl, Latest)
       /\ \A k \in SyncRows : record[k].live => Agree(OwnFormat(k), ddl)
       /\ \A k \in SyncRows \ (todo \cup dirty) :
            /\ k \in DOMAIN staged <=> record[k].live
            /\ record[k].live => staged[k] = Seen(OwnFormat(k), record[k].ver, order)

\* The replica, as far as its columns are still columns of the table; a column
\* that the table has lost does not come back.
ReplicaInv ==
  /\ DOMAIN target.cols \subseteq EverColumns
  /\ DOMAIN target.rows \subseteq SyncRows
  /\ target = [cols |-> target.cols, rows |-> target.rows]
  /\ \A k \in DOMAIN target.rows :
       /\ DOMAIN target.rows[k] = DOMAIN target.cols
       /\ \E w \in wrote : w.key = k /\ Shows(target.rows[k], formats[w.fmt], w.ver, Common)
  /\ \A k \in SyncRows \ dirty :
       /\ k \in DOMAIN target.rows <=> record[k].live
       /\ record[k].live => Shows(target.rows[k], OwnFormat(k), record[k].ver, Common)

SchemaInv == CatalogInv /\ CacheInv /\ DumpInv /\ ReplicaInv

LEMMA OwnField ==
  ASSUME NEW rec, NEW c
  PROVE  Field(rec, formats[rec.fmt], c) = IF c \in DOMAIN formats[rec.fmt] THEN rec.ver ELSE NULL
BY DEF Field

LEMMA OwnDecoded ==
  ASSUME NEW rec, NEW cs
  PROVE  Decoded(rec, formats[rec.fmt], cs) = Seen(formats[rec.fmt], rec.ver, cs)
BY OwnField DEF Decoded, Seen

\* The formats and the records, whatever the surroundings do.
TypedCatalog ==
  /\ formats \in Seq(Formats) /\ Len(formats) >= 1
  /\ record \in [SyncRows -> Records]
  /\ clock \in 0..MaxVersion

LEMMA TypedFormats ==
  ASSUME TypedCatalog
  PROVE  /\ DOMAIN formats = 1..Len(formats) /\ Len(formats) \in DOMAIN formats /\ Len(formats) \in Nat
         /\ \A n \in DOMAIN formats : /\ formats[n] \in Formats
                                      /\ KeyColumn \in DOMAIN formats[n]
                                      /\ DOMAIN formats[n] \subseteq Nat /\ IsFiniteSet(DOMAIN formats[n])
         /\ \A k \in SyncRows : record[k] \in Records /\ record[k].fmt \in DOMAIN formats
<1>1. formats \in Seq(Formats) /\ Len(formats) >= 1 /\ record \in [SyncRows -> Records]
  BY DEF TypedCatalog
<1>2. DOMAIN formats = 1..Len(formats) /\ Len(formats) \in Nat
  BY <1>1
<1>3. ASSUME NEW n \in DOMAIN formats
      PROVE  /\ formats[n] \in Formats /\ KeyColumn \in DOMAIN formats[n]
             /\ DOMAIN formats[n] \subseteq Nat /\ IsFiniteSet(DOMAIN formats[n])
  BY <1>1, <1>2 DEF Formats
<1> QED
  BY <1>1, <1>2, <1>3 DEF Records

LEMMA NewColumn ==
  ASSUME TypedCatalog
  PROVE  /\ Max(EverColumns) + 1 \in Nat \ EverColumns
         /\ \A n \in DOMAIN formats : DOMAIN formats[n] \subseteq EverColumns
<1> DEFINE T == {DOMAIN formats[n] : n \in DOMAIN formats}
<1>1. IsFiniteSet(T)
  <2>1. IsFiniteSet(DOMAIN formats)
    <3>1. DOMAIN formats = 1..Len(formats) /\ 1 \in Int /\ Len(formats) \in Int
      BY TypedFormats
    <3>2. IsFiniteSet(1..Len(formats))
      BY <3>1, FS_Interval
    <3> QED
      BY <3>1, <3>2
  <2> DEFINE f == [n \in DOMAIN formats |-> DOMAIN formats[n]]
  <2>2. f \in Surjection(DOMAIN formats, T)
    BY DEF Surjection
  <2> HIDE DEF f, T
  <2> QED
    BY <2>1, <2>2, FS_Surjection
<1>2. \A d \in T : IsFiniteSet(d)
  BY TypedFormats
<1>3. EverColumns = UNION T
  BY DEF EverColumns
<1>4. IsFiniteSet(EverColumns)
  <2> HIDE DEF T
  <2> QED
    BY <1>1, <1>2, <1>3, FS_UNION
<1>5. EverColumns \subseteq Nat /\ KeyColumn \in EverColumns
  BY TypedFormats DEF EverColumns
<1>6. Max(EverColumns) \in EverColumns /\ \A y \in EverColumns : y <= Max(EverColumns)
  BY <1>4, <1>5, MaxIsThere
<1>7. \A n \in DOMAIN formats : DOMAIN formats[n] \subseteq EverColumns
  BY DEF EverColumns
<1>8. Max(EverColumns) \in Nat
  BY <1>5, <1>6
<1>9. Max(EverColumns) + 1 \notin EverColumns
  BY <1>6, <1>8
<1> QED
  BY <1>7, <1>8, <1>9

LEMMA FormatFacts ==
  ASSUME CatalogInv
  PROVE  /\ DOMAIN formats = 1..Len(formats) /\ Len(formats) \in DOMAIN formats /\ Len(formats) \in Nat
         /\ \A n \in DOMAIN formats : /\ formats[n] \in Formats
                                      /\ KeyColumn \in DOMAIN formats[n]
                                      /\ DOMAIN formats[n] \subseteq Nat /\ IsFiniteSet(DOMAIN formats[n])
         /\ \A k \in SyncRows : record[k] \in Records /\ record[k].fmt \in DOMAIN formats
BY TypedFormats DEF CatalogInv, TypedCatalog

LEMMA OwnKey ==
  ASSUME CatalogInv, NEW k \in SyncRows
  PROVE  KeyOf(k, OwnFormat(k)) = k
<1>1. KeyColumn \in DOMAIN OwnFormat(k)
  BY FormatFacts DEF OwnFormat
<1>2. Field(record[k], OwnFormat(k), KeyColumn) = record[k].ver
  BY <1>1, OwnField DEF OwnFormat
<1> QED
  BY <1>2 DEF KeyOf

LEMMA FreshColumn ==
  ASSUME CatalogInv
  PROVE  /\ Max(EverColumns) + 1 \in Nat \ EverColumns
         /\ \A n \in DOMAIN formats : DOMAIN formats[n] \subseteq EverColumns
BY NewColumn DEF CatalogInv, TypedCatalog

LEMMA InFormats ==
  ASSUME NEW d \in SUBSET Nat, IsFiniteSet(d), KeyColumn \in d, NEW f \in [d -> Widths]
  PROVE  f \in Formats
<1> DEFINE ds == {e \in SUBSET Nat : IsFiniteSet(e) /\ KeyColumn \in e}
<1>1. d \in ds
  OBVIOUS
<1>2. Formats = UNION {[e -> Widths] : e \in ds}
  BY DEF Formats
<1> HIDE DEF ds
<1> QED
  BY <1>1, <1>2

LEMMA SchemaInvInit == SchemaInit => SchemaInv
<1> SUFFICES ASSUME SchemaInit PROVE SchemaInv
  OBVIOUS
<1> DEFINE first == [c \in FirstColumns |-> Min(Widths)]
<1>1. first \in Formats
  <2>1. Min(Widths) \in Widths
    BY MinIsThere, SchemaSyncAssumption
  <2> QED
    BY <2>1, SchemaSyncAssumption, InFormats
<1>2. formats = <<first>> /\ columns = FirstColumns /\ DOMAIN first = FirstColumns
  BY DEF SchemaInit
<1> HIDE DEF first
<1>3. formats \in Seq(Formats) /\ Len(formats) = 1 /\ Latest = first /\ DOMAIN formats = 1..1
  BY <1>1, <1>2 DEF Latest
<1>4. record = [k \in SyncRows |-> [fmt |-> 1, ver |-> 0, live |-> FALSE]] /\ clock = 0 /\ wrote = {}
  BY DEF SchemaInit
<1>5. CatalogInv
  BY <1>2, <1>3, <1>4, SchemaSyncAssumption DEF CatalogInv, Records
<1>6. CacheInv
  BY DEF SchemaInit, CacheInv
<1>7. DumpInv
  BY DEF SchemaInit, DumpInv, NoTable
<1>8. ReplicaInv
  <2>1. target = NoTable /\ dirty = {} /\ DOMAIN NoTable.rows = {} /\ DOMAIN NoTable.cols = {}
    BY DEF SchemaInit, NoTable
  <2>2. target = [cols |-> target.cols, rows |-> target.rows]
    BY <2>1 DEF NoTable
  <2> QED
    BY <1>4, <2>1, <2>2 DEF ReplicaInv
<1> QED
  BY <1>5, <1>6, <1>7, <1>8 DEF SchemaInv

-----------------------------------------------------------------------------
LEMMA WriteRowKeeps ==
  ASSUME SchemaInv, NEW k \in SyncRows, NEW live \in BOOLEAN, WriteRow(k, live)
  PROVE  SchemaInv'
<1> USE DEF SchemaInv
<1>1. UNCHANGED <<formats, columns, daemon, ddl, order, todo, staged, known, target, refused>>
  BY DEF WriteRow, pushVars
<1>2. Latest' = Latest /\ EverColumns' = EverColumns /\ Common' = Common
  BY <1>1 DEF Latest, EverColumns, Common
<1>3. clock' = clock + 1 /\ clock' \in 0..MaxVersion
  BY SchemaSyncAssumption DEF WriteRow, CatalogInv
<1>4. /\ \A j \in SyncRows \ {k} : record'[j] = record[j]
      /\ DOMAIN record' = SyncRows
      /\ wrote \subseteq wrote'
      /\ dirty' = dirty \cup {k}
  BY DEF WriteRow, CatalogInv
<1>5. IF live THEN /\ record'[k] = [fmt |-> Len(formats), ver |-> clock', live |-> TRUE]
                   /\ wrote' = wrote \cup {[key |-> k, fmt |-> Len(formats), ver |-> clock']}
      ELSE record'[k] = [record[k] EXCEPT !.live = FALSE] /\ wrote' = wrote
  BY DEF WriteRow, CatalogInv
<1>6. record'[k] \in Records /\ wrote' \subseteq Versions /\ record'[k].live = live
  <2>1. Len(formats) \in DOMAIN formats /\ record[k] \in Records /\ wrote \subseteq Versions
    BY FormatFacts DEF CatalogInv
  <2>2. CASE live
    <3>0. record'[k] = [fmt |-> Len(formats), ver |-> clock', live |-> TRUE]
      BY <1>5, <2>2
    <3>1. record'[k] \in Records /\ record'[k].live
      BY <1>3, <2>1, <3>0 DEF Records
    <3>2. [key |-> k, fmt |-> Len(formats), ver |-> clock'] \in Versions
      BY <1>3, <2>1 DEF Versions
    <3> QED
      BY <1>5, <2>1, <2>2, <3>1, <3>2
  <2>3. CASE ~live
    BY <1>5, <2>1, <2>3 DEF Records
  <2> QED
    BY <2>2, <2>3
<1>7. record'[k].live => OwnFormat(k)' = Latest /\ [key |-> k, fmt |-> record'[k].fmt, ver |-> record'[k].ver] \in wrote'
  BY <1>1, <1>5, <1>6 DEF OwnFormat, Latest
<1>8. \A j \in SyncRows \ {k} : OwnFormat(j)' = OwnFormat(j)
  BY <1>1, <1>4 DEF OwnFormat
<1>9. CatalogInv'
  <2>1. record' \in [SyncRows -> Records]
    <3>1. \A j \in SyncRows : record'[j] \in Records
      BY <1>4, <1>6, FormatFacts DEF CatalogInv
    <3>2. record' = [j \in SyncRows |-> record'[j]]
      BY <1>4 DEF WriteRow, CatalogInv
    <3> QED
      BY <3>1, <3>2
  <2>2. Records' = Records /\ Versions' = Versions
    BY <1>1 DEF Records, Versions
  <2>3. ASSUME NEW j \in SyncRows, record'[j].live
        PROVE  /\ [key |-> j, fmt |-> record'[j].fmt, ver |-> record'[j].ver] \in wrote'
               /\ Agree(OwnFormat(j)', Latest')
    <3>1. CASE j = k
      BY <1>2, <1>7, <2>3, <3>1 DEF Agree
    <3>2. CASE j # k
      BY <1>2, <1>4, <1>8, <2>3, <3>2 DEF CatalogInv
    <3> QED
      BY <3>1, <3>2
  <2> QED
    BY <1>1, <1>2, <1>3, <1>6, <2>1, <2>2, <2>3 DEF CatalogInv
<1>10. CacheInv'
  BY <1>1, <1>4 DEF CacheInv
<1>11. DumpInv'
  <2>1. ASSUME NEW j \in DOMAIN staged
        PROVE  \E w \in wrote' : w.key = j /\ staged[j] = Seen(formats[w.fmt], w.ver, order)
    BY <1>4 DEF DumpInv
  <2>2. ASSUME daemon = "copy", NEW j \in SyncRows, record'[j].live
        PROVE  Agree(OwnFormat(j)', ddl)
    <3>1. CASE j = k
      BY <1>7, <2>2, <3>1 DEF Agree, DumpInv
    <3>2. CASE j # k
      BY <1>4, <1>8, <2>2, <3>2 DEF DumpInv
    <3> QED
      BY <3>1, <3>2
  <2>3. ASSUME daemon = "copy", NEW j \in SyncRows \ (todo \cup dirty')
        PROVE  /\ j \in DOMAIN staged <=> record'[j].live
               /\ record'[j].live => staged[j] = Seen(OwnFormat(j)', record'[j].ver, order)
    BY <1>4, <1>8, <2>3 DEF DumpInv
  <2> QED
    BY <1>1, <1>2, <2>1, <2>2, <2>3 DEF DumpInv, Seen
<1>12. ReplicaInv'
  <2>1. ASSUME NEW j \in DOMAIN target.rows
        PROVE  \E w \in wrote' : w.key = j /\ Shows(target.rows[j], formats[w.fmt], w.ver, Common)
    BY <1>4 DEF ReplicaInv
  <2>2. ASSUME NEW j \in SyncRows \ dirty'
        PROVE  /\ j \in DOMAIN target.rows <=> record'[j].live
               /\ record'[j].live => Shows(target.rows[j], OwnFormat(j)', record'[j].ver, Common)
    BY <1>4, <1>8 DEF ReplicaInv
  <2> QED
    BY <1>1, <1>2, <2>1, <2>2 DEF ReplicaInv, Seen
<1> QED
  BY <1>9, <1>10, <1>11, <1>12

Fresh == Max(EverColumns) + 1

\* What every ALTER TABLE has in common: a format whose columns are old ones, or
\* one nobody has had, with the widths that live records and a dump have.
LEMMA AlterKeeps ==
  ASSUME SchemaInv, AltersAtRest, NEW format \in Formats, NEW cs,
         Alter(format, cs), cs = DOMAIN format, cs \subseteq columns \cup {Fresh},
         \A k \in SyncRows : record[k].live => Agree(OwnFormat(k), format),
         daemon = "copy" => Agree(ddl, format)
  PROVE  SchemaInv'
<1> USE DEF SchemaInv
<1>1. /\ UNCHANGED <<record, clock, wrote, daemon, ddl, order, todo, staged, known, dirty, target, refused>>
      /\ formats' = Append(formats, format) /\ columns' = cs
  BY DEF Alter, pushVars
<1>2. daemon # "watch" /\ known = NoSlots
  BY DEF Alter, MayAlter, AltersAtRest, CacheInv
<1>3. /\ formats' \in Seq(Formats) /\ Len(formats') = Len(formats) + 1
      /\ formats'[Len(formats')] = format
      /\ \A n \in DOMAIN formats : n \in DOMAIN formats' /\ formats'[n] = formats[n]
      /\ DOMAIN formats' = DOMAIN formats \cup {Len(formats) + 1}
  BY <1>1 DEF CatalogInv
<1>4. Latest' = format
  BY <1>3 DEF Latest
<1>5. \A k \in SyncRows : OwnFormat(k)' = OwnFormat(k)
  BY <1>1, <1>3, FormatFacts DEF OwnFormat
<1>6. EverColumns \subseteq EverColumns' /\ Fresh \notin EverColumns
  <2>1. EverColumns \subseteq EverColumns'
    BY <1>3 DEF EverColumns
  <2> QED
    BY <2>1, FreshColumn DEF Fresh
<1>7. Common' \subseteq Common
  BY <1>1, <1>6 DEF Common, ReplicaInv
<1>8. Records \subseteq Records' /\ Versions \subseteq Versions'
  BY <1>3 DEF Records, Versions
<1>9. \A w \in wrote : w.fmt \in DOMAIN formats /\ formats'[w.fmt] = formats[w.fmt]
  BY <1>3 DEF CatalogInv, Versions
<1>10. CatalogInv'
  <2>1. record' \in [SyncRows -> Records'] /\ wrote' \subseteq Versions'
    BY <1>1, <1>8 DEF CatalogInv
  <2>2. \A k \in SyncRows : record'[k].live => Agree(OwnFormat(k)', Latest')
    BY <1>1, <1>4, <1>5
  <2> QED
    BY <1>1, <1>3, <1>4, <2>1, <2>2 DEF CatalogInv
<1>11. CacheInv'
  BY <1>1, <1>2 DEF CacheInv
<1>12. DumpInv'
  <2>1. ASSUME NEW k \in DOMAIN staged
        PROVE  \E w \in wrote : w.key = k /\ staged[k] = Seen(formats'[w.fmt], w.ver, order)
    BY <1>9 DEF DumpInv
  <2>2. daemon = "copy" => Agree(ddl, Latest')
    BY <1>4
  <2>3. daemon = "copy" => \A k \in SyncRows : record[k].live => Agree(OwnFormat(k)', ddl)
    BY <1>5 DEF DumpInv
  <2>4. ASSUME daemon = "copy", NEW k \in SyncRows \ (todo \cup dirty)
        PROVE  /\ k \in DOMAIN staged <=> record[k].live
               /\ record[k].live => staged[k] = Seen(OwnFormat(k)', record[k].ver, order)
    BY <1>5, <2>4 DEF DumpInv
  <2>5. /\ order = DOMAIN ddl /\ order \subseteq EverColumns'
        /\ todo \subseteq SyncRows /\ DOMAIN staged \subseteq SyncRows \ todo
    BY <1>6 DEF DumpInv
  <2>6. (order = DOMAIN ddl /\ order \subseteq EverColumns)'
    BY <1>1, <2>5
  <2>7. (todo \subseteq SyncRows /\ DOMAIN staged \subseteq SyncRows \ todo)'
    BY <1>1, <2>5
  <2>8. (\A k \in DOMAIN staged : \E w \in wrote : w.key = k /\ staged[k] = Seen(formats[w.fmt], w.ver, order))'
    BY <1>1, <2>1
  <2>9. (daemon = "copy" => Agree(ddl, Latest))'
    BY <1>1, <2>2
  <2>10. (daemon = "copy" => \A k \in SyncRows : record[k].live => Agree(OwnFormat(k), ddl))'
    BY <1>1, <2>3
  <2>11. (daemon = "copy" => \A k \in SyncRows \ (todo \cup dirty) :
            /\ k \in DOMAIN staged <=> record[k].live
            /\ record[k].live => staged[k] = Seen(OwnFormat(k), record[k].ver, order))'
    BY <1>1, <2>4
  <2> QED
    BY <2>6, <2>7, <2>8, <2>9, <2>10, <2>11 DEF DumpInv
<1>13. ReplicaInv'
  <2>1. ASSUME NEW k \in DOMAIN target.rows
        PROVE  \E w \in wrote : w.key = k /\ Shows(target.rows[k], formats'[w.fmt], w.ver, Common')
    <3>1. PICK w \in wrote : w.key = k /\ Shows(target.rows[k], formats[w.fmt], w.ver, Common)
      BY DEF ReplicaInv
    <3>2. Shows(target.rows[k], formats'[w.fmt], w.ver, Common')
      BY <1>7, <1>9, <3>1 DEF Shows
    <3> QED
      BY <3>1, <3>2
  <2>2. ASSUME NEW k \in SyncRows \ dirty
        PROVE  /\ k \in DOMAIN target.rows <=> record[k].live
               /\ record[k].live => Shows(target.rows[k], OwnFormat(k)', record[k].ver, Common')
    <3>1. k \in DOMAIN target.rows <=> record[k].live
      BY DEF ReplicaInv
    <3>2. record[k].live => Shows(target.rows[k], OwnFormat(k), record[k].ver, Common)
      BY DEF ReplicaInv
    <3>3. record[k].live => Shows(target.rows[k], OwnFormat(k)', record[k].ver, Common')
      BY <1>5, <1>7, <3>2 DEF Shows
    <3> QED
      BY <3>1, <3>3
  <2>3. DOMAIN target.cols \subseteq EverColumns'
    BY <1>6 DEF ReplicaInv
  <2>4. /\ DOMAIN target.rows \subseteq SyncRows
        /\ target = [cols |-> target.cols, rows |-> target.rows]
        /\ \A k \in DOMAIN target.rows : DOMAIN target.rows[k] = DOMAIN target.cols
    BY DEF ReplicaInv
  <2>5. (DOMAIN target.cols \subseteq EverColumns)'
    BY <1>1, <2>3
  <2>6. (/\ DOMAIN target.rows \subseteq SyncRows
         /\ target = [cols |-> target.cols, rows |-> target.rows]
         /\ \A k \in DOMAIN target.rows : DOMAIN target.rows[k] = DOMAIN target.cols)'
    BY <1>1, <2>4
  <2>7. (\A k \in DOMAIN target.rows :
            \E w \in wrote : w.key = k /\ Shows(target.rows[k], formats[w.fmt], w.ver, Common))'
    BY <1>1, <2>1
  <2>8. (\A k \in SyncRows \ dirty :
           /\ k \in DOMAIN target.rows <=> record[k].live
           /\ record[k].live => Shows(target.rows[k], OwnFormat(k), record[k].ver, Common))'
    BY <1>1, <2>2
  <2> QED
    BY <2>5, <2>6, <2>7, <2>8 DEF ReplicaInv
<1> QED
  BY <1>10, <1>11, <1>12, <1>13

LEMMA LatestFacts ==
  ASSUME CatalogInv
  PROVE  /\ Latest \in [columns -> Widths] /\ columns \in SUBSET Nat /\ IsFiniteSet(columns)
         /\ KeyColumn \in columns /\ columns = DOMAIN Latest /\ columns \subseteq EverColumns
<1>1. Latest \in Formats /\ Len(formats) \in DOMAIN formats
  BY FormatFacts DEF Latest
<1>2. columns = DOMAIN Latest
  BY DEF CatalogInv
<1>3. Latest \in [DOMAIN Latest -> Widths]
  BY <1>1 DEF Formats
<1> QED
  BY <1>1, <1>2, <1>3, FormatFacts, FreshColumn DEF Latest

LEMMA AddColumnKeeps ==
  ASSUME SchemaInv, AltersAtRest, NEW w \in Widths, AddColumn(w)
  PROVE  SchemaInv'
<1> DEFINE format == Put(Latest, Fresh, w)
<1>1. Alter(format, columns \cup {Fresh})
  BY DEF AddColumn, Fresh, EverColumns
<1>2. Fresh \in Nat \ EverColumns /\ columns \cup {Fresh} \in SUBSET Nat /\ IsFiniteSet(columns \cup {Fresh})
  BY LatestFacts, FreshColumn, FS_AddElement DEF Fresh, SchemaInv
<1>3. format \in [columns \cup {Fresh} -> Widths] /\ \A c \in columns : format[c] = Latest[c]
  BY <1>2, LatestFacts DEF Put, SchemaInv
<1>4. \A k \in SyncRows : Fresh \notin DOMAIN OwnFormat(k)
  BY <1>2, FormatFacts, FreshColumn DEF OwnFormat, SchemaInv
<1> HIDE DEF format
<1>5. format \in Formats
  BY <1>2, <1>3, LatestFacts, InFormats DEF SchemaInv
<1>6. ASSUME NEW k \in SyncRows, record[k].live PROVE Agree(OwnFormat(k), format)
  <2>1. Agree(OwnFormat(k), Latest)
    BY <1>6 DEF SchemaInv, CatalogInv
  <2> QED
    BY <1>3, <1>4, <2>1, LatestFacts DEF Agree, SchemaInv
<1>7. ASSUME daemon = "copy" PROVE Agree(ddl, format)
  <2>1. Agree(ddl, Latest) /\ DOMAIN ddl \subseteq EverColumns
    BY <1>7 DEF SchemaInv, DumpInv
  <2> QED
    BY <1>2, <1>3, <2>1, LatestFacts DEF Agree, SchemaInv
<1> QED
  BY <1>1, <1>3, <1>5, <1>6, <1>7, AlterKeeps

LEMMA DropColumnKeeps ==
  ASSUME SchemaInv, AltersAtRest, NEW c \in DOMAIN Latest, DropColumn(c)
  PROVE  SchemaInv'
<1> DEFINE format == Restrict(Latest, DOMAIN Latest \ {c})
<1>1. Alter(format, columns \ {c}) /\ c # KeyColumn
  BY DEF DropColumn, AltersAtRest
<1>2. columns \ {c} \in SUBSET Nat /\ IsFiniteSet(columns \ {c}) /\ KeyColumn \in columns \ {c}
  BY <1>1, LatestFacts, FS_RemoveElement DEF SchemaInv
<1>3. format \in [columns \ {c} -> Widths] /\ \A d \in columns \ {c} : format[d] = Latest[d]
  BY LatestFacts DEF Restrict, SchemaInv
<1> HIDE DEF format
<1>4. format \in Formats
  BY <1>2, <1>3, InFormats
<1>5. ASSUME NEW k \in SyncRows, record[k].live PROVE Agree(OwnFormat(k), format)
  BY <1>3, <1>5, LatestFacts DEF SchemaInv, CatalogInv, Agree
<1>6. ASSUME daemon = "copy" PROVE Agree(ddl, format)
  BY <1>3, <1>6, LatestFacts DEF SchemaInv, DumpInv, Agree
<1> QED
  BY <1>1, <1>3, <1>4, <1>5, <1>6, AlterKeeps

LEMMA RetypeColumnKeeps ==
  ASSUME SchemaInv, AltersAtRest, NEW c \in DOMAIN Latest, NEW w \in Widths, RetypeColumn(c, w)
  PROVE  SchemaInv'
<1> DEFINE format == [Latest EXCEPT ![c] = w]
<1>1. /\ Alter(format, columns) /\ daemon = "down"
      /\ \A k \in SyncRows : ~record[k].live
  BY DEF RetypeColumn, AltersAtRest
<1>2. format \in [columns -> Widths]
  BY LatestFacts DEF SchemaInv
<1> HIDE DEF format
<1>3. format \in Formats
  BY <1>2, LatestFacts, InFormats DEF SchemaInv
<1> QED
  BY <1>1, <1>2, <1>3, AlterKeeps

-----------------------------------------------------------------------------
LEMMA CatalogRests ==
  ASSUME CatalogInv, UNCHANGED catalogVars
  PROVE  /\ CatalogInv' /\ Latest' = Latest /\ EverColumns' = EverColumns
         /\ \A k : OwnFormat(k)' = OwnFormat(k)
<1>1. UNCHANGED <<formats, columns, record, clock, wrote>>
  BY DEF catalogVars
<1>2. /\ Latest' = Latest /\ EverColumns' = EverColumns /\ Records' = Records /\ Versions' = Versions
      /\ \A k : OwnFormat(k)' = OwnFormat(k)
  BY <1>1 DEF Latest, EverColumns, Records, Versions, OwnFormat
<1> QED
  BY <1>1, <1>2 DEF CatalogInv

LEMMA DumpRests ==
  ASSUME CatalogInv, DumpInv, UNCHANGED catalogVars, UNCHANGED <<ddl, order, todo, staged, dirty>>,
         daemon' = "copy" => daemon = "copy"
  PROVE  DumpInv'
<1>1. /\ UNCHANGED <<formats, columns, record, clock, wrote, ddl, order, todo, staged, dirty>>
      /\ Latest' = Latest /\ EverColumns' = EverColumns
      /\ \A k : OwnFormat(k)' = OwnFormat(k)
  BY CatalogRests DEF catalogVars
<1>2. (/\ order = DOMAIN ddl /\ order \subseteq EverColumns
       /\ todo \subseteq SyncRows /\ DOMAIN staged \subseteq SyncRows \ todo)'
  BY <1>1 DEF DumpInv
<1>3. (\A k \in DOMAIN staged : \E w \in wrote : w.key = k /\ staged[k] = Seen(formats[w.fmt], w.ver, order))'
  BY <1>1 DEF DumpInv
<1>4. (daemon = "copy" =>
         /\ Agree(ddl, Latest)
         /\ \A k \in SyncRows : record[k].live => Agree(OwnFormat(k), ddl)
         /\ \A k \in SyncRows \ (todo \cup dirty) :
              /\ k \in DOMAIN staged <=> record[k].live
              /\ record[k].live => staged[k] = Seen(OwnFormat(k), record[k].ver, order))'
  BY <1>1 DEF DumpInv
<1> QED
  BY <1>2, <1>3, <1>4 DEF DumpInv

LEMMA NoDumpIsFine ==
  ASSUME NoDump, daemon' # "copy"
  PROVE  DumpInv'
BY DEF NoDump, DumpInv, NoTable

LEMMA ReplicaRests ==
  ASSUME CatalogInv, ReplicaInv, UNCHANGED catalogVars, UNCHANGED <<target, dirty>>
  PROVE  ReplicaInv'
<1>1. /\ UNCHANGED <<formats, columns, record, clock, wrote, target, dirty>>
      /\ EverColumns' = EverColumns /\ Common' = Common
      /\ \A k : OwnFormat(k)' = OwnFormat(k)
  BY CatalogRests DEF catalogVars, Common
<1>2. (DOMAIN target.cols \subseteq EverColumns /\ DOMAIN target.rows \subseteq SyncRows
       /\ target = [cols |-> target.cols, rows |-> target.rows])'
  BY <1>1 DEF ReplicaInv
<1>3. (\A k \in DOMAIN target.rows :
         /\ DOMAIN target.rows[k] = DOMAIN target.cols
         /\ \E w \in wrote : w.key = k /\ Shows(target.rows[k], formats[w.fmt], w.ver, Common))'
  BY <1>1 DEF ReplicaInv
<1>4. (\A k \in SyncRows \ dirty :
         /\ k \in DOMAIN target.rows <=> record[k].live
         /\ record[k].live => Shows(target.rows[k], OwnFormat(k), record[k].ver, Common))'
  BY <1>1 DEF ReplicaInv
<1> QED
  BY <1>2, <1>3, <1>4 DEF ReplicaInv

LEMMA BeginFullKeeps == ASSUME SchemaInv, BeginFull PROVE SchemaInv'
<1> USE DEF SchemaInv
<1>1. /\ daemon = "down" /\ daemon' = "copy" /\ ddl' = DdlNow /\ order' = columns
      /\ todo' = SyncRows /\ staged' = NoTable.rows
      /\ UNCHANGED catalogVars /\ UNCHANGED <<known, dirty, target, refused>>
  BY DEF BeginFull
<1>2. CatalogInv' /\ ReplicaInv'
  BY <1>1, CatalogRests, ReplicaRests
<1>3. CacheInv'
  BY <1>1 DEF CacheInv
<1>4. DdlNow = [c \in columns |-> Latest[c]] /\ DOMAIN DdlNow = columns /\ DOMAIN staged' = {}
  BY <1>1, LatestFacts DEF DdlNow, NoTable
<1>5. Agree(DdlNow, Latest) /\ \A k \in SyncRows : record[k].live => Agree(OwnFormat(k), DdlNow)
  BY <1>4, LatestFacts DEF Agree, CatalogInv
<1>6. DumpInv'
  <2>1. (/\ order = DOMAIN ddl /\ order \subseteq EverColumns
         /\ todo \subseteq SyncRows /\ DOMAIN staged \subseteq SyncRows \ todo)'
    BY <1>1, <1>4, CatalogRests, LatestFacts
  <2>2. (Agree(ddl, Latest) /\ \A k \in SyncRows : record[k].live => Agree(OwnFormat(k), ddl))'
    BY <1>1, <1>5, CatalogRests DEF catalogVars
  <2> QED
    BY <1>1, <1>4, <2>1, <2>2 DEF DumpInv
<1> QED
  BY <1>2, <1>3, <1>6

LEMMA CopyRowKeeps == ASSUME SchemaInv, NEW k \in SyncRows, CopyRow(k) PROVE SchemaInv'
<1> USE DEF SchemaInv
<1>1. /\ daemon = "copy" /\ k \in todo /\ UNCHANGED catalogVars /\ UNCHANGED <<known, dirty, target>>
      /\ DumpFormat(k) = OwnFormat(k) /\ KeyOf(k, OwnFormat(k)) = k
  BY OwnKey DEF CopyRow, DumpFormat, OwnFormat
<1>2. CatalogInv' /\ ReplicaInv'
  BY <1>1, CatalogRests, ReplicaRests
<1>3. record[k].live => Fits(record[k], OwnFormat(k), order, ddl) /\ k \notin DOMAIN staged
  <2>1. record[k].live => Agree(OwnFormat(k), ddl)
    BY <1>1 DEF DumpInv
  <2> QED
    BY <1>1, <2>1, OwnField DEF Fits, OwnFormat, Agree, DumpInv
<1>4. /\ todo' = todo \ {k} /\ UNCHANGED <<daemon, ddl, order, refused>>
      /\ IF record[k].live THEN staged' = Put(staged, k, Seen(OwnFormat(k), record[k].ver, order))
         ELSE UNCHANGED staged
  <2>1. CASE record[k].live
    BY <1>1, <1>3, <2>1, OwnDecoded DEF CopyRow, OwnFormat
  <2>2. CASE ~record[k].live
    BY <2>2 DEF CopyRow
  <2> QED
    BY <2>1, <2>2
<1>5. CacheInv'
  BY <1>1, <1>4 DEF CacheInv, catalogVars
<1>6. /\ UNCHANGED <<formats, columns, record, clock, wrote>> /\ Latest' = Latest /\ EverColumns' = EverColumns
      /\ \A j : OwnFormat(j)' = OwnFormat(j)
  BY <1>1, CatalogRests DEF catalogVars
<1>7. /\ DOMAIN staged' = DOMAIN staged \cup {j \in {k} : record[k].live}
      /\ \A j \in DOMAIN staged : j # k /\ staged'[j] = staged[j]
      /\ record[k].live => staged'[k] = Seen(OwnFormat(k), record[k].ver, order)
  <2>1. k \notin DOMAIN staged
    BY <1>1 DEF DumpInv
  <2>2. CASE record[k].live
    <3> DEFINE v == Seen(OwnFormat(k), record[k].ver, order)
    <3>1. staged' = Put(staged, k, v)
      BY <1>4, <2>2
    <3> HIDE DEF v
    <3>2. /\ DOMAIN staged' = DOMAIN staged \cup {k} /\ staged'[k] = v
          /\ \A j \in DOMAIN staged \ {k} : staged'[j] = staged[j]
      BY <3>1 DEF Put
    <3>3. \A j \in DOMAIN staged : j # k /\ staged'[j] = staged[j]
      BY <2>1, <3>2
    <3> QED
      BY <2>2, <3>2, <3>3 DEF v
  <2>3. CASE ~record[k].live
    BY <1>4, <2>1, <2>3
  <2> QED
    BY <2>2, <2>3
<1>8. DumpInv'
  <2>1. (/\ order = DOMAIN ddl /\ order \subseteq EverColumns
         /\ todo \subseteq SyncRows /\ DOMAIN staged \subseteq SyncRows \ todo)'
    BY <1>1, <1>4, <1>6, <1>7 DEF DumpInv
  <2>2. ASSUME NEW j \in DOMAIN staged'
        PROVE  \E w \in wrote : w.key = j /\ staged'[j] = Seen(formats[w.fmt], w.ver, order)
    <3>1. CASE j \in DOMAIN staged
      BY <1>7, <3>1 DEF DumpInv
    <3>2. CASE j = k /\ record[k].live
      <4> DEFINE w == [key |-> k, fmt |-> record[k].fmt, ver |-> record[k].ver]
      <4>1. w \in wrote /\ w.key = k /\ formats[w.fmt] = OwnFormat(k) /\ w.ver = record[k].ver
        BY <3>2 DEF CatalogInv, OwnFormat
      <4> HIDE DEF w
      <4> QED
        BY <1>7, <3>2, <4>1
    <3> QED
      BY <1>7, <3>1, <3>2
  <2>3. (Agree(ddl, Latest) /\ \A j \in SyncRows : record[j].live => Agree(OwnFormat(j), ddl))'
    BY <1>1, <1>4, <1>6 DEF DumpInv
  <2>4. ASSUME NEW j \in SyncRows \ (todo' \cup dirty)
        PROVE  /\ j \in DOMAIN staged' <=> record[j].live
               /\ record[j].live => staged'[j] = Seen(OwnFormat(j), record[j].ver, order)
    BY <1>1, <1>4, <1>7 DEF DumpInv
  <2>5. (\A j \in DOMAIN staged : \E w \in wrote : w.key = j /\ staged[j] = Seen(formats[w.fmt], w.ver, order))'
    BY <1>4, <1>6, <2>2
  <2>6. (\A j \in SyncRows \ (todo \cup dirty) :
            /\ j \in DOMAIN staged <=> record[j].live
            /\ record[j].live => staged[j] = Seen(OwnFormat(j), record[j].ver, order))'
    BY <1>1, <1>4, <1>6, <2>4
  <2> QED
    BY <2>1, <2>3, <2>5, <2>6 DEF DumpInv
<1> QED
  BY <1>2, <1>5, <1>8

LEMMA FinishFullKeeps == ASSUME SchemaInv, FinishFull PROVE SchemaInv'
<1> USE DEF SchemaInv
<1>1. /\ daemon = "copy" /\ todo = {} /\ target' = [cols |-> ddl, rows |-> staged] /\ daemon' = "watch"
      /\ NoDump /\ UNCHANGED catalogVars /\ UNCHANGED <<known, dirty, refused>>
  BY DEF FinishFull
<1>2. CatalogInv' /\ DumpInv'
  BY <1>1, CatalogRests, NoDumpIsFine
<1>3. CacheInv'
  BY <1>1 DEF CacheInv
<1>4. /\ UNCHANGED <<formats, columns, record, clock, wrote>> /\ EverColumns' = EverColumns
      /\ \A j : OwnFormat(j)' = OwnFormat(j)
  BY <1>1, CatalogRests DEF catalogVars
<1>5. target'.cols = ddl /\ target'.rows = staged /\ Common' \subseteq order
  BY <1>1 DEF Common, DumpInv
<1>6. ReplicaInv'
  <2>1. ASSUME NEW k \in DOMAIN staged
        PROVE  /\ DOMAIN staged[k] = order
               /\ \E w \in wrote : w.key = k /\ Shows(staged[k], formats[w.fmt], w.ver, Common')
    BY <1>5 DEF DumpInv, Seen, Shows
  <2>2. ASSUME NEW k \in SyncRows \ dirty
        PROVE  /\ k \in DOMAIN staged <=> record[k].live
               /\ record[k].live => Shows(staged[k], OwnFormat(k), record[k].ver, Common')
    <3>1. k \in SyncRows \ (todo \cup dirty)
      BY <1>1
    <3>2. /\ k \in DOMAIN staged <=> record[k].live
          /\ record[k].live => staged[k] = Seen(OwnFormat(k), record[k].ver, order)
      BY <1>1, <3>1 DEF DumpInv
    <3> QED
      BY <1>5, <3>2 DEF Seen, Shows
  <2>3. (\A k \in DOMAIN target.rows :
            /\ DOMAIN target.rows[k] = DOMAIN target.cols
            /\ \E w \in wrote : w.key = k /\ Shows(target.rows[k], formats[w.fmt], w.ver, Common))'
    BY <1>4, <1>5, <2>1 DEF DumpInv
  <2>4. (\A k \in SyncRows \ dirty :
            /\ k \in DOMAIN target.rows <=> record[k].live
            /\ record[k].live => Shows(target.rows[k], OwnFormat(k), record[k].ver, Common))'
    BY <1>1, <1>4, <1>5, <2>2
  <2>5. (DOMAIN target.cols \subseteq EverColumns /\ DOMAIN target.rows \subseteq SyncRows
         /\ target = [cols |-> target.cols, rows |-> target.rows])'
    BY <1>1, <1>4, <1>5 DEF DumpInv
  <2> QED
    BY <2>3, <2>4, <2>5 DEF ReplicaInv
<1> QED
  BY <1>2, <1>3, <1>6

LEMMA ResumeKeeps == ASSUME SchemaInv, Resume PROVE SchemaInv'
<1> USE DEF SchemaInv
<1>1. /\ daemon = "down" /\ daemon' = "watch" /\ UNCHANGED catalogVars
      /\ UNCHANGED <<ddl, order, todo, staged, known, dirty, target, refused>>
  BY DEF Resume, pushVars
<1>2. CatalogInv' /\ DumpInv' /\ ReplicaInv'
  BY <1>1, CatalogRests, DumpRests, ReplicaRests
<1>3. CacheInv'
  BY <1>1 DEF CacheInv
<1> QED
  BY <1>2, <1>3

LEMMA DropSlotsKeeps == ASSUME SchemaInv, DropSlots PROVE SchemaInv'
<1> USE DEF SchemaInv
<1>1. /\ daemon' = daemon /\ UNCHANGED catalogVars /\ known' = NoSlots
      /\ UNCHANGED <<ddl, order, todo, staged, dirty, target, refused>>
  BY DEF DropSlots, pushVars
<1>2. CatalogInv' /\ DumpInv' /\ ReplicaInv'
  BY <1>1, CatalogRests, DumpRests, ReplicaRests
<1>3. CacheInv'
  BY <1>1 DEF CacheInv
<1> QED
  BY <1>2, <1>3

LEMMA EndKeeps == ASSUME SchemaInv, End PROVE SchemaInv'
<1> USE DEF SchemaInv
<1>1. /\ daemon' = "down" /\ UNCHANGED catalogVars /\ known' = NoSlots
      /\ NoDump /\ UNCHANGED <<dirty, target, refused>>
  BY DEF End
<1>2. CatalogInv' /\ DumpInv' /\ ReplicaInv'
  BY <1>1, CatalogRests, NoDumpIsFine, ReplicaRests
<1>3. CacheInv'
  BY <1>1 DEF CacheInv
<1> QED
  BY <1>2, <1>3

\* The loop decodes every record by its own format, and finds its key.
LEMMA SlotsAreOwn ==
  ASSUME SchemaInv
  PROVE  /\ Slots = [columns |-> columns, fmts |-> Len(formats)]
         /\ \A k \in SyncRows : SlotsFor(k) = OwnFormat(k) /\ KeyOf(k, SlotsFor(k)) = k
<1> USE DEF SchemaInv
<1>1. Slots = [columns |-> columns, fmts |-> Len(formats)]
  BY DEF Slots, CacheInv, NoSlots
<1>2. ASSUME NEW k \in SyncRows PROVE SlotsFor(k) = OwnFormat(k)
  <2>1. record[k].fmt <= Len(formats)
    BY FormatFacts
  <2> QED
    BY <1>1, <2>1 DEF SlotsFor, OwnFormat
<1> QED
  BY <1>1, <1>2, OwnKey

LEMMA AppliedIs ==
  ASSUME SchemaInv, Accepted
  PROVE  /\ DOMAIN Applied = Ups \cup (DOMAIN target.rows \ Dels)
         /\ \A k \in Ups : /\ DOMAIN Applied[k] = DOMAIN target.cols
                           /\ Shows(Applied[k], OwnFormat(k), record[k].ver, Common)
         /\ \A k \in DOMAIN target.rows \ (Dels \cup Ups) : Applied[k] = target.rows[k]
<1> USE DEF SchemaInv
<1> DEFINE kept == Restrict(target.rows, DOMAIN target.rows \ Dels)
           base(k) == IF KeyOf(k, SlotsFor(k)) \in DOMAIN kept THEN kept[KeyOf(k, SlotsFor(k))]
                      ELSE [c \in DOMAIN target.cols |-> NULL]
           row(k) == Overlay(Decoded(record[k], SlotsFor(k), Slots.columns), base(k))
           new == {KeyOf(k, SlotsFor(k)) : k \in Ups}
           fresh == [x \in new |-> row(CHOOSE k \in Ups : KeyOf(k, SlotsFor(k)) = x)]
<1>1. Applied = Overlay(fresh, kept)
  BY DEF Applied
<1>2. \A k \in Ups : k \in SyncRows /\ KeyOf(k, SlotsFor(k)) = k
  BY SlotsAreOwn DEF Ups, CacheInv
<1>3. new = Ups
  BY <1>2
<1>4. DOMAIN kept = DOMAIN target.rows \ Dels /\ \A k \in DOMAIN kept : kept[k] = target.rows[k]
  BY DEF Restrict
<1>5. ASSUME NEW k \in Ups PROVE (CHOOSE j \in Ups : KeyOf(j, SlotsFor(j)) = k) = k
  BY <1>2
<1>6. ASSUME NEW k \in Ups
      PROVE  /\ DOMAIN base(k) = DOMAIN target.cols
             /\ Decoded(record[k], SlotsFor(k), Slots.columns) = Seen(OwnFormat(k), record[k].ver, columns)
  <2>1. DOMAIN base(k) = DOMAIN target.cols
    BY <1>2, <1>4 DEF ReplicaInv
  <2>2. SlotsFor(k) = formats[record[k].fmt] /\ Slots.columns = columns
    BY <1>2, SlotsAreOwn DEF OwnFormat
  <2> QED
    BY <2>1, <2>2, OwnDecoded DEF OwnFormat
<1>7. columns \subseteq DOMAIN target.cols
  BY SlotsAreOwn DEF Accepted
<1> HIDE DEF base, kept
<1>8. ASSUME NEW k \in Ups
      PROVE  row(k) = Overlay(Seen(OwnFormat(k), record[k].ver, columns), base(k))
  BY <1>6
<1> HIDE DEF row
<1>9. DOMAIN fresh = Ups /\ \A k \in Ups : fresh[k] = row(k)
  BY <1>3, <1>5
<1> HIDE DEF fresh
<1>10. /\ DOMAIN Applied = Ups \cup (DOMAIN target.rows \ Dels)
       /\ \A k \in Ups : Applied[k] = row(k)
       /\ \A k \in DOMAIN kept \ Ups : Applied[k] = kept[k]
  BY <1>1, <1>4, <1>9 DEF Overlay
<1>11. ASSUME NEW k \in Ups
       PROVE  DOMAIN row(k) = DOMAIN target.cols /\ Shows(row(k), OwnFormat(k), record[k].ver, Common)
  <2>1. DOMAIN row(k) = columns \cup DOMAIN target.cols
    BY <1>6, <1>8 DEF Overlay, Seen
  <2>2. \A c \in columns : row(k)[c] = Seen(OwnFormat(k), record[k].ver, columns)[c]
    BY <1>8 DEF Overlay, Seen
  <2> QED
    BY <1>7, <2>1, <2>2 DEF Shows, Seen, Common
<1> QED
  BY <1>4, <1>10, <1>11

LEMMA SyncKeeps == ASSUME SchemaInv, Sync PROVE SchemaInv'
<1> USE DEF SchemaInv
<1>1. /\ daemon = "watch" /\ daemon' = daemon /\ UNCHANGED catalogVars
      /\ UNCHANGED <<ddl, order, todo, staged>> /\ known' = Slots
  BY DEF Sync, pushVars
<1>2. /\ UNCHANGED <<formats, columns, record, clock, wrote>> /\ EverColumns' = EverColumns
      /\ \A k : OwnFormat(k)' = OwnFormat(k)
  BY <1>1, CatalogRests DEF catalogVars
<1>3. target.cols = Latest => Accepted
  <2> SUFFICES ASSUME target.cols = Latest PROVE Accepted
    OBVIOUS
  <2>1. Slots.columns = columns /\ columns = DOMAIN target.cols
    BY SlotsAreOwn, LatestFacts
  <2>2. ASSUME NEW k \in Ups PROVE Fits(record[k], SlotsFor(k), columns, target.cols)
    <3>1. k \in SyncRows /\ record[k].live
      BY DEF Ups, CacheInv
    <3>2. Agree(OwnFormat(k), target.cols) /\ SlotsFor(k) = OwnFormat(k)
      BY <3>1, SlotsAreOwn DEF CatalogInv
    <3>3. \A c : Field(record[k], OwnFormat(k), c) # NULL => c \in DOMAIN OwnFormat(k)
      BY OwnField DEF OwnFormat
    <3> QED
      BY <2>1, <3>2, <3>3 DEF Fits, Agree
  <2>3. \A j, k \in Ups : KeyOf(j, SlotsFor(j)) = KeyOf(k, SlotsFor(k)) => j = k
    BY SlotsAreOwn DEF Ups, CacheInv
  <2> QED
    BY <2>1, <2>2, <2>3 DEF Accepted
<1>4. ~refused' /\ dirty' \subseteq dirty
  BY <1>3 DEF Sync, CacheInv
<1>5. CacheInv'
  BY <1>1, <1>2, <1>4, SlotsAreOwn DEF CacheInv
<1>6. CatalogInv'
  BY <1>1, CatalogRests
<1>7. DumpInv'
  <2>1. (/\ order = DOMAIN ddl /\ order \subseteq EverColumns
         /\ todo \subseteq SyncRows /\ DOMAIN staged \subseteq SyncRows \ todo)'
    BY <1>1, <1>2 DEF DumpInv
  <2>2. (\A k \in DOMAIN staged : \E w \in wrote : w.key = k /\ staged[k] = Seen(formats[w.fmt], w.ver, order))'
    BY <1>1, <1>2 DEF DumpInv
  <2> QED
    BY <1>1, <2>1, <2>2 DEF DumpInv
<1>8. CASE ~Accepted
  <2>1. UNCHANGED <<target, dirty>>
    BY <1>8 DEF Sync
  <2> QED
    BY <1>1, <1>5, <1>6, <1>7, <2>1, ReplicaRests
<1>9. CASE Accepted
  <2>1. dirty' = {} /\ target' = [target EXCEPT !.rows = Applied]
    BY <1>9 DEF Sync
  <2>2. target'.cols = target.cols /\ target'.rows = Applied /\ target' = [cols |-> target.cols, rows |-> Applied]
    BY <2>1 DEF ReplicaInv
  <2>3. Common' = Common
    BY <1>2, <2>2 DEF Common
  <2>4. Ups = {k \in dirty : record[k].live} /\ Dels = {k \in dirty : ~record[k].live}
    BY SlotsAreOwn DEF Ups, Dels, DeleteKey, CacheInv
  <2>5. ASSUME NEW k \in DOMAIN Applied
        PROVE  /\ k \in SyncRows /\ DOMAIN Applied[k] = DOMAIN target.cols
               /\ \E w \in wrote : w.key = k /\ Shows(Applied[k], formats[w.fmt], w.ver, Common)
    <3>1. CASE k \in Ups
      <4> DEFINE w == [key |-> k, fmt |-> record[k].fmt, ver |-> record[k].ver]
      <4>1. k \in SyncRows /\ record[k].live
        BY <2>4, <3>1 DEF CacheInv
      <4>2. w \in wrote /\ w.key = k /\ formats[w.fmt] = OwnFormat(k) /\ w.ver = record[k].ver
        BY <4>1 DEF CatalogInv, OwnFormat
      <4> HIDE DEF w
      <4> QED
        BY <1>9, <3>1, <4>1, <4>2, AppliedIs
    <3>2. CASE k \notin Ups
      <4>1. k \in DOMAIN target.rows /\ Applied[k] = target.rows[k]
        BY <1>9, <2>5, <3>2, AppliedIs
      <4> QED
        BY <4>1 DEF ReplicaInv
    <3> QED
      BY <3>1, <3>2
  <2>6. ASSUME NEW k \in SyncRows
        PROVE  /\ k \in DOMAIN Applied <=> record[k].live
               /\ record[k].live => Shows(Applied[k], OwnFormat(k), record[k].ver, Common)
    <3>1. CASE k \in dirty
      BY <1>9, <2>4, <3>1, AppliedIs
    <3>2. CASE k \notin dirty
      <4>1. k \notin Ups \cup Dels
        BY <2>4, <3>2
      <4>2. k \in DOMAIN Applied <=> k \in DOMAIN target.rows
        BY <1>9, <4>1, AppliedIs
      <4>3. k \in DOMAIN target.rows => Applied[k] = target.rows[k]
        BY <1>9, <4>1, AppliedIs
      <4> QED
        BY <3>2, <4>2, <4>3 DEF ReplicaInv
    <3> QED
      BY <3>1, <3>2
  <2>7. (DOMAIN target.cols \subseteq EverColumns /\ DOMAIN target.rows \subseteq SyncRows
         /\ target = [cols |-> target.cols, rows |-> target.rows])'
    BY <1>2, <2>2, <2>5 DEF ReplicaInv
  <2>8. (\A k \in DOMAIN target.rows :
            /\ DOMAIN target.rows[k] = DOMAIN target.cols
            /\ \E w \in wrote : w.key = k /\ Shows(target.rows[k], formats[w.fmt], w.ver, Common))'
    BY <1>2, <2>2, <2>3, <2>5
  <2>9. (\A k \in SyncRows \ dirty :
            /\ k \in DOMAIN target.rows <=> record[k].live
            /\ record[k].live => Shows(target.rows[k], OwnFormat(k), record[k].ver, Common))'
    BY <1>2, <2>1, <2>2, <2>3, <2>6
  <2>10. ReplicaInv'
    BY <2>7, <2>8, <2>9 DEF ReplicaInv
  <2> QED
    BY <1>5, <1>6, <1>7, <2>10
<1> QED
  BY <1>8, <1>9

LEMMA SchemaInvStutter == ASSUME SchemaInv, UNCHANGED schemaVars PROVE SchemaInv'
<1> USE DEF SchemaInv
<1>1. /\ daemon' = daemon /\ UNCHANGED catalogVars /\ known' = known
      /\ UNCHANGED <<ddl, order, todo, staged, dirty, target, refused>>
  BY DEF schemaVars, pushVars
<1>2. CatalogInv' /\ DumpInv' /\ ReplicaInv'
  BY <1>1, CatalogRests, DumpRests, ReplicaRests
<1>3. CacheInv'
  BY <1>1 DEF CacheInv, catalogVars
<1> QED
  BY <1>2, <1>3

LEMMA SchemaInvStep == ASSUME AltersAtRest, SchemaInv, [SchemaNext]_schemaVars PROVE SchemaInv'
<1>1. CASE \E k \in SyncRows : CopyRow(k)
  BY <1>1, CopyRowKeeps
<1>2. CASE \E k \in SyncRows, live \in BOOLEAN : WriteRow(k, live)
  BY <1>2, WriteRowKeeps
<1>3. CASE \E w \in Widths : AddColumn(w)
  BY <1>3, AddColumnKeeps
<1>4. CASE \E w \in Widths, c \in DOMAIN Latest : RetypeColumn(c, w)
  BY <1>4, RetypeColumnKeeps
<1>5. CASE \E c \in DOMAIN Latest : DropColumn(c)
  BY <1>5, DropColumnKeeps
<1>6. CASE BeginFull \/ FinishFull
  BY <1>6, BeginFullKeeps, FinishFullKeeps
<1>7. CASE Resume \/ Sync \/ DropSlots \/ End
  BY <1>7, ResumeKeeps, SyncKeeps, DropSlotsKeeps, EndKeeps
<1>8. CASE UNCHANGED schemaVars
  BY <1>8, SchemaInvStutter
<1> QED
  BY <1>1, <1>2, <1>3, <1>4, <1>5, <1>6, <1>7, <1>8 DEF SchemaNext

LEMMA SchemaInvAlways == ASSUME AltersAtRest PROVE SchemaSpec => []SchemaInv
<1>1. SchemaInv /\ [SchemaNext]_schemaVars => SchemaInv'
  BY SchemaInvStep
<1> QED
  BY <1>1, SchemaInvInit, PTL DEF SchemaSpec

(***************************************************************************)
(* Every row of the replica is a version Firebird wrote to the row of that *)
(* key, decoded by the format it was written in, for any number of ALTER   *)
(* TABLEs between runs and during dumps.  (slots_for_format, slots_for)    *)
(***************************************************************************)
THEOREM AlteredRowsDecodeRight == AltersAtRest => (SchemaSpec => []RowsDecodeRight)
<1> SUFFICES ASSUME AltersAtRest PROVE SchemaSpec => []RowsDecodeRight
  OBVIOUS
<1>1. ASSUME SchemaInv PROVE RowsDecodeRight
  <2> SUFFICES ASSUME NEW k \in DOMAIN target.rows
               PROVE  \E w \in wrote : w.key = k /\ Restrict(target.rows[k], Common) = Image(formats[w.fmt], w.ver)
    BY DEF RowsDecodeRight
  <2>1. PICK w \in wrote : w.key = k /\ Shows(target.rows[k], formats[w.fmt], w.ver, Common)
    BY <1>1 DEF SchemaInv, ReplicaInv
  <2>2. Restrict(target.rows[k], Common) = Image(formats[w.fmt], w.ver)
    BY <2>1 DEF Shows, Restrict, Image
  <2> QED
    BY <2>1, <2>2
<1> QED
  BY <1>1, SchemaInvAlways, PTL

(***************************************************************************)
(* No dump is refused, and no delta for a replica that has the columns of  *)
(* the table, whichever formats its rows are in.  (create_table_sql_from,  *)
(* copy_slots, sync_table)                                                 *)
(***************************************************************************)
THEOREM AlteredTableIsTaken == AltersAtRest => (SchemaSpec => []NothingRefused)
<1> SUFFICES ASSUME AltersAtRest PROVE SchemaSpec => []NothingRefused
  OBVIOUS
<1>1. SchemaInv => NothingRefused
  BY DEF SchemaInv, CacheInv, NothingRefused
<1> QED
  BY <1>1, SchemaInvAlways, PTL

(***************************************************************************)
(* When the loop has nothing left to send, the replica holds the rows of   *)
(* the table and no other: deletes of rows in old formats were found.      *)
(* (encode_pk_pgcopy)                                                      *)
(***************************************************************************)
THEOREM AlteredTableIsWhole == AltersAtRest => (SchemaSpec => []CleanIsWhole)
<1> SUFFICES ASSUME AltersAtRest PROVE SchemaSpec => []CleanIsWhole
  OBVIOUS
<1>1. ASSUME SchemaInv PROVE CleanIsWhole
  <2> SUFFICES ASSUME dirty = {}
               PROVE  /\ DOMAIN target.rows = {k \in SyncRows : record[k].live}
                      /\ \A k \in DOMAIN target.rows :
                           Restrict(target.rows[k], Common) = Image(formats[record[k].fmt], record[k].ver)
    BY DEF CleanIsWhole
  <2>1. /\ DOMAIN target.rows \subseteq SyncRows
        /\ \A k \in SyncRows : /\ k \in DOMAIN target.rows <=> record[k].live
                               /\ record[k].live => Shows(target.rows[k], OwnFormat(k), record[k].ver, Common)
    BY <1>1 DEF SchemaInv, ReplicaInv
  <2>2. ASSUME NEW k \in DOMAIN target.rows
        PROVE  Restrict(target.rows[k], Common) = Image(formats[record[k].fmt], record[k].ver)
    BY <2>1 DEF Shows, Restrict, Image, OwnFormat
  <2> QED
    BY <2>1, <2>2
<1> QED
  BY <1>1, SchemaInvAlways, PTL

\* Rows by key, a key that was misread among them, with the columns cs.
RowsOf(rows, cs) == DOMAIN rows \subseteq SyncRows \cup {Bogus} /\ \A k \in DOMAIN rows : DOMAIN rows[k] = cs

\* What holds whatever the surroundings do to the table.
CatalogShapes == TypedCatalog /\ DOMAIN Latest \subseteq columns
LoopShapes ==
  /\ daemon \in {"down", "copy", "watch"}
  /\ dirty \subseteq SyncRows
  /\ known.fmts \in 0..Len(formats)
DumpShapes == todo \subseteq SyncRows /\ order = DOMAIN ddl /\ RowsOf(staged, order)
ReplicaShapes == target = [cols |-> target.cols, rows |-> target.rows] /\ RowsOf(target.rows, DOMAIN target.cols)
SchemaShapes == CatalogShapes /\ LoopShapes /\ DumpShapes /\ ReplicaShapes

LEMMA SchemaTypeIs == SchemaShapes => SchemaTypeOK
<1> SUFFICES ASSUME SchemaShapes PROVE SchemaTypeOK
  OBVIOUS
<1> USE DEF SchemaShapes
<1>1. TypedCatalog
  BY DEF CatalogShapes
<1>2. \A n \in DOMAIN formats : formats[n] \in [DOMAIN formats[n] -> Widths]
  BY <1>1, TypedFormats DEF Formats
<1>3. record \in [SyncRows -> [fmt : DOMAIN formats, ver : 0..MaxVersion, live : BOOLEAN]]
  BY <1>1 DEF TypedCatalog, Records
<1> QED
  BY <1>2, <1>3 DEF SchemaTypeOK, CatalogShapes, LoopShapes, DumpShapes, ReplicaShapes, RowsOf

LEMMA SchemaShapesInit == SchemaInit => SchemaShapes
<1> SUFFICES ASSUME SchemaInit PROVE SchemaShapes
  OBVIOUS
<1>1. SchemaInv
  BY SchemaInvInit
<1>2. CatalogShapes
  BY <1>1 DEF SchemaInv, CatalogInv, CatalogShapes, TypedCatalog
<1>3. LoopShapes
  <2>1. known.fmts = 0 /\ Len(formats) \in Nat
    BY <1>2, TypedFormats DEF SchemaInit, NoSlots, CatalogShapes
  <2> QED
    BY <2>1 DEF SchemaInit, LoopShapes
<1>4. DumpShapes /\ ReplicaShapes
  BY DEF SchemaInit, DumpShapes, ReplicaShapes, RowsOf, NoTable
<1> QED
  BY <1>2, <1>3, <1>4 DEF SchemaShapes

\* The catalog is as it was, and so are the formats the loop has cached.
LEMMA CatalogStays ==
  ASSUME CatalogShapes, LoopShapes, UNCHANGED catalogVars
  PROVE  CatalogShapes' /\ (known' \in {known, NoSlots, Slots} => known'.fmts \in 0..Len(formats'))
<1>1. UNCHANGED <<formats, columns, record, clock>>
  BY DEF catalogVars
<1>2. CatalogShapes'
  BY <1>1 DEF CatalogShapes, TypedCatalog, Records, Latest
<1>3. Len(formats) \in Nat
  BY TypedFormats DEF CatalogShapes
<1>4. Slots.fmts \in 0..Len(formats) /\ NoSlots.fmts \in 0..Len(formats) /\ known.fmts \in 0..Len(formats)
  BY <1>3 DEF Slots, NoSlots, LoopShapes
<1> QED
  BY <1>1, <1>2, <1>4

\* One ALTER TABLE gives the table one more format.
LEMMA AlterShapes ==
  ASSUME SchemaShapes, NEW format \in Formats, NEW cs, DOMAIN format \subseteq cs, Alter(format, cs)
  PROVE  SchemaShapes'
<1> USE DEF SchemaShapes
<1>1. /\ UNCHANGED <<record, clock, daemon, ddl, order, todo, staged, known, dirty, target>>
      /\ formats' = Append(formats, format) /\ columns' = cs
  BY DEF Alter, pushVars
<1>2. /\ formats' \in Seq(Formats) /\ Len(formats') = Len(formats) + 1 /\ Len(formats) \in Nat
      /\ formats'[Len(formats')] = format
      /\ DOMAIN formats \subseteq DOMAIN formats'
  BY <1>1 DEF CatalogShapes, TypedCatalog
<1>3. TypedCatalog'
  <2>1. Records \subseteq Records'
    BY <1>2 DEF Records
  <2>2. record' \in [SyncRows -> Records']
    BY <1>1, <2>1 DEF CatalogShapes, TypedCatalog
  <2> QED
    BY <1>1, <1>2, <2>2 DEF CatalogShapes, TypedCatalog
<1>4. CatalogShapes'
  BY <1>1, <1>2, <1>3 DEF CatalogShapes, Latest
<1>5. LoopShapes'
  BY <1>1, <1>2 DEF LoopShapes
<1>6. DumpShapes' /\ ReplicaShapes'
  BY <1>1 DEF DumpShapes, ReplicaShapes, RowsOf
<1> QED
  BY <1>4, <1>5, <1>6

LEMMA AltersKeepShapes ==
  ASSUME SchemaShapes,
         \/ \E w \in Widths : AddColumn(w) \/ (\E c \in DOMAIN Latest : RetypeColumn(c, w))
         \/ \E c \in DOMAIN Latest : DropColumn(c)
  PROVE  SchemaShapes'
<1>1. /\ Latest \in Formats /\ Latest \in [DOMAIN Latest -> Widths]
      /\ DOMAIN Latest \in SUBSET Nat /\ IsFiniteSet(DOMAIN Latest) /\ KeyColumn \in DOMAIN Latest
      /\ DOMAIN Latest \subseteq columns
  <2>1. TypedCatalog /\ DOMAIN Latest \subseteq columns
    BY DEF SchemaShapes, CatalogShapes
  <2>2. Latest \in Formats
    BY <2>1, TypedFormats DEF Latest
  <2> QED
    BY <2>1, <2>2, TypedFormats DEF Latest, Formats
<1>2. ASSUME NEW w \in Widths, AddColumn(w) PROVE SchemaShapes'
  <2> DEFINE format == Put(Latest, Fresh, w)
  <2>1. Alter(format, columns \cup {Fresh})
    BY <1>2 DEF AddColumn, Fresh, EverColumns
  <2>2. Fresh \in Nat
    BY NewColumn DEF Fresh, SchemaShapes, CatalogShapes
  <2>3. DOMAIN format = DOMAIN Latest \cup {Fresh} /\ format \in [DOMAIN Latest \cup {Fresh} -> Widths]
    BY <1>1 DEF Put
  <2>4. DOMAIN Latest \cup {Fresh} \in SUBSET Nat /\ IsFiniteSet(DOMAIN Latest \cup {Fresh})
    BY <1>1, <2>2, FS_AddElement
  <2> HIDE DEF format
  <2>5. format \in Formats
    BY <1>1, <2>3, <2>4, InFormats
  <2> QED
    BY <1>1, <2>1, <2>3, <2>5, AlterShapes
<1>3. ASSUME NEW w \in Widths, NEW c \in DOMAIN Latest, RetypeColumn(c, w) PROVE SchemaShapes'
  <2> DEFINE format == [Latest EXCEPT ![c] = w]
  <2>1. Alter(format, columns)
    BY <1>3 DEF RetypeColumn
  <2>2. DOMAIN format = DOMAIN Latest /\ format \in [DOMAIN Latest -> Widths]
    BY <1>1
  <2> HIDE DEF format
  <2>3. format \in Formats
    BY <1>1, <2>2, InFormats
  <2> QED
    BY <1>1, <2>1, <2>2, <2>3, AlterShapes
<1>4. ASSUME NEW c \in DOMAIN Latest, DropColumn(c) PROVE SchemaShapes'
  <2> DEFINE others == DOMAIN Latest \ {c}
             format == Restrict(Latest, others)
  <2>1. c # KeyColumn
    BY <1>4 DEF DropColumn
  <2>2. PICK cs \in {columns \ {c}, columns} : Alter(format, cs)
    BY <1>4 DEF DropColumn
  <2>3. others \in SUBSET Nat /\ IsFiniteSet(others) /\ KeyColumn \in others /\ others \subseteq cs
    BY <1>1, <2>1, FS_RemoveElement
  <2>4. DOMAIN format = others /\ format \in [others -> Widths]
    BY <1>1 DEF Restrict
  <2> HIDE DEF format, others
  <2>5. format \in Formats
    BY <2>3, <2>4, InFormats
  <2> QED
    BY <2>2, <2>3, <2>4, <2>5, AlterShapes
<1> QED
  BY <1>2, <1>3, <1>4

LEMMA WriteShapes ==
  ASSUME SchemaShapes, NEW k \in SyncRows, NEW live \in BOOLEAN, WriteRow(k, live)
  PROVE  SchemaShapes'
<1> USE DEF SchemaShapes
<1>1. /\ UNCHANGED <<formats, columns, daemon, ddl, order, todo, staged, known, target>>
      /\ clock < MaxVersion /\ clock' = clock + 1 /\ dirty' = dirty \cup {k}
      /\ record' = [record EXCEPT ![k] = IF live THEN [fmt |-> Len(formats), ver |-> clock', live |-> TRUE]
                                         ELSE [@ EXCEPT !.live = FALSE]]
  BY DEF WriteRow, pushVars
<1>2. /\ clock' \in 0..MaxVersion
      /\ [fmt |-> Len(formats), ver |-> clock', live |-> TRUE] \in Records
      /\ [record[k] EXCEPT !.live = FALSE] \in Records
  <2>1. clock' \in 0..MaxVersion
    BY <1>1, SchemaSyncAssumption DEF CatalogShapes, TypedCatalog
  <2>2. Len(formats) \in DOMAIN formats /\ record[k] \in Records
    BY TypedFormats DEF CatalogShapes
  <2> QED
    BY <2>1, <2>2 DEF Records
<1>3. record' \in [SyncRows -> Records] /\ Records' = Records
  BY <1>1, <1>2 DEF CatalogShapes, TypedCatalog, Records
<1>4. CatalogShapes'
  BY <1>1, <1>2, <1>3 DEF CatalogShapes, TypedCatalog, Latest
<1>5. LoopShapes' /\ DumpShapes' /\ ReplicaShapes'
  BY <1>1 DEF LoopShapes, DumpShapes, ReplicaShapes, RowsOf
<1> QED
  BY <1>4, <1>5

\* What the loop applies has the columns of the replica.
LEMMA AppliedShapes ==
  ASSUME LoopShapes, ReplicaShapes, Accepted
  PROVE  RowsOf(Applied, DOMAIN target.cols)
<1> DEFINE kept == Restrict(target.rows, DOMAIN target.rows \ Dels)
           base(k) == IF KeyOf(k, SlotsFor(k)) \in DOMAIN kept THEN kept[KeyOf(k, SlotsFor(k))]
                      ELSE [c \in DOMAIN target.cols |-> NULL]
           row(k) == Overlay(Decoded(record[k], SlotsFor(k), Slots.columns), base(k))
           new == {KeyOf(k, SlotsFor(k)) : k \in Ups}
           its(x) == CHOOSE k \in Ups : KeyOf(k, SlotsFor(k)) = x
           fresh == [x \in new |-> row(its(x))]
<1>1. Applied = Overlay(fresh, kept)
  BY DEF Applied
<1>2. DOMAIN kept \subseteq DOMAIN target.rows /\ \A k \in DOMAIN kept : kept[k] = target.rows[k]
  BY DEF Restrict
<1>3. RowsOf(kept, DOMAIN target.cols)
  BY <1>2 DEF ReplicaShapes, RowsOf
<1> HIDE DEF kept
<1>4. ASSUME NEW k PROVE DOMAIN base(k) = DOMAIN target.cols
  BY <1>3 DEF RowsOf
<1> HIDE DEF base
<1>5. ASSUME NEW k PROVE DOMAIN row(k) = DOMAIN target.cols
  BY <1>4 DEF Overlay, Decoded, Accepted
<1>6. new \subseteq SyncRows \cup {Bogus}
  BY DEF KeyOf, Ups, LoopShapes
<1> HIDE DEF row, its
<1>7. RowsOf(fresh, DOMAIN target.cols)
  BY <1>5, <1>6 DEF RowsOf
<1> HIDE DEF fresh, new
<1> QED
  BY <1>1, <1>3, <1>7 DEF Overlay, RowsOf

LEMMA SyncShapes == ASSUME SchemaShapes, Sync PROVE SchemaShapes'
<1> USE DEF SchemaShapes
<1>1. /\ UNCHANGED catalogVars /\ UNCHANGED <<daemon, ddl, order, todo, staged>> /\ known' = Slots
      /\ dirty' \subseteq SyncRows
  BY DEF Sync, pushVars, LoopShapes
<1>2. CatalogShapes' /\ LoopShapes' /\ DumpShapes'
  BY <1>1, CatalogStays DEF LoopShapes, DumpShapes, RowsOf
<1>3. CASE Accepted
  <2>1. target' = [target EXCEPT !.rows = Applied]
    BY <1>3 DEF Sync
  <2>2. target' = [cols |-> target.cols, rows |-> Applied]
    BY <2>1 DEF ReplicaShapes
  <2>3. RowsOf(Applied, DOMAIN target.cols)
    BY <1>3, AppliedShapes
  <2>4. target'.rows = Applied /\ target'.cols = target.cols
    BY <2>2
  <2> HIDE DEF SchemaShapes
  <2>5. ReplicaShapes'
    <3>1. target' = [cols |-> target'.cols, rows |-> target'.rows]
      BY <2>2, <2>4
    <3>2. RowsOf(target'.rows, DOMAIN target'.cols)
      BY <2>3, <2>4
    <3> QED
      BY <3>1, <3>2 DEF ReplicaShapes, RowsOf
  <2> QED
    BY <1>2, <2>5 DEF SchemaShapes
<1>4. CASE ~Accepted
  <2>1. target' = target
    BY <1>4 DEF Sync
  <2> QED
    BY <1>2, <2>1 DEF ReplicaShapes, RowsOf
<1> QED
  BY <1>3, <1>4

LEMMA CopyShapes == ASSUME SchemaShapes, NEW k \in SyncRows, CopyRow(k) PROVE SchemaShapes'
<1> USE DEF SchemaShapes
<1>1. UNCHANGED catalogVars /\ UNCHANGED <<known, dirty, target>> /\ daemon = "copy" /\ daemon' \in {"copy", "down"}
  BY DEF CopyRow
<1>2. CatalogShapes' /\ LoopShapes' /\ ReplicaShapes'
  BY <1>1, CatalogStays DEF LoopShapes, ReplicaShapes, RowsOf
<1>3. DumpShapes'
  <2>1. CASE todo' = todo \ {k} /\ UNCHANGED <<ddl, order, staged>>
    BY <2>1 DEF DumpShapes, RowsOf
  <2>2. CASE /\ todo' = todo \ {k} /\ UNCHANGED <<ddl, order>>
             /\ staged' = Put(staged, KeyOf(k, DumpFormat(k)), Decoded(record[k], DumpFormat(k), order))
    <3>1. KeyOf(k, DumpFormat(k)) \in SyncRows \cup {Bogus}
      BY DEF KeyOf
    <3>2. DOMAIN Decoded(record[k], DumpFormat(k), order) = order
      BY DEF Decoded
    <3> QED
      BY <2>2, <3>1, <3>2 DEF DumpShapes, RowsOf, Put
  <2>3. CASE NoDump
    BY <2>3 DEF NoDump, NoTable, DumpShapes, RowsOf
  <2> QED
    BY <2>1, <2>2, <2>3 DEF CopyRow
<1> QED
  BY <1>2, <1>3

LEMMA SchemaShapesStep == SchemaShapes /\ [SchemaNext]_schemaVars => SchemaShapes'
<1> SUFFICES ASSUME SchemaShapes, [SchemaNext]_schemaVars PROVE SchemaShapes'
  OBVIOUS
<1> USE DEF SchemaShapes
<1>1. CASE BeginFull
  <2>1. /\ UNCHANGED catalogVars /\ UNCHANGED <<known, dirty, target>> /\ daemon' = "copy"
        /\ ddl' = DdlNow /\ order' = columns /\ todo' = SyncRows /\ staged' = NoTable.rows
    BY <1>1 DEF BeginFull
  <2>2. CatalogShapes' /\ LoopShapes' /\ ReplicaShapes'
    BY <2>1, CatalogStays DEF LoopShapes, ReplicaShapes, RowsOf
  <2>3. DumpShapes'
    BY <2>1 DEF DumpShapes, RowsOf, DdlNow, NoTable
  <2> QED
    BY <2>2, <2>3
<1>2. CASE FinishFull
  <2>1. /\ UNCHANGED catalogVars /\ UNCHANGED <<known, dirty>> /\ daemon' = "watch"
        /\ target' = [cols |-> ddl, rows |-> staged] /\ NoDump
    BY <1>2 DEF FinishFull
  <2>2. CatalogShapes' /\ LoopShapes'
    BY <2>1, CatalogStays DEF LoopShapes
  <2>3. DumpShapes'
    BY <2>1 DEF NoDump, NoTable, DumpShapes, RowsOf
  <2>4. ReplicaShapes'
    BY <2>1 DEF DumpShapes, ReplicaShapes, RowsOf
  <2> QED
    BY <2>2, <2>3, <2>4
<1>3. CASE Resume \/ DropSlots \/ UNCHANGED schemaVars
  <2>1. /\ UNCHANGED catalogVars /\ UNCHANGED <<ddl, order, todo, staged, dirty, target>>
        /\ known' \in {known, NoSlots} /\ daemon' \in {daemon, "watch"}
    BY <1>3 DEF Resume, DropSlots, schemaVars, pushVars
  <2>2. CatalogShapes' /\ LoopShapes'
    BY <2>1, CatalogStays DEF LoopShapes
  <2>3. DumpShapes' /\ ReplicaShapes'
    BY <2>1 DEF DumpShapes, ReplicaShapes, RowsOf
  <2> QED
    BY <2>2, <2>3
<1>4. CASE End
  <2>1. /\ UNCHANGED catalogVars /\ UNCHANGED <<dirty, target>>
        /\ known' = NoSlots /\ daemon' = "down" /\ NoDump
    BY <1>4 DEF End
  <2>2. CatalogShapes' /\ LoopShapes'
    BY <2>1, CatalogStays DEF LoopShapes
  <2>3. DumpShapes' /\ ReplicaShapes'
    BY <2>1 DEF NoDump, NoTable, DumpShapes, ReplicaShapes, RowsOf
  <2> QED
    BY <2>2, <2>3
<1>5. CASE \E k \in SyncRows : CopyRow(k) \/ (\E live \in BOOLEAN : WriteRow(k, live))
  BY <1>5, CopyShapes, WriteShapes
<1>6. CASE \/ \E w \in Widths : AddColumn(w) \/ (\E c \in DOMAIN Latest : RetypeColumn(c, w))
           \/ \E c \in DOMAIN Latest : DropColumn(c)
  BY <1>6, AltersKeepShapes
<1>7. CASE Sync
  BY <1>7, SyncShapes
<1> QED
  BY <1>1, <1>2, <1>3, <1>4, <1>5, <1>6, <1>7 DEF SchemaNext

\* The types hold for every SchemaEnv, misread records and refused dumps included.
LEMMA SchemaTypeCorrect == SchemaSpec => []SchemaTypeOK
BY SchemaShapesInit, SchemaShapesStep, SchemaTypeIs, PTL DEF SchemaSpec

-----------------------------------------------------------------------------
(***************************************************************************)
(* The decompressor (Sqz).  While it reads, it stands between two segments,*)
(* and has put out the text of those before it.                            *)
(***************************************************************************)
Bytes  == 0..(Radix - 1)
SegSet == {s \in LiteralSegs \cup RepeatSegs : Writable(s)}
Codes  == [j \in 1..Len(segs) |-> Encoded(segs[j])]
Texts  == [j \in 1..Len(segs) |-> segs[j].text]

SqzInv ==
  /\ segs \in Seq(SegSet)
  /\ \E m \in 0..Len(AllBytes(segs)) : input = SubSeq(AllBytes(segs), 1, m)
  /\ verdict \in {"reading", "ok", "malformed"}
  /\ verdict = "reading" =>
       \E k \in 0..Len(segs) : /\ pos = Len(Take(Codes, k)) + 1 /\ pos <= Len(input) + 1
                               /\ out = Take(Texts, k) /\ Len(out) <= MaxRecord
  /\ verdict = "ok" =>
       \E k \in 0..Len(segs) : /\ input = Take(Codes, k)
                               /\ out = Take(Texts, k) /\ Len(out) <= MaxRecord
  /\ verdict = "malformed" => Len(input) < Len(AllBytes(segs)) \/ Len(Text(segs)) > MaxRecord

\* The bytes of a count, the lowest first.
B1(n) == n % Radix
B2(n) == (n \div Radix) % Radix
B3(n) == (n \div (Radix * Radix)) % Radix
B4(n) == (n \div (Radix * Radix * Radix)) % Radix

\* How a segment looks on the page.
Stands(code, n, width, b) ==
  \/ width = 0 /\ n \in 3..128 /\ code = <<256 - n, b>>
  \/ width = 2 /\ n = B1(n) + Radix * B2(n) /\ code = <<255, B1(n), B2(n), b>>
  \/ /\ width = 4 /\ n = B1(n) + Radix * (B2(n) + Radix * (B3(n) + Radix * B4(n)))
     /\ code = <<254, B1(n), B2(n), B3(n), B4(n), b>>

Repeated(seg) == Stands(Encoded(seg), Len(seg.text), seg.width, seg.byte)

LEMMA CountIs ==
  ASSUME NEW n \in Nat
  PROVE  /\ B1(n) \in Bytes /\ B2(n) \in Bytes /\ B3(n) \in Bytes /\ B4(n) \in Bytes
         /\ Count(n, 2) = <<B1(n), B2(n)>>
         /\ Count(n, 4) = <<B1(n), B2(n), B3(n), B4(n)>>
         /\ n < Radix * Radix => n = B1(n) + Radix * B2(n)
         /\ n \div (Radix * Radix * Radix) < Radix
              => n = B1(n) + Radix * (B2(n) + Radix * (B3(n) + Radix * B4(n)))
<1>1. B1(n) \in Bytes /\ B2(n) \in Bytes /\ B3(n) \in Bytes /\ B4(n) \in Bytes
  BY SMT DEF B1, B2, B3, B4, Bytes, Radix
<1>2. Count(n, 2) = <<B1(n), B2(n)>> /\ Count(n, 4) = <<B1(n), B2(n), B3(n), B4(n)>>
  <2> DEFINE q == <<B1(n), B2(n), B3(n), B4(n)>>
             r(w) == SubSeq(q, 1, w)
  <2>1. q \in Seq(Bytes) /\ Len(q) = 4 /\ q[1] = B1(n) /\ q[2] = B2(n) /\ q[3] = B3(n) /\ q[4] = B4(n)
    BY <1>1
  <2>2. /\ r(2) \in Seq(Bytes) /\ Len(r(2)) = 2 /\ r(2)[1] = q[1] /\ r(2)[2] = q[2]
        /\ r(4) \in Seq(Bytes) /\ Len(r(4)) = 4 /\ \A i \in 1..4 : r(4)[i] = q[i]
    BY <2>1, SubSeqProperties
  <2>3. Count(n, 2) = r(2) /\ Count(n, 4) = r(4)
    BY Zenon DEF Count, B1, B2, B3, B4
  <2> HIDE DEF r
  <2>4. r(2) = <<B1(n), B2(n)>>
    BY <1>1, <2>1, <2>2
  <2>5. r(4) = q
    BY <2>1, <2>2
  <2> QED
    BY <2>3, <2>4, <2>5
<1>3. n < Radix * Radix => n = B1(n) + Radix * B2(n)
  BY SMT DEF B1, B2, Radix
<1>4. n \div (Radix * Radix * Radix) < Radix => n = B1(n) + Radix * (B2(n) + Radix * (B3(n) + Radix * B4(n)))
  BY SMT DEF B1, B2, B3, B4, Radix
<1> QED
  BY <1>1, <1>2, <1>3, <1>4

LEMMA GlueFour ==
  ASSUME NEW a1, NEW a2, NEW a3, NEW a4
  PROVE  <<a1>> \o <<a2, a3>> \o <<a4>> = <<a1, a2, a3, a4>>
<1> DEFINE r == <<a1>> \o <<a2, a3>> \o <<a4>>
           S == {a1, a2, a3, a4}
<1>1. r \in Seq(S) /\ Len(r) = 4 /\ r[1] = a1 /\ r[2] = a2 /\ r[3] = a3 /\ r[4] = a4
  OBVIOUS
<1>2. <<a1, a2, a3, a4>> \in Seq(S)
  OBVIOUS
<1> HIDE DEF r, S
<1>3. r = <<a1, a2, a3, a4>>
  BY <1>1, <1>2
<1> QED
  BY <1>3 DEF r

LEMMA GlueSix ==
  ASSUME NEW a1, NEW a2, NEW a3, NEW a4, NEW a5, NEW a6
  PROVE  <<a1>> \o <<a2, a3, a4, a5>> \o <<a6>> = <<a1, a2, a3, a4, a5, a6>>
<1> DEFINE r == <<a1>> \o <<a2, a3, a4, a5>> \o <<a6>>
           S == {a1, a2, a3, a4, a5, a6}
<1>1. r \in Seq(S) /\ Len(r) = 6 /\ r[1] = a1 /\ r[2] = a2 /\ r[3] = a3 /\ r[4] = a4 /\ r[5] = a5 /\ r[6] = a6
  OBVIOUS
<1>2. <<a1, a2, a3, a4, a5, a6>> \in Seq(S)
  OBVIOUS
<1> HIDE DEF r, S
<1>3. r = <<a1, a2, a3, a4, a5, a6>>
  BY <1>1, <1>2
<1> QED
  BY <1>3 DEF r

LEMMA ByteIs == \A i \in 1..256 : Byte(-i) = 256 - i
BY SMT DEF Byte, Radix

LEMMA LiteralIs ==
  ASSUME NEW seg \in SegSet, seg.copy
  PROVE  /\ seg.text \in Seq(Bytes) /\ Len(seg.text) \in 0..127
         /\ Encoded(seg) = <<Len(seg.text)>> \o seg.text
<1>1. seg \in LiteralSegs
  BY DEF SegSet, RepeatSegs
<1>2. PICK k \in Literals : \E t \in [1..k -> Payload] : seg = [copy |-> TRUE, text |-> t, width |-> 0]
  BY <1>1 DEF LiteralSegs
<1>3. PICK t \in [1..k -> Payload] : seg = [copy |-> TRUE, text |-> t, width |-> 0]
  BY <1>2
<1>4. k \in 0..127 /\ Payload \subseteq Bytes
  BY SqzAssumption DEF Radix, Bytes
<1>5. t \in Seq(Bytes) /\ Len(t) = k /\ seg.text = t
  BY <1>3, <1>4
<1> QED
  BY <1>4, <1>5 DEF Encoded

LEMMA RepeatIs ==
  ASSUME NEW seg \in SegSet, ~seg.copy
  PROVE  /\ seg.text \in Seq(Bytes) /\ seg.byte \in Bytes
         /\ seg.text = [j \in 1..Len(seg.text) |-> seg.byte]
         /\ Repeated(seg)
<1>1. seg \in RepeatSegs /\ Writable(seg)
  BY DEF SegSet, LiteralSegs
<1>2. PICK k \in Repeats, b \in Payload, x \in {0, 2, 4} :
        seg = [copy |-> FALSE, text |-> [j \in 1..k |-> b], byte |-> b, width |-> x]
  BY <1>1 DEF RepeatSegs
<1>3. k \in Nat /\ b \in Bytes
  BY SqzAssumption DEF Bytes
<1>4. seg.text = [j \in 1..k |-> b]
  BY <1>2
<1>5. seg.text \in Seq(Bytes) /\ Len(seg.text) = k
  BY <1>3, <1>4
<1>6. seg.byte = b /\ seg.width = x /\ ~seg.copy
  BY <1>2
<1>7. ASSUME x = 0 PROVE Stands(Encoded(seg), k, x, b)
  <2>1. k \in 3..(Radix \div 2)
    BY <1>1, <1>5, <1>6, <1>7 DEF Writable
  <2>2. k \in 3..128
    BY <2>1, SMT DEF Radix
  <2>3. Byte(-k) = 256 - k
    BY <2>2, ByteIs
  <2>4. Encoded(seg) = <<Byte(-k), b>>
    BY <1>5, <1>6, <1>7 DEF Encoded
  <2> QED
    BY <1>7, <2>2, <2>3, <2>4 DEF Stands
<1>8. ASSUME x = 2 PROVE Stands(Encoded(seg), k, x, b)
  <2>1. k < Radix * Radix
    BY <1>1, <1>5, <1>6, <1>8 DEF Writable
  <2>2. Encoded(seg) = <<Byte(-1)>> \o Count(k, 2) \o <<b>>
    BY <1>5, <1>6, <1>8 DEF Encoded
  <2>3. Byte(-1) = 255
    BY ByteIs
  <2>4. Count(k, 2) = <<B1(k), B2(k)>> /\ k = B1(k) + Radix * B2(k)
    BY <1>3, <2>1, CountIs
  <2>5. Encoded(seg) = <<255>> \o <<B1(k), B2(k)>> \o <<b>>
    BY <2>2, <2>3, <2>4, Zenon
  <2>6. Encoded(seg) = <<255, B1(k), B2(k), b>>
    <3>1. <<255>> \o <<B1(k), B2(k)>> \o <<b>> = <<255, B1(k), B2(k), b>>
      BY GlueFour
    <3> QED
      BY <2>5, <3>1
  <2> QED
    BY <1>8, <2>4, <2>6, Zenon DEF Stands
<1>9. ASSUME x = 4 PROVE Stands(Encoded(seg), k, x, b)
  <2>1. k \div (Radix * Radix * Radix) < Radix
    BY <1>1, <1>5, <1>6, <1>9 DEF Writable
  <2>2. Encoded(seg) = <<Byte(-2)>> \o Count(k, 4) \o <<b>>
    BY <1>5, <1>6, <1>9 DEF Encoded
  <2>3. Byte(-2) = 254
    BY ByteIs
  <2>4. /\ Count(k, 4) = <<B1(k), B2(k), B3(k), B4(k)>>
        /\ k = B1(k) + Radix * (B2(k) + Radix * (B3(k) + Radix * B4(k)))
    BY <1>3, <2>1, CountIs
  <2>5. Encoded(seg) = <<254>> \o <<B1(k), B2(k), B3(k), B4(k)>> \o <<b>>
    BY <2>2, <2>3, <2>4, Zenon
  <2>6. Encoded(seg) = <<254, B1(k), B2(k), B3(k), B4(k), b>>
    <3>1. <<254>> \o <<B1(k), B2(k), B3(k), B4(k)>> \o <<b>> = <<254, B1(k), B2(k), B3(k), B4(k), b>>
      BY GlueSix
    <3> QED
      BY <2>5, <3>1
  <2> QED
    BY <1>9, <2>4, <2>6, Zenon DEF Stands
<1>10. Stands(Encoded(seg), k, x, b)
  BY <1>2, <1>7, <1>8, <1>9
<1> QED
  BY <1>3, <1>4, <1>5, <1>6, <1>10, Zenon DEF Repeated

LEMMA CodeIsSeq ==
  ASSUME NEW seg \in SegSet
  PROVE  seg.text \in Seq(Bytes) /\ Encoded(seg) \in Seq(Bytes) /\ Len(Encoded(seg)) >= 1
<1>1. CASE seg.copy
  <2>3. Len(seg.text) \in 0..127 /\ seg.text \in Seq(Bytes)
    BY <1>1, LiteralIs
  <2>1. Len(seg.text) \in Bytes /\ seg.text \in Seq(Bytes)
    BY <2>3 DEF Bytes, Radix
  <2>2. <<Len(seg.text)>> \o seg.text \in Seq(Bytes) /\ Len(<<Len(seg.text)>> \o seg.text) >= 1
    BY <2>1
  <2> QED
    BY <1>1, <2>1, <2>2, LiteralIs
<1>2. CASE ~seg.copy
  <2> DEFINE n == Len(seg.text)
  <2>1. seg.text \in Seq(Bytes) /\ seg.byte \in Bytes /\ Repeated(seg)
    BY <1>2, RepeatIs
  <2>4. n \in Nat
    BY <2>1
  <2>2. B1(n) \in Bytes /\ B2(n) \in Bytes /\ B3(n) \in Bytes /\ B4(n) \in Bytes
    BY <2>4, CountIs
  <2>3. 255 \in Bytes /\ 254 \in Bytes /\ \A i \in 3..128 : 256 - i \in Bytes
    BY SMT DEF Bytes, Radix
  <2>5. CASE n \in 3..128 /\ Encoded(seg) = <<256 - n, seg.byte>>
    <3>1. 256 - n \in Bytes
      BY <2>3, <2>5
    <3> QED
      BY <2>1, <2>5, <3>1
  <2>6. CASE Encoded(seg) = <<255, B1(n), B2(n), seg.byte>>
    BY <2>1, <2>2, <2>3, <2>6
  <2>7. CASE Encoded(seg) = <<254, B1(n), B2(n), B3(n), B4(n), seg.byte>>
    BY <2>1, <2>2, <2>3, <2>7
  <2> QED
    BY <2>1, <2>5, <2>6, <2>7, Zenon DEF Repeated, Stands
<1> QED
  BY <1>1, <1>2


(***************************************************************************)
(* Where the loop stands: at the first byte of segment k + 1.              *)
(***************************************************************************)
AtSegment(k) ==
  /\ k \in 0..(Len(segs) - 1) /\ segs[k + 1] \in SegSet
  /\ segs[k + 1].text \in Seq(Bytes) /\ Encoded(segs[k + 1]) \in Seq(Bytes) /\ Len(Encoded(segs[k + 1])) >= 1
  /\ input \in Seq(Bytes) /\ pos \in Nat /\ pos >= 1 /\ pos <= Len(input)
  /\ out \in Seq(Bytes) /\ out = Take(Texts, k) /\ Len(out) <= MaxRecord
  /\ pos + Len(Encoded(segs[k + 1])) = Len(Take(Codes, k + 1)) + 1
  /\ pos + Len(Encoded(segs[k + 1])) <= Len(AllBytes(segs)) + 1
  /\ Take(Texts, k + 1) = out \o segs[k + 1].text
  /\ Len(out) + Len(segs[k + 1].text) <= Len(Text(segs))
  /\ \A i \in 1..Len(Encoded(segs[k + 1])) :
       pos + i <= Len(input) + 1 => input[pos + i - 1] = Encoded(segs[k + 1])[i]

LEMMA SegmentsAre ==
  ASSUME segs \in Seq(SegSet)
  PROVE  /\ Codes \in Seq(Seq(Bytes)) /\ Len(Codes) = Len(segs)
         /\ Texts \in Seq(Seq(Bytes)) /\ Len(Texts) = Len(segs)
         /\ \A j \in 1..Len(segs) : Codes[j] = Encoded(segs[j]) /\ Texts[j] = segs[j].text
<1>1. \A j \in 1..Len(segs) : segs[j].text \in Seq(Bytes) /\ Encoded(segs[j]) \in Seq(Bytes)
  <2>1. ASSUME NEW j \in 1..Len(segs) PROVE segs[j] \in SegSet
    OBVIOUS
  <2> QED
    BY <2>1, CodeIsSeq
<1>2. Len(segs) \in Nat
  OBVIOUS
<1>3. Codes \in Seq(Seq(Bytes)) /\ Len(Codes) = Len(segs)
  BY <1>1, <1>2 DEF Codes
<1>4. Texts \in Seq(Seq(Bytes)) /\ Len(Texts) = Len(segs)
  BY <1>1, <1>2 DEF Texts
<1>5. \A j \in 1..Len(segs) : Codes[j] = Encoded(segs[j]) /\ Texts[j] = segs[j].text
  BY DEF Codes, Texts
<1> QED
  BY <1>3, <1>4, <1>5

\* The bytes and the text of the first k segments.
LEMMA FirstSegments ==
  ASSUME segs \in Seq(SegSet), NEW k \in 0..Len(segs)
  PROVE  AllBytes(SubSeq(segs, 1, k)) = Take(Codes, k) /\ Text(SubSeq(segs, 1, k)) = Take(Texts, k)
<1> DEFINE front == SubSeq(segs, 1, k)
<1>1. Len(front) = k /\ \A j \in 1..k : front[j] = segs[j] /\ j \in 1..Len(segs)
  OBVIOUS
<1> HIDE DEF front
<1>2. [j \in 1..Len(front) |-> Encoded(front[j])] = [j \in 1..k |-> Codes[j]]
  BY <1>1, SegmentsAre
<1>3. [j \in 1..Len(front) |-> front[j].text] = [j \in 1..k |-> Texts[j]]
  BY <1>1, SegmentsAre
<1>4. AllBytes(front) = Take(Codes, k)
  BY <1>2 DEF AllBytes, Take
<1>5. Text(front) = Take(Texts, k)
  BY <1>3 DEF Text, Take
<1> QED
  BY <1>4, <1>5 DEF front

LEMMA AllSegments ==
  ASSUME segs \in Seq(SegSet)
  PROVE  AllBytes(segs) = Take(Codes, Len(segs)) /\ Text(segs) = Take(Texts, Len(segs))
<1>1. SubSeq(segs, 1, Len(segs)) = segs /\ Len(segs) \in 0..Len(segs)
  OBVIOUS
<1> QED
  BY <1>1, FirstSegments

\* What is read is the beginning of the record.
LEMMA InputIs ==
  ASSUME segs \in Seq(SegSet), NEW m \in 0..Len(AllBytes(segs)), input = SubSeq(AllBytes(segs), 1, m)
  PROVE  /\ AllBytes(segs) \in Seq(Bytes) /\ input \in Seq(Bytes) /\ Len(input) = m
         /\ \A i \in 1..m : input[i] = AllBytes(segs)[i]
<1>1. AllBytes(segs) \in Seq(Bytes)
  <2>1. Len(segs) \in 0..Len(Codes)
    BY SegmentsAre
  <2> QED
    BY <2>1, AllSegments, SegmentsAre, TakeIsSeq
<1> QED
  BY <1>1

LEMMA AtASegment ==
  ASSUME SqzInv, verdict = "reading", pos <= Len(input)
  PROVE  \E k \in 0..(Len(segs) - 1) : AtSegment(k)
<1>1. segs \in Seq(SegSet)
  BY DEF SqzInv
<1>2. PICK m \in 0..Len(AllBytes(segs)) : input = SubSeq(AllBytes(segs), 1, m)
  BY DEF SqzInv
<1>3. PICK k \in 0..Len(segs) : /\ pos = Len(Take(Codes, k)) + 1
                               /\ out = Take(Texts, k) /\ Len(out) <= MaxRecord
  BY DEF SqzInv
<1>4. /\ AllBytes(segs) \in Seq(Bytes) /\ input \in Seq(Bytes) /\ Len(input) = m
      /\ \A i \in 1..m : input[i] = AllBytes(segs)[i]
  BY <1>1, <1>2, InputIs
<1>5. /\ Codes \in Seq(Seq(Bytes)) /\ Len(Codes) = Len(segs)
      /\ Texts \in Seq(Seq(Bytes)) /\ Len(Texts) = Len(segs)
      /\ AllBytes(segs) = Take(Codes, Len(segs)) /\ Text(segs) = Take(Texts, Len(segs))
  BY <1>1, SegmentsAre, AllSegments
<1>6. Len(segs) \in Nat /\ Len(AllBytes(segs)) \in Nat /\ m \in Nat /\ m <= Len(AllBytes(segs))
  BY <1>1, <1>4
<1>7. k # Len(segs)
  BY <1>3, <1>4, <1>5, <1>6
<1>8. k \in 0..(Len(segs) - 1) /\ k + 1 \in 1..Len(segs) /\ k + 1 \in 0..Len(segs)
  BY <1>3, <1>6, <1>7
<1> DEFINE code == Encoded(segs[k + 1])
           text == segs[k + 1].text
<1>9. segs[k + 1] \in SegSet
  BY <1>1, <1>8
<1>10. text \in Seq(Bytes) /\ code \in Seq(Bytes) /\ Len(code) >= 1 /\ Codes[k + 1] = code /\ Texts[k + 1] = text
  BY <1>1, <1>8, <1>9, CodeIsSeq, SegmentsAre
<1>11. /\ Take(Codes, k) \in Seq(Bytes) /\ Take(Codes, k + 1) = Take(Codes, k) \o code
       /\ Take(Texts, k) \in Seq(Bytes) /\ Take(Texts, k + 1) = Take(Texts, k) \o text
  BY <1>3, <1>5, <1>8, <1>10, TakeNext, TakeIsSeq
<1>12. /\ Len(Take(Codes, k + 1)) <= Len(AllBytes(segs))
       /\ \A i \in 1..Len(Take(Codes, k + 1)) : AllBytes(segs)[i] = Take(Codes, k + 1)[i]
       /\ Len(Take(Texts, k + 1)) <= Len(Text(segs))
  <2>1. Len(segs) \in 0..Len(Codes) /\ Len(segs) \in 0..Len(Texts)
    BY <1>5, <1>6
  <2> QED
    BY <1>5, <1>8, <2>1, TakeGrows
<1> DEFINE before == Take(Codes, k)
           whole  == Take(Codes, k + 1)
<1> HIDE DEF code, text, before, whole
<1>13. /\ before \in Seq(Bytes) /\ code \in Seq(Bytes) /\ whole = before \o code /\ pos = Len(before) + 1
       /\ Len(whole) <= Len(AllBytes(segs)) /\ \A i \in 1..Len(whole) : AllBytes(segs)[i] = whole[i]
  BY <1>3, <1>10, <1>11, <1>12 DEF before, whole, code
<1>14. Len(before) \in Nat /\ Len(code) \in Nat /\ Len(whole) = Len(before) + Len(code)
  BY <1>13
<1>15. pos \in Nat /\ pos >= 1 /\ pos + Len(code) = Len(whole) + 1 /\ pos + Len(code) <= Len(AllBytes(segs)) + 1
  BY <1>6, <1>13, <1>14
<1>16. ASSUME NEW i \in 1..Len(code), pos + i <= Len(input) + 1
       PROVE  input[pos + i - 1] = code[i]
  <2>1. pos + i - 1 = Len(before) + i /\ pos + i - 1 \in 1..m /\ pos + i - 1 \in 1..Len(whole)
    BY <1>4, <1>6, <1>13, <1>14, <1>16
  <2>2. whole[Len(before) + i] = code[i]
    BY <1>13, <1>14
  <2> QED
    BY <1>4, <1>13, <2>1, <2>2
<1>17. out \in Seq(Bytes) /\ text \in Seq(Bytes) /\ Take(Texts, k + 1) = out \o text
  BY <1>3, <1>10, <1>11 DEF text
<1>18. Len(out) + Len(text) <= Len(Text(segs))
  BY <1>12, <1>17
<1> QED
  BY <1>3, <1>4, <1>8, <1>9, <1>10, <1>15, <1>16, <1>17, <1>18 DEF AtSegment, code, text, whole

\* The segment is put out whole, or rejected because it is cut short or does not fit.
LEMMA Advance ==
  ASSUME SqzInv, verdict = "reading", NEW k \in 0..(Len(segs) - 1), AtSegment(k),
         pos + Len(Encoded(segs[k + 1])) <= Len(input) + 1,
         Emit(segs[k + 1].text, Len(Encoded(segs[k + 1])))
  PROVE  SqzInv'
<1> DEFINE code == Encoded(segs[k + 1])
           text == segs[k + 1].text
<1>1. out' = out \o text /\ pos' = pos + Len(code) /\ segs' = segs /\ input' = input
      /\ verdict' = IF Len(out') > MaxRecord THEN "malformed" ELSE "reading"
  BY DEF Emit
<1>2. /\ k + 1 \in 0..Len(segs) /\ pos' = Len(Take(Codes, k + 1)) + 1 /\ out' = Take(Texts, k + 1)
      /\ pos' <= Len(input) + 1 /\ Len(out') = Len(out) + Len(text) /\ Len(out') <= Len(Text(segs))
      /\ Len(out') \in Nat /\ Len(Text(segs)) \in Nat
  <2>1. segs \in Seq(SegSet)
    BY DEF SqzInv
  <2>2. /\ pos + Len(code) = Len(Take(Codes, k + 1)) + 1 /\ Take(Texts, k + 1) = out \o text
        /\ out \in Seq(Bytes) /\ text \in Seq(Bytes) /\ Len(out) + Len(text) <= Len(Text(segs))
    BY DEF AtSegment
  <2>3. Text(segs) \in Seq(Bytes)
    <3>1. Len(segs) \in 0..Len(Texts)
      BY <2>1, SegmentsAre
    <3> QED
      BY <2>1, <3>1, AllSegments, SegmentsAre, TakeIsSeq
  <2> HIDE DEF code, text
  <2>4. Len(out \o text) = Len(out) + Len(text) /\ Len(out) \in Nat /\ Len(text) \in Nat
    BY <2>2
  <2>5. pos' <= Len(input) + 1
    BY <1>1 DEF code
  <2>6. k + 1 \in 0..Len(segs)
    BY <2>1
  <2>7. Len(Text(segs)) \in Nat
    BY <2>3
  <2> QED
    BY <1>1, <2>2, <2>4, <2>5, <2>6, <2>7
<1>3. Codes' = Codes /\ Texts' = Texts /\ AllBytes(segs)' = AllBytes(segs) /\ Text(segs)' = Text(segs)
  BY <1>1 DEF Codes, Texts
<1>4. /\ segs' \in Seq(SegSet)
      /\ \E m \in 0..Len(AllBytes(segs)) : input' = SubSeq(AllBytes(segs), 1, m)
  BY <1>1 DEF SqzInv
<1>5. MaxRecord \in Nat
  BY SqzAssumption
<1> HIDE DEF code, text
<1>6. CASE Len(out') > MaxRecord
  <2>1. verdict' = "malformed" /\ Len(Text(segs)) > MaxRecord
    BY <1>1, <1>2, <1>5, <1>6
  <2> QED
    BY <1>1, <1>3, <1>4, <2>1 DEF SqzInv
<1>7. CASE ~(Len(out') > MaxRecord)
  <2>1. verdict' = "reading" /\ Len(out') <= MaxRecord
    BY <1>1, <1>2, <1>5, <1>7
  <2>2. \E h \in 0..Len(segs') : /\ pos' = Len(Take(Codes', h)) + 1 /\ pos' <= Len(input') + 1
                                 /\ out' = Take(Texts', h) /\ Len(out') <= MaxRecord
    BY <1>1, <1>2, <1>3, <2>1
  <2> QED
    BY <1>1, <1>3, <1>4, <2>1, <2>2 DEF SqzInv
<1> QED
  BY <1>6, <1>7

LEMMA Reject ==
  ASSUME SqzInv, verdict = "reading", NEW k \in 0..(Len(segs) - 1), AtSegment(k), Malformed,
         \/ Len(input) < pos + Len(Encoded(segs[k + 1])) - 1
         \/ Len(out) + Len(segs[k + 1].text) > MaxRecord
  PROVE  SqzInv'
<1>1. segs \in Seq(SegSet) /\ \E m \in 0..Len(AllBytes(segs)) : input = SubSeq(AllBytes(segs), 1, m)
  BY DEF SqzInv
<1>2. Len(input) < Len(AllBytes(segs)) \/ Len(Text(segs)) > MaxRecord
  <2>1. /\ AllBytes(segs) \in Seq(Bytes) /\ input \in Seq(Bytes) /\ Encoded(segs[k + 1]) \in Seq(Bytes) /\ pos \in Nat
        /\ pos + Len(Encoded(segs[k + 1])) <= Len(AllBytes(segs)) + 1
    BY <1>1, InputIs DEF AtSegment
  <2>2. /\ Len(AllBytes(segs)) \in Nat /\ Len(input) \in Nat /\ Len(Encoded(segs[k + 1])) \in Nat
    BY <2>1
  <2>3. CASE Len(input) < pos + Len(Encoded(segs[k + 1])) - 1
    BY <2>1, <2>2, <2>3
  <2>4. CASE Len(out) + Len(segs[k + 1].text) > MaxRecord
    <3>1. Text(segs) \in Seq(Bytes)
      <4>1. Len(segs) \in 0..Len(Texts)
        BY <1>1, SegmentsAre
      <4> QED
        BY <1>1, <4>1, AllSegments, SegmentsAre, TakeIsSeq
    <3>2. /\ out \in Seq(Bytes) /\ segs[k + 1].text \in Seq(Bytes)
          /\ Len(out) + Len(segs[k + 1].text) <= Len(Text(segs))
      BY DEF AtSegment
    <3>3. Len(Text(segs)) \in Nat /\ Len(out) \in Nat /\ Len(segs[k + 1].text) \in Nat /\ MaxRecord \in Nat
      BY <3>1, <3>2, SqzAssumption
    <3> QED
      BY <2>4, <3>2, <3>3
  <2> QED
    BY <2>3, <2>4
<1>3. segs' = segs /\ input' = input /\ verdict' = "malformed"
  BY DEF Malformed
<1>4. AllBytes(segs)' = AllBytes(segs) /\ Text(segs)' = Text(segs)
  BY <1>3
<1> QED
  BY <1>1, <1>2, <1>3, <1>4 DEF SqzInv

Signed(byte, value) ==
  /\ byte \in 0..255 /\ value \in Int
  /\ value >= 0 => byte \in 0..127 /\ value = byte
  /\ value < 0 => byte \in 128..255 /\ value = byte - 256

LEMMA CtrlIs == ASSUME input[pos] \in Bytes PROVE Signed(input[pos], Ctrl)
<1>1. Radix = 256 /\ Radix \div 2 = 128
  BY SMT DEF Radix
<1>2. input[pos] \in 0..255
  BY <1>1 DEF Bytes
<1> QED
  BY <1>1, <1>2 DEF Ctrl, Signed

LEMMA SignedIs ==
  ASSUME NEW b, NEW v, Signed(b, v)
  PROVE  v = (IF b <= 127 THEN b ELSE b - 256) /\ (v < 0 => b > 127)
BY DEF Signed

\* A control byte of a segment to repeat is a negative one.
RepeatedCtrl(seg) == Encoded(seg)[1] \notin 0..127

LEMMA RepeatCtrl == ASSUME NEW seg \in SegSet, ~seg.copy PROVE RepeatedCtrl(seg)
<1>1. Repeated(seg)
  BY RepeatIs
<1> DEFINE n == Len(seg.text)
<1>2. CASE n \in 3..128 /\ Encoded(seg) = <<256 - n, seg.byte>>
  <2>1. Encoded(seg)[1] = 256 - n
    BY <1>2
  <2>2. \A i \in 3..128 : 256 - i \notin 0..127
    OBVIOUS
  <2>3. 256 - n \notin 0..127
    BY <1>2, <2>2
  <2> QED
    BY <2>1, <2>3 DEF RepeatedCtrl
<1>3. CASE Encoded(seg) = <<255, B1(n), B2(n), seg.byte>>
  BY <1>3 DEF RepeatedCtrl
<1>4. CASE Encoded(seg) = <<254, B1(n), B2(n), B3(n), B4(n), seg.byte>>
  BY <1>4 DEF RepeatedCtrl
<1> QED
  BY <1>1, <1>2, <1>3, <1>4, Zenon DEF Repeated, Stands

LEMMA CopyKeeps == ASSUME SqzInv, Copy PROVE SqzInv'
<1>1. verdict = "reading" /\ pos <= Len(input) /\ Ctrl >= 0
  BY DEF Copy, More
<1>2. PICK k \in 0..(Len(segs) - 1) : AtSegment(k)
  BY <1>1, AtASegment
<1> DEFINE seg  == segs[k + 1]
           code == Encoded(seg)
<1>3. /\ seg \in SegSet /\ seg.text \in Seq(Bytes) /\ code \in Seq(Bytes) /\ Len(code) >= 1
      /\ input \in Seq(Bytes) /\ pos \in Nat /\ pos >= 1
      /\ \A i \in 1..Len(code) : pos + i <= Len(input) + 1 => input[pos + i - 1] = code[i]
  BY <1>2 DEF AtSegment
<1> HIDE DEF seg, code
<1>4. Len(code) \in Nat /\ Len(input) \in Nat /\ Len(seg.text) \in Nat
  BY <1>3
<1>5. input[pos] = code[1] /\ input[pos] \in Bytes
  <2>1. 1 \in 1..Len(code) /\ pos + 1 <= Len(input) + 1 /\ pos + 1 - 1 = pos /\ pos \in 1..Len(input)
    BY <1>1, <1>3, <1>4
  <2> QED
    BY <1>3, <2>1
<1>6. input[pos] \in 0..127 /\ Ctrl = input[pos]
  <2>1. Signed(input[pos], Ctrl)
    BY <1>5, CtrlIs, Zenon
  <2> QED
    BY <1>1, <2>1 DEF Signed
<1>7. seg.copy
  <2>1. SUFFICES ASSUME ~seg.copy PROVE FALSE
    OBVIOUS
  <2>2. RepeatedCtrl(seg)
    BY <1>3, <2>1, RepeatCtrl
  <2> QED
    BY <1>5, <1>6, <2>2 DEF RepeatedCtrl, code
<1>8. code = <<Len(seg.text)>> \o seg.text
  BY <1>3, <1>7, LiteralIs DEF code
<1> DEFINE text == seg.text
<1> HIDE DEF text
<1>9. /\ text \in Seq(Bytes) /\ code = <<Len(text)>> \o text /\ Len(text) \in Nat
  BY <1>3, <1>4, <1>8 DEF text
<1>10. Len(code) = 1 + Len(text) /\ code[1] = Len(text) /\ \A i \in 1..Len(text) : code[i + 1] = text[i]
  BY <1>9
<1>11. Ctrl = Len(text)
  BY <1>5, <1>6, <1>10
<1>12. CASE Ctrl > Left
  <2>1. Len(input) < pos + Len(code) - 1
    BY <1>3, <1>4, <1>9, <1>10, <1>11, <1>12 DEF Left
  <2>2. Malformed
    BY <1>12 DEF Copy
  <2> QED
    BY <1>1, <1>2, <2>1, <2>2, Reject DEF code, seg
<1>13. CASE ~(Ctrl > Left)
  <2>1. pos + Len(text) <= Len(input) /\ pos + Len(code) <= Len(input) + 1
    BY <1>3, <1>4, <1>9, <1>10, <1>11, <1>13 DEF Left
  <2> DEFINE cutOut == SubSeq(input, pos + 1, pos + Len(text))
  <2>2. cutOut = text
    <3>1. \A i \in (pos + 1)..(pos + Len(text)) : i \in 1..Len(input)
      BY <1>3, <1>4, <1>9, <2>1
    <3>2. cutOut \in Seq(Bytes) /\ Len(cutOut) = Len(text) /\ \A i \in 1..Len(text) : cutOut[i] = input[pos + i]
      BY <1>3, <1>4, <1>9, <3>1
    <3>3. ASSUME NEW i \in 1..Len(text) PROVE cutOut[i] = text[i]
      <4>1. i + 1 \in 1..Len(code) /\ pos + (i + 1) <= Len(input) + 1 /\ pos + (i + 1) - 1 = pos + i
        BY <1>3, <1>4, <1>9, <1>10, <2>1
      <4>2. input[pos + i] = code[i + 1]
        BY <1>3, <4>1
      <4> QED
        BY <1>10, <3>2, <4>2
    <3>4. Len(cutOut) = Len(text) /\ Len(text) \in Nat /\ cutOut \in Seq(Bytes) /\ text \in Seq(Bytes)
      BY <1>9, <3>2
    <3> HIDE DEF cutOut
    <3> QED
      BY <3>3, <3>4
  <2>3. Emit(cutOut, 1 + Len(text))
    BY <1>11, <1>13 DEF Copy
  <2>4. Emit(text, Len(code))
    BY <1>10, <2>2, <2>3
  <2> QED
    BY <1>1, <1>2, <2>1, <2>4, Advance DEF code, seg, text
<1> QED
  BY <1>12, <1>13

\* The count read from the bytes behind the control byte is the one Firebird wrote.
LEMMA RunIs ==
  ASSUME NEW seg \in SegSet, ~seg.copy, input \in Seq(Bytes), pos \in Nat, pos >= 1, pos <= Len(input),
         \A i \in 1..Len(Encoded(seg)) : pos + i <= Len(input) + 1 => input[pos + i - 1] = Encoded(seg)[i]
  PROVE  /\ Len(Encoded(seg)) = CountWidth + 2 /\ CountWidth \in {0, 2, 4} /\ Ctrl < 0
         /\ Left >= CountWidth + 1 =>
              /\ RunLength = Len(seg.text) /\ input[pos + CountWidth + 1] = seg.byte
<1> DEFINE n    == Len(seg.text)
           code == Encoded(seg)
<1>1. seg.text \in Seq(Bytes) /\ seg.byte \in Bytes /\ Repeated(seg)
  BY RepeatIs
<1>2. n \in Nat /\ Len(input) \in Nat /\ Left = Len(input) - pos /\ pos \in 1..Len(input)
  BY <1>1 DEF Left
<1>3. input[pos] \in Bytes
  BY <1>2
<1>4. input[pos] \in 0..255 /\ Ctrl = IF input[pos] <= 127 THEN input[pos] ELSE input[pos] - 256
  <2>1. Signed(input[pos], Ctrl)
    BY <1>3, CtrlIs, Zenon
  <2>2. Ctrl = IF input[pos] <= 127 THEN input[pos] ELSE input[pos] - 256
    BY <2>1, SignedIs, Zenon
  <2>3. input[pos] \in 0..255
    BY <2>1, Zenon DEF Signed
  <2> QED
    BY <2>2, <2>3
<1>5. \A i \in 1..Len(code) : pos + i <= Len(input) + 1 => input[pos + i - 1] = code[i]
  OBVIOUS
<1>6. B1(n) \in Bytes /\ B2(n) \in Bytes /\ B3(n) \in Bytes /\ B4(n) \in Bytes
  BY <1>2, CountIs
<1> HIDE DEF n, code
<1>7. ASSUME Len(code) >= 1, Len(code) \in Nat PROVE input[pos] = code[1]
  <2>1. 1 \in 1..Len(code) /\ pos + 1 <= Len(input) + 1 /\ pos + 1 - 1 = pos
    BY <1>2, <1>7
  <2> QED
    BY <1>5, <2>1
<1>8. ASSUME n \in 3..128, code = <<256 - n, seg.byte>>
      PROVE  /\ Len(code) = CountWidth + 2 /\ CountWidth = 0 /\ Ctrl < 0
             /\ Left >= CountWidth + 1 => RunLength = n /\ input[pos + CountWidth + 1] = seg.byte
  <2>1. Len(code) = 2 /\ code[1] = 256 - n /\ code[2] = seg.byte
    BY <1>8
  <2>2. Ctrl = -n
    <3>1. input[pos] = 256 - n
      BY <1>7, <2>1
    <3>2. n \in 3..128
      BY <1>8
    <3> QED
      BY <1>4, <3>1, <3>2
  <2>3. CountWidth = 0 /\ Ctrl < 0
    BY <1>8, <2>2 DEF CountWidth
  <2>4. RunLength = n
    BY <1>2, <2>2, <2>3 DEF RunLength
  <2>5. Left >= 1 => input[pos + 1] = code[2]
    <3>1. Left >= 1 => pos + 2 <= Len(input) + 1 /\ pos + 2 - 1 = pos + 1 /\ 2 \in 1..Len(code)
      BY <1>2, <2>1
    <3> QED
      BY <1>5, <3>1
  <2> QED
    BY <2>1, <2>3, <2>4, <2>5
<1>9. ASSUME n = B1(n) + Radix * B2(n), code = <<255, B1(n), B2(n), seg.byte>>
      PROVE  /\ Len(code) = CountWidth + 2 /\ CountWidth = 2 /\ Ctrl < 0
             /\ Left >= CountWidth + 1 => RunLength = n /\ input[pos + CountWidth + 1] = seg.byte
  <2>1. Len(code) = 4 /\ code[1] = 255 /\ code[2] = B1(n) /\ code[3] = B2(n) /\ code[4] = seg.byte
    BY <1>9
  <2>2. Ctrl = -1
    BY <1>4, <1>7, <2>1
  <2>3. CountWidth = 2 /\ Ctrl < 0
    BY <2>2 DEF CountWidth
  <2>4. ASSUME Left >= 3, NEW i \in 1..3 PROVE input[pos + i] = code[i + 1]
    <3>1. i + 1 \in 1..Len(code) /\ pos + (i + 1) <= Len(input) + 1 /\ pos + (i + 1) - 1 = pos + i
      BY <1>2, <2>1, <2>4
    <3> QED
      BY <1>5, <3>1
  <2>5. ASSUME Left >= 3 PROVE RunLength = n /\ input[pos + 3] = seg.byte
    <3>1. input[pos + 1] = B1(n) /\ input[pos + 2] = B2(n) /\ input[pos + 3] = seg.byte
      BY <2>1, <2>4, <2>5
    <3>2. CountByte(1) = B1(n) /\ CountByte(2) = B2(n) /\ CountByte(3) = 0 /\ CountByte(4) = 0
      BY <2>3, <3>1 DEF CountByte
    <3>3. RunLength = B1(n) + Radix * (B2(n) + Radix * (0 + Radix * 0))
      BY <2>3, <3>2 DEF RunLength
    <3>4. B2(n) \in Int
      BY <1>6 DEF Bytes
    <3>5. \A i \in Int : i + Radix * (0 + Radix * 0) = i
      BY SMT DEF Radix
    <3> QED
      BY <1>9, <3>1, <3>3, <3>4, <3>5
  <2> QED
    BY <2>1, <2>3, <2>5
<1>10. ASSUME n = B1(n) + Radix * (B2(n) + Radix * (B3(n) + Radix * B4(n))),
              code = <<254, B1(n), B2(n), B3(n), B4(n), seg.byte>>
      PROVE  /\ Len(code) = CountWidth + 2 /\ CountWidth = 4 /\ Ctrl < 0
             /\ Left >= CountWidth + 1 => RunLength = n /\ input[pos + CountWidth + 1] = seg.byte
  <2>1. /\ Len(code) = 6 /\ code[1] = 254 /\ code[2] = B1(n) /\ code[3] = B2(n)
        /\ code[4] = B3(n) /\ code[5] = B4(n) /\ code[6] = seg.byte
    BY <1>10
  <2>2. Ctrl = -2
    BY <1>4, <1>7, <2>1
  <2>3. CountWidth = 4 /\ Ctrl < 0
    BY <2>2 DEF CountWidth
  <2>4. ASSUME Left >= 5, NEW i \in 1..5 PROVE input[pos + i] = code[i + 1]
    <3>1. i + 1 \in 1..Len(code) /\ pos + (i + 1) <= Len(input) + 1 /\ pos + (i + 1) - 1 = pos + i
      BY <1>2, <2>1, <2>4
    <3> QED
      BY <1>5, <3>1
  <2>5. ASSUME Left >= 5 PROVE RunLength = n /\ input[pos + 5] = seg.byte
    <3>1. /\ input[pos + 1] = B1(n) /\ input[pos + 2] = B2(n) /\ input[pos + 3] = B3(n)
          /\ input[pos + 4] = B4(n) /\ input[pos + 5] = seg.byte
      BY <2>1, <2>4, <2>5
    <3>2. CountByte(1) = B1(n) /\ CountByte(2) = B2(n) /\ CountByte(3) = B3(n) /\ CountByte(4) = B4(n)
      BY <2>3, <3>1 DEF CountByte
    <3> QED
      BY <1>10, <2>3, <3>1, <3>2 DEF RunLength
  <2> QED
    BY <2>1, <2>3, <2>5
<1>11. \/ n \in 3..128 /\ code = <<256 - n, seg.byte>>
       \/ n = B1(n) + Radix * B2(n) /\ code = <<255, B1(n), B2(n), seg.byte>>
       \/ /\ n = B1(n) + Radix * (B2(n) + Radix * (B3(n) + Radix * B4(n)))
          /\ code = <<254, B1(n), B2(n), B3(n), B4(n), seg.byte>>
  BY <1>1, Zenon DEF Repeated, Stands, n, code
<1> QED
  BY <1>8, <1>9, <1>10, <1>11 DEF n, code

LEMMA RepeatKeeps == ASSUME SqzInv, Repeat PROVE SqzInv'
<1>1. verdict = "reading" /\ pos <= Len(input) /\ Ctrl < 0
  BY DEF Repeat, More
<1>2. PICK k \in 0..(Len(segs) - 1) : AtSegment(k)
  BY <1>1, AtASegment
<1> DEFINE seg  == segs[k + 1]
           code == Encoded(seg)
<1>3. /\ seg \in SegSet /\ seg.text \in Seq(Bytes) /\ code \in Seq(Bytes) /\ Len(code) >= 1
      /\ input \in Seq(Bytes) /\ pos \in Nat /\ pos >= 1 /\ out \in Seq(Bytes)
      /\ \A i \in 1..Len(code) : pos + i <= Len(input) + 1 => input[pos + i - 1] = code[i]
  BY <1>2 DEF AtSegment
<1> HIDE DEF seg
<1>4. ~seg.copy
  <2>1. SUFFICES ASSUME seg.copy PROVE FALSE
    OBVIOUS
  <2>2. seg.text \in Seq(Bytes) /\ Len(seg.text) \in 0..127 /\ code = <<Len(seg.text)>> \o seg.text
    BY <1>3, <2>1, LiteralIs
  <2> HIDE DEF code
  <2>3. code[1] = Len(seg.text)
    BY <2>2
  <2>4. Len(code) \in Nat /\ Len(input) \in Nat
    BY <1>3
  <2>5. 1 \in 1..Len(code) /\ pos + 1 <= Len(input) + 1 /\ pos + 1 - 1 = pos /\ pos \in 1..Len(input)
    BY <1>1, <1>3, <2>4
  <2>6. input[pos] = code[1] /\ input[pos] \in Bytes
    BY <1>3, <2>5
  <2>7. input[pos] > 127
    <3>1. Signed(input[pos], Ctrl)
      BY <2>6, CtrlIs, Zenon
    <3> QED
      BY <1>1, <3>1, SignedIs, Zenon
  <2>8. input[pos] = Len(seg.text) /\ Len(seg.text) \in 0..127
    BY <2>2, <2>3, <2>6, Zenon
  <2>9. ASSUME NEW b \in 0..127 PROVE ~(b > 127)
    OBVIOUS
  <2> QED
    BY <2>7, <2>8, <2>9, Zenon
<1>5. /\ Len(code) = CountWidth + 2 /\ CountWidth \in {0, 2, 4}
      /\ Left >= CountWidth + 1 => RunLength = Len(seg.text) /\ input[pos + CountWidth + 1] = seg.byte
  BY <1>1, <1>3, <1>4, RunIs
<1>6. seg.text = [j \in 1..Len(seg.text) |-> seg.byte]
  BY <1>3, <1>4, RepeatIs
<1> HIDE DEF code
<1>7. Len(code) \in Nat /\ Len(input) \in Nat /\ Left = Len(input) - pos
  BY <1>3 DEF Left
<1>8. CASE Left < CountWidth + 1
  <2>1. Len(input) < pos + Len(code) - 1
    BY <1>3, <1>5, <1>7, <1>8
  <2>2. Malformed
    BY <1>8 DEF Repeat
  <2> QED
    BY <1>1, <1>2, <2>1, <2>2, Reject DEF code, seg
<1>9. CASE ~(Left < CountWidth + 1)
  <2>1. Left >= CountWidth + 1 /\ pos + Len(code) <= Len(input) + 1
    BY <1>3, <1>5, <1>7, <1>9
  <2>2. RunLength = Len(seg.text) /\ input[pos + CountWidth + 1] = seg.byte
    BY <1>5, <2>1
  <2>3. CASE Len(out) + RunLength > MaxRecord
    <3>1. Len(out) + Len(seg.text) > MaxRecord
      BY <2>2, <2>3
    <3>2. Malformed
      BY <2>3 DEF Repeat
    <3> QED
      BY <1>1, <1>2, <3>1, <3>2, Reject DEF seg
  <2>4. CASE ~(Len(out) + RunLength > MaxRecord)
    <3>1. Emit([j \in 1..RunLength |-> input[pos + CountWidth + 1]], CountWidth + 2)
      BY <1>9, <2>4 DEF Repeat
    <3>2. Emit(seg.text, Len(code))
      BY <1>5, <1>6, <2>2, <3>1
    <3> QED
      BY <1>1, <1>2, <2>1, <3>2, Advance DEF code, seg
  <2> QED
    BY <2>3, <2>4
<1> QED
  BY <1>8, <1>9

LEMMA FinishKeeps == ASSUME SqzInv, Finish PROVE SqzInv'
<1>1. verdict = "reading" /\ pos > Len(input) /\ verdict' = "ok"
      /\ segs' = segs /\ input' = input /\ out' = out
  BY DEF Finish
<1>2. segs \in Seq(SegSet)
  BY DEF SqzInv
<1>3. PICK m \in 0..Len(AllBytes(segs)) : input = SubSeq(AllBytes(segs), 1, m)
  BY DEF SqzInv
<1>4. PICK k \in 0..Len(segs) : /\ pos = Len(Take(Codes, k)) + 1 /\ pos <= Len(input) + 1
                               /\ out = Take(Texts, k) /\ Len(out) <= MaxRecord
  BY <1>1 DEF SqzInv
<1>5. /\ AllBytes(segs) \in Seq(Bytes) /\ input \in Seq(Bytes) /\ Len(input) = m
      /\ \A i \in 1..m : input[i] = AllBytes(segs)[i]
  BY <1>2, <1>3, InputIs
<1> DEFINE front == Take(Codes, k)
<1>6. front \in Seq(Bytes) /\ \A i \in 1..Len(front) : AllBytes(segs)[i] = front[i]
  <2>1. /\ Codes \in Seq(Seq(Bytes)) /\ Len(segs) \in 0..Len(Codes) /\ k \in 0..Len(segs) /\ k \in 0..Len(Codes)
        /\ AllBytes(segs) = Take(Codes, Len(segs))
    BY <1>2, SegmentsAre, AllSegments
  <2> QED
    BY <2>1, TakeGrows, TakeIsSeq
<1> HIDE DEF front
<1>7. pos = Len(front) + 1 /\ Len(front) \in Nat
  BY <1>4, <1>6 DEF front
<1>8. Len(front) = m
  BY <1>1, <1>4, <1>5, <1>7
<1>9. input = front
  BY <1>5, <1>6, <1>8
<1>10. Codes' = Codes /\ Texts' = Texts /\ AllBytes(segs)' = AllBytes(segs)
  BY <1>1 DEF Codes, Texts
<1>11. \E h \in 0..Len(segs') : /\ input' = Take(Codes', h)
                                /\ out' = Take(Texts', h) /\ Len(out') <= MaxRecord
  BY <1>1, <1>4, <1>9, <1>10 DEF front
<1> QED
  BY <1>1, <1>2, <1>3, <1>10, <1>11 DEF SqzInv

LEMMA SqzInvInit == SqzInit => SqzInv
<1> SUFFICES ASSUME SqzInit PROVE SqzInv
  OBVIOUS
<1>1. segs \in Seq(SegSet)
  <2>1. PICK n \in 0..MaxSegments : segs \in [1..n -> SegSet]
    BY DEF SqzInit, BoundedSeq, SeqOf, SegSet
  <2>2. n \in Nat
    BY SqzAssumption
  <2> QED
    BY <2>1, <2>2
<1>2. \E m \in 0..Len(AllBytes(segs)) : input = SubSeq(AllBytes(segs), 1, m)
  BY DEF SqzInit
<1>3. pos = 1 /\ out = <<>> /\ verdict = "reading"
  BY DEF SqzInit
<1>4. /\ 0 \in 0..Len(segs) /\ pos = Len(Take(Codes, 0)) + 1 /\ pos <= Len(input) + 1
      /\ out = Take(Texts, 0) /\ Len(out) <= MaxRecord
  <2>1. input \in Seq(Bytes)
    BY <1>1, <1>2, InputIs
  <2>2. Len(input) \in Nat /\ Len(segs) \in Nat /\ MaxRecord \in Nat
    BY <1>1, <2>1, SqzAssumption
  <2>3. Take(Codes, 0) = <<>> /\ Take(Texts, 0) = <<>>
    BY TakeNone
  <2> QED
    BY <1>3, <2>2, <2>3
<1> QED
  BY <1>1, <1>2, <1>3, <1>4 DEF SqzInv

LEMMA SqzInvAlways == SqzSpec => []SqzInv
<1>1. ASSUME SqzInv, [SqzNext]_sqzVars PROVE SqzInv'
  <2>1. CASE UNCHANGED sqzVars
    <3>1. segs' = segs /\ input' = input /\ pos' = pos /\ out' = out /\ verdict' = verdict
      BY <2>1 DEF sqzVars
    <3>2. Codes' = Codes /\ Texts' = Texts
      BY <3>1 DEF Codes, Texts
    <3> QED
      BY <1>1, <3>1, <3>2 DEF SqzInv
  <2> QED
    BY <1>1, <2>1, CopyKeeps, RepeatKeeps, FinishKeeps DEF SqzNext
<1> QED
  BY <1>1, SqzInvInit, PTL DEF SqzSpec

(***************************************************************************)
(* What is accepted is the beginning of what Firebird packed, segment by   *)
(* segment; what is rejected is cut short or too long.  For every payload, *)
(* every length of a segment and every size of a record.  (decompress_impl)*)
(***************************************************************************)
THEOREM RecordIsAccepted == SqzSpec => []AcceptsTheRecord
<1>1. ASSUME SqzInv PROVE AcceptsTheRecord
  <2>1. segs \in Seq(SegSet) /\ \E m \in 0..Len(AllBytes(segs)) : input = SubSeq(AllBytes(segs), 1, m)
    BY <1>1 DEF SqzInv
  <2>2. ASSUME verdict = "ok"
        PROVE  \E k \in 0..Len(segs) : /\ input = AllBytes(SubSeq(segs, 1, k))
                                       /\ out = Text(SubSeq(segs, 1, k))
    <3>1. PICK k \in 0..Len(segs) : input = Take(Codes, k) /\ out = Take(Texts, k)
      BY <1>1, <2>2 DEF SqzInv
    <3>2. AllBytes(SubSeq(segs, 1, k)) = Take(Codes, k) /\ Text(SubSeq(segs, 1, k)) = Take(Texts, k)
      BY <2>1, FirstSegments
    <3> QED
      BY <3>1, <3>2
  <2>3. ASSUME verdict = "malformed"
        PROVE  input # AllBytes(segs) \/ Len(Text(segs)) > MaxRecord
    <3>1. Len(input) < Len(AllBytes(segs)) \/ Len(Text(segs)) > MaxRecord
      BY <1>1, <2>3 DEF SqzInv
    <3>2. Len(input) \in Nat
      <4>1. input \in Seq(Bytes)
        BY <2>1, InputIs
      <4> QED
        BY <4>1
    <3> QED
      BY <3>1, <3>2
  <2> QED
    BY <2>2, <2>3 DEF AcceptsTheRecord
<1> QED
  BY <1>1, SqzInvAlways, PTL

(***************************************************************************)
(* No record grows past MaxRecord, whatever the counts say.                *)
(* (MAX_RECORD_SIZE)                                                       *)
(***************************************************************************)
THEOREM RecordStaysBounded == SqzSpec => []RecordIsBounded
<1>1. SqzInv => RecordIsBounded
  <2>1. SUFFICES ASSUME SqzInv, verdict # "malformed" PROVE Len(out) <= MaxRecord
    BY DEF RecordIsBounded
  <2>2. verdict = "reading" \/ verdict = "ok"
    BY <2>1 DEF SqzInv
  <2> QED
    BY <2>1, <2>2 DEF SqzInv
<1> QED
  BY <1>1, SqzInvAlways, PTL

\* A byte is a number, and so is what it stands for as an i8.
LEMMA BytesAreNumbers ==
  \A v \in Bytes : v \in Nat /\ v \in 0..255 /\ (IF v < Radix \div 2 THEN v ELSE v - Radix) \in Int
BY DEF Bytes, Radix

\* Types: the output is bytes, and nothing is read behind the end of the input.
LEMMA SqzTypeStep ==
  ASSUME SqzInv, SqzTypeOK, out \in Seq(Bytes), [SqzNext]_sqzVars
  PROVE  SqzTypeOK' /\ out' \in Seq(Bytes)
<1>1. input \in Seq(Bytes) /\ Len(input) \in Nat /\ pos \in 1..(Len(input) + 1)
  <2>1. input \in Seq(Bytes)
    BY InputIs DEF SqzInv
  <2> QED
    BY <2>1 DEF SqzTypeOK
<1>2. ASSUME out' \in Seq(Bytes), input' = input, pos' \in 1..(Len(input) + 1),
             verdict' \in {"reading", "ok", "malformed"}
      PROVE  SqzTypeOK' /\ out' \in Seq(Bytes)
  <2>1. \A j \in 1..Len(out') : out'[j] \in Bytes
    BY <1>2
  <2>2. \A j \in 1..Len(out') : out'[j] \in 0..(Radix - 1)
    BY <2>1 DEF Bytes
  <2> QED
    BY <1>2, <2>2 DEF SqzTypeOK
<1>3. ASSUME NEW bytes \in Seq(Bytes), NEW width \in Nat, pos + width <= Len(input) + 1, Emit(bytes, width)
      PROVE  SqzTypeOK' /\ out' \in Seq(Bytes)
  <2>1. out' = out \o bytes /\ pos' = pos + width /\ input' = input
        /\ verdict' \in {"reading", "malformed"}
    BY <1>3 DEF Emit
  <2>2. out' \in Seq(Bytes) /\ pos' \in 1..(Len(input) + 1)
    BY <1>1, <1>3, <2>1
  <2> QED
    BY <1>2, <2>1, <2>2
<1>4. CASE Malformed
  BY <1>1, <1>2, <1>4 DEF Malformed
<1>5. ASSUME More PROVE pos \in 1..Len(input) /\ input[pos] \in 0..255 /\ Ctrl \in Int /\ Left \in Nat
  <2>1. pos \in 1..Len(input)
    BY <1>1, <1>5 DEF More
  <2>2. input[pos] \in Bytes
    BY <1>1, <2>1
  <2>3. input[pos] \in 0..255
    BY <2>2, BytesAreNumbers
  <2>4. Ctrl \in Int
    BY <2>2, BytesAreNumbers DEF Ctrl
  <2>5. Left \in Nat
    BY <1>1, <2>1 DEF Left
  <2> QED
    BY <2>1, <2>3, <2>4, <2>5
<1>6. CASE Copy /\ ~Malformed
  <2>1. More /\ Ctrl >= 0 /\ ~(Ctrl > Left) /\ Emit(SubSeq(input, pos + 1, pos + Ctrl), 1 + Ctrl)
    BY <1>6 DEF Copy
  <2>2. Ctrl \in Nat /\ pos \in Nat /\ pos + Ctrl <= Len(input)
    BY <1>1, <1>5, <2>1 DEF Left
  <2>3. SubSeq(input, pos + 1, pos + Ctrl) \in Seq(Bytes)
    <3>1. \A x \in (pos + 1)..(pos + Ctrl) : x \in 1..Len(input)
      BY <1>1, <2>2
    <3> QED
      BY <1>1, <2>2, <3>1
  <2>4. 1 + Ctrl \in Nat /\ pos + (1 + Ctrl) <= Len(input) + 1
    BY <1>1, <2>2
  <2> QED
    BY <1>3, <2>1, <2>3, <2>4
<1>7. CASE Repeat /\ ~Malformed
  <2> DEFINE at == pos + CountWidth + 1
  <2>1. /\ More /\ Ctrl < 0 /\ ~(Left < CountWidth + 1)
        /\ Emit([j \in 1..RunLength |-> input[at]], CountWidth + 2)
    BY <1>7 DEF Repeat
  <2>2. CountWidth \in {0, 2, 4}
    BY DEF CountWidth
  <2>3. pos \in Nat /\ at \in 1..Len(input) /\ pos + (CountWidth + 2) <= Len(input) + 1 /\ CountWidth + 2 \in Nat
    BY <1>1, <1>5, <2>1, <2>2 DEF Left
  <2>4. \A j \in 1..4 : CountByte(j) \in Nat
    <3> SUFFICES ASSUME NEW j \in 1..4, j <= CountWidth PROVE input[pos + j] \in Nat
      BY DEF CountByte
    <3>1. pos + j \in 1..Len(input)
      BY <1>1, <2>2, <2>3
    <3>2. input[pos + j] \in Bytes
      BY <1>1, <3>1
    <3> QED
      BY <3>2, BytesAreNumbers
  <2>5. RunLength \in Nat
    <3>1. CountByte(1) \in Nat /\ CountByte(2) \in Nat /\ CountByte(3) \in Nat /\ CountByte(4) \in Nat
      BY <2>4
    <3>2. -Ctrl \in Nat
      BY <1>5, <2>1
    <3> HIDE DEF at
    <3> QED
      BY <3>1, <3>2 DEF RunLength, Radix
  <2>6. input[at] \in Bytes
    BY <1>1, <2>3
  <2> HIDE DEF at
  <2>7. [j \in 1..RunLength |-> input[at]] \in Seq(Bytes)
    BY <2>5, <2>6
  <2> QED
    BY <1>3, <2>1, <2>3, <2>7
<1>8. CASE Finish
  BY <1>1, <1>2, <1>8 DEF Finish
<1>9. CASE UNCHANGED sqzVars
  BY <1>1, <1>2, <1>9 DEF sqzVars, SqzTypeOK
<1> QED
  BY <1>4, <1>6, <1>7, <1>8, <1>9 DEF SqzNext

LEMMA SqzTypeCorrect == SqzSpec => []SqzTypeOK
<1>1. SqzInit => SqzTypeOK /\ out \in Seq(Bytes)
  <2> SUFFICES ASSUME SqzInit PROVE SqzTypeOK /\ out \in Seq(Bytes)
    OBVIOUS
  <2>1. input \in Seq(Bytes)
    BY SqzInvInit, InputIs DEF SqzInv
  <2>2. 1 \in 1..(Len(input) + 1) /\ <<>> \in Seq(Bytes)
    BY <2>1
  <2> QED
    BY <2>2 DEF SqzInit, SqzTypeOK
<1>2. SqzInv /\ SqzTypeOK /\ out \in Seq(Bytes) /\ [SqzNext]_sqzVars => (SqzTypeOK /\ out \in Seq(Bytes))'
  BY SqzTypeStep
<1> QED
  BY <1>1, <1>2, SqzInvAlways, PTL DEF SqzSpec

-----------------------------------------------------------------------------
(***************************************************************************)
(* The wire (Wire).  First what a stream is made of.                       *)
(***************************************************************************)
Atoms == {a \in [kind : {"FDBI", "version", "op", "header", "len", "PGCOPY", "row", "-1"}, val : Nat] :
            a.kind = "len" => a.val < LenMod}

LEMMA AtomIs ==
  ASSUME NEW k \in {"FDBI", "version", "op", "header", "len", "PGCOPY", "row", "-1"}, NEW v \in Nat,
         k = "len" => v < LenMod
  PROVE  Atom(k, v) \in Atoms /\ Atom(k, v).kind = k /\ Atom(k, v).val = v
BY DEF Atom, Atoms

LEMMA LengthIs ==
  ASSUME NEW n \in Nat
  PROVE  /\ Length(n) \in Atoms /\ Length(n).kind = "len" /\ Length(n).val = n % LenMod
         /\ n % LenMod \in 0..(LenMod - 1) /\ n % LenMod <= n /\ (n < LenMod => n % LenMod = n)
<1>1. LenMod \in Nat /\ LenMod > 1
  BY WireAssumption
<1>2. n % LenMod \in 0..(LenMod - 1) /\ n % LenMod <= n /\ (n < LenMod => n % LenMod = n)
  BY <1>1, SMT
<1>3. n % LenMod \in Nat /\ n % LenMod < LenMod
  BY <1>1, <1>2
<1>4. Atom("len", n % LenMod) \in Atoms /\ Atom("len", n % LenMod).kind = "len"
      /\ Atom("len", n % LenMod).val = n % LenMod
  BY <1>3, AtomIs
<1> QED
  BY <1>2, <1>4, Zenon DEF Length

LEMMA CopyOfIs ==
  ASSUME NEW rows \in Seq(Nat)
  PROVE  /\ CopyOf(rows) \in Seq(Atoms) /\ Len(CopyOf(rows)) = Len(rows) + 2
         /\ CopyOf(rows)[1].kind = "PGCOPY"
         /\ \A j \in 2..Len(CopyOf(rows)) : /\ CopyOf(rows)[j].kind # "PGCOPY"
                                            /\ CopyOf(rows)[j].kind = "row" \/
                                                 (CopyOf(rows)[j].kind = "-1" /\ j = Len(CopyOf(rows)))
<1> DEFINE head  == Atom("PGCOPY", 0)
           last  == Atom("-1", 0)
           inner == [j \in 1..Len(rows) |-> Atom("row", rows[j])]
           copy  == <<head>> \o inner \o <<last>>
<1>1. Len(rows) \in Nat /\ \A j \in 1..Len(rows) : rows[j] \in Nat
  OBVIOUS
<1>2. head \in Atoms /\ head.kind = "PGCOPY" /\ last \in Atoms /\ last.kind = "-1"
  BY AtomIs
<1>3. \A j \in 1..Len(rows) : Atom("row", rows[j]) \in Atoms /\ Atom("row", rows[j]).kind = "row"
  BY <1>1, AtomIs
<1>4. /\ inner \in Seq(Atoms) /\ Len(inner) = Len(rows)
      /\ \A j \in 1..Len(rows) : inner[j].kind = "row"
  BY <1>1, <1>3
<1> HIDE DEF head, last, inner
<1>5. /\ copy \in Seq(Atoms) /\ Len(copy) = Len(rows) + 2 /\ copy[1] = head /\ copy[Len(rows) + 2] = last
      /\ \A j \in 1..Len(rows) : copy[j + 1] = inner[j]
  BY <1>1, <1>2, <1>4
<1>6. CopyOf(rows) = copy
  BY DEF CopyOf, head, last, inner
<1> HIDE DEF copy
<1>7. ASSUME NEW j \in 2..(Len(rows) + 2)
      PROVE  copy[j].kind # "PGCOPY" /\ (copy[j].kind = "row" \/ (copy[j].kind = "-1" /\ j = Len(rows) + 2))
  <2>1. CASE j = Len(rows) + 2
    BY <1>2, <1>5, <2>1
  <2>2. CASE j # Len(rows) + 2
    <3>1. PICK i \in 1..Len(rows) : j = i + 1
      <4>1. j - 1 \in 1..Len(rows) /\ j = (j - 1) + 1
        BY <1>1, <2>2
      <4> QED
        BY <4>1
    <3>2. copy[j] = inner[i] /\ inner[i].kind = "row"
      BY <1>4, <1>5, <3>1
    <3> QED
      BY <3>2
  <2> QED
    BY <2>1, <2>2
<1> QED
  BY <1>2, <1>5, <1>6, <1>7

LEMMA CopyOfAccepted == ASSUME NEW rows \in Seq(Nat) PROVE CopyAccepts(CopyOf(rows)) /\ CopyOf(rows) # <<>>
<1> DEFINE copy == CopyOf(rows)
<1>1. /\ copy \in Seq(Atoms) /\ Len(copy) = Len(rows) + 2 /\ copy[1].kind = "PGCOPY"
      /\ \A j \in 2..Len(copy) : copy[j].kind = "row" \/ (copy[j].kind = "-1" /\ j = Len(copy))
  BY CopyOfIs
<1>2. Len(rows) \in Nat
  OBVIOUS
<1> HIDE DEF copy
<1>3. copy # <<>>
  BY <1>1, <1>2
<1>4. CopyAccepts(copy)
  BY <1>1, <1>3 DEF CopyAccepts
<1> QED
  BY <1>3, <1>4 DEF copy

LEMMA BodiesAre == ASSUME NEW max \in Nat, NEW rows \in Bodies(max) PROVE rows \in Seq(Nat)
<1>1. PICK k \in 0..max : rows \in [1..k -> WireRows]
  BY DEF Bodies
<1>2. WireRows \subseteq Nat
  BY WireAssumption
<1>5. ASSUME NEW i \in 1..k PROVE rows[i] \in Nat
  <2>1. rows[i] \in WireRows
    BY <1>1
  <2> QED
    BY <1>2, <2>1
<1>3. k \in Nat /\ \A i \in 1..k : rows[i] \in Nat
  BY <1>5
<1>4. rows = [i \in 1..k |-> rows[i]]
  BY <1>1
<1> QED
  BY <1>3, <1>4

\* One more of the first n.
LEMMA OneMore ==
  ASSUME NEW S, NEW s \in Seq(S), NEW n \in 0..(Len(s) - 1)
  PROVE  Append(SubSeq(s, 1, n), s[n + 1]) = SubSeq(s, 1, n + 1)
<1> DEFINE a == Append(SubSeq(s, 1, n), s[n + 1])
           b == SubSeq(s, 1, n + 1)
<1>1. n \in Nat /\ n + 1 \in 1..Len(s) /\ \A i \in 1..(n + 1) : s[i] \in S
  OBVIOUS
<1>2. SubSeq(s, 1, n) \in Seq(S) /\ Len(SubSeq(s, 1, n)) = n /\ \A i \in 1..n : SubSeq(s, 1, n)[i] = s[i]
  BY <1>1
<1>3. b \in Seq(S) /\ Len(b) = n + 1 /\ \A i \in 1..(n + 1) : b[i] = s[i]
  BY <1>1
<1>4. a \in Seq(S) /\ Len(a) = n + 1 /\ a[n + 1] = s[n + 1] /\ \A i \in 1..n : a[i] = s[i]
  BY <1>1, <1>2
<1> HIDE DEF a, b
<1>5. \A i \in 1..(n + 1) : a[i] = b[i]
  BY <1>1, <1>3, <1>4
<1>6. a = b
  BY <1>1, <1>3, <1>4, <1>5
<1> QED
  BY <1>6 DEF a, b

LEMMA FirstNone == ASSUME NEW S, NEW s \in Seq(S) PROVE SubSeq(s, 1, 0) = <<>> /\ SubSeq(s, 1, Len(s)) = s
OBVIOUS

\* The four fields of every header.
HeadOf(q) == <<Atom("FDBI", 0), Atom("version", q.version), Atom("op", q.op), Atom("header", 0)>>

LEMMA HeadIs ==
  ASSUME NEW q, q.version \in Nat, q.op \in Nat
  PROVE  /\ HeadOf(q) \in Seq(Atoms) /\ Len(HeadOf(q)) = 4
         /\ HeadOf(q)[2].val = q.version /\ HeadOf(q)[3].val = q.op
<1>1. /\ Atom("FDBI", 0) \in Atoms /\ Atom("version", q.version) \in Atoms /\ Atom("op", q.op) \in Atoms
      /\ Atom("header", 0) \in Atoms /\ Atom("version", q.version).val = q.version /\ Atom("op", q.op).val = q.op
  BY AtomIs
<1>2. /\ HeadOf(q)[2] = Atom("version", q.version) /\ HeadOf(q)[3] = Atom("op", q.op)
      /\ HeadOf(q) \in Seq(Atoms) /\ Len(HeadOf(q)) = 4
  BY <1>1 DEF HeadOf
<1> QED
  BY <1>1, <1>2

\* c is a, and then b.
Glued(c, a, b) ==
  /\ c \in Seq(Atoms) /\ Len(c) = Len(a) + Len(b)
  /\ \A i \in 1..Len(a) : c[i] = a[i]
  /\ \A i \in 1..Len(b) : c[Len(a) + i] = b[i]

LEMMA ConcatIs == ASSUME NEW a \in Seq(Atoms), NEW b \in Seq(Atoms) PROVE Glued(a \o b, a, b)
BY DEF Glued

\* The body of a delta: two lengths, and what they announce.
TwoBodies(s, h, a, u, b, d) ==
  /\ s \in Seq(Atoms) /\ Len(s) = 6 + Len(u) + Len(d)
  /\ \A i \in 1..4 : s[i] = h[i]
  /\ s[5] = a /\ \A i \in 1..Len(u) : s[5 + i] = u[i]
  /\ s[6 + Len(u)] = b /\ \A i \in 1..Len(d) : s[6 + Len(u) + i] = d[i]

LEMMA TwoBodiesGlued ==
  ASSUME NEW h \in Seq(Atoms), Len(h) = 4, NEW a, NEW u \in Seq(Atoms), NEW b, NEW d \in Seq(Atoms),
         NEW s, NEW x, NEW y, NEW z,
         Glued(x, <<a>>, u), Glued(y, <<b>>, d), Glued(z, x, y), Glued(s, h, z)
  PROVE  TwoBodies(s, h, a, u, b, d)
<1>1. Len(u) \in Nat /\ Len(d) \in Nat
  OBVIOUS
<1>2. Len(x) = 1 + Len(u) /\ x[1] = a /\ \A i \in 1..Len(u) : x[1 + i] = u[i]
  BY DEF Glued
<1>3. Len(y) = 1 + Len(d) /\ y[1] = b /\ \A i \in 1..Len(d) : y[1 + i] = d[i]
  BY DEF Glued
<1>4. /\ Len(z) = 2 + Len(u) + Len(d)
      /\ \A i \in 1..(1 + Len(u)) : z[i] = x[i]
      /\ \A i \in 1..(1 + Len(d)) : z[1 + Len(u) + i] = y[i]
  BY <1>1, <1>2, <1>3 DEF Glued
<1>6. /\ s \in Seq(Atoms) /\ Len(s) = 6 + Len(u) + Len(d)
      /\ \A i \in 1..4 : s[i] = h[i]
      /\ \A i \in 1..(2 + Len(u) + Len(d)) : s[4 + i] = z[i]
  BY <1>1, <1>4 DEF Glued
<1>7. s[5] = a
  <2>1. 1 \in 1..(1 + Len(u)) /\ 1 \in 1..(2 + Len(u) + Len(d)) /\ 4 + 1 = 5
    BY <1>1
  <2>2. s[5] = z[1] /\ z[1] = x[1]
    BY <1>4, <1>6, <2>1
  <2> QED
    BY <1>2, <2>2
<1>8. ASSUME NEW i \in 1..Len(u) PROVE s[5 + i] = u[i]
  <2>1. 1 + i \in 1..(1 + Len(u)) /\ 1 + i \in 1..(2 + Len(u) + Len(d)) /\ 4 + (1 + i) = 5 + i
    BY <1>1
  <2>2. s[5 + i] = z[1 + i] /\ z[1 + i] = x[1 + i]
    BY <1>4, <1>6, <2>1
  <2> QED
    BY <1>2, <2>2
<1>9. ASSUME NEW i \in 1..(1 + Len(d)) PROVE s[5 + Len(u) + i] = y[i]
  <2>1. 1 + Len(u) + i \in 1..(2 + Len(u) + Len(d)) /\ 4 + (1 + Len(u) + i) = 5 + Len(u) + i
    BY <1>1
  <2>2. s[5 + Len(u) + i] = z[1 + Len(u) + i]
    BY <1>6, <2>1
  <2> QED
    BY <1>4, <2>2
<1>10. s[6 + Len(u)] = b
  <2>1. 1 \in 1..(1 + Len(d)) /\ 5 + Len(u) + 1 = 6 + Len(u)
    BY <1>1
  <2> QED
    BY <1>3, <1>9, <2>1
<1>11. ASSUME NEW i \in 1..Len(d) PROVE s[6 + Len(u) + i] = d[i]
  <2>1. 1 + i \in 1..(1 + Len(d)) /\ 5 + Len(u) + (1 + i) = 6 + Len(u) + i
    BY <1>1
  <2> QED
    BY <1>3, <1>9, <2>1
<1> QED
  BY <1>6, <1>7, <1>8, <1>10, <1>11 DEF TwoBodies

\* The stream of a delta, atom by atom.
DeltaStream(q) ==
  LET s == Stream(q)
      u == CopyOf(q.ups)
      d == CopyOf(q.dels)
  IN  /\ s \in Seq(Atoms) /\ Len(s) = 6 + Len(u) + Len(d) /\ s[2].val = q.version /\ s[3].val = q.op
      /\ s[5] = Length(Len(u)) /\ \A i \in 1..Len(u) : s[5 + i] = u[i]
      /\ s[6 + Len(u)] = Length(Len(d)) /\ \A i \in 1..Len(d) : s[6 + Len(u) + i] = d[i]

LEMMA DeltaFacts ==
  ASSUME NEW q \in Deltas
  PROVE  /\ q.op = 2 /\ q.version = 1 /\ q.ups \in Seq(Nat) /\ q.dels \in Seq(Nat)
         /\ LongBodies \/ Len(CopyOf(LastBody(q))) < LenMod
<1>1. q.ups \in Bodies(MaxUpserts) /\ q.dels \in Bodies(MaxDeletes) /\ MaxUpserts \in Nat /\ MaxDeletes \in Nat
  BY WireAssumption DEF Deltas
<1> QED
  BY <1>1, BodiesAre DEF Deltas

LEMMA DeltaStreamIs == ASSUME NEW q \in Deltas PROVE DeltaStream(q)
<1> DEFINE u == CopyOf(q.ups)
           d == CopyOf(q.dels)
<1>1. q.op = 2 /\ q.version = 1 /\ q.ups \in Seq(Nat) /\ q.dels \in Seq(Nat)
  BY DeltaFacts
<1>2. u \in Seq(Atoms) /\ d \in Seq(Atoms)
  BY <1>1, CopyOfIs
<1>3. Len(u) \in Nat /\ Len(d) \in Nat
  BY <1>2
<1>4. Length(Len(u)) \in Atoms /\ Length(Len(d)) \in Atoms
  BY <1>3, LengthIs
<1>5. HeadOf(q) \in Seq(Atoms) /\ Len(HeadOf(q)) = 4 /\ HeadOf(q)[2].val = q.version /\ HeadOf(q)[3].val = q.op
  BY <1>1, HeadIs
<1>6. Stream(q) = HeadOf(q) \o ((<<Length(Len(u))>> \o u) \o (<<Length(Len(d))>> \o d))
  BY <1>1 DEF Stream, HeadOf, Prefixed
<1> DEFINE s == Stream(q)
           h == HeadOf(q)
           a == Length(Len(u))
           b == Length(Len(d))
           x == <<a>> \o u
           y == <<b>> \o d
           z == x \o y
<1>9. s = h \o z
  BY <1>6
<1>10. <<a>> \in Seq(Atoms) /\ <<b>> \in Seq(Atoms) /\ h \in Seq(Atoms) /\ Len(h) = 4
  BY <1>4, <1>5
<1> HIDE DEF u, d, s, h, a, b
<1>11. Glued(x, <<a>>, u) /\ Glued(y, <<b>>, d)
  BY <1>2, <1>10, ConcatIs
<1>12. x \in Seq(Atoms) /\ y \in Seq(Atoms)
  BY <1>11 DEF Glued
<1> HIDE DEF x, y
<1>13. Glued(z, x, y)
  BY <1>12, ConcatIs
<1>14. z \in Seq(Atoms)
  BY <1>13 DEF Glued
<1> HIDE DEF z
<1>15. Glued(s, h, z)
  BY <1>9, <1>10, <1>14, ConcatIs
<1>7. TwoBodies(s, h, a, u, b, d)
  BY <1>2, <1>10, <1>11, <1>13, <1>15, TwoBodiesGlued
<1>8. Stream(q)[2].val = q.version /\ Stream(q)[3].val = q.op
  BY <1>5, <1>7 DEF TwoBodies, s, h
<1> QED
  BY <1>7, <1>8 DEF DeltaStream, TwoBodies, s, u, d, a, b

LEMMA FullFacts ==
  ASSUME NEW q \in Fulls
  PROVE  /\ q.op \in {1, 3} /\ q.version \in {1, 2} /\ q.ups \in Seq(Nat) /\ q.dels = <<>>
         /\ q.ends \in Seq(Nat) /\ CutsUp(q.ends, Len(CopyOf(q.ups)))
<1>1. q.ups \in Bodies(MaxDump) /\ MaxDump \in Nat
  BY WireAssumption DEF Fulls
<1>2. q.ends \in BoundedSeq(1..(MaxDump + 2), MaxDump + 2)
  BY DEF Fulls
<1>3. PICK m \in 0..(MaxDump + 2) : q.ends \in [1..m -> 1..(MaxDump + 2)]
  BY <1>2 DEF BoundedSeq, SeqOf
<1>4. q.ends \in Seq(1..(MaxDump + 2))
  BY <1>1, <1>3
<1>5. q.ends \in Seq(Nat)
  BY <1>1, <1>4
<1> QED
  BY <1>1, <1>5, BodiesAre DEF Fulls

\* The pieces of a dump: none is empty, and each begins where the one before it ends.
LEMMA PiecesAre ==
  ASSUME NEW ends \in Seq(Nat), NEW len \in Nat, CutsUp(ends, len)
  PROVE  /\ Len(ends) \in Nat /\ Len(ends) >= 1 /\ ends[Len(ends)] = len /\ Before(ends, 1) = 0
         /\ Before(ends, Len(ends) + 1) = len
         /\ \A j \in 1..Len(ends) :
              /\ Before(ends, j) \in Nat /\ ends[j] \in Nat
              /\ Before(ends, j) < ends[j] /\ ends[j] <= len /\ ends[j] - Before(ends, j) < LenMod
              /\ Before(ends, j + 1) = ends[j]
<1>1. Len(ends) \in Nat /\ Len(ends) >= 1 /\ ends[Len(ends)] = len
  BY DEF CutsUp
<1>2. Before(ends, 1) = 0
  BY DEF Before
<1>3. ASSUME NEW j \in 1..Len(ends)
      PROVE  /\ Before(ends, j) \in Nat /\ ends[j] \in Nat
             /\ Before(ends, j) < ends[j] /\ ends[j] <= len /\ ends[j] - Before(ends, j) < LenMod
             /\ Before(ends, j + 1) = ends[j]
  <2>1. ends[j] \in Nat
    OBVIOUS
  <2>2. Before(ends, j) \in Nat
    <3>1. CASE j = 1
      BY <1>2, <3>1
    <3>2. CASE j # 1
      <4>1. j - 1 \in 1..Len(ends)
        BY <1>1, <3>2
      <4>2. ends[j - 1] \in Nat
        BY <4>1
      <4> QED
        BY <3>2, <4>2 DEF Before
    <3> QED
      BY <3>1, <3>2
  <2>3. ends[j] \in (Before(ends, j) + 1)..len /\ ends[j] - Before(ends, j) < LenMod
    BY DEF CutsUp
  <2>4. Before(ends, j + 1) = ends[j]
    BY DEF Before
  <2> QED
    BY <2>1, <2>2, <2>3, <2>4
<1>4. Before(ends, Len(ends) + 1) = len
  <2>1. Len(ends) \in 1..Len(ends)
    BY <1>1
  <2> QED
    BY <1>1, <1>3, <2>1
<1> QED
  BY <1>1, <1>2, <1>3, <1>4

\* The frames of a dump are joined one after the other.
LEMMA FramesAre ==
  ASSUME NEW u \in Seq(Atoms), NEW ends \in Seq(Nat), CutsUp(ends, Len(u)), NEW fr,
         fr = [j \in 1..Len(ends) |-> Frame(u, Before(ends, j), ends[j])]
  PROVE  /\ fr \in Seq(Seq(Atoms)) /\ Len(fr) = Len(ends)
         /\ \A j \in 1..Len(ends) :
              /\ Len(fr[j]) = 1 + ends[j] - Before(ends, j)
              /\ fr[j][1] = Length(ends[j] - Before(ends, j))
              /\ \A i \in 1..(ends[j] - Before(ends, j)) : fr[j][1 + i] = u[Before(ends, j) + i]
<1>1. Len(ends) \in Nat /\ Len(u) \in Nat
  OBVIOUS
<1>2. ASSUME NEW j \in 1..Len(ends)
      PROVE  /\ fr[j] \in Seq(Atoms) /\ Len(fr[j]) = 1 + ends[j] - Before(ends, j)
             /\ fr[j][1] = Length(ends[j] - Before(ends, j))
             /\ \A i \in 1..(ends[j] - Before(ends, j)) : fr[j][1 + i] = u[Before(ends, j) + i]
    <2> DEFINE from == Before(ends, j)
               to == ends[j]
               body == SubSeq(u, from + 1, to)
               len == Length(to - from)
    <2>1. from \in Nat /\ to \in Nat /\ from < to /\ to <= Len(u)
      BY <1>1, PiecesAre
    <2>2. fr[j] = <<len>> \o body
      BY DEF Frame
    <2> HIDE DEF from, to
    <2>3. body \in Seq(Atoms) /\ Len(body) = to - from /\ \A i \in 1..(to - from) : body[i] = u[from + i]
      <3>1. from + 1 \in 1..Len(u) /\ to \in 1..Len(u)
        BY <1>1, <2>1
      <3>2. from + 1 \in Int /\ to \in Int /\ from + 1 <= to /\ to - (from + 1) + 1 = to - from
        BY <1>1, <2>1
      <3>3. \A i \in (from + 1)..to : u[i] \in Atoms
        BY <1>1, <2>1
      <3>4. /\ body \in Seq(Atoms) /\ Len(body) = to - from
            /\ \A i \in 1..(to - from) : body[i] = u[(from + 1) + i - 1]
        BY <3>2, <3>3, SubSeqProperties
      <3>5. ASSUME NEW i \in 1..(to - from) PROVE (from + 1) + i - 1 = from + i
        BY <2>1
      <3> QED
        BY <3>4, <3>5
    <2>4. len \in Atoms
      <3>1. to - from \in Nat
        BY <2>1
      <3> QED
        BY <3>1, LengthIs
    <2> HIDE DEF body, len
    <2>5. /\ fr[j] \in Seq(Atoms) /\ Len(fr[j]) = 1 + (to - from) /\ fr[j][1] = len
          /\ \A i \in 1..(to - from) : fr[j][1 + i] = body[i]
      <3>1. to - from \in Nat
        BY <2>1
      <3> DEFINE front == <<len>>
                 n == to - from
      <3>2. front \in Seq(Atoms) /\ Len(front) = 1 /\ front[1] = len
        BY <2>4
      <3>3. Glued(fr[j], front, body)
        BY <2>2, <2>3, <3>2, ConcatIs
      <3>4. n \in Nat /\ Len(body) = n
        BY <2>3, <3>1
      <3> HIDE DEF front, n
      <3>5. 1 \in 1..1
        OBVIOUS
      <3>6. /\ fr[j] \in Seq(Atoms) /\ Len(fr[j]) = 1 + n /\ fr[j][1] = front[1]
            /\ \A i \in 1..n : fr[j][1 + i] = body[i]
        BY <3>2, <3>3, <3>4, <3>5 DEF Glued
      <3> QED
        BY <3>2, <3>6 DEF n
    <2>6. \A i \in 1..(to - from) : fr[j][1 + i] = u[from + i]
      BY <2>3, <2>5
    <2>7. 1 + (to - from) = 1 + to - from
      BY <2>1
    <2> QED
      BY <2>5, <2>6, <2>7 DEF len, from, to
<1>3. Len(fr) = Len(ends) /\ fr = [j \in 1..Len(ends) |-> fr[j]]
  BY <1>1
<1>4. fr \in Seq(Seq(Atoms))
  <2>1. \A j \in 1..Len(ends) : fr[j] \in Seq(Atoms)
    BY <1>2
  <2> QED
    BY <1>1, <1>3, <2>1
<1> QED
  BY <1>2, <1>3, <1>4

\* k frames take k lengths, and what the first k pieces hold.
LEMMA FramesTake ==
  ASSUME NEW u \in Seq(Atoms), NEW ends \in Seq(Nat), CutsUp(ends, Len(u)), NEW fr,
         fr = [j \in 1..Len(ends) |-> Frame(u, Before(ends, j), ends[j])],
         NEW k \in 0..Len(ends)
  PROVE  Len(Take(fr, k)) = k + Before(ends, k + 1)
<1> DEFINE T == {i \in 0..Len(ends) : Len(Take(fr, i)) # i + Before(ends, i + 1)}
<1>1. SUFFICES ASSUME T # {} PROVE FALSE
  OBVIOUS
<1>2. T \subseteq Nat
  OBVIOUS
<1>3. PICK x \in T : \A y \in T : x <= y
  BY <1>1, <1>2, LeastOf
<1>4. /\ fr \in Seq(Seq(Atoms)) /\ Len(fr) = Len(ends)
      /\ \A j \in 1..Len(ends) : Len(fr[j]) = 1 + ends[j] - Before(ends, j)
  BY FramesAre
<1>5. Len(u) \in Nat /\ Len(ends) \in Nat
  OBVIOUS
<1>6. /\ Before(ends, 1) = 0
      /\ \A j \in 1..Len(ends) : Before(ends, j) \in Nat /\ ends[j] \in Nat /\ Before(ends, j + 1) = ends[j]
  BY <1>5, PiecesAre
<1>7. x # 0
  <2>1. SUFFICES ASSUME x = 0 PROVE FALSE
    OBVIOUS
  <2>2. Take(fr, 0) = <<>>
    BY TakeNone
  <2> QED
    BY <1>3, <1>6, <2>1, <2>2
<1>8. x \in 1..Len(ends) /\ x - 1 \in 0..Len(ends) /\ x - 1 \notin T
  <2>1. x \in 0..Len(ends)
    BY <1>3
  <2> HIDE DEF T
  <2>2. x \in 1..Len(ends) /\ x - 1 \in 0..Len(ends) /\ ~(x <= x - 1)
    BY <1>5, <1>7, <2>1
  <2> QED
    BY <1>3, <2>2
<1>9. Len(Take(fr, x - 1)) = (x - 1) + Before(ends, x)
  <2>1. (x - 1) + 1 = x
    BY <1>8
  <2> QED
    BY <1>8, <2>1
<1>10. Len(Take(fr, x)) = Len(Take(fr, x - 1)) + Len(fr[x])
  BY <1>4, <1>8, PlaceOf
<1>11. Len(Take(fr, x)) = x + Before(ends, x + 1)
  <2>1. Len(Take(fr, x)) = ((x - 1) + Before(ends, x)) + (1 + ends[x] - Before(ends, x))
    BY <1>4, <1>8, <1>9, <1>10
  <2>2. x \in Nat /\ Before(ends, x) \in Nat /\ ends[x] \in Nat /\ Before(ends, x + 1) = ends[x]
    BY <1>6, <1>8
  <2>3. ((x - 1) + Before(ends, x)) + (1 + ends[x] - Before(ends, x)) = x + ends[x]
    BY <2>2
  <2> QED
    BY <2>1, <2>2, <2>3
<1> QED
  BY <1>3, <1>11

\* The stream of a full, atom by atom.
FullStream(q) ==
  LET s == Stream(q)
      u == CopyOf(q.ups)
      e == q.ends
  IN  /\ s \in Seq(Atoms) /\ Len(s) = 5 + Len(e) + Len(u) /\ s[2].val = q.version /\ s[3].val = q.op
      /\ \A j \in 1..Len(e) :
           /\ s[4 + j + Before(e, j)] = Length(e[j] - Before(e, j))
           /\ \A i \in 1..(e[j] - Before(e, j)) : s[4 + j + Before(e, j) + i] = u[Before(e, j) + i]
      /\ s[5 + Len(e) + Len(u)] = Length(0)

LEMMA FullStreamIs == ASSUME NEW q \in Fulls PROVE FullStream(q)
<1> DEFINE u == CopyOf(q.ups)
           e == q.ends
           fr == [j \in 1..Len(e) |-> Frame(u, Before(e, j), e[j])]
           s == Stream(q)
           h == HeadOf(q)
           w == FlattenSeq(fr)
           z == w \o <<Length(0)>>
<1>1. /\ q.op \in Nat /\ q.op # 2 /\ q.version \in Nat /\ u \in Seq(Atoms) /\ e \in Seq(Nat)
      /\ CutsUp(e, Len(u))
  <2>1. /\ q.op \in {1, 3} /\ q.version \in {1, 2} /\ q.ups \in Seq(Nat)
        /\ q.ends \in Seq(Nat) /\ CutsUp(q.ends, Len(CopyOf(q.ups)))
    BY FullFacts
  <2>2. CopyOf(q.ups) \in Seq(Atoms)
    BY <2>1, CopyOfIs
  <2> QED
    BY <2>1, <2>2
<1>2. /\ h \in Seq(Atoms) /\ Len(h) = 4 /\ h[2].val = q.version /\ h[3].val = q.op
  BY <1>1, HeadIs
<1>3. s = h \o z
  BY <1>1 DEF Stream, HeadOf, Chunked
<1>4. Length(0) \in Atoms
  BY LengthIs
<1> HIDE DEF u, e, s, h
<1>5. Len(u) \in Nat /\ Len(e) \in Nat
  BY <1>1
<1>6. /\ fr \in Seq(Seq(Atoms)) /\ Len(fr) = Len(e)
      /\ \A j \in 1..Len(e) :
           /\ Len(fr[j]) = 1 + e[j] - Before(e, j)
           /\ fr[j][1] = Length(e[j] - Before(e, j))
           /\ \A i \in 1..(e[j] - Before(e, j)) : fr[j][1 + i] = u[Before(e, j) + i]
  BY <1>1, FramesAre
<1>7. \A k \in 0..Len(e) : Len(Take(fr, k)) = k + Before(e, k + 1)
  BY <1>1, FramesTake
<1> HIDE DEF fr
<1>8. /\ Len(e) >= 1 /\ Before(e, Len(e) + 1) = Len(u)
      /\ \A j \in 1..Len(e) : /\ Before(e, j) \in Nat /\ e[j] \in Nat /\ Before(e, j) < e[j] /\ e[j] <= Len(u)
  BY <1>1, <1>5, PiecesAre
<1>9. w \in Seq(Atoms) /\ Len(w) = Len(e) + Len(u)
  <2>1. w = Take(fr, Len(e))
    BY <1>6, TakeAll
  <2>2. Len(e) \in 0..Len(fr) /\ Len(e) \in 0..Len(e)
    BY <1>5, <1>6
  <2>3. w \in Seq(Atoms)
    BY <1>6, <2>1, <2>2, TakeIsSeq
  <2> QED
    BY <1>7, <1>8, <2>1, <2>2, <2>3
<1>10. ASSUME NEW j \in 1..Len(e), NEW i \in 1..(1 + e[j] - Before(e, j))
       PROVE  w[(j - 1) + Before(e, j) + i] = fr[j][i] /\ (j - 1) + Before(e, j) + i \in 1..(Len(e) + Len(u))
  <2>1. Len(Take(fr, j - 1)) = (j - 1) + Before(e, j)
    <3>1. j - 1 \in 0..Len(e) /\ (j - 1) + 1 = j
      BY <1>5
    <3> QED
      BY <1>7, <3>1
  <2>2. j \in 1..Len(fr) /\ i \in 1..Len(fr[j])
    BY <1>6
  <2>6. fr \in Seq(Seq(Atoms))
    BY <1>6
  <2>5. \A n \in 1..Len(fr[j]) : w[Len(Take(fr, j - 1)) + n] = fr[j][n]
    BY <2>2, <2>6, PlaceOf DEF w
  <2>3. w[Len(Take(fr, j - 1)) + i] = fr[j][i]
    BY <2>2, <2>5
  <2>4. (j - 1) + Before(e, j) + i \in 1..(Len(e) + Len(u))
    <3>1. Before(e, j) \in Nat /\ e[j] \in Nat /\ e[j] <= Len(u) /\ j \in Nat /\ j >= 1 /\ j <= Len(e)
      BY <1>5, <1>8
    <3>2. i \in Nat /\ i >= 1 /\ i <= 1 + e[j] - Before(e, j)
      BY <3>1
    <3> QED
      BY <1>5, <3>1, <3>2
  <2> QED
    BY <2>1, <2>3, <2>4
<1> HIDE DEF w
<1>11. Glued(z, w, <<Length(0)>>)
  <2>1. <<Length(0)>> \in Seq(Atoms)
    BY <1>4
  <2> QED
    BY <1>9, <2>1, ConcatIs
<1>12. /\ z \in Seq(Atoms) /\ Len(z) = Len(e) + Len(u) + 1
       /\ \A i \in 1..(Len(e) + Len(u)) : z[i] = w[i]
       /\ z[Len(e) + Len(u) + 1] = Length(0)
  BY <1>4, <1>5, <1>9, <1>11 DEF Glued
<1> HIDE DEF z
<1>13. Glued(s, h, z)
  BY <1>2, <1>3, <1>12, ConcatIs
<1>14. /\ s \in Seq(Atoms) /\ Len(s) = 5 + Len(e) + Len(u)
       /\ \A i \in 1..4 : s[i] = h[i]
       /\ \A i \in 1..(Len(e) + Len(u) + 1) : s[4 + i] = z[i]
  BY <1>2, <1>5, <1>12, <1>13 DEF Glued
<1>15. s[2].val = q.version /\ s[3].val = q.op
  BY <1>2, <1>14
<1>16. ASSUME NEW j \in 1..Len(e), NEW i \in 1..(1 + e[j] - Before(e, j))
       PROVE  s[3 + j + Before(e, j) + i] = fr[j][i]
  <2> DEFINE p == (j - 1) + Before(e, j) + i
  <2>1. w[p] = fr[j][i] /\ p \in 1..(Len(e) + Len(u))
    BY <1>10
  <2>2. p \in 1..(Len(e) + Len(u) + 1)
    BY <1>5, <2>1
  <2>3. s[4 + p] = fr[j][i]
    BY <1>12, <1>14, <2>1, <2>2
  <2>4. 4 + p = 3 + j + Before(e, j) + i
    <3>1. Before(e, j) \in Nat /\ e[j] \in Nat /\ j \in Nat
      BY <1>8
    <3>2. i \in Nat
      BY <3>1
    <3> QED
      BY <3>1, <3>2
  <2> QED
    BY <2>3, <2>4
<1>17. ASSUME NEW j \in 1..Len(e) PROVE s[4 + j + Before(e, j)] = Length(e[j] - Before(e, j))
  <2>1. Before(e, j) \in Nat /\ e[j] \in Nat /\ Before(e, j) < e[j] /\ j \in Nat
    BY <1>8
  <2>2. 1 \in 1..(1 + e[j] - Before(e, j)) /\ 3 + j + Before(e, j) + 1 = 4 + j + Before(e, j)
    BY <2>1
  <2>3. s[3 + j + Before(e, j) + 1] = fr[j][1]
    BY <1>16, <2>2
  <2> QED
    BY <1>6, <2>2, <2>3
<1>18. ASSUME NEW j \in 1..Len(e), NEW i \in 1..(e[j] - Before(e, j))
       PROVE  s[4 + j + Before(e, j) + i] = u[Before(e, j) + i]
  <2>1. Before(e, j) \in Nat /\ e[j] \in Nat /\ j \in Nat
    BY <1>8
  <2>2. 1 + i \in 1..(1 + e[j] - Before(e, j)) /\ 3 + j + Before(e, j) + (1 + i) = 4 + j + Before(e, j) + i
    BY <2>1
  <2>3. s[3 + j + Before(e, j) + (1 + i)] = fr[j][1 + i]
    BY <1>16, <2>2
  <2> QED
    BY <1>6, <2>2, <2>3
<1>19. s[5 + Len(e) + Len(u)] = Length(0)
  <2>1. Len(e) + Len(u) + 1 \in 1..(Len(e) + Len(u) + 1) /\ 4 + (Len(e) + Len(u) + 1) = 5 + Len(e) + Len(u)
    BY <1>5
  <2>2. s[4 + (Len(e) + Len(u) + 1)] = z[Len(e) + Len(u) + 1]
    BY <1>14, <2>1
  <2> QED
    BY <1>12, <2>1, <2>2
<1> QED
  BY <1>14, <1>15, <1>17, <1>18, <1>19 DEF FullStream, s, u, e

-----------------------------------------------------------------------------
(***************************************************************************)
(* Where the reader is.  The rest of the stream begins with the p-th atom; *)
(* when the stream is cut, it ends before the last one.                    *)
(***************************************************************************)
Reads(s, r, c, p) ==
  /\ s \in Seq(Atoms) /\ p \in Nat /\ p >= 1
  /\ \E m \in 0..Len(s) : p <= m + 1 /\ r = SubSeq(s, p, m) /\ (c \/ m = Len(s))

\* What the next atom is.
StandsAt(s, r, p) == p \in 1..Len(s) /\ r[1] = s[p] /\ r[1] \in Atoms /\ Tail(r) \in Seq(Atoms)

LEMMA ReadsFront ==
  ASSUME NEW s, NEW r, NEW c, NEW p, Reads(s, r, c, p), r # <<>>
  PROVE  StandsAt(s, r, p) /\ Reads(s, Tail(r), c, p + 1)
<1>1. s \in Seq(Atoms) /\ p \in Nat /\ p >= 1 /\ Len(s) \in Nat
  BY DEF Reads
<1>2. PICK m \in 0..Len(s) : p <= m + 1 /\ r = SubSeq(s, p, m) /\ (c \/ m = Len(s))
  BY DEF Reads
<1>3. \A i \in p..m : i \in 1..Len(s) /\ s[i] \in Atoms
  BY <1>1, <1>2
<1>4. /\ r \in Seq(Atoms) /\ Len(r) = (IF p <= m THEN m - p + 1 ELSE 0)
      /\ \A i \in 1..(m - p + 1) : r[i] = s[p + i - 1]
  <2>1. p \in Int /\ m \in Int /\ \A i \in p..m : s[i] \in Atoms
    BY <1>1, <1>2, <1>3
  <2> QED
    BY <1>2, <2>1, SubSeqProperties
<1>5. p <= m
  <2>1. Len(r) # 0
    BY <1>4
  <2> QED
    BY <1>4, <2>1
<1>6. p \in 1..Len(s) /\ 1 \in 1..(m - p + 1) /\ p + 1 - 1 = p /\ Len(r) = m - p + 1
  BY <1>1, <1>2, <1>4, <1>5
<1>7. r[1] = s[p] /\ r[1] \in Atoms
  BY <1>1, <1>4, <1>6
<1> DEFINE t == Tail(r)
           b == SubSeq(s, p + 1, m)
<1>8. /\ t \in Seq(Atoms) /\ Len(t) = m - p /\ \A i \in 1..(m - p) : t[i] = r[i + 1]
  BY <1>1, <1>2, <1>4, <1>6
<1>9. b \in Seq(Atoms) /\ Len(b) = m - p /\ \A i \in 1..(m - p) : b[i] = s[p + i]
  <2>1. p + 1 \in Int /\ m \in Int /\ \A i \in (p + 1)..m : s[i] \in Atoms
    BY <1>1, <1>2, <1>3
  <2>2. /\ b \in Seq(Atoms) /\ Len(b) = (IF p + 1 <= m THEN m - (p + 1) + 1 ELSE 0)
        /\ \A i \in 1..(m - (p + 1) + 1) : b[i] = s[(p + 1) + i - 1]
    BY <2>1, SubSeqProperties
  <2>3. m - (p + 1) + 1 = m - p /\ (IF p + 1 <= m THEN m - p ELSE 0) = m - p
    BY <1>1, <1>2, <1>5
  <2>4. ASSUME NEW i \in 1..(m - p) PROVE (p + 1) + i - 1 = p + i
    BY <1>1, <1>2
  <2> HIDE DEF b
  <2> QED
    BY <2>2, <2>3, <2>4
<1>10. ASSUME NEW i \in 1..(m - p) PROVE t[i] = b[i]
  <2>1. i + 1 \in 1..(m - p + 1) /\ p + (i + 1) - 1 = p + i
    BY <1>1, <1>2
  <2>2. r[i + 1] = s[p + i]
    BY <1>4, <2>1
  <2> QED
    BY <1>8, <1>9, <2>2
<1> HIDE DEF t, b
<1>11. t = b
  BY <1>8, <1>9, <1>10
<1>12. Reads(s, t, c, p + 1)
  <2>1. p + 1 \in Nat /\ p + 1 >= 1 /\ p + 1 <= m + 1
    BY <1>1, <1>2, <1>5
  <2>2. t = SubSeq(s, p + 1, m)
    BY <1>11 DEF b
  <2> QED
    BY <1>1, <1>2, <2>1, <2>2 DEF Reads
<1> QED
  BY <1>6, <1>7, <1>8, <1>12 DEF StandsAt, t

LEMMA ReadsNext ==
  ASSUME NEW s, NEW r, NEW c, NEW p, Reads(s, r, c, p), r # <<>>
  PROVE  /\ p \in 1..Len(s) /\ r[1] = s[p] /\ r[1] \in Atoms /\ Tail(r) \in Seq(Atoms)
         /\ Reads(s, Tail(r), c, p + 1)
BY ReadsFront DEF StandsAt

LEMMA ReadsHead == ASSUME NEW s, NEW r, NEW c, NEW p, Reads(s, r, c, p), r # <<>> PROVE r[1] = s[p]
<1>1. StandsAt(s, r, p)
  BY ReadsFront
<1> QED
  BY <1>1 DEF StandsAt

LEMMA ReadsEnd ==
  ASSUME NEW s, NEW r, NEW c, NEW p, Reads(s, r, c, p)
  PROVE  /\ r \in Seq(Atoms) /\ s \in Seq(Atoms) /\ p \in Nat /\ p <= Len(s) + 1
         /\ p = Len(s) + 1 => r = <<>>
         /\ r = <<>> => c \/ p = Len(s) + 1
<1>1. s \in Seq(Atoms) /\ p \in Nat /\ p >= 1 /\ Len(s) \in Nat
  BY DEF Reads
<1>2. PICK m \in 0..Len(s) : p <= m + 1 /\ r = SubSeq(s, p, m) /\ (c \/ m = Len(s))
  BY DEF Reads
<1>3. r \in Seq(Atoms) /\ Len(r) = (IF p <= m THEN m - p + 1 ELSE 0)
  <2>1. p \in Int /\ m \in Int /\ \A i \in p..m : s[i] \in Atoms
    BY <1>1, <1>2
  <2> QED
    BY <1>2, <2>1, SubSeqProperties
<1>4. p <= Len(s) + 1
  BY <1>1, <1>2
<1>5. ASSUME p = Len(s) + 1 PROVE r = <<>>
  <2>1. Len(r) = 0
    BY <1>1, <1>2, <1>3, <1>5
  <2> QED
    BY <1>3, <2>1
<1>6. ASSUME r = <<>> PROVE c \/ p = Len(s) + 1
  <2>1. Len(r) = 0
    BY <1>6
  <2>2. ~(p <= m)
    BY <1>1, <1>2, <1>3, <2>1
  <2> QED
    BY <1>1, <1>2, <2>2
<1> QED
  BY <1>1, <1>3, <1>4, <1>5, <1>6

LEMMA GivenMore ==
  ASSUME NEW a, NEW b, NEW x
  PROVE  /\ [<<a, b>> EXCEPT ![1] = Append(@, x)] = <<Append(a, x), b>>
         /\ [<<a, b>> EXCEPT ![2] = Append(@, x)] = <<a, Append(b, x)>>
OBVIOUS

\* Without its signature nothing is a COPY; the beginning of one is.
LEMMA CopyBegun ==
  ASSUME NEW rows \in Seq(Nat), NEW n \in 1..Len(CopyOf(rows))
  PROVE  CopyAccepts(SubSeq(CopyOf(rows), 1, n))
<1> DEFINE u == CopyOf(rows)
           b == SubSeq(u, 1, n)
<1>1. /\ u \in Seq(Atoms) /\ Len(u) \in Nat /\ u[1].kind = "PGCOPY"
      /\ \A j \in 2..Len(u) : u[j].kind = "row" \/ (u[j].kind = "-1" /\ j = Len(u))
  BY CopyOfIs
<1>3. n \in Nat /\ n >= 1 /\ n <= Len(u)
  BY <1>1
<1> HIDE DEF u
<1>2. b \in Seq(Atoms) /\ Len(b) = n /\ \A i \in 1..n : b[i] = u[i]
  BY <1>1, <1>3
<1> HIDE DEF b
<1>4. b # <<>> /\ b[1] = u[1]
  BY <1>2, <1>3
<1>5. ASSUME NEW j \in 2..n PROVE b[j].kind = "row" \/ (b[j].kind = "-1" /\ j = n)
  <2>1. j \in 1..n /\ j \in 2..Len(u)
    BY <1>1, <1>3
  <2>2. b[j] = u[j] /\ (u[j].kind = "row" \/ (u[j].kind = "-1" /\ j = Len(u)))
    BY <1>1, <1>2, <2>1
  <2>3. j = Len(u) => j = n
    BY <1>1, <1>3
  <2> QED
    BY <2>2, <2>3
<1>6. CopyAccepts(b)
  BY <1>1, <1>2, <1>4, <1>5 DEF CopyAccepts
<1> QED
  BY <1>6 DEF b, u

-----------------------------------------------------------------------------
(***************************************************************************)
(* The states of the reader, as relations between the request q, whether   *)
(* the stream is cut (c), the rest of it (r), what is left of the frame or *)
(* the body (l) and what the COPYs were given (cp).                        *)
(***************************************************************************)
FieldOK(q, c, r, cp, p) == Reads(Stream(q), r, c, p) /\ cp = <<<<>>, <<>>>>

ChunkOK(q, c, r, cp) ==
  /\ q.op = 1 /\ q.version = 1
  /\ \E j \in 1..(Len(q.ends) + 1) :
       /\ Reads(Stream(q), r, c, 4 + j + Before(q.ends, j))
       /\ cp = <<SubSeq(CopyOf(q.ups), 1, Before(q.ends, j)), <<>>>>

FrameOK(q, c, r, l, cp) ==
  /\ q.op = 1 /\ q.version = 1
  /\ \E j \in 1..Len(q.ends), n \in Nat :
       /\ Before(q.ends, j) <= n /\ l = q.ends[j] - n /\ l >= 0
       /\ Reads(Stream(q), r, c, 5 + j + n)
       /\ cp = <<SubSeq(CopyOf(q.ups), 1, n), <<>>>>

CommittedOK(q, r, cp) ==
  /\ cp[1] = CopyOf(q.ups)
  /\ cp[2] = IF q.dels = <<>> THEN <<>> ELSE CopyOf(q.dels)
  /\ r = <<>>

\* What a full is made of, in one place.
FullIs(q) ==
  LET s == Stream(q)
      u == CopyOf(q.ups)
      e == q.ends
  IN  /\ q.ups \in Seq(Nat) /\ q.dels = <<>>
      /\ u \in Seq(Atoms) /\ Len(u) \in Nat /\ Len(e) \in Nat /\ Len(e) >= 1
      /\ Before(e, 1) = 0 /\ Before(e, Len(e) + 1) = Len(u)
      /\ s \in Seq(Atoms) /\ Len(s) = 5 + Len(e) + Len(u) /\ s[5 + Len(e) + Len(u)] = Length(0)
      /\ \A j \in 1..Len(e) :
           /\ Before(e, j) \in Nat /\ e[j] \in Nat
           /\ Before(e, j) < e[j] /\ e[j] <= Len(u) /\ e[j] - Before(e, j) < LenMod
           /\ Before(e, j + 1) = e[j]
           /\ s[4 + j + Before(e, j)] = Length(e[j] - Before(e, j))
           /\ \A i \in 1..(e[j] - Before(e, j)) : s[4 + j + Before(e, j) + i] = u[Before(e, j) + i]

LEMMA FullIsSo == ASSUME NEW q \in Fulls PROVE FullIs(q)
<1>1. /\ q.ups \in Seq(Nat) /\ q.dels = <<>> /\ q.ends \in Seq(Nat) /\ CutsUp(q.ends, Len(CopyOf(q.ups)))
  BY FullFacts
<1>2. CopyOf(q.ups) \in Seq(Atoms)
  BY <1>1, CopyOfIs
<1>3. Len(CopyOf(q.ups)) \in Nat
  BY <1>2
<1>4. FullStream(q)
  BY FullStreamIs
<1> DEFINE e == q.ends
           len == Len(CopyOf(q.ups))
<1>5. e \in Seq(Nat) /\ len \in Nat /\ CutsUp(e, len)
  BY <1>1, <1>3
<1> HIDE DEF e, len
<1>6. /\ Len(e) \in Nat /\ Len(e) >= 1 /\ Before(e, 1) = 0 /\ Before(e, Len(e) + 1) = len
      /\ \A j \in 1..Len(e) :
              /\ Before(e, j) \in Nat /\ e[j] \in Nat
              /\ Before(e, j) < e[j] /\ e[j] <= len /\ e[j] - Before(e, j) < LenMod
              /\ Before(e, j + 1) = e[j]
  BY <1>5, PiecesAre
<1> QED
  BY <1>1, <1>2, <1>3, <1>4, <1>6 DEF FullIs, FullStream, e, len

\* A length, before a frame or at the end.
LEMMA ChunkRead ==
  ASSUME NEW q \in Fulls, NEW c, NEW r, NEW cp, ChunkOK(q, c, r, cp), r # <<>>, NEW l \in ReadAs(r[1])
  PROVE  /\ l > 0 => FrameOK(q, c, Tail(r), l, cp)
         /\ l = 0 => CopyAccepts(cp[1]) /\ CommittedOK(q, Tail(r), cp)
<1> DEFINE s == Stream(q)
           u == CopyOf(q.ups)
           e == q.ends
<1>1. PICK j \in 1..(Len(e) + 1) : Reads(s, r, c, 4 + j + Before(e, j)) /\ cp = <<SubSeq(u, 1, Before(e, j)), <<>>>>
  BY DEF ChunkOK
<1>2. FullIs(q)
  BY FullIsSo
<1>3. q.op = 1 /\ q.version = 1
  BY DEF ChunkOK
<1>4. r[1] = s[4 + j + Before(e, j)] /\ Reads(s, Tail(r), c, 4 + j + Before(e, j) + 1)
  BY <1>1, ReadsNext
<1>5. /\ u \in Seq(Atoms) /\ Len(u) \in Nat /\ Len(e) \in Nat /\ Before(e, Len(e) + 1) = Len(u)
      /\ Len(s) = 5 + Len(e) + Len(u) /\ s[5 + Len(e) + Len(u)] = Length(0)
  BY <1>2 DEF FullIs
<1>6. CASE j \in 1..Len(e)
  <2> DEFINE b == Before(e, j)
  <2>1. b \in Nat /\ e[j] \in Nat /\ b < e[j] /\ e[j] - b < LenMod /\ s[4 + j + b] = Length(e[j] - b)
    BY <1>2, <1>6 DEF FullIs
  <2>2. l = e[j] - b
    <3>1. e[j] - b \in Nat
      BY <2>1
    <3>2. r[1].kind = "len" /\ r[1].val = e[j] - b
      BY <1>4, <2>1, <3>1, LengthIs
    <3> QED
      BY <3>2 DEF ReadAs
  <2>3. 4 + j + b + 1 = 5 + j + b /\ b <= b /\ e[j] - b > 0
    BY <1>6, <2>1
  <2>4. FrameOK(q, c, Tail(r), l, cp)
    <3>1. Reads(s, Tail(r), c, 5 + j + b)
      BY <1>4, <2>3
    <3>2. l >= 0 /\ l > 0
      BY <2>2, <2>3, <2>1
    <3> QED
      BY <1>1, <1>3, <1>6, <2>1, <2>2, <2>3, <3>1, <3>2 DEF FrameOK
  <2> QED
    BY <2>1, <2>2, <2>3, <2>4
<1>7. CASE j \notin 1..Len(e)
  <2>1. j = Len(e) + 1
    BY <1>5, <1>7
  <2>2. Before(e, j) = Len(u) /\ 4 + j + Before(e, j) = 5 + Len(e) + Len(u)
    <3> HIDE DEF s, u, e
    <3> QED
      BY <1>5, <2>1
  <2>3. cp = <<u, <<>>>>
    <3>1. SubSeq(u, 1, Len(u)) = u
      BY <1>5, FirstNone
    <3> QED
      BY <1>1, <2>2, <3>1
  <2>4. l = 0
    <3>1. r[1] = Length(0)
      BY <1>4, <1>5, <2>2
    <3>2. r[1].kind = "len" /\ r[1].val = 0
      <4>1. 0 < LenMod /\ 0 \in Nat
        BY WireAssumption
      <4> QED
        BY <3>1, <4>1, LengthIs
    <3> QED
      BY <3>2 DEF ReadAs
  <2>5. Tail(r) = <<>>
    <3>1. Reads(s, Tail(r), c, Len(s) + 1)
      BY <1>4, <1>5, <2>2
    <3> QED
      BY <3>1, ReadsEnd
  <2>6. CopyAccepts(u) /\ q.dels = <<>>
    BY <1>2, CopyOfAccepted DEF FullIs
  <2>7. CommittedOK(q, Tail(r), cp)
    BY <2>3, <2>5, <2>6 DEF CommittedOK
  <2> QED
    BY <2>3, <2>4, <2>6, <2>7
<1> QED
  BY <1>6, <1>7

\* An atom of a frame.
LEMMA FrameByte ==
  ASSUME NEW q \in Fulls, NEW c, NEW r, NEW l, NEW cp, FrameOK(q, c, r, l, cp), l > 0, r # <<>>
  PROVE  FrameOK(q, c, Tail(r), l - 1, [cp EXCEPT ![1] = Append(@, r[1])])
<1> DEFINE s == Stream(q)
           u == CopyOf(q.ups)
           e == q.ends
<1>1. PICK j \in 1..Len(e), n \in Nat :
        /\ Before(e, j) <= n /\ l = e[j] - n /\ l >= 0 /\ Reads(s, r, c, 5 + j + n)
        /\ cp = <<SubSeq(u, 1, n), <<>>>>
  BY DEF FrameOK
<1>2. FullIs(q)
  BY FullIsSo
<1>3. q.op = 1 /\ q.version = 1
  BY DEF FrameOK
<1>4. r[1] = s[5 + j + n] /\ Reads(s, Tail(r), c, 5 + j + n + 1)
  <2> HIDE DEF s, u, e
  <2>1. Reads(s, r, c, 5 + j + n)
    BY <1>1
  <2> DEFINE p == 5 + j + n
  <2> HIDE DEF p
  <2>2. Reads(s, r, c, p)
    BY <2>1 DEF p
  <2>3. r[1] = s[p] /\ Reads(s, Tail(r), c, p + 1)
    BY <2>2, ReadsNext
  <2> QED
    BY <2>3 DEF p
<1> DEFINE b == Before(e, j)
<1>5. /\ u \in Seq(Atoms) /\ Len(u) \in Nat /\ b \in Nat /\ e[j] \in Nat /\ e[j] <= Len(u)
      /\ \A i \in 1..(e[j] - b) : s[4 + j + b + i] = u[b + i]
  BY <1>2 DEF FullIs
<1>6. j \in Nat /\ n < e[j] /\ n \in 0..(Len(u) - 1) /\ b <= n
  <2>1. n \in Nat /\ b <= n /\ l = e[j] - n /\ l > 0 /\ j \in Nat
    BY <1>1
  <2> HIDE DEF s, u, e, b
  <2>2. n < e[j]
    BY <1>5, <2>1
  <2> QED
    BY <1>5, <2>1, <2>2
<1>7. r[1] = u[n + 1]
  <2>1. (n + 1) - b \in 1..(e[j] - b) /\ 4 + j + b + ((n + 1) - b) = 5 + j + n /\ b + ((n + 1) - b) = n + 1
    <3>1. b \in Nat /\ e[j] \in Nat /\ n \in Nat /\ j \in Nat /\ n < e[j] /\ b <= n
      BY <1>5, <1>6
    <3> HIDE DEF b, e
    <3> QED
      BY <3>1
  <2> QED
    BY <1>4, <1>5, <2>1
<1>8. [cp EXCEPT ![1] = Append(@, r[1])] = <<SubSeq(u, 1, n + 1), <<>>>>
  <2>1. Append(SubSeq(u, 1, n), u[n + 1]) = SubSeq(u, 1, n + 1)
    BY <1>5, <1>6, OneMore
  <2>2. [<<SubSeq(u, 1, n), <<>>>> EXCEPT ![1] = Append(@, r[1])] = <<Append(SubSeq(u, 1, n), r[1]), <<>>>>
    BY GivenMore
  <2> QED
    BY <1>1, <1>7, <2>1, <2>2
<1>9. n + 1 \in Nat /\ b <= n + 1 /\ l - 1 = e[j] - (n + 1) /\ l - 1 >= 0 /\ 5 + j + n + 1 = 5 + j + (n + 1)
  <2>1. b \in Nat /\ e[j] \in Nat /\ n \in Nat /\ j \in Nat /\ n < e[j] /\ b <= n
    BY <1>5, <1>6
  <2>2. l = e[j] - n
    BY <1>1
  <2> HIDE DEF b, e
  <2> QED
    BY <2>1, <2>2
<1>10. Reads(s, Tail(r), c, 5 + j + (n + 1))
  BY <1>4, <1>9
<1> QED
  BY <1>3, <1>8, <1>9, <1>10 DEF FrameOK

LEMMA FrameEnd ==
  ASSUME NEW q \in Fulls, NEW c, NEW r, NEW cp, FrameOK(q, c, r, 0, cp)
  PROVE  ChunkOK(q, c, r, cp)
<1> DEFINE s == Stream(q)
           u == CopyOf(q.ups)
           e == q.ends
<1>1. PICK j \in 1..Len(e), n \in Nat :
        /\ Before(e, j) <= n /\ 0 = e[j] - n /\ Reads(s, r, c, 5 + j + n)
        /\ cp = <<SubSeq(u, 1, n), <<>>>>
  BY DEF FrameOK
<1>2. FullIs(q)
  BY FullIsSo
<1>3. e[j] \in Nat /\ Before(e, j + 1) = e[j] /\ Len(e) \in Nat
  BY <1>2 DEF FullIs
<1>4. n = e[j] /\ j + 1 \in 1..(Len(e) + 1) /\ 5 + j + n = 4 + (j + 1) + n
  <2>1. n \in Nat /\ e[j] \in Nat /\ 0 = e[j] - n
    BY <1>1, <1>3
  <2>2. j \in Nat /\ j >= 1 /\ j <= Len(e)
    BY <1>3
  <2> HIDE DEF e
  <2> QED
    BY <1>3, <2>1, <2>2
<1>5. Reads(s, r, c, 4 + (j + 1) + Before(e, j + 1)) /\ cp = <<SubSeq(u, 1, Before(e, j + 1)), <<>>>>
  BY <1>1, <1>3, <1>4
<1>6. q.op = 1 /\ q.version = 1
  BY DEF FrameOK
<1> QED
  BY <1>4, <1>5, <1>6 DEF ChunkOK

\* A full that is not cut is never over too early.
LEMMA FullGoesOn ==
  ASSUME NEW q \in Fulls, NEW c, NEW l, NEW cp,
         ChunkOK(q, c, <<>>, cp) \/ (FrameOK(q, c, <<>>, l, cp) /\ l > 0)
  PROVE  c
<1> DEFINE s == Stream(q)
           u == CopyOf(q.ups)
           e == q.ends
<1>1. FullIs(q)
  BY FullIsSo
<1>2. /\ Len(u) \in Nat /\ Len(e) \in Nat /\ Len(s) = 5 + Len(e) + Len(u) /\ Before(e, Len(e) + 1) = Len(u)
      /\ \A j \in 1..Len(e) : Before(e, j) \in Nat /\ e[j] \in Nat /\ Before(e, j) < e[j] /\ e[j] <= Len(u)
  BY <1>1 DEF FullIs
<1>3. CASE ChunkOK(q, c, <<>>, cp)
  <2>1. PICK j \in 1..(Len(e) + 1) : Reads(s, <<>>, c, 4 + j + Before(e, j))
    BY <1>3 DEF ChunkOK
  <2>2. c \/ 4 + j + Before(e, j) = Len(s) + 1
    BY <2>1, ReadsEnd
  <2>3. Before(e, j) \in Nat /\ Before(e, j) <= Len(u)
    <3>1. CASE j \in 1..Len(e)
      BY <1>2, <3>1
    <3>2. CASE j \notin 1..Len(e)
      <4>1. j = Len(e) + 1
        BY <1>2, <3>2
      <4> QED
        BY <1>2, <4>1
    <3> QED
      BY <3>1, <3>2
  <2>4. 4 + j + Before(e, j) < Len(s) + 1
    <3> HIDE DEF s, u, e
    <3>1. j \in Nat /\ j <= Len(e) + 1 /\ Len(s) + 1 = 6 + Len(e) + Len(u)
      BY <1>2
    <3> QED
      BY <1>2, <2>3, <3>1
  <2> QED
    BY <2>2, <2>4
<1>4. CASE FrameOK(q, c, <<>>, l, cp) /\ l > 0
  <2>1. PICK j \in 1..Len(e), n \in Nat : Before(e, j) <= n /\ l = e[j] - n /\ Reads(s, <<>>, c, 5 + j + n)
    BY <1>4 DEF FrameOK
  <2>2. c \/ 5 + j + n = Len(s) + 1
    BY <2>1, ReadsEnd
  <2>3. e[j] \in Nat /\ e[j] <= Len(u) /\ n < e[j]
    BY <1>2, <1>4, <2>1
  <2>4. 5 + j + n < Len(s) + 1
    <3> HIDE DEF s, u, e
    <3>1. j \in Nat /\ j <= Len(e) /\ n < Len(u) /\ Len(s) + 1 = 6 + Len(e) + Len(u)
      BY <1>2, <2>3
    <3> QED
      BY <1>2, <3>1
  <2> QED
    BY <2>2, <2>4
<1> QED
  BY <1>3, <1>4

UpsertsOK(q, c, r, l, cp) ==
  \E n \in Nat :
    /\ l \in Nat /\ l + n = Len(CopyOf(q.ups)) % LenMod
    /\ Reads(Stream(q), r, c, 6 + n)
    /\ cp = <<SubSeq(CopyOf(q.ups), 1, n), <<>>>>

DlenOK(q, c, r, cp) ==
  LET k == Len(CopyOf(q.ups)) % LenMod
  IN  k >= 1 /\ Reads(Stream(q), r, c, 6 + k) /\ cp = <<SubSeq(CopyOf(q.ups), 1, k), <<>>>>

\* What is given to the second COPY does not begin as a COPY does.
Astray(r, cp) ==
  \E a, b : /\ cp = <<a, b>> /\ b \in Seq(Atoms) /\ r \in Seq(Atoms)
            /\ b = <<>> => r = <<>> \/ r[1].kind # "PGCOPY"
            /\ b # <<>> => b[1].kind # "PGCOPY"

DeletesOK(q, c, r, l, cp) ==
  IF Len(CopyOf(q.ups)) < LenMod
  THEN \E n \in Nat :
         /\ n <= Len(CopyOf(q.dels)) /\ l = Len(CopyOf(q.dels)) - n
         /\ Reads(Stream(q), r, c, 7 + Len(CopyOf(q.ups)) + n)
         /\ cp = <<CopyOf(q.ups), IF q.dels = <<>> THEN <<>> ELSE SubSeq(CopyOf(q.dels), 1, n)>>
  ELSE q.dels # <<>> /\ Astray(r, cp)

\* What a delta is made of, in one place.
DeltaIs(q) ==
  LET s == Stream(q)
      u == CopyOf(q.ups)
      d == CopyOf(q.dels)
  IN  /\ q.ups \in Seq(Nat) /\ q.dels \in Seq(Nat)
      /\ u \in Seq(Atoms) /\ Len(u) \in Nat /\ Len(u) >= 2
      /\ d \in Seq(Atoms) /\ Len(d) \in Nat /\ Len(d) >= 2
      /\ LongBodies = FALSE => (Len(u) < LenMod => Len(d) < LenMod) /\ (Len(u) >= LenMod => q.dels # <<>>)
      /\ s \in Seq(Atoms) /\ Len(s) = 6 + Len(u) + Len(d)
      /\ s[5] = Length(Len(u)) /\ \A i \in 1..Len(u) : s[5 + i] = u[i]
      /\ s[6 + Len(u)] = Length(Len(d)) /\ \A i \in 1..Len(d) : s[6 + Len(u) + i] = d[i]
      /\ \A i \in 2..Len(u) : u[i].kind # "PGCOPY"

LEMMA DeltaIsSo == ASSUME NEW q \in Deltas PROVE DeltaIs(q)
<1> DEFINE s == Stream(q)
           u == CopyOf(q.ups)
           d == CopyOf(q.dels)
<1>1. /\ q.op = 2 /\ q.version = 1 /\ q.ups \in Seq(Nat) /\ q.dels \in Seq(Nat)
      /\ LongBodies \/ Len(CopyOf(LastBody(q))) < LenMod
  BY DeltaFacts
<1>2. /\ u \in Seq(Atoms) /\ Len(u) = Len(q.ups) + 2 /\ d \in Seq(Atoms) /\ Len(d) = Len(q.dels) + 2
      /\ \A i \in 2..Len(u) : u[i].kind # "PGCOPY"
  BY <1>1, CopyOfIs
<1>3. Len(u) \in Nat /\ Len(u) >= 2 /\ Len(d) \in Nat /\ Len(d) >= 2
  BY <1>1, <1>2
<1>4. ASSUME LongBodies = FALSE PROVE (Len(u) < LenMod => Len(d) < LenMod) /\ (Len(u) >= LenMod => q.dels # <<>>)
  <2>1. LenMod \in Nat
    BY WireAssumption
  <2>2. CASE q.dels = <<>>
    <3>1. Len(u) < LenMod
      BY <1>1, <1>4, <2>2 DEF LastBody
    <3>2. Len(d) = 2
      BY <1>2, <2>2
    <3> HIDE DEF u, d
    <3> QED
      BY <1>3, <2>1, <3>1, <3>2
  <2>3. CASE q.dels # <<>>
    <3>1. Len(d) < LenMod
      BY <1>1, <1>4, <2>3 DEF LastBody
    <3> QED
      BY <2>3, <3>1
  <2> QED
    BY <2>2, <2>3
<1>5. DeltaStream(q)
  BY DeltaStreamIs
<1> QED
  BY <1>1, <1>2, <1>3, <1>4, <1>5 DEF DeltaIs, DeltaStream

LEMMA UlenRead ==
  ASSUME NEW q \in Deltas, NEW c, NEW r, NEW cp, FieldOK(q, c, r, cp, 5), r # <<>>, NEW l \in ReadAs(r[1])
  PROVE  UpsertsOK(q, c, Tail(r), l, cp)
<1> DEFINE s == Stream(q)
           u == CopyOf(q.ups)
<1>1. DeltaIs(q)
  BY DeltaIsSo
<1>2. u \in Seq(Atoms) /\ Len(u) \in Nat /\ s[5] = Length(Len(u))
  BY <1>1 DEF DeltaIs
<1>3. r[1] = s[5] /\ Reads(s, Tail(r), c, 5 + 1) /\ cp = <<<<>>, <<>>>>
  BY ReadsNext DEF FieldOK
<1>4. l = Len(u) % LenMod /\ l \in Nat
  <2>1. Length(Len(u)).kind = "len" /\ Length(Len(u)).val = Len(u) % LenMod /\ Len(u) % LenMod \in 0..(LenMod - 1)
    BY <1>2, LengthIs
  <2>2. l = Len(u) % LenMod
    BY <1>2, <1>3, <2>1 DEF ReadAs
  <2>3. LenMod \in Nat
    BY WireAssumption
  <2> QED
    BY <2>1, <2>2, <2>3
<1>5. cp = <<SubSeq(u, 1, 0), <<>>>>
  <2>1. SubSeq(u, 1, 0) = <<>>
    BY <1>2, FirstNone
  <2> QED
    BY <1>3, <2>1
<1>6. 0 \in Nat /\ l + 0 = Len(u) % LenMod /\ 5 + 1 = 6 + 0
  <2> HIDE DEF u
  <2>1. l + 0 = l
    BY <1>4
  <2> QED
    BY <1>4, <2>1
<1>7. Reads(s, Tail(r), c, 6 + 0)
  BY <1>3, <1>6
<1> QED
  BY <1>4, <1>5, <1>6, <1>7 DEF UpsertsOK

\* No more of a body is taken than there is.
LEMMA UpsertsFit ==
  ASSUME NEW q \in Deltas, NEW n \in Nat, NEW l \in Nat, l + n = Len(CopyOf(q.ups)) % LenMod
  PROVE  n <= Len(CopyOf(q.ups)) /\ l + n <= Len(CopyOf(q.ups)) /\ Len(CopyOf(q.ups)) \in Nat
         /\ Len(CopyOf(q.ups)) % LenMod \in Nat
<1> DEFINE m == Len(CopyOf(q.ups))
<1>1. DeltaIs(q)
  BY DeltaIsSo
<1>2. m \in Nat
  BY <1>1 DEF DeltaIs
<1>3. m % LenMod <= m /\ m % LenMod \in 0..(LenMod - 1) /\ LenMod \in Nat
  BY <1>2, LengthIs, WireAssumption
<1> HIDE DEF m
<1>4. l + n = m % LenMod
  BY DEF m
<1>5. n <= m /\ l + n <= m /\ m % LenMod \in Nat
  BY <1>2, <1>3, <1>4
<1> QED
  BY <1>2, <1>5 DEF m

LEMMA UpsertsByte ==
  ASSUME NEW q \in Deltas, NEW c, NEW r, NEW l, NEW cp, UpsertsOK(q, c, r, l, cp), l > 0, r # <<>>
  PROVE  UpsertsOK(q, c, Tail(r), l - 1, [cp EXCEPT ![1] = Append(@, r[1])])
<1> DEFINE s == Stream(q)
           u == CopyOf(q.ups)
           k == Len(u) % LenMod
<1>1. PICK n \in Nat : /\ l \in Nat /\ l + n = k /\ Reads(s, r, c, 6 + n) /\ cp = <<SubSeq(u, 1, n), <<>>>>
  BY DEF UpsertsOK
<1>2. DeltaIs(q)
  BY DeltaIsSo
<1>3. u \in Seq(Atoms) /\ Len(u) \in Nat /\ \A i \in 1..Len(u) : s[5 + i] = u[i]
  BY <1>2 DEF DeltaIs
<1>4. l + n <= Len(u)
  BY <1>1, UpsertsFit
<1> HIDE DEF s, u, k
<1> DEFINE p == 6 + n
<1>5. Reads(s, r, c, p)
  BY <1>1
<1> HIDE DEF p
<1>6. r[1] = s[p] /\ Reads(s, Tail(r), c, p + 1)
  BY <1>5, ReadsNext
<1>7. n \in 0..(Len(u) - 1) /\ n + 1 \in 1..Len(u) /\ 5 + (n + 1) = 6 + n
  BY <1>1, <1>3, <1>4
<1>8. r[1] = u[n + 1]
  BY <1>3, <1>6, <1>7 DEF p
<1>9. [cp EXCEPT ![1] = Append(@, r[1])] = <<SubSeq(u, 1, n + 1), <<>>>>
  <2>1. Append(SubSeq(u, 1, n), u[n + 1]) = SubSeq(u, 1, n + 1)
    BY <1>3, <1>7, OneMore
  <2>2. [<<SubSeq(u, 1, n), <<>>>> EXCEPT ![1] = Append(@, r[1])] = <<Append(SubSeq(u, 1, n), r[1]), <<>>>>
    BY GivenMore
  <2> QED
    BY <1>1, <1>8, <2>1, <2>2
<1>10. n + 1 \in Nat /\ l - 1 \in Nat /\ (l - 1) + (n + 1) = k /\ p + 1 = 6 + (n + 1)
  <2>1. (l - 1) + (n + 1) = l + n
    BY <1>1
  <2> QED
    BY <1>1, <2>1 DEF p
<1>11. Reads(s, Tail(r), c, 6 + (n + 1))
  BY <1>6, <1>10
<1> QED
  BY <1>9, <1>10, <1>11 DEF UpsertsOK, s, u, k

\* The first COPY is whole, or only begun because the length wraps around.
LEMMA UpsertsEnd ==
  ASSUME NEW q \in Deltas, NEW c, NEW r, NEW cp, UpsertsOK(q, c, r, 0, cp)
  PROVE  /\ CopyAccepts(cp[1]) => DlenOK(q, c, r, cp)
         /\ ~CopyAccepts(cp[1]) => Len(CopyOf(q.ups)) >= LenMod
<1> DEFINE s == Stream(q)
           u == CopyOf(q.ups)
           k == Len(u) % LenMod
<1>1. PICK n \in Nat : /\ 0 + n = k /\ Reads(s, r, c, 6 + n) /\ cp = <<SubSeq(u, 1, n), <<>>>>
  BY DEF UpsertsOK
<1>2. q.ups \in Seq(Nat) /\ u \in Seq(Atoms) /\ Len(u) \in Nat /\ Len(u) >= 2
  BY DeltaIsSo DEF DeltaIs
<1>3. n = k /\ k \in Nat /\ k <= Len(u) /\ (Len(u) < LenMod => k = Len(u)) /\ LenMod \in Nat
  <2>1. n = k
    BY <1>1
  <2>2. k <= Len(u) /\ (Len(u) < LenMod => k = Len(u))
    BY <1>2, LengthIs
  <2> QED
    BY <2>1, <2>2, WireAssumption
<1>4. CASE n = 0
  <2>1. cp[1] = <<>>
    <3>1. SubSeq(u, 1, 0) = <<>>
      BY <1>2, FirstNone
    <3> QED
      BY <1>1, <1>4, <3>1
  <2>2. ~CopyAccepts(cp[1])
    BY <2>1 DEF CopyAccepts
  <2>3. ~(Len(u) < LenMod)
    <3> HIDE DEF u, k
    <3> QED
      BY <1>2, <1>3, <1>4
  <2>4. Len(u) >= LenMod
    BY <1>2, <1>3, <2>3
  <2> QED
    BY <2>2, <2>4
<1>5. CASE n # 0
  <2>1. n \in 1..Len(u) /\ k >= 1
    <3> HIDE DEF u, k
    <3> QED
      BY <1>2, <1>3, <1>5
  <2>2. cp[1] = SubSeq(u, 1, n)
    BY <1>1
  <2>3. CopyAccepts(cp[1])
    BY <1>2, <2>1, <2>2, CopyBegun
  <2>4. DlenOK(q, c, r, cp)
    BY <1>1, <1>3, <2>1 DEF DlenOK
  <2> QED
    BY <2>3, <2>4
<1> QED
  BY <1>4, <1>5

LEMMA DlenRead ==
  ASSUME LongBodies = FALSE, NEW q \in Deltas, NEW c, NEW r, NEW cp, DlenOK(q, c, r, cp), r # <<>>,
         NEW l \in ReadAs(r[1])
  PROVE  DeletesOK(q, c, Tail(r), l, cp)
<1> DEFINE s == Stream(q)
           u == CopyOf(q.ups)
           d == CopyOf(q.dels)
           k == Len(u) % LenMod
           t == Tail(r)
<1>1. k >= 1 /\ Reads(s, r, c, 6 + k) /\ cp = <<SubSeq(u, 1, k), <<>>>>
  BY DEF DlenOK
<1>2. DeltaIs(q)
  BY DeltaIsSo
<1>3. /\ u \in Seq(Atoms) /\ Len(u) \in Nat /\ Len(u) >= 2 /\ d \in Seq(Atoms) /\ Len(d) \in Nat
      /\ (Len(u) < LenMod => Len(d) < LenMod) /\ (Len(u) >= LenMod => q.dels # <<>>)
      /\ \A i \in 1..Len(u) : s[5 + i] = u[i]
      /\ s[6 + Len(u)] = Length(Len(d))
      /\ \A i \in 2..Len(u) : u[i].kind # "PGCOPY"
  BY <1>2 DEF DeltaIs
<1>4. k \in 0..(LenMod - 1) /\ k <= Len(u) /\ (Len(u) < LenMod => k = Len(u)) /\ LenMod \in Nat
  BY <1>3, LengthIs, WireAssumption
<1>5. Length(Len(d)).kind = "len" /\ Length(Len(d)).val = Len(d) % LenMod /\ (Len(d) < LenMod => Len(d) % LenMod = Len(d))
  BY <1>3, LengthIs
<1> HIDE DEF s, u, d, k, t
<1> DEFINE p == 6 + k
<1>6. Reads(s, r, c, p)
  BY <1>1
<1> HIDE DEF p
<1>7. r[1] = s[p] /\ Reads(s, t, c, p + 1) /\ t \in Seq(Atoms)
  BY <1>6, ReadsNext DEF t
<1>8. CASE Len(u) < LenMod
  <2>1. k = Len(u) /\ Len(d) < LenMod
    BY <1>3, <1>4, <1>8
  <2>2. l = Len(d)
    <3>1. r[1] = Length(Len(d))
      BY <1>3, <1>7, <2>1 DEF p
    <3> QED
      BY <1>5, <2>1, <3>1 DEF ReadAs
  <2>3. SubSeq(u, 1, k) = u /\ SubSeq(d, 1, 0) = <<>>
    BY <1>3, <2>1, FirstNone
  <2>4. cp = <<u, IF q.dels = <<>> THEN <<>> ELSE SubSeq(d, 1, 0)>>
    BY <1>1, <2>3
  <2>5. 0 \in Nat /\ 0 <= Len(d) /\ l = Len(d) - 0 /\ p + 1 = 7 + Len(u) + 0
    BY <1>3, <2>1, <2>2 DEF p
  <2>6. Reads(s, t, c, 7 + Len(u) + 0)
    BY <1>7, <2>5
  <2> QED
    BY <1>8, <2>4, <2>5, <2>6 DEF DeletesOK, s, u, d, t
<1>9. CASE ~(Len(u) < LenMod)
  <2>1. Len(u) >= LenMod /\ k + 1 <= Len(u) /\ k \in Nat
    BY <1>3, <1>4, <1>9
  <2>2. ASSUME t # <<>> PROVE t[1].kind # "PGCOPY"
    <3> DEFINE z == p + 1
    <3>1. Reads(s, t, c, z)
      BY <1>7
    <3> HIDE DEF z
    <3>2. t[1] = s[z]
      BY <2>2, <3>1, ReadsHead
    <3>3. CASE k + 1 = Len(u)
      <4>1. z = 6 + Len(u)
        BY <1>3, <2>1, <3>3 DEF p, z
      <4> QED
        BY <1>3, <1>5, <3>2, <4>1
    <3>4. CASE k + 1 # Len(u)
      <4>1. k + 2 \in 1..Len(u) /\ k + 2 \in 2..Len(u) /\ z = 5 + (k + 2)
        BY <1>3, <2>1, <3>4 DEF p, z
      <4> QED
        BY <1>3, <3>2, <4>1
    <3> QED
      BY <3>3, <3>4
  <2>3. Astray(t, cp)
    <3>1. <<>> \in Seq(Atoms)
      OBVIOUS
    <3> QED
      BY <1>1, <1>7, <2>2, <3>1 DEF Astray
  <2> QED
    BY <1>3, <1>9, <2>1, <2>3 DEF DeletesOK, u, t
<1> QED
  BY <1>8, <1>9

LEMMA DeletesByte ==
  ASSUME NEW q \in Deltas, NEW c, NEW r, NEW l, NEW cp, DeletesOK(q, c, r, l, cp), l > 0, r # <<>>
  PROVE  DeletesOK(q, c, Tail(r), l - 1, IF q.dels = <<>> THEN cp ELSE [cp EXCEPT ![2] = Append(@, r[1])])
<1> DEFINE s == Stream(q)
           u == CopyOf(q.ups)
           d == CopyOf(q.dels)
           t == Tail(r)
           more == IF q.dels = <<>> THEN cp ELSE [cp EXCEPT ![2] = Append(@, r[1])]
<1>1. DeltaIs(q)
  BY DeltaIsSo
<1>2. /\ Len(u) \in Nat /\ d \in Seq(Atoms) /\ Len(d) \in Nat
      /\ \A i \in 1..Len(d) : s[6 + Len(u) + i] = d[i]
  BY <1>1 DEF DeltaIs
<1>3. CASE Len(u) < LenMod
  <2>1. PICK n \in Nat : /\ n <= Len(d) /\ l = Len(d) - n /\ Reads(s, r, c, 7 + Len(u) + n)
                         /\ cp = <<u, IF q.dels = <<>> THEN <<>> ELSE SubSeq(d, 1, n)>>
    BY <1>3 DEF DeletesOK
  <2> HIDE DEF s, u, d, t
  <2> DEFINE p == 7 + Len(u) + n
  <2>2. Reads(s, r, c, p)
    BY <2>1
  <2> HIDE DEF p
  <2>3. r[1] = s[p] /\ Reads(s, t, c, p + 1)
    BY <2>2, ReadsNext DEF t
  <2>4. /\ n \in 0..(Len(d) - 1) /\ n + 1 \in 1..Len(d) /\ 6 + Len(u) + (n + 1) = p
        /\ n + 1 \in Nat /\ n + 1 <= Len(d) /\ l - 1 = Len(d) - (n + 1) /\ p + 1 = 7 + Len(u) + (n + 1)
    <3>1. n < Len(d)
      BY <1>2, <2>1
    <3> QED
      BY <1>2, <2>1, <3>1 DEF p
  <2>5. r[1] = d[n + 1]
    BY <1>2, <2>3, <2>4
  <2>6. more = <<u, IF q.dels = <<>> THEN <<>> ELSE SubSeq(d, 1, n + 1)>>
    <3>1. CASE q.dels = <<>>
      BY <2>1, <3>1
    <3>2. CASE q.dels # <<>>
      <4>1. Append(SubSeq(d, 1, n), d[n + 1]) = SubSeq(d, 1, n + 1)
        BY <1>2, <2>4, OneMore
      <4>2. [<<u, SubSeq(d, 1, n)>> EXCEPT ![2] = Append(@, r[1])] = <<u, Append(SubSeq(d, 1, n), r[1])>>
        BY GivenMore
      <4> QED
        BY <2>1, <2>5, <3>2, <4>1, <4>2
    <3> QED
      BY <3>1, <3>2
  <2>7. Reads(s, t, c, 7 + Len(u) + (n + 1))
    BY <2>3, <2>4
  <2> HIDE DEF more
  <2>8. DeletesOK(q, c, t, l - 1, more)
    BY <1>3, <2>4, <2>6, <2>7 DEF DeletesOK, s, u, d
  <2> QED
    BY <2>8 DEF more, t
<1>4. CASE ~(Len(u) < LenMod)
  <2>1. q.dels # <<>> /\ Astray(r, cp)
    BY <1>4 DEF DeletesOK
  <2>2. PICK a, b : /\ cp = <<a, b>> /\ b \in Seq(Atoms) /\ r \in Seq(Atoms)
                    /\ b = <<>> => r = <<>> \/ r[1].kind # "PGCOPY"
                    /\ b # <<>> => b[1].kind # "PGCOPY"
    BY <2>1 DEF Astray
  <2> HIDE DEF s, u, d
  <2> DEFINE x == r[1]
  <2>3. [<<a, b>> EXCEPT ![2] = Append(@, x)] = <<a, Append(b, x)>>
    OBVIOUS
  <2>4. more = <<a, Append(b, r[1])>>
    BY <2>1, <2>2, <2>3
  <2>5. r[1] \in Atoms /\ t \in Seq(Atoms)
    BY <2>2
  <2> DEFINE b2 == Append(b, r[1])
  <2>6. b2 \in Seq(Atoms) /\ b2 # <<>> /\ b2[1] = (IF b = <<>> THEN r[1] ELSE b[1])
    <3>1. b \in Seq(Atoms) /\ r[1] \in Atoms
      BY <2>2, <2>5
    <3>2. CASE b = <<>>
      BY <3>1, <3>2
    <3>3. CASE b # <<>>
      <4>1. Len(b) \in Nat /\ Len(b) # 0
        BY <3>1, <3>3
      <4> QED
        BY <3>1, <3>3, <4>1
    <3> QED
      BY <3>2, <3>3
  <2> HIDE DEF b2
  <2>7. b2[1].kind # "PGCOPY"
    BY <2>2, <2>6
  <2>8. more = <<a, b2>>
    BY <2>4 DEF b2
  <2> HIDE DEF more, t
  <2>9. Astray(t, more)
    BY <2>5, <2>6, <2>7, <2>8 DEF Astray
  <2>10. DeletesOK(q, c, t, l - 1, more)
    BY <1>4, <2>1, <2>9 DEF DeletesOK, u
  <2> QED
    BY <2>10 DEF more, t
<1> QED
  BY <1>3, <1>4

LEMMA DeletesEnd ==
  ASSUME NEW q \in Deltas, NEW c, NEW r, NEW cp, DeletesOK(q, c, r, 0, cp)
  PROVE  /\ q.dels = <<>> \/ CopyAccepts(cp[2]) => CommittedOK(q, r, cp)
         /\ q.dels # <<>> /\ ~CopyAccepts(cp[2]) => Len(CopyOf(q.ups)) >= LenMod
<1> DEFINE s == Stream(q)
           u == CopyOf(q.ups)
           d == CopyOf(q.dels)
<1>1. DeltaIs(q)
  BY DeltaIsSo
<1>2. /\ q.dels \in Seq(Nat) /\ Len(u) \in Nat /\ d \in Seq(Atoms) /\ Len(d) \in Nat /\ Len(s) = 6 + Len(u) + Len(d)
  BY <1>1 DEF DeltaIs
<1>3. LenMod \in Nat
  BY WireAssumption
<1>4. CASE Len(u) < LenMod
  <2>1. PICK n \in Nat : /\ n <= Len(d) /\ 0 = Len(d) - n /\ Reads(s, r, c, 7 + Len(u) + n)
                         /\ cp = <<u, IF q.dels = <<>> THEN <<>> ELSE SubSeq(d, 1, n)>>
    BY <1>4 DEF DeletesOK
  <2> HIDE DEF s, u, d
  <2>2. n = Len(d)
    BY <1>2, <2>1
  <2>3. 7 + Len(u) + n = Len(s) + 1
    BY <1>2, <2>2
  <2>4. r = <<>>
    <3>1. Reads(s, r, c, Len(s) + 1)
      BY <2>1, <2>3
    <3> QED
      BY <3>1, ReadsEnd
  <2>5. SubSeq(d, 1, n) = d
    BY <1>2, <2>2, FirstNone
  <2>6. cp[1] = u /\ cp[2] = IF q.dels = <<>> THEN <<>> ELSE d
    BY <2>1, <2>5
  <2>7. CommittedOK(q, r, cp)
    BY <2>4, <2>6 DEF CommittedOK, u, d
  <2>8. CopyAccepts(d)
    BY <1>2, CopyOfAccepted DEF d
  <2> QED
    BY <2>6, <2>7, <2>8
<1>5. CASE ~(Len(u) < LenMod)
  <2>1. Len(u) >= LenMod
    <3> HIDE DEF u
    <3> QED
      BY <1>2, <1>3, <1>5
  <2>2. q.dels # <<>> /\ Astray(r, cp)
    BY <1>5 DEF DeletesOK
  <2>3. PICK a, b : cp = <<a, b>> /\ (b # <<>> => b[1].kind # "PGCOPY")
    BY <2>2 DEF Astray
  <2>4. ~CopyAccepts(cp[2])
    BY <2>3 DEF CopyAccepts
  <2> QED
    BY <2>1, <2>2, <2>4
<1> QED
  BY <1>4, <1>5

\* A delta that is not cut, and whose first length does not wrap around, is never over too early.
LEMMA DeltaGoesOn ==
  ASSUME NEW q \in Deltas, NEW c, NEW l, NEW cp,
         \/ FieldOK(q, c, <<>>, cp, 5)
         \/ UpsertsOK(q, c, <<>>, l, cp) /\ l > 0
         \/ DlenOK(q, c, <<>>, cp)
         \/ DeletesOK(q, c, <<>>, l, cp) /\ l > 0
  PROVE  c \/ Len(CopyOf(q.ups)) >= LenMod
<1> DEFINE s == Stream(q)
           u == CopyOf(q.ups)
           d == CopyOf(q.dels)
           k == Len(u) % LenMod
<1>1. DeltaIs(q)
  BY DeltaIsSo
<1>2. Len(u) \in Nat /\ Len(d) \in Nat /\ Len(s) = 6 + Len(u) + Len(d)
  BY <1>1 DEF DeltaIs
<1>3. LenMod \in Nat
  BY WireAssumption
<1>4. SUFFICES Len(u) >= LenMod \/ \E p \in Nat : Reads(s, <<>>, c, p) /\ p <= Len(s)
  <2>1. ASSUME NEW p \in Nat, Reads(s, <<>>, c, p), p <= Len(s) PROVE c
    <3>1. c \/ p = Len(s) + 1
      BY <2>1, ReadsEnd
    <3> HIDE DEF s
    <3>2. p # Len(s) + 1
      BY <1>2, <2>1
    <3> QED
      BY <3>1, <3>2
  <2> QED
    BY <2>1
<1>5. CASE FieldOK(q, c, <<>>, cp, 5)
  <2>1. Reads(s, <<>>, c, 5)
    BY <1>5 DEF FieldOK
  <2> HIDE DEF s, u, d
  <2> QED
    BY <1>2, <2>1
<1>6. CASE UpsertsOK(q, c, <<>>, l, cp) /\ l > 0
  <2>1. PICK n \in Nat : l \in Nat /\ l + n = k /\ Reads(s, <<>>, c, 6 + n)
    BY <1>6 DEF UpsertsOK
  <2>2. l + n <= Len(u)
    BY <2>1, UpsertsFit
  <2> HIDE DEF s, u, d, k
  <2>3. 6 + n \in Nat /\ 6 + n <= Len(s)
    BY <1>2, <1>6, <2>1, <2>2
  <2> QED
    BY <2>1, <2>3
<1>7. CASE DlenOK(q, c, <<>>, cp)
  <2>1. Reads(s, <<>>, c, 6 + k)
    BY <1>7 DEF DlenOK
  <2>2. k \in 0..(LenMod - 1) /\ k <= Len(u)
    BY <1>2, LengthIs
  <2> HIDE DEF s, u, d, k
  <2>3. 6 + k \in Nat /\ 6 + k <= Len(s)
    BY <1>2, <1>3, <2>2
  <2> QED
    BY <2>1, <2>3
<1>8. CASE DeletesOK(q, c, <<>>, l, cp) /\ l > 0
  <2>1. CASE Len(u) < LenMod
    <3>1. PICK n \in Nat : n <= Len(d) /\ l = Len(d) - n /\ Reads(s, <<>>, c, 7 + Len(u) + n)
      BY <1>8, <2>1 DEF DeletesOK
    <3> HIDE DEF s, u, d
    <3>2. 7 + Len(u) + n \in Nat /\ 7 + Len(u) + n <= Len(s)
      BY <1>2, <1>8, <3>1
    <3> QED
      BY <3>1, <3>2
  <2>2. CASE ~(Len(u) < LenMod)
    <3> HIDE DEF u
    <3> QED
      BY <1>2, <1>3, <2>2
  <2> QED
    BY <2>1, <2>2
<1> QED
  BY <1>5, <1>6, <1>7, <1>8

-----------------------------------------------------------------------------
(***************************************************************************)
(* The invariant of the wire: wherever the reader is, the rest of the      *)
(* stream and what was given to the COPYs fit together.                    *)
(***************************************************************************)
RefusedOK(q, c) == c \/ q.version # 1 \/ q.op = 3 \/ (q.op = 2 /\ Len(CopyOf(q.ups)) >= LenMod)

Standing(rd, q, c, r, l, cp) ==
  /\ rd = "FDBI"      => FieldOK(q, c, r, cp, 1)
  /\ rd = "version"   => FieldOK(q, c, r, cp, 2)
  /\ rd = "op"        => FieldOK(q, c, r, cp, 3) /\ q.version = 1
  /\ rd = "header"    => FieldOK(q, c, r, cp, 4) /\ q.version = 1 /\ q.op \in {1, 2}
  /\ rd = "chunk"     => ChunkOK(q, c, r, cp)
  /\ rd = "frame"     => FrameOK(q, c, r, l, cp)
  /\ rd = "ulen"      => q.op = 2 /\ FieldOK(q, c, r, cp, 5)
  /\ rd = "upserts"   => q.op = 2 /\ UpsertsOK(q, c, r, l, cp)
  /\ rd = "dlen"      => q.op = 2 /\ DlenOK(q, c, r, cp)
  /\ rd = "deletes"   => q.op = 2 /\ DeletesOK(q, c, r, l, cp)
  /\ rd = "committed" => CommittedOK(q, r, cp)
  /\ rd = "refused"   => RefusedOK(q, c)

WireInv ==
  /\ request \in Fulls \cup Deltas
  /\ reader \in Readers \cup {"refused", "committed"}
  /\ left \in Nat
  /\ Standing(reader, request, cut, rest, left, copied)
  /\ told = "ok" => reader = "committed"

LEMMA RequestIs ==
  ASSUME NEW q \in Fulls \cup Deltas
  PROVE  /\ q.op = 2 => q \in Deltas /\ q.version = 1
         /\ q.op # 2 => q \in Fulls /\ q.op \in {1, 3} /\ q.version \in {1, 2}
         /\ q.version \in Nat /\ q.op \in {1, 2, 3}
         /\ Stream(q) \in Seq(Atoms) /\ Stream(q)[2].val = q.version /\ Stream(q)[3].val = q.op
<1>1. CASE q \in Fulls
  <2>1. q.op \in {1, 3} /\ q.version \in {1, 2}
    BY <1>1, FullFacts
  <2>2. Stream(q) \in Seq(Atoms) /\ Stream(q)[2].val = q.version /\ Stream(q)[3].val = q.op
    BY <1>1, FullStreamIs DEF FullStream
  <2> QED
    BY <1>1, <2>1, <2>2
<1>2. CASE q \in Deltas
  <2>1. q.op = 2 /\ q.version = 1
    BY <1>2, DeltaFacts
  <2>2. Stream(q) \in Seq(Atoms) /\ Stream(q)[2].val = q.version /\ Stream(q)[3].val = q.op
    BY <1>2, DeltaStreamIs DEF DeltaStream
  <2> QED
    BY <1>2, <2>1, <2>2
<1> QED
  BY <1>1, <1>2

LEMMA FieldRead ==
  ASSUME NEW q, NEW c, NEW r, NEW cp, NEW p \in Nat, FieldOK(q, c, r, cp, p), r # <<>>
  PROVE  r[1] = Stream(q)[p] /\ FieldOK(q, c, Tail(r), cp, p + 1)
<1>1. Reads(Stream(q), r, c, p) /\ cp = <<<<>>, <<>>>>
  BY DEF FieldOK
<1>2. StandsAt(Stream(q), r, p) /\ Reads(Stream(q), Tail(r), c, p + 1)
  BY <1>1, ReadsFront
<1> QED
  BY <1>1, <1>2 DEF StandsAt, FieldOK

\* The body of a full begins with its first frame.
LEMMA FirstChunk ==
  ASSUME NEW q \in Fulls, NEW c, NEW r, NEW cp, FieldOK(q, c, r, cp, 5), q.op = 1, q.version = 1
  PROVE  ChunkOK(q, c, r, cp)
<1> DEFINE u == CopyOf(q.ups)
           e == q.ends
<1>1. Len(e) \in Nat /\ Before(e, 1) = 0 /\ u \in Seq(Atoms)
  BY FullIsSo DEF FullIs
<1>2. SubSeq(u, 1, 0) = <<>>
  BY <1>1, FirstNone
<1>3. 1 \in 1..(Len(e) + 1) /\ 4 + 1 + 0 = 5
  <2> HIDE DEF e
  <2> QED
    BY <1>1
<1>4. Reads(Stream(q), r, c, 4 + 1 + Before(e, 1)) /\ cp = <<SubSeq(u, 1, Before(e, 1)), <<>>>>
  BY <1>1, <1>2, <1>3 DEF FieldOK
<1> QED
  BY <1>3, <1>4 DEF ChunkOK

LEMMA WireInvInit == WireInit => WireInv
<1>1. SUFFICES ASSUME WireInit PROVE WireInv
  OBVIOUS
<1>2. /\ request \in Fulls \cup Deltas /\ reader = "FDBI" /\ left = 0 /\ copied = <<<<>>, <<>>>> /\ told = "none"
  BY <1>1 DEF WireInit
<1>3. PICK k \in 0..Len(Stream(request)) :
        rest = SubSeq(Stream(request), 1, k) /\ cut = (k < Len(Stream(request)))
  BY <1>1 DEF WireInit
<1>4. Stream(request) \in Seq(Atoms)
  BY <1>2, RequestIs
<1>5. 1 <= k + 1 /\ (cut \/ k = Len(Stream(request)))
  <2> DEFINE len == Len(Stream(request))
  <2>1. len \in Nat
    BY <1>4
  <2>2. k \in 0..len /\ cut = (k < len)
    BY <1>3
  <2> HIDE DEF len
  <2>3. 1 <= k + 1 /\ (k < len \/ k = len)
    BY <2>1, <2>2
  <2>4. CASE k < len
    BY <2>2, <2>3, <2>4
  <2>5. CASE k = len
    BY <2>3, <2>5 DEF len
  <2> QED
    BY <2>3, <2>4, <2>5
<1>6. FieldOK(request, cut, rest, copied, 1)
  BY <1>2, <1>3, <1>4, <1>5 DEF FieldOK, Reads
<1>7. Standing(reader, request, cut, rest, left, copied)
  BY <1>2, <1>6 DEF Standing
<1> QED
  BY <1>2, <1>7 DEF WireInv, Readers

LEMMA ReadHeaderKeeps == ASSUME WireInv, ReadHeader PROVE WireInv'
<1> DEFINE q == request
           bad == \/ reader = "version" /\ rest[1].val # 1
                  \/ reader = "op" /\ rest[1].val \notin {1, 2}
<1>1. /\ q \in Fulls \cup Deltas /\ left \in Nat /\ (told = "ok" => reader = "committed")
      /\ Standing(reader, q, cut, rest, left, copied)
  BY DEF WireInv
<1>2. reader \in {"FDBI", "version", "op", "header"} /\ rest # <<>>
  BY DEF ReadHeader
<1>3. told # "ok"
  BY <1>1, <1>2
<1>4. /\ q.op = 2 => q \in Deltas /\ q.version = 1
      /\ q.op # 2 => q \in Fulls /\ q.op \in {1, 3} /\ q.version \in {1, 2}
      /\ Stream(q)[2].val = q.version /\ Stream(q)[3].val = q.op
  BY <1>1, RequestIs
<1>5. CASE bad
  <2>1. Refuse
    BY <1>5 DEF ReadHeader
  <2>2. RefusedOK(q, cut)
    <3>1. CASE reader = "version"
      <4>1. rest[1] = Stream(q)[2]
        BY <1>1, <1>2, <3>1, FieldRead DEF Standing
      <4>2. rest[1].val # 1
        BY <1>5, <3>1
      <4> QED
        BY <1>4, <4>1, <4>2 DEF RefusedOK
    <3>2. CASE reader = "op"
      <4>1. rest[1] = Stream(q)[3]
        BY <1>1, <1>2, <3>2, FieldRead DEF Standing
      <4>2. rest[1].val \notin {1, 2}
        BY <1>5, <3>2
      <4>3. q.op = 3
        BY <1>4, <4>1, <4>2
      <4> QED
        BY <4>3 DEF RefusedOK
    <3> QED
      BY <1>5, <3>1, <3>2
  <2>3. Standing("refused", q, cut, rest, left, copied)
    BY <2>2 DEF Standing
  <2>4. reader' = "refused" /\ UNCHANGED <<request, cut, rest, left, copied, told>>
    BY <2>1 DEF Refuse
  <2> QED
    BY <1>1, <1>3, <2>3, <2>4 DEF WireInv
<1>6. CASE ~bad
  <2>1. reader' = After[reader] /\ rest' = Tail(rest) /\ UNCHANGED <<request, cut, left, copied, told>>
    BY <1>6 DEF ReadHeader
  <2>2. SUFFICES reader' \in Readers /\ Standing(reader', q, cut, Tail(rest), left, copied)
    BY <1>1, <1>3, <2>1 DEF WireInv
  <2>3. CASE reader = "FDBI"
    <3>1. FieldOK(q, cut, Tail(rest), copied, 2)
      <4>1. FieldOK(q, cut, rest, copied, 1)
        BY <1>1, <2>3 DEF Standing
      <4>2. FieldOK(q, cut, Tail(rest), copied, 1 + 1)
        BY <1>2, <4>1, FieldRead
      <4> QED
        BY <4>2
    <3>2. reader' = "version"
      BY <2>1, <2>3 DEF After
    <3> QED
      BY <3>1, <3>2 DEF Standing, Readers
  <2>4. CASE reader = "version"
    <3>1. rest[1] = Stream(q)[2] /\ FieldOK(q, cut, Tail(rest), copied, 3)
      <4>1. FieldOK(q, cut, rest, copied, 2)
        BY <1>1, <2>4 DEF Standing
      <4>2. rest[1] = Stream(q)[2] /\ FieldOK(q, cut, Tail(rest), copied, 2 + 1)
        BY <1>2, <4>1, FieldRead
      <4> QED
        BY <4>2
    <3>2. reader' = "op"
      BY <2>1, <2>4 DEF After
    <3>3. q.version = 1
      BY <1>4, <1>6, <2>4, <3>1
    <3> QED
      BY <3>1, <3>2, <3>3 DEF Standing, Readers
  <2>5. CASE reader = "op"
    <3>1. rest[1] = Stream(q)[3] /\ FieldOK(q, cut, Tail(rest), copied, 4) /\ q.version = 1
      <4>1. FieldOK(q, cut, rest, copied, 3) /\ q.version = 1
        BY <1>1, <2>5 DEF Standing
      <4>2. rest[1] = Stream(q)[3] /\ FieldOK(q, cut, Tail(rest), copied, 3 + 1)
        BY <1>2, <4>1, FieldRead
      <4> QED
        BY <4>1, <4>2
    <3>2. reader' = "header"
      BY <2>1, <2>5 DEF After
    <3>3. q.op \in {1, 2}
      BY <1>4, <1>6, <2>5, <3>1
    <3> QED
      BY <3>1, <3>2, <3>3 DEF Standing, Readers
  <2>6. CASE reader = "header"
    <3>1. FieldOK(q, cut, Tail(rest), copied, 5) /\ q.version = 1 /\ q.op \in {1, 2}
      <4>1. FieldOK(q, cut, rest, copied, 4) /\ q.version = 1 /\ q.op \in {1, 2}
        BY <1>1, <2>6 DEF Standing
      <4>2. FieldOK(q, cut, Tail(rest), copied, 4 + 1)
        BY <1>2, <4>1, FieldRead
      <4> QED
        BY <4>1, <4>2
    <3>2. reader' = IF q.op = 2 THEN "ulen" ELSE "chunk"
      BY <2>1, <2>6 DEF After
    <3>3. CASE q.op = 2
      BY <3>1, <3>2, <3>3 DEF Standing, Readers
    <3>4. CASE q.op # 2
      <4>1. q \in Fulls /\ q.op = 1
        BY <1>4, <3>1, <3>4
      <4>2. ChunkOK(q, cut, Tail(rest), copied)
        BY <3>1, <4>1, FirstChunk
      <4>3. reader' = "chunk"
        BY <3>2, <3>4
      <4> QED
        BY <4>2, <4>3 DEF Standing, Readers
    <3> QED
      BY <3>3, <3>4
  <2> QED
    BY <1>2, <2>3, <2>4, <2>5, <2>6
<1> QED
  BY <1>5, <1>6

\* The connection has ended: what is refused for it was cut, or has a length that wraps around.
LEMMA StarvedIsRefused ==
  ASSUME WireInv, Starved
  PROVE  RefusedOK(request, cut)
<1> DEFINE q == request
<1>1. q \in Fulls \cup Deltas /\ left \in Nat /\ Standing(reader, q, cut, <<>>, left, copied)
  BY DEF WireInv, Starved
<1>2. /\ q.op = 2 => q \in Deltas /\ q.version = 1
      /\ q.op # 2 => q \in Fulls
      /\ Stream(q) \in Seq(Atoms)
  BY <1>1, RequestIs
<1>3. reader \in Readers /\ (reader \in {"frame", "upserts", "deletes"} => left > 0)
  BY DEF Starved, Mid
<1>4. ASSUME NEW p \in 1..4, FieldOK(q, cut, <<>>, copied, p) PROVE cut
  <2>1. Reads(Stream(q), <<>>, cut, p)
    BY <1>4 DEF FieldOK
  <2>2. cut \/ p = Len(Stream(q)) + 1
    BY <2>1, ReadsEnd
  <2>3. Len(Stream(q)) \in Nat /\ Len(Stream(q)) >= 5
    <3>1. CASE q.op = 2
      <4>1. DeltaIs(q)
        BY <1>2, <3>1, DeltaIsSo
      <4>2. /\ Len(CopyOf(q.ups)) \in Nat /\ Len(CopyOf(q.dels)) \in Nat
            /\ Len(Stream(q)) = 6 + Len(CopyOf(q.ups)) + Len(CopyOf(q.dels))
        BY <4>1 DEF DeltaIs
      <4> QED
        BY <4>2
    <3>2. CASE q.op # 2
      <4>1. FullIs(q)
        BY <1>2, <3>2, FullIsSo
      <4> DEFINE len == Len(CopyOf(q.ups))
                 flushes == Len(q.ends)
                 all == Len(Stream(q))
      <4>2. len \in Nat /\ flushes \in Nat /\ all = 5 + flushes + len
        BY <4>1 DEF FullIs
      <4> HIDE DEF len, flushes, all
      <4>3. all \in Nat /\ all >= 5
        BY <4>2
      <4> QED
        BY <4>3 DEF all
    <3> QED
      BY <3>1, <3>2
  <2>4. p # Len(Stream(q)) + 1
    BY <2>3
  <2> QED
    BY <2>2, <2>4
<1>5. CASE reader \in {"FDBI", "version", "op", "header"}
  <2>1. \/ FieldOK(q, cut, <<>>, copied, 1) \/ FieldOK(q, cut, <<>>, copied, 2)
        \/ FieldOK(q, cut, <<>>, copied, 3) \/ FieldOK(q, cut, <<>>, copied, 4)
    BY <1>1, <1>5 DEF Standing
  <2>2. 1 \in 1..4 /\ 2 \in 1..4 /\ 3 \in 1..4 /\ 4 \in 1..4
    OBVIOUS
  <2>3. cut
    BY <1>4, <2>1, <2>2
  <2> QED
    BY <2>3 DEF RefusedOK
<1>6. CASE reader \in {"chunk", "frame"}
  <2>1. ChunkOK(q, cut, <<>>, copied) \/ (FrameOK(q, cut, <<>>, left, copied) /\ left > 0)
    BY <1>1, <1>3, <1>6 DEF Standing
  <2>2. q.op # 2
    BY <2>1 DEF ChunkOK, FrameOK
  <2>3. q \in Fulls
    BY <1>2, <2>2
  <2>4. cut
    BY <2>1, <2>3, FullGoesOn
  <2> QED
    BY <2>4 DEF RefusedOK
<1>7. CASE reader \in {"ulen", "upserts", "dlen", "deletes"}
  <2>1. q.op = 2 /\ (\/ FieldOK(q, cut, <<>>, copied, 5)
                     \/ UpsertsOK(q, cut, <<>>, left, copied) /\ left > 0
                     \/ DlenOK(q, cut, <<>>, copied)
                     \/ DeletesOK(q, cut, <<>>, left, copied) /\ left > 0)
    BY <1>1, <1>3, <1>7 DEF Standing
  <2>2. q \in Deltas
    BY <1>2, <2>1
  <2>3. cut \/ Len(CopyOf(q.ups)) >= LenMod
    BY <2>1, <2>2, DeltaGoesOn
  <2> QED
    BY <2>1, <2>3 DEF RefusedOK
<1> QED
  BY <1>3, <1>5, <1>6, <1>7 DEF Readers

LEMMA RefuseKeeps == ASSUME WireInv, reader \in Readers, Refuse, RefusedOK(request, cut) PROVE WireInv'
<1>1. /\ request \in Fulls \cup Deltas /\ left \in Nat /\ (told = "ok" => reader = "committed")
      /\ reader' = "refused" /\ UNCHANGED <<request, cut, rest, left, copied, told>>
  BY DEF WireInv, Refuse
<1>2. told # "ok"
  BY <1>1 DEF Readers
<1>3. Standing("refused", request, cut, rest, left, copied)
  BY DEF Standing
<1> QED
  BY <1>1, <1>2, <1>3 DEF WireInv

LEMMA ReadAsNat == ASSUME NEW s, NEW r, NEW c, NEW p, Reads(s, r, c, p), r # <<>>, NEW l \in ReadAs(r[1]) PROVE l \in Nat
<1>1. r[1] \in Atoms
  BY ReadsFront DEF StandsAt
<1>2. r[1].val \in Nat /\ LenMod \in Nat
  BY <1>1, WireAssumption DEF Atoms
<1> QED
  BY <1>2 DEF ReadAs

LEMMA ReadLengthKeeps == ASSUME LongBodies = FALSE, WireInv, ReadLength PROVE WireInv'
<1> DEFINE q == request
           l == left'
           t == Tail(rest)
<1>1. /\ q \in Fulls \cup Deltas /\ (told = "ok" => reader = "committed")
      /\ Standing(reader, q, cut, rest, left, copied)
  BY DEF WireInv
<1>2. /\ reader \in {"chunk", "ulen", "dlen"} /\ rest # <<>> /\ l \in ReadAs(rest[1]) /\ rest' = t
      /\ UNCHANGED <<request, cut, copied, told>>
  BY DEF ReadLength
<1>3. told # "ok"
  BY <1>1, <1>2
<1>4. /\ q.op = 2 => q \in Deltas
      /\ q.op # 2 => q \in Fulls
  BY <1>1, RequestIs
<1>5. SUFFICES l \in Nat /\ reader' \in Readers \cup {"refused", "committed"} /\ Standing(reader', q, cut, t, l, copied)
  BY <1>1, <1>2, <1>3 DEF WireInv
<1>6. CASE reader = "chunk"
  <2>1. ChunkOK(q, cut, rest, copied)
    BY <1>1, <1>6 DEF Standing
  <2>2. q \in Fulls
    BY <1>4, <2>1 DEF ChunkOK
  <2>3. reader' = IF l > 0 THEN "frame" ELSE IF CopyAccepts(copied[1]) THEN "committed" ELSE "refused"
    BY <1>6 DEF ReadLength
  <2>4. (l > 0 => FrameOK(q, cut, t, l, copied)) /\ (l = 0 => CopyAccepts(copied[1]) /\ CommittedOK(q, t, copied))
    BY <1>2, <2>1, <2>2, ChunkRead
  <2>5. l \in Nat
    <3>1. PICK p \in Nat : Reads(Stream(q), rest, cut, p)
      BY <2>1 DEF ChunkOK, Reads
    <3> HIDE DEF l
    <3> QED
      BY <1>2, <3>1, ReadAsNat
  <2>6. CASE l > 0
    BY <2>3, <2>4, <2>5, <2>6 DEF Standing, Readers
  <2>7. CASE ~(l > 0)
    <3>1. l = 0
      BY <2>5, <2>7
    <3>2. reader' = "committed"
      BY <2>3, <2>4, <3>1
    <3> QED
      BY <2>4, <2>5, <3>1, <3>2 DEF Standing, Readers
  <2> QED
    BY <2>6, <2>7
<1>7. CASE reader = "ulen"
  <2>1. q.op = 2 /\ FieldOK(q, cut, rest, copied, 5)
    BY <1>1, <1>7 DEF Standing
  <2>2. reader' = "upserts"
    BY <1>7 DEF ReadLength, After
  <2>3. q \in Deltas
    BY <1>4, <2>1
  <2>4. UpsertsOK(q, cut, t, l, copied)
    BY <1>2, <2>1, <2>3, UlenRead
  <2>5. l \in Nat
    BY <2>4 DEF UpsertsOK
  <2> QED
    BY <2>1, <2>2, <2>4, <2>5 DEF Standing, Readers
<1>8. CASE reader = "dlen"
  <2>1. q.op = 2 /\ DlenOK(q, cut, rest, copied)
    BY <1>1, <1>8 DEF Standing
  <2>2. reader' = "deletes"
    BY <1>8 DEF ReadLength, After
  <2>3. q \in Deltas
    BY <1>4, <2>1
  <2>4. DeletesOK(q, cut, t, l, copied)
    BY <1>2, <2>1, <2>3, DlenRead
  <2>5. l \in Nat
    <3>1. PICK p \in Nat : Reads(Stream(q), rest, cut, p)
      BY <2>1 DEF DlenOK, Reads
    <3> HIDE DEF l
    <3> QED
      BY <1>2, <3>1, ReadAsNat
  <2> QED
    BY <2>1, <2>2, <2>4, <2>5 DEF Standing, Readers
<1> QED
  BY <1>2, <1>6, <1>7, <1>8

LEMMA ReadBytesKeeps == ASSUME WireInv, ReadBytes PROVE WireInv'
<1> DEFINE q == request
           t == Tail(rest)
           l == left - 1
           one == [copied EXCEPT ![1] = Append(@, rest[1])]
           two == IF q.dels = <<>> THEN copied ELSE [copied EXCEPT ![2] = Append(@, rest[1])]
<1>1. /\ q \in Fulls \cup Deltas /\ (told = "ok" => reader = "committed") /\ left \in Nat
      /\ Standing(reader, q, cut, rest, left, copied)
  BY DEF WireInv
<1>2. /\ reader \in {"frame", "upserts", "deletes"} /\ left > 0 /\ rest # <<>> /\ left' = l /\ rest' = t
      /\ UNCHANGED <<request, cut, reader, told>>
  BY DEF ReadBytes, Mid
<1>3. told # "ok" /\ l \in Nat
  BY <1>1, <1>2
<1>4. /\ q.op = 2 => q \in Deltas
      /\ q.op # 2 => q \in Fulls
  BY <1>1, RequestIs
<1>5. copied' = IF reader # "deletes" THEN one ELSE two
  <2>1. Target = IF reader # "deletes" THEN 1 ELSE IF q.dels = <<>> THEN 0 ELSE 2
    BY DEF Target
  <2>2. copied' = IF Target = 0 THEN copied ELSE [copied EXCEPT ![Target] = Append(@, rest[1])]
    BY DEF ReadBytes
  <2>3. CASE reader # "deletes"
    <3>1. Target = 1
      BY <2>1, <2>3
    <3> HIDE DEF one, two
    <3>2. copied' = [copied EXCEPT ![1] = Append(@, rest[1])]
      BY <2>2, <3>1
    <3> QED
      BY <2>3, <3>2 DEF one
  <2>4. CASE reader = "deletes" /\ q.dels = <<>>
    BY <2>1, <2>2, <2>4
  <2>5. CASE reader = "deletes" /\ q.dels # <<>>
    <3>1. Target = 2
      BY <2>1, <2>5
    <3>2. copied' = [copied EXCEPT ![2] = Append(@, rest[1])]
      BY <2>2, <3>1
    <3> QED
      BY <2>5, <3>2
  <2> QED
    BY <2>3, <2>4, <2>5
<1>6. SUFFICES Standing(reader, q, cut, t, l, copied')
  <2>1. reader \in Readers \cup {"refused", "committed"}
    BY <1>2 DEF Readers
  <2> QED
    BY <1>1, <1>2, <1>3, <2>1 DEF WireInv
<1>7. CASE reader = "frame"
  <2>1. FrameOK(q, cut, rest, left, copied)
    BY <1>1, <1>7 DEF Standing
  <2>2. q \in Fulls
    BY <1>4, <2>1 DEF FrameOK
  <2>3. FrameOK(q, cut, t, l, one)
    BY <1>2, <2>1, <2>2, FrameByte
  <2>4. copied' = one
    BY <1>5, <1>7
  <2> QED
    BY <1>7, <2>3, <2>4 DEF Standing
<1>8. CASE reader = "upserts"
  <2>1. q.op = 2 /\ UpsertsOK(q, cut, rest, left, copied)
    BY <1>1, <1>8 DEF Standing
  <2>2. UpsertsOK(q, cut, t, l, one)
    BY <1>2, <1>4, <2>1, UpsertsByte
  <2>3. copied' = one
    BY <1>5, <1>8
  <2> QED
    BY <1>8, <2>1, <2>2, <2>3 DEF Standing
<1>9. CASE reader = "deletes"
  <2>1. q.op = 2 /\ DeletesOK(q, cut, rest, left, copied)
    BY <1>1, <1>9 DEF Standing
  <2>2. DeletesOK(q, cut, t, l, two)
    BY <1>2, <1>4, <2>1, DeletesByte
  <2>3. copied' = two
    BY <1>5, <1>9
  <2> QED
    BY <1>9, <2>1, <2>2, <2>3 DEF Standing
<1> QED
  BY <1>2, <1>7, <1>8, <1>9

LEMMA EndOfBytesKeeps == ASSUME WireInv, EndOfBytes PROVE WireInv'
<1> DEFINE q == request
           bad == reader # "frame" /\ Target > 0 /\ ~CopyAccepts(copied[Target])
<1>1. /\ q \in Fulls \cup Deltas /\ (told = "ok" => reader = "committed") /\ left \in Nat
      /\ Standing(reader, q, cut, rest, left, copied)
  BY DEF WireInv
<1>2. reader \in {"frame", "upserts", "deletes"} /\ left = 0
  BY DEF EndOfBytes, Mid
<1>3. told # "ok" /\ reader \in Readers
  BY <1>1, <1>2 DEF Readers
<1>4. /\ q.op = 2 => q \in Deltas
      /\ q.op # 2 => q \in Fulls
  BY <1>1, RequestIs
<1>5. /\ bad => Refuse
      /\ ~bad => /\ reader' = IF reader = "deletes" THEN "committed" ELSE After[reader]
                 /\ UNCHANGED <<request, cut, rest, left, copied, told>>
  BY DEF EndOfBytes
<1>6. ASSUME ~bad, NEW x \in Readers \cup {"refused", "committed"},
             x = (IF reader = "deletes" THEN "committed" ELSE After[reader]),
             Standing(x, q, cut, rest, left, copied)
      PROVE  WireInv'
  BY <1>1, <1>3, <1>5, <1>6 DEF WireInv
<1>7. CASE reader = "frame"
  <2>1. FrameOK(q, cut, rest, 0, copied)
    BY <1>1, <1>2, <1>7 DEF Standing
  <2>2. q \in Fulls
    BY <1>4, <2>1 DEF FrameOK
  <2>3. Standing("chunk", q, cut, rest, left, copied)
    BY <2>1, <2>2, FrameEnd DEF Standing
  <2>4. After[reader] = "chunk" /\ ~bad /\ "chunk" \in Readers
    BY <1>7 DEF After, Readers
  <2> QED
    BY <1>6, <1>7, <2>3, <2>4
<1>8. CASE reader = "upserts"
  <2>1. q.op = 2 /\ UpsertsOK(q, cut, rest, 0, copied)
    BY <1>1, <1>2, <1>8 DEF Standing
  <2>2. /\ CopyAccepts(copied[1]) => DlenOK(q, cut, rest, copied)
        /\ ~CopyAccepts(copied[1]) => Len(CopyOf(q.ups)) >= LenMod
    BY <1>4, <2>1, UpsertsEnd
  <2>3. Target = 1 /\ After[reader] = "dlen" /\ "dlen" \in Readers
    BY <1>8 DEF Target, After, Readers
  <2>4. CASE CopyAccepts(copied[1])
    <3>1. Standing("dlen", q, cut, rest, left, copied)
      BY <2>1, <2>2, <2>4 DEF Standing
    <3> QED
      BY <1>6, <1>8, <2>3, <2>4, <3>1
  <2>5. CASE ~CopyAccepts(copied[1])
    <3>1. Refuse
      BY <1>5, <1>8, <2>3, <2>5
    <3>2. RefusedOK(q, cut)
      BY <2>1, <2>2, <2>5 DEF RefusedOK
    <3> QED
      BY <1>3, <3>1, <3>2, RefuseKeeps
  <2> QED
    BY <2>4, <2>5
<1>9. CASE reader = "deletes"
  <2>1. q.op = 2 /\ DeletesOK(q, cut, rest, 0, copied)
    BY <1>1, <1>2, <1>9 DEF Standing
  <2>2. /\ q.dels = <<>> \/ CopyAccepts(copied[2]) => CommittedOK(q, rest, copied)
        /\ q.dels # <<>> /\ ~CopyAccepts(copied[2]) => Len(CopyOf(q.ups)) >= LenMod
    BY <1>4, <2>1, DeletesEnd
  <2>3. Target = IF q.dels = <<>> THEN 0 ELSE 2
    BY <1>9 DEF Target
  <2>4. CASE q.dels = <<>> \/ CopyAccepts(copied[2])
    <3>1. Standing("committed", q, cut, rest, left, copied)
      BY <2>2, <2>4 DEF Standing
    <3>2. ~bad
      BY <2>3, <2>4
    <3> QED
      BY <1>6, <1>9, <3>1, <3>2
  <2>5. CASE q.dels # <<>> /\ ~CopyAccepts(copied[2])
    <3>1. Refuse
      BY <1>5, <1>9, <2>3, <2>5
    <3>2. RefusedOK(q, cut)
      BY <2>1, <2>2, <2>5 DEF RefusedOK
    <3> QED
      BY <1>3, <3>1, <3>2, RefuseKeeps
  <2> QED
    BY <2>4, <2>5
<1> QED
  BY <1>2, <1>7, <1>8, <1>9

LEMMA AnswerKeeps == ASSUME WireInv, Answer PROVE WireInv'
<1>1. /\ request \in Fulls \cup Deltas /\ left \in Nat /\ reader \in {"refused", "committed"}
      /\ Standing(reader, request, cut, rest, left, copied)
      /\ UNCHANGED <<request, cut, rest, reader, left, copied>>
  BY DEF WireInv, Answer
<1>2. told' = "ok" => reader = "committed"
  BY <1>1 DEF Answer
<1> QED
  BY <1>1, <1>2 DEF WireInv

LEMMA WireInvAlways == ASSUME LongBodies = FALSE PROVE WireSpec => []WireInv
<1>1. ASSUME WireInv, [WireNext]_wireVars PROVE WireInv'
  <2>1. CASE ReadCut
    <3>1. Starved /\ Refuse /\ reader \in Readers
      BY <2>1 DEF ReadCut, Starved
    <3> QED
      BY <1>1, <3>1, StarvedIsRefused, RefuseKeeps
  <2>2. CASE ReadHeader
    BY <1>1, <2>2, ReadHeaderKeeps
  <2>3. CASE ReadLength
    BY <1>1, <2>3, ReadLengthKeeps
  <2>4. CASE ReadBytes
    BY <1>1, <2>4, ReadBytesKeeps
  <2>5. CASE EndOfBytes
    BY <1>1, <2>5, EndOfBytesKeeps
  <2>6. CASE Answer
    BY <1>1, <2>6, AnswerKeeps
  <2>7. CASE UNCHANGED wireVars
    BY <1>1, <2>7 DEF WireInv, wireVars
  <2> QED
    BY <1>1, <2>1, <2>2, <2>3, <2>4, <2>5, <2>6, <2>7 DEF WireNext
<1> QED
  BY <1>1, WireInvInit, PTL DEF WireSpec

(***************************************************************************)
(* When no body is too long for the length before it, or only the first of *)
(* two: what the gateway commits, and what the agent takes for committed,  *)
(* is what was sent, wherever the stream is cut and however the dump is    *)
(* framed.  (ChunkReader, copy_u32_prefixed, apply_delta_streaming)        *)
(***************************************************************************)
THEOREM CommittedIsWhatWasSent == LongBodies = FALSE => (WireSpec => []CommitsWhatWasSent)
<1>1. SUFFICES ASSUME LongBodies = FALSE PROVE WireSpec => []CommitsWhatWasSent
  OBVIOUS
<1>2. WireInv => CommitsWhatWasSent
  <2>1. SUFFICES ASSUME WireInv, reader = "committed" \/ told = "ok" PROVE CommitsWhatWasSent
    BY DEF CommitsWhatWasSent
  <2>2. reader = "committed" /\ Standing(reader, request, cut, rest, left, copied)
    BY <2>1 DEF WireInv
  <2>3. CommittedOK(request, rest, copied)
    BY <2>2 DEF Standing
  <2> QED
    BY <2>2, <2>3 DEF CommittedOK, CommitsWhatWasSent
<1> QED
  BY <1>1, <1>2, WireInvAlways, PTL

(***************************************************************************)
(* And a request that arrives whole, with lengths that can be said, is     *)
(* neither refused nor waited for.                                         *)
(* (ChunkWriter and ChunkReader, write_ and copy_u32_prefixed)             *)
(***************************************************************************)
THEOREM WholeRequestIsServed == LongBodies = FALSE => (WireSpec => []WholeIsServed)
<1>1. SUFFICES ASSUME LongBodies = FALSE PROVE WireSpec => []WholeIsServed
  OBVIOUS
<1>2. WireInv => WholeIsServed
  <2>1. SUFFICES ASSUME WireInv, reader = "refused" \/ (Starved /\ ~cut) PROVE WholeIsServed
    BY DEF WholeIsServed
  <2>2. CASE reader = "refused"
    <3>1. RefusedOK(request, cut)
      BY <2>1, <2>2 DEF WireInv, Standing
    <3> QED
      BY <3>1 DEF RefusedOK, WholeIsServed
  <2>3. CASE Starved /\ ~cut
    <3>1. RefusedOK(request, cut)
      BY <2>1, <2>3, StarvedIsRefused
    <3> QED
      BY <3>1 DEF RefusedOK, WholeIsServed
  <2> QED
    BY <2>1, <2>2, <2>3
<1> QED
  BY <1>1, <1>2, WireInvAlways, PTL

\* Types: the lengths that are on the wire, and those read from it, can be said.
LEMMA WireTypeStep ==
  ASSUME WireTypeOK, rest \in Seq(Atoms), [WireNext]_wireVars
  PROVE  WireTypeOK' /\ rest' \in Seq(Atoms)
<1>1. /\ request \in Fulls \cup Deltas /\ cut \in BOOLEAN /\ told \in {"none", "ok", "error"}
      /\ reader \in Readers \cup {"refused", "committed"} /\ left \in 0..(LenMod - 1)
  BY DEF WireTypeOK
<1>2. ASSUME UNCHANGED <<request, cut>>, rest' \in Seq(Atoms), reader' \in Readers \cup {"refused", "committed"},
             left' \in 0..(LenMod - 1), told' \in {"none", "ok", "error"}
      PROVE  WireTypeOK' /\ rest' \in Seq(Atoms)
  BY <1>1, <1>2 DEF WireTypeOK
<1>3. rest # <<>> => rest[1] \in Atoms /\ Tail(rest) \in Seq(Atoms)
  OBVIOUS
<1>4. LenMod \in Nat /\ LenMod > 1
  BY WireAssumption
<1>5. \A r \in DOMAIN After : After[r] \in Readers
  BY DEF After, Readers
<1>6. ASSUME Refuse PROVE WireTypeOK' /\ rest' \in Seq(Atoms)
  BY <1>1, <1>2, <1>6 DEF Refuse
<1>7. CASE ReadCut
  BY <1>6, <1>7 DEF ReadCut
<1>8. CASE ReadHeader /\ ~Refuse
  <2>1. rest # <<>> /\ reader' = After[reader] /\ rest' = Tail(rest) /\ UNCHANGED <<request, cut, left, told>>
    BY <1>8 DEF ReadHeader
  <2>2. reader \in DOMAIN After
    BY <1>8 DEF ReadHeader, After
  <2> QED
    BY <1>1, <1>2, <1>3, <1>5, <2>1, <2>2
<1>9. CASE ReadLength
  <2>1. /\ rest # <<>> /\ left' \in ReadAs(rest[1]) /\ rest' = Tail(rest) /\ UNCHANGED <<request, cut, told>>
        /\ reader \in {"chunk", "ulen", "dlen"}
    BY <1>9 DEF ReadLength
  <2>2. left' \in 0..(LenMod - 1)
    BY <1>3, <1>4, <2>1 DEF ReadAs, Atoms
  <2>3. reader' \in Readers \cup {"refused", "committed"}
    <3>1. reader # "chunk" => After[reader] \in Readers
      BY <1>5, <2>1 DEF After
    <3>2. "frame" \in Readers
      BY DEF Readers
    <3> QED
      BY <1>9, <3>1, <3>2 DEF ReadLength
  <2> QED
    BY <1>1, <1>2, <1>3, <2>1, <2>2, <2>3
<1>10. CASE ReadBytes
  <2>1. left > 0 /\ rest # <<>> /\ left' = left - 1 /\ rest' = Tail(rest) /\ UNCHANGED <<request, cut, reader, told>>
    BY <1>10 DEF ReadBytes
  <2>2. left - 1 \in 0..(LenMod - 1)
    BY <1>1, <1>4, <2>1
  <2> QED
    BY <1>1, <1>2, <1>3, <2>1, <2>2
<1>11. CASE EndOfBytes /\ ~Refuse
  <2>1. /\ Mid /\ reader' = (IF reader = "deletes" THEN "committed" ELSE After[reader])
        /\ UNCHANGED <<request, cut, rest, left, told>>
    BY <1>11 DEF EndOfBytes
  <2>2. reader # "deletes" => After[reader] \in Readers
    BY <1>5, <2>1 DEF Mid, After
  <2> QED
    BY <1>1, <1>2, <2>1, <2>2
<1>12. CASE Answer
  BY <1>1, <1>2, <1>12 DEF Answer
<1>13. CASE UNCHANGED wireVars
  BY <1>1, <1>2, <1>13 DEF wireVars
<1> QED
  BY <1>6, <1>7, <1>8, <1>9, <1>10, <1>11, <1>12, <1>13 DEF WireNext

LEMMA WireTypeCorrect == WireSpec => []WireTypeOK
<1>1. WireInit => WireTypeOK /\ rest \in Seq(Atoms)
  <2> SUFFICES ASSUME WireInit PROVE WireTypeOK /\ rest \in Seq(Atoms)
    OBVIOUS
  <2>1. PICK k \in 0..Len(Stream(request)) :
          rest = SubSeq(Stream(request), 1, k) /\ cut = (k < Len(Stream(request)))
    BY DEF WireInit
  <2>2. Stream(request) \in Seq(Atoms)
    BY RequestIs DEF WireInit
  <2>3. rest \in Seq(Atoms)
    <3>1. \A x \in 1..k : x \in 1..Len(Stream(request))
      BY <2>2
    <3> QED
      BY <2>1, <2>2, <3>1
  <2>4. 0 \in 0..(LenMod - 1)
    BY WireAssumption
  <2> QED
    BY <2>1, <2>3, <2>4 DEF WireInit, WireTypeOK, Readers
<1>2. WireTypeOK /\ rest \in Seq(Atoms) /\ [WireNext]_wireVars => (WireTypeOK /\ rest \in Seq(Atoms))'
  BY WireTypeStep
<1> QED
  BY <1>1, <1>2, PTL DEF WireSpec

-----------------------------------------------------------------------------
(***************************************************************************)
(* The migration (Migrate), for lists of any length and any number of      *)
(* failures and runs.                                                      *)
(***************************************************************************)
AtTables == step \in {"drop", "create", "copy"}

\* The tables on which a failure of this run has left its mark.
Hit == {t \in AllTables : cause[t] \in {"fault", "session"}}

\* A session that is broken while there are tables to do has cost one failure more.
Debt == IF AtTables /\ session = "broken" THEN 1 ELSE 0

FailuresCounted == Cardinality(Hit) + Debt <= mishaps

\* A run that drops first and that nothing has gone wrong in.
CleanRun == dropFirst /\ mishaps = 0

Behind ==
  /\ job \in 1..(Len(MigTables) + 1)
  /\ step \in {"off", "database", "connect"} => job = 1
  /\ step = "copy" => job <= Len(MigTables)
  /\ CleanRun /\ AtTables =>
       /\ session = "good"
       /\ \A j \in 1..(job - 1) : relation[MigTables[j]] = "whole"
       /\ step = "create" => job <= Len(MigTables) /\ relation[Table] = "none"
  /\ CleanRun /\ step = "off" /\ runs > 0 => \A t \in AllTables : relation[t] = "whole"

LEMMA ListFacts ==
  /\ Len(MigTables) \in Nat
  /\ DOMAIN MigTables = 1..Len(MigTables)
  /\ \A j \in 1..Len(MigTables) : MigTables[j] \in AllTables
  /\ \A j, k \in 1..Len(MigTables) : MigTables[j] = MigTables[k] => j = k
  /\ \A t \in AllTables : \E j \in 1..Len(MigTables) : t = MigTables[j]
  /\ IsFiniteSet(AllTables)
<1>1. MigTables \in Seq(AllTables)
  BY MigrateAssumption DEF AllTables
<1>2. Len(MigTables) \in Nat /\ DOMAIN MigTables = 1..Len(MigTables)
  BY <1>1
<1>3. IsFiniteSet(AllTables)
  <2>1. IsFiniteSet(1..Len(MigTables))
    BY <1>2, FS_Interval
  <2> DEFINE f == [j \in 1..Len(MigTables) |-> MigTables[j]]
  <2>2. f \in Surjection(1..Len(MigTables), AllTables)
    BY <1>2 DEF AllTables, Surjection
  <2> HIDE DEF f
  <2> QED
    BY <2>1, <2>2, FS_Surjection
<1> QED
  BY <1>2, <1>3, MigrateAssumption DEF AllTables

LEMMA MigTypeInit == MigInit => MigTypeOK
<1> SUFFICES ASSUME MigInit PROVE MigTypeOK
  OBVIOUS
<1>1. 1 \in 1..(Len(MigTables) + 1) /\ 0 \in 0..MaxMigFaults /\ 0 \in 0..MaxMigRuns
  BY ListFacts, MigrateAssumption
<1> QED
  BY <1>1 DEF MigInit, MigTypeOK

LEMMA ReconnectFacts ==
  ASSUME NEW old \in {"good", "broken"}, NEW m \in 0..MaxMigFaults, Reconnect(old, m)
  PROVE  /\ session' \in {"good", "broken"} /\ mishaps' \in 0..MaxMigFaults
         /\ mishaps' = m \/ mishaps' = m + 1
         /\ session' = "broken" => mishaps' = m + 1
BY MigrateAssumption DEF Reconnect

LEMMA MigTypeStep == MigTypeOK /\ Behind /\ [MigNext]_migVars => MigTypeOK'
<1> SUFFICES ASSUME MigTypeOK, Behind, [MigNext]_migVars PROVE MigTypeOK'
  OBVIOUS
<1> USE DEF MigTypeOK
<1>1. job \in 1..(Len(MigTables) + 1)
  BY DEF Behind
<1>2. ASSUME NEW b \in BOOLEAN, StartMigrate(b) PROVE MigTypeOK'
  BY <1>2, ListFacts, MigrateAssumption DEF StartMigrate
<1>3. CASE EnsureDatabase
  BY <1>3 DEF EnsureDatabase
<1>4. CASE Connect
  BY <1>4 DEF Connect, FirstStep
<1>5. CASE RunFails
  BY <1>5, MigrateAssumption DEF RunFails, Mishap
<1>6. CASE DropOld
  BY <1>6 DEF DropOld
<1>7. CASE CreateNew
  BY <1>7 DEF CreateNew
<1>8. CASE CopyAll
  BY <1>8, ListFacts DEF CopyAll, Reported, At, FirstStep, Table
<1> DEFINE Failing == job <= Len(MigTables) /\ \E why \in {"exists", "fault", "session"} : Failed(why)
<1>9. ASSUME Failing, session' \in {"good", "broken"}, mishaps' \in 0..MaxMigFaults
      PROVE  MigTypeOK'
  BY <1>9, ListFacts DEF Failed, Reported, FirstStep, Table
<1>10. CASE TableExists
  <2>1. mishaps \in 0..MaxMigFaults /\ Reconnect("good", mishaps)
    BY <1>10 DEF TableExists
  <2>2. session' \in {"good", "broken"} /\ mishaps' \in 0..MaxMigFaults
    BY <2>1, ReconnectFacts
  <2> QED
    BY <1>9, <1>10, <2>2 DEF TableExists, At
<1>11. ASSUME NEW b \in BOOLEAN, StepFails(b) PROVE MigTypeOK'
  <2> DEFINE old == IF b THEN "broken" ELSE "good"
  <2>1. mishaps + 1 \in 0..MaxMigFaults /\ old \in {"good", "broken"} /\ Reconnect(old, mishaps + 1)
    BY <1>11, MigrateAssumption DEF StepFails
  <2>2. session' \in {"good", "broken"} /\ mishaps' \in 0..MaxMigFaults
    BY <2>1, ReconnectFacts
  <2> QED
    BY <1>9, <1>11, <2>2 DEF StepFails
<1>12. CASE SessionGone
  <2>1. mishaps \in 0..MaxMigFaults /\ Reconnect("broken", mishaps)
    BY <1>12 DEF SessionGone
  <2>2. session' \in {"good", "broken"} /\ mishaps' \in 0..MaxMigFaults
    BY <2>1, ReconnectFacts
  <2> QED
    BY <1>9, <1>12, <2>2 DEF SessionGone
<1>13. CASE EndRun
  BY <1>13, ListFacts DEF EndRun
<1>14. CASE UNCHANGED migVars
  BY <1>14 DEF migVars
<1> QED
  BY <1>2, <1>3, <1>4, <1>5, <1>6, <1>7, <1>8, <1>10, <1>11, <1>12, <1>13, <1>14 DEF MigNext

-----------------------------------------------------------------------------
(***************************************************************************)
(* Failures.                                                               *)
(***************************************************************************)
LEMMA HitIsFinite ==
  /\ IsFiniteSet(Hit)
  /\ Cardinality(Hit) \in Nat
  /\ \A t \in AllTables : Cardinality(Hit \cup {t}) <= Cardinality(Hit) + 1
<1>1. IsFiniteSet(Hit)
  BY ListFacts, FS_Subset DEF Hit
<1>2. Cardinality(Hit) \in Nat
  BY <1>1, FS_CardinalityType
<1>3. ASSUME NEW t \in AllTables PROVE Cardinality(Hit \cup {t}) <= Cardinality(Hit) + 1
  <2>1. Cardinality(Hit \cup {t}) = IF t \in Hit THEN Cardinality(Hit) ELSE Cardinality(Hit) + 1
    BY <1>1, FS_AddElement
  <2> QED
    BY <1>2, <2>1
<1> QED
  BY <1>1, <1>2, <1>3

\* Another table fails: one more is hit, and a session that stays broken is paid for.
LEMMA FailureIsCounted ==
  ASSUME MigTypeOK, job \in 1..Len(MigTables),
         NEW why \in {"exists", "fault", "session"}, Failed(why),
         NEW old \in {"good", "broken"}, NEW m \in 0..MaxMigFaults, Reconnect(old, m),
         Cardinality(Hit) + (IF why = "exists" THEN 0 ELSE 1) <= m
  PROVE  FailuresCounted'
<1>1. Table \in AllTables
  BY ListFacts DEF Table
<1>2. cause' = [cause EXCEPT ![Table] = why] /\ cause \in [AllTables -> {"-", "exists", "fault", "session"}]
  BY DEF Failed, MigTypeOK
<1>3. Hit' \subseteq Hit \cup (IF why = "exists" THEN {} ELSE {Table})
  BY <1>1, <1>2 DEF Hit
<1>4. IsFiniteSet(Hit) /\ IsFiniteSet(Hit \cup {Table}) /\ Cardinality(Hit) \in Nat
      /\ Cardinality(Hit \cup {Table}) <= Cardinality(Hit) + 1
  BY <1>1, HitIsFinite, FS_AddElement
<1>5. Cardinality(Hit') \in Nat /\ Cardinality(Hit') <= m
  <2>1. CASE why = "exists"
    <3>1. Hit' \subseteq Hit
      BY <1>3, <2>1
    <3> QED
      BY <1>4, <2>1, <3>1, FS_Subset, FS_CardinalityType
  <2>2. CASE why # "exists"
    <3>1. Hit' \subseteq Hit \cup {Table}
      BY <1>3, <2>2
    <3>2. Cardinality(Hit') \in Nat /\ Cardinality(Hit') <= Cardinality(Hit \cup {Table})
          /\ Cardinality(Hit \cup {Table}) \in Nat
      BY <1>4, <3>1, FS_Subset, FS_CardinalityType
    <3> QED
      BY <1>4, <2>2, <3>2
  <2> QED
    BY <2>1, <2>2
<1>6. /\ mishaps' = m \/ mishaps' = m + 1
      /\ session' = "broken" => mishaps' = m + 1
  BY ReconnectFacts
<1>7. Cardinality(Hit)' = Cardinality(Hit')
  OBVIOUS
<1> QED
  BY <1>5, <1>6, <1>7 DEF FailuresCounted, Debt

LEMMA CountStep == MigTypeOK /\ Behind /\ FailuresCounted /\ [MigNext]_migVars => FailuresCounted'
<1> SUFFICES ASSUME MigTypeOK, Behind, FailuresCounted, [MigNext]_migVars
             PROVE  FailuresCounted'
  OBVIOUS
<1>1. Cardinality(Hit) \in Nat /\ mishaps \in 0..MaxMigFaults /\ Cardinality(Hit) + Debt <= mishaps
  BY HitIsFinite DEF MigTypeOK, FailuresCounted
<1>2. ASSUME cause' = cause, mishaps' \in {mishaps, mishaps + 1}, Debt' <= Debt, Debt' \in {0, 1}
      PROVE  FailuresCounted'
  <2>1. Hit' = Hit
    BY <1>2 DEF Hit
  <2>2. Debt \in {0, 1}
    BY DEF Debt
  <2> QED
    BY <1>1, <1>2, <2>1, <2>2 DEF FailuresCounted
<1>3. ASSUME NEW b \in BOOLEAN, StartMigrate(b) PROVE FailuresCounted'
  <2>1. Hit' = {}
    BY <1>3 DEF StartMigrate, Hit
  <2>2. Debt' = 0 /\ mishaps' = 0
    BY <1>3 DEF StartMigrate, Debt, AtTables
  <2> QED
    BY <2>1, <2>2, FS_EmptySet DEF FailuresCounted
<1>4. CASE EnsureDatabase
  BY <1>2, <1>4 DEF EnsureDatabase, Debt, AtTables
<1>5. CASE Connect
  BY <1>2, <1>5 DEF Connect, Debt, AtTables
<1>6. CASE RunFails
  BY <1>2, <1>6 DEF RunFails, Mishap, Debt, AtTables
<1>7. CASE DropOld \/ CreateNew
  BY <1>2, <1>7 DEF DropOld, CreateNew, At, Debt, AtTables
<1>8. CASE CopyAll
  BY <1>2, <1>8 DEF CopyAll, At, Debt, AtTables, Reported
<1>9. job <= Len(MigTables) => job \in 1..Len(MigTables)
  BY ListFacts DEF Behind
<1>10. CASE TableExists
  <2>1. Cardinality(Hit) <= mishaps
    BY <1>1, HitIsFinite DEF Debt
  <2> QED
    BY <1>1, <1>9, <1>10, <2>1, FailureIsCounted DEF TableExists, At
<1>11. ASSUME NEW b \in BOOLEAN, StepFails(b) PROVE FailuresCounted'
  <2> DEFINE old == IF b THEN "broken" ELSE "good"
  <2>1. /\ mishaps + 1 \in 0..MaxMigFaults /\ old \in {"good", "broken"}
        /\ Reconnect(old, mishaps + 1) /\ Failed("fault") /\ job <= Len(MigTables)
    BY <1>1, <1>11, MigrateAssumption DEF StepFails
  <2>2. Cardinality(Hit) + 1 <= mishaps + 1
    BY <1>1, HitIsFinite DEF Debt
  <2> HIDE DEF old
  <2> QED
    BY <1>9, <2>1, <2>2, FailureIsCounted
<1>12. CASE SessionGone
  <2>1. /\ Reconnect("broken", mishaps) /\ Failed("session") /\ job <= Len(MigTables)
        /\ Debt = 1
    BY <1>12 DEF SessionGone, Debt, AtTables
  <2>2. Cardinality(Hit) + 1 <= mishaps
    BY <1>1, <2>1
  <2> QED
    BY <1>1, <1>9, <2>1, <2>2, FailureIsCounted
<1>13. CASE EndRun
  BY <1>2, <1>13 DEF EndRun, Debt, AtTables
<1>14. CASE UNCHANGED migVars
  BY <1>2, <1>14 DEF migVars, Debt, AtTables
<1> QED
  BY <1>3, <1>4, <1>5, <1>6, <1>7, <1>8, <1>10, <1>11, <1>12, <1>13, <1>14 DEF MigNext

-----------------------------------------------------------------------------
(***************************************************************************)
(* Runs in which nothing goes wrong.                                       *)
(***************************************************************************)
LEMMA BehindStep == MigTypeOK /\ Behind /\ [MigNext]_migVars => Behind'
<1> SUFFICES ASSUME MigTypeOK, Behind, [MigNext]_migVars PROVE Behind'
  OBVIOUS
<1>1. /\ job \in 1..(Len(MigTables) + 1) /\ Len(MigTables) \in Nat
      /\ relation \in [AllTables -> {"none", "empty", "whole"}]
      /\ mishaps \in Nat /\ dropFirst \in BOOLEAN /\ runs \in Nat
  BY ListFacts, MigrateAssumption DEF MigTypeOK, Behind
<1>2. /\ \A j \in 1..Len(MigTables) : MigTables[j] \in AllTables
      /\ \A j, k \in 1..Len(MigTables) : MigTables[j] = MigTables[k] => j = k
  BY ListFacts
<1>3. ASSUME NEW b \in BOOLEAN, StartMigrate(b) PROVE Behind'
  BY <1>1, <1>3 DEF StartMigrate, Behind, AtTables
<1>4. CASE EnsureDatabase
  BY <1>1, <1>4 DEF EnsureDatabase, Behind, AtTables
<1>5. CASE Connect
  BY <1>1, <1>5 DEF Connect, Behind, AtTables, FirstStep, CleanRun
<1>6. CASE RunFails
  BY <1>1, <1>6 DEF RunFails, Mishap, Behind, AtTables, CleanRun
<1>7. CASE DropOld
  <2>1. job \in 1..Len(MigTables)
    BY <1>1, <1>7 DEF DropOld, At
  <2>2. Table \in AllTables /\ \A j \in 1..(job - 1) : MigTables[j] # Table
    BY <1>1, <1>2, <2>1 DEF Table
  <2>3. relation'[Table] = "none" /\ \A j \in 1..(job - 1) : relation'[MigTables[j]] = relation[MigTables[j]]
    BY <1>1, <1>7, <2>2 DEF DropOld
  <2> QED
    BY <1>1, <1>7, <2>1, <2>3 DEF DropOld, At, Behind, AtTables, CleanRun, Table
<1>8. CASE CreateNew
  <2>1. job \in 1..Len(MigTables)
    BY <1>1, <1>8 DEF CreateNew, At
  <2>2. Table \in AllTables /\ \A j \in 1..(job - 1) : MigTables[j] # Table
    BY <1>1, <1>2, <2>1 DEF Table
  <2>3. \A j \in 1..(job - 1) : relation'[MigTables[j]] = relation[MigTables[j]]
    BY <1>1, <1>8, <2>2 DEF CreateNew
  <2> QED
    BY <1>1, <1>8, <2>1, <2>3 DEF CreateNew, At, Behind, AtTables, CleanRun
<1>9. CASE CopyAll
  <2>1. job \in 1..Len(MigTables)
    BY <1>1, <1>9 DEF CopyAll, At
  <2>2. \A j \in 1..job : relation[MigTables[j]] = "whole" \/ j = job => relation'[MigTables[j]] = "whole"
    BY <1>1, <1>2, <1>9, <2>1 DEF CopyAll, Table
  <2>3. \A j \in 1..(job' - 1) : j \in 1..(job - 1) \/ j = job
    BY <1>1, <1>9 DEF CopyAll, Reported
  <2> QED
    BY <1>1, <1>9, <2>1, <2>2, <2>3 DEF CopyAll, Reported, At, Behind, AtTables, CleanRun, FirstStep
<1> DEFINE Fails == \E why \in {"exists", "fault", "session"} : Failed(why)
<1>10. ASSUME job <= Len(MigTables), Fails, ~CleanRun' PROVE Behind'
  BY <1>1, <1>10 DEF Failed, Reported, FirstStep, Behind, AtTables
<1>11. CASE TableExists
  <2>1. ~CleanRun
    BY <1>11 DEF TableExists, At, Behind, AtTables
  <2>2. mishaps' # 0 \/ mishaps' = mishaps
    BY <1>1, <1>11 DEF TableExists, Reconnect
  <2>3. dropFirst' = dropFirst
    BY <1>11 DEF TableExists, Failed, Reported
  <2> QED
    BY <1>10, <1>11, <2>1, <2>2, <2>3 DEF TableExists, At, CleanRun
<1>12. ASSUME NEW b \in BOOLEAN, StepFails(b) PROVE Behind'
  <2>1. mishaps' # 0
    BY <1>1, <1>12 DEF StepFails, Reconnect
  <2> QED
    BY <1>10, <1>12, <2>1 DEF StepFails, CleanRun
<1>13. CASE SessionGone
  <2>1. ~CleanRun
    BY <1>13 DEF SessionGone, Behind, AtTables
  <2>2. mishaps' # 0 \/ mishaps' = mishaps
    BY <1>1, <1>13 DEF SessionGone, Reconnect
  <2>3. dropFirst' = dropFirst
    BY <1>13 DEF SessionGone, Failed, Reported
  <2> QED
    BY <1>10, <1>13, <2>1, <2>2, <2>3 DEF SessionGone, CleanRun
<1>14. CASE EndRun
  <2>1. job = Len(MigTables) + 1
    BY <1>1, <1>14 DEF EndRun
  <2>2. CleanRun => \A t \in AllTables : relation[t] = "whole"
    BY <1>1, <1>14, <2>1, ListFacts DEF EndRun, Behind, AtTables
  <2> QED
    BY <1>1, <1>14, <2>2 DEF EndRun, Behind, AtTables, CleanRun
<1>15. CASE UNCHANGED migVars
  BY <1>1, <1>15 DEF migVars, Behind, AtTables, CleanRun, Table
<1> QED
  BY <1>3, <1>4, <1>5, <1>6, <1>7, <1>8, <1>9, <1>11, <1>12, <1>13, <1>14, <1>15 DEF MigNext

-----------------------------------------------------------------------------
MigInv == MigTypeOK /\ FailuresCounted /\ Behind

LEMMA MigInvHolds == MigSpec => []MigInv
<1>1. MigInit => MigInv
  <2> SUFFICES ASSUME MigInit PROVE MigInv
    OBVIOUS
  <2>1. Hit = {} /\ Debt = 0 /\ mishaps = 0
    BY DEF MigInit, Hit, Debt, AtTables
  <2>2. FailuresCounted
    BY <2>1, FS_EmptySet DEF FailuresCounted
  <2>3. Behind
    BY ListFacts DEF MigInit, Behind, AtTables, CleanRun
  <2> QED
    BY <2>2, <2>3, MigTypeInit DEF MigInv
<1>2. MigInv /\ [MigNext]_migVars => MigInv'
  BY MigTypeStep, CountStep, BehindStep DEF MigInv
<1> QED
  BY <1>1, <1>2, PTL DEF MigSpec

(***************************************************************************)
(* No failure takes a second table with it: the tables that fail, other    *)
(* than because they exist already, are no more than the failures, of      *)
(* reconnections included.  (run_table_list)                               *)
(***************************************************************************)
THEOREM FailuresStayApart == MigSpec => []OneFailureEach
<1>1. MigInv => OneFailureEach
  <2> SUFFICES ASSUME MigInv PROVE OneFailureEach
    OBVIOUS
  <2>1. Cardinality(Hit) + Debt <= mishaps /\ Cardinality(Hit) \in Nat /\ mishaps \in Nat
    BY HitIsFinite, MigrateAssumption DEF MigInv, FailuresCounted, MigTypeOK
  <2>2. Cardinality(Hit) <= mishaps
    BY <2>1 DEF Debt
  <2> QED
    BY <2>2 DEF OneFailureEach, Hit
<1> QED
  BY <1>1, MigInvHolds, PTL

(***************************************************************************)
(* A run with --drop that nothing goes wrong in leaves every table whole,  *)
(* whatever it finds.  (migrate_table)                                     *)
(***************************************************************************)
THEOREM DropRunRepairs == MigSpec => []CleanRunRepairs
<1>1. MigInv => CleanRunRepairs
  BY DEF MigInv, Behind, CleanRun, CleanRunRepairs
<1> QED
  BY <1>1, MigInvHolds, PTL

LEMMA MigTypeCorrect == MigSpec => []MigTypeOK
<1>1. MigInv => MigTypeOK
  BY DEF MigInv
<1> QED
  BY <1>1, MigInvHolds, PTL

-----------------------------------------------------------------------------
(***************************************************************************)
(* Fragmented rows (Fragments), for any slots, any number of pieces and any*)
(* number of rewrites: a row is read as one version.                       *)
(***************************************************************************)
Pieces == [ver : Nat, part : Nat, next : Slots0]

\* Where the piece in slot s leads to.
Leads(s) ==
  piece[s].ver > 0 =>
    /\ piece[s].ver \in 1..Len(pieces)
    /\ piece[s].part \in 1..pieces[piece[s].ver]
    /\ piece[s].part = pieces[piece[s].ver] => piece[s].next = 0
    /\ piece[s].part < pieces[piece[s].ver] =>
         /\ piece[s].next \in PieceSlots
         /\ piece[piece[s].next].ver = piece[s].ver
         /\ piece[piece[s].next].part = piece[s].part + 1

ChainsHold ==
  /\ piece \in [Slots0 -> Pieces]
  /\ pieces \in Seq(1..MaxPieces)
  /\ \A s \in Slots0 : piece[s].ver = 0 => piece[s] = Free
  /\ \A s \in Slots0 : Leads(s)
  /\ piece[HeadSlot].ver = Len(pieces)
  /\ Len(pieces) > 0 => piece[HeadSlot].part = 1

\* The pieces that have been read are the first ones of a version ...
IsStart(ver) == \A k \in DOMAIN got : got[k].ver = ver /\ got[k].part = k

\* ... and the slot to read next has the one that follows.
OnTheWay ==
  /\ cur \in PieceSlots
  /\ \E ver \in 1..Len(pieces) :
       /\ IsStart(ver)
       /\ Len(got) < pieces[ver]
       /\ piece[cur].ver = ver /\ piece[cur].part = Len(got) + 1

ReaderHolds ==
  /\ got \in Seq(Pieces)
  /\ reading = "piece" => (cur = HeadSlot /\ got = <<>>) \/ OnTheWay
  /\ ReadsOneVersion

FragInv == ChainsHold /\ ReaderHolds

\* Nothing is collected while it is read, and the guard lets every version through.
QuietCollector == FragEnv = {} /\ MaxPieces <= MaxFragments

LEMMA SlotFacts == HeadSlot \in Slots0 /\ HeadSlot \notin PieceSlots /\ PieceSlots \subseteq Slots0 /\ Free \in Pieces
BY FragmentsAssumption DEF HeadSlot, Slots0, Free, Pieces

LEMMA SeqElements ==
  ASSUME NEW S, NEW q \in Seq(S)
  PROVE  /\ DOMAIN q = 1..Len(q) /\ Len(q) \in Nat
         /\ \A v \in 1..Len(q) : q[v] \in S
OBVIOUS

LEMMA FragInvInit == FragInit => FragInv
<1> SUFFICES ASSUME FragInit PROVE FragInv
  OBVIOUS
<1>1. ChainsHold
  BY SlotFacts DEF FragInit, ChainsHold, Leads, Free
<1>2. ReaderHolds
  BY DEF FragInit, ReaderHolds, ReadsOneVersion
<1> QED
  BY <1>1, <1>2 DEF FragInv

\* What a new version does to the slots.
LEMMA RewriteFacts ==
  ASSUME ChainsHold, NEW n \in 1..MaxPieces, Rewrite(n)
  PROVE  \E to \in [2..n -> PieceSlots], old \in PieceSlots :
           /\ pieces' = Append(pieces, n)
           /\ piece' \in [Slots0 -> Pieces]
           /\ \A k \in 2..n : piece[to[k]] = Free /\ to[k] # old
           /\ piece[old] = Free
           /\ piece'[old] = piece[HeadSlot]
           /\ piece'[HeadSlot] = [ver |-> Len(pieces) + 1, part |-> 1, next |-> IF 1 < n THEN to[2] ELSE 0]
           /\ \A k \in 2..n : piece'[to[k]] = [ver |-> Len(pieces) + 1, part |-> k,
                                               next |-> IF k < n THEN to[k + 1] ELSE 0]
           /\ \A s \in PieceSlots : s # old /\ (\A k \in 2..n : to[k] # s) => piece'[s] = piece[s]
<1> DEFINE ver == Len(pieces) + 1
<1>1. PICK to \in [2..n -> PieceSlots], old \in PieceSlots :
        /\ \A j, k \in DOMAIN to : to[j] = to[k] => j = k
        /\ \A s \in {to[j] : j \in DOMAIN to} \cup {old} : piece[s] = Free
        /\ old \notin {to[j] : j \in DOMAIN to}
        /\ LET next(k) == IF k < n THEN to[k + 1] ELSE 0
               part(k) == [ver |-> ver, part |-> k, next |-> next(k)]
           IN  piece' = [s \in Slots0 |->
                  IF s = HeadSlot THEN part(1)
                  ELSE IF s = old THEN piece[HeadSlot]
                  ELSE IF \E k \in DOMAIN to : to[k] = s THEN part(CHOOSE k \in DOMAIN to : to[k] = s)
                  ELSE piece[s]]
  BY DEF Rewrite
<1>2. pieces' = Append(pieces, n) /\ DOMAIN to = 2..n
  BY DEF Rewrite
<1> DEFINE P(k) == [ver |-> ver, part |-> k, next |-> IF k < n THEN to[k + 1] ELSE 0]
<1>3. piece' = [s \in Slots0 |->
                  IF s = HeadSlot THEN P(1)
                  ELSE IF s = old THEN piece[HeadSlot]
                  ELSE IF \E k \in 2..n : to[k] = s THEN P(CHOOSE k \in 2..n : to[k] = s)
                  ELSE piece[s]]
  BY <1>1, <1>2
<1>4. \A k \in 1..n : P(k) \in Pieces
  <2> SUFFICES ASSUME NEW k \in 1..n PROVE P(k) \in Pieces
    OBVIOUS
  <2>1. (IF k < n THEN to[k + 1] ELSE 0) \in Slots0
    <3>1. CASE k < n
      <4>1. k + 1 \in 2..n
        BY <3>1
      <4> QED
        BY <3>1, <4>1, SlotFacts
    <3>2. CASE ~(k < n)
      BY <3>2 DEF Slots0, HeadSlot
    <3> QED
      BY <3>1, <3>2
  <2>2. ver \in Nat
    BY DEF ChainsHold
  <2> HIDE DEF ver
  <2> QED
    BY <2>1, <2>2 DEF Pieces
<1>5. \A k \in 2..n : (CHOOSE j \in 2..n : to[j] = to[k]) = k
  BY <1>1, <1>2
<1>6. \A k \in 2..n : to[k] # HeadSlot /\ to[k] # old /\ to[k] \in Slots0 /\ piece[to[k]] = Free
  BY <1>1, <1>2, SlotFacts
<1>7. old # HeadSlot /\ old \in Slots0 /\ piece[old] = Free
  BY <1>1, SlotFacts
<1> HIDE DEF P
<1>8. \A s \in Slots0 : (\E k \in 2..n : to[k] = s) => P(CHOOSE k \in 2..n : to[k] = s) \in Pieces
  <2> SUFFICES ASSUME NEW s \in Slots0, NEW k \in 2..n, to[k] = s
               PROVE  P(CHOOSE j \in 2..n : to[j] = s) \in Pieces
    OBVIOUS
  <2>1. (CHOOSE j \in 2..n : to[j] = s) = k /\ k \in 1..n
    BY <1>5
  <2> QED
    BY <1>4, <2>1
<1>9. piece' \in [Slots0 -> Pieces]
  <2>1. P(1) \in Pieces
    BY <1>4
  <2>2. piece \in [Slots0 -> Pieces]
    BY DEF ChainsHold
  <2> QED
    BY <1>3, <1>8, <2>1, <2>2, SlotFacts
<1>10. piece'[HeadSlot] = P(1) /\ piece'[old] = piece[HeadSlot]
  BY <1>3, <1>7, SlotFacts
<1>11. \A k \in 2..n : piece'[to[k]] = P(k)
  BY <1>3, <1>5, <1>6
<1>12. \A s \in PieceSlots : s # old /\ (\A k \in 2..n : to[k] # s) => piece'[s] = piece[s]
  BY <1>3, SlotFacts
<1>13. 1 + 1 = 2
  OBVIOUS
<1>14. piece'[HeadSlot] = [ver |-> Len(pieces) + 1, part |-> 1, next |-> IF 1 < n THEN to[2] ELSE 0]
  BY <1>10, <1>13 DEF P
<1>15. \A k \in 2..n : piece'[to[k]] = [ver |-> Len(pieces) + 1, part |-> k,
                                        next |-> IF k < n THEN to[k + 1] ELSE 0]
  BY <1>11 DEF P
<1>16. \A k \in 2..n : piece[to[k]] = Free /\ to[k] # old
  BY <1>6
<1> HIDE DEF ver
<1> WITNESS to \in [2..n -> PieceSlots], old \in PieceSlots
<1> QED
  BY <1>2, <1>7, <1>9, <1>10, <1>12, <1>14, <1>15, <1>16

LEMMA RewriteStep ==
  ASSUME FragInv, NEW n \in 1..MaxPieces, Rewrite(n)
  PROVE  FragInv'
<1> DEFINE V == Len(pieces) + 1
<1>1. PICK to \in [2..n -> PieceSlots], old \in PieceSlots :
        /\ pieces' = Append(pieces, n)
        /\ piece' \in [Slots0 -> Pieces]
        /\ \A k \in 2..n : piece[to[k]] = Free /\ to[k] # old
        /\ piece[old] = Free
        /\ piece'[old] = piece[HeadSlot]
        /\ piece'[HeadSlot] = [ver |-> V, part |-> 1, next |-> IF 1 < n THEN to[2] ELSE 0]
        /\ \A k \in 2..n : piece'[to[k]] = [ver |-> V, part |-> k,
                                            next |-> IF k < n THEN to[k + 1] ELSE 0]
        /\ \A s \in PieceSlots : s # old /\ (\A k \in 2..n : to[k] # s) => piece'[s] = piece[s]
  BY RewriteFacts DEF FragInv
<1>2. /\ ChainsHold /\ pieces \in Seq(1..MaxPieces) /\ Len(pieces) \in Nat /\ V \in Nat /\ V >= 1
      /\ n \in Nat /\ n >= 1 /\ piece \in [Slots0 -> Pieces]
  BY FragmentsAssumption DEF FragInv, ChainsHold
<1>0. \A k \in 2..n : /\ piece'[to[k]].ver = V
                       /\ piece'[to[k]].part = k
                       /\ piece'[to[k]].next = IF k < n THEN to[k + 1] ELSE 0
  <2> SUFFICES ASSUME NEW k \in 2..n
               PROVE  /\ piece'[to[k]].ver = V
                      /\ piece'[to[k]].part = k
                      /\ piece'[to[k]].next = IF k < n THEN to[k + 1] ELSE 0
    OBVIOUS
  <2>1. piece'[to[k]] = [ver |-> V, part |-> k, next |-> IF k < n THEN to[k + 1] ELSE 0]
    BY <1>1
  <2> HIDE DEF V
  <2> QED
    BY <2>1
<1>3. /\ pieces' \in Seq(1..MaxPieces) /\ Len(pieces') = V /\ pieces'[V] = n
      /\ \A v \in 1..Len(pieces) : pieces'[v] = pieces[v] /\ v \in 1..V /\ pieces[v] \in 1..MaxPieces
  <2>1. pieces' = Append(pieces, n)
    BY <1>1
  <2>2. \A v \in 1..Len(pieces) : pieces[v] \in 1..MaxPieces
    BY <1>2, SeqElements
  <2>3. pieces' \in Seq(1..MaxPieces) /\ Len(pieces') = V /\ pieces'[V] = n
    BY <1>2, <2>1
  <2>4. \A v \in 1..Len(pieces) : pieces'[v] = pieces[v] /\ v \in 1..V
    BY <1>2, <2>1
  <2> QED
    BY <2>2, <2>3, <2>4
<1>4. \A s \in PieceSlots : piece[s].ver > 0 => piece'[s] = piece[s]
  <2> SUFFICES ASSUME NEW s \in PieceSlots, piece[s].ver > 0 PROVE piece'[s] = piece[s]
    OBVIOUS
  <2>1. piece[s] # Free
    BY DEF Free
  <2> QED
    BY <1>1, <2>1
\* What the version in slot s led to, it still leads to, from wherever it stands now.
<1> DEFINE Kept(p) ==
      /\ p.ver \in 1..V
      /\ p.part \in 1..pieces'[p.ver]
      /\ p.part = pieces'[p.ver] => p.next = 0
      /\ p.part < pieces'[p.ver] =>
           p.next \in PieceSlots /\ piece'[p.next].ver = p.ver /\ piece'[p.next].part = p.part + 1
<1>5. ASSUME NEW s \in Slots0, piece[s].ver > 0 PROVE Kept(piece[s])
  <2> DEFINE p == piece[s]
  <2>1. /\ p.ver \in 1..Len(pieces) /\ p.part \in 1..pieces[p.ver]
        /\ p.part = pieces[p.ver] => p.next = 0
        /\ p.part < pieces[p.ver] =>
             p.next \in PieceSlots /\ piece[p.next].ver = p.ver /\ piece[p.next].part = p.part + 1
    BY <1>2, <1>5 DEF ChainsHold, Leads
  <2>2. pieces'[p.ver] = pieces[p.ver] /\ p.ver \in 1..V
    BY <1>3, <2>1
  <2> HIDE DEF p
  <2>3. p.part < pieces[p.ver] => piece'[p.next] = piece[p.next]
    BY <1>4, <2>1
  <2>4. Kept(p)
    BY <2>1, <2>2, <2>3
  <2> QED
    BY <2>4 DEF p
<1>6. Kept(piece'[HeadSlot])
  <2>1. CASE 1 < n
    <3>1. 2 \in 2..n /\ to[2] \in PieceSlots
      BY <1>2, <2>1
    <3>2. piece'[to[2]].ver = V /\ piece'[to[2]].part = 2
      BY <1>0, <3>1
    <3>3. piece'[HeadSlot].ver = V /\ piece'[HeadSlot].part = 1 /\ piece'[HeadSlot].next = to[2]
      BY <1>1, <2>1
    <3> HIDE DEF V
    <3> QED
      BY <1>2, <1>3, <2>1, <3>1, <3>2, <3>3
  <2>2. CASE ~(1 < n)
    <3>1. piece'[HeadSlot].ver = V /\ piece'[HeadSlot].part = 1 /\ piece'[HeadSlot].next = 0
      BY <1>1, <2>2
    <3> QED
      BY <1>2, <1>3, <2>2, <3>1
  <2> QED
    BY <2>1, <2>2
<1>7. ASSUME NEW k \in 2..n PROVE Kept(piece'[to[k]])
  <2>1. CASE k < n
    <3>1. k + 1 \in 2..n /\ to[k + 1] \in PieceSlots
      BY <1>2, <2>1
    <3>2. piece'[to[k + 1]].ver = V /\ piece'[to[k + 1]].part = k + 1
      BY <1>0, <3>1
    <3>3. piece'[to[k]].ver = V /\ piece'[to[k]].part = k /\ piece'[to[k]].next = to[k + 1]
      BY <1>0, <2>1
    <3> HIDE DEF V
    <3> QED
      BY <1>2, <1>3, <2>1, <3>1, <3>2, <3>3
  <2>2. CASE ~(k < n)
    <3>1. piece'[to[k]].ver = V /\ piece'[to[k]].part = k /\ piece'[to[k]].next = 0
      BY <1>0, <2>2
    <3> QED
      BY <1>2, <1>3, <2>2, <3>1
  <2> QED
    BY <2>1, <2>2
<1> HIDE DEF Kept
<1>8. ASSUME NEW s \in Slots0, piece'[s].ver > 0 PROVE Kept(piece'[s])
  <2>1. CASE s = HeadSlot
    BY <1>6, <2>1
  <2>2. CASE s = old
    <3>1. piece'[s] = piece[HeadSlot] /\ HeadSlot \in Slots0
      BY <1>1, <2>2, SlotFacts
    <3> QED
      BY <1>5, <1>8, <3>1
  <2>3. CASE \E k \in 2..n : s = to[k]
    BY <1>7, <2>3
  <2>4. CASE s \in PieceSlots /\ s # old /\ \A k \in 2..n : to[k] # s
    <3>1. piece'[s] = piece[s]
      BY <1>1, <2>4
    <3> QED
      BY <1>5, <1>8, <3>1
  <2> QED
    BY <2>1, <2>2, <2>3, <2>4 DEF Slots0
<1>9. \A s \in Slots0 : Leads(s)'
  <2> SUFFICES ASSUME NEW s \in Slots0, piece'[s].ver > 0 PROVE Leads(s)'
    BY DEF Leads
  <2>1. Kept(piece'[s])
    BY <1>8
  <2> QED
    BY <1>3, <2>1 DEF Leads, Kept
<1>10. ASSUME NEW s \in Slots0, piece'[s].ver = 0 PROVE piece'[s] = Free
  <2>1. CASE s = HeadSlot
    BY <1>1, <1>2, <1>10, <2>1
  <2>2. CASE s = old
    BY <1>1, <1>2, <1>10, <2>2, SlotFacts DEF ChainsHold
  <2>3. CASE \E k \in 2..n : s = to[k]
    BY <1>2, <1>10, <1>0, <2>3
  <2>4. CASE s \in PieceSlots /\ s # old /\ \A k \in 2..n : to[k] # s
    BY <1>1, <1>2, <1>10, <2>4 DEF ChainsHold
  <2> QED
    BY <2>1, <2>2, <2>3, <2>4 DEF Slots0
<1>11. ChainsHold'
  <2>1. piece'[HeadSlot].ver = Len(pieces') /\ piece'[HeadSlot].part = 1
    BY <1>1, <1>3
  <2> QED
    BY <1>1, <1>3, <1>9, <1>10, <2>1 DEF ChainsHold
<1>12. UNCHANGED <<reading, cur, got>>
  BY DEF Rewrite
<1>13. OnTheWay => OnTheWay'
  <2> SUFFICES ASSUME OnTheWay PROVE OnTheWay'
    OBVIOUS
  <2>1. cur \in PieceSlots
    BY DEF OnTheWay
  <2>2. PICK ver \in 1..Len(pieces) :
           IsStart(ver) /\ Len(got) < pieces[ver] /\ piece[cur].ver = ver /\ piece[cur].part = Len(got) + 1
    BY DEF OnTheWay
  <2>3. piece'[cur] = piece[cur] /\ pieces'[ver] = pieces[ver] /\ ver \in 1..Len(pieces')
    BY <1>3, <1>4, <2>1, <2>2
  <2> QED
    BY <1>12, <2>1, <2>2, <2>3 DEF OnTheWay, IsStart
<1>14. ReadsOneVersion'
  <2>1. \A v \in DOMAIN pieces : v \in DOMAIN pieces' /\ pieces'[v] = pieces[v]
    BY <1>2, <1>3
  <2> QED
    BY <1>12, <2>1 DEF FragInv, ReaderHolds, ReadsOneVersion
<1>15. ReaderHolds'
  BY <1>12, <1>13, <1>14 DEF FragInv, ReaderHolds
<1> QED
  BY <1>11, <1>15 DEF FragInv

LEMMA CollectStep ==
  ASSUME FragInv, QuietCollector, NEW ver \in 1..MaxRewrites, CollectOld(ver)
  PROVE  FragInv'
<1>1. /\ ver < Len(pieces) /\ reading # "piece" /\ pieces' = pieces
      /\ piece' = [s \in Slots0 |-> IF piece[s].ver = ver THEN Free ELSE piece[s]]
      /\ UNCHANGED <<reading, cur, got>> /\ ChainsHold /\ ver > 0
  BY DEF CollectOld, QuietCollector, FragInv
<1>2. piece' \in [Slots0 -> Pieces]
  BY <1>1, SlotFacts DEF ChainsHold
<1>3. piece'[HeadSlot] = piece[HeadSlot]
  BY <1>1, SlotFacts DEF ChainsHold
<1>4. ASSUME NEW s \in Slots0 PROVE Leads(s)'
  <2>1. CASE piece[s].ver = ver
    BY <1>1, <2>1 DEF Leads, Free
  <2>2. CASE piece[s].ver # ver
    <3>1. piece'[s] = piece[s]
      BY <1>1, <2>2
    <3>2. Leads(s)
      BY <1>1 DEF ChainsHold
    <3>3. ASSUME piece[s].next \in PieceSlots, piece[piece[s].next].ver = piece[s].ver
          PROVE  piece'[piece[s].next] = piece[piece[s].next]
      BY <1>1, <2>2, <3>3, SlotFacts
    <3> QED
      BY <1>1, <3>1, <3>2, <3>3 DEF Leads
  <2> QED
    BY <2>1, <2>2
<1>5. \A s \in Slots0 : piece'[s].ver = 0 => piece'[s] = Free
  BY <1>1 DEF ChainsHold
<1>6. ChainsHold'
  BY <1>1, <1>2, <1>3, <1>4, <1>5 DEF ChainsHold
<1>7. ReaderHolds'
  BY <1>1 DEF FragInv, ReaderHolds, ReadsOneVersion
<1> QED
  BY <1>6, <1>7 DEF FragInv

LEMMA ReadStep ==
  ASSUME FragInv, QuietCollector, ReadPiece
  PROVE  FragInv'
<1>1. /\ ChainsHold /\ ReaderHolds /\ reading = "piece" /\ UNCHANGED <<piece, pieces>>
      /\ got \in Seq(Pieces) /\ Len(got) \in Nat
  BY DEF ReadPiece, FragInv, ReaderHolds
<1>2. ChainsHold'
  BY <1>1 DEF ChainsHold, Leads
<1>3. CASE piece[cur] = Free \/ Len(got) = MaxFragments
  <2>1. reading' = "none" /\ got' = got
    BY <1>3 DEF ReadPiece
  <2>2. got = <<>>
    <3> SUFFICES ASSUME OnTheWay PROVE FALSE
      BY <1>1 DEF ReaderHolds
    <3>1. PICK ver \in 1..Len(pieces) : Len(got) < pieces[ver] /\ piece[cur].ver = ver
      BY DEF OnTheWay
    <3>2. pieces[ver] \in 1..MaxPieces
      <4>1. pieces \in Seq(1..MaxPieces)
        BY <1>1 DEF ChainsHold
      <4> QED
        BY <3>1, <4>1, SeqElements
    <3> QED
      BY <1>1, <1>3, <3>1, <3>2, FragmentsAssumption DEF QuietCollector, Free
  <2> QED
    BY <1>1, <1>2, <2>1, <2>2 DEF FragInv, ReaderHolds, ReadsOneVersion
<1>4. CASE ~(piece[cur] = Free \/ Len(got) = MaxFragments)
  <2>1. got' = Append(got, piece[cur])
    BY <1>4 DEF ReadPiece
  <2>2. PICK ver \in 1..Len(pieces) :
          IsStart(ver) /\ cur \in Slots0 /\ piece[cur].ver = ver /\ piece[cur].part = Len(got) + 1
    <3>1. CASE cur = HeadSlot /\ got = <<>>
      <4>1. piece[HeadSlot].ver > 0
        BY <1>1, <1>4, <3>1, SlotFacts DEF ChainsHold, Pieces
      <4>2. piece[HeadSlot].ver \in 1..Len(pieces) /\ piece[HeadSlot].part = 1
        BY <1>1, <4>1, SlotFacts DEF ChainsHold, Leads
      <4> QED
        BY <3>1, <4>2, SlotFacts DEF IsStart
    <3>2. CASE OnTheWay
      BY <3>2, SlotFacts DEF OnTheWay
    <3> QED
      BY <1>1, <3>1, <3>2 DEF ReaderHolds
  <2>3. Leads(cur) /\ piece[cur] \in Pieces
    BY <1>1, <2>2 DEF ChainsHold
  <2>8. /\ piece[cur].part \in 1..pieces[ver]
        /\ piece[cur].part = pieces[ver] => piece[cur].next = 0
        /\ piece[cur].part < pieces[ver] =>
             /\ piece[cur].next \in PieceSlots
             /\ piece[piece[cur].next].ver = ver
             /\ piece[piece[cur].next].part = piece[cur].part + 1
    BY <2>2, <2>3 DEF Leads
  <2>9. pieces[ver] \in Nat /\ DOMAIN pieces = 1..Len(pieces)
    <3>1. pieces \in Seq(1..MaxPieces)
      BY <1>1 DEF ChainsHold
    <3>2. pieces[ver] \in 1..MaxPieces /\ DOMAIN pieces = 1..Len(pieces)
      BY <2>2, <3>1, SeqElements
    <3> QED
      BY <3>2
  <2>4. /\ got' \in Seq(Pieces) /\ Len(got') = Len(got) + 1
        /\ DOMAIN got' = 1..(Len(got) + 1) /\ DOMAIN got = 1..Len(got)
        /\ got'[Len(got) + 1] = piece[cur]
        /\ \A k \in 1..Len(got) : got'[k] = got[k]
    BY <1>1, <2>1, <2>3
  <2>5. \A k \in DOMAIN got' : got'[k].ver = ver /\ got'[k].part = k
    BY <1>1, <2>2, <2>4 DEF IsStart
  <2>6. CASE piece[cur].next = 0
    <3>1. reading' = "row"
      BY <1>4, <2>6 DEF ReadPiece
    <3>2. 0 \notin PieceSlots
      BY SlotFacts DEF HeadSlot
    <3>3. Len(got') = pieces[ver]
      <4>1. piece[cur].part = pieces[ver]
        BY <2>6, <2>8, <2>9, <3>2
      <4> QED
        BY <2>2, <2>4, <4>1
    <3>4. ver \in DOMAIN pieces'
      BY <1>1, <2>2, <2>9
    <3> QED
      BY <1>1, <1>2, <2>4, <2>5, <3>1, <3>3, <3>4 DEF FragInv, ReaderHolds, ReadsOneVersion
  <2>7. CASE piece[cur].next # 0
    <3>1. cur' = piece[cur].next /\ reading' = "piece"
      BY <1>1, <1>4, <2>7 DEF ReadPiece
    <3>2. piece[cur].part < pieces[ver]
      BY <2>7, <2>8, <2>9
    <3>3. cur' \in PieceSlots /\ piece[cur'].ver = ver /\ piece[cur'].part = Len(got) + 2
      BY <1>1, <2>2, <2>8, <3>1, <3>2
    <3>4. OnTheWay'
      BY <1>1, <2>2, <2>4, <2>5, <3>2, <3>3 DEF OnTheWay, IsStart
    <3> QED
      BY <1>2, <2>4, <3>1, <3>4 DEF FragInv, ReaderHolds, ReadsOneVersion
  <2> QED
    BY <2>6, <2>7
<1> QED
  BY <1>3, <1>4

(***************************************************************************)
(* A row that is emitted is one version of it with all its pieces in order,*)
(* and a row that exists is emitted, if no version is collected while it   *)
(* is read.  (reassemble_fragments, write_copy_stream)                     *)
(***************************************************************************)
THEOREM RowIsOneVersion == QuietCollector => (FragSpec => []ReadsOneVersion)
<1> SUFFICES ASSUME QuietCollector PROVE FragSpec => []ReadsOneVersion
  OBVIOUS
<1>1. FragInv /\ [FragNext]_fragVars => FragInv'
  <2> SUFFICES ASSUME FragInv, [FragNext]_fragVars PROVE FragInv'
    OBVIOUS
  <2>1. CASE MeetRow
    BY <2>1 DEF MeetRow, FragInv, ChainsHold, Leads, ReaderHolds, ReadsOneVersion
  <2>2. CASE UNCHANGED fragVars
    BY <2>2 DEF fragVars, FragInv, ChainsHold, Leads, ReaderHolds, OnTheWay, IsStart, ReadsOneVersion
  <2> QED
    BY <2>1, <2>2, RewriteStep, CollectStep, ReadStep DEF FragNext
<1>2. FragInv => ReadsOneVersion
  BY DEF FragInv, ReaderHolds
<1> QED
  BY <1>1, <1>2, FragInvInit, PTL DEF FragSpec

\* Types, whatever is collected when: the pieces a version may have, and no more
\* of them read than the guard lets through.
TypedPieces(len) == [ver : 0..len, part : 0..MaxPieces, next : Slots0]

LEMMA RewriteTypes ==
  ASSUME FragTypeOK, NEW n \in 1..MaxPieces, Rewrite(n)
  PROVE  FragTypeOK'
<1> DEFINE ver == Len(pieces) + 1
<1>1. /\ pieces \in Seq(1..MaxPieces) /\ Len(pieces) \in Nat /\ MaxPieces \in Nat /\ MaxRewrites \in Nat
      /\ piece \in [Slots0 -> TypedPieces(Len(pieces))]
  BY FragmentsAssumption DEF FragTypeOK, TypedPieces
<1>2. pieces' = Append(pieces, n) /\ ver <= MaxRewrites /\ UNCHANGED <<reading, cur, got>>
  BY DEF Rewrite
<1>3. pieces' \in Seq(1..MaxPieces) /\ Len(pieces') = ver
  BY <1>1, <1>2
<1>4. PICK to \in [2..n -> PieceSlots], old \in PieceSlots :
        LET next(k) == IF k < n THEN to[k + 1] ELSE 0
            part(k) == [ver |-> ver, part |-> k, next |-> next(k)]
        IN  piece' = [s \in Slots0 |->
               IF s = HeadSlot THEN part(1)
               ELSE IF s = old THEN piece[HeadSlot]
               ELSE IF \E k \in DOMAIN to : to[k] = s THEN part(CHOOSE k \in DOMAIN to : to[k] = s)
               ELSE piece[s]]
  BY DEF Rewrite
<1> DEFINE next(k) == IF k < n THEN to[k + 1] ELSE 0
           part(k) == [ver |-> ver, part |-> k, next |-> next(k)]
<1>5. ASSUME NEW k \in 1..n PROVE part(k) \in TypedPieces(ver)
  <2>1. next(k) \in Slots0
    <3>1. CASE k < n
      <4>1. k + 1 \in 2..n
        BY <1>1, <3>1
      <4> QED
        BY <3>1, <4>1, SlotFacts
    <3>2. CASE ~(k < n)
      BY <3>2, SlotFacts DEF HeadSlot
    <3> QED
      BY <3>1, <3>2
  <2>2. ver \in 0..ver /\ k \in 0..MaxPieces
    BY <1>1
  <2> HIDE DEF ver, next
  <2> QED
    BY <2>1, <2>2 DEF TypedPieces
<1>6. TypedPieces(Len(pieces)) \subseteq TypedPieces(ver)
  <2>1. 0..Len(pieces) \subseteq 0..ver
    BY <1>1
  <2> HIDE DEF ver
  <2> QED
    BY <2>1 DEF TypedPieces
<1>7. \A s \in Slots0 : piece[s] \in TypedPieces(ver)
  BY <1>1, <1>6
<1>8. piece' \in [Slots0 -> TypedPieces(ver)]
  <2> SUFFICES ASSUME NEW s \in Slots0
               PROVE  (IF s = HeadSlot THEN part(1)
                       ELSE IF s = old THEN piece[HeadSlot]
                       ELSE IF \E k \in DOMAIN to : to[k] = s THEN part(CHOOSE k \in DOMAIN to : to[k] = s)
                       ELSE piece[s]) \in TypedPieces(ver)
    BY <1>4
  <2>1. 1 \in 1..n /\ DOMAIN to = 2..n /\ \A k \in 2..n : k \in 1..n
    BY <1>1
  <2>2. part(1) \in TypedPieces(ver)
    BY <1>5, <2>1
  <2>3. ASSUME \E k \in DOMAIN to : to[k] = s
        PROVE  part(CHOOSE k \in DOMAIN to : to[k] = s) \in TypedPieces(ver)
    <3>1. (CHOOSE k \in DOMAIN to : to[k] = s) \in 1..n
      BY <2>1, <2>3
    <3> HIDE DEF part
    <3> QED
      BY <1>5, <3>1
  <2>4. piece[HeadSlot] \in TypedPieces(ver) /\ piece[s] \in TypedPieces(ver)
    BY <1>7, SlotFacts
  <2> HIDE DEF part, ver
  <2> QED
    BY <2>2, <2>3, <2>4
<1> HIDE DEF ver
<1>9. piece' \in [Slots0 -> [ver : 0..Len(pieces'), part : 0..MaxPieces, next : Slots0]]
  BY <1>3, <1>8 DEF TypedPieces
<1> QED
  BY <1>2, <1>3, <1>9 DEF FragTypeOK

LEMMA FragTypeStep ==
  ASSUME FragTypeOK, got \in Seq(Pieces), [FragNext]_fragVars
  PROVE  FragTypeOK' /\ got' \in Seq(Pieces)
<1>1. /\ pieces \in Seq(1..MaxPieces) /\ Len(pieces) \in Nat /\ Len(got) \in Nat
      /\ piece \in [Slots0 -> TypedPieces(Len(pieces))]
      /\ MaxFragments \in Nat
  BY FragmentsAssumption DEF FragTypeOK, TypedPieces
<1>2. ASSUME NEW n \in 1..MaxPieces, Rewrite(n) PROVE FragTypeOK' /\ got' \in Seq(Pieces)
  <2>1. got' = got
    BY <1>2 DEF Rewrite
  <2> QED
    BY <1>2, <2>1, RewriteTypes
<1>3. ASSUME NEW ver \in 1..MaxRewrites, CollectOld(ver) PROVE FragTypeOK' /\ got' \in Seq(Pieces)
  <2>1. /\ piece' = [s \in Slots0 |-> IF piece[s].ver = ver THEN Free ELSE piece[s]]
        /\ UNCHANGED <<pieces, reading, cur, got>>
    BY <1>3 DEF CollectOld
  <2>2. Free \in TypedPieces(Len(pieces))
    BY <1>1, SlotFacts, FragmentsAssumption DEF Free, TypedPieces, HeadSlot
  <2>3. piece' \in [Slots0 -> TypedPieces(Len(pieces))]
    BY <1>1, <2>1, <2>2
  <2> QED
    BY <2>1, <2>3 DEF FragTypeOK, TypedPieces
<1>4. CASE MeetRow
  BY <1>1, <1>4, SlotFacts DEF MeetRow, FragTypeOK
<1>5. CASE ReadPiece
  <2>1. piece[cur] \in TypedPieces(Len(pieces)) /\ cur \in Slots0 /\ UNCHANGED <<piece, pieces>>
    BY <1>1, <1>5 DEF ReadPiece, FragTypeOK
  <2>2. piece[cur].next \in Slots0 /\ piece[cur] \in Pieces
    BY <1>1, <2>1 DEF TypedPieces, Pieces
  <2>3. CASE piece[cur] = Free \/ Len(got) = MaxFragments
    BY <1>5, <2>1, <2>3 DEF ReadPiece, FragTypeOK
  <2>4. CASE ~(piece[cur] = Free \/ Len(got) = MaxFragments)
    <3>1. got' = Append(got, piece[cur]) /\ cur' \in Slots0 /\ reading' \in {"piece", "row"}
      BY <1>5, <2>1, <2>2, <2>4 DEF ReadPiece
    <3>2. Len(got) <= MaxFragments
      BY DEF FragTypeOK
    <3>3. got' \in Seq(Pieces) /\ Len(got') <= MaxFragments
      BY <1>1, <2>2, <2>4, <3>1, <3>2
    <3> QED
      BY <2>1, <3>1, <3>3 DEF FragTypeOK
  <2> QED
    BY <2>3, <2>4
<1>6. CASE UNCHANGED fragVars
  BY <1>6 DEF fragVars, FragTypeOK
<1> QED
  BY <1>2, <1>3, <1>4, <1>5, <1>6 DEF FragNext

LEMMA FragTypeCorrect == FragSpec => []FragTypeOK
<1>1. FragInit => FragTypeOK /\ got \in Seq(Pieces)
  BY SlotFacts, FragmentsAssumption DEF FragInit, FragTypeOK, Free, HeadSlot
<1>2. FragTypeOK /\ got \in Seq(Pieces) /\ [FragNext]_fragVars => (FragTypeOK /\ got \in Seq(Pieces))'
  BY FragTypeStep
<1> QED
  BY <1>1, <1>2, PTL DEF FragSpec

==============================================================================
