--------------------------- MODULE SnapFile_proofs ---------------------------
(***************************************************************************)
(* Theorems about SnapFile for any tables, pages, key lengths and number of*)
(* saves: a start finds what a save wrote or nothing, never a part of it,  *)
(* unless a part of the file reads as zeroes after a power failure, and    *)
(* the arrays of a cache have the chunk length of the key.                 *)
(***************************************************************************)
EXTENDS SnapFile, Joined

\* What a file is made of.
SnapFields ==
  {<<"FDBS">>} \cup ({"n_tables", "pk_byte_len", "n_pages"} \X Nat) \cup ({"name"} \X SnapTables)
  \cup ({"page"} \X SnapPages \X Nat) \cup ({"keys"} \X Arrays)

\* The order in which the tables, and the pages of a table, are written.
TablesOf(m)   == SetToSeq(DOMAIN m)
PagesOf(m, t) == SetToSeq(DOMAIN m[t].pages)

\* The fields of each table of m, and of each page of t.
ByTable(m)   == [i \in 1..Len(TablesOf(m)) |-> TableFields(m, TablesOf(m)[i])]
ByPage(m, t) == [j \in 1..Len(PagesOf(m, t)) |-> PageFields(m[t].pages, PagesOf(m, t)[j])]

\* Where the file stands behind i tables, and behind j pages of the i-th one.
AfterTables(m, i)   == 2 + Len(Take(ByTable(m), i))
AfterPages(m, i, j) == AfterTables(m, i - 1) + 3 + Len(Take(ByPage(m, TablesOf(m)[i]), j))

\* The tables read by then, and the pages of the last one.
FirstTables(m, i)   == {TablesOf(m)[x] : x \in 1..i}
FirstPages(m, t, j) == {PagesOf(m, t)[x] : x \in 1..j}

\* The reader stands at pos of the file.
ReaderAt(pos) == pos <= Len(snap) /\ fields = SubSeq(snap, pos + 1, Len(snap))

\* It has read i tables.
BetweenTables(i) ==
  /\ i \in 0..Len(TablesOf(saved))
  /\ tablesLeft = Len(TablesOf(saved)) - i
  /\ pagesLeft = 0
  /\ pending = Restrict(saved, FirstTables(saved, i))
  /\ ReaderAt(AfterTables(saved, i))

\* It has read j pages, not the last one, of the i-th table.
BetweenPages(i, j) ==
  LET t == TablesOf(saved)[i]
  IN  /\ i \in 1..Len(TablesOf(saved))
      /\ j \in 0..(Len(PagesOf(saved, t)) - 1)
      /\ tablesLeft = Len(TablesOf(saved)) - i
      /\ pagesLeft = Len(PagesOf(saved, t)) - j
      /\ name = t
      /\ pending = Put(Restrict(saved, FirstTables(saved, i - 1)), t,
                       [len |-> saved[t].len, pages |-> Restrict(saved[t].pages, FirstPages(saved, t, j))])
      /\ ReaderAt(AfterPages(saved, i, j))

\* The file is what was saved, or what a power failure has left of it.
FileInv ==
  /\ saved = Kept(saved)
  /\ snap \in Seq(SnapFields)
  /\ Len(snap) <= Len(FileOf(saved))
  /\ \A x \in 1..Len(snap) : snap[x] = FileOf(saved)[x]
  /\ snap # FileOf(saved) => lost \/ saved = Nothing

\* A save has written a part of the file; a start has read a part of it.
SaveInv == proc = "save" =>
  /\ tmp \in Seq(SnapFields) /\ fields \in Seq(SnapFields)
  /\ tmp \o fields = FileOf(caches)
LoadInv == proc = "load" =>
  \/ \E i \in 0..Len(TablesOf(saved)) : BetweenTables(i)
  \/ \E i \in 1..Len(TablesOf(saved)) :
       \E j \in 0..(Len(PagesOf(saved, TablesOf(saved)[i])) - 1) : BetweenPages(i, j)

\* What is remembered of a table fits the key that it has today.
FitsKeys(m) ==
  \A t \in DOMAIN m :
    /\ m[t].len = keyLength[t]
    /\ \A p \in DOMAIN m[t].pages : m[t].pages[p] # NoKeys => m[t].pages[p].len = keyLength[t]
KeysInv == "retype" \notin SnapEnv => FitsKeys(caches) /\ FitsKeys(pending) /\ FitsKeys(saved)

SnapStateInv ==
  /\ proc \in {"down", "load", "ready", "save"}
  /\ keyLength \in [SnapTables -> KeyLengths]
  /\ scans \in 0..MaxSnapScans
  /\ {caches, pending, saved} \subseteq SnapMaps

SnapInv == SnapStateInv /\ FileInv /\ SaveInv /\ LoadInv /\ KeysInv

\* All that can be said of the file f holds of the one that may come back, too.
IsFile(f) ==
  /\ f.saved \in SnapMaps
  /\ f.saved = Kept(f.saved)
  /\ f.snap \in Seq(SnapFields)
  /\ Len(f.snap) <= Len(FileOf(f.saved))
  /\ \A x \in 1..Len(f.snap) : f.snap[x] = FileOf(f.saved)[x]
  /\ f.snap # FileOf(f.saved) => f.lost \/ f.saved = Nothing
  /\ "retype" \notin SnapEnv => FitsKeys(f.saved)
DurableInv == IsFile(durable)

(***************************************************************************)
(* The maps of a file.                                                     *)
(***************************************************************************)
LEMMA ArrayIs ==
  ASSUME NEW a \in Arrays
  PROVE  a # NoKeys /\ a.len # 0 /\ a.len \in Nat
<1>1. a.len \in KeyLengths \ {0}
  BY DEF Arrays
<1>2. NoKeys.len = 0
  BY DEF NoKeys
<1> QED
  BY <1>1, <1>2, SnapFileAssumption

LEMMA PagesAre ==
  ASSUME NEW ps
  PROVE  ps \in PageMaps <=> /\ DOMAIN ps \in SUBSET SnapPages
                             /\ ps \in [DOMAIN ps -> Arrays \cup {NoKeys}]
BY DEF PageMaps

LEMMA TablesAre ==
  ASSUME NEW m
  PROVE  m \in SnapMaps <=> /\ DOMAIN m \in SUBSET SnapTables
                            /\ m \in [DOMAIN m -> [len : KeyLengths, pages : PageMaps]]
BY DEF SnapMaps

LEMMA EntryIs ==
  ASSUME NEW m \in SnapMaps, NEW t \in DOMAIN m
  PROVE  /\ t \in SnapTables
         /\ m[t] = [len |-> m[t].len, pages |-> m[t].pages]
         /\ m[t].len \in KeyLengths /\ m[t].len \in Nat
         /\ m[t].pages \in PageMaps
         /\ IsFiniteSet(DOMAIN m) /\ IsFiniteSet(DOMAIN m[t].pages)
<1>1. DOMAIN m \in SUBSET SnapTables /\ m[t] \in [len : KeyLengths, pages : PageMaps]
  BY TablesAre
<1>2. m[t].pages \in PageMaps
  BY <1>1
<1>3. DOMAIN m[t].pages \in SUBSET SnapPages
  BY <1>2, PagesAre
<1> QED
  BY <1>1, <1>2, <1>3, FS_Subset, SnapFileAssumption

LEMMA NothingIs == Nothing \in SnapMaps /\ Nothing \in PageMaps
<1>1. DOMAIN Nothing = {} /\ \A S : Nothing \in [{} -> S]
  BY DEF Nothing
<1> QED
  BY <1>1, TablesAre, PagesAre

LEMMA PutPage ==
  ASSUME NEW ps \in PageMaps, NEW p \in SnapPages, NEW a \in Arrays \cup {NoKeys}
  PROVE  Put(ps, p, a) \in PageMaps
<1>1. DOMAIN ps \in SUBSET SnapPages /\ ps \in [DOMAIN ps -> Arrays \cup {NoKeys}]
  BY PagesAre
<1>2. DOMAIN Put(ps, p, a) = DOMAIN ps \cup {p}
  BY DEF Put
<1>3. Put(ps, p, a) \in [DOMAIN ps \cup {p} -> Arrays \cup {NoKeys}]
  BY <1>1 DEF Put
<1> QED
  BY <1>1, <1>2, <1>3, PagesAre

LEMMA PutTable ==
  ASSUME NEW m \in SnapMaps, NEW t \in SnapTables, NEW l \in KeyLengths, NEW ps \in PageMaps
  PROVE  Put(m, t, [len |-> l, pages |-> ps]) \in SnapMaps
<1> DEFINE e == [len |-> l, pages |-> ps]
<1>1. DOMAIN m \in SUBSET SnapTables /\ m \in [DOMAIN m -> [len : KeyLengths, pages : PageMaps]]
  BY TablesAre
<1>2. e \in [len : KeyLengths, pages : PageMaps]
  OBVIOUS
<1> HIDE DEF e
<1>3. DOMAIN Put(m, t, e) = DOMAIN m \cup {t}
  BY DEF Put
<1>4. Put(m, t, e) \in [DOMAIN m \cup {t} -> [len : KeyLengths, pages : PageMaps]]
  BY <1>1, <1>2 DEF Put
<1>5. Put(m, t, e) \in SnapMaps
  BY <1>1, <1>3, <1>4, TablesAre
<1> QED
  BY <1>5 DEF e

LEMMA RestrictTables ==
  ASSUME NEW m \in SnapMaps, NEW T \in SUBSET DOMAIN m
  PROVE  Restrict(m, T) \in SnapMaps
<1>1. DOMAIN m \in SUBSET SnapTables /\ m \in [DOMAIN m -> [len : KeyLengths, pages : PageMaps]]
  BY TablesAre
<1>2. DOMAIN Restrict(m, T) = T /\ Restrict(m, T) \in [T -> [len : KeyLengths, pages : PageMaps]]
  BY <1>1 DEF Restrict
<1> QED
  BY <1>1, <1>2, TablesAre

LEMMA RestrictPages ==
  ASSUME NEW ps \in PageMaps, NEW P \in SUBSET DOMAIN ps
  PROVE  Restrict(ps, P) \in PageMaps
<1>1. DOMAIN ps \in SUBSET SnapPages /\ ps \in [DOMAIN ps -> Arrays \cup {NoKeys}]
  BY PagesAre
<1>2. DOMAIN Restrict(ps, P) = P /\ Restrict(ps, P) \in [P -> Arrays \cup {NoKeys}]
  BY <1>1 DEF Restrict
<1> QED
  BY <1>1, <1>2, PagesAre

\* What is kept is kept again.
LEMMA KeptIs ==
  ASSUME NEW m \in SnapMaps
  PROVE  /\ Kept(m) \in SnapMaps
         /\ DOMAIN Kept(m) \in SUBSET DOMAIN m
         /\ \A t \in DOMAIN Kept(m) : Kept(m)[t] = m[t] /\ DOMAIN m[t].pages # {}
         /\ Kept(Kept(m)) = Kept(m)
<1> DEFINE T == {t \in DOMAIN m : m[t].len > 0 /\ DOMAIN m[t].pages # {}}
           k == Restrict(m, T)
<1>1. Kept(m) = k
  BY DEF Kept
<1>2. k \in SnapMaps
  BY RestrictTables
<1>3. k = [t \in T |-> m[t]]
  BY DEF Restrict
<1>4. {t \in DOMAIN k : k[t].len > 0 /\ DOMAIN k[t].pages # {}} = T
  BY <1>3
<1>5. Restrict(k, T) = k
  BY <1>3 DEF Restrict
<1>6. Kept(k) = k
  BY <1>4, <1>5 DEF Kept
<1> QED
  BY <1>1, <1>2, <1>3, <1>6

LEMMA NothingKept == Kept(Nothing) = Nothing
BY DEF Kept, Nothing, Restrict

(***************************************************************************)
(* What is written of a page, of a table and of all of them.               *)
(***************************************************************************)
LEMMA PageFieldsAre ==
  ASSUME NEW ps \in PageMaps, NEW p \in DOMAIN ps
  PROVE  /\ PageFields(ps, p) \in Seq(SnapFields)
         /\ PageFields(ps, p)[1] = <<"page", p, ps[p].len>>
         /\ IF ps[p] = NoKeys
            THEN Len(PageFields(ps, p)) = 1 /\ ps[p].len = 0
            ELSE Len(PageFields(ps, p)) = 2 /\ ps[p].len # 0 /\ PageFields(ps, p)[2] = <<"keys", ps[p]>>
<1>1. p \in SnapPages /\ ps[p] \in Arrays \cup {NoKeys}
  BY PagesAre
<1>2. NoKeys.len = 0
  BY DEF NoKeys
<1> DEFINE f == <<"page", p, ps[p].len>>
           g == <<"keys", ps[p]>>
<1>3. ps[p].len \in Nat /\ (ps[p] # NoKeys => ps[p] \in Arrays /\ ps[p].len # 0)
  BY <1>1, <1>2, ArrayIs
<1>4. f \in SnapFields
  BY <1>1, <1>3 DEF SnapFields
<1>5. ps[p] # NoKeys => g \in SnapFields
  BY <1>3 DEF SnapFields
<1>6. PageFields(ps, p) = <<f>> \o (IF ps[p] = NoKeys THEN <<>> ELSE <<g>>)
  BY DEF PageFields
<1> HIDE DEF f, g
<1>7. CASE ps[p] = NoKeys
  <2>1. PageFields(ps, p) = <<f>>
    BY <1>6, <1>7
  <2> QED
    BY <1>2, <1>4, <1>7, <2>1 DEF f
<1>8. CASE ps[p] # NoKeys
  <2>1. PageFields(ps, p) = <<f>> \o <<g>>
    BY <1>6, <1>8
  <2>2. PageFields(ps, p) \in Seq(SnapFields) /\ Len(PageFields(ps, p)) = 2
    BY <1>4, <1>5, <1>8, <2>1
  <2>3. PageFields(ps, p)[1] = f /\ PageFields(ps, p)[2] = g
    BY <1>4, <1>5, <1>8, <2>1
  <2> QED
    BY <1>3, <1>8, <2>2, <2>3 DEF f, g
<1> QED
  BY <1>7, <1>8

LEMMA PagesInOrder ==
  ASSUME NEW m \in SnapMaps, NEW t \in DOMAIN m
  PROVE  /\ PagesOf(m, t) \in Seq(DOMAIN m[t].pages)
         /\ Len(PagesOf(m, t)) \in Nat
         /\ FirstPages(m, t, 0) = {}
         /\ FirstPages(m, t, Len(PagesOf(m, t))) = DOMAIN m[t].pages
         /\ \A j \in 0..(Len(PagesOf(m, t)) - 1) :
              FirstPages(m, t, j + 1) = FirstPages(m, t, j) \cup {PagesOf(m, t)[j + 1]}
         /\ DOMAIN m[t].pages # {} => Len(PagesOf(m, t)) > 0
         /\ \A j \in 0..Len(PagesOf(m, t)) : FirstPages(m, t, j) \subseteq DOMAIN m[t].pages
<1> DEFINE S == DOMAIN m[t].pages
           s == SetToSeq(S)
<1>1. IsFiniteSet(S)
  BY EntryIs
<1>2. PagesOf(m, t) = s
  BY DEF PagesOf
<1> HIDE DEF S, s
<1>3. s \in Seq(S) /\ Len(s) = Cardinality(S) /\ Cardinality(S) \in Nat /\ S = {s[x] : x \in 1..Cardinality(S)}
  BY <1>1, SetAsSeq DEF s
<1>4. \A j : FirstPages(m, t, j) = {s[x] : x \in 1..j}
  BY <1>2 DEF FirstPages
<1>5. ASSUME NEW j \in 0..(Len(s) - 1)
      PROVE  FirstPages(m, t, j + 1) = FirstPages(m, t, j) \cup {s[j + 1]}
  <2>1. 1..(j + 1) = 1..j \cup {j + 1}
    BY <1>3
  <2> QED
    BY <1>4, <2>1
<1>6. FirstPages(m, t, 0) = {} /\ FirstPages(m, t, Len(s)) = S
  <2>1. 1..0 = {}
    OBVIOUS
  <2>2. FirstPages(m, t, 0) = {}
    BY <1>4, <2>1
  <2>3. FirstPages(m, t, Len(s)) = {s[x] : x \in 1..Cardinality(S)}
    BY <1>3, <1>4
  <2> QED
    BY <1>3, <2>2, <2>3
<1>7. S # {} => Len(s) > 0
  BY <1>3
<1>8. \A j \in 0..Len(s) : FirstPages(m, t, j) \subseteq S
  BY <1>3, <1>4
<1> QED
  BY <1>2, <1>3, <1>5, <1>6, <1>7, <1>8 DEF S

LEMMA TablesInOrder ==
  ASSUME NEW m \in SnapMaps
  PROVE  /\ TablesOf(m) \in Seq(DOMAIN m)
         /\ Len(TablesOf(m)) \in Nat
         /\ FirstTables(m, 0) = {}
         /\ FirstTables(m, Len(TablesOf(m))) = DOMAIN m
         /\ \A i \in 0..(Len(TablesOf(m)) - 1) :
              /\ FirstTables(m, i + 1) = FirstTables(m, i) \cup {TablesOf(m)[i + 1]}
              /\ TablesOf(m)[i + 1] \notin FirstTables(m, i)
         /\ \A i \in 0..Len(TablesOf(m)) : FirstTables(m, i) \subseteq DOMAIN m
<1> DEFINE S == DOMAIN m
           s == SetToSeq(S)
<1>1. IsFiniteSet(S)
  BY TablesAre, FS_Subset, SnapFileAssumption
<1>2. TablesOf(m) = s
  BY DEF TablesOf
<1> HIDE DEF S, s
<1>3. /\ s \in Seq(S) /\ Len(s) = Cardinality(S) /\ Cardinality(S) \in Nat /\ S = {s[x] : x \in 1..Cardinality(S)}
      /\ \A x, y \in 1..Cardinality(S) : s[x] = s[y] => x = y
  BY <1>1, SetAsSeq DEF s
<1>4. \A i : FirstTables(m, i) = {s[x] : x \in 1..i}
  BY <1>2 DEF FirstTables
<1>5. ASSUME NEW i \in 0..(Len(s) - 1)
      PROVE  FirstTables(m, i + 1) = FirstTables(m, i) \cup {s[i + 1]} /\ s[i + 1] \notin FirstTables(m, i)
  <2>1. 1..(i + 1) = 1..i \cup {i + 1}
    BY <1>3
  <2>2. FirstTables(m, i + 1) = FirstTables(m, i) \cup {s[i + 1]}
    BY <1>4, <2>1
  <2>3. ASSUME NEW x \in 1..i, s[x] = s[i + 1] PROVE FALSE
    <3>1. x \in 1..Cardinality(S) /\ i + 1 \in 1..Cardinality(S) /\ x # i + 1
      BY <1>3
    <3> QED
      BY <1>3, <2>3, <3>1
  <2> QED
    BY <1>4, <2>2, <2>3
<1>6. FirstTables(m, 0) = {} /\ FirstTables(m, Len(s)) = S
  <2>1. 1..0 = {}
    OBVIOUS
  <2>2. FirstTables(m, 0) = {}
    BY <1>4, <2>1
  <2>3. FirstTables(m, Len(s)) = {s[x] : x \in 1..Cardinality(S)}
    BY <1>3, <1>4
  <2> QED
    BY <1>3, <2>2, <2>3
<1>7. \A i \in 0..Len(s) : FirstTables(m, i) \subseteq S
  BY <1>3, <1>4
<1> QED
  BY <1>2, <1>3, <1>5, <1>6, <1>7 DEF S

LEMMA ByPageIs ==
  ASSUME NEW m \in SnapMaps, NEW t \in DOMAIN m
  PROVE  /\ ByPage(m, t) \in Seq(Seq(SnapFields))
         /\ Len(ByPage(m, t)) = Len(PagesOf(m, t))
         /\ \A j \in 1..Len(PagesOf(m, t)) : ByPage(m, t)[j] = PageFields(m[t].pages, PagesOf(m, t)[j])
<1> DEFINE s == PagesOf(m, t)
           ps == m[t].pages
<1>1. s \in Seq(DOMAIN ps) /\ Len(s) \in Nat
  BY PagesInOrder
<1>2. ByPage(m, t) = [j \in 1..Len(s) |-> PageFields(ps, s[j])]
  BY DEF ByPage
<1>3. ps \in PageMaps
  BY EntryIs
<1> HIDE DEF s, ps
<1>4. ASSUME NEW j \in 1..Len(s) PROVE PageFields(ps, s[j]) \in Seq(SnapFields)
  <2>1. s[j] \in DOMAIN ps
    BY <1>1
  <2> QED
    BY <1>3, <2>1, PageFieldsAre
<1>5. ByPage(m, t) \in [1..Len(s) -> Seq(SnapFields)]
  BY <1>2, <1>4
<1>6. ByPage(m, t) \in Seq(Seq(SnapFields)) /\ Len(ByPage(m, t)) = Len(s)
  BY <1>1, <1>5
<1> QED
  BY <1>2, <1>6 DEF s, ps

LEMMA TableFieldsAre ==
  ASSUME NEW m \in SnapMaps, NEW t \in DOMAIN m
  PROVE  LET f == TableFields(m, t)
             b == FlattenSeq(ByPage(m, t))
         IN  /\ f \in Seq(SnapFields) /\ b \in Seq(SnapFields)
             /\ Len(f) = 3 + Len(b)
             /\ f[1] = <<"name", t>> /\ f[2] = <<"pk_byte_len", m[t].len>>
             /\ f[3] = <<"n_pages", Len(PagesOf(m, t))>>
             /\ \A x \in 1..Len(b) : f[3 + x] = b[x]
<1> DEFINE f == TableFields(m, t)
           b == FlattenSeq(ByPage(m, t))
           n == Len(PagesOf(m, t))
           h1 == <<"name", t>>
           h2 == <<"pk_byte_len", m[t].len>>
           h3 == <<"n_pages", n>>
           h == <<h1, h2, h3>>
<1>1. f = h \o b
  BY DEF TableFields, PagesOf, ByPage
<1>2. b \in Seq(SnapFields)
  <2>1. ByPage(m, t) \in Seq(Seq(SnapFields)) /\ Len(ByPage(m, t)) \in 0..Len(ByPage(m, t))
    BY ByPageIs
  <2> QED
    BY <2>1, TakeAll, TakeIsSeq
<1>3. h1 \in SnapFields /\ h2 \in SnapFields /\ h3 \in SnapFields
  <2>1. t \in SnapTables /\ m[t].len \in Nat /\ n \in Nat
    BY EntryIs, PagesInOrder
  <2> QED
    BY <2>1 DEF SnapFields
<1> HIDE DEF f, b, h1, h2, h3
<1>4. f \in Seq(SnapFields) /\ Len(f) = 3 + Len(b) /\ f[1] = h1 /\ f[2] = h2 /\ f[3] = h3
  BY <1>1, <1>2, <1>3
<1>5. ASSUME NEW x \in 1..Len(b) PROVE f[3 + x] = b[x]
  <2>1. Len(h) = 3 /\ h \in Seq(SnapFields)
    BY <1>3
  <2>2. 3 + x \in 1..(Len(h) + Len(b)) /\ ~(3 + x <= Len(h)) /\ (3 + x) - Len(h) = x
    BY <1>2, <2>1
  <2> QED
    BY <1>1, <1>2, <2>1, <2>2
<1> QED
  BY <1>2, <1>4, <1>5 DEF f, b, h1, h2, h3

LEMMA ByTableIs ==
  ASSUME NEW m \in SnapMaps
  PROVE  /\ ByTable(m) \in Seq(Seq(SnapFields))
         /\ Len(ByTable(m)) = Len(TablesOf(m))
         /\ \A i \in 1..Len(TablesOf(m)) : ByTable(m)[i] = TableFields(m, TablesOf(m)[i])
<1> DEFINE s == TablesOf(m)
<1>1. s \in Seq(DOMAIN m) /\ Len(s) \in Nat
  BY TablesInOrder
<1>2. ByTable(m) = [i \in 1..Len(s) |-> TableFields(m, s[i])]
  BY DEF ByTable
<1> HIDE DEF s
<1>3. ASSUME NEW i \in 1..Len(s) PROVE TableFields(m, s[i]) \in Seq(SnapFields)
  <2>1. s[i] \in DOMAIN m
    BY <1>1
  <2> QED
    BY <2>1, TableFieldsAre
<1>4. ByTable(m) \in [1..Len(s) -> Seq(SnapFields)]
  BY <1>2, <1>3
<1>5. ByTable(m) \in Seq(Seq(SnapFields)) /\ Len(ByTable(m)) = Len(s)
  BY <1>1, <1>4
<1> QED
  BY <1>2, <1>5 DEF s

\* The file of any caches is the file of what is kept of them.
LEMMA FileOfKept ==
  ASSUME NEW m \in SnapMaps
  PROVE  /\ FileOf(Kept(m)) = FileOf(m)
         /\ FileOf(m) = <<<<"FDBS">>, <<"n_tables", Len(TablesOf(Kept(m)))>>>> \o FlattenSeq(ByTable(Kept(m)))
<1> DEFINE k == Kept(m)
           s == TablesOf(k)
<1>1. k \in SnapMaps /\ Kept(k) = k /\ \A t \in DOMAIN k : k[t] = m[t]
  BY KeptIs
<1>2. s \in Seq(DOMAIN k) /\ Len(s) \in Nat
  BY <1>1, TablesInOrder
<1>3. FileOf(m) = <<<<"FDBS">>, <<"n_tables", Len(s)>>>> \o FlattenSeq([j \in 1..Len(s) |-> TableFields(m, s[j])])
  BY DEF FileOf, TablesOf
<1>4. FileOf(k) = <<<<"FDBS">>, <<"n_tables", Len(s)>>>> \o FlattenSeq([j \in 1..Len(s) |-> TableFields(k, s[j])])
  BY <1>1 DEF FileOf, TablesOf
<1>5. ASSUME NEW j \in 1..Len(s) PROVE TableFields(m, s[j]) = TableFields(k, s[j])
  <2>1. s[j] \in DOMAIN k
    BY <1>2
  <2>2. k[s[j]] = m[s[j]]
    BY <1>1, <2>1
  <2> QED
    BY <2>2 DEF TableFields
<1>6. [j \in 1..Len(s) |-> TableFields(m, s[j])] = [j \in 1..Len(s) |-> TableFields(k, s[j])]
  BY <1>5
<1>7. ByTable(k) = [j \in 1..Len(s) |-> TableFields(k, s[j])]
  BY DEF ByTable
<1> QED
  BY <1>3, <1>4, <1>6, <1>7

\* The head of a file, and its ends.
LEMMA FileAt ==
  ASSUME NEW m \in SnapMaps, Kept(m) = m
  PROVE  LET F == FileOf(m)
             B == FlattenSeq(ByTable(m))
         IN  /\ F \in Seq(SnapFields) /\ B \in Seq(SnapFields)
             /\ Len(F) = 2 + Len(B)
             /\ F[2] = <<"n_tables", Len(TablesOf(m))>>
             /\ AfterTables(m, 0) = 2 /\ AfterTables(m, Len(TablesOf(m))) = Len(F)
             /\ \A x \in 1..Len(B) : F[2 + x] = B[x]
<1> DEFINE F == FileOf(m)
           B == FlattenSeq(ByTable(m))
           n == Len(TablesOf(m))
           h1 == <<"FDBS">>
           h2 == <<"n_tables", n>>
           h == <<h1, h2>>
<1>1. F = h \o B
  BY FileOfKept
<1>2. /\ ByTable(m) \in Seq(Seq(SnapFields)) /\ Len(ByTable(m)) = n
      /\ n \in Nat /\ n \in 0..Len(ByTable(m))
  BY ByTableIs, TablesInOrder
<1>3. B = Take(ByTable(m), n) /\ B \in Seq(SnapFields)
  BY <1>2, TakeAll, TakeIsSeq
<1>4. h1 \in SnapFields /\ h2 \in SnapFields
  BY <1>2 DEF SnapFields
<1>5. AfterTables(m, 0) = 2 /\ AfterTables(m, n) = 2 + Len(B)
  BY <1>3, TakeNone DEF AfterTables
<1> HIDE DEF F, B, h1, h2, n
<1>6. F \in Seq(SnapFields) /\ Len(F) = 2 + Len(B) /\ F[2] = h2
  BY <1>1, <1>3, <1>4
<1>7. ASSUME NEW x \in 1..Len(B) PROVE F[2 + x] = B[x]
  <2>1. Len(h) = 2 /\ h \in Seq(SnapFields)
    BY <1>4
  <2>2. 2 + x \in 1..(Len(h) + Len(B)) /\ ~(2 + x <= Len(h)) /\ (2 + x) - Len(h) = x
    BY <1>3, <2>1
  <2> QED
    BY <1>1, <1>3, <2>1, <2>2
<1> QED
  BY <1>3, <1>5, <1>6, <1>7 DEF F, B, h2, n

\* The fields of the i-th table.
LEMMA TableAt ==
  ASSUME NEW m \in SnapMaps, Kept(m) = m, NEW i \in 1..Len(TablesOf(m))
  PROVE  LET F == FileOf(m)
             t == TablesOf(m)[i]
             a == AfterTables(m, i - 1)
             b == FlattenSeq(ByPage(m, t))
         IN  /\ t \in DOMAIN m
             /\ a \in Nat /\ Len(b) \in Nat
             /\ AfterTables(m, i) = a + 3 + Len(b) /\ a + 3 + Len(b) <= Len(F)
             /\ F[a + 1] = <<"name", t>> /\ F[a + 2] = <<"pk_byte_len", m[t].len>>
             /\ F[a + 3] = <<"n_pages", Len(PagesOf(m, t))>>
             /\ \A x \in 1..Len(b) : F[a + 3 + x] = b[x]
             /\ AfterPages(m, i, 0) = a + 3
             /\ AfterPages(m, i, Len(PagesOf(m, t))) = AfterTables(m, i)
             /\ Len(PagesOf(m, t)) > 0
<1> DEFINE F == FileOf(m)
           B == FlattenSeq(ByTable(m))
           t == TablesOf(m)[i]
           a == AfterTables(m, i - 1)
           f == TableFields(m, t)
           b == FlattenSeq(ByPage(m, t))
           o == Len(Take(ByTable(m), i - 1))
           np == Len(PagesOf(m, t))
<1>1. t \in DOMAIN m
  BY TablesInOrder
<1>2. ByTable(m) \in Seq(Seq(SnapFields)) /\ i \in 1..Len(ByTable(m)) /\ ByTable(m)[i] = f
  BY ByTableIs
<1>3. /\ o \in Nat /\ Len(Take(ByTable(m), i)) = o + Len(f) /\ o + Len(f) <= Len(B)
      /\ \A x \in 1..Len(f) : B[o + x] = f[x]
  <2> DEFINE ss == ByTable(m)
             h == i - 1
  <2>1. IsPlaced(SnapFields, ss, i, h, f)
    BY <1>2 DEF IsPlaced
  <2> HIDE DEF ss, h, f
  <2>2. Placed(ss, i, h, f)
    BY <2>1, PlaceFrom
  <2> QED
    BY <2>2 DEF Placed, ss, h
<1>4. /\ Len(f) = 3 + Len(b) /\ Len(b) \in Nat
      /\ f[1] = <<"name", t>> /\ f[2] = <<"pk_byte_len", m[t].len>> /\ f[3] = <<"n_pages", np>>
      /\ \A x \in 1..Len(b) : f[3 + x] = b[x]
  BY <1>1, TableFieldsAre
<1>5. Len(F) = 2 + Len(B) /\ Len(B) \in Nat /\ \A x \in 1..Len(B) : F[2 + x] = B[x]
  BY FileAt
<1>6. a = 2 + o /\ AfterTables(m, i) = 2 + Len(Take(ByTable(m), i))
  BY DEF AfterTables
<1>7. AfterPages(m, i, 0) = a + 3 /\ AfterPages(m, i, np) = a + 3 + Len(b)
  <2>1. Take(ByPage(m, t), 0) = <<>>
    BY TakeNone
  <2>2. ByPage(m, t) \in Seq(Seq(SnapFields)) /\ Len(ByPage(m, t)) = np
    BY <1>1, ByPageIs
  <2>3. Take(ByPage(m, t), np) = b
    BY <2>2, TakeAll
  <2>4. /\ AfterPages(m, i, 0) = a + 3 + Len(Take(ByPage(m, t), 0))
        /\ AfterPages(m, i, np) = a + 3 + Len(Take(ByPage(m, t), np))
    BY DEF AfterPages
  <2>5. Len(<<>>) = 0 /\ a + 3 + 0 = a + 3
    BY <1>3, <1>6
  <2> QED
    BY <2>1, <2>3, <2>4, <2>5
<1>8. np > 0
  <2>1. DOMAIN m[t].pages # {}
    BY <1>1, KeptIs
  <2> QED
    BY <1>1, <2>1, PagesInOrder
<1> HIDE DEF F, B, t, a, f, b, o, np
<1>9. ASSUME NEW x \in 1..Len(f) PROVE F[a + x] = f[x]
  <2>1. o + x \in 1..Len(B) /\ B[o + x] = f[x]
    BY <1>3, <1>4, <1>5
  <2>2. a + x = 2 + (o + x)
    BY <1>3, <1>4, <1>6
  <2> QED
    BY <1>5, <2>1, <2>2
<1>10. F[a + 1] = f[1] /\ F[a + 2] = f[2] /\ F[a + 3] = f[3]
  <2>1. 1 \in 1..Len(f) /\ 2 \in 1..Len(f) /\ 3 \in 1..Len(f)
    BY <1>4
  <2> QED
    BY <1>9, <2>1
<1>11. ASSUME NEW x \in 1..Len(b) PROVE F[a + 3 + x] = b[x]
  <2>1. 3 + x \in 1..Len(f) /\ a + (3 + x) = a + 3 + x
    BY <1>3, <1>4, <1>6
  <2> QED
    BY <1>4, <1>9, <2>1
<1>12. a \in Nat /\ AfterTables(m, i) = a + 3 + Len(b) /\ a + 3 + Len(b) <= Len(F)
  <2>1. o \in Nat /\ Len(Take(ByTable(m), i)) = o + Len(f) /\ o + Len(f) <= Len(B)
    BY <1>3
  <2>2. Len(f) = 3 + Len(b) /\ Len(b) \in Nat /\ Len(F) = 2 + Len(B) /\ Len(B) \in Nat
    BY <1>4, <1>5
  <2> QED
    BY <1>6, <2>1, <2>2
<1> QED
  BY <1>1, <1>4, <1>7, <1>8, <1>10, <1>11, <1>12 DEF F, t, a, b, np

\* The fields of a page of it.
LEMMA PageAt ==
  ASSUME NEW m \in SnapMaps, Kept(m) = m, NEW i \in 1..Len(TablesOf(m)),
         NEW j \in 0..(Len(PagesOf(m, TablesOf(m)[i])) - 1)
  PROVE  LET F == FileOf(m)
             t == TablesOf(m)[i]
             ps == m[t].pages
             p == PagesOf(m, t)[j + 1]
             q == AfterPages(m, i, j)
         IN  /\ p \in DOMAIN ps
             /\ q \in Nat /\ AfterPages(m, i, j + 1) <= Len(F)
             /\ F[q + 1] = <<"page", p, ps[p].len>>
             /\ IF ps[p] = NoKeys
                THEN ps[p].len = 0 /\ AfterPages(m, i, j + 1) = q + 1
                ELSE /\ ps[p].len # 0 /\ AfterPages(m, i, j + 1) = q + 2
                     /\ F[q + 2] = <<"keys", ps[p]>>
<1> DEFINE F == FileOf(m)
           t == TablesOf(m)[i]
           ps == m[t].pages
           p == PagesOf(m, t)[j + 1]
           q == AfterPages(m, i, j)
           a == AfterTables(m, i - 1)
           b == FlattenSeq(ByPage(m, t))
           f == PageFields(ps, p)
           o == Len(Take(ByPage(m, t), j))
<1>1. /\ t \in DOMAIN m
      /\ a \in Nat /\ Len(b) \in Nat /\ a + 3 + Len(b) <= Len(F)
      /\ \A x \in 1..Len(b) : F[a + 3 + x] = b[x]
  BY TableAt
<1>2. F \in Seq(SnapFields) /\ Len(F) \in Nat
  BY FileAt
<1>3. p \in DOMAIN ps /\ j + 1 \in 1..Len(PagesOf(m, t)) /\ (j + 1) - 1 = j
  BY <1>1, PagesInOrder
<1>4. /\ ByPage(m, t) \in Seq(Seq(SnapFields)) /\ j + 1 \in 1..Len(ByPage(m, t))
      /\ ByPage(m, t)[j + 1] = f
  BY <1>1, <1>3, ByPageIs
<1>5. /\ o \in Nat /\ Len(Take(ByPage(m, t), j + 1)) = o + Len(f) /\ o + Len(f) <= Len(b)
      /\ \A x \in 1..Len(f) : b[o + x] = f[x]
  <2> DEFINE ss == ByPage(m, t)
             k == j + 1
  <2>1. IsPlaced(SnapFields, ss, k, j, f)
    BY <1>3, <1>4 DEF IsPlaced
  <2> HIDE DEF ss, k, f
  <2>2. Placed(ss, k, j, f)
    BY <2>1, PlaceFrom
  <2> QED
    BY <2>2 DEF Placed, ss, k
<1>6. q = a + 3 + o /\ AfterPages(m, i, j + 1) = a + 3 + Len(Take(ByPage(m, t), j + 1))
  BY DEF AfterPages
<1>7. /\ f \in Seq(SnapFields)
      /\ f[1] = <<"page", p, ps[p].len>>
      /\ IF ps[p] = NoKeys THEN Len(f) = 1 /\ ps[p].len = 0
                           ELSE Len(f) = 2 /\ ps[p].len # 0 /\ f[2] = <<"keys", ps[p]>>
  <2>1. ps \in PageMaps
    BY <1>1, EntryIs
  <2> QED
    BY <1>3, <2>1, PageFieldsAre
<1> HIDE DEF F, t, ps, p, q, a, b, f, o
<1>8. Len(f) \in Nat /\ 1 <= Len(f)
  BY <1>7
<1>9. ASSUME NEW x \in 1..Len(f) PROVE F[q + x] = f[x]
  <2>1. o + x \in 1..Len(b) /\ b[o + x] = f[x]
    BY <1>1, <1>5, <1>8
  <2>2. q + x = a + 3 + (o + x)
    BY <1>1, <1>5, <1>6, <1>8
  <2> QED
    BY <1>1, <2>1, <2>2
<1>10. F[q + 1] = f[1] /\ (Len(f) = 2 => F[q + 2] = f[2])
  <2>1. 1 \in 1..Len(f) /\ (Len(f) = 2 => 2 \in 1..2)
    BY <1>8
  <2> QED
    BY <1>9, <2>1
<1>11. q \in Nat /\ AfterPages(m, i, j + 1) = q + Len(f) /\ AfterPages(m, i, j + 1) <= Len(F)
  <2>1. a \in Nat /\ Len(b) \in Nat /\ a + 3 + Len(b) <= Len(F)
    BY <1>1
  <2>2. o \in Nat /\ Len(Take(ByPage(m, t), j + 1)) = o + Len(f) /\ o + Len(f) <= Len(b)
    BY <1>5
  <2> QED
    BY <1>2, <1>6, <1>8, <2>1, <2>2
<1> QED
  BY <1>3, <1>7, <1>10, <1>11 DEF F, t, ps, p, q

(***************************************************************************)
(* A part of what was saved: as many tables and pages, and each as it was. *)
(***************************************************************************)
PartOf(m, s) ==
  /\ DOMAIN m \subseteq DOMAIN s
  /\ \A t \in DOMAIN m :
       /\ m[t].len = s[t].len
       /\ DOMAIN m[t].pages \subseteq DOMAIN s[t].pages
       /\ \A p \in DOMAIN m[t].pages : m[t].pages[p] = s[t].pages[p]

ReadInv == proc = "load" => PartOf(pending, saved)

LEMMA PartFits == ASSUME NEW m, NEW s, PartOf(m, s), FitsKeys(s) PROVE FitsKeys(m)
<1> SUFFICES ASSUME NEW t \in DOMAIN m
             PROVE  /\ m[t].len = keyLength[t]
                    /\ \A p \in DOMAIN m[t].pages : m[t].pages[p] # NoKeys => m[t].pages[p].len = keyLength[t]
  BY DEF FitsKeys
<1>1. /\ t \in DOMAIN s /\ m[t].len = s[t].len
      /\ \A p \in DOMAIN m[t].pages : p \in DOMAIN s[t].pages /\ m[t].pages[p] = s[t].pages[p]
  BY DEF PartOf
<1>2. /\ s[t].len = keyLength[t]
      /\ \A p \in DOMAIN s[t].pages : s[t].pages[p] # NoKeys => s[t].pages[p].len = keyLength[t]
  BY <1>1 DEF FitsKeys
<1> QED
  BY <1>1, <1>2

LEMMA PartOfTables ==
  ASSUME NEW m \in SnapMaps, NEW T \in SUBSET DOMAIN m
  PROVE  Restrict(m, T) \in SnapMaps /\ PartOf(Restrict(m, T), m)
<1>1. Restrict(m, T) \in SnapMaps
  BY RestrictTables
<1>2. DOMAIN Restrict(m, T) = T /\ \A t \in T : Restrict(m, T)[t] = m[t]
  BY DEF Restrict
<1> QED
  BY <1>1, <1>2 DEF PartOf

LEMMA PartOfPages ==
  ASSUME NEW m \in SnapMaps, NEW T \in SUBSET DOMAIN m, NEW t \in DOMAIN m,
         NEW P \in SUBSET DOMAIN m[t].pages
  PROVE  LET r == Put(Restrict(m, T), t, [len |-> m[t].len, pages |-> Restrict(m[t].pages, P)])
         IN  r \in SnapMaps /\ PartOf(r, m)
<1> DEFINE q == Restrict(m, T)
           ps == Restrict(m[t].pages, P)
           e == [len |-> m[t].len, pages |-> ps]
           r == Put(q, t, e)
<1>1. q \in SnapMaps /\ PartOf(q, m) /\ DOMAIN q = T
  BY PartOfTables DEF Restrict
<1>2. t \in SnapTables /\ m[t].len \in KeyLengths /\ m[t].pages \in PageMaps
  BY EntryIs
<1>3. ps \in PageMaps
  BY <1>2, RestrictPages
<1>4. r \in SnapMaps
  BY <1>1, <1>2, <1>3, PutTable
<1>5. DOMAIN ps = P /\ \A p \in P : ps[p] = m[t].pages[p]
  BY DEF Restrict
<1>6. DOMAIN r = T \cup {t} /\ r[t] = e /\ \A s \in T \ {t} : r[s] = q[s]
  BY <1>1 DEF Put
<1>7. e.len = m[t].len /\ e.pages = ps
  OBVIOUS
<1> HIDE DEF q, ps, e, r
<1>8. ASSUME NEW s \in DOMAIN r
      PROVE  /\ r[s].len = m[s].len
             /\ DOMAIN r[s].pages \subseteq DOMAIN m[s].pages
             /\ \A p \in DOMAIN r[s].pages : r[s].pages[p] = m[s].pages[p]
  <2>1. CASE s = t
    BY <1>5, <1>6, <1>7, <2>1
  <2>2. CASE s # t
    <3>1. s \in DOMAIN q /\ r[s] = q[s]
      BY <1>1, <1>6, <2>2
    <3> QED
      BY <1>1, <3>1 DEF PartOf
  <2> QED
    BY <2>1, <2>2
<1>9. DOMAIN r \subseteq DOMAIN m
  BY <1>6
<1>10. PartOf(r, m)
  BY <1>8, <1>9 DEF PartOf
<1> QED
  BY <1>4, <1>10 DEF r, e, q, ps

LEMMA PutRestrict ==
  ASSUME NEW f, NEW S, NEW x
  PROVE  Put(Restrict(f, S), x, f[x]) = Restrict(f, S \cup {x})
BY DEF Put, Restrict

LEMMA PutNewPages ==
  ASSUME NEW R, NEW t, NEW l, NEW x, NEW y
  PROVE  LET m == Put(R, t, [len |-> l, pages |-> x])
         IN  [m EXCEPT ![t].pages = y] = Put(R, t, [len |-> l, pages |-> y]) /\ m[t].pages = x
<1> DEFINE e == [len |-> l, pages |-> x]
           d == [len |-> l, pages |-> y]
           m == Put(R, t, e)
           n == Put(R, t, d)
<1>1. [e EXCEPT !.pages = y] = d /\ e.pages = x
  OBVIOUS
<1>2. m[t] = e /\ t \in DOMAIN m /\ n = [m EXCEPT ![t] = d]
  BY DEF Put
<1> HIDE DEF e, d
<1>3. [m EXCEPT ![t].pages = y] = [m EXCEPT ![t] = [e EXCEPT !.pages = y]]
  BY <1>2
<1> HIDE DEF m, n
<1> QED
  BY <1>1, <1>2, <1>3 DEF m, n, e, d

LEMMA RestrictNone == ASSUME NEW f PROVE Restrict(f, {}) = Nothing
BY DEF Restrict, Nothing

(***************************************************************************)
(* What the reader has in front of it, wherever it stands.                 *)
(***************************************************************************)
LEMMA InFront ==
  ASSUME SnapStateInv, FileInv, NEW pos \in Nat, ReaderAt(pos)
  PROVE  /\ Len(fields) \in Nat /\ Len(snap) \in Nat /\ Len(snap) = pos + Len(fields)
         /\ \A x \in 1..Len(fields) : fields[x] = FileOf(saved)[pos + x]
<1>1. snap \in Seq(SnapFields) /\ Len(snap) \in Nat /\ \A x \in 1..Len(snap) : snap[x] = FileOf(saved)[x]
  BY DEF FileInv
<1>2. pos <= Len(snap) /\ fields = SubSeq(snap, pos + 1, Len(snap))
  BY DEF ReaderAt
<1>3. Len(fields) = Len(snap) - pos
  BY <1>1, <1>2
<1>4. ASSUME NEW x \in 1..Len(fields) PROVE fields[x] = FileOf(saved)[pos + x]
  <2>1. fields[x] = snap[pos + x]
    BY <1>1, <1>2, <1>3
  <2>2. pos + x \in 1..Len(snap)
    BY <1>1, <1>2, <1>3
  <2> QED
    BY <1>1, <2>1, <2>2
<1> QED
  BY <1>1, <1>2, <1>3, <1>4

\* It has read w fields more.
LEMMA ReadOn ==
  ASSUME SnapStateInv, FileInv, NEW pos \in Nat, ReaderAt(pos), NEW w \in Nat, w <= Len(fields),
         fields' = SubSeq(fields, w + 1, Len(fields)), snap' = snap
  PROVE  pos + w <= Len(snap') /\ fields' = SubSeq(snap', pos + w + 1, Len(snap'))
<1>1. snap \in Seq(SnapFields)
  BY DEF FileInv
<1>2. pos <= Len(snap) /\ fields = SubSeq(snap, pos + 1, Len(snap))
  BY DEF ReaderAt
<1>3. SubSeq(fields, w + 1, Len(fields)) = SubSeq(snap, pos + w + 1, Len(snap)) /\ pos + w <= Len(snap)
  BY <1>1, <1>2, LeftOfLeft
<1> QED
  BY <1>3

-----------------------------------------------------------------------------
(***************************************************************************)
(* The reader.                                                             *)
(***************************************************************************)
LEMMA SavedIs == ASSUME SnapStateInv, FileInv PROVE saved \in SnapMaps /\ Kept(saved) = saved
BY DEF SnapStateInv, FileInv

LEMMA AtATable ==
  ASSUME SnapInv, proc = "load", pagesLeft = 0
  PROVE  \E i \in 0..Len(TablesOf(saved)) : BetweenTables(i)
<1>1. SUFFICES ASSUME NEW i \in 1..Len(TablesOf(saved)),
                      NEW j \in 0..(Len(PagesOf(saved, TablesOf(saved)[i])) - 1), BetweenPages(i, j)
               PROVE  FALSE
  BY DEF SnapInv, LoadInv
<1> DEFINE np == Len(PagesOf(saved, TablesOf(saved)[i]))
<1>2. TablesOf(saved)[i] \in DOMAIN saved
  BY SavedIs, TablesInOrder DEF SnapInv
<1>3. np \in Nat
  BY <1>2, SavedIs, PagesInOrder DEF SnapInv
<1>4. pagesLeft = np - j
  BY <1>1 DEF BetweenPages
<1> HIDE DEF np
<1>5. j \in 0..(np - 1)
  BY DEF np
<1> QED
  BY <1>3, <1>4, <1>5

LEMMA AtAPage ==
  ASSUME SnapInv, proc = "load", pagesLeft > 0
  PROVE  \E i \in 1..Len(TablesOf(saved)) :
           \E j \in 0..(Len(PagesOf(saved, TablesOf(saved)[i])) - 1) : BetweenPages(i, j)
<1>1. SUFFICES ASSUME NEW i \in 0..Len(TablesOf(saved)), BetweenTables(i)
               PROVE  FALSE
  BY DEF SnapInv, LoadInv
<1>2. pagesLeft = 0
  BY <1>1 DEF BetweenTables
<1> QED
  BY <1>2

\* Where the reader stands is a place of the file.
LEMMA PlacesAre ==
  ASSUME NEW m \in SnapMaps, Kept(m) = m, NEW i \in 0..Len(TablesOf(m))
  PROVE  AfterTables(m, i) \in Nat /\ AfterTables(m, i) <= Len(FileOf(m))
<1>1. Len(TablesOf(m)) \in Nat
  BY TablesInOrder
<1>2. Len(FileOf(m)) \in Nat /\ Len(FileOf(m)) >= 2 /\ AfterTables(m, 0) = 2
  <2>1. FileOf(m) \in Seq(SnapFields) /\ FlattenSeq(ByTable(m)) \in Seq(SnapFields)
        /\ Len(FileOf(m)) = 2 + Len(FlattenSeq(ByTable(m))) /\ AfterTables(m, 0) = 2
    BY FileAt
  <2>2. Len(FlattenSeq(ByTable(m))) \in Nat
    BY <2>1
  <2> QED
    BY <2>1, <2>2
<1>3. CASE i = 0
  BY <1>2, <1>3
<1>4. CASE i # 0
  <2>1. i \in 1..Len(TablesOf(m))
    BY <1>1, <1>4
  <2> DEFINE a == AfterTables(m, i - 1)
             l == Len(FlattenSeq(ByPage(m, TablesOf(m)[i])))
  <2>2. a \in Nat /\ l \in Nat /\ AfterTables(m, i) = a + 3 + l /\ a + 3 + l <= Len(FileOf(m))
    BY <2>1, TableAt
  <2> HIDE DEF a, l
  <2> QED
    BY <2>2
<1> QED
  BY <1>3, <1>4

LEMMA ReadTableReads ==
  ASSUME SnapInv, ReadTable
  PROVE  LoadInv' /\ pending' \in SnapMaps /\ PartOf(pending', saved)
<1>1. /\ proc = "load" /\ proc' = proc /\ pagesLeft = 0 /\ tablesLeft > 0 /\ Len(fields) >= 3
      /\ tablesLeft' = tablesLeft - 1 /\ name' = fields[1][2]
      /\ pending' = Put(pending, fields[1][2], [len |-> fields[2][2], pages |-> Nothing])
      /\ pagesLeft' = fields[3][2] /\ fields' = SubSeq(fields, 3 + 1, Len(fields))
      /\ saved' = saved /\ snap' = snap
  BY DEF ReadTable, LoadRest
<1>2. saved \in SnapMaps /\ Kept(saved) = saved /\ SnapStateInv /\ FileInv
  BY SavedIs DEF SnapInv
<1> DEFINE ts == TablesOf(saved)
           n == Len(ts)
<1>3. PICK i \in 0..n : BetweenTables(i)
  BY <1>1, AtATable
<1> DEFINE k == i + 1
           t == ts[k]
           pos == AfterTables(saved, i)
           first == FirstTables(saved, i)
           np == Len(PagesOf(saved, t))
<1>4. /\ n \in Nat /\ tablesLeft = n - i /\ pending = Restrict(saved, first) /\ ReaderAt(pos)
  BY <1>2, <1>3, TablesInOrder DEF BetweenTables
<1>5. k \in 1..n /\ k - 1 = i /\ i \in Nat /\ tablesLeft' = n - k
  BY <1>1, <1>4
<1>6. /\ t \in DOMAIN saved /\ pos \in Nat
      /\ FileOf(saved)[pos + 1] = <<"name", t>> /\ FileOf(saved)[pos + 2] = <<"pk_byte_len", saved[t].len>>
      /\ FileOf(saved)[pos + 3] = <<"n_pages", np>>
      /\ AfterPages(saved, k, 0) = pos + 3 /\ np > 0
  <2> DEFINE a == AfterTables(saved, k - 1)
  <2>1. a = pos
    BY <1>5
  <2> HIDE DEF k, pos
  <2>2. /\ t \in DOMAIN saved /\ a \in Nat
        /\ FileOf(saved)[a + 1] = <<"name", t>> /\ FileOf(saved)[a + 2] = <<"pk_byte_len", saved[t].len>>
        /\ FileOf(saved)[a + 3] = <<"n_pages", np>>
        /\ AfterPages(saved, k, 0) = a + 3 /\ np > 0
    BY <1>2, <1>5, TableAt
  <2> HIDE DEF a, t, np
  <2> QED
    BY <2>1, <2>2
<1>7. np \in Nat /\ FirstPages(saved, t, 0) = {}
  BY <1>2, <1>6, PagesInOrder
<1>8. Len(fields) \in Nat /\ \A x \in 1..Len(fields) : fields[x] = FileOf(saved)[pos + x]
  BY <1>2, <1>4, <1>6, InFront
<1>9. fields[1] = <<"name", t>> /\ fields[2] = <<"pk_byte_len", saved[t].len>> /\ fields[3] = <<"n_pages", np>>
  <2>1. 1 \in 1..Len(fields) /\ 2 \in 1..Len(fields) /\ 3 \in 1..Len(fields)
    BY <1>1, <1>8
  <2> QED
    BY <1>6, <1>8, <2>1
<1>10. name' = t /\ pagesLeft' = np
       /\ pending' = Put(Restrict(saved, first), t, [len |-> saved[t].len, pages |-> Nothing])
  BY <1>1, <1>4, <1>9
<1>11. Restrict(saved[t].pages, {}) = Nothing
  BY RestrictNone
<1>12. pending' = Put(Restrict(saved, first), t,
                      [len |-> saved[t].len, pages |-> Restrict(saved[t].pages, FirstPages(saved, t, 0))])
  BY <1>7, <1>10, <1>11
<1>13. pos + 3 <= Len(snap') /\ fields' = SubSeq(snap', pos + 3 + 1, Len(snap'))
  BY <1>1, <1>2, <1>4, <1>6, ReadOn
<1>14. first \in SUBSET DOMAIN saved /\ FirstPages(saved, t, 0) \in SUBSET DOMAIN saved[t].pages
  BY <1>2, <1>7, TablesInOrder
<1>15. pending' \in SnapMaps /\ PartOf(pending', saved)
  BY <1>2, <1>6, <1>12, <1>14, PartOfPages
<1>16. BetweenPages(k, 0)'
  <2>1. 0 \in 0..(np - 1) /\ pagesLeft' = np - 0
    BY <1>6, <1>7, <1>10
  <2>2. pos + 3 = AfterPages(saved, k, 0) /\ first = FirstTables(saved, k - 1)
    BY <1>5, <1>6
  <2> HIDE DEF pos, first, np, t, n, ts, k
  <2>3. /\ ts' = ts /\ n' = n /\ t' = t /\ np' = np
    BY <1>1 DEF ts, n, t, np, k
  <2>4. ReaderAt(AfterPages(saved, k, 0))'
    BY <1>1, <1>13, <2>2 DEF ReaderAt
  <2> QED
    BY <1>1, <1>5, <1>10, <1>12, <2>1, <2>2, <2>4 DEF BetweenPages, n, ts, t, np
<1>17. LoadInv'
  <2>1. k \in 1..Len(TablesOf(saved')) /\ 0 \in 0..(Len(PagesOf(saved', TablesOf(saved')[k])) - 1)
    BY <1>1, <1>5, <1>6, <1>7
  <2> QED
    BY <1>16, <2>1 DEF LoadInv
<1> QED
  BY <1>15, <1>17

LEMMA ReadPageReads ==
  ASSUME SnapInv, ReadPage
  PROVE  LoadInv' /\ pending' \in SnapMaps /\ PartOf(pending', saved)
<1>1. /\ proc = "load" /\ proc' = proc /\ pagesLeft > 0 /\ Len(fields) >= PageWidth
      /\ pagesLeft' = pagesLeft - 1
      /\ pending' = [pending EXCEPT ![name].pages =
                       Put(@, fields[1][2], IF PageWidth = 1 THEN NoKeys ELSE fields[2][2])]
      /\ fields' = SubSeq(fields, PageWidth + 1, Len(fields))
      /\ tablesLeft' = tablesLeft /\ name' = name /\ saved' = saved /\ snap' = snap
  BY DEF ReadPage, LoadRest
<1>2. saved \in SnapMaps /\ Kept(saved) = saved /\ SnapStateInv /\ FileInv
  BY SavedIs DEF SnapInv
<1> DEFINE ts == TablesOf(saved)
           n == Len(ts)
<1>3. PICK i \in 1..n : \E j \in 0..(Len(PagesOf(saved, ts[i])) - 1) : BetweenPages(i, j)
  BY <1>1, AtAPage
<1> DEFINE t == ts[i]
           np == Len(PagesOf(saved, t))
<1>4. PICK j \in 0..(np - 1) : BetweenPages(i, j)
  BY <1>3
<1> DEFINE ps == saved[t].pages
           p == PagesOf(saved, t)[j + 1]
           q == AfterPages(saved, i, j)
           r == AfterPages(saved, i, j + 1)
           before == FirstTables(saved, i - 1)
           read == FirstPages(saved, t, j)
           more == FirstPages(saved, t, j + 1)
           w == IF ps[p] = NoKeys THEN 1 ELSE 2
<1>5. n \in Nat /\ t \in DOMAIN saved /\ before \in SUBSET DOMAIN saved
      /\ FirstTables(saved, i) = before \cup {t}
  <2> DEFINE h == i - 1
  <2>1. n \in Nat /\ h \in 0..(n - 1) /\ h \in 0..n /\ h + 1 = i /\ i \in 1..n
    BY <1>2, TablesInOrder
  <2> HIDE DEF h
  <2>2. FirstTables(saved, h) \subseteq DOMAIN saved
        /\ FirstTables(saved, h + 1) = FirstTables(saved, h) \cup {ts[h + 1]}
        /\ ts \in Seq(DOMAIN saved)
    BY <1>2, <2>1, TablesInOrder
  <2>3. t \in DOMAIN saved
    BY <2>1, <2>2
  <2> HIDE DEF n, ts
  <2> QED
    BY <2>1, <2>2, <2>3 DEF h
<1>6. np \in Nat /\ read \subseteq DOMAIN ps /\ more = read \cup {p} /\ FirstPages(saved, t, np) = DOMAIN ps
  <2>1. np \in Nat /\ FirstPages(saved, t, np) = DOMAIN ps /\ more = read \cup {p}
    BY <1>2, <1>5, PagesInOrder
  <2>2. j \in 0..np
    BY <2>1
  <2>3. read \subseteq DOMAIN ps
    BY <1>2, <1>5, <2>2, PagesInOrder
  <2> QED
    BY <2>1, <2>3
<1>7. j \in Nat /\ j + 1 <= np /\ j + 1 \in 1..np
  BY <1>6
<1>8. /\ tablesLeft = n - i /\ pagesLeft = np - j /\ name = t /\ ReaderAt(q)
      /\ pending = Put(Restrict(saved, before), t, [len |-> saved[t].len, pages |-> Restrict(ps, read)])
  BY <1>4 DEF BetweenPages
<1>9. /\ p \in DOMAIN ps /\ q \in Nat /\ r <= Len(FileOf(saved))
      /\ FileOf(saved)[q + 1] = <<"page", p, ps[p].len>>
      /\ IF ps[p] = NoKeys
         THEN ps[p].len = 0 /\ r = q + 1
         ELSE ps[p].len # 0 /\ r = q + 2 /\ FileOf(saved)[q + 2] = <<"keys", ps[p]>>
  BY <1>2, PageAt
<1>10. Len(fields) \in Nat /\ \A x \in 1..Len(fields) : fields[x] = FileOf(saved)[q + x]
  BY <1>2, <1>8, <1>9, InFront
<1> HIDE DEF ts, n, t, np, ps, p, q, r, before, read, more
<1>11. fields # <<>> /\ fields[1] = <<"page", p, ps[p].len>>
  <2>1. PageWidth >= 1
    BY DEF PageWidth
  <2>2. Len(fields) >= 1 /\ 1 \in 1..Len(fields)
    BY <1>1, <1>10, <2>1 DEF PageWidth
  <2>3. fields # <<>>
    BY <2>2
  <2> QED
    BY <1>9, <1>10, <2>2, <2>3
<1>12. PageWidth = w /\ w \in Nat /\ r = q + w
  BY <1>9, <1>11 DEF PageWidth
<1>13. (IF PageWidth = 1 THEN NoKeys ELSE fields[2][2]) = ps[p]
  <2>1. CASE ps[p] = NoKeys
    BY <1>12, <2>1
  <2>2. CASE ps[p] # NoKeys
    <3>1. PageWidth = 2 /\ 2 \in 1..Len(fields)
      BY <1>1, <1>10, <1>12, <2>2
    <3>2. fields[2] = <<"keys", ps[p]>>
      BY <1>9, <1>10, <2>2, <3>1
    <3> QED
      BY <3>1, <3>2
  <2> QED
    BY <2>1, <2>2
<1>14. pending' = Put(Restrict(saved, before), t, [len |-> saved[t].len, pages |-> Restrict(ps, more)])
  <2> DEFINE old == Restrict(ps, read)
             new == Put(old, p, ps[p])
             m == Put(Restrict(saved, before), t, [len |-> saved[t].len, pages |-> old])
  <2>1. fields[1][2] = p
    BY <1>11
  <2>2. pending = m
    BY <1>8
  <2> HIDE DEF m
  <2>3. pending' = [m EXCEPT ![t].pages = Put(@, p, ps[p])]
    BY <1>1, <1>8, <1>13, <2>1, <2>2
  <2>4. m[t].pages = old /\ [m EXCEPT ![t].pages = new]
          = Put(Restrict(saved, before), t, [len |-> saved[t].len, pages |-> new])
    BY PutNewPages DEF m
  <2>5. new = Restrict(ps, more)
    BY <1>6, PutRestrict
  <2> HIDE DEF old
  <2>6. [m EXCEPT ![t].pages = Put(@, p, ps[p])] = [m EXCEPT ![t].pages = new]
    BY <2>4
  <2> HIDE DEF new
  <2> QED
    BY <2>3, <2>4, <2>5, <2>6
<1>15. pending' \in SnapMaps /\ PartOf(pending', saved)
  <2>1. more \in SUBSET DOMAIN ps
    BY <1>6, <1>9
  <2> QED
    BY <1>2, <1>5, <1>14, <2>1, PartOfPages DEF ps
<1>16. r <= Len(snap') /\ fields' = SubSeq(snap', r + 1, Len(snap'))
  <2>1. w <= Len(fields) /\ fields' = SubSeq(fields, w + 1, Len(fields))
    BY <1>1, <1>12
  <2> HIDE DEF w
  <2>2. q + w <= Len(snap') /\ fields' = SubSeq(snap', q + w + 1, Len(snap'))
    BY <1>1, <1>2, <1>8, <1>9, <1>12, <2>1, ReadOn
  <2> QED
    BY <1>12, <2>2
<1>17. ASSUME j + 1 < np PROVE BetweenPages(i, j + 1)' /\ j + 1 \in 0..(np - 1)
  <2>1. j + 1 \in 0..(np - 1) /\ pagesLeft' = np - (j + 1)
    BY <1>1, <1>6, <1>7, <1>8, <1>17
  <2>2. ReaderAt(AfterPages(saved, i, j + 1))'
    BY <1>1, <1>16 DEF ReaderAt, r
  <2> QED
    BY <1>1, <1>3, <1>8, <1>14, <2>1, <2>2 DEF BetweenPages, n, ts, t, np, ps, before, more
<1>18. ASSUME ~(j + 1 < np) PROVE BetweenTables(i)'
  <2>1. j + 1 = np /\ pagesLeft' = 0
    BY <1>1, <1>6, <1>7, <1>8, <1>18
  <2>2. more = DOMAIN ps
    BY <1>6, <2>1 DEF more
  <2>3. r = AfterTables(saved, i)
    <3>1. AfterPages(saved, i, np) = AfterTables(saved, i)
      BY <1>2, <1>3, TableAt DEF n, ts, t, np
    <3> QED
      BY <2>1, <3>1 DEF r
  <2>4. [len |-> saved[t].len, pages |-> Restrict(ps, more)] = saved[t]
    <3>1. saved[t] = [len |-> saved[t].len, pages |-> ps] /\ ps \in PageMaps
      BY <1>2, <1>5, EntryIs DEF ps
    <3>2. Restrict(ps, DOMAIN ps) = ps
      BY <3>1, PagesAre DEF Restrict
    <3> QED
      BY <2>2, <3>1, <3>2
  <2>5. pending' = Restrict(saved, FirstTables(saved, i))
    BY <1>5, <1>14, <2>4, PutRestrict
  <2>6. ReaderAt(AfterTables(saved, i))'
    BY <1>1, <1>16, <2>3 DEF ReaderAt
  <2>7. i \in 0..n
    BY <1>5
  <2> QED
    BY <1>1, <1>8, <2>1, <2>5, <2>6, <2>7 DEF BetweenTables, n, ts
<1>19. LoadInv'
  <2>1. CASE j + 1 < np
    <3>1. j + 1 \in 0..(Len(PagesOf(saved', TablesOf(saved')[i])) - 1) /\ i \in 1..Len(TablesOf(saved'))
      BY <1>1, <1>3, <1>17, <2>1 DEF n, ts, t, np
    <3> QED
      BY <1>17, <2>1, <3>1 DEF LoadInv
  <2>2. CASE ~(j + 1 < np)
    <3>1. i \in 0..Len(TablesOf(saved'))
      BY <1>1, <1>5 DEF n, ts
    <3> QED
      BY <1>18, <2>2, <3>1 DEF LoadInv
  <2> QED
    BY <2>1, <2>2
<1> QED
  BY <1>15, <1>19

\* A file that is whole is not too short.
LEMMA ShortIsCut == ASSUME SnapInv, ReadShort PROVE lost \/ saved = Nothing
<1>1. /\ proc = "load"
      /\ \/ pagesLeft = 0 /\ tablesLeft > 0 /\ Len(fields) < 3
         \/ pagesLeft > 0 /\ Len(fields) < PageWidth
  BY DEF ReadShort
<1>2. saved \in SnapMaps /\ Kept(saved) = saved /\ SnapStateInv /\ FileInv
  BY SavedIs DEF SnapInv
<1>3. SUFFICES ASSUME snap = FileOf(saved) PROVE FALSE
  BY <1>2 DEF FileInv
<1>4. Len(TablesOf(saved)) \in Nat
  BY <1>2, TablesInOrder
<1>5. CASE pagesLeft = 0 /\ tablesLeft > 0 /\ Len(fields) < 3
  <2>1. PICK i \in 0..Len(TablesOf(saved)) : BetweenTables(i)
    BY <1>1, <1>5, AtATable
  <2> DEFINE a == AfterTables(saved, i)
  <2>2. tablesLeft = Len(TablesOf(saved)) - i /\ ReaderAt(a)
    BY <2>1 DEF BetweenTables
  <2> DEFINE k == i + 1
             b == Len(FlattenSeq(ByPage(saved, TablesOf(saved)[k])))
  <2>3. k \in 1..Len(TablesOf(saved)) /\ k - 1 = i
    BY <1>4, <1>5, <2>2
  <2>4. AfterTables(saved, k - 1) = a
    BY <2>3
  <2> HIDE DEF a, k
  <2>5. AfterTables(saved, k - 1) \in Nat /\ b \in Nat /\ AfterTables(saved, k - 1) + 3 + b <= Len(FileOf(saved))
    BY <1>2, <2>3, TableAt
  <2> HIDE DEF b
  <2>6. Len(fields) \in Nat /\ Len(snap) \in Nat /\ Len(snap) = a + Len(fields)
    BY <1>2, <2>2, <2>4, <2>5, InFront
  <2> QED
    BY <1>3, <1>5, <2>4, <2>5, <2>6
<1>6. CASE pagesLeft > 0 /\ Len(fields) < PageWidth
  <2>1. PICK i \in 1..Len(TablesOf(saved)) :
          \E j \in 0..(Len(PagesOf(saved, TablesOf(saved)[i])) - 1) : BetweenPages(i, j)
    BY <1>1, <1>6, AtAPage
  <2>2. PICK j \in 0..(Len(PagesOf(saved, TablesOf(saved)[i])) - 1) : BetweenPages(i, j)
    BY <2>1
  <2> DEFINE t == TablesOf(saved)[i]
             ps == saved[t].pages
             p == PagesOf(saved, t)[j + 1]
             q == AfterPages(saved, i, j)
             r == AfterPages(saved, i, j + 1)
  <2>3. ReaderAt(q)
    BY <2>2 DEF BetweenPages
  <2>4. /\ q \in Nat /\ r <= Len(FileOf(saved))
        /\ FileOf(saved)[q + 1] = <<"page", p, ps[p].len>>
        /\ IF ps[p] = NoKeys THEN ps[p].len = 0 /\ r = q + 1 ELSE ps[p].len # 0 /\ r = q + 2
    BY <1>2, PageAt
  <2>5. /\ Len(fields) \in Nat /\ Len(snap) \in Nat /\ Len(snap) = q + Len(fields)
        /\ \A x \in 1..Len(fields) : fields[x] = FileOf(saved)[q + x]
    BY <1>2, <2>3, <2>4, InFront
  <2> HIDE DEF t, ps, p, q, r
  <2>6. r \in {q + 1, q + 2} /\ Len(fields) >= 1
    BY <1>3, <2>4, <2>5
  <2>7. fields[1] = <<"page", p, ps[p].len>> /\ fields # <<>>
    <3>1. 1 \in 1..Len(fields)
      BY <2>5, <2>6
    <3> QED
      BY <2>4, <2>5, <3>1
  <2>8. r = q + PageWidth
    BY <2>4, <2>7 DEF PageWidth
  <2>9. PageWidth \in Nat
    BY DEF PageWidth
  <2> QED
    BY <1>3, <1>6, <2>4, <2>5, <2>8, <2>9
<1> QED
  BY <1>1, <1>5, <1>6

\* At the end everything has been read.
LEMMA EndIsWhole == ASSUME SnapInv, ReadEnd PROVE pending = saved
<1>1. proc = "load" /\ pagesLeft = 0 /\ tablesLeft = 0
  BY DEF ReadEnd
<1>2. saved \in SnapMaps
  BY SavedIs DEF SnapInv
<1>3. PICK i \in 0..Len(TablesOf(saved)) : BetweenTables(i)
  BY <1>1, AtATable
<1>4. tablesLeft = Len(TablesOf(saved)) - i /\ pending = Restrict(saved, FirstTables(saved, i))
  BY <1>3 DEF BetweenTables
<1>5. Len(TablesOf(saved)) \in Nat
  BY <1>2, TablesInOrder
<1>6. i = Len(TablesOf(saved))
  BY <1>1, <1>4, <1>5
<1>7. FirstTables(saved, i) = DOMAIN saved
  BY <1>2, <1>6, TablesInOrder
<1>8. Restrict(saved, DOMAIN saved) = saved
  BY <1>2, TablesAre DEF Restrict
<1> QED
  BY <1>4, <1>7, <1>8

\* The head of the file.
LEMMA LoadBegins ==
  ASSUME SnapInv, Load
  PROVE  LoadInv' /\ pending' = Nothing /\ (proc' = "ready" => lost \/ saved = Nothing)
<1>1. /\ pending' = Nothing /\ pagesLeft' = 0 /\ saved' = saved /\ snap' = snap
      /\ IF Len(snap) >= 2
         THEN proc' = "load" /\ tablesLeft' = snap[2][2] /\ fields' = SubSeq(snap, 3, Len(snap))
         ELSE proc' = "ready" /\ tablesLeft' = 0 /\ fields' = <<>>
  BY DEF Load
<1>2. saved \in SnapMaps /\ Kept(saved) = saved /\ FileInv
  BY SavedIs DEF SnapInv
<1> DEFINE F == FileOf(saved)
           n == Len(TablesOf(saved))
<1>3. Len(F) \in Nat /\ Len(F) >= 2 /\ F[2] = <<"n_tables", n>> /\ AfterTables(saved, 0) = 2
  <2> DEFINE B == FlattenSeq(ByTable(saved))
  <2>1. /\ B \in Seq(SnapFields) /\ Len(F) = 2 + Len(B)
        /\ F[2] = <<"n_tables", n>> /\ AfterTables(saved, 0) = 2
    BY <1>2, FileAt
  <2>2. Len(B) \in Nat
    BY <2>1
  <2> HIDE DEF B, F, n
  <2> QED
    BY <2>1, <2>2
<1>4. n \in Nat /\ FirstTables(saved, 0) = {}
  BY <1>2, TablesInOrder
<1> HIDE DEF F
<1>5. CASE Len(snap) >= 2
  <2>1. proc' = "load" /\ tablesLeft' = snap[2][2] /\ fields' = SubSeq(snap, 3, Len(snap))
    BY <1>1, <1>5
  <2>2. snap[2] = F[2]
    <3>1. snap \in Seq(SnapFields) /\ \A x \in 1..Len(snap) : snap[x] = F[x]
      BY <1>2 DEF FileInv, F
    <3>2. 2 \in 1..Len(snap)
      BY <1>5, <3>1
    <3> QED
      BY <3>1, <3>2
  <2>3. tablesLeft' = n - 0
    BY <1>3, <1>4, <2>1, <2>2
  <2>4. ReaderAt(AfterTables(saved, 0))'
    BY <1>1, <1>3, <1>5, <2>1 DEF ReaderAt
  <2>5. pending' = Restrict(saved, FirstTables(saved, 0))
    BY <1>1, <1>4, RestrictNone
  <2>6. BetweenTables(0)'
    BY <1>1, <1>4, <2>3, <2>4, <2>5 DEF BetweenTables
  <2>7. 0 \in 0..Len(TablesOf(saved'))
    BY <1>1, <1>4
  <2> QED
    BY <1>1, <2>1, <2>6, <2>7 DEF LoadInv
<1>6. CASE ~(Len(snap) >= 2)
  <2>1. snap # FileOf(saved)
    BY <1>3, <1>6 DEF F
  <2> QED
    BY <1>1, <1>2, <1>6, <2>1 DEF LoadInv, FileInv
<1> QED
  BY <1>5, <1>6

-----------------------------------------------------------------------------
LEMMA SnapInvInit == SnapInit => SnapInv
<1> SUFFICES ASSUME SnapInit PROVE SnapInv
  OBVIOUS
<1>1. /\ proc = "down" /\ keyLength \in [SnapTables -> KeyLengths]
      /\ caches = Nothing /\ pending = Nothing /\ saved = Nothing
      /\ snap = <<>> /\ scans = 0 /\ lost = FALSE
  BY DEF SnapInit
<1>2. SnapStateInv
  BY <1>1, NothingIs, SnapFileAssumption DEF SnapStateInv
<1>3. FileInv
  <2>1. Len(FileOf(Nothing)) \in Nat
    <3>1. FileOf(Nothing) \in Seq(SnapFields)
      BY NothingIs, NothingKept, FileAt
    <3> QED
      BY <3>1
  <2> QED
    BY <1>1, <2>1, NothingKept DEF FileInv
<1>4. KeysInv
  <2>1. DOMAIN Nothing = {}
    BY DEF Nothing
  <2> QED
    BY <1>1, <2>1 DEF KeysInv, FitsKeys
<1> QED
  BY <1>1, <1>2, <1>3, <1>4 DEF SnapInv, SaveInv, LoadInv

\* What most of the steps leave alone.
LEMMA FileRests ==
  ASSUME FileInv, saved' = saved, snap' = snap, lost' = lost
  PROVE  FileInv'
BY DEF FileInv

LEMMA NoTableFits == FitsKeys(Nothing)
BY DEF FitsKeys, Nothing

LEMMA BuildCacheKeeps == ASSUME SnapInv, NEW t \in SnapTables, BuildCache(t) PROVE SnapInv'
<1> DEFINE ps == IF t \in DOMAIN pending /\ keyLength[t] > 0 THEN pending[t].pages ELSE Nothing
           e == [len |-> keyLength[t], pages |-> ps]
           T == DOMAIN pending \ {t}
<1>1. /\ proc = "ready" /\ proc' = proc /\ keyLength' = keyLength /\ scans' = scans
      /\ saved' = saved /\ snap' = snap /\ lost' = lost
      /\ caches' = Put(caches, t, e) /\ pending' = Restrict(pending, T)
  BY DEF BuildCache
<1>2. /\ caches \in SnapMaps /\ pending \in SnapMaps /\ saved \in SnapMaps
      /\ keyLength \in [SnapTables -> KeyLengths] /\ SnapStateInv /\ FileInv /\ KeysInv
  BY DEF SnapInv, SnapStateInv
<1>3. ps \in PageMaps
  BY <1>2, EntryIs, NothingIs
<1>4. keyLength[t] \in KeyLengths
  BY <1>2
<1> HIDE DEF ps
<1>5. caches' \in SnapMaps
  BY <1>1, <1>2, <1>3, <1>4, PutTable
<1>6. pending' \in SnapMaps /\ PartOf(pending', pending)
  <2>1. T \in SUBSET DOMAIN pending
    OBVIOUS
  <2> HIDE DEF T
  <2> QED
    BY <1>1, <1>2, <2>1, PartOfTables
<1>7. SnapStateInv'
  BY <1>1, <1>2, <1>5, <1>6 DEF SnapStateInv
<1>8. ASSUME FitsKeys(caches), FitsKeys(pending), FitsKeys(saved)
      PROVE  FitsKeys(caches)' /\ FitsKeys(pending)' /\ FitsKeys(saved)'
  <2>1. FitsKeys(pending')
    BY <1>6, <1>8, PartFits
  <2>2. \A p \in DOMAIN ps : ps[p] # NoKeys => ps[p].len = keyLength[t]
    <3>1. DOMAIN Nothing = {}
      BY DEF Nothing
    <3> QED
      BY <1>8, <3>1 DEF FitsKeys, ps
  <2>3. DOMAIN caches' = DOMAIN caches \cup {t} /\ caches'[t] = e /\ \A s \in DOMAIN caches \ {t} : caches'[s] = caches[s]
    BY <1>1 DEF Put
  <2>4. e.len = keyLength[t] /\ e.pages = ps
    OBVIOUS
  <2> HIDE DEF e
  <2>5. ASSUME NEW s \in DOMAIN caches'
        PROVE  /\ caches'[s].len = keyLength[s]
               /\ \A p \in DOMAIN caches'[s].pages :
                    caches'[s].pages[p] # NoKeys => caches'[s].pages[p].len = keyLength[s]
    <3>1. CASE s = t
      BY <2>2, <2>3, <2>4, <3>1
    <3>2. CASE s # t
      <4>1. s \in DOMAIN caches /\ caches'[s] = caches[s]
        BY <2>3, <3>2
      <4> QED
        BY <1>8, <4>1 DEF FitsKeys
    <3> QED
      BY <3>1, <3>2
  <2>6. FitsKeys(caches')
    BY <2>5 DEF FitsKeys
  <2> QED
    BY <1>1, <1>8, <2>1, <2>6 DEF FitsKeys
<1>9. KeysInv'
  BY <1>1, <1>2, <1>8 DEF KeysInv
<1>10. FileInv'
  BY <1>1, <1>2, FileRests
<1> QED
  BY <1>1, <1>7, <1>9, <1>10 DEF SnapInv, SaveInv, LoadInv

LEMMA ScanKeysKeeps ==
  ASSUME SnapInv, NEW t \in SnapTables, NEW p \in SnapPages, ScanKeys(t, p)
  PROVE  SnapInv'
<1>1. /\ proc = "ready" /\ proc' = proc /\ keyLength' = keyLength /\ pending' = pending
      /\ saved' = saved /\ snap' = snap /\ lost' = lost
      /\ t \in DOMAIN caches /\ caches[t].len > 0 /\ scans < MaxSnapScans /\ scans' = scans + 1
  BY DEF ScanKeys
<1>2. PICK a \in {NoKeys, [len |-> caches[t].len, scan |-> scans']} :
        caches' = [caches EXCEPT ![t].pages = Put(@, p, a)]
  BY DEF ScanKeys
<1>3. /\ caches \in SnapMaps /\ pending \in SnapMaps /\ saved \in SnapMaps
      /\ keyLength \in [SnapTables -> KeyLengths] /\ SnapStateInv /\ FileInv /\ KeysInv
      /\ scans \in 0..MaxSnapScans
  BY DEF SnapInv, SnapStateInv
<1>4. /\ caches[t] = [len |-> caches[t].len, pages |-> caches[t].pages]
      /\ caches[t].len \in KeyLengths /\ caches[t].len \in Nat /\ caches[t].pages \in PageMaps
  BY <1>1, <1>3, EntryIs
<1>5. scans' \in 1..MaxSnapScans
  BY <1>1, <1>3, SnapFileAssumption
<1>6. a \in Arrays \cup {NoKeys}
  <2>1. caches[t].len \in KeyLengths \ {0}
    BY <1>1, <1>4
  <2> QED
    BY <1>2, <1>5, <2>1 DEF Arrays
<1>7. a # NoKeys => a.len = caches[t].len
  BY <1>2
<1> DEFINE ps == Put(caches[t].pages, p, a)
           e == [len |-> caches[t].len, pages |-> ps]
<1>8. ps \in PageMaps
  BY <1>4, <1>6, PutPage
<1>9. caches' = Put(caches, t, e)
  <2>1. [caches[t] EXCEPT !.pages = ps] = e
    BY <1>4
  <2>2. caches' = [caches EXCEPT ![t] = [caches[t] EXCEPT !.pages = ps]]
    BY <1>2
  <2>3. [caches EXCEPT ![t] = e] = Put(caches, t, e)
    <3>1. caches = [s \in DOMAIN caches |-> caches[s]]
      BY <1>3, TablesAre
    <3> HIDE DEF e
    <3> QED
      BY <1>1, <3>1 DEF Put
  <2> QED
    BY <2>1, <2>2, <2>3
<1> HIDE DEF ps
<1>10. caches' \in SnapMaps
  BY <1>3, <1>4, <1>8, <1>9, PutTable
<1>11. SnapStateInv'
  <2>1. scans' \in 0..MaxSnapScans
    BY <1>5
  <2> QED
    BY <1>1, <1>3, <1>10, <2>1 DEF SnapStateInv
<1>12. ASSUME FitsKeys(caches), FitsKeys(pending), FitsKeys(saved)
       PROVE  FitsKeys(caches)' /\ FitsKeys(pending)' /\ FitsKeys(saved)'
  <2>1. DOMAIN caches' = DOMAIN caches /\ caches'[t] = e /\ \A s \in DOMAIN caches \ {t} : caches'[s] = caches[s]
    BY <1>1, <1>9 DEF Put
  <2>2. e.len = caches[t].len /\ e.pages = ps /\ caches[t].len = keyLength[t]
    BY <1>1, <1>12 DEF FitsKeys
  <2>3. \A x \in DOMAIN ps : ps[x] # NoKeys => ps[x].len = keyLength[t]
    <3>1. \A x \in DOMAIN caches[t].pages : caches[t].pages[x] # NoKeys => caches[t].pages[x].len = keyLength[t]
      BY <1>1, <1>12 DEF FitsKeys
    <3>2. DOMAIN ps = DOMAIN caches[t].pages \cup {p} /\ ps[p] = a
          /\ \A x \in DOMAIN caches[t].pages \ {p} : ps[x] = caches[t].pages[x]
      BY DEF ps, Put
    <3> QED
      BY <1>7, <2>2, <3>1, <3>2
  <2> HIDE DEF e
  <2>4. ASSUME NEW s \in DOMAIN caches'
        PROVE  /\ caches'[s].len = keyLength[s]
               /\ \A x \in DOMAIN caches'[s].pages :
                    caches'[s].pages[x] # NoKeys => caches'[s].pages[x].len = keyLength[s]
    <3>1. CASE s = t
      BY <2>1, <2>2, <2>3, <3>1
    <3>2. CASE s # t
      <4>1. s \in DOMAIN caches /\ caches'[s] = caches[s]
        BY <2>1, <3>2
      <4> QED
        BY <1>12, <4>1 DEF FitsKeys
    <3> QED
      BY <3>1, <3>2
  <2>5. FitsKeys(caches')
    BY <2>4 DEF FitsKeys
  <2> QED
    BY <1>1, <1>12, <2>5 DEF FitsKeys
<1>13. KeysInv'
  BY <1>1, <1>3, <1>12 DEF KeysInv
<1>14. FileInv'
  BY <1>1, <1>3, FileRests
<1> QED
  BY <1>1, <1>11, <1>13, <1>14 DEF SnapInv, SaveInv, LoadInv

LEMMA RetypeKeyKeeps ==
  ASSUME SnapInv, NEW t \in SnapTables, NEW l \in KeyLengths, RetypeKey(t, l)
  PROVE  SnapInv'
<1>1. /\ keyLength' = [keyLength EXCEPT ![t] = l]
      /\ "retype" \in SnapEnv \/ \A m \in {caches, pending, saved} : t \notin DOMAIN m
      /\ UNCHANGED <<proc, caches, pending, tmp, snap, fields, tablesLeft, pagesLeft, name, scans, saved, lost>>
  BY DEF RetypeKey, readVars
<1>2. SnapStateInv /\ FileInv /\ SaveInv /\ LoadInv /\ KeysInv
  BY DEF SnapInv
<1>3. SnapStateInv'
  BY <1>1, <1>2 DEF SnapStateInv
<1>4. FileInv' /\ SaveInv'
  BY <1>1, <1>2 DEF FileInv, SaveInv
<1>5. LoadInv'
  BY <1>1, <1>2 DEF LoadInv, BetweenTables, BetweenPages, ReaderAt
<1>6. ASSUME NEW m \in {caches, pending, saved}, FitsKeys(m), t \notin DOMAIN m
      PROVE  \A s \in DOMAIN m : keyLength'[s] = keyLength[s]
  <2>1. DOMAIN m \in SUBSET SnapTables /\ keyLength \in [SnapTables -> KeyLengths]
    BY <1>2, TablesAre DEF SnapStateInv
  <2> QED
    BY <1>1, <1>6, <2>1
<1>7. ASSUME "retype" \notin SnapEnv PROVE FitsKeys(caches)' /\ FitsKeys(pending)' /\ FitsKeys(saved)'
  <2>1. FitsKeys(caches) /\ FitsKeys(pending) /\ FitsKeys(saved)
    BY <1>2, <1>7 DEF KeysInv
  <2>2. t \notin DOMAIN caches /\ t \notin DOMAIN pending /\ t \notin DOMAIN saved
    BY <1>1, <1>7
  <2>3. \A s \in DOMAIN caches : keyLength'[s] = keyLength[s]
    BY <1>6, <2>1, <2>2
  <2>4. \A s \in DOMAIN pending : keyLength'[s] = keyLength[s]
    BY <1>6, <2>1, <2>2
  <2>5. \A s \in DOMAIN saved : keyLength'[s] = keyLength[s]
    BY <1>6, <2>1, <2>2
  <2>6. FitsKeys(caches)'
    BY <1>1, <2>1, <2>3 DEF FitsKeys
  <2>7. FitsKeys(pending)'
    BY <1>1, <2>1, <2>4 DEF FitsKeys
  <2>8. FitsKeys(saved)'
    BY <1>1, <2>1, <2>5 DEF FitsKeys
  <2> QED
    BY <2>6, <2>7, <2>8
<1>8. KeysInv'
  BY <1>7 DEF KeysInv
<1> QED
  BY <1>3, <1>4, <1>5, <1>8 DEF SnapInv

LEMMA RemapKeeps == ASSUME SnapInv, Remap PROVE SnapInv'
<1>1. /\ proc = "ready" /\ proc' = proc /\ caches' = Nothing
      /\ UNCHANGED <<keyLength, pending, snap, scans, saved, lost>>
  BY DEF Remap
<1>2. SnapStateInv'
  BY <1>1, NothingIs DEF SnapInv, SnapStateInv
<1>3. FileInv'
  BY <1>1, FileRests DEF SnapInv
<1>4. KeysInv'
  BY <1>1, NoTableFits DEF SnapInv, KeysInv, FitsKeys
<1> QED
  BY <1>1, <1>2, <1>3, <1>4 DEF SnapInv, SaveInv, LoadInv

\* A save leaves the memory alone.
LEMMA SaveRests ==
  ASSUME SnapInv, proc' \in {"ready", "save"}, UNCHANGED <<keyLength, caches, pending, scans, saved>>
  PROVE  SnapStateInv' /\ KeysInv' /\ LoadInv'
<1>1. SnapStateInv'
  BY DEF SnapInv, SnapStateInv
<1>2. KeysInv'
  BY DEF SnapInv, KeysInv, FitsKeys
<1> QED
  BY <1>1, <1>2 DEF LoadInv

LEMMA FileIsSeq == ASSUME NEW m \in SnapMaps PROVE FileOf(m) \in Seq(SnapFields)
<1>1. Kept(m) \in SnapMaps /\ Kept(Kept(m)) = Kept(m) /\ FileOf(Kept(m)) = FileOf(m)
  BY KeptIs, FileOfKept
<1>2. FileOf(Kept(m)) \in Seq(SnapFields)
  BY <1>1, FileAt
<1> QED
  BY <1>1, <1>2

LEMMA BeginSaveKeeps == ASSUME SnapInv, BeginSave PROVE SnapInv'
<1>1. /\ proc' = "save" /\ tmp' = <<>> /\ fields' = FileOf(caches)
      /\ UNCHANGED <<keyLength, caches, pending, snap, scans, saved, lost>>
  BY DEF BeginSave
<1>2. FileOf(caches) \in Seq(SnapFields)
  BY FileIsSeq DEF SnapInv, SnapStateInv
<1>3. FileInv'
  BY <1>1, FileRests DEF SnapInv
<1>4. SaveInv'
  <2>1. <<>> \o FileOf(caches) = FileOf(caches) /\ <<>> \in Seq(SnapFields)
    BY <1>2
  <2> QED
    BY <1>1, <1>2, <2>1 DEF SaveInv
<1> QED
  BY <1>1, <1>3, <1>4, SaveRests DEF SnapInv

LEMMA WriteFieldKeeps == ASSUME SnapInv, WriteField PROVE SnapInv'
<1>1. /\ proc = "save" /\ proc' = proc /\ fields # <<>>
      /\ tmp' = Append(tmp, Head(fields)) /\ fields' = Tail(fields)
      /\ UNCHANGED <<keyLength, caches, pending, snap, scans, saved, lost>>
  BY DEF WriteField
<1>2. tmp \in Seq(SnapFields) /\ fields \in Seq(SnapFields) /\ tmp \o fields = FileOf(caches)
  BY <1>1 DEF SnapInv, SaveInv
<1>3. tmp' \in Seq(SnapFields) /\ fields' \in Seq(SnapFields) /\ tmp' \o fields' = tmp \o fields
  BY <1>1, <1>2, MovedOn
<1>4. FileInv'
  BY <1>1, FileRests DEF SnapInv
<1>5. SaveInv'
  BY <1>1, <1>2, <1>3 DEF SaveInv
<1> QED
  BY <1>1, <1>4, <1>5, SaveRests DEF SnapInv

LEMMA RenameKeeps == ASSUME SnapInv, Rename PROVE SnapInv'
<1>1. /\ proc = "save" /\ fields = <<>> /\ proc' = "ready" /\ snap' = tmp /\ saved' = Kept(caches) /\ lost' = FALSE
      /\ UNCHANGED <<keyLength, caches, pending, scans>>
  BY DEF Rename
<1>2. tmp \in Seq(SnapFields) /\ tmp = FileOf(caches)
  BY <1>1 DEF SnapInv, SaveInv
<1>3. caches \in SnapMaps /\ SnapStateInv /\ KeysInv
  BY DEF SnapInv, SnapStateInv
<1>4. Kept(caches) \in SnapMaps /\ Kept(Kept(caches)) = Kept(caches) /\ FileOf(Kept(caches)) = FileOf(caches)
  BY <1>3, KeptIs, FileOfKept
<1>5. PartOf(Kept(caches), caches)
  BY <1>3, KeptIs DEF PartOf
<1>6. SnapStateInv'
  BY <1>1, <1>3, <1>4 DEF SnapStateInv
<1>7. FileInv'
  <2>1. snap' = FileOf(saved') /\ saved' = Kept(saved') /\ snap' \in Seq(SnapFields)
    BY <1>1, <1>2, <1>4
  <2>2. Len(snap') \in Nat
    BY <2>1
  <2> QED
    BY <2>1, <2>2 DEF FileInv
<1>8. KeysInv'
  <2>1. FitsKeys(caches) => FitsKeys(saved')
    BY <1>1, <1>5, PartFits
  <2> QED
    BY <1>1, <1>3, <2>1 DEF KeysInv, FitsKeys
<1> QED
  BY <1>1, <1>6, <1>7, <1>8 DEF SnapInv, SaveInv, LoadInv

LEMMA SaveFailsKeeps == ASSUME SnapInv, SaveFails PROVE SnapInv'
<1>1. proc' = "ready" /\ UNCHANGED <<keyLength, caches, pending, snap, scans, saved, lost>>
  BY DEF SaveFails
<1>2. FileInv'
  BY <1>1, FileRests DEF SnapInv
<1> QED
  BY <1>1, <1>2, SaveRests DEF SnapInv, SaveInv

\* A start leaves all but what it reads alone, and what it has read is a part of what was saved.
LEMMA StartKeeps ==
  ASSUME SnapInv, proc' \in {"load", "ready"}, LoadInv', pending' \in SnapMaps, PartOf(pending', saved),
         UNCHANGED <<keyLength, caches, snap, scans, saved, lost>>
  PROVE  SnapInv'
<1>1. SnapStateInv'
  BY DEF SnapInv, SnapStateInv
<1>2. FileInv'
  BY FileRests DEF SnapInv
<1>3. FitsKeys(saved) => FitsKeys(pending')
  BY PartFits
<1>4. KeysInv'
  BY <1>3 DEF SnapInv, KeysInv, FitsKeys
<1> QED
  BY <1>1, <1>2, <1>4 DEF SnapInv, SaveInv

LEMMA NothingIsPart == ASSUME NEW m PROVE PartOf(Nothing, m) /\ PartOf(m, m)
BY DEF PartOf, Nothing

LEMMA LoadKeeps == ASSUME SnapInv, Load PROVE SnapInv'
<1>1. proc' \in {"load", "ready"} /\ UNCHANGED <<keyLength, caches, snap, scans, saved, lost>>
  BY DEF Load
<1>2. LoadInv' /\ pending' = Nothing
  BY LoadBegins
<1> QED
  BY <1>1, <1>2, NothingIs, NothingIsPart, StartKeeps

LEMMA ReadTableKeeps == ASSUME SnapInv, ReadTable PROVE SnapInv'
<1>1. proc' \in {"load", "ready"} /\ UNCHANGED <<keyLength, caches, snap, scans, saved, lost>>
  BY DEF ReadTable, LoadRest
<1> QED
  BY <1>1, ReadTableReads, StartKeeps

LEMMA ReadPageKeeps == ASSUME SnapInv, ReadPage PROVE SnapInv'
<1>1. proc' \in {"load", "ready"} /\ UNCHANGED <<keyLength, caches, snap, scans, saved, lost>>
  BY DEF ReadPage, LoadRest
<1> QED
  BY <1>1, ReadPageReads, StartKeeps

LEMMA ReadShortKeeps == ASSUME SnapInv, ReadInv, ReadShort PROVE SnapInv'
<1>1. proc' = "ready" /\ pending' \in {Nothing, pending} /\ UNCHANGED <<keyLength, caches, snap, scans, saved, lost>>
  BY DEF ReadShort, LoadRest
<1>2. pending \in SnapMaps /\ PartOf(pending, saved)
  BY DEF SnapInv, SnapStateInv, ReadInv, ReadShort
<1>3. pending' \in SnapMaps /\ PartOf(pending', saved)
  BY <1>1, <1>2, NothingIs, NothingIsPart
<1> QED
  BY <1>1, <1>3, StartKeeps DEF LoadInv

LEMMA ReadEndKeeps == ASSUME SnapInv, ReadEnd PROVE SnapInv'
<1>1. proc' = "ready" /\ pending' = pending /\ UNCHANGED <<keyLength, caches, snap, scans, saved, lost>>
  BY DEF ReadEnd, LoadRest
<1>2. pending' = saved /\ saved \in SnapMaps
  BY <1>1, EndIsWhole, SavedIs DEF SnapInv
<1> QED
  BY <1>1, <1>2, NothingIsPart, StartKeeps DEF LoadInv

\* The memory is gone.
LEMMA DeathKeeps ==
  ASSUME SnapInv, proc' = "down", caches' = Nothing, pending' = Nothing, FileInv',
         UNCHANGED <<keyLength, scans>>, saved' \in SnapMaps, "retype" \notin SnapEnv => FitsKeys(saved')
  PROVE  SnapInv'
<1>1. SnapStateInv'
  BY NothingIs DEF SnapInv, SnapStateInv
<1>2. KeysInv'
  BY NoTableFits DEF SnapInv, KeysInv, FitsKeys
<1> QED
  BY <1>1, <1>2 DEF SnapInv, SaveInv, LoadInv

LEMMA DieKeeps == ASSUME SnapInv, Die PROVE SnapInv'
<1>1. proc' = "down" /\ caches' = Nothing /\ pending' = Nothing /\ UNCHANGED <<keyLength, snap, scans, saved, lost>>
  BY DEF Die
<1>2. FileInv'
  BY <1>1, FileRests DEF SnapInv
<1>3. saved' \in SnapMaps /\ ("retype" \notin SnapEnv => FitsKeys(saved'))
  BY <1>1 DEF SnapInv, SnapStateInv, KeysInv
<1> QED
  BY <1>1, <1>2, <1>3, DeathKeeps

LEMMA InPlaceIs == ASSUME SnapInv PROVE IsFile(InPlace)
<1>1. InPlace.snap = snap /\ InPlace.saved = saved /\ InPlace.lost = lost
  BY DEF InPlace
<1>2. saved \in SnapMaps /\ ("retype" \notin SnapEnv => FitsKeys(saved))
  BY DEF SnapInv, SnapStateInv, KeysInv
<1>3. FileInv
  BY DEF SnapInv
<1> HIDE DEF InPlace
<1> QED
  BY <1>1, <1>2, <1>3 DEF FileInv, IsFile

LEMMA LosePowerKeeps == ASSUME SnapInv, DurableInv, LosePower PROVE SnapInv'
<1>1. proc' = "down" /\ caches' = Nothing /\ pending' = Nothing /\ UNCHANGED <<keyLength, scans>>
  BY DEF LosePower
<1>2. PICK f \in {InPlace, durable} : \E k \in 0..Len(f.snap) :
        /\ snap' = SubSeq(f.snap, 1, k)
        /\ saved' = f.saved
        /\ lost' = (f.lost \/ k < Len(f.snap))
  BY DEF LosePower
<1>3. PICK k \in 0..Len(f.snap) :
        /\ snap' = SubSeq(f.snap, 1, k)
        /\ saved' = f.saved
        /\ lost' = (f.lost \/ k < Len(f.snap))
  BY <1>2
<1>4. IsFile(f)
  BY InPlaceIs DEF DurableInv
<1> HIDE DEF InPlace
<1>5. /\ f.snap \in Seq(SnapFields) /\ Len(f.snap) \in Nat /\ Len(f.snap) <= Len(FileOf(f.saved))
      /\ \A x \in 1..Len(f.snap) : f.snap[x] = FileOf(f.saved)[x]
      /\ f.saved = Kept(f.saved) /\ (f.snap # FileOf(f.saved) => f.lost \/ f.saved = Nothing)
      /\ f.saved \in SnapMaps /\ ("retype" \notin SnapEnv => FitsKeys(f.saved))
  BY <1>4 DEF IsFile
<1>6. Len(FileOf(f.saved)) \in Nat
  <2>1. FileOf(f.saved) \in Seq(SnapFields)
    BY <1>5, FileIsSeq
  <2> QED
    BY <2>1
<1>7. /\ snap' \in Seq(SnapFields) /\ Len(snap') = k /\ k <= Len(f.snap)
      /\ \A x \in 1..k : snap'[x] = f.snap[x]
  BY <1>3, <1>5
<1>8. snap' # FileOf(f.saved) => lost' \/ f.saved = Nothing
  <2>1. k = Len(f.snap) => snap' = f.snap
    BY <1>3, <1>5, SubSeqFull
  <2>2. k # Len(f.snap) => k < Len(f.snap)
    BY <1>5, <1>7
  <2> QED
    BY <1>3, <1>5, <2>1, <2>2
<1>9. FileInv'
  <2>1. Len(snap') <= Len(FileOf(f.saved))
    BY <1>5, <1>6, <1>7
  <2>2. \A x \in 1..Len(snap') : snap'[x] = FileOf(f.saved)[x]
    BY <1>5, <1>7
  <2> QED
    BY <1>3, <1>5, <1>7, <1>8, <2>1, <2>2 DEF FileInv
<1>10. FitsKeys(f.saved) => FitsKeys(saved')
  BY <1>3
<1> QED
  BY <1>1, <1>3, <1>5, <1>9, <1>10, DeathKeeps

LEMMA SnapInvStutter == ASSUME SnapInv, UNCHANGED snapVars PROVE SnapInv'
<1>1. UNCHANGED <<proc, keyLength, caches, pending, tmp, snap, fields, tablesLeft, pagesLeft, name, scans, saved, lost>>
  BY DEF snapVars, readVars
<1>2. SnapStateInv' /\ SaveInv' /\ KeysInv'
  BY <1>1 DEF SnapInv, SnapStateInv, SaveInv, KeysInv, FitsKeys
<1>3. FileInv'
  BY <1>1, FileRests DEF SnapInv
<1>4. LoadInv'
  BY <1>1 DEF SnapInv, LoadInv, BetweenTables, BetweenPages, ReaderAt
<1> QED
  BY <1>2, <1>3, <1>4 DEF SnapInv

LEMMA SnapInvStep == ASSUME SnapInv, DurableInv, ReadInv, [SnapNext]_snapVars PROVE SnapInv'
<1>1. ASSUME NEW t \in SnapTables, BuildCache(t) PROVE SnapInv'
  BY <1>1, BuildCacheKeeps
<1>2. ASSUME NEW t \in SnapTables, NEW p \in SnapPages, ScanKeys(t, p) PROVE SnapInv'
  BY <1>2, ScanKeysKeeps
<1>3. ASSUME NEW t \in SnapTables, NEW l \in KeyLengths, RetypeKey(t, l) PROVE SnapInv'
  BY <1>3, RetypeKeyKeeps
<1>4. CASE Remap
  BY <1>4, RemapKeeps
<1>5. CASE BeginSave
  BY <1>5, BeginSaveKeeps
<1>6. CASE WriteField
  BY <1>6, WriteFieldKeeps
<1>7. CASE Rename
  BY <1>7, RenameKeeps
<1>8. CASE SaveFails
  BY <1>8, SaveFailsKeeps
<1>9. CASE Load
  BY <1>9, LoadKeeps
<1>10. CASE ReadTable
  BY <1>10, ReadTableKeeps
<1>11. CASE ReadPage
  BY <1>11, ReadPageKeeps
<1>12. CASE ReadShort
  BY <1>12, ReadShortKeeps
<1>13. CASE ReadEnd
  BY <1>13, ReadEndKeeps
<1>14. CASE Die
  BY <1>14, DieKeeps
<1>15. CASE LosePower
  BY <1>15, LosePowerKeeps
<1>16. CASE UNCHANGED snapVars
  BY <1>16, SnapInvStutter
<1> QED
  BY <1>1, <1>2, <1>3, <1>4, <1>5, <1>6, <1>7, <1>8, <1>9, <1>10, <1>11, <1>12, <1>13, <1>14, <1>15, <1>16
     DEF SnapNext

\* The file that may come back is the one before, or what a power failure has left.
LEMMA DurableInvStep ==
  ASSUME SnapInv, SnapInv', DurableInv, [SnapNext]_snapVars
  PROVE  DurableInv'
<1>1. ASSUME durable' = durable, keyLength' = keyLength PROVE DurableInv'
  BY <1>1 DEF DurableInv, IsFile, FitsKeys
<1>2. CASE Rename
  <2>1. durable' \in {durable, InPlace} /\ keyLength' = keyLength
    BY <1>2 DEF Rename
  <2>2. IsFile(durable')
    BY <2>1, InPlaceIs DEF DurableInv
  <2> QED
    BY <2>1, <2>2 DEF DurableInv, IsFile, FitsKeys
<1>3. CASE LosePower
  <2>1. durable' = InPlace'
    BY <1>3 DEF LosePower
  <2>2. IsFile(InPlace)'
    BY InPlaceIs, PTL
  <2> QED
    BY <2>1, <2>2 DEF DurableInv, IsFile, FitsKeys
<1>4. ASSUME NEW t \in SnapTables, NEW l \in KeyLengths, RetypeKey(t, l) PROVE DurableInv'
  <2>1. /\ keyLength' = [keyLength EXCEPT ![t] = l] /\ durable' = durable
        /\ "retype" \in SnapEnv \/ t \notin DOMAIN durable.saved
    BY <1>4 DEF RetypeKey
  <2>2. durable.saved \in SnapMaps /\ keyLength \in [SnapTables -> KeyLengths]
    BY DEF DurableInv, IsFile, SnapInv, SnapStateInv
  <2>3. DOMAIN durable.saved \in SUBSET SnapTables
    BY <2>2, TablesAre
  <2>4. ASSUME "retype" \notin SnapEnv PROVE \A s \in DOMAIN durable.saved : keyLength'[s] = keyLength[s]
    BY <2>1, <2>2, <2>3, <2>4
  <2>5. "retype" \notin SnapEnv => FitsKeys(durable.saved)'
    BY <2>1, <2>4 DEF DurableInv, IsFile, FitsKeys
  <2> QED
    BY <2>1, <2>5 DEF DurableInv, IsFile
<1>5. CASE \E t \in SnapTables : BuildCache(t) \/ (\E p \in SnapPages : ScanKeys(t, p))
  BY <1>1, <1>5 DEF BuildCache, ScanKeys
<1>6. CASE Remap \/ BeginSave \/ WriteField \/ SaveFails \/ Die
  BY <1>1, <1>6 DEF Remap, BeginSave, WriteField, SaveFails, Die
<1>7. CASE Load \/ ReadTable \/ ReadPage \/ ReadShort \/ ReadEnd
  BY <1>1, <1>7 DEF Load, ReadTable, ReadPage, ReadShort, ReadEnd, LoadRest
<1>8. CASE UNCHANGED snapVars
  BY <1>1, <1>8 DEF snapVars
<1> QED
  BY <1>2, <1>3, <1>4, <1>5, <1>6, <1>7, <1>8 DEF SnapNext

\* What has been read is a part of what was saved.
LEMMA ReadInvStep == ASSUME SnapInv, ReadInv, [SnapNext]_snapVars PROVE ReadInv'
<1>1. ASSUME proc' = proc, pending' = pending, saved' = saved PROVE ReadInv'
  BY <1>1 DEF ReadInv
<1>2. CASE Load
  <2>1. pending' = Nothing
    BY <1>2 DEF Load
  <2> QED
    BY <2>1, NothingIsPart DEF ReadInv
<1>3. CASE ReadTable
  <2>1. saved' = saved
    BY <1>3 DEF ReadTable, LoadRest
  <2> QED
    BY <1>3, <2>1, ReadTableReads DEF ReadInv
<1>4. CASE ReadPage
  <2>1. saved' = saved
    BY <1>4 DEF ReadPage, LoadRest
  <2> QED
    BY <1>4, <2>1, ReadPageReads DEF ReadInv
<1>5. CASE ReadShort \/ ReadEnd \/ Die \/ LosePower
  BY <1>5 DEF ReadShort, ReadEnd, Die, LosePower, ReadInv
<1>6. CASE Remap \/ BeginSave \/ WriteField \/ Rename \/ SaveFails
  BY <1>6 DEF Remap, BeginSave, WriteField, Rename, SaveFails, ReadInv
<1>7. CASE \E t \in SnapTables : BuildCache(t) \/ (\E p \in SnapPages : ScanKeys(t, p))
  BY <1>7 DEF BuildCache, ScanKeys, ReadInv
<1>8. CASE \E t \in SnapTables : \E len \in KeyLengths : RetypeKey(t, len)
  BY <1>1, <1>8 DEF RetypeKey
<1>9. CASE UNCHANGED snapVars
  BY <1>1, <1>9 DEF snapVars
<1> QED
  BY <1>2, <1>3, <1>4, <1>5, <1>6, <1>7, <1>8, <1>9 DEF SnapNext

LEMMA SnapInvAlways == SnapSpec => [](SnapInv /\ DurableInv /\ ReadInv)
<1>1. SnapInit => SnapInv /\ DurableInv /\ ReadInv
  <2> SUFFICES ASSUME SnapInit PROVE SnapInv /\ DurableInv /\ ReadInv
    OBVIOUS
  <2>1. SnapInv /\ IsFile(InPlace)
    BY SnapInvInit, InPlaceIs
  <2> QED
    BY <2>1 DEF SnapInit, DurableInv, ReadInv
<1>2. SnapInv /\ DurableInv /\ ReadInv /\ [SnapNext]_snapVars => (SnapInv /\ DurableInv /\ ReadInv)'
  BY SnapInvStep, DurableInvStep, ReadInvStep
<1> QED
  BY <1>1, <1>2, PTL DEF SnapSpec

(***************************************************************************)
(* A start finds all of the snapshots the last completed save has written, *)
(* or, only if power failed since, those of an earlier save or none: never *)
(* a part, unless what a power failure takes of the file reads as zeroes.  *)
(* Whatever the tables, the pages and the lengths of the keys.             *)
(* (save_snapshots, load_snapshots)                                        *)
(***************************************************************************)
THEOREM SnapshotsLoadWhole == "zeroes" \notin SnapEnv => (SnapSpec => LoadIsWhole)
<1> SUFFICES ASSUME "zeroes" \notin SnapEnv PROVE SnapSpec => LoadIsWhole
  OBVIOUS
<1> DEFINE A == proc # "ready" /\ proc' = "ready" /\ proc # "save"
                  => pending' = saved \/ (lost /\ pending' = Nothing)
<1>1. ASSUME SnapInv, [SnapNext]_snapVars PROVE A \/ UNCHANGED snapVars
  <2> SUFFICES ASSUME proc # "ready", proc' = "ready", proc # "save", SnapNext
               PROVE  pending' = saved \/ (lost /\ pending' = Nothing)
    BY <1>1
  <2>1. CASE Load
    BY <1>1, <2>1, LoadBegins
  <2>2. CASE ReadShort
    <3>1. pending' = Nothing
      BY <2>2 DEF ReadShort
    <3> QED
      BY <1>1, <2>2, <3>1, ShortIsCut
  <2>3. CASE ReadEnd
    <3>1. pending' = pending
      BY <2>3 DEF ReadEnd
    <3> QED
      BY <1>1, <2>3, <3>1, EndIsWhole
  <2>4. CASE \E t \in SnapTables : BuildCache(t) \/ (\E p \in SnapPages : ScanKeys(t, p))
    BY <2>4 DEF BuildCache, ScanKeys
  <2>5. CASE \E t \in SnapTables : \E len \in KeyLengths : RetypeKey(t, len)
    BY <2>5 DEF RetypeKey
  <2>6. CASE Remap \/ BeginSave \/ WriteField \/ Rename \/ SaveFails
    BY <2>6 DEF Remap, BeginSave, WriteField, Rename, SaveFails
  <2>7. CASE ReadTable \/ ReadPage \/ Die \/ LosePower
    BY <2>7 DEF ReadTable, ReadPage, Die, LosePower
  <2> QED
    BY <2>1, <2>2, <2>3, <2>4, <2>5, <2>6, <2>7 DEF SnapNext
<1>2. SnapInv /\ [SnapNext]_snapVars => [A]_snapVars
  BY <1>1
<1> QED
  BY <1>2, SnapInvAlways, PTL DEF SnapSpec, LoadIsWhole

(***************************************************************************)
(* If the key of a table keeps its type while anything is remembered of    *)
(* the table, the arrays of a cache have the chunk length the search uses, *)
(* whether they were scanned or came from the file.  (run_watch,           *)
(* sync_table)                                                             *)
(***************************************************************************)
THEOREM ChunksFitTheirKey == "retype" \notin SnapEnv => (SnapSpec => []ChunksHaveKeyLength)
<1> SUFFICES ASSUME "retype" \notin SnapEnv PROVE SnapSpec => []ChunksHaveKeyLength
  OBVIOUS
<1>1. SnapInv => ChunksHaveKeyLength
  <2> SUFFICES ASSUME SnapInv PROVE ChunksHaveKeyLength
    OBVIOUS
  <2>1. FitsKeys(caches)
    BY DEF SnapInv, KeysInv
  <2> QED
    BY <2>1 DEF FitsKeys, ChunksHaveKeyLength
<1> QED
  BY <1>1, SnapInvAlways, PTL

-----------------------------------------------------------------------------
(***************************************************************************)
(* Types: the loops of the reader run over the tables and pages there are. *)
(***************************************************************************)
ReaderRests ==
  /\ proc # "load" => tablesLeft = 0 /\ pagesLeft = 0
  /\ name \in SnapTables
  /\ lost \in BOOLEAN /\ durable.lost \in BOOLEAN

LEMMA ReaderRestsStep == ASSUME SnapInv, SnapInv', ReaderRests, [SnapNext]_snapVars PROVE ReaderRests'
<1>1. CASE Load
  BY <1>1 DEF Load, ReaderRests
<1>2. CASE ReadTable
  <2>1. pending' = Put(pending, name', [len |-> fields[2][2], pages |-> Nothing]) /\ proc' = "load"
        /\ lost' = lost /\ durable' = durable
    BY <1>2 DEF ReadTable, LoadRest
  <2>2. name' \in DOMAIN pending'
    BY <2>1 DEF Put
  <2>3. DOMAIN pending' \subseteq SnapTables
    BY TablesAre DEF SnapInv, SnapStateInv
  <2> QED
    BY <2>1, <2>2, <2>3 DEF ReaderRests
<1>3. CASE ReadPage
  BY <1>3 DEF ReadPage, LoadRest, ReaderRests
<1>4. CASE ReadShort
  BY <1>4 DEF ReadShort, LoadRest, ReaderRests
<1>5. CASE ReadEnd
  BY <1>5 DEF ReadEnd, LoadRest, ReaderRests
<1>6. CASE Die
  BY <1>6 DEF Die, ReaderRests
<1>7. CASE LosePower
  <2>1. proc' = "down" /\ tablesLeft' = 0 /\ pagesLeft' = 0 /\ name' = name /\ durable' = InPlace'
    BY <1>7 DEF LosePower
  <2>2. lost' \in BOOLEAN
    BY <1>7 DEF LosePower
  <2>3. InPlace'.lost = lost'
    BY DEF InPlace
  <2> QED
    BY <2>1, <2>2, <2>3 DEF ReaderRests
<1>8. CASE BeginSave \/ WriteField \/ SaveFails
  BY <1>8 DEF BeginSave, WriteField, SaveFails, ReaderRests
<1>9. CASE Rename
  <2>1. /\ proc = "save" /\ lost' = FALSE /\ UNCHANGED <<tablesLeft, pagesLeft, name>>
        /\ durable' \in {durable, InPlace}
    BY <1>9 DEF Rename, readVars
  <2>2. InPlace.lost = lost
    BY DEF InPlace
  <2>3. durable'.lost \in BOOLEAN
    BY <2>1, <2>2 DEF ReaderRests
  <2> QED
    BY <2>1, <2>3 DEF ReaderRests
<1>10. CASE Remap
  BY <1>10 DEF Remap, readVars, ReaderRests
<1>11. CASE \E t \in SnapTables : BuildCache(t) \/ (\E p \in SnapPages : ScanKeys(t, p))
  BY <1>11 DEF BuildCache, ScanKeys, readVars, ReaderRests
<1>12. CASE \E t \in SnapTables : \E len \in KeyLengths : RetypeKey(t, len)
  BY <1>12 DEF RetypeKey, readVars, ReaderRests
<1>13. CASE UNCHANGED snapVars
  BY <1>13 DEF snapVars, readVars, ReaderRests
<1> QED
  BY <1>1, <1>2, <1>3, <1>4, <1>5, <1>6, <1>7, <1>8, <1>9, <1>10, <1>11, <1>12, <1>13 DEF SnapNext

\* A map has no more tables, and a table no more pages, than there are.
LEMMA NoMoreThanThereAre ==
  ASSUME NEW m \in SnapMaps
  PROVE  /\ Len(TablesOf(m)) \in 0..Cardinality(SnapTables)
         /\ \A i \in 1..Len(TablesOf(m)) :
              Len(PagesOf(m, TablesOf(m)[i])) \in 0..Cardinality(SnapPages)
<1>1. DOMAIN m \in SUBSET SnapTables /\ IsFiniteSet(DOMAIN m)
  BY TablesAre, FS_Subset, SnapFileAssumption
<1>2. Len(TablesOf(m)) = Cardinality(DOMAIN m) /\ Cardinality(DOMAIN m) \in Nat
  BY <1>1, SetAsSeq DEF TablesOf
<1>3. Cardinality(DOMAIN m) <= Cardinality(SnapTables)
      /\ Cardinality(SnapTables) \in Nat /\ Cardinality(SnapPages) \in Nat
  BY <1>1, FS_Subset, FS_CardinalityType, SnapFileAssumption
<1>4. ASSUME NEW i \in 1..Len(TablesOf(m))
      PROVE  Len(PagesOf(m, TablesOf(m)[i])) \in 0..Cardinality(SnapPages)
  <2> DEFINE t == TablesOf(m)[i]
  <2>1. t \in DOMAIN m
    BY TablesInOrder
  <2>2. DOMAIN m[t].pages \in SUBSET SnapPages /\ IsFiniteSet(DOMAIN m[t].pages)
    BY <2>1, EntryIs, PagesAre
  <2>3. Len(PagesOf(m, t)) = Cardinality(DOMAIN m[t].pages) /\ Cardinality(DOMAIN m[t].pages) \in Nat
    BY <2>2, SetAsSeq DEF PagesOf
  <2>4. Cardinality(DOMAIN m[t].pages) <= Cardinality(SnapPages)
    BY <2>2, FS_Subset, SnapFileAssumption
  <2> HIDE DEF t
  <2>5. Len(PagesOf(m, t)) \in 0..Cardinality(SnapPages)
    BY <1>3, <2>3, <2>4
  <2> QED
    BY <2>5 DEF t
<1> QED
  BY <1>2, <1>3, <1>4

LEMMA SnapTypeIs == ASSUME SnapInv, DurableInv, ReaderRests PROVE SnapTypeOK
<1>1. SnapStateInv /\ saved \in SnapMaps /\ durable.saved \in SnapMaps
  BY DEF SnapInv, SnapStateInv, DurableInv, IsFile
<1>2. Cardinality(SnapTables) \in Nat /\ Cardinality(SnapPages) \in Nat
  BY FS_CardinalityType, SnapFileAssumption
<1>3. tablesLeft \in 0..Cardinality(SnapTables) /\ pagesLeft \in 0..Cardinality(SnapPages)
  <2>1. CASE proc # "load"
    BY <1>2, <2>1 DEF ReaderRests
  <2>2. CASE proc = "load" /\ \E i \in 0..Len(TablesOf(saved)) : BetweenTables(i)
    <3>1. PICK i \in 0..Len(TablesOf(saved)) : tablesLeft = Len(TablesOf(saved)) - i /\ pagesLeft = 0
      BY <2>2 DEF BetweenTables
    <3>2. Len(TablesOf(saved)) \in 0..Cardinality(SnapTables)
      BY <1>1, NoMoreThanThereAre
    <3> QED
      BY <1>2, <3>1, <3>2
  <2>3. CASE proc = "load" /\ \E i \in 1..Len(TablesOf(saved)) :
               \E j \in 0..(Len(PagesOf(saved, TablesOf(saved)[i])) - 1) : BetweenPages(i, j)
    <3>1. PICK i \in 1..Len(TablesOf(saved)) :
            \E j \in 0..(Len(PagesOf(saved, TablesOf(saved)[i])) - 1) : BetweenPages(i, j)
      BY <2>3
    <3> DEFINE all == Len(TablesOf(saved))
               np  == Len(PagesOf(saved, TablesOf(saved)[i]))
    <3>2. PICK j \in 0..(np - 1) : BetweenPages(i, j)
      BY <3>1
    <3>3. all \in 0..Cardinality(SnapTables) /\ np \in 0..Cardinality(SnapPages)
      BY <1>1, NoMoreThanThereAre
    <3>4. tablesLeft = all - i /\ pagesLeft = np - j
      BY <3>2 DEF BetweenPages
    <3>5. i \in 1..all /\ j \in 0..(np - 1)
      OBVIOUS
    <3> HIDE DEF all, np
    <3> QED
      BY <1>2, <3>3, <3>4, <3>5
  <2> QED
    BY <2>1, <2>2, <2>3 DEF SnapInv, LoadInv
<1>4. {lost, durable.lost} \subseteq BOOLEAN
  BY DEF ReaderRests
<1>5. {caches, pending, saved, durable.saved} \subseteq SnapMaps
  BY <1>1 DEF SnapStateInv
<1> QED
  BY <1>1, <1>3, <1>4, <1>5 DEF SnapStateInv, ReaderRests, SnapTypeOK

LEMMA SnapTypeCorrect == SnapSpec => []SnapTypeOK
<1>1. SnapInit => ReaderRests
  <2>1. InPlace.lost = lost
    BY DEF InPlace
  <2> QED
    BY <2>1 DEF SnapInit, ReaderRests
<1>2. SnapInv /\ SnapInv' /\ ReaderRests /\ [SnapNext]_snapVars => ReaderRests'
  BY ReaderRestsStep
<1>3. SnapInv /\ DurableInv /\ ReaderRests => SnapTypeOK
  BY SnapTypeIs
<1> QED
  BY <1>1, <1>2, <1>3, SnapInvAlways, PTL DEF SnapSpec

==============================================================================
