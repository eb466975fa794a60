--------------------------- MODULE Covered_proofs ----------------------------
(***************************************************************************)
(* Nothing is missed: theorems about CdcWatch for every set of tables,     *)
(* pages, slots and keys, in every environment that CopedWith describes.   *)
(* A page whose generation is remembered and a transaction the watermark   *)
(* has passed are in the replica, and no delta removes a row that is still *)
(* in the table.                                                           *)
(*                                                                         *)
(* What is said of a table is said of its pages d, its rows in the replica *)
(* and what a process remembers of it: the watermark w, the generations g  *)
(* and the key snapshot prev, which come from memory or from the files.    *)
(***************************************************************************)
EXTENDS CdcWatch_proofs

-----------------------------------------------------------------------------
(***************************************************************************)
(* The surroundings.                                                       *)
(***************************************************************************)
\* At most one table is followed.
Alone == \A t, u \in Followed : t = u

CopedWith ==
  /\ FarPages = {}
  /\ MaxChainDepth > 0
  /\ Env \cap {"rewrite", "duringScan", "slowTxn", "rollback", "wide"} = {}
  /\ FixedPk = {} \/ Env \cap {"snapFails", "crashMidSave"} = {}
  /\ Alone \/ Env \cap {"duringCycle", "sinkFails", "readFails"} = {}
  /\ "earlyGc" \in Env =>
       /\ Followed \subseteq FixedPk
       /\ Env \cap {"release", "grow", "readFails", "stop"} = {}
       /\ Alone \/ "ackLost" \notin Env

-----------------------------------------------------------------------------
(***************************************************************************)
(* The pages d of one table, listed as ls; no transaction from n on has    *)
(* written to them.  Of the file that is true from Fresh on.               *)
(***************************************************************************)
Fresh == nextTxn + 1

Rec(d, l)    == d[l[1]].slots[l[2]]
Rows(d)      == {l \in Locs : IsPrimary(Rec(d, l))}
RowKeys(d)   == {Rec(d, l).key : l \in Rows(d)}
Stubs(d)     == {l \in Locs : Rec(d, l) # NoRec /\ "DELETED" \in Rec(d, l).flags}
KeysOn(d, p) == {Rec(d, l).key : l \in {m \in Rows(d) : m[1] = p}}

WholeRecs(d, ls, n) ==
  \A l \in Locs : Rec(d, l) # NoRec =>
     /\ "INCOMPLETE" \notin Rec(d, l).flags
     /\ Rec(d, l).txn \in 1..(n - 1)
     /\ Rec(d, l).txn <= MaxTxn
     /\ l[1] \in ls

\* A row was inserted after every earlier row of its key was deleted.
StubsOlder(d) ==
  \A l \in Stubs(d), m \in Rows(d) : Rec(d, l).key = Rec(d, m).key => Rec(d, l).txn < Rec(d, m).txn

WellKept(d, ls, pp, n) ==
  /\ WholeRecs(d, ls, n)
  /\ StubsOlder(d)
  /\ pp = 0 => ls = {}
  /\ \A p \in Pages : d[p].gen >= 1

-----------------------------------------------------------------------------
(***************************************************************************)
(* What a process knows of the pages: it is not ahead of them, a record    *)
(* past the watermark is on a page whose generation it has not seen, and   *)
(* the snapshot of a page whose generation it has seen is the page's.      *)
(***************************************************************************)
NotAhead(d, n, w, g) == w < n /\ \A p \in Pages : g[p] <= d[p].gen

NewIsUnseen(d, w, g) ==
  \A l \in Locs : Rec(d, l) # NoRec /\ Rec(d, l).txn > w => g[l[1]] # d[l[1]].gen

SnapIsTrue(d, g, prev, t) ==
  t \in FixedPk /\ Kept(prev) # {} =>
    \A p \in Pages : g[p] = d[p].gen /\ (prev[p] # NoPks \/ KeysOn(d, p) # {}) => prev[p] = KeysOn(d, p)

\* Where a stub may be collected unseen, the snapshots must do: each has the
\* rows the watermark has passed, and only of pages of the table.
SnapHasRows(d, ls, w, prev) ==
  "earlyGc" \in Env =>
    /\ \A p \in Pages : prev[p] # NoPks => p \in ls
    /\ \A l \in Rows(d) : Rec(d, l).txn <= w => prev[l[1]] # NoPks /\ Rec(d, l).key \in prev[l[1]]

Knows(d, ls, n, w, g, prev, t) ==
  /\ NotAhead(d, n, w, g)
  /\ NewIsUnseen(d, w, g)
  /\ SnapIsTrue(d, g, prev, t)
  /\ SnapHasRows(d, ls, w, prev)

(***************************************************************************)
(* What the replica's rows hold: what the watermark has passed, and of a   *)
(* row that is gone nothing that the next scan would not remove.           *)
(***************************************************************************)
RowsHeld(d, rows, w) ==
  \A l \in Rows(d) : Rec(d, l).txn <= w => rows[Rec(d, l).key] = Rec(d, l).txn

StubsHeld(d, rows, w) ==
  \A l \in Stubs(d) : Rec(d, l).txn <= w => rows[Rec(d, l).key] \notin 1..Rec(d, l).txn

NoticedByStub(d, w, k) ==
  \E l \in Stubs(d) : Rec(d, l).key = k /\ Rec(d, l).back # NoLoc /\ Rec(d, l).txn > w

NoticedBySnap(d, g, prev, k) ==
  \E p \in Pages : prev[p] # NoPks /\ k \in prev[p] /\ g[p] # d[p].gen

GoneNoticed(d, rows, w, g, prev) ==
  \A k \in Keys \ RowKeys(d) : rows[k] # NoRow =>
     IF "earlyGc" \in Env THEN NoticedBySnap(d, g, prev, k) ELSE NoticedByStub(d, w, k)

Holds(d, rows, w, g, prev) ==
  RowsHeld(d, rows, w) /\ StubsHeld(d, rows, w) /\ GoneNoticed(d, rows, w, g, prev)

MissesNothing(d, ls, n, rows, w, g, prev, t) ==
  Knows(d, ls, n, w, g, prev, t) /\ Holds(d, rows, w, g, prev)

\* Of table t, the process in state st with the snapshot prev misses nothing.
Covers(st, prev, t) ==
  MissesNothing(disk[t], listed[t], Fresh, pg[t], Watermark(st, t), st.gens[t], prev, t)

-----------------------------------------------------------------------------
(***************************************************************************)
(* The inductive invariant.                                                *)
(***************************************************************************)
Current(t) == IF cache[t].on THEN cache[t].prev ELSE pending[t]

MemCovers(t)  == pc # "down" => Covers(mem, Current(t), t)
FileCovers(t) == pc # "saveSnap" => Covers(file, snap[t], t)

CacheFacts(t) ==
  /\ pc = "down" => ~cache[t].on
  /\ ~cache[t].on => cache[t].prev = EmptySnapshot
  /\ cache[t].on => /\ pending[t] = EmptySnapshot
                    /\ cache[t].ppGen <= ppGen[t]
                    /\ cache[t].ppGen = ppGen[t] => cache[t].pages = listed[t]

InOrder(t) == WellKept(disk[t], listed[t], ppGen[t], Fresh)

\* Between the two saves the state file is what is in memory; a snapshot file
\* that has to do for collected stubs is written from caches that are there.
SaveFacts ==
  /\ pc = "saveSnap" => file = mem
  /\ pc \in {"saveState", "saveSnap"} /\ "earlyGc" \in Env => \A t \in Followed : cache[t].on
  /\ "earlyGc" \in Env => mapped

\* The tables of this cycle that are done with are in the replica as they are:
\* the watermark they share may pass what the tables before them have shown.
Done(t) == \E i \in DOMAIN TableOrder : TableOrder[i] = t /\ i < turn

ContentOf(d) ==
  [k \in Keys |-> IF k \in RowKeys(d)
                  THEN Rec(d, CHOOSE l \in Rows(d) : Rec(d, l).key = k).txn
                  ELSE NoRow]

SnapHasAll(d, prev) ==
  "earlyGc" \in Env => \A l \in Rows(d) : prev[l[1]] # NoPks /\ Rec(d, l).key \in prev[l[1]]

Settled(t) == pg[t] = ContentOf(disk[t]) /\ SnapHasAll(disk[t], Current(t))

CycleFacts ==
  pc \in {"table", "scan"} =>
    \A t \in Followed :
       /\ cycle.newMax < Fresh
       /\ Alone => cycle.newMax <= Watermark(mem, t)
       /\ ~Alone /\ Done(t) => Settled(t)
       /\ "earlyGc" \in Env /\ Done(t) => cache[t].on

\* What a scan above the watermark w, of a table whose generations g and whose
\* snapshot prev are known, tells of the pages ps it has done with.
Tells(d, ps, w, g, prev, t) ==
  /\ \A u \in scan.ups : /\ u.loc \in Rows(d) /\ u.key = Rec(d, u.loc).key
                         /\ u.txn = Rec(d, u.loc).txn /\ u.txn > w
  /\ \A l \in Rows(d) : l[1] \in ps /\ Rec(d, l).txn > w => \E u \in scan.ups : u.key = Rec(d, l).key
  /\ \A k \in scan.dels : \E l \in Stubs(d) : Rec(d, l).key = k /\ Rec(d, l).txn > w
  /\ \A l \in Stubs(d) : l[1] \in ps /\ Rec(d, l).txn > w /\ Rec(d, l).back # NoLoc
                           => Rec(d, l).key \in scan.dels
  /\ \A l \in Locs : l[1] \in ps /\ Rec(d, l) # NoRec /\ Rec(d, l).txn > w
                       => Rec(d, l).txn <= scan.maxTxn
  /\ \A p \in Pages :
       /\ scan.newGens[p] = IF p \in ps /\ g[p] # d[p].gen THEN d[p].gen ELSE 0
       /\ scan.newPks[p] = IF p \in ps /\ t \in FixedPk /\ (g[p] # d[p].gen \/ Kept(prev) = {})
                           THEN KeysOn(d, p) ELSE NoPks

Gathered(t) ==
  /\ cache[t].on /\ cache[t].pages = listed[t] /\ scan.todo \subseteq listed[t]
  /\ scan.maxTxn < Fresh
  /\ Tells(disk[t], listed[t] \ scan.todo, scan.lastTxn, mem.gens[t], cache[t].prev, t)

ScanFacts == pc = "scan" => TableOrder[turn] \in Followed /\ Gathered(TableOrder[turn])

Covered ==
  /\ begun = {}
  /\ \A t \in Tables : InOrder(t)
  /\ \A t \in Followed : MemCovers(t) /\ FileCovers(t) /\ CacheFacts(t)
  /\ SaveFacts /\ CycleFacts /\ ScanFacts

-----------------------------------------------------------------------------
(***************************************************************************)
(* The operators of the model, said of the pages.                          *)
(***************************************************************************)
PageFuns == [Pages -> Page]

LEMMA DiskIsPages ==
  ASSUME FbTypeOK, NEW t \in Tables
  PROVE  /\ disk[t] \in PageFuns
         /\ \A l \in Locs : RecAt(t, l) = Rec(disk[t], l)
         /\ LiveLocs(t) = Rows(disk[t])
         /\ LiveKeys(t) = RowKeys(disk[t])
         /\ Content(t) = ContentOf(disk[t])
<1>1. disk[t] \in PageFuns
  BY DEF FbTypeOK, PageFuns
<1>2. \A l : RecAt(t, l) = Rec(disk[t], l)
  BY DEF RecAt, Rec
<1>3. LiveLocs(t) = Rows(disk[t])
  BY <1>2 DEF LiveLocs, Rows
<1>4. LiveKeys(t) = RowKeys(disk[t])
  BY <1>2, <1>3 DEF LiveKeys, RowKeys
<1>5. Content(t) = ContentOf(disk[t])
  BY DEF Content, ContentOf, LiveKeys, RowKeys, LiveLocs, Rows, RecAt, Rec
<1> QED
  BY <1>1, <1>2, <1>3, <1>4, <1>5

LEMMA RecType ==
  ASSUME NEW d \in PageFuns, NEW l \in Locs, Rec(d, l) # NoRec
  PROVE  /\ Rec(d, l) \in Record
         /\ Rec(d, l).flags \subseteq Flags
         /\ Rec(d, l).txn \in Nat
         /\ Rec(d, l).key \in Keys
         /\ l[1] \in Pages
         /\ d[l[1]].gen \in Nat
<1>1. l[1] \in Pages /\ l[2] \in Slots
  BY DEF Locs
<1>2. d[l[1]] \in Page
  BY <1>1 DEF PageFuns
<1>3. Rec(d, l) \in Record
  BY <1>1, <1>2 DEF Page, Rec
<1> QED
  BY <1>1, <1>2, <1>3 DEF Page, Record

LEMMA GenType == ASSUME NEW d \in PageFuns, NEW p \in Pages PROVE d[p].gen \in Nat
BY DEF PageFuns, Page

\* A row is a primary version, a stub is not a row.
LEMMA RowsAndStubs ==
  ASSUME NEW d
  PROVE  /\ \A l \in Rows(d) : l \in Locs /\ Rec(d, l) # NoRec
                               /\ {"DELETED", "CHAIN"} \cap Rec(d, l).flags = {}
         /\ \A l \in Stubs(d) : l \in Locs /\ Rec(d, l) # NoRec /\ l \notin Rows(d)
BY DEF Rows, Stubs, IsPrimary

\* The key array of a page is that of its rows: none is fragmented.
LEMMA PagePksAre ==
  ASSUME FbTypeOK, NEW t \in Tables, NEW p \in Pages, NEW ls, NEW n, WholeRecs(disk[t], ls, n), Chains(t)
  PROVE  PagePks(t, p) = KeysOn(disk[t], p)
<1> DEFINE d == disk[t]
<1>1. d \in PageFuns
  BY DiskIsPages
<1>2. \A s \in Slots : <<p, s>> \in Locs /\ Rec(d, <<p, s>>) = d[p].slots[s]
  BY DEF Locs, Rec
<1>3. ASSUME NEW s \in Slots, d[p].slots[s] # NoRec
      PROVE  d[p].slots[s].flags = {} <=> <<p, s>> \in Rows(d)
  <2>1. Rec(d, <<p, s>>).flags \subseteq Flags /\ "INCOMPLETE" \notin Rec(d, <<p, s>>).flags
    BY <1>1, <1>2, <1>3, RecType DEF WholeRecs
  <2>2. "DELTA" \in Rec(d, <<p, s>>).flags => "CHAIN" \in Rec(d, <<p, s>>).flags
    BY <1>2, <1>3 DEF Chains, ReadsAsIs, RecAt
  <2> QED
    BY <1>2, <1>3, <2>1, <2>2 DEF Rows, IsPrimary, Flags
<1>4. \A l \in Rows(d) : l[1] = p => l[2] \in Slots /\ l = <<p, l[2]>> /\ d[p].slots[l[2]] # NoRec
  BY DEF Rows, Locs, IsPrimary, Rec
<1>5. PagePks(t, p) = {d[p].slots[s].key : s \in {r \in Slots : d[p].slots[r] # NoRec /\ d[p].slots[r].flags = {}}}
  BY DEF PagePks, Used
<1>6. KeysOn(d, p) = {Rec(d, l).key : l \in {m \in Rows(d) : m[1] = p}}
  BY DEF KeysOn
<1> HIDE DEF d
<1>7. ASSUME NEW k, k \in PagePks(t, p) PROVE k \in KeysOn(d, p)
  <2>1. PICK s \in Slots : d[p].slots[s] # NoRec /\ d[p].slots[s].flags = {} /\ k = d[p].slots[s].key
    BY <1>5, <1>7
  <2>2. <<p, s>> \in Rows(d) /\ <<p, s>>[1] = p /\ Rec(d, <<p, s>>).key = k
    BY <1>2, <1>3, <2>1
  <2> QED
    BY <1>6, <2>2
<1>8. ASSUME NEW k, k \in KeysOn(d, p) PROVE k \in PagePks(t, p)
  <2>1. PICK l \in Rows(d) : l[1] = p /\ Rec(d, l).key = k
    BY <1>6, <1>8
  <2>2. l[2] \in Slots /\ d[p].slots[l[2]] # NoRec /\ d[p].slots[l[2]].flags = {} /\ d[p].slots[l[2]].key = k
    BY <1>2, <1>3, <1>4, <2>1
  <2> QED
    BY <1>5, <2>2
<1> QED
  BY <1>7, <1>8 DEF d

\* The keys of a page are keys of the table, and each row's key is on its page.
LEMMA KeysOnPages ==
  ASSUME NEW d \in PageFuns
  PROVE  /\ \A p : KeysOn(d, p) \subseteq RowKeys(d)
         /\ \A l \in Rows(d) : Rec(d, l).key \in KeysOn(d, l[1])
         /\ RowKeys(d) \subseteq Keys
         /\ \A p : KeysOn(d, p) # NoPks
<1>1. RowKeys(d) \subseteq Keys
  BY RecType, RowsAndStubs DEF RowKeys
<1>2. \A p : KeysOn(d, p) \subseteq RowKeys(d)
  BY DEF KeysOn, RowKeys
<1>3. \A p : KeysOn(d, p) # NoPks
  BY <1>1, <1>2, CdcScanAssumption
<1> QED
  BY <1>1, <1>2, <1>3 DEF KeysOn

\* The walk back from a stub ends at the first record met, when every record
\* can be read.
LEMMA ChainKeyIs ==
  ASSUME NEW t, MaxChainDepth > 0, \A l \in Locs : RecAt(t, l) # NoRec => Readable(RecAt(t, l)),
         NEW loc \in Locs \cup {NoLoc}
  PROVE  ChainKey(t, loc) = IF IsRec(t, loc) THEN {RecAt(t, loc).reads} ELSE {}
<1> DEFINE L == Locs \cup {NoLoc}
           Walk(f) == [e \in 0..MaxChainDepth |->
              [l \in L |->
                 IF e = 0 \/ ~IsRec(t, l) THEN {}
                 ELSE IF Readable(RecAt(t, l)) THEN {RecAt(t, l).reads}
                 ELSE IF RecAt(t, l).flags \cap {"CHAIN", "DELETED"} = {} THEN {}
                 ELSE f[e - 1][RecAt(t, l).back]]]
           first == [e \in 0..MaxChainDepth |->
              [l \in L |-> IF e = 0 \/ ~IsRec(t, l) THEN {} ELSE {RecAt(t, l).reads}]]
           from == CHOOSE f : f = Walk(f)
<1>1. \A l \in L : IsRec(t, l) => Readable(RecAt(t, l))
  BY DEF IsRec
<1>2. first = Walk(first)
  BY <1>1
<1>3. from = Walk(from)
  <2> HIDE DEF Walk, first
  <2> QED
    BY <1>2
<1>4. MaxChainDepth \in 0..MaxChainDepth /\ MaxChainDepth # 0
  BY CdcScanAssumption
<1>5. from[MaxChainDepth][loc] = Walk(from)[MaxChainDepth][loc]
  <2> HIDE DEF Walk, from
  <2> QED
    BY <1>3
<1>6. Walk(from)[MaxChainDepth][loc] = IF IsRec(t, loc) THEN {RecAt(t, loc).reads} ELSE {}
  <2> HIDE DEF from
  <2> QED
    BY <1>1, <1>4
<1>7. ChainKey(t, loc) = from[MaxChainDepth][loc]
  BY DEF ChainKey
<1> QED
  BY <1>5, <1>6, <1>7
-----------------------------------------------------------------------------
(***************************************************************************)
(* What Firebird may do to the pages while a process with the watermark w  *)
(* looks away: a page that changes gets a new generation, what is written  *)
(* is past the watermark, a row that goes was behind it and leaves a stub, *)
(* and without early garbage collection a stub that is not behind the      *)
(* watermark stays.                                                        *)
(***************************************************************************)
Evolves(d, e, w) ==
  /\ \A p \in Pages : e[p] = d[p] \/ e[p].gen > d[p].gen
  /\ \A l \in Rows(e) :
       \/ Rec(e, l).txn > w
       \/ l \in Rows(d) /\ Rec(e, l).key = Rec(d, l).key /\ Rec(e, l).txn = Rec(d, l).txn
  /\ \A l \in Stubs(e) :
       \/ Rec(e, l).txn > w
       \/ l \in Stubs(d) /\ Rec(e, l).key = Rec(d, l).key /\ Rec(e, l).txn = Rec(d, l).txn
  /\ \A l \in Rows(d) :
       \/ Rec(d, l).key \in RowKeys(e)
       \/ /\ Rec(d, l).txn <= w
          /\ e[l[1]] # d[l[1]]
          /\ \E m \in Stubs(e) : /\ Rec(e, m).key = Rec(d, l).key /\ Rec(e, m).txn > w
                                 /\ Rec(e, m).back # NoLoc
  /\ "earlyGc" \notin Env =>
       \A l \in Stubs(d) : Rec(d, l).txn > w => l \in Stubs(e) /\ Rec(e, l) = Rec(d, l)

LEMMA SamePage ==
  ASSUME NEW d, NEW e, NEW p, e[p] = d[p]
  PROVE  KeysOn(e, p) = KeysOn(d, p) /\ \A l : l[1] = p => Rec(e, l) = Rec(d, l)
<1>1. \A l : l[1] = p => Rec(e, l) = Rec(d, l)
  BY DEF Rec
<1>2. {m \in Rows(e) : m[1] = p} = {m \in Rows(d) : m[1] = p}
  BY <1>1 DEF Rows
<1>3. \A l \in {m \in Rows(d) : m[1] = p} : Rec(e, l).key = Rec(d, l).key
  BY <1>1
<1> QED
  BY <1>1, <1>2, <1>3 DEF KeysOn

\* Looking away costs no knowledge ...
LEMMA KnowsEvolves ==
  ASSUME NEW d \in PageFuns, NEW e \in PageFuns, NEW n \in Nat, NEW m \in Nat, n <= m,
         NEW w \in Nat, NEW g \in [Pages -> Nat], NEW prev, NEW t, NEW ls, NEW ns,
         "earlyGc" \in Env => ls \subseteq ns,
         Evolves(d, e, w), Knows(d, ls, n, w, g, prev, t)
  PROVE  Knows(e, ns, m, w, g, prev, t)
<1>1. \A p \in Pages : d[p].gen \in Nat /\ e[p].gen \in Nat /\ g[p] \in Nat
  BY GenType
<1>2. \A p \in Pages : g[p] <= d[p].gen /\ (e[p] = d[p] \/ e[p].gen > d[p].gen)
  BY DEF Knows, NotAhead, Evolves
<1>3. \A p \in Pages : g[p] = e[p].gen => e[p] = d[p]
  BY <1>1, <1>2
<1>4. NotAhead(e, m, w, g)
  <2>1. w < m
    BY DEF Knows, NotAhead
  <2>2. \A p \in Pages : g[p] <= e[p].gen
    BY <1>1, <1>2
  <2> QED
    BY <2>1, <2>2 DEF NotAhead
<1>5. NewIsUnseen(e, w, g)
  <2>1. ASSUME NEW l \in Locs, Rec(e, l) # NoRec, Rec(e, l).txn > w, g[l[1]] = e[l[1]].gen
        PROVE  FALSE
    <3>1. l[1] \in Pages
      BY DEF Locs
    <3>2. Rec(e, l) = Rec(d, l) /\ e[l[1]] = d[l[1]]
      BY <1>3, <2>1, <3>1, SamePage
    <3> QED
      BY <2>1, <3>2 DEF Knows, NewIsUnseen
  <2> QED
    BY <2>1 DEF NewIsUnseen
<1>6. SnapIsTrue(e, g, prev, t)
  <2>1. ASSUME NEW p \in Pages, g[p] = e[p].gen PROVE g[p] = d[p].gen /\ KeysOn(e, p) = KeysOn(d, p)
    BY <1>3, <2>1, SamePage
  <2> QED
    BY <2>1 DEF Knows, SnapIsTrue
<1>7. SnapHasRows(e, ns, w, prev)
  <2>1. \A l \in Rows(e) : Rec(e, l).txn <= w =>
           l \in Rows(d) /\ Rec(e, l).key = Rec(d, l).key /\ Rec(e, l).txn = Rec(d, l).txn
    <3>1. \A l \in Rows(e) : Rec(e, l).txn \in Nat
      BY RowsAndStubs, RecType
    <3> QED
      BY <3>1 DEF Evolves, Knows, NotAhead
  <2> QED
    BY <2>1 DEF Knows, SnapHasRows
<1> QED
  BY <1>4, <1>5, <1>6, <1>7 DEF Knows

\* ... and the replica holds what it held, and will be told of what is gone.
LEMMA HoldsEvolves ==
  ASSUME NEW d \in PageFuns, NEW e \in PageFuns, NEW n, NEW rows,
         NEW w \in Nat, NEW g \in [Pages -> Nat], NEW prev, NEW t, NEW ls,
         Evolves(d, e, w), Knows(d, ls, n, w, g, prev, t), Holds(d, rows, w, g, prev)
  PROVE  Holds(e, rows, w, g, prev)
<1>1. \A l \in Rows(e) \cup Stubs(e) : Rec(e, l).txn \in Nat
  BY RecType, RowsAndStubs
<1>2. RowsHeld(e, rows, w)
  BY <1>1 DEF Evolves, Holds, RowsHeld
<1>3. StubsHeld(e, rows, w)
  BY <1>1 DEF Evolves, Holds, StubsHeld
<1>4. \A p \in Pages : g[p] # d[p].gen => g[p] # e[p].gen
  BY GenType DEF Evolves, Knows, NotAhead
<1>5. ASSUME NEW k \in Keys \ RowKeys(e), rows[k] # NoRow
      PROVE  IF "earlyGc" \in Env THEN NoticedBySnap(e, g, prev, k) ELSE NoticedByStub(e, w, k)
  <2>1. CASE k \notin RowKeys(d) /\ "earlyGc" \in Env
    BY <1>4, <1>5, <2>1 DEF Holds, GoneNoticed, NoticedBySnap
  <2>2. CASE k \notin RowKeys(d) /\ "earlyGc" \notin Env
    <3>1. NoticedByStub(d, w, k)
      BY <1>5, <2>2 DEF Holds, GoneNoticed
    <3> QED
      BY <2>2, <3>1 DEF NoticedByStub, Evolves
  <2>3. CASE k \in RowKeys(d)
    <3>1. PICK l \in Rows(d) : Rec(d, l).key = k
      BY <2>3 DEF RowKeys
    <3>2. /\ Rec(d, l).txn <= w /\ e[l[1]] # d[l[1]] /\ l[1] \in Pages
          /\ \E m \in Stubs(e) : Rec(e, m).key = k /\ Rec(e, m).txn > w /\ Rec(e, m).back # NoLoc
      BY <1>5, <3>1, RowsAndStubs, RecType DEF Evolves
    <3>3. NoticedByStub(e, w, k)
      BY <3>2 DEF NoticedByStub
    <3>4. "earlyGc" \in Env => prev[l[1]] # NoPks /\ k \in prev[l[1]]
      BY <3>1, <3>2 DEF Knows, SnapHasRows
    <3>5. g[l[1]] # e[l[1]].gen
      BY <3>2, GenType DEF Evolves, Knows, NotAhead
    <3> QED
      BY <3>2, <3>3, <3>4, <3>5 DEF NoticedBySnap
  <2> QED
    BY <2>1, <2>2, <2>3
<1> QED
  BY <1>2, <1>3, <1>5 DEF Holds, GoneNoticed

\* A step that leaves the pages as they are.
LEMMA EvolvesSame == ASSUME NEW d, NEW w PROVE Evolves(d, d, w)
BY DEF Evolves, RowKeys
-----------------------------------------------------------------------------
(***************************************************************************)
(* Every step of Firebird is of that kind, for the watermark of the state  *)
(* file and for one in memory that is not behind it; and it keeps the      *)
(* table in order.                                                         *)
(***************************************************************************)
Watermarks(t) == {w \in {Watermark(mem, t), Watermark(file, t)} : w >= Watermark(file, t)}

TableMoves(t) ==
  /\ WellKept(disk'[t], listed'[t], ppGen'[t], Fresh')
  /\ Fresh' >= Fresh
  /\ \A w \in Watermarks(t) : Evolves(disk[t], disk'[t], w)
  /\ "earlyGc" \in Env => listed[t] \subseteq listed'[t]
  /\ \/ ppGen'[t] > ppGen[t]
     \/ ppGen'[t] = ppGen[t] /\ listed'[t] = listed[t]

LEMMA WatermarksType ==
  ASSUME TypeOK, NEW t \in Tables, NEW w \in Watermarks(t)
  PROVE  /\ w \in Nat /\ Watermark(file, t) \in Nat /\ w >= Watermark(file, t)
         /\ \A x : Unreached(x) => w < x
BY WatermarkType DEF Watermarks, TypeOK, Unreached

LEMMA FreshType == ASSUME TypeOK PROVE nextTxn \in Nat \ {0} /\ Fresh \in Nat /\ Fresh = nextTxn + 1
BY DEF TypeOK, FbTypeOK, Fresh

LEMMA FreshNextType == ASSUME TypeOK' PROVE Fresh' \in Nat
<1> DEFINE n == nextTxn'
<1>1. n \in Nat
  BY DEF TypeOK, FbTypeOK
<1>2. Fresh' = n + 1
  BY DEF Fresh
<1> HIDE DEF n
<1>3. n + 1 \in Nat
  BY <1>1
<1> QED
  BY <1>2, <1>3

LEMMA StoreMoves ==
  ASSUME FbTypeOK, NEW t \in Tables, NEW new, DOMAIN new \subseteq Locs, Store(t, new)
  PROVE  /\ \A l \in Locs : Rec(disk'[t], l) = IF l \in DOMAIN new THEN new[l] ELSE Rec(disk[t], l)
         /\ \A p \in Pages : disk'[t][p] = disk[t][p] \/ disk'[t][p].gen > disk[t][p].gen
         /\ \A p \in Pages : disk'[t][p].gen \in Nat /\ disk'[t][p].gen >= disk[t][p].gen
         /\ \A l \in DOMAIN new : disk'[t][l[1]] # disk[t][l[1]]
<1>1. ASSUME NEW p \in Pages
      PROVE  IF \E s \in Slots : <<p, s>> \in DOMAIN new
             THEN disk'[t][p].gen = disk[t][p].gen + 1
             ELSE disk'[t][p] = disk[t][p]
  BY <1>1 DEF Store, FbTypeOK, Page
<1>2. \A p \in Pages : disk[t][p].gen \in Nat
  BY DEF FbTypeOK, Page
<1>3. \A l \in DOMAIN new : l[1] \in Pages /\ \E s \in Slots : <<l[1], s>> \in DOMAIN new
  BY DEF Locs
<1>4. \A l \in Locs : RecAt(t, l)' = IF l \in DOMAIN new THEN new[l] ELSE RecAt(t, l)
  BY StoreAt
<1>5. \A l \in Locs : Rec(disk'[t], l) = IF l \in DOMAIN new THEN new[l] ELSE Rec(disk[t], l)
  BY <1>4 DEF RecAt, Rec
<1> QED
  BY <1>1, <1>2, <1>3, <1>5

\* The page a record is written to is one of the table's.
LEMMA ListMoves ==
  ASSUME FbTypeOK, FarPages = {}, NEW t \in Tables, NEW p \in Pages, List(t, {p})
  PROVE  /\ listed'[t] = listed[t] \cup {p}
         /\ ppGen[t] = 0 /\ listed[t] = {} => ppGen'[t] # 0
         /\ ppGen[t] # 0 => ppGen'[t] # 0
         /\ \/ ppGen'[t] > ppGen[t]
            \/ ppGen'[t] = ppGen[t] /\ listed'[t] = listed[t]
BY DEF FbTypeOK, List

LEMMA InsertMoves ==
  ASSUME CopedWith, TypeOK, NEW t \in Tables, InOrder(t), Unreached(nextTxn), begun = {},
         NEW l, NEW k, Insert(t, l, k, nextTxn, FALSE)
  PROVE  TableMoves(t)
<1> DEFINE d == disk[t]
           e == disk'[t]
           head == NewRecord(HeadFlags(FALSE), nextTxn, k, NoLoc)
           new == [m \in {l} |-> head]
<1>1. l \in Locs /\ Rec(d, l) = NoRec /\ Store(t, new) /\ List(t, {l[1]}) /\ l[1] \in Pages
      /\ nextTxn' = nextTxn /\ nextTxn <= MaxTxn /\ FbTypeOK /\ d \in PageFuns /\ k \in Keys
  BY DiskIsPages DEF Insert, FreeLoc, FreeKey, RecAt, Rec, Uses, TypeOK, Locs
<1>2. DOMAIN new = {l} /\ new[l] = head
  OBVIOUS
<1>3. Fresh' = Fresh /\ Fresh \in Nat /\ nextTxn \in 1..(Fresh - 1)
  BY <1>1, FreshType DEF Fresh
<1>4. head.flags = {} /\ head.txn = nextTxn /\ head.key = k /\ head \in Record
  BY <1>1, FreshType, HeadFlagsType, NewRecordType DEF HeadFlags
<1>5. head # NoRec
  BY <1>4, NoRecAssumption
<1>6. \A m \in Stubs(d) : Rec(d, m).key = k => Rec(d, m).txn < nextTxn
  BY <1>1, DiskIsPages DEF Insert, FreeKey, Ended, IsRec, Stubs
<1> HIDE DEF new, head
<1>7. /\ Rec(e, l) = head /\ \A m \in Locs : m # l => Rec(e, m) = Rec(d, m)
      /\ \A p \in Pages : e[p] = d[p] \/ e[p].gen > d[p].gen
      /\ \A p \in Pages : e[p].gen \in Nat /\ e[p].gen >= d[p].gen
  BY <1>1, <1>2, StoreMoves
<1> HIDE DEF d, e
<1>8. Stubs(e) = Stubs(d) /\ \A m \in Stubs(d) : Rec(e, m) = Rec(d, m)
  BY <1>1, <1>4, <1>5, <1>7 DEF Stubs
<1>9. Rows(e) = Rows(d) \cup {l} /\ \A m \in Rows(d) : m # l /\ Rec(e, m) = Rec(d, m)
  BY <1>1, <1>4, <1>5, <1>7 DEF Rows, IsPrimary
<1>10. ASSUME NEW w \in Watermarks(t) PROVE Evolves(d, e, w)
  <2>1. Rec(e, l).txn > w
    BY <1>4, <1>7, FreshType, WatermarksType
  <2>2. \A m \in Rows(d) : Rec(d, m).key \in RowKeys(e)
    BY <1>9 DEF RowKeys
  <2> QED
    BY <1>7, <1>8, <1>9, <2>1, <2>2 DEF Evolves
<1>11. /\ WholeRecs(d, listed[t], Fresh) /\ StubsOlder(d)
       /\ ppGen[t] = 0 => listed[t] = {}
       /\ \A p \in Pages : d[p].gen >= 1
  BY DEF d, InOrder, WellKept
<1>12. WholeRecs(e, listed'[t], Fresh)
  BY <1>1, <1>3, <1>4, <1>7, <1>11, ListMoves DEF WholeRecs, CopedWith
<1>13. StubsOlder(e)
  BY <1>4, <1>6, <1>7, <1>8, <1>9, <1>11 DEF StubsOlder
<1>14. \A p \in Pages : e[p].gen >= 1
  BY <1>1, <1>7, <1>11, GenType
<1>15. WellKept(e, listed'[t], ppGen'[t], Fresh)
  BY <1>1, <1>11, <1>12, <1>13, <1>14, ListMoves DEF WellKept, CopedWith
<1> QED
  BY <1>1, <1>3, <1>10, <1>15, ListMoves DEF TableMoves, CopedWith, d, e

\* UPDATE and DELETE: the record head at l, the version it replaces at b.
Replaced(t, l, b, head) ==
  /\ l \in Rows(disk[t]) /\ b \in Locs /\ b # l /\ Rec(disk[t], b) = NoRec
  /\ Rec(disk'[t], l) = head /\ head # NoRec
  /\ "CHAIN" \in Rec(disk'[t], b).flags /\ "DELETED" \notin Rec(disk'[t], b).flags
  /\ \A m \in Locs \ {l, b} : Rec(disk'[t], m) = Rec(disk[t], m)
  /\ disk'[t][l[1]] # disk[t][l[1]]
  /\ \A p \in Pages : disk'[t][p] = disk[t][p] \/ disk'[t][p].gen > disk[t][p].gen
  /\ WholeRecs(disk'[t], listed'[t], Fresh')
  /\ \A p \in Pages : disk'[t][p].gen >= 1
  /\ Fresh' = Fresh /\ Fresh \in Nat

LEMMA ReplaceStores ==
  ASSUME CopedWith, TypeOK, NEW t \in Tables, InOrder(t), NEW l \in LiveLocs(t), NEW b, NEW head,
         NEW old \in OldVersions(t, l),
         head \in Record, head.txn = nextTxn, "INCOMPLETE" \notin head.flags,
         FreeLoc(t, b), Uses(nextTxn), List(t, {b[1]}),
         NEW new, Store(t, new), DOMAIN new = {l, b}, new[l] = head, b # l => new[b] = old
  PROVE  Replaced(t, l, b, head)
<1> DEFINE d == disk[t]
           e == disk'[t]
<1>1. /\ l \in Rows(d) /\ l \in Locs /\ b \in Locs /\ Rec(d, b) = NoRec /\ Rec(d, l) # NoRec /\ b # l
      /\ {"DELETED", "CHAIN"} \cap Rec(d, l).flags = {} /\ Rec(d, l) \in Record
      /\ nextTxn <= MaxTxn /\ b[1] \in Pages /\ d \in PageFuns
      /\ FbTypeOK /\ head # NoRec
  <2>1. FbTypeOK /\ d \in PageFuns /\ nextTxn <= MaxTxn
    BY DiskIsPages DEF TypeOK, Uses
  <2>2. l \in Rows(d) /\ b \in Locs /\ Rec(d, b) = NoRec
    BY <2>1, DiskIsPages DEF FreeLoc
  <2>3. l \in Locs /\ Rec(d, l) # NoRec /\ {"DELETED", "CHAIN"} \cap Rec(d, l).flags = {}
    BY <2>2, RowsAndStubs
  <2>4. Rec(d, l) \in Record /\ b[1] \in Pages
    BY <2>1, <2>2, <2>3, RecType DEF Locs
  <2> QED
    BY <2>1, <2>2, <2>3, <2>4, NoRecAssumption
<1>2. Fresh' = Fresh /\ Fresh \in Nat /\ nextTxn \in 1..(Fresh - 1)
  BY FreshType DEF Uses, Fresh
<1>3. /\ "CHAIN" \in old.flags /\ "DELETED" \notin old.flags /\ old.txn = Rec(d, l).txn
      /\ "INCOMPLETE" \in old.flags => "INCOMPLETE" \in Rec(d, l).flags
  <2>1. RecAt(t, l) = Rec(d, l)
    BY <1>1, DiskIsPages
  <2>2. "CHAIN" \in old.flags /\ "DELETED" \notin old.flags /\ old.txn = Rec(d, l).txn
    BY <1>1, <2>1, OldVersionKeeps
  <2>3. "INCOMPLETE" \in old.flags => "INCOMPLETE" \in Rec(d, l).flags
    <3>1. CASE old = OldVersion(t, l)
      BY <1>1, <2>1, <3>1, OldVersionKeeps
    <3>2. CASE \E k \in Keys : old = Delta(t, l, k)
      <4>1. old.flags = {"CHAIN", "DELTA"}
        BY <1>1, <2>1, <3>2 DEF Delta, Record
      <4> QED
        BY <4>1
    <3> QED
      BY <3>1, <3>2 DEF OldVersions
  <2> QED
    BY <2>2, <2>3
<1>4. /\ Rec(e, l) = head /\ Rec(e, b) = old
      /\ \A m \in Locs \ {l, b} : Rec(e, m) = Rec(d, m)
      /\ \A p \in Pages : e[p] = d[p] \/ e[p].gen > d[p].gen
      /\ \A p \in Pages : e[p].gen \in Nat /\ e[p].gen >= d[p].gen
      /\ e[l[1]] # d[l[1]]
  BY <1>1, StoreMoves
<1> HIDE DEF d, e
<1>5. WholeRecs(d, listed[t], Fresh) /\ \A p \in Pages : d[p].gen >= 1
  BY DEF d, InOrder, WellKept
<1>6. WholeRecs(e, listed'[t], Fresh)
  <2>1. listed'[t] = listed[t] \cup {b[1]}
    BY <1>1, ListMoves DEF CopedWith
  <2>2. /\ Rec(d, l).txn \in 1..(Fresh - 1) /\ Rec(d, l).txn <= MaxTxn
        /\ l[1] \in listed[t] /\ "INCOMPLETE" \notin Rec(d, l).flags
    BY <1>1, <1>5 DEF WholeRecs
  <2>3. ASSUME NEW m \in Locs, Rec(e, m) # NoRec
        PROVE  /\ "INCOMPLETE" \notin Rec(e, m).flags
               /\ Rec(e, m).txn \in 1..(Fresh - 1) /\ Rec(e, m).txn <= MaxTxn
               /\ m[1] \in listed'[t]
    <3>1. CASE m = l
      BY <1>1, <1>2, <1>4, <2>1, <2>2, <3>1
    <3>2. CASE m = b
      BY <1>1, <1>3, <1>4, <2>1, <2>2, <3>2
    <3>3. CASE m \notin {l, b}
      BY <1>4, <1>5, <2>1, <2>3, <3>3 DEF WholeRecs
    <3> QED
      BY <3>1, <3>2, <3>3
  <2> QED
    BY <2>3 DEF WholeRecs
<1>7. \A p \in Pages : e[p].gen >= 1
  BY <1>1, <1>4, <1>5, GenType
<1> QED
  BY <1>1, <1>2, <1>3, <1>4, <1>6, <1>7 DEF Replaced, d, e

LEMMA UpdateMoves ==
  ASSUME CopedWith, TypeOK, NEW t \in Tables, InOrder(t), Unreached(nextTxn),
         NEW l, NEW b, Update(t, l, b, nextTxn, FALSE)
  PROVE  TableMoves(t)
<1> DEFINE d == disk[t]
           e == disk'[t]
           head == NewRecord(HeadFlags(FALSE), nextTxn, RecAt(t, l).key, b)
           new(old) == [m \in {l, b} |-> IF m = l THEN head ELSE old]
<1>1. /\ FreeLoc(t, b) /\ Uses(nextTxn) /\ List(t, {b[1]}) /\ l \in LiveLocs(t)
      /\ RecAt(t, l).txn < nextTxn /\ b \in Locs /\ b[1] \in Pages
      /\ d \in PageFuns /\ FbTypeOK /\ RecAt(t, l) = Rec(d, l)
  BY DiskIsPages DEF Update, TypeOK, FreeLoc, Locs, RecAt, Rec
<1>2. PICK old \in OldVersions(t, l) : Store(t, new(old))
  BY DEF Update
<1>3. head \in Record /\ head.txn = nextTxn /\ head.flags = {} /\ head.key = Rec(d, l).key
  <2>1. RecAt(t, l).key \in Keys
    BY <1>1, OldVersionType DEF Record
  <2>2. head = NewRecord({}, nextTxn, RecAt(t, l).key, b)
    BY DEF HeadFlags
  <2>3. nextTxn \in Nat /\ b \in Locs \cup {NoLoc}
    BY <1>1, FreshType
  <2> HIDE DEF head
  <2> QED
    BY <1>1, <2>1, <2>2, <2>3, NewRecordType
<1>4. DOMAIN new(old) = {l, b} /\ new(old)[l] = head /\ (b # l => new(old)[b] = old)
  OBVIOUS
<1> HIDE DEF head, new
<1>5. Replaced(t, l, b, head)
  BY <1>1, <1>2, <1>3, <1>4, ReplaceStores
<1>6. /\ l \in Rows(d) /\ b \in Locs /\ b # l /\ Rec(d, b) = NoRec
      /\ Rec(e, l) = head /\ head # NoRec
      /\ "CHAIN" \in Rec(e, b).flags /\ "DELETED" \notin Rec(e, b).flags
      /\ \A m \in Locs \ {l, b} : Rec(e, m) = Rec(d, m)
      /\ \A p \in Pages : e[p] = d[p] \/ e[p].gen > d[p].gen
      /\ WholeRecs(e, listed'[t], Fresh') /\ Fresh' = Fresh /\ Fresh \in Nat
      /\ \A p \in Pages : e[p].gen >= 1
  BY <1>5 DEF Replaced
<1> HIDE DEF d, e
<1>7. Stubs(e) = Stubs(d) /\ \A m \in Stubs(d) : Rec(e, m) = Rec(d, m)
  BY <1>3, <1>6, RowsAndStubs DEF Stubs
<1>8. Rows(e) = Rows(d) /\ \A m \in Rows(d) \ {l} : Rec(e, m) = Rec(d, m)
  BY <1>3, <1>6, RowsAndStubs DEF Rows, IsPrimary
<1>9. \A m \in Rows(d) : Rec(e, m).key = Rec(d, m).key
  BY <1>3, <1>6, <1>8
<1>10. ASSUME NEW w \in Watermarks(t) PROVE Evolves(d, e, w)
  <2>1. Rec(e, l).txn > w
    BY <1>3, <1>6, FreshType, WatermarksType
  <2>2. \A m \in Rows(d) : Rec(d, m).key \in RowKeys(e)
    BY <1>8, <1>9 DEF RowKeys
  <2> QED
    BY <1>6, <1>7, <1>8, <2>1, <2>2 DEF Evolves
<1>11. StubsOlder(d) /\ (ppGen[t] = 0 => listed[t] = {})
  BY DEF d, InOrder, WellKept
<1>12. StubsOlder(e)
  <2>1. ASSUME NEW m \in Stubs(d), Rec(d, m).key = Rec(d, l).key PROVE Rec(e, m).txn < Rec(e, l).txn
    <3>1. Rec(d, m).txn < Rec(d, l).txn /\ Rec(d, m).txn \in Nat /\ Rec(d, l).txn \in Nat
      BY <1>1, <1>6, <1>11, <2>1, RowsAndStubs, RecType DEF StubsOlder
    <3> QED
      BY <1>1, <1>3, <1>6, <1>7, <3>1, FreshType
  <2> QED
    BY <1>7, <1>8, <1>9, <1>11, <2>1 DEF StubsOlder
<1>13. WellKept(e, listed'[t], ppGen'[t], Fresh')
  BY <1>1, <1>6, <1>11, <1>12, ListMoves DEF WellKept, CopedWith
<1> QED
  BY <1>1, <1>6, <1>10, <1>13, ListMoves DEF TableMoves, CopedWith, d, e

LEMMA DeleteMoves ==
  ASSUME CopedWith, TypeOK, NEW t \in Tables, Chains(t), InOrder(t), Unreached(nextTxn),
         NEW l, NEW b, Delete(t, l, b, nextTxn), Passed(t, l)
  PROVE  TableMoves(t)
<1> DEFINE d == disk[t]
           e == disk'[t]
           head == NewRecord({"DELETED"}, nextTxn, RecAt(t, l).key, b)
           new == [m \in {l, b} |-> IF m = l THEN head ELSE OldVersion(t, l)]
<1>1. /\ FreeLoc(t, b) /\ Uses(nextTxn) /\ List(t, {b[1]}) /\ l \in LiveLocs(t)
      /\ Store(t, new) /\ b \in Locs /\ b[1] \in Pages
      /\ d \in PageFuns /\ FbTypeOK /\ RecAt(t, l) = Rec(d, l)
  BY DiskIsPages DEF Delete, TypeOK, FreeLoc, Locs, RecAt, Rec
<1>2. /\ head \in Record /\ head.txn = nextTxn /\ head.flags = {"DELETED"}
      /\ head.key = Rec(d, l).key /\ head.back = b
  <2>1. RecAt(t, l).key \in Keys
    BY <1>1, OldVersionType DEF Record
  <2>2. {"DELETED"} \in SUBSET Flags
    BY DEF Flags
  <2>3. nextTxn \in Nat /\ b \in Locs \cup {NoLoc}
    BY <1>1, FreshType
  <2> QED
    BY <1>1, <2>1, <2>2, <2>3, NewRecordType
<1>3. DOMAIN new = {l, b} /\ new[l] = head /\ (b # l => new[b] = OldVersion(t, l))
  OBVIOUS
<1> HIDE DEF head, new
<1>4. Replaced(t, l, b, head)
  <2>1. OldVersion(t, l) \in OldVersions(t, l)
    BY DEF OldVersions
  <2> QED
    BY <1>1, <1>2, <1>3, <2>1, ReplaceStores
<1>5. /\ l \in Rows(d) /\ b \in Locs /\ b # l /\ Rec(d, b) = NoRec
      /\ Rec(e, l) = head /\ head # NoRec
      /\ "CHAIN" \in Rec(e, b).flags /\ "DELETED" \notin Rec(e, b).flags
      /\ \A m \in Locs \ {l, b} : Rec(e, m) = Rec(d, m)
      /\ e[l[1]] # d[l[1]]
      /\ \A p \in Pages : e[p] = d[p] \/ e[p].gen > d[p].gen
      /\ WholeRecs(e, listed'[t], Fresh') /\ Fresh' = Fresh /\ Fresh \in Nat
      /\ \A p \in Pages : e[p].gen >= 1
  BY <1>4 DEF Replaced
<1>6. \A m \in Rows(d) : Rec(d, m).key = Rec(d, l).key => m = l
  BY <1>1, <1>5, DiskIsPages, RowsAndStubs DEF Chains, OnePrimary
<1>7. Rec(d, l).txn <= Watermark(file, t) /\ Rec(d, l).txn \in Nat
  BY <1>1, <1>5, RowsAndStubs, RecType DEF Passed
<1> HIDE DEF d, e
<1>8. Stubs(e) = Stubs(d) \cup {l} /\ \A m \in Stubs(d) : m # l /\ Rec(e, m) = Rec(d, m)
  BY <1>2, <1>5, RowsAndStubs DEF Stubs
<1>9. Rows(e) = Rows(d) \ {l} /\ \A m \in Rows(e) : Rec(e, m) = Rec(d, m)
  BY <1>2, <1>5, RowsAndStubs DEF Rows, IsPrimary
<1>10. ASSUME NEW w \in Watermarks(t) PROVE Evolves(d, e, w)
  <2>1. \A m \in Rows(d) \ {l} : Rec(d, m).key \in RowKeys(e)
    BY <1>9 DEF RowKeys
  <2>2. Rec(d, l).txn <= w /\ nextTxn > w /\ b # NoLoc
    BY <1>5, <1>7, FreshType, WatermarksType, NoLocIsNowhere
  <2>3. l \in Stubs(e) /\ Rec(e, l).key = Rec(d, l).key /\ Rec(e, l).txn > w /\ Rec(e, l).back # NoLoc
    BY <1>2, <1>5, <1>8, <2>2
  <2> QED
    BY <1>5, <1>8, <1>9, <2>1, <2>2, <2>3 DEF Evolves
<1>11. StubsOlder(d) /\ (ppGen[t] = 0 => listed[t] = {})
  BY DEF d, InOrder, WellKept
<1>12. StubsOlder(e)
  BY <1>2, <1>5, <1>6, <1>8, <1>9, <1>11 DEF StubsOlder
<1>13. WellKept(e, listed'[t], ppGen'[t], Fresh')
  BY <1>1, <1>5, <1>11, <1>12, ListMoves DEF WellKept, CopedWith
<1> QED
  BY <1>1, <1>5, <1>10, <1>13, ListMoves DEF TableMoves, CopedWith, d, e

\* Records go, or are cut off from what they deleted.
LEMMA CollectBackMoves ==
  ASSUME CopedWith, TypeOK, NEW t \in Tables, Chains(t), InOrder(t),
         NEW l, NEW b, MayCollect(t, l), CollectBack(t, l, b)
  PROVE  TableMoves(t)
<1> DEFINE d == disk[t]
           e == disk'[t]
           cut == [RecAt(t, l) EXCEPT !.back = NoLoc]
           new == [m \in {l, b} |-> IF m = l THEN cut ELSE NoRec]
<1>1. /\ l \in Locs /\ b \in Locs /\ Rec(d, l) # NoRec /\ Rec(d, b) # NoRec /\ Rec(d, l).back = b
      /\ RecAt(t, l) = Rec(d, l) /\ RecAt(t, b) = Rec(d, b) /\ Rec(d, l) \in Record
      /\ UNCHANGED <<listed, ppGen, nextTxn>>
      /\ FbTypeOK /\ d \in PageFuns /\ Watermark(file, t) \in Nat
  BY DiskIsPages, RecType, WatermarkType DEF CollectBack, IsRec, RecAt, Rec, TypeOK, FbTypeOK
<1>2. /\ "CHAIN" \in Rec(d, b).flags /\ "DELETED" \notin Rec(d, b).flags /\ b # NoLoc
      /\ "DELETED" \in Rec(d, l).flags /\ "earlyGc" \notin Env => Rec(d, l).txn <= Watermark(file, t)
  BY <1>1, NoLocIsNowhere DEF Chains, BackIsOld, OldIsPassed, MayCollect, Passed
<1>3. b # l
  BY <1>1, NoLocIsNowhere DEF CollectBack
<1>4. /\ cut \in Record /\ cut # NoRec /\ cut.flags = Rec(d, l).flags
      /\ cut.txn = Rec(d, l).txn /\ cut.key = Rec(d, l).key
  BY <1>1, NoRecAssumption DEF Record
<1>5. Store(t, new) /\ DOMAIN new = {l, b} /\ new[l] = cut /\ new[b] = NoRec
  BY <1>3 DEF CollectBack
<1> HIDE DEF cut, new
<1>6. /\ Rec(e, l) = cut /\ Rec(e, b) = NoRec
      /\ \A m \in Locs \ {l, b} : Rec(e, m) = Rec(d, m)
      /\ \A p \in Pages : e[p] = d[p] \/ e[p].gen > d[p].gen
      /\ \A p \in Pages : e[p].gen \in Nat /\ e[p].gen >= d[p].gen
  BY <1>1, <1>3, <1>5, StoreMoves
<1>7. InOrder(t)
  OBVIOUS
<1> HIDE DEF d, e
<1>8. Stubs(e) = Stubs(d) /\ \A m \in Stubs(d) : Rec(e, m).key = Rec(d, m).key /\ Rec(e, m).txn = Rec(d, m).txn
  BY <1>1, <1>2, <1>4, <1>6 DEF Stubs
<1>9. Rows(e) = Rows(d) /\ \A m \in Rows(d) : Rec(e, m).key = Rec(d, m).key /\ Rec(e, m).txn = Rec(d, m).txn
  BY <1>1, <1>2, <1>4, <1>6 DEF Rows, IsPrimary
<1>10. ASSUME NEW w \in Watermarks(t) PROVE Evolves(d, e, w)
  <2>1. \A m \in Rows(d) : Rec(d, m).key \in RowKeys(e)
    BY <1>9 DEF RowKeys
  <2>2. "earlyGc" \notin Env => \A m \in Stubs(d) : Rec(d, m).txn > w => m \notin {l, b}
    BY <1>1, <1>2, <1>10, WatermarksType DEF Stubs, Record
  <2>3. \A m \in Stubs(d) : m \notin {l, b} => Rec(e, m) = Rec(d, m)
    BY <1>6 DEF Stubs
  <2> QED
    BY <1>6, <1>8, <1>9, <2>1, <2>2, <2>3 DEF Evolves
<1>11. /\ WholeRecs(d, listed[t], Fresh) /\ StubsOlder(d)
       /\ ppGen[t] = 0 => listed[t] = {}
       /\ \A p \in Pages : d[p].gen >= 1
  BY <1>7 DEF d, InOrder, WellKept
<1>12. WholeRecs(e, listed[t], Fresh)
  BY <1>1, <1>4, <1>6, <1>11 DEF WholeRecs
<1>13. StubsOlder(e)
  BY <1>8, <1>9, <1>11 DEF StubsOlder
<1>14. \A p \in Pages : e[p].gen >= 1
  BY <1>1, <1>6, <1>11, GenType
<1>15. WellKept(e, listed'[t], ppGen'[t], Fresh')
  BY <1>1, <1>11, <1>12, <1>13, <1>14 DEF WellKept, Fresh
<1> QED
  BY <1>1, <1>10, <1>15, FreshType DEF TableMoves, Fresh, d, e

LEMMA CollectStubMoves ==
  ASSUME CopedWith, TypeOK, NEW t \in Tables, InOrder(t), NEW l, MayCollect(t, l), CollectStub(t, l)
  PROVE  TableMoves(t)
<1> DEFINE d == disk[t]
           e == disk'[t]
           new == [m \in {l} |-> NoRec]
<1>1. /\ l \in Locs /\ Rec(d, l) # NoRec /\ RecAt(t, l) = Rec(d, l) /\ "DELETED" \in Rec(d, l).flags
      /\ UNCHANGED <<listed, ppGen, nextTxn>> /\ Rec(d, l) \in Record
      /\ FbTypeOK /\ d \in PageFuns /\ Watermark(file, t) \in Nat
  BY DiskIsPages, RecType, WatermarkType DEF CollectStub, IsRec, RecAt, Rec, TypeOK, FbTypeOK
<1>2. "earlyGc" \notin Env => Rec(d, l).txn <= Watermark(file, t)
  BY <1>1 DEF MayCollect, Passed
<1>3. Store(t, new) /\ DOMAIN new = {l} /\ new[l] = NoRec
  BY DEF CollectStub
<1> HIDE DEF new
<1>4. /\ Rec(e, l) = NoRec
      /\ \A m \in Locs \ {l} : Rec(e, m) = Rec(d, m)
      /\ \A p \in Pages : e[p] = d[p] \/ e[p].gen > d[p].gen
      /\ \A p \in Pages : e[p].gen \in Nat /\ e[p].gen >= d[p].gen
  BY <1>1, <1>3, StoreMoves
<1>5. InOrder(t)
  OBVIOUS
<1> HIDE DEF d, e
<1>6. Stubs(e) = Stubs(d) \ {l} /\ \A m \in Stubs(e) : Rec(e, m) = Rec(d, m)
  BY <1>1, <1>4 DEF Stubs
<1>7. Rows(e) = Rows(d) /\ \A m \in Rows(d) : Rec(e, m) = Rec(d, m)
  BY <1>1, <1>4 DEF Rows, IsPrimary
<1>8. ASSUME NEW w \in Watermarks(t) PROVE Evolves(d, e, w)
  <2>1. \A m \in Rows(d) : Rec(d, m).key \in RowKeys(e)
    BY <1>7 DEF RowKeys
  <2>2. "earlyGc" \notin Env => \A m \in Stubs(d) : Rec(d, m).txn > w => m # l
    BY <1>1, <1>2, <1>8, WatermarksType DEF Record
  <2> QED
    BY <1>4, <1>6, <1>7, <2>1, <2>2 DEF Evolves
<1>9. /\ WholeRecs(d, listed[t], Fresh) /\ StubsOlder(d)
      /\ ppGen[t] = 0 => listed[t] = {}
      /\ \A p \in Pages : d[p].gen >= 1
  BY <1>5 DEF d, InOrder, WellKept
<1>10. WholeRecs(e, listed[t], Fresh)
  BY <1>1, <1>4, <1>9 DEF WholeRecs
<1>11. StubsOlder(e)
  BY <1>6, <1>7, <1>9 DEF StubsOlder
<1>12. \A p \in Pages : e[p].gen >= 1
  BY <1>1, <1>4, <1>9, GenType
<1>13. WellKept(e, listed'[t], ppGen'[t], Fresh')
  BY <1>1, <1>9, <1>10, <1>11, <1>12 DEF WellKept, Fresh
<1> QED
  BY <1>1, <1>8, <1>13, FreshType DEF TableMoves, Fresh, d, e

\* An empty page is no longer the table's.
LEMMA ReleaseMoves ==
  ASSUME CopedWith, TypeOK, NEW t \in Tables, InOrder(t), "release" \in Env, NEW p \in Pages, Release(t, p)
  PROVE  TableMoves(t)
<1>1. /\ disk'[t] = disk[t] /\ Fresh' = Fresh
      /\ ppGen[t] \in Nat /\ ppGen'[t] = ppGen[t] + 1 /\ listed'[t] = listed[t] \ {p}
  BY DEF Release, CopedWith, TypeOK, FbTypeOK, Fresh
<1>2. "earlyGc" \notin Env
  BY DEF CopedWith
<1>3. \A l \in Locs : l[1] = p => Rec(disk[t], l) = NoRec
  BY DEF Release, Used, Rec, Locs
<1>4. WholeRecs(disk[t], listed[t] \ {p}, Fresh)
  BY <1>3 DEF InOrder, WellKept, WholeRecs
<1>5. WellKept(disk[t], listed[t] \ {p}, ppGen[t] + 1, Fresh)
  BY <1>1, <1>4 DEF InOrder, WellKept
<1> QED
  BY <1>1, <1>2, <1>5, EvolvesSame, FreshType DEF TableMoves

\* Another table stays as it is.
LEMMA OtherTableMoves ==
  ASSUME TypeOK, NEW t \in Tables, InOrder(t), Fresh' \in Nat, Fresh' >= Fresh,
         disk'[t] = disk[t], listed'[t] = listed[t], ppGen'[t] = ppGen[t]
  PROVE  TableMoves(t)
<1>1. WholeRecs(disk[t], listed[t], Fresh')
  <2>1. WholeRecs(disk[t], listed[t], Fresh)
    BY DEF InOrder, WellKept
  <2>2. \A x \in 1..(Fresh - 1) : x \in 1..(Fresh' - 1)
    <3> DEFINE m == Fresh'
    <3>1. Fresh \in Nat /\ m \in Nat /\ m >= Fresh
      BY FreshType
    <3> HIDE DEF m
    <3>2. \A x \in 1..(Fresh - 1) : x \in 1..(m - 1)
      BY <3>1
    <3> QED
      BY <3>2 DEF m
  <2> QED
    BY <2>1, <2>2 DEF WholeRecs
<1>2. WellKept(disk[t], listed[t], ppGen[t], Fresh')
  BY <1>1 DEF InOrder, WellKept
<1> QED
  BY <1>2, EvolvesSame DEF TableMoves

LEMMA FirebirdMoves ==
  ASSUME CopedWith, TypeOK, TypeOK', begun = {}, Firebird,
         \A t \in Tables : Chains(t) /\ InOrder(t)
  PROVE  begun' = {} /\ \A t \in Tables : TableMoves(t)
<1>1. begun \cup {nextTxn} = {nextTxn} /\ Widths = {FALSE}
      /\ \A x \in {y \in begun \cup {nextTxn} : MayUse(y)} : x = nextTxn /\ Unreached(nextTxn)
  BY DEF Widths, CopedWith, MayUse
<1>2. ASSUME NEW t \in Tables, NEW new, Store(t, new), NEW u \in Tables, u # t
      PROVE  disk'[u] = disk[u]
  BY <1>2 DEF Store, TypeOK, FbTypeOK
<1>3. ASSUME NEW t \in Tables, NEW p, List(t, {p}), NEW u \in Tables, u # t
      PROVE  listed'[u] = listed[u] /\ ppGen'[u] = ppGen[u]
  BY <1>3 DEF List, TypeOK, FbTypeOK
<1>4. Fresh' \in Nat
  BY FreshNextType
<1>5. ASSUME NEW t \in Tables, TableMoves(t),
             \A u \in Tables : u # t => disk'[u] = disk[u] /\ listed'[u] = listed[u] /\ ppGen'[u] = ppGen[u]
      PROVE  \A u \in Tables : TableMoves(u)
  <2>1. Fresh' >= Fresh
    BY <1>5 DEF TableMoves
  <2> QED
    BY <1>4, <1>5, <2>1, OtherTableMoves
<1>6. CASE \E t \in Tables, l \in Locs, x \in {y \in begun \cup {nextTxn} : MayUse(y)} :
             \E k \in Keys, w \in Widths : Insert(t, l, k, x, w)
  <2>1. PICK t \in Tables, l \in Locs, k \in Keys : Insert(t, l, k, nextTxn, FALSE) /\ Unreached(nextTxn)
    BY <1>1, <1>6
  <2>2. TableMoves(t)
    BY <2>1, InsertMoves
  <2>3. begun' = {} /\ List(t, {l[1]}) /\ \E new : Store(t, new)
    BY <2>1 DEF Insert, Uses
  <2> QED
    BY <1>2, <1>3, <1>5, <2>2, <2>3
<1>7. CASE \E t \in Tables, l \in Locs, x \in {y \in begun \cup {nextTxn} : MayUse(y)} :
             \E b \in Locs, w \in Widths : l \in LiveLocs(t) /\ MayRewrite(t, l) /\ Update(t, l, b, x, w)
  <2>1. PICK t \in Tables, l \in Locs, b \in Locs : Update(t, l, b, nextTxn, FALSE) /\ Unreached(nextTxn)
    BY <1>1, <1>7
  <2>2. TableMoves(t)
    BY <2>1, UpdateMoves
  <2>3. begun' = {} /\ List(t, {b[1]}) /\ \E new : Store(t, new)
    BY <2>1 DEF Update, Uses
  <2> QED
    BY <1>2, <1>3, <1>5, <2>2, <2>3
<1>8. CASE \E t \in Tables, l \in Locs, x \in {y \in begun \cup {nextTxn} : MayUse(y)} :
             \E b \in Locs : l \in LiveLocs(t) /\ MayRewrite(t, l) /\ Delete(t, l, b, x)
  <2>1. PICK t \in Tables, l \in Locs, b \in Locs :
          Delete(t, l, b, nextTxn) /\ Passed(t, l) /\ Unreached(nextTxn)
    BY <1>1, <1>8 DEF MayRewrite, CopedWith
  <2>2. TableMoves(t)
    BY <2>1, DeleteMoves
  <2>3. begun' = {} /\ List(t, {b[1]}) /\ \E new : Store(t, new)
    BY <2>1 DEF Delete, Uses
  <2> QED
    BY <1>2, <1>3, <1>5, <2>2, <2>3
<1>9. CASE \E t \in Tables, l \in Locs :
             \/ \E b \in Locs : IsRec(t, l) /\ MayCollect(t, l) /\ CollectBack(t, l, b)
             \/ IsRec(t, l) /\ MayCollect(t, l) /\ CollectStub(t, l)
  <2>1. PICK t \in Tables, l \in Locs :
          MayCollect(t, l) /\ ((\E b \in Locs : CollectBack(t, l, b)) \/ CollectStub(t, l))
    BY <1>9
  <2>2. TableMoves(t)
    BY <2>1, CollectBackMoves, CollectStubMoves
  <2>3. UNCHANGED <<begun, listed, ppGen>> /\ \E new : Store(t, new)
    BY <2>1 DEF CollectBack, CollectStub
  <2> QED
    BY <1>2, <1>5, <2>2, <2>3
<1>10. CASE "release" \in Env /\ \E t \in Tables, p \in Pages : Release(t, p)
  <2>1. PICK t \in Tables, p \in Pages : Release(t, p)
    BY <1>10
  <2>2. TableMoves(t)
    BY <1>10, <2>1, ReleaseMoves
  <2>3. UNCHANGED <<begun, disk>> /\ \A u \in Tables : u # t => listed'[u] = listed[u] /\ ppGen'[u] = ppGen[u]
    BY <2>1 DEF Release, TypeOK, FbTypeOK
  <2> QED
    BY <1>5, <2>2, <2>3
<1>11. CASE \E x \in begun \cup {nextTxn} : Commit(x)
  <2>1. begun' = {} /\ UNCHANGED <<disk, listed, ppGen>> /\ Fresh' = Fresh + 1
    BY <1>1, <1>11 DEF Commit, Fresh
  <2> QED
    BY <1>4, <2>1, FreshType, OtherTableMoves
<1> QED
  BY <1>6, <1>7, <1>8, <1>9, <1>10, <1>11 DEF Firebird, CopedWith
-----------------------------------------------------------------------------
(***************************************************************************)
(* When the replica is the table, whoever knows the pages misses nothing.  *)
(***************************************************************************)
OneRowEach(d) == \A l, m \in Rows(d) : Rec(d, l).key = Rec(d, m).key => l = m

LEMMA ContentIs ==
  ASSUME NEW d \in PageFuns, OneRowEach(d)
  PROVE  /\ \A l \in Rows(d) : Rec(d, l).key \in Keys /\ ContentOf(d)[Rec(d, l).key] = Rec(d, l).txn
         /\ \A k \in Keys \ RowKeys(d) : ContentOf(d)[k] = NoRow
<1>1. ASSUME NEW l \in Rows(d)
      PROVE  Rec(d, l).key \in Keys /\ ContentOf(d)[Rec(d, l).key] = Rec(d, l).txn
  <2> DEFINE m == CHOOSE m \in Rows(d) : Rec(d, m).key = Rec(d, l).key
  <2>1. m \in Rows(d) /\ Rec(d, m).key = Rec(d, l).key
    OBVIOUS
  <2>2. m = l
    BY <2>1 DEF OneRowEach
  <2>3. Rec(d, l).key \in RowKeys(d) /\ Rec(d, l).key \in Keys
    BY KeysOnPages DEF RowKeys
  <2>4. ContentOf(d)[Rec(d, l).key] = Rec(d, m).txn
    BY <2>3 DEF ContentOf
  <2> QED
    BY <2>2, <2>3, <2>4
<1> QED
  BY <1>1 DEF ContentOf

LEMMA ContentType ==
  ASSUME NEW d \in PageFuns, OneRowEach(d)
  PROVE  ContentOf(d) \in [Keys -> Nat]
<1>1. ASSUME NEW k \in Keys PROVE ContentOf(d)[k] \in Nat
  <2>1. CASE k \in RowKeys(d)
    <3>1. PICK l \in Rows(d) : Rec(d, l).key = k
      BY <2>1 DEF RowKeys
    <3> QED
      BY <3>1, ContentIs, RowsAndStubs, RecType
  <2>2. CASE k \notin RowKeys(d)
    BY <2>2, ContentIs DEF NoRow
  <2> QED
    BY <2>1, <2>2
<1> QED
  BY <1>1 DEF ContentOf

LEMMA ContentMissesNothing ==
  ASSUME NEW d \in PageFuns, OneRowEach(d), NEW ls, NEW pp, NEW n \in Nat, WellKept(d, ls, pp, n),
         NEW w \in Nat, NEW g, NEW prev, NEW t, Knows(d, ls, n, w, g, prev, t)
  PROVE  MissesNothing(d, ls, n, ContentOf(d), w, g, prev, t)
<1>1. RowsHeld(d, ContentOf(d), w)
  BY ContentIs DEF RowsHeld
<1>2. StubsHeld(d, ContentOf(d), w)
  <2>1. ASSUME NEW l \in Stubs(d) PROVE ContentOf(d)[Rec(d, l).key] \notin 1..Rec(d, l).txn
    <3>1. Rec(d, l).key \in Keys /\ Rec(d, l).txn \in Nat
      BY RecType, RowsAndStubs
    <3>2. CASE Rec(d, l).key \in RowKeys(d)
      <4>1. PICK m \in Rows(d) : Rec(d, m).key = Rec(d, l).key
        BY <3>2 DEF RowKeys
      <4>2. Rec(d, l).txn < Rec(d, m).txn /\ Rec(d, m).txn \in Nat
        BY <4>1, RecType, RowsAndStubs DEF WellKept, StubsOlder
      <4>3. ContentOf(d)[Rec(d, l).key] = Rec(d, m).txn
        BY <4>1, ContentIs
      <4> QED
        BY <3>1, <4>2, <4>3
    <3>3. CASE Rec(d, l).key \notin RowKeys(d)
      BY <3>1, <3>3, ContentIs DEF NoRow
    <3> QED
      BY <3>2, <3>3
  <2> QED
    BY <2>1 DEF StubsHeld
<1>3. GoneNoticed(d, ContentOf(d), w, g, prev)
  BY ContentIs DEF GoneNoticed
<1> QED
  BY <1>1, <1>2, <1>3 DEF MissesNothing, Holds

\* Without early garbage collection nobody needs a snapshot.
LEMMA NoSnapshotMissesNothing ==
  ASSUME "earlyGc" \notin Env, NEW d, NEW ls, NEW n, NEW rows, NEW w, NEW g, NEW prev, NEW t,
         MissesNothing(d, ls, n, rows, w, g, prev, t)
  PROVE  MissesNothing(d, ls, n, rows, w, g, EmptySnapshot, t)
<1>1. Kept(EmptySnapshot) = {}
  BY DEF Kept, EmptySnapshot
<1> QED
  BY <1>1 DEF MissesNothing, Knows, SnapIsTrue, SnapHasRows, Holds, GoneNoticed

\* Nor does a table that keeps none.
LEMMA NoFixedPkMissesNothing ==
  ASSUME "earlyGc" \notin Env, NEW d, NEW ls, NEW n, NEW rows, NEW w, NEW g, NEW prev, NEW other, NEW t,
         t \notin FixedPk, MissesNothing(d, ls, n, rows, w, g, prev, t)
  PROVE  MissesNothing(d, ls, n, rows, w, g, other, t)
BY DEF MissesNothing, Knows, SnapIsTrue, SnapHasRows, Holds, GoneNoticed

\* Once the replica is the table the watermark may go up to the last transaction.
LEMMA HigherMissesNothing ==
  ASSUME NEW d \in PageFuns, OneRowEach(d), NEW ls, NEW pp, NEW n \in Nat, WellKept(d, ls, pp, n),
         NEW w \in Nat, NEW v \in Nat, w <= v, v < n, NEW g, NEW prev, NEW t,
         Knows(d, ls, n, w, g, prev, t), SnapHasAll(d, prev)
  PROVE  MissesNothing(d, ls, n, ContentOf(d), v, g, prev, t)
<1>1. NotAhead(d, n, v, g)
  BY DEF Knows, NotAhead
<1>2. NewIsUnseen(d, v, g)
  BY RecType DEF Knows, NewIsUnseen
<1>3. SnapHasRows(d, ls, v, prev)
  BY DEF Knows, SnapHasRows, SnapHasAll
<1>4. Knows(d, ls, n, v, g, prev, t)
  BY <1>1, <1>2, <1>3 DEF Knows
<1> QED
  BY <1>4, ContentMissesNothing

\* A process that has seen every page, or a table that has none, is done.
LEMMA AllSeen ==
  ASSUME NEW d \in PageFuns, OneRowEach(d), NEW ls, NEW pp, NEW n \in Nat, WellKept(d, ls, pp, n),
         NEW w \in Nat, NEW g, NEW prev, NEW t, NEW rows \in [Keys -> Nat],
         MissesNothing(d, ls, n, rows, w, g, prev, t),
         \A p \in ls : g[p] = d[p].gen
  PROVE  rows = ContentOf(d)
<1>1. \A l \in Locs : Rec(d, l) # NoRec => Rec(d, l).txn <= w
  <2>1. ASSUME NEW l \in Locs, Rec(d, l) # NoRec, Rec(d, l).txn > w PROVE FALSE
    <3>1. g[l[1]] # d[l[1]].gen
      BY <2>1 DEF MissesNothing, Knows, NewIsUnseen
    <3>2. l[1] \in ls
      BY <2>1 DEF WellKept, WholeRecs
    <3> QED
      BY <3>1, <3>2
  <2> QED
    BY <2>1, RecType
<1>2. ASSUME NEW k \in RowKeys(d) PROVE rows[k] = ContentOf(d)[k]
  <2>1. PICK l \in Rows(d) : Rec(d, l).key = k
    BY DEF RowKeys
  <2>2. rows[k] = Rec(d, l).txn
    BY <1>1, <2>1, RowsAndStubs DEF MissesNothing, Holds, RowsHeld
  <2> QED
    BY <2>1, <2>2, ContentIs
<1>3. ASSUME NEW k \in Keys \ RowKeys(d), rows[k] # NoRow PROVE FALSE
  <2>1. CASE "earlyGc" \in Env
    <3>1. NoticedBySnap(d, g, prev, k)
      BY <1>3, <2>1 DEF MissesNothing, Holds, GoneNoticed
    <3> QED
      BY <2>1, <3>1 DEF NoticedBySnap, MissesNothing, Knows, SnapHasRows
  <2>2. CASE "earlyGc" \notin Env
    <3>1. NoticedByStub(d, w, k)
      BY <1>3, <2>2 DEF MissesNothing, Holds, GoneNoticed
    <3> QED
      BY <1>1, <3>1, RecType, RowsAndStubs DEF NoticedByStub
  <2> QED
    BY <2>1, <2>2
<1>4. \A k \in Keys : rows[k] = ContentOf(d)[k]
  BY <1>2, <1>3, ContentIs
<1>5. DOMAIN ContentOf(d) = Keys /\ DOMAIN rows = Keys
      /\ ContentOf(d) = [k \in Keys |-> ContentOf(d)[k]] /\ rows = [k \in Keys |-> rows[k]]
  BY DEF ContentOf
<1> QED
  BY <1>4, <1>5
-----------------------------------------------------------------------------
(***************************************************************************)
(* The scan and the delta.                                                 *)
(***************************************************************************)

\* The walk from a stub ends at its own key.
LEMMA BackKey ==
  ASSUME MaxChainDepth > 0, FbTypeOK, NEW t \in Tables, InOrder(t), Chains(t),
         NEW l \in Locs, RecAt(t, l) # NoRec, "DELETED" \in RecAt(t, l).flags
  PROVE  ChainKey(t, RecAt(t, l).back) = IF RecAt(t, l).back = NoLoc THEN {} ELSE {RecAt(t, l).key}
<1>1. \A m \in Locs : RecAt(t, m) # NoRec => Readable(RecAt(t, m))
  BY DiskIsPages DEF InOrder, WellKept, WholeRecs, Readable
<1>2. RecAt(t, l).back \in Locs \cup {NoLoc}
  BY RecAtType DEF Record
<1>3. ChainKey(t, RecAt(t, l).back)
        = IF IsRec(t, RecAt(t, l).back) THEN {RecAt(t, RecAt(t, l).back).reads} ELSE {}
  BY <1>1, <1>2, ChainKeyIs
<1>4. RecAt(t, l).back # NoLoc =>
        IsRec(t, RecAt(t, l).back) /\ RecAt(t, RecAt(t, l).back).key = RecAt(t, l).key
  BY DEF Chains, BackIsOld, IsRec
<1>5. RecAt(t, l).back # NoLoc =>
        RecAt(t, RecAt(t, l).back).reads = RecAt(t, RecAt(t, l).back).key
  BY <1>4 DEF Chains, ReadsAsIs, IsRec
<1>6. ~IsRec(t, NoLoc)
  BY NoLocIsNowhere DEF IsRec
<1> QED
  BY <1>3, <1>4, <1>5, <1>6

\* A record past the watermark is one of the page's new records.
LEMMA NewRecsAre ==
  ASSUME FbTypeOK, NEW t \in Tables, InOrder(t), NEW known, NEW first, NEW w,
         NewIsUnseen(disk[t], w, known), NEW p \in Pages, NEW s \in Slots
  PROVE  /\ <<p, s>> \in Locs /\ RecAt(t, <<p, s>>) = disk[t][p].slots[s]
         /\ Rec(disk[t], <<p, s>>) = disk[t][p].slots[s]
         /\ s \in NewRecs(t, p, known, first, w)
              <=> disk[t][p].slots[s] # NoRec /\ disk[t][p].slots[s].txn > w
         /\ s \in NewRecs(t, p, known, first, w) => PageChanged(t, p, known)
<1>1. <<p, s>> \in Locs /\ <<p, s>>[1] = p /\ RecAt(t, <<p, s>>) = disk[t][p].slots[s]
      /\ Rec(disk[t], <<p, s>>) = disk[t][p].slots[s]
  BY DEF Locs, RecAt, Rec
<1>2. s \in NewRecs(t, p, known, first, w) => disk[t][p].slots[s] # NoRec /\ disk[t][p].slots[s].txn > w
  BY DEF NewRecs, Examined, Used
<1>3. ASSUME disk[t][p].slots[s] # NoRec, disk[t][p].slots[s].txn > w
      PROVE  s \in NewRecs(t, p, known, first, w) /\ PageChanged(t, p, known)
  <2>1. PageChanged(t, p, known)
    BY <1>1, <1>3 DEF NewIsUnseen, PageChanged
  <2>2. Readable(disk[t][p].slots[s])
    BY <1>1, <1>3 DEF InOrder, WellKept, WholeRecs, Readable
  <2> QED
    BY <1>3, <2>1, <2>2 DEF NewRecs, Examined, Used
<1> QED
  BY <1>1, <1>2, <1>3

\* What the upserts, the keys deleted and the transactions say of page p.
PageTells(d, p, w, n, ups, dels, txns) ==
  /\ \A u \in ups : /\ u.loc \in Rows(d) /\ u.key = Rec(d, u.loc).key
                    /\ u.txn = Rec(d, u.loc).txn /\ u.txn > w
  /\ \A l \in Rows(d) : l[1] = p /\ Rec(d, l).txn > w => \E u \in ups : u.key = Rec(d, l).key
  /\ \A k \in dels : \E l \in Stubs(d) : Rec(d, l).key = k /\ Rec(d, l).txn > w
  /\ \A l \in Stubs(d) : l[1] = p /\ Rec(d, l).txn > w /\ Rec(d, l).back # NoLoc => Rec(d, l).key \in dels
  /\ \A l \in Locs : l[1] = p /\ Rec(d, l) # NoRec /\ Rec(d, l).txn > w => Rec(d, l).txn \in txns
  /\ \A x \in txns : x < n

LEMMA PageYields ==
  ASSUME MaxChainDepth > 0, TypeOK, NEW t \in Tables, InOrder(t), Chains(t), NEW known, NEW first, NEW w \in Nat,
         NewIsUnseen(disk[t], w, known), w >= Watermark(file, t), NEW p \in Pages
  PROVE  PageTells(disk[t], p, w, Fresh, PageUpserts(t, p, known, first, w),
                   PageDeletes(t, p, known, first, w), PageTxns(t, p, known, first, w))
<1> DEFINE d == disk[t]
           news == NewRecs(t, p, known, first, w)
<1>1. FbTypeOK /\ d \in PageFuns /\ Fresh \in Nat
  BY DiskIsPages, FreshType DEF TypeOK
<1>2. \A l \in Locs : l[2] \in Slots /\ l = <<l[1], l[2]>>
  BY DEF Locs
<1>3. \A s \in Slots :
        /\ <<p, s>> \in Locs /\ RecAt(t, <<p, s>>) = d[p].slots[s] /\ Rec(d, <<p, s>>) = d[p].slots[s]
        /\ s \in news <=> d[p].slots[s] # NoRec /\ d[p].slots[s].txn > w
        /\ s \in news => PageChanged(t, p, known)
  BY <1>1, NewRecsAre
<1>4. news \subseteq Slots
  BY DEF NewRecs, Examined, Used
<1>5. \A l \in Locs : l[1] = p /\ Rec(d, l) # NoRec /\ Rec(d, l).txn > w =>
        l[2] \in news /\ d[p].slots[l[2]] = Rec(d, l) /\ l = <<p, l[2]>> /\ PageChanged(t, p, known)
  BY <1>2, <1>3
<1>6. \A l \in Stubs(d) :
         ChainKey(t, Rec(d, l).back) = IF Rec(d, l).back = NoLoc THEN {} ELSE {Rec(d, l).key}
  BY <1>1, BackKey, DiskIsPages DEF Stubs
<1>7. PageDeletes(t, p, known, first, w)
        = {k \in Keys : \E s \in news : "DELETED" \in d[p].slots[s].flags /\ k \in ChainKey(t, d[p].slots[s].back)}
  BY DEF PageDeletes
<1>8. PageTxns(t, p, known, first, w) = {d[p].slots[s].txn : s \in news}
  BY DEF PageTxns
<1>9. PageChanged(t, p, known) => PageUpserts(t, p, known, first, w)
        = {RowOf(p, s, d[p].slots[s]) :
             s \in {r \in news : "DELETED" \notin d[p].slots[r].flags}}
  BY DEF PageUpserts
<1>10. ~PageChanged(t, p, known) => PageUpserts(t, p, known, first, w) = {}
  BY DEF PageUpserts
<1>11. \A l \in Locs : Rec(d, l) # NoRec /\ "CHAIN" \in Rec(d, l).flags => Rec(d, l).txn <= w
  <2>1. \A l \in Locs : RecAt(t, l) # NoRec /\ "CHAIN" \in RecAt(t, l).flags => RecAt(t, l).txn <= Watermark(file, t)
    BY DEF Chains, OldIsPassed, Passed
  <2>2. Watermark(file, t) \in Nat
    BY WatermarkType DEF TypeOK
  <2> QED
    BY <1>1, <2>1, <2>2, DiskIsPages, RecType
<1>12. WholeRecs(d, listed[t], Fresh)
  BY DEF InOrder, WellKept
<1>19. \A l \in Locs : Rec(d, l) # NoRec /\ "CHAIN" \notin Rec(d, l).flags =>
         "DELTA" \notin Rec(d, l).flags /\ Rec(d, l).reads = Rec(d, l).key
  BY <1>1, DiskIsPages DEF Chains, ReadsAsIs
<1> HIDE DEF d, news
<1>13. ASSUME NEW u \in PageUpserts(t, p, known, first, w)
       PROVE  u.loc \in Rows(d) /\ u.key = Rec(d, u.loc).key /\ u.txn = Rec(d, u.loc).txn /\ u.txn > w
  <2>1. PICK s \in news : "DELETED" \notin d[p].slots[s].flags /\ u = RowOf(p, s, d[p].slots[s])
    BY <1>9, <1>10
  <2>2. /\ u.loc = <<p, s>> /\ u.loc \in Locs /\ Rec(d, u.loc) = d[p].slots[s] /\ Rec(d, u.loc) # NoRec
        /\ Rec(d, u.loc).txn > w
    BY <1>3, <1>4, <2>1 DEF RowOf
  <2>3. Rec(d, u.loc).txn \in Nat
    BY <1>1, <2>2, RecType
  <2>4. "CHAIN" \notin Rec(d, u.loc).flags
    BY <1>11, <2>2, <2>3
  <2>5. u.key = Rec(d, u.loc).key /\ u.txn = Rec(d, u.loc).txn
    BY <1>19, <2>1, <2>2, <2>4 DEF RowOf
  <2> QED
    BY <2>1, <2>2, <2>4, <2>5 DEF Rows, IsPrimary
<1>14. ASSUME NEW l \in Rows(d), l[1] = p, Rec(d, l).txn > w
       PROVE  \E u \in PageUpserts(t, p, known, first, w) : u.key = Rec(d, l).key
  <2> DEFINE s == l[2]
             u == RowOf(p, s, d[p].slots[s])
  <2>1. s \in news /\ d[p].slots[s] = Rec(d, l) /\ PageChanged(t, p, known) /\ "DELETED" \notin Rec(d, l).flags
    BY <1>5, <1>14, RowsAndStubs
  <2>2. u \in PageUpserts(t, p, known, first, w)
    BY <1>9, <2>1
  <2>3. u.key = Rec(d, l).key
    BY <1>14, <1>19, <2>1, RowsAndStubs DEF RowOf
  <2> QED
    BY <2>2, <2>3
<1>15. ASSUME NEW k \in PageDeletes(t, p, known, first, w)
       PROVE  \E l \in Stubs(d) : Rec(d, l).key = k /\ Rec(d, l).txn > w
  <2>1. PICK s \in news : "DELETED" \in d[p].slots[s].flags /\ k \in ChainKey(t, d[p].slots[s].back)
    BY <1>7
  <2> DEFINE l == <<p, s>>
  <2>2. l \in Locs /\ Rec(d, l) = d[p].slots[s] /\ Rec(d, l) # NoRec /\ Rec(d, l).txn > w
    BY <1>3, <1>4, <2>1
  <2> HIDE DEF l
  <2>3. l \in Stubs(d) /\ k = Rec(d, l).key
    BY <1>6, <2>1, <2>2 DEF Stubs
  <2> QED
    BY <2>2, <2>3
<1>16. ASSUME NEW l \in Stubs(d), l[1] = p, Rec(d, l).txn > w, Rec(d, l).back # NoLoc
       PROVE  Rec(d, l).key \in PageDeletes(t, p, known, first, w)
  <2>1. l \in Locs /\ Rec(d, l) # NoRec /\ "DELETED" \in Rec(d, l).flags
    BY DEF Stubs
  <2>2. l[2] \in news /\ d[p].slots[l[2]] = Rec(d, l)
    BY <1>5, <1>16, <2>1
  <2>3. Rec(d, l).key \in Keys /\ Rec(d, l).key \in ChainKey(t, Rec(d, l).back)
    BY <1>1, <1>6, <1>16, <2>1, RecType DEF Stubs
  <2> QED
    BY <1>7, <2>1, <2>2, <2>3
<1>17. \A l \in Locs : l[1] = p /\ Rec(d, l) # NoRec /\ Rec(d, l).txn > w
         => Rec(d, l).txn \in PageTxns(t, p, known, first, w)
  BY <1>5, <1>8
<1>18. \A x \in PageTxns(t, p, known, first, w) : x < Fresh
  <2>1. \A s \in news : d[p].slots[s].txn \in 1..(Fresh - 1)
    BY <1>3, <1>4, <1>12 DEF WholeRecs
  <2>2. \A x \in 1..(Fresh - 1) : x < Fresh
    BY <1>1
  <2> QED
    BY <1>8, <2>1, <2>2
<1> QED
  BY <1>13, <1>14, <1>15, <1>16, <1>17, <1>18 DEF PageTells, d

LEMMA ExpressDeletesAre ==
  ASSUME NEW prev, NEW new, NEW k
  PROVE  k \in ExpressDeletes(prev, new) <=>
           /\ Kept(new) # {} /\ k \notin AliveKeys(prev, new)
           /\ \E p \in Kept(prev) \cap Kept(new) : k \in prev[p]
<1>1. CASE Kept(prev) = {} \/ Kept(new) = {}
  <2>1. ExpressDeletes(prev, new) = {}
    BY <1>1 DEF ExpressDeletes
  <2> QED
    BY <1>1, <2>1
<1>2. CASE Kept(prev) # {} /\ Kept(new) # {}
  <2> DEFINE both == UNION {prev[p] : p \in Kept(prev) \cap Kept(new)}
  <2>1. ExpressDeletes(prev, new) = both \ AliveKeys(prev, new)
    BY <1>2 DEF ExpressDeletes
  <2>2. k \in both <=> \E p \in Kept(prev) \cap Kept(new) : k \in prev[p]
    OBVIOUS
  <2> HIDE DEF both
  <2> QED
    BY <1>2, <2>1, <2>2
<1> QED
  BY <1>1, <1>2

\* The deletes of a finished scan: every row that is gone, and no row that the
\* watermark has passed.
LEMMA DeletesAre ==
  ASSUME NEW d \in PageFuns, OneRowEach(d), NEW ls, NEW pp, NEW n \in Nat, WellKept(d, ls, pp, n),
         NEW w \in Nat, NEW g, NEW prev \in Snapshot, NEW t, NEW rows \in [Keys -> Nat],
         prev = cache[TableOrder[turn]].prev, "earlyGc" \in Env => t \in FixedPk,
         Tells(d, ls, w, g, prev, t), MissesNothing(d, ls, n, rows, w, g, prev, t)
  PROVE  /\ \A l \in Rows(d) : Rec(d, l).txn <= w => Rec(d, l).key \notin DeltaDeletes
         /\ \A k \in Keys \ RowKeys(d) : rows[k] # NoRow => k \in DeltaDeletes
<1> DEFINE new == scan.newPks
<1>1. /\ SnapIsTrue(d, g, prev, t) /\ SnapHasRows(d, ls, w, prev) /\ RowsHeld(d, rows, w)
      /\ GoneNoticed(d, rows, w, g, prev) /\ WholeRecs(d, ls, n) /\ StubsOlder(d)
  BY DEF MissesNothing, Knows, Holds, WellKept
<1>2. \A p \in Pages : new[p] = IF p \in ls /\ t \in FixedPk /\ (g[p] # d[p].gen \/ Kept(prev) = {})
                                THEN KeysOn(d, p) ELSE NoPks
  BY DEF Tells
<1>3. ASSUME NEW l \in Rows(d), Rec(d, l).txn <= w
      PROVE  Rec(d, l).key \notin scan.dels \cup ExpressDeletes(prev, new)
  <2> DEFINE k == Rec(d, l).key
             p == l[1]
  <2>1. l \in Locs /\ Rec(d, l) # NoRec /\ p \in Pages /\ p \in ls /\ Rec(d, l).txn \in Nat
        /\ k \in KeysOn(d, p) /\ KeysOn(d, p) # NoPks
    BY <1>1, RowsAndStubs, RecType, KeysOnPages DEF WholeRecs
  <2>2. k \notin scan.dels
    <3>1. ASSUME k \in scan.dels PROVE FALSE
      <4>1. PICK m \in Stubs(d) : Rec(d, m).key = k /\ Rec(d, m).txn > w
        BY <3>1 DEF Tells
      <4>2. Rec(d, m).txn < Rec(d, l).txn /\ Rec(d, m).txn \in Nat
        BY <1>1, <4>1, RowsAndStubs, RecType DEF StubsOlder
      <4> QED
        BY <1>3, <2>1, <4>1, <4>2
    <3> QED
      BY <3>1
  <2>3. ASSUME k \in ExpressDeletes(prev, new) PROVE FALSE
    <3>1. Kept(prev) # {} /\ Kept(new) # {} /\ k \notin AliveKeys(prev, new)
      BY <2>3, ExpressDeletesAre
    <3>2. t \in FixedPk
      BY <1>2, <3>1 DEF Kept
    <3>3. CASE new[p] # NoPks
      BY <1>2, <2>1, <3>1, <3>3 DEF AliveKeys, Kept
    <3>4. CASE new[p] = NoPks
      <4>1. g[p] = d[p].gen
        BY <1>2, <2>1, <3>2, <3>4
      <4>2. prev[p] = KeysOn(d, p)
        BY <1>1, <2>1, <3>1, <3>2, <4>1 DEF SnapIsTrue
      <4> QED
        BY <2>1, <3>1, <3>4, <4>2 DEF AliveKeys, Kept
    <3> QED
      BY <3>3, <3>4
  <2> QED
    BY <2>2, <2>3
<1>4. ASSUME NEW k \in Keys \ RowKeys(d), rows[k] # NoRow
      PROVE  k \in scan.dels \cup ExpressDeletes(prev, new)
  <2>1. CASE "earlyGc" \notin Env
    <3>1. NoticedByStub(d, w, k)
      BY <1>1, <1>4, <2>1 DEF GoneNoticed
    <3> QED
      BY <1>1, <3>1, RowsAndStubs DEF NoticedByStub, Tells, WholeRecs
  <2>2. CASE "earlyGc" \in Env
    <3>1. NoticedBySnap(d, g, prev, k)
      BY <1>1, <1>4, <2>2 DEF GoneNoticed
    <3>2. PICK p \in Pages : prev[p] # NoPks /\ k \in prev[p] /\ g[p] # d[p].gen
      BY <3>1 DEF NoticedBySnap
    <3>3. p \in ls /\ t \in FixedPk /\ new[p] # NoPks
      BY <1>1, <1>2, <2>2, <3>2, KeysOnPages DEF SnapHasRows
    <3>4. p \in Kept(prev) \cap Kept(new)
      BY <3>2, <3>3 DEF Kept
    <3>5. \A q \in Kept(new) : k \notin new[q]
      BY <1>2, KeysOnPages DEF Kept
    <3>6. ASSUME NEW q \in Kept(prev) \ Kept(new) PROVE k \notin prev[q]
      <4>1. q \in Pages /\ prev[q] # NoPks /\ new[q] = NoPks /\ q \in ls
        BY <1>1, <2>2 DEF Kept, SnapHasRows
      <4>2. g[q] = d[q].gen
        BY <1>2, <3>3, <4>1, KeysOnPages
      <4>3. prev[q] = KeysOn(d, q)
        BY <1>1, <3>3, <4>1, <4>2 DEF SnapIsTrue, Kept
      <4> QED
        BY <4>3, KeysOnPages
    <3>7. k \notin AliveKeys(prev, new)
      BY <3>5, <3>6 DEF AliveKeys
    <3> QED
      BY <3>2, <3>4, <3>7, ExpressDeletesAre
  <2> QED
    BY <2>1, <2>2
<1> QED
  BY <1>3, <1>4 DEF DeltaDeletes

\* The delta of a finished scan makes the replica the table.
LEMMA MergedIs ==
  ASSUME NEW d \in PageFuns, OneRowEach(d), NEW ls, NEW pp, NEW n \in Nat, WellKept(d, ls, pp, n),
         NEW w \in Nat, NEW g, NEW prev \in Snapshot, NEW t, NEW rows \in [Keys -> Nat],
         prev = cache[TableOrder[turn]].prev, "earlyGc" \in Env => t \in FixedPk,
         Tells(d, ls, w, g, prev, t), MissesNothing(d, ls, n, rows, w, g, prev, t)
  PROVE  Merged(rows) = ContentOf(d)
<1>1. RowsHeld(d, rows, w) /\ WholeRecs(d, ls, n)
  BY DEF MissesNothing, Holds, WellKept
<1>2. /\ \A l \in Rows(d) : Rec(d, l).txn <= w => Rec(d, l).key \notin DeltaDeletes
      /\ \A k \in Keys \ RowKeys(d) : rows[k] # NoRow => k \in DeltaDeletes
  BY DeletesAre
<1>3. ASSUME NEW k \in Keys, NEW u \in scan.ups, u.key = k
      PROVE  Merged(rows)[k] = ContentOf(d)[k]
  <2> DEFINE v == CHOOSE v \in scan.ups : v.key = k
  <2>1. v \in scan.ups /\ v.key = k /\ Merged(rows)[k] = v.txn
    BY <1>3 DEF Merged
  <2> HIDE DEF v
  <2>2. v.loc \in Rows(d) /\ Rec(d, v.loc).key = k /\ Rec(d, v.loc).txn = v.txn
    BY <2>1 DEF Tells
  <2> QED
    BY <2>1, <2>2, ContentIs
<1>4. ASSUME NEW k \in Keys, \A u \in scan.ups : u.key # k
      PROVE  Merged(rows)[k] = IF k \in DeltaDeletes THEN NoRow ELSE rows[k]
  BY <1>4 DEF Merged
<1>5. ASSUME NEW k \in Keys, \A u \in scan.ups : u.key # k
      PROVE  Merged(rows)[k] = ContentOf(d)[k]
  <2>1. CASE k \in RowKeys(d)
    <3>1. PICK l \in Rows(d) : Rec(d, l).key = k
      BY <2>1 DEF RowKeys
    <3>2. Rec(d, l).txn <= w
      BY <1>1, <1>5, <3>1, RowsAndStubs, RecType DEF Tells, WholeRecs
    <3>3. Merged(rows)[k] = rows[k]
      BY <1>2, <1>4, <1>5, <3>1, <3>2
    <3>4. rows[k] = Rec(d, l).txn
      BY <1>1, <3>1, <3>2 DEF RowsHeld
    <3> QED
      BY <3>1, <3>3, <3>4, ContentIs
  <2>2. CASE k \notin RowKeys(d)
    <3>1. Merged(rows)[k] = NoRow
      BY <1>2, <1>4, <1>5, <2>2
    <3> QED
      BY <2>2, <3>1, ContentIs
  <2> QED
    BY <2>1, <2>2
<1>6. \A k \in Keys : Merged(rows)[k] = ContentOf(d)[k]
  BY <1>3, <1>5
<1>7. Merged(rows) = [k \in Keys |-> Merged(rows)[k]] /\ ContentOf(d) = [k \in Keys |-> ContentOf(d)[k]]
  BY DEF Merged, ContentOf
<1> QED
  BY <1>6, <1>7

\* What the loop remembers after a successful apply is what it knows then.
LEMMA AdvancedKnows ==
  ASSUME NEW d \in PageFuns, NEW ls, NEW pp, NEW n \in Nat, WellKept(d, ls, pp, n),
         NEW w \in Nat, NEW g \in [Pages -> Nat], NEW prev \in Snapshot, NEW t,
         cache[TableOrder[turn]].pages = ls, "earlyGc" \in Env => t \in FixedPk,
         scan.maxTxn \in Nat, w <= scan.maxTxn, scan.maxTxn < n,
         Tells(d, ls, w, g, prev, t), Knows(d, ls, n, w, g, prev, t)
  PROVE  /\ Knows(d, ls, n, scan.maxTxn, Advanced(g), AdvancedPks(prev), t)
         /\ SnapHasAll(d, AdvancedPks(prev))
<1> DEFINE h == Advanced(g)
           next == AdvancedPks(prev)
           new == scan.newPks
<1>1. \A p \in Pages :
        /\ d[p].gen \in Nat /\ d[p].gen >= 1 /\ g[p] \in Nat /\ g[p] <= d[p].gen
        /\ KeysOn(d, p) # NoPks
        /\ p \notin ls => KeysOn(d, p) = {}
  <2>1. ASSUME NEW p \in Pages, p \notin ls PROVE KeysOn(d, p) = {}
    BY <2>1, RowsAndStubs DEF WellKept, WholeRecs, KeysOn
  <2> QED
    BY <2>1, GenType, KeysOnPages DEF WellKept, Knows, NotAhead
<1>2. \A p \in Pages : new[p] = IF p \in ls /\ t \in FixedPk /\ (g[p] # d[p].gen \/ Kept(prev) = {})
                                THEN KeysOn(d, p) ELSE NoPks
  BY DEF Tells
<1>3. \A p \in Pages : next[p] = IF scan.refreshed /\ p \notin ls THEN NoPks
                                 ELSE IF new[p] # NoPks THEN new[p] ELSE prev[p]
  BY DEF AdvancedPks
<1>4. \A p \in Pages : h[p] = IF scan.refreshed /\ p \notin ls THEN 0
                              ELSE IF p \in ls THEN d[p].gen ELSE g[p]
  <2>1. \A p \in Pages : h[p] = IF scan.refreshed /\ p \notin ls THEN 0
                                ELSE IF scan.newGens[p] # 0 THEN scan.newGens[p] ELSE g[p]
    BY DEF Advanced
  <2>2. \A p \in Pages : scan.newGens[p] = IF p \in ls /\ g[p] # d[p].gen THEN d[p].gen ELSE 0
    BY DEF Tells
  <2> QED
    BY <1>1, <2>1, <2>2
<1> HIDE DEF h, next, new
<1>5. NotAhead(d, n, scan.maxTxn, h)
  BY <1>1, <1>4 DEF NotAhead
<1>6. NewIsUnseen(d, scan.maxTxn, h)
  <2>1. ASSUME NEW l \in Locs, Rec(d, l) # NoRec, Rec(d, l).txn > scan.maxTxn PROVE FALSE
    BY <2>1, RecType DEF Tells, WellKept, WholeRecs
  <2> QED
    BY <2>1 DEF NewIsUnseen
<1>7. SnapIsTrue(d, g, prev, t) /\ SnapHasRows(d, ls, w, prev)
  BY DEF Knows
<1>8. ASSUME t \in FixedPk, NEW p \in Pages, p \in ls, next[p] # NoPks \/ KeysOn(d, p) # {}
      PROVE  next[p] = KeysOn(d, p)
  <2>1. CASE new[p] # NoPks
    BY <1>2, <1>3, <1>8, <2>1
  <2>2. CASE new[p] = NoPks
    <3>1. g[p] = d[p].gen /\ Kept(prev) # {} /\ next[p] = prev[p]
      BY <1>1, <1>2, <1>3, <1>8, <2>2
    <3> QED
      BY <1>7, <1>8, <3>1 DEF SnapIsTrue
  <2> QED
    BY <2>1, <2>2
<1>9. ASSUME NEW p \in Pages, p \notin ls, next[p] # NoPks
      PROVE  next[p] = prev[p] /\ h[p] = g[p]
  BY <1>2, <1>3, <1>4, <1>9
<1>10. SnapIsTrue(d, h, next, t)
  <2>1. ASSUME t \in FixedPk, NEW p \in Pages, p \notin ls, h[p] = d[p].gen, next[p] # NoPks
        PROVE  next[p] = KeysOn(d, p)
    <3>1. next[p] = prev[p] /\ g[p] = d[p].gen /\ Kept(prev) # {}
      BY <1>9, <2>1 DEF Kept
    <3> QED
      BY <1>7, <2>1, <3>1 DEF SnapIsTrue
  <2> QED
    BY <1>1, <1>8, <2>1 DEF SnapIsTrue
<1>11. "earlyGc" \in Env => \A p \in Pages : next[p] # NoPks => p \in ls
  BY <1>7, <1>9 DEF SnapHasRows
<1>12. SnapHasAll(d, next)
  <2>1. ASSUME "earlyGc" \in Env, NEW l \in Rows(d) PROVE next[l[1]] # NoPks /\ Rec(d, l).key \in next[l[1]]
    <3>1. l[1] \in Pages /\ l[1] \in ls /\ Rec(d, l).key \in KeysOn(d, l[1])
      BY RowsAndStubs, RecType, KeysOnPages DEF WellKept, WholeRecs
    <3>2. next[l[1]] = KeysOn(d, l[1])
      BY <1>8, <2>1, <3>1
    <3> QED
      BY <1>1, <3>1, <3>2
  <2> QED
    BY <2>1 DEF SnapHasAll
<1>13. SnapHasRows(d, ls, scan.maxTxn, next)
  BY <1>11, <1>12 DEF SnapHasRows, SnapHasAll
<1>14. Knows(d, ls, n, scan.maxTxn, h, next, t)
  BY <1>5, <1>6, <1>10, <1>13 DEF Knows
<1> QED
  BY <1>12, <1>14 DEF h, next
-----------------------------------------------------------------------------
(***************************************************************************)
(* Steps of the loop.                                                      *)
(***************************************************************************)
LEMMA TableFacts ==
  ASSUME TypeOK, DeltaInv, Covered, NEW t \in Tables
  PROVE  /\ disk[t] \in PageFuns /\ OneRowEach(disk[t])
         /\ WellKept(disk[t], listed[t], ppGen[t], Fresh)
         /\ Fresh \in Nat /\ ppGen[t] \in Nat /\ listed[t] \subseteq Pages
         /\ pg[t] \in [Keys -> Nat]
         /\ Watermark(mem, t) \in Nat /\ mem.gens[t] \in [Pages -> Nat]
         /\ Watermark(file, t) \in Nat /\ file.gens[t] \in [Pages -> Nat]
         /\ cache[t] \in Caches /\ cache[t].prev \in Snapshot
<1>1. FbTypeOK
  BY DEF TypeOK
<1>2. disk[t] \in PageFuns /\ OneRowEach(disk[t])
  BY <1>1, DiskIsPages, RowsAndStubs DEF DeltaInv, Chains, OnePrimary, OneRowEach
<1>3. WellKept(disk[t], listed[t], ppGen[t], Fresh)
  BY DEF Covered, InOrder
<1>4. Fresh \in Nat /\ ppGen[t] \in Nat /\ listed[t] \subseteq Pages /\ pg[t] \in [Keys -> Nat]
  BY FreshType DEF TypeOK, FbTypeOK
<1>5. /\ Watermark(mem, t) \in Nat /\ mem.gens[t] \in [Pages -> Nat]
      /\ Watermark(file, t) \in Nat /\ file.gens[t] \in [Pages -> Nat]
  BY WatermarkType DEF TypeOK, States
<1>6. cache[t] \in Caches /\ cache[t].prev \in Snapshot
  BY DEF TypeOK, Caches
<1> QED
  BY <1>2, <1>3, <1>4, <1>5, <1>6

LEMMA FollowedAreTables == Followed \subseteq Tables
BY CdcWatchAssumption DEF Followed

LEMMA StillInOrder ==
  ASSUME Covered, UNCHANGED fbVars
  PROVE  begun' = {} /\ \A t \in Tables : InOrder(t)'
BY DEF Covered, InOrder, fbVars, Fresh

\* What is said of a table stays true while nobody touches it.
LEMMA StillCovers ==
  ASSUME UNCHANGED fbVars, NEW t, pg'[t] = pg[t], NEW st, NEW prev, Covers(st, prev, t)
  PROVE  MissesNothing(disk'[t], listed'[t], Fresh', pg'[t], Watermark(st, t), st.gens[t], prev, t)
BY DEF Covers, fbVars, Fresh

LEMMA FileStillCovers ==
  ASSUME Covered, UNCHANGED <<fbVars, file, snap, pg>>, pc # "saveSnap", NEW t \in Followed
  PROVE  FileCovers(t)'
<1>1. Covers(file, snap[t], t)
  BY DEF Covered, FileCovers
<1> QED
  BY <1>1 DEF FileCovers, Covers, Watermark, fbVars, Fresh

LEMMA MemStillCovers ==
  ASSUME Covered, UNCHANGED <<fbVars, mem, cache, pending, pg>>, pc # "down", NEW t \in Followed
  PROVE  MemCovers(t)'
<1>1. Covers(mem, Current(t), t)
  BY DEF Covered, MemCovers
<1> QED
  BY <1>1 DEF MemCovers, Covers, Watermark, Current, fbVars, Fresh

LEMMA CacheStillFits ==
  ASSUME Covered, UNCHANGED <<fbVars, cache, pending>>, pc' # "down", NEW t \in Followed
  PROVE  CacheFacts(t)'
BY DEF Covered, CacheFacts, fbVars

LEMMA DoneNext ==
  ASSUME TypeOK, turn' = turn + 1, NEW u
  PROVE  Done(u)' => Done(u) \/ (turn \in DOMAIN TableOrder /\ u = TableOrder[turn])
BY CdcWatchAssumption DEF TypeOK, Done

LEMMA NotDoneYet == ASSUME turn \in DOMAIN TableOrder PROVE ~Done(TableOrder[turn])
BY CdcWatchAssumption DEF Done

LEMMA AllDone == ASSUME TypeOK, turn \notin DOMAIN TableOrder, NEW t \in Followed PROVE Done(t)
BY CdcWatchAssumption DEF TypeOK, Done, Followed

LEMMA NoneDone == ASSUME turn' = 1, NEW t PROVE ~Done(t)'
BY CdcWatchAssumption DEF Done

\* The watermark in memory is one Firebird has passed.
LEMMA WatermarkIsPast ==
  ASSUME TypeOK, Covered, pc # "down", NEW t \in Followed
  PROVE  Watermark(mem, t) < Fresh /\ mem.lastTxn <= Watermark(mem, t) /\ mem.lastTxn \in Nat
<1>1. Watermark(mem, t) < Fresh
  BY DEF Covered, MemCovers, Covers, MissesNothing, Knows, NotAhead
<1> QED
  BY <1>1, WatermarkType, FollowedAreTables DEF TypeOK, States

LEMMA CoveredInit == Init => Covered
<1> SUFFICES ASSUME Init PROVE Covered
  OBVIOUS
<1>1. \A t \in Tables, l \in Locs : Rec(disk[t], l) = NoRec
  BY DEF Init, FbInit, Rec, Locs
<1>2. \A t \in Tables : Rows(disk[t]) = {} /\ Stubs(disk[t]) = {} /\ \A p \in Pages : disk[t][p].gen = 1
  BY <1>1 DEF Rows, Stubs, IsPrimary, Init, FbInit
<1>3. /\ begun = {} /\ Fresh = 2 /\ pc = "down" /\ mapped = TRUE /\ file = FreshState
      /\ \A t \in Tables : listed[t] = {} /\ ppGen[t] = 0 /\ cache[t] = NoCache /\ snap[t] = EmptySnapshot
  BY DEF Init, FbInit, Fresh
<1>4. \A t \in Tables : InOrder(t)
  BY <1>1, <1>2, <1>3 DEF InOrder, WellKept, WholeRecs, StubsOlder
<1>5. Kept(EmptySnapshot) = {} /\ \A p \in Pages : EmptySnapshot[p] = NoPks
  BY DEF Kept, EmptySnapshot
<1>6. ASSUME NEW t \in Tables PROVE Covers(file, snap[t], t)
  <2>1. Watermark(file, t) = 0 /\ \A p \in Pages : file.gens[t][p] = 0
    BY <1>3 DEF Watermark, Max2, FreshState
  <2>2. \A k \in Keys : pg[t][k] = NoRow
    BY DEF Init
  <2>3. Knows(disk[t], listed[t], Fresh, Watermark(file, t), file.gens[t], snap[t], t)
    BY <1>1, <1>2, <1>3, <1>5, <2>1 DEF Knows, NotAhead, NewIsUnseen, SnapIsTrue, SnapHasRows
  <2>4. Holds(disk[t], pg[t], Watermark(file, t), file.gens[t], snap[t])
    BY <1>2, <2>2 DEF Holds, RowsHeld, StubsHeld, GoneNoticed
  <2> QED
    BY <2>3, <2>4 DEF Covers, MissesNothing
<1>7. \A t \in Followed : MemCovers(t) /\ FileCovers(t) /\ CacheFacts(t)
  BY <1>3, <1>6, FollowedAreTables DEF MemCovers, FileCovers, CacheFacts, NoCache
<1> QED
  BY <1>3, <1>4, <1>7 DEF Covered, SaveFacts, CycleFacts, ScanFacts

LEMMA CoveredStart == ASSUME TypeOK, Covered, Start PROVE Covered'
<1>1. /\ UNCHANGED <<fbVars, file, cache, snap, pg>> /\ pc = "down" /\ pc' = "idle"
      /\ mem' = file /\ pending' = snap /\ mapped' = TRUE
  BY DEF Start
<1>2. \A t \in Followed : ~cache[t].on /\ cache[t].prev = EmptySnapshot
  BY <1>1 DEF Covered, CacheFacts
<1>3. ASSUME NEW t \in Followed PROVE MemCovers(t)' /\ FileCovers(t)' /\ CacheFacts(t)'
  <2>1. FileCovers(t)'
    BY <1>1, FileStillCovers
  <2>2. MemCovers(t)'
    BY <1>1, <1>2, <2>1 DEF FileCovers, MemCovers, Covers, Current, Watermark
  <2>3. CacheFacts(t)'
    BY <1>1, <1>2 DEF CacheFacts
  <2> QED
    BY <2>1, <2>2, <2>3
<1> QED
  BY <1>1, <1>3, StillInOrder DEF Covered, SaveFacts, CycleFacts, ScanFacts

LEMMA CoveredPoll == ASSUME TypeOK, Covered, Poll PROVE Covered'
<1>1. /\ UNCHANGED <<fbVars, mem, file, pending, snap, scan, exiting, pg>> /\ pc = "idle"
      /\ pc' \in {"idle", "table"} /\ mapped' = TRUE
      /\ cache' = IF mapped THEN cache ELSE [t \in Tables |-> NoCache]
  BY DEF Poll
<1>2. pc' = "table" => turn' = 1 /\ cycle' = [newMax |-> mem.lastTxn, changes |-> FALSE, dirty |-> FALSE]
  BY <1>1 DEF Poll
<1>3. ASSUME NEW t \in Followed PROVE MemCovers(t)' /\ CacheFacts(t)'
  <2>1. CASE mapped
    BY <1>1, <2>1, MemStillCovers, CacheStillFits
  <2>2. CASE ~mapped
    <3>1. cache'[t] = NoCache /\ "earlyGc" \notin Env
      BY <1>1, <2>2, FollowedAreTables DEF Covered, SaveFacts
    <3>2. Covers(mem, Current(t), t)
      BY <1>1 DEF Covered, MemCovers
    <3>3. Covers(mem, pending[t], t)
      <4>1. CASE cache[t].on
        <5>1. pending[t] = EmptySnapshot
          BY <4>1 DEF Covered, CacheFacts
        <5> QED
          BY <3>1, <3>2, <5>1, NoSnapshotMissesNothing DEF Covers
      <4>2. CASE ~cache[t].on
        BY <3>2, <4>2 DEF Current
      <4> QED
        BY <4>1, <4>2
    <3>4. Current(t)' = pending[t]
      BY <1>1, <3>1 DEF Current, NoCache
    <3>5. MemCovers(t)'
      BY <1>1, <3>3, <3>4 DEF MemCovers, Covers, Watermark, fbVars, Fresh
    <3> QED
      BY <1>1, <3>1, <3>5 DEF CacheFacts, NoCache
  <2> QED
    BY <2>1, <2>2
<1>4. CycleFacts'
  <2>1. ASSUME pc' = "table", NEW t \in Followed
        PROVE  cycle'.newMax < Fresh' /\ cycle'.newMax <= Watermark(mem', t) /\ ~Done(t)'
    <3>1. cycle'.newMax = mem.lastTxn /\ Fresh' = Fresh /\ Watermark(mem', t) = Watermark(mem, t)
      BY <1>1, <1>2, <2>1 DEF fbVars, Fresh, Watermark
    <3>2. Watermark(mem, t) < Fresh /\ mem.lastTxn <= Watermark(mem, t) /\ mem.lastTxn \in Nat
      BY <1>1, WatermarkIsPast
    <3>3. Watermark(mem, t) \in Nat /\ Fresh \in Nat
      BY WatermarkType, FollowedAreTables, FreshType DEF TypeOK, FbTypeOK
    <3> QED
      BY <1>2, <2>1, <3>1, <3>2, <3>3, NoneDone
  <2> QED
    BY <1>1, <2>1 DEF CycleFacts
<1>5. \A t \in Followed : FileCovers(t)'
  BY <1>1, FileStillCovers
<1> QED
  BY <1>1, <1>3, <1>4, <1>5, StillInOrder DEF Covered, SaveFacts, ScanFacts

LEMMA CoveredStop == ASSUME CopedWith, TypeOK, Covered, Stop PROVE Covered'
<1>1. /\ UNCHANGED <<fbVars, mem, file, cache, pending, snap, mapped, pg>> /\ pc = "idle"
      /\ pc' = "saveState" /\ "earlyGc" \notin Env
  BY DEF Stop, Fault, CopedWith
<1>2. \A t \in Followed : MemCovers(t)' /\ FileCovers(t)' /\ CacheFacts(t)'
  BY <1>1, MemStillCovers, FileStillCovers, CacheStillFits
<1> QED
  BY <1>1, <1>2, StillInOrder DEF Covered, SaveFacts, CycleFacts, ScanFacts

LEMMA CoveredGrow == ASSUME CopedWith, TypeOK, Covered, Grow PROVE Covered'
<1>1. /\ UNCHANGED <<fbVars, mem, file, cache, pending, snap, pg, pc>> /\ pc = "idle" /\ "earlyGc" \notin Env
  BY DEF Grow, CopedWith
<1>2. \A t \in Followed : MemCovers(t)' /\ FileCovers(t)' /\ CacheFacts(t)'
  BY <1>1, MemStillCovers, FileStillCovers, CacheStillFits
<1> QED
  BY <1>1, <1>2, StillInOrder DEF Covered, SaveFacts, CycleFacts, ScanFacts

\* A table that is left aside stays as settled as it was.
LEMMA StillSettled ==
  ASSUME UNCHANGED fbVars, NEW u, pg'[u] = pg[u], cache'[u] = cache[u], pending'[u] = pending[u], Settled(u)
  PROVE  Settled(u)'
BY DEF Settled, Current, fbVars

LEMMA CoveredSkipTable == ASSUME CopedWith, TypeOK, Covered, SkipTable PROVE Covered'
<1>1. /\ UNCHANGED <<fbVars, mem, file, cache, pending, snap, mapped, cycle, pg, pc>> /\ pc = "table"
      /\ turn \in DOMAIN TableOrder /\ turn' = turn + 1
      /\ TableOrder[turn] \notin Followed \/ (Alone /\ "earlyGc" \notin Env)
  BY DEF SkipTable, Followed, Fault, CopedWith
<1>2. \A t \in Followed : MemCovers(t)' /\ FileCovers(t)' /\ CacheFacts(t)'
  BY <1>1, MemStillCovers, FileStillCovers, CacheStillFits
<1>3. CycleFacts'
  <2>1. ASSUME NEW t \in Followed
        PROVE  /\ cycle'.newMax < Fresh' /\ (Alone => cycle'.newMax <= Watermark(mem', t))
               /\ ~Alone /\ Done(t)' => Settled(t)'
               /\ "earlyGc" \in Env /\ Done(t)' => cache'[t].on
    <3>1. /\ cycle.newMax < Fresh /\ (Alone => cycle.newMax <= Watermark(mem, t))
          /\ ~Alone /\ Done(t) => Settled(t)
          /\ "earlyGc" \in Env /\ Done(t) => cache[t].on
      BY <1>1 DEF Covered, CycleFacts
    <3>2. ~Alone \/ "earlyGc" \in Env => (Done(t)' => Done(t))
      BY <1>1, DoneNext
    <3>3. Settled(t) => Settled(t)'
      BY <1>1, StillSettled
    <3> QED
      BY <1>1, <3>1, <3>2, <3>3 DEF fbVars, Fresh, Watermark
  <2> QED
    BY <2>1 DEF CycleFacts
<1>4. SaveFacts' /\ ScanFacts'
  BY <1>1 DEF Covered, SaveFacts, ScanFacts
<1> QED
  BY <1>1, <1>2, <1>3, <1>4, StillInOrder DEF Covered

LEMMA CoveredOpenFails == ASSUME CopedWith, TypeOK, Covered, OpenFails PROVE Covered'
<1> DEFINE t == TableOrder[turn]
<1>1. /\ UNCHANGED <<fbVars, mem, file, cache, snap, mapped, cycle, pg, pc>> /\ pc = "table"
      /\ turn \in DOMAIN TableOrder /\ ~cache[t].on /\ turn' = turn + 1
      /\ pending' = [pending EXCEPT ![t] = EmptySnapshot]
  BY DEF OpenFails
<1>2. Alone /\ "earlyGc" \notin Env
  BY DEF OpenFails, Fault, CopedWith
<1>3. \A u \in Followed : u # t => pending'[u] = pending[u]
  BY <1>1, FollowedAreTables DEF TypeOK
<1>4. t \in Tables /\ pending'[t] = EmptySnapshot
  BY <1>1, TurnType DEF TypeOK
<1> HIDE DEF t
<1>5. ASSUME NEW u \in Followed PROVE MemCovers(u)' /\ CacheFacts(u)'
  <2>1. Covers(mem, Current(u), u)
    BY <1>1 DEF Covered, MemCovers
  <2>2. CacheFacts(u)
    BY DEF Covered
  <2>3. Covers(mem, Current(u)', u)
    <3>1. CASE u = t
      <4>1. Current(u)' = EmptySnapshot
        BY <1>1, <1>4, <3>1 DEF Current
      <4> QED
        BY <1>2, <2>1, <4>1, NoSnapshotMissesNothing DEF Covers
    <3>2. CASE u # t
      <4>1. Current(u)' = Current(u)
        BY <1>1, <1>3, <3>2 DEF Current
      <4> QED
        BY <2>1, <4>1
    <3> QED
      BY <3>1, <3>2
  <2>4. MemCovers(u)'
    BY <1>1, <2>3 DEF MemCovers, Covers, Watermark, fbVars, Fresh
  <2>5. CacheFacts(u)'
    BY <1>1, <1>3, <2>2 DEF CacheFacts, fbVars
  <2> QED
    BY <2>4, <2>5
<1>6. \A u \in Followed : FileCovers(u)'
  BY <1>1, FileStillCovers
<1>7. CycleFacts' /\ SaveFacts' /\ ScanFacts'
  BY <1>1, <1>2 DEF Covered, CycleFacts, SaveFacts, ScanFacts, fbVars, Fresh, Watermark
<1> QED
  BY <1>5, <1>6, <1>7, <1>1, StillInOrder DEF Covered

\* The table is opened: the snapshot read at start is its cache's, and the
\* pages are those of the pointer pages.
LEMMA OpenedCovers ==
  ASSUME CopedWith, TypeOK, DeltaInv, Covered, SyncTable, NEW t, t = TableOrder[turn]
  PROVE  /\ UNCHANGED <<fbVars, file, snap, mapped, pg>> /\ pc = "table" /\ turn \in DOMAIN TableOrder
         /\ t \in Followed /\ t \in Tables
         /\ cache'[t].on /\ cache'[t].pages = listed[t]
         /\ \A u \in Followed : CacheFacts(u)' /\ Covers(mem, Current(u)', u)
         /\ \A u \in Followed : u # t => cache'[u] = cache[u] /\ pending'[u] = pending[u]
<1> DEFINE c == Opened(t)
           opened == [c EXCEPT !.ppGen = ppGen[t], !.pages = IF c.ppGen = ppGen[t] THEN @ ELSE listed[t]]
<1>1. /\ UNCHANGED <<fbVars, file, snap, mapped, pg>> /\ pc = "table" /\ turn \in DOMAIN TableOrder
      /\ pending' = [pending EXCEPT ![t] = IF cache[t].on THEN @ ELSE EmptySnapshot]
      /\ cache' = [cache EXCEPT ![t] = opened]
  BY DEF SyncTable
<1>2. t \in Followed /\ t \in Tables
  BY <1>1, TurnType DEF SyncTable, Followed
<1> pc' # "down"
  BY <1>1 DEF SyncTable
<1>3. cache'[t] = opened /\ pending'[t] = IF cache[t].on THEN pending[t] ELSE EmptySnapshot
  BY <1>1, <1>2 DEF TypeOK
<1>4. \A u \in Followed : u # t => cache'[u] = cache[u] /\ pending'[u] = pending[u]
  BY <1>1, FollowedAreTables DEF TypeOK
<1>5. /\ CacheFacts(t) /\ Covers(mem, Current(t), t)
      /\ cache[t] \in Caches /\ ppGen[t] \in Nat
      /\ ppGen[t] = 0 => listed[t] = {}
  BY <1>1, <1>2, TableFacts DEF Covered, MemCovers, WellKept
<1>6. c \in Caches /\ c.on /\ (c.ppGen = ppGen[t] => c.pages = listed[t])
      /\ c.prev = IF cache[t].on THEN cache[t].prev ELSE IF t \in FixedPk THEN pending[t] ELSE EmptySnapshot
  <2>1. CASE cache[t].on
    BY <1>5, <2>1 DEF Opened, CacheFacts
  <2>2. CASE ~cache[t].on
    <3>1. pending[t] \in Snapshot /\ listed[t] \subseteq Pages
      BY <1>2 DEF TypeOK, FbTypeOK
    <3> QED
      BY <1>5, <2>2, <3>1, InitialValuesType DEF Opened, Caches
  <2> QED
    BY <2>1, <2>2
<1> HIDE DEF c
<1>7. opened.on /\ opened.ppGen = ppGen[t] /\ opened.pages = listed[t] /\ opened.prev = c.prev
  BY <1>6 DEF Caches
<1> HIDE DEF opened
<1>8. ASSUME NEW u \in Followed PROVE CacheFacts(u)'
  <2>1. CASE u = t
    BY <1>1, <1>3, <1>5, <1>7, <2>1 DEF CacheFacts, fbVars
  <2>2. CASE u # t
    BY <1>1, <1>4, <2>2 DEF Covered, CacheFacts, fbVars
  <2> QED
    BY <2>1, <2>2
<1>9. ASSUME NEW u \in Followed PROVE Covers(mem, Current(u)', u)
  <2>1. Covers(mem, Current(u), u)
    BY <1>1 DEF Covered, MemCovers
  <2>2. CASE u # t
    BY <1>4, <2>1, <2>2 DEF Current
  <2>3. CASE u = t
    <3>1. Current(t)' = c.prev
      BY <1>3, <1>7 DEF Current
    <3>2. CASE cache[t].on \/ t \in FixedPk
      BY <1>6, <2>1, <2>3, <3>1, <3>2 DEF Current
    <3>3. CASE ~cache[t].on /\ t \notin FixedPk
      <4>1. "earlyGc" \notin Env
        BY <1>2, <3>3 DEF CopedWith
      <4> QED
        BY <1>6, <2>1, <2>3, <3>1, <3>3, <4>1, NoSnapshotMissesNothing DEF Covers
    <3> QED
      BY <3>2, <3>3
  <2> QED
    BY <2>2, <2>3
<1> QED
  BY <1>1, <1>2, <1>3, <1>4, <1>7, <1>8, <1>9

\* A table without pages is replicated.
LEMMA EmptyIsSettled ==
  ASSUME TypeOK, DeltaInv, Covered, NEW t \in Tables, ppGen[t] = 0, NEW prev, Covers(mem, prev, t)
  PROVE  pg[t] = ContentOf(disk[t]) /\ \A next : SnapHasAll(disk[t], next)
<1> DEFINE d == disk[t]
           ls == listed[t]
           pp == ppGen[t]
           w == Watermark(mem, t)
           g == mem.gens[t]
           rows == pg[t]
<1>1. /\ d \in PageFuns /\ OneRowEach(d) /\ WellKept(d, ls, pp, Fresh) /\ Fresh \in Nat
      /\ w \in Nat /\ rows \in [Keys -> Nat] /\ ls = {}
  BY TableFacts DEF WellKept
<1>2. MissesNothing(d, ls, Fresh, rows, w, g, prev, t)
  BY DEF Covers
<1>3. Rows(d) = {}
  BY <1>1, RowsAndStubs DEF WellKept, WholeRecs
<1> HIDE DEF d, ls, pp, w, g, rows
<1>4. \A p \in ls : g[p] = d[p].gen
  BY <1>1
<1>5. rows = ContentOf(d)
  BY <1>1, <1>2, <1>4, AllSeen
<1>6. \A next : SnapHasAll(d, next)
  BY <1>3 DEF SnapHasAll
<1> QED
  BY <1>5, <1>6 DEF d, rows

LEMMA CoveredSyncTable == ASSUME CopedWith, TypeOK, DeltaInv, Covered, SyncTable PROVE Covered'
<1> PICK t : t = TableOrder[turn]
  OBVIOUS
<1>1. /\ UNCHANGED <<fbVars, file, snap, mapped, pg>> /\ pc = "table" /\ turn \in DOMAIN TableOrder
      /\ t \in Followed /\ t \in Tables
      /\ cache'[t].on /\ cache'[t].pages = listed[t]
      /\ \A u \in Followed : CacheFacts(u)' /\ Covers(mem, Current(u)', u)
      /\ \A u \in Followed : u # t => cache'[u] = cache[u] /\ pending'[u] = pending[u]
  BY OpenedCovers
<1>2. \A u \in Followed : FileCovers(u)'
  BY <1>1, FileStillCovers
<1>3. pc' \in {"table", "scan"} /\ SaveFacts'
  BY <1>1 DEF SyncTable, Covered, SaveFacts
<1>4. \A u \in Followed :
        /\ cycle.newMax < Fresh /\ (Alone => cycle.newMax <= Watermark(mem, u))
        /\ ~Alone /\ Done(u) => Settled(u)
        /\ "earlyGc" \in Env /\ Done(u) => cache[u].on
  BY <1>1 DEF Covered, CycleFacts
<1>5. \A u \in Followed : u # t /\ Settled(u) => Settled(u)'
  BY <1>1, StillSettled
<1>6. \A u \in Followed : Watermark(mem, u) \in Nat /\ Watermark(mem, u) < Fresh
  BY <1>1, TableFacts, WatermarkIsPast, FollowedAreTables
<1>7. cycle.newMax \in Nat /\ Fresh \in Nat
  BY FreshType DEF TypeOK, Cycles
<1>8. CASE ppGen[t] = 0
  <2>1. /\ mem' = [mem EXCEPT !.tableTxn[t] = Watermark(mem, t)] /\ turn' = turn + 1 /\ pc' = "table"
        /\ cycle' = [cycle EXCEPT !.newMax = Max2(@, Watermark(mem, t))]
    BY <1>1, <1>8 DEF SyncTable
  <2>2. \A u \in Followed : Watermark(mem', u) = Watermark(mem, u) /\ mem'.gens[u] = mem.gens[u]
    BY <1>1, <2>1, FollowedAreTables DEF TypeOK, States, Watermark, Max2
  <2>3. \A u \in Followed : MemCovers(u)'
    BY <1>1, <2>2 DEF MemCovers, Covers, fbVars, Fresh
  <2>4. cycle'.newMax = Max2(cycle.newMax, Watermark(mem, t))
    BY <2>1 DEF TypeOK, Cycles
  <2>5. pg[t] = ContentOf(disk[t]) /\ \A next : SnapHasAll(disk[t], next)
    BY <1>1, <1>8, EmptyIsSettled
  <2>6. Settled(t)'
    BY <1>1, <2>5 DEF Settled, fbVars
  <2>7. ASSUME NEW u \in Followed
        PROVE  /\ cycle'.newMax < Fresh' /\ (Alone => cycle'.newMax <= Watermark(mem', u))
               /\ ~Alone /\ Done(u)' => Settled(u)'
               /\ "earlyGc" \in Env /\ Done(u)' => cache'[u].on
    <3>1. Fresh' = Fresh
      BY <1>1 DEF fbVars, Fresh
    <3>2. cycle'.newMax < Fresh'
      BY <1>1, <1>4, <1>6, <1>7, <2>4, <3>1 DEF Max2
    <3>3. Alone => cycle'.newMax <= Watermark(mem', u)
      <4>1. Alone => u = t
        BY <1>1 DEF Alone
      <4> QED
        BY <1>4, <1>6, <1>7, <2>2, <2>4, <4>1 DEF Max2
    <3>4. Done(u)' => Done(u) \/ u = t
      BY <2>1, DoneNext
    <3> QED
      BY <1>1, <1>4, <1>5, <2>6, <3>2, <3>3, <3>4
  <2>8. CycleFacts' /\ ScanFacts'
    BY <2>1, <2>7 DEF CycleFacts, ScanFacts
  <2> QED
    BY <1>1, <1>2, <1>3, <2>3, <2>8, StillInOrder DEF Covered
<1>9. CASE ppGen[t] # 0
  <2>1. /\ scan' = [NoScan EXCEPT !.lastTxn = Watermark(mem, t), !.maxTxn = Watermark(mem, t),
                       !.todo = cache'[t].pages, !.refreshed = Opened(t).ppGen # ppGen[t]]
        /\ pc' = "scan" /\ UNCHANGED <<mem, cycle, turn>>
    BY <1>9 DEF SyncTable
  <2>2. \A u \in Followed : MemCovers(u)'
    BY <1>1, <2>1 DEF MemCovers, Covers, Watermark, fbVars, Fresh
  <2>3. Gathered(t)'
    <3>1. /\ scan'.todo = listed[t] /\ scan'.ups = {} /\ scan'.dels = {}
          /\ scan'.maxTxn = Watermark(mem, t)
          /\ \A p \in Pages : scan'.newGens[p] = 0 /\ scan'.newPks[p] = NoPks
      BY <1>1, <2>1 DEF NoScan, EmptySnapshot
    <3>2. listed'[t] = listed[t] /\ Fresh' = Fresh
      BY <1>1 DEF fbVars, Fresh
    <3>3. Tells(disk[t], {}, scan.lastTxn, mem.gens[t], cache[t].prev, t)'
      BY <3>1 DEF Tells
    <3>4. (listed[t] \ scan.todo)' = {}
      BY <3>1, <3>2
    <3> QED
      BY <1>1, <1>6, <3>1, <3>2, <3>3, <3>4 DEF Gathered
  <2>4. ScanFacts'
    BY <1>1, <2>1, <2>3 DEF ScanFacts
  <2>5. ASSUME NEW u \in Followed
        PROVE  /\ cycle'.newMax < Fresh' /\ (Alone => cycle'.newMax <= Watermark(mem', u))
               /\ ~Alone /\ Done(u)' => Settled(u)'
               /\ "earlyGc" \in Env /\ Done(u)' => cache'[u].on
    <3>1. Done(u)' => Done(u) /\ u # t
      BY <1>1, <2>1, NotDoneYet DEF Done
    <3>2. Fresh' = Fresh /\ Watermark(mem', u) = Watermark(mem, u)
      BY <1>1, <2>1 DEF fbVars, Fresh, Watermark
    <3> QED
      BY <1>1, <1>4, <1>5, <2>1, <3>1, <3>2
  <2>6. CycleFacts'
    BY <2>5 DEF CycleFacts
  <2> QED
    BY <1>1, <1>2, <1>3, <2>2, <2>4, <2>6, StillInOrder DEF Covered
<1> QED
  BY <1>8, <1>9

\* One more page.
LEMMA CoveredScanPage == ASSUME CopedWith, TypeOK, Ahead, DeltaInv, Covered, ScanPage PROVE Covered'
<1> DEFINE t == TableOrder[turn]
           d == disk[t]
           g == mem.gens[t]
           w == scan.lastTxn
           prev == cache[t].prev
           ps == listed[t] \ scan.todo
           first == t \in FixedPk /\ Kept(prev) = {}
<1>1. /\ UNCHANGED <<fbVars, pc, mem, file, cache, pending, snap, mapped, turn, cycle, pg>> /\ pc = "scan"
      /\ scan \in Scans
  BY DEF ScanPage, TypeOK
<1>2. t \in Followed /\ t \in Tables /\ Gathered(t) /\ InOrder(t) /\ Chains(t) /\ Covers(mem, prev, t)
  BY <1>1, FollowedAreTables DEF Covered, ScanFacts, DeltaInv, MemCovers, Gathered, Current
<1>3. /\ w = Watermark(mem, t) /\ w >= Watermark(file, t) /\ w \in Nat /\ NewIsUnseen(d, w, g)
      /\ MaxChainDepth > 0 /\ Fresh \in Nat /\ FbTypeOK /\ listed[t] \subseteq Pages
  BY <1>1, <1>2, WatermarkType, FreshType
     DEF Ahead, ScanAhead, MemoryAhead, Covers, MissesNothing, Knows, CopedWith, TypeOK, FbTypeOK
<1> DEFINE ups(p)  == PageUpserts(t, p, g, first, w)
           dels(p) == PageDeletes(t, p, g, first, w)
           txns(p) == PageTxns(t, p, g, first, w)
           gen(p)  == IF PageChanged(t, p, g) THEN d[p].gen ELSE 0
           pks(p)  == IF RebuildsPks(t, p, g, first) THEN PagePks(t, p) ELSE NoPks
<1>4. PICK p \in scan.todo : \E m \in txns(p) \cup {scan.maxTxn} :
        /\ \A q \in scan.todo : p <= q
        /\ \A x \in txns(p) \cup {scan.maxTxn} : x <= m
        /\ scan' = [scan EXCEPT !.todo = @ \ {p}, !.ups = @ \cup ups(p), !.dels = @ \cup dels(p),
                       !.maxTxn = m, !.newGens[p] = gen(p), !.newPks[p] = pks(p)]
  BY DEF ScanPage
<1>5. p \in listed[t] /\ p \in Pages
  BY <1>2, <1>3 DEF Gathered
<1>6. PICK m \in txns(p) \cup {scan.maxTxn} :
        /\ \A x \in txns(p) \cup {scan.maxTxn} : x <= m
        /\ scan' = [scan EXCEPT !.todo = @ \ {p}, !.ups = @ \cup ups(p), !.dels = @ \cup dels(p),
                       !.maxTxn = m, !.newGens[p] = gen(p), !.newPks[p] = pks(p)]
  BY <1>4
<1>7. PageTells(d, p, w, Fresh, ups(p), dels(p), txns(p))
  BY <1>2, <1>3, <1>5, PageYields
<1>8. gen(p) = IF g[p] # d[p].gen THEN d[p].gen ELSE 0
  BY DEF PageChanged
<1>9. pks(p) = IF t \in FixedPk /\ (g[p] # d[p].gen \/ Kept(prev) = {}) THEN KeysOn(d, p) ELSE NoPks
  <2>1. PagePks(t, p) = KeysOn(d, p)
    BY <1>2, <1>3, <1>5, PagePksAre DEF InOrder, WellKept
  <2> QED
    BY <2>1 DEF RebuildsPks, PageChanged
<1>10. scan.maxTxn \in Nat /\ txns(p) \subseteq Nat /\ m \in Nat
  BY <1>1, <1>2, <1>3, <1>5, PageTypes DEF Scans
<1>11. Tells(d, ps, w, g, prev, t) /\ scan.maxTxn < Fresh /\ scan.todo \subseteq listed[t]
       /\ cache[t].on /\ cache[t].pages = listed[t]
  BY <1>2 DEF Gathered
<1> HIDE DEF ups, dels, txns, gen, pks
<1>12. /\ scan'.todo = scan.todo \ {p} /\ scan'.ups = scan.ups \cup ups(p)
       /\ scan'.dels = scan.dels \cup dels(p) /\ scan'.maxTxn = m /\ scan'.lastTxn = w
       /\ \A q \in Pages : /\ scan'.newGens[q] = IF q = p THEN gen(p) ELSE scan.newGens[q]
                           /\ scan'.newPks[q] = IF q = p THEN pks(p) ELSE scan.newPks[q]
  BY <1>1, <1>5, <1>6 DEF Scans, Snapshot
<1>13. listed[t] \ (scan.todo \ {p}) = ps \cup {p} /\ p \notin ps
  BY <1>4, <1>5
<1> HIDE DEF ps, d, g, w, prev
<1>14. /\ \A u \in scan'.ups : /\ u.loc \in Rows(d) /\ u.key = Rec(d, u.loc).key
                               /\ u.txn = Rec(d, u.loc).txn /\ u.txn > w
       /\ \A l \in Rows(d) : l[1] \in ps \cup {p} /\ Rec(d, l).txn > w
            => \E u \in scan'.ups : u.key = Rec(d, l).key
  BY <1>7, <1>11, <1>12 DEF Tells, PageTells
<1>15. /\ \A k \in scan'.dels : \E l \in Stubs(d) : Rec(d, l).key = k /\ Rec(d, l).txn > w
       /\ \A l \in Stubs(d) : l[1] \in ps \cup {p} /\ Rec(d, l).txn > w /\ Rec(d, l).back # NoLoc
            => Rec(d, l).key \in scan'.dels
  BY <1>7, <1>11, <1>12 DEF Tells, PageTells
<1>16. \A l \in Locs : l[1] \in ps \cup {p} /\ Rec(d, l) # NoRec /\ Rec(d, l).txn > w
         => Rec(d, l).txn <= scan'.maxTxn
  <2>1. d \in PageFuns
    BY <1>2, <1>3, DiskIsPages DEF d
  <2>2. ASSUME NEW l \in Locs, l[1] \in ps, Rec(d, l) # NoRec, Rec(d, l).txn > w
        PROVE  Rec(d, l).txn <= m
    <3>1. Rec(d, l).txn <= scan.maxTxn /\ Rec(d, l).txn \in Nat
      BY <1>11, <2>1, <2>2, RecType DEF Tells
    <3> QED
      BY <1>6, <1>10, <3>1
  <2> QED
    BY <1>6, <1>7, <1>12, <2>2 DEF PageTells
<1>17. \A q \in Pages :
         /\ scan'.newGens[q] = IF q \in ps \cup {p} /\ g[q] # d[q].gen THEN d[q].gen ELSE 0
         /\ scan'.newPks[q] = IF q \in ps \cup {p} /\ t \in FixedPk /\ (g[q] # d[q].gen \/ Kept(prev) = {})
                              THEN KeysOn(d, q) ELSE NoPks
  BY <1>8, <1>9, <1>11, <1>12 DEF Tells
<1>18. turn' = turn /\ disk' = disk /\ listed' = listed /\ Fresh' = Fresh /\ mem' = mem /\ cache' = cache
  BY <1>1 DEF fbVars, Fresh
<1>19. Tells(disk[t], listed[t] \ scan.todo, scan.lastTxn, mem.gens[t], cache[t].prev, t)'
  <2>1. disk'[t] = d /\ mem'.gens[t] = g /\ cache'[t].prev = prev /\ scan'.lastTxn = w
    BY <1>12, <1>18 DEF d, g, prev
  <2>2. listed'[t] \ scan'.todo = ps \cup {p}
    BY <1>12, <1>13, <1>18
  <2> HIDE DEF t
  <2>3. t' = t
    BY <1>18 DEF t
  <2> QED
    BY <1>14, <1>15, <1>16, <1>17, <2>1, <2>2, <2>3 DEF Tells
<1>20. Gathered(t)'
  BY <1>6, <1>7, <1>11, <1>12, <1>18, <1>19 DEF Gathered, PageTells
<1>21. ScanFacts' /\ SaveFacts' /\ CycleFacts'
  <2>1. ScanFacts'
    BY <1>1, <1>2, <1>20 DEF ScanFacts
  <2>2. SaveFacts'
    BY <1>1 DEF Covered, SaveFacts
  <2>3. CycleFacts'
    BY <1>1 DEF Covered, CycleFacts, Settled, Current, Done, Watermark, fbVars, Fresh
  <2> QED
    BY <2>1, <2>2, <2>3
<1>22. \A u \in Followed : MemCovers(u)' /\ FileCovers(u)' /\ CacheFacts(u)'
  BY <1>1, MemStillCovers, FileStillCovers, CacheStillFits
<1> QED
  BY <1>1, <1>21, <1>22, StillInOrder DEF Covered

\* What a finished scan has found.
LEMMA ScanFinds ==
  ASSUME CopedWith, TypeOK, Ahead, DeltaInv, Covered, ScanDone, NEW t, t = TableOrder[turn]
  PROVE  /\ t \in Followed /\ t \in Tables /\ turn \in DOMAIN TableOrder
         /\ cache[t].on /\ cache[t].pages = listed[t]
         /\ scan.lastTxn = Watermark(mem, t) /\ Watermark(mem, t) <= scan.maxTxn
         /\ scan.maxTxn \in Nat /\ scan.maxTxn < Fresh
         /\ Covers(mem, cache[t].prev, t)
         /\ Tells(disk[t], listed[t], Watermark(mem, t), mem.gens[t], cache[t].prev, t)
         /\ "earlyGc" \in Env => t \in FixedPk
<1>1. pc = "scan" /\ scan.todo = {} /\ turn \in DOMAIN TableOrder
  BY DEF ScanDone, TypeOK
<1>2. t \in Followed /\ t \in Tables /\ Gathered(t) /\ Covers(mem, cache[t].prev, t)
  BY <1>1, FollowedAreTables DEF Covered, ScanFacts, MemCovers, Gathered, Current
<1>3. listed[t] \ scan.todo = listed[t]
  BY <1>1
<1>4. /\ scan.lastTxn = Watermark(mem, t) /\ Watermark(mem, t) <= scan.maxTxn
      /\ scan.maxTxn \in Nat /\ scan.maxTxn < Fresh
  BY <1>1, <1>2, TableFacts DEF Ahead, ScanAhead, TypeOK, Scans, Gathered
<1>5. /\ Tells(disk[t], listed[t], Watermark(mem, t), mem.gens[t], cache[t].prev, t)
      /\ cache[t].pages = listed[t] /\ cache[t].on
  BY <1>2, <1>3, <1>4 DEF Gathered
<1>6. "earlyGc" \in Env => t \in FixedPk
  BY <1>2 DEF CopedWith
<1> QED
  BY <1>1, <1>2, <1>4, <1>5, <1>6

\* What it brings to the replica and to memory.
LEMMA ScanYields ==
  ASSUME CopedWith, TypeOK, Ahead, DeltaInv, Covered, ScanDone, NEW t, t = TableOrder[turn]
  PROVE  /\ t \in Followed /\ t \in Tables /\ turn \in DOMAIN TableOrder /\ cache[t].on
         /\ Merged(pg[t]) = ContentOf(disk[t])
         /\ scan.maxTxn \in Nat /\ scan.maxTxn < Fresh /\ Watermark(mem, t) <= scan.maxTxn
         /\ Knows(disk[t], listed[t], Fresh, scan.maxTxn, Advanced(mem.gens[t]), AdvancedPks(cache[t].prev), t)
         /\ SnapHasAll(disk[t], AdvancedPks(cache[t].prev))
<1>1. /\ t \in Followed /\ t \in Tables /\ turn \in DOMAIN TableOrder
      /\ cache[t].on /\ cache[t].pages = listed[t]
      /\ scan.lastTxn = Watermark(mem, t) /\ Watermark(mem, t) <= scan.maxTxn
      /\ scan.maxTxn \in Nat /\ scan.maxTxn < Fresh
      /\ Covers(mem, cache[t].prev, t)
      /\ Tells(disk[t], listed[t], Watermark(mem, t), mem.gens[t], cache[t].prev, t)
      /\ "earlyGc" \in Env => t \in FixedPk
  BY ScanFinds
<1> DEFINE d == disk[t]
           ls == listed[t]
           pp == ppGen[t]
           w == Watermark(mem, t)
           g == mem.gens[t]
           prev == cache[t].prev
           rows == pg[t]
<1>2. /\ d \in PageFuns /\ OneRowEach(d) /\ WellKept(d, ls, pp, Fresh) /\ Fresh \in Nat
      /\ w \in Nat /\ g \in [Pages -> Nat] /\ prev \in Snapshot /\ rows \in [Keys -> Nat]
  BY <1>1, TableFacts
<1>3. /\ Tells(d, ls, w, g, prev, t)
      /\ MissesNothing(d, ls, Fresh, rows, w, g, prev, t) /\ Knows(d, ls, Fresh, w, g, prev, t)
  BY <1>1 DEF Covers, MissesNothing
<1> prev = cache[TableOrder[turn]].prev /\ cache[TableOrder[turn]].pages = ls
  BY <1>1
<1>4. scan.lastTxn = w /\ w <= scan.maxTxn
  BY <1>1
<1> HIDE DEF d, ls, pp, w, g, prev, rows
<1>5. Merged(rows) = ContentOf(d)
  BY <1>1, <1>2, <1>3, MergedIs
<1>6. /\ Knows(d, ls, Fresh, scan.maxTxn, Advanced(g), AdvancedPks(prev), t)
      /\ SnapHasAll(d, AdvancedPks(prev))
  BY <1>1, <1>2, <1>3, <1>4, AdvancedKnows
<1> QED
  BY <1>1, <1>5, <1>6 DEF d, ls, w, g, prev, rows

\* Whoever knew the table misses nothing when the replica is the table.
LEMMA AppliedCovers ==
  ASSUME TypeOK, DeltaInv, Covered, NEW t \in Tables, NEW st \in States, NEW prev, Covers(st, prev, t)
  PROVE  MissesNothing(disk[t], listed[t], Fresh, ContentOf(disk[t]), Watermark(st, t), st.gens[t], prev, t)
<1> DEFINE d == disk[t]
           ls == listed[t]
           pp == ppGen[t]
           w == Watermark(st, t)
           g == st.gens[t]
<1>1. d \in PageFuns /\ OneRowEach(d) /\ WellKept(d, ls, pp, Fresh) /\ Fresh \in Nat
  BY TableFacts
<1>2. w \in Nat /\ Knows(d, ls, Fresh, w, g, prev, t)
  BY WatermarkType DEF Covers, MissesNothing
<1> HIDE DEF d, ls, pp, w, g
<1>3. MissesNothing(d, ls, Fresh, ContentOf(d), w, g, prev, t)
  BY <1>1, <1>2, ContentMissesNothing
<1> QED
  BY <1>3 DEF d, ls, w, g

\* The files, when the delta is in the replica.
LEMMA FileCoversApplied ==
  ASSUME TypeOK, DeltaInv, Covered, UNCHANGED <<fbVars, file, snap>>, pc = "scan",
         NEW t \in Followed, NEW u \in Followed, pg'[t] = ContentOf(disk[t]), u # t => pg'[u] = pg[u]
  PROVE  FileCovers(u)'
<1>1. Covers(file, snap[u], u) /\ u \in Tables
  BY FollowedAreTables DEF Covered, FileCovers
<1>2. CASE u = t
  <2>1. MissesNothing(disk[u], listed[u], Fresh, ContentOf(disk[u]), Watermark(file, u), file.gens[u], snap[u], u)
    BY <1>1, AppliedCovers DEF TypeOK
  <2> QED
    BY <1>2, <2>1 DEF FileCovers, Covers, Watermark, fbVars, Fresh
<1>3. CASE u # t
  BY <1>1, <1>3 DEF FileCovers, Covers, Watermark, fbVars, Fresh
<1> QED
  BY <1>2, <1>3

LEMMA CoveredSyncOk == ASSUME CopedWith, TypeOK, Ahead, DeltaInv, Covered, SyncOk PROVE Covered'
<1> PICK t : t = TableOrder[turn]
  OBVIOUS
<1>1. ScanDone /\ pc = "scan" /\ pc' = "table" /\ turn' = turn + 1 /\ UNCHANGED <<fbVars, file, pending, snap, mapped>>
  BY DEF SyncOk, ScanDone
<1>2. /\ t \in Followed /\ t \in Tables /\ turn \in DOMAIN TableOrder /\ cache[t].on
      /\ Merged(pg[t]) = ContentOf(disk[t])
      /\ scan.maxTxn \in Nat /\ scan.maxTxn < Fresh /\ Watermark(mem, t) <= scan.maxTxn
      /\ Knows(disk[t], listed[t], Fresh, scan.maxTxn, Advanced(mem.gens[t]), AdvancedPks(cache[t].prev), t)
      /\ SnapHasAll(disk[t], AdvancedPks(cache[t].prev))
  BY <1>1, ScanYields
<1>3. /\ pg' = [pg EXCEPT ![t] = Merged(@)]
      /\ mem' = [mem EXCEPT !.gens[t] = Advanced(@), !.tableTxn[t] = scan.maxTxn]
      /\ cache' = [cache EXCEPT ![t].prev = AdvancedPks(@)]
      /\ cycle'.newMax = Max2(cycle.newMax, scan.maxTxn)
  BY DEF SyncOk
<1>4. pg'[t] = ContentOf(disk[t]) /\ \A u \in Followed : u # t => pg'[u] = pg[u]
  BY <1>2, <1>3, FollowedAreTables DEF TypeOK
<1>5. /\ cache'[t].on = cache[t].on /\ cache'[t].prev = AdvancedPks(cache[t].prev)
      /\ cache'[t].ppGen = cache[t].ppGen /\ cache'[t].pages = cache[t].pages
      /\ \A u \in Followed : u # t => cache'[u] = cache[u]
  <2>1. cache[t] \in Caches
    BY <1>2 DEF TypeOK
  <2> QED
    BY <1>2, <1>3, <2>1, FollowedAreTables DEF TypeOK, Caches
<1>6. /\ mem' \in States /\ mem \in States /\ mem'.lastTxn = mem.lastTxn
      /\ mem'.gens[t] = Advanced(mem.gens[t]) /\ mem'.tableTxn[t] = scan.maxTxn
      /\ \A u \in Followed : u # t => mem'.gens[u] = mem.gens[u] /\ mem'.tableTxn[u] = mem.tableTxn[u]
  <2>1. mem \in States /\ mem' \in States
    BY SyncOkType DEF TypeOK
  <2> QED
    BY <1>2, <1>3, <2>1, FollowedAreTables DEF States
<1>7. Watermark(mem', t) = scan.maxTxn
  <2>1. mem.lastTxn <= Watermark(mem, t) /\ mem.lastTxn \in Nat /\ Watermark(mem, t) \in Nat
    BY <1>1, <1>2, WatermarkIsPast, TableFacts
  <2> QED
    BY <1>2, <1>6, <2>1 DEF Watermark, Max2
<1>8. \A u \in Followed : u # t => Watermark(mem', u) = Watermark(mem, u)
  BY <1>6 DEF Watermark
<1>9. ASSUME NEW u \in Followed PROVE MemCovers(u)' /\ CacheFacts(u)'
  <2>1. CASE u = t
    <3> DEFINE d == disk[t]
               ls == listed[t]
               pp == ppGen[t]
               g == Advanced(mem.gens[t])
               prev == AdvancedPks(cache[t].prev)
    <3>1. d \in PageFuns /\ OneRowEach(d) /\ WellKept(d, ls, pp, Fresh) /\ Fresh \in Nat
      BY <1>2, TableFacts
    <3>2. Knows(d, ls, Fresh, scan.maxTxn, g, prev, t)
      BY <1>2
    <3> HIDE DEF d, ls, pp, g, prev
    <3>3. MissesNothing(d, ls, Fresh, ContentOf(d), scan.maxTxn, g, prev, t)
      BY <1>2, <3>1, <3>2, ContentMissesNothing
    <3>4. Current(t)' = prev
      BY <1>2, <1>5 DEF Current, prev
    <3>5. MemCovers(t)'
      BY <1>1, <1>4, <1>6, <1>7, <3>3, <3>4 DEF MemCovers, Covers, d, ls, g, fbVars, Fresh
    <3>6. CacheFacts(t)'
      BY <1>1, <1>2, <1>5 DEF Covered, CacheFacts, fbVars
    <3> QED
      BY <2>1, <3>5, <3>6
  <2>2. CASE u # t
    <3>1. Covers(mem, Current(u), u) /\ CacheFacts(u)
      BY <1>1 DEF Covered, MemCovers
    <3>2. Current(u)' = Current(u) /\ CacheFacts(u)'
      BY <1>1, <1>5, <2>2, <3>1 DEF Current, CacheFacts, fbVars
    <3> QED
      BY <1>1, <1>4, <1>6, <1>8, <2>2, <3>1, <3>2 DEF MemCovers, Covers, fbVars, Fresh
  <2> QED
    BY <2>1, <2>2
<1>10. \A u \in Followed : FileCovers(u)'
  BY <1>1, <1>2, <1>4, FileCoversApplied
<1>11. Settled(t)'
  BY <1>1, <1>2, <1>4, <1>5 DEF Settled, Current, fbVars
<1>12. ASSUME NEW u \in Followed
       PROVE  /\ cycle'.newMax < Fresh' /\ (Alone => cycle'.newMax <= Watermark(mem', u))
              /\ ~Alone /\ Done(u)' => Settled(u)'
              /\ "earlyGc" \in Env /\ Done(u)' => cache'[u].on
  <2>1. /\ cycle.newMax < Fresh /\ (Alone => cycle.newMax <= Watermark(mem, u))
        /\ ~Alone /\ Done(u) => Settled(u)
        /\ "earlyGc" \in Env /\ Done(u) => cache[u].on
    BY <1>1 DEF Covered, CycleFacts
  <2>2. Fresh' = Fresh /\ cycle.newMax \in Nat /\ Fresh \in Nat /\ Watermark(mem, u) \in Nat
    BY <1>1, TableFacts, FollowedAreTables DEF fbVars, Fresh, TypeOK, Cycles
  <2>3. cycle'.newMax < Fresh'
    BY <1>2, <1>3, <2>1, <2>2 DEF Max2
  <2>4. Alone => cycle'.newMax <= Watermark(mem', u)
    <3>1. Alone => u = t
      BY <1>2 DEF Alone
    <3> QED
      BY <1>2, <1>3, <1>7, <2>1, <2>2, <3>1 DEF Max2
  <2>5. Done(u)' => Done(u) \/ u = t
    BY <1>1, DoneNext
  <2>6. u # t /\ Settled(u) => Settled(u)'
    BY <1>1, <1>4, <1>5, StillSettled
  <2> QED
    BY <1>2, <1>5, <1>11, <2>1, <2>3, <2>4, <2>5, <2>6
<1>13. CycleFacts' /\ ScanFacts' /\ SaveFacts'
  BY <1>1, <1>12 DEF CycleFacts, ScanFacts, SaveFacts, Covered
<1> QED
  BY <1>1, <1>9, <1>10, <1>13, StillInOrder DEF Covered

\* The sink reports an error: memory forgets the scan, and the replica is as
\* it was or, when only the answer was lost, is the table.
LEMMA CoveredSyncErr ==
  ASSUME CopedWith, TypeOK, Ahead, DeltaInv, Covered, SyncFails \/ SyncAckLost
  PROVE  Covered'
<1> PICK t : t = TableOrder[turn]
  OBVIOUS
<1>1. /\ ScanDone /\ pc = "scan" /\ pc' = "table" /\ turn' = turn + 1
      /\ UNCHANGED <<fbVars, mem, file, cache, pending, snap, mapped, cycle>>
  BY DEF SyncFails, SyncAckLost, SyncErr, ScanDone
<1>2. /\ t \in Followed /\ t \in Tables /\ turn \in DOMAIN TableOrder /\ cache[t].on
      /\ Merged(pg[t]) = ContentOf(disk[t])
  BY <1>1, ScanYields
<1>3. \/ Alone /\ pg' = pg
      \/ ("ackLost" \in Env /\ pg' = [pg EXCEPT ![t] = Merged(@)])
  BY DEF SyncFails, SyncAckLost, Fault, CopedWith
<1>4. \A u \in Followed : pg'[u] = pg[u] \/ (u = t /\ pg'[u] = ContentOf(disk[u]))
  BY <1>2, <1>3, FollowedAreTables DEF TypeOK
<1>5. ASSUME NEW u \in Followed PROVE MemCovers(u)' /\ FileCovers(u)' /\ CacheFacts(u)'
  <2>1. Covers(mem, Current(u), u) /\ Covers(file, snap[u], u) /\ u \in Tables /\ mem \in States /\ file \in States
    BY <1>1, FollowedAreTables DEF Covered, MemCovers, FileCovers, TypeOK
  <2>2. /\ Current(u)' = Current(u) /\ disk' = disk /\ listed' = listed /\ Fresh' = Fresh
        /\ Watermark(mem', u) = Watermark(mem, u) /\ Watermark(file', u) = Watermark(file, u)
    BY <1>1 DEF Current, Watermark, fbVars, Fresh
  <2>3. /\ MissesNothing(disk[u], listed[u], Fresh, pg'[u], Watermark(mem, u), mem.gens[u], Current(u), u)
        /\ MissesNothing(disk[u], listed[u], Fresh, pg'[u], Watermark(file, u), file.gens[u], snap[u], u)
    <3>1. CASE pg'[u] = pg[u]
      BY <2>1, <3>1 DEF Covers
    <3>2. CASE pg'[u] = ContentOf(disk[u])
      BY <2>1, <3>2, AppliedCovers
    <3> QED
      BY <1>4, <3>1, <3>2
  <2>4. CacheFacts(u)'
    BY <1>1, CacheStillFits
  <2> QED
    BY <1>1, <2>2, <2>3, <2>4 DEF MemCovers, FileCovers, Covers
<1>6. ~Alone => Settled(t)'
  BY <1>1, <1>2, <1>3, <1>4 DEF CopedWith, Settled, SnapHasAll, TypeOK, fbVars
<1>7. ASSUME NEW u \in Followed
      PROVE  /\ cycle'.newMax < Fresh' /\ (Alone => cycle'.newMax <= Watermark(mem', u))
             /\ ~Alone /\ Done(u)' => Settled(u)'
             /\ "earlyGc" \in Env /\ Done(u)' => cache'[u].on
  <2>1. /\ cycle.newMax < Fresh /\ (Alone => cycle.newMax <= Watermark(mem, u))
        /\ ~Alone /\ Done(u) => Settled(u)
        /\ "earlyGc" \in Env /\ Done(u) => cache[u].on
    BY <1>1 DEF Covered, CycleFacts
  <2>2. Fresh' = Fresh /\ Watermark(mem', u) = Watermark(mem, u)
    BY <1>1 DEF fbVars, Fresh, Watermark
  <2>3. Done(u)' => Done(u) \/ u = t
    BY <1>1, DoneNext
  <2>4. ~Alone /\ u # t /\ Settled(u) => Settled(u)'
    BY <1>1, <1>4, StillSettled
  <2> QED
    BY <1>1, <1>2, <1>6, <2>1, <2>2, <2>3, <2>4
<1>8. CycleFacts' /\ ScanFacts' /\ SaveFacts'
  BY <1>1, <1>7 DEF CycleFacts, ScanFacts, SaveFacts, Covered
<1> QED
  BY <1>1, <1>5, <1>8, StillInOrder DEF Covered

\* The watermark the tables share goes up: each of them is in the replica, or
\* there is only one.
LEMMA CoveredEndCycle == ASSUME CopedWith, TypeOK, Ahead, DeltaInv, Covered, EndCycle PROVE Covered'
<1>1. /\ UNCHANGED <<fbVars, file, cache, pending, snap, mapped, pg>> /\ pc = "table"
      /\ pc' \in {"saveState", "idle"} /\ turn \notin DOMAIN TableOrder
      /\ mem' = [mem EXCEPT !.lastTxn = IF cycle.changes THEN cycle.newMax ELSE @]
  BY DEF EndCycle
<1>2. mem \in States /\ cycle.newMax \in Nat /\ cycle.newMax >= mem.lastTxn
  BY <1>1 DEF TypeOK, Cycles, Ahead, CycleAhead
<1>3. ASSUME NEW t \in Followed PROVE MemCovers(t)'
  <2> DEFINE d == disk[t]
             ls == listed[t]
             pp == ppGen[t]
             w == Watermark(mem, t)
             v == Watermark(mem', t)
             g == mem.gens[t]
             prev == Current(t)
  <2>1. /\ d \in PageFuns /\ OneRowEach(d) /\ WellKept(d, ls, pp, Fresh) /\ Fresh \in Nat /\ w \in Nat
        /\ mem.tableTxn[t] \in Nat /\ mem.lastTxn \in Nat
    BY <1>2, TableFacts, FollowedAreTables DEF States
  <2>2. MissesNothing(d, ls, Fresh, pg[t], w, g, prev, t)
    BY <1>1 DEF Covered, MemCovers, Covers
  <2>3. /\ cycle.newMax < Fresh /\ (Alone => cycle.newMax <= w)
        /\ ~Alone => pg[t] = ContentOf(d) /\ SnapHasAll(d, prev)
    BY <1>1, AllDone DEF Covered, CycleFacts, Settled
  <2>4. v \in {w, Max2(w, cycle.newMax)}
    <3>1. mem'.tableTxn = mem.tableTxn /\ mem'.lastTxn \in {mem.lastTxn, cycle.newMax}
      BY <1>1, <1>2 DEF States
    <3> QED
      BY <1>2, <2>1, <3>1 DEF Watermark, Max2
  <2>5. v \in Nat /\ w <= v /\ v < Fresh /\ (Alone => v = w)
    <3>1. w < Fresh
      BY <2>2 DEF MissesNothing, Knows, NotAhead
    <3> HIDE DEF v, w
    <3> QED
      BY <1>2, <2>1, <2>3, <2>4, <3>1 DEF Max2
  <2>6. mem'.gens = mem.gens /\ Current(t)' = prev
    BY <1>1, <1>2 DEF States, Current
  <2> HIDE DEF d, ls, pp, w, v, g, prev
  <2>7. MissesNothing(d, ls, Fresh, pg[t], v, g, prev, t)
    <3>1. CASE Alone
      BY <2>2, <2>5, <3>1
    <3>2. CASE ~Alone
      <4>1. Knows(d, ls, Fresh, w, g, prev, t) /\ SnapHasAll(d, prev)
        BY <2>2, <2>3, <3>2 DEF MissesNothing
      <4>2. MissesNothing(d, ls, Fresh, ContentOf(d), v, g, prev, t)
        BY <2>1, <2>5, <4>1, HigherMissesNothing
      <4> QED
        BY <2>3, <3>2, <4>2
    <3> QED
      BY <3>1, <3>2
  <2> QED
    BY <1>1, <2>6, <2>7 DEF MemCovers, Covers, d, ls, v, g, fbVars, Fresh
<1>4. \A t \in Followed : FileCovers(t)' /\ CacheFacts(t)'
  BY <1>1, FileStillCovers, CacheStillFits
<1>5. "earlyGc" \in Env => \A t \in Followed : cache'[t].on
  BY <1>1, AllDone DEF Covered, CycleFacts
<1>6. CycleFacts' /\ ScanFacts' /\ SaveFacts'
  BY <1>1, <1>5 DEF CycleFacts, ScanFacts, SaveFacts, Covered
<1> QED
  BY <1>1, <1>3, <1>4, <1>6, StillInOrder DEF Covered

LEMMA CoveredSaveState == ASSUME TypeOK, Covered, SaveState PROVE Covered'
<1>1. /\ UNCHANGED <<fbVars, mem, cache, pending, snap, pg, mapped>> /\ pc = "saveState" /\ pc' = "saveSnap"
      /\ file' = mem
  BY DEF SaveState, loopVars
<1>2. \A t \in Followed : MemCovers(t)' /\ FileCovers(t)' /\ CacheFacts(t)'
  BY <1>1, MemStillCovers, CacheStillFits DEF FileCovers
<1>3. CycleFacts' /\ ScanFacts' /\ SaveFacts'
  BY <1>1 DEF CycleFacts, ScanFacts, SaveFacts, Covered
<1> QED
  BY <1>1, <1>2, <1>3, StillInOrder DEF Covered

\* A process that has ended knows nothing that could be wrong.
LEMMA DeadIsCovered ==
  ASSUME Die, UNCHANGED <<fbVars, file, pg>>, Covered, \A t \in Followed : FileCovers(t)'
  PROVE  Covered'
<1>1. pc' = "down" /\ cache' = [t \in Tables |-> NoCache] /\ mapped' = TRUE
  BY DEF Die
<1>2. \A t \in Followed : MemCovers(t)' /\ CacheFacts(t)'
  BY <1>1, FollowedAreTables DEF MemCovers, CacheFacts, NoCache
<1>3. CycleFacts' /\ ScanFacts' /\ SaveFacts'
  BY <1>1 DEF CycleFacts, ScanFacts, SaveFacts
<1> QED
  BY <1>2, <1>3, StillInOrder DEF Covered

\* Between the two saves: what snapshot is in the file matters only to a
\* table whose stubs are collected unseen, and that one's cache is there.
LEMMA SnapshotCovers ==
  ASSUME CopedWith, Covered, UNCHANGED <<fbVars, file, pg>>, pc = "saveSnap", pc' # "saveSnap",
         NEW t \in Followed,
         \/ snap'[t] = IF t \in FixedPk THEN cache[t].prev ELSE EmptySnapshot
         \/ FixedPk = {}
  PROVE  FileCovers(t)'
<1>1. Covers(file, Current(t), t) /\ CacheFacts(t)
  BY DEF Covered, MemCovers, SaveFacts
<1>2. "earlyGc" \in Env => t \in FixedPk /\ cache[t].on
  BY DEF Covered, SaveFacts, CopedWith
<1>3. Covers(file, snap'[t], t)
  <2>1. CASE FixedPk = {}
    BY <1>1, <1>2, <2>1, NoFixedPkMissesNothing DEF Covers
  <2>2. CASE FixedPk # {} /\ "earlyGc" \in Env
    BY <1>1, <1>2, <2>2 DEF Current
  <2>3. CASE FixedPk # {} /\ "earlyGc" \notin Env
    <3>1. snap'[t] = Current(t) \/ snap'[t] = EmptySnapshot
      BY <1>1, <2>3 DEF Current, CacheFacts
    <3> QED
      BY <1>1, <2>3, <3>1, NoSnapshotMissesNothing DEF Covers
  <2> QED
    BY <2>1, <2>2, <2>3
<1> QED
  BY <1>3 DEF FileCovers, Covers, Watermark, fbVars, Fresh

LEMMA CoveredSaveSnap == ASSUME CopedWith, TypeOK, Covered, SaveSnap \/ SaveSnapFails PROVE Covered'
<1>1. UNCHANGED <<fbVars, file, pg>> /\ pc = "saveSnap" /\ AfterSave /\ pc' # "saveSnap"
  BY DEF SaveSnap, SaveSnapFails, AfterSave, Die
<1>2. ASSUME NEW t \in Followed
      PROVE  \/ snap'[t] = IF t \in FixedPk THEN cache[t].prev ELSE EmptySnapshot
             \/ FixedPk = {}
  BY FollowedAreTables DEF SaveSnap, SaveSnapFails, Fault, CopedWith
<1>3. \A t \in Followed : FileCovers(t)'
  BY <1>1, <1>2, SnapshotCovers
<1>4. CASE Die
  BY <1>1, <1>3, <1>4, DeadIsCovered
<1>5. CASE pc' = "idle" /\ UNCHANGED <<mem, cache, pending, loopVars>>
  <2>1. \A t \in Followed : MemCovers(t)' /\ CacheFacts(t)'
    BY <1>1, <1>5, MemStillCovers, CacheStillFits
  <2>2. CycleFacts' /\ ScanFacts' /\ SaveFacts'
    BY <1>5 DEF CycleFacts, ScanFacts, SaveFacts, Covered, loopVars
  <2> QED
    BY <1>1, <1>3, <2>1, <2>2, StillInOrder DEF Covered
<1> QED
  BY <1>1, <1>4, <1>5 DEF AfterSave

LEMMA CoveredCrash == ASSUME CopedWith, TypeOK, Covered, Crash \/ SaveStateFails PROVE Covered'
<1>1. Die /\ UNCHANGED <<fbVars, file, snap, pg>> /\ pc' = "down"
      /\ (pc = "saveSnap" => FixedPk = {})
  BY DEF Crash, SaveStateFails, Fault, CopedWith, Die
<1>2. \A t \in Followed : FileCovers(t)'
  BY <1>1, FileStillCovers, SnapshotCovers
<1> QED
  BY <1>1, <1>2, DeadIsCovered

\* Firebird writes while the process is idle, down or, when there is only one
\* table, between the tables.
LEMMA CoveredFirebird == ASSUME CopedWith, TypeOK, TypeOK', Ahead, DeltaInv, Covered, Firebird PROVE Covered'
<1>1. /\ UNCHANGED <<pc, mem, file, cache, pending, snap, mapped, turn, cycle, pg>>
      /\ pc \notin {"scan", "saveState", "saveSnap"} /\ (pc = "table" => Alone)
  BY DEF Firebird, MayWrite, loopVars, CopedWith
<1>2. begun' = {} /\ \A t \in Tables : TableMoves(t)
  BY FirebirdMoves DEF Covered, DeltaInv
<1>3. ASSUME NEW t \in Tables, NEW st \in {mem, file}, NEW prev, Covers(st, prev, t),
             Watermark(st, t) >= Watermark(file, t)
      PROVE  MissesNothing(disk'[t], listed'[t], Fresh', pg'[t], Watermark(st, t), st.gens[t], prev, t)
  <2> DEFINE d == disk[t]
             e == disk'[t]
             ls == listed[t]
             ns == listed'[t]
             n == Fresh
             m == Fresh'
             w == Watermark(st, t)
             g == st.gens[t]
             rows == pg[t]
  <2>1. d \in PageFuns /\ e \in PageFuns /\ n \in Nat /\ w \in Nat /\ g \in [Pages -> Nat]
    <3>1. st \in States
      BY DEF TypeOK
    <3> QED
      BY <3>1, WatermarkType, FreshType DEF TypeOK, FbTypeOK, PageFuns, States
  <2>2. m \in Nat /\ n <= m /\ Evolves(d, e, w) /\ ("earlyGc" \in Env => ls \subseteq ns)
    <3>1. m \in Nat /\ n <= m /\ ("earlyGc" \in Env => ls \subseteq ns)
      BY <1>2, FreshNextType DEF TableMoves
    <3>2. w \in Watermarks(t)
      BY <1>3, <2>1 DEF Watermarks
    <3> QED
      BY <1>2, <3>1, <3>2 DEF TableMoves
  <2>3. Knows(d, ls, n, w, g, prev, t) /\ Holds(d, rows, w, g, prev)
    BY <1>3 DEF Covers, MissesNothing
  <2> HIDE DEF d, e, ls, ns, n, m, w, g, rows
  <2>4. Knows(e, ns, m, w, g, prev, t)
    BY <2>1, <2>2, <2>3, KnowsEvolves
  <2>5. Holds(e, rows, w, g, prev)
    BY <2>1, <2>2, <2>3, HoldsEvolves
  <2>6. MissesNothing(e, ns, m, rows, w, g, prev, t)
    BY <2>4, <2>5 DEF MissesNothing
  <2> QED
    BY <1>1, <2>6 DEF e, ns, m, rows, w, g
<1>4. ASSUME NEW t \in Followed PROVE MemCovers(t)' /\ FileCovers(t)' /\ CacheFacts(t)'
  <2>1. t \in Tables /\ mem \in States /\ file \in States
    BY FollowedAreTables DEF TypeOK
  <2>2. /\ Current(t)' = Current(t)
        /\ Watermark(mem', t) = Watermark(mem, t) /\ Watermark(file', t) = Watermark(file, t)
    BY <1>1 DEF Current, Watermark
  <2>3. FileCovers(t)'
    <3>1. Covers(file, snap[t], t) /\ Watermark(file, t) >= Watermark(file, t)
      BY <1>1, <2>1, WatermarkType DEF Covered, FileCovers
    <3>2. MissesNothing(disk'[t], listed'[t], Fresh', pg'[t], Watermark(file, t), file.gens[t], snap[t], t)
      BY <1>3, <2>1, <3>1
    <3> QED
      BY <1>1, <2>2, <3>2 DEF FileCovers, Covers
  <2>4. MemCovers(t)'
    <3>1. CASE pc = "down"
      BY <1>1, <3>1 DEF MemCovers
    <3>2. CASE pc # "down"
      <4>1. Covers(mem, Current(t), t) /\ Watermark(mem, t) >= Watermark(file, t)
        BY <2>1, <3>2 DEF Covered, MemCovers, Ahead, MemoryAhead
      <4>2. MissesNothing(disk'[t], listed'[t], Fresh', pg'[t], Watermark(mem, t), mem.gens[t], Current(t), t)
        BY <1>3, <2>1, <4>1
      <4> QED
        BY <1>1, <2>2, <4>2 DEF MemCovers, Covers
    <3> QED
      BY <3>1, <3>2
  <2>5. CacheFacts(t)'
    <3>1. /\ ppGen[t] \in Nat /\ ppGen'[t] \in Nat /\ cache[t].ppGen \in Nat
          /\ \/ ppGen'[t] > ppGen[t]
             \/ ppGen'[t] = ppGen[t] /\ listed'[t] = listed[t]
      BY <1>2, <2>1 DEF TableMoves, TypeOK, FbTypeOK, Caches
    <3>2. CacheFacts(t)
      BY DEF Covered
    <3> QED
      BY <1>1, <3>1, <3>2 DEF CacheFacts
  <2> QED
    BY <2>3, <2>4, <2>5
<1>5. CycleFacts' /\ ScanFacts' /\ SaveFacts'
  <2>1. ScanFacts' /\ SaveFacts'
    BY <1>1 DEF ScanFacts, SaveFacts, Covered
  <2>2. ASSUME pc = "table", NEW t \in Followed
        PROVE  cycle.newMax < Fresh' /\ cycle.newMax <= Watermark(mem, t)
               /\ ("earlyGc" \in Env /\ Done(t) => cache[t].on)
    <3>1. cycle.newMax < Fresh /\ cycle.newMax <= Watermark(mem, t)
          /\ ("earlyGc" \in Env /\ Done(t) => cache[t].on)
      BY <1>1, <2>2 DEF Covered, CycleFacts
    <3>2. Fresh' >= Fresh /\ Fresh \in Nat /\ Fresh' \in Nat /\ cycle.newMax \in Nat
      BY <1>2, FollowedAreTables, FreshType, FreshNextType DEF TableMoves, TypeOK, Cycles
    <3> QED
      BY <3>1, <3>2
  <2>3. CycleFacts'
    BY <1>1, <2>2 DEF CycleFacts, Done, Watermark
  <2> QED
    BY <2>1, <2>3
<1> QED
  BY <1>2, <1>4, <1>5 DEF Covered, InOrder, TableMoves

LEMMA CoveredStutter == ASSUME Covered, UNCHANGED vars PROVE Covered'
<1>1. UNCHANGED <<fbVars, pc, mem, file, cache, pending, snap, mapped, turn, cycle, scan, pg>>
  BY DEF vars, loopVars
<1>2. \A t \in Followed : MemCovers(t)' /\ FileCovers(t)' /\ CacheFacts(t)'
  <2>1. ASSUME NEW t \in Followed PROVE MemCovers(t)'
    <3>1. CASE pc = "down"
      BY <1>1, <3>1 DEF MemCovers
    <3>2. CASE pc # "down"
      BY <1>1, <3>2, MemStillCovers
    <3> QED
      BY <3>1, <3>2
  <2>2. ASSUME NEW t \in Followed PROVE FileCovers(t)'
    <3>1. CASE pc = "saveSnap"
      BY <1>1, <3>1 DEF FileCovers
    <3>2. CASE pc # "saveSnap"
      BY <1>1, <3>2, FileStillCovers
    <3> QED
      BY <3>1, <3>2
  <2>3. ASSUME NEW t \in Followed PROVE CacheFacts(t)'
    BY <1>1 DEF Covered, CacheFacts, fbVars
  <2> QED
    BY <2>1, <2>2, <2>3
<1>3. CycleFacts' /\ SaveFacts'
  BY <1>1 DEF Covered, CycleFacts, SaveFacts, Settled, Current, Done, Watermark, fbVars, Fresh
<1>4. ScanFacts'
  BY <1>1 DEF Covered, ScanFacts, Gathered, Tells, fbVars, Fresh
<1> QED
  BY <1>1, <1>2, <1>3, <1>4, StillInOrder DEF Covered

\* No record has more than the last transaction's number.
LEMMA NothingGarbled == ASSUME TypeOK, DeltaInv, Covered, pc = "scan" PROVE ~Garbled
<1> SUFFICES ASSUME NEW u \in scan.ups, u.txn = Garbage PROVE FALSE
  BY DEF Garbled
<1> DEFINE t == TableOrder[turn]
<1>1. t \in Tables /\ u.loc \in LiveLocs(t) /\ u.txn = RecAt(t, u.loc).txn
  BY TurnType DEF TypeOK, DeltaInv, UpsOnDisk
<1>2. u.loc \in Rows(disk[t]) /\ u.loc \in Locs /\ u.txn = Rec(disk[t], u.loc).txn
  BY <1>1, DiskIsPages, RowsAndStubs DEF TypeOK
<1>3. u.txn <= MaxTxn
  BY <1>1, <1>2, RowsAndStubs DEF Covered, InOrder, WellKept, WholeRecs
<1> QED
  BY <1>3, FbDiskAssumption DEF Garbage

LEMMA CoveredNext ==
  ASSUME CopedWith, TypeOK, TypeOK', Ahead, DeltaInv, Covered, [Next]_vars
  PROVE  Covered'
<1>1. CASE Start \/ Poll \/ SkipTable \/ SyncTable \/ ScanPage \/ SyncOk
  BY <1>1, CoveredStart, CoveredPoll, CoveredSkipTable, CoveredSyncTable, CoveredScanPage, CoveredSyncOk
<1>2. CASE SyncRejected
  BY <1>2, NoConflict, NothingGarbled DEF SyncRejected, ScanDone, NoDoubleKey
<1>3. CASE EndCycle \/ SaveState \/ SaveSnap \/ SaveSnapFails
  BY <1>3, CoveredEndCycle, CoveredSaveState, CoveredSaveSnap
<1>4. CASE Stop \/ OpenFails \/ SyncFails \/ SyncAckLost \/ SaveStateFails \/ Crash
  BY <1>4, CoveredStop, CoveredOpenFails, CoveredSyncErr, CoveredCrash
<1>5. CASE Firebird \/ Grow
  BY <1>5, CoveredFirebird, CoveredGrow
<1>6. CASE UNCHANGED vars
  BY <1>6, CoveredStutter
<1> QED
  BY <1>1, <1>2, <1>3, <1>4, <1>5, <1>6 DEF Next, Watch, Failure

-----------------------------------------------------------------------------
(***************************************************************************)
(* What follows from the invariant.                                        *)
(***************************************************************************)
LEMMA SeenByCovered == ASSUME TypeOK, DeltaInv, Covered PROVE SeenIsReplicated
<1> SUFFICES ASSUME NEW t \in Followed, SeesAll(t) PROVE pg[t] = Content(t)
  BY DEF SeenIsReplicated
<1> DEFINE d == disk[t]
           ls == listed[t]
           pp == ppGen[t]
           w == Watermark(mem, t)
           g == mem.gens[t]
           rows == pg[t]
<1>1. t \in Tables
  BY FollowedAreTables
<1>2. /\ d \in PageFuns /\ OneRowEach(d) /\ WellKept(d, ls, pp, Fresh) /\ Fresh \in Nat
      /\ w \in Nat /\ rows \in [Keys -> Nat]
  BY <1>1, TableFacts
<1>3. MissesNothing(d, ls, Fresh, rows, w, g, Current(t), t) /\ \A p \in ls : g[p] = d[p].gen
  BY DEF SeesAll, Covered, MemCovers, Covers
<1> HIDE DEF d, ls, pp, w, g, rows
<1>4. rows = ContentOf(d)
  BY <1>2, <1>3, AllSeen
<1> QED
  BY <1>1, <1>4, DiskIsPages DEF d, rows, TypeOK

LEMMA PassedByCovered == ASSUME TypeOK, Covered PROVE WatermarkCovers
<1> SUFFICES ASSUME NEW t \in Followed, NEW l \in Locs, IsRec(t, l), "CHAIN" \notin RecAt(t, l).flags, Passed(t, l)
             PROVE  LET rec == RecAt(t, l)
                    IN  \/ pg[t][rec.key] = rec.txn /\ "DELETED" \notin rec.flags
                        \/ pg[t][rec.key] \notin 1..rec.txn /\ "DELETED" \in rec.flags
  BY DEF WatermarkCovers
<1>1. RecAt(t, l) = Rec(disk[t], l) /\ Rec(disk[t], l) # NoRec /\ Rec(disk[t], l).txn <= Watermark(file, t)
  BY FollowedAreTables, DiskIsPages DEF TypeOK, IsRec, Passed
<1>2. RowsHeld(disk[t], pg[t], Watermark(file, t)) /\ StubsHeld(disk[t], pg[t], Watermark(file, t))
  <2>1. CASE pc # "saveSnap"
    BY <2>1 DEF Covered, FileCovers, Covers, MissesNothing, Holds
  <2>2. CASE pc = "saveSnap"
    BY <2>2 DEF Covered, SaveFacts, MemCovers, Covers, MissesNothing, Holds
  <2> QED
    BY <2>1, <2>2
<1>3. CASE "DELETED" \notin Rec(disk[t], l).flags
  <2>1. l \in Rows(disk[t])
    BY <1>1, <1>3 DEF Rows, IsPrimary
  <2> QED
    BY <1>1, <1>2, <1>3, <2>1 DEF RowsHeld
<1>4. CASE "DELETED" \in Rec(disk[t], l).flags
  <2>1. l \in Stubs(disk[t])
    BY <1>1, <1>4 DEF Stubs
  <2> QED
    BY <1>1, <1>2, <1>4, <2>1 DEF StubsHeld
<1> QED
  BY <1>3, <1>4

LEMMA ReplicaSteps == ASSUME [Next]_vars PROVE UNCHANGED pg \/ SyncOk \/ SyncAckLost
<1>1. CASE Start \/ Poll \/ SkipTable \/ SyncTable \/ ScanPage
  BY <1>1 DEF Start, Poll, SkipTable, SyncTable, ScanPage
<1>2. CASE SyncRejected \/ EndCycle \/ SaveState \/ SaveSnap
  BY <1>2 DEF SyncRejected, EndCycle, SaveState, SaveSnap
<1>3. CASE Stop \/ OpenFails \/ SyncFails \/ SaveStateFails \/ SaveSnapFails \/ Crash
  BY <1>3 DEF Stop, OpenFails, SyncFails, SaveStateFails, SaveSnapFails, Crash
<1>4. CASE Firebird \/ Grow \/ UNCHANGED vars
  BY <1>4 DEF Firebird, Grow, vars
<1> QED
  BY <1>1, <1>2, <1>3, <1>4 DEF Next, Watch, Failure

\* A delta makes the replica of one table the table, and Firebird waits.
LEMMA AppliedIsWhole ==
  ASSUME CopedWith, TypeOK, Ahead, DeltaInv, Covered, SyncOk \/ SyncAckLost
  PROVE  \E u \in Followed : pg' = [pg EXCEPT ![u] = Content(u)] /\ UNCHANGED fbVars
<1> PICK u : u = TableOrder[turn]
  OBVIOUS
<1>1. ScanDone /\ pg' = [pg EXCEPT ![u] = Merged(@)] /\ UNCHANGED fbVars
  BY DEF SyncOk, SyncAckLost, SyncErr
<1>2. u \in Followed /\ u \in Tables /\ Merged(pg[u]) = ContentOf(disk[u])
  BY <1>1, ScanYields
<1>3. Content(u) = ContentOf(disk[u])
  BY <1>2, DiskIsPages DEF TypeOK
<1> QED
  BY <1>1, <1>2, <1>3 DEF TypeOK

\* The replica of a table stays as it is or becomes the table.
LEMMA AppliedIsContent ==
  ASSUME CopedWith, TypeOK, Ahead, DeltaInv, Covered, [Next]_vars, NEW t \in Followed
  PROVE  pg'[t] = pg[t] \/ pg'[t] = Content(t)
<1>1. CASE SyncOk \/ SyncAckLost
  <2>1. PICK u \in Followed : pg' = [pg EXCEPT ![u] = Content(u)]
    BY <1>1, AppliedIsWhole
  <2> QED
    BY <2>1, FollowedAreTables DEF TypeOK
<1> QED
  BY <1>1, ReplicaSteps

LEMMA RowsStay ==
  ASSUME CopedWith, TypeOK, Ahead, DeltaInv, Covered, [Next]_vars
  PROVE  \A t \in Followed : \A k \in LiveKeys(t) : pg[t][k] # NoRow => pg'[t][k] # NoRow
<1> SUFFICES ASSUME NEW t \in Followed, NEW k \in LiveKeys(t), pg[t][k] # NoRow PROVE pg'[t][k] # NoRow
  OBVIOUS
<1>1. t \in Tables /\ disk[t] \in PageFuns /\ OneRowEach(disk[t]) /\ WholeRecs(disk[t], listed[t], Fresh)
      /\ Fresh \in Nat /\ k \in RowKeys(disk[t]) /\ Content(t) = ContentOf(disk[t])
  BY FollowedAreTables, TableFacts, DiskIsPages DEF TypeOK, WellKept
<1>2. PICK l \in Rows(disk[t]) : Rec(disk[t], l).key = k
  BY <1>1 DEF RowKeys
<1>3. Content(t)[k] = Rec(disk[t], l).txn /\ Rec(disk[t], l).txn \in 1..(Fresh - 1)
  BY <1>1, <1>2, ContentIs, RowsAndStubs DEF WholeRecs
<1>4. Content(t)[k] # NoRow
  BY <1>1, <1>3 DEF NoRow
<1> QED
  BY <1>4, AppliedIsContent

\* The delta of a finished scan is what changed since the watermark.
LEMMA DeltaIs == ASSUME CopedWith, TypeOK, Ahead, DeltaInv, Covered PROVE DeltaIsWhatChanged
<1> DEFINE t == TableOrder[turn]
           d == disk[t]
           ls == listed[t]
           pp == ppGen[t]
           w == Watermark(mem, t)
           g == mem.gens[t]
           prev == cache[t].prev
           rows == pg[t]
           news == {k \in LiveKeys(t) : Content(t)[k] > scan.lastTxn}
<1> SUFFICES ASSUME ScanDone
             PROVE  /\ {<<u.key, u.txn>> : u \in scan.ups} = {<<k, Content(t)[k]>> : k \in news}
                    /\ \A k \in Keys \ LiveKeys(t) : rows[k] # NoRow => k \in DeltaDeletes
                    /\ DeltaDeletes \cap LiveKeys(t) \subseteq news
  BY DEF DeltaIsWhatChanged
<1>1. /\ t \in Tables /\ scan.lastTxn = w /\ Covers(mem, prev, t)
      /\ Tells(d, ls, w, g, prev, t) /\ ("earlyGc" \in Env => t \in FixedPk)
  BY ScanFinds
<1>2. /\ d \in PageFuns /\ OneRowEach(d) /\ WellKept(d, ls, pp, Fresh) /\ Fresh \in Nat
      /\ w \in Nat /\ prev \in Snapshot /\ rows \in [Keys -> Nat]
  BY <1>1, TableFacts
<1>3. MissesNothing(d, ls, Fresh, rows, w, g, prev, t) /\ prev = cache[TableOrder[turn]].prev
  BY <1>1 DEF Covers
<1>4. LiveKeys(t) = RowKeys(d) /\ Content(t) = ContentOf(d)
  BY <1>1, DiskIsPages DEF TypeOK
<1> DEFINE changed == {k \in RowKeys(d) : ContentOf(d)[k] > w}
<1>5. news = changed
  BY <1>1, <1>4
<1> HIDE DEF t, d, ls, pp, w, g, prev, rows, news
<1>6. /\ \A l \in Rows(d) : Rec(d, l).txn <= w => Rec(d, l).key \notin DeltaDeletes
      /\ \A k \in Keys \ RowKeys(d) : rows[k] # NoRow => k \in DeltaDeletes
  BY <1>1, <1>2, <1>3, DeletesAre
<1>7. ASSUME NEW k \in RowKeys(d)
      PROVE  \E l \in Rows(d) : /\ Rec(d, l).key = k /\ ContentOf(d)[k] = Rec(d, l).txn
                                /\ Rec(d, l).txn \in Nat /\ l[1] \in ls
  <2>1. PICK l \in Rows(d) : Rec(d, l).key = k
    BY DEF RowKeys
  <2> QED
    BY <1>2, <2>1, ContentIs, RowsAndStubs, RecType DEF WellKept, WholeRecs
<1>8. ASSUME NEW u \in scan.ups
      PROVE  u.key \in changed /\ u.txn = ContentOf(d)[u.key]
  <2>1. u.loc \in Rows(d) /\ u.key = Rec(d, u.loc).key /\ u.txn = Rec(d, u.loc).txn /\ u.txn > w
    BY <1>1 DEF Tells
  <2> QED
    BY <1>2, <2>1, ContentIs DEF RowKeys
<1>9. ASSUME NEW k \in changed PROVE \E u \in scan.ups : u.key = k
  <2>1. PICK l \in Rows(d) : Rec(d, l).key = k /\ ContentOf(d)[k] = Rec(d, l).txn /\ l[1] \in ls
    BY <1>7
  <2> QED
    BY <1>1, <2>1 DEF Tells
<1>10. {<<u.key, u.txn>> : u \in scan.ups} = {<<k, ContentOf(d)[k]>> : k \in changed}
  BY <1>8, <1>9
<1>11. ASSUME NEW k \in DeltaDeletes \cap RowKeys(d) PROVE k \in changed
  <2>1. PICK l \in Rows(d) : Rec(d, l).key = k /\ ContentOf(d)[k] = Rec(d, l).txn /\ Rec(d, l).txn \in Nat
    BY <1>7
  <2> QED
    BY <1>2, <1>6, <2>1
<1> QED
  BY <1>4, <1>5, <1>6, <1>10, <1>11

LEMMA MirrorInit == Init => Mirrored!Init
<1> SUFFICES ASSUME Init PROVE Mirrored!Init
  OBVIOUS
<1> DEFINE source == [t \in Followed |-> Content(t)]
           shown == [t \in Followed |-> pg[t]]
<1>1. ASSUME NEW t \in Followed PROVE Content(t) = [k \in Keys |-> NoRow] /\ pg[t] = [k \in Keys |-> NoRow]
  <2>1. t \in Tables
    BY FollowedAreTables
  <2>2. ASSUME NEW l \in Locs PROVE RecAt(t, l) = NoRec
    <3>1. l[1] \in Pages /\ l[2] \in Slots
      BY DEF Locs
    <3>2. disk[t] = [p \in Pages |-> [gen |-> 1, slots |-> [s \in Slots |-> NoRec]]]
      BY <2>1 DEF Init, FbInit
    <3> QED
      BY <3>1, <3>2 DEF RecAt
  <2>3. LiveKeys(t) = {}
    BY <2>2 DEF LiveKeys, LiveLocs, IsPrimary
  <2> QED
    BY <2>1, <2>3 DEF Content, Init
<1>2. source = shown /\ source \in [Followed -> [Keys -> Nat]]
  BY <1>1 DEF NoRow
<1> QED
  BY <1>2 DEF Mirrored!Init

LEMMA ContentNext == ASSUME NEW t PROVE Content(t)' = ContentOf(disk'[t])
BY DEF Content, ContentOf, LiveKeys, RowKeys, LiveLocs, Rows, RecAt, Rec

\* Each step is a change in Firebird, a refresh of one table, or none of both.
LEMMA MirrorStep ==
  ASSUME CopedWith, TypeOK, TypeOK', Ahead, DeltaInv, DeltaInv', Covered, Covered', [Next]_vars
  PROVE  [Mirrored!Next]_(Mirrored!vars)
<1> DEFINE source == [t \in Followed |-> Content(t)]
           shown == [t \in Followed |-> pg[t]]
<1>1. source' \in [Followed -> [Keys -> Nat]]
  <2>1. ASSUME NEW t \in Followed
        PROVE  Content(t)' = ContentOf(disk'[t]) /\ disk'[t] \in PageFuns /\ OneRowEach(disk'[t])
    <3>1. t \in Tables
      BY FollowedAreTables
    <3>2. disk'[t] \in PageFuns
      BY <3>1 DEF TypeOK, FbTypeOK, PageFuns
    <3>3. OneRowEach(disk'[t])
      BY <3>1 DEF DeltaInv, Chains, OnePrimary, OneRowEach, Rows, Rec, LiveLocs, RecAt
    <3> QED
      BY <3>2, <3>3, ContentNext
  <2>2. \A t \in Followed : Content(t)' \in [Keys -> Nat]
    BY <2>1, ContentType
  <2> QED
    BY <2>2
<1>2. CASE UNCHANGED pg
  <2>1. UNCHANGED shown
    BY <1>2
  <2> QED
    BY <1>1, <2>1 DEF Mirrored!Next, Mirrored!Change
<1>3. CASE SyncOk \/ SyncAckLost
  <2>1. PICK u \in Followed : pg' = [pg EXCEPT ![u] = Content(u)] /\ UNCHANGED fbVars
    BY <1>3, AppliedIsWhole
  <2>2. UNCHANGED source
    <3>1. \A t \in Followed : Content(t)' = ContentOf(disk[t])
      BY <2>1, ContentNext DEF fbVars
    <3>2. \A t \in Followed : Content(t) = ContentOf(disk[t])
      BY FollowedAreTables, DiskIsPages DEF TypeOK
    <3> QED
      BY <3>1, <3>2
  <2>3. shown' = [shown EXCEPT ![u] = source[u]]
    BY <2>1, FollowedAreTables DEF TypeOK
  <2> QED
    BY <2>2, <2>3 DEF Mirrored!Next, Mirrored!Refresh
<1> QED
  BY <1>2, <1>3, ReplicaSteps

-----------------------------------------------------------------------------
(***************************************************************************)
(* The theorems.                                                           *)
(***************************************************************************)
AllCovered == TypeOK /\ Ahead /\ DeltaInv /\ Covered

LEMMA AllCoveredInit == Init => AllCovered
BY InitType, AheadInit, DeltaInit, CoveredInit DEF AllCovered

LEMMA AllCoveredNext == ASSUME CopedWith, AllCovered, [Next]_vars PROVE AllCovered'
<1>1. CalmWrites
  BY DEF CopedWith, CalmWrites, ChangesOnce
<1>2. TypeOK' /\ Ahead'
  BY NextType, AheadNext DEF AllCovered
<1> QED
  BY <1>1, <1>2, DeltaNext, CoveredNext DEF AllCovered

\* A page generation the loop has merged into its state (run_watch, cdc.rs)
\* stands for changes that are in the replica: when the generations of all
\* pages of a table are remembered, and every later scan passes over them, the
\* replica of that table is the table, for the surroundings of CopedWith.
THEOREM RememberedIsReplicated == CopedWith => (Spec => []SeenIsReplicated)
<1> SUFFICES ASSUME CopedWith PROVE Spec => []SeenIsReplicated
  OBVIOUS
<1>1. Init => AllCovered
  BY AllCoveredInit
<1>2. AllCovered /\ [Next]_vars => AllCovered'
  BY AllCoveredNext
<1>3. AllCovered => SeenIsReplicated
  BY SeenByCovered DEF AllCovered
<1> QED
  BY <1>1, <1>2, <1>3, PTL DEF Spec

\* The watermark of the state file (CdcState::save, cdc.rs) passes over
\* nothing: after a restart the row versions and the deletes it has reached,
\* which no scan will look at again, are in the replica.
THEOREM SavedWatermarkCovers == CopedWith => (Spec => []WatermarkCovers)
<1> SUFFICES ASSUME CopedWith PROVE Spec => []WatermarkCovers
  OBVIOUS
<1>1. Init => AllCovered
  BY AllCoveredInit
<1>2. AllCovered /\ [Next]_vars => AllCovered'
  BY AllCoveredNext
<1>3. AllCovered => WatermarkCovers
  BY PassedByCovered DEF AllCovered
<1> QED
  BY <1>1, <1>2, <1>3, PTL DEF Spec

\* Neither a delete stub left by an earlier row of the same key nor the
\* comparison of key snapshots (scan_changes_into, cdc.rs) makes apply_delta
\* remove a row that is in the table.
THEOREM LiveRowsAreKept == CopedWith => (Spec => LiveRowsStay)
<1> SUFFICES ASSUME CopedWith PROVE Spec => LiveRowsStay
  OBVIOUS
<1> DEFINE Stays == \A t \in Followed : \A k \in LiveKeys(t) : pg[t][k] # NoRow => pg'[t][k] # NoRow
<1>1. Init => AllCovered
  BY AllCoveredInit
<1>2. AllCovered /\ [Next]_vars => AllCovered'
  BY AllCoveredNext
<1>3. AllCovered /\ [Next]_vars => Stays
  BY RowsStay DEF AllCovered
<1>4. LiveRowsStay <=> [][Stays]_vars
  BY DEF LiveRowsStay
<1> QED
  BY <1>1, <1>2, <1>3, <1>4, PTL DEF Spec

\* What scan_changes_into hands to the sink is what the agent and the gateway
\* take a delta for: the rows changed since the watermark of the scan, as they
\* are, every row that is gone, and no delete of a row that has not changed.
THEOREM DeltasAreWhatChanged == CopedWith => (Spec => []DeltaIsWhatChanged)
<1> SUFFICES ASSUME CopedWith PROVE Spec => []DeltaIsWhatChanged
  OBVIOUS
<1>1. Init => AllCovered
  BY AllCoveredInit
<1>2. AllCovered /\ [Next]_vars => AllCovered'
  BY AllCoveredNext
<1>3. AllCovered => DeltaIsWhatChanged
  BY DeltaIs DEF AllCovered
<1> QED
  BY <1>1, <1>2, <1>3, PTL DEF Spec

\* CdcWatch implements Mirror: each table in the replica is at every moment a
\* whole state the table in Firebird has had and moves only to later ones, for
\* however the sink fails and the process stops in the surroundings of
\* CopedWith.
THEOREM ReplicaIsMirror == CopedWith => (Spec => IsMirror)
<1> SUFFICES ASSUME CopedWith PROVE Spec => IsMirror
  OBVIOUS
<1>1. Init => AllCovered
  BY AllCoveredInit
<1>2. AllCovered /\ [Next]_vars => AllCovered'
  BY AllCoveredNext
<1>3. Init => Mirrored!Init
  BY MirrorInit
<1>4. AllCovered /\ AllCovered' /\ [Next]_vars => [Mirrored!Next]_(Mirrored!vars)
  BY MirrorStep DEF AllCovered
<1> QED
  BY <1>1, <1>2, <1>3, <1>4, PTL DEF Spec, IsMirror, Mirrored!Spec

-----------------------------------------------------------------------------
(***************************************************************************)
(* What the loop has done with when it goes to sleep.  Between the cycles  *)
(* and of the tables a cycle is done with, the replica is the table, as    *)
(* long as the header page has the generation the cycle was started for.   *)
(***************************************************************************)
NothingRefused == Env \cap {"sinkFails", "readFails"} = {}

InReplica(t) == pg[t] = ContentOf(disk[t])

Handled ==
  /\ lastHdr <= hdrGen
  /\ pc = "down" => lastHdr = 0
  /\ lastHdr = hdrGen => \A t \in Followed : pc \notin {"table", "scan"} \/ Done(t) => InReplica(t)

\* Only COMMIT leaves the header page as it is, and the tables with it.
LEMMA FirebirdCounts == ASSUME Firebird PROVE hdrGen' = hdrGen + 1 \/ UNCHANGED <<hdrGen, disk>>
<1> USE DEF Uses, Change
<1>1. \A t, l, k, x, wide : Insert(t, l, k, x, wide) => hdrGen' = hdrGen + 1
  BY DEF Insert
<1>2. \A t, l, b, x, wide : Update(t, l, b, x, wide) => hdrGen' = hdrGen + 1
  BY DEF Update
<1>3. \A t, l, b, x : Delete(t, l, b, x) => hdrGen' = hdrGen + 1
  BY DEF Delete
<1>4. \A t, l, b, wide : CollectBack(t, l, b) \/ Undo(t, l, b, wide) => hdrGen' = hdrGen + 1
  BY DEF CollectBack, Undo
<1>5. \A t, l : CollectStub(t, l) => hdrGen' = hdrGen + 1
  BY DEF CollectStub
<1>6. Begin => hdrGen' = hdrGen + 1
  BY DEF Begin
<1>7. \A t, p : Release(t, p) => hdrGen' = hdrGen + 1
  BY DEF Release
<1>8. \A x : Commit(x) => UNCHANGED <<hdrGen, disk>>
  BY DEF Commit
<1> QED
  BY <1>1, <1>2, <1>3, <1>4, <1>5, <1>6, <1>7, <1>8, Zenon DEF Firebird

\* The table at turn is done with and in the replica, and the others are as
\* they were.
LEMMA HandledTable ==
  ASSUME TypeOK, Handled, NEW t, t = TableOrder[turn], turn \in DOMAIN TableOrder, pc \in {"table", "scan"},
         pc' = "table", turn' = turn + 1, UNCHANGED <<disk, hdrGen, lastHdr>>,
         t \in Followed => pg'[t] = ContentOf(disk[t]),
         \A u \in Followed : u # t => pg'[u] = pg[u]
  PROVE  Handled'
<1>1. ASSUME NEW u \in Followed, Done(u)', lastHdr = hdrGen PROVE InReplica(u)'
  <2>1. Done(u) \/ u = t
    BY <1>1, DoneNext
  <2>2. CASE u = t
    BY <2>2 DEF InReplica
  <2>3. CASE u # t
    BY <1>1, <2>1, <2>3 DEF Handled, InReplica
  <2> QED
    BY <2>2, <2>3
<1> QED
  BY <1>1 DEF Handled

LEMMA HandledSyncTable == ASSUME AllCovered, Handled, SyncTable PROVE Handled'
<1> PICK t : t = TableOrder[turn]
  OBVIOUS
<1>1. /\ pc = "table" /\ turn \in DOMAIN TableOrder /\ t \in Keyed /\ UNCHANGED <<disk, hdrGen, lastHdr, pg>>
      /\ \/ ppGen[t] = 0 /\ turn' = turn + 1 /\ UNCHANGED pc
         \/ pc' = "scan" /\ UNCHANGED turn
  BY DEF SyncTable, fbVars
<1>2. t \in Followed /\ t \in Tables
  BY <1>1, FollowedAreTables DEF Followed
<1>3. CASE ppGen[t] = 0 /\ turn' = turn + 1 /\ UNCHANGED pc
  <2>1. Covers(mem, Current(t), t)
    BY <1>1, <1>2 DEF AllCovered, Covered, MemCovers
  <2>2. pg[t] = ContentOf(disk[t])
    BY <1>2, <1>3, <2>1, EmptyIsSettled DEF AllCovered
  <2> QED
    BY <1>1, <1>3, <2>2, HandledTable DEF AllCovered
<1>4. CASE pc' = "scan" /\ UNCHANGED turn
  BY <1>1, <1>4 DEF Handled, Done, InReplica
<1> QED
  BY <1>1, <1>3, <1>4

LEMMA HandledSync == ASSUME CopedWith, AllCovered, Handled, SyncOk \/ SyncAckLost PROVE Handled'
<1> PICK t : t = TableOrder[turn]
  OBVIOUS
<1>1. /\ ScanDone /\ pc = "scan" /\ pc' = "table" /\ turn' = turn + 1
      /\ pg' = [pg EXCEPT ![t] = Merged(@)] /\ UNCHANGED <<disk, hdrGen, lastHdr>>
  BY DEF SyncOk, SyncAckLost, SyncErr, ScanDone, fbVars
<1>2. t \in Tables /\ turn \in DOMAIN TableOrder /\ Merged(pg[t]) = ContentOf(disk[t])
  BY <1>1, ScanYields DEF AllCovered
<1>3. pg'[t] = ContentOf(disk[t]) /\ \A u \in Followed : u # t => pg'[u] = pg[u]
  BY <1>1, <1>2, FollowedAreTables DEF AllCovered, TypeOK
<1> QED
  BY <1>1, <1>2, <1>3, HandledTable DEF AllCovered

LEMMA HandledNext ==
  ASSUME CopedWith, NothingRefused, AllCovered, Handled, [Next]_vars
  PROVE  Handled'
<1> USE DEF Handled, InReplica
<1>1. hdrGen \in Nat \ {0} /\ lastHdr \in Nat
  BY DEF AllCovered, TypeOK, FbTypeOK
<1>2. CASE Start
  BY <1>1, <1>2 DEF Start, fbVars
<1>3. CASE Poll
  BY <1>1, <1>3, NoneDone DEF Poll, fbVars
<1>4. CASE SkipTable
  <2>1. \A u \in Followed : Done(u)' => Done(u)
    BY <1>4, DoneNext DEF SkipTable, Followed, AllCovered, Fault, NothingRefused
  <2> QED
    BY <1>4, <2>1 DEF SkipTable, fbVars
<1>5. CASE SyncTable \/ SyncOk \/ SyncAckLost
  BY <1>5, HandledSyncTable, HandledSync
<1>6. CASE ScanPage
  BY <1>6 DEF ScanPage, Done, fbVars
<1>7. CASE SyncRejected
  BY <1>7, NoConflict, NothingGarbled DEF SyncRejected, ScanDone, NoDoubleKey, AllCovered
<1>8. CASE EndCycle
  BY <1>8, AllDone DEF EndCycle, AllCovered, fbVars
<1>9. CASE Stop \/ SaveState
  BY <1>9 DEF Stop, SaveState, loopVars, fbVars
<1>10. CASE SaveSnap \/ SaveSnapFails
  BY <1>1, <1>10 DEF SaveSnap, SaveSnapFails, AfterSave, Die, loopVars, fbVars
<1>11. CASE SaveStateFails \/ Crash
  BY <1>1, <1>11 DEF SaveStateFails, Crash, Die, fbVars
<1>12. CASE OpenFails \/ SyncFails
  BY <1>12 DEF OpenFails, SyncFails, Fault, NothingRefused
<1>13. CASE Firebird
  <2>1. hdrGen' = hdrGen + 1 \/ UNCHANGED <<hdrGen, disk>>
    BY <1>13, FirebirdCounts
  <2>2. UNCHANGED <<lastHdr, pc, pg, turn>>
    BY <1>13 DEF Firebird, loopVars
  <2> QED
    BY <1>1, <2>1, <2>2 DEF Done
<1>14. CASE Grow \/ UNCHANGED vars
  BY <1>14 DEF Grow, Done, vars, loopVars, fbVars
<1> QED
  BY <1>2, <1>3, <1>4, <1>5, <1>6, <1>7, <1>8, <1>9, <1>10, <1>11, <1>12, <1>13, <1>14
     DEF Next, Watch, Failure

\* run_watch polls the generation of the header page and sleeps as long as it
\* is the one it has handled.  In the surroundings of CopedWith, when the sink
\* has not refused a delta and the catalog could be read, the replica is then
\* every followed table: nothing is left for Firebird to wake the loop for.
THEOREM SleepsReplicated == CopedWith /\ NothingRefused => (Spec => []SleepsWhenReplicated)
<1> SUFFICES ASSUME CopedWith, NothingRefused PROVE Spec => []SleepsWhenReplicated
  OBVIOUS
<1>1. Init => AllCovered /\ Handled
  BY AllCoveredInit DEF Init, FbInit, Handled
<1>2. AllCovered /\ Handled /\ [Next]_vars => AllCovered' /\ Handled'
  BY AllCoveredNext, HandledNext
<1>3. AllCovered /\ Handled => SleepsWhenReplicated
  <2> SUFFICES ASSUME AllCovered, Handled, pc = "idle", lastHdr = hdrGen, NEW t \in Followed
               PROVE  pg[t] = Content(t)
    BY DEF SleepsWhenReplicated
  <2>1. pg[t] = ContentOf(disk[t])
    BY DEF Handled, InReplica
  <2> QED
    BY <2>1, FollowedAreTables, DiskIsPages DEF AllCovered, TypeOK
<1> QED
  BY <1>1, <1>2, <1>3, PTL DEF Spec

=============================================================================
