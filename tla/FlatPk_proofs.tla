---------------------------- MODULE FlatPk_proofs ----------------------------
(***************************************************************************)
(* Theorems about FlatPk for arrays of any length and any keys: sorting and*)
(* deduplicating keep the keys, and the search answers membership if no    *)
(* chunk is longer than the scratch space.                                 *)
(*                                                                         *)
(* The heap is described by its edges alone; that its top is the largest   *)
(* chunk takes a least counterexample (LeastOf in Joined).                 *)
(***************************************************************************)
EXTENDS FlatPk, Joined

-----------------------------------------------------------------------------
(***************************************************************************)
(* Arrays, heaps and swaps, as facts about functions.                      *)
(***************************************************************************)
IsArray(f, m) == \A j \in 0..(m - 1) : j \in DOMAIN f /\ f[j] \in PkValues
KeysOf(f, J)  == {f[j] : j \in J}

\* f is ordered from index a on, before index b.
Ascends(f, a, b) == \A j, k \in a..(b - 1) : j < k => f[j] <= f[k]

\* Everything before index e is at most what stands from e on, before m.
Splits(f, e, m) == \A j \in 0..(e - 1), k \in e..(m - 1) : f[j] <= f[k]

Up(j) == (j - 1) \div 2

\* A heap of the first e chunks, as far as the parents from b on go ...
IsHeap(f, b, e) == \A j \in 1..(e - 1) : Up(j) >= b => f[j] <= f[Up(j)]

\* ... and one whose chunk x may be smaller than its children.
HeapBut(f, b, e, x) ==
  /\ \A j \in 1..(e - 1) : Up(j) >= b /\ Up(j) # x => f[j] <= f[Up(j)]
  /\ x # 0 /\ Up(x) >= b => \A j \in 1..(e - 1) : Up(j) = x => f[j] <= f[Up(x)]

Swap(f, a, b) == [f EXCEPT ![a] = f[b], ![b] = f[a]]

LEMMA ArrayIsOrdered ==
  ASSUME NEW m \in Nat, NEW f, IsArray(f, m)
  PROVE  \A j \in 0..(m - 1) : f[j] \in Int
<1> SUFFICES ASSUME NEW j \in 0..(m - 1) PROVE f[j] \in Int
  OBVIOUS
<1>1. f[j] \in PkValues
  BY DEF IsArray
<1>2. PkValues \subseteq Int
  BY FlatPkAssumption
<1> QED
  BY <1>1, <1>2

LEMMA UpFacts ==
  ASSUME NEW j \in Nat \ {0}
  PROVE  /\ Up(j) \in 0..(j - 1)
         /\ j = 2 * Up(j) + 1 \/ j = 2 * Up(j) + 2
BY DEF Up

LEMMA SwapFacts ==
  ASSUME NEW m \in Nat, NEW f, IsArray(f, m), NEW a \in 0..(m - 1), NEW b \in 0..(m - 1)
  PROVE  /\ IsArray(Swap(f, a, b), m)
         /\ Swap(f, a, b)[a] = f[b]
         /\ Swap(f, a, b)[b] = f[a]
         /\ \A j \in 0..(m - 1) : j # a /\ j # b => Swap(f, a, b)[j] = f[j]
BY DEF Swap, IsArray

LEMMA SwapKeeps ==
  ASSUME NEW m \in Nat, NEW f, IsArray(f, m), NEW a \in 0..(m - 1), NEW b \in 0..(m - 1)
  PROVE  KeysOf(Swap(f, a, b), 0..(m - 1)) = KeysOf(f, 0..(m - 1))
<1> DEFINE g == Swap(f, a, b)
<1>1. /\ g[a] = f[b] /\ g[b] = f[a]
      /\ \A j \in 0..(m - 1) : j # a /\ j # b => g[j] = f[j]
  BY SwapFacts
<1> HIDE DEF g
<1>2. \A j \in 0..(m - 1) : \E k \in 0..(m - 1) : g[j] = f[k]
  BY <1>1
<1>3. \A j \in 0..(m - 1) : \E k \in 0..(m - 1) : f[j] = g[k]
  BY <1>1
<1>4. KeysOf(g, 0..(m - 1)) = KeysOf(f, 0..(m - 1))
  BY <1>2, <1>3 DEF KeysOf
<1> QED
  BY <1>4 DEF g

\* The top of a heap is its largest chunk.
LEMMA TopIsLargest ==
  ASSUME NEW m \in Nat, NEW f, IsArray(f, m), NEW e \in 1..m, IsHeap(f, 0, e)
  PROVE  \A j \in 0..(e - 1) : f[j] <= f[0]
<1> DEFINE T == {j \in 0..(e - 1) : ~(f[j] <= f[0])}
<1>1. SUFFICES ASSUME T # {} PROVE FALSE
  OBVIOUS
<1>2. PICK x \in T : \A y \in T : x <= y
  <2>1. T \subseteq Nat
    OBVIOUS
  <2> HIDE DEF T
  <2> QED
    BY <1>1, <2>1, LeastOf
<1>3. /\ \A j \in 0..(e - 1) : f[j] \in Int
      /\ 0 \in 0..(e - 1)
  <2>1. 0..(e - 1) \subseteq 0..(m - 1)
    OBVIOUS
  <2> QED
    BY <2>1, ArrayIsOrdered
<1>4. x \in 0..(e - 1) /\ x # 0 /\ ~(f[x] <= f[0])
  BY <1>2, <1>3
<1>5. Up(x) \in 0..(x - 1)
  BY <1>4, UpFacts
<1>6. Up(x) \in 0..(e - 1) /\ Up(x) \notin T
  BY <1>2, <1>4, <1>5
<1>7. f[x] <= f[Up(x)]
  BY <1>4, <1>5 DEF IsHeap
<1>8. f[Up(x)] <= f[0]
  BY <1>6
<1> QED
  BY <1>3, <1>4, <1>6, <1>7, <1>8

\* A chunk that is smaller than its larger child changes places with it.
LEMMA SiftStep ==
  ASSUME NEW m \in Nat, NEW f, IsArray(f, m), NEW e \in 0..m,
         NEW b \in Nat, NEW x \in b..(e - 1), HeapBut(f, b, e, x),
         NEW c \in 1..(e - 1), Up(c) = x, f[x] < f[c],
         \A j \in 1..(e - 1) : Up(j) = x => f[j] <= f[c]
  PROVE  HeapBut(Swap(f, x, c), b, e, c)
<1> DEFINE g == Swap(f, x, c)
<1>1. /\ x \in 0..(m - 1) /\ c \in 0..(m - 1) /\ x < c
      /\ \A j \in 0..(e - 1) : f[j] \in Int /\ j \in 0..(m - 1)
  <2>1. 0..(e - 1) \subseteq 0..(m - 1)
    OBVIOUS
  <2> QED
    BY <2>1, UpFacts, ArrayIsOrdered
<1>2. /\ g[x] = f[c] /\ g[c] = f[x]
      /\ \A j \in 0..(e - 1) : j # x /\ j # c => g[j] = f[j]
  BY <1>1, SwapFacts
<1> HIDE DEF g
<1>3. \A j \in 1..(e - 1) : Up(j) \in 0..(j - 1) /\ Up(j) \in 0..(e - 1)
  BY UpFacts
<1>4. ASSUME NEW j \in 1..(e - 1), Up(j) >= b, Up(j) # c
      PROVE  g[j] <= g[Up(j)]
  <2>1. CASE j = c
    BY <1>1, <1>2, <2>1
  <2>2. CASE j # c /\ Up(j) = x
    BY <1>1, <1>2, <1>3, <2>2
  <2>3. CASE j = x
    <3>1. f[c] <= f[Up(x)]
      BY <1>1, <1>4, <2>3 DEF HeapBut
    <3>2. g[Up(x)] = f[Up(x)]
      BY <1>2, <1>3, <1>4, <2>3
    <3> QED
      BY <1>2, <2>3, <3>1, <3>2
  <2>4. CASE j # c /\ j # x /\ Up(j) # x
    <3>1. f[j] <= f[Up(j)]
      BY <1>4, <2>4 DEF HeapBut
    <3>2. g[j] = f[j] /\ g[Up(j)] = f[Up(j)]
      BY <1>2, <1>3, <1>4, <2>4
    <3> QED
      BY <3>1, <3>2
  <2> QED
    BY <2>1, <2>2, <2>3, <2>4
<1>5. ASSUME NEW j \in 1..(e - 1), Up(j) = c PROVE g[j] <= g[Up(c)]
  <2>1. g[j] = f[j]
    BY <1>1, <1>2, <1>3, <1>5
  <2>2. f[j] <= f[c]
    BY <1>1, <1>5 DEF HeapBut
  <2> QED
    BY <1>2, <2>1, <2>2
<1>6. HeapBut(g, b, e, c)
  BY <1>4, <1>5 DEF HeapBut
<1> QED
  BY <1>6 DEF g

\* The top changes places with the last chunk, which then belongs to the sorted end.
LEMMA PopStep ==
  ASSUME NEW m \in Nat, NEW f, IsArray(f, m), NEW e \in 2..m, IsHeap(f, 0, e),
         Ascends(f, e, m), Splits(f, e, m)
  PROVE  /\ HeapBut(Swap(f, 0, e - 1), 0, e - 1, 0)
         /\ Ascends(Swap(f, 0, e - 1), e - 1, m)
         /\ Splits(Swap(f, 0, e - 1), e - 1, m)
<1> DEFINE g == Swap(f, 0, e - 1)
<1>1. /\ 0 \in 0..(m - 1) /\ e - 1 \in 0..(m - 1)
      /\ \A j \in 0..(m - 1) : f[j] \in Int
  BY ArrayIsOrdered
<1>2. /\ g[0] = f[e - 1] /\ g[e - 1] = f[0]
      /\ \A j \in 0..(m - 1) : j # 0 /\ j # e - 1 => g[j] = f[j]
  BY <1>1, SwapFacts
<1> HIDE DEF g
<1>3. \A j \in 0..(e - 1) : f[j] <= f[0]
  <2>1. e \in 1..m
    OBVIOUS
  <2> QED
    BY <2>1, TopIsLargest
<1>4. HeapBut(g, 0, e - 1, 0)
  <2>1. ASSUME NEW j \in 1..(e - 2), Up(j) # 0 PROVE g[j] <= g[Up(j)]
    <3>1. Up(j) \in 1..(j - 1)
      BY <2>1, UpFacts
    <3>2. g[j] = f[j] /\ g[Up(j)] = f[Up(j)]
      BY <1>2, <3>1
    <3> QED
      BY <3>1, <3>2 DEF IsHeap
  <2> QED
    BY <2>1 DEF HeapBut
<1>5. \A k \in e..(m - 1) : g[k] = f[k]
  BY <1>2
<1>6. \A j \in 0..(e - 2) : \E k \in 0..(e - 1) : g[j] = f[k]
  BY <1>2
<1>7. Ascends(g, e - 1, m)
  <2> SUFFICES ASSUME NEW j \in (e - 1)..(m - 1), NEW k \in (e - 1)..(m - 1), j < k
               PROVE  g[j] <= g[k]
    BY DEF Ascends
  <2>1. CASE j = e - 1
    BY <1>2, <1>5, <2>1 DEF Splits
  <2>2. CASE j # e - 1
    BY <1>5, <2>2 DEF Ascends
  <2> QED
    BY <2>1, <2>2
<1>8. Splits(g, e - 1, m)
  <2> SUFFICES ASSUME NEW j \in 0..(e - 2), NEW k \in (e - 1)..(m - 1)
               PROVE  g[j] <= g[k]
    BY DEF Splits
  <2>1. PICK h \in 0..(e - 1) : g[j] = f[h]
    BY <1>6
  <2>2. CASE k = e - 1
    BY <1>2, <1>3, <2>1, <2>2
  <2>3. CASE k # e - 1
    BY <1>5, <2>1, <2>3 DEF Splits
  <2> QED
    BY <2>2, <2>3
<1> QED
  BY <1>4, <1>7, <1>8 DEF g

\* A swap before index e leaves the sorted end where it is.
LEMMA SwapBeforeEnd ==
  ASSUME NEW m \in Nat, NEW f, IsArray(f, m), NEW e \in 0..m,
         NEW a \in 0..(e - 1), NEW b \in 0..(e - 1),
         Ascends(f, e, m), Splits(f, e, m)
  PROVE  Ascends(Swap(f, a, b), e, m) /\ Splits(Swap(f, a, b), e, m)
<1> DEFINE g == Swap(f, a, b)
<1>1. a \in 0..(m - 1) /\ b \in 0..(m - 1)
  OBVIOUS
<1>2. /\ g[a] = f[b] /\ g[b] = f[a]
      /\ \A j \in 0..(m - 1) : j # a /\ j # b => g[j] = f[j]
  BY <1>1, SwapFacts
<1> HIDE DEF g
<1>3. \A k \in e..(m - 1) : g[k] = f[k]
  BY <1>2
<1>4. \A j \in 0..(e - 1) : \E h \in 0..(e - 1) : g[j] = f[h]
  BY <1>2
<1>5. Ascends(g, e, m)
  BY <1>3 DEF Ascends
<1>6. Splits(g, e, m)
  BY <1>3, <1>4 DEF Splits
<1> QED
  BY <1>5, <1>6 DEF g

-----------------------------------------------------------------------------
(***************************************************************************)
(* What every loop leaves alone: the indices stay in the array, and the    *)
(* chunks that are still to be looked at have the keys it was filled with. *)
(***************************************************************************)
Heaping == at \in {"heapify", "sift", "pop"}

Indices ==
  /\ at \in {"start", "heapify", "sift", "pop"} => w = 1 /\ r = 1
  /\ Heaping => n >= 2 /\ i \in 0..n /\ end \in 1..n
  /\ at = "heapify" => end = n
  /\ at = "sift" => root \in i..(end - 1) /\ (end # n => i = 0)
  /\ at = "pop" => i = 0
  /\ at = "dedup" => w \in 1..n /\ r \in w..n

Unspent == KeysOf(flat, (0..(w - 1)) \cup (r..(n - 1)))

KeepInv ==
  /\ n \in Nat
  /\ IsArray(flat, n)
  /\ KeysOf(flat, 0..(n - 1)) = pks
  /\ Indices
  /\ at = "dedup" => Unspent = pks

\* The larger child is a child, and no child is larger.
LEMMA ChildFacts ==
  ASSUME KeepInv, at = "sift", 2 * root + 1 < end
  PROVE  /\ Child \in 1..(end - 1)
         /\ Up(Child) = root
         /\ \A j \in 1..(end - 1) : Up(j) = root => flat[j] <= flat[Child]
<1>1. root \in Nat /\ end \in 1..n /\ n \in Nat
  BY DEF KeepInv, Indices, Heaping
<1>2. \A j \in 0..(end - 1) : flat[j] \in Int
  <2>1. 0..(end - 1) \subseteq 0..(n - 1)
    BY <1>1
  <2> QED
    BY <1>1, <2>1, ArrayIsOrdered DEF KeepInv
<1>3. \A j \in 1..(end - 1) : Up(j) = root => j = 2 * root + 1 \/ j = 2 * root + 2
  BY <1>1, UpFacts
<1>4. Up(2 * root + 1) = root /\ Up(2 * root + 2) = root
  BY <1>1 DEF Up
<1>5. CASE 2 * root + 2 < end /\ flat[2 * root + 1] < flat[2 * root + 2]
  <2>1. Child = 2 * root + 2
    BY <1>1, <1>5 DEF Child
  <2> QED
    BY <1>1, <1>2, <1>3, <1>4, <1>5, <2>1
<1>6. CASE ~(2 * root + 2 < end /\ flat[2 * root + 1] < flat[2 * root + 2])
  <2>1. Child = 2 * root + 1
    BY <1>1, <1>6 DEF Child
  <2> QED
    BY <1>1, <1>2, <1>3, <1>4, <1>6, <2>1
<1> QED
  BY <1>5, <1>6

LEMMA KeepInit == FlatInit => KeepInv
<1> SUFFICES ASSUME FlatInit PROVE KeepInv
  OBVIOUS
<1>1. n \in Nat
  BY FlatPkAssumption DEF FlatInit
<1>2. IsArray(flat, n)
  BY <1>1 DEF FlatInit, IsArray
<1>3. KeysOf(flat, 0..(n - 1)) = pks
  BY DEF FlatInit, KeysOf, Chunks
<1> QED
  BY <1>1, <1>2, <1>3 DEF FlatInit, KeepInv, Indices, Heaping

\* A step that swaps two chunks of the array.
LEMMA SwapKeepsKeys ==
  ASSUME KeepInv, NEW a \in 0..(n - 1), NEW b \in 0..(n - 1),
         flat' = Swapped(a, b), n' = n, pks' = pks
  PROVE  n' \in Nat /\ IsArray(flat, n)' /\ (KeysOf(flat, 0..(n - 1)) = pks)'
<1>1. flat' = Swap(flat, a, b)
  BY DEF Swapped, Swap
<1>2. IsArray(flat', n) /\ KeysOf(flat', 0..(n - 1)) = KeysOf(flat, 0..(n - 1))
  BY <1>1, SwapFacts, SwapKeeps DEF KeepInv
<1> QED
  BY <1>2 DEF KeepInv, IsArray, KeysOf

LEMMA PermutationKeeps ==
  ASSUME NEW J, NEW f, NEW p \in Bijection(J, J)
  PROVE  KeysOf([j \in J |-> f[p[j]]], J) = KeysOf(f, J)
<1>1. p \in [J -> J] /\ \A k \in J : \E j \in J : p[j] = k
  BY DEF Bijection, Surjection
<1> QED
  BY <1>1 DEF KeysOf

LEMMA KeepDedup == KeepInv /\ Dedup => KeepInv'
<1> SUFFICES ASSUME KeepInv, Dedup PROVE KeepInv'
  OBVIOUS
<1>1. /\ n \in Nat /\ w \in 1..n /\ r \in w..n /\ at = "dedup" /\ pks' = pks
      /\ Unspent = pks /\ KeysOf(flat, 0..(n - 1)) = pks /\ IsArray(flat, n)
  BY DEF Dedup, KeepInv, Indices, Goto
<1>2. CASE r < n /\ flat[r] # flat[w - 1]
  <2>1. /\ flat' = [flat EXCEPT ![w] = flat[r]] /\ w' = w + 1 /\ r' = r + 1
        /\ n' = n /\ at' = "dedup"
    BY <1>2 DEF Dedup, Goto
  <2>2. /\ flat'[w] = flat[r]
        /\ \A j \in 0..(n - 1) : j # w => flat'[j] = flat[j]
        /\ IsArray(flat', n)
    BY <1>1, <1>2, <2>1 DEF IsArray
  <2>3. KeysOf(flat', 0..(n - 1)) \subseteq pks
    BY <1>1, <1>2, <2>2 DEF KeysOf
  <2>4. pks \subseteq KeysOf(flat', (0..w) \cup ((r + 1)..(n - 1)))
    <3> SUFFICES ASSUME NEW j \in (0..(w - 1)) \cup (r..(n - 1))
                 PROVE  \E k \in (0..w) \cup ((r + 1)..(n - 1)) : flat'[k] = flat[j]
      BY <1>1 DEF Unspent, KeysOf
    <3>1. CASE j = r
      BY <1>1, <2>2, <3>1
    <3>2. CASE j # r
      BY <1>1, <1>2, <2>2, <3>2
    <3> QED
      BY <3>1, <3>2
  <2>5. KeysOf(flat', (0..w) \cup ((r + 1)..(n - 1))) \subseteq KeysOf(flat', 0..(n - 1))
    BY <1>1, <1>2 DEF KeysOf
  <2>6. w' - 1 = w
    BY <1>1, <2>1
  <2>7. Unspent' = KeysOf(flat', (0..w) \cup ((r + 1)..(n - 1)))
    BY <2>1, <2>6 DEF Unspent, KeysOf
  <2>8. KeysOf(flat, 0..(n - 1))' = KeysOf(flat', 0..(n - 1)) /\ IsArray(flat, n)'
    BY <2>1, <2>2 DEF KeysOf, IsArray
  <2>9. Indices'
    BY <1>1, <1>2, <2>1 DEF Indices, Heaping
  <2> QED
    BY <1>1, <2>1, <2>3, <2>4, <2>5, <2>7, <2>8, <2>9 DEF KeepInv
<1>3. CASE r < n /\ flat[r] = flat[w - 1]
  <2>1. flat' = flat /\ w' = w /\ r' = r + 1 /\ n' = n /\ at' = "dedup"
    BY <1>3 DEF Dedup, Goto
  <2>2. KeysOf(flat, (0..(w - 1)) \cup ((r + 1)..(n - 1))) = Unspent
    <3>1. w - 1 \in 0..(w - 1)
      BY <1>1
    <3>2. \A j \in (0..(w - 1)) \cup (r..(n - 1)) :
             \E k \in (0..(w - 1)) \cup ((r + 1)..(n - 1)) : flat[k] = flat[j]
      BY <1>1, <1>3, <3>1
    <3>3. (0..(w - 1)) \cup ((r + 1)..(n - 1)) \subseteq (0..(w - 1)) \cup (r..(n - 1))
      BY <1>1
    <3> QED
      BY <3>2, <3>3 DEF Unspent, KeysOf
  <2>3. Unspent' = KeysOf(flat, (0..(w - 1)) \cup ((r + 1)..(n - 1)))
    BY <2>1 DEF Unspent, KeysOf
  <2>4. KeysOf(flat, 0..(n - 1))' = KeysOf(flat, 0..(n - 1)) /\ IsArray(flat, n)'
    BY <1>1, <2>1 DEF KeysOf, IsArray
  <2>5. Indices'
    BY <1>1, <1>3, <2>1 DEF Indices, Heaping
  <2> QED
    BY <1>1, <2>1, <2>2, <2>3, <2>4, <2>5 DEF KeepInv
<1>4. CASE ~(r < n)
  <2>1. flat' = flat /\ n' = w /\ at' = "sorted"
    BY <1>4 DEF Dedup, Goto
  <2>2. (0..(w - 1)) \cup (r..(n - 1)) = 0..(w - 1)
    BY <1>1, <1>4
  <2>3. KeysOf(flat, 0..(n - 1))' = Unspent
    BY <2>1, <2>2 DEF KeysOf, Unspent
  <2>4. IsArray(flat, n)' /\ n' \in Nat
    BY <1>1, <2>1 DEF IsArray
  <2>5. Indices'
    BY <2>1 DEF Indices, Heaping
  <2> QED
    BY <1>1, <2>1, <2>3, <2>4, <2>5 DEF KeepInv
<1> QED
  BY <1>1, <1>2, <1>3, <1>4

LEMMA KeepStep == KeepInv /\ [FlatNext]_flatVars => KeepInv'
<1> SUFFICES ASSUME KeepInv, [FlatNext]_flatVars PROVE KeepInv'
  OBVIOUS
<1>1. n \in Nat /\ IsArray(flat, n) /\ KeysOf(flat, 0..(n - 1)) = pks /\ Indices
  BY DEF KeepInv
<1> DEFINE Same == flat' = flat /\ n' = n /\ pks' = pks
<1>2. ASSUME Same, Indices', at' # "dedup" PROVE KeepInv'
  BY <1>1, <1>2 DEF KeepInv, KeysOf, IsArray
<1>3. CASE SortConst
  <2>1. PICK p \in Bijection(Chunks, Chunks) : flat' = [j \in Chunks |-> flat[p[j]]]
    BY <1>3 DEF SortConst
  <2>2. n' = n /\ pks' = pks /\ at' = "dedup" /\ w' = 1 /\ r' = 1 /\ n >= 2
    BY <1>1, <1>3 DEF SortConst, Goto, Indices
  <2>3. KeysOf(flat', 0..(n - 1)) = pks
    BY <1>1, <2>1, PermutationKeeps DEF Chunks
  <2>4. IsArray(flat', n)
    <3>1. p \in [0..(n - 1) -> 0..(n - 1)]
      BY <2>1 DEF Bijection, Injection, Chunks
    <3> QED
      BY <1>1, <2>1, <3>1 DEF IsArray, Chunks
  <2>5. (0..0) \cup (1..(n - 1)) = 0..(n - 1)
    BY <1>1, <2>2
  <2>6. Unspent' = KeysOf(flat', 0..(n - 1))
    BY <2>2, <2>5 DEF Unspent, KeysOf
  <2>7. Indices'
    BY <1>1, <2>2 DEF Indices, Heaping
  <2> QED
    BY <1>1, <2>2, <2>3, <2>4, <2>6, <2>7 DEF KeepInv, KeysOf, IsArray
<1>4. CASE SkipSort
  BY <1>2, <1>4 DEF SkipSort, Goto, sortVars, Indices, Heaping
<1>5. CASE SortGeneric
  <2>1. n \div 2 \in 0..n
    BY <1>1
  <2> QED
    BY <1>1, <1>2, <1>5, <2>1 DEF SortGeneric, Goto, Indices, Heaping
<1>6. CASE Heapify
  <2>1. CASE i > 0
    BY <1>1, <1>2, <1>6, <2>1 DEF Heapify, Goto, Indices, Heaping
  <2>2. CASE ~(i > 0)
    BY <1>1, <1>2, <1>6, <2>2 DEF Heapify, Goto, Indices, Heaping
  <2> QED
    BY <2>1, <2>2
<1>7. CASE Pop
  <2>1. at = "pop" /\ n >= 2 /\ end \in 1..n /\ i = 0 /\ w = 1 /\ r = 1
    BY <1>1, <1>7 DEF Pop, Indices, Heaping
  <2>2. CASE end > 1
    <3>1. 0 \in 0..(n - 1) /\ end - 1 \in 0..(n - 1)
      BY <1>1, <2>1, <2>2
    <3>2. flat' = Swapped(0, end - 1) /\ n' = n /\ pks' = pks /\ at' = "sift"
      BY <1>7, <2>2 DEF Pop, Goto
    <3>3. n' \in Nat /\ IsArray(flat, n)' /\ (KeysOf(flat, 0..(n - 1)) = pks)'
      BY <3>1, <3>2, SwapKeepsKeys
    <3>4. Indices'
      BY <1>1, <1>7, <2>1, <2>2 DEF Pop, Goto, Indices, Heaping
    <3> QED
      BY <3>2, <3>3, <3>4 DEF KeepInv
  <2>3. CASE ~(end > 1)
    <3>1. Same /\ at' = "dedup" /\ w' = 1 /\ r' = 1
      BY <1>7, <2>1, <2>3 DEF Pop, Goto
    <3>2. (0..0) \cup (1..(n - 1)) = 0..(n - 1)
      BY <1>1, <2>1
    <3>3. Unspent' = KeysOf(flat, 0..(n - 1))
      BY <3>1, <3>2 DEF Unspent, KeysOf
    <3>4. Indices'
      BY <1>1, <2>1, <3>1 DEF Indices, Heaping
    <3> QED
      BY <1>1, <3>1, <3>3, <3>4 DEF KeepInv, KeysOf, IsArray
  <2> QED
    BY <2>2, <2>3
<1>8. CASE Sift
  <2>1. at = "sift" /\ n >= 2 /\ end \in 1..n /\ i \in 0..n /\ root \in i..(end - 1)
        /\ (end # n => i = 0) /\ w = 1 /\ r = 1
    BY <1>1, <1>8 DEF Sift, Indices, Heaping
  <2>2. CASE 2 * root + 1 < end /\ flat[root] < flat[Child]
    <3>1. Child \in 1..(end - 1) /\ Up(Child) = root
      BY <2>1, <2>2, ChildFacts
    <3>2. Child > root
      BY <1>1, <2>1, <3>1, UpFacts
    <3>3. Child \in 0..(n - 1) /\ root \in 0..(n - 1)
      BY <1>1, <2>1, <3>1
    <3>4. flat' = Swapped(root, Child) /\ n' = n /\ pks' = pks /\ at' = "sift"
      BY <1>8, <2>2 DEF Sift, Goto
    <3>5. n' \in Nat /\ IsArray(flat, n)' /\ (KeysOf(flat, 0..(n - 1)) = pks)'
      BY <3>3, <3>4, SwapKeepsKeys
    <3>6. root' = Child /\ UNCHANGED <<n, i, end, w, r>>
      BY <1>8, <2>2 DEF Sift
    <3>7. Indices'
      BY <1>1, <2>1, <3>1, <3>2, <3>4, <3>6 DEF Indices, Heaping
    <3> QED
      BY <3>4, <3>5, <3>7 DEF KeepInv
  <2>3. CASE ~(2 * root + 1 < end /\ flat[root] < flat[Child])
    <3>1. Same /\ at' = (IF end = n THEN "heapify" ELSE "pop")
          /\ UNCHANGED <<i, root, end, w, r>>
      BY <1>8, <2>3 DEF Sift, Goto
    <3>2. Indices'
      BY <1>1, <2>1, <3>1 DEF Indices, Heaping
    <3> QED
      BY <1>2, <3>1, <3>2
  <2> QED
    BY <2>2, <2>3
<1>9. CASE Dedup
  BY <1>9, KeepDedup
<1>10. CASE Halve
  <2>1. at = "search" /\ at' \in {"absent", "found", "search"} /\ Same
    BY <1>10 DEF Halve, Goto, sortVars
  <2> QED
    BY <1>2, <2>1 DEF Indices, Heaping
<1>11. ASSUME NEW k \in PkValues, Search(k) PROVE KeepInv'
  <2>1. at' = "search" /\ Same
    BY <1>11 DEF Search, Goto, sortVars
  <2> QED
    BY <1>2, <2>1 DEF Indices, Heaping
<1>12. CASE UNCHANGED flatVars
  BY <1>1, <1>12 DEF KeepInv, Unspent, KeysOf, IsArray, Indices, Heaping, flatVars, sortVars
<1> QED
  BY <1>3, <1>4, <1>5, <1>6, <1>7, <1>8, <1>9, <1>10, <1>11, <1>12 DEF FlatNext

(***************************************************************************)
(* Sorting and deduplicating keep the set of keys at every step, for every *)
(* stride, the ones the heap sort cannot take included.                    *)
(* (flat_pk_sort_dedup)                                                    *)
(***************************************************************************)
THEOREM SortKeepsKeys == FlatSpec => []KeysKept
<1>1. KeepInv => KeysKept
  BY DEF KeepInv, KeysKept, KeysOf, Chunks
<1> QED
  BY <1>1, KeepInit, KeepStep, PTL DEF FlatSpec

-----------------------------------------------------------------------------
(***************************************************************************)
(* What each loop knows of the order of the chunks.                        *)
(***************************************************************************)
HeapOrder ==
  /\ at = "heapify" => IsHeap(flat, i, n)
  /\ at = "sift" => HeapBut(flat, i, end, root)
  /\ at = "pop" => IsHeap(flat, 0, end)
  /\ Heaping => Ascends(flat, end, n) /\ Splits(flat, end, n)

DedupOrder ==
  at = "dedup" => /\ Ascends(flat, 0, w)
                  /\ Ascends(flat, r, n)
                  /\ \A k \in r..(n - 1) : flat[w - 1] <= flat[k]

Sorted == at \in {"sorted", "search", "found", "absent"} => Ascends(flat, 0, n)

SearchOrder ==
  at = "search" => /\ lo \in 0..n /\ hi \in lo..n
                   /\ \A j \in 0..(lo - 1) : flat[j] < sought
                   /\ \A j \in hi..(n - 1) : sought < flat[j]

SortInv ==
  /\ stride \in Strides /\ sought \in PkValues
  /\ HeapOrder
  /\ DedupOrder
  /\ Sorted
  /\ SearchOrder
  /\ SearchIsMembership

ShortKeys == \A s \in Strides : s <= Scratch

LEMMA SortInit == FlatInit => SortInv
BY DEF FlatInit, SortInv, HeapOrder, DedupOrder, Sorted, SearchOrder, SearchIsMembership, Heaping

LEMMA HeapStep ==
  ASSUME KeepInv, SortInv, SortGeneric \/ Heapify \/ Pop \/ Sift
  PROVE  HeapOrder' /\ DedupOrder'
<1>1. n \in Nat /\ IsArray(flat, n) /\ Indices /\ HeapOrder
  BY DEF KeepInv, SortInv
<1>2. \A j \in 0..(n - 1) : flat[j] \in Int
  BY <1>1, ArrayIsOrdered
<1>3. CASE SortGeneric
  <2>1. flat' = flat /\ n' = n /\ i' = n \div 2 /\ end' = n /\ at' = "heapify"
    BY <1>3 DEF SortGeneric, Goto
  <2>2. \A j \in 1..(n - 1) : ~(Up(j) >= n \div 2)
    BY <1>1 DEF Up
  <2>3. IsHeap(flat, n \div 2, n)
    BY <2>2 DEF IsHeap
  <2>4. Ascends(flat, n, n) /\ Splits(flat, n, n)
    BY <1>1 DEF Ascends, Splits
  <2> QED
    BY <2>1, <2>3, <2>4 DEF HeapOrder, DedupOrder, Heaping, IsHeap, Ascends, Splits
<1>4. CASE Heapify
  <2>1. /\ at = "heapify" /\ end = n /\ i \in 0..n /\ IsHeap(flat, i, n)
        /\ Ascends(flat, n, n) /\ Splits(flat, n, n)
        /\ flat' = flat /\ n' = n /\ end' = n
    BY <1>1, <1>4 DEF Heapify, Indices, Heaping, HeapOrder
  <2>2. CASE i > 0
    <3>1. i' = i - 1 /\ root' = i - 1 /\ at' = "sift"
      BY <1>4, <2>2 DEF Heapify, Goto
    <3>2. HeapBut(flat, i - 1, n, i - 1)
      <4>1. \A j \in 1..(n - 1) : Up(j) >= i - 1 /\ Up(j) # i - 1 => Up(j) >= i
        BY <1>1, <2>1, UpFacts
      <4>2. i - 1 # 0 => ~(Up(i - 1) >= i - 1)
        BY <2>1, <2>2, UpFacts
      <4> QED
        BY <2>1, <4>1, <4>2 DEF HeapBut, IsHeap
    <3> QED
      BY <2>1, <3>1, <3>2 DEF HeapOrder, DedupOrder, Heaping, HeapBut, Ascends, Splits
  <2>3. CASE ~(i > 0)
    <3>1. i = 0 /\ i' = i /\ at' = "pop"
      BY <1>4, <2>1, <2>3 DEF Heapify, Goto
    <3> QED
      BY <2>1, <3>1 DEF HeapOrder, DedupOrder, Heaping, IsHeap, Ascends, Splits
  <2> QED
    BY <2>2, <2>3
<1>5. CASE Pop
  <2>1. /\ at = "pop" /\ n >= 2 /\ end \in 1..n /\ i = 0 /\ w = 1 /\ r = 1
        /\ IsHeap(flat, 0, end) /\ Ascends(flat, end, n) /\ Splits(flat, end, n)
        /\ n' = n /\ i' = 0 /\ w' = 1 /\ r' = 1
    BY <1>1, <1>5 DEF Pop, Indices, Heaping, HeapOrder
  <2>2. CASE end > 1
    <3> DEFINE g == Swap(flat, 0, end - 1)
    <3>1. flat' = g /\ end' = end - 1 /\ root' = 0 /\ at' = "sift"
      BY <1>5, <2>2 DEF Pop, Goto, Swapped, Swap
    <3>2. HeapBut(g, 0, end - 1, 0) /\ Ascends(g, end - 1, n) /\ Splits(g, end - 1, n)
      <4>1. end \in 2..n
        BY <2>1, <2>2
      <4> QED
        BY <1>1, <2>1, <4>1, PopStep
    <3> HIDE DEF g
    <3> QED
      BY <2>1, <3>1, <3>2 DEF HeapOrder, DedupOrder, Heaping, HeapBut, Ascends, Splits
  <2>3. CASE ~(end > 1)
    <3>1. end = 1 /\ flat' = flat /\ at' = "dedup"
      BY <1>5, <2>1, <2>3 DEF Pop, Goto
    <3>2. Ascends(flat, 0, 1)
      BY DEF Ascends
    <3>3. \A k \in 1..(n - 1) : flat[0] <= flat[k]
      BY <2>1, <3>1 DEF Splits
    <3> QED
      BY <2>1, <3>1, <3>2, <3>3 DEF HeapOrder, DedupOrder, Heaping, Ascends
  <2> QED
    BY <2>2, <2>3
<1>6. CASE Sift
  <2>1. /\ at = "sift" /\ n >= 2 /\ end \in 1..n /\ i \in 0..n /\ root \in i..(end - 1)
        /\ (end # n => i = 0)
        /\ HeapBut(flat, i, end, root) /\ Ascends(flat, end, n) /\ Splits(flat, end, n)
        /\ n' = n /\ i' = i /\ end' = end
    BY <1>1, <1>6 DEF Sift, Indices, Heaping, HeapOrder
  <2>2. CASE 2 * root + 1 < end /\ flat[root] < flat[Child]
    <3> DEFINE c == Child
               g == Swap(flat, root, c)
    <3>1. /\ c \in 1..(end - 1) /\ Up(c) = root
          /\ \A j \in 1..(end - 1) : Up(j) = root => flat[j] <= flat[c]
      BY <2>1, <2>2, ChildFacts
    <3>2. flat' = g /\ root' = c /\ at' = "sift"
      BY <1>6, <2>2 DEF Sift, Goto, Swapped, Swap
    <3>3. flat[root] < flat[c]
      BY <2>2
    <3> HIDE DEF c
    <3>4. HeapBut(g, i, end, c)
      BY <1>1, <2>1, <3>1, <3>3, SiftStep
    <3>5. Ascends(g, end, n) /\ Splits(g, end, n)
      BY <1>1, <2>1, <3>1, SwapBeforeEnd
    <3> HIDE DEF g
    <3> QED
      BY <2>1, <3>2, <3>4, <3>5 DEF HeapOrder, DedupOrder, Heaping, HeapBut, Ascends, Splits
  <2>3. CASE ~(2 * root + 1 < end /\ flat[root] < flat[Child])
    <3>1. /\ flat' = flat /\ root' = root
          /\ at' = (IF end = n THEN "heapify" ELSE "pop")
      BY <1>6, <2>3 DEF Sift, Goto
    <3>2. \A j \in 1..(end - 1) : Up(j) = root => flat[j] <= flat[root]
      <4> SUFFICES ASSUME NEW j \in 1..(end - 1), Up(j) = root PROVE flat[j] <= flat[root]
        OBVIOUS
      <4>1. 2 * root + 1 < end
        BY <1>1, <2>1, UpFacts
      <4>2. flat[j] <= flat[Child] /\ ~(flat[root] < flat[Child]) /\ Child \in 1..(end - 1)
        BY <2>1, <2>3, <4>1, ChildFacts
      <4>3. j \in 0..(n - 1) /\ root \in 0..(n - 1) /\ Child \in 0..(n - 1)
        BY <1>1, <2>1, <4>2
      <4> QED
        BY <1>2, <4>2, <4>3
    <3>3. IsHeap(flat, i, end)
      BY <2>1, <3>2 DEF HeapBut, IsHeap
    <3> QED
      BY <2>1, <3>1, <3>3 DEF HeapOrder, DedupOrder, Heaping, IsHeap, Ascends, Splits
  <2> QED
    BY <2>2, <2>3
<1> QED
  BY <1>3, <1>4, <1>5, <1>6

LEMMA DedupStep ==
  ASSUME KeepInv, SortInv, Dedup
  PROVE  HeapOrder' /\ DedupOrder' /\ Sorted'
<1>1. /\ n \in Nat /\ w \in 1..n /\ r \in w..n /\ at = "dedup"
      /\ Ascends(flat, 0, w) /\ Ascends(flat, r, n)
      /\ \A k \in r..(n - 1) : flat[w - 1] <= flat[k]
      /\ IsArray(flat, n)
  BY DEF Dedup, KeepInv, Indices, SortInv, DedupOrder
<1>2. \A j \in 0..(n - 1) : flat[j] \in Int
  BY <1>1, ArrayIsOrdered
<1>3. CASE r < n /\ flat[r] # flat[w - 1]
  <2>1. /\ flat' = [flat EXCEPT ![w] = flat[r]] /\ w' = w + 1 /\ r' = r + 1
        /\ n' = n /\ at' = "dedup"
    BY <1>3 DEF Dedup, Goto
  <2>2. /\ flat'[w] = flat[r]
        /\ \A j \in 0..(n - 1) : j # w => flat'[j] = flat[j]
    BY <1>1, <1>3, <2>1 DEF IsArray
  <2>3. Ascends(flat', 0, w + 1)
    <3> SUFFICES ASSUME NEW j \in 0..w, NEW k \in 0..w, j < k PROVE flat'[j] <= flat'[k]
      BY <1>1 DEF Ascends
    <3>1. w - 1 \in 0..(n - 1) /\ r \in 0..(n - 1) /\ j \in 0..(w - 1)
      BY <1>1, <1>3
    <3>2. flat'[j] = flat[j]
      BY <1>1, <2>2, <3>1
    <3>3. CASE k = w
      <4>1. flat[j] <= flat[w - 1]
        BY <1>1, <1>2, <3>1 DEF Ascends
      <4>2. flat[w - 1] <= flat[r]
        BY <1>1, <1>3
      <4>3. flat[j] \in Int /\ flat[w - 1] \in Int /\ flat[r] \in Int
        BY <1>1, <1>2, <3>1
      <4> QED
        BY <2>2, <3>2, <3>3, <4>1, <4>2, <4>3
    <3>4. CASE k # w
      BY <1>1, <2>2, <3>1, <3>2, <3>4 DEF Ascends
    <3> QED
      BY <3>3, <3>4
  <2>4. \A k \in (r + 1)..(n - 1) : flat'[k] = flat[k]
    BY <1>1, <2>2
  <2>5. Ascends(flat', r + 1, n)
    BY <1>1, <2>4 DEF Ascends
  <2>6. \A k \in (r + 1)..(n - 1) : flat'[w] <= flat'[k]
    BY <1>1, <2>2, <2>4 DEF Ascends
  <2>7. w' - 1 = w
    BY <1>1, <2>1
  <2> QED
    BY <2>1, <2>3, <2>5, <2>6, <2>7 DEF HeapOrder, DedupOrder, Sorted, Heaping, Ascends
<1>4. CASE r < n /\ flat[r] = flat[w - 1]
  <2>1. flat' = flat /\ w' = w /\ r' = r + 1 /\ n' = n /\ at' = "dedup"
    BY <1>4 DEF Dedup, Goto
  <2>2. Ascends(flat, r + 1, n) /\ \A k \in (r + 1)..(n - 1) : flat[w - 1] <= flat[k]
    BY <1>1 DEF Ascends
  <2> QED
    BY <1>1, <2>1, <2>2 DEF HeapOrder, DedupOrder, Sorted, Heaping, Ascends
<1>5. CASE ~(r < n)
  <2>1. flat' = flat /\ n' = w /\ at' = "sorted"
    BY <1>5 DEF Dedup, Goto
  <2> QED
    BY <1>1, <2>1 DEF HeapOrder, DedupOrder, Sorted, Heaping, Ascends
<1> QED
  BY <1>3, <1>4, <1>5

\* What is left of lo and right of hi is not the key; nothing is left in between.
LEMMA SearchStep ==
  ASSUME KeepInv, SortInv, Halve
  PROVE  SearchOrder' /\ SearchIsMembership'
<1>1. /\ n \in Nat /\ IsArray(flat, n) /\ at = "search" /\ KeysOf(flat, 0..(n - 1)) = pks
      /\ lo \in 0..n /\ hi \in lo..n /\ Ascends(flat, 0, n)
      /\ \A j \in 0..(lo - 1) : flat[j] < sought
      /\ \A j \in hi..(n - 1) : sought < flat[j]
      /\ UNCHANGED <<flat, n, pks, sought>>
  BY DEF Halve, KeepInv, SortInv, Sorted, SearchOrder, Goto, sortVars
<1>2. /\ \A j \in 0..(n - 1) : flat[j] \in Int
      /\ sought \in Int
  BY <1>1, ArrayIsOrdered, FlatPkAssumption DEF SortInv
<1> DEFINE mid == lo + (hi - lo) \div 2
<1>3. CASE lo >= hi
  <2>1. at' = "absent"
    BY <1>3 DEF Halve, Goto
  <2>2. \A j \in 0..(n - 1) : flat[j] # sought
    BY <1>1, <1>2, <1>3
  <2>3. sought \notin pks
    BY <1>1, <2>2 DEF KeysOf
  <2> QED
    BY <1>1, <2>1, <2>3 DEF SearchOrder, SearchIsMembership
<1>4. CASE ~(lo >= hi)
  <2>1. mid \in lo..(hi - 1) /\ mid \in 0..(n - 1)
    BY <1>1, <1>4
  <2>2. /\ \A j \in 0..mid : flat[j] <= flat[mid]
        /\ \A j \in mid..(n - 1) : flat[mid] <= flat[j]
    BY <1>1, <1>2, <2>1 DEF Ascends
  <2>3. CASE flat[mid] = sought
    <3>1. at' = "found"
      BY <1>4, <2>3 DEF Halve, Goto
    <3>2. sought \in pks
      BY <1>1, <2>1, <2>3 DEF KeysOf
    <3> QED
      BY <1>1, <3>1, <3>2 DEF SearchOrder, SearchIsMembership
  <2>4. CASE flat[mid] < sought
    <3>1. at' = "search" /\ lo' = mid + 1 /\ hi' = hi
      BY <1>2, <1>4, <2>1, <2>4 DEF Halve, Goto
    <3> HIDE DEF mid
    <3>2. \A j \in 0..mid : flat[j] < sought
      <4> SUFFICES ASSUME NEW j \in 0..mid PROVE flat[j] < sought
        OBVIOUS
      <4>1. j \in 0..(n - 1)
        BY <1>1, <2>1
      <4>2. flat[j] \in Int /\ flat[mid] \in Int
        BY <1>2, <2>1, <4>1
      <4> QED
        BY <1>2, <2>2, <2>4, <4>2
    <3>3. lo' \in 0..n /\ hi' \in lo'..n /\ lo' - 1 = mid
      BY <1>1, <2>1, <3>1
    <3> QED
      BY <1>1, <3>1, <3>2, <3>3 DEF SearchOrder, SearchIsMembership
  <2>5. CASE ~(flat[mid] = sought) /\ ~(flat[mid] < sought)
    <3>1. at' = "search" /\ lo' = lo /\ hi' = mid
      BY <1>4, <2>5 DEF Halve, Goto
    <3> HIDE DEF mid
    <3>2. \A j \in mid..(n - 1) : sought < flat[j]
      <4> SUFFICES ASSUME NEW j \in mid..(n - 1) PROVE sought < flat[j]
        OBVIOUS
      <4>1. j \in 0..(n - 1)
        BY <1>1, <2>1
      <4>2. flat[j] \in Int /\ flat[mid] \in Int
        BY <1>2, <2>1, <4>1
      <4> QED
        BY <1>2, <2>2, <2>5, <4>2
    <3>3. lo' \in 0..n /\ hi' \in lo'..n
      BY <1>1, <2>1, <3>1
    <3> QED
      BY <1>1, <3>1, <3>2, <3>3 DEF SearchOrder, SearchIsMembership
  <2> QED
    BY <2>3, <2>4, <2>5
<1> QED
  BY <1>3, <1>4

LEMMA SortStep == ShortKeys /\ KeepInv /\ SortInv /\ [FlatNext]_flatVars => SortInv'
<1> SUFFICES ASSUME ShortKeys, KeepInv, SortInv, [FlatNext]_flatVars PROVE SortInv'
  OBVIOUS
<1>1. /\ n \in Nat /\ IsArray(flat, n) /\ Indices
      /\ stride \in Strides /\ sought \in PkValues /\ stride <= Scratch
      /\ Sorted
  BY DEF KeepInv, SortInv, ShortKeys
<1>2. CASE SortConst
  <2>1. /\ at' = "dedup" /\ w' = 1 /\ r' = 1 /\ n' = n /\ n >= 2
        /\ UNCHANGED <<stride, searchVars>>
    BY <1>1, <1>2 DEF SortConst, Goto, Indices
  <2>2. Ascends(flat', 0, n)
    BY <1>2 DEF SortConst, Chunks, Ascends
  <2>3. /\ Ascends(flat', 0, 1) /\ Ascends(flat', 1, n)
        /\ \A k \in 1..(n - 1) : flat'[0] <= flat'[k]
    BY <1>1, <2>1, <2>2 DEF Ascends
  <2>4. DedupOrder'
    BY <2>1, <2>3 DEF DedupOrder, Ascends
  <2> QED
    BY <1>1, <2>1, <2>4
       DEF SortInv, HeapOrder, Sorted, SearchOrder, SearchIsMembership, Heaping, searchVars
<1>3. CASE SkipSort
  <2>1. n < 2
    <3>1. stride \in Nat
      BY <1>1, FlatPkAssumption
    <3> QED
      BY <1>1, <1>3, <3>1 DEF SkipSort, Scratch
  <2>2. Ascends(flat, 0, n)
    BY <1>1, <2>1 DEF Ascends
  <2>3. at' = "sorted" /\ flat' = flat /\ n' = n /\ UNCHANGED <<stride, searchVars>>
    BY <1>3 DEF SkipSort, Goto, sortVars
  <2>4. Sorted'
    BY <2>2, <2>3 DEF Sorted, Ascends
  <2> QED
    BY <1>1, <2>3, <2>4
       DEF SortInv, HeapOrder, DedupOrder, SearchOrder, SearchIsMembership, Heaping, searchVars
<1>4. CASE SortGeneric \/ Heapify \/ Pop \/ Sift
  <2>1. HeapOrder' /\ DedupOrder'
    BY <1>4, HeapStep
  <2>2. at' \in {"heapify", "sift", "pop", "dedup"} /\ UNCHANGED <<stride, searchVars>>
    BY <1>4 DEF SortGeneric, Heapify, Pop, Sift, Goto
  <2> QED
    BY <1>1, <2>1, <2>2 DEF SortInv, Sorted, SearchOrder, SearchIsMembership, searchVars
<1>5. CASE Dedup
  <2>1. HeapOrder' /\ DedupOrder' /\ Sorted'
    BY <1>5, DedupStep
  <2>2. at' \in {"dedup", "sorted"} /\ UNCHANGED <<stride, searchVars>>
    BY <1>5 DEF Dedup, Goto
  <2> QED
    BY <1>1, <2>1, <2>2 DEF SortInv, SearchOrder, SearchIsMembership, searchVars
<1>6. CASE Halve
  <2>1. SearchOrder' /\ SearchIsMembership'
    BY <1>6, SearchStep
  <2>2. /\ at' \in {"search", "found", "absent"} /\ at = "search"
        /\ UNCHANGED <<stride, sought, flat, n>>
    BY <1>6 DEF Halve, Goto, sortVars
  <2>3. Sorted'
    BY <1>1, <2>2 DEF Sorted, Ascends
  <2> QED
    BY <1>1, <2>1, <2>2, <2>3 DEF SortInv, HeapOrder, DedupOrder, Heaping
<1>7. ASSUME NEW k \in PkValues, Search(k) PROVE SortInv'
  <2>1. /\ at \in {"sorted", "found", "absent"} /\ at' = "search"
        /\ lo' = 0 /\ hi' = n /\ sought' = k /\ UNCHANGED <<stride, flat, n>>
    BY <1>7 DEF Search, Goto, sortVars
  <2>2. Sorted'
    BY <1>1, <2>1 DEF Sorted, Ascends
  <2>3. SearchOrder'
    BY <1>1, <2>1 DEF SearchOrder
  <2> QED
    BY <1>1, <2>1, <2>2, <2>3 DEF SortInv, HeapOrder, DedupOrder, SearchIsMembership, Heaping
<1>8. CASE UNCHANGED flatVars
  BY <1>8 DEF SortInv, HeapOrder, DedupOrder, Sorted, SearchOrder, SearchIsMembership, Heaping,
              IsHeap, HeapBut, Ascends, Splits, flatVars, sortVars, searchVars
<1> QED
  BY <1>2, <1>3, <1>4, <1>5, <1>6, <1>7, <1>8 DEF FlatNext

(***************************************************************************)
(* As long as no key is longer than the scratch space, the binary search   *)
(* finds a key exactly if the array was filled with it, whichever sort     *)
(* prepared it.                                                            *)
(* (flat_pk_contains after flat_pk_sort_dedup)                             *)
(***************************************************************************)
THEOREM SearchFindsKeys == ShortKeys => (FlatSpec => []SearchIsMembership)
<1> SUFFICES ASSUME ShortKeys PROVE FlatSpec => []SearchIsMembership
  OBVIOUS
<1>1. KeepInv /\ SortInv /\ [FlatNext]_flatVars => (KeepInv /\ SortInv)'
  BY KeepStep, SortStep
<1>2. FlatInit => KeepInv /\ SortInv
  BY KeepInit, SortInit
<1>3. SortInv => SearchIsMembership
  BY DEF SortInv
<1> QED
  BY <1>1, <1>2, <1>3, PTL DEF FlatSpec

-----------------------------------------------------------------------------
(***************************************************************************)
(* Types: the array stays one of the chunks it was allocated with.         *)
(***************************************************************************)
LEMMA FlatTypeInit == FlatInit => FlatTypeOK
<1> SUFFICES ASSUME FlatInit PROVE FlatTypeOK
  OBVIOUS
<1>1. n \in 0..MaxChunks /\ n \in Nat /\ flat \in [0..(n - 1) -> PkValues]
  BY FlatPkAssumption DEF FlatInit
<1>2. n <= n
  BY <1>1
<1>3. pks \subseteq PkValues
  BY <1>1 DEF FlatInit, Chunks
<1> QED
  BY <1>1, <1>2, <1>3 DEF FlatInit, FlatTypeOK, Loops

LEMMA FlatTypeStep == FlatTypeOK /\ KeepInv /\ [FlatNext]_flatVars => FlatTypeOK'
<1> SUFFICES ASSUME FlatTypeOK, KeepInv, [FlatNext]_flatVars PROVE FlatTypeOK'
  OBVIOUS
<1>1. /\ {i, root, end, w, r, lo, hi, n} \subseteq Nat /\ at \in Loops
      /\ stride \in Strides /\ pks \subseteq PkValues /\ sought \in PkValues
  BY DEF FlatTypeOK
<1>2. PICK m \in 0..MaxChunks : flat \in [0..(m - 1) -> PkValues] /\ n <= m
  BY DEF FlatTypeOK
<1>3. m \in Nat /\ MaxChunks \in Nat
  BY FlatPkAssumption
<1>4. \A j \in 0..(n - 1) : j \in 0..(m - 1)
  BY <1>1, <1>2, <1>3
<1> DEFINE Positions == {i', root', end', w', r', lo', hi'} \subseteq Nat /\ at' \in Loops
                        /\ stride' = stride /\ pks' = pks
<1>5. ASSUME Positions, flat' \in [0..(m - 1) -> PkValues], n' \in Nat, n' <= m, sought' \in PkValues
      PROVE  FlatTypeOK'
  BY <1>1, <1>2, <1>5 DEF FlatTypeOK
<1>6. ASSUME NEW a \in 0..(n - 1), NEW b \in 0..(n - 1)
      PROVE  Swapped(a, b) \in [0..(m - 1) -> PkValues]
  BY <1>2, <1>4 DEF Swapped
<1>7. CASE SortConst
  <2>1. PICK p \in Bijection(Chunks, Chunks) : flat' = [j \in Chunks |-> flat[p[j]]]
    BY <1>7 DEF SortConst
  <2>2. p \in [Chunks -> Chunks]
    BY DEF Bijection, Injection
  <2>3. flat' \in [0..(n - 1) -> PkValues] /\ n \in 0..MaxChunks /\ n <= n
    BY <1>1, <1>2, <1>3, <1>4, <2>1, <2>2 DEF Chunks
  <2>4. Positions /\ n' = n /\ sought' = sought
    BY <1>1, <1>7 DEF SortConst, Goto, Loops, searchVars
  <2> QED
    BY <1>1, <2>3, <2>4 DEF FlatTypeOK
<1>8. CASE SkipSort
  BY <1>1, <1>2, <1>5, <1>8 DEF SkipSort, Goto, Loops, sortVars, searchVars
<1>9. CASE SortGeneric
  <2>1. n \div 2 \in Nat
    BY <1>1
  <2> QED
    BY <1>1, <1>2, <1>5, <1>9, <2>1 DEF SortGeneric, Goto, Loops, searchVars
<1>10. CASE Heapify
  BY <1>1, <1>2, <1>5, <1>10 DEF Heapify, Goto, Loops, searchVars
<1>11. CASE Pop
  <2>1. CASE end > 1
    <3>1. end \in 1..n /\ 0 \in 0..(n - 1) /\ end - 1 \in 0..(n - 1) /\ end - 1 \in Nat
      BY <1>1, <1>11, <2>1 DEF Pop, KeepInv, Indices, Heaping
    <3> QED
      BY <1>1, <1>2, <1>5, <1>6, <1>11, <2>1, <3>1 DEF Pop, Goto, Loops, searchVars
  <2>2. CASE ~(end > 1)
    BY <1>1, <1>2, <1>5, <1>11, <2>2 DEF Pop, Goto, Loops, searchVars
  <2> QED
    BY <2>1, <2>2
<1>12. CASE Sift
  <2>1. CASE 2 * root + 1 < end /\ flat[root] < flat[Child]
    <3>1. Child \in 1..(end - 1) /\ root \in 0..(end - 1) /\ end \in 1..n
      BY <1>1, <1>12, <2>1, ChildFacts DEF Sift, KeepInv, Indices, Heaping
    <3>2. Child \in 0..(n - 1) /\ root \in 0..(n - 1) /\ Child \in Nat
      BY <1>1, <3>1
    <3> QED
      BY <1>1, <1>2, <1>5, <1>6, <1>12, <2>1, <3>2 DEF Sift, Goto, Loops, searchVars
  <2>2. CASE ~(2 * root + 1 < end /\ flat[root] < flat[Child])
    BY <1>1, <1>2, <1>5, <1>12, <2>2 DEF Sift, Goto, Loops, searchVars
  <2> QED
    BY <2>1, <2>2
<1>13. CASE Dedup
  <2>1. w \in 1..n /\ r \in w..n
    BY <1>13 DEF Dedup, KeepInv, Indices
  <2>2. CASE r < n
    <3>1. flat[r] \in PkValues
      BY <1>1, <1>2, <1>4, <2>1, <2>2
    <3>2. [flat EXCEPT ![w] = flat[r]] \in [0..(m - 1) -> PkValues]
      BY <1>2, <3>1
    <3>3. w + 1 \in Nat /\ r + 1 \in Nat
      BY <1>1
    <3> QED
      BY <1>1, <1>2, <1>5, <1>13, <2>2, <3>2, <3>3 DEF Dedup, Goto, Loops, searchVars
  <2>3. CASE ~(r < n)
    <3>1. w \in Nat /\ w <= m
      BY <1>1, <1>2, <1>3, <2>1
    <3> QED
      BY <1>1, <1>2, <1>5, <1>13, <2>3, <3>1 DEF Dedup, Goto, Loops, searchVars
  <2> QED
    BY <2>2, <2>3
<1>14. CASE Halve
  <2>1. lo < hi => lo + (hi - lo) \div 2 \in Nat /\ lo + (hi - lo) \div 2 + 1 \in Nat
    BY <1>1
  <2>2. {lo', hi'} \subseteq Nat /\ at' \in Loops /\ stride' = stride /\ pks' = pks
    BY <1>1, <1>14, <2>1 DEF Halve, Goto, Loops
  <2>3. sought' = sought /\ flat' = flat /\ n' = n /\ {i', root', end', w', r'} \subseteq Nat
    BY <1>1, <1>14 DEF Halve, sortVars
  <2> QED
    BY <1>1, <1>2, <1>5, <2>2, <2>3
<1>15. CASE \E k \in PkValues : Search(k)
  BY <1>1, <1>2, <1>5, <1>15 DEF Search, Goto, Loops, sortVars
<1>16. CASE UNCHANGED flatVars
  BY <1>1, <1>2, <1>5, <1>16 DEF flatVars, sortVars, searchVars
<1> QED
  BY <1>7, <1>8, <1>9, <1>10, <1>11, <1>12, <1>13, <1>14, <1>15, <1>16 DEF FlatNext

LEMMA FlatTypeCorrect == FlatSpec => []FlatTypeOK
<1>1. FlatTypeOK /\ KeepInv /\ [FlatNext]_flatVars => (FlatTypeOK /\ KeepInv)'
  BY FlatTypeStep, KeepStep
<1> QED
  BY <1>1, FlatTypeInit, KeepInit, PTL DEF FlatSpec

=============================================================================
