------------------------------- MODULE FlatPk --------------------------------
(***************************************************************************)
(* The key arrays of cdc.rs: chunks of `stride` bytes laid end to end,     *)
(* sorted and deduplicated in place (flat_pk_sort_dedup), then searched    *)
(* for the keys of another page (flat_pk_contains).  A chunk is one key,   *)
(* and keys are ordered as their bytes are.                                *)
(***************************************************************************)
EXTENDS Integers, Functions

CONSTANTS
  PkValues,    \* chunks, ordered as numbers
  Strides,     \* encoded lengths of a key in use; 0 never gets here
  MaxChunks    \* bound: chunks of an array

ASSUME FlatPkAssumption ==
  /\ PkValues \subseteq Int
  /\ Strides \subseteq Nat \ {0}
  /\ MaxChunks \in Nat

VARIABLES
  stride,
  flat,        \* the bytes, by chunk
  n,           \* chunks in the array: fewer than flat has once it is truncated
  pks,         \* history: the keys the array was filled with
  at,          \* the loop that runs
  i,           \* heap: next root to sift; dedup and search: see below
  root, end,   \* heap_sift_down
  w, r,        \* dedup: write and read position
  lo, hi,      \* search
  sought

sortVars   == <<flat, n, i, root, end, w, r>>
searchVars == <<lo, hi, sought>>
flatVars   == <<stride, pks, at, sortVars, searchVars>>

ConstStrides == {4, 8, 12, 16, 20, 24}
Scratch      == 64                        \* bytes of tmp

Loops == {"start", "heapify", "sift", "pop", "dedup", "sorted", "search", "found", "absent"}

Chunks == 0..(n - 1)

FlatTypeOK ==
  /\ stride \in Strides
  /\ \E m \in 0..MaxChunks : flat \in [0..(m - 1) -> PkValues] /\ n <= m
  /\ n \in Nat
  /\ pks \subseteq PkValues
  /\ at \in Loops
  /\ {i, root, end, w, r, lo, hi} \subseteq Nat
  /\ sought \in PkValues

FlatInit ==
  /\ stride \in Strides
  /\ n \in 0..MaxChunks
  /\ flat \in [0..(n - 1) -> PkValues]
  /\ pks = {flat[j] : j \in Chunks}
  /\ at = "start"
  /\ i = 0 /\ root = 0 /\ end = 0
  /\ w = 1 /\ r = 1
  /\ lo = 0 /\ hi = 0
  /\ sought \in PkValues

-----------------------------------------------------------------------------
Goto(loop) == at' = loop /\ UNCHANGED <<stride, pks>>

\* slice::sort_unstable.
SortConst ==
  /\ at = "start" /\ stride \in ConstStrides /\ n >= 2
  /\ \E p \in Bijection(Chunks, Chunks) : flat' = [j \in Chunks |-> flat[p[j]]]
  /\ \A j, k \in Chunks : j < k => flat'[j] <= flat'[k]
  /\ Goto("dedup")
  /\ UNCHANGED <<n, i, root, end, w, r, searchVars>>

\* The early returns: nothing to sort, or no scratch space for a chunk.
SkipSort ==
  /\ at = "start"
  /\ n < 2 \/ (stride \notin ConstStrides /\ stride > Scratch)
  /\ Goto("sorted")
  /\ UNCHANGED <<sortVars, searchVars>>

SortGeneric ==
  /\ at = "start" /\ stride \notin ConstStrides /\ stride <= Scratch /\ n >= 2
  /\ i' = n \div 2
  /\ end' = n
  /\ Goto("heapify")
  /\ UNCHANGED <<flat, n, root, w, r, searchVars>>

Heapify ==
  /\ at = "heapify"
  /\ IF i > 0
     THEN i' = i - 1 /\ root' = i - 1 /\ Goto("sift")
     ELSE Goto("pop") /\ UNCHANGED <<i, root>>
  /\ UNCHANGED <<flat, n, end, w, r, searchVars>>

Swapped(a, b) == [flat EXCEPT ![a] = flat[b], ![b] = flat[a]]

\* The largest chunk goes behind the heap.
Pop ==
  /\ at = "pop"
  /\ IF end > 1
     THEN /\ end' = end - 1
          /\ flat' = Swapped(0, end - 1)
          /\ root' = 0
          /\ Goto("sift")
     ELSE Goto("dedup") /\ UNCHANGED <<flat, root, end>>
  /\ UNCHANGED <<n, i, w, r, searchVars>>

\* The larger child of root in the heap 0..end - 1.
Child ==
  LET left == 2 * root + 1
  IN  IF left + 1 < end /\ flat[left] < flat[left + 1] THEN left + 1 ELSE left

\* Mutant: the left child, whichever is larger.
SiftLeft ==
  /\ at = "sift"
  /\ IF 2 * root + 1 < end /\ flat[root] < flat[2 * root + 1]
     THEN flat' = Swapped(root, 2 * root + 1) /\ root' = 2 * root + 1 /\ Goto("sift")
     ELSE Goto(IF end = n THEN "heapify" ELSE "pop") /\ UNCHANGED <<flat, root>>
  /\ UNCHANGED <<n, i, end, w, r, searchVars>>

\* heap_sift_down; the first pops come after the whole array was a heap.
Sift ==
  /\ at = "sift"
  /\ IF 2 * root + 1 < end /\ flat[root] < flat[Child]
     THEN flat' = Swapped(root, Child) /\ root' = Child /\ Goto("sift")
     ELSE Goto(IF end = n THEN "heapify" ELSE "pop") /\ UNCHANGED <<flat, root>>
  /\ UNCHANGED <<n, i, end, w, r, searchVars>>

\* Mutant: a chunk is compared with the one before it, not with the last one kept.
DedupAgainstPrevious ==
  /\ at = "dedup"
  /\ IF r < n
     THEN /\ r' = r + 1
          /\ IF flat[r] # flat[r - 1]
             THEN w' = w + 1 /\ UNCHANGED flat
             ELSE UNCHANGED <<flat, w>>
          /\ Goto("dedup") /\ UNCHANGED n
     ELSE n' = w /\ Goto("sorted") /\ UNCHANGED <<flat, w, r>>
  /\ UNCHANGED <<i, root, end, searchVars>>

\* Mutant: the array is cut off one chunk too late.
DedupCutsLate ==
  /\ at = "dedup"
  /\ IF r < n
     THEN /\ r' = r + 1
          /\ IF flat[r] # flat[w - 1]
             THEN flat' = [flat EXCEPT ![w] = flat[r]] /\ w' = w + 1
             ELSE UNCHANGED <<flat, w>>
          /\ Goto("dedup") /\ UNCHANGED n
     ELSE n' = w + 1 /\ Goto("sorted") /\ UNCHANGED <<flat, w, r>>
  /\ UNCHANGED <<i, root, end, searchVars>>

\* One chunk is kept (moved to w) or passed over; in the end the rest is cut off.
Dedup ==
  /\ at = "dedup"
  /\ IF r < n
     THEN /\ r' = r + 1
          /\ IF flat[r] # flat[w - 1]
             THEN flat' = [flat EXCEPT ![w] = flat[r]] /\ w' = w + 1
             ELSE UNCHANGED <<flat, w>>
          /\ Goto("dedup") /\ UNCHANGED n
     ELSE n' = w /\ Goto("sorted") /\ UNCHANGED <<flat, w, r>>
  /\ UNCHANGED <<i, root, end, searchVars>>

-----------------------------------------------------------------------------
\* flat_pk_contains: any key may be asked for, again and again.
Search(k) ==
  /\ at \in {"sorted", "found", "absent"}
  /\ sought' = k
  /\ lo' = 0 /\ hi' = n
  /\ Goto("search")
  /\ UNCHANGED sortVars

Halve ==
  /\ at = "search"
  /\ LET mid == lo + (hi - lo) \div 2
     IN  IF lo >= hi THEN Goto("absent") /\ UNCHANGED <<lo, hi>>
         ELSE IF flat[mid] = sought THEN Goto("found") /\ UNCHANGED <<lo, hi>>
         ELSE IF flat[mid] < sought THEN lo' = mid + 1 /\ Goto("search") /\ UNCHANGED hi
         ELSE hi' = mid /\ Goto("search") /\ UNCHANGED lo
  /\ UNCHANGED <<sought, sortVars>>

FlatNext ==
  \/ SortConst \/ SkipSort \/ SortGeneric \/ Heapify \/ Pop \/ Sift \/ Dedup \/ Halve
  \/ \E k \in PkValues : Search(k)

FlatSpec == FlatInit /\ [][FlatNext]_flatVars

-----------------------------------------------------------------------------
(***************************************************************************)
(* Sorting and deduplicating lose no key and invent none, at any step: the *)
(* swaps of the heap and the moves of the deduplication are in place.      *)
(* (flat_pk_sort_dedup)                                                    *)
(***************************************************************************)
KeysKept == {flat[j] : j \in Chunks} = pks

(***************************************************************************)
(* The search answers membership: a key counts as alive exactly if some    *)
(* page holds it.  A key that is wrongly absent is deleted from the        *)
(* replica.  (flat_pk_contains after flat_pk_sort_dedup)                   *)
(***************************************************************************)
SearchIsMembership ==
  /\ at = "found"  => sought \in pks
  /\ at = "absent" => sought \notin pks

=============================================================================
