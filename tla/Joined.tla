------------------------------- MODULE Joined --------------------------------
(***************************************************************************)
(* Lemmas the proofs of several modules rest on: the least and the largest *)
(* of a set of numbers, what FlattenSeq joins, parts of sequences, and the *)
(* sequence of a set.  What says something of every number is shown by a   *)
(* least counterexample.                                                   *)
(***************************************************************************)
EXTENDS Integers, SequencesExt, FiniteSetTheorems, SequenceTheorems, WellFoundedInduction, TLAPS

(***************************************************************************)
(* Sets of numbers.                                                        *)
(***************************************************************************)
LEMMA LeastOf ==
  ASSUME NEW T, T \subseteq Nat, T # {}
  PROVE  \E x \in T : \A y \in T : x <= y
<1> DEFINE R == StrictSubsetOrdering(Nat)
           U == {0..x : x \in T}
<1>1. IsWellFoundedOn(R, FiniteSubsetsOf(Nat))
  BY FS_StrictSubsetOrderingWellFounded
<1>2. U \subseteq FiniteSubsetsOf(Nat) /\ U # {}
  <2>1. ASSUME NEW x \in T PROVE 0..x \in SUBSET Nat /\ IsFiniteSet(0..x)
    BY FS_Interval
  <2> QED
    BY <2>1 DEF FiniteSubsetsOf
<1> HIDE DEF R, U
<1>3. PICK m \in U : \A u \in U : <<u, m>> \notin R
  BY <1>1, <1>2, WFMin
<1>4. PICK x \in T : m = 0..x
  BY <1>3 DEF U
<1>5. ASSUME NEW y \in T, y < x PROVE FALSE
  <2>1. 0..y \in U /\ 0..y \in SUBSET Nat /\ 0..x \in SUBSET Nat
    BY <1>5 DEF U
  <2>2. 0..y \subseteq 0..x /\ x \in 0..x /\ x \notin 0..y
    BY <1>5
  <2>3. <<0..y, 0..x>> \in R
    BY <2>1, <2>2 DEF R, StrictSubsetOrdering
  <2> QED
    BY <1>3, <1>4, <2>1, <2>3
<1> QED
  BY <1>5

LEMMA MinIsThere ==
  ASSUME NEW T, T \subseteq Nat, T # {}
  PROVE  Min(T) \in T
BY LeastOf DEF Min

LEMMA MaxIsThere ==
  ASSUME NEW T, T \subseteq Nat, T # {}, IsFiniteSet(T)
  PROVE  Max(T) \in T /\ \A y \in T : y <= Max(T)
<1> DEFINE From(x) == {y \in T : x <= y}
           R == StrictSubsetOrdering(T)
           U == {From(x) : x \in T}
<1>1. IsWellFoundedOn(R, FiniteSubsetsOf(T))
  BY FS_StrictSubsetOrderingWellFounded
<1>2. U \subseteq FiniteSubsetsOf(T) /\ U # {}
  <2>1. ASSUME NEW x \in T PROVE From(x) \in SUBSET T /\ IsFiniteSet(From(x))
    BY FS_Subset
  <2> QED
    BY <2>1 DEF FiniteSubsetsOf
<1> HIDE DEF R, U
<1>3. PICK m \in U : \A u \in U : <<u, m>> \notin R
  BY <1>1, <1>2, WFMin
<1>4. PICK x \in T : m = From(x)
  BY <1>3 DEF U
<1>5. ASSUME NEW y \in T, y > x PROVE FALSE
  <2>1. From(y) \in U /\ From(y) \in SUBSET T /\ From(x) \in SUBSET T
    BY <1>5 DEF U
  <2>2. From(y) \subseteq From(x) /\ x \in From(x) /\ x \notin From(y)
    <3>1. x \in Nat /\ y \in Nat /\ \A z \in T : z \in Nat
      OBVIOUS
    <3>2. x < y
      BY <1>5, <3>1
    <3>3. x \in From(x) /\ x \notin From(y)
      BY <3>1, <3>2
    <3>4. ASSUME NEW z \in From(y) PROVE z \in From(x)
      <4>1. z \in T /\ y <= z /\ z \in Nat
        BY <3>1
      <4>2. x <= z
        BY <3>1, <3>2, <4>1
      <4> QED
        BY <4>1, <4>2
    <3> QED
      BY <3>3, <3>4
  <2>3. <<From(y), From(x)>> \in R
    BY <2>1, <2>2 DEF R, StrictSubsetOrdering
  <2> QED
    BY <1>3, <1>4, <2>1, <2>3
<1>6. \E z \in T : \A y \in T : z >= y
  BY <1>5
<1> QED
  BY <1>6 DEF Max

-----------------------------------------------------------------------------
(***************************************************************************)
(* FlattenSeq is a recursive function over the positions of a sequence:    *)
(* that there is one, that it has one value, and what the first n sequences*)
(* are joined to, are inductions by a least counterexample.                *)
(***************************************************************************)
\* The prefixes that FlattenSeq joins, one after the other.
Joined(f, ss, n) == f = [i \in 1..n |-> IF i = 1 THEN ss[i] ELSE f[i - 1] \o ss[i]]

LEMMA JoinedAgree ==
  ASSUME NEW ss, NEW m \in Nat, NEW n \in Nat, m <= n, NEW f, NEW g, Joined(f, ss, m), Joined(g, ss, n)
  PROVE  \A i \in 1..m : f[i] = g[i]
<1> DEFINE T == {i \in 1..m : f[i] # g[i]}
<1>1. SUFFICES ASSUME T # {} PROVE FALSE
  OBVIOUS
<1>2. PICK x \in T : \A y \in T : x <= y
  <2>1. T \subseteq Nat
    OBVIOUS
  <2> HIDE DEF T
  <2> QED
    BY <1>1, <2>1, LeastOf
<1>3. f[x] = (IF x = 1 THEN ss[x] ELSE f[x - 1] \o ss[x]) /\ g[x] = (IF x = 1 THEN ss[x] ELSE g[x - 1] \o ss[x])
  <2>1. x \in 1..m /\ x \in 1..n
    BY <1>2
  <2> QED
    BY <2>1 DEF Joined
<1>4. x # 1
  BY <1>2, <1>3
<1>5. x - 1 \in 1..m /\ f[x - 1] = g[x - 1]
  BY <1>2, <1>4
<1> QED
  BY <1>2, <1>3, <1>4, <1>5

LEMMA JoinedExists ==
  ASSUME NEW ss, NEW n \in Nat
  PROVE  \E f : Joined(f, ss, n)
<1> DEFINE T == {i \in Nat : ~ \E f : Joined(f, ss, i)}
<1>1. SUFFICES ASSUME T # {} PROVE FALSE
  OBVIOUS
<1>2. PICK x \in T : \A y \in T : x <= y
  BY <1>1, LeastOf
<1>3. x # 0
  <2>1. Joined([i \in 1..0 |-> 0], ss, 0)
    BY DEF Joined
  <2> QED
    BY <1>2, <2>1
<1>4. x \in Nat /\ x - 1 \in Nat /\ x - 1 \notin T
  BY <1>2, <1>3
<1>5. PICK f : Joined(f, ss, x - 1)
  BY <1>4
<1> DEFINE g == [i \in 1..x |-> IF i = 1 THEN ss[i] ELSE f[i - 1] \o ss[i]]
<1>6. ASSUME NEW i \in 1..x, i # x PROVE g[i] = f[i]
  <2>1. i \in 1..(x - 1)
    BY <1>4, <1>6
  <2>2. f[i] = IF i = 1 THEN ss[i] ELSE f[i - 1] \o ss[i]
    BY <1>5, <2>1 DEF Joined
  <2> QED
    BY <2>2
<1>7. Joined(g, ss, x)
  <2>1. ASSUME NEW i \in 1..x PROVE g[i] = IF i = 1 THEN ss[i] ELSE g[i - 1] \o ss[i]
    <3>1. CASE i = 1
      BY <3>1
    <3>2. CASE i # 1
      <4>1. i - 1 \in 1..x /\ i - 1 # x
        BY <1>4, <3>2
      <4>2. g[i - 1] = f[i - 1]
        BY <1>6, <4>1
      <4>3. g[i] = f[i - 1] \o ss[i]
        BY <3>2
      <4> QED
        BY <3>2, <4>2, <4>3
    <3> QED
      BY <3>1, <3>2
  <2>2. g = [i \in 1..x |-> g[i]]
    OBVIOUS
  <2> HIDE DEF g
  <2> QED
    BY <2>1, <2>2 DEF Joined
<1> QED
  BY <1>2, <1>7

LEMMA FlattenIs ==
  ASSUME NEW ss, Len(ss) \in Nat
  PROVE  /\ Len(ss) = 0 => FlattenSeq(ss) = ss
         /\ Len(ss) # 0 => \E f : Joined(f, ss, Len(ss)) /\ FlattenSeq(ss) = f[Len(ss)]
<1>1. PICK f : Joined(f, ss, Len(ss))
  BY JoinedExists
<1> DEFINE F == CHOOSE g : g = [i \in 1..Len(ss) |-> IF i = 1 THEN ss[i] ELSE g[i - 1] \o ss[i]]
<1>2. Joined(F, ss, Len(ss))
  BY <1>1 DEF Joined
<1>3. Len(ss) # 0 => FlattenSeq(ss) = F[Len(ss)]
  BY DEF FlattenSeq
<1>4. Len(ss) = 0 => FlattenSeq(ss) = ss
  BY DEF FlattenSeq
<1> QED
  BY <1>2, <1>3, <1>4


\* The first n of the sequences, one after the other.
Take(ss, n) == FlattenSeq([j \in 1..n |-> ss[j]])

LEMMA TakeJoins ==
  ASSUME NEW ss, NEW n \in Nat \ {0}
  PROVE  \E f : Joined(f, ss, n) /\ Take(ss, n) = f[n]
<1> DEFINE xs == [j \in 1..n |-> ss[j]]
<1>1. Len(xs) = n
  OBVIOUS
<1>2. \A j \in 1..n : xs[j] = ss[j]
  OBVIOUS
<1>3. Take(ss, n) = FlattenSeq(xs)
  BY DEF Take
<1> HIDE DEF xs
<1>4. PICK f : Joined(f, xs, n) /\ Take(ss, n) = f[n]
  BY <1>1, <1>3, FlattenIs
<1>5. Joined(f, ss, n)
  <2>1. f = [i \in 1..n |-> IF i = 1 THEN xs[i] ELSE f[i - 1] \o xs[i]]
    BY <1>4 DEF Joined
  <2>2. [i \in 1..n |-> IF i = 1 THEN xs[i] ELSE f[i - 1] \o xs[i]] = [i \in 1..n |-> IF i = 1 THEN ss[i] ELSE f[i - 1] \o ss[i]]
    BY <1>2
  <2> QED
    BY <2>1, <2>2 DEF Joined
<1> QED
  BY <1>4, <1>5

LEMMA TakeNone == ASSUME NEW ss PROVE Take(ss, 0) = <<>>
<1> DEFINE xs == [j \in 1..0 |-> ss[j]]
<1>1. Len(xs) = 0 /\ xs = <<>>
  OBVIOUS
<1>2. Take(ss, 0) = FlattenSeq(xs)
  BY DEF Take
<1> HIDE DEF xs
<1> QED
  BY <1>1, <1>2, FlattenIs

LEMMA TakeNext ==
  ASSUME NEW S, NEW ss \in Seq(Seq(S)), NEW k \in 0..(Len(ss) - 1)
  PROVE  Take(ss, k + 1) = Take(ss, k) \o ss[k + 1]
<1>1. k \in Nat /\ k + 1 \in Nat \ {0} /\ ss[k + 1] \in Seq(S)
  OBVIOUS
<1>2. PICK g : Joined(g, ss, k + 1) /\ Take(ss, k + 1) = g[k + 1]
  BY <1>1, TakeJoins
<1>3. g[k + 1] = IF k + 1 = 1 THEN ss[k + 1] ELSE g[k] \o ss[k + 1]
  <2>1. g = [i \in 1..(k + 1) |-> IF i = 1 THEN ss[i] ELSE g[i - 1] \o ss[i]]
    BY <1>2 DEF Joined
  <2>2. k + 1 \in 1..(k + 1) /\ (k + 1) - 1 = k
    BY <1>1
  <2> HIDE DEF Joined
  <2> QED
    BY <2>1, <2>2
<1>4. CASE k = 0
  <2>1. <<>> \o ss[k + 1] = ss[k + 1]
    BY <1>1
  <2>2. Take(ss, k) = <<>>
    BY <1>4, TakeNone
  <2>3. g[k + 1] = ss[k + 1]
    BY <1>3, <1>4
  <2> QED
    BY <1>2, <2>1, <2>2, <2>3
<1>5. CASE k # 0
  <2>1. k \in Nat \ {0}
    BY <1>5
  <2>2. PICK f : Joined(f, ss, k) /\ Take(ss, k) = f[k]
    BY <2>1, TakeJoins
  <2>3. f[k] = g[k]
    <3>1. k <= k + 1 /\ k \in 1..k
      BY <2>1
    <3> QED
      BY <1>1, <1>2, <2>2, <3>1, JoinedAgree
  <2>4. g[k + 1] = g[k] \o ss[k + 1]
    <3>1. k + 1 # 1
      BY <2>1
    <3> QED
      BY <1>3, <3>1
  <2>5. Take(ss, k) = g[k]
    BY <2>2, <2>3
  <2> QED
    BY <1>2, <2>4, <2>5
<1> QED
  BY <1>4, <1>5

LEMMA TakeIsSeq ==
  ASSUME NEW S, NEW ss \in Seq(Seq(S)), NEW k \in 0..Len(ss)
  PROVE  Take(ss, k) \in Seq(S)
<1> DEFINE T == {i \in 0..Len(ss) : Take(ss, i) \notin Seq(S)}
<1>1. SUFFICES ASSUME T # {} PROVE FALSE
  OBVIOUS
<1>2. T \subseteq Nat
  OBVIOUS
<1>3. PICK x \in T : \A y \in T : x <= y
  <2> HIDE DEF T
  <2> QED
    BY <1>1, <1>2, LeastOf
<1>4. x # 0
  <2>1. <<>> \in Seq(S) /\ Take(ss, x) \notin Seq(S)
    BY <1>3
  <2> QED
    BY <2>1, TakeNone
<1>5. PICK h \in 0..(Len(ss) - 1) : x = h + 1
  <2>1. x - 1 \in 0..(Len(ss) - 1) /\ x = (x - 1) + 1
    BY <1>3, <1>4
  <2> QED
    BY <2>1
<1>6. Take(ss, h) \in Seq(S) /\ ss[h + 1] \in Seq(S)
  <2>1. h \notin T /\ h \in 0..Len(ss) /\ h + 1 \in 1..Len(ss)
    BY <1>3, <1>5
  <2> QED
    BY <2>1
<1>7. Take(ss, h + 1) = Take(ss, h) \o ss[h + 1]
  BY TakeNext
<1>8. Take(ss, h + 1) \in Seq(S)
  <2>1. \A a, b \in Seq(S) : a \o b \in Seq(S)
    OBVIOUS
  <2> QED
    BY <1>6, <1>7, <2>1
<1> QED
  BY <1>3, <1>5, <1>8

LEMMA TakeGrows ==
  ASSUME NEW S, NEW ss \in Seq(Seq(S)), NEW k \in 0..Len(ss), NEW j \in 0..k
  PROVE  /\ Len(Take(ss, j)) <= Len(Take(ss, k))
         /\ \A i \in 1..Len(Take(ss, j)) : Take(ss, k)[i] = Take(ss, j)[i]
<1> DEFINE Grown(h) == /\ Len(Take(ss, j)) <= Len(Take(ss, h))
                       /\ \A i \in 1..Len(Take(ss, j)) : Take(ss, h)[i] = Take(ss, j)[i]
           T == {h \in j..Len(ss) : ~Grown(h)}
<1>1. SUFFICES ASSUME T # {} PROVE FALSE
  OBVIOUS
<1>2. T \subseteq Nat
  OBVIOUS
<1>3. PICK x \in T : \A y \in T : x <= y
  <2> HIDE DEF T
  <2> QED
    BY <1>1, <1>2, LeastOf
<1>4. j \in 0..Len(ss) /\ Take(ss, j) \in Seq(S) /\ Len(Take(ss, j)) \in Nat
  BY TakeIsSeq
<1>5. x # j
  BY <1>3, <1>4
<1>6. PICK h \in 0..(Len(ss) - 1) : x = h + 1
  <2>1. x - 1 \in 0..(Len(ss) - 1) /\ x = (x - 1) + 1
    BY <1>3, <1>4, <1>5
  <2> QED
    BY <2>1
<1>7. Grown(h) /\ h \in 0..Len(ss) /\ ss[h + 1] \in Seq(S)
  <2>1. h \notin T /\ h \in j..Len(ss) /\ h + 1 \in 1..Len(ss)
    BY <1>3, <1>4, <1>5, <1>6
  <2> QED
    BY <2>1
<1>8. Take(ss, h + 1) = Take(ss, h) \o ss[h + 1] /\ Take(ss, h) \in Seq(S)
  BY <1>7, TakeNext, TakeIsSeq
<1> DEFINE a == Take(ss, h)
           b == ss[h + 1]
<1>9. Len(a \o b) = Len(a) + Len(b) /\ \A i \in 1..Len(a) : (a \o b)[i] = a[i]
  BY <1>7, <1>8
<1>10. Grown(h + 1)
  <2>1. Len(a) \in Nat /\ Len(b) \in Nat
    BY <1>7, <1>8
  <2>2. Len(Take(ss, j)) <= Len(Take(ss, h + 1))
    BY <1>4, <1>7, <1>8, <1>9, <2>1
  <2>3. ASSUME NEW i \in 1..Len(Take(ss, j)) PROVE Take(ss, h + 1)[i] = Take(ss, j)[i]
    <3>1. i \in 1..Len(a) /\ a[i] = Take(ss, j)[i]
      BY <1>4, <1>7, <2>1
    <3> QED
      BY <1>8, <1>9, <3>1
  <2> QED
    BY <2>2, <2>3
<1> QED
  BY <1>3, <1>6, <1>10

LEMMA TakeAll == ASSUME NEW S, NEW ss \in Seq(S) PROVE Take(ss, Len(ss)) = FlattenSeq(ss)
<1>1. ss = [j \in 1..Len(ss) |-> ss[j]]
  OBVIOUS
<1> QED
  BY <1>1 DEF Take

\* Where the k-th of the joined sequences is.
LEMMA PlaceOf ==
  ASSUME NEW S, NEW ss \in Seq(Seq(S)), NEW k \in 1..Len(ss)
  PROVE  /\ Len(Take(ss, k - 1)) \in Nat /\ Len(Take(ss, k)) = Len(Take(ss, k - 1)) + Len(ss[k])
         /\ FlattenSeq(ss) \in Seq(S) /\ Len(Take(ss, k)) <= Len(FlattenSeq(ss))
         /\ \A i \in 1..Len(ss[k]) : FlattenSeq(ss)[Len(Take(ss, k - 1)) + i] = ss[k][i]
<1> DEFINE t == Take(ss, k - 1)
           v == Take(ss, k)
           w == FlattenSeq(ss)
<1>1. k - 1 \in 0..(Len(ss) - 1) /\ k - 1 \in 0..Len(ss) /\ k \in 0..Len(ss) /\ Len(ss) \in 0..Len(ss)
      /\ k \in 0..Len(ss) /\ (k - 1) + 1 = k /\ ss[k] \in Seq(S)
  OBVIOUS
<1>2. v = t \o ss[k]
  BY <1>1, TakeNext
<1>3. t \in Seq(S)
  BY <1>1, TakeIsSeq
<1>4. w = Take(ss, Len(ss))
  BY TakeAll
<1>5. w \in Seq(S)
  BY <1>1, <1>4, TakeIsSeq
<1>6. Len(v) <= Len(w) /\ \A i \in 1..Len(v) : w[i] = v[i]
  BY <1>1, <1>4, TakeGrows
<1> HIDE DEF t, v, w
<1>7. Len(t) \in Nat /\ Len(v) = Len(t) + Len(ss[k]) /\ \A i \in 1..Len(ss[k]) : v[Len(t) + i] = ss[k][i]
  BY <1>1, <1>2, <1>3
<1>8. ASSUME NEW i \in 1..Len(ss[k]) PROVE w[Len(t) + i] = ss[k][i]
  <2>1. Len(t) + i \in 1..Len(v)
    BY <1>1, <1>7
  <2> QED
    BY <1>6, <1>7, <2>1
<1> QED
  BY <1>5, <1>6, <1>7, <1>8 DEF t, v, w

\* f is the k-th of the sequences ss, there are h before it; what they are joined to.
IsPlaced(S, ss, k, h, f) == ss \in Seq(Seq(S)) /\ k \in 1..Len(ss) /\ h = k - 1 /\ f = ss[k]
Placed(ss, k, h, f) ==
  /\ Len(Take(ss, h)) \in Nat /\ Len(Take(ss, k)) = Len(Take(ss, h)) + Len(f)
  /\ Len(Take(ss, h)) + Len(f) <= Len(FlattenSeq(ss))
  /\ \A x \in 1..Len(f) : FlattenSeq(ss)[Len(Take(ss, h)) + x] = f[x]

LEMMA PlaceFrom ==
  ASSUME NEW S, NEW ss, NEW k, NEW h, NEW f, IsPlaced(S, ss, k, h, f)
  PROVE  Placed(ss, k, h, f)
<1>0. ss \in Seq(Seq(S)) /\ k \in 1..Len(ss) /\ h = k - 1 /\ f = ss[k]
  BY DEF IsPlaced
<1>1. Len(Take(ss, h)) \in Nat /\ Len(Take(ss, k)) = Len(Take(ss, h)) + Len(f)
  BY <1>0, PlaceOf
<1>2. FlattenSeq(ss) \in Seq(S) /\ Len(Take(ss, k)) <= Len(FlattenSeq(ss))
  BY <1>0, PlaceOf
<1>3. \A x \in 1..Len(f) : FlattenSeq(ss)[Len(Take(ss, h)) + x] = f[x]
  BY <1>0, PlaceOf
<1>4. Len(Take(ss, h)) + Len(f) <= Len(FlattenSeq(ss))
  BY <1>1, <1>2
<1> QED
  BY <1>1, <1>3, <1>4 DEF Placed

-----------------------------------------------------------------------------
(***************************************************************************)
(* Parts of sequences, and the sequence of a set.                          *)
(***************************************************************************)
\* What is left of what is left.
LEMMA LeftOfLeft ==
  ASSUME NEW S, NEW s \in Seq(S), NEW f, NEW p \in Nat, NEW w \in Nat, p <= Len(s),
         f = SubSeq(s, p + 1, Len(s)), w <= Len(f)
  PROVE  SubSeq(f, w + 1, Len(f)) = SubSeq(s, p + w + 1, Len(s)) /\ p + w <= Len(s)
<1> DEFINE a == SubSeq(f, w + 1, Len(f))
           b == SubSeq(s, p + w + 1, Len(s))
<1>1. Len(s) \in Nat /\ f \in Seq(S) /\ Len(f) = Len(s) - p
  OBVIOUS
<1>2. \A x \in 1..Len(f) : f[x] = s[p + x]
  BY <1>1
<1>3. a \in Seq(S) /\ Len(a) = Len(f) - w
  BY <1>1
<1>4. b \in Seq(S) /\ Len(b) = Len(s) - (p + w)
  BY <1>1
<1>5. \A x \in 1..Len(a) : a[x] = f[w + x]
  BY <1>1
<1>6. \A x \in 1..Len(b) : b[x] = s[p + w + x]
  BY <1>1
<1> HIDE DEF a, b
<1>7. ASSUME NEW x \in 1..Len(a) PROVE a[x] = b[x]
  <2>1. w + x \in 1..Len(f) /\ p + (w + x) = p + w + x /\ x \in 1..Len(b)
    BY <1>1, <1>3, <1>4
  <2>2. a[x] = f[w + x] /\ f[w + x] = s[p + (w + x)] /\ b[x] = s[p + w + x]
    BY <1>2, <1>5, <1>6, <2>1
  <2> QED
    BY <2>1, <2>2
<1>8. Len(a) = Len(b)
  BY <1>1, <1>3, <1>4
<1>9. a = b
  BY <1>3, <1>4, <1>7, <1>8, SeqEqual
<1>10. p + w <= Len(s)
  BY <1>1
<1> QED
  BY <1>9, <1>10 DEF a, b

\* A sequence moved to the end of another, one element at a time.
LEMMA MovedOn ==
  ASSUME NEW S, NEW a \in Seq(S), NEW b \in Seq(S), b # <<>>
  PROVE  Append(a, Head(b)) \o Tail(b) = a \o b /\ Append(a, Head(b)) \in Seq(S) /\ Tail(b) \in Seq(S)
<1> DEFINE c == Append(a, Head(b))
           d == Tail(b)
           x == c \o d
           y == a \o b
<1>1. Head(b) \in S /\ Head(b) = b[1] /\ Len(b) \in Nat /\ Len(b) >= 1 /\ Len(a) \in Nat
  OBVIOUS
<1>2. c \in Seq(S) /\ Len(c) = Len(a) + 1 /\ c[Len(a) + 1] = b[1] /\ \A i \in 1..Len(a) : c[i] = a[i]
  BY <1>1
<1>3. d \in Seq(S) /\ Len(d) = Len(b) - 1 /\ \A i \in 1..Len(d) : d[i] = b[i + 1]
  BY <1>1
<1> HIDE DEF c, d
<1>4. x \in Seq(S) /\ Len(x) = Len(c) + Len(d) /\ \A i \in 1..Len(x) : x[i] = IF i <= Len(c) THEN c[i] ELSE d[i - Len(c)]
  <2>1. c \in Seq(S) /\ d \in Seq(S)
    BY <1>2, <1>3
  <2> QED
    BY <2>1
<1>5. y \in Seq(S) /\ Len(y) = Len(a) + Len(b) /\ \A i \in 1..Len(y) : y[i] = IF i <= Len(a) THEN a[i] ELSE b[i - Len(a)]
  BY <1>1
<1> HIDE DEF x, y
<1>6. Len(x) = Len(y)
  BY <1>1, <1>2, <1>3, <1>4, <1>5
<1>7. ASSUME NEW i \in 1..Len(x) PROVE x[i] = y[i]
  <2>1. i \in 1..Len(y) /\ Len(a) \in Nat /\ Len(b) \in Nat
    BY <1>1, <1>6
  <2>2. CASE i <= Len(a)
    <3>1. i <= Len(c) /\ i \in 1..Len(a)
      BY <1>1, <1>2, <2>1, <2>2
    <3> QED
      BY <1>2, <1>4, <1>5, <2>1, <2>2, <3>1
  <2>3. CASE i = Len(a) + 1
    <3>1. i <= Len(c) /\ ~(i <= Len(a)) /\ i - Len(a) = 1
      BY <1>1, <1>2, <2>1, <2>3
    <3> QED
      BY <1>2, <1>4, <1>5, <2>1, <2>3, <3>1
  <2>4. CASE i > Len(a) + 1
    <3>1. ~(i <= Len(c)) /\ ~(i <= Len(a)) /\ i - Len(c) \in 1..Len(d) /\ (i - Len(c)) + 1 = i - Len(a)
      BY <1>1, <1>2, <1>3, <1>4, <2>1, <2>4
    <3>2. x[i] = d[i - Len(c)] /\ y[i] = b[i - Len(a)]
      BY <1>4, <1>5, <2>1, <3>1
    <3>3. d[i - Len(c)] = b[(i - Len(c)) + 1]
      BY <1>3, <3>1
    <3> QED
      BY <3>1, <3>2, <3>3
  <2> QED
    BY <2>1, <2>2, <2>3, <2>4
<1>8. x = y
  BY <1>4, <1>5, <1>6, <1>7, SeqEqual
<1> QED
  BY <1>2, <1>3, <1>8 DEF x, y, c, d

(***************************************************************************)
(* A set as a sequence: every element at one place.                        *)
(***************************************************************************)
LEMMA SetAsSeq ==
  ASSUME NEW S, IsFiniteSet(S)
  PROVE  /\ SetToSeq(S) \in Seq(S)
         /\ Len(SetToSeq(S)) = Cardinality(S)
         /\ Cardinality(S) \in Nat
         /\ S = {SetToSeq(S)[x] : x \in 1..Cardinality(S)}
         /\ \A x, y \in 1..Cardinality(S) : SetToSeq(S)[x] = SetToSeq(S)[y] => x = y
<1> DEFINE n == Cardinality(S)
<1>1. n \in Nat /\ ExistsBijection(1..n, S)
  BY FS_CardinalityType
<1>2. \E f \in [1..n -> S] : IsInjective(f)
  BY <1>1 DEF ExistsBijection, Bijection, Injection
<1>3. SetToSeq(S) \in [1..n -> S] /\ IsInjective(SetToSeq(S))
  BY <1>2 DEF SetToSeq
<1> DEFINE f == SetToSeq(S)
           T == {f[x] : x \in 1..n}
<1> HIDE DEF f
<1>4. f \in [1..n -> S] /\ \A x, y \in 1..n : f[x] = f[y] => x = y
  BY <1>3 DEF IsInjective, f
<1>5. f \in [1..n -> T]
  BY <1>4
<1>6. f \in Bijection(1..n, T)
  BY <1>4, <1>5 DEF Bijection, Injection, Surjection, IsInjective
<1>7. IsFiniteSet(1..n) /\ Cardinality(1..n) = n
  BY <1>1, FS_Interval
<1>8. Cardinality(T) = n
  BY <1>6, <1>7, FS_Bijection DEF ExistsBijection
<1>9. T \in SUBSET S
  BY <1>4
<1>10. T = S
  BY <1>8, <1>9, FS_Subset
<1>11. f \in Seq(S) /\ Len(f) = n
  BY <1>1, <1>4
<1> QED
  BY <1>1, <1>4, <1>10, <1>11 DEF f

==============================================================================
