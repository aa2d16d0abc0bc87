--------------------------- MODULE SequenceLemmas ---------------------------
(***************************************************************************)
(* What the proofs of several components need of sequences: what a filter  *)
(* leaves of a list is a list of the entries that pass, all of them, each  *)
(* once and in their order; the first entry that passes a test; a list of  *)
(* lists, one after the other; sums of sizes; the paths that a walk of a   *)
(* tree finds, and the values of an iteration, by their recursive          *)
(* definitions.                                                            *)
(***************************************************************************)
EXTENDS Subsequences, SequencesExt, FiniteSetTheorems, SequenceTheorems,
        WellFoundedInduction, TLAPS

\* The places of a sequence are finitely many.
LEMMA PlacesAreFinite ==
  ASSUME NEW X, NEW s \in Seq(X), NEW I \in SUBSET DOMAIN s
  PROVE  IsFiniteSet(I) /\ Cardinality(I) \in Nat /\ I \subseteq Nat
<1>1. DOMAIN s = 1..Len(s) /\ Len(s) \in Nat
  OBVIOUS
<1>2. IsFiniteSet(1..Len(s))
  BY <1>1, FS_Interval
<1>3. IsFiniteSet(I)
  BY <1>1, <1>2, FS_Subset
<1>4. QED
  BY <1>1, <1>3, FS_CardinalityType

LEMMA RankIncreases ==
  ASSUME NEW I \in SUBSET Nat, IsFiniteSet(I), NEW i \in I, NEW j \in I, i < j
  PROVE  Rank(I, i) < Rank(I, j)
<1> DEFINE A == {x \in I : x <= i}
           B == {x \in I : x <= j}
<1>1. /\ IsFiniteSet(A) /\ IsFiniteSet(B)
      /\ Cardinality(A) \in Nat /\ Cardinality(B) \in Nat
  BY FS_Subset, FS_CardinalityType
<1>2. Cardinality(A \cup {j}) = Cardinality(A) + 1
  <2>1. j \notin A
    OBVIOUS
  <2>2. QED
    BY <1>1, <2>1, FS_AddElement
<1>3. Cardinality(A \cup {j}) <= Cardinality(B)
  <2>1. A \cup {j} \subseteq B
    <3>1. i \in Nat /\ j \in Nat /\ \A x \in I : x \in Nat
      OBVIOUS
    <3>2. \A x \in A : x \in I /\ x <= j
      BY <3>1
    <3>3. A \subseteq B
      BY <3>2
    <3>4. j \in B
      BY <3>1
    <3>5. QED
      BY <3>3, <3>4, Zenon
  <2>2. QED
    BY <1>1, <2>1, FS_Subset
<1>4. QED
  BY <1>1, <1>2, <1>3 DEF Rank

\* Every place has a rank of its own, and every rank a place.
LEMMA NthFacts ==
  ASSUME NEW I \in SUBSET Nat, IsFiniteSet(I)
  PROVE  /\ \A k \in 1..Cardinality(I) : Nth(I, k) \in I /\ Rank(I, Nth(I, k)) = k
         /\ \A i \in I : Rank(I, i) \in 1..Cardinality(I) /\ Nth(I, Rank(I, i)) = i
<1> DEFINE n == Cardinality(I)
           rank == [i \in I |-> Rank(I, i)]
<1>1. n \in Nat /\ IsFiniteSet(1..n) /\ Cardinality(1..n) = n
  <2>1. n \in Nat
    BY FS_CardinalityType
  <2>2. IsFiniteSet(1..n) /\ Cardinality(1..n) = IF 1 > n THEN 0 ELSE n - 1 + 1
    <3> HIDE DEF n
    <3> QED
      BY <2>1, FS_Interval, 1 \in Int, n \in Int
  <2>3. QED
    BY <2>1, <2>2
<1>2. ASSUME NEW i \in I
      PROVE  Rank(I, i) \in 1..n
  <2> DEFINE A == {x \in I : x <= i}
  <2>1. IsFiniteSet(A) /\ Cardinality(A) \in Nat /\ Cardinality(A) <= n
    BY FS_Subset, FS_CardinalityType
  <2>2. A # {}
    OBVIOUS
  <2>3. Cardinality(A) # 0
    BY <2>1, <2>2, FS_EmptySet
  <2>4. QED
    BY <1>1, <2>1, <2>3 DEF Rank
<1>3. \A i, j \in I : Rank(I, i) = Rank(I, j) => i = j
  <2> SUFFICES ASSUME NEW i \in I, NEW j \in I, Rank(I, i) = Rank(I, j)
               PROVE  i = j
    OBVIOUS
  <2>1. Rank(I, i) \in Nat
    BY <1>2
  <2>2. ~(i < j) /\ ~(j < i)
    BY <2>1, RankIncreases
  <2>3. QED
    BY <2>2
<1>4. rank \in Injection(I, 1..n)
  BY <1>2, <1>3 DEF Injection, IsInjective
<1>5. rank \in Surjection(I, 1..n)
  <2> HIDE DEF rank, n
  <2>1. Cardinality(I) = Cardinality(1..n)
    BY <1>1 DEF n
  <2>2. QED
    BY <1>1, <1>4, <2>1, FS_Injection
<1>6. ASSUME NEW k \in 1..n
      PROVE  Nth(I, k) \in I /\ Rank(I, Nth(I, k)) = k
  <2>1. \E i \in I : Rank(I, i) = k
    BY <1>5 DEF Surjection
  <2>2. QED
    BY <2>1 DEF Nth
<1>7. ASSUME NEW i \in I
      PROVE  Nth(I, Rank(I, i)) = i
  BY <1>2, <1>3, <1>6
<1>8. QED
  BY <1>2, <1>6, <1>7

(* What is kept is a list: as long as the places are many, empty just when *)
(* there is none.  It holds the entries at these places and no others, in  *)
(* their order: a filter of app.js or of the collector neither repeats,    *)
(* loses nor reorders anything (app.js:1321-1345, collector.go:689-757).   *)
THEOREM KeptInOrder ==
  ASSUME NEW X, NEW s \in Seq(X), NEW I \in SUBSET DOMAIN s
  PROVE  /\ At(s, I) \in Seq(X) /\ Len(At(s, I)) = Cardinality(I)
         /\ At(s, I) = <<>> <=> I = {}
         /\ \A k \in DOMAIN At(s, I) : Nth(I, k) \in I /\ At(s, I)[k] = s[Nth(I, k)]
         /\ \A i \in I : \E k \in DOMAIN At(s, I) : Nth(I, k) = i
         /\ \A k, l \in DOMAIN At(s, I) : k < l => Nth(I, k) < Nth(I, l)
<1> DEFINE n == Cardinality(I)
<1>1. IsFiniteSet(I) /\ n \in Nat /\ I \in SUBSET Nat
  BY PlacesAreFinite
<1>2. /\ \A k \in 1..n : Nth(I, k) \in I /\ Rank(I, Nth(I, k)) = k
      /\ \A i \in I : Rank(I, i) \in 1..n /\ Nth(I, Rank(I, i)) = i
  BY <1>1, NthFacts
<1>3. \A i \in I : s[i] \in X
  OBVIOUS
<1>4. At(s, I) \in Seq(X) /\ Len(At(s, I)) = n /\ DOMAIN At(s, I) = 1..n
  <2>1. \A k \in 1..n : s[Nth(I, k)] \in X
    BY <1>2, <1>3
  <2> HIDE DEF n
  <2>2. QED
    BY <1>1, <2>1 DEF At, n
<1>5. At(s, I) = <<>> <=> I = {}
  BY <1>1, <1>4, FS_EmptySet
<1>6. ASSUME NEW k \in 1..n, NEW l \in 1..n, k < l
      PROVE  Nth(I, k) < Nth(I, l)
  <2>1. Nth(I, k) \in Nat /\ Nth(I, l) \in Nat
    BY <1>1, <1>2
  <2>2. Nth(I, k) # Nth(I, l)
    BY <1>2, <1>6
  <2>3. ~(Nth(I, l) < Nth(I, k))
    BY <1>1, <1>2, <1>6, RankIncreases
  <2>4. QED
    BY <2>1, <2>2, <2>3
<1>7. QED
  BY <1>2, <1>4, <1>5, <1>6 DEF At

-----------------------------------------------------------------------------
\* Array.find and the loops that stop at the first match.
LEMMA MinFacts ==
  ASSUME NEW I \in SUBSET Nat, I # {}
  PROVE  Min(I) \in I /\ \A i \in I : Min(I) <= i
<1>1. PICK m \in I : \A i \in I : <<i, m>> \notin OpToRel(<, Nat)
  BY NatLessThanWellFounded, WFMin
<1>2. \A i \in I : m <= i
  <2>1. \A i \in I : ~(i < m)
    BY <1>1 DEF OpToRel
  <2>2. QED
    BY <2>1
<1>3. QED
  BY <1>2 DEF Min

\* Lists appended one after the other: the recursive function by which
\* FlattenSeq does it exists.
LEMMA FlattenSteps ==
  ASSUME NEW X, NEW seqs \in Seq(Seq(X)), Len(seqs) # 0
  PROVE  \E flatten : /\ FlattenSeq(seqs) = flatten[Len(seqs)]
                      /\ \A i \in 1..Len(seqs) :
                           flatten[i] = IF i = 1 THEN seqs[i] ELSE flatten[i - 1] \o seqs[i]
<1> DEFINE n == Len(seqs)
           Appends(f, i) == f[i] = IF i = 1 THEN seqs[i] ELSE f[i - 1] \o seqs[i]
           Flattens(m) == \E f \in [1..m -> Seq(X)] : \A i \in 1..m : Appends(f, i)
<1>0. n \in Nat /\ DOMAIN seqs = 1..n /\ \A i \in 1..n : seqs[i] \in Seq(X)
  OBVIOUS
<1>1. \A m \in 1..n : Flattens(m)
  <2> DEFINE Bad == {m \in 1..n : ~Flattens(m)}
  <2>1. SUFFICES ASSUME Bad # {} PROVE FALSE
    OBVIOUS
  <2>2. Bad \in SUBSET Nat
    OBVIOUS
  <2>3. PICK m \in Bad : \A k \in Bad : m <= k
    <3> HIDE DEF Bad
    <3> QED
      BY <2>1, <2>2, MinFacts
  <2>4. m \in 1..n /\ ~Flattens(m)
    OBVIOUS
  <2>5. m # 1
    <3>1. [i \in 1..1 |-> seqs[1]] \in [1..1 -> Seq(X)]
      BY <1>0
    <3>2. \A i \in 1..1 : Appends([j \in 1..1 |-> seqs[1]], i)
      OBVIOUS
    <3>3. Flattens(1)
      BY <3>1, <3>2
    <3>4. QED
      BY <2>4, <3>3
  <2>6. m - 1 \in 1..n /\ ~(m <= m - 1)
    BY <1>0, <2>4, <2>5
  <2>7. Flattens(m - 1)
    BY <2>3, <2>6
  <2>8. PICK f \in [1..(m - 1) -> Seq(X)] : \A i \in 1..(m - 1) : Appends(f, i)
    BY <2>7
  <2> DEFINE g == [i \in 1..m |-> IF i < m THEN f[i] ELSE f[m - 1] \o seqs[m]]
  <2>9. f[m - 1] \o seqs[m] \in Seq(X)
    BY <1>0, <2>4, <2>5, <2>6, ConcatProperties
  <2>10. g \in [1..m -> Seq(X)]
    BY <2>4, <2>9
  <2>11. ASSUME NEW i \in 1..m
         PROVE  Appends(g, i)
    <3>1. CASE i = m
      <4>1. m \in 1..m /\ m - 1 \in 1..m /\ m - 1 < m /\ ~(m < m)
        BY <1>0, <2>4, <2>5
      <4>2. g[m] = f[m - 1] \o seqs[m] /\ g[m - 1] = f[m - 1]
        BY <4>1
      <4> HIDE DEF g
      <4>3. QED
        BY <2>5, <3>1, <4>2
    <3>2. CASE i # m
      <4>1. i \in 1..(m - 1) /\ i < m
        BY <2>4, <3>2
      <4>2. i # 1 => i - 1 \in 1..m /\ i - 1 < m
        BY <2>4, <4>1
      <4>3. Appends(f, i)
        BY <2>8, <4>1
      <4>4. QED
        BY <4>1, <4>2, <4>3
    <3>3. QED
      BY <3>1, <3>2
  <2>12. Flattens(m)
    BY <2>10, <2>11
  <2>13. QED
    BY <2>4, <2>12
<1> DEFINE Step(f) == [i \in 1..n |-> IF i = 1 THEN seqs[i] ELSE f[i - 1] \o seqs[i]]
           flatten == CHOOSE f : f = Step(f)
<1>2. flatten = Step(flatten)
  <2>1. n \in 1..n
    BY <1>0
  <2>2. PICK f \in [1..n -> Seq(X)] : \A i \in 1..n : Appends(f, i)
    BY <1>1, <2>1
  <2>3. f = Step(f)
    BY <2>2
  <2>4. QED
    BY <2>3
<1>3. FlattenSeq(seqs) = flatten[n]
  BY DEF FlattenSeq
<1> HIDE DEF flatten
<1>4. \A i \in 1..n : flatten[i] = IF i = 1 THEN seqs[i] ELSE flatten[i - 1] \o seqs[i]
  BY <1>2
<1>5. QED
  BY <1>3, <1>4

\* The outcome is empty only if all are.
LEMMA FlattenFacts ==
  ASSUME NEW X, NEW seqs \in Seq(Seq(X))
  PROVE  /\ FlattenSeq(seqs) \in Seq(X)
         /\ FlattenSeq(seqs) = <<>> <=> \A i \in DOMAIN seqs : seqs[i] = <<>>
<1> DEFINE n == Len(seqs)
<1>1. n \in Nat /\ DOMAIN seqs = 1..n /\ \A i \in 1..n : seqs[i] \in Seq(X)
  OBVIOUS
<1>2. CASE n = 0
  <2>1. seqs = <<>>
    BY <1>1, <1>2
  <2>2. FlattenSeq(seqs) = <<>>
    BY <1>2, <2>1 DEF FlattenSeq
  <2>3. QED
    BY <1>1, <1>2, <2>2
<1>3. CASE n # 0
  <2>1. PICK flatten : /\ FlattenSeq(seqs) = flatten[n]
                       /\ \A i \in 1..n :
                            flatten[i] = IF i = 1 THEN seqs[i] ELSE flatten[i - 1] \o seqs[i]
    BY <1>3, FlattenSteps
  <2> DEFINE Sound(i) == /\ flatten[i] \in Seq(X)
                         /\ flatten[i] = <<>> <=> \A j \in 1..i : seqs[j] = <<>>
  <2>2. \A i \in 1..n : Sound(i)
    <3> DEFINE Bad == {i \in 1..n : ~Sound(i)}
    <3>1. SUFFICES ASSUME Bad # {} PROVE FALSE
      OBVIOUS
    <3>2. Bad \in SUBSET Nat
      OBVIOUS
    <3>3. PICK i \in Bad : \A k \in Bad : i <= k
      <4> HIDE DEF Bad
      <4> QED
        BY <3>1, <3>2, MinFacts
    <3>4. i \in 1..n /\ ~Sound(i)
      OBVIOUS
    <3>5. flatten[i] = IF i = 1 THEN seqs[i] ELSE flatten[i - 1] \o seqs[i]
      BY <2>1, <3>4
    <3>6. CASE i = 1
      BY <1>1, <3>4, <3>5, <3>6
    <3>7. CASE i # 1
      <4>1. i - 1 \in 1..n /\ ~(i <= i - 1)
        BY <1>1, <3>4, <3>7
      <4>2. Sound(i - 1)
        BY <3>3, <4>1
      <4>3. flatten[i] \in Seq(X) /\ Len(flatten[i]) = Len(flatten[i - 1]) + Len(seqs[i])
        BY <1>1, <3>4, <3>5, <3>7, <4>2, ConcatProperties
      <4>4. flatten[i] = <<>> <=> flatten[i - 1] = <<>> /\ seqs[i] = <<>>
        BY <1>1, <3>4, <4>2, <4>3, EmptySeq
      <4>5. 1..i = 1..(i - 1) \cup {i}
        BY <1>1, <3>4, <3>7
      <4>6. Sound(i)
        BY <4>2, <4>3, <4>4, <4>5
      <4>7. QED
        BY <3>4, <4>6
    <3>8. QED
      BY <3>6, <3>7
  <2>3. n \in 1..n /\ DOMAIN seqs = 1..n
    BY <1>1, <1>3
  <2>4. Sound(n)
    BY <2>2, <2>3
  <2>5. QED
    BY <2>1, <2>3, <2>4, Zenon
<1>4. QED
  BY <1>2, <1>3

\* Lists of one entry each are flattened into the list of their entries.
LEMMA FlattenSingletons ==
  ASSUME NEW X, NEW s \in Seq(X), NEW seqs,
         seqs = [i \in DOMAIN s |-> <<s[i]>>]
  PROVE  FlattenSeq(seqs) = s
<1> DEFINE n == Len(s)
<1>1. n \in Nat /\ DOMAIN s = 1..n /\ \A i \in 1..n : s[i] \in X
  OBVIOUS
<1>2. /\ seqs \in Seq(Seq(X)) /\ Len(seqs) = n
      /\ \A i \in 1..n : seqs[i] = <<s[i]>> /\ seqs[i] \in Seq(X)
  <2>1. \A i \in 1..n : <<s[i]>> \in Seq(X)
    BY <1>1
  <2>2. DOMAIN seqs = 1..n /\ \A i \in 1..n : seqs[i] = <<s[i]>>
    BY <1>1
  <2>3. seqs \in [1..n -> Seq(X)]
    <3>1. seqs = [i \in DOMAIN seqs |-> seqs[i]]
      OBVIOUS
    <3>2. QED
      BY <2>1, <2>2, <3>1
  <2> HIDE DEF n
  <2>4. QED
    BY <1>1, <2>1, <2>2, <2>3
<1>3. CASE n = 0
  <2>1. seqs = <<>> /\ s = <<>>
    BY <1>1, <1>2, <1>3
  <2>2. QED
    BY <1>2, <1>3, <2>1 DEF FlattenSeq
<1>4. CASE n # 0
  <2>1. PICK flatten : /\ FlattenSeq(seqs) = flatten[n]
                       /\ \A i \in 1..n :
                            flatten[i] = IF i = 1 THEN seqs[i] ELSE flatten[i - 1] \o seqs[i]
    <3>1. seqs \in Seq(Seq(X)) /\ Len(seqs) = n /\ Len(seqs) # 0
      BY <1>2, <1>4, Zenon
    <3> HIDE DEF n
    <3>2. QED
      BY <3>1, FlattenSteps, Zenon
  <2> DEFINE Whole(i) == flatten[i] \in Seq(X) /\ Len(flatten[i]) = i
                         /\ \A j \in 1..i : flatten[i][j] = s[j]
  <2>2. \A i \in 1..n : Whole(i)
    <3> DEFINE Bad == {i \in 1..n : ~Whole(i)}
    <3>1. SUFFICES ASSUME Bad # {} PROVE FALSE
      OBVIOUS
    <3>2. Bad \in SUBSET Nat
      OBVIOUS
    <3>3. PICK i \in Bad : \A k \in Bad : i <= k
      <4> HIDE DEF Bad
      <4> QED
        BY <3>1, <3>2, MinFacts
    <3>4. i \in 1..n /\ ~Whole(i)
      OBVIOUS
    <3>5. flatten[i] = IF i = 1 THEN seqs[i] ELSE flatten[i - 1] \o seqs[i]
      BY <2>1, <3>4
    <3>6. CASE i = 1
      <4>1. flatten[1] = <<s[1]>> /\ s[1] \in X
        BY <1>1, <1>2, <3>4, <3>5, <3>6
      <4>2. Whole(1)
        BY <4>1
      <4>3. QED
        BY <3>4, <3>6, <4>2
    <3>7. CASE i # 1
      <4>1. i - 1 \in 1..n /\ ~(i <= i - 1)
        BY <1>1, <3>4, <3>7
      <4>2. Whole(i - 1)
        BY <3>3, <4>1
      <4>3. seqs[i] = <<s[i]>> /\ seqs[i] \in Seq(X) /\ Len(seqs[i]) = 1 /\ seqs[i][1] = s[i]
        BY <1>2, <3>4
      <4> DEFINE front == flatten[i - 1]
                 last == seqs[i]
      <4>4. flatten[i] = front \o last
        BY <3>5, <3>7
      <4>5. /\ front \in Seq(X) /\ last \in Seq(X) /\ Len(front) = i - 1 /\ Len(last) = 1
            /\ \A j \in 1..(i - 1) : front[j] = s[j]
            /\ last[1] = s[i]
        BY <4>2, <4>3
      <4> HIDE DEF front, last
      <4>6. /\ front \o last \in Seq(X) /\ Len(front \o last) = Len(front) + Len(last)
            /\ \A j \in 1..(Len(front) + Len(last)) : (front \o last)[j] =
                 IF j <= Len(front) THEN front[j] ELSE last[j - Len(front)]
        BY <4>5, ConcatProperties
      <4>7. Len(front) + Len(last) = i /\ i - (i - 1) = 1 /\ i \in Nat
        BY <3>4, <4>5
      <4>8. ASSUME NEW j \in 1..i PROVE (front \o last)[j] = s[j]
        <5>1. CASE j = i
          BY <4>5, <4>6, <4>7, <5>1
        <5>2. CASE j # i
          <6>1. j \in 1..(i - 1) /\ j <= Len(front)
            BY <4>5, <4>7, <5>2
          <6>2. QED
            BY <4>5, <4>6, <4>7, <6>1
        <5>3. QED
          BY <5>1, <5>2
      <4>9. QED
        BY <3>4, <4>4, <4>6, <4>7, <4>8
    <3>8. QED
      BY <3>6, <3>7
  <2>3. n \in 1..n
    BY <1>1, <1>4
  <2>4. Whole(n)
    BY <2>2, <2>3
  <2>5. flatten[n] = s
    <3> DEFINE t == flatten[n]
    <3>1. t \in Seq(X) /\ Len(t) = n /\ \A j \in 1..n : t[j] = s[j]
      BY <2>4
    <3> HIDE DEF t
    <3>2. t = s
      BY <3>1
    <3>3. QED
      BY <3>2 DEF t
  <2>6. QED
    BY <2>1, <2>5
<1>5. QED
  BY <1>3, <1>4

\* A list of one list.
LEMMA FlattenOne ==
  ASSUME NEW X, NEW t \in Seq(X)
  PROVE  FlattenSeq(<<t>>) = t
<1>1. <<t>> \in Seq(Seq(X)) /\ Len(<<t>>) = 1 /\ <<t>>[1] = t
  OBVIOUS
<1> DEFINE one == <<t>>
<1> HIDE DEF one
<1>2. one \in Seq(Seq(X)) /\ Len(one) = 1 /\ one[1] = t
  BY <1>1 DEF one
<1>3. PICK flatten : /\ FlattenSeq(one) = flatten[Len(one)]
                     /\ \A i \in 1..Len(one) :
                          flatten[i] = IF i = 1 THEN one[i] ELSE flatten[i - 1] \o one[i]
  <2>1. Len(one) # 0
    BY <1>2
  <2>2. QED
    BY <1>2, <2>1, FlattenSteps, Zenon
<1>4. 1 \in 1..Len(one)
  BY <1>2
<1>5. flatten[1] = one[1]
  BY <1>3, <1>4
<1>6. QED
  BY <1>2, <1>3, <1>5 DEF one

\* Two entries in front of a list.
LEMMA TwoInFront ==
  ASSUME NEW X, NEW a \in X, NEW b \in X, NEW s \in Seq(X)
  PROVE  LET t == <<a>> \o (<<b>> \o s)
         IN  /\ t \in Seq(X) /\ Len(t) = Len(s) + 2 /\ t[1] = a /\ t[2] = b
             /\ \A i \in 1..Len(s) : t[i + 2] = s[i]
<1> DEFINE u == <<b>> \o s
           t == <<a>> \o u
           m == Len(s)
<1>1. /\ <<b>> \in Seq(X) /\ Len(<<b>>) = 1 /\ <<b>>[1] = b
      /\ <<a>> \in Seq(X) /\ Len(<<a>>) = 1 /\ <<a>>[1] = a /\ m \in Nat
  OBVIOUS
<1> DEFINE p == <<a>>
           q == <<b>>
<1> HIDE DEF p, q, m
<1>2. /\ q \o s \in Seq(X) /\ Len(q \o s) = Len(q) + Len(s)
      /\ \A i \in 1..(Len(q) + Len(s)) :
           (q \o s)[i] = IF i <= Len(q) THEN q[i] ELSE s[i - Len(q)]
  BY <1>1, ConcatProperties DEF q
<1>3. /\ u \in Seq(X) /\ Len(u) = m + 1
      /\ \A i \in 1..(m + 1) : u[i] = IF i <= 1 THEN q[i] ELSE s[i - 1]
  <2>1. u = q \o s /\ Len(q) = 1 /\ Len(s) = m /\ 1 + m = m + 1
    BY <1>1 DEF q, m
  <2> HIDE DEF u
  <2>2. QED
    BY <1>2, <2>1
<1> HIDE DEF u
<1>4. /\ p \o u \in Seq(X) /\ Len(p \o u) = Len(p) + Len(u)
      /\ \A i \in 1..(Len(p) + Len(u)) :
           (p \o u)[i] = IF i <= Len(p) THEN p[i] ELSE u[i - Len(p)]
  BY <1>1, <1>3, ConcatProperties DEF p
<1>5. /\ t \in Seq(X) /\ Len(t) = m + 2
      /\ \A i \in 1..(m + 2) : t[i] = IF i <= 1 THEN p[i] ELSE u[i - 1]
  <2>1. t = p \o u /\ Len(p) = 1 /\ Len(u) = m + 1 /\ 1 + (m + 1) = m + 2
    BY <1>1, <1>3 DEF p
  <2> HIDE DEF t
  <2>2. QED
    BY <1>4, <2>1
<1> HIDE DEF t
<1>6. q[1] = b /\ p[1] = a
  BY <1>1 DEF p, q
<1>7. t[1] = a
  BY <1>1, <1>5, <1>6
<1>8. t[2] = b
  <2>1. 2 \in 1..(m + 2) /\ ~(2 <= 1) /\ 2 - 1 = 1 /\ 1 \in 1..(m + 1)
    BY <1>1
  <2>2. t[2] = u[1] /\ u[1] = q[1]
    BY <1>3, <1>5, <2>1
  <2>3. QED
    BY <1>6, <2>2
<1>9. ASSUME NEW i \in 1..m PROVE t[i + 2] = s[i]
  <2>1. i + 2 \in 1..(m + 2) /\ ~(i + 2 <= 1) /\ i + 2 - 1 = i + 1
        /\ i + 1 \in 1..(m + 1) /\ ~(i + 1 <= 1) /\ i + 1 - 1 = i
    BY <1>1
  <2>2. t[i + 2] = u[i + 1]
    BY <1>5, <2>1
  <2>3. u[i + 1] = s[i]
    BY <1>3, <2>1
  <2>4. QED
    BY <2>2, <2>3
<1>10. QED
  BY <1>5, <1>7, <1>8, <1>9 DEF t, u, m

\* Array.splice of one entry.
LEMMA RemoveAtFacts ==
  ASSUME NEW X, NEW s \in Seq(X), NEW i \in 1..Len(s)
  PROVE  RemoveAt(s, i) \in Seq(X) /\ Len(RemoveAt(s, i)) = Len(s) - 1
<1> DEFINE before == SubSeq(s, 1, i - 1)
           after == SubSeq(s, i + 1, Len(s))
<1>1. /\ 1 \in Int /\ i - 1 \in Int /\ i + 1 \in Int /\ Len(s) \in Int
      /\ \A k \in 1..(i - 1) : s[k] \in X
      /\ \A k \in (i + 1)..Len(s) : s[k] \in X
  OBVIOUS
<1>2. before \in Seq(X) /\ Len(before) = IF 1 <= i - 1 THEN (i - 1) - 1 + 1 ELSE 0
  BY <1>1, SubSeqProperties
<1>3. after \in Seq(X) /\ Len(after) = IF i + 1 <= Len(s) THEN Len(s) - (i + 1) + 1 ELSE 0
  BY <1>1, SubSeqProperties
<1>4. RemoveAt(s, i) = before \o after
  BY DEF RemoveAt
<1> HIDE DEF before, after
<1>5. before \o after \in Seq(X) /\ Len(before \o after) = Len(before) + Len(after)
  BY <1>2, <1>3, ConcatProperties
<1>6. Len(before) = i - 1 /\ Len(after) = Len(s) - i
  BY <1>1, <1>2, <1>3
<1>7. QED
  BY <1>1, <1>4, <1>5, <1>6

-----------------------------------------------------------------------------
(* The sizes of sets that share nothing add up to that of their union.     *)

OneOf(s) == CHOOSE x \in s : TRUE

\* f adds up the sizes of the members of a family over any set of indices, as
\* MapThenSumSet does.
Adds(f, S, family) ==
  f = [s \in SUBSET S |-> IF s = {} THEN 0
                          ELSE Cardinality(family[OneOf(s)]) + f[s \ {OneOf(s)}]]

Together(family, s) == UNION {family[x] : x \in s}

DisjointFamily(S, family) ==
  /\ \A x \in S : IsFiniteSet(family[x])
  /\ \A x, y \in S : x # y => family[x] \cap family[y] = {}

LEMMA TogetherFacts ==
  ASSUME NEW S, IsFiniteSet(S), NEW family, DisjointFamily(S, family), NEW s \in SUBSET S
  PROVE  /\ IsFiniteSet(Together(family, s)) /\ Cardinality(Together(family, s)) \in Nat
         /\ s = {} => Cardinality(Together(family, s)) = 0
         /\ s # {} => Cardinality(Together(family, s)) =
                        Cardinality(family[OneOf(s)]) + Cardinality(Together(family, s \ {OneOf(s)}))
<1> DEFINE Parts(t) == {family[x] : x \in t}
<1>1. ASSUME NEW t \in SUBSET S
      PROVE  IsFiniteSet(Together(family, t))
  <2>1. IsFiniteSet(t)
    BY FS_Subset
  <2>2. IsFiniteSet(Parts(t))
    <3> DEFINE part == [x \in t |-> family[x]]
    <3>1. part \in Surjection(t, Parts(t))
      BY DEF Surjection
    <3> HIDE DEF part, Parts
    <3>2. QED
      BY <2>1, <3>1, FS_Surjection
  <2>3. \A p \in Parts(t) : IsFiniteSet(p)
    BY DEF DisjointFamily
  <2> HIDE DEF Parts
  <2>4. IsFiniteSet(UNION Parts(t))
    BY <2>2, <2>3, FS_UNION
  <2>5. QED
    BY <2>4 DEF Together, Parts
<1>2. s = {} => Cardinality(Together(family, s)) = 0
  <2>1. s = {} => Together(family, s) = {}
    BY DEF Together
  <2>2. QED
    BY <2>1, FS_EmptySet
<1>3. ASSUME s # {}
      PROVE  Cardinality(Together(family, s)) =
               Cardinality(family[OneOf(s)]) + Cardinality(Together(family, s \ {OneOf(s)}))
  <2> DEFINE a == OneOf(s)
             rest == s \ {a}
  <2>1. a \in s
    BY <1>3 DEF OneOf
  <2> HIDE DEF a
  <2>2. Together(family, s) = family[a] \cup Together(family, rest)
    BY <2>1 DEF Together
  <2>3. family[a] \cap Together(family, rest) = {}
    BY <2>1 DEF Together, DisjointFamily
  <2>4. IsFiniteSet(family[a]) /\ IsFiniteSet(Together(family, rest))
    BY <1>1, <2>1 DEF DisjointFamily
  <2> DEFINE A == family[a]
             B == Together(family, rest)
  <2> HIDE DEF A, B
  <2>5. Cardinality(A \cup B) = Cardinality(A) + Cardinality(B) - Cardinality(A \cap B)
    BY <2>4, FS_Union DEF A, B
  <2>6. Cardinality(A \cap B) = 0
    BY <2>3, FS_EmptySet DEF A, B
  <2>7. Cardinality(A) \in Nat /\ Cardinality(B) \in Nat
    BY <2>4, FS_CardinalityType DEF A, B
  <2>8. Cardinality(A \cup B) = Cardinality(A) + Cardinality(B)
    BY <2>5, <2>6, <2>7
  <2>9. QED
    BY <2>2, <2>8 DEF A, B, a
<1>4. QED
  BY <1>1, <1>2, <1>3, FS_CardinalityType

\* There is such a sum, and it is the size of all members together.
LEMMA SumOfSizes ==
  ASSUME NEW S, IsFiniteSet(S), NEW family, DisjointFamily(S, family)
  PROVE  /\ \E f : Adds(f, S, family)
         /\ \A f : Adds(f, S, family) => f[S] = Cardinality(Together(family, S))
<1> DEFINE total == [s \in SUBSET S |-> Cardinality(Together(family, s))]
<1>1. \A s \in SUBSET S : s # {} => OneOf(s) \in s
  BY DEF OneOf
<1>2. Adds(total, S, family)
  <2>1. \A s \in SUBSET S : total[s] =
          IF s = {} THEN 0 ELSE Cardinality(family[OneOf(s)]) + total[s \ {OneOf(s)}]
    BY TogetherFacts
  <2>2. QED
    BY <2>1 DEF Adds
<1>3. ASSUME NEW f, Adds(f, S, family), NEW s \in SUBSET S
      PROVE  f[s] = IF s = {} THEN 0 ELSE Cardinality(family[OneOf(s)]) + f[s \ {OneOf(s)}]
  BY <1>3 DEF Adds
<1>4. ASSUME NEW f, Adds(f, S, family)
      PROVE  \A s \in SUBSET S : f[s] = total[s]
  <2> DEFINE Bad == {s \in SUBSET S : f[s] # total[s]}
             sizes == {Cardinality(s) : s \in Bad}
  <2>1. SUFFICES ASSUME Bad # {} PROVE FALSE
    OBVIOUS
  <2>2. \A s \in SUBSET S : IsFiniteSet(s) /\ Cardinality(s) \in Nat
    BY FS_Subset, FS_CardinalityType
  <2>3. sizes \in SUBSET Nat /\ sizes # {}
    BY <2>1, <2>2
  <2>4. Min(sizes) \in sizes /\ \A n \in sizes : Min(sizes) <= n
    <3> HIDE DEF sizes
    <3> QED
      BY <2>3, MinFacts
  <2>5. PICK s \in Bad : \A t \in Bad : Cardinality(s) <= Cardinality(t)
    BY <2>4
  <2>6. s \in SUBSET S /\ f[s] # total[s]
    OBVIOUS
  <2>7. s # {}
    BY <1>3, <1>4, <2>6, TogetherFacts
  <2> DEFINE t == s \ {OneOf(s)}
  <2>8. t \in SUBSET S /\ OneOf(s) \in s
    BY <1>1, <2>6, <2>7
  <2>9. Cardinality(t) < Cardinality(s)
    <3>1. Cardinality(t) = Cardinality(s) - 1
      BY <2>2, <2>6, <2>8, FS_RemoveElement
    <3>2. QED
      BY <2>2, <2>6, <3>1
  <2>10. f[t] = total[t]
    <3>1. ~(Cardinality(s) <= Cardinality(t))
      BY <2>2, <2>6, <2>8, <2>9
    <3>2. t \notin Bad
      BY <2>5, <3>1
    <3>3. QED
      BY <2>8, <3>2
  <2>11. f[s] = Cardinality(family[OneOf(s)]) + total[t]
    BY <1>3, <1>4, <2>6, <2>7, <2>10
  <2>12. total[s] = Cardinality(family[OneOf(s)]) + total[t]
    BY <2>6, <2>7, <2>8, TogetherFacts
  <2>13. QED
    BY <2>6, <2>11, <2>12
<1>5. QED
  <2>1. S \in SUBSET S /\ total[S] = Cardinality(Together(family, S))
    OBVIOUS
  <2> HIDE DEF total
  <2>2. QED
    BY <1>2, <1>4, <2>1

\* The same for sets that are summed as they are.
LEMMA SizesAddUp ==
  ASSUME NEW C, IsFiniteSet(C), \A c \in C : IsFiniteSet(c),
         \A c, d \in C : c # d => c \cap d = {}
  PROVE  MapThenSumSet(Cardinality, C) = Cardinality(UNION C)
<1> DEFINE itself == [c \in C |-> c]
<1>1. DisjointFamily(C, itself)
  BY DEF DisjointFamily
<1>2. Together(itself, C) = UNION C
  BY DEF Together
<1> DEFINE Step(f) == [s \in SUBSET C |-> IF s = {} THEN 0
                         ELSE Cardinality(OneOf(s)) + f[s \ {OneOf(s)}]]
           sum == CHOOSE f : f = Step(f)
<1>3. MapThenSumSet(Cardinality, C) = sum[C]
  BY Zenon DEF MapThenSumSet, MapThenFoldSet, OneOf
<1>4. ASSUME NEW f
      PROVE  Adds(f, C, itself) <=> f = Step(f)
  <2>1. \A s \in SUBSET C : s # {} => itself[OneOf(s)] = OneOf(s)
    BY DEF OneOf
  <2> HIDE DEF itself
  <2>2. Step(f) = [s \in SUBSET C |-> IF s = {} THEN 0
                     ELSE Cardinality(itself[OneOf(s)]) + f[s \ {OneOf(s)}]]
    BY <2>1
  <2>3. QED
    BY <2>2 DEF Adds
<1> HIDE DEF itself, Step
<1>5. \E f : Adds(f, C, itself)
  BY <1>1, SumOfSizes
<1>6. sum = Step(sum)
  BY <1>4, <1>5
<1>7. Adds(sum, C, itself)
  BY <1>4, <1>6
<1> HIDE DEF sum
<1>8. sum[C] = Cardinality(Together(itself, C))
  BY <1>1, <1>7, SumOfSizes
<1>9. QED
  BY <1>2, <1>3, <1>8

LEMMA MoreThanOne ==
  ASSUME NEW S, IsFiniteSet(S), NEW a \in S
  PROVE  Cardinality(S) > 1 <=> \E b \in S : b # a
<1>1. Cardinality(S) \in Nat
  BY FS_CardinalityType
<1>2. IsFiniteSet({a}) /\ Cardinality({a}) = 1
  BY FS_Singleton
<1>3. ASSUME NEW b \in S, b # a
      PROVE  Cardinality(S) > 1
  <2>1. {a} \subseteq S /\ {a} # S
    BY <1>3
  <2>2. Cardinality({a}) <= Cardinality(S) /\ Cardinality(S) # Cardinality({a})
    BY <2>1, FS_Subset
  <2>3. QED
    BY <1>1, <1>2, <2>2
<1>4. (\A b \in S : b = a) => S = {a}
  OBVIOUS
<1>5. QED
  BY <1>1, <1>2, <1>3, <1>4

\* What passes and what does not are the list.
LEMMA RestOfList ==
  ASSUME NEW X, NEW s \in Seq(X), NEW I \in SUBSET DOMAIN s
  PROVE  /\ Len(At(s, I)) = Cardinality(I)
         /\ Cardinality(DOMAIN s \ I) = Len(s) - Len(At(s, I))
         /\ Len(At(s, DOMAIN s \ I)) = Len(s) - Len(At(s, I))
<1> DEFINE D == DOMAIN s
<1>1. IsFiniteSet(D) /\ IsFiniteSet(I)
  BY PlacesAreFinite
<1>2. Cardinality(D) = Len(s) /\ Len(s) \in Nat
  <2>1. D = 1..Len(s) /\ Len(s) \in Nat
    OBVIOUS
  <2>2. Cardinality(1..Len(s)) = IF 1 > Len(s) THEN 0 ELSE Len(s) - 1 + 1
    BY <2>1, FS_Interval, 1 \in Int, Len(s) \in Int
  <2>3. QED
    BY <2>1, <2>2
<1>3. Cardinality(D \ I) = Cardinality(D) - Cardinality(D \cap I)
  <2> HIDE DEF D
  <2> QED
    BY <1>1, FS_Difference
<1>4. D \cap I = I
  OBVIOUS
<1>5. Len(At(s, I)) = Cardinality(I)
  BY KeptInOrder
<1>6. Len(At(s, D \ I)) = Cardinality(D \ I)
  <2> DEFINE J == D \ I
  <2>1. J \in SUBSET DOMAIN s
    OBVIOUS
  <2> HIDE DEF J
  <2>2. Len(At(s, J)) = Cardinality(J)
    BY <2>1, KeptInOrder
  <2>3. QED
    BY <2>2 DEF J
<1>7. QED
  BY <1>2, <1>3, <1>4, <1>5, <1>6

-----------------------------------------------------------------------------
(* The paths of a tree: what a walk collects that puts the name of a child *)
(* in front of what it finds there.                                        *)

Names(A) == {<<a>> : a \in A}

\* One name in front of a path, and which path it is.
LEMMA OneInFront ==
  ASSUME NEW A, NEW n \in Names(A), NEW q \in Seq(A), NEW r \in Seq(A)
  PROVE  /\ n \in Seq(A) /\ n # <<>> /\ n \o <<>> = n
         /\ n \o q \in Seq(A) /\ n \o q # <<>> /\ Len(n \o q) = Len(q) + 1
         /\ (n \o q)[1] = n[1] /\ \A i \in 1..Len(q) : (n \o q)[i + 1] = q[i]
         /\ (n \o q) \o r = n \o (q \o r)
<1>1. PICK a \in A : n = <<a>>
  BY DEF Names
<1>2. n \in Seq(A) /\ Len(n) = 1 /\ n[1] = a
  BY <1>1
<1>3. <<>> \in Seq(A) /\ Len(<<>>) = 0
  BY EmptySeq
<1>4. n # <<>>
  BY <1>2, <1>3
<1>5. n \o <<>> = n
  BY <1>2, ConcatEmptySeq
<1>6. ASSUME NEW s \in Seq(A), NEW o \in Seq(A), Len(o) = 1
      PROVE  /\ o \o s \in Seq(A) /\ Len(o \o s) = Len(s) + 1
             /\ (o \o s)[1] = o[1]
             /\ \A i \in 1..Len(s) : (o \o s)[i + 1] = s[i]
  <2>1. Len(s) \in Nat
    BY LenProperties
  <2>2. /\ o \o s \in Seq(A) /\ Len(o \o s) = Len(o) + Len(s)
        /\ \A i \in 1..Len(o) + Len(s) : (o \o s)[i] = IF i <= Len(o) THEN o[i] ELSE s[i - Len(o)]
    BY ConcatProperties
  <2> DEFINE c == o \o s
  <2>3. /\ c \in Seq(A) /\ Len(c) = 1 + Len(s)
        /\ \A i \in 1..(1 + Len(s)) : c[i] = IF i <= 1 THEN o[i] ELSE s[i - 1]
    BY <2>2, <1>6
  <2> HIDE DEF c
  <2>4. c[1] = o[1] /\ \A i \in 1..Len(s) : c[i + 1] = s[i]
    BY <2>1, <2>3
  <2>5. Len(c) = Len(s) + 1
    BY <2>1, <2>3
  <2>6. QED
    BY <2>3, <2>4, <2>5 DEF c
<1>7. /\ n \o q \in Seq(A) /\ Len(n \o q) = Len(q) + 1 /\ (n \o q)[1] = a
      /\ \A i \in 1..Len(q) : (n \o q)[i + 1] = q[i]
  BY <1>2, <1>6
<1>8. n \o q # <<>>
  BY <1>2, <1>4, ConcatEqualIffEmpty
<1>9. (n \o q) \o r = n \o (q \o r)
  BY <1>2, ConcatAssociative
<1>10. QED
  BY <1>2, <1>4, <1>5, <1>7, <1>8, <1>9

\* It is taken apart in one way only, and is no name itself.
LEMMA OnlyOneWay ==
  ASSUME NEW A, NEW n \in Names(A), NEW m \in Names(A), NEW q \in Seq(A), NEW r \in Seq(A),
         n \o q = m \o r
  PROVE  n = m /\ q = r
<1>1. PICK a \in A, b \in A : n = <<a>> /\ m = <<b>>
  BY DEF Names
<1>2. (n \o q)[1] = a
  <2>1. (n \o q)[1] = n[1]
    BY OneInFront
  <2>2. QED
    BY <1>1, <2>1
<1>3. (m \o r)[1] = b
  <2>1. (m \o r)[1] = m[1]
    BY OneInFront
  <2>2. QED
    BY <1>1, <2>1
<1>4. a = b
  BY <1>2, <1>3, Zenon
<1>5. n = m /\ n \o q = n \o r
  BY <1>1, <1>4, Zenon
<1>6. n \in Seq(A)
  BY <1>1
<1>7. q = r
  BY <1>5, <1>6, ConcatSimplifications
<1>8. QED
  BY <1>5, <1>7

LEMMA NotAName ==
  ASSUME NEW A, NEW n \in Names(A), NEW q \in Seq(A), q # <<>>
  PROVE  n \o q \notin Names(A)
<1>1. Len(n \o q) = Len(q) + 1
  BY OneInFront
<1>2. Len(q) \in Nat /\ Len(q) > 0
  BY EmptySeq
<1>3. \A m \in Names(A) : Len(m) = 1
  BY DEF Names
<1>4. Len(n \o q) # 1
  BY <1>1, <1>2
<1>5. QED
  BY <1>3, <1>4, Zenon

\* A path is its first name and the rest.
LEMMA FirstAndRest ==
  ASSUME NEW A, NEW p \in Seq(A), p # <<>>
  PROVE  /\ <<p[1]>> \in Names(A) /\ Tail(p) \in Seq(A) /\ p = <<p[1]>> \o Tail(p)
         /\ Len(p) \in Nat /\ Len(p) > 0 /\ Len(Tail(p)) = Len(p) - 1
         /\ \A i \in 1..Len(Tail(p)) : Tail(p)[i] = p[i + 1]
         /\ Tail(p) = <<>> <=> Len(p) = 1
<1>1. /\ Head(p) \in A /\ Tail(p) \in Seq(A) /\ Len(Tail(p)) = Len(p) - 1
      /\ \A i \in 1..Len(Tail(p)) : Tail(p)[i] = p[i + 1]
  BY HeadTailProperties
<1>2. Len(p) \in Nat /\ Len(p) > 0 /\ 1 \in 1..Len(p)
  BY EmptySeq, LenProperties
<1>3. p[1] \in A /\ <<p[1]>> \in Names(A)
  BY <1>2, ElementOfSeq DEF Names
<1>4. p = <<p[1]>> \o Tail(p)
  <2> DEFINE n == <<p[1]>>  t == Tail(p)  c == n \o t
  <2>1. t \in Seq(A) /\ Len(t) = Len(p) - 1 /\ \A i \in 1..Len(t) : t[i] = p[i + 1]
    BY <1>1
  <2>2. n \in Names(A) /\ n[1] = p[1]
    BY <1>3
  <2> HIDE DEF n, t
  <2>3. c \in Seq(A) /\ Len(c) = Len(t) + 1 /\ c[1] = n[1] /\ \A i \in 1..Len(t) : c[i + 1] = t[i]
    BY <2>1, <2>2, OneInFront
  <2> HIDE DEF c
  <2>4. Len(c) = Len(p) /\ \A i \in 1..Len(c) : c[i] = p[i]
    <3>1. Len(c) = Len(p)
      BY <1>2, <2>1, <2>3
    <3>2. ASSUME NEW i \in 1..Len(c)
          PROVE  c[i] = p[i]
      <4>1. CASE i = 1
        BY <4>1, <2>2, <2>3
      <4>2. CASE i # 1
        <5>1. i - 1 \in 1..Len(t) /\ (i - 1) + 1 = i
          BY <4>2, <3>1, <1>2, <2>1
        <5>2. c[(i - 1) + 1] = t[i - 1] /\ t[i - 1] = p[(i - 1) + 1]
          BY <5>1, <2>1, <2>3
        <5>3. QED
          BY <5>1, <5>2
      <4>3. QED
        BY <4>1, <4>2
    <3>3. QED
      BY <3>1, <3>2
  <2>5. c = p
    BY <2>3, <2>4, SeqEqual
  <2>6. QED
    BY <2>5 DEF c, n, t
<1>5. Tail(p) = <<>> <=> Len(p) = 1
  <2> DEFINE t == Tail(p)
  <2>1. t \in Seq(A) /\ Len(t) = Len(p) - 1
    BY <1>1
  <2> HIDE DEF t
  <2>2. t = <<>> <=> Len(t) = 0
    BY <2>1, EmptySeq
  <2>3. t = <<>> <=> Len(p) = 1
    BY <1>2, <2>1, <2>2
  <2>4. QED
    BY <2>3 DEF t
<1>6. QED
  BY <1>1, <1>2, <1>3, <1>4, <1>5

\* A tree of finite depth: at each node the names that end here and those that
\* lead to a child.
IsTree(A, S, base, kids, child, depth) ==
  \A s \in S : /\ depth[s] \in Nat
               /\ base[s] \subseteq Names(A) /\ kids[s] \subseteq Names(A)
               /\ \A n \in kids[s] : child[s][n] \in S /\ depth[child[s][n]] < depth[s]

\* What a walk of a tree finds, at any node: what is there, and what is found
\* below, with the name of the child in front.
FoundAt(p, W, s, base, kids, child) ==
  p \in base[s] \/ \E n \in kids[s] : \E q \in W[child[s][n]] : p = n \o q

Walked(W, S, base, kids, child) ==
  \A s \in S : \A p : p \in W[s] <=> FoundAt(p, W, s, base, kids, child)

\* The nodes on the way from s to the last name of p.
WayTo(p, s, way, S, base, kids, child) ==
  /\ way \in [1..Len(p) -> S] /\ way[1] = s
  /\ \A i \in 1..(Len(p) - 1) :
       <<p[i]>> \in kids[way[i]] /\ way[i + 1] = child[way[i]][<<p[i]>>]
  /\ <<p[Len(p)]>> \in base[way[Len(p)]]

LEMMA SomeWalk ==
  ASSUME NEW A, NEW S, NEW base, NEW kids, NEW child, NEW depth,
         IsTree(A, S, base, kids, child, depth)
  PROVE  \E W \in [S -> SUBSET (Seq(A) \ {<<>>})] : Walked(W, S, base, kids, child)
<1> DEFINE Found(s) == {p \in Seq(A) \ {<<>>} : \E way : WayTo(p, s, way, S, base, kids, child)}
           W == [s \in S |-> Found(s)]
<1> USE DEF IsTree
<1>1. W \in [S -> SUBSET (Seq(A) \ {<<>>})]
  OBVIOUS
<1>2. ASSUME NEW s \in S, NEW p \in base[s]
      PROVE  p \in Found(s)
  <2>1. p \in Names(A)
    BY <1>2
  <2>2. PICK a \in A : p = <<a>>
    BY <2>1 DEF Names
  <2>3. p \in Seq(A) /\ p # <<>> /\ Len(p) = 1 /\ p[1] = a
    BY <2>2
  <2>4. WayTo(p, s, [i \in 1..1 |-> s], S, base, kids, child)
    BY <2>2, <2>3 DEF WayTo
  <2>5. QED
    BY <2>3, <2>4
<1>3. ASSUME NEW s \in S, NEW n \in kids[s], NEW q \in Found(child[s][n])
      PROVE  n \o q \in Found(s)
  <2>1. n \in Names(A) /\ child[s][n] \in S /\ q \in Seq(A) /\ q # <<>>
    OBVIOUS
  <2>2. PICK a \in A : n = <<a>>
    BY <2>1 DEF Names
  <2> DEFINE p == n \o q
  <2>3. /\ p \in Seq(A) /\ p # <<>> /\ Len(p) = Len(q) + 1 /\ p[1] = a
        /\ \A i \in 1..Len(q) : p[i + 1] = q[i]
    <3>1. n[1] = a
      BY <2>2
    <3>2. QED
      BY <2>1, <3>1, OneInFront
  <2>4. Len(q) \in Nat /\ Len(q) > 0
    BY <2>1, EmptySeq
  <2>5. PICK rest : WayTo(q, child[s][n], rest, S, base, kids, child)
    OBVIOUS
  <2> DEFINE way == [i \in 1..(Len(q) + 1) |-> IF i = 1 THEN s ELSE rest[i - 1]]
  <2> HIDE DEF p
  <2>6. way \in [1..Len(p) -> S] /\ way[1] = s /\ \A i \in 1..Len(q) : way[i + 1] = rest[i]
    <3>1. /\ \A i \in 1..(Len(q) + 1) : i # 1 => i - 1 \in 1..Len(q)
          /\ \A i \in 1..Len(q) : i + 1 \in 1..(Len(q) + 1) /\ i + 1 # 1 /\ (i + 1) - 1 = i
          /\ 1 \in 1..(Len(q) + 1)
      BY <2>4
    <3>2. rest \in [1..Len(q) -> S]
      BY <2>5 DEF WayTo
    <3>3. way \in [1..(Len(q) + 1) -> S]
      BY <3>1, <3>2
    <3>4. way[1] = s /\ \A i \in 1..Len(q) : way[i + 1] = rest[i]
      BY <3>1
    <3>5. QED
      BY <2>3, <3>3, <3>4
  <2> HIDE DEF way
  <2>7. ASSUME NEW i \in 1..(Len(p) - 1)
        PROVE  <<p[i]>> \in kids[way[i]] /\ way[i + 1] = child[way[i]][<<p[i]>>]
    <3>1. i \in 1..Len(q) /\ way[i + 1] = rest[i]
      BY <2>3, <2>4, <2>6
    <3>2. CASE i = 1
      <4>1. rest[1] = child[s][n] /\ way[1] = s /\ <<p[1]>> = n
        BY <2>2, <2>3, <2>5, <2>6 DEF WayTo
      <4>2. QED
        BY <3>1, <3>2, <4>1
    <3>3. CASE i # 1
      <4>1. i - 1 \in 1..(Len(q) - 1) /\ i - 1 \in 1..Len(q) /\ (i - 1) + 1 = i
        BY <3>1, <3>3, <2>4
      <4>2. <<q[i - 1]>> \in kids[rest[i - 1]] /\ rest[(i - 1) + 1] = child[rest[i - 1]][<<q[i - 1]>>]
        BY <2>5, <4>1 DEF WayTo
      <4>3. way[(i - 1) + 1] = rest[i - 1] /\ p[(i - 1) + 1] = q[i - 1]
        BY <2>3, <2>6, <4>1
      <4>4. QED
        BY <3>1, <4>1, <4>2, <4>3
    <3>4. QED
      BY <3>2, <3>3
  <2>8. <<p[Len(p)]>> \in base[way[Len(p)]]
    <3>1. Len(q) \in 1..Len(q)
      BY <2>4
    <3>2. p[Len(p)] = q[Len(q)] /\ way[Len(p)] = rest[Len(q)]
      BY <2>3, <2>6, <3>1
    <3>3. QED
      BY <2>5, <3>2 DEF WayTo
  <2>9. WayTo(p, s, way, S, base, kids, child)
    BY <2>6, <2>7, <2>8 DEF WayTo
  <2>10. QED
    BY <2>3, <2>9 DEF p
<1>4. ASSUME NEW s \in S, NEW p \in Found(s)
      PROVE  p \in base[s] \/ \E n \in kids[s] : \E q \in Found(child[s][n]) : p = n \o q
  <2>1. PICK way : WayTo(p, s, way, S, base, kids, child)
    OBVIOUS
  <2> DEFINE q == Tail(p)  n == <<p[1]>>
  <2>2. p \in Seq(A) /\ p # <<>>
    OBVIOUS
  <2>3. /\ n \in Names(A) /\ q \in Seq(A) /\ p = n \o q
        /\ Len(p) \in Nat /\ Len(p) > 0 /\ Len(q) = Len(p) - 1
        /\ \A i \in 1..Len(q) : q[i] = p[i + 1]
        /\ q = <<>> <=> Len(p) = 1
    BY <2>2, FirstAndRest
  <2>4. CASE Len(p) = 1
    <3>1. p = n
      <4>1. q = <<>>
        BY <2>3, <2>4
      <4>2. n \o <<>> = n
        BY <2>3, OneInFront
      <4>3. QED
        BY <2>3, <4>1, <4>2
    <3>2. n \in base[way[1]] /\ way[1] = s
      BY <2>1, <2>4 DEF WayTo
    <3>3. QED
      BY <3>1, <3>2
  <2>5. CASE Len(p) # 1
    <3> DEFINE rest == [i \in 1..Len(q) |-> way[i + 1]]
    <3>1. Len(q) \in Nat /\ Len(q) > 0 /\ q # <<>>
      <4> HIDE DEF q, n
      <4>1. q # <<>> /\ Len(p) - 1 \in Nat /\ Len(p) - 1 > 0
        BY <2>3, <2>5
      <4>2. QED
        BY <2>3, <4>1
    <3>2. n \in kids[s] /\ way[2] = child[s][n]
      <4>1. 1 \in 1..(Len(p) - 1) /\ 1 + 1 = 2
        BY <2>3, <2>5
      <4>2. <<p[1]>> \in kids[way[1]] /\ way[1 + 1] = child[way[1]][<<p[1]>>] /\ way[1] = s
        BY <2>1, <4>1 DEF WayTo
      <4>3. QED
        BY <4>1, <4>2
    <3> HIDE DEF q, n
    <3>3. /\ \A i \in 1..Len(q) : i + 1 \in 1..Len(p)
          /\ \A i \in 1..(Len(q) - 1) : /\ i + 1 \in 1..(Len(p) - 1) /\ i \in 1..Len(q)
                                        /\ i + 1 \in 1..Len(q)
          /\ Len(q) \in 1..Len(q) /\ Len(q) + 1 = Len(p) /\ 1 \in 1..Len(q)
      BY <2>3, <3>1
    <3>4. way \in [1..Len(p) -> S]
      BY <2>1 DEF WayTo
    <3>5. rest \in [1..Len(q) -> S] /\ rest[1] = child[s][n]
      <4>1. rest[1] = way[1 + 1] /\ 1 + 1 = 2
        BY <3>3
      <4>2. QED
        BY <3>2, <3>3, <3>4, <4>1
    <3>6. ASSUME NEW i \in 1..(Len(q) - 1)
          PROVE  <<q[i]>> \in kids[rest[i]] /\ rest[i + 1] = child[rest[i]][<<q[i]>>]
      <4>1. rest[i] = way[i + 1] /\ rest[i + 1] = way[(i + 1) + 1] /\ q[i] = p[i + 1]
        BY <2>3, <3>3
      <4>2. <<p[i + 1]>> \in kids[way[i + 1]] /\ way[(i + 1) + 1] = child[way[i + 1]][<<p[i + 1]>>]
        BY <2>1, <3>3 DEF WayTo
      <4>3. QED
        BY <4>1, <4>2
    <3>7. <<q[Len(q)]>> \in base[rest[Len(q)]]
      <4>1. rest[Len(q)] = way[Len(p)] /\ q[Len(q)] = p[Len(p)]
        BY <2>3, <3>3
      <4>2. QED
        BY <2>1, <4>1 DEF WayTo
    <3> HIDE DEF rest
    <3>8. WayTo(q, child[s][n], rest, S, base, kids, child)
      BY <3>5, <3>6, <3>7 DEF WayTo
    <3>9. q \in Found(child[s][n])
      BY <2>3, <3>1, <3>8
    <3>10. QED
      BY <2>3, <3>2, <3>9
  <2>6. QED
    BY <2>4, <2>5
<1>5. ASSUME NEW s \in S, NEW p
      PROVE  p \in W[s] <=> p \in base[s] \/ \E n \in kids[s] : \E q \in W[child[s][n]] : p = n \o q
  <2>1. W[s] = Found(s) /\ \A n \in kids[s] : W[child[s][n]] = Found(child[s][n])
    OBVIOUS
  <2> HIDE DEF W, Found
  <2>2. p \in Found(s) => p \in base[s] \/ \E n \in kids[s] : \E q \in Found(child[s][n]) : p = n \o q
    BY <1>4
  <2>3. p \in base[s] => p \in Found(s)
    BY <1>2
  <2>4. (\E n \in kids[s] : \E q \in Found(child[s][n]) : p = n \o q) => p \in Found(s)
    BY <1>3
  <2>5. p \in Found(s) <=> p \in base[s] \/ \E n \in kids[s] : \E q \in Found(child[s][n]) : p = n \o q
    BY <2>2, <2>3, <2>4
  <2>6. QED
    BY <2>1, <2>5
<1>6. Walked(W, S, base, kids, child)
  <2> HIDE DEF W
  <2> QED
    BY <1>5 DEF Walked, FoundAt
<1>7. QED
  BY <1>1, <1>6

\* A walk that satisfies its equation ends at the bottom of the tree: it finds
\* paths, none of them empty.
LEMMA WalkFindsPaths ==
  ASSUME NEW A, NEW S, NEW base, NEW kids, NEW child, NEW depth, NEW W,
         Walked(W, S, base, kids, child), IsTree(A, S, base, kids, child, depth)
  PROVE  \A s \in S : W[s] \subseteq Seq(A) \ {<<>>}
<1> DEFINE Good(s) == W[s] \subseteq Seq(A) \ {<<>>}
           Bad == {d \in Nat : \E s \in S : depth[s] = d /\ ~Good(s)}
<1> USE DEF IsTree
<1>1. ASSUME NEW s \in S, \A n \in kids[s] : Good(child[s][n])
      PROVE  Good(s)
  <2>1. ASSUME NEW p \in base[s]
        PROVE  p \in Seq(A) \ {<<>>}
    <3>1. p \in Names(A) /\ <<>> \in Seq(A)
      BY EmptySeq
    <3>2. QED
      BY <3>1, OneInFront
  <2>2. ASSUME NEW n \in kids[s], NEW q \in W[child[s][n]]
        PROVE  n \o q \in Seq(A) \ {<<>>}
    <3>1. n \in Names(A) /\ q \in Seq(A)
      BY <1>1
    <3>2. QED
      BY <3>1, OneInFront
  <2>3. \A p \in W[s] : p \in base[s] \/ \E n \in kids[s] : \E q \in W[child[s][n]] : p = n \o q
    BY DEF Walked, FoundAt
  <2>4. QED
    BY <2>1, <2>2, <2>3
<1> HIDE DEF Good
<1>2. ASSUME NEW s \in S, ~Good(s)
      PROVE  FALSE
  <2>1. depth[s] \in Bad
    BY <1>2
  <2>2. Bad \in SUBSET Nat /\ Bad # {}
    BY <2>1
  <2>3. Min(Bad) \in Bad /\ \A d \in Bad : Min(Bad) <= d
    <3> HIDE DEF Bad
    <3> QED
      BY <2>2, MinFacts
  <2>4. PICK t \in S : depth[t] = Min(Bad) /\ ~Good(t)
    BY <2>3
  <2>5. ASSUME NEW n \in kids[t]
        PROVE  Good(child[t][n])
    <3>1. child[t][n] \in S /\ depth[child[t][n]] \in Nat /\ depth[t] \in Nat
          /\ depth[child[t][n]] < depth[t]
      OBVIOUS
    <3>2. depth[child[t][n]] \notin Bad
      <4> HIDE DEF Bad
      <4> QED
        BY <2>3, <2>4, <3>1
    <3>3. QED
      BY <3>1, <3>2
  <2>6. QED
    BY <1>1, <2>4, <2>5
<1>3. QED
  BY <1>2 DEF Good

\* One step of such a walk at every node.
WalkStep(W, S, base, kids, child) ==
  [s \in S |-> base[s] \cup UNION {{n \o p : p \in W[child[s][n]]} : n \in kids[s]}]

WalkExists(S, base, kids, child) == \E W : W = WalkStep(W, S, base, kids, child)

\* What one step finds at a node.
LEMMA WalkStepFinds ==
  ASSUME NEW S, NEW base, NEW kids, NEW child, NEW W, NEW s \in S, NEW p
  PROVE  p \in WalkStep(W, S, base, kids, child)[s] <=>
           FoundAt(p, W, s, base, kids, child)
<1> DEFINE Under(n) == {n \o q : q \in W[child[s][n]]}
           all == base[s] \cup UNION {Under(n) : n \in kids[s]}
<1>1. \A n : p \in Under(n) <=> \E q \in W[child[s][n]] : p = n \o q
  OBVIOUS
<1>2. WalkStep(W, S, base, kids, child)[s] = all
  BY DEF WalkStep
<1> HIDE DEF Under
<1>3. p \in all <=> p \in base[s] \/ \E n \in kids[s] : p \in Under(n)
  OBVIOUS
<1> HIDE DEF all
<1>4. QED
  BY <1>1, <1>2, <1>3 DEF FoundAt

\* A walk has a meaning by its recursive definition,
LEMMA WalkIsDefined ==
  ASSUME NEW A, NEW S, NEW base, NEW kids, NEW child, NEW depth,
         IsTree(A, S, base, kids, child, depth)
  PROVE  WalkExists(S, base, kids, child)
<1>1. PICK W \in [S -> SUBSET (Seq(A) \ {<<>>})] : Walked(W, S, base, kids, child)
  BY SomeWalk
<1> DEFINE V == WalkStep(W, S, base, kids, child)
<1>2. V = [s \in S |-> V[s]] /\ W = [s \in S |-> W[s]]
  BY DEF WalkStep
<1>3. ASSUME NEW s \in S
      PROVE  W[s] = V[s]
  <2>1. ASSUME NEW p
        PROVE  p \in W[s] <=> p \in V[s]
    <3>1. p \in W[s] <=> FoundAt(p, W, s, base, kids, child)
      BY <1>1, Zenon DEF Walked
    <3>2. p \in V[s] <=> FoundAt(p, W, s, base, kids, child)
      BY WalkStepFinds, Zenon
    <3>3. QED
      BY <3>1, <3>2
  <2> HIDE DEF V
  <2>2. QED
    BY <2>1
<1>4. W = V
  <2> HIDE DEF V
  <2>1. QED
    BY <1>2, <1>3
<1>5. QED
  BY <1>4 DEF WalkExists

\* and with it finds what it should.
LEMMA WalkFinds ==
  ASSUME NEW A, NEW S, NEW base, NEW kids, NEW child, NEW depth, NEW W,
         IsTree(A, S, base, kids, child, depth), W = WalkStep(W, S, base, kids, child)
  PROVE  /\ \A s \in S : W[s] \subseteq Seq(A) \ {<<>>}
         /\ \A s \in S : \A p :
              p \in W[s] <=> FoundAt(p, W, s, base, kids, child)
<1>1. ASSUME NEW s \in S, NEW p
      PROVE  p \in W[s] <=> FoundAt(p, W, s, base, kids, child)
  <2>1. p \in WalkStep(W, S, base, kids, child)[s] <=>
          FoundAt(p, W, s, base, kids, child)
    BY WalkStepFinds, Zenon
  <2>2. QED
    BY <2>1
<1>2. Walked(W, S, base, kids, child)
  BY <1>1, Zenon DEF Walked
<1>3. \A s \in S : W[s] \subseteq Seq(A) \ {<<>>}
  BY <1>2, WalkFindsPaths, Zenon
<1>4. QED
  BY <1>1, <1>3

\* A value that is replaced step by step has each of its values.
Steps(f, x, g, n) ==
  /\ f = [k \in 0..n |-> f[k]] /\ f[0] = x
  /\ \A k \in 1..n : f[k] = g[k][f[k - 1]]

LEMMA StepsExist ==
  ASSUME NEW n \in Nat, NEW X, NEW x \in X, NEW g \in [1..n -> [X -> X]]
  PROVE  \E f \in [0..n -> X] : Steps(f, x, g, n)
<1> DEFINE Reached(m) == \E f \in [0..m -> X] : Steps(f, x, g, m)
           Bad == {m \in 0..n : ~Reached(m)}
<1>1. SUFFICES ASSUME ~Reached(n) PROVE FALSE
  OBVIOUS
<1>2. Bad \in SUBSET Nat /\ n \in Bad
  BY <1>1
<1>3. Min(Bad) \in Bad /\ \A m \in Bad : Min(Bad) <= m
  <2> HIDE DEF Bad
  <2> QED
    BY <1>2, MinFacts
<1>4. PICK m \in 0..n : m = Min(Bad) /\ ~Reached(m)
  BY <1>3
<1>5. m # 0
  <2>1. PICK f : f = [k \in 0..0 |-> x]
    OBVIOUS
  <2>2. f \in [0..0 -> X] /\ Steps(f, x, g, 0)
    BY <2>1 DEF Steps
  <2>3. QED
    BY <1>4, <2>2
<1>6. Reached(m - 1)
  <2>1. m - 1 \in 0..n /\ ~(m <= m - 1)
    BY <1>5
  <2>2. m - 1 \notin Bad
    <3> HIDE DEF Bad
    <3> QED
      BY <1>3, <1>4, <2>1
  <2>3. QED
    BY <2>1, <2>2
<1>7. PICK h \in [0..(m - 1) -> X] : Steps(h, x, g, m - 1)
  BY <1>6
<1>8. PICK f : f = [k \in 0..m |-> IF k = m THEN g[m][h[m - 1]] ELSE h[k]]
  OBVIOUS
<1>9. /\ m \in 1..n /\ m - 1 \in 0..(m - 1) /\ \A k \in 0..m : k # m => k \in 0..(m - 1)
      /\ \A k \in 1..m : k \in 0..m /\ k - 1 \in 0..m /\ k - 1 # m /\ (k # m => k \in 1..(m - 1))
      /\ 0 \in 0..m /\ 0 # m
  BY <1>5
<1>10. f \in [0..m -> X]
  <2>1. g[m][h[m - 1]] \in X
    <3>1. g[m] \in [X -> X] /\ h[m - 1] \in X
      BY <1>9
    <3>2. QED
      BY <3>1
  <2>2. QED
    BY <1>8, <1>9, <2>1
<1>11. Steps(f, x, g, m)
  <2>1. f = [k \in 0..m |-> f[k]] /\ f[0] = x
    BY <1>7, <1>8, <1>9 DEF Steps
  <2>2. ASSUME NEW k \in 1..m
        PROVE  f[k] = g[k][f[k - 1]]
    <3>1. f[k - 1] = h[k - 1]
      BY <1>8, <1>9
    <3>2. CASE k = m
      BY <1>8, <1>9, <3>1, <3>2
    <3>3. CASE k # m
      <4>1. f[k] = h[k] /\ k \in 1..(m - 1)
        BY <1>8, <1>9, <3>3
      <4>2. QED
        BY <1>7, <3>1, <4>1 DEF Steps
    <3>4. QED
      BY <3>2, <3>3
  <2>3. QED
    BY <2>1, <2>2 DEF Steps
<1>12. QED
  BY <1>4, <1>10, <1>11

\* Splitting a path at its places.
LEMMA RestOfPath ==
  ASSUME NEW A, NEW p \in Seq(A), NEW k \in 0..(Len(p) - 1)
  PROVE  /\ <<p[k + 1]>> \in Names(A)
         /\ SubSeq(p, k + 2, Len(p)) \in Seq(A)
         /\ SubSeq(p, k + 1, Len(p)) = <<p[k + 1]>> \o SubSeq(p, k + 2, Len(p))
         /\ SubSeq(p, k + 2, Len(p)) = <<>> <=> k = Len(p) - 1
<1> DEFINE n == Len(p)
<1>1. n \in Nat /\ k + 1 \in 1..n /\ n \in (k + 1)..n /\ (k + 1) + 1 = k + 2
      /\ k + 2 \in Int /\ n \in Int
  BY LenProperties
<1>2. p[k + 1] \in A
  BY <1>1, ElementOfSeq
<1>3. SubSeq(p, k + 1, n) = <<p[k + 1]>> \o SubSeq(p, (k + 1) + 1, n)
  <2> DEFINE m == k + 1
  <2>1. m \in 1..n /\ n \in m..n
    BY <1>1
  <2> HIDE DEF m
  <2>2. SubSeq(p, m, n) = <<p[m]>> \o SubSeq(p, m + 1, n)
    BY <2>1, SubSeqRecursiveFirst
  <2>3. QED
    BY <2>2 DEF m
<1>4. /\ SubSeq(p, k + 2, n) \in Seq(A)
      /\ Len(SubSeq(p, k + 2, n)) = IF k + 2 <= n THEN n - (k + 2) + 1 ELSE 0
  <2> DEFINE m == k + 2
  <2>1. m \in Int /\ n \in Int /\ \A i \in m..n : p[i] \in A
    <3>1. \A i \in m..n : i \in 1..n
      BY <1>1
    <3>2. QED
      BY <1>1, <3>1, ElementOfSeq
  <2> HIDE DEF m, n
  <2>2. SubSeq(p, m, n) \in Seq(A) /\ Len(SubSeq(p, m, n)) = IF m <= n THEN n - m + 1 ELSE 0
    BY <2>1, SubSeqProperties
  <2>3. QED
    BY <2>2 DEF m
<1>5. SubSeq(p, k + 2, n) = <<>> <=> k = n - 1
  <2> DEFINE s == SubSeq(p, k + 2, n)
  <2>1. s \in Seq(A) /\ Len(s) = IF k + 2 <= n THEN n - (k + 2) + 1 ELSE 0
    BY <1>4
  <2> HIDE DEF s, n
  <2>2. s = <<>> <=> Len(s) = 0
    BY <2>1, EmptySeq
  <2>3. QED
    BY <1>1, <2>1, <2>2 DEF s
<1>6. QED
  BY <1>1, <1>2, <1>3, <1>4, <1>5 DEF Names
=============================================================================
