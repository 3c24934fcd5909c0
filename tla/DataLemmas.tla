------------------------------ MODULE DataLemmas ------------------------------
(***************************************************************************)
(* Facts about least and greatest elements, induction, folds and quotients *)
(* that the proofs of ConformTrack, TrackAnalysis and AudioPath share.     *)
(* Induction is over a set of numbers, not over a predicate: what is to be *)
(* shown of every number is what the set is made of.                       *)
(***************************************************************************)
EXTENDS Integers, FiniteSetsExt, FiniteSetTheorems, FunctionTheorems, SequenceTheorems, TLAPS

-----------------------------------------------------------------------------
\* Every nonempty set of naturals has a least element.
LEMMA NatMin ==
  ASSUME NEW T \in SUBSET Nat, T # {}
  PROVE  \E x \in T : \A y \in T : x <= y
<1> DEFINE R == {ss \in Nat \X Nat : ss[1] < ss[2]}
<1>1. IsWellFoundedOn(R, Nat)
  BY NatLessThanWellFounded DEF OpToRel
<1> HIDE DEF R
<1>2. PICK x \in T : \A y \in T : ~(<<y, x>> \in R)
  BY <1>1, WFMin
<1>3. \A y \in T : x <= y
  <2> SUFFICES ASSUME NEW y \in T, ~(x <= y) PROVE FALSE
    OBVIOUS
  <2>1. x \in Nat /\ y \in Nat /\ y < x
    OBVIOUS
  <2>2. <<y, x>> \in Nat \X Nat /\ <<y, x>>[1] < <<y, x>>[2]
    BY <2>1
  <2>3. <<y, x>> \in R
    BY <2>2 DEF R
  <2> QED BY <1>2, <2>3
<1> QED BY <1>3

\* Min of a nonempty set of naturals.
LEMMA MinOf ==
  ASSUME NEW T \in SUBSET Nat, T # {}
  PROVE  Min(T) \in T /\ \A y \in T : Min(T) <= y
<1>1. \E x \in T : \A y \in T : x <= y
  BY NatMin
<1> QED BY <1>1 DEF Min

\* Max of a nonempty bounded set of naturals.
LEMMA MaxOf ==
  ASSUME NEW T \in SUBSET Nat, NEW n \in Nat, \A t \in T : t <= n, T # {}
  PROVE  Max(T) \in T /\ \A y \in T : y <= Max(T)
<1> DEFINE U == {n - t : t \in T}
<1>1. U \in SUBSET Nat /\ U # {}
  <2>1. \A t \in T : n - t \in Nat
    <3> TAKE t \in T
    <3>1. t \in Nat /\ t <= n
      OBVIOUS
    <3> QED BY <3>1
  <2> QED BY <2>1
<1>2. PICK u \in U : \A y \in U : u <= y
  BY <1>1, NatMin
<1>3. PICK t \in T : u = n - t
  BY <1>2
<1>4. \A y \in T : y <= t
  <2> TAKE y \in T
  <2>1. n - t <= n - y
    BY <1>2, <1>3
  <2> QED BY <2>1
<1>5. \E x \in T : \A y \in T : x >= y
  BY <1>4
<1> QED BY <1>5 DEF Max

-----------------------------------------------------------------------------
\* Induction: a set that has 0, and with a number the next, has them all.
LEMMA Induction ==
  ASSUME NEW T, 0 \in T, \A n \in Nat : n \in T => n + 1 \in T
  PROVE  \A n \in Nat : n \in T
<1> DEFINE U == {n \in Nat : n \notin T}
<1> SUFFICES ASSUME U # {} PROVE FALSE
  OBVIOUS
<1>1. PICK x \in U : \A y \in U : x <= y
  BY NatMin
<1>2. x \in Nat \ {0}
  BY <1>1
<1>3. x - 1 \in Nat /\ x - 1 \notin U
  BY <1>1, <1>2
<1>4. (x - 1) + 1 \in T
  BY <1>3
<1> QED BY <1>1, <1>2, <1>4

\* The recursion of MapThenFoldSet, with functions for its operators.
Picks(pick, D) == \A s \in SUBSET D : s # {} => pick[s] \in s
IsFold(g, D, base, step, pick) ==
  \A s \in SUBSET D :
    g[s] = IF s = {} THEN base ELSE step[<<pick[s], g[s \ {pick[s]}]>>]

\* What takes one element after the other out of a finite set comes to an end: there
\* is such a function.
LEMMA FoldExists ==
  ASSUME NEW D, IsFiniteSet(D), NEW V, NEW base \in V, NEW step \in [D \X V -> V],
         NEW pick, Picks(pick, D)
  PROVE  \E g \in [SUBSET D -> V] : IsFold(g, D, base, step, pick)
<1> USE DEF Picks
<1> DEFINE Small(n) == {s \in SUBSET D : Cardinality(s) <= n}
           Solves(g, n) == \A s \in Small(n) :
             g[s] = IF s = {} THEN base ELSE step[<<pick[s], g[s \ {pick[s]}]>>]
           T == {n \in Nat : \E g \in [Small(n) -> V] : Solves(g, n)}
<1>1. \A s \in SUBSET D : IsFiniteSet(s) /\ Cardinality(s) \in Nat /\ Cardinality(s) <= Cardinality(D)
  BY FS_Subset, FS_CardinalityType
<1>2. Cardinality(D) \in Nat
  BY FS_CardinalityType
<1>3. 0 \in T
  <2>1. Small(0) = {{}}
    BY <1>1, FS_EmptySet
  <2> DEFINE g == [s \in Small(0) |-> base]
  <2>2. g \in [Small(0) -> V] /\ Solves(g, 0)
    BY <2>1
  <2> QED BY <2>2
<1>4. ASSUME NEW n \in Nat, n \in T
      PROVE  n + 1 \in T
  <2>1. PICK g \in [Small(n) -> V] : Solves(g, n)
    BY <1>4
  <2> DEFINE h == [s \in Small(n + 1) |->
                     IF s = {} THEN base ELSE step[<<pick[s], g[s \ {pick[s]}]>>]]
  <2>2. ASSUME NEW s \in Small(n + 1), s # {}
        PROVE  pick[s] \in D /\ s \ {pick[s]} \in Small(n) /\ s \ {pick[s]} \in Small(n + 1)
    <3>1. pick[s] \in s /\ s \in SUBSET D /\ Cardinality(s) <= n + 1 /\ IsFiniteSet(s)
      BY <1>1, <2>2
    <3>2. Cardinality(s \ {pick[s]}) = Cardinality(s) - 1
      BY <3>1, FS_RemoveElement
    <3>3. s \ {pick[s]} \in SUBSET D
      BY <3>1
    <3>4. Cardinality(s \ {pick[s]}) \in Nat /\ Cardinality(s) \in Nat
      BY <1>1, <3>1, <3>3
    <3> QED BY <3>1, <3>2, <3>3, <3>4
  <2>3. h \in [Small(n + 1) -> V]
    <3>1. ASSUME NEW s \in Small(n + 1)
          PROVE  (IF s = {} THEN base ELSE step[<<pick[s], g[s \ {pick[s]}]>>]) \in V
      <4>1. CASE s = {}
        BY <4>1
      <4>2. CASE s # {}
        <5>1. <<pick[s], g[s \ {pick[s]}]>> \in D \X V
          BY <2>1, <2>2, <4>2
        <5> QED BY <4>2, <5>1
      <4> QED BY <4>1, <4>2
    <3> QED BY <3>1
  <2>4. \A s \in Small(n) : s \in Small(n + 1) /\ h[s] = g[s]
    <3> TAKE s \in Small(n)
    <3>1. s \in Small(n + 1)
      BY <1>1
    <3> QED BY <2>1, <3>1
  <2>5. Solves(h, n + 1)
    <3> SUFFICES ASSUME NEW s \in Small(n + 1), s # {}
                 PROVE  h[s] = step[<<pick[s], h[s \ {pick[s]}]>>]
      <4>1. {} \in Small(n + 1) => h[{}] = base
        OBVIOUS
      <4> QED BY <4>1
    <3>1. h[s \ {pick[s]}] = g[s \ {pick[s]}]
      BY <2>2, <2>4
    <3> QED BY <3>1
  <2> HIDE DEF h, Small, Solves
  <2>6. \E f \in [Small(n + 1) -> V] : Solves(f, n + 1)
    BY <2>3, <2>5
  <2>7. n + 1 \in Nat
    OBVIOUS
  <2> QED BY <2>6, <2>7
<1> HIDE DEF T
<1>5. Cardinality(D) \in T
  BY <1>2, <1>3, <1>4, Induction
<1> USE DEF T
<1>6. Small(Cardinality(D)) = SUBSET D
  BY <1>1
<1> QED BY <1>5, <1>6 DEF IsFold

\* Induction over the subsets of a finite set: what is to be shown of each is what C
\* is made of.
LEMMA SubsetInduction ==
  ASSUME NEW S, IsFiniteSet(S), NEW C, {} \in C,
         \A t \in SUBSET S : t # {} /\ (\A x \in t : t \ {x} \in C) => t \in C
  PROVE  \A t \in SUBSET S : t \in C
<1> DEFINE T == {n \in Nat : \A t \in SUBSET S : Cardinality(t) = n => t \in C}
<1>1. \A t \in SUBSET S : IsFiniteSet(t) /\ Cardinality(t) \in Nat
  BY FS_Subset, FS_CardinalityType
<1>2. 0 \in T
  BY <1>1, FS_EmptySet
<1>3. ASSUME NEW n \in Nat, n \in T
      PROVE  n + 1 \in T
  <2> SUFFICES ASSUME NEW t \in SUBSET S, Cardinality(t) = n + 1
               PROVE  t \in C
    OBVIOUS
  <2>1. t # {}
    BY <1>1, FS_EmptySet
  <2>2. ASSUME NEW x \in t
        PROVE  t \ {x} \in C
    <3>1. Cardinality(t \ {x}) = (n + 1) - 1
      BY <1>1, FS_RemoveElement
    <3>2. t \ {x} \in SUBSET S /\ (n + 1) - 1 = n
      OBVIOUS
    <3> QED BY <1>3, <3>1, <3>2
  <2> QED BY <2>1, <2>2
<1> HIDE DEF T
<1>4. \A n \in Nat : n \in T
  BY <1>2, <1>3, Induction
<1> QED BY <1>1, <1>4 DEF T

\* A sequence is folded front to back: the last index is taken last.
LEMMA UpTo ==
  ASSUME NEW n \in Nat
  PROVE  /\ IsFiniteSet(1 .. n)
         /\ \A T \in SUBSET (1 .. n) : T # {} => Max(T) \in T
         /\ \A k \in 1 .. n : /\ Max(1 .. k) = k /\ (1 .. k) \ {k} = 1 .. k - 1
                              /\ 1 .. k \in SUBSET (1 .. n) /\ 1 .. k # {}
<1>1. IsFiniteSet(1 .. n)
  BY FS_Interval
<1>2. ASSUME NEW T \in SUBSET (1 .. n), T # {}
      PROVE  Max(T) \in T
  <2>1. T \in SUBSET Nat /\ \A t \in T : t <= n
    OBVIOUS
  <2> QED BY <1>2, <2>1, MaxOf
<1>3. ASSUME NEW k \in 1 .. n
      PROVE  /\ Max(1 .. k) = k /\ (1 .. k) \ {k} = 1 .. k - 1
             /\ 1 .. k \in SUBSET (1 .. n) /\ 1 .. k # {}
  <2>1. k \in 1 .. k /\ 1 .. k \in SUBSET (1 .. n)
    OBVIOUS
  <2>2. Max(1 .. k) \in 1 .. k /\ \A y \in 1 .. k : y <= Max(1 .. k)
    <3>1. 1 .. k \in SUBSET Nat /\ (\A t \in 1 .. k : t <= n) /\ 1 .. k # {}
      BY <2>1
    <3> QED BY <3>1, MaxOf
  <2>3. Max(1 .. k) = k
    BY <2>1, <2>2
  <2> QED BY <2>1, <2>3
<1> QED BY <1>1, <1>2, <1>3

\* The recursion of FoldLeft, with a function for its operator.
IsSeqFold(g, n, base, step) ==
  \A t \in SUBSET (1 .. n) :
    g[t] = IF t = {} THEN base ELSE step[<<Max(t), g[t \ {Max(t)}]>>]

LEMMA SeqFold ==
  ASSUME NEW n \in Nat, NEW V, NEW base \in V, NEW step \in [(1 .. n) \X V -> V]
  PROVE  \E g \in [SUBSET (1 .. n) -> V] : IsSeqFold(g, n, base, step)
<1> DEFINE D == 1 .. n
           pick == [t \in SUBSET D |-> Max(t)]
<1>1. IsFiniteSet(D) /\ Picks(pick, D)
  BY UpTo DEF Picks
<1>2. \A t \in SUBSET D : pick[t] = Max(t)
  OBVIOUS
<1> HIDE DEF D, pick
<1>3. step \in [D \X V -> V]
  BY DEF D
<1>4. PICK g \in [SUBSET D -> V] : IsFold(g, D, base, step, pick)
  BY <1>1, <1>3, FoldExists
<1>5. \A t \in SUBSET D :
        g[t] = IF t = {} THEN base ELSE step[<<Max(t), g[t \ {Max(t)}]>>]
  BY <1>2, <1>4 DEF IsFold
<1> QED BY <1>4, <1>5 DEF D, IsSeqFold

\* A function on 1 .. n is a sequence of that length.
LEMMA FunSeq ==
  ASSUME NEW n \in Nat, NEW S, NEW g \in [1 .. n -> S]
  PROVE  g \in Seq(S) /\ Len(g) = n
<1>1. g \in Seq(S)
  BY SeqDef
<1>2. Len(g) \in Nat /\ DOMAIN g = 1 .. Len(g)
  BY <1>1, LenProperties
<1>3. 1 .. Len(g) = 1 .. n
  BY <1>2
<1>4. Len(g) = n
  <2>1. n >= 1 => n \in 1 .. Len(g)
    BY <1>3
  <2>2. Len(g) >= 1 => Len(g) \in 1 .. n
    BY <1>2, <1>3
  <2> QED BY <1>2, <2>1, <2>2
<1> QED BY <1>1, <1>4

-----------------------------------------------------------------------------
\* Min and Max of two numbers.
LEMMA Pair ==
  ASSUME NEW a \in Int, NEW c \in Int
  PROVE /\ Max({a, c}) = IF a >= c THEN a ELSE c
        /\ Min({a, c}) = IF a <= c THEN a ELSE c
<1>1. Max({a, c}) = IF a >= c THEN a ELSE c
  BY DEF Max
<1>2. Min({a, c}) = IF a <= c THEN a ELSE c
  BY DEF Min
<1> QED BY <1>1, <1>2

\* A conversion rounds down.
LEMMA DivNat ==
  ASSUME NEW x \in Nat, NEW m \in Nat, NEW d \in Nat \ {0}
  PROVE  /\ (x * m) \div d \in Nat
         /\ d * ((x * m) \div d) <= x * m
<1>1. x * m \in Nat
  OBVIOUS
<1> QED BY <1>1

\* A positive factor cancels.
LEMMA Cancel ==
  ASSUME NEW x \in Nat, NEW y \in Nat, NEW d \in Nat \ {0}, d * x <= d * y
  PROVE  x <= y
<1> SUFFICES ASSUME x >= y + 1 PROVE FALSE
  OBVIOUS
<1>1. x - y - 1 \in Nat
  OBVIOUS
<1>2. d * (x - y - 1) >= 0
  BY <1>1
<1>3. d * (x - y - 1) = d * x - d * y - d
  OBVIOUS
<1> QED BY <1>2, <1>3

\* A factor keeps an order.
LEMMA Grow ==
  ASSUME NEW x \in Nat, NEW y \in Nat, NEW m \in Nat, x <= y
  PROVE  x * m <= y * m
<1>1. y - x \in Nat
  OBVIOUS
<1>2. (y - x) * m >= 0
  BY <1>1
<1>3. (y - x) * m = y * m - x * m
  OBVIOUS
<1> QED BY <1>2, <1>3

\* Quotient and remainder.
LEMMA Euclid ==
  ASSUME NEW n \in Nat, NEW d \in Nat \ {0}
  PROVE  /\ n \div d \in Nat /\ n % d \in 0 .. d - 1 /\ (n \div d) * d \in Nat
         /\ n = (n \div d) * d + (n % d)
<1> DEFINE q == n \div d
<1>1. q \in Nat /\ n % d \in 0 .. d - 1 /\ n = q * d + (n % d)
  OBVIOUS
<1>2. q * d \in Nat
  <2> HIDE DEF q
  <2> QED BY <1>1
<1> QED BY <1>1, <1>2

LEMMA EuclidUnique ==
  ASSUME NEW n \in Nat, NEW d \in Nat \ {0}, NEW q \in Nat, NEW r \in 0 .. d - 1,
         n = q * d + r
  PROVE  n \div d = q /\ n % d = r
<1> DEFINE p == n \div d
           m == n % d
<1>1. p \in Nat /\ m \in 0 .. d - 1 /\ n = p * d + m
  BY Euclid
<1> HIDE DEF p, m
<1>2. ~(p >= q + 1)
  <2> SUFFICES ASSUME p >= q + 1 PROVE FALSE
    OBVIOUS
  <2>1. p - q - 1 \in Nat
    BY <1>1
  <2>2. (p - q - 1) * d >= 0
    BY <2>1
  <2>3. (p - q - 1) * d = p * d - q * d - d
    BY <1>1
  <2> QED BY <1>1, <2>2, <2>3
<1>3. ~(q >= p + 1)
  <2> SUFFICES ASSUME q >= p + 1 PROVE FALSE
    OBVIOUS
  <2>1. q - p - 1 \in Nat
    BY <1>1
  <2>2. (q - p - 1) * d >= 0
    BY <2>1
  <2>3. (q - p - 1) * d = q * d - p * d - d
    BY <1>1
  <2> QED BY <1>1, <2>2, <2>3
<1>4. p = q
  BY <1>1, <1>2, <1>3
<1>5. m = r
  BY <1>1, <1>4
<1> QED BY <1>4, <1>5 DEF p, m
=============================================================================
