-------------------------- MODULE ConformTrack_proofs --------------------------
(***************************************************************************)
(* Proofs about ConformTrack, for every rate, policy, block size and       *)
(* source: types, that the detector does not see blocks, that the trimmed  *)
(* window lies inside the file and keeps the music, that the gain is safe, *)
(* and, for rates of a frame or two to the millisecond, that the dry run   *)
(* is right and the silence is gone.                                       *)
(*                                                                         *)
(* Then about TrackAnalysis, for all lengths, gates and shares: it is      *)
(* ConformTrack with a listener, the meter does not see blocks either, and *)
(* what it measures is in range.                                           *)
(***************************************************************************)
EXTENDS TrackAnalysis, DataLemmas

-----------------------------------------------------------------------------
(* Milliseconds. *)

\* Frames to milliseconds and back again never gains a frame.
LEMMA RoundTrip ==
  ASSUME NEW n \in Nat, NEW ms \in Nat, ms <= ToMs(n)
  PROVE  FromMs(ms) \in Nat /\ FromMs(ms) <= n
<1> USE ConformAssumption DEF ToMs, FromMs
<1>1. ToMs(n) \in Nat /\ Rate * ToMs(n) <= n * Second
  BY DivNat
<1>2. FromMs(ms) \in Nat /\ Second * FromMs(ms) <= ms * Rate
  BY DivNat
<1>3. ms * Rate <= ToMs(n) * Rate
  BY <1>1, Grow DEF ToMs
<1>4. Second * FromMs(ms) <= Second * n
  <2> HIDE DEF ToMs, FromMs
  <2> QED BY <1>1, <1>2, <1>3
<1> QED
  <2> HIDE DEF ToMs, FromMs
  <2> QED BY <1>2, <1>4, Cancel

-----------------------------------------------------------------------------
(* The detector. *)

ShiftBy(n, T) == {n + t : t \in T}

LEMMA LoudBounds ==
  ASSUME NEW b \in Seq(Frames)
  PROVE  /\ LoudIn(b) \subseteq 0 .. Len(b) - 1
         /\ LoudIn(b) \in SUBSET Nat
         /\ QuietIn(b) \subseteq LoudIn(b)
         /\ IsFiniteSet(QuietIn(b))
         /\ Cardinality(QuietIn(b)) \in 0 .. Len(b)
<1>1. Len(b) \in Nat
  BY LenProperties
<1>2. LoudIn(b) \subseteq 0 .. Len(b) - 1 /\ QuietIn(b) \subseteq LoudIn(b)
  BY DEF LoudIn, QuietIn
<1>3. IsFiniteSet(0 .. Len(b) - 1) /\ Cardinality(0 .. Len(b) - 1) = Len(b)
  <2>1. Len(b) - 1 \in Int /\ (0 > Len(b) - 1 <=> Len(b) = 0) /\ Len(b) - 1 - 0 + 1 = Len(b)
    BY <1>1
  <2>2. /\ IsFiniteSet(0 .. Len(b) - 1)
        /\ Cardinality(0 .. Len(b) - 1) = IF 0 > Len(b) - 1 THEN 0 ELSE Len(b) - 1 - 0 + 1
    BY <2>1, FS_Interval
  <2> QED BY <2>1, <2>2
<1>4. QuietIn(b) \in SUBSET (0 .. Len(b) - 1)
  BY <1>2
<1>5. IsFiniteSet(QuietIn(b)) /\ Cardinality(QuietIn(b)) <= Len(b)
  BY <1>3, <1>4, FS_Subset
<1>6. Cardinality(QuietIn(b)) \in Nat
  BY <1>5, FS_CardinalityType
<1>7. LoudIn(b) \in SUBSET Nat
  BY <1>1, <1>2
<1> QED BY <1>1, <1>2, <1>5, <1>6, <1>7

\* Appending a block appends its loud frames, and its quiet ones.
LEMMA LoudAppend ==
  ASSUME NEW f \in Seq(Frames), NEW b \in Seq(Frames)
  PROVE  /\ LoudIn(f \o b) = LoudIn(f) \cup ShiftBy(Len(f), LoudIn(b))
         /\ QuietIn(f \o b) = QuietIn(f) \cup ShiftBy(Len(f), QuietIn(b))
<1> DEFINE n == Len(f)
           m == Len(b)
<1>1. n \in Nat /\ m \in Nat /\ Len(f \o b) = n + m
  BY LenProperties, ConcatProperties
<1>2. \A i \in 0 .. n - 1 : (f \o b)[i + 1] = f[i + 1]
  <2> TAKE i \in 0 .. n - 1
  <2>1. i + 1 \in 1 .. n + m /\ i + 1 <= n
    BY <1>1
  <2> QED BY <2>1, ConcatProperties
<1>3. \A i \in 0 .. m - 1 : (f \o b)[n + i + 1] = b[i + 1]
  <2> TAKE i \in 0 .. m - 1
  <2>1. n + i + 1 \in 1 .. n + m /\ ~(n + i + 1 <= n) /\ n + i + 1 - n = i + 1
    BY <1>1
  <2> QED BY <2>1, ConcatProperties
<1>4. \A i \in 0 .. n + m - 1 : i \notin 0 .. n - 1 => i - n \in 0 .. m - 1 /\ i = n + (i - n)
  BY <1>1
<1>5. \A i \in 0 .. m - 1 : n + i \in 0 .. n + m - 1
  BY <1>1
<1>6. 0 .. n - 1 \subseteq 0 .. n + m - 1
  BY <1>1
<1> HIDE DEF n, m
<1>7. /\ Len(f) = n /\ Len(b) = m
  BY DEF n, m
<1>8. LoudIn(f \o b) = LoudIn(f) \cup ShiftBy(n, LoudIn(b))
  <2>1. LoudIn(f \o b) = {i \in 0 .. n + m - 1 : Loud((f \o b)[i + 1])}
    BY <1>1 DEF LoudIn
  <2>2. LoudIn(f) = {i \in 0 .. n - 1 : Loud(f[i + 1])} /\ LoudIn(b) = {i \in 0 .. m - 1 : Loud(b[i + 1])}
    BY <1>7 DEF LoudIn
  <2>3. ASSUME NEW i \in LoudIn(f \o b)
        PROVE  i \in LoudIn(f) \cup ShiftBy(n, LoudIn(b))
    <3>1. CASE i \in 0 .. n - 1
      BY <3>1, <2>1, <2>2, <1>2
    <3>2. CASE i \notin 0 .. n - 1
      <4>1. i - n \in 0 .. m - 1 /\ i = n + (i - n)
        BY <3>2, <2>1, <1>4
      <4>2. (f \o b)[n + (i - n) + 1] = b[(i - n) + 1]
        BY <4>1, <1>3
      <4>3. Loud(b[(i - n) + 1])
        BY <4>1, <4>2, <2>1
      <4>4. i - n \in LoudIn(b)
        BY <4>1, <4>3, <2>2
      <4> QED BY <4>1, <4>4 DEF ShiftBy
    <3> QED BY <3>1, <3>2
  <2>4. LoudIn(f) \subseteq LoudIn(f \o b)
    BY <2>1, <2>2, <1>2, <1>6
  <2>5. ASSUME NEW i \in LoudIn(b)
        PROVE  n + i \in LoudIn(f \o b)
    <3>1. i \in 0 .. m - 1 /\ Loud(b[i + 1])
      BY <2>2
    <3>2. n + i \in 0 .. n + m - 1 /\ (f \o b)[n + i + 1] = b[i + 1]
      BY <3>1, <1>3, <1>5
    <3> QED BY <3>1, <3>2, <2>1
  <2> QED BY <2>3, <2>4, <2>5 DEF ShiftBy
<1>9. QuietIn(f \o b) = QuietIn(f) \cup ShiftBy(n, QuietIn(b))
  <2>1. \A i \in LoudIn(f) : (f \o b)[i + 1] = f[i + 1]
    BY <1>2, <1>7 DEF LoudIn
  <2>2. \A i \in LoudIn(b) : (f \o b)[n + i + 1] = b[i + 1]
    BY <1>3, <1>7 DEF LoudIn
  <2> QED BY <2>1, <2>2, <1>8 DEF QuietIn, ShiftBy
<1> QED BY <1>7, <1>8, <1>9

\* So their number grows by the block's.
LEMMA QuietCount ==
  ASSUME NEW f \in Seq(Frames), NEW b \in Seq(Frames)
  PROVE  Cardinality(QuietIn(f \o b)) = Cardinality(QuietIn(f)) + Cardinality(QuietIn(b))
<1> DEFINE Q == QuietIn(b)
           n == Len(f)
           S == ShiftBy(n, Q)
           g == [i \in Q |-> n + i]
<1>1. n \in Nat /\ Q \subseteq Nat /\ IsFiniteSet(Q)
  BY LenProperties, LoudBounds
<1>2. g \in Bijection(Q, S)
  <2>1. g \in [Q -> S]
    BY DEF ShiftBy
  <2>2. \A i, j \in Q : g[i] = g[j] => i = j
    BY <1>1
  <2>3. \A t \in S : \E i \in Q : g[i] = t
    BY DEF ShiftBy
  <2> QED BY <2>1, <2>2, <2>3, Fun_IsBij
<1>3. ExistsBijection(Q, S)
  BY <1>2, Fun_ExistsBij
<1>4. IsFiniteSet(S) /\ Cardinality(S) = Cardinality(Q)
  BY <1>1, <1>3, FS_Bijection
<1>5. IsFiniteSet(QuietIn(f)) /\ QuietIn(f) \subseteq 0 .. n - 1
  BY LoudBounds
<1>6. QuietIn(f) \cap S = {}
  BY <1>1, <1>5 DEF ShiftBy
<1>7. Cardinality(QuietIn(f)) \in Nat /\ Cardinality(Q) \in Nat
  BY <1>1, <1>5, FS_CardinalityType
<1>8. Cardinality(QuietIn(f) \cup S) = Cardinality(QuietIn(f)) + Cardinality(S) - Cardinality({})
  BY <1>4, <1>5, <1>6, FS_Union
<1>9. Cardinality({}) = 0
  BY FS_EmptySet
<1>10. QuietIn(f \o b) = QuietIn(f) \cup S
  BY LoudAppend
<1> QED BY <1>4, <1>7, <1>8, <1>9, <1>10

\* A least, or greatest, element is the Min, or Max.
LEMMA Extreme ==
  ASSUME NEW T \in SUBSET Nat, NEW x \in T
  PROVE  /\ (\A y \in T : x <= y) => Min(T) = x
         /\ (\A y \in T : y <= x) => Max(T) = x
<1>1. ASSUME \A y \in T : x <= y
      PROVE  Min(T) = x
  <2>1. Min(T) \in T /\ \A y \in T : Min(T) <= y
    BY <1>1, MinOf
  <2>2. Min(T) <= x /\ x <= Min(T)
    BY <2>1, <1>1
  <2>3. Min(T) \in Nat /\ x \in Nat
    BY <2>1
  <2> QED BY <2>2, <2>3
<1>2. ASSUME \A y \in T : y <= x
      PROVE  Max(T) = x
  <2>1. Max(T) \in T /\ \A y \in T : y <= Max(T)
    BY <1>2, MaxOf
  <2>2. Max(T) <= x /\ x <= Max(T)
    BY <2>1, <1>2
  <2>3. Max(T) \in Nat /\ x \in Nat
    BY <2>1
  <2> QED BY <2>2, <2>3
<1> QED BY <1>1, <1>2

\* The extremes of a set followed by a shifted one.
LEMMA ExtremeOfUnion ==
  ASSUME NEW n \in Nat, NEW A \in SUBSET Nat, NEW B \in SUBSET Nat, B # {},
         \A a \in A : a < n, \E m \in Nat : \A b \in B : b <= m
  PROVE  /\ Max(A \cup ShiftBy(n, B)) = n + Max(B)
         /\ Min(A \cup ShiftBy(n, B)) = IF A = {} THEN n + Min(B) ELSE Min(A)
<1> DEFINE U == A \cup ShiftBy(n, B)
<1>0. /\ \A a \in A : a \in Nat /\ a < n
      /\ \A b \in B : b \in Nat /\ n + b \in Nat
  <2>1. \A b \in B : b \in Nat
    OBVIOUS
  <2>2. \A a \in A : a \in Nat /\ a < n
    OBVIOUS
  <2>3. \A b \in B : n + b \in Nat
    BY <2>1
  <2> QED BY <2>1, <2>2, <2>3
<1>1. U \in SUBSET Nat
  BY <1>0 DEF ShiftBy
<1>2. \A u \in U : u \in A \/ \E b \in B : u = n + b
  BY DEF ShiftBy
<1>3. A \subseteq U /\ \A b \in B : n + b \in U
  BY DEF ShiftBy
<1> HIDE DEF U
<1>4. Max(B) \in B /\ Max(B) \in Nat /\ \A b \in B : b <= Max(B)
  <2>1. Max(B) \in B /\ \A b \in B : b <= Max(B)
    <3> PICK m \in Nat : \A b \in B : b <= m
      OBVIOUS
    <3> QED BY MaxOf
  <2> QED BY <2>1, <1>0
<1>5. Min(B) \in B /\ Min(B) \in Nat /\ \A b \in B : Min(B) <= b
  <2>1. Min(B) \in B /\ \A b \in B : Min(B) <= b
    BY MinOf
  <2> QED BY <2>1, <1>0
<1>6. Max(U) = n + Max(B)
  <2>1. n + Max(B) \in U
    BY <1>3, <1>4
  <2>2. \A u \in U : u <= n + Max(B)
    <3> TAKE u \in U
    <3>1. CASE u \in A
      <4>1. u \in Nat /\ u < n
        BY <3>1, <1>0
      <4> QED BY <4>1, <1>4
    <3>2. CASE \E b \in B : u = n + b
      <4>1. PICK b \in B : u = n + b
        BY <3>2
      <4>2. b \in Nat /\ b <= Max(B)
        BY <1>0, <1>4
      <4> QED BY <4>1, <4>2, <1>4
    <3> QED BY <3>1, <3>2, <1>2
  <2> QED BY <1>1, <2>1, <2>2, Extreme
<1>7. CASE A = {}
  <2>1. n + Min(B) \in U
    BY <1>3, <1>5
  <2>2. \A u \in U : n + Min(B) <= u
    <3> TAKE u \in U
    <3>1. PICK b \in B : u = n + b
      BY <1>2, <1>7
    <3>2. b \in Nat /\ Min(B) <= b
      BY <1>0, <1>5
    <3> QED BY <3>1, <3>2, <1>5
  <2>3. Min(U) = n + Min(B)
    BY <1>1, <2>1, <2>2, Extreme
  <2> QED BY <2>3, <1>6, <1>7 DEF U
<1>8. CASE A # {}
  <2>1. Min(A) \in A /\ \A a \in A : Min(A) <= a
    BY <1>8, MinOf
  <2>2. \A u \in U : Min(A) <= u
    <3> TAKE u \in U
    <3>1. CASE u \in A
      BY <3>1, <2>1
    <3>2. CASE \E b \in B : u = n + b
      <4>1. PICK b \in B : u = n + b
        BY <3>2
      <4>2. b \in Nat /\ Min(A) \in Nat /\ Min(A) < n
        BY <1>0, <2>1
      <4> QED BY <4>1, <4>2
    <3> QED BY <3>1, <3>2, <1>2
  <2>3. Min(A) \in U
    BY <2>1, <1>3
  <2>4. Min(U) = Min(A)
    BY <1>1, <2>2, <2>3, Extreme
  <2> QED BY <2>4, <1>6, <1>8 DEF U
<1> QED BY <1>7, <1>8

LEMMA LoudExtremes ==
  ASSUME NEW f \in Seq(Frames), NEW b \in Seq(Frames), LoudIn(b) # {}
  PROVE  /\ Max(LoudIn(f) \cup ShiftBy(Len(f), LoudIn(b))) = Len(f) + Max(LoudIn(b))
         /\ Min(LoudIn(f) \cup ShiftBy(Len(f), LoudIn(b)))
              = IF LoudIn(f) = {} THEN Len(f) + Min(LoudIn(b)) ELSE Min(LoudIn(f))
<1>1. Len(f) \in Nat /\ Len(b) \in Nat
  BY LenProperties
<1>2. /\ LoudIn(f) \subseteq 0 .. Len(f) - 1 /\ LoudIn(f) \in SUBSET Nat
      /\ LoudIn(b) \subseteq 0 .. Len(b) - 1 /\ LoudIn(b) \in SUBSET Nat
  BY LoudBounds
<1>3. (\A i \in LoudIn(f) : i < Len(f)) /\ (\A i \in LoudIn(b) : i <= Len(b))
  BY <1>1, <1>2
<1> DEFINE n == Len(f)
           A == LoudIn(f)
           B == LoudIn(b)
<1>4. /\ n \in Nat /\ A \in SUBSET Nat /\ B \in SUBSET Nat /\ B # {}
      /\ (\A a \in A : a < n) /\ \E m \in Nat : \A i \in B : i <= m
  BY <1>1, <1>2, <1>3
<1> HIDE DEF n, A, B
<1>5. /\ Max(A \cup ShiftBy(n, B)) = n + Max(B)
      /\ Min(A \cup ShiftBy(n, B)) = IF A = {} THEN n + Min(B) ELSE Min(A)
  BY <1>4, ExtremeOfUnion
<1> QED BY <1>5 DEF n, A, B

\* What the detector should know of the frames f.
Knows(f, total, quiet, first, last) ==
  /\ total = Len(f)
  /\ quiet = Cardinality(QuietIn(f))
  /\ IF LoudIn(f) = {} THEN first = -1 /\ last = -1
     ELSE first = Min(LoudIn(f)) /\ last = Max(LoudIn(f))

Detected == Knows(file, totalFrames, quietFrames, firstLoud, lastLoud)

LEMMA KnowsBounds ==
  ASSUME NEW f \in Seq(Frames), NEW total, NEW quiet, NEW first, NEW last,
         Knows(f, total, quiet, first, last)
  PROVE  /\ total \in Nat /\ quiet \in 0 .. total
         /\ first \in -1 .. last /\ last \in -1 .. total - 1
         /\ first < 0 <=> LoudIn(f) = {}
         /\ \A i \in LoudIn(f) : first <= i /\ i <= last
<1> USE DEF Knows
<1>1. Len(f) \in Nat
  BY LenProperties
<1>2. /\ LoudIn(f) \subseteq 0 .. Len(f) - 1 /\ LoudIn(f) \in SUBSET Nat
      /\ Cardinality(QuietIn(f)) \in 0 .. Len(f)
  BY LoudBounds
<1>3. CASE LoudIn(f) = {}
  BY <1>1, <1>2, <1>3
<1>4. CASE LoudIn(f) # {}
  <2>1. \A i \in LoudIn(f) : i <= Len(f)
    BY <1>1, <1>2
  <2>2. first \in LoudIn(f) /\ \A i \in LoudIn(f) : first <= i
    BY <1>2, <1>4, MinOf
  <2>3. last \in LoudIn(f) /\ \A i \in LoudIn(f) : i <= last
    BY <1>1, <1>2, <1>4, <2>1, MaxOf
  <2> HIDE DEF Knows
  <2>4. first \in 0 .. Len(f) - 1 /\ last \in 0 .. Len(f) - 1
    BY <1>2, <2>2, <2>3
  <2>5. first <= last
    BY <2>2, <2>3
  <2> QED BY <1>1, <1>2, <1>4, <2>2, <2>3, <2>4, <2>5 DEF Knows
<1> QED BY <1>3, <1>4

\* One more block.
LEMMA DetectedStep ==
  ASSUME file \in Seq(Frames), NEW b \in Seq(Frames), Detected,
         file' = file \o b, ProcessBlock(b)
  PROVE  file' \in Seq(Frames) /\ Detected'
<1> DEFINE n == Len(file)
           A == LoudIn(file)
           B == LoudIn(b)
<1>1. n \in Nat /\ Len(b) \in Nat /\ Len(file \o b) = n + Len(b) /\ file \o b \in Seq(Frames)
  BY LenProperties, ConcatProperties
<1>2. A \subseteq 0 .. n - 1 /\ A \in SUBSET Nat /\ B \subseteq 0 .. Len(b) - 1 /\ B \in SUBSET Nat
  BY LoudBounds
<1>3. LoudIn(file') = A \cup ShiftBy(n, B)
  BY LoudAppend
<1>4. totalFrames' = Len(file')
  BY <1>1 DEF ProcessBlock, Detected, Knows
<1>5. quietFrames' = Cardinality(QuietIn(file'))
  BY QuietCount DEF ProcessBlock, Detected, Knows
<1>6. firstLoud < 0 <=> A = {}
  BY KnowsBounds DEF Detected
<1>7. CASE B = {}
  <2>1. LoudIn(file') = A
    BY <1>3, <1>7 DEF ShiftBy
  <2>2. firstLoud' = firstLoud /\ lastLoud' = lastLoud
    BY <1>7 DEF ProcessBlock
  <2> QED BY <1>1, <1>4, <1>5, <2>1, <2>2 DEF Detected, Knows
<1>8. CASE B # {}
  <2>2. /\ Max(A \cup ShiftBy(n, B)) = n + Max(B)
        /\ Min(A \cup ShiftBy(n, B)) = IF A = {} THEN n + Min(B) ELSE Min(A)
    BY <1>8, LoudExtremes
  <2>3. firstLoud' = (IF A = {} THEN n + Min(B) ELSE Min(A)) /\ lastLoud' = n + Max(B)
    BY <1>6, <1>8 DEF ProcessBlock, Detected, Knows
  <2>4. LoudIn(file') # {}
    BY <1>3, <1>8 DEF ShiftBy
  <2> QED BY <1>1, <1>3, <1>4, <1>5, <2>2, <2>3, <2>4 DEF Detected, Knows
<1> QED BY <1>7, <1>8

-----------------------------------------------------------------------------
(* Trimming. *)

\* Snapping moves an index by at most a window, and not out of the file.
LEMMA SnapBounds ==
  ASSUME NEW b \in Seq(Frames), NEW idx \in 0 .. Len(b)
  PROVE  /\ SnapToZeroCrossing(b, idx) \in 0 .. Len(b)
         /\ SnapToZeroCrossing(b, idx) >= idx - SnapWindow
         /\ SnapToZeroCrossing(b, idx) <= idx + SnapWindow
<1> DEFINE lo == Max({0, idx - SnapWindow})
           hi == Min({Len(b), idx + SnapWindow + 1})
           near == lo .. hi - 1
           quietest == {i \in near : \A j \in near : b[i + 1].sum <= b[j + 1].sum}
<1>1. Len(b) \in Nat /\ idx \in Nat
  BY LenProperties
<1>2. SnapWindow \in Nat
  BY ConformAssumption DEF SnapWindow
<1>3. lo = IF 0 >= idx - SnapWindow THEN 0 ELSE idx - SnapWindow
  BY <1>1, <1>2, Pair
<1>4. hi = IF Len(b) <= idx + SnapWindow + 1 THEN Len(b) ELSE idx + SnapWindow + 1
  <2>1. Len(b) \in Int /\ idx + SnapWindow + 1 \in Int
    BY <1>1, <1>2
  <2> QED BY <2>1, Pair, Zenon
<1>5. \A i \in near : i \in 0 .. Len(b) - 1 /\ i >= idx - SnapWindow /\ i <= idx + SnapWindow
  BY <1>1, <1>2, <1>3, <1>4
<1>6. SnapToZeroCrossing(b, idx) = IF near = {} THEN idx ELSE Min(quietest)
  BY DEF SnapToZeroCrossing
<1> HIDE DEF lo, hi
<1>7. CASE near = {}
  BY <1>1, <1>2, <1>6, <1>7
<1>8. CASE near # {}
  <2> DEFINE sums == {b[i + 1].sum : i \in near}
  <2>1. \A i \in near : b[i + 1].sum \in Nat
    <3> TAKE i \in near
    <3>1. i + 1 \in 1 .. Len(b)
      BY <1>1, <1>5
    <3>2. b[i + 1] \in Frames
      BY <3>1, ElementOfSeq
    <3> QED BY <3>2, ConformAssumption
  <2>2. sums \in SUBSET Nat /\ sums # {}
    BY <1>8, <2>1
  <2>3. PICK s \in sums : \A t \in sums : s <= t
    <3> HIDE DEF sums
    <3> QED BY <2>2, NatMin
  <2>4. PICK i \in near : s = b[i + 1].sum
    BY <2>3
  <2>5. i \in quietest
    BY <2>3, <2>4
  <2>6. quietest \in SUBSET Nat
    BY <1>5
  <2>7. Min(quietest) \in quietest
    <3> HIDE DEF quietest
    <3> QED BY <2>5, <2>6, MinOf
  <2>8. Min(quietest) \in near
    BY <2>7
  <2>9. SnapToZeroCrossing(b, idx) \in near
    BY <1>6, <1>8, <2>8
  <2> HIDE DEF near
  <2> QED BY <1>1, <1>5, <2>9
<1> QED BY <1>7, <1>8

\* Where the output starts and ends, for any trim counts.
LEMMA StartBounds ==
  ASSUME NEW b \in Seq(Frames), NEW frames \in Nat
  PROVE  /\ Start(b, frames) \in 0 .. Len(b)
         /\ Start(b, frames) <= frames + SnapWindow
         /\ frames <= Len(b) => Start(b, frames) >= frames - SnapWindow
<1> DEFINE idx == Min({frames, Len(b)})
<1>1. Len(b) \in Nat
  BY LenProperties
<1>2. idx = IF frames <= Len(b) THEN frames ELSE Len(b)
  <2>1. Len(b) \in Int /\ frames \in Int
    BY <1>1
  <2> QED BY <2>1, Pair, Zenon
<1>3. idx \in 0 .. Len(b) /\ idx <= frames /\ (frames <= Len(b) => idx = frames)
  BY <1>1, <1>2
<1>4. SnapWindow \in Nat
  BY ConformAssumption DEF SnapWindow
<1>5. Start(b, frames) = SnapToZeroCrossing(b, idx)
  BY DEF Start
<1> HIDE DEF idx
<1>6. /\ Start(b, frames) \in 0 .. Len(b)
      /\ Start(b, frames) <= idx + SnapWindow /\ Start(b, frames) >= idx - SnapWindow
  BY <1>3, <1>5, SnapBounds
<1> QED BY <1>1, <1>3, <1>4, <1>6

LEMMA StopBounds ==
  ASSUME NEW b \in Seq(Frames), NEW frames \in Nat, NEW start \in 0 .. Len(b)
  PROVE  /\ Stop(b, start, frames) \in start .. Len(b)
         /\ Stop(b, start, frames) >= Len(b) - frames - SnapWindow
         /\ \/ Stop(b, start, frames) <= Len(b) - frames + SnapWindow
            \/ Stop(b, start, frames) = start
<1> DEFINE cut == Min({frames, Len(b) - start})
           lastKeep == Len(b) - cut
           snapped == SnapToZeroCrossing(b, lastKeep)
<1>1. Len(b) \in Nat /\ start \in Nat /\ start <= Len(b)
  BY LenProperties
<1>2. SnapWindow \in Nat
  BY ConformAssumption DEF SnapWindow
<1>3. cut = IF frames <= Len(b) - start THEN frames ELSE Len(b) - start
  <2>1. Len(b) - start \in Int /\ frames \in Int
    BY <1>1
  <2> QED BY <2>1, Pair, Zenon
<1>4. /\ lastKeep \in 0 .. Len(b) /\ lastKeep >= Len(b) - frames /\ lastKeep >= start
      /\ lastKeep > start => lastKeep = Len(b) - frames
  BY <1>1, <1>3
<1>5. Stop(b, start, frames) = IF lastKeep > start THEN Max({start, snapped}) ELSE start
  BY DEF Stop
<1> HIDE DEF lastKeep
<1>6. /\ snapped \in 0 .. Len(b)
      /\ snapped >= lastKeep - SnapWindow /\ snapped <= lastKeep + SnapWindow
  BY <1>4, SnapBounds
<1> HIDE DEF snapped
<1>7. Max({start, snapped}) = IF start >= snapped THEN start ELSE snapped
  BY <1>1, <1>6, Pair
<1> QED BY <1>1, <1>2, <1>4, <1>5, <1>6, <1>7

\* trimSilence stays within the file, whatever it is asked to trim.
LEMMA WindowBounds ==
  ASSUME NEW b \in Seq(Frames), FromMs(change.lead) \in Nat, FromMs(change.tail) \in Nat
  PROVE  /\ Window(b) \in Nat \X Nat
         /\ 0 <= Window(b)[1] /\ Window(b)[1] <= Window(b)[2] /\ Window(b)[2] <= Len(b)
         /\ \/ Window(b) = <<0, Len(b)>>
            \/ /\ Window(b)[1] <= FromMs(change.lead) + SnapWindow
               /\ Window(b)[2] >= Len(b) - FromMs(change.tail) - SnapWindow
<1> DEFINE start == Start(b, FromMs(change.lead))
           stop == Stop(b, start, FromMs(change.tail))
<1>1. Len(b) \in Nat
  BY LenProperties
<1>2. start \in 0 .. Len(b) /\ start <= FromMs(change.lead) + SnapWindow
  BY StartBounds
<1>3. Window(b) = IF b = <<>> \/ ~change.trimmed THEN <<0, Len(b)>> ELSE <<start, stop>>
  BY DEF Window
<1> HIDE DEF start
<1>4. stop \in start .. Len(b) /\ stop >= Len(b) - FromMs(change.tail) - SnapWindow
  BY <1>2, StopBounds
<1> HIDE DEF stop
<1> QED BY <1>1, <1>2, <1>3, <1>4

\* A window is some number of frames.
LEMMA SnapWindowType == SnapWindow \in Nat
BY ConformAssumption DEF SnapWindow

\* Two ends, each moved by no more than w.
LEMMA MovedEnds ==
  ASSUME NEW n \in Nat, NEW l \in Nat, NEW t \in Nat, NEW w \in Nat, l + t <= n,
         NEW start \in 0 .. n, start <= l + w, start >= l - w,
         NEW stop \in start .. n, stop >= n - t - w,
         stop <= n - t + w \/ stop = start
  PROVE  /\ stop - start \in Nat
         /\ stop - start >= n - l - t - 2 * w
         /\ stop - start <= n - l - t + 2 * w
OBVIOUS

\* What is left is what was to be left, but for the two snaps.
LEMMA WindowLength ==
  ASSUME NEW b \in Seq(Frames), change.trimmed,
         FromMs(change.lead) \in Nat, FromMs(change.tail) \in Nat,
         FromMs(change.lead) + FromMs(change.tail) <= Len(b)
  PROVE  LET left == Len(b) - FromMs(change.lead) - FromMs(change.tail)
             length == Window(b)[2] - Window(b)[1]
         IN  /\ length \in Nat
             /\ length >= left - 2 * SnapWindow /\ length <= left + 2 * SnapWindow
<1> DEFINE l == FromMs(change.lead)
           t == FromMs(change.tail)
           start == Start(b, l)
           stop == Stop(b, start, t)
<1>1. Len(b) \in Nat
  BY LenProperties
<1>2. l \in Nat /\ t \in Nat /\ l + t <= Len(b)
  OBVIOUS
<1>3. Window(b) = IF b = <<>> THEN <<0, Len(b)>> ELSE <<start, stop>>
  BY DEF Window
<1> HIDE DEF l, t
<1>4. start \in 0 .. Len(b) /\ start <= l + SnapWindow /\ start >= l - SnapWindow
  <2>1. l <= Len(b)
    BY <1>1, <1>2
  <2> QED BY <1>2, <2>1, StartBounds
<1> HIDE DEF start
<1>5. /\ stop \in start .. Len(b) /\ stop >= Len(b) - t - SnapWindow
      /\ stop <= Len(b) - t + SnapWindow \/ stop = start
  BY <1>2, <1>4, StopBounds
<1> HIDE DEF stop
<1>6. CASE b = <<>>
  <2>1. Len(b) = 0
    BY <1>6
  <2>2. Window(b)[2] - Window(b)[1] = 0
    BY <1>3, <1>6, <2>1
  <2>3. Len(b) - l - t = 0
    BY <1>2, <2>1
  <2> QED BY <2>2, <2>3, SnapWindowType DEF l, t
<1>7. CASE b # <<>>
  <2>1. Window(b)[2] - Window(b)[1] = stop - start
    BY <1>3, <1>7
  <2>2. /\ stop - start \in Nat
        /\ stop - start >= Len(b) - l - t - 2 * SnapWindow
        /\ stop - start <= Len(b) - l - t + 2 * SnapWindow
    BY <1>1, <1>2, <1>4, <1>5, SnapWindowType, MovedEnds
  <2> QED BY <2>1, <2>2 DEF l, t
<1> QED BY <1>6, <1>7

-----------------------------------------------------------------------------
(* Planning. *)

LEMMA GainBounds ==
  ASSUME analysis.lufs \in Int, analysis.truePeak \in Int
  PROVE  /\ Gain \in Int
         /\ analysis.truePeak + Gain <= Ceiling
         /\ Gain > 0 => analysis.lufs + Gain <= Target
         /\ Gain < 0 => analysis.lufs > Target \/ analysis.truePeak > Ceiling
<1> DEFINE want == Target - analysis.lufs
           capped == Min({Clamp, want})
<1>1. want \in Int /\ Clamp \in Int /\ -Clamp \in Int /\ Clamp >= 0 /\ Ceiling \in Int /\ Target \in Int
  BY ConformAssumption
<1>2. capped = IF Clamp <= want THEN Clamp ELSE want
  <2> HIDE DEF want
  <2> QED BY <1>1, Pair, Zenon
<1>3. Wanted = IF -Clamp >= capped THEN -Clamp ELSE capped
  <2>1. capped \in Int
    BY <1>1, <1>2
  <2>2. Wanted = Max({-Clamp, capped})
    BY DEF Wanted
  <2> HIDE DEF capped
  <2> QED BY <1>1, <2>1, <2>2, Pair, Zenon
<1> HIDE DEF capped
<1>4. /\ Wanted \in Int
      /\ Wanted > 0 => analysis.lufs + Wanted <= Target
      /\ Wanted < 0 => analysis.lufs > Target
  BY <1>1, <1>2, <1>3
<1> QED BY <1>1, <1>4 DEF Gain, Limits

LEMMA TrimLeadBounds ==
  ASSUME analysis.lead \in Nat
  PROVE  TrimLead \in Nat /\ TrimLead <= analysis.lead
<1>1. LeadIn \in Nat /\ 0 \in Int /\ analysis.lead - LeadIn \in Int
  BY ConformAssumption
<1>2. TrimLead = IF 0 >= analysis.lead - LeadIn THEN 0 ELSE analysis.lead - LeadIn
  <2> HIDE DEF TrimLead
  <2>1. TrimLead = Max({0, analysis.lead - LeadIn})
    BY DEF TrimLead
  <2> QED BY <1>1, <2>1, Pair, Zenon
<1> QED BY <1>1, <1>2

LEMMA PlannedType ==
  ASSUME NEW trims \in BOOLEAN,
         analysis.ms \in Nat, analysis.lead \in Nat, analysis.trail \in Nat
  PROVE  Planned(trims) \in Nat
<1> DEFINE left == analysis.ms - (IF trims THEN TrimLead + analysis.trail ELSE 0)
<1>1. left \in Int /\ 0 \in Int
  BY TrimLeadBounds
<1>2. Planned(trims) = Max({0, left})
  BY DEF Planned
<1> HIDE DEF left
<1>3. Planned(trims) = IF 0 >= left THEN 0 ELSE left
  BY <1>1, <1>2, Pair, Zenon
<1> QED BY <1>1, <1>3

LEMMA ToMsType ==
  ASSUME NEW n \in Nat
  PROVE  ToMs(n) \in Nat
BY ConformAssumption, DivNat DEF ToMs

LEMMA FromMsType ==
  ASSUME NEW ms \in Nat
  PROVE  FromMs(ms) \in Nat
BY ConformAssumption, DivNat DEF FromMs

\* Both conversions round down, and by less than one.
LEMMA ToMsBounds ==
  ASSUME NEW n \in Nat
  PROVE  /\ ToMs(n) \in Nat
         /\ Rate * ToMs(n) <= n * Second /\ n * Second < Rate * ToMs(n) + Rate
<1>1. n * Second \in Nat /\ Rate \in Nat \ {0}
  BY ConformAssumption
<1>2. ASSUME NEW x \in Nat, NEW d \in Nat \ {0}
      PROVE  x \div d \in Nat /\ d * (x \div d) <= x /\ x < d * (x \div d) + d
  OBVIOUS
<1> QED BY <1>1, <1>2 DEF ToMs

LEMMA FromMsBounds ==
  ASSUME NEW ms \in Nat
  PROVE  /\ FromMs(ms) \in Nat
         /\ FromMs(ms) * Second <= ms * Rate /\ ms * Rate < FromMs(ms) * Second + Second
<1>1. ms * Rate \in Nat /\ Second \in Nat \ {0}
  BY ConformAssumption
<1>2. ASSUME NEW x \in Nat, NEW d \in Nat \ {0}
      PROVE  x \div d \in Nat /\ (x \div d) * d <= x /\ x < (x \div d) * d + d
  OBVIOUS
<1> QED BY <1>1, <1>2 DEF FromMs

\* Two parts of a track are no longer than the track.
LEMMA ToMsAdds ==
  ASSUME NEW n \in Nat, NEW m \in Nat, NEW k \in Nat, n + m <= k
  PROVE  ToMs(n) + ToMs(m) <= ToMs(k)
<1> DEFINE N == ToMs(n)
           M == ToMs(m)
           K == ToMs(k)
<1>1. Rate \in Nat \ {0} /\ Second \in Nat \ {0}
  BY ConformAssumption
<1>2. /\ N \in Nat /\ Rate * N <= n * Second
      /\ M \in Nat /\ Rate * M <= m * Second
      /\ K \in Nat /\ k * Second < Rate * K + Rate
  BY ToMsBounds
<1> HIDE DEF N, M, K
<1>3. (n + m) * Second <= k * Second /\ (n + m) * Second = n * Second + m * Second
  BY <1>1, Grow
<1>4. n * Second \in Nat /\ m * Second \in Nat /\ k * Second \in Nat
  BY <1>1
<1>5. Rate * (N + M) = Rate * N + Rate * M /\ Rate * (K + 1) = Rate * K + Rate
  BY <1>1, <1>2
<1>6. ASSUME N + M >= K + 1 PROVE FALSE
  <2>1. (K + 1) * Rate <= (N + M) * Rate
    BY <1>1, <1>2, <1>6, Grow
  <2>2. (K + 1) * Rate = Rate * (K + 1) /\ (N + M) * Rate = Rate * (N + M)
    BY <1>1, <1>2
  <2>3. Rate * N \in Nat /\ Rate * M \in Nat /\ Rate * K \in Nat
    BY <1>1, <1>2
  <2> QED BY <1>1, <1>2, <1>3, <1>4, <1>5, <2>1, <2>2, <2>3
<1> QED BY <1>2, <1>6 DEF N, M, K

\* A millisecond's frames, and one more.
LEMMA SnapBound ==
  /\ SnapWindow \in Nat /\ SnapWindow * Second <= Rate
  /\ ToMs(SnapWindow + 1) \in Nat /\ ToMs(SnapWindow + 1) >= 1
<1>1. Rate \in Nat \ {0} /\ Second \in Nat \ {0}
  BY ConformAssumption
<1>2. /\ SnapWindow \in Nat /\ SnapWindow * Second <= Rate
      /\ Rate < SnapWindow * Second + Second
  BY <1>1 DEF SnapWindow
<1>3. /\ ToMs(SnapWindow + 1) \in Nat
      /\ (SnapWindow + 1) * Second < Rate * ToMs(SnapWindow + 1) + Rate
  BY <1>2, ToMsBounds
<1>4. (SnapWindow + 1) * Second = SnapWindow * Second + Second
  BY <1>1, <1>2
<1>5. ASSUME ToMs(SnapWindow + 1) = 0 PROVE FALSE
  <2>1. Rate * ToMs(SnapWindow + 1) = 0
    BY <1>1, <1>5
  <2>2. SnapWindow * Second \in Nat
    BY <1>1, <1>2
  <2> QED BY <1>1, <1>2, <1>3, <1>4, <2>1, <2>2
<1> QED BY <1>2, <1>3, <1>5

\* Rounding twice and snapping twice move a duration by less than four milliseconds,
\* if a millisecond has at least two frames.
LEMMA DurationBounds ==
  ASSUME 2 * Second <= Rate,
         NEW n \in Nat, NEW lead \in Nat, NEW tail \in Nat, lead + tail <= ToMs(n),
         NEW a \in Nat,
         a >= n - FromMs(lead) - FromMs(tail) - 2 * SnapWindow,
         a <= n - FromMs(lead) - FromMs(tail) + 2 * SnapWindow
  PROVE  ToMs(a) - (ToMs(n) - lead - tail) \in -3 .. 3
<1> DEFINE l == FromMs(lead)
           t == FromMs(tail)
           T == ToMs(n)
           A == ToMs(a)
           w == SnapWindow
<1>1. Rate \in Nat \ {0} /\ Second \in Nat \ {0}
  BY ConformAssumption
<1>2. w \in Nat /\ w * Second <= Rate
  BY SnapBound
<1>3. /\ l \in Nat /\ l * Second <= lead * Rate /\ lead * Rate < l * Second + Second
      /\ t \in Nat /\ t * Second <= tail * Rate /\ tail * Rate < t * Second + Second
  BY FromMsBounds
<1>4. /\ T \in Nat /\ Rate * T <= n * Second /\ n * Second < Rate * T + Rate
      /\ A \in Nat /\ Rate * A <= a * Second /\ a * Second < Rate * A + Rate
  BY ToMsBounds
<1>5. a + l + t + 2 * w >= n /\ a + l + t <= n + 2 * w /\ lead + tail <= T
  BY <1>2, <1>3
<1> HIDE DEF l, t, T, A, w
<1>6. /\ (a + l + t + 2 * w) * Second >= n * Second
      /\ (a + l + t) * Second <= (n + 2 * w) * Second
  BY <1>1, <1>2, <1>3, <1>5, Grow
<1>7. /\ (a + l + t + 2 * w) * Second = a * Second + l * Second + t * Second + 2 * (w * Second)
      /\ (a + l + t) * Second = a * Second + l * Second + t * Second
      /\ (n + 2 * w) * Second = n * Second + 2 * (w * Second)
  BY <1>1, <1>2, <1>3
<1>8. /\ a * Second \in Nat /\ l * Second \in Nat /\ t * Second \in Nat
      /\ n * Second \in Nat /\ w * Second \in Nat /\ Rate * T \in Nat /\ Rate * A \in Nat
      /\ lead * Rate \in Nat /\ tail * Rate \in Nat
  BY <1>1, <1>2, <1>3, <1>4
<1>9. /\ Rate * A + lead * Rate + tail * Rate < Rate * T + 4 * Rate
      /\ Rate * T < Rate * A + lead * Rate + tail * Rate + 4 * Rate
  BY <1>1, <1>2, <1>3, <1>4, <1>6, <1>7, <1>8
<1>10. /\ Rate * (A + lead + tail) = Rate * A + lead * Rate + tail * Rate
       /\ Rate * (T + 4) = Rate * T + 4 * Rate
       /\ Rate * (A + lead + tail + 4) = Rate * A + lead * Rate + tail * Rate + 4 * Rate
  BY <1>1, <1>4
<1>11. A + lead + tail < T + 4 /\ T < A + lead + tail + 4
  <2>1. ASSUME A + lead + tail >= T + 4 PROVE FALSE
    BY <1>1, <1>4, <1>8, <1>9, <1>10, <2>1, Grow
  <2>2. ASSUME T >= A + lead + tail + 4 PROVE FALSE
    BY <1>1, <1>4, <1>8, <1>9, <1>10, <2>2, Grow
  <2> QED BY <1>4, <2>1, <2>2
<1>12. A - (T - lead - tail) \in -3 .. 3
  BY <1>4, <1>11
<1> QED BY <1>12 DEF T, A

-----------------------------------------------------------------------------
(* The invariant. *)

\* Nothing is planned before the analysis is over, nor is the source replaced.
PhaseInv == pc \in {"analyze", "plan"} => ~stale /\ change = NoChange

\* The analysis never claims more silence than there is.
SilenceInv ==
  pc # "analyze" /\ firstLoud >= 0 =>
    /\ analysis.lead <= ToMs(firstLoud)
    /\ analysis.trail <= ToMs(totalFrames - 1 - lastLoud)

\* And no more is trimmed.
ChangeInv == change.lead <= analysis.lead /\ change.tail <= analysis.trail

Inv ==
  /\ TypeOK
  /\ DetectionIgnoresBlocks
  /\ PhaseInv
  /\ SilenceInv
  /\ ChangeInv
  /\ GainIsSafe
  /\ WindowInsideFile
  /\ MusicSurvives

LEMMA InvInit == Init => Inv
<1> SUFFICES ASSUME Init PROVE Inv
  OBVIOUS
<1> USE DEF Init
<1>1. /\ <<>> \in Seq(Frames) /\ LoudIn(<<>>) = {} /\ QuietIn(<<>>) = {} /\ Len(<<>>) = 0
  <2>1. <<>> \in Seq(Frames) /\ Len(<<>>) = 0
    BY EmptySeq
  <2>2. 0 .. 0 - 1 = {}
    OBVIOUS
  <2>3. LoudIn(<<>>) = {}
    BY <2>1, <2>2 DEF LoudIn
  <2> QED BY <2>1, <2>3 DEF QuietIn
<1>2. Cardinality({}) = 0
  BY FS_EmptySet
<1>3. TypeOK
  <2>1. /\ analysis \in [lead : Nat, trail : Nat, ambiguous : BOOLEAN, lufs : Int,
                        truePeak : Int, ms : Nat]
        /\ change \in [trimmed : BOOLEAN, lead : Nat, tail : Nat, gain : Int,
                      limited : BOOLEAN, ms : Nat, passthrough : BOOLEAN]
    BY DEF NoAnalysis, NoChange
  <2>2. totalFrames \in Nat /\ quietFrames \in 0 .. totalFrames
    OBVIOUS
  <2>3. lastLoud \in -1 .. totalFrames - 1 /\ firstLoud \in -1 .. lastLoud
    OBVIOUS
  <2>4. window \in Nat \X Nat
    OBVIOUS
  <2>5. pc \in {"analyze", "plan", "process", "done"} /\ stale \in BOOLEAN /\ applyTrim \in BOOLEAN
    OBVIOUS
  <2>6. file \in Seq(Frames) /\ out \in Seq(Frames)
    BY <1>1
  <2> QED BY <2>1, <2>2, <2>3, <2>4, <2>5, <2>6 DEF TypeOK
<1>4. DetectionIgnoresBlocks
  BY <1>1, <1>2 DEF DetectionIgnoresBlocks
<1>5. PhaseInv /\ SilenceInv /\ WindowInsideFile /\ MusicSurvives
  BY DEF PhaseInv, SilenceInv, WindowInsideFile, MusicSurvives
<1>6. ChangeInv /\ GainIsSafe
  BY DEF ChangeInv, GainIsSafe, NoAnalysis, NoChange
<1> QED BY <1>3, <1>4, <1>5, <1>6 DEF Inv

\* A block of frames is a sequence of them.
LEMMA BlockStep ==
  ASSUME Inv, NEW n \in Nat, Block(n)
  PROVE  Inv'
<1>1. PICK b \in [1 .. n -> Frames] : file' = file \o b /\ ProcessBlock(b)
  BY DEF Block
<1>2. b \in Seq(Frames)
  BY SeqDef
<1>3. file \in Seq(Frames) /\ ~stale /\ Detected
  BY DEF Inv, TypeOK, PhaseInv, DetectionIgnoresBlocks, Detected, Knows, Block
<1>4. file' \in Seq(Frames) /\ Detected'
  BY <1>1, <1>2, <1>3, DetectedStep
<1>5. /\ totalFrames' \in Nat /\ quietFrames' \in 0 .. totalFrames'
      /\ firstLoud' \in -1 .. lastLoud' /\ lastLoud' \in -1 .. totalFrames' - 1
  BY <1>4, KnowsBounds DEF Detected
<1>6. TypeOK'
  BY <1>4, <1>5 DEF Inv, TypeOK, Block
<1>7. DetectionIgnoresBlocks'
  BY <1>4 DEF Detected, Knows, DetectionIgnoresBlocks
<1>8. PhaseInv' /\ SilenceInv' /\ WindowInsideFile' /\ MusicSurvives'
  BY DEF Inv, PhaseInv, SilenceInv, WindowInsideFile, MusicSurvives, Block
<1>9. ChangeInv' /\ GainIsSafe'
  BY DEF Inv, ChangeInv, GainIsSafe, Block
<1> QED BY <1>6, <1>7, <1>8, <1>9 DEF Inv

LEMMA FinalizeStep == Inv /\ Finalize => Inv'
<1> SUFFICES ASSUME Inv, Finalize PROVE Inv'
  OBVIOUS
<1>1. PICK m \in Measures : analysis' = Silence(m)
  BY DEF Finalize
<1>2. m.lufs \in Int /\ m.truePeak \in Int
  BY ConformAssumption
<1>3. /\ totalFrames \in Nat /\ quietFrames \in 0 .. totalFrames
      /\ firstLoud \in -1 .. lastLoud /\ lastLoud \in -1 .. totalFrames - 1
  BY DEF Inv, TypeOK
<1>4. ToMs(totalFrames) \in Nat
  BY <1>3, ToMsType
<1>5. firstLoud >= 0 =>
        /\ ToMs(firstLoud) \in Nat
        /\ ToMs(totalFrames - 1 - lastLoud) \in Nat
  <2> SUFFICES ASSUME firstLoud >= 0
               PROVE  ToMs(firstLoud) \in Nat /\ ToMs(totalFrames - 1 - lastLoud) \in Nat
    OBVIOUS
  <2>1. firstLoud \in Nat /\ totalFrames - 1 - lastLoud \in Nat
    BY <1>3
  <2> QED BY <2>1, ToMsType
<1>6. \A ms \in Nat : Gate(ms) \in Nat /\ Gate(ms) <= ms
  BY ConformAssumption DEF Gate
<1> HIDE DEF ToMs, Gate
<1>7. /\ analysis' \in [lead : Nat, trail : Nat, ambiguous : BOOLEAN, lufs : Int,
                       truePeak : Int, ms : Nat]
      /\ firstLoud >= 0 => /\ analysis'.lead <= ToMs(firstLoud)
                           /\ analysis'.trail <= ToMs(totalFrames - 1 - lastLoud)
  <2>1. CASE firstLoud < 0
    BY <1>1, <1>2, <1>3, <1>4, <2>1 DEF Silence
  <2>2. CASE firstLoud >= 0
    BY <1>1, <1>2, <1>3, <1>4, <1>5, <1>6, <2>2 DEF Silence
  <2> QED BY <1>3, <2>1, <2>2
<1>8. TypeOK' /\ DetectionIgnoresBlocks'
  BY <1>7 DEF Inv, TypeOK, DetectionIgnoresBlocks, Finalize, detector
<1>9. PhaseInv' /\ WindowInsideFile' /\ MusicSurvives'
  BY DEF Inv, PhaseInv, WindowInsideFile, MusicSurvives, Finalize
<1>10. SilenceInv'
  BY <1>7 DEF SilenceInv, Finalize, detector
<1>11. change = NoChange /\ change' = change
  BY DEF Inv, PhaseInv, Finalize
<1>12. ChangeInv' /\ GainIsSafe'
  BY <1>7, <1>11 DEF ChangeInv, GainIsSafe, NoChange
<1> QED BY <1>8, <1>9, <1>10, <1>12 DEF Inv

LEMMA PlanStep ==
  ASSUME Inv, NEW trim \in BOOLEAN, NEW normalize \in BOOLEAN, NEW conforming \in BOOLEAN,
         Plan(trim, normalize, conforming)
  PROVE  Inv'
<1> DEFINE trims == trim /\ Trims
           gain == IF normalize /\ Normalizes /\ (Gain > Tiny \/ Gain < -Tiny) THEN Gain ELSE 0
<1>1. /\ analysis.lead \in Nat /\ analysis.trail \in Nat /\ analysis.ms \in Nat
      /\ analysis.lufs \in Int /\ analysis.truePeak \in Int /\ analysis.ambiguous \in BOOLEAN
  BY DEF Inv, TypeOK
<1>2. TrimLead \in Nat /\ TrimLead <= analysis.lead
  BY <1>1, TrimLeadBounds
<1>3. trims \in BOOLEAN
  BY DEF Trims
<1>4. Planned(trims) \in Nat
  <2> HIDE DEF trims
  <2> QED BY <1>1, <1>3, PlannedType
<1>5. /\ gain \in Int
      /\ gain # 0 => /\ analysis.truePeak + gain <= Ceiling
                     /\ gain > 0 => analysis.lufs + gain <= Target
                     /\ gain < 0 => analysis.lufs > Target \/ analysis.truePeak > Ceiling
  BY <1>1, GainBounds
<1>6. /\ change'.lead = (IF trims THEN TrimLead ELSE 0)
      /\ change'.tail = (IF trims THEN analysis.trail ELSE 0)
      /\ change'.gain = gain
      /\ change' \in [trimmed : BOOLEAN, lead : Nat, tail : Nat, gain : Int,
                      limited : BOOLEAN, ms : Nat, passthrough : BOOLEAN]
  BY <1>1, <1>2, <1>3, <1>4, <1>5 DEF Plan
<1> HIDE DEF trims, gain
<1>7. /\ pc' = "process" /\ pc = "plan"
      /\ UNCHANGED <<file, stale, detector, analysis, window, out>>
      /\ applyTrim' \in BOOLEAN
  BY DEF Plan
<1>8. TypeOK' /\ DetectionIgnoresBlocks'
  BY <1>6, <1>7 DEF Inv, TypeOK, DetectionIgnoresBlocks, detector
<1>9. PhaseInv' /\ SilenceInv' /\ WindowInsideFile' /\ MusicSurvives'
  BY <1>7 DEF Inv, PhaseInv, SilenceInv, WindowInsideFile, MusicSurvives, detector
<1>10. ChangeInv'
  BY <1>1, <1>2, <1>6, <1>7 DEF ChangeInv
<1>11. GainIsSafe'
  BY <1>5, <1>6, <1>7 DEF GainIsSafe
<1> QED BY <1>8, <1>9, <1>10, <1>11 DEF Inv

LEMMA ReplaceStep ==
  ASSUME Inv, NEW n \in Nat, Replace(n)
  PROVE  Inv'
<1>1. file' = SubSeq(file, 1, n) /\ n < Len(file) /\ file \in Seq(Frames) /\ Len(file) \in Nat
  BY LenProperties DEF Inv, TypeOK, Replace
<1>2. file' \in Seq(Frames)
  <2>1. \A i \in 1 .. n : file[i] \in Frames
    <3> TAKE i \in 1 .. n
    <3>1. i \in 1 .. Len(file)
      BY <1>1
    <3> QED BY <1>1, <3>1, ElementOfSeq
  <2> QED BY <1>1, <2>1, SubSeqProperties
<1>3. TypeOK'
  BY <1>2 DEF Inv, TypeOK, Replace, detector
<1>4. DetectionIgnoresBlocks' /\ PhaseInv' /\ WindowInsideFile' /\ MusicSurvives'
  BY DEF DetectionIgnoresBlocks, PhaseInv, WindowInsideFile, MusicSurvives, Replace
<1>5. SilenceInv' /\ ChangeInv' /\ GainIsSafe'
  BY DEF Inv, SilenceInv, ChangeInv, GainIsSafe, Replace, detector
<1> QED BY <1>3, <1>4, <1>5 DEF Inv

\* What the window cuts of the music lies within a millisecond of its ends.
LEMMA MusicStep ==
  ASSUME Inv, pc = "process", ~stale, NEW i \in LoudIn(file),
         i < Window(file)[1] \/ i >= Window(file)[2]
  PROVE  i < firstLoud + SnapWindow \/ i > lastLoud - SnapWindow
<1>1. file \in Seq(Frames) /\ change.lead \in Nat /\ change.tail \in Nat /\ Len(file) \in Nat
  BY LenProperties DEF Inv, TypeOK
<1>2. Detected
  BY DEF Inv, DetectionIgnoresBlocks, Detected, Knows
<1>3. /\ totalFrames = Len(file) /\ firstLoud \in -1 .. lastLoud /\ lastLoud \in -1 .. totalFrames - 1
      /\ firstLoud >= 0
  <2>1. /\ totalFrames \in Nat /\ firstLoud \in -1 .. lastLoud /\ lastLoud \in -1 .. totalFrames - 1
        /\ firstLoud < 0 <=> LoudIn(file) = {}
    BY <1>1, <1>2, KnowsBounds DEF Detected
  <2> QED BY <1>2, <2>1 DEF Detected, Knows
<1>4. i \in 0 .. Len(file) - 1
  BY <1>1, LoudBounds
<1>5. /\ FromMs(change.lead) \in Nat /\ FromMs(change.lead) <= firstLoud
      /\ FromMs(change.tail) \in Nat /\ FromMs(change.tail) <= totalFrames - 1 - lastLoud
  <2>1. firstLoud \in Nat /\ totalFrames - 1 - lastLoud \in Nat
    BY <1>1, <1>3
  <2>2. /\ change.lead <= analysis.lead /\ analysis.lead <= ToMs(firstLoud)
        /\ change.tail <= analysis.trail /\ analysis.trail <= ToMs(totalFrames - 1 - lastLoud)
        /\ analysis.lead \in Nat /\ analysis.trail \in Nat
    BY <1>3 DEF Inv, TypeOK, ChangeInv, SilenceInv
  <2>3. ToMs(firstLoud) \in Nat /\ ToMs(totalFrames - 1 - lastLoud) \in Nat
    BY <2>1, ToMsType
  <2>4. change.lead <= ToMs(firstLoud) /\ change.tail <= ToMs(totalFrames - 1 - lastLoud)
    <3> HIDE DEF ToMs
    <3> QED BY <1>1, <2>2, <2>3
  <2> QED BY <1>1, <2>1, <2>4, RoundTrip
<1>6. SnapWindow \in Nat
  BY ConformAssumption DEF SnapWindow
<1>7. /\ Window(file) \in Nat \X Nat
      /\ \/ Window(file) = <<0, Len(file)>>
         \/ /\ Window(file)[1] <= FromMs(change.lead) + SnapWindow
            /\ Window(file)[2] >= Len(file) - FromMs(change.tail) - SnapWindow
  BY <1>1, <1>5, WindowBounds
<1> DEFINE w1 == Window(file)[1]
           w2 == Window(file)[2]
           lead == FromMs(change.lead)
           tail == FromMs(change.tail)
<1>8. /\ w1 \in Nat /\ w2 \in Nat
      /\ \/ w1 = 0 /\ w2 = Len(file)
         \/ w1 <= lead + SnapWindow /\ w2 >= Len(file) - tail - SnapWindow
  BY <1>7
<1>9. i < w1 \/ i >= w2
  OBVIOUS
<1>10. lead \in Nat /\ lead <= firstLoud /\ tail \in Nat /\ tail <= totalFrames - 1 - lastLoud
  BY <1>5
<1> HIDE DEF w1, w2, lead, tail
<1> QED BY <1>1, <1>3, <1>4, <1>6, <1>8, <1>9, <1>10

LEMMA ProcessStep == Inv /\ Process => Inv'
<1> SUFFICES ASSUME Inv, Process PROVE Inv'
  OBVIOUS
<1>1. /\ pc = "process" /\ pc' = "done" /\ window' = Window(file)
      /\ out' = SubSeq(file, window'[1] + 1, window'[2])
      /\ UNCHANGED <<file, stale, detector, analysis, applyTrim>>
  BY DEF Process
<1>2. file \in Seq(Frames) /\ Len(file) \in Nat
  BY LenProperties DEF Inv, TypeOK
<1>3. FromMs(change.lead) \in Nat /\ FromMs(change.tail) \in Nat
  <2>1. change.lead \in Nat /\ change.tail \in Nat
    BY DEF Inv, TypeOK
  <2> QED BY <2>1, FromMsType
<1>4. /\ window' \in Nat \X Nat
      /\ 0 <= window'[1] /\ window'[1] <= window'[2] /\ window'[2] <= Len(file)
  BY <1>1, <1>2, <1>3, WindowBounds
<1>5. out' \in Seq(Frames) /\ Len(out') \in Nat
  <2>1. window'[1] + 1 \in Int /\ window'[2] \in Int
    BY <1>4
  <2>2. \A i \in window'[1] + 1 .. window'[2] : file[i] \in Frames
    <3> TAKE i \in window'[1] + 1 .. window'[2]
    <3>1. i \in 1 .. Len(file)
      BY <1>2, <1>4
    <3> QED BY <1>2, <3>1, ElementOfSeq
  <2>3. out' \in Seq(Frames)
    BY <1>1, <2>1, <2>2, SubSeqProperties
  <2> QED BY <2>3, LenProperties
<1>6. /\ change' \in [trimmed : BOOLEAN, lead : Nat, tail : Nat, gain : Int,
                      limited : BOOLEAN, ms : Nat, passthrough : BOOLEAN]
      /\ change'.lead = change.lead /\ change'.tail = change.tail /\ change'.gain = change.gain
  <2>1. ToMs(Len(out')) \in Nat
    BY <1>5, ToMsType
  <2>2. PICK ms \in Nat : change' = [change EXCEPT !.ms = ms]
    BY <2>1 DEF Process, Inv, TypeOK
  <2> QED BY <2>2 DEF Inv, TypeOK
<1>7. TypeOK'
  BY <1>1, <1>4, <1>5, <1>6 DEF Inv, TypeOK, detector
<1>8. DetectionIgnoresBlocks' /\ PhaseInv' /\ SilenceInv'
  BY <1>1 DEF Inv, DetectionIgnoresBlocks, PhaseInv, SilenceInv, detector
<1>9. ChangeInv' /\ GainIsSafe'
  BY <1>1, <1>6 DEF Inv, ChangeInv, GainIsSafe
<1>10. WindowInsideFile'
  BY <1>1, <1>4 DEF WindowInsideFile
<1>11. MusicSurvives'
  BY <1>1, MusicStep DEF MusicSurvives, Cut, detector
<1> QED BY <1>7, <1>8, <1>9, <1>10, <1>11 DEF Inv

LEMMA InvStep == Inv /\ [Next]_vars => Inv'
<1> SUFFICES ASSUME Inv, [Next]_vars PROVE Inv'
  OBVIOUS
<1>1. ASSUME NEW n \in 1 .. MaxBlock, Block(n) PROVE Inv'
  BY <1>1, BlockStep, ConformAssumption
<1>2. ASSUME NEW n \in 0 .. MaxFrames, Replace(n) PROVE Inv'
  BY <1>2, ReplaceStep, ConformAssumption
<1>3. CASE UNCHANGED vars
  <2> USE <1>3 DEF Inv, vars, detector
  <2>1. TypeOK' /\ DetectionIgnoresBlocks'
    BY DEF TypeOK, DetectionIgnoresBlocks
  <2>2. PhaseInv' /\ SilenceInv' /\ ChangeInv' /\ GainIsSafe'
    BY DEF PhaseInv, SilenceInv, ChangeInv, GainIsSafe
  <2>3. WindowInsideFile' /\ MusicSurvives'
    BY DEF WindowInsideFile, MusicSurvives, Cut
  <2> QED BY <2>1, <2>2, <2>3
<1> QED BY <1>1, <1>2, <1>3, FinalizeStep, PlanStep, ProcessStep DEF Next

LEMMA Invariance == Spec => []Inv
BY InvInit, InvStep, PTL DEF Spec

-----------------------------------------------------------------------------
(* The results. *)

\* Every variable keeps its type, for every source, rate, policy and options.
THEOREM TypeCorrect == Spec => []TypeOK
BY Invariance, PTL DEF Inv

\* SilenceDetector::processBlock finds the boundaries of the whole track, however
\* AnalysisPipeline::analyze cuts it into blocks.
THEOREM DetectionExact == Spec => []DetectionIgnoresBlocks
BY Invariance, PTL DEF Inv

\* trimSilence reads inside the file, even one that was replaced since its analysis.
THEOREM TrimInside == Spec => []WindowInsideFile
BY Invariance, PTL DEF Inv

\* Rounding to milliseconds, rounding back and snapping cost no music but within a
\* millisecond of its first and last loud frame.
THEOREM MusicIsKept == Spec => []MusicSurvives
BY Invariance, PTL DEF Inv

\* ProcessingEngine::plan never applies a gain that lifts the true peak above the
\* ceiling, whatever the clamp did before.
THEOREM GainUnderCeiling == Spec => []GainIsSafe
BY Invariance, PTL DEF Inv
-----------------------------------------------------------------------------
(* The dry run. *)

\* What the plan was made of: the duration of the file that was analysed, silence that
\* fits into it, and the trim the plan announces.
DryInv ==
  /\ pc # "analyze" =>
       /\ analysis.ms = ToMs(totalFrames)
       /\ firstLoud < 0 => analysis.lead <= ToMs(totalFrames) /\ analysis.trail = 0
  /\ pc = "process" =>
       /\ change.ms = Planned(change.trimmed)
       /\ change.lead = (IF change.trimmed THEN TrimLead ELSE 0)
       /\ change.tail = (IF change.trimmed THEN analysis.trail ELSE 0)
       /\ change.passthrough => ~change.trimmed

LEMMA DryStep == Inv /\ DryInv /\ [Next]_vars => DryInv'
<1> SUFFICES ASSUME Inv, DryInv, [Next]_vars PROVE DryInv'
  OBVIOUS
<1>1. ASSUME NEW n \in 1 .. MaxBlock, Block(n) PROVE DryInv'
  BY <1>1 DEF Block, DryInv
<1>2. CASE Finalize
  <2>1. PICK m \in Measures : analysis' = Silence(m)
    BY <1>2 DEF Finalize
  <2>2. /\ analysis'.ms = ToMs(totalFrames)
        /\ firstLoud < 0 => analysis'.lead = ToMs(totalFrames) /\ analysis'.trail = 0
    BY <2>1 DEF Silence
  <2>3. pc' = "plan" /\ totalFrames' = totalFrames /\ firstLoud' = firstLoud
    BY <1>2 DEF Finalize, detector
  <2>4. ToMs(totalFrames) \in Nat
    BY ToMsType DEF Inv, TypeOK
  <2>5. ToMs(totalFrames)' = ToMs(totalFrames)
    BY <2>3 DEF ToMs
  <2> QED BY <2>2, <2>3, <2>4, <2>5 DEF DryInv
<1>3. ASSUME NEW trim \in BOOLEAN, NEW normalize \in BOOLEAN, NEW conforming \in BOOLEAN,
             Plan(trim, normalize, conforming)
      PROVE  DryInv'
  <2>1. /\ pc = "plan" /\ pc' = "process"
        /\ analysis' = analysis /\ totalFrames' = totalFrames /\ firstLoud' = firstLoud
        /\ TrimLead' = TrimLead /\ ToMs(totalFrames)' = ToMs(totalFrames)
    BY <1>3 DEF Plan, detector, TrimLead, ToMs
  <2>2. /\ change'.trimmed = (trim /\ Trims)
        /\ change'.lead = (IF trim /\ Trims THEN TrimLead ELSE 0)
        /\ change'.tail = (IF trim /\ Trims THEN analysis.trail ELSE 0)
        /\ change'.ms = Planned(trim /\ Trims)
        /\ change'.passthrough => ~(trim /\ Trims)
    BY <1>3 DEF Plan
  <2>3. change'.ms = Planned(change'.trimmed)
    BY <2>2, Zenon
  <2>4. Planned(change'.trimmed) = Planned(change.trimmed)'
    BY <2>1 DEF Planned
  <2> QED BY <2>1, <2>2, <2>3, <2>4 DEF DryInv
<1>4. ASSUME NEW n \in 0 .. MaxFrames, Replace(n) PROVE DryInv'
  BY <1>4 DEF Replace, DryInv, detector, Planned, TrimLead, ToMs
<1>5. CASE Process
  BY <1>5 DEF Process, DryInv, detector, ToMs
<1>6. CASE UNCHANGED vars
  BY <1>6 DEF vars, DryInv, detector, Planned, TrimLead, ToMs
<1> QED BY <1>1, <1>2, <1>3, <1>4, <1>5, <1>6 DEF Next

\* There is never more to trim than the file is long, in frames or in milliseconds.
LEMMA TrimFits ==
  ASSUME Inv, DryInv, pc = "process", ~stale
  PROVE  /\ change.lead \in Nat /\ change.tail \in Nat
         /\ change.lead + change.tail <= ToMs(Len(file))
         /\ FromMs(change.lead) \in Nat /\ FromMs(change.tail) \in Nat
         /\ FromMs(change.lead) + FromMs(change.tail) <= Len(file)
<1>1. /\ change.lead \in Nat /\ change.tail \in Nat
      /\ analysis.lead \in Nat /\ analysis.trail \in Nat
      /\ change.lead <= analysis.lead /\ change.tail <= analysis.trail
  BY DEF Inv, TypeOK, ChangeInv
<1>2. /\ totalFrames = Len(file) /\ totalFrames \in Nat
      /\ firstLoud \in -1 .. lastLoud /\ lastLoud \in -1 .. totalFrames - 1
  BY DEF Inv, TypeOK, DetectionIgnoresBlocks
<1>3. CASE firstLoud < 0
  <2>1. change.lead <= ToMs(totalFrames) /\ change.tail = 0
    <3>1. analysis.lead <= ToMs(totalFrames) /\ analysis.trail = 0
      BY <1>3 DEF DryInv
    <3>2. ToMs(totalFrames) \in Nat
      BY <1>2, ToMsType
    <3> QED BY <1>1, <3>1, <3>2
  <2>2. FromMs(change.lead) \in Nat /\ FromMs(change.lead) <= totalFrames
    BY <1>1, <1>2, <2>1, RoundTrip
  <2>3. ToMs(0) \in Nat /\ 0 <= ToMs(0)
    BY ToMsType
  <2>4. FromMs(change.tail) \in Nat /\ FromMs(change.tail) <= 0
    BY <2>1, <2>3, RoundTrip
  <2> QED BY <1>1, <1>2, <2>1, <2>2, <2>4
<1>4. CASE firstLoud >= 0
  <2> DEFINE rest == totalFrames - 1 - lastLoud
  <2>1. firstLoud \in Nat /\ rest \in Nat /\ firstLoud + rest <= totalFrames
    BY <1>2, <1>4
  <2>2. change.lead <= ToMs(firstLoud) /\ change.tail <= ToMs(rest)
    <3>1. analysis.lead <= ToMs(firstLoud) /\ analysis.trail <= ToMs(rest)
      BY <1>4 DEF Inv, SilenceInv
    <3>2. ToMs(firstLoud) \in Nat /\ ToMs(rest) \in Nat
      BY <2>1, ToMsType
    <3> HIDE DEF rest
    <3> QED BY <1>1, <3>1, <3>2
  <2> HIDE DEF rest
  <2>3. /\ FromMs(change.lead) \in Nat /\ FromMs(change.lead) <= firstLoud
        /\ FromMs(change.tail) \in Nat /\ FromMs(change.tail) <= rest
    BY <1>1, <2>1, <2>2, RoundTrip
  <2>4. ToMs(firstLoud) + ToMs(rest) <= ToMs(totalFrames)
    BY <1>2, <2>1, ToMsAdds
  <2>5. ToMs(firstLoud) \in Nat /\ ToMs(rest) \in Nat /\ ToMs(totalFrames) \in Nat
    BY <1>2, <2>1, ToMsType
  <2>6. change.lead + change.tail <= ToMs(totalFrames)
    BY <1>1, <2>2, <2>4, <2>5
  <2>7. FromMs(change.lead) + FromMs(change.tail) <= totalFrames
    BY <1>2, <2>1, <2>3
  <2> QED BY <1>1, <1>2, <2>3, <2>6, <2>7
<1> QED BY <1>2, <1>3, <1>4

\* What is made is as long as was announced, but for three milliseconds.
LEMMA DurationStep ==
  ASSUME 2 * Second <= Rate, Inv, DryInv, Process, ~stale
  PROVE  change'.ms - change.ms \in -3 .. 3
<1>1. /\ pc = "process" /\ file \in Seq(Frames) /\ Len(file) \in Nat /\ totalFrames = Len(file)
      /\ analysis.ms \in Nat /\ analysis.lead \in Nat /\ analysis.trail \in Nat
  BY LenProperties DEF Inv, TypeOK, DetectionIgnoresBlocks, Process
<1>2. /\ change.lead \in Nat /\ change.tail \in Nat
      /\ change.lead + change.tail <= ToMs(Len(file))
      /\ FromMs(change.lead) \in Nat /\ FromMs(change.tail) \in Nat
      /\ FromMs(change.lead) + FromMs(change.tail) <= Len(file)
  BY <1>1, TrimFits
<1>3. /\ analysis.ms = ToMs(Len(file))
      /\ change.ms = Planned(change.trimmed)
      /\ change.passthrough => ~change.trimmed
  BY <1>1 DEF DryInv
<1>4. change.ms = ToMs(Len(file)) - change.lead - change.tail
  <2>1. change.trimmed \in BOOLEAN
    BY DEF Inv, TypeOK
  <2>2. CASE change.trimmed
    <3> DEFINE left == analysis.ms - (TrimLead + analysis.trail)
    <3>1. change.lead = TrimLead /\ change.tail = analysis.trail
      BY <1>1, <2>2 DEF DryInv
    <3>2. change.ms = Max({0, left})
      BY <1>3, <2>2 DEF Planned
    <3>3. left \in Int /\ left >= 0 /\ left = ToMs(Len(file)) - change.lead - change.tail
      BY <1>1, <1>2, <1>3, <3>1
    <3> HIDE DEF left
    <3>4. Max({0, left}) = IF 0 >= left THEN 0 ELSE left
      BY <3>3, Pair
    <3> QED BY <3>2, <3>3, <3>4
  <2>3. CASE ~change.trimmed
    <3>1. change.lead = 0 /\ change.tail = 0
      BY <1>1, <2>3 DEF DryInv
    <3>2. change.ms = Max({0, analysis.ms - 0})
      BY <1>3, <2>3 DEF Planned
    <3>3. change.ms = Max({0, analysis.ms})
      <4>1. analysis.ms - 0 = analysis.ms
        BY <1>1
      <4> QED BY <3>2, <4>1, Zenon
    <3>4. Max({0, analysis.ms}) = IF 0 >= analysis.ms THEN 0 ELSE analysis.ms
      BY <1>1, Pair
    <3> QED BY <1>1, <1>3, <3>1, <3>3, <3>4
  <2> QED BY <2>1, <2>2, <2>3
<1>5. CASE change.passthrough
  <2>1. change' = [change EXCEPT !.ms = analysis.ms]
    BY <1>5 DEF Process
  <2>2. change'.ms = analysis.ms
    BY <2>1 DEF Inv, TypeOK
  <2>3. change.lead = 0 /\ change.tail = 0
    BY <1>1, <1>3, <1>5 DEF DryInv
  <2> QED BY <1>1, <1>3, <1>4, <2>2, <2>3
<1>6. CASE ~change.passthrough
  <2> DEFINE w1 == Window(file)[1]
             w2 == Window(file)[2]
             l == FromMs(change.lead)
             t == FromMs(change.tail)
  <2>1. w1 \in Nat /\ w2 \in Nat /\ w1 <= w2 /\ w2 <= Len(file)
    BY <1>1, <1>2, WindowBounds
  <2>2. out' = SubSeq(file, w1 + 1, w2) /\ change'.ms = ToMs(Len(out'))
    BY <1>6 DEF Process, Inv, TypeOK
  <2>3. Len(out') = w2 - w1
    <3>1. \A i \in w1 + 1 .. w2 : file[i] \in Frames
      <4> TAKE i \in w1 + 1 .. w2
      <4>1. i \in 1 .. Len(file)
        BY <1>1, <2>1
      <4> QED BY <1>1, <4>1, ElementOfSeq
    <3> HIDE DEF w1, w2
    <3> QED BY <2>1, <2>2, <3>1, SubSeqProperties
  <2>4. /\ w2 - w1 \in Nat
        /\ w2 - w1 >= Len(file) - l - t - 2 * SnapWindow
        /\ w2 - w1 <= Len(file) - l - t + 2 * SnapWindow
    <3>1. change.trimmed \in BOOLEAN
      BY DEF Inv, TypeOK
    <3>2. CASE change.trimmed
      BY <1>1, <1>2, <3>2, WindowLength
    <3>3. CASE ~change.trimmed
      <4>1. w1 = 0 /\ w2 = Len(file)
        BY <3>3 DEF Window
      <4>2. change.lead = 0 /\ change.tail = 0
        BY <1>1, <3>3 DEF DryInv
      <4>3. 0 <= ToMs(0)
        BY ToMsType
      <4>4. l <= 0 /\ t <= 0 /\ l \in Nat /\ t \in Nat
        BY <1>2, <4>2, <4>3, RoundTrip
      <4> HIDE DEF w1, w2, l, t
      <4> QED BY <1>1, <4>1, <4>4, SnapWindowType
    <3> QED BY <3>1, <3>2, <3>3
  <2> HIDE DEF w1, w2
  <2>5. ToMs(w2 - w1) - (ToMs(Len(file)) - change.lead - change.tail) \in -3 .. 3
    BY <1>1, <1>2, <2>4, DurationBounds
  <2> QED BY <1>4, <2>2, <2>3, <2>5
<1> QED BY <1>5, <1>6

\* If a millisecond has at least two frames, what ProcessingEngine::plan announces in a
\* dry run is what process() makes, up to roundings and snaps.
THEOREM DryRunIsRight ==
  ASSUME 2 * Second <= Rate
  PROVE  Spec => DryRunTellsDuration
<1> DEFINE A == pc = "process" /\ pc' = "done" /\ ~stale =>
                  change'.ms - change.ms \in -(1 + 2 * ToMs(SnapWindow + 1))
                                             .. 1 + 2 * ToMs(SnapWindow + 1)
<1>1. Init => DryInv
  BY DEF Init, DryInv
<1>2. Inv /\ DryInv /\ [Next]_vars => DryInv'
  BY DryStep
<1>3. Inv /\ DryInv /\ [Next]_vars => [A]_vars
  <2> SUFFICES ASSUME Inv, DryInv, [Next]_vars, pc = "process", pc' = "done", ~stale
               PROVE  change'.ms - change.ms \in -(1 + 2 * ToMs(SnapWindow + 1))
                                                .. 1 + 2 * ToMs(SnapWindow + 1)
    OBVIOUS
  <2>1. Process
    BY DEF Next, Block, Finalize, Plan, Replace, vars
  <2>2. change'.ms - change.ms \in -3 .. 3
    BY <2>1, DurationStep
  <2>3. ToMs(SnapWindow + 1) \in Nat /\ ToMs(SnapWindow + 1) >= 1
    BY SnapBound
  <2> QED BY <2>2, <2>3
<1> QED BY <1>1, <1>2, <1>3, Invariance, PTL DEF Spec, DryRunTellsDuration

-----------------------------------------------------------------------------
(* What silence is left. *)

\* Where trimming starts and stops.
LEMMA WindowEnds ==
  ASSUME NEW b \in Seq(Frames), b # <<>>, change.trimmed,
         FromMs(change.lead) \in Nat, FromMs(change.tail) \in Nat,
         FromMs(change.lead) <= Len(b)
  PROVE  /\ Window(b)[1] >= FromMs(change.lead) - SnapWindow
         /\ \/ Window(b)[2] <= Len(b) - FromMs(change.tail) + SnapWindow
            \/ Window(b)[2] = Window(b)[1]
<1> DEFINE start == Start(b, FromMs(change.lead))
           stop == Stop(b, start, FromMs(change.tail))
<1>1. Window(b) = <<start, stop>>
  BY DEF Window
<1>2. start \in 0 .. Len(b) /\ start >= FromMs(change.lead) - SnapWindow
  BY StartBounds
<1> HIDE DEF start
<1>3. stop <= Len(b) - FromMs(change.tail) + SnapWindow \/ stop = start
  BY <1>2, StopBounds
<1> HIDE DEF stop
<1> QED BY <1>1, <1>2, <1>3

\* A longer run takes no less time.
LEMMA ToMsMonotone ==
  ASSUME NEW m \in Nat, NEW n \in Nat, m <= n
  PROVE  ToMs(m) \in Nat /\ ToMs(n) \in Nat /\ ToMs(m) <= ToMs(n)
<1>1. n - m \in Nat /\ m + (n - m) <= n
  OBVIOUS
<1>2. ToMs(m) \in Nat /\ ToMs(n) \in Nat /\ ToMs(n - m) \in Nat
  BY <1>1, ToMsType
<1>3. ToMs(m) + ToMs(n - m) <= ToMs(n)
  BY <1>1, ToMsAdds
<1> QED BY <1>2, <1>3

\* Of n silent frames m are left after trimming some milliseconds.
LEMMA Remains ==
  ASSUME Second <= Rate, NEW n \in Nat, NEW m \in Nat, NEW trim \in Nat,
         m <= n - FromMs(trim) + SnapWindow
  PROVE  ToMs(m) + trim <= ToMs(n) + 2
<1> DEFINE M == ToMs(m)
           N == ToMs(n)
           f == FromMs(trim)
           w == SnapWindow
<1>1. Rate \in Nat \ {0} /\ Second \in Nat \ {0}
  BY ConformAssumption
<1>2. /\ M \in Nat /\ Rate * M <= m * Second
      /\ N \in Nat /\ n * Second < Rate * N + Rate
  BY ToMsBounds
<1>3. f \in Nat /\ trim * Rate < f * Second + Second
  BY FromMsBounds
<1>4. w \in Nat /\ w * Second <= Rate
  BY SnapBound
<1>5. m + f <= n + w
  BY <1>3, <1>4
<1> HIDE DEF M, N, f, w
<1>6. /\ (m + f) * Second <= (n + w) * Second
      /\ (m + f) * Second = m * Second + f * Second
      /\ (n + w) * Second = n * Second + w * Second
  BY <1>1, <1>3, <1>4, <1>5, Grow
<1>7. /\ m * Second \in Nat /\ f * Second \in Nat /\ n * Second \in Nat
      /\ w * Second \in Nat /\ trim * Rate \in Nat /\ Rate * M \in Nat /\ Rate * N \in Nat
  BY <1>1, <1>2, <1>3, <1>4
<1>8. Rate * M + trim * Rate < Rate * N + 3 * Rate
  BY <1>1, <1>2, <1>3, <1>4, <1>6, <1>7
<1>9. ASSUME M + trim >= N + 3 PROVE FALSE
  <2>1. (N + 3) * Rate <= (M + trim) * Rate
    BY <1>1, <1>2, <1>9, Grow
  <2>2. /\ (N + 3) * Rate = Rate * N + 3 * Rate
        /\ (M + trim) * Rate = Rate * M + trim * Rate
    BY <1>1, <1>2
  <2> QED BY <1>1, <1>7, <1>8, <2>1, <2>2
<1>10. M + trim <= N + 2
  BY <1>2, <1>9
<1> QED BY <1>10 DEF M, N

\* The loud frames of a part of a file that has all of them.
LEMMA LoudPart ==
  ASSUME NEW b \in Seq(Frames), NEW s \in 0 .. Len(b), NEW e \in s .. Len(b),
         NEW first \in LoudIn(b), NEW last \in LoudIn(b),
         \A i \in LoudIn(b) : first <= i /\ i <= last /\ s <= i /\ i < e
  PROVE  /\ Len(SubSeq(b, s + 1, e)) = e - s
         /\ Min(LoudIn(SubSeq(b, s + 1, e))) = first - s
         /\ Max(LoudIn(SubSeq(b, s + 1, e))) = last - s
<1> DEFINE o == SubSeq(b, s + 1, e)
<1>1. Len(b) \in Nat /\ s \in Nat /\ e \in Nat
  BY LenProperties
<1>2. \A i \in s + 1 .. e : b[i] \in Frames
  <2> TAKE i \in s + 1 .. e
  <2>1. i \in 1 .. Len(b)
    BY <1>1
  <2> QED BY <2>1, ElementOfSeq
<1>3. Len(o) = e - s /\ \A i \in 1 .. e - s : o[i] = b[s + i]
  <2>1. Len(o) = e - s /\ \A i \in 1 .. e - s : o[i] = b[s + 1 + i - 1]
    BY <1>1, <1>2, SubSeqProperties
  <2>2. \A i \in 1 .. e - s : s + 1 + i - 1 = s + i
    BY <1>1
  <2> QED BY <2>1, <2>2
<1> HIDE DEF o
<1>4. \A i \in 0 .. e - s - 1 : i \in LoudIn(o) <=> s + i \in LoudIn(b)
  <2> TAKE i \in 0 .. e - s - 1
  <2>1. o[i + 1] = b[s + i + 1] /\ s + i \in 0 .. Len(b) - 1 /\ i \in 0 .. Len(o) - 1
    BY <1>1, <1>3
  <2> QED BY <2>1 DEF LoudIn
<1>5. LoudIn(o) \subseteq 0 .. e - s - 1 /\ LoudIn(o) \in SUBSET Nat
  BY <1>1, <1>3 DEF LoudIn
<1>6. LoudIn(b) \subseteq 0 .. Len(b) - 1
  BY LoudBounds
<1>7. first - s \in LoudIn(o) /\ last - s \in LoudIn(o)
  <2>1. ASSUME NEW x \in LoudIn(b) PROVE x - s \in LoudIn(o)
    <3>1. x \in Nat /\ s <= x /\ x < e
      BY <1>1, <1>6
    <3>2. x - s \in 0 .. e - s - 1 /\ s + (x - s) = x
      BY <1>1, <3>1
    <3> QED BY <1>4, <3>2
  <2> QED BY <2>1
<1>8. \A y \in LoudIn(o) : first - s <= y /\ y <= last - s
  <2> TAKE y \in LoudIn(o)
  <2>1. y \in 0 .. e - s - 1
    BY <1>5
  <2>2. s + y \in LoudIn(b)
    BY <1>4, <2>1
  <2>3. first <= s + y /\ s + y <= last /\ first \in Nat /\ last \in Nat
    BY <1>1, <1>6, <2>2
  <2> QED BY <1>1, <2>1, <2>3
<1>9. Min(LoudIn(o)) = first - s /\ Max(LoudIn(o)) = last - s
  BY <1>5, <1>7, <1>8, Extreme
<1> QED BY <1>3, <1>9 DEF o

\* The plan trims whenever there is something to trim.
TrimInv ==
  /\ pc # "analyze" /\ firstLoud >= 0 =>
       /\ analysis.lead = Gate(ToMs(firstLoud))
       /\ analysis.trail = Gate(ToMs(totalFrames - 1 - lastLoud))
  /\ pc = "process" => change.trimmed = (applyTrim /\ Trims)
  /\ pc # "done" \/ SilenceIsRemoved

LEMMA TrimProcess ==
  ASSUME Second <= Rate, Inv, DryInv, TrimInv, Process, ~stale, applyTrim,
         ~analysis.ambiguous, firstLoud >= 0, Cut' = {}
  PROVE  /\ Gate(ToMs(Min(LoudIn(out')))) <= LeadIn + Slack
         /\ Gate(ToMs(Len(out') - 1 - Max(LoudIn(out')))) <= Slack
<1> DEFINE w1 == Window(file)[1]
           w2 == Window(file)[2]
           n == Len(file)
           tail == totalFrames - 1 - lastLoud
<1>1. /\ pc = "process" /\ file \in Seq(Frames) /\ n \in Nat /\ totalFrames = n
      /\ analysis.lead \in Nat /\ analysis.trail \in Nat
      /\ firstLoud \in -1 .. lastLoud /\ lastLoud \in -1 .. totalFrames - 1
      /\ change.trimmed \in BOOLEAN /\ LeadIn \in Nat /\ MinMs \in Nat
  BY LenProperties, ConformAssumption DEF Inv, TypeOK, DetectionIgnoresBlocks, Process
<1>2. /\ change.lead \in Nat /\ change.tail \in Nat
      /\ FromMs(change.lead) \in Nat /\ FromMs(change.tail) \in Nat
      /\ FromMs(change.lead) + FromMs(change.tail) <= n
  BY <1>1, TrimFits
<1>3. w1 \in 0 .. n /\ w2 \in w1 .. n
  BY <1>1, <1>2, WindowBounds
<1>4. /\ firstLoud \in LoudIn(file) /\ lastLoud \in LoudIn(file)
      /\ \A i \in LoudIn(file) : firstLoud <= i /\ i <= lastLoud
  <2>1. LoudIn(file) # {} /\ firstLoud = Min(LoudIn(file)) /\ lastLoud = Max(LoudIn(file))
    BY <1>1 DEF Inv, DetectionIgnoresBlocks
  <2>2. LoudIn(file) \in SUBSET Nat /\ \A i \in LoudIn(file) : i <= n
    BY <1>1, LoudBounds
  <2>3. Min(LoudIn(file)) \in LoudIn(file) /\ \A i \in LoudIn(file) : Min(LoudIn(file)) <= i
    BY <2>1, <2>2, MinOf
  <2>4. Max(LoudIn(file)) \in LoudIn(file) /\ \A i \in LoudIn(file) : i <= Max(LoudIn(file))
    BY <1>1, <2>1, <2>2, MaxOf
  <2> QED BY <2>1, <2>3, <2>4
<1>5. \A i \in LoudIn(file) : w1 <= i /\ i < w2
  <2>1. Cut' = {i \in LoudIn(file) : i < w1 \/ i >= w2}
    BY DEF Process, Cut, LoudIn, Loud
  <2>2. \A i \in LoudIn(file) : i \in Nat
    BY LoudBounds, <1>1
  <2> HIDE DEF w1, w2
  <2> QED BY <1>3, <2>1, <2>2
<1>6. out' = SubSeq(file, w1 + 1, w2)
  BY DEF Process
<1> HIDE DEF w1, w2
<1>7. /\ Len(out') = w2 - w1
      /\ Min(LoudIn(out')) = firstLoud - w1 /\ Max(LoudIn(out')) = lastLoud - w1
  BY <1>1, <1>3, <1>4, <1>5, <1>6, LoudPart
<1>8. /\ firstLoud \in Nat /\ tail \in Nat
      /\ firstLoud - w1 \in Nat /\ firstLoud - w1 <= firstLoud
      /\ w2 - 1 - lastLoud \in Nat /\ w2 - 1 - lastLoud <= tail
      /\ Len(out') - 1 - Max(LoudIn(out')) = w2 - 1 - lastLoud
  BY <1>1, <1>3, <1>4, <1>5, <1>7
<1>9. Slack \in Nat /\ Slack >= 2
  BY SnapBound DEF Slack
<1> HIDE DEF tail
<1>10. /\ ToMs(firstLoud - w1) \in Nat /\ ToMs(firstLoud) \in Nat
       /\ ToMs(firstLoud - w1) <= ToMs(firstLoud)
       /\ ToMs(w2 - 1 - lastLoud) \in Nat /\ ToMs(tail) \in Nat
       /\ ToMs(w2 - 1 - lastLoud) <= ToMs(tail)
  BY <1>8, ToMsMonotone
<1>11. /\ analysis.lead = Gate(ToMs(firstLoud)) /\ analysis.trail = Gate(ToMs(tail))
       /\ change.trimmed = Trims
       /\ Trims <=> TrimLead > 0 \/ analysis.trail > 0
       /\ change.lead = (IF change.trimmed THEN TrimLead ELSE 0)
       /\ change.tail = (IF change.trimmed THEN analysis.trail ELSE 0)
  BY <1>1 DEF TrimInv, DryInv, Trims, tail
<1>12. TrimLead = IF analysis.lead <= LeadIn THEN 0 ELSE analysis.lead - LeadIn
  <2>1. 0 \in Int /\ analysis.lead - LeadIn \in Int
    BY <1>1
  <2>2. TrimLead = IF 0 >= analysis.lead - LeadIn THEN 0 ELSE analysis.lead - LeadIn
    BY <2>1, Pair DEF TrimLead
  <2> QED BY <1>1, <2>2
<1>13. ASSUME change.trimmed
       PROVE  /\ firstLoud - w1 <= firstLoud - FromMs(change.lead) + SnapWindow
              /\ w2 - 1 - lastLoud <= tail - FromMs(change.tail) + SnapWindow
  <2>1. file # <<>>
    BY <1>1, <1>8
  <2>2. /\ w1 >= FromMs(change.lead) - SnapWindow
        /\ w2 <= n - FromMs(change.tail) + SnapWindow \/ w2 = w1
    <3>1. FromMs(change.lead) <= n
      BY <1>1, <1>2
    <3> QED BY <1>1, <1>2, <1>13, <2>1, <3>1, WindowEnds DEF w1, w2
  <2>3. w1 < w2
    BY <1>1, <1>3, <1>4, <1>5
  <2>4. firstLoud - w1 <= firstLoud - FromMs(change.lead) + SnapWindow
    BY <1>2, <1>3, <1>8, <2>2, SnapWindowType
  <2>5. w2 <= n - FromMs(change.tail) + SnapWindow
    BY <1>3, <2>2, <2>3
  <2>6. tail = n - 1 - lastLoud /\ lastLoud \in Int
    BY <1>1 DEF tail
  <2>7. w2 - 1 - lastLoud <= tail - FromMs(change.tail) + SnapWindow
    BY <1>1, <1>2, <1>3, <2>5, <2>6, SnapWindowType
  <2> QED BY <2>4, <2>7
<1>14. Gate(ToMs(firstLoud - w1)) <= LeadIn + Slack
  <2>1. CASE analysis.lead <= LeadIn
    BY <1>1, <1>9, <1>10, <1>11, <2>1 DEF Gate
  <2>2. CASE analysis.lead > LeadIn
    <3>1. change.trimmed /\ change.lead = analysis.lead - LeadIn
      BY <1>1, <1>11, <1>12, <2>2
    <3>2. analysis.lead = ToMs(firstLoud)
      BY <1>1, <1>11, <2>2 DEF Gate
    <3>3. ToMs(firstLoud - w1) + change.lead <= ToMs(firstLoud) + 2
      BY <1>2, <1>8, <1>13, <3>1, Remains
    <3> QED BY <1>1, <1>9, <1>10, <3>1, <3>2, <3>3 DEF Gate
  <2> QED BY <1>1, <2>1, <2>2
<1>15. Gate(ToMs(w2 - 1 - lastLoud)) <= Slack
  <2>1. CASE analysis.trail = 0
    BY <1>1, <1>9, <1>10, <1>11, <2>1 DEF Gate
  <2>2. CASE analysis.trail > 0
    <3>1. change.trimmed /\ change.tail = analysis.trail
      BY <1>11, <2>2
    <3>2. analysis.trail = ToMs(tail)
      BY <1>1, <1>11, <2>2 DEF Gate
    <3>3. ToMs(w2 - 1 - lastLoud) + change.tail <= ToMs(tail) + 2
      BY <1>2, <1>8, <1>13, <3>1, Remains
    <3> QED BY <1>1, <1>9, <1>10, <3>1, <3>2, <3>3 DEF Gate
  <2> QED BY <1>1, <2>1, <2>2
<1> QED BY <1>7, <1>8, <1>14, <1>15

LEMMA TrimStep ==
  ASSUME Second <= Rate, Inv, DryInv, TrimInv, [Next]_vars
  PROVE  TrimInv'
<1>1. ASSUME NEW n \in 1 .. MaxBlock, Block(n) PROVE TrimInv'
  BY <1>1 DEF Block, TrimInv
<1>2. CASE Finalize
  <2>1. PICK m \in Measures : analysis' = Silence(m)
    BY <1>2 DEF Finalize
  <2>2. firstLoud >= 0 =>
          /\ analysis'.lead = Gate(ToMs(firstLoud))
          /\ analysis'.trail = Gate(ToMs(totalFrames - 1 - lastLoud))
    <3>1. firstLoud \in Int
      BY DEF Inv, TypeOK
    <3> QED BY <2>1, <3>1 DEF Silence
  <2>3. pc' = "plan" /\ UNCHANGED <<totalFrames, firstLoud, lastLoud>>
    BY <1>2 DEF Finalize, detector
  <2> QED BY <2>2, <2>3 DEF TrimInv, Gate, ToMs
<1>3. ASSUME NEW trim \in BOOLEAN, NEW normalize \in BOOLEAN, NEW conforming \in BOOLEAN,
             Plan(trim, normalize, conforming)
      PROVE  TrimInv'
  <2>1. /\ pc = "plan" /\ pc' = "process" /\ applyTrim' = trim
        /\ UNCHANGED <<analysis, totalFrames, firstLoud, lastLoud>>
    BY <1>3 DEF Plan, detector
  <2>2. change'.trimmed = (trim /\ Trims)
    BY <1>3 DEF Plan
  <2>3. Trims' = Trims
    BY <2>1 DEF Trims, TrimLead
  <2> QED BY <2>1, <2>2, <2>3 DEF TrimInv, Gate, ToMs
<1>4. ASSUME NEW n \in 0 .. MaxFrames, Replace(n) PROVE TrimInv'
  <2>1. /\ pc = "process" /\ pc' = "process"
        /\ UNCHANGED <<analysis, totalFrames, firstLoud, lastLoud, change, applyTrim>>
    BY <1>4 DEF Replace, detector
  <2>2. Trims' = Trims
    BY <2>1 DEF Trims, TrimLead
  <2> QED BY <2>1, <2>2 DEF TrimInv, Gate, ToMs
<1>5. CASE Process
  <2>1. /\ pc = "process" /\ pc' = "done"
        /\ UNCHANGED <<analysis, totalFrames, firstLoud, lastLoud, applyTrim, stale>>
    BY <1>5 DEF Process, detector
  <2>2. SilenceIsRemoved'
    <3> SUFFICES ASSUME ~stale, applyTrim, ~analysis.ambiguous, firstLoud >= 0, Cut' = {}
                 PROVE  /\ Gate(ToMs(Min(LoudIn(out')))) <= LeadIn + Slack
                        /\ Gate(ToMs(Len(out') - 1 - Max(LoudIn(out')))) <= Slack
      BY <2>1 DEF SilenceIsRemoved, Gate, ToMs, Slack, LoudIn, Loud, SnapWindow
    <3> QED BY <1>5, TrimProcess
  <2> QED BY <2>1, <2>2 DEF TrimInv, Gate, ToMs
<1>6. CASE UNCHANGED vars
  <2>1. Trims' = Trims /\ SilenceIsRemoved' = SilenceIsRemoved
    BY <1>6 DEF vars, detector, Trims, TrimLead, SilenceIsRemoved, Cut, LoudIn, Loud,
                Gate, ToMs, Slack, SnapWindow
  <2> QED BY <1>6, <2>1 DEF vars, detector, TrimInv, Gate, ToMs
<1> QED BY <1>1, <1>2, <1>3, <1>4, <1>5, <1>6 DEF Next

\* If a millisecond has at least one frame, trimming that kept the music leaves hardly
\* more silence than ProcessingEngine was asked for.
THEOREM SilenceIsGone ==
  ASSUME Second <= Rate
  PROVE  Spec => []SilenceIsRemoved
<1>1. Init => DryInv /\ TrimInv
  BY DEF Init, DryInv, TrimInv
<1>2. Inv /\ DryInv /\ TrimInv /\ [Next]_vars => (DryInv /\ TrimInv)'
  BY DryStep, TrimStep
<1>3. TrimInv => SilenceIsRemoved
  BY DEF TrimInv, SilenceIsRemoved
<1> QED BY <1>1, <1>2, <1>3, Invariance, PTL DEF Spec

-----------------------------------------------------------------------------
(* Energies, and the pieces of a track. *)

LEMMA EnergyType == \A f \in Frames : Energy(f) \in Nat
<1> TAKE f \in Frames
<1>1. f.peak \in Nat /\ f.sum \in Nat
  BY ConformAssumption
<1>2. f.peak * f.peak \in Nat
  BY <1>1
<1>3. f.sum - f.peak \in Nat
  BY <1>1, StereoAssumption
<1>4. (f.sum - f.peak) * (f.sum - f.peak) \in Nat
  BY <1>3
<1> QED BY <1>2, <1>4 DEF Energy

\* EnergyOf adds up the energies, frame by frame.
LEMMA EnergyFold ==
  ASSUME NEW s \in Seq(Frames)
  PROVE  \E e : /\ e[0] = 0 /\ EnergyOf(s) = e[Len(s)]
                /\ \A k \in 1 .. Len(s) : e[k] = e[k - 1] + Energy(s[k])
<1> DEFINE D == 1 .. Len(s)
           Solves(g) == g = [t \in SUBSET DOMAIN s |->
                               IF t = {} THEN 0 ELSE g[t \ {Max(t)}] + Energy(s[Max(t)])]
           iter == CHOOSE g : Solves(g)
<1>1. Len(s) \in Nat /\ DOMAIN s = D /\ \A i \in D : s[i] \in Frames
  OBVIOUS
<1>2. EnergyOf(s) = iter[DOMAIN s]
  BY DEF EnergyOf, FoldLeft, MapThenFoldSet
<1>3. \E g : Solves(g)
  <2> DEFINE step == [v \in D \X Nat |-> v[2] + Energy(s[v[1]])]
  <2>1. \A i \in D, x \in Nat : step[<<i, x>>] = x + Energy(s[i]) /\ <<i, x>> \in D \X Nat
    OBVIOUS
  <2>2. step \in [D \X Nat -> Nat]
    BY <1>1, EnergyType
  <2> HIDE DEF step
  <2>3. PICK g \in [SUBSET D -> Nat] : IsSeqFold(g, Len(s), 0, step)
    BY <1>1, <2>2, SeqFold
  <2>4. ASSUME NEW t \in SUBSET D
        PROVE  g[t] = IF t = {} THEN 0 ELSE g[t \ {Max(t)}] + Energy(s[Max(t)])
    <3>1. CASE t # {}
      <4>1. Max(t) \in D /\ t \ {Max(t)} \in SUBSET D
        BY <1>1, <3>1, UpTo
      <4>2. g[t \ {Max(t)}] \in Nat
        BY <4>1
      <4>3. g[t] = step[<<Max(t), g[t \ {Max(t)}]>>]
        BY <2>3, <3>1 DEF IsSeqFold
      <4> HIDE DEF D
      <4> QED BY <2>1, <3>1, <4>1, <4>2, <4>3
    <3> QED BY <2>3, <3>1 DEF IsSeqFold
  <2>5. Solves(g)
    BY <1>1, <2>4
  <2> QED BY <2>5
<1>4. Solves(iter)
  BY <1>3
<1> DEFINE e == [k \in 0 .. Len(s) |-> iter[1 .. k]]
<1>5. \A t \in SUBSET D : iter[t] = IF t = {} THEN 0 ELSE iter[t \ {Max(t)}] + Energy(s[Max(t)])
  <2> HIDE DEF iter
  <2> QED BY <1>1, <1>4
<1> HIDE DEF iter
<1>6. e[0] = 0
  <2>1. iter[{}] = 0
    BY <1>5
  <2>2. 1 .. 0 = {} /\ 0 \in 0 .. Len(s)
    BY <1>1
  <2> QED BY <2>1, <2>2
<1>7. ASSUME NEW k \in 1 .. Len(s)
      PROVE  e[k] = e[k - 1] + Energy(s[k])
  <2>1. Max(1 .. k) = k /\ (1 .. k) \ {k} = 1 .. k - 1 /\ 1 .. k \in SUBSET D /\ 1 .. k # {}
    BY <1>1, UpTo
  <2>2. iter[1 .. k] = iter[1 .. k - 1] + Energy(s[k])
    BY <1>5, <2>1
  <2>3. k \in 0 .. Len(s) /\ k - 1 \in 0 .. Len(s)
    BY <1>1
  <2> QED BY <2>2, <2>3
<1>8. EnergyOf(s) = e[Len(s)]
  BY <1>1, <1>2
<1> QED BY <1>6, <1>7, <1>8

LEMMA EnergyOfType ==
  ASSUME NEW s \in Seq(Frames)
  PROVE  EnergyOf(s) \in Nat
<1>1. PICK e : /\ e[0] = 0 /\ EnergyOf(s) = e[Len(s)]
               /\ \A k \in 1 .. Len(s) : e[k] = e[k - 1] + Energy(s[k])
  BY EnergyFold
<1> DEFINE T == {k \in Nat : k <= Len(s) => e[k] \in Nat}
<1>2. 0 \in T
  BY <1>1
<1>3. ASSUME NEW k \in Nat, k \in T
      PROVE  k + 1 \in T
  <2> SUFFICES ASSUME k + 1 <= Len(s) PROVE e[k + 1] \in Nat
    OBVIOUS
  <2>1. k + 1 \in 1 .. Len(s) /\ (k + 1) - 1 = k /\ k <= Len(s)
    OBVIOUS
  <2>2. Energy(s[k + 1]) \in Nat
    BY <2>1, EnergyType
  <2>3. e[k + 1] = e[k] + Energy(s[k + 1])
    BY <1>1, <2>1
  <2> QED BY <1>3, <2>1, <2>2, <2>3
<1> HIDE DEF T
<1>4. Len(s) \in T
  BY <1>2, <1>3, Induction
<1> QED BY <1>1, <1>4 DEF T

\* What no frame exceeds, the mean does not exceed.
LEMMA EnergyOfBound ==
  ASSUME NEW s \in Seq(Frames), NEW c \in Nat, \A i \in 1 .. Len(s) : Energy(s[i]) <= c
  PROVE  EnergyOf(s) <= c * Len(s)
<1>1. PICK e : /\ e[0] = 0 /\ EnergyOf(s) = e[Len(s)]
               /\ \A k \in 1 .. Len(s) : e[k] = e[k - 1] + Energy(s[k])
  BY EnergyFold
<1> DEFINE T == {k \in Nat : k <= Len(s) => e[k] \in Nat /\ e[k] <= c * k}
<1>2. 0 \in T
  BY <1>1
<1>3. ASSUME NEW k \in Nat, k \in T
      PROVE  k + 1 \in T
  <2> SUFFICES ASSUME k + 1 <= Len(s) PROVE e[k + 1] \in Nat /\ e[k + 1] <= c * (k + 1)
    OBVIOUS
  <2>1. k + 1 \in 1 .. Len(s) /\ (k + 1) - 1 = k /\ k <= Len(s)
    OBVIOUS
  <2>2. Energy(s[k + 1]) \in Nat /\ Energy(s[k + 1]) <= c
    BY <2>1, EnergyType
  <2>3. e[k + 1] = e[k] + Energy(s[k + 1])
    BY <1>1, <2>1
  <2>4. c * (k + 1) = c * k + c /\ c * k \in Nat
    OBVIOUS
  <2>5. e[k] \in Nat /\ e[k] <= c * k
    BY <1>3, <2>1
  <2> QED BY <2>2, <2>3, <2>4, <2>5
<1> HIDE DEF T
<1>4. Len(s) \in T
  BY <1>2, <1>3, Induction
<1> QED BY <1>1, <1>4 DEF T

LEMMA EnergyOfEmpty == EnergyOf(<<>>) = 0
<1>1. <<>> \in Seq(Frames) /\ Len(<<>>) = 0
  OBVIOUS
<1> QED BY <1>1, EnergyFold

LEMMA EnergyOfAppend ==
  ASSUME NEW s \in Seq(Frames), NEW f \in Frames
  PROVE  EnergyOf(Append(s, f)) = EnergyOf(s) + Energy(f)
<1> DEFINE t == Append(s, f)
<1>1. t \in Seq(Frames) /\ Len(t) = Len(s) + 1 /\ Len(s) \in Nat /\ t[Len(s) + 1] = f
      /\ \A i \in 1 .. Len(s) : t[i] = s[i]
  OBVIOUS
<1> HIDE DEF t
<1>2. PICK e : /\ e[0] = 0 /\ EnergyOf(s) = e[Len(s)]
               /\ \A k \in 1 .. Len(s) : e[k] = e[k - 1] + Energy(s[k])
  BY EnergyFold
<1>3. PICK d : /\ d[0] = 0 /\ EnergyOf(t) = d[Len(t)]
               /\ \A k \in 1 .. Len(t) : d[k] = d[k - 1] + Energy(t[k])
  BY <1>1, EnergyFold
<1> DEFINE T == {k \in Nat : k <= Len(s) => d[k] = e[k]}
<1>4. 0 \in T
  BY <1>2, <1>3
<1>5. ASSUME NEW k \in Nat, k \in T
      PROVE  k + 1 \in T
  <2> SUFFICES ASSUME k + 1 <= Len(s) PROVE d[k + 1] = e[k + 1]
    OBVIOUS
  <2>1. k + 1 \in 1 .. Len(s) /\ k + 1 \in 1 .. Len(t) /\ (k + 1) - 1 = k /\ k <= Len(s)
    BY <1>1
  <2>2. t[k + 1] = s[k + 1] /\ d[k] = e[k]
    BY <1>1, <1>5, <2>1
  <2> QED BY <1>2, <1>3, <2>1, <2>2
<1> HIDE DEF T
<1>6. Len(s) \in T
  BY <1>1, <1>4, <1>5, Induction
<1>7. d[Len(s)] = EnergyOf(s)
  BY <1>2, <1>6 DEF T
<1>8. Len(t) \in 1 .. Len(t) /\ Len(t) - 1 = Len(s)
  BY <1>1
<1>9. d[Len(t)] = EnergyOf(s) + Energy(f)
  BY <1>1, <1>3, <1>7, <1>8
<1> QED BY <1>3, <1>9 DEF t

\* What a frame more does to the end of a track.
LEMMA EndOfAppend ==
  ASSUME NEW s \in Seq(Frames), NEW f \in Frames, NEW a \in 1 .. Len(s) + 1
  PROVE  /\ SubSeq(Append(s, f), a, Len(s) + 1) = Append(SubSeq(s, a, Len(s)), f)
         /\ SubSeq(s, a, Len(s)) \in Seq(Frames)
         /\ \A b \in 1 .. Len(s) : SubSeq(Append(s, f), a, b) = SubSeq(s, a, b)
<1> DEFINE t == Append(s, f)
           n == Len(s)
<1>1. t \in Seq(Frames) /\ Len(t) = n + 1 /\ n \in Nat /\ t[n + 1] = f
      /\ \A i \in 1 .. n : t[i] = s[i]
  OBVIOUS
<1>2. \A i \in 1 .. n : s[i] \in Frames
  OBVIOUS
<1> HIDE DEF t
<1>3. /\ SubSeq(s, a, n) \in Seq(Frames)
      /\ Len(SubSeq(s, a, n)) = n - a + 1
      /\ \A i \in 1 .. n - a + 1 : SubSeq(s, a, n)[i] = s[a + i - 1]
  BY <1>1, <1>2, SubSeqProperties
<1>4. /\ SubSeq(t, a, n + 1) \in Seq(Frames)
      /\ Len(SubSeq(t, a, n + 1)) = n + 1 - a + 1
      /\ \A i \in 1 .. n + 1 - a + 1 : SubSeq(t, a, n + 1)[i] = t[a + i - 1]
  <2>1. \A i \in a .. n + 1 : t[i] \in Frames
    BY <1>1
  <2> QED BY <1>1, <2>1, SubSeqProperties
<1>5. SubSeq(t, a, n + 1) = Append(SubSeq(s, a, n), f)
  <2> DEFINE u == SubSeq(t, a, n + 1)
             v == SubSeq(s, a, n)
  <2>1. /\ Append(v, f) \in Seq(Frames) /\ Len(Append(v, f)) = n - a + 1 + 1
        /\ Append(v, f)[n - a + 1 + 1] = f
        /\ \A i \in 1 .. n - a + 1 : Append(v, f)[i] = v[i]
    <3> HIDE DEF v
    <3>1. v \in Seq(Frames) /\ Len(v) = n - a + 1
      BY <1>3 DEF v
    <3> QED BY <3>1
  <2>2. ASSUME NEW i \in 1 .. Len(u)
        PROVE  u[i] = Append(v, f)[i]
    <3>1. i \in 1 .. n + 1 - a + 1 /\ a + i - 1 \in 1 .. n + 1
      BY <1>1, <1>4
    <3>2. CASE i = n - a + 1 + 1
      <4>1. a + i - 1 = n + 1
        BY <1>1, <3>2
      <4> HIDE DEF u, v
      <4>2. u[i] = t[a + i - 1]
        BY <1>4, <3>1 DEF u
      <4> QED BY <1>1, <2>1, <3>2, <4>1, <4>2
    <3>3. CASE i \in 1 .. n - a + 1
      <4>1. a + i - 1 \in 1 .. n
        BY <1>1, <3>3
      <4> HIDE DEF u, v
      <4>2. u[i] = t[a + i - 1] /\ v[i] = s[a + i - 1]
        BY <1>3, <1>4, <3>1, <3>3 DEF u, v
      <4> QED BY <1>1, <2>1, <3>3, <4>1, <4>2
    <3> QED BY <1>1, <3>1, <3>2, <3>3
  <2>3. u \in Seq(Frames) /\ Len(u) = Len(Append(v, f))
    BY <1>1, <1>4, <2>1
  <2> HIDE DEF u, v
  <2>4. u = Append(v, f)
    BY <2>1, <2>2, <2>3, SeqEqual
  <2> QED BY <2>4 DEF u, v
<1>6. ASSUME NEW b \in 1 .. n
      PROVE  SubSeq(t, a, b) = SubSeq(s, a, b)
  <2>1. /\ SubSeq(s, a, b) \in Seq(Frames)
        /\ Len(SubSeq(s, a, b)) = IF a <= b THEN b - a + 1 ELSE 0
        /\ \A i \in 1 .. b - a + 1 : SubSeq(s, a, b)[i] = s[a + i - 1]
    <3>1. \A i \in a .. b : s[i] \in Frames
      BY <1>1, <1>2
    <3> QED BY <1>1, <3>1, SubSeqProperties
  <2>2. /\ SubSeq(t, a, b) \in Seq(Frames)
        /\ Len(SubSeq(t, a, b)) = IF a <= b THEN b - a + 1 ELSE 0
        /\ \A i \in 1 .. b - a + 1 : SubSeq(t, a, b)[i] = t[a + i - 1]
    <3>1. \A i \in a .. b : t[i] \in Frames
      BY <1>1, <1>2
    <3> QED BY <1>1, <3>1, SubSeqProperties
  <2>3. ASSUME NEW i \in 1 .. Len(SubSeq(t, a, b))
        PROVE  SubSeq(t, a, b)[i] = SubSeq(s, a, b)[i]
    <3>1. i \in 1 .. b - a + 1 /\ a + i - 1 \in 1 .. n
      BY <1>1, <2>2
    <3> QED BY <1>1, <2>1, <2>2, <3>1
  <2> QED BY <2>1, <2>2, <2>3, SeqEqual
<1> QED BY <1>1, <1>3, <1>5, <1>6 DEF t

\* Where the k-th block of a length lies.
LEMMA BlockInside ==
  ASSUME NEW n \in Nat, NEW len \in Nat \ {0}, NEW k \in 1 .. n \div len
  PROVE  (k - 1) * len + 1 \in 1 .. n + 1 /\ k * len \in 1 .. n
         /\ k * len - ((k - 1) * len + 1) + 1 = len
<1>1. n \div len \in Nat /\ (n % len) \in 0 .. len - 1 /\ n = (n \div len) * len + (n % len)
  BY Euclid
<1> DEFINE q == n \div len
<1>2. q \in Nat /\ q * len <= n /\ q * len \in Nat
  BY <1>1
<1> HIDE DEF q
<1>3. k \in 1 .. q /\ k \in Nat /\ k - 1 \in Nat
  BY <1>2 DEF q
<1>4. k * len <= q * len
  BY <1>2, <1>3, Grow
<1>5. (k - 1) * len \in Nat /\ k * len = (k - 1) * len + len
  BY <1>3
<1> QED BY <1>2, <1>4, <1>5

\* Pieces holds sums.
LEMMA PiecesType ==
  ASSUME NEW s \in Seq(Frames), NEW len \in Nat \ {0}
  PROVE  /\ Pieces(s, len).pos \in Nat /\ Pieces(s, len).sum \in Nat
         /\ Pieces(s, len).blocks \in Seq(Nat)
         /\ Len(Pieces(s, len).blocks) = Len(s) \div len
         /\ \A k \in 1 .. Len(s) \div len :
              Pieces(s, len).blocks[k] = EnergyOf(SubSeq(s, (k - 1) * len + 1, k * len))
<1> DEFINE n == Len(s)
           q == n \div len
           r == n % len
           blocks == [k \in 1 .. q |-> EnergyOf(SubSeq(s, (k - 1) * len + 1, k * len))]
<1>1. n \in Nat /\ \A i \in 1 .. n : s[i] \in Frames
  OBVIOUS
<1>2. q \in Nat /\ r \in 0 .. len - 1 /\ n = q * len + r /\ q * len \in Nat
  <2> HIDE DEF n
  <2> QED BY <1>1, Euclid
<1>3. Pieces(s, len) = [pos |-> r, sum |-> EnergyOf(SubSeq(s, n - r + 1, n)), blocks |-> blocks]
  BY DEF Pieces
<1>4. SubSeq(s, n - r + 1, n) \in Seq(Frames)
  <2>1. \A i \in n - r + 1 .. n : s[i] \in Frames
    BY <1>1, <1>2
  <2> HIDE DEF r, n
  <2>2. n - r + 1 \in Int /\ n \in Int
    BY <1>1, <1>2
  <2> QED BY <2>1, <2>2, SubSeqProperties
<1>5. ASSUME NEW k \in 1 .. q
      PROVE  EnergyOf(SubSeq(s, (k - 1) * len + 1, k * len)) \in Nat
  <2>1. (k - 1) * len + 1 \in 1 .. n + 1 /\ k * len \in 1 .. n
    BY <1>1, BlockInside
  <2>2. SubSeq(s, (k - 1) * len + 1, k * len) \in Seq(Frames)
    <3> DEFINE a == (k - 1) * len + 1
               b == k * len
    <3>1. a \in Int /\ b \in Int /\ \A i \in a .. b : s[i] \in Frames
      <4>1. a \in 1 .. n + 1 /\ b \in 1 .. n
        BY <2>1
      <4> HIDE DEF a, b, n
      <4> QED BY <1>1, <4>1
    <3> HIDE DEF a, b
    <3>2. SubSeq(s, a, b) \in Seq(Frames)
      BY <3>1, SubSeqProperties
    <3> QED BY <3>2 DEF a, b
  <2> QED BY <2>2, EnergyOfType
<1>6. blocks \in [1 .. q -> Nat]
  BY <1>5
<1>7. blocks \in Seq(Nat) /\ Len(blocks) = q
  <2> HIDE DEF blocks, q
  <2> QED BY <1>2, <1>6, FunSeq
<1>8. EnergyOf(SubSeq(s, n - r + 1, n)) \in Nat
  BY <1>4, EnergyOfType
<1>9. \A k \in 1 .. q : blocks[k] = EnergyOf(SubSeq(s, (k - 1) * len + 1, k * len))
  OBVIOUS
<1> QED
  <2> HIDE DEF blocks, r
  <2> QED BY <1>2, <1>3, <1>7, <1>8, <1>9

\* A frame more: it joins the piece at the end, or completes it.
LEMMA SplitStep ==
  ASSUME NEW s \in Seq(Frames), NEW f \in Frames, NEW len \in Nat \ {0}
  PROVE  Split(Pieces(s, len), len, f) = Pieces(Append(s, f), len)
<1> DEFINE n == Len(s)
           t == Append(s, f)
           q == n \div len
           r == n % len
           P == Pieces(s, len)
           B(k) == EnergyOf(SubSeq(s, (k - 1) * len + 1, k * len))
           C(k) == EnergyOf(SubSeq(t, (k - 1) * len + 1, k * len))
           rest == EnergyOf(SubSeq(s, n - r + 1, n))
<1>1. n \in Nat /\ t \in Seq(Frames) /\ Len(t) = n + 1
  OBVIOUS
<1>2. q \in Nat /\ r \in 0 .. len - 1 /\ n = q * len + r /\ q * len \in Nat
  <2> HIDE DEF n
  <2> QED BY <1>1, Euclid
<1>3. P = [pos |-> r, sum |-> rest, blocks |-> [k \in 1 .. q |-> B(k)]]
  BY DEF Pieces
<1>4. P.blocks \in Seq(Nat) /\ Len(P.blocks) = q /\ rest \in Nat
      /\ \A k \in 1 .. q : P.blocks[k] = B(k)
  <2>1. /\ P.sum \in Nat /\ P.blocks \in Seq(Nat) /\ Len(P.blocks) = q
        /\ \A k \in 1 .. q : P.blocks[k] = B(k)
    BY PiecesType
  <2>2. P.sum = rest
    BY <1>3
  <2> QED BY <2>1, <2>2
<1>5. \A k \in 1 .. q : C(k) = B(k)
  <2> TAKE k \in 1 .. q
  <2>1. (k - 1) * len + 1 \in 1 .. n + 1 /\ k * len \in 1 .. n
    BY <1>1, BlockInside
  <2> HIDE DEF t
  <2>2. SubSeq(t, (k - 1) * len + 1, k * len) = SubSeq(s, (k - 1) * len + 1, k * len)
    BY <2>1, EndOfAppend DEF t
  <2> QED BY <2>2
<1>6. /\ EnergyOf(SubSeq(t, n - r + 1, n + 1)) = rest + Energy(f)
      /\ n - r + 1 \in 1 .. n + 1
  <2>1. n - r + 1 \in 1 .. n + 1
    BY <1>1, <1>2
  <2>2. /\ SubSeq(t, n - r + 1, n + 1) = Append(SubSeq(s, n - r + 1, n), f)
        /\ SubSeq(s, n - r + 1, n) \in Seq(Frames)
    BY <2>1, EndOfAppend
  <2> HIDE DEF t, r, n
  <2> QED BY <2>1, <2>2, EnergyOfAppend
<1> HIDE DEF n, t, q, r, P, rest
<1>7. Energy(f) \in Nat
  BY EnergyType
<1>8. CASE r + 1 < len
  <2>1. (n + 1) \div len = q /\ (n + 1) % len = r + 1
    <3>1. n + 1 = q * len + (r + 1) /\ r + 1 \in 0 .. len - 1 /\ n + 1 \in Nat
      BY <1>1, <1>2, <1>8
    <3> QED BY <1>2, <3>1, EuclidUnique
  <2>2. Split(P, len, f) = [pos |-> r + 1, sum |-> rest + Energy(f),
                            blocks |-> [k \in 1 .. q |-> B(k)]]
    <3>1. P.pos = r /\ P.sum = rest /\ P.blocks = [k \in 1 .. q |-> B(k)]
      BY <1>3
    <3> HIDE DEF B
    <3> QED BY <1>2, <3>1, <1>8 DEF Split
  <2>3. (n + 1) - (r + 1) + 1 = n - r + 1
    BY <1>1, <1>2
  <2>4. Pieces(t, len) = [pos |-> r + 1, sum |-> rest + Energy(f),
                          blocks |-> [k \in 1 .. q |-> C(k)]]
    BY <1>1, <1>6, <2>1, <2>3 DEF Pieces
  <2>5. [k \in 1 .. q |-> C(k)] = [k \in 1 .. q |-> B(k)]
    <3> HIDE DEF B, C
    <3> QED BY <1>5
  <2> HIDE DEF B, C
  <2> QED BY <2>2, <2>4, <2>5 DEF P, t
<1>9. CASE r + 1 = len
  <2>1. (n + 1) \div len = q + 1 /\ (n + 1) % len = 0
    <3>1. n + 1 = (q + 1) * len + 0 /\ 0 \in 0 .. len - 1 /\ n + 1 \in Nat /\ q + 1 \in Nat
      BY <1>1, <1>2, <1>9
    <3> QED BY <3>1, EuclidUnique
  <2>2. Split(P, len, f) = [pos |-> 0, sum |-> 0, blocks |-> Append(P.blocks, rest + Energy(f))]
    <3>1. P.pos = r /\ P.sum = rest
      BY <1>3
    <3> QED BY <1>2, <3>1, <1>9 DEF Split
  <2>3. EnergyOf(SubSeq(t, (n + 1) - 0 + 1, n + 1)) = 0
    <3>1. SubSeq(t, (n + 1) - 0 + 1, n + 1) = <<>>
      <4>1. (n + 1) - 0 + 1 \in Int /\ n + 1 \in Int /\ n + 1 < (n + 1) - 0 + 1
        BY <1>1
      <4> QED BY <4>1, SubSeqEmpty
    <3> QED BY <3>1, EnergyOfEmpty
  <2>4. Pieces(t, len) = [pos |-> 0, sum |-> 0, blocks |-> [k \in 1 .. q + 1 |-> C(k)]]
    BY <1>1, <2>1, <2>3 DEF Pieces
  <2>5. C(q + 1) = rest + Energy(f)
    <3>1. (q + 1) * len = n + 1 /\ ((q + 1) - 1) * len + 1 = n - r + 1
      <4>1. (q + 1) * len = q * len + len /\ (q + 1) - 1 = q
        BY <1>2
      <4> QED BY <1>1, <1>2, <1>9, <4>1
    <3> QED BY <1>6, <3>1
  <2>6. Append(P.blocks, rest + Energy(f)) = [k \in 1 .. q + 1 |-> C(k)]
    <3> DEFINE u == Append(P.blocks, rest + Energy(f))
               v == [k \in 1 .. q + 1 |-> C(k)]
    <3>1. /\ u \in Seq(Nat) /\ Len(u) = q + 1 /\ u[q + 1] = rest + Energy(f)
          /\ \A k \in 1 .. q : u[k] = P.blocks[k]
      BY <1>2, <1>4, <1>7
    <3> HIDE DEF u, B, C
    <3>2. ASSUME NEW k \in 1 .. q + 1
          PROVE  u[k] = C(k)
      <4>1. CASE k = q + 1
        BY <2>5, <3>1, <4>1
      <4>2. CASE k \in 1 .. q
        BY <1>4, <1>5, <3>1, <4>2
      <4> QED BY <1>2, <4>1, <4>2
    <3>3. u \in [1 .. q + 1 -> Nat]
      BY <3>1, LenProperties
    <3>4. u = v
      BY <3>2, <3>3
    <3> QED BY <3>4 DEF u
  <2> HIDE DEF B, C
  <2> QED BY <2>2, <2>4, <2>6 DEF P, t
<1> QED BY <1>2, <1>8, <1>9

-----------------------------------------------------------------------------
(* The meter. *)

Cuts == [pos : Nat, sum : Nat, blocks : Seq(Nat)]
Meters == [peak : Nat, sumSq : Nat, frames : Nat, sub : Cuts, dr : Cuts]

LEMMA HearType ==
  ASSUME NEW m \in Meters, NEW f \in Frames
  PROVE  Hear(m, f) \in Meters
<1>1. Energy(f) \in Nat /\ f.peak \in Nat
  BY EnergyType, ConformAssumption
<1>2. ASSUME NEW cut \in Cuts, NEW len \in Nat
      PROVE  Split(cut, len, f) \in Cuts
  <2>1. cut.pos \in Nat /\ cut.sum + Energy(f) \in Nat /\ cut.blocks \in Seq(Nat)
    BY <1>1 DEF Cuts
  <2>2. Append(cut.blocks, cut.sum + Energy(f)) \in Seq(Nat)
    BY <2>1
  <2> QED BY <2>1, <2>2 DEF Split, Cuts
<1>3. m.sub \in Cuts /\ m.dr \in Cuts /\ m.peak \in Nat /\ m.sumSq \in Nat /\ m.frames \in Nat
  BY DEF Meters
<1>4. Split(m.sub, SubLen, f) \in Cuts /\ Split(m.dr, DrLen, f) \in Cuts
  BY <1>2, <1>3, LoudnessAssumption
<1> HIDE DEF Cuts
<1> QED BY <1>1, <1>3, <1>4 DEF Hear, Meters

\* MeterBlock hears the frames of the block one after the other.
LEMMA MeterFold ==
  ASSUME NEW m \in Meters, NEW b \in Seq(Frames)
  PROVE  \E e : /\ e[0] = m /\ MeterBlock(m, b) = e[Len(b)]
                /\ \A k \in 1 .. Len(b) : e[k] = Hear(e[k - 1], b[k])
<1> DEFINE D == 1 .. Len(b)
           Solves(g) == g = [t \in SUBSET DOMAIN b |->
                               IF t = {} THEN m ELSE Hear(g[t \ {Max(t)}], b[Max(t)])]
           iter == CHOOSE g : Solves(g)
<1>1. Len(b) \in Nat /\ DOMAIN b = D /\ \A i \in D : b[i] \in Frames
  OBVIOUS
<1>2. MeterBlock(m, b) = iter[DOMAIN b]
  BY DEF MeterBlock, FoldLeft, MapThenFoldSet
<1>3. \E g : Solves(g)
  <2> DEFINE step == [v \in D \X Meters |-> Hear(v[2], b[v[1]])]
  <2>1. \A i \in D, x \in Meters : step[<<i, x>>] = Hear(x, b[i]) /\ <<i, x>> \in D \X Meters
    OBVIOUS
  <2>2. step \in [D \X Meters -> Meters]
    BY <1>1, HearType
  <2> HIDE DEF step
  <2>3. PICK g \in [SUBSET D -> Meters] : IsSeqFold(g, Len(b), m, step)
    BY <1>1, <2>2, SeqFold
  <2>4. ASSUME NEW t \in SUBSET D
        PROVE  g[t] = IF t = {} THEN m ELSE Hear(g[t \ {Max(t)}], b[Max(t)])
    <3>1. CASE t # {}
      <4>1. Max(t) \in D /\ t \ {Max(t)} \in SUBSET D
        BY <1>1, <3>1, UpTo
      <4>2. g[t \ {Max(t)}] \in Meters
        BY <4>1
      <4>3. g[t] = step[<<Max(t), g[t \ {Max(t)}]>>]
        BY <2>3, <3>1 DEF IsSeqFold
      <4> HIDE DEF D
      <4> QED BY <2>1, <3>1, <4>1, <4>2, <4>3
    <3> QED BY <2>3, <3>1 DEF IsSeqFold
  <2>5. Solves(g)
    BY <1>1, <2>4
  <2> QED BY <2>5
<1>4. Solves(iter)
  BY <1>3
<1> DEFINE e == [k \in 0 .. Len(b) |-> iter[1 .. k]]
<1>5. \A t \in SUBSET D : iter[t] = IF t = {} THEN m ELSE Hear(iter[t \ {Max(t)}], b[Max(t)])
  <2> HIDE DEF iter
  <2> QED BY <1>1, <1>4
<1> HIDE DEF iter
<1>6. e[0] = m
  <2>1. iter[{}] = m
    BY <1>5
  <2>2. 1 .. 0 = {} /\ 0 \in 0 .. Len(b)
    BY <1>1
  <2> QED BY <2>1, <2>2
<1>7. ASSUME NEW k \in 1 .. Len(b)
      PROVE  e[k] = Hear(e[k - 1], b[k])
  <2>1. Max(1 .. k) = k /\ (1 .. k) \ {k} = 1 .. k - 1 /\ 1 .. k \in SUBSET D /\ 1 .. k # {}
    BY <1>1, UpTo
  <2>2. iter[1 .. k] = Hear(iter[1 .. k - 1], b[k])
    BY <1>5, <2>1
  <2>3. k \in 0 .. Len(b) /\ k - 1 \in 0 .. Len(b)
    BY <1>1
  <2> QED BY <2>2, <2>3
<1>8. MeterBlock(m, b) = e[Len(b)]
  BY <1>1, <1>2
<1> QED BY <1>6, <1>7, <1>8

\* What the meter has of the frames it heard.
Heard(m, s) ==
  /\ m.sub = Pieces(s, SubLen) /\ m.dr = Pieces(s, DrLen)
  /\ m.sumSq = EnergyOf(s) /\ m.frames = Len(s)
  /\ \A i \in 1 .. Len(s) : s[i].peak <= m.peak

LEMMA HearStep ==
  ASSUME NEW m \in Meters, NEW s \in Seq(Frames), NEW f \in Frames, Heard(m, s)
  PROVE  Heard(Hear(m, f), Append(s, f))
<1> DEFINE h == Hear(m, f)
           t == Append(s, f)
<1>1. Len(t) = Len(s) + 1 /\ Len(s) \in Nat /\ t[Len(s) + 1] = f
      /\ \A i \in 1 .. Len(s) : t[i] = s[i]
  OBVIOUS
<1>2. h.sub = Pieces(t, SubLen) /\ h.dr = Pieces(t, DrLen)
  BY SplitStep, LoudnessAssumption DEF Hear, Heard
<1>3. h.sumSq = EnergyOf(t) /\ h.frames = Len(t)
  BY <1>1, EnergyOfAppend DEF Hear, Heard
<1>4. h.peak = IF f.peak > m.peak THEN f.peak ELSE m.peak
  BY DEF Hear
<1>5. f.peak \in Nat /\ m.peak \in Nat
  BY ConformAssumption DEF Meters
<1> HIDE DEF h, t
<1>6. ASSUME NEW i \in 1 .. Len(t)
      PROVE  t[i].peak <= h.peak
  <2>1. CASE i = Len(s) + 1
    BY <1>1, <1>4, <1>5, <2>1
  <2>2. CASE i \in 1 .. Len(s)
    <3>1. s[i].peak <= m.peak /\ s[i].peak \in Nat
      BY <2>2, ConformAssumption DEF Heard
    <3> QED BY <1>1, <1>4, <1>5, <2>2, <3>1
  <2> QED BY <1>1, <2>1, <2>2
<1> QED BY <1>2, <1>3, <1>6 DEF Heard, h, t

\* A block handed over, however long.
LEMMA BlockHeard ==
  ASSUME NEW m \in Meters, NEW s \in Seq(Frames), NEW b \in Seq(Frames), Heard(m, s)
  PROVE  MeterBlock(m, b) \in Meters /\ Heard(MeterBlock(m, b), s \o b)
<1>1. PICK e : /\ e[0] = m /\ MeterBlock(m, b) = e[Len(b)]
               /\ \A k \in 1 .. Len(b) : e[k] = Hear(e[k - 1], b[k])
  BY MeterFold
<1> DEFINE P(k) == s \o SubSeq(b, 1, k)
           T == {k \in Nat : k <= Len(b) => e[k] \in Meters /\ Heard(e[k], P(k))}
<1>2. 0 \in T
  <2>1. SubSeq(b, 1, 0) = <<>>
    BY SubSeqEmpty
  <2>2. P(0) = s
    BY <2>1, ConcatEmptySeq
  <2> QED BY <1>1, <2>2
<1>3. ASSUME NEW k \in Nat, k \in T
      PROVE  k + 1 \in T
  <2> SUFFICES ASSUME k + 1 <= Len(b) PROVE e[k + 1] \in Meters /\ Heard(e[k + 1], P(k + 1))
    OBVIOUS
  <2>1. k + 1 \in 1 .. Len(b) /\ (k + 1) - 1 = k /\ k <= Len(b) /\ b[k + 1] \in Frames
    OBVIOUS
  <2>2. SubSeq(b, 1, k) \in Seq(Frames) /\ P(k) \in Seq(Frames)
    <3>1. \A i \in 1 .. k : b[i] \in Frames
      BY <2>1
    <3>2. SubSeq(b, 1, k) \in Seq(Frames)
      BY <3>1, SubSeqProperties
    <3> QED BY <3>2, ConcatProperties
  <2>3. SubSeq(b, 1, k + 1) = SubSeq(b, 1, k) \o <<b[k + 1]>>
    <3>1. 1 \in 1 .. Len(b) /\ k + 1 \in 1 .. Len(b)
      BY <2>1
    <3> QED BY <2>1, <3>1, SubSeqRecursiveSecond
  <2>4. P(k + 1) = P(k) \o <<b[k + 1]>>
    <3>1. <<b[k + 1]>> \in Seq(Frames)
      BY <2>1
    <3>2. P(k + 1) = s \o (SubSeq(b, 1, k) \o <<b[k + 1]>>)
      BY <2>3
    <3> HIDE DEF T
    <3> QED BY <2>2, <3>1, <3>2, ConcatAssociative
  <2>5. P(k + 1) = Append(P(k), b[k + 1])
    <3> HIDE DEF P
    <3>1. P(k) \o <<b[k + 1]>> = Append(P(k), b[k + 1])
      BY <2>1, <2>2
    <3> QED BY <2>4, <3>1
  <2>6. e[k] \in Meters /\ Heard(e[k], P(k)) /\ e[k + 1] = Hear(e[k], b[k + 1])
    BY <1>1, <1>3, <2>1
  <2> HIDE DEF P
  <2> QED BY <2>1, <2>2, <2>5, <2>6, HearType, HearStep
<1> HIDE DEF T
<1>4. Len(b) \in Nat
  OBVIOUS
<1>5. Len(b) \in T
  BY <1>2, <1>3, <1>4, Induction
<1>6. P(Len(b)) = s \o b
  BY SubSeqFull
<1> HIDE DEF P
<1>7. Heard(e[Len(b)], P(Len(b))) /\ e[Len(b)] \in Meters
  BY <1>4, <1>5 DEF T
<1> QED BY <1>1, <1>6, <1>7

LEMMA NothingHeard == Begin \in Meters /\ Heard(Begin, <<>>)
<1>1. NoCut \in Cuts
  BY DEF NoCut, Cuts
<1>2. Begin \in Meters
  <2> HIDE DEF NoCut, Cuts
  <2> QED BY <1>1 DEF Begin, Meters
<1>3. ASSUME NEW len \in Nat \ {0}
      PROVE  Pieces(<<>>, len) = NoCut
  <2>1. 0 \div len = 0 /\ 0 % len = 0
    <3>1. 0 = 0 * len + 0 /\ 0 \in 0 .. len - 1
      OBVIOUS
    <3> QED BY <3>1, EuclidUnique
  <2>2. SubSeq(<<>>, 0 - 0 + 1, 0) = <<>>
    BY SubSeqEmpty
  <2>3. [k \in 1 .. 0 |-> EnergyOf(SubSeq(<<>>, (k - 1) * len + 1, k * len))] = <<>>
    <3> DEFINE g == [k \in 1 .. 0 |-> EnergyOf(SubSeq(<<>>, (k - 1) * len + 1, k * len))]
    <3>1. g \in [1 .. 0 -> Nat]
      OBVIOUS
    <3> HIDE DEF g
    <3>2. g \in Seq(Nat) /\ Len(g) = 0
      BY <3>1, FunSeq
    <3>3. g = <<>>
      BY <3>2
    <3> QED BY <3>3 DEF g
  <2>4. Len(<<>>) = 0
    OBVIOUS
  <2> QED BY <2>1, <2>2, <2>3, <2>4, EnergyOfEmpty DEF Pieces, NoCut
<1>4. Begin.sub = NoCut /\ Begin.dr = NoCut /\ Begin.sumSq = 0 /\ Begin.frames = 0
  BY DEF Begin
<1>5. Heard(Begin, <<>>)
  <2>1. Len(<<>>) = 0 /\ 1 .. 0 = {}
    OBVIOUS
  <2>2. Pieces(<<>>, SubLen) = NoCut /\ Pieces(<<>>, DrLen) = NoCut
    BY <1>3, LoudnessAssumption
  <2> QED BY <1>4, <2>1, <2>2, EnergyOfEmpty DEF Heard
<1> QED BY <1>2, <1>5

-----------------------------------------------------------------------------
(* Sums over the elements of a set, and the gates. *)

\* Adds(g, S, w): g sums up w over every part of S, whatever comes first.
Adds(g, S, w) ==
  /\ g[{}] = 0
  /\ \A t \in SUBSET S : \A x \in t : g[t] = w[x] + g[t \ {x}]

LEMMA SumFold ==
  ASSUME NEW S, IsFiniteSet(S), NEW w, \A i \in S : w[i] \in Nat
  PROVE  \E g \in [SUBSET S -> Nat] : Adds(g, S, w) /\ Sum(w, S) = g[S]
<1> DEFINE Solves(g) == g = [t \in SUBSET S |->
                               IF t = {} THEN 0
                               ELSE w[CHOOSE x \in t : TRUE] + g[t \ {CHOOSE x \in t : TRUE}]]
           iter == CHOOSE g : Solves(g)
           pick == [t \in SUBSET S |-> CHOOSE x \in t : TRUE]
           step == [v \in S \X Nat |-> w[v[1]] + v[2]]
<1>1. Sum(w, S) = iter[S]
  BY DEF Sum, MapThenSumSet, MapThenFoldSet
<1>2. Picks(pick, S) /\ \A t \in SUBSET S : pick[t] = CHOOSE x \in t : TRUE
  BY DEF Picks
<1>3. \A i \in S, x \in Nat : step[<<i, x>>] = w[i] + x /\ <<i, x>> \in S \X Nat
  OBVIOUS
<1>4. step \in [S \X Nat -> Nat]
  OBVIOUS
<1> HIDE DEF pick, step
<1>5. PICK g \in [SUBSET S -> Nat] : IsFold(g, S, 0, step, pick)
  BY <1>2, <1>4, FoldExists
<1>6. ASSUME NEW t \in SUBSET S, t # {}
      PROVE  pick[t] \in t /\ g[t] = w[pick[t]] + g[t \ {pick[t]}]
  <2>1. pick[t] \in t /\ t \ {pick[t]} \in SUBSET S
    BY <1>2, <1>6 DEF Picks
  <2>2. g[t \ {pick[t]}] \in Nat /\ pick[t] \in S
    BY <2>1
  <2>3. g[t] = step[<<pick[t], g[t \ {pick[t]}]>>]
    BY <1>5, <1>6 DEF IsFold
  <2> QED BY <1>3, <2>1, <2>2, <2>3
<1>7. g[{}] = 0
  BY <1>5 DEF IsFold
<1>8. Solves(g)
  <2>1. \A t \in SUBSET S : g[t] = IF t = {} THEN 0
          ELSE w[CHOOSE x \in t : TRUE] + g[t \ {CHOOSE x \in t : TRUE}]
    BY <1>2, <1>6, <1>7
  <2> QED BY <2>1
<1>9. Solves(iter)
  BY <1>8
<1>10. iter = g
  <2> DEFINE C == {t \in SUBSET S : iter[t] = g[t]}
  <2>1. \A t \in SUBSET S : iter[t] = IF t = {} THEN 0
          ELSE w[CHOOSE x \in t : TRUE] + iter[t \ {CHOOSE x \in t : TRUE}]
    <3> HIDE DEF iter
    <3> QED BY <1>9
  <2>2. iter = [t \in SUBSET S |-> iter[t]]
    <3> HIDE DEF iter
    <3> QED BY <1>9
  <2> HIDE DEF iter, Solves
  <2>3. {} \in C
    BY <1>7, <2>1
  <2>4. ASSUME NEW t \in SUBSET S, t # {}, \A x \in t : t \ {x} \in C
        PROVE  t \in C
    <3>1. iter[t] = w[pick[t]] + iter[t \ {pick[t]}]
      BY <1>2, <2>1, <2>4
    <3> QED BY <1>6, <2>4, <3>1
  <2> HIDE DEF C
  <2>5. \A t \in SUBSET S : t \in C
    BY <2>3, <2>4, SubsetInduction
  <2> QED BY <2>2, <2>5 DEF C
<1>11. \A t \in SUBSET S : \A x \in t : g[t] = w[x] + g[t \ {x}]
  <2> DEFINE C == {t \in SUBSET S : \A x \in t : g[t] = w[x] + g[t \ {x}]}
  <2>1. {} \in C
    OBVIOUS
  <2>2. ASSUME NEW t \in SUBSET S, t # {}, \A x \in t : t \ {x} \in C
        PROVE  t \in C
    <3> SUFFICES ASSUME NEW x \in t, x # pick[t]
                 PROVE  g[t] = w[x] + g[t \ {x}]
      BY <1>6, <2>2
    <3> DEFINE y == pick[t]
               u == t \ {x, y}
    <3>1. y \in t /\ g[t] = w[y] + g[t \ {y}]
      BY <1>6, <2>2
    <3>2. (t \ {y}) \ {x} = u /\ (t \ {x}) \ {y} = u /\ u \in SUBSET S
      OBVIOUS
    <3>3. x \in t \ {y} /\ y \in t \ {x}
      BY <3>1
    <3> HIDE DEF y, u
    <3>4. g[t \ {y}] = w[x] + g[u]
      BY <2>2, <3>1, <3>2, <3>3
    <3>5. g[t \ {x}] = w[y] + g[u]
      BY <2>2, <3>2, <3>3
    <3>6. w[x] \in Nat /\ w[y] \in Nat /\ g[u] \in Nat
      BY <3>1, <3>2
    <3> QED BY <3>1, <3>4, <3>5, <3>6
  <2> HIDE DEF C
  <2>3. \A t \in SUBSET S : t \in C
    BY <2>1, <2>2, SubsetInduction
  <2> QED BY <2>3 DEF C
<1> HIDE DEF iter
<1> QED BY <1>1, <1>7, <1>10, <1>11 DEF Adds

\* Two sums of the same numbers are the same.
LEMMA SumAgree ==
  ASSUME NEW S, IsFiniteSet(S), NEW w, \A i \in S : w[i] \in Nat, NEW g, Adds(g, S, w),
         NEW t \in SUBSET S
  PROVE  Sum(w, t) = g[t]
<1>1. IsFiniteSet(t) /\ \A i \in t : w[i] \in Nat
  BY FS_Subset
<1>2. PICK h \in [SUBSET t -> Nat] : Adds(h, t, w) /\ Sum(w, t) = h[t]
  BY <1>1, SumFold
<1> DEFINE C == {u \in SUBSET t : h[u] = g[u]}
<1>3. {} \in C
  BY <1>2 DEF Adds
<1>4. ASSUME NEW u \in SUBSET t, u # {}, \A x \in u : u \ {x} \in C
      PROVE  u \in C
  <2>1. PICK x \in u : TRUE
    BY <1>4
  <2>2. h[u] = w[x] + h[u \ {x}] /\ g[u] = w[x] + g[u \ {x}]
    BY <1>2 DEF Adds
  <2> QED BY <1>4, <2>2
<1> HIDE DEF C
<1>5. \A u \in SUBSET t : u \in C
  BY <1>1, <1>3, <1>4, SubsetInduction
<1>6. t \in C
  BY <1>5
<1> QED BY <1>2, <1>6 DEF C

\* A sum, one element more.
LEMMA SumAdd ==
  ASSUME NEW S, IsFiniteSet(S), NEW w, \A i \in S : w[i] \in Nat
  PROVE  /\ Sum(w, {}) = 0 /\ \A t \in SUBSET S : Sum(w, t) \in Nat
         /\ \A t \in SUBSET S : \A x \in t : Sum(w, t) = w[x] + Sum(w, t \ {x})
<1>1. PICK g \in [SUBSET S -> Nat] : Adds(g, S, w)
  BY SumFold
<1>2. \A t \in SUBSET S : Sum(w, t) = g[t]
  BY <1>1, SumAgree
<1>3. Sum(w, {}) = 0
  BY <1>1, <1>2 DEF Adds
<1>4. ASSUME NEW t \in SUBSET S, NEW x \in t
      PROVE  Sum(w, t) = w[x] + Sum(w, t \ {x})
  <2>1. g[t] = w[x] + g[t \ {x}]
    BY <1>1 DEF Adds
  <2> QED BY <1>2, <2>1
<1> QED BY <1>1, <1>2, <1>3, <1>4

\* What is put aside and what is kept make up the whole.
LEMMA SumSplit ==
  ASSUME NEW S, IsFiniteSet(S), NEW w, \A i \in S : w[i] \in Nat, NEW T \in SUBSET S
  PROVE  Sum(w, S) = Sum(w, T) + Sum(w, S \ T)
<1>1. /\ Sum(w, {}) = 0 /\ \A t \in SUBSET S : Sum(w, t) \in Nat
      /\ \A t \in SUBSET S : \A x \in t : Sum(w, t) = w[x] + Sum(w, t \ {x})
  BY SumAdd
<1> DEFINE C == {t \in SUBSET S : Sum(w, S) = Sum(w, t) + Sum(w, S \ t)}
<1>2. {} \in C
  <2>1. S \ {} = S /\ S \in SUBSET S
    OBVIOUS
  <2> QED BY <1>1, <2>1
<1>3. ASSUME NEW t \in SUBSET S, t # {}, \A x \in t : t \ {x} \in C
      PROVE  t \in C
  <2>1. PICK x \in t : TRUE
    BY <1>3
  <2> DEFINE u == t \ {x}
             rest == S \ u
  <2>2. u \in SUBSET S /\ rest \in SUBSET S /\ x \in rest /\ rest \ {x} = S \ t
        /\ S \ t \in SUBSET S
    OBVIOUS
  <2>3. Sum(w, S) = Sum(w, u) + Sum(w, rest)
    BY <1>3
  <2> HIDE DEF rest
  <2>4. Sum(w, t) = w[x] + Sum(w, u)
    BY <1>1
  <2> HIDE DEF u
  <2>5. Sum(w, rest) = w[x] + Sum(w, S \ t)
    BY <1>1, <2>2
  <2>6. w[x] \in Nat /\ Sum(w, u) \in Nat /\ Sum(w, S \ t) \in Nat
    BY <1>1, <2>2
  <2> QED BY <2>3, <2>4, <2>5, <2>6
<1> HIDE DEF C
<1>4. \A t \in SUBSET S : t \in C
  BY <1>2, <1>3, SubsetInduction
<1> QED BY <1>4 DEF C

\* The mean exceeds no bound that no element exceeds.
LEMMA SumBound ==
  ASSUME NEW S, IsFiniteSet(S), NEW w, \A i \in S : w[i] \in Nat,
         NEW n \in Nat, NEW c \in Nat
  PROVE  (\A i \in S : w[i] * n <= c) => Sum(w, S) * n <= c * Cardinality(S)
<1>1. /\ Sum(w, {}) = 0 /\ \A t \in SUBSET S : Sum(w, t) \in Nat
      /\ \A t \in SUBSET S : \A x \in t : Sum(w, t) = w[x] + Sum(w, t \ {x})
  BY SumAdd
<1>2. \A t \in SUBSET S : IsFiniteSet(t) /\ Cardinality(t) \in Nat
  BY FS_Subset, FS_CardinalityType
<1> HAVE \A i \in S : w[i] * n <= c
<1> DEFINE C == {t \in SUBSET S : Sum(w, t) * n <= c * Cardinality(t)}
<1>3. {} \in C
  <2>1. Cardinality({}) = 0
    BY FS_EmptySet
  <2> QED BY <1>1, <2>1
<1>4. ASSUME NEW t \in SUBSET S, t # {}, \A x \in t : t \ {x} \in C
      PROVE  t \in C
  <2>1. PICK x \in t : TRUE
    BY <1>4
  <2> DEFINE u == t \ {x}
             a == Sum(w, u)
             k == Cardinality(u)
  <2>2. a * n <= c * k /\ u \in SUBSET S
    BY <1>4
  <2>3. Cardinality(t) = k + 1
    <3>1. k = Cardinality(t) - 1
      BY <1>2, FS_RemoveElement
    <3> QED BY <1>2, <3>1
  <2>4. Sum(w, t) = w[x] + a
    BY <1>1
  <2>5. a \in Nat /\ k \in Nat /\ w[x] \in Nat /\ w[x] * n <= c
    BY <1>1, <1>2, <2>2
  <2> HIDE DEF a, k, u
  <2>6. (w[x] + a) * n = w[x] * n + a * n /\ c * (k + 1) = c * k + c
    BY <2>5
  <2>7. a * n \in Nat /\ w[x] * n \in Nat /\ c * k \in Nat
    BY <2>5
  <2> DEFINE p == w[x] * n
             q == a * n
             r == c * k
  <2>8. p + q <= r + c
    <3>1. p \in Nat /\ q \in Nat /\ r \in Nat /\ p <= c /\ q <= r
      BY <2>2, <2>5, <2>7
    <3> HIDE DEF p, q, r
    <3> QED BY <3>1
  <2> QED BY <2>3, <2>4, <2>6, <2>8
<1> HIDE DEF C
<1>5. \A t \in SUBSET S : t \in C
  BY <1>3, <1>4, SubsetInduction
<1>6. S \in C
  BY <1>5
<1> QED BY <1>6 DEF C

\* A finite set of numbers has a greatest.
LEMMA ArgMax ==
  ASSUME NEW S, IsFiniteSet(S), NEW w, \A i \in S : w[i] \in Nat, S # {}
  PROVE  \E x \in S : \A i \in S : w[i] <= w[x]
<1> DEFINE C == {t \in SUBSET S : t # {} => \E x \in t : \A i \in t : w[i] <= w[x]}
<1>1. {} \in C
  OBVIOUS
<1>2. ASSUME NEW t \in SUBSET S, t # {}, \A x \in t : t \ {x} \in C
      PROVE  t \in C
  <2>1. PICK y \in t : TRUE
    BY <1>2
  <2>2. CASE t \ {y} = {}
    <3>1. \A i \in t : i = y /\ w[i] <= w[y]
      BY <2>2
    <3> QED BY <3>1
  <2>3. CASE t \ {y} # {}
    <3>1. PICK x \in t \ {y} : \A i \in t \ {y} : w[i] <= w[x]
      BY <1>2, <2>3
    <3>2. CASE w[y] <= w[x]
      <4>1. \A i \in t : w[i] <= w[x]
        BY <3>1, <3>2
      <4> QED BY <3>1, <4>1
    <3>3. CASE ~(w[y] <= w[x])
      <4>1. \A i \in t : w[i] <= w[y]
        BY <3>1, <3>3
      <4> QED BY <4>1
    <3> QED BY <3>2, <3>3
  <2> QED BY <2>2, <2>3
<1> HIDE DEF C
<1>3. \A t \in SUBSET S : t \in C
  BY <1>1, <1>2, SubsetInduction
<1>4. S \in C
  BY <1>3
<1> QED BY <1>4 DEF C

\* Windows are never negative.
LEMMA WindowsType ==
  ASSUME NEW sub \in Seq(Nat)
  PROVE  /\ IsFiniteSet(DOMAIN Windows(sub))
         /\ \A i \in DOMAIN Windows(sub) : Windows(sub)[i] \in Nat
<1>1. Len(sub) \in Nat /\ \A i \in 1 .. Len(sub) : sub[i] \in Nat
  OBVIOUS
<1>2. DOMAIN Windows(sub) = 1 .. Len(sub) - 3
  BY DEF Windows
<1>3. IsFiniteSet(1 .. Len(sub) - 3)
  BY <1>1, FS_Interval
<1>4. ASSUME NEW i \in 1 .. Len(sub) - 3
      PROVE  Windows(sub)[i] \in Nat
  <2>1. i \in 1 .. Len(sub) /\ i + 1 \in 1 .. Len(sub) /\ i + 2 \in 1 .. Len(sub)
        /\ i + 3 \in 1 .. Len(sub)
    BY <1>1
  <2>2. Windows(sub)[i] = sub[i + 3] + sub[i + 2] + sub[i + 1] + sub[i]
    BY DEF Windows
  <2>3. sub[i] \in Nat /\ sub[i + 1] \in Nat /\ sub[i + 2] \in Nat /\ sub[i + 3] \in Nat
    BY <1>1, <2>1
  <2>4. sub[i + 3] + sub[i + 2] + sub[i + 1] + sub[i] \in Nat
    <3> DEFINE a == sub[i + 3]
               b == sub[i + 2]
               c == sub[i + 1]
               d == sub[i]
    <3>1. a \in Nat /\ b \in Nat /\ c \in Nat /\ d \in Nat
      BY <2>3
    <3> HIDE DEF a, b, c, d
    <3>2. a + b + c + d \in Nat
      BY <3>1
    <3> QED BY <3>2 DEF a, b, c, d
  <2> QED BY <2>2, <2>4
<1> QED BY <1>2, <1>3, <1>4

\* The gates, for any windows.
LEMMA GateKeeps ==
  ASSUME NEW w, IsFiniteSet(DOMAIN w), \A i \in DOMAIN w : w[i] \in Nat, Audible(w) # {}
  PROVE  LET abs == Audible(w)
             kept == Gated(w)
         IN  /\ kept # {}
             /\ Sum(w, kept) * Cardinality(abs) >= Sum(w, abs) * Cardinality(kept)
             /\ \E i \in kept : Sum(w, kept) <= w[i] * Cardinality(kept)
<1> DEFINE abs == Audible(w)
           kept == Gated(w)
           lost == abs \ kept
           a == Cardinality(abs)
           k == Cardinality(kept)
           A == Sum(w, abs)
           K == Sum(w, kept)
           L == Sum(w, lost)
<1>1. abs \in SUBSET DOMAIN w /\ kept \in SUBSET abs /\ lost \in SUBSET abs
  BY DEF Audible, Gated
<1>2. IsFiniteSet(abs) /\ IsFiniteSet(kept) /\ IsFiniteSet(lost) /\ a \in Nat /\ k \in Nat
  BY <1>1, FS_Subset, FS_CardinalityType
<1>3. \A i \in abs : w[i] \in Nat
  BY <1>1
<1>4. A \in Nat /\ K \in Nat /\ L \in Nat
  <2> HIDE DEF abs, kept, lost
  <2>1. \A t \in SUBSET abs : Sum(w, t) \in Nat
    BY <1>2, <1>3, SumAdd
  <2> QED BY <1>1, <2>1
<1>5. \A i \in abs : i \in kept <=> w[i] * a * GateRatio >= A
  BY DEF Gated
<1>6. \A i \in abs : w[i] * a \in Nat /\ w[i] * a <= w[i] * a * GateRatio
  <2> TAKE i \in abs
  <2> HIDE DEF a, abs
  <2>1. w[i] * a \in Nat
    BY <1>2, <1>3
  <2> DEFINE p == w[i] * a
  <2>2. GateRatio \in Nat /\ GateRatio - 1 \in Nat
    BY LoudnessAssumption
  <2>3. p * (GateRatio - 1) >= 0 /\ p * (GateRatio - 1) = p * GateRatio - p
    <3>1. p \in Nat
      BY <2>1
    <3> HIDE DEF p
    <3> QED BY <2>2, <3>1
  <2>4. p <= p * GateRatio
    <3>1. p \in Nat /\ p * GateRatio \in Nat
      <4>1. p \in Nat
        BY <2>1
      <4> HIDE DEF p
      <4> QED BY <2>2, <4>1
    <3> HIDE DEF p
    <3> QED BY <2>3, <3>1
  <2> QED BY <2>1, <2>4
<1>7. abs # {}
  OBVIOUS
<1> HIDE DEF abs, kept, lost, a, k, A, K, L
<1>8. kept # {}
  <2>1. PICK x \in abs : \A i \in abs : w[i] <= w[x]
    BY <1>2, <1>3, <1>7, ArgMax
  <2>2. \A i \in abs : w[i] * 1 <= w[x]
    BY <1>3, <2>1
  <2>3. A * 1 <= w[x] * a
    BY <1>2, <1>3, <2>2, SumBound DEF A, a
  <2>4. w[x] * a * GateRatio >= A
    <3> DEFINE p == w[x] * a
    <3>1. p \in Nat /\ A <= p /\ p <= p * GateRatio /\ p * GateRatio \in Nat
      <4>1. p \in Nat /\ A * 1 <= p /\ p <= p * GateRatio
        BY <1>6, <2>3
      <4> HIDE DEF p
      <4> QED BY <1>4, <4>1, LoudnessAssumption
    <3> HIDE DEF p
    <3>2. p * GateRatio >= A
      BY <1>4, <3>1
    <3> QED BY <3>2 DEF p
  <2> QED BY <1>5, <2>4
<1>9. K * a >= A * k
  <2>1. A = K + L
    BY <1>1, <1>2, <1>3, SumSplit DEF A, K, L, lost
  <2>2. Cardinality(lost) = a - k
    <3>1. Cardinality(lost) = Cardinality(abs) - Cardinality(abs \cap kept)
      BY <1>2, FS_Difference DEF lost
    <3>2. abs \cap kept = kept
      BY <1>1
    <3> QED BY <3>1, <3>2 DEF a, k
  <2>3. \A i \in lost : w[i] * a <= A
    <3> TAKE i \in lost
    <3>1. i \in abs /\ i \notin kept
      BY DEF lost
    <3> DEFINE p == w[i] * a
               q == p * GateRatio
    <3>2. p \in Nat /\ p <= q /\ ~(q >= A)
      BY <1>5, <1>6, <3>1
    <3>3. q \in Nat
      <4> HIDE DEF p
      <4> QED BY <3>2, LoudnessAssumption
    <3> HIDE DEF p, q
    <3>4. p <= A
      BY <1>4, <3>2, <3>3
    <3> QED BY <3>4 DEF p
  <2>4. L * a <= A * (a - k)
    <3>1. \A i \in lost : w[i] \in Nat
      BY <1>1, <1>3
    <3>2. L * a <= A * Cardinality(lost)
      BY <1>2, <1>4, <2>3, <3>1, SumBound DEF L
    <3> QED BY <2>2, <3>2
  <2>5. A * (a - k) = A * a - A * k /\ A * a = K * a + L * a
    BY <1>2, <1>4, <2>1
  <2>6. A * a \in Nat /\ A * k \in Nat /\ K * a \in Nat /\ L * a \in Nat
    BY <1>2, <1>4
  <2> DEFINE p == A * k
             q == K * a
             r == L * a
             t == A * a
  <2>7. p \in Nat /\ q \in Nat /\ r \in Nat /\ t \in Nat /\ r <= t - p /\ t = q + r
    BY <2>4, <2>5, <2>6
  <2> HIDE DEF p, q, r, t
  <2>8. q >= p
    BY <2>7
  <2> QED BY <2>8 DEF p, q
<1>10. \E i \in kept : K <= w[i] * k
  <2>1. \A i \in kept : w[i] \in Nat
    BY <1>1, <1>3
  <2>2. PICK x \in kept : \A i \in kept : w[i] <= w[x]
    BY <1>2, <1>8, <2>1, ArgMax
  <2>3. \A i \in kept : w[i] * 1 <= w[x]
    BY <2>1, <2>2
  <2>4. K * 1 <= w[x] * k
    BY <1>2, <2>1, <2>3, SumBound DEF K, k
  <2>5. K <= w[x] * k
    BY <1>4, <2>4
  <2> QED BY <2>5
<1> QED BY <1>8, <1>9, <1>10 DEF abs, kept, a, k, A, K

-----------------------------------------------------------------------------
(* The dynamic range. *)

\* However many of the blocks are wanted, there is a choice of loudest ones.
LEMMA LoudestExist ==
  ASSUME NEW D, IsFiniteSet(D), NEW w, \A i \in D : w[i] \in Nat,
         NEW n \in Nat, n <= Cardinality(D)
  PROVE  \E top \in kSubset(n, D) : \A i \in top, j \in D \ top : w[i] >= w[j]
<1> DEFINE Good(k) == {top \in SUBSET D : Cardinality(top) = k
                                          /\ \A i \in top, j \in D \ top : w[i] >= w[j]}
           T == {k \in Nat : k <= Cardinality(D) => Good(k) # {}}
<1>1. Cardinality(D) \in Nat
  BY FS_CardinalityType
<1>2. 0 \in T
  <2>1. {} \in Good(0)
    BY FS_EmptySet
  <2> QED BY <2>1
<1>3. ASSUME NEW k \in Nat, k \in T
      PROVE  k + 1 \in T
  <2> SUFFICES ASSUME k + 1 <= Cardinality(D) PROVE Good(k + 1) # {}
    OBVIOUS
  <2>1. k <= Cardinality(D)
    BY <1>1
  <2>2. PICK top \in Good(k) : TRUE
    BY <1>3, <2>1
  <2>3. top \in SUBSET D /\ Cardinality(top) = k /\ \A i \in top, j \in D \ top : w[i] >= w[j]
    OBVIOUS
  <2>4. IsFiniteSet(top) /\ IsFiniteSet(D \ top)
    BY <2>3, FS_Subset
  <2>5. D \ top # {}
    <3> SUFFICES ASSUME D \ top = {} PROVE FALSE
      OBVIOUS
    <3>1. top = D
      BY <2>3
    <3> QED BY <1>1, <2>3, <3>1
  <2>6. PICK x \in D \ top : \A i \in D \ top : w[i] <= w[x]
    BY <2>4, <2>5, ArgMax
  <2> DEFINE more == top \cup {x}
  <2>7. more \in SUBSET D /\ Cardinality(more) = k + 1
    BY <2>3, <2>4, FS_AddElement
  <2>8. ASSUME NEW i \in more, NEW j \in D \ more
        PROVE  w[i] >= w[j]
    <3>1. j \in D \ top /\ w[j] \in Nat /\ w[x] \in Nat /\ w[j] <= w[x]
      BY <2>6
    <3>2. CASE i \in top
      BY <2>3, <3>1, <3>2
    <3>3. CASE i = x
      BY <3>1, <3>3
    <3> QED BY <3>2, <3>3
  <2> HIDE DEF more
  <2>9. more \in Good(k + 1)
    BY <2>7, <2>8
  <2> QED BY <2>9
<1> HIDE DEF T
<1>4. n \in T
  BY <1>2, <1>3, Induction
<1>5. PICK top \in Good(n) : TRUE
  BY <1>4 DEF T
<1>6. top \in kSubset(n, D)
  BY DEF kSubset
<1> QED BY <1>5, <1>6

LEMMA LoudestType ==
  ASSUME NEW blocks \in Seq(Nat), blocks # <<>>
  PROVE  Loudest(blocks) \in SUBSET DOMAIN blocks /\ IsFiniteSet(Loudest(blocks))
<1> DEFINE q == Len(blocks) \div TopShare
           n == IF q = 0 THEN 1 ELSE q
           D == DOMAIN blocks
           P(top) == \A i \in top, j \in D \ top : blocks[i] >= blocks[j]
<1>1. Len(blocks) \in Nat /\ Len(blocks) >= 1 /\ D = 1 .. Len(blocks)
      /\ \A i \in D : blocks[i] \in Nat
  BY EmptySeq
<1>2. IsFiniteSet(D) /\ Cardinality(D) = Len(blocks)
  BY <1>1, FS_Interval
<1>3. q \in Nat /\ q <= Len(blocks)
  <2>1. TopShare \in Nat \ {0}
    BY LoudnessAssumption
  <2> DEFINE m == Len(blocks)
             r == m % TopShare
  <2>2. m \in Nat /\ q \in Nat /\ r \in 0 .. TopShare - 1 /\ m = q * TopShare + r
    <3> HIDE DEF m
    <3> QED BY <1>1, <2>1, Euclid DEF m
  <2>3. TopShare - 1 \in Nat
    BY <2>1
  <2> HIDE DEF q, m, r
  <2>4. m \in Nat /\ r \in Nat /\ q \in Nat /\ m = q * TopShare + r
    BY <2>2, <2>3
  <2>5. q * (TopShare - 1) >= 0 /\ q * (TopShare - 1) = q * TopShare - q /\ q * TopShare \in Nat
    BY <2>1, <2>3, <2>4
  <2>6. q <= m
    BY <2>4, <2>5
  <2> QED BY <2>4, <2>6 DEF m
<1> HIDE DEF q
<1>4. n \in Nat /\ n <= Cardinality(D)
  BY <1>1, <1>2, <1>3
<1> HIDE DEF n, D
<1>5. \E top \in kSubset(n, D) : P(top)
  BY <1>1, <1>2, <1>4, LoudestExist
<1>6. Loudest(blocks) = CHOOSE top \in kSubset(n, D) : P(top)
  BY DEF Loudest, q, n, D
<1>7. Loudest(blocks) \in kSubset(n, D)
  <2> HIDE DEF P
  <2> QED BY <1>5, <1>6
<1>8. Loudest(blocks) \in SUBSET D
  BY <1>7 DEF kSubset
<1>9. IsFiniteSet(Loudest(blocks))
  BY <1>2, <1>8, FS_Subset
<1> QED BY <1>8, <1>9 DEF D

\* A frame's energy is no more than that of two channels at the peak.
LEMMA EnergyUnderPeak ==
  ASSUME NEW s \in Seq(Frames), NEW p \in Nat, \A i \in 1 .. Len(s) : s[i].peak <= p
  PROVE  EnergyOf(s) <= p * p * (Len(s) * Channels)
<1> DEFINE c == p * p * Channels
<1>1. p * p \in Nat /\ c \in Nat
  <2>1. p * p \in Nat
    OBVIOUS
  <2> QED BY <2>1 DEF Channels
<1>2. ASSUME NEW i \in 1 .. Len(s)
      PROVE  Energy(s[i]) <= c
  <2> DEFINE a == s[i].peak
             b == s[i].sum - s[i].peak
  <2>1. s[i] \in Frames
    OBVIOUS
  <2>2. a \in Nat /\ b \in Nat /\ a <= p /\ b <= p
    <3>1. s[i].peak \in Nat /\ s[i].sum \in Nat /\ s[i].peak <= p
      BY <2>1, ConformAssumption
    <3>2. s[i].peak <= s[i].sum /\ s[i].sum <= 2 * s[i].peak
      BY <2>1, StereoAssumption DEF Channels
    <3> QED BY <3>1, <3>2
  <2>3. Energy(s[i]) = a * a + b * b
    BY DEF Energy
  <2> HIDE DEF a, b
  <2>4. a * a <= p * p /\ b * b <= p * p
    <3>1. a * a <= p * a /\ a * p <= p * p /\ b * b <= p * b /\ b * p <= p * p
      BY <2>2, Grow
    <3>2. a * p = p * a /\ b * p = p * b /\ p * a \in Nat /\ p * b \in Nat
          /\ a * a \in Nat /\ b * b \in Nat
      BY <2>2
    <3> QED BY <1>1, <3>1, <3>2
  <2>5. a * a \in Nat /\ b * b \in Nat
    BY <2>2
  <2>6. c = p * p + p * p
    BY <1>1 DEF Channels
  <2> DEFINE x == a * a
             y == b * b
             z == p * p
  <2>7. x + y <= z + z
    <3>1. x \in Nat /\ y \in Nat /\ z \in Nat /\ x <= z /\ y <= z
      BY <1>1, <2>4, <2>5
    <3> HIDE DEF x, y, z
    <3> QED BY <3>1
  <2> QED BY <2>3, <2>6, <2>7
<1> HIDE DEF c
<1>3. EnergyOf(s) <= c * Len(s)
  BY <1>1, <1>2, EnergyOfBound
<1>4. c * Len(s) = p * p * (Len(s) * Channels)
  <2> DEFINE n == Len(s)
             z == p * p
  <2>1. n \in Nat /\ z \in Nat
    BY <1>1
  <2> HIDE DEF n, z
  <2>2. z * 2 * n = z * (n * 2)
    BY <2>1
  <2> QED BY <2>2 DEF n, z, c, Channels
<1> QED BY <1>3, <1>4

\* No block of the dynamic range is louder than the peak.
LEMMA DrBlocksType ==
  ASSUME NEW m \in Meters, NEW s \in Seq(Frames), Heard(m, s)
  PROVE  LET dr == DrBlocks(m)
         IN  /\ dr.blocks \in Seq(Nat) /\ dr.len \in Nat
             /\ \A k \in DOMAIN dr.blocks : dr.blocks[k] <= m.peak * m.peak * dr.len
<1>1. m.peak \in Nat /\ m.dr.blocks \in Seq(Nat)
  BY DEF Meters, Cuts
<1>2. /\ m.dr = Pieces(s, DrLen) /\ m.sumSq = EnergyOf(s) /\ m.frames = Len(s)
      /\ \A i \in 1 .. Len(s) : s[i].peak <= m.peak
  BY DEF Heard
<1>3. Len(s) \in Nat /\ DrLen \in Nat \ {0} /\ \A i \in 1 .. Len(s) : s[i] \in Frames
  BY LoudnessAssumption
<1>4. CASE m.dr.blocks = <<>> /\ m.frames > 0
  <2> DEFINE dr == [blocks |-> <<m.sumSq>>, len |-> m.frames * Channels]
  <2>1. DrBlocks(m) = dr
    BY <1>4 DEF DrBlocks
  <2>2. m.sumSq \in Nat /\ m.sumSq <= m.peak * m.peak * (m.frames * Channels)
    BY <1>1, <1>2, EnergyOfType, EnergyUnderPeak
  <2>3. m.frames * Channels \in Nat
    BY <1>2, <1>3 DEF Channels
  <2>4. dr.blocks \in Seq(Nat) /\ DOMAIN dr.blocks = {1} /\ dr.blocks[1] = m.sumSq
        /\ dr.len = m.frames * Channels
    BY <2>2
  <2> HIDE DEF dr
  <2>5. \A k \in DOMAIN dr.blocks : dr.blocks[k] <= m.peak * m.peak * dr.len
    BY <2>2, <2>4
  <2> QED BY <2>1, <2>3, <2>4, <2>5
<1>5. CASE ~(m.dr.blocks = <<>> /\ m.frames > 0)
  <2>1. DrBlocks(m) = [blocks |-> m.dr.blocks, len |-> DrLen * Channels]
    BY <1>5 DEF DrBlocks
  <2>2. DrLen * Channels \in Nat
    BY <1>3 DEF Channels
  <2>3. ASSUME NEW k \in DOMAIN m.dr.blocks
        PROVE  m.dr.blocks[k] <= m.peak * m.peak * (DrLen * Channels)
    <3>1. k \in 1 .. Len(s) \div DrLen
          /\ m.dr.blocks[k] = EnergyOf(SubSeq(s, (k - 1) * DrLen + 1, k * DrLen))
      BY <1>1, <1>2, <1>3, PiecesType
    <3> DEFINE a == (k - 1) * DrLen + 1
               b == k * DrLen
               part == SubSeq(s, a, b)
    <3>2. a \in 1 .. Len(s) + 1 /\ b \in 1 .. Len(s) /\ b - a + 1 = DrLen
      BY <1>3, <3>1, BlockInside
    <3> HIDE DEF a, b
    <3>3. /\ part \in Seq(Frames) /\ Len(part) = IF a <= b THEN b - a + 1 ELSE 0
          /\ \A i \in 1 .. b - a + 1 : part[i] = s[a + i - 1]
      <4>1. \A i \in a .. b : s[i] \in Frames
        BY <1>3, <3>2
      <4> QED BY <3>2, <4>1, SubSeqProperties
    <3>4. Len(part) = DrLen
      BY <1>3, <3>2, <3>3
    <3>5. ASSUME NEW i \in 1 .. Len(part)
          PROVE  part[i].peak <= m.peak
      <4>1. i \in 1 .. b - a + 1 /\ a + i - 1 \in 1 .. Len(s)
        BY <1>3, <3>2, <3>4
      <4> QED BY <1>2, <3>3, <4>1
    <3> HIDE DEF part
    <3>6. EnergyOf(part) <= m.peak * m.peak * (DrLen * Channels)
      BY <1>1, <3>3, <3>4, <3>5, EnergyUnderPeak
    <3> QED BY <3>1, <3>6 DEF part, a, b
  <2> QED BY <1>1, <2>1, <2>2, <2>3
<1> QED BY <1>4, <1>5

LEMMA HeardInRange ==
  ASSUME NEW m \in Meters, NEW s \in Seq(Frames), Heard(m, s), DrBlocks(m).blocks # <<>>
  PROVE  LET dr  == DrBlocks(m)
             top == Loudest(dr.blocks)
         IN  Sum(dr.blocks, top) <= m.peak * m.peak * Cardinality(top) * dr.len
<1> DEFINE dr == DrBlocks(m)
           top == Loudest(dr.blocks)
           c == m.peak * m.peak * dr.len
           k == Cardinality(top)
<1>1. dr.blocks \in Seq(Nat) /\ dr.len \in Nat /\ \A i \in DOMAIN dr.blocks : dr.blocks[i] <= c
  BY DrBlocksType
<1>2. top \in SUBSET DOMAIN dr.blocks /\ IsFiniteSet(top)
  BY <1>1, LoudestType
<1>3. m.peak \in Nat
  BY DEF Meters
<1>4. k \in Nat
  BY <1>2, FS_CardinalityType
<1>5. c \in Nat
  <2>1. m.peak * m.peak \in Nat
    BY <1>3
  <2> DEFINE z == m.peak * m.peak
             n == dr.len
  <2>2. z \in Nat /\ n \in Nat
    BY <1>1, <2>1
  <2> HIDE DEF z, n
  <2>3. z * n \in Nat
    BY <2>2
  <2> QED BY <2>3 DEF z, n
<1>6. \A i \in top : dr.blocks[i] \in Nat /\ dr.blocks[i] <= c
  <2> HIDE DEF dr, c
  <2>1. \A i \in DOMAIN dr.blocks : dr.blocks[i] \in Nat
    BY <1>1
  <2> QED BY <1>1, <1>2, <2>1
<1> HIDE DEF top, k, c, dr
<1>7. Sum(dr.blocks, top) * 1 <= c * k
  <2>1. \A i \in top : dr.blocks[i] * 1 <= c
    BY <1>6
  <2> QED BY <1>2, <1>5, <1>6, <2>1, SumBound DEF k
<1>8. Sum(dr.blocks, top) \in Nat
  <2>1. top \in SUBSET top
    OBVIOUS
  <2> QED BY <1>2, <1>6, <2>1, SumAdd
<1>9. c * k = m.peak * m.peak * k * dr.len
  <2> DEFINE z == m.peak * m.peak
             n == dr.len
  <2>1. z \in Nat /\ n \in Nat
    BY <1>1, <1>3
  <2> HIDE DEF z, n
  <2>2. z * n * k = z * k * n
    BY <1>4, <2>1
  <2> QED BY <2>2 DEF z, n, c
<1>10. Sum(dr.blocks, top) <= c * k
  BY <1>7, <1>8
<1> QED BY <1>9, <1>10 DEF dr, top, k

-----------------------------------------------------------------------------
(* The whole analysis. *)

\* The analyzers only listen: every behaviour of TrackAnalysis is one of ConformTrack.
THEOREM AnalysisIsConforming == AnalysisSpec => Spec
<1>1. AnalysisInit => Init
  BY DEF AnalysisInit
<1>2. [AnalysisNext]_<<vars, meter>> => [Next]_vars
  BY DEF AnalysisNext
<1> QED BY <1>1, <1>2, PTL DEF AnalysisSpec, Spec

\* What a block adds to a file is the block.
LEMMA EndOfConcat ==
  ASSUME NEW s \in Seq(Frames), NEW b \in Seq(Frames)
  PROVE  SubSeq(s \o b, Len(s) + 1, Len(s \o b)) = b
<1> DEFINE t == s \o b
           n == Len(s)
<1>1. n \in Nat /\ Len(b) \in Nat
  OBVIOUS
<1>2. /\ t \in Seq(Frames) /\ Len(t) = n + Len(b)
      /\ \A i \in 1 .. n + Len(b) : t[i] = IF i <= n THEN s[i] ELSE b[i - n]
  BY ConcatProperties
<1> HIDE DEF t, n
<1>3. \A i \in n + 1 .. Len(t) : t[i] \in Frames
  BY <1>1, <1>2
<1>4. /\ SubSeq(t, n + 1, Len(t)) \in Seq(Frames)
      /\ Len(SubSeq(t, n + 1, Len(t))) = IF n + 1 <= Len(t) THEN Len(t) - (n + 1) + 1 ELSE 0
      /\ \A i \in 1 .. Len(t) - (n + 1) + 1 : SubSeq(t, n + 1, Len(t))[i] = t[n + 1 + i - 1]
  BY <1>1, <1>2, <1>3, SubSeqProperties
<1>5. Len(SubSeq(t, n + 1, Len(t))) = Len(b)
  BY <1>1, <1>2, <1>4
<1>6. ASSUME NEW i \in 1 .. Len(b)
      PROVE  SubSeq(t, n + 1, Len(t))[i] = b[i]
  <2>1. i \in 1 .. Len(t) - (n + 1) + 1 /\ n + 1 + i - 1 = n + i
        /\ n + i \in 1 .. n + Len(b) /\ ~(n + i <= n) /\ (n + i) - n = i
    BY <1>1, <1>2
  <2>2. t[n + i] = b[(n + i) - n]
    BY <1>2, <2>1
  <2>3. SubSeq(t, n + 1, Len(t))[i] = t[n + 1 + i - 1]
    BY <1>4, <2>1
  <2> QED BY <2>1, <2>2, <2>3
<1>7. SubSeq(t, n + 1, Len(t)) = b
  BY <1>4, <1>5, <1>6, SeqEqual
<1> QED BY <1>7 DEF t, n

\* Before the analysis is over, the meter has heard the file.
MeterInv == pc = "analyze" => meter \in Meters /\ Heard(meter, file)

LEMMA MeterStep == TypeOK /\ MeterInv /\ [AnalysisNext]_<<vars, meter>> => MeterInv'
<1> SUFFICES ASSUME TypeOK, MeterInv, [AnalysisNext]_<<vars, meter>>, pc' = "analyze"
             PROVE  meter' \in Meters /\ Heard(meter', file')
  BY DEF MeterInv
<1>1. CASE UNCHANGED <<vars, meter>>
  BY <1>1 DEF vars, MeterInv
<1>2. CASE AnalysisNext
  <2>1. PICK n \in 1 .. MaxBlock : Block(n)
    BY <1>2 DEF AnalysisNext, Next, Finalize, Plan, Replace, Process
  <2>2. PICK block \in [1 .. n -> Frames] : file' = file \o block
    BY <2>1 DEF Block
  <2>3. file \in Seq(Frames)
    BY DEF TypeOK
  <2>4. block \in Seq(Frames) /\ Len(block) = n /\ n \in Nat /\ n >= 1
    <3>1. n \in Nat /\ n >= 1
      BY ConformAssumption
    <3> QED BY <3>1, FunSeq
  <2>5. Handed = block
    <3> HIDE DEF Handed
    <3>1. block \in Seq(Frames) /\ SubSeq(file \o block, Len(file) + 1, Len(file \o block)) = block
      BY <2>3, <2>4, EndOfConcat
    <3> QED BY <2>2, <3>1 DEF Handed
  <2>6. pc = "analyze"
    BY <2>1 DEF Block
  <2>7. meter' = MeterBlock(meter, block)
    BY <1>2, <2>5 DEF AnalysisNext, Measure
  <2> QED BY <2>2, <2>3, <2>4, <2>6, <2>7, BlockHeard DEF MeterInv
<1> QED BY <1>1, <1>2 DEF AnalysisNext

LEMMA MeterInvariance == AnalysisSpec => [](TypeOK /\ MeterInv)
<1>1. AnalysisInit => MeterInv
  BY NothingHeard DEF AnalysisInit, Init, MeterInv
<1>2. AnalysisSpec => []TypeOK
  BY AnalysisIsConforming, TypeCorrect, PTL
<1> QED BY <1>1, <1>2, MeterStep, PTL DEF AnalysisSpec

\* LoudnessDynamicsAnalyzer.cpp:104-116, for all lengths of blocks and of pieces.
THEOREM MeteringExact == AnalysisSpec => []MeterIgnoresBlocks
<1>1. MeterInv => MeterIgnoresBlocks
  BY DEF MeterInv, Heard, MeterIgnoresBlocks
<1> QED BY <1>1, MeterInvariance, PTL

LEMMA MeasuresStep == TypeOK /\ MeterInv => MeasuresAreInRange
<1> SUFFICES ASSUME TypeOK, MeterInv, pc = "analyze" PROVE MeasuresAreInRange
  BY DEF MeasuresAreInRange
<1>1. file \in Seq(Frames) /\ meter \in Meters /\ Heard(meter, file)
  BY DEF TypeOK, MeterInv
<1> DEFINE w == Windows(meter.sub.blocks)
<1>2. IsFiniteSet(DOMAIN w) /\ \A i \in DOMAIN w : w[i] \in Nat
  <2>1. meter.sub.blocks \in Seq(Nat)
    BY <1>1 DEF Meters, Cuts
  <2> QED BY <2>1, WindowsType
<1> HIDE DEF w
<1>3. Audible(w) # {} =>
        /\ Gated(w) # {}
        /\ Sum(w, Gated(w)) * Cardinality(Audible(w)) >= Sum(w, Audible(w)) * Cardinality(Gated(w))
        /\ \E i \in Gated(w) : Sum(w, Gated(w)) <= w[i] * Cardinality(Gated(w))
  BY <1>2, GateKeeps
<1>4. DrBlocks(meter).blocks # <<>> =>
        Sum(DrBlocks(meter).blocks, Loudest(DrBlocks(meter).blocks))
          <= meter.peak * meter.peak * Cardinality(Loudest(DrBlocks(meter).blocks))
               * DrBlocks(meter).len
  BY <1>1, HeardInRange
<1> QED BY <1>3, <1>4 DEF MeasuresAreInRange, w

\* LoudnessDynamicsAnalyzer.cpp:135-181, for any frames, any gate and any share: the
\* relative gate keeps a window and only raises the loudness, and no block of the
\* dynamic range is louder than the peak.
THEOREM MeasuresRight == AnalysisSpec => []MeasuresAreInRange
BY MeterInvariance, MeasuresStep, PTL
=============================================================================
