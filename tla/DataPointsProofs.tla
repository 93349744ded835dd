--------------------------- MODULE DataPointsProofs ---------------------------
(***************************************************************************)
(* Aggregation of data points is faithful, for any points, kind of metric, *)
(* aggregation and filter.                                                 *)
(***************************************************************************)
EXTENDS DataPoints, FiniteSetTheorems, SequenceTheorems, TLAPS

-----------------------------------------------------------------------------
(* The folds of the model.                                                  *)
Adding == INSTANCE FoldLemmas WITH op <- Plus, next <- Max
Lowest == INSTANCE FoldLemmas WITH op <- Least, next <- Max
Highest == INSTANCE FoldLemmas WITH op <- Greatest, next <- Max
Grouping == INSTANCE FoldLemmas WITH op <- AddToGroup, next <- Max
Putting == INSTANCE FoldLemmas WITH op <- PutBefore, next <- Max
Joining == INSTANCE FoldLemmas WITH op <- MergeHistogramPoint, next <- Max
Shifting == INSTANCE FoldLemmas WITH op <- MergeExponentialPoint, next <- Max

\* Some indices have a greatest one.
LEMMA GreatestIndex ==
  ASSUME NEW n \in Nat, NEW T \in SUBSET (1 .. n), T # {}
  PROVE  Max(T) \in T /\ \A x \in T : x <= Max(T)
<1> DEFINE B == {n - t : t \in T}
<1>1. PICK b \in B : \A c \in B : b <= c
  <2>1. \A t \in T : n - t \in Nat
    OBVIOUS
  <2>2. B \in SUBSET Nat /\ B # {}
    BY <2>1
  <2> HIDE DEF B
  <2> QED
    BY <2>2, Adding!LeastNatural
<1>2. PICK m \in T : b = n - m
  OBVIOUS
<1>3. ASSUME NEW x \in T PROVE m >= x
  <2>1. n - m <= n - x
    BY <1>1, <1>2
  <2> QED
    BY <2>1
<1>4. Max(T) \in T /\ \A x \in T : Max(T) >= x
  BY <1>3 DEF Max
<1>5. ASSUME NEW x \in T, NEW y \in T, y >= x PROVE x <= y
  <2>1. x \in 1 .. n /\ y \in 1 .. n
    OBVIOUS
  <2> QED
    BY <1>5, <2>1
<1> QED
  BY <1>4, <1>5

\* The greatest of some indices is one of them, and of all up to i it is i.
LEMMA LastIndex ==
  ASSUME NEW n \in Nat
  PROVE  /\ \A T \in SUBSET (1 .. n) : T # {} => Max(T) \in T
         /\ \A i \in 1 .. n : Max(1 .. i) = i
<1>1. ASSUME NEW i \in 1 .. n PROVE Max(1 .. i) = i
  <2>1. 1 .. i \in SUBSET (1 .. n) /\ 1 .. i # {} /\ i \in 1 .. i
    OBVIOUS
  <2>2. Max(1 .. i) \in 1 .. i /\ i <= Max(1 .. i)
    BY <2>1, GreatestIndex
  <2> QED
    BY <2>2
<1> QED
  BY <1>1, GreatestIndex

\* Each fold of the code is one of those of FoldLemmas.
LEMMA AddingFold == ASSUME NEW base, NEW s PROVE FoldLeft(Plus, base, s) = Adding!Fold(base, s)
BY DEF Adding!Fold, Adding!Folds, FoldLeft, MapThenFoldSet, Max
LEMMA LowestFold == ASSUME NEW base, NEW s PROVE FoldLeft(Least, base, s) = Lowest!Fold(base, s)
BY DEF Lowest!Fold, Lowest!Folds, FoldLeft, MapThenFoldSet, Max
LEMMA HighestFold == ASSUME NEW base, NEW s PROVE FoldLeft(Greatest, base, s) = Highest!Fold(base, s)
BY DEF Highest!Fold, Highest!Folds, FoldLeft, MapThenFoldSet, Max
LEMMA GroupingFold == ASSUME NEW base, NEW s PROVE FoldLeft(AddToGroup, base, s) = Grouping!Fold(base, s)
BY DEF Grouping!Fold, Grouping!Folds, FoldLeft, MapThenFoldSet, Max
LEMMA PuttingFold == ASSUME NEW base, NEW s PROVE FoldLeft(PutBefore, base, s) = Putting!Fold(base, s)
BY DEF Putting!Fold, Putting!Folds, FoldLeft, MapThenFoldSet, Max
LEMMA JoiningFold == ASSUME NEW base, NEW s PROVE FoldLeft(MergeHistogramPoint, base, s) = Joining!Fold(base, s)
BY DEF Joining!Fold, Joining!Folds, FoldLeft, MapThenFoldSet, Max
LEMMA ShiftingFold == ASSUME NEW base, NEW s PROVE FoldLeft(MergeExponentialPoint, base, s) = Shifting!Fold(base, s)
BY DEF Shifting!Fold, Shifting!Folds, FoldLeft, MapThenFoldSet, Max

Swapped(a, b) == b + a
Chosen(S) == CHOOSE x \in S : TRUE
Totalling == INSTANCE FoldLemmas WITH op <- Swapped, next <- Chosen

\* The sum over a function takes any element next and adds it from the left.
LEMMA TotalFold == ASSUME NEW f PROVE SumFunction(f) = Totalling!Fold(0, f)
BY DEF Totalling!Fold, Totalling!Folds, SumFunction, SumFunctionOnSet, FoldFunctionOnSet, MapThenFoldSet,
       Chosen, Swapped

-----------------------------------------------------------------------------
(* Sums.                                                                    *)

\* F holds the sums of the first numbers
Sums(F, s, n) == F[0] = 0 /\ \A i \in 1 .. n : F[i] = F[i - 1] + s[i]

\* The sum comes from one number to the next, among natural or whole numbers.
LEMMA SumPasses ==
  ASSUME NEW n \in Nat, NEW T \in {Nat, Int}, NEW s \in [1 .. n -> T]
  PROVE  \E F \in [0 .. n -> T] : Sums(F, s, n) /\ FoldLeft(Plus, 0, s) = F[n]
<1>1. DOMAIN s = 1 .. n /\ 0 \in T /\ \A a, b \in T : a + b \in T
  OBVIOUS
<1>2. Adding!Picks(1 .. n) /\ Adding!Last(n)
  BY LastIndex DEF Adding!Picks, Adding!Last
<1>3. PICK F : Adding!Passes(0, s, n, F) /\ Adding!Fold(0, s) = F[n]
  BY <1>1, <1>2, Adding!FoldPasses
<1>4. F[0] = 0 /\ \A i \in 1 .. n : F[i] = F[i - 1] + s[i]
  BY <1>3 DEF Adding!Passes, Plus
<1> DEFINE Kept == {i \in 0 .. n : F[i] \in T}
<1>5. 0 \in Kept
  BY <1>1, <1>4
<1>6. ASSUME NEW i \in 1 .. n, i - 1 \in Kept PROVE i \in Kept
  <2>1. F[i - 1] \in T /\ s[i] \in T /\ F[i] = F[i - 1] + s[i]
    BY <1>4, <1>6
  <2>2. F[i] \in T
    BY <1>1, <2>1
  <2> QED
    BY <2>2
<1>7. 0 .. n \subseteq Kept
  <2> HIDE DEF Kept
  <2> QED
    BY <1>5, <1>6, Adding!Counting
<1> DEFINE G == [i \in 0 .. n |-> F[i]]
<1>8. G \in [0 .. n -> T]
  BY <1>7
<1>9. Sums(G, s, n)
  <2>1. \A i \in 1 .. n : i \in 0 .. n /\ i - 1 \in 0 .. n
    OBVIOUS
  <2> QED
    BY <1>4, <2>1 DEF Sums
<1>10. FoldLeft(Plus, 0, s) = G[n]
  BY <1>3, AddingFold
<1> QED
  BY <1>8, <1>9, <1>10

\* Whatever holds the sums of the first numbers ends with the sum.
LEMMA SumCalculated ==
  ASSUME NEW n \in Nat, NEW s, DOMAIN s = 1 .. n, NEW G, Sums(G, s, n)
  PROVE  FoldLeft(Plus, 0, s) = G[n]
<1>1. Adding!Picks(1 .. n) /\ Adding!Last(n)
  BY LastIndex DEF Adding!Picks, Adding!Last
<1>2. Adding!Passes(0, s, n, G)
  BY DEF Adding!Passes, Plus, Sums
<1>3. Adding!Fold(0, s) = G[n]
  BY <1>1, <1>2, Adding!FoldCalculated
<1> QED
  BY <1>3, AddingFold

\* One more number adds itself.
LEMMA SumAppended ==
  ASSUME NEW T \in {Nat, Int}, NEW s \in Seq(T), NEW x \in T
  PROVE  /\ FoldLeft(Plus, 0, s) \in T
         /\ FoldLeft(Plus, 0, Append(s, x)) = FoldLeft(Plus, 0, s) + x
<1> DEFINE n == Len(s)
<1>1. n \in Nat /\ s \in [1 .. n -> T]
  OBVIOUS
<1>2. PICK F \in [0 .. n -> T] : Sums(F, s, n) /\ FoldLeft(Plus, 0, s) = F[n]
  BY <1>1, SumPasses
<1> DEFINE G == [i \in 0 .. n + 1 |-> IF i <= n THEN F[i] ELSE F[n] + x]
<1>3. DOMAIN Append(s, x) = 1 .. n + 1 /\ \A i \in 1 .. n + 1 : Append(s, x)[i] = IF i <= n THEN s[i] ELSE x
  OBVIOUS
<1> HIDE DEF n
<1>4. Sums(G, Append(s, x), n + 1)
  <2>1. G[0] = 0
    BY <1>1, <1>2 DEF Sums
  <2>2. ASSUME NEW i \in 1 .. n + 1 PROVE G[i] = G[i - 1] + Append(s, x)[i]
    <3>1. CASE i <= n
      BY <1>1, <1>2, <1>3, <3>1 DEF Sums
    <3>2. CASE i = n + 1
      BY <1>1, <1>3, <3>2
    <3> QED
      BY <1>1, <3>1, <3>2
  <2> HIDE DEF G
  <2> QED
    BY <2>1, <2>2 DEF Sums
<1>5. FoldLeft(Plus, 0, Append(s, x)) = G[n + 1]
  <2> HIDE DEF G
  <2> QED
    BY <1>1, <1>3, <1>4, SumCalculated
<1>6. F[n] \in T
  BY <1>1
<1> QED
  BY <1>1, <1>2, <1>5, <1>6

-----------------------------------------------------------------------------
(* Buckets: however they are joined, what is in them is added.              *)

TotalOf(buckets) == FoldLeft(Plus, 0, buckets)

\* The sums of the first buckets, up to any index from the last one on
LEMMA PaddedSums ==
  ASSUME NEW t \in Seq(Nat), NEW n \in Nat, Len(t) <= n
  PROVE  \E F \in [0 .. n -> Nat] :
           F[0] = 0 /\ F[n] = TotalOf(t) /\ \A i \in 1 .. n : F[i] = F[i - 1] + BucketAt(t, i)
<1> DEFINE l == Len(t)
<1>1. l \in Nat /\ t \in [1 .. l -> Nat] /\ l \in 0 .. n /\ l \in 0 .. l
  OBVIOUS
<1> HIDE DEF l
<1>2. PICK F \in [0 .. l -> Nat] : Sums(F, t, l) /\ FoldLeft(Plus, 0, t) = F[l]
  BY <1>1, SumPasses
<1> DEFINE G == [i \in 0 .. n |-> IF i <= l THEN F[i] ELSE F[l]]
<1>3. G \in [0 .. n -> Nat]
  BY <1>1
<1>4. ASSUME NEW i \in 1 .. n PROVE G[i] = G[i - 1] + BucketAt(t, i)
  <2>1. CASE i <= l
    <3>1. i \in 1 .. l /\ i - 1 \in 0 .. n /\ i - 1 <= l /\ BucketAt(t, i) = t[i]
      BY <1>1, <2>1 DEF BucketAt
    <3> QED
      BY <1>2, <2>1, <3>1 DEF Sums
  <2>2. CASE ~(i <= l)
    <3>1. i - 1 \in 0 .. n /\ i - 1 >= l /\ BucketAt(t, i) = 0
      BY <1>1, <2>2 DEF BucketAt
    <3>2. G[i] = F[l] /\ G[i - 1] = F[l] /\ F[l] \in Nat
      BY <1>1, <2>2, <3>1
    <3> QED
      BY <3>1, <3>2
  <2> QED
    BY <2>1, <2>2
<1>5. G[0] = 0 /\ G[n] = F[l]
  BY <1>1, <1>2 DEF Sums
<1> QED
  BY <1>2, <1>3, <1>4, <1>5 DEF TotalOf

\* Adding bucket by bucket.
LEMMA BucketsAdded ==
  ASSUME NEW t \in Seq(Nat), NEW s \in Seq(Nat)
  PROVE  /\ AddBuckets(t, s) \in Seq(Nat)
         /\ TotalOf(AddBuckets(t, s)) = TotalOf(t) + TotalOf(s)
<1> DEFINE n == Greatest(Len(t), Len(s))
           sum == AddBuckets(t, s)
<1>1. n \in Nat /\ Len(t) <= n /\ Len(s) <= n
  BY DEF Greatest
<1>2. sum = [i \in 1 .. n |-> BucketAt(t, i) + BucketAt(s, i)]
  BY DEF AddBuckets
<1> HIDE DEF n, sum
<1>3. \A i \in 1 .. n : BucketAt(t, i) \in Nat /\ BucketAt(s, i) \in Nat
  BY DEF BucketAt
<1>4. sum \in [1 .. n -> Nat]
  BY <1>2, <1>3
<1>5. sum \in Seq(Nat)
  BY <1>1, <1>4
<1>6. PICK F \in [0 .. n -> Nat] :
        F[0] = 0 /\ F[n] = TotalOf(t) /\ \A i \in 1 .. n : F[i] = F[i - 1] + BucketAt(t, i)
  BY <1>1, PaddedSums
<1>7. PICK G \in [0 .. n -> Nat] :
        G[0] = 0 /\ G[n] = TotalOf(s) /\ \A i \in 1 .. n : G[i] = G[i - 1] + BucketAt(s, i)
  BY <1>1, PaddedSums
<1> DEFINE H == [i \in 0 .. n |-> F[i] + G[i]]
<1>8. H[0] = 0 /\ H[n] = F[n] + G[n]
  BY <1>1, <1>6, <1>7
<1>9. ASSUME NEW i \in 1 .. n PROVE H[i] = H[i - 1] + sum[i]
  <2>1. i \in 0 .. n /\ i - 1 \in 0 .. n /\ sum[i] = BucketAt(t, i) + BucketAt(s, i)
    BY <1>1, <1>2
  <2>2. H[i] = F[i] + G[i] /\ H[i - 1] = F[i - 1] + G[i - 1] /\ F[i - 1] \in Nat /\ G[i - 1] \in Nat
    BY <2>1
  <2> QED
    BY <1>3, <1>6, <1>7, <2>1, <2>2
<1> HIDE DEF H
<1>10. Sums(H, sum, n)
  BY <1>8, <1>9 DEF Sums
<1>11. TotalOf(sum) = H[n]
  BY <1>1, <1>4, <1>10, SumCalculated DEF TotalOf
<1> QED
  BY <1>5, <1>6, <1>7, <1>8, <1>11 DEF sum

\* A bucket put in front.
LEMMA BucketPut ==
  ASSUME NEW t \in Seq(Nat), NEW c \in Nat
  PROVE  /\ PutBefore(t, c) \in Seq(Nat)
         /\ TotalOf(PutBefore(t, c)) = TotalOf(t) + c
<1> DEFINE n == Len(t)
           more == <<c>> \o t
<1>1. n \in Nat /\ t \in [1 .. n -> Nat]
  OBVIOUS
<1>2. PICK F \in [0 .. n -> Nat] : Sums(F, t, n) /\ FoldLeft(Plus, 0, t) = F[n]
  BY <1>1, SumPasses
<1>3. /\ more \in Seq(Nat) /\ more \in [1 .. n + 1 -> Nat]
      /\ \A i \in 1 .. n + 1 : more[i] = IF i = 1 THEN c ELSE t[i - 1]
  <2>1. <<c>> \in Seq(Nat) /\ Len(<<c>>) = 1
    OBVIOUS
  <2>2. more \in Seq(Nat) /\ Len(more) = n + 1
    BY <2>1
  <2>3. ASSUME NEW i \in 1 .. n + 1 PROVE more[i] = IF i = 1 THEN c ELSE t[i - 1]
    BY <2>1, <2>2
  <2>4. more \in [1 .. Len(more) -> Nat]
    <3> HIDE DEF more
    <3> QED
      BY <2>2
  <2> QED
    BY <2>2, <2>3, <2>4
<1> DEFINE G == [i \in 0 .. n + 1 |-> IF i = 0 THEN 0 ELSE c + F[i - 1]]
<1> HIDE DEF n, more
<1>4. ASSUME NEW i \in 1 .. n + 1 PROVE G[i] = G[i - 1] + more[i]
  <2>1. CASE i = 1
    BY <1>1, <1>2, <1>3, <2>1 DEF Sums
  <2>2. CASE i # 1
    <3>1. i - 1 \in 1 .. n /\ i - 1 \in 0 .. n /\ (i - 1) - 1 \in 0 .. n /\ i - 1 \in 0 .. n + 1 /\ i \in 0 .. n + 1
      BY <1>1, <2>2
    <3>2. G[i] = c + F[i - 1] /\ G[i - 1] = c + F[(i - 1) - 1]
      BY <2>2, <3>1
    <3>3. F[i - 1] = F[(i - 1) - 1] + t[i - 1] /\ more[i] = t[i - 1]
      BY <1>2, <1>3, <2>2, <3>1 DEF Sums
    <3>4. F[(i - 1) - 1] \in Nat /\ t[i - 1] \in Nat
      BY <1>1, <3>1
    <3> QED
      BY <3>2, <3>3, <3>4
  <2> QED
    BY <2>1, <2>2
<1>5. G[0] = 0 /\ G[n + 1] = c + F[n]
  BY <1>1
<1> HIDE DEF G
<1>6. Sums(G, more, n + 1)
  BY <1>4, <1>5 DEF Sums
<1>7. TotalOf(more) = c + F[n]
  BY <1>1, <1>3, <1>5, <1>6, SumCalculated DEF TotalOf
<1>8. TotalOf(more) = TotalOf(t) + c /\ TotalOf(t) \in Nat
  BY <1>1, <1>2, <1>7 DEF TotalOf
<1> QED
  BY <1>3, <1>8 DEF PutBefore, more

\* All buckets of src, put in front from the last one on.
LEMMA BucketsPut ==
  ASSUME NEW t \in Seq(Nat), NEW src \in Seq(Nat)
  PROVE  /\ FoldLeft(PutBefore, t, Reverse(src)) \in Seq(Nat)
         /\ TotalOf(FoldLeft(PutBefore, t, Reverse(src))) = TotalOf(t) + TotalOf(src)
<1> DEFINE n == Len(src)
           back == Reverse(src)
<1>1. n \in Nat /\ src \in [1 .. n -> Nat]
  OBVIOUS
<1>2. PICK F \in [0 .. n -> Nat] : Sums(F, src, n) /\ FoldLeft(Plus, 0, src) = F[n]
  BY <1>1, SumPasses
<1>3. back = [i \in 1 .. n |-> src[(n - i) + 1]]
  BY DEF Reverse
<1> DEFINE A == [i \in 0 .. n |-> {b \in Seq(Nat) : TotalOf(b) = TotalOf(t) + (F[n] - F[n - i])}]
<1> HIDE DEF n, back
<1>4. TotalOf(t) \in Nat
  BY SumAppended DEF TotalOf
<1>5. t \in A[0]
  <2>1. n - 0 = n /\ F[n] \in Nat /\ 0 \in 0 .. n
    BY <1>1
  <2> QED
    BY <1>4, <2>1
<1>6. ASSUME NEW i \in 1 .. n, NEW b \in A[i - 1] PROVE PutBefore(b, back[i]) \in A[i]
  <2>1. (n - i) + 1 \in 1 .. n /\ n - i \in 0 .. n /\ n - (i - 1) = (n - i) + 1 /\ ((n - i) + 1) - 1 = n - i
    BY <1>1
  <2>2. back[i] = src[(n - i) + 1] /\ back[i] \in Nat
    BY <1>1, <1>3, <2>1
  <2>3. F[(n - i) + 1] = F[n - i] + back[i]
    BY <1>2, <2>1, <2>2 DEF Sums
  <2>4. b \in Seq(Nat) /\ TotalOf(b) = TotalOf(t) + (F[n] - F[(n - i) + 1])
    BY <2>1, <1>1
  <2>5. PutBefore(b, back[i]) \in Seq(Nat) /\ TotalOf(PutBefore(b, back[i])) = TotalOf(b) + back[i]
    BY <2>2, <2>4, BucketPut
  <2> DEFINE all == F[n]
             rest == F[n - i]
             last == F[(n - i) + 1]
  <2>6. all \in Nat /\ rest \in Nat /\ last = rest + back[i] /\ TotalOf(b) = TotalOf(t) + (all - last)
    BY <1>1, <2>1, <2>3, <2>4
  <2>7. TotalOf(PutBefore(b, back[i])) = TotalOf(t) + (all - rest)
    <3> DEFINE x == back[i]
               total == TotalOf(t)
    <3>1. x \in Nat /\ total \in Nat /\ all \in Nat /\ rest \in Nat
      BY <1>4, <2>2, <2>6
    <3>2. TotalOf(PutBefore(b, x)) = (total + (all - (rest + x))) + x
      BY <2>5, <2>6
    <3> HIDE DEF all, rest, x, total
    <3>3. (total + (all - (rest + x))) + x = total + (all - rest)
      BY <3>1
    <3> QED
      BY <3>2, <3>3 DEF x, total
  <2> QED
    BY <2>5, <2>7
<1>7. DOMAIN back = 1 .. n
  BY <1>3
<1>8. Putting!Picks(1 .. n) /\ Putting!Last(n)
  BY <1>1, LastIndex DEF Putting!Picks, Putting!Last
<1>9. A[n] = {b \in Seq(Nat) : TotalOf(b) = TotalOf(t) + TotalOf(src)}
  <2>1. n - n = 0 /\ n \in 0 .. n /\ F[n] \in Nat /\ F[0] = 0
    BY <1>1, <1>2 DEF Sums
  <2>2. F[n] - F[n - n] = TotalOf(src)
    BY <1>2, <2>1 DEF TotalOf
  <2> QED
    BY <2>1, <2>2
<1> HIDE DEF A
<1>10. Putting!Fold(t, back) \in A[n]
  BY <1>1, <1>5, <1>6, <1>7, <1>8, Putting!FoldStays
<1> QED
  BY <1>9, <1>10, PuttingFold DEF back

\* Buckets moved up, after as many empty ones as the offsets differ.
LEMMA BucketsMoved ==
  ASSUME NEW src \in Seq(Nat), NEW shift \in Nat, NEW last \in 0 .. Len(src),
         \A i \in last + 1 .. Len(src) : src[i] = 0
  PROVE  LET moved == [i \in 1 .. shift + last |-> BucketAt(src, i - shift)]
         IN moved \in Seq(Nat) /\ TotalOf(moved) = TotalOf(src)
<1> DEFINE n == Len(src)
           moved == [i \in 1 .. shift + last |-> BucketAt(src, i - shift)]
<1>1. n \in Nat /\ src \in [1 .. n -> Nat] /\ last \in Nat /\ last <= n /\ shift + last \in Nat
  OBVIOUS
<1>2. PICK F \in [0 .. n -> Nat] : Sums(F, src, n) /\ FoldLeft(Plus, 0, src) = F[n]
  BY <1>1, SumPasses
<1>3. ASSUME NEW i \in 1 .. shift + last
      PROVE  BucketAt(src, i - shift) \in Nat /\ BucketAt(src, i - shift) = IF i <= shift THEN 0 ELSE src[i - shift]
  BY <1>1 DEF BucketAt
<1>4. moved \in [1 .. shift + last -> Nat]
  BY <1>3
<1>5. moved \in Seq(Nat)
  <2> HIDE DEF moved
  <2> QED
    BY <1>1, <1>4
<1> DEFINE Kept == {i \in 0 .. n : i >= last => F[i] = F[last]}
<1>6. F[n] = F[last]
  <2>1. 0 \in Kept
    BY <1>1
  <2>2. ASSUME NEW i \in 1 .. n, i - 1 \in Kept PROVE i \in Kept
    <3>1. CASE i <= last
      BY <1>1, <3>1
    <3>2. CASE i > last
      <4>1. i \in last + 1 .. n /\ i - 1 >= last
        BY <1>1, <3>2
      <4>2. src[i] = 0 /\ F[i - 1] = F[last] /\ F[last] \in Nat
        BY <1>1, <2>2, <4>1
      <4>3. F[i] = F[last]
        BY <1>2, <4>2 DEF Sums
      <4> QED
        BY <4>3
    <3> QED
      BY <1>1, <3>1, <3>2
  <2>3. 0 .. n \subseteq Kept
    <3> HIDE DEF Kept, n
    <3> QED
      BY <1>1, <2>1, <2>2, Adding!Counting
  <2> QED
    BY <1>1, <2>3
<1> DEFINE m == shift + last
           G == [i \in 0 .. m |-> IF i <= shift THEN 0 ELSE F[i - shift]]
<1>7. ASSUME NEW i \in 1 .. m PROVE G[i] = G[i - 1] + moved[i]
  <2>1. CASE i <= shift
    <3>1. i \in 0 .. m /\ i - 1 \in 0 .. m /\ i - 1 <= shift
      BY <1>1, <2>1
    <3>2. moved[i] = 0
      BY <1>3, <2>1
    <3>3. G[i] = 0 /\ G[i - 1] = 0
      BY <2>1, <3>1
    <3> QED
      BY <3>2, <3>3
  <2>2. CASE i > shift
    <3>1. i \in 0 .. m /\ i - 1 \in 0 .. m /\ i - shift \in 1 .. n /\ (i - shift) - 1 \in 0 .. n
      BY <1>1, <2>2
    <3>2. moved[i] = src[i - shift] /\ moved[i] \in Nat
      BY <1>1, <1>3, <2>2
    <3>3. F[i - shift] = F[(i - shift) - 1] + src[i - shift]
      BY <1>2, <3>1 DEF Sums
    <3>4. G[i - 1] = F[(i - shift) - 1]
      <4>1. CASE i - 1 = shift
        <5>1. (i - shift) - 1 = 0 /\ i - 1 <= shift
          BY <1>1, <4>1
        <5> QED
          BY <1>2, <3>1, <5>1 DEF Sums
      <4>2. CASE i - 1 # shift
        <5>1. ~(i - 1 <= shift) /\ (i - 1) - shift = (i - shift) - 1
          BY <1>1, <2>2, <4>2
        <5> QED
          BY <3>1, <5>1
      <4> QED
        BY <4>1, <4>2
    <3>5. G[i] = F[i - shift]
      BY <2>2, <3>1
    <3> QED
      BY <3>2, <3>3, <3>4, <3>5
  <2> QED
    BY <1>1, <2>1, <2>2
<1>8. G[0] = 0 /\ G[m] = F[last]
  <2>1. 0 \in 0 .. m /\ m \in 0 .. m /\ 0 <= shift
    BY <1>1
  <2>2. m - shift = last /\ (m <= shift => last = 0)
    BY <1>1
  <2> QED
    BY <1>2, <2>1, <2>2 DEF Sums
<1>9. moved \in [1 .. m -> Nat] /\ m \in Nat
  BY <1>1, <1>4
<1> HIDE DEF G, moved, m
<1>10. Sums(G, moved, m)
  BY <1>7, <1>8 DEF Sums
<1>11. TotalOf(moved) = G[m]
  BY <1>9, <1>10, SumCalculated DEF TotalOf
<1>12. TotalOf(moved) = TotalOf(src)
  BY <1>2, <1>6, <1>8, <1>11 DEF TotalOf
<1> QED
  BY <1>5, <1>12 DEF moved

\* The buckets of two exponential histograms, wherever they begin.
LEMMA BucketsMerged ==
  ASSUME NEW t \in Seq(Nat), NEW src \in Seq(Nat), NEW from \in Int, NEW off \in Int
  PROVE  /\ MergeBuckets(t, src, from, off) \in Seq(Nat)
         /\ TotalOf(MergeBuckets(t, src, from, off)) = TotalOf(t) + TotalOf(src)
<1> DEFINE shift == off - from
           last == CHOOSE b \in Used(src) : \A c \in Used(src) : c <= b
<1>1. shift \in Int /\ Len(src) \in Nat /\ src \in [1 .. Len(src) -> Nat]
  OBVIOUS
<1>2. CASE shift = 0
  BY <1>2, BucketsAdded DEF MergeBuckets
<1>3. CASE shift < 0
  BY <1>3, BucketsPut DEF MergeBuckets
<1>4. CASE shift > 0 /\ Used(src) = {}
  <2>1. MergeBuckets(t, src, from, off) = t
    BY <1>4 DEF MergeBuckets
  <2>2. \A i \in 0 + 1 .. Len(src) : src[i] = 0
    BY <1>1, <1>4 DEF Used
  <2>3. PICK F \in [0 .. Len(src) -> Nat] : Sums(F, src, Len(src)) /\ FoldLeft(Plus, 0, src) = F[Len(src)]
    BY <1>1, SumPasses
  <2> DEFINE Zero == [i \in 0 .. Len(src) |-> 0]
  <2>4. Sums(Zero, src, Len(src))
    <3>1. \A i \in 1 .. Len(src) : i \in 0 .. Len(src) /\ i - 1 \in 0 .. Len(src) /\ src[i] = 0
      BY <1>1, <2>2
    <3> QED
      BY <1>1, <3>1 DEF Sums
  <2>5. FoldLeft(Plus, 0, src) = Zero[Len(src)]
    <3> HIDE DEF Zero
    <3> QED
      BY <1>1, <2>4, SumCalculated
  <2>6. TotalOf(src) = 0 /\ TotalOf(t) \in Nat
    BY <1>1, <2>5, SumAppended DEF TotalOf
  <2> QED
    BY <2>1, <2>6
<1>5. CASE shift > 0 /\ Used(src) # {}
  <2> DEFINE moved == [i \in 1 .. shift + last |-> BucketAt(src, i - shift)]
  <2>1. Used(src) \in SUBSET (1 .. Len(src))
    BY <1>1 DEF Used
  <2>2. Max(Used(src)) \in Used(src) /\ \A c \in Used(src) : c <= Max(Used(src))
    BY <1>1, <1>5, <2>1, GreatestIndex
  <2>3. last \in Used(src) /\ \A c \in Used(src) : c <= last
    BY <2>2
  <2> HIDE DEF last
  <2>4. last \in 0 .. Len(src) /\ \A i \in last + 1 .. Len(src) : src[i] = 0
    <3>1. last \in 0 .. Len(src)
      BY <2>1, <2>3
    <3>2. ASSUME NEW i \in last + 1 .. Len(src) PROVE src[i] = 0
      <4>1. i \in 1 .. Len(src) /\ ~(i <= last)
        BY <1>1, <3>1
      <4>2. i \notin Used(src) /\ src[i] \in Nat
        BY <1>1, <2>3, <4>1
      <4> QED
        BY <1>1, <4>1, <4>2 DEF Used
    <3> QED
      BY <3>1, <3>2
  <2>5. shift \in Nat
    BY <1>1, <1>5
  <2> HIDE DEF shift
  <2>6. moved \in Seq(Nat) /\ TotalOf(moved) = TotalOf(src)
    BY <2>4, <2>5, BucketsMoved
  <2>7. MergeBuckets(t, src, from, off) = AddBuckets(t, moved)
    BY <1>5 DEF MergeBuckets, shift, last
  <2> HIDE DEF moved
  <2> QED
    BY <2>6, <2>7, BucketsAdded
<1> QED
  BY <1>1, <1>2, <1>3, <1>4, <1>5

\* Cutting off empty buckets.
LEMMA BucketsTrimmed ==
  ASSUME NEW t \in Seq(Nat)
  PROVE  TrimBuckets(t) \in Seq(Nat) /\ TotalOf(TrimBuckets(t)) = TotalOf(t)
<1> DEFINE n == Len(t)
           empty == {i \in 0 .. n : \A j \in 1 .. i : t[j] = 0}
           e == CHOOSE i \in empty : \A j \in empty : j <= i
<1>1. n \in Nat /\ t \in [1 .. n -> Nat]
  OBVIOUS
<1>2. e \in empty
  <2> DEFINE B == {n - i : i \in empty}
  <2>1. \A i \in empty : n - i \in Nat
    BY <1>1
  <2>2. 0 \in empty
    BY <1>1
  <2>3. B \in SUBSET Nat /\ B # {}
    BY <2>1, <2>2
  <2>4. PICK b \in B : \A c \in B : b <= c
    <3> HIDE DEF B
    <3> QED
      BY <2>3, Adding!LeastNatural
  <2>5. PICK i \in empty : b = n - i
    OBVIOUS
  <2>6. ASSUME NEW j \in empty PROVE j <= i
    <3>1. n - i <= n - j
      BY <2>4, <2>5
    <3> QED
      BY <1>1, <3>1
  <2> HIDE DEF empty
  <2> QED
    BY <2>5, <2>6
<1>3. e \in 0 .. n /\ \A j \in 1 .. e : t[j] = 0
  BY <1>2
<1>4. TrimBuckets(t) = SubSeq(t, e + 1, n)
  BY DEF TrimBuckets
<1> HIDE DEF e, n
<1>5. PICK F \in [0 .. n -> Nat] : Sums(F, t, n) /\ FoldLeft(Plus, 0, t) = F[n]
  BY <1>1, SumPasses
<1> DEFINE Kept == {i \in 0 .. n : i <= e => F[i] = 0}
<1>6. F[e] = 0
  <2>1. 0 \in Kept
    BY <1>1, <1>5 DEF Sums
  <2>2. ASSUME NEW i \in 1 .. n, i - 1 \in Kept PROVE i \in Kept
    <3>1. CASE i <= e
      <4>1. i \in 1 .. e /\ i - 1 <= e
        BY <1>3, <3>1
      <4>2. t[i] = 0 /\ F[i - 1] = 0
        BY <1>3, <2>2, <4>1
      <4>3. F[i] = 0
        BY <1>5, <4>2 DEF Sums
      <4> QED
        BY <4>3
    <3>2. CASE ~(i <= e)
      BY <3>2
    <3> QED
      BY <3>1, <3>2
  <2>3. 0 .. n \subseteq Kept
    <3> HIDE DEF Kept
    <3> QED
      BY <1>1, <2>1, <2>2, Adding!Counting
  <2> QED
    BY <1>3, <2>3
<1> DEFINE rest == SubSeq(t, e + 1, n)
           m == n - e
           G == [i \in 0 .. m |-> F[e + i]]
<1>7. m \in Nat /\ \A i \in 1 .. m : e + i \in 1 .. n
  BY <1>1, <1>3
<1>8. rest \in Seq(Nat) /\ Len(rest) = m /\ \A i \in 1 .. m : rest[i] = t[e + i]
  <2>1. \A i \in e + 1 .. n : t[i] \in Nat
    BY <1>1, <1>3
  <2>2. rest \in Seq(Nat) /\ Len(rest) = (IF e + 1 <= n + 1 THEN ((n + 1) - (e + 1)) ELSE 0)
    BY <1>1, <1>3, <2>1, SubSeqProperties
  <2>3. \A i \in 1 .. m : rest[i] = t[((e + 1) + i) - 1]
    BY <1>1, <1>3
  <2> QED
    BY <1>1, <1>3, <2>2, <2>3
<1>9. G[0] = 0 /\ G[m] = F[n]
  <2>1. e + 0 = e /\ e + m = n /\ 0 \in 0 .. m /\ m \in 0 .. m
    BY <1>1, <1>3
  <2> QED
    BY <1>6, <2>1
<1>10. ASSUME NEW i \in 1 .. m PROVE G[i] = G[i - 1] + rest[i]
  <2>1. e + i \in 1 .. n /\ (e + i) - 1 = e + (i - 1) /\ i \in 0 .. m /\ i - 1 \in 0 .. m
    BY <1>3, <1>7
  <2> QED
    BY <1>5, <1>8, <2>1 DEF Sums
<1> HIDE DEF rest, G, m
<1>11. Sums(G, rest, m)
  BY <1>9, <1>10 DEF Sums
<1>12. DOMAIN rest = 1 .. m
  BY <1>8
<1>13. TotalOf(rest) = G[m]
  BY <1>7, <1>11, <1>12, SumCalculated DEF TotalOf
<1> QED
  BY <1>4, <1>5, <1>8, <1>9, <1>13 DEF TotalOf, rest

-----------------------------------------------------------------------------
(* Numbers: where the value of each aggregation lies.                       *)

\* A rounded quotient is less than one away.
LEMMA QuotientClose ==
  ASSUME NEW a \in Int, NEW n \in Nat \ {0}
  PROVE  /\ Quotient(a, n) \in Int
         /\ n * (Quotient(a, n) - 1) < a
         /\ a < n * (Quotient(a, n) + 1)
<1>1. ASSUME NEW b \in Nat
      PROVE  /\ b \div n \in Nat
             /\ n * (b \div n) <= b /\ b < n * ((b \div n) + 1)
             /\ n * ((b \div n) - 1) < b
  <2>1. b = n * (b \div n) + (b % n) /\ b % n \in 0 .. n - 1 /\ b \div n \in Int
    OBVIOUS
  <2> DEFINE q == b \div n
             m == n * q
  <2>2. m \in Int /\ m <= b /\ b < m + n
    BY <2>1
  <2>3. n * (q + 1) = m + n /\ n * (q - 1) = m - n
    BY <2>1
  <2>4. q >= 0
    BY <2>1
  <2> QED
    BY <2>1, <2>2, <2>3, <2>4
<1>2. CASE a >= 0
  <2>1. a \in Nat
    BY <1>2
  <2> QED
    BY <1>1, <1>2, <2>1 DEF Quotient
<1>3. CASE a < 0
  <2> DEFINE q == (-a) \div n
  <2>1. -a \in Nat
    BY <1>3
  <2>2. q \in Nat /\ n * q <= -a /\ -a < n * (q + 1) /\ n * (q - 1) < -a
    BY <1>1, <2>1
  <2>3. Quotient(a, n) = -q
    BY <1>3 DEF Quotient
  <2> HIDE DEF q
  <2>4. n * ((-q) - 1) = -(n * (q + 1)) /\ n * ((-q) + 1) = -(n * (q - 1))
    BY <2>2
  <2>5. n * (q + 1) \in Int /\ n * (q - 1) \in Int
    BY <2>2
  <2> QED
    BY <2>2, <2>3, <2>4, <2>5
<1> QED
  BY <1>2, <1>3

\* As many numbers from q on add up to as many times q.
LEMMA SumFrom ==
  ASSUME NEW n \in Nat, NEW s \in [1 .. n -> Int], NEW q \in Int, \A i \in 1 .. n : s[i] >= q
  PROVE  FoldLeft(Plus, 0, s) \in Int /\ FoldLeft(Plus, 0, s) >= n * q
<1>1. PICK F \in [0 .. n -> Int] : Sums(F, s, n) /\ FoldLeft(Plus, 0, s) = F[n]
  BY SumPasses
<1> DEFINE Kept == {i \in 0 .. n : F[i] >= i * q}
<1>2. 0 \in Kept
  BY <1>1 DEF Sums
<1>3. ASSUME NEW i \in 1 .. n, i - 1 \in Kept PROVE i \in Kept
  <2>1. F[i] = F[i - 1] + s[i] /\ F[i - 1] \in Int /\ s[i] \in Int /\ i \in 0 .. n
    BY <1>1, <1>3 DEF Sums
  <2>2. F[i - 1] >= (i - 1) * q /\ s[i] >= q
    BY <1>3
  <2>3. (i - 1) * q + q = i * q /\ (i - 1) * q \in Int /\ i * q \in Int
    OBVIOUS
  <2> QED
    BY <2>1, <2>2, <2>3
<1>4. 0 .. n \subseteq Kept
  <2> HIDE DEF Kept
  <2> QED
    BY <1>2, <1>3, Adding!Counting
<1> QED
  BY <1>1, <1>4

\* As many numbers up to q add up to as many times q.
LEMMA SumUpTo ==
  ASSUME NEW n \in Nat, NEW s \in [1 .. n -> Int], NEW q \in Int, \A i \in 1 .. n : s[i] <= q
  PROVE  FoldLeft(Plus, 0, s) \in Int /\ FoldLeft(Plus, 0, s) <= n * q
<1>1. PICK F \in [0 .. n -> Int] : Sums(F, s, n) /\ FoldLeft(Plus, 0, s) = F[n]
  BY SumPasses
<1> DEFINE Kept == {i \in 0 .. n : F[i] <= i * q}
<1>2. 0 \in Kept
  BY <1>1 DEF Sums
<1>3. ASSUME NEW i \in 1 .. n, i - 1 \in Kept PROVE i \in Kept
  <2>1. F[i] = F[i - 1] + s[i] /\ F[i - 1] \in Int /\ s[i] \in Int /\ i \in 0 .. n
    BY <1>1, <1>3 DEF Sums
  <2>2. F[i - 1] <= (i - 1) * q /\ s[i] <= q
    BY <1>3
  <2>3. (i - 1) * q + q = i * q /\ (i - 1) * q \in Int /\ i * q \in Int
    OBVIOUS
  <2> QED
    BY <2>1, <2>2, <2>3
<1>4. 0 .. n \subseteq Kept
  <2> HIDE DEF Kept
  <2> QED
    BY <1>2, <1>3, Adding!Counting
<1> QED
  BY <1>1, <1>4

\* The mean is between two of the numbers.
LEMMA MeanBetween ==
  ASSUME NEW n \in Nat \ {0}, NEW s \in [1 .. n -> Int]
  PROVE  LET mean == Quotient(FoldLeft(Plus, 0, s), n)
         IN  /\ mean \in Int
             /\ \E i \in 1 .. n : s[i] <= mean
             /\ \E i \in 1 .. n : s[i] >= mean
<1> DEFINE sum == FoldLeft(Plus, 0, s)
           mean == Quotient(sum, n)
<1>1. sum \in Int
  <2>1. PICK F \in [0 .. n -> Int] : Sums(F, s, n) /\ FoldLeft(Plus, 0, s) = F[n]
    BY SumPasses
  <2>2. n \in 0 .. n
    OBVIOUS
  <2> QED
    BY <2>1, <2>2
<1> HIDE DEF sum
<1>2. mean \in Int /\ n * (mean - 1) < sum /\ sum < n * (mean + 1)
  BY <1>1, QuotientClose
<1> HIDE DEF mean
<1>3. \E i \in 1 .. n : s[i] <= mean
  <2> SUFFICES ASSUME \A i \in 1 .. n : ~(s[i] <= mean) PROVE FALSE
    OBVIOUS
  <2>1. mean + 1 \in Int /\ \A i \in 1 .. n : s[i] >= mean + 1
    BY <1>2
  <2>2. sum >= n * (mean + 1)
    BY <2>1, SumFrom DEF sum
  <2>3. n * (mean + 1) \in Int
    BY <2>1
  <2> QED
    BY <1>1, <1>2, <2>2, <2>3
<1>4. \E i \in 1 .. n : s[i] >= mean
  <2> SUFFICES ASSUME \A i \in 1 .. n : ~(s[i] >= mean) PROVE FALSE
    OBVIOUS
  <2>1. mean - 1 \in Int /\ \A i \in 1 .. n : s[i] <= mean - 1
    BY <1>2
  <2>2. sum <= n * (mean - 1)
    BY <2>1, SumUpTo DEF sum
  <2>3. n * (mean - 1) \in Int
    BY <2>1
  <2> QED
    BY <1>1, <1>2, <2>2, <2>3
<1> QED
  BY <1>2, <1>3, <1>4 DEF mean, sum

\* The maximum is one of the numbers, and none is above it.
LEMMA MaximumOf ==
  ASSUME NEW n \in Nat \ {0}, NEW s \in [1 .. n -> Int]
  PROVE  LET max == FoldLeft(Greatest, s[1], s)
         IN  max \in Int /\ (\E i \in 1 .. n : s[i] = max) /\ \A i \in 1 .. n : s[i] <= max
<1> DEFINE A == [i \in 0 .. n |-> {x \in Int : (\E j \in 1 .. n : s[j] = x) /\ \A j \in 1 .. i : s[j] <= x}]
<1>1. s[1] \in A[0]
  OBVIOUS
<1>2. ASSUME NEW i \in 1 .. n, NEW x \in A[i - 1] PROVE Greatest(x, s[i]) \in A[i]
  <2>1. x \in Int /\ (\E j \in 1 .. n : s[j] = x) /\ \A j \in 1 .. i - 1 : s[j] <= x
    OBVIOUS
  <2>2. s[i] \in Int /\ i \in 0 .. n /\ \A j \in 1 .. i : j \in 1 .. i - 1 \/ j = i
    OBVIOUS
  <2>3. \A j \in 1 .. i : s[j] \in Int
    OBVIOUS
  <2> DEFINE y == Greatest(x, s[i])
  <2>4. y \in Int /\ y \in {x, s[i]} /\ x <= y /\ s[i] <= y
    BY <2>1, <2>2 DEF Greatest
  <2> HIDE DEF y
  <2>5. \E j \in 1 .. n : s[j] = y
    BY <2>1, <2>4
  <2>6. \A j \in 1 .. i : s[j] <= y
    BY <2>1, <2>2, <2>3, <2>4
  <2>7. y \in A[i]
    BY <2>2, <2>4, <2>5, <2>6
  <2> QED
    BY <2>7 DEF y
<1>3. Highest!Picks(1 .. n) /\ Highest!Last(n)
  BY LastIndex DEF Highest!Picks, Highest!Last
<1> HIDE DEF A
<1>4. Highest!Fold(s[1], s) \in A[n]
  BY <1>1, <1>2, <1>3, Highest!FoldStays
<1> QED
  BY <1>4, HighestFold DEF A

\* The minimum is one of the numbers, and none is below it.
LEMMA MinimumOf ==
  ASSUME NEW n \in Nat \ {0}, NEW s \in [1 .. n -> Int]
  PROVE  LET min == FoldLeft(Least, s[1], s)
         IN  min \in Int /\ (\E i \in 1 .. n : s[i] = min) /\ \A i \in 1 .. n : min <= s[i]
<1> DEFINE A == [i \in 0 .. n |-> {x \in Int : (\E j \in 1 .. n : s[j] = x) /\ \A j \in 1 .. i : x <= s[j]}]
<1>1. s[1] \in A[0]
  OBVIOUS
<1>2. ASSUME NEW i \in 1 .. n, NEW x \in A[i - 1] PROVE Least(x, s[i]) \in A[i]
  <2>1. x \in Int /\ (\E j \in 1 .. n : s[j] = x) /\ \A j \in 1 .. i - 1 : x <= s[j]
    OBVIOUS
  <2>2. s[i] \in Int /\ i \in 0 .. n /\ \A j \in 1 .. i : j \in 1 .. i - 1 \/ j = i
    OBVIOUS
  <2>3. \A j \in 1 .. i : s[j] \in Int
    OBVIOUS
  <2> DEFINE y == Least(x, s[i])
  <2>4. y \in Int /\ y \in {x, s[i]} /\ y <= x /\ y <= s[i]
    BY <2>1, <2>2 DEF Least
  <2> HIDE DEF y
  <2>5. \E j \in 1 .. n : s[j] = y
    BY <2>1, <2>4
  <2>6. \A j \in 1 .. i : y <= s[j]
    BY <2>1, <2>2, <2>3, <2>4
  <2>7. y \in A[i]
    BY <2>2, <2>4, <2>5, <2>6
  <2> QED
    BY <2>7 DEF y
<1>3. Lowest!Picks(1 .. n) /\ Lowest!Last(n)
  BY LastIndex DEF Lowest!Picks, Lowest!Last
<1> HIDE DEF A
<1>4. Lowest!Fold(s[1], s) \in A[n]
  BY <1>1, <1>2, <1>3, Lowest!FoldStays
<1> QED
  BY <1>4, LowestFold DEF A

\* Numbers can be put in order: the greatest last, after the others in order.
LEMMA OrderingExists ==
  ASSUME NEW n \in Nat, NEW s \in [1 .. n -> Int]
  PROVE  Ordering(s) # {}
<1> DEFINE Sortable == {k \in 0 .. n : \A t \in [1 .. k -> Int] : Ordering(t) # {}}
<1>1. 0 \in Sortable
  <2>1. ASSUME NEW t \in [1 .. 0 -> Int] PROVE Ordering(t) # {}
    <3>1. [i \in 1 .. 0 |-> i] \in Ordering(t)
      BY DEF Ordering, IsInjective
    <3> QED
      BY <3>1
  <2> QED
    BY <2>1
<1>2. ASSUME NEW k \in 1 .. n, k - 1 \in Sortable PROVE k \in Sortable
  <2> SUFFICES ASSUME NEW t \in [1 .. k -> Int] PROVE Ordering(t) # {}
    OBVIOUS
  <2>1. PICK m \in 1 .. k : \A i \in 1 .. k : t[i] <= t[m]
    <3>1. k \in Nat \ {0}
      OBVIOUS
    <3>2. \E m \in 1 .. k : t[m] = FoldLeft(Greatest, t[1], t)
      BY <3>1, MaximumOf
    <3>3. \A i \in 1 .. k : t[i] <= FoldLeft(Greatest, t[1], t)
      BY <3>1, MaximumOf
    <3> QED
      BY <3>2, <3>3
  <2> DEFINE u == [i \in 1 .. k - 1 |-> IF i = m THEN t[k] ELSE t[i]]
  <2>2. u \in [1 .. k - 1 -> Int]
    OBVIOUS
  <2>3. Ordering(u) # {}
    BY <1>2, <2>2
  <2>4. PICK p \in Ordering(u) : TRUE
    BY <2>3
  <2>5. /\ p \in [1 .. k - 1 -> 1 .. k - 1]
        /\ \A i, j \in 1 .. k - 1 : p[i] = p[j] => i = j
        /\ \A i, j \in 1 .. k - 1 : i < j => u[p[i]] <= u[p[j]]
    BY <2>2, <2>4 DEF Ordering, IsInjective
  <2> DEFINE q == [i \in 1 .. k |-> IF i = k THEN m ELSE IF p[i] = m THEN k ELSE p[i]]
  <2>6. q \in [1 .. k -> 1 .. k]
    BY <2>5
  <2>7. ASSUME NEW i \in 1 .. k - 1
        PROVE  /\ q[i] \in 1 .. k /\ q[i] # m /\ t[q[i]] = u[p[i]]
               /\ q[i] = IF p[i] = m THEN k ELSE p[i]
    <3>1. p[i] \in 1 .. k - 1 /\ i \in 1 .. k /\ i # k
      BY <2>5
    <3>2. q[i] = IF p[i] = m THEN k ELSE p[i]
      BY <3>1
    <3>3. u[p[i]] = IF p[i] = m THEN t[k] ELSE t[p[i]]
      BY <3>1
    <3>4. q[i] \in 1 .. k /\ q[i] # m
      BY <3>1, <3>2
    <3> QED
      BY <3>2, <3>3, <3>4
  <2>8. q[k] = m
    OBVIOUS
  <2> HIDE DEF q, u
  <2>9. ASSUME NEW i \in 1 .. k, NEW j \in 1 .. k, q[i] = q[j] PROVE i = j
    <3>1. CASE i = k \/ j = k
      <4>1. i # k => i \in 1 .. k - 1
        OBVIOUS
      <4>2. j # k => j \in 1 .. k - 1
        OBVIOUS
      <4> QED
        BY <2>7, <2>8, <2>9, <3>1, <4>1, <4>2
    <3>2. CASE i # k /\ j # k
      <4>1. i \in 1 .. k - 1 /\ j \in 1 .. k - 1
        BY <3>2
      <4>2. p[i] # k /\ p[j] # k
        BY <2>5, <4>1
      <4>3. p[i] = p[j]
        BY <2>7, <2>9, <4>1, <4>2
      <4> QED
        BY <2>5, <4>1, <4>3
    <3> QED
      BY <3>1, <3>2
  <2>10. ASSUME NEW i \in 1 .. k, NEW j \in 1 .. k, i < j PROVE t[q[i]] <= t[q[j]]
    <3>1. i \in 1 .. k - 1
      BY <2>10
    <3>2. CASE j = k
      BY <2>1, <2>7, <2>8, <3>1, <3>2
    <3>3. CASE j # k
      <4>1. j \in 1 .. k - 1
        BY <3>3
      <4> QED
        BY <2>5, <2>7, <2>10, <3>1, <4>1
    <3> QED
      BY <3>2, <3>3
  <2>11. DOMAIN t = 1 .. k /\ DOMAIN q = 1 .. k
    BY <2>6
  <2>12. q \in Ordering(t)
    BY <2>6, <2>9, <2>10, <2>11 DEF Ordering, IsInjective
  <2> QED
    BY <2>12
<1>3. 0 .. n \subseteq Sortable
  <2> HIDE DEF Sortable
  <2> QED
    BY <1>1, <1>2, Adding!Counting
<1> QED
  BY <1>3

\* Half of a sum, rounded, is between the two numbers.
LEMMA Midpoint ==
  ASSUME NEW a \in Int, NEW b \in Int, a <= b
  PROVE  a <= Quotient(a + b, 2) /\ Quotient(a + b, 2) <= b
<1>1. CASE a + b >= 0
  BY <1>1 DEF Quotient
<1>2. CASE a + b < 0
  BY <1>2 DEF Quotient
<1> QED
  BY <1>1, <1>2

\* The median is not below half of the numbers, nor above half of them.
LEMMA MedianBetween ==
  ASSUME NEW n \in Nat \ {0}, NEW s \in [1 .. n -> Int], NEW one
  PROVE  LET median == Value("median", s, one)
         IN  /\ median \in Int
             /\ \E p \in [1 .. n -> 1 .. n], low \in 1 .. n, high \in 1 .. n :
                  /\ IsInjective(p)
                  /\ 2 * low >= n /\ 2 * ((n - high) + 1) >= n
                  /\ \A i \in 1 .. low : s[p[i]] <= median
                  /\ \A i \in high .. n : median <= s[p[i]]
<1> DEFINE median == Value("median", s, one)
           p == CHOOSE q \in Ordering(s) : TRUE
           h == n \div 2
           sorted == [i \in 1 .. n |-> s[p[i]]]
<1>1. p \in Ordering(s)
  BY OrderingExists
<1> HIDE DEF p
<1>2. /\ p \in [1 .. n -> 1 .. n] /\ IsInjective(p)
      /\ \A i, j \in 1 .. n : i < j => s[p[i]] <= s[p[j]]
  BY <1>1 DEF Ordering
<1>3. \A i \in 1 .. n : sorted[i] \in Int /\ sorted[i] = s[p[i]]
  BY <1>2
<1>4. \A i, j \in 1 .. n : i <= j => sorted[i] <= sorted[j]
  <2>1. ASSUME NEW i \in 1 .. n, NEW j \in 1 .. n, i <= j PROVE sorted[i] <= sorted[j]
    <3>1. i < j \/ i = j
      BY <2>1
    <3> HIDE DEF sorted
    <3> QED
      BY <1>2, <1>3, <3>1
  <2> QED
    BY <2>1
<1>5. Sorted(s) = sorted
  BY DEF Sorted, p
<1> HIDE DEF sorted
<1>6. Len(s) = n /\ n % 2 \in {0, 1} /\ h \in Nat /\ n = 2 * h + (n % 2)
  OBVIOUS
<1> HIDE DEF h
<1>7. CASE n % 2 = 1
  <2>1. h + 1 \in 1 .. n /\ 2 * (h + 1) >= n /\ 2 * ((n - (h + 1)) + 1) >= n
    BY <1>6, <1>7
  <2>2. median = sorted[h + 1]
    BY <1>5, <1>6, <1>7 DEF Value, h
  <2>3. \A i \in 1 .. h + 1 : s[p[i]] <= median
    BY <1>3, <1>4, <2>1, <2>2
  <2>4. \A i \in h + 1 .. n : median <= s[p[i]]
    BY <1>3, <1>4, <2>1, <2>2
  <2>5. median \in Int
    BY <1>3, <2>1, <2>2
  <2> HIDE DEF median
  <2> QED
    BY <1>2, <2>1, <2>3, <2>4, <2>5 DEF median
<1>8. CASE n % 2 = 0
  <2>1. h \in 1 .. n /\ h + 1 \in 1 .. n /\ 2 * h >= n /\ 2 * ((n - (h + 1)) + 1) >= n
    BY <1>6, <1>8
  <2> DEFINE a == sorted[h]
             b == sorted[h + 1]
  <2>2. a \in Int /\ b \in Int /\ a <= b
    BY <1>3, <1>4, <2>1
  <2>3. median = Quotient(a + b, 2)
    BY <1>5, <1>6, <1>8 DEF Value, h
  <2> HIDE DEF median
  <2>4. median \in Int /\ a <= median /\ median <= b
    <3> HIDE DEF a, b
    <3>1. a + b \in Int /\ 2 \in Nat \ {0}
      BY <2>2
    <3>2. median \in Int
      BY <2>3, <3>1, QuotientClose
    <3> QED
      BY <2>2, <2>3, <3>2, Midpoint
  <2>5. \A i \in 1 .. h : s[p[i]] <= median
    <3>1. ASSUME NEW i \in 1 .. h PROVE s[p[i]] <= median
      <4>1. i \in 1 .. n /\ sorted[i] <= a
        BY <1>4, <2>1
      <4> QED
        BY <1>3, <2>2, <2>4, <4>1
    <3> QED
      BY <3>1
  <2>6. \A i \in h + 1 .. n : median <= s[p[i]]
    <3>1. ASSUME NEW i \in h + 1 .. n PROVE median <= s[p[i]]
      <4>1. i \in 1 .. n /\ b <= sorted[i]
        BY <1>4, <2>1
      <4> QED
        BY <1>3, <2>2, <2>4, <4>1
    <3> QED
      BY <3>1
  <2> QED
    BY <1>2, <2>1, <2>4, <2>5, <2>6 DEF median
<1> QED
  BY <1>6, <1>7, <1>8

-----------------------------------------------------------------------------
(* Points: what a merged point keeps of the points it is made of.           *)

\* The points with these attributes and this time
PointsOf(a, t) ==
  [attrs : {a}, time : {t}, start : Int, type : {"int", "double"}, value : Int, count : Nat,
   zero : Nat, bounds : Seq(Int), buckets : Seq(Nat), offset : Int]

Balanced(p) == p.count = p.zero + TotalOf(p.buckets)

\* A point that another one has been joined to
JoinedBy(dp, next, r) ==
  /\ r.value = dp.value + next.value
  /\ r.start <= dp.start /\ r.start \in {dp.start, next.start}
  /\ next.count # 0 => r.start <= next.start

\* A count, a sum and a start are joined.
LEMMA JoinedSound ==
  ASSUME NEW a, NEW t, NEW dp \in PointsOf(a, t), NEW next \in PointsOf(a, t)
  PROVE  /\ Joined(dp, next) \in PointsOf(a, t)
         /\ JoinedBy(dp, next, Joined(dp, next))
         /\ Joined(dp, next).buckets = dp.buckets /\ Joined(dp, next).offset = dp.offset
         /\ Joined(dp, next).count = dp.count + next.count
         /\ Joined(dp, next).zero = dp.zero + next.zero
<1>1. Least(dp.start, next.start) \in {dp.start, next.start}
  BY DEF Least
<1>2. Least(dp.start, next.start) <= dp.start /\ Least(dp.start, next.start) <= next.start
  BY DEF Least, PointsOf
<1>3. dp.count + next.count \in Nat /\ dp.value + next.value \in Int /\ dp.zero + next.zero \in Nat
  BY DEF PointsOf
<1>4. dp.start \in Int /\ next.start \in Int
  BY DEF PointsOf
<1> QED
  BY <1>1, <1>2, <1>3, <1>4 DEF Joined, JoinedBy, PointsOf

\* With the buckets of both, a joined point counts what is in its buckets.
LEMMA WithBuckets ==
  ASSUME NEW a, NEW t, NEW dp \in PointsOf(a, t), NEW next \in PointsOf(a, t),
         NEW b \in Seq(Nat),
         TotalOf(b) = TotalOf(dp.buckets) + TotalOf(next.buckets), NEW o \in Int,
         NEW r, r = [Joined(dp, next) EXCEPT !.buckets = b, !.offset = o]
  PROVE  /\ r \in PointsOf(a, t) /\ JoinedBy(dp, next, r)
         /\ Balanced(dp) /\ Balanced(next) => Balanced(r)
<1> DEFINE j == Joined(dp, next)
<1>1. /\ j \in PointsOf(a, t) /\ JoinedBy(dp, next, j)
      /\ j.count = dp.count + next.count /\ j.zero = dp.zero + next.zero
  BY JoinedSound
<1> HIDE DEF j
<1>2. r = [j EXCEPT !.buckets = b, !.offset = o]
  BY DEF j
<1>3. r \in PointsOf(a, t)
  BY <1>1, <1>2 DEF PointsOf
<1>4. /\ r.buckets = b /\ r.count = j.count /\ r.zero = j.zero
      /\ r.value = j.value /\ r.start = j.start
  BY <1>1, <1>2 DEF PointsOf
<1>5. JoinedBy(dp, next, r)
  BY <1>1, <1>4 DEF JoinedBy
<1>6. TotalOf(dp.buckets) \in Nat /\ TotalOf(next.buckets) \in Nat /\ dp.zero \in Nat /\ next.zero \in Nat
  BY SumAppended DEF PointsOf, TotalOf
<1>7. ASSUME Balanced(dp), Balanced(next) PROVE Balanced(r)
  BY <1>1, <1>4, <1>6, <1>7 DEF Balanced
<1> QED
  BY <1>3, <1>5, <1>7

\* A point without a count is passed over, which loses nothing.
LEMMA PassedOver ==
  ASSUME NEW a, NEW t, NEW dp \in PointsOf(a, t), NEW next \in PointsOf(a, t),
         next.count = 0, next.value = 0
  PROVE  JoinedBy(dp, next, dp)
BY DEF JoinedBy, PointsOf

\* Two points of a histogram.
LEMMA HistogramJoined ==
  ASSUME NEW a, NEW t, NEW dp \in PointsOf(a, t), NEW next \in PointsOf(a, t),
         next.count = 0 => next.value = 0
  PROVE  LET r == MergeHistogramPoint(dp, next)
         IN  /\ r \in PointsOf(a, t) /\ JoinedBy(dp, next, r)
             /\ Balanced(dp) /\ Balanced(next) => Balanced(r)
<1>1. CASE next.count = 0
  BY <1>1, PassedOver DEF MergeHistogramPoint
<1>2. CASE next.count # 0
  <2> DEFINE j == Joined(dp, next)
             b == AddBuckets(dp.buckets, next.buckets)
  <2>1. dp.buckets \in Seq(Nat) /\ next.buckets \in Seq(Nat) /\ dp.offset \in Int
    BY DEF PointsOf
  <2>2. b \in Seq(Nat) /\ TotalOf(b) = TotalOf(dp.buckets) + TotalOf(next.buckets)
    BY <2>1, BucketsAdded
  <2>3. j \in PointsOf(a, t) /\ j.buckets = dp.buckets /\ j.offset = dp.offset
    BY JoinedSound
  <2>4. MergeHistogramPoint(dp, next) = [j EXCEPT !.buckets = AddBuckets(j.buckets, next.buckets)]
    BY <1>2 DEF MergeHistogramPoint
  <2> HIDE DEF j, b
  <2>5. MergeHistogramPoint(dp, next) = [j EXCEPT !.buckets = b]
    BY <2>3, <2>4 DEF b
  <2>6. [j EXCEPT !.buckets = b] = [j EXCEPT !.buckets = b, !.offset = dp.offset]
    BY <2>3 DEF PointsOf
  <2>7. MergeHistogramPoint(dp, next) = [Joined(dp, next) EXCEPT !.buckets = b, !.offset = dp.offset]
    BY <2>5, <2>6 DEF j
  <2> QED
    BY <2>1, <2>2, <2>7, WithBuckets
<1> QED
  BY <1>1, <1>2

\* Two points of an exponential histogram.
LEMMA ExponentialJoined ==
  ASSUME NEW a, NEW t, NEW dp \in PointsOf(a, t), NEW next \in PointsOf(a, t),
         next.count = 0 => next.value = 0
  PROVE  LET r == MergeExponentialPoint(dp, next)
         IN  /\ r \in PointsOf(a, t) /\ JoinedBy(dp, next, r)
             /\ Balanced(dp) /\ Balanced(next) => Balanced(r)
<1> DEFINE j == Joined(dp, next)
           b == MergeBuckets(dp.buckets, next.buckets, dp.offset, next.offset)
<1>1. dp.buckets \in Seq(Nat) /\ next.buckets \in Seq(Nat) /\ dp.offset \in Int /\ next.offset \in Int
  BY DEF PointsOf
<1>2. b \in Seq(Nat) /\ TotalOf(b) = TotalOf(dp.buckets) + TotalOf(next.buckets)
  BY <1>1, BucketsMerged
<1>3. j \in PointsOf(a, t) /\ j.offset = dp.offset
  BY JoinedSound
<1>4. CASE next.count = 0
  BY <1>4, PassedOver DEF MergeExponentialPoint
<1>5. CASE next.count # 0 /\ (dp.offset = next.offset \/ next.buckets = <<>>)
  <2>1. MergeExponentialPoint(dp, next) = [j EXCEPT !.buckets = b]
    BY <1>5 DEF MergeExponentialPoint
  <2> HIDE DEF j, b
  <2>2. [j EXCEPT !.buckets = b] = [j EXCEPT !.buckets = b, !.offset = dp.offset]
    BY <1>3 DEF PointsOf
  <2>3. MergeExponentialPoint(dp, next) = [Joined(dp, next) EXCEPT !.buckets = b, !.offset = dp.offset]
    BY <2>1, <2>2 DEF j
  <2> QED
    BY <1>1, <1>2, <2>3, WithBuckets
<1>6. CASE next.count # 0 /\ ~(dp.offset = next.offset \/ next.buckets = <<>>)
  <2> DEFINE o == Least(dp.offset, next.offset)
             c == TrimBuckets(b)
  <2>1. MergeExponentialPoint(dp, next) = [Joined(dp, next) EXCEPT !.buckets = c, !.offset = o]
    BY <1>6 DEF MergeExponentialPoint
  <2>2. o \in Int
    BY <1>1 DEF Least
  <2> HIDE DEF b, o
  <2>3. c \in Seq(Nat) /\ TotalOf(c) = TotalOf(dp.buckets) + TotalOf(next.buckets)
    BY <1>2, BucketsTrimmed
  <2> HIDE DEF c
  <2> QED
    BY <2>1, <2>2, <2>3, WithBuckets
<1> QED
  BY <1>4, <1>5, <1>6

\* What the first i points of a group are merged into; F are the sums of the
\* first values
SoFar(dps, F, a, t, i) ==
  {r \in PointsOf(a, t) :
     /\ (\A j \in 1 .. i : Balanced(dps[j])) => Balanced(r)
     /\ r.value = F[i]
     /\ \A j \in 1 .. i : dps[j].count = 0 \/ r.start <= dps[j].start
     /\ \E j \in 1 .. i : r.start = dps[j].start}

\* Histograms of one kind
Histograms(dps, n, a, t) ==
  /\ dps \in [1 .. n -> PointsOf(a, t)]
  /\ \A i \in 1 .. n : dps[i].count = 0 => dps[i].value = 0

\* One more point is joined.
LEMMA SoFarNext ==
  ASSUME NEW n \in Nat \ {0}, NEW a, NEW t, NEW dps, Histograms(dps, n, a, t),
         NEW F, Sums(F, [i \in 1 .. n |-> dps[i].value], n), NEW i \in 1 .. n - 1,
         NEW r \in SoFar(dps, F, a, t, i), NEW s \in PointsOf(a, t),
         Balanced(r) /\ Balanced(dps[i + 1]) => Balanced(s), JoinedBy(r, dps[i + 1], s)
  PROVE  s \in SoFar(dps, F, a, t, i + 1)
<1>1. i + 1 \in 1 .. n /\ (i + 1) - 1 = i /\ dps[i + 1] \in PointsOf(a, t)
  BY DEF Histograms
<1>2. F[i + 1] = F[i] + dps[i + 1].value
  BY <1>1 DEF Sums
<1>3. /\ r \in PointsOf(a, t) /\ r.value = F[i]
      /\ \A j \in 1 .. i : dps[j].count = 0 \/ r.start <= dps[j].start
      /\ \E j \in 1 .. i : r.start = dps[j].start
  BY DEF SoFar
<1>4. s.value = F[i + 1]
  BY <1>2, <1>3 DEF JoinedBy
<1>5. s.start \in Int /\ r.start \in Int /\ s.start <= r.start /\ s.start \in {r.start, dps[i + 1].start}
  BY <1>3 DEF JoinedBy, PointsOf
<1>6. ASSUME NEW j \in 1 .. i + 1 PROVE dps[j].count = 0 \/ s.start <= dps[j].start
  <2>1. CASE j = i + 1
    BY <2>1 DEF JoinedBy
  <2>2. CASE j # i + 1
    <3>1. j \in 1 .. i /\ j \in 1 .. n
      BY <2>2
    <3>2. dps[j].start \in Int
      BY <3>1 DEF Histograms, PointsOf
    <3> QED
      BY <1>3, <1>5, <3>1, <3>2
  <2> QED
    BY <2>1, <2>2
<1>7. \E j \in 1 .. i + 1 : s.start = dps[j].start
  <2>1. PICK j \in 1 .. i : r.start = dps[j].start
    BY <1>3
  <2>2. j \in 1 .. i + 1 /\ i + 1 \in 1 .. i + 1
    OBVIOUS
  <2> QED
    BY <1>5, <2>1, <2>2
<1>8. ASSUME \A j \in 1 .. i + 1 : Balanced(dps[j]) PROVE Balanced(s)
  <2>1. i + 1 \in 1 .. i + 1 /\ \A j \in 1 .. i : j \in 1 .. i + 1
    OBVIOUS
  <2>2. Balanced(r) /\ Balanced(dps[i + 1])
    BY <1>8, <2>1 DEF SoFar
  <2> QED
    BY <2>2
<1> QED
  BY <1>4, <1>6, <1>7, <1>8 DEF SoFar

\* What a group of histograms becomes
HistogramOf(dps, n, a, t, r) ==
  /\ r \in PointsOf(a, t)
  /\ (\A j \in 1 .. n : Balanced(dps[j])) => Balanced(r)
  /\ r.value = FoldLeft(Plus, 0, [i \in 1 .. n |-> dps[i].value])
  /\ \A j \in 1 .. n : dps[j].count = 0 \/ r.start <= dps[j].start
  /\ \E j \in 1 .. n : r.start = dps[j].start

\* The first point alone.
LEMMA SoFarFirst ==
  ASSUME NEW n \in Nat \ {0}, NEW a, NEW t, NEW dps, Histograms(dps, n, a, t),
         NEW F, Sums(F, [i \in 1 .. n |-> dps[i].value], n)
  PROVE  dps[1] \in SoFar(dps, F, a, t, 1)
<1>1. 1 \in 1 .. n /\ dps[1] \in PointsOf(a, t)
  BY DEF Histograms
<1>2. dps[1].start \in Int /\ dps[1].value \in Int
  BY <1>1 DEF PointsOf
<1>3. F[1] = F[1 - 1] + dps[1].value /\ F[0] = 0
  BY <1>1 DEF Sums
<1>4. F[1] = dps[1].value
  BY <1>2, <1>3
<1>5. \A j \in 1 .. 1 : j = 1
  OBVIOUS
<1>6. 1 \in 1 .. 1
  OBVIOUS
<1> QED
  BY <1>1, <1>2, <1>4, <1>5, <1>6 DEF SoFar

\* A group of histograms.
LEMMA HistogramGroup ==
  ASSUME NEW n \in Nat \ {0}, NEW a, NEW t, NEW dps, Histograms(dps, n, a, t)
  PROVE  HistogramOf(dps, n, a, t, FoldLeft(MergeHistogramPoint, dps[1], Tail(dps)))
<1> DEFINE values == [i \in 1 .. n |-> dps[i].value]
           m == n - 1
<1>1. dps \in [1 .. n -> PointsOf(a, t)] /\ m \in Nat /\ n = m + 1
  BY DEF Histograms
<1>2. values \in [1 .. n -> Int]
  BY <1>1 DEF PointsOf
<1>3. PICK F \in [0 .. n -> Int] : Sums(F, values, n) /\ FoldLeft(Plus, 0, values) = F[n]
  <2> HIDE DEF values
  <2> QED
    BY <1>2, SumPasses
<1> DEFINE A == [i \in 0 .. m |-> SoFar(dps, F, a, t, i + 1)]
<1>4. dps[1] \in A[0]
  BY <1>1, <1>3, SoFarFirst
<1>5. DOMAIN Tail(dps) = 1 .. m /\ \A i \in 1 .. m : Tail(dps)[i] = dps[i + 1]
  BY <1>1
<1>6. ASSUME NEW i \in 1 .. m, NEW r \in A[i - 1] PROVE MergeHistogramPoint(r, Tail(dps)[i]) \in A[i]
  <2> DEFINE s == MergeHistogramPoint(r, dps[i + 1])
  <2>1. i \in 1 .. n - 1 /\ r \in SoFar(dps, F, a, t, i) /\ i + 1 \in 1 .. n /\ A[i] = SoFar(dps, F, a, t, i + 1)
    BY <1>1
  <2>2. /\ r \in PointsOf(a, t) /\ dps[i + 1] \in PointsOf(a, t)
        /\ dps[i + 1].count = 0 => dps[i + 1].value = 0
    BY <2>1 DEF SoFar, Histograms
  <2>3. /\ s \in PointsOf(a, t) /\ JoinedBy(r, dps[i + 1], s)
        /\ Balanced(r) /\ Balanced(dps[i + 1]) => Balanced(s)
    BY <2>2, HistogramJoined
  <2>4. s \in SoFar(dps, F, a, t, i + 1)
    <3> HIDE DEF s
    <3> QED
      BY <1>3, <2>1, <2>3, SoFarNext
  <2> QED
    BY <1>5, <2>1, <2>4
<1>7. Joining!Picks(1 .. m) /\ Joining!Last(m)
  BY <1>1, LastIndex DEF Joining!Picks, Joining!Last
<1>8. A[m] = SoFar(dps, F, a, t, n)
  BY <1>1
<1> HIDE DEF A, m
<1>9. Joining!Fold(dps[1], Tail(dps)) \in A[m]
  BY <1>1, <1>4, <1>5, <1>6, <1>7, Joining!FoldStays
<1> QED
  BY <1>3, <1>8, <1>9, JoiningFold DEF SoFar, HistogramOf

\* A group of exponential histograms.
LEMMA ExponentialGroup ==
  ASSUME NEW n \in Nat \ {0}, NEW a, NEW t, NEW dps, Histograms(dps, n, a, t)
  PROVE  HistogramOf(dps, n, a, t, FoldLeft(MergeExponentialPoint, dps[1], Tail(dps)))
<1> DEFINE values == [i \in 1 .. n |-> dps[i].value]
           m == n - 1
<1>1. dps \in [1 .. n -> PointsOf(a, t)] /\ m \in Nat /\ n = m + 1
  BY DEF Histograms
<1>2. values \in [1 .. n -> Int]
  BY <1>1 DEF PointsOf
<1>3. PICK F \in [0 .. n -> Int] : Sums(F, values, n) /\ FoldLeft(Plus, 0, values) = F[n]
  <2> HIDE DEF values
  <2> QED
    BY <1>2, SumPasses
<1> DEFINE A == [i \in 0 .. m |-> SoFar(dps, F, a, t, i + 1)]
<1>4. dps[1] \in A[0]
  BY <1>1, <1>3, SoFarFirst
<1>5. DOMAIN Tail(dps) = 1 .. m /\ \A i \in 1 .. m : Tail(dps)[i] = dps[i + 1]
  BY <1>1
<1>6. ASSUME NEW i \in 1 .. m, NEW r \in A[i - 1] PROVE MergeExponentialPoint(r, Tail(dps)[i]) \in A[i]
  <2> DEFINE s == MergeExponentialPoint(r, dps[i + 1])
  <2>1. i \in 1 .. n - 1 /\ r \in SoFar(dps, F, a, t, i) /\ i + 1 \in 1 .. n /\ A[i] = SoFar(dps, F, a, t, i + 1)
    BY <1>1
  <2>2. /\ r \in PointsOf(a, t) /\ dps[i + 1] \in PointsOf(a, t)
        /\ dps[i + 1].count = 0 => dps[i + 1].value = 0
    BY <2>1 DEF SoFar, Histograms
  <2>3. /\ s \in PointsOf(a, t) /\ JoinedBy(r, dps[i + 1], s)
        /\ Balanced(r) /\ Balanced(dps[i + 1]) => Balanced(s)
    BY <2>2, ExponentialJoined
  <2>4. s \in SoFar(dps, F, a, t, i + 1)
    <3> HIDE DEF s
    <3> QED
      BY <1>3, <2>1, <2>3, SoFarNext
  <2> QED
    BY <1>5, <2>1, <2>4
<1>7. Shifting!Picks(1 .. m) /\ Shifting!Last(m)
  BY <1>1, LastIndex DEF Shifting!Picks, Shifting!Last
<1>8. A[m] = SoFar(dps, F, a, t, n)
  BY <1>1
<1> HIDE DEF A, m
<1>9. Shifting!Fold(dps[1], Tail(dps)) \in A[m]
  BY <1>1, <1>4, <1>5, <1>6, <1>7, Shifting!FoldStays
<1> QED
  BY <1>3, <1>8, <1>9, ShiftingFold DEF SoFar, HistogramOf

-----------------------------------------------------------------------------
(* Totals over the groups.                                                  *)

\* N holds the total over each part of D, the last element being any
Totals(D, f, N) ==
  /\ N[{}] = 0
  /\ \A U \in SUBSET D : N[U] \in Int
  /\ \A U \in SUBSET D : \A x \in U : N[U] = N[U \ {x}] + f[x]

\* Any element can be taken from a total last.
LEMMA TotalTakesAny ==
  ASSUME NEW D, IsFiniteSet(D), NEW f \in [D -> Int]
  PROVE  \E N : Totals(D, f, N) /\ SumFunction(f) = N[D]
<1>1. Totalling!Commutes(Int)
  BY DEF Totalling!Commutes, Swapped
<1>2. Totalling!Picks(D)
  BY DEF Totalling!Picks, Chosen
<1>3. \E N : Totalling!AnyLast(0, D, f, Int, N) /\ Totalling!Fold(0, f) = N[D]
  <2> DEFINE T == Int
  <2>1. Totalling!Commutes(T) /\ 0 \in T /\ f \in [D -> T] /\ Totalling!IsFiniteSet(D)
    BY <1>1 DEF IsFiniteSet, Totalling!IsFiniteSet
  <2> HIDE DEF T
  <2>2. \E N : Totalling!AnyLast(0, D, f, T, N) /\ Totalling!Fold(0, f) = N[D]
    <3>1. Totalling!TakesAny(T, 0, D, f)
      BY <1>2, <2>1, Totalling!FoldTakesAny
    <3> QED
      BY <3>1 DEF Totalling!TakesAny
  <2> QED
    BY <2>2 DEF T
<1>4. PICK N : Totalling!AnyLast(0, D, f, Int, N) /\ Totalling!Fold(0, f) = N[D]
  BY <1>3
<1>5. /\ N[{}] = 0 /\ \A U \in SUBSET D : N[U] \in Int
      /\ \A U \in SUBSET D : \A x \in U : N[U] = Swapped(N[U \ {x}], f[x])
  BY <1>4 DEF Totalling!AnyLast
<1>6. ASSUME NEW U \in SUBSET D, NEW x \in U PROVE N[U] = N[U \ {x}] + f[x]
  <2>1. U \ {x} \in SUBSET D /\ x \in D
    OBVIOUS
  <2>2. N[U \ {x}] \in Int /\ f[x] \in Int
    BY <1>5, <2>1
  <2>3. N[U] = f[x] + N[U \ {x}]
    BY <1>5 DEF Swapped
  <2> QED
    BY <2>2, <2>3
<1>7. SumFunction(f) = N[D]
  BY <1>4, TotalFold
<1>8. Totals(D, f, N)
  BY <1>5, <1>6 DEF Totals
<1> QED
  BY <1>7, <1>8

Agree(S, f, g) == \A x \in S : g[x] = f[x]

\* Where the numbers are the same, so are the totals.
LEMMA TotalsAgree ==
  ASSUME NEW D, NEW E, NEW S, IsFiniteSet(S), S \subseteq D, S \subseteq E,
         NEW f, NEW g, Agree(S, f, g), NEW N, NEW M, Totals(D, f, N), Totals(E, g, M)
  PROVE  M[S] = N[S]
<1> DEFINE Wrong == {U \in SUBSET S : M[U] # N[U]}
<1> SUFFICES ASSUME Wrong # {} PROVE FALSE
  OBVIOUS
<1>1. PICK U \in Wrong : \A V \in Wrong : V \subseteq U => V = U
  <2>1. Wrong \in SUBSET SUBSET S /\ Adding!IsFiniteSet(S)
    BY DEF IsFiniteSet, Adding!IsFiniteSet
  <2> HIDE DEF Wrong
  <2> QED
    BY <2>1, Adding!LeastSubset
<1>2. U # {} /\ U \in SUBSET S
  BY DEF Totals
<1>3. PICK x \in U : TRUE
  BY <1>2
<1>4. x \in S /\ U \in SUBSET D /\ U \in SUBSET E
  BY <1>2
<1>5. M[U \ {x}] = N[U \ {x}]
  BY <1>1, <1>2
<1>6. g[x] = f[x]
  BY <1>4 DEF Agree
<1>7. M[U] = M[U \ {x}] + g[x] /\ N[U] = N[U \ {x}] + f[x]
  BY <1>4 DEF Totals
<1> QED
  BY <1>5, <1>6, <1>7

\* g is f with v added at k
Grows(D, f, k, v, g) ==
  /\ g \in [D \cup {k} -> Int]
  /\ g[k] = (IF k \in D THEN f[k] ELSE 0) + v
  /\ \A x \in D \ {k} : g[x] = f[x]

\* What is added at one key is added to the total.
LEMMA TotalGrows ==
  ASSUME NEW D, IsFiniteSet(D), NEW f \in [D -> Int], NEW k, NEW v \in Int, NEW g, Grows(D, f, k, v, g)
  PROVE  SumFunction(f) \in Int /\ SumFunction(g) = SumFunction(f) + v
<1> DEFINE E == D \cup {k}
           rest == D \ {k}
<1>1. IsFiniteSet(E) /\ IsFiniteSet(rest) /\ g \in [E -> Int]
  BY FS_AddElement, FS_RemoveElement DEF Grows
<1>2. PICK N : Totals(D, f, N) /\ SumFunction(f) = N[D]
  BY TotalTakesAny
<1>3. PICK M : Totals(E, g, M) /\ SumFunction(g) = M[E]
  <2> HIDE DEF E
  <2> QED
    BY <1>1, TotalTakesAny
<1>4. rest \subseteq D /\ rest \subseteq E /\ Agree(rest, f, g)
  BY DEF Agree, Grows
<1>5. E \ {k} = rest /\ k \in E
  OBVIOUS
<1>6. k \in D \/ rest = D
  OBVIOUS
<1> HIDE DEF E, rest
<1>7. M[rest] = N[rest]
  BY <1>1, <1>2, <1>3, <1>4, TotalsAgree
<1>8. N[rest] \in Int /\ N[D] \in Int
  BY <1>2, <1>4 DEF Totals
<1>9. M[E] = M[rest] + g[k]
  BY <1>3, <1>5 DEF Totals
<1>10. CASE k \in D
  <2>1. D \ {k} = rest
    BY DEF rest
  <2>2. N[D] = N[rest] + f[k]
    BY <1>2, <1>10, <2>1 DEF Totals
  <2>3. g[k] = f[k] + v /\ f[k] \in Int
    BY <1>10 DEF Grows
  <2> QED
    BY <1>2, <1>3, <1>7, <1>8, <1>9, <2>2, <2>3
<1>11. CASE k \notin D
  <2>1. rest = D
    BY <1>6, <1>11
  <2>2. g[k] = 0 + v
    BY <1>11 DEF Grows
  <2>3. g[k] = v
    BY <2>2
  <2> QED
    BY <1>2, <1>3, <1>7, <1>8, <1>9, <2>1, <2>3
<1> QED
  BY <1>10, <1>11

\* Nothing adds up to nothing.
LEMMA TotalOfNothing ==
  ASSUME NEW f, DOMAIN f = {}
  PROVE  SumFunction(f) = 0
<1>1. f \in [{} -> Int] /\ IsFiniteSet({})
  BY FS_EmptySet
<1>2. PICK N : Totals({}, f, N) /\ SumFunction(f) = N[{}]
  BY <1>1, TotalTakesAny
<1> QED
  BY <1>2 DEF Totals

-----------------------------------------------------------------------------
(* Groups: each point is in the group of its key, once, and nowhere else.   *)

Indices(dps, i, k) == {j \in 1 .. i : GroupKey(dps[j]) = k}

\* h tells which of the points each of s is; it is a bijection to I
Places(dps, I, s, l, h) ==
  /\ h \in [1 .. l -> I]
  /\ \A x, y \in 1 .. l : h[x] = h[y] => x = y
  /\ \A j \in I : \E x \in 1 .. l : h[x] = j
  /\ \A x \in 1 .. l : s[x] = dps[h[x]]

IsGroup(dps, I, s) ==
  /\ s \in Seq({dps[j] : j \in DOMAIN dps})
  /\ \E h : Places(dps, I, s, Len(s), h)

\* The first i points are grouped
Grouped(dps, i, g) ==
  /\ DOMAIN g = {GroupKey(dps[j]) : j \in 1 .. i}
  /\ \A k \in DOMAIN g : IsGroup(dps, Indices(dps, i, k), g[k])

\* No points make a group of none.
LEMMA EmptyGroup ==
  ASSUME NEW dps
  PROVE  IsGroup(dps, {}, <<>>)
<1> DEFINE h == [x \in {} |-> x]
<1>1. Len(<<>>) = 0 /\ 1 .. 0 = {}
  OBVIOUS
<1>2. h \in [1 .. Len(<<>>) -> {}]
  BY <1>1
<1>3. Places(dps, {}, <<>>, Len(<<>>), h)
  BY <1>1, <1>2 DEF Places
<1>4. <<>> \in Seq({dps[j] : j \in DOMAIN dps})
  OBVIOUS
<1> QED
  BY <1>3, <1>4 DEF IsGroup

\* A group with one more point.
LEMMA GroupExtended ==
  ASSUME NEW dps, NEW i \in DOMAIN dps, NEW I, i \notin I, NEW s, IsGroup(dps, I, s)
  PROVE  IsGroup(dps, I \cup {i}, Append(s, dps[i]))
<1> DEFINE All == {dps[j] : j \in DOMAIN dps}
           new == Append(s, dps[i])
           l == Len(s)
<1>1. s \in Seq(All) /\ dps[i] \in All
  BY DEF IsGroup
<1>2. PICK h : Places(dps, I, s, l, h)
  BY DEF IsGroup
<1>3. /\ l \in Nat /\ new \in Seq(All) /\ Len(new) = l + 1
      /\ \A x \in 1 .. l + 1 : new[x] = IF x = l + 1 THEN dps[i] ELSE s[x]
  <2> HIDE DEF All
  <2> QED
    BY <1>1, AppendProperties
<1>4. /\ h \in [1 .. l -> I]
      /\ \A x, y \in 1 .. l : h[x] = h[y] => x = y
      /\ \A j \in I : \E x \in 1 .. l : h[x] = j
      /\ \A x \in 1 .. l : s[x] = dps[h[x]]
  BY <1>2 DEF Places
<1> HIDE DEF l, new
<1> DEFINE f == [x \in 1 .. l + 1 |-> IF x = l + 1 THEN i ELSE h[x]]
<1>5. \A x \in 1 .. l + 1 : x = l + 1 \/ x \in 1 .. l
  BY <1>3
<1>6. l + 1 \in 1 .. l + 1 /\ l + 1 \notin 1 .. l /\ \A x \in 1 .. l : x \in 1 .. l + 1
  BY <1>3
<1>7. f \in [1 .. l + 1 -> I \cup {i}]
  BY <1>4, <1>5
<1>8. /\ f[l + 1] = i /\ \A x \in 1 .. l : f[x] = h[x] /\ h[x] \in I
  BY <1>4, <1>6
<1> HIDE DEF f
<1>9. ASSUME NEW x \in 1 .. l + 1, NEW y \in 1 .. l + 1, f[x] = f[y] PROVE x = y
  BY <1>4, <1>5, <1>8, <1>9
<1>10. ASSUME NEW j \in I \cup {i} PROVE \E x \in 1 .. l + 1 : f[x] = j
  BY <1>4, <1>6, <1>8
<1>11. ASSUME NEW x \in 1 .. l + 1 PROVE new[x] = dps[f[x]]
  BY <1>3, <1>4, <1>5, <1>6, <1>8
<1>12. Places(dps, I \cup {i}, new, l + 1, f)
  BY <1>7, <1>9, <1>10, <1>11 DEF Places
<1>13. \E e : Places(dps, I \cup {i}, new, Len(new), e)
  BY <1>3, <1>12
<1> QED
  BY <1>3, <1>13 DEF IsGroup, new

\* One more point joins its group.
LEMMA GroupedNext ==
  ASSUME NEW n \in Nat, NEW dps, DOMAIN dps = 1 .. n, NEW i \in 1 .. n, NEW g, Grouped(dps, i - 1, g)
  PROVE  /\ Grouped(dps, i, AddToGroup(g, dps[i]))
         /\ IsGroup(dps, Indices(dps, i - 1, GroupKey(dps[i])), GroupOf(g, GroupKey(dps[i])))
<1> DEFINE key == GroupKey(dps[i])
           new == AddToGroup(g, dps[i])
<1>1. DOMAIN g = {GroupKey(dps[j]) : j \in 1 .. i - 1}
  BY DEF Grouped
<1>2. new = [k \in DOMAIN g \cup {key} |-> IF k = key THEN Append(GroupOf(g, k), dps[i]) ELSE g[k]]
  BY DEF AddToGroup
<1>3. /\ \A j \in 1 .. i : j \in 1 .. i - 1 \/ j = i
      /\ (\A j \in 1 .. i - 1 : j \in 1 .. i) /\ i \in 1 .. i /\ i \notin 1 .. i - 1
  OBVIOUS
<1>4. DOMAIN new = DOMAIN g \cup {key}
  BY <1>2
<1>5. new[key] = Append(GroupOf(g, key), dps[i])
  BY <1>2
<1>6. \A k \in DOMAIN g : k # key => new[k] = g[k]
  BY <1>2
<1> HIDE DEF new
<1>7. DOMAIN new = {GroupKey(dps[j]) : j \in 1 .. i}
  BY <1>1, <1>3, <1>4
<1>8. Indices(dps, i, key) = Indices(dps, i - 1, key) \cup {i} /\ i \notin Indices(dps, i - 1, key)
  BY <1>3 DEF Indices
<1>9. IsGroup(dps, Indices(dps, i - 1, key), GroupOf(g, key))
  <2>1. CASE key \in DOMAIN g
    BY <2>1 DEF Grouped, GroupOf
  <2>2. CASE key \notin DOMAIN g
    <3>1. GroupOf(g, key) = <<>> /\ Indices(dps, i - 1, key) = {}
      BY <1>1, <2>2 DEF GroupOf, Indices
    <3> QED
      BY <3>1, EmptyGroup
  <2> QED
    BY <2>1, <2>2
<1>10. ASSUME NEW k \in DOMAIN new PROVE IsGroup(dps, Indices(dps, i, k), new[k])
  <2>1. CASE k = key
    <3> HIDE DEF key
    <3> QED
      BY <1>5, <1>8, <1>9, <2>1, GroupExtended
  <2>2. CASE k # key
    <3>1. k \in DOMAIN g /\ new[k] = g[k]
      BY <1>4, <1>6, <2>2
    <3>2. Indices(dps, i, k) = Indices(dps, i - 1, k)
      BY <1>3, <2>2 DEF Indices
    <3> QED
      BY <3>1, <3>2 DEF Grouped
  <2> QED
    BY <2>1, <2>2
<1> QED
  BY <1>7, <1>9, <1>10 DEF Grouped, new

\* The sum over the values of some points
SumOf(s) == FoldLeft(Plus, 0, [x \in DOMAIN s |-> s[x].value])

\* One more point adds its value.
LEMMA SumOfGrows ==
  ASSUME NEW All, \A p \in All : p.value \in Int, NEW s \in Seq(All), NEW p \in All
  PROVE  SumOf(s) \in Int /\ SumOf(Append(s, p)) = SumOf(s) + p.value
<1> DEFINE values == [x \in DOMAIN s |-> s[x].value]
           more == [x \in DOMAIN Append(s, p) |-> Append(s, p)[x].value]
<1>1. /\ Len(s) \in Nat /\ DOMAIN s = 1 .. Len(s) /\ \A x \in 1 .. Len(s) : s[x] \in All
      /\ DOMAIN Append(s, p) = 1 .. Len(s) + 1
      /\ \A x \in 1 .. Len(s) + 1 : Append(s, p)[x] = IF x = Len(s) + 1 THEN p ELSE s[x]
  <2>1. Append(s, p) \in Seq(All) /\ Len(Append(s, p)) = Len(s) + 1
    BY AppendProperties
  <2> QED
    BY <2>1, AppendProperties
<1>2. values \in Seq(Int) /\ DOMAIN values = 1 .. Len(s) /\ Len(values) = Len(s)
  <2>1. values \in [1 .. Len(s) -> Int]
    BY <1>1
  <2> HIDE DEF values
  <2> QED
    BY <1>1, <2>1
<1>3. p.value \in Int
  OBVIOUS
<1>4. more = Append(values, p.value)
  <2>1. DOMAIN more = 1 .. Len(s) + 1
    BY <1>1
  <2>2. \A x \in 1 .. Len(s) + 1 : more[x] = IF x = Len(s) + 1 THEN p.value ELSE values[x]
    <3>1. \A x \in 1 .. Len(s) + 1 : x = Len(s) + 1 \/ x \in 1 .. Len(s)
      BY <1>1
    <3> QED
      BY <1>1, <3>1
  <2>3. more = [x \in 1 .. Len(s) + 1 |-> more[x]]
    BY <1>1
  <2> HIDE DEF more, values
  <2> QED
    BY <1>1, <1>2, <1>3, <2>1, <2>2, <2>3
<1> HIDE DEF values, more
<1>5. FoldLeft(Plus, 0, values) \in Int /\ FoldLeft(Plus, 0, more) = FoldLeft(Plus, 0, values) + p.value
  BY <1>2, <1>3, <1>4, SumAppended
<1> QED
  BY <1>5 DEF SumOf, values, more

\* No points add up to nothing.
LEMMA SumOfNone == SumOf(<<>>) = 0
<1> DEFINE values == [x \in DOMAIN <<>> |-> <<>>[x].value]
           G == [i \in 0 .. 0 |-> 0]
<1>1. DOMAIN values = 1 .. 0 /\ G[0] = 0
  OBVIOUS
<1>2. Sums(G, values, 0)
  BY DEF Sums
<1> HIDE DEF G, values
<1>3. FoldLeft(Plus, 0, values) = G[0]
  BY <1>1, <1>2, SumCalculated
<1> QED
  BY <1>1, <1>3 DEF SumOf, values

\* The totals of the groups and of the first i points
GroupTotal(g) == SumFunction([k \in DOMAIN g |-> SumOf(g[k])])
PointTotal(dps, i) == SumFunction([j \in 1 .. i |-> dps[j].value])

\* One more point adds its value to the total of the points, and of the groups.
LEMMA TotalsNext ==
  ASSUME NEW n \in Nat, NEW dps, DOMAIN dps = 1 .. n, \A j \in 1 .. n : dps[j].value \in Int,
         NEW i \in 1 .. n, NEW g, Grouped(dps, i - 1, g), GroupTotal(g) = PointTotal(dps, i - 1)
  PROVE  GroupTotal(AddToGroup(g, dps[i])) = PointTotal(dps, i)
<1> DEFINE key == GroupKey(dps[i])
           new == AddToGroup(g, dps[i])
           All == {dps[j] : j \in DOMAIN dps}
           D == DOMAIN g
           v == dps[i].value
<1>1. /\ \A k \in D : g[k] \in Seq(All)
      /\ GroupOf(g, key) \in Seq(All)
  BY GroupedNext DEF Grouped, IsGroup
<1>2. (\A p \in All : p.value \in Int) /\ dps[i] \in All /\ v \in Int
  OBVIOUS
<1>3. IsFiniteSet(D)
  <2>1. IsFiniteSet(1 .. i - 1)
    BY FS_Interval
  <2> DEFINE keys == [j \in 1 .. i - 1 |-> GroupKey(dps[j])]
  <2>2. keys \in Surjection(1 .. i - 1, D)
    BY DEF Grouped, Surjection
  <2> HIDE DEF keys
  <2> QED
    BY <2>1, <2>2, FS_Surjection
<1>4. new = [k \in D \cup {key} |-> IF k = key THEN Append(GroupOf(g, k), dps[i]) ELSE g[k]]
  BY DEF AddToGroup
<1>5. DOMAIN new = D \cup {key} /\ new[key] = Append(GroupOf(g, key), dps[i])
  BY <1>4
<1>6. \A k \in D \ {key} : new[k] = g[k]
  BY <1>4
<1> HIDE DEF new, All
<1>7. SumOf(GroupOf(g, key)) \in Int /\ SumOf(new[key]) = SumOf(GroupOf(g, key)) + v
  BY <1>1, <1>2, <1>5, SumOfGrows
<1>8. ASSUME NEW k \in D PROVE SumOf(g[k]) \in Int
  BY <1>1, <1>2, SumOfGrows
<1> DEFINE before == [k \in D |-> SumOf(g[k])]
           after == [k \in D \cup {key} |-> SumOf(new[k])]
<1>9. before \in [D -> Int]
  BY <1>8
<1>10. after \in [D \cup {key} -> Int]
  <2>1. \A k \in D \cup {key} : SumOf(new[k]) \in Int
    BY <1>2, <1>6, <1>7, <1>8
  <2> QED
    BY <2>1
<1>11. after[key] = (IF key \in D THEN before[key] ELSE 0) + v
  BY <1>7, SumOfNone DEF GroupOf
<1>12. \A k \in D \ {key} : after[k] = before[k]
  BY <1>6
<1>13. GroupTotal(g) = SumFunction(before) /\ GroupTotal(new) = SumFunction(after)
  BY <1>5 DEF GroupTotal
<1> HIDE DEF before, after, key, D, v
<1>14. SumFunction(after) = SumFunction(before) + v
  <2>1. Grows(D, before, key, v, after)
    BY <1>10, <1>11, <1>12 DEF Grows
  <2> QED
    BY <1>2, <1>3, <1>9, <2>1, TotalGrows
<1> DEFINE first == [j \in 1 .. i - 1 |-> dps[j].value]
           upto == [j \in 1 .. i |-> dps[j].value]
<1>15. /\ first \in [1 .. i - 1 -> Int] /\ upto \in [(1 .. i - 1) \cup {i} -> Int]
       /\ upto[i] = (IF i \in 1 .. i - 1 THEN first[i] ELSE 0) + v
       /\ \A j \in (1 .. i - 1) \ {i} : upto[j] = first[j]
  <2>1. /\ (1 .. i - 1) \cup {i} = 1 .. i /\ i \notin 1 .. i - 1
        /\ \A j \in 1 .. i : j \in 1 .. n
        /\ \A j \in 1 .. i - 1 : j \in 1 .. i
    OBVIOUS
  <2>2. upto[i] = v
    BY <2>1 DEF v
  <2>3. 0 + v = v
    BY <1>2
  <2> QED
    BY <2>1, <2>2, <2>3
<1>16. IsFiniteSet(1 .. i - 1)
  BY FS_Interval
<1>17. PointTotal(dps, i - 1) = SumFunction(first) /\ PointTotal(dps, i) = SumFunction(upto)
  BY DEF PointTotal
<1> HIDE DEF first, upto
<1>18. SumFunction(upto) = SumFunction(first) + v
  <2> DEFINE E == 1 .. i - 1
  <2> HIDE DEF E
  <2>1. IsFiniteSet(E) /\ first \in [E -> Int] /\ Grows(E, first, i, v, upto)
    BY <1>15, <1>16 DEF E, Grows
  <2> QED
    BY <1>2, <2>1, TotalGrows
<1> QED
  BY <1>13, <1>14, <1>17, <1>18 DEF new

\* All points are grouped, and the groups add up to what the points do.
LEMMA AllGrouped ==
  ASSUME NEW n \in Nat, NEW dps, DOMAIN dps = 1 .. n, \A j \in 1 .. n : dps[j].value \in Int
  PROVE  LET g == FoldLeft(AddToGroup, <<>>, dps)
         IN  Grouped(dps, n, g) /\ GroupTotal(g) = PointTotal(dps, n)
<1>1. Grouping!Picks(1 .. n) /\ Grouping!Last(n)
  BY LastIndex DEF Grouping!Picks, Grouping!Last
<1>2. PICK F : Grouping!Passes(<<>>, dps, n, F) /\ Grouping!Fold(<<>>, dps) = F[n]
  BY <1>1, Grouping!FoldPasses
<1>3. F[0] = <<>> /\ \A i \in 1 .. n : F[i] = AddToGroup(F[i - 1], dps[i])
  BY <1>2 DEF Grouping!Passes
<1> DEFINE Done == {i \in 0 .. n : Grouped(dps, i, F[i]) /\ GroupTotal(F[i]) = PointTotal(dps, i)}
<1>4. 0 \in Done
  <2>1. Grouped(dps, 0, <<>>)
    <3>1. 1 .. 0 = {} /\ DOMAIN <<>> = {}
      OBVIOUS
    <3> QED
      BY <3>1 DEF Grouped
  <2>2. GroupTotal(<<>>) = 0
    <3> DEFINE f == [k \in DOMAIN <<>> |-> SumOf(<<>>[k])]
    <3>1. DOMAIN f = {}
      OBVIOUS
    <3> HIDE DEF f
    <3>2. SumFunction(f) = 0
      BY <3>1, TotalOfNothing
    <3> QED
      BY <3>2 DEF GroupTotal, f
  <2>3. PointTotal(dps, 0) = 0
    <3> DEFINE f == [j \in 1 .. 0 |-> dps[j].value]
    <3>1. DOMAIN f = {}
      OBVIOUS
    <3> HIDE DEF f
    <3>2. SumFunction(f) = 0
      BY <3>1, TotalOfNothing
    <3> QED
      BY <3>2 DEF PointTotal, f
  <2> QED
    BY <1>3, <2>1, <2>2, <2>3
<1>5. ASSUME NEW i \in 1 .. n, i - 1 \in Done PROVE i \in Done
  BY <1>3, <1>5, GroupedNext, TotalsNext
<1>6. 0 .. n \subseteq Done
  <2> HIDE DEF Done
  <2> QED
    BY <1>4, <1>5, Adding!Counting
<1>7. n \in Done
  BY <1>6
<1> QED
  BY <1>2, <1>7, GroupingFold

-----------------------------------------------------------------------------
(* Numbers: what the value of a merged point says of the values merged.     *)

\* At least half of the numbers are not above v, and half not below it
Halved(s, n, v) ==
  \E p \in [1 .. n -> 1 .. n], low \in 1 .. n, high \in 1 .. n :
    /\ IsInjective(p)
    /\ 2 * low >= n /\ 2 * ((n - high) + 1) >= n
    /\ \A i \in 1 .. low : s[p[i]] <= v
    /\ \A i \in high .. n : v <= s[p[i]]

\* v is what the function promises of the numbers
Promised(function, s, n, v) ==
  /\ v \in Int
  /\ function = "sum" => v = FoldLeft(Plus, 0, s)
  /\ function = "max" => (\E i \in 1 .. n : s[i] = v) /\ \A i \in 1 .. n : s[i] <= v
  /\ function = "min" => (\E i \in 1 .. n : s[i] = v) /\ \A i \in 1 .. n : v <= s[i]
  /\ function = "mean" => (\E i \in 1 .. n : s[i] <= v) /\ \E i \in 1 .. n : s[i] >= v
  /\ function = "median" => Halved(s, n, v)

FunctionNames == {"sum", "mean", "max", "min", "count", "median"}

\* Every function does what it promises.
LEMMA ValuePromised ==
  ASSUME NEW n \in Nat \ {0}, NEW s \in [1 .. n -> Int], NEW one \in Int,
         NEW function \in FunctionNames
  PROVE  Promised(function, s, n, Value(function, s, one))
<1>1. Len(s) = n /\ s[1] \in Int
  OBVIOUS
<1>2. CASE function = "sum"
  BY <1>2, SumPasses DEF Promised, Value
<1>3. CASE function = "mean"
  BY <1>1, <1>3, MeanBetween DEF Promised, Value
<1>4. CASE function = "max"
  BY <1>4, MaximumOf DEF Promised, Value
<1>5. CASE function = "min"
  BY <1>5, MinimumOf DEF Promised, Value
<1>6. CASE function = "count"
  BY <1>1, <1>6 DEF Promised, Value
<1>7. CASE function = "median"
  <2>1. Value("median", s, one) \in Int /\ Halved(s, n, Value("median", s, one))
    BY MedianBetween DEF Halved
  <2> QED
    BY <1>7, <2>1 DEF Promised
<1> QED
  BY <1>2, <1>3, <1>4, <1>5, <1>6, <1>7 DEF FunctionNames

\* What a group of numbers becomes
NumberOf(dps, n, a, t, r) ==
  /\ r \in PointsOf(a, t)
  /\ \A j \in 1 .. n : r.start <= dps[j].start
  /\ \E j \in 1 .. n : r.start = dps[j].start
  /\ r.value \in Int
  /\ (\A i, j \in 1 .. n : dps[i].type = dps[j].type) =>
       Promised(asked.function, [j \in 1 .. n |-> dps[j].value], n, r.value)

\* A point is read as a whole number, and as its own among points of its type.
LEMMA NumberRead ==
  ASSUME NEW p, p.value \in Int, p.type \in {"int", "double"}, NEW type \in {"int", "double"}, NEW function
  PROVE  /\ Number(p, type, function) \in Int
         /\ p.type = type => Number(p, type, function) = p.value
<1>1. Unit \in Nat \ {0}
  BY UnitAssumption
<1>2. p.value * Unit \in Int
  BY <1>1
<1>3. Quotient(p.value, Unit) \in Int
  BY <1>1, QuotientClose
<1>4. CASE p.type = type
  BY <1>4 DEF Number
<1>5. CASE p.type # type /\ type = "double"
  BY <1>2, <1>5 DEF Number
<1>6. CASE p.type # type /\ type = "int"
  BY <1>3, <1>6 DEF Number
<1> QED
  BY <1>4, <1>5, <1>6

\* A group of numbers.
LEMMA NumbersMerged ==
  ASSUME NEW n \in Nat \ {0}, NEW a, NEW t, NEW dps \in [1 .. n -> PointsOf(a, t)],
         asked.function \in FunctionNames
  PROVE  NumberOf(dps, n, a, t, MergeNumbers(dps))
<1> DEFINE values == Numbers(dps)
           starts == [j \in 1 .. n |-> dps[j].start]
           one == One(dps[1].type)
           v == Value(asked.function, values, one)
           m == Earliest(dps)
<1>0. 1 \in 1 .. n
  OBVIOUS
<1>1. \A j \in 1 .. n : /\ dps[j] \in PointsOf(a, t) /\ dps[j].value \in Int /\ dps[j].start \in Int
                        /\ dps[j].type \in {"int", "double"}
  BY DEF PointsOf
<1>2. values \in [1 .. n -> Int] /\ starts \in [1 .. n -> Int] /\ one \in Int
  <2>1. \A j \in 1 .. n : Number(dps[j], dps[1].type, asked.function) \in Int
    BY <1>0, <1>1, NumberRead
  <2>2. values \in [1 .. n -> Int]
    BY <2>1 DEF Numbers
  <2> QED
    BY <1>1, <2>2, UnitAssumption DEF One
<1>3. starts[1] = dps[1].start
  BY <1>0
<1>4. m = FoldLeft(Least, starts[1], starts)
  BY <1>3 DEF Earliest
<1>5. \A j \in 1 .. n : starts[j] = dps[j].start
  OBVIOUS
<1>6. MergeNumbers(dps) = [dps[1] EXCEPT !.value = v, !.start = m]
  BY DEF MergeNumbers
<1>7. ASSUME \A i, j \in 1 .. n : dps[i].type = dps[j].type
      PROVE  values = [j \in 1 .. n |-> dps[j].value]
  <2>1. ASSUME NEW j \in 1 .. n PROVE Number(dps[j], dps[1].type, asked.function) = dps[j].value
    BY <1>0, <1>1, <1>7, NumberRead
  <2>2. DOMAIN dps = 1 .. n
    OBVIOUS
  <2> QED
    BY <2>1, <2>2 DEF Numbers
<1> HIDE DEF values, starts, one, v, m
<1>8. Promised(asked.function, values, n, v)
  BY <1>2, ValuePromised DEF v
<1>9. m \in Int /\ (\E i \in 1 .. n : starts[i] = m) /\ \A i \in 1 .. n : m <= starts[i]
  BY <1>2, <1>4, MinimumOf
<1>10. v \in Int
  BY <1>8 DEF Promised
<1>11. dps[1] \in PointsOf(a, t)
  BY <1>0, <1>1
<1> DEFINE r == MergeNumbers(dps)
<1>12. r \in PointsOf(a, t) /\ r.value = v /\ r.start = m
  BY <1>6, <1>9, <1>10, <1>11 DEF PointsOf
<1> HIDE DEF r
<1>13. ASSUME \A i, j \in 1 .. n : dps[i].type = dps[j].type
       PROVE  Promised(asked.function, [j \in 1 .. n |-> dps[j].value], n, r.value)
  BY <1>7, <1>8, <1>12, <1>13
<1>14. (\A j \in 1 .. n : r.start <= dps[j].start) /\ \E j \in 1 .. n : r.start = dps[j].start
  BY <1>5, <1>9, <1>12
<1> QED
  BY <1>10, <1>12, <1>13, <1>14 DEF NumberOf, r

-----------------------------------------------------------------------------
(* What a group is merged into.                                             *)

\* At most as many numbers are mapped into a set, none twice, as it has elements.
LEMMA CountAtLeast ==
  ASSUME NEW B, IsFiniteSet(B), NEW a \in Nat, NEW b \in Nat, a <= b,
         NEW e \in [a .. b -> B], \A x, y \in a .. b : e[x] = e[y] => x = y
  PROVE  Cardinality(B) \in Nat /\ Cardinality(B) >= (b - a) + 1
<1>1. e \in Injection(a .. b, B)
  BY DEF Injection, IsInjective
<1>2. Cardinality(a .. b) <= Cardinality(B)
  BY <1>1, FS_Injection
<1>3. Cardinality(a .. b) = (b - a) + 1
  BY FS_Interval
<1> QED
  BY <1>2, <1>3, FS_CardinalityType

\* The value v of what the points of I become is where the function says
InPlace(dps, I, function, v) ==
  LET below == {i \in I : dps[i].value <= v}
      above == {i \in I : dps[i].value >= v}
  IN CASE function = "max" -> below = I /\ above # {}
       [] function = "min" -> above = I /\ below # {}
       [] function = "median" -> /\ 2 * Cardinality(below) >= Cardinality(I)
                                 /\ 2 * Cardinality(above) >= Cardinality(I)
       [] function = "mean" -> below # {} /\ above # {}
       [] OTHER -> TRUE

\* What is promised of the values of a group is true of the points in it.
LEMMA PromiseKept ==
  ASSUME NEW I, NEW dps, \A j \in I : dps[j].value \in Int, NEW n \in Nat, NEW s, NEW h, Places(dps, I, s, n, h),
         NEW function \in FunctionNames, NEW v, Promised(function, [x \in 1 .. n |-> s[x].value], n, v)
  PROVE  InPlace(dps, I, function, v)
<1> DEFINE values == [x \in 1 .. n |-> s[x].value]
           below == {i \in I : dps[i].value <= v}
           above == {i \in I : dps[i].value >= v}
<1>1. /\ h \in [1 .. n -> I]
      /\ \A x, y \in 1 .. n : h[x] = h[y] => x = y
      /\ \A j \in I : \E x \in 1 .. n : h[x] = j
      /\ \A x \in 1 .. n : values[x] = dps[h[x]].value
  BY DEF Places
<1>2. v \in Int
  BY DEF Promised
<1>3. \A x \in 1 .. n : h[x] \in I /\ dps[h[x]].value \in Int
  BY <1>1
<1> HIDE DEF values
<1>4. /\ \A x \in 1 .. n : values[x] <= v => h[x] \in below
      /\ \A x \in 1 .. n : values[x] >= v => h[x] \in above
      /\ \A x \in 1 .. n : v <= values[x] => h[x] \in above
      /\ \A x \in 1 .. n : values[x] = v => h[x] \in below /\ h[x] \in above
  BY <1>1, <1>2, <1>3
<1>5. below \subseteq I /\ above \subseteq I
  OBVIOUS
<1>6. IsFiniteSet(I) /\ Cardinality(I) = n
  <2>1. h \in Bijection(1 .. n, I)
    BY <1>1 DEF Bijection, Injection, Surjection, IsInjective
  <2>2. IsFiniteSet(1 .. n) /\ Cardinality(1 .. n) = n
    BY FS_Interval
  <2> QED
    BY <2>1, <2>2, FS_Bijection DEF ExistsBijection
<1>7. IsFiniteSet(below) /\ IsFiniteSet(above)
  BY <1>5, <1>6, FS_Subset
<1>8. CASE function = "max"
  <2>1. (\E x \in 1 .. n : values[x] = v) /\ \A x \in 1 .. n : values[x] <= v
    BY <1>8 DEF Promised, values
  <2>2. above # {}
    BY <1>4, <2>1
  <2>3. below = I
    <3>1. ASSUME NEW j \in I PROVE j \in below
      <4>1. PICK x \in 1 .. n : h[x] = j
        BY <1>1
      <4> HIDE DEF below
      <4> QED
        BY <1>4, <2>1, <4>1
    <3> QED
      BY <1>5, <3>1
  <2> QED
    BY <1>8, <2>2, <2>3 DEF InPlace
<1>9. CASE function = "min"
  <2>1. (\E x \in 1 .. n : values[x] = v) /\ \A x \in 1 .. n : v <= values[x]
    BY <1>9 DEF Promised, values
  <2>2. below # {}
    BY <1>4, <2>1
  <2>3. above = I
    <3>1. ASSUME NEW j \in I PROVE j \in above
      <4>1. PICK x \in 1 .. n : h[x] = j
        BY <1>1
      <4> HIDE DEF above
      <4> QED
        BY <1>4, <2>1, <4>1
    <3> QED
      BY <1>5, <3>1
  <2> QED
    BY <1>9, <2>2, <2>3 DEF InPlace
<1>10. CASE function = "mean"
  <2>1. (\E x \in 1 .. n : values[x] <= v) /\ \E x \in 1 .. n : values[x] >= v
    BY <1>10 DEF Promised, values
  <2> QED
    BY <1>4, <1>10, <2>1 DEF InPlace
<1>11. CASE function = "median"
  <2>0. Halved(values, n, v)
    BY <1>11 DEF Promised, values
  <2>1. PICK p \in [1 .. n -> 1 .. n], low \in 1 .. n, high \in 1 .. n :
          /\ IsInjective(p)
          /\ 2 * low >= n /\ 2 * ((n - high) + 1) >= n
          /\ \A i \in 1 .. low : values[p[i]] <= v
          /\ \A i \in high .. n : v <= values[p[i]]
    BY <2>0 DEF Halved
  <2>2. /\ \A x \in 1 .. low : x \in 1 .. n
        /\ \A x \in high .. n : x \in 1 .. n
        /\ \A x \in 1 .. n : p[x] \in 1 .. n
        /\ \A x, y \in 1 .. n : p[x] = p[y] => x = y
    BY <2>1 DEF IsInjective
  <2> HIDE DEF below, above
  <2> DEFINE e == [x \in 1 .. low |-> h[p[x]]]
             f == [x \in high .. n |-> h[p[x]]]
  <2>3. e \in [1 .. low -> below] /\ \A x, y \in 1 .. low : e[x] = e[y] => x = y
    BY <1>1, <1>4, <2>1, <2>2
  <2>4. f \in [high .. n -> above] /\ \A x, y \in high .. n : f[x] = f[y] => x = y
    BY <1>1, <1>4, <2>1, <2>2
  <2>5. low \in Nat /\ high \in Nat /\ 1 <= low /\ high <= n
    OBVIOUS
  <2> HIDE DEF e, f
  <2>6. Cardinality(below) \in Nat /\ Cardinality(below) >= (low - 1) + 1
    BY <1>7, <2>3, <2>5, CountAtLeast
  <2>7. Cardinality(above) \in Nat /\ Cardinality(above) >= (n - high) + 1
    BY <1>7, <2>4, <2>5, CountAtLeast
  <2>8. 2 * Cardinality(below) >= n
    BY <2>1, <2>5, <2>6
  <2>9. 2 * Cardinality(above) >= n
    BY <2>1, <2>5, <2>7
  <2> QED
    BY <1>6, <1>11, <2>8, <2>9 DEF InPlace, below, above
<1>12. CASE function = "sum" \/ function = "count"
  BY <1>12 DEF InPlace
<1> QED
  BY <1>8, <1>9, <1>10, <1>11, <1>12 DEF FunctionNames

\* The points of the model: histograms have one bucket more than bounds, or neither
Fitting(p) ==
  (p.buckets = <<>> /\ p.bounds = <<>>) \/ Len(p.buckets) = Len(p.bounds) + 1

Sound(dps, n) ==
  /\ DOMAIN dps = 1 .. n
  /\ \A i \in 1 .. n :
       /\ IsPoint(dps[i])
       /\ asked.kind \in {"histogram", "exponential"} => (dps[i].count = 0 => dps[i].value = 0)
       /\ asked.kind = "histogram" => Fitting(dps[i])

Asks ==
  /\ asked.kind \in {"gauge", "sum", "histogram", "exponential"}
  /\ asked.function \in FunctionNames

SameType(dps, I) == \A i, j \in I : dps[i].type = dps[j].type

\* The points I of key k, which are s, became r
Became(dps, I, k, s, r) ==
  /\ r.attrs = k.attrs /\ r.time = k.time
  /\ r.value \in Int
  /\ \A j \in I : \/ dps[j].count = 0 /\ asked.kind \in {"histogram", "exponential"}
                  \/ r.start <= dps[j].start
  /\ \E j \in I : r.start = dps[j].start
  /\ asked.kind \notin {"gauge", "sum"} \/ (asked.function = "sum" /\ SameType(dps, I)) =>
       r.value = SumOf(s)
  /\ asked.kind \in {"histogram", "exponential"} /\ (\A j \in I : Balanced(dps[j])) => Balanced(r)
  /\ asked.kind \in {"gauge", "sum"} /\ SameType(dps, I) => InPlace(dps, I, asked.function, r.value)

\* The points of a group have the attributes and the time of its key.
LEMMA OfOneKey ==
  ASSUME NEW n \in Nat, NEW dps, Sound(dps, n), NEW k, NEW j \in Indices(dps, n, k)
  PROVE  dps[j] \in PointsOf(k.attrs, k.time)
<1>1. j \in 1 .. n /\ GroupKey(dps[j]) = k
  BY DEF Indices
<1>2. k.attrs = dps[j].attrs /\ k.time = dps[j].time
  BY <1>1 DEF GroupKey
<1>3. IsPoint(dps[j])
  BY <1>1 DEF Sound
<1> DEFINE p == dps[j]
<1>4. p \in [attrs : {p.attrs}, time : {p.time}, start : Int, type : {"int", "double"}, value : Int,
             count : Nat, zero : Nat, bounds : Seq(Int), buckets : Seq(Nat), offset : Int]
  <2> HIDE DEF p
  <2> QED
    BY <1>3 DEF IsPoint, p
<1> QED
  BY <1>2, <1>4 DEF PointsOf

\* What a group becomes, whatever is asked for.
LEMMA GroupMerged ==
  ASSUME NEW n \in Nat, NEW dps, Sound(dps, n), Asks, NEW k, Indices(dps, n, k) # {},
         NEW s, IsGroup(dps, Indices(dps, n, k), s)
  PROVE  Became(dps, Indices(dps, n, k), k, s, Merge(s))
<1> DEFINE I == Indices(dps, n, k)
           a == k.attrs
           t == k.time
           l == Len(s)
           r == Merge(s)
<1>1. PICK h : Places(dps, I, s, l, h)
  BY DEF IsGroup
<1>2. /\ h \in [1 .. l -> I]
      /\ \A j \in I : \E x \in 1 .. l : h[x] = j
      /\ \A x \in 1 .. l : s[x] = dps[h[x]]
  BY <1>1 DEF Places
<1>3. \A j \in I : j \in 1 .. n /\ dps[j] \in PointsOf(a, t) /\ dps[j].value \in Int
  BY OfOneKey DEF PointsOf, Indices
<1>4. DOMAIN s = 1 .. l /\ l \in Nat /\ s = [x \in 1 .. l |-> s[x]]
  BY DEF IsGroup
<1>5. \A x \in 1 .. l : h[x] \in I /\ s[x] \in PointsOf(a, t)
  BY <1>2, <1>3
<1>6. s \in [1 .. l -> PointsOf(a, t)]
  BY <1>4, <1>5
<1>7. l \in Nat \ {0}
  BY <1>2, <1>4
<1>8. SumOf(s) = FoldLeft(Plus, 0, [x \in 1 .. l |-> s[x].value])
  BY <1>4 DEF SumOf
<1> HIDE DEF I, a, t, l, r
<1>9. CASE asked.kind \in {"gauge", "sum"}
  <2>1. r = MergeNumbers(s)
    BY <1>9 DEF Merge, r
  <2>2. /\ r \in PointsOf(a, t)
        /\ \A x \in 1 .. l : r.start <= s[x].start
        /\ \E x \in 1 .. l : r.start = s[x].start
        /\ r.value \in Int
        /\ SameType(dps, I) => Promised(asked.function, [x \in 1 .. l |-> s[x].value], l, r.value)
    <3>1. NumberOf(s, l, a, t, MergeNumbers(s))
      BY <1>6, <1>7, NumbersMerged DEF Asks
    <3>2. SameType(dps, I) => \A x, y \in 1 .. l : s[x].type = s[y].type
      BY <1>2, <1>5 DEF SameType
    <3> QED
      BY <2>1, <3>1, <3>2 DEF NumberOf
  <2>3. ASSUME SameType(dps, I) PROVE InPlace(dps, I, asked.function, r.value)
    <3>1. asked.function \in FunctionNames /\ (\A j \in I : dps[j].value \in Int) /\ l \in Nat
      BY <1>3, <1>7 DEF Asks
    <3> QED
      BY <1>1, <2>2, <2>3, <3>1, PromiseKept
  <2>4. asked.function = "sum" /\ SameType(dps, I) => r.value = SumOf(s)
    BY <1>8, <2>2 DEF Promised
  <2>5. r.attrs = a /\ r.time = t /\ r.value \in Int
    BY <2>2 DEF PointsOf
  <2>6. (\A j \in I : r.start <= dps[j].start) /\ \E j \in I : r.start = dps[j].start
    BY <1>2, <1>5, <2>2
  <2> QED
    BY <1>9, <2>3, <2>4, <2>5, <2>6 DEF Became, a, t, I, r
<1>10. CASE asked.kind \in {"histogram", "exponential"}
  <2>1. Histograms(s, l, a, t)
    <3>1. ASSUME NEW x \in 1 .. l PROVE s[x].count = 0 => s[x].value = 0
      BY <1>2, <1>3, <1>5, <1>10 DEF Sound
    <3> QED
      BY <1>6, <3>1 DEF Histograms
  <2>2. HistogramOf(s, l, a, t, r)
    <3>1. CASE asked.kind = "histogram"
      BY <1>7, <2>1, <3>1, HistogramGroup DEF Merge, r
    <3>2. CASE asked.kind = "exponential"
      BY <1>7, <2>1, <3>2, ExponentialGroup DEF Merge, r
    <3> QED
      BY <1>10, <3>1, <3>2
  <2>3. r.attrs = a /\ r.time = t /\ r.value \in Int /\ r.value = SumOf(s)
    BY <1>8, <2>2 DEF HistogramOf, PointsOf
  <2>6. ASSUME \A j \in I : Balanced(dps[j]) PROVE Balanced(r)
    <3>1. \A x \in 1 .. l : Balanced(s[x])
      BY <1>2, <1>5, <2>6
    <3> QED
      BY <2>2, <3>1 DEF HistogramOf
  <2>4. \A j \in I : dps[j].count = 0 \/ r.start <= dps[j].start
    <3>1. ASSUME NEW j \in I PROVE dps[j].count = 0 \/ r.start <= dps[j].start
      <4>1. PICK x \in 1 .. l : h[x] = j
        BY <1>2
      <4>2. s[x] = dps[j] /\ (s[x].count = 0 \/ r.start <= s[x].start)
        BY <1>2, <2>2, <4>1 DEF HistogramOf
      <4> QED
        BY <4>2
    <3> QED
      BY <3>1
  <2>5. \E j \in I : r.start = dps[j].start
    BY <1>2, <1>5, <2>2 DEF HistogramOf
  <2> QED
    BY <1>10, <2>3, <2>4, <2>5, <2>6 DEF Became, a, t, I, r
<1> QED
  BY <1>9, <1>10 DEF Asks

-----------------------------------------------------------------------------
(* The invariant.                                                           *)

Size == Len(asked.points)

\* What is asked for is kept, and filtering touches only the attributes
PointsKept ==
  /\ asked \in Aggregation
  /\ step \in {"filter", "group", "merge", "done", "panic"}
  /\ Sound(points, Size)
  /\ \A i \in 1 .. Size : points[i].value = asked.points[i].value

GroupsMade ==
  step \in {"merge", "done", "panic"} =>
    Grouped(points, Size, groups) /\ GroupTotal(groups) = PointTotal(points, Size)

MergedMade ==
  step = "done" =>
    /\ DOMAIN merged = DOMAIN groups
    /\ \A k \in DOMAIN groups : Became(points, Indices(points, Size, k), k, groups[k], merged[k])

Panicked == step = "panic" => \E k \in DOMAIN groups : OutOfRange(groups[k])

DataInv == PointsKept /\ GroupsMade /\ MergedMade /\ Panicked

\* What is asked for is one of the cases.
LEMMA WhatIsAsked ==
  ASSUME asked \in Aggregation
  PROVE  /\ Asks /\ Size \in Nat /\ DOMAIN asked.points = 1 .. Size
         /\ Sound(asked.points, Size)
BY PointsAssumption DEF Asks, Size, Sound, FunctionNames, Fitting

\* At first, with the points that are asked for.
LEMMA DataInvFirst == DataInit => DataInv
<1> SUFFICES ASSUME DataInit PROVE DataInv
  OBVIOUS
<1>1. PICK a \in Aggregation : DataFrom(a)
  BY DEF DataInit
<1>2. asked \in Aggregation /\ points = asked.points /\ step = "filter"
  BY <1>1 DEF DataFrom
<1>3. Sound(points, Size)
  BY <1>2, WhatIsAsked
<1> QED
  BY <1>2, <1>3 DEF DataInv, PointsKept, GroupsMade, MergedMade, Panicked

\* Filtering.
LEMMA FilterKeeps == DataInv /\ FilterAttrs => DataInv'
<1> SUFFICES ASSUME DataInv, FilterAttrs PROVE DataInv'
  OBVIOUS
<1>1. asked' = asked /\ step' = "group" /\ Size' = Size /\ asked \in Aggregation
  BY DEF FilterAttrs, DataInv, PointsKept, Size
<1>2. Size \in Nat /\ DOMAIN points = 1 .. Size /\ \A i \in 1 .. Size : IsPoint(points[i])
  BY <1>1, WhatIsAsked DEF DataInv, PointsKept, Sound
<1>3. DOMAIN points' = 1 .. Size
  BY <1>2 DEF FilterAttrs
<1>4. ASSUME NEW i \in 1 .. Size
      PROVE  /\ IsPoint(points'[i])
             /\ points'[i].value = points[i].value /\ points'[i].count = points[i].count
             /\ points'[i].bounds = points[i].bounds /\ points'[i].buckets = points[i].buckets
  <2> DEFINE p == points[i]
  <2>1. IsPoint(p)
    BY <1>2
  <2>2. points'[i] = p \/ points'[i] = Filtered(p)
    BY <1>2 DEF FilterAttrs
  <2> HIDE DEF p
  <2>3. /\ IsPoint(Filtered(p))
        /\ Filtered(p).value = p.value /\ Filtered(p).count = p.count
        /\ Filtered(p).bounds = p.bounds /\ Filtered(p).buckets = p.buckets
    <3> DEFINE q == [k \in DOMAIN p.attrs \cap asked.filter |-> p.attrs[k]]
    <3>1. Filtered(p) = [p EXCEPT !.attrs = q]
      BY DEF Filtered
    <3> HIDE DEF q
    <3>2. Filtered(p) = [attrs |-> q, time |-> p.time, start |-> p.start, type |-> p.type,
                         value |-> p.value, count |-> p.count, zero |-> p.zero,
                         bounds |-> p.bounds, buckets |-> p.buckets, offset |-> p.offset]
      BY <2>1, <3>1 DEF IsPoint
    <3> QED
      BY <2>1, <3>2 DEF IsPoint
  <2> QED
    BY <2>1, <2>2, <2>3 DEF p
<1>5. Sound(points, Size)'
  BY <1>1, <1>3, <1>4 DEF Sound, Fitting, DataInv, PointsKept
<1> QED
  BY <1>1, <1>4, <1>5 DEF DataInv, PointsKept, GroupsMade, MergedMade, Panicked

\* Grouping.
LEMMA GroupKeeps == DataInv /\ GroupDataPoints => DataInv'
<1> SUFFICES ASSUME DataInv, GroupDataPoints PROVE DataInv'
  OBVIOUS
<1>1. /\ asked' = asked /\ points' = points /\ step' = "merge"
      /\ Size' = Size /\ asked \in Aggregation
  BY DEF GroupDataPoints, DataInv, PointsKept, Size
<1>2. Size \in Nat /\ DOMAIN points = 1 .. Size /\ \A i \in 1 .. Size : points[i].value \in Int
  BY <1>1, WhatIsAsked DEF DataInv, PointsKept, Sound, IsPoint
<1>3. groups' = FoldLeft(AddToGroup, <<>>, points)
  BY DEF GroupDataPoints
<1>4. Grouped(points, Size, groups') /\ GroupTotal(groups') = PointTotal(points, Size)
  BY <1>2, <1>3, AllGrouped
<1>5. Grouped(points, Size, groups)' /\ GroupTotal(groups)' = PointTotal(points, Size)'
  BY <1>1, <1>4 DEF Grouped, Indices, GroupKey, GroupTotal, PointTotal
<1>6. PointsKept'
  BY <1>1 DEF DataInv, PointsKept, Sound
<1> QED
  BY <1>1, <1>5, <1>6 DEF DataInv, GroupsMade, MergedMade, Panicked

\* Every key has points.
LEMMA KeysHavePoints ==
  ASSUME NEW n \in Nat, NEW dps, NEW g, Grouped(dps, n, g), NEW k \in DOMAIN g
  PROVE  Indices(dps, n, k) # {}
BY DEF Grouped, Indices

\* Merging.
LEMMA MergeKeeps == DataInv /\ MergeDataPoints => DataInv'
<1> SUFFICES ASSUME DataInv, MergeDataPoints PROVE DataInv'
  OBVIOUS
<1>1. /\ asked' = asked /\ points' = points /\ groups' = groups /\ step' = "done"
      /\ Size' = Size /\ asked \in Aggregation /\ step = "merge"
  BY DEF MergeDataPoints, DataInv, PointsKept, Size
<1>2. merged' = [k \in DOMAIN groups |-> Merge(groups[k])]
  BY DEF MergeDataPoints
<1>3. /\ Sound(points, Size) /\ Asks /\ Size \in Nat /\ Grouped(points, Size, groups)
      /\ GroupTotal(groups) = PointTotal(points, Size)
  BY <1>1, WhatIsAsked DEF DataInv, PointsKept, GroupsMade
<1>4. ASSUME NEW k \in DOMAIN groups
      PROVE  Became(points, Indices(points, Size, k), k, groups[k], merged'[k])
  <2>1. Indices(points, Size, k) # {} /\ IsGroup(points, Indices(points, Size, k), groups[k])
    BY <1>3, KeysHavePoints DEF Grouped
  <2>2. merged'[k] = Merge(groups[k])
    BY <1>2
  <2> QED
    BY <1>3, <2>1, <2>2, GroupMerged
<1>5. PointsKept'
  BY <1>1 DEF DataInv, PointsKept, Sound
<1>6. GroupsMade'
  BY <1>1, <1>3 DEF GroupsMade, Grouped, Indices, GroupKey, GroupTotal, PointTotal
<1>7. MergedMade'
  <2>1. DOMAIN merged' = DOMAIN groups
    BY <1>2
  <2>2. ASSUME NEW k \in DOMAIN groups
        PROVE  Became(points, Indices(points, Size, k), k, groups[k], merged[k])'
    BY <1>1, <1>4 DEF Became, Indices, GroupKey
  <2> QED
    BY <1>1, <2>1, <2>2 DEF MergedMade
<1> QED
  BY <1>1, <1>5, <1>6, <1>7 DEF DataInv, Panicked

\* Merging that panics.
LEMMA PanicKeeps == DataInv /\ MergePanics => DataInv'
<1> SUFFICES ASSUME DataInv, MergePanics PROVE DataInv'
  OBVIOUS
<1>1. /\ asked' = asked /\ points' = points /\ groups' = groups /\ step' = "panic"
      /\ Size' = Size /\ step = "merge"
  BY DEF MergePanics, Size
<1>2. PointsKept'
  BY <1>1 DEF DataInv, PointsKept, Sound
<1>3. GroupsMade'
  BY <1>1 DEF DataInv, GroupsMade, Grouped, Indices, GroupKey, GroupTotal, PointTotal
<1>4. Panicked'
  BY <1>1 DEF MergePanics, Panicked, OutOfRange
<1> QED
  BY <1>1, <1>2, <1>3, <1>4 DEF DataInv, MergedMade

\* The invariant holds.
LEMMA DataInvHolds == DataSpec => []DataInv
<1>1. DataInv /\ [DataNext]_dataVars => DataInv'
  <2> SUFFICES ASSUME DataInv, [DataNext]_dataVars PROVE DataInv'
    OBVIOUS
  <2>1. CASE UNCHANGED dataVars
    <3>1. /\ asked' = asked /\ points' = points /\ groups' = groups /\ merged' = merged
          /\ step' = step /\ Size' = Size
      BY <2>1 DEF dataVars, Size
    <3>2. PointsKept'
      BY <3>1 DEF DataInv, PointsKept, Sound
    <3>3. GroupsMade'
      BY <3>1 DEF DataInv, GroupsMade, Grouped, Indices, GroupKey, GroupTotal, PointTotal
    <3>4. MergedMade'
      <4> SUFFICES ASSUME step = "done" PROVE MergedMade'
        BY <3>1 DEF MergedMade
      <4>1. /\ DOMAIN merged = DOMAIN groups
            /\ \A k \in DOMAIN groups : Became(points, Indices(points, Size, k), k, groups[k], merged[k])
        BY DEF DataInv, MergedMade
      <4>2. ASSUME NEW k \in DOMAIN groups
            PROVE  Became(points, Indices(points, Size, k), k, groups[k], merged[k])'
        BY <3>1, <4>1 DEF Became, Indices, GroupKey
      <4> QED
        BY <3>1, <4>1, <4>2 DEF MergedMade
    <3>5. Panicked'
      BY <3>1 DEF DataInv, Panicked, OutOfRange
    <3> QED
      BY <3>2, <3>3, <3>4, <3>5 DEF DataInv
  <2> QED
    BY <2>1, FilterKeeps, GroupKeeps, MergeKeeps, PanicKeeps DEF DataNext
<1> QED
  BY <1>1, DataInvFirst, PTL DEF DataSpec

\* The points of a key.
LEMMA OfKeyIs ==
  ASSUME DataInv, NEW k
  PROVE  OfKey(k) = Indices(points, Size, k)
BY DEF DataInv, PointsKept, Sound, Indices, OfKey, Same

\* The merged points add up to what the points do, and count what they hold.
LEMMA NothingIsLost ==
  ASSUME DataInv, step = "done"
  PROVE  NothingLost
<1>1. /\ DOMAIN merged = DOMAIN groups
      /\ \A k \in DOMAIN groups : Became(points, Indices(points, Size, k), k, groups[k], merged[k])
      /\ GroupTotal(groups) = PointTotal(points, Size)
  BY DEF DataInv, MergedMade, GroupsMade
<1>2. /\ DOMAIN asked.points = 1 .. Size
      /\ \A i \in 1 .. Size : points[i].value = asked.points[i].value
  BY WhatIsAsked DEF DataInv, PointsKept
<1>5. \A k : OfKey(k) = Indices(points, Size, k)
  BY <1>2, OfKeyIs
<1>3. ASSUME Summed
      PROVE  SumFunction([k \in DOMAIN merged |-> merged[k].value])
               = SumFunction([i \in DOMAIN asked.points |-> asked.points[i].value])
  <2>1. ASSUME NEW k \in DOMAIN groups PROVE merged[k].value = SumOf(groups[k])
    <3>1. Became(points, Indices(points, Size, k), k, groups[k], merged[k]) /\ k \in DOMAIN merged
      BY <1>1
    <3>2. asked.kind \notin {"gauge", "sum"} \/ (asked.function = "sum" /\ OneType(k))
      BY <1>3, <3>1 DEF Summed
    <3>3. OneType(k) => SameType(points, Indices(points, Size, k))
      BY <1>5 DEF OneType, SameType
    <3> QED
      BY <3>1, <3>2, <3>3 DEF Became
  <2>2. [k \in DOMAIN merged |-> merged[k].value] = [k \in DOMAIN groups |-> SumOf(groups[k])]
    BY <1>1, <2>1
  <2>3. [i \in DOMAIN asked.points |-> asked.points[i].value] = [i \in 1 .. Size |-> points[i].value]
    BY <1>2
  <2> QED
    BY <1>1, <2>2, <2>3 DEF GroupTotal, PointTotal
<1>4. ASSUME asked.kind \in {"histogram", "exponential"}, NEW k \in DOMAIN merged,
             \A i \in OfKey(k) : points[i].count = points[i].zero + InBuckets(points[i])
      PROVE  merged[k].count = merged[k].zero + InBuckets(merged[k])
  BY <1>1, <1>4, <1>5 DEF Became, Balanced, TotalOf, InBuckets
<1> QED
  BY <1>3, <1>4 DEF NothingLost

\* Every point is in the interval of the point it is merged into.
LEMMA IntervalsAreKept ==
  ASSUME DataInv, step = "done"
  PROVE  IntervalsKept
<1> SUFFICES ASSUME NEW i \in DOMAIN points
             PROVE  \E k \in DOMAIN merged :
                      /\ merged[k].attrs = points[i].attrs /\ merged[k].time = points[i].time
                      /\ \/ points[i].count = 0 /\ asked.kind \in {"histogram", "exponential"}
                         \/ merged[k].start <= points[i].start
                      /\ asked.delta /\ asked.kind # "gauge" => merged[k].start = points[i].start
  BY DEF IntervalsKept
<1> DEFINE k == GroupKey(points[i])
           I == Indices(points, Size, k)
<1>1. i \in 1 .. Size
  BY DEF DataInv, PointsKept, Sound
<1>2. k \in DOMAIN groups /\ k \in DOMAIN merged /\ Became(points, I, k, groups[k], merged[k])
  BY <1>1 DEF DataInv, MergedMade, GroupsMade, Grouped
<1>3. i \in I
  BY <1>1 DEF Indices
<1>4. \A j \in I : GroupKey(points[j]) = k
  BY DEF Indices
<1>5. k.attrs = points[i].attrs /\ k.time = points[i].time
  BY DEF GroupKey
<1>6. ASSUME asked.delta, asked.kind # "gauge" PROVE merged[k].start = points[i].start
  <2>1. PICK j \in I : merged[k].start = points[j].start
    BY <1>2 DEF Became
  <2>2. GroupKey(points[j]).start = GroupKey(points[i]).start
    BY <1>4
  <2>3. points[j].start = points[i].start
    BY <1>6, <2>2 DEF GroupKey
  <2> QED
    BY <2>1, <2>3
<1> HIDE DEF k, I
<1> QED
  BY <1>2, <1>3, <1>5, <1>6 DEF Became

\* Values are where the functions say.
LEMMA ValuesAreInPlace ==
  ASSUME DataInv, step = "done"
  PROVE  ValuesInPlace
<1> SUFFICES ASSUME asked.kind \in {"gauge", "sum"}, NEW k \in DOMAIN merged, OneType(k)
             PROVE  InPlace(points, OfKey(k), asked.function, merged[k].value)
  BY DEF ValuesInPlace, InPlace
<1>1. OfKey(k) = Indices(points, Size, k)
  BY OfKeyIs
<1>2. Became(points, Indices(points, Size, k), k, groups[k], merged[k])
  BY DEF DataInv, MergedMade
<1> QED
  BY <1>1, <1>2 DEF Became, OneType, SameType

\* Only histograms without bounds make merging panic: of one key, the first of a
\* group has no bucket where a later one has one more.
LEMMA PanicIsExplained ==
  ASSUME DataInv, step = "panic"
  PROVE  PanicExplained
<1>1. PICK k \in DOMAIN groups : OutOfRange(groups[k])
  BY DEF DataInv, Panicked
<1> DEFINE s == groups[k]
           I == Indices(points, Size, k)
<1>2. PICK h : Places(points, I, s, Len(s), h)
  BY <1>1 DEF DataInv, GroupsMade, Grouped, IsGroup
<1>3. PICK x \in 2 .. Len(s) : Len(s[x].buckets) > Len(s[1].buckets)
  BY <1>1 DEF OutOfRange
<1>4. asked.kind = "histogram"
  BY <1>1 DEF OutOfRange
<1>5. s \in Seq({points[j] : j \in DOMAIN points})
  BY <1>1 DEF DataInv, GroupsMade, Grouped, IsGroup
<1>6. Len(s) \in Nat /\ 1 \in 1 .. Len(s) /\ x \in 1 .. Len(s)
  BY <1>5
<1> DEFINE i == h[1]
           j == h[x]
<1>7. i \in I /\ j \in I /\ s[1] = points[i] /\ s[x] = points[j]
  BY <1>2, <1>6 DEF Places
<1>8. /\ i \in 1 .. Size /\ j \in 1 .. Size
      /\ GroupKey(points[i]) = k /\ GroupKey(points[j]) = k
  BY <1>7 DEF Indices
<1>9. Len(points[j].buckets) > Len(points[i].buckets)
  BY <1>3, <1>7
<1> HIDE DEF i, j, s, I
<1>10. points[i].bounds = points[j].bounds
  BY <1>4, <1>8 DEF GroupKey
<1>11. /\ DOMAIN points = 1 .. Size /\ Fitting(points[i]) /\ Fitting(points[j])
       /\ points[i].buckets \in Seq(Nat) /\ points[j].buckets \in Seq(Nat)
  BY <1>4, <1>8 DEF DataInv, PointsKept, Sound, IsPoint
<1>12. points[j].buckets # <<>> /\ points[i].buckets = <<>>
  BY <1>9, <1>10, <1>11 DEF Fitting
<1> QED
  BY <1>4, <1>8, <1>11, <1>12 DEF PanicExplained

\* Aggregation (aggregateutil) that comes to its end is faithful, for any points:
\* it neither loses nor repeats a value of points of one type, joins no two
\* intervals of a delta metric, keeps the counts of histograms, and a mean, a
\* median and an extreme lie where their names say.  It panics only where
\* histograms without bounds meet of which one has a bucket and one has none.
THEOREM AggregationIsFaithful == DataSpec => []AggregationFaithful
<1>1. DataInv => AggregationFaithful
  BY NothingIsLost, IntervalsAreKept, ValuesAreInPlace, PanicIsExplained DEF AggregationFaithful
<1> QED
  BY <1>1, DataInvHolds, PTL

=============================================================================
