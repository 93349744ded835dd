------------------------------ MODULE DataPoints ------------------------------
(***************************************************************************)
(* aggregateutil: the data points of one metric are reduced to some of     *)
(* their attributes, grouped, and each group is merged into one point.     *)
(*                                                                         *)
(* A point has the fields of every kind of metric.  Of a number, value is  *)
(* its number, an integer or a double, which counts in steps of 1 / Unit   *)
(* and is added and divided to whole steps; of a histogram its sum.  Every *)
(* number has a value, and no histogram has a minimum or a maximum.        *)
(***************************************************************************)
EXTENDS Integers, Sequences, FiniteSets, SequencesExt

CONSTANTS
  Aggregation,
    \* what is asked for: [kind, delta, function, filter, points]; filter is
    \* the set of the attributes to keep, or {"nil"}
  Unit   \* the steps of a double from one integer to the next

ASSUME UnitAssumption == Unit \in Nat \ {0}

Plus(a, b) == a + b

InBuckets(point) == FoldLeft(Plus, 0, point.buckets)

IsPoint(p) ==
  /\ p = [attrs |-> p.attrs, time |-> p.time, start |-> p.start, type |-> p.type, value |-> p.value,
          count |-> p.count, zero |-> p.zero, bounds |-> p.bounds, buckets |-> p.buckets,
          offset |-> p.offset]
  /\ p.type \in {"int", "double"} /\ p.bounds \in Seq(Int)
  /\ p.start \in Int /\ p.value \in Int /\ p.offset \in Int
  /\ p.count \in Nat /\ p.zero \in Nat /\ p.buckets \in Seq(Nat)

\* Nothing has no sum, and a histogram has one bucket more than bounds unless it
\* has neither, as the OTLP data model requires
ASSUME PointsAssumption ==
  \A a \in Aggregation :
    /\ a.kind \in {"gauge", "sum", "histogram", "exponential"} /\ a.delta \in BOOLEAN
    /\ a.function \in {"sum", "mean", "max", "min", "count", "median"}
    /\ Len(a.points) \in Nat /\ DOMAIN a.points = 1 .. Len(a.points)
    /\ \A i \in DOMAIN a.points : IsPoint(a.points[i])
    /\ a.kind \in {"histogram", "exponential"} => \A i \in DOMAIN a.points :
         a.points[i].count = 0 => a.points[i].value = 0
    /\ a.kind = "histogram" => \A i \in DOMAIN a.points :
         \/ a.points[i].buckets = <<>> /\ a.points[i].bounds = <<>>
         \/ Len(a.points[i].buckets) = Len(a.points[i].bounds) + 1

VARIABLES
  asked,
  points,    \* the data points of the metric
  groups,    \* AggGroups: key -> its points, in their order
  merged,    \* key -> the point the group becomes
  step       \* "filter", "group", "merge", "done", "panic"

dataVars == <<asked, points, groups, merged, step>>

DataFrom(a) ==
  /\ asked = a
  /\ points = a.points
  /\ groups = <<>> /\ merged = <<>>
  /\ step = "filter"

DataInit == \E a \in Aggregation : DataFrom(a)

-----------------------------------------------------------------------------
\* FilterAttrs: an empty filter clears all attributes, nil keeps them
Filtered(point) ==
  [point EXCEPT !.attrs = [k \in DOMAIN @ \cap asked.filter |-> @[k]]]

FilterAttrs ==
  /\ step = "filter"
  /\ points' = IF asked.filter = {"nil"} THEN points
               ELSE [i \in DOMAIN points |-> Filtered(points[i])]
  /\ step' = "group"
  /\ UNCHANGED <<asked, groups, merged>>

KeyWithoutStart(point) ==     \* mutant: points of two delta intervals in one group
  [attrs |-> point.attrs, time |-> point.time, start |-> 0,
   bounds |-> IF asked.kind = "histogram" THEN point.bounds ELSE <<>>]

\* The key a point is grouped by
GroupKey(point) ==
  [attrs |-> point.attrs, time |-> point.time,
   start |-> IF asked.kind # "gauge" /\ asked.delta THEN point.start ELSE 0,
   bounds |-> IF asked.kind = "histogram" THEN point.bounds ELSE <<>>]

GroupOf(byKey, k) == IF k \in DOMAIN byKey THEN byKey[k] ELSE <<>>

AddToGroup(byKey, point) ==
  [k \in DOMAIN byKey \cup {GroupKey(point)} |->
     IF k = GroupKey(point) THEN Append(GroupOf(byKey, k), point) ELSE byKey[k]]

GroupDataPoints ==
  /\ step = "group"
  /\ groups' = FoldLeft(AddToGroup, <<>>, points)
  /\ step' = "merge"
  /\ UNCHANGED <<asked, points, merged>>

-----------------------------------------------------------------------------
Least(a, b) == IF a < b THEN a ELSE b
Greatest(a, b) == IF a < b THEN b ELSE a

\* Go's integer division, which rounds towards zero
Quotient(a, n) == IF a >= 0 THEN a \div n ELSE -((-a) \div n)

\* slices.Sort: the numbers in an order in which none is below the one before
Ordering(numbers) ==
  {p \in [DOMAIN numbers -> DOMAIN numbers] :
     IsInjective(p) /\ \A i, j \in DOMAIN numbers : i < j => numbers[p[i]] <= numbers[p[j]]}

Sorted(numbers) == LET p == CHOOSE q \in Ordering(numbers) : TRUE
                   IN [i \in DOMAIN numbers |-> numbers[p[i]]]

\* The number of a point, in a group whose first point is of this type.  A double
\* takes integers (doubleVal); an integer cuts doubles off (intVal), and adds 0
\* for them, which is the IntValue of a double.
Number(point, type, function) ==
  CASE point.type = type -> point.value
    [] point.type # type /\ type = "double" -> point.value * Unit
    [] point.type # type /\ type = "int" ->
         IF function \in {"sum", "mean"} THEN 0 ELSE Quotient(point.value, Unit)

One(type) == IF type = "double" THEN Unit ELSE 1

\* mergeNumberDataPoints.  The count of a group of one is its value.
Value(function, numbers, one) ==
  LET n == Len(numbers)
      sorted == Sorted(numbers)
      sum == FoldLeft(Plus, 0, numbers)
  IN CASE function = "sum" -> sum
       [] function = "mean" -> Quotient(sum, n)
       [] function = "max" -> FoldLeft(Greatest, numbers[1], numbers)
       [] function = "min" -> FoldLeft(Least, numbers[1], numbers)
       [] function = "count" -> IF n = 1 THEN numbers[1] ELSE n * one
       [] function = "median" ->
            IF n % 2 = 1 THEN sorted[n \div 2 + 1]
            ELSE Quotient(sorted[n \div 2] + sorted[n \div 2 + 1], 2)

Earliest(dps) == FoldLeft(Least, dps[1].start, [i \in DOMAIN dps |-> dps[i].start])

Numbers(dps) == [i \in DOMAIN dps |-> Number(dps[i], dps[1].type, asked.function)]

MergeNumbers(dps) ==
  [dps[1] EXCEPT !.value = Value(asked.function, Numbers(dps), One(dps[1].type)),
                 !.start = Earliest(dps)]

BucketAt(buckets, i) == IF i \in DOMAIN buckets THEN buckets[i] ELSE 0

AddBuckets(tgt, src) ==
  [i \in 1 .. Greatest(Len(tgt), Len(src)) |-> BucketAt(tgt, i) + BucketAt(src, i)]

\* Count, sum and start of two histogram points
Joined(dp, next) ==
  [dp EXCEPT !.count = @ + next.count, !.value = @ + next.value, !.zero = @ + next.zero,
             !.start = Least(@, next.start)]

\* A point without a count is passed over
MergeHistogramPoint(dp, next) ==
  IF next.count = 0 THEN dp
  ELSE [Joined(dp, next) EXCEPT !.buckets = AddBuckets(@, next.buckets)]

(***************************************************************************)
(* mergeExponentialHistogramBuckets.  Buckets below the target's are put   *)
(* in front of it, the last one first and without the empty ones, neither  *)
(* added where they overlap nor kept apart where they do not touch.        *)
(***************************************************************************)
PutBefore(buckets, count) == IF count > 0 THEN <<count>> \o buckets ELSE buckets

Used(src) == {b \in DOMAIN src : src[b] > 0}

MergeBuckets(tgt, src, tgtOff, srcOff) ==
  LET shift == srcOff - tgtOff
      last == CHOOSE b \in Used(src) : \A c \in Used(src) : c <= b
  IN CASE shift = 0 -> AddBuckets(tgt, src)
       [] shift < 0 -> FoldLeft(PutBefore, tgt, Reverse(src))
       [] shift > 0 /\ Used(src) = {} -> tgt
       [] shift > 0 /\ Used(src) # {} ->
            AddBuckets(tgt, [i \in 1 .. shift + last |-> BucketAt(src, i - shift)])

\* Leading empty buckets are cut off; the offset does not move
TrimBuckets(buckets) ==
  LET empty == {i \in 0 .. Len(buckets) : \A j \in 1 .. i : buckets[j] = 0}
  IN SubSeq(buckets, (CHOOSE i \in empty : \A j \in empty : j <= i) + 1, Len(buckets))

MergeExponentialPoint(dp, next) ==
  LET buckets == MergeBuckets(dp.buckets, next.buckets, dp.offset, next.offset)
  IN IF next.count = 0 THEN dp
     ELSE IF dp.offset = next.offset \/ next.buckets = <<>>
     THEN [Joined(dp, next) EXCEPT !.buckets = buckets]
     ELSE [Joined(dp, next) EXCEPT !.buckets = TrimBuckets(buckets),
                                   !.offset = Least(dp.offset, next.offset)]

Merge(dps) ==
  CASE asked.kind \in {"gauge", "sum"} -> MergeNumbers(dps)
    [] asked.kind = "histogram" -> FoldLeft(MergeHistogramPoint, dps[1], Tail(dps))
    [] asked.kind = "exponential" -> FoldLeft(MergeExponentialPoint, dps[1], Tail(dps))

\* A histogram has more buckets than the first of its group, which leaves the
\* range of counts
OutOfRange(dps) ==
  asked.kind = "histogram" /\ \E i \in 2 .. Len(dps) :
    dps[i].count # 0 /\ Len(dps[i].buckets) > Len(dps[1].buckets)

MergePanics ==
  /\ step = "merge" /\ \E k \in DOMAIN groups : OutOfRange(groups[k])
  /\ step' = "panic"
  /\ UNCHANGED <<asked, points, groups, merged>>

MergeDataPoints ==
  /\ step = "merge" /\ \A k \in DOMAIN groups : ~OutOfRange(groups[k])
  /\ merged' = [k \in DOMAIN groups |-> Merge(groups[k])]
  /\ step' = "done"
  /\ UNCHANGED <<asked, points, groups>>

DataNext == FilterAttrs \/ GroupDataPoints \/ MergePanics \/ MergeDataPoints

DataSpec == DataInit /\ [][DataNext]_dataVars

-----------------------------------------------------------------------------
Same(i, k) == GroupKey(points[i]) = k

OfKey(k) == {i \in DOMAIN points : Same(i, k)}

\* The numbers of a group are all integers or all doubles
OneType(k) == \A i, j \in OfKey(k) : points[i].type = points[j].type

\* The sums that are kept
Summed ==
  \/ asked.kind \notin {"gauge", "sum"}
  \/ asked.function = "sum" /\ \A k \in DOMAIN merged : OneType(k)

(***************************************************************************)
(* Aggregation loses and repeats nothing: the sum over the merged points   *)
(* is the sum over the points, and where every histogram of a group counts *)
(* what is in its buckets, the merged one does too, even where the buckets *)
(* end up in other places than they were.  Sums of groups that mix         *)
(* integers and doubles are left out: behind an integer, doubles count 0.  *)
(***************************************************************************)
NothingLost ==
  /\ Summed =>
       SumFunction([k \in DOMAIN merged |-> merged[k].value])
         = SumFunction([i \in DOMAIN asked.points |-> asked.points[i].value])
  /\ asked.kind \in {"histogram", "exponential"} => \A k \in DOMAIN merged :
       (\A i \in OfKey(k) : points[i].count = points[i].zero + InBuckets(points[i])) =>
         merged[k].count = merged[k].zero + InBuckets(merged[k])

(***************************************************************************)
(* Every point is within the interval of the point it is merged into, and  *)
(* no two intervals of a delta metric are joined (aggregate.go:76).        *)
(***************************************************************************)
IntervalsKept ==
  \A i \in DOMAIN points : \E k \in DOMAIN merged :
    /\ merged[k].attrs = points[i].attrs /\ merged[k].time = points[i].time
    /\ \/ points[i].count = 0 /\ asked.kind \in {"histogram", "exponential"}
       \/ merged[k].start <= points[i].start
    /\ asked.delta /\ asked.kind # "gauge" => merged[k].start = points[i].start

\* Extremes and medians of numbers of one type lie where their names say
ValuesInPlace ==
  asked.kind \in {"gauge", "sum"} => \A k \in DOMAIN merged : OneType(k) =>
    LET S == OfKey(k)
        below == {i \in S : points[i].value <= merged[k].value}
        above == {i \in S : points[i].value >= merged[k].value}
    IN CASE asked.function = "max" -> below = S /\ above # {}
         [] asked.function = "min" -> above = S /\ below # {}
         [] asked.function = "median" -> /\ 2 * Cardinality(below) >= Cardinality(S)
                                         /\ 2 * Cardinality(above) >= Cardinality(S)
         [] asked.function = "mean" -> below # {} /\ above # {}
         [] OTHER -> TRUE

\* Nothing but a histogram without buckets among others makes merging panic
PanicExplained ==
  \E i, j \in DOMAIN points :
    /\ asked.kind = "histogram" /\ GroupKey(points[i]) = GroupKey(points[j])
    /\ points[i].buckets = <<>> /\ points[j].buckets # <<>>

(***************************************************************************)
(* Aggregation that comes to its end keeps values, counts and intervals;   *)
(* it ends in a panic only where histograms without bounds meet of which   *)
(* one has a bucket and one has none.                                      *)
(***************************************************************************)
AggregationFaithful ==
  /\ step = "done" => NothingLost /\ IntervalsKept /\ ValuesInPlace
  /\ step = "panic" => PanicExplained

=============================================================================
