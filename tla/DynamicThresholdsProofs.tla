------------------------ MODULE DynamicThresholdsProofs ------------------------
(* How far concurrent updates can move a dynamic threshold, for every       *)
(* configuration and every number of workers.                               *)
EXTENDS DynamicThresholds, TLAPS

-----------------------------------------------------------------------------
(* Arithmetic of one adjustment.                                            *)

\* A weighted mean of two numbers lies between their bounds.
LEMMA MeanBounds ==
  ASSUME NEW s \in 0 .. 100, NEW x \in Nat, NEW y \in Nat, NEW lo \in Nat, NEW hi \in Nat,
         lo <= x, lo <= y, x <= hi, y <= hi
  PROVE  /\ s * x + (100 - s) * y \in Nat
         /\ 100 * lo <= s * x + (100 - s) * y
         /\ s * x + (100 - s) * y <= 100 * hi
<1> DEFINE t == 100 - s
<1>1. t \in Nat /\ s \in Nat /\ s + t = 100
  OBVIOUS
<1>2. s * lo <= s * x /\ s * x <= s * hi /\ s * lo \in Nat /\ s * x \in Nat /\ s * hi \in Nat
  BY <1>1
<1>3. t * lo <= t * y /\ t * y <= t * hi /\ t * lo \in Nat /\ t * y \in Nat /\ t * hi \in Nat
  <2> HIDE DEF t
  <2> QED
    BY <1>1
<1>4. s * lo + t * lo = 100 * lo /\ s * hi + t * hi = 100 * hi
  <2>1. (s + t) * lo = s * lo + t * lo /\ (s + t) * hi = s * hi + t * hi
    OBVIOUS
  <2> QED
    BY <1>1, <2>1
<1> HIDE DEF t
<1>5. /\ s * x + t * y \in Nat
      /\ 100 * lo <= s * x + t * y
      /\ s * x + t * y <= 100 * hi
  BY <1>2, <1>3, <1>4
<1> QED
  BY <1>5 DEF t

\* The new value lies between any bounds of the base, the target and the
\* previous value.
LEMMA BlendBounds ==
  ASSUME NEW base \in Nat, NEW average \in Nat, NEW previous \in Nat,
         NEW lo \in Nat, NEW hi \in Nat,
         lo <= base, lo <= previous, previous <= hi, 5 * base + average <= 5 * hi
  PROVE  /\ Blend(base, average, previous) \in Nat
         /\ lo <= Blend(base, average, previous)
         /\ Blend(base, average, previous) <= hi
<1> DEFINE n == Smoothing * (5 * base + average) + (100 - Smoothing) * (5 * previous)
<1>1. Smoothing \in 0 .. 100
  BY LimitsAssumption
<1>2. /\ n \in Nat
      /\ 100 * (5 * lo) <= n
      /\ n <= 100 * (5 * hi)
  BY <1>1, MeanBounds
<1> HIDE DEF n
<1>3. n \div 500 \in Nat /\ lo <= n \div 500 /\ n \div 500 <= hi
  BY <1>2
<1> QED
  BY <1>3 DEF Blend, n

-----------------------------------------------------------------------------
(* The inductive invariant: the bounds hold of the map and of every copy a   *)
(* worker still works from.                                                  *)
Bounded(map) ==
  \A m \in DOMAIN map : Floor(m) <= map[m] /\ map[m] <= Ceiling(m)

IInv ==
  /\ TypeOK
  /\ Bounded(thresholds)
  /\ \A w \in Worker : Bounded(copy[w])

LEMMA LimitTypes ==
  ASSUME NEW m \in Watched, NEW v \in Nat
  PROVE  /\ AtLeast(m, v) \in Nat /\ v <= AtLeast(m, v)
         /\ AtMost(m, v) \in Nat /\ AtMost(m, v) <= v
  BY LimitsAssumption DEF AtLeast, AtMost

LEMMA LimitsMonotone ==
  ASSUME NEW m \in Watched, NEW u \in Nat, NEW v \in Nat, u <= v
  PROVE  /\ AtLeast(m, u) <= AtLeast(m, v)
         /\ AtMost(m, u) <= AtMost(m, v)
         /\ AtLeast(m, AtLeast(m, v)) = AtLeast(m, v)
         /\ AtMost(m, AtMost(m, v)) = AtMost(m, v)
  BY LimitsAssumption DEF AtLeast, AtMost

\* An adjustment keeps the bounds of the value it starts from.
LEMMA AdjustedBounded ==
  ASSUME NEW current, IsThresholds(current), Bounded(current),
         NEW m \in Watched, NEW average \in 0 .. Peak
  PROVE  /\ Adjusted(m, average, current) \in Nat
         /\ Floor(m) <= Adjusted(m, average, current)
         /\ Adjusted(m, average, current) <= Ceiling(m)
<1> DEFINE peak == Base[m] + Peak \div 5 + 1
           hi == AtLeast(m, peak)
           previous == Previous(m, current)
           v == Blend(Base[m], average, previous)
<1>1. Base[m] \in Nat /\ Peak \in Nat /\ average \in Nat /\ average <= Peak
  BY LimitsAssumption
<1>2. peak \in Nat /\ 5 * Base[m] + average <= 5 * peak /\ Base[m] <= peak
  BY <1>1
<1> HIDE DEF peak
<1>3. hi \in Nat /\ peak <= hi /\ AtLeast(m, hi) = hi
  BY <1>2, LimitTypes, LimitsMonotone
<1>4. Floor(m) \in Nat /\ Floor(m) <= Base[m] /\ AtMost(m, Floor(m)) = Floor(m)
  BY <1>1, LimitTypes, LimitsMonotone DEF Floor
<1>5. /\ Ceiling(m) \in Nat /\ Ceiling(m) <= hi
      /\ Base[m] <= Ceiling(m) /\ AtMost(m, hi) <= Ceiling(m)
  <2>1. AtMost(m, hi) \in Nat /\ AtMost(m, hi) <= hi
    BY <1>3, LimitTypes
  <2>2. Ceiling(m) = Larger(Base[m], AtMost(m, hi))
    BY DEF Ceiling, hi, peak
  <2> HIDE DEF hi
  <2> QED
    BY <1>1, <1>2, <1>3, <2>1, <2>2 DEF Larger
<1> HIDE DEF hi
<1>6. previous \in Nat /\ Floor(m) <= previous /\ previous <= hi
  <2>1. CASE m \in DOMAIN current /\ current[m] > 0
    BY <1>3, <1>4, <1>5, <2>1 DEF Previous, Bounded, IsThresholds
  <2>2. CASE ~(m \in DOMAIN current /\ current[m] > 0)
    BY <1>1, <1>2, <1>3, <1>4, <2>2 DEF Previous
  <2> QED
    BY <2>1, <2>2
<1> HIDE DEF previous
<1>7. v \in Nat /\ Floor(m) <= v /\ v <= hi
  <2>1. 5 * Base[m] + average <= 5 * hi
    BY <1>1, <1>2, <1>3
  <2> QED
    BY <1>1, <1>3, <1>4, <1>6, <2>1, BlendBounds
<1> HIDE DEF v
<1>8. /\ AtLeast(m, v) \in Nat /\ v <= AtLeast(m, v)
      /\ AtLeast(m, v) <= hi
  BY <1>3, <1>7, LimitTypes, LimitsMonotone
<1>9. /\ AtMost(m, AtLeast(m, v)) \in Nat
      /\ AtMost(m, AtLeast(m, v)) <= AtMost(m, hi)
      /\ AtMost(m, Floor(m)) <= AtMost(m, AtLeast(m, v))
      /\ AtMost(m, hi) \in Nat
  BY <1>3, <1>4, <1>7, <1>8, LimitTypes, LimitsMonotone
<1>10. Adjusted(m, average, current) = AtMost(m, AtLeast(m, v))
  BY DEF Adjusted, v, previous
<1> QED
  BY <1>4, <1>5, <1>9, <1>10

LEMMA MovedBounded ==
  ASSUME NEW map, IsThresholds(map), Bounded(map),
         NEW current, IsThresholds(current), Bounded(current),
         NEW batch \in Averages
  PROVE  IsThresholds(Moved(map, batch, current)) /\ Bounded(Moved(map, batch, current))
<1>1. DOMAIN batch \subseteq Watched /\ \A m \in DOMAIN batch : batch[m] \in 0 .. Peak
  BY DEF Averages
<1>2. \A m \in DOMAIN batch : /\ Adjusted(m, batch[m], current) \in Nat
                              /\ Floor(m) <= Adjusted(m, batch[m], current)
                              /\ Adjusted(m, batch[m], current) <= Ceiling(m)
  BY <1>1, AdjustedBounded
<1> QED
  BY <1>1, <1>2 DEF IsThresholds, Bounded, Moved

-----------------------------------------------------------------------------
\* The empty map, of batches without gauges and of workers without a copy.
LEMMA NothingBounded ==
  IsThresholds(<<>>) /\ Bounded(<<>>) /\ <<>> \in Averages
<1>1. IsThresholds(<<>>) /\ Bounded(<<>>)
  BY DEF IsThresholds, Bounded
<1>2. <<>> = [m \in {} |-> 0]
  OBVIOUS
<1>3. <<>> \in Averages
  BY <1>2 DEF Averages
<1> QED
  BY <1>1, <1>3

LEMMA InitInv == Init => IInv
<1> SUFFICES ASSUME Init PROVE IInv
  OBVIOUS
<1>1. IsThresholds(<<>>) /\ Bounded(<<>>) /\ <<>> \in Averages
  BY NothingBounded
<1>2. IsThresholds(Seeds)
  BY LimitsAssumption DEF IsThresholds, Seeds, Restrict
<1>3. \A m \in Watched : Floor(m) <= Base[m] /\ Base[m] <= Ceiling(m)
  <2> TAKE m \in Watched
  <2> DEFINE top == AtMost(m, AtLeast(m, Base[m] + Peak \div 5 + 1))
  <2>1. Base[m] \in Nat /\ Base[m] + Peak \div 5 + 1 \in Nat
    BY LimitsAssumption
  <2>2. top \in Nat
    BY <2>1, LimitTypes
  <2>3. Floor(m) <= Base[m]
    BY <2>1, LimitTypes DEF Floor
  <2>4. Ceiling(m) = Larger(Base[m], top)
    BY DEF Ceiling
  <2> HIDE DEF top
  <2> QED
    BY <2>1, <2>2, <2>3, <2>4 DEF Larger
<1>4. Bounded(Seeds)
  BY <1>3 DEF Bounded, Seeds, Restrict
<1> QED
  BY <1>1, <1>2, <1>4 DEF Init, IInv, TypeOK, Ages, Interval, Places

\* A step that only moves one worker on.
LEMMA GoInv ==
  ASSUME IInv, NEW w \in Worker, NEW from, NEW to \in Places, Go(w, from, to),
         UNCHANGED <<thresholds, sinceUpdate, sinceMove, writer, averages, copy>>
  PROVE  IInv'
  BY DEF IInv, TypeOK, Bounded, IsThresholds, Go

LEMMA NextInv == IInv /\ [Next]_vars => IInv'
<1> SUFFICES ASSUME IInv, [Next]_vars PROVE IInv'
  OBVIOUS
<1> USE DEF IInv, TypeOK
<1>0. <<>> \in Averages /\ IsThresholds(<<>>) /\ Bounded(<<>>)
  BY NothingBounded
<1>1. ASSUME NEW w \in Worker, StartUpdate(w) PROVE IInv'
  BY <1>1 DEF StartUpdate, Go, Places, Bounded, IsThresholds
<1>2. ASSUME NEW w \in Worker, SkipUpdate(w) PROVE IInv'
  BY <1>2, GoInv DEF SkipUpdate, Places
<1>3. ASSUME NEW w \in Worker, Recheck(w) PROVE IInv'
  BY <1>3, GoInv DEF Recheck, Places
<1>4. ASSUME NEW w \in Worker, Stamp(w) PROVE IInv'
  BY <1>4 DEF Stamp, Go, Places, Bounded, IsThresholds, Ages, Interval
<1>5. ASSUME NEW w \in Worker, Snapshot(w) PROVE IInv'
  <2>1. \A q \in Worker : IsThresholds(copy'[q]) /\ Bounded(copy'[q])
    BY <1>5 DEF Snapshot
  <2> QED
    BY <1>5, <2>1 DEF Snapshot, Go, Places
<1>6. ASSUME NEW w \in Worker, Lock(w) PROVE IInv'
  BY <1>6 DEF Lock, Go, Places, Bounded, IsThresholds
<1>7. ASSUME NEW w \in Worker, Write(w) PROVE IInv'
  <2>1. IsThresholds(thresholds') /\ Bounded(thresholds')
    BY <1>7, MovedBounded DEF Write
  <2> QED
    BY <1>7, <2>1 DEF Write, Go, Places, Ages, Interval
<1>8. ASSUME NEW w \in Worker, Restamp(w) PROVE IInv'
  <2>1. \A q \in Worker : IsThresholds(copy'[q]) /\ Bounded(copy'[q])
    BY <1>0, <1>8 DEF Restamp
  <2> QED
    BY <1>0, <1>8, <2>1 DEF Restamp, Go, Places, Ages, Interval
<1>9. ASSUME NEW w \in Worker, Peek(w) PROVE IInv'
  BY <1>9, GoInv DEF Peek, Places
<1>10. ASSUME NEW w \in Worker, Peeked(w) PROVE IInv'
  BY <1>10, GoInv DEF Peeked, Places
<1>11. ASSUME NEW w \in Worker, Finish(w) PROVE IInv'
  BY <1>11, GoInv DEF Finish, Places
<1>12. CASE HalfInterval
  BY <1>12 DEF HalfInterval, Later, Ages, Interval, Bounded, IsThresholds
<1>13. CASE UNCHANGED vars
  BY <1>13 DEF vars, Bounded, IsThresholds
<1> QED
  BY <1>1, <1>2, <1>3, <1>4, <1>5, <1>6, <1>7, <1>8, <1>9, <1>10, <1>11, <1>12, <1>13
  DEF Next, Step

LEMMA AlwaysInv == Spec => []IInv
  BY InitInv, NextInv, PTL DEF Spec

\* The map, the copies and the clocks of the updates keep their types.
THEOREM ThresholdTypes == Spec => []TypeOK
<1>1. IInv => TypeOK
  BY DEF IInv
<1> QED
  BY <1>1, AlwaysInv, PTL

\* calculateSingleThreshold: however the updates of any number of workers
\* interleave, and whatever they average, no dynamic threshold becomes stricter
\* than its static one (or max_thresholds) or drifts out of reach above it.
THEOREM ThresholdsBounded == Spec => []DriftBounded
<1>1. IInv => DriftBounded
  BY DEF IInv, Bounded, DriftBounded
<1> QED
  BY <1>1, AlwaysInv, PTL

-----------------------------------------------------------------------------
(* The two stamps of an update.                                             *)

\* A move younger than the last stamp has a worker that is about to stamp again.
StampsFollowMoves ==
  sinceMove < sinceUpdate => \E w \in Worker : pc[w] = "restamp"

LEMMA StampsKept ==
  ASSUME TypeOK, StampsFollowMoves, [Next]_vars
  PROVE  StampsFollowMoves'
<1> USE DEF TypeOK, Ages, Interval, StampsFollowMoves
<1>1. ASSUME NEW w \in Worker, Step(w), sinceUpdate' # 0, ~Write(w)
      PROVE  StampsFollowMoves'
  <2>1. UNCHANGED <<sinceUpdate, sinceMove>>
    BY <1>1 DEF Step, StartUpdate, SkipUpdate, Recheck, Stamp, Snapshot, Lock,
                Restamp, Peek, Peeked, Finish
  <2>2. ~Restamp(w) /\ ~Stamp(w)
    BY <1>1 DEF Restamp, Stamp
  <2>3. \A v \in Worker : pc[v] = "restamp" => pc'[v] = "restamp"
    BY <1>1, <2>2 DEF Step, StartUpdate, SkipUpdate, Recheck, Snapshot, Lock,
                      Peek, Peeked, Finish, Go
  <2> QED
    BY <2>1, <2>3
<1>2. ASSUME NEW w \in Worker, Write(w) PROVE StampsFollowMoves'
  BY <1>2 DEF Write, Go
<1>3. ASSUME sinceUpdate' = 0, sinceMove' \in Nat PROVE StampsFollowMoves'
  BY <1>3
<1>4. sinceMove' \in Nat
  BY DEF Next, Step, StartUpdate, SkipUpdate, Recheck, Stamp, Snapshot, Lock, Write,
         Restamp, Peek, Peeked, Finish, HalfInterval, Later, vars
<1>5. CASE HalfInterval
  BY <1>5 DEF HalfInterval, Later
<1>6. CASE UNCHANGED vars
  BY <1>6 DEF vars
<1> QED
  BY <1>1, <1>2, <1>3, <1>4, <1>5, <1>6 DEF Next

LEMMA AlwaysStamped == Spec => []StampsFollowMoves
<1>1. Init => StampsFollowMoves
  BY DEF Init, StampsFollowMoves, Interval
<1>2. TypeOK /\ StampsFollowMoves /\ [Next]_vars => StampsFollowMoves'
  BY StampsKept
<1> QED
  BY <1>1, <1>2, ThresholdTypes, PTL DEF Spec

\* initializeDynamicUpdate and its caller both record the time of an update, so
\* an update that starts while none is under way finds the thresholds an interval
\* old, for every number of workers and however long updates take.
THEOREM QuietUpdatesSpaced == Spec => UpdatesSpaced
<1> DEFINE Spaced == \A w \in Worker :
                        StartUpdate(w) /\ (\A v \in Worker : pc[v] \notin Updating)
                          => sinceMove >= Interval
<1>1. TypeOK /\ StampsFollowMoves => [Spaced]_vars
  BY DEF TypeOK, StampsFollowMoves, StartUpdate, Updating, Ages, Interval
<1> QED
  BY <1>1, ThresholdTypes, AlwaysStamped, PTL DEF UpdatesSpaced
=============================================================================
