--------------------------- MODULE DynamicThresholds ---------------------------
(***************************************************************************)
(* How concurrent batches move the dynamic thresholds                      *)
(* (dynamic_thresholds.go, and its caller and readers in                   *)
(* process_metrics.go).  The time of the last update is read and written   *)
(* without a lock; the map of thresholds is copied under the read lock,    *)
(* changed under the write lock, and read without a lock by                *)
(* isResourceTargeted.                                                     *)
(*                                                                         *)
(* Abstractions.  Time moves in half update intervals (30 s).  Thresholds  *)
(* and averages are naturals, an adjusted threshold is rounded down, the   *)
(* smoothing factor is a percentage.  A torn read of lastThresholdUpdate   *)
(* is as old as one of the values written, so it is not distinguished.     *)
(***************************************************************************)
EXTENDS Naturals, FiniteSets, Functions

CONSTANTS
  Worker,     \* goroutines that call ConsumeMetrics
  Base,       \* metric_thresholds: metric |-> static threshold
  MinLimit,   \* min_thresholds: metric |-> limit, for some metrics
  MaxLimit,   \* max_thresholds: metric |-> limit, for some metrics
  Smoothing,  \* dynamic_smoothing_factor, in percent
  Peak,       \* the largest average a batch can have
  WeightOnly, \* some resource reports only metrics that have just a weight
  NoWorker

Watched == DOMAIN Base

ASSUME LimitsAssumption ==
  /\ Base \in [Watched -> Nat]
  /\ MinLimit \in [DOMAIN MinLimit -> Nat]
  /\ MaxLimit \in [DOMAIN MaxLimit -> Nat]
  /\ Smoothing \in 1 .. 100
  /\ Peak \in Nat
  /\ WeightOnly \in BOOLEAN
  /\ NoWorker \notin Worker

VARIABLES
  thresholds,  \* metric |-> dynamic threshold, for the metrics that have one
  sinceUpdate, \* half intervals since lastThresholdUpdate
  sinceMove,   \* half intervals since thresholds were last changed
  writer,      \* the worker that is changing the map, or NoWorker
  pc,          \* pc[w] = where w is in its batch
  averages,    \* averages[w] = metric |-> average of the gauges in w's batch
  copy         \* copy[w] = the thresholds w works from

vars == <<thresholds, sinceUpdate, sinceMove, writer, pc, averages, copy>>

Interval == 2
Ages == 0 .. Interval
Averages == UNION {[M -> 0 .. Peak] : M \in SUBSET Watched}
Places == {"idle", "recheck", "stamp", "snapshot", "lock", "write", "restamp",
           "judge", "peek"}

IsThresholds(f) == DOMAIN f \subseteq Watched /\ \A m \in DOMAIN f : f[m] \in Nat

TypeOK ==
  /\ IsThresholds(thresholds)
  /\ sinceUpdate \in Ages
  /\ sinceMove \in Ages
  /\ writer \in Worker \cup {NoWorker}
  /\ pc \in [Worker -> Places]
  /\ averages \in [Worker -> Averages]
  /\ DOMAIN copy = Worker /\ \A w \in Worker : IsThresholds(copy[w])

Seeds == Restrict(Base, {m \in Watched : Base[m] > 0})

Init ==
  /\ thresholds = Seeds
  /\ sinceUpdate = 0
  /\ sinceMove = Interval
  /\ writer = NoWorker
  /\ pc = [w \in Worker |-> "idle"]
  /\ averages = [w \in Worker |-> <<>>]
  /\ copy = [w \in Worker |-> <<>>]

-----------------------------------------------------------------------------
(* One adjustment.  A metric without a previous threshold starts from its  *)
(* base; the target is the base plus a fifth of the average; the new value *)
(* lies between the previous one and the target.                           *)
Previous(m, current) ==
  IF m \in DOMAIN current /\ current[m] > 0 THEN current[m] ELSE Base[m]

\* Mutant of Blend: the target lies above the previous value.
BlendAbovePrevious(base, average, previous) ==
  (Smoothing * (5 * previous + average) + (100 - Smoothing) * (5 * previous)) \div 500

Blend(base, average, previous) ==
  (Smoothing * (5 * base + average) + (100 - Smoothing) * (5 * previous)) \div 500

AtLeast(m, v) ==
  IF m \in DOMAIN MinLimit /\ MinLimit[m] > 0 /\ v < MinLimit[m] THEN MinLimit[m] ELSE v
AtMost(m, v) ==
  IF m \in DOMAIN MaxLimit /\ MaxLimit[m] > 0 /\ v > MaxLimit[m] THEN MaxLimit[m] ELSE v

Adjusted(m, average, current) ==
  AtMost(m, AtLeast(m, Blend(Base[m], average, Previous(m, current))))

\* The map after the metrics of a batch were adjusted, starting from current.
Moved(map, batch, current) ==
  [m \in DOMAIN map \cup DOMAIN batch |->
     IF m \in DOMAIN batch THEN Adjusted(m, batch[m], current) ELSE map[m]]

-----------------------------------------------------------------------------
Go(w, from, to) == pc[w] = from /\ pc' = [pc EXCEPT ![w] = to]

\* updateDynamicThresholdsIfNeeded: the interval has passed, or has not.
StartUpdate(w) ==
  /\ sinceUpdate >= Interval
  /\ Go(w, "idle", "recheck")
  /\ \E batch \in Averages : averages' = [averages EXCEPT ![w] = batch]
  /\ UNCHANGED <<thresholds, sinceUpdate, sinceMove, writer, copy>>

SkipUpdate(w) ==
  /\ sinceUpdate < Interval
  /\ Go(w, "idle", "judge")
  /\ UNCHANGED <<thresholds, sinceUpdate, sinceMove, writer, averages, copy>>

\* shouldUpdateDynamicThresholds asks again, with half the interval.
Recheck(w) ==
  /\ Go(w, "recheck", IF 2 * sinceUpdate >= Interval THEN "stamp" ELSE "restamp")
  /\ UNCHANGED <<thresholds, sinceUpdate, sinceMove, writer, averages, copy>>

\* initializeDynamicUpdate
Stamp(w) ==
  /\ Go(w, "stamp", "snapshot")
  /\ sinceUpdate' = 0
  /\ UNCHANGED <<thresholds, sinceMove, writer, averages, copy>>

\* getCurrentThresholds; a batch without gauges of interest changes nothing.
Snapshot(w) ==
  /\ writer = NoWorker
  /\ Go(w, "snapshot", IF DOMAIN averages[w] = {} THEN "restamp" ELSE "lock")
  /\ copy' = [copy EXCEPT ![w] = thresholds]
  /\ UNCHANGED <<thresholds, sinceUpdate, sinceMove, writer, averages>>

\* applyThresholdUpdates
Lock(w) ==
  /\ writer = NoWorker
  /\ Go(w, "lock", "write")
  /\ writer' = w
  /\ UNCHANGED <<thresholds, sinceUpdate, sinceMove, averages, copy>>

Write(w) ==
  /\ Go(w, "write", "restamp")
  /\ thresholds' = Moved(thresholds, averages[w], copy[w])
  /\ sinceMove' = 0
  /\ writer' = NoWorker
  /\ UNCHANGED <<sinceUpdate, averages, copy>>

\* Mutant of Restamp: the caller leaves the time of the update alone.
RestampNothing(w) ==
  /\ Go(w, "restamp", "judge")
  /\ averages' = [averages EXCEPT ![w] = <<>>]
  /\ copy' = [copy EXCEPT ![w] = <<>>]
  /\ UNCHANGED <<thresholds, sinceUpdate, sinceMove, writer>>

\* updateDynamicThresholdsIfNeeded, after the update or the refused one.
Restamp(w) ==
  /\ Go(w, "restamp", "judge")
  /\ sinceUpdate' = 0
  /\ averages' = [averages EXCEPT ![w] = <<>>]
  /\ copy' = [copy EXCEPT ![w] = <<>>]
  /\ UNCHANGED <<thresholds, sinceMove, writer>>

\* isResourceTargeted walks the map without a lock for a resource none of whose
\* metrics has a static threshold.
Peek(w) ==
  /\ WeightOnly
  /\ Go(w, "judge", "peek")
  /\ UNCHANGED <<thresholds, sinceUpdate, sinceMove, writer, averages, copy>>

Peeked(w) ==
  /\ Go(w, "peek", "judge")
  /\ UNCHANGED <<thresholds, sinceUpdate, sinceMove, writer, averages, copy>>

Finish(w) ==
  /\ Go(w, "judge", "idle")
  /\ UNCHANGED <<thresholds, sinceUpdate, sinceMove, writer, averages, copy>>

Later(age) == IF age < Interval THEN age + 1 ELSE age

HalfInterval ==
  /\ sinceUpdate' = Later(sinceUpdate)
  /\ sinceMove' = Later(sinceMove)
  /\ UNCHANGED <<thresholds, writer, pc, averages, copy>>

Step(w) ==
  \/ StartUpdate(w) \/ SkipUpdate(w) \/ Recheck(w) \/ Stamp(w) \/ Snapshot(w)
  \/ Lock(w) \/ Write(w) \/ Restamp(w) \/ Peek(w) \/ Peeked(w) \/ Finish(w)

Next == (\E w \in Worker : Step(w)) \/ HalfInterval

Spec == Init /\ [][Next]_vars

-----------------------------------------------------------------------------
Larger(a, b) == IF a <= b THEN b ELSE a

\* The tightest and the loosest value the code can move m's threshold to.
Floor(m) == AtMost(m, Base[m])
Ceiling(m) == Larger(Base[m], AtMost(m, AtLeast(m, Base[m] + Peak \div 5 + 1)))

\* calculateSingleThreshold: whatever batches come, in whatever order their
\* updates interleave, a dynamic threshold is never stricter than the static one
\* (or max_thresholds, when that is lower), and it does not drift further than a
\* fifth of the largest average above it.
DriftBounded ==
  \A m \in DOMAIN thresholds :
    Floor(m) <= thresholds[m] /\ thresholds[m] <= Ceiling(m)

\* dynamic_thresholds.go:79: the update time is recorded at the beginning "to
\* prevent frequent updates".  Two workers can pass the test together, but an
\* update that starts while none is under way finds the thresholds an interval
\* old.  It takes the second stamp (process_metrics.go:131): an update may last.
Updating == {"recheck", "stamp", "snapshot", "lock", "write", "restamp"}
UpdatesSpaced ==
  [][\A w \in Worker :
       StartUpdate(w) /\ (\A v \in Worker : pc[v] \notin Updating)
         => sinceMove >= Interval]_vars

\* processor.go:23: mu "protects trackedEntities & dynamicCustomThresholds", so
\* nobody walks the map while it is changed.
NoWalkDuringWrite ==
  \A w \in Worker : pc[w] = "peek" => writer = NoWorker
=============================================================================
