----------------------------- MODULE EntityFilter -----------------------------
(***************************************************************************)
(* The decision engine of the adaptive telemetry processor: the table of   *)
(* tracked entities and the filter stages one reported resource goes       *)
(* through (process_metrics.go, anomaly_detection.go, composite_metrics.go *)
(* and the cleanup of persistence.go).  A resource is judged under the     *)
(* processor's mutex from the lookup to the verdict, so one report is one  *)
(* step.                                                                   *)
(*                                                                         *)
(* Abstractions.  A timestamp is its age in minutes, cut off at Never (see *)
(* RetentionPolicy).  Metric values are natural numbers, weights are        *)
(* scaled to integers and limits to naturals.  The value a dynamic threshold moves to  *)
(* is left to module DynamicThresholds.  CurrentValues and MaxValues, which*)
(* no stage reads, are left to module EntityValues.                        *)
(***************************************************************************)
EXTENDS Integers, Sequences, FiniteSets, Functions

CONSTANTS
  Resource,          \* identities of the reported resources
  Level,             \* values a metric can have
  Thresholds,        \* metric_thresholds: metric |-> static limit
  Weights,           \* weights: metric |-> weight in the composite score
  CompositeThreshold,
  MultiMetric,       \* enable_multi_metric
  Dynamic,           \* enable_dynamic_thresholds
  DynamicLevel,      \* values a dynamic threshold can take
  AnomalyDetection,  \* enable_anomaly_detection
  HistorySize,       \* anomaly_history_size
  MinDataPoints,     \* anomaly_min_data_points
  ChangePercent,     \* anomaly_change_threshold
  Retention,         \* retention_minutes
  Debug,             \* debug_show_all_filter_stages
  Listed,            \* resources whose executable is in include_process_list
  CanBeZombie,       \* resources that may be reported as zombie processes
  Absent             \* "no entity is tracked under this identity"

Watched == DOMAIN Thresholds
Processed == Watched \cup (IF MultiMetric THEN DOMAIN Weights ELSE {})

Never == Retention + 1
Age == 0 .. Never

\* Mutant of Older: ages are counted for ever.
OlderUncapped(age) == age + 1

Older(age) == IF age < Never THEN age + 1 ELSE age

Entity == [exceeded : Age, anomaly : Age, history : [Watched -> Seq(Level)]]

\* What newProcessor leaves after Config.Normalize and Config.Validate.
ASSUME ConfigAssumption ==
  /\ Level \subseteq Nat
  /\ DynamicLevel \subseteq Nat
  /\ Thresholds \in [Watched -> Nat]
  /\ Weights \in [DOMAIN Weights -> Int] /\ IsFiniteSet(DOMAIN Weights)
  /\ CompositeThreshold \in Nat \ {0}
  /\ HistorySize \in Nat \ {0}
  /\ MinDataPoints \in Nat /\ MinDataPoints >= 3
  /\ ChangePercent \in Nat \ {0}
  /\ Retention \in Nat \ {0}
  /\ {MultiMetric, Dynamic, AnomalyDetection, Debug} \subseteq BOOLEAN
  /\ Listed \subseteq Resource
  /\ CanBeZombie \subseteq Resource

ASSUME AbsentAssumption == Absent \notin Entity

VARIABLES
  tracked,  \* tracked[r] = the entity tracked for r, or Absent
  dynamic,  \* metric |-> dynamic threshold, for the metrics that have one
  stage,    \* stage[r] = filter stage of the last report of r
  alive     \* resources that still exist and are reported

vars == <<tracked, dynamic, stage, alive>>

ExceedStages == {"static_threshold", "dynamic_threshold", "multi_metric",
                 "include_list", "zombie_process"}
RetentionStages == {"anomaly_retention", "standard_retention"}
Stage == ExceedStages \cup RetentionStages \cup
         {"none", "default_inclusion", "anomaly_detection", "debug_no_match",
          "excluded"}

TypeOK ==
  /\ tracked \in [Resource -> Entity \cup {Absent}]
  /\ DOMAIN dynamic \subseteq Watched
  /\ \A m \in DOMAIN dynamic : dynamic[m] \in Nat
  /\ stage \in [Resource -> Stage]
  /\ alive \subseteq Resource

\* newProcessor with an empty store: positive limits seed the dynamic ones.
Init ==
  /\ tracked = [r \in Resource |-> Absent]
  /\ dynamic = Restrict(Thresholds, {m \in Watched : Thresholds[m] > 0})
  /\ stage = [r \in Resource |-> "none"]
  /\ alive = Resource

-----------------------------------------------------------------------------
(* The values one report carries for the processed metrics.                *)
Samples == UNION {[M -> Level] : M \in SUBSET Processed}

Targeted(values) == DOMAIN values \cap Watched # {}

-----------------------------------------------------------------------------
(* Anomaly stage: the percentage by which a value exceeds the average of   *)
(* the metric's history, compared without dividing.                        *)
IsSpike(history, value) ==
  LET total == SumFunction(history)
  IN  /\ Len(history) >= MinDataPoints
      /\ total > 0
      /\ 100 * (value * Len(history)) >= (100 + ChangePercent) * total

Spikes(e, values) ==
  {m \in DOMAIN values \cap Watched : AnomalyDetection /\ IsSpike(e.history[m], values[m])}

\* Mutant of Push: the oldest value stays.
PushUntrimmed(history, value) == Append(history, value)

Push(history, value) ==
  LET longer == Append(history, value)
  IN  IF Len(longer) > HistorySize THEN Tail(longer) ELSE longer

\* The entity after the history of the metrics in visited was updated.
Recorded(e, values, visited) ==
  IF AnomalyDetection
  THEN [e EXCEPT !.history =
          [m \in Watched |-> IF m \in visited THEN Push(e.history[m], values[m])
                                              ELSE e.history[m]]]
  ELSE e

\* The map of values is walked in any order and the walk stops at the first
\* spike, so the histories behind it keep their old contents.
VisitedUpTo(e, values) ==
  {M \in SUBSET (DOMAIN values \cap Watched) :
      Cardinality(M \cap Spikes(e, values)) = 1}

\* The entity after an anomaly stage that found nothing.
Observed(e, values) == Recorded(e, values, DOMAIN values \cap Watched)

-----------------------------------------------------------------------------
(* Threshold stage: dynamic thresholds replace the static ones when they   *)
(* are enabled.                                                            *)
OverStatic(values) ==
  \E m \in DOMAIN values \cap Watched : Thresholds[m] = 0 \/ values[m] >= Thresholds[m]

\* Mutant of OverDynamic: so is it for a dynamic threshold.
OverDynamicOrZero(values) ==
  \E m \in DOMAIN values \cap DOMAIN dynamic : values[m] = 0 \/ values[m] >= dynamic[m]

OverDynamic(values) ==
  \E m \in DOMAIN values \cap DOMAIN dynamic : values[m] >= dynamic[m]

OverThreshold(values) == IF Dynamic THEN OverDynamic(values) ELSE OverStatic(values)
ThresholdStage == IF Dynamic THEN "dynamic_threshold" ELSE "static_threshold"

(* Composite stage.  The limit a value is divided by, doubled because a    *)
(* weighted metric without a threshold uses 1.5 times its own value.       *)
TwiceLimit(m, values) ==
  IF m \notin Watched THEN 3 * values[m]
  ELSE IF Dynamic /\ m \in DOMAIN dynamic /\ dynamic[m] > 0 THEN 2 * dynamic[m]
  ELSE 2 * Thresholds[m]

\* The sum of weight * value / limit, over the common denominator of the limits.
OverComposite(values) ==
  LET scored == {m \in DOMAIN Weights \cap DOMAIN values : TwiceLimit(m, values) > 0}
      limit == [m \in scored |-> TwiceLimit(m, values)]
      common == FoldFunction(LAMBDA a, b : a * b, 1, limit)
      share == [m \in scored |-> Weights[m] * 2 * values[m] * (common \div limit[m])]
  IN  MultiMetric /\ SumFunction(share) >= CompositeThreshold * common

-----------------------------------------------------------------------------
(* Storing an entity and recording which stage decided.                    *)
\* Mutant of Fresh: the history starts with zeros in every place.
FreshPadded(values) ==
  [exceeded |-> Never, anomaly |-> Never,
   history |-> [m \in Watched |-> [i \in 1 .. MinDataPoints |-> 0]
                                  \o IF m \in DOMAIN values THEN <<values[m]>> ELSE <<>>]]

Fresh(values) ==
  [exceeded |-> Never, anomaly |-> Never,
   history |-> [m \in Watched |-> IF AnomalyDetection /\ m \in DOMAIN values
                                  THEN <<values[m]>> ELSE <<>>]]

Known(r, values) == IF tracked[r] = Absent THEN Fresh(values) ELSE tracked[r]

Decide(r, e, s) ==
  /\ tracked' = [tracked EXCEPT ![r] = e]
  /\ stage' = [stage EXCEPT ![r] = s]
  /\ UNCHANGED <<dynamic, alive>>

\* No configured metric in the report: not judged, not tracked.
DefaultInclusion(r, values) ==
  /\ ~Targeted(values)
  /\ Decide(r, tracked[r], "default_inclusion")

\* Zombies and listed executables pass before any stage; their entity counts
\* as exceeded now and its history is not touched.
Upserted(r) ==
  IF tracked[r] = Absent
  THEN [exceeded |-> 0, anomaly |-> Never, history |-> [m \in Watched |-> <<>>]]
  ELSE [tracked[r] EXCEPT !.exceeded = 0]

IncludeZombie(r, values) ==
  /\ Targeted(values)
  /\ r \in CanBeZombie
  /\ Decide(r, Upserted(r), "zombie_process")

IncludeListed(r, values) ==
  /\ Targeted(values)
  /\ r \in Listed
  /\ Decide(r, Upserted(r), "include_list")

-----------------------------------------------------------------------------
(* The stages of a judged report, each guarded by the failure of those     *)
(* before it.  A new entity goes through them with the entity Fresh.       *)
Judged(r, values) == Targeted(values) /\ r \notin Listed

Quiet(r, values) == Judged(r, values) /\ Spikes(Known(r, values), values) = {}

DetectAnomaly(r, values) ==
  /\ Judged(r, values)
  /\ Spikes(Known(r, values), values) # {}
  /\ \E visited \in VisitedUpTo(Known(r, values), values) :
       Decide(r, [Recorded(Known(r, values), values, visited) EXCEPT !.anomaly = 0],
              "anomaly_detection")

ExceedThreshold(r, values) ==
  /\ Quiet(r, values)
  /\ OverThreshold(values)
  /\ Decide(r, [Observed(Known(r, values), values) EXCEPT !.exceeded = 0],
            ThresholdStage)

\* Mutant of ExceedComposite: the time of the last exceeded limit is not set.
ExceedCompositeUnstamped(r, values) ==
  /\ Quiet(r, values)
  /\ ~OverThreshold(values)
  /\ OverComposite(values)
  /\ Decide(r, Observed(Known(r, values), values), "multi_metric")

ExceedComposite(r, values) ==
  /\ Quiet(r, values)
  /\ ~OverThreshold(values)
  /\ OverComposite(values)
  /\ Decide(r, [Observed(Known(r, values), values) EXCEPT !.exceeded = 0],
            "multi_metric")

Below(r, values) ==
  /\ Quiet(r, values)
  /\ ~OverThreshold(values)
  /\ ~OverComposite(values)

InAnomalyRetention(e) == AnomalyDetection /\ e.anomaly < Retention

InStandardRetention(e) == e.exceeded < Retention

RetainAnomaly(r, values) ==
  /\ Below(r, values)
  /\ InAnomalyRetention(Known(r, values))
  /\ Decide(r, Observed(Known(r, values), values), "anomaly_retention")

\* Mutant of RetainExceeded: being retained counts as being over a limit.
RetainExceededRenewed(r, values) ==
  /\ Below(r, values)
  /\ ~InAnomalyRetention(Known(r, values))
  /\ InStandardRetention(Known(r, values))
  /\ Decide(r, [Observed(Known(r, values), values) EXCEPT !.exceeded = 0],
            "standard_retention")

RetainExceeded(r, values) ==
  /\ Below(r, values)
  /\ ~InAnomalyRetention(Known(r, values))
  /\ InStandardRetention(Known(r, values))
  /\ Decide(r, Observed(Known(r, values), values), "standard_retention")

Unremarkable(r, values) ==
  /\ Below(r, values)
  /\ ~InAnomalyRetention(Known(r, values))
  /\ ~InStandardRetention(Known(r, values))

\* An entity that is tracked already is updated and dropped from the output.
ExcludeTracked(r, values) ==
  /\ tracked[r] # Absent
  /\ Unremarkable(r, values)
  /\ Decide(r, Observed(tracked[r], values), "excluded")

\* A new entity that passes no stage is not stored, unless debugging is on:
\* then it is stored and passes, this once.
ExcludeNew(r, values) ==
  /\ ~Debug
  /\ tracked[r] = Absent
  /\ Unremarkable(r, values)
  /\ Decide(r, Absent, "excluded")

IncludeForDebugging(r, values) ==
  /\ Debug
  /\ tracked[r] = Absent
  /\ Unremarkable(r, values)
  /\ Decide(r, Observed(Fresh(values), values), "debug_no_match")

\* shouldIncludeResource
Report(r, values) ==
  /\ r \in alive
  /\ \/ DefaultInclusion(r, values)
     \/ IncludeZombie(r, values)
     \/ IncludeListed(r, values)
     \/ DetectAnomaly(r, values)
     \/ ExceedThreshold(r, values)
     \/ ExceedComposite(r, values)
     \/ RetainAnomaly(r, values)
     \/ RetainExceeded(r, values)
     \/ ExcludeTracked(r, values)
     \/ ExcludeNew(r, values)
     \/ IncludeForDebugging(r, values)

-----------------------------------------------------------------------------
(* After one batch in a hundred, entities that exceeded nothing within the *)
(* window are removed; the age of their last anomaly is not looked at.     *)
\* Mutant of Expired: never for an entity without anomaly.
ExpiredAfterAnomaly(e) == e.exceeded = Never /\ e.anomaly < Never

Expired(e) == e.exceeded = Never

CleanupExpired ==
  /\ alive # {}
  /\ tracked' = [r \in Resource |->
       IF tracked[r] # Absent /\ Expired(tracked[r]) THEN Absent ELSE tracked[r]]
  /\ UNCHANGED <<dynamic, stage, alive>>

(* A batch that moves dynamic thresholds: the ones of the metrics it has   *)
(* gauge data for.                                                         *)
AdjustThresholds ==
  /\ Dynamic
  /\ alive # {}
  /\ \E M \in SUBSET Watched \ {{}} : \E new \in [M -> DynamicLevel] :
       dynamic' = [m \in M \cup DOMAIN dynamic |->
                     IF m \in M THEN new[m] ELSE dynamic[m]]
  /\ UNCHANGED <<tracked, stage, alive>>

(* Environment: a minute passes; a resource goes away for good.            *)
Aged(e) == [e EXCEPT !.exceeded = Older(@), !.anomaly = Older(@)]

Minute ==
  /\ tracked' = [r \in Resource |->
       IF tracked[r] = Absent THEN Absent ELSE Aged(tracked[r])]
  /\ UNCHANGED <<dynamic, stage, alive>>

Exit(r) ==
  /\ r \in alive
  /\ alive' = alive \ {r}
  /\ UNCHANGED <<tracked, dynamic, stage>>

Next ==
  \/ \E r \in Resource, values \in Samples : Report(r, values)
  \/ CleanupExpired
  \/ AdjustThresholds
  \/ Minute
  \/ \E r \in Resource : Exit(r)

Spec == Init /\ [][Next]_vars

-----------------------------------------------------------------------------
(* What the filter promises, in the terms of RetentionPolicy.              *)
AgeExceeded(e) == IF e = Absent THEN Never ELSE e.exceeded
AgeAnomaly(e) == IF e = Absent THEN Never ELSE e.anomaly

PolicyVerdict(s) ==
  CASE s \in ExceedStages -> "exceeded"
    [] s \in RetentionStages -> "retained"
    [] s = "anomaly_detection" -> "anomaly"
    [] s = "excluded" -> "dropped"
    [] s = "none" -> "none"
    [] OTHER -> "exempt"

ExceededAges == [r \in Resource |-> AgeExceeded(tracked[r])]
AnomalyAges == [r \in Resource |-> AgeAnomaly(tracked[r])]
Verdicts == [r \in Resource |-> PolicyVerdict(stage[r])]

Promised == INSTANCE RetentionPolicy WITH
  sinceExceeded <- ExceededAges, sinceAnomaly <- AnomalyAges, verdict <- Verdicts,
  CleanupForgets <- FALSE

Kept == INSTANCE RetentionPolicy WITH
  sinceExceeded <- ExceededAges, sinceAnomaly <- AnomalyAges, verdict <- Verdicts,
  CleanupForgets <- AnomalyDetection

\* What types.go:13 and 19 say of the two times of an entity: a resource that
\* exceeded a limit passes for a whole window, one that had an anomaly does
\* ("independent"), whatever is cleaned up or reported in between; retention does
\* not renew itself, and a resource is only dropped when both its windows are
\* over.  The filter keeps this as long as anomaly detection is off.
PolicyImplemented == Promised!Spec

\* What the filter keeps of it in every configuration.  With anomaly detection,
\* cleanupExpiredEntities (persistence.go:107) removes an entity that exceeded
\* no limit within the window however young its anomaly is: the window of the
\* anomaly can end early, at a clean-up and nowhere else, and never while the
\* window of an exceeded limit is open.
PolicyUpToCleanup == Kept!Spec

\* updateMetricHistory: no history outgrows anomaly_history_size, however many
\* reports, clean-ups and re-creations the entity goes through.
HistoryBounded ==
  \A r \in Resource : tracked[r] # Absent =>
    \A m \in Watched : Len(tracked[r].history[m]) <= HistorySize

\* evaluateNewEntity only tracks what passes: without debugging, an entity that
\* is tracked once exceeded a limit, so an anomaly (which needs the history of a
\* tracked entity) is never found on a resource that did not.
NoAnomalyWhenUntracked ==
  [][\A r \in Resource :
       stage'[r] = "anomaly_detection" /\ stage[r] # "anomaly_detection"
         => tracked[r] # Absent]_vars

\* The two limit stages are monotone: with larger values of the same metrics, a
\* report that was over a limit stays over one, whatever the thresholds have
\* moved to (a weighted metric without a threshold is divided by its own value).
\* Config.Validate does not look at weights; with a negative one this is not so.
NoNegativeWeight == \A m \in DOMAIN Weights : Weights[m] >= 0

HotterStaysOver ==
  NoNegativeWeight =>
    \A values \in Samples : OverThreshold(values) \/ OverComposite(values) =>
      \A hotter \in [DOMAIN values -> Level] :
        (\A m \in DOMAIN values : hotter[m] >= values[m])
          => OverThreshold(hotter) \/ OverComposite(hotter)
=============================================================================
