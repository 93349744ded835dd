---------------------------- MODULE FilterProofs ----------------------------
(***************************************************************************)
(* What EntityFilter guarantees for every configuration the processor      *)
(* accepts: its types, its bounded histories, that it implements           *)
(* RetentionPolicy, and that its limits are monotone.  And what survives   *)
(* restarts: ages that no failure makes younger, and, without failures,    *)
(* the retention policy.                                                   *)
(***************************************************************************)
EXTENDS PersistentFilter, FiniteSetTheorems, WellFoundedInduction, TLAPS

-----------------------------------------------------------------------------
(* The inductive invariant.  A sound entity is well typed, its histories fit *)
(* anomaly_history_size, and it remembers an anomaly only if detection is on *)
(* (without that last part a resource could be dropped inside the window of  *)
(* an anomaly nobody looks at).                                              *)
SoundEntity ==
  {e \in Entity : /\ \A m \in Watched : Len(e.history[m]) <= HistorySize
                  /\ ~AnomalyDetection => e.anomaly = Never}

SoundTable == tracked \in [Resource -> SoundEntity \cup {Absent}]

IInv == TypeOK /\ SoundTable

-----------------------------------------------------------------------------
(* Ages.                                                                     *)

\* Growing older stays within the range of ages.
LEMMA OlderType == ASSUME NEW a \in Age PROVE Older(a) \in Age
  BY ConfigAssumption, SMT DEF Older, Age, Never

\* Pushing a value keeps a history a sequence of levels within its size.
LEMMA PushSound ==
  ASSUME NEW h \in Seq(Level), NEW v \in Level, Len(h) <= HistorySize
  PROVE  Push(h, v) \in Seq(Level) /\ Len(Push(h, v)) <= HistorySize
<1> DEFINE longer == Append(h, v)
<1>1. longer \in Seq(Level) /\ Len(longer) = Len(h) + 1 /\ Len(h) \in Nat
  OBVIOUS
<1>2. CASE Len(longer) > HistorySize
  <2>1. Tail(longer) \in Seq(Level) /\ Len(Tail(longer)) = Len(h)
    BY <1>1, longer # <<>>
  <2> QED
    BY <1>2, <2>1 DEF Push
<1>3. CASE ~(Len(longer) > HistorySize)
  BY <1>1, <1>3, ConfigAssumption DEF Push
<1> QED
  BY <1>2, <1>3

\* What a report carries.
LEMMA SampleFacts ==
  ASSUME NEW values \in Samples
  PROVE  \A m \in DOMAIN values : values[m] \in Level
  BY DEF Samples

-----------------------------------------------------------------------------
(* The entity-building operators keep entities sound.                        *)

LEMMA FreshSound ==
  ASSUME NEW values \in Samples
  PROVE  Fresh(values) \in SoundEntity
<1>1. \A m \in DOMAIN values : values[m] \in Level
  BY SampleFacts
<1> DEFINE start == [m \in Watched |-> IF AnomalyDetection /\ m \in DOMAIN values
                                       THEN <<values[m]>> ELSE <<>>]
<1>2. \A m \in Watched : start[m] \in Seq(Level) /\ Len(start[m]) <= HistorySize
  BY <1>1, ConfigAssumption
<1>3. start \in [Watched -> Seq(Level)]
  BY <1>2
<1>4. Never \in Age
  BY ConfigAssumption, SMT DEF Never, Age
<1> QED
  BY <1>2, <1>3, <1>4 DEF Fresh, SoundEntity, Entity

LEMMA RecordedSound ==
  ASSUME NEW e \in SoundEntity, NEW values \in Samples,
         NEW visited \in SUBSET (DOMAIN values \cap Watched)
  PROVE  /\ Recorded(e, values, visited) \in SoundEntity
         /\ Recorded(e, values, visited).exceeded = e.exceeded
         /\ Recorded(e, values, visited).anomaly = e.anomaly
<1>1. CASE ~AnomalyDetection
  BY <1>1 DEF Recorded
<1>2. CASE AnomalyDetection
  <2> DEFINE later == [m \in Watched |-> IF m \in visited THEN Push(e.history[m], values[m])
                                                          ELSE e.history[m]]
  <2>1. e \in Entity /\ \A m \in Watched : e.history[m] \in Seq(Level) /\ Len(e.history[m]) <= HistorySize
    BY DEF SoundEntity, Entity
  <2>2. \A m \in Watched : later[m] \in Seq(Level) /\ Len(later[m]) <= HistorySize
    BY <2>1, SampleFacts, PushSound
  <2>3. later \in [Watched -> Seq(Level)]
    BY <2>2
  <2>4. Recorded(e, values, visited) = [e EXCEPT !.history = later]
    BY <1>2 DEF Recorded
  <2> HIDE DEF later
  <2> QED
    BY <1>2, <2>1, <2>2, <2>3, <2>4 DEF SoundEntity, Entity
<1> QED
  BY <1>1, <1>2

LEMMA KnownSound ==
  ASSUME IInv, NEW r \in Resource, NEW values \in Samples
  PROVE  /\ Known(r, values) \in SoundEntity
         /\ Known(r, values).exceeded = AgeExceeded(tracked[r])
         /\ Known(r, values).anomaly = AgeAnomaly(tracked[r])
  BY FreshSound DEF IInv, SoundTable, Known, Fresh, AgeExceeded, AgeAnomaly

LEMMA ObservedSound ==
  ASSUME NEW e \in SoundEntity, NEW values \in Samples
  PROVE  /\ Observed(e, values) \in SoundEntity
         /\ Observed(e, values).exceeded = e.exceeded
         /\ Observed(e, values).anomaly = e.anomaly
  BY RecordedSound DEF Observed

\* An entity whose limit was just exceeded stays sound.
LEMMA ExceededSound ==
  ASSUME NEW e \in SoundEntity
  PROVE  /\ [e EXCEPT !.exceeded = 0] \in SoundEntity
         /\ [e EXCEPT !.exceeded = 0].exceeded = 0
         /\ [e EXCEPT !.exceeded = 0].anomaly = e.anomaly
<1>1. 0 \in Age
  BY ConfigAssumption, SMT DEF Age, Never
<1> QED
  BY <1>1 DEF SoundEntity, Entity

LEMMA SpikedSound ==
  ASSUME NEW e \in SoundEntity, AnomalyDetection
  PROVE  /\ [e EXCEPT !.anomaly = 0] \in SoundEntity
         /\ [e EXCEPT !.anomaly = 0].anomaly = 0
         /\ [e EXCEPT !.anomaly = 0].exceeded = e.exceeded
<1>1. 0 \in Age
  BY ConfigAssumption, SMT DEF Age, Never
<1> QED
  BY <1>1 DEF SoundEntity, Entity

LEMMA UpsertedSound ==
  ASSUME IInv, NEW r \in Resource
  PROVE  /\ Upserted(r) \in SoundEntity
         /\ Upserted(r).exceeded = 0
         /\ Upserted(r).anomaly = AgeAnomaly(tracked[r])
<1>1. CASE tracked[r] = Absent
  <2>1. {0, Never} \subseteq Age
    BY ConfigAssumption, SMT DEF Age, Never
  <2>2. [m \in Watched |-> <<>>] \in [Watched -> Seq(Level)]
    OBVIOUS
  <2> QED
    BY <1>1, <2>1, <2>2, ConfigAssumption
    DEF Upserted, SoundEntity, Entity, AgeAnomaly
<1>2. CASE tracked[r] # Absent
  <2>1. tracked[r] \in SoundEntity
    BY <1>2 DEF IInv, SoundTable
  <2> QED
    BY <1>2, <2>1, ExceededSound DEF Upserted, AgeAnomaly
<1> QED
  BY <1>1, <1>2

LEMMA AgedSound ==
  ASSUME NEW e \in SoundEntity
  PROVE  /\ Aged(e) \in SoundEntity
         /\ Aged(e).exceeded = Older(e.exceeded)
         /\ Aged(e).anomaly = Older(e.anomaly)
<1>1. e \in Entity /\ Older(e.exceeded) \in Age /\ Older(e.anomaly) \in Age
  BY OlderType DEF SoundEntity, Entity
<1>2. ~AnomalyDetection => Older(e.anomaly) = Never
  BY ConfigAssumption DEF SoundEntity, Older, Never
<1> QED
  BY <1>1, <1>2 DEF Aged, SoundEntity, Entity

\* A sound entity is never the absent one.
LEMMA SoundPresent == Absent \notin SoundEntity
  BY AbsentAssumption DEF SoundEntity

\* What a fresh entity has seen is too short to be a baseline.
LEMMA NoSpikeWhenFresh ==
  ASSUME NEW values \in Samples
  PROVE  Spikes(Fresh(values), values) = {}
<1>1. \A m \in Watched : Len(Fresh(values).history[m]) <= 1
  BY DEF Fresh
<1>2. \A m \in Watched : Len(Fresh(values).history[m]) < MinDataPoints
  BY <1>1, ConfigAssumption, FreshSound DEF SoundEntity, Entity
<1> QED
  BY <1>2, ConfigAssumption, FreshSound DEF Spikes, IsSpike, SoundEntity, Entity

-----------------------------------------------------------------------------
(* One report.  Outcome says what a verdict does to the two ages; both the   *)
(* invariant and the refinement follow from it.                              *)
SameAges(r, e) ==
  /\ AgeExceeded(e) = AgeExceeded(tracked[r])
  /\ AgeAnomaly(e) = AgeAnomaly(tracked[r])

Outcome(r, e, s) ==
  \/ /\ s \in ExceedStages
     /\ AgeExceeded(e) = 0
     /\ AgeAnomaly(e) = AgeAnomaly(tracked[r])
  \/ /\ s = "anomaly_detection"
     /\ tracked[r] # Absent
     /\ AgeExceeded(e) = AgeExceeded(tracked[r])
     /\ AgeAnomaly(e) = 0
  \/ /\ s \in RetentionStages
     /\ SameAges(r, e)
     /\ \/ AgeExceeded(tracked[r]) < Retention
        \/ AgeAnomaly(tracked[r]) < Retention
  \/ /\ s = "excluded"
     /\ SameAges(r, e)
     /\ AgeExceeded(tracked[r]) >= Retention
     /\ AgeAnomaly(tracked[r]) >= Retention
  \/ /\ s \in {"default_inclusion", "debug_no_match"}
     /\ SameAges(r, e)

LEMMA ReportOutcome ==
  ASSUME IInv, NEW r \in Resource, NEW values \in Samples, Report(r, values)
  PROVE  \E e \in SoundEntity \cup {Absent}, s \in Stage \ {"none"} :
           Decide(r, e, s) /\ Outcome(r, e, s)
<1> DEFINE k == Known(r, values)
           o == Observed(k, values)
<1>0. /\ k \in SoundEntity
      /\ k.exceeded = AgeExceeded(tracked[r])
      /\ k.anomaly = AgeAnomaly(tracked[r])
  BY KnownSound
<1>1. /\ o \in SoundEntity
      /\ o.exceeded = AgeExceeded(tracked[r])
      /\ o.anomaly = AgeAnomaly(tracked[r])
  BY <1>0, ObservedSound
<1>2. \A e \in SoundEntity : AgeExceeded(e) = e.exceeded /\ AgeAnomaly(e) = e.anomaly
  BY SoundPresent DEF AgeExceeded, AgeAnomaly
<1>3. AgeExceeded(tracked[r]) \in Age /\ AgeAnomaly(tracked[r]) \in Age
  BY <1>0 DEF SoundEntity, Entity
<1>4. [o EXCEPT !.exceeded = 0] \in SoundEntity
      /\ [o EXCEPT !.exceeded = 0].exceeded = 0
      /\ [o EXCEPT !.exceeded = 0].anomaly = AgeAnomaly(tracked[r])
  BY <1>1, ExceededSound
<1>5. ~InAnomalyRetention(k) => AgeAnomaly(tracked[r]) >= Retention
  BY <1>0, <1>3, ConfigAssumption
  DEF InAnomalyRetention, SoundEntity, Never, Age
<1>6. ~InStandardRetention(k) => AgeExceeded(tracked[r]) >= Retention
  BY <1>0, <1>3, ConfigAssumption DEF InStandardRetention, Never, Age
<1> HIDE DEF k, o
<1>7. CASE DefaultInclusion(r, values)
  <2>1. tracked[r] \in SoundEntity \cup {Absent}
    BY DEF IInv, SoundTable
  <2> QED
    BY <1>7, <2>1 DEF DefaultInclusion, Outcome, SameAges, Stage
<1>8. CASE IncludeZombie(r, values)
  <2>1. Upserted(r) \in SoundEntity /\ Outcome(r, Upserted(r), "zombie_process")
    BY <1>2, UpsertedSound DEF Outcome, ExceedStages
  <2> QED
    BY <1>8, <2>1 DEF IncludeZombie, Stage, ExceedStages
<1>9. CASE IncludeListed(r, values)
  <2>1. Upserted(r) \in SoundEntity /\ Outcome(r, Upserted(r), "include_list")
    BY <1>2, UpsertedSound DEF Outcome, ExceedStages
  <2> QED
    BY <1>9, <2>1 DEF IncludeListed, Stage, ExceedStages
<1>10. CASE DetectAnomaly(r, values)
  <2>1. Spikes(k, values) # {} /\ AnomalyDetection
    BY <1>10 DEF DetectAnomaly, Spikes, k
  <2>2. tracked[r] # Absent
    BY <2>1, NoSpikeWhenFresh DEF Known, k
  <2>3. PICK visited \in VisitedUpTo(k, values) :
          Decide(r, [Recorded(k, values, visited) EXCEPT !.anomaly = 0], "anomaly_detection")
    BY <1>10 DEF DetectAnomaly, k
  <2> DEFINE e == [Recorded(k, values, visited) EXCEPT !.anomaly = 0]
  <2>4. visited \in SUBSET (DOMAIN values \cap Watched)
    BY DEF VisitedUpTo
  <2>5. e \in SoundEntity /\ e.exceeded = AgeExceeded(tracked[r]) /\ e.anomaly = 0
    BY <1>0, <2>1, <2>4, RecordedSound, SpikedSound
  <2> HIDE DEF e
  <2>6. Outcome(r, e, "anomaly_detection")
    BY <1>2, <2>2, <2>5 DEF Outcome
  <2> QED
    BY <2>3, <2>5, <2>6 DEF e, Stage
<1>11. CASE ExceedThreshold(r, values)
  <2>1. Decide(r, [o EXCEPT !.exceeded = 0], ThresholdStage)
    BY <1>11 DEF ExceedThreshold, o, k
  <2>2. ThresholdStage \in ExceedStages
    BY DEF ThresholdStage, ExceedStages
  <2>3. Outcome(r, [o EXCEPT !.exceeded = 0], ThresholdStage)
    BY <1>2, <1>4, <2>2 DEF Outcome
  <2> QED
    BY <1>4, <2>1, <2>2, <2>3 DEF Stage, ExceedStages
<1>12. CASE ExceedComposite(r, values)
  <2>1. Decide(r, [o EXCEPT !.exceeded = 0], "multi_metric")
    BY <1>12 DEF ExceedComposite, o, k
  <2>2. Outcome(r, [o EXCEPT !.exceeded = 0], "multi_metric")
    BY <1>2, <1>4 DEF Outcome, ExceedStages
  <2> QED
    BY <1>4, <2>1, <2>2 DEF Stage, ExceedStages
<1>13. CASE RetainAnomaly(r, values)
  <2>1. Decide(r, o, "anomaly_retention") /\ InAnomalyRetention(k)
    BY <1>13 DEF RetainAnomaly, o, k
  <2>2. Outcome(r, o, "anomaly_retention")
    BY <1>0, <1>1, <1>2, <2>1 DEF Outcome, SameAges, RetentionStages, InAnomalyRetention
  <2> QED
    BY <1>1, <2>1, <2>2 DEF Stage, RetentionStages
<1>14. CASE RetainExceeded(r, values)
  <2>1. Decide(r, o, "standard_retention") /\ InStandardRetention(k)
    BY <1>14 DEF RetainExceeded, o, k
  <2>2. Outcome(r, o, "standard_retention")
    BY <1>0, <1>1, <1>2, <2>1 DEF Outcome, SameAges, RetentionStages, InStandardRetention
  <2> QED
    BY <1>1, <2>1, <2>2 DEF Stage, RetentionStages
<1>15. CASE ExcludeTracked(r, values)
  <2>1. /\ Decide(r, o, "excluded")
        /\ ~InAnomalyRetention(k) /\ ~InStandardRetention(k)
    BY <1>15 DEF ExcludeTracked, Unremarkable, Known, o, k
  <2>2. Outcome(r, o, "excluded")
    BY <1>1, <1>2, <1>5, <1>6, <2>1 DEF Outcome, SameAges
  <2> QED
    BY <1>1, <2>1, <2>2 DEF Stage
<1>16. CASE ExcludeNew(r, values)
  <2>1. /\ Decide(r, Absent, "excluded")
        /\ tracked[r] = Absent
        /\ ~InAnomalyRetention(k) /\ ~InStandardRetention(k)
    BY <1>16 DEF ExcludeNew, Unremarkable, k
  <2>2. Outcome(r, Absent, "excluded")
    BY <1>5, <1>6, <2>1 DEF Outcome, SameAges
  <2> QED
    BY <2>1, <2>2 DEF Stage
<1>17. CASE IncludeForDebugging(r, values)
  <2>1. Decide(r, o, "debug_no_match")
    BY <1>17 DEF IncludeForDebugging, Known, o, k
  <2>2. Outcome(r, o, "debug_no_match")
    BY <1>1, <1>2 DEF Outcome, SameAges
  <2> QED
    BY <1>1, <2>1, <2>2 DEF Stage
<1> QED
  BY <1>7, <1>8, <1>9, <1>10, <1>11, <1>12, <1>13, <1>14, <1>15, <1>16, <1>17
  DEF Report

-----------------------------------------------------------------------------
(* The invariant.                                                            *)

LEMMA DecideKeepsInv ==
  ASSUME IInv, NEW r \in Resource, NEW e \in SoundEntity \cup {Absent},
         NEW s \in Stage, Decide(r, e, s)
  PROVE  IInv'
<1>1. SoundTable'
  BY DEF IInv, SoundTable, Decide
<1>2. TypeOK'
  BY <1>1 DEF IInv, TypeOK, SoundTable, SoundEntity, Decide
<1> QED
  BY <1>1, <1>2 DEF IInv

LEMMA InitInv == Init => IInv
<1> SUFFICES ASSUME Init PROVE IInv
  OBVIOUS
<1>1. SoundTable
  BY DEF Init, SoundTable
<1>2. DOMAIN dynamic \subseteq Watched /\ \A m \in DOMAIN dynamic : dynamic[m] \in Nat
  BY ConfigAssumption DEF Init, Restrict
<1> QED
  BY <1>1, <1>2 DEF Init, IInv, TypeOK, Stage

LEMMA NextInv == IInv /\ [Next]_vars => IInv'
<1> SUFFICES ASSUME IInv, [Next]_vars PROVE IInv'
  OBVIOUS
<1>1. ASSUME NEW r \in Resource, NEW values \in Samples, Report(r, values)
      PROVE  IInv'
  BY <1>1, ReportOutcome, DecideKeepsInv
<1>2. CASE CleanupExpired
  <2>1. SoundTable'
    BY <1>2 DEF CleanupExpired, IInv, SoundTable
  <2> QED
    BY <1>2, <2>1 DEF CleanupExpired, IInv, TypeOK, SoundTable, SoundEntity
<1>3. CASE AdjustThresholds
  <2>1. PICK M \in SUBSET Watched \ {{}} : \E new \in [M -> DynamicLevel] :
               dynamic' = [m \in M \cup DOMAIN dynamic |->
                             IF m \in M THEN new[m] ELSE dynamic[m]]
    BY <1>3 DEF AdjustThresholds
  <2>2. PICK new \in [M -> DynamicLevel] :
               dynamic' = [m \in M \cup DOMAIN dynamic |->
                             IF m \in M THEN new[m] ELSE dynamic[m]]
    BY <2>1
  <2>3. DOMAIN dynamic' \subseteq Watched
        /\ \A m \in DOMAIN dynamic' : dynamic'[m] \in Nat
    BY <2>2, ConfigAssumption DEF IInv, TypeOK
  <2> QED
    BY <1>3, <2>3 DEF AdjustThresholds, IInv, TypeOK, SoundTable
<1>4. CASE Minute
  <2>1. SoundTable'
    BY <1>4, AgedSound DEF Minute, IInv, SoundTable
  <2> QED
    BY <1>4, <2>1 DEF Minute, IInv, TypeOK, SoundTable, SoundEntity
<1>5. ASSUME NEW r \in Resource, Exit(r) PROVE IInv'
  BY <1>5 DEF Exit, IInv, TypeOK, SoundTable
<1>6. CASE UNCHANGED vars
  BY <1>6 DEF vars, IInv, TypeOK, SoundTable
<1> QED
  BY <1>1, <1>2, <1>3, <1>4, <1>5, <1>6 DEF Next

LEMMA AlwaysInv == Spec => []IInv
  BY InitInv, NextInv, PTL DEF Spec

\* The filter keeps its table, its dynamic thresholds and its Verdicts well
\* typed whatever is reported, cleaned up or adjusted.
THEOREM TypeCorrect == Spec => []TypeOK
<1>1. IInv => TypeOK
  BY DEF IInv
<1> QED
  BY <1>1, AlwaysInv, PTL

\* updateMetricHistory: no history outgrows anomaly_history_size, for every
\* size and every set of metrics.
THEOREM HistoriesBounded == Spec => []HistoryBounded
<1>1. IInv => HistoryBounded
  BY DEF IInv, SoundTable, SoundEntity, HistoryBounded
<1> QED
  BY <1>1, AlwaysInv, PTL

\* evaluateNewEntity: an anomaly is only ever found on a resource that is
\* tracked already.
THEOREM AnomalyNeedsTracking == Spec => NoAnomalyWhenUntracked
<1> DEFINE Found(r) == stage'[r] = "anomaly_detection" /\ stage[r] # "anomaly_detection"
<1>1. ASSUME IInv, [Next]_vars, NEW r \in Resource, Found(r)
      PROVE  tracked[r] # Absent
  <2>1. PICK q \in Resource, values \in Samples : Report(q, values)
    BY <1>1 DEF Next, CleanupExpired, AdjustThresholds, Minute, Exit, vars
  <2>2. PICK e \in SoundEntity \cup {Absent}, s \in Stage \ {"none"} :
          Decide(q, e, s) /\ Outcome(q, e, s)
    BY <1>1, <2>1, ReportOutcome
  <2>3. stage \in [Resource -> Stage]
    BY <1>1 DEF IInv, TypeOK
  <2>4. q = r /\ s = "anomaly_detection"
    BY <1>1, <2>2, <2>3 DEF Decide
  <2> QED
    BY <2>2, <2>4 DEF Outcome, ExceedStages, RetentionStages
<1>2. IInv /\ [Next]_vars => \A r \in Resource : Found(r) => tracked[r] # Absent
  BY <1>1
<1>3. IInv /\ [Next]_vars => [\A r \in Resource : Found(r) => tracked[r] # Absent]_vars
  BY <1>2
<1> QED
  BY <1>3, AlwaysInv, PTL DEF Spec, NoAnomalyWhenUntracked

-----------------------------------------------------------------------------
(* The refinement: initial states map to initial states, and every step maps *)
(* to a step of the policy or leaves it alone.                               *)

\* What one decision changes, seen by the policy.
LEMMA DecideMapped ==
  ASSUME IInv, NEW r \in Resource, NEW e \in SoundEntity \cup {Absent},
         NEW s \in Stage, Decide(r, e, s)
  PROVE  /\ ExceededAges' = [ExceededAges EXCEPT ![r] = AgeExceeded(e)]
         /\ AnomalyAges' = [AnomalyAges EXCEPT ![r] = AgeAnomaly(e)]
         /\ Verdicts' = [Verdicts EXCEPT ![r] = PolicyVerdict(s)]
<1>1. tracked' = [tracked EXCEPT ![r] = e] /\ tracked \in [Resource -> SoundEntity \cup {Absent}]
  BY DEF Decide, IInv, SoundTable
<1>2. stage' = [stage EXCEPT ![r] = s] /\ stage \in [Resource -> Stage]
  BY DEF Decide, IInv, TypeOK
<1>3. /\ ExceededAges' = [q \in Resource |-> IF q = r THEN AgeExceeded(e) ELSE AgeExceeded(tracked[q])]
      /\ AnomalyAges' = [q \in Resource |-> IF q = r THEN AgeAnomaly(e) ELSE AgeAnomaly(tracked[q])]
  BY <1>1 DEF ExceededAges, AnomalyAges, AgeExceeded, AgeAnomaly
<1>4. Verdicts' = [q \in Resource |-> IF q = r THEN PolicyVerdict(s) ELSE PolicyVerdict(stage[q])]
  BY <1>2 DEF Verdicts, PolicyVerdict
<1> QED
  BY <1>3, <1>4 DEF ExceededAges, AnomalyAges, Verdicts

LEMMA InitMapped == Init => Kept!Init /\ Promised!Init
<1> SUFFICES ASSUME Init PROVE Kept!Init /\ Promised!Init
  OBVIOUS
<1>1. PolicyVerdict("none") = "none"
  BY DEF PolicyVerdict, ExceedStages, RetentionStages
<1> QED
  BY <1>1 DEF Init, Kept!Init, Promised!Init, ExceededAges, AnomalyAges, Verdicts,
     AgeExceeded, AgeAnomaly, Never, Kept!Never, Promised!Never

\* A report maps to the step of the policy its outcome names.
LEMMA ReportMapped ==
  ASSUME IInv, NEW r \in Resource, NEW values \in Samples, Report(r, values)
  PROVE  Kept!Next
<1>1. PICK e \in SoundEntity \cup {Absent}, s \in Stage \ {"none"} :
        Decide(r, e, s) /\ Outcome(r, e, s)
  BY ReportOutcome
<1>2. /\ ExceededAges' = [ExceededAges EXCEPT ![r] = AgeExceeded(e)]
      /\ AnomalyAges' = [AnomalyAges EXCEPT ![r] = AgeAnomaly(e)]
      /\ Verdicts' = [Verdicts EXCEPT ![r] = PolicyVerdict(s)]
  BY <1>1, DecideMapped
<1>3. /\ ExceededAges[r] = AgeExceeded(tracked[r])
      /\ AnomalyAges[r] = AgeAnomaly(tracked[r])
  BY DEF ExceededAges, AnomalyAges
<1>4. /\ AgeExceeded(e) = AgeExceeded(tracked[r]) => ExceededAges' = ExceededAges
      /\ AgeAnomaly(e) = AgeAnomaly(tracked[r]) => AnomalyAges' = AnomalyAges
  BY <1>2, <1>3 DEF ExceededAges, AnomalyAges
<1>5. CASE s \in ExceedStages
  <2>1. PolicyVerdict(s) = "exceeded"
    BY <1>5 DEF PolicyVerdict, ExceedStages, RetentionStages
  <2>2. AgeExceeded(e) = 0 /\ AgeAnomaly(e) = AgeAnomaly(tracked[r])
    BY <1>1, <1>5 DEF Outcome, ExceedStages, RetentionStages
  <2>3. Kept!Exceed(r)
    BY <1>2, <1>4, <2>1, <2>2
    DEF Kept!Exceed, Kept!Judge, ExceededAges, AnomalyAges, Verdicts
  <2> QED
    BY <2>3 DEF Kept!Next
<1>6. CASE s = "anomaly_detection"
  <2>1. PolicyVerdict(s) = "anomaly"
    BY <1>6 DEF PolicyVerdict, ExceedStages, RetentionStages
  <2>2. AgeExceeded(e) = AgeExceeded(tracked[r]) /\ AgeAnomaly(e) = 0
    BY <1>1, <1>6 DEF Outcome, ExceedStages, RetentionStages
  <2>3. Kept!Spike(r)
    BY <1>2, <1>4, <2>1, <2>2
    DEF Kept!Spike, Kept!Judge, ExceededAges, AnomalyAges, Verdicts
  <2> QED
    BY <2>3 DEF Kept!Next
<1>7. CASE s \in RetentionStages
  <2>1. PolicyVerdict(s) = "retained"
    BY <1>7 DEF PolicyVerdict, ExceedStages, RetentionStages
  <2>2. /\ SameAges(r, e)
        /\ ExceededAges[r] < Retention \/ AnomalyAges[r] < Retention
    BY <1>1, <1>3, <1>7 DEF Outcome, ExceedStages, RetentionStages
  <2>3. Kept!Retain(r)
    BY <1>2, <1>4, <2>1, <2>2
    DEF Kept!Retain, Kept!Judge, SameAges, ExceededAges, AnomalyAges, Verdicts
  <2> QED
    BY <2>3 DEF Kept!Next
<1>8. CASE s = "excluded"
  <2>1. PolicyVerdict(s) = "dropped"
    BY <1>8 DEF PolicyVerdict, ExceedStages, RetentionStages
  <2>2. /\ SameAges(r, e)
        /\ ExceededAges[r] >= Retention /\ AnomalyAges[r] >= Retention
    BY <1>1, <1>3, <1>8 DEF Outcome, ExceedStages, RetentionStages
  <2>3. Kept!Drop(r)
    BY <1>2, <1>4, <2>1, <2>2
    DEF Kept!Drop, Kept!Judge, SameAges, ExceededAges, AnomalyAges, Verdicts
  <2> QED
    BY <2>3 DEF Kept!Next
<1>9. CASE s \in {"default_inclusion", "debug_no_match"}
  <2>1. PolicyVerdict(s) = "exempt"
    BY <1>9 DEF PolicyVerdict, ExceedStages, RetentionStages
  <2>2. SameAges(r, e)
    BY <1>1, <1>9 DEF Outcome, ExceedStages, RetentionStages
  <2>3. Kept!Exempt(r)
    BY <1>2, <1>4, <2>1, <2>2
    DEF Kept!Exempt, Kept!Judge, SameAges, ExceededAges, AnomalyAges, Verdicts
  <2> QED
    BY <2>3 DEF Kept!Next
<1> QED
  BY <1>5, <1>6, <1>7, <1>8, <1>9 DEF Stage

\* Removing entities forgets anomalies, and only of resources that exceeded
\* nothing within the window; without detection there are none to forget.
LEMMA CleanupMapped == IInv /\ CleanupExpired => [Kept!Next]_Kept!policyVars
<1> SUFFICES ASSUME IInv, CleanupExpired PROVE [Kept!Next]_Kept!policyVars
  OBVIOUS
<1> DEFINE S == {r \in Resource : tracked[r] # Absent /\ Expired(tracked[r])}
<1>1. tracked' = [r \in Resource |-> IF r \in S THEN Absent ELSE tracked[r]]
      /\ stage' = stage
  BY DEF CleanupExpired
<1>2. \A r \in S : AgeExceeded(tracked[r]) = Never
  BY DEF Expired, AgeExceeded
<1>3. S \in SUBSET {r \in Resource : ExceededAges[r] = Kept!Never}
  BY <1>2 DEF ExceededAges, Never, Kept!Never
<1>4. \A r \in S : tracked[r] \in SoundEntity
  BY DEF IInv, SoundTable
<1> HIDE DEF S
<1>5. ExceededAges' = ExceededAges /\ Verdicts' = Verdicts
  BY <1>1, <1>2 DEF ExceededAges, Verdicts, AgeExceeded, PolicyVerdict
<1>6. AnomalyAges' = [r \in Resource |-> IF r \in S THEN Kept!Never ELSE AnomalyAges[r]]
  BY <1>1 DEF AnomalyAges, AgeAnomaly, Never, Kept!Never
<1>7. CASE AnomalyDetection
  <2>1. Kept!Forget
    BY <1>3, <1>5, <1>6, <1>7 DEF Kept!Forget
  <2> QED
    BY <2>1 DEF Kept!Next
<1>8. CASE ~AnomalyDetection
  <2>1. \A r \in S : AnomalyAges[r] = Kept!Never
    BY <1>3, <1>4, <1>8, SoundPresent
    DEF SoundEntity, AnomalyAges, AgeAnomaly, Never, Kept!Never
  <2>2. AnomalyAges' = AnomalyAges
    BY <1>6, <2>1 DEF AnomalyAges
  <2> QED
    BY <1>5, <2>2 DEF Kept!policyVars
<1> QED
  BY <1>7, <1>8

LEMMA MinuteMapped == IInv /\ Minute => Kept!Next
<1> SUFFICES ASSUME IInv, Minute PROVE Kept!Next
  OBVIOUS
<1>1. \A r \in Resource :
        /\ AgeExceeded(tracked'[r]) = Older(AgeExceeded(tracked[r]))
        /\ AgeAnomaly(tracked'[r]) = Older(AgeAnomaly(tracked[r]))
  <2> TAKE r \in Resource
  <2>1. CASE tracked[r] = Absent
    BY <2>1, ConfigAssumption, SMT DEF Minute, AgeExceeded, AgeAnomaly, Older, Never
  <2>2. CASE tracked[r] # Absent
    <3>1. tracked[r] \in SoundEntity /\ tracked'[r] = Aged(tracked[r])
      BY <2>2 DEF Minute, IInv, SoundTable
    <3> QED
      BY <2>2, <3>1, AgedSound, SoundPresent DEF AgeExceeded, AgeAnomaly
  <2> QED
    BY <2>1, <2>2
<1>2. \A a : Older(a) = Kept!Older(a)
  BY DEF Older, Never, Kept!Older, Kept!Never
<1>3. Kept!Minute
  BY <1>1, <1>2 DEF Minute, Kept!Minute, ExceededAges, AnomalyAges, Verdicts
<1> QED
  BY <1>3 DEF Kept!Next

\* Every step of the filter maps to a step of the policy with its exception, or
\* leaves what the policy speaks of alone.
LEMMA FilterStepMapped ==
  ASSUME IInv, [Next]_vars
  PROVE  [Kept!Next]_Kept!policyVars
<1>1. ASSUME NEW r \in Resource, NEW values \in Samples, Report(r, values)
      PROVE  Kept!Next
  BY <1>1, ReportMapped
<1>2. CASE CleanupExpired
  BY <1>2, CleanupMapped
<1>3. CASE AdjustThresholds
  BY <1>3 DEF AdjustThresholds, Kept!policyVars, ExceededAges, AnomalyAges, Verdicts
<1>4. CASE Minute
  BY <1>4, MinuteMapped
<1>5. ASSUME NEW r \in Resource, Exit(r) PROVE UNCHANGED Kept!policyVars
  BY <1>5 DEF Exit, Kept!policyVars, ExceededAges, AnomalyAges, Verdicts
<1>6. CASE UNCHANGED vars
  BY <1>6 DEF vars, Kept!policyVars, ExceededAges, AnomalyAges, Verdicts
<1> QED
  BY <1>1, <1>2, <1>3, <1>4, <1>5, <1>6 DEF Next

\* Without detection the exception allows nothing.
LEMMA KeptIsPromised ==
  ASSUME ~AnomalyDetection, [Kept!Next]_Kept!policyVars
  PROVE  [Promised!Next]_Promised!policyVars
<1>1. CASE Kept!Next
  BY <1>1
  DEF Kept!Next, Kept!Exceed, Kept!Spike, Kept!Retain, Kept!Drop, Kept!Exempt,
      Kept!Forget, Kept!Minute, Kept!Judge, Kept!Older, Kept!Never, Promised!Next,
      Promised!Exceed, Promised!Spike, Promised!Retain, Promised!Drop,
      Promised!Exempt, Promised!Minute, Promised!Judge, Promised!Older,
      Promised!Never
<1>2. CASE UNCHANGED Kept!policyVars
  BY <1>2 DEF Kept!policyVars, Promised!policyVars
<1> QED
  BY <1>1, <1>2

\* With anomaly detection off, whatever else is configured, the filter implements
\* the retention policy of types.go:13 without any exception: what exceeded a
\* limit passes for the whole window, retention does not renew itself, and only
\* what is outside the window is dropped.
THEOREM FilterImplementsPolicy ==
  ASSUME ~AnomalyDetection PROVE Spec => PolicyImplemented
<1>1. IInv /\ [Next]_vars => [Promised!Next]_Promised!policyVars
  BY FilterStepMapped, KeptIsPromised
<1> QED
  BY <1>1, InitMapped, AlwaysInv, PTL DEF Spec, PolicyImplemented, Promised!Spec

\* In every configuration the filter implements the policy with one exception: a
\* clean-up (persistence.go:107) may end the window of an anomaly of a resource
\* that exceeded no limit within the window.
THEOREM FilterKeepsUpToCleanup == Spec => PolicyUpToCleanup
<1>1. IInv /\ [Next]_vars => [Kept!Next]_Kept!policyVars
  BY FilterStepMapped
<1> QED
  BY <1>1, InitMapped, AlwaysInv, PTL DEF Spec, PolicyUpToCleanup, Kept!Spec

-----------------------------------------------------------------------------
(* Sums and products over the metrics of a report.  Induction is by the     *)
(* least counterexample.                                                    *)
LEMMA LeastNatural ==
  ASSUME NEW B \in SUBSET Nat, B # {}
  PROVE  \E n \in B : \A m \in B : n <= m
<1>1. \E n \in B : \A m \in B : ~(<<m, n>> \in OpToRel(<, Nat))
  BY NatLessThanWellFounded, WFMin
<1>2. PICK n \in B : \A m \in B : ~(<<m, n>> \in {ss \in Nat \X Nat : ss[1] < ss[2]})
  BY <1>1 DEF OpToRel
<1>3. ASSUME NEW m \in B PROVE n <= m
  <2>1. m \in Nat /\ n \in Nat /\ <<m, n>> \in Nat \X Nat
    OBVIOUS
  <2>2. ~(m < n)
    BY <1>2, <2>1
  <2> QED
    BY <2>1, <2>2
<1> QED
  BY <1>3

\* Of some subsets of a finite set one has no other within.
LEMMA LeastSubset ==
  ASSUME NEW D, IsFiniteSet(D), NEW B \in SUBSET SUBSET D, B # {}
  PROVE  \E T \in B : \A U \in B : U \subseteq T => U = T
<1> DEFINE Sizes == {Cardinality(T) : T \in B}
<1>1. \A T \in B : IsFiniteSet(T) /\ Cardinality(T) \in Nat
  BY FS_Subset, FS_CardinalityType
<1>2. Sizes \subseteq Nat /\ Sizes # {}
  BY <1>1
<1>3. \E n \in Sizes : \A m \in Sizes : n <= m
  <2> HIDE DEF Sizes
  <2> QED
    BY <1>2, LeastNatural
<1>4. PICK T \in B : \A U \in B : Cardinality(T) <= Cardinality(U)
  BY <1>3
<1>5. ASSUME NEW U \in B, U \subseteq T PROVE U = T
  BY <1>1, <1>4, <1>5, FS_Subset
<1> QED
  BY <1>5

\* The element a fold takes next
Chosen(S) == CHOOSE x \in S : TRUE

LEMMA ChosenIs == ASSUME NEW S, S # {} PROVE Chosen(S) \in S
BY DEF Chosen

(* A fold with op, which is a function here: one proof does for sums and    *)
(* products.                                                                *)
FoldStep(op, base, f, N, s) == IF s = {} THEN base ELSE op[<<f[Chosen(s)], N[s \ {Chosen(s)}]>>]
Folding(op, base, f, N) == N = [s \in SUBSET DOMAIN f |-> FoldStep(op, base, f, N, s)]

LEMMA FoldStepType ==
  ASSUME NEW D, NEW f \in [D -> Nat], NEW op \in [Nat \X Nat -> Nat], NEW base \in Nat,
         NEW N \in [SUBSET D -> Nat], NEW s \in SUBSET D
  PROVE  FoldStep(op, base, f, N, s) \in Nat
<1>1. CASE s # {}
  <2>1. f[Chosen(s)] \in Nat /\ N[s \ {Chosen(s)}] \in Nat
    BY <1>1, ChosenIs
  <2> QED
    BY <1>1, <2>1 DEF FoldStep
<1> QED
  BY <1>1 DEF FoldStep

LEMMA FoldExists ==
  ASSUME NEW D, IsFiniteSet(D), NEW f \in [D -> Nat], NEW op \in [Nat \X Nat -> Nat], NEW base \in Nat
  PROVE  \E N \in [SUBSET D -> Nat] : Folding(op, base, f, N)
<1> DEFINE Right(n) == \E N \in [SUBSET D -> Nat] : \A s \in SUBSET D :
                         Cardinality(s) < n => N[s] = FoldStep(op, base, f, N, s)
           Wrong == {n \in Nat : ~Right(n)}
<1>1. \A s \in SUBSET D : IsFiniteSet(s) /\ Cardinality(s) \in Nat /\ Cardinality(s) <= Cardinality(D)
  BY FS_Subset, FS_CardinalityType
<1>2. Right(0)
  <2>1. [s \in SUBSET D |-> 0] \in [SUBSET D -> Nat]
    OBVIOUS
  <2>2. \A s \in SUBSET D : ~(Cardinality(s) < 0)
    BY <1>1
  <2> QED
    BY <2>1, <2>2
<1>3. ASSUME NEW n \in Nat, Right(n) PROVE Right(n + 1)
  <2>1. PICK N \in [SUBSET D -> Nat] : \A s \in SUBSET D :
               Cardinality(s) < n => N[s] = FoldStep(op, base, f, N, s)
    BY <1>3
  <2> DEFINE M == [s \in SUBSET D |-> FoldStep(op, base, f, N, s)]
  <2>2. M \in [SUBSET D -> Nat]
    BY FoldStepType
  <2>3. ASSUME NEW s \in SUBSET D, Cardinality(s) < n + 1
        PROVE  M[s] = FoldStep(op, base, f, M, s)
    <3>1. CASE s = {}
      BY <3>1 DEF FoldStep
    <3>2. CASE s # {}
      <4> DEFINE rest == s \ {Chosen(s)}
      <4>1. Chosen(s) \in s /\ rest \in SUBSET D
        BY <3>2, ChosenIs
      <4>2. Cardinality(rest) = Cardinality(s) - 1
        BY <1>1, <4>1, FS_RemoveElement
      <4>3. Cardinality(rest) < n
        BY <1>1, <2>3, <4>1, <4>2
      <4>4. N[rest] = M[rest]
        BY <2>1, <4>1, <4>3
      <4> QED
        BY <3>2, <4>4 DEF FoldStep
    <3> QED
      BY <3>1, <3>2
  <2> QED
    BY <2>2, <2>3
<1>4. Wrong = {}
  <2> SUFFICES ASSUME Wrong # {} PROVE FALSE
    OBVIOUS
  <2>1. \E n \in Wrong : \A m \in Wrong : n <= m
    <3>1. Wrong \in SUBSET Nat
      OBVIOUS
    <3> HIDE DEF Wrong
    <3> QED
      BY <3>1, LeastNatural
  <2>2. PICK n \in Wrong : \A m \in Wrong : n <= m
    BY <2>1
  <2> HIDE DEF Right
  <2>3. n # 0 /\ n \in Nat
    BY <1>2
  <2>4. n - 1 \in Nat /\ n - 1 \notin Wrong
    BY <2>2, <2>3
  <2>5. Right((n - 1) + 1)
    BY <1>3, <2>4
  <2> QED
    BY <2>3, <2>5
<1>5. Right(Cardinality(D) + 1)
  <2> HIDE DEF Right
  <2> QED
    BY <1>4, FS_CardinalityType
<1>6. PICK N \in [SUBSET D -> Nat] : \A s \in SUBSET D :
        Cardinality(s) < Cardinality(D) + 1 => N[s] = FoldStep(op, base, f, N, s)
  BY <1>5
<1>7. \A s \in SUBSET D : N[s] = FoldStep(op, base, f, N, s)
  BY <1>1, <1>6, FS_CardinalityType
<1>8. N = [s \in SUBSET D |-> FoldStep(op, base, f, N, s)]
  BY <1>7
<1> QED
  BY <1>8 DEF Folding

Commuting(op) == \A a, b, c \in Nat : op[<<a, op[<<b, c>>]>>] = op[<<b, op[<<a, c>>]>>]

AnyOrder(op, D, f, N) == \A T \in SUBSET D : \A x \in T : N[T] = op[<<f[x], N[T \ {x}]>>]

\* In whatever order it takes the elements, a commutative fold comes to the same.
LEMMA FoldTakesAny ==
  ASSUME NEW D, IsFiniteSet(D), NEW f \in [D -> Nat], NEW op \in [Nat \X Nat -> Nat], NEW base \in Nat,
         Commuting(op), NEW N \in [SUBSET D -> Nat], Folding(op, base, f, N)
  PROVE  AnyOrder(op, D, f, N)
<1> DEFINE Right(T) == \A x \in T : N[T] = op[<<f[x], N[T \ {x}]>>]
           Wrong == {T \in SUBSET D : ~Right(T)}
<1> SUFFICES ASSUME Wrong # {} PROVE FALSE
  BY DEF AnyOrder
<1>1. \E T \in Wrong : \A U \in Wrong : U \subseteq T => U = T
  <2>1. Wrong \in SUBSET SUBSET D
    OBVIOUS
  <2> HIDE DEF Wrong
  <2> QED
    BY <2>1, LeastSubset
<1>2. PICK T \in Wrong : \A U \in Wrong : U \subseteq T => U = T
  BY <1>1
<1>3. PICK x \in T : N[T] # op[<<f[x], N[T \ {x}]>>]
  OBVIOUS
<1> DEFINE y == Chosen(T)
<1>4. y \in T /\ T \in SUBSET D
  BY <1>3, ChosenIs
<1>5. N[T] = op[<<f[y], N[T \ {y}]>>]
  <2>1. N = [s \in SUBSET D |-> FoldStep(op, base, f, N, s)]
    BY DEF Folding
  <2>2. N[T] = FoldStep(op, base, f, N, T)
    BY <1>4, <2>1
  <2> QED
    BY <1>3, <2>2 DEF FoldStep
<1>6. x # y
  BY <1>3, <1>5
<1>7. T \ {x} \notin Wrong /\ T \ {y} \notin Wrong
  BY <1>2, <1>3, <1>4
<1> HIDE DEF y
<1>8. N[T \ {y}] = op[<<f[x], N[(T \ {y}) \ {x}]>>] /\ N[T \ {x}] = op[<<f[y], N[(T \ {x}) \ {y}]>>]
  BY <1>4, <1>3, <1>6, <1>7
<1>9. (T \ {y}) \ {x} = (T \ {x}) \ {y}
  OBVIOUS
<1>10. f[x] \in Nat /\ f[y] \in Nat /\ N[(T \ {x}) \ {y}] \in Nat
  BY <1>3, <1>4
<1> DEFINE M == N[(T \ {x}) \ {y}]
<1>11. op[<<f[y], op[<<f[x], M>>]>>] = op[<<f[x], op[<<f[y], M>>]>>]
  BY <1>10 DEF Commuting
<1> QED
  BY <1>3, <1>5, <1>8, <1>9, <1>11

-----------------------------------------------------------------------------
(* The two folds of the composite score.                                    *)
Adding == [p \in Nat \X Nat |-> p[1] + p[2]]
Multiplying == [p \in Nat \X Nat |-> p[1] * p[2]]

SumOver(f, N) ==
  N = [s \in SUBSET DOMAIN f |-> IF s = {} THEN 0 ELSE f[Chosen(s)] + N[s \ {Chosen(s)}]]
ProductOver(f, N) ==
  N = [s \in SUBSET DOMAIN f |-> IF s = {} THEN 1 ELSE f[Chosen(s)] * N[s \ {Chosen(s)}]]

LEMMA SumIs ==
  ASSUME NEW f
  PROVE  SumFunction(f) = (CHOOSE N : SumOver(f, N))[DOMAIN f]
BY DEF SumFunction, SumFunctionOnSet, FoldFunctionOnSet, MapThenFoldSet, SumOver, Chosen

Product(f) == FoldFunction(LAMBDA a, b : a * b, 1, f)

LEMMA ProductIs ==
  ASSUME NEW f
  PROVE  Product(f) = (CHOOSE N : ProductOver(f, N))[DOMAIN f]
BY DEF Product, FoldFunction, FoldFunctionOnSet, MapThenFoldSet, ProductOver, Chosen

Sums(D, f, N) ==
  /\ N \in [SUBSET D -> Nat] /\ N[{}] = 0
  /\ \A T \in SUBSET D : \A x \in T : N[T] = f[x] + N[T \ {x}]

LEMMA SumTakesAny ==
  ASSUME NEW D, IsFiniteSet(D), NEW f \in [D -> Nat]
  PROVE  \E N : Sums(D, f, N) /\ SumFunction(f) = N[D]
<1>1. Adding \in [Nat \X Nat -> Nat] /\ \A a, b \in Nat : Adding[<<a, b>>] = a + b
  BY DEF Adding
<1>2. PICK F \in [SUBSET D -> Nat] : Folding(Adding, 0, f, F)
  BY <1>1, FoldExists
<1>3. ASSUME NEW s \in SUBSET D, s # {}
      PROVE  f[Chosen(s)] \in Nat /\ F[s \ {Chosen(s)}] \in Nat
  BY <1>3, ChosenIs
<1>4. \A s \in SUBSET D : F[s] = IF s = {} THEN 0 ELSE f[Chosen(s)] + F[s \ {Chosen(s)}]
  <2>1. F = [s \in SUBSET D |-> FoldStep(Adding, 0, f, F, s)]
    BY <1>2 DEF Folding
  <2>2. \A s \in SUBSET D : F[s] = FoldStep(Adding, 0, f, F, s)
    BY <2>1
  <2> QED
    BY <1>1, <1>3, <2>2 DEF FoldStep
<1>5. SumOver(f, F)
  <2>1. F = [s \in SUBSET D |-> IF s = {} THEN 0 ELSE f[Chosen(s)] + F[s \ {Chosen(s)}]]
    BY <1>4
  <2> QED
    BY <2>1 DEF SumOver
<1> DEFINE C == CHOOSE N : SumOver(f, N)
<1>6. SumOver(f, C)
  BY <1>5
<1> HIDE DEF C
<1>7. /\ C = [s \in SUBSET D |-> C[s]]
      /\ \A s \in SUBSET D : C[s] = IF s = {} THEN 0 ELSE f[Chosen(s)] + C[s \ {Chosen(s)}]
  BY <1>6 DEF SumOver
<1>8. \A s \in SUBSET D : C[s] = F[s]
  <2> DEFINE Wrong == {T \in SUBSET D : C[T] # F[T]}
  <2> SUFFICES ASSUME Wrong # {} PROVE FALSE
    OBVIOUS
  <2>1. \E T \in Wrong : \A U \in Wrong : U \subseteq T => U = T
    <3>1. Wrong \in SUBSET SUBSET D
      OBVIOUS
    <3> HIDE DEF Wrong
    <3> QED
      BY <3>1, LeastSubset
  <2>2. PICK T \in Wrong : \A U \in Wrong : U \subseteq T => U = T
    BY <2>1
  <2>3. T # {} /\ T \in SUBSET D
    BY <1>4, <1>7
  <2>4. Chosen(T) \in T
    BY <2>3, ChosenIs
  <2>5. C[T \ {Chosen(T)}] = F[T \ {Chosen(T)}]
    BY <2>2, <2>3, <2>4
  <2> QED
    BY <1>4, <1>7, <2>3, <2>5
<1>9. SumFunction(f) = F[D]
  BY <1>8, SumIs DEF C
<1>10. Commuting(Adding)
  BY DEF Commuting, Adding
<1>11. ASSUME NEW T \in SUBSET D, NEW x \in T PROVE F[T] = f[x] + F[T \ {x}]
  <2>1. F[T] = Adding[<<f[x], F[T \ {x}]>>]
    <3>1. 0 \in Nat /\ Adding \in [Nat \X Nat -> Nat]
      BY <1>1
    <3>2. AnyOrder(Adding, D, f, F)
      BY <1>2, <1>10, <3>1, FoldTakesAny
    <3> QED
      BY <3>2 DEF AnyOrder
  <2>2. f[x] \in Nat /\ F[T \ {x}] \in Nat
    OBVIOUS
  <2> QED
    BY <1>1, <2>1, <2>2
<1> QED
  BY <1>4, <1>9, <1>11 DEF Sums

Multiplies(D, f, N) ==
  /\ N \in [SUBSET D -> Nat] /\ N[{}] = 1
  /\ \A T \in SUBSET D : \A x \in T : N[T] = f[x] * N[T \ {x}]

LEMMA ProductTakesAny ==
  ASSUME NEW D, IsFiniteSet(D), NEW f \in [D -> Nat]
  PROVE  \E N : Multiplies(D, f, N) /\ Product(f) = N[D]
<1>1. Multiplying \in [Nat \X Nat -> Nat] /\ \A a, b \in Nat : Multiplying[<<a, b>>] = a * b
  BY DEF Multiplying
<1>2. PICK F \in [SUBSET D -> Nat] : Folding(Multiplying, 1, f, F)
  BY <1>1, FoldExists
<1>3. ASSUME NEW s \in SUBSET D, s # {}
      PROVE  f[Chosen(s)] \in Nat /\ F[s \ {Chosen(s)}] \in Nat
  BY <1>3, ChosenIs
<1>4. \A s \in SUBSET D : F[s] = IF s = {} THEN 1 ELSE f[Chosen(s)] * F[s \ {Chosen(s)}]
  <2>1. F = [s \in SUBSET D |-> FoldStep(Multiplying, 1, f, F, s)]
    BY <1>2 DEF Folding
  <2>2. \A s \in SUBSET D : F[s] = FoldStep(Multiplying, 1, f, F, s)
    BY <2>1
  <2> QED
    BY <1>1, <1>3, <2>2 DEF FoldStep
<1>5. ProductOver(f, F)
  <2>1. F = [s \in SUBSET D |-> IF s = {} THEN 1 ELSE f[Chosen(s)] * F[s \ {Chosen(s)}]]
    BY <1>4
  <2> QED
    BY <2>1 DEF ProductOver
<1> DEFINE C == CHOOSE N : ProductOver(f, N)
<1>6. ProductOver(f, C)
  BY <1>5
<1> HIDE DEF C
<1>7. /\ C = [s \in SUBSET D |-> C[s]]
      /\ \A s \in SUBSET D : C[s] = IF s = {} THEN 1 ELSE f[Chosen(s)] * C[s \ {Chosen(s)}]
  BY <1>6 DEF ProductOver
<1>8. \A s \in SUBSET D : C[s] = F[s]
  <2> DEFINE Wrong == {T \in SUBSET D : C[T] # F[T]}
  <2> SUFFICES ASSUME Wrong # {} PROVE FALSE
    OBVIOUS
  <2>1. \E T \in Wrong : \A U \in Wrong : U \subseteq T => U = T
    <3>1. Wrong \in SUBSET SUBSET D
      OBVIOUS
    <3> HIDE DEF Wrong
    <3> QED
      BY <3>1, LeastSubset
  <2>2. PICK T \in Wrong : \A U \in Wrong : U \subseteq T => U = T
    BY <2>1
  <2>3. T # {} /\ T \in SUBSET D
    BY <1>4, <1>7
  <2>4. Chosen(T) \in T
    BY <2>3, ChosenIs
  <2>5. C[T \ {Chosen(T)}] = F[T \ {Chosen(T)}]
    BY <2>2, <2>3, <2>4
  <2> QED
    BY <1>4, <1>7, <2>3, <2>5
<1>9. Product(f) = F[D]
  BY <1>8, ProductIs DEF C
<1>10. Commuting(Multiplying)
  BY DEF Commuting, Multiplying
<1>11. ASSUME NEW T \in SUBSET D, NEW x \in T PROVE F[T] = f[x] * F[T \ {x}]
  <2>1. F[T] = Multiplying[<<f[x], F[T \ {x}]>>]
    <3>1. 1 \in Nat /\ Multiplying \in [Nat \X Nat -> Nat]
      BY <1>1
    <3>2. AnyOrder(Multiplying, D, f, F)
      BY <1>2, <1>10, <3>1, FoldTakesAny
    <3> QED
      BY <3>2 DEF AnyOrder
  <2>2. f[x] \in Nat /\ F[T \ {x}] \in Nat
    OBVIOUS
  <2> QED
    BY <1>1, <2>1, <2>2
<1> QED
  BY <1>4, <1>9, <1>11 DEF Multiplies

\* Shares that compare one by one compare in sum.
LEMMA SumsCompare ==
  ASSUME NEW E, IsFiniteSet(E), NEW D \in SUBSET E, NEW f \in [D -> Nat], NEW g \in [E -> Nat],
         NEW c \in Nat, NEW d \in Nat, \A m \in D : d * f[m] <= c * g[m]
  PROVE  /\ SumFunction(f) \in Nat /\ SumFunction(g) \in Nat
         /\ d * SumFunction(f) <= c * SumFunction(g)
<1>1. PICK F : Sums(D, f, F) /\ SumFunction(f) = F[D]
  BY FS_Subset, SumTakesAny
<1>2. PICK G : Sums(E, g, G) /\ SumFunction(g) = G[E]
  BY SumTakesAny
<1> DEFINE Wrong == {T \in SUBSET E : ~(d * F[T \cap D] <= c * G[T])}
<1>3. Wrong = {}
  <2> SUFFICES ASSUME Wrong # {} PROVE FALSE
    OBVIOUS
  <2>1. \E T \in Wrong : \A U \in Wrong : U \subseteq T => U = T
    <3>1. Wrong \in SUBSET SUBSET E
      OBVIOUS
    <3> HIDE DEF Wrong
    <3> QED
      BY <3>1, LeastSubset
  <2>2. PICK T \in Wrong : \A U \in Wrong : U \subseteq T => U = T
    BY <2>1
  <2>11. T \in SUBSET E /\ ~(d * F[T \cap D] <= c * G[T])
    OBVIOUS
  <2>3. T \in SUBSET E /\ T # {}
    <3> SUFFICES ASSUME T = {} PROVE FALSE
      BY <2>11
    <3>1. T \cap D = {}
      OBVIOUS
    <3>2. F[T \cap D] = 0 /\ G[T] = 0
      BY <1>1, <1>2, <3>1 DEF Sums
    <3>3. d * F[T \cap D] = 0 /\ c * G[T] = 0
      BY <3>2
    <3> QED
      BY <2>11, <3>3
  <2>4. PICK x \in T : TRUE
    BY <2>3
  <2> DEFINE R == T \ {x}
  <2>5. R \in SUBSET E /\ R \notin Wrong
    BY <2>2, <2>3
  <2>6. d * F[R \cap D] <= c * G[R]
    BY <2>5
  <2>7. G[T] = g[x] + G[R] /\ G[R] \in Nat /\ g[x] \in Nat
    BY <1>2, <2>3, <2>4, <2>5 DEF Sums
  <2>8. c * G[T] = c * g[x] + c * G[R]
    BY <2>7
  <2>9. CASE x \in D
    <3>1. T \cap D \in SUBSET D /\ x \in T \cap D /\ (T \cap D) \ {x} = R \cap D
      BY <2>9
    <3>6. (T \cap D) \ {x} \in SUBSET D
      OBVIOUS
    <3>7. F[T \cap D] = f[x] + F[(T \cap D) \ {x}] /\ F[(T \cap D) \ {x}] \in Nat
      BY <1>1, <3>1, <3>6 DEF Sums
    <3>2. F[T \cap D] = f[x] + F[R \cap D] /\ F[R \cap D] \in Nat /\ f[x] \in Nat
      BY <2>9, <3>1, <3>7
    <3>3. d * F[T \cap D] = d * f[x] + d * F[R \cap D]
      BY <3>2
    <3>4. d * f[x] <= c * g[x]
      BY <2>9
    <3>5. d * F[T \cap D] <= c * G[T]
      BY <2>6, <2>7, <2>8, <3>2, <3>3, <3>4
    <3> QED
      BY <2>11, <3>5
  <2>10. CASE x \notin D
    <3>1. T \cap D = R \cap D /\ R \cap D \in SUBSET D
      BY <2>10
    <3>2. F[R \cap D] \in Nat
      BY <1>1, <3>1 DEF Sums
    <3>4. d * F[R \cap D] \in Nat /\ c * g[x] \in Nat /\ c * G[R] \in Nat
      BY <2>7, <3>2
    <3>5. d * F[R \cap D] <= c * G[T]
      BY <2>6, <2>8, <3>4
    <3>3. d * F[T \cap D] <= c * G[T]
      BY <3>1, <3>5
    <3> QED
      BY <2>11, <3>3
  <2> QED
    BY <2>9, <2>10
<1>4. E \in SUBSET E /\ E \cap D = D
  OBVIOUS
<1>5. d * F[D] <= c * G[E]
  BY <1>3, <1>4
<1>6. F[D] \in Nat /\ G[E] \in Nat
  BY <1>1, <1>2 DEF Sums
<1> QED
  BY <1>1, <1>2, <1>5, <1>6

\* A product of positive numbers is positive, and a multiple of each.
LEMMA ProductIsMultiple ==
  ASSUME NEW D, IsFiniteSet(D), NEW f \in [D -> Nat], \A m \in D : f[m] > 0
  PROVE  /\ Product(f) \in Nat /\ Product(f) > 0
         /\ \A m \in D : \E q \in Nat : Product(f) = f[m] * q
<1>1. PICK P : Multiplies(D, f, P) /\ Product(f) = P[D]
  BY ProductTakesAny
<1> DEFINE Wrong == {T \in SUBSET D : ~(P[T] > 0)}
<1>2. Wrong = {}
  <2> SUFFICES ASSUME Wrong # {} PROVE FALSE
    OBVIOUS
  <2>1. \E T \in Wrong : \A U \in Wrong : U \subseteq T => U = T
    <3>1. Wrong \in SUBSET SUBSET D
      OBVIOUS
    <3> HIDE DEF Wrong
    <3> QED
      BY <3>1, LeastSubset
  <2>2. PICK T \in Wrong : \A U \in Wrong : U \subseteq T => U = T
    BY <2>1
  <2>3. T \in SUBSET D /\ T # {}
    <3>1. P[{}] > 0
      BY <1>1 DEF Multiplies
    <3> QED
      BY <3>1
  <2>4. PICK x \in T : TRUE
    BY <2>3
  <2>5. T \ {x} \in SUBSET D /\ T \ {x} \notin Wrong
    BY <2>2, <2>3
  <2>6. P[T] = f[x] * P[T \ {x}] /\ P[T \ {x}] \in Nat /\ f[x] \in Nat
    BY <1>1, <2>3, <2>4, <2>5 DEF Multiplies
  <2>7. P[T \ {x}] > 0 /\ f[x] > 0
    BY <2>3, <2>4, <2>5
  <2>8. P[T] > 0
    BY <2>6, <2>7
  <2> QED
    BY <2>8
<1>3. D \in SUBSET D
  OBVIOUS
<1>4. P[D] \in Nat /\ P[D] > 0
  BY <1>1, <1>2, <1>3 DEF Multiplies
<1>5. ASSUME NEW m \in D PROVE P[D] = f[m] * P[D \ {m}] /\ P[D \ {m}] \in Nat
  BY <1>1, <1>3 DEF Multiplies
<1> QED
  BY <1>1, <1>4, <1>5

-----------------------------------------------------------------------------
(* A hotter report.                                                         *)
LEMMA TimesGrows ==
  ASSUME NEW k \in Nat, NEW a \in Nat, NEW b \in Nat, a <= b
  PROVE  k * a <= k * b
<1>1. k * (b - a) \in Nat
  OBVIOUS
<1>2. k * b = k * a + k * (b - a)
  OBVIOUS
<1>3. k * a \in Nat /\ k * b \in Nat
  OBVIOUS
<1> QED
  BY <1>1, <1>2, <1>3

\* w is a weight, v / l and h / m are shares of the limits l and m, and q and r
\* the products of the other limits.
LEMMA ShareGrows ==
  ASSUME NEW w \in Nat, NEW v \in Nat, NEW h \in Nat, NEW l \in Nat, NEW m \in Nat,
         NEW q \in Nat, NEW r \in Nat, m * v <= l * h
  PROVE  (m * r) * (w * 2 * v * q) <= (l * q) * (w * 2 * h * r)
<1>1. (w * 2 * q * r) * (m * v) <= (w * 2 * q * r) * (l * h)
  <2>1. w * 2 * q * r \in Nat /\ m * v \in Nat /\ l * h \in Nat
    OBVIOUS
  <2> QED
    BY <2>1, TimesGrows
<1>2. (m * r) * (w * 2 * v * q) = (w * 2 * q * r) * (m * v)
  OBVIOUS
<1>3. (l * q) * (w * 2 * h * r) = (w * 2 * q * r) * (l * h)
  OBVIOUS
<1> QED
  BY <1>1, <1>2, <1>3

\* A sum s over t common denominators c, and a sum z that is larger over d.
LEMMA ScoreGrows ==
  ASSUME NEW s \in Nat, NEW z \in Nat, NEW c \in Nat, NEW d \in Nat, NEW t \in Nat,
         c > 0, d * s <= c * z, s >= t * c
  PROVE  z >= t * d
<1>1. d * (t * c) <= d * s
  BY TimesGrows
<1>2. d * (t * c) = c * (t * d)
  OBVIOUS
<1>3. d * s \in Nat /\ c * z \in Nat /\ t * d \in Nat /\ c * (t * d) \in Nat
  OBVIOUS
<1>4. c * (t * d) <= c * z
  BY <1>1, <1>2, <1>3
<1> SUFFICES ASSUME z + 1 <= t * d PROVE FALSE
  BY <1>3
<1>5. c * (z + 1) <= c * (t * d)
  BY <1>3, TimesGrows
<1>6. c * (z + 1) = c * z + c
  OBVIOUS
<1> QED
  BY <1>3, <1>4, <1>5, <1>6

Scored(values) == {m \in DOMAIN Weights \cap DOMAIN values : TwiceLimit(m, values) > 0}
Limits(values) == [m \in Scored(values) |-> TwiceLimit(m, values)]
Common(values) == Product(Limits(values))
Shares(values) ==
  [m \in Scored(values) |-> Weights[m] * 2 * values[m] * (Common(values) \div Limits(values)[m])]

LEMMA CompositeIs ==
  ASSUME NEW values
  PROVE  OverComposite(values) <=>
           MultiMetric /\ SumFunction(Shares(values)) >= CompositeThreshold * Common(values)
BY DEF OverComposite, Scored, Limits, Common, Shares, Product

LEMMA LimitType ==
  ASSUME TypeOK, NEW values \in Samples, NEW m \in DOMAIN values
  PROVE  TwiceLimit(m, values) \in Nat /\ values[m] \in Nat
<1>1. values[m] \in Nat
  BY ConfigAssumption DEF Samples
<1> QED
  BY <1>1, ConfigAssumption DEF TwiceLimit, TypeOK, Watched

\* The score is made of whole numbers, over a common denominator.
LEMMA ScoreType ==
  ASSUME TypeOK, NoNegativeWeight, NEW values \in Samples
  PROVE  /\ Scored(values) \subseteq DOMAIN Weights \cap DOMAIN values /\ IsFiniteSet(Scored(values))
         /\ Common(values) \in Nat /\ Common(values) > 0
         /\ Shares(values) \in [Scored(values) -> Nat]
         /\ \A m \in Scored(values) : \E q \in Nat :
              /\ Common(values) = TwiceLimit(m, values) * q
              /\ Shares(values)[m] = Weights[m] * 2 * values[m] * q
<1>1. Scored(values) \subseteq DOMAIN Weights \cap DOMAIN values /\ IsFiniteSet(Scored(values))
  <2>1. Scored(values) \in SUBSET DOMAIN Weights
    BY DEF Scored
  <2> QED
    BY <2>1, ConfigAssumption, FS_Subset DEF Scored
<1>2. /\ Limits(values) \in [Scored(values) -> Nat]
      /\ \A m \in Scored(values) : Limits(values)[m] = TwiceLimit(m, values) /\ Limits(values)[m] > 0
  BY LimitType DEF Limits, Scored
<1>3. /\ Common(values) \in Nat /\ Common(values) > 0
      /\ \A m \in Scored(values) : \E q \in Nat : Common(values) = Limits(values)[m] * q
  BY <1>1, <1>2, ProductIsMultiple DEF Common
<1>4. ASSUME NEW m \in Scored(values)
      PROVE  \E q \in Nat : /\ Common(values) = TwiceLimit(m, values) * q
                            /\ Shares(values)[m] = Weights[m] * 2 * values[m] * q
                            /\ Shares(values)[m] \in Nat
  <2>1. PICK q \in Nat : Common(values) = Limits(values)[m] * q
    BY <1>3
  <2>2. Limits(values)[m] \in Nat /\ Limits(values)[m] > 0
    BY <1>2
  <2>3. Common(values) \div Limits(values)[m] = q
    BY <2>1, <2>2
  <2>4. Shares(values)[m] = Weights[m] * 2 * values[m] * q
    BY <2>3 DEF Shares
  <2>5. Weights[m] \in Nat /\ values[m] \in Nat
    BY <1>1, LimitType, ConfigAssumption DEF NoNegativeWeight
  <2>6. Shares(values)[m] \in Nat
    BY <2>4, <2>5
  <2> QED
    BY <1>2, <2>1, <2>4, <2>6
<1>5. Shares(values) \in [Scored(values) -> Nat]
  BY <1>4 DEF Shares
<1> QED
  BY <1>1, <1>3, <1>4, <1>5

LEMMA HotterScore ==
  ASSUME TypeOK, NoNegativeWeight, NEW values \in Samples, NEW hotter \in [DOMAIN values -> Level],
         \A m \in DOMAIN values : hotter[m] >= values[m], OverComposite(values)
  PROVE  OverComposite(hotter)
<1>1. hotter \in Samples /\ DOMAIN hotter = DOMAIN values
  BY DEF Samples
<1>2. ASSUME NEW m \in DOMAIN values
      PROVE  /\ TwiceLimit(m, hotter) * values[m] <= TwiceLimit(m, values) * hotter[m]
             /\ TwiceLimit(m, values) > 0 => TwiceLimit(m, hotter) > 0
  <2>1. values[m] \in Nat /\ hotter[m] \in Nat /\ TwiceLimit(m, values) \in Nat /\ values[m] <= hotter[m]
    BY <1>1, LimitType
  <2>2. CASE m \in Watched
    <3>1. TwiceLimit(m, hotter) = TwiceLimit(m, values)
      BY <2>2 DEF TwiceLimit
    <3> QED
      BY <2>1, <3>1, TimesGrows
  <2>3. CASE m \notin Watched
    <3>1. TwiceLimit(m, hotter) = 3 * hotter[m] /\ TwiceLimit(m, values) = 3 * values[m]
      BY <2>3 DEF TwiceLimit
    <3>2. (3 * hotter[m]) * values[m] = (3 * values[m]) * hotter[m] /\ (3 * hotter[m]) * values[m] \in Nat
      BY <2>1
    <3> QED
      BY <2>1, <3>1, <3>2
  <2> QED
    BY <2>2, <2>3
<1> DEFINE D == Scored(values)
           E == Scored(hotter)
           c == Common(values)
           d == Common(hotter)
           f == Shares(values)
           g == Shares(hotter)
<1>3. D \in SUBSET E
  BY <1>1, <1>2 DEF Scored
<1>4. /\ IsFiniteSet(E) /\ f \in [D -> Nat] /\ g \in [E -> Nat]
      /\ c \in Nat /\ c > 0 /\ d \in Nat
  BY <1>1, ScoreType
<1>5. ASSUME NEW m \in D PROVE d * f[m] <= c * g[m]
  <2>1. m \in DOMAIN values /\ m \in DOMAIN Weights /\ m \in E
    BY <1>3 DEF Scored
  <2>2. PICK q \in Nat : c = TwiceLimit(m, values) * q /\ f[m] = Weights[m] * 2 * values[m] * q
    BY ScoreType
  <2>3. PICK r \in Nat : d = TwiceLimit(m, hotter) * r /\ g[m] = Weights[m] * 2 * hotter[m] * r
    BY <1>1, <2>1, ScoreType
  <2>4. /\ values[m] \in Nat /\ hotter[m] \in Nat /\ Weights[m] \in Nat
        /\ TwiceLimit(m, values) \in Nat /\ TwiceLimit(m, hotter) \in Nat
    BY <1>1, <2>1, LimitType, ConfigAssumption DEF NoNegativeWeight
  <2>5. TwiceLimit(m, hotter) * values[m] <= TwiceLimit(m, values) * hotter[m]
    BY <1>2, <2>1
  <2>6. (TwiceLimit(m, hotter) * r) * (Weights[m] * 2 * values[m] * q)
          <= (TwiceLimit(m, values) * q) * (Weights[m] * 2 * hotter[m] * r)
    BY <2>4, <2>5, ShareGrows
  <2> QED
    BY <2>2, <2>3, <2>6
<1>6. SumFunction(f) \in Nat /\ SumFunction(g) \in Nat /\ d * SumFunction(f) <= c * SumFunction(g)
  <2> HIDE DEF D, E, c, d, f, g
  <2> QED
    BY <1>3, <1>4, <1>5, SumsCompare
<1>7. MultiMetric /\ SumFunction(f) >= CompositeThreshold * c
  BY CompositeIs
<1>8. SumFunction(g) >= CompositeThreshold * d
  <2> HIDE DEF D, E, c, d, f, g
  <2> QED
    BY <1>4, <1>6, <1>7, ScoreGrows, ConfigAssumption
<1> QED
  BY <1>7, <1>8, CompositeIs

LEMMA HotterThreshold ==
  ASSUME TypeOK, NEW values \in Samples, NEW hotter \in [DOMAIN values -> Level],
         \A m \in DOMAIN values : hotter[m] >= values[m], OverThreshold(values)
  PROVE  OverThreshold(hotter)
<1>1. hotter \in Samples /\ DOMAIN hotter = DOMAIN values
  BY DEF Samples
<1>2. \A m \in DOMAIN values : values[m] \in Nat /\ hotter[m] \in Nat
  BY <1>1, LimitType
<1>3. CASE Dynamic
  BY <1>1, <1>2, <1>3 DEF OverThreshold, OverDynamic, TypeOK
<1>4. CASE ~Dynamic
  BY <1>1, <1>2, <1>4, ConfigAssumption DEF OverThreshold, OverStatic
<1> QED
  BY <1>3, <1>4

LEMMA Hotter == TypeOK => HotterStaysOver
BY HotterScore, HotterThreshold DEF HotterStaysOver

(* Hotter reports stay over.  As long as no weight is negative (which          *)
(* Config.Validate does not check), whatever the metrics and limits are and    *)
(* wherever the dynamic thresholds have moved, a report with larger values is  *)
(* over one of the two limits if the smaller one was (process_metrics.go and   *)
(* composite_metrics.go).                                                      *)
THEOREM LimitsAreMonotone == Spec => []HotterStaysOver
BY TypeCorrect, Hotter, PTL

-----------------------------------------------------------------------------
(* What survives a restart.                                                  *)

\* Tables this version of the processor can have saved.
SoundTables == [Resource -> SoundEntity \cup {Absent}]

\* The first process finds no file, or one with sound entities, and the other
\* processors of the host save sound entities.
StoredSound ==
  /\ Inherited \in SoundTables \cup {NoFile}
  /\ "shared_file" \in Failures => OtherTables \subseteq SoundTables

-----------------------------------------------------------------------------
(* The inductive invariant: both tables are sound, and neither is younger    *)
(* than the truth.                                                           *)
PInv ==
  /\ IInv
  /\ since \in [Resource -> Age]
  /\ HasTable => file \in SoundTables
  /\ ~running => tracked = Empty
  /\ NeverRejuvenated

LEMMA SoundIsTable == SoundTables \subseteq Tables
  BY DEF SoundTables, Tables, SoundEntity

LEMMA EmptySound == Empty \in SoundTables
  BY DEF Empty, SoundTables

LEMMA TrackedSound == ASSUME IInv PROVE tracked \in SoundTables
  BY DEF IInv, SoundTable, SoundTables

\* The ages of a sound table are ages.
LEMMA SoundAges ==
  ASSUME NEW t \in SoundTables, NEW r \in Resource
  PROVE  AgeExceeded(t[r]) \in Age /\ AgeAnomaly(t[r]) \in Age
<1>1. Never \in Age
  BY ConfigAssumption, SMT DEF Never, Age
<1> QED
  BY <1>1, SoundPresent DEF SoundTables, SoundEntity, Entity, AgeExceeded, AgeAnomaly

\* A table that grows older does so entity by entity.
LEMMA AgedTableAges ==
  ASSUME NEW t \in SoundTables
  PROVE  /\ AgedTable(t) \in SoundTables
         /\ \A r \in Resource :
              /\ AgeExceeded(AgedTable(t)[r]) = Older(AgeExceeded(t[r]))
              /\ AgeAnomaly(AgedTable(t)[r]) = Older(AgeAnomaly(t[r]))
<1>1. ASSUME NEW r \in Resource
      PROVE  /\ AgedTable(t)[r] \in SoundEntity \cup {Absent}
             /\ AgeExceeded(AgedTable(t)[r]) = Older(AgeExceeded(t[r]))
             /\ AgeAnomaly(AgedTable(t)[r]) = Older(AgeAnomaly(t[r]))
  <2>1. CASE t[r] = Absent
    <3>1. AgedTable(t)[r] = Absent
      BY <2>1 DEF AgedTable
    <3> QED
      BY <2>1, <3>1, ConfigAssumption, SMT DEF AgeExceeded, AgeAnomaly, Older, Never
  <2>2. CASE t[r] # Absent
    <3>1. t[r] \in SoundEntity /\ AgedTable(t)[r] = Aged(t[r])
      BY <2>2 DEF AgedTable, SoundTables
    <3> QED
      BY <2>2, <3>1, AgedSound, SoundPresent DEF AgeExceeded, AgeAnomaly
  <2> QED
    BY <2>1, <2>2
<1>2. AgedTable(t) = [r \in Resource |-> AgedTable(t)[r]]
  BY DEF AgedTable
<1> QED
  BY <1>1, <1>2 DEF SoundTables

\* Growing older keeps the order of ages.
LEMMA OlderMonotone ==
  ASSUME NEW a \in Age, NEW b \in Age, a >= b
  PROVE  Older(a) >= Older(b)
  BY ConfigAssumption, SMT DEF Age, Never, Older

\* A process that starts, or is gone, has a sound table and thresholds.
LEMMA SeededInv ==
  ASSUME IInv, tracked' \in SoundTables, UNCHANGED <<stage, alive>>,
         \/ dynamic' = Restrict(Thresholds, {m \in Watched : Thresholds[m] > 0})
         \/ UNCHANGED dynamic
  PROVE  IInv'
<1>1. DOMAIN dynamic' \subseteq Watched /\ \A m \in DOMAIN dynamic' : dynamic'[m] \in Nat
  BY ConfigAssumption DEF IInv, TypeOK, Restrict
<1> QED
  BY <1>1 DEF IInv, TypeOK, SoundTable, SoundTables, SoundEntity

LEMMA PersistentInitInv == ASSUME StoredSound PROVE PersistentInit => PInv
<1> SUFFICES ASSUME PersistentInit PROVE PInv
  OBVIOUS
<1>1. IInv
  BY InitInv DEF PersistentInit
<1>2. HasTable => file \in SoundTables
  BY DEF StoredSound, PersistentInit, HasTable
<1>3. Never \in Age /\ \A a \in Age : a >= a /\ Never >= a
  BY ConfigAssumption, SMT DEF Never, Age
<1>4. tracked = Empty
  BY DEF PersistentInit, Init, Empty
<1>5. since \in [Resource -> Age]
  BY <1>2, <1>3, SoundAges DEF PersistentInit
<1>6. NeverRejuvenated
  <2> SUFFICES ASSUME NEW r \in Resource
               PROVE  /\ AgeExceeded(tracked[r]) >= since[r]
                      /\ HasTable => AgeExceeded(file[r]) >= since[r]
    BY DEF NeverRejuvenated
  <2>1. AgeExceeded(tracked[r]) = Never
    BY <1>4 DEF Empty, AgeExceeded
  <2>2. HasTable => AgeExceeded(file[r]) = since[r]
    BY DEF PersistentInit
  <2> QED
    BY <1>3, <1>5, <2>1, <2>2
<1> QED
  BY <1>1, <1>2, <1>4, <1>5, <1>6 DEF PInv, PersistentInit

\* A report makes an entity younger only when a limit was really exceeded.
LEMMA ReportNotedInv ==
  ASSUME PInv, running, NEW r \in Resource, NEW values \in Samples, ReportNoted(r, values)
  PROVE  PInv'
<1>1. PICK e \in SoundEntity \cup {Absent}, s \in Stage \ {"none"} :
        Decide(r, e, s) /\ Outcome(r, e, s)
  BY ReportOutcome DEF PInv, ReportNoted
<1>2. IInv'
  BY <1>1, DecideKeepsInv DEF PInv
<1>3. /\ tracked' = [tracked EXCEPT ![r] = e] /\ stage'[r] = s
      /\ tracked \in SoundTables
  BY <1>1, TrackedSound DEF Decide, PInv, IInv, TypeOK
<1>4. \/ s \in ExceedStages /\ AgeExceeded(e) = 0
      \/ s \notin ExceedStages /\ AgeExceeded(e) = AgeExceeded(tracked[r])
  BY <1>1 DEF Outcome, SameAges, ExceedStages, RetentionStages
<1>5. 0 \in Age /\ \A a \in Age : a >= 0
  BY ConfigAssumption, SMT DEF Age, Never
<1>6. since' = IF s \in ExceedStages THEN [since EXCEPT ![r] = 0] ELSE since
  BY <1>3 DEF ReportNoted
<1>7. since' \in [Resource -> Age]
  BY <1>5, <1>6 DEF PInv
<1>8. file' = file /\ running' /\ (HasTable' <=> HasTable)
  BY DEF ReportNoted, HasTable
<1>9. ASSUME NEW q \in Resource
      PROVE  /\ AgeExceeded(tracked'[q]) >= since'[q]
             /\ HasTable => AgeExceeded(file[q]) >= since'[q]
  <2>1. CASE s \in ExceedStages /\ q = r
    <3>1. since'[q] = 0
      BY <1>6, <2>1 DEF PInv
    <3>2. AgeExceeded(tracked'[q]) \in Age
      BY <1>2, SoundAges, TrackedSound DEF IInv, SoundTable, SoundTables
    <3>3. HasTable => AgeExceeded(file[q]) \in Age
      BY SoundAges DEF PInv
    <3> QED
      BY <1>5, <3>1, <3>2, <3>3
  <2>2. CASE ~(s \in ExceedStages /\ q = r)
    <3>1. since'[q] = since[q]
      BY <1>6, <2>2 DEF PInv
    <3>2. AgeExceeded(tracked'[q]) = AgeExceeded(tracked[q])
      BY <1>3, <1>4, <2>2 DEF SoundTables
    <3> QED
      BY <3>1, <3>2 DEF PInv, NeverRejuvenated
  <2> QED
    BY <2>1, <2>2
<1>10. NeverRejuvenated'
  BY <1>8, <1>9 DEF NeverRejuvenated
<1> QED
  BY <1>2, <1>7, <1>8, <1>10 DEF PInv

LEMMA PersistentMinuteInv == PInv /\ PersistentMinute => PInv'
<1> SUFFICES ASSUME PInv, PersistentMinute PROVE PInv'
  OBVIOUS
<1>1. IInv'
  BY NextInv DEF PInv, PersistentMinute, Next
<1>2. tracked' = AgedTable(tracked)
  BY DEF PersistentMinute, Minute, AgedTable
<1>3. since' \in [Resource -> Age]
  BY OlderType DEF PInv, PersistentMinute
<1>4. HasTable' => HasTable /\ file' = AgedTable(file)
  BY DEF PersistentMinute, HasTable
<1>5. HasTable' => file' \in SoundTables
  BY <1>4, AgedTableAges DEF PInv
<1>6. ~running' => tracked' = Empty
  BY <1>2 DEF PInv, PersistentMinute, AgedTable, Empty
<1>7. ASSUME NEW r \in Resource
      PROVE  /\ AgeExceeded(tracked'[r]) >= since'[r]
             /\ HasTable' => AgeExceeded(file'[r]) >= since'[r]
  <2>1. since'[r] = Older(since[r]) /\ since[r] \in Age
    BY DEF PersistentMinute, PInv
  <2>2. /\ AgeExceeded(tracked'[r]) = Older(AgeExceeded(tracked[r]))
        /\ AgeExceeded(tracked[r]) \in Age
    BY <1>2, AgedTableAges, SoundAges, TrackedSound DEF PInv
  <2>3. HasTable' => /\ AgeExceeded(file'[r]) = Older(AgeExceeded(file[r]))
                     /\ AgeExceeded(file[r]) \in Age
    BY <1>4, AgedTableAges, SoundAges DEF PInv
  <2> QED
    BY <1>4, <2>1, <2>2, <2>3, OlderMonotone DEF PInv, NeverRejuvenated
<1> QED
  BY <1>1, <1>3, <1>5, <1>6, <1>7 DEF PInv, NeverRejuvenated, PersistentMinute

LEMMA WorkInv == PInv /\ Work => PInv'
<1> SUFFICES ASSUME PInv, Work PROVE PInv'
  OBVIOUS
<1>1. ASSUME NEW r \in Resource, NEW values \in Samples, ReportNoted(r, values)
      PROVE  PInv'
  BY <1>1, ReportNotedInv DEF Work
<1>2. CASE CleanupExpired /\ UNCHANGED storeVars
  <2>1. IInv'
    BY <1>2, NextInv DEF PInv, Next
  <2>2. ASSUME NEW r \in Resource PROVE AgeExceeded(tracked'[r]) >= since[r]
    <3>1. AgeExceeded(tracked'[r]) = AgeExceeded(tracked[r])
      BY <1>2 DEF CleanupExpired, Expired, AgeExceeded
    <3> QED
      BY <3>1 DEF PInv, NeverRejuvenated
  <2> QED
    BY <1>2, <2>1, <2>2 DEF PInv, NeverRejuvenated, storeVars, HasTable, Work
<1>3. CASE AdjustThresholds /\ UNCHANGED storeVars
  <2>1. IInv'
    BY <1>3, NextInv DEF PInv, Next
  <2> QED
    BY <1>3, <2>1 DEF PInv, NeverRejuvenated, AdjustThresholds, storeVars, HasTable
<1> QED
  BY <1>1, <1>2, <1>3 DEF Work

\* Loading, saving and losing tables: the file and the memory exchange tables
\* that are old enough, or empty ones.
LEMMA StoreStepInv ==
  ASSUME PInv, UNCHANGED <<stage, alive, since>>,
         tracked' \in {tracked, Empty} \/ (HasTable /\ tracked' = file),
         file' \in {file, tracked, Empty, Torn},
         ~running' => tracked' = Empty,
         \/ dynamic' = Restrict(Thresholds, {m \in Watched : Thresholds[m] > 0})
         \/ UNCHANGED dynamic
  PROVE  PInv'
<1>1. tracked \in SoundTables /\ Empty \in SoundTables
  BY TrackedSound, EmptySound DEF PInv
<1>2. tracked' \in SoundTables
  BY <1>1 DEF PInv
<1>3. IInv'
  BY <1>2, SeededInv DEF PInv
<1>4. HasTable' => \/ file' \in {tracked, Empty}
                   \/ HasTable /\ file' = file
  BY DEF HasTable
<1>5. HasTable' => file' \in SoundTables
  BY <1>1, <1>4 DEF PInv
<1>6. \A r \in Resource : AgeExceeded(Empty[r]) >= since[r]
  BY ConfigAssumption, SMT DEF PInv, Empty, AgeExceeded, Age, Never
<1>7. \A r \in Resource : /\ AgeExceeded(tracked[r]) >= since[r]
                          /\ HasTable => AgeExceeded(file[r]) >= since[r]
  BY DEF PInv, NeverRejuvenated
<1>8. NeverRejuvenated'
  BY <1>4, <1>6, <1>7 DEF NeverRejuvenated, AgeExceeded
<1> QED
  BY <1>3, <1>5, <1>8 DEF PInv

\* Another processor saves ages of its own, and the truth with them.
LEMMA OtherSavesInv == ASSUME StoredSound PROVE PInv /\ OtherSaves => PInv'
<1> SUFFICES ASSUME PInv, OtherSaves PROVE PInv'
  OBVIOUS
<1>1. PICK table \in OtherTables :
        /\ file' = table
        /\ since' = [r \in Resource |-> Younger(since[r], AgeExceeded(table[r]))]
  BY DEF OtherSaves
<1>2. table \in SoundTables
  BY DEF StoredSound, OtherSaves
<1>3. ASSUME NEW r \in Resource
      PROVE  /\ since'[r] \in Age
             /\ since[r] >= since'[r] /\ AgeExceeded(table[r]) >= since'[r]
  <2>1. since[r] \in Age /\ AgeExceeded(table[r]) \in Age
    BY <1>2, SoundAges DEF PInv
  <2>2. since'[r] = Younger(since[r], AgeExceeded(table[r]))
    BY <1>1
  <2>3. \A a, b \in Age : /\ Younger(a, b) \in Age
                           /\ a >= Younger(a, b) /\ b >= Younger(a, b)
    BY ConfigAssumption, SMT DEF Age, Never, Younger
  <2> QED
    BY <2>1, <2>2, <2>3
<1>4. since' \in [Resource -> Age]
  BY <1>1, <1>3
<1>5. IInv'
  BY NextInv DEF PInv, OtherSaves
<1>6. ASSUME NEW r \in Resource PROVE AgeExceeded(tracked'[r]) >= since'[r]
  <2>1. AgeExceeded(tracked[r]) \in Age /\ since[r] \in Age /\ since'[r] \in Age
    BY <1>3, SoundAges, TrackedSound DEF PInv
  <2>2. AgeExceeded(tracked[r]) >= since[r]
    BY DEF PInv, NeverRejuvenated
  <2>3. AgeExceeded(tracked'[r]) = AgeExceeded(tracked[r])
    BY DEF OtherSaves, vars, AgeExceeded
  <2>4. \A a, b, c \in Age : a >= b /\ b >= c => a >= c
    BY ConfigAssumption, SMT DEF Age, Never
  <2> QED
    BY <1>3, <2>1, <2>2, <2>3, <2>4
<1>7. NeverRejuvenated'
  BY <1>1, <1>3, <1>6 DEF NeverRejuvenated, AgeExceeded
<1> QED
  BY <1>1, <1>2, <1>4, <1>5, <1>7 DEF PInv, OtherSaves, vars

LEMMA PersistentNextInv ==
  ASSUME StoredSound PROVE PInv /\ [PersistentNext]_allVars => PInv'
<1> SUFFICES ASSUME PInv, [PersistentNext]_allVars PROVE PInv'
  OBVIOUS
<1>1. CASE Start
  BY <1>1, StoreStepInv DEF Start
<1>2. CASE Work
  BY <1>2, WorkInv
<1>3. CASE Persist
  BY <1>3, StoreStepInv DEF Persist, vars
<1>4. CASE Shutdown
  BY <1>4, StoreStepInv DEF Shutdown, Stop
<1>5. CASE ShutdownUnsaved
  BY <1>5, StoreStepInv DEF ShutdownUnsaved, Stop
<1>6. CASE Crash
  BY <1>6, StoreStepInv DEF Crash, Stop
<1>7. CASE CrashInWrite
  BY <1>7, StoreStepInv DEF CrashInWrite, Stop
<1>8. CASE OtherSaves
  BY <1>8, OtherSavesInv
<1>9. CASE PersistentMinute
  BY <1>9, PersistentMinuteInv
<1>10. ASSUME NEW r \in Resource, Exit(r) /\ UNCHANGED storeVars PROVE PInv'
  <2>1. IInv'
    BY <1>10, NextInv DEF PInv, Next
  <2> QED
    BY <1>10, <2>1 DEF PInv, NeverRejuvenated, Exit, storeVars, HasTable
<1>11. CASE UNCHANGED allVars
  BY <1>11, NextInv DEF allVars, vars, PInv, NeverRejuvenated, HasTable
<1> QED
  BY <1>1, <1>2, <1>3, <1>4, <1>5, <1>6, <1>7, <1>8, <1>9, <1>10, <1>11
  DEF PersistentNext

\* Crashes, torn writes, failed saves and other writers of the file included, a
\* restart never makes the last limit a resource exceeded look younger than it
\* is: as this processor saw it, or as one saw it that saved to the same file.
THEOREM RestartNeverRejuvenates ==
  ASSUME StoredSound PROVE PersistentSpec => []NeverRejuvenated
<1>1. PInv => NeverRejuvenated
  BY DEF PInv
<1> QED
  BY <1>1, PersistentInitInv, PersistentNextInv, PTL DEF PersistentSpec

-----------------------------------------------------------------------------
(* The refinement, when nothing fails.  Every step of the store leaves the   *)
(* durable table alone, and every other step does to it what it does to the  *)
(* table in memory.                                                          *)
Reliable == Failures = {} /\ Inherited = NoFile

LEMMA DurableKept ==
  ASSUME UNCHANGED stage, Durable' = Durable
  PROVE  UNCHANGED DurablePolicy!policyVars
  BY DEF DurablePolicy!policyVars, Verdicts, AgeExceeded, AgeAnomaly, PolicyVerdict

\* While the processor runs, the policy of the durable table is the policy of
\* the table in memory.
LEMMA RunningMapped ==
  ASSUME running, running', [Kept!Next]_Kept!policyVars
  PROVE  [DurablePolicy!Next]_DurablePolicy!policyVars
<1>1. Durable = tracked /\ Durable' = tracked'
  BY DEF Durable
<1>2. CASE Kept!Next
  BY <1>1, <1>2
  DEF Kept!Next, Kept!Exceed, Kept!Spike, Kept!Retain, Kept!Drop,
      Kept!Exempt, Kept!Forget, Kept!Minute, Kept!Judge, Kept!Older,
      Kept!Never, DurablePolicy!Next, DurablePolicy!Exceed, DurablePolicy!Spike,
      DurablePolicy!Retain, DurablePolicy!Drop, DurablePolicy!Exempt,
      DurablePolicy!Forget, DurablePolicy!Minute, DurablePolicy!Judge,
      DurablePolicy!Older, DurablePolicy!Never, ExceededAges, AnomalyAges
<1>3. CASE UNCHANGED Kept!policyVars
  BY <1>1, <1>3 DEF Kept!policyVars, DurablePolicy!policyVars, ExceededAges, AnomalyAges
<1> QED
  BY <1>2, <1>3

LEMMA PersistentMinuteMapped ==
  ASSUME PInv, PersistentMinute
  PROVE  DurablePolicy!Next
<1>1. Durable \in SoundTables
  BY TrackedSound, EmptySound DEF PInv, Durable
<1>2. tracked' = AgedTable(tracked)
  BY DEF PersistentMinute, Minute, AgedTable
<1>3. AgedTable(Empty) = Empty
  BY DEF AgedTable, Empty
<1>4. HasTable => AgedTable(file) \in Tables
  BY AgedTableAges, SoundIsTable DEF PInv
<1>5. HasTable' <=> HasTable
  BY <1>4, FileAssumption DEF PersistentMinute, HasTable
<1>6. Durable' = AgedTable(Durable)
  BY <1>2, <1>3, <1>5 DEF Durable, PersistentMinute
<1>7. \A r \in Resource :
        /\ AgeExceeded(Durable'[r]) = Older(AgeExceeded(Durable[r]))
        /\ AgeAnomaly(Durable'[r]) = Older(AgeAnomaly(Durable[r]))
  BY <1>1, <1>6, AgedTableAges
<1>8. \A a : Older(a) = DurablePolicy!Older(a)
  BY DEF Older, Never, DurablePolicy!Older, DurablePolicy!Never
<1>9. stage' = stage
  BY DEF PersistentMinute, Minute
<1>10. DurablePolicy!Minute
  BY <1>7, <1>8, <1>9 DEF DurablePolicy!Minute, Verdicts
<1> QED
  BY <1>10 DEF DurablePolicy!Next

LEMMA PersistentStepMapped ==
  ASSUME Reliable, PInv, [PersistentNext]_allVars
  PROVE  [DurablePolicy!Next]_DurablePolicy!policyVars
<1>1. CASE Start
  <2>1. Durable' = Durable /\ UNCHANGED stage
    BY <1>1 DEF Start, Durable
  <2> QED
    BY <2>1, DurableKept
<1>2. CASE Work
  <2>1. running /\ running'
    BY <1>2 DEF Work, ReportNoted, storeVars
  <2>2. Next
    BY <1>2 DEF Work, ReportNoted, Next
  <2> QED
    BY <2>1, <2>2, FilterStepMapped, RunningMapped DEF PInv
<1>3. CASE Persist
  <2>1. Durable' = Durable /\ UNCHANGED stage
    BY <1>3 DEF Persist, Durable, vars
  <2> QED
    BY <2>1, DurableKept
<1>4. CASE Shutdown
  <2>1. tracked \notin {NoFile, Torn}
    BY TrackedSound, SoundIsTable, FileAssumption DEF PInv
  <2>2. Durable' = Durable /\ UNCHANGED stage
    BY <1>4, <2>1 DEF Shutdown, Stop, Durable, HasTable
  <2> QED
    BY <2>2, DurableKept
<1>5. CASE ShutdownUnsaved \/ Crash \/ CrashInWrite \/ OtherSaves
  BY <1>5 DEF Reliable, ShutdownUnsaved, Crash, CrashInWrite, OtherSaves
<1>6. CASE PersistentMinute
  BY <1>6, PersistentMinuteMapped
<1>7. ASSUME NEW r \in Resource, Exit(r) /\ UNCHANGED storeVars
      PROVE  UNCHANGED DurablePolicy!policyVars
  <2>1. Durable' = Durable /\ UNCHANGED stage
    BY <1>7 DEF Exit, storeVars, Durable, HasTable
  <2> QED
    BY <2>1, DurableKept
<1>8. CASE UNCHANGED allVars
  <2>1. Durable' = Durable /\ UNCHANGED stage
    BY <1>8 DEF allVars, vars, Durable, HasTable
  <2> QED
    BY <2>1, DurableKept
<1> QED
  BY <1>1, <1>2, <1>3, <1>4, <1>5, <1>6, <1>7, <1>8 DEF PersistentNext

LEMMA PersistentInitMapped ==
  ASSUME Reliable PROVE PersistentInit => DurablePolicy!Init
<1> SUFFICES ASSUME PersistentInit PROVE DurablePolicy!Init
  OBVIOUS
<1>1. Durable = Empty
  BY DEF Durable, PersistentInit, Reliable, HasTable
<1>2. PolicyVerdict("none") = "none"
  BY DEF PolicyVerdict, ExceedStages, RetentionStages
<1> QED
  BY <1>1, <1>2 DEF PersistentInit, Init, Empty, Verdicts, DurablePolicy!Init,
     AgeExceeded, AgeAnomaly, Never, DurablePolicy!Never

\* With orderly shutdowns and saves that succeed, the retention policy is
\* implemented across restarts as if the process had never stopped.
THEOREM RestartImplementsPolicy ==
  ASSUME Reliable PROVE PersistentSpec => RestartKeepsPolicy
<1>1. StoredSound
  BY DEF Reliable, StoredSound
<1>2. PersistentSpec => []PInv
  BY <1>1, PersistentInitInv, PersistentNextInv, PTL DEF PersistentSpec
<1>3. PInv /\ [PersistentNext]_allVars => [DurablePolicy!Next]_DurablePolicy!policyVars
  BY PersistentStepMapped
<1> QED
  BY <1>2, <1>3, PersistentInitMapped, PTL
  DEF PersistentSpec, RestartKeepsPolicy, DurablePolicy!Spec

=============================================================================
