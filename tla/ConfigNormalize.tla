---------------------------- MODULE ConfigNormalize ----------------------------
(***************************************************************************)
(* config.go and newProcessor (processor_init.go:19-68): a configuration   *)
(* from its YAML to the processor that runs with it.                       *)
(*                                                                         *)
(* Fractions are kept in hundredths.  A threshold map that is nil and one  *)
(* that is empty are the same.                                             *)
(***************************************************************************)
EXTENDS Integers

CONSTANT Config   \* the configurations that are tried

maxRetentionMinutes == 30
defaultRetentionMinutes == 30
defaultDynamicSmoothingFactor == 20
defaultCompositeThreshold == 150
maxAnomalyHistorySize == 100
defaultAnomalyHistorySize == 10
defaultAnomalyChangeThreshold == 200
defaultAnomalyMinDataPoints == 3

\* What the types of the fields of Config allow
ASSUME ConfigTypes == \A c \in Config :
  /\ c \in [MetricThresholds : {c.MetricThresholds}, MinThresholds : {c.MinThresholds},
            MaxThresholds : {c.MaxThresholds}, RetentionMinutes : Int,
            EnableStorage : {"nil", "true", "false"},
            EnableDynamicThresholds : BOOLEAN, DynamicSmoothingFactor : Int,
            EnableMultiMetric : BOOLEAN, CompositeThreshold : Int,
            EnableAnomalyDetection : BOOLEAN, AnomalyHistorySize : Int,
            AnomalyChangeThreshold : Int, AnomalyMinDataPoints : Int]
  /\ \A thresholds \in {c.MetricThresholds, c.MinThresholds, c.MaxThresholds} :
       \A m \in DOMAIN thresholds : thresholds[m] \in Int

VARIABLES
  config,      \* *Config
  processor    \* what newProcessor returned

configVars == <<config, processor>>

\* createDefaultConfig: what a field has that the YAML does not set.  It does
\* not set AnomalyMinDataPoints.
createDefaultConfig ==
  [MetricThresholds |-> <<>>, MinThresholds |-> <<>>, MaxThresholds |-> <<>>,
   RetentionMinutes |-> 30, EnableStorage |-> "nil",
   EnableDynamicThresholds |-> FALSE, DynamicSmoothingFactor |-> 20,
   EnableMultiMetric |-> FALSE, CompositeThreshold |-> 150,
   EnableAnomalyDetection |-> FALSE, AnomalyHistorySize |-> 10,
   AnomalyChangeThreshold |-> 200, AnomalyMinDataPoints |-> 0]

ConfigFrom(c) == config = c /\ processor = [status |-> "none"]

ConfigInit == \E c \in Config : ConfigFrom(c)

-----------------------------------------------------------------------------
OrDefault(n, default) == IF n <= 0 THEN default ELSE n
AtMost(n, limit) == IF n > limit THEN limit ELSE n
AtLeast(n, limit) == IF n < limit THEN limit ELSE n
OrDefaultIfZero(n, default) == IF n = 0 THEN default ELSE n

MinDataPointsAsGiven(history, points) ==    \* mutant: not raised to the recommended minimum
  LET given == OrDefault(points, defaultAnomalyMinDataPoints)
  IN IF history < given THEN defaultAnomalyMinDataPoints ELSE given

\* The minimum of data points, when detection is on
MinDataPointsFor(history, points) ==
  LET raised == AtLeast(OrDefault(points, defaultAnomalyMinDataPoints), defaultAnomalyMinDataPoints)
  IN IF history < raised THEN defaultAnomalyMinDataPoints ELSE raised

Normalize(c) ==
  LET history == IF c.EnableAnomalyDetection
                 THEN AtMost(OrDefault(c.AnomalyHistorySize, defaultAnomalyHistorySize),
                             maxAnomalyHistorySize)
                 ELSE OrDefaultIfZero(c.AnomalyHistorySize, defaultAnomalyHistorySize)
  IN [c EXCEPT
       !.RetentionMinutes = AtMost(OrDefault(@, defaultRetentionMinutes), maxRetentionMinutes),
       !.DynamicSmoothingFactor =
         IF c.EnableDynamicThresholds /\ @ \notin 1 .. 100 THEN defaultDynamicSmoothingFactor ELSE @,
       !.CompositeThreshold =
         IF c.EnableMultiMetric THEN OrDefault(@, defaultCompositeThreshold) ELSE @,
       !.AnomalyHistorySize = history,
       !.AnomalyChangeThreshold =
         IF c.EnableAnomalyDetection THEN OrDefault(@, defaultAnomalyChangeThreshold)
         ELSE OrDefaultIfZero(@, defaultAnomalyChangeThreshold),
       !.AnomalyMinDataPoints =
         IF c.EnableAnomalyDetection THEN MinDataPointsFor(history, @)
         ELSE OrDefaultIfZero(@, defaultAnomalyMinDataPoints)]

Negative(thresholds) == \E m \in DOMAIN thresholds : thresholds[m] < 0

\* Weights are not looked at
Validate(c) ==
  /\ ~Negative(c.MetricThresholds) /\ ~Negative(c.MinThresholds) /\ ~Negative(c.MaxThresholds)
  /\ c.EnableAnomalyDetection =>
       c.AnomalyHistorySize > 0 /\ c.AnomalyChangeThreshold > 0 /\ c.AnomalyMinDataPoints > 0
  /\ c.EnableMultiMetric => c.CompositeThreshold > 0

\* newProcessor: dynamic thresholds start as the static ones that are not zero
NewProcessor(c) ==
  [status |-> "running",
   persistence |-> c.EnableStorage # "false",
   dynamic |-> [m \in {n \in DOMAIN c.MetricThresholds : c.MetricThresholds[n] > 0} |->
                  c.MetricThresholds[m]]]

createMetricsProcessor ==
  /\ processor.status = "none"
  /\ config' = Normalize(config)
  /\ processor' = IF Validate(config') THEN NewProcessor(config') ELSE [status |-> "refused"]

ConfigNext == createMetricsProcessor

ConfigSpec == ConfigInit /\ [][ConfigNext]_configVars

-----------------------------------------------------------------------------
(***************************************************************************)
(* Only thresholds below zero are refused: whatever else is out of range,  *)
(* Normalize has repaired before Validate sees it (config.go:70-71).       *)
(***************************************************************************)
RefusesOnlyNegative ==
  processor.status # "none" =>
    (processor.status = "refused" <=>
      Negative(config.MetricThresholds) \/ Negative(config.MinThresholds) \/ Negative(config.MaxThresholds))

(***************************************************************************)
(* A processor that runs has the configuration the filter is modelled      *)
(* with (ConfigAssumption of EntityFilter), and normalizing it again,      *)
(* which a second newProcessor with the same Config does, changes nothing. *)
(***************************************************************************)
RunsNormalized ==
  processor.status = "running" =>
    /\ config.RetentionMinutes \in 1 .. 30
    /\ config.EnableDynamicThresholds => config.DynamicSmoothingFactor \in 1 .. 100
    /\ config.EnableMultiMetric => config.CompositeThreshold > 0
    /\ config.EnableAnomalyDetection =>
         /\ config.AnomalyHistorySize \in 1 .. 100
         /\ config.AnomalyMinDataPoints >= 3
         /\ config.AnomalyChangeThreshold > 0
    /\ \A m \in DOMAIN config.MetricThresholds :
         m \in DOMAIN processor.dynamic <=> config.MetricThresholds[m] # 0
    /\ Normalize(config) = config

NormalizedIsConfig == RefusesOnlyNegative /\ RunsNormalized

=============================================================================
