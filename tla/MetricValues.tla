------------------------------ MODULE MetricValues ------------------------------
(***************************************************************************)
(* composite_metrics.go: the values a reported resource is judged by.      *)
(* extractMetricValues walks its metrics; this module takes one a step.    *)
(*                                                                         *)
(* A metric has a type and data points, which are integers or doubles.     *)
(* DoubleValue of an integer point is zero.                                *)
(***************************************************************************)
EXTENDS Integers, Sequences

LOCAL INSTANCE SequencesExt

CONSTANTS
  Thresholds, Weighted,   \* the metrics with a threshold, and with a weight
  MultiMetric,            \* EnableMultiMetric
  Resources               \* the metrics of a resource: sequences of [name, type, points]

VARIABLES
  metrics,    \* the metrics of the resource
  taken,      \* how many of them the loop has done
  values      \* metric name -> value

metricVars == <<metrics, taken, values>>

MetricFrom(r) ==
  /\ metrics = r
  /\ taken = 0
  /\ values = <<>>

MetricInit == \E r \in Resources : MetricFrom(r)

shouldProcessMetric(name) == name \in Thresholds \/ (MultiMetric /\ name \in Weighted)

DoubleValue(point) == IF point.type = "double" THEN point.value ELSE 0

\* extractGaugeValue, extractSumValue
SumOf(points, Number(_)) == FoldLeft(LAMBDA total, p : total + Number(p), 0, points)

\* A later metric of the same name overrides
TakeMetric ==
  /\ taken < Len(metrics)
  /\ taken' = taken + 1
  /\ LET m == metrics[taken + 1]
     IN values' = IF shouldProcessMetric(m.name) /\ m.type \in {"gauge", "sum"}
                  THEN [n \in DOMAIN values \cup {m.name} |->
                          IF n = m.name THEN SumOf(m.points, DoubleValue) ELSE values[n]]
                  ELSE values
  /\ UNCHANGED metrics

MetricNext == TakeMetric

(***************************************************************************)
(* "Gauge and Sum ... contain direct numeric values suitable for threshold *)
(* comparison" (composite_metrics.go:16): the value a threshold is compared*)
(* with is the sum of the points of the metric, whichever their type.      *)
(***************************************************************************)
ValuesAreSums ==
  \A n \in DOMAIN values : \E i \in 1 .. taken :
    metrics[i].name = n /\ values[n] = SumOf(metrics[i].points, LAMBDA p : p.value)

=============================================================================
