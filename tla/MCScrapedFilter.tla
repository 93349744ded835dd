--------------------------- MODULE MCScrapedFilter ---------------------------
(* Instances of ScrapedFilter for TLC. *)
EXTENDS ScrapedFilter, TLC

\* Two watched metrics, one of them with the limit zero, and one metric that
\* only has a weight.
CpuAndZero == [cpu |-> 2, mem |-> 0]
ThreeWeights == [cpu |-> 2, mem |-> 2, io |-> 2]
=============================================================================
