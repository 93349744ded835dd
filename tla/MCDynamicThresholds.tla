-------------------------- MODULE MCDynamicThresholds --------------------------
(* Instances of DynamicThresholds for TLC. *)
EXTENDS DynamicThresholds, TLC

\* One metric, whose static threshold is below its minimum.
CpuOnly == [cpu |-> 4]
CpuFrom5 == [cpu |-> 5]
Unlimited == <<>>
=============================================================================
