---------------------------- MODULE MCEntityFilter ----------------------------
(* Instances of EntityFilter for TLC. *)
EXTENDS EntityFilter, TLC

OneThreshold == [cpu |-> 3]
NoWeights == <<>>
=============================================================================
