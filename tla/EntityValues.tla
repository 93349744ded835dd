------------------------------ MODULE EntityValues ------------------------------
(***************************************************************************)
(* The CurrentValues and MaxValues of one tracked entity, which module     *)
(* EntityFilter leaves out: they are Go maps, and the functions that make  *)
(* an entity store one map in both fields (process_metrics.go).  The state *)
(* file holds a copy of each, so the fields are apart after a restart.     *)
(*                                                                         *)
(* Abstractions.  Values are naturals.  A field is what its map contains,  *)
(* and aliased says whether the two fields are one map.                    *)
(***************************************************************************)
EXTENDS Naturals

CONSTANTS
  Metric,  \* metrics the processor extracts
  Level    \* values they can have

ASSUME LevelAssumption == Level \subseteq Nat

VARIABLES
  exists,   \* the entity is tracked
  current,  \* CurrentValues: metric |-> value
  max,      \* MaxValues: metric |-> value
  aliased,  \* both fields hold the same map
  peak,     \* metric |-> largest value the entity was updated with
  saved     \* the entity in the state file, with its peak

entityVars == <<exists, current, max, aliased, peak, saved>>

Values == UNION {[M -> Level] : M \in SUBSET Metric}
Reports == Values \ {<<>>}  \* only reports with a configured metric get this far
NoEntity == [exists |-> FALSE, current |-> <<>>, max |-> <<>>, peak |-> <<>>]

EntityTypeOK ==
  /\ exists \in BOOLEAN
  /\ aliased \in BOOLEAN
  /\ {current, max, peak} \subseteq Values
  /\ saved \in [exists : BOOLEAN, current : Values, max : Values, peak : Values]

EntityInit ==
  /\ exists = FALSE
  /\ current = <<>>
  /\ max = <<>>
  /\ aliased = FALSE
  /\ peak = <<>>
  /\ saved = NoEntity

At(map, m) == IF m \in DOMAIN map THEN map[m] ELSE 0

\* map, with the entries of values for the metrics in M written over it.
Written(map, values, M) ==
  [m \in DOMAIN map \cup M |-> IF m \in M THEN values[m] ELSE map[m]]

\* Mutants of Raised: only metrics with a maximum are looked at; the comparison
\* is left out.
RaisedIfPresent(map, values) ==
  Written(map, values, {m \in DOMAIN values \cap DOMAIN map : values[m] > At(map, m)})
RaisedAlways(map, values) == Written(map, values, DOMAIN values)

\* The maxima after values; a metric without one counts as zero.
Raised(map, values) ==
  Written(map, values, {m \in DOMAIN values : values[m] > At(map, m)})

\* createNewTrackedEntity, upsertTrackedEntityForIncludeList
Create(values) ==
  /\ ~exists
  /\ exists' = TRUE
  /\ current' = values
  /\ max' = values
  /\ aliased' = TRUE
  /\ peak' = values
  /\ UNCHANGED saved

\* updateEntityValues: through one map, the current value is what it is compared with.
Update(values) ==
  /\ exists
  /\ current' = Written(current, values, DOMAIN values)
  /\ max' = IF aliased THEN current' ELSE Raised(max, values)
  /\ peak' = Written(peak, values,
               {m \in DOMAIN values : m \in DOMAIN peak => values[m] > peak[m]})
  /\ UNCHANGED <<exists, aliased, saved>>

\* cleanupExpiredEntities
Forget ==
  /\ exists
  /\ exists' = FALSE
  /\ current' = <<>>
  /\ max' = <<>>
  /\ aliased' = FALSE
  /\ peak' = <<>>
  /\ UNCHANGED saved

\* persistTrackedEntities
Save ==
  /\ saved' = [exists |-> exists, current |-> current, max |-> max, peak |-> peak]
  /\ UNCHANGED <<exists, current, max, aliased, peak>>

\* loadTrackedEntities in the next process: the decoder makes a map per field.
Restart ==
  /\ exists' = saved.exists
  /\ current' = saved.current
  /\ max' = saved.max
  /\ aliased' = FALSE
  /\ peak' = saved.peak
  /\ UNCHANGED saved

EntityNext ==
  \/ \E values \in Reports : Create(values) \/ Update(values)
  \/ Forget
  \/ Save
  \/ Restart

EntitySpec == EntityInit /\ [][EntityNext]_entityVars

-----------------------------------------------------------------------------
\* updateEntityValues keeps the maxima between the current values and what was
\* really reported, through aliased maps, saves and reloads of older saves.
MaxBetween ==
  \A m \in Metric : At(current, m) <= At(max, m) /\ At(max, m) <= At(peak, m)

\* Once the maps are apart a maximum never falls while the entity lives, except
\* to what a restart reads from the file.
MaxFallsOnlyByRestart ==
  [][exists /\ exists' /\ ~aliased /\ max' # saved.max
       => \A m \in Metric : At(max', m) >= At(max, m)]_entityVars
=============================================================================
