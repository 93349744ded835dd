--------------------------------- MODULE Parts ---------------------------------
(***************************************************************************)
(* The parts of the repository that share no state with each other.  They  *)
(* are checked together, one at a time: subject is the part that moves,    *)
(* and the others stay in one of their initial states.                     *)
(***************************************************************************)
EXTENDS TTLMap, RetryingConsumer, LicenseFiles, ConfigNormalize, DataPoints,
        AttributeActions, ResourceIdentity, MetricValues, EntityValues

CONSTANT Subject

VARIABLE subject

\* What a part that stays is given
SomeRun == CHOOSE r \in Run : TRUE
SomeConfig == CHOOSE c \in Config : TRUE
SomeAggregation == CHOOSE a \in Aggregation : TRUE
SomeProcessing == CHOOSE p \in Processing : TRUE
SomeResource == CHOOSE r \in Resources : TRUE

PartsInit ==
  /\ subject \in Subject
  /\ TTLInit
  /\ IF subject = "retry" THEN RetryInit ELSE RetryFrom(TRUE)
  /\ IF subject = "license" THEN LicenseInit ELSE LicenseFrom(SomeRun)
  /\ IF subject = "config" THEN ConfigInit ELSE ConfigFrom(SomeConfig)
  /\ IF subject = "points" THEN DataInit ELSE DataFrom(SomeAggregation)
  /\ IF subject = "attributes" THEN AttrInit ELSE AttrFrom(SomeProcessing)
  /\ IF subject = "values" THEN MetricInit ELSE MetricFrom(SomeResource)
  /\ ReportInit
  /\ EntityInit

UseTTLMap ==
  /\ subject = "ttl" /\ TTLNext
  /\ UNCHANGED <<subject, retryVars, licenseVars, configVars, dataVars, attrVars,
                 reports, metricVars, entityVars>>

Retry ==
  /\ subject = "retry" /\ RetryNext
  /\ UNCHANGED <<subject, ttlVars, licenseVars, configVars, dataVars, attrVars,
                 reports, metricVars, entityVars>>

License ==
  /\ subject = "license" /\ LicenseNext
  /\ UNCHANGED <<subject, ttlVars, retryVars, configVars, dataVars, attrVars,
                 reports, metricVars, entityVars>>

Configure ==
  /\ subject = "config" /\ ConfigNext
  /\ UNCHANGED <<subject, ttlVars, retryVars, licenseVars, dataVars, attrVars,
                 reports, metricVars, entityVars>>

Aggregate ==
  /\ subject = "points" /\ DataNext
  /\ UNCHANGED <<subject, ttlVars, retryVars, licenseVars, configVars, attrVars,
                 reports, metricVars, entityVars>>

ProcessAttributes ==
  /\ subject = "attributes" /\ AttrNext
  /\ UNCHANGED <<subject, ttlVars, retryVars, licenseVars, configVars, dataVars,
                 reports, metricVars, entityVars>>

Identify ==
  /\ subject = "identity" /\ ReportNext
  /\ UNCHANGED <<subject, ttlVars, retryVars, licenseVars, configVars, dataVars,
                 attrVars, metricVars, entityVars>>

ExtractValues ==
  /\ subject = "values" /\ MetricNext
  /\ UNCHANGED <<subject, ttlVars, retryVars, licenseVars, configVars, dataVars,
                 attrVars, reports, entityVars>>

TrackValues ==
  /\ subject = "entity" /\ EntityNext
  /\ UNCHANGED <<subject, ttlVars, retryVars, licenseVars, configVars, dataVars,
                 attrVars, reports,
                 metricVars>>

PartsNext ==
  \/ UseTTLMap \/ Retry \/ License \/ Configure
  \/ Aggregate \/ ProcessAttributes \/ Identify \/ ExtractValues \/ TrackValues

partsVars == <<subject, ttlVars, retryVars, licenseVars, configVars, dataVars, attrVars,
               reports, metricVars, entityVars>>

PartsSpec == PartsInit /\ [][PartsNext]_partsVars

=============================================================================
