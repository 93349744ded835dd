---------------------------- MODULE ScrapedFilter ----------------------------
(***************************************************************************)
(* EntityFilter under its environment's schedule: receivers scrape on an   *)
(* interval, so a resource that lives is reported again and again, whether *)
(* or not a report changes anything in the table.  Most do not: a resource *)
(* that is quiet and untracked leaves everything as it was.  The parity of *)
(* the number of reports makes each of them a step that fairness counts.   *)
(***************************************************************************)
EXTENDS EntityFilter

VARIABLE
  parity    \* of the number of reports so far

scrapedVars == <<vars, parity>>

ScrapedInit == Init /\ parity = 0

Scrape(r) ==
  /\ parity' = 1 - parity
  /\ \E values \in Samples : Report(r, values)

CleanUp == UNCHANGED parity /\ CleanupExpired
Pass == UNCHANGED parity /\ Minute

ScrapedNext ==
  \/ \E r \in Resource : Scrape(r)
  \/ CleanUp
  \/ UNCHANGED parity /\ AdjustThresholds
  \/ Pass
  \/ \E r \in Resource : UNCHANGED parity /\ Exit(r)

(* A living resource is scraped for ever; a clean-up that stays possible   *)
(* happens, being drawn with a fixed probability after every batch; time   *)
(* passes.                                                                 *)
Fairness ==
  /\ WF_scrapedVars(Pass)
  /\ WF_scrapedVars(CleanUp)
  /\ \A r \in Resource : WF_scrapedVars(Scrape(r))

ScrapedSpec == ScrapedInit /\ [][ScrapedNext]_scrapedVars /\ Fairness

-----------------------------------------------------------------------------
\* Retention cannot feed itself: a resource that keeps being reported and, from
\* some time on, is never again over a limit or anomalous is dropped for good.
QuietStages == RetentionStages \cup {"excluded"}
EventuallyDropped ==
  \A r \in Resource :
    <>[](r \in alive /\ stage[r] \in QuietStages) => <>[](stage[r] = "excluded")

\* The table does not leak: as long as anything is still reported, the entity of
\* a resource that went away is removed.
EventuallyForgotten ==
  \A r \in Resource :
    r \notin alive ~> (tracked[r] = Absent \/ alive = {})
=============================================================================
