--------------------------- MODULE RetentionPolicy ---------------------------
(***************************************************************************)
(* What the adaptive telemetry processor promises about one resource at a  *)
(* time, without saying how it decides that a report is interesting: a     *)
(* resource that exceeded a limit stays in the output for Retention        *)
(* minutes, nothing else prolongs that, and a resource with neither an     *)
(* exceeded limit nor an anomaly to remember is dropped.  The two windows  *)
(* are independent (types.go:19), unless CleanupForgets allows a clean-up  *)
(* to end the window of an anomaly early.                                  *)
(*                                                                         *)
(* Time is kept as ages in whole minutes.  Every comparison the processor  *)
(* makes is with the retention window, so ages above it are one value:     *)
(* Never also stands for "not once".                                       *)
(***************************************************************************)
EXTENDS Naturals

CONSTANTS
  Resource,      \* identities of the reported resources
  Retention,     \* length of the retention window in minutes, at least 1
  CleanupForgets \* a clean-up may end the window of an anomaly early

VARIABLES
  sinceExceeded, \* sinceExceeded[r] = age of the last exceeded limit of r
  sinceAnomaly,  \* sinceAnomaly[r] = age of the last anomaly remembered of r
  verdict        \* verdict[r] = what happened to the last report of r

policyVars == <<sinceExceeded, sinceAnomaly, verdict>>

Never == Retention + 1
Age == 0 .. Never
Older(age) == IF age < Never THEN age + 1 ELSE age

Verdict == {"none", "exempt", "exceeded", "anomaly", "retained", "dropped"}

PolicyTypeOK ==
  /\ sinceExceeded \in [Resource -> Age]
  /\ sinceAnomaly \in [Resource -> Age]
  /\ verdict \in [Resource -> Verdict]

Init ==
  /\ sinceExceeded = [r \in Resource |-> Never]
  /\ sinceAnomaly = [r \in Resource |-> Never]
  /\ verdict = [r \in Resource |-> "none"]

Judge(r, v) == verdict' = [verdict EXCEPT ![r] = v]

\* A report of r that is over a limit, or that must always pass.
Exceed(r) ==
  /\ sinceExceeded' = [sinceExceeded EXCEPT ![r] = 0]
  /\ Judge(r, "exceeded")
  /\ UNCHANGED sinceAnomaly

\* A report of r that is far above its own past.
Spike(r) ==
  /\ sinceAnomaly' = [sinceAnomaly EXCEPT ![r] = 0]
  /\ Judge(r, "anomaly")
  /\ UNCHANGED sinceExceeded

\* A quiet report of r inside a window: it passes and renews nothing.
Retain(r) ==
  /\ sinceExceeded[r] < Retention \/ sinceAnomaly[r] < Retention
  /\ Judge(r, "retained")
  /\ UNCHANGED <<sinceExceeded, sinceAnomaly>>

\* A quiet report of r outside both windows.
Drop(r) ==
  /\ sinceExceeded[r] >= Retention
  /\ sinceAnomaly[r] >= Retention
  /\ Judge(r, "dropped")
  /\ UNCHANGED <<sinceExceeded, sinceAnomaly>>

\* A report the processor was not asked to judge.
Exempt(r) ==
  /\ Judge(r, "exempt")
  /\ UNCHANGED <<sinceExceeded, sinceAnomaly>>

\* Only if it is allowed to, the processor forgets anomalies of resources that
\* exceeded no limit within the window; it may never forget an exceeded limit.
Forget ==
  /\ CleanupForgets
  /\ \E S \in SUBSET {r \in Resource : sinceExceeded[r] = Never} :
       sinceAnomaly' = [r \in Resource |-> IF r \in S THEN Never ELSE sinceAnomaly[r]]
  /\ UNCHANGED <<sinceExceeded, verdict>>

Minute ==
  /\ sinceExceeded' = [r \in Resource |-> Older(sinceExceeded[r])]
  /\ sinceAnomaly' = [r \in Resource |-> Older(sinceAnomaly[r])]
  /\ UNCHANGED verdict

Next ==
  \/ \E r \in Resource : Exceed(r) \/ Spike(r) \/ Retain(r) \/ Drop(r) \/ Exempt(r)
  \/ Forget
  \/ Minute

Spec == Init /\ [][Next]_policyVars
=============================================================================
