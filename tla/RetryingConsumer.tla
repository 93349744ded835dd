--------------------------- MODULE RetryingConsumer ---------------------------
(***************************************************************************)
(* logsConsumer.ConsumeLogs (consumerretry/logs.go): one call with a batch *)
(* of log records, the retries it makes, and what its caller is told.      *)
(*                                                                         *)
(* The consumer downstream is external.  It takes the whole batch, or      *)
(* fails: permanently, after taking any part; with a consumererror.Logs    *)
(* that names the records it did not take; or with a plain error, when it  *)
(* took nothing.                                                           *)
(***************************************************************************)
EXTENDS Integers

CONSTANTS
  Record,
  MaxElapsedTime,   \* of the configuration; 0 is no limit
  MaxInterval,      \* the largest delay between two attempts
  MaxCallTime       \* bound on the time one downstream call takes

ASSUME RetryAssumption ==
  /\ MaxElapsedTime \in Nat
  /\ MaxInterval \in Nat
  /\ MaxCallTime \in Nat

VARIABLES
  enabled,    \* Config.Enabled
  logs,       \* the records the next attempt sends
  attempt,    \* "calling", "failed", "waiting", "returned"
  err,        \* kind of the last error
  told,       \* the records the last error names as not taken
  elapsed,    \* time since expBackoff.Reset()
  cancelled,  \* ctx.Done()
  accepted,   \* external: record -> how often downstream took it
  dropped     \* external: records a permanent error gave up

retryVars == <<enabled, logs, attempt, err, told, elapsed, cancelled, accepted, dropped>>

Clock == 0 .. MaxElapsedTime + MaxInterval + MaxCallTime   \* it is counted to here
Later(d) == IF elapsed + d \in Clock THEN elapsed + d ELSE elapsed

RetryFrom(retries) ==
  /\ enabled = retries
  /\ logs = Record
  /\ attempt = "calling"
  /\ err = "nil"
  /\ told = {}
  /\ elapsed = 0
  /\ cancelled = FALSE
  /\ accepted = [r \in Record |-> 0]
  /\ dropped = {}

RetryInit == \E retries \in BOOLEAN : RetryFrom(retries)

-----------------------------------------------------------------------------
Take(S) == accepted' = [r \in Record |-> IF r \in S THEN accepted[r] + 1 ELSE accepted[r]]

CallTakes == \E d \in 0 .. MaxCallTime : elapsed' = Later(d)

\* err == nil, or a consumer that does not retry (logs.go:41-48)
Succeed ==
  /\ attempt = "calling"
  /\ Take(logs)
  /\ attempt' = "returned"
  /\ err' = "nil" /\ told' = {}
  /\ CallTakes
  /\ UNCHANGED <<enabled, logs, cancelled, dropped>>

\* consumererror.IsPermanent: the data are dropped, with or without retries
FailPermanently ==
  /\ attempt = "calling"
  /\ \E S \in SUBSET logs : Take(S) /\ dropped' = logs \ S
  /\ attempt' = "returned"
  /\ err' = "permanent" /\ told' = {}
  /\ CallTakes
  /\ UNCHANGED <<enabled, logs, cancelled>>

AfterFailure == IF enabled THEN "failed" ELSE "returned"

FailPartiallyKeepingAll ==   \* mutant: the batch is not narrowed
  /\ attempt = "calling"
  /\ \E S \in SUBSET logs \ {{}} : Take(logs \ S) /\ told' = S
  /\ attempt' = AfterFailure
  /\ err' = "partial"
  /\ CallTakes
  /\ UNCHANGED <<enabled, logs, cancelled, dropped>>

\* errors.As: only the records the error carries are sent again
FailPartially ==
  /\ attempt = "calling"
  /\ \E S \in SUBSET logs \ {{}} :
       /\ Take(logs \ S)
       /\ told' = S
       /\ logs' = IF enabled THEN S ELSE logs
  /\ attempt' = AfterFailure
  /\ err' = "partial"
  /\ CallTakes
  /\ UNCHANGED <<enabled, cancelled, dropped>>

\* A plain error names nothing: to the caller, all it passed was not taken
Fail ==
  /\ attempt = "calling"
  /\ attempt' = AfterFailure
  /\ err' = "plain" /\ told' = Record
  /\ CallTakes
  /\ UNCHANGED <<enabled, logs, cancelled, accepted, dropped>>

\* NextBackOff stops rather than let the delay pass MaxElapsedTime
BackOff ==
  /\ attempt = "failed"
  /\ \E delay \in 0 .. MaxInterval :
       IF MaxElapsedTime # 0 /\ elapsed + delay > MaxElapsedTime
       THEN attempt' = "returned" /\ UNCHANGED elapsed
       ELSE attempt' = "waiting" /\ elapsed' = Later(delay)
  /\ UNCHANGED <<enabled, logs, err, told, cancelled, accepted, dropped>>

\* The select at the end of the loop; when both are ready either may win
Resend ==
  /\ attempt = "waiting"
  /\ attempt' = "calling"
  /\ UNCHANGED <<enabled, logs, err, told, elapsed, cancelled, accepted, dropped>>

GiveUp ==
  /\ attempt = "waiting" /\ cancelled
  /\ attempt' = "returned"
  /\ UNCHANGED <<enabled, logs, err, told, elapsed, cancelled, accepted, dropped>>

\* The caller's context ends, at any moment of the call
Cancel ==
  /\ attempt # "returned" /\ ~cancelled
  /\ cancelled' = TRUE
  /\ UNCHANGED <<enabled, logs, attempt, err, told, elapsed, accepted, dropped>>

RetryNext ==
  \/ Succeed \/ FailPermanently \/ FailPartially \/ Fail
  \/ BackOff \/ Resend \/ GiveUp \/ Cancel

RetrySpec == RetryInit /\ [][RetryNext]_retryVars

-----------------------------------------------------------------------------
RetryTypeOK ==
  /\ enabled \in BOOLEAN /\ cancelled \in BOOLEAN
  /\ logs \in SUBSET Record /\ told \in SUBSET Record /\ dropped \in SUBSET Record
  /\ attempt \in {"calling", "failed", "waiting", "returned"}
  /\ err \in {"nil", "permanent", "partial", "plain"}
  /\ elapsed \in Clock
  /\ accepted \in [Record -> Nat]

Taken == {r \in Record : accepted[r] # 0}

(***************************************************************************)
(* No retry sends a record that was taken before (logs.go:86-88 narrows    *)
(* the batch, again and again); no error is success to the caller while a  *)
(* record is missing; and a caller that sends again what the error it got  *)
(* names loses nothing but what a permanent error gave up.  It may repeat  *)
(* records: a plain error after a partial one no longer tells which were   *)
(* taken.                                                                  *)
(***************************************************************************)
TakenOnceOrTold ==
  /\ \A r \in Record : accepted[r] <= 1
  /\ attempt = "returned" /\ err = "nil" => Taken = Record
  /\ attempt = "returned" => Record \ Taken \subseteq told \cup dropped

=============================================================================
