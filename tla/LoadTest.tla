------------------------------- MODULE LoadTest -------------------------------
(***************************************************************************)
(* A load generator that sends straight into the mock backend, as in       *)
(* TestGeneratorAndBackend and, through a collector without queue and      *)
(* retry, in TestSporadicGoldenDataset: request w of the backend is the    *)
(* send of worker w, and its result is what the sender returns.            *)
(***************************************************************************)
EXTENDS LoadGenerator, MockBackend

CONSTANTS
  Outcomes  \* what the decision function of the backend may answer

ASSUME WiringAssumption ==
  /\ Outcomes \subseteq {"ok", "retry", "permanent"}
  /\ Handlers = Workers
  /\ Batch = 1 .. MaxBatches
  /\ NoBatch = 0

vars == <<loadVars, backendVars>>

TypeOK == LoadTypeOK /\ BackendTypeOK

Init == LoadInit /\ BackendInit

\* The sender of w sends its batch, for the first time or again.
Send(w) ==
  /\ worker[w] = "sending"
  /\ Call(w, held[w])
  /\ UNCHANGED loadVars

\* The sender returns the result of the backend to the worker.
SenderReturns(w) ==
  /\ Answered(w)
  /\ \/ at[w] = "ok" /\ Taken(w)
     \/ at[w] = "permanent" /\ Refused(w)
     \/ at[w] = "retry" /\ (SendAgain(w) \/ GiveUp(w))

WorkerStep(w) ==
  \/ (Tick(w) \/ EndWorker(w)) /\ UNCHANGED backendVars
  \/ Send(w)
  \/ SenderReturns(w)
  \/ (Handle(w) \/ \E o \in Outcomes : Decide(w, o)) /\ UNCHANGED loadVars

GenerateStep == Generate /\ UNCHANGED backendVars

TestStep ==
  \/ (StartLoad \/ StopLoad) /\ UNCHANGED backendVars
  \/ (EnableRecording \/ ClearReceivedItems) /\ UNCHANGED loadVars

Next ==
  \/ \E w \in Workers : WorkerStep(w)
  \/ GenerateStep
  \/ TestStep

(* Goroutines that can run do.  select chooses at random, so a worker that  *)
(* sees the stop signal again and again takes it; a mutex that is free      *)
(* again and again is had in the end.  The test itself may do nothing.      *)
Fairness ==
  /\ WF_vars(GenerateStep)
  /\ \A w \in Workers :
       /\ WF_vars(WorkerStep(w))
       /\ SF_vars(EndWorker(w) /\ UNCHANGED backendVars)
       /\ SF_vars(Lock(w) /\ UNCHANGED loadVars)

Spec == Init /\ [][Next]_vars /\ Fairness

-----------------------------------------------------------------------------
\* Batches drawn whose fate the worker does not know yet
Pending == {w \in Workers : worker[w] = "sending"}

Uncounted == {w \in Pending : held[w] \notin counted}

(* No item is lost from the books: whatever the provider counted as sent is *)
(* counted by the backend, counted as a permanent error, given up after     *)
(* MaxDelay, or still being sent.  The validators of the test bed compare   *)
(* these counters (CorrectnessTestValidator.Validate).                      *)
BooksBalance ==
  sent = counter + permanentErrors + givenUp + Cardinality(Uncounted)

(* Once Stop has returned nothing moves any counter or any data of the      *)
(* backend, so what a test reads then is final (TestGeneratorAndBackend):   *)
(* only the test itself can still clear what was received.                  *)
QuietAfterStop ==
  [][stopCall = "returned" /\ generator = "done" =>
       /\ UNCHANGED <<sent, permanentErrors, nonPermanentErrors, counter, toRetry, dropped>>
       /\ received' = received \/ (received' = {} /\ ClearReceivedItems)]_vars

(* Whatever the backend asked to send again was received in the end, unless *)
(* it was refused for good or given up (getLogsID and                       *)
(* allElementsExistInSlice of scenarios.go).                                *)
RetriedLogsReceived ==
  generator = "done" /\ permanentErrors = 0 /\ givenUp = 0 =>
    toRetry \subseteq counted

(* Stop comes back, whatever the backend answers: MaxDelay ends the retries *)
(* that do not look at the stop signal.                                     *)
StopEnds == (stopCall = "waiting" /\ generator # "starting") ~> (stopCall = "returned")
=============================================================================
