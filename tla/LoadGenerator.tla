----------------------------- MODULE LoadGenerator -----------------------------
(***************************************************************************)
(* The load generator of the test bed (ProviderSender of load_generator.go *)
(* with a provider of data_providers.go): workers that draw a batch at     *)
(* every tick, send it until it is accepted, refused for good or too old,  *)
(* and end when Stop closes the stop signal; and the counters they keep.   *)
(*                                                                         *)
(* Abstractions.  The batches of one generator are 1 .. MaxBatches in the  *)
(* order in which the provider makes them, and a counter of items counts   *)
(* batches, of which all have the same number of items.  Who answers a     *)
(* sender is another module: it leads Taken, Refused and GiveUp.           *)
(***************************************************************************)
EXTENDS Naturals, FiniteSets

CONSTANTS
  Workers,     \* goroutines that send (options.Parallel)
  MaxBatches,  \* bound on the batches the provider makes
  MaxAttempts  \* bound on the sends of a batch within options.MaxDelay

ASSUME GeneratorAssumption ==
  /\ IsFiniteSet(Workers) /\ Workers # {}
  /\ MaxBatches \in Nat
  /\ MaxAttempts \in Nat \ {0}

VARIABLES
  generator,   \* where the goroutine of generate is
  worker,      \* worker[w] = where the worker is
  held,        \* held[w] = the batch it is sending, or 0
  attempts,    \* attempts[w] = how often that batch was refused for now
  made,        \* batches made by the provider
  sent,        \* dataItemsSent, which the provider increases
  permanentErrors, nonPermanentErrors,
  givenUp,     \* auxiliary: batches dropped when MaxDelay was over
  stopSignal,  \* the stop channel is closed
  stopCall     \* the first call of Stop

loadVars == <<generator, worker, held, attempts, made, sent, permanentErrors,
              nonPermanentErrors, givenUp, stopSignal, stopCall>>

LoadTypeOK ==
  /\ generator \in {"new", "starting", "running", "done"}
  /\ worker \in [Workers -> {"off", "select", "sending", "ended"}]
  /\ held \in [Workers -> 0 .. MaxBatches]
  /\ attempts \in [Workers -> 0 .. MaxAttempts]
  /\ made \in 0 .. MaxBatches
  /\ sent \in Nat /\ permanentErrors \in Nat /\ nonPermanentErrors \in Nat /\ givenUp \in Nat
  /\ stopSignal \in BOOLEAN
  /\ stopCall \in {"idle", "waiting", "returned"}

\* NewLoadGenerator
LoadInit ==
  /\ generator = "new"
  /\ worker = [w \in Workers |-> "off"]
  /\ held = [w \in Workers |-> 0]
  /\ attempts = [w \in Workers |-> 0]
  /\ made = 0
  /\ sent = 0 /\ permanentErrors = 0 /\ nonPermanentErrors = 0 /\ givenUp = 0
  /\ stopSignal = FALSE
  /\ stopCall = "idle"

-----------------------------------------------------------------------------
StartLoad ==
  /\ generator = "new"
  /\ generator' = "starting"
  /\ UNCHANGED <<worker, held, attempts, made, sent, permanentErrors, nonPermanentErrors,
                 givenUp, stopSignal, stopCall>>

\* generate: nothing to send, or a sender that does not start, ends it at once.
GenerateNothing ==
  /\ generator = "starting"
  /\ generator' = "done"
  /\ UNCHANGED <<worker, held, attempts, made, sent, permanentErrors, nonPermanentErrors,
                 givenUp, stopSignal, stopCall>>

StartWorkers ==
  /\ generator = "starting"
  /\ generator' = "running"
  /\ worker' = [w \in Workers |-> "select"]
  /\ UNCHANGED <<held, attempts, made, sent, permanentErrors, nonPermanentErrors, givenUp,
                 stopSignal, stopCall>>

\* perfTestDataProvider: atomic counters give every batch its own number.
Make(w) ==
  /\ made < MaxBatches
  /\ made' = made + 1
  /\ sent' = sent + 1
  /\ held' = [held EXCEPT ![w] = made + 1]

\* A tick; when the stop signal is there as well, select takes either.
Tick(w) ==
  /\ worker[w] = "select"
  /\ Make(w)
  /\ worker' = [worker EXCEPT ![w] = "sending"]
  /\ UNCHANGED <<generator, attempts, permanentErrors, nonPermanentErrors, givenUp,
                 stopSignal, stopCall>>

EndWorker(w) ==
  /\ worker[w] = "select"
  /\ stopSignal
  /\ worker' = [worker EXCEPT ![w] = "ended"]
  /\ UNCHANGED <<generator, held, attempts, made, sent, permanentErrors, nonPermanentErrors,
                 givenUp, stopSignal, stopCall>>

\* generateTrace, generateMetrics, generateLog: the batch of w is done with.
Release(w) ==
  /\ worker[w] = "sending"
  /\ worker' = [worker EXCEPT ![w] = "select"]
  /\ held' = [held EXCEPT ![w] = 0]
  /\ attempts' = [attempts EXCEPT ![w] = 0]

Taken(w) ==
  /\ Release(w)
  /\ UNCHANGED <<generator, made, sent, permanentErrors, nonPermanentErrors, givenUp,
                 stopSignal, stopCall>>

\* Mutant of Refused: the items are not counted.
RefusedUncounted(w) ==
  /\ Release(w)
  /\ UNCHANGED <<generator, made, sent, permanentErrors, nonPermanentErrors, givenUp,
                 stopSignal, stopCall>>

Refused(w) ==
  /\ Release(w)
  /\ permanentErrors' = permanentErrors + 1
  /\ UNCHANGED <<generator, made, sent, nonPermanentErrors, givenUp, stopSignal, stopCall>>

\* Mutant of SendAgain: the delay is never over.
SendAgainUnlimited(w) ==
  /\ worker[w] = "sending"
  /\ attempts' = [attempts EXCEPT ![w] = @ + 1]
  /\ nonPermanentErrors' = nonPermanentErrors + 1
  /\ UNCHANGED <<generator, worker, held, made, sent, permanentErrors, givenUp, stopSignal,
                 stopCall>>

\* Mutant of SendAgain: the batch is dropped.
SendAgainNothing(w) ==
  /\ Release(w)
  /\ nonPermanentErrors' = nonPermanentErrors + 1
  /\ UNCHANGED <<generator, made, sent, permanentErrors, givenUp, stopSignal, stopCall>>

\* An error that is not permanent: send again at once, unless MaxDelay is over.
SendAgain(w) ==
  /\ worker[w] = "sending"
  /\ attempts[w] + 1 < MaxAttempts
  /\ attempts' = [attempts EXCEPT ![w] = @ + 1]
  /\ nonPermanentErrors' = nonPermanentErrors + 1
  /\ UNCHANGED <<generator, worker, held, made, sent, permanentErrors, givenUp, stopSignal,
                 stopCall>>

GiveUp(w) ==
  /\ Release(w)
  /\ nonPermanentErrors' = nonPermanentErrors + 1
  /\ givenUp' = givenUp + 1
  /\ UNCHANGED <<generator, made, sent, permanentErrors, stopSignal, stopCall>>

\* Mutant of EndGenerate: does not wait for the workers.
EndGenerateAtOnce ==
  /\ generator = "running" /\ stopSignal
  /\ generator' = "done"
  /\ UNCHANGED <<worker, held, attempts, made, sent, permanentErrors, nonPermanentErrors,
                 givenUp, stopSignal, stopCall>>

\* All workers have ended: Flush, and generate returns.
EndGenerate ==
  /\ generator = "running"
  /\ \A w \in Workers : worker[w] = "ended"
  /\ generator' = "done"
  /\ UNCHANGED <<worker, held, attempts, made, sent, permanentErrors, nonPermanentErrors,
                 givenUp, stopSignal, stopCall>>

\* Stop, and its wait for generate
StopLoad ==
  /\ stopCall = "idle"
  /\ stopSignal' = TRUE
  /\ stopCall' = "waiting"
  /\ UNCHANGED <<generator, worker, held, attempts, made, sent, permanentErrors,
                 nonPermanentErrors, givenUp>>

\* Mutant of StopReturns: waits for a generator that never started.
StopReturnsIfStarted ==
  /\ stopCall = "waiting"
  /\ generator = "done"
  /\ stopCall' = "returned"
  /\ UNCHANGED <<generator, worker, held, attempts, made, sent, permanentErrors,
                 nonPermanentErrors, givenUp, stopSignal>>

StopReturns ==
  /\ stopCall = "waiting"
  /\ generator \in {"new", "done"}
  /\ stopCall' = "returned"
  /\ UNCHANGED <<generator, worker, held, attempts, made, sent, permanentErrors,
                 nonPermanentErrors, givenUp, stopSignal>>

Generate == GenerateNothing \/ StartWorkers \/ EndGenerate \/ StopReturns
=============================================================================
