------------------------------ MODULE MockBackend ------------------------------
(***************************************************************************)
(* The backend of the test bed (mock_backend.go): concurrent requests of   *)
(* one signal, each accepted or refused by a decision function, recorded   *)
(* under a mutex and counted by an atomic counter.                         *)
(*                                                                         *)
(* Abstractions.  A batch is an identity, and the counter of items counts  *)
(* batches.  A slice of received data is the set of its batches.  Whoever  *)
(* calls the backend is another module: it starts a request with Call and  *)
(* takes its result with Answered.                                         *)
(***************************************************************************)
EXTENDS Naturals, FiniteSets

CONSTANTS
  Handlers,  \* requests the receiver serves at a time
  Batch,     \* identities of batches
  NoBatch

ASSUME BackendAssumption == NoBatch \notin Batch /\ "free" \notin Handlers

VARIABLES
  signal,     \* the signal of the pipeline
  recording,  \* isRecording
  mutex,      \* the request that holds recordMutex, or "free"
  at,         \* at[h] = where request h is
  carried,    \* carried[h] = its batch
  copy,       \* copy[h] = the slice of dropped data it has read to append to it
  received,   \* ReceivedTraces, ReceivedMetrics or ReceivedLogs
  dropped,    \* DroppedTraces, DroppedMetrics or DroppedLogs
  toRetry,    \* LogsToRetry
  counter,    \* DataItemsReceived, in batches
  counted,    \* auxiliary: which batches the counter stands for
  excused     \* auxiliary: batches that came before recording or were cleared

backendVars == <<signal, recording, mutex, at, carried, copy, received, dropped,
                 toRetry, counter, counted, excused>>

Signal == {"traces", "metrics", "logs"}
Result == {"ok", "retry", "permanent"}

BackendTypeOK ==
  /\ signal \in Signal
  /\ recording \in BOOLEAN
  /\ mutex \in Handlers \union {"free"}
  /\ at \in [Handlers -> Result \union {"idle", "called", "decide", "record", "count", "drop"}]
  /\ carried \in [Handlers -> Batch \union {NoBatch}]
  /\ copy \in [Handlers -> SUBSET Batch]
  /\ received \subseteq Batch /\ dropped \subseteq Batch /\ toRetry \subseteq Batch
  /\ counter \in Nat /\ counted \subseteq Batch /\ excused \subseteq Batch

\* NewMockBackend, for a pipeline of one signal
BackendInit ==
  /\ signal \in Signal
  /\ recording = FALSE
  /\ mutex = "free"
  /\ at = [h \in Handlers |-> "idle"]
  /\ carried = [h \in Handlers |-> NoBatch]
  /\ copy = [h \in Handlers |-> {}]
  /\ received = {} /\ dropped = {} /\ toRetry = {}
  /\ counter = 0 /\ counted = {} /\ excused = {}

-----------------------------------------------------------------------------
\* A receiver calls the consumer of its signal.
Call(h, b) ==
  /\ at[h] = "idle"
  /\ at' = [at EXCEPT ![h] = IF signal = "logs" THEN "called" ELSE "decide"]
  /\ carried' = [carried EXCEPT ![h] = b]
  /\ UNCHANGED <<signal, recording, mutex, copy, received, dropped, toRetry, counter, counted, excused>>

\* MockLogConsumer.ConsumeLogs takes the record mutex before it decides.
Lock(h) ==
  /\ at[h] = "called"
  /\ mutex = "free"
  /\ mutex' = h
  /\ at' = [at EXCEPT ![h] = "decide"]
  /\ UNCHANGED <<signal, recording, carried, copy, received, dropped, toRetry, counter, counted, excused>>

\* Mutant of DecideUnlocked: traces are counted first.
DecideCountFirst(h, outcome) ==
  /\ at[h] = "decide"
  /\ signal # "logs"
  /\ at' = [at EXCEPT ![h] =
       CASE outcome = "ok"        -> "count"
         [] outcome = "permanent" -> IF recording THEN "drop" ELSE "permanent"
         [] outcome = "retry"     -> "retry"]
  /\ copy' = [copy EXCEPT ![h] = IF outcome = "permanent" /\ recording THEN dropped ELSE @]
  /\ UNCHANGED <<signal, recording, mutex, carried, received, dropped, toRetry, counter, counted, excused>>

\* MockTraceConsumer.ConsumeTraces and MockMetricConsumer.ConsumeMetrics up to
\* the first access that another request can see: no mutex is held, and a
\* permanent error reads the dropped data it will append to.
DecideUnlocked(h, outcome) ==
  /\ at[h] = "decide"
  /\ signal # "logs"
  /\ at' = [at EXCEPT ![h] =
       CASE outcome = "ok"        -> IF signal = "traces" THEN "record" ELSE "count"
         [] outcome = "permanent" -> IF recording THEN "drop" ELSE "permanent"
         [] outcome = "retry"     -> "retry"]
  /\ copy' = [copy EXCEPT ![h] = IF outcome = "permanent" /\ recording THEN dropped ELSE @]
  /\ UNCHANGED <<signal, recording, mutex, carried, received, dropped, toRetry, counter, counted, excused>>

\* The append that was read is written back.
AppendDropped(h) ==
  /\ at[h] = "drop"
  /\ dropped' = copy[h] \union {carried[h]}
  /\ copy' = [copy EXCEPT ![h] = {}]
  /\ at' = [at EXCEPT ![h] = "permanent"]
  /\ UNCHANGED <<signal, recording, mutex, carried, received, toRetry, counter, counted, excused>>

\* ConsumeTrace and ConsumeMetric take the mutex to record, and the request
\* that records logs has held it since it began.
Record(h) ==
  /\ at[h] = "record"
  /\ mutex = IF signal = "logs" THEN h ELSE "free"
  /\ mutex' = "free"
  /\ received' = IF recording THEN received \union {carried[h]} ELSE received
  /\ at' = [at EXCEPT ![h] = IF signal = "traces" THEN "count" ELSE "ok"]
  /\ UNCHANGED <<signal, recording, carried, copy, dropped, toRetry, counter, counted, excused>>

\* The counters are atomic: who reads them takes no mutex.  Traces are recorded
\* before they are counted, metrics and logs after that.
Count(h) ==
  /\ at[h] = "count"
  /\ counter' = counter + 1
  /\ counted' = counted \union {carried[h]}
  /\ at' = [at EXCEPT ![h] = IF signal = "traces" THEN "ok" ELSE "record"]
  /\ UNCHANGED <<signal, recording, mutex, carried, copy, received, dropped, toRetry, excused>>

\* MockLogConsumer.ConsumeLogs decides under the mutex.  An error is noted and
\* returned; without one the mutex stays with the request until it has recorded.
DecideLogs(h, outcome) ==
  /\ at[h] = "decide"
  /\ signal = "logs"
  /\ LET noted(s, wanted) == IF recording /\ outcome = wanted THEN s \union {carried[h]} ELSE s
     IN /\ toRetry' = noted(toRetry, "retry")
        /\ dropped' = noted(dropped, "permanent")
  /\ mutex' = IF outcome = "ok" THEN mutex ELSE "free"
  /\ at' = [at EXCEPT ![h] = IF outcome = "ok" THEN "count" ELSE outcome]
  /\ UNCHANGED <<signal, recording, carried, copy, received, counter, counted, excused>>

Decide(h, outcome) == DecideUnlocked(h, outcome) \/ DecideLogs(h, outcome)

Handle(h) == Lock(h) \/ AppendDropped(h) \/ Record(h) \/ Count(h)

\* The caller has the result of request h.
Answered(h) ==
  /\ at[h] \in Result
  /\ at' = [at EXCEPT ![h] = "idle"]
  /\ carried' = [carried EXCEPT ![h] = NoBatch]
  /\ UNCHANGED <<signal, recording, mutex, copy, received, dropped, toRetry, counter, counted, excused>>

\* EnableRecording: what has passed Record by then is not recorded.
EnableRecording ==
  /\ ~recording
  /\ mutex = "free"
  /\ recording' = TRUE
  /\ excused' = counted \union {carried[h] : h \in {g \in Handlers : at[g] = "count"}}
  /\ UNCHANGED <<signal, mutex, at, carried, copy, received, dropped, toRetry, counter, counted>>

\* ClearReceivedItems: the counter is cumulative and stays.
ClearReceivedItems ==
  /\ mutex = "free"
  /\ received' = {}
  /\ excused' = excused \union received
  /\ UNCHANGED <<signal, recording, mutex, at, carried, copy, dropped, toRetry, counter, counted>>

-----------------------------------------------------------------------------
\* What a request for logs has counted and not recorded yet
BeingRecorded ==
  {carried[h] : h \in {g \in Handlers : signal = "logs" /\ mutex = g /\ at[g] = "record"}}

(* A batch of traces is recorded before the counter shows it.  Logs are      *)
(* counted first, under the mutex: only the batch whose request holds it at  *)
(* this moment can be missing, so a test that waits for the counter finds    *)
(* everything when it takes the mutex as well (GetReceivedLogs), while one   *)
(* that reads ReceivedLogs without it can miss that batch.  Metrics are      *)
(* counted first and without the mutex, and have no such guarantee.          *)
CountedIsRecorded ==
  recording /\ signal # "metrics" => counted \subseteq received \union excused \union BeingRecorded
=============================================================================
