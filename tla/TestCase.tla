------------------------------- MODULE TestCase -------------------------------
(***************************************************************************)
(* A test case of the test bed (test_case.go) that runs one of the         *)
(* scenarios of tests/scenarios.go: the driver of the test, the load       *)
(* generator, the collector as a child process with its watcher, and the   *)
(* mock backend.                                                           *)
(*                                                                         *)
(* The collector itself is external: a queue of bounded size that refuses  *)
(* what does not fit, exports with retries, gives up waiting for an answer *)
(* and sends again, and loses what it holds when it ends.                  *)
(***************************************************************************)
EXTENDS LoadGenerator, MockBackend, ChildProcess, Sequences

CONSTANTS
  Scenario,     \* the scenarios that are run
  QueueSize,    \* queue of the collector's exporter
  MaxTimeouts   \* bound on the answers the exporter gives up waiting for

VARIABLES
  scenario,     \* the scenario, fixed by Init
  pc,           \* index of the driver's step in Steps
  phase,        \* where the driver is in the handshake of step "feed"
  channel,      \* dataChannel of the scenario
  backend,      \* MockBackend: Start, Stop; isStarted when neither new nor failed
  errorSignal,  \* closed by indicateError
  failed,       \* t.Failed()
  verdict,      \* of ValidateData
  report,       \* of RecordResults
  queue,        \* external: batches the collector holds
  exports,      \* external: requests whose answer the collector awaits
  timeouts,     \* external: answers it did not await
  refusedLog    \* external: agent.log says that data was refused

testVars == <<scenario, pc, phase, channel, backend, errorSignal, failed, verdict, report>>
agentVars == <<queue, exports, timeouts, refusedLog>>
vars == <<loadVars, backendVars, processVars, testVars, agentVars>>

-----------------------------------------------------------------------------
\* The calls each scenario makes, in order
Scenario10kItemsPerSecond ==
  <<"backend", "agent", "ready", "load", "waitSent", "sleep", "stopLoad", "waitAll", "validate">>

Scenario10kItemsPerSecondAlternateBackend == Scenario10kItemsPerSecond

Scenario1kSPSWithAttrs ==
  <<"backend", "agent", "ready", "load", "sleep", "stopLoad", "waitSent", "waitAll", "validate">>

ScenarioTestTraceNoBackend10kSPS == <<"backend", "agent", "ready", "load", "sleep", "memory">>

ScenarioSendingQueuesFull ==
  <<"record", "backend", "agent", "ready", "load", "waitSent", "feed", "waitReceived",
    "waitRetried", "stopLoad", "stopAgent", "validate">>

ScenarioSendingQueuesNotFull ==
  <<"backend", "agent", "ready", "load", "sleep", "waitSent", "waitAll", "stopLoad",
    "stopAgent", "validate">>

ScenarioLong ==
  <<"backend", "agent", "ready", "load", "waitSent", "sleep", "stopLoad", "waitAll", "validate">>

ScenarioMemoryLimiterHit ==
  <<"record", "backend", "agent", "ready", "load", "waitSent", "feed", "waitReceived",
    "stopLoad", "waitAll", "waitRetried", "stopAgent", "validate">>

\* TestCase.Stop, deferred or registered as a clean-up by every scenario
Stop == <<"stopLoad", "stopAgent", "stopBackend", "report">>

Script(s) ==
  CASE s = "10kItemsPerSecond"    -> Scenario10kItemsPerSecond
    [] s = "10kAlternateBackend"  -> Scenario10kItemsPerSecondAlternateBackend
    [] s = "1kSPSWithAttrs"       -> Scenario1kSPSWithAttrs
    [] s = "TraceNoBackend"       -> ScenarioTestTraceNoBackend10kSPS
    [] s = "SendingQueuesFull"    -> ScenarioSendingQueuesFull
    [] s = "SendingQueuesNotFull" -> ScenarioSendingQueuesNotFull
    [] s = "Long"                 -> ScenarioLong
    [] s = "MemoryLimiterHit"     -> ScenarioMemoryLimiterHit

\* A backend that does not start fails the test, and FailNow ends the scenario.
Body == IF backend = "failed" THEN <<>> ELSE Script(scenario)

Steps == Body \o Stop

Fed == {"SendingQueuesFull", "MemoryLimiterHit"}   \* with GenerateNonPernamentErrorUntil
ByCounters == {"10kItemsPerSecond", "10kAlternateBackend", "1kSPSWithAttrs"}
Unlimited == {"Long", "MemoryLimiterHit"}          \* without WithResourceLimits

ASSUME TestCaseAssumption ==
  /\ Scenario \subseteq {"10kItemsPerSecond", "10kAlternateBackend", "1kSPSWithAttrs", "TraceNoBackend",
                         "SendingQueuesFull", "SendingQueuesNotFull", "Long", "MemoryLimiterHit"}
  /\ IsFiniteSet(Handlers)
  /\ Batch = 1 .. MaxBatches /\ NoBatch = 0
  /\ QueueSize \in Nat \ {0}
  /\ MaxTimeouts \in Nat

TypeOK ==
  /\ LoadTypeOK /\ BackendTypeOK /\ ProcessTypeOK
  /\ scenario \in Scenario
  /\ pc \in 1 .. Len(Steps) + 1
  /\ phase \in {"ready", "offering", "paused"}
  /\ channel \in {"none", "open", "closed"}
  /\ backend \in {"new", "failed", "started", "stopping", "stopped"}
  /\ errorSignal \in BOOLEAN /\ failed \in BOOLEAN /\ refusedLog \in BOOLEAN
  /\ verdict \in {"none", "skipped", "passed", "failed"}
  /\ report \in {"none", "PASS", "FAIL"}
  /\ queue \in Seq(Batch) /\ Len(queue) <= QueueSize + Cardinality(Handlers)
  /\ exports \subseteq Handlers
  /\ timeouts \in 0 .. MaxTimeouts

\* NewTestCase
Init ==
  /\ LoadInit /\ BackendInit /\ ProcessInit
  /\ scenario \in Scenario
  /\ signal = IF scenario \in Fed THEN "logs" ELSE "traces"
  /\ pc = 1 /\ phase = "ready"
  /\ channel = IF scenario \in Fed THEN "open" ELSE "none"
  /\ backend = "new"
  /\ errorSignal = FALSE /\ failed = FALSE
  /\ verdict = "none" /\ report = "none"
  /\ queue = <<>> /\ exports = {} /\ timeouts = 0 /\ refusedLog = FALSE

-----------------------------------------------------------------------------
At(step) == pc <= Len(Steps) /\ Steps[pc] = step

Done == pc > Len(Steps)

Advance == pc' = pc + 1 /\ phase' = "ready" /\ UNCHANGED scenario

\* What a step of the driver leaves alone unless it says otherwise
Quiet == UNCHANGED <<channel, backend, verdict, report, failed>>

Elsewhere == UNCHANGED <<loadVars, backendVars, processVars, agentVars>>

StartBackend ==
  /\ At("backend") /\ Advance
  /\ backend' = "started"
  /\ UNCHANGED <<channel, errorSignal, failed, verdict, report>> /\ Elsewhere

\* require.NoError: what is left is the deferred Stop.
BackendDoesNotStart ==
  /\ At("backend")
  /\ backend' = "failed" /\ failed' = TRUE
  /\ pc' = 1 /\ UNCHANGED <<scenario, phase>>
  /\ UNCHANGED <<channel, errorSignal, verdict, report>> /\ Elsewhere

Record_ ==
  /\ At("record") /\ Advance
  /\ EnableRecording
  /\ Quiet /\ UNCHANGED <<errorSignal, loadVars, processVars, agentVars>>

\* StartAgent: an agent that does not start is not waited for either, and the
\* scenario goes on.
StartAgent ==
  /\ At("agent") /\ Advance
  /\ StartProcess
  /\ Quiet /\ UNCHANGED <<errorSignal, loadVars, backendVars, agentVars>>

AgentDoesNotStart ==
  /\ At("agent")
  /\ pc' = pc + 2 /\ UNCHANGED <<scenario, phase>>
  /\ errorSignal' = TRUE
  /\ Quiet /\ Elsewhere

StartLoad_ ==
  /\ At("load") /\ Advance
  /\ StartLoad
  /\ Quiet /\ UNCHANGED <<errorSignal, backendVars, processVars, agentVars>>

\* Sleep ends early when an error is signalled; either way it ends.
Sleep ==
  /\ At("sleep") /\ Advance
  /\ Quiet /\ UNCHANGED errorSignal /\ Elsewhere

\* AgentMemoryInfo and the assertions on it
CheckMemory ==
  /\ At("memory") /\ Advance
  /\ failed' \in {failed, TRUE}
  /\ UNCHANGED <<channel, backend, verdict, report, errorSignal>> /\ Elsewhere

-----------------------------------------------------------------------------
\* The conditions the scenarios wait for
Condition ==
  \/ At("ready") /\ proc = "running"
  \/ At("waitSent") /\ sent > 0
  \/ At("waitAll") /\ sent = counter
  \/ At("waitReceived") /\ counter > 0
  \/ At("waitRetried") /\ toRetry \subseteq received

Waiting ==
  \/ At("ready") \/ At("waitSent") \/ At("waitAll") \/ At("waitReceived") \/ At("waitRetried")
  \/ At("feed") /\ phase = "paused"

\* WaitForN: the condition holds, an error is signalled, or time is out; the
\* scenarios do not look at the result.
WaitFor ==
  /\ Waiting /\ Advance
  /\ Condition \/ errorSignal
  /\ Quiet /\ UNCHANGED errorSignal /\ Elsewhere

\* Mutant of WaitTimeout: no error is signalled.
WaitTimeoutSilently ==
  /\ Waiting /\ Advance
  /\ ~Condition
  /\ Quiet /\ UNCHANGED errorSignal /\ Elsewhere

WaitTimeout ==
  /\ Waiting /\ Advance
  /\ ~Condition
  /\ errorSignal' = TRUE
  /\ Quiet /\ Elsewhere

\* The condition of step "feed": agent.log has no refusal yet, so one request
\* is to be told to fail; and that send blocks, error or no error.
FeedNotFound ==
  /\ At("feed") /\ phase = "ready"
  /\ ~refusedLog
  /\ phase' = "offering"
  /\ Quiet /\ UNCHANGED <<scenario, pc, errorSignal>> /\ Elsewhere

Feed(h) ==
  /\ At("feed") /\ phase = "offering"
  /\ Decide(h, "retry")
  /\ phase' = "paused"
  /\ Quiet /\ UNCHANGED <<scenario, pc, errorSignal, loadVars, processVars, agentVars>>

FeedAgain ==
  /\ At("feed") /\ phase = "paused"
  /\ phase' = "ready"
  /\ Quiet /\ UNCHANGED <<scenario, pc, errorSignal>> /\ Elsewhere

\* close panics when the channel is closed already.
CloseChannel == channel' = IF channel = "closed" THEN "panic" ELSE "closed"

\* The refusal is there.  MemoryLimiterHit waits on for ten seconds.
FeedFound ==
  /\ At("feed") /\ phase = "ready"
  /\ refusedLog
  /\ \/ Advance /\ CloseChannel
     \/ scenario = "MemoryLimiterHit" /\ phase' = "paused" /\ UNCHANGED <<scenario, pc, channel>>
  /\ UNCHANGED <<backend, errorSignal, failed, verdict, report>> /\ Elsewhere

-----------------------------------------------------------------------------
StopLoad_ ==
  /\ At("stopLoad")
  /\ \/ StopLoad /\ UNCHANGED <<scenario, pc, phase>>
     \/ stopCall = "returned" /\ Advance /\ UNCHANGED loadVars
  /\ Quiet /\ UNCHANGED <<errorSignal, backendVars, processVars, agentVars>>

StopAgent ==
  /\ At("stopAgent")
  /\ \/ /\ StopCall("test")
        /\ UNCHANGED <<watcher, scenario, pc, phase, errorSignal>>
     \/ /\ Stopping("test")
        /\ UNCHANGED <<scenario, pc, phase, errorSignal>>
     \/ /\ stopper["test"] \in {"ok", "error"} /\ Advance
        /\ errorSignal' = (errorSignal \/ stopper["test"] = "error")
        /\ stopper' = [stopper EXCEPT !["test"] = "out"]
        /\ UNCHANGED <<proc, once, watcher>>
  /\ Quiet /\ UNCHANGED <<loadVars, backendVars, agentVars>>

\* ValidateData with PerfTestValidator, LogPresentValidator and a
\* CorrectnessLogTestValidator that has no data provider
Valid ==
  CASE scenario \in ByCounters            -> sent = counter
    [] scenario = "SendingQueuesFull"    -> refusedLog
    [] scenario = "SendingQueuesNotFull" -> ~refusedLog
    [] OTHER                             -> TRUE

ValidateData ==
  /\ At("validate") /\ Advance
  /\ verdict' = IF errorSignal THEN "skipped" ELSE IF Valid THEN "passed" ELSE "failed"
  /\ failed' = (failed \/ verdict' = "failed")
  /\ UNCHANGED <<channel, backend, report, errorSignal>> /\ Elsewhere

\* MockBackend.Stop: the receiver takes no more requests, and its Shutdown,
\* with a context that has no deadline, waits for those it has.
StopBackend ==
  /\ At("stopBackend")
  /\ \/ backend = "started" /\ backend' = "stopping" /\ UNCHANGED <<scenario, pc, phase>>
     \/ backend = "stopping" /\ (\A h \in Handlers : at[h] = "idle") /\ backend' = "stopped" /\ Advance
     \/ backend \in {"new", "failed"} /\ UNCHANGED backend /\ Advance
  /\ UNCHANGED <<channel, errorSignal, failed, verdict, report>> /\ Elsewhere

RecordResults ==
  /\ At("report") /\ Advance
  /\ report' = IF failed THEN "FAIL" ELSE "PASS"
  /\ UNCHANGED <<channel, backend, errorSignal, failed, verdict>> /\ Elsewhere

Proceed ==
  \/ StartBackend \/ Record_ \/ StartAgent \/ AgentDoesNotStart \/ StartLoad_ \/ Sleep \/ CheckMemory
  \/ WaitFor \/ WaitTimeout
  \/ FeedNotFound \/ FeedFound \/ FeedAgain \/ \E h \in Handlers : Feed(h)
  \/ StopLoad_ \/ StopAgent \/ ValidateData \/ StopBackend \/ RecordResults

Drive == Proceed \/ BackendDoesNotStart

-----------------------------------------------------------------------------
\* The goroutine around WatchResourceConsumption (StartAgent)
WatchStep ==
  /\ \/ scenario \in Unlimited /\ WatchNothing /\ UNCHANGED errorSignal
     \/ scenario \notin Unlimited /\ Watch /\ UNCHANGED errorSignal
     \/ scenario \notin Unlimited /\ WatchFails /\ errorSignal' = TRUE
  /\ UNCHANGED <<loadVars, backendVars, scenario, pc, phase, agentVars>> /\ Quiet

Trip ==
  /\ OverLimit
  /\ UNCHANGED <<loadVars, backendVars, testVars, agentVars>>

\* External: the collector ends, and what it held is lost.
AgentEnds ==
  /\ Die \/ Terminate
  /\ queue' = <<>> /\ exports' = {}
  /\ UNCHANGED <<loadVars, backendVars, testVars, timeouts, refusedLog>>

AgentUp == proc \in {"running", "terminating"}

\* A worker sends its batch to the collector, which takes or refuses it.
WorkerStep(w) ==
  /\ \/ (Tick(w) \/ EndWorker(w)) /\ UNCHANGED <<queue, refusedLog>>
     \/ AgentUp /\ Len(queue) < QueueSize
        /\ Taken(w) /\ queue' = Append(queue, held[w]) /\ UNCHANGED refusedLog
     \/ AgentUp /\ Len(queue) >= QueueSize
        /\ (SendAgain(w) \/ GiveUp(w)) /\ refusedLog' = TRUE /\ UNCHANGED queue
     \/ ~AgentUp /\ (SendAgain(w) \/ GiveUp(w)) /\ UNCHANGED <<queue, refusedLog>>
  /\ UNCHANGED <<backendVars, processVars, testVars, exports, timeouts>>

GenerateStep == Generate /\ UNCHANGED <<backendVars, processVars, testVars, agentVars>>

\* External: the exporter sends, awaits the answer or does not, and sends again.
Export(h) ==
  /\ AgentUp /\ backend = "started" /\ queue # <<>>
  /\ Call(h, Head(queue))
  /\ queue' = Tail(queue) /\ exports' = exports \union {h}
  /\ UNCHANGED <<timeouts, refusedLog>>

ExportTimeout(h) ==
  /\ h \in exports /\ timeouts < MaxTimeouts
  /\ queue' = <<carried[h]>> \o queue /\ exports' = exports \ {h}
  /\ timeouts' = timeouts + 1
  /\ UNCHANGED <<backendVars, refusedLog>>

ExportAnswered(h) ==
  /\ Answered(h)
  /\ queue' = IF h \in exports /\ at[h] = "retry" THEN <<carried[h]>> \o queue ELSE queue
  /\ exports' = exports \ {h}
  /\ UNCHANGED <<timeouts, refusedLog>>

ExportStep(h) ==
  /\ Export(h) \/ ExportAnswered(h)
  /\ UNCHANGED <<loadVars, processVars, testVars>>

AgentGivesUp(h) == ExportTimeout(h) /\ UNCHANGED <<loadVars, processVars, testVars>>

\* The requests of the backend; without a channel, or with a closed one, the
\* decision is nil.
BackendStep(h) ==
  /\ \/ Handle(h)
     \/ channel # "open" /\ Decide(h, "ok")
  /\ UNCHANGED <<loadVars, processVars, testVars, agentVars>>

Next ==
  \/ Drive \/ WatchStep \/ Trip \/ AgentEnds \/ GenerateStep
  \/ \E w \in Workers : WorkerStep(w)
  \/ \E h \in Handlers : ExportStep(h) \/ AgentGivesUp(h) \/ BackendStep(h)

(* The goroutines of the test and of the collector run; nothing makes a     *)
(* measurement exceed a limit, an answer come too late or a process die,    *)
(* but SIGKILL makes a process that terminates end.  WaitForN runs out of    *)
(* time when it comes back to its condition again and again.                *)
Fairness ==
  /\ WF_vars(Drive) /\ SF_vars(WaitTimeout) /\ WF_vars(WatchStep) /\ WF_vars(GenerateStep)
  /\ WF_vars(AgentEnds /\ proc = "terminating")
  /\ \A w \in Workers : WF_vars(WorkerStep(w)) /\ SF_vars(WorkerStep(w) /\ EndWorker(w))
  /\ \A h \in Handlers : WF_vars(ExportStep(h)) /\ WF_vars(BackendStep(h))

Spec == Init /\ [][Next]_vars /\ Fairness

-----------------------------------------------------------------------------
(* A result PASS of a scenario that compares the counters means that every  *)
(* batch was received, unless the test knows of an error (which does not    *)
(* make it fail) or the exporter sent something twice, which can stand in   *)
(* for what was lost.                                                       *)
PassMeansDelivered ==
  report = "PASS" /\ scenario \in ByCounters =>
    errorSignal \/ timeouts > 0 \/ counted = 1 .. made

(* A scenario that makes the backend refuse for a while and ends without an *)
(* error has seen the collector refuse data, and every batch the backend    *)
(* asked for again was received.                                            *)
RefusedThenDelivered ==
  report = "PASS" /\ ~errorSignal /\ scenario \in Fed =>
    refusedLog /\ channel = "closed" /\ toRetry \subseteq received

(* When the results are recorded the collector is gone, unless the watcher  *)
(* is stopping it at that moment.                                           *)
AgentGoneUnlessWatched ==
  Done => proc = "none" \/ Gone \/ stopper["watcher"] = "inside"

(* The test ends, whatever the collector does, but for two cases.  The      *)
(* handshake with the backend waits for ever for a request that nobody will *)
(* make, since it looks at neither the error nor the time.  And when the    *)
(* handshake was left because time was out, its channel is open still: a    *)
(* request then waits in the decision function for an answer that nobody    *)
(* gives, and the end of the backend for the request.                       *)
NobodySends == ~AgentUp \/ generator = "done"

TestEnds ==
  \/ <>Done
  \/ <>[](At("feed") /\ phase = "offering" /\ NobodySends)
  \/ <>[](backend = "stopping" /\ channel = "open" /\ \E h \in Handlers : at[h] = "decide")
=============================================================================
