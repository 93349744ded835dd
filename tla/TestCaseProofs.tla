----------------------------- MODULE TestCaseProofs -----------------------------
(***************************************************************************)
(* What a test of the test bed means when it is over, for any number of    *)
(* workers, requests, batches and answers that come too late.              *)
(*                                                                         *)
(* Every argument is about what the driver has behind it: the scripts of   *)
(* the scenarios fix which call comes before which (Order), and Passed     *)
(* turns that into facts about the state.                                  *)
(***************************************************************************)
EXTENDS TestCase, FiniteSetTheorems, SequenceTheorems, TLAPS

-----------------------------------------------------------------------------
\* The calls a scenario can make
Name == {"record", "backend", "agent", "ready", "load", "sleep", "memory", "feed", "waitSent",
         "waitReceived", "waitRetried", "waitAll", "validate", "stopLoad", "stopAgent"}

\* Every call of t in a script comes after one of s.
Before(script, s, t) ==
  \A i \in DOMAIN script : script[i] = t => \E j \in 1 .. i - 1 : script[j] = s

\* No call of s in a script comes after one of t.
Never(script, s, t) ==
  \A i, j \in DOMAIN script : script[i] = s /\ script[j] = t => i < j

Contains(script, s) == \E i \in DOMAIN script : script[i] = s

\* What the scripts have in common, and what those of Fed and ByCounters have
Order(s, script) ==
  /\ script \in Seq(Name)
  /\ \A i \in DOMAIN script : script[i] = "agent" => i < Len(script) /\ script[i + 1] = "ready"
  /\ Never(script, "agent", "stopAgent")
  /\ Before(script, "load", "stopLoad")
  /\ Contains(script, "load")
  /\ Contains(script, "feed") => s \in Fed
  /\ s \in Fed => /\ Contains(script, "feed") /\ Contains(script, "waitRetried")
                  /\ Never(script, "feed", "waitRetried")
                  /\ \A i, j \in DOMAIN script : script[i] = "feed" /\ script[j] = "feed" => i = j
  /\ s \in ByCounters => Contains(script, "validate") /\ Before(script, "stopLoad", "validate")

\* The driver has a step behind it.
Passed(step) == \E i \in 1 .. pc - 1 : Steps[i] = step

-----------------------------------------------------------------------------
(* The process: sync.Once lets one caller in, and Stop returns to the test   *)
(* when the process is gone, was never started, or is the watcher's to stop. *)
Stopped == proc = "none" \/ Gone \/ stopper["watcher"] = "inside"

OneInside ==
  /\ \A c, d \in Caller : stopper[c] = "inside" /\ stopper[d] = "inside" => c = d /\ once = "busy"
  /\ once = "busy" => \E c \in Caller : stopper[c] = "inside"
  /\ once = "done" => Gone

TestStops ==
  /\ stopper["test"] # "out" => At("stopAgent")
  /\ stopper["test"] \in {"ok", "error"} \/ Passed("stopAgent") => Stopped

(* The handshake: the channel is closed once, by the driver that saw a refusal *)
(* in the log, and whoever waited for the retried batches has seen them.       *)
Handshake ==
  /\ signal = IF scenario \in Fed THEN "logs" ELSE "traces"
  /\ scenario \notin Fed => channel = "none"
  /\ scenario \in Fed /\ ~Passed("feed") /\ backend # "failed" => channel = "open"
  /\ Passed("feed") => errorSignal \/ (refusedLog /\ channel = "closed")
  /\ Passed("waitRetried") => errorSignal \/ toRetry \subseteq received

(* The load: once Stop has returned the generator has ended, or never began. *)
LoadOver ==
  /\ Passed("load") => generator # "new"
  /\ stopCall # "idle" => Passed("load") \/ backend = "failed"
  /\ stopCall = "returned" => generator = "done" \/ backend = "failed"
  /\ Passed("stopLoad") => stopCall = "returned"
  /\ \A w \in Workers : /\ generator \in {"new", "starting"} => worker[w] = "off"
                        /\ generator = "done" => worker[w] \in {"off", "ended"}

(* The result is told from what was found when the data were compared. *)
Results ==
  /\ Passed("validate") => verdict # "none"
  /\ verdict = "skipped" => errorSignal
  /\ verdict = "failed" \/ backend = "failed" => failed
  /\ verdict = "passed" /\ scenario \in ByCounters =>
       timeouts > 0 \/ (counted = 1 .. made /\ generator = "done")
  /\ report # "none" => Passed("report")
  /\ report = "PASS" => ~failed

-----------------------------------------------------------------------------
\* Request h carries a batch that the counter does not have
Underway(h) == at[h] \in {"decide", "record", "count"}

Sending(w) == worker[w] = "sending"

\* What is on its way has been made, and exporters await what is on its way.
Carries ==
  /\ \A w \in Workers : Sending(w) => held[w] \in 1 .. made
  /\ \A h \in Handlers : at[h] # "idle" => carried[h] \in 1 .. made
  /\ \A h \in exports : at[h] # "idle"
  /\ \A i \in DOMAIN queue : queue[i] \in 1 .. made
  /\ Len(queue) + Cardinality(exports) <= QueueSize + Cardinality(Handlers)

(* As long as the exporter has awaited every answer, a batch of traces is in  *)
(* one place: with a worker, in the queue, in a request, or counted, or lost. *)
OnePlace ==
  /\ \A h \in Handlers : Underway(h) \/ at[h] \in {"idle", "ok"}
  /\ \A w, x \in Workers : Sending(w) /\ Sending(x) /\ held[w] = held[x] => w = x
  /\ \A g, h \in Handlers : Underway(g) /\ Underway(h) /\ carried[g] = carried[h] => g = h
  /\ \A i, j \in DOMAIN queue : queue[i] = queue[j] => i = j
  /\ \A w \in Workers : Sending(w) =>
       /\ held[w] \notin counted
       /\ \A i \in DOMAIN queue : held[w] # queue[i]
       /\ \A h \in Handlers : Underway(h) => held[w] # carried[h]
  /\ \A h \in Handlers : Underway(h) =>
       /\ carried[h] \notin counted
       /\ \A i \in DOMAIN queue : carried[h] # queue[i]
  /\ \A i \in DOMAIN queue : queue[i] \notin counted

Once ==
  /\ sent = made /\ counted \subseteq 1 .. made
  /\ scenario \notin Fed /\ timeouts = 0 => OnePlace /\ counter = Cardinality(counted)

IInv == TypeOK /\ OneInside /\ TestStops /\ Handshake /\ LoadOver /\ Results /\ Carries /\ Once

-----------------------------------------------------------------------------
\* The scripts, one by one

LEMMA ByNumber ==
  /\ Order("10kItemsPerSecond", Scenario10kItemsPerSecond)
  /\ Order("10kAlternateBackend", Scenario10kItemsPerSecondAlternateBackend)
  /\ Order("1kSPSWithAttrs", Scenario1kSPSWithAttrs)
BY DEF Order, Name, Never, Before, Contains, Fed, ByCounters, Scenario10kItemsPerSecond,
       Scenario10kItemsPerSecondAlternateBackend, Scenario1kSPSWithAttrs

LEMMA ByTime ==
  /\ Order("TraceNoBackend", ScenarioTestTraceNoBackend10kSPS)
  /\ Order("Long", ScenarioLong)
  /\ Order("SendingQueuesNotFull", ScenarioSendingQueuesNotFull)
BY DEF Order, Name, Never, Before, Contains, Fed, ByCounters, ScenarioTestTraceNoBackend10kSPS,
       ScenarioLong, ScenarioSendingQueuesNotFull

LEMMA ByRefusal ==
  /\ Order("SendingQueuesFull", ScenarioSendingQueuesFull)
  /\ Order("MemoryLimiterHit", ScenarioMemoryLimiterHit)
BY DEF Order, Name, Never, Before, Contains, Fed, ByCounters, ScenarioSendingQueuesFull,
       ScenarioMemoryLimiterHit

LEMMA Ordered == ASSUME NEW s \in Scenario PROVE Order(s, Script(s))
BY ByNumber, ByTime, ByRefusal, TestCaseAssumption DEF TestCaseAssumption, Script

\* The steps of a test are those of its script, or none of them when the
\* backend did not start, and then those of Stop.
LEMMA StepsAre ==
  ASSUME scenario \in Scenario
  PROVE  LET n == Len(Body) IN
         /\ n \in Nat /\ DOMAIN Body = 1 .. n
         /\ Len(Steps) = n + 4
         /\ \A i \in 1 .. n : Steps[i] = Body[i] /\ Steps[i] \in Name
         /\ Steps[n + 1] = "stopLoad" /\ Steps[n + 2] = "stopAgent"
         /\ Steps[n + 3] = "stopBackend" /\ Steps[n + 4] = "report"
<1>1. Body \in Seq(Name)
  <2>1. Script(scenario) \in Seq(Name)
    BY Ordered DEF Order
  <2> QED
    BY <2>1, EmptySeq DEF Body
<1>2. Stop \in Seq({"stopLoad", "stopAgent", "stopBackend", "report"}) /\ Len(Stop) = 4
  BY DEF Stop
<1>3. Len(Body) \in Nat /\ DOMAIN Body = 1 .. Len(Body) /\ \A i \in 1 .. Len(Body) : Body[i] \in Name
  BY <1>1
<1>4. Body \in Seq(Name \union {"stopBackend", "report"}) /\ Stop \in Seq(Name \union {"stopBackend", "report"})
  <2>1. Name \subseteq Name \union {"stopBackend", "report"}
    OBVIOUS
  <2>2. {"stopLoad", "stopAgent", "stopBackend", "report"} \subseteq Name \union {"stopBackend", "report"}
    BY DEF Name
  <2> QED
    BY <1>1, <1>2, <2>1, <2>2, SeqMonotonic
<1>5. /\ Len(Steps) = Len(Body) + Len(Stop)
      /\ \A i \in 1 .. Len(Body) + Len(Stop) :
           Steps[i] = IF i <= Len(Body) THEN Body[i] ELSE Stop[i - Len(Body)]
  BY <1>4, ConcatProperties DEF Steps
<1>6. /\ Stop[1] = "stopLoad" /\ Stop[2] = "stopAgent" /\ Stop[3] = "stopBackend" /\ Stop[4] = "report"
  BY DEF Stop
<1>7. /\ Steps[Len(Body) + 1] = Stop[1] /\ Steps[Len(Body) + 2] = Stop[2]
      /\ Steps[Len(Body) + 3] = Stop[3] /\ Steps[Len(Body) + 4] = Stop[4]
  BY <1>2, <1>3, <1>5
<1> QED
  BY <1>2, <1>3, <1>5, <1>6, <1>7

\* What the driver has behind it at some of its steps, and at its end
LEMMA Behind ==
  ASSUME scenario \in Scenario, pc \in 1 .. Len(Steps) + 1
  PROVE  /\ At("agent") => pc + 2 \in 1 .. Len(Steps) + 1 /\ Steps[pc + 1] = "ready" /\ ~Passed("stopAgent")
         /\ At("stopLoad") => Passed("load") \/ backend = "failed"
         /\ At("feed") => scenario \in Fed /\ ~Passed("feed") /\ ~Passed("waitRetried")
         /\ At("validate") /\ scenario \in ByCounters => Passed("stopLoad")
         /\ \A s \in Name \ {"stopLoad", "stopAgent"} : At(s) => backend # "failed"
         /\ Passed("report") => Done
         /\ Done => /\ Passed("stopAgent")
                    /\ backend # "failed" =>
                         /\ scenario \in Fed => Passed("feed") /\ Passed("waitRetried")
                         /\ scenario \in ByCounters => Passed("validate")
<1> DEFINE n == Len(Body)
<1>1. /\ n \in Nat /\ DOMAIN Body = 1 .. n /\ Len(Steps) = n + 4
      /\ \A i \in 1 .. n : Steps[i] = Body[i] /\ Steps[i] \in Name
      /\ Steps[n + 1] = "stopLoad" /\ Steps[n + 2] = "stopAgent"
      /\ Steps[n + 3] = "stopBackend" /\ Steps[n + 4] = "report"
  BY StepsAre
<1>2. backend # "failed" => Order(scenario, Body)
  BY Ordered DEF Body
<1>3. backend = "failed" => n = 0
  BY EmptySeq DEF Body
<1> HIDE DEF n
<1>4. ASSUME NEW s \in Name \ {"stopLoad", "stopAgent"}, At(s) PROVE pc \in 1 .. n /\ Body[pc] = s /\ backend # "failed"
  BY <1>1, <1>3, <1>4 DEF At, Name
<1>5. ASSUME At("agent") PROVE pc < n /\ Steps[pc + 1] = "ready" /\ ~Passed("stopAgent")
  <2>1. pc \in 1 .. n /\ Body[pc] = "agent" /\ Order(scenario, Body)
    BY <1>2, <1>4, <1>5 DEF Name
  <2> QED
    BY <1>1, <2>1 DEF Order, Never, Passed, n
<1>6. ASSUME At("stopLoad"), backend # "failed" PROVE Passed("load")
  <2>1. CASE pc \in 1 .. n
    BY <1>1, <1>2, <1>6, <2>1 DEF Order, Before, At, Passed
  <2>2. CASE pc > n
    BY <1>1, <1>2, <1>6, <2>2 DEF Order, Contains, Passed
  <2> QED
    BY <1>1, <2>1, <2>2
<1>7. ASSUME At("feed") PROVE scenario \in Fed /\ ~Passed("feed") /\ ~Passed("waitRetried")
  <2>1. pc \in 1 .. n /\ Body[pc] = "feed" /\ Order(scenario, Body)
    BY <1>2, <1>4, <1>7 DEF Name
  <2>2. scenario \in Fed
    BY <1>1, <2>1 DEF Order, Contains
  <2> QED
    BY <1>1, <2>1, <2>2 DEF Order, Never, Passed
<1>8. ASSUME At("validate"), scenario \in ByCounters PROVE Passed("stopLoad")
  <2>1. pc \in 1 .. n /\ Body[pc] = "validate" /\ Order(scenario, Body)
    BY <1>2, <1>4, <1>8 DEF Name
  <2> QED
    BY <1>1, <1>8, <2>1 DEF Order, Before, Passed
<1>9. ASSUME Passed("report") PROVE Done
  <2>1. PICK i \in 1 .. pc - 1 : Steps[i] = "report"
    BY <1>9 DEF Passed
  <2>2. i > n
    BY <1>1, <2>1 DEF Name
  <2> QED
    BY <1>1, <2>1, <2>2 DEF Done
<1>10. ASSUME Done, NEW s, Contains(Body, s) PROVE Passed(s)
  BY <1>1, <1>10 DEF Done, Contains, Passed
<1>11. Done => Passed("stopAgent")
  BY <1>1 DEF Done, Passed
<1>12. ASSUME Done, backend # "failed"
       PROVE  /\ scenario \in Fed => Passed("feed") /\ Passed("waitRetried")
              /\ scenario \in ByCounters => Passed("validate")
  BY <1>2, <1>10, <1>12 DEF Order
<1>13. At("agent") => pc + 2 \in 1 .. Len(Steps) + 1
  BY <1>1, <1>5
<1> QED
  BY <1>4, <1>5, <1>6, <1>7, <1>8, <1>9, <1>11, <1>12, <1>13

\* A step of the driver passes its call, and no other one is passed.
LEMMA Passing ==
  ASSUME scenario \in Scenario, pc \in 1 .. Len(Steps), pc' = pc + 1, UNCHANGED Body
  PROVE  /\ pc' \in 1 .. Len(Steps') + 1
         /\ \A s : Passed(s)' <=> Passed(s) \/ Steps[pc] = s
<1>1. Steps' = Steps /\ Len(Steps) \in Nat
  BY StepsAre DEF Steps
<1> QED
  BY <1>1 DEF Passed

\* Without an agent, nobody waits for it.
LEMMA Skipping ==
  ASSUME scenario \in Scenario, pc \in 1 .. Len(Steps), pc' = pc + 2, UNCHANGED Body, At("agent")
  PROVE  /\ pc' \in 1 .. Len(Steps') + 1
         /\ \A s : Passed(s)' <=> Passed(s) \/ s \in {"agent", "ready"}
<1>1. Steps' = Steps /\ Len(Steps) \in Nat
  BY StepsAre DEF Steps
<1>2. pc + 2 \in 1 .. Len(Steps) + 1 /\ Steps[pc] = "agent" /\ Steps[pc + 1] = "ready"
  BY <1>1, Behind DEF At
<1> QED
  BY <1>1, <1>2 DEF Passed

LEMMA Staying ==
  ASSUME UNCHANGED <<Body, pc>>
  PROVE  Steps' = Steps /\ (\A s : Passed(s)' <=> Passed(s)) /\ (\A s : At(s)' <=> At(s))
BY DEF Passed, Steps, At

\* While it proceeds, the script is the one it was.
LEMMA SameScript ==
  ASSUME TypeOK, Proceed
  PROVE  UNCHANGED <<scenario, Body>> /\ (backend' = "failed" <=> backend = "failed")
<1>1. UNCHANGED scenario
  BY DEF Proceed, StartBackend, Record_, StartAgent, AgentDoesNotStart, StartLoad_, Sleep, CheckMemory,
       WaitFor, WaitTimeout, FeedNotFound, FeedFound, FeedAgain, Feed, StopLoad_, StopAgent,
       ValidateData, StopBackend, RecordResults, Advance
<1>2. backend' = "failed" <=> backend = "failed"
  <2>1. CASE StartBackend
    BY <2>1, Behind DEF StartBackend, TypeOK, Name
  <2>2. CASE StopBackend
    BY <2>2 DEF StopBackend
  <2> QED
    BY <2>1, <2>2 DEF Proceed, Record_, StartAgent, AgentDoesNotStart, StartLoad_, Sleep, CheckMemory,
       WaitFor, WaitTimeout, FeedNotFound, FeedFound, FeedAgain, Feed, StopLoad_, StopAgent,
       ValidateData, RecordResults, Quiet
<1> QED
  BY <1>1, <1>2 DEF Body

\* As long as it proceeds, what the driver has passed stays passed, and the only
\* call it passes is the one it is at, but for the wait for an absent agent.
LEMMA Driven ==
  ASSUME TypeOK, Proceed
  PROVE  /\ UNCHANGED <<scenario, Body>> /\ (backend' = "failed" <=> backend = "failed")
         /\ Steps' = Steps /\ pc' \in 1 .. Len(Steps') + 1
         /\ \A s : Passed(s) => Passed(s)'
         /\ \A s : Passed(s)' => Passed(s) \/ At(s) \/ (At("agent") /\ s \in {"agent", "ready"})
<1>1. scenario \in Scenario /\ pc \in 1 .. Len(Steps) + 1 /\ Len(Steps) \in Nat
  BY StepsAre DEF TypeOK
<1>2. UNCHANGED <<scenario, Body>> /\ (backend' = "failed" <=> backend = "failed") /\ Steps' = Steps
  BY SameScript DEF Steps
<1>3. CASE UNCHANGED pc
  BY <1>1, <1>2, <1>3, Staying
<1>4. CASE Advance /\ \E s : At(s)
  <2>1. pc \in 1 .. Len(Steps) /\ pc' = pc + 1
    BY <1>1, <1>4 DEF Advance, At
  <2> QED
    BY <1>1, <1>2, <2>1, Passing DEF At
<1>5. CASE AgentDoesNotStart
  <2>1. pc \in 1 .. Len(Steps) /\ pc' = pc + 2 /\ At("agent")
    BY <1>1, <1>5 DEF AgentDoesNotStart, At
  <2> QED
    BY <1>1, <1>2, <2>1, Skipping
<1>6. UNCHANGED pc \/ (Advance /\ \E s : At(s)) \/ AgentDoesNotStart
  BY DEF Proceed, StartBackend, Record_, StartAgent, StartLoad_, Sleep, CheckMemory,
       WaitFor, WaitTimeout, Waiting, FeedNotFound, FeedFound, FeedAgain, Feed, StopLoad_, StopAgent,
       ValidateData, StopBackend, RecordResults
<1> QED
  BY <1>2, <1>3, <1>4, <1>5, <1>6

\* Everybody else leaves the driver where it is.
Others ==
  \/ WatchStep \/ Trip \/ AgentEnds \/ GenerateStep
  \/ \E w \in Workers : WorkerStep(w)
  \/ \E h \in Handlers : ExportStep(h) \/ AgentGivesUp(h) \/ BackendStep(h)

LEMMA Waited ==
  ASSUME Others \/ UNCHANGED vars
  PROVE  /\ UNCHANGED <<scenario, pc, phase, channel, backend, failed, verdict, report>> /\ Steps' = Steps
         /\ (\A s : Passed(s)' <=> Passed(s)) /\ (\A s : At(s)' <=> At(s))
<1>1. UNCHANGED <<scenario, pc, phase, channel, backend, failed, verdict, report>>
  BY DEF Others, WatchStep, Trip, AgentEnds, GenerateStep, WorkerStep, ExportStep, AgentGivesUp, BackendStep,
         Quiet, testVars, vars
<1>2. UNCHANGED Body
  BY <1>1 DEF Body
<1> QED
  BY <1>1, <1>2, Staying

-----------------------------------------------------------------------------
\* The process and the callers of Stop

\* Steps of the driver other than the two that touch the process
DriveElsewhere ==
  \/ StartBackend \/ Record_ \/ AgentDoesNotStart \/ StartLoad_ \/ Sleep \/ CheckMemory
  \/ WaitFor \/ WaitTimeout
  \/ FeedNotFound \/ FeedFound \/ FeedAgain \/ \E h \in Handlers : Feed(h)
  \/ StopLoad_ \/ ValidateData \/ StopBackend \/ RecordResults

LEMMA DriveElsewhereProcess ==
  ASSUME DriveElsewhere
  PROVE  UNCHANGED processVars /\ ~At("stopAgent")
BY DEF DriveElsewhere, StartBackend, Record_, AgentDoesNotStart, StartLoad_, Sleep, CheckMemory,
       WaitFor, WaitTimeout, Waiting, FeedNotFound, FeedFound, FeedAgain, Feed, StopLoad_,
       ValidateData, StopBackend, RecordResults, Elsewhere, At

LEMMA CallerIn ==
  ASSUME TypeOK
  PROVE  /\ "test" \in Caller /\ "watcher" \in Caller /\ \A c \in Caller : c = "test" \/ c = "watcher"
         /\ stopper \in [Caller -> {"out", "checked", "inside", "ok", "error"}]
         /\ proc \in {"none", "running", "terminating", "exited", "failed"}
         /\ once \in {"free", "busy", "done"}
BY DEF TypeOK, ProcessTypeOK, Caller

\* A caller in Stop, whoever it is
LEMMA StoppingKeeps ==
  ASSUME TypeOK, OneInside, NEW c \in Caller, Stopping(c)
  PROVE  /\ OneInside'
         /\ Stopped => Stopped'
         /\ stopper[c] # "out" /\ \A d \in Caller : d # c => stopper'[d] = stopper[d]
         /\ stopper'[c] \in {"ok", "error"} => Stopped'
<1> USE CallerIn
<1>1. CASE StopEnter(c)
  BY <1>1 DEF StopEnter, OneInside, Stopped, Gone
<1>2. CASE StopWaited(c)
  BY <1>2 DEF StopWaited, OneInside, Stopped, Gone
<1>3. CASE StopSecond(c)
  BY <1>3 DEF StopSecond, OneInside, Stopped, Gone
<1> QED
  BY <1>1, <1>2, <1>3 DEF Stopping

LEMMA StopCallKeeps ==
  ASSUME TypeOK, OneInside, NEW c \in Caller, StopCall(c)
  PROVE  /\ OneInside' /\ UNCHANGED <<proc, once>>
         /\ Stopped => Stopped'
         /\ stopper[c] = "out" /\ \A d \in Caller : d # c => stopper'[d] = stopper[d]
         /\ c = "test" /\ stopper'[c] \in {"ok", "error"} => Stopped'
<1> USE CallerIn
<1>1. /\ UNCHANGED <<proc, once>> /\ stopper[c] = "out"
      /\ stopper' = [stopper EXCEPT ![c] = IF NothingToStop THEN "ok" ELSE "checked"]
  BY DEF StopCall
<1>2. OneInside'
  BY <1>1 DEF OneInside, Gone
<1>3. Stopped => Stopped'
  BY <1>1 DEF Stopped, Gone
<1>4. ASSUME c = "test", stopper'[c] \in {"ok", "error"} PROVE Stopped'
  <2>1. NothingToStop
    BY <1>1, <1>4
  <2>2. once = "busy" => stopper["watcher"] = "inside"
    BY <1>1, <1>4 DEF OneInside
  <2> QED
    BY <1>1, <1>4, <2>1, <2>2 DEF NothingToStop, Stopped, Gone, OneInside
<1> QED
  BY <1>1, <1>2, <1>3, <1>4

LEMMA DriveProcess ==
  ASSUME TypeOK, OneInside, TestStops, Proceed
  PROVE  OneInside' /\ TestStops'
<1> USE CallerIn
<1>1. CASE DriveElsewhere
  <2>1. UNCHANGED processVars /\ ~At("stopAgent")
    BY <1>1, DriveElsewhereProcess
  <2>2. Passed("stopAgent")' => Passed("stopAgent")
    BY <2>1, Driven
  <2> QED
    BY <2>1, <2>2 DEF processVars, OneInside, TestStops, Stopped, Gone
<1>2. CASE StartAgent
  <2>1. /\ At("agent") /\ proc = "none" /\ proc' = "running" /\ UNCHANGED <<once, stopper>>
    BY <1>2 DEF StartAgent, StartProcess
  <2>2. ~At("stopAgent") /\ ~Passed("stopAgent")'
    BY <2>1, Behind, Driven DEF At, TypeOK
  <2> QED
    BY <2>1, <2>2 DEF OneInside, TestStops, Gone
<1>3. CASE StopAgent /\ UNCHANGED <<scenario, pc>> /\ At("stopAgent") /\ (StopCall("test") \/ Stopping("test"))
  <2>1. At("stopAgent")' /\ (Passed("stopAgent")' <=> Passed("stopAgent"))
    BY <1>3, Driven, Staying
  <2>2. OneInside' /\ (Stopped => Stopped') /\ (stopper'["test"] \in {"ok", "error"} => Stopped')
    BY <1>3, StoppingKeeps, StopCallKeeps
  <2> QED
    BY <2>1, <2>2 DEF TestStops
<1>4. CASE /\ StopAgent /\ stopper["test"] \in {"ok", "error"}
           /\ stopper' = [stopper EXCEPT !["test"] = "out"] /\ UNCHANGED <<proc, once>>
  BY <1>4 DEF OneInside, TestStops, Stopped, Gone
<1> QED
  BY <1>1, <1>2, <1>3, <1>4 DEF Proceed, DriveElsewhere, StopAgent

LEMMA OthersProcess ==
  ASSUME TypeOK, OneInside, TestStops, Others \/ UNCHANGED vars
  PROVE  OneInside' /\ TestStops'
<1> USE CallerIn
<1>1. (Passed("stopAgent")' <=> Passed("stopAgent")) /\ (At("stopAgent")' <=> At("stopAgent"))
  BY Waited
<1> SUFFICES OneInside' /\ (Stopped => Stopped') /\ UNCHANGED stopper["test"]
  BY <1>1 DEF TestStops
<1>2. CASE WatchStep /\ Stopping("watcher")
  BY <1>2, StoppingKeeps
<1>3. CASE Trip
  BY <1>3, StopCallKeeps DEF Trip, OverLimit
<1>4. CASE WatchStep /\ UNCHANGED <<proc, once, stopper>>
  BY <1>4 DEF OneInside, Stopped, Gone
<1>5. CASE AgentEnds
  BY <1>5 DEF AgentEnds, Die, Terminate, OneInside, Stopped, Gone
<1>6. CASE UNCHANGED processVars
  BY <1>6 DEF processVars, OneInside, Stopped, Gone
<1> QED
  BY <1>2, <1>3, <1>4, <1>5, <1>6
  DEF Others, WatchStep, Watch, WatchNothing, WatchWarmUp, WatchDone, WatchFails, GenerateStep, WorkerStep,
      ExportStep, AgentGivesUp, BackendStep, vars

-----------------------------------------------------------------------------
\* Types, part by part

LEMMA Wiring ==
  /\ Batch = 1 .. MaxBatches /\ NoBatch = 0 /\ IsFiniteSet(Handlers) /\ IsFiniteSet(Workers)
  /\ MaxBatches \in Nat /\ MaxAttempts \in Nat \ {0} /\ QueueSize \in Nat \ {0} /\ MaxTimeouts \in Nat
BY TestCaseAssumption, GeneratorAssumption DEF TestCaseAssumption, GeneratorAssumption

Place == {"ok", "retry", "permanent", "idle", "called", "decide", "record", "count", "drop"}

LEMMA CarriedIn ==
  ASSUME LoadTypeOK, Carries
  PROVE  /\ \A h \in Handlers : at[h] # "idle" => carried[h] \in Batch
         /\ \A w \in Workers : Sending(w) => held[w] \in Batch
         /\ \A i \in DOMAIN queue : queue[i] \in Batch
BY Wiring DEF LoadTypeOK, Carries

LEMMA TickTypes ==
  ASSUME LoadTypeOK, NEW w \in Workers, Tick(w)
  PROVE  LoadTypeOK' /\ made' = made + 1 /\ made' \in Nat
<1> USE Wiring DEF Tick, Make, LoadTypeOK
<1>1. made + 1 \in 0 .. MaxBatches
  OBVIOUS
<1>2. held' \in [Workers -> 0 .. MaxBatches]
  BY <1>1
<1>3. worker' \in [Workers -> {"off", "select", "sending", "ended"}]
  OBVIOUS
<1> QED
  BY <1>1, <1>2, <1>3

LEMMA ReleaseTypes ==
  ASSUME LoadTypeOK, NEW w \in Workers, Taken(w) \/ GiveUp(w)
  PROVE  LoadTypeOK'
<1> USE Wiring DEF LoadTypeOK
<1>1. Release(w)
  BY DEF Taken, GiveUp
<1>2. /\ worker' \in [Workers -> {"off", "select", "sending", "ended"}]
      /\ held' \in [Workers -> 0 .. MaxBatches]
      /\ attempts' \in [Workers -> 0 .. MaxAttempts]
  BY <1>1 DEF Release
<1>3. nonPermanentErrors' \in Nat /\ givenUp' \in Nat
  BY DEF Taken, GiveUp
<1> QED
  BY <1>2, <1>3 DEF Taken, GiveUp

LEMMA LoadTypes ==
  ASSUME LoadTypeOK,
         \/ StartLoad \/ StopLoad \/ Generate
         \/ \E w \in Workers : Tick(w) \/ EndWorker(w) \/ Taken(w) \/ SendAgain(w) \/ GiveUp(w)
         \/ UNCHANGED loadVars
  PROVE  LoadTypeOK'
<1> USE Wiring
<1>1. CASE StartLoad \/ StopLoad \/ UNCHANGED loadVars
  BY <1>1 DEF StartLoad, StopLoad, loadVars, LoadTypeOK
<1>2. CASE Generate
  BY <1>2 DEF Generate, GenerateNothing, StartWorkers, EndGenerate, StopReturns, LoadTypeOK
<1>3. ASSUME NEW w \in Workers, Tick(w) \/ EndWorker(w) \/ Taken(w) \/ SendAgain(w) \/ GiveUp(w)
      PROVE  LoadTypeOK'
  <2>1. CASE EndWorker(w)
    BY <2>1 DEF EndWorker, LoadTypeOK
  <2>2. CASE SendAgain(w)
    BY <2>2 DEF SendAgain, LoadTypeOK
  <2> QED
    BY <1>3, <2>1, <2>2, TickTypes, ReleaseTypes
<1> QED
  BY <1>1, <1>2, <1>3

\* What the moves of a request leave in its type
LEMMA CallTypes ==
  ASSUME BackendTypeOK, NEW h \in Handlers, NEW b \in Batch, Call(h, b)
  PROVE  BackendTypeOK'
<1>1. at' \in [Handlers -> Result \union {"idle", "called", "decide", "record", "count", "drop"}]
  BY DEF Call, BackendTypeOK
<1>2. carried' \in [Handlers -> Batch \union {NoBatch}]
  BY DEF Call, BackendTypeOK
<1> QED
  BY <1>1, <1>2 DEF Call, BackendTypeOK

LEMMA AnsweredTypes ==
  ASSUME BackendTypeOK, NEW h \in Handlers, Answered(h)
  PROVE  BackendTypeOK'
BY DEF Answered, BackendTypeOK

LEMMA DecideTypes ==
  ASSUME BackendTypeOK, NEW h \in Handlers, carried[h] \in Batch,
         NEW o \in {"ok", "retry"}, Decide(h, o)
  PROVE  BackendTypeOK'
<1>1. CASE DecideUnlocked(h, o)
  <2>1. at' \in [Handlers -> Result \union {"idle", "called", "decide", "record", "count", "drop"}]
    BY <1>1 DEF DecideUnlocked, BackendTypeOK, Result
  <2>2. copy' \in [Handlers -> SUBSET Batch]
    BY <1>1 DEF DecideUnlocked, BackendTypeOK
  <2> QED
    BY <1>1, <2>1, <2>2 DEF DecideUnlocked, BackendTypeOK
<1>2. CASE DecideLogs(h, o)
  <2>1. at' \in [Handlers -> Result \union {"idle", "called", "decide", "record", "count", "drop"}]
    BY <1>2 DEF DecideLogs, BackendTypeOK, Result
  <2>2. toRetry' \subseteq Batch /\ dropped' \subseteq Batch
    BY <1>2 DEF DecideLogs, BackendTypeOK
  <2>3. mutex' \in Handlers \union {"free"}
    BY <1>2 DEF DecideLogs, BackendTypeOK
  <2> QED
    BY <1>2, <2>1, <2>2, <2>3 DEF DecideLogs, BackendTypeOK
<1> QED
  BY <1>1, <1>2 DEF Decide

LEMMA HandleTypes ==
  ASSUME BackendTypeOK, NEW h \in Handlers, at[h] # "idle" => carried[h] \in Batch, Handle(h)
  PROVE  BackendTypeOK'
<1>1. CASE Lock(h)
  BY <1>1 DEF Lock, BackendTypeOK
<1>2. CASE AppendDropped(h)
  BY <1>2 DEF AppendDropped, BackendTypeOK, Result
<1>3. CASE Record(h)
  <2>1. at' \in [Handlers -> Result \union {"idle", "called", "decide", "record", "count", "drop"}]
    BY <1>3 DEF Record, BackendTypeOK, Result
  <2>2. received' \subseteq Batch
    BY <1>3 DEF Record, BackendTypeOK
  <2> QED
    BY <1>3, <2>1, <2>2 DEF Record, BackendTypeOK
<1>4. CASE Count(h)
  <2>1. at' \in [Handlers -> Result \union {"idle", "called", "decide", "record", "count", "drop"}]
    BY <1>4 DEF Count, BackendTypeOK, Result
  <2>2. counted' \subseteq Batch
    BY <1>4 DEF Count, BackendTypeOK
  <2>3. counter' \in Nat
    BY <1>4 DEF Count, BackendTypeOK
  <2> QED
    BY <1>4, <2>1, <2>2, <2>3 DEF Count, BackendTypeOK
<1> QED
  BY <1>1, <1>2, <1>3, <1>4 DEF Handle

LEMMA RecordingTypes ==
  ASSUME BackendTypeOK, \A h \in Handlers : at[h] # "idle" => carried[h] \in Batch, EnableRecording
  PROVE  BackendTypeOK'
<1>1. excused' = counted \union {carried[h] : h \in {g \in Handlers : at[g] = "count"}}
  BY DEF EnableRecording
<1>2. excused' \subseteq Batch
  BY <1>1 DEF BackendTypeOK
<1> QED
  BY <1>2 DEF EnableRecording, BackendTypeOK

LEMMA ProcessTypes ==
  ASSUME ProcessTypeOK, NEW c \in Caller,
         \/ StartProcess \/ Die \/ Terminate
         \/ StopCall(c) /\ watcher' \in {watcher, "stopping"}
         \/ Stopping(c) \/ WatchNothing \/ WatchWarmUp \/ WatchDone \/ WatchFails \/ UNCHANGED processVars
         \/ stopper' = [stopper EXCEPT ![c] = "out"] /\ UNCHANGED <<proc, once, watcher>>
  PROVE  ProcessTypeOK'
<1> USE DEF ProcessTypeOK
<1>1. CASE StopCall(c) /\ watcher' \in {watcher, "stopping"}
  BY <1>1 DEF StopCall
<1>2. CASE Stopping(c)
  BY <1>2 DEF Stopping, StopEnter, StopWaited, StopSecond
<1> QED
  BY <1>1, <1>2 DEF StartProcess, Die, Terminate, WatchNothing, WatchWarmUp, WatchDone, WatchFails, processVars

-----------------------------------------------------------------------------
\* The queue of the collector, and how much is in it or awaited

LEMMA SomeHandlers ==
  ASSUME NEW S \in SUBSET Handlers
  PROVE  /\ IsFiniteSet(S) /\ Cardinality(S) \in Nat /\ Cardinality(Handlers) \in Nat
         /\ Cardinality(S) <= Cardinality(Handlers)
BY Wiring, FS_Subset, FS_CardinalityType

LEMMA Awaiting ==
  ASSUME exports \subseteq Handlers, NEW h \in Handlers
  PROVE  /\ h \in exports => Cardinality(exports \ {h}) = Cardinality(exports) - 1
         /\ h \notin exports => Cardinality(exports \union {h}) = Cardinality(exports) + 1
         /\ h \notin exports => exports \ {h} = exports
BY SomeHandlers, FS_RemoveElement, FS_AddElement

LEMMA Queued ==
  ASSUME queue \in Seq(Batch), NEW b \in Batch
  PROVE  /\ Len(queue) \in Nat /\ DOMAIN queue = 1 .. Len(queue)
         /\ Append(queue, b) \in Seq(Batch) /\ Len(Append(queue, b)) = Len(queue) + 1
         /\ DOMAIN Append(queue, b) = 1 .. Len(queue) + 1
         /\ \A i \in 1 .. Len(queue) : Append(queue, b)[i] = queue[i]
         /\ Append(queue, b)[Len(queue) + 1] = b
         /\ (<<b>> \o queue) \in Seq(Batch) /\ Len(<<b>> \o queue) = Len(queue) + 1
         /\ DOMAIN (<<b>> \o queue) = 1 .. Len(queue) + 1
         /\ (<<b>> \o queue)[1] = b
         /\ \A i \in 2 .. Len(queue) + 1 : (<<b>> \o queue)[i] = queue[i - 1]
OBVIOUS

LEMMA Unqueued ==
  ASSUME queue \in Seq(Batch), queue # <<>>
  PROVE  /\ Head(queue) = queue[1] /\ 1 \in DOMAIN queue /\ queue[1] \in Batch
         /\ Tail(queue) \in Seq(Batch) /\ Len(Tail(queue)) = Len(queue) - 1
         /\ DOMAIN Tail(queue) = 1 .. Len(queue) - 1
         /\ \A i \in 1 .. Len(queue) - 1 : Tail(queue)[i] = queue[i + 1]
OBVIOUS

-----------------------------------------------------------------------------
\* What is on its way has been made

LEMMA PlacesAre == ASSUME BackendTypeOK PROVE at \in [Handlers -> Place] /\ carried \in [Handlers -> Batch \union {NoBatch}]
BY DEF BackendTypeOK, Result, Place

\* The backend at work on a request neither starts nor ends it.
LEMMA RequestStays ==
  ASSUME BackendTypeOK, NEW h \in Handlers, Handle(h) \/ \E o \in {"ok", "retry"} : Decide(h, o)
  PROVE  /\ UNCHANGED carried /\ at[h] # "idle" /\ at'[h] # "idle"
         /\ \A g \in Handlers : g # h => at'[g] = at[g]
BY PlacesAre DEF Handle, Lock, AppendDropped, Record, Count, Decide, DecideUnlocked, DecideLogs, Place

LEMMA DriveCarries ==
  ASSUME TypeOK, Carries, Proceed
  PROVE  Carries'
<1>1. UNCHANGED <<worker, held, made, queue, exports>>
  BY DEF Proceed, StartBackend, Record_, StartAgent, AgentDoesNotStart, StartLoad_, Sleep, CheckMemory,
         WaitFor, WaitTimeout, FeedNotFound, FeedFound, FeedAgain, Feed, StopLoad_, StopAgent,
         ValidateData, StopBackend, RecordResults, Elsewhere, StartLoad, StopLoad, loadVars, agentVars
<1>2. CASE UNCHANGED <<at, carried>>
  BY <1>1, <1>2 DEF Carries, Sending
<1>3. ASSUME NEW h \in Handlers, Feed(h) PROVE Carries'
  <2>1. /\ UNCHANGED carried /\ at[h] # "idle" /\ at'[h] # "idle"
        /\ \A g \in Handlers : g # h => at'[g] = at[g]
    BY <1>3, RequestStays DEF Feed, TypeOK
  <2> QED
    BY <1>1, <2>1 DEF Carries, Sending, TypeOK
<1> QED
  BY <1>2, <1>3
  DEF Proceed, StartBackend, Record_, StartAgent, AgentDoesNotStart, StartLoad_, Sleep, CheckMemory,
      WaitFor, WaitTimeout, FeedNotFound, FeedFound, FeedAgain, StopLoad_, StopAgent,
      ValidateData, StopBackend, RecordResults, Elsewhere, EnableRecording, backendVars

LEMMA WorkerCarries ==
  ASSUME TypeOK, Carries, NEW w \in Workers, WorkerStep(w)
  PROVE  Carries'
<1>1. /\ worker \in [Workers -> {"off", "select", "sending", "ended"}]
      /\ held \in [Workers -> 0 .. MaxBatches] /\ made \in Nat /\ exports \subseteq Handlers
  BY Wiring DEF TypeOK, LoadTypeOK
<1>2. UNCHANGED <<at, carried, exports>>
  BY DEF WorkerStep, backendVars
<1>3. CASE Tick(w) /\ UNCHANGED queue
  BY <1>1, <1>2, <1>3 DEF Tick, Make, Carries, Sending
<1>4. CASE (EndWorker(w) \/ SendAgain(w) \/ GiveUp(w)) /\ UNCHANGED queue
  <2>1. /\ UNCHANGED made
        /\ \A x \in Workers : Sending(x)' => Sending(x) /\ held'[x] = held[x]
    BY <1>1, <1>4 DEF EndWorker, SendAgain, GiveUp, Release, Sending
  <2> QED
    BY <1>2, <1>4, <2>1 DEF Carries
<1>5. CASE Taken(w) /\ queue' = Append(queue, held[w]) /\ Len(queue) < QueueSize
  <2>1. /\ UNCHANGED made /\ Sending(w)
        /\ \A x \in Workers : Sending(x)' => Sending(x) /\ held'[x] = held[x]
    BY <1>1, <1>5 DEF Taken, Release, Sending
  <2>2. held[w] \in Batch /\ held[w] \in 1 .. made /\ queue \in Seq(Batch)
    BY <2>1, CarriedIn DEF TypeOK, Carries
  <2>3. \A i \in DOMAIN queue' : queue'[i] \in 1 .. made'
    BY <1>5, <2>1, <2>2, Queued DEF Carries
  <2>4. Len(queue') + Cardinality(exports) <= QueueSize + Cardinality(Handlers)
    <3>1. Len(queue) \in Nat /\ Len(queue') = Len(queue) + 1
      BY <1>5, <2>2, Queued
    <3>2. /\ Cardinality(exports) \in Nat /\ Cardinality(Handlers) \in Nat
          /\ Cardinality(exports) <= Cardinality(Handlers)
      BY <1>1, SomeHandlers
    <3> QED
      BY <1>5, <3>1, <3>2, Wiring
  <2> QED
    BY <1>2, <2>1, <2>3, <2>4 DEF Carries
<1> QED
  BY <1>3, <1>4, <1>5 DEF WorkerStep

LEMMA ExportCarries ==
  ASSUME TypeOK, Carries, NEW h \in Handlers, Export(h) \/ ExportTimeout(h) \/ ExportAnswered(h), UNCHANGED loadVars
  PROVE  Carries'
<1>1. /\ UNCHANGED <<worker, held, made>> /\ made \in Nat /\ exports \subseteq Handlers /\ queue \in Seq(Batch)
      /\ at \in [Handlers -> Place] /\ carried \in [Handlers -> Batch \union {NoBatch}]
  BY Wiring, PlacesAre DEF loadVars, TypeOK, LoadTypeOK
<1>2. \A w \in Workers : Sending(w)' => held'[w] \in 1 .. made'
  BY <1>1 DEF Carries, Sending
<1>3. /\ Cardinality(exports) \in Nat /\ Cardinality(Handlers) \in Nat
      /\ h \in exports => Cardinality(exports \ {h}) = Cardinality(exports) - 1
      /\ h \notin exports => Cardinality(exports \union {h}) = Cardinality(exports) + 1
      /\ h \notin exports => exports \ {h} = exports
  BY <1>1, SomeHandlers, Awaiting
<1>4. CASE Export(h)
  <2>1. /\ at[h] = "idle" /\ queue # <<>> /\ queue' = Tail(queue) /\ exports' = exports \union {h}
        /\ carried' = [carried EXCEPT ![h] = Head(queue)]
        /\ at'[h] \in {"called", "decide"} /\ \A g \in Handlers : g # h => at'[g] = at[g]
    BY <1>1, <1>4 DEF Export, Call
  <2>2. h \notin exports
    BY <2>1 DEF Carries
  <2>3. Head(queue) \in 1 .. made /\ \A i \in DOMAIN queue' : queue'[i] \in 1 .. made'
    BY <1>1, <2>1, Unqueued, Queued DEF Carries
  <2>4. Len(queue') + Cardinality(exports') <= QueueSize + Cardinality(Handlers)
    BY <1>1, <1>3, <2>1, <2>2, Unqueued, Wiring DEF Carries
  <2> QED
    BY <1>1, <1>2, <2>1, <2>3, <2>4 DEF Carries
<1>5. CASE /\ ExportTimeout(h) \/ ExportAnswered(h)
           /\ h \in exports /\ queue' = <<carried[h]>> \o queue /\ exports' = exports \ {h}
  <2>1. carried[h] \in 1 .. made /\ carried[h] \in Batch
    BY <1>5, CarriedIn DEF Carries, TypeOK
  <2>2. /\ Len(queue') = Len(queue) + 1 /\ Len(queue) \in Nat
        /\ \A i \in DOMAIN queue' : queue'[i] \in 1 .. made'
    BY <1>1, <1>5, <2>1, Queued DEF Carries
  <2>3. Len(queue') + Cardinality(exports') <= QueueSize + Cardinality(Handlers)
    BY <1>3, <1>5, <2>2, Wiring DEF Carries
  <2>4. \A g \in Handlers : at'[g] # "idle" => at[g] # "idle" /\ carried'[g] = carried[g]
    BY <1>1, <1>5 DEF ExportTimeout, ExportAnswered, Answered, backendVars
  <2>5. \A g \in exports' : at'[g] # "idle"
    BY <1>1, <1>5 DEF ExportTimeout, ExportAnswered, Answered, backendVars, Carries
  <2> QED
    BY <1>1, <1>2, <2>2, <2>3, <2>4, <2>5 DEF Carries
<1>6. CASE ExportAnswered(h) /\ UNCHANGED queue
  <2>1. /\ exports' = exports \ {h}
        /\ \A g \in Handlers : g # h => at'[g] = at[g] /\ carried'[g] = carried[g]
        /\ at'[h] = "idle"
    BY <1>1, <1>6 DEF ExportAnswered, Answered
  <2>2. Len(queue) \in Nat
    BY <1>1
  <2>4. Cardinality(exports') \in {Cardinality(exports), Cardinality(exports) - 1}
    <3>1. exports' = exports \/ (h \in exports /\ exports' = exports \ {h})
      BY <1>3, <2>1
    <3> QED
      BY <1>3, <3>1
  <2>3. Len(queue') + Cardinality(exports') <= QueueSize + Cardinality(Handlers)
    BY <1>3, <1>6, <2>2, <2>4, Wiring DEF Carries
  <2> QED
    BY <1>1, <1>2, <1>6, <2>1, <2>3 DEF Carries
<1> QED
  BY <1>4, <1>5, <1>6 DEF ExportTimeout, ExportAnswered

LEMMA OthersCarry ==
  ASSUME TypeOK, Carries, Others \/ UNCHANGED vars
  PROVE  Carries'
<1>1. CASE AgentEnds
  <2>1. queue' = <<>> /\ exports' = {} /\ UNCHANGED <<loadVars, backendVars>>
    BY <1>1 DEF AgentEnds
  <2>2. Len(queue') + Cardinality(exports') <= QueueSize + Cardinality(Handlers)
    BY <2>1, FS_EmptySet, SomeHandlers, Wiring DEF TypeOK
  <2> QED
    BY <2>1, <2>2 DEF Carries, Sending, loadVars, backendVars
<1>2. CASE WatchStep \/ Trip \/ UNCHANGED vars
  BY <1>2 DEF WatchStep, Trip, vars, loadVars, backendVars, agentVars, Carries, Sending
<1>3. CASE GenerateStep
  <2>1. UNCHANGED <<held, made, at, carried, queue, exports>>
    BY <1>3 DEF GenerateStep, Generate, GenerateNothing, StartWorkers, EndGenerate, StopReturns, backendVars, agentVars
  <2>2. \A w \in Workers : Sending(w)' => Sending(w)
    BY <1>3 DEF GenerateStep, Generate, GenerateNothing, StartWorkers, EndGenerate, StopReturns, Sending
  <2> QED
    BY <2>1, <2>2 DEF Carries
<1>4. ASSUME NEW h \in Handlers, BackendStep(h) PROVE Carries'
  <2>1. /\ UNCHANGED carried /\ at[h] # "idle" /\ at'[h] # "idle"
        /\ \A g \in Handlers : g # h => at'[g] = at[g]
    BY <1>4, RequestStays DEF BackendStep, TypeOK
  <2> QED
    BY <1>4, <2>1 DEF BackendStep, loadVars, agentVars, Carries, Sending, TypeOK
<1> QED
  BY <1>1, <1>2, <1>3, <1>4, WorkerCarries, ExportCarries DEF Others, ExportStep, AgentGivesUp

-----------------------------------------------------------------------------
\* All types together

LEMMA QueueFits ==
  ASSUME LoadTypeOK', Carries', queue' \in Seq(Batch), exports' \subseteq Handlers
  PROVE  Len(queue') <= QueueSize + Cardinality(Handlers)
<1>1. Len(queue') \in Nat /\ Cardinality(exports') \in Nat /\ Cardinality(Handlers) \in Nat
  BY SomeHandlers
<1> QED
  BY <1>1, Wiring DEF Carries

LEMMA DriveTypes ==
  ASSUME TypeOK, Carries, Handshake, Proceed
  PROVE  TypeOK'
<1> USE CallerIn DEF TypeOK
<1>1. LoadTypeOK'
  BY LoadTypes DEF Proceed, StartBackend, Record_, StartAgent, AgentDoesNotStart, StartLoad_, Sleep, CheckMemory,
         WaitFor, WaitTimeout, FeedNotFound, FeedFound, FeedAgain, Feed, StopLoad_, StopAgent,
         ValidateData, StopBackend, RecordResults, Elsewhere
<1>2. BackendTypeOK'
  <2>1. \A h \in Handlers : at[h] # "idle" => carried[h] \in Batch
    BY CarriedIn
  <2>2. CASE EnableRecording
    BY <2>1, <2>2, RecordingTypes
  <2>3. ASSUME NEW h \in Handlers, Feed(h) PROVE BackendTypeOK'
    <3>1. at[h] # "idle"
      BY <2>3, RequestStays DEF Feed
    <3> QED
      BY <2>1, <2>3, <3>1, DecideTypes DEF Feed
  <2>4. CASE UNCHANGED backendVars
    BY <2>4 DEF backendVars, BackendTypeOK
  <2> QED
    BY <2>2, <2>3, <2>4 DEF Proceed, StartBackend, Record_, StartAgent, AgentDoesNotStart, StartLoad_, Sleep,
         CheckMemory, WaitFor, WaitTimeout, FeedNotFound, FeedFound, FeedAgain, StopLoad_, StopAgent,
         ValidateData, StopBackend, RecordResults, Elsewhere
<1>3. ProcessTypeOK'
  <2>1. CASE StopAgent
    BY <2>1, ProcessTypes DEF StopAgent
  <2>2. CASE StartAgent
    BY <2>2, ProcessTypes DEF StartAgent
  <2> QED
    BY <2>1, <2>2, DriveElsewhereProcess, ProcessTypes DEF Proceed, DriveElsewhere
<1>4. scenario' \in Scenario /\ pc' \in 1 .. Len(Steps') + 1
  BY Driven
<1>5. UNCHANGED agentVars
  BY DEF Proceed, StartBackend, Record_, StartAgent, AgentDoesNotStart, StartLoad_, Sleep, CheckMemory,
         WaitFor, WaitTimeout, FeedNotFound, FeedFound, FeedAgain, Feed, StopLoad_, StopAgent,
         ValidateData, StopBackend, RecordResults, Elsewhere
<1>6. channel' \in {"none", "open", "closed"}
  <2>1. CASE FeedFound
    <3>1. channel = "open"
      BY <2>1, Behind DEF FeedFound, Handshake, Name
    <3> QED
      BY <2>1, <3>1 DEF FeedFound, CloseChannel
  <2> QED
    BY <2>1 DEF Proceed, StartBackend, Record_, StartAgent, AgentDoesNotStart, StartLoad_, Sleep, CheckMemory,
         WaitFor, WaitTimeout, FeedNotFound, FeedAgain, Feed, StopLoad_, StopAgent,
         ValidateData, StopBackend, RecordResults, Quiet
<1>7. /\ phase' \in {"ready", "offering", "paused"} /\ backend' \in {"new", "failed", "started", "stopping", "stopped"}
      /\ verdict' \in {"none", "skipped", "passed", "failed"} /\ report' \in {"none", "PASS", "FAIL"}
  BY DEF Proceed, StartBackend, Record_, StartAgent, AgentDoesNotStart, StartLoad_, Sleep, CheckMemory,
         WaitFor, WaitTimeout, FeedNotFound, FeedFound, FeedAgain, Feed, StopLoad_, StopAgent,
         ValidateData, StopBackend, RecordResults, Quiet, Advance
<1>8. errorSignal' \in BOOLEAN /\ failed' \in BOOLEAN
  BY DEF Proceed, StartBackend, Record_, StartAgent, AgentDoesNotStart, StartLoad_, Sleep, CheckMemory,
         WaitFor, WaitTimeout, FeedNotFound, FeedFound, FeedAgain, Feed, StopLoad_, StopAgent,
         ValidateData, StopBackend, RecordResults, Quiet
<1> QED
  BY <1>1, <1>2, <1>3, <1>4, <1>5, <1>6, <1>7, <1>8 DEF agentVars

LEMMA OthersTypes ==
  ASSUME TypeOK, Carries, Carries', Others \/ UNCHANGED vars
  PROVE  TypeOK'
<1> USE CallerIn DEF TypeOK
<1>1. LoadTypeOK'
  BY LoadTypes DEF Others, WatchStep, Trip, AgentEnds, GenerateStep, WorkerStep, ExportStep, AgentGivesUp,
         BackendStep, vars
<1>2. BackendTypeOK'
  <2>1. \A h \in Handlers : at[h] # "idle" => carried[h] \in Batch
    BY CarriedIn
  <2>2. ASSUME NEW h \in Handlers, Export(h) PROVE BackendTypeOK'
    <3>1. Head(queue) \in Batch
      BY <2>2, Unqueued DEF Export
    <3> QED
      BY <2>2, <3>1, CallTypes DEF Export
  <2>3. ASSUME NEW h \in Handlers, ExportAnswered(h) PROVE BackendTypeOK'
    BY <2>3, AnsweredTypes DEF ExportAnswered
  <2>4. ASSUME NEW h \in Handlers, BackendStep(h) PROVE BackendTypeOK'
    <3>1. at[h] # "idle"
      BY <2>4, RequestStays DEF BackendStep
    <3> QED
      BY <2>1, <2>4, <3>1, HandleTypes, DecideTypes DEF BackendStep
  <2>5. CASE UNCHANGED backendVars
    BY <2>5 DEF backendVars, BackendTypeOK
  <2> QED
    BY <2>2, <2>3, <2>4, <2>5 DEF Others, WatchStep, Trip, AgentEnds, GenerateStep, WorkerStep, ExportStep,
         ExportTimeout, AgentGivesUp, vars
<1>3. ProcessTypeOK'
  BY ProcessTypes DEF Others, WatchStep, Watch, Trip, OverLimit, AgentEnds, GenerateStep, WorkerStep,
         ExportStep, AgentGivesUp, BackendStep, vars
<1>4. UNCHANGED <<scenario, pc, phase, channel, backend, failed, verdict, report>> /\ Steps' = Steps
  BY Waited
<1>5. errorSignal' \in BOOLEAN /\ refusedLog' \in BOOLEAN
  BY DEF Others, WatchStep, Trip, AgentEnds, GenerateStep, WorkerStep, ExportStep, Export, ExportAnswered,
         ExportTimeout, AgentGivesUp, BackendStep, vars, testVars, agentVars
<1>6. exports' \subseteq Handlers /\ timeouts' \in 0 .. MaxTimeouts
  <2>1. ASSUME NEW h \in Handlers, ExportTimeout(h) PROVE timeouts' \in 0 .. MaxTimeouts
    BY <2>1, Wiring DEF ExportTimeout
  <2>2. timeouts' \in 0 .. MaxTimeouts
    BY <2>1 DEF Others, WatchStep, Trip, AgentEnds, GenerateStep, WorkerStep, ExportStep, Export, ExportAnswered,
         AgentGivesUp, BackendStep, vars, agentVars
  <2>3. exports' \subseteq Handlers
    BY DEF Others, WatchStep, Trip, AgentEnds, GenerateStep, WorkerStep, ExportStep, Export, ExportAnswered,
         ExportTimeout, AgentGivesUp, BackendStep, vars, agentVars
  <2> QED
    BY <2>2, <2>3
<1>7. queue' \in Seq(Batch)
  <2>1. ASSUME NEW w \in Workers, WorkerStep(w) PROVE queue' \in Seq(Batch)
    <3>1. Taken(w) => held[w] \in Batch
      BY CarriedIn DEF Taken, Release, Sending
    <3> QED
      BY <2>1, <3>1, Queued DEF WorkerStep
  <2>2. ASSUME NEW h \in Handlers, Export(h) PROVE queue' \in Seq(Batch)
    BY <2>2, Unqueued DEF Export
  <2>3. ASSUME NEW h \in Handlers, ExportAnswered(h) \/ ExportTimeout(h) PROVE queue' \in Seq(Batch)
    <3>1. h \in exports => carried[h] \in Batch
      BY CarriedIn DEF Carries
    <3>2. h \in exports => <<carried[h]>> \o queue \in Seq(Batch)
      BY <3>1, Queued
    <3> QED
      BY <2>3, <3>2 DEF ExportAnswered, ExportTimeout
  <2>4. CASE queue' = <<>> \/ UNCHANGED queue
    BY <2>4, EmptySeq
  <2> QED
    BY <2>1, <2>2, <2>3, <2>4 DEF Others, WatchStep, Trip, AgentEnds, GenerateStep, ExportStep, AgentGivesUp,
         BackendStep, vars, agentVars
<1>8. Len(queue') <= QueueSize + Cardinality(Handlers)
  BY <1>1, <1>6, <1>7, QueueFits
<1> QED
  BY <1>1, <1>2, <1>3, <1>4, <1>5, <1>6, <1>7, <1>8

-----------------------------------------------------------------------------
\* The handshake

LEMMA Refusing ==
  ASSUME NEW h \in Handlers, NEW o \in {"ok", "retry"}, Decide(h, o)
  PROVE  /\ UNCHANGED signal /\ received \subseteq received'
         /\ o = "ok" => UNCHANGED toRetry
BY DEF Decide, DecideUnlocked, DecideLogs

LEMMA DriveHandshake ==
  ASSUME TypeOK, Handshake, Proceed
  PROVE  Handshake'
<1>1. UNCHANGED <<signal, refusedLog>> /\ received \subseteq received' /\ (errorSignal => errorSignal')
  <2>1. UNCHANGED refusedLog
    BY DEF Proceed, StartBackend, Record_, StartAgent, AgentDoesNotStart, StartLoad_, Sleep, CheckMemory,
         WaitFor, WaitTimeout, FeedNotFound, FeedFound, FeedAgain, Feed, StopLoad_, StopAgent,
         ValidateData, StopBackend, RecordResults, Elsewhere, agentVars
  <2>4. errorSignal => errorSignal'
    BY DEF Proceed, StartBackend, Record_, StartAgent, AgentDoesNotStart, StartLoad_, Sleep, CheckMemory,
         WaitFor, WaitTimeout, FeedNotFound, FeedFound, FeedAgain, Feed, StopLoad_, StopAgent,
         ValidateData, StopBackend, RecordResults
  <2>2. ASSUME NEW h \in Handlers, Feed(h) PROVE UNCHANGED signal /\ received \subseteq received'
    BY <2>2, Refusing DEF Feed
  <2>3. UNCHANGED <<signal, received>> \/ \E h \in Handlers : Feed(h)
    BY DEF Proceed, StartBackend, Record_, StartAgent, AgentDoesNotStart, StartLoad_, Sleep, CheckMemory,
         WaitFor, WaitTimeout, FeedNotFound, FeedFound, FeedAgain, StopLoad_, StopAgent,
         ValidateData, StopBackend, RecordResults, Elsewhere, EnableRecording, backendVars
  <2> QED
    BY <2>1, <2>2, <2>3, <2>4
<1>2. /\ UNCHANGED scenario
      /\ (backend' = "failed" <=> backend = "failed")
      /\ \A s \in {"feed", "waitRetried"} : /\ Passed(s) => Passed(s)'
                                            /\ Passed(s)' => Passed(s) \/ At(s)
  BY Driven
<1>3. CASE At("feed")
  <2>1. scenario \in Fed /\ ~Passed("feed") /\ ~Passed("waitRetried") /\ channel = "open"
    BY <1>3, Behind DEF TypeOK, Handshake, Name
  <2>2. ~Passed("waitRetried")'
    BY <1>2, <1>3, <2>1 DEF At
  <2>3. CASE UNCHANGED <<pc, channel>>
    BY <1>1, <1>2, <2>1, <2>2, <2>3, Driven, Staying DEF Handshake
  <2>4. CASE Advance /\ UNCHANGED channel /\ errorSignal'
    <3>1. Passed("feed")'
      <4>1. pc \in 1 .. Len(Steps)
        BY <1>3 DEF At, TypeOK
      <4> QED
        BY <1>3, <2>4, <4>1, Driven, Passing DEF Advance, At, TypeOK
    <3> QED
      BY <1>1, <1>2, <2>1, <2>2, <2>4, <3>1 DEF Handshake
  <2>5. CASE Advance /\ CloseChannel /\ refusedLog
    <3>1. Passed("feed")'
      <4>1. pc \in 1 .. Len(Steps)
        BY <1>3 DEF At, TypeOK
      <4> QED
        BY <1>3, <2>5, <4>1, Driven, Passing DEF Advance, At, TypeOK
    <3> QED
      BY <1>1, <1>2, <2>1, <2>2, <2>5, <3>1 DEF Handshake, CloseChannel
  <2> QED
    BY <1>3, <2>3, <2>4, <2>5
    DEF Proceed, StartBackend, Record_, StartAgent, AgentDoesNotStart, StartLoad_, Sleep, CheckMemory,
        WaitFor, WaitTimeout, Condition, FeedNotFound, FeedFound, FeedAgain, Feed, StopLoad_, StopAgent,
        ValidateData, StopBackend, RecordResults, Quiet, At
<1>4. CASE ~At("feed")
  <2>1. UNCHANGED <<channel, toRetry>>
    BY <1>4 DEF Proceed, StartBackend, Record_, StartAgent, AgentDoesNotStart, StartLoad_, Sleep, CheckMemory,
         WaitFor, WaitTimeout, FeedNotFound, FeedFound, FeedAgain, Feed, StopLoad_, StopAgent,
         ValidateData, StopBackend, RecordResults, Elsewhere, Quiet, EnableRecording, backendVars
  <2>2. Passed("feed")' <=> Passed("feed")
    BY <1>2, <1>4
  <2>3. ASSUME At("waitRetried") PROVE errorSignal' \/ toRetry \subseteq received
    BY <2>3 DEF Proceed, StartBackend, Record_, StartAgent, AgentDoesNotStart, StartLoad_, Sleep, CheckMemory,
         WaitFor, WaitTimeout, Condition, FeedNotFound, FeedFound, FeedAgain, Feed, StopLoad_, StopAgent,
         ValidateData, StopBackend, RecordResults, At
  <2> QED
    BY <1>1, <1>2, <2>1, <2>2, <2>3 DEF Handshake
<1> QED
  BY <1>3, <1>4

LEMMA OthersHandshake ==
  ASSUME TypeOK, Handshake, Others \/ UNCHANGED vars
  PROVE  Handshake'
<1>1. UNCHANGED <<scenario, channel, backend>> /\ \A s : Passed(s)' <=> Passed(s)
  BY Waited
<1>2. errorSignal => errorSignal'
  BY DEF Others, WatchStep, Trip, AgentEnds, GenerateStep, WorkerStep, ExportStep, AgentGivesUp, BackendStep,
         vars, testVars
<1>4. refusedLog => refusedLog'
  BY DEF Others, WatchStep, Trip, AgentEnds, GenerateStep, WorkerStep, ExportStep, Export, ExportTimeout,
         ExportAnswered, AgentGivesUp, BackendStep, vars, agentVars
<1>3. UNCHANGED <<signal, toRetry>> /\ received \subseteq received'
  <2>1. ASSUME NEW h \in Handlers, BackendStep(h)
        PROVE  UNCHANGED <<signal, toRetry>> /\ received \subseteq received'
    <3>1. CASE Handle(h)
      BY <3>1 DEF Handle, Lock, AppendDropped, Record, Count
    <3> QED
      BY <2>1, <3>1, Refusing DEF BackendStep
  <2>2. CASE UNCHANGED backendVars
    BY <2>2 DEF backendVars
  <2> QED
    BY <2>1, <2>2 DEF Others, WatchStep, Trip, AgentEnds, GenerateStep, WorkerStep, ExportStep, Export,
         ExportTimeout, ExportAnswered, AgentGivesUp, Call, Answered, vars
<1> QED
  BY <1>1, <1>2, <1>3, <1>4 DEF Handshake

-----------------------------------------------------------------------------
\* The load

LEMMA DriveLoad ==
  ASSUME TypeOK, LoadOver, Proceed
  PROVE  LoadOver'
<1>1. /\ \A s \in {"load", "stopLoad"} : /\ Passed(s) => Passed(s)'
                                         /\ Passed(s)' => Passed(s) \/ At(s)
      /\ At("stopLoad") => Passed("load") \/ backend = "failed"
      /\ (backend' = "failed" <=> backend = "failed")
  BY Driven, Behind DEF TypeOK
<1>2. CASE StartLoad_
  BY <1>1, <1>2 DEF StartLoad_, StartLoad, LoadOver, At
<1>3. CASE StopLoad_
  <2>1. /\ At("stopLoad") /\ ~At("load") /\ (Passed("load") \/ backend = "failed")
        /\ Passed("load")' <=> Passed("load")
    BY <1>1, <1>3 DEF StopLoad_, At
  <2>2. CASE StopLoad /\ UNCHANGED <<scenario, pc>>
    BY <1>1, <2>1, <2>2, Driven, Staying DEF StopLoad, LoadOver
  <2>3. CASE stopCall = "returned" /\ UNCHANGED loadVars
    BY <1>1, <2>1, <2>3 DEF loadVars, LoadOver
  <2> QED
    BY <1>3, <2>2, <2>3 DEF StopLoad_
<1>4. CASE UNCHANGED loadVars /\ ~At("load") /\ ~At("stopLoad")
  BY <1>1, <1>4 DEF loadVars, LoadOver
<1> QED
  BY <1>2, <1>3, <1>4
  DEF Proceed, StartBackend, Record_, StartAgent, AgentDoesNotStart, Sleep, CheckMemory,
      WaitFor, WaitTimeout, Waiting, FeedNotFound, FeedFound, FeedAgain, Feed, StopAgent,
      ValidateData, StopBackend, RecordResults, Elsewhere, At

LEMMA OthersLoad ==
  ASSUME TypeOK, LoadOver, Others \/ UNCHANGED vars
  PROVE  LoadOver'
<1>1. UNCHANGED backend /\ \A s : Passed(s)' <=> Passed(s)
  BY Waited
<1>2. worker \in [Workers -> {"off", "select", "sending", "ended"}]
  BY DEF TypeOK, LoadTypeOK
<1>3. CASE UNCHANGED loadVars
  BY <1>1, <1>3 DEF loadVars, LoadOver
<1>4. CASE Generate
  <2>1. CASE GenerateNothing
    BY <1>1, <2>1 DEF GenerateNothing, LoadOver
  <2>2. CASE StartWorkers
    BY <1>1, <2>2 DEF StartWorkers, LoadOver
  <2>3. CASE EndGenerate
    BY <1>1, <2>3 DEF EndGenerate, LoadOver
  <2>4. CASE StopReturns
    BY <1>1, <2>4 DEF StopReturns, LoadOver
  <2> QED
    BY <1>4, <2>1, <2>2, <2>3, <2>4 DEF Generate
<1>5. ASSUME NEW w \in Workers, WorkerStep(w) PROVE LoadOver'
  <2>1. UNCHANGED <<generator, stopCall>>
    BY <1>5 DEF WorkerStep, Tick, EndWorker, Taken, SendAgain, GiveUp
  <2>2. worker[w] \in {"select", "sending"}
    BY <1>5 DEF WorkerStep, Tick, EndWorker, Taken, SendAgain, GiveUp, Release
  <2>3. generator = "running"
    BY <2>2 DEF LoadOver, TypeOK, LoadTypeOK
  <2> QED
    BY <1>1, <2>1, <2>3 DEF LoadOver
<1> QED
  BY <1>3, <1>4, <1>5 DEF Others, WatchStep, Trip, AgentEnds, GenerateStep, ExportStep, AgentGivesUp,
     BackendStep, vars

-----------------------------------------------------------------------------
\* One place for every batch

\* No answer has come too late, in a scenario that refuses nothing.
Regular == scenario \notin Fed /\ timeouts = 0

LEMMA MadeIsSent ==
  ASSUME TypeOK, Carries, sent = made /\ counted \subseteq 1 .. made, Next \/ UNCHANGED vars
  PROVE  sent' = made' /\ counted' \subseteq 1 .. made' /\ made <= made'
<1> USE Wiring DEF TypeOK, LoadTypeOK
<1>1. sent' = made' /\ made' \in {made, made + 1}
  <2>1. ASSUME NEW w \in Workers, WorkerStep(w) PROVE sent' = made' /\ made' \in {made, made + 1}
    BY <2>1 DEF WorkerStep, Tick, Make, EndWorker, Taken, SendAgain, GiveUp
  <2>2. CASE UNCHANGED <<sent, made>>
    BY <2>2
  <2>3. UNCHANGED <<sent, made>> \/ \E w \in Workers : WorkerStep(w)
    BY DEF Next, Drive, Proceed, BackendDoesNotStart, StartBackend, Record_, StartAgent, AgentDoesNotStart, StartLoad_, Sleep, CheckMemory,
         WaitFor, WaitTimeout, FeedNotFound, FeedFound, FeedAgain, Feed, StopLoad_, StopAgent,
         ValidateData, StopBackend, RecordResults, Elsewhere, StartLoad, StopLoad, WatchStep, Trip,
         AgentEnds, GenerateStep, Generate, GenerateNothing, StartWorkers, EndGenerate, StopReturns,
         ExportStep, AgentGivesUp, BackendStep, loadVars, vars
  <2> QED
    BY <2>1, <2>2, <2>3
<1>2. \A h \in Handlers : at[h] # "idle" => carried[h] \in 1 .. made
  BY DEF Carries
<1>3. ASSUME NEW h \in Handlers, Handle(h) \/ Decide(h, "ok") \/ Decide(h, "retry")
      PROVE  counted' \in {counted, counted \union {carried[h]}} /\ carried[h] \in 1 .. made
  BY <1>2, <1>3 DEF Handle, Lock, AppendDropped, Record, Count, Decide, DecideUnlocked, DecideLogs
<1>4. \/ UNCHANGED counted
      \/ \E h \in Handlers : Handle(h) \/ Decide(h, "ok") \/ Decide(h, "retry")
  BY DEF Next, Drive, Proceed, BackendDoesNotStart, StartBackend, Record_, StartAgent, AgentDoesNotStart, StartLoad_, Sleep, CheckMemory,
         WaitFor, WaitTimeout, FeedNotFound, FeedFound, FeedAgain, Feed, StopLoad_, StopAgent,
         ValidateData, StopBackend, RecordResults, Elsewhere, EnableRecording, WatchStep, Trip,
         AgentEnds, GenerateStep, WorkerStep, ExportStep, Export, Call, ExportAnswered, Answered,
         AgentGivesUp, ExportTimeout, BackendStep, backendVars, vars
<1>5. counted' \subseteq 1 .. made
  BY <1>3, <1>4
<1> QED
  BY <1>1, <1>5

\* Nothing is counted, and nothing comes to another place.
LEMMA NothingMoves ==
  ASSUME OnePlace, UNCHANGED <<carried, counted>>,
         \A w \in Workers : Sending(w)' => Sending(w) /\ held'[w] = held[w],
         \A h \in Handlers : /\ Underway(h)' => Underway(h)
                             /\ Underway(h)' \/ at'[h] \in {"idle", "ok"},
         UNCHANGED queue \/ queue' = <<>>
  PROVE  OnePlace'
<1>1. \A i \in DOMAIN queue' : i \in DOMAIN queue /\ queue'[i] = queue[i]
  OBVIOUS
<1> QED
  BY <1>1 DEF OnePlace

LEMMA WorkerPlace ==
  ASSUME TypeOK, Carries, OnePlace, counted \subseteq 1 .. made, NEW w \in Workers, WorkerStep(w)
  PROVE  OnePlace' /\ UNCHANGED <<counter, counted>>
<1> USE Wiring
<1>1. /\ worker \in [Workers -> {"off", "select", "sending", "ended"}]
      /\ held \in [Workers -> 0 .. MaxBatches] /\ made \in Nat
  BY DEF TypeOK, LoadTypeOK
<1>2. UNCHANGED <<at, carried, counted, counter>>
  BY DEF WorkerStep, backendVars
<1>6. \A h \in Handlers : /\ Underway(h)' <=> Underway(h)
                          /\ Underway(h)' \/ at'[h] \in {"idle", "ok"}
  BY <1>2 DEF Underway, OnePlace
<1>3. CASE (EndWorker(w) \/ SendAgain(w) \/ GiveUp(w)) /\ UNCHANGED queue
  <2>1. \A x \in Workers : Sending(x)' => Sending(x) /\ held'[x] = held[x]
    BY <1>1, <1>3 DEF EndWorker, SendAgain, GiveUp, Release, Sending
  <2> QED
    BY <1>2, <1>3, <1>6, <2>1, NothingMoves
<1>4. CASE Tick(w) /\ UNCHANGED queue
  <2>1. /\ held'[w] = made + 1 /\ Sending(w)'
        /\ \A x \in Workers : x # w /\ Sending(x)' => Sending(x) /\ held'[x] = held[x]
    BY <1>1, <1>4 DEF Tick, Make, Sending
  <2>2. /\ \A x \in Workers : Sending(x) => held[x] # made + 1
        /\ \A h \in Handlers : Underway(h) => carried[h] # made + 1
        /\ \A i \in DOMAIN queue : queue[i] # made + 1
        /\ made + 1 \notin counted
    BY <1>1 DEF Carries, Underway
  <2> QED
    BY <1>2, <1>4, <1>6, <2>1, <2>2 DEF OnePlace
<1>5. CASE Taken(w) /\ queue' = Append(queue, held[w])
  <2>1. /\ Sending(w) /\ ~Sending(w)'
        /\ \A x \in Workers : Sending(x)' => x # w /\ Sending(x) /\ held'[x] = held[x]
    BY <1>1, <1>5 DEF Taken, Release, Sending
  <2>2. /\ Len(queue) \in Nat /\ DOMAIN queue = 1 .. Len(queue) /\ DOMAIN queue' = 1 .. Len(queue) + 1
        /\ \A i \in 1 .. Len(queue) : queue'[i] = queue[i]
        /\ queue'[Len(queue) + 1] = held[w]
    <3>1. held[w] \in Batch
      BY <2>1, CarriedIn DEF TypeOK
    <3> QED
      BY <1>5, <3>1, Queued DEF TypeOK
  <2>3. \A i \in DOMAIN queue' : \/ i \in DOMAIN queue /\ queue'[i] = queue[i]
                                 \/ i = Len(queue) + 1 /\ queue'[i] = held[w]
    BY <2>2
  <2>4. \A i, j \in DOMAIN queue' : queue'[i] = queue'[j] => i = j
    BY <2>1, <2>3 DEF OnePlace
  <2> QED
    BY <1>2, <1>6, <2>1, <2>3, <2>4 DEF OnePlace
<1> QED
  BY <1>2, <1>3, <1>4, <1>5 DEF WorkerStep

LEMMA RequestPlace ==
  ASSUME TypeOK, Carries, OnePlace, signal = "traces", counted \subseteq 1 .. made,
         counter = Cardinality(counted), NEW h \in Handlers,
         Export(h) \/ ExportAnswered(h) \/ ((Handle(h) \/ Decide(h, "ok")) /\ UNCHANGED queue),
         UNCHANGED loadVars
  PROVE  OnePlace' /\ counter' = Cardinality(counted')
<1>1. at \in [Handlers -> Place] /\ carried \in [Handlers -> Batch \union {NoBatch}]
  BY PlacesAre DEF TypeOK
<1>2. \A w \in Workers : (Sending(w)' <=> Sending(w)) /\ held'[w] = held[w]
  BY DEF Sending, loadVars
<1>3. CASE Export(h)
  <2>1. /\ at[h] = "idle" /\ at'[h] = "decide" /\ carried'[h] = Head(queue) /\ UNCHANGED <<counter, counted>>
        /\ \A g \in Handlers : g # h => at'[g] = at[g] /\ carried'[g] = carried[g]
        /\ queue # <<>> /\ queue' = Tail(queue)
    BY <1>1, <1>3 DEF Export, Call
  <2>2. /\ Head(queue) = queue[1] /\ 1 \in DOMAIN queue
        /\ \A i \in DOMAIN queue' : i + 1 \in DOMAIN queue /\ queue'[i] = queue[i + 1] /\ i + 1 # 1 /\ i \in Int
    <3>1. /\ queue \in Seq(Batch) /\ Head(queue) = queue[1] /\ 1 \in DOMAIN queue /\ queue[1] \in Batch
          /\ DOMAIN Tail(queue) = 1 .. Len(queue) - 1
          /\ \A i \in 1 .. Len(queue) - 1 : Tail(queue)[i] = queue[i + 1]
      BY <2>1, Unqueued DEF TypeOK
    <3>2. Len(queue) \in Nat /\ DOMAIN queue = 1 .. Len(queue)
      BY <3>1, Queued
    <3>3. /\ DOMAIN queue' = 1 .. Len(queue) - 1
          /\ \A i \in 1 .. Len(queue) - 1 : queue'[i] = queue[i + 1]
      BY <2>1, <3>1, Zenon
    <3>4. \A i \in 1 .. Len(queue) - 1 : i + 1 \in 1 .. Len(queue) /\ i + 1 # 1 /\ i \in Int
      BY <3>2
    <3> QED
      BY <3>1, <3>2, <3>3, <3>4, Zenon
  <2>3. /\ Underway(h)' /\ ~Underway(h)
        /\ \A g \in Handlers : g # h => (Underway(g)' <=> Underway(g))
    BY <2>1 DEF Underway
  <2>4. \A g \in Handlers : Underway(g)' \/ at'[g] \in {"idle", "ok"}
    BY <2>1, <2>3 DEF OnePlace
  <2>5. \A i \in DOMAIN queue' : queue'[i] # queue[1] /\ queue'[i] \notin counted'
    BY <2>1, <2>2 DEF OnePlace
  <2>6. \A i, j \in DOMAIN queue' : queue'[i] = queue'[j] => i = j
    <3> SUFFICES ASSUME NEW i \in DOMAIN queue', NEW j \in DOMAIN queue', queue'[i] = queue'[j] PROVE i = j
      OBVIOUS
    <3>1. i + 1 = j + 1
      BY <2>2 DEF OnePlace
    <3> QED
      BY <2>2, <3>1
  <2>7. \A g \in Handlers : Underway(g)' =>
          /\ carried'[g] \notin counted'
          /\ \A i \in DOMAIN queue' : carried'[g] # queue'[i]
    BY <2>1, <2>2, <2>3, <2>5 DEF OnePlace
  <2>8. \A f, g \in Handlers : Underway(f)' /\ Underway(g)' /\ carried'[f] = carried'[g] => f = g
    BY <2>1, <2>2, <2>3 DEF OnePlace
  <2>9. \A w \in Workers : Sending(w)' =>
          /\ held'[w] \notin counted'
          /\ \A i \in DOMAIN queue' : held'[w] # queue'[i]
          /\ \A g \in Handlers : Underway(g)' => held'[w] # carried'[g]
    BY <1>2, <2>1, <2>2, <2>3 DEF OnePlace
  <2>10. \A w, x \in Workers : Sending(w)' /\ Sending(x)' /\ held'[w] = held'[x] => w = x
    BY <1>2 DEF OnePlace
  <2> QED
    BY <2>1, <2>4, <2>5, <2>6, <2>7, <2>8, <2>9, <2>10 DEF OnePlace
<1>4. CASE ExportAnswered(h)
  <2>1. /\ at[h] \in Result /\ at'[h] = "idle" /\ UNCHANGED <<counter, counted>>
        /\ \A g \in Handlers : g # h => at'[g] = at[g] /\ carried'[g] = carried[g]
    BY <1>1, <1>4 DEF ExportAnswered, Answered
  <2>2. UNCHANGED queue
    BY <1>4, <2>1 DEF ExportAnswered, Underway, OnePlace, Result
  <2>3. \A g \in Handlers : /\ Underway(g)' => Underway(g) /\ g # h
                            /\ Underway(g)' \/ at'[g] \in {"idle", "ok"}
    BY <2>1 DEF Underway, OnePlace
  <2> QED
    BY <1>2, <2>1, <2>2, <2>3 DEF OnePlace
<1>5. CASE Count(h) /\ UNCHANGED queue
  <2>1. /\ at[h] = "count" /\ at'[h] = "ok" /\ UNCHANGED carried
        /\ counted' = counted \union {carried[h]} /\ counter' = counter + 1
        /\ \A g \in Handlers : g # h => at'[g] = at[g]
    BY <1>1, <1>5 DEF Count
  <2>2. carried[h] \notin counted
    BY <2>1 DEF OnePlace, Underway
  <2>3. counter' = Cardinality(counted')
    <3>1. IsFiniteSet(counted)
      <4>1. IsFiniteSet(1 .. made)
        BY FS_Interval DEF TypeOK, LoadTypeOK
      <4> QED
        BY <4>1, FS_Subset
    <3> QED
      BY <2>1, <2>2, <3>1, FS_AddElement
  <2>4. /\ Underway(h) /\ ~Underway(h)'
        /\ \A g \in Handlers : /\ Underway(g)' => Underway(g) /\ g # h
                               /\ Underway(g)' \/ at'[g] \in {"idle", "ok"}
    BY <2>1 DEF Underway, OnePlace
  <2> QED
    BY <1>2, <1>5, <2>1, <2>3, <2>4 DEF OnePlace
<1>6. CASE (Record(h) \/ DecideUnlocked(h, "ok")) /\ UNCHANGED queue
  <2>1. /\ Underway(h) /\ Underway(h)' /\ UNCHANGED <<carried, counted, counter>>
        /\ \A g \in Handlers : g # h => at'[g] = at[g]
    BY <1>1, <1>6 DEF Record, DecideUnlocked, Underway
  <2>2. \A g \in Handlers : /\ Underway(g)' <=> Underway(g)
                            /\ Underway(g)' \/ at'[g] \in {"idle", "ok"}
    BY <2>1 DEF Underway, OnePlace
  <2> QED
    BY <1>2, <1>6, <2>1, <2>2 DEF OnePlace
<1>7. ~Lock(h) /\ ~AppendDropped(h) /\ ~DecideLogs(h, "ok")
  BY DEF Lock, AppendDropped, DecideLogs, OnePlace, Underway
<1> QED
  BY <1>3, <1>4, <1>5, <1>6, <1>7 DEF Handle, Decide

LEMMA OnceNext ==
  ASSUME TypeOK, Carries, Handshake, Once, Proceed \/ Others \/ UNCHANGED vars
  PROVE  Once'
<1>1. sent' = made' /\ counted' \subseteq 1 .. made'
  BY MadeIsSent DEF Once, Next, Drive, Others
<1>2. UNCHANGED scenario
  BY Driven, Waited
<1> SUFFICES ASSUME Regular' PROVE OnePlace' /\ counter' = Cardinality(counted')
  BY <1>1 DEF Once, Regular
<1>3. Regular
  <2>1. ASSUME NEW h \in Handlers, AgentGivesUp(h) PROVE FALSE
    BY <2>1, Wiring DEF AgentGivesUp, ExportTimeout, Regular, TypeOK
  <2>2. UNCHANGED timeouts
    BY <2>1 DEF Proceed, StartBackend, Record_, StartAgent, AgentDoesNotStart, StartLoad_, Sleep, CheckMemory,
         WaitFor, WaitTimeout, FeedNotFound, FeedFound, FeedAgain, Feed, StopLoad_, StopAgent,
         ValidateData, StopBackend, RecordResults, Elsewhere, Others, WatchStep, Trip, AgentEnds, GenerateStep,
         WorkerStep, ExportStep, Export, ExportAnswered, BackendStep, agentVars, vars
  <2> QED
    BY <1>2, <2>2 DEF Regular
<1>4. OnePlace /\ counter = Cardinality(counted) /\ signal = "traces" /\ counted \subseteq 1 .. made
  BY <1>3 DEF Once, Regular, Handshake
<1>5. \A h \in Handlers : Underway(h) \/ at[h] \in {"idle", "ok"}
  BY <1>4 DEF OnePlace
<1>6. CASE Proceed
  <2>1. ~At("feed")
    BY <1>3, Behind DEF Regular, TypeOK
  <2>2. UNCHANGED <<worker, held, at, carried, counted, counter, queue>>
    BY <1>6, <2>1 DEF Proceed, StartBackend, Record_, StartAgent, AgentDoesNotStart, StartLoad_, Sleep, CheckMemory,
         WaitFor, WaitTimeout, FeedNotFound, FeedFound, FeedAgain, Feed, StopLoad_, StopAgent,
         ValidateData, StopBackend, RecordResults, Elsewhere, EnableRecording, StartLoad, StopLoad,
         loadVars, backendVars, agentVars
  <2> QED
    BY <1>4, <1>5, <2>2, NothingMoves DEF Sending, Underway
<1>7. CASE AgentEnds \/ WatchStep \/ Trip \/ UNCHANGED vars
  <2>1. UNCHANGED <<worker, held, at, carried, counted, counter>> /\ (UNCHANGED queue \/ queue' = <<>>)
    BY <1>7 DEF AgentEnds, WatchStep, Trip, vars, loadVars, backendVars, agentVars
  <2> QED
    BY <1>4, <1>5, <2>1, NothingMoves DEF Sending, Underway
<1>8. CASE GenerateStep
  <2>1. UNCHANGED <<held, at, carried, counted, counter, queue>>
    BY <1>8 DEF GenerateStep, Generate, GenerateNothing, StartWorkers, EndGenerate, StopReturns, backendVars, agentVars
  <2>2. \A w \in Workers : Sending(w)' => Sending(w)
    BY <1>8 DEF GenerateStep, Generate, GenerateNothing, StartWorkers, EndGenerate, StopReturns, Sending
  <2> QED
    BY <1>4, <1>5, <2>1, <2>2, NothingMoves DEF Underway
<1>9. ASSUME NEW w \in Workers, WorkerStep(w) PROVE OnePlace' /\ counter' = Cardinality(counted')
  BY <1>4, <1>9, WorkerPlace
<1>10. ASSUME NEW h \in Handlers, ExportStep(h) \/ BackendStep(h)
       PROVE  OnePlace' /\ counter' = Cardinality(counted')
  BY <1>4, <1>10, RequestPlace DEF ExportStep, BackendStep, agentVars
<1>11. ASSUME NEW h \in Handlers, AgentGivesUp(h) PROVE FALSE
  BY <1>3, <1>11, Wiring DEF AgentGivesUp, ExportTimeout, Regular, TypeOK
<1> QED
  BY <1>6, <1>7, <1>8, <1>9, <1>10, <1>11 DEF Others

-----------------------------------------------------------------------------
\* The result

LEMMA AllCounted ==
  ASSUME TypeOK, Once, Regular, sent = counter
  PROVE  counted = 1 .. made
<1>1. made \in Nat /\ counted \subseteq 1 .. made /\ Cardinality(counted) = made
  BY Wiring DEF Once, Regular, TypeOK, LoadTypeOK
<1>2. IsFiniteSet(1 .. made) /\ Cardinality(1 .. made) = made
  BY <1>1, FS_Interval
<1> QED
  BY <1>1, <1>2, FS_Subset

LEMMA DriveResults ==
  ASSUME TypeOK, LoadOver, Once, Results, Proceed
  PROVE  Results'
<1>1. /\ UNCHANGED scenario /\ (backend' = "failed" <=> backend = "failed")
      /\ \A s \in {"validate", "report"} : /\ Passed(s) => Passed(s)'
                                           /\ Passed(s)' => Passed(s) \/ At(s)
  BY Driven
<1>2. \A s : At(s) => report = "none"
  BY Behind DEF Results, At, Done, TypeOK
<1>3. UNCHANGED timeouts
  BY DEF Proceed, StartBackend, Record_, StartAgent, AgentDoesNotStart, StartLoad_, Sleep, CheckMemory,
       WaitFor, WaitTimeout, FeedNotFound, FeedFound, FeedAgain, Feed, StopLoad_, StopAgent,
       ValidateData, StopBackend, RecordResults, Elsewhere, agentVars
<1>4. errorSignal => errorSignal'
  BY DEF Proceed, StartBackend, Record_, StartAgent, AgentDoesNotStart, StartLoad_, Sleep, CheckMemory,
       WaitFor, WaitTimeout, FeedNotFound, FeedFound, FeedAgain, Feed, StopLoad_, StopAgent,
       ValidateData, StopBackend, RecordResults
<1>5. UNCHANGED made /\ (generator = "done" => generator' = "done")
  BY DEF Proceed, StartBackend, Record_, StartAgent, AgentDoesNotStart, StartLoad_, Sleep, CheckMemory,
       WaitFor, WaitTimeout, FeedNotFound, FeedFound, FeedAgain, Feed, StopLoad_, StopAgent,
       ValidateData, StopBackend, RecordResults, Elsewhere, StartLoad, StopLoad, loadVars
<1>6. scenario \in ByCounters => UNCHANGED counted
  <2>1. scenario \in ByCounters => ~At("feed")
    BY Behind DEF TypeOK, ByCounters, Fed
  <2> QED
    BY <2>1 DEF Proceed, StartBackend, Record_, StartAgent, AgentDoesNotStart, StartLoad_, Sleep, CheckMemory,
       WaitFor, WaitTimeout, FeedNotFound, FeedFound, FeedAgain, Feed, StopLoad_, StopAgent,
       ValidateData, StopBackend, RecordResults, Elsewhere, EnableRecording, backendVars
<1>7. CASE ValidateData
  <2>1. /\ At("validate") /\ ~At("report") /\ UNCHANGED <<report, errorSignal>> /\ report = "none"
        /\ verdict' = IF errorSignal THEN "skipped" ELSE IF Valid THEN "passed" ELSE "failed"
        /\ (verdict' = "failed" => failed') /\ (failed => failed')
    BY <1>2, <1>7 DEF ValidateData, At
  <2>2. ASSUME verdict' = "passed", scenario \in ByCounters, timeouts = 0
        PROVE  counted = 1 .. made /\ generator = "done"
    <3>1. Regular /\ sent = counter
      BY <2>1, <2>2 DEF Regular, Valid, ByCounters, Fed
    <3>2. generator = "done"
      BY <2>1, <2>2, Behind DEF LoadOver, TypeOK, Name
    <3> QED
      BY <3>1, <3>2, AllCounted
  <2>3. timeouts = 0 \/ timeouts > 0
    BY Wiring DEF TypeOK
  <2> QED
    BY <1>1, <1>3, <1>4, <1>5, <1>6, <2>1, <2>2, <2>3 DEF Results
<1>8. CASE RecordResults
  <2>1. Passed("report")'
    BY <1>8, Driven, Passing DEF RecordResults, Advance, At, TypeOK
  <2>2. /\ ~At("validate") /\ UNCHANGED <<verdict, failed>>
        /\ report' = IF failed THEN "FAIL" ELSE "PASS"
    BY <1>8 DEF RecordResults, At
  <2> QED
    BY <1>1, <1>3, <1>4, <1>5, <1>6, <2>1, <2>2 DEF Results
<1>9. CASE /\ UNCHANGED <<verdict, report>> /\ (failed => failed') /\ (failed' => failed \/ report = "none")
           /\ ~At("validate")
  <2>1. report' # "none" => Passed("report")'
    BY <1>1, <1>9 DEF Results
  <2>2. verdict' = "failed" \/ backend' = "failed" => failed'
    BY <1>1, <1>9 DEF Results
  <2>3. report' = "PASS" => ~failed'
    BY <1>9 DEF Results
  <2>4. Passed("validate")' => verdict' # "none"
    BY <1>1, <1>9 DEF Results
  <2>5. verdict' = "skipped" => errorSignal'
    BY <1>4, <1>9 DEF Results
  <2>6. verdict' = "passed" /\ scenario' \in ByCounters =>
          timeouts' > 0 \/ (counted' = 1 .. made' /\ generator' = "done")
    BY <1>1, <1>3, <1>5, <1>6, <1>9 DEF Results
  <2> QED
    BY <2>1, <2>2, <2>3, <2>4, <2>5, <2>6 DEF Results
<1>10. CASE CheckMemory
  <2>1. At("memory") /\ UNCHANGED <<verdict, report>> /\ failed' \in {failed, TRUE}
    BY <1>10 DEF CheckMemory
  <2>2. report = "none" /\ ~At("validate")
    BY <1>2, <2>1 DEF At
  <2>3. failed => failed'
    BY <2>1
  <2> QED
    BY <1>9, <2>1, <2>2, <2>3
<1>11. \/ ValidateData \/ RecordResults \/ CheckMemory
       \/ UNCHANGED <<verdict, report, failed>> /\ ~At("validate")
  BY DEF Proceed, StartBackend, Record_, StartAgent, AgentDoesNotStart, StartLoad_, Sleep,
       WaitFor, WaitTimeout, Waiting, FeedNotFound, FeedFound, FeedAgain, Feed, StopLoad_, StopAgent,
       StopBackend, Quiet, At
<1> QED
  BY <1>7, <1>8, <1>9, <1>10, <1>11

LEMMA OthersResults ==
  ASSUME TypeOK, LoadOver, Carries, Once, Results, Others \/ UNCHANGED vars
  PROVE  Results'
<1>1. UNCHANGED <<scenario, backend, verdict, report, failed>> /\ \A s : Passed(s)' <=> Passed(s)
  BY Waited
<1>2. errorSignal => errorSignal'
  BY DEF Others, WatchStep, Trip, AgentEnds, GenerateStep, WorkerStep, ExportStep, AgentGivesUp, BackendStep,
         vars, testVars
<1>3. timeouts > 0 => timeouts' > 0
  <2>1. ASSUME NEW h \in Handlers, AgentGivesUp(h) PROVE timeouts > 0 => timeouts' > 0
    BY <2>1, Wiring DEF AgentGivesUp, ExportTimeout, TypeOK
  <2> QED
    BY <2>1 DEF Others, WatchStep, Trip, AgentEnds, GenerateStep, WorkerStep, ExportStep, Export, ExportAnswered,
         BackendStep, vars, agentVars
<1>4. ASSUME counted = 1 .. made, generator = "done" PROVE counted' = 1 .. made' /\ generator' = "done"
  <2>1. UNCHANGED <<made, generator>>
    <3>1. ASSUME NEW w \in Workers, WorkerStep(w) PROVE UNCHANGED <<made, generator>>
      BY <1>4, <3>1 DEF WorkerStep, Tick, EndWorker, Taken, SendAgain, GiveUp, Release, LoadOver
    <3> QED
      BY <1>4, <3>1 DEF Others, WatchStep, Trip, AgentEnds, GenerateStep, Generate, GenerateNothing, StartWorkers,
         EndGenerate, StopReturns, ExportStep, AgentGivesUp, BackendStep, vars, loadVars
  <2>2. counted \subseteq counted'
    <3>1. ASSUME NEW h \in Handlers, BackendStep(h) PROVE counted \subseteq counted'
      BY <3>1 DEF BackendStep, Handle, Lock, AppendDropped, Record, Count, Decide, DecideUnlocked, DecideLogs
    <3> QED
      BY <3>1 DEF Others, WatchStep, Trip, AgentEnds, GenerateStep, WorkerStep, ExportStep, Export, Call,
         ExportAnswered, Answered, AgentGivesUp, ExportTimeout, vars, backendVars
  <2>3. counted' \subseteq 1 .. made'
    BY MadeIsSent DEF Once, Next, Drive, Others
  <2> QED
    BY <1>4, <2>1, <2>2, <2>3
<1> QED
  BY <1>1, <1>2, <1>3, <1>4 DEF Results

-----------------------------------------------------------------------------
\* The invariant

LEMMA InitInv == Init => IInv
<1> SUFFICES ASSUME Init PROVE IInv
  OBVIOUS
<1>1. \A s : ~Passed(s)
  BY DEF Init, Passed
<1>2. queue = <<>> /\ queue \in Seq(Batch) /\ Len(queue) = 0 /\ DOMAIN queue = {}
  BY EmptySeq DEF Init
<1>3. scenario \in Scenario /\ Len(Steps) \in Nat
  BY StepsAre DEF Init
<1>4. exports = {} /\ Cardinality(exports) = 0 /\ counted = {} /\ Cardinality(counted) = 0
      /\ Cardinality(Handlers) \in Nat
  BY FS_EmptySet, SomeHandlers DEF Init, BackendInit
<1>5. LoadTypeOK /\ BackendTypeOK /\ ProcessTypeOK
  <2>1. LoadTypeOK
    <3>1. 0 \in 0 .. MaxBatches /\ 0 \in 0 .. MaxAttempts
      BY Wiring
    <3> QED
      BY <3>1 DEF Init, LoadInit, LoadTypeOK
  <2>2. BackendTypeOK
    BY Wiring DEF Init, BackendInit, BackendTypeOK
  <2> QED
    BY <2>1, <2>2 DEF Init, ProcessInit, ProcessTypeOK
<1>6. TypeOK
  <2>1. pc \in 1 .. Len(Steps) + 1
    <3>1. pc = 1
      BY DEF Init
    <3> QED
      BY <1>3, <3>1
  <2>2. Len(queue) <= QueueSize + Cardinality(Handlers)
    BY <1>2, <1>4, Wiring
  <2>3. /\ phase = "ready" /\ channel \in {"none", "open"} /\ backend = "new"
        /\ errorSignal = FALSE /\ failed = FALSE /\ refusedLog = FALSE
        /\ verdict = "none" /\ report = "none" /\ timeouts \in 0 .. MaxTimeouts
    BY Wiring DEF Init
  <2> QED
    BY <1>2, <1>3, <1>4, <1>5, <2>1, <2>2, <2>3 DEF TypeOK
<1>7. OneInside /\ TestStops
  BY <1>1, CallerIn, <1>6 DEF Init, ProcessInit, OneInside, TestStops, Caller
<1>8. Handshake /\ LoadOver /\ Results
  BY <1>1 DEF Init, LoadInit, Handshake, LoadOver, Results
<1>9. Carries
  BY <1>2, <1>4, Wiring DEF Init, LoadInit, BackendInit, Carries, Sending
<1>10. Once
  BY <1>2, <1>4 DEF Init, LoadInit, BackendInit, Once, OnePlace, Sending, Underway
<1> QED
  BY <1>6, <1>7, <1>8, <1>9, <1>10 DEF IInv

\* The backend does not start: nothing has been sent, and what is left is Stop.
LEMMA Aborted ==
  ASSUME IInv, BackendDoesNotStart
  PROVE  IInv'
<1>1. /\ At("backend") /\ pc' = 1 /\ backend' = "failed" /\ failed' = TRUE
      /\ UNCHANGED <<scenario, phase, channel, errorSignal, verdict, report>> /\ Elsewhere
  BY DEF BackendDoesNotStart
<1>2. \A s : ~Passed(s)'
  BY <1>1 DEF Passed
<1>3. Len(Steps') \in Nat
  BY <1>1, StepsAre DEF IInv, TypeOK, Steps, Body, Stop
<1>4. TypeOK'
  BY <1>1, <1>3
  DEF IInv, TypeOK, Elsewhere, loadVars, backendVars, processVars, agentVars, LoadTypeOK, BackendTypeOK, ProcessTypeOK
<1>5. stopper["test"] = "out" /\ report = "none"
  BY <1>1, Behind DEF IInv, TypeOK, TestStops, Results, At, Done
<1>6. OneInside' /\ TestStops'
  BY <1>1, <1>2, <1>5 DEF IInv, OneInside, TestStops, Gone, Elsewhere, processVars
<1>7. Handshake'
  BY <1>1, <1>2 DEF IInv, Handshake, Elsewhere, backendVars, agentVars
<1>8. LoadOver'
  BY <1>1, <1>2 DEF IInv, LoadOver, Elsewhere, loadVars
<1>9. Results'
  BY <1>1, <1>2, <1>5 DEF IInv, Results, Elsewhere, loadVars, backendVars, agentVars
<1>10. Carries' /\ Once'
  BY <1>1 DEF IInv, Carries, Sending, Once, OnePlace, Underway, Elsewhere, loadVars, backendVars, agentVars
<1> QED
  BY <1>4, <1>6, <1>7, <1>8, <1>9, <1>10 DEF IInv

LEMMA NextInv == IInv /\ [Next]_vars => IInv'
<1> SUFFICES ASSUME IInv, Drive \/ Others \/ UNCHANGED vars PROVE IInv'
  BY DEF Next, Others
<1>1. CASE Proceed
  <2>1. TypeOK' /\ Carries' /\ Once'
    BY <1>1, DriveTypes, DriveCarries, OnceNext DEF IInv
  <2>2. OneInside' /\ TestStops'
    BY <1>1, DriveProcess DEF IInv
  <2>3. Handshake' /\ LoadOver' /\ Results'
    BY <1>1, DriveHandshake, DriveLoad, DriveResults DEF IInv
  <2> QED
    BY <2>1, <2>2, <2>3 DEF IInv
<1>3. CASE BackendDoesNotStart
  BY <1>3, Aborted
<1>2. CASE Others \/ UNCHANGED vars
  <2>1. Carries' /\ Once'
    BY <1>2, OthersCarry, OnceNext DEF IInv
  <2>2. TypeOK'
    BY <1>2, <2>1, OthersTypes DEF IInv
  <2>3. OneInside' /\ TestStops'
    BY <1>2, OthersProcess DEF IInv
  <2>4. Handshake' /\ LoadOver' /\ Results'
    BY <1>2, OthersHandshake, OthersLoad, OthersResults DEF IInv
  <2> QED
    BY <2>1, <2>2, <2>3, <2>4 DEF IInv
<1> QED
  BY <1>1, <1>2, <1>3 DEF Drive

LEMMA AlwaysInv == Spec => []IInv
BY InitInv, NextInv, PTL DEF Spec

-----------------------------------------------------------------------------
(* Types: among them, that the collector's queue never holds more than it   *)
(* takes and what its exporters put back, and that the channel of a         *)
(* scenario is closed once (closing it again would panic; the scenarios of  *)
(* tests/scenarios.go close it after a wait that may be left for two        *)
(* reasons).                                                                *)
THEOREM TypeCorrect == Spec => []TypeOK
BY AlwaysInv, PTL DEF IInv

(* A result PASS of a scenario that compares the counters means that every  *)
(* batch was received, but for a known error or a request sent twice:       *)
(* RecordResults reads what ValidateData left, which compared DataItemsSent *)
(* with DataItemsReceived after StopLoad, when no more could be made.       *)
THEOREM PassIsDelivery == Spec => []PassMeansDelivered
<1>1. IInv => PassMeansDelivered
  <2> SUFFICES ASSUME IInv, report = "PASS", scenario \in ByCounters
               PROVE  errorSignal \/ timeouts > 0 \/ counted = 1 .. made
    BY DEF PassMeansDelivered
  <2>1. Passed("validate") /\ ~failed
    BY Behind DEF IInv, Results, TypeOK
  <2> QED
    BY <2>1 DEF IInv, Results, TypeOK
<1> QED
  BY <1>1, AlwaysInv, PTL

(* A scenario that makes the backend refuse and ends without an error has   *)
(* seen a refusal in agent.log, has closed its channel, and has received    *)
(* what was asked for again: WaitForN of tests/scenarios.go comes back with *)
(* an error, or with its condition.                                         *)
THEOREM RefusalIsDelivery == Spec => []RefusedThenDelivered
<1>1. IInv => RefusedThenDelivered
  BY Behind DEF IInv, Results, Handshake, TypeOK, RefusedThenDelivered
<1> QED
  BY <1>1, AlwaysInv, PTL

(* The collector is gone when the test is over, unless the watcher is in    *)
(* Stop at that moment: childProcessCollector.Stop lets one caller into     *)
(* stopOnce, and returns to the other as soon as isStopped is set.          *)
THEOREM AgentGone == Spec => []AgentGoneUnlessWatched
<1>1. IInv => AgentGoneUnlessWatched
  BY Behind DEF IInv, TestStops, Stopped, TypeOK, AgentGoneUnlessWatched
<1> QED
  BY <1>1, AlwaysInv, PTL

=============================================================================
