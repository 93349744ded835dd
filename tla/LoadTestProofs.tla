----------------------------- MODULE LoadTestProofs -----------------------------
(***************************************************************************)
(* The load generator and the mock backend, for any number of workers,     *)
(* batches and attempts: the books balance, what a test counts has been    *)
(* recorded, and nothing moves after Stop.                                 *)
(*                                                                         *)
(* BooksBalance needs to know of every batch on its way whether the        *)
(* counter has it, which the place of its request tells, and that no two   *)
(* workers have one batch, which the provider's own counter ensures.       *)
(***************************************************************************)
EXTENDS LoadTest, FiniteSetTheorems, TLAPS

\* The counter of the backend has the batch of request w
Reached(w) == at[w] = "ok" \/ (at[w] = "record" /\ signal # "traces")

Wired == \A w \in Workers :
  /\ worker[w] = "sending" => held[w] \in 1 .. made
  /\ worker[w] # "sending" => held[w] = 0 /\ at[w] = "idle"
  /\ at[w] # "idle" => carried[w] = held[w]

OwnBatch == \A w, x \in Workers :
  worker[w] = "sending" /\ worker[x] = "sending" /\ held[w] = held[x] => w = x

CountedKnown ==
  /\ counted \subseteq 1 .. made
  /\ \A w \in Workers : worker[w] = "sending" => (held[w] \in counted <=> Reached(w))

\* Workers run while generate does
Stages == \A w \in Workers :
  /\ generator \in {"new", "starting"} => worker[w] = "off"
  /\ generator = "done" => worker[w] \in {"off", "ended"}

\* A request for logs holds the mutex from its decision on
LogsUnderMutex == signal = "logs" =>
  \A w \in Workers : at[w] \in {"decide", "count", "record"} => mutex = w

\* A trace is in the record before it is counted, unless it is excused, and a
\* log that is counted is in the record or about to be
RecordedFirst ==
  recording /\ signal # "metrics" =>
    /\ counted \subseteq received \union excused \union BeingRecorded
    /\ \A w \in Workers : at[w] = "count" /\ signal = "traces" => carried[w] \in received \union excused

Sends == Wired /\ OwnBatch /\ CountedKnown /\ LogsUnderMutex /\ Stages

IInv == TypeOK /\ Sends /\ RecordedFirst /\ BooksBalance

\* As long as nothing was refused for good or given up, what the backend asked
\* for again it has counted by now, or a worker still holds it.
Retrying ==
  permanentErrors = 0 /\ givenUp = 0 =>
    \A b \in toRetry : b \in counted \/ \E w \in Workers : worker[w] = "sending" /\ held[w] = b

\* What recording excuses, when it begins, are batches
LEMMA ExcusedIn ==
  ASSUME counted \subseteq Batch, \A h \in Handlers : at[h] = "count" => carried[h] \in Batch
  PROVE  counted \union {carried[h] : h \in {g \in Handlers : at[g] = "count"}} \subseteq Batch
OBVIOUS

\* In its place in the alphabet of places
Place == {"ok", "retry", "permanent", "idle", "called", "decide", "record", "count", "drop"}

USE DEF TypeOK, LoadTypeOK, BackendTypeOK

-----------------------------------------------------------------------------
\* The wiring: request w carries a batch that is a positive number
LEMMA Wiring ==
  /\ Handlers = Workers /\ Batch = 1 .. MaxBatches /\ NoBatch = 0
  /\ MaxBatches \in Nat /\ MaxAttempts \in Nat \ {0} /\ IsFiniteSet(Workers)
  /\ Outcomes \subseteq {"ok", "retry", "permanent"}
  /\ "free" \notin Workers
BY WiringAssumption, GeneratorAssumption, BackendAssumption
DEF WiringAssumption, GeneratorAssumption, BackendAssumption

LEMMA PlacesAre == TypeOK => at \in [Workers -> Place]
BY Wiring DEF Result, Place

LEMMA UncountedFinite == IsFiniteSet(Uncounted) /\ Cardinality(Uncounted) \in Nat
<1>1. Uncounted \subseteq Workers
  BY DEF Uncounted, Pending
<1> QED
  BY <1>1, Wiring, FS_Subset, FS_CardinalityType

\* The uncounted batches are those whose request has not reached the counter
LEMMA UncountedAre ==
  ASSUME CountedKnown
  PROVE  Uncounted = {w \in Workers : worker[w] = "sending" /\ ~Reached(w)}
BY DEF CountedKnown, Uncounted, Pending

-----------------------------------------------------------------------------
\* Steps that neither start nor finish nor count a batch keep the books.
LEMMA SameBooks ==
  ASSUME IInv, CountedKnown',
         UNCHANGED <<worker, held, made, sent, permanentErrors, givenUp, counter, counted>>
  PROVE  BooksBalance'
<1>1. Uncounted' = Uncounted
  BY DEF Uncounted, Pending
<1> QED
  BY <1>1 DEF IInv, BooksBalance

\* A batch is added to the uncounted ones or leaves them.
LEMMA OneMore ==
  ASSUME NEW w \in Workers, w \notin Uncounted, Uncounted' = Uncounted \cup {w}
  PROVE  Cardinality(Uncounted') = Cardinality(Uncounted) + 1
BY UncountedFinite, FS_AddElement

LEMMA OneLess ==
  ASSUME NEW w \in Uncounted, Uncounted' = Uncounted \ {w}
  PROVE  Cardinality(Uncounted') = Cardinality(Uncounted) - 1
BY UncountedFinite, FS_RemoveElement

-----------------------------------------------------------------------------
\* Where the steps of one worker, or of the test, leave the types

LEMMA GeneratorTypes == IInv /\ [GenerateStep \/ TestStep]_vars => TypeOK'
<1> SUFFICES ASSUME IInv, [GenerateStep \/ TestStep]_vars PROVE TypeOK'
  OBVIOUS
<1> USE Wiring DEF IInv
<1>1. CASE GenerateStep
  BY <1>1 DEF GenerateStep, Generate, GenerateNothing, StartWorkers, EndGenerate, StopReturns, backendVars
<1>2. CASE (StartLoad \/ StopLoad) /\ UNCHANGED backendVars
  BY <1>2 DEF StartLoad, StopLoad, backendVars
<1>3. CASE EnableRecording /\ UNCHANGED loadVars
  <2>1. excused' \subseteq Batch
    <3>1. \A h \in Handlers : at[h] = "count" => carried[h] \in Batch
      <4>1. ASSUME NEW h \in Handlers, at[h] = "count" PROVE carried[h] \in Batch
        <5>1. worker[h] = "sending" /\ carried[h] = held[h] /\ held[h] \in 1 .. made
          BY <4>1 DEF Sends, Wired
        <5> QED
          BY <5>1
      <4> QED
        BY ONLY <4>1
    <3>2. excused' = counted \union {carried[h] : h \in {g \in Handlers : at[g] = "count"}}
      BY <1>3 DEF EnableRecording
    <3>3. counted \subseteq Batch
      OBVIOUS
    <3>4. counted \union {carried[h] : h \in {g \in Handlers : at[g] = "count"}} \subseteq Batch
      BY ONLY <3>1, <3>3, ExcusedIn
    <3> QED
      BY ONLY <3>2, <3>4
  <2> QED
    BY <1>3, <2>1 DEF EnableRecording, loadVars
<1>4. CASE ClearReceivedItems /\ UNCHANGED loadVars
  BY <1>4 DEF ClearReceivedItems, loadVars
<1>5. CASE UNCHANGED vars
  BY <1>5 DEF vars, loadVars, backendVars
<1> QED
  BY <1>1, <1>2, <1>3, <1>4, <1>5 DEF TestStep

LEMMA WorkerTypes ==
  ASSUME IInv, NEW w \in Workers,
         ((Tick(w) \/ EndWorker(w)) /\ UNCHANGED backendVars) \/ Send(w) \/ SenderReturns(w)
  PROVE  TypeOK'
<1> USE Wiring DEF IInv
<1>1. CASE Tick(w) /\ UNCHANGED backendVars
  BY <1>1 DEF Tick, Make, backendVars
<1>2. CASE EndWorker(w) /\ UNCHANGED backendVars
  BY <1>2 DEF EndWorker, backendVars
<1>3. CASE Send(w)
  <2>1. held[w] \in Batch
    BY <1>3 DEF Send, Sends, Wired
  <2>2. carried' \in [Handlers -> Batch \union {NoBatch}]
    BY <1>3, <2>1 DEF Send, Call
  <2>3. at' \in [Handlers -> Result \union {"idle", "called", "decide", "record", "count", "drop"}]
    BY <1>3 DEF Send, Call
  <2> QED
    BY <1>3, <2>2, <2>3 DEF Send, Call, loadVars
<1>4. CASE SenderReturns(w)
  <2>1. BackendTypeOK'
    BY <1>4 DEF SenderReturns, Answered
  <2>2. CASE Taken(w) \/ Refused(w) \/ GiveUp(w)
    <3>1. Release(w)
      BY <2>2 DEF Taken, Refused, GiveUp
    <3>2. /\ worker' \in [Workers -> {"off", "select", "sending", "ended"}]
          /\ held' \in [Workers -> 0 .. MaxBatches]
          /\ attempts' \in [Workers -> 0 .. MaxAttempts]
      BY <3>1 DEF Release
    <3>3. permanentErrors' \in Nat /\ nonPermanentErrors' \in Nat /\ givenUp' \in Nat
      <4>1. permanentErrors \in Nat /\ nonPermanentErrors \in Nat /\ givenUp \in Nat
        OBVIOUS
      <4> QED
        BY <2>2, <4>1 DEF Taken, Refused, GiveUp
    <3>4. UNCHANGED <<generator, made, sent, stopSignal, stopCall>>
      BY <2>2 DEF Taken, Refused, GiveUp
    <3> QED
      BY <2>1, <3>2, <3>3, <3>4
  <2>3. CASE SendAgain(w)
    BY <2>1, <2>3 DEF SendAgain
  <2> QED
    BY <1>4, <2>2, <2>3 DEF SenderReturns
<1> QED
  BY <1>1, <1>2, <1>3, <1>4

\* The fields of the backend, one at a time
LEMMA HandlerTypes ==
  ASSUME TypeOK, NEW w \in Workers, at[w] # "idle" => carried[w] \in Batch,
         (Handle(w) \/ \E o \in Outcomes : Decide(w, o)) /\ UNCHANGED loadVars
  PROVE  TypeOK'
<1> USE Wiring
<1>1. LoadTypeOK'
  BY DEF loadVars
<1>2. CASE Lock(w)
  BY <1>1, <1>2 DEF Lock
<1>3. CASE AppendDropped(w)
  BY <1>1, <1>3 DEF AppendDropped, Result
<1>4. CASE Record(w)
  <2>1. at' \in [Handlers -> Result \union {"idle", "called", "decide", "record", "count", "drop"}]
    BY <1>4 DEF Record, Result
  <2>2. received' \subseteq Batch
    BY <1>4 DEF Record
  <2> QED
    BY <1>1, <1>4, <2>1, <2>2 DEF Record
<1>5. CASE Count(w)
  <2>1. at' \in [Handlers -> Result \union {"idle", "called", "decide", "record", "count", "drop"}]
    BY <1>5 DEF Count, Result
  <2>2. carried[w] \in Batch
    BY <1>5 DEF Count
  <2>3. counter' = counter + 1 /\ counted' = counted \union {carried[w]}
    BY <1>5 DEF Count
  <2>4. counter \in Nat /\ counted \subseteq Batch
    OBVIOUS
  <2>5. counted' \subseteq Batch
    BY <2>2, <2>3, <2>4, Zenon
  <2>6. counter' \in Nat
    BY <2>3, <2>4
  <2> QED
    BY <1>1, <1>5, <2>1, <2>5, <2>6 DEF Count
<1>6. ASSUME NEW o \in Outcomes, DecideUnlocked(w, o) PROVE TypeOK'
  <2>1. at' \in [Handlers -> Result \union {"idle", "called", "decide", "record", "count", "drop"}]
    BY <1>6 DEF DecideUnlocked, Result
  <2>2. copy' \in [Handlers -> SUBSET Batch]
    BY <1>6 DEF DecideUnlocked
  <2> QED
    BY <1>1, <1>6, <2>1, <2>2 DEF DecideUnlocked
<1>7. ASSUME NEW o \in Outcomes, DecideLogs(w, o) PROVE TypeOK'
  <2>1. at' \in [Handlers -> Result \union {"idle", "called", "decide", "record", "count", "drop"}]
    BY <1>7 DEF DecideLogs, Result
  <2>2. toRetry' \subseteq Batch /\ dropped' \subseteq Batch
    BY <1>7 DEF DecideLogs
  <2>3. mutex' \in Handlers \union {"free"}
    BY <1>7 DEF DecideLogs
  <2> QED
    BY <1>1, <1>7, <2>1, <2>2, <2>3 DEF DecideLogs
<1> QED
  BY <1>2, <1>3, <1>4, <1>5, <1>6, <1>7 DEF Handle, Decide

HIDE DEF TypeOK, LoadTypeOK, BackendTypeOK

-----------------------------------------------------------------------------
\* The steps of the workers

LEMMA TickSends ==
  ASSUME IInv, NEW w \in Workers, Tick(w), UNCHANGED backendVars
  PROVE  Sends' /\ RecordedFirst' /\ BooksBalance'
<1>1. /\ worker \in [Workers -> {"off", "select", "sending", "ended"}]
      /\ held \in [Workers -> 0 .. MaxBatches]
      /\ made \in Nat /\ sent \in Nat /\ counter \in Nat /\ permanentErrors \in Nat /\ givenUp \in Nat
  BY Wiring DEF IInv, TypeOK, LoadTypeOK, BackendTypeOK
<1>2. /\ worker[w] = "select" /\ worker' = [worker EXCEPT ![w] = "sending"]
      /\ held' = [held EXCEPT ![w] = made + 1] /\ made' = made + 1 /\ sent' = sent + 1
      /\ UNCHANGED <<generator, permanentErrors, givenUp>>
  BY DEF Tick, Make
<1>3. UNCHANGED <<at, carried, mutex, counted, counter, signal, recording, received, excused>>
  BY DEF backendVars
<1>4. at[w] = "idle"
  BY <1>2 DEF IInv, Sends, Wired
<1>5. counted \subseteq 1 .. made
  BY DEF IInv, Sends, CountedKnown
<1>6. Wired'
  BY <1>1, <1>2, <1>3, <1>4 DEF IInv, Sends, Wired
<1>7. OwnBatch'
  BY <1>1, <1>2 DEF IInv, Sends, Wired, OwnBatch
<1>8. CountedKnown'
  BY <1>1, <1>2, <1>3, <1>4, <1>5 DEF IInv, Sends, CountedKnown, Reached
<1>9. LogsUnderMutex' /\ Stages'
  BY <1>1, <1>2, <1>3 DEF IInv, Sends, LogsUnderMutex, Stages
<1>10. RecordedFirst'
  BY <1>3 DEF IInv, RecordedFirst, BeingRecorded
<1>11. w \notin Uncounted /\ Uncounted' = Uncounted \union {w}
  <2>1. CountedKnown
    BY DEF IInv, Sends
  <2>2. Uncounted' = {v \in Workers : worker'[v] = "sending" /\ ~Reached(v)'}
    BY <1>8 DEF CountedKnown, Uncounted, Pending
  <2>3. \A v \in Workers : Reached(v)' = Reached(v)
    BY <1>3 DEF Reached
  <2>4. ~Reached(w)
    BY <1>4 DEF Reached
  <2> QED
    BY <1>1, <1>2, <2>1, <2>2, <2>3, <2>4, UncountedAre
<1>12. Cardinality(Uncounted') = Cardinality(Uncounted) + 1
  BY <1>11, OneMore
<1>13. BooksBalance'
  BY <1>1, <1>2, <1>3, <1>12, UncountedFinite DEF IInv, BooksBalance
<1> QED
  BY <1>6, <1>7, <1>8, <1>9, <1>10, <1>13 DEF Sends

LEMMA EndWorkerSends ==
  ASSUME IInv, NEW w \in Workers, EndWorker(w), UNCHANGED backendVars
  PROVE  Sends' /\ RecordedFirst' /\ BooksBalance'
<1>1. worker \in [Workers -> {"off", "select", "sending", "ended"}]
  BY DEF IInv, TypeOK, LoadTypeOK
<1>2. /\ worker[w] = "select" /\ worker' = [worker EXCEPT ![w] = "ended"]
      /\ UNCHANGED <<generator, held, made, sent, permanentErrors, givenUp>>
  BY DEF EndWorker
<1>3. UNCHANGED <<at, carried, mutex, counted, counter, signal, recording, received, excused>>
  BY DEF backendVars
<1>4. Sends'
  BY <1>1, <1>2, <1>3
  DEF IInv, Sends, Wired, OwnBatch, CountedKnown, LogsUnderMutex, Stages, Reached
<1>5. RecordedFirst'
  BY <1>3 DEF IInv, RecordedFirst, BeingRecorded
<1>6. Uncounted' = Uncounted
  BY <1>1, <1>2, <1>3 DEF Uncounted, Pending
<1> QED
  BY <1>2, <1>3, <1>4, <1>5, <1>6 DEF IInv, BooksBalance

\* A request moves on, within the backend or into it, and is not counted.
LEMMA RequestMoves ==
  ASSUME IInv, NEW w \in Workers, worker[w] = "sending", NEW p \in Place \ {"idle"},
         at' = [at EXCEPT ![w] = p],
         carried'[w] = held[w], \A v \in Workers \ {w} : carried'[v] = carried[v],
         (p = "ok" \/ (p = "record" /\ signal # "traces")) <=> Reached(w),
         signal = "logs" /\ p \in {"decide", "count", "record"} => mutex' = w,
         mutex' = mutex \/ mutex \in {w, "free"},
         UNCHANGED <<loadVars, signal, counter, counted>>
  PROVE  Sends' /\ BooksBalance'
<1>1. at \in [Workers -> Place] /\ w \in Workers
  BY PlacesAre DEF IInv
<1>2. UNCHANGED <<generator, worker, held, made, sent, permanentErrors, givenUp>>
  BY DEF loadVars
<1>3. at'[w] = p /\ \A v \in Workers \ {w} : at'[v] = at[v]
  BY <1>1
<1>4. \A v \in Workers : Reached(v)' <=> Reached(v)
  BY <1>3 DEF Reached
<1>5. Wired'
  BY <1>2, <1>3 DEF IInv, Sends, Wired
<1>6. OwnBatch' /\ Stages'
  BY <1>2 DEF IInv, Sends, OwnBatch, Stages
<1>7. CountedKnown'
  BY <1>2, <1>4 DEF IInv, Sends, CountedKnown
<1>8. LogsUnderMutex'
  BY <1>3, Wiring DEF IInv, Sends, LogsUnderMutex
<1>9. BooksBalance'
  BY <1>2, <1>7, SameBooks
<1> QED
  BY <1>5, <1>6, <1>7, <1>8, <1>9 DEF Sends

\* A request is counted: its batch is one of the uncounted, and of its worker only.
LEMMA RequestCounted ==
  ASSUME IInv, NEW w \in Workers, at[w] = "count", NEW p \in {"ok", "record"},
         at' = [at EXCEPT ![w] = p], p = "record" => signal # "traces",
         counter' = counter + 1, counted' = counted \union {carried[w]},
         UNCHANGED <<loadVars, signal, mutex, carried>>
  PROVE  Sends' /\ BooksBalance'
<1>1. at \in [Workers -> Place]
  BY PlacesAre DEF IInv
<1>2. UNCHANGED <<generator, worker, held, made, sent, permanentErrors, givenUp>>
  BY DEF loadVars
<1>3. at'[w] = p /\ \A v \in Workers \ {w} : at'[v] = at[v]
  BY <1>1
<1>4. worker[w] = "sending" /\ carried[w] = held[w] /\ held[w] \in 1 .. made
  BY DEF IInv, Sends, Wired
<1>5. ~Reached(w) /\ Reached(w)' /\ \A v \in Workers \ {w} : Reached(v)' <=> Reached(v)
  BY <1>3 DEF Reached
<1>6. Wired'
  BY <1>2, <1>3, <1>4 DEF IInv, Sends, Wired
<1>7. OwnBatch' /\ Stages'
  BY <1>2 DEF IInv, Sends, OwnBatch, Stages
<1>8. CountedKnown'
  BY <1>2, <1>4, <1>5 DEF IInv, Sends, CountedKnown, OwnBatch
<1>9. LogsUnderMutex'
  BY <1>3 DEF IInv, Sends, LogsUnderMutex
<1>10. w \in Uncounted /\ Uncounted' = Uncounted \ {w}
  <2>1. CountedKnown
    BY DEF IInv, Sends
  <2>2. Uncounted' = {v \in Workers : worker'[v] = "sending" /\ ~Reached(v)'}
    BY <1>8 DEF CountedKnown, Uncounted, Pending
  <2> QED
    BY <1>2, <1>4, <1>5, <2>1, <2>2, UncountedAre
<1>11. Cardinality(Uncounted') = Cardinality(Uncounted) - 1
  BY <1>10, OneLess
<1>12. BooksBalance'
  <2>1. sent \in Nat /\ counter \in Nat /\ permanentErrors \in Nat /\ givenUp \in Nat
    BY DEF IInv, TypeOK, LoadTypeOK, BackendTypeOK
  <2> QED
    BY <1>2, <1>11, <2>1, UncountedFinite DEF IInv, BooksBalance
<1> QED
  BY <1>6, <1>7, <1>8, <1>9, <1>12 DEF Sends

\* The places between a call and its result
LEMMA HandlerSends ==
  ASSUME IInv, NEW w \in Workers,
         (Handle(w) \/ \E o \in Outcomes : Decide(w, o)) /\ UNCHANGED loadVars
  PROVE  Sends' /\ BooksBalance'
<1>1. at \in [Workers -> Place]
  BY PlacesAre DEF IInv
<1>2. carried \in [Workers -> Batch \union {NoBatch}]
  BY Wiring DEF IInv, TypeOK, BackendTypeOK
<1>3. at[w] # "idle" => worker[w] = "sending" /\ carried[w] = held[w]
  BY DEF IInv, Sends, Wired
<1>4. \A o \in Outcomes : o \in {"ok", "retry", "permanent"}
  BY Wiring
<1>5. signal = "logs" /\ at[w] \in {"decide", "count", "record"} => mutex = w
  BY DEF IInv, Sends, LogsUnderMutex
<1>6. signal \in {"traces", "metrics", "logs"}
  BY DEF IInv, TypeOK, BackendTypeOK, Signal
<1>7. CASE Lock(w)
  <2>1. at' = [at EXCEPT ![w] = "decide"] /\ at[w] = "called" /\ mutex = "free" /\ mutex' = w
    BY <1>7 DEF Lock
  <2>2. UNCHANGED <<loadVars, signal, carried, counter, counted>>
    BY <1>7 DEF Lock
  <2> QED
    BY <1>3, <2>1, <2>2, RequestMoves DEF Reached, Place
<1>8. CASE AppendDropped(w)
  <2>1. at' = [at EXCEPT ![w] = "permanent"] /\ at[w] = "drop"
    BY <1>8 DEF AppendDropped
  <2>2. UNCHANGED <<loadVars, signal, mutex, carried, counter, counted>>
    BY <1>8 DEF AppendDropped
  <2> QED
    BY <1>3, <2>1, <2>2, RequestMoves DEF Reached, Place
<1>9. CASE Record(w)
  <2> DEFINE p == IF signal = "traces" THEN "count" ELSE "ok"
  <2>1. at' = [at EXCEPT ![w] = p] /\ at[w] = "record"
    BY <1>9 DEF Record
  <2>2. UNCHANGED <<loadVars, signal, carried, counter, counted>> /\ mutex \in {w, "free"}
    BY <1>9 DEF Record
  <2>3. p \in Place \ {"idle"} /\ (signal = "logs" => p \notin {"decide", "record", "count"})
    BY DEF Place
  <2>4. (p = "ok" \/ (p = "record" /\ signal # "traces")) <=> Reached(w)
    BY <1>6, <2>1 DEF Reached
  <2> HIDE DEF p
  <2> QED
    BY <1>3, <2>1, <2>2, <2>3, <2>4, RequestMoves
<1>10. CASE Count(w)
  <2> DEFINE p == IF signal = "traces" THEN "ok" ELSE "record"
  <2>1. at' = [at EXCEPT ![w] = p] /\ at[w] = "count"
    BY <1>10 DEF Count
  <2>2. /\ counter' = counter + 1 /\ counted' = counted \union {carried[w]}
        /\ UNCHANGED <<loadVars, signal, mutex, carried>>
    BY <1>10 DEF Count
  <2>3. p \in {"ok", "record"} /\ (p = "record" => signal # "traces")
    BY <1>6
  <2> HIDE DEF p
  <2> QED
    BY <2>1, <2>2, <2>3, RequestCounted
<1>11. ASSUME NEW o \in Outcomes, DecideUnlocked(w, o) PROVE Sends' /\ BooksBalance'
  <2> DEFINE p == CASE o = "ok"        -> IF signal = "traces" THEN "record" ELSE "count"
                    [] o = "permanent" -> IF recording THEN "drop" ELSE "permanent"
                    [] o = "retry"     -> "retry"
  <2>1. at' = [at EXCEPT ![w] = p] /\ at[w] = "decide" /\ signal # "logs"
    BY <1>11 DEF DecideUnlocked
  <2>2. UNCHANGED <<loadVars, signal, mutex, carried, counter, counted>>
    BY <1>11 DEF DecideUnlocked
  <2>3. p \in Place \ {"idle", "ok"} /\ (p = "record" => signal = "traces")
    BY <1>4 DEF Place
  <2>4. (p = "ok" \/ (p = "record" /\ signal # "traces")) <=> Reached(w)
    BY <2>1, <2>3 DEF Reached
  <2> HIDE DEF p
  <2> QED
    BY <1>3, <2>1, <2>2, <2>3, <2>4, RequestMoves
<1>12. ASSUME NEW o \in Outcomes, DecideLogs(w, o) PROVE Sends' /\ BooksBalance'
  <2> DEFINE p == IF o = "ok" THEN "count" ELSE o
  <2>1. at' = [at EXCEPT ![w] = p] /\ at[w] = "decide" /\ signal = "logs"
    BY <1>12 DEF DecideLogs
  <2>2. UNCHANGED <<loadVars, signal, carried, counter, counted>>
    BY <1>12 DEF DecideLogs
  <2>3. mutex = w /\ (p = "count" => mutex' = w)
    BY <1>4, <1>5, <1>12, <2>1 DEF DecideLogs
  <2>4. p \in Place \ {"idle", "ok", "decide", "record"} /\ ~Reached(w)
    BY <1>4, <2>1 DEF Place, Reached
  <2> HIDE DEF p
  <2> QED
    BY <1>3, <2>1, <2>2, <2>3, <2>4, RequestMoves
<1> QED
  BY <1>7, <1>8, <1>9, <1>10, <1>11, <1>12 DEF Handle, Decide

LEMMA SendSends ==
  ASSUME IInv, NEW w \in Workers, Send(w)
  PROVE  Sends' /\ BooksBalance'
<1> DEFINE p == IF signal = "logs" THEN "called" ELSE "decide"
<1>1. worker[w] = "sending" /\ at[w] = "idle" /\ at' = [at EXCEPT ![w] = p]
  BY DEF Send, Call
<1>2. carried' = [carried EXCEPT ![w] = held[w]] /\ UNCHANGED <<loadVars, signal, mutex, counter, counted>>
  BY DEF Send, Call
<1>3. carried \in [Workers -> Batch \union {NoBatch}]
  BY Wiring DEF IInv, TypeOK, BackendTypeOK
<1>4. carried'[w] = held[w] /\ \A v \in Workers \ {w} : carried'[v] = carried[v]
  BY <1>2, <1>3
<1>5. /\ p \in Place \ {"idle", "ok", "record", "count"} /\ ~Reached(w)
      /\ signal = "logs" => p # "decide"
  BY <1>1 DEF Place, Reached
<1> HIDE DEF p
<1> QED
  BY <1>1, <1>2, <1>4, <1>5, RequestMoves

\* The worker has the result, and is done with the batch or sends it again.
LEMMA ReleaseSends ==
  ASSUME IInv, NEW w \in Workers, Answered(w), Release(w), UNCHANGED <<generator, made, sent>>
  PROVE  Sends' /\ Uncounted' = Uncounted \ {w}
<1>1. /\ at \in [Workers -> Place] /\ carried \in [Workers -> Batch \union {NoBatch}]
      /\ worker \in [Workers -> {"off", "select", "sending", "ended"}]
      /\ held \in [Workers -> 0 .. MaxBatches]
  BY PlacesAre, Wiring DEF IInv, TypeOK, LoadTypeOK, BackendTypeOK
<1>2. /\ worker'[w] = "select" /\ \A v \in Workers \ {w} : worker'[v] = worker[v]
      /\ held'[w] = 0 /\ \A v \in Workers \ {w} : held'[v] = held[v]
      /\ worker[w] = "sending"
  BY <1>1 DEF Release
<1>3. /\ at'[w] = "idle" /\ \A v \in Workers \ {w} : at'[v] = at[v]
      /\ \A v \in Workers \ {w} : carried'[v] = carried[v]
      /\ UNCHANGED <<counted, signal, mutex>>
  BY <1>1, Wiring DEF Answered
<1>4. Wired' /\ OwnBatch'
  BY <1>2, <1>3 DEF IInv, Sends, Wired, OwnBatch
<1>5. \A v \in Workers \ {w} : Reached(v)' <=> Reached(v)
  BY <1>3 DEF Reached
<1>6. CountedKnown'
  BY <1>2, <1>3, <1>5 DEF IInv, Sends, CountedKnown
<1>7. LogsUnderMutex' /\ Stages'
  BY <1>2, <1>3 DEF IInv, Sends, LogsUnderMutex, Stages
<1>8. Uncounted' = Uncounted \ {w}
  BY <1>2, <1>3 DEF Uncounted, Pending
<1> QED
  BY <1>4, <1>6, <1>7, <1>8 DEF Sends

LEMMA ReturnSends ==
  ASSUME IInv, NEW w \in Workers, SenderReturns(w)
  PROVE  Sends' /\ BooksBalance'
<1>1. Answered(w)
  BY DEF SenderReturns
<1>2. sent \in Nat /\ counter \in Nat /\ permanentErrors \in Nat /\ givenUp \in Nat
  BY DEF IInv, TypeOK, LoadTypeOK, BackendTypeOK
<1>3. UNCHANGED <<counted, counter, signal, mutex>>
  BY <1>1 DEF Answered
<1>4. Uncounted = {v \in Workers : worker[v] = "sending" /\ ~Reached(v)}
  BY UncountedAre DEF IInv, Sends
<1>5. CASE at[w] = "ok" /\ Taken(w)
  <2>1. Release(w) /\ UNCHANGED <<generator, made, sent, permanentErrors, givenUp>>
    BY <1>5 DEF Taken
  <2>2. w \notin Uncounted
    BY <1>4, <1>5 DEF Reached
  <2>3. Sends' /\ Uncounted' = Uncounted
    BY <1>1, <2>1, <2>2, ReleaseSends
  <2> QED
    BY <1>3, <2>1, <2>3 DEF IInv, BooksBalance
<1>6. CASE at[w] # "ok" /\ (Refused(w) \/ GiveUp(w)) /\ at[w] \in {"permanent", "retry"}
  <2>1. /\ Release(w) /\ UNCHANGED <<generator, made, sent>>
        /\ \/ permanentErrors' = permanentErrors + 1 /\ givenUp' = givenUp
           \/ permanentErrors' = permanentErrors /\ givenUp' = givenUp + 1
    BY <1>6 DEF Refused, GiveUp
  <2>2. w \in Uncounted
    BY <1>4, <1>6, <2>1 DEF Reached, Release
  <2>3. Sends' /\ Uncounted' = Uncounted \ {w}
    BY <1>1, <2>1, ReleaseSends
  <2>4. Cardinality(Uncounted') = Cardinality(Uncounted) - 1
    BY <2>2, <2>3, OneLess
  <2> QED
    BY <1>2, <1>3, <2>1, <2>3, <2>4, UncountedFinite DEF IInv, BooksBalance
<1>7. CASE at[w] = "retry" /\ SendAgain(w)
  <2>1. UNCHANGED <<generator, worker, held, made, sent, permanentErrors, givenUp>> /\ worker[w] = "sending"
    BY <1>7 DEF SendAgain
  <2>2. /\ at'[w] = "idle" /\ \A v \in Workers \ {w} : at'[v] = at[v]
        /\ \A v \in Workers \ {w} : carried'[v] = carried[v]
    BY <1>1, PlacesAre, Wiring DEF Answered, IInv, TypeOK, BackendTypeOK
  <2>3. Wired' /\ OwnBatch' /\ Stages'
    BY <2>1, <2>2 DEF IInv, Sends, Wired, OwnBatch, Stages
  <2>4. \A v \in Workers : Reached(v)' <=> Reached(v)
    BY <1>3, <1>7, <2>2 DEF Reached
  <2>5. CountedKnown'
    BY <1>3, <2>1, <2>4 DEF IInv, Sends, CountedKnown
  <2>6. LogsUnderMutex'
    BY <1>3, <2>2 DEF IInv, Sends, LogsUnderMutex
  <2>7. BooksBalance'
    BY <1>3, <2>1, <2>5, SameBooks
  <2> QED
    BY <2>3, <2>5, <2>6, <2>7 DEF Sends
<1> QED
  BY <1>5, <1>6, <1>7 DEF SenderReturns

\* generate starts its workers when they are off, and the test moves no batch.
LEMMA OtherSends ==
  ASSUME IInv, [GenerateStep \/ TestStep]_vars
  PROVE  Sends' /\ BooksBalance'
<1>1. UNCHANGED <<held, made, sent, permanentErrors, givenUp, at, carried, mutex, counted, counter, signal>>
  BY DEF GenerateStep, Generate, GenerateNothing, StartWorkers, EndGenerate, StopReturns, TestStep,
         StartLoad, StopLoad, EnableRecording, ClearReceivedItems, vars, loadVars, backendVars
<1>2. CASE UNCHANGED worker
  <2>1. Stages'
    BY <1>2 DEF IInv, Sends, Stages, GenerateStep, Generate, GenerateNothing, StartWorkers, EndGenerate,
         StopReturns, TestStep, StartLoad, StopLoad, vars, loadVars
  <2>2. Wired' /\ OwnBatch' /\ CountedKnown' /\ LogsUnderMutex'
    BY <1>1, <1>2 DEF IInv, Sends, Wired, OwnBatch, CountedKnown, LogsUnderMutex, Reached
  <2>3. BooksBalance'
    BY <1>1, <1>2, <2>2, SameBooks
  <2> QED
    BY <2>1, <2>2, <2>3 DEF Sends
<1>3. CASE StartWorkers
  <2>1. /\ \A w \in Workers : worker[w] = "off" /\ worker'[w] = "select"
        /\ generator' = "running"
    BY <1>3 DEF StartWorkers, IInv, Sends, Stages
  <2>2. Sends'
    BY <1>1, <2>1 DEF IInv, Sends, Wired, OwnBatch, CountedKnown, LogsUnderMutex, Stages, Reached
  <2>3. Uncounted' = Uncounted
    BY <1>1, <2>1 DEF Uncounted, Pending
  <2> QED
    BY <1>1, <2>2, <2>3 DEF IInv, BooksBalance
<1> QED
  BY <1>2, <1>3
  DEF GenerateStep, Generate, GenerateNothing, EndGenerate, StopReturns, TestStep,
      StartLoad, StopLoad, EnableRecording, ClearReceivedItems, vars, loadVars, backendVars

-----------------------------------------------------------------------------
\* Recording precedes counting, request by request.
LEMMA RequestRecorded ==
  ASSUME IInv, NEW w \in Workers,
         \/ Send(w) \/ SenderReturns(w)
         \/ (Handle(w) \/ \E o \in Outcomes : Decide(w, o)) /\ UNCHANGED loadVars
  PROVE  RecordedFirst'
<1>1. /\ at \in [Workers -> Place] /\ carried \in [Workers -> Batch \union {NoBatch}]
      /\ signal \in {"traces", "metrics", "logs"}
  BY PlacesAre, Wiring DEF IInv, TypeOK, BackendTypeOK, Signal
<1>2. RecordedFirst /\ LogsUnderMutex
  BY DEF IInv, Sends
<1>3. \A v \in Workers \ {w} : at'[v] = at[v] /\ carried'[v] = carried[v]
  BY <1>1, Wiring DEF Send, Call, SenderReturns, Answered, Handle, Lock, AppendDropped, Record, Count,
         Decide, DecideUnlocked, DecideLogs
<1>4. UNCHANGED <<signal, recording, excused>>
  BY DEF Send, Call, SenderReturns, Answered, Handle, Lock, AppendDropped, Record, Count,
         Decide, DecideUnlocked, DecideLogs
<1>5. CASE signal = "metrics" \/ ~recording
  BY <1>4, <1>5 DEF RecordedFirst
<1>6. CASE Record(w) /\ signal # "metrics" /\ recording
  <2>1. /\ received' = received \union {carried[w]} /\ UNCHANGED <<carried, counted>>
        /\ mutex = IF signal = "logs" THEN w ELSE "free"
    BY <1>6 DEF Record
  <2>2. BeingRecorded \subseteq {carried[w]}
    BY <2>1 DEF BeingRecorded
  <2> QED
    BY <1>2, <1>3, <1>4, <1>6, <2>1, <2>2 DEF RecordedFirst
<1>7. CASE Count(w) /\ signal # "metrics" /\ recording
  <2>1. /\ counted' = counted \union {carried[w]} /\ UNCHANGED <<carried, received, mutex>>
        /\ at[w] = "count" /\ at'[w] = IF signal = "traces" THEN "ok" ELSE "record"
    BY <1>1, <1>7 DEF Count
  <2>2. BeingRecorded \subseteq BeingRecorded'
    BY <1>1, <1>3, <1>4, <2>1, Wiring DEF BeingRecorded
  <2>3. carried[w] \in received \union excused \union BeingRecorded'
    <3>1. CASE signal = "traces"
      BY <1>2, <1>7, <2>1, <3>1 DEF RecordedFirst
    <3>2. CASE signal = "logs"
      <4>1. mutex' = w /\ at'[w] = "record" /\ signal' = "logs"
        BY <1>2, <1>4, <2>1, <3>2 DEF LogsUnderMutex
      <4> QED
        BY <2>1, <4>1, Wiring DEF BeingRecorded
    <3> QED
      BY <1>1, <1>7, <3>1, <3>2
  <2> QED
    BY <1>2, <1>3, <1>4, <1>7, <2>1, <2>2, <2>3 DEF RecordedFirst
<1>8. ASSUME \/ Send(w) \/ SenderReturns(w) \/ Lock(w) \/ AppendDropped(w)
             \/ \E o \in Outcomes : Decide(w, o),
             signal # "metrics"
      PROVE  RecordedFirst'
  <2>1. UNCHANGED <<counted, received>> /\ at[w] # "record"
    BY <1>8 DEF Send, Call, SenderReturns, Answered, Result, Lock, AppendDropped, Decide, DecideUnlocked, DecideLogs
  <2>2. at'[w] = "count" => signal # "traces"
    BY <1>1, <1>8, Wiring DEF Send, Call, SenderReturns, Answered, Lock, AppendDropped, Decide,
           DecideUnlocked, DecideLogs
  <2>3. mutex' = mutex \/ mutex = "free" \/ (signal = "logs" => mutex = w)
    <3>1. ASSUME NEW o \in Outcomes, DecideLogs(w, o) PROVE mutex = w
      BY <1>2, <3>1 DEF DecideLogs, LogsUnderMutex
    <3> QED
      BY <1>8, <3>1 DEF Send, Call, SenderReturns, Answered, Lock, AppendDropped, Decide, DecideUnlocked
  <2>4. ASSUME NEW g \in Handlers, signal = "logs", mutex = g, at[g] = "record"
        PROVE  mutex' = g /\ at'[g] = "record" /\ carried'[g] = carried[g]
    BY <1>3, <2>1, <2>3, <2>4, Wiring
  <2>5. BeingRecorded \subseteq BeingRecorded'
    BY <1>4, <2>4 DEF BeingRecorded
  <2> QED
    BY <1>2, <1>3, <1>4, <2>1, <2>2, <2>5 DEF RecordedFirst
<1> QED
  BY <1>5, <1>6, <1>7, <1>8 DEF Handle

LEMMA OtherRecorded ==
  ASSUME IInv, [GenerateStep \/ TestStep]_vars
  PROVE  RecordedFirst'
<1>1. UNCHANGED <<at, carried, counted, signal, mutex>> /\ BeingRecorded' = BeingRecorded
  BY DEF BeingRecorded, GenerateStep, TestStep, EnableRecording, ClearReceivedItems, vars, backendVars
<1>2. CASE EnableRecording
  <2>1. \A v \in Workers : at[v] = "count" => carried[v] \in excused'
    BY <1>2, Wiring DEF EnableRecording
  <2>2. counted \subseteq excused'
    BY <1>2 DEF EnableRecording
  <2> QED
    BY <1>1, <2>1, <2>2 DEF RecordedFirst
<1>3. CASE ClearReceivedItems
  <2>1. excused' = excused \union received /\ UNCHANGED recording
    BY <1>3 DEF ClearReceivedItems
  <2> QED
    BY <1>1, <2>1 DEF IInv, RecordedFirst
<1>4. CASE UNCHANGED <<recording, received, excused>>
  BY <1>1, <1>4 DEF IInv, RecordedFirst
<1> QED
  BY <1>2, <1>3, <1>4 DEF GenerateStep, TestStep, vars, backendVars

-----------------------------------------------------------------------------
LEMMA InitInv == Init => IInv
<1> SUFFICES ASSUME Init PROVE IInv
  OBVIOUS
<1> USE Wiring DEF Init, LoadInit, BackendInit
<1>1. LoadTypeOK
  <2>1. /\ worker \in [Workers -> {"off", "select", "sending", "ended"}]
        /\ held \in [Workers -> 0 .. MaxBatches] /\ attempts \in [Workers -> 0 .. MaxAttempts]
        /\ made \in 0 .. MaxBatches
    BY GeneratorAssumption
  <2>2. sent \in Nat /\ permanentErrors \in Nat /\ nonPermanentErrors \in Nat /\ givenUp \in Nat
    OBVIOUS
  <2>3. /\ generator \in {"new", "starting", "running", "done"}
        /\ stopSignal \in BOOLEAN /\ stopCall \in {"idle", "waiting", "returned"}
    BY Zenon
  <2> QED
    BY <2>1, <2>2, <2>3, Zenon DEF LoadTypeOK
<1>2. BackendTypeOK
  <2>1. signal \in Signal /\ recording \in BOOLEAN /\ mutex \in Handlers \union {"free"}
    BY Zenon
  <2>2. at \in [Handlers -> Result \union {"idle", "called", "decide", "record", "count", "drop"}]
    OBVIOUS
  <2>3. /\ carried \in [Handlers -> Batch \union {NoBatch}]
        /\ copy \in [Handlers -> SUBSET Batch]
    OBVIOUS
  <2>4. /\ received \subseteq Batch /\ dropped \subseteq Batch /\ toRetry \subseteq Batch
        /\ counter \in Nat /\ counted \subseteq Batch /\ excused \subseteq Batch
    OBVIOUS
  <2> QED
    BY <2>1, <2>2, <2>3, <2>4 DEF BackendTypeOK
<1>3. Sends
  BY DEF Sends, Wired, OwnBatch, CountedKnown, LogsUnderMutex, Stages
<1>4. RecordedFirst
  BY DEF RecordedFirst
<1>5. BooksBalance
  <2>1. Uncounted = {}
    BY DEF Uncounted, Pending
  <2> QED
    BY <2>1, FS_EmptySet DEF BooksBalance
<1> QED
  BY <1>1, <1>2, <1>3, <1>4, <1>5 DEF IInv, TypeOK

LEMMA NextInv == IInv /\ [Next]_vars => IInv'
<1> SUFFICES ASSUME IInv, [Next]_vars PROVE IInv'
  OBVIOUS
<1>1. CASE [GenerateStep \/ TestStep]_vars
  BY <1>1, GeneratorTypes, OtherSends, OtherRecorded DEF IInv
<1>2. ASSUME NEW w \in Workers, WorkerStep(w) PROVE IInv'
  <2>1. CASE Tick(w) /\ UNCHANGED backendVars
    BY <2>1, WorkerTypes, TickSends DEF IInv
  <2>2. CASE EndWorker(w) /\ UNCHANGED backendVars
    BY <2>2, WorkerTypes, EndWorkerSends DEF IInv
  <2>3. CASE Send(w)
    BY <2>3, WorkerTypes, SendSends, RequestRecorded DEF IInv
  <2>4. CASE SenderReturns(w)
    BY <2>4, WorkerTypes, ReturnSends, RequestRecorded DEF IInv
  <2>5. CASE (Handle(w) \/ \E o \in Outcomes : Decide(w, o)) /\ UNCHANGED loadVars
    <3>1. at[w] # "idle" => carried[w] \in Batch
      BY Wiring DEF IInv, Sends, Wired, TypeOK, LoadTypeOK
    <3> QED
      BY <2>5, <3>1, HandlerTypes, HandlerSends, RequestRecorded DEF IInv
  <2> QED
    BY <1>2, <2>1, <2>2, <2>3, <2>4, <2>5 DEF WorkerStep
<1> QED
  BY <1>1, <1>2 DEF Next

LEMMA AlwaysInv == Spec => []IInv
BY InitInv, NextInv, PTL DEF Spec

\* Every variable of the generator and the backend stays in its type.
THEOREM TypeCorrect == Spec => []TypeOK
<1>1. IInv => TypeOK
  BY DEF IInv
<1> QED
  BY <1>1, AlwaysInv, PTL

\* What was counted as sent is received, refused, given up or still under way
\* (load_generator.go:255-348), for any number of workers.
THEOREM BooksAlwaysBalance == Spec => []BooksBalance
<1>1. IInv => BooksBalance
  BY DEF IInv
<1> QED
  BY <1>1, AlwaysInv, PTL

\* What the counter shows of traces is in the record, and of logs too but for
\* the batch whose request holds the mutex (mock_backend.go:203-242, 287-305).
THEOREM CountedAreRecorded == Spec => []CountedIsRecorded
<1>1. IInv => CountedIsRecorded
  BY DEF IInv, RecordedFirst, CountedIsRecorded
<1> QED
  BY <1>1, AlwaysInv, PTL

\* After Stop (load_generator.go:142-153) the numbers a test reads are final,
\* and so are the data, until the test clears them.
THEOREM NothingMovesAfterStop == Spec => QuietAfterStop
<1> DEFINE Still == /\ UNCHANGED <<sent, permanentErrors, nonPermanentErrors, counter, toRetry, dropped>>
                    /\ received' = received \/ (received' = {} /\ ClearReceivedItems)
           Silent == stopCall = "returned" /\ generator = "done" => Still
<1>1. ASSUME IInv, [Next]_vars PROVE Silent
  <2> SUFFICES ASSUME generator = "done" PROVE Still
    OBVIOUS
  <2>1. ASSUME NEW w \in Workers PROVE worker[w] \in {"off", "ended"} /\ at[w] = "idle"
    <3>1. worker[w] \in {"off", "ended"}
      BY <1>1 DEF IInv, Sends, Stages
    <3> QED
      BY <1>1, <3>1 DEF IInv, Sends, Wired
  <2>2. \A w \in Workers : ~WorkerStep(w)
    BY <2>1 DEF WorkerStep, Tick, EndWorker, Send, SenderReturns, Answered, Result, Handle, Lock,
         AppendDropped, Record, Count, Decide, DecideUnlocked, DecideLogs
  <2>3. CASE GenerateStep
    BY <1>1, <2>3 DEF GenerateStep, Generate, GenerateNothing, StartWorkers, EndGenerate, StopReturns, backendVars
  <2>4. CASE TestStep
    BY <2>4 DEF TestStep, StartLoad, StopLoad, EnableRecording, ClearReceivedItems, loadVars, backendVars
  <2>5. CASE UNCHANGED vars
    BY <2>5 DEF vars, loadVars, backendVars
  <2> QED
    BY <1>1, <2>2, <2>3, <2>4, <2>5 DEF Next
<1>2. IInv /\ [Next]_vars => [Silent]_vars
  BY <1>1
<1> QED
  BY <1>2, AlwaysInv, PTL DEF Spec, QuietAfterStop

-----------------------------------------------------------------------------
\* A batch asked for again is the one its worker holds, and a worker lets go
\* of a batch only when the counter has it or a counter of errors shows it.

LEMMA ReturnRetries ==
  ASSUME IInv, Retrying, NEW w \in Workers, SenderReturns(w)
  PROVE  Retrying'
<1>1. /\ worker \in [Workers -> {"off", "select", "sending", "ended"}]
      /\ held \in [Workers -> 0 .. MaxBatches]
      /\ permanentErrors \in Nat /\ givenUp \in Nat
  BY DEF IInv, TypeOK, LoadTypeOK
<1>2. UNCHANGED <<toRetry, counted>>
  BY DEF SenderReturns, Answered
<1>3. CASE at[w] = "ok" /\ Taken(w)
  <2>1. /\ UNCHANGED <<permanentErrors, givenUp>>
        /\ worker[w] = "sending"
        /\ \A v \in Workers \ {w} : worker'[v] = worker[v] /\ held'[v] = held[v]
    BY <1>1, <1>3 DEF Taken, Release
  <2>2. held[w] \in counted
    BY <1>3, <2>1 DEF IInv, Sends, CountedKnown, Reached
  <2> QED
    BY <1>2, <2>1, <2>2 DEF Retrying
<1>4. CASE Refused(w) \/ GiveUp(w)
  <2>1. permanentErrors' = permanentErrors + 1 \/ givenUp' = givenUp + 1
    BY <1>4 DEF Refused, GiveUp
  <2> QED
    BY <1>1, <2>1 DEF Retrying
<1>5. CASE SendAgain(w)
  BY <1>2, <1>5 DEF SendAgain, Retrying
<1> QED
  BY <1>3, <1>4, <1>5 DEF SenderReturns

LEMMA HandlerRetries ==
  ASSUME IInv, Retrying, NEW w \in Workers,
         (Handle(w) \/ \E o \in Outcomes : Decide(w, o)) /\ UNCHANGED loadVars
  PROVE  Retrying'
<1>1. at[w] # "idle"
  BY DEF Handle, Lock, AppendDropped, Record, Count, Decide, DecideUnlocked, DecideLogs
<1>2. worker[w] = "sending" /\ carried[w] = held[w]
  BY <1>1 DEF IInv, Sends, Wired
<1>3. toRetry' \subseteq toRetry \union {carried[w]} /\ counted \subseteq counted'
  <2>1. CASE Handle(w)
    BY <2>1 DEF Handle, Lock, AppendDropped, Record, Count
  <2>2. ASSUME NEW o \in Outcomes, Decide(w, o) PROVE toRetry' \subseteq toRetry \union {carried[w]} /\ counted \subseteq counted'
    BY <2>2 DEF Decide, DecideUnlocked, DecideLogs
  <2> QED
    BY <2>1, <2>2
<1>4. UNCHANGED <<worker, held, permanentErrors, givenUp>>
  BY DEF loadVars
<1> QED
  BY <1>2, <1>3, <1>4 DEF Retrying

LEMMA NextRetries == IInv /\ Retrying /\ [Next]_vars => Retrying'
<1> SUFFICES ASSUME IInv, Retrying, [Next]_vars PROVE Retrying'
  OBVIOUS
<1>1. CASE [GenerateStep \/ TestStep]_vars
  <2>1. UNCHANGED <<held, permanentErrors, givenUp, toRetry, counted>>
    BY <1>1 DEF GenerateStep, Generate, GenerateNothing, StartWorkers, EndGenerate, StopReturns, TestStep,
           StartLoad, StopLoad, EnableRecording, ClearReceivedItems, vars, loadVars, backendVars
  <2>2. UNCHANGED worker \/ \A w \in Workers : worker[w] # "sending"
    BY <1>1 DEF GenerateStep, Generate, GenerateNothing, StartWorkers, EndGenerate, StopReturns, TestStep,
           StartLoad, StopLoad, vars, loadVars, IInv, Sends, Stages
  <2> QED
    BY <2>1, <2>2 DEF Retrying
<1>2. ASSUME NEW w \in Workers, WorkerStep(w) PROVE Retrying'
  <2>1. CASE (Tick(w) \/ EndWorker(w)) /\ UNCHANGED backendVars
    <3>1. /\ UNCHANGED <<permanentErrors, givenUp, toRetry, counted>>
          /\ worker[w] = "select"
          /\ \A v \in Workers \ {w} : worker'[v] = worker[v] /\ held'[v] = held[v]
      BY <2>1 DEF Tick, Make, EndWorker, backendVars, IInv, TypeOK, LoadTypeOK
    <3> QED
      BY <3>1 DEF Retrying
  <2>2. CASE Send(w)
    BY <2>2 DEF Send, Call, loadVars, Retrying
  <2>3. CASE SenderReturns(w)
    BY <2>3, ReturnRetries
  <2>4. CASE (Handle(w) \/ \E o \in Outcomes : Decide(w, o)) /\ UNCHANGED loadVars
    BY <2>4, HandlerRetries
  <2> QED
    BY <1>2, <2>1, <2>2, <2>3, <2>4 DEF WorkerStep
<1> QED
  BY <1>1, <1>2 DEF Next

\* A log batch that the backend asked to send again, and that was neither
\* refused for good nor given up, has been received when generate has ended
\* (mock_backend.go:262-305, load_generator.go:303-348).
THEOREM AskedAgainIsReceived == Spec => []RetriedLogsReceived
<1>1. Init => Retrying
  BY DEF Init, BackendInit, Retrying
<1>2. IInv /\ Retrying => RetriedLogsReceived
  BY DEF IInv, Sends, Stages, Retrying, RetriedLogsReceived
<1> QED
  BY <1>1, <1>2, NextRetries, AlwaysInv, PTL DEF Spec

=============================================================================
