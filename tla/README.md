# Formal specifications of nrdot-collector-components

TLA+ specifications of the stateful parts of this repository, the TLC
configurations that check them on small instances, and proofs, checked by TLAPS,
of what holds for every instance. Paths below are relative to `src/`; `ATP` is
`src/processor/adaptivetelemetryprocessor`.

## 1. The system and its parts

The repository holds components for an OpenTelemetry collector distribution. The
one with logic and state of its own is the **adaptive telemetry processor**
(`ATP`): it drops host metrics of resources that have nothing interesting to say.
Around it are a header-setting extension, a receiver and an exporter that do
nothing, libraries taken over from the collector's contrib repository, a test bed
that drives a collector under load, and two command line tools.

### Adaptive telemetry processor

| Part | State | Operations | What it must get right |
|---|---|---|---|
| Filter engine (`process_metrics.go`, `anomaly_detection.go`, `composite_metrics.go`) | `trackedEntities`: per resource the time of the last exceeded limit, of the last anomaly, and a history per metric | judge one reported resource through the filter stages; clean up expired entities | a resource over a limit passes for the whole retention window; retention does not renew itself; histories are bounded; the table does not leak |
| Entity values (`updateEntityValues` and the creation of entities) | `CurrentValues`, `MaxValues` | create, update, save, load | maxima lie between the current values and what was reported |
| Dynamic thresholds (`dynamic_thresholds.go`) | `dynamicCustomThresholds`, `lastThresholdUpdate` | average the gauges of a batch, move the thresholds | bounded drift, one move per interval, no unprotected access to the map |
| Batch delivery (`consume_metrics.go`, `processMetrics`) | per call: the filtered copy, the original batch, the context | filter with a deadline, fall back to the original, call the next consumer | what passes is delivered, once; an error means the batch may be sent again |
| Persistence (`persistence.go`, `storage.go`, `processor_init.go`) | the JSON state file | load at start, save at most once a minute and at shutdown | a restart keeps what was tracked and never prolongs it |
| Configuration (`config.go`, `factory.go`) | the normalised configuration | `Normalize`, `Validate` | the ranges the other parts rely on |
| Resource identity and types (`utils.go`, `resource_utils.go`) | none | build the key of a resource, match the include list, recognise zombies | one key per resource |
| Metric values (`extractMetricValues`) | the values of a report | sum the data points of the metrics that matter | the value a threshold is compared with is the one reported |

How they interact: the collector calls `ConsumeMetrics`, possibly from several
goroutines at once. Each call updates the dynamic thresholds when an interval has
passed, judges its resources one by one under the processor's mutex, hands the
copy with the resources that passed to the next consumer, and afterwards may
clean up the table (with a probability of 1 %) and save it (when a minute has
passed). `Shutdown` saves once more. All processors of a host use one state file.

What is hard: batches run concurrently, and both the map of dynamic thresholds
and the time of its last update are touched outside the mutex; a context may
expire in the middle of a batch; errors lead to fall-backs that hand over the
original batch; the file is rewritten in place, may be torn, and has several
writers; verdicts depend on long sequences of reports, minutes and clean-ups.

### Test bed

| Part | State | Operations | What it must get right |
|---|---|---|---|
| Load generator (`testbed/testbed/load_generator.go`, `data_providers.go`) | the workers, the stop signal, counters of what was sent and of errors | start, tick, send, retry until `MaxDelay`, stop | the counters balance with the backend's; nothing moves after `Stop`; `Stop` returns |
| Mock backend (`mock_backend.go`) | what was received, dropped and is to be retried, a counter, a mutex | a request with a decision, recording, clearing | what is counted is recorded |
| Child process (`child_process_collector.go`) | the process, `sync.Once`, the resource watcher | start, stop (by the test and by the watcher), watch | the process is gone once stopped |
| Test case and scenarios (`test_case.go`, `options.go`, `validator.go`, `tests/scenarios.go`) | the error channel, the handshake with the backend's decision | the calls of each scenario, waits, validation | a pass means the data arrived; the test ends |

They run as goroutines of one test program, with the collector as a process
between them. Hard are the retries (a request may be carried out although its
sender gave up on it), the two callers of `Stop`, the waits that end by
condition, error or time, and the channel on which the driver of a scenario and
the backend meet.

### The rest

| Part | State and operations | Hard behaviour | Status |
|---|---|---|---|
| `internal/common/ttlmap` | a map with expiry times, a sweeper goroutine; put, get, shutdown | the clock is read before the lock is had; entries between expiry and sweep | modelled, proved |
| `internal/coreinternal/consumerretry` | retry loop around a logs consumer | partial errors, back-off, cancellation | modelled, proved |
| `cmd/nrlicense` | a pool of file workers; reading and rewriting headers | results of all files, also after an error; the shape of headers | modelled, proved |
| `internal/coreinternal/attraction` | an ordered list of attribute actions | actions on attributes that an earlier one removed or copied | modelled, proved |
| `internal/coreinternal/aggregateutil` | none; groups and merges data points | offsets and scales of buckets | modelled, proved |
| `internal/common/priorityqueue` | a slice with the methods `container/heap` asks for | none of its own | not modelled |
| `internal/coreinternal/timeutils` | a ticker goroutine | none that its callers see | not modelled |
| `extension/usecaseextension`, `receiver/nopreceiver`, `exporter/nopexporter` | none after start | none | not modelled |
| `cmd/codecovgen`, parsers and small utilities | none | none | not modelled |
| `goldendataset`, `testdata`, `metricstestutil`, `testbed/correctnesstests`, `testbed/datasenders`, build scripts, generated code | - | - | not modelled |

The hazards of all parts, each at its line, are in `PROJECT.json`.

## 2. Modules

| Module | Models |
|---|---|
| `RetentionPolicy` | abstract: what is promised about one resource, without saying how reports are judged; `CleanupForgets` is the one exception the code makes |
| `EntityFilter` | the table of tracked entities and every path of `shouldIncludeResource`; shown to implement `RetentionPolicy`, as promised (`Promised`) with anomaly detection off, and up to what a clean-up forgets (`Kept`) in every configuration |
| `ScrapedFilter` | `EntityFilter` under receivers that report every living resource again and again |
| `PersistentFilter` | `EntityFilter` in a process that stops, crashes and starts again, with its state file |
| `EntityValues` | the two maps of an entity that `EntityFilter` leaves out |
| `DynamicThresholds` | concurrent updates of the dynamic thresholds, one step per access to shared state |
| `BatchDelivery` | one batch from `ConsumeMetrics` to its result |
| `ConfigNormalize`, `ResourceIdentity`, `MetricValues` | how a configuration becomes one a processor runs with; keys, types and the include list; the values of a report |
| `LoadGenerator`, `MockBackend`, `ChildProcess` | the parts of the test bed |
| `LoadTest` | load generator and backend, connected directly |
| `TestCase` | generator, collector process and backend in the scenarios of the test bed |
| `TTLMap`, `RetryingConsumer`, `AttributeActions`, `DataPoints` | the libraries with state or an order of their own |
| `LicenseHeader`, `LicenseFiles` | the license tool: what it makes of the text of one file, and a run over many |
| `Parts` | those that share no state, one at a time |
| `MC...` | constants for TLC |
| `FilterProofs` | theorems of `EntityFilter` and `PersistentFilter` |
| `DynamicThresholdsProofs`, `BatchDeliveryProofs`, `LoadTestProofs`, `TestCaseProofs`, `DataPointsProofs` | theorems of the module of that name |
| `PartsProofs` | theorems of the other modules `Parts` extends |
| `FoldLemmas` | what folds over sequences and sets compute, for any operator |

`EntityFilter` is at the centre. Its `AdjustThresholds` sets dynamic thresholds
to any value; `DynamicThresholds` says which ones. What `BatchDelivery` calls the
fate of a resource is what a `Report` of `EntityFilter` decides. `ConfigNormalize`
checks what `EntityFilter` and `DynamicThresholds` assume of their constants.

### EntityFilter

`tracked[r]` is the entry of `trackedEntities` (`Absent` when there is none):
`exceeded` and `anomaly` stand for `LastExceeded` and `LastAnomalyDetected`, and
`history` for `MetricHistory`. `dynamic` is `dynamicCustomThresholds`, `stage[r]`
the stage attribute of the last report, and `alive` the resources that exist.
One report is one step: `shouldIncludeResource` holds the mutex from the lookup of
the entity to the verdict. `isResourceTargeted` is asked before that, without the
mutex; the verdict does not depend on when, since every metric with a dynamic
threshold has a static one (`Targeted`). The actions follow the order of the code:

| Action | Code |
|---|---|
| `DefaultInclusion` | no configured metric in the report |
| `IncludeZombie`, `IncludeListed` | zombie state and include list, before any stage |
| `DetectAnomaly` | anomaly stage; the walk over the Go map stops at the first spike, so `VisitedUpTo` chooses which histories were updated before |
| `ExceedThreshold` | dynamic or static thresholds |
| `ExceedComposite` | composite score of the weighted metrics |
| `RetainAnomaly`, `RetainExceeded` | the two retention stages |
| `ExcludeTracked`, `ExcludeNew`, `IncludeForDebugging` | nothing matched |
| `CleanupExpired` | `cleanupExpiredEntities` |
| `AdjustThresholds` | a batch that moved the dynamic thresholds |
| `Minute`, `Exit` | time; a resource that is gone |

Timestamps are ages in minutes. Everything the code does with one is compare it
with `retention_minutes`, so ages beyond the window are one value, `Never`, which
also stands for the zero time. Values and limits are naturals; comparisons that
divide in the code are multiplied out (`IsSpike`, `OverComposite`). Weights are any
integers, since `Config.Validate` does not look at them; `HotterStaysOver` is about
those of which none is negative (`NoNegativeWeight`).

`ScrapedFilter` adds the environment that liveness needs. Most reports of a quiet
resource change nothing in the table, and a step that changes nothing is one that
fairness cannot ask for; the parity of the number of reports makes each report a
step, so that "is reported again and again" holds of quiet resources too.

### DynamicThresholds

`pc[w]` walks a batch of worker `w` through `updateDynamicThresholdsIfNeeded`,
`shouldUpdateDynamicThresholds`, `initializeDynamicUpdate` (`Stamp`),
`getCurrentThresholds` (`Snapshot`, read lock), `applyThresholdUpdates` (`Lock`,
`Write`), and the second recording of the time by the caller (`Restamp`). `Peek`
and `Peeked` are the walk of `isResourceTargeted` over the map, without a lock,
for a resource that reports only metrics with a weight (`WeightOnly`). Time moves
in halves of the update interval. Thresholds are rounded down.

### BatchDelivery

`place` is the position in the call, `fates` the verdicts, `kept` and `marked` the
resources of the filtered metrics and those with the internal stage attribute,
`handed` the calls of the next consumer. `Expire` lets the context end at any
moment; `Cancel`, `Abandon` and `FallBack` are the three ways back to the original
batch. The next consumer accepts or refuses. Every call brings resources without
the internal stage attribute; a caller that hands in the very same resources again
after an error, attributes included, is not modelled.

### PersistentFilter

`file` is the state file (`NoFile`, `Torn`, or a table whose timestamps grow old
like those in memory), `running` whether there is a process, and `since` a history
variable: the true age of the last exceeded limit. `Failures` chooses what may go
wrong. `OtherSaves` is another processor of the host, which saves a table of its own
(one of `OtherTables`: the same identities, with younger or older ages) to the same
file; what it saw then counts as seen (`ATP/README.md:643`). `Persist` may happen more often than once a minute, which only adds
behaviours. The choice and validation of the path is not modelled.

### EntityValues

`CurrentValues` and `MaxValues` are two Go maps; the functions that create an
entity store one map in both fields (`process_metrics.go:449-464, 620-640`), which
`aliased` records. The decoder of the state file makes two maps of it.

### ConfigNormalize, ResourceIdentity, MetricValues

`ConfigNormalize` takes a decoded configuration through `createMetricsProcessor`:
`Normalize`, `Validate`, `NewProcessor`. Fractions are in hundredths.

`ResourceIdentity` has the identity, the type, the executable path and the include
list as operators on the attributes of a report; its one action, `Receive`, is a
report. An identity is not formatted: it is a record of what tells it from others.
Paths and command lines are words with an extension, divided by spaces.

`MetricValues` is the loop of `extractMetricValues`, one metric a step.

### LoadGenerator, MockBackend, LoadTest

`generator` is where the goroutine of `generate` is, `worker[w]` where a worker is
in its loop, `held[w]` the batch it sends, and `stopCall` the call of `Stop`.
`StartLoad`, `GenerateNothing` and `StartWorkers` start; `Tick` is the ticker's
branch of the `select`, with the provider's `Make`; `Taken`, `Refused`, `SendAgain`
and `GiveUp` are what the sender's answer leads to in `generateTrace` and its
siblings; `EndWorker`, `EndGenerate`, `StopLoad` and `StopReturns` end.

A request of the backend is in the hands of a handler: `Call` gives it a signal
(`Signal`: traces, metrics or logs), and the steps after it follow the order of
that signal's consumer, each access to shared state a step. They differ: logs are
decided with the mutex held, traces and metrics before it; the dropped traces are
appended without it (two appends may keep one); traces are recorded before they are
counted, metrics after, and logs after too, with the mutex held over both. The
counter is atomic and read without the mutex, so `Count` and `Record` are two steps.

In `LoadTest` the handler of worker `w`'s request is `w`, as when the sender's call
is the receiver's. Retries, permanent errors and the stop come at any moment.

### ChildProcess and TestCase

`ChildProcess` has the two callers of `Stop`, the test and the watcher, with
`sync.Once`, the doubtful unlocked reads before it, SIGTERM and the wait, and the
watcher. One measurement over a limit is enough to stop: `WithResourceLimits`
(`options.go`) does not carry over how many failures in a row are allowed.

In `TestCase`, each scenario is the sequence of calls it makes of the test case
(`Script`), `pc` the driver's place in it. A wait ends by its condition, by
`errorSignal`, or by time (`WaitTimeout`); the handshake on `dataChannel` that two
scenarios make from within a wait's condition has a step for each side, and blocks
as the channel does. A backend that does not start (`BackendDoesNotStart`) ends the
scenario but for its clean-up. `StopBackend` takes two steps: it begins, and it ends
when no request is under way, as the shutdown of the receiver does. The collector is external: a queue of bounded size that
refuses what does not fit, an exporter that retries and may give up waiting for an
answer that comes later, a log in which a refusal can be read, and the loss of
what it holds when it dies.

### TTLMap, RetryingConsumer

`TTLMap` keeps ages in seconds. `ReadClock` and `Put` are apart because `Put` reads
the clock before it has the lock; `Second` and `ReceiveTick` are the ticker and the
goroutine that receives it, at most `MaxLag` later. `Sweep` removes what is too
old; `Shutdown` and `End` stop the goroutine.

`RetryingConsumer` is a call of `ConsumeLogs`: `Succeed`, `FailPermanently`,
`FailPartially` (which narrows what is sent next) and `Fail` are answers of the
next consumer, `BackOff` and `Resend` the wait, `GiveUp` its limit, and `Cancel` the
context. `enabled = FALSE` is the configuration without retries.

### LicenseHeader, LicenseFiles

A text is a sequence of lines, each with its comment mark and what it says (the
fork's copyright, the original's, Apache's, another word), or is one that does not fit
in the 64 KiB of a `bufio.Scanner`, which ends what is read (`Scanned`). `LicenseHeader` has
what is taken for the header, what is checked and what is written; `LicenseFiles`
is a run: `Refuse` and `NothingToDo` end it before any file, `ProcessFiles` starts a
goroutine per path, which waits for a place in the pool (`Acquire`), reads
(`Parse`), asks git (`DetectOutside`, `Detect`) and then checks, reports or rewrites.
Rewriting is `ReadContent`, `Reparse`, `Truncate`, `Write`, since another goroutine may
have the same file under another path. Parsing, applying and writing can fail
(`ParseFails`, `ApplyFails`), writing also after the file was truncated. A goroutine's counters and the exit code
follow `Exit`.

### AttributeActions, DataPoints

`AttributeActions` validates a list of actions (`NewAttrProc`) and applies it to one
attribute map, one action a step. A value is where it came from and how often it
was hashed.

`DataPoints` filters the attributes of a metric's points, groups the points that
became equal and merges each group: one step each. Points are integers or doubles (a
double is a number of steps, `Unit` of them from one integer to the next), histograms
with their bounds, or exponential histograms of a few buckets. What the type of a
group's first point makes of the others is `Number`; `MergePanics` is the index out of
range of histograms without bounds.

### Parts

`Parts` extends all modules that share no state; `subject` says which of them moves,
and the others stay as they began. It is not a composition of the system but a way
to check small parts in one run.

## 3. What the runs check

Sizes are chosen so that every comparison in the code comes out both ways:
`Retention = 2` minutes has an age inside, at and outside the window; a history
of 3 is exactly the minimum for detection, so it is filled, overflows and detects;
the levels lie around the limits. More minutes, resources or history repeat the
same cases: resources do not influence one another in the filter, which the proofs
confirm for every number of them.

| Run | Bounds | Shows |
|---|---|---|
| `filter_retention` | 2 resources (one listed, possibly a zombie), 3 weighted metrics, dynamic thresholds in {1, 3}, no anomaly detection, fairness | the policy under moving thresholds; a resource with more of everything is over if one with less is (`HotterStaysOver`); one that stays quiet is dropped for good (`EventuallyDropped`); the table does not leak (`EventuallyForgotten`) |
| `dynamic_workers` | 2 workers, averages 0-20, static limit 4 under a minimum of 5 | `DriftBounded` and `UpdatesSpaced` in every interleaving |
| `batch_delivery` | up to 5 resources, the context looked at after every 2 | nothing that passes is lost (`PassedResourcesAccepted`) or sent twice (`HandedOverOnce`); an error is safe to retry (`ErrorMeansNotAccepted`); the stage attribute leaves only when the context expired; excluded resources leave only with a whole batch, and that only when the context expired or nothing passes (`ExcludedLeaveTogether`) |
| `restart_clean` | 1 resource, possibly a zombie, histories of 3, anomaly detection and debugging, restarts without failures | `HistoryBounded`, `NoAnomalyWhenUntracked`, and the retention policy is implemented across restarts, up to the anomalies a clean-up forgets (`RestartKeepsPolicy`) |
| `restart_failures` | 2 resources, dynamic thresholds, an inherited file, all failures, another processor with any ages of its own | no restart makes a limit look exceeded more recently than it was to one of the processors (`NeverRejuvenated`) |
| `testbed_load` | 2 workers, 2 batches, 2 attempts, every answer | at every moment what was sent is counted, refused, given up or under way (`BooksBalance`); what is counted is recorded, but for the logs whose request holds the mutex (`CountedIsRecorded`); what was to be retried was received; nothing moves after `Stop` (`QuietAfterStop`), and `Stop` returns (`StopEnds`) |
| `testbed_case` | 7 scenarios, 1 worker, 1 handler, 2 batches, 2 attempts, a queue of 1, 1 late answer | what PASS means (`PassMeansDelivered`, `RefusedThenDelivered`); the collector is gone at the end, but for one race (`AgentGoneUnlessWatched`); the test ends, but for one handshake and one stop of the backend (`TestEnds`) |
| `parts` | see below | the properties of the parts that share no state |

A batch of 5 with a look at every 2 has looks before, at and after the middle and a
batch that ends between two looks; the code's 25 only scales that. Two batches in
the test bed make one that is refused while another passes, and two attempts one
retry that succeeds and one that is given up. `MaxResources`, `Peak`, `Retention`,
`MaxBatches`, `MaxAttempts`, `MaxTimeouts`, `MaxReports`, `MaxLag` and the sets of
levels are bounds, and all of them are CONSTANTS of the modules.

The scenario `10kItemsPerSecondAlternateBackend` makes the calls of
`10kItemsPerSecond` and is left out of the run.

The run `parts`, by subject:

| Subject | Bounds | Properties |
|---|---|---|
| `ttl` | 1 key, 2 writers, maximum age 2, interval 1, lag 1 | `FreshStays`: what a `Put` stored stays for the maximum age less the time a writer waits. `StaleBounded`: nothing outlives it by more than an interval and the delays |
| `retry` | 3 records, 2 units of time | `TakenOnceOrTold`: no record is accepted twice, success means all were, and the error names what is missing, but for what a permanent error dropped |
| `license` | 4 files in 3 spellings, pool of 2 (10 in the code), all headers of up to 3 lines | `SummaryTells`: the counters and the exit code are those of all files, whatever finishes first and whichever files fail. `FixedRight`: a file named once, without long lines and handled without an error has the right header after `--fix`, keeps its code, and is not changed by another one |
| `config` | every setting below, at and above its limits, one group at a time | `NormalizedIsConfig`: only negative thresholds are refused; a processor that runs has the ranges `ConfigAssumption` states, and normalising again changes nothing |
| `points` | up to 3 points, integers and doubles in halves, of up to 3 buckets, all offsets, with and without bounds | `AggregationFaithful`: sums (of points of one type) and counts are conserved, every point is within the interval of the one it is merged into, intervals of delta metrics are not joined, extremes and medians lie where their names say; only histograms without bounds, one with a bucket and one with none, end in a panic |
| `attributes` | any two actions, or three with a deletion or a hash between, on 3 attributes | `RedactionHolds`: unless an earlier action copied it, no attribute has a value that was deleted or hashed; attributes no action names are as they were |
| `identity` | 2 reports at a time of every kind of entity, each with every combination of attributes its scrapers give (`Scraped`) | `IdentitySeparates`: two reports have one identity exactly if they are of one entity, and then one type, but for services that name their host and paging devices (`Misnamed`). `IncludedByPath`: exactly the executables of the include list bypass the filter |
| `entity` | 2 metrics, levels 0-2 | `MaxBetween`, `MaxFallsOnlyByRestart`: the maxima lie between current and peak values and fall only where the two maps are one or at a restart |

Runs that refute what the repository says (findings in `PROJECT.json`):

| Run | Refuted |
|---|---|
| `anomaly_window` | `ATP/types.go:16, 19`, the window of an anomaly is tracked separately and independent: a clean-up looks at `LastExceeded` only (`persistence.go:107`), so the next quiet report is dropped inside it |
| `dynamic_map_race` | `ATP/processor.go:23`, the mutex protects the dynamic thresholds: `isResourceTargeted` walks the map while another batch writes it |
| `service_identity` | `ATP/utils.go:15-16`, service identifiers come first: a service that names its host is tracked as that host (`resource_utils.go:159-164`), together with all others of it |
| `integer_values` | `ATP/composite_metrics.go:16` and the thresholds of `ATP/README.md:72`: the value of an integer data point is read with `DoubleValue()` and is zero, so no threshold on it is reached |

### Differences between code and documentation

Met while modelling, contained in the models, and not refuted by a run of their own.

Adaptive telemetry processor:

- a resource below its limits is not tracked, so it has no history and its spike is
  dropped, whereas `ATP/README.md:25` promises that anomalous data is captured
  (`process_metrics.go:383`; `NoAnomalyWhenUntracked`);
- a batch of which the filter keeps nothing is forwarded whole (`consume_metrics.go:118`;
  `ExcludedLeaveTogether`), whereas `ATP/README.md:488` says a resource that fails
  all checks is dropped;
- processors share one state file (`ATP/README.md:643`) and each rewrites it with its
  own table (`storage.go:94`), so a restart loads the ages another one saw, younger or older;
  `restart_failures` lets another one do so;
- until the first restart the maximum of a value follows it down, since the two maps
  are one (`process_metrics.go:627`); `MaxFallsOnlyByRestart` is about maps that are two;
- with dynamic thresholds a value above the static one can be dropped, whereas
  `ATP/README.md:470-471` asks the static one first (`process_metrics.go:484`);
- the first value of an entity enters its history twice (`process_metrics.go:635`,
  `anomaly_detection.go:68`), so detection starts one report early;
- two concurrent batches can both pass the test of the update interval
  (`process_metrics.go:125`); `UpdatesSpaced` is about updates that do not overlap;
- dynamic thresholds are seeded without applying their limits
  (`processor_init.go:64`), which is why the bounds of `DriftBounded` include the
  static threshold;
- a batch whose context expires in the middle leaves with the stage attribute that
  `ATP/constants.go:16` says is removed (`process_metrics.go:150-157`);
- a process that dies while rewriting the state file loses what was saved before
  (`storage.go:94`);
- a history saved under a larger `anomaly_history_size` never shrinks to the
  configured one (`anomaly_detection.go:97`);
- `Validate` looks neither at weights nor at a minimum above its maximum, and the
  corrected `anomaly_min_data_points` may exceed the history (`config.go:39-40`,
  `171-174`), in which case detection never starts; with a negative weight a hotter report can fall
  below the composite limit;
- paging is reported per device (`utils.go:116`) and the device is there "to distinguish
  from memory" (`resource_utils.go:104`), but the test for memory comes first (59-66) and
  takes all of it, so the swap devices of a host are tracked as its memory; the reports
  of `identity` have them (`TakenForMemory`), and `IdentitySeparates` leaves them out;
- a command line is cut at the first space on Unix, and on Windows at any `.exe`
  before an earlier `.bat` or `.cmd` (`utils.go:299`); `IncludedByPath` is about
  command lines that tell where the executable ends (`Telling`);
- the identity of a resource of no known kind is cut at 512 bytes, so two of them
  may be one.

Libraries and tools:

- two writers of a TTL map may store in the other order than they read the clock;
  `Get` returns what expired and was not swept (`ttl_map.go:97`); a second `Shutdown`
  panics;
- a plain error after a partial one no longer tells the caller of a retry which
  records were taken, and a caller that sends all again repeats them;
- an attribute that a hash action names and matches is hashed twice; the
  documentation offers SHA-1 behind a gate, the code always uses SHA-256;
- exponential buckets below those of the first point are put in front of them
  without gaps, and trimming does not move the offset, so counts are kept and
  places are not; a count over a group of one is its value; a sum or mean whose first
  point is an integer takes doubles as zero (`aggregate.go:194`), which
  `AggregationFaithful` leaves out; histograms without bounds share a group whether
  they have a bucket or none, and merging one with a bucket into one without panics
  (`aggregate.go:270`), which it names;
- two paths to one file are rewritten by two goroutines, which may lose its text
  (`FixedRight` is about a file named once);
- a line longer than the scanner's 64 KiB behind the header ends the rewriting without an
  error, and the rest of the file is dropped (`header.go:332-355`); a write that fails
  leaves the file truncated, with exit code 1 (`FixedRight` is about files without such
  a line that were handled without an error);
- comments before a header, or between a header without licence and the code, go
  with the header, although `header.go:79` means to keep them; the word "copyright"
  in code does the same to the comments before it; Python files get `//` headers;
  a path that is absolute makes a file "new"; a missing file is skipped with exit
  code 0; unmodified files are never repaired; a Go file that starts with `#!` gets
  another header at every `--fix` (`ScriptAssumption` excludes it: such a file is not Go).

Test bed:

- the handshake of two scenarios waits for a request without looking at time or
  error (`tests/scenarios.go:435, 610`), although `WaitForN` promises a bounded wait
  (`test_case.go:250-253`): the first exception in `TestEnds`;
- when that wait ran out of time its channel is never closed: a request then waits in
  the decision function (`mock_backend.go:322`), and the stop of the backend, whose
  receiver waits for its requests without a deadline (`receivers.go:139`), waits for it: the
  second exception in `TestEnds`;
- logs are counted before they are recorded (`mock_backend.go:302-303`), and
  `tests/scenarios.go:445-453` waits for the counter and reads `ReceivedLogs` without the mutex
  that `GetReceivedLogs` takes: the exception in `CountedIsRecorded`;
- an error signalled is only logged and the test may pass (`test_case.go:289-301`), the
  exception in `PassMeansDelivered`; another is that the counters compare numbers, so
  a batch sent twice after a late answer stands in for one that was lost;
- the test's `Stop` returns at once while the watcher's is still waiting for the
  process (`child_process_collector.go:256`): the exception in `AgentGoneUnlessWatched`;
- `WithResourceLimits` does not carry `MaxConsecutiveFailures`, and `NewTestCase`
  overwrites `ResourceCheckPeriod`;
- the validator of `Long` and `MemoryLimiterHit` is given no data provider and compares nothing;
- `extractIDFromLog` takes the match of the item for that of the batch.

### Mutants

Every property of a passing run has a mutant in `PROJECT.json`: an operator beside
the definition it changes (`mutant` in its comment) that does what a plausible
mistake in that code would. With it in place TLC finds the property violated, so no
property holds by the shape of the model alone.

### Fairness

`filter_retention`: `WF(Scrape)` for each living resource, since receivers scrape on an
interval, where a report that changes nothing counts (`ScrapedFilter`); `WF(CleanUp)`, since the clean-up is drawn with a fixed
probability after every batch and so happens with probability one while batches
come; `WF(Pass)`, since time passes. Nothing is assumed of `AdjustThresholds`, of
`Exit`, or of which values are reported.

`testbed_load`: goroutines that can run do (`WF` of the generator and of each
worker). `select` takes one of the ready branches at random, so a worker that finds
the stop signal again and again takes it (`SF(EndWorker)`); Go's mutex does not starve
(`SF(Lock)`). Nothing is assumed of the answers, and the test may never call `Stop`.

`testbed_case`: the same for the driver, the watcher, the generator, the workers, the
exporter and the backend; a process that was sent SIGTERM ends, by SIGKILL at the
latest; a wait that comes back to its condition again and again runs out of time
(`SF(WaitTimeout)`). Nothing makes a measurement exceed a limit, an answer come late
or a process die.

The other runs state safety only and assume no fairness.

## 4. What is proved

All theorems hold for every value of the constants that satisfies the named
assumptions, each in the module that declares the constants, and TLC evaluates them
in the runs:

- `ConfigAssumption`: what `Normalize` and `Validate` leave, with finitely many weights, of any sign; `LimitsAssumption`, `DeliveryAssumption`,
  `FileAssumption`, `TTLAssumption` and so on: ranges of sizes and times;
- `TestCaseAssumption`: the scenarios are those of `scenarios.go`, the queue has room
  for at least one batch, the handlers are finitely many;
- `ProcessingAssumption`, `ConfigTypes`, `LicenseAssumption`: the types of the input,
  with values in an attribute map that nothing has hashed yet and finitely many files;
- `ScriptAssumption`, `HeadAssumption`: a file begins with `#!` only if its language
  takes that line for a comment, and that line and the next are within the 1000 bytes
  in which the tool looks for a header;
- `PointsAssumption`: a histogram counts what is in its buckets and has no sum when it
  counts nothing, and one bucket more than bounds, or no buckets and no bounds, as the
  OTLP data model requires; a point's value is any integer and its buckets hold any
  naturals; `UnitAssumption`: a double has at least one step to the next integer;
- `ReportAssumption`: a process reports the path of its executable, or a command line
  that begins with it;
- `ScrapeAssumption`: a report has the attributes that the scrapers and the SDKs give a
  resource of its kind (`Scraped`), with any values and with any others beside those
  the tests look at, or is one the code is known to misname; no mount point is called
  like a device that is not mounted, and an instance id goes with one service name.

The filter and its processor:

- **FilterProofs**, of `EntityFilter`. `TypeCorrect`, `HistoriesBounded`, `AnomalyNeedsTracking`
  `FilterImplementsPolicy` (anomaly detection off) and `FilterKeepsUpToCleanup` (every
  configuration, with the exception the run `anomaly_window` shows). The inductive invariant is `TypeOK` together with
  `SoundTable`: histories are within their bound, and no entity has an age of an
  anomaly while detection is off. Types alone are not enough: the policy drops a
  resource only outside both windows, while the filter asks the anomaly window
  only when detection is on. The refinement has one step per action of the filter,
  each mapped to a step of the policy or a stutter.
  `LimitsAreMonotone` (no weight negative) needs only types of the state, and most of its proof is about
  the composite score, a sum of quotients over a common denominator. The score is a
  fold over a finite set in an order that is not given, so the first lemmas say that
  a fold exists and may take any element first (`FoldExists`, `FoldTakesAny`), by the
  least size of a set for which it fails; sums are then compared term by term
  (`SumsCompare`), and a term grows with its value where the metric has a limit and
  stays where it has none (`ShareGrows`).
- **FilterProofs**, of `PersistentFilter`. `RestartNeverRejuvenates` (every failure allowed,
  provided the inherited file and what others save are tables this version can have
  saved) and `RestartImplementsPolicy` (nothing fails, nothing is inherited). The invariant adds to the filter's that the file is
  sound, that a stopped process has an empty table, and that every remembered age
  is at least the true one, of the table and of the file: without the second half a
  restart could load a younger one.
- **DynamicThresholdsProofs.** `ThresholdTypes`, `ThresholdsBounded`, for any number
  of workers: the bounds hold of the map and of every copy a worker still works
  from, which makes stale copies harmless. The argument is that a weighted mean lies
  between its arguments (`MeanBounds`) and that limiting is monotone
  (`LimitsMonotone`). `QuietUpdatesSpaced`: a move younger than the last stamp has a
  worker that is about to stamp again (`StampsFollowMoves`).
- **BatchDeliveryProofs.** `DeliveryTypes`, `NothingLost`, `NothingTwice`,
  `RetryIsSafe`, `ExcludedStay`, for batches of every size: `Progress` says what the
  filtered metrics hold at each place and that the next consumer was not called
  before, except for an empty remainder after a fall-back. `ExcludedStay` adds that the
  context is over wherever the original goes on although something passes. `StageStaysInside`: the
  filter marks exactly what it keeps (`MarksInside`), so the originals handed over by
  a fall-back are unmarked unless the context is over.
- **PartsProofs**, what belongs to the processor.
  `ValueTypes`, `MaximaBetween`, `MaximaGrow` (`EntityValues`): the invariant
  adds that aliased maps are equal and that the copy in the file satisfies
  `MaxBetween` too, since a restart brings it back. `NormalizationHolds`
  (`ConfigNormalize`): `Normalize` is idempotent and leaves the ranges of a running
  processor for every integer that can be configured. `ListedByPath`
  (`ResourceIdentity`): the executable path is cut from the command line exactly
  where the executable ends, in every command line that tells where (`Telling`), so
  the include list matches by path and by nothing else. `IdentitiesSeparate`
  (`ResourceIdentity`): for every kind of entity, `AllTracked` finds the first of the
  fourteen tests that its reports pass, whichever metric they are of, and so what it
  is tracked under (`IdentityOf`); `SameIdentity` goes back from there to the entity.
  Kinds that share a type, an interface and the connections of a host or two kinds of
  mount, are told apart by their keys (`OtherKey`).

The test bed:

- **LoadTestProofs.** `TypeCorrect`, `BooksAlwaysBalance`, `CountedAreRecorded`,
  `NothingMovesAfterStop`, for any number of workers, batches and attempts. The
  invariant adds `Sends`, which ties the batch a worker holds to the request the
  backend handles, says that no two workers hold the same one and what has been
  counted at each place, and `RecordedFirst`, that a batch of traces about to be
  counted is recorded, and `LogsUnderMutex`, that a batch of logs
  about to be recorded has the mutex. The balance needs the first: a batch moves from "under way" to "counted"
  at one step of the backend and must not be counted by any other.
  `AskedAgainIsReceived` adds `Retrying`: a batch the backend asked for again is
  counted, or in the hands of a worker that is still sending it, or an error counter
  shows it.
- **TestCaseProofs.** `TypeCorrect`, `PassIsDelivery`, `RefusalIsDelivery` and
  `AgentGone`, for any number of workers, handlers and batches and every size of the
  queue. What the scripts of the scenarios have in common is proved of each
  (`Order`): which call comes after which. The invariant then has a part for each
  hazard. `OneInside` and `TestStops`: `sync.Once` lets one caller in, and the test's
  `Stop` returns when the process is gone, was never started, or is the watcher's to
  stop. `Handshake`: the driver gets past the handshake only with a refusal in the
  log, and past its wait only when the retried batches were received, or with an
  error signalled. `LoadOver` and `Results`: nothing is sent after the load was
  stopped, and the verdict was told from final counters. `OnePlace`, as long as the
  exporter has awaited every answer: a batch is with a worker, in the queue, in a
  request, counted or lost, and in one of them only. That is what makes equal numbers
  mean equal batches, and it is false after a late answer, which is why
  `PassMeansDelivered` excepts it.

The libraries and tools, in **PartsProofs** and **DataPointsProofs**:

- `StoredStays`, `StaleIsBounded` (`TTLMap`), for every age, interval and
  delay. The age of an entry is bounded through the tick that will remove it,
  whether that is to come, waits in the channel or is being handled (`BehindSweep`),
  and two ticks in a row are never further apart than an interval and a wait
  (`NextTick`).
- `RetryInvariant`, `RecordsTakenOnceOrTold` (`RetryingConsumer`), for every
  batch. The invariant is what the loop relies on: while the call is under way the
  logs of the next attempt are exactly the records not taken (`LogsAreLeft`).
- `RedactionIsFinal` (`AttributeActions`), for every list of actions and every
  attribute map. The invariant is stated of the actions done so far: as long as none
  of them copied an attribute its original value is under its own key only, and
  once one hid it in time it is under none.
- `SummaryIsTrue` (`LicenseFiles`), for any number of files, paths and places in the
  pool. The counters are cardinalities of sets of ended goroutines (`Counts`); the
  hard part is that a goroutine may read a file another one is rewriting under a
  second path. It does no harm to the summary because whether a file is generated
  never changes: `Texts` says that a generated file is never written and that nothing
  written to another one makes it generated.
- `FixIsRight` (`LicenseFiles`), for every text without a long line. The invariant (`FixInv`) follows the
  goroutine of a file that is named once: until it writes, the file is as the run found
  it, and what it holds is what a fix makes of that. The rest is about texts
  (`FixMakes`): which lines are taken for the header, that what is owed follows them,
  that the new header is found again and that what a second fix takes away is at most
  the empty lines after it (`AgainFewer`).
- `AggregationIsFaithful` (`DataPoints`), for any number of points and buckets of any
  length and offset. Filtering touches attributes only (`PointsKept`); the groups
  partition the points in their order (`Grouped`), so their sums add up to the whole;
  and a merged point is what its group promises (`Became`, of groups of one type), unless
  the merge panics (`PanicIsExplained`): for histograms by an
  invariant of the merge (`HistogramGroup`, `ExponentialGroup`: sum, count and buckets so
  far, and a start no later than any that counts), for the extremes and the mean by the
  folds, for the median because the sorted values have one at or below the middle and
  one at or above it (`MedianBetween`).

Only model-checked:

- liveness (`EventuallyDropped`, `EventuallyForgotten`, `StopEnds`, `TestEnds`):
  fairness and ENABLED are outside the prover's reach. The safety half of the same
  concerns is proved (`FilterImplementsPolicy`, `QuietAfterStop`, `Handshake`).

Every safety invariant and action property of a passing run is stated by a theorem.

The library's induction theorems take an operator as a parameter, which the provers
cannot instantiate. Where an induction is needed it is written as a least
counterexample: `FoldLemmas` states once, for any operator and any choice of the next
element, that a fold exists, follows its equation, passes from an invariant of its
steps to the result and may take any element first, and the other modules instantiate
it. So what a sum, a maximum or a merge of any number of points computes is proved, by
way of the invariants its steps keep.

The refuted properties are TLC's as well. No module declares a RECURSIVE operator.

## 5. Not modelled, and why

- In the processor: logging, the wording of attributes and the JSON attribute
  `process.atp`; the choice of the storage path (file system I/O); the torn words of
  `lastThresholdUpdate`, whose mixture is as old as one of the values written; NaN
  and infinities (a save that fails is modelled, that one such value makes every
  later save fail is not).
- `priorityqueue`: the five methods `container/heap` asks for; what could go wrong,
  the order of the heap, is the library's.
- `timeutils`' ticker: a goroutine that calls a function at every tick until it is
  stopped; nothing of this repository uses it.
- `usecaseextension`, `nopreceiver`, `nopexporter`: nothing changes state after start.
- `codecovgen`: reads module files and prints YAML.
- Parsers and small utilities: stateless conversions whose tables of cases are their
  tests.
- `goldendataset`, `testdata`, `metricstestutil`: generators of fixed data and
  comparisons for tests.
- In the test bed: `CorrectnessTestValidator` (it compares the attributes of spans
  and logs), the collector within the test's process, the data senders and receivers
  (other libraries behind an interface), what the resource watcher measures.
- In the aggregation: points without a type, and minima, maxima and the negative buckets
  of histograms, which are merged like the positive ones.
- Build and release scripts, generated code.

## 6. Plan

1. Done: the processor (`RetentionPolicy`, `EntityFilter`, `DynamicThresholds`,
   `BatchDelivery`, `PersistentFilter`, `EntityValues`), the test bed (`LoadTest`,
   `TestCase`), the libraries and the license tool (`Parts`), and first proofs.
2. Done: proofs of the test case (`TestCaseProofs`), of `RetriedLogsReceived` on top
   of `Sends`, of the monotony of the limits, and of the configuration, the include
   list, the attribute actions and the license tool's summary.
3. Done: proofs of the aggregation, of the fix and of the identities, with the lemmas
   about folds they rest on.
4. A composition of `BatchDelivery` and `EntityFilter`, in which the fates of a
   batch's resources are the filter's verdicts.

The number of runs is kept small on purpose: one per question. Runs that refute a
statement made room for new components, and the differences they showed are in the
list in section 3.

## 7. Running

    tlc -workers 2 -config restart_clean.cfg MCPersistentFilter
    tlc -workers 2 -config parts.cfg MCParts
    tlapm FilterProofs.tla

`testbed_case` takes about two minutes, every other run less than one.
