----------------------------- MODULE ChildProcess -----------------------------
(***************************************************************************)
(* The collector as a child process of the test (child_process_collector.  *)
(* go): the test starts and stops it, and a goroutine that watches its     *)
(* resources may stop it as well.  Stop tests two flags without a lock and *)
(* then enters a sync.Once, in which one caller sends SIGTERM and waits.   *)
(*                                                                         *)
(* Abstractions.  A measurement is within the limits or over them, whatever*)
(* the process does: a failing measurement keeps the values of the last.   *)
(* The number of tolerated failures is left out, being always 0:           *)
(* WithResourceLimits does not copy MaxConsecutiveFailures.                *)
(***************************************************************************)

VARIABLES
  proc,     \* the process; "exited" with code 0, "failed" with another one
  once,     \* stopOnce: isStopped and doneSignal follow from it
  stopper,  \* stopper[c] = where caller c of Stop is, or what it got
  watcher   \* WatchResourceConsumption

processVars == <<proc, once, stopper, watcher>>

Caller == {"test", "watcher"}

ProcessTypeOK ==
  /\ proc \in {"none", "running", "terminating", "exited", "failed"}
  /\ once \in {"free", "busy", "done"}
  /\ stopper \in [Caller -> {"out", "checked", "inside", "ok", "error"}]
  /\ watcher \in {"off", "starting", "warmup", "watching", "stopping", "ended"}

Gone == proc \in {"exited", "failed"}

\* NewChildProcessCollector
ProcessInit ==
  /\ proc = "none"
  /\ once = "free"
  /\ stopper = [c \in Caller |-> "out"]
  /\ watcher = "off"

\* Start, and the goroutine that TestCase.StartAgent starts with it
StartProcess ==
  /\ proc = "none"
  /\ proc' = "running"
  /\ watcher' = "starting"
  /\ UNCHANGED <<once, stopper>>

\* The process ends without being told to.
Die ==
  /\ proc = "running"
  /\ proc' \in {"exited", "failed"}
  /\ UNCHANGED <<once, stopper, watcher>>

\* It follows SIGTERM, or SIGKILL ten seconds later.
Terminate ==
  /\ proc = "terminating"
  /\ proc' \in {"exited", "failed"}
  /\ UNCHANGED <<once, stopper, watcher>>

\* Stop tests isStarted and isStopped, and has nothing to do ...
NothingToStop == proc = "none" \/ once # "free"

StopCall(c) ==
  /\ stopper[c] = "out"
  /\ stopper' = [stopper EXCEPT ![c] = IF NothingToStop THEN "ok" ELSE "checked"]
  /\ UNCHANGED <<proc, once>>

\* ... or is the first in stopOnce: isStopped, doneSignal and SIGTERM,
StopEnter(c) ==
  /\ stopper[c] = "checked"
  /\ once = "free"
  /\ once' = "busy"
  /\ stopper' = [stopper EXCEPT ![c] = "inside"]
  /\ proc' = IF proc = "running" THEN "terminating" ELSE proc
  /\ UNCHANGED watcher

\* Mutant of StopWaited: does not wait for the process.
StopUnwaited(c) ==
  /\ stopper[c] = "inside"
  /\ once' = "done"
  /\ stopper' = [stopper EXCEPT ![c] = IF proc = "failed" THEN "error" ELSE "ok"]
  /\ UNCHANGED <<proc, watcher>>

\* Mutant of StopWaited: whoever waits for the first caller is not told.
StopWaitedSilently(c) ==
  /\ stopper[c] = "inside"
  /\ Gone
  /\ stopper' = [stopper EXCEPT ![c] = IF proc = "failed" THEN "error" ELSE "ok"]
  /\ UNCHANGED <<proc, once, watcher>>

\* and cmd.Wait, which returns the exit code as an error,
StopWaited(c) ==
  /\ stopper[c] = "inside"
  /\ Gone
  /\ once' = "done"
  /\ stopper' = [stopper EXCEPT ![c] = IF proc = "failed" THEN "error" ELSE "ok"]
  /\ UNCHANGED <<proc, watcher>>

\* ... or is the second, which stopOnce keeps until the first is through.
StopSecond(c) ==
  /\ stopper[c] = "checked"
  /\ once = "done"
  /\ stopper' = [stopper EXCEPT ![c] = "ok"]
  /\ UNCHANGED <<proc, once, watcher>>

Stopping(c) == StopEnter(c) \/ StopWaited(c) \/ StopSecond(c)

-----------------------------------------------------------------------------
\* Without limits there is nothing to watch.
WatchNothing ==
  /\ watcher = "starting"
  /\ watcher' = "ended"
  /\ UNCHANGED <<proc, once, stopper>>

\* The warm-up of at most a minute does not look at doneSignal.
WatchWarmUp ==
  /\ watcher \in {"starting", "warmup"}
  /\ watcher' = IF watcher = "starting" THEN "warmup" ELSE "watching"
  /\ UNCHANGED <<proc, once, stopper>>

WatchDone ==
  /\ watcher = "watching"
  /\ once # "free"
  /\ watcher' = "ended"
  /\ UNCHANGED <<proc, once, stopper>>

\* A measurement over a limit, of the process or of what it was
OverLimit ==
  /\ watcher = "watching"
  /\ StopCall("watcher")
  /\ watcher' = "stopping"

\* The two ways in which WatchResourceConsumption returns an error
WatchFails ==
  /\ \/ watcher = "starting" /\ Gone
     \/ watcher = "stopping" /\ stopper["watcher"] \in {"ok", "error"}
  /\ watcher' = "ended"
  /\ UNCHANGED <<proc, once, stopper>>

Watch == WatchWarmUp \/ WatchDone \/ Stopping("watcher")
=============================================================================
