--------------------------- MODULE PersistentFilter ---------------------------
(***************************************************************************)
(* EntityFilter in a process that stops and starts again: the table of     *)
(* tracked entities is saved to a JSON file after batches and at shutdown  *)
(* and loaded by the next process (persistence.go, storage.go,             *)
(* processor_init.go).                                                     *)
(*                                                                         *)
(* The file is the table last saved, with its timestamps growing old like  *)
(* those in memory; Torn stands for a file the decoder rejects.  Dynamic   *)
(* thresholds are not saved.  What can go wrong is chosen by Failures:     *)
(*   "crash"        the process dies without a shutdown                    *)
(*   "torn_write"   it dies while os.WriteFile rewrites the file           *)
(*   "failed_save"  a save returns an error and is only logged             *)
(*   "shared_file"  another processor of the host saves its own table      *)
(***************************************************************************)
EXTENDS EntityFilter

CONSTANTS
  Failures,   \* what can go wrong
  Inherited,  \* what the first process finds: NoFile, or a table
  OtherTables, \* tables another processor of the host can have saved
  NoFile,
  Torn

VARIABLES
  file,     \* contents of the state file
  running,  \* a processor is running
  since     \* since[r] = true age of the last limit r exceeded, as seen by
            \* this processor or by another one that saved to the file

allVars == <<vars, file, running, since>>
storeVars == <<file, running, since>>

Empty == [r \in Resource |-> Absent]
Tables == [Resource -> Entity \cup {Absent}]
HasTable == file \notin {NoFile, Torn}

ASSUME FileAssumption ==
  /\ NoFile \notin Tables
  /\ Torn \notin Tables
  /\ Inherited \in Tables \cup {NoFile}
  /\ OtherTables \subseteq Tables

\* Nothing runs; only an inherited table knows of limits exceeded before.
PersistentInit ==
  /\ Init
  /\ file = Inherited
  /\ running = FALSE
  /\ since = [r \in Resource |-> IF HasTable THEN AgeExceeded(file[r]) ELSE Never]

\* Mutant of Start: a loaded entity counts as exceeded at the time of loading.
StartRejuvenated ==
  /\ ~running
  /\ running' = TRUE
  /\ tracked' = IF HasTable
                THEN [r \in Resource |-> IF file[r] = Absent THEN Absent
                                         ELSE [file[r] EXCEPT !.exceeded = 0]]
                ELSE Empty
  /\ dynamic' = Restrict(Thresholds, {m \in Watched : Thresholds[m] > 0})
  /\ UNCHANGED <<stage, alive, file, since>>

\* newProcessor: a missing or unreadable file means an empty table, and dynamic
\* thresholds start from the configuration again.
Start ==
  /\ ~running
  /\ running' = TRUE
  /\ tracked' = IF HasTable THEN file ELSE Empty
  /\ dynamic' = Restrict(Thresholds, {m \in Watched : Thresholds[m] > 0})
  /\ UNCHANGED <<stage, alive, file, since>>

ReportNoted(r, values) ==
  /\ Report(r, values)
  /\ since' = IF stage'[r] \in ExceedStages THEN [since EXCEPT ![r] = 0] ELSE since
  /\ UNCHANGED <<file, running>>

Work ==
  /\ running
  /\ \/ \E r \in Resource, values \in Samples : ReportNoted(r, values)
     \/ CleanupExpired /\ UNCHANGED storeVars
     \/ AdjustThresholds /\ UNCHANGED storeVars

\* performMaintenanceTasks
Persist ==
  /\ running
  /\ alive # {}
  /\ file' = tracked
  /\ UNCHANGED <<vars, running, since>>

\* The process is gone, and its memory with it.
Stop ==
  /\ running
  /\ running' = FALSE
  /\ tracked' = Empty
  /\ UNCHANGED <<dynamic, stage, alive, since>>

\* Mutant of Shutdown: the table is not saved.
ShutdownForgetting == Stop /\ UNCHANGED file

Shutdown == Stop /\ file' = tracked
ShutdownUnsaved == "failed_save" \in Failures /\ Stop /\ UNCHANGED file
Crash == "crash" \in Failures /\ Stop /\ UNCHANGED file
CrashInWrite == "torn_write" \in Failures /\ Stop /\ file' = Torn

\* The path of the file is fixed, so every processor of the host saves to it,
\* each its own table: the same identities with ages of its own.
Younger(age, other) == IF other < age THEN other ELSE age

OtherSaves ==
  /\ "shared_file" \in Failures
  /\ \E table \in OtherTables :
       /\ file' = table
       /\ since' = [r \in Resource |-> Younger(since[r], AgeExceeded(table[r]))]
  /\ UNCHANGED <<vars, running>>

AgedTable(table) ==
  [r \in Resource |-> IF table[r] = Absent THEN Absent ELSE Aged(table[r])]

PersistentMinute ==
  /\ Minute
  /\ file' = IF HasTable THEN AgedTable(file) ELSE file
  /\ since' = [r \in Resource |-> Older(since[r])]
  /\ UNCHANGED running

PersistentNext ==
  \/ Start \/ Work \/ Persist
  \/ Shutdown \/ ShutdownUnsaved \/ Crash \/ CrashInWrite \/ OtherSaves
  \/ PersistentMinute
  \/ \E r \in Resource : Exit(r) /\ UNCHANGED storeVars

PersistentSpec == PersistentInit /\ [][PersistentNext]_allVars

-----------------------------------------------------------------------------
\* The table that counts: the one in memory, or the one the next process loads.
Durable == IF running THEN tracked ELSE IF HasTable THEN file ELSE Empty

DurablePolicy == INSTANCE RetentionPolicy WITH
  sinceExceeded <- [r \in Resource |-> AgeExceeded(Durable[r])],
  sinceAnomaly <- [r \in Resource |-> AgeAnomaly(Durable[r])],
  verdict <- Verdicts,
  CleanupForgets <- AnomalyDetection

\* README.md:26: "Maintains persistent state in JSON file across collector
\* restarts": with orderly shutdowns, the retention policy is implemented as if
\* the process had never stopped, up to the clean-ups of PolicyUpToCleanup.
RestartKeepsPolicy == DurablePolicy!Spec

\* Whatever fails, a restart never makes the last limit a resource exceeded look
\* younger than it is, so nothing is retained longer than the window.  What
\* another processor of the host saw counts once it has saved to the shared file
\* (README.md:643, "the processor maintains state for all processes together");
\* where no other one saves, the times are those of this processor.
NeverRejuvenated ==
  \A r \in Resource :
    /\ AgeExceeded(tracked[r]) >= since[r]
    /\ HasTable => AgeExceeded(file[r]) >= since[r]
=============================================================================
