----------------------------- MODULE LicenseFiles -----------------------------
(***************************************************************************)
(* A run of nrlicense: main.go collects the paths, a goroutine handles     *)
(* each one (processor.go) with a bound on how many are at work, git tells *)
(* a file's status (detector.go), and the exit code sums up.               *)
(*                                                                         *)
(* One file can be named by two paths, which main.go does not see.  A file *)
(* can be one that cannot be opened for writing, or whose writing breaks   *)
(* off once it is truncated; that every file can be read is assumed.       *)
(***************************************************************************)
EXTENDS LicenseHeader

CONSTANTS
  File, Ext,    \* the files and their extensions
  Forms,        \* how a path is written: "root", "dot", "absolute"
  Pool,         \* 10: capacity of the semaphore
  Run           \* the runs: [flags, args, repo, text, fork, breaks]

ASSUME LicenseAssumption ==
  /\ Pool \in Nat \ {0} /\ IsFiniteSet(File) /\ Forms \subseteq {"root", "dot", "absolute"}
  /\ \A r \in Run : /\ r.flags \subseteq {"fix", "check", "dryRun"}
                    /\ r.text \in [File -> Seq(Line)]
                    /\ r.fork \in [File -> {"new", "modified", "unmodified", "outside"}]
                    /\ r.breaks \in [File -> {"never", "open", "write"}]

\* A script begins with #! only where its language takes that for a comment
ASSUME ScriptAssumption ==
  \A r \in Run : \A f \in File :
    HashBang(r.text[f]) # <<>> => IsCommentLine(r.text[f][1], Ext[f])

Path == File \X Forms

VARIABLES
  run,       \* what main was started with
  text,      \* the files
  task,      \* path -> "none", or where its goroutine is
  local,     \* path -> what its goroutine holds
  processed, modified, failures, needsUpdate,   \* the counters
  exit       \* the exit code, -1 before

licenseVars == <<run, text, task, local, processed, modified, failures, needsUpdate, exit>>

NoLocal == [status |-> "", content |-> <<>>, result |-> <<>>]

LicenseFrom(r) ==
  /\ run = r
  /\ text = r.text
  /\ task = [p \in Path |-> "none"]
  /\ local = [p \in Path |-> NoLocal]
  /\ processed = 0 /\ modified = 0 /\ failures = 0 /\ needsUpdate = 0
  /\ exit = -1

LicenseInit == \E r \in Run : LicenseFrom(r)

Mode == CHOOSE m \in run.flags : TRUE
Checking == run.flags = {"check"}
Fixing == run.flags = {"fix"}

\* collectFiles: an argument that names nothing adds nothing; seen is by path
Collected == {p \in Path : p \in run.args /\ Ext[p[1]] \in {"go", "sh", "py", "java", "js", "ts", "proto"}}

-----------------------------------------------------------------------------
\* main: the modes exclude each other, and git must answer
Refused == Cardinality(run.flags) # 1 \/ run.args = {} \/ ~run.repo

Refuse ==
  /\ exit = -1 /\ Refused
  /\ exit' = 1
  /\ UNCHANGED <<run, text, task, local, processed, modified, failures, needsUpdate>>

NothingToDo ==
  /\ exit = -1 /\ ~Refused /\ Collected = {}
  /\ exit' = 0
  /\ UNCHANGED <<run, text, task, local, processed, modified, failures, needsUpdate>>

ProcessFiles ==
  /\ exit = -1 /\ ~Refused /\ Collected # {}
  /\ \A p \in Path : task[p] = "none"
  /\ task' = [p \in Path |-> IF p \in Collected THEN "queued" ELSE "none"]
  /\ UNCHANGED <<run, text, local, processed, modified, failures, needsUpdate, exit>>

Goto(p, where) == task' = [task EXCEPT ![p] = where]

\* semaphore <- struct{}{}
Acquire(p) ==
  /\ task[p] = "queued"
  /\ Cardinality({q \in Path : task[q] \notin {"none", "queued", "done", "failed"}}) < Pool
  /\ Goto(p, "parse")
  /\ UNCHANGED <<run, text, local, processed, modified, failures, needsUpdate, exit>>

\* An error of processFile
Erred(p) == failures' = failures + 1 /\ Goto(p, "failed")

\* processFile up to the test for a generated file
Parse(p) ==
  /\ task[p] = "parse"
  /\ IsGeneratedFile(text[p[1]]) \/ ~Unparsable(text[p[1]], Ext[p[1]])
  /\ processed' = processed + 1
  /\ Goto(p, IF IsGeneratedFile(text[p[1]]) THEN "done" ELSE "status")
  /\ UNCHANGED <<run, text, local, modified, failures, needsUpdate, exit>>

ParseFails(p) ==
  /\ task[p] = "parse"
  /\ ~IsGeneratedFile(text[p[1]]) /\ Unparsable(text[p[1]], Ext[p[1]])
  /\ processed' = processed + 1
  /\ Erred(p)
  /\ UNCHANGED <<run, text, local, modified, needsUpdate, exit>>

\* GetFileStatus: validatePath refuses a file outside of the repository, and
\* git does not find an absolute path in a commit
Outside(p) == run.fork[p[1]] = "outside"
FileStatus(p) == IF p[2] = "absolute" THEN "new" ELSE run.fork[p[1]]

DetectOutside(p) ==
  /\ task[p] = "status" /\ Outside(p)
  /\ Erred(p)
  /\ UNCHANGED <<run, text, local, processed, modified, needsUpdate, exit>>

DetectInAnyMode(p) ==    \* mutant: unmodified files are not checked either
  /\ task[p] = "status" /\ ~Outside(p)
  /\ local' = [local EXCEPT ![p].status = FileStatus(p)]
  /\ Goto(p, CASE FileStatus(p) = "unmodified" -> "done"
               [] Checking /\ FileStatus(p) # "unmodified" -> "check"
               [] OTHER -> Mode)
  /\ UNCHANGED <<run, text, processed, modified, failures, needsUpdate, exit>>

Detect(p) ==
  /\ task[p] = "status" /\ ~Outside(p)
  /\ local' = [local EXCEPT ![p].status = FileStatus(p)]
  /\ Goto(p, CASE Checking -> "check"
               [] ~Checking /\ FileStatus(p) = "unmodified" -> "done"
               [] OTHER -> Mode)
  /\ UNCHANGED <<run, text, processed, modified, failures, needsUpdate, exit>>

Check(p) ==
  /\ task[p] = "check"
  /\ needsUpdate' = IF CheckHeader(text[p[1]], Ext[p[1]], local[p].status)
                    THEN needsUpdate ELSE needsUpdate + 1
  /\ Goto(p, "done")
  /\ UNCHANGED <<run, text, local, processed, modified, failures, exit>>

DryRun(p) ==
  /\ task[p] = "dryRun"
  /\ modified' = modified + 1
  /\ Goto(p, "done")
  /\ UNCHANGED <<run, text, local, processed, failures, needsUpdate, exit>>

\* ApplyHeader reads the file, parses it, and os.WriteFile truncates it first
ReadContent(p) ==
  /\ task[p] = "fix"
  /\ local' = [local EXCEPT ![p].content = text[p[1]]]
  /\ Goto(p, "reparse")
  /\ UNCHANGED <<run, text, processed, modified, failures, needsUpdate, exit>>

\* Only a file with a licence is parsed again
ReparseBreaks(p) == HasLicenseHeader(local[p].content) /\ Unparsable(text[p[1]], Ext[p[1]])

Reparse(p) ==
  /\ task[p] = "reparse" /\ ~ReparseBreaks(p)
  /\ local' = [local EXCEPT ![p].result =
       ApplyHeader(local[p].content, ParseFileHeader(text[p[1]], Ext[p[1]]),
                   GenerateHeader(local[p].status, Ext[p[1]]))]
  /\ Goto(p, "truncate")
  /\ UNCHANGED <<run, text, processed, modified, failures, needsUpdate, exit>>

Truncate(p) ==
  /\ task[p] = "truncate" /\ run.breaks[p[1]] # "open"
  /\ text' = [text EXCEPT ![p[1]] = <<>>]
  /\ Goto(p, "write")
  /\ UNCHANGED <<run, local, processed, modified, failures, needsUpdate, exit>>

Write(p) ==
  /\ task[p] = "write" /\ run.breaks[p[1]] # "write"
  /\ text' = [text EXCEPT ![p[1]] = local[p].result]
  /\ modified' = modified + 1
  /\ Goto(p, "done")
  /\ UNCHANGED <<run, local, processed, failures, needsUpdate, exit>>

ApplyFails(p) ==
  /\ \/ task[p] = "reparse" /\ ReparseBreaks(p)
     \/ task[p] = "truncate" /\ run.breaks[p[1]] = "open"
     \/ task[p] = "write" /\ run.breaks[p[1]] = "write"
  /\ Erred(p)
  /\ UNCHANGED <<run, text, local, processed, modified, needsUpdate, exit>>

\* wg.Wait and the exit code
Exit ==
  /\ exit = -1 /\ \E p \in Path : task[p] # "none"
  /\ \A p \in Path : task[p] \in {"none", "done", "failed"}
  /\ exit' = IF failures > 0 \/ (Checking /\ needsUpdate > 0) THEN 1 ELSE 0
  /\ UNCHANGED <<run, text, task, local, processed, modified, failures, needsUpdate>>

LicenseNext ==
  \/ Refuse \/ NothingToDo \/ ProcessFiles \/ Exit
  \/ \E p \in Path : \/ Acquire(p) \/ Parse(p) \/ ParseFails(p) \/ DetectOutside(p) \/ Detect(p)
                     \/ Check(p) \/ DryRun(p)
                     \/ ReadContent(p) \/ Reparse(p) \/ Truncate(p) \/ Write(p) \/ ApplyFails(p)

LicenseSpec == LicenseInit /\ [][LicenseNext]_licenseVars

-----------------------------------------------------------------------------
Done == exit # -1 /\ \E p \in Path : task[p] \in {"done", "failed"}

Fixable(p) ==
  /\ ~IsGeneratedFile(run.text[p[1]])
  /\ ~Outside(p)
  /\ FileStatus(p) # "unmodified"

\* Files that cannot be examined
Unexaminable(p) ==
  /\ ~IsGeneratedFile(run.text[p[1]])
  /\ Outside(p) \/ Unparsable(run.text[p[1]], Ext[p[1]])

Failed == {p \in Collected : task[p] = "failed"}

(***************************************************************************)
(* The exit code and the summary agree with the files, whatever the order  *)
(* in which the goroutines finish (processor.go:47-60): --check ends with  *)
(* 0 exactly if every file that could be examined has its header and none  *)
(* could not be; a file that fails is in no other count, and a run in      *)
(* which one fails does not end with 0; and only --fix writes.             *)
(***************************************************************************)
SummaryTells ==
  Done =>
    /\ exit = 0 <=> /\ Failed = {}
                    /\ Checking => \A p \in Collected :
                         \/ IsGeneratedFile(run.text[p[1]])
                         \/ CheckHeader(run.text[p[1]], Ext[p[1]], FileStatus(p))
    /\ ~Fixing => Failed = {p \in Collected : Unexaminable(p)}
    /\ \A p \in Collected : Outside(p) /\ ~IsGeneratedFile(run.text[p[1]]) => p \in Failed
    /\ processed = Cardinality(Collected)
    /\ modified = IF Checking THEN 0 ELSE Cardinality({p \in Collected \ Failed : Fixable(p)})
    /\ ~Fixing => text = run.text

IsSuffixOf(s, t) == Len(s) <= Len(t) /\ SubSeq(t, Len(t) - Len(s) + 1, Len(t)) = s

\* What a fix has to leave: all, if there is no licence in the file; else the
\* code, and the comments that follow a licence identifier in the header
Owed(lines, ext) ==
  LET says(i) == NamesCopyright(lines[i]) \/ NamesLicence(lines[i])
      from == {i \in DOMAIN lines :
                 \/ IsCode(lines[i], ext)
                 \/ /\ ~IsEmptyOrEmptyComment(lines[i], ext)
                    /\ \E h, j \in 1 .. i - 1 : h < j /\ says(h) /\ NamesLicence(lines[j])}
      first == IF \E i \in DOMAIN lines : says(i)
               THEN FirstOr(from, Len(lines) + 1) ELSE Len(HashBang(lines)) + 1
  IN SubSeq(lines, first, Len(lines))

\* As many empty lines as are between m and n are gone from a text
FewerEmpties(before, after, ext) ==
  \E m \in 0 .. Len(before), n \in 1 .. Len(before) + 1 :
    /\ m < n
    /\ after = SubSeq(before, 1, m) \o SubSeq(before, n, Len(before))
    /\ \A i \in m + 1 .. n - 1 : IsEmptyOrEmptyComment(before[i], ext)

(***************************************************************************)
(* A file of no long line that --fix has handled alone, without an error,  *)
(* has the header --check asks for; its code is there, and so are the      *)
(* comments that follow the header (header.go:79, "to prevent deletion of  *)
(* non-header comments"); and another --fix would take away nothing but    *)
(* empty lines.  Of a file with a long line, the first or the second --fix *)
(* can drop the rest; with two paths to one file its goroutines overwrite  *)
(* each other, and the text can be lost.                                   *)
(***************************************************************************)
FixedRight ==
  Done /\ Fixing => \A p \in Collected \ Failed :
    (/\ Fixable(p) /\ \A q \in Collected : q[1] = p[1] => q = p
     /\ Scanned(run.text[p[1]]) = Len(run.text[p[1]])) =>
         LET ext == Ext[p[1]]
             before == run.text[p[1]]
             after == text[p[1]]
             again == ApplyHeader(after, ParseFileHeader(after, ext),
                                  GenerateHeader(FileStatus(p), ext))
         IN /\ CheckHeader(after, ext, FileStatus(p))
            /\ IsSuffixOf(Owed(before, ext), after)
            /\ FewerEmpties(after, again, ext)

=============================================================================
