--------------------------- MODULE ResourceIdentity ---------------------------
(***************************************************************************)
(* utils.go and resource_utils.go: under which key a reported resource is  *)
(* tracked, which type it has, and whether the include list names it.      *)
(*                                                                         *)
(* Attributes are a function from keys to strings.  An identity is not     *)
(* formatted: it is its kind, what tells it from others, and the host.     *)
(***************************************************************************)
EXTENDS Integers, Sequences, FiniteSets

CONSTANTS
  Report,        \* the reports: [of, executable, attrs]; of is the entity
  KeyOrder,      \* the keys of attributes, sorted
  Fits,          \* the key=value pairs that fit into 512 bytes
  Text,          \* what a path or a command line says: [form, words]
  IncludeList,   \* the configured entries, as such texts
  MaxReports     \* bound on the reports that are kept

ASSUME IdentityAssumption == Fits \in Nat /\ MaxReports \in Nat

VARIABLE reports   \* what was reported

ReportInit == reports = {}

-----------------------------------------------------------------------------
Has(attrs, k) == k \in DOMAIN attrs
Is(attrs, k, S) == k \in DOMAIN attrs /\ attrs[k] \in S

First(S) == CHOOSE i \in S : \A j \in S : i <= j

MemoryStates == {"buffered", "cached", "inactive", "free",
                 "slab_reclaimable", "slab_unreclaimable", "used"}

ProcessesStatuses == {"blocked", "daemon", "detached", "idle", "locked", "orphan", "paging",
                      "running", "sleeping", "stopped", "system", "unknown", "zombies"}

\* identifyHostMetricType: the tests in their order.  The one for a paging
\* device (its state is cached, free or used) comes after that for memory,
\* which takes all it is for.
HostMetricTests(attrs) ==
  LET deviceOnly == \A k \in {"direction", "mountpoint", "protocol", "state", "type"} : ~Has(attrs, k)
  IN << [type |-> "cpu", found |-> Has(attrs, "cpu")],
        [type |-> "disk", found |-> Has(attrs, "device") /\ Is(attrs, "direction", {"read", "write"})],
        [type |-> "filesystem", found |-> Has(attrs, "mountpoint")],
        [type |-> "filesystem",
         found |-> Has(attrs, "type") /\ Is(attrs, "state", {"free", "reserved", "used"})],
        [type |-> "memory", found |-> Is(attrs, "state", MemoryStates)],
        [type |-> "network",
         found |-> /\ Has(attrs, "device")
                   /\ \/ Is(attrs, "direction", {"receive", "transmit"})
                      \/ Has(attrs, "protocol") \/ Has(attrs, "state")],
        [type |-> "network", found |-> Has(attrs, "protocol") /\ Has(attrs, "state")],
        [type |-> "paging", found |-> Is(attrs, "direction", {"page_in", "page_out"})],
        [type |-> "paging",
         found |-> Is(attrs, "state", {"cached", "free", "used"}) /\ Has(attrs, "device")],
        [type |-> "paging", found |-> Is(attrs, "type", {"major", "minor"})],
        [type |-> "process", found |-> Has(attrs, "process.pid")],
        [type |-> "processes", found |-> Is(attrs, "status", ProcessesStatuses)],
        [type |-> "disk", found |-> Has(attrs, "device") /\ deviceOnly],
        [type |-> "system", found |-> Has(attrs, "host.name")] >>

identifyHostMetricType(attrs) ==
  LET tests == HostMetricTests(attrs)
      found == {i \in DOMAIN tests : tests[i].found}
  IN IF found = {} THEN "" ELSE tests[First(found)].type

getResourceType(attrs) ==
  LET type == identifyHostMetricType(attrs)
  IN CASE type # "" -> <<type>>
       [] type = "" /\ Has(attrs, "service.name") -> <<"service", attrs["service.name"]>>
       [] OTHER -> <<"unknown">>

-----------------------------------------------------------------------------
\* The values of the keys an identity is made of
Of(attrs, keys) == [k \in keys \cap DOMAIN attrs |-> attrs[k]]

\* The value of the first of two keys that has one that is not empty
EitherOf(attrs, k, l) ==
  LET given == {i \in 1 .. 2 : Has(attrs, <<k, l>>[i]) /\ attrs[<<k, l>>[i]] # ""}
  IN [id |-> IF given = {} THEN "unknown" ELSE attrs[<<k, l>>[First(given)]]]

getHostName(attrs) == IF Has(attrs, "host.name") THEN attrs["host.name"] ELSE ""

HostMetricKeyByCommand(attrs, type) ==   \* mutant: processes told by their command
  CASE type \in {"cpu"} -> Of(attrs, {"cpu"})
    [] type = "process" -> EitherOf(attrs, "process.command", "process.pid")
    [] type \in {"disk", "network", "paging"} -> Of(attrs, {"device"})
    [] type = "filesystem" -> EitherOf(attrs, "mountpoint", "device")
    [] OTHER -> <<>>

\* What tells resources of one type and host apart
HostMetricKey(attrs, type) ==
  CASE type = "cpu" -> Of(attrs, {"cpu"})
    [] type = "process" -> EitherOf(attrs, "process.pid", "process.command")
    [] type \in {"disk", "network", "paging"} -> Of(attrs, {"device"})
    [] type = "filesystem" -> EitherOf(attrs, "mountpoint", "device")
    [] OTHER -> <<>>

buildHostMetricIdentity(attrs, type) ==
  [kind |-> type, key |-> HostMetricKey(attrs, type), host |-> getHostName(attrs)]

\* An instance id, or else the name with a namespace that is not empty
buildServiceIdentity(attrs) ==
  LET instance == Has(attrs, "service.instance.id")
      namespace == IF Is(attrs, "service.namespace", {""}) THEN {} ELSE {"service.namespace"}
  IN [kind |-> IF instance THEN "service.instance.id" ELSE "service",
      key |-> Of(attrs, IF instance THEN {"service.instance.id"} ELSE {"service.name"} \cup namespace),
      host |-> ""]

\* All attributes, in the order of their keys, as far as they fit
buildFallbackIdentity(attrs) ==
  LET before(k) == {j \in DOMAIN KeyOrder : Has(attrs, KeyOrder[j]) /\ \E i \in DOMAIN KeyOrder :
                                              KeyOrder[i] = k /\ j < i}
  IN [kind |-> "fallback", key |-> Of(attrs, {k \in DOMAIN attrs : Cardinality(before(k)) < Fits}),
      host |-> ""]

buildResourceIdentity(attrs) ==
  LET type == identifyHostMetricType(attrs)
      service == Has(attrs, "service.instance.id") \/ Has(attrs, "service.name")
  IN CASE type # "" -> buildHostMetricIdentity(attrs, type)
       [] type = "" /\ service -> buildServiceIdentity(attrs)
       [] OTHER -> buildFallbackIdentity(attrs)

-----------------------------------------------------------------------------
(***************************************************************************)
(* A text has a form ("unix" and "windows" are absolute paths, "relative"  *)
(* has a separator, "name" has none) and words, which spaces divide.       *)
(***************************************************************************)
NoPath == [form |-> "none", words |-> <<>>]

UpTo(text, n) == [text EXCEPT !.words = SubSeq(@, 1, n)]

Exts == <<".exe", ".bat", ".cmd">>

Ending(words, ext) == {i \in DOMAIN words : words[i].ext = ext}

\* The executable of a command line: a Windows path ends with the first .exe,
\* or else .bat, or else .cmd of the line, any other at the first space
ExecutableOf(text) ==
  LET found == {i \in DOMAIN Exts : Ending(text.words, Exts[i]) # {}}
  IN CASE text.form \notin {"unix", "windows"} -> NoPath
       [] text.form = "windows" /\ found # {} ->
            UpTo(text, First(Ending(text.words, Exts[First(found)])))
       [] OTHER -> UpTo(text, 1)

GivenAs(attrs, k) == Has(attrs, k) /\ attrs[k] # ""

extractProcessExecutablePath(attrs) ==
  CASE GivenAs(attrs, "process.executable.path") -> Text[attrs["process.executable.path"]]
    [] ~GivenAs(attrs, "process.executable.path") /\ GivenAs(attrs, "process.command") ->
         ExecutableOf(Text[attrs["process.command"]])
    [] OTHER -> NoPath

MatchByCommand(attrs) ==    \* mutant: the command line is matched whole
  IF Has(attrs, "process.command") THEN Text[attrs["process.command"]] \in IncludeList
  ELSE extractProcessExecutablePath(attrs) \in IncludeList

\* Entries without a separator are ignored
isProcessInIncludeList(attrs) ==
  LET path == extractProcessExecutablePath(attrs)
  IN path # NoPath /\ path \in {e \in IncludeList : e.form # "name"}

isZombieProcess(attrs) == Is(attrs, "process.state", {"Z"})

\* Processes report their path, or else a command line that begins with it.
ASSUME ReportAssumption ==
  /\ \A t \in DOMAIN Text :
       /\ Text[t] = [form |-> Text[t].form, words |-> Text[t].words]
       /\ Len(Text[t].words) \in Nat /\ DOMAIN Text[t].words = 1 .. Len(Text[t].words)
       /\ \A i \in DOMAIN Text[t].words : Text[t].words[i].ext \in {"", ".exe", ".bat", ".cmd"}
  /\ \A r \in Report : r.executable # NoPath =>
       \/ /\ GivenAs(r.attrs, "process.executable.path")
          /\ Text[r.attrs["process.executable.path"]] = r.executable
       \/ /\ ~GivenAs(r.attrs, "process.executable.path") /\ GivenAs(r.attrs, "process.command")
          /\ r.attrs["process.command"] \in DOMAIN Text
          /\ UpTo(Text[r.attrs["process.command"]], Len(r.executable.words)) = r.executable

-----------------------------------------------------------------------------
\* A resource is reported.  The table of tracked entities is EntityFilter's.
Receive(r) ==
  /\ r \notin reports /\ Cardinality(reports) < MaxReports
  /\ reports' = reports \cup {r}

ReportNext == \E r \in Report : Receive(r)

ReportSpec == ReportInit /\ [][ReportNext]_reports

\* A service that names its host is tracked as that host
NamedService(r) == Has(r.attrs, "service.instance.id") \/ Has(r.attrs, "service.name")
TakenForHost(r) == NamedService(r) /\ identifyHostMetricType(r.attrs) = "system"

\* A paging device is tracked as the memory, although utils.go:116 has it apart
TakenForMemory(r) == Has(r.attrs, "device") /\ identifyHostMetricType(r.attrs) = "memory"

Misnamed(r) == TakenForHost(r) \/ TakenForMemory(r)

TestedKeys == {"cpu", "device", "direction", "mountpoint", "protocol", "state", "type",
               "process.pid", "status"}

IfHas(attrs, k, S) == Has(attrs, k) => attrs[k] \in S

\* What the scrapers and the SDKs report of an entity, which its kind and one
\* or two values name.  Other attributes may be there as well.
Scraped(r) ==
  LET attrs == r.attrs
      host == getHostName(attrs)
      keys == DOMAIN attrs \cap TestedKeys
      unhosted == keys = {} /\ ~Has(attrs, "host.name")
  IN \/ Has(attrs, "cpu") /\ r.of = <<"cpu", attrs["cpu"], host>>
     \/ /\ Has(attrs, "device") /\ keys \subseteq {"device", "direction"}
        /\ IfHas(attrs, "direction", {"read", "write"})
        /\ r.of = <<"disk", attrs["device"], host>>
     \/ /\ Has(attrs, "device") /\ keys \subseteq {"device", "direction", "protocol"} /\ keys # {"device"}
        /\ IfHas(attrs, "direction", {"receive", "transmit"})
        /\ r.of = <<"interface", attrs["device"], host>>
     \/ /\ keys = {"protocol", "state"} /\ attrs["state"] \notin MemoryStates
        /\ r.of = <<"connections", "", host>>
     \/ /\ Has(attrs, "mountpoint") /\ attrs["mountpoint"] # ""
        /\ keys \subseteq {"device", "mountpoint", "state", "type"}
        /\ r.of = <<"mounted", attrs["mountpoint"], host>>
     \/ /\ Has(attrs, "device") /\ attrs["device"] # "" /\ IfHas(attrs, "mountpoint", {""})
        /\ Has(attrs, "type") /\ Is(attrs, "state", {"free", "reserved", "used"})
        /\ keys \subseteq {"device", "mountpoint", "state", "type"}
        /\ r.of = <<"unmounted", attrs["device"], host>>
     \/ keys = {"state"} /\ attrs["state"] \in MemoryStates /\ r.of = <<"memory", "", host>>
     \/ /\ keys # {} /\ keys \subseteq {"direction", "type"}
        /\ IfHas(attrs, "direction", {"page_in", "page_out"}) /\ IfHas(attrs, "type", {"major", "minor"})
        /\ r.of = <<"paging", "", host>>
     \/ /\ keys = {"process.pid"} /\ attrs["process.pid"] # ""
        /\ r.of = <<"process", attrs["process.pid"], host>>
     \/ keys = {"status"} /\ attrs["status"] \in ProcessesStatuses /\ r.of = <<"processes", "", host>>
     \/ keys = {} /\ Has(attrs, "host.name") /\ r.of = <<"system", "", host>>
     \/ /\ unhosted /\ Has(attrs, "service.instance.id")
        /\ r.of = <<"instance", attrs["service.instance.id"], "">>
     \/ /\ unhosted /\ ~Has(attrs, "service.instance.id") /\ Has(attrs, "service.name")
        /\ r.of = <<"service", attrs["service.name"],
                    IF Has(attrs, "service.namespace") THEN attrs["service.namespace"] ELSE "">>
     \/ /\ unhosted /\ ~NamedService(r) /\ IsFiniteSet(DOMAIN attrs) /\ Cardinality(DOMAIN attrs) <= Fits
        /\ r.of = <<"other", attrs, "">>

\* No mount point has the name of a device that is not mounted, and what has
\* an instance id always reports the same service name
ASSUME ScrapeAssumption ==
  /\ \A r \in Report : r.attrs \in [DOMAIN r.attrs -> STRING] /\ (Misnamed(r) \/ Scraped(r))
  /\ \A r, s \in {q \in Report : ~Misnamed(q)} :
       /\ r.of[1] = "mounted" /\ s.of[1] = "unmounted" => r.of[2] # s.of[2]
       /\ r.of[1] = "instance" /\ s.of[1] = "instance" /\ r.of[2] = s.of[2] =>
            Of(r.attrs, {"service.name"}) = Of(s.attrs, {"service.name"})
  /\ \A i, j \in DOMAIN KeyOrder : KeyOrder[i] = KeyOrder[j] => i = j
  /\ KeyOrder = [i \in 1 .. Len(KeyOrder) |-> KeyOrder[i]] /\ Len(KeyOrder) \in Nat

(***************************************************************************)
(* Two reports are tracked under one identity exactly if they are of one   *)
(* entity, whatever metric they are of, and an entity has one type.        *)
(* Sharing an identity joins two histories and two retention windows.      *)
(***************************************************************************)
IdentitySeparates ==
  \A r, s \in {q \in reports : ~Misnamed(q)} :
    /\ buildResourceIdentity(r.attrs) = buildResourceIdentity(s.attrs) <=> r.of = s.of
    /\ r.of = s.of => getResourceType(r.attrs) = getResourceType(s.attrs)

(***************************************************************************)
(* "Priority order: service or entity identifiers" first (utils.go:15-16): *)
(* two services are told apart.  They are not when they name their host.   *)
(***************************************************************************)
ServicesSeparate ==
  \A r, s \in {q \in reports : NamedService(q)} :
    buildResourceIdentity(r.attrs) = buildResourceIdentity(s.attrs) => r.of = s.of

\* The command lines that tell where the executable ends
Telling(r) ==
  LET command == Text[r.attrs["process.command"]].words
      n == Len(r.executable.words)
      said == {i \in DOMAIN command : command[i].ext # ""}
  IN \/ GivenAs(r.attrs, "process.executable.path")
     \/ r.executable.form = "unix" /\ n = 1
     \/ r.executable.form = "windows" /\ (said = {n} \/ (n = 1 /\ said = {}))

(***************************************************************************)
(* A process bypasses the filter if and only if the path of its executable *)
(* is an entry of the include list, whatever its arguments are and whether *)
(* the path is reported or is read from the command line (utils.go:327).   *)
(***************************************************************************)
IncludedByPath ==
  \A r \in reports : r.executable # NoPath /\ Telling(r) =>
    (isProcessInIncludeList(r.attrs) <=>
      r.executable \in {e \in IncludeList : e.form # "name"})

=============================================================================
