-------------------------------- MODULE MCParts --------------------------------
EXTENDS Parts

Upto(S, n) == UNION {[1 .. k -> S] : k \in 0 .. n}

-----------------------------------------------------------------------------
\* nrlicense: a Go file f1 with any three lines before its code, a shell script
\* f3, a Python file f4, and f2, whose header is that of the fork
L(m, s) == [mark |-> m, says |-> s]
Words == L("none", "words")
Marked(m) == {L(m, s) : s \in {"", "words", "theirs", "ours", "apache"}}

MCExt == [f1 |-> "go", f2 |-> "go", f3 |-> "sh", f4 |-> "py"]

GoTexts == {t \o <<Words>> : t \in Upto(Marked("slash") \cup {Blank, Words, L("none", "theirs")}, 3)}
             \cup {<<L("slash", "generated"), Words>>}
ShTexts == {<<L("hash", "shebang")>> \o t \o <<Words>> : t \in Upto(Marked("hash"), 2)}
\* A header, or none, code or none, and a long line before the last
LongTexts == {t \o <<long, Words>> : t \in Upto({L("slash", s) : s \in {"theirs", "apache", "words"}} \cup {Words}, 3),
                                    long \in {L("none", "long"), L("slash", "long")}}
PyTexts == {t \o <<Words>> : t \in Upto(Marked("hash") \cup Marked("slash"), 2)}

BaseText ==
  [f1 |-> <<L("slash", "theirs"), L("slash", "apache"), Blank, Words>>,
   f2 |-> <<L("slash", "theirs"), L("slash", "apache"), Blank, Words>>,
   f3 |-> <<L("hash", "shebang"), Words>>,
   f4 |-> <<Words>>]

NoBreak == [f \in {"f1", "f2", "f3", "f4"} |-> "never"]

RunsOn(f, texts, modes, forks) ==
  [flags : {{m} : m \in modes}, args : {{<<f, "root">>}}, repo : {TRUE},
   text : {[BaseText EXCEPT ![f] = t] : t \in texts},
   fork : {[g \in {"f1", "f2", "f3", "f4"} |-> IF g = f THEN s ELSE "new"] : s \in forks},
   breaks : {NoBreak}]

MCRun ==
  RunsOn("f1", GoTexts, {"fix", "check", "dryRun"}, {"new", "modified", "unmodified"})
  \cup RunsOn("f1", LongTexts, {"fix", "check"}, {"new", "outside"})
  \cup RunsOn("f3", ShTexts, {"fix"}, {"new", "modified"})
  \cup RunsOn("f4", PyTexts, {"fix"}, {"new", "modified"})
  \cup [flags : {{"fix"}, {"check"}, {"fix", "check"}}, repo : BOOLEAN, text : {BaseText},
        args : SUBSET {<<"f1", "root">>, <<"f1", "dot">>, <<"f2", "absolute">>, <<"f3", "root">>},
        fork : [f1 : {"new", "modified", "unmodified", "outside"}, f2 : {"modified", "outside"},
                f3 : {"new", "unmodified"}, f4 : {"new"}], breaks : {NoBreak}]
  \cup [flags : {{"fix"}}, repo : {TRUE}, text : {BaseText},
        args : {{<<"f1", "root">>, <<"f1", "dot">>, <<"f3", "root">>}, {<<"f1", "root">>, <<"f3", "root">>}},
        fork : {[f \in {"f1", "f2", "f3", "f4"} |-> "new"]},
        breaks : [f1 : {"open", "write"}, f2 : {"never"}, f3 : {"never", "write"}, f4 : {"never"}]]

-----------------------------------------------------------------------------
\* Configurations: every setting around its limits, one group at a time
ThresholdMaps == {<<>>} \cup [cpu : {-1, 0, 5}]

MCConfig ==
  {[createDefaultConfig EXCEPT !.RetentionMinutes = r] : r \in {-1, 0, 1, 30, 31}}
  \cup {[createDefaultConfig EXCEPT !.EnableDynamicThresholds = e, !.DynamicSmoothingFactor = f,
           !.MetricThresholds = s, !.MinThresholds = lo, !.MaxThresholds = hi] :
           e \in BOOLEAN, f \in {-1, 0, 1, 100, 101},
           s \in ThresholdMaps, lo \in ThresholdMaps, hi \in ThresholdMaps}
  \cup {[createDefaultConfig EXCEPT !.EnableMultiMetric = e, !.CompositeThreshold = c,
           !.EnableStorage = p] : e \in BOOLEAN, c \in {-1, 0, 1}, p \in {"nil", "true", "false"}}
  \cup {[createDefaultConfig EXCEPT !.EnableAnomalyDetection = e, !.AnomalyHistorySize = h,
           !.AnomalyMinDataPoints = n, !.AnomalyChangeThreshold = c] :
           e \in BOOLEAN, h \in {-1, 0, 1, 2, 3, 4, 100, 101},
           n \in {-1, 0, 1, 2, 3, 4, 11, 101}, c \in {-1, 0, 1}}

-----------------------------------------------------------------------------
\* Data points: two numbers or histograms of two intervals, three exponential
\* histograms of any offsets
Sum(buckets) == LET N[i \in 0 .. Len(buckets)] == IF i = 0 THEN 0 ELSE N[i - 1] + buckets[i]
                IN N[Len(buckets)]

Point(attrsOf, from, number, counts) ==
  [attrs |-> attrsOf, time |-> 2, start |-> from, type |-> "int", value |-> number,
   count |-> Sum(counts), zero |-> 0, bounds |-> <<>>, buckets |-> counts, offset |-> 0]

Labels == [a : {1}, b : {1, 2}]
NumberPoints == {[Point(l, s, v, <<>>) EXCEPT !.type = t] :
                   l \in Labels, s \in {0, 1}, v \in {-3, 2, 4}, t \in {"int", "double"}}
OfOneLabel == {p \in NumberPoints : p.attrs.b = 1}

\* With a bound, without one, and without buckets
Histograms ==
  {[Point(l, s, IF c[2] = <<0, 0>> THEN 0 ELSE 2, c[2]) EXCEPT !.bounds = c[1]] :
     l \in Labels, s \in {0, 1},
     c \in {<<<<5>>, <<1, 2>>>>, <<<<7>>, <<1, 2>>>>, <<<<5>>, <<0, 0>>>>, <<<<>>, <<1>>>>}}
  \cup {[Point(l, s, v, <<>>) EXCEPT !.count = v] : l \in Labels, s \in {0, 1}, v \in {0, 2}}
Exponentials == {[Point([a |-> 1], 0, IF b = <<>> THEN 0 ELSE 2, b) EXCEPT !.offset = o] :
                   b \in {<<>>, <<0, 1>>, <<1, 2>>}, o \in {0, 1, 3}}

Asking(kinds, functions, filters, points_) ==
  [kind : kinds, delta : BOOLEAN, function : functions, filter : filters, points : points_]

MCAggregation ==
  Asking({"gauge", "sum"}, {"sum", "mean", "min", "max", "median", "count"}, {{"nil"}, {}, {"a"}},
         Upto(NumberPoints, 2))
  \cup Asking({"gauge"}, {"sum", "median", "max"}, {{}}, [1 .. 3 -> OfOneLabel])
  \cup Asking({"histogram"}, {"sum"}, {{"nil"}, {"a"}}, Upto(Histograms, 2))
  \cup Asking({"exponential"}, {"sum"}, {{"nil"}}, Upto(Exponentials, 3))

-----------------------------------------------------------------------------
\* Attribute actions: any two, valid or not, and any three valid ones with a
\* delete or a hash between two others
NoAction == [action |-> "", key |-> "", value |-> "", fromAttribute |-> "", fromContext |-> "",
             pattern |-> "", matches |-> {}, convertedType |-> "", groups |-> {}]

SetActions ==
  {[NoAction EXCEPT !.action = a, !.key = k, !.fromAttribute = f] :
     a \in Sets, k \in {"x", "y"}, f \in {"x", "y"}}
  \cup {[NoAction EXCEPT !.action = a, !.key = "x", !.fromContext = f, !.value = v] :
     a \in Sets, f \in {"", "c", "d"}, v \in {"", "v"}}
HideActions ==
  {[NoAction EXCEPT !.action = a, !.key = k, !.pattern = p[1], !.matches = p[2]] :
     a \in Hides, k \in {"", "x"}, p \in {<<"", {}>>, <<"broken", {}>>} \cup ({"good"} \X SUBSET {"x", "y"})}
ExtractActions ==
  {[NoAction EXCEPT !.action = "extract", !.key = k, !.pattern = p, !.groups = g] :
     k \in {"x", "y"}, p \in {"", "good"}, g \in {{}, {""}, {"y"}, {"x", "z"}}}
ConvertActions ==
  {[NoAction EXCEPT !.action = "convert", !.key = k, !.convertedType = t] :
     k \in {"", "x"}, t \in {"", "string", "int", "bool"}}
AnyAction == SetActions \cup HideActions \cup ExtractActions \cup ConvertActions
GoodAction == {a \in AnyAction : Valid(a)}

Original(k) == [Given(k) EXCEPT !.number = TRUE]
Flag(k) == [Given(k) EXCEPT !.type = "bool"]
Map(k) == [Given(k) EXCEPT !.type = "map"]

MCProcessing ==
  [actions : UNION {[1 .. n -> AnyAction] : n \in 1 .. 2}, context : {{"c"}},
   attrs : {[x |-> Original("x"), y |-> Flag("y")], [x |-> Map("x")]}]
  \cup [actions : {<<a, b, c>> : a \in GoodAction, b \in GoodAction \cap HideActions, c \in GoodAction},
        context : {{"c"}}, attrs : {[x |-> Original("x"), y |-> Given("y")]}]

-----------------------------------------------------------------------------
\* Paths and command lines, and the entries of the include list
Word(n, e) == [name |-> n, ext |-> e]
Says(f, w) == [form |-> f, words |-> w]

MCText ==
  "/bin/app" :> Says("unix", <<Word("app", "")>>) @@
  "/bin/app x" :> Says("unix", <<Word("app", ""), Word("x", "")>>) @@
  "/my app" :> Says("unix", <<Word("my", ""), Word("app", "")>>) @@
  "/my app x" :> Says("unix", <<Word("my", ""), Word("app", ""), Word("x", "")>>) @@
  "bin/app" :> Says("relative", <<Word("app", "")>>) @@
  "app" :> Says("name", <<Word("app", "")>>) @@
  "app x" :> Says("name", <<Word("app", ""), Word("x", "")>>) @@
  "my app.exe" :> Says("windows", <<Word("my", ""), Word("app", ".exe")>>) @@
  "my app.exe x" :> Says("windows", <<Word("my", ""), Word("app", ".exe"), Word("x", "")>>) @@
  "run.cmd" :> Says("windows", <<Word("run", ".cmd")>>) @@
  "run.cmd x.exe" :> Says("windows", <<Word("run", ".cmd"), Word("x", ".exe")>>)

MCIncludeList == {MCText[t] : t \in {"/bin/app", "/my app", "bin/app", "app", "my app.exe"}}

\* What the host metrics scrapers report of each entity, on two hosts and
\* without a host name; two processes that are run in many ways; services; others
Reported(of, x, attributes) == [of |-> of, executable |-> x, attrs |-> attributes]

OnHosts(of, S) ==
  {Reported(of \o <<h>>, NoPath, a @@ IF h = "" THEN <<>> ELSE "host.name" :> h) :
     a \in S, h \in {"h1", "h2", ""}}

HostMetrics ==
  UNION {OnHosts(<<"cpu", c>>, {"cpu" :> c, "cpu" :> c @@ "state" :> "user"}) : c \in {"cpu0", "cpu1"}}
  \cup OnHosts(<<"disk", "sda">>, {"device" :> "sda", "device" :> "sda" @@ "direction" :> "read"})
  \cup OnHosts(<<"interface", "eth0">>, {"device" :> "eth0" @@ "direction" :> "transmit",
                                         "device" :> "eth0" @@ "protocol" :> "tcp"})
  \cup OnHosts(<<"connections", "">>, {"protocol" :> "tcp" @@ "state" :> "LISTEN"})
  \cup UNION {OnHosts(<<"mounted", m>>,
                      {"device" :> "sda" @@ "mountpoint" :> m @@ "type" :> "ext4" @@ "state" :> s :
                         s \in {"used", "reserved"}}) : m \in {"/", "/home"}}
  \cup OnHosts(<<"unmounted", "sdb">>,
               {"device" :> "sdb" @@ "mountpoint" :> "" @@ "type" :> "ext4" @@ "state" :> "free",
                "device" :> "sdb" @@ "type" :> "ext4" @@ "state" :> "free"})
  \cup OnHosts(<<"memory", "">>, {"state" :> s : s \in {"used", "slab_reclaimable"}})
  \cup OnHosts(<<"paging", "">>, {"direction" :> "page_in" @@ "type" :> "major", "type" :> "minor"})
  \cup UNION {OnHosts(<<"swap", d>>, {"device" :> d @@ "state" :> "used"}) : d \in {"sdc", "sdd"}}
  \cup OnHosts(<<"processes", "">>, {"status" :> s : s \in {"running", "zombies"}})
  \cup {r \in OnHosts(<<"system", "">>, {<<>>}) : r.attrs # <<>>}

Processes ==
  {Reported(<<"process", pid, h>>, MCText[c[1]],
            "process.pid" :> pid @@ "process.command" :> c[2] @@ "host.name" :> h
              @@ IF c[3] = "" THEN <<>> ELSE "process.executable.path" :> c[3]) :
     pid \in {"1", "2"}, h \in {"h1", "h2"},
     c \in {<<"/bin/app", "/bin/app x", "">>, <<"/bin/app", "app x", "/bin/app">>,
            <<"my app.exe", "my app.exe x", "">>, <<"run.cmd", "run.cmd", "">>,
            <<"run.cmd", "run.cmd x.exe", "">>, <<"/my app", "/my app x", "">>,
            <<"/my app", "/my app x", "/my app">>}}

Services ==
  {Reported(<<"instance", i, "">>, NoPath, "service.instance.id" :> i @@ "service.name" :> "s") :
     i \in {"i1", "i2"}}
  \cup {Reported(<<"service", n, m>>, NoPath, "service.name" :> n @@ "service.namespace" :> m) :
           n \in {"s", "t"}, m \in {"", "m"}}
  \cup {Reported(<<"service", "s", "">>, NoPath, "service.name" :> "s")}
  \cup {Reported(<<"service on", n, h>>, NoPath, "service.name" :> n @@ "host.name" :> h) :
           n \in {"s", "t"}, h \in {"h1", "h2"}}

Others ==
  {Reported(<<"other", a, "">>, NoPath, a) :
     a \in {"k8s.namespace.name" :> n @@ "k8s.pod.name" :> p : n \in {"n1", "n2"}, p \in {"p1", "p2"}}
           \cup {<<>>}}

MCReport == HostMetrics \cup Processes \cup Services \cup Others
MCKeyOrder == <<"k8s.namespace.name", "k8s.pod.name", "service.name">>

-----------------------------------------------------------------------------
\* Resources of two metrics of one or two points
MetricPoints == Upto([type : {"int", "double"}, value : {1, 2}], 2)

MCResources ==
  {<<[name |-> a, type |-> t, points |-> p], [name |-> b, type |-> "sum", points |-> q]>> :
     a \in {"cpu", "mem"}, b \in {"mem", "io"}, t \in {"gauge", "histogram"},
     p \in MetricPoints, q \in MetricPoints}

=============================================================================
