------------------------------ MODULE LogQueries ------------------------------
(***************************************************************************)
(* domain/query.ts of the node engine: the Logs Insights queries of the    *)
(* panels, and (external) what Insights answers to them.                   *)
(*                                                                         *)
(* A query is its id, its clauses in order and its limit (0 for none).     *)
(* A clause defines names and uses names; a filter has a condition, stats  *)
(* have the names they group by.  The text of clauses is left out, but     *)
(* not which names they define: Insights takes a name in `fields` for a    *)
(* definition and refuses a query that defines one twice.                  *)
(*                                                                         *)
(* A line of the pods is one of LogFormat.  A line of the WAF has the      *)
(* action, the rule, the client, the request and its headers, a function   *)
(* from names to values.  An operator that may throw yields a set, empty   *)
(* when it does.                                                           *)
(***************************************************************************)
EXTENDS LogFormat, FiniteSetsExt, TimeWindow

CONSTANTS
  Unquotable,   (* names with a mark that no field and no header may have *)
  MaxRows       (* insightsMaxRows, the most rows an answer has          *)

Clause == [op |-> "fields", defs |-> {}, uses |-> {}, by |-> {}, when |-> ""]

Fields(defs, uses) == [Clause EXCEPT !.defs = defs, !.uses = uses]
Filter(when, uses) == [Clause EXCEPT !.op = "filter", !.when = when, !.uses = uses]
Stats(defs, by, uses) == [Clause EXCEPT !.op = "stats", !.defs = defs, !.by = by, !.uses = uses]
Display(columns) == [Clause EXCEPT !.op = "display", !.uses = columns]
Sort(when) == [Clause EXCEPT !.op = "sort", !.when = when]

query(id, clauses, limit) == [id |-> id, clauses |-> clauses, limit |-> limit, header |-> ""]

\* What a record holds before any clause: names of its own, not definitions.
Recorded == {"@timestamp", "@message", "log", "kubernetes", "log_processed",
             "action", "terminatingRuleId", "terminatingRuleType", "responseCodeSent", "httpRequest"}

\* A field goes into the text of a query as it is: it must be a reference.
field(name) == IF name = "" \/ name \in Unquotable THEN {} ELSE {name}

isQueryableHeader(name) == name \notin Unquotable

headerParse(name, alias) == IF isQueryableHeader(name) THEN {Fields({alias}, {"@message"})} ELSE {}

namespace(f) == IF f.namespace = "" THEN <<>> ELSE <<Filter("namespace", {"kubernetes"})>>

\* A line without a path stays: a bare comparison would drop every line of text.
probes(f) == IF f.excludePaths = {} THEN <<>> ELSE <<Filter("probes", {"path"})>>

\* Mutant: the message is given its name again, which Insights refuses.
LevelFilterRenames(f) ==
  <<Fields({"lvl", "dashboardMessage"}, {"rawLevel", "log"}),
    Filter("level", {"lvl", "status", "dashboardMessage"}),
    Fields({"level"}, {"lvl", "status", "dashboardMessage"})>>

levelFilter(f) ==
  <<Fields({"lvl"}, {"rawLevel"}), Filter("level", {"lvl", "status", "dashboardMessage"}),
    Fields({"level"}, {"lvl", "status", "dashboardMessage"})>>

\* What a list defines itself, and the columns it shows.
accessFields(f) ==
  LET agent == IF f.userAgentField THEN {"userAgent"} ELSE {}
  IN  [fields |-> {"pod", "container", "namespace"} \cup agent,
       columns |-> {"@timestamp", "pod", "container", "namespace", "app", "method", "path",
                    "requestTarget", "status", "latencyMs", "clientIp"} \cup agent]

GinNames == {"ginStatus", "ginHours", "ginMinutes", "ginLatency", "ginLatencyUnit", "ginClientIp",
             "ginMethod", "ginTarget"}

\* What a query reads the message by, {} when a name in the settings is none for
\* a reference: those of the facts are, unless no query looks into decoded lines.
MessageName(f) ==
  {name \in field(f.messageField) : f.preset = "gin" \/ f.misnamed \cap f.named = {}}

\* One set of names for json and gin lines.  The field of the message is one of the
\* record, like those under log_processed, whatever the settings call it.
accessPreamble(f) ==
  LET gin == f.preset # "json"
      jsonLatency == IF f.preset # "gin" /\ "latency" \in f.named THEN {"jsonLatencyMs"} ELSE {}
      ginNumbers == IF gin THEN {"ginStatusNumber", "ginLatencyMs"} ELSE {}
      read == {"log_processed", "kubernetes"} \cup jsonLatency \cup ginNumbers \cup (IF gin THEN GinNames ELSE {})
  IN  {<<Fields({"dashboardMessage"}, {"@timestamp", "log", "@message"}),
              Fields(IF gin THEN GinNames ELSE {}, {"dashboardMessage"}),
              Fields(jsonLatency \cup ginNumbers, {"log_processed"} \cup (IF gin THEN GinNames ELSE {})),
              Fields({"app", "status", "latencyMs", "method", "requestTarget", "clientIp", "rawLevel"}, read),
              Fields({"requestPath"}, {"requestTarget"}),
              Fields({"path"}, {"requestPath", "requestTarget"})>> : msg \in MessageName(f)}

notInStatuses(f, status) == f.okStatuses = {} \/ status \notin f.okStatuses

BadStatus == Filter("bad", {"status"})

podTraffic(f) ==
  {query("pod.traffic", p \o namespace(f) \o probes(f) \o
     <<Filter("access", {"status", "latencyMs"}),
       Stats({"requests", "latencySamples", "p50", "p90", "p99"}, {"t", "app"},
             {"status", "latencyMs", "app", "@timestamp"}),
       Sort("t")>>, 0) : p \in accessPreamble(f)}

podBadStatusSeries(f) ==
  {query("pod.badStatus.series", p \o namespace(f) \o probes(f) \o
     <<BadStatus, Stats({"n"}, {"t", "status"}, {"status", "@timestamp"}), Sort("t")>>, 0) :
     p \in accessPreamble(f)}

\* Without buckets: a row for each code and path, the most frequent first.
podBadStatusByPath(f) ==
  {query("pod.badStatus.byPath", p \o namespace(f) \o probes(f) \o
     <<BadStatus, Stats({"n", "lastTs"}, {"status", "path"}, {"status", "path", "@timestamp"}),
       Sort("n")>>, 0) : p \in accessPreamble(f)}

\* Only the list asks for the browser, by a field of its own.
podBadStatusList(f, limit) ==
  {query("pod.badStatus.list", p \o <<Fields(accessFields(f).fields, {"kubernetes", "log_processed"})>>
     \o namespace(f) \o probes(f) \o
     <<BadStatus, Display(accessFields(f).columns), Sort("@timestamp")>>, limit) :
     p \in {named \in accessPreamble(f) : ~(f.userAgentField /\ "userAgent" \in f.misnamed)}}

podErrorSeries(f) ==
  {query("pod.errors.series", p \o namespace(f) \o probes(f) \o levelFilter(f) \o
     <<Stats({"n"}, {"t", "level"}, {"level", "@timestamp"}), Sort("t")>>, 0) : p \in accessPreamble(f)}

podErrorList(f, limit) ==
  {query("pod.errors.list", p \o <<Fields({"pod", "container"}, {"kubernetes"})>>
     \o namespace(f) \o probes(f) \o levelFilter(f) \o
     <<Display({"@timestamp", "dashboardMessage", "pod", "container"}), Sort("@timestamp")>>, limit) :
     p \in accessPreamble(f)}

defaultWAFHeaders == <<"Host", "User-Agent">>

wafActionSeries ==
  query("waf.action.series", <<Stats({"n"}, {"t", "action"}, {"action", "@timestamp"}), Sort("t")>>, 0)

\* Every breakdown groups by the action too, and takes its latest time.
breakdownStats(by) ==
  <<Stats({"n", "lastTs"} \cup (by \ {"action"}), by \cup {"action"},
          {"action", "@timestamp"} \cup (IF by = {"value"} THEN {"headerValue"} ELSE {"httpRequest"})),
    Sort("n")>>

wafByMethod == query("waf.byMethod", breakdownStats({"method"}), 0)

wafByPath(limit) == query("waf.byPath", breakdownStats({"uri", "args"}), limit)

wafBlocked(limit) ==
  query("waf.blocked",
        <<Filter("BLOCK", {"action"}),
          Stats({"n"}, {"rule", "clientIp", "country"}, {"terminatingRuleId", "httpRequest"}), Sort("n")>>,
        limit)

\* The parsed agent is renamed, not named again.
wafRecentList(limit) ==
  {query("waf.recent.list",
     <<ua, Fields({"rule", "ruleType", "responseCode", "userAgent", "clientIp", "country", "method",
                   "uri", "args"},
                  {"@timestamp", "action", "terminatingRuleId", "terminatingRuleType",
                   "responseCodeSent", "uaCapture", "httpRequest"}),
       Sort("@timestamp")>>, limit) : ua \in headerParse("User-Agent", "uaCapture")}

wafByHeader(name, limit) ==
  {[query("waf.byHeader", <<parse, Filter("header", {"headerValue"})>> \o breakdownStats({"value"}), limit)
      EXCEPT !.header = name] : parse \in headerParse(name, "headerValue")}

-----------------------------------------------------------------------------
(* What Insights answers (external).                                         *)

DefinedBefore(q, i) == UNION {q.clauses[j].defs : j \in 1..(i - 1)}

\* A query Insights takes: no name is defined twice, none is used that is unknown.
Compiles(q) ==
  \A i \in DOMAIN q.clauses :
    /\ q.clauses[i].defs \cap DefinedBefore(q, i) = {}
    /\ q.clauses[i].uses \subseteq Recorded \cup DefinedBefore(q, i)

Coalesce(a, b) == IF a # {} THEN a ELSE b

\* The field of a json line, where fluent-bit puts what it decoded.
JsonField(f, rec, fact) ==
  {rec.says[x] : x \in {fact} \cap DOMAIN rec.says \cap
     (IF f.preset # "gin" /\ f.processedField /\ rec.form = "json" /\ rec.decoded THEN f.named ELSE {})}

GinField(f, rec, fact) ==
  {rec.says[x] : x \in {fact} \cap DOMAIN rec.says \cap
     (IF f.preset # "json" /\ rec.form = "gin" THEN Facts ELSE {})}

AccessField(f, rec, fact) == Coalesce(JsonField(f, rec, fact), GinField(f, rec, fact))

Latency(f, rec) ==
  Coalesce({toMillis(f, v) : v \in JsonField(f, rec, "latency")}, GinField(f, rec, "latency"))

PathOf(f, rec) == {target[1] : target \in AccessField(f, rec, "path") \ {<<>>}}

\* The words the filter looks for in the level of a line, and in its text.
OwnWords == {"error", "err", "fatal", "panic", "warn", "warning"}
TextWords == {"error", "fatal", "panic", "warn", "warning", "oomkilled"}

\* A level of its own, else the word of a line that is not about a request.
LevelWord(f, rec) ==
  LET own == JsonField(f, rec, "level") \ {""}
  IN  IF own # {} THEN own \cap OwnWords
      ELSE IF AccessField(f, rec, "status") = {} THEN {rec.word} \cap TextWords ELSE {}

LevelOf(f, rec) ==
  {IF word \in warnLevels THEN "warn" ELSE "error" : word \in LevelWord(f, rec)}

Passes(f, q, rec, when) ==
  CASE when = "namespace" -> rec.namespace = f.namespace
    [] when = "probes"    -> PathOf(f, rec) \cap f.excludePaths = {}
    [] when = "access"    -> AccessField(f, rec, "status") \cup Latency(f, rec) # {}
    [] when = "bad"       -> \E s \in AccessField(f, rec, "status") : notInStatuses(f, s)
    [] when = "level"     -> LevelOf(f, rec) # {}
    [] when = "BLOCK"     -> rec.action = "BLOCK"
    [] when = "header"    -> q.header \in DOMAIN rec.headers

\* The lines of a query: those of its window, the end of which Insights counts in.
Kept(f, w, q, logs) ==
  {rec \in logs :
     /\ rec.at \in w.start..w.end
     /\ \A i \in DOMAIN q.clauses : q.clauses[i].op = "filter" => Passes(f, q, rec, q.clauses[i].when)}

GroupValue(f, w, q, rec, name) ==
  CASE name = "t"      -> {align(w, rec.at)}
    [] name = "app"    -> Coalesce(AccessField(f, rec, "app"), {rec.container})
    [] name = "status" -> AccessField(f, rec, "status")
    [] name = "path"   -> PathOf(f, rec)
    [] name = "level"  -> LevelOf(f, rec)
    [] name = "value"  -> {rec.headers[q.header]}
    [] name = "action" -> {rec.action}
    [] name = "method" -> {rec.method}
    [] name = "uri"    -> {rec.uri}
    [] name = "args"   -> {rec.args}
    [] name = "rule"   -> {rec.rule}
    [] name = "clientIp" -> {rec.clientIp}
    [] name = "country" -> {rec.country}

\* The rows of a query: its lines, or a row for each group with what is counted of
\* it.  Percentiles of so few lines are the least and the greatest.
AllRows(f, w, q, logs) ==
  LET kept == Kept(f, w, q, logs)
      by == UNION {q.clauses[i].by : i \in DOMAIN q.clauses}
      group == [rec \in kept |-> [name \in by |-> GroupValue(f, w, q, rec, name)]]
      counted == \E i \in DOMAIN q.clauses : q.clauses[i].op = "stats"
      Row(g) == LET in == {rec \in kept : group[rec] = g}
                    times == UNION {Latency(f, rec) : rec \in in \cap {r \in in : q.id = "pod.traffic"}}
                IN  [by |-> g, n |-> Cardinality(in), lastTs |-> Max({rec.at : rec \in in}),
                     requests |-> IF q.id # "pod.traffic" THEN 0
                                  ELSE Cardinality({rec \in in : AccessField(f, rec, "status") # {}}),
                     latencySamples |-> IF q.id # "pod.traffic" THEN 0
                                        ELSE Cardinality({rec \in in : Latency(f, rec) # {}}),
                     p50 |-> IF times = {} THEN {} ELSE {Min(times)},
                     p90 |-> IF times = {} THEN {} ELSE {Max(times)},
                     p99 |-> IF times = {} THEN {} ELSE {Max(times)}]
  IN  IF counted THEN {Row(group[rec]) : rec \in kept} ELSE kept

\* A level and an action have so few values that, with at most maxBuckets buckets,
\* their charts stay far below insightsMaxRows (10000): they are never cut.
Bounded(q) == q.id \in {"pod.errors.series", "waf.action.series"}

Cap(q) == IF q.limit <= 0 \/ q.limit > MaxRows THEN MaxRows ELSE q.limit

The(s) == CHOOSE v \in s : TRUE

\* Whether the sort of a query puts row a before row b.
Sooner(q, a, b) ==
  LET sort == The({q.clauses[i].when : i \in {j \in DOMAIN q.clauses : q.clauses[j].op = "sort"}})
  IN  CASE sort = "t" -> The(a.by["t"]) < The(b.by["t"])
        [] sort = "n" -> a.n > b.n
        [] sort = "@timestamp" -> a.at > b.at

\* The answers a query may get: its first rows, in its order, up to the cap.
Answers(f, w, q, logs) ==
  LET all == AllRows(f, w, q, logs)
  IN  IF Bounded(q) \/ Cardinality(all) <= Cap(q) THEN {all}
      ELSE {first \in kSubset(Cap(q), all) : \A a \in first, b \in all \ first : ~Sooner(q, b, a)}

\* An answer that reached its limit is taken for a cut one.
Truncated(q, rows) == Cardinality(rows) >= Cap(q) /\ ~Bounded(q)
===============================================================================
