-------------------------------- MODULE LogRows --------------------------------
(***************************************************************************)
(* The log panels of the node engine (http/panels-logs.ts): what each      *)
(* makes of the rows its queries got.                                      *)
(*                                                                         *)
(* One behaviour is one page: the lines of its window are there, its       *)
(* panels are built one after the other, each by its queries, which end    *)
(* with rows or fail, and by its builder.  runLogQueries itself, with its  *)
(* cache and its connections, is LogPanels.                                *)
(*                                                                         *)
(* A warning says what it is about: "missing" for no log group, a query    *)
(* that failed, <<"cut", id>> for an answer cut at its limit.              *)
(***************************************************************************)
EXTENDS LogQueries, Series, SequencesExt

CONSTANTS
  LogSets,      (* the lines a window may find: sets of lines of one source *)
  Windows,      (* the windows of requests                                   *)
  Configs,      (* the settings a request may find                           *)
  MaxFailures   (* bound: how many queries of a panel fail                   *)

\* Limits are numbers, and windows those that resolveWindow makes.  A line of the
\* pods is of a form, and one of gin's has what its pattern reads.
ASSUME LogRowsAssumption ==
  /\ MaxRows \in Nat
  /\ \A c \in Configs : /\ {"wafHeaders", "logRows", "topN", "logFormat"} \subseteq DOMAIN c
                        /\ c.wafHeaders \in Seq(STRING) /\ c.logRows \in Nat /\ c.topN \in Nat
  /\ \A x \in Windows : /\ x.end \in Nat /\ x.range \in Nat /\ x.period \in Nat
                        /\ x \in newWindow(x.end, x.range, x.period)
  /\ \A lines \in LogSets : IsFiniteSet(lines) /\ \A rec \in lines : rec.at \in Nat
  /\ \A lines \in LogSets : \A rec \in lines : "word" \in DOMAIN rec =>
       /\ rec.form \in {"json", "gin", "plain"}
       /\ rec.form = "gin" => {"status", "latency", "method", "path", "clientIp"} \subseteq DOMAIN rec.says

VARIABLES
  cfg,       (* the settings of the request, with its namespace              *)
  w,         (* its window                                                   *)
  logs,      (* the lines of the log group                                   *)
  page,      (* the panels still to build                                    *)
  results,   (* the rows of the queries that ended, by their id and header   *)
  errors,    (* the queries that failed                                      *)
  panels     (* the panels built, {} for one whose builder threw             *)

rowsVars == <<cfg, w, logs, page, results, errors, panels>>

PodKinds == <<"pod-latency", "pod-status-codes", "pod-status-breakdown", "pod-errors">>
WafKinds == <<"waf-traffic", "waf-blocked", "waf-breakdown">>

\* The settings with the namespace of the request; "*" asks for all of them, and a
\* name that is none is refused.
requestConfig(stored, asked) ==
  LET With(ns) == [stored EXCEPT !.logFormat.namespace = ns]
  IN  CASE asked = {} -> {With(stored.namespace)}
        [] asked = {"*"} -> {With("")}
        [] (asked \ {"*"}) \cap Unquotable # {} -> {}
        [] OTHER -> {With(ns) : ns \in asked}

\* The log group of the pods follows from the cluster when it is not set.
podLogGroupOrDefault(c) ==
  IF c.podLogGroup # "" THEN c.podLogGroup
  ELSE IF c.clusterName = "" THEN "" ELSE "application"

kind == Head(page)

podLogs == podLogGroupOrDefault(cfg)
wafLogs == cfg.wafLogGroup

Group == IF kind \in Range(PodKinds) THEN podLogs ELSE wafLogs

\* The queries of a panel, each {} when it cannot be built.
actionFanout == 4

PanelQueries ==
  LET f == cfg.logFormat
      fetch == cfg.topN * actionFanout
  IN  CASE kind = "pod-latency"      -> <<podTraffic(f)>>
        [] kind = "pod-status-codes" -> <<podBadStatusSeries(f), podBadStatusList(f, cfg.logRows)>>
        [] kind = "pod-status-breakdown" ->
             IF "path" \in f.named THEN <<podBadStatusByPath(f)>> ELSE <<>>
        [] kind = "pod-errors"  -> <<podErrorSeries(f), podErrorList(f, cfg.logRows)>>
        [] kind = "waf-traffic" -> <<{wafActionSeries}, wafRecentList(cfg.logRows)>>
        [] kind = "waf-blocked" -> <<{wafBlocked(cfg.topN)}>>
        [] kind = "waf-breakdown" ->
             <<{wafByMethod}, {wafByPath(fetch)}>> \o
             [i \in DOMAIN cfg.wafHeaders |-> wafByHeader(cfg.wafHeaders[i], fetch)]

KeyOf(q) == <<q.id, q.header>>

\* A header that cannot be asked for costs its own rows only; any other query that
\* cannot be built costs the panel.
Queries == UNION Range(PanelQueries)

Throws == \E i \in DOMAIN PanelQueries : PanelQueries[i] = {} /\ kind # "waf-breakdown"

Rows(id) == IF id \in DOMAIN results THEN results[id].rows ELSE {}

-----------------------------------------------------------------------------
(* What the builders share.                                                  *)

\* Failed queries warn; without a group there is one warning for all of them.
noteQueryErrors(p) ==
  IF Group = "" /\ Queries # {} THEN warn(p, <<"missing">>)
  ELSE [p EXCEPT !.warnings = @ \o SetToSeq({<<"failed", id>> : id \in errors})]

\* Mutant: a cut answer is shown as if it were whole.
CutIsSilent(p, id) == p

warnIfTruncated(p, id) ==
  IF id \in DOMAIN results /\ results[id].truncated THEN warn(p, <<"cut", id>>) ELSE p

\* A total is never less than the rows beside it.
honestTotal(total, rows) == IF total < rows THEN rows ELSE total

SumOf(rows, of) == MapThenSumSet(LAMBDA r : r[of], rows)

\* The rows of a chart that fall in a bucket.  The row of the window's end does not.
Charted(rows) == {r \in rows : contains(w, The(r.by["t"]))}

\* A percentile may be missing, a count is not.
PointOf(r, of) == IF of \in {"p50", "p90", "p99"} THEN r[of] ELSE {r[of]}

Line(rows, label, color, of) ==
  FoldSet(LAMBDA r, s : IF PointOf(r, of) = {} THEN s
                        ELSE AddAt(s, The(indexOf(w, The(r.by["t"]))), The(PointOf(r, of))),
          newSeries(label, color, buckets(w)), rows)

\* The most of a field first; of as many, any.
Descending(rows, of) ==
  CHOOSE s \in SetToSeqs(rows) : \A i, j \in DOMAIN s : i < j => s[i][of] >= s[j][of]

Newest(rows) == Descending(rows, "at")

statusColor(code) ==
  CASE code # {} /\ The(code) \in 500..599 -> "red"
    [] code # {} /\ The(code) \in 400..499 -> "orange"
    [] code # {} /\ The(code) \in 300..399 -> "yellow"
    [] OTHER -> "gray"

wafActionColor(action) ==
  CASE action = {"ALLOW"} -> "green" [] action = {"BLOCK"} -> "pink"
    [] action = {"COUNT"} -> "gray" [] action = {"CHALLENGE"} -> "orange"
    [] action = {"CAPTCHA"} -> "purple" [] OTHER -> "yellow"

\* A line for each value of a name, in the order of the values.
Lines(rows, name) ==
  LET values == SetToSeq({r.by[name] : r \in rows})
      Color(v) == IF name = "status" THEN statusColor(v) ELSE wafActionColor(v)
  IN  [i \in DOMAIN values |->
         Line({r \in rows : r.by[name] = values[i]}, values[i], Color(values[i]), "n")]

wafResponseNote(action, sent) ==
  IF sent # "" THEN sent
  ELSE CASE action = "BLOCK" -> "403" [] action \in {"CAPTCHA", "CHALLENGE"} -> "challenged"
         [] OTHER -> "see the pods"

-----------------------------------------------------------------------------
(* The builders of the panels of the pods.                                   *)

\* Four lines for each application; requests and samples are two populations.
buildPodLatencyPanel ==
  LET rows == Charted(Rows(<<"pod.traffic", "">>))
      apps == SetToSeq({r.by["app"] : r \in rows})
      Of(app) == {r \in rows : r.by["app"] = app}
      Four(app) == <<Line(Of(app), app, "teal", "p50"), Line(Of(app), app, "blue", "p90"),
                     Line(Of(app), app, "indigo", "p99"), Line(Of(app), app, "gray", "requests")>>
      slowest == UNION {r.p99 : r \in rows}
      p == noteQueryErrors(newPanel(kind))
  IN  IF DOMAIN results = {} THEN p
      ELSE [p EXCEPT !.series = FlattenSeq([i \in DOMAIN apps |-> Four(apps[i])]),
                     !.stats = [k \in {"p99.max", "requests.total", "latencySamples.total"} |->
                        CASE k = "p99.max" -> IF slowest = {} THEN {} ELSE {Max(slowest)}
                          [] k = "requests.total" -> {SumOf(rows, "requests")}
                          [] k = "latencySamples.total" -> {SumOf(rows, "latencySamples")}]]

\* Mutant: the headline counts the list, which stops at its limit.
StatusCodesOfList ==
  LET list == Newest(Rows(<<"pod.badStatus.list", "">>))
      p == warnIfTruncated(noteQueryErrors(newPanel(kind)), <<"pod.badStatus.series", "">>)
  IN  [p EXCEPT !.table = <<newTable(list, Len(list), cfg.logRows)>>,
                !.stats = [k \in {"badStatus.total"} |-> {Len(list)}]]

\* The headline sums the chart's rows; the list beside it stops at its limit.
buildPodStatusCodePanel ==
  LET rows == Charted(Rows(<<"pod.badStatus.series", "">>))
      list == Newest(Rows(<<"pod.badStatus.list", "">>))
      total == SumOf(rows, "n")
      p == warnIfTruncated(noteQueryErrors(newPanel(kind)), <<"pod.badStatus.series", "">>)
  IN  [p EXCEPT !.series = Lines(rows, "status"),
                !.table = <<newTable(list, honestTotal(total, Len(list)), cfg.logRows)>>,
                !.stats = [k \in {"badStatus.total"} |-> {total}]]

\* A bucket for each code with its paths, the busiest first.  A row without a path
\* counts for its code, and is not listed.
StatusBuckets(rows) ==
  LET codes == {r.by["status"] : r \in rows}
      Of(code) == {r \in rows : r.by["status"] = code}
      Bucket(code) == [code |-> code, total |-> SumOf(Of(code), "n"),
                       lastTs |-> Max({r.lastTs : r \in Of(code)}),
                       paths |-> Descending({r \in Of(code) : r.by["path"] # {}}, "n")]
  IN  {Bucket(code) : code \in codes}

\* The busiest code first.
pivotStatusPaths(rows) ==
  SetToSortSeq(StatusBuckets(rows),
               LAMBDA a, b : a.total > b.total \/ (a.total = b.total /\ The(a.code) < The(b.code)))

\* The first paths of a code, and how many are left out.
topPathsNote(b, topN) ==
  LET shown == IF topN > 0 /\ Len(b.paths) > topN THEN SubSeq(b.paths, 1, topN) ELSE b.paths
  IN  [parts |-> [i \in DOMAIN shown |-> <<shown[i].by["path"], shown[i].n>>],
       rest |-> Len(b.paths) - Len(shown)]

\* Without a path field there is nothing to ask: the panel says so.
buildPodStatusBreakdownPanel ==
  LET byPath == Rows(<<"pod.badStatus.byPath", "">>)
      made == pivotStatusPaths(byPath)
      rows == [i \in DOMAIN made |->
                 [status |-> made[i].code, count |-> made[i].total, paths |-> Len(made[i].paths),
                  timestamp |-> made[i].lastTs, topPaths |-> topPathsNote(made[i], cfg.topN)]]
      p == warnIfTruncated(noteQueryErrors(newPanel(kind)), <<"pod.badStatus.byPath", "">>)
  IN  IF "path" \notin cfg.logFormat.named THEN warn(newPanel(kind), <<"no path field">>)
      ELSE [p EXCEPT !.table = <<newTable(rows, Len(rows), cfg.topN)>>,
                     !.bars = <<"status", "count">>,
                     !.stats = [k \in {"badStatus.codes", "badStatus.byPath.total"} |->
                        IF k = "badStatus.codes" THEN {Len(rows)}
                        ELSE {SumOf(StatusBuckets(byPath), "total")}]]

\* Whatever is not a warning is an error.
buildPodErrorPanel ==
  LET rows == Charted(Rows(<<"pod.errors.series", "">>))
      warns == {r \in rows : r.by["level"] = {"warn"}}
      list == Newest(Rows(<<"pod.errors.list", "">>))
  IN  [noteQueryErrors(newPanel(kind)) EXCEPT
         !.series = <<Line(rows \ warns, {"error"}, "red", "n"), Line(warns, {"warn"}, "orange", "n")>>,
         !.table = <<newTable(list, honestTotal(SumOf(rows, "n"), Len(list)), cfg.logRows)>>,
         !.stats = [k \in {"error.total", "warn.total"} |->
            IF k = "error.total" THEN {SumOf(rows \ warns, "n")} ELSE {SumOf(warns, "n")}]]

-----------------------------------------------------------------------------
(* The builders of the panels of the WAF.                                    *)

\* A number for each action, and the newest requests with what was answered.
buildWAFTrafficPanel ==
  LET rows == Charted(Rows(<<"waf.action.series", "">>))
      recent == Newest(Rows(<<"waf.recent.list", "">>))
      list == [i \in DOMAIN recent |->
                 [request |-> recent[i], responseCode |-> wafResponseNote(recent[i].action, recent[i].sent)]]
  IN  [noteQueryErrors(newPanel(kind)) EXCEPT
         !.series = Lines(rows, "action"),
         !.table = <<newTable(list, honestTotal(SumOf(rows, "n"), Len(list)), cfg.logRows)>>,
         !.stats = [action \in {The(r.by["action"]) : r \in rows} |->
            {SumOf({r \in rows : r.by["action"] = {action}}, "n")}]]

buildWAFBlockedPanel ==
  LET rows == Descending(Rows(<<"waf.blocked", "">>), "n")
      total == SumOf(Rows(<<"waf.blocked", "">>), "n")
  IN  [noteQueryErrors(newPanel(kind)) EXCEPT
         !.table = <<newTable(rows, honestTotal(total, Len(rows)), cfg.topN)>>,
         !.bars = <<"rule", "count">>]

\* What a breakdown tells apart: methods, paths with their arguments, or the
\* values of a header.
WafKey(dimension, r) ==
  CASE dimension = "method" -> <<The(r.by["method"])>>
    [] dimension = "path" -> IF r.by["args"] = {""} THEN <<The(r.by["uri"])>>
                             ELSE <<The(r.by["uri"]), The(r.by["args"])>>
    [] dimension = "value" -> <<The(r.by["value"])>>

\* Mutant: what is neither allowed nor blocked is left out of the columns.
PivotWithoutOther(rows, dimension) ==
  LET Key(r) == WafKey(dimension, r)
      Of(key) == {r \in rows : Key(r) = key}
      Count(key, action) == SumOf({r \in Of(key) : r.by["action"] = {action}}, "n")
      Bucket(key) ==
        [key |-> key, allow |-> Count(key, "ALLOW"), block |-> Count(key, "BLOCK"), other |-> 0,
         total |-> SumOf(Of(key), "n"), lastAction |-> {}]
  IN  Descending({Bucket(Key(r)) : r \in rows}, "total")

\* A bucket for each key, its counts by action, the busiest first.  Actions that
\* are neither ALLOW nor BLOCK are counted together.
pivotWAFActions(rows, dimension) ==
  LET Key(r) == WafKey(dimension, r)
      Of(key) == {r \in rows : Key(r) = key}
      Count(key, Is(_)) == SumOf({r \in Of(key) : Is(The(r.by["action"]))}, "n")
      Latest(key) == CHOOSE r \in Of(key) : \A o \in Of(key) : o.lastTs <= r.lastTs
      Bucket(key) ==
        [key |-> key, allow |-> Count(key, LAMBDA a : a = "ALLOW"),
         block |-> Count(key, LAMBDA a : a = "BLOCK"),
         other |-> Count(key, LAMBDA a : a \notin {"ALLOW", "BLOCK"}),
         total |-> SumOf(Of(key), "n"), lastAction |-> Latest(key).by["action"]]
      keys == {Key(r) : r \in rows} \ {<<"">>}
  IN  Descending({Bucket(key) : key \in keys}, "total")

\* Every breakdown is rows of one table, the first of each; the total says how
\* many keys the breakdowns told apart.  A header named twice has one breakdown.
Breakdowns ==
  LET headers == SetToSeq(Range(cfg.wafHeaders))
  IN  <<[dimension |-> <<"method">>, list |-> pivotWAFActions(Rows(<<"waf.byMethod", "">>), "method")],
        [dimension |-> <<"path">>, list |-> pivotWAFActions(Rows(<<"waf.byPath", "">>), "path")]>> \o
      [i \in DOMAIN headers |->
         [dimension |-> <<"header", headers[i]>>,
          list |-> pivotWAFActions(Rows(<<"waf.byHeader", headers[i]>>), "value")]]

\* The first rows of a breakdown, each with what it is of.
FirstRows(l) == [i \in 1..Min({Len(l.list), cfg.topN}) |-> [dimension |-> l.dimension, row |-> l.list[i]]]

buildWAFBreakdownPanel ==
  LET lists == Breakdowns
      rows == FlattenSeq([i \in DOMAIN lists |-> FirstRows(lists[i])])
      keysFound == MapThenSumSet(LAMBDA i : Len(lists[i].list), DOMAIN lists)
      refused == SelectSeq(cfg.wafHeaders, LAMBDA h : ~isQueryableHeader(h))
      p == noteQueryErrors([newPanel(kind) EXCEPT
                              !.warnings = [i \in DOMAIN refused |-> <<"header", refused[i]>>]])
  IN  [p EXCEPT !.table = <<newTable(rows, honestTotal(keysFound, Len(rows)), cfg.topN)>>,
                !.bars = <<"key", "count", "dimension">>,
                !.stats = [k \in {"requests.total"} |-> {SumOf(Range(lists[1].list), "total")}]]

-----------------------------------------------------------------------------
RowsInit ==
  /\ cfg \in UNION {requestConfig(c, asked) : c \in Configs, asked \in {{}, {"*"}}}
  /\ w \in Windows
  /\ logs \in LogSets
  /\ page \in {PodKinds, WafKinds}
  /\ page = PodKinds <=> \A rec \in logs : "word" \in DOMAIN rec
  /\ results = <<>>
  /\ errors = {}
  /\ panels = <<>>

Put(f, key, value) == [k \in DOMAIN f \cup {key} |-> IF k = key THEN value ELSE f[k]]

Waiting == {q \in Queries : KeyOf(q) \notin DOMAIN results \cup errors}

\* A query that the log group answers.
QueryAnswered ==
  /\ page # <<>> /\ Group # ""
  /\ ~Throws
  /\ Waiting # {}
  /\ LET q == CHOOSE x \in Waiting : TRUE
     IN  \E rows \in Answers(cfg.logFormat, w, q, logs) :
           results' = Put(results, KeyOf(q), [rows |-> rows, truncated |-> Truncated(q, rows),
                                              cut |-> rows # AllRows(cfg.logFormat, w, q, logs)])
  /\ UNCHANGED <<cfg, w, logs, page, errors, panels>>

QueryFailed ==
  /\ page # <<>> /\ Group # ""
  /\ ~Throws
  /\ Waiting # {}
  /\ Cardinality(errors) < MaxFailures
  /\ errors' = errors \cup {KeyOf(CHOOSE x \in Waiting : TRUE)}
  /\ UNCHANGED <<cfg, w, logs, page, results, panels>>

Panel == CASE kind = "pod-latency" -> buildPodLatencyPanel
           [] kind = "pod-status-codes" -> buildPodStatusCodePanel
           [] kind = "pod-status-breakdown" -> buildPodStatusBreakdownPanel
           [] kind = "pod-errors" -> buildPodErrorPanel
           [] kind = "waf-traffic" -> buildWAFTrafficPanel
           [] kind = "waf-blocked" -> buildWAFBlockedPanel
           [] kind = "waf-breakdown" -> buildWAFBreakdownPanel

\* The panel is built when all its queries ended; one that cannot be asked fails it.
Built ==
  /\ page # <<>>
  /\ Throws \/ Group = "" \/ Waiting = {}
  /\ panels' = Put(panels, kind,
                   IF Throws THEN {} ELSE {[panel |-> Panel, results |-> results, errors |-> errors]})
  /\ page' = Tail(page)
  /\ results' = <<>>
  /\ errors' = {}
  /\ UNCHANGED <<cfg, w, logs>>

RowsNext == QueryAnswered \/ QueryFailed \/ Built

RowsSpec == RowsInit /\ [][RowsNext]_rowsVars

-----------------------------------------------------------------------------
(* What the panels promise.                                                  *)

Of(k) == UNION {panels[i] : i \in DOMAIN panels \cap {k}}

\* The lines a panel is about, told from the lines themselves: a json line is read
\* where fluent-bit decoded it and the settings look, a gin line unless the preset is json.
Readable(rec, fact) ==
  \/ rec.form = "gin" /\ cfg.logFormat.preset # "json"
  \/ /\ rec.form = "json" /\ rec.decoded
     /\ cfg.logFormat.preset # "gin" /\ cfg.logFormat.processedField
     /\ fact \in cfg.logFormat.named

StatusOf(rec) == {rec.says[x] : x \in {y \in {"status"} \cap DOMAIN rec.says : Readable(rec, y)}}

Concerns(rec) ==
  /\ cfg.logFormat.namespace \in {"", rec.namespace}
  /\ "path" \in DOMAIN rec.says /\ Readable(rec, "path") =>
       requestPath(rec.says["path"]) \notin {<<p>> : p \in cfg.logFormat.excludePaths}

BadLines(until) ==
  {rec \in logs : rec.at \in w.start..until /\ Concerns(rec)
                  /\ StatusOf(rec) \ cfg.logFormat.okStatuses # {}}

\* A panel that warns of nothing counted every line it says it counts: bad answers
\* by code and by path are the same requests but for those of the very end of the
\* window, which falls in no bucket, and the WAF's actions are all its lines.
NumbersOrWarnings ==
  /\ \A x \in Of("pod-status-codes") : x.panel.warnings = <<>> =>
       x.panel.stats["badStatus.total"] = {Cardinality(BadLines(w.end - 1))}
  /\ \A x \in Of("pod-status-breakdown") : x.panel.warnings = <<>> =>
       x.panel.stats["badStatus.byPath.total"] = {Cardinality(BadLines(w.end))}
  /\ \A x \in Of("waf-traffic") : x.panel.warnings = <<>> =>
       \A action \in {rec.action : rec \in logs} :
         LET n == Cardinality({rec \in logs : rec.action = action /\ contains(w, rec.at)})
         IN  n > 0 => action \in DOMAIN x.panel.stats /\ x.panel.stats[action] = {n}

\* A list that stopped at its limit says so by its total, unless one of its queries
\* failed or was cut, which the panel warns of, or a line of the very end of the
\* window is in the list and not in the total.
CutListIsSaid ==
  \A k \in {"pod-status-codes", "pod-errors", "waf-traffic"} : \A x \in Of(k) :
    (\E id \in DOMAIN x.results : x.results[id].cut) =>
      \/ x.panel.table[1].truncated
      \/ x.panel.warnings # <<>>
      \/ \E rec \in logs : rec.at = w.end

\* What a line of the WAF is told apart by in a breakdown, <<"">> for nothing.
KeyOfLine(dimension, rec) ==
  CASE dimension = <<"method">> -> <<rec.method>>
    [] dimension = <<"path">> -> IF rec.args = "" THEN <<rec.uri>> ELSE <<rec.uri, rec.args>>
    [] dimension[1] = "header" -> <<Said(rec.headers, dimension[2], "")>>

IdOf(dimension) ==
  CASE dimension = <<"method">> -> <<"waf.byMethod", "">>
    [] dimension = <<"path">> -> <<"waf.byPath", "">>
    [] dimension[1] = "header" -> <<"waf.byHeader", dimension[2]>>

\* The columns of a breakdown of the WAF add up, are right unless Insights cut the
\* answer, and its last action is that of a latest line of the key.
WafColumnsAddUp ==
  \A x \in Of("waf-breakdown") : \A i \in DOMAIN x.panel.table[1].rows :
    LET shown == x.panel.table[1].rows[i]
        row == shown.row
        lines == {rec \in logs : rec.at \in w.start..w.end /\ KeyOfLine(shown.dimension, rec) = row.key}
        CountOf(action) == Cardinality({rec \in lines : rec.action = action})
    IN  /\ row.allow + row.block + row.other = row.total
        /\ ~x.results[IdOf(shown.dimension)].cut =>
             /\ row.total = Cardinality(lines)
             /\ row.allow = CountOf("ALLOW")
             /\ row.block = CountOf("BLOCK")
             /\ \E rec \in lines : /\ row.lastAction = {rec.action}
                                   /\ \A other \in lines : other.at <= rec.at

\* No query of a panel is refused by Insights for its names.
QueriesCompile == page # <<>> => \A q \in Queries : Compiles(q)

\* What the preview of the settings says of a line is what the panels do with it:
\* it is told apart as bad, as a level, as excluded by the same rules.  Of lines
\* both can read: a json line decoded by fluent-bit where the settings look for it,
\* no pattern of one's own that reads its text (under gin, that of a json line too)
\* or finds other words in it, a status that is a code, and not a latency without
\* a status.
BothRead(f, rec) ==
  /\ rec.form = "json" => rec.enveloped /\ rec.decoded /\ f.processedField
  /\ DOMAIN rec.says \cap f.textPattern[rec.form] # {} =>
       \/ rec.form = "json" /\ f.preset # "gin"
       \/ rec.form = "gin" /\ f.preset # "json"
  /\ rec.word \in f.levelPattern <=> rec.word \in TextWords
  /\ "status" \in DOMAIN rec.says => rec.says["status"] > 0
  /\ rec.form = "json" /\ "latency" \in DOMAIN rec.says \cap f.named =>
       "status" \in DOMAIN rec.says \cap f.named

PreviewAgrees ==
  LET f == cfg.logFormat
  IN  page = PodKinds => \A rec \in logs : BothRead(f, rec) =>
        \A preview \in handleLogFormatPreview(f, rec) :
          /\ preview.excluded = (PathOf(f, rec) \cap f.excludePaths # {})
          /\ preview.badStatus = (\E s \in AccessField(f, rec, "status") : notInStatuses(f, s))
          /\ LevelOf(f, rec) = {preview.parsed.level} \cap {"error", "warn"}
          /\ preview.parsed.latencyMs = Latency(f, rec)

\* A table whose rows were cut says that it is.
EveryCutTableIsTold ==
  \A k \in DOMAIN panels : \A x \in panels[k] : \A i \in DOMAIN x.panel.table :
    (x.panel.warnings = <<>> /\ \E id \in DOMAIN x.results : x.results[id].cut) =>
      x.panel.table[i].truncated \/ \E rec \in logs : rec.at = w.end
===============================================================================
