----------------------------- MODULE MetricPanels -----------------------------
(***************************************************************************)
(* The metric panels of the node engine (http/panels-metrics.ts): what     *)
(* each asks of CloudWatch, and the lines and numbers it makes of what     *)
(* came back.                                                              *)
(*                                                                         *)
(* One behaviour is one panel of one request: the window, the settings and *)
(* the connection are taken once, the metrics are fetched (MetricFetch),   *)
(* and the panel is built.  A label of CloudWatch is a number, 0 for none; *)
(* a line of a panel is labelled with its spec, its set and that label.    *)
(* Numbers of a panel are under their key in stats, as is what the basis   *)
(* of a number counts; a rate is in whole percent.                         *)
(***************************************************************************)
EXTENDS MetricFetch

CONSTANTS
  Windows,   (* the windows requests come with                             *)
  Configs,   (* the settings they may find                                 *)
  Conns,     (* the connections: region and wafRegion of their clients     *)
  Scalings   (* what node scaling may answer: {} when it fails             *)

\* A request has the window that resolveWindow made for it.
ASSUME MetricPanelsAssumption ==
  \A x \in Windows : /\ x.end \in Nat /\ x.period \in Nat
                     /\ x \in newWindow(x.end, x.range, x.period)

VARIABLES
  kind, cfg, conn,   (* the panel asked for, and what its request took      *)
  scaling            (* what node scaling answered                         *)

panelVars == <<fetchVars, kind, cfg, conn, scaling>>

Kinds == {"targetgroup", "pod-cpu", "node-mem", "counts", "pod-status", "rds-proxy", "waf-metrics"}

The(p) == CHOOSE v \in p : TRUE

AtMost(p, q) == p # {} /\ q # {} /\ The(p) <= The(q)

\* The busiest line first, lines without a number last, ties by label.
toSeriesList(list, labels, colors, dash) ==
  LET made == [i \in DOMAIN list |-> [toSeries(list[i], labels[i], colors[i]) EXCEPT !.dash = dash]]
      max == [i \in DOMAIN list |-> SeriesMax(made[i])]
      Busier(i, j) == max[i] # {} /\ ~AtMost(max[i], max[j])
      Before(i, j) == \/ Busier(i, j)
                      \/ /\ ~Busier(j, i)
                         /\ \/ list[i].label < list[j].label
                            \/ list[i].label = list[j].label /\ i < j
  IN  [k \in DOMAIN list |->
         made[CHOOSE i \in DOMAIN list : Cardinality({j \in DOMAIN list : Before(j, i)}) = k - 1]]

\* The reductions of several lines into one number; lines without one are skipped.
reduceAcross(points, pick) ==
  LET known == {i \in DOMAIN points : points[i] # {}}
      number == [i \in known |-> The(points[i])]
  IN  IF known = {} THEN {}
      ELSE IF pick = "max" THEN {Max({number[i] : i \in known})} ELSE {SumFunction(number)}

MaxOfEach(list) == [i \in DOMAIN list |-> SeriesMax(list[i])]
SumOfEach(list) == [i \in DOMAIN list |-> SeriesSum(list[i])]
LastOfEach(list) == [i \in DOMAIN list |-> SeriesLast(list[i])]

\* The sets of a chart with several are named in its legend; the label of
\* CloudWatch is added where a set matched more than one series.
setSeriesLabel(sets, fs, spec, n, m) ==
  <<spec.key, IF Len(sets) > 1 THEN fs.label ELSE <<>>, IF n > 1 THEN m.label ELSE 0>>

sumSeries(list, label, color) ==
  LET with(i) == {k \in DOMAIN list : i \in DOMAIN list[k].values}
  IN  [newSeries(label, color, buckets(w)) EXCEPT
         !.values = [i \in UNION {DOMAIN list[k].values : k \in DOMAIN list} |->
                       SumFunction([k \in with(i) |-> list[k].values[i]])]]

ResultKey(spec, fs) == spec.key \o <<"|">> \o fs.id

\* One request for each spec and set, their keys kept apart.
metricRequests(specs, sets) ==
  FlattenSeq([i \in DOMAIN specs |-> [j \in DOMAIN sets |->
    [key |-> ResultKey(specs[i], sets[j]), spec |-> specs[i], filters |-> sets[j].filters]]])

FilterSet(id, label, filters) == [id |-> id, label |-> label, filters |-> filters]

\* targetgroup/k8s-default-product-abc/def: what is between the slashes.
lastSegmentName(dimension) ==
  LET slashes == {i \in DOMAIN dimension : dimension[i] = "/"}
      from == Min(slashes)
  IN  IF slashes = {} THEN dimension
      ELSE SubSeq(dimension, from + 1, Min((slashes \ {from}) \cup {Len(dimension) + 1}) - 1)

\* Each target group is asked for whatever load balancer it hangs on; the load
\* balancer of the settings stands in when no group is chosen.
targetGroupFilterSets(c) ==
  LET groups == [i \in DOMAIN c.targetGroups |->
                   FilterSet(c.targetGroups[i],
                             friendlyTargetGroupName(lastSegmentName(c.targetGroups[i])),
                             [k \in {"TargetGroup"} |-> c.targetGroups[i]])]
  IN  IF groups = <<>> /\ c.loadBalancer # <<>>
      THEN <<FilterSet(c.loadBalancer, c.loadBalancer, [k \in {"LoadBalancer"} |-> c.loadBalancer])>>
      ELSE groups

ProxySets(c) == [i \in DOMAIN c.rdsProxies |->
  FilterSet(c.rdsProxies[i], c.rdsProxies[i], [k \in {"ProxyName"} |-> c.rdsProxies[i]])]

AclSets(c) == [i \in DOMAIN c.webAcls |->
  FilterSet(c.webAcls[i], c.webAcls[i],
            [k \in {"WebACL", "Rule"} |-> IF k = "Rule" THEN <<"ALL">> ELSE c.webAcls[i]])]

\* The set of a panel about the cluster, which needs one to be chosen.
ClusterSet(c, dims) ==
  IF c.clusterName = <<>> THEN <<>>
  ELSE <<FilterSet(<<"cluster">>, c.clusterName,
                   [k \in dims |-> IF k = "Namespace" THEN c.namespace ELSE c.clusterName])>>

\* The specs of each panel and the sets it asks them of.
SpecsOf(id) ==
  CASE id = "targetgroup" -> targetGroupMetrics
    [] id = "pod-cpu"     -> specsWithPrefix(podResourceMetrics, <<"pod", ".", "cpu">>)
    [] id = "node-mem"    -> specsWithPrefix(nodeResourceMetrics, <<"node", ".", "mem">>)
    [] id = "counts"      -> countMetrics
    [] id = "pod-status"  -> podStatusMetrics
    [] id = "rds-proxy"   -> rdsProxyMetrics
    [] id = "waf-metrics" -> wafMetrics

SetsOf(id, c) ==
  CASE id = "targetgroup" -> targetGroupFilterSets(c)
    [] id \in {"pod-cpu", "pod-status"} -> ClusterSet(c, {"ClusterName", "Namespace"})
    [] id \in {"node-mem", "counts"}    -> ClusterSet(c, {"ClusterName"})
    [] id = "rds-proxy"   -> ProxySets(c)
    [] id = "waf-metrics" -> AclSets(c)

Specs == SpecsOf(kind)
Sets == SetsOf(kind, cfg)

\* The lists of the settings are lists.
ASSUME ConfigsAssumption ==
  \A c \in Configs : \A list \in {c.targetGroups, c.rdsProxies, c.webAcls} :
    list \in Seq(ToSet(list))

\* The label CloudWatch gives a series carries the dimensions that tell it from the
\* others of its search; a panel knows them apart by nothing else.
ASSUME LabelsAssumption ==
  \A id \in Kinds, c \in Configs :
    \A spec \in ToSet(SpecsOf(id)), fs \in ToSet(SetsOf(id, c)) :
      \A e \in searchExpression(spec, fs.filters) :
        \A m, o \in {x \in Published : Matches(e, x)} :
          (m.region = o.region /\ m.label = o.label) => m = o

\* Where the panel asks: CloudFront's ACLs publish in a region of their own.
ApiRegion == IF kind = "waf-metrics" /\ conn.wafRegion # conn.region THEN conn.wafRegion ELSE conn.region

ListOf(spec, fs) == LET key == ResultKey(spec, fs) IN IF key \in DOMAIN out THEN out[key] ELSE <<>>

\* The lines of one spec in a panel that draws each target apart.
TargetLines(spec) ==
  FlattenSeq([j \in DOMAIN Sets |->
    LET list == sortSeries(ToSet(ListOf(spec, Sets[j])))
        labels == [i \in DOMAIN list |-> setSeriesLabel(Sets, Sets[j], spec, Len(list), list[i])]
    IN  toSeriesList(list, labels, [i \in DOMAIN list |-> spec.color], "solid")])

\* What the panels of targets have in common: a line of each spec for each target.
TargetPanel(stats) ==
  [newPanel(kind) EXCEPT !.series = FlattenSeq([i \in DOMAIN Specs |-> TargetLines(Specs[i])]),
                         !.stats = stats]

Of(name) == TargetLines(The({s \in ToSet(Specs) : s.key[3] = name}))

NoTarget(message) == warn(newPanel(kind), message)

buildTargetGroupPanel ==
  IF Sets = <<>> THEN NoTarget("no target group")
  ELSE TargetPanel(
         [k \in {<<"p99", "max">>, <<"4xx", "total">>, <<"5xx", "total">>, <<"requests", "total">>} |->
            IF k[2] = "max" THEN reduceAcross(MaxOfEach(Of(k[1])), "max")
            ELSE reduceAcross(SumOfEach(Of(k[1])), "add")])

buildRDSProxyPanel ==
  IF Sets = <<>> THEN NoTarget("no proxy")
  ELSE TargetPanel(
         [k \in {<<"db", "current">>, <<"db", "max">>, <<"client", "current">>, <<"pinned", "max">>,
                 <<"max", "max">>} |->
            IF k[2] = "current" THEN reduceAcross(LastOfEach(Of(k[1])), "add")
            ELSE reduceAcross(MaxOfEach(Of(k[1])), "max")])

\* The rate is given when both counts are known and anything was counted.
buildWAFMetricsPanel ==
  LET allowed == reduceAcross(SumOfEach(Of("allowed")), "add")
      blocked == reduceAcross(SumOfEach(Of("blocked")), "add")
      known == allowed # {} /\ blocked # {} /\ The(allowed) + The(blocked) > 0
      counts == {<<"allowed", "total">>, <<"blocked", "total">>}
      rate == IF known THEN {<<"blocked", "rate">>} ELSE {}
      stats == [k \in counts \cup rate |->
                  IF k[2] = "rate" THEN {(100 * The(blocked)) \div (The(allowed) + The(blocked))}
                  ELSE IF k[1] = "allowed" THEN allowed ELSE blocked]
  IN  IF Sets = <<>> THEN NoTarget("no ACL") ELSE warn(TargetPanel(stats), "logs may differ")

dropSilent(list) == {m \in ToSet(list) : DOMAIN m.points # {}}

\* Subjects are numbered by label over all the specs of the panel.
subjectIndex(live) ==
  LET labels == UNION {{live[i][j].label : j \in DOMAIN live[i]} : i \in DOMAIN live}
  IN  [i \in DOMAIN live |-> [l \in labels |-> Cardinality({k \in labels : k < l})]]

\* Lines of pods or nodes: the colour says the subject, the dash the metric, and
\* what CloudWatch only remembers is left out, and counted.
buildResourcePanel ==
  LET list == [i \in DOMAIN Specs |-> ListOf(Specs[i], Sets[1])]
      live == [i \in DOMAIN Specs |-> sortSeries(dropSilent(list[i]))]
      index == subjectIndex(live)
      lines == [i \in DOMAIN Specs |->
                  toSeriesList(live[i], [j \in DOMAIN live[i] |-> <<Specs[i].key, <<>>, live[i][j].label>>],
                               [j \in DOMAIN live[i] |-> subjectColor(index[i][live[i][j].label])],
                               variantDash(i - 1))]
      empty == \A i \in DOMAIN Specs : list[i] = <<>>
      made == [newPanel(kind) EXCEPT
        !.series = FlattenSeq(lines),
        !.stats = [k \in (DOMAIN Specs) \X {"max", "subjects", "gone"} |->
                     CASE k[2] = "max" -> reduceAcross(MaxOfEach(lines[k[1]]), "max")
                       [] k[2] = "subjects" -> {Len(lines[k[1]])}
                       [] k[2] = "gone" -> {Len(list[k[1]]) - Len(live[k[1]])}]]
  IN  IF Sets = <<>> THEN NoTarget("no cluster")
      ELSE IF empty THEN warn(made, "no Container Insights") ELSE made

\* The parts of a panel of one set, in the order of their size.
Parts(spec) ==
  LET list == ListOf(spec, Sets[1])
  IN  toSeriesList(list, [i \in DOMAIN list |-> <<spec.key, <<>>, list[i].label>>],
                   [i \in DOMAIN list |-> spec.color], "solid")

\* Pods are one line, the sum of the services; node scaling comes from EKS, and
\* its failure is a warning.
buildCountsPanel ==
  LET pods == sumSeries(Parts(Specs[1]), Specs[1].key, Specs[1].color)
      nodes == Parts(Specs[2])
      failed == Parts(Specs[3])
      bounds == IF scaling = {} THEN {} ELSE {<<"nodes", "min">>, <<"nodes", "max">>}
      stats == [k \in {"pods"} \X {"current", "min", "max"} \cup {"nodes"} \X {"current", "failed"} \cup bounds |->
                  CASE k = <<"pods", "current">>  -> SeriesLast(pods)
                    [] k = <<"pods", "min">>      -> SeriesMin(pods)
                    [] k = <<"pods", "max">>      -> SeriesMax(pods)
                    [] k = <<"nodes", "current">> -> reduceAcross(LastOfEach(nodes), "max")
                    [] k = <<"nodes", "failed">>  -> reduceAcross(MaxOfEach(failed), "max")
                    [] k = <<"nodes", "min">>     -> {The(scaling).min}
                    [] k = <<"nodes", "max">>     -> {The(scaling).max}]
      made == [newPanel(kind) EXCEPT !.series = <<pods>> \o nodes \o failed, !.stats = stats]
  IN  IF Sets = <<>> THEN NoTarget("no cluster")
      ELSE IF scaling = {} THEN warn(made, "no node scaling") ELSE made

\* Mutant: restarts are read as a state, not as a count.
RestartsByLast(spec, total) == SeriesLast(total)

\* Restarts are counted over the window; a state is what it was last.
StatusNumber(spec, total) ==
  IF spec.key[3] = "restarts" THEN SeriesSum(total) ELSE SeriesLast(total)

buildPodStatusPanel ==
  LET total == [i \in DOMAIN Specs |-> sumSeries(Parts(Specs[i]), Specs[i].key, Specs[i].color)]
      empty == \A i \in DOMAIN Specs : ListOf(Specs[i], Sets[1]) = <<>>
      made == [newPanel(kind) EXCEPT
        !.series = total,
        !.stats = [k \in {<<s.key[3], "now">> : s \in ToSet(Specs)} |->
                     LET i == CHOOSE j \in DOMAIN Specs : Specs[j].key[3] = k[1]
                     IN  StatusNumber(Specs[i], total[i])]]
  IN  IF Sets = <<>> THEN NoTarget("no cluster")
      ELSE warn(IF empty THEN warn(made, "no pod_status") ELSE made, "no OOM metric")

\* What the handler answers with once the fetch is over.
panel ==
  CASE kind = "targetgroup" -> buildTargetGroupPanel
    [] kind \in {"pod-cpu", "node-mem"} -> buildResourcePanel
    [] kind = "counts"      -> buildCountsPanel
    [] kind = "pod-status"  -> buildPodStatusPanel
    [] kind = "rds-proxy"   -> buildRDSProxyPanel
    [] kind = "waf-metrics" -> buildWAFMetricsPanel

PanelInit ==
  /\ kind \in Kinds
  /\ cfg \in Configs
  /\ conn \in Conns
  /\ FetchInit(Windows, metricRequests(Specs, Sets), {ApiRegion})
  /\ scaling = {}

Fetches == FetchNext /\ UNCHANGED <<kind, cfg, conn, scaling>>

\* The fetch is over, and the panel is made of it; node scaling is asked for then.
Build ==
  /\ pc = "done"
  /\ pc' = "built"
  /\ scaling' \in IF kind = "counts" /\ Sets # <<>> THEN Scalings ELSE {{}}
  /\ UNCHANGED <<w, reqs, region, first, page, given, out, kind, cfg, conn>>

PanelNext == Fetches \/ Build

\* Calls to AWS end, by their own deadline if need be.
PanelSpec == PanelInit /\ [][PanelNext]_panelVars /\ WF_panelVars(PanelNext)

-----------------------------------------------------------------------------
(* The reference: what the panel should say of what CloudWatch holds.       *)

\* The metrics a spec of the panel is about: of the chosen target or cluster, in
\* the region that publishes them.
About(spec, fs) ==
  {m \in Published :
     /\ m.metric = spec.key
     /\ DOMAIN m.dims = spec.dimensions
     /\ m.region = ApiRegion
     /\ \A k \in DOMAIN fs.filters : fs.filters[k] = <<>> \/ m.dims[k] = fs.filters[k]}

Stamps(m) == UNION {DOMAIN m.pieces[i] : i \in DOMAIN m.pieces}

\* The last sample of each bucket, found by indexOf as the log panels find theirs.
Samples(m) ==
  LET at == {t \in Stamps(m) : contains(w, t)}
      Latest(i) == Max({t \in at : indexOf(w, t) = {i}})
  IN  [i \in UNION {indexOf(w, t) : t \in at} |->
         LET j == Max({k \in DOMAIN m.pieces : Latest(i) \in DOMAIN m.pieces[k]}) IN m.pieces[j][Latest(i)]]

\* The lines a panel that draws each series should have.
Due == UNION {{<<spec, fs, m>> : m \in About(spec, fs)} : spec \in ToSet(Specs), fs \in ToSet(Sets)}

Shown == IF kind \in {"pod-cpu", "node-mem"} THEN {d \in Due : Stamps(d[3]) # {}} ELSE Due

Built == pc = "built"

TargetKinds == {"targetgroup", "rds-proxy", "waf-metrics"}

-----------------------------------------------------------------------------
(* Properties.                                                              *)

\* A metric and a log row of the same moment are drawn at the same place: a time
\* is in the window exactly when its bucket is on the axis, and then indexOf and
\* the axis mean the same bucket; every bucket of the window is a whole one.
OneAxis ==
  LET axis == timestamps(w)
      near == {axis[i] + d : i \in DOMAIN axis, d \in {-w.period, -1, 0, 1, w.period - 1, w.period}}
  IN  (page = 0 /\ first = 0) =>
        /\ \A t \in near :
             /\ contains(w, t) <=> \E i \in DOMAIN axis : axis[i] = alignToBucket(t)
             /\ \A i \in indexOf(w, t) : axis[i] = alignToBucket(t)
        /\ w.end % w.period = 0

\* One line for each of the metrics that are shown, with its samples and its names.
KeptApart(lines) ==
  /\ Len(lines) = Cardinality(Shown)
  /\ \A d \in Shown : \E i \in DOMAIN lines :
       /\ lines[i].values = Samples(d[3])
       /\ lines[i].label[1] = d[1].key
       /\ Len(Sets) > 1 => (kind \in TargetKinds => lines[i].label[2] = d[2].label)
  /\ IsInjective([j \in DOMAIN Sets |-> Sets[j].label]) =>
       \A i, j \in DOMAIN lines : i # j => lines[i].label # lines[j].label

\* However CloudWatch cut and ordered what it holds, a panel that draws each
\* series has one line for each, and on it the last sample of every bucket; no
\* sample of one target or subject is on the line of another, and where the
\* targets have names of their own no two lines have the same.
SamplesKeptApart ==
  (Built /\ kind \in TargetKinds \cup {"pod-cpu", "node-mem"}) => KeptApart(panel.series)

\* The samples of every metric of a name, over all targets, and their sum.
Total(name) == SumFunction([d \in {e \in Due : e[1].key[3] = name} |-> SumFunction(Samples(d[3]))])
Values(name) == UNION {{Samples(d[3])[i] : i \in DOMAIN Samples(d[3])} : d \in {e \in Due : e[1].key[3] = name}}

Headline(k, v) ==
  /\ (k[2] = "total" \/ (k[2] = "now" /\ k[1] = "restarts")) =>
       v = IF Values(k[1]) = {} THEN {} ELSE {Total(k[1])}
  /\ (k[2] = "max" /\ kind \in TargetKinds) => v = IF Values(k[1]) = {} THEN {} ELSE {Max(Values(k[1]))}

Headlines(stats) == \A k \in DOMAIN stats : Headline(k, stats[k])

\* A headline number is that of the samples themselves: the sum, the largest, of
\* every sample of its metric in the window, over all targets, and nothing else.
HeadlinesAreOfSamples == Built => Headlines(panel.stats)

ColouredApart(lines) ==
  LET subjects == {lines[i].label[3] : i \in DOMAIN lines}
  IN  Cardinality(subjects) <= Len(subjectPalette) =>
        \A i, j \in DOMAIN lines : i # j =>
          /\ (lines[i].color = lines[j].color) <=> (lines[i].label[3] = lines[j].label[3])
          /\ lines[i].color # lines[j].color \/ lines[i].dash # lines[j].dash

\* In a panel of pods or nodes a colour means one subject, in every metric, as long
\* as there are no more subjects than colours, and two lines never look alike.
ColoursTellSubjectsApart ==
  (Built /\ kind \in {"pod-cpu", "node-mem"}) => ColouredApart(panel.series)

\* Targets that are different are asked for side by side: none of them makes the
\* fetch of the whole panel fail before it has begun.
TargetsStayApart ==
  LET targets == [j \in DOMAIN Sets |-> Sets[j].id]
  IN  (IsInjective(targets) /\ page = 0 /\ first = 0 /\ reqs # <<>>) => Askable

\* A fetch ends, whatever tokens CloudWatch gives.
FetchEnds == <>(pc \in {"built", "failed"})
===============================================================================
