------------------------------ MODULE MCMetrics ------------------------------
(***************************************************************************)
(* Instance of MetricPanels: two targets of each kind, two pods, one node  *)
(* that is only remembered, and windows at both sides of an hour.          *)
(***************************************************************************)
EXTENDS MetricPanels

T0 == 100 * hour

tgA == <<"targetgroup", "/", "k8s", "-", "shop", "-", "a", "-", "x1", "/", "1">>
tgB == <<"targetgroup", "/", "b", "/", "2">>
alb == <<"app", "/", "alb", "/", "9">>
alb2 == <<"app", "/", "alb2", "/", "8">>
px == <<"px">>
py == <<"p", "-", "y">>
acl == <<"acl">>
shop == <<"shop">>
main == <<"main">>

At(ts, v) == [t \in ts |-> v + (IF t > T0 - 2 * hour THEN 1 ELSE 0)]

Metric(key, dims, label, region_, pieces) ==
  [metric |-> key, dims |-> dims, label |-> label, region |-> region_, pieces |-> pieces]

Tg(name, tg, lb, label, pieces) ==
  Metric(<<"tg", ".", name>>,
         [k \in {"LoadBalancer", "TargetGroup"} |-> IF k = "TargetGroup" THEN tg ELSE lb],
         label, "home", pieces)

Pod(name, ns, pod, label, pieces) ==
  Metric(<<"pod", ".">> \o name,
         [k \in {"ClusterName", "Namespace", "PodName"} |->
            CASE k = "ClusterName" -> main [] k = "Namespace" -> ns [] k = "PodName" -> pod],
         label, "home", pieces)

Node(name, node, label, pieces) ==
  Metric(<<"node", ".", name>>,
         [k \in {"ClusterName", "InstanceId", "NodeName"} |-> IF k = "ClusterName" THEN main ELSE node],
         label, "home", pieces)

Proxy(name, p, label, pieces) ==
  Metric(<<"proxy", ".", name>>, [k \in {"ProxyName"} |-> p], label, "home", pieces)

Waf(name, rule, region_, label, pieces) ==
  Metric(<<"waf", ".", name>>,
         [k \in {"WebACL", "Rule", "Region"} |-> CASE k = "WebACL" -> acl [] k = "Rule" -> rule
                                                    [] k = "Region" -> <<region_>>],
         label, region_, pieces)

Early == At({T0 - 4 * hour, T0 - 3 * hour}, 5)
Late == At({T0 - 3 * hour + 60, T0 - hour, T0}, 2)
None == At({}, 0)

MCPublished ==
  {Tg("p99", tgA, alb, 1, <<Early, Late>>), Tg("p99", tgB, alb2, 2, <<Late>>),
   Tg("5xx", tgA, alb, 1, <<Early, Late>>), Tg("5xx", tgA, alb2, 2, <<Late>>),
   Tg("5xx", tgB, alb, 0, <<None>>),
   Pod(<<"cpu">>, shop, <<"p1">>, 1, <<Late>>), Pod(<<"cpu">>, shop, <<"p2">>, 2, <<Early, Late>>),
   Pod(<<"cpu">>, <<"other">>, <<"p3">>, 3, <<Late>>),
   Pod(<<"cpu", ".", "limit">>, shop, <<"p2">>, 2, <<Late>>),
   Pod(<<"restarts">>, shop, <<"p1">>, 1, <<Early, Late>>), Pod(<<"running">>, shop, <<"p1">>, 1, <<Late>>),
   Node("mem", <<"n1">>, 1, <<None>>), Node("mem", <<"n2">>, 2, <<Early, Late>>),
   Metric(<<"count", ".", "nodes">>, [k \in {"ClusterName"} |-> main], 0, "home", <<Early>>),
   Metric(<<"count", ".", "pods">>,
          [k \in {"ClusterName", "Namespace", "Service"} |-> IF k = "ClusterName" THEN main ELSE shop],
          1, "home", <<Early, Late>>),
   Proxy("db", px, 0, <<Late>>), Proxy("db", py, 0, <<Early, Late>>),
   Waf("allowed", <<"ALL">>, "us", 1, <<Early, Late>>), Waf("blocked", <<"ALL">>, "us", 1, <<Late>>),
   Waf("blocked", <<"r1">>, "us", 2, <<Late>>), Waf("blocked", <<"ALL">>, "home", 3, <<Late>>)}

Config(cluster, ns, groups, lb, proxies, acls) ==
  [clusterName |-> cluster, namespace |-> ns, targetGroups |-> groups, loadBalancer |-> lb,
   rdsProxies |-> proxies, webAcls |-> acls]

MCConfigs ==
  {Config(main, shop, <<tgA, tgB>>, alb, <<px, py>>, <<acl>>),
   Config(main, <<>>, <<>>, alb, <<px>>, <<acl>>),
   Config(<<>>, <<>>, <<>>, <<>>, <<>>, <<>>)}

\* Two ACLs whose names differ in a mark only.
TwinConfigs ==
  {Config(main, shop, <<tgA>>, alb, <<px>>, <<<<"acl", "-", "a">>, <<"acl", "_", "a">>>>)}

MCConns == {[region |-> "home", wafRegion |-> "us"], [region |-> "home", wafRegion |-> "home"]}

MCScalings == {{}, {[min |-> 1, max |-> 3]}}

MCWindows ==
  UNION {resolveWindow(T0 + d, <<4, "h">>, <<1, "h">>) : d \in {-1, 0, 1800}} \cup
  UNION {resolveWindow(T0 + d, Empty, Empty) : d \in {0, 90}} \cup
  resolveWindow(T0 - 1, <<15, "m">>, <<5, "m">>) \cup resolveWindow(T0, <<240, "m">>, Junk)
===============================================================================
