----------------------------- MODULE MetricCatalog -----------------------------
(***************************************************************************)
(* domain/catalog.ts and domain/dimensions.ts of the node engine: the      *)
(* CloudWatch metrics it knows, and how one is asked for.                  *)
(*                                                                         *)
(* A text that is taken apart or rewritten (a key, the name of a target)   *)
(* is a sequence of words and marks; any other is an atom.  A spec says    *)
(* the name of its metric by its key, of which each metric and statistic   *)
(* has one.                                                                *)
(***************************************************************************)
EXTENDS Integers, Sequences, FiniteSets, SequencesExt

Marks == {".", "|", "-", "_", "/", ":"}
Unsafe == {"'", "\""}   (* what cannot stand inside a SEARCH expression *)

subjectPalette == <<"Blue", "Orange", "Green", "Pink", "Purple", "Yellow", "Teal", "Red",
                    "Indigo", "Mint">>

\* The colour of the i-th subject of a panel, counted from 0.
subjectColor(i) == subjectPalette[(i % Len(subjectPalette)) + 1]

MetricSpec(key, stat, color, dimensions) ==
  [key |-> key, stat |-> stat, color |-> color, dimensions |-> dimensions]

targetGroupMetrics ==
  LET Of(name, stat, color) ==
        MetricSpec(<<"tg", ".", name>>, stat, color, {"LoadBalancer", "TargetGroup"})
  IN  <<Of("p50", "p50", "Teal"), Of("p90", "p90", "Blue"), Of("p99", "p99", "Indigo"),
        Of("4xx", "Sum", "Orange"), Of("5xx", "Sum", "Red"), Of("requests", "Sum", "Gray"),
        Of("healthy", "Average", "Green")>>

podResourceMetrics ==
  LET Of(name, color) ==
        MetricSpec(<<"pod", ".">> \o name, "Average", color, {"ClusterName", "Namespace", "PodName"})
  IN  <<Of(<<"cpu">>, "Indigo"), Of(<<"mem">>, "Teal"), Of(<<"cpu", ".", "limit">>, "Purple"),
        Of(<<"mem", ".", "limit">>, "Pink")>>

nodeResourceMetrics ==
  LET Of(name, color) ==
        MetricSpec(<<"node", ".", name>>, "Average", color, {"ClusterName", "InstanceId", "NodeName"})
  IN  <<Of("cpu", "Indigo"), Of("mem", "Teal"), Of("fs", "Yellow")>>

countMetrics ==
  <<MetricSpec(<<"count", ".", "pods">>, "Average", "Blue", {"ClusterName", "Namespace", "Service"}),
    MetricSpec(<<"count", ".", "nodes">>, "Average", "Green", {"ClusterName"}),
    MetricSpec(<<"count", ".", "nodes", ".", "failed">>, "Maximum", "Red", {"ClusterName"})>>

podStatusMetrics ==
  LET Of(name, stat, color) ==
        MetricSpec(<<"pod", ".", name>>, stat, color, {"ClusterName", "Namespace", "PodName"})
  IN  <<Of("running", "Average", "Green"), Of("pending", "Average", "Orange"),
        Of("failed", "Average", "Red"), Of("restarts", "Sum", "Pink")>>

rdsProxyMetrics ==
  LET Of(name, stat, color) == MetricSpec(<<"proxy", ".", name>>, stat, color, {"ProxyName"})
  IN  <<Of("db", "Average", "Purple"), Of("client", "Average", "Blue"),
        Of("pinned", "Average", "Orange"), Of("borrow", "Average", "Yellow"),
        Of("max", "Maximum", "Gray")>>

wafMetrics ==
  LET Of(name, color) == MetricSpec(<<"waf", ".", name>>, "Sum", color, {"WebACL", "Rule", "Region"})
  IN  <<Of("allowed", "Green"), Of("blocked", "Pink"), Of("counted", "Gray")>>

\* Keys are nested, so that a prefix names a resource: pod.cpu takes pod.cpu.limit along.
specsWithPrefix(specs, prefix) ==
  LET kept == {i \in DOMAIN specs : IsPrefix(prefix, specs[i].key)}
  IN  [k \in 1..Cardinality(kept) |->
         specs[CHOOSE i \in kept : Cardinality({j \in kept : j < i}) = k - 1]]

\* The SEARCH expression of a spec, if its filters can be said in one.  A filter
\* without a value is left out, and so does not narrow anything.
searchExpression(spec, filters) ==
  LET said == {k \in DOMAIN filters : filters[k] # <<>>}
  IN  IF \A k \in said : ToSet(filters[k]) \cap Unsafe = {}
      THEN {[metric |-> spec.key, schema |-> spec.dimensions, terms |-> Restrict(filters, said)]}
      ELSE {}

\* A key as a query id: anything but a letter or a digit becomes an underscore.
queryID(key) == <<"q">> \o [i \in DOMAIN key |-> IF key[i] \in Marks \cup Unsafe THEN "_" ELSE key[i]]

\* k8s-default-product-d6d507c878 -> product: the name of the service between the
\* second dash and the last.
friendlyTargetGroupName(name) ==
  LET dashes == SelectSeq([i \in 1..Len(name) |-> i], LAMBDA i : name[i] = "-")
  IN  IF Len(dashes) < 3 \/ name[1] # "k8s" \/ dashes[1] # 2 THEN name
      ELSE SubSeq(name, dashes[2] + 1, dashes[Len(dashes)] - 1)
===============================================================================
