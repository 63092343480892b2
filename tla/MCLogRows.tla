------------------------------ MODULE MCLogRows ------------------------------
(***************************************************************************)
(* Instance of LogRows: up to three lines of the pods, of every form and   *)
(* at both edges of the window, or up to three of the WAF, with limits of  *)
(* one row and an Insights that stops at two.                              *)
(***************************************************************************)
EXTENDS LogRows

T0 == 1000 * hour

MCWindows == resolveWindow(T0 + 30, <<15, "m">>, <<1, "m">>)

Early == T0 - 15 * minute
Late == T0 - 1

Says(status, path) ==
  [fact \in {"status", "path", "latency", "method", "clientIp"} |->
     CASE fact = "status" -> status [] fact = "path" -> path [] fact = "latency" -> 3
       [] fact = "method" -> "GET" [] fact = "clientIp" -> "ip"]

Pod(at, form, decoded, says, word, ns) ==
  [at |-> at, form |-> form, enveloped |-> TRUE, decoded |-> decoded, says |-> says, word |-> word,
   namespace |-> ns, container |-> "web"]

Nothing == [fact \in {} |-> 0]
Level(level) == [fact \in {"level"} |-> level]

PodLines ==
  {Pod(Early, "gin", FALSE, Says(500, <<"/a", "q">>), "error", "default"),
   Pod(Late, "json", TRUE, Says(404, <<"/a">>), "", "default"),
   Pod(Late, "gin", FALSE, Says(404, <<"/b">>), "", "default"),
   Pod(T0, "gin", FALSE, Says(404, <<"/b">>), "", "default"),
   Pod(Late, "json", TRUE, Says(500, <<"/health">>), "", "default"),
   Pod(Late, "json", FALSE, Says(503, <<"/c">>), "error", "default"),
   Pod(Late, "json", TRUE, Says(200, <<"/d">>), "warn", "other"),
   Pod(Early, "plain", FALSE, Nothing, "error", "default"),
   Pod(Early, "plain", FALSE, Nothing, "err", "default"),
   Pod(Late, "json", TRUE, Level("warning"), "error", "default"),
   Pod(Late, "json", TRUE, Level("oomkilled"), "panic", "other")}

Waf(at, action, uri, args, host) ==
  [at |-> at, action |-> action, uri |-> uri, args |-> args, method |-> "GET", rule |-> "r",
   clientIp |-> host, country |-> "KR", sent |-> "",
   headers |-> IF host = "h0" THEN [h \in {} |-> ""] ELSE [h \in {"Host"} |-> host]]

WafLines ==
  {Waf(Early, "ALLOW", "/a", "", "h1"), Waf(Late, "ALLOW", "/a", "", "h2"),
   Waf(Late - 60, "BLOCK", "/a", "", "h1"), Waf(Late, "BLOCK", "/a", "q", "h0"),
   Waf(Early, "CHALLENGE", "/b", "", "h2"), Waf(T0, "COUNT", "/b", "", "h1"),
   Waf(Late, "BLOCK", "/c", "", "h2")}

MCLogSets == {{}} \cup UNION {kSubset(n, PodLines) : n \in 1..3} \cup UNION {kSubset(n, WafLines) : n \in 1..3}

Cfg(format, ns, group) ==
  [logFormat |-> format, namespace |-> ns, podLogGroup |-> "", clusterName |-> group,
   wafLogGroup |-> group, logRows |-> 1, topN |-> 1, wafHeaders |-> defaultWAFHeaders]

MCConfigs ==
  {Cfg(defaultLogFormat, "default", "group"),
   Cfg([defaultLogFormat EXCEPT !.preset = "json", !.userAgentField = TRUE, !.named = Facts \ {"path"},
                                !.latencyUnit = "s"], "default", "group"),
   Cfg([defaultLogFormat EXCEPT !.preset = "gin", !.excludePaths = {}, !.misnamed = {"app"},
                                !.textPattern["json"] = {"status"}, !.textPattern["plain"] = {"status"}],
       "default", ""),
   Cfg([defaultLogFormat EXCEPT !.processedField = FALSE, !.userAgentField = TRUE,
                                !.misnamed = {"userAgent"}], "default", "group"),
   Cfg([defaultLogFormat EXCEPT !.misnamed = {"app"}, !.excludePaths = {}], "default", "group"),
   Cfg([defaultLogFormat EXCEPT !.messageField = "a | b", !.levelPattern = {"error", "warn"}], "other", "group")}
===============================================================================
