------------------------------ MODULE LogFormat ------------------------------
(***************************************************************************)
(* domain/logfmt.ts of the node engine: how one line of the pods' log      *)
(* group is read, and what the preview of the settings says of it.         *)
(*                                                                         *)
(* A line is what an application wrote and how it came:                    *)
(*   form      "json", "gin" or "plain": how the line was written          *)
(*   enveloped whether fluent-bit's record is round it                     *)
(*   decoded   whether fluent-bit put a json line under log_processed      *)
(*   says      what it says of a request: a function on some of Facts      *)
(*   word      the word of a level in its text, "" for none                *)
(*   at, namespace, container: of the record                               *)
(* A request target is <<path>> or <<path, query>>, <<>> when there is     *)
(* none.  What may be missing is a set, {} or {v}.  Labels compare         *)
(* without case.                                                           *)
(*                                                                         *)
(* A format has the settings of LogFormat, where named is the set of facts *)
(* whose field has a name, misnamed those (or "userAgent") whose name is   *)
(* no reference in a query, textPattern the facts that the pattern         *)
(* captures from a line of each form (none, if there is no pattern), and   *)
(* levelPattern the set of words it finds.                                 *)
(***************************************************************************)
EXTENDS Integers, Sequences, FiniteSets

Facts == {"app", "status", "latency", "method", "path", "clientIp", "level"}

defaultExcludePaths == {"/health", "/healthcheck"}

defaultLogFormat ==
  [preset |-> "auto", messageField |-> "log", timeField |-> "time", processedField |-> TRUE,
   named |-> Facts, misnamed |-> {}, latencyUnit |-> "ms", userAgentField |-> FALSE,
   textPattern |-> [form \in {"json", "gin", "plain"} |-> {}],
   levelPattern |-> {"error", "err", "fatal", "panic", "warn", "warning", "oomkilled"},
   namespace |-> "default", okStatuses |-> {200, 201}, excludePaths |-> defaultExcludePaths]

\* A format the settings page may preview; what it says otherwise is an error.
validateLogFormat(f) ==
  /\ f.preset \in {"auto", "gin", "json"}
  /\ f.timeField # ""
  /\ f.messageField # ""
  /\ f.latencyUnit \in {"ms", "s", ""}

emptyLine(rec) ==
  [app |-> "", namespace |-> "", container |-> "", method |-> "", path |-> <<>>,
   requestTarget |-> <<>>, clientIp |-> "", status |-> 0, latencyMs |-> {}, level |-> "",
   hasAccess |-> FALSE, word |-> rec.word]

requestPath(target) == IF target = <<>> THEN <<>> ELSE <<target[1]>>

isExcludedPath(f, path) == path # <<>> /\ path[1] \in f.excludePaths

\* A code of 0 or less is no answer, so not a bad one.
isBadStatus(f, status) == status > 0 /\ status \notin f.okStatuses

toMillis(f, v) == IF f.latencyUnit = "s" THEN v * 1000 ELSE v

Said(m, fact, otherwise) == IF fact \in DOMAIN m THEN m[fact] ELSE otherwise

firstString(cur, next) == IF cur = "" THEN next ELSE cur

\* A line with the facts m written into it.
FillIn(f, line, m) ==
  LET target == Said(m, "path", <<>>)
  IN  [line EXCEPT
         !.app = firstString(@, Said(m, "app", "")),
         !.method = firstString(@, Said(m, "method", "")),
         !.requestTarget = target,
         !.path = requestPath(target),
         !.clientIp = firstString(@, Said(m, "clientIp", "")),
         !.level = firstString(@, Said(m, "level", "")),
         !.status = Said(m, "status", @),
         !.latencyMs = IF "latency" \in DOMAIN m THEN {toMillis(f, m["latency"])} ELSE @,
         !.hasAccess = @ \/ {"status", "latency"} \cap DOMAIN m # {}]

\* The facts of a decoded line, each from the field the settings name.
applyProcessed(f, line, says) ==
  FillIn(f, line, [fact \in DOMAIN says \cap f.named |-> says[fact]])

\* A gin line has all its facts but the application, and its own unit of time.
applyGin(line, says) ==
  [line EXCEPT !.status = says["status"], !.method = says["method"], !.clientIp = says["clientIp"],
               !.requestTarget = says["path"], !.path = requestPath(says["path"]),
               !.hasAccess = TRUE, !.latencyMs = {says["latency"]}]

\* Any other text is read by the pattern of the settings, that of a json line
\* too.  The pattern names its groups by the fact or by the field: the name of a
\* field need not be set for that.
applyText(f, line, rec) ==
  IF f.preset \in {"auto", "gin"} /\ rec.form = "gin" THEN applyGin(line, rec.says)
  ELSE FillIn(f, line, [fact \in DOMAIN rec.says \cap f.textPattern[rec.form] |-> rec.says[fact]])

errorLevels == {"error", "err", "fatal", "panic"}
warnLevels == {"warn", "warning"}

\* Mutant: a word of the request's address makes its line an error.
LevelOfAnyWord(f, line) ==
  LET classed == CASE line.level \in errorLevels -> "error"
                   [] line.level \in warnLevels -> "warn"
                   [] line.level \notin errorLevels \cup warnLevels \cup {""} -> line.level
                   [] line.level = "" -> IF line.word \notin f.levelPattern THEN ""
                                         ELSE IF line.word \in warnLevels THEN "warn" ELSE "error"
  IN  [line EXCEPT !.level = classed]

\* A line without a level is classed by its text, but not a line about a request.
applyLevel(f, line) ==
  LET classed == CASE line.level \in errorLevels -> "error"
                   [] line.level \in warnLevels -> "warn"
                   [] line.level \notin errorLevels \cup warnLevels \cup {""} -> line.level
                   [] line.level = "" -> IF line.hasAccess \/ line.word \notin f.levelPattern THEN ""
                                         ELSE IF line.word \in warnLevels THEN "warn" ELSE "error"
  IN  [line EXCEPT !.level = classed]

\* A json line that fluent-bit left as text is decoded here; a line without an
\* envelope is all text.
parseLogLine(f, rec) ==
  LET bare == emptyLine(rec)
      line == [bare EXCEPT !.namespace = rec.namespace, !.container = rec.container]
      read == IF rec.form = "json" /\ DOMAIN rec.says # {} /\ f.preset # "gin"
              THEN applyProcessed(f, line, rec.says)
              ELSE applyText(f, line, rec)
  IN  IF rec.enveloped
      THEN applyLevel(f, [read EXCEPT !.app = firstString(@, rec.container)])
      ELSE applyLevel(f, applyText(f, bare, rec))

\* What the settings page is told of a sample, {} when the format is refused.
handleLogFormatPreview(f, rec) ==
  LET line == parseLogLine(f, rec)
  IN  IF ~validateLogFormat(f) THEN {}
      ELSE {[parsed |-> line, matched |-> line.hasAccess \/ line.level # "",
             badStatus |-> isBadStatus(f, line.status), excluded |-> isExcludedPath(f, line.path)]}
===============================================================================
