------------------------------ MODULE LogPanels -------------------------------
(***************************************************************************)
(* The log panels of the node engine: runLogQueries (http/panels-logs.ts)  *)
(* over the query cache, under connections that are swapped (setAWS in     *)
(* connect.ts) and settings that are saved while panels are being built.   *)
(*                                                                         *)
(* A panel asks for one wave of queries in one call of Cache.do, and gets  *)
(* there in the turn in which its request took the connection: a call of   *)
(* Cache stands for the request too.  The wave of call c is what its own   *)
(* load asked of CloudWatch, with the connection c had taken; the answer   *)
(* of c is the wave of source[c].  A panel without a log group never       *)
(* reaches the cache.                                                      *)
(*                                                                         *)
(* What a query goes through on its way is InsightsRunner's subject; here  *)
(* it ends, in any order.                                                  *)
(*                                                                         *)
(* Bounds: those of Cache; MaxEpoch counts swaps and saves together.       *)
(***************************************************************************)
EXTENDS Cache

CONSTANTS
  Shape,     (* what a cache key says beside the region: panel, group,      *)
             (* window, queries                                            *)
  Region,
  Account,   (* connections that can be used                               *)
  RegionOf,  (* the region each of them calls                              *)
  Query      (* the queries of a wave                                      *)

ASSUME LogPanelsAssumption ==
  /\ None \notin Account
  /\ RegionOf \in [Account -> Region]
  /\ Key = Shape \X Region
  /\ Query # {}

VARIABLES
  account,  (* service.aws: a connection in use, or None                   *)
  snap,     (* the connection each request took, rc.aws                    *)
  wave,     (* how the queries of each call's own load ended               *)
  began     (* history: the value of epoch when a request took it          *)

logVars == <<account, snap, wave, began>>
allVars == <<vars, logVars>>

Waves == [Query -> {"running", "done", "failed", "aborted"}]

LogInit ==
  /\ Init
  /\ account \in Account
  /\ snap = [c \in Caller |-> None]
  /\ wave = [c \in Caller |-> [i \in Query |-> "running"]]
  /\ began = [c \in Caller |-> 0]

\* The cache key of a wave: of the request and the region, not of the account.
KeyOf(s, a) == <<s, RegionOf[a]>>

\* A request takes the connection, and its panel calls Cache.do.
Ask(c) ==
  /\ account # None
  /\ \E s \in Shape : Enter(c, KeyOf(s, account))
  /\ snap' = [snap EXCEPT ![c] = account]
  /\ began' = [began EXCEPT ![c] = epoch]
  /\ UNCHANGED <<account, wave>>

\* Without a connection the answer is a 503, and nothing has changed.
Refused(c) == account = None /\ pc[c] = "idle" /\ UNCHANGED allVars

\* How a query of call c may end now: an abort ends it, or comes too late.
Ends(c) == {"done", "failed"} \cup (IF aborted[c] THEN {"aborted"} ELSE {})

\* Mutant: a wave is a success whatever came back.
SettlesUnconditionally(c) == LoadReturns(c)

\* The load ends with the last query of its wave: it returns if any query was
\* answered, and throws if none was.
Settles(c) ==
  IF \E i \in Query : wave'[c][i] = "done"
  THEN LoadReturns(c)
  ELSE LoadThrows(c) \/ LoadAbandoned(c)

\* A query of a wave ends, in results or in errors.
QueryEnds(c, i) ==
  /\ pc[c] = "loading"
  /\ wave[c][i] = "running"
  /\ \E e \in Ends(c) : wave' = [wave EXCEPT ![c][i] = e]
  /\ IF \E j \in Query : wave'[c][j] = "running"
     THEN UNCHANGED vars
     ELSE Settles(c)
  /\ UNCHANGED <<account, snap, began>>

\* A call that waited for another's wave gets it, or goes round the loop, with
\* the connection it took at first.
Waiter(c) == (WaiterTakes(c) \/ WaiterRetries(c)) /\ UNCHANGED logVars

\* The browser goes away, or the budget of its page is spent.
Leaves(c) == Abort(c) /\ UNCHANGED logVars

\* Mutant: the connection is swapped, and every answer stays in the cache.
SwapKeepsAnswers(a) ==
  /\ epoch < MaxEpoch
  /\ account' = a
  /\ epoch' = epoch + 1
  /\ UNCHANGED <<now, entries, entryVars, pc, key, waiting, aborted, source, snap, wave, began>>

\* setAWS: another connection, or none, and an empty cache.
Swap(a) ==
  /\ account' = a
  /\ Invalidate
  /\ UNCHANGED <<snap, wave, began>>

\* The settings were saved.
SettingsSaved == Invalidate /\ UNCHANGED logVars

TimePasses == Tick /\ UNCHANGED logVars

AllQuiet == Quiet /\ UNCHANGED logVars

LogNext ==
  \/ \E c \in Caller :
       \/ Ask(c)
       \/ Refused(c)
       \/ \E i \in Query : QueryEnds(c, i)
       \/ Waiter(c)
       \/ Leaves(c)
  \/ \E a \in Account \cup {None} : Swap(a)
  \/ SettingsSaved
  \/ TimePasses
  \/ AllQuiet

LogSpec == LogInit /\ [][LogNext]_allVars

-------------------------------------------------------------------------------

\* The types, and that a request has its connection from the turn it began in:
\* waiting for another's wave does not put it off (service.ts:112-114).
LogTypeOK ==
  /\ account \in Account \cup {None}
  /\ snap \in [Caller -> Account \cup {None}]
  /\ wave \in [Caller -> Waves]
  /\ began \in [Caller -> Nat]
  /\ \A c \in Caller : pc[c] # "idle" => snap[c] \in Account

\* The call whose answer c was given, if it was another's.
Shared(c) == source[c] \notin {None, c}

\* A panel is never given the rows of another region, over every swap of the
\* connection (panels-logs.ts:55-60).
RegionsApart ==
  \A c \in Caller : Shared(c) => RegionOf[snap[source[c]]] = RegionOf[snap[c]]

\* A swap or a save came between the beginning of request c and the load of d.
Overtaken(c, d) == began[c] < claimed[d]

\* Two accounts of one region have one key, and the emptied cache alone keeps
\* their rows apart (connect.ts:60-62).  A request that begins after a swap is
\* given no rows that another account's request got before it; rows of another
\* account come only from a load that began after a swap, for a request that began
\* before: the asking one, or the loading one on its second time round the loop of
\* the cache.
AccountsApartUnlessOvertaken ==
  \A c \in Caller :
    Shared(c) /\ snap[source[c]] # snap[c]
      => Overtaken(c, source[c]) \/ Overtaken(source[c], source[c])

\* A request that began with the new connection is never answered with what an
\* earlier connection was told (connect.ts:60-62).
NewKeyNewAnswers ==
  \A c \in Caller :
    Shared(c) /\ began[c] > began[source[c]] => snap[source[c]] = snap[c]

NothingCameBack(c) == \A i \in Query : wave[c][i] # "done"

\* A wave of which nothing came back is handed to another panel during the short
\* lifetime of errors only: an outage does not outlive itself on the screen by
\* the lifetime of answers (panels-logs.ts:142-145).
OutageIsShort ==
  [][\A c \in Caller :
       source'[c] # source[c] /\ source'[c] # c /\ NothingCameBack(source'[c])
         => now < ended[source'[c]] + ErrorTTL]_allVars

\* A panel is given queries aborted by somebody else's leaving only in a wave of
\* which something came back (cache.ts:85-86, panels-logs.ts:147-148).
BorrowedAbortHasRows ==
  \A c \in Caller :
    Shared(c) /\ (\E i \in Query : wave[source[c]][i] = "aborted")
      => ~NothingCameBack(source[c])

===============================================================================
