--------------------------------- MODULE Page ---------------------------------
(***************************************************************************)
(* The requests of the node engine that are answered through the query     *)
(* cache: a page of panels, one panel, a discovery (handlePage and         *)
(* handlePanel in http/panels.ts, handleDiscovery in http/settings.ts),    *)
(* over Cache and under connections that are swapped.                      *)
(*                                                                         *)
(* A request has panels in fixed slots, a panel asks the cache for one     *)
(* thing after another: the call <<r, i, j>> of Cache.do is the j-th ask   *)
(* of slot i of request r.  A discovery is one slot with one ask.  What an *)
(* answer holds is abstracted to whether it came (MetricPanels and LogRows *)
(* model what is in it).                                                   *)
(*                                                                         *)
(* buildPanels starts every builder in one turn of the event loop.  turn   *)
(* is the request whose turn it is; nothing else happens until its last    *)
(* builder has come to its first await.                                    *)
(*                                                                         *)
(* Bounds: those of Cache; MaxEpoch counts swaps and saves.                *)
(***************************************************************************)
EXTENDS Cache, Sequences

CONSTANTS
  Request,
  Routes,    (* [Request -> what it may ask for], as <<handler, id>>       *)
  pages,     (* [page ids -> the ids of its panels, in order]              *)
  PanelAsks, (* [panel ids -> what its builder asks for, in order]         *)
  Region,
  Account,   (* connections that can be used                               *)
  First,     (* the one the program started with, or None                  *)
  RegionOf   (* the region each of them calls                              *)

Handlers == {"page", "panel", "discovery"}

\* What a discovery lists: each kind is its own key, here as one ask.
DiscoveryKinds == {"targetgroups", "loadbalancers", "loggroups", "waf-loggroups",
                   "rdsproxies", "clusters", "webacls"}

\* Whether the handler knows the id it is asked for.
Known(h, id) ==
  \/ h = "page" /\ id \in DOMAIN pages
  \/ h = "panel" /\ id \in DOMAIN PanelAsks
  \/ h = "discovery" /\ id \in DiscoveryKinds

\* The slots of what is asked for: the panels of a page, one panel, one listing.
IdsOf(a) == IF a[1] = "page" THEN pages[a[2]] ELSE <<a[2]>>

AsksFor(a, i) == IF a[1] = "discovery" THEN <<a[2]>> ELSE PanelAsks[IdsOf(a)[i]]

\* A metric key names the panel, the window and the queries, and node scaling
\* the cluster: neither names account or region.  A discovery names the region
\* the clients call.
KeyFor(a, i, j, conn) ==
  <<AsksFor(a, i)[j], IF a[1] = "discovery" THEN RegionOf[conn] ELSE None>>

\* A page has a panel and each of them a builder, and no builder asks more than
\* twice; what may be asked is a call and a key of the cache.
ASSUME PageAssumption ==
  /\ None \notin Request \cup Account
  /\ First \in Account \cup {None}
  /\ RegionOf \in [Account -> Region]
  /\ \A p \in DOMAIN PanelAsks : PanelAsks[p] \in Seq(STRING) /\ Len(PanelAsks[p]) <= 2
  /\ \A p \in DOMAIN pages : pages[p] \in Seq(DOMAIN PanelAsks) /\ pages[p] # <<>>
  /\ \A r \in Request : Routes[r] \subseteq Handlers \X STRING
  /\ \A r \in Request : \A a \in Routes[r] : Known(a[1], a[2]) =>
       \A i \in DOMAIN IdsOf(a) : \A j \in DOMAIN AsksFor(a, i) :
         <<r, i, j>> \in Caller /\ \A conn \in Account : KeyFor(a, i, j, conn) \in Key

VARIABLES
  account,  (* service.aws: a connection in use, or None                   *)
  turn,     (* the request whose builders are being started, or None       *)
  route,    (* what each request asks for                                  *)
  phase,    (* where its handler stands                                    *)
  started,  (* how many of its builders have been called                   *)
  snap,     (* the connection it took, rc.aws                              *)
  began,    (* history: the value of epoch when it took it                 *)
  gone,     (* the browser has left: c.req.raw.signal.aborted              *)
  spent,    (* its own time limit has passed                               *)
  status,   (* the status of its answer, 0 before it                       *)
  shown     (* the panels of its answer: id, and whether it was drawn      *)

requestVars == <<turn, route, phase, started, snap, began, gone, spent, status, shown>>
pageVars == <<vars, account, requestVars>>

PageInit ==
  /\ Init
  /\ account = First
  /\ turn = None
  /\ route = [r \in Request |-> None]
  /\ phase = [r \in Request |-> "out"]
  /\ started = [r \in Request |-> 0]
  /\ snap = [r \in Request |-> None]
  /\ began = [r \in Request |-> 0]
  /\ gone = [r \in Request |-> FALSE]
  /\ spent = [r \in Request |-> FALSE]
  /\ status = [r \in Request |-> 0]
  /\ shown = [r \in Request |-> <<>>]

\* The slots of a request, what its builders ask for, and under which keys.
Ids(r) == IdsOf(route[r])
AsksOf(r, i) == AsksFor(route[r], i)
KeyOf(r, i, j) == KeyFor(route[r], i, j, snap[r])

\* The answer to a request that builds nothing.
Refuse(r, code) ==
  /\ phase' = [phase EXCEPT ![r] = "answered"]
  /\ status' = [status EXCEPT ![r] = code]
  /\ UNCHANGED <<turn, started, snap, began>>

\* The handler takes the connection and settings, and its builders' turn comes.
Accept(r) ==
  /\ phase' = [phase EXCEPT ![r] = "building"]
  /\ snap' = [snap EXCEPT ![r] = account]
  /\ began' = [began EXCEPT ![r] = epoch]
  /\ turn' = r
  /\ UNCHANGED <<started, status>>

\* A request arrives: without a connection it is a 503, an id nobody knows, a
\* window out of bounds or a namespace that is none a 400.
Begin(r, h, id, fits) ==
  /\ turn = None
  /\ phase[r] = "out"
  /\ route' = [route EXCEPT ![r] = <<h, id>>]
  /\ IF account = None THEN Refuse(r, 503)
     ELSE IF ~(Known(h, id) /\ fits) THEN Refuse(r, 400)
     ELSE Accept(r)
  /\ UNCHANGED <<vars, account, gone, spent, shown>>

\* The next builder is called and comes to its first await, or to its end.
Start(r) ==
  LET i == started[r] + 1
  IN  /\ turn = r
      /\ started' = [started EXCEPT ![r] = i]
      /\ turn' = IF i = Len(Ids(r)) THEN None ELSE r
      /\ IF AsksOf(r, i) = <<>> THEN UNCHANGED vars
                                ELSE Enter(<<r, i, 1>>, KeyOf(r, i, 1))
      /\ UNCHANGED <<account, route, phase, snap, began, gone, spent, status, shown>>

\* A builder got the first thing it asked for and asks for the second, still
\* with the connection its request took.
AskNext(r, i) ==
  /\ turn = None
  /\ phase[r] = "building"
  /\ Len(AsksOf(r, i)) = 2
  /\ pc[<<r, i, 1>>] = "returned"
  /\ Enter(<<r, i, 2>>, KeyOf(r, i, 2))
  /\ UNCHANGED <<account, requestVars>>

\* Mutant: a builder whose first ask failed is waited for until its second.
EndedAtTheLast(r, i) ==
  LET n == Len(AsksOf(r, i)) IN n # 0 => pc[<<r, i, n>>] \in Finished

\* A builder has ended: its first ask threw, or its last one is answered.
Ended(r, i) ==
  LET n == Len(AsksOf(r, i))
  IN  n # 0 => pc[<<r, i, 1>>] = "threw" \/ pc[<<r, i, n>>] \in Finished

\* Only the failure of the first ask is a failure of the panel: without node
\* scaling the counts are drawn, with a warning in them.
Failed(r, i) == AsksOf(r, i) # <<>> /\ pc[<<r, i, 1>>] = "threw"

\* Mutant: a spent budget is taken for a browser that left.
VerdictOfSignal(r) ==
  CASE route[r][1] = "page" -> IF gone[r] \/ spent[r] THEN 499 ELSE 200
    [] route[r][1] = "panel" -> IF ~Failed(r, 1) THEN 200 ELSE IF gone[r] THEN 499 ELSE 502
    [] OTHER -> IF Failed(r, 1) THEN 502 ELSE 200

\* What a request is answered when its builders have ended.  A page heeds
\* only the browser; a panel asks for it when it failed, a discovery never.
Verdict(r) ==
  CASE route[r][1] = "page" -> IF gone[r] THEN 499 ELSE 200
    [] route[r][1] = "panel" -> IF ~Failed(r, 1) THEN 200 ELSE IF gone[r] THEN 499 ELSE 502
    [] OTHER -> IF Failed(r, 1) THEN 502 ELSE 200

\* The panels of the answer, each in the slot of its page; a builder that threw
\* leaves a warning in its place.
Slots(r) == [i \in DOMAIN Ids(r) |-> [id |-> Ids(r)[i], drawn |-> ~Failed(r, i)]]

\* A payload of panels is checked before it goes out (Series!validatePayload).
Answer(r, valid) ==
  /\ turn = None
  /\ phase[r] = "building"
  /\ \A i \in DOMAIN Ids(r) : Ended(r, i)
  /\ valid \/ (route[r][1] # "discovery" /\ Verdict(r) = 200)
  /\ phase' = [phase EXCEPT ![r] = "answered"]
  /\ status' = [status EXCEPT ![r] = IF valid THEN Verdict(r) ELSE 500]
  /\ shown' = [shown EXCEPT ![r] = IF valid /\ Verdict(r) = 200 THEN Slots(r) ELSE <<>>]
  /\ UNCHANGED <<vars, account, turn, route, started, snap, began, gone, spent>>

\* The signal of the builders of r fires.
Signalled(r) == [c \in Caller |-> aborted[c] \/ c[1] = r]

\* The browser goes away: discovery does not look.
Leaves(r) ==
  /\ turn = None
  /\ phase[r] = "building"
  /\ ~gone[r]
  /\ gone' = [gone EXCEPT ![r] = TRUE]
  /\ aborted' = IF route[r][1] = "discovery" THEN aborted ELSE Signalled(r)
  /\ UNCHANGED <<now, entries, entryVars, pc, key, waiting, source, epoch>>
  /\ UNCHANGED <<account, turn, route, phase, started, snap, began, spent, status, shown>>

\* The 90 s of a page or the 30 s of a discovery are over; a panel has no limit.
Spends(r) ==
  /\ turn = None
  /\ phase[r] = "building"
  /\ route[r][1] # "panel"
  /\ ~spent[r]
  /\ spent' = [spent EXCEPT ![r] = TRUE]
  /\ aborted' = Signalled(r)
  /\ UNCHANGED <<now, entries, entryVars, pc, key, waiting, source, epoch>>
  /\ UNCHANGED <<account, turn, route, phase, started, snap, began, gone, status, shown>>

\* A call of the cache goes on: its load ends, or the load it waited for has.
Moves(c) ==
  /\ turn = None
  /\ WaiterTakes(c) \/ WaiterRetries(c) \/ LoadSettles(c)
  /\ UNCHANGED <<account, requestVars>>

\* Mutant: the connection is swapped, and every answer stays in the cache.
SwapKeepsAnswers(a) ==
  /\ turn = None
  /\ epoch < MaxEpoch
  /\ account' = a
  /\ epoch' = epoch + 1
  /\ UNCHANGED <<now, entries, entryVars, pc, key, waiting, aborted, source, requestVars>>

\* setAWS: another connection, or none, and an empty cache.
Swap(a) ==
  /\ turn = None
  /\ account' = a
  /\ Invalidate
  /\ UNCHANGED requestVars

\* Every request has been answered.
Idle == (\A r \in Request : phase[r] = "answered") /\ UNCHANGED pageVars

PageNext ==
  \/ \E r \in Request :
       \/ \E a \in Routes[r], fits \in BOOLEAN : Begin(r, a[1], a[2], fits)
       \/ Start(r)
       \/ \E i \in 1 .. started[r] : AskNext(r, i)
       \/ \E valid \in BOOLEAN : Answer(r, valid)
       \/ Leaves(r)
       \/ Spends(r)
  \/ \E c \in Caller : Moves(c)
  \/ \E a \in Account \cup {None} : Swap(a)
  \/ Idle

PageSpec == PageInit /\ [][PageNext]_pageVars

\* Promise reactions always run, and a load ends because every AWS call under it
\* carries a deadline.  Nothing forces a request to come or a limit to pass.
PageFairness ==
  /\ \A r \in Request :
       /\ WF_pageVars(Start(r))
       /\ WF_pageVars(\E i \in 1 .. started[r] : AskNext(r, i))
       /\ WF_pageVars(Answer(r, TRUE))
  /\ \A c \in Caller : WF_pageVars(Moves(c))

FairPageSpec == PageSpec /\ PageFairness

-------------------------------------------------------------------------------

\* What a call was given came to it as data.
Came(c) == source[c] # None /\ promise[source[c]] = "ok"

\* A page whose browser is there is answered with every panel of the page, in the
\* declared order, whichever of them failed or ended first and whether its budget
\* was spent or not; a panel whose first ask came is drawn in it, even one that came
\* before the budget took the others (panels.ts:182-203 and 226-228).  A page is
\* never a 502, and a 499 only without a browser.
PagesAreWhole ==
  \A r \in Request : phase[r] = "answered" /\ route[r][1] = "page" =>
    /\ status[r] # 502
    /\ status[r] = 499 => gone[r]
    /\ status[r] = 200 =>
         /\ [i \in DOMAIN shown[r] |-> shown[r][i].id] = Ids(r)
         /\ \A i \in DOMAIN Ids(r) :
              shown[r][i].drawn <=> (AsksOf(r, i) = <<>> \/ Came(<<r, i, 1>>))

\* The request that asked AWS for what call c was given.
Origin(c) == source[c][1]

\* A swap or a save came between the beginning of request r and the load of d.
Overtaken(r, d) == began[r] < claimed[d]

\* Neither a metric key nor that of a discovery names the account, so that only the
\* emptied cache keeps accounts apart (connect.ts:60-62).  A request that begins
\* after a swap is shown nothing that another connection was asked before it,
\* whoever asked and whenever the answer came; what was asked with another
\* connection than the request's own was asked after a swap, for a request that
\* began before: the one it is shown to, or one that asks late, in a second ask
\* (service.ts:112-114) or again after waiting.
OneAccountUnlessOvertaken ==
  \A c \in Caller :
    source[c] # None /\ snap[Origin(c)] # snap[c[1]]
      => Overtaken(c[1], source[c]) \/ Overtaken(Origin(c), source[c])

\* A request that began with the new connection is never shown what an earlier one
\* was told (connect.ts:60-62: emptying the cache is what makes the swap honest).
SwapIsHonest ==
  \A c \in Caller :
    source[c] # None /\ began[c[1]] > began[Origin(c)] => snap[Origin(c)] = snap[c[1]]

\* Every request is answered: a page does not wait for a second ask that never
\* comes, nor for a load of somebody else's that nobody ends (panels.ts:182-190).
EveryRequestAnswered ==
  \A r \in Request : phase[r] = "building" ~> phase[r] = "answered"

===============================================================================
