------------------------------- MODULE PageView -------------------------------
(***************************************************************************)
(* A dashboard page in the browser: lib/timerange.svelte.ts (the time      *)
(* selection, one for all pages), lib/components/PageView.svelte (one      *)
(* request for the whole page), lib/visibility.ts (an interval that is     *)
(* quiet while the tab is hidden) and the failures of lib/api.ts.          *)
(*                                                                         *)
(* The browser runs one task at a time, and effects run before the next    *)
(* task: an action is a task with the effects it triggers, and with the    *)
(* last continuation of a request it aborts.  So there is at most one      *)
(* request in flight.  Time passes in steps of 30 s.                       *)
(*                                                                         *)
(* Bounds: MaxActs counts what the operator does; nonce is counted modulo  *)
(* NonceMod (only whether it differs from the last one matters).           *)
(***************************************************************************)
EXTENDS TimeWindow

CONSTANTS
  None,
  Links,      (* URL parameters a page may be opened with, as typed         *)
  Namespaces, (* what an operator may type as a namespace, already trimmed  *)
  MaxActs,
  NonceMod

\* A duration as it stands in an address, a namespace that may come to be applied,
\* what a request is about, and what stands in an address.
Texts == Int \X {"s", "m", "h", "empty", "junk"}
Names == (Namespaces \cup {l.namespace : l \in Links} \cup {""}) \ {None}
Keys == Texts \X Texts \X Names \X Nat
Flights == [key : Keys, stage : {"sent", "accepted", "refused"}, age : Nat]
Addresses == [range : Texts \cup {None}, period : Texts \cup {None},
              refresh : Int \cup {None}, namespace : Names \cup {None}]

ASSUME PageViewAssumption ==
  /\ MaxActs \in Nat
  /\ NonceMod \in Nat \ {0, 1}
  /\ Links \subseteq Addresses
  /\ None \notin Namespaces \cup {""} \cup Keys \cup Flights \cup Addresses

VARIABLES
  ranges, range, period, refreshSeconds, nonce,  (* timeRange              *)
  url,              (* the parameters in the address bar, None: no page    *)
  appliedNamespace, (* "" is the one of the settings, "*" is all           *)
  flight,           (* the request under way: key, stage, age              *)
  payload,          (* the key of the answer on screen, or None            *)
  error,            (* the key of the request whose failure is shown       *)
  loading, requestedKey,
  metaPending,      (* /api/meta has not been answered                     *)
  hidden,           (* document.hidden                                     *)
  wait, missed,     (* the interval: steps to its next tick, a tick missed *)
  cut,              (* history: the error is of a request aborted while    *)
                    (* the text of its failure was being read              *)
  acts

selectionVars == <<ranges, range, period, nonce, appliedNamespace>>
requestVars == <<url, flight, payload, error, loading, requestedKey, cut>>
intervalVars == <<refreshSeconds, wait, missed>>
vars == <<selectionVars, requestVars, intervalVars, metaPending, hidden, acts>>

MAX_RANGE_SECONDS == 4 * 60 * 60
DEFAULT_REFRESH_SECONDS == 2
REFRESH_CHOICES == {0, 1, 2, 10}   \* off, 30 s, 1 min, 5 min
PageTimeout == 3                   \* 95 s: after three steps, before the fourth

min(n) == <<n, "m">>
hr(n) == <<n, "h">>
Offer(r, s, ps, d) == [range |-> r, seconds |-> s, periods |-> ps, defaultPeriod |-> d]

\* Mutant: two hours are offered by the hour, which is two buckets.
FallbackByTheHour ==
  {Offer(min(15), 900, {min(1)}, min(1)), Offer(min(30), 1800, {min(1), min(5)}, min(1)),
   Offer(hr(1), 3600, {min(1), min(5), min(10)}, min(1)),
   Offer(hr(2), 7200, {min(1), min(5), min(10), hr(1)}, min(1)),
   Offer(hr(4), 14400, {min(1), min(5), min(10), hr(1)}, min(5))}

FALLBACK ==
  {Offer(min(15), 900, {min(1)}, min(1)), Offer(min(30), 1800, {min(1), min(5)}, min(1)),
   Offer(hr(1), 3600, {min(1), min(5), min(10)}, min(1)),
   Offer(hr(2), 7200, {min(1), min(5), min(10)}, min(1)),
   Offer(hr(4), 14400, {min(1), min(5), min(10), hr(1)}, min(5))}

\* What the server says it accepts (http/settings.ts).
handleMeta ==
  {Offer(compactDuration(r), r, {compactDuration(p) : p \in periodsFor(r)},
         compactDuration(defaultPeriod(r))) : r \in InSeq(allRanges)}
defaultRange == compactDuration(hour)

Known(rs, r) == \E e \in rs : e.range = r
Find(rs, r) == CHOOSE e \in rs : e.range = r
PeriodsOf(rs, r) == IF Known(rs, r) THEN Find(rs, r).periods ELSE {min(1)}

isValid ==
  /\ Known(ranges, range)
  /\ Find(ranges, range).seconds <= MAX_RANGE_SECONDS
  /\ period \in Find(ranges, range).periods

\* Mutant: a period that the new range does not have is kept.
KeepPeriod(rs, r, p) == p

reconcilePeriod(rs, r, p) ==
  IF p \in PeriodsOf(rs, r) THEN p
  ELSE IF Known(rs, r) THEN Find(rs, r).defaultPeriod ELSE min(1)

Parameters(r, p, s, n) == [range |-> r, period |-> p, refresh |-> s, namespace |-> n]
NoParameters == Parameters(None, None, None, None)

toSearchParams ==
  Parameters(range, period, refreshSeconds, IF appliedNamespace = "" THEN None ELSE appliedNamespace)

\* Mutant: the period is judged by the range before it is restored.
PeriodFirst(rs, r0, p0, params) ==
  LET p == IF params.period \in PeriodsOf(rs, r0) THEN params.period ELSE p0
      r == IF Known(rs, params.range) THEN params.range ELSE r0
  IN  [range |-> r, period |-> reconcilePeriod(rs, r, p),
       refresh |-> IF params.refresh \in REFRESH_CHOICES THEN params.refresh
                   ELSE DEFAULT_REFRESH_SECONDS]

\* The selection after params have been read over r0 and p0.
fromSearchParams(rs, r0, p0, params) ==
  LET r == IF Known(rs, params.range) THEN params.range ELSE r0
  IN  [range |-> r,
       period |-> IF params.period \in PeriodsOf(rs, r) THEN params.period
                  ELSE reconcilePeriod(rs, r, p0),
       refresh |-> IF params.refresh \in REFRESH_CHOICES THEN params.refresh
                   ELSE DEFAULT_REFRESH_SECONDS]

Selected == <<range, period, appliedNamespace, nonce>>

Sent(key) == [key |-> key, stage |-> "sent", age |-> 0]

(***************************************************************************)
(* load(), from its first line to its await, and then the end of the       *)
(* request it aborts.  Aborted before its headers or in its body, that     *)
(* request rejects with AbortError and load() returns.  Aborted while the  *)
(* body of a failure is read, request() swallows the abort and throws the  *)
(* failure, which load() shows.                                            *)
(***************************************************************************)
load(key) ==
  LET refused == flight # None /\ flight.stage = "refused"
  IN  /\ flight' = Sent(key)
      /\ loading' = TRUE
      /\ requestedKey' = key
      /\ cut' = refused
      /\ error' = IF refused THEN flight.key ELSE None
      /\ payload' = IF refused THEN None ELSE payload

\* The effect over the selection, run when a signal it tracks has changed.
Reselect ==
  IF Selected' = Selected THEN UNCHANGED requestVars
  ELSE /\ url' = toSearchParams'
       /\ IF isValid' /\ Selected' # requestedKey THEN load(Selected')
          ELSE UNCHANGED <<flight, payload, error, loading, requestedKey, cut>>

(***************************************************************************)
(* The page is mounted: the selection is restored from the address, then   *)
(* the first request leaves.  A request of the page before it is aborted,  *)
(* and what it ends in reaches nothing on screen.                          *)
(***************************************************************************)
Mount(rs, r0, p0, params) ==
  LET sel == fromSearchParams(rs, r0, p0, params)
  IN  /\ ranges' = rs
      /\ range' = sel.range
      /\ period' = sel.period
      /\ refreshSeconds' = sel.refresh
      /\ appliedNamespace' = IF params.namespace = None THEN "" ELSE params.namespace
      /\ url' = toSearchParams'
      /\ payload' = None
      /\ error' = None
      /\ cut' = FALSE
      /\ flight' = IF isValid' THEN Sent(Selected') ELSE None
      /\ loading' = isValid'
      /\ requestedKey' = IF isValid' THEN Selected' ELSE None
      /\ wait' = sel.refresh
      /\ missed' = FALSE

Act ==
  /\ acts < MaxActs
  /\ ~hidden
  /\ acts' = acts + 1

\* The whole application is loaded: the time selection starts over.
Open(params) ==
  /\ Act
  /\ nonce' = 0
  /\ Mount(FALLBACK, hr(1), min(1), params)
  /\ metaPending' = TRUE
  /\ UNCHANGED hidden

OpenLink == \E link \in Links : Open(link)

Reload == url # None /\ Open(url)

\* A link of the navigation bar, which carries no parameters.
Navigate ==
  /\ Act
  /\ url # None
  /\ UNCHANGED <<nonce, metaPending, hidden>>
  /\ Mount(ranges, range, period, NoParameters)

UserSelects ==
  /\ Act
  /\ url # None
  /\ UNCHANGED <<ranges, metaPending, hidden>>

setRange(r) ==
  /\ UserSelects
  /\ Known(ranges, r)
  /\ range' = r
  /\ period' = reconcilePeriod(ranges, r, period)
  /\ UNCHANGED <<nonce, appliedNamespace, intervalVars>>
  /\ Reselect

setPeriod(p) ==
  /\ UserSelects
  /\ p \in PeriodsOf(ranges, range)
  /\ period' = p
  /\ UNCHANGED <<range, nonce, appliedNamespace, intervalVars>>
  /\ Reselect

\* "*" is the choice of all, "" that of the settings; a typed one is not empty.
applyNamespace(n) ==
  /\ UserSelects
  /\ appliedNamespace' = n
  /\ UNCHANGED <<range, period, nonce, intervalVars>>
  /\ Reselect

refresh ==
  /\ nonce' = (nonce + 1) % NonceMod
  /\ UNCHANGED <<ranges, range, period, appliedNamespace>>
  /\ Reselect

\* The button is disabled while a request is under way.
PressRefresh ==
  /\ Act
  /\ url # None
  /\ ~loading
  /\ UNCHANGED <<intervalVars, metaPending, hidden>>
  /\ refresh

\* The address is not rewritten: the effect that writes it does not track this.
SetRefresh(s) ==
  /\ UserSelects
  /\ s # refreshSeconds
  /\ refreshSeconds' = s
  /\ wait' = s
  /\ missed' = FALSE
  /\ UNCHANGED <<range, period, nonce, appliedNamespace, requestVars>>

\* visibleInterval's tick.
Tick ==
  /\ url # None
  /\ refreshSeconds > 0
  /\ wait = 0
  /\ wait' = refreshSeconds
  /\ UNCHANGED <<refreshSeconds, metaPending, hidden, acts>>
  /\ \/ /\ hidden
        /\ missed' = TRUE
        /\ UNCHANGED <<selectionVars, url, flight, payload, error, loading, requestedKey, cut>>
     \/ /\ ~hidden
        /\ refresh
        /\ UNCHANGED missed

\* visibilitychange.
Hide ==
  /\ url # None
  /\ ~hidden
  /\ hidden' = TRUE
  /\ UNCHANGED <<selectionVars, requestVars, intervalVars, metaPending, acts>>

Show ==
  /\ hidden
  /\ hidden' = FALSE
  /\ missed' = FALSE
  /\ UNCHANGED <<refreshSeconds, wait, metaPending, acts>>
  /\ IF missed THEN refresh ELSE UNCHANGED <<selectionVars, requestVars>>

\* applyMeta.  /api/meta may also never be answered.
MetaArrives ==
  /\ url # None
  /\ metaPending
  /\ metaPending' = FALSE
  /\ ranges' = {e \in handleMeta : e.seconds <= MAX_RANGE_SECONDS}
  /\ range' = IF Known(ranges', range) THEN range ELSE defaultRange
  /\ period' = reconcilePeriod(ranges', range', period)
  /\ UNCHANGED <<nonce, appliedNamespace, intervalVars, hidden, acts>>
  /\ Reselect

Untouched == UNCHANGED <<selectionVars, url, requestedKey, intervalVars, metaPending, hidden, acts>>

\* The status line and the headers of the answer.
HeadersArrive ==
  /\ flight # None
  /\ flight.stage = "sent"
  /\ \E s \in {"accepted", "refused"} : flight' = [flight EXCEPT !.stage = s]
  /\ UNCHANGED <<payload, error, loading, cut>>
  /\ Untouched

BodyArrives ==
  /\ flight # None
  /\ flight.stage = "accepted"
  /\ payload' = flight.key
  /\ flight' = None
  /\ loading' = FALSE
  /\ UNCHANGED <<error, cut>>
  /\ Untouched

Fails ==
  /\ error' = flight.key
  /\ payload' = None
  /\ flight' = None
  /\ loading' = FALSE
  /\ cut' = FALSE
  /\ Untouched

\* No connection, a broken one, or the end of the text of a failure.
RequestFails == flight # None /\ Fails

\* Mutant: the signal of the page is passed on without the limit.
SignalWithoutLimit == flight # None /\ flight.age > PageTimeout /\ Fails

TimesOut == flight # None /\ flight.age >= PageTimeout /\ Fails

\* Thirty seconds; what is due comes first.
TimePasses ==
  /\ url # None
  /\ flight # None => flight.age < PageTimeout
  /\ refreshSeconds > 0 => wait > 0
  /\ flight' = IF flight = None THEN None ELSE [flight EXCEPT !.age = @ + 1]
  /\ wait' = IF refreshSeconds > 0 THEN wait - 1 ELSE wait
  /\ UNCHANGED <<selectionVars, url, payload, error, loading, requestedKey, cut,
                 refreshSeconds, missed, metaPending, hidden, acts>>

Init ==
  /\ ranges = FALLBACK
  /\ range = hr(1)
  /\ period = min(1)
  /\ refreshSeconds = DEFAULT_REFRESH_SECONDS
  /\ nonce = 0
  /\ appliedNamespace = ""
  /\ url = None /\ flight = None /\ payload = None /\ error = None /\ requestedKey = None
  /\ loading = FALSE
  /\ metaPending = FALSE
  /\ hidden = FALSE
  /\ wait = 0
  /\ missed = FALSE
  /\ cut = FALSE
  /\ acts = 0

Next ==
  \/ OpenLink
  \/ Reload
  \/ Navigate
  \/ \E e \in ranges : setRange(e.range)
  \/ \E p \in PeriodsOf(ranges, range) : setPeriod(p)
  \/ \E n \in Namespaces : applyNamespace(n)
  \/ PressRefresh
  \/ \E s \in REFRESH_CHOICES : SetRefresh(s)
  \/ Tick
  \/ Hide
  \/ Show
  \/ MetaArrives
  \/ HeadersArrive
  \/ BodyArrives
  \/ RequestFails
  \/ TimesOut
  \/ TimePasses

Spec == Init /\ [][Next]_vars

\* Nothing of the server is fair, and nothing of the operator: only timers are.
FairSpec == Spec /\ WF_vars(Tick) /\ WF_vars(TimesOut) /\ WF_vars(TimePasses)

(***************************************************************************)
(* Every request the page sends names a range and a period that the server *)
(* accepts: the picker's own table, the one of /api/meta and the rules of  *)
(* the server agree, whatever was typed into the address.                  *)
(***************************************************************************)
RequestsAreAccepted ==
  flight # None => resolveWindow(0, flight.key[1], flight.key[2]) # {}

(***************************************************************************)
(* Once nothing is loading, the screen is that of the selection: its       *)
(* answer, or its failure.  The exception is a failure cut while its text  *)
(* was being read: it is shown over the answer of the next request.        *)
(***************************************************************************)
ScreenIsOfSelection ==
  url # None /\ ~loading =>
    IF error = None \/ cut THEN payload = Selected
    ELSE error = Selected /\ payload = None

(***************************************************************************)
(* A page that is loaded again opens the view it had: the address keeps up *)
(* with the selection, and what it holds is restored whole, in whichever   *)
(* order /api/meta and the operator come.                                  *)
(***************************************************************************)
ReloadOpensSameView ==
  [][Reload => <<range, period, appliedNamespace>>' = <<range, period, appliedNamespace>>]_vars

(***************************************************************************)
(* A load ends, with the server's answer or by the browser's limit, unless *)
(* the page refreshes itself more often than that limit.                   *)
(***************************************************************************)
LoadsEnd == loading ~> (~loading \/ refreshSeconds \in 1..PageTimeout)

(***************************************************************************)
(* The skeleton does not stay: api.ts bounds a page by PAGE_TIMEOUT_MS so  *)
(* that it does not pulse for ever with nothing on screen to say why.      *)
(***************************************************************************)
SkeletonEnds ==
  (url # None /\ payload = None /\ error = None) ~> (payload # None \/ error # None)
===============================================================================
