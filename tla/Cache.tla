-------------------------------- MODULE Cache ---------------------------------
(***************************************************************************)
(* The query cache of the node engine, server/src/aws/cache.ts: the class  *)
(* Cache and every call of Cache.do running at once.                       *)
(*                                                                         *)
(* A call of do claims a key at most once (it returns or throws right      *)
(* after its own load settles), so an Entry object of the code is named    *)
(* here after the caller that made it: entries[k] = c says that key k      *)
(* holds the entry that caller c put there.  expires, settled and promise  *)
(* are the fields of that entry.                                           *)
(*                                                                         *)
(* node runs one continuation at a time, so an action is the code between  *)
(* two awaits.  The continuation of the owner is the first reaction        *)
(* registered on entry.promise, so no other caller sees the promise        *)
(* resolved before the owner has done its bookkeeping: LoadSettles is both *)
(* the resolution and that bookkeeping.                                    *)
(*                                                                         *)
(* Bounds: MaxTime caps the clock, MaxEpoch the number of invalidations.   *)
(* The number of calls is the size of Caller.                              *)
(***************************************************************************)
EXTENDS Integers

CONSTANTS
  Caller,    (* calls of Cache.do                                          *)
  Key,       (* cache keys: request shapes                                 *)
  None,      (* no entry, no key, no load                                  *)
  TTL,       (* ttlMs                                                      *)
  ErrorTTL,  (* errorTtlMs                                                 *)
  MaxTime,
  MaxEpoch

\* The constructor replaces a lifetime that is not positive by its default.
ASSUME CacheAssumption ==
  /\ None \notin Caller
  /\ None \notin Key
  /\ TTL \in Nat \ {0}
  /\ ErrorTTL \in Nat \ {0}
  /\ MaxTime \in Nat
  /\ MaxEpoch \in Nat

VARIABLES
  now,      (* Date.now()                                                  *)
  entries,  (* the Map: the entry each key holds, or None                  *)
  expires,  (* Entry.expires                                               *)
  settled,  (* Entry.settled                                               *)
  promise,  (* what Entry.promise resolved to                              *)
  pc,       (* where each call of do stands                                *)
  key,      (* its argument key                                            *)
  waiting,  (* its local variable waiting                                  *)
  aborted,  (* signal.aborted of its argument signal                       *)
  source,   (* history: the entry whose outcome the call gave its caller   *)
  epoch,    (* history: number of invalidations                            *)
  claimed,  (* history: the value of epoch when an entry was made          *)
  ended     (* history: the time an entry's promise settled                *)

vars == <<now, entries, expires, settled, promise, pc, key, waiting, aborted,
          source, epoch, claimed, ended>>

entryVars == <<expires, settled, promise, claimed, ended>>

Finished == {"returned", "threw"}

Init ==
  /\ now = 0
  /\ entries = [k \in Key |-> None]
  /\ expires = [c \in Caller |-> 0]
  /\ settled = [c \in Caller |-> FALSE]
  /\ promise = [c \in Caller |-> "pending"]
  /\ pc = [c \in Caller |-> "idle"]
  /\ key = [c \in Caller |-> None]
  /\ waiting = [c \in Caller |-> None]
  /\ aborted = [c \in Caller |-> FALSE]
  /\ source = [c \in Caller |-> None]
  /\ epoch = 0
  /\ claimed = [c \in Caller |-> 0]
  /\ ended = [c \in Caller |-> 0]

\* Entries prune() drops: settled ones past their time, never one under way.
Prunable(m) == {k \in Key : m[k] # None /\ settled[m[k]] /\ now > expires[m[k]]}

Pruned(m) == [k \in Key |-> IF k \in Prunable(m) THEN None ELSE m[k]]

\* Mutant: the entry is deleted whoever holds the key by now.
DroppedBlindly(k, e) == [entries EXCEPT ![k] = None]

\* The map without entry e, if key k still holds it.
Dropped(k, e) == IF entries[k] = e THEN [entries EXCEPT ![k] = None] ELSE entries

\* The call finds an entry under its key and awaits its promise.
Waits(c, k, m) ==
  /\ Pruned(m)[k] # None
  /\ entries' = Pruned(m)
  /\ pc' = [pc EXCEPT ![c] = "waiting"]
  /\ waiting' = [waiting EXCEPT ![c] = Pruned(m)[k]]
  /\ UNCHANGED entryVars

\* The call finds none: it puts its own entry there and calls load.
Claims(c, k, m) ==
  /\ Pruned(m)[k] = None
  /\ entries' = [Pruned(m) EXCEPT ![k] = c]
  /\ expires' = [expires EXCEPT ![c] = now + TTL]
  /\ claimed' = [claimed EXCEPT ![c] = epoch]
  /\ pc' = [pc EXCEPT ![c] = "loading"]
  /\ waiting' = [waiting EXCEPT ![c] = None]
  /\ UNCHANGED <<settled, promise, ended>>

\* One turn of the loop of do, over the map m, up to its first await.
Turn(c, k, m) == Waits(c, k, m) \/ Claims(c, k, m)

\* The call starts.
Enter(c, k) ==
  /\ pc[c] = "idle"
  /\ key' = [key EXCEPT ![c] = k]
  /\ Turn(c, k, entries)
  /\ UNCHANGED <<now, aborted, source, epoch>>

\* Mutant: only the clock is asked, not the map.
FreshByClock(c) == now < expires[waiting[c]]

\* Whether an entry a call waited for may still be given to it.
Fresh(c) == entries[key[c]] = waiting[c] /\ now < expires[waiting[c]]

\* The promise a call waited for has settled and its entry is still good.
WaiterTakes(c) ==
  /\ pc[c] = "waiting"
  /\ settled[waiting[c]]
  /\ Fresh(c)
  /\ pc' = [pc EXCEPT ![c] = IF promise[waiting[c]] = "ok" THEN "returned" ELSE "threw"]
  /\ source' = [source EXCEPT ![c] = waiting[c]]
  /\ UNCHANGED <<now, entries, entryVars, key, waiting, aborted, epoch>>

\* Mutant: the stale entry is left where it is.
WaiterRetriesInPlace(c) ==
  /\ pc[c] = "waiting"
  /\ settled[waiting[c]]
  /\ ~Fresh(c)
  /\ Turn(c, key[c], entries)
  /\ UNCHANGED <<now, key, aborted, source, epoch>>

\* It has settled but the entry expired or was replaced meanwhile: drop it if
\* it is still there and go round the loop, without another await between.
WaiterRetries(c) ==
  /\ pc[c] = "waiting"
  /\ settled[waiting[c]]
  /\ ~Fresh(c)
  /\ Turn(c, key[c], Dropped(key[c], waiting[c]))
  /\ UNCHANGED <<now, key, aborted, source, epoch>>

\* The load a call started succeeds, whatever became of its entry.
LoadReturns(c) ==
  /\ pc[c] = "loading"
  /\ settled' = [settled EXCEPT ![c] = TRUE]
  /\ ended' = [ended EXCEPT ![c] = now]
  /\ promise' = [promise EXCEPT ![c] = "ok"]
  /\ expires' = [expires EXCEPT ![c] = now + TTL]
  /\ pc' = [pc EXCEPT ![c] = "returned"]
  /\ source' = [source EXCEPT ![c] = c]
  /\ UNCHANGED <<now, entries, key, waiting, aborted, epoch, claimed>>

\* The load fails and its caller is still there: the failure is remembered.
LoadThrows(c) ==
  /\ pc[c] = "loading"
  /\ ~aborted[c]
  /\ settled' = [settled EXCEPT ![c] = TRUE]
  /\ ended' = [ended EXCEPT ![c] = now]
  /\ promise' = [promise EXCEPT ![c] = "error"]
  /\ expires' = [expires EXCEPT ![c] = now + ErrorTTL]
  /\ pc' = [pc EXCEPT ![c] = "threw"]
  /\ source' = [source EXCEPT ![c] = c]
  /\ UNCHANGED <<now, entries, key, waiting, aborted, epoch, claimed>>

\* Mutant: the failure of an absent caller is remembered like any other.
LoadAbandonedKept(c) ==
  /\ pc[c] = "loading"
  /\ aborted[c]
  /\ settled' = [settled EXCEPT ![c] = TRUE]
  /\ ended' = [ended EXCEPT ![c] = now]
  /\ promise' = [promise EXCEPT ![c] = "gone"]
  /\ expires' = [expires EXCEPT ![c] = now + ErrorTTL]
  /\ pc' = [pc EXCEPT ![c] = "threw"]
  /\ source' = [source EXCEPT ![c] = c]
  /\ UNCHANGED <<now, entries, key, waiting, aborted, epoch, claimed>>

\* The load fails after its caller went away: a fact about the caller ("gone").
LoadAbandoned(c) ==
  /\ pc[c] = "loading"
  /\ aborted[c]
  /\ settled' = [settled EXCEPT ![c] = TRUE]
  /\ ended' = [ended EXCEPT ![c] = now]
  /\ promise' = [promise EXCEPT ![c] = "gone"]
  /\ entries' = Dropped(key[c], c)
  /\ pc' = [pc EXCEPT ![c] = "threw"]
  /\ source' = [source EXCEPT ![c] = c]
  /\ UNCHANGED <<now, expires, key, waiting, aborted, epoch, claimed>>

LoadSettles(c) == LoadReturns(c) \/ LoadThrows(c) \/ LoadAbandoned(c)

\* The request behind a call goes away.  do itself does not listen: a waiting
\* call goes on waiting for somebody else's load.
Abort(c) ==
  /\ pc[c] \in {"waiting", "loading"}
  /\ ~aborted[c]
  /\ aborted' = [aborted EXCEPT ![c] = TRUE]
  /\ UNCHANGED <<now, entries, entryVars, pc, key, waiting, source, epoch>>

\* invalidate(): settings or credentials were saved.
Invalidate ==
  /\ epoch < MaxEpoch
  /\ entries' = [k \in Key |-> None]
  /\ epoch' = epoch + 1
  /\ UNCHANGED <<now, entryVars, pc, key, waiting, aborted, source>>

Tick ==
  /\ now < MaxTime
  /\ now' = now + 1
  /\ UNCHANGED <<entries, entryVars, pc, key, waiting, aborted, source, epoch>>

\* Every call has been answered.
Quiet == (\A c \in Caller : pc[c] \in Finished) /\ UNCHANGED vars

Step(c) ==
  \/ \E k \in Key : Enter(c, k)
  \/ WaiterTakes(c)
  \/ WaiterRetries(c)
  \/ LoadSettles(c)
  \/ Abort(c)

Next == (\E c \in Caller : Step(c)) \/ Invalidate \/ Tick \/ Quiet

Spec == Init /\ [][Next]_vars

\* Promise reactions always run; a load ends because every AWS call under it
\* carries a deadline.  Nothing forces a request to arrive, to be aborted, or
\* the settings to be saved.
Fairness ==
  \A c \in Caller : WF_vars(WaiterTakes(c) \/ WaiterRetries(c)) /\ WF_vars(LoadSettles(c))

FairSpec == Spec /\ Fairness

-------------------------------------------------------------------------------

\* How long an answer may be handed out, counted from its arrival.
Lifetime(c) == IF promise[c] = "ok" THEN TTL ELSE ErrorTTL

TypeOK ==
  /\ now \in Nat
  /\ entries \in [Key -> Caller \cup {None}]
  /\ expires \in [Caller -> Nat]
  /\ settled \in [Caller -> BOOLEAN]
  /\ promise \in [Caller -> {"pending", "ok", "error", "gone"}]
  /\ pc \in [Caller -> {"idle", "waiting", "loading"} \cup Finished]
  /\ key \in [Caller -> Key \cup {None}]
  /\ waiting \in [Caller -> Caller \cup {None}]
  /\ aborted \in [Caller -> BOOLEAN]
  /\ source \in [Caller -> Caller \cup {None}]
  /\ epoch \in Nat
  /\ claimed \in [Caller -> Nat]
  /\ ended \in [Caller -> Nat]

\* Calls on one key that miss together are one load (cache.ts:49-51, "load is
\* called at most once over all callers that came in as misses"): two loads of
\* a key under way at once are on either side of an invalidation.
OneLoadPerKey ==
  \A c, d \in Caller :
    c # d /\ pc[c] = "loading" /\ pc[d] = "loading" /\ key[c] = key[d]
      => claimed[c] # claimed[d]

\* The failure of a call whose own request went away is handed to no other
\* call (cache.ts:85-86), however the waiting, the retry and the expiry
\* interleave.
NoBorrowedAbort ==
  \A c \in Caller :
    source[c] \notin {None, c} => promise[source[c]] \in {"ok", "error"}

\* A shared answer is of the asked key, was loaded after the last invalidation
\* (cache.ts:117-120, "the next read reflects the new choice at once") and
\* has not outlived its lifetime when it is handed over (cache.ts:60-61).
SharedAnswersAreCurrent ==
  [][\A c \in Caller :
       source'[c] # source[c] /\ source'[c] # c
         => /\ key[source'[c]] = key[c]
            /\ claimed[source'[c]] = epoch
            /\ now < ended[source'[c]] + Lifetime(source'[c])]_vars

\* A dependency is asked again only when the last answer about it, a failure
\* as well as a value, has run its time or was invalidated (cache.ts:8-9 and
\* 27-29: no retry storm).
LoadsAreSpaced ==
  [][\A c, d \in Caller :
          /\ pc[c] # "loading" /\ pc'[c] = "loading"
          /\ c # d /\ key[d] = key'[c] /\ claimed[d] = epoch
          /\ promise[d] \in {"ok", "error"}
       => now >= ended[d] + Lifetime(d)]_vars

\* Every call is answered: a waiter never goes round the loop for ever, not
\* even at the instant now = expires, where prune keeps an entry that is no
\* longer fresh.
EveryCallAnswered ==
  \A c \in Caller : pc[c] # "idle" ~> pc[c] \in Finished

\* The mapping under which this module implements SingleFlight.
Phase == [idle |-> "out", waiting |-> "asked", loading |-> "loading",
          returned |-> "answered", threw |-> "answered"]

SF == INSTANCE SingleFlight WITH
        state <- [c \in Caller |-> Phase[pc[c]]],
        asked <- key,
        current <- entries,
        result <- promise

\* The cache, seen without its clock, its waiting and its aborts, is a
\* SingleFlight.
SingleFlightSpec == SF!Spec

===============================================================================
