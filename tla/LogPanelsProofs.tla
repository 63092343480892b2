--------------------------- MODULE LogPanelsProofs ----------------------------
(***************************************************************************)
(* The log panels for every number of requests, connections, regions and   *)
(* queries: the theorems of LogPanels.tla.                                 *)
(*                                                                         *)
(* LogSpec implies Spec of Cache, so the inductive invariants of           *)
(* CacheProofs hold of the panels, and LogInv below has only to say what   *)
(* the cache does not know: which connection a request took, and how the   *)
(* queries of its wave ended.                                              *)
(***************************************************************************)
EXTENDS LogPanels, CacheProofs

\* The key of a call is of the region of its connection.
KeyInv == \A c \in Caller : pc[c] # "idle" => key[c][2] = RegionOf[snap[c]]

\* A shared answer is of a request that began, and asked for the same key.
SharedInv ==
  \A c \in Caller :
    Shared(c) => /\ source[c] \in Caller
                 /\ pc[c] # "idle" /\ pc[source[c]] # "idle"
                 /\ key[source[c]] = key[c]

\* The connection of a request is the one of the epoch it began in.
BeganInv ==
  /\ \A c \in Caller :
       pc[c] # "idle" => began[c] <= epoch /\ (began[c] = epoch => snap[c] = account)
  /\ \A c, d \in Caller :
       pc[c] # "idle" /\ pc[d] # "idle" /\ began[c] = began[d] => snap[c] = snap[d]

\* What an entry was settled to, and how the queries of its wave ended.
WaveInv ==
  \A c \in Caller :
    /\ promise[c] = "ok" => ~NothingCameBack(c)
    /\ promise[c] = "error" => \A i \in Query : wave[c][i] # "aborted"
    /\ (\E i \in Query : wave[c][i] = "aborted") => aborted[c]

\* A load begins no earlier than the request it is for.
LoadedInv == \A c \in Caller : Owns(c) => began[c] <= claimed[c]

\* Nothing is shared that was loaded before the asking request began.  This is
\* where the emptied cache counts: what is handed out was in the map, and what is
\* in the map was loaded in this epoch (MapInv), later than no beginning.
GivenInv == \A c \in Caller : Shared(c) => began[c] <= claimed[source[c]]

LogInv ==
  LogTypeOK /\ KeyInv /\ SharedInv /\ BeganInv /\ WaveInv /\ LoadedInv /\ GivenInv

-------------------------------------------------------------------------------

\* A step of the panels is a step of the cache, or none of it.
LEMMA LogStepIsCacheStep == LogTypeOK /\ [LogNext]_allVars => [Next]_vars
<1> SUFFICES ASSUME LogTypeOK, [LogNext]_allVars PROVE [Next]_vars
  OBVIOUS
<1>1. ASSUME NEW c \in Caller, Ask(c) PROVE Next
  <2>1. PICK s \in Shape : Enter(c, KeyOf(s, account))
    BY <1>1 DEF Ask
  <2>2. account \in Account
    BY <1>1 DEF Ask, LogTypeOK
  <2>3. KeyOf(s, account) \in Key
    BY <2>2, LogPanelsAssumption DEF KeyOf
  <2> QED BY <2>1, <2>3 DEF Next, Step
<1>2. ASSUME NEW c \in Caller, NEW i \in Query, QueryEnds(c, i) PROVE [Next]_vars
  BY <1>2 DEF QueryEnds, Settles, Next, Step, LoadSettles
<1>3. ASSUME NEW c \in Caller, Waiter(c) PROVE Next
  BY <1>3 DEF Waiter, Next, Step
<1>4. ASSUME NEW c \in Caller, Leaves(c) PROVE Next
  BY <1>4 DEF Leaves, Next, Step
<1>5. CASE (\E a \in Account \cup {None} : Swap(a)) \/ SettingsSaved \/ TimePasses \/ AllQuiet
  BY <1>5 DEF Swap, SettingsSaved, TimePasses, AllQuiet, Next
<1>6. CASE (\E c \in Caller : Refused(c)) \/ UNCHANGED allVars
  BY <1>6 DEF Refused, allVars
<1> QED BY <1>1, <1>2, <1>3, <1>4, <1>5, <1>6 DEF LogNext

LEMMA LogInitInv == LogInit => LogInv
  BY DEF LogInit, Init, LogInv, LogTypeOK, Waves, KeyInv, SharedInv, Shared, BeganInv,
         WaveInv, NothingCameBack, LoadedInv, GivenInv, Owns

\* A request begins.
LEMMA AskInv ==
  ASSUME IInv, LogInv, NEW c \in Caller, Ask(c)
  PROVE  LogInv'
<1> USE DEF IInv, LogInv
<1>1. PICK s \in Shape : Enter(c, KeyOf(s, account))
  BY DEF Ask
<1>2. account \in Account
  BY DEF Ask, LogTypeOK
<1>3. /\ pc[c] = "idle" /\ pc'[c] \in {"waiting", "loading"}
      /\ key' = [key EXCEPT ![c] = KeyOf(s, account)]
      /\ \A d \in Caller \ {c} : pc'[d] = pc[d]
      /\ UNCHANGED <<source, epoch, promise, aborted>>
  BY <1>1 DEF Enter, Turn, Waits, Claims, entryVars, TypeOK
<1>4. /\ snap' = [snap EXCEPT ![c] = account]
      /\ began' = [began EXCEPT ![c] = epoch]
      /\ UNCHANGED <<account, wave>>
  BY DEF Ask
<1>5. LogTypeOK'
  BY <1>2, <1>3, <1>4 DEF LogTypeOK, TypeOK
<1>6. KeyInv'
  BY <1>3, <1>4 DEF KeyInv, KeyOf, LogTypeOK, TypeOK
<1>7. SharedInv'
  BY <1>3, <1>4 DEF SharedInv, Shared, TypeOK
<1>8. BeganInv'
  BY <1>3, <1>4 DEF BeganInv, LogTypeOK, TypeOK
<1>9. WaveInv'
  BY <1>3, <1>4 DEF WaveInv, NothingCameBack
<1>10. /\ promise[c] = "pending" /\ ~Shared(c)
       /\ \A d \in Caller : Shared(d) => source[d] # c
  BY <1>3 DEF EntryInv, Finished, SharedInv
<1>11. /\ \A d \in Caller \ {c} : claimed'[d] = claimed[d]
       /\ Owns(c)' => claimed'[c] = epoch
  <2>1. CASE Waits(c, KeyOf(s, account), entries)
    BY <2>1, <1>3, <1>10 DEF Waits, entryVars, Owns, TypeOK
  <2>2. CASE Claims(c, KeyOf(s, account), entries)
    BY <2>2 DEF Claims, TypeOK
  <2> QED BY <1>1, <2>1, <2>2 DEF Enter, Turn
<1>12. LoadedInv'
  BY <1>3, <1>4, <1>11 DEF LoadedInv, Owns, TypeOK, LogTypeOK
<1>13. GivenInv'
  BY <1>3, <1>4, <1>10, <1>11 DEF GivenInv, Shared, SharedInv, LogTypeOK
<1> QED BY <1>5, <1>6, <1>7, <1>8, <1>9, <1>12, <1>13

\* A query ends, and with the last of its wave the load.
LEMMA QueryEndsInv ==
  ASSUME IInv, LogInv, NEW c \in Caller, NEW i \in Query, QueryEnds(c, i)
  PROVE  LogInv'
<1> USE DEF IInv, LogInv
<1>1. PICK e \in Ends(c) : wave' = [wave EXCEPT ![c][i] = e]
  BY DEF QueryEnds
<1>2. pc[c] = "loading" /\ promise[c] = "pending" /\ UNCHANGED <<account, snap, began>>
  BY DEF QueryEnds, EntryInv, Finished
<1>3. /\ e \in {"done", "failed", "aborted"}
      /\ e = "aborted" => aborted[c]
  BY DEF Ends
<1>4. /\ wave' \in [Caller -> Waves]
      /\ \A d \in Caller \ {c} : wave'[d] = wave[d]
      /\ \A j \in Query : wave'[c][j] = "aborted" => aborted[c]
  BY <1>1, <1>3 DEF LogTypeOK, Waves, WaveInv
<1>5. /\ \A d \in Caller \ {c} : pc'[d] = pc[d] /\ source'[d] = source[d] /\ promise'[d] = promise[d]
      /\ pc'[c] # "idle" /\ source'[c] \in {source[c], c}
      /\ UNCHANGED <<key, epoch, aborted, claimed>>
  BY <1>2 DEF QueryEnds, Settles, LoadReturns, LoadThrows, LoadAbandoned, vars, entryVars, TypeOK
<1>6. /\ promise'[c] = "ok" => \E j \in Query : wave'[c][j] = "done"
      /\ promise'[c] = "error" => ~aborted[c]
  BY <1>2 DEF QueryEnds, Settles, LoadReturns, LoadThrows, LoadAbandoned, vars, entryVars, TypeOK
<1>7. LogTypeOK'
  BY <1>2, <1>4, <1>5 DEF LogTypeOK
<1>8. KeyInv'
  BY <1>2, <1>5 DEF KeyInv
<1>9. SharedInv'
  BY <1>2, <1>5 DEF SharedInv, Shared
<1>10. BeganInv'
  BY <1>2, <1>5 DEF BeganInv
<1>11. WaveInv'
  <2> SUFFICES ASSUME NEW d \in Caller PROVE WaveInv!(d)'
    BY DEF WaveInv
  <2>1. CASE d = c
    BY <2>1, <1>4, <1>5, <1>6 DEF NothingCameBack
  <2>2. CASE d # c
    BY <2>2, <1>4, <1>5 DEF WaveInv, NothingCameBack
  <2> QED BY <2>1, <2>2
<1>12. LoadedInv'
  BY <1>2, <1>5 DEF LoadedInv, Owns
<1>13. GivenInv'
  BY <1>2, <1>5 DEF GivenInv, Shared
<1> QED BY <1>7, <1>8, <1>9, <1>10, <1>11, <1>12, <1>13

\* A waiting call takes the answer, or goes round the loop.
LEMMA WaiterInv ==
  ASSUME IInv, LogInv, NEW c \in Caller, Waiter(c)
  PROVE  LogInv'
<1> USE DEF IInv, LogInv
<1>1. /\ pc[c] = "waiting"
      /\ waiting[c] \in Caller
      /\ key[waiting[c]] = key[c]
      /\ pc[waiting[c]] # "idle"
  BY DEF Waiter, WaiterTakes, WaiterRetries, EntryInv, Owns, Finished
<1>2. /\ \A d \in Caller \ {c} : pc'[d] = pc[d] /\ source'[d] = source[d]
      /\ pc'[c] # "idle" /\ source'[c] \in {source[c], waiting[c]}
      /\ UNCHANGED <<key, epoch, aborted, promise, account, snap, wave, began>>
  BY DEF Waiter, WaiterTakes, WaiterRetries, Turn, Waits, Claims, entryVars, logVars, TypeOK
<1>3. LogTypeOK'
  BY <1>1, <1>2 DEF LogTypeOK
<1>4. KeyInv'
  BY <1>1, <1>2 DEF KeyInv
<1>5. SharedInv'
  BY <1>1, <1>2 DEF SharedInv, Shared
<1>6. BeganInv'
  BY <1>1, <1>2 DEF BeganInv
<1>7. WaveInv'
  BY <1>2 DEF WaveInv, NothingCameBack
<1>8. began[c] <= epoch /\ began[c] \in Nat /\ epoch \in Nat
  BY <1>1 DEF BeganInv, LogTypeOK, TypeOK
<1>9. promise[c] = "pending" /\ \A d \in Caller : Shared(d) => source[d] # c
  BY <1>1 DEF EntryInv, SourceInv, Shared, Finished, TypeOK
<1>10. LoadedInv' /\ GivenInv'
  <2>1. CASE WaiterTakes(c)
    <3>1. claimed[waiting[c]] = epoch
      BY <2>1, <1>1, CacheAssumption DEF WaiterTakes, Fresh, EntryInv, MapInv
    <3>2. pc'[c] # "loading" /\ source'[c] = waiting[c] /\ UNCHANGED claimed
      BY <2>1 DEF WaiterTakes, Finished, entryVars, TypeOK
    <3> QED BY <1>1, <1>2, <1>8, <1>9, <3>1, <3>2 DEF LoadedInv, GivenInv, Shared, Owns
  <2>2. CASE WaiterRetries(c)
    <3>1. /\ UNCHANGED source
          /\ \A d \in Caller \ {c} : claimed'[d] = claimed[d]
          /\ pc'[c] = "loading" => claimed'[c] = epoch
      BY <2>2 DEF WaiterRetries, Turn, Waits, Claims, entryVars, TypeOK
    <3>2. GivenInv'
      BY <1>2, <1>9, <3>1 DEF GivenInv, SharedInv, Shared
    <3>3. LoadedInv'
      BY <1>2, <1>8, <1>9, <3>1 DEF LoadedInv, Owns
    <3> QED BY <3>2, <3>3
  <2> QED BY <2>1, <2>2 DEF Waiter
<1> QED BY <1>3, <1>4, <1>5, <1>6, <1>7, <1>10

\* The connection is swapped, or the settings are saved: a new epoch.
LEMMA NewEpochInv ==
  ASSUME IInv, LogInv, NEW a \in Account \cup {None}, Invalidate, account' = a,
         UNCHANGED <<snap, wave, began>>
  PROVE  LogInv'
<1> USE DEF IInv, LogInv
<1>1. epoch' = epoch + 1 /\ UNCHANGED <<pc, key, aborted, source, promise, claimed>>
  BY DEF Invalidate, entryVars
<1>2. LogTypeOK' /\ KeyInv' /\ SharedInv' /\ WaveInv'
  BY <1>1 DEF LogTypeOK, KeyInv, SharedInv, Shared, WaveInv, NothingCameBack
<1>3. BeganInv'
  BY <1>1 DEF BeganInv, LogTypeOK, TypeOK
<1>4. LoadedInv' /\ GivenInv'
  BY <1>1 DEF LoadedInv, GivenInv, Owns, Shared
<1> QED BY <1>2, <1>3, <1>4

LEMMA LogNextInv == IInv /\ LogInv /\ [LogNext]_allVars => LogInv'
<1> SUFFICES ASSUME IInv, LogInv, [LogNext]_allVars PROVE LogInv'
  OBVIOUS
<1>1. ASSUME NEW c \in Caller, Leaves(c) PROVE LogInv'
  BY <1>1 DEF Leaves, Abort, logVars, entryVars, LogInv, LogTypeOK, KeyInv, SharedInv, Shared,
     BeganInv, WaveInv, NothingCameBack, LoadedInv, GivenInv, Owns, IInv, TypeOK
<1>2. ASSUME NEW a \in Account \cup {None}, Swap(a) PROVE LogInv'
  BY <1>2, NewEpochInv DEF Swap
<1>3. CASE SettingsSaved
  BY <1>3, NewEpochInv DEF SettingsSaved, logVars, LogInv, LogTypeOK
<1>4. CASE TimePasses \/ AllQuiet \/ (\E c \in Caller : Refused(c)) \/ UNCHANGED allVars
  BY <1>4 DEF TimePasses, Tick, AllQuiet, Quiet, Refused, allVars, vars, logVars, entryVars,
     LogInv, LogTypeOK, KeyInv, SharedInv, Shared, BeganInv, WaveInv, NothingCameBack,
     LoadedInv, GivenInv, Owns
<1> QED BY AskInv, QueryEndsInv, WaiterInv, <1>1, <1>2, <1>3, <1>4 DEF LogNext

LEMMA LogSpecInv == LogSpec => [](IInv /\ LogInv)
<1>1. LogInit => IInv /\ LogInv
  BY InitIInv, LogInitInv DEF LogInit
<1>2. IInv /\ LogInv /\ [LogNext]_allVars => (IInv /\ LogInv)'
  BY NextIInv, LogStepIsCacheStep, LogNextInv DEF LogInv
<1> QED BY <1>1, <1>2, PTL DEF LogSpec

-------------------------------------------------------------------------------

\* A request has its connection from the turn it began in, in every behaviour of
\* runLogQueries over the cache.
THEOREM LogPanelsTypes == LogSpec => []LogTypeOK
<1>1. LogInv => LogTypeOK
  BY DEF LogInv
<1> QED BY <1>1, LogSpecInv, PTL

\* The panels add their own variables to steps of the cache, so that the
\* theorems about the cache may be used of them.
LEMMA LogPanelsUseCache == LogSpec => Spec
<1>1. LogInit => Init
  BY DEF LogInit
<1>2. LogInv /\ [LogNext]_allVars => [Next]_vars
  BY LogStepIsCacheStep DEF LogInv
<1> QED BY <1>1, <1>2, LogSpecInv, PTL DEF LogSpec, Spec

\* The region in the key keeps the rows of two regions apart, over every swap of
\* the connection.
THEOREM LogPanelsRegionsApart == LogSpec => []RegionsApart
<1>1. LogInv => RegionsApart
  BY DEF LogInv, RegionsApart, SharedInv, KeyInv
<1> QED BY <1>1, LogSpecInv, PTL

\* The rows of another account are only ever those of a load begun since the
\* swap, for a request begun before it: the emptied cache has nothing older.
THEOREM LogPanelsAccountsApart == LogSpec => []AccountsApartUnlessOvertaken
<1>1. ASSUME IInv, LogInv, NEW c \in Caller, Shared(c),
             ~Overtaken(c, source[c]), ~Overtaken(source[c], source[c])
      PROVE  snap[source[c]] = snap[c]
  <2>1. source[c] \in Caller /\ pc[c] # "idle" /\ pc[source[c]] # "idle" /\ Owns(source[c])
    BY <1>1 DEF IInv, LogInv, SharedInv, SourceInv, Shared, Owns
  <2>2. began[c] <= claimed[source[c]] /\ began[source[c]] <= claimed[source[c]]
    BY <1>1, <2>1 DEF LogInv, LoadedInv, GivenInv
  <2>3. began[c] = began[source[c]]
    BY <1>1, <2>1, <2>2 DEF Overtaken, IInv, LogInv, TypeOK, LogTypeOK
  <2> QED BY <1>1, <2>1, <2>3 DEF LogInv, BeganInv
<1>2. IInv /\ LogInv => AccountsApartUnlessOvertaken
  BY <1>1 DEF AccountsApartUnlessOvertaken
<1> QED BY <1>2, LogSpecInv, PTL

\* A panel is given somebody else's aborted queries only beside rows: that a load
\* failed for its caller's leaving stays with that caller.
THEOREM LogPanelsBorrowedAbort == LogSpec => []BorrowedAbortHasRows
<1>1. IInv /\ LogInv => BorrowedAbortHasRows
  BY DEF IInv, LogInv, BorrowedAbortHasRows, SourceInv, SharedInv, Shared, WaveInv
<1> QED BY <1>1, LogSpecInv, PTL

\* A wave of which nothing came back is handed to another panel for the lifetime
\* of errors only, however the clock and the requests interleave.
THEOREM LogPanelsOutageIsShort == LogSpec => OutageIsShort
<1>1. ASSUME IInv, TimeInv, LogInv, [LogNext]_allVars, NEW c \in Caller,
             source'[c] # source[c], source'[c] # c, NothingCameBack(source'[c])
      PROVE  now < ended[source'[c]] + ErrorTTL
  <2>1. [Next]_vars
    BY <1>1, LogStepIsCacheStep DEF LogInv
  <2>2. source'[c] \in Caller /\ now < ended[source'[c]] + Lifetime(source'[c])
    BY <1>1, <2>1, HandedIsCurrent
  <2>3. promise[source'[c]] # "ok"
    BY <1>1, <2>2 DEF LogInv, WaveInv
  <2>4. QED
    BY <2>2, <2>3 DEF Lifetime
<1>2. IInv /\ TimeInv /\ LogInv /\ [LogNext]_allVars
        => [\A c \in Caller :
              source'[c] # source[c] /\ source'[c] # c /\ NothingCameBack(source'[c])
                => now < ended[source'[c]] + ErrorTTL]_allVars
  BY <1>1
<1>3. LogSpec => []TimeInv
  BY LogPanelsUseCache, SpecTimeInv, PTL
<1> QED BY <1>2, <1>3, LogSpecInv, PTL DEF LogSpec, OutageIsShort

===============================================================================
