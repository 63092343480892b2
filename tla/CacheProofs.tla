----------------------------- MODULE CacheProofs ------------------------------
(***************************************************************************)
(* Safety of the query cache for every number of calls and keys, every     *)
(* lifetime and every clock: the theorems of Cache.tla.                    *)
(*                                                                         *)
(* The inductive invariant IInv says what an entry of the map is (the      *)
(* entry of a call on that very key, made since the last invalidation,     *)
(* never a failure of an absent caller) and, the other way round, that a   *)
(* load begun since the last invalidation still holds its key.  The second *)
(* half is what makes a second load of the key impossible.  TimeInv below  *)
(* adds what the clock decides.                                            *)
(***************************************************************************)
EXTENDS Cache, TLAPS

\* A call has an entry of its own once it has begun to load.
Owns(c) == pc[c] = "loading" \/ promise[c] # "pending"

\* The fields of an entry agree with the position of the call that made it.
EntryInv ==
  \A c \in Caller :
    /\ settled[c] <=> promise[c] # "pending"
    /\ promise[c] # "pending" => pc[c] \in Finished
    /\ pc[c] # "idle" => key[c] \in Key
    /\ pc[c] = "waiting" => /\ waiting[c] \in Caller
                            /\ key[waiting[c]] = key[c]
                            /\ Owns(waiting[c])

\* What the map holds.
MapInv ==
  \A k \in Key :
    entries[k] # None =>
      /\ key[entries[k]] = k
      /\ Owns(entries[k])
      /\ claimed[entries[k]] = epoch
      /\ promise[entries[k]] # "gone"

\* A load that no invalidation has overtaken still holds its key.
LoadInv ==
  \A c \in Caller :
    pc[c] = "loading" => /\ claimed[c] <= epoch
                         /\ claimed[c] = epoch => entries[key[c]] = c

\* What calls were given.
SourceInv ==
  \A c \in Caller :
    source[c] \notin {None, c} => promise[source[c]] \in {"ok", "error"}

IInv == TypeOK /\ EntryInv /\ MapInv /\ LoadInv /\ OneLoadPerKey /\ SourceInv

-------------------------------------------------------------------------------

LEMMA InitIInv == Init => IInv
  BY CacheAssumption
  DEF Init, IInv, TypeOK, EntryInv, MapInv, LoadInv, OneLoadPerKey, SourceInv, Owns, Finished

\* Pruning and dropping only ever take entries out of the map, and a turn of
\* the loop from such a smaller map keeps the invariant as long as no load
\* still under way lost its key.
LEMMA TurnIInv ==
  ASSUME IInv, NEW c \in Caller, NEW k \in Key, NEW m \in [Key -> Caller \cup {None}],
         \A j \in Key : m[j] # None => m[j] = entries[j],
         \A j \in Key : m[j] # entries[j] => promise[entries[j]] # "pending",
         pc[c] \in {"idle", "waiting"}, ~Owns(c),
         Turn(c, k, m), key' = [key EXCEPT ![c] = k],
         UNCHANGED <<now, aborted, source, epoch>>
  PROVE  IInv'
<1> DEFINE p == Pruned(m)
<1> USE CacheAssumption DEF IInv
<1>1. /\ p \in [Key -> Caller \cup {None}]
      /\ \A j \in Key : p[j] # None => p[j] = entries[j]
      /\ \A j \in Key : p[j] # entries[j] => promise[entries[j]] # "pending"
  BY DEF TypeOK, EntryInv, Pruned, Prunable
<1>2. promise[c] = "pending" /\ pc[c] # "loading"
  BY DEF Owns
<1>3. \A d \in Caller : d # c => (Owns(d)' <=> Owns(d)) /\ pc'[d] = pc[d] /\ key'[d] = key[d]
  BY DEF Turn, Waits, Claims, TypeOK, Owns, entryVars
<1>4. \A j \in Key : p[j] # None => p[j] # c
  BY <1>1, <1>2 DEF MapInv, Owns
<1> HIDE DEF p
<1>5. CASE Waits(c, k, m)
  <2>1. entries' = p /\ p[k] # None /\ pc' = [pc EXCEPT ![c] = "waiting"]
        /\ waiting' = [waiting EXCEPT ![c] = p[k]] /\ UNCHANGED entryVars
    BY <1>5 DEF Waits, p
  <2>2. TypeOK'
    BY <2>1, <1>1 DEF TypeOK, entryVars
  <2>3. EntryInv'
    BY <2>1, <1>1, <1>2, <1>3, <1>4 DEF EntryInv, MapInv, TypeOK, Owns, entryVars, Finished
  <2>4. MapInv'
    BY <2>1, <1>1, <1>3, <1>4 DEF MapInv, TypeOK, entryVars
  <2>5. LoadInv'
    BY <2>1, <1>1, <1>2, <1>3 DEF LoadInv, EntryInv, TypeOK, entryVars, Finished
  <2>6. SourceInv'
    BY <2>1 DEF SourceInv, entryVars
  <2>7. OneLoadPerKey'
    BY <2>1, <1>3 DEF OneLoadPerKey, TypeOK, entryVars
  <2>8. QED
    BY <2>2, <2>3, <2>4, <2>5, <2>6, <2>7
<1>6. CASE Claims(c, k, m)
  <2>1. entries' = [p EXCEPT ![k] = c] /\ p[k] = None /\ pc' = [pc EXCEPT ![c] = "loading"]
        /\ waiting' = [waiting EXCEPT ![c] = None] /\ claimed' = [claimed EXCEPT ![c] = epoch]
        /\ expires' = [expires EXCEPT ![c] = now + TTL] /\ UNCHANGED <<settled, promise, ended>>
    BY <1>6 DEF Claims, p
  <2>2. TypeOK'
    BY <2>1, <1>1 DEF TypeOK
  <2>3. EntryInv'
    BY <2>1, <1>1, <1>2, <1>3 DEF EntryInv, TypeOK, Owns, Finished
  <2>4. MapInv'
    BY <2>1, <1>1, <1>2, <1>3, <1>4 DEF MapInv, TypeOK, Owns
  <2>5. LoadInv'
    BY <2>1, <1>1, <1>2, <1>3 DEF LoadInv, EntryInv, TypeOK, Finished
  <2>6. SourceInv'
    BY <2>1 DEF SourceInv
  <2>7. OneLoadPerKey'
    BY <2>1, <1>1, <1>3 DEF OneLoadPerKey, LoadInv, EntryInv, TypeOK, Finished
  <2>8. QED
    BY <2>2, <2>3, <2>4, <2>5, <2>6, <2>7
<1>7. QED
  BY <1>5, <1>6 DEF Turn

LEMMA NextIInv == IInv /\ [Next]_vars => IInv'
<1> SUFFICES ASSUME IInv, [Next]_vars
             PROVE  IInv'
  OBVIOUS
<1> USE CacheAssumption
<1>1. ASSUME NEW c \in Caller, NEW k \in Key, Enter(c, k)
      PROVE  IInv'
  <2>1. ~Owns(c)
    BY <1>1 DEF Enter, IInv, EntryInv, Owns, Finished
  <2>2. entries \in [Key -> Caller \cup {None}]
    BY DEF IInv, TypeOK
  <2>3. QED
    BY <1>1, <2>1, <2>2, TurnIInv DEF Enter
<1>2. ASSUME NEW c \in Caller, WaiterTakes(c)
      PROVE  IInv'
  <2>1. key[c] \in Key /\ waiting[c] \in Caller /\ entries[key[c]] = waiting[c]
    BY <1>2 DEF WaiterTakes, Fresh, IInv, EntryInv
  <2>2. promise[waiting[c]] \in {"ok", "error"}
    BY <1>2, <2>1 DEF WaiterTakes, IInv, TypeOK, EntryInv, MapInv
  <2>3. QED
    BY <1>2, <2>1, <2>2
    DEF WaiterTakes, IInv, TypeOK, EntryInv, MapInv, LoadInv, OneLoadPerKey, SourceInv, Owns, Finished, entryVars
<1>3. ASSUME NEW c \in Caller, WaiterRetries(c)
      PROVE  IInv'
  <2> DEFINE m == Dropped(key[c], waiting[c])
  <2>1. ~Owns(c) /\ key[c] \in Key /\ waiting[c] \in Caller /\ promise[waiting[c]] # "pending"
    BY <1>3 DEF WaiterRetries, IInv, EntryInv, Owns, Finished
  <2>2. /\ m \in [Key -> Caller \cup {None}]
        /\ \A j \in Key : m[j] # None => m[j] = entries[j]
        /\ \A j \in Key : m[j] # entries[j] => promise[entries[j]] # "pending"
    BY <2>1 DEF Dropped, IInv, TypeOK
  <2>3. key' = [key EXCEPT ![c] = key[c]]
    BY <1>3 DEF WaiterRetries, IInv, TypeOK
  <2>4. Turn(c, key[c], m) /\ pc[c] = "waiting" /\ UNCHANGED <<now, aborted, source, epoch>>
    BY <1>3 DEF WaiterRetries
  <2> HIDE DEF m
  <2>5. QED
    BY <2>1, <2>2, <2>3, <2>4, TurnIInv
<1>4. ASSUME NEW c \in Caller, LoadReturns(c)
      PROVE  IInv'
  BY <1>4 DEF LoadReturns, IInv, TypeOK, EntryInv, MapInv, LoadInv, OneLoadPerKey, SourceInv, Owns, Finished
<1>5. ASSUME NEW c \in Caller, LoadThrows(c)
      PROVE  IInv'
  BY <1>5 DEF LoadThrows, IInv, TypeOK, EntryInv, MapInv, LoadInv, OneLoadPerKey, SourceInv, Owns, Finished
<1>6. ASSUME NEW c \in Caller, LoadAbandoned(c)
      PROVE  IInv'
  <2> USE <1>6 DEF LoadAbandoned, Dropped, IInv
  <2>1. TypeOK'
    BY DEF TypeOK, Finished
  <2>2. EntryInv'
    BY DEF TypeOK, EntryInv, Owns, Finished
  <2>3. MapInv'
    BY DEF TypeOK, EntryInv, MapInv, Owns, Finished
  <2>4. LoadInv'
    BY DEF TypeOK, EntryInv, LoadInv, Finished
  <2>5. SourceInv'
    BY DEF TypeOK, EntryInv, SourceInv, Finished
  <2>6. OneLoadPerKey'
    BY DEF TypeOK, OneLoadPerKey, Finished
  <2>7. QED
    BY <2>1, <2>2, <2>3, <2>4, <2>5, <2>6
<1>7. ASSUME NEW c \in Caller, Abort(c)
      PROVE  IInv'
  BY <1>7 DEF Abort, IInv, TypeOK, EntryInv, MapInv, LoadInv, OneLoadPerKey, SourceInv, Owns, Finished, entryVars
<1>8. CASE Invalidate
  BY <1>8 DEF Invalidate, IInv, TypeOK, EntryInv, MapInv, LoadInv, OneLoadPerKey, SourceInv, Owns, Finished, entryVars
<1>9. CASE Tick
  BY <1>9 DEF Tick, IInv, TypeOK, EntryInv, MapInv, LoadInv, OneLoadPerKey, SourceInv, Owns, Finished, entryVars
<1>10. CASE Quiet \/ UNCHANGED vars
  BY <1>10 DEF Quiet, vars, IInv, TypeOK, EntryInv, MapInv, LoadInv, OneLoadPerKey, SourceInv, Owns, Finished
<1>11. QED
  BY <1>1, <1>2, <1>3, <1>4, <1>5, <1>6, <1>7, <1>8, <1>9, <1>10
  DEF Next, Step, LoadSettles

LEMMA SpecIInv == Spec => []IInv
  BY InitIInv, NextIInv, PTL DEF Spec

-------------------------------------------------------------------------------

\* The variables of the cache keep their types: the map holds entries of calls
\* and nothing else.
THEOREM CacheTypes == Spec => []TypeOK
<1>1. IInv => TypeOK
  BY DEF IInv
<1>2. QED
  BY <1>1, SpecIInv, PTL

\* The point of claiming a key before loading (cache.ts:68-75): two loads of a
\* key overlap only across an invalidation.
THEOREM CacheOneLoadPerKey == Spec => []OneLoadPerKey
<1>1. IInv => OneLoadPerKey
  BY DEF IInv
<1>2. QED
  BY <1>1, SpecIInv, PTL

\* The failure of a call whose request went away reaches no other call
\* (cache.ts:85-99).
THEOREM CacheNoBorrowedAbort == Spec => []NoBorrowedAbort
<1>1. IInv => NoBorrowedAbort
  BY DEF IInv, SourceInv, NoBorrowedAbort
<1>2. QED
  BY <1>1, SpecIInv, PTL

\* One step of the cache is a step of SingleFlight or leaves it unchanged.
LEMMA CacheStepSimulates == IInv /\ [Next]_vars => [SF!Next]_(SF!vars)
<1> SUFFICES ASSUME IInv, [Next]_vars
             PROVE  SF!Next \/ UNCHANGED SF!vars
  OBVIOUS
<1> USE CacheAssumption
<1> DEFINE s == [c \in Caller |-> Phase[pc[c]]]
<1>p. /\ Phase["idle"] = "out" /\ Phase["waiting"] = "asked" /\ Phase["loading"] = "loading"
      /\ Phase["returned"] = "answered" /\ Phase["threw"] = "answered"
  BY DEF Phase
<1>s. \A c \in Caller, v \in {"waiting", "loading", "returned", "threw"} :
        pc' = [pc EXCEPT ![c] = v] => s' = [s EXCEPT ![c] = Phase[v]]
  BY DEF IInv, TypeOK
<1> HIDE DEF s
<1>1. ASSUME NEW c \in Caller, NEW k \in Key, NEW m \in [Key -> Caller \cup {None}],
             \A j \in Key : m[j] # None => m[j] = entries[j],
             \A j \in Key : m[j] # entries[j] => promise[entries[j]] # "pending",
             pc[c] = "idle" \/ (pc[c] = "waiting" /\ key[c] = k),
             Turn(c, k, m), key' = [key EXCEPT ![c] = k], UNCHANGED source
      PROVE  SF!Next
  <2>1. \E F \in SUBSET SF!Forgettable : SF!Without(F) = Pruned(m)
    <3> DEFINE G == {j \in Key : Pruned(m)[j] # entries[j]}
    <3>1. Pruned(m) = [j \in Key |-> IF j \in G THEN None ELSE entries[j]]
      BY <1>1 DEF Pruned, Prunable, IInv, TypeOK
    <3>2. G \in SUBSET SF!Forgettable
      BY <1>1 DEF Pruned, Prunable, IInv, TypeOK, EntryInv, SF!Forgettable, SF!Ended
    <3>3. QED
      BY <3>1, <3>2 DEF SF!Without
  <2>2. PICK F \in SUBSET SF!Forgettable : SF!Without(F) = Pruned(m)
    BY <2>1
  <2>3. SF!Asks(c, k)
    BY <1>1, <1>p DEF SF!Asks, IInv, TypeOK
  <2>5. CASE Waits(c, k, m)
    <3>1. SF!Join(c, k, F)
      BY <2>2, <2>3, <2>5, <1>1, <1>p, <1>s DEF s, Waits, SF!Join, entryVars
    <3>2. QED
      BY <3>1, <2>2 DEF SF!Next
  <2>6. CASE Claims(c, k, m)
    <3>1. SF!Start(c, k, F)
      BY <2>2, <2>3, <2>6, <1>1, <1>p, <1>s DEF s, Claims, SF!Start
    <3>2. QED
      BY <3>1, <2>2 DEF SF!Next
  <2>7. QED
    BY <2>5, <2>6, <1>1 DEF Turn
<1>2. ASSUME NEW c \in Caller, NEW k \in Key, Enter(c, k)
      PROVE  SF!Next
  <2>1. entries \in [Key -> Caller \cup {None}]
    BY DEF IInv, TypeOK
  <2>2. QED
    BY <1>1, <1>2, <2>1 DEF Enter
<1>3. ASSUME NEW c \in Caller, WaiterTakes(c)
      PROVE  SF!Next
  <2>1. key[c] \in Key /\ waiting[c] \in Caller /\ entries[key[c]] = waiting[c]
    BY <1>3 DEF WaiterTakes, Fresh, IInv, EntryInv
  <2>2. promise[waiting[c]] \in {"ok", "error"}
    BY <1>3, <2>1 DEF WaiterTakes, IInv, TypeOK, EntryInv, MapInv
  <2>3. SF!Take(c)
    BY <1>3, <2>1, <2>2, <1>p, <1>s DEF s, WaiterTakes, SF!Take, Finished, entryVars
  <2>4. QED
    BY <2>3 DEF SF!Next
<1>4. ASSUME NEW c \in Caller, WaiterRetries(c)
      PROVE  SF!Next
  <2> DEFINE m == Dropped(key[c], waiting[c])
  <2>1. key[c] \in Key /\ waiting[c] \in Caller /\ promise[waiting[c]] # "pending"
    BY <1>4 DEF WaiterRetries, IInv, EntryInv
  <2>2. /\ m \in [Key -> Caller \cup {None}]
        /\ \A j \in Key : m[j] # None => m[j] = entries[j]
        /\ \A j \in Key : m[j] # entries[j] => promise[entries[j]] # "pending"
    BY <2>1 DEF Dropped, IInv, TypeOK
  <2>3. key' = [key EXCEPT ![c] = key[c]]
    BY <1>4 DEF WaiterRetries, IInv, TypeOK
  <2>4. Turn(c, key[c], m) /\ pc[c] = "waiting" /\ UNCHANGED source
    BY <1>4 DEF WaiterRetries
  <2> HIDE DEF m
  <2>5. QED
    BY <1>1, <2>1, <2>2, <2>3, <2>4
<1>5. ASSUME NEW c \in Caller, LoadReturns(c)
      PROVE  SF!Next
  <2>1. SF!Finish(c, "ok")
    BY <1>5, <1>p, <1>s DEF s, LoadReturns, SF!Finish, IInv, TypeOK, Finished
  <2>2. QED
    BY <2>1 DEF SF!Next, SF!Ended
<1>6. ASSUME NEW c \in Caller, LoadThrows(c)
      PROVE  SF!Next
  <2>1. SF!Finish(c, "error")
    BY <1>6, <1>p, <1>s DEF s, LoadThrows, SF!Finish, IInv, TypeOK, Finished
  <2>2. QED
    BY <2>1 DEF SF!Next, SF!Ended
<1>7. ASSUME NEW c \in Caller, LoadAbandoned(c)
      PROVE  SF!Next
  <2>1. s[c] = "loading" /\ s' = [s EXCEPT ![c] = "answered"]
    BY <1>7, <1>p, <1>s DEF s, LoadAbandoned
  <2>2. SF!Finish(c, "gone")
    BY <1>7, <2>1 DEF s, LoadAbandoned, Dropped, SF!Finish
  <2>3. QED
    BY <2>2 DEF SF!Next, SF!Ended
<1>8. ASSUME NEW c \in Caller, Abort(c)
      PROVE  UNCHANGED SF!vars
  BY <1>8 DEF Abort, SF!vars, entryVars
<1>9. CASE Invalidate
  <2>1. SF!Reset
    BY <1>9 DEF Invalidate, SF!Reset, entryVars
  <2>2. QED
    BY <2>1 DEF SF!Next
<1>10. CASE Tick \/ Quiet \/ UNCHANGED vars
  BY <1>10 DEF Tick, Quiet, vars, entryVars, SF!vars
<1>11. QED
  BY <1>2, <1>3, <1>4, <1>5, <1>6, <1>7, <1>8, <1>9, <1>10 DEF Next, Step, LoadSettles

\* Forgetting the clock, the waiting and the aborts, cache.ts is a single-flight
\* cache: every behaviour of Cache is, under the mapping of Cache.tla, one of
\* SingleFlight.
THEOREM CacheIsSingleFlight == Spec => SingleFlightSpec
<1>1. Init => SF!Init
  BY DEF Init, SF!Init, Phase
<1>2. QED
  BY <1>1, CacheStepSimulates, SpecIInv, PTL DEF Spec, SingleFlightSpec, SF!Spec

-------------------------------------------------------------------------------

(***************************************************************************)
(* What the cache promises about time.  IInv is strengthened by what the   *)
(* clock decides: an entry expires one lifetime after its answer arrived,  *)
(* and an answer about the data leaves the map only when it has expired or *)
(* was invalidated.                                                        *)
(***************************************************************************)

\* Whether a call's own load told something about the data.
Told(c) == promise[c] \in {"ok", "error"}

\* An answer is good for its lifetime, counted from its arrival.
ExpiryInv == \A c \in Caller : Told(c) => expires[c] = ended[c] + Lifetime(c)

\* No entry was made in a later epoch.
EpochInv == \A c \in Caller : claimed[c] <= epoch

\* Until it expires, an answer of this epoch is in the map.
KeptInv ==
  \A c \in Caller :
    Told(c) /\ claimed[c] = epoch => entries[key[c]] = c \/ now >= expires[c]

TimeInv == ExpiryInv /\ EpochInv /\ KeptInv

-------------------------------------------------------------------------------

LEMMA InitTimeInv == Init => TimeInv
  BY DEF Init, TimeInv, ExpiryInv, EpochInv, KeptInv, Told

\* A turn of the loop of do keeps TimeInv, from a map that lacks expired answers
\* only.
LEMMA TurnTimeInv ==
  ASSUME IInv, TimeInv, NEW c \in Caller, NEW k \in Key, NEW m \in [Key -> Caller \cup {None}],
         \A j \in Key : m[j] = entries[j] \/ (m[j] = None /\ now >= expires[entries[j]]),
         ~Owns(c), Turn(c, k, m), key' = [key EXCEPT ![c] = k],
         UNCHANGED <<now, epoch>>
  PROVE  TimeInv'
<1> DEFINE p == Pruned(m)
<1>1. /\ p \in [Key -> Caller \cup {None}]
      /\ \A j \in Key : p[j] = entries[j] \/ (p[j] = None /\ now >= expires[entries[j]])
  BY DEF Pruned, Prunable, IInv, TypeOK
<1>2. promise[c] = "pending" /\ UNCHANGED <<promise, ended>>
  BY DEF Owns, Turn, Waits, Claims, entryVars
<1>3. \A d \in Caller \ {c} : expires'[d] = expires[d] /\ claimed'[d] = claimed[d] /\ key'[d] = key[d]
  BY DEF Turn, Waits, Claims, entryVars, IInv, TypeOK
<1>4. entries' = p \/ (p[k] = None /\ entries' = [p EXCEPT ![k] = c])
  BY DEF Turn, Waits, Claims, p
<1>5. claimed'[c] \in {claimed[c], epoch}
  BY DEF Turn, Waits, Claims, entryVars, IInv, TypeOK
<1> HIDE DEF p
<1>6. ExpiryInv'
  BY <1>2, <1>3 DEF ExpiryInv, TimeInv, Told, Lifetime
<1>7. EpochInv'
  BY <1>3, <1>5 DEF EpochInv, TimeInv, IInv, TypeOK
<1>8. KeptInv'
  <2> SUFFICES ASSUME NEW d \in Caller, Told(d)', claimed'[d] = epoch'
               PROVE  entries'[key'[d]] = d \/ now' >= expires'[d]
    BY DEF KeptInv
  <2>1. d # c /\ Told(d) /\ claimed[d] = epoch
    BY <1>2, <1>3 DEF Told
  <2>2. key[d] \in Key
    BY <2>1 DEF Told, IInv, EntryInv, Finished
  <2>3. entries[key[d]] = d \/ now >= expires[d]
    BY <2>1 DEF KeptInv, TimeInv
  <2>4. p[key[d]] = d \/ now >= expires[d]
    BY <1>1, <2>2, <2>3
  <2>5. p[key[d]] = d => entries'[key[d]] = d
    BY <1>1, <1>4, <2>2, CacheAssumption
  <2>6. QED
    BY <1>3, <2>1, <2>4, <2>5
<1>9. QED
  BY <1>6, <1>7, <1>8 DEF TimeInv

\* The map from which a retry goes round the loop lacks an expired answer only.
LEMMA DroppedIsExpired ==
  ASSUME IInv, NEW c \in Caller, WaiterRetries(c)
  PROVE  LET m == Dropped(key[c], waiting[c]) IN
           /\ m \in [Key -> Caller \cup {None}]
           /\ \A j \in Key : m[j] = entries[j] \/ (m[j] = None /\ now >= expires[entries[j]])
<1>1. key[c] \in Key /\ waiting[c] \in Caller
  BY DEF WaiterRetries, IInv, EntryInv
<1>2. entries[key[c]] = waiting[c] => now >= expires[waiting[c]]
  BY <1>1 DEF WaiterRetries, Fresh, IInv, TypeOK
<1>3. QED
  BY <1>1, <1>2 DEF Dropped, IInv, TypeOK

LEMMA NextTimeInv == IInv /\ TimeInv /\ [Next]_vars => TimeInv'
<1> SUFFICES ASSUME IInv, TimeInv, [Next]_vars
             PROVE  TimeInv'
  OBVIOUS
<1> USE CacheAssumption
<1>1. ASSUME NEW c \in Caller, NEW k \in Key, Enter(c, k)
      PROVE  TimeInv'
  <2>1. ~Owns(c)
    BY <1>1 DEF Enter, IInv, EntryInv, Owns, Finished
  <2>2. entries \in [Key -> Caller \cup {None}]
    BY DEF IInv, TypeOK
  <2>3. QED
    BY <1>1, <2>1, <2>2, TurnTimeInv DEF Enter
<1>2. ASSUME NEW c \in Caller, WaiterRetries(c)
      PROVE  TimeInv'
  <2> DEFINE m == Dropped(key[c], waiting[c])
  <2>1. ~Owns(c) /\ key[c] \in Key
    BY <1>2 DEF WaiterRetries, IInv, EntryInv, Owns, Finished
  <2>2. /\ m \in [Key -> Caller \cup {None}]
        /\ \A j \in Key : m[j] = entries[j] \/ (m[j] = None /\ now >= expires[entries[j]])
    BY <1>2, DroppedIsExpired
  <2>3. key' = [key EXCEPT ![c] = key[c]] /\ Turn(c, key[c], m) /\ UNCHANGED <<now, epoch>>
    BY <1>2 DEF WaiterRetries, IInv, TypeOK
  <2> HIDE DEF m
  <2>4. QED
    BY <2>1, <2>2, <2>3, TurnTimeInv
<1>3. ASSUME NEW c \in Caller, LoadReturns(c) \/ LoadThrows(c)
      PROVE  TimeInv'
  <2> USE <1>3 DEF LoadReturns, LoadThrows, TimeInv, IInv, TypeOK
  <2>1. ExpiryInv'
    BY DEF ExpiryInv, Told, Lifetime
  <2>2. EpochInv'
    BY DEF EpochInv
  <2>3. KeptInv'
    BY DEF KeptInv, Told, LoadInv
  <2>4. QED
    BY <2>1, <2>2, <2>3
<1>4. ASSUME NEW c \in Caller, LoadAbandoned(c)
      PROVE  TimeInv'
  <2> USE <1>4 DEF LoadAbandoned, TimeInv, IInv, TypeOK
  <2>1. ExpiryInv'
    BY DEF ExpiryInv, Told, Lifetime
  <2>2. EpochInv'
    BY DEF EpochInv
  <2>3. KeptInv'
    BY DEF KeptInv, Told, Dropped, EntryInv, Finished
  <2>4. QED
    BY <2>1, <2>2, <2>3
<1>5. CASE Invalidate
  BY <1>5 DEF Invalidate, entryVars, TimeInv, ExpiryInv, EpochInv, KeptInv, Told, Lifetime, IInv, TypeOK
<1>6. CASE Tick
  BY <1>6 DEF Tick, entryVars, TimeInv, ExpiryInv, EpochInv, KeptInv, Told, Lifetime, IInv, TypeOK
<1>7. ASSUME NEW c \in Caller, WaiterTakes(c) \/ Abort(c)
      PROVE  TimeInv'
  BY <1>7 DEF WaiterTakes, Abort, entryVars, TimeInv, ExpiryInv, EpochInv, KeptInv, Told, Lifetime
<1>8. CASE Quiet \/ UNCHANGED vars
  BY <1>8 DEF Quiet, vars, TimeInv, ExpiryInv, EpochInv, KeptInv, Told, Lifetime
<1>9. QED
  BY <1>1, <1>2, <1>3, <1>4, <1>5, <1>6, <1>7, <1>8 DEF Next, Step, LoadSettles

LEMMA SpecTimeInv == Spec => [](IInv /\ TimeInv)
  BY InitIInv, InitTimeInv, NextIInv, NextTimeInv, PTL DEF Spec

-------------------------------------------------------------------------------

\* What a call is handed from another's load.
LEMMA HandedIsCurrent ==
  ASSUME IInv, TimeInv, [Next]_vars, NEW c \in Caller, source'[c] # source[c], source'[c] # c
  PROVE  /\ source'[c] \in Caller
         /\ key[source'[c]] = key[c]
         /\ claimed[source'[c]] = epoch
         /\ now < ended[source'[c]] + Lifetime(source'[c])
<1>1. WaiterTakes(c)
  BY DEF Next, Step, Enter, WaiterTakes, WaiterRetries, LoadSettles, LoadReturns, LoadThrows,
         LoadAbandoned, Abort, Invalidate, Tick, Quiet, vars, IInv, TypeOK
<1>2. source'[c] = waiting[c] /\ key[c] \in Key /\ waiting[c] \in Caller
      /\ entries[key[c]] = waiting[c] /\ now < expires[waiting[c]] /\ settled[waiting[c]]
  BY <1>1 DEF WaiterTakes, Fresh, IInv, TypeOK, EntryInv
<1>3. key[waiting[c]] = key[c] /\ claimed[waiting[c]] = epoch /\ promise[waiting[c]] # "gone"
  BY <1>2, CacheAssumption DEF IInv, MapInv
<1>4. Told(waiting[c])
  BY <1>2, <1>3 DEF Told, IInv, TypeOK, EntryInv
<1>5. QED
  BY <1>2, <1>3, <1>4 DEF TimeInv, ExpiryInv

\* An answer that a call is handed from another's load is of the key it asked
\* for, was loaded after the last invalidation and has not outlived its lifetime
\* (cache.ts:59-65).
THEOREM CacheAnswersAreCurrent == Spec => SharedAnswersAreCurrent
<1>1. IInv /\ TimeInv /\ [Next]_vars
        => [\A c \in Caller :
              source'[c] # source[c] /\ source'[c] # c
                => /\ key[source'[c]] = key[c]
                   /\ claimed[source'[c]] = epoch
                   /\ now < ended[source'[c]] + Lifetime(source'[c])]_vars
  BY HandedIsCurrent
<1>2. QED
  BY <1>1, SpecTimeInv, PTL DEF Spec, SharedAnswersAreCurrent

\* What is known of an answer when its key is loaded again.
LEMMA LoadIsSpaced ==
  ASSUME IInv, TimeInv, [Next]_vars, NEW c \in Caller, NEW d \in Caller,
         pc[c] # "loading", pc'[c] = "loading", c # d, key[d] = key'[c],
         claimed[d] = epoch, promise[d] \in {"ok", "error"}
  PROVE  now >= ended[d] + Lifetime(d)
<1>1. (\E k \in Key : Enter(c, k)) \/ WaiterRetries(c)
  BY DEF Next, Step, Enter, Turn, Waits, Claims, WaiterTakes, WaiterRetries, LoadSettles, LoadReturns,
              LoadThrows, LoadAbandoned, Abort, Invalidate, Tick, Quiet, vars, Finished, IInv, TypeOK
<1>2. PICK k \in Key, m \in [Key -> Caller \cup {None}] :
        /\ Claims(c, k, m)
        /\ key'[c] = k
        /\ \A j \in Key : m[j] = entries[j] \/ (m[j] = None /\ now >= expires[entries[j]])
  <2>1. ASSUME NEW k \in Key, Enter(c, k)
        PROVE  Claims(c, k, entries) /\ key'[c] = k /\ entries \in [Key -> Caller \cup {None}]
    BY <2>1 DEF Enter, Turn, Waits, IInv, TypeOK
  <2>2. ASSUME WaiterRetries(c)
        PROVE  Claims(c, key[c], Dropped(key[c], waiting[c])) /\ key'[c] = key[c] /\ key[c] \in Key
    BY <2>2 DEF WaiterRetries, Turn, Waits, IInv, TypeOK, EntryInv
  <2>3. CASE \E k \in Key : Enter(c, k)
    BY <2>1, <2>3
  <2>4. CASE WaiterRetries(c)
    BY <2>2, <2>4, DroppedIsExpired
  <2>5. QED
    BY <1>1, <2>3, <2>4
<1>3. entries[k] = d => now >= expires[d]
  BY <1>2, CacheAssumption DEF Claims, Pruned, Prunable, IInv, TypeOK
<1>4. now >= expires[d]
  BY <1>2, <1>3 DEF TimeInv, KeptInv, Told
<1>5. QED
  BY <1>4 DEF TimeInv, ExpiryInv, Told

\* A load begins only once the last answer about its key has run its time or was
\* invalidated (cache.ts:8-9 and 27-29).
THEOREM CacheLoadsAreSpaced == Spec => LoadsAreSpaced
<1>1. IInv /\ TimeInv /\ [Next]_vars
        => [\A c, d \in Caller :
                 /\ pc[c] # "loading" /\ pc'[c] = "loading"
                 /\ c # d /\ key[d] = key'[c] /\ claimed[d] = epoch
                 /\ promise[d] \in {"ok", "error"}
              => now >= ended[d] + Lifetime(d)]_vars
  BY LoadIsSpaced
<1>2. QED
  BY <1>1, SpecTimeInv, PTL DEF Spec, LoadsAreSpaced

===============================================================================
