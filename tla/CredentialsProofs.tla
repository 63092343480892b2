--------------------------- MODULE CredentialsProofs ---------------------------
(***************************************************************************)
(* Proofs about Credentials, for any number of requests, keys and crashes: *)
(* the types, what credentials.json may hold, which key the service works  *)
(* with once the requests have settled, and which key a restart brings     *)
(* back.                                                                   *)
(***************************************************************************)
EXTENDS Credentials, TLAPS

ConnType == [source : {"saved", "env", "none"}, cred : Cred \cup {None}, ok : BOOLEAN]

\* .env is only ever asked about when it holds a key, a PUT in flight carries
\* one, and a process that does not serve has no request in flight.
FlightInv ==
  /\ phase = "booting" /\ memory = None => env \in Cred
  /\ \A r \in Request :
       /\ pc[r] = "deleting" => env \in Cred
       /\ pc[r] = "putting" => asked[r] \in Cred
       /\ phase # "serving" => pc[r] \notin InFlight

\* The store agrees with its file unless the last write failed.
StoreInv ==
  /\ phase = "booting" => memory = file
  /\ phase = "serving" /\ ~broken => memory = file

\* A connection that does not come from the store has the key of .env, if any.
ConnInv ==
  /\ conn.source = "env" => conn.cred \in {env, None}
  /\ conn.source = "none" => conn.cred = None

\* A saved key is at work at once, and no deletion is about to replace it.
SavedInv ==
  phase = "serving" /\ memory # None /\ ~broken /\ ~raced
    => /\ conn.source = "saved"
       /\ conn.cred = memory
       /\ \A r \in Request : pc[r] # "deleting"

\* A saved connection that outlives its key has a deletion on its heels, which
\* will replace it.  This is what makes DeletedKeyNotUsed inductive.
OnItsHeels ==
  phase = "serving" /\ memory = None /\ ~broken /\ conn.source = "saved"
    => \E r \in Request : pc[r] = "deleting"

\* The key that a start from the files as they are now would work with.
BootKey == IF file # None THEN file ELSE env

UseInv == inUse # None => inUse = BootKey

StateInv == /\ TypeOK /\ FileWasAccepted /\ FlightInv /\ StoreInv
            /\ ConnInv /\ SavedInv /\ OnItsHeels

IInv == StateInv /\ UseInv

-------------------------------------------------------------------------------

LEMMA InitInv == Init => IInv
<1> SUFFICES ASSUME Init PROVE IInv
  OBVIOUS
<1>1. TypeOK
  BY CredentialsAssumption DEF Init, TypeOK, NoConnection, InFlight, Answered
<1>2. FileWasAccepted /\ FlightInv /\ StoreInv /\ ConnInv
  BY DEF Init, FileWasAccepted, FlightInv, StoreInv, ConnInv, NoConnection, InFlight
<1>3. SavedInv /\ OnItsHeels /\ UseInv
  BY DEF Init, SavedInv, OnItsHeels, UseInv
<1> QED BY <1>1, <1>2, <1>3 DEF IInv, StateInv

\* The connections the code makes.
LEMMA Connections ==
  /\ EnvRefused \in ConnType
  /\ EnvRefused.source \in {"env", "none"} /\ EnvRefused.cred = None
  /\ NoConnection("none") \in ConnType
  /\ NoConnection("none").source = "none" /\ NoConnection("none").cred = None
  /\ \A s \in {"saved", "env"}, k \in Cred, ok \in BOOLEAN :
       /\ Connection(s, k, ok) \in ConnType
       /\ Connection(s, k, ok).source = s
       /\ Connection(s, k, ok).cred = k
  BY DEF EnvRefused, NoConnection, Connection, ConnType

LEMMA RecordRegionTypes ==
  ASSUME TypeOK, NEW k \in Cred, RecordRegion(k)
  PROVE  region' \in Region /\ regionFile' \in Region
  BY CredentialsAssumption DEF TypeOK, RecordRegion

\* The key at work at rest is the one a restart would come back to.
RestIsBoot ==
  StateInv /\ AtRest /\ ~broken /\ ~raced /\ conn.cred # None => conn.cred = BootKey

LEMMA RestKey == RestIsBoot
<1> SUFFICES ASSUME StateInv, AtRest, ~broken, ~raced, conn.cred # None
             PROVE  conn.cred = BootKey
  BY DEF RestIsBoot
<1> USE DEF StateInv
<1>1. memory = file
  BY DEF AtRest, StoreInv
<1>2. CASE memory # None
  BY <1>1, <1>2 DEF AtRest, SavedInv, BootKey
<1>3. CASE memory = None
  <2>1. conn.source # "saved"
    BY <1>3 DEF AtRest, Busy, InFlight, OnItsHeels
  <2>2. conn.cred = env
    BY <2>1 DEF TypeOK, ConnInv
  <2> QED BY <1>1, <1>3, <2>2 DEF BootKey
<1> QED BY <1>2, <1>3

LEMMA RestKeyNext == RestIsBoot'
  BY RestKey, PTL

\* The end of every action of a request.
LEMMA NextInUseInv ==
  ASSUME NextInUse, conn' \in ConnType
  PROVE  /\ inUse' \in Cred \cup {None}
         /\ StateInv' => UseInv'
<1>1. inUse' \in Cred \cup {None}
  BY DEF NextInUse, ConnType
<1>2. StateInv' => UseInv'
  <2>1. CASE AtRest' /\ ~broken' /\ ~raced'
    BY <2>1, RestKeyNext DEF NextInUse, UseInv, RestIsBoot
  <2>2. CASE ~(AtRest' /\ ~broken' /\ ~raced')
    BY <2>2 DEF NextInUse, UseInv
  <2> QED BY <2>1, <2>2
<1> QED BY <1>1, <1>2

LEMMA StartInv ==
  ASSUME IInv, env' = env, Boot \/ \E ok \in BOOLEAN : BootConnects(ok)
  PROVE  IInv'
<1> USE CredentialsAssumption DEF IInv, StateInv
<1>1. CASE Boot /\ phase' = "booting"
  <2>1. memory' = file /\ UNCHANGED <<file, conn, inUse, pc, asked, accepted, crashes>>
        /\ broken' = FALSE /\ raced' = FALSE /\ phase = "down"
    BY <1>1 DEF Boot
  <2>2. (file # None \/ env \in Cred) /\ region' \in Region /\ regionFile' \in Region
    <3>1. file # None \/ env \in Cred
      BY <1>1 DEF Boot
    <3>2. (IF file # None THEN file ELSE env) \in Cred
      BY <3>1 DEF TypeOK
    <3>3. RegionOf[IF file # None THEN file ELSE env] \in Region
      BY <3>2
    <3> QED BY <1>1, <3>1, <3>3 DEF Boot, TypeOK
  <2>3. TypeOK'
    BY <1>1, <2>1, <2>2 DEF TypeOK
  <2>4. FlightInv'
    BY <1>1, <2>1, <2>2 DEF FlightInv
  <2>5. FileWasAccepted' /\ StoreInv'
    BY <1>1, <2>1 DEF FileWasAccepted, StoreInv
  <2>6. ConnInv'
    BY <1>1, <2>1 DEF ConnInv
  <2>7. SavedInv'
    BY <1>1, <2>1 DEF SavedInv, StoreInv
  <2>8. OnItsHeels'
    BY <1>1, <2>1 DEF OnItsHeels, Busy, StoreInv
  <2>9. UseInv'
    BY <1>1, <2>1 DEF UseInv, BootKey
  <2> QED BY <2>3, <2>4, <2>5, <2>6, <2>7, <2>8, <2>9
<1>2. CASE Boot /\ phase' = "serving"
  <2>1. memory' = None /\ file = None /\ env \notin Cred /\ phase = "down"
        /\ conn' = EnvRefused /\ inUse' = None /\ region' = regionFile
        /\ broken' = FALSE /\ raced' = FALSE
        /\ UNCHANGED <<file, regionFile, pc, asked, accepted, crashes>>
    BY <1>2 DEF Boot
  <2>2. TypeOK'
    BY <1>2, <2>1, Connections DEF TypeOK, ConnType
  <2> QED BY <1>2, <2>1, <2>2, Connections
          DEF FlightInv, FileWasAccepted, StoreInv, ConnInv, SavedInv, OnItsHeels, UseInv
<1>3. ASSUME NEW ok \in BOOLEAN, BootConnects(ok) PROVE IInv'
  <2>1. /\ phase = "booting" /\ phase' = "serving" /\ inUse' = conn'.cred
        /\ UNCHANGED <<memory, file, region, regionFile, pc, asked, broken, raced, crashes>>
    BY <1>3 DEF BootConnects
  <2>2. /\ conn' \in ConnType
        /\ conn'.cred = BootKey /\ conn'.cred \in Cred
        /\ conn'.source \in {"saved", "env"}
        /\ conn'.source = "saved" <=> memory # None
    <3>1. CASE memory # None
      <4>1. memory \in Cred /\ conn' = Connection("saved", memory, ok)
        BY <1>3, <3>1 DEF BootConnects, TypeOK
      <4> QED BY <2>1, <3>1, <4>1, Connections DEF StoreInv, BootKey
    <3>2. CASE memory = None
      <4>1. env \in Cred /\ conn' = Connection("env", env, ok)
        BY <1>3, <3>2 DEF BootConnects, FlightInv
      <4> QED BY <2>1, <3>2, <4>1, Connections DEF StoreInv, BootKey
    <3> QED BY <3>1, <3>2
  <2>3. accepted \subseteq accepted' /\ accepted' \subseteq Cred
    BY <1>3, <2>2 DEF BootConnects, TypeOK
  <2>4. TypeOK'
    BY <2>1, <2>2, <2>3 DEF TypeOK, ConnType
  <2>5. FileWasAccepted'
    BY <2>1, <2>3 DEF FileWasAccepted
  <2>6. FlightInv' /\ StoreInv' /\ UseInv'
    BY <2>1, <2>2 DEF FlightInv, StoreInv, UseInv, BootKey
  <2>7. ConnInv' /\ SavedInv' /\ OnItsHeels'
    BY <2>1, <2>2 DEF FlightInv, StoreInv, ConnInv, SavedInv, OnItsHeels, BootKey, InFlight
  <2> QED BY <2>4, <2>5, <2>6, <2>7
<1> QED BY <1>1, <1>2, <1>3 DEF Boot

LEMMA PutInv ==
  ASSUME IInv, env' = env, NEW r \in Request,
         (\E k \in Cred : PutStart(r, k)) \/ PutAccepted(r) \/ PutRejected(r)
  PROVE  IInv'
<1> USE CredentialsAssumption DEF IInv, StateInv, InFlight, Answered
<1>1. ASSUME NEW k \in Cred, PutStart(r, k) PROVE IInv'
  <2>1. /\ UNCHANGED <<phase, memory, file, conn, accepted, broken, raced, crashes>>
        /\ pc[r] = "idle" /\ phase = "serving"
        /\ pc' = [pc EXCEPT ![r] = "putting"] /\ asked' = [asked EXCEPT ![r] = k]
    BY <1>1 DEF PutStart, Arrives
  <2>2. region' \in Region /\ regionFile' \in Region
    BY <1>1, RecordRegionTypes DEF PutStart
  <2>3. inUse' \in Cred \cup {None} /\ (StateInv' => UseInv')
    BY <1>1, <2>1, NextInUseInv DEF PutStart, TypeOK, ConnType
  <2>4. TypeOK'
    BY <2>1, <2>2, <2>3 DEF TypeOK
  <2>5. FlightInv' /\ FileWasAccepted' /\ StoreInv' /\ ConnInv'
    BY <2>1 DEF TypeOK, FlightInv, FileWasAccepted, StoreInv, ConnInv
  <2>6. SavedInv' /\ OnItsHeels'
    BY <2>1 DEF TypeOK, SavedInv, OnItsHeels
  <2> QED BY <2>3, <2>4, <2>5, <2>6
<1>2. ASSUME PutRejected(r) PROVE IInv'
  <2>1. /\ UNCHANGED <<phase, memory, file, conn, region, regionFile, asked, accepted,
                       broken, raced, crashes>>
        /\ pc[r] = "putting" /\ pc' = [pc EXCEPT ![r] = "failed"]
    BY <1>2 DEF PutRejected
  <2>2. inUse' \in Cred \cup {None} /\ (StateInv' => UseInv')
    BY <1>2, <2>1, NextInUseInv DEF PutRejected, TypeOK, ConnType
  <2>3. TypeOK'
    BY <2>1, <2>2 DEF TypeOK
  <2>4. FlightInv' /\ FileWasAccepted' /\ StoreInv' /\ ConnInv'
    BY <2>1 DEF TypeOK, FlightInv, FileWasAccepted, StoreInv, ConnInv
  <2>5. SavedInv' /\ OnItsHeels'
    BY <2>1 DEF TypeOK, SavedInv, OnItsHeels
  <2> QED BY <2>2, <2>3, <2>4, <2>5
<1>3. ASSUME PutAccepted(r) PROVE IInv'
  <2>1. /\ UNCHANGED <<phase, region, regionFile, asked, crashes>>
        /\ phase = "serving" /\ pc[r] = "putting"
        /\ memory' = asked[r] /\ asked[r] \in Cred
        /\ accepted' = accepted \cup {asked[r]}
        /\ raced' = \E d \in Request : pc[d] = "deleting"
    BY <1>3 DEF PutAccepted, FlightInv
  <2>2. PICK end \in {"ok", "failed"} : pc' = [pc EXCEPT ![r] = end]
    BY <1>3 DEF PutAccepted
  <2>3. \/ /\ file' = asked[r] /\ conn' = Connection("saved", asked[r], TRUE)
           /\ broken' = FALSE
        \/ file' = file /\ conn' = conn /\ broken' = TRUE
    BY <1>3 DEF PutAccepted
  <2>4. /\ Connection("saved", asked[r], TRUE) \in ConnType
        /\ Connection("saved", asked[r], TRUE).source = "saved"
        /\ Connection("saved", asked[r], TRUE).cred = asked[r]
    BY <2>1, Connections
  <2>5. conn' \in ConnType
    BY <2>3, <2>4 DEF TypeOK, ConnType
  <2>6. inUse' \in Cred \cup {None} /\ (StateInv' => UseInv')
    BY <1>3, <2>5, NextInUseInv DEF PutAccepted
  <2>7. TypeOK'
    <3>1. pc' \in [Request -> {"idle"} \cup InFlight \cup Answered]
      BY <2>2 DEF TypeOK
    <3>2. file' \in Cred \cup {None} /\ broken' \in BOOLEAN /\ raced' \in BOOLEAN
      BY <2>1, <2>3 DEF TypeOK
    <3> QED BY <2>1, <2>5, <2>6, <3>1, <3>2 DEF TypeOK, ConnType
  <2>8. FileWasAccepted' /\ StoreInv'
    BY <2>1, <2>3 DEF FileWasAccepted, StoreInv
  <2>9. FlightInv'
    BY <2>1, <2>2 DEF TypeOK, FlightInv
  <2>10. ConnInv'
    BY <2>3, <2>4 DEF ConnInv
  <2>11. memory' # None
    BY <2>1
  <2>12. SavedInv'
    <3> SUFFICES ASSUME ~broken', ~raced'
                 PROVE  /\ conn'.source = "saved" /\ conn'.cred = memory'
                        /\ \A d \in Request : pc'[d] # "deleting"
      BY DEF SavedInv
    <3>1. \A d \in Request : pc[d] # "deleting"
      BY <2>1
    <3>2. \A d \in Request : pc'[d] # "deleting"
      BY <2>2, <3>1 DEF TypeOK
    <3> QED BY <2>1, <2>3, <2>4, <3>2
  <2>13. OnItsHeels'
    BY <2>11 DEF OnItsHeels
  <2> QED BY <2>6, <2>7, <2>8, <2>9, <2>10, <2>12, <2>13
<1> QED BY <1>1, <1>2, <1>3

LEMMA DeleteStartInv ==
  ASSUME IInv, env' = env, NEW r \in Request, DeleteStart(r)
  PROVE  IInv'
<1> USE CredentialsAssumption DEF IInv, StateInv, InFlight, Answered
<1>1. /\ UNCHANGED <<phase, asked, accepted, crashes>>
      /\ phase = "serving" /\ pc[r] = "idle" /\ memory' = None /\ raced' = FALSE
  BY DEF DeleteStart, Arrives
<1>2. \/ /\ file' = None /\ broken' = FALSE /\ env \in Cred /\ conn' = conn
         /\ pc' = [pc EXCEPT ![r] = "deleting"]
      \/ /\ file' = None /\ broken' = FALSE /\ conn' = EnvRefused
         /\ pc' = [pc EXCEPT ![r] = "ok"]
      \/ /\ file' = file /\ broken' = TRUE /\ conn' = conn
         /\ pc' = [pc EXCEPT ![r] = "failed"]
  BY DEF DeleteStart, ResolveEnv
<1>3. region' \in Region /\ regionFile' \in Region
  BY RecordRegionTypes DEF DeleteStart, ResolveEnv, TypeOK
<1>4. conn' \in ConnType
  BY <1>2, Connections DEF TypeOK, ConnType
<1>5. inUse' \in Cred \cup {None} /\ (StateInv' => UseInv')
  BY <1>4, NextInUseInv DEF DeleteStart
<1>6. TypeOK'
  <2>1. pc' \in [Request -> {"idle"} \cup InFlight \cup Answered]
    BY <1>2 DEF TypeOK
  <2>2. file' \in Cred \cup {None} /\ broken' \in BOOLEAN
    BY <1>2 DEF TypeOK
  <2> QED BY <1>1, <1>3, <1>4, <1>5, <2>1, <2>2 DEF TypeOK, ConnType
<1>7. FileWasAccepted' /\ StoreInv' /\ SavedInv'
  BY <1>1, <1>2 DEF FileWasAccepted, StoreInv, SavedInv
<1>8. FlightInv'
  BY <1>1, <1>2 DEF TypeOK, FlightInv
<1>9. ConnInv' /\ OnItsHeels'
  BY <1>1, <1>2, Connections DEF TypeOK, ConnInv, OnItsHeels
<1> QED BY <1>5, <1>6, <1>7, <1>8, <1>9

LEMMA DeleteEndsInv ==
  ASSUME IInv, env' = env, NEW r \in Request,
         DeleteTimesOut(r) \/ \E ok \in BOOLEAN : DeleteConnects(r, ok)
  PROVE  IInv'
<1> USE CredentialsAssumption DEF IInv, StateInv, InFlight, Answered
<1>1. /\ UNCHANGED <<phase, memory, file, region, regionFile, asked, broken, raced, crashes>>
      /\ phase = "serving" /\ pc[r] = "deleting" /\ pc' = [pc EXCEPT ![r] = "ok"]
      /\ env \in Cred
  BY DEF DeleteTimesOut, DeleteConnects, FlightInv
<1>2. /\ conn' \in ConnType /\ conn'.source # "saved"
      /\ conn'.source = "env" => conn'.cred = env
      /\ conn'.source = "none" => conn'.cred = None
      /\ accepted' \in {accepted, accepted \cup {env}}
  BY <1>1, Connections DEF DeleteTimesOut, DeleteConnects
<1>3. inUse' \in Cred \cup {None} /\ (StateInv' => UseInv')
  BY <1>2, NextInUseInv DEF DeleteTimesOut, DeleteConnects
<1>4. TypeOK'
  <2>1. accepted' \subseteq Cred
    BY <1>1, <1>2 DEF TypeOK
  <2> QED BY <1>1, <1>2, <1>3, <2>1 DEF TypeOK, ConnType
<1>5. FileWasAccepted' /\ StoreInv' /\ ConnInv' /\ OnItsHeels'
  BY <1>1, <1>2 DEF FileWasAccepted, StoreInv, ConnInv, OnItsHeels
<1>6. FlightInv' /\ SavedInv'
  BY <1>1 DEF TypeOK, FlightInv, SavedInv
<1> QED BY <1>3, <1>4, <1>5, <1>6

LEMMA StepInv == IInv /\ [Next]_vars => IInv'
<1> SUFFICES ASSUME IInv, [Next]_vars PROVE IInv'
  OBVIOUS
<1>1. CASE Crash /\ env' = env
  <2> USE DEF IInv, StateInv, InFlight, Answered
  <2>1. TypeOK'
    BY <1>1, Connections DEF Crash, TypeOK, ConnType
  <2>2. FlightInv' /\ FileWasAccepted' /\ StoreInv' /\ UseInv'
    BY <1>1 DEF Crash, FlightInv, FileWasAccepted, StoreInv, UseInv, BootKey
  <2>3. ConnInv' /\ SavedInv' /\ OnItsHeels'
    BY <1>1, Connections DEF Crash, ConnInv, SavedInv, OnItsHeels
  <2> QED BY <2>1, <2>2, <2>3
<1>2. CASE UNCHANGED vars
  BY <1>2 DEF vars, IInv, StateInv, TypeOK, FlightInv, FileWasAccepted, StoreInv, ConnInv,
              SavedInv, OnItsHeels, UseInv, BootKey
<1> QED
  BY <1>1, <1>2, StartInv, PutInv, DeleteStartInv, DeleteEndsInv DEF Next, Step, Quiet, PutTimesOut

-------------------------------------------------------------------------------

\* The state keeps its types, for any number of requests, keys and regions: no
\* step mistakes an unusable .env for a key.
THEOREM CredentialsTypes == Spec => []TypeOK
<1>1. IInv => TypeOK
  BY DEF IInv, StateInv
<1> QED BY <1>1, InitInv, StepInv, PTL DEF Spec

\* credentials.json only ever holds a key that AWS accepted, however requests,
\* write failures and crashes interleave (credentials.ts:81-83).
THEOREM CredentialsFileWasAccepted == Spec => []FileWasAccepted
<1>1. IInv => FileWasAccepted
  BY DEF IInv, StateInv
<1> QED BY <1>1, InitInv, StepInv, PTL DEF Spec

\* A deleted key is out of use once every request is answered, however saves,
\* deletions and crashes overlapped (credentials.ts:103-104).
THEOREM CredentialsDeletedKeyNotUsed == Spec => []DeletedKeyNotUsed
<1>1. IInv => DeletedKeyNotUsed
  BY DEF IInv, StateInv, OnItsHeels, DeletedKeyNotUsed, AtRest, Busy, InFlight
<1> QED BY <1>1, InitInv, StepInv, PTL DEF Spec

\* A saved key is the one at work once every request is answered, unless a
\* deletion was asking STS when it was saved (connect.ts:161-164).
THEOREM CredentialsSavedKeyWins == Spec => []SavedKeyWinsUnraced
<1>1. IInv => SavedKeyWinsUnraced
  BY DEF IInv, StateInv, SavedInv, SavedKeyWinsUnraced, SavedKeyWins, AtRest
<1> QED BY <1>1, InitInv, StepInv, PTL DEF Spec

\* A process that dies at rest comes back to the key it worked with.
THEOREM CredentialsRestartKeepsKey == Spec => RestartKeepsKey
<1>1. ASSUME IInv, [Next]_vars, phase # "serving", phase' = "serving", inUse # None
      PROVE  conn'.cred = inUse
  <2> USE <1>1 DEF IInv, StateInv
  <2>1. inUse = BootKey /\ inUse \in Cred
    BY DEF UseInv, TypeOK
  <2>2. Boot \/ \E ok \in BOOLEAN : BootConnects(ok)
    BY DEF Next, Step, Quiet, PutStart, PutAccepted, PutRejected, PutTimesOut, DeleteStart,
           DeleteConnects, DeleteTimesOut, Arrives, Crash, AtRest, vars
  <2>3. CASE Boot
    BY <2>1, <2>3 DEF Boot, BootKey
  <2>4. ASSUME NEW ok \in BOOLEAN, BootConnects(ok) PROVE conn'.cred = inUse
    BY <2>1, <2>4 DEF BootConnects, StoreInv, BootKey, Connection
  <2> QED BY <2>2, <2>3, <2>4
<1>2. IInv /\ [Next]_vars
        => [phase # "serving" /\ phase' = "serving" /\ inUse # None => conn'.cred = inUse]_vars
  BY <1>1
<1> QED BY <1>2, InitInv, StepInv, PTL DEF Spec, RestartKeepsKey

===============================================================================
