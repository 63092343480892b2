----------------------------- MODULE Credentials ------------------------------
(***************************************************************************)
(* Which AWS account the node engine works with: the credential store      *)
(* (config/credstore.ts), the connection every request reads               *)
(* (service.aws, connect.ts), the two handlers that change them            *)
(* (http/credentials.ts), the connection made at start (main.ts), and the  *)
(* region that connect() records in config.json.                           *)
(*                                                                         *)
(* A handler gives up the thread only while STS is asked who the key is,   *)
(* so each handler is two actions: what it does up to that question and    *)
(* what it does with the answer.  Requests run concurrently; a crash loses *)
(* everything but the two files, which are replaced by rename.             *)
(*                                                                         *)
(* Any write to the disk can fail.                                         *)
(*                                                                         *)
(* .env is read again at every resolution; it is any file, and nobody edits *)
(* it while the process runs.                                              *)
(*                                                                         *)
(* Bounds: each request of Request is sent once, MaxCrashes caps the       *)
(* crashes.                                                                *)
(***************************************************************************)
EXTENDS Naturals

CONSTANTS
  Request,     (* PUT and DELETE /api/credentials                          *)
  Cred,        (* complete keys                                            *)
  Region,
  RegionOf,    (* the AWS_REGION each key carries                          *)
  Unreadable,  (* a .env that cannot be parsed                             *)
  Incomplete,  (* one without a complete key, or none                      *)
  None,
  MaxCrashes

ASSUME CredentialsAssumption ==
  /\ None \notin Cred \cup Region
  /\ Unreadable \notin Cred
  /\ Incomplete \notin Cred
  /\ RegionOf \in [Cred -> Region]
  /\ MaxCrashes \in Nat

VARIABLES
  phase,       (* "down", "booting" (not listening yet) or "serving"       *)
  env,         (* what .env holds: a key, Unreadable or Incomplete         *)
  memory,      (* CredentialStore.creds                                    *)
  file,        (* credentials.json                                         *)
  conn,        (* service.aws                                              *)
  region,      (* ConfigStore.cfg.region                                   *)
  regionFile,  (* region in config.json                                    *)
  pc,          (* where each request stands                                *)
  asked,       (* the key a PUT carries                                    *)
  accepted,    (* history: keys STS has accepted                           *)
  broken,      (* history: the last write to credentials.json failed       *)
  raced,       (* history: a deletion was asking STS as the key was saved  *)
  inUse,       (* history: the key at work while no request is in flight   *)
  crashes

vars == <<env, phase, memory, file, conn, region, regionFile, pc, asked, accepted,
          broken, raced, inUse, crashes>>

InFlight == {"putting", "deleting"}
Answered == {"ok", "failed", "lost"}

NoConnection(s) == [source |-> s, cred |-> None, ok |-> FALSE]
Connection(s, k, ok) == [source |-> s, cred |-> k, ok |-> ok]

Busy == \E r \in Request : pc[r] \in InFlight
AtRest == phase = "serving" /\ ~Busy

Init ==
  /\ env \in Cred \cup {Unreadable, Incomplete}
  /\ phase = "down"
  /\ memory = None
  /\ file \in Cred \cup {None}
  /\ conn = NoConnection("none")
  /\ region \in Region
  /\ regionFile = region
  /\ pc = [r \in Request |-> "idle"]
  /\ asked = [r \in Request |-> None]
  /\ accepted = {file} \ {None}
  /\ broken = FALSE
  /\ raced = FALSE
  /\ inUse = None
  /\ crashes = 0

\* connect() up to whoAmI: the key's region goes to the config store before
\* anybody knows whether the key is any good; a failed write is only logged.
RecordRegion(k) ==
  /\ region' = RegionOf[k]
  /\ \/ region # RegionOf[k] /\ regionFile' = RegionOf[k]
     \/ region = RegionOf[k] /\ regionFile' = regionFile
     \/ region # RegionOf[k] /\ regionFile' = regionFile

\* What resolveConnection answers at once when .env holds no usable key.
EnvRefused == NoConnection(IF env = Unreadable THEN "env" ELSE "none")

\* The process starts, reads both files and resolves its connection.
Boot ==
  /\ phase = "down"
  /\ memory' = file
  /\ \/ /\ file # None \/ env \in Cred
        /\ phase' = "booting"
        /\ LET k == IF file # None THEN file ELSE env IN
             /\ region' = RegionOf[k]
             /\ regionFile' \in {RegionOf[k], regionFile}
        /\ UNCHANGED <<conn, inUse>>
     \/ /\ file = None /\ env \notin Cred
        /\ phase' = "serving"
        /\ conn' = EnvRefused
        /\ region' = regionFile
        /\ inUse' = None
        /\ UNCHANGED regionFile
  /\ broken' = FALSE
  /\ raced' = FALSE
  /\ UNCHANGED <<file, pc, asked, accepted, crashes>>

\* STS answers, or its deadline passes: the connection is kept either way, and
\* the server begins to listen.
BootConnects(ok) ==
  /\ phase = "booting"
  /\ phase' = "serving"
  /\ conn' = IF memory # None THEN Connection("saved", memory, ok)
                              ELSE Connection("env", env, ok)
  /\ accepted' = IF ok THEN accepted \cup {conn'.cred} ELSE accepted
  /\ inUse' = conn'.cred
  /\ UNCHANGED <<memory, file, region, regionFile, pc, asked, broken, raced, crashes>>

Arrives(r) == phase = "serving" /\ pc[r] = "idle"

\* The key at work, when no request is left that may change it.
NextInUse ==
  inUse' = IF AtRest' /\ ~broken' /\ ~raced' THEN conn'.cred ELSE None

\* Mutant: the key is stored first and proven afterwards.
PutStartStores(r, k) ==
  /\ Arrives(r)
  /\ pc' = [pc EXCEPT ![r] = "putting"]
  /\ asked' = [asked EXCEPT ![r] = k]
  /\ memory' = k
  /\ file' = k
  /\ RecordRegion(k)
  /\ UNCHANGED <<phase, conn, accepted, broken, raced, crashes>>
  /\ NextInUse

\* PUT: the key is complete, and AWS is asked about it before it is stored.
PutStart(r, k) ==
  /\ Arrives(r)
  /\ pc' = [pc EXCEPT ![r] = "putting"]
  /\ asked' = [asked EXCEPT ![r] = k]
  /\ RecordRegion(k)
  /\ UNCHANGED <<phase, memory, file, conn, accepted, broken, raced, crashes>>
  /\ NextInUse

\* Mutant: the key is stored and the old connection goes on.
PutAcceptedNoSwap(r) ==
  /\ phase = "serving" /\ pc[r] = "putting"
  /\ accepted' = accepted \cup {asked[r]}
  /\ memory' = asked[r]
  /\ file' = asked[r]
  /\ raced' = \E d \in Request : pc[d] = "deleting"
  /\ broken' = FALSE
  /\ pc' = [pc EXCEPT ![r] = "ok"]
  /\ UNCHANGED <<phase, conn, region, regionFile, asked, crashes>>
  /\ NextInUse

\* AWS accepts the key: store it, then swap the connection.  The store changes
\* its memory before it writes; if the write fails the swap does not happen.
PutAccepted(r) ==
  /\ phase = "serving" /\ pc[r] = "putting"
  /\ accepted' = accepted \cup {asked[r]}
  /\ memory' = asked[r]
  /\ raced' = \E d \in Request : pc[d] = "deleting"
  /\ \/ /\ file' = asked[r]
        /\ conn' = Connection("saved", asked[r], TRUE)
        /\ pc' = [pc EXCEPT ![r] = "ok"]
        /\ broken' = FALSE
     \/ /\ pc' = [pc EXCEPT ![r] = "failed"]
        /\ broken' = TRUE
        /\ UNCHANGED <<file, conn>>
  /\ UNCHANGED <<phase, region, regionFile, asked, crashes>>
  /\ NextInUse

\* AWS refuses the key: 502, nothing is stored.
PutRejected(r) ==
  /\ phase = "serving" /\ pc[r] = "putting"
  /\ pc' = [pc EXCEPT ![r] = "failed"]
  /\ UNCHANGED <<phase, memory, file, conn, region, regionFile, asked, accepted,
                 broken, raced, crashes>>
  /\ NextInUse

\* Mutant: bounded() races against nothing.
PutNeverTimesOut(r) == FALSE /\ PutRejected(r)

\* The guard of bounded() fires; a later answer of AWS is dropped.
PutTimesOut(r) == PutRejected(r)

\* What DELETE does next: resolve again from .env.
ResolveEnv(r) ==
  \/ /\ env \in Cred
     /\ RecordRegion(env)
     /\ pc' = [pc EXCEPT ![r] = "deleting"]
     /\ UNCHANGED conn
  \/ /\ env \notin Cred
     /\ conn' = EnvRefused
     /\ pc' = [pc EXCEPT ![r] = "ok"]
     /\ UNCHANGED <<region, regionFile>>

\* Mutant: the file is left behind.
DeleteStartKeepsFile(r) ==
  /\ Arrives(r)
  /\ memory' = None
  /\ ResolveEnv(r)
  /\ broken' = FALSE
  /\ raced' = FALSE
  /\ UNCHANGED <<phase, file, asked, accepted, crashes>>
  /\ NextInUse

\* Mutant: only the file is removed, the service is not connected again.
DeleteStartStays(r) ==
  /\ Arrives(r)
  /\ memory' = None
  /\ file' = None
  /\ pc' = [pc EXCEPT ![r] = "ok"]
  /\ broken' = FALSE
  /\ raced' = FALSE
  /\ UNCHANGED <<phase, conn, region, regionFile, asked, accepted, crashes>>
  /\ NextInUse

\* DELETE: forget the key, then resolve again.  The memory is cleared before the
\* file is removed; if that fails the connection stays.
DeleteStart(r) ==
  /\ Arrives(r)
  /\ memory' = None
  /\ raced' = FALSE
  /\ \/ /\ file' = None
        /\ ResolveEnv(r)
        /\ broken' = FALSE
     \/ /\ pc' = [pc EXCEPT ![r] = "failed"]
        /\ broken' = TRUE
        /\ UNCHANGED <<file, conn, region, regionFile>>
  /\ UNCHANGED <<phase, asked, accepted, crashes>>
  /\ NextInUse

\* AWS answered about the key of .env: the connection is swapped in, in error
\* too.
DeleteConnects(r, ok) ==
  /\ phase = "serving" /\ pc[r] = "deleting"
  /\ conn' = Connection("env", env, ok)
  /\ accepted' = IF ok THEN accepted \cup {env} ELSE accepted
  /\ pc' = [pc EXCEPT ![r] = "ok"]
  /\ UNCHANGED <<phase, memory, file, region, regionFile, asked, broken, raced, crashes>>
  /\ NextInUse

\* The guard of bounded() fires: no connection at all is swapped in.
DeleteTimesOut(r) ==
  /\ phase = "serving" /\ pc[r] = "deleting"
  /\ conn' = NoConnection("none")
  /\ pc' = [pc EXCEPT ![r] = "ok"]
  /\ UNCHANGED <<phase, memory, file, region, regionFile, asked, accepted, broken,
                 raced, crashes>>
  /\ NextInUse

\* The process dies; requests in flight are lost with it.
Crash ==
  /\ crashes < MaxCrashes
  /\ phase # "down"
  /\ phase' = "down"
  /\ crashes' = crashes + 1
  /\ memory' = None
  /\ conn' = NoConnection("none")
  /\ pc' = [r \in Request |-> IF pc[r] \in InFlight THEN "lost" ELSE pc[r]]
  /\ UNCHANGED <<file, region, regionFile, asked, accepted, broken, raced, inUse>>

Quiet == AtRest /\ (\A r \in Request : pc[r] \in Answered) /\ UNCHANGED vars

Step ==
  \/ Boot
  \/ \E ok \in BOOLEAN : BootConnects(ok)
  \/ \E r \in Request :
       \/ \E k \in Cred : PutStart(r, k)
       \/ PutAccepted(r)
       \/ PutRejected(r)
       \/ PutTimesOut(r)
       \/ DeleteStart(r)
       \/ \E ok \in BOOLEAN : DeleteConnects(r, ok)
       \/ DeleteTimesOut(r)
  \/ Crash

Next == (Step /\ UNCHANGED env) \/ Quiet

Spec == Init /\ [][Next]_vars

\* Only the guards are fair: AWS may never answer.
Fairness ==
  \A r \in Request :
    /\ WF_vars(PutTimesOut(r) /\ UNCHANGED env)
    /\ WF_vars(DeleteTimesOut(r) /\ UNCHANGED env)

FairSpec == Spec /\ Fairness

-------------------------------------------------------------------------------

TypeOK ==
  /\ env \in Cred \cup {Unreadable, Incomplete}
  /\ phase \in {"down", "booting", "serving"}
  /\ memory \in Cred \cup {None}
  /\ file \in Cred \cup {None}
  /\ conn \in [source : {"saved", "env", "none"}, cred : Cred \cup {None}, ok : BOOLEAN]
  /\ region \in Region
  /\ regionFile \in Region
  /\ pc \in [Request -> {"idle"} \cup InFlight \cup Answered]
  /\ asked \in [Request -> Cred \cup {None}]
  /\ accepted \subseteq Cred
  /\ broken \in BOOLEAN
  /\ raced \in BOOLEAN
  /\ inUse \in Cred \cup {None}
  /\ crashes \in Nat

\* credentials.json holds only a key that AWS accepted at some time
\* (credentials.ts:81-83, credstore.ts:78-80).
FileWasAccepted == file # None => file \in accepted

\* Once every request is answered, a saved key wins over .env: it is the one
\* the service works with (connect.ts:161-164).
SavedKeyWins ==
  AtRest /\ memory # None /\ ~broken => conn.source = "saved" /\ conn.cred = memory

\* It does, unless a deletion was still asking STS about .env when the key was
\* saved: overlapping saves alone never disagree with the store.
SavedKeyWinsUnraced == ~raced => SavedKeyWins

\* Once every request is answered, a key that was deleted is not the one the
\* service works with (credentials.ts:103-104), in whatever order saves and
\* deletions overlapped.
DeletedKeyNotUsed ==
  AtRest /\ memory = None /\ ~broken => conn.source # "saved"

\* A process that dies with no request in flight comes back to the key it worked
\* with.
RestartKeepsKey ==
  [][phase # "serving" /\ phase' = "serving" /\ inUse # None => conn'.cred = inUse]_vars

\* The region in the config is the one of the key at work: the config only
\* records what the credentials decided (connect.ts:118-120).
RegionFollowsKey ==
  AtRest /\ conn.cred # None => region = RegionOf[conn.cred]

\* Saving or deleting a key is always answered, even if AWS never does
\* (credentials.ts:144-150).
EveryRequestAnswered ==
  \A r \in Request : pc[r] \in InFlight ~> pc[r] \in Answered

===============================================================================
