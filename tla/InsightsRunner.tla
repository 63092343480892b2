---------------------------- MODULE InsightsRunner ----------------------------
(***************************************************************************)
(* The runner of Logs Insights queries in the node engine                  *)
(* (server/src/aws/insights.ts): its semaphore, the run of one query from  *)
(* acquire to release, and what becomes of the query in CloudWatch.        *)
(*                                                                         *)
(* The thread changes hands at an await.  A waiter that release() grants   *)
(* goes on one microtask later, and only then takes its place from `free`; *)
(* another call of acquire can fall into that microtask.                   *)
(*                                                                         *)
(* CloudWatch is external: it starts a query it accepts, finishes or fails *)
(* it in its own time, and its replies may be lost.                        *)
(*                                                                         *)
(* Bounds: every run of Run is made once.                                  *)
(***************************************************************************)
EXTENDS Integers, FiniteSets, SequencesExt

CONSTANTS
  Run,       (* calls of InsightsRunner.run                                *)
  N          (* limits.insightsConcurrency                                 *)

ASSUME RunnerAssumption ==
  /\ IsFiniteSet(Run)
  /\ N \in Nat \ {0}

VARIABLES
  free,      (* Semaphore.free                                             *)
  queue,     (* Semaphore.waiting                                          *)
  pc,        (* where each run stands                                      *)
  aborted,   (* runs whose signal has fired: the caller's or the deadline  *)
  remote,    (* the query in CloudWatch                                    *)
  stop,      (* the StopQuery of each run                                  *)
  known,     (* history: runs that were told their query id                *)
  barged     (* history: a call of acquire took a place that was promised  *)

vars == <<free, queue, pc, aborted, remote, stop, known, barged>>

Holding == {r \in Run : pc[r] \in {"unsent", "starting", "polling"}}
Granted == {r \in Run : pc[r] = "granted"}
Answered == {"returned", "threw"}

Init ==
  /\ free = N
  /\ queue = <<>>
  /\ pc = [r \in Run |-> "idle"]
  /\ aborted = {}
  /\ remote = [r \in Run |-> "none"]
  /\ stop = [r \in Run |-> "none"]
  /\ known = {}
  /\ barged = FALSE

\* Where a run goes from acquire: StartQuery is sent, unless the signal has
\* fired by then, when the SDK refuses without sending.
AfterAcquire(r) == IF r \in aborted THEN "unsent" ELSE "starting"

\* Semaphore.acquire, up to its first await.
Acquire(r) ==
  /\ pc[r] = "idle"
  /\ \/ /\ r \in aborted
        /\ pc' = [pc EXCEPT ![r] = "threw"]
        /\ UNCHANGED <<free, queue, barged>>
     \/ /\ r \notin aborted /\ free > 0
        /\ free' = free - 1
        /\ pc' = [pc EXCEPT ![r] = AfterAcquire(r)]
        /\ barged' = (barged \/ free <= Cardinality(Granted))
        /\ UNCHANGED queue
     \/ /\ r \notin aborted /\ free <= 0
        /\ queue' = Append(queue, r)
        /\ pc' = [pc EXCEPT ![r] = "queued"]
        /\ UNCHANGED <<free, barged>>
  /\ UNCHANGED <<aborted, remote, stop, known>>

\* The microtask after the grant: the waiter takes its place, whatever `free`
\* is by now, and whether or not its signal fired since.
Wake(r) ==
  /\ pc[r] = "granted"
  /\ free' = free - 1
  /\ pc' = [pc EXCEPT ![r] = AfterAcquire(r)]
  /\ UNCHANGED <<queue, aborted, remote, stop, known, barged>>

\* Mutant: the listener is gone from the waiter, but the waiter stays in line.
AbortInLine(r) ==
  /\ r \notin aborted /\ pc[r] \notin Answered
  /\ aborted' = aborted \cup {r}
  /\ pc' = IF pc[r] = "queued" THEN [pc EXCEPT ![r] = "threw"] ELSE pc
  /\ UNCHANGED <<free, queue, remote, stop, known, barged>>

\* The caller's signal fires.  A run in line leaves the line and throws; any
\* other only finds out at its next call.
Abort(r) ==
  /\ r \notin aborted /\ pc[r] \notin Answered
  /\ aborted' = aborted \cup {r}
  /\ \/ /\ pc[r] = "queued"
        /\ pc' = [pc EXCEPT ![r] = "threw"]
        /\ \E i \in DOMAIN queue : queue[i] = r /\ queue' = RemoveAt(queue, i)
     \/ pc[r] # "queued" /\ UNCHANGED <<pc, queue>>
  /\ UNCHANGED <<free, remote, stop, known, barged>>

\* Mutant: no deadline of its own.
NeverTimesOut(r) == FALSE /\ Abort(r)

\* The deadline of a run that holds a place; one in line has none yet.
TimesOut(r) == r \in Holding /\ Abort(r)

\* Mutant: the waiter is handed the place and the place is freed again.
LeaveTwice(r, how) ==
  /\ free' = free + 2
  /\ pc' = [pc EXCEPT ![r] = how]
  /\ UNCHANGED queue

\* Semaphore.release in the finally of run: free the place, grant the first in
\* line.  A grant to a waiter that has thrown changes nothing for it.
Leave(r, how) ==
  /\ free' = free + 1
  /\ IF queue = <<>>
     THEN pc' = [pc EXCEPT ![r] = how] /\ UNCHANGED queue
     ELSE /\ pc' = [pc EXCEPT ![r] = how,
                      ![Head(queue)] = IF @ = "queued" THEN "granted" ELSE @]
          /\ queue' = Tail(queue)

\* CloudWatch receives StartQuery and starts the query.
RemoteStarts(r) ==
  /\ pc[r] = "starting" /\ remote[r] = "none"
  /\ remote' = [remote EXCEPT ![r] = "running"]
  /\ UNCHANGED <<free, queue, pc, aborted, stop, known, barged>>

\* Its reply brings the query id.
Started(r) ==
  /\ pc[r] = "starting" /\ remote[r] # "none"
  /\ pc' = [pc EXCEPT ![r] = "polling"]
  /\ known' = known \cup {r}
  /\ UNCHANGED <<free, queue, aborted, remote, stop, barged>>

\* StartQuery fails: refused, aborted before or after it reached CloudWatch, or
\* answered without an id.  No StopQuery, for there is no id to send.
StartFails(r) ==
  /\ pc[r] \in {"unsent", "starting"}
  /\ Leave(r, "threw")
  /\ UNCHANGED <<aborted, remote, stop, known, barged>>

\* The query ends in CloudWatch.
RemoteEnds(r, how) ==
  /\ remote[r] = "running"
  /\ remote' = [remote EXCEPT ![r] = how]
  /\ UNCHANGED <<free, queue, pc, aborted, stop, known, barged>>

\* GetQueryResults finds the query complete.
PollReturns(r) ==
  /\ pc[r] = "polling" /\ remote[r] = "complete"
  /\ Leave(r, "returned")
  /\ UNCHANGED <<aborted, remote, stop, known, barged>>

\* Mutant: the catch of runHeld rethrows and forgets the query.
PollThrowsOnly(r) ==
  /\ pc[r] = "polling"
  /\ Leave(r, "threw")
  /\ UNCHANGED <<aborted, remote, stop, known, barged>>

\* GetQueryResults fails, finds the query failed, or the wait is aborted: send
\* StopQuery without waiting for it, and throw.
PollThrows(r) ==
  /\ pc[r] = "polling"
  /\ stop' = [stop EXCEPT ![r] = "sent"]
  /\ Leave(r, "threw")
  /\ UNCHANGED <<aborted, remote, known, barged>>

\* StopQuery reaches CloudWatch, or it fails and its error is dropped.
StopArrives(r) ==
  /\ stop[r] = "sent"
  /\ stop' = [stop EXCEPT ![r] = "arrived"]
  /\ remote' = [remote EXCEPT ![r] = IF @ = "running" THEN "failed" ELSE @]
  /\ UNCHANGED <<free, queue, pc, aborted, known, barged>>

StopFails(r) ==
  /\ stop[r] = "sent"
  /\ stop' = [stop EXCEPT ![r] = "lost"]
  /\ UNCHANGED <<free, queue, pc, aborted, remote, known, barged>>

Quiet == (\A r \in Run : pc[r] \in Answered) /\ UNCHANGED vars

Next ==
  \/ \E r \in Run :
       \/ Acquire(r) \/ Wake(r)
       \/ Abort(r) \/ TimesOut(r)
       \/ RemoteStarts(r) \/ Started(r) \/ StartFails(r)
       \/ \E how \in {"complete", "failed"} : RemoteEnds(r, how)
       \/ PollReturns(r) \/ PollThrows(r)
       \/ StopArrives(r) \/ StopFails(r)
  \/ Quiet

Spec == Init /\ [][Next]_vars

\* Microtasks run, deadlines fire, and a call fails once its signal has fired.
\* CloudWatch need not do anything.
Fairness ==
  \A r \in Run :
    /\ WF_vars(Wake(r))
    /\ WF_vars(TimesOut(r))
    /\ WF_vars(r \in aborted /\ StartFails(r))
    /\ WF_vars(r \in aborted /\ PollThrows(r))

FairSpec == Spec /\ Fairness

-------------------------------------------------------------------------------

\* The types, and the line: it holds the runs that are queued, each once.
TypeOK ==
  /\ free \in Int
  /\ queue \in Seq(Run)
  /\ \A i \in DOMAIN queue : pc[queue[i]] = "queued"
  /\ \A i, j \in DOMAIN queue : queue[i] = queue[j] => i = j
  /\ pc \in [Run -> {"idle", "queued", "granted", "unsent", "starting", "polling"}
                       \cup Answered]
  /\ aborted \subseteq Run
  /\ remote \in [Run -> {"none", "running", "complete", "failed"}]
  /\ stop \in [Run -> {"none", "sent", "arrived", "lost"}]
  /\ known \subseteq Run
  /\ barged \in BOOLEAN

\* Every place is either free or held: whichever way a run ends, and whether its
\* signal fires in line, on the grant or later, it gives back what it took.
PlacesAccountedFor == free = N - Cardinality(Holding)

\* No lost wakeup: while runs wait in line, every place that is free has been
\* promised to a waiter (insights.ts:71-91).
NoLostWakeup == queue # <<>> => free <= Cardinality(Granted)

\* The semaphore bounds the queries in flight (insights.ts:50-51, 95-97).
AtMostN == Cardinality(Holding) <= N

\* It does as long as no call of acquire takes a place between its release and
\* the microtask of the waiter it was granted to.
AtMostNUnlessBarged == ~barged => AtMostN

\* A query that is still running and whose id is known is watched by its run, or
\* a StopQuery was sent for it (insights.ts:169-174).
KnownQueryStopped ==
  \A r \in known : remote[r] = "running" => pc[r] = "polling" \/ stop[r] # "none"

\* No query is left running that nobody will read: every way out sends a
\* StopQuery (insights.ts:3-4, 53-55).
NoOrphanQuery ==
  \A r \in Run : remote[r] = "running" /\ pc[r] \in Answered => stop[r] # "none"

\* Every run that waits in line is answered (insights.ts:71-91), even if
\* CloudWatch never answers anything.
EveryRunAnswered == \A r \in Run : pc[r] = "queued" ~> pc[r] \in Answered

===============================================================================
