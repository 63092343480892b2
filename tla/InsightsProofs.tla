----------------------------- MODULE InsightsProofs ----------------------------
(***************************************************************************)
(* Proofs about what is asked of Logs Insights.                            *)
(*                                                                         *)
(* InsightsRunner: its types and its line, that places are neither lost    *)
(* nor duplicated, that no wakeup is lost, that at most N runs hold a      *)
(* place until a call of acquire takes one that was promised, and that a   *)
(* query whose id is known is stopped.                                     *)
(*                                                                         *)
(* LogRows: that the preview of the settings reads a line as the queries   *)
(* do, that no query is refused for its names, that a panel that warns of  *)
(* nothing counts every line it says it counts, and that a list that was   *)
(* cut says so.                                                            *)
(***************************************************************************)
EXTENDS InsightsRunner, LogRows, FiniteSetTheorems, SequenceTheorems, TLAPS

-----------------------------------------------------------------------------
(* The runner.                                                               *)

IInv == TypeOK /\ PlacesAccountedFor /\ NoLostWakeup

\* Until a place is taken that was promised, every grant is covered by a free
\* place.
GrantsCovered == ~barged => Cardinality(Granted) <= free

-------------------------------------------------------------------------------

\* Removing one element of a sequence that repeats none leaves the others.
LEMMA RemoveAtLine ==
  ASSUME NEW S, NEW q \in Seq(S), NEW i \in DOMAIN q,
         \A m, n \in DOMAIN q : q[m] = q[n] => m = n
  PROVE  /\ RemoveAt(q, i) \in Seq(S)
         /\ \A j \in DOMAIN RemoveAt(q, i) :
              \E m \in DOMAIN q : m # i /\ RemoveAt(q, i)[j] = q[m]
         /\ \A j, k \in DOMAIN RemoveAt(q, i) :
              RemoveAt(q, i)[j] = RemoveAt(q, i)[k] => j = k
         /\ q # <<>>
<1> DEFINE a == SubSeq(q, 1, i - 1)
           b == SubSeq(q, i + 1, Len(q))
           s == a \o b
           old(j) == IF j < i THEN j ELSE j + 1
<1>1. /\ Len(q) \in Nat /\ DOMAIN q = 1..Len(q) /\ i \in 1..Len(q)
      /\ \A j \in 1..Len(q) : q[j] \in S
  OBVIOUS
<1>2. /\ a \in Seq(S) /\ Len(a) = i - 1
      /\ \A j \in 1..(i - 1) : a[j] = q[j]
  <2>1. \A j \in 1..(i - 1) : q[j] \in S
    BY <1>1
  <2>2. 1 \in Int /\ i - 1 \in Int /\ i \in Nat
    BY <1>1
  <2> HIDE DEF a
  <2>3. /\ a \in Seq(S)
        /\ Len(a) = IF 1 <= i - 1 THEN i - 1 - 1 + 1 ELSE 0
        /\ \A j \in 1..(i - 1 - 1 + 1) : a[j] = q[1 + j - 1]
    BY <2>1, <2>2, SubSeqProperties DEF a
  <2> QED BY <1>1, <2>3
<1>3. /\ b \in Seq(S) /\ Len(b) = Len(q) - i
      /\ \A j \in 1..(Len(q) - i) : b[j] = q[i + j]
  <2>1. \A j \in (i + 1)..Len(q) : q[j] \in S
    BY <1>1
  <2>2. i + 1 \in Int /\ Len(q) \in Int /\ i \in Nat
    BY <1>1
  <2> HIDE DEF b
  <2>3. /\ b \in Seq(S)
        /\ Len(b) = IF i + 1 <= Len(q) THEN Len(q) - (i + 1) + 1 ELSE 0
        /\ \A j \in 1..(Len(q) - (i + 1) + 1) : b[j] = q[i + 1 + j - 1]
    BY <2>1, <2>2, SubSeqProperties DEF b
  <2> QED BY <1>1, <2>3
<1> HIDE DEF a, b
<1>4. /\ s \in Seq(S)
      /\ Len(s) = Len(a) + Len(b)
      /\ \A j \in 1..(Len(a) + Len(b)) :
           s[j] = IF j <= Len(a) THEN a[j] ELSE b[j - Len(a)]
  <2>1. a \in Seq(S) /\ b \in Seq(S)
    BY <1>2, <1>3
  <2> HIDE DEF s
  <2>2. /\ a \o b \in Seq(S)
        /\ Len(a \o b) = Len(a) + Len(b)
        /\ \A j \in 1..(Len(a) + Len(b)) :
             (a \o b)[j] = IF j <= Len(a) THEN a[j] ELSE b[j - Len(a)]
    BY <2>1, ConcatProperties
  <2> QED BY <2>2 DEF s
<1> HIDE DEF s
<1>5. Len(s) = Len(q) - 1 /\ DOMAIN s = 1..Len(s)
  BY <1>1, <1>2, <1>3, <1>4
<1>6. \A j \in 1..Len(s) : s[j] = q[old(j)] /\ old(j) \in 1..Len(q) \ {i}
  <2> TAKE j \in 1..Len(s)
  <2>1. CASE j < i
    BY <1>1, <1>2, <1>3, <1>4, <1>5, <2>1
  <2>2. CASE j >= i
    <3>1. j - (i - 1) \in 1..(Len(q) - i)
      BY <1>1, <1>5, <2>2
    <3>2. s[j] = b[j - (i - 1)]
      BY <1>1, <1>2, <1>3, <1>4, <1>5, <2>2
    <3>3. s[j] = q[i + (j - (i - 1))]
      BY <1>3, <3>1, <3>2
    <3> QED BY <1>1, <1>5, <2>2, <3>3
  <2> QED BY <1>1, <1>5, <2>1, <2>2
<1>7. \A j, k \in 1..Len(s) : s[j] = s[k] => j = k
  <2> SUFFICES ASSUME NEW j \in 1..Len(s), NEW k \in 1..Len(s), s[j] = s[k] PROVE j = k
    OBVIOUS
  <2>1. q[old(j)] = q[old(k)] /\ old(j) \in 1..Len(q) /\ old(k) \in 1..Len(q)
    BY <1>6
  <2>2. old(j) = old(k)
    BY <1>1, <2>1
  <2> QED BY <1>1, <1>5, <2>2
<1>8. \A j \in 1..Len(s) : \E m \in 1..Len(q) : m # i /\ s[j] = q[m]
  <2> TAKE j \in 1..Len(s)
  <2>1. old(j) \in 1..Len(q) /\ old(j) # i /\ s[j] = q[old(j)]
    BY <1>6
  <2> HIDE DEF old
  <2> QED BY <2>1
<1>9. RemoveAt(q, i) = s
  BY DEF RemoveAt, s, a, b
<1>10. q # <<>>
  BY <1>1
<1> HIDE DEF old
<1> QED BY <1>1, <1>4, <1>5, <1>7, <1>8, <1>9, <1>10

LEMMA SetsFinite ==
  /\ IsFiniteSet(Holding) /\ Cardinality(Holding) \in Nat
  /\ IsFiniteSet(Granted) /\ Cardinality(Granted) \in Nat
<1>1. Holding \in SUBSET Run /\ Granted \in SUBSET Run
  BY DEF Holding, Granted
<1> QED BY <1>1, RunnerAssumption, FS_Subset, FS_CardinalityType

\* What release() does to the line and the sets, for a run that holds a place.
LEMMA LeaveEffect ==
  ASSUME TypeOK, NEW r \in Holding, NEW how \in Answered, Leave(r, how)
  PROVE  /\ free' = free + 1
         /\ pc' \in [Run -> {"idle", "queued", "granted", "unsent", "starting", "polling"}
                              \cup Answered]
         /\ queue' \in Seq(Run)
         /\ \A i \in DOMAIN queue' : pc'[queue'[i]] = "queued"
         /\ \A i, j \in DOMAIN queue' : queue'[i] = queue'[j] => i = j
         /\ Holding' = Holding \ {r}
         /\ queue = <<>> => queue' = <<>> /\ Granted' = Granted
         /\ queue # <<>> => /\ Head(queue) \notin Granted
                            /\ Granted' = Granted \cup {Head(queue)}
         /\ pc'[r] = how
         /\ \A t \in Run \ {r} : pc[t] \notin {"queued"} => pc'[t] = pc[t]
<1> USE DEF Answered
<1>1. r \in Run /\ pc[r] \in {"unsent", "starting", "polling"}
  BY DEF Holding
<1>2. CASE queue = <<>>
  BY <1>1, <1>2 DEF Leave, TypeOK, Holding, Granted
<1>3. CASE queue # <<>>
  <2> DEFINE h == Head(queue)
  <2>1. h = queue[1] /\ 1 \in DOMAIN queue /\ h \in Run /\ Len(queue) \in Nat \ {0}
    BY <1>3 DEF TypeOK
  <2>2. pc[h] = "queued" /\ h # r
    BY <1>1, <2>1 DEF TypeOK
  <2>3. queue' = Tail(queue) /\ free' = free + 1
        /\ pc' = [pc EXCEPT ![r] = how, ![h] = "granted"]
    BY <1>1, <1>3, <2>1, <2>2 DEF Leave, TypeOK
  <2>4. /\ Tail(queue) \in Seq(Run)
        /\ Len(Tail(queue)) = Len(queue) - 1
        /\ DOMAIN Tail(queue) = 1..(Len(queue) - 1)
        /\ \A i \in 1..(Len(queue) - 1) : Tail(queue)[i] = queue[i + 1]
    BY <1>3, <2>1 DEF TypeOK
  <2>5. \A i \in DOMAIN queue' :
          /\ i + 1 \in DOMAIN queue /\ queue'[i] = queue[i + 1]
          /\ queue[i + 1] # h /\ queue[i + 1] # r /\ queue[i + 1] \in Run
    <3> SUFFICES ASSUME NEW i \in DOMAIN queue'
                 PROVE  /\ i + 1 \in DOMAIN queue /\ queue'[i] = queue[i + 1]
                        /\ queue[i + 1] # h /\ queue[i + 1] # r /\ queue[i + 1] \in Run
      OBVIOUS
    <3>1. i \in 1..(Len(queue) - 1)
      BY <2>3, <2>4
    <3>2. i + 1 \in DOMAIN queue /\ i + 1 # 1
      BY <3>1, <2>1 DEF TypeOK
    <3>3. pc[queue[i + 1]] = "queued" /\ queue[i + 1] \in Run
      BY <3>2 DEF TypeOK
    <3>4. queue[i + 1] # h
      BY <2>1, <3>2 DEF TypeOK
    <3> QED BY <1>1, <2>3, <2>4, <3>1, <3>2, <3>3, <3>4
  <2>6. \A i \in DOMAIN queue' : pc'[queue'[i]] = "queued"
    BY <2>3, <2>5 DEF TypeOK
  <2>7. \A i, j \in DOMAIN queue' : queue'[i] = queue'[j] => i = j
    <3> SUFFICES ASSUME NEW i \in DOMAIN queue', NEW j \in DOMAIN queue', queue'[i] = queue'[j]
                 PROVE  i = j
      OBVIOUS
    <3>1. i \in Nat /\ j \in Nat
      BY <2>3, <2>4
    <3>2. i + 1 = j + 1
      BY <2>5 DEF TypeOK
    <3> QED BY <3>1, <3>2
  <2>8. pc' \in [Run -> {"idle", "queued", "granted", "unsent", "starting", "polling"}
                          \cup Answered]
    BY <1>1, <2>1, <2>3 DEF TypeOK
  <2>9. /\ Holding' = Holding \ {r}
        /\ h \notin Granted /\ Granted' = Granted \cup {h}
        /\ pc'[r] = how
        /\ \A t \in Run \ {r} : pc[t] # "queued" => pc'[t] = pc[t]
    BY <1>1, <2>1, <2>2, <2>3 DEF TypeOK, Holding, Granted
  <2> QED BY <1>3, <2>3, <2>4, <2>6, <2>7, <2>8, <2>9
<1> QED BY <1>2, <1>3

\* Release keeps the count, wakes a waiter for the place it frees, and covers the
\* grant it makes.
LEMMA LeaveInv ==
  ASSUME IInv, NEW r \in Holding, NEW how \in Answered, Leave(r, how), barged' = barged
  PROVE  PlacesAccountedFor' /\ NoLostWakeup' /\ (GrantsCovered => GrantsCovered')
<1> USE DEF IInv
<1>1. Cardinality(Holding') = Cardinality(Holding) - 1
  BY LeaveEffect, SetsFinite, FS_RemoveElement
<1>2. free' = free + 1 /\ free \in Int /\ N \in Nat
  BY LeaveEffect, RunnerAssumption DEF TypeOK
<1>3. PlacesAccountedFor'
  BY <1>1, <1>2, SetsFinite DEF PlacesAccountedFor
<1>4. CASE queue = <<>>
  BY <1>2, <1>3, <1>4, LeaveEffect, SetsFinite DEF NoLostWakeup, GrantsCovered
<1>5. CASE queue # <<>>
  <2>1. Cardinality(Granted') = Cardinality(Granted) + 1
    BY <1>5, LeaveEffect, SetsFinite, FS_AddElement
  <2> QED BY <1>2, <1>3, <1>5, <2>1, SetsFinite DEF NoLostWakeup, GrantsCovered
<1> QED BY <1>4, <1>5

\* An action that moves no run in or out of Holding and Granted, and lets nobody
\* into the line, keeps the counts.
LEMMA CountsKept ==
  ASSUME IInv, free' = free, Holding' = Holding, Granted' = Granted,
         queue' # <<>> => queue # <<>> \/ free <= 0, barged' = barged
  PROVE  PlacesAccountedFor' /\ NoLostWakeup' /\ (GrantsCovered => GrantsCovered')
  BY SetsFinite DEF IInv, TypeOK, PlacesAccountedFor, NoLostWakeup, GrantsCovered

LEMMA InitInv == Init => IInv /\ GrantsCovered
<1> SUFFICES ASSUME Init PROVE IInv /\ GrantsCovered
  OBVIOUS
<1>1. Holding = {} /\ Granted = {}
  BY DEF Init, Holding, Granted
<1>2. TypeOK
  <2>1. free \in Int
    BY RunnerAssumption DEF Init
  <2>2. queue = <<>> /\ queue \in Seq(Run) /\ DOMAIN queue = {}
    BY DEF Init
  <2>3. barged \in BOOLEAN
    BY DEF Init
  <2> QED BY <2>1, <2>2, <2>3 DEF Init, TypeOK
<1>3. Cardinality(Holding) = 0 /\ Cardinality(Granted) = 0
  BY <1>1, FS_EmptySet
<1>4. PlacesAccountedFor /\ NoLostWakeup
  BY <1>3, RunnerAssumption DEF Init, PlacesAccountedFor, NoLostWakeup
<1>5. GrantsCovered
  BY <1>3, RunnerAssumption DEF Init, GrantsCovered
<1> QED BY <1>2, <1>4, <1>5 DEF IInv

\* Taking a place, from `free` or from a grant.
LEMMA TakeInv ==
  ASSUME IInv, NEW r \in Run, pc' = [pc EXCEPT ![r] = AfterAcquire(r)], free' = free - 1,
         queue' = queue, UNCHANGED <<aborted, remote, stop, known>>,
         barged' \in BOOLEAN, barged' = FALSE => barged = FALSE,
         pc[r] \in {"idle", "granted"}, pc[r] = "idle" => free > 0
  PROVE  /\ IInv'
         /\ pc[r] = "granted" => (GrantsCovered => GrantsCovered')
         /\ free > Cardinality(Granted) => GrantsCovered'
<1> USE DEF IInv
<1>1. AfterAcquire(r) \in {"unsent", "starting"}
  BY DEF AfterAcquire
<1>2. TypeOK'
  BY <1>1 DEF TypeOK
<1>3. r \notin Holding /\ Holding' = Holding \cup {r} /\ Granted' = Granted \ {r}
  BY <1>1 DEF TypeOK, Holding, Granted
<1>4. Cardinality(Holding') = Cardinality(Holding) + 1
  BY <1>3, SetsFinite, FS_AddElement
<1>5. PlacesAccountedFor'
  BY <1>4, SetsFinite, RunnerAssumption DEF PlacesAccountedFor, TypeOK
<1>6. CASE pc[r] = "granted"
  <2>1. Cardinality(Granted') = Cardinality(Granted) - 1 /\ Granted # {}
    <3>1. r \in Granted
      BY <1>6 DEF Granted
    <3> QED BY <1>3, <3>1, SetsFinite, FS_RemoveElement
  <2> QED BY <1>2, <1>5, <2>1, SetsFinite DEF NoLostWakeup, GrantsCovered, TypeOK
<1>7. CASE pc[r] = "idle"
  <2>1. Granted' = Granted
    BY <1>3, <1>7 DEF Granted
  <2> QED BY <1>2, <1>5, <1>7, <2>1, SetsFinite DEF NoLostWakeup, GrantsCovered, TypeOK
<1> QED BY <1>6, <1>7

LEMMA AcquireInv ==
  ASSUME IInv, NEW r \in Run, Acquire(r)
  PROVE  IInv' /\ (GrantsCovered => GrantsCovered')
<1> USE DEF IInv
<1>1. pc[r] = "idle" /\ UNCHANGED <<aborted, remote, stop, known>>
  BY DEF Acquire
<1>2. CASE r \in aborted
  <2>1. pc' = [pc EXCEPT ![r] = "threw"] /\ UNCHANGED <<free, queue, barged>>
    BY <1>2 DEF Acquire
  <2>2. TypeOK'
    BY <1>1, <2>1 DEF TypeOK, Answered
  <2>3. Holding' = Holding /\ Granted' = Granted
    BY <1>1, <2>1 DEF TypeOK, Holding, Granted
  <2> QED BY <2>1, <2>2, <2>3, CountsKept
<1>3. CASE r \notin aborted /\ free > 0
  <2>1. pc' = [pc EXCEPT ![r] = AfterAcquire(r)] /\ free' = free - 1 /\ queue' = queue
    BY <1>3 DEF Acquire, TypeOK
  <2>2. barged' = (barged \/ free <= Cardinality(Granted)) /\ barged \in BOOLEAN
    BY <1>3 DEF Acquire, TypeOK
  <2>3. barged' \in BOOLEAN /\ (barged' = FALSE => barged = FALSE)
    BY <2>2
  <2>4. IInv' /\ (free > Cardinality(Granted) => GrantsCovered')
    BY <1>1, <1>3, <2>1, <2>3, TakeInv
  <2>5. free <= Cardinality(Granted) => GrantsCovered'
    BY <2>2 DEF GrantsCovered
  <2> QED BY <2>4, <2>5, SetsFinite DEF TypeOK
<1>4. CASE r \notin aborted /\ free <= 0
  <2>1. pc' = [pc EXCEPT ![r] = "queued"] /\ queue' = Append(queue, r) /\ UNCHANGED <<free, barged>>
    BY <1>4 DEF Acquire, TypeOK
  <2>2. /\ queue' \in Seq(Run) /\ Len(queue) \in Nat
        /\ DOMAIN queue = 1..Len(queue)
        /\ DOMAIN queue' = 1..(Len(queue) + 1)
        /\ queue'[Len(queue) + 1] = r
        /\ \A i \in 1..Len(queue) : queue'[i] = queue[i] /\ queue[i] \in Run
    BY <2>1 DEF TypeOK
  <2>3. \A i \in 1..Len(queue) : queue[i] # r
    BY <1>1, <2>2 DEF TypeOK
  <2>4. \A i \in DOMAIN queue' : pc'[queue'[i]] = "queued"
    BY <2>1, <2>2, <2>3 DEF TypeOK
  <2>5. \A i, j \in DOMAIN queue' : queue'[i] = queue'[j] => i = j
    BY <2>2, <2>3 DEF TypeOK
  <2>6. TypeOK'
    BY <1>1, <2>1, <2>2, <2>4, <2>5 DEF TypeOK
  <2>7. Holding' = Holding /\ Granted' = Granted
    BY <1>1, <2>1 DEF TypeOK, Holding, Granted
  <2> QED BY <1>4, <2>1, <2>6, <2>7, CountsKept
<1> QED BY <1>2, <1>3, <1>4 DEF TypeOK

LEMMA AbortInv ==
  ASSUME IInv, NEW r \in Run, Abort(r)
  PROVE  IInv' /\ (GrantsCovered => GrantsCovered')
<1> USE DEF IInv
<1>1. CASE pc[r] = "queued"
  <2>1. PICK i \in DOMAIN queue : queue[i] = r /\ queue' = RemoveAt(queue, i)
    BY <1>1 DEF Abort
  <2>2. pc' = [pc EXCEPT ![r] = "threw"] /\ aborted' = aborted \cup {r}
        /\ UNCHANGED <<free, remote, stop, known, barged>>
    BY <1>1 DEF Abort
  <2>3. /\ queue' \in Seq(Run) /\ queue # <<>>
        /\ \A j \in DOMAIN queue' : \E m \in DOMAIN queue : m # i /\ queue'[j] = queue[m]
        /\ \A j, k \in DOMAIN queue' : queue'[j] = queue'[k] => j = k
    BY <2>1, RemoveAtLine DEF TypeOK
  <2>4. \A m \in DOMAIN queue : m # i => queue[m] # r /\ queue[m] \in Run
    BY <2>1 DEF TypeOK
  <2>5. \A j \in DOMAIN queue' : pc'[queue'[j]] = "queued"
    BY <2>2, <2>3, <2>4 DEF TypeOK
  <2>6. TypeOK'
    BY <2>2, <2>3, <2>5 DEF TypeOK, Answered
  <2>7. Holding' = Holding /\ Granted' = Granted
    BY <1>1, <2>2 DEF TypeOK, Holding, Granted
  <2> QED BY <2>2, <2>3, <2>6, <2>7, CountsKept
<1>2. CASE pc[r] # "queued"
  <2>1. UNCHANGED <<free, queue, pc, remote, stop, known, barged>> /\ aborted' = aborted \cup {r}
    BY <1>2 DEF Abort
  <2>2. TypeOK'
    BY <2>1 DEF TypeOK
  <2>3. Holding' = Holding /\ Granted' = Granted
    BY <2>1 DEF Holding, Granted
  <2> QED BY <2>1, <2>2, <2>3, CountsKept
<1> QED BY <1>1, <1>2

\* The actions that end a run.
LEMMA EndsInv ==
  ASSUME IInv, NEW r \in Run, StartFails(r) \/ PollReturns(r) \/ PollThrows(r)
  PROVE  IInv' /\ (GrantsCovered => GrantsCovered')
<1>1. PICK how \in Answered : Leave(r, how)
  BY DEF StartFails, PollReturns, PollThrows, Answered
<1>2. r \in Holding
  BY DEF StartFails, PollReturns, PollThrows, Holding
<1>3. /\ UNCHANGED <<aborted, known, remote, barged>>
      /\ stop' = stop \/ stop' = [stop EXCEPT ![r] = "sent"]
  BY DEF StartFails, PollReturns, PollThrows
<1>4. TypeOK'
  <2>1. stop' \in [Run -> {"none", "sent", "arrived", "lost"}]
    BY <1>3 DEF IInv, TypeOK
  <2>2. free' \in Int
    BY <1>1, <1>2, LeaveEffect DEF IInv, TypeOK
  <2> QED BY <1>1, <1>2, <1>3, <2>1, <2>2, LeaveEffect DEF IInv, TypeOK
<1> QED BY <1>1, <1>2, <1>3, <1>4, LeaveInv DEF IInv

LEMMA StepInv ==
  ASSUME IInv, [Next]_vars
  PROVE  IInv' /\ (GrantsCovered => GrantsCovered')
<1>1. ASSUME NEW r \in Run, Wake(r) PROVE IInv' /\ (GrantsCovered => GrantsCovered')
  <2>1. /\ pc[r] = "granted" /\ pc' = [pc EXCEPT ![r] = AfterAcquire(r)]
        /\ free' = free - 1 /\ queue' = queue
        /\ UNCHANGED <<aborted, remote, stop, known>> /\ barged' = barged
    BY <1>1 DEF Wake
  <2>2. barged' \in BOOLEAN
    BY <2>1 DEF IInv, TypeOK
  <2>3. barged' = FALSE => barged = FALSE
    BY <2>1
  <2> QED BY <2>1, <2>2, <2>3, TakeInv
<1>2. ASSUME NEW r \in Run, Started(r) PROVE IInv' /\ (GrantsCovered => GrantsCovered')
  <2>1. TypeOK'
    BY <1>2 DEF IInv, TypeOK, Started
  <2>2. Holding' = Holding /\ Granted' = Granted
    BY <1>2 DEF IInv, TypeOK, Started, Holding, Granted
  <2>3. UNCHANGED <<free, queue, barged>>
    BY <1>2 DEF Started
  <2> QED BY <2>1, <2>2, <2>3, CountsKept DEF IInv
<1>3. ASSUME NEW r \in Run,
             \/ RemoteStarts(r)
             \/ \E how \in {"complete", "failed"} : RemoteEnds(r, how)
             \/ StopArrives(r)
             \/ StopFails(r)
      PROVE  IInv' /\ (GrantsCovered => GrantsCovered')
  <2>1. UNCHANGED <<free, queue, pc, aborted, known, barged>>
    BY <1>3 DEF RemoteStarts, RemoteEnds, StopArrives, StopFails
  <2>2. remote' \in [Run -> {"none", "running", "complete", "failed"}]
    BY <1>3 DEF IInv, TypeOK, RemoteStarts, RemoteEnds, StopArrives, StopFails
  <2>3. stop' \in [Run -> {"none", "sent", "arrived", "lost"}]
    BY <1>3 DEF IInv, TypeOK, RemoteStarts, RemoteEnds, StopArrives, StopFails
  <2>4. TypeOK'
    BY <2>1, <2>2, <2>3 DEF IInv, TypeOK
  <2>5. Holding' = Holding /\ Granted' = Granted
    BY <2>1 DEF Holding, Granted
  <2> QED BY <2>1, <2>4, <2>5, CountsKept DEF IInv
<1>4. CASE UNCHANGED vars
  <2>1. TypeOK' /\ Holding' = Holding /\ Granted' = Granted
    BY <1>4 DEF vars, IInv, TypeOK, Holding, Granted
  <2> QED BY <1>4, <2>1, CountsKept DEF vars, IInv
<1> QED
  BY <1>1, <1>2, <1>3, <1>4, AcquireInv, AbortInv, EndsInv DEF Next, Quiet, TimesOut

\* The types hold, and the line is exactly runs that wait, each once: a signal
\* that fires takes its own run out of the line and no other.
THEOREM RunnerTypes == Spec => []TypeOK
<1>1. IInv => TypeOK
  BY DEF IInv
<1> QED BY <1>1, InitInv, StepInv, PTL DEF Spec

\* No way out of run() loses or duplicates a place of the semaphore.
THEOREM RunnerPlacesAccountedFor == Spec => []PlacesAccountedFor
<1>1. IInv => PlacesAccountedFor
  BY DEF IInv
<1> QED BY <1>1, InitInv, StepInv, PTL DEF Spec

\* No run waits for a place that is free and promised to nobody.
THEOREM RunnerNoLostWakeup == Spec => []NoLostWakeup
<1>1. IInv => NoLostWakeup
  BY DEF IInv
<1> QED BY <1>1, InitInv, StepInv, PTL DEF Spec

\* At most N runs hold a place until a call of acquire takes one between its
\* release and the microtask of the waiter it was granted to.
THEOREM RunnerAtMostN == Spec => []AtMostNUnlessBarged
<1>1. IInv /\ GrantsCovered => AtMostNUnlessBarged
  BY SetsFinite, RunnerAssumption
     DEF IInv, TypeOK, GrantsCovered, PlacesAccountedFor, AtMostN, AtMostNUnlessBarged
<1>2. IInv /\ GrantsCovered /\ [Next]_vars => (IInv /\ GrantsCovered)'
  BY StepInv
<1> QED BY <1>1, <1>2, InitInv, PTL DEF Spec

-------------------------------------------------------------------------------

\* A run that was told its query id watches it or has ended.
KnownInv == \A r \in known : pc[r] \in {"polling"} \cup Answered

\* Leaving moves nobody but the run that leaves and, from the line to its grant,
\* the first in line.
LEMMA LeaveMoves ==
  ASSUME TypeOK, NEW r \in Run, NEW how \in Answered, Leave(r, how), pc[r] # "queued"
  PROVE  /\ pc' \in [Run -> {"idle", "queued", "granted", "unsent", "starting", "polling"} \cup Answered]
         /\ pc'[r] = how
         /\ \A s \in Run \ {r} : pc'[s] = pc[s] \/ pc[s] = "queued"
<1>1. CASE queue = <<>>
  BY <1>1 DEF Leave, TypeOK
<1>2. CASE queue # <<>>
  <2>1. Head(queue) \in Run /\ pc[Head(queue)] = "queued"
    BY <1>2 DEF TypeOK
  <2> QED BY <1>2, <2>1 DEF Leave, TypeOK
<1> QED BY <1>1, <1>2

LEMMA KnownStepInv ==
  ASSUME TypeOK, TypeOK', KnownInv, KnownQueryStopped, [Next]_vars
  PROVE  KnownInv' /\ KnownQueryStopped'
<1> USE DEF KnownInv, KnownQueryStopped
<1>1. ASSUME NEW r \in Run, Acquire(r) \/ Wake(r) \/ Abort(r) \/ TimesOut(r)
      PROVE  KnownInv' /\ KnownQueryStopped'
  <2>1. UNCHANGED <<known, remote, stop>>
        /\ \A s \in Run : pc'[s] = pc[s] \/ pc[s] \in {"idle", "granted", "queued"}
    BY <1>1 DEF Acquire, Wake, Abort, TimesOut, TypeOK
  <2> QED BY <2>1 DEF TypeOK, Answered
<1>2. ASSUME NEW r \in Run, StartFails(r)
      PROVE  KnownInv' /\ KnownQueryStopped'
  <2>1. \A s \in Run \ {r} : pc'[s] = pc[s] \/ pc[s] = "queued"
    BY <1>2, LeaveMoves DEF StartFails, Answered
  <2> QED BY <1>2, <2>1 DEF StartFails, TypeOK, Answered
<1>3. ASSUME NEW r \in Run, PollReturns(r) \/ PollThrows(r)
      PROVE  KnownInv' /\ KnownQueryStopped'
  <2>1. pc'[r] \in Answered /\ \A s \in Run \ {r} : pc'[s] = pc[s] \/ pc[s] = "queued"
    BY <1>3, LeaveMoves DEF PollReturns, PollThrows, Answered
  <2>2. /\ UNCHANGED <<known, remote>>
        /\ remote[r] = "complete" \/ stop'[r] = "sent"
        /\ \A s \in Run \ {r} : stop'[s] = stop[s]
    BY <1>3 DEF PollReturns, PollThrows, TypeOK
  <2> QED BY <2>1, <2>2 DEF TypeOK, Answered
<1>4. ASSUME NEW r \in Run, RemoteStarts(r) \/ Started(r)
      PROVE  KnownInv' /\ KnownQueryStopped'
  BY <1>4 DEF RemoteStarts, Started, TypeOK, Answered
<1>5. ASSUME NEW r \in Run, NEW how \in {"complete", "failed"}, RemoteEnds(r, how)
      PROVE  KnownInv' /\ KnownQueryStopped'
  BY <1>5 DEF RemoteEnds, TypeOK
<1>6. ASSUME NEW r \in Run, StopArrives(r) \/ StopFails(r)
      PROVE  KnownInv' /\ KnownQueryStopped'
  BY <1>6 DEF StopArrives, StopFails, TypeOK
<1>7. CASE Quiet \/ UNCHANGED vars
  BY <1>7 DEF Quiet, vars
<1> QED BY <1>1, <1>2, <1>3, <1>4, <1>5, <1>6, <1>7 DEF Next

\* A query whose id its run was told is watched or stopped, whichever way and
\* whenever the run ends.
THEOREM RunnerKnownQueryStopped == Spec => []KnownQueryStopped
<1>1. Init => KnownInv /\ KnownQueryStopped
  BY DEF Init, KnownInv, KnownQueryStopped
<1>2. TypeOK /\ TypeOK' /\ KnownInv /\ KnownQueryStopped /\ [Next]_vars
        => (KnownInv /\ KnownQueryStopped)'
  BY KnownStepInv
<1> QED BY <1>1, <1>2, RunnerTypes, PTL DEF Spec

-----------------------------------------------------------------------------
(* A line of the log, as the preview and the queries read it.                *)

\* The fields of a line the preview has read.
LineFields == {"app", "namespace", "container", "method", "path", "requestTarget", "clientIp",
               "status", "latencyMs", "level", "hasAccess", "word"}

\* What a line says that the preview looks at.
Has(line, status, path, latencyMs, level, access, word) ==
  /\ DOMAIN line = LineFields
  /\ line.status = status /\ line.path = path /\ line.latencyMs = latencyMs
  /\ line.level = level /\ (line.hasAccess <=> access) /\ line.word = word

LEMMA EmptyLine ==
  ASSUME NEW rec
  PROVE  Has(emptyLine(rec), 0, <<>>, {}, "", FALSE, rec.word)
  BY DEF emptyLine, LineFields, Has

\* A line keeps what it says when it is given a place.
LEMMA PlacedLine ==
  ASSUME NEW line, NEW status, NEW path, NEW latencyMs, NEW level, NEW access, NEW word,
         Has(line, status, path, latencyMs, level, access, word), NEW x, NEW y
  PROVE  /\ Has([line EXCEPT !.namespace = x, !.container = y], status, path, latencyMs, level, access, word)
         /\ Has([line EXCEPT !.app = x], status, path, latencyMs, level, access, word)
  BY DEF Has, LineFields

\* What the facts read of a line make of a line that says nothing yet.
LEMMA FilledLine ==
  ASSUME NEW f, NEW m, NEW line, NEW word, Has(line, 0, <<>>, {}, "", FALSE, word)
  PROVE  Has(FillIn(f, line, m), Said(m, "status", 0), requestPath(Said(m, "path", <<>>)),
             IF "latency" \in DOMAIN m THEN {toMillis(f, m["latency"])} ELSE {},
             Said(m, "level", ""), {"status", "latency"} \cap DOMAIN m # {}, word)
<1> DEFINE app == firstString(line.app, Said(m, "app", ""))
           method == firstString(line.method, Said(m, "method", ""))
           target == Said(m, "path", <<>>)
           clientIp == firstString(line.clientIp, Said(m, "clientIp", ""))
           level == firstString(line.level, Said(m, "level", ""))
           status == Said(m, "status", line.status)
           latencyMs == IF "latency" \in DOMAIN m THEN {toMillis(f, m["latency"])} ELSE line.latencyMs
           access == line.hasAccess \/ {"status", "latency"} \cap DOMAIN m # {}
<1>1. FillIn(f, line, m) =
        [line EXCEPT !.app = app, !.method = method, !.requestTarget = target,
                     !.path = requestPath(target), !.clientIp = clientIp, !.level = level,
                     !.status = status, !.latencyMs = latencyMs, !.hasAccess = access]
  BY DEF FillIn, Has, LineFields
<1>2. level = Said(m, "level", "")
  BY DEF firstString, Has
<1>3. status = Said(m, "status", 0)
  BY DEF Has
<1>4. latencyMs = IF "latency" \in DOMAIN m THEN {toMillis(f, m["latency"])} ELSE {}
  BY DEF Has
<1>5. access <=> {"status", "latency"} \cap DOMAIN m # {}
  BY DEF Has
<1> HIDE DEF app, method, target, clientIp, level, status, latencyMs, access
<1>6. Has(FillIn(f, line, m), status, requestPath(target), latencyMs, level, access, word)
  BY <1>1 DEF Has, LineFields
<1>7. QED
  BY <1>2, <1>3, <1>4, <1>5, <1>6 DEF target, Has

LEMMA GinLine ==
  ASSUME NEW says, NEW line, NEW word, Has(line, 0, <<>>, {}, "", FALSE, word)
  PROVE  Has(applyGin(line, says), says["status"], requestPath(says["path"]), {says["latency"]}, "", TRUE, word)
  BY DEF applyGin, Has, LineFields

\* Of a line only its level is classed.
Classed(f, level, access, word) ==
  IF level \in errorLevels THEN "error"
  ELSE IF level \in warnLevels THEN "warn"
  ELSE IF level # "" THEN level
  ELSE IF access \/ word \notin f.levelPattern THEN ""
  ELSE IF word \in warnLevels THEN "warn" ELSE "error"

LEMMA ClassedLine ==
  ASSUME NEW f, NEW line, NEW status, NEW path, NEW latencyMs, NEW level, NEW access, NEW word,
         Has(line, status, path, latencyMs, level, access, word)
  PROVE  Has(applyLevel(f, line), status, path, latencyMs, Classed(f, level, access, word), access, word)
<1> DEFINE classed == CASE line.level \in errorLevels -> "error"
                   [] line.level \in warnLevels -> "warn"
                   [] line.level \notin errorLevels \cup warnLevels \cup {""} -> line.level
                   [] line.level = "" -> IF line.hasAccess \/ line.word \notin f.levelPattern THEN ""
                                         ELSE IF line.word \in warnLevels THEN "warn" ELSE "error"
<1>1. applyLevel(f, line) = [line EXCEPT !.level = classed]
  BY DEF applyLevel
<1>2. classed = Classed(f, line.level, line.hasAccess, line.word)
  BY DEF errorLevels, warnLevels, Classed
<1>3. classed = Classed(f, level, access, word)
  BY <1>2 DEF Has, Classed
<1> HIDE DEF classed
<1>4. QED
  BY <1>1, <1>3 DEF Has, LineFields

\* What the preview has read of a line before it classes it is what the queries read.
Reads(f, rec, status, target, latencyMs, level, access) ==
  /\ status = 0 \/ status > 0
  /\ AccessField(f, rec, "status") = IF status > 0 THEN {status} ELSE {}
  /\ AccessField(f, rec, "path") \ {<<>>} = {target} \ {<<>>}
  /\ Latency(f, rec) = latencyMs
  /\ JsonField(f, rec, "level") \ {""} = {level} \ {""}
  /\ access <=> AccessField(f, rec, "status") # {}

ReadableLine(rec) ==
  /\ rec.form \in {"json", "gin", "plain"}
  /\ rec.form = "gin" => {"status", "latency", "method", "path", "clientIp"} \subseteq DOMAIN rec.says

LEMMA NotAboveItself == ~(0 > 0)
  OBVIOUS

LEMMA JsonLineReads ==
  ASSUME NEW f, NEW rec, BothRead(f, rec), rec.form = "json", f.preset # "gin",
         NEW m, m = [fact \in DOMAIN rec.says \cap f.named |-> rec.says[fact]]
  PROVE  Reads(f, rec, Said(m, "status", 0), Said(m, "path", <<>>),
               IF "latency" \in DOMAIN m THEN {toMillis(f, m["latency"])} ELSE {},
               Said(m, "level", ""), {"status", "latency"} \cap DOMAIN m # {})
<1>1. /\ DOMAIN m = DOMAIN rec.says \cap f.named
      /\ \A fact \in DOMAIN m : m[fact] = rec.says[fact]
  OBVIOUS
<1>2. ASSUME NEW fact \in Facts
      PROVE  /\ JsonField(f, rec, fact) = IF fact \in DOMAIN m THEN {m[fact]} ELSE {}
             /\ GinField(f, rec, fact) = {}
             /\ AccessField(f, rec, fact) = JsonField(f, rec, fact)
  <2>1. JsonField(f, rec, fact) = {rec.says[x] : x \in {fact} \cap DOMAIN rec.says \cap f.named}
    BY DEF JsonField, BothRead
  <2>2. GinField(f, rec, fact) = {}
    BY DEF GinField
  <2>3. AccessField(f, rec, fact) = JsonField(f, rec, fact)
    BY <2>2 DEF AccessField, Coalesce
  <2>4. QED
    BY <1>1, <2>1, <2>2, <2>3
<1>3. "status" \in DOMAIN m => m["status"] > 0
  BY <1>1 DEF BothRead
<1>4. "latency" \in DOMAIN m => "status" \in DOMAIN m
  BY <1>1 DEF BothRead
<1>5. Latency(f, rec) = IF "latency" \in DOMAIN m THEN {toMillis(f, m["latency"])} ELSE {}
  <2>1. JsonField(f, rec, "latency") = IF "latency" \in DOMAIN m THEN {m["latency"]} ELSE {}
    BY <1>2 DEF Facts
  <2>2. GinField(f, rec, "latency") = {}
    BY <1>2 DEF Facts
  <2>3. QED
    BY <2>1, <2>2 DEF Latency, Coalesce
<1>6. AccessField(f, rec, "path") = IF "path" \in DOMAIN m THEN {m["path"]} ELSE {}
  BY <1>2 DEF Facts
<1>7. JsonField(f, rec, "level") = IF "level" \in DOMAIN m THEN {m["level"]} ELSE {}
  BY <1>2 DEF Facts
<1>8. AccessField(f, rec, "status") = IF "status" \in DOMAIN m THEN {m["status"]} ELSE {}
  BY <1>2 DEF Facts
<1> HIDE DEF Facts
<1>9. AccessField(f, rec, "path") \ {<<>>} = {Said(m, "path", <<>>)} \ {<<>>}
  BY <1>6 DEF Said
<1>10. JsonField(f, rec, "level") \ {""} = {Said(m, "level", "")} \ {""}
  BY <1>7 DEF Said
<1>11. /\ Said(m, "status", 0) = 0 \/ Said(m, "status", 0) > 0
       /\ AccessField(f, rec, "status") = IF Said(m, "status", 0) > 0 THEN {Said(m, "status", 0)} ELSE {}
  BY <1>3, <1>8, NotAboveItself DEF Said
<1>12. {"status", "latency"} \cap DOMAIN m # {} <=> AccessField(f, rec, "status") # {}
  BY <1>4, <1>8
<1>13. QED
  BY <1>5, <1>9, <1>10, <1>11, <1>12 DEF Reads

LEMMA GinLineReads ==
  ASSUME NEW f, NEW rec, BothRead(f, rec), ReadableLine(rec), rec.form = "gin", f.preset # "json"
  PROVE  Reads(f, rec, rec.says["status"], rec.says["path"], {rec.says["latency"]}, "", TRUE)
<1>1. ASSUME NEW fact \in {"status", "path", "latency"}
      PROVE  /\ JsonField(f, rec, fact) = {}
             /\ GinField(f, rec, fact) = {rec.says[fact]}
             /\ AccessField(f, rec, fact) = {rec.says[fact]}
  <2>1. JsonField(f, rec, fact) = {}
    BY DEF JsonField
  <2>2. GinField(f, rec, fact) = {rec.says[x] : x \in {fact} \cap DOMAIN rec.says \cap Facts}
    BY DEF GinField
  <2>3. fact \in DOMAIN rec.says \cap Facts
    BY DEF ReadableLine, Facts
  <2>4. QED
    BY <2>1, <2>2, <2>3 DEF AccessField, Coalesce
<1>2. JsonField(f, rec, "level") = {}
  BY DEF JsonField
<1>3. Latency(f, rec) = {rec.says["latency"]}
  BY <1>1 DEF Latency, Coalesce
<1>4. rec.says["status"] > 0
  BY DEF BothRead, ReadableLine
<1>5. AccessField(f, rec, "status") = {rec.says["status"]} /\ AccessField(f, rec, "path") = {rec.says["path"]}
  BY <1>1
<1>6. QED
  BY <1>2, <1>3, <1>4, <1>5 DEF Reads

LEMMA OtherLineReads ==
  ASSUME NEW f, NEW rec,
         \A fact : JsonField(f, rec, fact) = {} /\ GinField(f, rec, fact) = {}
  PROVE  Reads(f, rec, 0, <<>>, {}, "", FALSE)
<1>1. \A fact : AccessField(f, rec, fact) = {}
  BY DEF AccessField, Coalesce
<1>2. Latency(f, rec) = {}
  BY DEF Latency, Coalesce
<1>3. QED
  BY <1>1, <1>2, NotAboveItself DEF Reads


\* A line that holds what the queries read of it.
HasRead(f, rec, line) ==
  \E status, target, latencyMs, level, access :
    /\ Has(line, status, requestPath(target), latencyMs, level, access, rec.word)
    /\ Reads(f, rec, status, target, latencyMs, level, access)

LEMMA TextLineRead ==
  ASSUME NEW f, NEW rec, BothRead(f, rec), ReadableLine(rec), f.preset \in {"auto", "gin", "json"},
         ~(rec.form = "json" /\ DOMAIN rec.says # {} /\ f.preset # "gin"),
         NEW line, Has(line, 0, <<>>, {}, "", FALSE, rec.word)
  PROVE  HasRead(f, rec, applyText(f, line, rec))
<1>1. CASE rec.form = "gin" /\ f.preset # "json"
  <2>1. applyText(f, line, rec) = applyGin(line, rec.says)
    BY <1>1 DEF applyText
  <2>2. Has(applyGin(line, rec.says), rec.says["status"], requestPath(rec.says["path"]),
            {rec.says["latency"]}, "", TRUE, rec.word)
    BY GinLine
  <2>3. Reads(f, rec, rec.says["status"], rec.says["path"], {rec.says["latency"]}, "", TRUE)
    BY <1>1, GinLineReads
  <2>4. QED
    BY <2>1, <2>2, <2>3 DEF HasRead
<1>2. CASE ~(rec.form = "gin" /\ f.preset # "json")
  <2> DEFINE captured == DOMAIN rec.says \cap f.textPattern[rec.form]
             m == [fact \in captured |-> rec.says[fact]]
  <2>1. applyText(f, line, rec) = FillIn(f, line, m)
    BY <1>2 DEF applyText
  <2>2. captured = {}
    BY <1>2 DEF BothRead
  <2>3. DOMAIN m = {}
    BY <2>2
  <2> HIDE DEF m
  <2>4. /\ Said(m, "status", 0) = 0 /\ Said(m, "path", <<>>) = <<>> /\ Said(m, "level", "") = ""
        /\ (IF "latency" \in DOMAIN m THEN {toMillis(f, m["latency"])} ELSE {}) = {}
        /\ ({"status", "latency"} \cap DOMAIN m # {}) = FALSE
    BY <2>3 DEF Said
  <2>5. Has(FillIn(f, line, m), 0, requestPath(<<>>), {}, "", FALSE, rec.word)
    BY <2>4, FilledLine
  <2>6. \A fact : JsonField(f, rec, fact) = {}
    BY DEF JsonField
  <2>7. \A fact : GinField(f, rec, fact) = {}
    BY <1>2 DEF GinField
  <2>8. Reads(f, rec, 0, <<>>, {}, "", FALSE)
    BY <2>6, <2>7, OtherLineReads
  <2>9. QED
    BY <2>1, <2>5, <2>8 DEF HasRead
<1>3. QED
  BY <1>1, <1>2

LEMMA JsonLineRead ==
  ASSUME NEW f, NEW rec, BothRead(f, rec), rec.form = "json", f.preset # "gin",
         NEW line, Has(line, 0, <<>>, {}, "", FALSE, rec.word)
  PROVE  HasRead(f, rec, applyProcessed(f, line, rec.says))
<1> DEFINE m == [fact \in DOMAIN rec.says \cap f.named |-> rec.says[fact]]
           latencyMs == IF "latency" \in DOMAIN m THEN {toMillis(f, m["latency"])} ELSE {}
<1>1. m = [fact \in DOMAIN rec.says \cap f.named |-> rec.says[fact]]
  OBVIOUS
<1> HIDE DEF m
<1>2. Has(applyProcessed(f, line, rec.says), Said(m, "status", 0), requestPath(Said(m, "path", <<>>)),
          latencyMs, Said(m, "level", ""), {"status", "latency"} \cap DOMAIN m # {}, rec.word)
  BY <1>1, FilledLine DEF applyProcessed
<1>3. Reads(f, rec, Said(m, "status", 0), Said(m, "path", <<>>), latencyMs,
            Said(m, "level", ""), {"status", "latency"} \cap DOMAIN m # {})
  BY <1>1, JsonLineReads
<1>4. QED
  BY <1>2, <1>3 DEF HasRead

\* What is read of a line stays so when the line is given a place.
LEMMA PlacedLineRead ==
  ASSUME NEW f, NEW rec, NEW line, HasRead(f, rec, line), NEW x
  PROVE  HasRead(f, rec, [line EXCEPT !.app = x])
<1>1. PICK status, target, latencyMs, level, access :
        /\ Has(line, status, requestPath(target), latencyMs, level, access, rec.word)
        /\ Reads(f, rec, status, target, latencyMs, level, access)
  BY DEF HasRead
<1>2. Has([line EXCEPT !.app = x], status, requestPath(target), latencyMs, level, access, rec.word)
  BY <1>1, PlacedLine
<1>3. QED
  BY <1>1, <1>2 DEF HasRead

\* Before its level is classed, a parsed line holds what the queries read of it.
LEMMA ParsedLine ==
  ASSUME NEW f, NEW rec, BothRead(f, rec), ReadableLine(rec), f.preset \in {"auto", "gin", "json"}
  PROVE  \E line : parseLogLine(f, rec) = applyLevel(f, line) /\ HasRead(f, rec, line)
<1> DEFINE bare == emptyLine(rec)
           line == [bare EXCEPT !.namespace = rec.namespace, !.container = rec.container]
           read == IF rec.form = "json" /\ DOMAIN rec.says # {} /\ f.preset # "gin"
                   THEN applyProcessed(f, line, rec.says)
                   ELSE applyText(f, line, rec)
           named == [read EXCEPT !.app = firstString(read.app, rec.container)]
<1>1. parseLogLine(f, rec) = IF rec.enveloped THEN applyLevel(f, named)
                             ELSE applyLevel(f, applyText(f, bare, rec))
  BY DEF parseLogLine
<1>2. Has(bare, 0, <<>>, {}, "", FALSE, rec.word)
  BY EmptyLine
<1> HIDE DEF bare
<1>3. Has(line, 0, <<>>, {}, "", FALSE, rec.word)
  BY <1>2, PlacedLine
<1> HIDE DEF line
<1>4. HasRead(f, rec, read)
  <2>1. CASE rec.form = "json" /\ DOMAIN rec.says # {} /\ f.preset # "gin"
    BY <1>3, <2>1, JsonLineRead
  <2>2. CASE ~(rec.form = "json" /\ DOMAIN rec.says # {} /\ f.preset # "gin")
    BY <1>3, <2>2, TextLineRead
  <2>3. QED
    BY <2>1, <2>2
<1> HIDE DEF read
<1>5. HasRead(f, rec, named)
  BY <1>4, PlacedLineRead
<1>6. CASE rec.enveloped
  BY <1>1, <1>5, <1>6
<1>7. CASE ~rec.enveloped
  <2>1. rec.form # "json"
    BY <1>7 DEF BothRead
  <2>2. HasRead(f, rec, applyText(f, bare, rec))
    BY <1>2, <2>1, TextLineRead
  <2>3. QED
    BY <1>1, <1>7, <2>2
<1>8. QED
  BY <1>6, <1>7

\* The level that a read line is classed as is the one that the queries look for.
LEMMA ClassedLevel ==
  ASSUME NEW f, NEW rec, BothRead(f, rec), NEW status, NEW target, NEW latencyMs, NEW level, NEW access,
         Reads(f, rec, status, target, latencyMs, level, access)
  PROVE  LevelOf(f, rec) = {Classed(f, level, access, rec.word)} \cap {"error", "warn"}
<1>1. /\ JsonField(f, rec, "level") \ {""} = {level} \ {""}
      /\ access <=> AccessField(f, rec, "status") # {}
  BY DEF Reads
<1>2. rec.word \in f.levelPattern <=> rec.word \in TextWords
  BY DEF BothRead
<1>3. CASE level # ""
  <2>1. LevelWord(f, rec) = {level} \cap OwnWords
    BY <1>1, <1>3 DEF LevelWord
  <2>2. QED
    BY <1>3, <2>1 DEF LevelOf, OwnWords, Classed, errorLevels, warnLevels
<1>4. CASE level = ""
  <2>1. LevelWord(f, rec) = IF access THEN {} ELSE {rec.word} \cap TextWords
    BY <1>1, <1>4 DEF LevelWord
  <2>2. Classed(f, level, access, rec.word) =
          IF access \/ rec.word \notin TextWords THEN ""
          ELSE IF rec.word \in warnLevels THEN "warn" ELSE "error"
    BY <1>2, <1>4 DEF Classed, errorLevels, warnLevels
  <2>3. QED
    BY <2>1, <2>2 DEF LevelOf, TextWords, warnLevels
<1>5. QED
  BY <1>3, <1>4

\* The preview of one line.
LEMMA PreviewOfLine ==
  ASSUME NEW f, NEW rec, BothRead(f, rec), ReadableLine(rec),
         NEW preview \in handleLogFormatPreview(f, rec)
  PROVE  /\ preview.excluded <=> PathOf(f, rec) \cap f.excludePaths # {}
         /\ preview.badStatus <=> \E s \in AccessField(f, rec, "status") : notInStatuses(f, s)
         /\ LevelOf(f, rec) = {preview.parsed.level} \cap {"error", "warn"}
         /\ preview.parsed.latencyMs = Latency(f, rec)
         /\ preview.excluded \in BOOLEAN /\ preview.badStatus \in BOOLEAN
<1> DEFINE parsed == parseLogLine(f, rec)
<1>1. /\ f.preset \in {"auto", "gin", "json"}
      /\ preview.parsed = parsed
      /\ preview.badStatus = isBadStatus(f, parsed.status)
      /\ preview.excluded = isExcludedPath(f, parsed.path)
  <2>1. handleLogFormatPreview(f, rec) =
          IF ~validateLogFormat(f) THEN {}
          ELSE {[parsed |-> parsed, matched |-> parsed.hasAccess \/ parsed.level # "",
                 badStatus |-> isBadStatus(f, parsed.status), excluded |-> isExcludedPath(f, parsed.path)]}
    BY DEF handleLogFormatPreview
  <2> HIDE DEF parsed
  <2>2. validateLogFormat(f)
    BY <2>1
  <2>3. f.preset \in {"auto", "gin", "json"}
    BY <2>2 DEF validateLogFormat
  <2>4. preview = [parsed |-> parsed, matched |-> parsed.hasAccess \/ parsed.level # "",
                   badStatus |-> isBadStatus(f, parsed.status), excluded |-> isExcludedPath(f, parsed.path)]
    BY <2>1, <2>2
  <2>5. QED
    BY <2>3, <2>4
<1>2. PICK line : parsed = applyLevel(f, line) /\ HasRead(f, rec, line)
  BY <1>1, ParsedLine
<1>3. PICK status, target, latencyMs, level, access :
        /\ Has(line, status, requestPath(target), latencyMs, level, access, rec.word)
        /\ Reads(f, rec, status, target, latencyMs, level, access)
  BY <1>2 DEF HasRead
<1>4. Has(parsed, status, requestPath(target), latencyMs, Classed(f, level, access, rec.word), access, rec.word)
  BY <1>2, <1>3, ClassedLine
<1> HIDE DEF parsed
<1>5. /\ parsed.path = requestPath(target) /\ parsed.status = status
      /\ parsed.latencyMs = latencyMs /\ parsed.level = Classed(f, level, access, rec.word)
  BY <1>4 DEF Has
<1>6. PathOf(f, rec) = {t[1] : t \in {target} \ {<<>>}}
  <2>1. AccessField(f, rec, "path") \ {<<>>} = {target} \ {<<>>}
    BY <1>3 DEF Reads
  <2>2. QED
    BY <2>1 DEF PathOf
<1>7. isExcludedPath(f, requestPath(target)) <=> PathOf(f, rec) \cap f.excludePaths # {}
  <2>1. CASE target = <<>>
    BY <1>6, <2>1 DEF isExcludedPath, requestPath
  <2>2. CASE target # <<>>
    <3>1. requestPath(target) = <<target[1]>> /\ requestPath(target) # <<>> /\ requestPath(target)[1] = target[1]
      BY <2>2 DEF requestPath
    <3>2. PathOf(f, rec) = {target[1]}
      BY <1>6, <2>2
    <3>3. QED
      BY <3>1, <3>2 DEF isExcludedPath
  <2>3. QED
    BY <2>1, <2>2
<1>8. isBadStatus(f, status) <=> \E s \in AccessField(f, rec, "status") : notInStatuses(f, s)
  <2>1. AccessField(f, rec, "status") = IF status > 0 THEN {status} ELSE {}
    BY <1>3 DEF Reads
  <2>2. QED
    BY <2>1 DEF isBadStatus, notInStatuses
<1>9. LevelOf(f, rec) = {parsed.level} \cap {"error", "warn"}
  BY <1>3, <1>5, ClassedLevel
<1>10. parsed.latencyMs = Latency(f, rec)
  BY <1>3, <1>5 DEF Reads
<1>11. preview.excluded \in BOOLEAN /\ preview.badStatus \in BOOLEAN
  BY <1>1 DEF isExcludedPath, isBadStatus
<1>12. preview.excluded <=> PathOf(f, rec) \cap f.excludePaths # {}
  BY <1>1, <1>5, <1>7
<1>13. preview.badStatus <=> \E s \in AccessField(f, rec, "status") : notInStatuses(f, s)
  BY <1>1, <1>5, <1>8
<1>14. QED
  BY <1>1, <1>9, <1>10, <1>11, <1>12, <1>13

-----------------------------------------------------------------------------
(* The panels of a page.                                                     *)

Kinds == {"pod-latency", "pod-status-codes", "pod-status-breakdown", "pod-errors",
          "waf-traffic", "waf-blocked", "waf-breakdown"}

\* What stays so while the panels of a page are built.
RowsInv ==
  /\ cfg.wafHeaders \in Seq(STRING)
  /\ logs \in LogSets
  /\ page \in Seq(Kinds)
  /\ Len(page) <= 4
  /\ page = PodKinds => \A rec \in logs : "word" \in DOMAIN rec

LEMMA NoneAboveFour == 4 <= 4 /\ 3 <= 4 /\ ~(4 < 4)
  OBVIOUS

LEMMA InitRows ==
  ASSUME LogRowsAssumption, RowsInit
  PROVE  RowsInv
<1>1. cfg.wafHeaders \in Seq(STRING)
  <2>1. PICK c \in Configs, asked \in {{}, {"*"}} : cfg \in requestConfig(c, asked)
    BY DEF RowsInit
  <2>2. \E ns : cfg = [c EXCEPT !.logFormat.namespace = ns]
    BY <2>1 DEF requestConfig
  <2>3. cfg.wafHeaders = c.wafHeaders
    BY <2>2, LogRowsAssumption DEF LogRowsAssumption
  <2>4. QED
    BY <2>3, LogRowsAssumption DEF LogRowsAssumption
<1>2. page \in Seq(Kinds) /\ Len(page) <= 4
  <2>1. \A a, b, c, d \in Kinds : <<a, b, c, d>> \in Seq(Kinds) /\ Len(<<a, b, c, d>>) = 4
    OBVIOUS
  <2>2. \A a, b, c \in Kinds : <<a, b, c>> \in Seq(Kinds) /\ Len(<<a, b, c>>) = 3
    OBVIOUS
  <2>3. PodKinds \in Seq(Kinds) /\ Len(PodKinds) = 4
    BY <2>1 DEF PodKinds, Kinds
  <2>4. WafKinds \in Seq(Kinds) /\ Len(WafKinds) = 3
    BY <2>2 DEF WafKinds, Kinds
  <2>5. page \in {PodKinds, WafKinds}
    BY DEF RowsInit
  <2>6. CASE page = PodKinds
    BY <2>3, <2>6, NoneAboveFour
  <2>7. CASE page = WafKinds
    BY <2>4, <2>7, NoneAboveFour
  <2>8. QED
    BY <2>5, <2>6, <2>7, Zenon
<1>3. QED
  BY <1>1, <1>2 DEF RowsInit, RowsInv

\* A panel built is one less of at most four, so not all of the pods' are left.
LEMMA StepRows ==
  ASSUME RowsInv, [RowsNext]_rowsVars
  PROVE  RowsInv'
<1>1. CASE Built
  <2>1. page # <<>> /\ page' = Tail(page) /\ UNCHANGED <<cfg, logs>>
    BY <1>1 DEF Built
  <2>2. page' \in Seq(Kinds) /\ Len(page') < 4
    BY <2>1 DEF RowsInv
  <2>3. page' # PodKinds'
    <3>1. Len(PodKinds) = 4
      BY DEF PodKinds
    <3>2. PodKinds' = PodKinds
      BY DEF PodKinds
    <3>3. page' # PodKinds
      BY <2>2, <3>1, NoneAboveFour
    <3>4. QED
      BY <3>2, <3>3, Zenon
  <2>4. QED
    BY <2>1, <2>2, <2>3 DEF RowsInv
<1>2. CASE ~Built
  <2>1. UNCHANGED <<cfg, logs, page>>
    BY <1>2 DEF RowsNext, QueryAnswered, QueryFailed, rowsVars
  <2>2. QED
    BY <2>1 DEF RowsInv, PodKinds
<1>3. QED
  BY <1>1, <1>2

THEOREM RowsKeep == RowsSpec => []RowsInv
<1>1. RowsInit => RowsInv
  BY InitRows, LogRowsAssumption
<1>2. RowsInv /\ [RowsNext]_rowsVars => RowsInv'
  BY StepRows
<1>3. QED
  BY <1>1, <1>2, PTL DEF RowsSpec

\* PREVIEWS: what the settings' preview says of a line that both can read is what
\* the queries of the panels do with it, whatever the settings and the lines
\* (domain/logfmt.ts:161-175, 330-354, http/settings.ts:125, domain/query.ts:165).
THEOREM PreviewsAgree == RowsSpec => []PreviewAgrees
<1>1. RowsInv => PreviewAgrees
  <2> SUFFICES ASSUME RowsInv, page = PodKinds, NEW rec \in logs, BothRead(cfg.logFormat, rec),
                      NEW preview \in handleLogFormatPreview(cfg.logFormat, rec)
               PROVE  /\ preview.excluded = (PathOf(cfg.logFormat, rec) \cap cfg.logFormat.excludePaths # {})
                      /\ preview.badStatus =
                           (\E s \in AccessField(cfg.logFormat, rec, "status") : notInStatuses(cfg.logFormat, s))
                      /\ LevelOf(cfg.logFormat, rec) = {preview.parsed.level} \cap {"error", "warn"}
                      /\ preview.parsed.latencyMs = Latency(cfg.logFormat, rec)
    BY DEF PreviewAgrees
  <2>1. ReadableLine(rec)
    BY LogRowsAssumption DEF RowsInv, LogRowsAssumption, ReadableLine
  <2>2. /\ preview.excluded <=> PathOf(cfg.logFormat, rec) \cap cfg.logFormat.excludePaths # {}
        /\ preview.badStatus <=>
             \E s \in AccessField(cfg.logFormat, rec, "status") : notInStatuses(cfg.logFormat, s)
        /\ LevelOf(cfg.logFormat, rec) = {preview.parsed.level} \cap {"error", "warn"}
        /\ preview.parsed.latencyMs = Latency(cfg.logFormat, rec)
        /\ preview.excluded \in BOOLEAN /\ preview.badStatus \in BOOLEAN
    BY <2>1, PreviewOfLine
  <2>3. QED
    BY <2>2
<1>2. QED
  BY <1>1, RowsKeep, PTL

-----------------------------------------------------------------------------
(* The names of the queries.                                                 *)

\* Clauses that Insights takes after the names seen, and the names seen then.
Before(clauses, i) == UNION {clauses[j].defs : j \in 1..(i - 1)}

Taken(seen, clauses, then) ==
  /\ \E S : clauses \in Seq(S)
  /\ then = seen \cup UNION {clauses[j].defs : j \in DOMAIN clauses}
  /\ \A i \in DOMAIN clauses :
       /\ clauses[i].defs \cap (seen \cup Before(clauses, i)) = {}
       /\ clauses[i].uses \subseteq Recorded \cup seen \cup Before(clauses, i)

\* The names of what comes first count for what follows.
LEMMA TakenThen ==
  ASSUME NEW seen, NEW a, NEW then, Taken(seen, a, then), NEW b, NEW last, Taken(then, b, last)
  PROVE  Taken(seen, a \o b, last)
<1>1. PICK S : a \in Seq(S) /\ b \in Seq(S)
  <2>1. PICK A : a \in Seq(A)
    BY DEF Taken
  <2>2. PICK B : b \in Seq(B)
    BY DEF Taken
  <2>3. a \in Seq(A \cup B) /\ b \in Seq(A \cup B)
    BY <2>1, <2>2
  <2>4. QED
    BY <2>3
<1> DEFINE ab == a \o b
<1>2. /\ ab \in Seq(S) /\ Len(a) \in Nat /\ Len(b) \in Nat
      /\ DOMAIN a = 1..Len(a) /\ DOMAIN b = 1..Len(b) /\ DOMAIN ab = 1..(Len(a) + Len(b))
      /\ \A i \in 1..Len(a) : ab[i] = a[i]
      /\ \A i \in 1..Len(b) : ab[Len(a) + i] = b[i]
  BY <1>1
<1> HIDE DEF ab
<1>3. \A i \in 1..(Len(a) + Len(b)) : i \in 1..Len(a) \/ \E k \in 1..Len(b) : i = Len(a) + k
  <2> SUFFICES ASSUME NEW i \in 1..(Len(a) + Len(b)), i \notin 1..Len(a)
               PROVE  \E k \in 1..Len(b) : i = Len(a) + k
    OBVIOUS
  <2>1. i - Len(a) \in 1..Len(b) /\ i = Len(a) + (i - Len(a))
    BY <1>2
  <2>2. QED
    BY <2>1
<1>4. then = seen \cup UNION {a[j].defs : j \in 1..Len(a)}
  BY <1>2 DEF Taken
<1>5. ASSUME NEW i \in 1..Len(a)
      PROVE  Before(ab, i) = Before(a, i)
  <2>1. \A j \in 1..(i - 1) : ab[j] = a[j]
    BY <1>2
  <2>2. QED
    BY <2>1 DEF Before
<1>6. ASSUME NEW k \in 1..Len(b)
      PROVE  seen \cup Before(ab, Len(a) + k) = then \cup Before(b, k)
  <2>1. Before(ab, Len(a) + k) = UNION {ab[j].defs : j \in 1..(Len(a) + k - 1)}
    BY <1>2 DEF Before
  <2>2. \A j \in 1..(Len(a) + k - 1) : \/ j \in 1..Len(a) /\ ab[j] = a[j]
                                       \/ \E m \in 1..(k - 1) : j = Len(a) + m /\ ab[j] = b[m]
    <3> SUFFICES ASSUME NEW j \in 1..(Len(a) + k - 1), j \notin 1..Len(a)
                 PROVE  \E m \in 1..(k - 1) : j = Len(a) + m /\ ab[j] = b[m]
      BY <1>2
    <3>1. j - Len(a) \in 1..(k - 1) /\ j = Len(a) + (j - Len(a))
      BY <1>2
    <3>2. \A m \in 1..(k - 1) : m \in 1..Len(b)
      BY <1>2
    <3>3. QED
      BY <1>2, <3>1, <3>2
  <2>3. \A j \in 1..Len(a) : j \in 1..(Len(a) + k - 1) /\ ab[j] = a[j]
    BY <1>2
  <2>4. \A m \in 1..(k - 1) : Len(a) + m \in 1..(Len(a) + k - 1) /\ ab[Len(a) + m] = b[m]
    BY <1>2
  <2>5. ASSUME NEW x \in Before(ab, Len(a) + k)
        PROVE  x \in then \cup Before(b, k)
    <3>1. PICK j \in 1..(Len(a) + k - 1) : x \in ab[j].defs
      BY <2>1
    <3>2. QED
      BY <1>4, <2>2, <3>1 DEF Before
  <2>6. ASSUME NEW x \in then \cup Before(b, k)
        PROVE  x \in seen \cup Before(ab, Len(a) + k)
    <3>1. CASE x \in seen
      BY <3>1
    <3>2. CASE x \notin seen /\ x \in then
      <4>1. PICK j \in 1..Len(a) : x \in a[j].defs
        BY <1>4, <3>2
      <4>2. QED
        BY <2>1, <2>3, <4>1
    <3>3. CASE x \in Before(b, k)
      <4>1. PICK m \in 1..(k - 1) : x \in b[m].defs
        BY <3>3 DEF Before
      <4>2. QED
        BY <2>1, <2>4, <4>1
    <3>4. QED
      BY <3>1, <3>2, <3>3
  <2>7. seen \subseteq then
    BY <1>4
  <2>8. QED
    BY <2>5, <2>6, <2>7
<1>7. last = seen \cup UNION {ab[j].defs : j \in DOMAIN ab}
  <2>1. last = then \cup UNION {b[j].defs : j \in 1..Len(b)}
    BY <1>2 DEF Taken
  <2>2. ASSUME NEW x \in last
        PROVE  x \in seen \cup UNION {ab[j].defs : j \in DOMAIN ab}
    <3>1. CASE x \in seen
      BY <3>1
    <3>2. CASE x \notin seen /\ x \in then
      <4>1. PICK j \in 1..Len(a) : x \in a[j].defs
        BY <1>4, <3>2
      <4>2. j \in DOMAIN ab /\ ab[j] = a[j]
        BY <1>2
      <4>3. QED
        BY <4>1, <4>2
    <3>3. CASE x \notin then
      <4>1. PICK j \in 1..Len(b) : x \in b[j].defs
        BY <2>1, <3>3
      <4>2. Len(a) + j \in DOMAIN ab /\ ab[Len(a) + j] = b[j]
        BY <1>2
      <4>3. QED
        BY <4>1, <4>2
    <3>4. QED
      BY <3>1, <3>2, <3>3
  <2>3. ASSUME NEW x \in UNION {ab[j].defs : j \in DOMAIN ab}
        PROVE  x \in last
    <3>1. PICK j \in DOMAIN ab : x \in ab[j].defs
      OBVIOUS
    <3>2. CASE j \in 1..Len(a)
      BY <1>2, <1>4, <2>1, <3>1, <3>2
    <3>3. CASE j \notin 1..Len(a)
      <4>1. PICK k \in 1..Len(b) : j = Len(a) + k
        BY <1>2, <1>3, <3>3
      <4>2. QED
        BY <1>2, <2>1, <3>1, <4>1
    <3>4. QED
      BY <3>2, <3>3
  <2>4. seen \subseteq last
    BY <1>4, <2>1
  <2>5. QED
    BY <2>2, <2>3, <2>4
<1>8. ASSUME NEW i \in DOMAIN ab
      PROVE  /\ ab[i].defs \cap (seen \cup Before(ab, i)) = {}
             /\ ab[i].uses \subseteq Recorded \cup seen \cup Before(ab, i)
  <2>1. CASE i \in 1..Len(a)
    <3>1. /\ a[i].defs \cap (seen \cup Before(a, i)) = {}
          /\ a[i].uses \subseteq Recorded \cup seen \cup Before(a, i)
      BY <1>2, <2>1 DEF Taken
    <3>2. ab[i] = a[i] /\ Before(ab, i) = Before(a, i)
      BY <1>2, <1>5, <2>1
    <3>3. QED
      BY <3>1, <3>2
  <2>2. CASE i \notin 1..Len(a)
    <3>1. PICK k \in 1..Len(b) : i = Len(a) + k
      BY <1>2, <1>3, <2>2
    <3>2. /\ b[k].defs \cap (then \cup Before(b, k)) = {}
          /\ b[k].uses \subseteq Recorded \cup then \cup Before(b, k)
      BY <1>2 DEF Taken
    <3>3. ab[i] = b[k] /\ seen \cup Before(ab, i) = then \cup Before(b, k)
      BY <1>2, <1>6, <3>1
    <3>4. QED
      BY <3>2, <3>3
  <2>3. QED
    BY <2>1, <2>2
<1>9. \E T : ab \in Seq(T)
  BY <1>2
<1>10. Taken(seen, ab, last)
  BY <1>7, <1>8, <1>9 DEF Taken
<1>11. QED
  BY <1>10 DEF ab

LEMMA TakenNone ==
  ASSUME NEW seen
  PROVE  Taken(seen, <<>>, seen)
<1>1. <<>> \in Seq({}) /\ DOMAIN <<>> = {}
  OBVIOUS
<1>2. QED
  BY <1>1 DEF Taken

LEMMA TakenOne ==
  ASSUME NEW seen, NEW c, c.defs \cap seen = {}, c.uses \subseteq Recorded \cup seen
  PROVE  Taken(seen, <<c>>, seen \cup c.defs)
<1>1. <<c>> \in Seq({c}) /\ DOMAIN <<c>> = {1} /\ <<c>>[1] = c
  OBVIOUS
<1>2. Before(<<c>>, 1) = {}
  BY DEF Before
<1>3. UNION {<<c>>[j].defs : j \in {1}} = c.defs
  BY <1>1
<1>4. QED
  BY <1>1, <1>2, <1>3 DEF Taken

LEMMA ClauseNames ==
  ASSUME NEW defs, NEW uses, NEW by, NEW when
  PROVE  /\ Fields(defs, uses).defs = defs /\ Fields(defs, uses).uses = uses
         /\ Filter(when, uses).defs = {} /\ Filter(when, uses).uses = uses
         /\ Stats(defs, by, uses).defs = defs /\ Stats(defs, by, uses).uses = uses
         /\ Display(uses).defs = {} /\ Display(uses).uses = uses
         /\ Sort(when).defs = {} /\ Sort(when).uses = {}
  BY DEF Fields, Filter, Stats, Display, Sort, Clause

LEMMA TakenFields ==
  ASSUME NEW seen, NEW defs, NEW uses, defs \cap seen = {}, uses \subseteq Recorded \cup seen
  PROVE  /\ Taken(seen, <<Fields(defs, uses)>>, seen \cup defs)
         /\ \A by : Taken(seen, <<Stats(defs, by, uses)>>, seen \cup defs)
<1>1. ASSUME NEW c, c.defs = defs, c.uses = uses
      PROVE  Taken(seen, <<c>>, seen \cup defs)
  <2>1. c.defs \cap seen = {} /\ c.uses \subseteq Recorded \cup seen
    BY <1>1
  <2>2. Taken(seen, <<c>>, seen \cup c.defs)
    BY <2>1, TakenOne
  <2>3. QED
    BY <1>1, <2>2
<1>2. Fields(defs, uses).defs = defs /\ Fields(defs, uses).uses = uses
  BY ClauseNames
<1>3. \A by : Stats(defs, by, uses).defs = defs /\ Stats(defs, by, uses).uses = uses
  BY ClauseNames
<1>4. QED
  BY <1>1, <1>2, <1>3, Zenon

LEMMA TakenFilter ==
  ASSUME NEW seen, NEW uses, uses \subseteq Recorded \cup seen, NEW when
  PROVE  /\ Taken(seen, <<Filter(when, uses)>>, seen)
         /\ Taken(seen, <<Display(uses)>>, seen)
         /\ Taken(seen, <<Sort(when)>>, seen)
<1>1. ASSUME NEW c, c.defs = {}, c.uses \subseteq Recorded \cup seen
      PROVE  Taken(seen, <<c>>, seen)
  <2>1. Taken(seen, <<c>>, seen \cup c.defs)
    BY <1>1, TakenOne
  <2>2. seen \cup c.defs = seen
    BY <1>1
  <2>3. QED
    BY <2>1, <2>2
<1>2. Filter(when, uses).defs = {} /\ Filter(when, uses).uses \subseteq Recorded \cup seen
  BY ClauseNames
<1>3. Display(uses).defs = {} /\ Display(uses).uses \subseteq Recorded \cup seen
  BY ClauseNames
<1>4. Sort(when).defs = {} /\ Sort(when).uses \subseteq Recorded \cup seen
  BY ClauseNames
<1>5. QED
  BY <1>1, <1>2, <1>3, <1>4

LEMMA TakenTwo ==
  ASSUME NEW seen, NEW a, NEW s, Taken(seen, <<a>>, s), NEW b, NEW then, Taken(s, <<b>>, then)
  PROVE  Taken(seen, <<a, b>>, then)
<1>1. <<a, b>> = <<a>> \o <<b>>
  OBVIOUS
<1>2. QED
  BY <1>1, TakenThen

LEMMA TakenThree ==
  ASSUME NEW seen, NEW a, NEW s, Taken(seen, <<a>>, s), NEW b, NEW t, Taken(s, <<b>>, t),
         NEW c, NEW then, Taken(t, <<c>>, then)
  PROVE  Taken(seen, <<a, b, c>>, then)
<1>1. <<a, b, c>> = <<a, b>> \o <<c>>
  OBVIOUS
<1>2. Taken(seen, <<a, b>>, t)
  BY TakenTwo
<1>3. QED
  BY <1>1, <1>2, TakenThen

\* A query whose clauses can be taken from the start compiles.
LEMMA TakenCompiles ==
  ASSUME NEW clauses, NEW then, Taken({}, clauses, then), NEW q, q.clauses = clauses
  PROVE  Compiles(q)
<1>1. \A i : DefinedBefore(q, i) = Before(clauses, i)
  BY DEF DefinedBefore, Before
<1>2. QED
  BY <1>1 DEF Taken, Compiles

LEMMA QueryClauses ==
  ASSUME NEW id, NEW clauses, NEW limit, NEW name
  PROVE  /\ query(id, clauses, limit).clauses = clauses
         /\ [query(id, clauses, limit) EXCEPT !.header = name].clauses = clauses
  BY DEF query

\* The names every query of the pods has, and those that a preset adds.
Common == {"dashboardMessage", "app", "status", "latencyMs", "method", "requestTarget", "clientIp",
           "rawLevel", "requestPath", "path"}
Added == GinNames \cup {"jsonLatencyMs", "ginStatusNumber", "ginLatencyMs"}

LEMMA PreambleTaken ==
  ASSUME NEW f, NEW p \in accessPreamble(f)
  PROVE  \E seen : Taken({}, p, seen) /\ Common \subseteq seen /\ seen \subseteq Common \cup Added
<1> DEFINE gin == f.preset # "json"
           ginNames == IF gin THEN GinNames ELSE {}
           jsonLatency == IF f.preset # "gin" /\ "latency" \in f.named THEN {"jsonLatencyMs"} ELSE {}
           ginNumbers == IF gin THEN {"ginStatusNumber", "ginLatencyMs"} ELSE {}
           read == {"log_processed", "kubernetes"} \cup jsonLatency \cup ginNumbers \cup ginNames
           columns == {"app", "status", "latencyMs", "method", "requestTarget", "clientIp", "rawLevel"}
           numbers == jsonLatency \cup ginNumbers
           s1 == {} \cup {"dashboardMessage"}
           s2 == s1 \cup ginNames
           s3 == s2 \cup numbers
           s4 == s3 \cup columns
           s5 == s4 \cup {"requestPath"}
           s6 == s5 \cup {"path"}
           c1 == Fields({"dashboardMessage"}, {"@timestamp", "log", "@message"})
           c2 == Fields(ginNames, {"dashboardMessage"})
           c3 == Fields(numbers, {"log_processed"} \cup ginNames)
           c4 == Fields(columns, read)
           c5 == Fields({"requestPath"}, {"requestTarget"})
           c6 == Fields({"path"}, {"requestPath", "requestTarget"})
<1>1. p = <<c1, c2, c3, c4, c5, c6>>
  BY DEF accessPreamble
<1>2. Taken({}, <<c1>>, s1)
  <2>1. {"@timestamp", "log", "@message"} \subseteq Recorded \cup {}
    BY DEF Recorded
  <2>2. QED
    BY <2>1, TakenFields
<1>3. Taken(s1, <<c2>>, s2)
  <2>1. ginNames \cap s1 = {} /\ {"dashboardMessage"} \subseteq Recorded \cup s1
    BY DEF GinNames
  <2>2. QED
    BY <2>1, TakenFields
<1>4. Taken(s2, <<c3>>, s3)
  <2>1. numbers \cap s2 = {}
    BY DEF GinNames
  <2>2. {"log_processed"} \cup ginNames \subseteq Recorded \cup s2
    BY DEF Recorded
  <2>3. QED
    BY <2>1, <2>2, TakenFields
<1>5. Taken(s3, <<c4>>, s4)
  <2>1. columns \cap s3 = {}
    BY DEF GinNames
  <2>2. read \subseteq Recorded \cup s3
    BY DEF Recorded
  <2>3. QED
    BY <2>1, <2>2, TakenFields
<1>6. Taken(s4, <<c5>>, s5)
  <2>1. {"requestPath"} \cap s4 = {}
    BY DEF GinNames
  <2>2. {"requestTarget"} \subseteq Recorded \cup s4
    OBVIOUS
  <2>3. QED
    BY <2>1, <2>2, TakenFields
<1>7. Taken(s5, <<c6>>, s6)
  <2>1. {"path"} \cap s5 = {}
    BY DEF GinNames
  <2>2. {"requestPath", "requestTarget"} \subseteq Recorded \cup s5
    OBVIOUS
  <2>3. QED
    BY <2>1, <2>2, TakenFields
<1>8. Common \subseteq s6 /\ s6 \subseteq Common \cup Added
  BY DEF Common, Added
<1> HIDE DEF s1, s2, s3, s4, s5, s6, c1, c2, c3, c4, c5, c6
<1>9. Taken({}, <<c1, c2, c3>>, s3)
  BY <1>2, <1>3, <1>4, TakenThree
<1>10. Taken(s3, <<c4, c5, c6>>, s6)
  BY <1>5, <1>6, <1>7, TakenThree
<1>11. <<c1, c2, c3, c4, c5, c6>> = <<c1, c2, c3>> \o <<c4, c5, c6>>
  OBVIOUS
<1>12. Taken({}, p, s6)
  BY <1>1, <1>9, <1>10, <1>11, TakenThen
<1>13. QED
  BY <1>8, <1>12

LEMMA NarrowedTaken ==
  ASSUME NEW f, NEW a, NEW seen, Taken({}, a, seen), "path" \in seen
  PROVE  Taken({}, a \o namespace(f) \o probes(f), seen)
<1>1. Taken(seen, namespace(f), seen)
  <2>1. {"kubernetes"} \subseteq Recorded \cup seen
    BY DEF Recorded
  <2>2. Taken(seen, <<Filter("namespace", {"kubernetes"})>>, seen)
    BY <2>1, TakenFilter
  <2>3. QED
    BY <2>2, TakenNone DEF namespace
<1>2. Taken(seen, probes(f), seen)
  <2>1. {"path"} \subseteq Recorded \cup seen
    OBVIOUS
  <2>2. Taken(seen, <<Filter("probes", {"path"})>>, seen)
    BY <2>1, TakenFilter
  <2>3. QED
    BY <2>2, TakenNone DEF probes
<1>3. Taken({}, a \o namespace(f), seen)
  BY <1>1, TakenThen
<1>4. QED
  BY <1>2, <1>3, TakenThen

LEMMA JoinedCompiles ==
  ASSUME NEW a, NEW seen, Taken({}, a, seen), NEW b, NEW then, Taken(seen, b, then),
         NEW id, NEW limit
  PROVE  Compiles(query(id, a \o b, limit))
<1> DEFINE clauses == a \o b
           q == query(id, clauses, limit)
<1>1. Taken({}, clauses, then)
  BY TakenThen
<1> HIDE DEF clauses
<1>2. q.clauses = clauses
  BY DEF query
<1> HIDE DEF q
<1>3. Compiles(q)
  BY <1>1, <1>2, TakenCompiles
<1>4. QED
  BY <1>3 DEF q, clauses

\* What the tables of the pods show of a line besides.
Shown == {"pod", "container", "namespace", "userAgent"}

LEMMA PodsTaken ==
  ASSUME NEW f, NEW p \in accessPreamble(f)
  PROVE  \E seen : /\ Taken({}, p \o namespace(f) \o probes(f), seen)
                   /\ Common \subseteq seen /\ seen \subseteq Common \cup Added
<1>1. PICK seen : Taken({}, p, seen) /\ Common \subseteq seen /\ seen \subseteq Common \cup Added
  BY PreambleTaken
<1>2. "path" \in seen
  BY <1>1 DEF Common
<1>3. Taken({}, p \o namespace(f) \o probes(f), seen)
  BY <1>1, <1>2, NarrowedTaken
<1>4. QED
  BY <1>1, <1>3

LEMMA PodListTaken ==
  ASSUME NEW f, NEW p \in accessPreamble(f), NEW shown \in SUBSET Shown,
         NEW uses \in SUBSET {"kubernetes", "log_processed"}
  PROVE  \E seen : /\ Taken({}, p \o <<Fields(shown, uses)>> \o namespace(f) \o probes(f), seen)
                   /\ Common \cup shown \subseteq seen /\ seen \subseteq Common \cup Added \cup Shown
<1>1. PICK first : Taken({}, p, first) /\ Common \subseteq first /\ first \subseteq Common \cup Added
  BY PreambleTaken
<1> DEFINE seen == first \cup shown
<1>2. Taken(first, <<Fields(shown, uses)>>, seen)
  <2>1. shown \cap first = {}
    BY <1>1 DEF Common, Added, GinNames, Shown
  <2>2. uses \subseteq Recorded \cup first
    BY DEF Recorded
  <2>3. QED
    BY <2>1, <2>2, TakenFields
<1>3. "path" \in seen /\ Common \cup shown \subseteq seen /\ seen \subseteq Common \cup Added \cup Shown
  BY <1>1 DEF Common
<1> HIDE DEF seen
<1>4. Taken({}, p \o <<Fields(shown, uses)>>, seen)
  BY <1>1, <1>2, TakenThen
<1>5. Taken({}, p \o <<Fields(shown, uses)>> \o namespace(f) \o probes(f), seen)
  BY <1>3, <1>4, NarrowedTaken
<1>6. QED
  BY <1>3, <1>5

LEMMA LevelTaken ==
  ASSUME NEW f, NEW seen, Common \subseteq seen, seen \subseteq Common \cup Added \cup Shown
  PROVE  Taken(seen, levelFilter(f), seen \cup {"lvl"} \cup {"level"})
<1> DEFINE s == seen \cup {"lvl"}
<1>1. Taken(seen, <<Fields({"lvl"}, {"rawLevel"})>>, s)
  <2>1. {"lvl"} \cap seen = {}
    BY DEF Common, Added, GinNames, Shown
  <2>2. {"rawLevel"} \subseteq Recorded \cup seen
    BY DEF Common
  <2>3. QED
    BY <2>1, <2>2, TakenFields
<1>2. {"lvl", "status", "dashboardMessage"} \subseteq Recorded \cup s
  BY DEF Common
<1>3. Taken(s, <<Filter("level", {"lvl", "status", "dashboardMessage"})>>, s)
  BY <1>2, TakenFilter
<1>4. Taken(s, <<Fields({"level"}, {"lvl", "status", "dashboardMessage"})>>, s \cup {"level"})
  <2>1. {"level"} \cap s = {}
    BY DEF Common, Added, GinNames, Shown
  <2>2. QED
    BY <1>2, <2>1, TakenFields
<1>5. QED
  BY <1>1, <1>3, <1>4, TakenThree DEF levelFilter

LEMMA TrafficCompiles ==
  ASSUME NEW f, NEW q \in podTraffic(f)
  PROVE  Compiles(q)
<1> DEFINE counts == {"requests", "latencySamples", "p50", "p90", "p99"}
           a == Filter("access", {"status", "latencyMs"})
           b == Stats(counts, {"t", "app"}, {"status", "latencyMs", "app", "@timestamp"})
<1>1. PICK p \in accessPreamble(f) :
        q = query("pod.traffic", p \o namespace(f) \o probes(f) \o <<a, b, Sort("t")>>, 0)
  BY DEF podTraffic
<1>2. PICK seen : /\ Taken({}, p \o namespace(f) \o probes(f), seen)
                  /\ Common \subseteq seen /\ seen \subseteq Common \cup Added
  BY PodsTaken
<1>3. Taken(seen, <<a>>, seen)
  <2>1. {"status", "latencyMs"} \subseteq Recorded \cup seen
    BY <1>2 DEF Common
  <2>2. QED
    BY <2>1, TakenFilter
<1>4. Taken(seen, <<b>>, seen \cup counts)
  <2>1. counts \cap seen = {}
    BY <1>2 DEF Common, Added, GinNames
  <2>2. {"status", "latencyMs", "app", "@timestamp"} \subseteq Recorded \cup seen
    BY <1>2 DEF Common, Recorded
  <2>3. QED
    BY <2>1, <2>2, TakenFields
<1>5. Taken(seen \cup counts, <<Sort("t")>>, seen \cup counts)
  <2>1. {} \subseteq Recorded \cup (seen \cup counts)
    OBVIOUS
  <2>2. QED
    BY <2>1, TakenFilter
<1> HIDE DEF a, b, counts
<1>6. Taken(seen, <<a, b, Sort("t")>>, seen \cup counts)
  BY <1>3, <1>4, <1>5, TakenThree
<1>7. QED
  BY <1>1, <1>2, <1>6, JoinedCompiles

LEMMA BadStatsCompile ==
  ASSUME NEW f, NEW p \in accessPreamble(f), NEW id, NEW counts \in SUBSET {"n", "lastTs"}, NEW by,
         NEW uses \in SUBSET {"status", "path", "@timestamp"}, NEW when
  PROVE  Compiles(query(id, p \o namespace(f) \o probes(f) \o <<BadStatus, Stats(counts, by, uses), Sort(when)>>, 0))
<1>3. PICK seen : /\ Taken({}, p \o namespace(f) \o probes(f), seen)
                  /\ Common \subseteq seen /\ seen \subseteq Common \cup Added
  BY PodsTaken
<1>4. Taken(seen, <<BadStatus>>, seen)
  <2>1. {"status"} \subseteq Recorded \cup seen
    BY <1>3 DEF Common
  <2>2. QED
    BY <2>1, TakenFilter DEF BadStatus
<1>5. Taken(seen, <<Stats(counts, by, uses)>>, seen \cup counts)
  <2>1. counts \cap seen = {}
    BY <1>3 DEF Common, Added, GinNames
  <2>2. uses \subseteq Recorded \cup seen
    BY <1>3 DEF Common, Recorded
  <2>3. QED
    BY <2>1, <2>2, TakenFields
<1>6. Taken(seen \cup counts, <<Sort(when)>>, seen \cup counts)
  <2>1. {} \subseteq Recorded \cup (seen \cup counts)
    OBVIOUS
  <2>2. QED
    BY <2>1, TakenFilter
<1>7. Taken(seen, <<BadStatus, Stats(counts, by, uses), Sort(when)>>, seen \cup counts)
  BY <1>4, <1>5, <1>6, TakenThree
<1>8. QED
  BY <1>3, <1>7, JoinedCompiles

LEMMA BadSeriesCompiles ==
  ASSUME NEW f, NEW q \in podBadStatusSeries(f)
  PROVE  Compiles(q)
<1>1. PICK p \in accessPreamble(f) :
        q = query("pod.badStatus.series", p \o namespace(f) \o probes(f) \o
                  <<BadStatus, Stats({"n"}, {"t", "status"}, {"status", "@timestamp"}), Sort("t")>>, 0)
  BY DEF podBadStatusSeries
<1>2. {"n"} \in SUBSET {"n", "lastTs"} /\ {"status", "@timestamp"} \in SUBSET {"status", "path", "@timestamp"}
  OBVIOUS
<1>3. QED
  BY <1>1, <1>2, BadStatsCompile

LEMMA ByPathCompiles ==
  ASSUME NEW f, NEW q \in podBadStatusByPath(f)
  PROVE  Compiles(q)
<1>1. PICK p \in accessPreamble(f) :
        q = query("pod.badStatus.byPath", p \o namespace(f) \o probes(f) \o
                  <<BadStatus, Stats({"n", "lastTs"}, {"status", "path"}, {"status", "path", "@timestamp"}),
                    Sort("n")>>, 0)
  BY DEF podBadStatusByPath
<1>2. /\ {"n", "lastTs"} \in SUBSET {"n", "lastTs"}
      /\ {"status", "path", "@timestamp"} \in SUBSET {"status", "path", "@timestamp"}
  OBVIOUS
<1>3. QED
  BY <1>1, <1>2, BadStatsCompile

LEMMA BadListCompiles ==
  ASSUME NEW f, NEW limit, NEW q \in podBadStatusList(f, limit)
  PROVE  Compiles(q)
<1> DEFINE shown == accessFields(f).fields
           uses == {"kubernetes", "log_processed"}
           columns == accessFields(f).columns
<1>1. PICK p \in accessPreamble(f) :
        q = query("pod.badStatus.list", p \o <<Fields(shown, uses)>> \o namespace(f) \o probes(f) \o
                  <<BadStatus, Display(columns), Sort("@timestamp")>>, limit)
  BY DEF podBadStatusList
<1>2. shown \in SUBSET Shown /\ columns \subseteq Recorded \cup Common \cup shown
  BY DEF accessFields, Shown, Common, Recorded
<1> HIDE DEF shown, uses, columns
<1>3. PICK seen : /\ Taken({}, p \o <<Fields(shown, uses)>> \o namespace(f) \o probes(f), seen)
                  /\ Common \cup shown \subseteq seen /\ seen \subseteq Common \cup Added \cup Shown
  <2>1. uses \in SUBSET {"kubernetes", "log_processed"}
    BY DEF uses
  <2>2. QED
    BY <1>2, <2>1, PodListTaken
<1>4. Taken(seen, <<BadStatus>>, seen)
  <2>1. {"status"} \subseteq Recorded \cup seen
    BY <1>3 DEF Common
  <2>2. QED
    BY <2>1, TakenFilter DEF BadStatus
<1>5. columns \subseteq Recorded \cup seen
  BY <1>2, <1>3
<1>6. Taken(seen, <<Display(columns)>>, seen) /\ Taken(seen, <<Sort("@timestamp")>>, seen)
  BY <1>5, TakenFilter
<1>7. Taken(seen, <<BadStatus, Display(columns), Sort("@timestamp")>>, seen)
  BY <1>4, <1>6, TakenThree
<1>8. QED
  BY <1>1, <1>3, <1>7, JoinedCompiles

LEMMA ErrorSeriesCompiles ==
  ASSUME NEW f, NEW q \in podErrorSeries(f)
  PROVE  Compiles(q)
<1> DEFINE a == Stats({"n"}, {"t", "level"}, {"level", "@timestamp"})
<1>1. PICK p \in accessPreamble(f) :
        q = query("pod.errors.series", p \o namespace(f) \o probes(f) \o levelFilter(f) \o <<a, Sort("t")>>, 0)
  BY DEF podErrorSeries
<1>2. PICK seen : /\ Taken({}, p \o namespace(f) \o probes(f), seen)
                  /\ Common \subseteq seen /\ seen \subseteq Common \cup Added
  BY PodsTaken
<1> DEFINE then == seen \cup {"lvl"} \cup {"level"}
<1>3. Taken(seen, levelFilter(f), then)
  BY <1>2, LevelTaken
<1>4. Taken(then, <<a>>, then \cup {"n"})
  <2>1. {"n"} \cap then = {}
    BY <1>2 DEF Common, Added, GinNames
  <2>2. {"level", "@timestamp"} \subseteq Recorded \cup then
    BY DEF Recorded
  <2>3. QED
    BY <2>1, <2>2, TakenFields
<1>5. Taken(then \cup {"n"}, <<Sort("t")>>, then \cup {"n"})
  <2>1. {} \subseteq Recorded \cup (then \cup {"n"})
    OBVIOUS
  <2>2. QED
    BY <2>1, TakenFilter
<1> HIDE DEF a, then
<1>6. Taken(then, <<a, Sort("t")>>, then \cup {"n"})
  BY <1>4, <1>5, TakenTwo
<1>7. Taken({}, p \o namespace(f) \o probes(f) \o levelFilter(f), then)
  BY <1>2, <1>3, TakenThen
<1>8. QED
  BY <1>1, <1>6, <1>7, JoinedCompiles

LEMMA ErrorListCompiles ==
  ASSUME NEW f, NEW limit, NEW q \in podErrorList(f, limit)
  PROVE  Compiles(q)
<1> DEFINE shown == {"pod", "container"}
           uses == {"kubernetes"}
           columns == {"@timestamp", "dashboardMessage", "pod", "container"}
<1>1. PICK p \in accessPreamble(f) :
        q = query("pod.errors.list", p \o <<Fields(shown, uses)>> \o namespace(f) \o probes(f) \o levelFilter(f) \o
                  <<Display(columns), Sort("@timestamp")>>, limit)
  BY DEF podErrorList
<1>2. shown \in SUBSET Shown /\ uses \in SUBSET {"kubernetes", "log_processed"}
  BY DEF Shown
<1> HIDE DEF uses, shown, columns
<1>3. PICK seen : /\ Taken({}, p \o <<Fields(shown, uses)>> \o namespace(f) \o probes(f), seen)
                  /\ Common \cup shown \subseteq seen /\ seen \subseteq Common \cup Added \cup Shown
  BY <1>2, PodListTaken
<1> DEFINE then == seen \cup {"lvl"} \cup {"level"}
<1>4. Taken(seen, levelFilter(f), then)
  BY <1>3, LevelTaken
<1>5. columns \subseteq Recorded \cup then
  BY <1>3 DEF Common, Recorded, shown, columns
<1> HIDE DEF then
<1>6. Taken(then, <<Display(columns)>>, then) /\ Taken(then, <<Sort("@timestamp")>>, then)
  BY <1>5, TakenFilter
<1>7. Taken(then, <<Display(columns), Sort("@timestamp")>>, then)
  BY <1>6, TakenTwo
<1>8. Taken({}, p \o <<Fields(shown, uses)>> \o namespace(f) \o probes(f) \o levelFilter(f), then)
  BY <1>3, <1>4, TakenThen
<1>9. QED
  BY <1>1, <1>7, <1>8, JoinedCompiles

\* A query of the WAF that counts, and sorts what it counted.
LEMMA CountTaken ==
  ASSUME NEW seen, NEW defs, NEW by, NEW uses, NEW when,
         defs \cap seen = {}, uses \subseteq Recorded \cup seen
  PROVE  Taken(seen, <<Stats(defs, by, uses), Sort(when)>>, seen \cup defs)
<1>1. Taken(seen, <<Stats(defs, by, uses)>>, seen \cup defs)
  BY TakenFields
<1>2. {} \subseteq Recorded \cup (seen \cup defs)
  OBVIOUS
<1>3. Taken(seen \cup defs, <<Sort(when)>>, seen \cup defs)
  BY <1>2, TakenFilter
<1>4. QED
  BY <1>1, <1>3, TakenTwo

LEMMA QueryCompiles ==
  ASSUME NEW clauses, NEW then, Taken({}, clauses, then), NEW id, NEW limit
  PROVE  Compiles(query(id, clauses, limit))
<1> DEFINE q == query(id, clauses, limit)
<1>1. q.clauses = clauses
  BY DEF query
<1> HIDE DEF q
<1>2. Compiles(q)
  BY <1>1, TakenCompiles
<1>3. QED
  BY <1>2 DEF q

LEMMA WafCountsCompile ==
  ASSUME NEW limit
  PROVE  Compiles(wafActionSeries) /\ Compiles(wafByMethod) /\ Compiles(wafByPath(limit))
<1>1. Compiles(wafActionSeries)
  <2>1. {"n"} \cap {} = {} /\ {"action", "@timestamp"} \subseteq Recorded \cup {}
    BY DEF Recorded
  <2>2. Taken({}, <<Stats({"n"}, {"t", "action"}, {"action", "@timestamp"}), Sort("t")>>, {} \cup {"n"})
    BY <2>1, CountTaken
  <2>3. QED
    BY <2>2, QueryCompiles DEF wafActionSeries
<1>2. ASSUME NEW by, by # {"value"}, NEW id, NEW most
      PROVE  Compiles(query(id, breakdownStats(by), most))
  <2> DEFINE defs == {"n", "lastTs"} \cup (by \ {"action"})
             uses == {"action", "@timestamp"} \cup {"httpRequest"}
  <2>1. breakdownStats(by) = <<Stats(defs, by \cup {"action"}, uses), Sort("n")>>
    BY <1>2 DEF breakdownStats
  <2>2. defs \cap {} = {} /\ uses \subseteq Recorded \cup {}
    BY DEF Recorded
  <2> HIDE DEF defs, uses
  <2>3. Taken({}, <<Stats(defs, by \cup {"action"}, uses), Sort("n")>>, {} \cup defs)
    BY <2>2, CountTaken
  <2>4. QED
    BY <2>1, <2>3, QueryCompiles
<1>3. {"method"} # {"value"} /\ {"uri", "args"} # {"value"}
  OBVIOUS
<1>4. QED
  BY <1>1, <1>2, <1>3 DEF wafByMethod, wafByPath

LEMMA BlockedCompiles ==
  ASSUME NEW limit
  PROVE  Compiles(wafBlocked(limit))
<1> DEFINE uses == {"terminatingRuleId", "httpRequest"}
           by == {"rule", "clientIp", "country"}
<1>1. {"action"} \subseteq Recorded \cup {}
  BY DEF Recorded
<1>2. Taken({}, <<Filter("BLOCK", {"action"})>>, {})
  BY <1>1, TakenFilter
<1>3. {"n"} \cap {} = {} /\ uses \subseteq Recorded \cup {}
  BY DEF Recorded
<1>4. Taken({}, <<Stats({"n"}, by, uses)>>, {} \cup {"n"})
  BY <1>3, TakenFields
<1>5. {} \subseteq Recorded \cup ({} \cup {"n"})
  OBVIOUS
<1>6. Taken({} \cup {"n"}, <<Sort("n")>>, {} \cup {"n"})
  BY <1>5, TakenFilter
<1>7. Taken({}, <<Filter("BLOCK", {"action"}), Stats({"n"}, by, uses), Sort("n")>>, {} \cup {"n"})
  BY <1>2, <1>4, <1>6, TakenThree
<1>8. QED
  BY <1>7, QueryCompiles DEF wafBlocked

LEMMA RecentCompiles ==
  ASSUME NEW limit, NEW q \in wafRecentList(limit)
  PROVE  Compiles(q)
<1> DEFINE ua == Fields({"uaCapture"}, {"@message"})
           defs == {"rule", "ruleType", "responseCode", "userAgent", "clientIp", "country", "method", "uri", "args"}
           uses == {"@timestamp", "action", "terminatingRuleId", "terminatingRuleType",
                    "responseCodeSent", "uaCapture", "httpRequest"}
           clauses == <<ua, Fields(defs, uses), Sort("@timestamp")>>
           s == {} \cup {"uaCapture"}
<1>1. q = query("waf.recent.list", clauses, limit)
  BY DEF wafRecentList, headerParse
<1>2. Taken({}, <<ua>>, s)
  <2>1. {"uaCapture"} \cap {} = {} /\ {"@message"} \subseteq Recorded \cup {}
    BY DEF Recorded
  <2>2. QED
    BY <2>1, TakenFields
<1>3. Taken(s, <<Fields(defs, uses)>>, s \cup defs)
  <2>1. defs \cap s = {}
    OBVIOUS
  <2>2. uses \subseteq Recorded \cup s
    BY DEF Recorded
  <2>3. QED
    BY <2>1, <2>2, TakenFields
<1>4. Taken(s \cup defs, <<Sort("@timestamp")>>, s \cup defs)
  <2>1. {} \subseteq Recorded \cup (s \cup defs)
    OBVIOUS
  <2>2. QED
    BY <2>1, TakenFilter
<1>5. Taken({}, clauses, s \cup defs)
  BY <1>2, <1>3, <1>4, TakenThree
<1>6. QED
  BY <1>1, <1>5, QueryCompiles

LEMMA ByHeaderCompiles ==
  ASSUME NEW name, NEW limit, NEW q \in wafByHeader(name, limit)
  PROVE  Compiles(q)
<1> DEFINE parse == Fields({"headerValue"}, {"@message"})
           first == <<parse, Filter("header", {"headerValue"})>>
           s == {} \cup {"headerValue"}
           defs == {"n", "lastTs"} \cup ({"value"} \ {"action"})
           uses == {"action", "@timestamp"} \cup {"headerValue"}
           clauses == first \o breakdownStats({"value"})
<1>1. q = [query("waf.byHeader", clauses, limit) EXCEPT !.header = name]
  BY DEF wafByHeader, headerParse
<1>2. Taken({}, <<parse>>, s)
  <2>1. {"headerValue"} \cap {} = {} /\ {"@message"} \subseteq Recorded \cup {}
    BY DEF Recorded
  <2>2. QED
    BY <2>1, TakenFields
<1>3. Taken(s, <<Filter("header", {"headerValue"})>>, s)
  <2>1. {"headerValue"} \subseteq Recorded \cup s
    OBVIOUS
  <2>2. QED
    BY <2>1, TakenFilter
<1>4. Taken({}, first, s)
  BY <1>2, <1>3, TakenTwo
<1>5. breakdownStats({"value"}) = <<Stats(defs, {"value"} \cup {"action"}, uses), Sort("n")>>
  BY DEF breakdownStats
<1>6. defs \cap s = {} /\ uses \subseteq Recorded \cup s
  BY DEF Recorded
<1> HIDE DEF first, s, defs, uses
<1>7. Taken(s, breakdownStats({"value"}), s \cup defs)
  BY <1>5, <1>6, CountTaken
<1>8. Taken({}, clauses, s \cup defs)
  BY <1>4, <1>7, TakenThen
<1> HIDE DEF clauses
<1>9. q.clauses = clauses
  BY <1>1, QueryClauses
<1>10. QED
  BY <1>8, <1>9, TakenCompiles

LEMMA RangeJoined ==
  ASSUME NEW S, NEW a \in Seq(S), NEW b \in Seq(S), NEW x \in Range(a \o b)
  PROVE  x \in Range(a) \/ x \in Range(b)
<1>1. PICK i \in 1..(Len(a) + Len(b)) : x = (a \o b)[i]
  BY DEF Range
<1>2. CASE i \in 1..Len(a)
  <2>1. x = a[i] /\ i \in DOMAIN a
    BY <1>1, <1>2
  <2>2. QED
    BY <2>1 DEF Range
<1>3. CASE i \notin 1..Len(a)
  <2>1. i - Len(a) \in DOMAIN b /\ x = b[i - Len(a)]
    BY <1>1, <1>3
  <2>2. QED
    BY <2>1 DEF Range
<1>4. QED
  BY <1>2, <1>3

\* The queries of the breakdowns.
LEMMA BreakdownQueries ==
  ASSUME RowsInv, kind = "waf-breakdown", NEW q \in Queries
  PROVE  LET fetch == cfg.topN * actionFanout
         IN  \/ q \in {wafByMethod, wafByPath(fetch)}
             \/ \E i \in DOMAIN cfg.wafHeaders : q \in wafByHeader(cfg.wafHeaders[i], fetch)
<1> DEFINE headers == cfg.wafHeaders
           fetch == cfg.topN * actionFanout
           a == <<{wafByMethod}, {wafByPath(fetch)}>>
           b == [i \in DOMAIN headers |-> wafByHeader(headers[i], fetch)]
           S == Range(a) \cup Range(b)
<1>1. PICK qs \in Range(PanelQueries) : q \in qs
  BY DEF Queries
<1>2. PanelQueries = a \o b
  BY DEF PanelQueries
<1>3. a \in Seq(S)
  BY DEF Range
<1>4. b \in Seq(S)
  <2>1. DOMAIN headers = 1..Len(headers) /\ Len(headers) \in Nat
    BY DEF RowsInv
  <2>2. b = [i \in 1..Len(headers) |-> wafByHeader(headers[i], fetch)]
    BY <2>1
  <2>3. \A i \in 1..Len(headers) : b[i] \in S
    BY <2>2 DEF Range
  <2> HIDE DEF S
  <2>4. b \in [1..Len(headers) -> S]
    BY <2>2, <2>3
  <2> HIDE DEF b
  <2> QED BY <2>1, <2>4, SeqDef
<1> HIDE DEF a, b, S
<1>5. qs \in Range(a) \/ qs \in Range(b)
  BY <1>1, <1>2, <1>3, <1>4, RangeJoined
<1>6. qs \in Range(a) => q \in {wafByMethod, wafByPath(fetch)}
  BY <1>1 DEF Range, a
<1>7. qs \in Range(b) => \E i \in DOMAIN headers : q \in wafByHeader(headers[i], fetch)
  BY <1>1 DEF Range, b
<1> QED BY <1>5, <1>6, <1>7

\* QUERIES: no query of any panel is refused for its names, whatever the settings
\* (domain/query.ts:40-330, http/panels-logs.ts:93-560).
THEOREM EveryQueryCompiles == RowsSpec => []QueriesCompile
<1>1. RowsInv => QueriesCompile
  <2> DEFINE f == cfg.logFormat
             fetch == cfg.topN * actionFanout
  <2> SUFFICES ASSUME RowsInv, page # <<>>, NEW qs \in Range(PanelQueries), NEW q \in qs
               PROVE  Compiles(q)
    BY DEF QueriesCompile, Queries
  <2>1. kind \in Kinds
    BY DEF RowsInv, kind
  <2>2. CASE kind = "pod-latency"
    <3>1. PanelQueries = <<podTraffic(f)>>
      BY <2>2 DEF PanelQueries
    <3>2. q \in podTraffic(f)
      BY <3>1 DEF Range
    <3>3. QED
      BY <3>2, TrafficCompiles
  <2>3. CASE kind = "pod-status-codes"
    <3>1. PanelQueries = <<podBadStatusSeries(f), podBadStatusList(f, cfg.logRows)>>
      BY <2>3 DEF PanelQueries
    <3>2. q \in podBadStatusSeries(f) \/ q \in podBadStatusList(f, cfg.logRows)
      BY <3>1 DEF Range
    <3>3. QED
      BY <3>2, BadSeriesCompiles, BadListCompiles
  <2>4. CASE kind = "pod-status-breakdown"
    <3>1. PanelQueries = IF "path" \in f.named THEN <<podBadStatusByPath(f)>> ELSE <<>>
      BY <2>4 DEF PanelQueries
    <3>2. q \in podBadStatusByPath(f)
      BY <3>1 DEF Range
    <3>3. QED
      BY <3>2, ByPathCompiles
  <2>5. CASE kind = "pod-errors"
    <3>1. PanelQueries = <<podErrorSeries(f), podErrorList(f, cfg.logRows)>>
      BY <2>5 DEF PanelQueries
    <3>2. q \in podErrorSeries(f) \/ q \in podErrorList(f, cfg.logRows)
      BY <3>1 DEF Range
    <3>3. QED
      BY <3>2, ErrorSeriesCompiles, ErrorListCompiles
  <2>6. CASE kind = "waf-traffic"
    <3>1. PanelQueries = <<{wafActionSeries}, wafRecentList(cfg.logRows)>>
      BY <2>6 DEF PanelQueries
    <3>2. q = wafActionSeries \/ q \in wafRecentList(cfg.logRows)
      BY <3>1 DEF Range
    <3>3. QED
      BY <3>2, WafCountsCompile, RecentCompiles
  <2>7. CASE kind = "waf-blocked"
    <3>1. PanelQueries = <<{wafBlocked(cfg.topN)}>>
      BY <2>7 DEF PanelQueries
    <3>2. q = wafBlocked(cfg.topN)
      BY <3>1 DEF Range
    <3>3. QED
      BY <3>2, BlockedCompiles
  <2>8. CASE kind = "waf-breakdown"
    <3>1. \/ q \in {wafByMethod, wafByPath(fetch)}
          \/ \E i \in DOMAIN cfg.wafHeaders : q \in wafByHeader(cfg.wafHeaders[i], fetch)
      BY <2>8, BreakdownQueries DEF Queries
    <3>2. QED
      BY <3>1, WafCountsCompile, ByHeaderCompiles
  <2>9. QED
    BY <2>1, <2>2, <2>3, <2>4, <2>5, <2>6, <2>7, <2>8 DEF Kinds
<1>2. QED
  BY <1>1, RowsKeep, PTL

-----------------------------------------------------------------------------
(* Sums and orders of the rows of a query.                                   *)

\* Induction over the subsets of a finite set, of a property given as a set.
LEMMA SubsetsAllGood ==
  ASSUME NEW S, IsFiniteSet(S), NEW Good,
         \A s \in SUBSET S : (\A x \in s : s \ {x} \in Good) => s \in Good
  PROVE  \A s \in SUBSET S : s \in Good
<1> DEFINE Bad == (SUBSET S) \ Good
           R == StrictSubsetOrdering(S)
<1> SUFFICES ASSUME Bad # {} PROVE FALSE
  OBVIOUS
<1>1. Bad \subseteq FiniteSubsetsOf(S)
  BY FS_Subset DEF FiniteSubsetsOf
<1>2. IsWellFoundedOn(R, FiniteSubsetsOf(S))
  BY FS_StrictSubsetOrderingWellFounded
<1> HIDE DEF R
<1>3. \E s \in Bad : \A t \in Bad : <<t, s>> \notin R
  <2> HIDE DEF Bad
  <2> QED BY <1>1, <1>2, WFMin
<1>4. PICK s \in Bad : \A t \in Bad : <<t, s>> \notin R
  BY <1>3
<1>5. \A x \in s : s \ {x} \in Good
  <2> SUFFICES ASSUME NEW x \in s, s \ {x} \notin Good PROVE FALSE
    OBVIOUS
  <2>1. s \ {x} \in Bad /\ s \in SUBSET S
    BY <1>4
  <2>2. <<s \ {x}, s>> \in R
    BY <2>1 DEF R, StrictSubsetOrdering
  <2> QED BY <1>4, <2>1, <2>2
<1>6. s \in Bad
  BY <1>4
<1>7. s \in SUBSET S => s \in Good
  BY <1>5
<1> QED BY <1>6, <1>7

\* The least of finitely many.
LEMMA OneIsLeast ==
  ASSUME NEW S, IsFiniteSet(S), NEW of, \A r \in S : r[of] \in Int, S # {}
  PROVE  \E r \in S : \A o \in S : o[of] >= r[of]
<1> DEFINE Good == {s \in SUBSET S : s = {} \/ \E r \in s : \A o \in s : o[of] >= r[of]}
<1>1. \A s \in SUBSET S : (\A x \in s : s \ {x} \in Good) => s \in Good
  <2> TAKE s \in SUBSET S
  <2> HAVE \A x \in s : s \ {x} \in Good
  <2>1. CASE s = {}
    BY <2>1
  <2>2. CASE s # {}
    <3>1. PICK x \in s : TRUE
      BY <2>2
    <3>2. s \ {x} \in Good
      BY <3>1
    <3>3. CASE s \ {x} = {}
      <4>1. s = {x}
        BY <3>1, <3>3
      <4>2. x[of] >= x[of]
        BY <3>1
      <4> QED BY <4>1, <4>2
    <3>4. CASE \E r \in s \ {x} : \A o \in s \ {x} : o[of] >= r[of]
      <4>1. PICK r \in s \ {x} : \A o \in s \ {x} : o[of] >= r[of]
        BY <3>4
      <4>2. x[of] \in Int /\ r[of] \in Int
        BY <3>1, <4>1
      <4>3. CASE x[of] >= r[of]
        <5>1. \A o \in s : o[of] >= r[of]
          BY <4>1, <4>3
        <5> QED BY <4>1, <5>1
      <4>4. CASE ~(x[of] >= r[of])
        <5>1. \A o \in s : o[of] >= x[of]
          <6> TAKE o \in s
          <6>1. o[of] \in Int
            OBVIOUS
          <6>2. CASE o = x
            BY <4>2, <6>2
          <6>3. CASE o # x
            BY <4>1, <4>2, <4>4, <6>1, <6>3
          <6> QED BY <6>2, <6>3
        <5> QED BY <3>1, <5>1
      <4> QED BY <4>3, <4>4
    <3> QED BY <3>2, <3>3, <3>4
  <2> QED BY <2>1, <2>2
<1>2. S \in Good
  <2> HIDE DEF Good
  <2> QED BY <1>1, SubsetsAllGood
<1> QED BY <1>2

\* Rows can be put in order, and Descending does.
LEMMA InOrder ==
  ASSUME NEW S, IsFiniteSet(S), NEW of, \A r \in S : r[of] \in Int
  PROVE  /\ Descending(S, of) \in [1..Cardinality(S) -> S]
         /\ \A r \in S : \E i \in 1..Cardinality(S) : Descending(S, of)[i] = r
<1> DEFINE Ordered(f) == \A i, j \in DOMAIN f : i < j => f[i][of] >= f[j][of]
           Onto(f, s) == \A r \in s : \E i \in DOMAIN f : f[i] = r
           Good == {s \in SUBSET S : \E f \in SetToSeqs(s) : Ordered(f)}
<1>1. \A s \in SUBSET S : (\A x \in s : s \ {x} \in Good) => s \in Good
  <2> SUFFICES ASSUME NEW s \in SUBSET S, \A x \in s : s \ {x} \in Good
               PROVE  \E f \in SetToSeqs(s) : Ordered(f)
    OBVIOUS
  <2>0. IsFiniteSet(s) /\ Cardinality(s) \in Nat
    BY FS_Subset, FS_CardinalityType
  <2>1. CASE s = {}
    <3>1. Cardinality(s) = 0
      BY <2>1, FS_EmptySet
    <3>2. [i \in 1..0 |-> i] \in SetToSeqs(s)
      BY <2>1, <3>1 DEF SetToSeqs
    <3>3. Ordered([i \in 1..0 |-> i])
      OBVIOUS
    <3> QED BY <3>2, <3>3
  <2>2. CASE s # {}
    <3>1. PICK x \in s : \A o \in s : o[of] >= x[of]
      <4>1. \A r \in s : r[of] \in Int
        OBVIOUS
      <4> QED BY <2>0, <2>2, <4>1, OneIsLeast
    <3>2. PICK f \in SetToSeqs(s \ {x}) : Ordered(f)
      BY <3>1
    <3> DEFINE n == Cardinality(s \ {x})
    <3>3. n \in Nat /\ Cardinality(s) = n + 1
      <4>1. /\ IsFiniteSet(s \ {x})
            /\ Cardinality(s \ {x}) = IF x \in s THEN Cardinality(s) - 1 ELSE Cardinality(s)
        BY <2>0, FS_RemoveElement
      <4>2. Cardinality(s \ {x}) \in Nat
        BY <4>1, FS_CardinalityType
      <4> QED BY <2>0, <3>1, <4>1, <4>2
    <3> HIDE DEF n
    <3>4. /\ f \in [1..n -> s \ {x}]
          /\ \A i, j \in 1..n : i # j => f[i] # f[j]
      BY <3>2 DEF SetToSeqs, n
    <3> DEFINE g == [i \in 1..(n + 1) |-> IF i = n + 1 THEN x ELSE f[i]]
    <3>5. \A i \in 1..(n + 1) : i = n + 1 \/ i \in 1..n
      BY <3>3
    <3>6. g \in [1..(n + 1) -> s]
      BY <3>1, <3>4, <3>5
    <3>7. \A i, j \in 1..(n + 1) : i # j => g[i] # g[j]
      BY <3>4, <3>5
    <3>8. \A i, j \in 1..(n + 1) : i < j => g[i][of] >= g[j][of]
      <4> TAKE i, j \in 1..(n + 1)
      <4> HAVE i < j
      <4>1. i \in 1..n /\ g[i] = f[i] /\ f[i] \in s
        BY <3>3, <3>4
      <4>2. CASE j = n + 1
        BY <3>1, <4>1, <4>2
      <4>3. CASE j # n + 1
        <5>1. j \in 1..n /\ g[j] = f[j]
          BY <3>3, <4>3
        <5> QED BY <3>2, <3>4, <4>1, <5>1
      <4> QED BY <4>2, <4>3
    <3>9. g \in SetToSeqs(s)
      BY <3>3, <3>6, <3>7 DEF SetToSeqs
    <3>10. Ordered(g)
      BY <3>8
    <3> QED BY <3>9, <3>10
  <2> QED BY <2>1, <2>2
<1>2. S \in Good
  <2>1. S \in SUBSET S
    OBVIOUS
  <2> HIDE DEF Good
  <2>2. \A s \in SUBSET S : s \in Good
    BY <1>1, SubsetsAllGood
  <2> QED BY <2>1, <2>2
<1>3. \E f \in SetToSeqs(S) : Ordered(f)
  BY <1>2
<1>4. Descending(S, of) \in SetToSeqs(S)
  BY <1>3 DEF Descending
<1> DEFINE d == Descending(S, of)
           n == Cardinality(S)
<1> HIDE DEF d
<1>5. d \in [1..n -> S] /\ \A i, j \in 1..n : i # j => d[i] # d[j]
  BY <1>4 DEF SetToSeqs, d
<1>6. n \in Nat
  BY FS_CardinalityType
<1>7. IsFiniteSet(1..n) /\ Cardinality(1..n) = n
  BY <1>6, FS_Interval
<1>8. d \in Injection(1..n, S)
  BY <1>5 DEF Injection, IsInjective
<1>9. d \in Surjection(1..n, S)
  BY <1>7, <1>8, FS_Injection
<1>10. \A r \in S : \E i \in 1..n : d[i] = r
  BY <1>9 DEF Surjection
<1> QED BY <1>5, <1>10 DEF d


\* When every row counts the things it is of, the sum over the rows counts the things.
LEMMA CountedOnce ==
  ASSUME NEW T, IsFiniteSet(T), NEW S, IsFiniteSet(S), NEW key \in [T -> S], NEW of,
         \A r \in S : r[of] = Cardinality({t \in T : key[t] = r})
  PROVE  SumOf(S, of) = Cardinality(T)
<1> DEFINE Pick(s) == CHOOSE x \in s : TRUE
           Sums(g) == g = [s \in SUBSET S |-> IF s = {} THEN 0 ELSE Pick(s)[of] + g[s \ {Pick(s)}]]
           Count(s) == Cardinality({t \in T : key[t] \in s})
           counts == [s \in SUBSET S |-> Count(s)]
           sums == CHOOSE g : Sums(g)
<1>1. \A s \in SUBSET S : s # {} => Pick(s) \in s
  OBVIOUS
<1>2. Count({}) = 0
  BY FS_EmptySet
<1> HIDE DEF Pick
<1>3. \A s \in SUBSET S : s # {} => Count(s) = Pick(s)[of] + Count(s \ {Pick(s)})
  <2> SUFFICES ASSUME NEW s \in SUBSET S, NEW x \in s
               PROVE  Count(s) = x[of] + Count(s \ {x})
    BY <1>1
  <2>1. x[of] = Cardinality({t \in T : key[t] = x})
    OBVIOUS
  <2>2. Count(s) = Cardinality({t \in T : key[t] = x}) + Count(s \ {x})
    <3> DEFINE all == {t \in T : key[t] \in s}
               one == {t \in T : key[t] = x}
               rest == {t \in T : key[t] \in s \ {x}}
    <3>1. one \in SUBSET T /\ rest \in SUBSET T /\ all = one \cup rest /\ one \cap rest = {}
      OBVIOUS
    <3> HIDE DEF all, one, rest
    <3>2. IsFiniteSet(one) /\ IsFiniteSet(rest)
      BY <3>1, FS_Subset
    <3>3. Cardinality(one) \in Nat /\ Cardinality(rest) \in Nat
      BY <3>2, FS_CardinalityType
    <3>4. Cardinality(one \cup rest) = Cardinality(one) + Cardinality(rest) - Cardinality(one \cap rest)
      BY <3>2, FS_Union
    <3>5. Cardinality(one \cap rest) = 0
      BY <3>1, FS_EmptySet
    <3>6. Cardinality(all) = Cardinality(one) + Cardinality(rest)
      BY <3>1, <3>3, <3>4, <3>5
    <3> QED BY <3>6 DEF all, one, rest
  <2> QED BY <2>1, <2>2
<1> HIDE DEF Count
<1>4. Sums(counts)
  <2>1. \A s \in SUBSET S : s \ {Pick(s)} \in SUBSET S
    OBVIOUS
  <2>2. \A s \in SUBSET S : counts[s] = IF s = {} THEN 0 ELSE Pick(s)[of] + counts[s \ {Pick(s)}]
    BY <1>2, <1>3, <2>1
  <2>3. counts = [s \in SUBSET S |-> counts[s]]
    OBVIOUS
  <2> HIDE DEF counts
  <2> QED BY <2>2, <2>3
<1>5. Sums(sums)
  <2> HIDE DEF Sums, counts
  <2> QED BY <1>4
<1> HIDE DEF sums
<1> DEFINE Good == {s \in SUBSET S : sums[s] = Count(s)}
<1>6. \A s \in SUBSET S : (\A x \in s : s \ {x} \in Good) => s \in Good
  <2> TAKE s \in SUBSET S
  <2> HAVE \A x \in s : s \ {x} \in Good
  <2>1. sums[s] = IF s = {} THEN 0 ELSE Pick(s)[of] + sums[s \ {Pick(s)}]
    BY <1>5
  <2>2. CASE s = {}
    BY <1>2, <2>1, <2>2
  <2>3. CASE s # {}
    <3>1. s \ {Pick(s)} \in Good
      BY <1>1, <2>3
    <3> QED BY <1>3, <2>1, <2>3, <3>1
  <2> QED BY <2>2, <2>3
<1>7. \A s \in SUBSET S : s \in Good
  <2> HIDE DEF Good
  <2> QED BY <1>6, SubsetsAllGood
<1>8. sums[S] = Count(S)
  BY <1>7
<1>9. Count(S) = Cardinality(T)
  <2>1. {t \in T : key[t] \in S} = T
    OBVIOUS
  <2> QED BY <2>1 DEF Count
<1>10. SumOf(S, of) = sums[S]
  BY DEF SumOf, MapThenSumSet, MapThenFoldSet, sums, Pick
<1> QED BY <1>8, <1>9, <1>10

-----------------------------------------------------------------------------
(* What the queries ask.                                                     *)

\* The conditions of some clauses, the names they group by, and whether they count.
Asks(clauses, whens, by, counts) ==
  /\ \E S : clauses \in Seq(S)
  /\ {c.when : c \in {d \in Range(clauses) : d.op = "filter"}} = whens
  /\ UNION {c.by : c \in Range(clauses)} = by
  /\ counts <=> \E c \in Range(clauses) : c.op = "stats"

LEMMA RangeIs ==
  ASSUME NEW S, NEW a \in Seq(S), NEW b \in Seq(S)
  PROVE  a \o b \in Seq(S) /\ Range(a \o b) = Range(a) \cup Range(b)
<1>1. \A i \in 1..(Len(a) + Len(b)) : (a \o b)[i] \in Range(a) \cup Range(b)
  <2> TAKE i \in 1..(Len(a) + Len(b))
  <2>1. CASE i \in 1..Len(a)
    <3>1. (a \o b)[i] = a[i] /\ i \in DOMAIN a
      BY <2>1
    <3> QED BY <3>1 DEF Range
  <2>2. CASE i \notin 1..Len(a)
    <3>1. i - Len(a) \in DOMAIN b /\ (a \o b)[i] = b[i - Len(a)]
      BY <2>2
    <3> QED BY <3>1 DEF Range
  <2> QED BY <2>1, <2>2
<1>2. \A i \in DOMAIN a : i \in DOMAIN (a \o b) /\ (a \o b)[i] = a[i]
  OBVIOUS
<1>3. \A i \in DOMAIN b : i + Len(a) \in DOMAIN (a \o b) /\ (a \o b)[i + Len(a)] = b[i]
  OBVIOUS
<1>4. DOMAIN (a \o b) = 1..(Len(a) + Len(b))
  OBVIOUS
<1>5. \A x \in Range(a \o b) : x \in Range(a) \cup Range(b)
  BY <1>1, <1>4 DEF Range
<1>6. \A x \in Range(a) \cup Range(b) : x \in Range(a \o b)
  BY <1>2, <1>3 DEF Range
<1>7. a \o b \in Seq(S)
  OBVIOUS
<1> QED BY <1>5, <1>6, <1>7

\* What comes before a query's own clauses only narrows it.
LEMMA AsksJoined ==
  ASSUME NEW a, NEW whens1, Asks(a, whens1, {}, FALSE),
         NEW b, NEW whens2, NEW by, NEW counts, Asks(b, whens2, by, counts)
  PROVE  Asks(a \o b, whens1 \cup whens2, by, counts)
<1>1. PICK S1 : a \in Seq(S1)
  BY DEF Asks
<1>2. PICK S2 : b \in Seq(S2)
  BY DEF Asks
<1> DEFINE S == S1 \cup S2
<1>3. a \in Seq(S) /\ b \in Seq(S)
  BY <1>1, <1>2
<1> HIDE DEF S
<1>4. a \o b \in Seq(S) /\ Range(a \o b) = Range(a) \cup Range(b)
  BY <1>3, RangeIs
<1> QED BY <1>4 DEF Asks

LEMMA AsksOne ==
  ASSUME NEW c
  PROVE  /\ c.op = "filter" => Asks(<<c>>, {c.when}, c.by, FALSE)
         /\ c.op = "stats" => Asks(<<c>>, {}, c.by, TRUE)
         /\ c.op \notin {"filter", "stats"} => Asks(<<c>>, {}, c.by, FALSE)
<1>1. <<c>> \in Seq({c}) /\ Range(<<c>>) = {c}
  BY DEF Range
<1> QED BY <1>1 DEF Asks

\* The clauses a query is made of, by what they ask.
LEMMA ClauseAsks ==
  /\ \A when, uses : Asks(<<Filter(when, uses)>>, {when}, {}, FALSE)
  /\ \A defs, by, uses : Asks(<<Stats(defs, by, uses)>>, {}, by, TRUE)
  /\ \A defs, uses : Asks(<<Fields(defs, uses)>>, {}, {}, FALSE)
  /\ \A columns : Asks(<<Display(columns)>>, {}, {}, FALSE)
  /\ \A when : Asks(<<Sort(when)>>, {}, {}, FALSE)
<1>1. \A when, uses : /\ Filter(when, uses).op = "filter" /\ Filter(when, uses).by = {}
                     /\ Filter(when, uses).when = when
  BY DEF Filter, Clause
<1>2. \A defs, by, uses : Stats(defs, by, uses).op = "stats" /\ Stats(defs, by, uses).by = by
  BY DEF Stats, Clause
<1>3. \A defs, uses : Fields(defs, uses).op = "fields" /\ Fields(defs, uses).by = {}
  BY DEF Fields, Clause
<1>4. \A columns : Display(columns).op = "display" /\ Display(columns).by = {}
  BY DEF Display, Clause
<1>5. \A when : Sort(when).op = "sort" /\ Sort(when).by = {}
  BY DEF Sort, Clause
<1>6. \A when, uses : Asks(<<Filter(when, uses)>>, {when}, {}, FALSE)
  <2> TAKE when, uses
  <2> DEFINE c == Filter(when, uses)
  <2>1. c.op = "filter" /\ c.by = {} /\ c.when = when
    BY <1>1
  <2> HIDE DEF c
  <2>2. Asks(<<c>>, {c.when}, c.by, FALSE)
    BY <2>1, AsksOne
  <2>3. Asks(<<c>>, {when}, {}, FALSE)
    BY <2>1, <2>2
  <2> QED BY <2>3 DEF c
<1>7. \A defs, by, uses : Asks(<<Stats(defs, by, uses)>>, {}, by, TRUE)
  <2> TAKE defs, by, uses
  <2> DEFINE c == Stats(defs, by, uses)
  <2>1. c.op = "stats" /\ c.by = by
    BY <1>2
  <2> HIDE DEF c
  <2>2. Asks(<<c>>, {}, c.by, TRUE)
    BY <2>1, AsksOne
  <2>3. Asks(<<c>>, {}, by, TRUE)
    BY <2>1, <2>2
  <2> QED BY <2>3 DEF c
<1>8. \A defs, uses : Asks(<<Fields(defs, uses)>>, {}, {}, FALSE)
  BY <1>3, AsksOne
<1>9. \A columns : Asks(<<Display(columns)>>, {}, {}, FALSE)
  BY <1>4, AsksOne
<1>10. \A when : Asks(<<Sort(when)>>, {}, {}, FALSE)
  BY <1>5, AsksOne
<1> QED BY <1>6, <1>7, <1>8, <1>9, <1>10

LEMMA AsksNone == Asks(<<>>, {}, {}, FALSE)
<1>1. <<>> \in Seq({}) /\ Range(<<>>) = {}
  BY DEF Range
<1> QED BY <1>1 DEF Asks

Narrowed(f) == (IF f.namespace = "" THEN {} ELSE {"namespace"}) \cup
               (IF f.excludePaths = {} THEN {} ELSE {"probes"})

LEMMA AsksNarrowed ==
  ASSUME NEW f
  PROVE  /\ Asks(namespace(f), IF f.namespace = "" THEN {} ELSE {"namespace"}, {}, FALSE)
         /\ Asks(probes(f), IF f.excludePaths = {} THEN {} ELSE {"probes"}, {}, FALSE)
  BY AsksNone, ClauseAsks DEF namespace, probes

\* Fields alone ask nothing.
LEMMA AsksFields ==
  ASSUME NEW S, NEW a \in Seq(S), \A i \in DOMAIN a : a[i].op = "fields" /\ a[i].by = {}
  PROVE  Asks(a, {}, {}, FALSE)
  BY DEF Asks, Range

LEMMA AsksPreamble ==
  ASSUME NEW f, NEW p \in accessPreamble(f)
  PROVE  Asks(p, {}, {}, FALSE)
<1>1. PICK d2, d3, u1, u2, u3, u4, d4, d5, d6, u5, u6, d1 :
        p = <<Fields(d1, u1), Fields(d2, u2), Fields(d3, u3), Fields(d4, u4), Fields(d5, u5), Fields(d6, u6)>>
  BY DEF accessPreamble
<1>2. \A d, u : Fields(d, u).op = "fields" /\ Fields(d, u).by = {}
  BY DEF Fields, Clause
<1> DEFINE S == {Fields(d1, u1), Fields(d2, u2), Fields(d3, u3), Fields(d4, u4), Fields(d5, u5), Fields(d6, u6)}
<1>3. \A c \in S : c.op = "fields" /\ c.by = {}
  BY <1>2
<1>4. p \in Seq(S) /\ \A i \in DOMAIN p : p[i] \in S
  BY <1>1
<1> HIDE DEF S
<1> QED BY <1>3, <1>4, AsksFields

\* A query of the pods: its preamble, what narrows it and what it asks itself.
LEMMA AsksOfPods ==
  ASSUME NEW f, NEW p, Asks(p, {}, {}, FALSE),
         NEW rest, NEW whens, NEW by, NEW counts, Asks(rest, whens, by, counts)
  PROVE  Asks(p \o namespace(f) \o probes(f) \o rest, Narrowed(f) \cup whens, by, counts)
<1>2. Asks(namespace(f), IF f.namespace = "" THEN {} ELSE {"namespace"}, {}, FALSE)
  BY AsksNarrowed
<1>3. Asks(probes(f), IF f.excludePaths = {} THEN {} ELSE {"probes"}, {}, FALSE)
  BY AsksNarrowed
<1> DEFINE n == IF f.namespace = "" THEN {} ELSE {"namespace"}
           x == IF f.excludePaths = {} THEN {} ELSE {"probes"}
<1> HIDE DEF n, x
<1>4. Asks(p \o namespace(f), {} \cup n, {}, FALSE)
  BY <1>2, AsksJoined DEF n
<1>5. Asks((p \o namespace(f)) \o probes(f), ({} \cup n) \cup x, {}, FALSE)
  BY <1>3, <1>4, AsksJoined DEF x
<1>6. Asks(((p \o namespace(f)) \o probes(f)) \o rest, (({} \cup n) \cup x) \cup whens, by, counts)
  BY <1>5, AsksJoined
<1>7. (({} \cup n) \cup x) \cup whens = Narrowed(f) \cup whens
  BY DEF Narrowed, n, x
<1> QED BY <1>6, <1>7

\* Counting clauses end with their sort, lists with what they show.
LEMMA AsksCounting ==
  ASSUME NEW defs, NEW by, NEW uses, NEW sort
  PROVE  Asks(<<Stats(defs, by, uses), Sort(sort)>>, {}, by, TRUE)
<1> DEFINE a == Stats(defs, by, uses)
           b == Sort(sort)
<1>1. a.op = "stats" /\ a.by = by
  BY DEF Stats, Clause
<1>2. b.op = "sort" /\ b.by = {}
  BY DEF Sort, Clause
<1> HIDE DEF a, b
<1>3. <<a, b>> \in Seq({a, b}) /\ Range(<<a, b>>) = {a, b}
  BY DEF Range
<1>4. Asks(<<a, b>>, {}, by, TRUE)
  <2>1. {c.when : c \in {d \in {a, b} : d.op = "filter"}} = {}
    BY <1>1, <1>2
  <2>2. UNION {c.by : c \in {a, b}} = by
    BY <1>1, <1>2
  <2>3. \E c \in {a, b} : c.op = "stats"
    BY <1>1
  <2> QED BY <1>3, <2>1, <2>2, <2>3 DEF Asks
<1> QED BY <1>4 DEF a, b

LEMMA AsksListing ==
  ASSUME NEW columns, NEW sort
  PROVE  Asks(<<Display(columns), Sort(sort)>>, {}, {}, FALSE)
<1> DEFINE a == Display(columns)
           b == Sort(sort)
<1>1. a.op = "display" /\ a.by = {} /\ b.op = "sort" /\ b.by = {}
  BY DEF Display, Sort, Clause
<1> HIDE DEF a, b
<1>2. <<a, b>> \in Seq({a, b}) /\ Range(<<a, b>>) = {a, b}
  BY DEF Range
<1>3. Asks(<<a, b>>, {}, {}, FALSE)
  BY <1>1, <1>2 DEF Asks
<1> QED BY <1>3 DEF a, b

LEMMA FilterFirst ==
  ASSUME NEW when, NEW uses, NEW a, NEW b, NEW by, NEW counts, Asks(<<a, b>>, {}, by, counts)
  PROVE  Asks(<<Filter(when, uses), a, b>>, {when}, by, counts)
<1> DEFINE x == Filter(when, uses)
<1>1. x.op = "filter" /\ x.when = when /\ x.by = {}
  BY DEF Filter, Clause
<1> HIDE DEF x
<1>2. /\ <<a, b>> \in Seq({a, b}) /\ Range(<<a, b>>) = {a, b}
      /\ <<x, a, b>> \in Seq({x, a, b}) /\ Range(<<x, a, b>>) = {x, a, b}
  BY DEF Range
<1>3. Asks(<<x, a, b>>, {when}, by, counts)
  <2>1. /\ {c.when : c \in {d \in {a, b} : d.op = "filter"}} = {}
        /\ UNION {c.by : c \in {a, b}} = by
        /\ counts <=> \E c \in {a, b} : c.op = "stats"
    BY <1>2 DEF Asks
  <2>2. {c.when : c \in {d \in {x, a, b} : d.op = "filter"}} = {when}
    BY <1>1, <2>1
  <2>3. UNION {c.by : c \in {x, a, b}} = by
    BY <1>1, <2>1
  <2>4. counts <=> \E c \in {x, a, b} : c.op = "stats"
    BY <1>1, <2>1
  <2> QED BY <1>2, <2>2, <2>3, <2>4 DEF Asks
<1> QED BY <1>3 DEF x

\* What the queries of bad answers ask.
LEMMA BadQueriesAsk ==
  ASSUME NEW f
  PROVE  /\ \A q \in podBadStatusSeries(f) :
              /\ q.id = "pod.badStatus.series" /\ q.limit = 0 /\ q.header = ""
              /\ Asks(q.clauses, Narrowed(f) \cup {"bad"}, {"t", "status"}, TRUE)
         /\ \A q \in podBadStatusByPath(f) :
              /\ q.id = "pod.badStatus.byPath" /\ q.limit = 0 /\ q.header = ""
              /\ Asks(q.clauses, Narrowed(f) \cup {"bad"}, {"status", "path"}, TRUE)
         /\ \A limit : \A q \in podBadStatusList(f, limit) :
              /\ q.id = "pod.badStatus.list" /\ q.limit = limit /\ q.header = ""
              /\ Asks(q.clauses, Narrowed(f) \cup {"bad"}, {}, FALSE)
<1>1. ASSUME NEW q \in podBadStatusSeries(f)
      PROVE  /\ q.id = "pod.badStatus.series" /\ q.limit = 0 /\ q.header = ""
             /\ Asks(q.clauses, Narrowed(f) \cup {"bad"}, {"t", "status"}, TRUE)
  <2> DEFINE a == Stats({"n"}, {"t", "status"}, {"status", "@timestamp"})
             b == Sort("t")
             rest == <<BadStatus, a, b>>
  <2>1. PICK p \in accessPreamble(f) : q = query("pod.badStatus.series", p \o namespace(f) \o probes(f) \o rest, 0)
    BY DEF podBadStatusSeries
  <2>2. Asks(<<a, b>>, {}, {"t", "status"}, TRUE)
    BY AsksCounting
  <2> HIDE DEF a, b
  <2>3. Asks(rest, {"bad"}, {"t", "status"}, TRUE)
    BY <2>2, FilterFirst DEF BadStatus
  <2> HIDE DEF rest
  <2>4. Asks(p, {}, {}, FALSE)
    BY <2>1, AsksPreamble
  <2>5. Asks(p \o namespace(f) \o probes(f) \o rest, Narrowed(f) \cup {"bad"}, {"t", "status"}, TRUE)
    BY <2>3, <2>4, AsksOfPods
  <2> QED BY <2>1, <2>5 DEF query
<1>2. ASSUME NEW q \in podBadStatusByPath(f)
      PROVE  /\ q.id = "pod.badStatus.byPath" /\ q.limit = 0 /\ q.header = ""
             /\ Asks(q.clauses, Narrowed(f) \cup {"bad"}, {"status", "path"}, TRUE)
  <2> DEFINE a == Stats({"n", "lastTs"}, {"status", "path"}, {"status", "path", "@timestamp"})
             b == Sort("n")
             rest == <<BadStatus, a, b>>
  <2>1. PICK p \in accessPreamble(f) : q = query("pod.badStatus.byPath", p \o namespace(f) \o probes(f) \o rest, 0)
    BY DEF podBadStatusByPath
  <2>2. Asks(<<a, b>>, {}, {"status", "path"}, TRUE)
    BY AsksCounting
  <2> HIDE DEF a, b
  <2>3. Asks(rest, {"bad"}, {"status", "path"}, TRUE)
    BY <2>2, FilterFirst DEF BadStatus
  <2> HIDE DEF rest
  <2>4. Asks(p, {}, {}, FALSE)
    BY <2>1, AsksPreamble
  <2>5. Asks(p \o namespace(f) \o probes(f) \o rest, Narrowed(f) \cup {"bad"}, {"status", "path"}, TRUE)
    BY <2>3, <2>4, AsksOfPods
  <2> QED BY <2>1, <2>5 DEF query
<1>3. ASSUME NEW limit, NEW q \in podBadStatusList(f, limit)
      PROVE  /\ q.id = "pod.badStatus.list" /\ q.limit = limit /\ q.header = ""
             /\ Asks(q.clauses, Narrowed(f) \cup {"bad"}, {}, FALSE)
  <2> DEFINE first == <<Fields(accessFields(f).fields, {"kubernetes", "log_processed"})>>
             a == Display(accessFields(f).columns)
             b == Sort("@timestamp")
             rest == <<BadStatus, a, b>>
  <2>1. PICK p \in accessPreamble(f) :
          q = query("pod.badStatus.list", p \o first \o namespace(f) \o probes(f) \o rest, limit)
    BY DEF podBadStatusList
  <2>2. Asks(<<a, b>>, {}, {}, FALSE)
    BY AsksListing
  <2> HIDE DEF a, b
  <2>3. Asks(rest, {"bad"}, {}, FALSE)
    BY <2>2, FilterFirst DEF BadStatus
  <2> HIDE DEF rest
  <2>4. Asks(p, {}, {}, FALSE)
    BY <2>1, AsksPreamble
  <2>5. Asks(first, {}, {}, FALSE)
    BY ClauseAsks
  <2> HIDE DEF first
  <2>6. Asks(p \o first, {} \cup {}, {}, FALSE)
    BY <2>4, <2>5, AsksJoined
  <2>7. Asks(p \o first \o namespace(f) \o probes(f) \o rest, Narrowed(f) \cup {"bad"}, {}, FALSE)
    BY <2>3, <2>6, AsksOfPods
  <2> QED BY <2>1, <2>7 DEF query
<1> QED BY <1>1, <1>2, <1>3

\* What the queries of errors and warnings ask.
LEMMA ErrorQueriesAsk ==
  ASSUME NEW f
  PROVE  /\ \A q \in podErrorSeries(f) :
              /\ q.id = "pod.errors.series" /\ q.limit = 0 /\ q.header = ""
              /\ Asks(q.clauses, Narrowed(f) \cup {"level"}, {"t", "level"}, TRUE)
         /\ \A limit : \A q \in podErrorList(f, limit) :
              /\ q.id = "pod.errors.list" /\ q.limit = limit /\ q.header = ""
              /\ Asks(q.clauses, Narrowed(f) \cup {"level"}, {}, FALSE)
<1>1. Asks(levelFilter(f), {"level"}, {}, FALSE)
  <2> DEFINE a == Fields({"lvl"}, {"rawLevel"})
             b == Filter("level", {"lvl", "status", "dashboardMessage"})
             d == Fields({"level"}, {"lvl", "status", "dashboardMessage"})
  <2>1. /\ a.op = "fields" /\ a.by = {} /\ d.op = "fields" /\ d.by = {}
        /\ b.op = "filter" /\ b.by = {} /\ b.when = "level"
    BY DEF Fields, Filter, Clause
  <2> HIDE DEF a, b, d
  <2>2. <<a, b, d>> \in Seq({a, b, d}) /\ Range(<<a, b, d>>) = {a, b, d}
    BY DEF Range
  <2>3. Asks(<<a, b, d>>, {"level"}, {}, FALSE)
    BY <2>1, <2>2 DEF Asks
  <2> QED BY <2>3 DEF levelFilter, a, b, d
<1>2. ASSUME NEW q \in podErrorSeries(f)
      PROVE  /\ q.id = "pod.errors.series" /\ q.limit = 0 /\ q.header = ""
             /\ Asks(q.clauses, Narrowed(f) \cup {"level"}, {"t", "level"}, TRUE)
  <2> DEFINE rest == <<Stats({"n"}, {"t", "level"}, {"level", "@timestamp"}), Sort("t")>>
  <2>1. PICK p \in accessPreamble(f) :
          q = query("pod.errors.series", p \o namespace(f) \o probes(f) \o levelFilter(f) \o rest, 0)
    BY DEF podErrorSeries
  <2>2. Asks(rest, {}, {"t", "level"}, TRUE)
    BY AsksCounting
  <2> HIDE DEF rest
  <2>3. Asks(p, {}, {}, FALSE)
    BY <2>1, AsksPreamble
  <2>4. Asks(p \o namespace(f) \o probes(f) \o levelFilter(f), Narrowed(f) \cup {"level"}, {}, FALSE)
    BY <1>1, <2>3, AsksOfPods
  <2> DEFINE before == p \o namespace(f) \o probes(f) \o levelFilter(f)
  <2> HIDE DEF before
  <2>5. Asks(before \o rest, (Narrowed(f) \cup {"level"}) \cup {}, {"t", "level"}, TRUE)
    BY <2>2, <2>4, AsksJoined DEF before
  <2>6. Asks(before \o rest, Narrowed(f) \cup {"level"}, {"t", "level"}, TRUE)
    BY <2>5
  <2> QED BY <2>1, <2>6 DEF query, before
<1>3. ASSUME NEW limit, NEW q \in podErrorList(f, limit)
      PROVE  /\ q.id = "pod.errors.list" /\ q.limit = limit /\ q.header = ""
             /\ Asks(q.clauses, Narrowed(f) \cup {"level"}, {}, FALSE)
  <2> DEFINE first == <<Fields({"pod", "container"}, {"kubernetes"})>>
             rest == <<Display({"@timestamp", "dashboardMessage", "pod", "container"}), Sort("@timestamp")>>
  <2>1. PICK p \in accessPreamble(f) :
          q = query("pod.errors.list",
                    p \o first \o namespace(f) \o probes(f) \o levelFilter(f) \o rest, limit)
    BY DEF podErrorList
  <2>2. Asks(rest, {}, {}, FALSE)
    BY AsksListing
  <2> HIDE DEF rest
  <2>3. Asks(p, {}, {}, FALSE)
    BY <2>1, AsksPreamble
  <2>4. Asks(first, {}, {}, FALSE)
    BY ClauseAsks
  <2> HIDE DEF first
  <2>5. Asks(p \o first, {} \cup {}, {}, FALSE)
    BY <2>3, <2>4, AsksJoined
  <2>6. Asks(p \o first \o namespace(f) \o probes(f) \o levelFilter(f), Narrowed(f) \cup {"level"}, {}, FALSE)
    BY <1>1, <2>5, AsksOfPods
  <2> DEFINE before == p \o first \o namespace(f) \o probes(f) \o levelFilter(f)
  <2> HIDE DEF before
  <2>7. Asks(before \o rest, (Narrowed(f) \cup {"level"}) \cup {}, {}, FALSE)
    BY <2>2, <2>6, AsksJoined DEF before
  <2>8. Asks(before \o rest, Narrowed(f) \cup {"level"}, {}, FALSE)
    BY <2>7
  <2> QED BY <2>1, <2>8 DEF query, before
<1> QED BY <1>2, <1>3

\* What the queries of the WAF's traffic ask.
LEMMA TrafficQueriesAsk ==
  /\ wafActionSeries.id = "waf.action.series" /\ wafActionSeries.limit = 0
  /\ wafActionSeries.header = ""
  /\ Asks(wafActionSeries.clauses, {}, {"t", "action"}, TRUE)
  /\ \A limit : \A q \in wafRecentList(limit) :
       /\ q.id = "waf.recent.list" /\ q.limit = limit /\ q.header = ""
       /\ Asks(q.clauses, {}, {}, FALSE)
<1>1. Asks(wafActionSeries.clauses, {}, {"t", "action"}, TRUE)
  BY AsksCounting DEF wafActionSeries, query
<1>2. ASSUME NEW limit, NEW q \in wafRecentList(limit)
      PROVE  /\ q.id = "waf.recent.list" /\ q.limit = limit /\ q.header = ""
             /\ Asks(q.clauses, {}, {}, FALSE)
  <2>1. PICK ua \in headerParse("User-Agent", "uaCapture") :
          \E d, u : q = query("waf.recent.list", <<ua, Fields(d, u), Sort("@timestamp")>>, limit)
    BY DEF wafRecentList
  <2> PICK d, u : q = query("waf.recent.list", <<ua, Fields(d, u), Sort("@timestamp")>>, limit)
    BY <2>1
  <2> DEFINE a == Fields(d, u)
             b == Sort("@timestamp")
             S == {ua, a, b}
  <2>2. ua.op = "fields" /\ ua.by = {}
    BY <2>1 DEF headerParse, Fields, Clause
  <2>3. a.op = "fields" /\ a.by = {} /\ b.op = "sort" /\ b.by = {}
    BY DEF Fields, Sort, Clause
  <2> HIDE DEF a, b
  <2>4. <<ua, a, b>> \in Seq(S) /\ Range(<<ua, a, b>>) = S
    BY DEF Range
  <2>5. Asks(<<ua, a, b>>, {}, {}, FALSE)
    BY <2>2, <2>3, <2>4 DEF Asks
  <2> QED BY <2>5 DEF query, a, b
<1> QED BY <1>1, <1>2 DEF wafActionSeries, query

-----------------------------------------------------------------------------
(* What the queries find.                                                    *)

\* The lines of a query are those of the window that its conditions let pass.
LEMMA KeptIs ==
  ASSUME NEW f, NEW x, NEW q, NEW lines, NEW whens, NEW by, NEW counts, Asks(q.clauses, whens, by, counts)
  PROVE  \A rec : rec \in Kept(f, x, q, lines) <=>
           /\ rec \in lines
           /\ rec.at \in x.start..x.end
           /\ \A when \in whens : Passes(f, q, rec, when)
<1>1. SUFFICES ASSUME NEW rec \in lines
               PROVE  (\A i \in DOMAIN q.clauses : q.clauses[i].op = "filter" => Passes(f, q, rec, q.clauses[i].when))
                        <=> \A when \in whens : Passes(f, q, rec, when)
  BY DEF Kept
<1>2. whens = {c.when : c \in {d \in Range(q.clauses) : d.op = "filter"}}
  BY DEF Asks
<1>3. \A i \in DOMAIN q.clauses : q.clauses[i] \in Range(q.clauses)
  BY DEF Range
<1>4. \A c \in Range(q.clauses) : \E i \in DOMAIN q.clauses : c = q.clauses[i]
  BY DEF Range
<1> QED BY <1>2, <1>3, <1>4

\* What a query shows is its lines, when it counts nothing.
LEMMA ListedRows ==
  ASSUME NEW f, NEW x, NEW q, NEW lines, NEW whens, NEW by, Asks(q.clauses, whens, by, FALSE)
  PROVE  AllRows(f, x, q, lines) = Kept(f, x, q, lines)
<1>1. ~\E i \in DOMAIN q.clauses : q.clauses[i].op = "stats"
  BY DEF Asks, Range
<1> QED BY <1>1 DEF AllRows

\* Every line counts in the row of its group, and the row counts the lines of it.
Counted(kept, key, rows) ==
  /\ key \in [kept -> rows]
  /\ \A r \in rows : \E rec \in kept : r = key[rec]
  /\ \A rec \in kept : /\ key[rec].n = Cardinality({o \in kept : key[o] = key[rec]})
                       /\ key[rec].lastTs = Max({o.at : o \in {p \in kept : key[p] = key[rec]}})

\* That is so of the rows of a query, each of the lines that agree on its names.
Grouped(f, x, q, lines, by, key) ==
  /\ Counted(Kept(f, x, q, lines), key, AllRows(f, x, q, lines))
  /\ \A rec \in Kept(f, x, q, lines), name \in by : key[rec].by[name] = GroupValue(f, x, q, rec, name)

LEMMA CountedRows ==
  ASSUME NEW f, NEW x, NEW q, NEW lines, NEW whens, NEW by, Asks(q.clauses, whens, by, TRUE)
  PROVE  \E key : Grouped(f, x, q, lines, by, key)
<1> DEFINE kept == Kept(f, x, q, lines)
           names == UNION {q.clauses[i].by : i \in DOMAIN q.clauses}
           group == [rec \in kept |-> [name \in names |-> GroupValue(f, x, q, rec, name)]]
           Row(g) == LET in == {rec \in kept : group[rec] = g}
                         times == UNION {Latency(f, rec) : rec \in in \cap {r \in in : q.id = "pod.traffic"}}
                     IN  [by |-> g, n |-> Cardinality(in), lastTs |-> Max({rec.at : rec \in in}),
                          requests |-> IF q.id # "pod.traffic" THEN 0
                                       ELSE Cardinality({rec \in in : AccessField(f, rec, "status") # {}}),
                          latencySamples |-> IF q.id # "pod.traffic" THEN 0
                                             ELSE Cardinality({rec \in in : Latency(f, rec) # {}}),
                          p50 |-> IF times = {} THEN {} ELSE {Min(times)},
                          p90 |-> IF times = {} THEN {} ELSE {Max(times)},
                          p99 |-> IF times = {} THEN {} ELSE {Max(times)}]
           In(g) == {rec \in kept : group[rec] = g}
           Ats(set) == {rec.at : rec \in set}
           key == [rec \in kept |-> Row(group[rec])]
           rows == AllRows(f, x, q, lines)
<1>1. names = by
  BY DEF Asks, Range
<1>2. \E i \in DOMAIN q.clauses : q.clauses[i].op = "stats"
  BY DEF Asks, Range
<1>3. rows = {Row(group[rec]) : rec \in kept}
  BY <1>2 DEF AllRows
<1>4. \A g : /\ Row(g).by = g
             /\ Row(g).n = Cardinality(In(g))
             /\ Row(g).lastTs = Max(Ats(In(g)))
  OBVIOUS
<1> HIDE DEF Row, rows, kept, names
<1>5. \A rec, o \in kept : key[o] = key[rec] <=> group[o] = group[rec]
  <2> HIDE DEF group
  <2> QED BY <1>4
<1>6. \A rec \in kept : key[rec] = Row(group[rec]) /\ group[rec] = [name \in by |-> GroupValue(f, x, q, rec, name)]
  BY <1>1
<1>7. key \in [kept -> rows]
  BY <1>3
<1>8. \A r \in rows : \E rec \in kept : r = key[rec]
  BY <1>3
<1> HIDE DEF key, group
<1>9. \A rec \in kept : In(group[rec]) = {o \in kept : key[o] = key[rec]}
  BY <1>5
<1> HIDE DEF In
<1>10. Counted(kept, key, rows)
  <2>1. ASSUME NEW rec \in kept
        PROVE  /\ key[rec].n = Cardinality({o \in kept : key[o] = key[rec]})
               /\ key[rec].lastTs = Max(Ats({o \in kept : key[o] = key[rec]}))
    BY <1>4, <1>6, <1>9
  <2> QED BY <1>7, <1>8, <2>1 DEF Counted
<1>11. \A rec \in kept, name \in by : key[rec].by[name] = GroupValue(f, x, q, rec, name)
  <2> TAKE rec \in kept, name \in by
  <2>1. key[rec].by = group[rec]
    BY <1>4, <1>6
  <2>2. group[rec][name] = GroupValue(f, x, q, rec, name)
    BY <1>6
  <2> QED BY <2>1, <2>2
<1>12. Grouped(f, x, q, lines, by, key)
  BY <1>10, <1>11 DEF Grouped, kept, rows
<1> QED BY <1>12

\* An answer that is not taken for a cut one is whole.
LEMMA WholeAnswer ==
  ASSUME NEW f, NEW x, NEW q, NEW lines, NEW rows \in Answers(f, x, q, lines), ~Truncated(q, rows),
         q.limit \in Nat
  PROVE  rows = AllRows(f, x, q, lines)
<1>1. Cap(q) \in Nat
  BY LogRowsAssumption DEF Cap
<1>2. ASSUME ~Bounded(q), ~(Cardinality(AllRows(f, x, q, lines)) <= Cap(q))
      PROVE  FALSE
  <2>1. rows \in kSubset(Cap(q), AllRows(f, x, q, lines))
    BY <1>2 DEF Answers
  <2>2. Cardinality(rows) = Cap(q)
    BY <2>1 DEF kSubset
  <2>3. Cardinality(rows) >= Cap(q)
    BY <1>1, <2>2
  <2> QED BY <1>2, <2>3 DEF Truncated
<1> QED BY <1>2 DEF Answers

\* A cut answer is fewer of the rows.
LEMMA CutAnswer ==
  ASSUME NEW f, NEW x, NEW q, NEW lines, NEW rows \in Answers(f, x, q, lines),
         IsFiniteSet(AllRows(f, x, q, lines))
  PROVE  /\ rows \subseteq AllRows(f, x, q, lines)
         /\ rows # AllRows(f, x, q, lines) =>
              ~Bounded(q) /\ Cardinality(rows) < Cardinality(AllRows(f, x, q, lines))
<1> DEFINE all == AllRows(f, x, q, lines)
<1>1. rows \in SUBSET all
  BY DEF Answers, kSubset
<1>2. rows # all => ~Bounded(q)
  BY DEF Answers
<1> HIDE DEF all
<1>3. IsFiniteSet(all)
  BY DEF all
<1>4. /\ IsFiniteSet(rows)
      /\ Cardinality(rows) <= Cardinality(all)
      /\ Cardinality(all) = Cardinality(rows) => all = rows
  BY <1>1, <1>3, FS_Subset
<1>5. Cardinality(rows) \in Nat /\ Cardinality(all) \in Nat
  BY <1>3, <1>4, FS_CardinalityType
<1>6. rows # all => Cardinality(rows) < Cardinality(all)
  BY <1>4, <1>5
<1> QED BY <1>1, <1>2, <1>6 DEF all

\* The sum over some rows is the number of the lines that count in them.
LEMMA SumOfRows ==
  ASSUME NEW kept, IsFiniteSet(kept), NEW key, NEW rows, Counted(kept, key, rows), NEW S \in SUBSET rows
  PROVE  SumOf(S, "n") = Cardinality({rec \in kept : key[rec] \in S})
<1> DEFINE T == {rec \in kept : key[rec] \in S}
           k == [rec \in T |-> key[rec]]
<1>1. T \in SUBSET kept /\ k \in [T -> S]
  OBVIOUS
<1>2. IsFiniteSet(T)
  BY <1>1, FS_Subset
<1>3. \A r \in S : \E rec \in T : k[rec] = r
  BY DEF Counted
<1>4. IsFiniteSet(S)
  <2>1. k \in Surjection(T, S)
    BY <1>1, <1>3 DEF Surjection
  <2> HIDE DEF T, k
  <2> QED BY <1>2, <2>1, FS_Surjection
<1>5. \A r \in S : r.n = Cardinality({t \in T : k[t] = r})
  <2> TAKE r \in S
  <2>1. PICK rec \in kept : key[rec] = r
    BY DEF Counted
  <2>2. {o \in kept : key[o] = key[rec]} = {t \in T : k[t] = r}
    BY <2>1
  <2>3. r.n = Cardinality({o \in kept : key[o] = key[rec]})
    BY <2>1 DEF Counted
  <2> QED BY <2>2, <2>3
<1> HIDE DEF T, k
<1>6. \A r \in S : r["n"] = Cardinality({t \in T : k[t] = r})
  BY <1>5
<1>7. SumOf(S, "n") = Cardinality(T)
  BY <1>1, <1>2, <1>4, <1>6, CountedOnce
<1> QED BY <1>7 DEF T

-----------------------------------------------------------------------------
(* The lines of a window.                                                    *)

\* Integer division, as far as a window needs it.
LEMMA Division ==
  ASSUME NEW a \in Int, NEW p \in Nat \ {0}
  PROVE  /\ a \div p \in Int
         /\ p * (a \div p) = (a \div p) * p
         /\ p * (a \div p) <= a
         /\ a < p * (a \div p) + p
         /\ a % p = 0 => a = p * (a \div p)
<1>1. a % p = a - p * (a \div p) /\ a % p \in 0 .. p - 1
  OBVIOUS
<1> QED BY <1>1

LEMMA WholeTimes ==
  ASSUME NEW p \in Nat \ {0}, NEW a \in Int, NEW b \in Int
  PROVE  /\ p * a \in Int /\ p * b \in Int
         /\ p * a < p * b + p => a <= b
         /\ a <= b => p * a <= p * b
         /\ p * a - p * b = p * (a - b)
  OBVIOUS

\* A window contains its start and not its end.  A time of it is put in a bucket of
\* it, and its end in none.
LEMMA EdgesOfWindow ==
  ASSUME NEW x \in Windows, NEW at \in Nat
  PROVE  /\ x.start \in Int /\ x.end \in Nat
         /\ contains(x, at) <=> at \in x.start..(x.end - 1)
         /\ at \in x.start..x.end => (contains(x, align(x, at)) <=> at < x.end)
<1> DEFINE p == x.period
           e == x.end \div p
           r == x.range \div p
           d == at \div p
<1>1. /\ x.end \in Nat /\ x.range \in Nat /\ x.period \in Nat
      /\ x \in newWindow(x.end, x.range, x.period)
  BY LogRowsAssumption
<1>2. /\ validateWindow(x.range, p)
      /\ x.start = e * p - x.range /\ x.end = e * p
  BY <1>1 DEF newWindow
<1>3. p \in Nat \ {0} /\ x.range % p = 0
  BY <1>1, <1>2 DEF validateWindow
<1>4. /\ e \in Int /\ r \in Int /\ d \in Int
      /\ x.range = p * r /\ x.end = p * e
      /\ p * d <= at /\ at < p * d + p /\ align(x, at) = p * d
  <2>1. x.end \in Int /\ x.range \in Int /\ at \in Int
    BY <1>1
  <2>2. e \in Int /\ p * e = e * p
    BY <1>3, <2>1, Division
  <2>3. r \in Int /\ x.range = p * r
    BY <1>3, <2>1, Division
  <2>4. d \in Int /\ p * d <= at /\ at < p * d + p /\ p * d = d * p
    BY <1>3, <2>1, Division
  <2> HIDE DEF e, r
  <2>5. align(x, at) = d * p
    BY DEF align
  <2> HIDE DEF d, p
  <2> QED BY <1>2, <2>2, <2>3, <2>4, <2>5
<1>5. x.start = p * (e - r)
  BY <1>1, <1>2, <1>3, <1>4, WholeTimes
<1> HIDE DEF p, e, r, d
<1>6. p * d \in Int /\ p * (e - r) \in Int /\ p * e \in Int
  BY <1>3, <1>4, WholeTimes
<1>7. \A t \in Int : contains(x, t) <=> t \in x.start..(x.end - 1)
  BY <1>1, <1>4, <1>5, <1>6 DEF contains, indexOf
<1>8. ASSUME at \in x.start..x.end
      PROVE  contains(x, p * d) <=> at < x.end
  <2>1. at >= p * (e - r) /\ at <= p * e
    BY <1>4, <1>5, <1>6, <1>8
  <2>2. p * (e - r) < p * d + p
    BY <1>3, <1>4, <1>6, <2>1
  <2>3. e - r <= d
    BY <1>3, <1>4, <2>2, WholeTimes
  <2>4. p * (e - r) <= p * d
    BY <1>3, <1>4, <2>3, WholeTimes
  <2>5. CASE at < x.end
    BY <1>4, <1>5, <1>6, <1>7, <2>4, <2>5
  <2>6. CASE ~(at < x.end)
    <3>1. at = p * e
      BY <1>4, <1>6, <2>1, <2>6
    <3>2. p * e < p * d + p
      BY <1>4, <3>1
    <3>3. p * e <= p * d
      BY <1>3, <1>4, <3>2, WholeTimes
    <3> QED BY <1>4, <1>5, <1>6, <1>7, <2>6, <3>3
  <2> QED BY <2>5, <2>6
<1> QED BY <1>1, <1>4, <1>5, <1>6, <1>7, <1>8

\* The fact of a line, told from the line, is what the queries read.
LEMMA FactsRead ==
  ASSUME NEW rec, NEW fact \in Facts
  PROVE  AccessField(cfg.logFormat, rec, fact) =
           {rec.says[x] : x \in {y \in {fact} \cap DOMAIN rec.says : Readable(rec, y)}}
<1> DEFINE f == cfg.logFormat
           read == {y \in {fact} \cap DOMAIN rec.says : Readable(rec, y)}
<1>1. CASE rec.form = "gin"
  <2>1. JsonField(f, rec, fact) = {}
    BY <1>1 DEF JsonField
  <2>2. GinField(f, rec, fact) = {rec.says[x] : x \in read}
    BY <1>1 DEF GinField, Readable
  <2> QED BY <2>1, <2>2 DEF AccessField, Coalesce
<1>2. CASE rec.form # "gin"
  <2>1. GinField(f, rec, fact) = {}
    BY <1>2 DEF GinField
  <2>2. JsonField(f, rec, fact) = {rec.says[x] : x \in read}
    BY <1>2 DEF JsonField, Readable
  <2> QED BY <2>1, <2>2 DEF AccessField, Coalesce
<1> QED BY <1>1, <1>2

LEMMA ConcernsRead ==
  ASSUME NEW q, NEW rec
  PROVE  (\A when \in Narrowed(cfg.logFormat) : Passes(cfg.logFormat, q, rec, when)) <=> Concerns(rec)
<1> DEFINE f == cfg.logFormat
           Spared(t) == requestPath(t) \notin {<<p>> : p \in f.excludePaths}
<1>1. Passes(f, q, rec, "namespace") <=> rec.namespace = f.namespace
  BY DEF Passes
<1>2. Passes(f, q, rec, "probes") <=> PathOf(f, rec) \cap f.excludePaths = {}
  BY DEF Passes
<1>3. AccessField(f, rec, "path") =
        {rec.says[x] : x \in {y \in {"path"} \cap DOMAIN rec.says : Readable(rec, y)}}
  BY FactsRead DEF Facts
<1>4. PathOf(f, rec) \cap f.excludePaths = {} <=>
        ("path" \in DOMAIN rec.says /\ Readable(rec, "path") => Spared(rec.says["path"]))
  <2>1. CASE "path" \in DOMAIN rec.says /\ Readable(rec, "path")
    <3> DEFINE t == rec.says["path"]
    <3>1. AccessField(f, rec, "path") = {t}
      BY <1>3, <2>1
    <3> HIDE DEF t
    <3>2. CASE t = <<>>
      <4>1. PathOf(f, rec) = {}
        BY <3>1, <3>2 DEF PathOf
      <4>2. Spared(t)
        BY <3>2 DEF requestPath
      <4> QED BY <2>1, <4>1, <4>2 DEF t
    <3>3. CASE t # <<>>
      <4>1. PathOf(f, rec) = {t[1]}
        BY <3>1, <3>3 DEF PathOf
      <4>2. Spared(t) <=> t[1] \notin f.excludePaths
        BY <3>3 DEF requestPath
      <4> QED BY <2>1, <4>1, <4>2 DEF t
    <3> QED BY <3>2, <3>3
  <2>2. CASE ~("path" \in DOMAIN rec.says /\ Readable(rec, "path"))
    <3>1. AccessField(f, rec, "path") = {}
      BY <1>3, <2>2
    <3> QED BY <2>2, <3>1 DEF PathOf
  <2> QED BY <2>1, <2>2
<1>5. f.excludePaths = {} => PathOf(f, rec) \cap f.excludePaths = {}
  OBVIOUS
<1>6. (\A when \in Narrowed(f) : Passes(f, q, rec, when)) <=>
        /\ f.namespace = "" \/ rec.namespace = f.namespace
        /\ PathOf(f, rec) \cap f.excludePaths = {}
  BY <1>1, <1>2, <1>5 DEF Narrowed
<1>7. Concerns(rec) <=> /\ f.namespace = "" \/ rec.namespace = f.namespace
                        /\ "path" \in DOMAIN rec.says /\ Readable(rec, "path") => Spared(rec.says["path"])
  BY DEF Concerns
<1> QED BY <1>4, <1>6, <1>7

\* A query of bad answers keeps the bad lines of the window.
LEMMA BadKept ==
  ASSUME NEW q, NEW by, NEW counts, Asks(q.clauses, Narrowed(cfg.logFormat) \cup {"bad"}, by, counts)
  PROVE  Kept(cfg.logFormat, w, q, logs) = BadLines(w.end)
<1> DEFINE f == cfg.logFormat
<1> DEFINE whens == Narrowed(f) \cup {"bad"}
<1>0. Asks(q.clauses, whens, by, counts)
  OBVIOUS
<1> HIDE DEF whens
<1>1. \A rec : rec \in Kept(f, w, q, logs) <=>
        rec \in logs /\ rec.at \in w.start..w.end /\ \A when \in whens : Passes(f, q, rec, when)
  BY <1>0, KeptIs
<1>2. ASSUME NEW rec \in logs
      PROVE  Passes(f, q, rec, "bad") <=> StatusOf(rec) \ f.okStatuses # {}
  <2>1. Passes(f, q, rec, "bad") <=> \E s \in AccessField(f, rec, "status") : notInStatuses(f, s)
    BY DEF Passes
  <2>2. AccessField(f, rec, "status") = StatusOf(rec)
    BY FactsRead DEF StatusOf, Facts
  <2> QED BY <2>1, <2>2 DEF notInStatuses
<1>3. ASSUME NEW rec \in logs
      PROVE  (\A when \in whens : Passes(f, q, rec, when)) <=>
               Concerns(rec) /\ StatusOf(rec) \ f.okStatuses # {}
  BY <1>2, <1>3, ConcernsRead DEF whens
<1> QED BY <1>1, <1>3 DEF BadLines

\* What a query of a chart counts in the rows of its buckets is every line it keeps
\* but those of the very end of the window.
LEMMA ChartCounts ==
  ASSUME w \in Windows, IsFiniteSet(logs), \A rec \in logs : rec.at \in Nat,
         NEW q, NEW whens, NEW by, Asks(q.clauses, whens, by, TRUE), "t" \in by
  PROVE  SumOf(Charted(AllRows(cfg.logFormat, w, q, logs)), "n") =
           Cardinality({rec \in Kept(cfg.logFormat, w, q, logs) : rec.at < w.end})
<1> DEFINE f == cfg.logFormat
           kept == Kept(f, w, q, logs)
           rows == AllRows(f, w, q, logs)
           S == Charted(rows)
<1>0. PICK key : Grouped(f, w, q, logs, by, key)
  BY CountedRows
<1>1. /\ Counted(kept, key, rows)
      /\ \A rec \in kept, name \in by : key[rec].by[name] = GroupValue(f, w, q, rec, name)
  BY <1>0 DEF Grouped
<1>2. kept \in SUBSET logs /\ \A rec \in kept : rec.at \in Nat /\ rec.at \in w.start..w.end
  BY DEF Kept
<1>3. IsFiniteSet(kept)
  BY <1>2, FS_Subset
<1>4. \A rec \in kept : key[rec].by["t"] = {align(w, rec.at)}
  <2>1. \A rec : GroupValue(f, w, q, rec, "t") = {align(w, rec.at)}
    BY DEF GroupValue
  <2> QED BY <1>1, <2>1
<1>5. \A rec \in kept : The(key[rec].by["t"]) = align(w, rec.at)
  BY <1>4 DEF The
<1>6. \A rec \in kept : key[rec] \in rows
  BY <1>1 DEF Counted
<1> HIDE DEF kept, rows
<1>7. \A rec \in kept : key[rec] \in S <=> rec.at < w.end
  BY <1>2, <1>5, <1>6, EdgesOfWindow DEF Charted
<1>8. S \in SUBSET rows
  BY DEF Charted
<1>9. SumOf(S, "n") = Cardinality({rec \in kept : key[rec] \in S})
  BY <1>1, <1>3, <1>8, SumOfRows
<1>10. {rec \in kept : key[rec] \in S} = {rec \in kept : rec.at < w.end}
  BY <1>7
<1> QED BY <1>9, <1>10 DEF kept, rows

-----------------------------------------------------------------------------
(* The panels.                                                               *)

PanelFields == {"id", "series", "stats", "table", "bars", "warnings"}

\* A sequence of a set has its elements.
LEMMA SetListed ==
  ASSUME NEW S, IsFiniteSet(S)
  PROVE  SetToSeq(S) \in Seq(S) /\ (S # {} => SetToSeq(S) # <<>>)
<1> DEFINE n == Cardinality(S)
<1>1. n \in Nat /\ ExistsBijection(1..n, S)
  BY FS_CardinalityType
<1>2. \E f \in [1..n -> S] : IsInjective(f)
  BY <1>1 DEF ExistsBijection, Bijection, Injection
<1>3. SetToSeq(S) \in [1..n -> S]
  BY <1>2 DEF SetToSeq
<1>4. SetToSeq(S) \in Seq(S) /\ Len(SetToSeq(S)) = n
  BY <1>1, <1>3
<1>5. S # {} => n # 0
  BY FS_EmptySet
<1> QED BY <1>4, <1>5

\* Without a warning no query failed, and there is a log group to ask.
LEMMA ErrorsNoted ==
  ASSUME IsFiniteSet(errors), NEW p, p = noteQueryErrors(newPanel(kind))
  PROVE  /\ DOMAIN p = PanelFields
         /\ \E S : p.warnings \in Seq(S)
         /\ p.warnings = <<>> => errors = {} /\ (Group # "" \/ Queries = {})
<1> DEFINE e == newPanel(kind)
           m == {<<"failed", id>> : id \in errors}
<1>1. DOMAIN e = PanelFields /\ e.warnings = <<>>
  BY DEF newPanel, PanelFields
<1> HIDE DEF e
<1>2. CASE Group = "" /\ Queries # {}
  <2>1. p = [e EXCEPT !.warnings = Append(e.warnings, <<"missing">>)]
    BY <1>2 DEF noteQueryErrors, warn, e
  <2>2. p.warnings = Append(<<>>, <<"missing">>) /\ DOMAIN p = PanelFields
    BY <1>1, <2>1 DEF PanelFields
  <2>3. <<>> \in Seq({<<"missing">>})
    OBVIOUS
  <2>4. p.warnings \in Seq({<<"missing">>}) /\ p.warnings # <<>>
    BY <2>2, <2>3
  <2> QED BY <2>2, <2>4
<1>3. CASE ~(Group = "" /\ Queries # {})
  <2>1. p = [e EXCEPT !.warnings = e.warnings \o SetToSeq(m)]
    BY <1>3 DEF noteQueryErrors, e
  <2>2. p.warnings = <<>> \o SetToSeq(m) /\ DOMAIN p = PanelFields
    BY <1>1, <2>1 DEF PanelFields
  <2>3. IsFiniteSet(m)
    <3> DEFINE f == [id \in errors |-> <<"failed", id>>]
    <3>1. f \in Surjection(errors, m)
      BY DEF Surjection
    <3> HIDE DEF f, m
    <3> QED BY <3>1, FS_Surjection
  <2>4. errors # {} => m # {}
    OBVIOUS
  <2> HIDE DEF m
  <2>5. SetToSeq(m) \in Seq(m) /\ (m # {} => SetToSeq(m) # <<>>)
    BY <2>3, SetListed
  <2>6. p.warnings = SetToSeq(m)
    BY <2>2, <2>5
  <2> QED BY <1>3, <2>2, <2>4, <2>5, <2>6
<1> QED BY <1>2, <1>3

LEMMA CutNoted ==
  ASSUME NEW p, DOMAIN p = PanelFields, \E S : p.warnings \in Seq(S), NEW id, NEW c, c = warnIfTruncated(p, id)
  PROVE  /\ DOMAIN c = PanelFields
         /\ c.warnings = <<>> => /\ p.warnings = <<>>
                                 /\ ~(id \in DOMAIN results /\ results[id].truncated)
<1>1. CASE id \in DOMAIN results /\ results[id].truncated
  <2>1. c = [p EXCEPT !.warnings = Append(p.warnings, <<"cut", id>>)]
    BY <1>1 DEF warnIfTruncated, warn
  <2>2. c.warnings = Append(p.warnings, <<"cut", id>>) /\ DOMAIN c = PanelFields
    BY <2>1 DEF PanelFields
  <2>3. PICK S : p.warnings \in Seq(S)
    OBVIOUS
  <2>4. c.warnings # <<>>
    BY <2>2, <2>3
  <2> QED BY <2>2, <2>4
<1>2. CASE ~(id \in DOMAIN results /\ results[id].truncated)
  BY <1>2 DEF warnIfTruncated
<1> QED BY <1>1, <1>2

\* What a query ended with.
Answer(q, got) ==
  /\ got.rows \in Answers(cfg.logFormat, w, q, logs)
  /\ got.truncated <=> Truncated(q, got.rows)
  /\ got.cut <=> got.rows # AllRows(cfg.logFormat, w, q, logs)

\* What stays so while a panel gets its rows.
AnswersInv ==
  /\ w \in Windows
  /\ logs \in LogSets
  /\ cfg.logRows \in Nat /\ cfg.topN \in Nat
  /\ IsFiniteSet(errors)
  /\ \A id \in DOMAIN results : page # <<>> /\ \E q \in Queries : id = KeyOf(q) /\ Answer(q, results[id])

\* A panel can be built.
Ready == page # <<>> /\ ~Throws /\ (Group = "" \/ Waiting = {})

\* A panel without a warning has an answer to each of its queries.
LEMMA AllAnswered ==
  ASSUME Ready, errors = {}, Group # "" \/ Queries = {}, NEW q \in Queries
  PROVE  KeyOf(q) \in DOMAIN results
  BY DEF Ready, Waiting

\* The lines of the log group are finitely many, with a time each.
LEMMA LinesOfLogs ==
  ASSUME AnswersInv
  PROVE  w \in Windows /\ IsFiniteSet(logs) /\ (\A rec \in logs : rec.at \in Nat) /\ w.end \in Nat
  BY LogRowsAssumption DEF AnswersInv

\* Queries that ask the same keep the same lines.
LEMMA SameKept ==
  ASSUME NEW f, NEW x, NEW lines, NEW whens, "header" \notin whens,
         NEW q, NEW by, NEW counts, Asks(q.clauses, whens, by, counts),
         NEW o, NEW by2, NEW counts2, Asks(o.clauses, whens, by2, counts2)
  PROVE  Kept(f, x, q, lines) = Kept(f, x, o, lines)
<1>1. ASSUME NEW rec, NEW when \in whens
      PROVE  Passes(f, q, rec, when) <=> Passes(f, o, rec, when)
  BY DEF Passes
<1>2. \A rec : rec \in Kept(f, x, q, lines) <=>
        rec \in lines /\ rec.at \in x.start..x.end /\ \A when \in whens : Passes(f, q, rec, when)
  BY KeptIs
<1>3. \A rec : rec \in Kept(f, x, o, lines) <=>
        rec \in lines /\ rec.at \in x.start..x.end /\ \A when \in whens : Passes(f, o, rec, when)
  BY KeptIs
<1>4. \A rec : rec \in Kept(f, x, q, lines) <=> rec \in Kept(f, x, o, lines)
  BY <1>1, <1>2, <1>3
<1> QED BY <1>4

\* The rows of a list in order are rows of it.
LEMMA NewestListed ==
  ASSUME NEW rows, IsFiniteSet(rows), \A rec \in rows : rec.at \in Nat
  PROVE  Newest(rows) \in Seq(rows)
<1>1. \A rec \in rows : rec["at"] \in Int
  OBVIOUS
<1>2. Descending(rows, "at") \in [1..Cardinality(rows) -> rows]
  BY <1>1, InOrder
<1>3. Cardinality(rows) \in Nat
  BY FS_CardinalityType
<1> DEFINE n == Cardinality(rows)
<1> HIDE DEF n
<1>4. n \in Nat /\ Descending(rows, "at") \in [1..n -> rows]
  BY <1>2, <1>3 DEF n
<1> QED BY <1>4 DEF Newest

\* The rows of a list in order are as many as they are.
LEMMA NewestIsAll ==
  ASSUME NEW rows, IsFiniteSet(rows), \A rec \in rows : rec.at \in Nat
  PROVE  Cardinality(rows) \in Nat /\ Len(Newest(rows)) = Cardinality(rows)
<1>1. \A rec \in rows : rec["at"] \in Int
  OBVIOUS
<1>2. Descending(rows, "at") \in [1..Cardinality(rows) -> rows]
  BY <1>1, InOrder
<1>3. Cardinality(rows) \in Nat
  BY FS_CardinalityType
<1> QED BY <1>2, <1>3 DEF Newest

\* The rows of a list that was cut are fewer than its chart counts, when no line is
\* of the very end of the window.
LEMMA CutListIsShort ==
  ASSUME AnswersInv, \A rec \in logs : rec.at # w.end,
         NEW whens, "header" \notin whens,
         NEW q, NEW by, "t" \in by, Asks(q.clauses, whens, by, TRUE),
         NEW o, Asks(o.clauses, whens, {}, FALSE), NEW got, Answer(o, got)
  PROVE  LET total == SumOf(Charted(AllRows(cfg.logFormat, w, q, logs)), "n")
             shown == Len(Newest(got.rows))
         IN  got.cut => newTable(Newest(got.rows), honestTotal(total, shown), cfg.logRows).truncated
<1> DEFINE f == cfg.logFormat
           all == AllRows(f, w, o, logs)
           total == SumOf(Charted(AllRows(f, w, q, logs)), "n")
           list == Newest(got.rows)
<1> SUFFICES ASSUME got.cut PROVE newTable(list, honestTotal(total, Len(list)), cfg.logRows).truncated
  OBVIOUS
<1>1. w \in Windows /\ IsFiniteSet(logs) /\ (\A rec \in logs : rec.at \in Nat) /\ w.end \in Nat
  BY LinesOfLogs
<1>2. all = Kept(f, w, o, logs)
  BY ListedRows
<1>3. Kept(f, w, o, logs) = Kept(f, w, q, logs)
  BY SameKept
<1>4. all \in SUBSET logs /\ \A rec \in all : rec.at \in w.start..w.end
  BY <1>2 DEF Kept
<1>5. IsFiniteSet(all)
  BY <1>1, <1>4, FS_Subset
<1>6. got.rows \in Answers(f, w, o, logs) /\ got.rows # all
  BY DEF Answer
<1>7. got.rows \subseteq all /\ Cardinality(got.rows) < Cardinality(all)
  BY <1>5, <1>6, CutAnswer
<1>8. total = Cardinality({rec \in Kept(f, w, q, logs) : rec.at < w.end})
  BY <1>1, ChartCounts
<1> HIDE DEF total, all, list
<1>9. {rec \in Kept(f, w, q, logs) : rec.at < w.end} = all
  <2>1. \A rec \in all : rec.at < w.end
    BY <1>1, <1>4
  <2> QED BY <1>2, <1>3, <2>1
<1>10. total = Cardinality(all) /\ Cardinality(all) \in Nat
  BY <1>5, <1>8, <1>9, FS_CardinalityType
<1>11. IsFiniteSet(got.rows) /\ \A rec \in got.rows : rec.at \in Nat
  BY <1>1, <1>4, <1>5, <1>7, FS_Subset
<1>12. Cardinality(got.rows) \in Nat /\ Len(list) = Cardinality(got.rows)
  BY <1>11, NewestIsAll DEF list
<1>13. honestTotal(total, Len(list)) = total /\ total > Len(list)
  BY <1>7, <1>10, <1>12 DEF honestTotal
<1> QED BY <1>13 DEF newTable

\* The queries of the panels that count.
LEMMA QueriesAre ==
  LET f == cfg.logFormat
  IN  /\ kind = "pod-status-codes" =>
           /\ Queries = podBadStatusSeries(f) \cup podBadStatusList(f, cfg.logRows)
           /\ ~Throws => podBadStatusSeries(f) # {}
      /\ kind = "pod-status-breakdown" /\ "path" \in f.named =>
           /\ Queries = podBadStatusByPath(f)
           /\ ~Throws => podBadStatusByPath(f) # {}
      /\ kind = "pod-errors" =>
           /\ Queries = podErrorSeries(f) \cup podErrorList(f, cfg.logRows)
           /\ ~Throws => podErrorSeries(f) # {}
      /\ kind = "waf-traffic" => Queries = {wafActionSeries} \cup wafRecentList(cfg.logRows)
<1> DEFINE f == cfg.logFormat
<1>1. \A a, b : Range(<<a, b>>) = {a, b} /\ UNION {a, b} = a \cup b
  BY DEF Range
<1>2. \A a : Range(<<a>>) = {a} /\ UNION {a} = a
  BY DEF Range
<1>3. CASE kind = "pod-status-codes"
  <2>1. PanelQueries = <<podBadStatusSeries(f), podBadStatusList(f, cfg.logRows)>>
    BY <1>3 DEF PanelQueries
  <2>2. Queries = podBadStatusSeries(f) \cup podBadStatusList(f, cfg.logRows)
    BY <1>1, <2>1 DEF Queries
  <2>3. podBadStatusSeries(f) = {} => Throws
    BY <1>3, <2>1 DEF Throws
  <2> QED BY <1>3, <2>2, <2>3
<1>4. CASE kind = "pod-status-breakdown"
  <2> SUFFICES ASSUME "path" \in f.named
               PROVE  Queries = podBadStatusByPath(f) /\ (podBadStatusByPath(f) = {} => Throws)
    BY <1>4
  <2>1. PanelQueries = <<podBadStatusByPath(f)>>
    BY <1>4 DEF PanelQueries
  <2>2. Queries = podBadStatusByPath(f)
    BY <1>2, <2>1 DEF Queries
  <2>3. podBadStatusByPath(f) = {} => Throws
    BY <1>4, <2>1 DEF Throws
  <2> QED BY <2>2, <2>3
<1>5. CASE kind = "pod-errors"
  <2>1. PanelQueries = <<podErrorSeries(f), podErrorList(f, cfg.logRows)>>
    BY <1>5 DEF PanelQueries
  <2>2. Queries = podErrorSeries(f) \cup podErrorList(f, cfg.logRows)
    BY <1>1, <2>1 DEF Queries
  <2>3. podErrorSeries(f) = {} => Throws
    BY <1>5, <2>1 DEF Throws
  <2> QED BY <1>5, <2>2, <2>3
<1>6. CASE kind = "waf-traffic"
  <2>1. PanelQueries = <<{wafActionSeries}, wafRecentList(cfg.logRows)>>
    BY <1>6 DEF PanelQueries
  <2>2. Queries = {wafActionSeries} \cup wafRecentList(cfg.logRows)
    BY <1>1, <2>1 DEF Queries
  <2> QED BY <1>6, <2>2
<1> QED BY <1>3, <1>4, <1>5, <1>6

\* Bad answers before the end of the window.
LEMMA BadBefore ==
  ASSUME AnswersInv
  PROVE  {rec \in BadLines(w.end) : rec.at < w.end} = BadLines(w.end - 1)
<1>1. w \in Windows /\ (\A rec \in logs : rec.at \in Nat) /\ w.end \in Nat
  BY LinesOfLogs
<1>2. w.start \in Int
  BY <1>1, EdgesOfWindow
<1>3. \A rec \in logs : rec.at \in w.start..w.end /\ rec.at < w.end <=> rec.at \in w.start..(w.end - 1)
  BY <1>1, <1>2
<1> QED BY <1>3 DEF BadLines

LEMMA BadKeys ==
  ASSUME NEW f, NEW limit
  PROVE  /\ \A q \in podBadStatusSeries(f) :
              /\ q.limit = 0 /\ KeyOf(q) = <<"pod.badStatus.series", "">>
              /\ Asks(q.clauses, Narrowed(f) \cup {"bad"}, {"t", "status"}, TRUE)
         /\ \A q \in podBadStatusByPath(f) :
              /\ q.limit = 0 /\ KeyOf(q) = <<"pod.badStatus.byPath", "">>
              /\ Asks(q.clauses, Narrowed(f) \cup {"bad"}, {"status", "path"}, TRUE)
         /\ \A q \in podBadStatusList(f, limit) :
              /\ KeyOf(q) = <<"pod.badStatus.list", "">>
              /\ Asks(q.clauses, Narrowed(f) \cup {"bad"}, {}, FALSE)
  BY BadQueriesAsk DEF KeyOf

LEMMA ErrorKeys ==
  ASSUME NEW f, NEW limit
  PROVE  /\ \A q \in podErrorSeries(f) :
              /\ q.limit = 0 /\ KeyOf(q) = <<"pod.errors.series", "">> /\ Bounded(q)
              /\ Asks(q.clauses, Narrowed(f) \cup {"level"}, {"t", "level"}, TRUE)
         /\ \A q \in podErrorList(f, limit) :
              /\ KeyOf(q) = <<"pod.errors.list", "">>
              /\ Asks(q.clauses, Narrowed(f) \cup {"level"}, {}, FALSE)
<1>1. ASSUME NEW q \in podErrorSeries(f)
      PROVE  /\ q.limit = 0 /\ KeyOf(q) = <<"pod.errors.series", "">> /\ Bounded(q)
             /\ Asks(q.clauses, Narrowed(f) \cup {"level"}, {"t", "level"}, TRUE)
  <2>1. /\ q.id = "pod.errors.series" /\ q.limit = 0 /\ q.header = ""
        /\ Asks(q.clauses, Narrowed(f) \cup {"level"}, {"t", "level"}, TRUE)
    BY ErrorQueriesAsk
  <2> QED BY <2>1 DEF KeyOf, Bounded
<1>2. ASSUME NEW q \in podErrorList(f, limit)
      PROVE  KeyOf(q) = <<"pod.errors.list", "">> /\ Asks(q.clauses, Narrowed(f) \cup {"level"}, {}, FALSE)
  <2>1. /\ q.id = "pod.errors.list" /\ q.header = ""
        /\ Asks(q.clauses, Narrowed(f) \cup {"level"}, {}, FALSE)
    BY ErrorQueriesAsk
  <2> QED BY <2>1 DEF KeyOf
<1> QED BY <1>1, <1>2

LEMMA TrafficKeys ==
  ASSUME NEW limit
  PROVE  /\ KeyOf(wafActionSeries) = <<"waf.action.series", "">> /\ Bounded(wafActionSeries)
         /\ Asks(wafActionSeries.clauses, {}, {"t", "action"}, TRUE)
         /\ \A q \in wafRecentList(limit) :
              KeyOf(q) = <<"waf.recent.list", "">> /\ Asks(q.clauses, {}, {}, FALSE)
  BY TrafficQueriesAsk DEF KeyOf, Bounded

LEMMA ZeroCounts == 0 \in Nat
  OBVIOUS

\* The panel of the bad answers counts the bad lines, and says when its list stops.
LEMMA StatusCodesCounted ==
  ASSUME AnswersInv, Ready, kind = "pod-status-codes", NEW p, p = buildPodStatusCodePanel, p.warnings = <<>>
  PROVE  /\ p.stats["badStatus.total"] = {Cardinality(BadLines(w.end - 1))}
         /\ (\E id \in DOMAIN results : results[id].cut) /\ (\A rec \in logs : rec.at # w.end)
              => p.table[1].truncated
<1> DEFINE f == cfg.logFormat
           s == <<"pod.badStatus.series", "">>
           l == <<"pod.badStatus.list", "">>
           rows == Charted(Rows(s))
           list == Newest(Rows(l))
           total == SumOf(rows, "n")
           a == noteQueryErrors(newPanel(kind))
           b == warnIfTruncated(a, s)
           table == newTable(list, honestTotal(total, Len(list)), cfg.logRows)
<1>1. /\ DOMAIN a = PanelFields /\ \E S : a.warnings \in Seq(S)
      /\ a.warnings = <<>> => errors = {} /\ (Group # "" \/ Queries = {})
  BY ErrorsNoted DEF AnswersInv
<1> HIDE DEF a
<1>2. /\ DOMAIN b = PanelFields
      /\ b.warnings = <<>> => a.warnings = <<>> /\ ~(s \in DOMAIN results /\ results[s].truncated)
  BY <1>1, CutNoted
<1> HIDE DEF b
<1>3. p.stats = [k \in {"badStatus.total"} |-> {total}] /\ p.table = <<table>> /\ p.warnings = b.warnings
  <2>1. p = [b EXCEPT !.series = Lines(rows, "status"), !.table = <<table>>,
                      !.stats = [k \in {"badStatus.total"} |-> {total}]]
    BY DEF buildPodStatusCodePanel, a, b
  <2> HIDE DEF rows, list, total, table
  <2> QED BY <1>2, <2>1 DEF PanelFields
<1>4. p.stats["badStatus.total"] = {total} /\ p.table[1] = table
  <2> HIDE DEF total, table
  <2> QED BY <1>3
<1>5. errors = {} /\ (Group # "" \/ Queries = {}) /\ ~(s \in DOMAIN results /\ results[s].truncated)
  BY <1>1, <1>2, <1>3
<1>6. /\ Queries = podBadStatusSeries(f) \cup podBadStatusList(f, cfg.logRows)
      /\ podBadStatusSeries(f) # {}
  BY QueriesAre DEF Ready
<1>7. /\ \A q \in podBadStatusSeries(f) :
           q.limit = 0 /\ KeyOf(q) = s /\ Asks(q.clauses, Narrowed(f) \cup {"bad"}, {"t", "status"}, TRUE)
      /\ \A q \in podBadStatusList(f, cfg.logRows) :
           KeyOf(q) = l /\ Asks(q.clauses, Narrowed(f) \cup {"bad"}, {}, FALSE)
  BY BadKeys
<1>8. s # l
  OBVIOUS
<1>9. s \in DOMAIN results
  BY <1>5, <1>6, <1>7, AllAnswered
<1>10. PICK q \in podBadStatusSeries(f) : Answer(q, results[s])
  BY <1>6, <1>7, <1>8, <1>9 DEF AnswersInv
<1>11. Rows(s) = AllRows(f, w, q, logs)
  <2> DEFINE got == results[s].rows
  <2>1. got \in Answers(f, w, q, logs) /\ ~Truncated(q, got) /\ q.limit \in Nat
    <3>1. got \in Answers(f, w, q, logs)
      BY <1>10 DEF Answer
    <3>2. results[s].truncated <=> Truncated(q, got)
      BY <1>10 DEF Answer
    <3>3. q.limit = 0
      BY <1>7
    <3>4. q.limit \in Nat
      BY <3>3, ZeroCounts
    <3> QED BY <1>5, <1>9, <3>1, <3>2, <3>4
  <2> HIDE DEF got
  <2>2. got = AllRows(f, w, q, logs)
    BY <2>1, WholeAnswer
  <2> QED BY <1>9, <2>2 DEF Rows, got
<1>12. Asks(q.clauses, Narrowed(f) \cup {"bad"}, {"t", "status"}, TRUE)
  BY <1>7
<1>13. w \in Windows /\ IsFiniteSet(logs) /\ (\A rec \in logs : rec.at \in Nat) /\ w.end \in Nat
  BY LinesOfLogs
<1>14. total = Cardinality(BadLines(w.end - 1))
  <2>1. total = Cardinality({rec \in Kept(f, w, q, logs) : rec.at < w.end})
    BY <1>11, <1>12, <1>13, ChartCounts
  <2>2. Kept(f, w, q, logs) = BadLines(w.end)
    BY <1>12, BadKept
  <2> HIDE DEF total
  <2> QED BY <2>1, <2>2, BadBefore
<1>15. ASSUME NEW id \in DOMAIN results, results[id].cut, \A rec \in logs : rec.at # w.end
       PROVE  table.truncated
  <2>1. id # s
    BY <1>9, <1>10, <1>11, <1>15 DEF Answer, Rows
  <2>2. PICK o \in podBadStatusList(f, cfg.logRows) : id = KeyOf(o) /\ Answer(o, results[id])
    BY <1>6, <1>7, <1>15, <2>1 DEF AnswersInv
  <2>3. id = l /\ Asks(o.clauses, Narrowed(f) \cup {"bad"}, {}, FALSE)
    BY <1>7, <2>2
  <2>4. Rows(l) = results[id].rows
    BY <1>15, <2>3 DEF Rows
  <2>5. "header" \notin Narrowed(f) \cup {"bad"}
    BY DEF Narrowed
  <2> DEFINE whens == Narrowed(f) \cup {"bad"}
             got == results[id]
             by == {"t", "status"}
  <2>6. /\ "header" \notin whens /\ "t" \in by /\ Answer(o, got) /\ got.cut
        /\ Asks(q.clauses, whens, by, TRUE) /\ Asks(o.clauses, whens, {}, FALSE)
    BY <1>12, <1>15, <2>2, <2>3, <2>5
  <2> HIDE DEF whens, got, by
  <2>7. LET t == SumOf(Charted(AllRows(f, w, q, logs)), "n")
            shown == Len(Newest(got.rows))
        IN  newTable(Newest(got.rows), honestTotal(t, shown), cfg.logRows).truncated
    BY <1>15, <2>6, CutListIsShort
  <2> QED BY <1>11, <2>4, <2>7 DEF got
<1> HIDE DEF total, table
<1> QED BY <1>4, <1>14, <1>15

\* The answer to a chart of few values is never cut.
LEMMA BoundedAnswer ==
  ASSUME NEW q, Bounded(q), NEW got, Answer(q, got)
  PROVE  got.rows = AllRows(cfg.logFormat, w, q, logs) /\ ~got.cut
<1>1. got.rows \in Answers(cfg.logFormat, w, q, logs)
  BY DEF Answer
<1>2. got.rows = AllRows(cfg.logFormat, w, q, logs)
  BY <1>1 DEF Answers
<1> QED BY <1>2 DEF Answer

\* The panel of errors and warnings says when its list stops.
LEMMA ErrorsSaid ==
  ASSUME AnswersInv, Ready, kind = "pod-errors", NEW p, p = buildPodErrorPanel, p.warnings = <<>>,
         NEW id \in DOMAIN results, results[id].cut, \A rec \in logs : rec.at # w.end
  PROVE  p.table[1].truncated
<1> DEFINE f == cfg.logFormat
           s == <<"pod.errors.series", "">>
           l == <<"pod.errors.list", "">>
           rows == Charted(Rows(s))
           list == Newest(Rows(l))
           total == SumOf(rows, "n")
           a == noteQueryErrors(newPanel(kind))
           table == newTable(list, honestTotal(total, Len(list)), cfg.logRows)
           whens == Narrowed(f) \cup {"level"}
           by == {"t", "level"}
           got == results[id]
<1>1. /\ DOMAIN a = PanelFields /\ \E S : a.warnings \in Seq(S)
      /\ a.warnings = <<>> => errors = {} /\ (Group # "" \/ Queries = {})
  BY ErrorsNoted DEF AnswersInv
<1> HIDE DEF a
<1>2. \E lines, numbers : p = [a EXCEPT !.series = lines, !.table = <<table>>, !.stats = numbers]
  BY DEF buildPodErrorPanel, a
<1>3. p.table = <<table>> /\ p.warnings = a.warnings
  <2> HIDE DEF table
  <2> QED BY <1>1, <1>2 DEF PanelFields
<1>4. p.table[1] = table
  <2> HIDE DEF table
  <2> QED BY <1>3
<1>5. errors = {} /\ (Group # "" \/ Queries = {})
  BY <1>1, <1>3
<1>6. Queries = podErrorSeries(f) \cup podErrorList(f, cfg.logRows) /\ podErrorSeries(f) # {}
  BY QueriesAre DEF Ready
<1>7. /\ \A q \in podErrorSeries(f) : KeyOf(q) = s /\ Bounded(q) /\ Asks(q.clauses, whens, by, TRUE)
      /\ \A q \in podErrorList(f, cfg.logRows) : KeyOf(q) = l /\ Asks(q.clauses, whens, {}, FALSE)
  BY ErrorKeys
<1>8. s # l /\ "header" \notin whens /\ "t" \in by
  BY DEF Narrowed
<1> HIDE DEF whens, by
<1>9. s \in DOMAIN results
  BY <1>5, <1>6, <1>7, AllAnswered
<1>10. PICK q \in podErrorSeries(f) : Answer(q, results[s])
  BY <1>6, <1>7, <1>8, <1>9 DEF AnswersInv
<1>11. Rows(s) = AllRows(f, w, q, logs) /\ ~results[s].cut
  BY <1>7, <1>9, <1>10, BoundedAnswer DEF Rows
<1>12. PICK o \in podErrorList(f, cfg.logRows) : id = KeyOf(o) /\ Answer(o, got)
  BY <1>6, <1>7, <1>11 DEF AnswersInv
<1>13. Rows(l) = got.rows
  BY <1>7, <1>12 DEF Rows
<1>14. Asks(q.clauses, whens, by, TRUE) /\ Asks(o.clauses, whens, {}, FALSE) /\ got.cut
  BY <1>7
<1> HIDE DEF got
<1>15. LET t == SumOf(Charted(AllRows(f, w, q, logs)), "n")
           shown == Len(Newest(got.rows))
       IN  newTable(Newest(got.rows), honestTotal(t, shown), cfg.logRows).truncated
  BY <1>8, <1>12, <1>14, CutListIsShort
<1> QED BY <1>4, <1>11, <1>13, <1>15

\* The rows of an action count its lines in the buckets.
LEMMA ActionsCounted ==
  ASSUME AnswersInv, NEW action
  PROVE  LET rows == Charted(AllRows(cfg.logFormat, w, wafActionSeries, logs))
             lines == {rec \in logs : rec.action = action /\ contains(w, rec.at)}
         IN  /\ SumOf({r \in rows : r.by["action"] = {action}}, "n") = Cardinality(lines)
             /\ lines # {} => action \in {The(r.by["action"]) : r \in rows}
<1> DEFINE f == cfg.logFormat
           q == wafActionSeries
           kept == Kept(f, w, q, logs)
           all == AllRows(f, w, q, logs)
           rows == Charted(all)
           S == {r \in rows : r.by["action"] = {action}}
           lines == {rec \in logs : rec.action = action /\ contains(w, rec.at)}
           by == {"t", "action"}
<1>1. w \in Windows /\ IsFiniteSet(logs) /\ (\A rec \in logs : rec.at \in Nat) /\ w.end \in Nat
  BY LinesOfLogs
<1>2. Asks(q.clauses, {}, by, TRUE)
  BY TrafficKeys
<1>3. \A rec : rec \in kept <=> rec \in logs /\ rec.at \in w.start..w.end
  BY <1>2, KeptIs
<1> HIDE DEF by, q
<1>4. PICK key : Grouped(f, w, q, logs, by, key)
  BY <1>2, CountedRows
<1>5. /\ Counted(kept, key, all)
      /\ \A rec \in kept, name \in by : key[rec].by[name] = GroupValue(f, w, q, rec, name)
  BY <1>4 DEF Grouped
<1>6. IsFiniteSet(kept)
  <2>1. kept \in SUBSET logs
    BY <1>3
  <2> HIDE DEF kept
  <2> QED BY <1>1, <2>1, FS_Subset
<1>7. \A rec \in kept : key[rec].by["t"] = {align(w, rec.at)} /\ key[rec].by["action"] = {rec.action}
  <2>1. \A rec : /\ GroupValue(f, w, q, rec, "t") = {align(w, rec.at)}
                 /\ GroupValue(f, w, q, rec, "action") = {rec.action}
    BY DEF GroupValue
  <2>2. "t" \in by /\ "action" \in by
    BY DEF by
  <2> QED BY <1>5, <2>1, <2>2
<1>8. \A rec \in kept : key[rec] \in all
  BY <1>5 DEF Counted
<1> HIDE DEF kept, all
<1>9. \A rec \in kept : The(key[rec].by["t"]) = align(w, rec.at) /\ The(key[rec].by["action"]) = rec.action
  BY <1>7 DEF The
<1>10. \A rec \in kept : key[rec] \in rows <=> contains(w, rec.at)
  <2> TAKE rec \in kept
  <2>1. rec.at \in Nat /\ rec.at \in w.start..w.end
    BY <1>1, <1>3
  <2>2. contains(w, rec.at) <=> rec.at \in w.start..(w.end - 1)
    BY <1>1, <2>1, EdgesOfWindow
  <2>3. contains(w, align(w, rec.at)) <=> rec.at < w.end
    BY <1>1, <2>1, EdgesOfWindow
  <2>4. key[rec] \in rows <=> contains(w, align(w, rec.at))
    BY <1>8, <1>9 DEF Charted
  <2>5. w.start \in Int
    BY <1>1, EdgesOfWindow
  <2> QED BY <1>1, <2>1, <2>2, <2>3, <2>4, <2>5
<1>11. \A rec \in logs : contains(w, rec.at) => rec \in kept
  <2> TAKE rec \in logs
  <2>1. contains(w, rec.at) <=> rec.at \in w.start..(w.end - 1)
    BY <1>1, EdgesOfWindow
  <2>2. w.start \in Int
    BY <1>1, EdgesOfWindow
  <2> QED BY <1>1, <1>3, <2>1, <2>2
<1>12. S \in SUBSET all
  BY DEF Charted
<1> HIDE DEF rows
<1>13. {rec \in kept : key[rec] \in S} = lines
  <2>1. \A rec \in kept : key[rec] \in S <=> contains(w, rec.at) /\ rec.action = action
    BY <1>7, <1>10
  <2>2. \A rec : rec \in kept => rec \in logs
    BY <1>3
  <2> QED BY <1>11, <2>1, <2>2
<1>14. SumOf(S, "n") = Cardinality({rec \in kept : key[rec] \in S})
  <2> HIDE DEF S
  <2> QED BY <1>5, <1>6, <1>12, SumOfRows
<1>15. ASSUME NEW rec \in lines
       PROVE  \E r \in rows : The(r.by["action"]) = action
  BY <1>9, <1>10, <1>11
<1> HIDE DEF S, lines
<1>16. lines # {} => action \in {The(r.by["action"]) : r \in rows}
  BY <1>15
<1> QED BY <1>13, <1>14, <1>16 DEF S, lines, rows, all, q

\* Without lines there is nothing to count.
LEMMA SomeCounted ==
  ASSUME NEW S, Cardinality(S) > 0
  PROVE  S # {}
  BY FS_EmptySet

\* The panel of the WAF's traffic counts each action, and says when its list stops.
LEMMA TrafficCounted ==
  ASSUME AnswersInv, Ready, kind = "waf-traffic", NEW p, p = buildWAFTrafficPanel, p.warnings = <<>>
  PROVE  /\ \A action \in {rec.action : rec \in logs} :
              LET n == Cardinality({rec \in logs : rec.action = action /\ contains(w, rec.at)})
              IN  n > 0 => action \in DOMAIN p.stats /\ p.stats[action] = {n}
         /\ (\E id \in DOMAIN results : results[id].cut) /\ (\A rec \in logs : rec.at # w.end)
              => p.table[1].truncated
<1> DEFINE f == cfg.logFormat
           q == wafActionSeries
           s == <<"waf.action.series", "">>
           l == <<"waf.recent.list", "">>
           rows == Charted(Rows(s))
           recent == Newest(Rows(l))
           list == [i \in DOMAIN recent |->
                      [request |-> recent[i], responseCode |-> wafResponseNote(recent[i].action, recent[i].sent)]]
           total == SumOf(rows, "n")
           a == noteQueryErrors(newPanel(kind))
           table == newTable(list, honestTotal(total, Len(list)), cfg.logRows)
           stats == [action \in {The(r.by["action"]) : r \in rows} |->
                       {SumOf({r \in rows : r.by["action"] = {action}}, "n")}]
<1>1. /\ DOMAIN a = PanelFields /\ \E S : a.warnings \in Seq(S)
      /\ a.warnings = <<>> => errors = {} /\ (Group # "" \/ Queries = {})
  BY ErrorsNoted DEF AnswersInv
<1> HIDE DEF a
<1>2. p.table = <<table>> /\ p.warnings = a.warnings /\ p.stats = stats
  <2>1. p = [a EXCEPT !.series = Lines(rows, "action"), !.table = <<table>>, !.stats = stats]
    BY DEF buildWAFTrafficPanel, a
  <2> HIDE DEF rows, list, total, table, stats
  <2> QED BY <1>1, <2>1 DEF PanelFields
<1>3. p.table[1] = table
  <2> HIDE DEF table, stats
  <2> QED BY <1>2
<1>4. errors = {} /\ (Group # "" \/ Queries = {})
  <2> HIDE DEF table, stats
  <2> QED BY <1>1, <1>2
<1>5. Queries = {q} \cup wafRecentList(cfg.logRows)
  BY QueriesAre
<1>6. /\ KeyOf(q) = s /\ Bounded(q) /\ Asks(q.clauses, {}, {"t", "action"}, TRUE)
      /\ \A o \in wafRecentList(cfg.logRows) : KeyOf(o) = l /\ Asks(o.clauses, {}, {}, FALSE)
  BY TrafficKeys
<1> HIDE DEF q
<1>7. s # l
  OBVIOUS
<1>8. s \in DOMAIN results
  BY <1>4, <1>5, <1>6, AllAnswered
<1>9. Answer(q, results[s])
  BY <1>5, <1>6, <1>7, <1>8 DEF AnswersInv
<1>10. Rows(s) = AllRows(f, w, q, logs) /\ ~results[s].cut
  BY <1>6, <1>8, <1>9, BoundedAnswer DEF Rows
<1>11. ASSUME NEW action
       PROVE  LET n == Cardinality({rec \in logs : rec.action = action /\ contains(w, rec.at)})
              IN  n > 0 => action \in DOMAIN stats /\ stats[action] = {n}
  <2> DEFINE lines == {rec \in logs : rec.action = action /\ contains(w, rec.at)}
             seen == {The(r.by["action"]) : r \in rows}
             sum == SumOf({r \in rows : r.by["action"] = {action}}, "n")
  <2>1. sum = Cardinality(lines) /\ (lines # {} => action \in seen)
    BY <1>10, ActionsCounted DEF q
  <2>2. DOMAIN stats = seen /\ (action \in seen => stats[action] = {sum})
    <3> HIDE DEF rows
    <3> QED OBVIOUS
  <2> HIDE DEF lines, seen, sum, stats
  <2>3. Cardinality(lines) > 0 => lines # {}
    BY SomeCounted
  <2> QED BY <2>1, <2>2, <2>3 DEF lines
<1>12. ASSUME NEW id \in DOMAIN results, results[id].cut, \A rec \in logs : rec.at # w.end
       PROVE  table.truncated
  <2>1. PICK o \in wafRecentList(cfg.logRows) : id = KeyOf(o) /\ Answer(o, results[id])
    BY <1>5, <1>6, <1>10, <1>12 DEF AnswersInv
  <2>2. id = l /\ Asks(o.clauses, {}, {}, FALSE)
    BY <1>6, <2>1
  <2>3. Rows(l) = results[id].rows
    BY <1>12, <2>2 DEF Rows
  <2> DEFINE whens == {}
             got == results[id]
             by == {"t", "action"}
  <2>4. /\ "header" \notin whens /\ "t" \in by /\ Answer(o, got) /\ got.cut
        /\ Asks(q.clauses, whens, by, TRUE) /\ Asks(o.clauses, whens, {}, FALSE)
    BY <1>6, <1>12, <2>1, <2>2
  <2> HIDE DEF whens, got, by
  <2>5. LET t == SumOf(Charted(AllRows(f, w, q, logs)), "n")
            shown == Len(Newest(got.rows))
        IN  newTable(Newest(got.rows), honestTotal(t, shown), cfg.logRows).truncated
    BY <1>12, <2>4, CutListIsShort
  <2>6. newTable(recent, honestTotal(total, Len(recent)), cfg.logRows).truncated
    BY <1>10, <2>3, <2>5 DEF got
  <2>7. Len(list) = Len(recent)
    <3> DEFINE shown == Rows(l)
    <3>1. recent \in Seq(shown)
      <4>1. w \in Windows /\ IsFiniteSet(logs) /\ (\A rec \in logs : rec.at \in Nat) /\ w.end \in Nat
        BY LinesOfLogs
      <4>2. AllRows(f, w, o, logs) = Kept(f, w, o, logs)
        BY <2>2, ListedRows
      <4>3. AllRows(f, w, o, logs) \in SUBSET logs
        BY <4>2 DEF Kept
      <4>4. IsFiniteSet(AllRows(f, w, o, logs))
        BY <4>1, <4>3, FS_Subset
      <4>5. results[id].rows \in Answers(f, w, o, logs)
        BY <2>1 DEF Answer
      <4>6. results[id].rows \subseteq AllRows(f, w, o, logs)
        BY <4>4, <4>5, CutAnswer
      <4>7. Rows(l) \in SUBSET logs
        BY <2>3, <4>3, <4>6
      <4> HIDE DEF shown
      <4>8. shown \in SUBSET logs
        BY <4>7 DEF shown
      <4>9. IsFiniteSet(shown) /\ \A rec \in shown : rec.at \in Nat
        BY <4>1, <4>8, FS_Subset
      <4>10. Newest(shown) \in Seq(shown)
        BY <4>9, NewestListed
      <4> QED BY <4>10 DEF shown
    <3>2. DOMAIN list = DOMAIN recent
      <4> HIDE DEF recent
      <4> QED OBVIOUS
    <3> HIDE DEF list, recent, shown
    <3>3. DOMAIN recent = 1..Len(recent) /\ Len(recent) \in Nat
      BY <3>1
    <3> QED BY <3>2, <3>3
  <2> HIDE DEF recent, list, total
  <2> QED BY <2>6, <2>7 DEF newTable
<1> QED BY <1>2, <1>3, <1>11, <1>12

\* The buckets of the codes count every line that counts in a row.
LEMMA BucketsCount ==
  ASSUME NEW kept, IsFiniteSet(kept), NEW key, NEW rows, Counted(kept, key, rows)
  PROVE  SumOf(StatusBuckets(rows), "total") = Cardinality(kept)
<1> DEFINE codes == {r.by["status"] : r \in rows}
           Of1(code) == {r \in rows : r.by["status"] = code}
           Bucket(code) == [code |-> code, total |-> SumOf(Of1(code), "n"),
                            lastTs |-> Max({r.lastTs : r \in Of1(code)}),
                            paths |-> Descending({r \in Of1(code) : r.by["path"] # {}}, "n")]
           made == {Bucket(code) : code \in codes}
           CodeOf(rec) == key[rec].by["status"]
           k == [rec \in kept |-> Bucket(CodeOf(rec))]
<1>1. StatusBuckets(rows) = made
  BY DEF StatusBuckets
<1>2. \A code : Bucket(code).code = code /\ Bucket(code).total = SumOf(Of1(code), "n")
  OBVIOUS
<1>3. \A code : Of1(code) \in SUBSET rows
  OBVIOUS
<1>4. \A rec \in kept : key[rec] \in rows
  BY DEF Counted
<1>5. \A rec \in kept : CodeOf(rec) \in codes
  BY <1>4
<1>6. \A r \in rows : \E rec \in kept : r = key[rec]
  BY DEF Counted
<1>7. \A code \in codes : \E rec \in kept : CodeOf(rec) = code
  BY <1>6
<1>8. \A code : SumOf(Of1(code), "n") = Cardinality({rec \in kept : key[rec] \in Of1(code)})
  <2> HIDE DEF Of1
  <2> QED BY <1>3, SumOfRows
<1>9. \A code, rec : rec \in kept => (key[rec] \in Of1(code) <=> CodeOf(rec) = code)
  BY <1>4
<1> HIDE DEF codes, Of1, Bucket, CodeOf
<1>10. \A code : Bucket(code).total = Cardinality({rec \in kept : CodeOf(rec) = code})
  <2> TAKE code
  <2>1. {rec \in kept : key[rec] \in Of1(code)} = {rec \in kept : CodeOf(rec) = code}
    BY <1>9
  <2> QED BY <1>2, <1>8, <2>1
<1>11. \A code : {rec \in kept : CodeOf(rec) = code} = {rec \in kept : k[rec] = Bucket(code)}
  <2> TAKE code
  <2>1. \A rec \in kept : k[rec] = Bucket(CodeOf(rec))
    OBVIOUS
  <2>2. \A rec \in kept : CodeOf(rec) = code <=> k[rec] = Bucket(code)
    BY <1>2, <2>1
  <2> QED BY <2>2
<1>12. k \in [kept -> made] /\ \A b \in made : \E rec \in kept : k[rec] = b
  BY <1>5, <1>7
<1> HIDE DEF k
<1>13. \A b \in made : b["total"] = Cardinality({rec \in kept : k[rec] = b})
  BY <1>10, <1>11
<1>14. IsFiniteSet(made)
  <2>1. k \in Surjection(kept, made)
    BY <1>12 DEF Surjection
  <2> HIDE DEF made
  <2> QED BY <2>1, FS_Surjection
<1> HIDE DEF made
<1>15. SumOf(made, "total") = Cardinality(kept)
  BY <1>12, <1>13, <1>14, CountedOnce
<1> QED BY <1>1, <1>15

LEMMA OneAppended ==
  ASSUME NEW e
  PROVE  Append(<<>>, e) # <<>>
<1>1. \A S : <<>> \in Seq(S)
  OBVIOUS
<1>2. \A s : s = <<>> => Append(s, e) # <<>>
  <2> TAKE s
  <2> HAVE s = <<>>
  <2>1. s \in Seq({e}) /\ e \in {e}
    BY <1>1
  <2>2. Len(Append(s, e)) = Len(s) + 1 /\ Len(s) = 0
    BY <2>1
  <2> QED BY <2>2
<1> QED BY <1>2

\* The panel of the codes by path counts the bad lines.
LEMMA BreakdownCounted ==
  ASSUME AnswersInv, Ready, kind = "pod-status-breakdown", NEW p, p = buildPodStatusBreakdownPanel,
         p.warnings = <<>>
  PROVE  p.stats["badStatus.byPath.total"] = {Cardinality(BadLines(w.end))}
<1> DEFINE f == cfg.logFormat
           s == <<"pod.badStatus.byPath", "">>
           byPath == Rows(s)
           total == SumOf(StatusBuckets(byPath), "total")
           a == noteQueryErrors(newPanel(kind))
           b == warnIfTruncated(a, s)
<1>1. "path" \in f.named
  <2>1. SUFFICES ASSUME "path" \notin f.named PROVE FALSE
    OBVIOUS
  <2> DEFINE e == newPanel(kind)
  <2>2. p = warn(e, <<"no path field">>)
    BY <2>1 DEF buildPodStatusBreakdownPanel
  <2>3. DOMAIN e = PanelFields /\ e.warnings = <<>>
    BY DEF newPanel, PanelFields
  <2> HIDE DEF e
  <2>4. p.warnings = Append(<<>>, <<"no path field">>)
    BY <2>2, <2>3 DEF warn, PanelFields
  <2>5. Append(<<>>, <<"no path field">>) # <<>>
    BY OneAppended
  <2> QED BY <2>4, <2>5
<1>2. /\ DOMAIN a = PanelFields /\ \E S : a.warnings \in Seq(S)
      /\ a.warnings = <<>> => errors = {} /\ (Group # "" \/ Queries = {})
  BY ErrorsNoted DEF AnswersInv
<1> HIDE DEF a
<1>3. /\ DOMAIN b = PanelFields
      /\ b.warnings = <<>> => a.warnings = <<>> /\ ~(s \in DOMAIN results /\ results[s].truncated)
  BY <1>2, CutNoted
<1> HIDE DEF b
<1>4. p.stats["badStatus.byPath.total"] = {total} /\ p.warnings = b.warnings
  <2> DEFINE made == pivotStatusPaths(byPath)
             rows == [i \in DOMAIN made |->
                        [status |-> made[i].code, count |-> made[i].total, paths |-> Len(made[i].paths),
                         timestamp |-> made[i].lastTs, topPaths |-> topPathsNote(made[i], cfg.topN)]]
             table == <<newTable(rows, Len(rows), cfg.topN)>>
             stats == [k \in {"badStatus.codes", "badStatus.byPath.total"} |->
                         IF k = "badStatus.codes" THEN {Len(rows)} ELSE {total}]
  <2>1. p = [b EXCEPT !.table = table, !.bars = <<"status", "count">>, !.stats = stats]
    BY <1>1 DEF buildPodStatusBreakdownPanel, a, b
  <2>2. stats["badStatus.byPath.total"] = {total}
    <3> HIDE DEF total, rows
    <3> QED OBVIOUS
  <2> HIDE DEF total, table, stats
  <2>3. p.stats = stats /\ p.warnings = b.warnings
    BY <1>3, <2>1 DEF PanelFields
  <2> QED BY <2>2, <2>3
<1>5. errors = {} /\ (Group # "" \/ Queries = {}) /\ ~(s \in DOMAIN results /\ results[s].truncated)
  BY <1>2, <1>3, <1>4
<1>6. Queries = podBadStatusByPath(f) /\ podBadStatusByPath(f) # {}
  BY <1>1, QueriesAre DEF Ready
<1>7. \A q \in podBadStatusByPath(f) :
        q.limit = 0 /\ KeyOf(q) = s /\ Asks(q.clauses, Narrowed(f) \cup {"bad"}, {"status", "path"}, TRUE)
  BY BadKeys
<1>8. s \in DOMAIN results
  BY <1>5, <1>6, <1>7, AllAnswered
<1>9. PICK q \in podBadStatusByPath(f) : Answer(q, results[s])
  BY <1>6, <1>7, <1>8 DEF AnswersInv
<1>10. byPath = AllRows(f, w, q, logs)
  <2> DEFINE got == results[s].rows
  <2>1. got \in Answers(f, w, q, logs)
    BY <1>9 DEF Answer
  <2>2. results[s].truncated <=> Truncated(q, got)
    BY <1>9 DEF Answer
  <2>3. q.limit = 0
    BY <1>7
  <2>4. q.limit \in Nat
    BY <2>3, ZeroCounts
  <2>5. ~Truncated(q, got)
    BY <1>5, <1>8, <2>2
  <2> HIDE DEF got
  <2>6. got = AllRows(f, w, q, logs)
    BY <2>1, <2>4, <2>5, WholeAnswer
  <2> QED BY <1>8, <2>6 DEF Rows, got
<1>11. Asks(q.clauses, Narrowed(f) \cup {"bad"}, {"status", "path"}, TRUE)
  BY <1>7
<1>12. Kept(f, w, q, logs) = BadLines(w.end)
  BY <1>11, BadKept
<1> DEFINE by == {"status", "path"}
           kept == Kept(f, w, q, logs)
           all == AllRows(f, w, q, logs)
<1> HIDE DEF by
<1>13. PICK key : Grouped(f, w, q, logs, by, key)
  BY <1>11, CountedRows DEF by
<1>14. Counted(kept, key, all)
  BY <1>13 DEF Grouped
<1>15. IsFiniteSet(kept)
  <2>1. IsFiniteSet(logs)
    BY LinesOfLogs
  <2>2. kept \in SUBSET logs
    BY DEF Kept
  <2> HIDE DEF kept
  <2> QED BY <2>1, <2>2, FS_Subset
<1> HIDE DEF kept, all
<1>16. SumOf(StatusBuckets(all), "total") = Cardinality(kept)
  BY <1>14, <1>15, BucketsCount
<1>17. total = Cardinality(BadLines(w.end))
  BY <1>10, <1>12, <1>16 DEF kept, all
<1> HIDE DEF total
<1> QED BY <1>4, <1>17

-----------------------------------------------------------------------------
(* Every step of a page.                                                     *)

\* What a page promises of the panels it has built.
Promised ==
  /\ AnswersInv
  /\ NumbersOrWarnings
  /\ CutListIsSaid

LEMMA AnswersInit ==
  ASSUME RowsInit
  PROVE  AnswersInv
<1>1. cfg.logRows \in Nat /\ cfg.topN \in Nat
  <2>1. PICK c \in Configs, asked \in {{}, {"*"}} : cfg \in requestConfig(c, asked)
    BY DEF RowsInit
  <2>2. \E ns : cfg = [c EXCEPT !.logFormat.namespace = ns]
    BY <2>1 DEF requestConfig
  <2>3. cfg.logRows = c.logRows /\ cfg.topN = c.topN
    BY <2>2, LogRowsAssumption
  <2> QED BY <2>3, LogRowsAssumption
<1>2. IsFiniteSet(errors)
  BY FS_EmptySet DEF RowsInit
<1> QED BY <1>1, <1>2 DEF RowsInit, AnswersInv

\* Queries are those of the page and the settings, which stay while they are answered.
LEMMA SameQueries ==
  ASSUME UNCHANGED <<cfg, page>>
  PROVE  Queries' = Queries
<1>1. kind' = kind
  BY DEF kind
<1>2. PanelQueries' = PanelQueries
  BY <1>1 DEF PanelQueries
<1> QED BY <1>2 DEF Queries

LEMMA AnswersStep ==
  ASSUME AnswersInv, [RowsNext]_rowsVars
  PROVE  AnswersInv'
<1>1. CASE Built
  <2>1. page # <<>> /\ page' = Tail(page) /\ results' = <<>> /\ errors' = {} /\ UNCHANGED <<cfg, w, logs>>
    BY <1>1 DEF Built
  <2>2. IsFiniteSet(errors') /\ DOMAIN results' = {}
    BY <2>1, FS_EmptySet
  <2> QED BY <2>1, <2>2 DEF AnswersInv
<1>2. CASE QueryAnswered
  <2>1. UNCHANGED <<cfg, w, logs, page, errors>> /\ page # <<>>
    BY <1>2 DEF QueryAnswered
  <2>2. PICK q \in Queries : \E rows \in Answers(cfg.logFormat, w, q, logs) :
          results' = Put(results, KeyOf(q), [rows |-> rows, truncated |-> Truncated(q, rows),
                                             cut |-> rows # AllRows(cfg.logFormat, w, q, logs)])
    <3> DEFINE q == CHOOSE x \in Waiting : TRUE
    <3>1. q \in Queries
      BY <1>2 DEF QueryAnswered, Waiting
    <3> QED BY <1>2, <3>1 DEF QueryAnswered
  <2>3. PICK rows \in Answers(cfg.logFormat, w, q, logs) :
          results' = Put(results, KeyOf(q), [rows |-> rows, truncated |-> Truncated(q, rows),
                                             cut |-> rows # AllRows(cfg.logFormat, w, q, logs)])
    BY <2>2
  <2> DEFINE got == [rows |-> rows, truncated |-> Truncated(q, rows),
                     cut |-> rows # AllRows(cfg.logFormat, w, q, logs)]
  <2>4. Answer(q, got)
    BY DEF Answer
  <2> HIDE DEF got
  <2>5. results' = Put(results, KeyOf(q), got)
    BY <2>3 DEF got
  <2>6. /\ DOMAIN results' = DOMAIN results \cup {KeyOf(q)}
        /\ results'[KeyOf(q)] = got
        /\ \A id \in DOMAIN results : id # KeyOf(q) => results'[id] = results[id]
    BY <2>5 DEF Put
  <2>7. Queries' = Queries
    BY <2>1, SameQueries
  <2>8. \A id \in DOMAIN results' : \E o \in Queries : id = KeyOf(o) /\ Answer(o, results'[id])
    BY <2>4, <2>6 DEF AnswersInv
  <2>9. ASSUME NEW id \in DOMAIN results'
         PROVE  \E o \in Queries : id = KeyOf(o) /\ Answer(o, results[id])'
    <3>1. PICK o \in Queries : id = KeyOf(o) /\ Answer(o, results'[id])
      BY <2>8, <2>9
    <3>2. Answer(o, results[id])'
      BY <2>1, <3>1 DEF Answer
    <3> QED BY <3>1, <3>2
  <2> QED BY <2>1, <2>7, <2>9 DEF AnswersInv, KeyOf
<1>3. CASE QueryFailed
  <2>1. UNCHANGED <<cfg, w, logs, page, results>> /\ \E id : errors' = errors \cup {id}
    BY <1>3 DEF QueryFailed
  <2>2. IsFiniteSet(errors')
    BY <2>1, FS_AddElement DEF AnswersInv
  <2>3. Queries' = Queries
    BY <2>1, SameQueries
  <2> QED BY <2>1, <2>2, <2>3 DEF AnswersInv, Answer
<1>4. CASE UNCHANGED rowsVars
  <2>1. UNCHANGED <<cfg, w, logs, page, results, errors>>
    BY <1>4 DEF rowsVars
  <2>2. Queries' = Queries
    BY <2>1, SameQueries
  <2> QED BY <2>1, <2>2 DEF AnswersInv, Answer
<1> QED BY <1>1, <1>2, <1>3, <1>4 DEF RowsNext

\* A panel of the page is one that was there, or the one just built.
LEMMA BuiltPanels ==
  ASSUME Built, NEW k, NEW x \in Of(k)'
  PROVE  \/ x \in Of(k)
         \/ /\ Ready /\ k = kind
            /\ x.panel = Panel /\ x.results = results
<1> DEFINE made == IF Throws THEN {} ELSE {[panel |-> Panel, results |-> results, errors |-> errors]}
<1>1. page # <<>> /\ (Throws \/ Group = "" \/ Waiting = {}) /\ panels' = Put(panels, kind, made)
  BY DEF Built
<1>2. k \in DOMAIN panels' /\ x \in panels'[k]
  BY DEF Of
<1>3. CASE k # kind
  <2> HIDE DEF made
  <2>1. k \in DOMAIN panels /\ panels'[k] = panels[k]
    BY <1>1, <1>2, <1>3 DEF Put
  <2> QED BY <1>2, <2>1 DEF Of
<1>4. CASE k = kind
  <2>1. x \in made
    <3> HIDE DEF made
    <3> QED BY <1>1, <1>2, <1>4 DEF Put
  <2>2. ~Throws /\ x.panel = Panel /\ x.results = results
    BY <2>1
  <2> QED BY <1>1, <1>4, <2>2 DEF Ready
<1> QED BY <1>3, <1>4

\* The lines, the window and the settings stay for the whole page.
LEMMA SameLines ==
  ASSUME UNCHANGED <<cfg, w, logs>>
  PROVE  /\ BadLines(w.end)' = BadLines(w.end)
         /\ BadLines(w.end - 1)' = BadLines(w.end - 1)
         /\ \A at : contains(w, at)' <=> contains(w, at)
<1>1. \A rec : StatusOf(rec)' = StatusOf(rec) /\ (Concerns(rec)' <=> Concerns(rec))
  BY DEF StatusOf, Concerns, Readable
<1>2. BadLines(w.end)' = BadLines(w.end) /\ BadLines(w.end - 1)' = BadLines(w.end - 1)
  BY <1>1 DEF BadLines
<1> QED BY <1>2

LEMMA NumbersInit ==
  ASSUME RowsInit
  PROVE  NumbersOrWarnings /\ CutListIsSaid
<1>1. \A k : Of(k) = {}
  BY DEF RowsInit, Of
<1> QED BY <1>1 DEF NumbersOrWarnings, CutListIsSaid

LEMMA PanelsSame ==
  ASSUME [RowsNext]_rowsVars, ~Built
  PROVE  UNCHANGED <<cfg, w, logs, panels>>
  BY DEF RowsNext, QueryAnswered, QueryFailed, rowsVars

LEMMA NumbersStep ==
  ASSUME AnswersInv, NumbersOrWarnings, [RowsNext]_rowsVars
  PROVE  NumbersOrWarnings'
<1>1. UNCHANGED <<cfg, w, logs>>
  BY PanelsSame DEF Built
<1>2. /\ BadLines(w.end)' = BadLines(w.end)
      /\ BadLines(w.end - 1)' = BadLines(w.end - 1)
      /\ logs' = logs /\ \A at : contains(w, at)' <=> contains(w, at)
  BY <1>1, SameLines
<1> DEFINE Seen(action) == {rec \in logs : rec.action = action /\ contains(w, rec.at)}
           Codes(x) == x.panel.warnings = <<>> =>
             x.panel.stats["badStatus.total"] = {Cardinality(BadLines(w.end - 1))}
           ByPath(x) == x.panel.warnings = <<>> =>
             x.panel.stats["badStatus.byPath.total"] = {Cardinality(BadLines(w.end))}
           Actions(x) == x.panel.warnings = <<>> =>
             \A action \in {rec.action : rec \in logs} :
               LET n == Cardinality(Seen(action))
               IN  n > 0 => action \in DOMAIN x.panel.stats /\ x.panel.stats[action] = {n}
<1>3. /\ \A x \in Of("pod-status-codes") : Codes(x)
      /\ \A x \in Of("pod-status-breakdown") : ByPath(x)
      /\ \A x \in Of("waf-traffic") : Actions(x)
  BY DEF NumbersOrWarnings
<1>4. \A x : (Codes(x)' <=> Codes(x)) /\ (ByPath(x)' <=> ByPath(x))
  BY <1>2
<1>5. \A x : Actions(x)' <=> Actions(x)
  <2>1. \A action : Seen(action)' = Seen(action)
    BY <1>1
  <2> HIDE DEF Seen
  <2> QED BY <1>2, <2>1
<1>6. CASE Built
  <2>1. ASSUME NEW x \in Of("pod-status-codes")' PROVE Codes(x)
    <3>1. SUFFICES ASSUME x \notin Of("pod-status-codes"), x.panel.warnings = <<>>
                   PROVE  x.panel.stats["badStatus.total"] = {Cardinality(BadLines(w.end - 1))}
      BY <1>3
    <3>2. Ready /\ kind = "pod-status-codes" /\ x.panel = Panel
      BY <1>6, <2>1, <3>1, BuiltPanels
    <3>3. x.panel = buildPodStatusCodePanel
      BY <3>2 DEF Panel
    <3> QED BY <3>1, <3>2, <3>3, StatusCodesCounted
  <2>2. ASSUME NEW x \in Of("pod-status-breakdown")' PROVE ByPath(x)
    <3>1. SUFFICES ASSUME x \notin Of("pod-status-breakdown"), x.panel.warnings = <<>>
                   PROVE  x.panel.stats["badStatus.byPath.total"] = {Cardinality(BadLines(w.end))}
      BY <1>3
    <3>2. Ready /\ kind = "pod-status-breakdown" /\ x.panel = Panel
      BY <1>6, <2>2, <3>1, BuiltPanels
    <3>3. x.panel = buildPodStatusBreakdownPanel
      BY <3>2 DEF Panel
    <3> QED BY <3>1, <3>2, <3>3, BreakdownCounted
  <2>3. ASSUME NEW x \in Of("waf-traffic")' PROVE Actions(x)
    <3>1. SUFFICES ASSUME x \notin Of("waf-traffic"), x.panel.warnings = <<>> PROVE Actions(x)
      BY <1>3
    <3>2. Ready /\ kind = "waf-traffic" /\ x.panel = Panel
      BY <1>6, <2>3, <3>1, BuiltPanels
    <3>3. x.panel = buildWAFTrafficPanel
      BY <3>2 DEF Panel
    <3> QED BY <3>1, <3>2, <3>3, TrafficCounted
  <2>4. /\ \A x \in Of("pod-status-codes")' : Codes(x)'
        /\ \A x \in Of("pod-status-breakdown")' : ByPath(x)'
        /\ \A x \in Of("waf-traffic")' : Actions(x)'
    BY <1>4, <1>5, <2>1, <2>2, <2>3
  <2> QED BY <2>4 DEF NumbersOrWarnings
<1>7. CASE ~Built
  <2>1. panels' = panels
    BY <1>7, PanelsSame
  <2>2. \A k : Of(k)' = Of(k)
    BY <2>1 DEF Of
  <2>3. /\ \A x \in Of("pod-status-codes")' : Codes(x)'
        /\ \A x \in Of("pod-status-breakdown")' : ByPath(x)'
        /\ \A x \in Of("waf-traffic")' : Actions(x)'
    BY <1>3, <1>4, <1>5, <2>2
  <2> QED BY <2>3 DEF NumbersOrWarnings
<1> QED BY <1>6, <1>7

LEMMA CutsStep ==
  ASSUME AnswersInv, CutListIsSaid, [RowsNext]_rowsVars
  PROVE  CutListIsSaid'
<1>1. UNCHANGED <<cfg, w, logs>>
  BY PanelsSame DEF Built
<1> DEFINE lists == {"pod-status-codes", "pod-errors", "waf-traffic"}
           Said1(x) == (\E id \in DOMAIN x.results : x.results[id].cut) =>
             \/ x.panel.table[1].truncated
             \/ x.panel.warnings # <<>>
             \/ \E rec \in logs : rec.at = w.end
<1>2. \A k \in lists : \A x \in Of(k) : Said1(x)
  BY DEF CutListIsSaid
<1>3. CASE Built
  <2>1. ASSUME NEW k \in lists, NEW x \in Of(k)' PROVE Said1(x)
    <3>1. SUFFICES ASSUME x \notin Of(k), \E id \in DOMAIN x.results : x.results[id].cut,
                          x.panel.warnings = <<>>, \A rec \in logs : rec.at # w.end
                   PROVE  x.panel.table[1].truncated
      BY <1>2
    <3>2. Ready /\ k = kind /\ x.panel = Panel /\ x.results = results
      BY <1>3, <2>1, <3>1, BuiltPanels
    <3>3. PICK id \in DOMAIN results : results[id].cut
      BY <3>1, <3>2
    <3>4. CASE k = "pod-status-codes"
      <4>1. x.panel = buildPodStatusCodePanel
        BY <3>2, <3>4 DEF Panel
      <4> QED BY <3>1, <3>2, <3>3, <3>4, <4>1, StatusCodesCounted
    <3>5. CASE k = "pod-errors"
      <4>1. x.panel = buildPodErrorPanel
        BY <3>2, <3>5 DEF Panel
      <4> QED BY <3>1, <3>2, <3>3, <3>5, <4>1, ErrorsSaid
    <3>6. CASE k = "waf-traffic"
      <4>1. x.panel = buildWAFTrafficPanel
        BY <3>2, <3>6 DEF Panel
      <4> QED BY <3>1, <3>2, <3>3, <3>6, <4>1, TrafficCounted
    <3> QED BY <3>4, <3>5, <3>6
  <2> QED BY <1>1, <2>1 DEF CutListIsSaid
<1>4. CASE ~Built
  <2>1. panels' = panels
    BY <1>4, PanelsSame
  <2>2. \A k : Of(k)' = Of(k)
    BY <2>1 DEF Of
  <2> QED BY <1>1, <1>2, <2>2 DEF CutListIsSaid
<1> QED BY <1>3, <1>4

\* So all of it stays.
LEMMA PromiseKept == RowsSpec => []Promised
<1>1. RowsInit => Promised
  BY AnswersInit, NumbersInit DEF Promised
<1>2. Promised /\ [RowsNext]_rowsVars => Promised'
  BY AnswersStep, NumbersStep, CutsStep DEF Promised
<1> QED BY <1>1, <1>2, PTL DEF RowsSpec

\* NUMBERS: a panel of bad answers, of their paths or of the WAF's traffic that warns
\* of nothing has counted every line it says it counts, whatever the lines, the window,
\* the settings, and which queries fail or are cut (http/panels-logs.ts:350-376,
\* 476-507, 566-583, 802-845, and the queries of domain/query.ts:373-420, 508-515).
THEOREM NumbersAreRight == RowsSpec => []NumbersOrWarnings
<1>1. Promised => NumbersOrWarnings
  BY DEF Promised
<1> QED BY <1>1, PromiseKept, PTL

\* CUT LISTS: of the panels that show a list beside a count, one whose list Insights cut
\* says so by its total, unless it warns, or a line is of the very end of the window
\* (http/panels-logs.ts:222-234, 450-458, domain/series.ts:161-169).
THEOREM CutListsAreSaid == RowsSpec => []CutListIsSaid
<1>1. Promised => CutListIsSaid
  BY DEF Promised
<1> QED BY <1>1, PromiseKept, PTL

-----------------------------------------------------------------------------
(* Buckets and what they count.                                                *)

\* Induction up to a number, of a property given as a set.
LEMMA CountUp ==
  ASSUME NEW top \in Nat, NEW Good, 0 \in Good, \A n \in 0..(top - 1) : n \in Good => n + 1 \in Good
  PROVE  top \in Good
<1> DEFINE S == 1..top
           Fine == {s \in SUBSET S : Cardinality(s) \in Good}
<1>1. IsFiniteSet(S) /\ Cardinality(S) = top
  <2>1. 1 \in Int /\ top \in Int
    OBVIOUS
  <2>2. IsFiniteSet(S) /\ Cardinality(S) = IF 1 > top THEN 0 ELSE top - 1 + 1
    BY <2>1, FS_Interval
  <2> QED BY <2>2
<1> HIDE DEF S
<1>2. \A s \in SUBSET S : IsFiniteSet(s) /\ Cardinality(s) \in Nat /\ Cardinality(s) <= top
  BY <1>1, FS_Subset, FS_CardinalityType
<1>3. ASSUME NEW s \in SUBSET S, \A x \in s : s \ {x} \in Fine
      PROVE  s \in Fine
  <2>1. CASE s = {}
    BY <2>1, FS_EmptySet
  <2>2. CASE s # {}
    <3>1. PICK x \in s : TRUE
      BY <2>2
    <3>2. IsFiniteSet(s)
      BY <1>2
    <3>3. Cardinality(s \ {x}) = Cardinality(s) - 1
      BY <3>1, <3>2, FS_RemoveElement
    <3>4. Cardinality(s \ {x}) \in Good
      BY <1>3, <3>1
    <3>5. s \ {x} \in SUBSET S
      OBVIOUS
    <3> DEFINE n == Cardinality(s \ {x})
               m == Cardinality(s)
    <3>6. n \in Nat /\ m \in Nat /\ m <= top /\ n = m - 1 /\ n \in Good
      BY <1>2, <3>3, <3>4, <3>5
    <3> HIDE DEF n, m
    <3>7. m \in Good
      BY <3>6
    <3> QED BY <3>7 DEF m
  <2> QED BY <2>1, <2>2
<1> HIDE DEF Fine
<1>4. \A s \in SUBSET S : s \in Fine
  BY <1>1, <1>3, SubsetsAllGood
<1>5. S \in Fine
  BY <1>4
<1> QED BY <1>1, <1>5 DEF Fine

\* Sequences joined into one have what each of them has.
LEMMA Flattened ==
  ASSUME NEW U, NEW s \in Seq(Seq(U))
  PROVE  FlattenSeq(s) \in Seq(U)
<1> DEFINE n == Len(s)
           Next1(f, i) == IF i = 1 THEN s[i] ELSE f[i - 1] \o s[i]
           Rec(f, k) == f = [i \in 1..k |-> Next1(f, i)]
           Made == {k \in 0..n : \E f \in [1..k -> Seq(U)] : Rec(f, k)}
           f == CHOOSE g : Rec(g, n)
<1>1. n \in Nat /\ \A i \in 1..n : s[i] \in Seq(U)
  OBVIOUS
<1>2. CASE n = 0
  BY <1>2 DEF FlattenSeq
<1>3. CASE n # 0
  <2>1. 0 \in Made
    <3>1. 1..0 = {}
      OBVIOUS
    <3> DEFINE g == [i \in 1..0 |-> <<>>]
    <3>2. g \in [1..0 -> Seq(U)] /\ Rec(g, 0)
      BY <3>1
    <3>3. 0 \in 0..n
      BY <1>1
    <3> HIDE DEF g, Rec
    <3> QED BY <3>2, <3>3
  <2>2. ASSUME NEW k \in 0..(n - 1), k \in Made
        PROVE  k + 1 \in Made
    <3>1. PICK g \in [1..k -> Seq(U)] : Rec(g, k)
      BY <2>2
    <3> DEFINE h == [i \in 1..(k + 1) |-> Next1(g, i)]
    <3>2. \A i \in 1..k : h[i] = g[i]
      <4> HIDE DEF Next1
      <4>1. \A i \in 1..k : g[i] = Next1(g, i)
        BY <3>1
      <4>2. \A i \in 1..k : i \in 1..(k + 1)
        BY <2>2
      <4> QED BY <4>1, <4>2
    <3>3. \A i \in 1..(k + 1) : i # 1 => i - 1 \in 1..k
      BY <1>1, <2>2
    <3>4. \A i \in 1..(k + 1) : Next1(h, i) = Next1(g, i)
      <4> HIDE DEF h
      <4> QED BY <3>2, <3>3
    <3>5. Rec(h, k + 1)
      BY <3>4
    <3>6. \A i \in 1..(k + 1) : Next1(g, i) \in Seq(U)
      BY <1>1, <2>2, <3>3
    <3>7. h \in [1..(k + 1) -> Seq(U)]
      BY <3>6
    <3>8. k + 1 \in 0..n
      BY <1>1, <2>2
    <3> HIDE DEF h
    <3> QED BY <3>5, <3>7, <3>8
  <2> HIDE DEF Made
  <2>3. n \in Made
    BY <1>1, <2>1, <2>2, CountUp
  <2>4. \E g : Rec(g, n)
    BY <2>3 DEF Made
  <2>5. Rec(f, n)
    BY <2>4
  <2>6. FlattenSeq(s) = f[n]
    BY <1>3 DEF FlattenSeq
  <2> HIDE DEF f
  <2> DEFINE Good == {k \in 0..n : \A i \in 1..k : f[i] \in Seq(U)}
  <2>7. 0 \in Good
    BY <1>1
  <2>8. ASSUME NEW k \in 0..(n - 1), k \in Good
        PROVE  k + 1 \in Good
    <3>1. f[k + 1] = Next1(f, k + 1)
      <4> HIDE DEF Next1
      <4>1. k + 1 \in 1..n
        BY <1>1, <2>8
      <4> QED BY <2>5, <4>1
    <3>2. k + 1 # 1 => k \in 1..k /\ f[k] \in Seq(U) /\ (k + 1) - 1 = k
      BY <1>1, <2>8
    <3>3. f[k + 1] \in Seq(U)
      BY <1>1, <2>8, <3>1, <3>2
    <3> QED BY <1>1, <2>8, <3>3
  <2> HIDE DEF Good
  <2>9. n \in Good
    BY <1>1, <2>7, <2>8, CountUp
  <2> QED BY <1>1, <1>3, <2>6, <2>9 DEF Good
<1> QED BY <1>2, <1>3


\* The greatest of finitely many.
LEMMA OneIsGreatest ==
  ASSUME NEW S, IsFiniteSet(S), NEW of, \A r \in S : r[of] \in Int, S # {}
  PROVE  \E r \in S : \A o \in S : o[of] <= r[of]
<1> DEFINE T == {[is |-> r, less |-> 0 - r[of]] : r \in S}
           turn == [r \in S |-> [is |-> r, less |-> 0 - r[of]]]
<1>1. turn \in Surjection(S, T)
  BY DEF Surjection
<1>2. \A t \in T : t["less"] \in Int
  OBVIOUS
<1>3. T # {}
  OBVIOUS
<1> HIDE DEF T, turn
<1>4. IsFiniteSet(T)
  BY <1>1, FS_Surjection
<1>5. PICK t \in T : \A u \in T : u["less"] >= t["less"]
  BY <1>2, <1>3, <1>4, OneIsLeast
<1>6. PICK r \in S : t = [is |-> r, less |-> 0 - r[of]]
  BY DEF T
<1>7. ASSUME NEW o \in S
      PROVE  o[of] <= r[of]
  <2>1. [is |-> o, less |-> 0 - o[of]] \in T
    BY DEF T
  <2>2. 0 - o[of] >= 0 - r[of]
    BY <1>5, <1>6, <2>1
  <2>3. o[of] \in Int /\ r[of] \in Int
    OBVIOUS
  <2> QED BY <2>2, <2>3
<1> QED BY <1>7

\* The time of a row is that of the latest line that counts in it.
LEMMA LatestOfRow ==
  ASSUME NEW kept, IsFiniteSet(kept), \A rec \in kept : rec.at \in Nat,
         NEW key, NEW rows, Counted(kept, key, rows), NEW r \in rows
  PROVE  /\ r.lastTs \in Nat
         /\ \E rec \in kept : /\ key[rec] = r
                              /\ r.lastTs = rec.at
                              /\ \A o \in kept : key[o] = r => o.at <= rec.at
<1> DEFINE lines == {o \in kept : key[o] = r}
           times == {o.at : o \in lines}
<1>1. PICK any \in kept : r = key[any]
  BY DEF Counted
<1>2. r.lastTs = Max(times)
  BY <1>1 DEF Counted
<1>3. lines \in SUBSET kept /\ lines # {}
  BY <1>1
<1>4. IsFiniteSet(lines)
  <2> HIDE DEF lines
  <2> QED BY <1>3, FS_Subset
<1>5. \A o \in lines : o["at"] \in Int /\ o.at \in Nat
  OBVIOUS
<1> HIDE DEF lines
<1>6. PICK latest \in lines : \A o \in lines : o["at"] <= latest["at"]
  BY <1>3, <1>4, <1>5, OneIsGreatest
<1>7. latest.at \in times /\ \A t \in times : latest.at >= t
  BY <1>5, <1>6
<1>8. Max(times) \in times /\ \A t \in times : Max(times) >= t
  <2> HIDE DEF times
  <2> QED BY <1>7 DEF Max
<1>9. PICK rec \in lines : rec.at = Max(times)
  BY <1>8
<1>10. \A o \in lines : o.at <= rec.at
  BY <1>5, <1>8, <1>9
<1>11. r.lastTs \in Nat
  BY <1>2, <1>5, <1>9
<1> QED BY <1>2, <1>9, <1>10, <1>11 DEF lines

\* Lines are allowed, blocked, or something else.
LEMMA ThreeParts ==
  ASSUME NEW lines, IsFiniteSet(lines)
  PROVE  LET allow == Cardinality({rec \in lines : rec.action = "ALLOW"})
             block == Cardinality({rec \in lines : rec.action = "BLOCK"})
             other == Cardinality({rec \in lines : rec.action \notin {"ALLOW", "BLOCK"}})
         IN  allow + block + other = Cardinality(lines)
<1> DEFINE A == {rec \in lines : rec.action = "ALLOW"}
           B == {rec \in lines : rec.action = "BLOCK"}
           O == {rec \in lines : rec.action \notin {"ALLOW", "BLOCK"}}
<1>1. /\ A \in SUBSET lines /\ B \in SUBSET lines /\ O \in SUBSET lines
      /\ A \cap B = {} /\ (A \cup B) \cap O = {} /\ (A \cup B) \cup O = lines
  OBVIOUS
<1> HIDE DEF A, B, O
<1>2. IsFiniteSet(A) /\ IsFiniteSet(B) /\ IsFiniteSet(O)
  BY <1>1, FS_Subset
<1>3. Cardinality(A) \in Nat /\ Cardinality(B) \in Nat /\ Cardinality(O) \in Nat
  BY <1>2, FS_CardinalityType
<1>4. Cardinality({}) = 0
  BY FS_EmptySet
<1> DEFINE AB == A \cup B
<1>5. IsFiniteSet(AB) /\ Cardinality(AB) = Cardinality(A) + Cardinality(B) - Cardinality(A \cap B)
  BY <1>2, FS_Union
<1>6. AB \cap O = {} /\ AB \cup O = lines /\ A \cap B = {}
  BY <1>1
<1> HIDE DEF AB
<1>7. Cardinality(AB \cup O) = Cardinality(AB) + Cardinality(O) - Cardinality(AB \cap O)
  BY <1>2, <1>5, FS_Union
<1>8. Cardinality(AB) = Cardinality(A) + Cardinality(B)
  <2>1. Cardinality(A \cap B) = 0
    BY <1>4, <1>6, Zenon
  <2> QED BY <1>3, <1>5, <2>1
<1>9. Cardinality(lines) = Cardinality(AB) + Cardinality(O)
  <2>1. Cardinality(AB \cap O) = 0 /\ Cardinality(AB \cup O) = Cardinality(lines)
    BY <1>4, <1>6, Zenon
  <2>2. Cardinality(AB) \in Nat
    BY <1>5, FS_CardinalityType
  <2> QED BY <1>3, <1>7, <2>1, <2>2
<1>10. Cardinality(lines) = Cardinality(A) + Cardinality(B) + Cardinality(O)
  BY <1>3, <1>8, <1>9
<1> QED BY <1>10 DEF A, B, O

-----------------------------------------------------------------------------
(* The breakdowns of the WAF.                                                *)

\* The columns of a bucket add up.
AddsUp(b) == b.allow + b.block + b.other = b.total

\* A bucket counts some lines, and has the action of a latest of them.
CountsThem(b, lines) ==
  /\ b.total = Cardinality(lines)
  /\ b.allow = Cardinality({rec \in lines : rec.action = "ALLOW"})
  /\ b.block = Cardinality({rec \in lines : rec.action = "BLOCK"})
  /\ \E rec \in lines : /\ b.lastAction = {rec.action}
                        /\ \A other \in lines : other.at <= rec.at

LinesWith(kept, of, key) == {rec \in kept : of[rec] = key}

\* Rows tell the lines that count in them apart by a key, and by their action.
TellsApart(kept, key, dimension, of) ==
  \A rec \in kept : WafKey(dimension, key[rec]) = of[rec] /\ key[rec].by["action"] = {rec.action}

\* Buckets that add up, and count the lines of their key if they are of whole rows.
Buckets(list, kept, of, whole) ==
  \E made : /\ list \in Seq(made)
            /\ \A b \in made : /\ AddsUp(b) /\ b.key # <<"">>
                               /\ whole => CountsThem(b, LinesWith(kept, of, b.key))

\* The buckets of some rows add up.  Those of all rows count the lines of their key.
LEMMA PivotAdds ==
  ASSUME NEW kept, IsFiniteSet(kept), \A rec \in kept : rec.at \in Nat,
         NEW key, NEW all, Counted(kept, key, all), NEW rows \in SUBSET all,
         NEW dimension, NEW of, TellsApart(kept, key, dimension, of)
  PROVE  Buckets(pivotWAFActions(rows, dimension), kept, of, rows = all)
<1> DEFINE Key(r) == WafKey(dimension, r)
           Of1(k) == {r \in rows : Key(r) = k}
           Allowed(k) == {r \in Of1(k) : The(r.by["action"]) = "ALLOW"}
           Blocked(k) == {r \in Of1(k) : The(r.by["action"]) = "BLOCK"}
           Others(k) == {r \in Of1(k) : The(r.by["action"]) \notin {"ALLOW", "BLOCK"}}
           Latest(k) == CHOOSE r \in Of1(k) : \A o \in Of1(k) : o.lastTs <= r.lastTs
           Bucket(k) == [key |-> k, allow |-> SumOf(Allowed(k), "n"), block |-> SumOf(Blocked(k), "n"),
                         other |-> SumOf(Others(k), "n"), total |-> SumOf(Of1(k), "n"),
                         lastAction |-> Latest(k).by["action"]]
           keys == {Key(r) : r \in rows} \ {<<"">>}
           made == {Bucket(k) : k \in keys}
           Lines1(k) == {rec \in kept : key[rec] \in Of1(k)}
<1>0. \A rec \in kept : WafKey(dimension, key[rec]) = of[rec] /\ key[rec].by["action"] = {rec.action}
  BY DEF TellsApart
<1>1. pivotWAFActions(rows, dimension) = Descending(made, "total")
  BY DEF pivotWAFActions
<1>2. \A k : /\ Bucket(k).key = k /\ Bucket(k).total = SumOf(Of1(k), "n")
             /\ Bucket(k).allow = SumOf(Allowed(k), "n") /\ Bucket(k).block = SumOf(Blocked(k), "n")
             /\ Bucket(k).other = SumOf(Others(k), "n")
             /\ Bucket(k).lastAction = Latest(k).by["action"]
  <2> HIDE DEF Of1, Allowed, Blocked, Others, Latest
  <2> QED OBVIOUS
<1>3. \A k : /\ Of1(k) \in SUBSET all /\ Allowed(k) \in SUBSET all
             /\ Blocked(k) \in SUBSET all /\ Others(k) \in SUBSET all
  OBVIOUS
<1>4. \A rec \in kept : key[rec] \in all /\ The(key[rec].by["action"]) = rec.action
  BY <1>0 DEF Counted, The
<1>5. \A k, rec : rec \in Lines1(k) <=> rec \in kept /\ key[rec] \in rows /\ of[rec] = k
  BY <1>0
<1>6. \A k : /\ {rec \in kept : key[rec] \in Allowed(k)} = {rec \in Lines1(k) : rec.action = "ALLOW"}
             /\ {rec \in kept : key[rec] \in Blocked(k)} = {rec \in Lines1(k) : rec.action = "BLOCK"}
             /\ {rec \in kept : key[rec] \in Others(k)}
                  = {rec \in Lines1(k) : rec.action \notin {"ALLOW", "BLOCK"}}
  BY <1>4
<1>7. \A S \in SUBSET all : SumOf(S, "n") = Cardinality({rec \in kept : key[rec] \in S})
  BY SumOfRows
<1>8. \A r \in all : /\ r.lastTs \in Nat
                    /\ \E rec \in kept : /\ key[rec] = r
                                         /\ r.lastTs = rec.at
                                         /\ \A o \in kept : key[o] = r => o.at <= rec.at
  BY LatestOfRow
<1>9. IsFiniteSet(rows)
  <2>1. key \in [kept -> all] /\ \A r \in all : \E rec \in kept : key[rec] = r
    BY DEF Counted
  <2>2. key \in Surjection(kept, all)
    BY <2>1 DEF Surjection
  <2>3. IsFiniteSet(all)
    BY <2>2, FS_Surjection
  <2> QED BY <2>3, FS_Subset
<1>10. ASSUME NEW k \in keys
       PROVE  Latest(k) \in Of1(k) /\ \A o \in Of1(k) : o.lastTs <= Latest(k).lastTs
  <2> DEFINE S == Of1(k)
  <2>1. S # {} /\ S \in SUBSET rows /\ S \in SUBSET all
    OBVIOUS
  <2>2. Latest(k) = CHOOSE r \in S : \A o \in S : o.lastTs <= r.lastTs
    OBVIOUS
  <2> HIDE DEF S, Latest, Of1
  <2>3. \A r \in S : r["lastTs"] \in Int
    <3> HIDE DEF Key, Allowed, Blocked, Others, Bucket, keys, made, Lines1
    <3>1. \A r \in S : r.lastTs \in Nat
      BY <1>8, <2>1, Zenon
    <3>2. \A n \in Nat : n \in Int
      OBVIOUS
    <3> QED BY <3>1, <3>2
  <2>4. IsFiniteSet(S)
    BY <1>9, <2>1, FS_Subset
  <2>5. PICK r \in S : \A o \in S : o["lastTs"] <= r["lastTs"]
    BY <2>1, <2>3, <2>4, OneIsGreatest
  <2>6. Latest(k) \in S /\ \A o \in S : o.lastTs <= Latest(k).lastTs
    BY <2>2, <2>5
  <2> QED BY <2>6 DEF S
<1>11. \A k \in keys : \E r \in rows : Key(r) = k /\ k # <<"">>
  OBVIOUS
<1>12. \A k : IsFiniteSet(Lines1(k))
  <2> TAKE k
  <2> DEFINE S == Lines1(k)
  <2>1. S \in SUBSET kept
    OBVIOUS
  <2> HIDE DEF S
  <2>2. IsFiniteSet(S)
    BY <2>1, FS_Subset
  <2> QED BY <2>2 DEF S
<1>13. IsFiniteSet(made)
  <2> DEFINE S == {r \in rows : Key(r) # <<"">>}
             f == [r \in S |-> Bucket(Key(r))]
  <2>1. S \in SUBSET rows /\ \A r \in S : Key(r) \in keys
    OBVIOUS
  <2>2. \A k \in keys : \E r \in S : Key(r) = k
    OBVIOUS
  <2> HIDE DEF S, Bucket, Key, keys
  <2>3. f \in Surjection(S, made)
    BY <2>1, <2>2 DEF Surjection
  <2>4. IsFiniteSet(S)
    BY <1>9, <2>1, FS_Subset
  <2> HIDE DEF f, made
  <2> QED BY <2>3, <2>4, FS_Surjection
<1> HIDE DEF Key, Of1, Allowed, Blocked, Others, Latest, Bucket, keys, Lines1
<1>14. \A k : /\ Bucket(k).total = Cardinality(Lines1(k))
              /\ Bucket(k).allow = Cardinality({rec \in Lines1(k) : rec.action = "ALLOW"})
              /\ Bucket(k).block = Cardinality({rec \in Lines1(k) : rec.action = "BLOCK"})
              /\ Bucket(k).other = Cardinality({rec \in Lines1(k) : rec.action \notin {"ALLOW", "BLOCK"}})
  <2> TAKE k
  <2>1. Lines1(k) = {rec \in kept : key[rec] \in Of1(k)}
    BY DEF Lines1
  <2>2. SumOf(Of1(k), "n") = Cardinality(Lines1(k))
    BY <1>3, <1>7, <2>1
  <2>3. /\ SumOf(Allowed(k), "n") = Cardinality({rec \in Lines1(k) : rec.action = "ALLOW"})
        /\ SumOf(Blocked(k), "n") = Cardinality({rec \in Lines1(k) : rec.action = "BLOCK"})
        /\ SumOf(Others(k), "n") = Cardinality({rec \in Lines1(k) : rec.action \notin {"ALLOW", "BLOCK"}})
    BY <1>3, <1>6, <1>7
  <2> QED BY <1>2, <2>2, <2>3
<1>15. \A k : AddsUp(Bucket(k))
  <2> TAKE k
  <2> DEFINE S == Lines1(k)
             b == Bucket(k)
  <2>1. /\ b.total = Cardinality(S)
        /\ b.allow = Cardinality({rec \in S : rec.action = "ALLOW"})
        /\ b.block = Cardinality({rec \in S : rec.action = "BLOCK"})
        /\ b.other = Cardinality({rec \in S : rec.action \notin {"ALLOW", "BLOCK"}})
    BY <1>14
  <2>2. IsFiniteSet(S)
    BY <1>12
  <2> HIDE DEF S, b
  <2>3. b.allow + b.block + b.other = b.total
    BY <2>1, <2>2, ThreeParts
  <2> QED BY <2>3 DEF AddsUp, b
<1>16. \A b \in made : b["total"] \in Int
  <2> TAKE b \in made
  <2>1. PICK k \in keys : b = Bucket(k)
    OBVIOUS
  <2>2. Cardinality(Lines1(k)) \in Nat
    BY <1>12, FS_CardinalityType
  <2> QED BY <1>14, <2>1, <2>2
<1>17. Descending(made, "total") \in Seq(made)
  <2> HIDE DEF made
  <2> DEFINE n == Cardinality(made)
  <2>1. Descending(made, "total") \in [1..n -> made]
    BY <1>13, <1>16, InOrder
  <2>2. n \in Nat
    BY <1>13, FS_CardinalityType
  <2> HIDE DEF n
  <2> QED BY <2>1, <2>2
<1>18. ASSUME NEW k \in keys, rows = all
       PROVE  CountsThem(Bucket(k), LinesWith(kept, of, k))
  <2>1. Lines1(k) = LinesWith(kept, of, k)
    <3>1. \A rec \in kept : key[rec] \in rows
      BY <1>4, <1>18
    <3> QED BY <1>5, <3>1 DEF LinesWith
  <2>2. Latest(k) \in all /\ Latest(k) \in Of1(k)
    BY <1>3, <1>10
  <2>3. PICK rec \in kept : key[rec] = Latest(k) /\ Latest(k).lastTs = rec.at
    BY <1>8, <2>2
  <2>4. rec \in Lines1(k) /\ Bucket(k).lastAction = {rec.action}
    BY <1>0, <1>2, <2>2, <2>3 DEF Lines1
  <2>5. ASSUME NEW o \in Lines1(k)
        PROVE  o.at <= rec.at
    <3>1. o \in kept /\ key[o] \in Of1(k) /\ key[o] \in all
      BY <1>4 DEF Lines1
    <3>2. key[o].lastTs <= Latest(k).lastTs
      BY <1>10, <3>1
    <3>3. PICK l \in kept : key[o].lastTs = l.at /\ \A x \in kept : key[x] = key[o] => x.at <= l.at
      BY <1>8, <3>1
    <3>4. o.at <= l.at /\ l.at <= rec.at
      BY <2>3, <3>1, <3>2, <3>3
    <3>5. o.at \in Nat /\ l.at \in Nat /\ rec.at \in Nat
      BY <3>1
    <3> QED BY <3>4, <3>5
  <2>6. CountsThem(Bucket(k), Lines1(k))
    BY <1>14, <2>4, <2>5 DEF CountsThem
  <2> QED BY <2>1, <2>6
<1>19. ASSUME NEW b \in made
       PROVE  /\ AddsUp(b) /\ b.key # <<"">>
              /\ rows = all => CountsThem(b, LinesWith(kept, of, b.key))
  <2>1. PICK k \in keys : b = Bucket(k)
    OBVIOUS
  <2>2. b.key = k /\ k # <<"">>
    BY <1>2, <1>11, <2>1
  <2> QED BY <1>15, <1>18, <2>1, <2>2
<1> HIDE DEF made
<1>20. pivotWAFActions(rows, dimension) \in Seq(made)
  BY <1>1, <1>17
<1> QED BY <1>19, <1>20 DEF Buckets


\* What the queries of the breakdowns ask.
LEMMA BreakdownsAsk ==
  /\ wafByMethod.id = "waf.byMethod" /\ Asks(wafByMethod.clauses, {}, {"method", "action"}, TRUE)
  /\ \A limit : LET q == wafByPath(limit)
                IN  q.id = "waf.byPath" /\ Asks(q.clauses, {}, {"uri", "args", "action"}, TRUE)
  /\ \A name, limit : \A q \in wafByHeader(name, limit) :
       /\ q.id = "waf.byHeader" /\ q.header = name
       /\ Asks(q.clauses, {"header"}, {"value", "action"}, TRUE)
<1>1. \A by : Asks(breakdownStats(by), {}, by \cup {"action"}, TRUE)
  <2> TAKE by
  <2> DEFINE defs == {"n", "lastTs"} \cup (by \ {"action"})
             uses == {"action", "@timestamp"} \cup (IF by = {"value"} THEN {"headerValue"} ELSE {"httpRequest"})
             all == by \cup {"action"}
  <2>1. breakdownStats(by) = <<Stats(defs, all, uses), Sort("n")>>
    BY DEF breakdownStats
  <2> HIDE DEF defs, uses, all
  <2>2. Asks(<<Stats(defs, all, uses), Sort("n")>>, {}, all, TRUE)
    BY AsksCounting
  <2> QED BY <2>1, <2>2 DEF all
<1>2. wafByMethod.id = "waf.byMethod" /\ wafByMethod.clauses = breakdownStats({"method"})
  BY DEF wafByMethod, query
<1>3. {"method"} \cup {"action"} = {"method", "action"}
  OBVIOUS
<1>4. Asks(wafByMethod.clauses, {}, {"method", "action"}, TRUE)
  BY <1>1, <1>2, <1>3
<1>5. ASSUME NEW limit, NEW q, q = wafByPath(limit)
      PROVE  q.id = "waf.byPath" /\ Asks(q.clauses, {}, {"uri", "args", "action"}, TRUE)
  <2>1. q.id = "waf.byPath" /\ q.clauses = breakdownStats({"uri", "args"})
    BY <1>5 DEF wafByPath, query
  <2>2. {"uri", "args"} \cup {"action"} = {"uri", "args", "action"}
    OBVIOUS
  <2> QED BY <1>1, <2>1, <2>2
<1>6. ASSUME NEW name, NEW limit, NEW q \in wafByHeader(name, limit)
      PROVE  /\ q.id = "waf.byHeader" /\ q.header = name
             /\ Asks(q.clauses, {"header"}, {"value", "action"}, TRUE)
  <2> DEFINE stats == breakdownStats({"value"})
             first == Fields({"headerValue"}, {"@message"})
             then == Filter("header", {"headerValue"})
  <2>1. q = [query("waf.byHeader", <<first, then>> \o stats, limit) EXCEPT !.header = name]
    BY DEF wafByHeader, headerParse
  <2> HIDE DEF stats, first, then
  <2>2. q.id = "waf.byHeader" /\ q.header = name /\ q.clauses = <<first, then>> \o stats
    BY <2>1 DEF query
  <2> DEFINE none == {}
             both == {"header"}
  <2>3. first.op = "fields" /\ first.by = {} /\ then.op = "filter" /\ then.by = {} /\ then.when = "header"
    BY DEF first, then, Fields, Filter, Clause
  <2>4. <<first, then>> \in Seq({first, then}) /\ Range(<<first, then>>) = {first, then}
    BY DEF Range
  <2>5. Asks(<<first, then>>, both, {}, FALSE)
    BY <2>3, <2>4 DEF Asks
  <2>6. both \cup none = {"header"}
    OBVIOUS
  <2> DEFINE by == {"value", "action"}
  <2>8. Asks(stats, none, by, TRUE)
    <3>1. {"value"} \cup {"action"} = {"value", "action"}
      OBVIOUS
    <3> QED BY <1>1, <3>1 DEF stats, none
  <2> HIDE DEF both, by, none
  <2>9. Asks(<<first, then>> \o stats, both \cup none, by, TRUE)
    BY <2>5, <2>8, AsksJoined
  <2> QED BY <2>2, <2>6, <2>9 DEF by
<1> QED BY <1>2, <1>4, <1>5, <1>6

\* The lines of a key in a breakdown.
LinesOf(dimension, key) ==
  {rec \in logs : rec.at \in w.start..w.end /\ KeyOfLine(dimension, rec) = key}

\* What a breakdown shows adds up, and is right unless its answer was cut.
ShownRight(dimension, b) ==
  AddsUp(b) /\ (~results[IdOf(dimension)].cut => CountsThem(b, LinesOf(dimension, b.key)))

AllRight(what, list) ==
  \E made : list \in Seq(made) /\ \A b \in made : ShownRight(what, b)

\* What a query groups by tells keys apart, and it leaves out lines without a key only.
TellsKeys(q, whens, by, dimension, what) ==
  /\ \A rec, r : (\A name \in by : r.by[name] = GroupValue(cfg.logFormat, w, q, rec, name))
                    /\ (\A when \in whens : Passes(cfg.logFormat, q, rec, when))
                  => WafKey(dimension, r) = KeyOfLine(what, rec)
  /\ \A rec : KeyOfLine(what, rec) # <<"">> => \A when \in whens : Passes(cfg.logFormat, q, rec, when)

\* The buckets of the answer to such a query are right.
LEMMA AnswerAddsUp ==
  ASSUME AnswersInv, NEW q, NEW whens, NEW by, "action" \in by, Asks(q.clauses, whens, by, TRUE),
         NEW id \in DOMAIN results, Answer(q, results[id]),
         NEW dimension, NEW what, id = IdOf(what), TellsKeys(q, whens, by, dimension, what)
  PROVE  AllRight(what, pivotWAFActions(Rows(id), dimension))
<1> DEFINE f == cfg.logFormat
           kept == Kept(f, w, q, logs)
           all == AllRows(f, w, q, logs)
           rows == results[id].rows
           of == [rec \in kept |-> KeyOfLine(what, rec)]
<1>1. IsFiniteSet(logs) /\ \A rec \in logs : rec.at \in Nat
  BY LinesOfLogs
<1>2. \A rec : rec \in kept <=> /\ rec \in logs
                                /\ rec.at \in w.start..w.end
                                /\ \A when \in whens : Passes(f, q, rec, when)
  BY KeptIs
<1>3. PICK key : Grouped(f, w, q, logs, by, key)
  BY CountedRows
<1>4. Counted(kept, key, all) /\ \A rec \in kept, name \in by : key[rec].by[name] = GroupValue(f, w, q, rec, name)
  BY <1>3 DEF Grouped
<1>5. IsFiniteSet(kept) /\ \A rec \in kept : rec.at \in Nat
  <2>1. kept \in SUBSET logs
    BY <1>2
  <2> HIDE DEF kept
  <2> QED BY <1>1, <2>1, FS_Subset
<1>6. IsFiniteSet(all)
  <2>1. key \in Surjection(kept, all)
    BY <1>4 DEF Counted, Surjection
  <2> HIDE DEF kept, all
  <2> QED BY <1>5, <2>1, FS_Surjection
<1>7. rows \in Answers(f, w, q, logs) /\ (~results[id].cut => rows = all)
  BY DEF Answer
<1>8. rows \in SUBSET all
  BY <1>6, <1>7, CutAnswer
<1>9. \A rec \in kept : key[rec].by["action"] = {rec.action}
  <2>1. \A rec : GroupValue(f, w, q, rec, "action") = {rec.action}
    BY DEF GroupValue
  <2> QED BY <1>4, <2>1
<1>10. TellsApart(kept, key, dimension, of)
  BY <1>2, <1>4, <1>9 DEF TellsApart, TellsKeys
<1>11. \A k : k # <<"">> => LinesWith(kept, of, k) = LinesOf(what, k)
  <2> SUFFICES ASSUME NEW k, k # <<"">>
               PROVE  LinesWith(kept, of, k) = LinesOf(what, k)
    OBVIOUS
  <2>1. \A rec \in kept : rec \in logs /\ rec.at \in w.start..w.end /\ of[rec] = KeyOfLine(what, rec)
    BY <1>2
  <2>2. \A rec \in LinesOf(what, k) : rec \in kept /\ KeyOfLine(what, rec) = k
    BY <1>2 DEF LinesOf, TellsKeys
  <2> QED BY <2>1, <2>2 DEF LinesOf, LinesWith
<1>12. Rows(id) = rows
  BY DEF Rows
<1> HIDE DEF kept, all, rows, of
<1>13. Buckets(pivotWAFActions(rows, dimension), kept, of, rows = all)
  BY <1>4, <1>5, <1>8, <1>10, PivotAdds
<1>14. PICK made : /\ pivotWAFActions(rows, dimension) \in Seq(made)
                   /\ \A b \in made : /\ AddsUp(b) /\ b.key # <<"">>
                                      /\ rows = all => CountsThem(b, LinesWith(kept, of, b.key))
  BY <1>13 DEF Buckets
<1>15. \A b \in made : ShownRight(what, b)
  BY <1>7, <1>11, <1>14 DEF ShownRight
<1> QED BY <1>12, <1>14, <1>15 DEF AllRight


\* What the breakdowns are of, and how their rows are told apart.
Told(what, dimension) ==
  \/ what = <<"method">> /\ dimension = "method"
  \/ what = <<"path">> /\ dimension = "path"
  \/ dimension = "value" /\ \E header : what = <<"header", header>>

\* Without rows there is no bucket.
LEMMA NoBuckets ==
  ASSUME NEW dimension
  PROVE  pivotWAFActions({}, dimension) \in Seq({})
<1> DEFINE none == {}
           key == [rec \in none |-> rec]
           list == pivotWAFActions(none, dimension)
<1>1. Counted(none, key, none) /\ none \in SUBSET none
  BY DEF Counted
<1>2. IsFiniteSet(none) /\ (\A rec \in none : rec.at \in Nat) /\ TellsApart(none, key, dimension, key)
  BY FS_EmptySet DEF TellsApart
<1>3. none = {}
  OBVIOUS
<1> HIDE DEF none, key
<1>4. Buckets(list, none, key, none = none)
  BY <1>1, <1>2, PivotAdds
<1> HIDE DEF list
<1>5. PICK made : list \in Seq(made) /\ \A b \in made : CountsThem(b, LinesWith(none, key, b.key))
  BY <1>4 DEF Buckets
<1>6. made = {}
  <2>1. \A b \in made : \E rec \in LinesWith(none, key, b.key) : TRUE
    BY <1>5 DEF CountsThem
  <2>2. \A k : LinesWith(none, key, k) = {}
    BY <1>3 DEF LinesWith
  <2> QED BY <2>1, <2>2
<1>7. list \in Seq({})
  BY <1>5, <1>6
<1> QED BY <1>3, <1>7 DEF list

\* Every breakdown adds up.
LEMMA BreakdownAddsUp ==
  ASSUME RowsInv, AnswersInv, kind = "waf-breakdown", NEW what, NEW dimension, Told(what, dimension)
  PROVE  AllRight(what, pivotWAFActions(Rows(IdOf(what)), dimension))
<1> DEFINE f == cfg.logFormat
           id == IdOf(what)
           fetch == cfg.topN * actionFanout
<1>1. CASE id \notin DOMAIN results
  <2>1. Rows(id) = {}
    BY <1>1 DEF Rows
  <2>2. pivotWAFActions(Rows(id), dimension) \in Seq({})
    BY <2>1, NoBuckets
  <2> QED BY <2>2 DEF AllRight
<1>2. CASE id \in DOMAIN results
  <2>1. PICK q \in Queries : id = KeyOf(q) /\ Answer(q, results[id])
    BY <1>2 DEF AnswersInv
  <2>2. \/ q \in {wafByMethod, wafByPath(fetch)}
        \/ \E i \in DOMAIN cfg.wafHeaders : q \in wafByHeader(cfg.wafHeaders[i], fetch)
    BY BreakdownQueries
  <2>3. /\ q = wafByMethod => q.id = "waf.byMethod"
        /\ q = wafByPath(fetch) => q.id = "waf.byPath"
        /\ \A name : q \in wafByHeader(name, fetch) => q.id = "waf.byHeader" /\ q.header = name
    BY BreakdownsAsk
  <2>7. \A a, b : id = <<a, b>> => q.id = a /\ q.header = b
    <3> HIDE DEF id
    <3>1. id = <<q.id, q.header>>
      BY <2>1 DEF KeyOf
    <3>2. \A a, b, c, d : <<a, b>> = <<c, d>> => a = c /\ b = d
      OBVIOUS
    <3> QED BY <3>1, <3>2
  <2>4. CASE what = <<"method">> /\ dimension = "method"
    <3> DEFINE whens == {}
               by == {"method", "action"}
    <3>1. id = <<"waf.byMethod", "">>
      BY <2>4 DEF IdOf
    <3>2. Asks(q.clauses, whens, by, TRUE)
      <4>1. q.id = "waf.byMethod"
        BY <2>7, <3>1, Zenon
      <4>2. q = wafByMethod
        BY <2>2, <2>3, <4>1
      <4> QED BY <4>2, BreakdownsAsk
    <3>3. ASSUME NEW rec, NEW r, \A name \in by : r.by[name] = GroupValue(f, w, q, rec, name)
          PROVE  WafKey(dimension, r) = KeyOfLine(what, rec)
      <4>1. r.by["method"] = {rec.method}
        BY <3>3 DEF GroupValue
      <4>2. The(r.by["method"]) = rec.method
        BY <4>1 DEF The
      <4> QED BY <2>4, <4>2 DEF WafKey, KeyOfLine
    <3>4. "action" \in by /\ \A rec : \A when \in whens : Passes(f, q, rec, when)
      OBVIOUS
    <3>5. TellsKeys(q, whens, by, dimension, what)
      BY <3>3, <3>4 DEF TellsKeys
    <3> HIDE DEF whens, by
    <3> QED BY <1>2, <2>1, <3>2, <3>4, <3>5, AnswerAddsUp
  <2>5. CASE what = <<"path">> /\ dimension = "path"
    <3> DEFINE whens == {}
               by == {"uri", "args", "action"}
    <3>1. id = <<"waf.byPath", "">>
      BY <2>5 DEF IdOf
    <3>2. Asks(q.clauses, whens, by, TRUE)
      <4>1. q.id = "waf.byPath"
        BY <2>7, <3>1, Zenon
      <4>2. q = wafByPath(fetch)
        BY <2>2, <2>3, <4>1
      <4> QED BY <4>2, BreakdownsAsk
    <3>3. ASSUME NEW rec, NEW r, \A name \in by : r.by[name] = GroupValue(f, w, q, rec, name)
          PROVE  WafKey(dimension, r) = KeyOfLine(what, rec)
      <4>1. r.by["uri"] = {rec.uri} /\ r.by["args"] = {rec.args}
        BY <3>3 DEF GroupValue
      <4>2. The(r.by["uri"]) = rec.uri /\ The(r.by["args"]) = rec.args /\ (r.by["args"] = {""} <=> rec.args = "")
        BY <4>1 DEF The
      <4> QED BY <2>5, <4>2 DEF WafKey, KeyOfLine
    <3>4. "action" \in by /\ \A rec : \A when \in whens : Passes(f, q, rec, when)
      OBVIOUS
    <3>5. TellsKeys(q, whens, by, dimension, what)
      BY <3>3, <3>4 DEF TellsKeys
    <3> HIDE DEF whens, by
    <3> QED BY <1>2, <2>1, <3>2, <3>4, <3>5, AnswerAddsUp
  <2>6. ASSUME NEW header, what = <<"header", header>>, dimension = "value"
        PROVE  AllRight(what, pivotWAFActions(Rows(id), dimension))
    <3> DEFINE whens == {"header"}
               by == {"value", "action"}
    <3>0. what # <<"method">> /\ what # <<"path">> /\ what[1] = "header" /\ what[2] = header
      BY <2>6
    <3>1. id = <<"waf.byHeader", header>>
      BY <3>0 DEF IdOf
    <3>2. Asks(q.clauses, whens, by, TRUE) /\ q.header = header
      <4>1. q.id = "waf.byHeader" /\ q.header = header
        BY <2>7, <3>1, Zenon
      <4>2. PICK i \in DOMAIN cfg.wafHeaders : q \in wafByHeader(cfg.wafHeaders[i], fetch)
        BY <2>2, <2>3, <4>1
      <4> QED BY <4>1, <4>2, BreakdownsAsk
    <3>3. \A rec : Passes(f, q, rec, "header") <=> header \in DOMAIN rec.headers
      BY <3>2 DEF Passes
    <3>4. \A rec : KeyOfLine(what, rec) = <<Said(rec.headers, header, "")>>
      BY <3>0 DEF KeyOfLine
    <3>5. ASSUME NEW rec, NEW r, \A name \in by : r.by[name] = GroupValue(f, w, q, rec, name),
                 \A when \in whens : Passes(f, q, rec, when)
          PROVE  WafKey(dimension, r) = KeyOfLine(what, rec)
      <4>1. r.by["value"] = {rec.headers[header]}
        BY <3>2, <3>5 DEF GroupValue
      <4>2. The(r.by["value"]) = rec.headers[header]
        BY <4>1 DEF The
      <4>3. KeyOfLine(what, rec) = <<rec.headers[header]>>
        BY <3>3, <3>4, <3>5 DEF Said
      <4> QED BY <2>6, <4>2, <4>3 DEF WafKey
    <3>6. \A rec : KeyOfLine(what, rec) # <<"">> => \A when \in whens : Passes(f, q, rec, when)
      BY <3>3, <3>4 DEF Said
    <3>7. "action" \in by
      OBVIOUS
    <3>8. TellsKeys(q, whens, by, dimension, what)
      BY <3>5, <3>6 DEF TellsKeys
    <3> HIDE DEF whens, by
    <3> QED BY <1>2, <2>1, <3>2, <3>7, <3>8, AnswerAddsUp
  <2> QED BY <2>4, <2>5, <2>6 DEF Told
<1> QED BY <1>1, <1>2

\* The breakdowns of the panel.
Right(l) == AllRight(l.dimension, l.list)

LEMMA BreakdownsRight ==
  ASSUME RowsInv, AnswersInv, kind = "waf-breakdown"
  PROVE  \E S : Breakdowns \in Seq(S) /\ \A l \in S : Right(l)
<1> DEFINE names == Range(cfg.wafHeaders)
           headers == SetToSeq(names)
           L(what, dimension) == [dimension |-> what, list |-> pivotWAFActions(Rows(IdOf(what)), dimension)]
           a == <<L(<<"method">>, "method"), L(<<"path">>, "path")>>
           b == [i \in DOMAIN headers |-> L(<<"header", headers[i]>>, "value")]
           S == Range(a) \cup Range(b)
<1>1. headers \in Seq(names)
  <2>1. PICK n \in Nat : cfg.wafHeaders \in [1..n -> STRING]
    BY DEF RowsInv
  <2>2. IsFiniteSet(1..n)
    <3>1. 1 \in Int /\ n \in Int
      OBVIOUS
    <3> QED BY <3>1, FS_Interval
  <2>3. cfg.wafHeaders \in Surjection(1..n, names)
    BY <2>1 DEF Surjection, Range
  <2>4. IsFiniteSet(names)
    BY <2>2, <2>3, FS_Surjection
  <2> HIDE DEF names
  <2> QED BY <2>4, SetListed
<1> HIDE DEF headers, names
<1>2. /\ IdOf(<<"method">>) = <<"waf.byMethod", "">> /\ IdOf(<<"path">>) = <<"waf.byPath", "">>
      /\ \A h : IdOf(<<"header", h>>) = <<"waf.byHeader", h>>
  <2>1. \A h : <<"header", h>> # <<"method">> /\ <<"header", h>> # <<"path">>
                 /\ <<"header", h>>[1] = "header" /\ <<"header", h>>[2] = h
    OBVIOUS
  <2> QED BY <2>1 DEF IdOf
<1>3. Breakdowns = a \o b
  BY <1>2 DEF Breakdowns, headers, names
<1>4. \A what, dimension : Told(what, dimension) => Right(L(what, dimension))
  <2> SUFFICES ASSUME NEW what, NEW dimension, Told(what, dimension) PROVE Right(L(what, dimension))
    OBVIOUS
  <2> DEFINE l == L(what, dimension)
  <2>1. l.dimension = what /\ l.list = pivotWAFActions(Rows(IdOf(what)), dimension)
    OBVIOUS
  <2> HIDE DEF l
  <2>2. Right(l)
    BY <2>1, BreakdownAddsUp DEF Right
  <2> QED BY <2>2 DEF l
<1>5. /\ Told(<<"method">>, "method") /\ Told(<<"path">>, "path")
      /\ \A h : Told(<<"header", h>>, "value")
  BY DEF Told
<1> HIDE DEF L
<1>6. \A l \in Range(a) : Right(l)
  BY <1>4, <1>5 DEF Range
<1>7. \A l \in Range(b) : Right(l)
  BY <1>4, <1>5 DEF Range
<1>8. a \in Seq(S)
  BY DEF Range
<1>9. b \in Seq(S)
  <2>1. DOMAIN headers = 1..Len(headers) /\ Len(headers) \in Nat
    BY <1>1
  <2>2. b = [i \in 1..Len(headers) |-> L(<<"header", headers[i]>>, "value")]
    BY <2>1
  <2>3. \A i \in 1..Len(headers) : b[i] \in S
    BY <2>2 DEF Range
  <2> HIDE DEF S
  <2>4. b \in [1..Len(headers) -> S]
    BY <2>2, <2>3
  <2> HIDE DEF b
  <2> QED BY <2>1, <2>4, SeqDef
<1>10. \A l \in S : Right(l)
  BY <1>6, <1>7
<1> HIDE DEF a, b, S
<1> QED BY <1>3, <1>8, <1>9, <1>10

\* The first rows of a breakdown are rows of it.
LEMMA FirstRowsRight ==
  ASSUME NEW l, Right(l), cfg.topN \in Nat
  PROVE  LET first == FirstRows(l)
         IN  first \in Seq(Range(first)) /\ \A x \in Range(first) : ShownRight(x.dimension, x.row)
<1> DEFINE n == Len(l.list)
           m == Min({n, cfg.topN})
           first == FirstRows(l)
<1>1. PICK made : l.list \in Seq(made) /\ \A b \in made : ShownRight(l.dimension, b)
  BY DEF Right, AllRight
<1>2. n \in Nat /\ \A i \in 1..n : l.list[i] \in made
  BY <1>1
<1> HIDE DEF n
<1>3. m \in Nat /\ m <= n
  <2>1. \E x \in {n, cfg.topN} : \A y \in {n, cfg.topN} : x <= y
    BY <1>2
  <2>2. m \in {n, cfg.topN} /\ \A y \in {n, cfg.topN} : m <= y
    BY <2>1 DEF Min
  <2> QED BY <1>2, <2>2
<1>4. first = [i \in 1..m |-> [dimension |-> l.dimension, row |-> l.list[i]]]
  BY DEF FirstRows, n
<1> HIDE DEF m, first
<1>5. \A i \in 1..m : first[i].dimension = l.dimension /\ first[i].row = l.list[i] /\ i \in 1..n
  BY <1>2, <1>3, <1>4
<1>6. \A x \in Range(first) : ShownRight(x.dimension, x.row)
  <2> TAKE x \in Range(first)
  <2>1. PICK i \in 1..m : x = first[i]
    BY <1>4 DEF Range
  <2> QED BY <1>1, <1>2, <1>5, <2>1
<1>7. first \in Seq(Range(first))
  <2> DEFINE S == Range(first)
  <2>1. first \in [1..m -> S]
    BY <1>4 DEF Range
  <2> HIDE DEF S
  <2>2. first \in Seq(S)
    BY <1>3, <2>1
  <2> QED BY <2>2 DEF S
<1> QED BY <1>6, <1>7 DEF first

\* So does every row of the panel.
LEMMA BreakdownRowsRight ==
  ASSUME RowsInv, AnswersInv, kind = "waf-breakdown", NEW p, p = buildWAFBreakdownPanel,
         NEW i \in DOMAIN p.table[1].rows
  PROVE  LET x == p.table[1].rows[i] IN ShownRight(x.dimension, x.row)
<1> DEFINE lists == Breakdowns
           rows == FlattenSeq([j \in DOMAIN lists |-> FirstRows(lists[j])])
           s == [j \in DOMAIN lists |-> FirstRows(lists[j])]
           U == UNION {Range(s[j]) : j \in DOMAIN s}
<1>1. PICK S : lists \in Seq(S) /\ \A l \in S : Right(l)
  BY BreakdownsRight
<1>2. Len(lists) \in Nat /\ DOMAIN lists = 1..Len(lists) /\ \A j \in DOMAIN lists : Right(lists[j])
  BY <1>1
<1> DEFINE n == Len(lists)
<1>3. n \in Nat /\ s = [j \in 1..n |-> FirstRows(lists[j])] /\ \A j \in 1..n : Right(lists[j])
  BY <1>2
<1> HIDE DEF lists, n, s
<1>4. \A j \in 1..n : s[j] \in Seq(Range(s[j])) /\ \A x \in Range(s[j]) : ShownRight(x.dimension, x.row)
  BY <1>3, FirstRowsRight DEF AnswersInv
<1>5. \A j \in 1..n : Range(s[j]) \subseteq U
  BY <1>3
<1>6. \A x \in U : ShownRight(x.dimension, x.row)
  BY <1>3, <1>4
<1> HIDE DEF U
<1>7. \A j \in 1..n : s[j] \in Seq(U)
  BY <1>4, <1>5
<1>8. s \in Seq(Seq(U))
  <2>1. s \in [1..n -> Seq(U)]
    BY <1>3, <1>7
  <2> QED BY <1>3, <2>1
<1>9. FlattenSeq(s) \in Seq(U)
  BY <1>8, Flattened
<1>10. p.table[1].rows = FlattenSeq(s)
  <2> DEFINE keysFound == MapThenSumSet(LAMBDA j : Len(lists[j].list), DOMAIN lists)
             refused == SelectSeq(cfg.wafHeaders, LAMBDA h : ~isQueryableHeader(h))
             e == [newPanel(kind) EXCEPT !.warnings = [j \in DOMAIN refused |-> <<"header", refused[j]>>]]
             a == noteQueryErrors(e)
             total == honestTotal(keysFound, Len(rows))
             table == newTable(rows, total, cfg.topN)
             sum == {SumOf(Range(lists[1].list), "total")}
             stats == [k \in {"requests.total"} |-> sum]
  <2>1. p = [a EXCEPT !.table = <<table>>, !.bars = <<"key", "count", "dimension">>, !.stats = stats]
    BY DEF buildWAFBreakdownPanel, lists
  <2>2. DOMAIN e = PanelFields
    BY DEF newPanel, PanelFields
  <2> HIDE DEF e
  <2>3. DOMAIN a = PanelFields
    BY <2>2 DEF noteQueryErrors, warn
  <2>4. table.rows = rows /\ rows = FlattenSeq(s)
    BY DEF newTable, s
  <2> HIDE DEF a, table, stats, rows
  <2>5. p.table = <<table>>
    BY <2>1, <2>3 DEF PanelFields
  <2> QED BY <2>4, <2>5
<1> QED BY <1>6, <1>9, <1>10

LEMMA ColumnsInit ==
  ASSUME RowsInit
  PROVE  WafColumnsAddUp
<1>1. Of("waf-breakdown") = {}
  BY DEF RowsInit, Of
<1> QED BY <1>1 DEF WafColumnsAddUp

LEMMA ColumnsStep ==
  ASSUME RowsInv, AnswersInv, WafColumnsAddUp, [RowsNext]_rowsVars
  PROVE  WafColumnsAddUp'
<1>1. UNCHANGED <<w, logs>>
  BY PanelsSame DEF Built
<1> DEFINE Adds(x, shown) ==
             /\ AddsUp(shown.row)
             /\ ~x.results[IdOf(shown.dimension)].cut =>
                  CountsThem(shown.row, LinesOf(shown.dimension, shown.row.key))
           Fine(x) == \A i \in DOMAIN x.panel.table[1].rows : Adds(x, x.panel.table[1].rows[i])
<1>2. WafColumnsAddUp <=> \A x \in Of("waf-breakdown") : Fine(x)
  BY DEF WafColumnsAddUp, AddsUp, CountsThem, LinesOf
<1>3. WafColumnsAddUp' <=> \A x \in Of("waf-breakdown")' : Fine(x)
  <2>1. \A dimension, key : LinesOf(dimension, key)' = LinesOf(dimension, key)
    BY <1>1 DEF LinesOf, KeyOfLine
  <2>2. WafColumnsAddUp' <=> \A x \in Of("waf-breakdown")' : Fine(x)'
    BY DEF WafColumnsAddUp, AddsUp, CountsThem, LinesOf
  <2>3. \A x, shown : Adds(x, shown)' <=> Adds(x, shown)
    BY <2>1 DEF AddsUp, CountsThem, IdOf
  <2>4. \A x : Fine(x)' <=> Fine(x)
    <3> HIDE DEF Adds
    <3> QED BY <2>3
  <2> HIDE DEF Fine
  <2> QED BY <2>2, <2>4
<1>4. CASE Built
  <2>1. ASSUME NEW x \in Of("waf-breakdown")', x \notin Of("waf-breakdown") PROVE Fine(x)
    <3>1. kind = "waf-breakdown" /\ x.panel = Panel /\ x.results = results
      BY <1>4, <2>1, BuiltPanels
    <3>2. x.panel = buildWAFBreakdownPanel
      BY <3>1 DEF Panel
    <3>3. ASSUME NEW i \in DOMAIN x.panel.table[1].rows
          PROVE  Adds(x, x.panel.table[1].rows[i])
      <4> DEFINE shown == x.panel.table[1].rows[i]
      <4>1. ShownRight(shown.dimension, shown.row)
        BY <3>1, <3>2, BreakdownRowsRight
      <4> HIDE DEF shown
      <4>2. Adds(x, shown)
        BY <3>1, <4>1 DEF ShownRight
      <4> QED BY <4>2 DEF shown
    <3> QED BY <3>3
  <2> HIDE DEF Fine
  <2> QED BY <1>2, <1>3, <2>1
<1>5. CASE ~Built
  <2>1. panels' = panels
    BY <1>5, PanelsSame
  <2>2. Of("waf-breakdown")' = Of("waf-breakdown")
    BY <2>1 DEF Of
  <2> HIDE DEF Fine
  <2> QED BY <1>2, <1>3, <2>2
<1> QED BY <1>4, <1>5

\* COLUMNS: the columns of every row of the WAF's breakdowns add up to its total, and
\* are the numbers of the key's lines, with the action of a latest of them, unless
\* Insights cut the answer (http/panels-logs.ts:965-1079, domain/query.ts:528-616).
THEOREM WafColumnsAreRight == RowsSpec => []WafColumnsAddUp
<1>1. RowsInit => RowsInv /\ AnswersInv /\ WafColumnsAddUp
  BY InitRows, AnswersInit, ColumnsInit, LogRowsAssumption
<1>2. (RowsInv /\ AnswersInv /\ WafColumnsAddUp) /\ [RowsNext]_rowsVars
        => (RowsInv /\ AnswersInv /\ WafColumnsAddUp)'
  BY StepRows, AnswersStep, ColumnsStep
<1> QED BY <1>1, <1>2, PTL DEF RowsSpec

===============================================================================
