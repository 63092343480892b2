----------------------------- MODULE MetricFetch -----------------------------
(***************************************************************************)
(* MetricFetcher (aws/metrics.ts of the node engine): one fetch of a       *)
(* panel's metrics, in chunks of queries, each read page by page, against  *)
(* a CloudWatch that hands over the series of a chunk in pieces of its own *)
(* choosing.                                                               *)
(*                                                                         *)
(* A request is a record of a key, a spec and filters.  CloudWatch holds   *)
(* the published metrics: each has the key of its spec, its dimensions,    *)
(* the label it is given, the region it is in, and its samples, cut into   *)
(* pieces.  A piece may be empty: the index of CloudWatch remembers        *)
(* metrics that have no sample in the window.                              *)
(*                                                                         *)
(* Bounds: ChunkSize for the 500 queries of a call, MaxPages for the 20    *)
(* pages of a chunk.                                                       *)
(***************************************************************************)
EXTENDS Series, MetricCatalog

CONSTANTS
  Published,   (* the metrics CloudWatch knows                             *)
  ChunkSize,   (* maxQueriesPerCall                                        *)
  MaxPages     (* maxPages                                                 *)

ASSUME MetricFetchAssumption == ChunkSize \in Nat \ {0} /\ MaxPages \in Nat \ {0}

\* CloudWatch gives what it finds in at least one piece, and the stamps of a series
\* in ascending order, as it is asked to (ScanBy).
ASSUME PublishedAssumption ==
  /\ IsFiniteSet(Published)
  /\ \A m \in Published :
       /\ m.label \in Nat
       /\ m.pieces # <<>> /\ m.pieces \in Seq(ToSet(m.pieces))
       /\ \A i \in DOMAIN m.pieces :
            /\ IsFiniteSet(DOMAIN m.pieces[i])
            /\ \A t \in DOMAIN m.pieces[i] : t \in Nat /\ m.pieces[i][t] \in Int
            /\ \A j \in DOMAIN m.pieces : i < j =>
                 \A t \in DOMAIN m.pieces[i], u \in DOMAIN m.pieces[j] : t <= u

VARIABLES
  w,       (* the window of the request                                    *)
  reqs,    (* the requests, a sequence                                     *)
  region,  (* where the client of the fetch asks                           *)
  pc,      (* "asking", "done", "failed" or "built"                        *)
  first,   (* the chunk asked for starts after this many queries           *)
  page,    (* pages of the chunk read so far                               *)
  given,   (* CloudWatch: pieces handed over of each series of the chunk   *)
  out      (* the series of each key, in the order they came               *)

fetchVars == <<w, reqs, region, pc, first, page, given, out>>

\* Whatever a request expresses, CloudWatch matches the schema as a set and the
\* terms by value.
Matches(expr, m) ==
  /\ m.metric = expr.metric
  /\ DOMAIN m.dims = expr.schema
  /\ \A k \in DOMAIN expr.terms : k \in DOMAIN m.dims /\ m.dims[k] = expr.terms[k]

\* The series a request stands for, where it is asked.
Found(req) ==
  {m \in Published : m.region = region /\ \E e \in searchExpression(req.spec, req.filters) : Matches(e, m)}

\* The queries of the chunk that starts after n of them.
Chunk(n) == SubSeq(reqs, n + 1, IF n + ChunkSize < Len(reqs) THEN n + ChunkSize ELSE Len(reqs))

Answers(n) == UNION {{q} \X Found(q) : q \in ToSet(Chunk(n))}

\* A fetch is refused before anything is asked when a filter cannot be said, or
\* when two keys make the same id.
Askable ==
  /\ \A i \in DOMAIN reqs : searchExpression(reqs[i].spec, reqs[i].filters) # {}
  /\ \A i, j \in DOMAIN reqs : i # j => queryID(reqs[i].key) # queryID(reqs[j].key)

FetchInit(ws, wanted, rs) ==
  /\ w \in ws
  /\ reqs = wanted
  /\ region \in rs
  /\ pc = IF reqs = <<>> THEN "done" ELSE IF Askable THEN "asking" ELSE "failed"
  /\ first = 0
  /\ page = 0
  /\ given = [a \in Answers(0) |-> 0]
  /\ out = [k \in {reqs[i].key : i \in DOMAIN reqs} |-> <<>>]

alignToBucket(t) == align(w, t)

\* Mutant: a later page of a series replaces what an earlier one brought.
Overwritten(points, piece) ==
  [b \in {alignToBucket(t) : t \in DOMAIN piece} |->
     piece[Max({t \in DOMAIN piece : alignToBucket(t) = b})]]

\* A piece is laid over the points there are: the later stamp of a bucket wins,
\* as CloudWatch gives stamps in ascending order.
Joined(points, piece) ==
  LET come == {alignToBucket(t) : t \in DOMAIN piece}
  IN  [b \in DOMAIN points \cup come |->
         IF b \in come THEN piece[Max({t \in DOMAIN piece : alignToBucket(t) = b})] ELSE points[b]]

\* A result goes to the series of its key and label, which is made if need be.
Into(list, label, piece) ==
  IF \A i \in DOMAIN list : list[i].label # label
  THEN Append(list, [label |-> label, points |-> Joined([b \in {} |-> 0], piece)])
  ELSE [i \in DOMAIN list |->
          IF list[i].label = label THEN [list[i] EXCEPT !.points = Joined(@, piece)] ELSE list[i]]

\* The results of a page in the order they stand there.
Taken(results) ==
  LET after[n \in 0..Len(results)] ==
        IF n = 0 THEN out
        ELSE LET a == results[n]
             IN  [after[n - 1] EXCEPT ![a[1].key] = Into(@, a[2].label, a[2].pieces[given[a] + 1])]
  IN  after[Len(results)]

\* The page was read: the walk goes on as long as there is a token, and then
\* with the next chunk.
WalkOn(token, given1) ==
  IF token
  THEN /\ page' = page + 1
       /\ given' = given1
       /\ UNCHANGED <<first, pc>>
  ELSE /\ page' = 0
       /\ first' = first + ChunkSize
       /\ given' = [a \in Answers(first + ChunkSize) |-> 0]
       /\ pc' = IF first + ChunkSize >= Len(reqs) THEN "done" ELSE "asking"

\* Mutant: nothing limits the walk.
NeverTooMany == pc = "asking" /\ page >= MaxPages /\ UNCHANGED fetchVars

\* A GetMetricData that never runs out of tokens.
TooManyPages ==
  /\ pc = "asking" /\ page >= MaxPages
  /\ pc' = "failed"
  /\ UNCHANGED <<w, reqs, region, first, page, given, out>>

Left(a) == given[a] < Len(a[2].pieces)

\* CloudWatch answers with the next piece of some series of the chunk, in any
\* order, and with a token as long as anything is left, or for no reason.
ReadPage ==
  /\ pc = "asking" /\ page < MaxPages
  /\ \E come \in SUBSET {a \in DOMAIN given : Left(a)} :
       LET results == SetToSeq(come)
           given1 == [a \in DOMAIN given |-> given[a] + (IF a \in come THEN 1 ELSE 0)]
           rest == \E a \in DOMAIN given : given1[a] < Len(a[2].pieces)
       IN  /\ out' = Taken(results)
           /\ \E token \in {TRUE, rest} : WalkOn(token, given1)
  /\ UNCHANGED <<w, reqs, region>>

\* The call fails, or its answer is not one to what was asked: an id nobody asked
\* for, or stamps and values that do not pair up.
PageFails ==
  /\ pc = "asking" /\ page < MaxPages
  /\ pc' = "failed"
  /\ UNCHANGED <<w, reqs, region, first, page, given, out>>

FetchNext == ReadPage \/ TooManyPages \/ PageFails

\* A series on the axis of the window; points that are not on it are lost.
toSeries(m, label, color) ==
  LET axis == timestamps(w)
  IN  [newSeries(label, color, buckets(w)) EXCEPT
         !.values = [i \in {j \in DOMAIN axis : axis[j] \in DOMAIN m.points} |-> m.points[axis[i]]]]

\* Series of different labels by label, in the order the labels are ranked in.
sortSeries(S) ==
  [k \in 1..Cardinality(S) |->
     CHOOSE s \in S : Cardinality({r \in S : r.label < s.label}) = k - 1]
===============================================================================
