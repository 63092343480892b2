------------------------------ MODULE TimeWindow ------------------------------
(***************************************************************************)
(* domain/window.ts of the node engine: the ranges and periods a request   *)
(* may ask for, and the one window every panel of its answer shares.       *)
(*                                                                         *)
(* Times are whole seconds.  The text of a duration is a number and a      *)
(* unit, <<90, "m">>, or Junk; the empty text is Empty.  An operator of    *)
(* the source that may throw yields a set here: what it returns, alone,    *)
(* or nothing when it throws.                                              *)
(***************************************************************************)
EXTENDS Integers, Sequences

minute == 60
hour == 60 * minute

Empty == <<0, "empty">>
Junk == <<0, "junk">>

allRanges == <<15 * minute, 30 * minute, hour, 2 * hour, 4 * hour>>
allPeriods == <<minute, 5 * minute, 10 * minute, hour>>

maxRange == 4 * hour
minBuckets == 4
maxBuckets == 250

InSeq(s) == {s[i] : i \in 1..Len(s)}

\* The shortest unit that says a duration exactly.
compactDuration(d) ==
  IF d % hour = 0 THEN <<d \div hour, "h">>
  ELSE IF d % minute = 0 THEN <<d \div minute, "m">> ELSE <<d, "s">>

\* Only the listed durations are known by their text: 60m is not 1h.
parseRange(s) == {r \in InSeq(allRanges) : compactDuration(r) = s}
parsePeriod(s) == {p \in InSeq(allPeriods) : compactDuration(p) = s}

bucketCount(r, p) == IF p <= 0 THEN 0 ELSE r \div p

periodsFor(r) == {p \in InSeq(allPeriods) : bucketCount(r, p) \in minBuckets..maxBuckets}

defaultPeriods == [r \in InSeq(allRanges) |-> IF r = 4 * hour THEN 5 * minute ELSE minute]

\* A range without a default falls back to the coarsest period it can have.
defaultPeriod(r) ==
  LET valid == periodsFor(r)
  IN  IF r \in DOMAIN defaultPeriods THEN defaultPeriods[r]
      ELSE IF valid = {} THEN minute ELSE CHOOSE p \in valid : \A q \in valid : q <= p

validateWindow(r, p) ==
  /\ r \in 1..maxRange
  /\ p > 0
  /\ bucketCount(r, p) \in minBuckets..maxBuckets
  /\ r % p = 0

\* Mutant: the window ends now, in the middle of a bucket.
RawWindow(now, r, p) ==
  IF validateWindow(r, p) THEN {[start |-> now - r, end |-> now, range |-> r, period |-> p]}
  ELSE {}

\* The window ends at the last full period before now.
newWindow(now, r, p) ==
  LET end == (now \div p) * p
  IN  IF validateWindow(r, p)
      THEN {[start |-> end - r, end |-> end, range |-> r, period |-> p]}
      ELSE {}

buckets(w) == bucketCount(w.range, w.period)

\* The left edge of every bucket: the axis of every series of the answer.
timestamps(w) == [i \in 0..(buckets(w) - 1) |-> w.start + i * w.period]

\* The bucket a time falls in, if it is in the window at all.
indexOf(w, t) == IF t < w.start \/ t >= w.end THEN {} ELSE {(t - w.start) \div w.period}

contains(w, t) == indexOf(w, t) # {}

align(w, t) == (t \div w.period) * w.period

\* What the query string asks for, with the defaults filled in.
resolveWindow(now, rangeStr, periodStr) ==
  UNION {UNION {newWindow(now, r, p) :
                p \in IF periodStr = Empty THEN {defaultPeriod(r)} ELSE parsePeriod(periodStr)} :
         r \in IF rangeStr = Empty THEN {hour} ELSE parseRange(rangeStr)}
===============================================================================
