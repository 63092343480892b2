----------------------------- MODULE WindowProofs ----------------------------
(***************************************************************************)
(* The one window of an answer, from the picker in the browser to the axis *)
(* of a chart: theorems of TimeWindow.tla and of its two users, the page   *)
(* that asks for a window (PageView.tla) and the panels that are drawn on  *)
(* it (MetricPanels.tla).                                                  *)
(*                                                                         *)
(* The axis is a matter of integer division: a window is a whole number of *)
(* periods and ends at a multiple of one.  The page is a matter of the     *)
(* selection: it is always one the server accepts, because the table the   *)
(* picker starts with is the one /api/meta gives, and whatever is on       *)
(* screen or under way is of the selection that was asked for last.        *)
(*                                                                         *)
(* The panels are a matter of the fetch (MetricFetch.tla): its invariant says *)
(* that each request holds the pieces CloudWatch has given of each of its  *)
(* metrics, joined in their order.  So a fetched panel has an entry with all *)
(* the samples of each metric, toSeriesList makes one line of each entry, and *)
(* what is added up along the lines, or across them, is the sum of the     *)
(* samples.  The lists of the panels are followed by pairing their entries *)
(* off with the metrics they are due to.                                   *)
(***************************************************************************)
EXTENDS PageView, MetricPanels, FiniteSetTheorems, FunctionTheorems, SequenceTheorems,
        WellFoundedInduction, TLAPS

\* Euclid's division, as far as an axis needs it.
LEMMA DivFacts ==
  ASSUME NEW a \in Int, NEW p \in Nat \ {0}
  PROVE  /\ a \div p \in Int
         /\ p * (a \div p) <= a
         /\ a < p * (a \div p) + p
         /\ a % p = 0 => a = p * (a \div p)
<1>1. a % p = a - p * (a \div p) /\ a % p \in 0 .. p - 1
  OBVIOUS
<1>2. QED
  BY <1>1

\* A number lies in one period only.
LEMMA DivUnique ==
  ASSUME NEW a \in Int, NEW p \in Nat \ {0}, NEW q \in Int, NEW s \in 0 .. p - 1, a = p * q + s
  PROVE  a \div p = q
  OBVIOUS

\* A multiple of p leaves nothing over.
LEMMA ModUnique ==
  ASSUME NEW a \in Int, NEW p \in Nat \ {0}, NEW q \in Int, a = p * q
  PROVE  a % p = 0 /\ a \div p = q
  OBVIOUS

\* Multiplication by p keeps the order.
LEMMA MulMonotone ==
  ASSUME NEW p \in Nat \ {0}, NEW a \in Int, NEW b \in Int
  PROVE  /\ p * a \in Int
         /\ a < b => p * a + p <= p * b
         /\ a <= b => p * a <= p * b
         /\ p * a < p * b => a < b
         /\ p * a < p * b + p => a <= b
         /\ p * a = p * b => a = b
  OBVIOUS

\* A product with a sum or a difference.
LEMMA MulDistributes ==
  ASSUME NEW p \in Int, NEW a \in Int, NEW b \in Int
  PROVE  p * (a - b) = p * a - p * b /\ p * (a + b) = p * a + p * b /\ p * a = a * p
  OBVIOUS

-------------------------------------------------------------------------------

\* A window is a whole number n of periods, of which the last is the q-th since
\* the epoch.
Whole(x, q, n) ==
  /\ x.period \in Nat \ {0}
  /\ q \in Int /\ n \in minBuckets .. maxBuckets
  /\ x.end = x.period * q
  /\ x.start = x.period * (q - n)
  /\ x.range = x.period * n
  /\ buckets(x) = n

\* Every window that newWindow makes is one, and ends in the period of now.
LEMMA WindowsAreWhole ==
  ASSUME NEW now \in Int, NEW r \in Int, NEW p \in Int, NEW x \in newWindow(now, r, p)
  PROVE  /\ Whole(x, now \div p, r \div p)
         /\ x.range = r /\ x.period = p
         /\ x.end <= now /\ now < x.end + p
<1> DEFINE e == (now \div p) * p
<1>1. /\ validateWindow(r, p)
      /\ x = [start |-> e - r, end |-> e, range |-> r, period |-> p]
  BY DEF newWindow
<1>2. /\ p \in Nat \ {0} /\ r % p = 0 /\ bucketCount(r, p) \in minBuckets .. maxBuckets
  BY <1>1 DEF validateWindow
<1>3. bucketCount(r, p) = r \div p
  BY <1>2 DEF bucketCount
<1>4. now \div p \in Int /\ r \div p \in Int /\ r = p * (r \div p)
      /\ p * (now \div p) <= now /\ now < p * (now \div p) + p
  BY <1>2, DivFacts
<1>5. e = p * (now \div p)
  BY <1>2, <1>4, MulDistributes
<1>6. e - r = p * (now \div p - r \div p)
  BY <1>2, <1>4, <1>5, MulDistributes
<1>7. x.start = e - r /\ x.end = e /\ x.range = r /\ x.period = p
  BY <1>1
<1> HIDE DEF e
<1>8. buckets(x) = r \div p
  BY <1>3, <1>7 DEF buckets
<1>9. QED
  BY <1>2, <1>3, <1>4, <1>5, <1>6, <1>7, <1>8 DEF Whole

\* What a window is does not depend on the instant within its last period.
LEMMA WindowOfItsEnd ==
  ASSUME NEW now \in Int, NEW r \in Int, NEW p \in Int, NEW x \in newWindow(now, r, p)
  PROVE  x \in newWindow(x.end, x.range, x.period)
<1>1. Whole(x, now \div p, r \div p) /\ x.range = r /\ x.period = p
  BY WindowsAreWhole
<1>2. x.end = p * (now \div p) /\ p \in Nat \ {0} /\ now \div p \in Int
  BY <1>1 DEF Whole
<1>3. x.end \div p = now \div p
  BY <1>2, ModUnique, MulMonotone
<1>4. QED
  BY <1>1, <1>3 DEF newWindow

\* The axis of a whole window: its i-th bucket is the period q - n + i.
LEMMA AxisOfWhole ==
  ASSUME NEW x, NEW q, NEW n, Whole(x, q, n)
  PROVE  /\ DOMAIN timestamps(x) = 0 .. n - 1
         /\ \A i \in 0 .. n - 1 : timestamps(x)[i] = x.period * (q - n + i)
<1>1. timestamps(x) = [i \in 0 .. n - 1 |-> x.start + i * x.period]
  BY DEF timestamps, Whole
<1>2. ASSUME NEW i \in 0 .. n - 1
      PROVE  x.start + i * x.period = x.period * (q - n + i)
  <2>1. x.period \in Int /\ q - n \in Int /\ i \in Int /\ x.start = x.period * (q - n)
    BY DEF Whole, minBuckets, maxBuckets
  <2>2. QED
    BY <2>1, MulDistributes
<1>3. QED
  BY <1>1, <1>2

\* A time is in a whole window exactly when its period is one of those of the
\* window, and indexOf finds that one.
LEMMA TimesOfWhole ==
  ASSUME NEW x, NEW q, NEW n, Whole(x, q, n), NEW t \in Int
  PROVE  /\ t \div x.period \in Int
         /\ contains(x, t) <=> t \div x.period \in q - n .. q - 1
         /\ \A i \in indexOf(x, t) : i = t \div x.period - (q - n) /\ i \in 0 .. n - 1
<1> DEFINE p == x.period
           d == t \div p
<1>1. p \in Nat \ {0} /\ q \in Int /\ n \in Nat /\ x.end = p * q /\ x.start = p * (q - n)
  BY DEF Whole, minBuckets, maxBuckets
<1>2. d \in Int /\ p * d <= t /\ t < p * d + p
  BY <1>1, DivFacts
<1> HIDE DEF p, d
<1>3. t < x.start <=> d < q - n
  BY <1>1, <1>2, MulMonotone
<1>4. t >= x.end <=> d >= q
  BY <1>1, <1>2, MulMonotone
<1>5. ASSUME NEW i \in indexOf(x, t)
      PROVE  i = d - (q - n) /\ d \in q - n .. q - 1
  <2>1. i = (t - x.start) \div p /\ ~(t < x.start) /\ ~(t >= x.end)
    BY <1>5 DEF indexOf, p
  <2>2. /\ d - (q - n) \in Int
        /\ t - x.start = p * (d - (q - n)) + (t - p * d)
        /\ t - p * d \in 0 .. p - 1
        /\ t - x.start \in Int
    BY <1>1, <1>2, MulDistributes, MulMonotone
  <2>3. (t - x.start) \div p = d - (q - n)
    BY <1>1, <2>2, DivUnique
  <2>4. QED
    BY <1>1, <1>2, <1>3, <1>4, <2>1, <2>3
<1>6. contains(x, t) <=> d \in q - n .. q - 1
  BY <1>1, <1>2, <1>3, <1>4 DEF contains, indexOf
<1>7. QED
  BY <1>1, <1>2, <1>5, <1>6 DEF p, d

\* The bucket of a time is on the axis of a whole window exactly when the window
\* contains the time, and it is the one that indexOf names.
LEMMA AxisMeetsTimes ==
  ASSUME NEW x, NEW q, NEW n, Whole(x, q, n), NEW t \in Int
  PROVE  /\ contains(x, t) <=> \E i \in DOMAIN timestamps(x) : timestamps(x)[i] = align(x, t)
         /\ \A i \in indexOf(x, t) : timestamps(x)[i] = align(x, t)
<1> DEFINE p == x.period
           d == t \div p
<1>1. p \in Nat \ {0} /\ q \in Int /\ n \in Nat
  BY DEF Whole, minBuckets, maxBuckets
<1>2. /\ d \in Int
      /\ contains(x, t) <=> d \in q - n .. q - 1
      /\ \A i \in indexOf(x, t) : i = d - (q - n) /\ i \in 0 .. n - 1
  BY TimesOfWhole
<1>3. /\ DOMAIN timestamps(x) = 0 .. n - 1
      /\ \A i \in 0 .. n - 1 : timestamps(x)[i] = p * (q - n + i)
  BY AxisOfWhole
<1>4. align(x, t) = d * p
  BY DEF align
<1> HIDE DEF p, d
<1>5. align(x, t) = p * d
  BY <1>1, <1>2, <1>4, MulDistributes
<1>6. ASSUME NEW i \in 0 .. n - 1
      PROVE  timestamps(x)[i] = align(x, t) <=> i = d - (q - n)
  <2>1. timestamps(x)[i] = p * (q - n + i) /\ q - n + i \in Int
    BY <1>1, <1>3
  <2>2. p * (q - n + i) = p * d <=> q - n + i = d
    BY <1>1, <1>2, <2>1, MulMonotone
  <2>3. QED
    BY <1>1, <1>2, <1>5, <2>1, <2>2
<1>7. d \in q - n .. q - 1 <=> d - (q - n) \in 0 .. n - 1
  BY <1>1, <1>2
<1>8. QED
  BY <1>1, <1>2, <1>3, <1>6, <1>7

\* A metric and a log row of the same moment are drawn at the same place
\* (window.ts:192-240), on the axis of every window a panel can be asked for.
THEOREM PanelsShareOneAxis == PanelSpec => []OneAxis
<1>1. PanelInit => w \in Windows
  BY DEF PanelInit, FetchInit
<1>2. w \in Windows /\ [PanelNext]_panelVars => (w \in Windows)'
  BY DEF PanelNext, Fetches, FetchNext, ReadPage, TooManyPages, PageFails, Build, panelVars, fetchVars
<1>3. ASSUME w \in Windows
      PROVE  OneAxis
  <2> DEFINE q == w.end \div w.period
             n == w.range \div w.period
             axis == timestamps(w)
             near == {axis[i] + d : i \in DOMAIN axis, d \in {-w.period, -1, 0, 1, w.period - 1, w.period}}
  <2>1. w.end \in Int /\ w.period \in Int /\ w.range \in Int /\ w \in newWindow(w.end, w.range, w.period)
    BY <1>3, MetricPanelsAssumption DEF newWindow, validateWindow
  <2>2. Whole(w, q, n)
    BY <2>1, WindowsAreWhole
  <2> HIDE DEF q, n
  <2>3. w.period \in Nat \ {0} /\ q \in Int /\ n \in Nat /\ w.end = w.period * q
    BY <2>2 DEF Whole, minBuckets, maxBuckets
  <2>4. w.end % w.period = 0
    BY <2>1, <2>3, ModUnique
  <2>5. \A i \in DOMAIN axis : axis[i] \in Int
    <3>1. \A i \in 0 .. n - 1 : q - n + i \in Int /\ w.period * (q - n + i) \in Int
      BY <2>3, MulMonotone
    <3>2. /\ DOMAIN axis = 0 .. n - 1
          /\ \A i \in 0 .. n - 1 : axis[i] = w.period * (q - n + i)
      BY <2>2, AxisOfWhole
    <3>3. QED
      BY <3>1, <3>2
  <2>6. ASSUME NEW t \in near
        PROVE  t \in Int
    BY <2>3, <2>5
  <2> HIDE DEF near
  <2>7. \A t \in near :
          /\ contains(w, t) <=> \E i \in DOMAIN axis : axis[i] = alignToBucket(t)
          /\ \A i \in indexOf(w, t) : axis[i] = alignToBucket(t)
    <3> SUFFICES ASSUME NEW t \in near
                 PROVE  /\ contains(w, t) <=> \E i \in DOMAIN axis : axis[i] = align(w, t)
                        /\ \A i \in indexOf(w, t) : axis[i] = align(w, t)
      BY DEF alignToBucket
    <3>1. t \in Int
      BY <2>6
    <3>2. QED
      BY <2>2, <3>1, AxisMeetsTimes
  <2>8. QED
    BY <2>4, <2>7 DEF OneAxis, near
<1>4. QED
  BY <1>1, <1>2, <1>3, PTL DEF PanelSpec

-------------------------------------------------------------------------------

\* The ranges that are offered.
LEMMA ListedRanges == InSeq(allRanges) = {900, 1800, 3600, 7200, 14400}
<1>1. Len(allRanges) = 5 /\ 1 .. 5 = {1, 2, 3, 4, 5}
  BY DEF allRanges
<1>2. /\ allRanges[1] = 900 /\ allRanges[2] = 1800 /\ allRanges[3] = 3600
      /\ allRanges[4] = 7200 /\ allRanges[5] = 14400
  BY DEF allRanges, hour, minute
<1>3. QED
  BY <1>1, <1>2 DEF InSeq

\* The periods that are offered.
LEMMA ListedPeriods == InSeq(allPeriods) = {60, 300, 600, 3600}
<1>1. Len(allPeriods) = 4 /\ 1 .. 4 = {1, 2, 3, 4}
  BY DEF allPeriods
<1>2. allPeriods[1] = 60 /\ allPeriods[2] = 300 /\ allPeriods[3] = 600 /\ allPeriods[4] = 3600
  BY DEF allPeriods, hour, minute
<1>3. QED
  BY <1>1, <1>2 DEF InSeq

\* They are written as the picker shows them.
LEMMA ListedTexts ==
  /\ compactDuration(900) = min(15) /\ compactDuration(1800) = min(30) /\ compactDuration(3600) = hr(1)
  /\ compactDuration(7200) = hr(2) /\ compactDuration(14400) = hr(4)
  /\ compactDuration(60) = min(1) /\ compactDuration(300) = min(5) /\ compactDuration(600) = min(10)
  BY DEF compactDuration, hour, minute, min, hr

\* The periods of each range.
LEMMA PeriodsOfRanges ==
  /\ periodsFor(900) = {60} /\ periodsFor(1800) = {60, 300} /\ periodsFor(3600) = {60, 300, 600}
  /\ periodsFor(7200) = {60, 300, 600} /\ periodsFor(14400) = {60, 300, 600, 3600}
  BY ListedPeriods DEF periodsFor, bucketCount, minBuckets, maxBuckets

\* The default period of each range.
LEMMA DefaultsOfRanges ==
  /\ \A r \in {900, 1800, 3600, 7200} : defaultPeriod(r) = 60
  /\ defaultPeriod(14400) = 300
  BY ListedRanges DEF defaultPeriod, defaultPeriods, hour, minute

\* The table the picker starts with, written out in the browser (timerange.svelte.ts),
\* is the one /api/meta makes of the rules of the server (settings.ts:60-69): the
\* page is the same before and after it has come.
THEOREM PickerIsMeta == FALLBACK = handleMeta
<1> DEFINE F(r) == Offer(compactDuration(r), r, {compactDuration(p) : p \in periodsFor(r)},
                         compactDuration(defaultPeriod(r)))
<1>1. handleMeta = {F(900), F(1800), F(3600), F(7200), F(14400)}
  BY ListedRanges DEF handleMeta
<1>2. F(900) = Offer(min(15), 900, {min(1)}, min(1))
  BY ListedTexts, PeriodsOfRanges, DefaultsOfRanges
<1>3. F(1800) = Offer(min(30), 1800, {min(1), min(5)}, min(1))
  BY ListedTexts, PeriodsOfRanges, DefaultsOfRanges
<1>4. F(3600) = Offer(hr(1), 3600, {min(1), min(5), min(10)}, min(1))
  BY ListedTexts, PeriodsOfRanges, DefaultsOfRanges
<1>5. F(7200) = Offer(hr(2), 7200, {min(1), min(5), min(10)}, min(1))
  BY ListedTexts, PeriodsOfRanges, DefaultsOfRanges
<1>6. F(14400) = Offer(hr(4), 14400, {min(1), min(5), min(10), hr(1)}, min(5))
  BY ListedTexts, PeriodsOfRanges, DefaultsOfRanges
<1> HIDE DEF F
<1>7. QED
  BY <1>1, <1>2, <1>3, <1>4, <1>5, <1>6 DEF FALLBACK

\* What the picker offers is accepted, at any instant (window.ts:102-105).
LEMMA OffersAreAccepted ==
  ASSUME NEW e \in FALLBACK, NEW p \in e.periods, NEW now \in Nat
  PROVE  resolveWindow(now, e.range, p) # {}
<1>1. PICK r \in InSeq(allRanges) :
        e = Offer(compactDuration(r), r, {compactDuration(pp) : pp \in periodsFor(r)},
                  compactDuration(defaultPeriod(r)))
  BY PickerIsMeta DEF handleMeta
<1>2. e.range = compactDuration(r) /\ e.periods = {compactDuration(pp) : pp \in periodsFor(r)}
  BY <1>1 DEF Offer
<1>3. PICK pp \in periodsFor(r) : p = compactDuration(pp)
  BY <1>2
<1>4. r \in parseRange(e.range) /\ pp \in parsePeriod(p)
  BY <1>2, <1>3 DEF parseRange, parsePeriod, periodsFor
<1>5. e.range # Empty /\ p # Empty
  <2>1. compactDuration(r) # Empty
    BY ListedRanges, ListedTexts DEF min, hr, Empty
  <2>2. pp \in {60, 300, 600, 3600}
    BY ListedPeriods DEF periodsFor
  <2>3. compactDuration(pp) # Empty
    BY <2>2, ListedTexts DEF min, hr, Empty
  <2>4. QED
    BY <1>2, <1>3, <2>1, <2>3
<1>6. validateWindow(r, pp)
  BY <1>3, ListedRanges, PeriodsOfRanges DEF validateWindow, bucketCount, minBuckets, maxBuckets, maxRange, hour, minute
<1>7. newWindow(now, r, pp) # {}
  BY <1>6 DEF newWindow
<1>8. newWindow(now, r, pp) \subseteq resolveWindow(now, e.range, p)
  BY <1>4, <1>5 DEF resolveWindow
<1>9. QED
  BY <1>7, <1>8

\* The offers of the picker, each found by its range.
LEMMA Offers ==
  /\ \A e \in FALLBACK :
       /\ e.range \in Texts
       /\ e.periods \subseteq Texts
       /\ e.defaultPeriod \in e.periods
       /\ e.seconds <= MAX_RANGE_SECONDS
       /\ Known(FALLBACK, e.range) /\ Find(FALLBACK, e.range) = e
  /\ hr(1) \in {e.range : e \in FALLBACK} /\ min(1) \in PeriodsOf(FALLBACK, hr(1))
  /\ {e \in handleMeta : e.seconds <= MAX_RANGE_SECONDS} = FALLBACK
<1> USE DEF Offer, min, hr
<1>1. ASSUME NEW e \in FALLBACK
      PROVE  /\ e.range \in Texts
             /\ e.periods \subseteq Texts
             /\ e.defaultPeriod \in e.periods
             /\ e.seconds <= MAX_RANGE_SECONDS
  <2>1. e.range \in Texts
    BY <1>1 DEF FALLBACK, Texts
  <2>2. {<<1, "m">>, <<5, "m">>, <<10, "m">>, <<1, "h">>} \subseteq Texts
    BY DEF Texts
  <2>3. e.periods \subseteq Texts
    <3>1. e.periods \subseteq {<<1, "m">>, <<5, "m">>, <<10, "m">>, <<1, "h">>}
      BY <1>1 DEF FALLBACK
    <3>2. QED
      BY <2>2, <3>1
  <2>4. e.defaultPeriod \in e.periods
    BY <1>1 DEF FALLBACK
  <2>5. e.seconds <= MAX_RANGE_SECONDS
    BY <1>1 DEF FALLBACK, MAX_RANGE_SECONDS
  <2>6. QED
    BY <2>1, <2>3, <2>4, <2>5
<1>2. ASSUME NEW e \in FALLBACK, NEW f \in FALLBACK, e.range = f.range
      PROVE  e = f
  BY <1>2 DEF FALLBACK
<1>3. \E e \in FALLBACK : e.range = <<1, "h">> /\ <<1, "m">> \in e.periods
  BY DEF FALLBACK
<1> USE DEF Known, Find
<1>4. ASSUME NEW e \in FALLBACK
      PROVE  Known(FALLBACK, e.range) /\ Find(FALLBACK, e.range) = e
  BY <1>2
<1>5. QED
  <2>1. PICK e \in FALLBACK : e.range = <<1, "h">> /\ <<1, "m">> \in e.periods
    BY <1>3
  <2>2. hr(1) \in {f.range : f \in FALLBACK} /\ min(1) \in PeriodsOf(FALLBACK, hr(1))
    BY <1>4, <2>1 DEF PeriodsOf
  <2>3. {f \in handleMeta : f.seconds <= MAX_RANGE_SECONDS} = FALLBACK
    BY <1>1, PickerIsMeta
  <2>4. QED
    BY <1>1, <1>4, <2>2, <2>3

\* What the picker may show as chosen.
Choice(r, p) == Known(FALLBACK, r) /\ p \in PeriodsOf(FALLBACK, r)

\* A choice of the picker is one the server accepts.
LEMMA ChoicesAreValid ==
  ASSUME NEW r, NEW p, Choice(r, p)
  PROVE  /\ r \in Texts /\ p \in Texts
         /\ Find(FALLBACK, r) \in FALLBACK /\ Find(FALLBACK, r).range = r
         /\ Find(FALLBACK, r).seconds <= MAX_RANGE_SECONDS
         /\ PeriodsOf(FALLBACK, r) = Find(FALLBACK, r).periods
         /\ \A now \in Nat : resolveWindow(now, r, p) # {}
<1>1. PICK e \in FALLBACK : e.range = r
  BY DEF Choice, Known
<1>2. Find(FALLBACK, r) = e
  BY <1>1, Offers
<1>3. p \in e.periods /\ PeriodsOf(FALLBACK, r) = e.periods
  BY <1>2 DEF Choice, PeriodsOf
<1>4. QED
  BY <1>1, <1>2, <1>3, Offers, OffersAreAccepted

\* Whatever is asked for, the period that is kept or put in its place is one of the
\* range (timerange.svelte.ts).
LEMMA ReconcileChooses ==
  ASSUME NEW r, Known(FALLBACK, r), NEW p
  PROVE  Choice(r, reconcilePeriod(FALLBACK, r, p))
<1>1. PICK e \in FALLBACK : e.range = r
  BY DEF Known
<1>2. Find(FALLBACK, r) = e /\ e.defaultPeriod \in e.periods
  BY <1>1, Offers
<1>3. QED
  BY <1>2 DEF Choice, reconcilePeriod, PeriodsOf

\* Whatever an address says, the selection restored from it is a choice, and its own if
\* it is one.
LEMMA RestoreChooses ==
  ASSUME NEW r0, Known(FALLBACK, r0), NEW p0, NEW params
  PROVE  LET sel == fromSearchParams(FALLBACK, r0, p0, params)
         IN  /\ Choice(sel.range, sel.period)
             /\ Choice(params.range, params.period) => sel.range = params.range /\ sel.period = params.period
<1> DEFINE r == IF Known(FALLBACK, params.range) THEN params.range ELSE r0
           sel == fromSearchParams(FALLBACK, r0, p0, params)
<1>1. /\ sel.range = r
      /\ sel.period = IF params.period \in PeriodsOf(FALLBACK, r) THEN params.period
                      ELSE reconcilePeriod(FALLBACK, r, p0)
  BY DEF fromSearchParams
<1>2. Known(FALLBACK, r)
  OBVIOUS
<1>3. Choice(r, reconcilePeriod(FALLBACK, r, p0))
  BY <1>2, ReconcileChooses
<1> HIDE DEF sel
<1>4. Choice(sel.range, sel.period)
  BY <1>1, <1>2, <1>3 DEF Choice
<1>5. Choice(params.range, params.period) => sel.range = params.range /\ sel.period = params.period
  BY <1>1 DEF Choice
<1>6. QED
  BY <1>4, <1>5 DEF sel

-------------------------------------------------------------------------------

\* The selection is one of the picker's.
SelectionInv == ranges = FALLBACK /\ Choice(range, period)

ViewTypeOK ==
  /\ appliedNamespace \in Names
  /\ nonce \in Nat
  /\ refreshSeconds \in REFRESH_CHOICES
  /\ url \in Addresses \cup {None}
  /\ flight \in Flights \cup {None}
  /\ payload \in Keys \cup {None}
  /\ error \in Keys \cup {None}
  /\ loading \in BOOLEAN /\ cut \in BOOLEAN /\ metaPending \in BOOLEAN
  /\ hidden \in BOOLEAN /\ missed \in BOOLEAN
  /\ wait \in Nat /\ acts \in 0 .. MaxActs

\* The address says the selection, all but the refresh interval.
AddressInv ==
  url # None => /\ url.range = range
                /\ url.period = period
                /\ url.namespace = IF appliedNamespace = "" THEN None ELSE appliedNamespace

\* What is under way is what is selected, and so is what was asked for last; a
\* failure stays on screen over a request only when that request cut it off.
FlightInv ==
  /\ hidden => url # None
  /\ loading = (flight # None)
  /\ flight # None => flight.key = Selected /\ (error = None \/ cut)
  /\ url # None => requestedKey = Selected

ViewInv == SelectionInv /\ ViewTypeOK /\ AddressInv /\ FlightInv /\ ScreenIsOfSelection

\* A choice as a key, as a request and as an address.
LEMMA ChoiceTypes ==
  ASSUME NEW r, NEW p, Choice(r, p), NEW n \in Names, NEW k \in Nat, NEW s \in REFRESH_CHOICES
  PROVE  LET key == <<r, p, n, k>>
             address == Parameters(r, p, s, IF n = "" THEN None ELSE n)
         IN  /\ key \in Keys /\ key # None
             /\ Sent(key) \in Flights /\ Sent(key) # None /\ Sent(key).key = key
             /\ address \in Addresses /\ address # None
<1> DEFINE key == <<r, p, n, k>>
           named == IF n = "" THEN None ELSE n
           address == Parameters(r, p, s, named)
<1>1. r \in Texts /\ p \in Texts
  BY ChoicesAreValid
<1>2. key \in Keys
  BY <1>1 DEF Keys
<1> HIDE DEF key
<1>3. Sent(key) \in Flights /\ Sent(key).key = key
  BY <1>2 DEF Sent, Flights
<1>4. s \in Int /\ named \in Names \cup {None}
  <2>1. s = 0 \/ s = 1 \/ s = 2 \/ s = 10
    BY DEF REFRESH_CHOICES
  <2>2. s \in Int
    BY <2>1
  <2>3. QED
    BY <2>2
<1> HIDE DEF named
<1>5. address \in Addresses
  BY <1>1, <1>4 DEF Parameters, Addresses
<1> HIDE DEF address
<1>6. key # None /\ Sent(key) # None /\ address # None
  BY <1>2, <1>3, <1>5, PageViewAssumption
<1>7. QED
  BY <1>2, <1>3, <1>5, <1>6 DEF key, address, named

\* A choice is within what the page may ask for.
LEMMA ChoicesAreAsked ==
  ASSUME NEW r, NEW p, Choice(r, p)
  PROVE  /\ Known(FALLBACK, r)
         /\ Find(FALLBACK, r).seconds <= MAX_RANGE_SECONDS
         /\ p \in Find(FALLBACK, r).periods
  BY ChoicesAreValid DEF Choice

\* When the selection changes, what was on screen goes with it.
LEMMA ReselectKeeps ==
  ASSUME ViewInv, url # None, Reselect,
         SelectionInv', appliedNamespace' \in Names, nonce' \in Nat, refreshSeconds' \in REFRESH_CHOICES
  PROVE  /\ url' \in Addresses /\ url' # None
         /\ flight' \in Flights \cup {None}
         /\ payload' \in Keys \cup {None} /\ error' \in Keys \cup {None}
         /\ loading' \in BOOLEAN /\ cut' \in BOOLEAN
         /\ loading' = (flight' # None)
         /\ flight' # None => flight'.key = Selected' /\ (error' = None \/ cut')
         /\ requestedKey' = Selected'
         /\ AddressInv' /\ ScreenIsOfSelection'
<1>1. /\ isValid'
      /\ Selected' \in Keys /\ Selected' # None
      /\ Sent(Selected') \in Flights /\ Sent(Selected') # None
      /\ toSearchParams' \in Addresses /\ toSearchParams' # None
  <2> Choice(range', period') /\ ranges' = FALLBACK
    BY DEF SelectionInv
  <2>1. isValid'
    BY ChoicesAreAsked DEF isValid
  <2>2. QED
    BY <2>1, ChoiceTypes DEF Selected, toSearchParams
<1> USE DEF ViewInv, ViewTypeOK, FlightInv
<1>2. CASE Selected' = Selected
  <2>1. UNCHANGED requestVars
    BY <1>2 DEF Reselect
  <2>2. range' = range /\ period' = period /\ appliedNamespace' = appliedNamespace
    BY <1>2 DEF Selected
  <2>3. AddressInv'
    BY <2>1, <2>2 DEF AddressInv, requestVars
  <2>4. ScreenIsOfSelection'
    BY <1>2, <2>1 DEF ScreenIsOfSelection, requestVars
  <2>5. QED
    BY <1>2, <2>1, <2>3, <2>4 DEF requestVars
<1>3. CASE Selected' # Selected
  <2>1. url' = toSearchParams' /\ load(Selected')
    BY <1>1, <1>3 DEF Reselect
  <2>2. AddressInv'
    BY <2>1 DEF AddressInv, toSearchParams, Parameters
  <2>3. /\ flight' = Sent(Selected') /\ loading' = TRUE /\ requestedKey' = Selected'
        /\ \/ cut' = TRUE /\ error' = flight.key /\ flight \in Flights /\ payload' = None
           \/ cut' = FALSE /\ error' = None /\ payload' = payload
    BY <2>1 DEF load
  <2>4. flight'.key = Selected'
    BY <2>3 DEF Sent
  <2>5. ScreenIsOfSelection'
    BY <2>3 DEF ScreenIsOfSelection
  <2>6. error' \in Keys \cup {None}
    BY <2>3 DEF Flights
  <2>7. QED
    BY <1>1, <2>1, <2>2, <2>3, <2>4, <2>5, <2>6
<1>4. QED
  BY <1>2, <1>3

\* A page that is mounted asks for what was selected before, or restored.
LEMMA MountKeeps ==
  ASSUME NEW r0, Known(FALLBACK, r0), NEW p0, NEW params \in Addresses,
         Mount(FALLBACK, r0, p0, params), nonce' \in Nat
  PROVE  /\ SelectionInv' /\ appliedNamespace' \in Names /\ refreshSeconds' \in REFRESH_CHOICES
         /\ url' \in Addresses /\ url' # None
         /\ flight' \in Flights /\ flight'.key = Selected' /\ requestedKey' = Selected'
         /\ payload' = None /\ error' = None /\ cut' = FALSE
         /\ loading' = TRUE /\ loading' = (flight' # None)
         /\ missed' = FALSE /\ wait' \in Nat
         /\ AddressInv' /\ ScreenIsOfSelection'
<1> DEFINE sel == fromSearchParams(FALLBACK, r0, p0, params)
<1>1. /\ ranges' = FALLBACK /\ range' = sel.range /\ period' = sel.period /\ refreshSeconds' = sel.refresh
      /\ appliedNamespace' = IF params.namespace = None THEN "" ELSE params.namespace
      /\ url' = toSearchParams' /\ payload' = None /\ error' = None /\ cut' = FALSE
      /\ flight' = IF isValid' THEN Sent(Selected') ELSE None
      /\ loading' = isValid'
      /\ requestedKey' = IF isValid' THEN Selected' ELSE None
      /\ wait' = sel.refresh /\ missed' = FALSE
  BY DEF Mount
<1>2. sel.refresh \in REFRESH_CHOICES
  BY DEF fromSearchParams, REFRESH_CHOICES, DEFAULT_REFRESH_SECONDS
<1>3. Choice(sel.range, sel.period)
  BY RestoreChooses
<1> HIDE DEF sel
<1>4. SelectionInv'
  BY <1>1, <1>3 DEF SelectionInv
<1>5. appliedNamespace' \in Names
  BY <1>1, PageViewAssumption DEF Addresses, Names
<1>6. /\ isValid'
      /\ Selected' \in Keys /\ Selected' # None
      /\ Sent(Selected') \in Flights /\ Sent(Selected') # None
      /\ toSearchParams' \in Addresses /\ toSearchParams' # None
  <2> Choice(range', period') /\ ranges' = FALLBACK /\ refreshSeconds' \in REFRESH_CHOICES
    BY <1>1, <1>2, <1>4 DEF SelectionInv
  <2>1. isValid'
    BY ChoicesAreAsked DEF isValid
  <2>2. QED
    BY <1>5, <2>1, ChoiceTypes DEF Selected, toSearchParams
<1>7. AddressInv'
  BY <1>1 DEF AddressInv, toSearchParams, Parameters
<1>8. ScreenIsOfSelection'
  BY <1>1, <1>6 DEF ScreenIsOfSelection
<1>9. flight'.key = Selected'
  BY <1>1, <1>6 DEF Sent
<1>10. wait' \in Nat
  <2>1. sel.refresh = 0 \/ sel.refresh = 1 \/ sel.refresh = 2 \/ sel.refresh = 10
    BY <1>2 DEF REFRESH_CHOICES
  <2>2. wait' = 0 \/ wait' = 1 \/ wait' = 2 \/ wait' = 10
    BY <1>1, <2>1
  <2>3. QED
    BY <2>2
<1>11. /\ flight' \in Flights /\ loading' = TRUE /\ flight' # None /\ requestedKey' = Selected'
       /\ url' \in Addresses /\ url' # None /\ refreshSeconds' \in REFRESH_CHOICES
  BY <1>1, <1>2, <1>6
<1>12. QED
  BY <1>1, <1>4, <1>5, <1>7, <1>8, <1>9, <1>10, <1>11

\* What PageViewAssumption says of the bounds.
LEMMA Bounds == MaxActs \in Nat /\ NonceMod \in Nat \ {0}
<1>1. MaxActs \in Nat /\ NonceMod \in Nat \ {0, 1}
  BY PageViewAssumption
<1>2. QED
  BY <1>1

\* A change of the selection keeps the invariant.
LEMMA ReselectInv ==
  ASSUME ViewInv, url # None, Reselect,
         SelectionInv', appliedNamespace' \in Names, nonce' \in Nat, refreshSeconds' \in REFRESH_CHOICES,
         hidden' \in BOOLEAN, missed' \in BOOLEAN, metaPending' \in BOOLEAN,
         wait' \in Nat, acts' \in 0 .. MaxActs
  PROVE  ViewInv'
<1>1. /\ url' \in Addresses /\ url' # None
      /\ flight' \in Flights \cup {None}
      /\ payload' \in Keys \cup {None} /\ error' \in Keys \cup {None}
      /\ loading' \in BOOLEAN /\ cut' \in BOOLEAN
      /\ loading' = (flight' # None)
      /\ flight' # None => flight'.key = Selected' /\ (error' = None \/ cut')
      /\ requestedKey' = Selected'
      /\ AddressInv' /\ ScreenIsOfSelection'
  BY ReselectKeeps
<1>2. ViewTypeOK'
  BY <1>1 DEF ViewTypeOK
<1>3. FlightInv'
  BY <1>1 DEF FlightInv
<1>4. QED
  BY <1>1, <1>2, <1>3 DEF ViewInv

\* So does the opening of a page.
LEMMA MountInv ==
  ASSUME NEW r0, Known(FALLBACK, r0), NEW p0, NEW params \in Addresses,
         Mount(FALLBACK, r0, p0, params), nonce' \in Nat,
         hidden' \in BOOLEAN, metaPending' \in BOOLEAN, acts' \in 0 .. MaxActs
  PROVE  ViewInv'
<1>1. /\ SelectionInv' /\ appliedNamespace' \in Names /\ refreshSeconds' \in REFRESH_CHOICES
      /\ url' \in Addresses /\ url' # None
      /\ flight' \in Flights /\ flight'.key = Selected' /\ requestedKey' = Selected'
      /\ payload' = None /\ error' = None /\ cut' = FALSE
      /\ loading' = TRUE /\ loading' = (flight' # None)
      /\ missed' = FALSE /\ wait' \in Nat
      /\ AddressInv' /\ ScreenIsOfSelection'
  BY MountKeeps
<1>2. ViewTypeOK'
  BY <1>1 DEF ViewTypeOK
<1>3. FlightInv'
  BY <1>1 DEF FlightInv
<1>4. QED
  BY <1>1, <1>2, <1>3 DEF ViewInv

\* A page that is not there yet satisfies the invariant.
LEMMA InitViewInv == Init => ViewInv
<1> SUFFICES ASSUME Init
             PROVE  ViewInv
  OBVIOUS
<1>1. Known(FALLBACK, hr(1))
  BY Offers DEF Known
<1>2. SelectionInv
  BY <1>1, Offers DEF Init, SelectionInv, Choice
<1>3. "" \in Names
  BY PageViewAssumption DEF Names
<1>4. 2 \in REFRESH_CHOICES /\ 0 \in 0 .. MaxActs
  BY Bounds DEF REFRESH_CHOICES
<1>5. ViewTypeOK
  BY <1>3, <1>4 DEF Init, ViewTypeOK, DEFAULT_REFRESH_SECONDS
<1>6. AddressInv /\ FlightInv /\ ScreenIsOfSelection
  BY DEF Init, AddressInv, FlightInv, ScreenIsOfSelection
<1>7. QED
  BY <1>2, <1>5, <1>6 DEF ViewInv

\* What leaves the selection, the address and the request as they are.
LEMMA QuietInv ==
  ASSUME ViewInv, UNCHANGED <<selectionVars, requestVars>>,
         hidden' \in BOOLEAN, hidden' => url # None,
         refreshSeconds' \in REFRESH_CHOICES, missed' \in BOOLEAN, metaPending' \in BOOLEAN,
         wait' \in Nat, acts' \in 0 .. MaxActs
  PROVE  ViewInv'
<1> USE DEF ViewInv, selectionVars, requestVars
<1>1. SelectionInv'
  BY DEF SelectionInv
<1>2. ViewTypeOK'
  BY DEF ViewTypeOK
<1>3. Selected' = Selected
  BY DEF Selected
<1>4. AddressInv'
  BY DEF AddressInv
<1>5. FlightInv' /\ ScreenIsOfSelection'
  BY <1>3 DEF FlightInv, ScreenIsOfSelection
<1>6. QED
  BY <1>1, <1>2, <1>4, <1>5

\* The interval, the button and the tab that is shown again ask once more.
LEMMA RefreshInv ==
  ASSUME ViewInv, url # None, refresh,
         refreshSeconds' = refreshSeconds,
         hidden' \in BOOLEAN, missed' \in BOOLEAN, metaPending' \in BOOLEAN,
         wait' \in Nat, acts' \in 0 .. MaxActs
  PROVE  ViewInv'
<1> USE DEF ViewInv, ViewTypeOK
<1>1. nonce' \in Nat
  <2>1. nonce + 1 \in Nat
    OBVIOUS
  <2>2. QED
    BY <2>1, Bounds DEF refresh
<1>2. SelectionInv' /\ Reselect
  BY DEF refresh, SelectionInv
<1>3. appliedNamespace' \in Names /\ refreshSeconds' \in REFRESH_CHOICES
  BY DEF refresh
<1>4. QED
  BY <1>1, <1>2, <1>3, ReselectInv

\* No step of a page breaks the invariant.
LEMMA NextViewInv == ViewInv /\ [Next]_vars => ViewInv'
<1> SUFFICES ASSUME ViewInv, [Next]_vars
             PROVE  ViewInv'
  OBVIOUS
<1> USE DEF ViewInv, ViewTypeOK
<1>1. ASSUME Act
      PROVE  acts' \in 0 .. MaxActs /\ hidden = FALSE
  BY <1>1, Bounds DEF Act
<1>2. Known(FALLBACK, range) /\ Known(FALLBACK, hr(1))
  BY Offers DEF SelectionInv, Choice, Known
<1>3. ASSUME NEW params \in Addresses, Open(params)
      PROVE  ViewInv'
  <2>1. acts' \in 0 .. MaxActs /\ hidden' \in BOOLEAN /\ metaPending' \in BOOLEAN /\ nonce' \in Nat
    BY <1>1, <1>3 DEF Open
  <2>2. Mount(FALLBACK, hr(1), min(1), params)
    BY <1>3 DEF Open
  <2>3. QED
    BY <1>2, <2>1, <2>2, MountInv
<1>4. CASE OpenLink
  BY <1>3, <1>4, PageViewAssumption DEF OpenLink
<1>5. CASE Reload
  BY <1>3, <1>5 DEF Reload
<1>6. CASE Navigate
  <2>1. acts' \in 0 .. MaxActs /\ hidden' \in BOOLEAN /\ metaPending' \in BOOLEAN /\ nonce' \in Nat
    BY <1>1, <1>6 DEF Navigate
  <2>2. NoParameters \in Addresses
    BY DEF NoParameters, Parameters, Addresses
  <2>3. Mount(FALLBACK, range, period, NoParameters)
    BY <1>6 DEF Navigate, SelectionInv
  <2>4. QED
    BY <1>2, <2>1, <2>2, <2>3, MountInv
<1>7. ASSUME UserSelects
      PROVE  /\ url # None /\ ranges' = ranges
             /\ hidden' \in BOOLEAN /\ metaPending' \in BOOLEAN /\ acts' \in 0 .. MaxActs
  BY <1>1, <1>7 DEF UserSelects
<1>8. ASSUME UserSelects, Reselect, Choice(range', period'), appliedNamespace' \in Names,
             nonce' = nonce, UNCHANGED intervalVars
      PROVE  ViewInv'
  <2>1. SelectionInv'
    BY <1>7, <1>8 DEF SelectionInv
  <2>2. refreshSeconds' \in REFRESH_CHOICES /\ wait' \in Nat /\ missed' \in BOOLEAN /\ nonce' \in Nat
    BY <1>8 DEF intervalVars
  <2>3. QED
    BY <1>7, <1>8, <2>1, <2>2, ReselectInv
<1>9. ASSUME NEW e \in ranges, setRange(e.range)
      PROVE  ViewInv'
  <2>1. Choice(range', period')
    BY <1>9, ReconcileChooses DEF setRange, SelectionInv
  <2>2. QED
    BY <1>8, <1>9, <2>1 DEF setRange
<1>10. ASSUME NEW p \in PeriodsOf(ranges, range), setPeriod(p)
       PROVE  ViewInv'
  <2>1. Choice(range', period')
    BY <1>10 DEF setPeriod, SelectionInv, Choice
  <2>2. QED
    BY <1>8, <1>10, <2>1 DEF setPeriod
<1>11. ASSUME NEW n \in Namespaces, applyNamespace(n)
       PROVE  ViewInv'
  <2>1. Choice(range', period')
    BY <1>11 DEF applyNamespace, SelectionInv
  <2>2. appliedNamespace' \in Names
    BY <1>11, PageViewAssumption DEF applyNamespace, Names
  <2>3. QED
    BY <1>8, <1>11, <2>1, <2>2 DEF applyNamespace
<1>12. CASE PressRefresh
  <2>1. refreshSeconds' = refreshSeconds /\ wait' \in Nat /\ missed' \in BOOLEAN
    BY <1>12 DEF PressRefresh, intervalVars
  <2>2. acts' \in 0 .. MaxActs /\ hidden' \in BOOLEAN /\ metaPending' \in BOOLEAN
    BY <1>1, <1>12 DEF PressRefresh
  <2>3. QED
    BY <1>12, <2>1, <2>2, RefreshInv DEF PressRefresh
<1>13. ASSUME NEW s \in REFRESH_CHOICES, SetRefresh(s)
       PROVE  ViewInv'
  <2>1. s = 0 \/ s = 1 \/ s = 2 \/ s = 10
    BY DEF REFRESH_CHOICES
  <2>2. wait' \in Nat /\ refreshSeconds' \in REFRESH_CHOICES /\ missed' \in BOOLEAN
    <3>1. wait' = s /\ refreshSeconds' = s /\ missed' = FALSE
      BY <1>13 DEF SetRefresh
    <3>2. wait' \in Nat
      BY <2>1, <3>1
    <3>3. QED
      BY <3>1, <3>2
  <2>3. UNCHANGED <<selectionVars, requestVars>> /\ UserSelects
    BY <1>13 DEF SetRefresh, UserSelects, selectionVars
  <2>4. QED
    BY <1>7, <2>2, <2>3, QuietInv
<1>14. CASE Tick
  <2>1. refreshSeconds = 0 \/ refreshSeconds = 1 \/ refreshSeconds = 2 \/ refreshSeconds = 10
    BY DEF REFRESH_CHOICES
  <2>2. refreshSeconds' = refreshSeconds /\ wait' \in Nat /\ metaPending' = metaPending
        /\ hidden' = hidden /\ acts' = acts /\ url # None
    BY <1>14, <2>1 DEF Tick
  <2>3. CASE hidden
    <3>1. UNCHANGED <<selectionVars, requestVars>> /\ missed' = TRUE
      BY <1>14, <2>3 DEF Tick, requestVars
    <3>2. QED
      BY <2>2, <3>1, QuietInv
  <2>4. CASE ~hidden
    BY <1>14, <2>2, <2>4, RefreshInv DEF Tick
  <2>5. QED
    BY <2>3, <2>4
<1>15. CASE Hide
  <2>1. UNCHANGED <<selectionVars, requestVars>> /\ url # None /\ hidden' = TRUE
        /\ refreshSeconds' = refreshSeconds /\ wait' = wait /\ missed' = missed
        /\ metaPending' = metaPending /\ acts' = acts
    BY <1>15 DEF Hide, intervalVars
  <2>2. QED
    BY <2>1, QuietInv
<1>16. CASE Show
  <2>1. hidden' = FALSE /\ missed' = FALSE /\ refreshSeconds' = refreshSeconds /\ wait' = wait
        /\ metaPending' = metaPending /\ acts' = acts /\ url # None
    BY <1>16 DEF Show, FlightInv
  <2>2. CASE missed
    BY <1>16, <2>1, <2>2, RefreshInv DEF Show
  <2>3. CASE ~missed
    BY <1>16, <2>1, <2>3, QuietInv DEF Show
  <2>4. QED
    BY <2>2, <2>3
<1>17. CASE MetaArrives
  <2>1. ranges' = FALLBACK
    BY <1>17, Offers DEF MetaArrives
  <2>2. range' = range
    BY <1>2, <1>17, <2>1 DEF MetaArrives
  <2>3. Choice(range', period')
    BY <1>2, <1>17, <2>1, <2>2, ReconcileChooses DEF MetaArrives
  <2>4. SelectionInv'
    BY <2>1, <2>3 DEF SelectionInv
  <2>5. /\ url # None /\ Reselect /\ appliedNamespace' = appliedNamespace /\ nonce' = nonce
        /\ refreshSeconds' = refreshSeconds /\ wait' = wait /\ missed' = missed
        /\ hidden' = hidden /\ metaPending' = FALSE /\ acts' = acts
    BY <1>17 DEF MetaArrives, intervalVars
  <2>6. QED
    BY <2>4, <2>5, ReselectInv
<1>18. ASSUME Untouched
       PROVE  /\ SelectionInv' /\ AddressInv' /\ Selected' = Selected
              /\ appliedNamespace' \in Names /\ nonce' \in Nat /\ refreshSeconds' \in REFRESH_CHOICES
              /\ url' = url /\ requestedKey' = requestedKey /\ hidden' = hidden
              /\ metaPending' \in BOOLEAN /\ hidden' \in BOOLEAN /\ missed' \in BOOLEAN
              /\ wait' \in Nat /\ acts' \in 0 .. MaxActs
  BY <1>18 DEF Untouched, selectionVars, intervalVars, SelectionInv, AddressInv, Selected
<1>19. ASSUME flight # None
       PROVE  flight \in Flights /\ flight.key \in Keys /\ flight.key = Selected /\ (error = None \/ cut)
  BY <1>19 DEF FlightInv, Flights
<1>20. CASE HeadersArrive
  <2>1. PICK s \in {"accepted", "refused"} : flight' = [flight EXCEPT !.stage = s]
    BY <1>20 DEF HeadersArrive
  <2>2. flight # None /\ Untouched /\ UNCHANGED <<payload, error, loading, cut>>
    BY <1>20 DEF HeadersArrive
  <2>3. flight' \in Flights /\ flight'.key = flight.key
    BY <1>19, <2>1, <2>2 DEF Flights
  <2>4. flight' # None
    BY <2>3, PageViewAssumption
  <2>5. ViewTypeOK'
    BY <1>18, <2>2, <2>3
  <2>6. FlightInv' /\ ScreenIsOfSelection'
    BY <1>18, <2>2, <2>3, <2>4 DEF FlightInv, ScreenIsOfSelection
  <2>7. QED
    BY <1>18, <2>2, <2>5, <2>6
<1>21. CASE BodyArrives
  <2>1. /\ flight # None /\ Untouched /\ payload' = flight.key /\ flight' = None
        /\ loading' = FALSE /\ error' = error /\ cut' = cut
    BY <1>21 DEF BodyArrives
  <2>2. ViewTypeOK'
    BY <1>18, <1>19, <2>1
  <2>3. FlightInv' /\ ScreenIsOfSelection'
    <3>1. payload' = Selected' /\ (error' = None \/ cut')
      BY <1>18, <1>19, <2>1
    <3>2. ScreenIsOfSelection'
      BY <3>1 DEF ScreenIsOfSelection
    <3>3. loading' = (flight' # None)
      BY <2>1
    <3>4. (hidden' => url' # None) /\ (url' # None => requestedKey' = Selected')
      BY <1>18, <2>1 DEF FlightInv
    <3>5. FlightInv'
      BY <2>1, <3>3, <3>4 DEF FlightInv
    <3>6. QED
      BY <3>2, <3>5
  <2>4. QED
    BY <1>18, <2>1, <2>2, <2>3
<1>22. CASE flight # None /\ Fails
  <2>1. /\ Untouched /\ payload' = None /\ error' = flight.key /\ flight' = None
        /\ loading' = FALSE /\ cut' = FALSE
    BY <1>22 DEF Fails
  <2>2. error' \in Keys /\ error' # None
    BY <1>19, <1>22, <2>1, PageViewAssumption
  <2>3. ViewTypeOK'
    BY <1>18, <2>1, <2>2
  <2>4. FlightInv' /\ ScreenIsOfSelection'
    <3>1. error' = Selected' /\ payload' = None /\ error' # None /\ ~cut'
      BY <1>18, <1>19, <1>22, <2>1, <2>2
    <3>2. ScreenIsOfSelection'
      BY <3>1 DEF ScreenIsOfSelection
    <3>3. loading' = (flight' # None)
      BY <2>1
    <3>4. (hidden' => url' # None) /\ (url' # None => requestedKey' = Selected')
      BY <1>18, <2>1 DEF FlightInv
    <3>5. FlightInv'
      BY <2>1, <3>3, <3>4 DEF FlightInv
    <3>6. QED
      BY <3>2, <3>5
  <2>5. QED
    BY <1>18, <2>1, <2>3, <2>4
<1>23. CASE TimePasses
  <2>1. /\ UNCHANGED <<selectionVars, url, payload, error, loading, requestedKey, cut,
                       refreshSeconds, missed, metaPending, hidden, acts>>
        /\ flight' = IF flight = None THEN None ELSE [flight EXCEPT !.age = @ + 1]
        /\ refreshSeconds > 0 => wait > 0
        /\ wait' = IF refreshSeconds > 0 THEN wait - 1 ELSE wait
    BY <1>23 DEF TimePasses
  <2>2. wait' \in Nat
    BY <2>1
  <2>3. SelectionInv' /\ AddressInv' /\ Selected' = Selected
    BY <2>1 DEF selectionVars, SelectionInv, AddressInv, Selected
  <2>4. flight # None => flight' \in Flights /\ flight'.key = flight.key /\ flight' # None
    <3> SUFFICES ASSUME flight # None
                 PROVE  flight' \in Flights /\ flight'.key = flight.key /\ flight' # None
      OBVIOUS
    <3>1. flight' \in Flights /\ flight'.key = flight.key
      BY <1>19, <2>1 DEF Flights
    <3>2. QED
      BY <3>1, PageViewAssumption
  <2>5. ViewTypeOK'
    BY <2>1, <2>2, <2>4 DEF selectionVars
  <2>6. FlightInv' /\ ScreenIsOfSelection'
    BY <2>1, <2>3, <2>4 DEF FlightInv, ScreenIsOfSelection
  <2>7. QED
    BY <2>3, <2>5, <2>6
<1>24. CASE UNCHANGED vars
  <2>1. UNCHANGED <<selectionVars, requestVars>> /\ UNCHANGED <<refreshSeconds, wait, missed, metaPending, hidden, acts>>
    BY <1>24 DEF vars, intervalVars
  <2>2. hidden => url # None
    BY DEF FlightInv
  <2>3. QED
    BY <2>1, <2>2, QuietInv
<1>25. QED
  <2>1. CASE RequestFails \/ TimesOut
    BY <1>22, <2>1 DEF RequestFails, TimesOut
  <2>2. QED
    BY <1>4, <1>5, <1>6, <1>9, <1>10, <1>11, <1>12, <1>13, <1>14, <1>15, <1>16, <1>17, <1>20, <1>21,
       <1>23, <1>24, <2>1 DEF Next

\* The invariant of a page.
LEMMA SpecViewInv == Spec => []ViewInv
  BY InitViewInv, NextViewInv, PTL DEF Spec

\* The types of the page (timerange.svelte.ts, PageView.svelte): what it asks for,
\* shows and writes into the address is always a whole choice of the picker.
THEOREM ViewTypes == Spec => [](ViewTypeOK /\ SelectionInv)
  BY SpecViewInv, PTL DEF ViewInv

\* No request of a page is refused for its window: whatever was typed into the
\* address and whenever /api/meta comes, the range and the period that are asked for
\* are a pair the server accepts (timerange.svelte.ts, window.ts:102-127).
THEOREM PageRequestsAreAccepted == Spec => []RequestsAreAccepted
<1>1. ViewInv => RequestsAreAccepted
  <2> SUFFICES ASSUME ViewInv, flight # None
               PROVE  resolveWindow(0, flight.key[1], flight.key[2]) # {}
    BY DEF RequestsAreAccepted
  <2>1. flight.key = Selected /\ Choice(range, period)
    BY DEF ViewInv, FlightInv, SelectionInv
  <2>2. flight.key[1] = range /\ flight.key[2] = period
    BY <2>1 DEF Selected
  <2>3. QED
    BY <2>1, <2>2, ChoicesAreValid
<1>2. QED
  BY <1>1, SpecViewInv, PTL

\* Once nothing is loading, what is on screen is the answer or the failure of the
\* selection, however often it was changed, refreshed or timed out meanwhile
\* (PageView.svelte).
THEOREM PageScreenIsOfSelection == Spec => []ScreenIsOfSelection
  BY SpecViewInv, PTL DEF ViewInv

\* The address is the view: opened again, it restores the range, the period and the
\* namespace that were selected (timerange.svelte.ts).
THEOREM PageReloadOpensSameView == Spec => ReloadOpensSameView
<1>1. ASSUME ViewInv, Reload
      PROVE  <<range, period, appliedNamespace>>' = <<range, period, appliedNamespace>>
  <2>1. url # None /\ Mount(FALLBACK, hr(1), min(1), url)
    BY <1>1 DEF Reload, Open
  <2>2. Known(FALLBACK, hr(1))
    BY Offers DEF Known
  <2>3. /\ url.range = range /\ url.period = period
        /\ url.namespace = IF appliedNamespace = "" THEN None ELSE appliedNamespace
        /\ Choice(range, period) /\ appliedNamespace \in Names
    BY <1>1, <2>1 DEF ViewInv, AddressInv, SelectionInv, ViewTypeOK
  <2> DEFINE sel == fromSearchParams(FALLBACK, hr(1), min(1), url)
  <2>4. sel.range = range /\ sel.period = period
    BY <2>2, <2>3, RestoreChooses
  <2> HIDE DEF sel
  <2>5. range' = sel.range /\ period' = sel.period
        /\ appliedNamespace' = IF url.namespace = None THEN "" ELSE url.namespace
    BY <2>1 DEF Mount, sel
  <2>6. appliedNamespace # None
    BY <2>3 DEF Names
  <2>7. QED
    BY <2>3, <2>4, <2>5, <2>6
<1>2. QED
  BY <1>1, SpecViewInv, PTL DEF ReloadOpensSameView

-----------------------------------------------------------------------------
(***************************************************************************)
(* Finite sets: induction, places in an order, the greatest, sums.         *)
(***************************************************************************)

\* Induction over the subsets of a finite set, of a property given as a set.
LEMMA SubsetsAllGood ==
  ASSUME NEW S, IsFiniteSet(S), NEW Good,
         \A s \in SUBSET S : (\A x \in s : s \ {x} \in Good) => s \in Good
  PROVE  \A s \in SUBSET S : s \in Good
<1> DEFINE Bad == (SUBSET S) \ Good
           R == StrictSubsetOrdering(S)
<1> SUFFICES ASSUME Bad # {} PROVE FALSE
  OBVIOUS
<1>1. Bad \subseteq FiniteSubsetsOf(S)
  BY FS_Subset DEF FiniteSubsetsOf
<1>2. IsWellFoundedOn(R, FiniteSubsetsOf(S))
  BY FS_StrictSubsetOrderingWellFounded
<1> HIDE DEF R
<1>3. \E s \in Bad : \A t \in Bad : <<t, s>> \notin R
  <2> HIDE DEF Bad
  <2> QED BY <1>1, <1>2, WFMin
<1>4. PICK s \in Bad : \A t \in Bad : <<t, s>> \notin R
  BY <1>3
<1>5. \A x \in s : s \ {x} \in Good
  <2> SUFFICES ASSUME NEW x \in s, s \ {x} \notin Good PROVE FALSE
    OBVIOUS
  <2>1. s \ {x} \in Bad /\ s \in SUBSET S
    BY <1>4
  <2>2. <<s \ {x}, s>> \in R
    BY <2>1 DEF R, StrictSubsetOrdering
  <2> QED BY <1>4, <2>1, <2>2
<1>6. s \in Bad
  BY <1>4
<1>7. s \in SUBSET S => s \in Good
  BY <1>5
<1> QED BY <1>6, <1>7

\* Induction up to a number, of a property given as a set.
LEMMA CountUp ==
  ASSUME NEW top \in Nat, NEW Good, 0 \in Good, \A n \in 0..(top - 1) : n \in Good => n + 1 \in Good
  PROVE  top \in Good
<1> DEFINE S == 1..top
           Fine == {s \in SUBSET S : Cardinality(s) \in Good}
<1>1. IsFiniteSet(S) /\ Cardinality(S) = top
  <2>1. 1 \in Int /\ top \in Int
    OBVIOUS
  <2>2. IsFiniteSet(S) /\ Cardinality(S) = IF 1 > top THEN 0 ELSE top - 1 + 1
    BY <2>1, FS_Interval
  <2> QED BY <2>2
<1> HIDE DEF S
<1>2. \A s \in SUBSET S : IsFiniteSet(s) /\ Cardinality(s) \in Nat /\ Cardinality(s) <= top
  BY <1>1, FS_Subset, FS_CardinalityType
<1>3. ASSUME NEW s \in SUBSET S, \A x \in s : s \ {x} \in Fine
      PROVE  s \in Fine
  <2>1. CASE s = {}
    BY <2>1, FS_EmptySet
  <2>2. CASE s # {}
    <3>1. PICK x \in s : TRUE
      BY <2>2
    <3>2. IsFiniteSet(s)
      BY <1>2
    <3>3. Cardinality(s \ {x}) = Cardinality(s) - 1
      BY <3>1, <3>2, FS_RemoveElement
    <3>4. Cardinality(s \ {x}) \in Good
      BY <1>3, <3>1
    <3>5. s \ {x} \in SUBSET S
      OBVIOUS
    <3> DEFINE n == Cardinality(s \ {x})
               m == Cardinality(s)
    <3>6. n \in Nat /\ m \in Nat /\ m <= top /\ n = m - 1 /\ n \in Good
      BY <1>2, <3>3, <3>4, <3>5
    <3> HIDE DEF n, m
    <3>7. m \in Good
      BY <3>6
    <3> QED BY <3>7 DEF m
  <2> QED BY <2>1, <2>2
<1> HIDE DEF Fine
<1>4. \A s \in SUBSET S : s \in Fine
  BY <1>1, <1>3, SubsetsAllGood
<1>5. S \in Fine
  BY <1>4
<1> QED BY <1>1, <1>5 DEF Fine

\* In a finite set S that Q orders strictly and totally, each element is the k-th
\* for one k, the k-th is one element for each k, and k tells who comes first.
Before(S, Q, x) == {y \in S : <<y, x>> \in Q}

\* Q orders S strictly and totally.
StrictOrder(S, Q) ==
  /\ IsFiniteSet(S)
  /\ \A x \in S : <<x, x>> \notin Q
  /\ \A x, y, z \in S : <<x, y>> \in Q /\ <<y, z>> \in Q => <<x, z>> \in Q
  /\ \A x, y \in S : x # y => <<x, y>> \in Q \/ <<y, x>> \in Q

\* Fewer elements are before the earlier of two.
LEMMA RankGrows ==
  ASSUME NEW S, NEW Q, StrictOrder(S, Q), NEW x \in S, NEW y \in S, <<x, y>> \in Q
  PROVE  Cardinality(Before(S, Q, x)) < Cardinality(Before(S, Q, y))
<1>1. Before(S, Q, x) \subseteq Before(S, Q, y) /\ x \in Before(S, Q, y) /\ x \notin Before(S, Q, x)
  BY DEF Before, StrictOrder
<1>2. IsFiniteSet(Before(S, Q, y)) /\ IsFiniteSet(Before(S, Q, x))
  BY FS_Subset DEF StrictOrder, Before
<1>3. /\ Cardinality(Before(S, Q, x)) <= Cardinality(Before(S, Q, y))
      /\ Cardinality(Before(S, Q, y)) # Cardinality(Before(S, Q, x))
  BY <1>1, <1>2, FS_Subset
<1>4. Cardinality(Before(S, Q, x)) \in Nat /\ Cardinality(Before(S, Q, y)) \in Nat
  BY <1>2, FS_CardinalityType
<1>5. QED
  BY <1>3, <1>4

\* The number of elements before it is the place of an element, and no other's.
LEMMA RankIsPlace ==
  ASSUME NEW S, NEW Q, StrictOrder(S, Q)
  PROVE  /\ Cardinality(S) \in Nat
         /\ \A x \in S : Cardinality(Before(S, Q, x)) \in 0 .. Cardinality(S) - 1
         /\ \A x, y \in S : Cardinality(Before(S, Q, x)) = Cardinality(Before(S, Q, y)) => x = y
         /\ \A k \in 1 .. Cardinality(S) : \E x \in S : Cardinality(Before(S, Q, x)) = k - 1
<1> DEFINE n == Cardinality(S)
           rank == [x \in S |-> Cardinality(Before(S, Q, x))]
           image == 0 .. n - 1
<1>1. IsFiniteSet(S) /\ n \in Nat
  BY FS_CardinalityType DEF StrictOrder
<1>2. ASSUME NEW x \in S
      PROVE  Cardinality(Before(S, Q, x)) \in image
  <2>1. Before(S, Q, x) \in SUBSET S /\ x \notin Before(S, Q, x)
    BY DEF Before, StrictOrder
  <2>2. /\ IsFiniteSet(Before(S, Q, x))
        /\ Cardinality(Before(S, Q, x)) <= n
        /\ n # Cardinality(Before(S, Q, x))
    BY <1>1, <2>1, FS_Subset
  <2>3. Cardinality(Before(S, Q, x)) \in Nat
    BY <2>2, FS_CardinalityType
  <2>4. QED
    BY <1>1, <2>2, <2>3
<1>3. ASSUME NEW x \in S, NEW y \in S, Cardinality(Before(S, Q, x)) = Cardinality(Before(S, Q, y))
      PROVE  x = y
  <2>1. ~(<<x, y>> \in Q) /\ ~(<<y, x>> \in Q)
    <3>1. Cardinality(Before(S, Q, x)) \in Int
      BY <1>1, <1>2
    <3>2. QED
      BY <1>3, <3>1, RankGrows
  <2>2. QED
    BY <2>1 DEF StrictOrder
<1>4. IsFiniteSet(image) /\ Cardinality(image) = n
  <2>1. 0 \in Int /\ n - 1 \in Int /\ (IF 0 > n - 1 THEN 0 ELSE n - 1 - 0 + 1) = n
    BY <1>1
  <2> HIDE DEF n
  <2>2. QED
    BY <2>1, FS_Interval
<1> HIDE DEF image
<1>5. rank \in Injection(S, image)
  <2>1. rank \in [S -> image]
    BY <1>2
  <2>2. \A a, b \in S : rank[a] = rank[b] => a = b
    BY <1>3
  <2>3. QED
    BY <2>1, <2>2 DEF Injection, IsInjective
<1>6. rank \in Surjection(S, image)
  <2> HIDE DEF rank
  <2>1. QED
    BY <1>4, <1>5, FS_Injection
<1>7. ASSUME NEW k \in 1 .. n
      PROVE  \E x \in S : Cardinality(Before(S, Q, x)) = k - 1
  <2>1. k - 1 \in image
    BY <1>1 DEF image
  <2>2. QED
    BY <1>6, <2>1 DEF Surjection
<1>8. QED
  BY <1>1, <1>2, <1>3, <1>7 DEF image

-------------------------------------------------------------------------------
\* The greatest of finitely many numbers is one of them.
LEMMA OneIsGreatest ==
  ASSUME NEW S \in SUBSET Int, IsFiniteSet(S), S # {}
  PROVE  Max(S) \in S /\ \A y \in S : y <= Max(S)
<1> DEFINE Good == {s \in SUBSET S : s = {} \/ \E x \in s : \A y \in s : x >= y}
<1>1. \A s \in SUBSET S : (\A x \in s : s \ {x} \in Good) => s \in Good
  <2> TAKE s \in SUBSET S
  <2> HAVE \A x \in s : s \ {x} \in Good
  <2>1. ASSUME NEW x \in s
        PROVE  s \in Good
    <3>1. s \ {x} \in Good /\ x \in Int
      OBVIOUS
    <3>2. CASE s \ {x} = {}
      <4>1. s = {x} /\ x >= x
        <5>1. \A y \in s : y = x
          <6> SUFFICES ASSUME NEW y \in s, y # x
                       PROVE  FALSE
            OBVIOUS
          <6>1. y \in s \ {x}
            OBVIOUS
          <6>2. QED
            BY <3>2, <6>1
        <5>2. s = {x}
          BY <2>1, <5>1
        <5>3. QED
          BY <3>1, <5>2
      <4>2. QED
        BY <4>1
    <3>3. CASE \E z \in s \ {x} : \A y \in s \ {x} : z >= y
      <4>1. PICK z \in s \ {x} : \A y \in s \ {x} : z >= y
        BY <3>3
      <4>2. z \in Int /\ \A y \in s : y \in Int
        OBVIOUS
      <4>3. CASE x >= z
        BY <3>1, <4>1, <4>2, <4>3
      <4>4. CASE ~(x >= z)
        BY <3>1, <4>1, <4>2, <4>4
      <4>5. QED
        BY <4>3, <4>4
    <3>4. QED
      BY <3>1, <3>2, <3>3
  <2>2. QED
    BY <2>1
<1>2. S \in Good
  <2>1. S \in SUBSET S
    OBVIOUS
  <2> HIDE DEF Good
  <2>2. QED
    BY <1>1, <2>1, SubsetsAllGood
<1>3. \E x \in S : \A y \in S : x >= y
  BY <1>2
<1>4. Max(S) \in S /\ \A y \in S : Max(S) >= y
  BY <1>3 DEF Max
<1>5. QED
  BY <1>4

\* An element that none exceeds is the greatest.
LEMMA GreatestIs ==
  ASSUME NEW S \in SUBSET Int, NEW x \in S, \A y \in S : y <= x
  PROVE  Max(S) = x
<1>1. \A y \in S : x >= y
  OBVIOUS
<1>2. Max(S) \in S /\ \A y \in S : Max(S) >= y
  BY <1>1 DEF Max
<1>3. Max(S) >= x /\ x >= Max(S) /\ Max(S) \in Int
  BY <1>1, <1>2
<1>4. QED
  BY <1>3

-------------------------------------------------------------------------------
\* Sums over finite sets, in whatever order they are added up.
Numbers(f, S) == IsFiniteSet(S) /\ \A x \in S : f[x] \in Int

\* The sum over a set is that over the rest and the element that is chosen first.
LEMMA SumByChoice ==
  ASSUME NEW f, NEW S, IsFiniteSet(S)
  PROVE  \A t \in SUBSET S : SumFunctionOnSet(f, t) =
           IF t = {} THEN 0
           ELSE f[CHOOSE x \in t : TRUE] + SumFunctionOnSet(f, t \ {CHOOSE x \in t : TRUE})
<1> DEFINE Pick(s) == CHOOSE x \in s : TRUE
           Rec(g, s) == g = [t \in SUBSET s |-> IF t = {} THEN 0 ELSE f[Pick(t)] + g[t \ {Pick(t)}]]
           V(t) == SumFunctionOnSet(f, t)
           Eq(t) == V(t) = IF t = {} THEN 0 ELSE f[Pick(t)] + V(t \ {Pick(t)})
           Good == {s \in SUBSET S : \A t \in SUBSET s : Eq(t)}
<1>1. \A t : V(t) = (CHOOSE g : Rec(g, t))[t]
  BY DEF SumFunctionOnSet, FoldFunctionOnSet, MapThenFoldSet
<1>2. \A t : t # {} => Pick(t) \in t
  OBVIOUS
<1> HIDE DEF Pick, V
<1>3. ASSUME NEW s \in SUBSET S, \A x \in s : s \ {x} \in Good
      PROVE  s \in Good
  <2> DEFINE p == Pick(s)
             g == [t \in SUBSET s |-> IF t = s THEN (IF s = {} THEN 0 ELSE f[p] + V(s \ {p})) ELSE V(t)]
             G == CHOOSE h : Rec(h, s)
  <2>1. ASSUME NEW t \in SUBSET s, t # s
        PROVE  Eq(t)
    <3>1. PICK x \in s : x \notin t
      BY <2>1
    <3>2. t \in SUBSET (s \ {x}) /\ s \ {x} \in Good
      BY <1>3, <3>1
    <3>3. QED
      BY <3>2
  <2>2. Rec(g, s)
    <3>1. ASSUME NEW t \in SUBSET s
          PROVE  g[t] = IF t = {} THEN 0 ELSE f[Pick(t)] + g[t \ {Pick(t)}]
      <4>1. CASE t = {}
        <5>1. CASE t = s
          BY <4>1, <5>1
        <5>2. CASE t # s
          BY <2>1, <4>1, <5>2
        <5>3. QED
          BY <5>1, <5>2
      <4>2. CASE t # {}
        <5>1. Pick(t) \in t /\ t \ {Pick(t)} \in SUBSET s /\ t \ {Pick(t)} # s
          BY <1>2, <4>2
        <5>2. g[t \ {Pick(t)}] = V(t \ {Pick(t)})
          BY <5>1
        <5>3. CASE t = s
          BY <4>2, <5>2, <5>3
        <5>4. CASE t # s
          BY <2>1, <4>2, <5>2, <5>4
        <5>5. QED
          BY <5>3, <5>4
      <4>3. QED
        BY <4>1, <4>2
    <3> HIDE DEF p
    <3>2. g = [t \in SUBSET s |-> g[t]]
      OBVIOUS
    <3> HIDE DEF g
    <3>3. QED
      BY <3>1, <3>2
  <2>3. Rec(G, s)
    <3> HIDE DEF g, Rec
    <3>1. QED
      BY <2>2
  <2>4. \A t \in SUBSET s : G[t] = g[t]
    <3> DEFINE Same == {t \in SUBSET s : G[t] = g[t]}
    <3> HIDE DEF G, g, p
    <3>1. /\ \A t \in SUBSET s : G[t] = IF t = {} THEN 0 ELSE f[Pick(t)] + G[t \ {Pick(t)}]
          /\ \A t \in SUBSET s : g[t] = IF t = {} THEN 0 ELSE f[Pick(t)] + g[t \ {Pick(t)}]
      BY <2>2, <2>3
    <3>2. \A t \in SUBSET s : (\A x \in t : t \ {x} \in Same) => t \in Same
      <4> TAKE t \in SUBSET s
      <4> HAVE \A x \in t : t \ {x} \in Same
      <4>1. CASE t = {}
        BY <3>1, <4>1
      <4>2. CASE t # {}
        <5>1. t \ {Pick(t)} \in Same
          BY <1>2, <4>2
        <5>2. QED
          BY <3>1, <4>2, <5>1
      <4>3. QED
        BY <4>1, <4>2
    <3>3. IsFiniteSet(s)
      BY FS_Subset
    <3>4. \A t \in SUBSET s : t \in Same
      <4> HIDE DEF Same
      <4>1. QED
        BY <3>2, <3>3, SubsetsAllGood
    <3>5. QED
      BY <3>4
  <2>5. Eq(s)
    <3>1. V(s) = G[s]
      BY <1>1
    <3>2. G[s] = g[s]
      BY <2>4
    <3>3. g[s] = IF s = {} THEN 0 ELSE f[p] + V(s \ {p})
      OBVIOUS
    <3> HIDE DEF G, g
    <3>4. QED
      BY <3>1, <3>2, <3>3
  <2>6. QED
    BY <2>1, <2>5
<1>4. S \in Good
  <2>1. S \in SUBSET S
    OBVIOUS
  <2>2. \A s \in SUBSET S : (\A x \in s : s \ {x} \in Good) => s \in Good
    BY <1>3
  <2> HIDE DEF Good
  <2>3. QED
    BY <2>1, <2>2, SubsetsAllGood
<1>5. QED
  BY <1>4 DEF Pick, V

\* A short name for the sum of f over S.
Sum(f, S) == SumFunctionOnSet(f, S)

\* What a sum over a subset of S is.
AddsUp(f, S) ==
  /\ Sum(f, {}) = 0
  /\ \A s \in SUBSET S : Sum(f, s) \in Int /\ \A x \in s : Sum(f, s) = f[x] + Sum(f, s \ {x})

\* A sum does not depend on which element is taken first.
LEMMA SumsAddUp ==
  ASSUME NEW f, NEW S, Numbers(f, S)
  PROVE  AddsUp(f, S)
<1> DEFINE V(t) == Sum(f, t)
           Pick(t) == CHOOSE x \in t : TRUE
           Good == {s \in SUBSET S : V(s) \in Int /\ \A x \in s : V(s) = f[x] + V(s \ {x})}
<1>1. IsFiniteSet(S) /\ \A x \in S : f[x] \in Int
  BY DEF Numbers
<1>2. \A t \in SUBSET S : V(t) = IF t = {} THEN 0 ELSE f[Pick(t)] + V(t \ {Pick(t)})
  BY <1>1, SumByChoice DEF Sum
<1>3. \A t : t # {} => Pick(t) \in t
  OBVIOUS
<1> HIDE DEF V, Pick
<1>4. V({}) = 0
  BY <1>2
<1> DEFINE Whole1 == {s \in SUBSET S : V(s) \in Int}
<1>5. \A s \in SUBSET S : (\A x \in s : s \ {x} \in Whole1) => s \in Whole1
  <2> TAKE s \in SUBSET S
  <2> HAVE \A x \in s : s \ {x} \in Whole1
  <2>1. CASE s = {}
    BY <1>4, <2>1
  <2>2. CASE s # {}
    <3> DEFINE p == Pick(s)
    <3>1. p \in s /\ V(s) = f[p] + V(s \ {p})
      BY <1>2, <1>3, <2>2
    <3> HIDE DEF p
    <3>2. f[p] \in Int /\ V(s \ {p}) \in Int
      BY <1>1, <3>1
    <3>3. QED
      BY <3>1, <3>2
  <2>3. QED
    BY <2>1, <2>2
<1>6. \A s \in SUBSET S : V(s) \in Int
  <2>1. \A s \in SUBSET S : s \in Whole1
    <3> HIDE DEF Whole1
    <3>1. QED
      BY <1>1, <1>5, SubsetsAllGood
  <2>2. QED
    BY <2>1
<1>7. \A s \in SUBSET S : (\A x \in s : s \ {x} \in Good) => s \in Good
  <2> TAKE s \in SUBSET S
  <2> HAVE \A x \in s : s \ {x} \in Good
  <2>1. CASE s = {}
    BY <1>4, <2>1
  <2>2. CASE s # {}
    <3> DEFINE p == Pick(s)
    <3>1. p \in s /\ V(s) = f[p] + V(s \ {p})
      BY <1>2, <1>3, <2>2
    <3> HIDE DEF p
    <3>2. f[p] \in Int /\ V(s \ {p}) \in Int
      BY <1>1, <3>1
    <3>3. V(s) \in Int
      BY <3>1, <3>2
    <3>4. ASSUME NEW x \in s, x # p
          PROVE  V(s) = f[x] + V(s \ {x})
      <4>1. x \in s \ {p} /\ p \in s \ {x} /\ s \ {p} \in Good /\ s \ {x} \in Good
        BY <3>1, <3>4
      <4>2. (s \ {p}) \ {x} = (s \ {x}) \ {p}
        OBVIOUS
      <4>3. V(s \ {p}) = f[x] + V((s \ {p}) \ {x}) /\ V(s \ {x}) = f[p] + V((s \ {x}) \ {p})
        BY <4>1
      <4>4. (s \ {x}) \ {p} \in SUBSET S
        OBVIOUS
      <4> DEFINE v == V((s \ {x}) \ {p})
      <4>5. v \in Int
        BY <1>6, <4>4
      <4>6. f[x] \in Int /\ f[p] \in Int
        BY <1>1, <3>2
      <4>7. V(s) = f[p] + (f[x] + v) /\ V(s \ {x}) = f[p] + v
        BY <3>1, <4>2, <4>3
      <4> HIDE DEF v
      <4>8. QED
        BY <4>5, <4>6, <4>7
    <3>5. \A x \in s : V(s) = f[x] + V(s \ {x})
      BY <3>1, <3>4
    <3>6. QED
      BY <3>3, <3>5
  <2>3. QED
    BY <2>1, <2>2
<1>8. \A s \in SUBSET S : s \in Good
  <2> HIDE DEF Good
  <2>1. QED
    BY <1>1, <1>7, SubsetsAllGood
<1>9. QED
  BY <1>4, <1>8 DEF AddsUp, V

\* A sum over S is that over T, if p pairs them off and the numbers agree.
LEMMA SumReindexed ==
  ASSUME NEW f, NEW g, NEW S, NEW T, NEW p \in [S -> T], Numbers(f, S), Numbers(g, T),
         \A x, y \in S : p[x] = p[y] => x = y,
         \A y \in T : \E x \in S : p[x] = y,
         \A x \in S : f[x] = g[p[x]]
  PROVE  Sum(f, S) = Sum(g, T)
<1> DEFINE Img(s) == {p[x] : x \in s}
           Good == {s \in SUBSET S : Sum(f, s) = Sum(g, Img(s))}
<1>1. AddsUp(f, S) /\ AddsUp(g, T) /\ IsFiniteSet(S)
  BY SumsAddUp DEF Numbers
<1>2. \A s \in SUBSET S : (\A x \in s : s \ {x} \in Good) => s \in Good
  <2> TAKE s \in SUBSET S
  <2> HAVE \A x \in s : s \ {x} \in Good
  <2>1. CASE s = {}
    <3>1. Img(s) = {}
      BY <2>1
    <3>2. Sum(f, {}) = Sum(g, {})
      BY <1>1 DEF AddsUp
    <3>3. QED
      BY <2>1, <3>1, <3>2
  <2>2. ASSUME NEW x \in s
        PROVE  s \in Good
    <3>1. Img(s \ {x}) = Img(s) \ {p[x]} /\ p[x] \in Img(s) /\ Img(s) \in SUBSET T
      OBVIOUS
    <3>2. Sum(f, s \ {x}) = Sum(g, Img(s \ {x}))
      OBVIOUS
    <3> HIDE DEF Img
    <3>3. Sum(f, s) = f[x] + Sum(f, s \ {x})
      BY <1>1 DEF AddsUp
    <3>4. Sum(g, Img(s)) = g[p[x]] + Sum(g, Img(s) \ {p[x]})
      BY <1>1, <3>1 DEF AddsUp
    <3>5. QED
      BY <3>1, <3>2, <3>3, <3>4
  <2>3. QED
    BY <2>1, <2>2
<1>3. S \in Good
  <2>1. S \in SUBSET S
    OBVIOUS
  <2> HIDE DEF Good
  <2>2. QED
    BY <1>1, <1>2, <2>1, SubsetsAllGood
<1>4. Img(S) = T
  OBVIOUS
<1>5. QED
  BY <1>3, <1>4

\* Two sums at once: of g over B, and of h over the part of B that lies in D.
LEMMA SumOfBoth ==
  ASSUME NEW e, NEW g, NEW h, NEW B, NEW D \in SUBSET B, Numbers(e, B), Numbers(g, B), Numbers(h, D),
         \A i \in B : e[i] = IF i \in D THEN g[i] + h[i] ELSE g[i]
  PROVE  Sum(e, B) = Sum(g, B) + Sum(h, D)
<1> DEFINE Good == {s \in SUBSET B : Sum(e, s) = Sum(g, s) + Sum(h, s \cap D)}
<1>1. /\ AddsUp(e, B) /\ AddsUp(g, B) /\ AddsUp(h, D) /\ IsFiniteSet(B)
      /\ \A i \in B : g[i] \in Int
      /\ \A i \in D : h[i] \in Int
  BY SumsAddUp DEF Numbers
<1>2. \A s \in SUBSET B : (\A x \in s : s \ {x} \in Good) => s \in Good
  <2> TAKE s \in SUBSET B
  <2> HAVE \A x \in s : s \ {x} \in Good
  <2>1. CASE s = {}
    <3>1. s \cap D = {}
      BY <2>1
    <3>2. Sum(e, {}) = 0 /\ Sum(g, {}) = 0 /\ Sum(h, {}) = 0
      BY <1>1 DEF AddsUp
    <3>3. QED
      BY <2>1, <3>1, <3>2
  <2>2. ASSUME NEW x \in s
        PROVE  s \in Good
    <3> DEFINE r == s \ {x}
    <3>1. Sum(e, r) = Sum(g, r) + Sum(h, r \cap D) /\ r \in SUBSET B /\ r \cap D \in SUBSET D
          /\ s \cap D \in SUBSET D
      OBVIOUS
    <3>2. Sum(e, s) = e[x] + Sum(e, r) /\ Sum(g, s) = g[x] + Sum(g, r)
      BY <1>1 DEF AddsUp
    <3>3. Sum(e, r) \in Int /\ Sum(g, r) \in Int /\ Sum(h, r \cap D) \in Int
      BY <1>1, <3>1 DEF AddsUp
    <3>4. CASE x \in D
      <4>1. Sum(h, s \cap D) = h[x] + Sum(h, r \cap D)
        <5>1. x \in s \cap D /\ (s \cap D) \ {x} = r \cap D
          BY <3>4
        <5> HIDE DEF r
        <5>2. QED
          BY <1>1, <3>1, <5>1 DEF AddsUp
      <4>2. e[x] = g[x] + h[x] /\ g[x] \in Int /\ h[x] \in Int
        BY <1>1, <3>4
      <4> HIDE DEF r
      <4>3. Sum(e, s) = Sum(g, s) + Sum(h, s \cap D)
        BY <3>1, <3>2, <3>3, <4>1, <4>2
      <4>4. QED
        BY <4>3
    <3>5. CASE x \notin D
      <4>1. Sum(h, s \cap D) = Sum(h, r \cap D)
        <5>1. s \cap D = r \cap D
          BY <3>5
        <5> HIDE DEF r
        <5>2. QED
          BY <5>1
      <4>2. e[x] = g[x] /\ g[x] \in Int
        BY <1>1, <3>5
      <4> HIDE DEF r
      <4>3. Sum(e, s) = Sum(g, s) + Sum(h, s \cap D)
        BY <3>1, <3>2, <3>3, <4>1, <4>2
      <4>4. QED
        BY <4>3
    <3>6. QED
      BY <3>4, <3>5
  <2>3. QED
    BY <2>1, <2>2
<1>3. B \in Good
  <2>1. B \in SUBSET B
    OBVIOUS
  <2> HIDE DEF Good
  <2>2. QED
    BY <1>1, <1>2, <2>1, SubsetsAllGood
<1>4. B \cap D = D
  OBVIOUS
<1>5. QED
  BY <1>3, <1>4

\* What is zero need not be added.
LEMMA SumOfKnown ==
  ASSUME NEW f, NEW S, NEW Z \in SUBSET S, Numbers(f, S), \A x \in S \ Z : f[x] = 0
  PROVE  Sum(f, S) = Sum(f, Z)
<1> DEFINE nothing == [x \in S |-> 0]
           Good == {s \in SUBSET S : Sum(nothing, s) = 0}
<1>1. IsFiniteSet(S) /\ \A x \in S : f[x] \in Int
  BY DEF Numbers
<1>2. Numbers(nothing, S) /\ Numbers(f, Z)
  <2>1. IsFiniteSet(Z)
    BY <1>1, FS_Subset
  <2>2. QED
    BY <1>1, <2>1 DEF Numbers
<1>3. AddsUp(nothing, S) /\ AddsUp(f, S)
  <2> HIDE DEF nothing
  <2>1. QED
    BY <1>2, SumsAddUp
<1>4. \A s \in SUBSET S : (\A x \in s : s \ {x} \in Good) => s \in Good
  <2> TAKE s \in SUBSET S
  <2> HAVE \A x \in s : s \ {x} \in Good
  <2>1. CASE s = {}
    BY <1>3, <2>1 DEF AddsUp
  <2>2. ASSUME NEW x \in s
        PROVE  s \in Good
    <3>1. Sum(nothing, s \ {x}) = 0 /\ nothing[x] = 0
      OBVIOUS
    <3> HIDE DEF nothing
    <3>2. Sum(nothing, s) = nothing[x] + Sum(nothing, s \ {x})
      BY <1>3 DEF AddsUp
    <3>3. Sum(nothing, s) = 0
      BY <3>1, <3>2
    <3>4. QED
      BY <3>3
  <2>3. QED
    BY <2>1, <2>2
<1>5. Sum(nothing, S) = 0
  <2>1. S \in SUBSET S
    OBVIOUS
  <2> HIDE DEF Good
  <2>2. S \in Good
    BY <1>1, <1>4, <2>1, SubsetsAllGood
  <2>3. QED
    BY <2>2 DEF Good
<1>6. \A i \in S : f[i] = IF i \in Z THEN nothing[i] + f[i] ELSE nothing[i]
  BY <1>1
<1> HIDE DEF nothing
<1>7. Sum(f, S) = Sum(nothing, S) + Sum(f, Z)
  BY <1>2, <1>6, SumOfBoth
<1>8. Sum(f, Z) \in Int
  BY <1>3 DEF AddsUp
<1>9. QED
  BY <1>5, <1>7, <1>8

\* A sum is known by the numbers that are added.
LEMMA SumAgrees ==
  ASSUME NEW f, NEW g, NEW S, Numbers(f, S), \A x \in S : f[x] = g[x]
  PROVE  Sum(f, S) = Sum(g, S)
<1> DEFINE p == [x \in S |-> x]
<1>1. /\ p \in [S -> S]
      /\ \A x, y \in S : p[x] = p[y] => x = y
      /\ \A y \in S : \E x \in S : p[x] = y
      /\ \A x \in S : f[x] = g[p[x]]
  OBVIOUS
<1>2. Numbers(g, S)
  BY DEF Numbers
<1> HIDE DEF p
<1>3. QED
  BY <1>1, <1>2, SumReindexed

\* A table of numbers has the cells D[k] in its row k: the sum of each column, and that
\* of each row.
Columns(K, B, D, v) == [i \in B |-> Sum([k \in K |-> v[k][i]], {k \in K : i \in D[k]})]
Rows(K, D, v) == [k \in K |-> Sum(v[k], D[k])]

\* It is added up by columns as well as by rows.
LEMMA SumSwapped ==
  ASSUME NEW K, IsFiniteSet(K), NEW B, IsFiniteSet(B), NEW D \in [K -> SUBSET B], NEW v,
         \A k \in K : \A i \in D[k] : v[k][i] \in Int
  PROVE  Sum(Columns(K, B, D, v), B) = Sum(Rows(K, D, v), K)
<1> DEFINE row(i) == [k \in K |-> v[k][i]]
           in(s, i) == {k \in s : i \in D[k]}
           col == [k \in K |-> Sum(v[k], D[k])]
           of(s) == [i \in B |-> Sum(row(i), in(s, i))]
           Good == {s \in SUBSET K : Sum(of(s), B) = Sum(col, s)}
<1>1. \A i \in B : AddsUp(row(i), in(K, i))
  <2> TAKE i \in B
  <2>1. IsFiniteSet(in(K, i))
    BY FS_Subset
  <2>2. \A k \in in(K, i) : row(i)[k] \in Int
    OBVIOUS
  <2> HIDE DEF row, in
  <2>3. Numbers(row(i), in(K, i))
    BY <2>1, <2>2 DEF Numbers
  <2>4. QED
    BY <2>3, SumsAddUp
<1>2. \A k \in K : Numbers(v[k], D[k]) /\ col[k] \in Int
  <2> TAKE k \in K
  <2>1. D[k] \in SUBSET B
    OBVIOUS
  <2>2. IsFiniteSet(D[k])
    BY <2>1, FS_Subset
  <2>3. Numbers(v[k], D[k])
    BY <2>2 DEF Numbers
  <2>4. AddsUp(v[k], D[k])
    BY <2>3, SumsAddUp
  <2>5. QED
    BY <2>3, <2>4 DEF AddsUp
<1>3. AddsUp(col, K)
  <2> HIDE DEF col
  <2>1. Numbers(col, K)
    BY <1>2 DEF Numbers
  <2>2. QED
    BY <2>1, SumsAddUp
<1>4. \A s \in SUBSET K : Numbers(of(s), B)
  <2> TAKE s \in SUBSET K
  <2>1. \A i \in B : Sum(row(i), in(s, i)) \in Int
    <3> TAKE i \in B
    <3>1. in(s, i) \in SUBSET in(K, i)
      OBVIOUS
    <3> HIDE DEF row, in
    <3>2. QED
      BY <1>1, <3>1 DEF AddsUp
  <2> HIDE DEF row, in
  <2>2. QED
    BY <2>1 DEF Numbers
<1>5. \A s \in SUBSET K : (\A x \in s : s \ {x} \in Good) => s \in Good
  <2> TAKE s \in SUBSET K
  <2> HAVE \A x \in s : s \ {x} \in Good
  <2>1. CASE s = {}
    <3> DEFINE none == [i \in B |-> 0]
    <3>1. \A i \in B : of(s)[i] = 0
      <4> TAKE i \in B
      <4>1. in(s, i) = {}
        BY <2>1
      <4> HIDE DEF row, in
      <4>2. Sum(row(i), {}) = 0
        BY <1>1 DEF AddsUp
      <4>3. QED
        BY <4>1, <4>2
    <3>2. Numbers(of(s), B)
      BY <1>4
    <3>3. \A x \in B \ {} : of(s)[x] = 0
      BY <3>1
    <3> HIDE DEF of
    <3>4. Sum(of(s), B) = Sum(of(s), {})
      BY <3>2, <3>3, SumOfKnown
    <3>5. Sum(of(s), {}) = 0
      BY <3>2, SumsAddUp DEF AddsUp
    <3>6. Sum(col, s) = 0
      BY <1>3, <2>1 DEF AddsUp
    <3>7. QED
      BY <3>4, <3>5, <3>6
  <2>2. ASSUME NEW x \in s
        PROVE  s \in Good
    <3> DEFINE e == of(s)
               g == of(s \ {x})
               h == v[x]
    <3>1. Numbers(e, B) /\ Numbers(g, B) /\ Numbers(h, D[x]) /\ D[x] \in SUBSET B
      BY <1>2, <1>4
    <3>2. ASSUME NEW i \in B
          PROVE  e[i] = IF i \in D[x] THEN g[i] + h[i] ELSE g[i]
      <4>1. e[i] = Sum(row(i), in(s, i)) /\ g[i] = Sum(row(i), in(s \ {x}, i)) /\ row(i)[x] = h[i]
        OBVIOUS
      <4>2. CASE i \in D[x]
        <5>1. x \in in(s, i) /\ in(s, i) \in SUBSET in(K, i) /\ in(s, i) \ {x} = in(s \ {x}, i)
          BY <4>2
        <5>2. h[i] \in Int /\ Sum(row(i), in(s \ {x}, i)) \in Int
          <6>1. in(s \ {x}, i) \in SUBSET in(K, i) /\ h[i] \in Int
            BY <4>2
          <6> HIDE DEF row, in, h
          <6>2. QED
            BY <1>1, <6>1 DEF AddsUp
        <5> HIDE DEF row, in, e, g, h
        <5>3. Sum(row(i), in(s, i)) = row(i)[x] + Sum(row(i), in(s, i) \ {x})
          BY <1>1, <5>1 DEF AddsUp
        <5>4. Sum(row(i), in(s, i) \ {x}) = Sum(row(i), in(s \ {x}, i))
          BY <5>1
        <5>5. e[i] = h[i] + g[i] /\ g[i] \in Int /\ h[i] \in Int
          BY <4>1, <5>2, <5>3, <5>4
        <5>6. e[i] = g[i] + h[i]
          BY <5>5
        <5>7. QED
          BY <4>2, <5>6
      <4>3. CASE i \notin D[x]
        <5>1. in(s, i) = in(s \ {x}, i)
          BY <4>3
        <5>2. Sum(row(i), in(s, i)) = Sum(row(i), in(s \ {x}, i))
          BY <5>1
        <5> HIDE DEF row, in, e, g, h
        <5>3. QED
          BY <4>1, <4>3, <5>2
      <4>4. QED
        BY <4>2, <4>3
    <3> HIDE DEF e, g, h
    <3>3. Sum(e, B) = Sum(g, B) + Sum(h, D[x])
      BY <3>1, <3>2, SumOfBoth
    <3>4. Sum(g, B) = Sum(col, s \ {x})
      BY DEF g
    <3>5. Sum(h, D[x]) = col[x] /\ col[x] \in Int
      BY <1>2 DEF h
    <3>6. Sum(col, s) = col[x] + Sum(col, s \ {x}) /\ Sum(col, s \ {x}) \in Int
      <4> HIDE DEF col
      <4>1. s \ {x} \in SUBSET K
        OBVIOUS
      <4>2. QED
        BY <1>3, <4>1 DEF AddsUp
    <3> HIDE DEF col
    <3>7. Sum(e, B) = Sum(col, s)
      BY <3>3, <3>4, <3>5, <3>6
    <3>8. QED
      BY <3>7 DEF e
  <2>3. QED
    BY <2>1, <2>2
<1>6. K \in Good
  <2>1. K \in SUBSET K
    OBVIOUS
  <2> HIDE DEF Good
  <2>2. QED
    BY <1>5, <2>1, SubsetsAllGood
<1>7. Sum(of(K), B) = Sum(col, K)
  BY <1>6
<1>8. of(K) = Columns(K, B, D, v) /\ col = Rows(K, D, v)
  BY DEF Columns, Rows
<1> HIDE DEF of, col
<1>9. QED
  BY <1>7, <1>8

-------------------------------------------------------------------------------
\* Sequences joined into one: where each element is found, and that nothing else is.
Joins(s, U, f) ==
  /\ f[1] = s[1]
  /\ \A i \in 1..Len(s) : f[i] \in Seq(U) /\ (i # 1 => f[i] = f[i - 1] \o s[i])
  /\ FlattenSeq(s) = f[Len(s)]

\* FlattenSeq is the last of the sequences made by appending one after the other.
LEMMA FlattenSteps ==
  ASSUME NEW U, NEW s \in Seq(Seq(U)), Len(s) # 0
  PROVE  \E f : Joins(s, U, f)
<1> DEFINE n == Len(s)
           Next1(f, i) == IF i = 1 THEN s[i] ELSE f[i - 1] \o s[i]
           Rec(f, k) == f = [i \in 1..k |-> Next1(f, i)]
           Made == {k \in 0..n : \E f \in [1..k -> Seq(U)] : Rec(f, k)}
           f == CHOOSE g : Rec(g, n)
<1>1. n \in Nat /\ n # 0 /\ \A i \in 1..n : s[i] \in Seq(U)
  OBVIOUS
<1>2. 0 \in Made
  <2>1. 1..0 = {}
    OBVIOUS
  <2> DEFINE g == [i \in 1..0 |-> <<>>]
  <2>2. g \in [1..0 -> Seq(U)] /\ Rec(g, 0)
    BY <2>1
  <2>3. 0 \in 0..n
    BY <1>1
  <2> HIDE DEF g, Rec
  <2>4. QED
    BY <2>2, <2>3
<1>3. ASSUME NEW k \in 0..(n - 1), k \in Made
      PROVE  k + 1 \in Made
  <2>1. PICK g \in [1..k -> Seq(U)] : Rec(g, k)
    BY <1>3
  <2> DEFINE h == [i \in 1..(k + 1) |-> Next1(g, i)]
  <2>2. \A i \in 1..k : h[i] = g[i]
    <3> HIDE DEF Next1
    <3>1. \A i \in 1..k : g[i] = Next1(g, i)
      BY <2>1
    <3>2. \A i \in 1..k : i \in 1..(k + 1)
      BY <1>3
    <3>3. QED
      BY <3>1, <3>2
  <2>3. \A i \in 1..(k + 1) : i # 1 => i - 1 \in 1..k
    BY <1>1, <1>3
  <2>4. \A i \in 1..(k + 1) : Next1(h, i) = Next1(g, i)
    <3> HIDE DEF h
    <3>1. QED
      BY <2>2, <2>3
  <2>5. Rec(h, k + 1)
    BY <2>4
  <2>6. \A i \in 1..(k + 1) : Next1(g, i) \in Seq(U)
    BY <1>1, <1>3, <2>3
  <2>7. h \in [1..(k + 1) -> Seq(U)]
    BY <2>6
  <2>8. k + 1 \in 0..n
    BY <1>1, <1>3
  <2> HIDE DEF h
  <2>9. QED
    BY <2>5, <2>7, <2>8
<1>4. n \in Made
  <2> HIDE DEF Made
  <2>1. QED
    BY <1>1, <1>2, <1>3, CountUp
<1>5. PICK g \in [1..n -> Seq(U)] : Rec(g, n)
  BY <1>4
<1>6. Rec(f, n)
  <2> HIDE DEF Rec
  <2>1. QED
    BY <1>5
<1>7. FlattenSeq(s) = f[n]
  BY <1>1 DEF FlattenSeq
<1> HIDE DEF f
<1>8. \A i \in 1..n : f[i] = Next1(f, i)
  <2> HIDE DEF Next1
  <2>1. QED
    BY <1>6
<1> DEFINE Good == {k \in 0..n : \A i \in 1..k : f[i] \in Seq(U)}
<1>9. 0 \in Good
  BY <1>1
<1>10. ASSUME NEW k \in 0..(n - 1), k \in Good
       PROVE  k + 1 \in Good
  <2>1. f[k + 1] = Next1(f, k + 1)
    <3> HIDE DEF Next1
    <3>1. k + 1 \in 1..n
      BY <1>1, <1>10
    <3>2. QED
      BY <1>8, <3>1
  <2>2. k + 1 # 1 => k \in 1..k /\ f[k] \in Seq(U) /\ (k + 1) - 1 = k
    BY <1>1, <1>10
  <2>3. f[k + 1] \in Seq(U)
    BY <1>1, <1>10, <2>1, <2>2
  <2>4. k \in Nat /\ k + 1 \in 0..n /\ \A i \in 1..k : f[i] \in Seq(U)
    BY <1>1, <1>10
  <2>5. ASSUME NEW i \in 1..(k + 1)
        PROVE  f[i] \in Seq(U)
    <3>1. i \in 1..k \/ i = k + 1
      BY <2>4
    <3>2. QED
      BY <2>3, <2>4, <3>1
  <2>6. QED
    BY <2>4, <2>5
<1>11. n \in Good
  <2> HIDE DEF Good
  <2>1. QED
    BY <1>1, <1>9, <1>10, CountUp
<1>12. Joins(s, U, f)
  <2>1. \A i \in 1..n : f[i] \in Seq(U)
    BY <1>11
  <2>2. 1 \in 1..n /\ f[1] = s[1]
    BY <1>1, <1>8
  <2>3. \A i \in 1..n : i # 1 => f[i] = f[i - 1] \o s[i]
    BY <1>8
  <2>4. QED
    BY <1>7, <2>1, <2>2, <2>3 DEF Joins
<1>13. QED
  BY <1>12

-----------------------------------------------------------------------------
(***************************************************************************)
(* Lists that have one entry for each element of a set.                    *)
(***************************************************************************)

\* A list with one entry for each element of D, and each as R says.
Drawn(f, list, D, R) ==
  /\ f \in [1..Len(list) -> D]
  /\ \A i, j \in 1..Len(list) : f[i] = f[j] => i = j
  /\ \A d \in D : \E i \in 1..Len(list) : f[i] = d
  /\ \A i \in 1..Len(list) : <<list[i], f[i]>> \in R

\* The entries of a list and the elements of D, paired off.
Draws(list, D, R) == \E f : Drawn(f, list, D, R)

\* A list for A followed by one for B is one for both, if they are apart.
LEMMA DrawsJoined ==
  ASSUME NEW U, NEW a \in Seq(U), NEW b \in Seq(U), NEW A, NEW B, NEW R, A \cap B = {},
         Draws(a, A, R), Draws(b, B, R)
  PROVE  Draws(a \o b, A \cup B, R)
<1>1. PICK f : Drawn(f, a, A, R)
  BY DEF Draws
<1>2. PICK g : Drawn(g, b, B, R)
  BY DEF Draws
<1> DEFINE n == Len(a)
           m == Len(b)
           h == [i \in 1..(n + m) |-> IF i <= n THEN f[i] ELSE g[i - n]]
<1>3. /\ n \in Nat /\ m \in Nat
      /\ Len(a \o b) = n + m
      /\ \A i \in 1..(n + m) : (a \o b)[i] = IF i <= n THEN a[i] ELSE b[i - n]
  OBVIOUS
<1>4. \A i \in 1..(n + m) : IF i <= n THEN i \in 1..n ELSE i - n \in 1..m
  BY <1>3
<1>5. /\ f \in [1..n -> A] /\ \A i, j \in 1..n : f[i] = f[j] => i = j
      /\ \A d \in A : \E i \in 1..n : f[i] = d
      /\ \A i \in 1..n : <<a[i], f[i]>> \in R
      /\ g \in [1..m -> B] /\ \A i, j \in 1..m : g[i] = g[j] => i = j
      /\ \A d \in B : \E i \in 1..m : g[i] = d
      /\ \A i \in 1..m : <<b[i], g[i]>> \in R
  BY <1>1, <1>2 DEF Drawn
<1> HIDE DEF n, m
<1>6. h \in [1..(n + m) -> A \cup B]
  BY <1>3, <1>4, <1>5
<1>7. \A i, j \in 1..(n + m) : h[i] = h[j] => i = j
  <2> TAKE i, j \in 1..(n + m)
  <2>1. CASE i <= n /\ j <= n
    BY <1>3, <1>4, <1>5, <2>1
  <2>2. CASE ~(i <= n) /\ ~(j <= n)
    <3>1. h[i] = g[i - n] /\ h[j] = g[j - n] /\ i - n \in 1..m /\ j - n \in 1..m
      BY <1>4, <2>2
    <3>2. h[i] = h[j] => i - n = j - n
      BY <1>5, <3>1
    <3>3. QED
      BY <1>3, <3>2
  <2>3. CASE i <= n /\ ~(j <= n)
    <3>1. h[i] \in A /\ h[j] \in B
      BY <1>4, <1>5, <2>3
    <3>2. QED
      BY <3>1
  <2>4. CASE ~(i <= n) /\ j <= n
    <3>1. h[i] \in B /\ h[j] \in A
      BY <1>4, <1>5, <2>4
    <3>2. QED
      BY <3>1
  <2>5. QED
    BY <2>1, <2>2, <2>3, <2>4
<1>8. \A d \in A \cup B : \E i \in 1..(n + m) : h[i] = d
  <2> TAKE d \in A \cup B
  <2>1. CASE d \in A
    <3>1. PICK i \in 1..n : f[i] = d
      BY <1>5, <2>1
    <3>2. i \in 1..(n + m) /\ h[i] = d
      BY <1>3, <3>1
    <3>3. QED
      BY <3>2
  <2>2. CASE d \in B
    <3>1. PICK i \in 1..m : g[i] = d
      BY <1>5, <2>2
    <3>2. i + n \in 1..(n + m) /\ ~(i + n <= n) /\ (i + n) - n = i
      BY <1>3, <3>1
    <3>3. h[i + n] = d
      BY <3>1, <3>2
    <3>4. QED
      BY <3>2, <3>3
  <2>3. QED
    BY <2>1, <2>2
<1>9. \A i \in 1..(n + m) : <<(a \o b)[i], h[i]>> \in R
  BY <1>3, <1>4, <1>5
<1> HIDE DEF h
<1>10. Drawn(h, a \o b, A \cup B, R)
  BY <1>3, <1>6, <1>7, <1>8, <1>9 DEF Drawn
<1>11. QED
  BY <1>10 DEF Draws

\* The empty list has an entry for each element of nothing.
LEMMA DrawsNone ==
  ASSUME NEW R
  PROVE  Draws(<<>>, {}, R)
<1>1. 1..0 = {} /\ Len(<<>>) = 0
  OBVIOUS
<1>2. Drawn([i \in {} |-> 0], <<>>, {}, R)
  BY <1>1 DEF Drawn
<1>3. QED
  BY <1>2 DEF Draws

\* Lists for sets that are apart, joined into one.
LEMMA DrawsFlattened ==
  ASSUME NEW U, NEW s \in Seq(Seq(U)), NEW D, NEW R,
         \A i \in 1..Len(s) : Draws(s[i], D[i], R),
         \A i, j \in 1..Len(s) : i # j => D[i] \cap D[j] = {}
  PROVE  /\ FlattenSeq(s) \in Seq(U)
         /\ Draws(FlattenSeq(s), UNION {D[i] : i \in 1..Len(s)}, R)
<1> DEFINE n == Len(s)
<1>1. n \in Nat
  OBVIOUS
<1>2. CASE n = 0
  <2>1. s = <<>> /\ 1..Len(s) = {}
    BY <1>2
  <2>2. FlattenSeq(s) = <<>>
    BY <2>1 DEF FlattenSeq
  <2>3. UNION {D[i] : i \in 1..Len(s)} = {}
    BY <2>1
  <2>4. <<>> \in Seq(U)
    OBVIOUS
  <2>5. Draws(<<>>, {}, R)
    BY DrawsNone
  <2>6. QED
    BY <2>2, <2>3, <2>4, <2>5
<1>3. CASE n # 0
  <2>1. PICK f : Joins(s, U, f)
    BY <1>3, FlattenSteps
  <2>2. /\ f[1] = s[1]
        /\ \A i \in 1..n : f[i] \in Seq(U) /\ (i # 1 => f[i] = f[i - 1] \o s[i])
        /\ FlattenSeq(s) = f[n]
    BY <2>1 DEF Joins
  <2> DEFINE upto(k) == UNION {D[i] : i \in 1..k}
             Good == {k \in 0..n : k # 0 => Draws(f[k], upto(k), R)}
  <2>3. 0 \in Good
    BY <1>1
  <2>4. ASSUME NEW k \in 0..(n - 1), k \in Good
        PROVE  k + 1 \in Good
    <3>1. k + 1 \in 1..n /\ k \in Nat
      BY <1>1
    <3>2. Draws(s[k + 1], D[k + 1], R) /\ s[k + 1] \in Seq(U)
      BY <3>1
    <3>3. CASE k = 0
      <4>1. upto(k + 1) = D[k + 1] /\ f[k + 1] = s[k + 1]
        BY <2>2, <3>3
      <4>2. Draws(f[k + 1], upto(k + 1), R)
        BY <3>2, <4>1
      <4>3. QED
        BY <3>1, <4>2
    <3>4. CASE k # 0
      <4>1. upto(k + 1) = upto(k) \cup D[k + 1]
        <5>1. 1..(k + 1) = (1..k) \cup {k + 1}
          BY <3>1
        <5>2. QED
          BY <5>1
      <4>2. upto(k) \cap D[k + 1] = {}
        <5>1. \A i \in 1..k : i \in 1..n /\ i # k + 1
          BY <1>1, <3>1
        <5>2. \A i \in 1..k : D[i] \cap D[k + 1] = {}
          BY <3>1, <5>1
        <5>3. QED
          BY <5>2
      <4>3. Draws(f[k], upto(k), R)
        BY <2>4, <3>4
      <4>4. f[k] \in Seq(U) /\ f[k + 1] = f[k] \o s[k + 1]
        <5>1. k \in 1..n /\ (k + 1) - 1 = k /\ k + 1 # 1
          BY <1>1, <3>1, <3>4
        <5>2. QED
          BY <2>2, <3>1, <5>1
      <4> HIDE DEF upto
      <4>5. Draws(f[k] \o s[k + 1], upto(k) \cup D[k + 1], R)
        BY <3>2, <4>2, <4>3, <4>4, DrawsJoined
      <4>6. Draws(f[k + 1], upto(k + 1), R)
        BY <4>1, <4>4, <4>5
      <4>7. QED
        BY <3>1, <4>6
    <3>5. QED
      BY <3>3, <3>4
  <2>5. n \in Good
    <3> HIDE DEF Good
    <3>1. QED
      BY <1>1, <2>3, <2>4, CountUp
  <2>6. n \in 1..n
    BY <1>1, <1>3
  <2>7. Draws(f[n], upto(n), R) /\ f[n] \in Seq(U)
    BY <1>3, <2>2, <2>5, <2>6
  <2>8. QED
    BY <2>2, <2>7
<1>4. QED
  BY <1>2, <1>3

-----------------------------------------------------------------------------
(***************************************************************************)
(* One result laid into the entry of its metric (MetricFetch.tla).         *)
(***************************************************************************)

\* The stamp t of piece i is the latest of its bucket in the first n pieces of m, and
\* no later piece has one there.
Decides(x, m, n, i, t) ==
  \A j \in 1..n : \A u \in DOMAIN m.pieces[j] : align(x, u) = align(x, t) => j < i \/ (j = i /\ u <= t)

\* Points as the first n pieces of m make them.
PointsOf(x, points, m, n) ==
  /\ DOMAIN points = UNION {{align(x, t) : t \in DOMAIN m.pieces[i]} : i \in 1..n}
  /\ \A i \in 1..n : \A t \in DOMAIN m.pieces[i] :
       Decides(x, m, n, i, t) => points[align(x, t)] = m.pieces[i][t]

\* A sequence, of whatever elements.
IsList(s) == \E U : s \in Seq(U)

\* An entry of a result, as the first n pieces of m make it.
EntryOf(x, e, m, n) == n # 0 /\ e.label = m.label /\ PointsOf(x, e.points, m, n)

\* A list with one entry for each metric of F of which h pieces, not none, have come.
ListIs(x, list, F, h) ==
  /\ IsList(list)
  /\ \A i, j \in DOMAIN list : list[i].label = list[j].label => i = j
  /\ \A i \in DOMAIN list : \E m \in F : EntryOf(x, list[i], m, h[m])
  /\ \A m \in F : h[m] # 0 => \E i \in DOMAIN list : list[i].label = m.label

\* No two metrics of F have the same label.
LabelsApart(F) == \A m, o \in F : m.label = o.label => m = o

\* What PublishedAssumption says of one metric: its pieces are of numbers, in order of time.
LEMMA PiecesAre ==
  ASSUME NEW m \in Published
  PROVE  /\ m.label \in Nat
         /\ Len(m.pieces) \in Nat \ {0}
         /\ \A i \in 1..Len(m.pieces) :
              /\ IsFiniteSet(DOMAIN m.pieces[i]) /\ DOMAIN m.pieces[i] \in SUBSET Nat
              /\ \A t \in DOMAIN m.pieces[i] : m.pieces[i][t] \in Int
         /\ \A i, j \in 1..Len(m.pieces) : i < j =>
              \A t \in DOMAIN m.pieces[i], u \in DOMAIN m.pieces[j] : t <= u
<1>1. m.pieces # <<>> /\ m.pieces \in Seq(ToSet(m.pieces)) /\ DOMAIN m.pieces = 1..Len(m.pieces)
  BY PublishedAssumption
<1>2. Len(m.pieces) \in Nat \ {0}
  <2> DEFINE s == m.pieces
             U == ToSet(m.pieces)
  <2>1. s \in Seq(U) /\ s # <<>>
    BY <1>1
  <2> HIDE DEF s, U
  <2>2. Len(s) \in Nat \ {0}
    BY <2>1, EmptySeq
  <2>3. QED
    BY <2>2 DEF s
<1>3. QED
  BY PublishedAssumption

\* One more piece is joined to the points of an entry: the last stamp of a bucket decides
\* still (metrics.ts joinPoints).
LEMMA JoinedPoints ==
  ASSUME NEW m \in Published, NEW n \in 0..(Len(m.pieces) - 1), NEW points, PointsOf(w, points, m, n)
  PROVE  PointsOf(w, Joined(points, m.pieces[n + 1]), m, n + 1)
<1> DEFINE piece == m.pieces[n + 1]
           come == {align(w, t) : t \in DOMAIN piece}
           laid == Joined(points, piece)
           stamps(b) == {t \in DOMAIN piece : align(w, t) = b}
<1>1. /\ n \in Nat /\ n + 1 \in 1..Len(m.pieces)
      /\ \A i \in 1..(n + 1) : i \in 1..n \/ i = n + 1
      /\ \A i \in 1..n : i \in 1..(n + 1) /\ i # n + 1 /\ ~(n + 1 < i)
  BY PiecesAre
<1>2. DOMAIN piece \in SUBSET Nat
  BY <1>1, PiecesAre
<1>3. laid = [b \in DOMAIN points \cup come |-> IF b \in come THEN piece[Max(stamps(b))] ELSE points[b]]
  BY DEF Joined, alignToBucket
<1> HIDE DEF laid
<1>4. DOMAIN laid = UNION {{align(w, t) : t \in DOMAIN m.pieces[i]} : i \in 1..(n + 1)}
  <2>1. DOMAIN laid = DOMAIN points \cup come
    BY <1>3
  <2>2. DOMAIN points = UNION {{align(w, t) : t \in DOMAIN m.pieces[i]} : i \in 1..n}
    BY DEF PointsOf
  <2>3. n + 1 \in 1..(n + 1)
    BY <1>1
  <2>4. QED
    BY <1>1, <2>1, <2>2, <2>3
<1>5. ASSUME NEW i \in 1..(n + 1), NEW t \in DOMAIN m.pieces[i], Decides(w, m, n + 1, i, t)
      PROVE  laid[align(w, t)] = m.pieces[i][t]
  <2>1. \A j \in 1..(n + 1) : \A u \in DOMAIN m.pieces[j] :
          align(w, u) = align(w, t) => j < i \/ (j = i /\ u <= t)
    BY <1>5 DEF Decides
  <2>2. CASE i = n + 1
    <3>1. t \in stamps(align(w, t)) /\ stamps(align(w, t)) \in SUBSET Int
      BY <1>2, <2>2
    <3>2. \A u \in stamps(align(w, t)) : u <= t
      BY <1>1, <2>1, <2>2
    <3>3. align(w, t) \in come
      BY <2>2
    <3> HIDE DEF stamps, come, piece
    <3>4. Max(stamps(align(w, t))) = t
      BY <3>1, <3>2, GreatestIs
    <3>5. laid[align(w, t)] = piece[t]
      BY <1>3, <3>3, <3>4
    <3>6. QED
      BY <2>2, <3>5 DEF piece
  <2>3. CASE i # n + 1
    <3>1. i \in 1..n
      BY <1>1, <2>3
    <3>2. align(w, t) \notin come
      <4> SUFFICES ASSUME NEW u \in DOMAIN piece, align(w, u) = align(w, t) PROVE FALSE
        OBVIOUS
      <4>1. n + 1 < i \/ n + 1 = i
        BY <1>1, <2>1
      <4>2. QED
        BY <1>1, <2>3, <3>1, <4>1
    <3>3. Decides(w, m, n, i, t)
      BY <1>1, <2>1 DEF Decides
    <3>4. points[align(w, t)] = m.pieces[i][t] /\ align(w, t) \in DOMAIN points
      BY <3>1, <3>3 DEF PointsOf
    <3> HIDE DEF come
    <3>5. QED
      BY <1>3, <3>2, <3>4
  <2>4. QED
    BY <2>2, <2>3
<1>6. QED
  BY <1>4, <1>5 DEF PointsOf, laid

\* A result is laid into the entry of its metric, which is made if there is none.
LEMMA IntoKeeps ==
  ASSUME NEW F \in SUBSET Published, LabelsApart(F), NEW h \in [F -> Nat], NEW list, ListIs(w, list, F, h),
         NEW m \in F, h[m] < Len(m.pieces)
  PROVE  ListIs(w, Into(list, m.label, m.pieces[h[m] + 1]), F, [h EXCEPT ![m] = @ + 1])
<1> DEFINE n == h[m]
           piece == m.pieces[n + 1]
           more == [h EXCEPT ![m] = @ + 1]
           into == Into(list, m.label, piece)
<1>1. PICK U : list \in Seq(U)
  BY DEF ListIs, IsList
<1>2. /\ \A i, j \in DOMAIN list : list[i].label = list[j].label => i = j
      /\ \A i \in DOMAIN list : \E o \in F : EntryOf(w, list[i], o, h[o])
      /\ \A o \in F : h[o] # 0 => \E i \in DOMAIN list : list[i].label = o.label
      /\ DOMAIN list = 1..Len(list) /\ Len(list) \in Nat
  BY <1>1 DEF ListIs
<1>3. m \in Published /\ n \in 0..(Len(m.pieces) - 1) /\ n \in Nat
  <2>1. Len(m.pieces) \in Nat
    BY PiecesAre
  <2>2. QED
    BY <2>1
<1>4. more[m] = n + 1 /\ more[m] # 0 /\ \A o \in F \ {m} : more[o] = h[o]
  BY <1>3
<1> HIDE DEF more, n, piece
<1>5. CASE \A i \in DOMAIN list : list[i].label # m.label
  <2> DEFINE e == [label |-> m.label, points |-> Joined([b \in {} |-> 0], piece)]
  <2>1. into = Append(list, e)
    BY <1>5 DEF Into
  <2>2. n = 0
    BY <1>2, <1>5 DEF n
  <2>3. PointsOf(w, [b \in {} |-> 0], m, 0)
    <3>1. 1..0 = {}
      OBVIOUS
    <3>2. QED
      BY <3>1 DEF PointsOf
  <2>4. PointsOf(w, Joined([b \in {} |-> 0], piece), m, n + 1)
    BY <1>3, <2>2, <2>3, JoinedPoints DEF piece
  <2>5. EntryOf(w, e, m, more[m]) /\ e.label = m.label
    <3>1. e.label = m.label /\ e.points = Joined([b \in {} |-> 0], piece)
      OBVIOUS
    <3> HIDE DEF e
    <3>2. QED
      BY <1>4, <2>4, <3>1 DEF EntryOf
  <2> HIDE DEF e
  <2>6. /\ into \in Seq(U \cup {e})
        /\ DOMAIN into = 1..(Len(list) + 1)
        /\ \A i \in DOMAIN list : into[i] = list[i] /\ i \in DOMAIN into /\ i # Len(list) + 1
        /\ into[Len(list) + 1] = e
        /\ \A i \in DOMAIN into : i \in DOMAIN list \/ i = Len(list) + 1
    BY <1>1, <1>2, <2>1
  <2> HIDE DEF into
  <2>7. IsList(into)
    BY <2>6 DEF IsList
  <2>8. \A i, j \in DOMAIN into : into[i].label = into[j].label => i = j
    BY <1>2, <1>5, <2>5, <2>6
  <2>9. \A i \in DOMAIN into : \E o \in F : EntryOf(w, into[i], o, more[o])
    <3> TAKE i \in DOMAIN into
    <3>1. CASE i \in DOMAIN list
      <4>1. PICK o \in F : EntryOf(w, list[i], o, h[o])
        BY <1>2, <3>1
      <4>2. o # m
        BY <1>5, <3>1, <4>1 DEF EntryOf
      <4>3. EntryOf(w, into[i], o, more[o])
        BY <1>4, <2>6, <3>1, <4>1, <4>2
      <4>4. QED
        BY <4>3
    <3>2. CASE i = Len(list) + 1
      BY <2>5, <2>6, <3>2
    <3>3. QED
      BY <2>6, <3>1, <3>2
  <2>10. \A o \in F : more[o] # 0 => \E i \in DOMAIN into : into[i].label = o.label
    <3> TAKE o \in F
    <3>1. CASE o = m
      <4>1. Len(list) + 1 \in DOMAIN into /\ into[Len(list) + 1].label = m.label
        BY <1>2, <2>5, <2>6
      <4>2. QED
        BY <3>1, <4>1
    <3>2. CASE o # m
      BY <1>2, <1>4, <2>6, <3>2
    <3>3. QED
      BY <3>1, <3>2
  <2>11. QED
    BY <2>7, <2>8, <2>9, <2>10 DEF ListIs, into, n, piece, more
<1>6. CASE ~\A i \in DOMAIN list : list[i].label # m.label
  <2>1. PICK k \in DOMAIN list : list[k].label = m.label
    BY <1>6
  <2> DEFINE new(i) == [list[i] EXCEPT !.points = Joined(@, piece)]
  <2>2. into = [i \in DOMAIN list |-> IF list[i].label = m.label THEN new(i) ELSE list[i]]
    BY <1>6 DEF Into
  <2>3. EntryOf(w, list[k], m, h[m])
    <3>1. PICK o \in F : EntryOf(w, list[k], o, h[o])
      BY <1>2
    <3>2. o = m
      BY <2>1, <3>1 DEF EntryOf, LabelsApart
    <3>3. QED
      BY <3>1, <3>2
  <2>4. \A i \in DOMAIN list : list[i].label = m.label => i = k
    BY <1>2, <2>1
  <2>5. PointsOf(w, Joined(list[k].points, piece), m, n + 1)
    BY <1>3, <2>3, JoinedPoints DEF EntryOf, piece, n
  <2>6. new(k).label = m.label /\ EntryOf(w, new(k), m, more[m])
    <3>1. PICK o \in F : EntryOf(w, list[k], o, h[o])
      BY <1>2
    <3>2. new(k).label = list[k].label /\ new(k).points = Joined(list[k].points, piece)
      OBVIOUS
    <3> HIDE DEF new
    <3>3. QED
      BY <1>4, <2>1, <2>5, <3>2 DEF EntryOf
  <2> HIDE DEF new
  <2>7. /\ DOMAIN into = DOMAIN list
        /\ into[k] = new(k)
        /\ \A i \in DOMAIN list : i # k => into[i] = list[i]
        /\ \A i \in DOMAIN list : into[i].label = list[i].label
    BY <2>1, <2>2, <2>4, <2>6
  <2>8. IsList(into)
    <3> DEFINE V == {into[i] : i \in DOMAIN list}
    <3>1. into \in [1..Len(list) -> V]
      BY <1>2, <2>2
    <3> HIDE DEF V, into
    <3>2. into \in Seq(V)
      BY <1>2, <3>1
    <3>3. QED
      BY <3>2 DEF IsList
  <2> HIDE DEF into
  <2>9. \A i, j \in DOMAIN into : into[i].label = into[j].label => i = j
    BY <1>2, <2>7
  <2>10. \A i \in DOMAIN into : \E o \in F : EntryOf(w, into[i], o, more[o])
    <3> TAKE i \in DOMAIN into
    <3>1. CASE i = k
      BY <2>6, <2>7, <3>1
    <3>2. CASE i # k
      <4>1. PICK o \in F : EntryOf(w, list[i], o, h[o])
        BY <1>2, <2>7
      <4>2. o # m
        BY <2>4, <2>7, <3>2, <4>1 DEF EntryOf
      <4>3. EntryOf(w, into[i], o, more[o])
        BY <1>4, <2>7, <3>2, <4>1, <4>2
      <4>4. QED
        BY <4>3
    <3>3. QED
      BY <3>1, <3>2
  <2>11. \A o \in F : more[o] # 0 => \E i \in DOMAIN into : into[i].label = o.label
    <3> TAKE o \in F
    <3>1. CASE o = m
      BY <2>1, <2>7, <3>1
    <3>2. CASE o # m
      BY <1>2, <1>4, <2>7, <3>2
    <3>3. QED
      BY <3>1, <3>2
  <2>12. QED
    BY <2>8, <2>9, <2>10, <2>11 DEF ListIs, into, n, piece, more
<1>7. QED
  BY <1>5, <1>6

-----------------------------------------------------------------------------
(***************************************************************************)
(* The walk of chunks and pages.  Each request has, under its key, the pieces of *)
(* its metrics that came so far; two requests have different keys and two metrics *)
(* of one request different labels, so that no piece is laid into another's. *)
(***************************************************************************)

\* The requests of the chunk after n, by their places.
Asked(n) == {i \in 1..Len(reqs) : n < i /\ i <= n + ChunkSize}

\* The pieces of each metric of request i that are in out, once those of the answers in
\* s are: all of an earlier chunk, as many as were given of this one.
Had(s, i) ==
  [m \in Found(reqs[i]) |->
     IF i <= first THEN Len(m.pieces)
     ELSE IF i <= first + ChunkSize
     THEN given[<<reqs[i], m>>] + (IF <<reqs[i], m>> \in s THEN 1 ELSE 0)
     ELSE 0]

\* The keys of the requests.
KeysAsked == {reqs[i].key : i \in DOMAIN reqs}

\* Under the key of each request, o has the pieces that have come.
Holds(o, s) ==
  /\ o = [k \in KeysAsked |-> o[k]]
  /\ \A i \in 1..Len(reqs) : ListIs(w, o[reqs[i].key], Found(reqs[i]), Had(s, i))

\* No two requests have the same key: the lists of two specs or sets are not mixed up.
KeysApart == \A i, j \in 1..Len(reqs) : reqs[i].key = reqs[j].key => i = j

\* No two metrics that a request finds have the same label.
Apart == \A i \in 1..Len(reqs) : LabelsApart(Found(reqs[i]))

\* Where the walk is: chunks before first are done, and no more was given than there is.
Walking ==
  /\ IsList(reqs)
  /\ KeysApart
  /\ first \in Nat /\ (pc # "asking" => Len(reqs) <= first)
  /\ given \in [Answers(first) -> Nat]
  /\ \A a \in Answers(first) : given[a] <= Len(a[2].pieces)

\* The invariant of the fetch: until it fails, out has exactly what was given so far.
FetchInv == pc # "failed" => Walking /\ Holds(out, {})

\* The requests of a chunk are those of the next ChunkSize places.
LEMMA ChunkIs ==
  ASSUME IsList(reqs), NEW n \in Nat
  PROVE  /\ Len(reqs) \in Nat /\ DOMAIN reqs = 1..Len(reqs)
         /\ ToSet(Chunk(n)) = {reqs[i] : i \in Asked(n)}
<1>1. PICK U : reqs \in Seq(U)
  BY DEF IsList
<1> DEFINE l == Len(reqs)
           to == IF n + ChunkSize < l THEN n + ChunkSize ELSE l
           c == SubSeq(reqs, n + 1, to)
<1>2. l \in Nat /\ DOMAIN reqs = 1..l /\ ChunkSize \in Nat \ {0} /\ to \in Nat
  BY <1>1, MetricFetchAssumption
<1>3. \A i \in (n + 1)..to : i \in 1..l /\ i \in Asked(n)
  BY <1>2 DEF Asked
<1>4. \A i \in Asked(n) : i \in (n + 1)..to
  BY <1>2 DEF Asked
<1>5. n + 1 \in Int /\ to \in Int /\ \A i \in (n + 1)..to : reqs[i] \in U
  BY <1>1, <1>2, <1>3
<1> HIDE DEF to, l
<1>6. /\ c \in Seq(U)
      /\ Len(c) = IF n + 1 <= to THEN to - (n + 1) + 1 ELSE 0
      /\ \A i \in 1..(to - (n + 1) + 1) : c[i] = reqs[n + 1 + i - 1]
  BY <1>5, SubSeqProperties
<1>7. c = Chunk(n)
  BY DEF Chunk, to, l
<1> HIDE DEF c
<1>8. DOMAIN c = 1..(to - (n + 1) + 1)
  BY <1>2, <1>6
<1>9. \A i \in DOMAIN c : n + 1 + i - 1 \in Asked(n) /\ c[i] = reqs[n + 1 + i - 1]
  <2> TAKE i \in DOMAIN c
  <2>1. n + 1 + i - 1 \in (n + 1)..to
    BY <1>2, <1>8
  <2>2. QED
    BY <1>3, <1>6, <1>8, <2>1
<1>10. \A i \in Asked(n) : \E j \in DOMAIN c : c[j] = reqs[i]
  <2> TAKE i \in Asked(n)
  <2>1. i \in (n + 1)..to
    BY <1>4
  <2>2. i - n \in 1..(to - (n + 1) + 1) /\ n + 1 + (i - n) - 1 = i
    BY <1>2, <2>1
  <2>3. c[i - n] = reqs[i]
    BY <1>6, <2>2
  <2>4. QED
    BY <1>8, <2>2, <2>3
<1>11. ToSet(c) = {reqs[i] : i \in Asked(n)}
  BY <1>9, <1>10 DEF ToSet
<1>12. QED
  BY <1>2, <1>7, <1>11 DEF l

\* A chunk is answered by each metric that each of its requests finds.
LEMMA AnswersAre ==
  ASSUME IsList(reqs), NEW n \in Nat
  PROVE  /\ \A a \in Answers(n) : \E i \in Asked(n) : \E m \in Found(reqs[i]) : a = <<reqs[i], m>>
         /\ \A i \in Asked(n) : \A m \in Found(reqs[i]) : <<reqs[i], m>> \in Answers(n)
         /\ IsFiniteSet(Answers(n))
<1>1. Answers(n) = UNION {{q} \X Found(q) : q \in {reqs[i] : i \in Asked(n)}}
  BY ChunkIs DEF Answers
<1>2. \A a \in Answers(n) : \E i \in Asked(n) : \E m \in Found(reqs[i]) : a = <<reqs[i], m>>
  BY <1>1
<1>3. \A i \in Asked(n) : \A m \in Found(reqs[i]) : <<reqs[i], m>> \in Answers(n)
  BY <1>1
<1>4. IsFiniteSet(Answers(n))
  <2> DEFINE T == {reqs[i] : i \in 1..Len(reqs)}
             f == [i \in 1..Len(reqs) |-> reqs[i]]
  <2>1. Len(reqs) \in Nat
    BY ChunkIs
  <2>2. IsFiniteSet(1..Len(reqs))
    BY <2>1, FS_Interval
  <2>3. f \in Surjection(1..Len(reqs), T)
    BY DEF Surjection
  <2> HIDE DEF f, T
  <2>4. IsFiniteSet(T)
    BY <2>2, <2>3, FS_Surjection
  <2>5. IsFiniteSet(T \X Published)
    BY <2>4, PublishedAssumption, FS_Product
  <2>6. Answers(n) \in SUBSET (T \X Published)
    BY <1>2 DEF T, Asked, Found
  <2>7. QED
    BY <2>5, <2>6, FS_Subset
<1>5. QED
  BY <1>2, <1>3, <1>4

\* The pieces that have come are counted.
LEMMA HadTypes ==
  ASSUME Walking, NEW s, NEW i \in 1..Len(reqs)
  PROVE  Had(s, i) \in [Found(reqs[i]) -> Nat]
<1>1. \A m \in Found(reqs[i]) : Len(m.pieces) \in Nat
  BY PiecesAre DEF Found
<1>2. first \in Nat /\ ChunkSize \in Nat /\ Len(reqs) \in Nat
  BY MetricFetchAssumption, ChunkIs DEF Walking
<1>3. ASSUME i <= first + ChunkSize, ~(i <= first), NEW m \in Found(reqs[i])
      PROVE  given[<<reqs[i], m>>] \in Nat
  <2>1. i \in Asked(first)
    BY <1>2, <1>3 DEF Asked
  <2>2. <<reqs[i], m>> \in Answers(first)
    BY <1>2, <1>3, <2>1, AnswersAre DEF Walking
  <2>3. QED
    BY <2>2 DEF Walking
<1>4. \A m \in Found(reqs[i]) :
        (IF i <= first THEN Len(m.pieces)
         ELSE IF i <= first + ChunkSize
         THEN given[<<reqs[i], m>>] + (IF <<reqs[i], m>> \in s THEN 1 ELSE 0)
         ELSE 0) \in Nat
  BY <1>1, <1>3
<1>5. QED
  BY <1>4 DEF Had

\* One more result.
LEMMA ResultKeeps ==
  ASSUME Walking, Apart, NEW s, NEW o, Holds(o, s), NEW a \in Answers(first), Left(a), a \notin s
  PROVE  Holds([o EXCEPT ![a[1].key] = Into(@, a[2].label, a[2].pieces[given[a] + 1])], s \cup {a})
<1>1. first \in Nat /\ ChunkSize \in Nat \ {0} /\ Len(reqs) \in Nat /\ DOMAIN reqs = 1..Len(reqs)
  BY MetricFetchAssumption, ChunkIs DEF Walking
<1>2. PICK j \in Asked(first) : \E m \in Found(reqs[j]) : a = <<reqs[j], m>>
  BY AnswersAre DEF Walking
<1>3. PICK m \in Found(reqs[j]) : a = <<reqs[j], m>>
  BY <1>2
<1>4. j \in 1..Len(reqs) /\ ~(j <= first) /\ j <= first + ChunkSize
  BY <1>1 DEF Asked
<1> DEFINE list == o[reqs[j].key]
           F == Found(reqs[j])
           h == Had(s, j)
           into == Into(list, m.label, m.pieces[given[a] + 1])
           o2 == [o EXCEPT ![a[1].key] = Into(@, a[2].label, a[2].pieces[given[a] + 1])]
<1>5. h[m] = given[a] /\ given[a] \in Nat
  <2>1. h[m] = given[a] + 0
    BY <1>3, <1>4 DEF Had
  <2>2. given[a] \in Nat
    BY DEF Walking
  <2>3. QED
    BY <2>1, <2>2
<1>6. /\ F \in SUBSET Published /\ LabelsApart(F) /\ h \in [F -> Nat] /\ ListIs(w, list, F, h)
      /\ h[m] < Len(m.pieces)
  <2>1. F \in SUBSET Published
    BY DEF Found
  <2>2. h \in [F -> Nat]
    BY <1>4, HadTypes
  <2>3. LabelsApart(F) /\ ListIs(w, list, F, h)
    BY <1>4 DEF Apart, Holds
  <2>4. h[m] < Len(m.pieces)
    BY <1>3, <1>5 DEF Left
  <2>5. QED
    BY <2>1, <2>2, <2>3, <2>4
<1>7. Had(s \cup {a}, j) = [h EXCEPT ![m] = @ + 1]
  <2>1. \A x \in F : x # m => (<<reqs[j], x>> \in s \cup {a} <=> <<reqs[j], x>> \in s)
    BY <1>3
  <2>2. <<reqs[j], m>> \in s \cup {a} /\ <<reqs[j], m>> \notin s
    BY <1>3
  <2>3. Had(s \cup {a}, j) = [x \in F |-> given[<<reqs[j], x>>] + (IF <<reqs[j], x>> \in s \cup {a} THEN 1 ELSE 0)]
    BY <1>4 DEF Had
  <2>4. h = [x \in F |-> given[<<reqs[j], x>>] + (IF <<reqs[j], x>> \in s THEN 1 ELSE 0)]
    BY <1>4 DEF Had
  <2> HIDE DEF h
  <2>5. \A x \in F : Had(s \cup {a}, j)[x] = IF x = m THEN h[m] + 1 ELSE h[x]
    <3> TAKE x \in F
    <3>1. CASE x = m
      <4>1. Had(s \cup {a}, j)[x] = given[<<reqs[j], m>>] + 1
        BY <2>2, <2>3, <3>1
      <4>2. QED
        BY <1>3, <1>5, <3>1, <4>1
    <3>2. CASE x # m
      BY <2>1, <2>3, <2>4, <3>2
    <3>3. QED
      BY <3>1, <3>2
  <2>6. DOMAIN h = F
    BY <2>4
  <2>7. Had(s \cup {a}, j) = [x \in F |-> Had(s \cup {a}, j)[x]]
    BY <2>3
  <2> HIDE DEF F
  <2>8. Had(s \cup {a}, j) = [x \in F |-> IF x = m THEN h[m] + 1 ELSE h[x]]
    BY <2>5, <2>7
  <2>9. h = [x \in F |-> h[x]]
    BY <1>6
  <2>10. [h EXCEPT ![m] = @ + 1] = [x \in F |-> IF x = m THEN h[m] + 1 ELSE h[x]]
    BY <2>9
  <2>11. QED
    BY <2>8, <2>10
<1>8. ListIs(w, into, F, [h EXCEPT ![m] = @ + 1])
  <2>1. m \in F
    OBVIOUS
  <2> HIDE DEF F, h, list
  <2>2. ListIs(w, Into(list, m.label, m.pieces[h[m] + 1]), F, [h EXCEPT ![m] = @ + 1])
    BY <1>6, <2>1, IntoKeeps
  <2>3. QED
    BY <1>5, <2>2
<1>9. /\ o = [k \in KeysAsked |-> o[k]]
      /\ reqs[j].key \in KeysAsked
      /\ a[1].key = reqs[j].key /\ a[2] = m
  BY <1>1, <1>3, <1>4 DEF Holds, KeysAsked
<1>10. /\ o2 = [k \in KeysAsked |-> o2[k]]
       /\ o2[reqs[j].key] = into
       /\ \A k \in KeysAsked \ {reqs[j].key} : o2[k] = o[k]
  <2> HIDE DEF KeysAsked
  <2>1. QED
    BY <1>9
<1> HIDE DEF o2, into
<1>11. ASSUME NEW i \in 1..Len(reqs)
       PROVE  ListIs(w, o2[reqs[i].key], Found(reqs[i]), Had(s \cup {a}, i))
  <2>1. CASE i = j
    <3>1. o2[reqs[i].key] = into /\ Found(reqs[i]) = F /\ Had(s \cup {a}, i) = [h EXCEPT ![m] = @ + 1]
      BY <1>7, <1>10, <2>1
    <3> HIDE DEF F, h
    <3>2. QED
      BY <1>8, <3>1
  <2>2. CASE i # j
    <3>1. reqs[i].key # reqs[j].key /\ reqs[i].key \in KeysAsked
      BY <1>1, <1>4, <2>2 DEF Walking, KeysApart, KeysAsked
    <3>2. o2[reqs[i].key] = o[reqs[i].key]
      BY <1>10, <3>1
    <3>3. Had(s \cup {a}, i) = Had(s, i)
      <4>1. reqs[i] # reqs[j]
        BY <3>1
      <4>2. \A x : <<reqs[i], x>> \in s \cup {a} <=> <<reqs[i], x>> \in s
        BY <1>3, <4>1
      <4>3. QED
        BY <4>2 DEF Had
    <3>4. ListIs(w, o[reqs[i].key], Found(reqs[i]), Had(s, i))
      BY DEF Holds
    <3>5. QED
      BY <3>2, <3>3, <3>4
  <2>3. QED
    BY <2>1, <2>2
<1>12. QED
  BY <1>10, <1>11 DEF Holds, o2

\* The results of a page, each once.
LEMMA ResultsAre ==
  ASSUME NEW S, IsFiniteSet(S)
  PROVE  /\ SetToSeq(S) \in Seq(S)
         /\ \A i, j \in 1..Len(SetToSeq(S)) : SetToSeq(S)[i] = SetToSeq(S)[j] => i = j
         /\ {SetToSeq(S)[i] : i \in 1..Len(SetToSeq(S))} = S
<1> DEFINE n == Cardinality(S)
           f == SetToSeq(S)
<1>1. n \in Nat /\ ExistsBijection(1..n, S)
  BY FS_CardinalityType
<1>2. PICK g \in Bijection(1..n, S) : TRUE
  BY <1>1 DEF ExistsBijection
<1>3. g \in [1..n -> S] /\ IsInjective(g)
  BY <1>2 DEF Bijection, Injection
<1>4. f \in [1..n -> S] /\ IsInjective(f)
  BY <1>3 DEF SetToSeq
<1>5. f \in Injection(1..n, S)
  BY <1>4 DEF Injection
<1>6. Cardinality(1..n) = n
  BY <1>1, FS_Interval
<1>7. f \in Surjection(1..n, S)
  BY <1>5, <1>6, FS_Injection
<1> HIDE DEF f, n
<1>8. f \in Seq(S) /\ Len(f) = n
  BY <1>1, <1>4
<1>9. \A i, j \in 1..n : f[i] = f[j] => i = j
  BY <1>4 DEF IsInjective
<1>10. {f[i] : i \in 1..n} = S
  BY <1>4, <1>7 DEF Surjection
<1>11. QED
  BY <1>8, <1>9, <1>10 DEF f

\* A page of results, laid in one after the other.
LEMMA TakenKeeps ==
  ASSUME Walking, Apart, Holds(out, {}), NEW come \in SUBSET {a \in DOMAIN given : Left(a)}
  PROVE  Holds(Taken(SetToSeq(come)), come)
<1> DEFINE r == SetToSeq(come)
           n == Len(r)
           Next1(f, i) == IF i = 0 THEN out
                          ELSE LET a == r[i]
                               IN  [f[i - 1] EXCEPT ![a[1].key] = Into(@, a[2].label, a[2].pieces[given[a] + 1])]
           Rec(f, k) == f = [i \in 0..k |-> Next1(f, i)]
           Made == {k \in 0..n : \E f : Rec(f, k)}
           after == CHOOSE f : Rec(f, n)
           upto(k) == {r[i] : i \in 1..k}
<1>1. /\ DOMAIN given = Answers(first)
      /\ come \in SUBSET Answers(first)
      /\ \A a \in come : Left(a)
  BY DEF Walking
<1>2. IsFiniteSet(come)
  BY <1>1, AnswersAre, FS_Subset DEF Walking
<1>3. r \in Seq(come) /\ (\A i, j \in 1..n : r[i] = r[j] => i = j) /\ upto(n) = come
  BY <1>2, ResultsAre
<1>4. n \in Nat /\ \A i \in 1..n : r[i] \in come
  BY <1>3
<1>5. Taken(r) = after[n]
  BY DEF Taken
<1> HIDE DEF r, n
<1>6. 0 \in Made
  <2>1. 0..0 = {0} /\ 0 \in 0..n
    BY <1>4
  <2> DEFINE f == [i \in 0..0 |-> out]
  <2>2. \A i \in 0..0 : Next1(f, i) = out
    BY <2>1
  <2> HIDE DEF Next1
  <2>3. Rec(f, 0)
    BY <2>2
  <2> HIDE DEF Rec, f
  <2>4. QED
    BY <2>1, <2>3
<1>7. ASSUME NEW k \in 0..(n - 1), k \in Made
      PROVE  k + 1 \in Made
  <2>1. PICK g : Rec(g, k)
    BY <1>7
  <2> DEFINE h == [i \in 0..(k + 1) |-> Next1(g, i)]
  <2>2. \A i \in 0..k : h[i] = g[i]
    <3> HIDE DEF Next1
    <3>1. \A i \in 0..k : g[i] = Next1(g, i)
      BY <2>1
    <3>2. \A i \in 0..k : i \in 0..(k + 1)
      BY <1>7
    <3>3. QED
      BY <3>1, <3>2
  <2>3. \A i \in 0..(k + 1) : i # 0 => i - 1 \in 0..k
    BY <1>4, <1>7
  <2>4. \A i \in 0..(k + 1) : Next1(h, i) = Next1(g, i)
    <3> HIDE DEF h
    <3>1. \A i \in 0..(k + 1) : i # 0 => h[i - 1] = g[i - 1]
      BY <2>2, <2>3
    <3>2. QED
      BY <3>1
  <2>5. Rec(h, k + 1)
    <3> HIDE DEF Next1
    <3>1. QED
      BY <2>4
  <2>6. k + 1 \in 0..n
    BY <1>4, <1>7
  <2> HIDE DEF h, Rec
  <2>7. QED
    BY <2>5, <2>6
<1>8. n \in Made
  <2> HIDE DEF Made
  <2>1. QED
    BY <1>4, <1>6, <1>7, CountUp
<1>9. Rec(after, n)
  <2> HIDE DEF Rec
  <2>1. QED
    BY <1>8
<1> HIDE DEF after
<1>10. \A i \in 0..n : after[i] = Next1(after, i)
  <2> HIDE DEF Next1
  <2>1. QED
    BY <1>9
<1> DEFINE Good == {k \in 0..n : Holds(after[k], upto(k))}
<1>11. 0 \in Good
  <2>1. upto(0) = {}
    OBVIOUS
  <2>2. 0 \in 0..n
    BY <1>4
  <2>3. after[0] = out
    BY <1>10, <2>2
  <2> HIDE DEF upto
  <2>4. QED
    BY <2>1, <2>2, <2>3
<1>12. ASSUME NEW k \in 0..(n - 1), k \in Good
       PROVE  k + 1 \in Good
  <2> DEFINE a == r[k + 1]
  <2>1. k + 1 \in 0..n /\ k + 1 \in 1..n /\ k \in 0..n /\ k + 1 # 0 /\ (k + 1) - 1 = k
    BY <1>4, <1>12
  <2>2. after[k + 1] = [after[k] EXCEPT ![a[1].key] = Into(@, a[2].label, a[2].pieces[given[a] + 1])]
    <3>1. after[k + 1] = Next1(after, k + 1)
      BY <1>10, <2>1
    <3>2. QED
      BY <2>1, <3>1
  <2>3. a \in Answers(first) /\ Left(a)
    BY <1>1, <1>4, <2>1
  <2>4. a \notin upto(k)
    <3>1. \A i \in 1..k : i \in 1..n /\ i # k + 1
      BY <1>4, <2>1
    <3>2. \A i \in 1..k : r[i] # r[k + 1]
      BY <1>3, <2>1, <3>1
    <3>3. QED
      BY <3>2
  <2>5. upto(k + 1) = upto(k) \cup {a}
    <3>1. 1..(k + 1) = (1..k) \cup {k + 1}
      BY <1>12, <1>4
    <3>2. QED
      BY <3>1
  <2>6. Holds(after[k], upto(k))
    BY <1>12
  <2> HIDE DEF a, upto
  <2>7. Holds([after[k] EXCEPT ![a[1].key] = Into(@, a[2].label, a[2].pieces[given[a] + 1])], upto(k) \cup {a})
    BY <2>3, <2>4, <2>6, ResultKeeps
  <2>8. QED
    BY <2>1, <2>2, <2>5, <2>7
<1>13. n \in Good
  <2> HIDE DEF Good
  <2>1. QED
    BY <1>4, <1>11, <1>12, CountUp
<1>14. Holds(after[n], come)
  BY <1>3, <1>13
<1>15. QED
  BY <1>5, <1>14 DEF r

-----------------------------------------------------------------------------
(***************************************************************************)
(* The requests of a panel, and the invariant of its fetch.                *)
(***************************************************************************)

\* A function on 1..n is a list of n.
LEMMA ListOfFunction ==
  ASSUME NEW n \in Nat, NEW f, f = [i \in 1..n |-> f[i]]
  PROVE  IsList(f) /\ Len(f) = n /\ DOMAIN f = 1..n
<1> DEFINE U == {f[i] : i \in 1..n}
<1>1. f \in [1..n -> U]
  OBVIOUS
<1> HIDE DEF U
<1>2. f \in Seq(U) /\ Len(f) = n /\ DOMAIN f = 1..n
  BY <1>1
<1>3. QED
  BY <1>2 DEF IsList

\* A list is a function on 1..Len.
LEMMA ListsAre ==
  ASSUME NEW s, IsList(s)
  PROVE  Len(s) \in Nat /\ DOMAIN s = 1..Len(s) /\ s = [i \in 1..Len(s) |-> s[i]]
<1>1. PICK U : s \in Seq(U)
  BY DEF IsList
<1>2. QED
  BY <1>1

\* The specs of each kind of panel are a list.
LEMMA SpecsAreList ==
  ASSUME kind \in Kinds
  PROVE  IsList(Specs)
<1>1. ASSUME NEW specs, IsList(specs), NEW prefix
      PROVE  IsList(specsWithPrefix(specs, prefix))
  <2> DEFINE kept == {i \in DOMAIN specs : IsPrefix(prefix, specs[i].key)}
             n == Cardinality(kept)
             f == specsWithPrefix(specs, prefix)
  <2>1. IsFiniteSet(1..Len(specs)) /\ kept \in SUBSET (1..Len(specs))
    <3>1. Len(specs) \in Nat /\ DOMAIN specs = 1..Len(specs)
      BY <1>1, ListsAre
    <3>2. QED
      BY <3>1, FS_Interval
  <2>2. n \in Nat
    <3> HIDE DEF kept
    <3>1. IsFiniteSet(kept)
      BY <2>1, FS_Subset
    <3>2. QED
      BY <3>1, FS_CardinalityType
  <2>3. f = [k \in 1..n |-> f[k]]
    BY DEF specsWithPrefix
  <2> HIDE DEF f, n
  <2>4. IsList(f)
    BY <2>2, <2>3, ListOfFunction
  <2>5. QED
    BY <2>4 DEF f
<1>2. /\ IsList(targetGroupMetrics) /\ IsList(podResourceMetrics) /\ IsList(nodeResourceMetrics)
      /\ IsList(countMetrics) /\ IsList(podStatusMetrics) /\ IsList(rdsProxyMetrics) /\ IsList(wafMetrics)
  <2>1. \A a, b, c, d, e, f, g :
          /\ IsList(<<a, b, c, d, e, f, g>>) /\ IsList(<<a, b, c, d>>) /\ IsList(<<a, b, c>>)
          /\ IsList(<<a, b, c, d, e>>)
    <3> TAKE a, b, c, d, e, f, g
    <3>1. /\ <<a, b, c, d, e, f, g>> \in Seq({a, b, c, d, e, f, g}) /\ <<a, b, c, d>> \in Seq({a, b, c, d})
          /\ <<a, b, c>> \in Seq({a, b, c}) /\ <<a, b, c, d, e>> \in Seq({a, b, c, d, e})
      OBVIOUS
    <3>2. QED
      BY <3>1 DEF IsList
  <2>2. QED
    BY <2>1 DEF targetGroupMetrics, podResourceMetrics, nodeResourceMetrics, countMetrics, podStatusMetrics,
                rdsProxyMetrics, wafMetrics
<1>3. /\ IsList(specsWithPrefix(podResourceMetrics, <<"pod", ".", "cpu">>))
      /\ IsList(specsWithPrefix(nodeResourceMetrics, <<"node", ".", "mem">>))
  BY <1>1, <1>2
<1>4. QED
  BY <1>2, <1>3 DEF Specs, SpecsOf, Kinds

\* The filter sets of each kind of panel are a list.
LEMMA SetsAreList ==
  ASSUME kind \in Kinds, cfg \in Configs
  PROVE  IsList(Sets)
<1>1. ASSUME NEW list \in {cfg.targetGroups, cfg.rdsProxies, cfg.webAcls}
      PROVE  Len(list) \in Nat /\ DOMAIN list = 1..Len(list)
  BY ConfigsAssumption
<1>2. \A x : IsList(<<x>>) /\ IsList(<<>>)
  <2> TAKE x
  <2>1. <<x>> \in Seq({x}) /\ <<>> \in Seq({x})
    OBVIOUS
  <2>2. QED
    BY <2>1 DEF IsList
<1>3. \A dims : IsList(ClusterSet(cfg, dims))
  BY <1>2 DEF ClusterSet
<1>4. IsList(ProxySets(cfg))
  <2> DEFINE f == ProxySets(cfg)
             n == Len(cfg.rdsProxies)
  <2>1. n \in Nat /\ f = [k \in 1..n |-> f[k]]
    BY <1>1 DEF ProxySets
  <2> HIDE DEF f, n
  <2>2. IsList(f)
    BY <2>1, ListOfFunction
  <2>3. QED
    BY <2>2 DEF f
<1>5. IsList(AclSets(cfg))
  <2> DEFINE f == AclSets(cfg)
             n == Len(cfg.webAcls)
  <2>1. n \in Nat /\ f = [k \in 1..n |-> f[k]]
    BY <1>1 DEF AclSets
  <2> HIDE DEF f, n
  <2>2. IsList(f)
    BY <2>1, ListOfFunction
  <2>3. QED
    BY <2>2 DEF f
<1>6. IsList(targetGroupFilterSets(cfg))
  <2> DEFINE groups == [i \in DOMAIN cfg.targetGroups |->
                          FilterSet(cfg.targetGroups[i],
                                    friendlyTargetGroupName(lastSegmentName(cfg.targetGroups[i])),
                                    [k \in {"TargetGroup"} |-> cfg.targetGroups[i]])]
             n == Len(cfg.targetGroups)
  <2>1. n \in Nat /\ groups = [k \in 1..n |-> groups[k]]
    BY <1>1
  <2>2. targetGroupFilterSets(cfg) = groups \/ \E x : targetGroupFilterSets(cfg) = <<x>>
    BY DEF targetGroupFilterSets
  <2> HIDE DEF groups, n
  <2>3. IsList(groups)
    BY <2>1, ListOfFunction
  <2>4. QED
    BY <1>2, <2>2, <2>3
<1>7. QED
  BY <1>3, <1>4, <1>5, <1>6 DEF Sets, SetsOf, Kinds

\* The request of the i-th spec and the j-th set.
Req(i, j) == [key |-> ResultKey(Specs[i], Sets[j]), spec |-> Specs[i], filters |-> Sets[j].filters]

\* One request for each spec and each set, and no other; if their keys are apart, so are
\* the keys of the results.
LEMMA RequestsAre ==
  ASSUME kind \in Kinds, cfg \in Configs, reqs = metricRequests(Specs, Sets)
  PROVE  /\ IsList(reqs)
         /\ \A i \in DOMAIN Specs, j \in DOMAIN Sets : \E p \in 1..Len(reqs) : reqs[p] = Req(i, j)
         /\ \A p \in 1..Len(reqs) : \E i \in DOMAIN Specs, j \in DOMAIN Sets : reqs[p] = Req(i, j)
         /\ KeysApart => \A i, k \in DOMAIN Specs, j, l \in DOMAIN Sets :
                           ResultKey(Specs[i], Sets[j]) = ResultKey(Specs[k], Sets[l]) => i = k /\ j = l
<1> DEFINE n == Len(Specs)
           cols == Len(Sets)
           rec(i, j) == [key |-> ResultKey(Specs[i], Sets[j]), spec |-> Specs[i], filters |-> Sets[j].filters]
           U == {rec(i, j) : i \in 1..n, j \in 1..cols}
           R == {<<rec(i, j), <<i, j>>>> : i \in 1..n, j \in 1..cols}
           s == [i \in DOMAIN Specs |-> [j \in DOMAIN Sets |-> rec(i, j)]]
           D == [i \in 1..n |-> {<<i, j>> : j \in 1..cols}]
<1>1. n \in Nat /\ DOMAIN Specs = 1..n /\ cols \in Nat /\ DOMAIN Sets = 1..cols
  BY SpecsAreList, SetsAreList, ListsAre
<1>2. reqs = FlattenSeq(s)
  BY DEF metricRequests
<1>3. \A i \in 1..n : s[i] = [j \in 1..cols |-> rec(i, j)]
  BY <1>1
<1> HIDE DEF n, cols
<1>0. \A i \in 1..n, j \in 1..cols : rec(i, j) \in U
  <2> HIDE DEF rec
  <2>1. QED
    OBVIOUS
<1> HIDE DEF s, U, D, R, rec
<1>4. ASSUME NEW i \in 1..n
      PROVE  s[i] \in Seq(U) /\ Len(s[i]) = cols
  <2>1. s[i] \in [1..cols -> U]
    BY <1>0, <1>3
  <2>2. QED
    BY <1>1, <2>1
<1>5. s \in Seq(Seq(U)) /\ Len(s) = n
  <2>1. s \in [1..n -> Seq(U)]
    BY <1>1, <1>4 DEF s
  <2>2. QED
    BY <1>1, <2>1
<1>6. ASSUME NEW i \in 1..n
      PROVE  Draws(s[i], D[i], R)
  <2> DEFINE f == [j \in 1..cols |-> <<i, j>>]
  <2>1. f \in [1..cols -> D[i]]
    BY DEF D
  <2>2. \A j, k \in 1..cols : f[j] = f[k] => j = k
    OBVIOUS
  <2>3. \A d \in D[i] : \E j \in 1..cols : f[j] = d
    BY DEF D
  <2>4. ASSUME NEW j \in 1..cols
        PROVE  <<s[i][j], f[j]>> \in R
    <3>1. s[i][j] = rec(i, j) /\ f[j] = <<i, j>>
      BY <1>3
    <3>2. QED
      BY <3>1 DEF R
  <2>5. Len(s[i]) = cols
    BY <1>4
  <2> HIDE DEF f
  <2>6. Drawn(f, s[i], D[i], R)
    BY <2>1, <2>2, <2>3, <2>4, <2>5 DEF Drawn
  <2>7. QED
    BY <2>6 DEF Draws
<1>7. \A i, j \in 1..n : i # j => D[i] \cap D[j] = {}
  BY DEF D
<1> DEFINE all == UNION {D[i] : i \in 1..n}
<1>8. FlattenSeq(s) \in Seq(U) /\ Draws(FlattenSeq(s), UNION {D[i] : i \in 1..Len(s)}, R)
  <2>1. \A i \in 1..Len(s) : Draws(s[i], D[i], R)
    BY <1>5, <1>6
  <2>2. \A i, j \in 1..Len(s) : i # j => D[i] \cap D[j] = {}
    BY <1>5, <1>7
  <2>3. QED
    BY <1>5, <2>1, <2>2, DrawsFlattened
<1>9. all = {<<i, j>> : i \in 1..n, j \in 1..cols}
  BY DEF D
<1>10. reqs \in Seq(U) /\ Draws(reqs, all, R)
  BY <1>2, <1>5, <1>8
<1> HIDE DEF all
<1>11. IsList(reqs)
  BY <1>10 DEF IsList
<1>12. PICK f : Drawn(f, reqs, all, R)
  BY <1>10 DEF Draws
<1>13. /\ f \in [1..Len(reqs) -> all]
       /\ \A i, j \in 1..Len(reqs) : f[i] = f[j] => i = j
       /\ \A d \in all : \E i \in 1..Len(reqs) : f[i] = d
       /\ \A i \in 1..Len(reqs) : <<reqs[i], f[i]>> \in R
  BY <1>12 DEF Drawn
<1>14. \A p \in 1..Len(reqs) : \E i \in 1..n, j \in 1..cols : reqs[p] = rec(i, j) /\ f[p] = <<i, j>>
  BY <1>13 DEF R
<1>15. ASSUME NEW i \in 1..n, NEW j \in 1..cols
       PROVE  \E p \in 1..Len(reqs) : reqs[p] = rec(i, j) /\ f[p] = <<i, j>>
  <2>1. <<i, j>> \in all
    BY <1>9
  <2>2. PICK p \in 1..Len(reqs) : f[p] = <<i, j>>
    BY <1>13, <2>1
  <2>3. PICK k \in 1..n, l \in 1..cols : reqs[p] = rec(k, l) /\ f[p] = <<k, l>>
    BY <1>14
  <2>4. k = i /\ l = j
    BY <2>2, <2>3
  <2>5. QED
    BY <2>2, <2>3, <2>4
<1>16. ASSUME KeysApart, NEW i \in 1..n, NEW k \in 1..n, NEW j \in 1..cols, NEW l \in 1..cols,
              ResultKey(Specs[i], Sets[j]) = ResultKey(Specs[k], Sets[l])
       PROVE  i = k /\ j = l
  <2>1. PICK p \in 1..Len(reqs) : reqs[p] = rec(i, j) /\ f[p] = <<i, j>>
    BY <1>15
  <2>2. PICK q \in 1..Len(reqs) : reqs[q] = rec(k, l) /\ f[q] = <<k, l>>
    BY <1>15
  <2>3. reqs[p].key = reqs[q].key
    BY <1>16, <2>1, <2>2 DEF rec
  <2>4. p = q
    BY <1>16, <2>3 DEF KeysApart
  <2>5. QED
    BY <2>1, <2>2, <2>4
<1>17. \A i, j : rec(i, j) = Req(i, j)
  BY DEF Req, rec
<1>18. \A i \in DOMAIN Specs, j \in DOMAIN Sets : \E p \in 1..Len(reqs) : reqs[p] = Req(i, j)
  <2> TAKE i \in DOMAIN Specs, j \in DOMAIN Sets
  <2>1. i \in 1..n /\ j \in 1..cols
    BY <1>1
  <2>2. PICK p \in 1..Len(reqs) : reqs[p] = rec(i, j) /\ f[p] = <<i, j>>
    BY <1>15, <2>1
  <2>3. reqs[p] = Req(i, j)
    BY <1>17, <2>2
  <2>4. QED
    BY <2>3
<1>19. \A p \in 1..Len(reqs) : \E i \in DOMAIN Specs, j \in DOMAIN Sets : reqs[p] = Req(i, j)
  <2> TAKE p \in 1..Len(reqs)
  <2>1. PICK i \in 1..n, j \in 1..cols : reqs[p] = rec(i, j) /\ f[p] = <<i, j>>
    BY <1>14
  <2>2. reqs[p] = Req(i, j)
    BY <1>17, <2>1
  <2>3. QED
    BY <1>1, <2>2
<1>20. KeysApart => \A i, k \in DOMAIN Specs, j, l \in DOMAIN Sets :
         ResultKey(Specs[i], Sets[j]) = ResultKey(Specs[k], Sets[l]) => i = k /\ j = l
  BY <1>1, <1>16
<1>21. QED
  BY <1>11, <1>18, <1>19, <1>20

\* LabelsAssumption, for what a request finds.
LEMMA RequestsApart ==
  ASSUME kind \in Kinds, cfg \in Configs, reqs = metricRequests(Specs, Sets)
  PROVE  Apart
<1> SUFFICES ASSUME NEW p \in 1..Len(reqs), NEW x \in Found(reqs[p]), NEW y \in Found(reqs[p]), x.label = y.label
             PROVE  x = y
  BY DEF Apart, LabelsApart
<1>1. PICK i \in DOMAIN Specs, j \in DOMAIN Sets : reqs[p] = Req(i, j)
  BY RequestsAre
<1>2. reqs[p].spec = Specs[i] /\ reqs[p].filters = Sets[j].filters
  BY <1>1 DEF Req
<1>3. Specs[i] \in ToSet(SpecsOf(kind)) /\ Sets[j] \in ToSet(SetsOf(kind, cfg))
  BY DEF ToSet, Specs, Sets
<1> DEFINE E == searchExpression(Specs[i], Sets[j].filters)
<1>4. \A d, e \in E : d = e
  BY DEF searchExpression
<1>5. PICK d \in E : Matches(d, x)
  BY <1>2 DEF Found
<1>6. PICK e \in E : Matches(e, y)
  BY <1>2 DEF Found
<1>7. d = e
  BY <1>4
<1>8. x \in Published /\ y \in Published /\ x.region = y.region
  BY DEF Found
<1>9. Matches(e, x) /\ Matches(e, y)
  BY <1>5, <1>6, <1>7
<1>10. QED
  BY <1>3, <1>8, <1>9, LabelsAssumption

\* Every request has a search expression.
Sayable == \A p \in DOMAIN reqs : searchExpression(reqs[p].spec, reqs[p].filters) # {}

\* The invariant of a panel: its input, the requests made of it, and the fetch.
PanelInv ==
  /\ kind \in Kinds /\ cfg \in Configs /\ w \in Windows
  /\ reqs = metricRequests(Specs, Sets)
  /\ region = ApiRegion
  /\ (pc # "failed" => Sayable)
  /\ FetchInv

\* A panel starts with nothing asked and nothing had.
LEMMA PanelInitInv == PanelInit => PanelInv
<1> SUFFICES ASSUME PanelInit PROVE PanelInv
  OBVIOUS
<1>1. /\ kind \in Kinds /\ cfg \in Configs /\ w \in Windows /\ reqs = metricRequests(Specs, Sets)
      /\ region = ApiRegion /\ first = 0
      /\ pc = IF reqs = <<>> THEN "done" ELSE IF Askable THEN "asking" ELSE "failed"
      /\ given = [a \in Answers(0) |-> 0]
      /\ out = [k \in KeysAsked |-> <<>>]
  BY DEF PanelInit, FetchInit, KeysAsked
<1>2. ASSUME pc # "failed"
      PROVE  Walking /\ Holds(out, {})
  <2>1. IsList(reqs)
    BY <1>1, RequestsAre
  <2>2. Len(reqs) \in Nat /\ DOMAIN reqs = 1..Len(reqs)
    BY <2>1, ListsAre
  <2>3. KeysApart
    <3>1. CASE reqs = <<>>
      <4>1. Len(reqs) = 0
        BY <3>1
      <4>2. 1..Len(reqs) = {}
        BY <4>1
      <4>3. QED
        BY <4>2 DEF KeysApart
    <3>2. CASE Askable
      <4>1. \A i, j \in 1..Len(reqs) : i # j => queryID(reqs[i].key) # queryID(reqs[j].key)
        BY <2>2, <3>2 DEF Askable
      <4>2. QED
        BY <4>1 DEF KeysApart
    <3>3. QED
      BY <1>1, <1>2, <3>1, <3>2
  <2>4. pc # "asking" => Len(reqs) <= first
    <3>1. pc # "asking" => reqs = <<>>
      BY <1>1, <1>2
    <3>2. reqs = <<>> => Len(reqs) = 0
      OBVIOUS
    <3>3. QED
      BY <1>1, <3>1, <3>2
  <2>5. given \in [Answers(first) -> Nat] /\ \A a \in Answers(first) : given[a] = 0
    BY <1>1
  <2>6. \A a \in Answers(first) : given[a] <= Len(a[2].pieces)
    <3> TAKE a \in Answers(first)
    <3>1. a[2] \in Published
      BY <1>1, <2>1, AnswersAre DEF Found
    <3>2. Len(a[2].pieces) \in Nat
      BY <3>1, PiecesAre
    <3>3. QED
      BY <2>5, <3>2
  <2>7. Walking
    BY <1>1, <2>1, <2>3, <2>4, <2>5, <2>6 DEF Walking
  <2>8. ASSUME NEW i \in 1..Len(reqs)
        PROVE  ListIs(w, out[reqs[i].key], Found(reqs[i]), Had({}, i))
    <3>1. out[reqs[i].key] = <<>>
      BY <1>1, <2>2 DEF KeysAsked
    <3>2. ASSUME NEW x \in Found(reqs[i])
          PROVE  Had({}, i)[x] = 0
      <4>1. ~(i <= first)
        BY <1>1, <2>2
      <4>2. CASE i <= first + ChunkSize
        <5>1. i \in Asked(first)
          BY <1>1, <4>1, <4>2, <2>2, MetricFetchAssumption DEF Asked
        <5>2. <<reqs[i], x>> \in Answers(first)
          BY <1>1, <2>1, <5>1, AnswersAre
        <5>3. given[<<reqs[i], x>>] = 0
          BY <2>5, <5>2
        <5>4. QED
          BY <4>1, <4>2, <5>3 DEF Had
      <4>3. CASE ~(i <= first + ChunkSize)
        BY <4>1, <4>3 DEF Had
      <4>4. QED
        BY <4>2, <4>3
    <3>3. IsList(<<>>) /\ DOMAIN <<>> = {}
      <4>1. <<>> \in Seq({})
        OBVIOUS
      <4>2. QED
        BY <4>1 DEF IsList
    <3>4. QED
      BY <3>1, <3>2, <3>3 DEF ListIs
  <2>9. out = [k \in KeysAsked |-> out[k]]
    BY <1>1
  <2>10. Holds(out, {})
    BY <2>8, <2>9 DEF Holds
  <2>11. QED
    BY <2>7, <2>10
<1>3. pc # "failed" => Sayable
  <2>1. reqs = <<>> => DOMAIN reqs = {}
    OBVIOUS
  <2>2. QED
    BY <1>1, <2>1 DEF Askable, Sayable
<1>4. QED
  BY <1>1, <1>2, <1>3 DEF PanelInv, FetchInv

\* A page was read, and the walk goes on in the chunk or with the next one.
LEMMA ReadInv ==
  ASSUME FetchInv, Apart, ReadPage
  PROVE  FetchInv'
<1>1. pc = "asking" /\ Walking /\ Holds(out, {}) /\ w' = w /\ reqs' = reqs /\ region' = region
  BY DEF ReadPage, FetchInv
<1> DEFINE plus(come) == [a \in DOMAIN given |-> given[a] + (IF a \in come THEN 1 ELSE 0)]
           rest(come) == \E a \in DOMAIN given : plus(come)[a] < Len(a[2].pieces)
<1>2. PICK come \in SUBSET {a \in DOMAIN given : Left(a)} :
        out' = Taken(SetToSeq(come)) /\ \E token \in {TRUE, rest(come)} : WalkOn(token, plus(come))
  BY DEF ReadPage
<1>3. Holds(out', come)
  BY <1>1, <1>2, TakenKeeps
<1> DEFINE given1 == plus(come)
<1>4. /\ IsList(reqs) /\ KeysApart /\ first \in Nat /\ given \in [Answers(first) -> Nat]
      /\ \A a \in Answers(first) : given[a] <= Len(a[2].pieces)
      /\ ChunkSize \in Nat \ {0}
      /\ Len(reqs) \in Nat
  BY <1>1, MetricFetchAssumption, ListsAre DEF Walking
<1>5. \A a \in Answers(first) : a[2] \in Published /\ Len(a[2].pieces) \in Nat
  <2> TAKE a \in Answers(first)
  <2>1. a[2] \in Published
    BY <1>4, AnswersAre DEF Found
  <2>2. QED
    BY <2>1, PiecesAre
<1>6. /\ given1 \in [Answers(first) -> Nat]
      /\ \A a \in Answers(first) : /\ given1[a] = given[a] + (IF a \in come THEN 1 ELSE 0)
                                   /\ given1[a] <= Len(a[2].pieces)
  <2>1. ASSUME NEW a \in Answers(first)
        PROVE  given1[a] = given[a] + (IF a \in come THEN 1 ELSE 0) /\ given1[a] \in Nat
               /\ given1[a] <= Len(a[2].pieces)
    <3>1. given1[a] = given[a] + (IF a \in come THEN 1 ELSE 0) /\ given[a] \in Nat
      BY <1>4
    <3>2. a \in come => given[a] < Len(a[2].pieces)
      BY <1>2 DEF Left
    <3> HIDE DEF given1
    <3>3. QED
      BY <1>4, <1>5, <3>1, <3>2
  <2>2. DOMAIN given1 = Answers(first) /\ given1 = [a \in DOMAIN given |-> given1[a]]
    BY <1>4
  <2> HIDE DEF given1
  <2>3. QED
    BY <2>1, <2>2
<1>7. IsList(reqs)' /\ KeysApart' /\ \A q : Found(q)' = Found(q)
  BY <1>1, <1>4 DEF KeysApart, Found
<1>8. \A k : Chunk(k)' = Chunk(k)
  BY <1>1 DEF Chunk
<1>9. ASSUME NEW k
      PROVE  Answers(k)' = Answers(k)
  BY <1>7, <1>8 DEF Answers
<1> HIDE DEF given1
<1>10. KeysAsked' = KeysAsked
  BY <1>1 DEF KeysAsked
<1>11. ASSUME NEW i \in 1..Len(reqs), NEW x \in Found(reqs[i]), ~(i <= first), i <= first + ChunkSize
       PROVE  /\ <<reqs[i], x>> \in Answers(first)
              /\ given1[<<reqs[i], x>>] = given[<<reqs[i], x>>] + (IF <<reqs[i], x>> \in come THEN 1 ELSE 0)
  <2>1. i \in Asked(first)
    BY <1>4, <1>11 DEF Asked
  <2>2. <<reqs[i], x>> \in Answers(first)
    BY <1>4, <2>1, AnswersAre
  <2>3. QED
    BY <1>6, <2>2
<1>12. CASE first' = first /\ pc' = pc /\ given' = given1
  <2>1. Walking'
    <3>1. Answers(first)' = Answers(first)
      BY <1>9, <1>12
    <3>2. given' \in [Answers(first)' -> Nat] /\ \A a \in Answers(first)' : given'[a] <= Len(a[2].pieces)
      BY <1>6, <1>12, <3>1
    <3>3. QED
      BY <1>1, <1>4, <1>7, <1>12, <3>2 DEF Walking
  <2>2. ASSUME NEW i \in 1..Len(reqs)
        PROVE  Had({}, i)' = Had(come, i)
    <3> DEFINE q == reqs[i]
    <3>1. ASSUME NEW x \in Found(q), ~(i <= first), i <= first + ChunkSize
          PROVE  given1[<<q, x>>] + 0 = given[<<q, x>>] + (IF <<q, x>> \in come THEN 1 ELSE 0)
      <4>1. /\ <<q, x>> \in Answers(first)
            /\ given1[<<q, x>>] = given[<<q, x>>] + (IF <<q, x>> \in come THEN 1 ELSE 0)
        BY <1>11, <3>1
      <4>2. given1[<<q, x>>] \in Nat
        BY <1>6, <4>1
      <4>3. QED
        BY <4>1, <4>2
    <3>2. Had({}, i)' = [x \in Found(q) |->
                           IF i <= first THEN Len(x.pieces)
                           ELSE IF i <= first + ChunkSize THEN given1[<<q, x>>] + 0
                           ELSE 0]
      BY <1>1, <1>7, <1>12 DEF Had
    <3>3. QED
      BY <3>1, <3>2 DEF Had
  <2>3. Holds(out, {})'
    <3>1. ASSUME NEW i \in 1..Len(reqs)
          PROVE  ListIs(w, out[reqs[i].key], Found(reqs[i]), Had({}, i))'
      <4>1. ListIs(w, out'[reqs[i].key], Found(reqs[i]), Had(come, i))
        BY <1>3 DEF Holds
      <4>2. w' = w /\ reqs' = reqs /\ Found(reqs[i])' = Found(reqs[i]) /\ Had({}, i)' = Had(come, i)
        BY <1>1, <1>7, <2>2
      <4>3. QED
        BY <4>1, <4>2
    <3>2. out' = [k \in KeysAsked |-> out'[k]]
      BY <1>3 DEF Holds
    <3>3. QED
      BY <1>1, <1>10, <3>1, <3>2 DEF Holds
  <2>4. QED
    BY <2>1, <2>3 DEF FetchInv
<1>13. CASE /\ ~rest(come)
            /\ first' = first + ChunkSize
            /\ given' = [a \in Answers(first + ChunkSize) |-> 0]
            /\ pc' = IF first + ChunkSize >= Len(reqs) THEN "done" ELSE "asking"
  <2>1. \A a \in Answers(first) : given1[a] = Len(a[2].pieces)
    <3> TAKE a \in Answers(first)
    <3>1. ~(given1[a] < Len(a[2].pieces))
      BY <1>4, <1>13 DEF given1
    <3>2. QED
      BY <1>5, <1>6, <3>1
  <2>2. Answers(first)' = Answers(first + ChunkSize) /\ first + ChunkSize \in Nat
    BY <1>4, <1>9, <1>13
  <2>3. given' \in [Answers(first)' -> Nat] /\ \A a \in Answers(first)' : given'[a] = 0
    BY <1>13, <2>2
  <2>4. \A a \in Answers(first)' : given'[a] <= Len(a[2].pieces)
    <3> TAKE a \in Answers(first)'
    <3>1. a[2] \in Published
      BY <1>4, <2>2, AnswersAre DEF Found
    <3>2. Len(a[2].pieces) \in Nat
      BY <3>1, PiecesAre
    <3>3. QED
      BY <2>3, <3>2
  <2>5. Walking'
    <3>1. first' \in Nat /\ (pc' # "asking" => Len(reqs) <= first')
      BY <1>4, <1>13
    <3>2. QED
      BY <1>1, <1>7, <2>3, <2>4, <3>1 DEF Walking
  <2>6. ASSUME NEW i \in 1..Len(reqs)
        PROVE  Had({}, i)' = Had(come, i)
    <3> DEFINE q == reqs[i]
    <3>1. ASSUME NEW x \in Found(q), ~(i <= first), i <= first + ChunkSize
          PROVE  given[<<q, x>>] + (IF <<q, x>> \in come THEN 1 ELSE 0) = Len(x.pieces)
      <4>1. /\ <<q, x>> \in Answers(first)
            /\ given1[<<q, x>>] = given[<<q, x>>] + (IF <<q, x>> \in come THEN 1 ELSE 0)
        BY <1>11, <3>1
      <4>2. given1[<<q, x>>] = Len(<<q, x>>[2].pieces)
        BY <2>1, <4>1
      <4>3. QED
        BY <4>1, <4>2
    <3>2. ASSUME NEW x \in Found(q), ~(i <= first + ChunkSize), i <= first + ChunkSize + ChunkSize
          PROVE  given'[<<q, x>>] + 0 = 0
      <4>1. i \in Asked(first + ChunkSize)
        BY <1>4, <3>2 DEF Asked
      <4>2. <<q, x>> \in Answers(first + ChunkSize)
        BY <1>4, <2>2, <4>1, AnswersAre
      <4>3. given'[<<q, x>>] = 0
        BY <1>13, <4>2
      <4>4. QED
        BY <4>3
    <3>3. Had({}, i)' = [x \in Found(q) |->
                           IF i <= first + ChunkSize THEN Len(x.pieces)
                           ELSE IF i <= first + ChunkSize + ChunkSize THEN given'[<<q, x>>] + 0
                           ELSE 0]
      BY <1>1, <1>7, <1>13 DEF Had
    <3>4. i <= first => i <= first + ChunkSize
      BY <1>4
    <3>5. QED
      BY <3>1, <3>2, <3>3, <3>4 DEF Had
  <2>7. Holds(out, {})'
    <3>1. ASSUME NEW i \in 1..Len(reqs)
          PROVE  ListIs(w, out[reqs[i].key], Found(reqs[i]), Had({}, i))'
      <4>1. ListIs(w, out'[reqs[i].key], Found(reqs[i]), Had(come, i))
        BY <1>3 DEF Holds
      <4>2. w' = w /\ reqs' = reqs /\ Found(reqs[i])' = Found(reqs[i]) /\ Had({}, i)' = Had(come, i)
        BY <1>1, <1>7, <2>6
      <4>3. QED
        BY <4>1, <4>2
    <3>2. out' = [k \in KeysAsked |-> out'[k]]
      BY <1>3 DEF Holds
    <3>3. QED
      BY <1>1, <1>10, <3>1, <3>2 DEF Holds
  <2>8. QED
    BY <2>5, <2>7 DEF FetchInv
<1>14. PICK token \in {TRUE, rest(come)} : WalkOn(token, plus(come))
  BY <1>2
<1>15. CASE token
  BY <1>12, <1>14, <1>15 DEF WalkOn, given1
<1>16. CASE ~token
  <2>1. ~rest(come)
    BY <1>14, <1>16
  <2>2. QED
    BY <1>13, <1>14, <1>16, <2>1 DEF WalkOn
<1>17. QED
  BY <1>15, <1>16

\* No step of a panel breaks its invariant.
LEMMA PanelNextInv == PanelInv /\ [PanelNext]_panelVars => PanelInv'
<1> SUFFICES ASSUME PanelInv, [PanelNext]_panelVars PROVE PanelInv'
  OBVIOUS
<1> USE DEF PanelInv
<1>1. ASSUME kind' = kind, cfg' = cfg, conn' = conn, w' = w, reqs' = reqs, region' = region,
             pc' # "failed" => pc # "failed", FetchInv'
      PROVE  PanelInv'
  <2>1. Specs' = Specs /\ Sets' = Sets /\ ApiRegion' = ApiRegion /\ Sayable' = Sayable
    BY <1>1 DEF Specs, Sets, ApiRegion, Sayable
  <2>2. QED
    BY <1>1, <2>1
<1>2. ASSUME UNCHANGED <<w, reqs, region, first, given, out>>,
             (pc' = pc) \/ (pc = "done" /\ pc' = "built")
      PROVE  FetchInv'
  <2>1. pc' # "failed" => pc # "failed"
    BY <1>2
  <2>2. \A n : Answers(n)' = Answers(n)
    BY <1>2 DEF Answers, Chunk, Found
  <2>3. Walking => Walking'
    BY <1>2, <2>2 DEF Walking, KeysApart
  <2>4. Holds(out, {})' <=> Holds(out, {})
    <3>1. KeysAsked' = KeysAsked
      BY <1>2 DEF KeysAsked
    <3>2. \A i : Had({}, i)' = Had({}, i) /\ Found(reqs[i])' = Found(reqs[i])
      BY <1>2 DEF Had, Found
    <3>3. QED
      BY <1>2, <3>1, <3>2 DEF Holds
  <2>5. QED
    BY <2>1, <2>3, <2>4 DEF FetchInv
<1>3. CASE ReadPage /\ UNCHANGED <<kind, cfg, conn, scaling>>
  <2>1. FetchInv'
    BY <1>3, ReadInv, RequestsApart
  <2>2. pc # "failed" /\ w' = w /\ reqs' = reqs /\ region' = region
    BY <1>3 DEF ReadPage
  <2>3. QED
    BY <1>1, <1>3, <2>1, <2>2
<1>4. CASE (TooManyPages \/ PageFails) /\ UNCHANGED <<kind, cfg, conn, scaling>>
  <2>1. pc' = "failed" /\ w' = w /\ reqs' = reqs /\ region' = region
    BY <1>4 DEF TooManyPages, PageFails
  <2>2. FetchInv'
    BY <2>1 DEF FetchInv
  <2>3. QED
    BY <1>1, <1>4, <2>1, <2>2
<1>5. CASE Build
  <2>1. /\ pc = "done" /\ pc' = "built" /\ UNCHANGED <<w, reqs, region, first, given, out, kind, cfg, conn>>
    BY <1>5 DEF Build
  <2>2. FetchInv'
    BY <1>2, <2>1
  <2>3. QED
    BY <1>1, <2>1, <2>2
<1>6. CASE UNCHANGED panelVars
  <2>1. UNCHANGED <<w, reqs, region, first, given, out, kind, cfg, conn, pc>>
    BY <1>6 DEF panelVars, fetchVars
  <2>2. FetchInv'
    BY <1>2, <2>1
  <2>3. QED
    BY <1>1, <2>1, <2>2
<1>7. QED
  BY <1>3, <1>4, <1>5, <1>6 DEF PanelNext, Fetches, FetchNext

\* A walk of chunks and pages, in whatever pages the pieces come, keeps under every
\* request the pieces that came so far and no others: none is lost between two pages,
\* laid under another label or joined in the wrong order (metrics.ts:119-199).
THEOREM SpecPanelInv == PanelSpec => []PanelInv
  BY PanelInitInv, PanelNextInv, PTL DEF PanelSpec

-------------------------------------------------------------------------------
\* A list with an entry for each metric of F, with all its samples.
Gathered(x, list, F) ==
  /\ IsList(list)
  /\ \A i, j \in DOMAIN list : list[i].label = list[j].label => i = j
  /\ \A i \in DOMAIN list : \E m \in F : list[i].label = m.label /\ PointsOf(x, list[i].points, m, Len(m.pieces))
  /\ \A m \in F : \E i \in DOMAIN list : list[i].label = m.label

\* A spec out of a prefix is one of the specs.
LEMMA PrefixedSpecs ==
  ASSUME NEW specs, IsList(specs), NEW prefix, NEW k \in DOMAIN specsWithPrefix(specs, prefix)
  PROVE  \E i \in DOMAIN specs : specsWithPrefix(specs, prefix)[k] = specs[i]
<1> DEFINE kept == {i \in DOMAIN specs : IsPrefix(prefix, specs[i].key)}
           Q == {p \in kept \X kept : p[1] < p[2]}
<1>1. kept \in SUBSET (1..Len(specs)) /\ Len(specs) \in Nat
  BY ListsAre
<1>2. IsFiniteSet(kept)
  <2> HIDE DEF kept
  <2>1. IsFiniteSet(1..Len(specs))
    BY <1>1, FS_Interval
  <2>2. QED
    BY <1>1, <2>1, FS_Subset
<1>3. \A i \in kept : i \in Int
  BY <1>1
<1>4. k \in 1..Cardinality(kept)
  BY DEF specsWithPrefix
<1>5. specsWithPrefix(specs, prefix)[k] = specs[CHOOSE i \in kept : Cardinality({j \in kept : j < i}) = k - 1]
  BY <1>4 DEF specsWithPrefix
<1>6. \A i \in kept : i \in DOMAIN specs
  OBVIOUS
<1> HIDE DEF kept
<1>7. StrictOrder(kept, Q)
  BY <1>2, <1>3 DEF StrictOrder
<1>8. \A i \in kept : Before(kept, Q, i) = {j \in kept : j < i}
  BY DEF Before
<1> HIDE DEF Q
<1>9. PICK i \in kept : Cardinality(Before(kept, Q, i)) = k - 1
  BY <1>4, <1>7, RankIsPlace
<1>10. \E j \in kept : Cardinality({l \in kept : l < j}) = k - 1
  BY <1>8, <1>9
<1>11. QED
  BY <1>5, <1>6, <1>10

\* A filter is about a dimension of the specs it is put to.
LEMMA FiltersFit ==
  ASSUME kind \in Kinds, cfg \in Configs, NEW i \in DOMAIN Specs, NEW j \in DOMAIN Sets
  PROVE  DOMAIN Sets[j].filters \subseteq Specs[i].dimensions
<1> DEFINE Dims(specs, d) == \A k \in DOMAIN specs : d \subseteq specs[k].dimensions
<1>1. ASSUME NEW specs, IsList(specs), NEW d, Dims(specs, d), NEW prefix
      PROVE  Dims(specsWithPrefix(specs, prefix), d)
  BY <1>1, PrefixedSpecs
<1>3. IsList(podResourceMetrics) /\ IsList(nodeResourceMetrics)
  <2>1. \A a, b, c, d : <<a, b, c, d>> \in Seq({a, b, c, d}) /\ <<a, b, c>> \in Seq({a, b, c})
    OBVIOUS
  <2>2. QED
    BY <2>1 DEF IsList, podResourceMetrics, nodeResourceMetrics
<1>4. /\ Dims(podResourceMetrics, {"ClusterName", "Namespace"}) /\ Dims(nodeResourceMetrics, {"ClusterName"})
      /\ Dims(podStatusMetrics, {"ClusterName", "Namespace"}) /\ Dims(countMetrics, {"ClusterName"})
      /\ Dims(targetGroupMetrics, {"LoadBalancer", "TargetGroup"})
      /\ Dims(rdsProxyMetrics, {"ProxyName"}) /\ Dims(wafMetrics, {"WebACL", "Rule"})
  BY DEF podResourceMetrics, nodeResourceMetrics, podStatusMetrics, countMetrics, targetGroupMetrics,
         rdsProxyMetrics, wafMetrics, MetricSpec
<1>5. /\ Dims(specsWithPrefix(podResourceMetrics, <<"pod", ".", "cpu">>), {"ClusterName", "Namespace"})
      /\ Dims(specsWithPrefix(nodeResourceMetrics, <<"node", ".", "mem">>), {"ClusterName"})
  <2> HIDE DEF Dims
  <2>1. QED
    BY <1>1, <1>3, <1>4
<1>6. \A d, k : k \in DOMAIN ClusterSet(cfg, d) => DOMAIN ClusterSet(cfg, d)[k].filters \subseteq d
  BY DEF ClusterSet, FilterSet
<1>7. \A k \in DOMAIN ProxySets(cfg) : DOMAIN ProxySets(cfg)[k].filters \subseteq {"ProxyName"}
  BY DEF ProxySets, FilterSet
<1>8. \A k \in DOMAIN AclSets(cfg) : DOMAIN AclSets(cfg)[k].filters \subseteq {"WebACL", "Rule"}
  BY DEF AclSets, FilterSet
<1>9. \A k \in DOMAIN targetGroupFilterSets(cfg) :
        DOMAIN targetGroupFilterSets(cfg)[k].filters \subseteq {"LoadBalancer", "TargetGroup"}
  <2> DEFINE groups == [g \in DOMAIN cfg.targetGroups |->
                          FilterSet(cfg.targetGroups[g],
                                    friendlyTargetGroupName(lastSegmentName(cfg.targetGroups[g])),
                                    [k \in {"TargetGroup"} |-> cfg.targetGroups[g]])]
             lb == FilterSet(cfg.loadBalancer, cfg.loadBalancer, [k \in {"LoadBalancer"} |-> cfg.loadBalancer])
  <2>1. targetGroupFilterSets(cfg) = groups \/ targetGroupFilterSets(cfg) = <<lb>>
    BY DEF targetGroupFilterSets
  <2>2. \A k \in DOMAIN groups : DOMAIN groups[k].filters = {"TargetGroup"}
    BY DEF FilterSet
  <2>3. DOMAIN lb.filters = {"LoadBalancer"}
    BY DEF FilterSet
  <2> HIDE DEF groups, lb
  <2>4. QED
    BY <2>1, <2>2, <2>3
<1> HIDE DEF Dims
<1>10. \E d : Dims(Specs, d) /\ DOMAIN Sets[j].filters \subseteq d
  <2>1. CASE kind = "targetgroup"
    BY <1>4, <1>9, <2>1 DEF Specs, SpecsOf, Sets, SetsOf
  <2>2. CASE kind = "pod-cpu"
    BY <1>5, <1>6, <2>2 DEF Specs, SpecsOf, Sets, SetsOf
  <2>3. CASE kind = "node-mem"
    BY <1>5, <1>6, <2>3 DEF Specs, SpecsOf, Sets, SetsOf
  <2>4. CASE kind = "counts"
    BY <1>4, <1>6, <2>4 DEF Specs, SpecsOf, Sets, SetsOf
  <2>5. CASE kind = "pod-status"
    BY <1>4, <1>6, <2>5 DEF Specs, SpecsOf, Sets, SetsOf
  <2>6. CASE kind = "rds-proxy"
    BY <1>4, <1>7, <2>6 DEF Specs, SpecsOf, Sets, SetsOf
  <2>7. CASE kind = "waf-metrics"
    BY <1>4, <1>8, <2>7 DEF Specs, SpecsOf, Sets, SetsOf
  <2>8. QED
    BY <2>1, <2>2, <2>3, <2>4, <2>5, <2>6, <2>7 DEF Kinds
<1>11. QED
  BY <1>10 DEF Dims

-----------------------------------------------------------------------------
(***************************************************************************)
(* A fetched panel has every series, and every series every sample.        *)
(***************************************************************************)

\* The fetch is done.
Fetched == pc \in {"done", "built"}

\* A panel that is built has every series of every metric it is about, and the series
\* of each spec and set by themselves.
LEMMA AllGathered ==
  ASSUME PanelInv, Fetched, NEW i \in DOMAIN Specs, NEW j \in DOMAIN Sets
  PROVE  /\ Gathered(w, ListOf(Specs[i], Sets[j]), About(Specs[i], Sets[j]))
         /\ LabelsApart(About(Specs[i], Sets[j]))
         /\ KeysApart
<1> DEFINE spec == Specs[i]
           fs == Sets[j]
           said == {k \in DOMAIN fs.filters : fs.filters[k] # <<>>}
<1>1. /\ kind \in Kinds /\ cfg \in Configs /\ reqs = metricRequests(Specs, Sets) /\ region = ApiRegion
      /\ Sayable /\ Walking /\ Holds(out, {}) /\ pc # "asking" /\ pc # "failed"
  BY DEF PanelInv, Fetched, FetchInv
<1>2. PICK p \in 1..Len(reqs) : reqs[p] = Req(i, j)
  BY <1>1, RequestsAre
<1>3. /\ IsList(reqs) /\ DOMAIN reqs = 1..Len(reqs) /\ Len(reqs) \in Nat /\ KeysApart
      /\ first \in Nat /\ Len(reqs) <= first
  BY <1>1, ListsAre DEF Walking
<1>4. reqs[p].key = ResultKey(spec, fs) /\ reqs[p].spec = spec /\ reqs[p].filters = fs.filters
  BY <1>2 DEF Req
<1>5. Found(reqs[p]) = About(spec, fs)
  <2> DEFINE e == [metric |-> spec.key, schema |-> spec.dimensions, terms |-> Restrict(fs.filters, said)]
  <2>1. searchExpression(spec, fs.filters) # {}
    BY <1>1, <1>3, <1>4 DEF Sayable
  <2>2. searchExpression(spec, fs.filters) = {e}
    BY <2>1 DEF searchExpression
  <2>3. DOMAIN fs.filters \subseteq spec.dimensions
    BY <1>1, FiltersFit
  <2> HIDE DEF spec, fs
  <2>4. ASSUME NEW x \in Published
        PROVE  Matches(e, x) <=> /\ x.metric = spec.key
                                 /\ DOMAIN x.dims = spec.dimensions
                                 /\ \A k \in DOMAIN fs.filters :
                                      fs.filters[k] = <<>> \/ x.dims[k] = fs.filters[k]
    <3>1. /\ e.metric = spec.key /\ e.schema = spec.dimensions /\ DOMAIN e.terms = said
          /\ \A k \in said : e.terms[k] = fs.filters[k]
      BY DEF Restrict
    <3>2. said \subseteq DOMAIN fs.filters
      OBVIOUS
    <3> HIDE DEF e
    <3>3. QED
      BY <2>3, <3>1, <3>2 DEF Matches
  <2> HIDE DEF e
  <2>5. Found(reqs[p]) = {x \in Published : x.region = region /\ Matches(e, x)}
    BY <1>4, <2>2 DEF Found
  <2>6. QED
    BY <1>1, <2>4, <2>5 DEF About
<1>6. \A x \in Found(reqs[p]) : Had({}, p)[x] = Len(x.pieces)
  BY <1>3 DEF Had
<1>7. ListOf(spec, fs) = out[reqs[p].key]
  <2>1. reqs[p].key \in DOMAIN out
    <3>1. reqs[p].key \in KeysAsked /\ DOMAIN out = KeysAsked
      BY <1>1, <1>3 DEF KeysAsked, Holds
    <3>2. QED
      BY <3>1
  <2>2. QED
    BY <1>4, <2>1 DEF ListOf
<1>8. ListIs(w, ListOf(spec, fs), About(spec, fs), Had({}, p))
  BY <1>1, <1>5, <1>7 DEF Holds
<1>9. \A x \in About(spec, fs) : Had({}, p)[x] = Len(x.pieces) /\ Len(x.pieces) # 0
  BY <1>5, <1>6, PiecesAre DEF About
<1> HIDE DEF spec, fs
<1>10. Gathered(w, ListOf(spec, fs), About(spec, fs))
  BY <1>8, <1>9 DEF Gathered, ListIs, EntryOf
<1>11. LabelsApart(About(spec, fs))
  BY <1>1, <1>5, RequestsApart DEF Apart
<1>12. QED
  BY <1>3, <1>10, <1>11 DEF spec, fs

\* Two sets asked of two specs are two requests.
LEMMA PairsApart ==
  ASSUME PanelInv, Fetched
  PROVE  \A i, k \in DOMAIN Specs, j, l \in DOMAIN Sets :
           ResultKey(Specs[i], Sets[j]) = ResultKey(Specs[k], Sets[l]) => i = k /\ j = l
<1>1. KeysApart /\ kind \in Kinds /\ cfg \in Configs /\ reqs = metricRequests(Specs, Sets)
  BY DEF PanelInv, Fetched, FetchInv, Walking
<1>2. QED
  BY <1>1, RequestsAre

\* An axis of n places, where indexOf and the stamps of the axis agree.
AxisOf(n) ==
  /\ n \in Nat
  /\ DOMAIN timestamps(w) = 0 .. n - 1
  /\ \A i, j \in 0 .. n - 1 : timestamps(w)[i] = timestamps(w)[j] => i = j
  /\ \A t \in Nat : /\ contains(w, t) <=> \E i \in 0 .. n - 1 : timestamps(w)[i] = align(w, t)
                    /\ indexOf(w, t) \subseteq 0 .. n - 1
                    /\ \A i \in 0 .. n - 1 : indexOf(w, t) = {i} <=> timestamps(w)[i] = align(w, t)
                    /\ indexOf(w, t) # {} => \E i \in 0 .. n - 1 : indexOf(w, t) = {i}

\* A window has an axis.
LEMMA AxisExists ==
  ASSUME w \in Windows
  PROVE  \E n : AxisOf(n)
<1> DEFINE q == w.end \div w.period
           n == w.range \div w.period
           axis == timestamps(w)
<1>1. w.end \in Int /\ w.period \in Int /\ w.range \in Int /\ w \in newWindow(w.end, w.range, w.period)
  BY MetricPanelsAssumption DEF newWindow, validateWindow
<1>2. Whole(w, q, n)
  BY <1>1, WindowsAreWhole
<1> HIDE DEF q, n
<1>3. w.period \in Nat \ {0} /\ q \in Int /\ n \in Nat
  BY <1>2 DEF Whole, minBuckets, maxBuckets
<1>4. /\ DOMAIN axis = 0 .. n - 1
      /\ \A i \in 0 .. n - 1 : axis[i] = w.period * (q - n + i)
  BY <1>2, AxisOfWhole
<1>5. \A i, j \in 0 .. n - 1 : axis[i] = axis[j] => i = j
  <2> TAKE i, j \in 0 .. n - 1
  <2> HAVE axis[i] = axis[j]
  <2> DEFINE a == q - n + i
             b == q - n + j
             p == w.period
  <2>1. a \in Int /\ b \in Int /\ p \in Nat \ {0}
    BY <1>3
  <2>2. p * a = p * b
    BY <1>4
  <2> HIDE DEF a, b, p
  <2>3. a = b
    BY <2>1, <2>2, ModUnique
  <2>4. QED
    BY <1>3, <2>3 DEF a, b
<1>6. ASSUME NEW t \in Nat
      PROVE  /\ contains(w, t) <=> \E i \in 0 .. n - 1 : axis[i] = align(w, t)
             /\ indexOf(w, t) \subseteq 0 .. n - 1
             /\ \A i \in 0 .. n - 1 : indexOf(w, t) = {i} <=> axis[i] = align(w, t)
             /\ indexOf(w, t) # {} => \E i \in 0 .. n - 1 : indexOf(w, t) = {i}
  <2>1. t \in Int
    OBVIOUS
  <2>2. /\ contains(w, t) <=> \E i \in 0 .. n - 1 : axis[i] = align(w, t)
        /\ \A i \in indexOf(w, t) : axis[i] = align(w, t)
    BY <1>2, <1>4, <2>1, AxisMeetsTimes
  <2>3. \A i \in indexOf(w, t) : i \in 0 .. n - 1
    BY <1>2, <2>1, TimesOfWhole
  <2>4. indexOf(w, t) = {} \/ \E x : indexOf(w, t) = {x}
    BY DEF indexOf
  <2>5. contains(w, t) <=> indexOf(w, t) # {}
    BY DEF contains
  <2> HIDE DEF axis
  <2>6. \A i \in 0 .. n - 1 : indexOf(w, t) = {i} <=> axis[i] = align(w, t)
    BY <1>5, <2>2, <2>3, <2>4, <2>5
  <2>7. indexOf(w, t) # {} => \E i \in 0 .. n - 1 : indexOf(w, t) = {i}
    BY <2>3, <2>4
  <2>8. QED
    BY <2>2, <2>3, <2>6, <2>7
<1>7. AxisOf(n)
  BY <1>3, <1>4, <1>5, <1>6 DEF AxisOf
<1>8. QED
  BY <1>7

\* The stamps of a metric are those of its pieces.
LEMMA StampsAre ==
  ASSUME NEW m \in Published
  PROVE  /\ IsFiniteSet(Stamps(m)) /\ Stamps(m) \in SUBSET Nat
         /\ Stamps(m) = UNION {DOMAIN m.pieces[i] : i \in 1..Len(m.pieces)}
<1> DEFINE n == Len(m.pieces)
           S == {DOMAIN m.pieces[i] : i \in 1..n}
           f == [i \in 1..n |-> DOMAIN m.pieces[i]]
<1>1. DOMAIN m.pieces = 1..n /\ n \in Nat
  BY PublishedAssumption, PiecesAre
<1>2. IsFiniteSet(1..n)
  BY <1>1, FS_Interval
<1>3. f \in Surjection(1..n, S)
  BY DEF Surjection
<1>4. IsFiniteSet(S)
  <2> HIDE DEF f, S, n
  <2>1. QED
    BY <1>2, <1>3, FS_Surjection
<1>5. \A s \in S : IsFiniteSet(s) /\ s \in SUBSET Nat
  BY PiecesAre
<1>6. Stamps(m) = UNION S
  BY <1>1 DEF Stamps
<1> HIDE DEF S
<1>7. IsFiniteSet(UNION S) /\ UNION S \in SUBSET Nat
  BY <1>4, <1>5, FS_UNION
<1>8. QED
  BY <1>6, <1>7 DEF S

\* What CloudWatch holds of m in the window: a number for each bucket with a stamp of m
\* in it, and that of the stamp that decides.
HeldIn(m, n) ==
  /\ AxisOf(n)
  /\ Samples(m) = [i \in DOMAIN Samples(m) |-> Samples(m)[i]]
  /\ DOMAIN Samples(m) = {i \in 0 .. n - 1 : \E t \in Stamps(m) : timestamps(w)[i] = align(w, t)}
  /\ \A i \in DOMAIN Samples(m) : \E j \in 1..Len(m.pieces) : \E t \in DOMAIN m.pieces[j] :
       /\ align(w, t) = timestamps(w)[i]
       /\ Decides(w, m, Len(m.pieces), j, t)
       /\ Samples(m)[i] = m.pieces[j][t]

\* Samples is what CloudWatch holds.
LEMMA SamplesAre ==
  ASSUME NEW m \in Published, NEW n, AxisOf(n)
  PROVE  HeldIn(m, n)
<1> DEFINE N == Len(m.pieces)
           axis == timestamps(w)
           at == {t \in Stamps(m) : contains(w, t)}
           Latest(i) == Max({t \in at : indexOf(w, t) = {i}})
           of(i) == {t \in Stamps(m) : align(w, t) = axis[i]}
           have(i) == {k \in DOMAIN m.pieces : Latest(i) \in DOMAIN m.pieces[k]}
           places == {i \in 0 .. n - 1 : \E t \in Stamps(m) : axis[i] = align(w, t)}
<1>2. /\ n \in Nat /\ DOMAIN axis = 0 .. n - 1
      /\ \A t \in Nat : /\ contains(w, t) <=> \E i \in 0 .. n - 1 : axis[i] = align(w, t)
                        /\ indexOf(w, t) \subseteq 0 .. n - 1
                        /\ \A i \in 0 .. n - 1 : indexOf(w, t) = {i} <=> axis[i] = align(w, t)
                        /\ indexOf(w, t) # {} => \E i \in 0 .. n - 1 : indexOf(w, t) = {i}
  BY DEF AxisOf
<1>3. /\ IsFiniteSet(Stamps(m)) /\ Stamps(m) \in SUBSET Nat
      /\ Stamps(m) = UNION {DOMAIN m.pieces[i] : i \in 1..N}
  BY StampsAre
<1>5. N \in Nat \ {0} /\ DOMAIN m.pieces = 1..N
  BY PublishedAssumption, PiecesAre
<1> HIDE DEF N, axis
<1>7. \A i \in 0 .. n - 1 : {t \in at : indexOf(w, t) = {i}} = of(i)
  BY <1>2, <1>3
<1>8. UNION {indexOf(w, t) : t \in at} = places
  <2>1. ASSUME NEW i \in places
        PROVE  \E t \in at : i \in indexOf(w, t)
    <3>1. PICK t \in Stamps(m) : axis[i] = align(w, t)
      OBVIOUS
    <3>2. i \in 0 .. n - 1 /\ t \in Nat
      BY <1>2, <1>3
    <3>3. indexOf(w, t) = {i} /\ contains(w, t)
      BY <1>2, <3>1, <3>2
    <3>4. QED
      BY <3>3
  <2>2. ASSUME NEW t \in at, NEW i \in indexOf(w, t)
        PROVE  i \in places
    <3>1. t \in Nat /\ t \in Stamps(m)
      BY <1>3
    <3>2. PICK k \in 0 .. n - 1 : indexOf(w, t) = {k}
      BY <1>2, <3>1
    <3>3. k = i /\ axis[i] = align(w, t)
      BY <1>2, <3>1, <3>2
    <3>4. QED
      BY <3>1, <3>2, <3>3
  <2> HIDE DEF places, at
  <2>3. QED
    BY <2>1, <2>2
<1>9. ASSUME NEW i \in places
      PROVE  \E j \in 1..N : \E t \in DOMAIN m.pieces[j] :
               align(w, t) = axis[i] /\ Decides(w, m, N, j, t) /\ m.pieces[Max(have(i))][Latest(i)] = m.pieces[j][t]
  <2>1. i \in 0 .. n - 1 /\ of(i) # {}
    OBVIOUS
  <2>2. Latest(i) = Max(of(i))
    BY <1>7, <2>1
  <2> DEFINE L == Latest(i)
  <2>3. L \in of(i) /\ \A t \in of(i) : t <= L
    <3> DEFINE T == of(i)
    <3>1. T \in SUBSET Stamps(m)
      OBVIOUS
    <3>2. T \in SUBSET Int /\ IsFiniteSet(T) /\ T # {}
      <4> HIDE DEF T
      <4>1. IsFiniteSet(T)
        BY <1>3, <3>1, FS_Subset
      <4>2. QED
        BY <1>3, <2>1, <3>1, <4>1 DEF T
    <3> HIDE DEF T
    <3>3. Max(T) \in T /\ \A t \in T : t <= Max(T)
      BY <3>2, OneIsGreatest
    <3> HIDE DEF Latest
    <3>4. QED
      BY <2>2, <3>3 DEF T
  <2> HIDE DEF Latest
  <2>4. L \in Stamps(m) /\ align(w, L) = axis[i] /\ L \in Nat
    BY <1>3, <2>3
  <2> HIDE DEF L
  <2>5. have(i) = {k \in 1..N : L \in DOMAIN m.pieces[k]}
    BY <1>5 DEF L
  <2> DEFINE J == {k \in 1..N : L \in DOMAIN m.pieces[k]}
             j == Max(J)
  <2>6. J # {} /\ J \in SUBSET (1..N)
    BY <1>3, <2>4
  <2>7. j \in J /\ \A k \in J : k <= j
    <3> HIDE DEF J
    <3>1. IsFiniteSet(J) /\ J \in SUBSET Int
      <4>1. IsFiniteSet(1..N)
        BY <1>5, FS_Interval
      <4>2. IsFiniteSet(J)
        BY <2>6, <4>1, FS_Subset
      <4>3. QED
        BY <1>5, <2>6, <4>2
    <3>2. QED
      BY <2>6, <3>1, OneIsGreatest
  <2> HIDE DEF j
  <2>8. j \in 1..N /\ L \in DOMAIN m.pieces[j]
    BY <2>7
  <2>9. Decides(w, m, N, j, L)
    <3> SUFFICES ASSUME NEW k \in 1..N, NEW u \in DOMAIN m.pieces[k], align(w, u) = align(w, L)
                 PROVE  k < j \/ (k = j /\ u <= L)
      BY DEF Decides
    <3>1. u \in of(i) /\ u \in Nat
      BY <1>3, <2>4
    <3>2. u <= L
      BY <2>3, <3>1 DEF L
    <3>3. CASE j < k
      <4>1. L <= u
        BY <2>8, <3>3, PiecesAre DEF N
      <4>2. u = L
        BY <2>4, <3>1, <3>2, <4>1
      <4>3. k \in J
        BY <4>2
      <4>4. k <= j
        BY <2>7, <4>3
      <4>5. QED
        BY <1>5, <2>8, <3>3, <4>4
    <3>4. QED
      BY <1>5, <2>8, <3>2, <3>3
  <2>11. Max(have(i)) = j
    BY <2>5 DEF j
  <2>12. m.pieces[Max(have(i))][Latest(i)] = m.pieces[j][L]
    BY <2>11 DEF L
  <2>13. QED
    BY <2>4, <2>8, <2>9, <2>12
<1>10. Samples(m) = [i \in UNION {indexOf(w, t) : t \in at} |-> m.pieces[Max(have(i))][Latest(i)]]
  BY DEF Samples
<1> HIDE DEF have, Latest, at
<1>11. DOMAIN Samples(m) = places /\ Samples(m) = [i \in DOMAIN Samples(m) |-> Samples(m)[i]]
       /\ \A i \in places : Samples(m)[i] = m.pieces[Max(have(i))][Latest(i)]
  BY <1>8, <1>10
<1>12. \A i \in places : \E j \in 1..N : \E t \in DOMAIN m.pieces[j] :
         align(w, t) = axis[i] /\ Decides(w, m, N, j, t) /\ Samples(m)[i] = m.pieces[j][t]
  <2> TAKE i \in places
  <2>1. PICK j \in 1..N : \E t \in DOMAIN m.pieces[j] :
          align(w, t) = axis[i] /\ Decides(w, m, N, j, t) /\ m.pieces[Max(have(i))][Latest(i)] = m.pieces[j][t]
    BY <1>9
  <2>2. Samples(m)[i] = m.pieces[Max(have(i))][Latest(i)]
    BY <1>11
  <2> HIDE DEF places
  <2>3. QED
    BY <2>1, <2>2
<1>13. QED
  BY <1>11, <1>12 DEF HeldIn, places, axis, N

\* What is drawn of an entry that has all the samples of a metric is what CloudWatch
\* holds of it.
LEMMA DrawnAsHeld ==
  ASSUME NEW m \in Published, NEW n, AxisOf(n), NEW points, PointsOf(w, points, m, Len(m.pieces))
  PROVE  [i \in {j \in DOMAIN timestamps(w) : timestamps(w)[j] \in DOMAIN points} |-> points[timestamps(w)[i]]]
           = Samples(m)
<1> DEFINE N == Len(m.pieces)
           axis == timestamps(w)
           drawn == [i \in {j \in DOMAIN axis : axis[j] \in DOMAIN points} |-> points[axis[i]]]
<1>1. HeldIn(m, n)
  BY SamplesAre
<1>2. /\ DOMAIN points = UNION {{align(w, t) : t \in DOMAIN m.pieces[i]} : i \in 1..N}
      /\ \A i \in 1..N : \A t \in DOMAIN m.pieces[i] :
           Decides(w, m, N, i, t) => points[align(w, t)] = m.pieces[i][t]
  BY DEF PointsOf
<1>3. Stamps(m) = UNION {DOMAIN m.pieces[i] : i \in 1..N}
  BY StampsAre
<1>4. DOMAIN points = {align(w, t) : t \in Stamps(m)}
  BY <1>2, <1>3
<1>5. DOMAIN axis = 0 .. n - 1
  BY DEF AxisOf
<1> HIDE DEF N, axis
<1>6. DOMAIN drawn = DOMAIN Samples(m)
  BY <1>1, <1>4, <1>5 DEF HeldIn, axis
<1>7. ASSUME NEW i \in DOMAIN Samples(m)
      PROVE  drawn[i] = Samples(m)[i]
  <2>1. PICK j \in 1..N : \E t \in DOMAIN m.pieces[j] :
          align(w, t) = axis[i] /\ Decides(w, m, N, j, t) /\ Samples(m)[i] = m.pieces[j][t]
    BY <1>1 DEF HeldIn, axis, N
  <2>2. PICK t \in DOMAIN m.pieces[j] :
          align(w, t) = axis[i] /\ Decides(w, m, N, j, t) /\ Samples(m)[i] = m.pieces[j][t]
    BY <2>1
  <2>3. points[axis[i]] = m.pieces[j][t]
    BY <1>2, <2>2
  <2>4. drawn[i] = points[axis[i]]
    BY <1>6
  <2>5. QED
    BY <2>2, <2>3, <2>4
<1>8. Samples(m) = [i \in DOMAIN Samples(m) |-> Samples(m)[i]] /\ drawn = [i \in DOMAIN drawn |-> drawn[i]]
  BY <1>1 DEF HeldIn
<1> HIDE DEF drawn
<1>9. drawn = Samples(m)
  BY <1>6, <1>7, <1>8
<1>10. QED
  BY <1>9 DEF drawn, axis

\* The samples of a metric are numbers in the places of the axis, and some where there
\* are any.
LEMMA SamplesAreNumbers ==
  ASSUME NEW m \in Published, NEW n, AxisOf(n)
  PROVE  /\ DOMAIN Samples(m) \in SUBSET (0 .. n - 1)
         /\ Numbers(Samples(m), DOMAIN Samples(m))
<1>1. HeldIn(m, n) /\ n \in Nat
  BY SamplesAre DEF AxisOf
<1>2. DOMAIN Samples(m) \in SUBSET (0 .. n - 1)
  BY <1>1 DEF HeldIn
<1>3. IsFiniteSet(0 .. n - 1)
  BY <1>1, FS_Interval
<1>4. IsFiniteSet(DOMAIN Samples(m))
  BY <1>2, <1>3, FS_Subset
<1>5. \A i \in DOMAIN Samples(m) : Samples(m)[i] \in Int
  <2> TAKE i \in DOMAIN Samples(m)
  <2>1. PICK j \in 1..Len(m.pieces) : \E t \in DOMAIN m.pieces[j] : Samples(m)[i] = m.pieces[j][t]
    BY <1>1 DEF HeldIn
  <2>2. QED
    BY <2>1, PiecesAre
<1>6. QED
  BY <1>2, <1>4, <1>5 DEF Numbers

-----------------------------------------------------------------------------
(***************************************************************************)
(* Lines: those of a list are the entries of it in the order of their maxima. *)
(***************************************************************************)

\* p puts the places 1..n in another order.
Order(p, n) ==
  /\ p \in [1..n -> 1..n]
  /\ \A i, j \in 1..n : p[i] = p[j] => i = j
  /\ \A j \in 1..n : \E i \in 1..n : p[i] = j

\* A line as toSeriesList makes it of an entry.
LineOf(e, label, color, dash) == [toSeries(e, label, color) EXCEPT !.dash = dash]

\* What an order by rank puts in each place.
Ranked(S, Q) == [k \in 1..Cardinality(S) |-> CHOOSE x \in S : Cardinality(Before(S, Q, x)) = k - 1]

\* Ranked is the elements of S in the order of Q, each once.
LEMMA RankedIsOrder ==
  ASSUME NEW S, NEW Q, StrictOrder(S, Q)
  PROVE  /\ Cardinality(S) \in Nat
         /\ \A k \in 1..Cardinality(S) : Ranked(S, Q)[k] \in S
         /\ \A i, j \in 1..Cardinality(S) : Ranked(S, Q)[i] = Ranked(S, Q)[j] => i = j
         /\ \A x \in S : \E k \in 1..Cardinality(S) : Ranked(S, Q)[k] = x
<1> DEFINE n == Cardinality(S)
           r == Ranked(S, Q)
           rank(x) == Cardinality(Before(S, Q, x))
<1>1. /\ n \in Nat
      /\ \A x \in S : rank(x) \in 0 .. n - 1
      /\ \A x, y \in S : rank(x) = rank(y) => x = y
      /\ \A k \in 1 .. n : \E x \in S : rank(x) = k - 1
  BY RankIsPlace
<1>2. \A k \in 1..n : r[k] = CHOOSE x \in S : rank(x) = k - 1
  BY DEF Ranked
<1> HIDE DEF n, r, rank
<1>3. \A k \in 1..n : r[k] \in S /\ rank(r[k]) = k - 1
  BY <1>1, <1>2
<1>4. \A i, j \in 1..n : r[i] = r[j] => i = j
  <2> TAKE i, j \in 1..n
  <2> HAVE r[i] = r[j]
  <2>1. i - 1 = j - 1 /\ i \in Int /\ j \in Int
    BY <1>1, <1>3
  <2>2. QED
    BY <2>1
<1>5. \A x \in S : \E k \in 1..n : r[k] = x
  <2> TAKE x \in S
  <2>1. rank(x) \in 0 .. n - 1
    BY <1>1
  <2>2. rank(x) + 1 \in 1..n /\ (rank(x) + 1) - 1 = rank(x)
    BY <1>1, <2>1
  <2>3. r[rank(x) + 1] = x
    BY <1>1, <1>3, <2>2
  <2>4. QED
    BY <2>2, <2>3
<1>6. QED
  BY <1>1, <1>3, <1>4, <1>5 DEF n, r

\* The largest number of a line, if it has one.
LEMMA MaxOfLine ==
  ASSUME NEW s, Numbers(s.values, DOMAIN s.values)
  PROVE  /\ (DOMAIN s.values = {}) => SeriesMax(s) = {}
         /\ (DOMAIN s.values # {}) => \E x \in Int : /\ SeriesMax(s) = {x}
                                                     /\ \E i \in DOMAIN s.values : x = s.values[i]
                                                     /\ \A i \in DOMAIN s.values : s.values[i] <= x
<1> DEFINE D == DOMAIN s.values
           I == Image(s)
<1>1. IsFiniteSet(D) /\ \A i \in D : s.values[i] \in Int
  BY DEF Numbers
<1>2. I = {s.values[i] : i \in D}
  BY DEF Image
<1>3. D = {} => I = {}
  BY <1>2
<1>4. D # {} => I # {}
  BY <1>2
<1>5. I \in SUBSET Int
  BY <1>1, <1>2
<1>6. IsFiniteSet(I)
  <2> DEFINE f == [i \in D |-> s.values[i]]
  <2>1. f \in Surjection(D, I)
    BY <1>2 DEF Surjection
  <2> HIDE DEF f, D, I
  <2>2. QED
    BY <1>1, <2>1, FS_Surjection
<1>7. SeriesMax(s) = IF I = {} THEN {} ELSE {Max(I)}
  BY DEF SeriesMax
<1> HIDE DEF D, I
<1>8. I # {} => Max(I) \in I /\ \A y \in I : y <= Max(I)
  BY <1>5, <1>6, OneIsGreatest
<1>9. ASSUME D # {}
      PROVE  \E x \in Int : SeriesMax(s) = {x} /\ (\E i \in D : x = s.values[i]) /\ \A i \in D : s.values[i] <= x
  <2>1. Max(I) \in I /\ \A y \in I : y <= Max(I)
    BY <1>4, <1>8, <1>9
  <2>2. PICK i \in D : Max(I) = s.values[i]
    BY <1>2, <2>1
  <2>3. \A j \in D : s.values[j] <= Max(I)
    BY <1>2, <2>1
  <2>4. Max(I) \in Int /\ SeriesMax(s) = {Max(I)}
    BY <1>4, <1>5, <1>7, <1>9, <2>1
  <2>5. QED
    BY <2>2, <2>3, <2>4
<1>10. QED
  BY <1>3, <1>7, <1>9 DEF D

\* toSeriesList is its lines in some order.
LEMMA BusiestFirst ==
  ASSUME NEW list, IsList(list), NEW labels, NEW colors, NEW dash,
         \A i \in DOMAIN list :
           /\ list[i].label \in Nat
           /\ LET made == LineOf(list[i], labels[i], colors[i], dash)
              IN  Numbers(made.values, DOMAIN made.values)
  PROVE  \E p : /\ Order(p, Len(list))
                /\ toSeriesList(list, labels, colors, dash) =
                     [k \in 1..Len(list) |-> LineOf(list[p[k]], labels[p[k]], colors[p[k]], dash)]
<1> DEFINE N == Len(list)
           D == DOMAIN list
           made == [i \in D |-> [toSeries(list[i], labels[i], colors[i]) EXCEPT !.dash = dash]]
           max == [i \in D |-> SeriesMax(made[i])]
           Busier(i, j) == max[i] # {} /\ ~AtMost(max[i], max[j])
           Bef(i, j) == \/ Busier(i, j)
                        \/ /\ ~Busier(j, i)
                           /\ \/ list[i].label < list[j].label
                              \/ list[i].label = list[j].label /\ i < j
           b == [i \in D |-> max[i] # {}]
           v == [i \in D |-> IF max[i] = {} THEN 0 ELSE The(max[i])]
           l == [i \in D |-> list[i].label]
           Bz(i, j) == b[i] /\ (~b[j] \/ v[i] > v[j])
           Q == {q \in D \X D : Bz(q[1], q[2]) \/ (~Bz(q[2], q[1]) /\ (l[q[1]] < l[q[2]] \/ (l[q[1]] = l[q[2]] /\ q[1] < q[2])))}
<1>1. N \in Nat /\ D = 1..N
  BY ListsAre
<1>2. \A i \in D : made[i] = LineOf(list[i], labels[i], colors[i], dash)
  BY DEF LineOf
<1>3. \A i \in D : max[i] = {} \/ \E x \in Int : max[i] = {x}
  <2> TAKE i \in D
  <2>1. Numbers(made[i].values, DOMAIN made[i].values) /\ max[i] = SeriesMax(made[i])
    BY <1>2
  <2> HIDE DEF made, max
  <2>2. QED
    BY <2>1, MaxOfLine
<1>4. toSeriesList(list, labels, colors, dash) =
        [k \in D |-> made[CHOOSE i \in D : Cardinality({j \in D : Bef(j, i)}) = k - 1]]
  BY DEF toSeriesList
<1> HIDE DEF made, max
<1>5. \A x : The({x}) = x
  BY DEF The
<1>6. \A i \in D : v[i] \in Int /\ b[i] \in BOOLEAN /\ l[i] \in Int
  <2> TAKE i \in D
  <2>1. v[i] \in Int
    <3>1. v[i] = IF max[i] = {} THEN 0 ELSE The(max[i])
      OBVIOUS
    <3>2. max[i] # {} => The(max[i]) \in Int
      BY <1>3, <1>5
    <3> HIDE DEF v
    <3>3. QED
      BY <3>1, <3>2
  <2>2. l[i] \in Int
    BY DEF Numbers
  <2>3. b[i] = (max[i] # {})
    OBVIOUS
  <2>4. b[i] \in BOOLEAN
    BY <2>3
  <2>5. QED
    BY <2>1, <2>2, <2>4
<1>7. \A i, j \in D : Busier(i, j) <=> Bz(i, j)
  <2> TAKE i, j \in D
  <2>1. CASE max[i] = {} \/ max[j] = {}
    BY <2>1 DEF AtMost
  <2>2. CASE max[i] # {} /\ max[j] # {}
    <3>1. b[i] /\ b[j] /\ v[i] = The(max[i]) /\ v[j] = The(max[j]) /\ v[i] \in Int /\ v[j] \in Int
      BY <1>6, <2>2
    <3>2. AtMost(max[i], max[j]) <=> v[i] <= v[j]
      BY <2>2, <3>1 DEF AtMost
    <3>3. QED
      BY <2>2, <3>1, <3>2
  <2>3. QED
    BY <2>1, <2>2
<1>8. \A i, j \in D : Bef(i, j) <=> <<i, j>> \in Q
  <2> HIDE DEF b, v, Busier
  <2>1. QED
    BY <1>7
<1>9. StrictOrder(D, Q)
  <2>0. \A i, j \in D : <<i, j>> \in Q <=>
          Bz(i, j) \/ (~Bz(j, i) /\ (l[i] < l[j] \/ (l[i] = l[j] /\ i < j)))
    OBVIOUS
  <2> HIDE DEF Q, b, v, l
  <2>1. IsFiniteSet(D)
    BY <1>1, FS_Interval
  <2>2. \A x \in D : x \in Int
    BY <1>1
  <2>3. \A x \in D : <<x, x>> \notin Q
    BY <1>6, <2>0, <2>2
  <2>4. \A x, y \in D : x # y => <<x, y>> \in Q \/ <<y, x>> \in Q
    BY <1>6, <2>0, <2>2
  <2>5. \A x, y, z \in D : <<x, y>> \in Q /\ <<y, z>> \in Q => <<x, z>> \in Q
    BY <1>6, <2>0, <2>2
  <2>6. QED
    BY <2>1, <2>3, <2>4, <2>5 DEF StrictOrder
<1> DEFINE p == Ranked(D, Q)
<1>10. \A i \in D : {j \in D : Bef(j, i)} = Before(D, Q, i)
  <2> HIDE DEF Bef, Q
  <2>1. QED
    BY <1>8 DEF Before
<1>11. Cardinality(D) = N
  <2>1. 1 \in Int /\ N \in Int
    BY <1>1
  <2>2. Cardinality(1..N) = IF 1 > N THEN 0 ELSE N - 1 + 1
    BY <2>1, FS_Interval
  <2> HIDE DEF N, D
  <2>3. QED
    BY <1>1, <2>2
<1> HIDE DEF Q, Bef, N, D
<1>12. \A k \in 1..N : p[k] = CHOOSE i \in D : Cardinality({j \in D : Bef(j, i)}) = k - 1
  <2> TAKE k \in 1..N
  <2>1. p[k] = CHOOSE i \in D : Cardinality(Before(D, Q, i)) = k - 1
    BY <1>11 DEF Ranked
  <2>2. \A i \in D : Cardinality({j \in D : Bef(j, i)}) = Cardinality(Before(D, Q, i))
    BY <1>10
  <2>3. QED
    BY <2>1, <2>2
<1>13. Order(p, N)
  <2>1. /\ \A k \in 1..N : p[k] \in D
        /\ \A i, j \in 1..N : p[i] = p[j] => i = j
        /\ \A x \in D : \E k \in 1..N : p[k] = x
    BY <1>9, <1>11, RankedIsOrder
  <2>2. p = [k \in 1..N |-> p[k]]
    BY <1>11 DEF Ranked
  <2> HIDE DEF p
  <2>3. QED
    BY <1>1, <2>1, <2>2 DEF Order
<1>14. toSeriesList(list, labels, colors, dash) =
         [k \in 1..N |-> LineOf(list[p[k]], labels[p[k]], colors[p[k]], dash)]
  <2>1. \A k \in 1..N : p[k] \in D
    BY <1>1, <1>13 DEF Order
  <2> HIDE DEF p
  <2>2. \A k \in 1..N : made[p[k]] = LineOf(list[p[k]], labels[p[k]], colors[p[k]], dash)
    BY <1>2, <2>1
  <2>3. \A k \in 1..N : made[CHOOSE i \in D : Cardinality({j \in D : Bef(j, i)}) = k - 1] = made[p[k]]
    BY <1>12
  <2>4. QED
    BY <1>1, <1>4, <2>2, <2>3
<1> HIDE DEF p
<1>15. QED
  BY <1>13, <1>14 DEF N

\* A list of series and the metrics they are of, paired off.
LEMMA GatheredAre ==
  ASSUME NEW list, NEW F \in SUBSET Published, Gathered(w, list, F), LabelsApart(F)
  PROVE  /\ Len(list) \in Nat /\ DOMAIN list = 1..Len(list)
         /\ \A i \in DOMAIN list : list[i].label \in Nat
         /\ \E g \in [1..Len(list) -> F] :
              /\ \A i, j \in 1..Len(list) : g[i] = g[j] => i = j
              /\ \A m \in F : \E i \in 1..Len(list) : g[i] = m
              /\ \A i \in 1..Len(list) : /\ list[i].label = g[i].label
                                         /\ PointsOf(w, list[i].points, g[i], Len(g[i].pieces))
<1> DEFINE N == Len(list)
           g == [i \in 1..N |-> CHOOSE m \in F : list[i].label = m.label]
<1>1. /\ IsList(list)
      /\ \A i, j \in DOMAIN list : list[i].label = list[j].label => i = j
      /\ \A i \in DOMAIN list : \E m \in F : list[i].label = m.label /\ PointsOf(w, list[i].points, m, Len(m.pieces))
      /\ \A m \in F : \E i \in DOMAIN list : list[i].label = m.label
  BY DEF Gathered
<1>2. N \in Nat /\ DOMAIN list = 1..N
  BY <1>1, ListsAre
<1>3. \A i \in 1..N : g[i] \in F /\ list[i].label = g[i].label
  BY <1>1, <1>2
<1>4. \A i \in 1..N : PointsOf(w, list[i].points, g[i], Len(g[i].pieces))
  <2> TAKE i \in 1..N
  <2>1. PICK m \in F : list[i].label = m.label /\ PointsOf(w, list[i].points, m, Len(m.pieces))
    BY <1>1, <1>2
  <2>2. m = g[i]
    BY <1>3, <2>1 DEF LabelsApart
  <2> HIDE DEF g
  <2>3. QED
    BY <2>1, <2>2
<1>5. \A i \in 1..N : list[i].label \in Nat
  BY <1>3, PiecesAre
<1>6. g \in [1..N -> F]
  BY <1>3
<1> HIDE DEF g
<1>7. \A i, j \in 1..N : g[i] = g[j] => i = j
  <2> TAKE i, j \in 1..N
  <2> HAVE g[i] = g[j]
  <2>1. list[i].label = list[j].label
    BY <1>3
  <2>2. QED
    BY <1>1, <1>2, <2>1
<1>8. \A m \in F : \E i \in 1..N : g[i] = m
  <2> TAKE m \in F
  <2>1. PICK i \in 1..N : list[i].label = m.label
    BY <1>1, <1>2
  <2>2. g[i] = m
    BY <1>3, <2>1 DEF LabelsApart
  <2>3. QED
    BY <2>2
<1>9. QED
  BY <1>2, <1>3, <1>4, <1>5, <1>6, <1>7, <1>8

\* Some of the series, sorted by label, are a list of their metrics.
LEMMA SortedGathered ==
  ASSUME NEW list, NEW F \in SUBSET Published, Gathered(w, list, F), LabelsApart(F), NEW S \in SUBSET ToSet(list)
  PROVE  /\ Gathered(w, sortSeries(S), {m \in F : \E e \in S : e.label = m.label})
         /\ Len(sortSeries(S)) = Cardinality(S)
<1> DEFINE N == Len(list)
           Q == {q \in S \X S : q[1].label < q[2].label}
           G == {m \in F : \E e \in S : e.label = m.label}
           r == sortSeries(S)
           c == Cardinality(S)
<1>1. N \in Nat /\ DOMAIN list = 1..N /\ \A i \in DOMAIN list : list[i].label \in Nat
  BY GatheredAre
<1>2. \A e \in S : \E i \in 1..N : e = list[i]
  BY <1>1 DEF ToSet
<1>3. \A e \in S : e.label \in Int
  BY <1>1, <1>2
<1>4. \A d, e \in S : d.label = e.label => d = e
  BY <1>1, <1>2 DEF Gathered
<1>5. IsFiniteSet(S)
  <2> DEFINE T == {list[i] : i \in 1..N}
             f == [i \in 1..N |-> list[i]]
  <2>1. f \in Surjection(1..N, T)
    BY DEF Surjection
  <2>2. S \in SUBSET T
    BY <1>2
  <2> HIDE DEF f, T, N
  <2>3. IsFiniteSet(1..N)
    BY <1>1, FS_Interval
  <2>4. IsFiniteSet(T)
    BY <2>1, <2>3, FS_Surjection
  <2>5. QED
    BY <2>2, <2>4, FS_Subset
<1>6. \A d, e \in S : <<d, e>> \in Q <=> d.label < e.label
  OBVIOUS
<1> HIDE DEF Q
<1>7. StrictOrder(S, Q)
  BY <1>3, <1>4, <1>5, <1>6 DEF StrictOrder
<1>8. \A e \in S : Before(S, Q, e) = {d \in S : d.label < e.label}
  BY <1>6 DEF Before
<1>9. r = Ranked(S, Q)
  <2>1. \A k : (CHOOSE e \in S : Cardinality({d \in S : d.label < e.label}) = k - 1)
                 = CHOOSE e \in S : Cardinality(Before(S, Q, e)) = k - 1
    <3> TAKE k
    <3>1. \A e \in S : Cardinality({d \in S : d.label < e.label}) = Cardinality(Before(S, Q, e))
      BY <1>8
    <3>2. QED
      BY <3>1
  <2>2. QED
    BY <2>1 DEF sortSeries, Ranked
<1>10. /\ c \in Nat
       /\ \A k \in 1..c : r[k] \in S
       /\ \A i, j \in 1..c : r[i] = r[j] => i = j
       /\ \A e \in S : \E k \in 1..c : r[k] = e
  BY <1>7, <1>9, RankedIsOrder
<1>11. r = [k \in 1..c |-> r[k]]
  <2> HIDE DEF r
  <2>1. QED
    BY <1>9 DEF Ranked
<1> HIDE DEF r, c
<1>12. IsList(r) /\ Len(r) = c /\ DOMAIN r = 1..c
  BY <1>10, <1>11, ListOfFunction
<1>13. \A i, j \in DOMAIN r : r[i].label = r[j].label => i = j
  BY <1>4, <1>10, <1>12
<1>14. \A i \in DOMAIN r : \E m \in G : r[i].label = m.label /\ PointsOf(w, r[i].points, m, Len(m.pieces))
  <2> TAKE i \in DOMAIN r
  <2>1. r[i] \in S
    BY <1>10, <1>12
  <2>2. PICK j \in 1..N : r[i] = list[j]
    BY <1>2, <2>1
  <2>3. PICK m \in F : list[j].label = m.label /\ PointsOf(w, list[j].points, m, Len(m.pieces))
    BY <1>1 DEF Gathered
  <2>4. m \in G
    BY <2>1, <2>2, <2>3
  <2> HIDE DEF G
  <2>5. QED
    BY <2>2, <2>3, <2>4
<1>15. \A m \in G : \E i \in DOMAIN r : r[i].label = m.label
  <2> TAKE m \in G
  <2>1. PICK e \in S : e.label = m.label
    OBVIOUS
  <2>2. PICK k \in 1..c : r[k] = e
    BY <1>10
  <2>3. QED
    BY <1>12, <2>1, <2>2
<1> HIDE DEF G
<1>16. Gathered(w, r, G)
  BY <1>12, <1>13, <1>14, <1>15 DEF Gathered
<1>17. QED
  BY <1>12, <1>16 DEF r, G, c

\* The line of a metric.
Line(m, label, color, dash) ==
  [label |-> label, color |-> color, dash |-> dash, n |-> buckets(w), values |-> Samples(m)]

\* Every line is that of the metric f says, and every metric has one.
Plotted(lines, list, F, labels, colors, dash, f) ==
  /\ IsList(lines) /\ Len(lines) = Len(list)
  /\ f \in [1..Len(list) -> F]
  /\ \A i, j \in 1..Len(list) : f[i] = f[j] => i = j
  /\ \A m \in F : \E i \in 1..Len(list) : f[i] = m
  /\ \A k \in 1..Len(list) : \E i \in DOMAIN list :
       /\ list[i].label = f[k].label
       /\ lines[k] = Line(f[k], labels[i], colors[i], dash)

\* toSeriesList draws a line for each metric, with the samples of that metric.
LEMMA ListIsPlotted ==
  ASSUME NEW list, NEW F \in SUBSET Published, Gathered(w, list, F), LabelsApart(F), NEW n, AxisOf(n),
         NEW labels, NEW colors, NEW dash
  PROVE  \E f : Plotted(toSeriesList(list, labels, colors, dash), list, F, labels, colors, dash, f)
<1> DEFINE N == Len(list)
           lines == toSeriesList(list, labels, colors, dash)
<1>1. N \in Nat /\ DOMAIN list = 1..N /\ (\A i \in DOMAIN list : list[i].label \in Nat)
  BY GatheredAre
<1>2. PICK g \in [1..N -> F] :
        /\ \A i, j \in 1..N : g[i] = g[j] => i = j
        /\ \A m \in F : \E i \in 1..N : g[i] = m
        /\ \A i \in 1..N : /\ list[i].label = g[i].label
                           /\ PointsOf(w, list[i].points, g[i], Len(g[i].pieces))
  BY GatheredAre
<1> HIDE DEF N
<1>3. \A i \in 1..N : LineOf(list[i], labels[i], colors[i], dash) = Line(g[i], labels[i], colors[i], dash)
  <2> TAKE i \in 1..N
  <2> DEFINE points == list[i].points
             drawn == [k \in {j \in DOMAIN timestamps(w) : timestamps(w)[j] \in DOMAIN points} |->
                         points[timestamps(w)[k]]]
  <2>1. g[i] \in Published /\ PointsOf(w, points, g[i], Len(g[i].pieces))
    BY <1>2
  <2>2. drawn = Samples(g[i])
    <3> HIDE DEF points
    <3>1. QED
      BY <2>1, DrawnAsHeld
  <2>3. LineOf(list[i], labels[i], colors[i], dash) =
          [label |-> labels[i], color |-> colors[i], dash |-> dash, n |-> buckets(w), values |-> drawn]
    <3>1. toSeries(list[i], labels[i], colors[i]) =
            [newSeries(labels[i], colors[i], buckets(w)) EXCEPT !.values = drawn]
      BY DEF toSeries
    <3> HIDE DEF drawn
    <3>2. \A a, b, c, d, e, o :
            /\ [[label |-> a, color |-> b, dash |-> o, n |-> c, values |-> d] EXCEPT !.values = e]
                 = [label |-> a, color |-> b, dash |-> o, n |-> c, values |-> e]
            /\ [[label |-> a, color |-> b, dash |-> o, n |-> c, values |-> d] EXCEPT !.dash = e]
                 = [label |-> a, color |-> b, dash |-> e, n |-> c, values |-> d]
      OBVIOUS
    <3>3. newSeries(labels[i], colors[i], buckets(w)) =
            [label |-> labels[i], color |-> colors[i], dash |-> "solid", n |-> buckets(w), values |-> [k \in {} |-> 0]]
      BY DEF newSeries
    <3>4. toSeries(list[i], labels[i], colors[i]) =
            [label |-> labels[i], color |-> colors[i], dash |-> "solid", n |-> buckets(w), values |-> drawn]
      BY <3>1, <3>2, <3>3
    <3>5. QED
      BY <3>2, <3>4 DEF LineOf
  <2> HIDE DEF drawn
  <2>4. QED
    BY <2>2, <2>3 DEF Line
<1>4. IsList(list)
  BY DEF Gathered
<1>5. \A i \in DOMAIN list :
        /\ list[i].label \in Nat
        /\ LET made == LineOf(list[i], labels[i], colors[i], dash)
           IN  Numbers(made.values, DOMAIN made.values)
  <2> TAKE i \in DOMAIN list
  <2>0. i \in 1..N
    BY <1>1
  <2>1. LineOf(list[i], labels[i], colors[i], dash).values = Samples(g[i]) /\ g[i] \in Published
    <3>1. LineOf(list[i], labels[i], colors[i], dash) = Line(g[i], labels[i], colors[i], dash)
      BY <1>3, <2>0
    <3>2. g[i] \in F
      BY <1>2, <2>0
    <3>3. QED
      BY <3>1, <3>2 DEF Line
  <2>2. Numbers(Samples(g[i]), DOMAIN Samples(g[i]))
    BY <2>1, SamplesAreNumbers
  <2>3. QED
    BY <1>1, <2>1, <2>2
<1>6. PICK p : Order(p, N) /\ lines = [k \in 1..N |-> LineOf(list[p[k]], labels[p[k]], colors[p[k]], dash)]
  BY <1>4, <1>5, BusiestFirst DEF N
<1> HIDE DEF lines
<1> DEFINE f == [k \in 1..N |-> g[p[k]]]
<1>7. /\ p \in [1..N -> 1..N]
      /\ \A i, j \in 1..N : p[i] = p[j] => i = j
      /\ \A j \in 1..N : \E i \in 1..N : p[i] = j
  BY <1>6 DEF Order
<1>8. f \in [1..N -> F] /\ \A i, j \in 1..N : f[i] = f[j] => i = j
  BY <1>2, <1>7
<1>9. \A m \in F : \E i \in 1..N : f[i] = m
  <2> TAKE m \in F
  <2>1. PICK j \in 1..N : g[j] = m
    BY <1>2
  <2>2. PICK i \in 1..N : p[i] = j
    BY <1>7
  <2>3. QED
    BY <2>1, <2>2
<1>10. \A k \in 1..N : \E i \in DOMAIN list :
         /\ list[i].label = f[k].label
         /\ lines[k] = Line(f[k], labels[i], colors[i], dash)
  <2> TAKE k \in 1..N
  <2>1. p[k] \in 1..N /\ f[k] = g[p[k]]
    BY <1>7
  <2>2. lines[k] = Line(g[p[k]], labels[p[k]], colors[p[k]], dash)
    BY <1>3, <1>6, <2>1
  <2>3. list[p[k]].label = f[k].label
    BY <1>2, <2>1
  <2>4. p[k] \in DOMAIN list
    BY <1>1, <2>1
  <2> HIDE DEF f
  <2>5. QED
    BY <2>1, <2>2, <2>3, <2>4
<1>11. IsList(lines) /\ Len(lines) = N
  <2>1. lines = [k \in 1..N |-> lines[k]]
    BY <1>6
  <2>2. QED
    BY <1>1, <2>1, ListOfFunction
<1> HIDE DEF f
<1>12. Plotted(lines, list, F, labels, colors, dash, f)
  BY <1>8, <1>9, <1>10, <1>11 DEF Plotted, N
<1>13. QED
  BY <1>12 DEF lines

-----------------------------------------------------------------------------
(***************************************************************************)
(* Panels of targets draw what is due.                                     *)
(***************************************************************************)

\* What a spec says of a set: a line for each metric.
DueTo(spec, fs, F) == {<<spec, fs, m>> : m \in F}

\* The lines of a list are those due to its metrics, if each is as R has it.
LEMMA PlottedDraws ==
  ASSUME NEW list, NEW F \in SUBSET Published, Gathered(w, list, F), LabelsApart(F), NEW n, AxisOf(n),
         NEW labels, NEW colors, NEW dash, NEW spec, NEW fs, NEW T, NEW R,
         \A m \in F : \A i \in DOMAIN list : list[i].label = m.label =>
           /\ Line(m, labels[i], colors[i], dash) \in T
           /\ <<Line(m, labels[i], colors[i], dash), <<spec, fs, m>>>> \in R
  PROVE  /\ toSeriesList(list, labels, colors, dash) \in Seq(T)
         /\ Len(toSeriesList(list, labels, colors, dash)) = Len(list)
         /\ Draws(toSeriesList(list, labels, colors, dash), DueTo(spec, fs, F), R)
<1> DEFINE lines == toSeriesList(list, labels, colors, dash)
           N == Len(list)
<1>1. PICK f : Plotted(lines, list, F, labels, colors, dash, f)
  BY ListIsPlotted
<1> HIDE DEF lines
<1>2. /\ IsList(lines) /\ Len(lines) = N
      /\ f \in [1..N -> F]
      /\ \A i, j \in 1..N : f[i] = f[j] => i = j
      /\ \A m \in F : \E i \in 1..N : f[i] = m
      /\ \A k \in 1..N : \E i \in DOMAIN list :
           /\ list[i].label = f[k].label
           /\ lines[k] = Line(f[k], labels[i], colors[i], dash)
  BY <1>1 DEF Plotted
<1> HIDE DEF N
<1>3. N \in Nat /\ lines = [k \in 1..N |-> lines[k]]
  BY <1>2, ListsAre
<1>4. \A k \in 1..N : lines[k] \in T /\ <<lines[k], <<spec, fs, f[k]>>>> \in R
  <2> TAKE k \in 1..N
  <2>1. PICK i \in DOMAIN list : list[i].label = f[k].label /\ lines[k] = Line(f[k], labels[i], colors[i], dash)
    BY <1>2
  <2>2. f[k] \in F
    BY <1>2
  <2>3. QED
    BY <2>1, <2>2
<1>5. lines \in Seq(T)
  <2>1. lines \in [1..N -> T]
    BY <1>3, <1>4
  <2>2. QED
    BY <1>3, <2>1
<1> DEFINE D == DueTo(spec, fs, F)
           h == [k \in 1..N |-> <<spec, fs, f[k]>>]
<1>6. h \in [1..N -> D] /\ \A i, j \in 1..N : h[i] = h[j] => i = j
  BY <1>2 DEF DueTo
<1>7. \A d \in D : \E i \in 1..N : h[i] = d
  <2> TAKE d \in D
  <2>1. PICK m \in F : d = <<spec, fs, m>>
    BY DEF DueTo
  <2>2. PICK i \in 1..N : f[i] = m
    BY <1>2
  <2>3. QED
    BY <2>1, <2>2
<1>8. \A k \in 1..N : <<lines[k], h[k]>> \in R
  BY <1>4
<1> HIDE DEF h, D
<1>9. Drawn(h, lines, D, R)
  BY <1>2, <1>6, <1>7, <1>8 DEF Drawn
<1>10. Draws(lines, D, R)
  BY <1>9 DEF Draws
<1>11. QED
  BY <1>2, <1>5, <1>10 DEF lines, N, D

\* The lines TargetLines has of one set.
SetLines(spec, fs) ==
  LET list == sortSeries(ToSet(ListOf(spec, fs)))
      labels == [i \in DOMAIN list |-> setSeriesLabel(Sets, fs, spec, Len(list), list[i])]
  IN  toSeriesList(list, labels, [i \in DOMAIN list |-> spec.color], "solid")

\* The line of a metric in a panel of targets.
FoundIn(spec, fs) == Len(sortSeries(ToSet(ListOf(spec, fs))))
\* The line of a metric in a panel of targets.
TargetLine(d) ==
  Line(d[3], setSeriesLabel(Sets, d[2], d[1], FoundIn(d[1], d[2]), d[3]), d[1].color, "solid")
\* All such lines.
AllTargetLines == {TargetLine(d) : d \in Due}
\* A line and the metric it is due to.
AsTarget == {q \in AllTargetLines \X Due : q[1] = TargetLine(q[2])}

\* Due has the metrics of each spec and set, and nothing else.
LEMMA DueAre ==
  /\ \A i \in DOMAIN Specs, j \in DOMAIN Sets :
       \A m \in About(Specs[i], Sets[j]) : <<Specs[i], Sets[j], m>> \in Due
  /\ \A d \in Due : \E i \in DOMAIN Specs, j \in DOMAIN Sets : \E m \in About(Specs[i], Sets[j]) :
       d = <<Specs[i], Sets[j], m>>
<1>1. \A i \in DOMAIN Specs, j \in DOMAIN Sets :
       \A m \in About(Specs[i], Sets[j]) : <<Specs[i], Sets[j], m>> \in Due
  <2> TAKE i \in DOMAIN Specs, j \in DOMAIN Sets
  <2> TAKE m \in About(Specs[i], Sets[j])
  <2>1. Specs[i] \in ToSet(Specs) /\ Sets[j] \in ToSet(Sets)
    BY DEF ToSet
  <2> DEFINE of(spec, fs) == {<<spec, fs, o>> : o \in About(spec, fs)}
  <2>2. <<Specs[i], Sets[j], m>> \in of(Specs[i], Sets[j])
    OBVIOUS
  <2>3. Due = UNION {of(spec, fs) : spec \in ToSet(Specs), fs \in ToSet(Sets)}
    BY DEF Due
  <2> HIDE DEF of
  <2>4. QED
    BY <2>1, <2>2, <2>3
<1>2. \A d \in Due : \E i \in DOMAIN Specs, j \in DOMAIN Sets : \E m \in About(Specs[i], Sets[j]) :
       d = <<Specs[i], Sets[j], m>>
  <2> TAKE d \in Due
  <2>1. PICK spec \in ToSet(Specs), fs \in ToSet(Sets) : d \in {<<spec, fs, m>> : m \in About(spec, fs)}
    BY DEF Due
  <2>2. PICK i \in DOMAIN Specs, j \in DOMAIN Sets : spec = Specs[i] /\ fs = Sets[j]
    BY DEF ToSet
  <2>3. QED
    BY <2>1, <2>2
<1>3. QED
  BY <1>1, <1>2

\* The lines of one set are those due to it.
LEMMA SetIsDrawn ==
  ASSUME PanelInv, Fetched, NEW n, AxisOf(n), NEW i \in DOMAIN Specs, NEW j \in DOMAIN Sets
  PROVE  /\ SetLines(Specs[i], Sets[j]) \in Seq(AllTargetLines)
         /\ Len(SetLines(Specs[i], Sets[j])) = FoundIn(Specs[i], Sets[j])
         /\ Draws(SetLines(Specs[i], Sets[j]), DueTo(Specs[i], Sets[j], About(Specs[i], Sets[j])), AsTarget)
<1> DEFINE spec == Specs[i]
           fs == Sets[j]
           F == About(spec, fs)
           S == ToSet(ListOf(spec, fs))
           list == sortSeries(S)
           labels == [k \in DOMAIN list |-> setSeriesLabel(Sets, fs, spec, Len(list), list[k])]
           colors == [k \in DOMAIN list |-> spec.color]
<1>1. Gathered(w, ListOf(spec, fs), F) /\ LabelsApart(F)
  BY AllGathered
<1>2. F \in SUBSET Published
  BY DEF About
<1>3. \A m \in F : <<spec, fs, m>> \in Due
  BY DueAre
<1> HIDE DEF spec, fs, F
<1>4. {m \in F : \E e \in S : e.label = m.label} = F
  <2> SUFFICES ASSUME NEW m \in F PROVE \E e \in S : e.label = m.label
    OBVIOUS
  <2>1. PICK k \in DOMAIN ListOf(spec, fs) : ListOf(spec, fs)[k].label = m.label
    BY <1>1 DEF Gathered
  <2>2. ListOf(spec, fs)[k] \in S
    BY DEF ToSet
  <2>3. QED
    BY <2>1, <2>2
<1>5. Gathered(w, list, F)
  <2> HIDE DEF S
  <2>1. S \in SUBSET ToSet(ListOf(spec, fs))
    BY DEF S
  <2>2. QED
    BY <1>1, <1>2, <1>4, <2>1, SortedGathered
<1>6. Len(list) = FoundIn(spec, fs)
  BY DEF FoundIn
<1> HIDE DEF list, S
<1>7. \A m \in F : \A k \in DOMAIN list : list[k].label = m.label =>
        /\ Line(m, labels[k], colors[k], "solid") \in AllTargetLines
        /\ <<Line(m, labels[k], colors[k], "solid"), <<spec, fs, m>>>> \in AsTarget
  <2> TAKE m \in F
  <2> TAKE k \in DOMAIN list
  <2> HAVE list[k].label = m.label
  <2> DEFINE d == <<spec, fs, m>>
  <2>1. d \in Due /\ d[1] = spec /\ d[2] = fs /\ d[3] = m
    BY <1>3
  <2>2. labels[k] = setSeriesLabel(Sets, fs, spec, Len(list), list[k])
    OBVIOUS
  <2>3. setSeriesLabel(Sets, fs, spec, Len(list), list[k]) = setSeriesLabel(Sets, fs, spec, FoundIn(spec, fs), m)
    BY <1>6 DEF setSeriesLabel
  <2>4. colors[k] = spec.color
    OBVIOUS
  <2> HIDE DEF d, labels, colors
  <2>5. Line(m, labels[k], colors[k], "solid") = TargetLine(d)
    BY <2>1, <2>2, <2>3, <2>4 DEF TargetLine
  <2>6. TargetLine(d) \in AllTargetLines /\ <<TargetLine(d), d>> \in AsTarget
    BY <2>1 DEF AllTargetLines, AsTarget
  <2>7. QED
    BY <2>5, <2>6 DEF d
<1>8. SetLines(spec, fs) = toSeriesList(list, labels, colors, "solid")
  BY DEF SetLines, list, S
<1> HIDE DEF labels, colors
<1>9. /\ toSeriesList(list, labels, colors, "solid") \in Seq(AllTargetLines)
      /\ Len(toSeriesList(list, labels, colors, "solid")) = Len(list)
      /\ Draws(toSeriesList(list, labels, colors, "solid"), DueTo(spec, fs, F), AsTarget)
  BY <1>1, <1>2, <1>5, <1>7, PlottedDraws
<1>10. QED
  BY <1>6, <1>8, <1>9 DEF spec, fs, F

\* A function on 1..n is a sequence.
LEMMA SeqOfFunction ==
  ASSUME NEW n \in Nat, NEW U, NEW f, DOMAIN f = 1..n, f = [i \in 1..n |-> f[i]], \A i \in 1..n : f[i] \in U
  PROVE  f \in Seq(U) /\ Len(f) = n
<1>1. f \in [1..n -> U]
  OBVIOUS
<1>2. QED
  BY <1>1

\* Specs, and sets, in different places are different.
LEMMA PlacesApart ==
  ASSUME PanelInv, Fetched
  PROVE  \A i, k \in DOMAIN Specs, j, l \in DOMAIN Sets :
           /\ Specs[i].key = Specs[k].key => i = k
           /\ Sets[j] = Sets[l] => j = l
<1> TAKE i, k \in DOMAIN Specs, j, l \in DOMAIN Sets
<1>1. ASSUME Specs[i].key = Specs[k].key PROVE i = k
  <2>1. ResultKey(Specs[i], Sets[j]) = ResultKey(Specs[k], Sets[j])
    BY <1>1 DEF ResultKey
  <2>2. QED
    BY <2>1, PairsApart
<1>2. ASSUME Sets[j] = Sets[l] PROVE j = l
  <2>1. ResultKey(Specs[i], Sets[j]) = ResultKey(Specs[i], Sets[l])
    BY <1>2
  <2>2. QED
    BY <2>1, PairsApart
<1>3. QED
  BY <1>1, <1>2

\* The lines due to a spec.
DueOf(spec) == {d \in Due : d[1] = spec}

\* The lines of one spec are those due to it.
LEMMA SpecIsDrawn ==
  ASSUME PanelInv, Fetched, NEW n, AxisOf(n), NEW i \in DOMAIN Specs
  PROVE  /\ TargetLines(Specs[i]) \in Seq(AllTargetLines)
         /\ Draws(TargetLines(Specs[i]), DueOf(Specs[i]), AsTarget)
<1> DEFINE spec == Specs[i]
           N == Len(Sets)
           s == [j \in DOMAIN Sets |-> SetLines(spec, Sets[j])]
           D == [j \in DOMAIN Sets |-> DueTo(spec, Sets[j], About(spec, Sets[j]))]
           T == AllTargetLines
<1>1. N \in Nat /\ DOMAIN Sets = 1..N
  BY SetsAreList, ListsAre DEF PanelInv
<1>2. \A j \in DOMAIN Sets : s[j] \in Seq(T) /\ Draws(s[j], D[j], AsTarget)
  BY SetIsDrawn
<1>3. TargetLines(spec) = FlattenSeq(s)
  BY DEF TargetLines, SetLines
<1>4. \A j, k \in DOMAIN Sets : j # k => D[j] \cap D[k] = {}
  <2> TAKE j, k \in DOMAIN Sets
  <2> HAVE j # k
  <2>1. Sets[j] # Sets[k]
    BY PlacesApart
  <2>2. QED
    BY <2>1 DEF DueTo
<1>5. UNION {D[j] : j \in DOMAIN Sets} = DueOf(spec)
  <2>1. ASSUME NEW d \in DueOf(spec)
        PROVE  \E j \in DOMAIN Sets : d \in D[j]
    <3>1. PICK k \in DOMAIN Specs, j \in DOMAIN Sets : \E m \in About(Specs[k], Sets[j]) : d = <<Specs[k], Sets[j], m>>
      BY DueAre DEF DueOf
    <3>2. Specs[k] = spec
      BY <3>1 DEF DueOf
    <3>3. QED
      BY <3>1, <3>2 DEF DueTo
  <2>2. ASSUME NEW j \in DOMAIN Sets, NEW d \in D[j]
        PROVE  d \in DueOf(spec)
    <3>1. PICK m \in About(spec, Sets[j]) : d = <<spec, Sets[j], m>>
      BY DEF DueTo
    <3>2. QED
      BY <3>1, DueAre DEF DueOf
  <2> HIDE DEF D, spec
  <2>3. QED
    BY <2>1, <2>2
<1>6. s = [j \in 1..N |-> s[j]] /\ DOMAIN s = 1..N
  BY <1>1
<1> HIDE DEF s, D, N, T, spec
<1>7. s \in Seq(Seq(T)) /\ Len(s) = N
  BY <1>1, <1>2, <1>6, SeqOfFunction
<1>8. /\ FlattenSeq(s) \in Seq(T)
      /\ Draws(FlattenSeq(s), UNION {D[j] : j \in 1..Len(s)}, AsTarget)
  <2>1. \A j \in 1..Len(s) : Draws(s[j], D[j], AsTarget)
    BY <1>1, <1>2, <1>7
  <2>2. \A j, k \in 1..Len(s) : j # k => D[j] \cap D[k] = {}
    BY <1>1, <1>4, <1>7
  <2>3. QED
    BY <1>7, <2>1, <2>2, DrawsFlattened
<1>9. QED
  BY <1>1, <1>3, <1>5, <1>7, <1>8 DEF T, spec

\* The lines of a panel of targets.
TargetSeries == FlattenSeq([i \in DOMAIN Specs |-> TargetLines(Specs[i])])

\* The lines of a panel of targets are those due, each once.
LEMMA TargetsAreDrawn ==
  ASSUME PanelInv, Fetched, NEW n, AxisOf(n)
  PROVE  /\ TargetSeries \in Seq(AllTargetLines)
         /\ Draws(TargetSeries, Due, AsTarget)
<1> DEFINE N == Len(Specs)
           s == [i \in DOMAIN Specs |-> TargetLines(Specs[i])]
           D == [i \in DOMAIN Specs |-> DueOf(Specs[i])]
           T == AllTargetLines
<1>1. N \in Nat /\ DOMAIN Specs = 1..N
  BY SpecsAreList, ListsAre DEF PanelInv
<1>2. \A i \in DOMAIN Specs : s[i] \in Seq(T) /\ Draws(s[i], D[i], AsTarget)
  BY SpecIsDrawn
<1>3. TargetSeries = FlattenSeq(s)
  BY DEF TargetSeries
<1>4. \A i, k \in DOMAIN Specs : i # k => D[i] \cap D[k] = {}
  <2> SUFFICES ASSUME NEW i \in DOMAIN Specs, NEW k \in DOMAIN Specs, NEW d \in Due, d[1] = Specs[i], d[1] = Specs[k]
               PROVE  i = k
    BY DEF DueOf
  <2>1. PICK l \in DOMAIN Sets : TRUE
    BY DueAre
  <2>2. Specs[i].key = Specs[k].key
    OBVIOUS
  <2>3. QED
    BY <2>1, <2>2, PlacesApart
<1>5. UNION {D[i] : i \in DOMAIN Specs} = Due
  <2>1. \A d \in Due : \E i \in DOMAIN Specs : d[1] = Specs[i]
    BY DueAre
  <2>2. QED
    BY <2>1 DEF DueOf
<1>6. s = [i \in 1..N |-> s[i]] /\ DOMAIN s = 1..N
  BY <1>1
<1> HIDE DEF s, D, N, T
<1>7. s \in Seq(Seq(T)) /\ Len(s) = N
  BY <1>1, <1>2, <1>6, SeqOfFunction
<1>8. /\ FlattenSeq(s) \in Seq(T)
      /\ Draws(FlattenSeq(s), UNION {D[j] : j \in 1..Len(s)}, AsTarget)
  <2>1. \A j \in 1..Len(s) : Draws(s[j], D[j], AsTarget)
    BY <1>1, <1>2, <1>7
  <2>2. \A j, k \in 1..Len(s) : j # k => D[j] \cap D[k] = {}
    BY <1>1, <1>4, <1>7
  <2>3. QED
    BY <1>7, <2>1, <2>2, DrawsFlattened
<1>9. QED
  BY <1>1, <1>3, <1>5, <1>7, <1>8 DEF T

\* A list that draws D has as many entries as D has elements.
LEMMA DrawnAreCounted ==
  ASSUME NEW U, NEW list \in Seq(U), NEW D, NEW R, Draws(list, D, R)
  PROVE  /\ IsFiniteSet(D) /\ Len(list) = Cardinality(D)
         /\ DOMAIN list = 1..Len(list)
         /\ \A d \in D : \E i \in DOMAIN list : <<list[i], d>> \in R
<1>1. PICK f : Drawn(f, list, D, R)
  BY DEF Draws
<1> DEFINE N == Len(list)
<1>2. N \in Nat /\ DOMAIN list = 1..N
  OBVIOUS
<1>3. /\ f \in [1..N -> D]
      /\ \A i, j \in 1..N : f[i] = f[j] => i = j
      /\ \A d \in D : \E i \in 1..N : f[i] = d
      /\ \A i \in 1..N : <<list[i], f[i]>> \in R
  BY <1>1 DEF Drawn
<1> HIDE DEF N
<1>4. IsFiniteSet(1..N) /\ Cardinality(1..N) = N
  <2>1. 1 \in Int /\ N \in Int
    BY <1>2
  <2>2. IsFiniteSet(1..N) /\ Cardinality(1..N) = IF 1 > N THEN 0 ELSE N - 1 + 1
    BY <2>1, FS_Interval
  <2>3. QED
    BY <1>2, <2>2
<1>5. f \in Bijection(1..N, D)
  BY <1>3 DEF Bijection, Injection, Surjection, IsInjective
<1>6. IsFiniteSet(D) /\ Cardinality(D) = N
  BY <1>4, <1>5, FS_Bijection DEF ExistsBijection
<1>7. \A d \in D : \E i \in 1..N : <<list[i], d>> \in R
  <2> TAKE d \in D
  <2>1. PICK i \in 1..N : f[i] = d
    BY <1>3
  <2>2. QED
    BY <1>3, <2>1
<1>8. QED
  BY <1>2, <1>6, <1>7 DEF N

\* A panel with series and numbers.
Made(id, series, stats) == [newPanel(id) EXCEPT !.series = series, !.stats = stats]

\* The fields of such a panel.
LEMMA MadeHas ==
  ASSUME NEW id, NEW series, NEW stats
  PROVE  Made(id, series, stats).series = series /\ Made(id, series, stats).stats = stats
<1> DEFINE p == Made(id, series, stats)
<1>1. \A a, b, c, d, e, f, g :
        /\ [[id |-> a, series |-> b, stats |-> c, table |-> d, bars |-> e, warnings |-> f] EXCEPT !.series = g]
             = [id |-> a, series |-> g, stats |-> c, table |-> d, bars |-> e, warnings |-> f]
        /\ [[id |-> a, series |-> b, stats |-> c, table |-> d, bars |-> e, warnings |-> f] EXCEPT !.stats = g]
             = [id |-> a, series |-> b, stats |-> g, table |-> d, bars |-> e, warnings |-> f]
  OBVIOUS
<1>2. newPanel(id) = [id |-> id, series |-> <<>>, stats |-> [k \in {} |-> {}], table |-> <<>>, bars |-> <<>>,
                      warnings |-> <<>>]
  BY DEF newPanel
<1>3. [newPanel(id) EXCEPT !.series = series] =
        [id |-> id, series |-> series, stats |-> [k \in {} |-> {}], table |-> <<>>, bars |-> <<>>,
         warnings |-> <<>>]
  BY <1>1, <1>2
<1>4. p = [[newPanel(id) EXCEPT !.series = series] EXCEPT !.stats = stats]
  BY DEF Made
<1> HIDE DEF p
<1>5. p = [id |-> id, series |-> series, stats |-> stats, table |-> <<>>, bars |-> <<>>, warnings |-> <<>>]
  BY <1>1, <1>3, <1>4
<1>6. p.series = series /\ p.stats = stats
  BY <1>5
<1>7. QED
  BY <1>6 DEF p

\* A warning leaves lines and numbers alone.
LEMMA WarnKeeps ==
  ASSUME NEW p, NEW message
  PROVE  warn(p, message).series = p.series /\ warn(p, message).stats = p.stats
BY DEF warn

\* The fields of a panel of targets.
LEMMA TargetPanelHas ==
  ASSUME NEW stats
  PROVE  TargetPanel(stats).series = TargetSeries /\ TargetPanel(stats).stats = stats
<1>1. TargetPanel(stats) = Made(kind, TargetSeries, stats)
  BY DEF TargetPanel, TargetSeries, Made
<1>2. QED
  BY <1>1, MadeHas

\* A panel without a target is empty.
LEMMA NoTargetHas ==
  ASSUME NEW message
  PROVE  NoTarget(message).series = <<>> /\ NoTarget(message).stats = [k \in {} |-> {}]
<1>1. NoTarget(message) = warn(newPanel(kind), message)
  BY DEF NoTarget
<1>2. newPanel(kind).series = <<>> /\ newPanel(kind).stats = [k \in {} |-> {}]
  BY DEF newPanel
<1>3. QED
  BY <1>1, <1>2, WarnKeeps

\* What a panel of targets has for series.
LEMMA TargetPanels ==
  ASSUME kind \in TargetKinds
  PROVE  panel.series = IF Sets = <<>> THEN <<>> ELSE TargetSeries
<1>1. CASE kind = "targetgroup"
  <2>1. panel = buildTargetGroupPanel
    BY <1>1 DEF panel
  <2>2. \E stats : buildTargetGroupPanel = IF Sets = <<>> THEN NoTarget("no target group") ELSE TargetPanel(stats)
    BY DEF buildTargetGroupPanel
  <2>3. QED
    BY <2>1, <2>2, TargetPanelHas, NoTargetHas
<1>2. CASE kind = "rds-proxy"
  <2>1. panel = buildRDSProxyPanel
    BY <1>2 DEF panel
  <2>2. \E stats : buildRDSProxyPanel = IF Sets = <<>> THEN NoTarget("no proxy") ELSE TargetPanel(stats)
    BY DEF buildRDSProxyPanel
  <2>3. QED
    BY <2>1, <2>2, TargetPanelHas, NoTargetHas
<1>3. CASE kind = "waf-metrics"
  <2>1. panel = buildWAFMetricsPanel
    BY <1>3 DEF panel
  <2>2. \E stats : buildWAFMetricsPanel =
                     IF Sets = <<>> THEN NoTarget("no ACL") ELSE warn(TargetPanel(stats), "logs may differ")
    BY DEF buildWAFMetricsPanel
  <2>3. PICK stats : buildWAFMetricsPanel =
                     IF Sets = <<>> THEN NoTarget("no ACL") ELSE warn(TargetPanel(stats), "logs may differ")
    BY <2>2
  <2>4. warn(TargetPanel(stats), "logs may differ").series = TargetSeries
    <3> DEFINE q == TargetPanel(stats)
    <3>1. q.series = TargetSeries
      BY TargetPanelHas
    <3> HIDE DEF q
    <3>2. warn(q, "logs may differ").series = q.series
      BY WarnKeeps
    <3>3. QED
      BY <3>1, <3>2 DEF q
  <2>5. QED
    BY <2>1, <2>3, <2>4, NoTargetHas
<1>4. QED
  BY <1>1, <1>2, <1>3 DEF TargetKinds

\* A panel without sets has nothing to keep apart.
LEMMA NothingIsApart ==
  ASSUME kind \in Kinds, cfg \in Configs, Sets = <<>>
  PROVE  KeptApart(<<>>)
<1>1. DOMAIN Sets = {} /\ Due = {}
  <2>1. DOMAIN Sets = {}
    OBVIOUS
  <2>2. QED
    BY <2>1, DueAre
<1>2. Shown = {}
  BY <1>1 DEF Shown
<1>3. Cardinality({}) = 0 /\ Len(<<>>) = 0 /\ DOMAIN <<>> = {}
  BY FS_EmptySet
<1>4. \A i, j \in DOMAIN <<>> : i # j => <<>>[i].label # <<>>[j].label
  BY <1>3
<1>5. Len(<<>>) = Cardinality(Shown)
  BY <1>2, <1>3
<1>6. QED
  BY <1>2, <1>4, <1>5 DEF KeptApart

\* A series that stands for two metrics of a set is one of several of it.
LEMMA AloneInSet ==
  ASSUME PanelInv, Fetched, NEW n, AxisOf(n), NEW i \in DOMAIN Specs, NEW j \in DOMAIN Sets,
         NEW x \in About(Specs[i], Sets[j]), NEW y \in About(Specs[i], Sets[j]),
         ~(FoundIn(Specs[i], Sets[j]) > 1)
  PROVE  x = y
<1> DEFINE lines == SetLines(Specs[i], Sets[j])
           D == DueTo(Specs[i], Sets[j], About(Specs[i], Sets[j]))
           N == Len(lines)
<1>1. /\ lines \in Seq(AllTargetLines)
      /\ N = FoundIn(Specs[i], Sets[j])
      /\ Draws(lines, D, AsTarget)
  BY SetIsDrawn
<1>2. PICK f : Drawn(f, lines, D, AsTarget)
  BY <1>1 DEF Draws
<1>3. <<Specs[i], Sets[j], x>> \in D /\ <<Specs[i], Sets[j], y>> \in D
  BY DEF DueTo
<1> HIDE DEF D, lines
<1>4. N \in Nat
  BY <1>1
<1>5. PICK k \in 1..N : f[k] = <<Specs[i], Sets[j], x>>
  BY <1>2, <1>3 DEF Drawn
<1>6. PICK l \in 1..N : f[l] = <<Specs[i], Sets[j], y>>
  BY <1>2, <1>3 DEF Drawn
<1>7. k = l
  <2>1. ~(N > 1)
    BY <1>1
  <2> HIDE DEF N
  <2>2. QED
    BY <1>4, <2>1
<1>8. QED
  BY <1>5, <1>6, <1>7

\* SamplesKeptApart, for the panels of targets: groups, databases and web ACLs.
LEMMA TargetsKeptApart ==
  ASSUME PanelInv, Built, kind \in TargetKinds
  PROVE  KeptApart(panel.series)
<1> DEFINE lines == panel.series
<1>1. kind \in Kinds /\ cfg \in Configs /\ w \in Windows /\ Fetched
  BY DEF PanelInv, Built, Fetched
<1>2. CASE Sets = <<>>
  BY <1>1, <1>2, TargetPanels, NothingIsApart
<1>3. CASE Sets # <<>>
  <2>1. lines = TargetSeries
    BY <1>3, TargetPanels
  <2>2. PICK n : AxisOf(n)
    BY <1>1, AxisExists
  <2>3. TargetSeries \in Seq(AllTargetLines) /\ Draws(TargetSeries, Due, AsTarget)
    BY <1>1, <2>2, TargetsAreDrawn
  <2>4. Shown = Due
    BY DEF Shown, TargetKinds
  <2> HIDE DEF lines
  <2>5. /\ Len(lines) = Cardinality(Shown) /\ DOMAIN lines = 1..Len(lines)
        /\ \A d \in Shown : \E i \in DOMAIN lines : <<lines[i], d>> \in AsTarget
    BY <2>1, <2>3, <2>4, DrawnAreCounted
  <2>6. PICK f : Drawn(f, lines, Due, AsTarget)
    BY <2>1, <2>3 DEF Draws
  <2>7. \A d \in Shown : \E i \in DOMAIN lines :
          /\ lines[i].values = Samples(d[3])
          /\ lines[i].label[1] = d[1].key
          /\ Len(Sets) > 1 => (kind \in TargetKinds => lines[i].label[2] = d[2].label)
    <3> TAKE d \in Shown
    <3>1. PICK i \in DOMAIN lines : <<lines[i], d>> \in AsTarget
      BY <2>5
    <3>2. lines[i] = TargetLine(d)
      BY <3>1 DEF AsTarget
    <3>3. /\ TargetLine(d).values = Samples(d[3])
          /\ TargetLine(d).label = setSeriesLabel(Sets, d[2], d[1], FoundIn(d[1], d[2]), d[3])
      BY DEF TargetLine, Line
    <3>4. /\ TargetLine(d).label[1] = d[1].key
          /\ Len(Sets) > 1 => TargetLine(d).label[2] = d[2].label
      BY <3>3 DEF setSeriesLabel
    <3>5. QED
      BY <3>2, <3>3, <3>4
  <2>8. ASSUME IsInjective([j \in DOMAIN Sets |-> Sets[j].label]),
               NEW i \in DOMAIN lines, NEW j \in DOMAIN lines, lines[i].label = lines[j].label
        PROVE  i = j
    <3> DEFINE d == f[i]
               e == f[j]
               L(x) == setSeriesLabel(Sets, x[2], x[1], FoundIn(x[1], x[2]), x[3])
    <3>1. /\ d \in Due /\ e \in Due
          /\ d = e => i = j
          /\ lines[i] = TargetLine(d) /\ lines[j] = TargetLine(e)
      BY <2>5, <2>6 DEF Drawn, AsTarget
    <3> HIDE DEF d, e
    <3>2. PICK a \in DOMAIN Specs, b \in DOMAIN Sets : \E m \in About(Specs[a], Sets[b]) : d = <<Specs[a], Sets[b], m>>
      BY <3>1, DueAre
    <3>3. PICK x \in About(Specs[a], Sets[b]) : d = <<Specs[a], Sets[b], x>>
      BY <3>2
    <3>4. PICK a1 \in DOMAIN Specs, b1 \in DOMAIN Sets :
            \E m \in About(Specs[a1], Sets[b1]) : e = <<Specs[a1], Sets[b1], m>>
      BY <3>1, DueAre
    <3>5. PICK y \in About(Specs[a1], Sets[b1]) : e = <<Specs[a1], Sets[b1], y>>
      BY <3>4
    <3>6. L(d) = L(e)
      BY <2>8, <3>1 DEF TargetLine, Line
    <3> DEFINE F(s, t) == FoundIn(Specs[s], Sets[t])
    <3>7. /\ L(d) = setSeriesLabel(Sets, Sets[b], Specs[a], F(a, b), x)
          /\ L(e) = setSeriesLabel(Sets, Sets[b1], Specs[a1], F(a1, b1), y)
      BY <3>3, <3>5
    <3> HIDE DEF L, F
    <3>8. /\ Specs[a].key = Specs[a1].key
          /\ Len(Sets) > 1 => Sets[b].label = Sets[b1].label
          /\ (IF F(a, b) > 1 THEN x.label ELSE 0) = (IF F(a1, b1) > 1 THEN y.label ELSE 0)
      <4>1. \A fs, spec, k, m : setSeriesLabel(Sets, fs, spec, k, m) =
              <<spec.key, IF Len(Sets) > 1 THEN fs.label ELSE <<>>, IF k > 1 THEN m.label ELSE 0>>
        BY DEF setSeriesLabel
      <4> DEFINE P(fs) == IF Len(Sets) > 1 THEN fs.label ELSE <<>>
                 M(k, m) == IF k > 1 THEN m.label ELSE 0
      <4>5. \A fs, spec, k, m : setSeriesLabel(Sets, fs, spec, k, m) = <<spec.key, P(fs), M(k, m)>>
        BY <4>1
      <4>6. /\ setSeriesLabel(Sets, Sets[b], Specs[a], F(a, b), x) = <<Specs[a].key, P(Sets[b]), M(F(a, b), x)>>
            /\ setSeriesLabel(Sets, Sets[b1], Specs[a1], F(a1, b1), y)
                 = <<Specs[a1].key, P(Sets[b1]), M(F(a1, b1), y)>>
        <5> HIDE DEF P, M
        <5>1. QED
          BY <4>5
      <4>2. <<Specs[a].key, P(Sets[b]), M(F(a, b), x)>> = <<Specs[a1].key, P(Sets[b1]), M(F(a1, b1), y)>>
        <5> HIDE DEF P, M
        <5>1. QED
          BY <3>6, <3>7, <4>6
      <4> HIDE DEF P, M
      <4>3. Specs[a].key = Specs[a1].key /\ P(Sets[b]) = P(Sets[b1]) /\ M(F(a, b), x) = M(F(a1, b1), y)
        BY <4>2
      <4>4. QED
        BY <4>3 DEF P, M
    <3>9. a = a1
      BY <1>1, <3>8, PlacesApart
    <3>10. b = b1
      <4>1. CASE Len(Sets) > 1
        BY <2>8, <3>8, <4>1 DEF IsInjective
      <4>2. CASE ~(Len(Sets) > 1)
        <5>1. Len(Sets) \in Nat /\ DOMAIN Sets = 1..Len(Sets)
          BY <1>1, SetsAreList, ListsAre
        <5>2. QED
          BY <4>2, <5>1
      <4>3. QED
        BY <4>1, <4>2
    <3>11. x = y
      <4>0. x \in About(Specs[a], Sets[b]) /\ y \in About(Specs[a], Sets[b])
        BY <3>9, <3>10
      <4>1. CASE F(a, b) > 1
        <5>1. x.label = y.label
          BY <3>8, <3>9, <3>10, <4>1
        <5>2. LabelsApart(About(Specs[a], Sets[b]))
          BY <1>1, AllGathered
        <5>3. QED
          BY <4>0, <5>1, <5>2 DEF LabelsApart
      <4>2. CASE ~(F(a, b) > 1)
        BY <1>1, <2>2, <4>0, <4>2, AloneInSet DEF F
      <4>3. QED
        BY <4>1, <4>2
    <3>12. QED
      BY <3>1, <3>3, <3>5, <3>9, <3>10, <3>11
  <2>9. KeptApart(lines)
    BY <2>5, <2>7, <2>8 DEF KeptApart
  <2>10. QED
    BY <2>9 DEF lines
<1>4. QED
  BY <1>2, <1>3

-----------------------------------------------------------------------------
(***************************************************************************)
(* Panels of pods and nodes draw what is shown.                            *)
(***************************************************************************)

\* The panels of pods and nodes.
SubjectKinds == {"pod-cpu", "node-mem"}

\* What buildResourcePanel makes of the specs.
Live ==
  LET list == [i \in DOMAIN Specs |-> ListOf(Specs[i], Sets[1])]
  IN  [i \in DOMAIN Specs |-> sortSeries(dropSilent(list[i]))]

\* The lines made of them, spec by spec.
SubjectLines ==
  [i \in DOMAIN Specs |->
     toSeriesList(Live[i], [j \in DOMAIN Live[i] |-> <<Specs[i].key, <<>>, Live[i][j].label>>],
                  [j \in DOMAIN Live[i] |-> subjectColor(subjectIndex(Live)[i][Live[i][j].label])],
                  variantDash(i - 1))]

\* The series that are not silent are those that have a stamp.
LEMMA LiveGathered ==
  ASSUME NEW list, NEW F \in SUBSET Published, Gathered(w, list, F), LabelsApart(F)
  PROVE  Gathered(w, sortSeries(dropSilent(list)), {m \in F : Stamps(m) # {}})
<1> DEFINE S == dropSilent(list)
           G == {m \in F : \E e \in S : e.label = m.label}
           H == {m \in F : Stamps(m) # {}}
<1>1. PICK g \in [1..Len(list) -> F] :
        /\ \A m \in F : \E i \in 1..Len(list) : g[i] = m
        /\ \A i \in 1..Len(list) : /\ list[i].label = g[i].label
                                   /\ PointsOf(w, list[i].points, g[i], Len(g[i].pieces))
  BY GatheredAre
<1>2. DOMAIN list = 1..Len(list)
  BY GatheredAre
<1>3. \A i \in 1..Len(list) : DOMAIN list[i].points # {} <=> Stamps(g[i]) # {}
  <2> TAKE i \in 1..Len(list)
  <2> DEFINE m == g[i]
  <2>1. PointsOf(w, list[i].points, m, Len(m.pieces)) /\ m \in Published
    BY <1>1
  <2> HIDE DEF m
  <2>2. Stamps(m) = UNION {DOMAIN m.pieces[k] : k \in 1..Len(m.pieces)}
    BY <2>1, StampsAre
  <2>3. DOMAIN list[i].points = UNION {{align(w, t) : t \in DOMAIN m.pieces[k]} : k \in 1..Len(m.pieces)}
    BY <2>1 DEF PointsOf
  <2>4. DOMAIN list[i].points # {} <=> \E k \in 1..Len(m.pieces) : \E t \in DOMAIN m.pieces[k] : TRUE
    <3> DEFINE of(k) == {align(w, t) : t \in DOMAIN m.pieces[k]}
    <3>1. \A k : of(k) # {} <=> \E t \in DOMAIN m.pieces[k] : TRUE
      OBVIOUS
    <3>2. DOMAIN list[i].points = UNION {of(k) : k \in 1..Len(m.pieces)}
      BY <2>3
    <3> HIDE DEF of
    <3>3. DOMAIN list[i].points # {} <=> \E k \in 1..Len(m.pieces) : of(k) # {}
      BY <3>2
    <3>4. QED
      BY <3>1, <3>3
  <2>5. Stamps(m) # {} <=> \E k \in 1..Len(m.pieces) : \E t \in DOMAIN m.pieces[k] : TRUE
    BY <2>2
  <2>6. QED
    BY <2>4, <2>5 DEF m
<1>4. S = {e \in ToSet(list) : DOMAIN e.points # {}}
  BY DEF dropSilent
<1>5. ToSet(list) = {list[i] : i \in 1..Len(list)}
  BY <1>2 DEF ToSet
<1> HIDE DEF S
<1>6. \A m \in F : (\E e \in S : e.label = m.label) <=> Stamps(m) # {}
  <2> TAKE m \in F
  <2>1. PICK i \in 1..Len(list) : g[i] = m
    BY <1>1
  <2>2. ASSUME Stamps(m) # {} PROVE \E e \in S : e.label = m.label
    <3>1. list[i] \in S
      BY <1>3, <1>4, <1>5, <2>1, <2>2
    <3>2. QED
      BY <1>1, <2>1, <3>1
  <2>3. ASSUME NEW e \in S, e.label = m.label PROVE Stamps(m) # {}
    <3>1. PICK j \in 1..Len(list) : e = list[j]
      BY <1>4, <1>5
    <3>2. g[j].label = m.label /\ g[j] \in F
      BY <1>1, <2>3, <3>1
    <3>3. g[j] = m
      BY <3>2 DEF LabelsApart
    <3>4. DOMAIN list[j].points # {}
      BY <1>4, <3>1
    <3>5. QED
      BY <1>3, <3>3, <3>4
  <2>4. QED
    BY <2>2, <2>3
<1>7. G = H
  BY <1>6
<1> HIDE DEF G, H
<1>8. S \in SUBSET ToSet(list)
  BY <1>4
<1>9. Gathered(w, sortSeries(S), G)
  BY <1>8, SortedGathered DEF G
<1>10. QED
  BY <1>7, <1>9 DEF S, H

\* A panel about the cluster has one set, if one is chosen.
LEMMA OneSet ==
  ASSUME kind \in {"pod-cpu", "node-mem", "counts", "pod-status"}
  PROVE  Sets = <<>> \/ (Len(Sets) = 1 /\ DOMAIN Sets = {1} /\ Sets = <<Sets[1]>>)
<1>1. \A d : ClusterSet(cfg, d) = <<>> \/ \E x : ClusterSet(cfg, d) = <<x>>
  BY DEF ClusterSet
<1>2. \E d : Sets = ClusterSet(cfg, d)
  BY DEF Sets, SetsOf
<1>3. QED
  BY <1>1, <1>2

\* The line of a metric in a panel of pods or nodes.
SubjectLine(i, m) ==
  Line(m, <<Specs[i].key, <<>>, m.label>>, subjectColor(subjectIndex(Live)[i][m.label]), variantDash(i - 1))
\* All such lines.
AllSubjectLines == {SubjectLine(i, m) : i \in DOMAIN Specs, m \in Published}
\* A line and the metric it is of.
AsSubject ==
  {q \in AllSubjectLines \X Shown :
     \E i \in DOMAIN Specs : q[2][1] = Specs[i] /\ q[1] = SubjectLine(i, q[2][3])}

\* The lines of one spec are those of its metrics that have samples.
LEMMA SpecOfSubjects ==
  ASSUME PanelInv, Fetched, NEW n, AxisOf(n), kind \in SubjectKinds, Sets # <<>>, NEW i \in DOMAIN Specs
  PROVE  /\ SubjectLines[i] \in Seq(AllSubjectLines)
         /\ Draws(SubjectLines[i], {d \in Shown : d[1] = Specs[i]}, AsSubject)
<1> DEFINE spec == Specs[i]
           fs == Sets[1]
           F == About(spec, fs)
           H == {m \in F : Stamps(m) # {}}
           list == Live[i]
           labels == [j \in DOMAIN list |-> <<spec.key, <<>>, list[j].label>>]
           colors == [j \in DOMAIN list |-> subjectColor(subjectIndex(Live)[i][list[j].label])]
           dash == variantDash(i - 1)
<1>1. 1 \in DOMAIN Sets /\ \A j \in DOMAIN Sets : j = 1
  BY OneSet DEF SubjectKinds
<1>2. Gathered(w, ListOf(spec, fs), F) /\ LabelsApart(F)
  BY <1>1, AllGathered
<1>3. F \in SUBSET Published /\ H \in SUBSET F
  BY DEF About
<1>4. list = sortSeries(dropSilent(ListOf(spec, fs)))
  BY DEF Live
<1>5. DueTo(spec, fs, H) = {d \in Shown : d[1] = Specs[i]}
  <2>1. ASSUME NEW m \in H
        PROVE  <<spec, fs, m>> \in Shown
    <3>1. <<spec, fs, m>> \in Due
      BY <1>1, DueAre
    <3>2. QED
      BY <3>1 DEF Shown, SubjectKinds
  <2>2. ASSUME NEW d \in Shown, d[1] = spec
        PROVE  \E m \in H : d = <<spec, fs, m>>
    <3>1. d \in Due /\ Stamps(d[3]) # {}
      BY DEF Shown, SubjectKinds
    <3>2. PICK k \in DOMAIN Specs, j \in DOMAIN Sets : \E m \in About(Specs[k], Sets[j]) : d = <<Specs[k], Sets[j], m>>
      BY <3>1, DueAre
    <3>3. PICK m \in About(Specs[k], Sets[j]) : d = <<Specs[k], Sets[j], m>>
      BY <3>2
    <3>4. Specs[k] = spec /\ Sets[j] = fs /\ d[3] = m
      BY <1>1, <2>2, <3>3
    <3>5. m \in F /\ Stamps(m) # {}
      BY <3>1, <3>3, <3>4
    <3>6. QED
      BY <3>3, <3>4, <3>5
  <2> HIDE DEF H, fs
  <2>3. QED
    BY <2>1, <2>2 DEF DueTo
<1> HIDE DEF fs, F, list
<1>6. Gathered(w, list, H)
  <2> HIDE DEF spec
  <2>1. QED
    BY <1>2, <1>3, <1>4, LiveGathered
<1>7. LabelsApart(H) /\ H \in SUBSET Published
  BY <1>2, <1>3 DEF LabelsApart
<1>8. \A m \in H : \A j \in DOMAIN list : list[j].label = m.label =>
        /\ Line(m, labels[j], colors[j], dash) \in AllSubjectLines
        /\ <<Line(m, labels[j], colors[j], dash), <<spec, fs, m>>>> \in AsSubject
  <2> TAKE m \in H
  <2> TAKE j \in DOMAIN list
  <2> HAVE list[j].label = m.label
  <2>1. labels[j] = <<spec.key, <<>>, m.label>> /\ colors[j] = subjectColor(subjectIndex(Live)[i][m.label])
    OBVIOUS
  <2> HIDE DEF labels, colors
  <2>2. Line(m, labels[j], colors[j], dash) = SubjectLine(i, m)
    BY <2>1 DEF SubjectLine
  <2>3. m \in Published /\ <<spec, fs, m>> \in DueTo(spec, fs, H)
    BY <1>3 DEF DueTo
  <2>4. SubjectLine(i, m) \in AllSubjectLines
    BY <2>3 DEF AllSubjectLines
  <2>5. <<spec, fs, m>> \in Shown
    BY <1>5, <2>3
  <2>6. <<SubjectLine(i, m), <<spec, fs, m>>>> \in AsSubject
    BY <2>4, <2>5 DEF AsSubject
  <2>7. QED
    BY <2>2, <2>4, <2>6
<1>9. SubjectLines[i] = toSeriesList(list, labels, colors, dash)
  BY DEF SubjectLines, list
<1> HIDE DEF labels, colors, dash, H, spec
<1>10. /\ toSeriesList(list, labels, colors, dash) \in Seq(AllSubjectLines)
       /\ Draws(toSeriesList(list, labels, colors, dash), DueTo(spec, fs, H), AsSubject)
  BY <1>6, <1>7, <1>8, PlottedDraws
<1>11. QED
  BY <1>5, <1>9, <1>10

\* The lines of a panel of pods or nodes.
SubjectSeries == FlattenSeq(SubjectLines)

\* They are those that are shown, each once.
LEMMA SubjectsAreDrawn ==
  ASSUME PanelInv, Fetched, NEW n, AxisOf(n), kind \in SubjectKinds, Sets # <<>>
  PROVE  /\ SubjectSeries \in Seq(AllSubjectLines)
         /\ Draws(SubjectSeries, Shown, AsSubject)
<1> DEFINE N == Len(Specs)
           s == SubjectLines
           D == [i \in DOMAIN Specs |-> {d \in Shown : d[1] = Specs[i]}]
           T == AllSubjectLines
<1>1. N \in Nat /\ DOMAIN Specs = 1..N
  BY SpecsAreList, ListsAre DEF PanelInv
<1>2. \A i \in DOMAIN Specs : s[i] \in Seq(T) /\ Draws(s[i], D[i], AsSubject)
  BY SpecOfSubjects
<1>4. \A i, k \in DOMAIN Specs : i # k => D[i] \cap D[k] = {}
  <2> SUFFICES ASSUME NEW i \in DOMAIN Specs, NEW k \in DOMAIN Specs, NEW d \in Shown, d[1] = Specs[i], d[1] = Specs[k]
               PROVE  i = k
    OBVIOUS
  <2>0. d \in Due
    BY DEF Shown
  <2>1. PICK l \in DOMAIN Sets : TRUE
    BY <2>0, DueAre
  <2>2. Specs[i].key = Specs[k].key
    OBVIOUS
  <2>3. QED
    BY <2>1, <2>2, PlacesApart
<1>5. UNION {D[i] : i \in DOMAIN Specs} = Shown
  <2>0. Shown \in SUBSET Due
    BY DEF Shown
  <2>1. \A d \in Shown : \E i \in DOMAIN Specs : d[1] = Specs[i]
    BY <2>0, DueAre
  <2>2. QED
    BY <2>1
<1>6. s = [i \in 1..N |-> s[i]] /\ DOMAIN s = 1..N
  BY <1>1 DEF SubjectLines
<1> HIDE DEF s, D, N, T
<1>7. s \in Seq(Seq(T)) /\ Len(s) = N
  BY <1>1, <1>2, <1>6, SeqOfFunction
<1>8. /\ FlattenSeq(s) \in Seq(T)
      /\ Draws(FlattenSeq(s), UNION {D[j] : j \in 1..Len(s)}, AsSubject)
  <2>1. \A j \in 1..Len(s) : Draws(s[j], D[j], AsSubject)
    BY <1>1, <1>2, <1>7
  <2>2. \A j, k \in 1..Len(s) : j # k => D[j] \cap D[k] = {}
    BY <1>1, <1>4, <1>7
  <2>3. QED
    BY <1>7, <2>1, <2>2, DrawsFlattened
<1>9. QED
  BY <1>1, <1>5, <1>7, <1>8 DEF T, s, SubjectSeries

\* What a panel of pods or nodes has for series.
LEMMA SubjectPanels ==
  ASSUME kind \in SubjectKinds
  PROVE  panel.series = IF Sets = <<>> THEN <<>> ELSE SubjectSeries
<1>1. panel = buildResourcePanel
  BY DEF panel, SubjectKinds
<1>2. \E stats : LET made == [newPanel(kind) EXCEPT !.series = SubjectSeries, !.stats = stats] IN
        \/ buildResourcePanel = IF Sets = <<>> THEN NoTarget("no cluster") ELSE made
        \/ buildResourcePanel = IF Sets = <<>> THEN NoTarget("no cluster") ELSE warn(made, "no Container Insights")
  BY DEF buildResourcePanel, SubjectSeries, SubjectLines, Live
<1>3. PICK stats : LET made == [newPanel(kind) EXCEPT !.series = SubjectSeries, !.stats = stats] IN
        \/ buildResourcePanel = IF Sets = <<>> THEN NoTarget("no cluster") ELSE made
        \/ buildResourcePanel = IF Sets = <<>> THEN NoTarget("no cluster") ELSE warn(made, "no Container Insights")
  BY <1>2
<1> DEFINE made == [newPanel(kind) EXCEPT !.series = SubjectSeries, !.stats = stats]
<1>4. made.series = SubjectSeries
  BY MadeHas DEF Made
<1>5. \/ buildResourcePanel = IF Sets = <<>> THEN NoTarget("no cluster") ELSE made
      \/ buildResourcePanel = IF Sets = <<>> THEN NoTarget("no cluster") ELSE warn(made, "no Container Insights")
  BY <1>3
<1> HIDE DEF made
<1>6. warn(made, "no Container Insights").series = SubjectSeries
  BY <1>4, WarnKeeps
<1>7. NoTarget("no cluster").series = <<>>
  BY NoTargetHas
<1>8. QED
  BY <1>1, <1>4, <1>5, <1>6, <1>7

\* SamplesKeptApart, for the panels of pods and nodes.
LEMMA SubjectsKeptApart ==
  ASSUME PanelInv, Built, kind \in SubjectKinds
  PROVE  KeptApart(panel.series)
<1> DEFINE lines == panel.series
<1>1. kind \in Kinds /\ cfg \in Configs /\ w \in Windows /\ Fetched
  BY DEF PanelInv, Built, Fetched
<1>2. CASE Sets = <<>>
  BY <1>1, <1>2, SubjectPanels, NothingIsApart
<1>3. CASE Sets # <<>>
  <2>1. lines = SubjectSeries
    BY <1>3, SubjectPanels
  <2>2. PICK n : AxisOf(n)
    BY <1>1, AxisExists
  <2>3. SubjectSeries \in Seq(AllSubjectLines) /\ Draws(SubjectSeries, Shown, AsSubject)
    BY <1>1, <1>3, <2>2, SubjectsAreDrawn
  <2> HIDE DEF lines
  <2>4. /\ Len(lines) = Cardinality(Shown) /\ DOMAIN lines = 1..Len(lines)
        /\ \A d \in Shown : \E i \in DOMAIN lines : <<lines[i], d>> \in AsSubject
    BY <2>1, <2>3, DrawnAreCounted
  <2>5. \A l, d : <<l, d>> \in AsSubject =>
          d \in Shown /\ l.values = Samples(d[3]) /\ l.label = <<d[1].key, <<>>, d[3].label>>
    <3> TAKE l, d
    <3> HAVE <<l, d>> \in AsSubject
    <3>1. d \in Shown /\ \E i \in DOMAIN Specs : d[1] = Specs[i] /\ l = SubjectLine(i, d[3])
      BY DEF AsSubject
    <3>2. PICK i \in DOMAIN Specs : d[1] = Specs[i] /\ l = SubjectLine(i, d[3])
      BY <3>1
    <3>3. \A c, s, b : Line(d[3], b, c, s).values = Samples(d[3]) /\ Line(d[3], b, c, s).label = b
      BY DEF Line
    <3>4. l.values = Samples(d[3]) /\ l.label = <<Specs[i].key, <<>>, d[3].label>>
      BY <3>2, <3>3 DEF SubjectLine
    <3>5. QED
      BY <3>1, <3>2, <3>4
  <2>6. PICK f : Drawn(f, lines, Shown, AsSubject)
    BY <2>1, <2>3 DEF Draws
  <2>7. kind \notin TargetKinds
    BY DEF SubjectKinds, TargetKinds
  <2>8. \A d \in Shown : \E i \in DOMAIN lines : /\ lines[i].values = Samples(d[3])
                                                 /\ lines[i].label[1] = d[1].key
    <3> TAKE d \in Shown
    <3>1. PICK i \in DOMAIN lines : <<lines[i], d>> \in AsSubject
      BY <2>4
    <3>2. QED
      BY <2>5, <3>1
  <2>9. ASSUME NEW i \in DOMAIN lines, NEW j \in DOMAIN lines, lines[i].label = lines[j].label
        PROVE  i = j
    <3> DEFINE d == f[i]
               e == f[j]
    <3>1. /\ <<lines[i], d>> \in AsSubject /\ <<lines[j], e>> \in AsSubject
          /\ d = e => i = j
      BY <2>4, <2>6 DEF Drawn
    <3> HIDE DEF d, e
    <3>2. /\ d \in Shown /\ e \in Shown /\ d[1].key = e[1].key /\ d[3].label = e[3].label
      <4>1. <<d[1].key, <<>>, d[3].label>> = <<e[1].key, <<>>, e[3].label>> /\ d \in Shown /\ e \in Shown
        BY <2>5, <2>9, <3>1
      <4>2. QED
        BY <4>1
    <3>3. d \in Due /\ e \in Due
      BY <3>2 DEF Shown
    <3>4. PICK a \in DOMAIN Specs, b \in DOMAIN Sets : \E m \in About(Specs[a], Sets[b]) : d = <<Specs[a], Sets[b], m>>
      BY <3>3, DueAre
    <3>5. PICK x \in About(Specs[a], Sets[b]) : d = <<Specs[a], Sets[b], x>>
      BY <3>4
    <3>6. PICK a1 \in DOMAIN Specs, b1 \in DOMAIN Sets :
            \E m \in About(Specs[a1], Sets[b1]) : e = <<Specs[a1], Sets[b1], m>>
      BY <3>3, DueAre
    <3>7. PICK y \in About(Specs[a1], Sets[b1]) : e = <<Specs[a1], Sets[b1], y>>
      BY <3>6
    <3>8. Specs[a].key = Specs[a1].key /\ x.label = y.label
      BY <3>2, <3>5, <3>7
    <3>9. a = a1
      BY <1>1, <3>8, PlacesApart
    <3>10. b = b1
      BY <1>3, OneSet DEF SubjectKinds
    <3>11. LabelsApart(About(Specs[a], Sets[b]))
      BY <1>1, AllGathered
    <3>12. y \in About(Specs[a], Sets[b])
      BY <3>9, <3>10
    <3>13. x = y
      BY <3>8, <3>11, <3>12 DEF LabelsApart
    <3>14. QED
      BY <3>1, <3>5, <3>7, <3>9, <3>10, <3>13
  <2>10. KeptApart(lines)
    BY <2>4, <2>7, <2>8, <2>9 DEF KeptApart
  <2>11. QED
    BY <2>10 DEF lines
<1>4. QED
  BY <1>2, <1>3

\* Every metric that CloudWatch holds for a panel gets one line with its own samples, and no
\* other is drawn: pages, chunks and the sorting of the lines mix up no two of them, and
\* labels tell them apart where the labels of the sets do (metrics.ts:146-227,
\* panels-metrics.ts:87-130, 251-432).
THEOREM PanelsKeepSamplesApart == PanelSpec => []SamplesKeptApart
<1>1. PanelInv => SamplesKeptApart
  <2> SUFFICES ASSUME PanelInv, Built, kind \in TargetKinds \cup {"pod-cpu", "node-mem"}
               PROVE  KeptApart(panel.series)
    BY DEF SamplesKeptApart
  <2>1. CASE kind \in TargetKinds
    BY <2>1, TargetsKeptApart
  <2>2. CASE kind \in SubjectKinds
    BY <2>2, SubjectsKeptApart
  <2>3. QED
    BY <2>1, <2>2 DEF SubjectKinds
<1>2. QED
  BY <1>1, SpecPanelInv, PTL

-----------------------------------------------------------------------------
(***************************************************************************)
(* Colours of pods and nodes: each subject has one, of its own.            *)
(***************************************************************************)

\* The labels subjectIndex numbers.
SubjectLabels == UNION {{Live[i][j].label : j \in DOMAIN Live[i]} : i \in DOMAIN Live}

\* They are those of the metrics that are shown.
LEMMA SubjectLabelsAre ==
  ASSUME PanelInv, Fetched, NEW n, AxisOf(n), kind \in SubjectKinds, Sets # <<>>
  PROVE  /\ SubjectLabels = {d[3].label : d \in Shown}
         /\ SubjectLabels \in SUBSET Nat
         /\ IsFiniteSet(SubjectLabels)
<1> DEFINE fs == Sets[1]
           F(i) == About(Specs[i], fs)
           H(i) == {m \in F(i) : Stamps(m) # {}}
<1>1. 1 \in DOMAIN Sets /\ \A j \in DOMAIN Sets : j = 1
  BY OneSet DEF SubjectKinds
<1>2. DOMAIN Live = DOMAIN Specs
  BY DEF Live
<1>3. ASSUME NEW i \in DOMAIN Specs
      PROVE  Gathered(w, Live[i], H(i))
  <2>1. Gathered(w, ListOf(Specs[i], fs), F(i)) /\ LabelsApart(F(i))
    BY <1>1, AllGathered
  <2>2. F(i) \in SUBSET Published
    BY DEF About
  <2>3. Live[i] = sortSeries(dropSilent(ListOf(Specs[i], fs)))
    BY DEF Live
  <2> HIDE DEF fs, F
  <2>4. QED
    BY <2>1, <2>2, <2>3, LiveGathered
<1>4. \A i \in DOMAIN Specs : \A m \in H(i) : <<Specs[i], fs, m>> \in Shown
  <2> TAKE i \in DOMAIN Specs
  <2> TAKE m \in H(i)
  <2>1. <<Specs[i], fs, m>> \in Due
    BY <1>1, DueAre
  <2>2. QED
    BY <2>1 DEF Shown, SubjectKinds
<1>5. \A d \in Shown : \E i \in DOMAIN Specs : d[3] \in H(i)
  <2> TAKE d \in Shown
  <2>1. d \in Due /\ Stamps(d[3]) # {}
    BY DEF Shown, SubjectKinds
  <2>2. PICK k \in DOMAIN Specs, j \in DOMAIN Sets : \E m \in About(Specs[k], Sets[j]) : d = <<Specs[k], Sets[j], m>>
    BY <2>1, DueAre
  <2>3. PICK m \in About(Specs[k], Sets[j]) : d = <<Specs[k], Sets[j], m>>
    BY <2>2
  <2>4. j = 1 /\ d[3] = m
    BY <1>1, <2>3
  <2>5. QED
    BY <2>1, <2>3, <2>4
<1>6. \A i \in DOMAIN Specs : H(i) \in SUBSET Published
  BY DEF About
<1> HIDE DEF H, fs
<1>7. \A i \in DOMAIN Specs : \A j \in DOMAIN Live[i] : \E m \in H(i) : Live[i][j].label = m.label
  BY <1>3 DEF Gathered
<1>8. \A i \in DOMAIN Specs : \A m \in H(i) : \E j \in DOMAIN Live[i] : Live[i][j].label = m.label
  BY <1>3 DEF Gathered
<1>9. SubjectLabels \subseteq {d[3].label : d \in Shown}
  <2> SUFFICES ASSUME NEW i \in DOMAIN Live, NEW j \in DOMAIN Live[i]
               PROVE  \E d \in Shown : d[3].label = Live[i][j].label
    BY DEF SubjectLabels
  <2>1. PICK m \in H(i) : Live[i][j].label = m.label
    BY <1>2, <1>7
  <2>2. <<Specs[i], fs, m>> \in Shown /\ <<Specs[i], fs, m>>[3] = m
    BY <1>2, <1>4
  <2>3. QED
    BY <2>1, <2>2
<1>10. {d[3].label : d \in Shown} \subseteq SubjectLabels
  <2> SUFFICES ASSUME NEW d \in Shown
               PROVE  d[3].label \in SubjectLabels
    OBVIOUS
  <2>1. PICK i \in DOMAIN Specs : d[3] \in H(i)
    BY <1>5
  <2>2. PICK j \in DOMAIN Live[i] : Live[i][j].label = d[3].label
    BY <1>8, <2>1
  <2>3. QED
    BY <1>2, <2>1, <2>2 DEF SubjectLabels
<1>11. \A d \in Shown : d[3].label \in Nat
  <2> TAKE d \in Shown
  <2>1. d[3] \in Published
    BY <1>5, <1>6
  <2>2. QED
    BY <2>1, PiecesAre
<1>12. SubjectLabels = {d[3].label : d \in Shown}
  BY <1>9, <1>10
<1>13. IsFiniteSet(Shown)
  BY SubjectsAreDrawn, DrawnAreCounted
<1>14. IsFiniteSet({d[3].label : d \in Shown})
  <2> DEFINE f == [d \in Shown |-> d[3].label]
  <2>1. {d[3].label : d \in Shown} = {f[d] : d \in Shown} /\ DOMAIN f = Shown
    OBVIOUS
  <2>2. f \in [Shown -> {d[3].label : d \in Shown}]
    OBVIOUS
  <2> HIDE DEF f
  <2>3. f \in Surjection(Shown, {d[3].label : d \in Shown})
    BY <2>1, <2>2 DEF Surjection
  <2>4. QED
    BY <1>13, <2>3, FS_Surjection
<1>15. QED
  BY <1>11, <1>12, <1>14

\* Ten subjects have ten colours.
LEMMA ColoursApart ==
  ASSUME NEW i \in 0..9, NEW j \in 0..9, subjectColor(i) = subjectColor(j)
  PROVE  i = j
<1>1. Len(subjectPalette) = 10
  BY DEF subjectPalette
<1>2. i % 10 = i /\ j % 10 = j
  OBVIOUS
<1>3. subjectPalette[i + 1] = subjectPalette[j + 1]
  BY <1>1, <1>2 DEF subjectColor
<1>4. QED
  BY <1>3 DEF subjectPalette

\* Three metrics have three dashes.
LEMMA DashesApart ==
  ASSUME NEW i \in 1..3, NEW j \in 1..3, variantDash(i - 1) = variantDash(j - 1)
  PROVE  i = j
<1>1. Len(variantDashes) = 3
  BY DEF variantDashes
<1>2. (i - 1) % 3 = i - 1 /\ (j - 1) % 3 = j - 1
  OBVIOUS
<1>3. variantDashes[i] = variantDashes[j]
  BY <1>1, <1>2 DEF variantDash
<1>4. QED
  BY <1>3 DEF variantDashes

\* A panel of pods or nodes has no more than three metrics.
LEMMA FewSpecs ==
  ASSUME kind \in SubjectKinds
  PROVE  DOMAIN Specs \subseteq 1..3
<1>1. ASSUME NEW specs, NEW prefix, NEW K, {i \in DOMAIN specs : IsPrefix(prefix, specs[i].key)} \subseteq K,
             IsFiniteSet(K), Cardinality(K) <= 3
      PROVE  DOMAIN specsWithPrefix(specs, prefix) \subseteq 1..3
  <2> DEFINE kept == {i \in DOMAIN specs : IsPrefix(prefix, specs[i].key)}
  <2>1. DOMAIN specsWithPrefix(specs, prefix) = 1..Cardinality(kept)
    BY DEF specsWithPrefix
  <2>2. kept \subseteq K
    BY <1>1
  <2> HIDE DEF kept
  <2>3. Cardinality(kept) <= Cardinality(K) /\ Cardinality(kept) \in Nat /\ Cardinality(K) \in Nat
    BY <1>1, <2>2, FS_Subset, FS_CardinalityType
  <2>4. QED
    BY <1>1, <2>1, <2>3
<1>2. IsFiniteSet(1..3) /\ Cardinality(1..3) = 3
  <2>1. \A a, b \in Int : IsFiniteSet(a..b) /\ Cardinality(a..b) = IF a > b THEN 0 ELSE b - a + 1
    BY FS_Interval
  <2>2. 1 \in Int /\ 3 \in Int /\ ~(1 > 3) /\ 3 - 1 + 1 = 3
    OBVIOUS
  <2>3. QED
    BY <2>1, <2>2
<1>3. DOMAIN nodeResourceMetrics = 1..3
  BY DEF nodeResourceMetrics
<1>4. DOMAIN specsWithPrefix(nodeResourceMetrics, <<"node", ".", "mem">>) \subseteq 1..3
  BY <1>1, <1>2, <1>3
<1>5. IsFiniteSet({1, 3, 4}) /\ Cardinality({1, 3, 4}) <= 3
  <2>1. IsFiniteSet({}) /\ Cardinality({}) = 0
    BY FS_EmptySet
  <2>2. IsFiniteSet({1}) /\ Cardinality({1}) = 1
    BY FS_Singleton
  <2>3. IsFiniteSet({1} \cup {3}) /\ Cardinality({1} \cup {3}) = 2
    BY <2>2, FS_AddElement
  <2>4. {1} \cup {3} = {1, 3} /\ 4 \notin {1, 3}
    OBVIOUS
  <2>5. {1, 3} \cup {4} = {1, 3, 4}
    BY Zenon
  <2>6. IsFiniteSet({1, 3} \cup {4}) /\ Cardinality({1, 3} \cup {4}) = 3
    BY <2>3, <2>4, FS_AddElement
  <2>7. QED
    BY <2>5, <2>6
<1>6. {i \in DOMAIN podResourceMetrics : IsPrefix(<<"pod", ".", "cpu">>, podResourceMetrics[i].key)} \subseteq {1, 3, 4}
  <2>1. DOMAIN podResourceMetrics = 1..4
    BY DEF podResourceMetrics
  <2>2. podResourceMetrics[2].key = <<"pod", ".">> \o <<"mem">>
    BY DEF podResourceMetrics, MetricSpec
  <2>3. ASSUME NEW key, Len(key) = 3, key[3] = "mem"
        PROVE  ~IsPrefix(<<"pod", ".", "cpu">>, key)
    <3>1. SubSeq(<<"pod", ".", "cpu">>, 1, 3)[3] = "cpu" /\ SubSeq(key, 1, 3)[3] = "mem"
      BY <2>3
    <3>2. Len(<<"pod", ".", "cpu">>) = 3
      OBVIOUS
    <3>3. QED
      BY <3>1, <3>2 DEF IsPrefix
  <2>4. ~IsPrefix(<<"pod", ".", "cpu">>, podResourceMetrics[2].key)
    <3>1. \A a, b, c : Len(<<a, b>> \o <<c>>) = 3 /\ (<<a, b>> \o <<c>>)[3] = c
      OBVIOUS
    <3>2. Len(podResourceMetrics[2].key) = 3 /\ podResourceMetrics[2].key[3] = "mem"
      BY <2>2, <3>1
    <3>3. QED
      BY <2>3, <3>2
  <2>5. QED
    BY <2>1, <2>4
<1>7. DOMAIN specsWithPrefix(podResourceMetrics, <<"pod", ".", "cpu">>) \subseteq 1..3
  BY <1>1, <1>5, <1>6
<1>8. QED
  BY <1>4, <1>7 DEF Specs, SpecsOf, SubjectKinds

\* Subjects of different labels have different colours, where there are enough.
LEMMA SubjectsAreColoured ==
  ASSUME SubjectLabels \in SUBSET Nat, IsFiniteSet(SubjectLabels),
         Cardinality(SubjectLabels) <= Len(subjectPalette),
         NEW i \in DOMAIN Live, NEW j \in DOMAIN Live, NEW l \in SubjectLabels, NEW m \in SubjectLabels
  PROVE  subjectColor(subjectIndex(Live)[i][l]) = subjectColor(subjectIndex(Live)[j][m]) <=> l = m
<1> DEFINE L == SubjectLabels
           Q == {p \in L \X L : p[1] < p[2]}
           at(x) == Cardinality({k \in L : k < x})
<1>1. subjectIndex(Live)[i][l] = at(l) /\ subjectIndex(Live)[j][m] = at(m)
  BY DEF subjectIndex, SubjectLabels
<1>2. StrictOrder(L, Q)
  BY DEF StrictOrder
<1>3. \A x \in L : Before(L, Q, x) = {k \in L : k < x}
  BY DEF Before
<1>4. Len(subjectPalette) = 10
  BY DEF subjectPalette
<1> HIDE DEF L, Q
<1>5. /\ Cardinality(L) \in Nat
      /\ \A x \in L : Cardinality(Before(L, Q, x)) \in 0 .. Cardinality(L) - 1
      /\ \A x, y \in L : Cardinality(Before(L, Q, x)) = Cardinality(Before(L, Q, y)) => x = y
  BY <1>2, RankIsPlace
<1>6. l \in L /\ m \in L /\ Cardinality(L) <= 10
  BY <1>4 DEF L
<1>7. at(l) \in 0 .. Cardinality(L) - 1 /\ at(m) \in 0 .. Cardinality(L) - 1 /\ (at(l) = at(m) => l = m)
  BY <1>3, <1>5, <1>6
<1> HIDE DEF at
<1>8. at(l) \in 0..9 /\ at(m) \in 0..9
  <2>1. \A c \in Nat : \A x \in 0 .. c - 1 : c <= 10 => x \in 0..9
    OBVIOUS
  <2>2. QED
    BY <1>5, <1>6, <1>7, <2>1
<1>9. subjectColor(at(l)) = subjectColor(at(m)) => at(l) = at(m)
  BY <1>8, ColoursApart
<1>10. l = m => at(l) = at(m)
  OBVIOUS
<1>11. QED
  BY <1>1, <1>7, <1>9, <1>10

\* In a panel of pods or nodes a colour stands for one subject and its dash for the metric, as
\* long as the colours suffice; a subject keeps its colour from metric to metric, though each
\* metric sorts and filters its series by itself (catalog.ts:85-93, series.ts:36-45,
\* panels-metrics.ts:318-432).
THEOREM ColoursTellSubjects == PanelSpec => []ColoursTellSubjectsApart
<1>1. ASSUME PanelInv, Built, kind \in {"pod-cpu", "node-mem"},
             Cardinality({panel.series[i].label[3] : i \in DOMAIN panel.series}) <= Len(subjectPalette),
             NEW i \in DOMAIN panel.series, NEW j \in DOMAIN panel.series, i # j
      PROVE  LET lines == panel.series IN
               /\ (lines[i].color = lines[j].color) <=> (lines[i].label[3] = lines[j].label[3])
               /\ lines[i].color # lines[j].color \/ lines[i].dash # lines[j].dash
  <2> DEFINE lines == panel.series
             Labels == {lines[k].label[3] : k \in DOMAIN lines}
  <2>1. kind \in Kinds /\ w \in Windows /\ Fetched /\ kind \in SubjectKinds
    BY <1>1 DEF PanelInv, Built, Fetched, SubjectKinds
  <2>2. Sets # <<>>
    <3> SUFFICES ASSUME Sets = <<>>
                 PROVE  FALSE
      OBVIOUS
    <3>1. panel.series = <<>> /\ DOMAIN <<>> = {}
      BY <2>1, SubjectPanels
    <3>2. QED
      BY <1>1, <3>1
  <2>3. PICK n : AxisOf(n)
    BY <2>1, AxisExists
  <2>4. lines = SubjectSeries
    BY <2>1, <2>2, SubjectPanels
  <2>5. SubjectSeries \in Seq(AllSubjectLines) /\ Draws(SubjectSeries, Shown, AsSubject)
    BY <1>1, <2>1, <2>2, <2>3, SubjectsAreDrawn
  <2>6. i \in DOMAIN lines /\ j \in DOMAIN lines /\ Cardinality(Labels) <= Len(subjectPalette)
    BY <1>1
  <2> HIDE DEF lines
  <2>7. PICK f : Drawn(f, lines, Shown, AsSubject)
    BY <2>4, <2>5 DEF Draws
  <2>8. DOMAIN lines = 1..Len(lines) /\ \A d \in Shown : \E k \in DOMAIN lines : <<lines[k], d>> \in AsSubject
    BY <2>4, <2>5, DrawnAreCounted
  <2>9. \A l, d : <<l, d>> \in AsSubject =>
          /\ d \in Shown /\ l.label[3] = d[3].label
          /\ \E s \in DOMAIN Specs : /\ d[1] = Specs[s]
                                     /\ l.color = subjectColor(subjectIndex(Live)[s][d[3].label])
                                     /\ l.dash = variantDash(s - 1)
    <3> TAKE l, d
    <3> HAVE <<l, d>> \in AsSubject
    <3>1. d \in Shown /\ \E s \in DOMAIN Specs : d[1] = Specs[s] /\ l = SubjectLine(s, d[3])
      BY DEF AsSubject
    <3>2. PICK s \in DOMAIN Specs : d[1] = Specs[s] /\ l = SubjectLine(s, d[3])
      BY <3>1
    <3>3. \A b, c, e : /\ Line(d[3], b, c, e).label = b /\ Line(d[3], b, c, e).color = c
                       /\ Line(d[3], b, c, e).dash = e
      BY DEF Line
    <3>4. /\ l.label = <<Specs[s].key, <<>>, d[3].label>> /\ l.dash = variantDash(s - 1)
          /\ l.color = subjectColor(subjectIndex(Live)[s][d[3].label])
      BY <3>2, <3>3 DEF SubjectLine
    <3>5. l.label[3] = d[3].label
      BY <3>4
    <3>6. QED
      BY <3>1, <3>2, <3>4, <3>5
  <2>10. /\ SubjectLabels = {d[3].label : d \in Shown}
         /\ SubjectLabels \in SUBSET Nat /\ IsFiniteSet(SubjectLabels)
    BY <1>1, <2>1, <2>2, <2>3, SubjectLabelsAre
  <2>11. \A k \in DOMAIN lines : <<lines[k], f[k]>> \in AsSubject
    BY <2>7, <2>8 DEF Drawn
  <2>12. Labels = SubjectLabels
    <3>1. Labels \subseteq SubjectLabels
      <4> SUFFICES ASSUME NEW k \in DOMAIN lines
                   PROVE  lines[k].label[3] \in SubjectLabels
        OBVIOUS
      <4>1. <<lines[k], f[k]>> \in AsSubject
        BY <2>11
      <4>2. f[k] \in Shown /\ lines[k].label[3] = f[k][3].label
        BY <2>9, <4>1
      <4>3. QED
        BY <2>10, <4>2
    <3>2. \A d \in Shown : d[3].label \in Labels
      <4> TAKE d \in Shown
      <4>1. PICK k \in DOMAIN lines : <<lines[k], d>> \in AsSubject
        BY <2>8
      <4>2. lines[k].label[3] = d[3].label
        BY <2>9, <4>1
      <4>3. QED
        BY <4>1, <4>2
    <3>3. SubjectLabels \subseteq Labels
      BY <2>10, <3>2
    <3>4. QED
      BY <3>1, <3>3
  <2> DEFINE d == f[i]
             e == f[j]
  <2>13. <<lines[i], d>> \in AsSubject /\ <<lines[j], e>> \in AsSubject /\ d # e
    BY <1>1, <2>6, <2>7, <2>8, <2>11 DEF Drawn
  <2> HIDE DEF d, e, Labels
  <2>14. PICK s \in DOMAIN Specs : /\ d[1] = Specs[s]
                                   /\ lines[i].color = subjectColor(subjectIndex(Live)[s][d[3].label])
                                   /\ lines[i].dash = variantDash(s - 1)
    BY <2>9, <2>13
  <2>15. PICK t \in DOMAIN Specs : /\ e[1] = Specs[t]
                                   /\ lines[j].color = subjectColor(subjectIndex(Live)[t][e[3].label])
                                   /\ lines[j].dash = variantDash(t - 1)
    BY <2>9, <2>13
  <2>16. /\ d \in Shown /\ e \in Shown
         /\ lines[i].label[3] = d[3].label /\ lines[j].label[3] = e[3].label
         /\ d[3].label \in SubjectLabels /\ e[3].label \in SubjectLabels
    BY <2>9, <2>10, <2>13
  <2>17. s \in DOMAIN Live /\ t \in DOMAIN Live
    BY DEF Live
  <2>18. (lines[i].color = lines[j].color) <=> (d[3].label = e[3].label)
    <3>1. Cardinality(SubjectLabels) <= Len(subjectPalette)
      BY <2>6, <2>12
    <3>2. \A l, m \in SubjectLabels :
            subjectColor(subjectIndex(Live)[s][l]) = subjectColor(subjectIndex(Live)[t][m]) <=> l = m
      BY <2>10, <2>17, <3>1, SubjectsAreColoured
    <3>3. subjectColor(subjectIndex(Live)[s][d[3].label]) = subjectColor(subjectIndex(Live)[t][e[3].label])
            <=> d[3].label = e[3].label
      BY <2>16, <3>2
    <3>4. QED
      BY <2>14, <2>15, <3>3
  <2>19. ASSUME d[3].label = e[3].label, variantDash(s - 1) = variantDash(t - 1)
         PROVE  FALSE
    <3>1. s = t
      BY <2>1, <2>19, FewSpecs, DashesApart
    <3>2. d \in Due /\ e \in Due
      BY <2>16 DEF Shown
    <3>3. PICK a \in DOMAIN Specs, b \in DOMAIN Sets : \E m \in About(Specs[a], Sets[b]) : d = <<Specs[a], Sets[b], m>>
      BY <3>2, DueAre
    <3>4. PICK x \in About(Specs[a], Sets[b]) : d = <<Specs[a], Sets[b], x>>
      BY <3>3
    <3>5. PICK a1 \in DOMAIN Specs, b1 \in DOMAIN Sets :
            \E m \in About(Specs[a1], Sets[b1]) : e = <<Specs[a1], Sets[b1], m>>
      BY <3>2, DueAre
    <3>6. PICK y \in About(Specs[a1], Sets[b1]) : e = <<Specs[a1], Sets[b1], y>>
      BY <3>5
    <3>7. Specs[a] = Specs[a1] /\ x.label = y.label
      BY <2>14, <2>15, <2>19, <3>1, <3>4, <3>6
    <3>8. b = b1
      BY <2>1, <2>2, OneSet DEF SubjectKinds
    <3>9. LabelsApart(About(Specs[a], Sets[b]))
      BY <1>1, <2>1, AllGathered
    <3>10. y \in About(Specs[a], Sets[b])
      BY <3>7, <3>8
    <3>11. x = y
      BY <3>7, <3>9, <3>10 DEF LabelsApart
    <3>12. QED
      BY <2>13, <3>4, <3>6, <3>7, <3>8, <3>11
  <2>20. lines[i].color # lines[j].color \/ lines[i].dash # lines[j].dash
    BY <2>14, <2>15, <2>18, <2>19
  <2>21. QED
    BY <2>16, <2>18, <2>20 DEF lines
<1>2. PanelInv => ColoursTellSubjectsApart
  BY <1>1 DEF ColoursTellSubjectsApart, ColouredApart
<1>3. QED
  BY <1>2, SpecPanelInv, PTL

-----------------------------------------------------------------------------
(***************************************************************************)
(* Numbers: the sums and maxima of lines are those of the samples.         *)
(***************************************************************************)

\* The numbers of the samples of some series, and their sum.
ValuesOf(D) == UNION {{Samples(d[3])[i] : i \in DOMAIN Samples(d[3])} : d \in D}
TotalOf(D) == SumFunction([d \in D |-> SumFunction(Samples(d[3]))])

\* A list of lines that have the samples of D.
Lined(list, D, f) ==
  /\ Len(list) \in Nat /\ DOMAIN list = 1..Len(list)
  /\ IsFiniteSet(D)
  /\ \A d \in D : Numbers(Samples(d[3]), DOMAIN Samples(d[3]))
  /\ f \in [1..Len(list) -> D]
  /\ \A i, j \in 1..Len(list) : f[i] = f[j] => i = j
  /\ \A d \in D : \E i \in 1..Len(list) : f[i] = d
  /\ \A i \in 1..Len(list) : list[i].values = Samples(f[i][3])

\* There are samples where a line has a value.
LEMMA ValuesAreKnown ==
  ASSUME NEW list, NEW D, NEW f, Lined(list, D, f)
  PROVE  /\ \A i \in DOMAIN list : Image(list[i]) # {} <=> DOMAIN list[i].values # {}
         /\ ValuesOf(D) = {} <=> \A i \in DOMAIN list : DOMAIN list[i].values = {}
<1>1. \A i \in DOMAIN list : Image(list[i]) # {} <=> DOMAIN list[i].values # {}
  BY DEF Image
<1>2. ValuesOf(D) = {} <=> \A d \in D : DOMAIN Samples(d[3]) = {}
  <2> DEFINE of(d) == {Samples(d[3])[i] : i \in DOMAIN Samples(d[3])}
  <2>1. \A d \in D : of(d) = {} <=> DOMAIN Samples(d[3]) = {}
    OBVIOUS
  <2>2. ValuesOf(D) = UNION {of(d) : d \in D}
    BY DEF ValuesOf
  <2> HIDE DEF of
  <2>3. ValuesOf(D) = {} <=> \A d \in D : of(d) = {}
    BY <2>2
  <2>4. QED
    BY <2>1, <2>3
<1>3. (\A d \in D : DOMAIN Samples(d[3]) = {}) <=> \A i \in DOMAIN list : DOMAIN list[i].values = {}
  <2>1. /\ DOMAIN list = 1..Len(list)
        /\ \A i \in 1..Len(list) : f[i] \in D /\ list[i].values = Samples(f[i][3])
        /\ \A d \in D : \E i \in 1..Len(list) : f[i] = d
    BY DEF Lined
  <2>2. ASSUME \A d \in D : DOMAIN Samples(d[3]) = {}, NEW i \in DOMAIN list PROVE DOMAIN list[i].values = {}
    <3>1. f[i] \in D /\ list[i].values = Samples(f[i][3])
      BY <2>1
    <3>2. QED
      BY <2>2, <3>1
  <2>3. ASSUME \A i \in DOMAIN list : DOMAIN list[i].values = {}, NEW d \in D PROVE DOMAIN Samples(d[3]) = {}
    <3>1. PICK i \in 1..Len(list) : f[i] = d
      BY <2>1
    <3>2. DOMAIN list[i].values = {} /\ list[i].values = Samples(d[3])
      BY <2>1, <2>3, <3>1
    <3>3. QED
      BY <3>2
  <2>4. QED
    BY <2>2, <2>3
<1>4. QED
  BY <1>1, <1>2, <1>3

\* The sums of lines, added up, are the sum of the samples.
LEMMA SumsOfLines ==
  ASSUME NEW list, NEW D, NEW f, Lined(list, D, f)
  PROVE  reduceAcross(SumOfEach(list), "add") = IF ValuesOf(D) = {} THEN {} ELSE {TotalOf(D)}
<1> DEFINE N == Len(list)
           points == SumOfEach(list)
           known == {i \in DOMAIN points : points[i] # {}}
           number == [i \in known |-> The(points[i])]
           A == [d \in D |-> SumFunction(Samples(d[3]))]
           Z == {d \in D : DOMAIN Samples(d[3]) # {}}
           p == [i \in known |-> f[i]]
<1>1. /\ N \in Nat /\ DOMAIN list = 1..N
      /\ IsFiniteSet(D)
      /\ \A d \in D : Numbers(Samples(d[3]), DOMAIN Samples(d[3]))
      /\ f \in [1..N -> D]
      /\ \A i, j \in 1..N : f[i] = f[j] => i = j
      /\ \A d \in D : \E i \in 1..N : f[i] = d
      /\ \A i \in 1..N : list[i].values = Samples(f[i][3])
  BY DEF Lined
<1>2. DOMAIN points = 1..N /\ \A i \in 1..N : points[i] = SeriesSum(list[i])
  BY <1>1 DEF SumOfEach
<1>3. \A i \in 1..N : points[i] = IF DOMAIN list[i].values = {} THEN {} ELSE {SumFunction(list[i].values)}
  BY <1>1, <1>2, ValuesAreKnown DEF SeriesSum
<1>4. known = {i \in 1..N : DOMAIN list[i].values # {}}
  BY <1>2, <1>3
<1>5. \A x : The({x}) = x
  BY DEF The
<1>6. \A i \in known : number[i] = SumFunction(list[i].values)
  BY <1>3, <1>4, <1>5
<1>7. reduceAcross(points, "add") = IF known = {} THEN {} ELSE {SumFunction(number)}
  BY DEF reduceAcross
<1>8. SumFunction(number) = Sum(number, known)
  BY DEF SumFunction, Sum
<1> HIDE DEF N, points, number
<1>9. known = {} <=> ValuesOf(D) = {}
  BY <1>1, <1>4, ValuesAreKnown
<1>10. TotalOf(D) = Sum(A, D)
  BY DEF TotalOf, SumFunction, Sum
<1>11. \A d \in D : A[d] = Sum(Samples(d[3]), DOMAIN Samples(d[3]))
  BY DEF SumFunction, Sum
<1> HIDE DEF A
<1>12. \A d \in D : A[d] \in Int /\ (DOMAIN Samples(d[3]) = {} => A[d] = 0)
  <2> TAKE d \in D
  <2>1. AddsUp(Samples(d[3]), DOMAIN Samples(d[3]))
    BY <1>1, SumsAddUp
  <2>2. QED
    BY <1>11, <2>1 DEF AddsUp
<1>13. Numbers(A, D)
  BY <1>1, <1>12 DEF Numbers
<1>14. Sum(A, D) = Sum(A, Z)
  <2>1. Z \in SUBSET D /\ \A d \in D \ Z : A[d] = 0
    BY <1>12
  <2> HIDE DEF Z
  <2>2. QED
    BY <1>13, <2>1, SumOfKnown
<1>15. \A i \in known : i \in 1..N /\ f[i] \in Z /\ number[i] = A[f[i]]
  <2> TAKE i \in known
  <2>1. i \in 1..N /\ DOMAIN list[i].values # {}
    BY <1>4
  <2>2. f[i] \in D /\ list[i].values = Samples(f[i][3])
    BY <1>1, <2>1
  <2>3. A[f[i]] = SumFunction(Samples(f[i][3]))
    BY <2>2 DEF A
  <2>4. QED
    BY <1>6, <2>1, <2>2, <2>3
<1>16. \A d \in Z : \E i \in known : f[i] = d
  <2> TAKE d \in Z
  <2>1. PICK i \in 1..N : f[i] = d
    BY <1>1
  <2>2. i \in known
    BY <1>1, <1>4, <2>1
  <2>3. QED
    BY <2>1, <2>2
<1> HIDE DEF known
<1>17. /\ p \in [known -> Z]
       /\ \A i, j \in known : p[i] = p[j] => i = j
       /\ \A d \in Z : \E i \in known : p[i] = d
       /\ \A i \in known : number[i] = A[p[i]]
  BY <1>1, <1>15, <1>16
<1> HIDE DEF p
<1>18. Numbers(A, Z)
  <2>1. Z \in SUBSET D
    OBVIOUS
  <2> HIDE DEF Z
  <2>2. IsFiniteSet(Z)
    BY <1>1, <2>1, FS_Subset
  <2>3. QED
    BY <1>12, <2>1, <2>2 DEF Numbers
<1>19. Numbers(number, known)
  <2>1. IsFiniteSet(1..N) /\ known \in SUBSET (1..N)
    BY <1>1, <1>15, FS_Interval
  <2>2. IsFiniteSet(known)
    BY <2>1, FS_Subset
  <2>3. \A i \in known : number[i] \in Int
    BY <1>12, <1>15
  <2>4. QED
    BY <2>2, <2>3 DEF Numbers
<1> HIDE DEF Z
<1>20. Sum(number, known) = Sum(A, Z)
  BY <1>17, <1>18, <1>19, SumReindexed
<1>21. QED
  BY <1>7, <1>8, <1>9, <1>10, <1>14, <1>20 DEF points

\* The largest of the lines are the largest of the samples.
LEMMA MaxOfLines ==
  ASSUME NEW list, NEW D, NEW f, Lined(list, D, f)
  PROVE  reduceAcross(MaxOfEach(list), "max") = IF ValuesOf(D) = {} THEN {} ELSE {Max(ValuesOf(D))}
<1> DEFINE N == Len(list)
           points == MaxOfEach(list)
           known == {i \in DOMAIN points : points[i] # {}}
           number == [i \in known |-> The(points[i])]
           image == {number[i] : i \in known}
           V == ValuesOf(D)
<1>1. /\ N \in Nat /\ DOMAIN list = 1..N
      /\ \A d \in D : Numbers(Samples(d[3]), DOMAIN Samples(d[3]))
      /\ f \in [1..N -> D]
      /\ \A d \in D : \E i \in 1..N : f[i] = d
      /\ \A i \in 1..N : list[i].values = Samples(f[i][3])
  BY DEF Lined
<1>2. DOMAIN points = 1..N /\ \A i \in 1..N : points[i] = SeriesMax(list[i])
  BY <1>1 DEF MaxOfEach
<1>3. \A i \in 1..N :
        /\ (DOMAIN list[i].values = {}) => points[i] = {}
        /\ (DOMAIN list[i].values # {}) => \E x \in Int : /\ points[i] = {x}
                                                          /\ \E k \in DOMAIN list[i].values : x = list[i].values[k]
                                                          /\ \A k \in DOMAIN list[i].values : list[i].values[k] <= x
  <2> TAKE i \in 1..N
  <2>1. Numbers(list[i].values, DOMAIN list[i].values) /\ points[i] = SeriesMax(list[i])
    BY <1>1, <1>2
  <2> HIDE DEF points, N
  <2>2. QED
    BY <2>1, MaxOfLine
<1>4. reduceAcross(points, "max") = IF known = {} THEN {} ELSE {Max(image)}
  BY DEF reduceAcross
<1>5. \A x : The({x}) = x
  BY DEF The
<1> HIDE DEF N, points
<1>6. known = {i \in 1..N : DOMAIN list[i].values # {}}
  BY <1>2, <1>3
<1>7. known = {} <=> V = {}
  BY <1>1, <1>6, ValuesAreKnown
<1>8. \A i \in known : /\ number[i] \in Int
                       /\ \E k \in DOMAIN list[i].values : number[i] = list[i].values[k]
                       /\ \A k \in DOMAIN list[i].values : list[i].values[k] <= number[i]
  BY <1>3, <1>5, <1>6
<1>9. \A v \in V : v \in Int /\ \E i \in known : v <= number[i]
  <2> TAKE v \in V
  <2>1. PICK d \in D : \E k \in DOMAIN Samples(d[3]) : v = Samples(d[3])[k]
    BY DEF ValuesOf
  <2>2. PICK k \in DOMAIN Samples(d[3]) : v = Samples(d[3])[k]
    BY <2>1
  <2>3. PICK i \in 1..N : f[i] = d
    BY <1>1
  <2>4. list[i].values = Samples(d[3]) /\ i \in known
    BY <1>1, <1>6, <2>2, <2>3
  <2>5. v <= number[i]
    BY <1>8, <2>2, <2>4
  <2>6. v \in Int
    BY <1>1, <2>2 DEF Numbers
  <2>7. QED
    BY <2>4, <2>5, <2>6
<1>10. \A i \in known : number[i] \in V
  <2> TAKE i \in known
  <2>1. PICK k \in DOMAIN list[i].values : number[i] = list[i].values[k]
    BY <1>8
  <2>2. i \in 1..N
    BY <1>6
  <2>3. f[i] \in D /\ list[i].values = Samples(f[i][3])
    BY <1>1, <2>2
  <2>4. number[i] \in {Samples(f[i][3])[l] : l \in DOMAIN Samples(f[i][3])}
    BY <2>1, <2>3
  <2> HIDE DEF number
  <2>5. QED
    BY <2>3, <2>4 DEF ValuesOf
<1>11. ASSUME known # {}
       PROVE  Max(image) = Max(V)
  <2>1. image \in SUBSET Int /\ image # {}
    BY <1>8, <1>11
  <2>2. IsFiniteSet(image)
    <3>1. IsFiniteSet(1..N) /\ known \in SUBSET (1..N)
      BY <1>1, <1>6, FS_Interval
    <3> HIDE DEF known
    <3>2. IsFiniteSet(known)
      BY <3>1, FS_Subset
    <3>3. number \in Surjection(known, image)
      BY DEF Surjection
    <3> HIDE DEF number, image
    <3>4. QED
      BY <3>2, <3>3, FS_Surjection
  <2> DEFINE g == Max(image)
  <2>3. g \in image /\ \A x \in image : x <= g
    <3> HIDE DEF image
    <3>1. QED
      BY <2>1, <2>2, OneIsGreatest
  <2>4. \A i \in known : number[i] <= g
    BY <2>3
  <2>5. g \in V
    <3>1. PICK i \in known : g = number[i]
      BY <2>3
    <3> HIDE DEF g, number, known, V
    <3>2. QED
      BY <1>10, <3>1
  <2>6. g \in Int
    BY <2>1, <2>3
  <2>7. \A v \in V : v <= g
    <3> HIDE DEF g, number, known, V
    <3>1. QED
      BY <1>8, <1>9, <2>4, <2>6
  <2>8. V \in SUBSET Int
    BY <1>9
  <2> HIDE DEF g, V
  <2>9. Max(V) = g
    BY <2>5, <2>7, <2>8, GreatestIs
  <2>10. QED
    BY <2>9 DEF g
<1>12. QED
  BY <1>4, <1>7, <1>11 DEF points, V

\* Lines that are drawn have the samples of what they are drawn for.
LEMMA LinedOfDraws ==
  ASSUME NEW U, NEW list \in Seq(U), NEW D \in SUBSET Due, NEW R, Draws(list, D, R), NEW n, AxisOf(n),
         \A l : \A d \in D : <<l, d>> \in R => l.values = Samples(d[3])
  PROVE  \E f : Lined(list, D, f)
<1>1. PICK f : Drawn(f, list, D, R)
  BY DEF Draws
<1>2. IsFiniteSet(D) /\ DOMAIN list = 1..Len(list) /\ Len(list) \in Nat
  BY DrawnAreCounted
<1>3. \A d \in D : Numbers(Samples(d[3]), DOMAIN Samples(d[3]))
  <2> TAKE d \in D
  <2>1. PICK i \in DOMAIN Specs, j \in DOMAIN Sets : \E m \in About(Specs[i], Sets[j]) : d = <<Specs[i], Sets[j], m>>
    BY DueAre
  <2>2. PICK m \in About(Specs[i], Sets[j]) : d = <<Specs[i], Sets[j], m>>
    BY <2>1
  <2>3. m \in Published /\ d[3] = m
    BY <2>2 DEF About
  <2>4. Numbers(Samples(m), DOMAIN Samples(m))
    BY <2>3, SamplesAreNumbers
  <2>5. QED
    BY <2>3, <2>4
<1>4. \A i \in 1..Len(list) : list[i].values = Samples(f[i][3])
  BY <1>1 DEF Drawn
<1>5. Lined(list, D, f)
  BY <1>1, <1>2, <1>3, <1>4 DEF Drawn, Lined
<1>6. QED
  BY <1>5

\* The lines due to the specs of a name.
DueNamed(name) == {d \in Due : d[1].key[3] = name}

\* Each name of a headline is that of one spec.
NamesOf ==
  CASE kind = "targetgroup" -> {"p99", "4xx", "5xx", "requests"}
    [] kind = "rds-proxy"   -> {"db", "client", "pinned", "max"}
    [] kind = "waf-metrics" -> {"allowed", "blocked"}
    [] kind = "pod-status"  -> {"restarts"}

\* One spec, and no other, has the name.
OneNamed(name) ==
  \E i \in DOMAIN Specs : Specs[i].key[3] = name /\ \A k \in DOMAIN Specs : Specs[k].key[3] = name => k = i

\* The specs of a panel have different names.
LEMMA NamesAreOfSpecs ==
  ASSUME kind \in TargetKinds \cup {"pod-status"}, NEW name \in NamesOf
  PROVE  OneNamed(name)
<1>1. CASE kind = "targetgroup"
  <2>1. /\ DOMAIN targetGroupMetrics = 1..7
        /\ \A k \in 1..7 : targetGroupMetrics[k].key[3] =
             <<"p50", "p90", "p99", "4xx", "5xx", "requests", "healthy">>[k]
    BY DEF targetGroupMetrics, MetricSpec
  <2>2. Specs = targetGroupMetrics
    BY <1>1 DEF Specs, SpecsOf
  <2>3. name \in {"p99", "4xx", "5xx", "requests"}
    BY <1>1 DEF NamesOf
  <2>4. QED
    BY <2>1, <2>2, <2>3 DEF OneNamed
<1>2. CASE kind = "rds-proxy"
  <2>1. /\ DOMAIN rdsProxyMetrics = 1..5
        /\ \A k \in 1..5 : rdsProxyMetrics[k].key[3] = <<"db", "client", "pinned", "borrow", "max">>[k]
    BY DEF rdsProxyMetrics, MetricSpec
  <2>2. Specs = rdsProxyMetrics
    BY <1>2 DEF Specs, SpecsOf
  <2>3. name \in {"db", "client", "pinned", "max"}
    BY <1>2 DEF NamesOf
  <2>4. QED
    BY <2>1, <2>2, <2>3 DEF OneNamed
<1>3. CASE kind = "waf-metrics"
  <2>1. /\ DOMAIN wafMetrics = 1..3
        /\ \A k \in 1..3 : wafMetrics[k].key[3] = <<"allowed", "blocked", "counted">>[k]
    BY DEF wafMetrics, MetricSpec
  <2>2. Specs = wafMetrics
    BY <1>3 DEF Specs, SpecsOf
  <2>3. name \in {"allowed", "blocked"}
    BY <1>3 DEF NamesOf
  <2>4. QED
    BY <2>1, <2>2, <2>3 DEF OneNamed
<1>4. CASE kind = "pod-status"
  <2>1. /\ DOMAIN podStatusMetrics = 1..4
        /\ \A k \in 1..4 : podStatusMetrics[k].key[3] = <<"running", "pending", "failed", "restarts">>[k]
    BY DEF podStatusMetrics, MetricSpec
  <2>2. Specs = podStatusMetrics
    BY <1>4 DEF Specs, SpecsOf
  <2>3. name = "restarts"
    BY <1>4 DEF NamesOf
  <2>4. QED
    BY <2>1, <2>2, <2>3 DEF OneNamed
<1>5. QED
  BY <1>1, <1>2, <1>3, <1>4 DEF TargetKinds

\* The lines a headline is about are those of the metrics with its name.
LEMMA NamedAreLined ==
  ASSUME PanelInv, Fetched, NEW n, AxisOf(n), kind \in TargetKinds, NEW name \in NamesOf
  PROVE  \E f : Lined(Of(name), DueNamed(name), f)
<1>1. PICK i \in DOMAIN Specs : Specs[i].key[3] = name /\ \A k \in DOMAIN Specs : Specs[k].key[3] = name => k = i
  BY NamesAreOfSpecs DEF OneNamed
<1>2. {s \in ToSet(Specs) : s.key[3] = name} = {Specs[i]}
  BY <1>1 DEF ToSet
<1>3. Of(name) = TargetLines(Specs[i])
  <2>1. The({Specs[i]}) = Specs[i]
    BY DEF The
  <2>2. QED
    BY <1>2, <2>1 DEF Of
<1>4. DueNamed(name) = DueOf(Specs[i])
  <2>1. \A d \in Due : d[1].key[3] = name <=> d[1] = Specs[i]
    <3> TAKE d \in Due
    <3>1. PICK k \in DOMAIN Specs : d[1] = Specs[k]
      BY DueAre
    <3>2. QED
      BY <1>1, <3>1
  <2>2. QED
    BY <2>1 DEF DueNamed, DueOf
<1>5. /\ TargetLines(Specs[i]) \in Seq(AllTargetLines)
      /\ Draws(TargetLines(Specs[i]), DueOf(Specs[i]), AsTarget)
  BY SpecIsDrawn
<1>6. \A l : \A d \in DueOf(Specs[i]) : <<l, d>> \in AsTarget => l.values = Samples(d[3])
  BY DEF AsTarget, TargetLine, Line
<1>7. DueOf(Specs[i]) \in SUBSET Due
  BY DEF DueOf
<1>8. QED
  BY <1>3, <1>4, <1>5, <1>6, <1>7, LinedOfDraws

-----------------------------------------------------------------------------
(***************************************************************************)
(* The numbers over each kind of panel.                                    *)
(***************************************************************************)

\* The numbers a panel of targets has, as they are made of its lines.
FromLines(k, v) ==
  \/ k[2] = "total" /\ k[1] \in NamesOf /\ v = reduceAcross(SumOfEach(Of(k[1])), "add")
  \/ k[2] = "max" /\ k[1] \in NamesOf /\ v = reduceAcross(MaxOfEach(Of(k[1])), "max")
  \/ k[2] \notin {"total", "max", "now"}

\* The numbers of a target group.
LEMMA TargetGroupStats ==
  ASSUME kind = "targetgroup"
  PROVE  \A k \in DOMAIN panel.stats : FromLines(k, panel.stats[k])
<1> DEFINE keys == {<<"p99", "max">>, <<"4xx", "total">>, <<"5xx", "total">>, <<"requests", "total">>}
           stats == [k \in keys |-> IF k[2] = "max" THEN reduceAcross(MaxOfEach(Of(k[1])), "max")
                                    ELSE reduceAcross(SumOfEach(Of(k[1])), "add")]
<1>1. panel = buildTargetGroupPanel
  BY DEF panel
<1>2. buildTargetGroupPanel = IF Sets = <<>> THEN NoTarget("no target group") ELSE TargetPanel(stats)
  BY DEF buildTargetGroupPanel
<1>3. \A k \in keys : /\ k[2] = "max" => k[1] \in NamesOf
                      /\ k[2] # "max" => k[2] = "total" /\ k[1] \in NamesOf
  BY DEF NamesOf
<1>4. DOMAIN stats = keys /\ \A k \in keys :
        stats[k] = IF k[2] = "max" THEN reduceAcross(MaxOfEach(Of(k[1])), "max")
                   ELSE reduceAcross(SumOfEach(Of(k[1])), "add")
  OBVIOUS
<1> HIDE DEF keys, stats
<1>5. panel.stats = [k \in {} |-> {}] \/ panel.stats = stats
  BY <1>1, <1>2, TargetPanelHas, NoTargetHas
<1>6. \A k \in DOMAIN stats : FromLines(k, stats[k])
  BY <1>3, <1>4 DEF FromLines
<1>7. QED
  BY <1>5, <1>6

\* The numbers of a database and its proxy.
LEMMA RDSProxyStats ==
  ASSUME kind = "rds-proxy"
  PROVE  \A k \in DOMAIN panel.stats : FromLines(k, panel.stats[k])
<1> DEFINE keys == {<<"db", "current">>, <<"db", "max">>, <<"client", "current">>, <<"pinned", "max">>,
                    <<"max", "max">>}
           stats == [k \in keys |-> IF k[2] = "current" THEN reduceAcross(LastOfEach(Of(k[1])), "add")
                                    ELSE reduceAcross(MaxOfEach(Of(k[1])), "max")]
<1>1. panel = buildRDSProxyPanel
  BY DEF panel
<1>2. buildRDSProxyPanel = IF Sets = <<>> THEN NoTarget("no proxy") ELSE TargetPanel(stats)
  BY DEF buildRDSProxyPanel
<1>3. \A k \in keys : k[2] # "current" => k[2] = "max" /\ k[1] \in NamesOf
  BY DEF NamesOf
<1>4. DOMAIN stats = keys /\ \A k \in keys :
        stats[k] = IF k[2] = "current" THEN reduceAcross(LastOfEach(Of(k[1])), "add")
                   ELSE reduceAcross(MaxOfEach(Of(k[1])), "max")
  OBVIOUS
<1> HIDE DEF keys, stats
<1>5. panel.stats = [k \in {} |-> {}] \/ panel.stats = stats
  BY <1>1, <1>2, TargetPanelHas, NoTargetHas
<1>6. \A k \in DOMAIN stats : FromLines(k, stats[k])
  BY <1>3, <1>4 DEF FromLines
<1>7. QED
  BY <1>5, <1>6

\* The numbers of a web ACL.
LEMMA WafStats ==
  ASSUME kind = "waf-metrics"
  PROVE  \A k \in DOMAIN panel.stats : FromLines(k, panel.stats[k])
<1> DEFINE allowed == reduceAcross(SumOfEach(Of("allowed")), "add")
           blocked == reduceAcross(SumOfEach(Of("blocked")), "add")
           known == allowed # {} /\ blocked # {} /\ The(allowed) + The(blocked) > 0
           counts == {<<"allowed", "total">>, <<"blocked", "total">>}
           rate == IF known THEN {<<"blocked", "rate">>} ELSE {}
           value(k) == IF k[2] = "rate" THEN {(100 * The(blocked)) \div (The(allowed) + The(blocked))}
                       ELSE IF k[1] = "allowed" THEN allowed ELSE blocked
           stats == [k \in counts \cup rate |-> value(k)]
<1>1. panel = buildWAFMetricsPanel
  BY DEF panel
<1>2. buildWAFMetricsPanel = IF Sets = <<>> THEN NoTarget("no ACL") ELSE warn(TargetPanel(stats), "logs may differ")
  BY DEF buildWAFMetricsPanel
<1> HIDE DEF allowed, blocked, known
<1>3. \A k \in counts \cup rate :
        \/ k[2] = "total" /\ k[1] = "allowed" /\ value(k) = allowed
        \/ k[2] = "total" /\ k[1] = "blocked" /\ value(k) = blocked
        \/ k[2] = "rate"
  OBVIOUS
<1>4. DOMAIN stats = counts \cup rate /\ \A k \in counts \cup rate : stats[k] = value(k)
  OBVIOUS
<1>5. "allowed" \in NamesOf /\ "blocked" \in NamesOf
  BY DEF NamesOf
<1> HIDE DEF counts, rate, value, stats
<1>6. \A k \in DOMAIN stats : FromLines(k, stats[k])
  BY <1>3, <1>4, <1>5 DEF FromLines, allowed, blocked
<1> DEFINE q == TargetPanel(stats)
<1>7. q.stats = stats
  BY TargetPanelHas
<1> HIDE DEF q
<1>8. warn(q, "logs may differ").stats = stats
  BY <1>7, WarnKeeps
<1>9. panel.stats = [k \in {} |-> {}] \/ panel.stats = stats
  BY <1>1, <1>2, <1>8, NoTargetHas DEF q
<1>10. QED
  BY <1>6, <1>9

\* HeadlinesAreOfSamples, for the panels of targets.
LEMMA TargetHeadlines ==
  ASSUME PanelInv, Built, kind \in TargetKinds, NEW k \in DOMAIN panel.stats
  PROVE  Headline(k, panel.stats[k])
<1> DEFINE name == k[1]
           v == panel.stats[k]
<1>1. w \in Windows /\ Fetched
  BY DEF PanelInv, Built, Fetched
<1>2. PICK n : AxisOf(n)
  BY <1>1, AxisExists
<1>3. FromLines(k, v)
  <2>1. CASE kind = "targetgroup"
    BY <2>1, TargetGroupStats
  <2>2. CASE kind = "rds-proxy"
    BY <2>2, RDSProxyStats
  <2>3. CASE kind = "waf-metrics"
    BY <2>3, WafStats
  <2>4. QED
    BY <2>1, <2>2, <2>3 DEF TargetKinds
<1> HIDE DEF v
<1>4. Values(name) = ValuesOf(DueNamed(name)) /\ Total(name) = TotalOf(DueNamed(name))
  BY DEF Values, ValuesOf, Total, TotalOf, DueNamed
<1> HIDE DEF name
<1>5. CASE k[2] \in {"total", "max"} /\ name \in NamesOf
  <2>1. PICK f : Lined(Of(name), DueNamed(name), f)
    BY <1>1, <1>2, <1>5, NamedAreLined
  <2>2. /\ reduceAcross(SumOfEach(Of(name)), "add") = IF Values(name) = {} THEN {} ELSE {Total(name)}
        /\ reduceAcross(MaxOfEach(Of(name)), "max") = IF Values(name) = {} THEN {} ELSE {Max(Values(name))}
    BY <1>4, <2>1, SumsOfLines, MaxOfLines
  <2>3. CASE k[2] = "total"
    <3>1. v = reduceAcross(SumOfEach(Of(name)), "add")
      BY <1>3, <2>3 DEF FromLines, name
    <3>2. v = IF Values(name) = {} THEN {} ELSE {Total(name)}
      BY <2>2, <3>1
    <3>3. k[2] # "max"
      BY <2>3
    <3>4. Headline(k, v)
      BY <3>2, <3>3 DEF Headline, name
    <3>5. QED
      BY <3>4 DEF v
  <2>4. CASE k[2] = "max"
    <3>1. v = reduceAcross(MaxOfEach(Of(name)), "max")
      BY <1>3, <2>4 DEF FromLines, name
    <3>2. v = IF Values(name) = {} THEN {} ELSE {Max(Values(name))}
      BY <2>2, <3>1
    <3>3. k[2] # "total" /\ k[2] # "now"
      BY <2>4
    <3>4. Headline(k, v)
      BY <3>2, <3>3 DEF Headline, name
    <3>5. QED
      BY <3>4 DEF v
  <2>5. QED
    BY <1>5, <2>3, <2>4
<1>6. CASE k[2] \notin {"total", "max", "now"}
  BY <1>6 DEF Headline
<1>7. QED
  BY <1>3, <1>5, <1>6 DEF FromLines, name, v

\* Added up bucket by bucket, lines have the sum of their samples.
LEMMA SumOfTotal ==
  ASSUME NEW list, NEW D, NEW f, Lined(list, D, f), NEW label, NEW color
  PROVE  SeriesSum(sumSeries(list, label, color)) = IF ValuesOf(D) = {} THEN {} ELSE {TotalOf(D)}
<1> DEFINE N == Len(list)
           K == 1..N
           B == UNION {DOMAIN list[k].values : k \in DOMAIN list}
           with(i) == {k \in DOMAIN list : i \in DOMAIN list[k].values}
           s == sumSeries(list, label, color)
           of(i) == SumFunction([k \in with(i) |-> list[k].values[i]])
           V == [i \in B |-> of(i)]
           DD == [k \in K |-> DOMAIN list[k].values]
           v == [k \in K |-> list[k].values]
           C == [k \in K |-> Sum(v[k], DD[k])]
           row(i) == [k \in K |-> v[k][i]]
           A == [d \in D |-> SumFunction(Samples(d[3]))]
<1>1. /\ N \in Nat /\ DOMAIN list = K
      /\ IsFiniteSet(D)
      /\ \A d \in D : Numbers(Samples(d[3]), DOMAIN Samples(d[3]))
      /\ f \in [K -> D]
      /\ \A i, j \in K : f[i] = f[j] => i = j
      /\ \A d \in D : \E i \in K : f[i] = d
      /\ \A i \in K : list[i].values = Samples(f[i][3])
  BY DEF Lined
<1>2. IsFiniteSet(K)
  BY <1>1, FS_Interval
<1>3. s.values = V
  <2>1. s = [newSeries(label, color, buckets(w)) EXCEPT !.values = V]
    BY DEF sumSeries
  <2> HIDE DEF V, s
  <2>2. QED
    BY <2>1 DEF newSeries
<1>4. \A k \in K : /\ IsFiniteSet(DOMAIN list[k].values)
                   /\ \A i \in DOMAIN list[k].values : list[k].values[i] \in Int
  BY <1>1 DEF Numbers
<1>5. IsFiniteSet(B)
  <2> DEFINE S == {DD[k] : k \in K}
  <2>1. DD \in Surjection(K, S)
    BY DEF Surjection
  <2>2. B = UNION S
    BY <1>1
  <2>3. \A x \in S : IsFiniteSet(x)
    BY <1>4
  <2> HIDE DEF DD, S, K, B
  <2>4. IsFiniteSet(S)
    BY <1>2, <2>1, FS_Surjection
  <2>5. IsFiniteSet(UNION S)
    BY <2>3, <2>4, FS_UNION
  <2>6. QED
    BY <2>2, <2>5
<1>6. DD \in [K -> SUBSET B] /\ \A k \in K : \A i \in DD[k] : v[k][i] \in Int
  <2>1. \A k \in K : DD[k] \in SUBSET B
    BY <1>1
  <2>2. \A k \in K : \A i \in DD[k] : v[k][i] \in Int
    BY <1>4
  <2> HIDE DEF B
  <2>3. QED
    BY <2>1, <2>2
<1>7. \A i \in B : of(i) = Sum(row(i), {k \in K : i \in DD[k]})
  <2> TAKE i \in B
  <2> DEFINE g == [k \in with(i) |-> list[k].values[i]]
             W == {k \in K : i \in DD[k]}
  <2>1. with(i) = W
    BY <1>1
  <2>2. of(i) = Sum(g, W)
    <3>1. SumFunction(g) = Sum(g, DOMAIN g)
      BY DEF SumFunction, Sum
    <3>2. DOMAIN g = W
      BY <2>1
    <3>3. of(i) = SumFunction(g)
      OBVIOUS
    <3> HIDE DEF g, W, of
    <3>4. QED
      BY <3>1, <3>2, <3>3
  <2>3. \A k \in W : g[k] = row(i)[k] /\ g[k] \in Int
    <3> TAKE k \in W
    <3>1. k \in K /\ i \in DOMAIN list[k].values
      OBVIOUS
    <3>2. g[k] = list[k].values[i] /\ row(i)[k] = list[k].values[i]
      BY <2>1, <3>1
    <3>3. list[k].values[i] \in Int
      BY <1>4, <3>1
    <3> HIDE DEF g, row
    <3>4. QED
      BY <3>2, <3>3
  <2>4. IsFiniteSet(W)
    <3>1. W \in SUBSET K
      OBVIOUS
    <3> HIDE DEF W, K
    <3>2. QED
      BY <1>2, <3>1, FS_Subset
  <2> HIDE DEF g, W, row, of
  <2>5. Sum(g, W) = Sum(row(i), W)
    <3>1. Numbers(g, W)
      BY <2>3, <2>4 DEF Numbers
    <3>2. QED
      BY <2>3, <3>1, SumAgrees
  <2>6. QED
    BY <2>2, <2>5 DEF W
<1>8. Sum(Columns(K, B, DD, v), B) = Sum(Rows(K, DD, v), K)
  <2> HIDE DEF K, B, DD, v
  <2>1. QED
    BY <1>2, <1>5, <1>6, SumSwapped
<1>9. V = Columns(K, B, DD, v) /\ C = Rows(K, DD, v)
  <2> DEFINE total(i) == Sum(row(i), {k \in K : i \in DD[k]})
  <2>1. \A i \in B : of(i) = total(i)
    BY <1>7
  <2> HIDE DEF of, total, B
  <2>2. V = [i \in B |-> total(i)]
    BY <2>1
  <2>3. QED
    BY <2>2 DEF total, Columns, Rows
<1>10. SumFunction(V) = Sum(C, K)
  <2>1. SumFunction(V) = Sum(V, B)
    BY DEF SumFunction, Sum
  <2> HIDE DEF V, C
  <2>2. QED
    BY <1>8, <1>9, <2>1
<1>11. Sum(C, K) = Sum(A, D)
  <2>1. \A k \in K : C[k] = A[f[k]]
    <3> TAKE k \in K
    <3>1. f[k] \in D /\ list[k].values = Samples(f[k][3])
      BY <1>1
    <3>2. C[k] = Sum(list[k].values, DOMAIN list[k].values)
      OBVIOUS
    <3>3. A[f[k]] = Sum(Samples(f[k][3]), DOMAIN Samples(f[k][3]))
      BY <3>1 DEF SumFunction, Sum
    <3> HIDE DEF C, A
    <3>4. QED
      BY <3>1, <3>2, <3>3
  <2>2. \A d \in D : A[d] \in Int
    <3> TAKE d \in D
    <3>1. AddsUp(Samples(d[3]), DOMAIN Samples(d[3]))
      BY <1>1, SumsAddUp
    <3>2. Sum(Samples(d[3]), DOMAIN Samples(d[3])) \in Int
      BY <3>1 DEF AddsUp
    <3>3. A[d] = Sum(Samples(d[3]), DOMAIN Samples(d[3]))
      BY DEF SumFunction, Sum
    <3> HIDE DEF A
    <3>4. QED
      BY <3>2, <3>3
  <2>3. \A k \in K : f[k] \in D
    BY <1>1
  <2> HIDE DEF A, C, K
  <2>4. Numbers(A, D)
    BY <1>1, <2>2 DEF Numbers
  <2>5. Numbers(C, K)
    BY <1>2, <2>1, <2>2, <2>3 DEF Numbers
  <2>6. QED
    BY <1>1, <2>1, <2>4, <2>5, SumReindexed
<1>12. TotalOf(D) = Sum(A, D)
  BY DEF TotalOf, SumFunction, Sum
<1>13. Image(s) = {} <=> ValuesOf(D) = {}
  <2>1. DOMAIN V = B
    OBVIOUS
  <2>2. B = {} <=> \A k \in DOMAIN list : DOMAIN list[k].values = {}
    <3> DEFINE dom(k) == DOMAIN list[k].values
    <3>1. B = UNION {dom(k) : k \in DOMAIN list}
      OBVIOUS
    <3> HIDE DEF dom, B
    <3>2. B = {} <=> \A k \in DOMAIN list : dom(k) = {}
      BY <3>1
    <3>3. QED
      BY <3>2 DEF dom
  <2> HIDE DEF s, V, B
  <2>3. Image(s) = {} <=> B = {}
    BY <1>3, <2>1 DEF Image
  <2>4. QED
    BY <2>2, <2>3, ValuesAreKnown
<1>14. SeriesSum(s) = IF Image(s) = {} THEN {} ELSE {SumFunction(V)}
  <2> HIDE DEF V, s
  <2>1. QED
    BY <1>3 DEF SeriesSum
<1> HIDE DEF s, V, C, A, K
<1>15. QED
  BY <1>10, <1>11, <1>12, <1>13, <1>14 DEF s

\* The parts of a panel of one set have the samples of the metrics of their spec.
LEMMA PartsAreLined ==
  ASSUME PanelInv, Fetched, NEW n, AxisOf(n), kind = "pod-status", Sets # <<>>, NEW i \in DOMAIN Specs
  PROVE  \E f : Lined(Parts(Specs[i]), DueOf(Specs[i]), f)
<1> DEFINE spec == Specs[i]
           fs == Sets[1]
           F == About(spec, fs)
           list == ListOf(spec, fs)
           labels == [k \in DOMAIN list |-> <<spec.key, <<>>, list[k].label>>]
           colors == [k \in DOMAIN list |-> spec.color]
           PartLine(m) == Line(m, <<spec.key, <<>>, m.label>>, spec.color, "solid")
           T == {PartLine(m) : m \in F}
           D == DueTo(spec, fs, F)
           R == {q \in T \X D : q[1].values = Samples(q[2][3])}
           lines == toSeriesList(list, labels, colors, "solid")
<1>1. 1 \in DOMAIN Sets /\ \A j \in DOMAIN Sets : j = 1
  BY OneSet
<1>2. Gathered(w, list, F) /\ LabelsApart(F)
  BY <1>1, AllGathered
<1>3. F \in SUBSET Published
  BY DEF About
<1>4. D = DueOf(spec)
  <2>1. ASSUME NEW m \in F PROVE <<spec, fs, m>> \in Due
    BY <1>1, DueAre
  <2>2. ASSUME NEW d \in Due, d[1] = spec PROVE \E m \in F : d = <<spec, fs, m>>
    <3>1. PICK k \in DOMAIN Specs, j \in DOMAIN Sets : \E m \in About(Specs[k], Sets[j]) : d = <<Specs[k], Sets[j], m>>
      BY DueAre
    <3>2. PICK m \in About(Specs[k], Sets[j]) : d = <<Specs[k], Sets[j], m>>
      BY <3>1
    <3>3. Specs[k] = spec /\ Sets[j] = fs
      BY <1>1, <2>2, <3>2
    <3>4. QED
      BY <3>2, <3>3
  <2> HIDE DEF F, fs
  <2>3. QED
    BY <2>1, <2>2 DEF DueTo, DueOf
<1>5. Parts(spec) = lines
  BY DEF Parts
<1>6. \A m \in F : \A k \in DOMAIN list : list[k].label = m.label =>
        /\ Line(m, labels[k], colors[k], "solid") \in T
        /\ <<Line(m, labels[k], colors[k], "solid"), <<spec, fs, m>>>> \in R
  <2> TAKE m \in F
  <2> TAKE k \in DOMAIN list
  <2> HAVE list[k].label = m.label
  <2>1. labels[k] = <<spec.key, <<>>, m.label>> /\ colors[k] = spec.color
    OBVIOUS
  <2> HIDE DEF labels, colors
  <2>2. Line(m, labels[k], colors[k], "solid") = PartLine(m)
    BY <2>1
  <2>3. PartLine(m) \in T /\ <<spec, fs, m>> \in D
    BY DEF DueTo
  <2>4. PartLine(m).values = Samples(m)
    BY DEF Line
  <2> HIDE DEF PartLine, T, D
  <2>5. <<PartLine(m), <<spec, fs, m>>>> \in R
    BY <2>3, <2>4
  <2>6. QED
    BY <2>2, <2>3, <2>5
<1>7. \A l : \A d \in D : <<l, d>> \in R => l.values = Samples(d[3])
  OBVIOUS
<1> HIDE DEF labels, colors, list, T, R, F, spec, fs
<1>8. lines \in Seq(T) /\ Draws(lines, D, R)
  BY <1>2, <1>3, <1>6, PlottedDraws
<1>9. D \in SUBSET Due
  BY <1>4 DEF DueOf
<1> HIDE DEF lines, D
<1>10. \E f : Lined(lines, D, f)
  BY <1>7, <1>8, <1>9, LinedOfDraws
<1>11. QED
  BY <1>4, <1>5, <1>10 DEF spec

\* The restarts of a panel of pods are those of every pod in the window.
LEMMA RestartsAreOfSamples ==
  ASSUME PanelInv, Built, kind = "pod-status", NEW k \in DOMAIN panel.stats
  PROVE  Headline(k, panel.stats[k])
<1> DEFINE total == [i \in DOMAIN Specs |-> sumSeries(Parts(Specs[i]), Specs[i].key, Specs[i].color)]
           keys == {<<s.key[3], "now">> : s \in ToSet(Specs)}
           place(x) == CHOOSE j \in DOMAIN Specs : Specs[j].key[3] = x[1]
           stats == [x \in keys |-> StatusNumber(Specs[place(x)], total[place(x)])]
           made == [newPanel(kind) EXCEPT !.series = total, !.stats = stats]
<1>1. w \in Windows /\ Fetched
  BY DEF PanelInv, Built, Fetched
<1>2. PICK n : AxisOf(n)
  BY <1>1, AxisExists
<1>3. panel = buildPodStatusPanel
  BY DEF panel
<1>4. /\ \/ buildPodStatusPanel = NoTarget("no cluster")
         \/ buildPodStatusPanel = warn(made, "no OOM metric")
         \/ buildPodStatusPanel = warn(warn(made, "no pod_status"), "no OOM metric")
      /\ Sets = <<>> => buildPodStatusPanel = NoTarget("no cluster")
  BY DEF buildPodStatusPanel
<1>5. made.stats = stats
  <2> HIDE DEF total, stats
  <2>1. made = Made(kind, total, stats)
    BY DEF Made
  <2> HIDE DEF made
  <2>2. QED
    BY <2>1, MadeHas
<1>6. DOMAIN stats = keys /\ \A x \in keys : stats[x] = StatusNumber(Specs[place(x)], total[place(x)])
  OBVIOUS
<1>7. \A x \in keys : x[2] = "now"
  OBVIOUS
<1>8. \A i \in DOMAIN Specs : total[i] = sumSeries(Parts(Specs[i]), Specs[i].key, Specs[i].color)
  OBVIOUS
<1> HIDE DEF made, stats, keys, total
<1>9. NoTarget("no cluster").stats = [x \in {} |-> {}]
  BY NoTargetHas
<1>10. /\ warn(made, "no OOM metric").stats = stats
       /\ warn(warn(made, "no pod_status"), "no OOM metric").stats = stats
  BY <1>5, WarnKeeps
<1>11. panel.stats = stats /\ Sets # <<>>
  <2>1. panel.stats # [x \in {} |-> {}]
    OBVIOUS
  <2>2. QED
    BY <1>3, <1>4, <1>9, <1>10, <2>1
<1>12. k \in keys /\ panel.stats[k] = StatusNumber(Specs[place(k)], total[place(k)])
  BY <1>6, <1>11
<1>13. CASE k[1] = "restarts"
  <2>1. PICK i \in DOMAIN Specs :
          Specs[i].key[3] = "restarts" /\ \A j \in DOMAIN Specs : Specs[j].key[3] = "restarts" => j = i
    <3>1. "restarts" \in NamesOf
      BY DEF NamesOf
    <3>2. QED
      BY <3>1, NamesAreOfSpecs DEF OneNamed
  <2>2. place(k) = i
    BY <1>13, <2>1
  <2> HIDE DEF place
  <2>3. panel.stats[k] = SeriesSum(sumSeries(Parts(Specs[i]), Specs[i].key, Specs[i].color))
    BY <1>8, <1>12, <2>1, <2>2 DEF StatusNumber
  <2>4. PICK f : Lined(Parts(Specs[i]), DueOf(Specs[i]), f)
    BY <1>1, <1>2, <1>11, PartsAreLined
  <2>5. panel.stats[k] = IF ValuesOf(DueOf(Specs[i])) = {} THEN {} ELSE {TotalOf(DueOf(Specs[i]))}
    BY <2>3, <2>4, SumOfTotal
  <2>6. DueOf(Specs[i]) = DueNamed(k[1])
    <3>1. \A d \in Due : d[1].key[3] = k[1] <=> d[1] = Specs[i]
      <4> TAKE d \in Due
      <4>1. PICK j \in DOMAIN Specs : d[1] = Specs[j]
        BY DueAre
      <4>2. QED
        BY <1>13, <2>1, <4>1
    <3>2. QED
      BY <3>1 DEF DueNamed, DueOf
  <2>7. Values(k[1]) = ValuesOf(DueNamed(k[1])) /\ Total(k[1]) = TotalOf(DueNamed(k[1]))
    BY DEF Values, ValuesOf, Total, TotalOf, DueNamed
  <2>8. panel.stats[k] = IF Values(k[1]) = {} THEN {} ELSE {Total(k[1])}
    BY <2>5, <2>6, <2>7
  <2>9. k[2] # "max"
    BY <1>7, <1>12
  <2>10. QED
    BY <2>8, <2>9 DEF Headline
<1>14. CASE k[1] # "restarts"
  <2>1. k[2] = "now"
    BY <1>7, <1>12
  <2>2. k[2] # "total" /\ k[2] # "max"
    BY <2>1
  <2>3. QED
    BY <1>14, <2>2 DEF Headline
<1>15. QED
  BY <1>13, <1>14

\* The numbers of pods and nodes are none that HeadlinesAreOfSamples is about.
LEMMA ResourceKeys ==
  ASSUME kind \in SubjectKinds, NEW k \in DOMAIN panel.stats
  PROVE  k[2] \in {"max", "subjects", "gone"}
<1> DEFINE keys == (DOMAIN Specs) \X {"max", "subjects", "gone"}
           list == [i \in DOMAIN Specs |-> ListOf(Specs[i], Sets[1])]
           live == [i \in DOMAIN Specs |-> sortSeries(dropSilent(list[i]))]
           index == subjectIndex(live)
           lines == [i \in DOMAIN Specs |->
             toSeriesList(live[i], [j \in DOMAIN live[i] |-> <<Specs[i].key, <<>>, live[i][j].label>>],
                          [j \in DOMAIN live[i] |-> subjectColor(index[i][live[i][j].label])],
                          variantDash(i - 1))]
           stats == [x \in keys |->
             CASE x[2] = "max" -> reduceAcross(MaxOfEach(lines[x[1]]), "max")
               [] x[2] = "subjects" -> {Len(lines[x[1]])}
               [] x[2] = "gone" -> {Len(list[x[1]]) - Len(live[x[1]])}]
           made == [newPanel(kind) EXCEPT !.series = FlattenSeq(lines), !.stats = stats]
<1>1. panel = buildResourcePanel
  BY DEF panel, SubjectKinds
<1>2. \/ buildResourcePanel = NoTarget("no cluster")
      \/ buildResourcePanel = made
      \/ buildResourcePanel = warn(made, "no Container Insights")
  BY DEF buildResourcePanel
<1>3. DOMAIN stats = keys
  OBVIOUS
<1> HIDE DEF stats, lines, keys, list, live, index
<1>4. made = Made(kind, FlattenSeq(lines), stats)
  BY DEF Made
<1> HIDE DEF made
<1>5. made.stats = stats
  BY <1>4, MadeHas
<1>6. warn(made, "no Container Insights").stats = stats
  BY <1>5, WarnKeeps
<1>7. NoTarget("no cluster").stats = [x \in {} |-> {}]
  BY NoTargetHas
<1>8. panel.stats = [x \in {} |-> {}] \/ panel.stats = stats
  BY <1>1, <1>2, <1>5, <1>6, <1>7
<1>9. k \in keys
  BY <1>3, <1>8
<1>10. QED
  BY <1>9 DEF keys

\* Nor are those of the counts of a cluster.
LEMMA CountsKeys ==
  ASSUME kind = "counts", NEW k \in DOMAIN panel.stats
  PROVE  k[2] \in {"current", "min", "max", "failed"}
<1> DEFINE pods == sumSeries(Parts(Specs[1]), Specs[1].key, Specs[1].color)
           nodes == Parts(Specs[2])
           failed == Parts(Specs[3])
           bounds == IF scaling = {} THEN {} ELSE {<<"nodes", "min">>, <<"nodes", "max">>}
           keys == {"pods"} \X {"current", "min", "max"} \cup {"nodes"} \X {"current", "failed"} \cup bounds
           stats == [x \in keys |->
             CASE x = <<"pods", "current">>  -> SeriesLast(pods)
               [] x = <<"pods", "min">>      -> SeriesMin(pods)
               [] x = <<"pods", "max">>      -> SeriesMax(pods)
               [] x = <<"nodes", "current">> -> reduceAcross(LastOfEach(nodes), "max")
               [] x = <<"nodes", "failed">>  -> reduceAcross(MaxOfEach(failed), "max")
               [] x = <<"nodes", "min">>     -> {The(scaling).min}
               [] x = <<"nodes", "max">>     -> {The(scaling).max}]
           series == <<pods>> \o nodes \o failed
           made == [newPanel(kind) EXCEPT !.series = series, !.stats = stats]
<1>1. panel = buildCountsPanel
  BY DEF panel
<1>2. \/ buildCountsPanel = NoTarget("no cluster")
      \/ buildCountsPanel = made
      \/ buildCountsPanel = warn(made, "no node scaling")
  BY DEF buildCountsPanel
<1>3. DOMAIN stats = keys
  OBVIOUS
<1> HIDE DEF stats, series, keys, pods, nodes, failed
<1>4. made = Made(kind, series, stats)
  BY DEF Made
<1> HIDE DEF made
<1>5. made.stats = stats
  BY <1>4, MadeHas
<1>6. warn(made, "no node scaling").stats = stats
  BY <1>5, WarnKeeps
<1>7. NoTarget("no cluster").stats = [x \in {} |-> {}]
  BY NoTargetHas
<1>8. panel.stats = [x \in {} |-> {}] \/ panel.stats = stats
  BY <1>1, <1>2, <1>5, <1>6, <1>7
<1>9. k \in keys
  BY <1>3, <1>8
<1>10. QED
  BY <1>9 DEF keys

\* The numbers over a panel are those of all the samples CloudWatch holds: a total is the
\* sum over every metric and every bucket, though it is made of sums of lines or of a sum
\* of each bucket, and a maximum is the largest of them (panels-metrics.ts:132-199).
THEOREM HeadlinesCountSamples == PanelSpec => []HeadlinesAreOfSamples
<1>1. PanelInv => HeadlinesAreOfSamples
  <2> SUFFICES ASSUME PanelInv, Built, NEW k \in DOMAIN panel.stats
               PROVE  Headline(k, panel.stats[k])
    BY DEF HeadlinesAreOfSamples, Headlines
  <2>1. CASE kind \in TargetKinds
    BY <2>1, TargetHeadlines
  <2>2. CASE kind = "pod-status"
    BY <2>2, RestartsAreOfSamples
  <2>3. CASE kind \in SubjectKinds
    <3>1. k[2] # "total" /\ k[2] # "now"
      BY <2>3, ResourceKeys
    <3>2. kind \notin TargetKinds
      BY <2>3 DEF SubjectKinds, TargetKinds
    <3>3. QED
      BY <3>1, <3>2 DEF Headline
  <2>4. CASE kind = "counts"
    <3>1. k[2] # "total" /\ k[2] # "now"
      BY <2>4, CountsKeys
    <3>2. kind \notin TargetKinds
      BY <2>4 DEF TargetKinds
    <3>3. QED
      BY <3>1, <3>2 DEF Headline
  <2>5. QED
    BY <2>1, <2>2, <2>3, <2>4 DEF PanelInv, Kinds, SubjectKinds, TargetKinds
<1>2. QED
  BY <1>1, SpecPanelInv, PTL

===============================================================================
