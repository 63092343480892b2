----------------------------- MODULE PageProofs ------------------------------
(***************************************************************************)
(* Requests over the query cache, for every number of them, every page and *)
(* every panel: the theorems of Page.tla.                                  *)
(*                                                                         *)
(* A step of a request is a step of the cache, or it only marks calls as   *)
(* aborted, also calls that are not yet made.  So the cache keeps all its  *)
(* promises under the requests (CacheProofs), and PageInv adds what a      *)
(* request needs of them: that a call which was answered was given the     *)
(* settled outcome of a load, that calls are only made by requests which   *)
(* hold a connection, in the order of their builder, and that the history  *)
(* of a request's connection agrees with the history of the cache.         *)
(***************************************************************************)
EXTENDS Page, CacheProofs, SequenceTheorems

\* Requests and their turns.
PageTypeOK ==
  /\ account \in Account \cup {None}
  /\ turn \in Request \cup {None}
  /\ route \in [Request -> (Handlers \X STRING) \cup {None}]
  /\ phase \in [Request -> {"out", "building", "answered"}]
  /\ started \in [Request -> Nat]
  /\ snap \in [Request -> Account \cup {None}]
  /\ began \in [Request -> Nat]
  /\ gone \in [Request -> BOOLEAN]
  /\ spent \in [Request -> BOOLEAN]
  /\ status \in [Request -> {0, 200, 400, 499, 500, 502, 503}]
  /\ DOMAIN shown = Request

\* A call that has ended was given the outcome of a load that has ended.
AnsweredInv ==
  \A c \in Caller :
    IF pc[c] \in Finished
    THEN /\ source[c] \in Caller
         /\ promise[source[c]] # "pending"
         /\ pc[c] = "returned" <=> promise[source[c]] = "ok"
    ELSE source[c] = None

\* A request holds a connection once it was asked for something its handler knows;
\* the builders of all its slots have been called when its turn is over.
BuildsInv ==
  /\ turn # None => phase[turn] = "building"
  /\ \A r \in Request :
       /\ snap[r] # None => /\ phase[r] # "out"
                            /\ route[r] \in Routes[r]
                            /\ Known(route[r][1], route[r][2])
       /\ phase[r] = "building" =>
            /\ snap[r] # None
            /\ IF turn = r THEN started[r] < Len(Ids(r)) ELSE started[r] = Len(Ids(r))
       /\ phase[r] = "out" => started[r] = 0

\* Calls are made by the requests that hold a connection.
CallsInv == \A c \in Caller : pc[c] # "idle" => c[1] \in Request /\ snap[c[1]] # None

\* A builder asks the second time only after its first ask returned.
OrderInv ==
  \A r \in Request, i \in Nat :
    LET first == <<r, i, 1>>
        second == <<r, i, 2>>
    IN  second \in Caller /\ pc[second] # "idle" => first \in Caller /\ pc[first] = "returned"

\* The connections that requests hold are those that were in use in their epochs.
BeganInv ==
  /\ \A r \in Request :
       snap[r] # None => /\ began[r] <= epoch
                         /\ began[r] = epoch => snap[r] = account
  /\ \A r, s \in Request :
       snap[r] # None /\ snap[s] # None /\ began[r] = began[s] => snap[r] = snap[s]

\* The answer of a page has the panels of the page, whose first asks have ended.
ShownInv ==
  \A r \in Request : phase[r] = "answered" /\ route[r][1] = "page" =>
    /\ status[r] # 502
    /\ status[r] = 499 => gone[r]
    /\ status[r] = 200 =>
         /\ snap[r] # None
         /\ shown[r] = Slots(r)
         /\ \A i \in DOMAIN Ids(r) :
              AsksOf(r, i) # <<>> => <<r, i, 1>> \in Caller /\ pc[<<r, i, 1>>] \in Finished

\* A load begins no earlier than the request it is for.
LoadedInv == \A c \in Caller : Owns(c) => began[c[1]] <= claimed[c]

\* Nothing is shown that was loaded before the request began.  This is where the
\* emptied cache counts: what is handed out was in the map, and what is in the map
\* was loaded in this epoch (MapInv), later than no beginning.
GivenInv == \A c \in Caller : source[c] # None => began[c[1]] <= claimed[source[c]]

PageInv ==
  PageTypeOK /\ AnsweredInv /\ BuildsInv /\ CallsInv /\ OrderInv /\ BeganInv /\ ShownInv

-------------------------------------------------------------------------------

\* What a request may ask for: a page has slots, a builder asks at most twice,
\* and every ask is a call and a key of the cache.
LEMMA AsksAreCalls ==
  ASSUME NEW r \in Request, NEW a \in Routes[r], Known(a[1], a[2])
  PROVE  /\ Len(IdsOf(a)) \in Nat \ {0}
         /\ IdsOf(a) = [i \in 1 .. Len(IdsOf(a)) |-> IdsOf(a)[i]]
         /\ \A i \in DOMAIN IdsOf(a) :
              /\ Len(AsksFor(a, i)) \in 0 .. 2
              /\ DOMAIN AsksFor(a, i) = 1 .. Len(AsksFor(a, i))
              /\ AsksFor(a, i) = <<>> <=> Len(AsksFor(a, i)) = 0
              /\ \A j \in 1 .. Len(AsksFor(a, i)) :
                   <<r, i, j>> \in Caller /\ \A conn \in Account : KeyFor(a, i, j, conn) \in Key
<1>1. a[1] \in Handlers
  BY PageAssumption
<1>2. /\ a[1] = "page" => a[2] \in DOMAIN pages
      /\ a[1] = "panel" => a[2] \in DOMAIN PanelAsks
  BY DEF Known
<1>3. /\ Len(IdsOf(a)) \in Nat \ {0}
      /\ DOMAIN IdsOf(a) = 1 .. Len(IdsOf(a))
      /\ IdsOf(a) = [i \in 1 .. Len(IdsOf(a)) |-> IdsOf(a)[i]]
  BY <1>2, PageAssumption DEF IdsOf
<1>4. ASSUME NEW i \in DOMAIN IdsOf(a)
      PROVE  /\ Len(AsksFor(a, i)) \in 0 .. 2
             /\ DOMAIN AsksFor(a, i) = 1 .. Len(AsksFor(a, i))
             /\ AsksFor(a, i) = <<>> <=> Len(AsksFor(a, i)) = 0
  <2>1. CASE a[1] = "discovery"
    BY <2>1 DEF AsksFor
  <2>2. CASE a[1] # "discovery"
    <3>1. IdsOf(a)[i] \in DOMAIN PanelAsks
      BY <1>1, <1>2, <1>3, <1>4, <2>2, PageAssumption DEF IdsOf, Handlers
    <3>2. PanelAsks[IdsOf(a)[i]] \in Seq(STRING) /\ Len(PanelAsks[IdsOf(a)[i]]) <= 2
      BY <3>1, PageAssumption
    <3> DEFINE asks == PanelAsks[IdsOf(a)[i]]
    <3> HIDE DEF asks
    <3>3. asks \in Seq(STRING) /\ Len(asks) <= 2
      BY <3>2 DEF asks
    <3>4. Len(asks) \in Nat /\ DOMAIN asks = 1 .. Len(asks)
      BY <3>3, LenProperties
    <3>5. asks = <<>> <=> Len(asks) = 0
      BY <3>3, EmptySeq
    <3>6. AsksFor(a, i) = asks
      BY <2>2 DEF AsksFor, asks
    <3>7. QED
      BY <3>3, <3>4, <3>5, <3>6
  <2>3. QED
    BY <2>1, <2>2
<1>5. QED
  BY <1>3, <1>4, PageAssumption

\* A call that is made leaves the other calls where they are.
LEMMA EnterMoves ==
  ASSUME IInv, NEW c \in Caller, NEW k \in Key, Enter(c, k)
  PROVE  /\ pc[c] = "idle"
         /\ pc' = [pc EXCEPT ![c] = pc'[c]]
         /\ pc'[c] \in {"waiting", "loading"}
         /\ UNCHANGED <<source, promise, epoch>>
  BY DEF Enter, Turn, Waits, Claims, entryVars, IInv, TypeOK

\* So does one that goes on, and it changes no outcome that was there.
LEMMA CallMoves ==
  ASSUME IInv, AnsweredInv, NEW c \in Caller, WaiterTakes(c) \/ WaiterRetries(c) \/ LoadSettles(c)
  PROVE  /\ pc[c] \in {"waiting", "loading"}
         /\ pc' = [pc EXCEPT ![c] = pc'[c]]
         /\ pc'[c] \in {"waiting", "loading"} \cup Finished
         /\ UNCHANGED epoch
         /\ AnsweredInv'
<1> USE DEF IInv, TypeOK, Finished
<1>1. CASE WaiterTakes(c)
  <2>1. waiting[c] \in Caller /\ promise[waiting[c]] # "pending"
    BY <1>1 DEF WaiterTakes, EntryInv
  <2>2. QED
    BY <1>1, <2>1 DEF WaiterTakes, entryVars, AnsweredInv
<1>2. CASE WaiterRetries(c)
  BY <1>2 DEF WaiterRetries, Turn, Waits, Claims, entryVars, AnsweredInv
<1>3. CASE LoadSettles(c)
  <2>1. promise[c] = "pending"
    BY <1>3 DEF LoadSettles, LoadReturns, LoadThrows, LoadAbandoned, EntryInv
  <2>2. QED
    BY <1>3, <2>1 DEF LoadSettles, LoadReturns, LoadThrows, LoadAbandoned, AnsweredInv
<1>4. QED
  BY <1>1, <1>2, <1>3

-------------------------------------------------------------------------------

\* A request marks calls as aborted, also those that are not made yet.
Marks ==
  /\ aborted' \in [Caller -> BOOLEAN]
  /\ UNCHANGED <<now, entries, entryVars, pc, key, waiting, source, epoch>>

\* The invariants of the cache do not ask who was aborted.
LEMMA MarksKeepCache ==
  ASSUME IInv, TimeInv, Marks
  PROVE  IInv' /\ TimeInv' /\ UNCHANGED SF!vars
<1> USE DEF Marks, entryVars
<1>1. IInv'
  BY DEF IInv, TypeOK, EntryInv, MapInv, LoadInv, OneLoadPerKey, SourceInv, Owns
<1>2. TimeInv'
  BY DEF TimeInv, ExpiryInv, EpochInv, KeptInv, Told, Lifetime
<1>3. UNCHANGED SF!vars
  BY DEF SF!vars
<1>4. QED
  BY <1>1, <1>2, <1>3

\* The builder whose turn it is has a slot.
LEMMA StartHasSlot ==
  ASSUME PageInv, NEW r \in Request, Start(r)
  PROVE  /\ phase[r] = "building" /\ route[r] \in Routes[r] /\ Known(route[r][1], route[r][2])
         /\ snap[r] \in Account
         /\ started[r] + 1 \in DOMAIN Ids(r)
         /\ started[r] \in Nat /\ Len(Ids(r)) \in Nat
         /\ AsksOf(r, started[r] + 1) # <<>> =>
              /\ <<r, started[r] + 1, 1>> \in Caller
              /\ KeyOf(r, started[r] + 1, 1) \in Key
              /\ Enter(<<r, started[r] + 1, 1>>, KeyOf(r, started[r] + 1, 1))
<1> DEFINE i == started[r] + 1
<1>1. /\ phase[r] = "building" /\ route[r] \in Routes[r] /\ Known(route[r][1], route[r][2])
      /\ snap[r] \in Account /\ started[r] \in Nat /\ started[r] < Len(Ids(r))
  BY PageAssumption DEF Start, PageInv, PageTypeOK, BuildsInv
<1>2. Len(Ids(r)) \in Nat /\ DOMAIN Ids(r) = 1 .. Len(Ids(r))
  BY <1>1, AsksAreCalls DEF Ids
<1>3. i \in DOMAIN Ids(r)
  BY <1>1, <1>2
<1>4. ASSUME AsksOf(r, i) # <<>>
      PROVE  <<r, i, 1>> \in Caller /\ KeyOf(r, i, 1) \in Key
  <2>1. i \in DOMAIN IdsOf(route[r]) /\ Len(AsksFor(route[r], i)) \in 1 .. 2
    BY <1>1, <1>3, <1>4, AsksAreCalls DEF Ids, AsksOf
  <2> DEFINE n == Len(AsksFor(route[r], i))
  <2>2. \A k \in 1 .. 2 : 1 \in 1 .. k
    OBVIOUS
  <2>3. 1 \in 1 .. n
    BY <2>1, <2>2
  <2>4. QED
    BY <1>1, <2>1, <2>3, AsksAreCalls DEF KeyOf
<1>5. AsksOf(r, i) # <<>> => Enter(<<r, i, 1>>, KeyOf(r, i, 1))
  BY DEF Start
<1>6. QED
  BY <1>1, <1>2, <1>3, <1>4, <1>5

\* A builder that asks a second time does so in a slot that was started.
LEMMA AskNextHasSlot ==
  ASSUME PageInv, NEW r \in Request, NEW i \in 1 .. started[r], AskNext(r, i)
  PROVE  /\ snap[r] \in Account
         /\ <<r, i, 1>> \in Caller /\ <<r, i, 2>> \in Caller
         /\ KeyOf(r, i, 2) \in Key
         /\ Enter(<<r, i, 2>>, KeyOf(r, i, 2))
<1>1. /\ phase[r] = "building" /\ turn # r
  BY PageAssumption DEF AskNext
<1>2. /\ route[r] \in Routes[r] /\ Known(route[r][1], route[r][2])
      /\ snap[r] \in Account /\ started[r] = Len(Ids(r))
  BY <1>1, PageAssumption DEF PageInv, PageTypeOK, BuildsInv
<1>3. Len(IdsOf(route[r])) \in Nat /\ DOMAIN IdsOf(route[r]) = 1 .. Len(IdsOf(route[r]))
  BY <1>2, AsksAreCalls
<1>4. i \in DOMAIN IdsOf(route[r])
  BY <1>2, <1>3 DEF Ids
<1>5. 1 \in 1 .. Len(AsksFor(route[r], i)) /\ 2 \in 1 .. Len(AsksFor(route[r], i))
  BY DEF AskNext, AsksOf
<1>6. QED
  BY <1>2, <1>4, <1>5, AsksAreCalls DEF KeyOf, AskNext

\* A step of the requests is a step of the cache, or marks calls as aborted.
LEMMA PageStepOfCache ==
  ASSUME IInv, PageInv, [PageNext]_pageVars
  PROVE  [Next]_vars \/ Marks
<1>1. ASSUME NEW r \in Request, NEW a \in Routes[r], NEW fits \in BOOLEAN, Begin(r, a[1], a[2], fits)
      PROVE  UNCHANGED vars
  BY <1>1 DEF Begin
<1>2. ASSUME NEW r \in Request, Start(r)
      PROVE  [Next]_vars
  <2>1. CASE AsksOf(r, started[r] + 1) = <<>>
    BY <1>2, <2>1 DEF Start
  <2>2. CASE AsksOf(r, started[r] + 1) # <<>>
    BY <1>2, <2>2, StartHasSlot DEF Next, Step
  <2>3. QED
    BY <2>1, <2>2
<1>3. ASSUME NEW r \in Request, NEW i \in 1 .. started[r], AskNext(r, i)
      PROVE  [Next]_vars
  BY <1>3, AskNextHasSlot DEF Next, Step
<1>4. ASSUME NEW r \in Request, NEW valid \in BOOLEAN, Answer(r, valid)
      PROVE  UNCHANGED vars
  BY <1>4 DEF Answer
<1>5. ASSUME NEW r \in Request, Leaves(r) \/ Spends(r)
      PROVE  Marks
  BY <1>5 DEF Leaves, Spends, Signalled, Marks, IInv, TypeOK
<1>6. ASSUME NEW c \in Caller, Moves(c)
      PROVE  [Next]_vars
  BY <1>6 DEF Moves, Next, Step
<1>7. ASSUME NEW a \in Account \cup {None}, Swap(a)
      PROVE  [Next]_vars
  BY <1>7 DEF Swap, Next
<1>8. CASE Idle \/ UNCHANGED pageVars
  BY <1>8 DEF Idle, pageVars
<1>9. QED
  BY <1>1, <1>2, <1>3, <1>4, <1>5, <1>6, <1>7, <1>8 DEF PageNext

-------------------------------------------------------------------------------

LEMMA InitPageInv == PageInit => PageInv
<1> USE PageAssumption
<1>1. PageInit => PageTypeOK
  BY DEF PageInit, PageTypeOK
<1>2. PageInit => AnsweredInv /\ CallsInv /\ OrderInv
  BY DEF PageInit, Init, AnsweredInv, CallsInv, OrderInv, Finished
<1>3. PageInit => BuildsInv /\ BeganInv /\ ShownInv
  BY DEF PageInit, BuildsInv, BeganInv, ShownInv
<1>4. QED
  BY <1>1, <1>2, <1>3 DEF PageInv

\* A panel whose first ask has ended is drawn or not for good.
LEMMA SlotsStay ==
  ASSUME NEW r \in Request, UNCHANGED route[r],
         \A c \in Caller : pc[c] \in Finished => pc'[c] = pc[c],
         \A i \in DOMAIN Ids(r) :
           AsksOf(r, i) # <<>> => <<r, i, 1>> \in Caller /\ pc[<<r, i, 1>>] \in Finished
  PROVE  /\ Slots(r)' = Slots(r)
         /\ Ids(r)' = Ids(r)
         /\ \A i \in DOMAIN Ids(r) : AsksOf(r, i)' = AsksOf(r, i)
  BY DEF Slots, Failed, Ids, AsksOf

\* What answers showed stays true while no request is answered.
LEMMA ShownStays ==
  ASSUME PageInv,
         \A c \in Caller : pc[c] \in Finished => pc'[c] = pc[c],
         UNCHANGED <<route, phase, snap, status, shown>>,
         \A r \in Request : gone[r] => gone'[r]
  PROVE  ShownInv'
<1> SUFFICES ASSUME NEW r \in Request, phase[r] = "answered", route[r][1] = "page"
             PROVE  /\ status[r] # 502
                    /\ status[r] = 499 => gone'[r]
                    /\ status[r] = 200 =>
                         /\ snap[r] # None
                         /\ shown[r] = Slots(r)'
                         /\ \A i \in DOMAIN Ids(r)' :
                              AsksOf(r, i)' # <<>> => <<r, i, 1>> \in Caller /\ pc'[<<r, i, 1>>] \in Finished
  BY DEF ShownInv
<1>1. status[r] = 200 =>
        /\ snap[r] # None
        /\ shown[r] = Slots(r)
        /\ \A i \in DOMAIN Ids(r) :
             AsksOf(r, i) # <<>> => <<r, i, 1>> \in Caller /\ pc[<<r, i, 1>>] \in Finished
  BY DEF PageInv, ShownInv
<1>2. status[r] # 502 /\ (status[r] = 499 => gone[r])
  BY DEF PageInv, ShownInv
<1>3. status[r] = 200 =>
        /\ Slots(r)' = Slots(r)
        /\ Ids(r)' = Ids(r)
        /\ \A i \in DOMAIN Ids(r) : AsksOf(r, i)' = AsksOf(r, i)
  BY <1>1, SlotsStay
<1>4. QED
  BY <1>1, <1>2, <1>3

\* A request may make a call that is due: the second of a builder after its first.
LEMMA EnterKeepsCalls ==
  ASSUME PageInv, IInv, NEW c \in Caller, NEW k \in Key, Enter(c, k),
         c[1] \in Request, snap[c[1]] # None, UNCHANGED snap,
         \A r \in Request, i \in Nat :
           c = <<r, i, 2>> => <<r, i, 1>> \in Caller /\ pc[<<r, i, 1>>] = "returned"
  PROVE  /\ AnsweredInv' /\ CallsInv' /\ OrderInv'
         /\ \A d \in Caller : pc[d] \in Finished => pc'[d] = pc[d]
<1>1. /\ pc[c] = "idle"
      /\ pc' = [pc EXCEPT ![c] = pc'[c]]
      /\ pc'[c] \in {"waiting", "loading"}
      /\ UNCHANGED <<source, promise, epoch>>
  BY EnterMoves
<1>2. \A d \in Caller : d # c => pc'[d] = pc[d]
  BY <1>1 DEF IInv, TypeOK
<1>3. AnsweredInv'
  BY <1>1, <1>2 DEF PageInv, AnsweredInv, Finished
<1>4. CallsInv'
  BY <1>1, <1>2 DEF PageInv, CallsInv
<1>5. OrderInv'
  <2> SUFFICES ASSUME NEW r \in Request, NEW i \in Nat, <<r, i, 2>> \in Caller, pc'[<<r, i, 2>>] # "idle"
               PROVE  <<r, i, 1>> \in Caller /\ pc'[<<r, i, 1>>] = "returned"
    BY DEF OrderInv
  <2>1. <<r, i, 1>> \in Caller /\ pc[<<r, i, 1>>] = "returned"
    BY <1>2 DEF PageInv, OrderInv
  <2>2. QED
    BY <1>1, <1>2, <2>1
<1>6. QED
  BY <1>1, <1>2, <1>3, <1>4, <1>5 DEF Finished

LEMMA NextPageInv == PageInv /\ IInv /\ [PageNext]_pageVars => PageInv'
<1> SUFFICES ASSUME PageInv, IInv, [PageNext]_pageVars
             PROVE  PageInv'
  OBVIOUS
<1> USE PageAssumption
<1>1. ASSUME NEW r \in Request, NEW a \in Routes[r], NEW fits \in BOOLEAN, Begin(r, a[1], a[2], fits)
      PROVE  PageInv'
  <2>1. a = <<a[1], a[2]>> /\ a \in Handlers \X STRING
    OBVIOUS
  <2>2. /\ turn = None /\ phase[r] = "out" /\ snap[r] = None /\ started[r] = 0
        /\ route' = [route EXCEPT ![r] = a]
        /\ UNCHANGED <<vars, account, gone, spent, shown>>
    BY <1>1, <2>1 DEF Begin, PageInv, BuildsInv
  <2>3. UNCHANGED <<pc, source, promise, epoch>>
    BY <2>2 DEF vars
  <2>4. AnsweredInv' /\ OrderInv'
    BY <2>3 DEF PageInv, AnsweredInv, OrderInv
  <2>5. ASSUME NEW s \in Request, s # r
        PROVE  /\ Ids(s)' = Ids(s) /\ Slots(s)' = Slots(s)
               /\ \A i : AsksOf(s, i)' = AsksOf(s, i)
    BY <2>2, <2>3, <2>5 DEF Ids, Slots, AsksOf, Failed, PageInv, PageTypeOK
  <2>6. CASE \E code \in {400, 503} : Refuse(r, code)
    <3>1. PICK code \in {400, 503} :
            /\ phase' = [phase EXCEPT ![r] = "answered"]
            /\ status' = [status EXCEPT ![r] = code]
            /\ UNCHANGED <<turn, started, snap, began>>
      BY <2>6 DEF Refuse
    <3>2. PageTypeOK'
      BY <2>1, <2>2, <3>1 DEF PageInv, PageTypeOK
    <3>3. BuildsInv'
      BY <2>2, <2>5, <3>1 DEF PageInv, PageTypeOK, BuildsInv
    <3>4. CallsInv' /\ BeganInv'
      BY <2>2, <2>3, <3>1 DEF PageInv, CallsInv, BeganInv
    <3>5. ShownInv'
      BY <2>2, <2>3, <2>5, <3>1 DEF PageInv, PageTypeOK, ShownInv
    <3>6. QED
      BY <2>4, <3>2, <3>3, <3>4, <3>5 DEF PageInv
  <2>7. CASE Accept(r) /\ account # None /\ Known(a[1], a[2])
    <3>1. /\ phase' = [phase EXCEPT ![r] = "building"]
          /\ snap' = [snap EXCEPT ![r] = account]
          /\ began' = [began EXCEPT ![r] = epoch]
          /\ turn' = r
          /\ UNCHANGED <<started, status>>
      BY <2>7 DEF Accept
    <3>2. PageTypeOK'
      BY <2>1, <2>2, <2>3, <3>1 DEF PageInv, PageTypeOK, IInv, TypeOK
    <3>3. Len(Ids(r))' \in Nat \ {0}
      <4>1. Ids(r)' = IdsOf(a)
        BY <2>2 DEF Ids, PageInv, PageTypeOK
      <4>2. Len(IdsOf(a)) \in Nat \ {0}
        BY <2>7, AsksAreCalls
      <4>3. QED
        BY <4>1, <4>2
    <3>4. BuildsInv'
      BY <2>2, <2>5, <2>7, <3>1, <3>3 DEF PageInv, PageTypeOK, BuildsInv
    <3>5. CallsInv'
      BY <2>2, <2>3, <3>1 DEF PageInv, PageTypeOK, CallsInv
    <3>6. BeganInv'
      BY <2>2, <2>3, <3>1 DEF PageInv, PageTypeOK, BeganInv, IInv, TypeOK
    <3>7. ShownInv'
      BY <2>2, <2>3, <2>5, <3>1 DEF PageInv, PageTypeOK, ShownInv
    <3>8. QED
      BY <2>4, <3>2, <3>4, <3>5, <3>6, <3>7 DEF PageInv
  <2>8. QED
    BY <1>1, <2>6, <2>7 DEF Begin
<1>2. ASSUME NEW r \in Request, Start(r)
      PROVE  PageInv'
  <2> DEFINE i == started[r] + 1
             c == <<r, i, 1>>
  <2>1. /\ turn = r /\ phase[r] = "building" /\ snap[r] \in Account
        /\ i \in DOMAIN Ids(r) /\ Len(Ids(r)) \in Nat /\ started[r] \in Nat
        /\ started' = [started EXCEPT ![r] = i]
        /\ turn' = IF i = Len(Ids(r)) THEN None ELSE r
        /\ UNCHANGED <<account, route, phase, snap, began, gone, spent, status, shown>>
    BY <1>2, StartHasSlot DEF Start
  <2>2. /\ AnsweredInv' /\ CallsInv' /\ OrderInv' /\ UNCHANGED epoch
        /\ \A d \in Caller : pc[d] \in Finished => pc'[d] = pc[d]
    <3>1. CASE AsksOf(r, i) = <<>>
      BY <1>2, <2>1, <3>1 DEF Start, vars, PageInv, AnsweredInv, CallsInv, OrderInv
    <3>2. CASE AsksOf(r, i) # <<>>
      <4>1. c \in Caller /\ KeyOf(r, i, 1) \in Key /\ Enter(c, KeyOf(r, i, 1))
        BY <1>2, <3>2, StartHasSlot
      <4>2. c[1] = r /\ \A s \in Request, n \in Nat : c # <<s, n, 2>>
        OBVIOUS
      <4> HIDE DEF c
      <4>3. QED
        BY <2>1, <4>1, <4>2, EnterKeepsCalls DEF Enter
    <3>3. QED
      BY <3>1, <3>2
  <2>3. PageTypeOK'
    BY <2>1 DEF PageInv, PageTypeOK
  <2>4. \A s : Ids(s)' = Ids(s)
    BY <2>1 DEF Ids
  <2>5. BuildsInv'
    <3>1. turn' # None => phase'[turn'] = "building"
      BY <2>1
    <3>2. started[r] < Len(Ids(r)) /\ DOMAIN Ids(r) = 1 .. Len(Ids(r))
      BY <2>1, AsksAreCalls DEF PageInv, BuildsInv, Ids
    <3>3. QED
      BY <2>1, <2>4, <3>1, <3>2 DEF PageInv, PageTypeOK, BuildsInv
  <2>6. BeganInv'
    BY <2>1, <2>2 DEF PageInv, BeganInv
  <2>7. ShownInv'
    BY <2>1, <2>2, ShownStays
  <2>8. QED
    BY <2>2, <2>3, <2>5, <2>6, <2>7 DEF PageInv
<1>3. ASSUME NEW r \in Request, NEW i \in 1 .. started[r], AskNext(r, i)
      PROVE  PageInv'
  <2> DEFINE c == <<r, i, 2>>
  <2>1. /\ c \in Caller /\ <<r, i, 1>> \in Caller /\ snap[r] \in Account
        /\ KeyOf(r, i, 2) \in Key /\ Enter(c, KeyOf(r, i, 2))
        /\ pc[<<r, i, 1>>] = "returned"
        /\ UNCHANGED <<account, requestVars>>
    BY <1>3, AskNextHasSlot DEF AskNext
  <2>2. c[1] = r /\ \A s \in Request, n \in Nat : c = <<s, n, 2>> => s = r /\ n = i
    OBVIOUS
  <2> HIDE DEF c
  <2>3. /\ AnsweredInv' /\ CallsInv' /\ OrderInv' /\ UNCHANGED epoch
        /\ \A d \in Caller : pc[d] \in Finished => pc'[d] = pc[d]
    BY <2>1, <2>2, EnterKeepsCalls DEF Enter, requestVars
  <2>4. PageTypeOK' /\ BuildsInv' /\ BeganInv'
    BY <2>1, <2>3 DEF requestVars, PageInv, PageTypeOK, BuildsInv, BeganInv, Ids
  <2>5. ShownInv'
    BY <2>1, <2>3, ShownStays DEF requestVars
  <2>6. QED
    BY <2>3, <2>4, <2>5 DEF PageInv
<1>4. ASSUME NEW r \in Request, NEW valid \in BOOLEAN, Answer(r, valid)
      PROVE  PageInv'
  <2>1. /\ turn = None /\ phase[r] = "building"
        /\ \A i \in DOMAIN Ids(r) : Ended(r, i)
        /\ phase' = [phase EXCEPT ![r] = "answered"]
        /\ status' = [status EXCEPT ![r] = IF valid THEN Verdict(r) ELSE 500]
        /\ shown' = [shown EXCEPT ![r] = IF valid /\ Verdict(r) = 200 THEN Slots(r) ELSE <<>>]
        /\ UNCHANGED <<pc, source, promise, epoch, account, turn, route, started, snap, began, gone, spent>>
    BY <1>4 DEF Answer, vars
  <2>2. /\ Verdict(r) \in {200, 499, 502}
        /\ route[r][1] = "page" => Verdict(r) # 502 /\ (Verdict(r) = 499 => gone[r])
    BY DEF Verdict
  <2>3. PageTypeOK'
    BY <2>1, <2>2 DEF PageInv, PageTypeOK
  <2>4. AnsweredInv' /\ CallsInv' /\ OrderInv' /\ BeganInv'
    BY <2>1 DEF PageInv, AnsweredInv, CallsInv, OrderInv, BeganInv
  <2>5. \A s : /\ Ids(s)' = Ids(s) /\ Slots(s)' = Slots(s)
               /\ \A i : AsksOf(s, i)' = AsksOf(s, i)
    BY <2>1 DEF Ids, AsksOf, Slots, Failed
  <2>6. BuildsInv'
    BY <2>1, <2>5 DEF PageInv, PageTypeOK, BuildsInv
  <2>7. /\ snap[r] # None /\ route[r] \in Routes[r] /\ Known(route[r][1], route[r][2])
    BY <2>1 DEF PageInv, BuildsInv
  <2>8. ASSUME NEW i \in DOMAIN Ids(r), AsksOf(r, i) # <<>>
        PROVE  <<r, i, 1>> \in Caller /\ pc[<<r, i, 1>>] \in Finished
    <3> DEFINE n == Len(AsksOf(r, i))
    <3>1. i \in Nat /\ n \in 1 .. 2 /\ \A j \in 1 .. n : <<r, i, j>> \in Caller
      BY <2>7, <2>8, AsksAreCalls DEF Ids, AsksOf
    <3>2. pc[<<r, i, 1>>] = "threw" \/ pc[<<r, i, n>>] \in Finished
      BY <2>1, <3>1 DEF Ended
    <3> HIDE DEF n
    <3>3. <<r, i, 1>> \in Caller
      BY <3>1
    <3>4. CASE n = 1
      BY <3>2, <3>3, <3>4 DEF Finished
    <3>5. CASE n = 2
      <4>1. <<r, i, 2>> \in Caller
        BY <3>1, <3>5
      <4>2. pc[<<r, i, 2>>] # "idle" => pc[<<r, i, 1>>] = "returned"
        BY <3>1, <4>1 DEF PageInv, OrderInv
      <4>3. QED
        BY <3>2, <3>3, <3>5, <4>2 DEF Finished
    <3>6. QED
      BY <3>1, <3>4, <3>5
  <2>9. ShownInv'
    BY <2>1, <2>2, <2>5, <2>7, <2>8 DEF PageInv, PageTypeOK, ShownInv
  <2>10. QED
    BY <2>3, <2>4, <2>6, <2>9 DEF PageInv
<1>5. ASSUME NEW r \in Request, Leaves(r) \/ Spends(r)
      PROVE  PageInv'
  <2>1. /\ UNCHANGED <<account, turn, route, phase, started, snap, began, status, shown, epoch, pc, source, promise>>
        /\ gone' \in [Request -> BOOLEAN] /\ spent' \in [Request -> BOOLEAN]
        /\ \A s \in Request : gone[s] => gone'[s]
    <3>1. CASE Leaves(r)
      BY <3>1 DEF Leaves, entryVars, PageInv, PageTypeOK
    <3>2. CASE Spends(r)
      BY <3>2 DEF Spends, entryVars, PageInv, PageTypeOK
    <3>3. QED
      BY <1>5, <3>1, <3>2
  <2>2. PageTypeOK' /\ BuildsInv' /\ BeganInv' /\ AnsweredInv' /\ CallsInv' /\ OrderInv'
    BY <2>1 DEF PageInv, PageTypeOK, BuildsInv, BeganInv, AnsweredInv, CallsInv, OrderInv, Ids
  <2>3. ShownInv'
    BY <2>1, ShownStays
  <2>4. QED
    BY <2>2, <2>3 DEF PageInv
<1>6. ASSUME NEW c \in Caller, Moves(c)
      PROVE  PageInv'
  <2>1. /\ pc[c] \in {"waiting", "loading"}
        /\ pc' = [pc EXCEPT ![c] = pc'[c]]
        /\ pc'[c] \in {"waiting", "loading"} \cup Finished
        /\ UNCHANGED <<epoch, account, requestVars>>
        /\ AnsweredInv'
    BY <1>6, CallMoves DEF Moves, PageInv
  <2>2. \A d \in Caller : d # c => pc'[d] = pc[d]
    BY <2>1 DEF IInv, TypeOK
  <2>3. PageTypeOK' /\ BuildsInv' /\ BeganInv'
    BY <2>1 DEF requestVars, PageInv, PageTypeOK, BuildsInv, BeganInv, Ids
  <2>4. CallsInv' /\ OrderInv'
    BY <2>1, <2>2 DEF requestVars, PageInv, CallsInv, OrderInv
  <2>5. \A d \in Caller : pc[d] \in Finished => pc'[d] = pc[d]
    BY <2>1, <2>2 DEF Finished
  <2>6. ShownInv'
    BY <2>1, <2>5, ShownStays DEF requestVars
  <2>7. QED
    BY <2>1, <2>3, <2>4, <2>6 DEF PageInv
<1>7. ASSUME NEW a \in Account \cup {None}, Swap(a)
      PROVE  PageInv'
  <2>1. /\ account' = a /\ epoch' = epoch + 1 /\ UNCHANGED <<pc, source, promise, requestVars>>
    BY <1>7 DEF Swap, Invalidate, entryVars
  <2>2. PageTypeOK' /\ BuildsInv' /\ AnsweredInv' /\ CallsInv' /\ OrderInv'
    BY <2>1 DEF requestVars, PageInv, PageTypeOK, BuildsInv, AnsweredInv, CallsInv, OrderInv, Ids
  <2>3. BeganInv'
    BY <2>1 DEF requestVars, PageInv, PageTypeOK, BeganInv, IInv, TypeOK
  <2>4. ShownInv'
    BY <2>1, ShownStays DEF requestVars
  <2>5. QED
    BY <2>2, <2>3, <2>4 DEF PageInv
<1>8. CASE Idle \/ UNCHANGED pageVars
  <2>1. UNCHANGED <<pc, source, promise, epoch, account, requestVars>>
    BY <1>8 DEF Idle, pageVars, vars
  <2>2. PageTypeOK' /\ BuildsInv' /\ BeganInv' /\ AnsweredInv' /\ CallsInv' /\ OrderInv'
    BY <2>1 DEF requestVars, PageInv, PageTypeOK, BuildsInv, BeganInv, AnsweredInv, CallsInv, OrderInv, Ids
  <2>3. ShownInv'
    BY <2>1, ShownStays DEF requestVars
  <2>4. QED
    BY <2>2, <2>3 DEF PageInv
<1>9. QED
  BY <1>1, <1>2, <1>3, <1>4, <1>5, <1>6, <1>7, <1>8 DEF PageNext

-------------------------------------------------------------------------------

LEMMA SpecPageInv == PageSpec => [](IInv /\ TimeInv /\ PageInv)
<1>1. PageInit => IInv /\ TimeInv /\ PageInv
  BY InitIInv, InitTimeInv, InitPageInv DEF PageInit
<1>2. IInv /\ TimeInv /\ PageInv /\ [PageNext]_pageVars => (IInv /\ TimeInv /\ PageInv)'
  <2> SUFFICES ASSUME IInv, TimeInv, PageInv, [PageNext]_pageVars
               PROVE  (IInv /\ TimeInv /\ PageInv)'
    OBVIOUS
  <2>1. CASE [Next]_vars
    BY <2>1, NextIInv, NextTimeInv, NextPageInv
  <2>2. CASE Marks
    BY <2>2, MarksKeepCache, NextPageInv
  <2>3. QED
    BY <2>1, <2>2, PageStepOfCache
<1>3. QED
  BY <1>1, <1>2, PTL DEF PageSpec

\* A call of a request begins a load, or is given one, of the epoch it is in.
LEMMA CallKeepsLoads ==
  ASSUME IInv, PageInv, LoadedInv, GivenInv, NEW c \in Caller,
         \/ \E k \in Key : Enter(c, k)
         \/ WaiterTakes(c) \/ WaiterRetries(c) \/ LoadSettles(c),
         c[1] \in Request, snap[c[1]] # None, UNCHANGED began
  PROVE  LoadedInv' /\ GivenInv'
<1> USE DEF IInv
<1>1. began[c[1]] <= epoch /\ began[c[1]] \in Nat /\ epoch \in Nat
  BY DEF PageInv, BeganInv, PageTypeOK, TypeOK
<1>2. \A d \in Caller : source[d] # None => source[d] \in Caller /\ promise[source[d]] # "pending"
  BY DEF PageInv, AnsweredInv
<1>3. CASE \/ \E k \in Key : Enter(c, k)
           \/ WaiterRetries(c)
  <2>1. promise[c] = "pending" /\ source[c] = None
    BY <1>3 DEF Enter, WaiterRetries, EntryInv, PageInv, AnsweredInv, Finished
  <2>2. /\ UNCHANGED <<source, promise>>
        /\ \A d \in Caller \ {c} : pc'[d] = pc[d] /\ claimed'[d] = claimed[d]
        /\ pc'[c] = "loading" => claimed'[c] = epoch
    BY <1>3 DEF Enter, WaiterRetries, Turn, Waits, Claims, entryVars, TypeOK
  <2>3. LoadedInv'
    BY <1>1, <2>1, <2>2 DEF LoadedInv, Owns
  <2>4. GivenInv'
    BY <1>2, <2>1, <2>2 DEF GivenInv
  <2>5. QED
    BY <2>3, <2>4
<1>4. CASE WaiterTakes(c)
  <2>1. claimed[waiting[c]] = epoch
    BY <1>4, CacheAssumption DEF WaiterTakes, Fresh, EntryInv, MapInv
  <2>2. /\ pc' = [pc EXCEPT ![c] = pc'[c]] /\ pc'[c] \in Finished
        /\ source' = [source EXCEPT ![c] = waiting[c]]
        /\ UNCHANGED <<promise, claimed>>
    BY <1>4 DEF WaiterTakes, entryVars, Finished, TypeOK
  <2>3. QED
    BY <1>1, <2>1, <2>2 DEF LoadedInv, GivenInv, Owns, Finished, TypeOK
<1>5. CASE LoadSettles(c)
  <2>1. /\ pc[c] = "loading" /\ UNCHANGED claimed
        /\ source' = [source EXCEPT ![c] = c]
        /\ \A d \in Caller \ {c} : pc'[d] = pc[d] /\ promise'[d] = promise[d]
    BY <1>5 DEF LoadSettles, LoadReturns, LoadThrows, LoadAbandoned, TypeOK
  <2>2. QED
    BY <2>1 DEF LoadedInv, GivenInv, Owns, TypeOK
<1>6. QED
  BY <1>3, <1>4, <1>5

LEMMA NextLoads ==
  IInv /\ PageInv /\ LoadedInv /\ GivenInv /\ [PageNext]_pageVars => LoadedInv' /\ GivenInv'
<1> SUFFICES ASSUME IInv, PageInv, LoadedInv, GivenInv, [PageNext]_pageVars
             PROVE  LoadedInv' /\ GivenInv'
  OBVIOUS
<1>1. ASSUME NEW r \in Request, NEW a \in Routes[r], NEW fits \in BOOLEAN, Begin(r, a[1], a[2], fits)
      PROVE  LoadedInv' /\ GivenInv'
  <2>1. snap[r] = None
    BY <1>1 DEF Begin, PageInv, BuildsInv
  <2>2. /\ UNCHANGED <<pc, promise, source, claimed>>
        /\ \A s \in Request \ {r} : began'[s] = began[s]
    BY <1>1 DEF Begin, Refuse, Accept, vars, entryVars, PageInv, PageTypeOK
  <2>3. \A c \in Caller : Owns(c) \/ source[c] # None => c[1] \in Request \ {r}
    BY <2>1 DEF PageInv, CallsInv, AnsweredInv, IInv, EntryInv, Owns, Finished
  <2>4. QED
    BY <2>2, <2>3 DEF LoadedInv, GivenInv, Owns
<1>2. ASSUME NEW r \in Request, Start(r)
      PROVE  LoadedInv' /\ GivenInv'
  <2> DEFINE c == <<r, started[r] + 1, 1>>
  <2>1. CASE AsksOf(r, started[r] + 1) = <<>>
    BY <1>2, <2>1 DEF Start, vars, entryVars, LoadedInv, GivenInv, Owns
  <2>2. CASE AsksOf(r, started[r] + 1) # <<>>
    <3>1. /\ c \in Caller /\ c[1] = r /\ snap[r] # None /\ UNCHANGED began
          /\ \E k \in Key : Enter(c, k)
      BY <1>2, <2>2, StartHasSlot, PageAssumption DEF Start
    <3> HIDE DEF c
    <3>2. QED
      BY <3>1, CallKeepsLoads
  <2>3. QED
    BY <2>1, <2>2
<1>3. ASSUME NEW r \in Request, NEW i \in 1 .. started[r], AskNext(r, i)
      PROVE  LoadedInv' /\ GivenInv'
  <2> DEFINE c == <<r, i, 2>>
  <2>1. /\ c \in Caller /\ c[1] = r /\ snap[r] # None /\ UNCHANGED began
        /\ \E k \in Key : Enter(c, k)
    BY <1>3, AskNextHasSlot, PageAssumption DEF AskNext, requestVars
  <2> HIDE DEF c
  <2>2. QED
    BY <2>1, CallKeepsLoads
<1>4. ASSUME NEW c \in Caller, Moves(c)
      PROVE  LoadedInv' /\ GivenInv'
  <2>1. /\ WaiterTakes(c) \/ WaiterRetries(c) \/ LoadSettles(c)
        /\ UNCHANGED began
    BY <1>4 DEF Moves, requestVars
  <2>2. c[1] \in Request /\ snap[c[1]] # None
    BY <2>1, CallMoves DEF PageInv, CallsInv
  <2>3. QED
    BY <2>1, <2>2, CallKeepsLoads
<1>5. CASE \/ \E r \in Request : \/ \E valid \in BOOLEAN : Answer(r, valid)
                               \/ Leaves(r)
                               \/ Spends(r)
           \/ \E a \in Account \cup {None} : Swap(a)
           \/ Idle
           \/ UNCHANGED pageVars
  <2>1. UNCHANGED <<pc, promise, source, claimed, began>>
    BY <1>5 DEF Answer, Leaves, Spends, Swap, Invalidate, Idle, pageVars, requestVars, vars, entryVars
  <2>2. QED
    BY <2>1 DEF LoadedInv, GivenInv, Owns
<1>6. QED
  BY <1>1, <1>2, <1>3, <1>4, <1>5 DEF PageNext

LEMMA SpecLoads == PageSpec => [](IInv /\ PageInv /\ LoadedInv /\ GivenInv)
<1>1. PageInit => LoadedInv /\ GivenInv
  BY DEF PageInit, Init, LoadedInv, GivenInv, Owns
<1>2. QED
  BY <1>1, NextLoads, SpecPageInv, PTL DEF PageSpec

\* The variables of the requests keep their types, and those of the cache under
\* them.
THEOREM PageTypes == PageSpec => [](TypeOK /\ PageTypeOK)
<1>1. IInv /\ PageInv => TypeOK /\ PageTypeOK
  BY DEF IInv, PageInv
<1>2. QED
  BY <1>1, SpecPageInv, PTL

\* A page whose browser is there is answered with all its panels in their order,
\* and a panel whose first ask came is drawn in it (panels.ts:182-203, 226-228):
\* for every number of requests, pages and panels, whatever the cache gave to whom.
THEOREM PageAnswersAreWhole == PageSpec => []PagesAreWhole
<1>1. ASSUME IInv, PageInv
      PROVE  PagesAreWhole
  <2> SUFFICES ASSUME NEW r \in Request, phase[r] = "answered", route[r][1] = "page", status[r] = 200
               PROVE  /\ [i \in DOMAIN shown[r] |-> shown[r][i].id] = Ids(r)
                      /\ \A i \in DOMAIN Ids(r) :
                           shown[r][i].drawn <=> (AsksOf(r, i) = <<>> \/ Came(<<r, i, 1>>))
    BY <1>1 DEF PagesAreWhole, PageInv, ShownInv
  <2>1. /\ shown[r] = Slots(r) /\ snap[r] # None
        /\ \A i \in DOMAIN Ids(r) :
             AsksOf(r, i) # <<>> => <<r, i, 1>> \in Caller /\ pc[<<r, i, 1>>] \in Finished
    BY <1>1 DEF PageInv, ShownInv
  <2>2. Ids(r) = [i \in 1 .. Len(Ids(r)) |-> Ids(r)[i]]
    BY <1>1, <2>1, AsksAreCalls DEF PageInv, BuildsInv, Ids
  <2>3. [i \in DOMAIN shown[r] |-> shown[r][i].id] = Ids(r)
    BY <2>1, <2>2 DEF Slots
  <2>4. ASSUME NEW i \in DOMAIN Ids(r)
        PROVE  shown[r][i].drawn <=> (AsksOf(r, i) = <<>> \/ Came(<<r, i, 1>>))
    <3>1. shown[r][i].drawn = ~Failed(r, i)
      <4> DEFINE drawn(k) == ~Failed(r, k)
      <4>1. shown[r] = [k \in DOMAIN Ids(r) |-> [id |-> Ids(r)[k], drawn |-> drawn(k)]]
        BY <2>1 DEF Slots
      <4> HIDE DEF drawn
      <4>2. shown[r][i].drawn = drawn(i)
        BY <4>1
      <4>3. QED
        BY <4>2 DEF drawn
    <3>2. AsksOf(r, i) # <<>> => (pc[<<r, i, 1>>] = "threw" <=> ~Came(<<r, i, 1>>))
      BY <1>1, <2>1, CacheAssumption DEF PageInv, AnsweredInv, Came, Finished
    <3>3. QED
      BY <3>1, <3>2 DEF Failed
  <2>5. QED
    BY <2>3, <2>4
<1>2. QED
  BY <1>1, SpecPageInv, PTL

\* What a request shows and another connection was asked for was asked after a swap
\* or a save, for a request that began before it (connect.ts:60-62, service.ts:112-114):
\* the emptied cache has nothing older to show.
THEOREM PageShowsOneAccount == PageSpec => []OneAccountUnlessOvertaken
<1>1. ASSUME IInv, PageInv, LoadedInv, GivenInv, NEW c \in Caller, source[c] # None,
             ~Overtaken(c[1], source[c]), ~Overtaken(Origin(c), source[c])
      PROVE  snap[Origin(c)] = snap[c[1]]
  <2>1. pc[c] \in Finished /\ source[c] \in Caller /\ promise[source[c]] # "pending"
    BY <1>1 DEF PageInv, AnsweredInv
  <2>2. pc[source[c]] \in Finished /\ Owns(source[c])
    BY <1>1, <2>1 DEF IInv, EntryInv, Owns
  <2>3. /\ c[1] \in Request /\ snap[c[1]] # None
        /\ Origin(c) \in Request /\ snap[Origin(c)] # None
    BY <1>1, <2>1, <2>2 DEF PageInv, CallsInv, Origin, Finished
  <2>4. began[c[1]] <= claimed[source[c]] /\ began[Origin(c)] <= claimed[source[c]]
    BY <1>1, <2>1, <2>2 DEF LoadedInv, GivenInv, Origin
  <2>5. began[c[1]] = began[Origin(c)]
    <3>1. claimed[source[c]] \in Nat /\ began[c[1]] \in Nat /\ began[Origin(c)] \in Nat
      BY <1>1, <2>1, <2>3 DEF IInv, TypeOK, PageInv, PageTypeOK
    <3>2. ~(began[c[1]] < claimed[source[c]]) /\ ~(began[Origin(c)] < claimed[source[c]])
      BY <1>1 DEF Overtaken
    <3>3. QED
      BY <2>4, <3>1, <3>2
  <2>6. QED
    BY <1>1, <2>3, <2>5 DEF PageInv, BeganInv
<1>2. IInv /\ PageInv /\ LoadedInv /\ GivenInv => OneAccountUnlessOvertaken
  BY <1>1 DEF OneAccountUnlessOvertaken
<1>3. QED
  BY <1>2, SpecLoads, PTL

\* The cache promises its requests all it promises its calls: two loads of a key
\* overlap only across an invalidation (cache.ts:49-51), although requests share
\* keys and leave while they wait.
THEOREM PageOneLoadPerKey == PageSpec => []OneLoadPerKey
<1>1. IInv => OneLoadPerKey
  BY DEF IInv
<1>2. QED
  BY <1>1, SpecPageInv, PTL

\* No request is failed by another one's browser that left or budget that ran out
\* (cache.ts:85-99).
THEOREM PageNoBorrowedAbort == PageSpec => []NoBorrowedAbort
<1>1. IInv => NoBorrowedAbort
  BY DEF IInv, SourceInv, NoBorrowedAbort
<1>2. QED
  BY <1>1, SpecPageInv, PTL

\* An answer a request is handed from another's load is of the key it asked for, of
\* the last invalidation and within its lifetime (cache.ts:59-65).
THEOREM PageAnswersAreCurrent == PageSpec => SharedAnswersAreCurrent
<1>1. ASSUME IInv, TimeInv, PageInv, [PageNext]_pageVars, NEW c \in Caller,
             source'[c] # source[c], source'[c] # c
      PROVE  /\ key[source'[c]] = key[c]
             /\ claimed[source'[c]] = epoch
             /\ now < ended[source'[c]] + Lifetime(source'[c])
  BY <1>1, PageStepOfCache, HandedIsCurrent DEF Marks
<1>2. IInv /\ TimeInv /\ PageInv /\ [PageNext]_pageVars
        => [\A c \in Caller :
              source'[c] # source[c] /\ source'[c] # c
                => /\ key[source'[c]] = key[c]
                   /\ claimed[source'[c]] = epoch
                   /\ now < ended[source'[c]] + Lifetime(source'[c])]_vars
  BY <1>1
<1>3. QED
  BY <1>2, SpecPageInv, PTL DEF PageSpec, SharedAnswersAreCurrent

\* However many requests ask for it, a dependency is asked again only when the last
\* answer about it has run its time or was invalidated (cache.ts:8-9 and 27-29).
THEOREM PageLoadsAreSpaced == PageSpec => LoadsAreSpaced
<1>1. ASSUME IInv, TimeInv, PageInv, [PageNext]_pageVars, NEW c \in Caller, NEW d \in Caller,
             pc[c] # "loading", pc'[c] = "loading", c # d, key[d] = key'[c],
             claimed[d] = epoch, promise[d] \in {"ok", "error"}
      PROVE  now >= ended[d] + Lifetime(d)
  BY <1>1, PageStepOfCache, LoadIsSpaced DEF Marks
<1>2. IInv /\ TimeInv /\ PageInv /\ [PageNext]_pageVars
        => [\A c, d \in Caller :
                 /\ pc[c] # "loading" /\ pc'[c] = "loading"
                 /\ c # d /\ key[d] = key'[c] /\ claimed[d] = epoch
                 /\ promise[d] \in {"ok", "error"}
              => now >= ended[d] + Lifetime(d)]_vars
  BY <1>1
<1>3. QED
  BY <1>2, SpecPageInv, PTL DEF PageSpec, LoadsAreSpaced

\* The pages, panels and discoveries of the engine together are users of one
\* single-flight cache: every behaviour of the requests is, seen at the cache, a
\* behaviour of SingleFlight.
THEOREM PageIsSingleFlight == PageSpec => SingleFlightSpec
<1>1. PageInit => SF!Init
  BY DEF PageInit, Init, SF!Init, Phase
<1>2. IInv /\ TimeInv /\ PageInv /\ [PageNext]_pageVars => [SF!Next]_(SF!vars)
  BY PageStepOfCache, CacheStepSimulates, MarksKeepCache
<1>3. QED
  BY <1>1, <1>2, SpecPageInv, PTL DEF PageSpec, SingleFlightSpec, SF!Spec

===============================================================================
