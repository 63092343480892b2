---------------------------- MODULE ComponentProofs ----------------------------
(***************************************************************************)
(* Theorems of the parts that stand alone: a chart and its readout         *)
(* (Chart.tla), a list of log lines (DataTable.tla), the settings form     *)
(* (SettingsPage.tla) and the process (Startup.tla).                       *)
(*                                                                         *)
(* Chart and DataTable sort; the order of a finite set is had from the     *)
(* number of elements before each one, which needs no induction.           *)
(***************************************************************************)
EXTENDS Chart, DataTable, SettingsPage, Startup, FiniteSetTheorems, FunctionTheorems,
        SequenceTheorems, WellFoundedInduction, TLAPS

\* A set of numbers has a least one: there is no first initial segment without one.
LEMMA MinExists ==
  ASSUME NEW T \in SUBSET Nat, T # {}
  PROVE  \E x \in T : \A y \in T : x <= y
<1> DEFINE Upto == {0 .. n : n \in T}
<1>1. Upto \subseteq FiniteSubsetsOf(Nat)
  <2> SUFFICES ASSUME NEW n \in T
               PROVE  0 .. n \in FiniteSubsetsOf(Nat)
    OBVIOUS
  <2>1. n \in Int /\ 0 .. n \in SUBSET Nat
    OBVIOUS
  <2>2. IsFiniteSet(0 .. n)
    BY <2>1, FS_Interval
  <2>3. QED
    BY <2>1, <2>2 DEF FiniteSubsetsOf
<1>2. IsWellFoundedOn(StrictSubsetOrdering(Nat), FiniteSubsetsOf(Nat))
  BY FS_StrictSubsetOrderingWellFounded
<1>3. Upto # {}
  OBVIOUS
<1> HIDE DEF Upto
<1>4. PICK X \in Upto : \A Y \in Upto : ~(<<Y, X>> \in StrictSubsetOrdering(Nat))
  BY <1>1, <1>2, <1>3, WFMin
<1> USE DEF Upto
<1>5. PICK x \in T : X = 0 .. x
  OBVIOUS
<1>6. ASSUME NEW y \in T, ~(x <= y)
      PROVE  FALSE
  <2>1. <<0 .. y, 0 .. x>> \notin StrictSubsetOrdering(Nat)
    BY <1>4, <1>5
  <2>2. y < x /\ 0 .. y \subseteq 0 .. x /\ 0 .. y # 0 .. x
        /\ 0 .. x \in SUBSET Nat /\ 0 .. y \in SUBSET Nat
    BY <1>6
  <2> HIDE DEF Upto
  <2>3. QED
    BY <2>1, <2>2 DEF StrictSubsetOrdering
<1>7. QED
  BY <1>6

-------------------------------------------------------------------------------
\* In a finite set S that Q orders strictly and totally, each element is the k-th
\* for one k, the k-th is one element for each k, and k tells who comes first.
Before(S, Q, x) == {y \in S : <<y, x>> \in Q}

StrictOrder(S, Q) ==
  /\ IsFiniteSet(S)
  /\ \A x \in S : <<x, x>> \notin Q
  /\ \A x, y, z \in S : <<x, y>> \in Q /\ <<y, z>> \in Q => <<x, z>> \in Q
  /\ \A x, y \in S : x # y => <<x, y>> \in Q \/ <<y, x>> \in Q

LEMMA RankGrows ==
  ASSUME NEW S, NEW Q, StrictOrder(S, Q), NEW x \in S, NEW y \in S, <<x, y>> \in Q
  PROVE  Cardinality(Before(S, Q, x)) < Cardinality(Before(S, Q, y))
<1>1. Before(S, Q, x) \subseteq Before(S, Q, y) /\ x \in Before(S, Q, y) /\ x \notin Before(S, Q, x)
  BY DEF Before, StrictOrder
<1>2. IsFiniteSet(Before(S, Q, y)) /\ IsFiniteSet(Before(S, Q, x))
  BY FS_Subset DEF StrictOrder, Before
<1>3. /\ Cardinality(Before(S, Q, x)) <= Cardinality(Before(S, Q, y))
      /\ Cardinality(Before(S, Q, y)) # Cardinality(Before(S, Q, x))
  BY <1>1, <1>2, FS_Subset
<1>4. Cardinality(Before(S, Q, x)) \in Nat /\ Cardinality(Before(S, Q, y)) \in Nat
  BY <1>2, FS_CardinalityType
<1>5. QED
  BY <1>3, <1>4

LEMMA RankIsPlace ==
  ASSUME NEW S, NEW Q, StrictOrder(S, Q)
  PROVE  /\ Cardinality(S) \in Nat
         /\ \A x \in S : Cardinality(Before(S, Q, x)) \in 0 .. Cardinality(S) - 1
         /\ \A x, y \in S : Cardinality(Before(S, Q, x)) = Cardinality(Before(S, Q, y)) => x = y
         /\ \A k \in 1 .. Cardinality(S) : \E x \in S : Cardinality(Before(S, Q, x)) = k - 1
<1> DEFINE n == Cardinality(S)
           rank == [x \in S |-> Cardinality(Before(S, Q, x))]
           image == 0 .. n - 1
<1>1. IsFiniteSet(S) /\ n \in Nat
  BY FS_CardinalityType DEF StrictOrder
<1>2. ASSUME NEW x \in S
      PROVE  Cardinality(Before(S, Q, x)) \in image
  <2>1. Before(S, Q, x) \in SUBSET S /\ x \notin Before(S, Q, x)
    BY DEF Before, StrictOrder
  <2>2. /\ IsFiniteSet(Before(S, Q, x))
        /\ Cardinality(Before(S, Q, x)) <= n
        /\ n # Cardinality(Before(S, Q, x))
    BY <1>1, <2>1, FS_Subset
  <2>3. Cardinality(Before(S, Q, x)) \in Nat
    BY <2>2, FS_CardinalityType
  <2>4. QED
    BY <1>1, <2>2, <2>3
<1>3. ASSUME NEW x \in S, NEW y \in S, Cardinality(Before(S, Q, x)) = Cardinality(Before(S, Q, y))
      PROVE  x = y
  <2>1. ~(<<x, y>> \in Q) /\ ~(<<y, x>> \in Q)
    <3>1. Cardinality(Before(S, Q, x)) \in Int
      BY <1>1, <1>2
    <3>2. QED
      BY <1>3, <3>1, RankGrows
  <2>2. QED
    BY <2>1 DEF StrictOrder
<1>4. IsFiniteSet(image) /\ Cardinality(image) = n
  <2>1. 0 \in Int /\ n - 1 \in Int /\ (IF 0 > n - 1 THEN 0 ELSE n - 1 - 0 + 1) = n
    BY <1>1
  <2> HIDE DEF n
  <2>2. QED
    BY <2>1, FS_Interval
<1> HIDE DEF image
<1>5. rank \in Injection(S, image)
  <2>1. rank \in [S -> image]
    BY <1>2
  <2>2. \A a, b \in S : rank[a] = rank[b] => a = b
    BY <1>3
  <2>3. QED
    BY <2>1, <2>2 DEF Injection, IsInjective
<1>6. rank \in Surjection(S, image)
  <2> HIDE DEF rank
  <2>1. QED
    BY <1>4, <1>5, FS_Injection
<1>7. ASSUME NEW k \in 1 .. n
      PROVE  \E x \in S : Cardinality(Before(S, Q, x)) = k - 1
  <2>1. k - 1 \in image
    BY <1>1 DEF image
  <2>2. QED
    BY <1>6, <2>1 DEF Surjection
<1>8. QED
  BY <1>1, <1>2, <1>3, <1>7 DEF image

-------------------------------------------------------------------------------
\* SettingsPage.

Forms == [targetGroups : SUBSET {r.id : r \in Resource}, loadBalancer : Fields]

\* While a save is under way neither the badge nor a failure is up; that the badge
\* is true needs it, as the server stores what the form does not show yet.
SettingsInv ==
  /\ config \in Forms /\ stored \in Forms /\ sent \in SUBSET Forms
  /\ discovered = Never \/ discovered \in SUBSET Resource
  /\ kept \in BOOLEAN /\ saved \in BOOLEAN /\ saveError \in BOOLEAN /\ touched \in BOOLEAN
  /\ sent # {} => ~saved /\ ~saveError
  /\ SavedBadgeIsTrue

LEMMA SettingsInitInv == SettingsInit => SettingsInv
<1> SUFFICES ASSUME SettingsInit
             PROVE  SettingsInv
  OBVIOUS
<1>1. stored \in Forms /\ config = stored
  BY DEF SettingsInit, Forms, Fields
<1>2. QED
  BY <1>1 DEF SettingsInit, SettingsInv, SavedBadgeIsTrue

LEMMA CanonicalForms ==
  ASSUME NEW c \in Forms
  PROVE  [c EXCEPT !.loadBalancer = Canonical[@]] \in Forms
<1>1. c.loadBalancer \in Fields /\ Canonical[c.loadBalancer] \in Fields
  BY SettingsPageAssumption DEF Forms
<1>2. QED
  BY <1>1 DEF Forms

\* A tick is of an id of a resource, and the field is filled from one.
LEMMA TickedForms ==
  ASSUME config \in Forms, NEW rs \in SUBSET Resource
  PROVE  /\ Ticked(rs) \in Forms
         /\ Ticked(rs).targetGroups = SymDiff(config.targetGroups, {r.id : r \in rs})
<1> DEFINE lbs == {r.loadBalancer : r \in rs} \ {Nothing}
           lb == IF config.loadBalancer = Nothing /\ lbs # {}
                 THEN CHOOSE l \in lbs : TRUE ELSE config.loadBalancer
           ids == SymDiff(config.targetGroups, {r.id : r \in rs})
<1>1. lbs \subseteq Fields
  BY DEF Fields
<1> HIDE DEF lbs
<1>2. lb \in Fields
  BY <1>1 DEF Forms
<1> HIDE DEF lb
<1>3. ids \subseteq {r.id : r \in Resource}
  BY DEF Forms, SymDiff
<1> HIDE DEF ids
<1>4. Ticked(rs) = [targetGroups |-> ids, loadBalancer |-> lb]
  BY DEF Ticked, ids, lb, lbs
<1>5. QED
  BY <1>2, <1>3, <1>4 DEF Forms, ids

\* What each edit of the form leaves in it.
LEMMA EditForms ==
  ASSUME SettingsInv, NEW c, Edited(c)
  PROVE  c \in Forms => SettingsInv'
<1> SUFFICES ASSUME c \in Forms
             PROVE  SettingsInv'
  OBVIOUS
<1>1. config' = c /\ touched' = TRUE /\ UNCHANGED <<saveVars, lookupVars>>
  BY DEF Edited
<1>2. QED
  BY <1>1 DEF SettingsInv, SavedBadgeIsTrue, saveVars, lookupVars

\* The rows on screen are resources.
LEMMA OfferedAreResources ==
  ASSUME SettingsInv
  PROVE  Offered \in SUBSET Resource /\ \A rs \in SUBSET Offered : Filtered(rs) \in SUBSET rs
  BY DEF SettingsInv, Offered, Filtered

LEMMA SettingsNextInv == SettingsInv /\ [SettingsNext]_settingsVars => SettingsInv'
<1> SUFFICES ASSUME SettingsInv, [SettingsNext]_settingsVars
             PROVE  SettingsInv'
  OBVIOUS
<1> USE DEF formVars, saveVars, lookupVars
<1>1. ASSUME NEW r \in Filtered(Offered), Tick(r)
      PROVE  SettingsInv'
  <2>1. {r} \in SUBSET Resource
    BY <1>1, OfferedAreResources
  <2>2. Ticked({r}) \in Forms
    BY <2>1, TickedForms DEF SettingsInv
  <2>3. QED
    BY <1>1, <2>2, EditForms DEF Tick
<1>2. ASSUME NEW lb, toggleGroup(lb)
      PROVE  SettingsInv'
  <2> DEFINE items == Filtered(Group(lb))
             all == \A r \in items : r.id \in config.targetGroups
             rs == {r \in items : r.id \in config.targetGroups <=> all}
  <2>1. rs \in SUBSET Resource
    BY OfferedAreResources DEF Group
  <2>2. Edited(Ticked(rs))
    BY <1>2 DEF toggleGroup
  <2> HIDE DEF rs
  <2>3. QED
    BY <2>1, <2>2, TickedForms, EditForms DEF SettingsInv
<1>3. ASSUME NEW id \in orphans, RemoveOrphan(id)
      PROVE  SettingsInv'
  <2> DEFINE c == [config EXCEPT !.targetGroups = SymDiff(@, {id})]
  <2>1. c \in Forms
    BY DEF SettingsInv, Forms, orphans, SymDiff
  <2>2. Edited(c)
    BY <1>3 DEF RemoveOrphan
  <2> HIDE DEF c
  <2>3. QED
    BY <2>1, <2>2, EditForms
<1>4. ASSUME NEW text \in Typed, Type(text)
      PROVE  SettingsInv'
  <2> DEFINE c == [config EXCEPT !.loadBalancer = text]
  <2>1. c \in Forms
    BY DEF SettingsInv, Forms, Fields
  <2>2. Edited(c)
    BY <1>4 DEF Type
  <2> HIDE DEF c
  <2>3. QED
    BY <2>1, <2>2, EditForms
<1>5. CASE TypeInFilter
  BY <1>5 DEF TypeInFilter, SettingsInv, SavedBadgeIsTrue
<1>6. CASE Discover
  BY <1>6 DEF Discover, SettingsInv, SavedBadgeIsTrue
<1>7. CASE DiscoverEnds
  <2>1. discovered' \in Lists \/ discovered' = discovered
    BY <1>7 DEF DiscoverEnds
  <2>2. discovered' = Never \/ discovered' \in SUBSET Resource
    BY <2>1, SettingsPageAssumption DEF SettingsInv
  <2>3. UNCHANGED <<formVars, saveVars>>
    BY <1>7 DEF DiscoverEnds
  <2>4. QED
    BY <2>2, <2>3 DEF SettingsInv, SavedBadgeIsTrue
<1>8. CASE Save
  BY <1>8 DEF Save, SettingsInv, SavedBadgeIsTrue
<1>9. CASE PutStores
  <2>1. PICK c \in sent : stored' = [c EXCEPT !.loadBalancer = Canonical[@]]
    BY <1>9 DEF PutStores
  <2>2. stored' \in Forms
    BY <2>1, CanonicalForms DEF SettingsInv
  <2>3. sent # {} /\ kept' = TRUE /\ UNCHANGED <<sent, saved, saveError, config, touched, discovered>>
    BY <1>9, <2>1 DEF PutStores
  <2>4. QED
    BY <2>2, <2>3 DEF SettingsInv, SavedBadgeIsTrue
<1>10. CASE SaveAnswered
  BY <1>10 DEF SaveAnswered, SettingsInv, SavedBadgeIsTrue
<1>11. CASE SaveFails
  BY <1>11 DEF SaveFails, SettingsInv, SavedBadgeIsTrue
<1>12. CASE BadgeEnds
  BY <1>12 DEF BadgeEnds, SettingsInv, SavedBadgeIsTrue
<1>13. CASE UNCHANGED settingsVars
  BY <1>13 DEF settingsVars, SettingsInv, SavedBadgeIsTrue
<1>14. QED
  BY <1>1, <1>2, <1>3, <1>4, <1>5, <1>6, <1>7, <1>8, <1>9, <1>10, <1>11, <1>12, <1>13 DEF SettingsNext

LEMMA SettingsSpecInv == SettingsSpec => []SettingsInv
  BY SettingsInitInv, SettingsNextInv, PTL DEF SettingsSpec

\* While the badge says saved and nothing was edited since, the form is what the
\* server holds, however the save, the edits and the lookups met
\* (settings/+page.svelte).
THEOREM SettingsBadgeIsTrue == SettingsSpec => []SavedBadgeIsTrue
  BY SettingsSpecInv, PTL DEF SettingsInv

\* What an edit does to the ticks: all of it on screen, and more than one only
\* under one heading, all or none of whose rows are then ticked.
InView ==
  LET changed == SymDiff(config'.targetGroups, config.targetGroups)
      heading == {r.loadBalancer : r \in {x \in Offered : x.id \in changed}}
  IN  changed # {} =>
        /\ changed \subseteq ShownIds \cup orphans
        /\ Cardinality(changed) > 1 =>
             \E lb \in heading :
               LET ids == {r.id : r \in Filtered(Group(lb))}
               IN  ids \subseteq config'.targetGroups \/ ids \cap config'.targetGroups = {}

LEMMA OneTickInView ==
  ASSUME NEW id \in ShownIds \cup orphans,
         config'.targetGroups = SymDiff(config.targetGroups, {id})
  PROVE  InView
<1>1. SymDiff(config'.targetGroups, config.targetGroups) = {id}
  BY DEF SymDiff
<1>2. ~(Cardinality({id}) > 1)
  <2>1. Cardinality({id}) = 1
    BY FS_Singleton
  <2>2. QED
    BY <2>1
<1>3. QED
  BY <1>1, <1>2 DEF InView

LEMMA GroupInView ==
  ASSUME NEW lb, SettingsInv, toggleGroup(lb)
  PROVE  InView
<1> DEFINE items == Filtered(Group(lb))
           all == \A r \in items : r.id \in config.targetGroups
           rs == {r \in items : r.id \in config.targetGroups <=> all}
           ids == {r.id : r \in rs}
<1>1. items \subseteq Filtered(Offered) /\ items \subseteq Offered /\ \A r \in items : r.loadBalancer = lb
  BY DEF Filtered, Group
<1>2. rs \in SUBSET Resource
  BY <1>1, OfferedAreResources
<1>3. config' = Ticked(rs)
  BY DEF toggleGroup, Edited
<1>4. config'.targetGroups = SymDiff(config.targetGroups, ids)
  <2> HIDE DEF rs
  <2>1. QED
    BY <1>2, <1>3, TickedForms DEF SettingsInv
<1>5. SymDiff(config'.targetGroups, config.targetGroups) = ids
  BY <1>4 DEF SymDiff
<1>6. ids \subseteq ShownIds
  BY <1>1 DEF ShownIds
<1>7. \/ {r.id : r \in items} \subseteq config'.targetGroups
      \/ {r.id : r \in items} \cap config'.targetGroups = {}
  <2>1. CASE all
    BY <1>4, <2>1 DEF SymDiff
  <2>2. CASE ~all
    <3>1. rs = {r \in items : r.id \notin config.targetGroups}
      BY <2>2
    <3> HIDE DEF rs
    <3>2. QED
      BY <1>4, <3>1 DEF SymDiff
  <2>3. QED
    BY <2>1, <2>2
<1>8. ids # {} => lb \in {r.loadBalancer : r \in {x \in Offered : x.id \in ids}}
  BY <1>1
<1>9. QED
  <2> HIDE DEF ids
  <2>1. QED
    BY <1>5, <1>6, <1>7, <1>8 DEF InView

\* No edit changes a tick out of sight, whatever was filtered and looked up before
\* it, and a heading's button leaves its rows on screen alike
\* (ResourcePicker.svelte, settings/+page.svelte).
THEOREM SettingsTicksStayInView == SettingsSpec => TicksStayInView
<1>1. ASSUME SettingsInv, [SettingsNext]_settingsVars, edits' # edits
      PROVE  InView
  <2>1. ASSUME NEW r \in Filtered(Offered), Tick(r)
        PROVE  InView
    <3>1. {r} \in SUBSET Resource /\ r.id \in ShownIds
      BY <1>1, <2>1, OfferedAreResources DEF ShownIds
    <3>2. config' = Ticked({r})
      BY <2>1 DEF Tick, Edited
    <3>3. config'.targetGroups = SymDiff(config.targetGroups, {r.id})
      BY <1>1, <3>1, <3>2, TickedForms DEF SettingsInv
    <3>4. QED
      BY <3>1, <3>3, OneTickInView
  <2>2. ASSUME NEW lb, toggleGroup(lb)
        PROVE  InView
    BY <1>1, <2>2, GroupInView
  <2>3. ASSUME NEW id \in orphans, RemoveOrphan(id)
        PROVE  InView
    <3>1. config'.targetGroups = SymDiff(config.targetGroups, {id})
      BY <1>1, <2>3 DEF RemoveOrphan, Edited, SettingsInv, Forms
    <3>2. QED
      BY <3>1, OneTickInView
  <2>4. ASSUME NEW text \in Typed, Type(text)
        PROVE  InView
    <3>1. config'.targetGroups = config.targetGroups
      BY <1>1, <2>4 DEF Type, Edited, SettingsInv, Forms
    <3>2. QED
      BY <3>1 DEF InView, SymDiff
  <2>5. \/ \E r \in Filtered(Offered) : Tick(r)
        \/ \E lb \in {r.loadBalancer : r \in Offered} : toggleGroup(lb)
        \/ \E id \in orphans : RemoveOrphan(id)
        \/ \E text \in Typed : Type(text)
    BY <1>1 DEF SettingsNext, TypeInFilter, Discover, DiscoverEnds, Save, PutStores, SaveAnswered,
                SaveFails, BadgeEnds, settingsVars, formVars
  <2>6. QED
    BY <2>1, <2>2, <2>3, <2>4, <2>5
<1>2. QED
  BY <1>1, SettingsSpecInv, PTL DEF SettingsSpec, TicksStayInView, InView

-------------------------------------------------------------------------------
\* Startup.

\* Nobody is connected before the port is open.
ConnsInv ==
  /\ conns \in [Conn -> {"none", "idle", "active"}]
  /\ phase \notin {"up", "stopping"} => \A c \in Conn : conns[c] = "none"

LEMMA ConnsInitInv == Init => ConnsInv
  BY DEF Init, ConnsInv

\* Of one step: what becomes of the connections, and when one in use is cut.
CutInGrace ==
  \A c \in Conn :
    conns[c] = "active" /\ conns'[c] = "none" /\ ~Leaves(c) /\ ~AnsweredLast(c)
      => phase = "stopping" /\ clock = Grace

LEMMA TurnsKeep ==
  ASSUME ConnsInv, NEW d \in Conn, NEW to \in {"none", "idle", "active"}, NEW from, Turns(d, from, to),
         phase \in {"up", "stopping"}
  PROVE  ConnsInv' /\ \A c \in Conn : conns'[c] = IF c = d THEN to ELSE conns[c]
  BY DEF ConnsInv, Turns

LEMMA ConnsNext ==
  ASSUME ConnsInv, [Next]_vars
  PROVE  ConnsInv' /\ CutInGrace
<1> USE DEF ConnsInv, CutInGrace
<1>1. ASSUME NEW status, Exit(status)
      PROVE  ConnsInv'
  BY <1>1 DEF Exit
<1>2. CASE LoadsConfig
  BY <1>2 DEF LoadsConfig, Exit
<1>3. CASE findEnvFile
  <2>1. phase = "env" /\ phase' \in {"aws", "gone"} /\ (conns' = conns \/ conns' = [c \in Conn |-> "none"])
    BY <1>3 DEF findEnvFile, Exit
  <2>2. QED
    BY <2>1
<1>4. CASE connectAWS
  BY <1>4 DEF connectAWS
<1>5. CASE Attempt
  <2>1. phase = "listen" /\ phase' \in {"up", "listen", "gone"}
        /\ (conns' = conns \/ conns' = [c \in Conn |-> "none"])
    BY <1>5 DEF Attempt, Exit
  <2>2. QED
    BY <2>1
<1>6. CASE OthersChange
  BY <1>6 DEF OthersChange
<1>7. ASSUME NEW d \in Conn, Opens(d) \/ Asks(d) \/ Answered(d) \/ AnsweredLast(d) \/ Leaves(d)
      PROVE  ConnsInv' /\ CutInGrace
  <2>1. CASE Opens(d) \/ Asks(d)
    <3>1. phase \in {"up", "stopping"} /\ \E from : Turns(d, from, "active")
      BY <2>1 DEF Opens, Asks
    <3>2. ConnsInv' /\ \A c \in Conn : conns'[c] = IF c = d THEN "active" ELSE conns[c]
      BY <3>1, TurnsKeep
    <3>3. QED
      BY <3>2
  <2>2. CASE Answered(d)
    <3>1. phase = "up" /\ Turns(d, "active", "idle")
      BY <2>2 DEF Answered
    <3>2. ConnsInv' /\ \A c \in Conn : conns'[c] = IF c = d THEN "idle" ELSE conns[c]
      BY <3>1, TurnsKeep
    <3>3. QED
      BY <3>2
  <2>3. CASE AnsweredLast(d) \/ Leaves(d)
    <3>1. phase \in {"up", "stopping"} /\ \E from, to : to \in {"none", "idle"} /\ Turns(d, from, to)
      BY <2>3 DEF AnsweredLast, Leaves
    <3>2. PICK to \in {"none", "idle"} : \E from : Turns(d, from, to)
      BY <3>1
    <3>3. ConnsInv' /\ \A c \in Conn : conns'[c] = IF c = d THEN to ELSE conns[c]
      BY <3>1, <3>2, TurnsKeep
    <3>4. QED
      BY <2>3, <3>3
  <2>4. QED
    BY <1>7, <2>1, <2>2, <2>3
<1>8. CASE Stop
  <2>1. CASE phase = "up"
    BY <1>8, <2>1 DEF Stop
  <2>2. CASE phase # "up"
    BY <1>8, <2>2 DEF Stop, Exit
  <2>3. QED
    BY <2>1, <2>2
<1>9. CASE Closed
  BY <1>9 DEF Closed, Exit
<1>10. CASE Expires
  BY <1>10 DEF Expires, Exit
<1>11. CASE TimePasses
  BY <1>11 DEF TimePasses
<1>12. CASE UNCHANGED vars
  BY <1>12 DEF vars
<1>13. QED
  BY <1>2, <1>3, <1>4, <1>5, <1>6, <1>7, <1>8, <1>9, <1>10, <1>11, <1>12 DEF Next

\* A request under way when the signal comes is cut at the end of the grace and not
\* before, whenever the signal comes and whoever else is connected
\* (main.ts, installShutdown).
THEOREM StartupGraceIsKept == Spec => GraceIsKept
<1>1. ConnsInv /\ [Next]_vars => ConnsInv'
  BY ConnsNext
<1>2. ConnsInv /\ [Next]_vars => CutInGrace
  BY ConnsNext
<1>3. QED
  BY ConnsInitInv, <1>1, <1>2, PTL DEF Spec, GraceIsKept, CutInGrace

-------------------------------------------------------------------------------
\* DataTable.

TableInv ==
  /\ rows \in Tables
  /\ shown \in Nat
  /\ open = {} \/ \E key, index : open = {[key |-> key, index |-> index]}

\* What is on screen is a list of rows, whatever the filter and the sort.
LEMMA SortedIsList ==
  ASSUME rows \in Tables
  PROVE  /\ IsFiniteSet(filtered) /\ Cardinality(filtered) \in Nat
         /\ sorted \in Seq({sorted[k] : k \in DOMAIN sorted}) /\ Len(sorted) = Cardinality(filtered)
         /\ DOMAIN sorted = 1 .. Len(sorted)
<1> DEFINE n == Len(rows)
           c == Cardinality(filtered)
<1>1. rows \in Seq(DOMAIN Rank)
  BY DataTableAssumption
<1>2. n \in Nat /\ DOMAIN rows = 1 .. n
  BY <1>1
<1> HIDE DEF n
<1>3. IsFiniteSet(1 .. n)
  BY <1>2, FS_Interval
<1>4. filtered \in SUBSET (1 .. n)
  BY <1>2 DEF filtered
<1>5. IsFiniteSet(filtered)
  BY <1>3, <1>4, FS_Subset
<1>6. c \in Nat
  BY <1>5, FS_CardinalityType
<1>7. DOMAIN sorted = 1 .. c /\ sorted = [k \in 1 .. c |-> sorted[k]]
  BY DEF sorted
<1> HIDE DEF c
<1>8. sorted \in [1 .. c -> {sorted[k] : k \in DOMAIN sorted}]
  BY <1>7
<1>9. QED
  BY <1>5, <1>6, <1>7, <1>8 DEF c

LEMMA VisibleIsList ==
  ASSUME rows \in Tables, shown \in Nat
  PROVE  /\ DOMAIN visible \in SUBSET (Nat \ {0})
         /\ visible \in Seq({sorted[k] : k \in DOMAIN sorted})
<1> DEFINE T == {sorted[k] : k \in DOMAIN sorted}
           last_ == Least(shown, Len(sorted))
<1>1. sorted \in Seq(T) /\ Len(sorted) \in Nat /\ DOMAIN sorted = 1 .. Len(sorted)
  BY SortedIsList
<1>2. last_ \in Nat /\ 1 .. last_ \subseteq DOMAIN sorted
  BY <1>1 DEF Least
<1>3. \A i \in 1 .. last_ : sorted[i] \in T
  BY <1>2
<1> HIDE DEF T, last_
<1>4. SubSeq(sorted, 1, last_) \in Seq(T)
  BY <1>2, <1>3, SubSeqProperties
<1>5. visible \in Seq(T)
  BY <1>4 DEF visible, last_
<1>6. DOMAIN visible = 1 .. Len(visible) /\ Len(visible) \in Nat
  BY <1>5
<1>7. QED
  BY <1>5, <1>6 DEF T

\* Where the opened row o is in the list v, as openIndex has it.
IndexOf(v, key, index) ==
  LET places == {i \in DOMAIN v : v[i] = key}
  IN  IF index \in DOMAIN v /\ v[index] = key THEN index
      ELSE IF places = {} THEN 0 ELSE CHOOSE i \in places : \A j \in places : i <= j

IndexIn(v, o) ==
  IF o = {} THEN 0 ELSE LET at == CHOOSE x \in o : TRUE IN IndexOf(v, at.key, at.index)

LEMMA IndexIsOfRow ==
  ASSUME NEW v, DOMAIN v \in SUBSET (Nat \ {0}), NEW key, NEW index
  PROVE  LET i == IndexIn(v, {[key |-> key, index |-> index]})
         IN  /\ i # 0 => i \in DOMAIN v /\ v[i] = key
             /\ i = 0 => \A j \in DOMAIN v : v[j] # key
             /\ index \in DOMAIN v /\ v[index] = key => i = index
<1> DEFINE at == [key |-> key, index |-> index]
           places == {j \in DOMAIN v : v[j] = key}
<1>1. (CHOOSE x \in {at} : TRUE) = at /\ {at} # {}
  OBVIOUS
<1>2. at.key = key /\ at.index = index
  OBVIOUS
<1>3. places # {} => \E x \in places : \A y \in places : x <= y
  BY MinExists
<1> HIDE DEF at
<1>4. IndexIn(v, {at}) = IF index \in DOMAIN v /\ v[index] = key THEN index
                         ELSE IF places = {} THEN 0 ELSE CHOOSE i \in places : \A j \in places : i <= j
  <2>1. IndexIn(v, {at}) = IndexOf(v, key, index)
    BY <1>1, <1>2 DEF IndexIn
  <2>2. QED
    BY <2>1 DEF IndexOf
<1>5. QED
  BY <1>3, <1>4 DEF at

LEMMA TableInitInv == TableInit => TableInv
  BY DataTableAssumption DEF TableInit, TableInv

LEMMA TableNextInv == TableInv /\ [TableNext]_tableVars => TableInv'
<1> SUFFICES ASSUME TableInv, [TableNext]_tableVars
             PROVE  TableInv'
  OBVIOUS
<1> USE DEF TableInv
<1>1. ASSUME NEW t \in Tables, TableRefresh(t)
      PROVE  TableInv'
  BY <1>1 DEF TableRefresh
<1>2. CASE TypeFilter
  BY <1>2 DEF TypeFilter
<1>3. CASE toggleSort
  BY <1>3 DEF toggleSort
<1>4. ASSUME NEW i \in DOMAIN visible, ToggleRow(i)
      PROVE  TableInv'
  BY <1>4 DEF ToggleRow
<1>5. CASE More
  <2>1. shown + step \in Nat
    BY DataTableAssumption
  <2>2. Len(sorted) \in Nat
    BY SortedIsList
  <2>3. shown' \in Nat /\ UNCHANGED <<rows, open>>
    BY <1>5, <2>1, <2>2 DEF More, Least
  <2>4. QED
    BY <2>3
<1>6. CASE Fold
  BY <1>6, DataTableAssumption DEF Fold
<1>7. CASE UNCHANGED tableVars
  BY <1>7 DEF tableVars
<1>8. QED
  BY <1>1, <1>2, <1>3, <1>4, <1>5, <1>6, <1>7 DEF TableNext

LEMMA TableSpecInv == TableSpec => []TableInv
  BY TableInitInv, TableNextInv, PTL DEF TableSpec

\* Of one step: what becomes of the detail.
DetailStays ==
  LET was == openIndex(open)
      is == openIndex(open)'
  IN  IF open' # open
      THEN \E i \in DOMAIN visible : is = IF i = was THEN 0 ELSE i
      ELSE /\ was # 0 /\ is # 0 => visible'[is] = visible[was]
           /\ was # 0 /\ is = 0 => visible[was] \notin ToSet(visible')

\* The detail stays with what was pressed: no sort, filter, fold or refresh moves it
\* under a row that reads otherwise or takes it from one still there, for rows that
\* read alike too (DataTable.svelte).
THEOREM TableDetailFollowsItsRow == TableSpec => DetailFollowsItsRow
<1> DEFINE was == IndexIn(visible, open)
           is == IndexIn(visible', open')
           Follows == IF open' # open
                      THEN \E i \in DOMAIN visible : is = IF i = was THEN 0 ELSE i
                      ELSE /\ was # 0 /\ is # 0 => visible'[is] = visible[was]
                           /\ was # 0 /\ is = 0 => visible[was] \notin ToSet(visible')
<1>1. ASSUME TableInv, TableInv', [TableNext]_tableVars
      PROVE  Follows
  <2>1. DOMAIN visible \in SUBSET (Nat \ {0}) /\ DOMAIN visible' \in SUBSET (Nat \ {0})
    <3>1. DOMAIN visible \in SUBSET (Nat \ {0})
      BY <1>1, VisibleIsList DEF TableInv
    <3>2. (DOMAIN visible \in SUBSET (Nat \ {0}))'
      BY <1>1, VisibleIsList DEF TableInv
    <3>3. QED
      BY <3>1, <3>2
  <2>2. CASE open' = open
    <3>1. CASE open = {}
      BY <2>2, <3>1 DEF IndexIn
    <3>2. CASE open # {}
      <4>1. PICK key, index : open = {[key |-> key, index |-> index]}
        BY <1>1, <3>2 DEF TableInv
      <4>2. /\ was # 0 => was \in DOMAIN visible /\ visible[was] = key
            /\ is # 0 => is \in DOMAIN visible' /\ visible'[is] = key
            /\ is = 0 => \A j \in DOMAIN visible' : visible'[j] # key
        <5>1. open' = {[key |-> key, index |-> index]}
          BY <2>2, <4>1
        <5>2. was # 0 => was \in DOMAIN visible /\ visible[was] = key
          BY <2>1, <4>1, IndexIsOfRow
        <5>3. /\ is # 0 => is \in DOMAIN visible' /\ visible'[is] = key
              /\ is = 0 => \A j \in DOMAIN visible' : visible'[j] # key
          BY <2>1, <5>1, IndexIsOfRow
        <5>4. QED
          BY <5>2, <5>3
      <4> HIDE DEF was, is
      <4>3. ToSet(visible') = {visible'[j] : j \in DOMAIN visible'}
        BY DEF ToSet
      <4>4. QED
        BY <2>2, <4>2, <4>3
    <3>3. QED
      BY <3>1, <3>2
  <2>3. CASE open' # open
    <3>1. PICK i \in DOMAIN visible : ToggleRow(i)
      BY <1>1, <2>3 DEF TableNext, TableRefresh, TypeFilter, toggleSort, More, Fold, tableVars
    <3>2. visible' = visible
      BY <3>1 DEF ToggleRow, visible, sorted, filtered, Precedes, compare, sign
    <3>3. openIndex(open) = was
      BY DEF openIndex, FirstThatReads, IndexIn, IndexOf
    <3>4. CASE i = was
      <4>1. open' = {}
        BY <3>1, <3>3, <3>4 DEF ToggleRow
      <4>2. is = 0
        BY <4>1 DEF IndexIn
      <4>3. QED
        BY <2>3, <3>4, <4>2
    <3>5. CASE i # was
      <4>1. open' = {[key |-> visible[i], index |-> i]}
        BY <3>1, <3>3, <3>5 DEF ToggleRow
      <4>2. is = i
        BY <2>1, <3>2, <4>1, IndexIsOfRow
      <4> HIDE DEF is, was
      <4>3. QED
        BY <2>3, <3>5, <4>2
    <3>6. QED
      BY <3>4, <3>5
  <2>4. QED
    BY <2>2, <2>3
<1>2. was = openIndex(open) /\ is = openIndex(open)'
  BY DEF openIndex, FirstThatReads, IndexIn, IndexOf
<1> HIDE DEF was, is
<1>3. TableInv /\ TableInv' /\ [TableNext]_tableVars => DetailStays
  BY <1>1, <1>2 DEF DetailStays
<1>4. QED
  BY <1>3, TableSpecInv, PTL DEF TableSpec, DetailFollowsItsRow, DetailStays

-------------------------------------------------------------------------------
\* Chart.

LEMMA SamplesAreNumbers ==
  ASSUME NEW s \in Charts, NEW i \in DOMAIN s, NEW t
  PROVE  Sample(s, i, t) \in Int \cup {Gap}
<1>1. s[i].values \in Seq(Int \cup {Gap})
  BY ChartAssumption
<1>2. \A u \in DOMAIN s[i].values : s[i].values[u] \in Int \cup {Gap}
  BY <1>1
<1>3. QED
  BY <1>2 DEF Sample

\* The busiest first is an order: gaps last, and of equals the first listed.
LEMMA BusierOrders ==
  ASSUME NEW s \in Charts, NEW off, NEW t
  PROVE  LET on == DOMAIN s \ off
         IN  StrictOrder(on, {p \in on \X on : Busier(s, t, p[1], p[2])})
<1> DEFINE on == DOMAIN s \ off
           Q == {p \in on \X on : Busier(s, t, p[1], p[2])}
<1>1. /\ Len(s) \in Nat /\ DOMAIN s = 1 .. Len(s)
      /\ \A i \in DOMAIN s : s[i].values \in Seq(Int \cup {Gap})
  BY ChartAssumption
<1>2. IsFiniteSet(on) /\ \A i \in on : i \in Int
  <2>1. IsFiniteSet(1 .. Len(s))
    BY <1>1, FS_Interval
  <2>2. on \in SUBSET (1 .. Len(s))
    BY <1>1
  <2>3. \A i \in on : i \in Int
    BY <2>2
  <2> HIDE DEF on
  <2>4. IsFiniteSet(on)
    BY <2>1, <2>2, FS_Subset
  <2>5. QED
    BY <2>3, <2>4
<1>3. ASSUME NEW i \in on
      PROVE  Sample(s, i, t) \in Int \cup {Gap}
  BY SamplesAreNumbers
<1> HIDE DEF on
<1>4. \A i, j \in on : <<i, j>> \in Q <=> Busier(s, t, i, j)
  OBVIOUS
<1> HIDE DEF Q
<1>5. \A i \in on : ~Busier(s, t, i, i)
  BY <1>2, <1>3 DEF Busier
<1>6. ASSUME NEW i \in on, NEW j \in on, NEW k \in on, Busier(s, t, i, j), Busier(s, t, j, k)
      PROVE  Busier(s, t, i, k)
  <2>1. /\ i \in Int /\ j \in Int /\ k \in Int
        /\ Sample(s, i, t) \in Int \cup {Gap} /\ Sample(s, j, t) \in Int \cup {Gap}
        /\ Sample(s, k, t) \in Int \cup {Gap}
    BY <1>2, <1>3
  <2>2. QED
    BY <1>6, <2>1 DEF Busier
<1>7. ASSUME NEW i \in on, NEW j \in on, i # j
      PROVE  Busier(s, t, i, j) \/ Busier(s, t, j, i)
  <2>1. /\ i \in Int /\ j \in Int
        /\ Sample(s, i, t) \in Int \cup {Gap} /\ Sample(s, j, t) \in Int \cup {Gap}
    BY <1>2, <1>3
  <2>2. QED
    BY <1>7, <2>1 DEF Busier
<1>8. StrictOrder(on, Q)
  BY <1>2, <1>4, <1>5, <1>6, <1>7 DEF StrictOrder
<1>9. QED
  BY <1>8 DEF on, Q

\* What ReadoutIsOfCanvas says, of a canvas c and a readout r.
Lit(c) == {i \in DOMAIN c.show : c.show[i]}

Tells(c, r, t) ==
  /\ Cardinality(Lit(c)) = Len(r.rows) + r.omitted
  /\ \A k \in DOMAIN r.rows :
       \E i \in Lit(c) : c.shapes[i] = r.rows[k].label /\ c.data[i][t] = r.rows[k].point
  /\ r.omitted > 0 => Len(r.rows) = MAX_TOOLTIP_ROWS
  /\ r.omitted > 0 =>
       \A k \in DOMAIN r.rows : \A i \in Lit(c) :
         \/ c.shapes[i] \in {r.rows[j].label : j \in DOMAIN r.rows}
         \/ c.data[i][t] = Gap
         \/ r.rows[k].point # Gap /\ r.rows[k].point >= c.data[i][t]

\* The readout of a payload tells of the canvas that is built from it.
LEMMA ReadoutTells ==
  ASSUME NEW s \in Charts, NEW off, NEW t \in 1 .. Axis
  PROVE  Tells(Built(s, off), tooltipRows(s, off, t), t)
<1> DEFINE on == DOMAIN s \ off
           Q == {p \in on \X on : Busier(s, t, p[1], p[2])}
           place(i) == Cardinality(Before(on, Q, i))
           ranked(k) == CHOOSE i \in on : Cardinality({j \in on : Busier(s, t, j, i)}) = k - 1
           n == Cardinality(on)
           told == IF n > MAX_TOOLTIP_ROWS THEN MAX_TOOLTIP_ROWS ELSE n
           c == Built(s, off)
           r == tooltipRows(s, off, t)
<1>1. StrictOrder(on, Q)
  BY BusierOrders
<1>2. \A i \in on : Before(on, Q, i) = {j \in on : Busier(s, t, j, i)}
  BY DEF Before
<1>3. \A i, j \in on : Busier(s, t, i, j) <=> <<i, j>> \in Q
  OBVIOUS
<1>4. Lit(c) = on
  BY DEF Lit, Built
<1>5. \A i \in on : c.shapes[i] = s[i].shape /\ c.data[i][t] = Sample(s, i, t)
  BY DEF Built, shapeKey, toData, alignedValues, Sample
<1>6. /\ r.rows = [k \in 1 .. told |-> [label |-> s[ranked(k)].shape, point |-> Sample(s, ranked(k), t)]]
      /\ r.omitted = n - told
  BY DEF tooltipRows
<1> HIDE DEF on, Q, c, r
<1>7. /\ n \in Nat
      /\ \A i \in on : place(i) \in 0 .. n - 1
      /\ \A i, j \in on : place(i) = place(j) => i = j
      /\ \A k \in 1 .. n : \E i \in on : place(i) = k - 1
  BY <1>1, RankIsPlace
<1>8. \A k \in 1 .. n : ranked(k) \in on /\ place(ranked(k)) = k - 1
  BY <1>2, <1>7
<1> HIDE DEF n
<1>9. told \in Nat /\ told <= n /\ (told < n => told = MAX_TOOLTIP_ROWS)
  BY <1>7, ChartAssumption
<1> HIDE DEF told, ranked
<1>10. DOMAIN r.rows = 1 .. told /\ Len(r.rows) = told
  BY <1>6, <1>9
<1>11. \A k \in 1 .. told :
         /\ ranked(k) \in on /\ place(ranked(k)) = k - 1
         /\ r.rows[k].label = s[ranked(k)].shape /\ r.rows[k].point = Sample(s, ranked(k), t)
  BY <1>6, <1>7, <1>8, <1>9
<1>12. ASSUME NEW k \in 1 .. told, NEW i \in on
       PROVE  \/ c.shapes[i] \in {r.rows[j].label : j \in DOMAIN r.rows}
              \/ c.data[i][t] = Gap
              \/ r.rows[k].point # Gap /\ r.rows[k].point >= c.data[i][t]
  <2>1. CASE place(i) < told
    <3>1. place(i) + 1 \in 1 .. told /\ place(i) \in Int
      BY <1>7, <1>9, <2>1
    <3>2. place(ranked(place(i) + 1)) = place(i) + 1 - 1 /\ ranked(place(i) + 1) \in on
      BY <1>11, <3>1
    <3>3. ranked(place(i) + 1) = i
      BY <1>7, <3>1, <3>2
    <3>4. c.shapes[i] = r.rows[place(i) + 1].label
      BY <1>5, <1>11, <3>1, <3>3
    <3>5. QED
      BY <1>10, <3>1, <3>4
  <2>2. CASE ~(place(i) < told)
    <3> DEFINE x == ranked(k)
    <3>1. x \in on /\ place(x) = k - 1 /\ r.rows[k].point = Sample(s, x, t)
      BY <1>11
    <3> HIDE DEF x
    <3>2. place(x) < place(i)
      BY <1>7, <1>9, <2>2, <3>1
    <3>3. <<x, i>> \in Q
      <4>1. x # i
        BY <1>7, <3>1, <3>2
      <4>2. ~(<<i, x>> \in Q)
        <5>1. <<i, x>> \in Q => place(i) < place(x)
          BY <1>1, <3>1, RankGrows
        <5>2. place(i) \in Int /\ place(x) \in Int
          BY <1>7, <3>1
        <5>3. QED
          BY <3>2, <5>1, <5>2
      <4>3. QED
        BY <1>1, <3>1, <4>1, <4>2 DEF StrictOrder
    <3>4. Busier(s, t, x, i)
      BY <1>3, <3>1, <3>3
    <3>5. c.data[i][t] = Sample(s, i, t)
      BY <1>5
    <3>6. Sample(s, i, t) \in Int \cup {Gap} /\ Sample(s, x, t) \in Int \cup {Gap}
      BY <3>1, SamplesAreNumbers DEF on
    <3>7. QED
      BY <3>1, <3>4, <3>5, <3>6 DEF Busier
  <2>3. QED
    BY <2>1, <2>2
<1>13. ASSUME NEW k \in 1 .. told
       PROVE  \E i \in on : c.shapes[i] = r.rows[k].label /\ c.data[i][t] = r.rows[k].point
  BY <1>5, <1>11
<1>14. n = Len(r.rows) + r.omitted /\ (r.omitted > 0 => Len(r.rows) = MAX_TOOLTIP_ROWS)
  BY <1>6, <1>7, <1>9, <1>10
<1>15. QED
  BY <1>4, <1>10, <1>12, <1>13, <1>14 DEF Tells, c, r, n

\* The canvas is that of the payload and the legend; the readout is of the payload
\* at the sample it was written for, while that sample is known and the canvas is
\* the one it was written over.
ChartInv ==
  /\ series \in Charts
  /\ canvas = Built(series, hidden)
  /\ cursor \in 1 .. Axis \cup {None}
  /\ frame \in SUBSET (1 .. Axis \cup {None})
  /\ rebuilt \in BOOLEAN
  /\ \/ tip = None \/ rebuilt \/ renderedIdx = 0
     \/ renderedIdx \in 1 .. Axis /\ tip = tooltipRows(series, hidden, renderedIdx)

\* Of one step: the readout that a frame leaves.
ReadoutOfFrame == FlushTip => tip' = None \/ rebuilt' \/ ReadoutIsOfCanvas(renderedIdx)'

LEMMA ChartInitInv == ChartInit => ChartInv
  BY DEF ChartInit, ChartInv

\* New numbers for the same lines.
LEMMA RefilledCanvas ==
  ASSUME NEW s, NEW z, NEW off, shapeKey(z) = shapeKey(s)
  PROVE  [Built(s, off) EXCEPT !.data = toData(z)] = Built(z, off)
<1>1. DOMAIN s = DOMAIN z
  <2>1. DOMAIN shapeKey(s) = DOMAIN s /\ DOMAIN shapeKey(z) = DOMAIN z
    BY DEF shapeKey
  <2>2. QED
    BY <2>1
<1> DEFINE on(y) == [i \in DOMAIN y |-> i \notin off]
<1>2. \A y : Built(y, off) = [shapes |-> shapeKey(y), show |-> on(y), data |-> toData(y)]
  BY DEF Built
<1>3. on(s) = on(z)
  BY <1>1
<1> HIDE DEF on
<1>4. QED
  BY <1>2, <1>3

LEMMA ChartNextInv ==
  ASSUME ChartInv, [ChartNext]_chartVars
  PROVE  ChartInv'
<1> USE DEF ChartInv
<1>1. ASSUME NEW s \in Charts, ChartRefresh(s)
      PROVE  ChartInv'
  <2>1. CASE shapeKey(s) # shapeKey(series)
    BY <1>1, <2>1 DEF ChartRefresh, create
  <2>2. CASE shapeKey(s) = shapeKey(series)
    <3>1. canvas' = Built(s, hidden)
      BY <1>1, <2>2, RefilledCanvas DEF ChartRefresh
    <3>2. renderedIdx' = 0 /\ frame' = {cursor} /\ cursor' = cursor /\ rebuilt' = rebuilt
          /\ series' = s /\ hidden' = hidden
      BY <1>1, <2>2 DEF ChartRefresh
    <3>3. QED
      BY <3>1, <3>2
  <2>3. QED
    BY <2>1, <2>2
<1>2. ASSUME NEW i \in DOMAIN series, ToggleLine(i)
      PROVE  ChartInv'
  <2>1. canvas' = Built(series, hidden')
    <3>1. hidden' = SymDiff(hidden, {i}) /\ canvas = Built(series, hidden)
          /\ canvas' = [canvas EXCEPT !.show[i] = i \notin hidden']
      BY <1>2 DEF ToggleLine
    <3> DEFINE on == [j \in DOMAIN series |-> j \notin hidden]
               turned == [on EXCEPT ![i] = i \notin hidden']
    <3>2. turned = [j \in DOMAIN series |-> j \notin hidden']
      BY <3>1 DEF SymDiff
    <3>3. canvas = [shapes |-> shapeKey(series), show |-> on, data |-> toData(series)]
      BY <3>1 DEF Built
    <3>4. canvas' = [shapes |-> shapeKey(series), show |-> turned, data |-> toData(series)]
      BY <3>1, <3>3
    <3> HIDE DEF turned
    <3>5. QED
      BY <3>2, <3>4 DEF Built
  <2>2. renderedIdx' = 0 /\ UNCHANGED <<series, cursor, frame, rebuilt>>
    BY <1>2 DEF ToggleLine
  <2>3. QED
    BY <2>1, <2>2
<1>3. CASE ThemeChanges
  BY <1>3 DEF ThemeChanges, create
<1>4. CASE Enter
  BY <1>4 DEF Enter
<1>5. CASE Leave
  BY <1>5 DEF Leave, hideTip
<1>6. ASSUME NEW t \in 1 .. Axis \cup {None}, CursorMoves(t)
      PROVE  ChartInv'
  BY <1>6 DEF CursorMoves
<1>7. CASE FlushTip
  <2>1. UNCHANGED <<series, hidden, canvas, cursor>> /\ frame' = {}
    BY <1>7 DEF FlushTip
  <2>2. PICK idx \in frame :
          \/ hideTip
          \/ UNCHANGED <<tip, renderedIdx, rebuilt>>
          \/ /\ idx # None
             /\ tip' = tooltipRows(series, hidden, idx) /\ renderedIdx' = idx /\ rebuilt' = FALSE
    BY <1>7 DEF FlushTip
  <2>3. QED
    BY <2>1, <2>2 DEF hideTip
<1>8. CASE UNCHANGED chartVars
  BY <1>8 DEF chartVars
<1>9. QED
  BY <1>1, <1>2, <1>3, <1>4, <1>5, <1>6, <1>7, <1>8 DEF ChartNext

LEMMA FrameTells ==
  ASSUME ChartInv, ChartInv', FlushTip
  PROVE  tip' = None \/ rebuilt' \/ Tells(canvas', tip', renderedIdx')
<1>1. PICK idx \in frame :
        \/ tip' = None
        \/ idx # None /\ idx = renderedIdx /\ renderedIdx' = renderedIdx
        \/ idx # None /\ renderedIdx' = idx
  BY DEF FlushTip, hideTip
<1>2. tip' = None \/ renderedIdx' \in 1 .. Axis
  BY <1>1 DEF ChartInv
<1>3. CASE tip' # None /\ ~rebuilt'
  <2>1. renderedIdx' \in 1 .. Axis /\ series' \in Charts /\ canvas' = Built(series', hidden')
    BY <1>2, <1>3 DEF ChartInv
  <2>2. tip' = tooltipRows(series', hidden', renderedIdx')
    BY <1>3, <2>1 DEF ChartInv
  <2>3. QED
    BY <2>1, <2>2, ReadoutTells
<1>4. QED
  BY <1>3

\* The screen is of the payload: the canvas always, and the readout whenever a frame
\* has drawn it, for any number of lines, times and rows; a readout from before the
\* canvas was built anew is the one exception (UPlotChart.svelte, chart.ts:75-108).
THEOREM ChartScreenIsOfPayload == ChartSpec => ScreenIsOfPayload
<1>1. ChartInv /\ [ChartNext]_chartVars => ChartInv'
  BY ChartNextInv
<1>2. ChartInv => canvas = Built(series, hidden)
  BY DEF ChartInv
<1>3. ChartInv /\ ChartInv' => ReadoutOfFrame
  <2>1. Tells(canvas', tip', renderedIdx') => ReadoutIsOfCanvas(renderedIdx)'
    BY DEF Tells, Lit, ReadoutIsOfCanvas, On
  <2>2. QED
    BY <2>1, FrameTells DEF ReadoutOfFrame
<1>4. QED
  BY ChartInitInv, <1>1, <1>2, <1>3, PTL DEF ChartSpec, ScreenIsOfPayload, ReadoutOfFrame

===============================================================================
