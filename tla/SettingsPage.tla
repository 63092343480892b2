------------------------------ MODULE SettingsPage ----------------------------
(***************************************************************************)
(* The form of the settings page (web/src/routes/settings/+page.svelte)    *)
(* with the picker of target groups (lib/components/ResourcePicker.svelte, *)
(* lib/resources.ts): lookups replace the list under the ticks, and a save *)
(* is under way while the operator goes on editing.                        *)
(*                                                                         *)
(* Of the config, the target groups and the load balancer are kept: the    *)
(* one picked from a list, the other typed, and put in its canonical form  *)
(* by the server when it is stored.  The other fields are edited as one of *)
(* these two.                                                              *)
(*                                                                         *)
(* Bounds: MaxEdits counts what the operator does to the form.             *)
(***************************************************************************)
EXTENDS Integers, Sequences, FiniteSets, SequencesExt

CONSTANTS
  Resource,     (* target groups: [id, loadBalancer]                        *)
  Lists,        (* what a lookup may find: sets of resources                *)
  Found,        (* the ids that the text in the filter box finds            *)
  FilterFrom,   (* a list longer than this has a filter box: 8              *)
  Typed,        (* what may be typed as a load balancer                     *)
  Canonical,    (* text -> the form it is stored in                         *)
  Nothing,      (* the empty text                                           *)
  Never,        (* no lookup has been made                                  *)
  MaxEdits

\* What the field of the load balancer may come to hold.
Fields == Typed \cup {r.loadBalancer : r \in Resource} \cup {Nothing}

ASSUME SettingsPageAssumption ==
  /\ FilterFrom \in Nat /\ MaxEdits \in Nat
  /\ Lists \subseteq SUBSET Resource
  /\ Canonical \in [Fields -> Fields]
  /\ \A t \in Fields : Canonical[Canonical[t]] = Canonical[t]

VARIABLES
  config,       (* the form: targetGroups, loadBalancer                     *)
  stored,       (* the server's                                             *)
  sent,         (* the PUT under way: {} or its body                        *)
  kept,         (* the server has stored that body                          *)
  saved,        (* the badge                                                *)
  saveError,
  discovered,   (* what the last lookup found, or Never                     *)
  discovering, discoveryError,
  filter,       (* something is in the filter box                           *)
  touched,      (* history: edited since the badge appeared                 *)
  edits

formVars == <<config, touched, edits>>
saveVars == <<stored, sent, kept, saved, saveError>>
lookupVars == <<discovered, discovering, discoveryError, filter>>
settingsVars == <<formVars, saveVars, lookupVars>>

SettingsInit ==
  /\ stored \in [targetGroups : SUBSET {r.id : r \in Resource}, loadBalancer : {Nothing}]
  /\ config = stored
  /\ sent = {}
  /\ kept = FALSE
  /\ saved = FALSE
  /\ saveError = FALSE
  /\ discovered = Never
  /\ discovering = FALSE
  /\ discoveryError = FALSE
  /\ filter = FALSE
  /\ touched = FALSE
  /\ edits = 0

-------------------------------------------------------------------------------

Offered == IF discovered = Never THEN {} ELSE discovered

\* groupByLoadBalancer and filterGroups: the rows on screen under a heading.
Group(lb) == {r \in Offered : r.loadBalancer = lb}
Filtered(rs) == IF filter THEN {r \in rs : r.id \in Found} ELSE rs

ShownIds == {r.id : r \in Filtered(Offered)}
orphans == config.targetGroups \ {r.id : r \in Offered}

Edited(c) ==
  /\ edits < MaxEdits
  /\ edits' = edits + 1
  /\ config' = c
  /\ touched' = TRUE
  /\ UNCHANGED <<saveVars, lookupVars>>

\* onToggle for each of rs: its tick is turned, and the first load balancer met
\* fills an empty field.
Ticked(rs) ==
  LET lbs == {r.loadBalancer : r \in rs} \ {Nothing}
  IN  [targetGroups |-> SymDiff(config.targetGroups, {r.id : r \in rs}),
       loadBalancer |-> IF config.loadBalancer = Nothing /\ lbs # {}
                        THEN CHOOSE l \in lbs : TRUE ELSE config.loadBalancer]

Tick(r) == Edited(Ticked({r}))

\* Mutant: a heading's button reaches the rows the filter hides.
WholeGroup(lb) ==
  LET items == Group(lb)
      all == \A r \in items : r.id \in config.targetGroups
  IN  Filtered(items) # {} /\ Edited(Ticked({r \in items : r.id \in config.targetGroups <=> all}))

\* A heading's button: all of its rows on screen, or none if all are ticked.
toggleGroup(lb) ==
  LET items == Filtered(Group(lb))
      all == \A r \in items : r.id \in config.targetGroups
  IN  items # {} /\ Edited(Ticked({r \in items : r.id \in config.targetGroups <=> all}))

\* onRemove of an id the last lookup did not offer.
RemoveOrphan(id) == Edited([config EXCEPT !.targetGroups = SymDiff(@, {id})])

Type(text) == text # config.loadBalancer /\ Edited([config EXCEPT !.loadBalancer = text])

TypeInFilter ==
  /\ Cardinality(Offered) > FilterFrom
  /\ filter' = ~filter
  /\ UNCHANGED <<discovered, discovering, discoveryError, formVars, saveVars>>

-------------------------------------------------------------------------------

\* discover; the button is disabled while a lookup is under way.
Discover ==
  /\ ~discovering
  /\ discovering' = TRUE
  /\ discoveryError' = FALSE
  /\ UNCHANGED <<discovered, filter, formVars, saveVars>>

DiscoverEnds ==
  /\ discovering
  /\ discovering' = FALSE
  /\ \/ discovered' \in Lists /\ UNCHANGED discoveryError
     \/ discoveryError' = TRUE /\ UNCHANGED discovered
  /\ UNCHANGED <<filter, formVars, saveVars>>

\* save, up to its await; the form stays open to edits.
Save ==
  /\ sent = {}
  /\ sent' = {config}
  /\ kept' = FALSE
  /\ saved' = FALSE
  /\ saveError' = FALSE
  /\ UNCHANGED <<stored, formVars, lookupVars>>

\* handlePutConfig: the body is stored in its canonical form.
PutStores ==
  /\ \E c \in sent : stored' = [c EXCEPT !.loadBalancer = Canonical[@]]
  /\ ~kept
  /\ kept' = TRUE
  /\ UNCHANGED <<sent, saved, saveError, formVars, lookupVars>>

\* Mutant: the answer is not taken, as the body was the form.
AnswerDropped ==
  /\ sent # {} /\ kept
  /\ sent' = {}
  /\ saved' = TRUE
  /\ touched' = FALSE
  /\ UNCHANGED <<config, stored, kept, saveError, edits, lookupVars>>

\* The answer is the config as stored, and becomes the form.
SaveAnswered ==
  /\ sent # {} /\ kept
  /\ sent' = {}
  /\ config' = stored
  /\ saved' = TRUE
  /\ touched' = FALSE
  /\ UNCHANGED <<stored, kept, saveError, edits, lookupVars>>

\* Refused, not stored, or stored and not heard of.
SaveFails ==
  /\ sent # {}
  /\ sent' = {}
  /\ saveError' = TRUE
  /\ UNCHANGED <<stored, kept, saved, formVars, lookupVars>>

\* The badge is taken down 2.5 s after it appeared.
BadgeEnds ==
  /\ saved
  /\ saved' = FALSE
  /\ UNCHANGED <<stored, sent, kept, saveError, formVars, lookupVars>>

SettingsNext ==
  \/ \E r \in Filtered(Offered) : Tick(r)
  \/ \E lb \in {r.loadBalancer : r \in Offered} : toggleGroup(lb)
  \/ \E id \in orphans : RemoveOrphan(id)
  \/ \E text \in Typed : Type(text)
  \/ TypeInFilter
  \/ Discover
  \/ DiscoverEnds
  \/ Save
  \/ PutStores
  \/ SaveAnswered
  \/ SaveFails
  \/ BadgeEnds

SettingsSpec == SettingsInit /\ [][SettingsNext]_settingsVars

-------------------------------------------------------------------------------

(***************************************************************************)
(* The badge is true.  While it is up, what the form shows is what the     *)
(* server holds, edits made since then excepted: an edit made while the    *)
(* save was under way, which the server never saw, is not on screen beside *)
(* it, and neither is a text the server stored in another form.            *)
(***************************************************************************)
SavedBadgeIsTrue == saved /\ ~touched => config = stored /\ ~saveError

(***************************************************************************)
(* Nothing is chosen, or given up, out of sight: whatever was filtered and *)
(* looked up before, an edit changes ticks of rows on screen only, and the *)
(* button of a heading leaves all of its rows on screen ticked, or none.   *)
(***************************************************************************)
TicksStayInView ==
  [][LET changed == SymDiff(config'.targetGroups, config.targetGroups)
         heading == {r.loadBalancer : r \in {x \in Offered : x.id \in changed}}
     IN  edits' # edits /\ changed # {} =>
           /\ changed \subseteq ShownIds \cup orphans
           /\ Cardinality(changed) > 1 =>
                \E lb \in heading :
                  LET ids == {r.id : r \in Filtered(Group(lb))}
                  IN  ids \subseteq config'.targetGroups \/ ids \cap config'.targetGroups = {}]_settingsVars
===============================================================================
