------------------------------ MODULE MCControls -------------------------------
(* An instance of Chart, DataTable and SettingsPage for TLC.  They share no   *)
(* state, so a behaviour is of one screen; the others are at rest.            *)
EXTENDS Chart, DataTable, SettingsPage

CONSTANTS ra, rb, rc

VARIABLE screen

Line(shape, values) == [shape |-> shape, values |-> values]

\* The same lines with other numbers, a gap, a tail that is missing, a line more.
MCCharts ==
  {<<>>,
   <<Line(ra, <<1, 3>>), Line(rb, <<2, 1>>)>>,
   <<Line(ra, <<2, Gap>>), Line(rb, <<0>>)>>,
   <<Line(rc, <<5, 0>>), Line(ra, <<1, 3>>), Line(rb, <<2, Gap>>)>>}

\* Rows that read the same, more than the list opens with, and fewer.
MCTables == {<<>>, <<ra, rb>>, <<ra, rb, ra, rc>>, <<rb, ra, rc, ra, ra>>}
MCNumber == ra :> 2 @@ rb :> 1 @@ rc :> NaN
MCRank == ra :> 1 @@ rb :> 2 @@ rc :> 3
MCMatching == {ra, rc}

MCResource ==
  {[id |-> ra, loadBalancer |-> "lb"], [id |-> rb, loadBalancer |-> "lb"],
   [id |-> rc, loadBalancer |-> Nothing]}
MCLists == {{}, {r \in MCResource : r.id # rb}, MCResource}
MCCanonical == [t \in {"lb", "arn", Nothing} |-> IF t = "arn" THEN "lb" ELSE t]

Init ==
  /\ screen \in {"chart", "table", "settings"}
  /\ ChartInit /\ TableInit /\ SettingsInit
  /\ screen # "chart" => series = <<>>
  /\ screen # "table" => rows = <<>>
  /\ screen # "settings" => stored.targetGroups = {}

Next ==
  /\ UNCHANGED screen
  /\ \/ screen = "chart" /\ ChartNext /\ UNCHANGED <<tableVars, settingsVars>>
     \/ screen = "table" /\ TableNext /\ UNCHANGED <<chartVars, settingsVars>>
     \/ screen = "settings" /\ SettingsNext /\ UNCHANGED <<chartVars, tableVars>>

vars == <<screen, chartVars, tableVars, settingsVars>>

Spec == Init /\ [][Next]_vars
===============================================================================
