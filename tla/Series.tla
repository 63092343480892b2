-------------------------------- MODULE Series --------------------------------
(***************************************************************************)
(* domain/series.ts of the node engine: the shape of an answer.  Every     *)
(* number on a page goes through a Series or a Table of this module.       *)
(*                                                                         *)
(* A point that may be a hole is a set: {} for null, {v} for v.  The       *)
(* values of a series are a function on the buckets that hold a number,    *)
(* and n is the length of the array.                                       *)
(***************************************************************************)
EXTENDS Integers, Sequences, FiniteSets, FiniteSetsExt, Functions, TimeWindow

variantDashes == <<"solid", "dashed", "dotted">>

\* The dash of the i-th metric of a panel, counted from 0.
variantDash(i) == variantDashes[(i % Len(variantDashes)) + 1]

newSeries(label, color, n) ==
  [label |-> label, color |-> color, dash |-> "solid", n |-> n, values |-> [i \in {} |-> 0]]

\* A stray index is ignored, so that a stray timestamp cannot kill a handler.
SetAt(s, i, v) ==
  IF i \in 0..(s.n - 1)
  THEN [s EXCEPT !.values = [j \in DOMAIN @ \cup {i} |-> IF j = i THEN v ELSE @[j]]]
  ELSE s

\* A hole counts as 0 when something is added to it.
AddAt(s, i, v) == SetAt(s, i, (IF i \in DOMAIN s.values THEN s.values[i] ELSE 0) + v)

defined(s) == Cardinality(DOMAIN s.values)

Image(s) == {s.values[i] : i \in DOMAIN s.values}

SeriesMax(s) == IF Image(s) = {} THEN {} ELSE {Max(Image(s))}
SeriesMin(s) == IF Image(s) = {} THEN {} ELSE {Min(Image(s))}
SeriesSum(s) == IF Image(s) = {} THEN {} ELSE {SumFunction(s.values)}

\* The latest bucket with a number in it.
SeriesLast(s) == IF Image(s) = {} THEN {} ELSE {s.values[Max(DOMAIN s.values)]}

newPanel(id) ==
  [id |-> id, series |-> <<>>, stats |-> [k \in {} |-> {}], table |-> <<>>, bars |-> <<>>,
   warnings |-> <<>>]

warn(panel, message) == [panel EXCEPT !.warnings = Append(@, message)]

\* total is counted apart from the rows, which may be fewer.
newTable(rows, total, limit) ==
  [rows |-> rows, total |-> total, truncated |-> total > Len(rows), limit |-> limit]

\* A table is a sequence of at most one, as is a panel's field that may be null.
TableAgrees(t) == t.total >= Len(t.rows) /\ t.truncated = (t.total > Len(t.rows))

\* What an answer must be like to be written at all.
validatePayload(w, panels) ==
  /\ DOMAIN timestamps(w) # {}
  /\ \A i \in 1..Len(panels) :
       /\ \A j \in 1..Len(panels[i].series) :
            panels[i].series[j].n = Cardinality(DOMAIN timestamps(w))
       /\ \A j \in 1..Len(panels[i].table) : TableAgrees(panels[i].table[j])
===============================================================================
