-------------------------------- MODULE Chart ---------------------------------
(***************************************************************************)
(* A chart on screen (web/src/lib/components/UPlotChart.svelte) and the    *)
(* readout at its cursor (web/src/lib/chart.ts).                           *)
(*                                                                         *)
(* The drawing library keeps what it was given when it was built: names,   *)
(* colours and which lines are off.  A refresh with the same lines only    *)
(* hands it numbers; other lines, or another theme, build it anew.  What   *)
(* the legend switched off is kept by position.  The readout is written    *)
(* once per frame, and only when the sample under the cursor is another    *)
(* than the one it was written for.                                        *)
(*                                                                         *)
(* A line is its shape (label, colour, dash and unit in one) and a sample  *)
(* per time, Gap where nothing was measured.  Places on screen and sizes   *)
(* are left out.                                                           *)
(***************************************************************************)
EXTENDS Integers, Sequences, FiniteSets, SequencesExt

CONSTANTS
  Gap, None,
  Charts,    (* the lines a payload may bring: sequences of [shape, values] *)
  Axis,      (* the number of times on the axis                             *)
  MAX_TOOLTIP_ROWS

ASSUME ChartAssumption ==
  /\ Axis \in Nat
  /\ MAX_TOOLTIP_ROWS \in Nat \ {0}
  /\ \A s \in Charts : /\ Len(s) \in Nat /\ DOMAIN s = 1..Len(s)
                       /\ \A i \in DOMAIN s : s[i].values \in Seq(Int \cup {Gap})

VARIABLES
  series,    (* the lines of the payload on screen                          *)
  hidden,    (* the positions the legend has switched off                   *)
  canvas,    (* the library's own: shapes, show, data                       *)
  over,      (* the pointer is over this chart                              *)
  cursor,    (* the library's cursor: the sample under it, or None          *)
  frame,     (* pendingCursor: what the next frame will read, {} when none  *)
  tip,       (* the readout on screen, or None                              *)
  renderedIdx, (* the sample it was written for; 0 stands for -1            *)
  rebuilt    (* history: the canvas was built anew since it was written     *)

chartVars == <<series, hidden, canvas, over, cursor, frame, tip, renderedIdx, rebuilt>>

shapeKey(s) == [i \in DOMAIN s |-> s[i].shape]

\* A line out of step with the axis is cut, or ends in gaps.
alignedValues(v) == [t \in 1..Axis |-> IF t \in DOMAIN v THEN v[t] ELSE Gap]

toData(s) == [i \in DOMAIN s |-> alignedValues(s[i].values)]

\* buildOptions and its data.
Built(s, off) ==
  [shapes |-> shapeKey(s), show |-> [i \in DOMAIN s |-> i \notin off], data |-> toData(s)]

ChartInit ==
  /\ series \in Charts
  /\ hidden = {}
  /\ canvas = Built(series, {})
  /\ over = FALSE
  /\ cursor = None
  /\ frame = {}
  /\ tip = None
  /\ renderedIdx = 0
  /\ rebuilt = FALSE

(***************************************************************************)
(* tooltipRows: the lines that are on, the busiest first, and how many     *)
(* were left out.  A gap sorts last: it is not a small number.             *)
(***************************************************************************)
Sample(s, i, t) == IF t \in DOMAIN s[i].values THEN s[i].values[t] ELSE Gap

Busier(s, t, i, j) ==
  LET a == Sample(s, i, t)
      b == Sample(s, j, t)
  IN  IF a = Gap \/ b = Gap THEN b = Gap /\ (a # Gap \/ i < j)
      ELSE a > b \/ (a = b /\ i < j)

tooltipRows(s, off, t) ==
  LET on == DOMAIN s \ off
      ranked(k) == CHOOSE i \in on : Cardinality({j \in on : Busier(s, t, j, i)}) = k - 1
      kept == IF Cardinality(on) > MAX_TOOLTIP_ROWS THEN MAX_TOOLTIP_ROWS ELSE Cardinality(on)
  IN  [rows |-> [k \in 1..kept |-> [label |-> s[ranked(k)].shape, point |-> Sample(s, ranked(k), t)]],
       omitted |-> Cardinality(on) - kept]

hideTip ==
  /\ tip' = None
  /\ renderedIdx' = 0
  /\ rebuilt' = FALSE

\* create(): the cursor of a new canvas is nowhere; the readout stays.
create(s) ==
  /\ canvas' = Built(s, hidden)
  /\ cursor' = None
  /\ rebuilt' = TRUE
  /\ UNCHANGED <<frame, renderedIdx>>

\* New numbers are handed over, which also tells the cursor; other lines build
\* the canvas anew.
ChartRefresh(s) ==
  /\ series' = s
  /\ IF shapeKey(s) # shapeKey(series) THEN create(s)
     ELSE /\ canvas' = [canvas EXCEPT !.data = toData(s)]
          /\ renderedIdx' = 0
          /\ frame' = {cursor}
          /\ UNCHANGED <<cursor, rebuilt>>
  /\ UNCHANGED <<hidden, over, tip>>

\* Mutant: the readout is taken to be current still.
ToggleQuietly(i) ==
  /\ i \in DOMAIN series
  /\ hidden' = SymDiff(hidden, {i})
  /\ canvas' = [canvas EXCEPT !.show[i] = i \notin hidden']
  /\ UNCHANGED <<series, over, cursor, frame, tip, renderedIdx, rebuilt>>

\* toggle: a press in the legend.
ToggleLine(i) ==
  /\ i \in DOMAIN series
  /\ hidden' = SymDiff(hidden, {i})
  /\ canvas' = [canvas EXCEPT !.show[i] = i \notin hidden']
  /\ renderedIdx' = 0
  /\ UNCHANGED <<series, over, cursor, frame, tip, rebuilt>>

\* The library holds colours, not their names: a theme builds it anew.
ThemeChanges ==
  /\ create(series)
  /\ UNCHANGED <<series, hidden, over, tip>>

Enter ==
  /\ over' = TRUE
  /\ UNCHANGED <<series, hidden, canvas, cursor, frame, tip, renderedIdx, rebuilt>>

Leave ==
  /\ over' = FALSE
  /\ hideTip
  /\ UNCHANGED <<series, hidden, canvas, cursor, frame>>

\* renderTip: the cursor has moved, by this pointer or by another chart's.
CursorMoves(t) ==
  /\ cursor' = t
  /\ frame' = {t}
  /\ UNCHANGED <<series, hidden, canvas, over, tip, renderedIdx, rebuilt>>

\* flushTip, in the next frame.
FlushTip ==
  /\ frame # {}
  /\ frame' = {}
  /\ LET idx == CHOOSE t \in frame : TRUE
         readout == tooltipRows(series, hidden, idx)
     IN  IF ~over \/ idx = None THEN hideTip
         ELSE IF idx = renderedIdx THEN UNCHANGED <<tip, renderedIdx, rebuilt>>
         ELSE IF readout.rows = <<>> THEN hideTip
         ELSE tip' = readout /\ renderedIdx' = idx /\ rebuilt' = FALSE
  /\ UNCHANGED <<series, hidden, canvas, over, cursor>>

ChartNext ==
  \/ \E s \in Charts : ChartRefresh(s)
  \/ \E i \in DOMAIN series : ToggleLine(i)
  \/ ThemeChanges
  \/ Enter
  \/ Leave
  \/ \E t \in 1..Axis \cup {None} : CursorMoves(t)
  \/ FlushTip

ChartSpec == ChartInit /\ [][ChartNext]_chartVars

(***************************************************************************)
(* The screen is of the payload.  The canvas draws its lines under their   *)
(* names and with their numbers, and those the legend has on; the readout, *)
(* once a frame has drawn it, lists lines the canvas draws, with the       *)
(* numbers it draws at the cursor, the busiest of them, and counts the     *)
(* others.  That holds through refreshes, rebuilds, presses and moves of   *)
(* the pointer in any order, but for a readout that has been written       *)
(* before the canvas was built anew.                                       *)
(***************************************************************************)
On == {i \in DOMAIN canvas.show : canvas.show[i]}

ReadoutIsOfCanvas(t) ==
  /\ Cardinality(On) = Len(tip.rows) + tip.omitted
  /\ \A k \in DOMAIN tip.rows :
       \E i \in On : /\ canvas.shapes[i] = tip.rows[k].label
                     /\ canvas.data[i][t] = tip.rows[k].point
  /\ tip.omitted > 0 => Len(tip.rows) = MAX_TOOLTIP_ROWS
  /\ tip.omitted > 0 =>
       \A k \in DOMAIN tip.rows : \A i \in On :
         \/ canvas.shapes[i] \in {tip.rows[j].label : j \in DOMAIN tip.rows}
         \/ canvas.data[i][t] = Gap
         \/ tip.rows[k].point # Gap /\ tip.rows[k].point >= canvas.data[i][t]

ScreenIsOfPayload ==
  /\ [](canvas = Built(series, hidden))
  /\ [][FlushTip => tip' = None \/ rebuilt' \/ ReadoutIsOfCanvas(renderedIdx)']_chartVars

(***************************************************************************)
(* What the readout lists once a frame has drawn it is what is under the   *)
(* cursor: its sample index is -1 when it is hidden or stale, the          *)
(* component says.                                                         *)
(***************************************************************************)
ReadoutIsCurrent ==
  [][FlushTip => tip' = None \/ tip' = tooltipRows(series', hidden', renderedIdx')]_chartVars
===============================================================================
