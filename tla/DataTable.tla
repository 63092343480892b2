------------------------------- MODULE DataTable ------------------------------
(***************************************************************************)
(* A list of log lines on screen (web/src/lib/components/DataTable.svelte):*)
(* the operator filters, sorts, unfolds and opens rows while refreshes     *)
(* replace the rows underneath.                                            *)
(*                                                                         *)
(* A row is what it reads (its search string), and a list may hold the     *)
(* same one twice: an access log does.  What a row reads decides its       *)
(* number in the sorted column, whether the filter finds it, and its rank  *)
(* as text.  Nothing moves a row but the derivations below, so they are    *)
(* computed from the state, as the component's are.                        *)
(***************************************************************************)
EXTENDS Integers, Sequences, FiniteSets, SequencesExt

CONSTANTS
  Tables,       (* the rows a payload may bring: sequences of contents      *)
  Number,       (* content -> its number in the column, or NaN              *)
  NaN,
  Rank,         (* content -> its place among the others as text            *)
  Matching,     (* the contents the operator's filter finds                 *)
  initialRows,
  step

ASSUME DataTableAssumption ==
  /\ initialRows \in Nat \ {0} /\ step \in Nat \ {0}
  /\ \A t \in Tables : t \in Seq(DOMAIN Rank)

VARIABLES
  rows,
  shown,        (* how many rows the operator has unfolded                  *)
  query,        (* something is in the filter box                           *)
  sortDir,      (* "none", "asc" or "desc", by the column of numbers        *)
  open          (* the row opened: what it read and where; {} when none     *)

tableVars == <<rows, shown, query, sortDir, open>>

TableInit ==
  /\ rows \in Tables
  /\ shown = initialRows
  /\ query = FALSE
  /\ sortDir = "none"
  /\ open = {}

\* The positions of the rows that the filter leaves.
filtered == {i \in DOMAIN rows : query => rows[i] \in Matching}

sign == IF sortDir = "asc" THEN 1 ELSE -1

\* By number, never by text; a row without one comes last both ways.
compare(a, b) ==
  IF Number[a] = NaN /\ Number[b] = NaN THEN (Rank[a] - Rank[b]) * sign
  ELSE IF Number[a] = NaN THEN 1
  ELSE IF Number[b] = NaN THEN -1
  ELSE (Number[a] - Number[b]) * sign

\* The sort is stable, and without one the rows keep their order.
Precedes(i, j) ==
  LET c == IF sortDir = "none" THEN 0 ELSE compare(rows[i], rows[j])
  IN  c < 0 \/ (c = 0 /\ i < j)

sorted ==
  [k \in 1..Cardinality(filtered) |->
     rows[CHOOSE j \in filtered : Cardinality({i \in filtered : Precedes(i, j)}) = k - 1]]

Least(a, b) == IF a < b THEN a ELSE b

visible == SubSeq(sorted, 1, Least(shown, Len(sorted)))
remaining == Len(sorted) - Len(visible)

FirstThatReads(key) ==
  LET at == {i \in DOMAIN visible : visible[i] = key}
  IN  IF at = {} THEN 0 ELSE CHOOSE i \in at : \A j \in at : i <= j

\* Mutant: the row is looked up by what it reads alone.
SearchedFirst(o) == IF o = {} THEN 0 ELSE LET at == CHOOSE x \in o : TRUE IN FirstThatReads(at.key)

\* The place first, while the row there still reads the same; the content else.
openIndex(o) ==
  IF o = {} THEN 0
  ELSE LET at == CHOOSE x \in o : TRUE
       IN  IF at.index \in DOMAIN visible /\ visible[at.index] = at.key
           THEN at.index ELSE FirstThatReads(at.key)

TableRefresh(t) ==
  /\ rows' = t
  /\ UNCHANGED <<shown, query, sortDir, open>>

\* The filter box is there only for a list that is longer than it opens with.
TypeFilter ==
  /\ Len(rows) > initialRows
  /\ query' = ~query
  /\ UNCHANGED <<rows, shown, sortDir, open>>

\* toggleSort: another press of the same heading turns the order round.
toggleSort ==
  /\ rows # <<>>
  /\ sortDir' = IF sortDir = "desc" THEN "asc" ELSE "desc"
  /\ UNCHANGED <<rows, shown, query, open>>

\* toggle: a press of the row at i.
ToggleRow(i) ==
  /\ open' = IF i = openIndex(open) THEN {} ELSE {[key |-> visible[i], index |-> i]}
  /\ UNCHANGED <<rows, shown, query, sortDir>>

More ==
  /\ remaining > 0
  /\ shown' = Least(shown + step, Len(sorted))
  /\ UNCHANGED <<rows, query, sortDir, open>>

Fold ==
  /\ rows # <<>>
  /\ remaining = 0
  /\ shown > initialRows
  /\ shown' = initialRows
  /\ UNCHANGED <<rows, query, sortDir, open>>

TableNext ==
  \/ \E t \in Tables : TableRefresh(t)
  \/ TypeFilter
  \/ toggleSort
  \/ \E i \in DOMAIN visible : ToggleRow(i)
  \/ More
  \/ Fold

TableSpec == TableInit /\ [][TableNext]_tableVars

(***************************************************************************)
(* The detail belongs to the row that was pressed.  A press opens that row *)
(* and not another that reads the same, and a second press closes it; a    *)
(* sort, a filter, a fold or a refresh may move the detail or put it away, *)
(* but never under a row that reads otherwise, nor away while the row is   *)
(* still on screen.                                                        *)
(***************************************************************************)
DetailFollowsItsRow ==
  [][LET was == openIndex(open)
         is == openIndex(open)'
     IN  IF open' # open
         THEN \E i \in DOMAIN visible : is = IF i = was THEN 0 ELSE i
         ELSE /\ was # 0 /\ is # 0 => visible'[is] = visible[was]
              /\ was # 0 /\ is = 0 => visible[was] \notin ToSet(visible')]_tableVars

===============================================================================
