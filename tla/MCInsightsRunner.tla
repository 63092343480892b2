--------------------------- MODULE MCInsightsRunner ---------------------------
(***************************************************************************)
(* Instances of InsightsRunner for TLC: a few runs over one or two places. *)
(***************************************************************************)
EXTENDS InsightsRunner, TLC

Symmetry == Permutations(Run)

===============================================================================
