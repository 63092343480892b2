----------------------------- MODULE MCLogPanels ------------------------------
(***************************************************************************)
(* Instances of LogPanels for TLC: three connections, two of which call    *)
(* the same region.                                                        *)
(***************************************************************************)
EXTENDS LogPanels, TLC

CONSTANTS c1, c2, c3, rows, stats, a1, a2, a3, seoul, virginia

Symmetry == Permutations(Caller)

MCKey == Shape \X Region
MCRegionOf == a1 :> seoul @@ a2 :> seoul @@ a3 :> virginia

===============================================================================
