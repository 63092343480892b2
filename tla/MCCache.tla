------------------------------- MODULE MCCache --------------------------------
(***************************************************************************)
(* An instance of Cache for TLC: three calls over two keys.  No symmetry,  *)
(* for the run also checks a liveness property.                            *)
(***************************************************************************)
EXTENDS Cache

===============================================================================
