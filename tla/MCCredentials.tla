---------------------------- MODULE MCCredentials -----------------------------
(***************************************************************************)
(* Instances of Credentials for TLC: two keys of two regions, either of    *)
(* which may be saved or stand in .env.                                    *)
(***************************************************************************)
EXTENDS Credentials, TLC

CONSTANTS k1, k2, seoul, virginia

MCRegionOf == k1 :> seoul @@ k2 :> virginia

===============================================================================
