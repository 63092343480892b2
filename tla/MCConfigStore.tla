---------------------------- MODULE MCConfigStore -----------------------------
(***************************************************************************)
(* Instances of ConfigStore for TLC: the region and one other setting, two *)
(* values, and the files and bodies that tell the cases apart.             *)
(***************************************************************************)
EXTENDS ConfigStore

CONSTANTS region, group, v0, v1, g1, g2

\* A config file or a body with two settings.
Two(r, g) == [f \in {region, group} |-> IF f = region THEN r ELSE g]

MCDefault == Two(v0, v0)
MCBody == {Two(v1, Missing), Two(Missing, v1), Two(Missing, Bad), Two(v0, v1)}
MCEdit == {NoFile, Unreadable, g1, g2, Two(v1, Missing), Two(Bad, v1), Two(v0, Misshapen)}

===============================================================================
