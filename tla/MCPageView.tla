------------------------------ MODULE MCPageView ------------------------------
(* An instance of PageView for TLC: an address without parameters, one that *)
(* was shared, and one that was typed wrong.                                *)
EXTENDS PageView

MCLinks ==
  {NoParameters,
   Parameters(hr(4), hr(1), 0, "shop"),
   Parameters(min(15), hr(1), 7, "*")}

===============================================================================
