-------------------------------- MODULE MCPage --------------------------------
(***************************************************************************)
(* Instances of Page for TLC: a request for a page of the counts panel,    *)
(* which asks twice, and of a panel without a target, which asks nothing;  *)
(* and a second one for the counts panel alone, a discovery, or an id      *)
(* nobody knows.                                                           *)
(***************************************************************************)
EXTENDS Page, TLC

CONSTANTS r1, r2, a1, a2, seoul, virginia

MCRequest == {r1, r2}
MCPages == "overview" :> <<"rds-proxy", "counts", "waf-metrics">>
MCAsks == "rds-proxy" :> <<>> @@ "counts" :> <<"counts", "nodescaling">>
          @@ "waf-metrics" :> <<"waf-metrics">>
MCRoutes ==
  r1 :> {<<"page", "overview">>, <<"discovery", "clusters">>}
  @@ r2 :> {<<"panel", "counts">>, <<"discovery", "clusters">>, <<"page", "nowhere">>}
MCCallers == {<<r1, 1, 1>>, <<r1, 2, 1>>, <<r1, 2, 2>>, <<r1, 3, 1>>, <<r2, 1, 1>>, <<r2, 1, 2>>}
MCKey == ({"counts", "nodescaling", "waf-metrics", "clusters"} \X {None, seoul, virginia})
MCRegionOf == a1 :> seoul @@ a2 :> virginia

===============================================================================
