------------------------------ MODULE MCCuad ------------------------------
(***************************************************************************)
(* One internal panel, "one", with an external monitor, "two", or nothing  *)
(* lit, "dark".  The layout "row" places both monitors (and, since         *)
(* unmatched monitors are ignored, fits the panel alone); "tv" mentions    *)
(* the external monitor only and is transformed for the panel, so that it  *)
(* fits "two" alone, where it makes the second head the primary.           *)
(***************************************************************************)
EXTENDS Cuad

MCTopology == {"one", "two", "dark"}
MCLive == {"one", "two"}
MCLayout == {"row", "tv"}
MCFits == {<<"one", "row">>, <<"two", "row">>, <<"two", "tv">>}
MCRect == {"panel", "both", "external"}
MCDesktop ==
  [p \in MCLive \X Monitors |->
     IF p = <<"two", "row">> THEN "both"
     ELSE IF p = <<"two", "tv">> THEN "external" ELSE "panel"]
MCPrimaryOf == [p \in MCLive \X Monitors |-> IF p = <<"two", "tv">> THEN 2 ELSE 1]
=============================================================================
