--------------------------- MODULE MCRouteUpdate ---------------------------
(* Lists of up to three destinations at three addresses, so that a         *)
(* list can be replaced by one at other addresses or at the same ones.      *)
EXTENDS RouteUpdate

CONSTANTS d1, d2, d3

MCDestId == {d1, d2, d3}
OnStreets == {"street"}
Anywhere == PositionKind

=============================================================================
