--------------------------- MODULE MCRouteOwnership ---------------------------
(* TLC instances of RouteOwnership. *)
EXTENDS RouteOwnership, TLC
=============================================================================
