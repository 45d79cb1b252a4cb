----------------------------- MODULE MCRgdState -----------------------------
(* Small instances of the route guidance state for TLC.                    *)
EXTENDS RgdState, TLC

U(state, count, list, lane, source) ==
  [state |-> state, count |-> count, list |-> list, lane |-> lane,
   source |-> source]

(* A route over three maneuvers with two slots, its reroute and its end,   *)
(* a source that ends it with an empty list, and an update with no field.  *)
RouteUpdates ==
  {U(1, None, <<1, 2>>, 1, None), U(None, None, <<3>>, None, None),
   U(Rerouting, None, NoList, None, None), U(0, None, NoList, None, None),
   U(0, None, <<>>, 1, 0), U(None, None, NoList, None, None)}
RouteManeuvers ==
  {[index |-> i, man |-> [type |-> i, link |-> None]] : i \in {1, 3}}
    \cup {[index |-> 2, man |-> [type |-> None, link |-> 3]]}
RouteLanes ==
  {[index |-> 2, info |-> TRUE], [index |-> None, info |-> TRUE],
   [index |-> 1, info |-> FALSE]}
=============================================================================
