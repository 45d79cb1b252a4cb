---------------------------- MODULE MCHudGuidance ----------------------------
(* The stories TLC checks the display with.                                *)
EXTENDS HudGuidance

Story(frames) == [frames |-> frames, refuses |-> FALSE, restarts |-> FALSE]

State1(v) == "routeState" :> v
Listed(n, order) == "maneuverCount" :> n @@ "maneuverOrder" :> order
Dist(d) == "distManeuverM" :> d
Man(i, fields) == "m" :> (i :> fields)
Event(i, index, lanes) ==
  "lg" :> (i :> [index |-> index, lanes |-> lanes])

Fields(type, angle, ver) ==
  "type" :> type @@ "angle" :> angle @@ "ver" :> ver
Cross(side) == "junction" :> Intersection @@ "side" :> side @@ "streets" :> <<>>

StartMan == Fields(StartRoute, 1000, 1) @@ Cross(RightHand)
LeftMan  == Fields("LEFT_TURN", -90, 2) @@ Cross(RightHand)
              @@ "afterRoad" :> "B" @@ "distance" :> 250
ExitMan  == Fields("OFF_RAMP", 40, 3) @@ Cross(RightHand)
              @@ "exitInfo" :> "E" @@ "distance" :> 4000
BareMan  == Fields("OFF_RAMP", -40, 4)

(* A list of two that shrinks, grows and starts with START_ROUTE, slots    *)
(* filled late and filled again, and the distances of all three zones.     *)
Maneuvers ==
  {State1(1) @@ Listed(2, <<0, 1>>), Listed(1, <<1>>), State1(0),
   Man(0, StartMan), Man(0, LeftMan), Man(1, ExitMan), Man(1, BareMan),
   Man(1, "exitInfo" :> "F" @@ ExitMan),
   Man(1, LeftMan), Listed(2, <<1, 0>>), "currentRoad" :> "A"}
    \cup {Dist(d) : d \in {0, 40, 300, 1000, 5000}}

Lane(dir, angles, status) == [dir |-> dir, angles |-> angles, status |-> status]
Keep == <<Lane(1000, <<-45, 0>>, 1), Lane(90, <<90>>, 7), Lane(1000, <<>>, 0)>>
Exit == <<Lane(1000, <<180, -180>>, 2)>>
Many == [k \in 1..9 |-> Lane(0, <<0>>, 0)]

(* Lane events that move between two slots while the phone points at one.  *)
Lanes ==
  {State1(1) @@ Listed(1, <<0>>), State1(0), Man(0, LeftMan @@ "lanes" :> Many),
   "laneGuidanceShowing" :> 1, "laneGuidanceShowing" :> 0,
   "laneGuidanceIndex" :> 7 @@ "laneGuidanceSlot" :> 0,
   "laneGuidanceIndex" :> 8, "laneGuidanceIndex" :> 0,
   "laneGuidanceSlot" :> 1,
   Event(0, 7, Keep), Event(0, 8, Exit), Event(1, 7, Keep), Event(1, 8, <<>>)}

(* A route refused or taken, a source that cannot guide, and restarts.     *)
Lifecycle ==
  {State1(1), State1(0), Listed(1, <<0>>), Listed(0, <<>>), Man(0, ExitMan),
   Dist(40), "maneuverState" :> 2, "sourceSupportsRg" :> 0,
   "sourceSupportsRg" :> 1, State1(1) @@ "visibleInApp" :> 1,
   State1(0) @@ "visibleInApp" :> 0, "visibleInApp" :> 1}

(* Every type of maneuver at every angle worth telling apart, on either    *)
(* side of the road and at either junction, with streets around it.        *)
Angles == {-1000, -180, -135, -113, -112, -90, -45, -22, -1, 0, 1, 22, 45, 68,
           90, 112, 113, 150, 180, 1000}
Around == {<<>>, <<0>>, <<-90, 90>>, <<5, 10, 15>>, <<-10, -8, 80, 82>>,
           <<-170, -160, -20, 0, 30, 170>>, <<-90, -80, -70, -60>>}

OneManeuver(type, angle, junction, side, streets) ==
  State1(1) @@ Listed(1, <<0>>) @@
  Man(0, Fields(type, angle, 1) @@ "junction" :> junction @@ "side" :> side
           @@ "streets" :> streets)

Symbols ==
  {Story({OneManeuver(t, a, j, s, <<>>)}) :
     t \in Types, a \in Angles, j \in {Intersection, Roundabout, 2},
     s \in {RightHand, LeftHand}}
  \cup
  {Story({OneManeuver(t, a, j, s, around)}) :
     t \in {"ROUNDABOUT_EXIT", "U_TURN_AT_ROUNDABOUT", "LEFT_TURN", StartRoute},
     a \in Angles, j \in {Intersection, Roundabout},
     s \in {RightHand, LeftHand}, around \in Around}

MCStories ==
  {Story(Maneuvers), Story(Lanes)}
    \cup {[frames |-> Lifecycle, refuses |-> r, restarts |-> TRUE] : r \in BOOLEAN}
    \cup Symbols
=============================================================================
