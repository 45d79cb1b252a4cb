---------------------------- MODULE ManeuverIcons ----------------------------
(***************************************************************************)
(* How a maneuver and a lane of the phone become the symbols of the        *)
(* cluster: ManeuverMapper, SideStreets and the lane tables of BAPBridge   *)
(* (altscreen/java/build/src/routeguidance).                               *)
(*                                                                         *)
(* Types and main elements are named as in the source; the nineteen        *)
(* ROUNDABOUT_EXIT_n are one type, for no code tells them apart.  A        *)
(* direction is the code of the cluster: 256 codes of a full turn, counted *)
(* to the left from straight ahead.  An exit stands for its bin, the       *)
(* multiple of 22.5 degrees to the right.                                  *)
(***************************************************************************)
EXTENDS Integers, Sequences, FiniteSets, TLC, SequencesExt

Straight    == 0
SlightLeft  == 32
Left        == 64
SharpLeft   == 96
UTurn       == 128
SharpRight  == 160
Right       == 192
SlightRight == 224

RightHand == 0                    \* DRIVING_SIDE_RIGHT: right-hand traffic
LeftHand  == 1

Intersection == 0                 \* JUNCTION_SINGLE_INTERSECTION
Roundabout   == 1

NotSet == "NOT_SET"
StartRoute == "START_ROUTE"

FollowTypes == {"NO_TURN", "FOLLOW_ROAD", "ENTER_FERRY", "CHANGE_FERRY"}
ArriveTypes == {"ARRIVE_END_OF_NAVIGATION", "ARRIVE_AT_DESTINATION",
                "ARRIVE_END_OF_DIRECTIONS"}
FreeTypes   == {StartRoute, "EXIT_FERRY", "CHANGE_HIGHWAY"}
GlobalTypes ==
  FollowTypes \cup ArriveTypes \cup FreeTypes
    \cup {"CHANGE_HIGHWAY_LEFT", "CHANGE_HIGHWAY_RIGHT",
          "U_TURN_AT_ROUNDABOUT", "ENTER_ROUNDABOUT"}
UTurnTypes  == {"U_TURN", "START_ROUTE_WITH_U_TURN", "U_TURN_WHEN_POSSIBLE"}
AtEndTypes  == {"LEFT_TURN_AT_END", "RIGHT_TURN_AT_END"}
LeftRamps   == {"HIGHWAY_OFF_RAMP_LEFT"}
RightRamps  == {"HIGHWAY_OFF_RAMP_RIGHT"}
ExitRamps   == {"OFF_RAMP"} \cup LeftRamps \cup RightRamps

(* The types whose direction is in the type.                               *)
Plain ==
  [STRAIGHT_AHEAD   |-> Straight,
   LEFT_TURN        |-> Left,       RIGHT_TURN        |-> Right,
   SLIGHT_LEFT_TURN |-> SlightLeft, SLIGHT_RIGHT_TURN |-> SlightRight,
   KEEP_LEFT        |-> SlightLeft, KEEP_RIGHT        |-> SlightRight,
   SHARP_LEFT_TURN  |-> SharpLeft,  SHARP_RIGHT_TURN  |-> SharpRight]

Types ==
  GlobalTypes \cup UTurnTypes \cup AtEndTypes \cup ExitRamps \cup DOMAIN Plain
    \cup {"ON_RAMP", "ARRIVE_DESTINATION_LEFT", "ARRIVE_DESTINATION_RIGHT",
          "EXIT_ROUNDABOUT", "ROUNDABOUT_EXIT"}

(* ManeuverMapper.isValidType                                              *)
IsValid(type) == type # NotSet

(* ManeuverMapper.isHighwayManeuver                                        *)
IsHighway(type) ==
  type \in ExitRamps \cup {"ON_RAMP", "CHANGE_HIGHWAY", "CHANGE_HIGHWAY_LEFT",
                           "CHANGE_HIGHWAY_RIGHT"}

-----------------------------------------------------------------------------
(* ManeuverMapper.map.  A maneuver m has a type, the exit angle, the       *)
(* junction, the driving side, and the angles of the other streets.        *)

Icon(main, dir) == [main |-> main, dir |-> dir]

NoSymbol == Icon("NO_SYMBOL", Straight)
NoInfo   == Icon("NO_INFO", Straight)

NoAngles == {1000, -1000}

(* hasDirectionalTurnAngle: 0, and the -1 of a slot not filled yet, say    *)
(* nothing of a direction either.                                          *)
HasAngle(a) == a \notin NoAngles \cup {0, -1}

(* Mutant: left and right sharpness have different bounds.                 *)
EndOfRoadUneven(a, left) ==
  IF left
  THEN IF a \in -67..-1 THEN SlightLeft
       ELSE IF a \in -180..-112 THEN SharpLeft ELSE Left
  ELSE IF a \in 1..67 THEN SlightRight
       ELSE IF a \in 113..180 THEN SharpRight ELSE Right

(* dirFromEndOfRoadAngleLeft, dirFromEndOfRoadAngleRight                   *)
EndOfRoad(a, left) ==
  IF left
  THEN IF a \in -67..-1 THEN SlightLeft
       ELSE IF a \in -180..-113 THEN SharpLeft ELSE Left
  ELSE IF a \in 1..67 THEN SlightRight
       ELSE IF a \in 113..180 THEN SharpRight ELSE Right

RampDirection(a, left) ==
  IF HasAngle(a) THEN EndOfRoad(a, left)
  ELSE IF left THEN SlightLeft ELSE SlightRight

RampGoesLeft(m) == IF HasAngle(m.angle) THEN m.angle < 0 ELSE m.side = LeftHand

Clamped(a) == IF a > 180 THEN 180 ELSE IF a < -180 THEN -180 ELSE a

(* Index n of the nearest bin, from -180: floor((a + 180) / 22.5 + 1/2).   *)
DirectionFromAngle16(a) ==
  IF a \in NoAngles THEN Straight
  ELSE (128 - 16 * ((4 * (Clamped(a) + 180) + 45) \div 90)) % 256

DirectionFromTurnAngle(a) ==
  IF ~HasAngle(a) THEN Straight ELSE IF a < 0 THEN Left ELSE Right

OnSide(m, left, right) == IF m.side = LeftHand THEN left ELSE right

GlobalIcon(m) ==
  CASE m.type \in FollowTypes -> Icon("FOLLOW_STREET", Straight)
    [] m.type \in ArriveTypes -> Icon("ARRIVED", Straight)
    [] m.type \in FreeTypes   -> Icon("TURN", DirectionFromTurnAngle(m.angle))
    [] m.type = "CHANGE_HIGHWAY_LEFT"  -> Icon("CHANGE_LANE", Left)
    [] m.type = "CHANGE_HIGHWAY_RIGHT" -> Icon("CHANGE_LANE", Right)
    [] m.type = "ENTER_ROUNDABOUT"     -> Icon("TURN", OnSide(m, Left, Right))
    [] m.type = "U_TURN_AT_ROUNDABOUT" ->
         Icon(OnSide(m, "ROUNDABOUT_TRS_LEFT", "ROUNDABOUT_TRS_RIGHT"), UTurn)

RoundaboutIcon(m) ==
  CASE m.type = "EXIT_ROUNDABOUT" ->
         Icon(OnSide(m, "EXIT_ROUNDABOUT_TRS_LEFT", "EXIT_ROUNDABOUT_TRS_RIGHT"),
              OnSide(m, Left, Right))
    [] m.type = "ROUNDABOUT_EXIT" ->
         Icon(OnSide(m, "ROUNDABOUT_TRS_LEFT", "ROUNDABOUT_TRS_RIGHT"),
              DirectionFromAngle16(m.angle))
    [] OTHER -> NoInfo

(* The override of the directions (applyDsiNavBapDirectionOverride) leaves *)
(* of an end of the road only its side, and the other types as they are.   *)
IntersectionIcon(m) ==
  CASE m.type \in DOMAIN Plain -> Icon("TURN", Plain[m.type])
    [] m.type \in UTurnTypes ->
         Icon("UTURN", IF HasAngle(m.angle)
                       THEN IF m.angle < 0 THEN Left ELSE Right
                       ELSE OnSide(m, Right, Left))
    [] m.type \in ExitRamps ->
         LET left == \/ m.type \in LeftRamps
                     \/ m.type \notin RightRamps /\ RampGoesLeft(m)
         IN  Icon(IF left THEN "EXIT_LEFT" ELSE "EXIT_RIGHT",
                  RampDirection(m.angle, left))
    [] m.type = "ON_RAMP" ->
         Icon("TURN", IF RampGoesLeft(m) THEN SlightLeft ELSE SlightRight)
    [] m.type = "ARRIVE_DESTINATION_LEFT"  -> Icon("ARRIVED", Left)
    [] m.type = "ARRIVE_DESTINATION_RIGHT" -> Icon("ARRIVED", Right)
    [] m.type = "LEFT_TURN_AT_END"  -> Icon("TURN", Left)
    [] m.type = "RIGHT_TURN_AT_END" -> Icon("TURN", Right)
    [] OTHER -> NoInfo

Map(m) ==
  IF m.type = NotSet THEN NoSymbol
  ELSE IF m.type \in GlobalTypes THEN GlobalIcon(m)
  ELSE IF m.junction = Intersection THEN IntersectionIcon(m)
  ELSE IF m.junction = Roundabout THEN RoundaboutIcon(m)
  ELSE NoInfo

-----------------------------------------------------------------------------
(* SideStreets.  Bins as multiples of 22.5 degrees; distances in tenths.   *)

FullBins       == [i \in 1..17 |-> i - 9]             \* EXITS_FULL_17
RoundaboutBins == [i \in 1..15 |-> i - 8]             \* EXITS_15
CrossingBins   == [i \in 1..7 |-> 8 - 2 * i]          \* EXITS_7

Distance(bin, a) == LET d == 225 * bin - 10 * a IN IF d < 0 THEN -d ELSE d

(* angleToDirectionCode                                                    *)
Code(bin) == (-16 * bin) % 256

(* The bins nearer than bin i, or as near and before it.                   *)
NearerThan(i, a, bins) ==
  {j \in DOMAIN bins : \/ Distance(bins[j], a) < Distance(bins[i], a)
                       \/ Distance(bins[j], a) = Distance(bins[i], a) /\ j < i}

(* closestExit                                                             *)
Closest(a, bins) == CHOOSE i \in DOMAIN bins : NearerThan(i, a, bins) = {}

(* Mutant: every street offers its nearest bin only.                       *)
CandidatesNearest(a, n, bins) == <<bins[Closest(a, bins)]>>

(* bestMatchingExitPairs: the n nearest bins, the nearest first.           *)
Candidates(a, n, bins) ==
  LET rank(i) == Cardinality(NearerThan(i, a, bins)) + 1
  IN  [k \in 1..(IF n < Len(bins) THEN n ELSE Len(bins)) |->
         bins[CHOOSE i \in DOMAIN bins : rank(i) = k]]

(* appendEntries: the candidates of the streets of one side.               *)
Entries(streets, bins) ==
  IF bins = <<>> THEN <<>>
  ELSE [k \in DOMAIN streets |->
          [diff |-> Distance(bins[Closest(streets[k], bins)], streets[k]),
           bins |-> Candidates(streets[k], Len(streets), bins)]]

(* emitUniqueDirectionCodes: the best matches choose first, each takes its *)
(* best bin that is free.  The sort is stable.                             *)
Emitted(entries) ==
  LET before(i, j) == \/ entries[i].diff < entries[j].diff
                      \/ entries[i].diff = entries[j].diff /\ i < j
      order == SortSeq([i \in DOMAIN entries |-> i], before)
      take(out, i) ==
        LET free == {k \in DOMAIN entries[i].bins :
                       Code(entries[i].bins[k]) \notin ToSet(out)}
        IN  IF free = {} THEN out
            ELSE Append(out, Code(entries[i].bins[CHOOSE k \in free :
                                                    \A l \in free : k <= l]))
  IN  FoldLeft(take, <<>>, order)

Above(m) == SelectSeq(m.streets, LAMBDA a : a > m.angle)
Below(m) == SelectSeq(m.streets, LAMBDA a : a < m.angle)

(* occupiedSidestreetsIntersection: the bins above the exit, which come    *)
(* first in the table, and those below it, from the far end.               *)
CrossingSides(m) ==
  LET pivot == Closest(m.angle, CrossingBins)
  IN  [above |-> SubSeq(CrossingBins, 1, pivot - 1),
       below |-> Reverse(SubSeq(CrossingBins, pivot + 1, 7))]

CrossingStreets(m) ==
  LET bins == CrossingSides(m)
  IN  IF \/ Len(Above(m)) > Len(bins.above)
         \/ Len(Below(m)) > Len(bins.below)
      THEN <<>>
      ELSE Emitted(Entries(Above(m), bins.above) \o Entries(Below(m), bins.below))

(* The bins before and after the exit on the way round; an exit straight   *)
(* back leaves them all before it.                                         *)
RoundaboutSides(m) ==
  LET exit  == FullBins[Closest(m.angle, FullBins)]
      above == Reverse(SelectSeq(RoundaboutBins, LAMBDA b : b > exit))
      below == SelectSeq(RoundaboutBins, LAMBDA b : b < exit)
  IN  IF exit \in {-8, 8}
      THEN [before |-> RoundaboutBins, after |-> <<>>]
      ELSE [before |-> IF m.side = LeftHand THEN below ELSE above,
            after  |-> IF m.side = LeftHand THEN above ELSE below]

Before(m) == IF m.side = LeftHand THEN Below(m) ELSE Above(m)
After(m)  == IF m.side = LeftHand THEN Above(m) ELSE Below(m)

(* occupiedSidestreetsRoundabout: too many streets before the exit and     *)
(* none is drawn, too many after it and those are left out.                *)
RoundaboutStreets(m) ==
  LET bins  == RoundaboutSides(m)
      after == IF Len(After(m)) > Len(bins.after) THEN <<>> ELSE After(m)
  IN  IF Len(Before(m)) > Len(bins.before) THEN <<>>
      ELSE Emitted(Entries(Before(m), bins.before) \o Entries(after, bins.after))

(* computesSidestreets                                                     *)
HasStreets(m) ==
  \/ m.type \in FreeTypes \cup {"U_TURN_AT_ROUNDABOUT"}
  \/ m.type \in DOMAIN Plain \cup AtEndTypes /\ m.junction = Intersection
  \/ m.type = "ROUNDABOUT_EXIT" /\ m.junction = Roundabout

(* calcSideStreetDirections                                                *)
SideStreets(m) ==
  IF m.type = "ENTER_ROUNDABOUT" THEN <<OnSide(m, Right, Left)>>
  ELSE IF m.type \in ExitRamps THEN <<Straight>>
  ELSE IF ~HasStreets(m) \/ m.streets = <<>> \/ m.angle = 1000 THEN <<>>
  ELSE IF m.junction = Roundabout THEN RoundaboutStreets(m)
  ELSE IF m.junction = Intersection THEN CrossingStreets(m)
  ELSE <<>>

-----------------------------------------------------------------------------
(* The descriptor (BAPBridge.sendManeuvers, createDescriptor) and the      *)
(* arrow before the street's name (directionArrow).                        *)

Descriptor(m) ==
  LET icon == Map(m)
  IN  [icon |-> icon,
       side |-> IF icon.main \in {"NO_INFO", "NO_SYMBOL"} THEN <<>>
                ELSE SideStreets(m)]

EmptyDescriptor == [icon |-> NoSymbol, side |-> <<>>]

NoArrow == -1
Arrow(m) ==
  LET icon == Map(m)
  IN  IF icon.main \in {"NO_INFO", "NO_SYMBOL"} THEN NoArrow
      ELSE IF icon.dir \in {SlightLeft, Left, SharpLeft, UTurn, SharpRight,
                            Right, SlightRight}
      THEN icon.dir
      ELSE IF m.type \in {"NO_TURN", "FOLLOW_ROAD", "STRAIGHT_AHEAD"}
      THEN Straight ELSE NoArrow

-----------------------------------------------------------------------------
(* Lanes: each has a direction, 1000 when its first angle stands for it,   *)
(* the angles of its arrows, and a status.                                 *)

LaneBins == [i \in 1..9 |-> 2 * i - 10]          \* LANE_DIR_NATIVE_ANGLES
LaneCode(bin) ==                                 \* LANE_DIR_NATIVE_CODES
  IF bin = -8 THEN 114 ELSE IF bin = 8 THEN 146 ELSE Code(bin)

(* mapRawLaneValueToDirectionCode; no direction for the sentinel.          *)
NoDirection == 255
LaneDirection(raw) ==
  IF raw = 1000 THEN NoDirection
  ELSE LaneCode(LaneBins[Closest(raw, LaneBins)])

(* mapLaneDirection                                                        *)
LaneArrow(lane) ==
  IF lane.dir # 1000 THEN LaneDirection(lane.dir)
  ELSE IF lane.angles = <<>> THEN NoDirection
  ELSE LaneDirection(lane.angles[1])

(* mapLaneSideStreets: a sorted list without duplicates, hence a set.      *)
LaneStreets(lane) ==
  LET from == IF lane.dir = 1000 THEN 2 ELSE 1
  IN  {LaneDirection(lane.angles[k]) : k \in from..Len(lane.angles)}
        \ {NoDirection, LaneArrow(lane)}

MaxLanes == 8

(* sendRealLaneGuidance with shouldEmitLane and mapGuidanceInfo            *)
LanePanel(lanes) ==
  LET first == SubSeq(lanes, 1, IF Len(lanes) < MaxLanes THEN Len(lanes)
                                                         ELSE MaxLanes)
      drawn == SelectSeq(first, LAMBDA l : LaneArrow(l) # NoDirection)
  IN  [k \in DOMAIN drawn |->
         [arrow |-> LaneArrow(drawn[k]), streets |-> LaneStreets(drawn[k]),
          info |-> IF drawn[k].status \in 0..2 THEN drawn[k].status ELSE 0]]

-----------------------------------------------------------------------------
(* Mirror images, to compare the two sides of the road with.               *)

MirroredName(n) ==
  LET pairs == {<<"LEFT_TURN", "RIGHT_TURN">>, <<"KEEP_LEFT", "KEEP_RIGHT">>,
                <<"SLIGHT_LEFT_TURN", "SLIGHT_RIGHT_TURN">>,
                <<"SHARP_LEFT_TURN", "SHARP_RIGHT_TURN">>,
                <<"LEFT_TURN_AT_END", "RIGHT_TURN_AT_END">>,
                <<"CHANGE_HIGHWAY_LEFT", "CHANGE_HIGHWAY_RIGHT">>,
                <<"HIGHWAY_OFF_RAMP_LEFT", "HIGHWAY_OFF_RAMP_RIGHT">>,
                <<"ARRIVE_DESTINATION_LEFT", "ARRIVE_DESTINATION_RIGHT">>,
                <<"EXIT_LEFT", "EXIT_RIGHT">>,
                <<"ROUNDABOUT_TRS_LEFT", "ROUNDABOUT_TRS_RIGHT">>,
                <<"EXIT_ROUNDABOUT_TRS_LEFT", "EXIT_ROUNDABOUT_TRS_RIGHT">>}
      twins == {p \in pairs : n \in {p[1], p[2]}}
  IN  IF twins = {} THEN n
      ELSE LET p == CHOOSE p \in twins : TRUE IN IF n = p[1] THEN p[2] ELSE p[1]

Turned(dir) == (256 - dir) % 256

Mirrored(m) ==
  [m EXCEPT !.type = MirroredName(@), !.angle = -@, !.side = 1 - @,
            !.streets = [k \in DOMAIN m.streets |-> -m.streets[k]]]

(* The sides of the exit have a bin for each of their streets.             *)
StreetsFit(m) ==
  IF m.junction = Roundabout
  THEN /\ Len(Before(m)) <= Len(RoundaboutSides(m).before)
       /\ Len(After(m)) <= Len(RoundaboutSides(m).after)
  ELSE /\ Len(Above(m)) <= Len(CrossingSides(m).above)
       /\ Len(Below(m)) <= Len(CrossingSides(m).below)

=============================================================================
