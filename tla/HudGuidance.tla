----------------------------- MODULE HudGuidance -----------------------------
(***************************************************************************)
(* What the cluster shows of the route: RouteGuidance (State, parse,       *)
(* onFrame) and BAPBridge (onStart, update, onShutdown) of                 *)
(* altscreen/java/build/src/routeguidance.                                 *)
(*                                                                         *)
(* A frame of the native hook carries keys.  parse merges them into State  *)
(* and notes in dirtyMask what differs; onFrame starts or ends the route   *)
(* with it, and update writes the parts of the display its flags name.     *)
(* The frames come one at a time on the bus's thread; stop and start come  *)
(* between them here (RouteOwnership interleaves them).                    *)
(*                                                                         *)
(* A frame is a function from the keys it carries; the keys of a slot's    *)
(* maneuver and of a lane event stand below "m" and "lg".  The figures of  *)
(* the trip, the z level and the texts' lengths are left out.              *)
(***************************************************************************)
EXTENDS ManeuverIcons

CONSTANTS
  SlotCount,   \* MAX_MANEUVERS (32)
  Stories      \* what the hook may send: sets of frames, one of them per
               \* behavior, and whether routes are refused and the guidance
               \* is stopped in it

None  == -1
Slots == 0..(SlotCount - 1)
NoOrder == <<None>>                \* maneuverOrder = null

VARIABLES
  story,      \* the story told
  running,    \* RouteGuidance.running
  routeSeen,  \* hasRouteUpdate
  rgActive,   \* the route is on the cluster
  state,      \* State, without its flags
  bridge,     \* BAPBridge: approach zone, maneuver shown, latched text and
              \* last distance
  cluster,    \* what was written to the cluster last
  fresh       \* the parts of it written since there is a route to show

vars == <<story, running, routeSeen, rgActive, state, bridge, cluster, fresh>>

-----------------------------------------------------------------------------
(* State and parse.                                                        *)

NoMan ==
  [type |-> NotSet, angle |-> 1000, junction |-> None, side |-> None,
   streets |-> <<>>, distance |-> None, name |-> "", afterRoad |-> "",
   exitInfo |-> "", ver |-> None, lanes |-> <<>>]

NoEvent == [index |-> None, lanes |-> <<>>]

(* State.reset                                                             *)
NoState ==
  [routeState |-> None, maneuverState |-> None, maneuverCount |-> 0,
   maneuverOrder |-> NoOrder, visibleInApp |-> None, sourceSupportsRg |-> None,
   laneGuidanceShowing |-> None, laneGuidanceIndex |-> None,
   laneGuidanceSlot |-> None, distManeuverM |-> None, currentRoad |-> "",
   m |-> [i \in Slots |-> NoMan], lg |-> [i \in Slots |-> NoEvent]]

(* The flag that the change of a key sets.                                 *)
FlagOf ==
  [maneuverState |-> "STATE", maneuverOrder |-> "LIST",
   visibleInApp |-> "VISIBLE", distManeuverM |-> "DIST",
   currentRoad |-> "ROAD", laneGuidanceShowing |-> "LANE",
   laneGuidanceIndex |-> "LANE", laneGuidanceSlot |-> "LANE"]

ManFlagsOf ==
  [type |-> {"ICON"}, angle |-> {"ICON"}, junction |-> {"ICON"},
   side |-> {"ICON"}, streets |-> {"ICON"}, ver |-> {"ICON", "TEXT"},
   name |-> {"TEXT"}, afterRoad |-> {"TEXT"}, exitInfo |-> {"TEXT"},
   distance |-> {"DIST"}, lanes |-> {"LANE"}]

Changed(old, new) == {k \in DOMAIN new : new[k] # old[k]}
Merged(old, new)  == [k \in DOMAIN old |-> IF k \in DOMAIN new THEN new[k]
                                                             ELSE old[k]]

(* What a frame may carry; a slot's maneuver need not come with every field*)
(* it has in State.                                                        *)
IsFrame(f) ==
  /\ DOMAIN f \subseteq DOMAIN FlagOf \cup
       {"routeState", "maneuverCount", "sourceSupportsRg", "m", "lg"}
  /\ "routeState" \in DOMAIN f => f.routeState \in Nat
  /\ "m" \in DOMAIN f =>
       /\ DOMAIN f.m \subseteq Slots
       /\ \A i \in DOMAIN f.m : DOMAIN f.m[i] \subseteq DOMAIN NoMan
  /\ "lg" \in DOMAIN f => DOMAIN f.lg \subseteq Slots

ASSUME HudAssumption ==
  /\ SlotCount \in Nat \ {0}
  /\ \A s \in Stories : \A f \in s.frames : IsFrame(f)

(* A parse under way: the state so far, and the flags.                     *)
Noted(p, new, flags) == [state |-> new, dirty |-> p.dirty \cup flags]

WithoutRoute(s) ==
  [s EXCEPT !.routeState = 0, !.maneuverCount = 0, !.maneuverOrder = NoOrder,
            !.laneGuidanceShowing = None, !.laneGuidanceIndex = None,
            !.laneGuidanceSlot = None]

EndFlags(s) ==
  {"LIST", "ICON", "TEXT", "LANE"}
    \cup (IF s.routeState # 0 THEN {"ROUTE"} ELSE {})
    \cup (IF s.maneuverCount # 0 THEN {"COUNT"} ELSE {})

(* source_supports_rg: 0 clears the slots too.                             *)
SourceParsed(p, f) ==
  LET s == p.state IN
  IF \/ "sourceSupportsRg" \notin DOMAIN f
     \/ f.sourceSupportsRg = s.sourceSupportsRg
  THEN p
  ELSE IF f.sourceSupportsRg = 0
  THEN Noted(p, [WithoutRoute(s) EXCEPT !.sourceSupportsRg = 0,
                                        !.m = NoState.m, !.lg = NoState.lg],
             {"SOURCE"} \cup EndFlags(s))
  ELSE Noted(p, [s EXCEPT !.sourceSupportsRg = f.sourceSupportsRg], {"SOURCE"})

(* route_state: 0 keeps the slots.                                         *)
RouteParsed(p, f) ==
  LET s == p.state IN
  IF "routeState" \notin DOMAIN f THEN p
  ELSE IF f.routeState = 0 THEN Noted(p, WithoutRoute(s), EndFlags(s))
  ELSE IF f.routeState = s.routeState THEN p
  ELSE Noted(p, [s EXCEPT !.routeState = f.routeState], {"ROUTE"})

(* maneuver_count: 0 drops the order.                                      *)
CountParsed(p, f) ==
  LET s == p.state IN
  IF "maneuverCount" \notin DOMAIN f \/ f.maneuverCount = s.maneuverCount
  THEN p
  ELSE IF f.maneuverCount = 0
  THEN Noted(p, [s EXCEPT !.maneuverCount = 0, !.maneuverOrder = NoOrder],
             {"COUNT", "LIST"})
  ELSE Noted(p, [s EXCEPT !.maneuverCount = f.maneuverCount], {"COUNT"})

KeysParsed(p, f) ==
  LET new == [k \in DOMAIN FlagOf \cap DOMAIN f |-> f[k]]
  IN  Noted(p, Merged(p.state, new), {FlagOf[k] : k \in Changed(p.state, new)})

LanesParsed(p, f) ==
  IF "lg" \notin DOMAIN f THEN p
  ELSE Noted(p, [p.state EXCEPT !.lg = Merged(@, f.lg)],
             IF Changed(p.state.lg, f.lg) # {} THEN {"LANE"} ELSE {})

(* Fields a maneuver does not have keep what the slot had.                 *)
MansParsed(p, f) ==
  LET flags(i) == UNION {ManFlagsOf[k] : k \in Changed(p.state.m[i], f.m[i])}
  IN  IF "m" \notin DOMAIN f THEN p
      ELSE Noted(p, [p.state EXCEPT !.m =
                       [i \in Slots |-> IF i \in DOMAIN f.m
                                       THEN Merged(@[i], f.m[i]) ELSE @[i]]],
                 UNION {flags(i) : i \in DOMAIN f.m})

(* isRouteUpdateDelta                                                      *)
IsRouteUpdate(f) ==
  DOMAIN f \cap {"routeState", "maneuverState", "maneuverCount",
                 "maneuverOrder", "distManeuverM", "currentRoad",
                 "visibleInApp", "sourceSupportsRg"} # {}

(* RouteGuidance.parse; no maneuver is taken before a route update.        *)
Parsed(f) ==
  LET start == [state |-> state, dirty |-> {}]
      route == CountParsed(RouteParsed(SourceParsed(start, f), f), f)
      lanes == LanesParsed(KeysParsed(route, f), f)
  IN  IF routeSeen \/ IsRouteUpdate(f) THEN MansParsed(lanes, f) ELSE lanes

(* wantsRouteOwnership, with the flags of the frame.                       *)
WantsOwnership(s, dirty) ==
  LET looksActive == s.routeState >= 1 \/ s.maneuverCount > 0
                       \/ s.maneuverOrder \notin {NoOrder, <<>>}
  IN  /\ s.sourceSupportsRg # 0
      /\ s.routeState # 0
      /\ IF s.visibleInApp # None
         THEN s.visibleInApp # 0 \/ looksActive
         ELSE looksActive /\ ~("COUNT" \in dirty /\ s.maneuverCount = 0
                                 /\ s.routeState < 1)

-----------------------------------------------------------------------------
(* The maneuver presented.                                                 *)

Order(s) == IF s.maneuverOrder = NoOrder THEN <<>> ELSE s.maneuverOrder
TypesOf(s) == [i \in Slots |-> s.m[i].type]

PresentableOf(order, types) ==
  SelectSeq(order, LAMBDA i : i \in Slots /\ IsValid(types[i]))

(* getFirstManeuverIndex: the first that is not START_ROUTE.               *)
SelectedOf(order, types) ==
  LET real == SelectSeq(PresentableOf(order, types),
                        LAMBDA i : types[i] # StartRoute)
  IN  IF real = <<>> THEN None ELSE Head(real)

Selected(s) == SelectedOf(Order(s), TypesOf(s))
Chosen(s)   == IF Selected(s) \in Slots THEN s.m[Selected(s)] ELSE NoMan

(* What of a maneuver its symbol is made from.                             *)
Symbol(man) ==
  [type |-> man.type, angle |-> man.angle, junction |-> man.junction,
   side |-> man.side, streets |-> man.streets]

Tolerance == 100                   \* PRESENTATION_DISTANCE_TOLERANCE_M

(* START_ROUTE heads the list, and another maneuver is presented.          *)
SkipsStart(order, types) ==
  LET all == PresentableOf(order, types)
  IN  /\ SelectedOf(order, types) # None
      /\ SelectedOf(order, types) # Head(all)
      /\ types[Head(all)] = StartRoute

(* resolvePresentationManeuver: then the live distance may be the start's. *)
Resolved(s) ==
  LET slot == Chosen(s).distance
      live == s.distManeuverM
  IN  IF SkipsStart(Order(s), TypesOf(s)) /\ slot > 0
           /\ (live <= 0 \/ live > slot + Tolerance)
      THEN slot ELSE live

(* The distance to prepare at: longer on a highway, that is after a long   *)
(* step or at a ramp.                                                      *)
PrepareAt(man) ==
  IF IF man.distance > 0 THEN man.distance > 2000 ELSE IsHighway(man.type)
  THEN 3000 ELSE 1500

(* getActionThresholdM                                                     *)
ActAt(man) ==
  LET cap == (PrepareAt(man) * 15) \div 100
  IN  IF man.distance <= 0 \/ man.distance > cap THEN cap ELSE man.distance

IsArrival(type) ==
  type \in ArriveTypes
    \cup {"ARRIVE_DESTINATION_LEFT", "ARRIVE_DESTINATION_RIGHT"}

(* The text to turn to: exit, road or name, what there is.                 *)
TurnTo(man) ==
  IF man.exitInfo # "" THEN man.exitInfo
  ELSE IF man.afterRoad # "" THEN man.afterRoad ELSE man.name

-----------------------------------------------------------------------------
(* The lanes presented.                                                    *)

HasLanes(s, i) == i \in Slots /\ s.lg[i].lanes # <<>>

HeldAt(s, i) == HasLanes(s, i) /\ s.lg[i].index = s.laneGuidanceIndex

FirstOf(slots) == CHOOSE i \in slots : \A j \in slots : i <= j

OwnLanes(s, i) == i \in Slots /\ ~HasLanes(s, i) /\ s.m[i].lanes # <<>>

(* Mutant: the slot announced is not compared with the event shown.        *)
LanesToShowUnchecked(s) ==
  LET holders == {i \in Slots : HeldAt(s, i)}
  IN  IF s.laneGuidanceIndex < 0 THEN <<>>
      ELSE IF HasLanes(s, s.laneGuidanceSlot)
      THEN s.lg[s.laneGuidanceSlot].lanes
      ELSE IF holders # {} THEN s.lg[FirstOf(holders)].lanes
      ELSE IF OwnLanes(s, s.laneGuidanceIndex)
      THEN s.m[s.laneGuidanceIndex].lanes
      ELSE IF OwnLanes(s, Selected(s)) THEN s.m[Selected(s)].lanes
      ELSE <<>>

(* resolveLaneGuidanceManeuverIndex: the slot announced, or any other that *)
(* holds the event shown; else the lanes a maneuver carries itself, of the *)
(* slot with the event's number or of the maneuver presented.  (A slot     *)
(* linked to the maneuver is tried in between, and is one of the holders.) *)
LanesToShow(s) ==
  LET holders == {i \in Slots : HeldAt(s, i)}
  IN  IF s.laneGuidanceIndex < 0 THEN <<>>
      ELSE IF HeldAt(s, s.laneGuidanceSlot) THEN s.lg[s.laneGuidanceSlot].lanes
      ELSE IF holders # {} THEN s.lg[FirstOf(holders)].lanes
      ELSE IF OwnLanes(s, s.laneGuidanceIndex)
      THEN s.m[s.laneGuidanceIndex].lanes
      ELSE IF OwnLanes(s, Selected(s)) THEN s.m[Selected(s)].lanes
      ELSE <<>>

-----------------------------------------------------------------------------
(* BAPBridge.                                                              *)

(* Nothing is latched; no text is <<>>, a road one text, a turn an arrow   *)
(* and a text.                                                             *)
NoBridge == [approach |-> FALSE, shown |-> <<None, None>>, latched |-> <<>>,
             distance |-> None]

Cleared == [descriptor |-> EmptyDescriptor, distance |-> None, text |-> <<>>,
            maneuverState |-> 0, lanes |-> <<>>]

(* What onStart writes: no symbol, no distance, no text.                   *)
StartedOn(c) == [c EXCEPT !.descriptor = EmptyDescriptor, !.distance = None,
                          !.text = <<>>]

ClearRoute(s) == s.maneuverCount = 0 /\ s.routeState <= 0

(* The approach zone: left for a new maneuver, entered and left by the     *)
(* distance; without one it stays as it is, and arrivals are always near.  *)
Approach(b, s) ==
  LET man     == Chosen(s)
      shown   == <<Selected(s), man.ver>>
      before  == b.approach /\ shown = b.shown
      usable  == Resolved(s) > 0
      near    == IsArrival(man.type)
                   \/ IF usable THEN Resolved(s) <= PrepareAt(man) ELSE before
      crosses == usable /\ near # before /\ Selected(s) # None
  IN  [near |-> near, crosses |-> crosses, shown |-> shown,
       inside |-> IF crosses THEN near ELSE before]

(* Mutant: a new list does not bring a new symbol.                         *)
CausesWithoutList ==
  [descriptor    |-> {"ICON", "COUNT"},
   distance      |-> {"DIST", "ICON", "LIST", "COUNT"},
   text          |-> {"ROAD", "TEXT", "LIST", "ICON"},
   maneuverState |-> {"STATE", "ICON", "LIST", "COUNT", "DIST"},
   lanes         |-> {"LANE", "LIST", "COUNT"}]

(* The flags that make update write a part of the display.                 *)
Causes ==
  [descriptor    |-> {"ICON", "LIST", "COUNT"},
   distance      |-> {"DIST", "ICON", "LIST", "COUNT"},
   text          |-> {"ROAD", "TEXT", "LIST", "ICON"},
   maneuverState |-> {"STATE", "ICON", "LIST", "COUNT", "DIST"},
   lanes         |-> {"LANE", "LIST", "COUNT"}]

(* 1. A maneuver whose slot is not filled yet leaves the icon as it is.    *)
NewDescriptor(old, s, dirty) ==
  IF ClearRoute(s) /\ "COUNT" \in dirty THEN EmptyDescriptor
  ELSE IF Selected(s) # None THEN Descriptor(Symbol(Chosen(s)))
  ELSE IF ClearRoute(s) THEN EmptyDescriptor ELSE old

(* 3. Without a distance the last one is repeated while maneuvers are      *)
(* listed.                                                                 *)
NewDistance(b, s) ==
  IF ClearRoute(s) THEN None
  ELSE IF Resolved(s) > 0 THEN Resolved(s)
  ELSE IF Order(s) # <<>> /\ s.maneuverCount > 0 THEN b.distance ELSE None

(* 4. In the approach zone the text to turn to, or the last one if there   *)
(* is none; elsewhere the road.                                            *)
NewText(latched, inside, s) ==
  IF ~inside \/ ClearRoute(s) THEN <<s.currentRoad>>
  ELSE IF TurnTo(Chosen(s)) # ""
  THEN <<Arrow(Symbol(Chosen(s))), TurnTo(Chosen(s))>>
  ELSE latched

(* 5. Follow, prepare or action.                                           *)
NewManeuverState(old, near, s) ==
  IF Selected(s) # None /\ ~ClearRoute(s)
  THEN IF ~near THEN 1
       ELSE IF Resolved(s) \in 1..ActAt(Chosen(s)) THEN 4 ELSE 2
  ELSE IF ClearRoute(s) THEN 0
  ELSE IF Order(s) # <<>> /\ s.maneuverCount > 0 THEN 1 ELSE old

(* 6. The phone decides whether lanes are shown.                           *)
NewLanes(s) ==
  IF ~ClearRoute(s) /\ s.laneGuidanceShowing = 1 THEN LanePanel(LanesToShow(s))
  ELSE <<>>

(* Crossing the approach zone renews text, arrow, lanes and distance.      *)
Noticed(zone, noted) ==
  noted \cup IF zone.crosses THEN {"DIST", "LANE", "TEXT", "ICON"} ELSE {}

(* The parts the flags name are written, the others left.                  *)
Written(b, c, s, zone, dirty) ==
  LET writes(part) == Causes[part] \cap dirty # {}
      latched == IF zone.crosses \/ ClearRoute(s) THEN <<>> ELSE b.latched
      text == NewText(latched, zone.inside, s)
      turns == zone.inside /\ ~ClearRoute(s)
      distance == IF writes("distance") THEN NewDistance(b, s) ELSE c.distance
  IN  [bridge |->
         [approach |-> zone.inside, shown |-> zone.shown,
          latched |-> IF ~writes("text") THEN latched
                      ELSE IF turns THEN text ELSE <<>>,
          distance |-> IF writes("distance") THEN distance ELSE b.distance],
       cluster |->
         [descriptor |-> IF writes("descriptor")
                         THEN NewDescriptor(c.descriptor, s, dirty)
                         ELSE c.descriptor,
          distance |-> distance,
          text |-> IF writes("text") THEN text ELSE c.text,
          maneuverState |-> IF writes("maneuverState")
                            THEN NewManeuverState(c.maneuverState,
                                                  zone.near, s)
                            ELSE c.maneuverState,
          lanes |-> IF writes("lanes") THEN NewLanes(s) ELSE c.lanes],
       parts |-> {part \in DOMAIN Causes : writes(part)}]

UpdatedIn(zone, b, c, s, noted) == Written(b, c, s, zone, Noticed(zone, noted))

(* BAPBridge.update                                                        *)
Updated(b, c, s, noted) == UpdatedIn(Approach(b, s), b, c, s, noted)

-----------------------------------------------------------------------------
(* RouteGuidance.onFrame, start and stop.                                  *)

ActivationFlags ==
  {"ROUTE", "STATE", "COUNT", "LIST", "ICON", "VISIBLE", "SOURCE"}

(* The route is to begin or to end with this frame.                        *)
Turns(p) ==
  /\ p.dirty \cap ActivationFlags # {}
  /\ WantsOwnership(p.state, p.dirty) # rgActive

(* onStart's hand-over failed: the flags are gone, the route not shown.    *)
Refused(p) ==
  /\ ~rgActive /\ Turns(p) /\ story.refuses
  /\ UNCHANGED <<rgActive, bridge, cluster, fresh>>

(* An update is done; before it the parts in old were right.               *)
Displays(u, s, old) ==
  /\ bridge' = u.bridge
  /\ cluster' = u.cluster
  /\ fresh' = IF ClearRoute(s) THEN {} ELSE old \cup u.parts

(* onStart, then update with the flags of this frame.                      *)
Begins(p) ==
  /\ ~rgActive /\ Turns(p)
  /\ Displays(Updated(NoBridge, StartedOn(cluster), p.state, p.dirty),
              p.state, {})
  /\ rgActive' = TRUE

(* onStop and onShutdown                                                   *)
ShutsDown ==
  /\ rgActive' = FALSE
  /\ bridge' = NoBridge
  /\ cluster' = Cleared
  /\ fresh' = {}

Ends(p) == rgActive /\ Turns(p) /\ ShutsDown

Presents(p) ==
  /\ rgActive /\ ~Turns(p)
  /\ p.dirty # {}
  /\ Displays(Updated(bridge, cluster, p.state, p.dirty), p.state, fresh)
  /\ UNCHANGED rgActive

(* Nothing new, or no route on the cluster.                                *)
Passes(p) ==
  /\ p.dirty = {} \/ ~rgActive
  /\ ~Turns(p)
  /\ UNCHANGED <<rgActive, bridge, cluster, fresh>>

Taken(p) ==
  /\ state' = p.state
  /\ Refused(p) \/ Begins(p) \/ Ends(p) \/ Presents(p) \/ Passes(p)

Frame(f) ==
  /\ running
  /\ Taken(Parsed(f))
  /\ routeSeen' = (routeSeen \/ IsRouteUpdate(f))
  /\ UNCHANGED <<story, running>>

(* stop disposes of the bridge; State stays.                               *)
Stops ==
  /\ running /\ story.restarts
  /\ running' = FALSE /\ routeSeen' = FALSE
  /\ ShutsDown
  /\ UNCHANGED <<story, state>>

Starts ==
  /\ ~running
  /\ running' = TRUE
  /\ UNCHANGED <<story, routeSeen, rgActive, state, bridge, cluster, fresh>>

Init ==
  /\ story \in Stories
  /\ running = TRUE /\ routeSeen = FALSE /\ rgActive = FALSE
  /\ state = NoState
  /\ bridge = NoBridge
  /\ cluster = Cleared
  /\ fresh = {}

Next == (\E f \in story.frames : Frame(f)) \/ Stops \/ Starts

Spec == Init /\ [][Next]_vars

-----------------------------------------------------------------------------
(* Properties.  update writes only the parts of the display that its flags *)
(* name, from a State that several frames filled; a part written since     *)
(* there is a route must stay what the State says until the flags name it  *)
(* again.                                                                  *)

(* State keeps its keys, and so does each slot's maneuver; a route that is *)
(* not on the cluster has left nothing there.                              *)
TypeOK ==
  /\ DOMAIN state = DOMAIN NoState
  /\ DOMAIN state.m = Slots /\ DOMAIN state.lg = Slots
  /\ \A i \in Slots : DOMAIN state.m[i] = DOMAIN NoMan
  /\ fresh \subseteq DOMAIN Causes
  /\ ~rgActive => cluster = Cleared /\ bridge = NoBridge /\ fresh = {}
  /\ ClearRoute(state) => fresh = {}

(* The symbol and its side streets are those of the maneuver presented,    *)
(* whichever of list, count, type, angle and slot came last.               *)
IconOfSelected ==
  "descriptor" \in fresh /\ Selected(state) # None
    => cluster.descriptor = Descriptor(Symbol(Chosen(state)))

(* The distance is that of the maneuver whose symbol is shown: not a former*)
(* one's, and not the start's while that heads the list.                   *)
DistanceOfSelected ==
  "distance" \in fresh /\ Resolved(state) > 0
    => cluster.distance = Resolved(state)

(* Far from the maneuver the text is the road driven on; in its approach   *)
(* zone it is where that maneuver, and no former one, leads to, behind the *)
(* arrow of the symbol.                                                    *)
TurnTextIsCurrent ==
  "text" \in fresh =>
    IF ~bridge.approach THEN cluster.text = <<state.currentRoad>>
    ELSE TurnTo(Chosen(state)) # ""
           => cluster.text =
                <<Arrow(Symbol(Chosen(state))), TurnTo(Chosen(state))>>

(* "Turn now" is shown only with a distance next to it that is within the  *)
(* action range of the maneuver shown.  (A list without a maneuver leaves  *)
(* all of it as it was.)                                                   *)
ActionMeansClose ==
  {"maneuverState", "distance"} \subseteq fresh /\ Selected(state) # None
    /\ cluster.maneuverState = 4
    => cluster.distance \in 1..ActAt(Chosen(state))

(* Symbol, distance, text and "turn now" are of one and the same maneuver, *)
(* the one the last list selects (BAPBridge.update).                       *)
DisplayIsSelected ==
  /\ IconOfSelected /\ DistanceOfSelected /\ TurnTextIsCurrent
  /\ ActionMeansClose

(* While the phone shows lanes and a slot holds the event it names, they   *)
(* are the lanes of that event, though the slot announced may have been    *)
(* given to another event since; hidden lanes, and those of a route that   *)
(* ended, are gone.                                                        *)
LanesOfActiveEvent ==
  /\ ClearRoute(state) => cluster.lanes = <<>>
  /\ "lanes" \in fresh =>
       LET holders == {i \in Slots : HeldAt(state, i)} IN
       /\ state.laneGuidanceShowing # 1 => cluster.lanes = <<>>
       /\ state.laneGuidanceShowing = 1 /\ ~(state.laneGuidanceIndex < 0)
             /\ holders # {}
            => \E i \in holders : cluster.lanes = LanePanel(state.lg[i].lanes)

-----------------------------------------------------------------------------
(* Properties of the symbols, of whatever maneuver the slots hold.         *)

Held == {m \in {state.m[i] : i \in Slots} :
           m.type # NotSet /\ m.side \in {RightHand, LeftHand}
             /\ m.junction # None}

(* Left-hand traffic sees the mirror image: the mirrored maneuver has the  *)
(* mirrored symbol, arrow and side streets.  An angle of one degree is left*)
(* out: -1 is what an empty slot holds, and the code takes it for none.    *)
MirrorsTraffic ==
  \A m \in Held :
    m.angle \notin NoAngles \cup {1, -1} =>
      LET twin == Descriptor(Mirrored(m))
          own  == Descriptor(m)
      IN  /\ twin.icon =
               Icon(MirroredName(own.icon.main), Turned(own.icon.dir))
          /\ ToSet(twin.side) = {Turned(d) : d \in ToSet(own.side)}

(* Every street gets a line of its own, on its side of the exit, when that *)
(* side has the lines: the nearest lines being taken never leaves one      *)
(* without.                                                                *)
EveryStreetDrawn ==
  \A m \in Held :
    HasStreets(m) /\ m.angle # 1000 /\ StreetsFit(m)
      => /\ IsInjective(SideStreets(m))
         /\ Len(SideStreets(m)) = Len(Above(m)) + Len(Below(m))

(* No side street lies on the arrow that leaves the roundabout.  (Of the   *)
(* two values for no angle the side streets know only 1000.)               *)
SideStreetsApart ==
  \A m \in Held :
    m.type = "ROUNDABOUT_EXIT" /\ m.junction = Roundabout /\ m.angle # -1000
      => Map(m).dir \notin ToSet(SideStreets(m))

(* Where the type does not say left or right the angle does, whatever the  *)
(* driving side: arrow and exit symbol lie on the same side of the road.   *)
TurnsWithTheAngle ==
  \A m \in Held :
    m.type \in FreeTypes \cup UTurnTypes \cup {"OFF_RAMP", "ON_RAMP"}
      /\ Map(m) # NoInfo /\ HasAngle(m.angle)
      => /\ Map(m).dir \in 1..127 <=> m.angle < 0
         /\ m.type = "OFF_RAMP"
              => Map(m).main =
                   IF m.angle < 0 THEN "EXIT_LEFT" ELSE "EXIT_RIGHT"

(* Both of them: the sides of the road are told apart alike everywhere     *)
(* (ManeuverMapper.map, SideStreets).                                      *)
SidesAreRight == MirrorsTraffic /\ TurnsWithTheAngle

(* Both of them: each street has a line, and none is the arrow's           *)
(* (occupiedSidestreetsIntersection, occupiedSidestreetsRoundabout).       *)
StreetsHaveLines == EveryStreetDrawn /\ SideStreetsApart

=============================================================================
