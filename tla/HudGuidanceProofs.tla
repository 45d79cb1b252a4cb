------------------------- MODULE HudGuidanceProofs -------------------------
(***************************************************************************)
(* Theorems about HudGuidance, for any frames and any number of slots:     *)
(* the flags of parse name all that changes, and so what update does not   *)
(* write again is still right.                                             *)
(***************************************************************************)
EXTENDS HudGuidance, TLAPS, WellFoundedInduction

-----------------------------------------------------------------------------
(* What the flags promise.                                                 *)

Shaped(s) ==
  /\ DOMAIN s = DOMAIN NoState
  /\ DOMAIN s.m = Slots /\ DOMAIN s.lg = Slots
  /\ \A i \in Slots : DOMAIN s.m[i] = DOMAIN NoMan

(* From s to t nothing changed that no flag of d names.                    *)
KeptFields(s, t, d) ==
  /\ "ROUTE" \notin d => t.routeState = s.routeState
  /\ "COUNT" \notin d => t.maneuverCount = s.maneuverCount
  /\ "LIST" \notin d => t.maneuverOrder = s.maneuverOrder
  /\ "DIST" \notin d => t.distManeuverM = s.distManeuverM
  /\ "ROAD" \notin d => t.currentRoad = s.currentRoad

KeptLanes(s, t, d) ==
  "LANE" \notin d =>
    /\ t.laneGuidanceShowing = s.laneGuidanceShowing
    /\ t.laneGuidanceIndex = s.laneGuidanceIndex
    /\ t.laneGuidanceSlot = s.laneGuidanceSlot
    /\ \A i \in Slots : t.lg[i] = s.lg[i]

KeptMan(x, y, d) ==
  /\ "ICON" \notin d => /\ y.type = x.type /\ y.angle = x.angle
                        /\ y.junction = x.junction /\ y.side = x.side
                        /\ y.streets = x.streets /\ y.ver = x.ver
  /\ "TEXT" \notin d => /\ y.name = x.name /\ y.afterRoad = x.afterRoad
                        /\ y.exitInfo = x.exitInfo
  /\ {"DIST", "ICON"} \cap d = {} => y.distance = x.distance

(* A route ends with the flags of its end.                                 *)
KeptRoute(s, t, d) ==
  {"LIST", "COUNT"} \cap d = {} /\ ClearRoute(t) => ClearRoute(s)

Kept(s, t, d) ==
  /\ KeptFields(s, t, d) /\ KeptLanes(s, t, d) /\ KeptRoute(s, t, d)
  /\ \A i \in Slots : KeptMan(s.m[i], t.m[i], d)

LEMMA RouteKept ==
  ASSUME NEW s, NEW t, NEW d, KeptFields(s, t, d),
         "LIST" \in d \/ "COUNT" \in d \/ "ROUTE" \notin d \/ ~ClearRoute(t)
  PROVE  KeptRoute(s, t, d)
<1>1. {"LIST", "COUNT"} \cap d = {} => "LIST" \notin d /\ "COUNT" \notin d
  OBVIOUS
<1> QED BY <1>1 DEF KeptFields, KeptRoute, ClearRoute

LEMMA KeptTransitive ==
  ASSUME NEW s, NEW t, NEW u, NEW d, NEW e, Kept(s, t, d), Kept(t, u, e)
  PROVE  Kept(s, u, d \cup e)
<1>1. KeptFields(s, u, d \cup e)
  BY DEF Kept, KeptFields
<1>2. KeptLanes(s, u, d \cup e) /\ KeptRoute(s, u, d \cup e)
  <2>1. {"LIST", "COUNT"} \cap (d \cup e) = {}
          => {"LIST", "COUNT"} \cap d = {} /\ {"LIST", "COUNT"} \cap e = {}
    OBVIOUS
  <2> QED BY <2>1 DEF Kept, KeptLanes, KeptRoute
<1>3. ASSUME NEW i \in Slots PROVE KeptMan(s.m[i], u.m[i], d \cup e)
  <2>1. KeptMan(s.m[i], t.m[i], d) /\ KeptMan(t.m[i], u.m[i], e)
    BY DEF Kept
  <2> QED BY <2>1 DEF KeptMan
<1> QED BY <1>1, <1>2, <1>3 DEF Kept

(* A parse step from p to q.                                               *)
Step(p, q) ==
  /\ Shaped(q.state)
  /\ \E d : q.dirty = p.dirty \cup d /\ Kept(p.state, q.state, d)

LEMMA NoStep ==
  ASSUME NEW p, Shaped(p.state) PROVE Step(p, p)
<1>1. Kept(p.state, p.state, {}) /\ p.dirty = p.dirty \cup {}
  BY DEF Kept, KeptFields, KeptLanes, KeptRoute, KeptMan
<1> QED BY <1>1 DEF Step

LEMMA OneStep ==
  ASSUME NEW p, NEW t, NEW d, Shaped(t), Kept(p.state, t, d)
  PROVE  Step(p, Noted(p, t, d))
BY DEF Step, Noted

LEMMA StepsCompose ==
  ASSUME NEW p, NEW q, NEW r, Step(p, q), Step(q, r)
  PROVE  Step(p, r)
<1>1. PICK d : q.dirty = p.dirty \cup d /\ Kept(p.state, q.state, d)
  BY DEF Step
<1>2. PICK e : r.dirty = q.dirty \cup e /\ Kept(q.state, r.state, e)
  BY DEF Step
<1>3. r.dirty = p.dirty \cup (d \cup e) /\ Kept(p.state, r.state, d \cup e)
  BY <1>1, <1>2, KeptTransitive
<1> QED BY <1>3 DEF Step

-----------------------------------------------------------------------------
(* The steps of parse.                                                     *)

LEMMA EndKeeps ==
  ASSUME NEW s, Shaped(s)
  PROVE  Shaped(WithoutRoute(s)) /\ Kept(s, WithoutRoute(s), EndFlags(s))
<1> DEFINE t == WithoutRoute(s)
<1>1. Shaped(t) /\ t.m = s.m /\ t.lg = s.lg
  BY DEF Shaped, WithoutRoute, NoState
<1>2. KeptFields(s, t, EndFlags(s))
  BY DEF KeptFields, WithoutRoute, EndFlags, Shaped, NoState
<1>3. KeptLanes(s, t, EndFlags(s))
  BY DEF KeptLanes, EndFlags
<1>4. \A i \in Slots : KeptMan(s.m[i], t.m[i], EndFlags(s))
  BY <1>1 DEF KeptMan
<1>5. KeptRoute(s, t, EndFlags(s))
  <2>1. "LIST" \in EndFlags(s)
    BY DEF EndFlags
  <2> QED BY <1>2, <2>1, RouteKept
<1> QED BY <1>1, <1>2, <1>3, <1>4, <1>5 DEF Kept

LEMMA SourceSteps ==
  ASSUME NEW p, NEW f, Shaped(p.state)
  PROVE  Step(p, SourceParsed(p, f))
<1> DEFINE s == p.state
           ended == [WithoutRoute(s) EXCEPT !.sourceSupportsRg = 0,
                       !.m = NoState.m, !.lg = NoState.lg]
           t == [s EXCEPT !.sourceSupportsRg = f.sourceSupportsRg]
<1>1. CASE SourceParsed(p, f) = p
  BY <1>1, NoStep
<1>2. CASE SourceParsed(p, f) = Noted(p, ended, {"SOURCE"} \cup EndFlags(s))
  <2>1. Shaped(ended)
    BY DEF Shaped, WithoutRoute, NoState
  <2>2. KeptFields(s, ended, {"SOURCE"} \cup EndFlags(s))
    BY DEF KeptFields, WithoutRoute, EndFlags, Shaped, NoState
  <2>3. KeptLanes(s, ended, {"SOURCE"} \cup EndFlags(s))
    BY DEF KeptLanes, EndFlags
  <2>4. \A i \in Slots :
          KeptMan(s.m[i], ended.m[i], {"SOURCE"} \cup EndFlags(s))
    BY DEF KeptMan, EndFlags
  <2>5. KeptRoute(s, ended, {"SOURCE"} \cup EndFlags(s))
    <3>1. "LIST" \in {"SOURCE"} \cup EndFlags(s)
      BY DEF EndFlags
    <3> QED BY <2>2, <3>1, RouteKept
  <2> QED BY <1>2, <2>1, <2>2, <2>3, <2>4, <2>5, OneStep DEF Kept
<1>3. CASE SourceParsed(p, f) = Noted(p, t, {"SOURCE"})
  <2>1. Shaped(t) /\ t.m = s.m /\ t.lg = s.lg
    BY DEF Shaped, NoState
  <2>2. KeptFields(s, t, {"SOURCE"}) /\ KeptLanes(s, t, {"SOURCE"})
    BY <2>1 DEF KeptFields, KeptLanes, Shaped, NoState
  <2>3. \A i \in Slots : KeptMan(s.m[i], t.m[i], {"SOURCE"})
    BY <2>1 DEF KeptMan
  <2>4. KeptRoute(s, t, {"SOURCE"})
    BY <2>2, RouteKept
  <2> QED BY <1>3, <2>1, <2>2, <2>3, <2>4, OneStep DEF Kept
<1> QED BY <1>1, <1>2, <1>3 DEF SourceParsed

LEMMA RouteSteps ==
  ASSUME NEW p, NEW f, Shaped(p.state), IsFrame(f)
  PROVE  Step(p, RouteParsed(p, f))
<1> DEFINE s == p.state
           t == [s EXCEPT !.routeState = f.routeState]
<1>1. CASE RouteParsed(p, f) = p
  BY <1>1, NoStep
<1>2. CASE RouteParsed(p, f) = Noted(p, WithoutRoute(s), EndFlags(s))
  BY <1>2, EndKeeps, OneStep
<1>3. CASE /\ RouteParsed(p, f) = Noted(p, t, {"ROUTE"})
           /\ "routeState" \in DOMAIN f /\ f.routeState # 0
  <2>1. Shaped(t) /\ t.m = s.m /\ t.lg = s.lg
    BY DEF Shaped, NoState
  <2>2. KeptFields(s, t, {"ROUTE"}) /\ KeptLanes(s, t, {"ROUTE"})
    BY <2>1 DEF KeptFields, KeptLanes, Shaped, NoState
  <2>3. \A i \in Slots : KeptMan(s.m[i], t.m[i], {"ROUTE"})
    BY <2>1 DEF KeptMan
  <2>4. ~ClearRoute(t)
    <3>1. t.routeState = f.routeState
      BY DEF Shaped, NoState
    <3> QED BY <1>3, <3>1 DEF ClearRoute, IsFrame
  <2>5. KeptRoute(s, t, {"ROUTE"})
    BY <2>2, <2>4, RouteKept
  <2> QED BY <1>3, <2>1, <2>2, <2>3, <2>5, OneStep DEF Kept
<1> QED BY <1>1, <1>2, <1>3 DEF RouteParsed

LEMMA CountSteps ==
  ASSUME NEW p, NEW f, Shaped(p.state)
  PROVE  Step(p, CountParsed(p, f))
<1> DEFINE s == p.state
           none == [s EXCEPT !.maneuverCount = 0, !.maneuverOrder = NoOrder]
           t == [s EXCEPT !.maneuverCount = f.maneuverCount]
<1>1. CASE CountParsed(p, f) = p
  BY <1>1, NoStep
<1>2. CASE CountParsed(p, f) = Noted(p, none, {"COUNT", "LIST"})
  <2>1. Shaped(none) /\ none.m = s.m /\ none.lg = s.lg
    BY DEF Shaped, NoState
  <2>2. /\ KeptFields(s, none, {"COUNT", "LIST"})
        /\ KeptLanes(s, none, {"COUNT", "LIST"})
    BY <2>1 DEF KeptFields, KeptLanes, Shaped, NoState
  <2>3. \A i \in Slots : KeptMan(s.m[i], none.m[i], {"COUNT", "LIST"})
    BY <2>1 DEF KeptMan
  <2>4. KeptRoute(s, none, {"COUNT", "LIST"})
    BY <2>2, RouteKept
  <2> QED BY <1>2, <2>1, <2>2, <2>3, <2>4, OneStep DEF Kept
<1>3. CASE CountParsed(p, f) = Noted(p, t, {"COUNT"})
  <2>1. Shaped(t) /\ t.m = s.m /\ t.lg = s.lg
    BY DEF Shaped, NoState
  <2>2. KeptFields(s, t, {"COUNT"}) /\ KeptLanes(s, t, {"COUNT"})
    BY <2>1 DEF KeptFields, KeptLanes, Shaped, NoState
  <2>3. \A i \in Slots : KeptMan(s.m[i], t.m[i], {"COUNT"})
    BY <2>1 DEF KeptMan
  <2>4. KeptRoute(s, t, {"COUNT"})
    BY <2>2, RouteKept
  <2> QED BY <1>3, <2>1, <2>2, <2>3, <2>4, OneStep DEF Kept
<1> QED BY <1>1, <1>2, <1>3 DEF CountParsed

LEMMA KeysStep ==
  ASSUME NEW p, NEW f, Shaped(p.state)
  PROVE  Step(p, KeysParsed(p, f))
<1> DEFINE s == p.state
           new == [k \in DOMAIN FlagOf \cap DOMAIN f |-> f[k]]
           t == Merged(s, new)
           d == {FlagOf[k] : k \in Changed(s, new)}
<1>1. DOMAIN FlagOf =
        {"maneuverState", "maneuverOrder", "visibleInApp", "distManeuverM",
         "currentRoad", "laneGuidanceShowing", "laneGuidanceIndex",
         "laneGuidanceSlot"}
  BY DEF FlagOf
<1>2. /\ DOMAIN t = DOMAIN s /\ DOMAIN s = DOMAIN NoState
      /\ \A k \in DOMAIN s : k \notin DOMAIN FlagOf => t[k] = s[k]
      /\ \A k \in DOMAIN s \cap DOMAIN FlagOf :
           FlagOf[k] \notin d => t[k] = s[k]
  BY DEF Merged, Changed, Shaped
<1> HIDE DEF t, d, new
<1>3. Shaped(t) /\ t.m = s.m /\ t.lg = s.lg
  BY <1>1, <1>2 DEF Shaped, NoState
<1>4. KeptFields(s, t, d)
  BY <1>1, <1>2 DEF KeptFields, NoState, FlagOf
<1>5. KeptLanes(s, t, d)
  BY <1>1, <1>2, <1>3 DEF KeptLanes, NoState, FlagOf
<1>6. \A i \in Slots : KeptMan(s.m[i], t.m[i], d)
  BY <1>3 DEF KeptMan
<1>7. KeysParsed(p, f) = Noted(p, t, d)
  BY DEF KeysParsed, t, d, new
<1>8. KeptRoute(s, t, d)
  <2>1. \A k \in DOMAIN FlagOf : FlagOf[k] # "ROUTE"
    BY DEF FlagOf
  <2>2. Changed(s, new) \subseteq DOMAIN FlagOf
    BY DEF Changed, new
  <2>3. "ROUTE" \notin d
    BY <2>1, <2>2 DEF d
  <2> QED BY <1>4, <2>3, RouteKept
<1> QED BY <1>3, <1>4, <1>5, <1>6, <1>7, <1>8, OneStep DEF Kept

LEMMA LanesStep ==
  ASSUME NEW p, NEW f, Shaped(p.state)
  PROVE  Step(p, LanesParsed(p, f))
<1> DEFINE s == p.state
           t == [s EXCEPT !.lg = Merged(@, f.lg)]
           d == IF Changed(s.lg, f.lg) # {} THEN {"LANE"} ELSE {}
<1>1. CASE "lg" \notin DOMAIN f
  BY <1>1, NoStep DEF LanesParsed
<1>2. CASE "lg" \in DOMAIN f
  <2>1. /\ Shaped(t) /\ t.m = s.m /\ t.lg = Merged(s.lg, f.lg)
        /\ KeptFields(s, t, d)
        /\ t.laneGuidanceShowing = s.laneGuidanceShowing
        /\ t.laneGuidanceIndex = s.laneGuidanceIndex
        /\ t.laneGuidanceSlot = s.laneGuidanceSlot
    BY DEF Shaped, NoState, KeptFields, Merged
  <2>2. "LANE" \notin d => \A i \in Slots : t.lg[i] = s.lg[i]
    <3>1. DOMAIN s.lg = Slots
      BY DEF Shaped
    <3> QED BY <2>1, <3>1 DEF Merged, Changed
  <2>3. \A i \in Slots : KeptMan(s.m[i], t.m[i], d)
    BY <2>1 DEF KeptMan
  <2>4. KeptRoute(s, t, d)
    BY <2>1, RouteKept
  <2>5. Kept(s, t, d)
    BY <2>1, <2>2, <2>3, <2>4 DEF Kept, KeptLanes
  <2>6. LanesParsed(p, f) = Noted(p, t, d)
    BY <1>2 DEF LanesParsed
  <2> QED BY <2>1, <2>5, <2>6, OneStep
<1> QED BY <1>1, <1>2

LEMMA MansStep ==
  ASSUME NEW p, NEW f, Shaped(p.state), IsFrame(f)
  PROVE  Step(p, MansParsed(p, f))
<1> DEFINE s == p.state
           man(i) == IF i \in DOMAIN f.m THEN Merged(s.m[i], f.m[i])
                     ELSE s.m[i]
           t == [s EXCEPT !.m = [i \in Slots |-> man(i)]]
           flags(i) == UNION {ManFlagsOf[k] : k \in Changed(s.m[i], f.m[i])}
           d == UNION {flags(i) : i \in DOMAIN f.m}
<1>1. CASE "m" \notin DOMAIN f
  BY <1>1, NoStep DEF MansParsed
<1>2. CASE "m" \in DOMAIN f
  <2>1. /\ \A i \in Slots : DOMAIN s.m[i] = DOMAIN NoMan
        /\ DOMAIN NoMan = DOMAIN ManFlagsOf
        /\ DOMAIN f.m \subseteq Slots
    BY <1>2 DEF Shaped, IsFrame, NoMan, ManFlagsOf
  <2>2. ASSUME NEW i \in Slots
        PROVE  /\ DOMAIN man(i) = DOMAIN NoMan
               /\ \A k \in DOMAIN NoMan :
                    man(i)[k] = s.m[i][k] \/ ManFlagsOf[k] \subseteq d
    <3>1. CASE i \notin DOMAIN f.m
      BY <2>1, <3>1
    <3>2. CASE i \in DOMAIN f.m
      <4>1. DOMAIN man(i) = DOMAIN NoMan
        BY <2>1, <3>2 DEF Merged
      <4>2. ASSUME NEW k \in DOMAIN NoMan, man(i)[k] # s.m[i][k]
            PROVE  ManFlagsOf[k] \subseteq d
        <5>1. k \in Changed(s.m[i], f.m[i])
          BY <2>1, <3>2, <4>2 DEF Merged, Changed
        <5>2. ManFlagsOf[k] \subseteq flags(i)
          BY <5>1
        <5> QED BY <3>2, <5>2
      <4> QED BY <4>1, <4>2
    <3> QED BY <3>1, <3>2
  <2> DEFINE fresh_m == [i \in Slots |-> man(i)]
  <2>3. /\ t.m = fresh_m /\ t.lg = s.lg /\ DOMAIN t = DOMAIN NoState
        /\ KeptFields(s, t, d) /\ KeptLanes(s, t, d)
    BY DEF Shaped, NoState, KeptFields, KeptLanes
  <2>4. Shaped(t)
    BY <2>2, <2>3 DEF Shaped
  <2>5. ASSUME NEW i \in Slots PROVE KeptMan(s.m[i], t.m[i], d)
    <3> DEFINE y == man(i)  x == s.m[i]
    <3>1. t.m[i] = y
      BY <2>3
    <3> HIDE DEF y, x, d
    <3>2. \A k \in DOMAIN NoMan : y[k] = x[k] \/ ManFlagsOf[k] \subseteq d
      BY <2>2 DEF y, x
    <3>3. "ICON" \notin d => /\ y.type = x.type /\ y.angle = x.angle
                            /\ y.junction = x.junction /\ y.side = x.side
                            /\ y.streets = x.streets /\ y.ver = x.ver
      BY <3>2 DEF NoMan, ManFlagsOf
    <3>4. /\ "TEXT" \notin d => /\ y.name = x.name /\ y.afterRoad = x.afterRoad
                               /\ y.exitInfo = x.exitInfo
          /\ "DIST" \notin d => y.distance = x.distance
      BY <3>2 DEF NoMan, ManFlagsOf
    <3> QED BY <3>1, <3>3, <3>4 DEF KeptMan, y, x, d
  <2>6. MansParsed(p, f) = Noted(p, t, d)
    BY <1>2 DEF MansParsed
  <2>7. KeptRoute(s, t, d)
    <3>1. \A k \in DOMAIN ManFlagsOf : "ROUTE" \notin ManFlagsOf[k]
      BY DEF ManFlagsOf
    <3>2. \A i \in DOMAIN f.m :
            Changed(s.m[i], f.m[i]) \subseteq DOMAIN ManFlagsOf
      BY <1>2, <2>1 DEF Changed, IsFrame
    <3>3. "ROUTE" \notin d
      BY <3>1, <3>2
    <3> QED BY <2>3, <3>3, RouteKept
  <2> HIDE DEF t, d, s
  <2>8. Kept(s, t, d)
    BY <2>3, <2>5, <2>7 DEF Kept
  <2>9. Kept(p.state, t, d)
    BY <2>8 DEF s
  <2> QED BY <2>4, <2>6, <2>9, OneStep
<1> QED BY <1>1, <1>2

LEMMA ParsedStep ==
  ASSUME NEW f, IsFrame(f), Shaped(state)
  PROVE  LET p == Parsed(f) IN Shaped(p.state) /\ Kept(state, p.state, p.dirty)
<1> DEFINE p0 == [state |-> state, dirty |-> {}]
           p1 == SourceParsed(p0, f)
           p2 == RouteParsed(p1, f)
           p3 == CountParsed(p2, f)
           p4 == KeysParsed(p3, f)
           p5 == LanesParsed(p4, f)
           p6 == MansParsed(p5, f)
<1>1. Step(p0, p1) /\ Shaped(p1.state)
  BY SourceSteps DEF Step
<1>2. Step(p1, p2) /\ Shaped(p2.state)
  BY <1>1, RouteSteps DEF Step
<1>3. Step(p2, p3) /\ Shaped(p3.state)
  BY <1>2, CountSteps DEF Step
<1>4. Step(p3, p4) /\ Shaped(p4.state)
  BY <1>3, KeysStep DEF Step
<1>5. Step(p4, p5) /\ Shaped(p5.state)
  BY <1>4, LanesStep DEF Step
<1>6. Step(p5, p6)
  BY <1>5, MansStep
<1> HIDE DEF p1, p2, p3, p4, p5, p6
<1>7. Step(p0, p5)
  BY <1>1, <1>2, <1>3, <1>4, <1>5, StepsCompose
<1>8. Step(p0, p6)
  BY <1>6, <1>7, StepsCompose
<1>9. Parsed(f) = p5 \/ Parsed(f) = p6
  BY DEF Parsed, p6, p5, p4, p3, p2, p1
<1>10. Step(p0, Parsed(f))
  BY <1>7, <1>8, <1>9
<1> QED BY <1>10 DEF Step

-----------------------------------------------------------------------------
(* What update keeps right.                                                *)

(* What is shown of s: each part that is in fr is what s asks for.         *)
IconFits(c, s, fr) ==
  "descriptor" \in fr /\ Selected(s) # None
    => c.descriptor = Descriptor(Symbol(Chosen(s)))

DistanceFits(c, s, fr) ==
  "distance" \in fr /\ Resolved(s) > 0 => c.distance = Resolved(s)

TextFits(b, c, s, fr) ==
  "text" \in fr =>
    /\ b.shown = <<Selected(s), Chosen(s).ver>>
    /\ IF ~b.approach THEN c.text = <<s.currentRoad>>
       ELSE TurnTo(Chosen(s)) # ""
              => c.text = <<Arrow(Symbol(Chosen(s))), TurnTo(Chosen(s))>>

ActionFits(c, s, fr) ==
  {"maneuverState", "distance"} \subseteq fr /\ Selected(s) # None
    /\ c.maneuverState = 4
    => c.distance \in 1..ActAt(Chosen(s))

LanesFit(c, s, fr) ==
  /\ ClearRoute(s) => c.lanes = <<>>
  /\ "lanes" \in fr =>
       LET holders == {i \in Slots : HeldAt(s, i)} IN
       /\ s.laneGuidanceShowing # 1 => c.lanes = <<>>
       /\ s.laneGuidanceShowing = 1 /\ ~(s.laneGuidanceIndex < 0)
             /\ holders # {}
            => \E i \in holders : c.lanes = LanePanel(s.lg[i].lanes)

Fits(b, c, s, fr) ==
  /\ IconFits(c, s, fr) /\ DistanceFits(c, s, fr) /\ TextFits(b, c, s, fr)
  /\ ActionFits(c, s, fr) /\ LanesFit(c, s, fr)

(* Neither the list nor a slot's symbol changed: the selection stands.     *)
LEMMA SameSelection ==
  ASSUME NEW s, NEW t, NEW d, Shaped(s), Shaped(t), Kept(s, t, d),
         "LIST" \notin d, "ICON" \notin d
  PROVE  /\ Order(t) = Order(s) /\ TypesOf(t) = TypesOf(s)
         /\ Selected(t) = Selected(s)
         /\ Symbol(Chosen(t)) = Symbol(Chosen(s))
         /\ Chosen(t).ver = Chosen(s).ver /\ Chosen(t).type = Chosen(s).type
<1>1. \A i \in Slots : /\ t.m[i].type = s.m[i].type /\ t.m[i].ver = s.m[i].ver
                       /\ Symbol(t.m[i]) = Symbol(s.m[i])
  BY DEF Kept, KeptMan, Symbol
<1>2. Order(t) = Order(s)
  BY DEF Kept, KeptFields, Order
<1>3. TypesOf(t) = TypesOf(s)
  BY <1>1 DEF TypesOf
<1>4. Selected(t) = Selected(s)
  BY <1>2, <1>3 DEF Selected
<1> QED BY <1>1, <1>2, <1>3, <1>4 DEF Chosen

LEMMA SameDistance ==
  ASSUME NEW s, NEW t, NEW d, Shaped(s), Shaped(t), Kept(s, t, d),
         "LIST" \notin d, "ICON" \notin d, "DIST" \notin d
  PROVE  /\ Resolved(t) = Resolved(s)
         /\ ActAt(Chosen(t)) = ActAt(Chosen(s))
<1>1. /\ Order(t) = Order(s) /\ TypesOf(t) = TypesOf(s)
      /\ Selected(t) = Selected(s) /\ Chosen(t).type = Chosen(s).type
  BY SameSelection
<1>2. \A i \in Slots : t.m[i].distance = s.m[i].distance
  BY DEF Kept, KeptMan
<1>3. Chosen(t).distance = Chosen(s).distance
  BY <1>1, <1>2 DEF Chosen
<1>4. t.distManeuverM = s.distManeuverM
  BY DEF Kept, KeptFields
<1>5. Resolved(t) = Resolved(s)
  BY <1>1, <1>3, <1>4 DEF Resolved
<1>6. ActAt(Chosen(t)) = ActAt(Chosen(s))
  BY <1>1, <1>3 DEF ActAt, PrepareAt
<1> QED BY <1>5, <1>6

(* update writes a part, by its flags or those of a crossed approach zone. *)
Writes(part, b, t, d) == Causes[part] \cap Noticed(Approach(b, t), d) # {}

LEMMA PartsWritten ==
  ASSUME NEW b, NEW c, NEW t, NEW d, NEW part \in DOMAIN Causes
  PROVE  part \in Updated(b, c, t, d).parts <=> Writes(part, b, t, d)
BY DEF Updated, UpdatedIn, Written, Writes

(* What a part that is not written leaves unsaid.                          *)
LEMMA Unnoticed ==
  ASSUME NEW b, NEW t, NEW d
  PROVE  /\ ~Writes("descriptor", b, t, d)
              => "ICON" \notin d /\ "LIST" \notin d
         /\ ~Writes("distance", b, t, d)
              => "DIST" \notin d /\ "ICON" \notin d /\ "LIST" \notin d
         /\ ~Writes("text", b, t, d)
              => /\ "ROAD" \notin d /\ "TEXT" \notin d /\ "LIST" \notin d
                 /\ "ICON" \notin d /\ ~Approach(b, t).crosses
         /\ ~Writes("maneuverState", b, t, d)
              => /\ "ICON" \notin d /\ "LIST" \notin d /\ "DIST" \notin d
                 /\ ~Writes("distance", b, t, d)
         /\ ~Writes("lanes", b, t, d)
              => "LANE" \notin d /\ {"LIST", "COUNT"} \cap d = {}
BY DEF Writes, Noticed, Causes

LEMMA IconUpdate ==
  ASSUME NEW b, NEW c, NEW s, NEW t, NEW d, NEW fr,
         Shaped(s), Shaped(t), Kept(s, t, d), IconFits(c, s, fr), ~ClearRoute(t)
  PROVE  LET u == Updated(b, c, t, d)
         IN  IconFits(u.cluster, t, fr \cup u.parts)
<1> DEFINE u == Updated(b, c, t, d)
           w == Writes("descriptor", b, t, d)
<1>1. u.cluster.descriptor =
        IF w THEN NewDescriptor(c.descriptor, t, Noticed(Approach(b, t), d))
        ELSE c.descriptor
  BY DEF Updated, UpdatedIn, Written, Writes
<1>2. "descriptor" \in u.parts <=> w
  BY PartsWritten DEF Causes
<1> HIDE DEF u, w
<1>3. ASSUME w
      PROVE  IconFits(u.cluster, t, fr \cup u.parts)
  BY <1>1, <1>3 DEF IconFits, NewDescriptor
<1>4. ASSUME ~w
      PROVE  IconFits(u.cluster, t, fr \cup u.parts)
  <2>1. "ICON" \notin d /\ "LIST" \notin d
    BY <1>4, Unnoticed DEF w
  <2>2. Selected(t) = Selected(s) /\ Symbol(Chosen(t)) = Symbol(Chosen(s))
    BY <2>1, SameSelection
  <2> QED BY <1>1, <1>2, <1>4, <2>2 DEF IconFits
<1> QED BY <1>3, <1>4 DEF u

LEMMA DistanceUpdate ==
  ASSUME NEW b, NEW c, NEW s, NEW t, NEW d, NEW fr, Shaped(s), Shaped(t),
         Kept(s, t, d), DistanceFits(c, s, fr), ~ClearRoute(t)
  PROVE  LET u == Updated(b, c, t, d)
         IN  DistanceFits(u.cluster, t, fr \cup u.parts)
<1> DEFINE u == Updated(b, c, t, d)
           w == Writes("distance", b, t, d)
<1>1. u.cluster.distance = IF w THEN NewDistance(b, t) ELSE c.distance
  BY DEF Updated, UpdatedIn, Written, Writes
<1>2. "distance" \in u.parts <=> w
  BY PartsWritten DEF Causes
<1> HIDE DEF u, w
<1>3. ASSUME w
      PROVE  DistanceFits(u.cluster, t, fr \cup u.parts)
  BY <1>1, <1>3 DEF DistanceFits, NewDistance
<1>4. ASSUME ~w
      PROVE  DistanceFits(u.cluster, t, fr \cup u.parts)
  <2>1. "DIST" \notin d /\ "ICON" \notin d /\ "LIST" \notin d
    BY <1>4, Unnoticed DEF w
  <2>2. Resolved(t) = Resolved(s)
    BY <2>1, SameDistance
  <2> QED BY <1>1, <1>2, <1>4, <2>2 DEF DistanceFits
<1> QED BY <1>3, <1>4 DEF u

LEMMA TextUpdate ==
  ASSUME NEW b, NEW c, NEW s, NEW t, NEW d, NEW fr, Shaped(s), Shaped(t),
         Kept(s, t, d), TextFits(b, c, s, fr), ~ClearRoute(t)
  PROVE  LET u == Updated(b, c, t, d)
         IN  TextFits(u.bridge, u.cluster, t, fr \cup u.parts)
<1> DEFINE u == Updated(b, c, t, d)
           w == Writes("text", b, t, d)
           zone == Approach(b, t)
<1>1. /\ u.bridge.shown = <<Selected(t), Chosen(t).ver>>
      /\ u.bridge.approach = zone.inside
      /\ zone.inside = IF zone.crosses THEN zone.near
                       ELSE /\ b.approach
                            /\ <<Selected(t), Chosen(t).ver>> = b.shown
  BY DEF Updated, UpdatedIn, Written, Approach
<1>2. PICK latched :
        u.cluster.text = IF w THEN NewText(latched, zone.inside, t) ELSE c.text
  BY DEF Updated, UpdatedIn, Written, Writes
<1>3. "text" \in u.parts <=> w
  BY PartsWritten DEF Causes
<1> HIDE DEF u, w, zone
<1>4. ASSUME w
      PROVE  TextFits(u.bridge, u.cluster, t, fr \cup u.parts)
  BY <1>1, <1>2, <1>4 DEF TextFits, NewText
<1>5. ASSUME ~w
      PROVE  TextFits(u.bridge, u.cluster, t, fr \cup u.parts)
  <2>1. /\ "ROAD" \notin d /\ "TEXT" \notin d /\ "LIST" \notin d
        /\ "ICON" \notin d /\ ~zone.crosses
    BY <1>5, Unnoticed DEF w, zone
  <2>2. /\ Selected(t) = Selected(s) /\ Symbol(Chosen(t)) = Symbol(Chosen(s))
        /\ Chosen(t).ver = Chosen(s).ver
    BY <2>1, SameSelection
  <2>3. TurnTo(Chosen(t)) = TurnTo(Chosen(s))
    BY ZenonT(40), <2>1, <2>2 DEF Chosen, TurnTo, Kept, KeptMan
  <2>4. t.currentRoad = s.currentRoad
    BY <2>1 DEF Kept, KeptFields
  <2>5. SUFFICES ASSUME "text" \in fr
                 PROVE  TextFits(u.bridge, u.cluster, t, fr \cup u.parts)
    BY <1>3, <1>5 DEF TextFits
  <2>6. u.bridge.approach = (b.approach /\ TRUE)
    BY <1>1, <2>1, <2>2, <2>5 DEF TextFits
  <2> QED BY <1>1, <1>2, <1>5, <2>2, <2>3, <2>4, <2>5, <2>6 DEF TextFits
<1> QED BY <1>4, <1>5 DEF u

LEMMA ActionUpdate ==
  ASSUME NEW b, NEW c, NEW s, NEW t, NEW d, NEW fr, Shaped(s), Shaped(t),
         Kept(s, t, d), DistanceFits(c, s, fr), ActionFits(c, s, fr),
         ~ClearRoute(t)
  PROVE  LET u == Updated(b, c, t, d)
         IN  ActionFits(u.cluster, t, fr \cup u.parts)
<1> DEFINE u == Updated(b, c, t, d)
           w == Writes("maneuverState", b, t, d)
           v == Writes("distance", b, t, d)
           near == Approach(b, t).near
<1>1. u.cluster.maneuverState =
        IF w THEN NewManeuverState(c.maneuverState, near, t)
        ELSE c.maneuverState
  BY DEF Updated, UpdatedIn, Written, Writes
<1>2. u.cluster.distance = IF v THEN NewDistance(b, t) ELSE c.distance
  BY DEF Updated, UpdatedIn, Written, Writes
<1>3. /\ "maneuverState" \in u.parts <=> w
      /\ "distance" \in u.parts <=> v
  BY PartsWritten DEF Causes
<1>4. DistanceFits(u.cluster, t, fr \cup u.parts)
  BY DistanceUpdate
<1> HIDE DEF u, w, v, near
<1>5. ASSUME w
      PROVE  ActionFits(u.cluster, t, fr \cup u.parts)
  <2>1. SUFFICES ASSUME "distance" \in fr \cup u.parts, Selected(t) # None,
                        u.cluster.maneuverState = 4
                 PROVE  u.cluster.distance \in 1..ActAt(Chosen(t))
    BY DEF ActionFits
  <2>2. Resolved(t) \in 1..ActAt(Chosen(t))
    BY <1>1, <1>5, <2>1 DEF NewManeuverState
  <2>3. Resolved(t) > 0
    BY <2>2
  <2> QED BY <1>4, <2>1, <2>2, <2>3 DEF DistanceFits
<1>6. ASSUME ~w
      PROVE  ActionFits(u.cluster, t, fr \cup u.parts)
  <2>1. /\ "DIST" \notin d /\ "ICON" \notin d /\ "LIST" \notin d
        /\ ~v
    BY <1>6, Unnoticed DEF w, v
  <2>2. ActAt(Chosen(t)) = ActAt(Chosen(s)) /\ Selected(t) = Selected(s)
    BY <2>1, SameDistance, SameSelection
  <2> QED BY <1>1, <1>2, <1>3, <1>6, <2>1, <2>2 DEF ActionFits
<1> QED BY <1>5, <1>6 DEF u

-----------------------------------------------------------------------------
(* Lanes.                                                                  *)

LEMMA FirstSlot ==
  ASSUME NEW S \in SUBSET Slots, S # {}
  PROVE  FirstOf(S) \in S
<1> DEFINE R == OpToRel(<, Nat)
<1>1. S \subseteq Nat
  BY HudAssumption DEF Slots
<1>2. IsWellFoundedOn(R, Nat)
  BY NatLessThanWellFounded, Zenon
<1>3. \A x, y \in Nat : <<y, x>> \notin R => x <= y
  BY DEF OpToRel
<1> HIDE DEF R
<1>4. IsWellFoundedOn(R, S)
  BY <1>1, <1>2, IsWellFoundedOnSubset
<1>5. \E x \in S : \A y \in S : <<y, x>> \notin R
  BY <1>4, WFMin
<1>6. \E x \in S : \A y \in S : x <= y
  BY <1>1, <1>3, <1>5
<1> QED BY <1>6 DEF FirstOf

LEMMA LanesUpdate ==
  ASSUME NEW b, NEW c, NEW s, NEW t, NEW d, NEW fr, Shaped(s), Shaped(t),
         Kept(s, t, d), LanesFit(c, s, fr)
  PROVE  LET u == Updated(b, c, t, d)
         IN  LanesFit(u.cluster, t,
                      IF ClearRoute(t) THEN {} ELSE fr \cup u.parts)
<1> DEFINE u == Updated(b, c, t, d)
           w == Writes("lanes", b, t, d)
           holders == {i \in Slots : HeldAt(t, i)}
<1>1. u.cluster.lanes = IF w THEN NewLanes(t) ELSE c.lanes
  BY DEF Updated, UpdatedIn, Written, Writes
<1>2. "lanes" \in u.parts <=> w
  BY PartsWritten DEF Causes
<1> HIDE DEF u, w
<1>3. ASSUME w
      PROVE  LanesFit(u.cluster, t,
                      IF ClearRoute(t) THEN {} ELSE fr \cup u.parts)
  <2>1. ClearRoute(t) \/ t.laneGuidanceShowing # 1 => u.cluster.lanes = <<>>
    BY <1>1, <1>3 DEF NewLanes
  <2>2. ASSUME ~ClearRoute(t), t.laneGuidanceShowing = 1,
               ~(t.laneGuidanceIndex < 0), holders # {}
        PROVE  \E i \in holders : u.cluster.lanes = LanePanel(t.lg[i].lanes)
    <3>1. u.cluster.lanes = LanePanel(LanesToShow(t))
      BY <1>1, <1>3, <2>2 DEF NewLanes
    <3>2. CASE HeldAt(t, t.laneGuidanceSlot)
      <4>1. t.laneGuidanceSlot \in holders
        BY <3>2 DEF HeldAt, HasLanes
      <4> QED BY <2>2, <3>1, <3>2, <4>1 DEF LanesToShow
    <3>3. CASE ~HeldAt(t, t.laneGuidanceSlot)
      BY <2>2, <3>1, <3>3, FirstSlot DEF LanesToShow
    <3> QED BY <3>2, <3>3
  <2> QED BY <2>1, <2>2 DEF LanesFit
<1>4. ASSUME ~w
      PROVE  LanesFit(u.cluster, t,
                      IF ClearRoute(t) THEN {} ELSE fr \cup u.parts)
  <2>1. "LANE" \notin d /\ {"LIST", "COUNT"} \cap d = {}
    BY <1>4, Unnoticed DEF w
  <2>2. /\ t.laneGuidanceShowing = s.laneGuidanceShowing
        /\ t.laneGuidanceIndex = s.laneGuidanceIndex
        /\ \A i \in Slots : t.lg[i] = s.lg[i]
    BY <2>1 DEF Kept, KeptLanes
  <2>3. holders = {i \in Slots : HeldAt(s, i)}
    BY <2>2 DEF HeldAt, HasLanes
  <2>4. ClearRoute(t) => ClearRoute(s)
    BY <2>1 DEF Kept, KeptRoute
  <2> QED BY <1>1, <1>2, <1>4, <2>2, <2>3, <2>4 DEF LanesFit
<1> QED BY <1>3, <1>4 DEF u

-----------------------------------------------------------------------------
(* The display.                                                            *)

LEMMA UpdateFits ==
  ASSUME NEW b, NEW c, NEW s, NEW t, NEW d, NEW fr, Shaped(s), Shaped(t),
         Kept(s, t, d), Fits(b, c, s, fr)
  PROVE  LET u == Updated(b, c, t, d)
         IN  Fits(u.bridge, u.cluster, t,
                  IF ClearRoute(t) THEN {} ELSE fr \cup u.parts)
<1> DEFINE u == Updated(b, c, t, d)
           now == IF ClearRoute(t) THEN {} ELSE fr \cup u.parts
<1>1. LanesFit(u.cluster, t, now)
  BY LanesUpdate DEF Fits
<1>2. ASSUME ClearRoute(t)
      PROVE  Fits(u.bridge, u.cluster, t, now)
  <2>1. now = {}
    BY <1>2
  <2> HIDE DEF u, now
  <2> QED BY <1>1, <2>1 DEF Fits, IconFits, DistanceFits, TextFits, ActionFits
<1>3. ASSUME ~ClearRoute(t)
      PROVE  Fits(u.bridge, u.cluster, t, now)
  <2>1. now = fr \cup u.parts
    BY <1>3
  <2>2. IconFits(u.cluster, t, fr \cup u.parts)
    BY <1>3, IconUpdate DEF Fits
  <2>3. DistanceFits(u.cluster, t, fr \cup u.parts)
    BY <1>3, DistanceUpdate DEF Fits
  <2>4. TextFits(u.bridge, u.cluster, t, fr \cup u.parts)
    BY <1>3, TextUpdate DEF Fits
  <2>5. ActionFits(u.cluster, t, fr \cup u.parts)
    BY <1>3, ActionUpdate DEF Fits
  <2> HIDE DEF u, now
  <2> QED BY <1>1, <2>1, <2>2, <2>3, <2>4, <2>5 DEF Fits
<1> QED BY <1>2, <1>3

(* A frame that brings nothing new leaves all of it right.                 *)
LEMMA PassFits ==
  ASSUME NEW b, NEW c, NEW s, NEW t, NEW fr, Shaped(s), Shaped(t),
         Kept(s, t, {}), Fits(b, c, s, fr)
  PROVE  Fits(b, c, t, fr)
<1>1. /\ Selected(t) = Selected(s) /\ Symbol(Chosen(t)) = Symbol(Chosen(s))
      /\ Chosen(t).ver = Chosen(s).ver
  BY SameSelection
<1>2. Resolved(t) = Resolved(s) /\ ActAt(Chosen(t)) = ActAt(Chosen(s))
  BY SameDistance
<1>3. IconFits(c, t, fr) /\ DistanceFits(c, t, fr) /\ ActionFits(c, t, fr)
  BY <1>1, <1>2 DEF Fits, IconFits, DistanceFits, ActionFits
<1>4. TextFits(b, c, t, fr)
  <2>1. TurnTo(Chosen(t)) = TurnTo(Chosen(s))
    BY ZenonT(40), <1>1 DEF Chosen, TurnTo, Kept, KeptMan
  <2>2. t.currentRoad = s.currentRoad
    BY DEF Kept, KeptFields
  <2> QED BY <1>1, <2>1, <2>2 DEF Fits, TextFits
<1>5. LanesFit(c, t, fr)
  <2>1. /\ t.laneGuidanceShowing = s.laneGuidanceShowing
        /\ t.laneGuidanceIndex = s.laneGuidanceIndex
        /\ \A i \in Slots : t.lg[i] = s.lg[i]
    BY DEF Kept, KeptLanes
  <2>2. {i \in Slots : HeldAt(t, i)} = {i \in Slots : HeldAt(s, i)}
    BY <2>1 DEF HeldAt, HasLanes
  <2>3. ClearRoute(t) => ClearRoute(s)
    BY DEF Kept, KeptRoute
  <2> QED BY <2>1, <2>2, <2>3 DEF Fits, LanesFit
<1> QED BY <1>3, <1>4, <1>5 DEF Fits

LEMMA NothingFits ==
  ASSUME NEW b, NEW c, NEW s, c.lanes = <<>>
  PROVE  Fits(b, c, s, {})
BY DEF Fits, IconFits, DistanceFits, TextFits, ActionFits, LanesFit

(* What is on the cluster since there is a route is what State asks for.   *)
Inv ==
  /\ TypeOK
  /\ story \in Stories
  /\ Fits(bridge, cluster, state, fresh)

LEMMA InvInit == Init => Inv
<1> SUFFICES ASSUME Init PROVE Inv
  OBVIOUS
<1>1. TypeOK
  BY DEF Init, TypeOK, NoState
<1>2. Fits(bridge, cluster, state, fresh)
  BY NothingFits DEF Init, Cleared
<1> QED BY <1>1, <1>2 DEF Init, Inv

LEMMA InvFrame ==
  ASSUME Inv, NEW f \in story.frames, Frame(f)
  PROVE  Inv'
<1> DEFINE p == Parsed(f)
<1>1. IsFrame(f) /\ Shaped(state)
  BY HudAssumption DEF Inv, TypeOK, Shaped
<1>2. Shaped(p.state) /\ Kept(state, p.state, p.dirty)
  BY <1>1, ParsedStep
<1>3. state' = p.state /\ story' = story /\ story \in Stories
  BY DEF Frame, Taken, Inv
<1>4. /\ Fits(bridge, cluster, state, fresh)
      /\ fresh \subseteq DOMAIN Causes
      /\ ~rgActive => cluster = Cleared /\ bridge = NoBridge /\ fresh = {}
      /\ ClearRoute(state) => fresh = {}
  BY DEF Inv, TypeOK
<1>5. Refused(p) \/ Begins(p) \/ Ends(p) \/ Presents(p) \/ Passes(p)
  BY DEF Frame, Taken
<1> HIDE DEF p
<1>6. SUFFICES /\ fresh' \subseteq DOMAIN Causes
               /\ ~rgActive' => /\ cluster' = Cleared /\ bridge' = NoBridge
                                /\ fresh' = {}
               /\ ClearRoute(p.state) => fresh' = {}
               /\ Fits(bridge', cluster', p.state, fresh')
  BY ZenonT(40), <1>2, <1>3 DEF Inv, TypeOK, Shaped, Fits, IconFits, DistanceFits,
     TextFits, ActionFits, LanesFit, ClearRoute, Selected, Chosen, Resolved,
     HeldAt, HasLanes, Order, TypesOf
<1>7. CASE Refused(p) \/ (Passes(p) /\ ~rgActive)
  <2>1. ~rgActive /\ UNCHANGED <<rgActive, bridge, cluster, fresh>>
    BY <1>7 DEF Refused, Passes
  <2>2. cluster = Cleared /\ bridge = NoBridge /\ fresh = {}
    BY <1>4, <2>1
  <2>3. Fits(bridge, cluster, p.state, {})
    BY <2>2, NothingFits DEF Cleared
  <2> QED BY <2>1, <2>2, <2>3
<1>8. CASE Passes(p) /\ rgActive
  <2>1. UNCHANGED <<rgActive, bridge, cluster, fresh>> /\ p.dirty = {}
    BY <1>8 DEF Passes
  <2>2. Fits(bridge, cluster, p.state, fresh)
    BY <1>1, <1>2, <1>4, <2>1, PassFits
  <2>3. ClearRoute(p.state) => ClearRoute(state)
    BY <1>2, <2>1 DEF Kept, KeptRoute
  <2> QED BY <1>4, <1>8, <2>1, <2>2, <2>3
<1>9. CASE Begins(p)
  <2> DEFINE u == Updated(NoBridge, StartedOn(cluster), p.state, p.dirty)
  <2>1. /\ bridge' = u.bridge /\ cluster' = u.cluster /\ rgActive'
        /\ fresh' = IF ClearRoute(p.state) THEN {} ELSE {} \cup u.parts
    BY <1>9 DEF Begins, Displays
  <2>2. StartedOn(cluster).lanes = <<>>
    BY <1>4, <1>9 DEF Begins, StartedOn, Cleared
  <2>3. Fits(u.bridge, u.cluster, p.state,
             IF ClearRoute(p.state) THEN {} ELSE {} \cup u.parts)
    BY <1>1, <1>2, <2>2, NothingFits, UpdateFits
  <2>4. u.parts \subseteq DOMAIN Causes
    BY DEF Updated, UpdatedIn, Written
  <2> HIDE DEF u
  <2> QED BY <2>1, <2>3, <2>4
<1>10. CASE Ends(p)
  <2>1. /\ ~rgActive' /\ cluster' = Cleared /\ bridge' = NoBridge
        /\ fresh' = {}
    BY <1>10 DEF Ends, ShutsDown
  <2> QED BY <2>1, NothingFits DEF Cleared
<1>11. CASE Presents(p)
  <2> DEFINE u == Updated(bridge, cluster, p.state, p.dirty)
  <2>1. /\ bridge' = u.bridge /\ cluster' = u.cluster /\ rgActive' = rgActive
        /\ fresh' = IF ClearRoute(p.state) THEN {} ELSE fresh \cup u.parts
        /\ rgActive
    BY <1>11 DEF Presents, Displays
  <2>2. Fits(u.bridge, u.cluster, p.state,
             IF ClearRoute(p.state) THEN {} ELSE fresh \cup u.parts)
    BY <1>1, <1>2, <1>4, UpdateFits
  <2>3. u.parts \subseteq DOMAIN Causes
    BY DEF Updated, UpdatedIn, Written
  <2> HIDE DEF u
  <2> QED BY <1>4, <2>1, <2>2, <2>3
<1> QED BY <1>5, <1>7, <1>8, <1>9, <1>10, <1>11

LEMMA InvNext == Inv /\ [Next]_vars => Inv'
<1> SUFFICES ASSUME Inv, [Next]_vars PROVE Inv'
  OBVIOUS
<1> USE DEF Inv, TypeOK, Fits, IconFits, DistanceFits, TextFits, ActionFits,
            LanesFit, ClearRoute, Selected, Chosen, Resolved, HeldAt, HasLanes,
            Order, TypesOf
<1>1. CASE UNCHANGED vars
  BY ZenonT(40), <1>1 DEF vars
<1>2. ASSUME NEW f \in story.frames, Frame(f) PROVE Inv'
  <2> HIDE DEF Inv
  <2> QED BY <1>2, InvFrame
<1>3. CASE Stops
  <2>1. /\ rgActive' = FALSE /\ cluster' = Cleared /\ bridge' = NoBridge
        /\ fresh' = {} /\ state' = state /\ story' = story
    BY <1>3 DEF Stops, ShutsDown
  <2>2. Fits(bridge', cluster', state', fresh')
    <3> HIDE DEF Fits
    <3> QED BY <2>1, NothingFits DEF Cleared
  <2> QED BY <2>1, <2>2
<1>4. CASE Starts
  BY ZenonT(40), <1>4 DEF Starts
<1> QED BY <1>1, <1>2, <1>3, <1>4 DEF Next

(* The invariant holds in all behaviors.                                   *)
LEMMA InvHolds == Spec => []Inv
BY InvInit, InvNext, PTL DEF Spec

(* State keeps its keys, and a route that is not on the cluster has left   *)
(* nothing there, whatever the hook sends and however often guidance is    *)
(* stopped and started (RouteGuidance.onFrame, BAPBridge.onShutdown).      *)
THEOREM TypeCorrect == Spec => []TypeOK
<1>1. Inv => TypeOK
  BY DEF Inv
<1> QED BY <1>1, InvHolds, PTL

(* Symbol, distance, text and "turn now" are of one and the same maneuver, *)
(* the one the last list selects: no flag that update needs is missed by   *)
(* parse, in any sequence of frames (BAPBridge.update).                    *)
THEOREM DisplayFollows == Spec => []DisplayIsSelected
<1>1. Inv => DisplayIsSelected
  BY DEF Inv, Fits, IconFits, DistanceFits, TextFits, ActionFits,
     DisplayIsSelected, IconOfSelected, DistanceOfSelected, TurnTextIsCurrent,
     ActionMeansClose
<1> QED BY <1>1, InvHolds, PTL

(* The lanes shown are those of the event the phone names, though slots    *)
(* are given to other events (resolveLaneGuidanceManeuverIndex).           *)
THEOREM LanesFollow == Spec => []LanesOfActiveEvent
<1>1. Inv => LanesOfActiveEvent
  BY DEF Inv, Fits, LanesFit, LanesOfActiveEvent
<1> QED BY <1>1, InvHolds, PTL
(* Where the type does not say left or right the angle does, for every     *)
(* type and angle: the ramps and turns without a side, the turns back, and *)
(* the exits by their symbol too (ManeuverMapper.map, rampGoesLeft).       *)
THEOREM AnglesTurn == Spec => []TurnsWithTheAngle
<1>1. TurnsWithTheAngle
  <2> SUFFICES ASSUME NEW m \in Held,
                      m.type \in FreeTypes \cup UTurnTypes
                                   \cup {"OFF_RAMP", "ON_RAMP"},
                      Map(m) # NoInfo, HasAngle(m.angle)
               PROVE  /\ Map(m).dir \in 1..127 <=> m.angle < 0
                      /\ m.type = "OFF_RAMP"
                           => Map(m).main = IF m.angle < 0 THEN "EXIT_LEFT"
                                            ELSE "EXIT_RIGHT"
    BY DEF TurnsWithTheAngle
  <2> DEFINE left == m.angle < 0
  <2> USE DEF SlightLeft, Left, SharpLeft, SlightRight, Right, SharpRight
  <2>1. m.type # NotSet
    BY DEF Held
  <2>2. CASE m.type \in FreeTypes
    <3>1. Map(m) = Icon("TURN", DirectionFromTurnAngle(m.angle))
      BY <2>1, <2>2 DEF Map, GlobalIcon, GlobalTypes, FreeTypes, FollowTypes,
                        ArriveTypes, StartRoute
    <3>2. m.type # "OFF_RAMP"
      BY <2>2 DEF FreeTypes, StartRoute
    <3> QED BY <3>1, <3>2 DEF DirectionFromTurnAngle, Icon
  <2>3. ASSUME m.type \in UTurnTypes \cup {"OFF_RAMP", "ON_RAMP"}
        PROVE  Map(m) = IntersectionIcon(m) /\ m.type \notin DOMAIN Plain
    <3>1. m.type \notin GlobalTypes
      BY <2>3 DEF GlobalTypes, FreeTypes, FollowTypes, ArriveTypes, StartRoute,
                  UTurnTypes
    <3>2. m.type \notin DOMAIN Plain
      BY <2>3 DEF Plain, UTurnTypes
    <3>3. RoundaboutIcon(m) = NoInfo
      BY <2>3 DEF RoundaboutIcon, UTurnTypes
    <3> QED BY <2>1, <3>1, <3>2, <3>3 DEF Map
  <2>4. CASE m.type \in UTurnTypes
    <3>1. Map(m) = Icon("UTURN", IF left THEN Left ELSE Right)
      BY <2>3, <2>4 DEF IntersectionIcon, UTurnTypes, ExitRamps, LeftRamps,
                        RightRamps
    <3>2. m.type # "OFF_RAMP"
      BY <2>4 DEF UTurnTypes
    <3> QED BY <3>1, <3>2 DEF Icon
  <2>5. CASE m.type = "OFF_RAMP"
    <3>1. /\ RampGoesLeft(m) <=> left
          /\ m.type \notin LeftRamps \cup RightRamps \cup UTurnTypes
          /\ m.type \in ExitRamps
      BY <2>5 DEF RampGoesLeft, LeftRamps, RightRamps, UTurnTypes, ExitRamps
    <3>2. CASE left
      <4>1. Map(m).main = "EXIT_LEFT"
            /\ Map(m).dir \in {SlightLeft, SharpLeft, Left}
        BY <2>3, <2>5, <3>1, <3>2
           DEF IntersectionIcon, RampDirection, EndOfRoad, Icon
      <4> QED BY <3>2, <4>1
    <3>3. CASE ~left
      <4>1. Map(m).main = "EXIT_RIGHT"
            /\ Map(m).dir \in {SlightRight, SharpRight, Right}
        BY <2>3, <2>5, <3>1, <3>3
           DEF IntersectionIcon, RampDirection, EndOfRoad, Icon
      <4> QED BY <3>3, <4>1
    <3> QED BY <3>2, <3>3
  <2>6. CASE m.type = "ON_RAMP"
    <3>1. Map(m) = Icon("TURN", IF left THEN SlightLeft ELSE SlightRight)
      BY <2>3, <2>6 DEF IntersectionIcon, UTurnTypes, ExitRamps, LeftRamps,
                        RightRamps, RampGoesLeft
    <3> QED BY <2>6, <3>1 DEF Icon
  <2> QED BY <2>2, <2>4, <2>5, <2>6
<1> QED BY <1>1, PTL
=============================================================================
