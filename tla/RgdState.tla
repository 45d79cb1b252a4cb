------------------------------ MODULE RgdState ------------------------------
(***************************************************************************)
(* The route guidance state kept for the Java runtime:                     *)
(* altscreen/native/routeguidance/rgd_hook.c, and the reading end in       *)
(* RouteGuidance.parse.                                                    *)
(*                                                                         *)
(* The phone sends updates (0x5201), maneuvers (0x5202) and lanes          *)
(* (0x5204), one at a time.  Maneuvers and lanes are kept in two LRU       *)
(* caches of fixed slots; every change publishes one snapshot frame.  A    *)
(* route_state of 0 is held back: evidence of an active route cancels it,  *)
(* the timer's tick sends it as a bare end frame when the grace is over.   *)
(*                                                                         *)
(* The tick claims under the debounce lock and sends after it.  A handler  *)
(* has one critical section too, and what it does afterwards commutes with *)
(* the tick, so a handler is one step.  The bus keeps the order and gives  *)
(* a new reader the last frame (RgiBus), so a frame is read when it is     *)
(* sent.  All the fields of an update that are evidence of an active route *)
(* stand in "count", the fields of a maneuver in its type and linked lane; *)
(* slot_ver and highest_list_index are left out.                           *)
(***************************************************************************)
EXTENDS Integers, Sequences, FiniteSets

CONSTANTS
  SlotCount,    \* MANEUVER_CACHE_SIZE (32)
  Indices,      \* indices the phone numbers maneuvers and lanes with
  Updates,      \* the 0x5201 messages of the phone
  Maneuvers,    \* the 0x5202 messages
  Lanes         \* the 0x5204 messages

Slots == 1..SlotCount
None  == -1                        \* a field that is not present; 0xFFFF
NoList == <<None>>                 \* no ManeuverList in the update
Rerouting == 5                     \* RGD_STATE_REROUTING
States == {0, 1, Rerouting}
Lists  == Seq(Indices) \cup {NoList}
Man    == [type : Nat \cup {None}, link : Indices \cup {None}]
NoMan  == [type |-> None, link |-> None]

ASSUME RgdAssumption ==
  /\ SlotCount \in Nat \ {0}
  /\ Indices \subseteq Nat
  /\ Updates \subseteq [state : States \cup {None}, count : Nat \cup {None},
                        list : Lists, lane : Indices \cup {None},
                        source : {None, 0, 1}]
  /\ Maneuvers \subseteq [index : Indices, man : Man \ {NoMan}]
  /\ Lanes \subseteq [index : Indices \cup {None}, info : BOOLEAN]

VARIABLES
  running,    \* the hook, until rgd_shutdown
  haveUpdate, \* have_update
  last,       \* last_route_state: what the phone said
  emitted,    \* emitted_route_state: what Java was told
  zero,       \* the held route end: none, running, due, or reroute
  claimed,    \* the tick has claimed an end and not sent it yet
  maps,       \* the maneuver list and the two slot caches
  cache,      \* update_cache: the merged update
  sticky,     \* the last frame on the bus
  java        \* RouteGuidance.State

vars == <<running, haveUpdate, last, emitted, zero, claimed, maps, cache,
          sticky, java>>

-----------------------------------------------------------------------------
(* The slot caches.  A cache maps slots to indices and ranks the slots     *)
(* that hold one by their last use, from 1; the rank of the others is 0.   *)

FreshCache == [held |-> [s \in Slots |-> None], rank |-> [s \in Slots |-> 0]]

FreshMaps ==
  [listed |-> FALSE, list |-> <<>>, mans |-> [s \in Slots |-> NoMan],
   slots |-> FreshCache, lanes |-> FreshCache]

(* The ranks after the slots of the sequence were used, one after another. *)
Used(rank, seq) ==
  LET uses(s) == {k \in DOMAIN seq : seq[k] = s}
      new(s)  == IF uses(s) = {} THEN rank[s]
                 ELSE SlotCount + (CHOOSE k \in uses(s) :
                                     \A n \in uses(s) : n <= k)
  IN  [s \in Slots |-> Cardinality({t \in Slots : 0 < new(t) /\ new(t) <= new(s)})]

Holding(c, i) == {s \in Slots : c.held[s] = i}
Lowest(S) == CHOOSE s \in S : \A t \in S : s <= t
Oldest(c, S) == CHOOSE s \in S : \A t \in S : c.rank[s] <= c.rank[t]

(* Mutant: plain LRU, whatever is in use.                                  *)
SlotForOldest(c, i, inUse) ==
  IF Holding(c, i) # {} THEN Lowest(Holding(c, i))
  ELSE IF Holding(c, None) # {} THEN Lowest(Holding(c, None))
  ELSE Oldest(c, Slots)

(* The slot an index gets: its own, a free one, or that of the least       *)
(* recently used index that is not in use.                                 *)
SlotFor(c, i, inUse) ==
  LET idle == {s \in Slots : c.held[s] \notin inUse}
  IN  IF Holding(c, i) # {} THEN Lowest(Holding(c, i))
      ELSE IF Holding(c, None) # {} THEN Lowest(Holding(c, None))
      ELSE Oldest(c, IF idle # {} THEN idle ELSE Slots)

Put(c, i, inUse) ==
  LET s == SlotFor(c, i, inUse)
  IN  [held |-> [c.held EXCEPT ![s] = i], rank |-> Used(c.rank, <<s>>)]

(* rgd_*_slot_for_iap_index without create: the lookup counts as a use.    *)
LookedUp(c, i) ==
  IF Holding(c, i) = {} THEN c
  ELSE [c EXCEPT !.rank = Used(@, <<Lowest(Holding(c, i))>>)]

Listed(m) == IF m.listed THEN {m.list[k] : k \in DOMAIN m.list} ELSE {}

LanesInUse(m, lane) ==
  {lane} \cup Listed(m)
    \cup {m.mans[s].link : s \in {t \in Slots : m.slots.held[t] \in Listed(m)}}

(* rgd_can_process_maneuver_index                                          *)
Accepted(i) ==
  /\ haveUpdate
  /\ \/ Listed(maps) = {}
     \/ last = Rerouting
     \/ \E j \in Listed(maps) : j <= i

(* Mutant: the lanes that are shown are pruned like the others.            *)
StaleThoughShown(m, lane, said, i) ==
  /\ Listed(m) # {} /\ said # Rerouting
  /\ i # None
  /\ \A j \in Listed(m) : i < j

(* rgd_prune_stale_lane_cache; "said" is the route state of the phone.     *)
Stale(m, lane, said, i) ==
  /\ Listed(m) # {} /\ said # Rerouting
  /\ i \notin {None, lane}
  /\ \A j \in Listed(m) : i < j

Pruned(m, lane, said) ==
  LET c == m.lanes
      gone == {s \in Slots : Stale(m, lane, said, c.held[s])}
  IN  IF gone = {} THEN m
      ELSE [m EXCEPT !.lanes =
              [held |-> [s \in Slots |-> IF s \in gone THEN None ELSE c.held[s]],
               rank |-> Used([s \in Slots |-> IF s \in gone THEN 0
                                              ELSE c.rank[s]], <<>>)]]

-----------------------------------------------------------------------------
(* Frames, and what RouteGuidance.parse makes of them.                     *)

NoCache == [state |-> None, count |-> None, list |-> None, lane |-> None,
            source |-> None]

(* Of a merged list only its presence is ever looked at.                   *)
Merged(c, u) ==
  LET new == [u EXCEPT !.list = IF @ = NoList THEN None ELSE 0]
  IN  [f \in DOMAIN c |-> IF new[f] # None THEN new[f] ELSE c[f]]

(* A frame that names no list, no slot and no lane.                        *)
BareFrame(kind) ==
  [kind |-> kind, keys |-> [NoCache EXCEPT !.state = 0, !.count = 0],
   laneSlot |-> None, listed |-> FALSE, order |-> <<>>,
   types |-> [s \in Slots |-> None], lanes |-> [s \in Slots |-> None]]

(* The n-th position of a set of them.                                     *)
Nth(K, n) == CHOOSE k \in K : Cardinality({j \in K : j <= k}) = n

(* Mutant: maneuvers without a type are listed too.                        *)
OrderUntyped(m) ==
  LET slot(k) == Lowest(Holding(m.slots, m.list[k]))
      known   == {k \in DOMAIN m.list : Holding(m.slots, m.list[k]) # {}}
  IN  [n \in 1..Cardinality(known) |-> slot(Nth(known, n))]

(* The slots of the listed maneuvers whose type is known.                  *)
Order(m) ==
  LET slot(k) == Lowest(Holding(m.slots, m.list[k]))
      known   == {k \in DOMAIN m.list : /\ Holding(m.slots, m.list[k]) # {}
                                        /\ m.mans[slot(k)].type # None}
  IN  [n \in 1..Cardinality(known) |-> slot(Nth(known, n))]

(* Mutant: the slot is looked up among those of the maneuvers.             *)
LaneSlotOfManeuver(m, lane) ==
  IF lane = None \/ Holding(m.slots, lane) = {} THEN None
  ELSE Lowest(Holding(m.slots, lane))

LaneSlot(m, lane) ==
  IF lane = None \/ Holding(m.lanes, lane) = {} THEN None
  ELSE Lowest(Holding(m.lanes, lane))

(* write_bus_snapshot_from_cache: the frame, and the maps it leaves.       *)
(* "list" is the list of the update that is published, if it has one;      *)
(* "extra" the slot of a maneuver that has just been stored, if any.       *)
Snapshot(m, c, said, list, extra) ==
  LET looked == [Pruned(m, c.lane, said) EXCEPT !.lanes =
                   IF c.lane = None THEN @ ELSE LookedUp(@, c.lane)]
      named  == Pruned(IF list = NoList THEN looked
                       ELSE [looked EXCEPT !.listed = TRUE, !.list = list],
                       c.lane, said)
      order  == IF named.listed THEN Order(named) ELSE <<>>
      sent   == {order[k] : k \in DOMAIN order} \cup extra
      links  == order \o (IF extra \subseteq {order[k] : k \in DOMAIN order}
                          THEN <<>> ELSE <<CHOOSE s \in extra : TRUE>>)
      linked == SelectSeq([k \in DOMAIN links |-> named.mans[links[k]].link],
                          LAMBDA i : i # None /\ Holding(named.lanes, i) # {})
  IN  [maps |-> [named EXCEPT !.lanes.rank =
                   Used(@, [k \in DOMAIN linked |->
                              Lowest(Holding(named.lanes, linked[k]))])],
       frame |->
         [kind |-> "snapshot", keys |-> c,
          laneSlot |-> LaneSlot(looked, c.lane),
          listed |-> named.listed, order |-> order,
          types |-> [s \in Slots |-> IF s \in sent THEN named.mans[s].type
                                     ELSE None],
          lanes |-> named.lanes.held]]

(* Nothing to publish: no key, no slot, no lane.                           *)
Silent(m, c, extra) ==
  /\ c = NoCache /\ extra = {}
  /\ m.lanes.held = [s \in Slots |-> None]

NoJava ==
  [hasUpdate |-> FALSE, state |-> None, count |-> 0, source |-> None,
   ordered |-> FALSE, order |-> <<>>, types |-> [s \in Slots |-> None],
   lane |-> None, laneSlot |-> None, lanes |-> [s \in Slots |-> None]]

(* Mutant: Java takes a route_state of 0 for a passing one.                *)
EndedForNow(j) == [j EXCEPT !.count = 0, !.ordered = FALSE, !.order = <<>>,
                            !.lane = None, !.laneSlot = None]

Ended(j) == [j EXCEPT !.state = 0, !.count = 0, !.ordered = FALSE,
                      !.order = <<>>, !.lane = None, !.laneSlot = None]

(* RouteGuidance.parse, and the reset of onFrame at a disconnect.          *)
Parsed(j, f) ==
  LET has   == \/ j.hasUpdate \/ f.listed
               \/ \E k \in {"state", "count", "source"} : f.keys[k] # None
      src   == IF f.keys.source \in {None, j.source} THEN j
               ELSE IF f.keys.source = 0
               THEN [Ended(j) EXCEPT !.source = 0, !.types = NoJava.types,
                                     !.lanes = NoJava.lanes]
               ELSE [j EXCEPT !.source = f.keys.source]
      route == IF f.keys.state = 0 THEN Ended(src)
               ELSE IF f.keys.state # None
               THEN [src EXCEPT !.state = f.keys.state]
               ELSE src
      count == IF f.keys.count \in {None, route.count} THEN route
               ELSE IF f.keys.count = 0
               THEN [route EXCEPT !.count = 0, !.ordered = FALSE,
                                  !.order = <<>>]
               ELSE [route EXCEPT !.count = f.keys.count]
      list  == IF f.listed
               THEN [count EXCEPT !.ordered = TRUE, !.order = f.order]
               ELSE count
      lane  == IF f.keys.lane = None THEN list
               ELSE [list EXCEPT !.lane = f.keys.lane, !.laneSlot = f.laneSlot]
      full  == IF f.kind = "end" THEN lane
               ELSE [lane EXCEPT !.lanes = f.lanes]
  IN  IF f.kind = "clear" THEN NoJava
      ELSE [full EXCEPT
              !.hasUpdate = has,
              !.types = [s \in Slots |-> IF has /\ f.types[s] # None
                                         THEN f.types[s] ELSE @[s]]]

Sent(f) == sticky' = f /\ java' = Parsed(java, f)

Published(m, c, said, list, extra) ==
  /\ cache' = c
  /\ IF Silent(m, c, extra)
     THEN maps' = m /\ UNCHANGED <<sticky, java>>
     ELSE LET snap == Snapshot(m, c, said, list, extra)
          IN  maps' = snap.maps /\ Sent(snap.frame)

-----------------------------------------------------------------------------
(* The handlers of the phone's messages.                                   *)

(* rgd_lazy_init has cleared the state and published that.                 *)
Init ==
  /\ running = TRUE /\ haveUpdate = FALSE
  /\ last = 0 /\ emitted = 0 /\ zero = "none" /\ claimed = FALSE
  /\ maps = FreshMaps /\ cache = NoCache
  /\ sticky = BareFrame("clear") /\ java = NoJava

Evidence(u) == u.state > 0 \/ u.count > 0 \/ u.list \notin {NoList, <<>>}
HardClear(u) == u.source = 0

(* A route end while Java shows a route is held back ...                   *)
Holds(u) == u.state = 0 /\ ~HardClear(u) /\ emitted # 0
(* ... and then whatever is no evidence of a route, like an update without *)
(* a field at any time.                                                    *)
Suppressed(u) ==
  /\ u.state = None /\ ~Evidence(u) /\ ~HardClear(u)
  /\ zero # "none" \/ Merged(NoCache, u) = NoCache

(* Mutant: a reroute is told by the last state of the phone alone.         *)
HoldEndByLast(u) ==
  /\ running /\ Holds(u)
  /\ haveUpdate' = TRUE /\ last' = 0
  /\ zero' = IF zero # "none" THEN zero
             ELSE IF last = Rerouting THEN "reroute" ELSE "running"
  /\ maps' = IF last > 0 THEN FreshMaps ELSE maps
  /\ cache' = NoCache
  /\ UNCHANGED <<running, emitted, claimed, sticky, java>>

HoldEnd(u) ==
  /\ running /\ Holds(u)
  /\ haveUpdate' = TRUE /\ last' = 0
  /\ zero' = IF zero # "none" THEN zero
             ELSE IF Rerouting \in {last, emitted} THEN "reroute"
             ELSE "running"
  /\ maps' = IF last > 0 THEN FreshMaps ELSE maps
  /\ cache' = NoCache
  /\ UNCHANGED <<running, emitted, claimed, sticky, java>>

SuppressUpdate(u) ==
  /\ running /\ Suppressed(u)
  /\ haveUpdate' = TRUE
  /\ UNCHANGED <<running, last, emitted, zero, claimed, maps, cache, sticky,
                 java>>

(* Everything else is merged and published; see rgd_message_handler for    *)
(* what each case does to the debounce first.                              *)
RouteUpdate(u) ==
  /\ running /\ ~Holds(u) /\ ~Suppressed(u)
  /\ haveUpdate' = TRUE
  /\ LET said == IF u.state = None THEN last ELSE u.state
         cleared == u.state = 0 /\ HardClear(u)
         m == IF cleared THEN FreshMaps ELSE maps
         c == IF cleared THEN NoCache ELSE cache
         looked == IF u.lane = None THEN m
                   ELSE [m EXCEPT !.lanes = LookedUp(@, u.lane)]
     IN  /\ last' = said
         /\ zero' = IF cleared \/ (u.state # 0 /\ Evidence(u)) THEN "none"
                    ELSE zero
         /\ emitted' = IF cleared THEN 0
                       ELSE IF u.state > 0 THEN u.state ELSE emitted
         /\ Published(looked, Merged(c, u), said, u.list, {})
  /\ UNCHANGED <<running, claimed>>

(* 0x5202: any maneuver cancels the held end; one that is accepted is      *)
(* stored and published.  The linked lane is looked up as a maneuver.      *)
StoreManeuver(x) ==
  LET kept == Put(maps.slots, x.index, Listed(maps))
      slot == SlotFor(maps.slots, x.index, Listed(maps))
      used == IF x.man.link = None THEN kept ELSE LookedUp(kept, x.man.link)
  IN  Published([maps EXCEPT !.slots = used, !.mans[slot] = x.man],
                cache, last, NoList, {slot})

ManeuverUpdate(x) ==
  /\ running /\ zero' = "none"
  /\ UNCHANGED <<running, haveUpdate, last, emitted, claimed>>
  /\ IF Accepted(x.index) THEN StoreManeuver(x)
     ELSE UNCHANGED <<maps, cache, sticky, java>>

(* 0x5204: lanes without an index go to the first listed maneuver.         *)
LaneIndex(x) ==
  IF x.index = None /\ Listed(maps) # {} THEN maps.list[1] ELSE x.index

(* The lane slot is passed on as if it numbered a maneuver, whose data is  *)
(* published again if there is any.                                        *)
StoreLane(i) ==
  LET inUse == LanesInUse(maps, cache.lane)
      slot  == SlotFor(maps.lanes, i, inUse)
  IN  Published([maps EXCEPT !.lanes = Put(@, i, inUse)], cache, last, NoList,
                {s \in {slot} : maps.mans[s] # NoMan})

LaneUpdate(x) ==
  /\ running /\ zero' = "none"
  /\ UNCHANGED <<running, haveUpdate, last, emitted, claimed>>
  /\ LET i == LaneIndex(x)
     IN  IF x.info /\ i # None THEN StoreLane(i)
         ELSE IF x.index # None /\ x.index = cache.lane
         THEN Published([maps EXCEPT !.lanes = LookedUp(@, i)], cache,
                        last, NoList, {})
         ELSE UNCHANGED <<maps, cache, sticky, java>>

-----------------------------------------------------------------------------
(* The timer thread, the end of the process, and a new reader.             *)

GraceElapses ==
  /\ running /\ zero = "running"
  /\ zero' = "due"
  /\ UNCHANGED <<running, haveUpdate, last, emitted, claimed, maps, cache,
                 sticky, java>>

(* Mutant: the tick looks at the last state of the phone, which is 0.      *)
TickClaimsIfRouting ==
  /\ running /\ ~claimed
  /\ zero = "due" /\ last # 0
  /\ emitted' = 0 /\ zero' = "none" /\ claimed' = TRUE
  /\ UNCHANGED <<running, haveUpdate, last, maps, cache, sticky, java>>

TickClaims ==
  /\ running /\ ~claimed
  /\ zero = "due" /\ emitted # 0
  /\ emitted' = 0 /\ zero' = "none" /\ claimed' = TRUE
  /\ UNCHANGED <<running, haveUpdate, last, maps, cache, sticky, java>>

TickSends ==
  /\ claimed /\ claimed' = FALSE
  /\ Sent(BareFrame("end"))
  /\ UNCHANGED <<running, haveUpdate, last, emitted, zero, maps, cache>>

Shutdown ==
  /\ running
  /\ running' = FALSE /\ haveUpdate' = FALSE
  /\ last' = 0 /\ emitted' = 0 /\ zero' = "none"
  /\ maps' = FreshMaps /\ cache' = NoCache
  /\ Sent(BareFrame("clear"))
  /\ UNCHANGED claimed

(* A new Java side is given the last frame.                                *)
JavaRestarts ==
  /\ java' = Parsed(NoJava, sticky)
  /\ UNCHANGED <<running, haveUpdate, last, emitted, zero, claimed, maps,
                 cache, sticky>>

Phone ==
  \/ \E u \in Updates : HoldEnd(u) \/ SuppressUpdate(u) \/ RouteUpdate(u)
  \/ \E x \in Maneuvers : ManeuverUpdate(x)
  \/ \E x \in Lanes : LaneUpdate(x)

Next == Phone \/ GraceElapses \/ TickClaims \/ TickSends \/ Shutdown
          \/ JavaRestarts

Spec == Init /\ [][Next]_vars

(* The clock runs and the timer thread is scheduled.                       *)
FairSpec == Spec /\ WF_vars(GraceElapses) /\ WF_vars(TickClaims \/ TickSends)

-----------------------------------------------------------------------------
(* Properties.                                                             *)

Caches == [held : [Slots -> Indices \cup {None}], rank : [Slots -> Nat]]
Maps ==
  [listed : BOOLEAN, list : Seq(Indices), mans : [Slots -> Man],
   slots : Caches, lanes : Caches]

(* Every variable has its type.                                            *)
TypeOK ==
  /\ running \in BOOLEAN /\ haveUpdate \in BOOLEAN /\ claimed \in BOOLEAN
  /\ last \in States /\ emitted \in States
  /\ zero \in {"none", "running", "due", "reroute"}
  /\ maps \in Maps
  /\ cache.state \in States \cup {None} /\ java.state \in States \cup {None}
  /\ java.laneSlot \in Slots \cup {None}

(* A snapshot is the full state: while the last frame is one, Java shows   *)
(* the listed maneuvers in the order of the list, each in the slot that    *)
(* holds it and with the type last stored for it, whatever was evicted,    *)
(* renumbered or missed in between.                                        *)
OrderIsTheList ==
  sticky.kind = "snapshot" /\ maps.listed =>
    /\ java.ordered /\ java.order = Order(maps)
    /\ \A k \in DOMAIN java.order :
         java.types[java.order[k]] = maps.mans[java.order[k]].type

(* If lanes are known for the event the phone shows, Java finds them under *)
(* the slot it was given (the caches number their slots independently).    *)
LanesAreFound ==
  sticky.kind = "snapshot" /\ cache.lane # None
  /\ Holding(maps.lanes, cache.lane) # {} =>
    /\ java.lane = cache.lane /\ java.laneSlot \in Slots
    /\ java.lanes[java.laneSlot] = java.lane

(* What the hook renumbers and Java remembers agrees: the order, the types *)
(* and the lanes stand in the slots where Java looks for them.             *)
SlotsAgree == OrderIsTheList /\ LanesAreFound

(* Java never goes on showing a route, or a reroute, that the hook has told *)
(* it is over: only an end that is on its way, claimed by the tick, may    *)
(* come between what the hook has told and what Java shows.                *)
NoGhostRoute ==
  ~claimed /\ java.state > 0 => java.state = emitted

(* A route end held back has wiped the merged update, so no snapshot can   *)
(* bring the ended route back; and one that follows a reroute never runs   *)
(* out (ROUTE_ZERO_NORMAL_GRACE_MS is for the others).                     *)
HeldEndForgets ==
  zero # "none" =>
    /\ emitted # 0 /\ last = 0 /\ cache.state = None
    /\ emitted = Rerouting => zero = "reroute"

(* A route that has ended stays ended, for Java and for the hook that has  *)
(* held its end back.                                                      *)
EndsStay == NoGhostRoute /\ HeldEndForgets

(* A source that does not guide any more ends the route at once.           *)
HardCleared == last' = 0 /\ cache'.source = 0

(* A maneuver in the list keeps its slot until the list or the route       *)
(* changes, while the list is shorter than the cache: another maneuver     *)
(* never takes a slot that Java presents.                                  *)
ListedKeepsItsSlot ==
  [][\A i \in Listed(maps) \cap Listed(maps') :
       Cardinality(Listed(maps)) < SlotCount /\ ~HardCleared =>
         Holding(maps.slots, i) \subseteq Holding(maps'.slots, i)]_vars

(* So do the lanes of the event the phone shows, while a slot is free or   *)
(* holds lanes that are neither shown nor listed nor linked to.            *)
ShownLanesAreKept ==
  [][/\ cache.lane # None /\ cache'.lane = cache.lane /\ ~HardCleared
     /\ ~ \A s \in Slots :
            maps.lanes.held[s] \in LanesInUse(maps, cache.lane) \ {None}
     =>
       Holding(maps.lanes, cache.lane) \subseteq
         Holding(maps'.lanes, cache.lane)]_vars

(* A full cache takes neither what is listed nor what is shown.            *)
GuidanceKeepsItsSlots == ListedKeepsItsSlot /\ ShownLanesAreKept

(* When the phone falls silent no route end stays held back but one after  *)
(* a reroute, and Java learns of one that is over.                         *)
SilenceSettles ==
  <>[][~Phone]_vars =>
    <>[](/\ zero \in {"none", "reroute"} /\ ~claimed
         /\ emitted = 0 => java.state \in {0, None})
=============================================================================
