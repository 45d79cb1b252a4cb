--------------------------- MODULE RgdStateProofs ---------------------------
(***************************************************************************)
(* Theorems about RgdState, for any number of slots, any indices and any   *)
(* messages RgdAssumption allows.                                          *)
(***************************************************************************)
EXTENDS RgdState, TLAPS, WellFoundedInduction, FiniteSetTheorems

LEMMA SmallestOfNat ==
  ASSUME NEW T \in SUBSET Nat, T # {}
  PROVE  \E x \in T : \A y \in T : x <= y
<1> DEFINE R == {ss \in Nat \X Nat : ss[1] < ss[2]}
<1>1. R = OpToRel(<, Nat)
  BY DEF OpToRel
<1>2. IsWellFoundedOn(R, Nat)
  BY <1>1, NatLessThanWellFounded, Zenon
<1>3. \A x, y \in Nat : <<y, x>> \notin R => x <= y
  OBVIOUS
<1> HIDE DEF R
<1>4. \E x \in T : \A y \in T : <<y, x>> \notin R
  BY <1>2, WFMin
<1> QED BY <1>3, <1>4

-----------------------------------------------------------------------------
(* The slot caches.                                                        *)

LEMMA SlotFacts ==
  /\ SlotCount \in Nat \ {0} /\ Slots \in SUBSET Nat
  /\ IsFiniteSet(Slots) /\ Cardinality(Slots) = SlotCount
  /\ None \notin Indices /\ None \notin Slots /\ NoList \notin Seq(Indices)
<1>1. SlotCount \in Nat \ {0} /\ Slots \in SUBSET Nat /\ None \notin Slots
  BY RgdAssumption DEF Slots, None
<1>2. IsFiniteSet(Slots) /\ Cardinality(Slots) = SlotCount
  BY <1>1, FS_Interval DEF Slots
<1>3. None \notin Indices
  BY RgdAssumption DEF None
<1>4. NoList \notin Seq(Indices)
  <2> SUFFICES ASSUME NoList \in Seq(Indices) PROVE FALSE
    OBVIOUS
  <2>1. NoList[1] = None /\ Len(NoList) = 1
    BY DEF NoList
  <2> QED BY <1>3, <2>1
<1> QED BY <1>1, <1>2, <1>3, <1>4

LEMMA LowestIsThere ==
  ASSUME NEW S \in SUBSET Slots, S # {}
  PROVE  Lowest(S) \in S
BY SlotFacts, SmallestOfNat DEF Lowest

LEMMA OldestIsThere ==
  ASSUME NEW c \in Caches, NEW S \in SUBSET Slots, S # {}
  PROVE  Oldest(c, S) \in S
<1> DEFINE T == {c.rank[s] : s \in S}
<1>1. T \in SUBSET Nat /\ T # {}
  BY DEF Caches
<1>2. PICK x \in T : \A y \in T : x <= y
  BY <1>1, SmallestOfNat
<1>3. \E s \in S : \A t \in S : c.rank[s] <= c.rank[t]
  BY <1>2
<1> QED BY <1>3 DEF Oldest

LEMMA RankType ==
  ASSUME NEW rank, NEW seq
  PROVE  Used(rank, seq) \in [Slots -> Nat]
<1>1. \A S \in SUBSET Slots : Cardinality(S) \in Nat
  BY SlotFacts, FS_Subset, FS_CardinalityType
<1> QED BY <1>1 DEF Used

(* No two slots hold the same index.                                       *)
Own(c) == \A s, t \in Slots : c.held[s] = c.held[t] /\ c.held[s] # None => s = t

(* Where an index goes: to its own slot, to a free one, or to one whose    *)
(* index is not in use, if there is any.                                   *)
LEMMA SlotForFacts ==
  ASSUME NEW c \in Caches, NEW i \in Indices, NEW inUse
  PROVE  LET s == SlotFor(c, i, inUse)
         IN  /\ s \in Slots
             /\ \/ c.held[s] = i
                \/ Holding(c, i) = {} /\ c.held[s] = None
                \/ /\ Holding(c, i) = {} /\ Holding(c, None) = {}
                   /\ \/ c.held[s] \notin inUse
                      \/ \A t \in Slots : c.held[t] \in inUse
<1> DEFINE idle == {s \in Slots : c.held[s] \notin inUse}
<1>1. CASE Holding(c, i) # {}
  BY <1>1, LowestIsThere DEF SlotFor, Holding
<1>2. CASE Holding(c, i) = {} /\ Holding(c, None) # {}
  BY <1>2, LowestIsThere DEF SlotFor, Holding
<1>3. CASE Holding(c, i) = {} /\ Holding(c, None) = {} /\ idle # {}
  <2>1. Oldest(c, idle) \in idle
    BY <1>3, OldestIsThere
  <2> QED BY <1>3, <2>1 DEF SlotFor
<1>4. CASE Holding(c, i) = {} /\ Holding(c, None) = {} /\ idle = {}
  <2>1. Slots # {}
    BY SlotFacts DEF Slots
  <2>2. Oldest(c, Slots) \in Slots
    BY <2>1, OldestIsThere
  <2> QED BY <1>4, <2>2 DEF SlotFor
<1> QED BY <1>1, <1>2, <1>3, <1>4

LEMMA PutFacts ==
  ASSUME NEW c \in Caches, NEW i \in Indices, NEW inUse
  PROVE  /\ Put(c, i, inUse) \in Caches
         /\ Put(c, i, inUse).held = [c.held EXCEPT ![SlotFor(c, i, inUse)] = i]
         /\ Own(c) => Own(Put(c, i, inUse))
<1> DEFINE s == SlotFor(c, i, inUse)
<1>1. s \in Slots /\ (c.held[s] = i \/ Holding(c, i) = {})
  BY SlotForFacts
<1>2. Put(c, i, inUse).held = [c.held EXCEPT ![s] = i]
  BY DEF Put
<1>3. Put(c, i, inUse) \in Caches
  BY <1>1, RankType DEF Put, Caches
<1>4. ASSUME Own(c) PROVE Own(Put(c, i, inUse))
  <2> DEFINE h == [c.held EXCEPT ![s] = i]
  <2>1. \A t \in Slots : t # s => h[t] = c.held[t]
    BY DEF Caches
  <2>2. h[s] = i
    BY <1>1 DEF Caches
  <2>3. CASE c.held[s] = i
    BY <1>2, <1>4, <2>1, <2>2, <2>3 DEF Own
  <2>4. CASE Holding(c, i) = {}
    BY <1>2, <1>4, <2>1, <2>2, <2>4 DEF Own, Holding
  <2> QED BY <1>1, <2>3, <2>4
<1> QED BY <1>2, <1>3, <1>4

LEMMA LookedUpFacts ==
  ASSUME NEW c \in Caches, NEW i
  PROVE  LookedUp(c, i) \in Caches /\ LookedUp(c, i).held = c.held
BY RankType DEF LookedUp, Caches

-----------------------------------------------------------------------------
(* The order of a list.                                                    *)

(* A set of n numbers has an i-th one for every i up to n: counting those  *)
(* up to each of them is one to one, so it takes every value.              *)
LEMMA NthIsThere ==
  ASSUME NEW K \in SUBSET Nat, IsFiniteSet(K), NEW n \in 1..Cardinality(K)
  PROVE  Nth(K, n) \in K
<1> DEFINE upTo(k) == {j \in K : j <= k}
           f == [k \in K |-> Cardinality(upTo(k))]
           c == Cardinality(K)
<1>1. c \in Nat
  BY FS_CardinalityType
<1>2. \A k \in K : IsFiniteSet(upTo(k)) /\ Cardinality(upTo(k)) \in 1..c
  <2> SUFFICES ASSUME NEW k \in K
               PROVE  IsFiniteSet(upTo(k)) /\ Cardinality(upTo(k)) \in 1..c
    OBVIOUS
  <2>1. k \in upTo(k) /\ upTo(k) \in SUBSET K
    OBVIOUS
  <2> HIDE DEF upTo
  <2>2. IsFiniteSet(upTo(k)) /\ Cardinality(upTo(k)) <= c
    BY <2>1, FS_Subset
  <2>3. Cardinality(upTo(k)) \in Nat /\ Cardinality(upTo(k)) # 0
    BY <2>1, <2>2, FS_CardinalityType, FS_EmptySet
  <2> HIDE DEF c
  <2> QED BY <1>1, <2>2, <2>3
<1>3. \A j, k \in K : j < k => Cardinality(upTo(j)) # Cardinality(upTo(k))
  <2> SUFFICES ASSUME NEW j \in K, NEW k \in K, j < k
               PROVE  Cardinality(upTo(j)) # Cardinality(upTo(k))
    OBVIOUS
  <2>1. \A i \in K : i <= j => i <= k
    OBVIOUS
  <2>2. k <= k /\ ~(k <= j)
    OBVIOUS
  <2>3. upTo(j) \in SUBSET upTo(k) /\ k \in upTo(k) /\ k \notin upTo(j)
    BY <2>1, <2>2
  <2> HIDE DEF upTo
  <2> QED BY <1>2, <2>3, FS_Subset
<1>4. f \in Injection(K, 1..c)
  <2>1. f \in [K -> 1..c]
    BY <1>2
  <2>2. \A j, k \in K : f[j] = f[k] => j = k
    BY <1>3
  <2> HIDE DEF f, c
  <2> QED BY <2>1, <2>2 DEF Injection, IsInjective
<1>5. IsFiniteSet(1..c) /\ Cardinality(1..c) = c
  BY <1>1, FS_Interval
<1>6. f \in Surjection(K, 1..c)
  <2> HIDE DEF f
  <2> QED BY <1>4, <1>5, FS_Injection
<1>7. \E k \in K : f[k] = n
  <2> HIDE DEF f
  <2> QED BY <1>6 DEF Surjection
<1> QED BY <1>7 DEF Nth

(* It names slots of maneuvers whose type is known, and nothing but the    *)
(* list, the slots and the maneuvers decides it.                           *)
LEMMA OrderFacts ==
  ASSUME NEW m \in Maps
  PROVE  \A n \in DOMAIN Order(m) :
           Order(m)[n] \in Slots /\ m.mans[Order(m)[n]].type # None
<1> DEFINE slot(k) == Lowest(Holding(m.slots, m.list[k]))
           known == {k \in DOMAIN m.list : /\ Holding(m.slots, m.list[k]) # {}
                                           /\ m.mans[slot(k)].type # None}
<1>1. Order(m) = [n \in 1..Cardinality(known) |-> slot(Nth(known, n))]
  BY DEF Order
<1>2. known \in SUBSET Nat /\ IsFiniteSet(known)
  <2>1. m.list \in Seq(Indices)
    BY DEF Maps
  <2>2. DOMAIN m.list = 1..Len(m.list) /\ Len(m.list) \in Nat
    BY <2>1
  <2>3. IsFiniteSet(DOMAIN m.list) /\ DOMAIN m.list \in SUBSET Nat
    BY <2>2, FS_Interval
  <2>4. known \in SUBSET DOMAIN m.list
    OBVIOUS
  <2> HIDE DEF known
  <2> QED BY <2>3, <2>4, FS_Subset
<1>3. \A k \in known : slot(k) \in Slots /\ m.mans[slot(k)].type # None
  <2> SUFFICES ASSUME NEW k \in known
               PROVE  slot(k) \in Slots /\ m.mans[slot(k)].type # None
    OBVIOUS
  <2>1. Holding(m.slots, m.list[k]) # {}
        /\ Holding(m.slots, m.list[k]) \in SUBSET Slots
    BY DEF Holding
  <2>2. slot(k) \in Slots
    BY <2>1, LowestIsThere
  <2> QED BY <2>2
<1> HIDE DEF known
<1>4. \A n \in 1..Cardinality(known) : Nth(known, n) \in known
  BY <1>2, NthIsThere
<1> HIDE DEF slot
<1> QED BY <1>1, <1>3, <1>4

LEMMA SameOrder ==
  ASSUME NEW m, NEW n, n.slots = m.slots, n.mans = m.mans, n.list = m.list
  PROVE  Order(n) = Order(m)
BY DEF Order

-----------------------------------------------------------------------------
(* The maps.                                                               *)

(* What Maps says, and that each cache names an index once.                *)
MapsOK(m) == m \in Maps /\ Own(m.slots) /\ Own(m.lanes)

LEMMA FreshOK == MapsOK(FreshMaps) /\ Listed(FreshMaps) = {}
<1>1. NoMan \in Man
  BY DEF NoMan, Man
<1>2. FreshCache \in Caches /\ Own(FreshCache)
  BY DEF FreshCache, Caches, Own
<1>3. <<>> \in Seq(Indices)
  OBVIOUS
<1>4. FreshMaps \in Maps
  BY <1>1, <1>2, <1>3 DEF FreshMaps, Maps
<1> QED BY <1>2, <1>4 DEF MapsOK, FreshMaps, Listed

(* What publishing does to the lanes: some may be forgotten, those the     *)
(* phone shows may not.                                                    *)
Keeps(m, n, lane) ==
  /\ n.slots = m.slots /\ n.mans = m.mans
  /\ \A s \in Slots : n.lanes.held[s] \in {m.lanes.held[s], None}
  /\ lane # None => Holding(n.lanes, lane) = Holding(m.lanes, lane)

LEMMA OwnKept ==
  ASSUME NEW c, NEW d, Own(c), \A s \in Slots : d.held[s] \in {c.held[s], None}
  PROVE  Own(d)
BY DEF Own

LEMMA LanesReplaced ==
  ASSUME NEW m, MapsOK(m), NEW c \in Caches,
         \A s \in Slots : c.held[s] \in {m.lanes.held[s], None}
  PROVE  /\ MapsOK([m EXCEPT !.lanes = c])
         /\ [m EXCEPT !.lanes = c].lanes = c
         /\ [m EXCEPT !.lanes = c].slots = m.slots
         /\ [m EXCEPT !.lanes = c].mans = m.mans
         /\ [m EXCEPT !.lanes = c].listed = m.listed
         /\ [m EXCEPT !.lanes = c].list = m.list
<1> DEFINE n == [m EXCEPT !.lanes = c]
<1>1. m \in Maps
  BY DEF MapsOK
<1>2. n \in Maps /\ n.lanes = c /\ n.slots = m.slots /\ n.mans = m.mans
      /\ n.listed = m.listed /\ n.list = m.list
  BY <1>1 DEF Maps
<1>3. Own(c)
  BY OwnKept DEF MapsOK
<1> QED BY <1>2, <1>3 DEF MapsOK

LEMMA PrunedFacts ==
  ASSUME NEW m, MapsOK(m), NEW lane, NEW said
  PROVE  LET n == Pruned(m, lane, said)
         IN  /\ MapsOK(n) /\ Keeps(m, n, lane)
             /\ n.listed = m.listed /\ n.list = m.list
<1> DEFINE gone == {s \in Slots : Stale(m, lane, said, m.lanes.held[s])}
           c == [held |-> [s \in Slots |-> IF s \in gone THEN None
                                           ELSE m.lanes.held[s]],
                 rank |-> Used([s \in Slots |-> IF s \in gone THEN 0
                                                ELSE m.lanes.rank[s]], <<>>)]
<1>1. CASE gone = {}
  BY <1>1 DEF Pruned, Keeps
<1>2. CASE gone # {}
  <2>1. Pruned(m, lane, said) = [m EXCEPT !.lanes = c]
    BY <1>2 DEF Pruned
  <2>2. c.held = [s \in Slots |-> IF s \in gone THEN None ELSE m.lanes.held[s]]
    OBVIOUS
  <2>3. m.lanes \in Caches
    BY DEF MapsOK, Maps
  <2>4. c \in Caches
    BY <2>3, RankType DEF Caches
  <2>5. \A s \in gone : m.lanes.held[s] # lane
    BY DEF Stale
  <2> HIDE DEF gone, c
  <2>6. \A s \in Slots : c.held[s] \in {m.lanes.held[s], None}
    BY <2>2
  <2>7. lane # None => {s \in Slots : c.held[s] = lane}
                         = {s \in Slots : m.lanes.held[s] = lane}
    BY <2>2, <2>5
  <2> QED BY <2>1, <2>4, <2>6, <2>7, LanesReplaced DEF Keeps, Holding
<1> QED BY <1>1, <1>2

LEMMA KeepsTwice ==
  ASSUME NEW m, NEW n, NEW o, NEW lane, Keeps(m, n, lane), Keeps(n, o, lane)
  PROVE  Keeps(m, o, lane)
BY DEF Keeps

LEMMA LookedUpMaps ==
  ASSUME NEW m, MapsOK(m), NEW i, NEW lane
  PROVE  LET n == [m EXCEPT !.lanes = LookedUp(@, i)]
         IN  MapsOK(n) /\ Keeps(m, n, lane)
<1> DEFINE c == LookedUp(m.lanes, i)
           n == [m EXCEPT !.lanes = c]
<1>1. m \in Maps
  BY DEF MapsOK
<1>2. c \in Caches /\ c.held = m.lanes.held
  BY <1>1, LookedUpFacts DEF Maps
<1> HIDE DEF c
<1>3. MapsOK(n) /\ n.lanes = c /\ n.slots = m.slots /\ n.mans = m.mans
  BY <1>2, LanesReplaced
<1>4. n = [m EXCEPT !.lanes = LookedUp(@, i)]
  BY <1>1 DEF Maps, c
<1> QED BY <1>2, <1>3, <1>4 DEF Keeps, Holding

CacheType == [state : States \cup {None}, count : Nat \cup {None},
              list : {None, 0}, lane : Indices \cup {None},
              source : {None, 0, 1}]

(* The frame names the listed maneuvers in order, with their types.        *)
Ordered(f, m) ==
  /\ f.listed = m.listed
  /\ m.listed =>
       /\ f.order = Order(m)
       /\ \A n \in DOMAIN Order(m) :
            LET s == Order(m)[n]
            IN  s \in Slots /\ f.types[s] = m.mans[s].type /\ f.types[s] # None

(* A snapshot forgets no maneuver and not the lanes shown; its frame tells *)
(* the lanes that are left, the slot of those shown, and the list.         *)
LEMMA SnapshotFacts ==
  ASSUME NEW m, MapsOK(m), NEW c \in CacheType, NEW said, NEW list \in Lists,
         NEW extra
  PROVE  LET snap == Snapshot(m, c, said, list, extra)
         IN  /\ MapsOK(snap.maps) /\ Keeps(m, snap.maps, c.lane)
             /\ snap.frame.kind = "snapshot" /\ snap.frame.keys = c
             /\ snap.frame.lanes = snap.maps.lanes.held
             /\ snap.frame.laneSlot = LaneSlot(snap.maps, c.lane)
             /\ Ordered(snap.frame, snap.maps)
<1> DEFINE p == Pruned(m, c.lane, said)
           looked == [p EXCEPT !.lanes = IF c.lane = None THEN @
                                         ELSE LookedUp(@, c.lane)]
           asked == IF list = NoList THEN looked
                    ELSE [looked EXCEPT !.listed = TRUE, !.list = list]
           named == Pruned(asked, c.lane, said)
           snap == Snapshot(m, c, said, list, extra)
           order == IF named.listed THEN Order(named) ELSE <<>>
           sent == {order[k] : k \in DOMAIN order} \cup extra
<1>1. MapsOK(p) /\ Keeps(m, p, c.lane)
  BY PrunedFacts
<1> HIDE DEF p
<1>2. MapsOK(looked) /\ Keeps(p, looked, c.lane)
  <2>1. CASE c.lane = None
    <3>1. looked = p
      BY <1>1, <2>1 DEF MapsOK, Maps
    <3> QED BY <1>1, <3>1 DEF Keeps
  <2>2. CASE c.lane # None
    <3>1. looked = [p EXCEPT !.lanes = LookedUp(@, c.lane)]
      BY <2>2
    <3> QED BY <1>1, <3>1, LookedUpMaps
  <2> QED BY <2>1, <2>2
<1> HIDE DEF looked
<1>3. MapsOK(asked) /\ Keeps(looked, asked, c.lane)
  <2>1. CASE list = NoList
    BY <1>2, <2>1 DEF Keeps
  <2>2. CASE list # NoList
    <3>1. list \in Seq(Indices)
      BY <2>2 DEF Lists
    <3>2. asked \in Maps /\ asked.slots = looked.slots
          /\ asked.lanes = looked.lanes /\ asked.mans = looked.mans
      BY <1>2, <2>2, <3>1 DEF MapsOK, Maps
    <3> QED BY <1>2, <3>2 DEF MapsOK, Keeps, Holding
  <2> QED BY <2>1, <2>2
<1> HIDE DEF asked
<1>4. MapsOK(named) /\ Keeps(asked, named, c.lane)
  BY <1>3, PrunedFacts
<1> HIDE DEF named
<1>5. PICK seq : snap.maps = [named EXCEPT !.lanes.rank = Used(@, seq)]
  BY ZenonT(40) DEF Snapshot, named, asked, looked, p
<1>6. MapsOK(snap.maps) /\ Keeps(named, snap.maps, c.lane)
      /\ snap.maps.lanes.held = named.lanes.held
      /\ snap.maps.slots = named.slots /\ snap.maps.mans = named.mans
      /\ snap.maps.listed = named.listed /\ snap.maps.list = named.list
  <2> DEFINE d == [named.lanes EXCEPT !.rank = Used(@, seq)]
  <2>1. d \in Caches /\ d.held = named.lanes.held
    BY <1>4, RankType DEF MapsOK, Maps, Caches
  <2>2. snap.maps = [named EXCEPT !.lanes = d]
    BY <1>4, <1>5 DEF MapsOK, Maps, Caches
  <2> HIDE DEF d
  <2> QED BY <1>4, <2>1, <2>2, LanesReplaced DEF Keeps, Holding
<1>7. Keeps(m, snap.maps, c.lane) /\ Keeps(looked, snap.maps, c.lane)
  BY <1>1, <1>2, <1>3, <1>4, <1>6, KeepsTwice
<1>8. snap.frame.kind = "snapshot" /\ snap.frame.keys = c
      /\ snap.frame.lanes = named.lanes.held
      /\ snap.frame.laneSlot = LaneSlot(looked, c.lane)
  BY DEF Snapshot, named, asked, looked, p
<1>9. LaneSlot(looked, c.lane) = LaneSlot(snap.maps, c.lane)
  BY <1>7 DEF Keeps, LaneSlot
<1>10. /\ snap.frame.listed = named.listed /\ snap.frame.order = order
       /\ snap.frame.types = [s \in Slots |-> IF s \in sent
                                              THEN named.mans[s].type ELSE None]
  BY DEF Snapshot, named, asked, looked, p
<1>11. Ordered(snap.frame, snap.maps)
  <2> HIDE DEF snap
  <2> SUFFICES ASSUME named.listed, NEW n \in DOMAIN Order(named)
               PROVE  LET s == Order(named)[n]
                      IN  /\ s \in Slots
                          /\ snap.frame.types[s] = named.mans[s].type
                          /\ snap.frame.types[s] # None
    BY <1>6, <1>10, SameOrder DEF Ordered
  <2> DEFINE s == Order(named)[n]
  <2>1. s \in Slots /\ named.mans[s].type # None
    BY <1>4, OrderFacts DEF MapsOK
  <2>2. s \in sent
    OBVIOUS
  <2> HIDE DEF s, sent
  <2>3. snap.frame.types[s] = named.mans[s].type
    BY <1>10, <2>1, <2>2
  <2> QED BY <2>1, <2>3 DEF s
<1> HIDE DEF snap
<1>12. /\ MapsOK(snap.maps) /\ Keeps(m, snap.maps, c.lane)
       /\ snap.frame.kind = "snapshot" /\ snap.frame.keys = c
       /\ snap.frame.lanes = snap.maps.lanes.held
       /\ snap.frame.laneSlot = LaneSlot(snap.maps, c.lane)
       /\ Ordered(snap.frame, snap.maps)
  BY <1>6, <1>7, <1>8, <1>9, <1>11
<1> QED BY <1>12 DEF snap

-----------------------------------------------------------------------------
(* Frames, and what Java makes of them.                                    *)

LEMMA MergedFacts ==
  ASSUME NEW c \in CacheType, NEW u \in Updates
  PROVE  /\ Merged(c, u) \in CacheType
         /\ Merged(c, u).state = IF u.state # None THEN u.state ELSE c.state
         /\ Merged(c, u).lane = IF u.lane # None THEN u.lane ELSE c.lane
         /\ Merged(c, u).source = IF u.source # None THEN u.source ELSE c.source
<1> DEFINE new == [u EXCEPT !.list = IF @ = NoList THEN None ELSE 0]
<1>1. u \in [state : States \cup {None}, count : Nat \cup {None}, list : Lists,
             lane : Indices \cup {None}, source : {None, 0, 1}]
  BY RgdAssumption
<1>2. new \in CacheType /\ new.state = u.state /\ new.lane = u.lane
      /\ new.source = u.source
  BY <1>1 DEF CacheType
<1> HIDE DEF new
<1> DEFINE d == [state |-> IF new.state # None THEN new.state ELSE c.state,
                 count |-> IF new.count # None THEN new.count ELSE c.count,
                 list |-> IF new.list # None THEN new.list ELSE c.list,
                 lane |-> IF new.lane # None THEN new.lane ELSE c.lane,
                 source |-> IF new.source # None THEN new.source ELSE c.source]
<1>3. Merged(c, u) = [f \in DOMAIN c |-> IF new[f] # None THEN new[f] ELSE c[f]]
  BY DEF Merged, new
<1>4. DOMAIN c = {"state", "count", "list", "lane", "source"}
  BY DEF CacheType
<1>5. Merged(c, u) = d
  BY <1>3, <1>4
<1>6. d \in CacheType
  BY <1>2 DEF CacheType
<1> QED BY <1>2, <1>5, <1>6

(* The fields of RouteGuidance.State.                                      *)
Fields == {"hasUpdate", "state", "count", "source", "ordered", "order",
           "types", "lane", "laneSlot", "lanes"}
JavaShape(j) ==
  /\ j = [x \in Fields |-> j[x]]
  /\ j.state \in States \cup {None} /\ j.laneSlot \in Slots \cup {None}

FrameOK(f) ==
  /\ f.kind \in {"snapshot", "end", "clear"}
  /\ f.keys \in CacheType /\ f.laneSlot \in Slots \cup {None}

(* A frame leaves a route state of its own, the one Java had, or none, and *)
(* a snapshot its lanes; a list is taken over with the types it comes      *)
(* with; a disconnect leaves nothing.                                      *)
LEMMA ParsedFacts ==
  ASSUME NEW j, JavaShape(j), NEW f, FrameOK(f)
  PROVE  LET k == Parsed(j, f)
         IN  /\ JavaShape(k)
             /\ f.kind = "clear" => k = NoJava
             /\ f.kind # "clear" /\ f.keys.state # None =>
                  k.state = f.keys.state
             /\ f.kind # "clear" /\ f.keys.state = None =>
                  k.state \in {j.state, 0}
             /\ f.kind = "snapshot" => k.lanes = f.lanes
             /\ f.kind = "snapshot" /\ f.keys.lane # None =>
                  k.lane = f.keys.lane /\ k.laneSlot = f.laneSlot
             /\ f.kind # "clear" /\ f.listed =>
                  /\ k.ordered /\ k.order = f.order
                  /\ \A s \in Slots :
                       f.types[s] # None => k.types[s] = f.types[s]
<1> DEFINE
      has   == \/ j.hasUpdate \/ f.listed
               \/ \E k \in {"state", "count", "source"} : f.keys[k] # None
      src   == IF f.keys.source \in {None, j.source} THEN j
               ELSE IF f.keys.source = 0
               THEN [Ended(j) EXCEPT !.source = 0, !.types = NoJava.types,
                                     !.lanes = NoJava.lanes]
               ELSE [j EXCEPT !.source = f.keys.source]
      route == IF f.keys.state = 0 THEN Ended(src)
               ELSE IF f.keys.state # None
               THEN [src EXCEPT !.state = f.keys.state]
               ELSE src
      count == IF f.keys.count \in {None, route.count} THEN route
               ELSE IF f.keys.count = 0
               THEN [route EXCEPT !.count = 0, !.ordered = FALSE,
                                  !.order = <<>>]
               ELSE [route EXCEPT !.count = f.keys.count]
      list  == IF f.listed
               THEN [count EXCEPT !.ordered = TRUE, !.order = f.order]
               ELSE count
      lane  == IF f.keys.lane = None THEN list
               ELSE [list EXCEPT !.lane = f.keys.lane, !.laneSlot = f.laneSlot]
      full  == IF f.kind = "end" THEN lane
               ELSE [lane EXCEPT !.lanes = f.lanes]
      last2 == [full EXCEPT
                 !.hasUpdate = has,
                 !.types = [s \in Slots |-> IF has /\ f.types[s] # None
                                            THEN f.types[s] ELSE @[s]]]
<1>1. Parsed(j, f) = IF f.kind = "clear" THEN NoJava ELSE last2
  BY DEF Parsed
<1>2. 0 \in States \cup {None} /\ f.keys.state \in States \cup {None}
      /\ 0 # None /\ None \in Slots \cup {None}
  BY DEF States, FrameOK, CacheType, None
<1>3. \A k : JavaShape(k) => JavaShape(Ended(k)) /\ Ended(k).state = 0
  BY <1>2 DEF JavaShape, Fields, Ended
<1>4. JavaShape(src) /\ src.state \in {j.state, 0}
  <2> DEFINE e == Ended(j)
             e1 == [e EXCEPT !.source = 0]
             e2 == [e1 EXCEPT !.types = NoJava.types]
             e3 == [e2 EXCEPT !.lanes = NoJava.lanes]
             n == [j EXCEPT !.source = f.keys.source]
  <2>1. JavaShape(e) /\ e.state = 0
    BY <1>3
  <2> HIDE DEF e
  <2>2. JavaShape(e1) /\ e1.state = 0
    BY <2>1 DEF JavaShape, Fields
  <2> HIDE DEF e1
  <2>3. JavaShape(e2) /\ e2.state = 0
    BY <2>2 DEF JavaShape, Fields
  <2> HIDE DEF e2
  <2>4. JavaShape(e3) /\ e3.state = 0
    BY <2>3 DEF JavaShape, Fields
  <2>5. JavaShape(n) /\ n.state = j.state
    BY DEF JavaShape, Fields
  <2>6. src \in {j, e3, n}
    BY DEF e, e1, e2, e3, n
  <2> HIDE DEF src, n, e3
  <2> QED BY <2>4, <2>5, <2>6
<1> HIDE DEF src
<1>5. JavaShape(route)
      /\ (f.keys.state # None => route.state = f.keys.state)
      /\ (f.keys.state = None => route.state = src.state)
  <2>1. JavaShape([src EXCEPT !.state = f.keys.state])
        /\ [src EXCEPT !.state = f.keys.state].state = f.keys.state
    BY <1>2, <1>4 DEF JavaShape, Fields
  <2> QED BY <1>2, <1>3, <1>4, <2>1
<1> HIDE DEF route
<1>6. JavaShape(count) /\ count.state = route.state
  BY <1>5 DEF JavaShape, Fields
<1> HIDE DEF count
<1>7. JavaShape(list) /\ list.state = count.state
      /\ (f.listed => list.ordered /\ list.order = f.order)
  BY <1>6 DEF JavaShape, Fields
<1> HIDE DEF list
<1>8. JavaShape(lane) /\ lane.state = list.state
      /\ lane.ordered = list.ordered /\ lane.order = list.order
      /\ (f.keys.lane # None =>
            lane.lane = f.keys.lane /\ lane.laneSlot = f.laneSlot)
  BY <1>7 DEF JavaShape, Fields, FrameOK
<1> HIDE DEF lane
<1>9. JavaShape(full) /\ full.state = lane.state /\ full.lane = lane.lane
      /\ full.laneSlot = lane.laneSlot
      /\ full.ordered = lane.ordered /\ full.order = lane.order
      /\ (f.kind = "snapshot" => full.lanes = f.lanes)
  BY <1>8 DEF JavaShape, Fields
<1>12. f.listed => has
  OBVIOUS
<1> HIDE DEF full, has
<1>10. JavaShape(last2) /\ last2.state = full.state /\ last2.lane = full.lane
       /\ last2.laneSlot = full.laneSlot /\ last2.lanes = full.lanes
       /\ last2.ordered = full.ordered /\ last2.order = full.order
       /\ \A s \in Slots : has /\ f.types[s] # None =>
                           last2.types[s] = f.types[s]
  BY <1>9 DEF JavaShape, Fields
<1> HIDE DEF last2
<1>11. JavaShape(NoJava)
  BY DEF JavaShape, Fields, NoJava
<1> QED BY <1>1, <1>4, <1>5, <1>6, <1>7, <1>8, <1>9,
           <1>10, <1>11, <1>12

LEMMA BareFrames ==
  /\ NoCache \in CacheType
  /\ \A k \in {"end", "clear"} :
       /\ FrameOK(BareFrame(k)) /\ BareFrame(k).kind = k
       /\ BareFrame(k).keys.state = 0 /\ BareFrame(k).keys.lane = None
<1>1. NoCache \in CacheType
  BY DEF NoCache, CacheType
<1>2. [NoCache EXCEPT !.state = 0, !.count = 0] \in CacheType
      /\ [NoCache EXCEPT !.state = 0, !.count = 0].state = 0
      /\ [NoCache EXCEPT !.state = 0, !.count = 0].lane = None
  BY DEF NoCache, CacheType, States
<1> QED BY <1>1, <1>2 DEF FrameOK, BareFrame

-----------------------------------------------------------------------------
(* The inductive invariant: the types, what Java was told of the route     *)
(* state, and that the last snapshot shows the lanes there are.            *)

Types ==
  /\ running \in BOOLEAN /\ haveUpdate \in BOOLEAN /\ claimed \in BOOLEAN
  /\ last \in States /\ emitted \in States
  /\ zero \in {"none", "running", "due", "reroute"}
  /\ MapsOK(maps) /\ cache \in CacheType
  /\ JavaShape(java) /\ FrameOK(sticky)

Told ==
  /\ cache.state > 0 => cache.state = emitted
  /\ ~claimed =>
       /\ java.state > 0 => java.state = emitted
       /\ sticky.keys.state > 0 => sticky.keys.state = emitted

Shown ==
  sticky.kind = "snapshot" /\ cache.lane # None =>
    /\ sticky.keys.lane = cache.lane /\ java.lane = cache.lane
    /\ sticky.lanes = maps.lanes.held /\ java.lanes = maps.lanes.held
    /\ sticky.laneSlot = LaneSlot(maps, cache.lane)
    /\ java.laneSlot = LaneSlot(maps, cache.lane)

Inv == Types /\ HeldEndForgets /\ Told /\ Shown

LEMMA LaneSlotType ==
  ASSUME NEW m, NEW lane
  PROVE  LaneSlot(m, lane) \in Slots \cup {None}
BY LowestIsThere DEF LaneSlot, Holding

LEMMA PublishedFacts ==
  ASSUME Types, NEW m, MapsOK(m), NEW c \in CacheType, NEW said,
         NEW list \in Lists, NEW extra, Published(m, c, said, list, extra)
  PROVE  /\ cache' = c /\ MapsOK(maps') /\ Keeps(m, maps', c.lane)
         /\ JavaShape(java') /\ FrameOK(sticky') /\ (c.lane # None => Shown')
         /\ \/ c = NoCache /\ UNCHANGED <<sticky, java>>
            \/ /\ sticky'.kind = "snapshot" /\ sticky'.keys = c
               /\ IF c.state # None THEN java'.state = c.state
                  ELSE java'.state \in {java.state, 0}
<1> DEFINE snap == Snapshot(m, c, said, list, extra)
<1>1. cache' = c
  BY DEF Published
<1>2. CASE Silent(m, c, extra)
  <2>1. maps' = m /\ UNCHANGED <<sticky, java>> /\ c = NoCache
    BY <1>2 DEF Published, Silent
  <2>2. c.lane = None
    BY <2>1 DEF NoCache
  <2> QED BY <1>1, <2>1, <2>2 DEF Types, Keeps
<1>3. CASE ~Silent(m, c, extra)
  <2>1. maps' = snap.maps /\ sticky' = snap.frame
        /\ java' = Parsed(java, snap.frame)
    BY <1>3 DEF Published, Sent
  <2>2. /\ MapsOK(snap.maps) /\ Keeps(m, snap.maps, c.lane)
        /\ snap.frame.kind = "snapshot" /\ snap.frame.keys = c
        /\ snap.frame.lanes = snap.maps.lanes.held
        /\ snap.frame.laneSlot = LaneSlot(snap.maps, c.lane)
    BY SnapshotFacts
  <2> HIDE DEF snap
  <2>3. FrameOK(snap.frame)
    BY <2>2, LaneSlotType DEF FrameOK
  <2>4. JavaShape(java)
    BY DEF Types
  <2>5. LET k == Parsed(java, snap.frame)
        IN  /\ JavaShape(k) /\ k.lanes = snap.frame.lanes
            /\ IF c.state # None THEN k.state = c.state
               ELSE k.state \in {java.state, 0}
            /\ c.lane # None =>
                 k.lane = c.lane /\ k.laneSlot = snap.frame.laneSlot
    BY <2>2, <2>3, <2>4, ParsedFacts
  <2> QED BY <1>1, <2>1, <2>2, <2>3, <2>5 DEF Shown
<1> QED BY <1>2, <1>3

LEMMA InitInv == Init => Inv
<1> SUFFICES ASSUME Init PROVE Inv
  OBVIOUS
<1>1. MapsOK(maps)
  BY FreshOK DEF Init
<1>2. JavaShape(java) /\ java.state = None
  BY DEF Init, JavaShape, Fields, NoJava
<1>3. cache \in CacheType /\ cache.state = None /\ cache.lane = None
  BY BareFrames DEF Init, NoCache
<1>4. FrameOK(sticky) /\ sticky.keys.state = 0
  BY BareFrames DEF Init
<1>5. Types
  BY <1>1, <1>2, <1>3, <1>4 DEF Types, Init, States
<1>6. Told
  BY <1>2, <1>3, <1>4 DEF Told, None
<1>7. HeldEndForgets
  BY DEF HeldEndForgets, Init
<1> QED BY <1>3, <1>5, <1>6, <1>7 DEF Inv, Shown

(* A step that publishes what was merged with what the phone said.         *)
LEMMA PublishedTold ==
  ASSUME Inv, NEW m, MapsOK(m), NEW c \in CacheType, NEW said,
         NEW list \in Lists, NEW extra, Published(m, c, said, list, extra),
         c.state > 0 => c.state = emitted',
         claimed' = claimed, c = NoCache => emitted' = emitted,
         c.state = None /\ java.state > 0 => emitted' = emitted
  PROVE  /\ MapsOK(maps') /\ cache' \in CacheType /\ JavaShape(java')
         /\ FrameOK(sticky') /\ Told' /\ Shown'
<1>1. /\ cache' = c /\ MapsOK(maps') /\ Keeps(m, maps', c.lane)
      /\ JavaShape(java') /\ FrameOK(sticky') /\ (c.lane # None => Shown')
      /\ \/ c = NoCache /\ UNCHANGED <<sticky, java>>
         \/ /\ sticky'.kind = "snapshot" /\ sticky'.keys = c
            /\ IF c.state # None THEN java'.state = c.state
               ELSE java'.state \in {java.state, 0}
  BY PublishedFacts DEF Inv
<1>2. Shown'
  BY <1>1 DEF Shown
<1>3. CASE c = NoCache /\ UNCHANGED <<sticky, java>>
  BY <1>1, <1>2, <1>3 DEF Told, Inv
<1>4. CASE /\ sticky'.kind = "snapshot" /\ sticky'.keys = c
           /\ IF c.state # None THEN java'.state = c.state
              ELSE java'.state \in {java.state, 0}
  <2>1. c.state = None => ~(c.state > 0)
    BY DEF None
  <2>2. ~claimed' => (java'.state > 0 => java'.state = emitted')
    BY <1>4, <2>1 DEF Told, Inv
  <2> QED BY <1>1, <1>2, <1>4, <2>2 DEF Told
<1> QED BY <1>1, <1>2, <1>3, <1>4

UpdateType == [state : States \cup {None}, count : Nat \cup {None},
               list : Lists, lane : Indices \cup {None}, source : {None, 0, 1}]

LEMMA HoldEndInv ==
  ASSUME Inv, NEW u \in Updates, HoldEnd(u)
  PROVE  Inv'
<1>1. zero' # "none" /\ zero' \in {"running", "due", "reroute"}
      /\ (zero = "none" /\ emitted = Rerouting => zero' = "reroute")
      /\ (zero # "none" => zero' = zero) /\ emitted # 0
  BY DEF HoldEnd, Holds, Inv, Types
<1>2. MapsOK(maps')
  BY FreshOK DEF HoldEnd, Inv, Types
<1>3. cache' \in CacheType /\ cache'.state = None /\ cache'.lane = None
  BY BareFrames DEF HoldEnd, NoCache
<1>4. haveUpdate' = TRUE /\ last' = 0
      /\ UNCHANGED <<running, emitted, claimed, sticky, java>>
  BY DEF HoldEnd
<1>5. Types'
  BY <1>1, <1>2, <1>3, <1>4 DEF Inv, Types, States
<1>6. HeldEndForgets'
  BY <1>1, <1>3, <1>4 DEF Inv, HeldEndForgets
<1>7. Told'
  BY <1>3, <1>4 DEF Inv, Told, None
<1> QED BY <1>3, <1>5, <1>6, <1>7 DEF Inv, Shown

LEMMA RouteUpdateInv ==
  ASSUME Inv, NEW u \in Updates, RouteUpdate(u)
  PROVE  Inv'
<1> DEFINE said == IF u.state = None THEN last ELSE u.state
           cleared == u.state = 0 /\ HardClear(u)
           m == IF cleared THEN FreshMaps ELSE maps
           c == IF cleared THEN NoCache ELSE cache
           looked == IF u.lane = None THEN m
                     ELSE [m EXCEPT !.lanes = LookedUp(@, u.lane)]
           d == Merged(c, u)
<1>1. u \in UpdateType
  BY RgdAssumption DEF UpdateType
<1>2. MapsOK(m) /\ c \in CacheType
  BY FreshOK, BareFrames DEF Inv, Types
<1>3. MapsOK(looked)
  <2> HIDE DEF m
  <2> QED BY <1>2, LookedUpMaps
<1>4. d \in CacheType
      /\ d.state = IF u.state # None THEN u.state ELSE c.state
  BY <1>2, MergedFacts
<1>5. /\ running /\ ~Holds(u) /\ ~Suppressed(u) /\ haveUpdate' = TRUE
      /\ last' = said /\ UNCHANGED <<running, claimed>>
      /\ zero' = IF cleared \/ (u.state # 0 /\ Evidence(u)) THEN "none"
                 ELSE zero
      /\ emitted' = IF cleared THEN 0
                    ELSE IF u.state > 0 THEN u.state ELSE emitted
      /\ Published(looked, d, said, u.list, {})
  BY DEF RouteUpdate
<1>6. u.state \in States \cup {None} /\ u.list \in Lists
      /\ (u.state = None => ~(u.state > 0))
      /\ (u.state \notin {0, None} => u.state > 0)
  BY <1>1 DEF UpdateType, States, None, Rerouting
<1> HIDE DEF d
<1>7. d.state > 0 => d.state = emitted'
  <2>1. CASE u.state # None
    BY <1>4, <1>5, <1>6, <2>1
  <2>2. CASE u.state = None
    <3>1. ~cleared /\ c = cache /\ emitted' = emitted
      BY <1>5, <1>6, <2>2 DEF None
    <3> QED BY <1>4, <2>2, <3>1 DEF Inv, Told
  <2> QED BY <2>1, <2>2
<1>8. d.state = None => emitted' = emitted
  <2>1. d.state = None => u.state = None
    BY <1>4
  <2> QED BY <1>5, <1>6, <2>1 DEF None
<1>9. d = NoCache => d.state = None
  BY DEF NoCache
<1>10. /\ MapsOK(maps') /\ cache' \in CacheType /\ JavaShape(java')
       /\ FrameOK(sticky') /\ Told' /\ Shown'
  <2> HIDE DEF looked, said
  <2> QED BY <1>3, <1>4, <1>5, <1>6, <1>7, <1>8, <1>9, PublishedTold
<1>11. last' \in States /\ emitted' \in States
       /\ zero' \in {"none", "running", "due", "reroute"}
  BY <1>5, <1>6 DEF Inv, Types, States
<1>12. HeldEndForgets'
  <2> SUFFICES ASSUME zero' # "none" PROVE HeldEndForgets'
    BY DEF HeldEndForgets
  <2>1. ~cleared /\ ~(u.state # 0 /\ Evidence(u)) /\ zero' = zero
    BY <1>5
  <2>2. emitted # 0 /\ last = 0 /\ cache.state = None
        /\ (emitted = Rerouting => zero = "reroute")
    BY <2>1 DEF Inv, HeldEndForgets
  <2>3. u.state # 0
    BY <1>5, <2>1, <2>2 DEF Holds
  <2>4. ~(u.state > 0)
    BY <2>1, <2>3 DEF Evidence
  <2>5. u.state = None
    BY <1>6, <2>3, <2>4
  <2>6. last' = 0 /\ emitted' = emitted /\ cache' = d /\ d.state = None
    BY <1>4, <1>5, <2>1, <2>2, <2>4, <2>5 DEF Published
  <2> QED BY <2>1, <2>2, <2>6 DEF HeldEndForgets
<1>13. Types'
  BY <1>5, <1>10, <1>11 DEF Inv, Types
<1> QED BY <1>10, <1>12, <1>13 DEF Inv

(* Maneuvers and lanes publish the merged update as it is.                 *)
LEMMA StoredInv ==
  ASSUME Inv, zero' = "none",
         UNCHANGED <<running, haveUpdate, last, emitted, claimed>>,
         \/ UNCHANGED <<maps, cache, sticky, java>>
         \/ \E m, extra : MapsOK(m) /\ Published(m, cache, last, NoList, extra)
  PROVE  Inv'
<1>1. HeldEndForgets'
  BY DEF HeldEndForgets
<1>2. CASE UNCHANGED <<maps, cache, sticky, java>>
  <2>1. Types'
    BY <1>2 DEF Inv, Types
  <2>2. Told' /\ Shown'
    BY <1>2 DEF Inv, Told, Shown, LaneSlot, Holding, Lowest
  <2> QED BY <1>1, <2>1, <2>2 DEF Inv
<1>3. ASSUME NEW m, NEW extra, MapsOK(m),
             Published(m, cache, last, NoList, extra)
      PROVE  Inv'
  <2>1. NoList \in Lists /\ cache \in CacheType
        /\ (cache.state > 0 => cache.state = emitted')
    BY DEF Lists, Inv, Types, Told
  <2>2. /\ MapsOK(maps') /\ cache' \in CacheType /\ JavaShape(java')
        /\ FrameOK(sticky') /\ Told' /\ Shown'
    BY <1>3, <2>1, PublishedTold
  <2>3. Types'
    BY <2>2 DEF Inv, Types
  <2> QED BY <1>1, <2>2, <2>3 DEF Inv
<1> QED BY <1>2, <1>3

(* The maps a maneuver leaves to publish: the index has a slot of its own. *)
StoredMan(x) ==
  LET kept == Put(maps.slots, x.index, Listed(maps))
      slot == SlotFor(maps.slots, x.index, Listed(maps))
      used == IF x.man.link = None THEN kept ELSE LookedUp(kept, x.man.link)
  IN  [maps EXCEPT !.slots = used, !.mans[slot] = x.man]

LEMMA StoredManFacts ==
  ASSUME Types, NEW x \in Maneuvers
  PROVE  /\ MapsOK(StoredMan(x)) /\ StoredMan(x).lanes = maps.lanes
         /\ StoredMan(x).slots.held =
              [maps.slots.held EXCEPT
                 ![SlotFor(maps.slots, x.index, Listed(maps))] = x.index]
<1> DEFINE slot == SlotFor(maps.slots, x.index, Listed(maps))
           kept == Put(maps.slots, x.index, Listed(maps))
           used == IF x.man.link = None THEN kept
                   ELSE LookedUp(kept, x.man.link)
<1>1. x.index \in Indices /\ x.man \in Man
  BY RgdAssumption
<1>2. maps \in Maps /\ maps.slots \in Caches /\ Own(maps.slots)
      /\ Own(maps.lanes)
  BY DEF Types, MapsOK, Maps
<1>3. kept \in Caches /\ Own(kept) /\ slot \in Slots
      /\ kept.held = [maps.slots.held EXCEPT ![slot] = x.index]
  BY <1>1, <1>2, PutFacts, SlotForFacts
<1> HIDE DEF kept, slot
<1>4. used \in Caches /\ used.held = kept.held
  BY <1>3, LookedUpFacts
<1>5. Own(used)
  BY <1>3, <1>4 DEF Own
<1>6. StoredMan(x) = [maps EXCEPT !.slots = used, !.mans[slot] = x.man]
  BY DEF StoredMan, used, kept, slot
<1> HIDE DEF used
<1>7. StoredMan(x) \in Maps /\ StoredMan(x).slots = used
      /\ StoredMan(x).lanes = maps.lanes
  <2> DEFINE one == [maps EXCEPT !.slots = used]
             mans == [maps.mans EXCEPT ![slot] = x.man]
  <2>1. one \in Maps /\ one.slots = used /\ one.lanes = maps.lanes
        /\ one.mans = maps.mans
    BY <1>2, <1>4 DEF Maps
  <2>2. mans \in [Slots -> Man]
    BY <1>1, <1>2, <1>3 DEF Maps
  <2>3. StoredMan(x) = [one EXCEPT !.mans = mans]
    BY <1>2, <1>6 DEF Maps
  <2> HIDE DEF one, mans
  <2> QED BY <2>1, <2>2, <2>3 DEF Maps
<1>8. MapsOK(StoredMan(x))
  BY <1>2, <1>5, <1>7 DEF MapsOK
<1> QED BY <1>3, <1>4, <1>7, <1>8 DEF slot

LEMMA ManeuverUpdateInv ==
  ASSUME Inv, NEW x \in Maneuvers, ManeuverUpdate(x)
  PROVE  Inv'
<1>1. zero' = "none"
      /\ UNCHANGED <<running, haveUpdate, last, emitted, claimed>>
  BY DEF ManeuverUpdate
<1>2. CASE Accepted(x.index)
  <2>1. \E extra : Published(StoredMan(x), cache, last, NoList, extra)
    BY <1>2 DEF ManeuverUpdate, StoreManeuver, StoredMan
  <2>2. MapsOK(StoredMan(x))
    BY StoredManFacts DEF Inv
  <2> QED BY <1>1, <2>1, <2>2, StoredInv
<1>3. CASE ~Accepted(x.index)
  BY <1>1, <1>3, StoredInv DEF ManeuverUpdate
<1> QED BY <1>2, <1>3

LEMMA LanePutMaps ==
  ASSUME NEW m, MapsOK(m), NEW i \in Indices, NEW inUse
  PROVE  LET n == [m EXCEPT !.lanes = Put(@, i, inUse)]
         IN  /\ MapsOK(n) /\ n.slots = m.slots
             /\ n.lanes.held =
                  [m.lanes.held EXCEPT ![SlotFor(m.lanes, i, inUse)] = i]
<1> DEFINE c == Put(m.lanes, i, inUse)
           n == [m EXCEPT !.lanes = Put(@, i, inUse)]
<1>1. m \in Maps /\ m.lanes \in Caches /\ Own(m.lanes) /\ Own(m.slots)
  BY DEF MapsOK, Maps
<1>2. c \in Caches /\ Own(c)
      /\ c.held = [m.lanes.held EXCEPT ![SlotFor(m.lanes, i, inUse)] = i]
  BY <1>1, PutFacts
<1>3. n = [m EXCEPT !.lanes = c]
  OBVIOUS
<1> HIDE DEF c
<1>4. n \in Maps /\ n.lanes = c /\ n.slots = m.slots
  BY <1>1, <1>2, <1>3 DEF Maps
<1> HIDE DEF n
<1>5. MapsOK(n)
  BY <1>1, <1>2, <1>4 DEF MapsOK
<1> QED BY <1>2, <1>4, <1>5 DEF n

LEMMA LaneIndexType ==
  ASSUME Types, NEW x \in Lanes
  PROVE  LaneIndex(x) \in Indices \cup {None}
<1>1. x.index \in Indices \cup {None}
  BY RgdAssumption
<1>2. maps.list \in Seq(Indices)
  BY DEF Types, MapsOK, Maps
<1>3. Listed(maps) # {} => maps.list[1] \in Indices
  BY <1>2 DEF Listed
<1> QED BY <1>1, <1>3 DEF LaneIndex

LEMMA LaneUpdateInv ==
  ASSUME Inv, NEW x \in Lanes, LaneUpdate(x)
  PROVE  Inv'
<1> DEFINE i == LaneIndex(x)
<1>1. zero' = "none"
      /\ UNCHANGED <<running, haveUpdate, last, emitted, claimed>>
  BY DEF LaneUpdate
<1>2. MapsOK(maps)
  BY DEF Inv, Types
<1>3. CASE x.info /\ i # None
  <2>1. i \in Indices
    BY <1>3, LaneIndexType DEF Inv
  <2>2. \E inUse, extra : Published([maps EXCEPT !.lanes = Put(@, i, inUse)],
                                    cache, last, NoList, extra)
    BY <1>3 DEF LaneUpdate, StoreLane
  <2> HIDE DEF i
  <2> QED BY <1>1, <1>2, <2>1, <2>2, LanePutMaps, StoredInv
<1>4. CASE ~(x.info /\ i # None) /\ x.index # None /\ x.index = cache.lane
  <2>1. Published([maps EXCEPT !.lanes = LookedUp(@, i)], cache, last,
                  NoList, {})
    BY <1>4 DEF LaneUpdate
  <2> HIDE DEF i
  <2> QED BY <1>1, <1>2, <2>1, LookedUpMaps, StoredInv
<1>5. CASE /\ ~(x.info /\ i # None)
           /\ ~(x.index # None /\ x.index = cache.lane)
  BY <1>1, <1>5, StoredInv DEF LaneUpdate
<1> QED BY <1>3, <1>4, <1>5

LEMMA TimerInv ==
  ASSUME Inv, GraceElapses \/ TickClaims \/ TickSends \/ Shutdown
              \/ JavaRestarts \/ UNCHANGED vars
  PROVE  Inv'
<1>1. JavaShape(NoJava) /\ NoJava.state = None
  BY DEF JavaShape, Fields, NoJava
<1>2. CASE GraceElapses
  <2>1. zero = "running" /\ zero' = "due"
        /\ UNCHANGED <<running, haveUpdate, last, emitted, claimed, maps,
                       cache, sticky, java>>
    BY <1>2 DEF GraceElapses
  <2>2. Types' /\ Told'
    BY <2>1 DEF Inv, Types, Told
  <2>3. HeldEndForgets'
    BY <2>1 DEF Inv, HeldEndForgets
  <2>4. Shown'
    BY <2>1 DEF Inv, Shown, LaneSlot, Holding, Lowest
  <2> QED BY <2>2, <2>3, <2>4 DEF Inv
<1>3. CASE TickClaims
  <2>1. zero' = "none" /\ emitted' = 0 /\ claimed' = TRUE /\ zero = "due"
        /\ UNCHANGED <<running, haveUpdate, last, maps, cache, sticky, java>>
    BY <1>3 DEF TickClaims
  <2>2. cache.state = None
    BY <2>1 DEF Inv, HeldEndForgets
  <2>3. Types'
    BY <2>1 DEF Inv, Types, States
  <2>4. Told' /\ HeldEndForgets'
    BY <2>1, <2>2 DEF Told, HeldEndForgets, None
  <2>5. Shown'
    BY <2>1 DEF Inv, Shown, LaneSlot, Holding, Lowest
  <2> QED BY <2>3, <2>4, <2>5 DEF Inv
<1>4. CASE TickSends
  <2>1. claimed' = FALSE /\ sticky' = BareFrame("end")
        /\ java' = Parsed(java, BareFrame("end"))
        /\ UNCHANGED <<running, haveUpdate, last, emitted, zero, maps, cache>>
    BY <1>4 DEF TickSends, Sent
  <2>2. FrameOK(BareFrame("end")) /\ BareFrame("end").kind = "end"
        /\ BareFrame("end").keys.state = 0
    BY BareFrames
  <2>3. JavaShape(java') /\ java'.state = 0
    BY <2>1, <2>2, ParsedFacts DEF Inv, Types, None
  <2>4. Types'
    BY <2>1, <2>2, <2>3 DEF Inv, Types
  <2>5. Told' /\ HeldEndForgets' /\ Shown'
    BY <2>1, <2>2, <2>3 DEF Inv, Told, HeldEndForgets, Shown
  <2> QED BY <2>4, <2>5 DEF Inv
<1>5. CASE Shutdown
  <2>1. running' = FALSE /\ haveUpdate' = FALSE /\ last' = 0 /\ emitted' = 0
        /\ zero' = "none" /\ maps' = FreshMaps /\ cache' = NoCache
        /\ sticky' = BareFrame("clear")
        /\ java' = Parsed(java, BareFrame("clear")) /\ claimed' = claimed
    BY <1>5 DEF Shutdown, Sent
  <2>2. FrameOK(BareFrame("clear")) /\ BareFrame("clear").kind = "clear"
        /\ BareFrame("clear").keys.state = 0 /\ NoCache \in CacheType
    BY BareFrames
  <2>3. java' = NoJava
    BY <2>1, <2>2 DEF Parsed
  <2>4. Types'
    BY <1>1, <2>1, <2>2, <2>3, FreshOK DEF Inv, Types, States
  <2>5. NoCache.state = None /\ NoCache.lane = None
    BY DEF NoCache
  <2>6. Told' /\ HeldEndForgets' /\ Shown'
    BY <1>1, <2>1, <2>2, <2>3, <2>5 DEF Told, HeldEndForgets, Shown, None
  <2> QED BY <2>4, <2>6 DEF Inv
<1>6. CASE JavaRestarts
  <2>1. java' = Parsed(NoJava, sticky)
        /\ UNCHANGED <<running, haveUpdate, last, emitted, zero, claimed, maps,
                       cache, sticky>>
    BY <1>6 DEF JavaRestarts
  <2>2. FrameOK(sticky)
    BY DEF Inv, Types
  <2>3. /\ JavaShape(java')
        /\ sticky.kind = "clear" => java' = NoJava
        /\ sticky.kind # "clear" /\ sticky.keys.state # None =>
             java'.state = sticky.keys.state
        /\ sticky.kind # "clear" /\ sticky.keys.state = None =>
             java'.state \in {None, 0}
        /\ sticky.kind = "snapshot" => java'.lanes = sticky.lanes
        /\ sticky.kind = "snapshot" /\ sticky.keys.lane # None =>
             java'.lane = sticky.keys.lane /\ java'.laneSlot = sticky.laneSlot
    BY <1>1, <2>1, <2>2, ParsedFacts
  <2>4. Types' /\ HeldEndForgets'
    BY <2>1, <2>3 DEF Inv, Types, HeldEndForgets
  <2>5. ~claimed => (java'.state > 0 => java'.state = emitted)
    BY <1>1, <2>3 DEF Inv, Told, None
  <2>6. Told'
    BY <2>1, <2>5 DEF Inv, Told
  <2>7. LaneSlot(maps', cache'.lane) = LaneSlot(maps, cache.lane)
    BY <2>1
  <2>8. Shown'
    BY <2>1, <2>3, <2>7 DEF Inv, Shown
  <2> QED BY <2>4, <2>6, <2>8 DEF Inv
<1>7. CASE UNCHANGED vars
  <2>1. Types' /\ HeldEndForgets' /\ Told'
    BY <1>7 DEF vars, Inv, Types, HeldEndForgets, Told
  <2>2. Shown'
    BY <1>7 DEF vars, Inv, Shown, LaneSlot, Holding, Lowest
  <2> QED BY <2>1, <2>2 DEF Inv
<1> QED BY <1>2, <1>3, <1>4, <1>5, <1>6, <1>7

LEMMA NextInv == Inv /\ [Next]_vars => Inv'
<1> SUFFICES ASSUME Inv, [Next]_vars PROVE Inv'
  OBVIOUS
<1>1. ASSUME NEW u \in Updates,
             HoldEnd(u) \/ SuppressUpdate(u) \/ RouteUpdate(u)
      PROVE  Inv'
  <2>1. CASE SuppressUpdate(u)
    <3>1. haveUpdate' = TRUE
          /\ UNCHANGED <<running, last, emitted, zero, claimed, maps, cache,
                         sticky, java>>
      BY <2>1 DEF SuppressUpdate
    <3>2. Types' /\ HeldEndForgets' /\ Told'
      BY <3>1 DEF Inv, Types, HeldEndForgets, Told
    <3>3. Shown'
      BY <3>1 DEF Inv, Shown, LaneSlot, Holding, Lowest
    <3> QED BY <3>2, <3>3 DEF Inv
  <2> QED BY <1>1, <2>1, HoldEndInv, RouteUpdateInv
<1> QED BY <1>1, ManeuverUpdateInv, LaneUpdateInv, TimerInv DEF Next, Phone

-----------------------------------------------------------------------------
(* The list Java shows: what the last snapshot said of it still holds, and *)
(* Java has taken it over.                                                 *)

Presented ==
  sticky.kind = "snapshot" /\ maps.listed =>
    /\ Ordered(sticky, maps)
    /\ java.ordered /\ java.order = Order(maps)
    /\ \A n \in DOMAIN Order(maps) :
         java.types[Order(maps)[n]] = maps.mans[Order(maps)[n]].type

(* What decides the order is the same.                                     *)
SameList(m, n) ==
  m.listed => /\ n.listed /\ n.list = m.list
              /\ n.slots = m.slots /\ n.mans = m.mans

LEMMA OrderedKept ==
  ASSUME NEW f, NEW m, NEW n, Ordered(f, n), SameList(m, n), m.listed
  PROVE  Ordered(f, m) /\ Order(m) = Order(n)
<1>1. Order(m) = Order(n)
  BY SameOrder DEF SameList
<1> QED BY <1>1 DEF Ordered, SameList

(* Reading a frame that names the list in order presents it.               *)
LEMMA ParsedPresents ==
  ASSUME NEW j, JavaShape(j), NEW f, FrameOK(f), f.kind = "snapshot",
         NEW m, Ordered(f, m), m.listed
  PROVE  LET k == Parsed(j, f)
         IN  /\ k.ordered /\ k.order = Order(m)
             /\ \A n \in DOMAIN Order(m) :
                  k.types[Order(m)[n]] = m.mans[Order(m)[n]].type
<1> DEFINE k == Parsed(j, f)
<1>1. f.listed /\ f.kind # "clear"
  BY DEF Ordered
<1>2. k.ordered /\ k.order = f.order
      /\ \A s \in Slots : f.types[s] # None => k.types[s] = f.types[s]
  BY <1>1, ParsedFacts
<1> HIDE DEF k
<1>3. \A n \in DOMAIN Order(m) :
        k.types[Order(m)[n]] = m.mans[Order(m)[n]].type
  BY <1>2 DEF Ordered
<1> QED BY <1>2, <1>3 DEF k, Ordered

LEMMA PublishedPresents ==
  ASSUME Types, Presented, NEW m, MapsOK(m), NEW c \in CacheType, NEW said,
         NEW list \in Lists, NEW extra, Published(m, c, said, list, extra),
         extra = {} => SameList(m, maps)
  PROVE  Presented'
<1> DEFINE snap == Snapshot(m, c, said, list, extra)
<1>1. CASE Silent(m, c, extra)
  <2>1. maps' = m /\ UNCHANGED <<sticky, java>> /\ SameList(m, maps)
    BY <1>1 DEF Published, Silent
  <2> SUFFICES ASSUME sticky.kind = "snapshot", m.listed PROVE Presented'
    BY <2>1 DEF Presented
  <2>2. maps.listed /\ maps.mans = m.mans
    BY <2>1 DEF SameList
  <2>3. Ordered(sticky, m) /\ Order(m) = Order(maps)
    BY <2>1, <2>2, OrderedKept DEF Presented
  <2> QED BY <2>1, <2>2, <2>3 DEF Presented
<1>2. CASE ~Silent(m, c, extra)
  <2>1. maps' = snap.maps /\ sticky' = snap.frame
        /\ java' = Parsed(java, snap.frame)
    BY <1>2 DEF Published, Sent
  <2>2. /\ snap.frame.kind = "snapshot" /\ snap.frame.keys = c
        /\ snap.frame.laneSlot = LaneSlot(snap.maps, c.lane)
        /\ Ordered(snap.frame, snap.maps)
    BY SnapshotFacts
  <2> HIDE DEF snap
  <2>3. FrameOK(snap.frame)
    BY <2>2, LaneSlotType DEF FrameOK
  <2> QED BY <2>1, <2>2, <2>3, ParsedPresents DEF Presented, Types
<1> QED BY <1>1, <1>2

LEMMA PresentedNext == Inv /\ Presented /\ [Next]_vars => Presented'
<1> SUFFICES ASSUME Inv, Presented, [Next]_vars PROVE Presented'
  OBVIOUS
<1>1. MapsOK(maps) /\ cache \in CacheType /\ NoList \in Lists
      /\ ~FreshMaps.listed
  BY DEF Inv, Types, Lists, FreshMaps
<1>2. ASSUME NEW u \in Updates, HoldEnd(u) PROVE Presented'
  <2>1. maps' \in {FreshMaps, maps} /\ UNCHANGED <<sticky, java>>
    BY <1>2 DEF HoldEnd
  <2>2. CASE maps' = maps
    BY <2>1, <2>2 DEF Presented
  <2>3. CASE maps' = FreshMaps
    BY <1>1, <2>3 DEF Presented
  <2> QED BY <2>1, <2>2, <2>3
<1>3. ASSUME NEW u \in Updates, RouteUpdate(u) PROVE Presented'
  <2> DEFINE said == IF u.state = None THEN last ELSE u.state
             cleared == u.state = 0 /\ HardClear(u)
             m == IF cleared THEN FreshMaps ELSE maps
             c == IF cleared THEN NoCache ELSE cache
             looked == IF u.lane = None THEN m
                       ELSE [m EXCEPT !.lanes = LookedUp(@, u.lane)]
             d == Merged(c, u)
  <2>1. Published(looked, d, said, u.list, {})
    BY <1>3 DEF RouteUpdate
  <2>2. MapsOK(m) /\ c \in CacheType /\ SameList(m, maps)
    BY <1>1, FreshOK, BareFrames DEF SameList
  <2>3. d \in CacheType /\ u.list \in Lists
    <3> HIDE DEF c
    <3> QED BY <2>2, MergedFacts, RgdAssumption
  <2> HIDE DEF m, d, said
  <2>4. MapsOK(looked) /\ SameList(looked, maps)
    <3>1. m \in Maps
      BY <2>2 DEF MapsOK
    <3>2. looked.listed = m.listed /\ looked.list = m.list
          /\ looked.slots = m.slots /\ looked.mans = m.mans
      BY <3>1 DEF Maps
    <3> QED BY <2>2, <3>2, LookedUpMaps DEF SameList
  <2> HIDE DEF looked
  <2> QED BY <2>1, <2>3, <2>4, PublishedPresents DEF Inv
<1>4. ASSUME NEW x \in Maneuvers, ManeuverUpdate(x) PROVE Presented'
  <2>1. CASE Accepted(x.index)
    <3>1. PICK s : Published(StoredMan(x), cache, last, NoList, {s})
      BY <1>4, <2>1 DEF ManeuverUpdate, StoreManeuver, StoredMan
    <3>2. MapsOK(StoredMan(x))
      BY StoredManFacts DEF Inv
    <3> QED BY <1>1, <3>1, <3>2, PublishedPresents DEF Inv
  <2>2. CASE ~Accepted(x.index)
    BY <1>4, <2>2 DEF ManeuverUpdate, Presented
  <2> QED BY <2>1, <2>2
<1>5. ASSUME NEW x \in Lanes, LaneUpdate(x) PROVE Presented'
  <2> DEFINE i == LaneIndex(x)
  <2>1. ASSUME NEW lanes, NEW extra, MapsOK([maps EXCEPT !.lanes = lanes]),
               Published([maps EXCEPT !.lanes = lanes], cache, last, NoList,
                         extra)
        PROVE  Presented'
    <3> DEFINE n == [maps EXCEPT !.lanes = lanes]
    <3>1. SameList(n, maps)
      BY <1>1 DEF MapsOK, Maps, SameList
    <3> HIDE DEF n
    <3> QED BY <1>1, <2>1, <3>1, PublishedPresents DEF Inv, n
  <2>2. CASE x.info /\ i # None
    <3>1. i \in Indices
      BY <2>2, LaneIndexType DEF Inv
    <3>2. PICK inUse, extra :
            Published([maps EXCEPT !.lanes = Put(@, i, inUse)], cache, last,
                      NoList, extra)
      BY <1>5, <2>2 DEF LaneUpdate, StoreLane
    <3> HIDE DEF i
    <3>3. MapsOK([maps EXCEPT !.lanes = Put(@, i, inUse)])
      BY <1>1, <3>1, LanePutMaps
    <3> QED BY <2>1, <3>2, <3>3
  <2>3. CASE ~(x.info /\ i # None) /\ x.index # None /\ x.index = cache.lane
    <3>1. Published([maps EXCEPT !.lanes = LookedUp(@, i)], cache, last,
                    NoList, {})
      BY <1>5, <2>3 DEF LaneUpdate
    <3> HIDE DEF i
    <3>2. MapsOK([maps EXCEPT !.lanes = LookedUp(@, i)])
      BY <1>1, LookedUpMaps
    <3> QED BY <2>1, <3>1, <3>2
  <2>4. CASE /\ ~(x.info /\ i # None)
             /\ ~(x.index # None /\ x.index = cache.lane)
    BY <1>5, <2>4 DEF LaneUpdate, Presented
  <2> QED BY <2>2, <2>3, <2>4
<1>6. ASSUME TickSends \/ Shutdown PROVE Presented'
  BY <1>6, BareFrames DEF TickSends, Shutdown, Sent, Presented
<1>7. ASSUME JavaRestarts PROVE Presented'
  <2>1. java' = Parsed(NoJava, sticky) /\ UNCHANGED <<maps, sticky>>
    BY <1>7 DEF JavaRestarts
  <2>2. JavaShape(NoJava)
    BY DEF JavaShape, Fields, NoJava
  <2> QED BY <2>1, <2>2, ParsedPresents DEF Presented, Inv, Types
<1>8. ASSUME \/ GraceElapses \/ TickClaims \/ UNCHANGED vars
             \/ \E u \in Updates : SuppressUpdate(u)
      PROVE  Presented'
  BY <1>8 DEF GraceElapses, TickClaims, vars, SuppressUpdate, Presented
<1> QED BY <1>2, <1>3, <1>4, <1>5, <1>6, <1>7, <1>8 DEF Next, Phone

-----------------------------------------------------------------------------
(* The theorems.                                                           *)

LEMMA Invariance == Spec => []Inv
<1> QED BY InitInv, NextInv, PTL DEF Spec

(* The state keeps its types: the caches hold indices of the phone, the    *)
(* slot Java is given is one of them.                                      *)
THEOREM TypeCorrect == Spec => []TypeOK
<1>1. Inv => TypeOK
  BY DEF Inv, Types, TypeOK, MapsOK, CacheType, JavaShape
<1> QED BY <1>1, Invariance, PTL

(* Java shows no route that the hook has told is over, whatever the timer, *)
(* the phone and a restart of Java do in between (rgd_zero_tick).          *)
THEOREM NoGhost == Spec => []NoGhostRoute
<1>1. Inv => NoGhostRoute
  BY DEF Inv, Told, NoGhostRoute
<1> QED BY <1>1, Invariance, PTL

(* A held back end has wiped the merged update, and one that follows a     *)
(* reroute is held for good (rgd_begin_zero_debounce).                     *)
THEOREM HeldEnd == Spec => []HeldEndForgets
<1>1. Inv => HeldEndForgets
  BY DEF Inv
<1> QED BY <1>1, Invariance, PTL

(* Java finds the lanes of the event the phone shows, however many slots   *)
(* there are (rgd_bus_write_snapshot).                                     *)
THEOREM LanesFound == Spec => []LanesAreFound
<1>1. Inv => LanesAreFound
  <2> SUFFICES ASSUME Inv, sticky.kind = "snapshot", cache.lane # None,
                      Holding(maps.lanes, cache.lane) # {}
               PROVE  /\ java.lane = cache.lane /\ java.laneSlot \in Slots
                      /\ java.lanes[java.laneSlot] = java.lane
    BY DEF LanesAreFound
  <2>1. java.lane = cache.lane /\ java.lanes = maps.lanes.held
        /\ java.laneSlot = LaneSlot(maps, cache.lane)
    BY DEF Inv, Shown
  <2>2. LaneSlot(maps, cache.lane) \in Holding(maps.lanes, cache.lane)
    BY LowestIsThere DEF LaneSlot, Holding
  <2> QED BY <2>1, <2>2 DEF Holding
<1> QED BY <1>1, Invariance, PTL

(* While the last frame on the bus is a snapshot, Java shows the listed    *)
(* maneuvers in the order of the list, each in its slot and with the type  *)
(* last stored for it, for any number of slots and any length of the list  *)
(* (write_bus_snapshot_from_cache and RouteGuidance.parse).                *)
THEOREM OrderFollowsList == Spec => []OrderIsTheList
<1>1. Init => Presented
  BY BareFrames DEF Init, Presented
<1>2. Spec => []Presented
  BY <1>1, PresentedNext, Invariance, PTL DEF Spec
<1>3. Presented => OrderIsTheList
  BY DEF Presented, OrderIsTheList
<1> QED BY <1>2, <1>3, PTL

(* With all slots holding listed indices the list is not shorter.          *)
LEMMA FullOfListed ==
  ASSUME Types, \A s \in Slots : maps.slots.held[s] \in Listed(maps)
  PROVE  ~(Cardinality(Listed(maps)) < SlotCount)
<1>1. maps.list \in Seq(Indices) /\ Own(maps.slots)
      /\ maps.slots.held \in [Slots -> Indices \cup {None}]
  BY DEF Types, MapsOK, Maps, Caches
<1>2. IsFiniteSet(Listed(maps)) /\ Listed(maps) \in SUBSET Indices
  <2>1. CASE maps.listed
    <3>1. DOMAIN maps.list = 1..Len(maps.list) /\ Len(maps.list) \in Nat
      BY <1>1
    <3>2. IsFiniteSet(DOMAIN maps.list)
      BY <3>1, FS_Interval
    <3> DEFINE f == [k \in DOMAIN maps.list |-> maps.list[k]]
    <3>3. f \in Surjection(DOMAIN maps.list, Listed(maps))
      BY <2>1 DEF Surjection, Listed
    <3>4. \A k \in DOMAIN maps.list : maps.list[k] \in Indices
      BY <1>1
    <3> QED BY <2>1, <3>2, <3>3, <3>4, FS_Surjection DEF Listed
  <2>2. CASE ~maps.listed
    BY <2>2, FS_EmptySet DEF Listed
  <2> QED BY <2>1, <2>2
<1>3. maps.slots.held \in Injection(Slots, Listed(maps))
  <2>1. \A s, t \in Slots :
          maps.slots.held[s] = maps.slots.held[t] => s = t
    BY <1>1, <1>2, SlotFacts DEF Own
  <2> QED BY <1>1, <2>1 DEF Injection, IsInjective
<1>4. Cardinality(Slots) <= Cardinality(Listed(maps))
  BY <1>2, <1>3, SlotFacts, FS_Injection
<1>5. Cardinality(Listed(maps)) \in Nat
  BY <1>2, FS_CardinalityType
<1> QED BY <1>4, <1>5, SlotFacts

(* Only a route end, a shutdown or a maneuver changes the maneuvers.       *)
LEMMA SlotsChange ==
  ASSUME Inv, [Next]_vars
  PROVE  \/ maps'.slots = maps.slots
         \/ Listed(maps') = {} \/ HardCleared
         \/ \E x \in Maneuvers : maps'.slots = StoredMan(x).slots
<1>1. ASSUME NEW u \in Updates, HoldEnd(u)
      PROVE  maps'.slots = maps.slots \/ Listed(maps') = {}
  BY <1>1, FreshOK DEF HoldEnd
<1>2. ASSUME NEW u \in Updates, RouteUpdate(u)
      PROVE  maps'.slots = maps.slots \/ HardCleared
  <2> DEFINE said == IF u.state = None THEN last ELSE u.state
             cleared == u.state = 0 /\ HardClear(u)
             m == IF cleared THEN FreshMaps ELSE maps
             c == IF cleared THEN NoCache ELSE cache
             looked == IF u.lane = None THEN m
                       ELSE [m EXCEPT !.lanes = LookedUp(@, u.lane)]
  <2>1. last' = said /\ Published(looked, Merged(c, u), said, u.list, {})
    BY <1>2 DEF RouteUpdate
  <2>2. MapsOK(m) /\ c \in CacheType
    BY FreshOK, BareFrames DEF Inv, Types
  <2>3. CASE cleared
    <3>1. last' = 0 /\ u.source = 0
      BY <2>1, <2>3 DEF HardClear, None
    <3>2. cache'.source = 0
      BY <2>1, <2>2, <3>1, MergedFacts DEF Published, None
    <3> QED BY <3>1, <3>2 DEF HardCleared
  <2>4. CASE ~cleared
    <3>1. m = maps
      BY <2>4
    <3> HIDE DEF m
    <3>2. MapsOK(looked) /\ Keeps(m, looked, None)
      BY <2>2, LookedUpMaps DEF Keeps
    <3>3. u.list \in Lists
      BY RgdAssumption
    <3>4. Merged(c, u) \in CacheType
      BY <2>2, MergedFacts
    <3> HIDE DEF looked, said, c
    <3>5. \E lane : Keeps(looked, maps', lane)
      BY <2>1, <3>2, <3>3, <3>4, PublishedFacts DEF Inv
    <3> QED BY <3>1, <3>2, <3>5 DEF Keeps
  <2> QED BY <2>3, <2>4
<1>3. NoList \in Lists /\ cache \in CacheType /\ MapsOK(maps)
  BY DEF Lists, Inv, Types
<1>4. ASSUME NEW x \in Maneuvers, ManeuverUpdate(x)
      PROVE  \/ maps'.slots = maps.slots \/ maps'.slots = StoredMan(x).slots
  <2>1. CASE Accepted(x.index)
    <3>1. \E extra : Published(StoredMan(x), cache, last, NoList, extra)
      BY <1>4, <2>1 DEF ManeuverUpdate, StoreManeuver, StoredMan
    <3>2. MapsOK(StoredMan(x))
      BY StoredManFacts DEF Inv
    <3>3. Keeps(StoredMan(x), maps', cache.lane)
      BY <1>3, <3>1, <3>2, PublishedFacts DEF Inv
    <3> QED BY <3>3 DEF Keeps
  <2> QED BY <1>4, <2>1 DEF ManeuverUpdate
<1>5. ASSUME NEW x \in Lanes, LaneUpdate(x)
      PROVE  maps'.slots = maps.slots
  <2> DEFINE i == LaneIndex(x)
  <2>1. CASE x.info /\ i # None
    <3>1. i \in Indices
      BY <2>1, LaneIndexType DEF Inv
    <3>2. PICK inUse, extra :
            Published([maps EXCEPT !.lanes = Put(@, i, inUse)], cache, last,
                      NoList, extra)
      BY <1>5, <2>1 DEF LaneUpdate, StoreLane
    <3> HIDE DEF i
    <3> DEFINE n == [maps EXCEPT !.lanes = Put(@, i, inUse)]
    <3>3. MapsOK(n) /\ n.slots = maps.slots
      BY ZenonT(40), <1>3, <3>1, LanePutMaps
    <3> HIDE DEF n
    <3>4. Keeps(n, maps', cache.lane)
      BY <1>3, <3>2, <3>3, PublishedFacts DEF Inv, n
    <3> QED BY <3>3, <3>4 DEF Keeps
  <2>2. CASE ~(x.info /\ i # None) /\ x.index # None /\ x.index = cache.lane
    <3> DEFINE n == [maps EXCEPT !.lanes = LookedUp(@, i)]
    <3>1. Published(n, cache, last, NoList, {})
      BY <1>5, <2>2 DEF LaneUpdate
    <3> HIDE DEF i
    <3>2. MapsOK(n) /\ Keeps(maps, n, None)
      BY <1>3, LookedUpMaps
    <3> HIDE DEF n
    <3>3. Keeps(n, maps', cache.lane)
      BY <1>3, <3>1, <3>2, PublishedFacts DEF Inv
    <3> QED BY <3>2, <3>3 DEF Keeps
  <2>3. CASE /\ ~(x.info /\ i # None)
             /\ ~(x.index # None /\ x.index = cache.lane)
    BY <1>5, <2>3 DEF LaneUpdate
  <2> QED BY <2>1, <2>2, <2>3
<1>6. ASSUME Shutdown PROVE Listed(maps') = {}
  BY <1>6, FreshOK DEF Shutdown
<1>7. ASSUME \/ GraceElapses \/ TickClaims \/ TickSends \/ JavaRestarts
             \/ UNCHANGED vars \/ \E u \in Updates : SuppressUpdate(u)
      PROVE  maps' = maps
  BY <1>7 DEF GraceElapses, TickClaims, TickSends, JavaRestarts, vars,
              SuppressUpdate
<1> QED BY <1>1, <1>2, <1>4, <1>5, <1>6, <1>7 DEF Next, Phone

(* No maneuver takes the slot of a listed one while the list is shorter    *)
(* than the cache (rgd_maneuver_slot_for_iap_index).                       *)
THEOREM ListedKept == Spec => ListedKeepsItsSlot
<1> DEFINE Kept ==
      \A i \in Listed(maps) \cap Listed(maps') :
        Cardinality(Listed(maps)) < SlotCount /\ ~HardCleared =>
          Holding(maps.slots, i) \subseteq Holding(maps'.slots, i)
<1>1. Inv /\ [Next]_vars => Kept
  <2> SUFFICES ASSUME Inv, [Next]_vars, NEW i \in Listed(maps),
                      i \in Listed(maps'), ~HardCleared,
                      Cardinality(Listed(maps)) < SlotCount
               PROVE  Holding(maps.slots, i) \subseteq Holding(maps'.slots, i)
    OBVIOUS
  <2>1. CASE maps'.slots = maps.slots
    BY <2>1 DEF Holding
  <2>2. ASSUME NEW x \in Maneuvers, maps'.slots = StoredMan(x).slots
        PROVE  Holding(maps.slots, i) \subseteq Holding(maps'.slots, i)
    <3> DEFINE s == SlotFor(maps.slots, x.index, Listed(maps))
    <3>1. x.index \in Indices /\ maps.slots \in Caches
      BY RgdAssumption DEF Inv, Types, MapsOK, Maps
    <3>2. maps'.slots.held = [maps.slots.held EXCEPT ![s] = x.index]
      BY <2>2, StoredManFacts DEF Inv
    <3>3. ~ \A t \in Slots : maps.slots.held[t] \in Listed(maps)
      BY FullOfListed DEF Inv
    <3>4. s \in Slots
          /\ \/ maps.slots.held[s] \in {x.index, None}
             \/ maps.slots.held[s] \notin Listed(maps)
      BY <3>1, <3>3, SlotForFacts
    <3>5. i # None
      <4>1. maps.list \in Seq(Indices)
        BY DEF Inv, Types, MapsOK, Maps
      <4>2. i \in Indices
        BY <4>1 DEF Listed
      <4> QED BY <4>2, SlotFacts
    <3> HIDE DEF s
    <3> QED BY <3>1, <3>2, <3>4, <3>5 DEF Holding, Caches
  <2> QED BY <2>1, <2>2, SlotsChange
<1>2. Kept => [Kept]_vars
  OBVIOUS
<1> QED BY <1>1, Invariance, PTL DEF Spec, ListedKeepsItsSlot

(* The lanes of the event that is shown are kept through any step, unless  *)
(* every slot is in use (rgd_lane_slot_for_iap_index and its pruning).     *)
THEOREM LanesKept == Spec => ShownLanesAreKept
<1> DEFINE Full == \A s \in Slots :
                     maps.lanes.held[s] \in LanesInUse(maps, cache.lane) \ {None}
           Same == cache.lane # None /\ cache'.lane = cache.lane /\ ~HardCleared
           Kept == Holding(maps.lanes, cache.lane)
                     \subseteq Holding(maps'.lanes, cache.lane)
           Goal == Same /\ ~Full => Kept
<1>1. Inv /\ [Next]_vars => Goal
  <2> SUFFICES ASSUME Inv, [Next]_vars, Same, ~Full PROVE Kept
    OBVIOUS
  <2> HIDE DEF Full
  <2>1. MapsOK(maps) /\ cache \in CacheType /\ NoList \in Lists
    BY DEF Inv, Types, Lists
  <2>2. ASSUME NEW m, MapsOK(m), NEW c \in CacheType, NEW said,
               NEW list \in Lists, NEW extra,
               Published(m, c, said, list, extra),
               Holding(maps.lanes, cache.lane) \subseteq Holding(m.lanes, cache.lane)
        PROVE  Kept
    <3>1. Keeps(m, maps', c.lane) /\ cache' = c
      BY <2>2, PublishedFacts DEF Inv
    <3> QED BY <2>2, <3>1 DEF Keeps
  <2>3. ASSUME NEW u \in Updates, RouteUpdate(u) PROVE Kept
    <3> DEFINE said == IF u.state = None THEN last ELSE u.state
               looked == IF u.lane = None THEN maps
                         ELSE [maps EXCEPT !.lanes = LookedUp(@, u.lane)]
               d == Merged(cache, u)
    <3>1. ~(u.state = 0 /\ HardClear(u))
      <4> SUFFICES ASSUME u.state = 0, u.source = 0 PROVE FALSE
        BY DEF HardClear
      <4>1. last' = 0 /\ cache' = Merged(NoCache, u)
        BY <2>3 DEF RouteUpdate, Published, HardClear, None
      <4>2. cache'.source = 0
        BY <4>1, BareFrames, MergedFacts DEF None
      <4> QED BY <4>1, <4>2 DEF HardCleared
    <3>2. Published(looked, d, said, u.list, {})
      BY <2>3, <3>1 DEF RouteUpdate
    <3>3. MapsOK(looked) /\ Keeps(maps, looked, cache.lane)
      <4>1. Keeps(maps, maps, cache.lane)
        BY DEF Keeps
      <4> QED BY <2>1, <4>1, LookedUpMaps
    <3>4. d \in CacheType /\ u.list \in Lists
      BY <2>1, MergedFacts, RgdAssumption
    <3> HIDE DEF looked, d, said
    <3> QED BY <2>2, <3>2, <3>3, <3>4 DEF Keeps
  <2>4. ASSUME NEW x \in Maneuvers, ManeuverUpdate(x) PROVE Kept
    <3>1. CASE Accepted(x.index)
      <4>1. \E extra : Published(StoredMan(x), cache, last, NoList, extra)
        BY <2>4, <3>1 DEF ManeuverUpdate, StoreManeuver, StoredMan
      <4>2. MapsOK(StoredMan(x)) /\ StoredMan(x).lanes = maps.lanes
        BY StoredManFacts DEF Inv
      <4> QED BY <2>1, <2>2, <4>1, <4>2
    <3> QED BY <2>4, <3>1 DEF ManeuverUpdate
  <2>5. ASSUME NEW x \in Lanes, LaneUpdate(x) PROVE Kept
    <3> DEFINE i == LaneIndex(x)
    <3>1. CASE x.info /\ i # None
      <4> DEFINE inUse == LanesInUse(maps, cache.lane)
                 n == [maps EXCEPT !.lanes = Put(@, i, inUse)]
                 s == SlotFor(maps.lanes, i, inUse)
      <4>1. i \in Indices
        BY <3>1, LaneIndexType DEF Inv
      <4>2. PICK extra : Published(n, cache, last, NoList, extra)
        BY <2>5, <3>1 DEF LaneUpdate, StoreLane
      <4>3. maps.lanes \in Caches
        BY <2>1 DEF MapsOK, Maps
      <4>4. cache.lane \in inUse
        BY DEF LanesInUse
      <4> HIDE DEF i
      <4>5. s \in Slots
            /\ \/ maps.lanes.held[s] \in {i, None}
               \/ maps.lanes.held[s] \notin inUse
               \/ /\ Holding(maps.lanes, None) = {}
                  /\ \A t \in Slots : maps.lanes.held[t] \in inUse
        BY <4>1, <4>3, SlotForFacts
      <4>6. ~(/\ Holding(maps.lanes, None) = {}
              /\ \A t \in Slots : maps.lanes.held[t] \in inUse)
        BY DEF Full, Holding
      <4>7. MapsOK(n) /\ n.lanes.held = [maps.lanes.held EXCEPT ![s] = i]
        BY <2>1, <4>1, LanePutMaps
      <4> HIDE DEF n, s, inUse
      <4>8. Holding(maps.lanes, cache.lane) \subseteq Holding(n.lanes, cache.lane)
        BY <4>3, <4>4, <4>5, <4>6, <4>7 DEF Holding, Caches
      <4> QED BY <2>1, <2>2, <4>2, <4>7, <4>8
    <3>2. CASE ~(x.info /\ i # None) /\ x.index # None /\ x.index = cache.lane
      <4> DEFINE n == [maps EXCEPT !.lanes = LookedUp(@, i)]
      <4>1. Published(n, cache, last, NoList, {})
        BY <2>5, <3>2 DEF LaneUpdate
      <4> HIDE DEF i
      <4>2. MapsOK(n) /\ Keeps(maps, n, cache.lane)
        BY <2>1, LookedUpMaps
      <4> HIDE DEF n
      <4> QED BY <2>1, <2>2, <4>1, <4>2 DEF Keeps
    <3>3. CASE /\ ~(x.info /\ i # None)
               /\ ~(x.index # None /\ x.index = cache.lane)
      BY <2>5, <3>3 DEF LaneUpdate
    <3> QED BY <3>1, <3>2, <3>3
  <2>6. ASSUME Shutdown \/ \E u \in Updates : HoldEnd(u) PROVE Kept
    BY <2>6 DEF Shutdown, HoldEnd, NoCache
  <2>7. ASSUME \/ GraceElapses \/ TickClaims \/ TickSends \/ JavaRestarts
               \/ UNCHANGED vars \/ \E u \in Updates : SuppressUpdate(u)
        PROVE  Kept
    <3>1. maps' = maps
      BY <2>7 DEF GraceElapses, TickClaims, TickSends, JavaRestarts, vars,
                  SuppressUpdate
    <3> QED BY <3>1
  <2> HIDE DEF Kept, Same
  <2> QED BY <2>3, <2>4, <2>5, <2>6, <2>7 DEF Next, Phone
<1>2. Goal => [Goal]_vars
  OBVIOUS
<1> QED BY <1>1, Invariance, PTL DEF Spec, ShownLanesAreKept

(* What the hook renumbers and Java remembers agrees, for any number of    *)
(* slots: the order and the lanes stand where Java looks for them.         *)
THEOREM SlotsInAgreement == Spec => []SlotsAgree
BY OrderFollowsList, LanesFound, PTL DEF SlotsAgree

(* A route that has ended stays ended, for Java and for the hook.          *)
THEOREM EndsRemain == Spec => []EndsStay
BY NoGhost, HeldEnd, PTL DEF EndsStay

(* A full cache takes neither the slot of a maneuver that is still listed  *)
(* nor the lanes that are on show.                                         *)
THEOREM SlotsKept == Spec => GuidanceKeepsItsSlots
BY ListedKept, LanesKept DEF GuidanceKeepsItsSlots
=============================================================================
