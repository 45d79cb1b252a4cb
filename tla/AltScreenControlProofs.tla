----------------------- MODULE AltScreenControlProofs -----------------------
(***************************************************************************)
(* Theorems about the display control, for any set of receivers, any       *)
(* number of slots and any bound on the environment.                       *)
(***************************************************************************)
EXTENDS AltScreenControl, TLAPS, WellFoundedInduction

(* A scan that stops at the first slot of a set stops somewhere.           *)
LEMMA SmallestOfNat ==
  ASSUME NEW T \in SUBSET Nat, T # {}
  PROVE  \E x \in T : \A y \in T : x <= y
<1> DEFINE R == {ss \in Nat \X Nat : ss[1] < ss[2]}
<1>1. R = OpToRel(<, Nat)
  BY DEF OpToRel
<1>2. IsWellFoundedOn(R, Nat)
  BY <1>1, NatLessThanWellFounded, Zenon
<1>3. \A x, y \in Nat : <<y, x>> \notin R => x <= y
  OBVIOUS
<1> HIDE DEF R
<1>4. \E x \in T : \A y \in T : <<y, x>> \notin R
  BY <1>2, WFMin
<1> QED BY <1>3, <1>4

LEMMA FirstIsSmallest ==
  ASSUME NEW T \in SUBSET Slots, T # {}
  PROVE  First(T) \in T /\ \A t \in T : First(T) <= t
<1>1. T \in SUBSET Nat
  BY ControlAssumption DEF Slots
<1> QED BY <1>1, SmallestOfNat DEF First

(* Numerals and set members that every leaf about views needs.             *)
LEMMA ViewFacts ==
  /\ \A v \in Views \cup {NoView} : UiSlot(v) \in {0, 1}
  /\ \A c : \A l \in {0, 1} : RouteView(c, l) \in Views
  /\ {0, 1, 2, 3} \subseteq Views
BY DEF Views, NoView, UiSlot, RouteView

(* The operators that build or rewrite a session keep it a session.        *)
LEMMA ClearedType == Cleared \in Session
BY DEF Cleared, Session, Views, NoView, NoUi, Stages

LEMMA AllocatedType ==
  ASSUME NEW r \in Receivers, NEW g \in Nat
  PROVE  Allocated(r, g) \in Session
BY DEF Cleared, Allocated, Session, Views, NoView, NoUi, Stages

LEMMA FieldUpdates ==
  ASSUME NEW c \in Session
  PROVE  /\ [c EXCEPT !.stop_requested = TRUE] \in Session
         /\ \A b \in BOOLEAN : [c EXCEPT !.screen_started = b] \in Session
         /\ [c EXCEPT !.show_sent = TRUE] \in Session
         /\ [c EXCEPT !.view_due = TRUE] \in Session
         /\ [c EXCEPT !.expired = TRUE] \in Session
         /\ \A route \in {"unknown", "off", "on"} :
              [c EXCEPT !.route = route] \in Session
         /\ \A n \in Nat : [c EXCEPT !.inflight = n] \in Session
         /\ \A v \in Views :
              [c EXCEPT !.pending_view = v, !.view_due = TRUE,
                        !.startup = TRUE] \in Session
BY ZenonT(40) DEF Session

LEMMA QueuedType ==
  ASSUME NEW c \in Session, NEW l \in {0, 1}
  PROVE  Queued(c, l) \in Session
BY ViewFacts DEF Queued, Session

LEMMA FailedType ==
  ASSUME NEW c \in Session
  PROVE  Failed(c) \in Session
<1>1. CASE c.stage = "show"
  BY ZenonT(40), <1>1 DEF Failed, Session, Stages, NoUi
<1>2. CASE c.stage # "show"
  BY ZenonT(40), <1>2 DEF Failed, Session, Stages, NoUi
<1> QED BY <1>1, <1>2

LEMMA TimedOutType ==
  ASSUME NEW c \in Session
  PROVE  TimedOut(c) \in Session
BY FailedType DEF TimedOut

LEMMA ReplannedType ==
  ASSUME NEW c \in Session
  PROVE  Replanned(c) \in Session
<1> DEFINE next == IF c.last_ui_slot # UiSlot(c.pending_view)
                   THEN "show" ELSE "view"
<1>1. next \in Stages
  BY DEF Stages
<1> HIDE DEF next
<1>2. [c EXCEPT !.target_view = c.pending_view, !.pending_view = NoView,
                !.view_due = FALSE, !.stage = next] \in Session
  BY <1>1 DEF Session
<1> QED BY <1>2 DEF Replanned, next

LEMMA SweptType ==
  ASSUME NEW c \in Session
  PROVE  Swept(c) \in Session
BY TimedOutType, ReplannedType DEF Swept

LEMMA AskedType ==
  ASSUME NEW c \in Session, NEW token \in Nat
  PROVE  Asked(c, token) \in Session
<1> DEFINE more == c.inflight + 1
<1>1. more \in Nat
  BY DEF Session
<1> HIDE DEF more
<1>2. [c EXCEPT !.token = token, !.awaiting_ack = TRUE, !.expired = FALSE,
                !.inflight = more] \in Session
  BY <1>1 DEF Session
<1> QED BY <1>2 DEF Asked, more

LEMMA SucceededType ==
  ASSUME NEW c \in Session, NEW m \in Context
  PROVE  Succeeded(c, m) \in Session
<1>1. m.view \in Views \cup {NoView} /\ UiSlot(m.view) \in {0, 1}
  BY ViewFacts DEF Context
<1>2. CASE m.stage = "show"
  BY <1>1, <1>2 DEF Succeeded, Session, Stages
<1>3. CASE m.stage = "view"
  BY <1>1, <1>3 DEF Succeeded, Session, Stages
<1>4. CASE m.stage \notin {"show", "view"}
  BY <1>1, <1>4 DEF Succeeded, Session, Stages
<1> QED BY <1>2, <1>3, <1>4

LEMMA ShowsType ==
  ASSUME NEW m \in Context,
         NEW b \in [ui : {NoUi, 0, 1}, view : Views \cup {NoView}]
  PROVE  Shows(b, m) \in [ui : {NoUi, 0, 1}, view : Views \cup {NoView}]
<1>1. m.view \in Views \cup {NoView} /\ UiSlot(m.view) \in {0, 1}
  BY ViewFacts DEF Context
<1> QED BY <1>1 DEF Shows

-----------------------------------------------------------------------------
(* Type correctness.                                                       *)

LEMMA TypeInit == Init => TypeOK
<1> SUFFICES ASSUME Init PROVE TypeOK
  OBVIOUS
<1>1. st \in [Slots -> Session]
  BY ClearedType DEF Init
<1>2. NoContext \in Context
  BY DEF NoContext, Context, Views, Stages
<1>3. worker \in [pc : {"tick", "zoom", "send", "sent", "refused", "failed"},
                  picked : Slots \cup {0}, picked_gen : Nat,
                  request : Context]
  BY <1>2 DEF Init
<1>4. pending_zoom \in -ZoomLimit..ZoomLimit
  BY ControlAssumption DEF Init
<1>5. confirmed \in [Receivers -> [ui : {NoUi, 0, 1},
                                   view : Views \cup {NoView}]]
  BY DEF Init
<1>6. parser \in [pc : {"none", "note", "queue"},
                  receiver : Receivers \cup {NoReceiver},
                  route : {"unknown", "off", "on"}]
  BY DEF Init
<1>7. stimuli \in 0..MaxStimuli
  BY ControlAssumption DEF Init
<1> QED BY <1>1, <1>3, <1>4, <1>5, <1>6, <1>7 DEF Init, TypeOK

LEMMA TickType ==
  ASSUME TypeOK, Tick
  PROVE  TypeOK'
<1>1. \A s \in Slots : AfterScan(s) \in Session
  BY SweptType, AskedType DEF AfterScan, TypeOK
<1>2. st' \in [Slots -> Session]
  BY <1>1 DEF Tick, Session
<1>3. Asking # {} => First(Asking) \in Slots
  BY FirstIsSmallest DEF Asking, ReadySlots
<1>4. ZoomDue => ZoomSlot \in Slots
  BY FirstIsSmallest DEF ZoomDue, ZoomSlot, StartedSlots
<1>5. \A c \in Session, n \in Nat : RequestOf(c, n) \in Context
  BY DEF RequestOf, Session, Context
<1>6. NoContext \in Context
  BY DEF NoContext, Context, Views, Stages
<1>7. pending_zoom' \in -ZoomLimit..ZoomLimit
  <2> pending_zoom \in -ZoomLimit..ZoomLimit
    BY DEF TypeOK
  <2>1. CASE ~marker
    BY <2>1, ControlAssumption DEF Tick
  <2>2. CASE marker /\ ~ZoomDue
    BY <2>2 DEF Tick
  <2>3. CASE marker /\ ZoomDue
    <3>1. pending_zoom # 0 /\ ZoomLimit \in Nat
      BY <2>3, ControlAssumption DEF ZoomDue
    <3>2. pending_zoom' = IF pending_zoom > 0 THEN pending_zoom - 1
                          ELSE pending_zoom + 1
      BY <2>3 DEF Tick
    <3> QED BY <3>1, <3>2
  <2> QED BY <2>1, <2>2, <2>3
<1>8. request_serial' \in Nat
  BY DEF Tick, TypeOK
<1>9. worker'.request \in Context
  BY <1>3, <1>5, <1>6, SweptType DEF Tick, TypeOK
<1>10. worker' \in [pc : {"tick", "zoom", "send"},
                    picked : Slots \cup {0}, picked_gen : Nat,
                    request : Context]
  BY <1>4, <1>9 DEF Tick, TypeOK, Session
<1>11. worker'.pc \in {"tick", "zoom", "send"}
  BY <1>10
<1> QED
  BY <1>2, <1>7, <1>8, <1>10
  DEF Tick, TypeOK, displayVars, outputVars, phoneVars

LEMMA TypeStep ==
  ASSUME TypeOK, [Next]_vars
  PROVE  TypeOK'
<1> USE ControlAssumption
    DEF TypeOK, displayVars, outputVars, threadVars, phoneVars, serialVars
<1>1. CASE UNCHANGED vars
  BY <1>1 DEF vars
<1>2. ASSUME NEW r \in Receivers, Setup(r)
      PROVE  TypeOK'
  <2>1. st' \in [Slots -> Session]
    BY <1>2, AllocatedType DEF Setup
  <2>2. thread' \in [Slots -> {"none", "waiting", "opened", "playing",
                              "first_frame", "stopping", "exited"}]
    BY <1>2 DEF Setup
  <2>3. view_worker' \in BOOLEAN
    BY <1>2 DEF Setup
  <2>4. stimuli' \in 0..MaxStimuli /\ generation_serial' \in Nat
    BY <1>2 DEF Setup, Stimulus
  <2> QED BY <1>2, <2>1, <2>2, <2>3, <2>4 DEF Setup
<1>3. ASSUME NEW s \in Slots, PrepareFails(s)
      PROVE  TypeOK'
  BY <1>3, ClearedType DEF PrepareFails
<1>4. ASSUME NEW s \in Slots, StopRequest(s)
      PROVE  TypeOK'
  <2>1. st' \in [Slots -> Session]
    BY <1>4, FieldUpdates DEF StopRequest
  <2> QED BY <1>4, <2>1 DEF StopRequest
<1>5. ASSUME NEW s \in Slots, Release(s)
      PROVE  TypeOK'
  BY <1>5, ClearedType DEF Release
<1>6. ASSUME NEW s \in Slots, OutputOpen(s)
      PROVE  TypeOK'
  <2>1. thread' \in [Slots -> {"none", "waiting", "opened", "playing",
                              "first_frame", "stopping", "exited"}]
    BY <1>6 DEF OutputOpen
  <2>2. marker' \in BOOLEAN /\ stub_owner' \in Slots \cup {0}
    BY <1>6 DEF OutputOpen
  <2> QED BY <1>6, <2>1, <2>2 DEF OutputOpen
<1>7. ASSUME NEW s \in Slots, ScreenStart(s)
      PROVE  TypeOK'
  <2>1. st' \in [Slots -> Session]
    BY <1>7, FieldUpdates DEF ScreenStart
  <2> QED BY <1>7, <2>1 DEF ScreenStart
<1>8. ASSUME NEW s \in Slots, WorkerQuits(s)
      PROVE  TypeOK'
  <2>1. thread' \in [Slots -> {"none", "waiting", "opened", "playing",
                              "first_frame", "stopping", "exited"}]
    BY <1>8 DEF WorkerQuits
  <2>2. marker' \in BOOLEAN /\ stub_owner' \in Slots \cup {0}
    BY <1>8 DEF WorkerQuits, OutputCloses
  <2> QED BY <1>8, <2>1, <2>2 DEF WorkerQuits
<1>9. ASSUME NEW s \in Slots, FirstFrame(s)
      PROVE  TypeOK'
  <2>1. st' \in [Slots -> Session]
    BY <1>9, FieldUpdates DEF FirstFrame
  <2> QED BY <1>9, <2>1 DEF FirstFrame
<1>10. ASSUME NEW s \in Slots, RequestCluster(s)
      PROVE  TypeOK'
  <2>1. thread' \in [Slots -> {"none", "waiting", "opened", "playing",
                              "first_frame", "stopping", "exited"}]
    BY <1>10 DEF RequestCluster
  <2>2. RouteView(st[s], layout_slot) \in Views
    BY ViewFacts
  <2>3. st' \in [Slots -> Session]
    BY <1>10, <2>2, FieldUpdates DEF RequestCluster
  <2> QED BY <1>10, <2>1, <2>3 DEF RequestCluster
<1>11. ASSUME NEW s \in Slots, ScreenStop(s)
      PROVE  TypeOK'
  <2>1. thread' \in [Slots -> {"none", "waiting", "opened", "playing",
                              "first_frame", "stopping", "exited"}]
    BY <1>11 DEF ScreenStop
  <2>2. marker' \in BOOLEAN /\ stub_owner' \in Slots \cup {0}
    BY <1>11 DEF ScreenStop, OutputCloses
  <2> QED BY <1>11, <2>1, <2>2 DEF ScreenStop
<1>12. ASSUME NEW s \in Slots, ScreenEnd(s)
      PROVE  TypeOK'
  <2>1. st' \in [Slots -> Session]
    BY <1>12, FieldUpdates DEF ScreenEnd
  <2> QED BY <1>12, <2>1 DEF ScreenEnd
<1>13. ASSUME NEW s \in Slots, ViewSettles(s)
      PROVE  TypeOK'
  <2>1. st' \in [Slots -> Session]
    BY <1>13, FieldUpdates DEF ViewSettles
  <2> QED BY <1>13, <2>1 DEF ViewSettles
<1>14. ASSUME NEW s \in Slots, AckDeadline(s)
      PROVE  TypeOK'
  <2>1. st' \in [Slots -> Session]
    BY <1>14, FieldUpdates DEF AckDeadline
  <2> QED BY <1>14, <2>1 DEF AckDeadline
<1>15. ASSUME NEW r \in Receivers, NEW route \in {"off", "on"}, ParseMode(r, route)
      PROVE  TypeOK'
  BY <1>15 DEF ParseMode, Stimulus
<1>16. ASSUME NoteRoute
      PROVE  TypeOK'
  BY ZenonT(40), <1>16, FieldUpdates DEF NoteRoute
<1>17. ASSUME QueueRouteView
      PROVE  TypeOK'
  BY <1>17, QueuedType DEF QueueRouteView
<1>18. ASSUME NEW slot \in {0, 1}, ObserveBap54(slot)
      PROVE  TypeOK'
  BY <1>18, QueuedType DEF ObserveBap54, Stimulus, LayoutBecomes
<1>19. ASSUME NEW slot \in {0, 1}, ObserveZoomArea(slot)
      PROVE  TypeOK'
  BY <1>19, QueuedType DEF ObserveZoomArea, Stimulus, LayoutBecomes
<1>20. ASSUME NEW step \in {-1, 1}, EncoderStep(step)
      PROVE  TypeOK'
  BY <1>20, ControlAssumption DEF EncoderStep, Stimulus
<1>21. ASSUME Tick
      PROVE  TypeOK'
  BY <1>21, TickType
<1>22. ASSUME ZoomSent
      PROVE  TypeOK'
  <2> DEFINE less(c) == IF c.inflight > 0 THEN c.inflight - 1 ELSE c.inflight
  <2>1. \A c \in Session : less(c) \in Nat
    BY DEF Session
  <2>2. st' \in [Slots -> Session]
    <3>1. st' = [st EXCEPT ![worker.picked] =
                  [st[worker.picked] EXCEPT !.inflight = less(st[worker.picked])]]
      BY <1>22 DEF ZoomSent
    <3>2. \A c \in Session : [c EXCEPT !.inflight = less(c)] \in Session
      BY <2>1, FieldUpdates
    <3> HIDE DEF less
    <3> QED BY <3>1, <3>2
  <2>3. worker' \in [pc : {"tick", "zoom", "send", "sent", "refused", "failed"},
                  picked : Slots \cup {0}, picked_gen : Nat,
                  request : Context]
    BY <1>22 DEF ZoomSent
  <2> QED BY <1>22, <2>2, <2>3 DEF ZoomSent
<1>23. ASSUME SendCommand
      PROVE  TypeOK'
  BY <1>23 DEF SendCommand
<1>24. ASSUME CommandReturned
      PROVE  TypeOK'
  <2>1. \A c \in Session : c.inflight > 0 => c.inflight - 1 \in Nat
    BY DEF Session
  <2>2. st' \in [Slots -> Session]
    BY <1>24, <2>1, FieldUpdates DEF CommandReturned
  <2>3. NoContext \in Context
    BY DEF NoContext, Context, Views, Stages
  <2>4. worker' \in [pc : {"tick", "zoom", "send", "sent", "refused", "failed"},
                  picked : Slots \cup {0}, picked_gen : Nat,
                  request : Context]
    BY <1>24, <2>3 DEF CommandReturned
  <2> QED BY <1>24, <2>2, <2>4 DEF CommandReturned
<1>25. ASSUME DispatchFailed
      PROVE  TypeOK'
  <2>1. NoContext \in Context
    BY DEF NoContext, Context, Views, Stages
  <2>2. worker' \in [pc : {"tick", "zoom", "send", "sent", "refused", "failed"},
                  picked : Slots \cup {0}, picked_gen : Nat,
                  request : Context]
    BY <1>25, <2>1 DEF DispatchFailed
  <2> QED BY <1>25, <2>2, FailedType DEF DispatchFailed
<1>26. ASSUME NEW m \in wire, NEW ok \in BOOLEAN, Completion(m, ok)
      PROVE  TypeOK'
  <2>1. st' \in [Slots -> Session]
    BY <1>26, FailedType, SucceededType DEF Completion
  <2>2. confirmed' \in [Receivers -> [ui : {NoUi, 0, 1},
                                     view : Views \cup {NoView}]]
    BY <1>26, ShowsType DEF Completion
  <2> QED BY <1>26, <2>1, <2>2 DEF Completion
<1>27. ASSUME NEW m \in wire, NeverAnswered(m)
      PROVE  TypeOK'
  BY <1>27 DEF NeverAnswered
<1> QED
  BY <1>1, <1>2, <1>3, <1>4, <1>5, <1>6, <1>7, <1>8, <1>9, <1>10, <1>11, <1>12, <1>13, <1>14, <1>15, <1>16, <1>17, <1>18, <1>19, <1>20, <1>21, <1>22, <1>23, <1>24, <1>25, <1>26, <1>27
  DEF Next, SessionThread, StreamThread, ControlThread

(* Every variable of the display control keeps its type, for any receivers, *)
(* slots and bounds: property TypeOK.                                       *)
THEOREM TypeCorrect == Spec => []TypeOK
<1>1. Init => TypeOK
  BY TypeInit
<1>2. TypeOK /\ [Next]_vars => TypeOK'
  BY TypeStep
<1> QED BY <1>1, <1>2, PTL DEF Spec

-----------------------------------------------------------------------------
(* Answers fit requests.  Neither AnswerFitsRequest nor ViewUnderItsUi is  *)
(* inductive: the second needs the first when a showUI succeeds, and the   *)
(* first needs tokens to be fresh when a command is asked for.             *)

Sound(c) ==
  /\ c.active => c.receiver \in Receivers
  /\ c.active /\ c.stage \in {"view", "keyframe"}
     => c.last_ui_slot = UiSlot(c.target_view)

TokensIssued ==
  /\ \A s \in Slots : st[s].token <= request_serial
  /\ \A m \in Commands : m.token <= request_serial

ControlInv ==
  /\ TypeOK
  /\ TokensIssued
  /\ \A s \in Slots : Sound(st[s])
  /\ AnswerFitsRequest

(* What a step may make of a session without asking for a command: it may  *)
(* end the wait for an answer, but not change what is waited for.          *)
Kept(c, d) ==
  /\ Sound(d)
  /\ d.token \in {0, c.token}
  /\ d.awaiting_ack =>
       /\ c.active = d.active /\ c.receiver = d.receiver
       /\ c.generation = d.generation
       /\ c.awaiting_ack /\ c.token = d.token
       /\ c.stage = d.stage /\ c.target_view = d.target_view

(* A step that asks for nothing and keeps every session keeps the invariant. *)
LEMMA KeptInv ==
  ASSUME ControlInv, TypeOK', Commands' \subseteq Commands,
         request_serial' = request_serial,
         \A s \in Slots : Kept(st[s], st'[s])
  PROVE  ControlInv'
<1>1. \A s \in Slots : st'[s].token <= request_serial'
  BY SMTT(30) DEF ControlInv, TokensIssued, Kept, TypeOK
<1>2. \A m \in Commands' : m.token <= request_serial'
  BY DEF ControlInv, TokensIssued
<1>3. \A s \in Slots : Sound(st'[s])
  BY DEF Kept
<1>4. AnswerFitsRequest'
  <2> SUFFICES ASSUME NEW s \in Slots, NEW m \in Commands',
                      Owns(st'[s], m), st'[s].awaiting_ack,
                      st'[s].token = m.token
               PROVE  m.stage = st'[s].stage /\ m.view = st'[s].target_view
    BY DEF AnswerFitsRequest, Owns
  <2>1. Owns(st[s], m) /\ st[s].awaiting_ack /\ st[s].token = m.token
    BY DEF Kept, Owns
  <2>2. m \in Commands
    OBVIOUS
  <2>3. m.stage = st[s].stage /\ m.view = st[s].target_view
    BY <2>1, <2>2 DEF ControlInv, AnswerFitsRequest
  <2> QED BY <2>3 DEF Kept
<1> QED BY <1>1, <1>2, <1>3, <1>4 DEF ControlInv, TokensIssued, Sound

(* The operations on one session that ask for nothing keep it.             *)
LEMMA KeptFields ==
  ASSUME NEW c \in Session, Sound(c)
  PROVE  /\ Kept(c, c)
         /\ Kept(c, Cleared)
         /\ \A r \in Receivers, g \in Nat : Kept(c, Allocated(r, g))
         /\ Kept(c, [c EXCEPT !.stop_requested = TRUE])
         /\ \A b \in BOOLEAN : Kept(c, [c EXCEPT !.screen_started = b])
         /\ Kept(c, [c EXCEPT !.show_sent = TRUE])
         /\ Kept(c, [c EXCEPT !.view_due = TRUE])
         /\ Kept(c, [c EXCEPT !.expired = TRUE])
         /\ \A route : Kept(c, [c EXCEPT !.route = route])
         /\ \A n : Kept(c, [c EXCEPT !.inflight = n])
         /\ \A v : Kept(c, [c EXCEPT !.pending_view = v, !.view_due = TRUE,
                                     !.startup = TRUE])
         /\ \A l : Kept(c, Queued(c, l))
         /\ Kept(c, Failed(c))
<1> USE DEF Kept, Sound, Session
<1>1. Kept(c, Cleared) /\ \A r \in Receivers, g \in Nat : Kept(c, Allocated(r, g))
  BY DEF Cleared, Allocated
<1>2. /\ Kept(c, c)
      /\ Kept(c, [c EXCEPT !.stop_requested = TRUE])
      /\ \A b \in BOOLEAN : Kept(c, [c EXCEPT !.screen_started = b])
      /\ Kept(c, [c EXCEPT !.show_sent = TRUE])
  OBVIOUS
<1>3. /\ Kept(c, [c EXCEPT !.view_due = TRUE])
      /\ Kept(c, [c EXCEPT !.expired = TRUE])
      /\ \A route : Kept(c, [c EXCEPT !.route = route])
      /\ \A n : Kept(c, [c EXCEPT !.inflight = n])
  OBVIOUS
<1>4. \A v : Kept(c, [c EXCEPT !.pending_view = v, !.view_due = TRUE,
                               !.startup = TRUE])
  OBVIOUS
<1>5. \A l : Kept(c, Queued(c, l))
  BY DEF Queued
<1>6. Kept(c, Failed(c))
  BY DEF Failed
<1> QED BY <1>1, <1>2, <1>3, <1>4, <1>5, <1>6

LEMMA KeptSwept ==
  ASSUME NEW c \in Session, Sound(c)
  PROVE  Kept(c, Swept(c)) /\ (Swept(c).awaiting_ack => Swept(c) = c)
<1>1. /\ TimedOut(c) \in Session /\ Kept(c, TimedOut(c))
      /\ TimedOut(c).awaiting_ack => TimedOut(c) = c
  BY ZenonT(40), TimedOutType, KeptFields DEF TimedOut, Failed, Session
<1>2. \A d \in Session : Kept(c, d) /\ (d.awaiting_ack => d = c)
        => Kept(c, Replanned(d)) /\ (Replanned(d).awaiting_ack => Replanned(d) = c)
  <2> SUFFICES ASSUME NEW d \in Session, Kept(c, d), d.awaiting_ack => d = c,
                      ~d.awaiting_ack, d.pending_view # NoView, d.view_due
               PROVE  Kept(c, Replanned(d)) /\ ~Replanned(d).awaiting_ack
    BY DEF Replanned
  <2>1. /\ Replanned(d).active = d.active
        /\ Replanned(d).receiver = d.receiver
        /\ Replanned(d).token = d.token
        /\ Replanned(d).awaiting_ack = d.awaiting_ack
        /\ Replanned(d).last_ui_slot = d.last_ui_slot
        /\ Replanned(d).target_view = d.pending_view
        /\ Replanned(d).stage = IF d.last_ui_slot # UiSlot(d.pending_view)
                                THEN "show" ELSE "view"
    BY DEF Replanned, Session
  <2> QED BY <2>1 DEF Kept, Sound
<1> QED BY <1>1, <1>2, KeptFields DEF Swept

LEMMA KeptSucceeded ==
  ASSUME NEW c \in Session, Sound(c), NEW m \in Context, Valid(c, m),
         m.stage = c.stage, m.view = c.target_view
  PROVE  Kept(c, Succeeded(c, m))
<1>1. CASE m.stage = "show"
  BY <1>1 DEF Succeeded, Kept, Sound, Session
<1>2. CASE m.stage = "view"
  BY <1>2 DEF Succeeded, Kept, Sound, Session
<1>3. CASE m.stage \notin {"show", "view"}
  BY <1>3 DEF Succeeded, Kept, Sound, Session
<1> QED BY <1>1, <1>2, <1>3

LEMMA ControlInit == Init => ControlInv
<1> SUFFICES ASSUME Init PROVE ControlInv
  OBVIOUS
<1>1. TypeOK
  BY TypeInit
<1>2. Commands = {}
  BY DEF Init, Commands
<1>3. \A s \in Slots : st[s] = Cleared
  BY DEF Init
<1>4. TokensIssued
  BY <1>2, <1>3 DEF TokensIssued, Cleared, Init
<1>5. \A s \in Slots : Sound(st[s])
  BY <1>3 DEF Sound, Cleared
<1> QED BY <1>1, <1>2, <1>4, <1>5 DEF ControlInv, AnswerFitsRequest

LEMMA ControlTick ==
  ASSUME ControlInv, Tick
  PROVE  ControlInv'
<1> DEFINE fresh == request_serial + 1
           k == First(Asking)
<1>1. TypeOK /\ TypeOK' /\ request_serial \in Nat
  BY TickType DEF ControlInv, TypeOK
<1>2. \A s \in Slots : st[s] \in Session /\ Sound(st[s])
  BY DEF ControlInv, TypeOK
<1>3. \A s \in Slots : /\ Swept(st[s]) \in Session
                       /\ Kept(st[s], Swept(st[s]))
  BY <1>2, SweptType, KeptSwept
(* The slot that is asked for its next command. *)
<1>4. ASSUME NEW s \in Slots, s \in Asking
      PROVE  /\ s = k /\ request_serial' = fresh
             /\ worker'.request = RequestOf(Swept(st[s]), fresh)
             /\ st'[s].token = fresh /\ Sound(st'[s])
             /\ st'[s].stage = Swept(st[s]).stage
             /\ st'[s].target_view = Swept(st[s]).target_view
  <2>1. s = k
    <3>1. k \in Asking /\ Asking \subseteq Slots
      BY <1>4, FirstIsSmallest DEF Asking, ReadySlots
    <3>2. k <= s /\ s <= k
      BY <3>1, <1>4, FirstIsSmallest DEF Asking, Scanned
    <3>3. \A x, y \in Slots : x <= y /\ y <= x => x = y
      BY ControlAssumption DEF Slots
    <3>4. s \in Slots /\ k \in Slots
      BY <3>1
    <3> HIDE DEF k
    <3> QED BY <3>2, <3>3, <3>4
  <2>2. AfterScan(s) = Asked(Swept(st[s]), fresh)
    BY <1>4 DEF AfterScan
  <2>3. /\ st'[s].active = Swept(st[s]).active
        /\ st'[s].receiver = Swept(st[s]).receiver
        /\ st'[s].token = fresh
        /\ st'[s].stage = Swept(st[s]).stage
        /\ st'[s].last_ui_slot = Swept(st[s]).last_ui_slot
        /\ st'[s].target_view = Swept(st[s]).target_view
    BY <2>2, <1>3 DEF Tick, Asked, Session
  <2>4. Sound(st'[s])
    BY <2>3, <1>3 DEF Kept, Sound
  <2>5. request_serial' = fresh /\ worker'.request = RequestOf(Swept(st[s]), fresh)
    BY <1>4, <2>1 DEF Tick
  <2> QED BY <2>1, <2>3, <2>4, <2>5
(* Every other slot. *)
<1>5. ASSUME NEW s \in Slots, s \notin Asking
      PROVE  Kept(st[s], st'[s])
  <2>1. AfterScan(s) \in {st[s], Swept(st[s])}
    BY <1>5 DEF AfterScan
  <2>2. AfterScan(s) \in Session /\ Kept(st[s], AfterScan(s))
    BY <2>1, <1>2, <1>3, KeptFields
  <2>3. Kept(st[s], [AfterScan(s) EXCEPT !.inflight = @ + 1])
    BY <2>2 DEF Kept, Sound, Session
  <2>4. st'[s] \in {AfterScan(s), [AfterScan(s) EXCEPT !.inflight = @ + 1]}
    BY DEF Tick
  <2> QED BY <2>2, <2>3, <2>4
<1>6. \A s \in Slots : st'[s].token <= request_serial'
  <2> SUFFICES ASSUME NEW s \in Slots PROVE st'[s].token <= request_serial'
    OBVIOUS
  <2>1. request_serial' \in {request_serial, fresh}
    BY DEF Tick
  <2>2. CASE s \in Asking
    BY <1>1, <1>4, <2>2
  <2>3. CASE s \notin Asking
    <3>1. st'[s].token \in {0, st[s].token} /\ st[s].token <= request_serial
      BY <1>5, <2>3 DEF Kept, ControlInv, TokensIssued
    <3>2. st[s].token \in Nat
      BY <1>2 DEF Session
    <3> QED BY <1>1, <2>1, <3>1, <3>2
  <2> QED BY <2>2, <2>3
<1>7. \A s \in Slots : Sound(st'[s])
  BY <1>4, <1>5 DEF Kept
(* Every command is an earlier one, the one just asked for, or none. *)
<1>8. ASSUME NEW m \in Commands'
      PROVE  \/ m \in wire
             \/ m = NoContext
             \/ /\ Asking # {} /\ m.token = fresh
                /\ m = worker'.request
  BY DEF Tick, Commands, phoneVars, RequestOf
<1>9. \A m \in Commands' : m.token <= request_serial'
  <2> SUFFICES ASSUME NEW m \in Commands' PROVE m.token <= request_serial'
    OBVIOUS
  <2>1. request_serial' = IF Asking = {} THEN request_serial ELSE fresh
    BY DEF Tick
  <2>2. CASE m \in wire
    <3>1. m.token <= request_serial /\ m.token \in Nat
      BY <1>1, <2>2 DEF ControlInv, TokensIssued, Commands, TypeOK, Context
    <3> QED BY <1>1, <2>1, <3>1
  <2>3. CASE m = NoContext
    BY <1>1, <2>1, <2>3 DEF NoContext
  <2>4. CASE Asking # {} /\ m.token = fresh
    BY <1>1, <2>1, <2>4
  <2> QED BY <1>8, <2>2, <2>3, <2>4
<1>10. AnswerFitsRequest'
  <2> SUFFICES ASSUME NEW s \in Slots, NEW m \in Commands',
                      Owns(st'[s], m), st'[s].awaiting_ack,
                      st'[s].token = m.token
               PROVE  m.stage = st'[s].stage /\ m.view = st'[s].target_view
    BY DEF AnswerFitsRequest, Owns
  <2>1. m \in wire => m.token <= request_serial /\ m.token \in Nat
    BY <1>1 DEF ControlInv, TokensIssued, Commands, TypeOK, Context
  <2>2. m # NoContext
    BY <1>7, ControlAssumption DEF Owns, Sound, NoContext
  <2>3. CASE s \in Asking
    <3>1. m.token = fresh
      BY <1>4, <2>3
    <3>2. m = worker'.request
      BY <1>1, <1>8, <2>1, <2>2, <3>1
    <3>3. /\ m = RequestOf(Swept(st[s]), fresh)
          /\ st'[s].stage = Swept(st[s]).stage
          /\ st'[s].target_view = Swept(st[s]).target_view
      BY <1>4, <2>3, <3>2
    <3>4. m.stage = Swept(st[s]).stage /\ m.view = Swept(st[s]).target_view
      BY <3>3 DEF RequestOf
    <3> QED BY <3>3, <3>4
  <2>4. CASE s \notin Asking
    <3>1. Kept(st[s], st'[s])
      BY <1>5, <2>4
    <3>2. Owns(st[s], m) /\ st[s].awaiting_ack /\ st[s].token = m.token
      BY <3>1 DEF Kept, Owns
    <3>3. m.token <= request_serial /\ m.token \in Nat
      BY <1>2, <3>2 DEF ControlInv, TokensIssued, Session
    <3>4. m \in wire
      BY <1>1, <1>8, <2>2, <3>3
    <3>5. m.stage = st[s].stage /\ m.view = st[s].target_view
      BY <3>2, <3>4 DEF ControlInv, AnswerFitsRequest, Commands
    <3> QED BY <3>1, <3>5 DEF Kept
  <2> QED BY <2>3, <2>4
<1> QED BY <1>1, <1>6, <1>7, <1>9, <1>10 DEF ControlInv, TokensIssued, Sound

LEMMA ControlStep ==
  ASSUME ControlInv, [Next]_vars
  PROVE  ControlInv'
<1> USE DEF displayVars, outputVars, threadVars, phoneVars, serialVars
<1>a. TypeOK /\ TypeOK'
  BY TypeStep DEF ControlInv
<1>b. \A s \in Slots : st[s] \in Session /\ Sound(st[s])
  BY DEF ControlInv, TypeOK
<1>c. st \in [Slots -> Session]
  BY DEF ControlInv, TypeOK
<1>1. CASE UNCHANGED vars
  <2>1. \A s \in Slots : Kept(st[s], st'[s])
    BY <1>1, <1>b, KeptFields DEF vars
  <2>2. Commands' \subseteq Commands /\ request_serial' = request_serial
    BY <1>1 DEF vars, Commands
  <2> QED BY <1>a, <2>1, <2>2, KeptInv
<1>2. ASSUME NEW r \in Receivers, Setup(r)
      PROVE  ControlInv'
  <2>1. \A t \in Slots : Kept(st[t], st'[t])
    <3>1. generation_serial + 1 \in Nat
      BY <1>a DEF TypeOK
    <3>2. PICK s \in Slots :
            st' = [st EXCEPT ![s] = Allocated(r, generation_serial + 1)]
      BY <1>2 DEF Setup
    <3> QED BY <1>b, <1>c, <3>1, <3>2, KeptFields
  <2>2. Commands' \subseteq Commands /\ request_serial' = request_serial
    BY <1>2 DEF Setup, Commands
  <2> QED BY <1>a, <2>1, <2>2, KeptInv
<1>3. ASSUME NEW s \in Slots, PrepareFails(s)
      PROVE  ControlInv'
  <2>1. \A t \in Slots : Kept(st[t], st'[t])
    BY <1>3, <1>b, <1>c, KeptFields DEF PrepareFails
  <2>2. Commands' \subseteq Commands /\ request_serial' = request_serial
    BY <1>3 DEF PrepareFails, Commands
  <2> QED BY <1>a, <2>1, <2>2, KeptInv
<1>4. ASSUME NEW s \in Slots, StopRequest(s)
      PROVE  ControlInv'
  <2>1. \A t \in Slots : Kept(st[t], st'[t])
    BY <1>4, <1>b, <1>c, KeptFields DEF StopRequest
  <2>2. Commands' \subseteq Commands /\ request_serial' = request_serial
    BY <1>4 DEF StopRequest, Commands
  <2> QED BY <1>a, <2>1, <2>2, KeptInv
<1>5. ASSUME NEW s \in Slots, Release(s)
      PROVE  ControlInv'
  <2>1. \A t \in Slots : Kept(st[t], st'[t])
    BY <1>5, <1>b, <1>c, KeptFields DEF Release
  <2>2. Commands' \subseteq Commands /\ request_serial' = request_serial
    BY <1>5 DEF Release, Commands
  <2> QED BY <1>a, <2>1, <2>2, KeptInv
<1>6. ASSUME NEW s \in Slots, OutputOpen(s)
      PROVE  ControlInv'
  <2>1. \A t \in Slots : Kept(st[t], st'[t])
    BY <1>6, <1>b, <1>c, KeptFields DEF OutputOpen
  <2>2. Commands' \subseteq Commands /\ request_serial' = request_serial
    BY <1>6 DEF OutputOpen, Commands
  <2> QED BY <1>a, <2>1, <2>2, KeptInv
<1>7. ASSUME NEW s \in Slots, ScreenStart(s)
      PROVE  ControlInv'
  <2>1. \A t \in Slots : Kept(st[t], st'[t])
    BY <1>7, <1>b, <1>c, KeptFields DEF ScreenStart
  <2>2. Commands' \subseteq Commands /\ request_serial' = request_serial
    BY <1>7 DEF ScreenStart, Commands
  <2> QED BY <1>a, <2>1, <2>2, KeptInv
<1>8. ASSUME NEW s \in Slots, WorkerQuits(s)
      PROVE  ControlInv'
  <2>1. \A t \in Slots : Kept(st[t], st'[t])
    BY <1>8, <1>b, <1>c, KeptFields DEF WorkerQuits
  <2>2. Commands' \subseteq Commands /\ request_serial' = request_serial
    BY <1>8 DEF WorkerQuits, Commands
  <2> QED BY <1>a, <2>1, <2>2, KeptInv
<1>9. ASSUME NEW s \in Slots, FirstFrame(s)
      PROVE  ControlInv'
  <2>1. \A t \in Slots : Kept(st[t], st'[t])
    BY <1>9, <1>b, <1>c, KeptFields DEF FirstFrame
  <2>2. Commands' \subseteq Commands /\ request_serial' = request_serial
    BY <1>9 DEF FirstFrame, Commands
  <2> QED BY <1>a, <2>1, <2>2, KeptInv
<1>10. ASSUME NEW s \in Slots, RequestCluster(s)
      PROVE  ControlInv'
  <2>1. \A t \in Slots : Kept(st[t], st'[t])
    BY <1>10, <1>b, <1>c, KeptFields DEF RequestCluster
  <2>2. Commands' \subseteq Commands /\ request_serial' = request_serial
    BY <1>10 DEF RequestCluster, Commands
  <2> QED BY <1>a, <2>1, <2>2, KeptInv
<1>11. ASSUME NEW s \in Slots, ScreenStop(s)
      PROVE  ControlInv'
  <2>1. \A t \in Slots : Kept(st[t], st'[t])
    BY <1>11, <1>b, <1>c, KeptFields DEF ScreenStop
  <2>2. Commands' \subseteq Commands /\ request_serial' = request_serial
    BY <1>11 DEF ScreenStop, Commands
  <2> QED BY <1>a, <2>1, <2>2, KeptInv
<1>12. ASSUME NEW s \in Slots, ScreenEnd(s)
      PROVE  ControlInv'
  <2>1. \A t \in Slots : Kept(st[t], st'[t])
    BY <1>12, <1>b, <1>c, KeptFields DEF ScreenEnd
  <2>2. Commands' \subseteq Commands /\ request_serial' = request_serial
    BY <1>12 DEF ScreenEnd, Commands
  <2> QED BY <1>a, <2>1, <2>2, KeptInv
<1>13. ASSUME NEW s \in Slots, ViewSettles(s)
      PROVE  ControlInv'
  <2>1. \A t \in Slots : Kept(st[t], st'[t])
    BY <1>13, <1>b, <1>c, KeptFields DEF ViewSettles
  <2>2. Commands' \subseteq Commands /\ request_serial' = request_serial
    BY <1>13 DEF ViewSettles, Commands
  <2> QED BY <1>a, <2>1, <2>2, KeptInv
<1>14. ASSUME NEW s \in Slots, AckDeadline(s)
      PROVE  ControlInv'
  <2>1. \A t \in Slots : Kept(st[t], st'[t])
    BY <1>14, <1>b, <1>c, KeptFields DEF AckDeadline
  <2>2. Commands' \subseteq Commands /\ request_serial' = request_serial
    BY <1>14 DEF AckDeadline, Commands
  <2> QED BY <1>a, <2>1, <2>2, KeptInv
<1>15. ASSUME NEW r \in Receivers, NEW route \in {"off", "on"}, ParseMode(r, route)
      PROVE  ControlInv'
  <2>1. \A t \in Slots : Kept(st[t], st'[t])
    BY <1>15, <1>b, <1>c, KeptFields DEF ParseMode
  <2>2. Commands' \subseteq Commands /\ request_serial' = request_serial
    BY <1>15 DEF ParseMode, Commands
  <2> QED BY <1>a, <2>1, <2>2, KeptInv
<1>16. ASSUME NoteRoute
      PROVE  ControlInv'
  <2>1. \A t \in Slots : Kept(st[t], st'[t])
    BY <1>16, <1>b, <1>c, KeptFields DEF NoteRoute
  <2>2. Commands' \subseteq Commands /\ request_serial' = request_serial
    BY <1>16 DEF NoteRoute, Commands
  <2> QED BY <1>a, <2>1, <2>2, KeptInv
<1>17. ASSUME QueueRouteView
      PROVE  ControlInv'
  <2>1. \A t \in Slots : Kept(st[t], st'[t])
    BY <1>17, <1>b, <1>c, KeptFields DEF QueueRouteView
  <2>2. Commands' \subseteq Commands /\ request_serial' = request_serial
    BY <1>17 DEF QueueRouteView, Commands
  <2> QED BY <1>a, <2>1, <2>2, KeptInv
<1>18. ASSUME NEW slot \in {0, 1}, ObserveBap54(slot)
      PROVE  ControlInv'
  <2>1. \A t \in Slots : Kept(st[t], st'[t])
    BY <1>18, <1>b, <1>c, KeptFields DEF ObserveBap54, LayoutBecomes
  <2>2. Commands' \subseteq Commands /\ request_serial' = request_serial
    BY <1>18 DEF ObserveBap54, LayoutBecomes, Commands
  <2> QED BY <1>a, <2>1, <2>2, KeptInv
<1>19. ASSUME NEW slot \in {0, 1}, ObserveZoomArea(slot)
      PROVE  ControlInv'
  <2>1. \A t \in Slots : Kept(st[t], st'[t])
    BY <1>19, <1>b, <1>c, KeptFields DEF ObserveZoomArea, LayoutBecomes
  <2>2. Commands' \subseteq Commands /\ request_serial' = request_serial
    BY <1>19 DEF ObserveZoomArea, LayoutBecomes, Commands
  <2> QED BY <1>a, <2>1, <2>2, KeptInv
<1>20. ASSUME NEW step \in {-1, 1}, EncoderStep(step)
      PROVE  ControlInv'
  <2>1. \A t \in Slots : Kept(st[t], st'[t])
    BY <1>20, <1>b, <1>c, KeptFields DEF EncoderStep
  <2>2. Commands' \subseteq Commands /\ request_serial' = request_serial
    BY <1>20 DEF EncoderStep, Commands
  <2> QED BY <1>a, <2>1, <2>2, KeptInv
<1>21. ASSUME ZoomSent
      PROVE  ControlInv'
  <2>1. \A t \in Slots : Kept(st[t], st'[t])
    BY <1>21, <1>b, <1>c, KeptFields DEF ZoomSent
  <2>2. Commands' \subseteq Commands /\ request_serial' = request_serial
    BY <1>21 DEF ZoomSent, Commands
  <2> QED BY <1>a, <2>1, <2>2, KeptInv
<1>22. ASSUME SendCommand
      PROVE  ControlInv'
  <2>1. \A t \in Slots : Kept(st[t], st'[t])
    BY <1>22, <1>b, <1>c, KeptFields DEF SendCommand
  <2>2. Commands' \subseteq Commands /\ request_serial' = request_serial
    <3>1. request_serial' = request_serial /\ worker'.request = worker.request
      BY <1>22, <1>a DEF SendCommand, TypeOK
    <3>2. worker.request \in Commands /\ wire' \subseteq wire \cup {worker.request}
      BY <1>22 DEF SendCommand, Commands
    <3> QED BY <3>1, <3>2 DEF Commands
  <2> QED BY <1>a, <2>1, <2>2, KeptInv
<1>23. ASSUME CommandReturned
      PROVE  ControlInv'
  <2>1. \A t \in Slots : Kept(st[t], st'[t])
    BY <1>23, <1>b, <1>c, KeptFields DEF CommandReturned
  <2>2. Commands' \subseteq Commands /\ request_serial' = request_serial
    BY <1>23 DEF CommandReturned, Commands
  <2> QED BY <1>a, <2>1, <2>2, KeptInv
<1>24. ASSUME DispatchFailed
      PROVE  ControlInv'
  <2>1. \A t \in Slots : Kept(st[t], st'[t])
    BY <1>24, <1>b, <1>c, KeptFields DEF DispatchFailed
  <2>2. Commands' \subseteq Commands /\ request_serial' = request_serial
    BY <1>24 DEF DispatchFailed, Commands
  <2> QED BY <1>a, <2>1, <2>2, KeptInv
<1>25. ASSUME NEW m \in wire, NeverAnswered(m)
      PROVE  ControlInv'
  <2>1. \A t \in Slots : Kept(st[t], st'[t])
    BY <1>25, <1>b, <1>c, KeptFields DEF NeverAnswered
  <2>2. Commands' \subseteq Commands /\ request_serial' = request_serial
    BY <1>25 DEF NeverAnswered, Commands
  <2> QED BY <1>a, <2>1, <2>2, KeptInv
<1>26. CASE Tick
  BY <1>26, ControlTick
<1>27. ASSUME NEW m \in wire, NEW ok \in BOOLEAN, Completion(m, ok)
      PROVE  ControlInv'
  <2>1. ASSUME NEW s \in Slots, Valid(st[s], m)
        PROVE  Kept(st[s], Succeeded(st[s], m))
    <3>1. m \in Commands /\ m \in Context
      BY <1>a DEF Commands, TypeOK
    <3>2. Owns(st[s], m) /\ st[s].awaiting_ack /\ st[s].token = m.token
      BY <2>1 DEF Valid, Current
    <3>3. m.stage = st[s].stage /\ m.view = st[s].target_view
      BY <3>1, <3>2 DEF ControlInv, AnswerFitsRequest
    <3> QED BY <1>b, <2>1, <3>1, <3>3, KeptSucceeded
  <2>2. \A t \in Slots : Kept(st[t], st'[t])
    BY <1>27, <1>b, <2>1, KeptFields DEF Completion
  <2>3. Commands' \subseteq Commands /\ request_serial' = request_serial
    BY <1>27 DEF Completion, Commands
  <2> QED BY <1>a, <2>2, <2>3, KeptInv
<1> QED
  BY <1>1, <1>2, <1>3, <1>4, <1>5, <1>6, <1>7, <1>8, <1>9, <1>10, <1>11, <1>12, <1>13, <1>14, <1>15, <1>16, <1>17, <1>18, <1>19, <1>20, <1>21, <1>22, <1>23, <1>24, <1>25, <1>26, <1>27
  DEF Next, SessionThread, StreamThread, ControlThread

LEMMA ControlInvariant == Spec => []ControlInv
<1>1. Init => ControlInv
  BY ControlInit
<1>2. ControlInv /\ [Next]_vars => ControlInv'
  BY ControlStep
<1> QED BY <1>1, <1>2, PTL DEF Spec

(* Whatever receivers, slots, reconnects, timeouts and answer order: an    *)
(* answer that passes the generation and token checks of                   *)
(* v8s_control_completion answers exactly the step and the view the        *)
(* session stands at (property AnswerFitsRequest).                         *)
THEOREM AnswersFit == Spec => []AnswerFitsRequest
<1>1. ControlInv => AnswerFitsRequest
  BY DEF ControlInv
<1> QED BY <1>1, ControlInvariant, PTL

(* The walk of v8s_control_tick never plans or sends updateViewArea or     *)
(* forceKeyFrame under another layout URL than the one its last answered   *)
(* showUI selected (property ViewUnderItsUi).                              *)
THEOREM ViewsUnderTheirUi == Spec => []ViewUnderItsUi
<1>1. ControlInv => ViewUnderItsUi
  BY DEF ControlInv, Sound, ViewUnderItsUi
<1> QED BY <1>1, ControlInvariant, PTL

-----------------------------------------------------------------------------
(* The steps, sorted by what they do to the walks and the bookkeeping.     *)

(* A session goes on, with whatever else changes about it, or is closed.   *)
Aside(c, d) ==
  /\ d.active = c.active /\ d.receiver = c.receiver
  /\ d.generation = c.generation /\ d.inflight = c.inflight
  /\ d.last_ui_slot = c.last_ui_slot /\ d.stage = c.stage
  /\ d.target_view = c.target_view /\ d.awaiting_ack = c.awaiting_ack
  /\ d.token = c.token
  /\ c.stop_requested => d.stop_requested

(* A step of a thread that has no part in the walks.                       *)
Bystander ==
  /\ \A s \in Slots : Aside(st[s], st'[s]) \/ st'[s] = Cleared
  /\ UNCHANGED <<worker, wire, confirmed, generation_serial, request_serial>>

LEMMA AsideFields ==
  ASSUME NEW c \in Session
  PROVE  /\ Aside(c, c)
         /\ Aside(c, [c EXCEPT !.stop_requested = TRUE])
         /\ \A b \in BOOLEAN : Aside(c, [c EXCEPT !.screen_started = b])
         /\ Aside(c, [c EXCEPT !.show_sent = TRUE])
         /\ Aside(c, [c EXCEPT !.view_due = TRUE])
         /\ Aside(c, [c EXCEPT !.expired = TRUE])
         /\ \A route : Aside(c, [c EXCEPT !.route = route])
         /\ \A v : Aside(c, [c EXCEPT !.pending_view = v, !.view_due = TRUE,
                                      !.startup = TRUE])
         /\ \A l : Aside(c, Queued(c, l))
BY DEF Aside, Session, Queued

LEMMA StepKinds ==
  ASSUME TypeOK, [Next]_vars
  PROVE  \/ Bystander
         \/ \E r \in Receivers : Setup(r)
         \/ Tick \/ ZoomSent \/ SendCommand \/ CommandReturned
         \/ DispatchFailed
         \/ \E m \in wire : \/ \E ok \in BOOLEAN : Completion(m, ok)
                            \/ NeverAnswered(m)
<1> USE DEF displayVars, outputVars, threadVars, phoneVars, serialVars
<1>a. st \in [Slots -> Session] /\ \A s \in Slots : st[s] \in Session
  BY DEF TypeOK
<1>b. UNCHANGED st /\ UNCHANGED <<worker, wire, confirmed, generation_serial,
                                  request_serial>> => Bystander
  BY <1>a, AsideFields DEF Bystander
<1>1. CASE UNCHANGED vars
  BY <1>b, <1>1 DEF vars
<1>2. ASSUME NEW s \in Slots, SessionThread(s)
      PROVE  Bystander
  BY <1>2, <1>a, AsideFields
  DEF SessionThread, PrepareFails, StopRequest, Release, Bystander
<1>3. ASSUME NEW s \in Slots,
             OutputOpen(s) \/ WorkerQuits(s) \/ ScreenStop(s)
      PROVE  Bystander
  BY <1>3, <1>b DEF OutputOpen, WorkerQuits, ScreenStop
<1>4. ASSUME NEW s \in Slots,
             ScreenStart(s) \/ FirstFrame(s) \/ ScreenEnd(s)
      PROVE  Bystander
  BY ZenonT(40), <1>4, <1>a, AsideFields
  DEF ScreenStart, FirstFrame, ScreenEnd, Bystander
<1>5. ASSUME NEW s \in Slots, RequestCluster(s)
      PROVE  Bystander
  BY <1>5, <1>a, AsideFields DEF RequestCluster, Bystander
<1>6. ASSUME NEW r \in Receivers, NEW route \in {"off", "on"},
             ParseMode(r, route)
      PROVE  Bystander
  BY <1>6, <1>b DEF ParseMode
<1>7. CASE NoteRoute
  BY <1>7, <1>a, AsideFields DEF NoteRoute, Bystander
<1>8. CASE QueueRouteView
  BY <1>8, <1>a, AsideFields DEF QueueRouteView, Bystander
<1>9. ASSUME NEW slot \in {0, 1}, ObserveBap54(slot) \/ ObserveZoomArea(slot)
      PROVE  Bystander
  <2>1. LayoutBecomes(slot)
    BY <1>9 DEF ObserveBap54, ObserveZoomArea
  <2>2. \A s \in Slots : st'[s] \in {st[s], Queued(st[s], slot)}
    BY <2>1, <1>a DEF LayoutBecomes
  <2>3. \A s \in Slots : Aside(st[s], st'[s])
    BY <2>2, <1>a, AsideFields
  <2>. QED  BY <1>9, <2>3 DEF ObserveBap54, ObserveZoomArea, Bystander
<1>10. ASSUME NEW step \in {-1, 1}, EncoderStep(step)
       PROVE  Bystander
  BY <1>10, <1>b DEF EncoderStep
<1>11. ASSUME NEW s \in Slots, ViewSettles(s) \/ AckDeadline(s)
       PROVE  Bystander
  BY <1>11, <1>a, AsideFields DEF ViewSettles, AckDeadline, Bystander
<1>. QED
  BY <1>1, <1>2, <1>3, <1>4, <1>5, <1>6, <1>7, <1>8, <1>9, <1>10, <1>11
  DEF Next, StreamThread, ControlThread

-----------------------------------------------------------------------------
(* What the control worker has in flight.  InflightExact is not inductive: *)
(* it needs that a generation names one session, which is never issued     *)
(* again, and that the request made in a tick that also sends a zoom step  *)
(* is for the session picked for it only if that is still the one picked.  *)

(* Every live session has a generation and a receiver of its own.          *)
Identities ==
  /\ \A s \in Slots :
       /\ st[s].generation <= generation_serial
       /\ IF st[s].active THEN st[s].generation > 0
                          ELSE st[s].generation = 0
  /\ \A s, t \in Slots : st[s].active /\ st[t].active /\ s # t
       => /\ st[s].generation # st[t].generation
          /\ st[s].receiver # st[t].receiver

WorkerBooks ==
  /\ worker.request.generation <= generation_serial
  /\ worker.pc = "zoom" =>
       /\ worker.picked \in Slots
       /\ worker.picked_gen \in 1..generation_serial
       /\ Owns(st[worker.picked], worker.request)
            => st[worker.picked].generation = worker.picked_gen

Booked(s) ==
  st[s].inflight =
    (IF worker.pc = "zoom" /\ worker.picked = s
        /\ worker.picked_gen = st[s].generation THEN 1 ELSE 0)
  + (IF worker.pc \in {"zoom", "send", "sent", "refused"}
        /\ Owns(st[s], worker.request) THEN 1 ELSE 0)

Books ==
  /\ ControlInv
  /\ Identities
  /\ WorkerBooks
  /\ \A s \in Slots : Booked(s)

LEMMA BooksInit == Init => Books
<1>. SUFFICES ASSUME Init PROVE Books
  OBVIOUS
<1>1. \A s \in Slots : st[s] = Cleared
  BY DEF Init
<1>2. Identities
  BY <1>1 DEF Identities, Cleared, Init
<1>3. WorkerBooks
  BY DEF WorkerBooks, Init, NoContext
<1>4. \A s \in Slots : Booked(s)
  BY <1>1 DEF Booked, Cleared, Init
<1>. QED  BY ControlInit, <1>2, <1>3, <1>4 DEF Books

LEMMA BooksTyped ==
  ASSUME Books
  PROVE  /\ TypeOK /\ generation_serial \in Nat
         /\ worker.request \in Context /\ worker.request.generation \in Nat
         /\ worker.picked_gen \in Nat
         /\ \A s \in Slots :
              /\ st[s] \in Session /\ st[s].generation \in Nat
              /\ st[s].inflight \in Nat /\ st[s].active \in BOOLEAN
              /\ st[s].active => st[s].receiver \in Receivers
BY DEF Books, ControlInv, TypeOK, Session, Context, Sound

LEMMA BooksBystander ==
  ASSUME Books, ControlInv', Bystander
  PROVE  Books'
<1>0. /\ TypeOK /\ generation_serial \in Nat
      /\ worker.request.generation \in Nat /\ worker.picked_gen \in Nat
  BY BooksTyped
<1>1. /\ UNCHANGED <<worker, generation_serial>>
      /\ \A s \in Slots :
           \/ /\ st'[s].active = st[s].active
              /\ st'[s].receiver = st[s].receiver
              /\ st'[s].generation = st[s].generation
              /\ st'[s].inflight = st[s].inflight
           \/ /\ ~st'[s].active /\ st'[s].generation = 0
              /\ st'[s].inflight = 0
  BY DEF Bystander, Aside, Cleared
<1>2. Identities'
  BY <1>0, <1>1 DEF Books, Identities
<1>3. WorkerBooks'
  BY <1>1 DEF Books, WorkerBooks, Owns
<1>4. ASSUME NEW s \in Slots
      PROVE  Booked(s)'
  <2>1. Booked(s) /\ WorkerBooks
    BY DEF Books
  <2>2. CASE /\ st'[s].active = st[s].active
             /\ st'[s].receiver = st[s].receiver
             /\ st'[s].generation = st[s].generation
             /\ st'[s].inflight = st[s].inflight
    BY <1>1, <2>1, <2>2 DEF Booked, Owns
  <2>3. CASE ~st'[s].active /\ st'[s].generation = 0 /\ st'[s].inflight = 0
    BY <1>0, <1>1, <2>1, <2>3 DEF Booked, Owns, WorkerBooks
  <2>. QED  BY <1>1, <2>2, <2>3
<1>. QED  BY <1>2, <1>3, <1>4 DEF Books

LEMMA BooksSetup ==
  ASSUME Books, ControlInv', NEW r \in Receivers, Setup(r)
  PROVE  Books'
<1>. DEFINE g == generation_serial + 1
<1>0. /\ TypeOK /\ generation_serial \in Nat /\ st \in [Slots -> Session]
      /\ worker.request.generation \in Nat /\ worker.picked_gen \in Nat
      /\ \A s \in Slots : st[s].generation \in Nat
  BY BooksTyped DEF TypeOK
<1>1. PICK n \in Slots : ~st[n].active /\ st' = [st EXCEPT ![n] = Allocated(r, g)]
  BY DEF Setup
<1>2. /\ generation_serial' = g /\ UNCHANGED worker
      /\ \A s \in Slots : ~Holds(s, r)
  BY DEF Setup, threadVars
<1>3. /\ st'[n].active /\ st'[n].receiver = r /\ st'[n].generation = g
      /\ st'[n].inflight = 0
      /\ \A s \in Slots \ {n} : st'[s] = st[s]
  BY <1>0, <1>1 DEF Allocated, Cleared
<1>4. Identities'
  BY <1>0, <1>2, <1>3 DEF Books, Identities, Holds
<1>5. ~Owns(st'[n], worker.request)
  BY <1>0, <1>3 DEF Books, WorkerBooks, Owns
<1>6. WorkerBooks'
  BY <1>0, <1>2, <1>3, <1>5 DEF Books, WorkerBooks, Owns
<1>7. ASSUME NEW s \in Slots
      PROVE  Booked(s)'
  <2>1. CASE s # n
    BY <1>2, <1>3, <2>1 DEF Books, Booked, Owns
  <2>2. CASE s = n
    <3>1. worker.pc = "zoom" => worker.picked_gen # g
      BY <1>0 DEF Books, WorkerBooks
    <3>. QED  BY <1>2, <1>3, <1>5, <2>2, <3>1 DEF Booked, Owns
  <2>. QED  BY <2>1, <2>2
<1>. QED  BY <1>4, <1>6, <1>7 DEF Books

LEMMA BooksTick ==
  ASSUME Books, ControlInv', Tick
  PROVE  Books'
<1>. DEFINE k == First(Asking)
            fresh == request_serial + 1
<1>0. /\ TypeOK /\ generation_serial \in Nat /\ st \in [Slots -> Session]
      /\ worker.pc = "tick" /\ generation_serial' = generation_serial
      /\ \A s \in Slots : /\ st[s] \in Session /\ st[s].generation \in Nat
                          /\ st[s].inflight \in Nat
  BY BooksTyped DEF TypeOK, Tick
<1>1. ASSUME NEW s \in Slots
      PROVE  LET c == Swept(st[s]) IN
             /\ c.active = st[s].active /\ c.receiver = st[s].receiver
             /\ c.generation = st[s].generation
             /\ c.inflight = st[s].inflight /\ c \in Session
  <2>1. st[s] \in Session
    BY <1>0
  <2>2. \A c \in Session :
          /\ Failed(c).active = c.active /\ Failed(c).receiver = c.receiver
          /\ Failed(c).generation = c.generation
          /\ Failed(c).inflight = c.inflight
    BY DEF Failed, Session
  <2>3. \A c \in Session :
          /\ Replanned(c).active = c.active
          /\ Replanned(c).receiver = c.receiver
          /\ Replanned(c).generation = c.generation
          /\ Replanned(c).inflight = c.inflight
    BY DEF Replanned, Session
  <2>. QED  BY <2>1, <2>2, <2>3, TimedOutType, SweptType DEF Swept, TimedOut
<1>2. \A s \in Slots : st[s].inflight = 0
  BY <1>0 DEF Books, Booked
<1>3. \A s \in Asking : s \in Slots /\ st[s].active
  BY <1>1 DEF Asking, ReadySlots, Ready, Serviceable
<1>4. Asking # {} => k \in Asking
  BY FirstIsSmallest, <1>3
<1>5. ASSUME NEW s \in Asking
      PROVE  s = k
  <2>1. k \in Asking /\ k \in ReadySlots /\ s \in ReadySlots
    BY <1>4 DEF Asking
  <2>2. k <= s /\ s <= k
    BY <2>1 DEF Asking, Scanned
  <2>3. \A x, y \in Slots : x <= y /\ y <= x => x = y
    BY ControlAssumption DEF Slots
  <2>4. s \in Slots /\ k \in Slots
    BY <1>3, <2>1
  <2>. HIDE DEF k
  <2>. QED  BY <2>2, <2>3, <2>4
<1>6. ASSUME NEW s \in Slots
      PROVE  /\ st'[s].active = st[s].active
             /\ st'[s].receiver = st[s].receiver
             /\ st'[s].generation = st[s].generation
             /\ st'[s].inflight = (IF ZoomDue /\ s = ZoomSlot THEN 1 ELSE 0)
                                  + (IF s \in Asking THEN 1 ELSE 0)
  <2>1. /\ AfterScan(s).active = st[s].active
        /\ AfterScan(s).receiver = st[s].receiver
        /\ AfterScan(s).generation = st[s].generation
        /\ AfterScan(s).inflight = IF s \in Asking THEN 1 ELSE 0
        /\ AfterScan(s) \in Session
    <3>1. \A c \in Session :
            /\ Asked(c, fresh).active = c.active
            /\ Asked(c, fresh).receiver = c.receiver
            /\ Asked(c, fresh).generation = c.generation
            /\ Asked(c, fresh).inflight = c.inflight + 1
      BY DEF Asked, Session
    <3>2. fresh \in Nat
      BY <1>0 DEF TypeOK
    <3>. HIDE DEF fresh
    <3>3. CASE s \in Asking
      <4>1. AfterScan(s) = Asked(Swept(st[s]), fresh)
        BY <3>3 DEF AfterScan, fresh
      <4>. QED  BY <4>1, <3>1, <3>2, <3>3, <1>1, <1>2, AskedType
    <3>4. CASE s \notin Asking
      <4>1. AfterScan(s) \in {Swept(st[s]), st[s]}
        BY <3>4 DEF AfterScan
      <4>. QED  BY <4>1, <3>4, <1>0, <1>1, <1>2
    <3>. QED  BY <3>3, <3>4
  <2>2. CASE ZoomDue /\ s = ZoomSlot
    <3>1. st'[s] = [AfterScan(s) EXCEPT !.inflight = @ + 1]
      BY <2>2 DEF Tick
    <3>. QED  BY <2>1, <2>2, <3>1 DEF Session
  <2>3. CASE ~(ZoomDue /\ s = ZoomSlot)
    <3>1. st'[s] = AfterScan(s)
      BY <2>3 DEF Tick
    <3>. QED  BY <2>1, <2>3, <3>1
  <2>. QED  BY <2>2, <2>3
<1>7. Identities'
  BY <1>0, <1>6 DEF Books, Identities
<1>8. ZoomDue => ZoomSlot \in Slots /\ st[ZoomSlot].active
  BY FirstIsSmallest DEF ZoomDue, ZoomSlot, StartedSlots, Serviceable
<1>9. IF Asking # {} THEN /\ worker'.request.receiver = st[k].receiver
                          /\ worker'.request.generation = st[k].generation
                     ELSE worker'.request = NoContext
  <2>1. CASE Asking # {}
    <3>1. worker'.request = RequestOf(Swept(st[k]), fresh)
      BY <2>1 DEF Tick
    <3>. QED  BY <2>1, <3>1, <1>1, <1>3, <1>4 DEF RequestOf
  <2>2. CASE Asking = {}
    BY <2>2 DEF Tick
  <2>. QED  BY <2>1, <2>2
<1>10. /\ worker'.pc = IF ZoomDue THEN "zoom"
                       ELSE IF Asking # {} THEN "send" ELSE "tick"
       /\ ZoomDue => /\ worker'.picked = ZoomSlot
                     /\ worker'.picked_gen = st[ZoomSlot].generation
  BY DEF Tick
<1>11. WorkerBooks'
  <2>1. worker'.request.generation <= generation_serial'
    BY <1>0, <1>3, <1>4, <1>9 DEF Books, Identities, NoContext
  <2>2. ASSUME ZoomDue
        PROVE  st[ZoomSlot].generation \in 1..generation_serial
    BY <2>2, <1>0, <1>8 DEF Books, Identities
  <2>. QED  BY <2>1, <2>2, <1>0, <1>6, <1>8, <1>10 DEF WorkerBooks
<1>12. ASSUME NEW s \in Slots
       PROVE  Booked(s)'
  <2>1. Owns(st'[s], worker'.request) <=> s \in Asking
    <3>1. CASE Asking = {}
      <4>1. worker'.request.receiver = NoReceiver
        BY <3>1, <1>9 DEF NoContext
      <4>2. st[s].active => st[s].receiver \in Receivers
        BY BooksTyped
      <4>. QED  BY <3>1, <4>1, <4>2, <1>6, ControlAssumption DEF Owns
    <3>2. CASE Asking # {}
      <4>1. k \in Slots /\ st[k].active
        BY <3>2, <1>3, <1>4
      <4>2. Owns(st'[s], worker'.request) <=> s = k
        BY <3>2, <4>1, <1>6, <1>9 DEF Owns, Books, Identities
      <4>. QED  BY <4>2, <3>2, <1>4, <1>5
    <3>. QED  BY <3>1, <3>2
  <2>2. (/\ worker'.pc = "zoom" /\ worker'.picked = s
         /\ worker'.picked_gen = st'[s].generation)
        <=> ZoomDue /\ s = ZoomSlot
    BY <1>6, <1>8, <1>10
  <2>3. CASE ZoomDue \/ Asking # {}
    <3>1. worker'.pc \in {"zoom", "send"}
      BY <2>3, <1>10
    <3>. QED  BY <2>1, <2>2, <3>1, <1>6 DEF Booked
  <2>4. CASE ~ZoomDue /\ Asking = {}
    <3>1. worker'.pc = "tick"
      BY <2>4, <1>10
    <3>. QED  BY <2>4, <3>1, <1>6 DEF Booked
  <2>. QED  BY <2>3, <2>4
<1>. QED  BY <1>7, <1>11, <1>12 DEF Books

LEMMA BooksZoomSent ==
  ASSUME Books, ControlInv', ZoomSent
  PROVE  Books'
<1>. DEFINE p == worker.picked
<1>0. /\ TypeOK /\ generation_serial \in Nat /\ st \in [Slots -> Session]
      /\ \A s \in Slots : /\ st[s] \in Session /\ st[s].inflight \in Nat
                          /\ st[s].active => st[s].receiver \in Receivers
  BY BooksTyped DEF TypeOK
<1>1. /\ worker.pc = "zoom" /\ p \in Slots
      /\ generation_serial' = generation_serial
      /\ worker'.request = worker.request
      /\ worker'.pc = IF worker.request = NoContext THEN "tick" ELSE "send"
  BY <1>0 DEF ZoomSent, Books, WorkerBooks, serialVars, TypeOK
<1>2. /\ st'[p].active = st[p].active /\ st'[p].receiver = st[p].receiver
      /\ st'[p].generation = st[p].generation
      /\ st'[p].inflight = IF st[p].inflight > 0 THEN st[p].inflight - 1
                                                 ELSE st[p].inflight
      /\ \A s \in Slots \ {p} : st'[s] = st[s]
  BY <1>0, <1>1 DEF ZoomSent, Session
<1>3. Identities'
  BY <1>1, <1>2 DEF Books, Identities
<1>4. WorkerBooks'
  BY <1>1 DEF Books, WorkerBooks
<1>5. worker.request = NoContext => \A s \in Slots : ~Owns(st[s], worker.request)
  BY <1>0, ControlAssumption DEF Owns, NoContext
<1>6. ASSUME NEW s \in Slots
      PROVE  Booked(s)'
  <2>1. Owns(st'[s], worker'.request) <=> Owns(st[s], worker.request)
    BY <1>1, <1>2 DEF Owns
  <2>2. CASE s # p
    BY <2>1, <2>2, <1>1, <1>2, <1>5 DEF Books, Booked
  <2>3. CASE s = p
    <3>1. Booked(p) /\ WorkerBooks
      BY <1>1 DEF Books
    <3>. QED  BY <2>1, <2>3, <3>1, <1>0, <1>1, <1>2, <1>5 DEF Booked, WorkerBooks
  <2>. QED  BY <2>2, <2>3
<1>. QED  BY <1>3, <1>4, <1>6 DEF Books

(* The steps that only move the request on, or answer it.                  *)
LEMMA BooksCommands ==
  ASSUME Books, ControlInv',
         \/ SendCommand \/ CommandReturned \/ DispatchFailed
         \/ \E m \in wire : \/ \E ok \in BOOLEAN : Completion(m, ok)
                            \/ NeverAnswered(m)
  PROVE  Books'
<1>. USE DEF serialVars, threadVars
<1>0. /\ TypeOK /\ generation_serial \in Nat /\ st \in [Slots -> Session]
      /\ \A s \in Slots : /\ st[s] \in Session /\ st[s].inflight \in Nat
                          /\ st[s].active => st[s].receiver \in Receivers
  BY BooksTyped DEF TypeOK
<1>1. \A c \in Session :
        /\ Failed(c).active = c.active /\ Failed(c).receiver = c.receiver
        /\ Failed(c).generation = c.generation
        /\ Failed(c).inflight = c.inflight
  BY DEF Failed, Session
<1>2. \A m : \A c \in Session :
        /\ Succeeded(c, m).active = c.active
        /\ Succeeded(c, m).receiver = c.receiver
        /\ Succeeded(c, m).generation = c.generation
        /\ Succeeded(c, m).inflight = c.inflight
  BY DEF Succeeded, Session
<1>3. ASSUME ~CommandReturned
      PROVE  \A s \in Slots :
               /\ st'[s].active = st[s].active
               /\ st'[s].receiver = st[s].receiver
               /\ st'[s].generation = st[s].generation
               /\ st'[s].inflight = st[s].inflight
  BY <1>0, <1>1, <1>2, <1>3
  DEF SendCommand, DispatchFailed, Completion, NeverAnswered
<1>4. CASE CommandReturned
  <2>1. \A s \in Slots :
          /\ st'[s].active = st[s].active
          /\ st'[s].receiver = st[s].receiver
          /\ st'[s].generation = st[s].generation
          /\ st'[s].inflight =
               IF Owns(st[s], worker.request) /\ st[s].inflight > 0
               THEN st[s].inflight - 1 ELSE st[s].inflight
    BY <1>0, <1>4 DEF CommandReturned, Session
  <2>2. /\ worker.pc \in {"sent", "refused"}
        /\ worker'.pc \in {"tick", "failed"}
        /\ worker'.request \in {worker.request, NoContext}
        /\ generation_serial' = generation_serial
    BY <1>0, <1>4 DEF CommandReturned, TypeOK
  <2>3. Identities' /\ WorkerBooks'
    BY <1>0, <2>1, <2>2 DEF Books, Identities, WorkerBooks, NoContext
  <2>4. \A s \in Slots : Booked(s)'
    BY <1>0, <2>1, <2>2 DEF Books, Booked
  <2>. QED  BY <2>3, <2>4 DEF Books
<1>5. CASE DispatchFailed
  <2>1. /\ worker.pc = "failed" /\ worker'.pc = "tick"
        /\ worker'.request = NoContext
        /\ generation_serial' = generation_serial /\ ~CommandReturned
    BY <1>0, <1>5 DEF DispatchFailed, CommandReturned, TypeOK
  <2>2. Identities' /\ WorkerBooks'
    BY <1>0, <1>3, <2>1 DEF Books, Identities, WorkerBooks, NoContext
  <2>3. \A s \in Slots : Booked(s)'
    BY <1>3, <2>1 DEF Books, Booked
  <2>. QED  BY <2>2, <2>3 DEF Books
<1>6. CASE SendCommand
  <2>1. /\ worker.pc = "send" /\ worker'.pc \in {"sent", "refused"}
        /\ worker'.request = worker.request
        /\ generation_serial' = generation_serial /\ ~CommandReturned
    BY <1>0, <1>6 DEF SendCommand, CommandReturned, TypeOK
  <2>2. Identities' /\ WorkerBooks'
    BY <1>3, <2>1 DEF Books, Identities, WorkerBooks
  <2>3. \A s \in Slots : Booked(s)'
    BY <1>3, <2>1 DEF Books, Booked, Owns
  <2>. QED  BY <2>2, <2>3 DEF Books
<1>7. CASE ~SendCommand /\ ~CommandReturned /\ ~DispatchFailed
  <2>1. UNCHANGED <<worker, generation_serial>>
    BY <1>7 DEF Completion, NeverAnswered
  <2>2. Identities' /\ WorkerBooks'
    BY <1>3, <1>7, <2>1 DEF Books, Identities, WorkerBooks, Owns
  <2>3. \A s \in Slots : Booked(s)'
    BY <1>3, <1>7, <2>1 DEF Books, Booked, Owns
  <2>. QED  BY <2>2, <2>3 DEF Books
<1>. QED  BY <1>4, <1>5, <1>6, <1>7

LEMMA BooksInvariant == Spec => []Books
<1>1. Init => Books
  BY BooksInit
<1>2. ASSUME Books, [Next]_vars
      PROVE  Books'
  <2>1. TypeOK /\ ControlInv'
    BY <1>2, ControlStep DEF Books, ControlInv
  <2>. QED
    BY <1>2, <2>1, StepKinds, BooksBystander, BooksSetup, BooksTick,
       BooksZoomSent, BooksCommands
<1>. QED  BY <1>1, <1>2, PTL DEF Spec

(* control_inflight counts exactly the control worker's calls for this     *)
(* very session, however slots and receivers come back (InflightExact).    *)
THEOREM InflightCounted == Spec => []InflightExact
<1>1. Books => InflightExact
  BY DEF Books, Booked, InflightExact
<1>. QED  BY <1>1, BooksInvariant, PTL
-----------------------------------------------------------------------------
(* The walk of each session implements AckedControl, step by step.         *)

LEMMA WalkInit == Init => \A s \in Slots : Acked(s)!Init
BY DEF Init, Acked!Init, Acked!Blank, Cleared, NoView, NoUi, Acked!NoView,
       Acked!NoUi

(* What AckedControl sees of a session.                                    *)
Unmoved(c, d) ==
  /\ d.stage = c.stage /\ d.awaiting_ack = c.awaiting_ack
  /\ d.active = c.active
  /\ c.active => d.target_view = c.target_view /\ d.last_ui_slot = c.last_ui_slot

LEMMA WalkUnmoved ==
  ASSUME NEW s \in Slots, Unmoved(st[s], st'[s])
  PROVE  Acked(s)!Next
BY DEF Unmoved, Acked!Next, Acked!LateAnswer

LEMMA WalkReset ==
  ASSUME NEW s \in Slots,
         \/ st'[s] = Cleared
         \/ \E r, g : st'[s] = Allocated(r, g)
  PROVE  Acked(s)!Next
<1>1. /\ st'[s].stage = "idle" /\ st'[s].awaiting_ack = FALSE
      /\ st'[s].active => /\ st'[s].target_view = NoView
                          /\ st'[s].last_ui_slot = NoUi
  <2>1. CASE st'[s] = Cleared
    BY <2>1 DEF Cleared
  <2>2. CASE \E r, g : st'[s] = Allocated(r, g)
    <3>1. PICK r, g : st'[s] = Allocated(r, g)
      BY <2>2
    <3>2. /\ Allocated(r, g).stage = "idle"
          /\ Allocated(r, g).awaiting_ack = FALSE
          /\ Allocated(r, g).target_view = NoView
          /\ Allocated(r, g).last_ui_slot = NoUi
      BY DEF Cleared, Allocated
    <3>. QED  BY <3>1, <3>2
  <2>. QED  BY <2>1, <2>2
<1>. QED  BY <1>1 DEF Acked!Next, Acked!Reset, Acked!Blank, Acked!NoView,
                      Acked!NoUi, NoView, NoUi

LEMMA WalkBystander ==
  ASSUME NEW s \in Slots, Bystander
  PROVE  Acked(s)!Next
<1>1. CASE Aside(st[s], st'[s])
  BY <1>1, WalkUnmoved DEF Aside, Unmoved
<1>2. CASE st'[s] = Cleared
  BY <1>2, WalkReset
<1>. QED  BY <1>1, <1>2 DEF Bystander

LEMMA WalkSetup ==
  ASSUME TypeOK, NEW s \in Slots, NEW r \in Receivers, Setup(r)
  PROVE  Acked(s)!Next
<1>1. PICK n \in Slots : st' = [st EXCEPT ![n] = Allocated(r, generation_serial + 1)]
  BY DEF Setup
<1>2. CASE n = s
  BY <1>1, <1>2, WalkReset DEF TypeOK
<1>3. CASE n # s
  BY <1>1, <1>3, WalkUnmoved DEF TypeOK, Unmoved
<1>. QED  BY <1>2, <1>3

(* A command without an answer is given up.                                *)
LEMMA WalkAbandon ==
  ASSUME TypeOK, NEW s \in Slots, st[s].active, st[s].awaiting_ack,
         UNCHANGED confirmed,
         \/ st'[s] = Failed(st[s])
  PROVE  Acked(s)!Next
<1>1. /\ st[s] \in Session
      /\ st'[s].active /\ st'[s].receiver = st[s].receiver
      /\ st'[s].stage = "idle" /\ st'[s].awaiting_ack = FALSE
      /\ st'[s].target_view = st[s].target_view
      /\ st'[s].last_ui_slot = IF st[s].stage = "show" THEN NoUi
                                                       ELSE st[s].last_ui_slot
  BY ZenonT(40) DEF TypeOK, Session, Failed
<1>. QED
  BY <1>1 DEF Acked!Next, Acked!Abandon, Acked!UiAfterFailure, Acked!NoUi, NoUi

LEMMA WalkZoomOrReturned ==
  ASSUME TypeOK, NEW s \in Slots,
         ZoomSent \/ SendCommand \/ CommandReturned
           \/ \E m \in wire : NeverAnswered(m)
  PROVE  Acked(s)!Next
<1>1. st \in [Slots -> Session]
  BY DEF TypeOK
<1>2. Unmoved(st[s], st'[s])
  BY <1>1 DEF ZoomSent, SendCommand, CommandReturned, NeverAnswered, Session,
              Unmoved
<1>. QED  BY <1>2, WalkUnmoved

LEMMA WalkDispatchFailed ==
  ASSUME TypeOK, NEW s \in Slots, DispatchFailed
  PROVE  Acked(s)!Next
<1>1. st' [s] = IF Owns(st[s], worker.request) /\ Current(st[s], worker.request)
                THEN Failed(st[s]) ELSE st[s]
  BY DEF DispatchFailed
<1>2. UNCHANGED confirmed
  BY DEF DispatchFailed, phoneVars
<1>3. CASE Owns(st[s], worker.request) /\ Current(st[s], worker.request)
  BY <1>1, <1>2, <1>3, WalkAbandon DEF Owns, Current
<1>4. CASE ~(Owns(st[s], worker.request) /\ Current(st[s], worker.request))
  BY <1>1, <1>4, WalkUnmoved DEF Unmoved
<1>. QED  BY <1>3, <1>4

LEMMA WalkCompletion ==
  ASSUME ControlInv, NEW s \in Slots, NEW m \in wire, NEW ok \in BOOLEAN,
         Completion(m, ok)
  PROVE  Acked(s)!Next
<1>. DEFINE c == st[s]
            d == st'[s]
<1>1. /\ TypeOK /\ c \in Session /\ m \in Context
      /\ confirmed \in [Receivers -> [ui : {NoUi, 0, 1},
                                      view : Views \cup {NoView}]]
      /\ c.active => c.receiver \in Receivers
  BY DEF ControlInv, TypeOK, Sound
<1>2. CASE ~Valid(c, m)
  BY <1>2, WalkUnmoved DEF Completion, Unmoved
<1>3. CASE Valid(c, m) /\ ~ok
  <2>1. d = Failed(c) /\ UNCHANGED confirmed
    BY <1>3 DEF Completion
  <2>. QED  BY <2>1, <1>1, <1>3, WalkAbandon DEF Valid, Owns, Current
<1>4. CASE Valid(c, m) /\ ok
  <2>1. d = Succeeded(c, m)
    BY <1>4 DEF Completion
  <2>2. /\ c.active /\ c.awaiting_ack /\ c.receiver = m.receiver
        /\ m.stage = c.stage /\ m.view = c.target_view
    BY <1>4 DEF Valid, Owns, Current, ControlInv, AnswerFitsRequest, Commands
  <2>3. confirmed' = [confirmed EXCEPT ![m.receiver] = Shows(@, m)]
    BY <1>4 DEF Completion
  <2>4. confirmed'[c.receiver] = Shows(confirmed[c.receiver], m)
    BY <1>1, <2>2, <2>3
  <2>5. /\ d.active /\ d.receiver = c.receiver /\ d.awaiting_ack = FALSE
        /\ d.target_view = c.target_view
    BY <1>1, <2>1, <2>2 DEF Succeeded, Session
  <2>6. CASE c.stage = "show"
    <3>1. d.last_ui_slot = UiSlot(c.target_view) /\ d.stage = "view"
      BY ZenonT(40), <1>1, <2>1, <2>2, <2>6 DEF Succeeded, Session
    <3>2. confirmed'[c.receiver].ui = UiSlot(c.target_view)
      BY <1>1, <2>2, <2>4, <2>6 DEF Shows
    <3>3. Acked(s)!ConfirmUi
      BY <2>2, <2>5, <2>6, <3>1, <3>2
      DEF Acked!ConfirmUi, Acked!UiSlot, UiSlot
    <3>. QED  BY <3>3 DEF Acked!Next
  <2>7. CASE c.stage = "view"
    <3>1. d.last_ui_slot = c.last_ui_slot /\ d.stage = "keyframe"
      BY <1>1, <2>1, <2>2, <2>7 DEF Succeeded, Session
    <3>2. confirmed'[c.receiver].view = c.target_view
      BY <1>1, <2>2, <2>4, <2>7 DEF Shows
    <3>3. Acked(s)!ConfirmView
      BY <2>2, <2>5, <2>7, <3>1, <3>2 DEF Acked!ConfirmView
    <3>. QED  BY <3>3 DEF Acked!Next
  <2>8. CASE c.stage \in {"keyframe", "idle"}
    <3>1. d.last_ui_slot = c.last_ui_slot /\ d.stage = "idle"
      BY <1>1, <2>1, <2>2, <2>8 DEF Succeeded, Session
    <3>2. confirmed'[c.receiver] = confirmed[c.receiver]
      BY <1>1, <2>2, <2>4, <2>8 DEF Shows
    <3>3. CASE c.stage = "keyframe"
      <4>1. Acked(s)!ConfirmKeyframe
        BY <2>2, <2>5, <3>1, <3>2, <3>3 DEF Acked!ConfirmKeyframe
      <4>. QED  BY <4>1 DEF Acked!Next
    <3>4. CASE c.stage = "idle"
      <4>1. Acked(s)!Abandon
        BY <2>2, <2>5, <3>1, <3>2, <3>4
        DEF Acked!Abandon, Acked!UiAfterFailure
      <4>. QED  BY <4>1 DEF Acked!Next
    <3>. QED  BY <2>8, <3>3, <3>4
  <2>. QED  BY <1>1, <2>6, <2>7, <2>8 DEF Session, Stages
<1>. QED  BY <1>2, <1>3, <1>4
(* A new goal, and with it perhaps its first command.                      *)
LEMMA WalkAim ==
  ASSUME NEW s \in Slots, NEW view \in Views, NEW ask \in BOOLEAN,
         st[s].active, st'[s].active, st'[s].receiver = st[s].receiver,
         UNCHANGED confirmed,
         st'[s].last_ui_slot =
           IF st[s].awaiting_ack /\ st[s].stage = "show" THEN NoUi
                                                  ELSE st[s].last_ui_slot,
         st'[s].stage = IF st'[s].last_ui_slot # UiSlot(view) THEN "show"
                                                              ELSE "view",
         st'[s].target_view = view, st'[s].awaiting_ack = ask
  PROVE  Acked(s)!Next
<1>1. Acked(s)!Aim(view, ask)
  BY DEF Acked!Aim, Acked!UiAfterFailure, Acked!NoUi, Acked!UiSlot, NoUi, UiSlot
<1>. QED  BY <1>1 DEF Acked!Next, Acked!Views, Views

(* What a tick makes of a session's walk: nothing, or what the sweep makes *)
(* of it, and the one it asks for its next command.                        *)
LEMMA ScanOutcome ==
  ASSUME ControlInv, NEW s \in Slots, Tick
  PROVE  LET w == Swept(st[s])
             d == st'[s]
         IN  \E e \in {st[s], w, Asked(w, request_serial + 1)} :
               /\ IF s \in Asking THEN e = Asked(w, request_serial + 1) /\ Ready(w)
                                  ELSE e \in {st[s], w}
               /\ d.active = e.active /\ d.receiver = e.receiver
               /\ d.generation = e.generation /\ d.token = e.token
               /\ d.stop_requested = e.stop_requested
               /\ d.stage = e.stage /\ d.awaiting_ack = e.awaiting_ack
               /\ d.target_view = e.target_view
               /\ d.last_ui_slot = e.last_ui_slot
<1>. DEFINE w == Swept(st[s])
            fresh == request_serial + 1
<1>1. st[s] \in Session /\ w \in Session /\ fresh \in Nat
  BY SweptType DEF ControlInv, TypeOK
<1>2. Asked(w, fresh) \in Session
  BY <1>1, AskedType
<1>3. \A e \in Session :
        AfterScan(s) = e =>
          LET d == st'[s] IN
          /\ d.active = e.active /\ d.receiver = e.receiver
          /\ d.generation = e.generation /\ d.token = e.token
          /\ d.stop_requested = e.stop_requested
          /\ d.stage = e.stage /\ d.awaiting_ack = e.awaiting_ack
          /\ d.target_view = e.target_view /\ d.last_ui_slot = e.last_ui_slot
  <2>1. st'[s] \in {AfterScan(s), [AfterScan(s) EXCEPT !.inflight = @ + 1]}
    BY DEF Tick
  <2>. QED  BY <2>1 DEF Session
<1>4. CASE s \in Asking
  <2>1. AfterScan(s) = Asked(w, fresh) /\ Ready(w)
    BY <1>4 DEF AfterScan, Asking, ReadySlots
  <2>. QED  BY <1>2, <1>3, <1>4, <2>1
<1>5. CASE s \notin Asking
  <2>1. AfterScan(s) \in {st[s], w}
    BY <1>5 DEF AfterScan
  <2>. QED  BY <1>1, <1>3, <1>5, <2>1
<1>. QED  BY <1>4, <1>5

LEMMA OneIsAsked ==
  ASSUME NEW s \in Asking
  PROVE  s \in Slots /\ s = First(Asking)
<1>. DEFINE k == First(Asking)
<1>1. s \in Slots /\ s \in ReadySlots /\ Asking \subseteq Slots
  BY DEF Asking, ReadySlots
<1>2. k \in Asking /\ k \in Slots /\ k \in ReadySlots
  BY <1>1, FirstIsSmallest DEF Asking
<1>3. k <= s /\ s <= k
  BY <1>1, <1>2 DEF Asking, Scanned
<1>4. \A x, y \in Slots : x <= y /\ y <= x => x = y
  BY ControlAssumption DEF Slots
<1>. HIDE DEF k
<1>5. s = k
  BY <1>1, <1>2, <1>3, <1>4
<1>. QED  BY <1>1, <1>5 DEF k

LEMMA WalkTick ==
  ASSUME ControlInv, NEW s \in Slots, Tick
  PROVE  Acked(s)!Next
<1>. DEFINE c == st[s]
            w == Swept(c)
            d == st'[s]
            fresh == request_serial + 1
<1>1. /\ c \in Session /\ w \in Session /\ fresh \in Nat
      /\ UNCHANGED confirmed
  BY SweptType DEF ControlInv, TypeOK, Tick, phoneVars
<1>2. \E e \in {c, w, Asked(w, fresh)} :
        /\ (e \notin {c, w} => Ready(w) /\ e = Asked(w, fresh))
        /\ d.active = e.active /\ d.receiver = e.receiver
        /\ d.stage = e.stage /\ d.awaiting_ack = e.awaiting_ack
        /\ d.target_view = e.target_view /\ d.last_ui_slot = e.last_ui_slot
  BY ScanOutcome
<1>3. PICK e \in {c, w, Asked(w, fresh)} :
        /\ (e \notin {c, w} => Ready(w) /\ e = Asked(w, fresh))
        /\ d.active = e.active /\ d.receiver = e.receiver
        /\ d.stage = e.stage /\ d.awaiting_ack = e.awaiting_ack
        /\ d.target_view = e.target_view /\ d.last_ui_slot = e.last_ui_slot
  BY <1>2
<1>4. CASE e = c \/ (e = w /\ w = c)
  BY <1>3, <1>4, WalkUnmoved DEF Unmoved
(* The session was swept: its plan was dropped, or replaced, or both. *)
<1>5. CASE ~Serviceable(c)
  <2>1. w = c
    BY <1>5 DEF Swept
  <2>2. ~Ready(w)
    BY <2>1, <1>5 DEF Ready
  <2>. QED  BY <1>3, <1>4, <2>1, <2>2
<1>6. CASE Serviceable(c)
  <2>. DEFINE x == TimedOut(c)
  <2>1. /\ w = Replanned(x) /\ x \in Session /\ c.active
        /\ c.receiver \in Receivers
    BY <1>1, <1>6, TimedOutType DEF Swept, Serviceable, ControlInv, Sound
  <2>2. x = c \/ (c.awaiting_ack /\ x = Failed(c))
    BY DEF TimedOut
  <2>3. /\ x.active /\ x.receiver = c.receiver /\ x.target_view = c.target_view
        /\ x = Failed(c) /\ c.awaiting_ack => /\ ~x.awaiting_ack
                                              /\ x.stage = "idle"
        /\ x.last_ui_slot = IF x # c /\ c.stage = "show" THEN NoUi
                                                         ELSE c.last_ui_slot
    <3>1. /\ Failed(c).active = c.active /\ Failed(c).receiver = c.receiver
          /\ Failed(c).target_view = c.target_view
          /\ Failed(c).awaiting_ack = FALSE /\ Failed(c).stage = "idle"
          /\ Failed(c).last_ui_slot = IF c.stage = "show" THEN NoUi
                                                         ELSE c.last_ui_slot
      BY <1>1 DEF Failed, Session
    <3>. HIDE DEF x, c
    <3>2. c.awaiting_ack => Failed(c) # c
      BY <3>1
    <3>. QED  BY <2>1, <2>2, <3>1, <3>2
  <2>. HIDE DEF x
  <2>4. CASE w # x
    <3>1. /\ ~x.awaiting_ack /\ x.pending_view # NoView
          /\ w = [x EXCEPT !.target_view = x.pending_view,
                           !.pending_view = NoView, !.view_due = FALSE,
                           !.stage = IF x.last_ui_slot # UiSlot(x.pending_view)
                                     THEN "show" ELSE "view"]
      BY <2>1, <2>4 DEF Replanned
    <3>2. /\ w.active /\ w.receiver = c.receiver /\ ~w.awaiting_ack
          /\ w.target_view = x.pending_view /\ x.pending_view \in Views
          /\ w.last_ui_slot = x.last_ui_slot
          /\ w.stage = IF x.last_ui_slot # UiSlot(x.pending_view)
                       THEN "show" ELSE "view"
      BY <2>1, <2>3, <3>1 DEF Session
    <3>3. x.last_ui_slot = IF c.awaiting_ack /\ c.stage = "show" THEN NoUi
                                                        ELSE c.last_ui_slot
      BY <2>2, <2>3, <3>1
    <3>4. CASE e \in {w, Asked(w, fresh)}
      <4>1. /\ e.active /\ e.receiver = c.receiver
            /\ e.awaiting_ack \in BOOLEAN
            /\ e.target_view = x.pending_view
            /\ e.last_ui_slot = x.last_ui_slot /\ e.stage = w.stage
        BY ZenonT(40), <1>1, <3>2, <3>4 DEF Asked, Session
      <4>2. /\ d.active /\ d.receiver = c.receiver
            /\ d.awaiting_ack \in BOOLEAN
            /\ d.target_view = x.pending_view
            /\ d.last_ui_slot = x.last_ui_slot
            /\ d.stage = IF d.last_ui_slot # UiSlot(x.pending_view)
                         THEN "show" ELSE "view"
        BY <1>3, <3>2, <4>1
      <4>. QED  BY <1>1, <2>1, <3>2, <3>3, <4>2, WalkAim
    <3>. QED  BY <1>3, <1>4, <3>4
  <2>5. CASE w = x /\ x # c
    <3>1. ~Ready(w) /\ w = Failed(c) /\ c.awaiting_ack
      BY <2>2, <2>3, <2>5 DEF Ready
    <3>2. CASE e = w
      <4>1. /\ w.active /\ w.receiver = c.receiver /\ ~w.awaiting_ack
            /\ w.stage = "idle" /\ w.target_view = c.target_view
            /\ w.last_ui_slot = IF c.stage = "show" THEN NoUi
                                                    ELSE c.last_ui_slot
            /\ w.awaiting_ack = FALSE
        BY <1>1, <2>3, <2>5, <3>1 DEF Session
      <4>2. Acked(s)!Abandon
        BY <1>1, <1>3, <2>1, <3>1, <3>2, <4>1
        DEF Acked!Abandon, Acked!UiAfterFailure, Acked!NoUi, NoUi
      <4>. QED  BY <4>2 DEF Acked!Next
    <3>. QED  BY <1>3, <1>4, <3>1, <3>2
  <2>6. CASE w = c
    <3>1. CASE e = Asked(c, fresh) /\ e # c
      <4>1. Ready(c)
        BY <1>3, <2>6, <3>1
      <4>2. /\ e.active /\ e.receiver = c.receiver /\ e.awaiting_ack = TRUE
            /\ e.stage = c.stage /\ e.target_view = c.target_view
            /\ e.last_ui_slot = c.last_ui_slot
        BY <1>1, <2>1, <3>1 DEF Asked, Session
      <4>3. ~c.awaiting_ack /\ c.stage # "idle"
        BY <4>1 DEF Ready
      <4>4. Acked(s)!Ask
        BY <1>1, <1>3, <2>1, <4>2, <4>3 DEF Acked!Ask
      <4>. QED  BY <4>4 DEF Acked!Next
    <3>. QED  BY <1>3, <1>4, <2>6, <3>1
  <2>. QED  BY <2>4, <2>5, <2>6
<1>. QED  BY <1>5, <1>6

(* Every step of the program is, for every session, a step of the abstract *)
(* walk of acknowledged commands: property WalksAcknowledged.              *)
THEOREM WalksAreAcknowledged == Spec => WalksAcknowledged
<1>1. Init => \A s \in Slots : Acked(s)!Init
  BY WalkInit
<1>2. ASSUME ControlInv, [Next]_vars
      PROVE  \A s \in Slots : [Acked(s)!Next]_(Acked(s)!vars)
  <2>1. ASSUME NEW s \in Slots
        PROVE  Acked(s)!Next
    <3>1. TypeOK
      BY <1>2 DEF ControlInv
    <3>. QED
      BY <1>2, <3>1, <2>1, StepKinds, WalkBystander, WalkSetup, WalkTick,
         WalkZoomOrReturned, WalkDispatchFailed, WalkCompletion
  <2>. QED  BY <2>1
<1>3. ControlInv /\ [Next]_vars
        => [\A s \in Slots : [Acked(s)!Next]_(Acked(s)!vars)]_vars
  BY <1>2
<1>. QED  BY <1>1, <1>3, ControlInvariant, PTL DEF Spec, WalksAcknowledged
-----------------------------------------------------------------------------
(* What a session believes of the phone.  UiBeliefIsConfirmed needs that   *)
(* no showUI is still on its way but the one waited for: an answer in      *)
(* order, to the newest command of its receiver, is the last there is.     *)

(* The commands whose answer is still to come.                             *)
Outstanding ==
  wire \cup (IF worker.pc \in {"zoom", "send"} THEN {worker.request} ELSE {})

(* Commands are told apart by their tokens; one in hand is newer than all  *)
(* on the wire; the one a session waits for is its receiver's newest.      *)
WireBooks ==
  /\ \A m, n \in wire : m.token = n.token => m = n
  /\ worker.pc = "send" => worker.request.receiver \in Receivers
  /\ worker.pc = "zoom" => worker.request = NoContext
                           \/ worker.request.receiver \in Receivers
  /\ worker.pc \in {"zoom", "send"} /\ worker.request.receiver \in Receivers
       => \A m \in wire : m.token < worker.request.token
  /\ \A s \in Slots, m \in Outstanding :
       st[s].active /\ st[s].awaiting_ack /\ m.receiver = st[s].receiver
         => m.token <= st[s].token

Believed(s) ==
  InOrder /\ st[s].active /\ ~st[s].stop_requested /\ st[s].last_ui_slot # NoUi
  => /\ confirmed[st[s].receiver].ui = st[s].last_ui_slot
     /\ \A m \in Outstanding :
          m.receiver = st[s].receiver /\ m.stage = "show"
          => /\ Owns(st[s], m) /\ Current(st[s], m)

Beliefs ==
  /\ Books
  /\ WireBooks
  /\ \A s \in Slots : Believed(s)

LEMMA BeliefsTyped ==
  ASSUME Beliefs
  PROVE  /\ TypeOK /\ ControlInv /\ Identities
         /\ request_serial \in Nat /\ st \in [Slots -> Session]
         /\ confirmed \in [Receivers -> [ui : {NoUi, 0, 1},
                                         view : Views \cup {NoView}]]
         /\ \A s \in Slots : /\ st[s] \in Session /\ st[s].token \in Nat
                             /\ st[s].active => st[s].receiver \in Receivers
         /\ \A m \in wire : m \in Context /\ m.token \in Nat
         /\ worker.request \in Context /\ worker.request.token \in Nat
BY DEF Beliefs, Books, ControlInv, TypeOK, Session, Context, Sound

LEMMA BeliefsInit == Init => Beliefs
<1>. SUFFICES ASSUME Init PROVE Beliefs
  OBVIOUS
<1>1. /\ \A s \in Slots : st[s] = Cleared
      /\ wire = {} /\ worker.pc = "tick"
  BY DEF Init
<1>2. WireBooks
  BY <1>1 DEF WireBooks, Outstanding
<1>3. \A s \in Slots : Believed(s)
  BY <1>1 DEF Believed, Cleared
<1>. QED  BY BooksInit, <1>2, <1>3 DEF Beliefs

(* A step that asks for nothing and confirms nothing.                      *)
LEMMA BeliefsKept ==
  ASSUME Beliefs, Books', Outstanding' \subseteq Outstanding,
         UNCHANGED confirmed,
         wire' \subseteq wire \/ (worker.pc = "send"
                                  /\ wire' = wire \cup {worker.request}),
         worker'.pc \in {"zoom", "send"}
           => /\ worker.pc \in {"zoom", "send"}
              /\ worker'.request = worker.request /\ wire' \subseteq wire,
         worker'.pc = "send" => worker'.request.receiver \in Receivers,
         worker'.pc = "zoom" => worker.pc = "zoom",
         \A s \in Slots :
           \/ ~st'[s].active
           \/ /\ st'[s].receiver = st[s].receiver
              /\ st'[s].generation = st[s].generation
              /\ st'[s].active = st[s].active
              /\ st[s].stop_requested => st'[s].stop_requested
              /\ st'[s].token = st[s].token
              /\ st'[s].awaiting_ack => st[s].awaiting_ack
              /\ \/ /\ st'[s].awaiting_ack = st[s].awaiting_ack
                    /\ st'[s].stage = st[s].stage
                    /\ st'[s].last_ui_slot = st[s].last_ui_slot
                 \/ /\ st'[s].last_ui_slot = IF st[s].stage = "show" THEN NoUi
                                             ELSE st[s].last_ui_slot
           \/ st'[s].last_ui_slot = NoUi /\ ~st'[s].awaiting_ack
  PROVE  Beliefs'
<1>1. WireBooks'
  <2>1. \A m, n \in wire' : m.token = n.token => m = n
    <3>1. CASE wire' \subseteq wire
      BY <3>1 DEF Beliefs, WireBooks
    <3>2. CASE worker.pc = "send" /\ wire' = wire \cup {worker.request}
      <4>1. \A m \in wire : m.token < worker.request.token
        BY <3>2 DEF Beliefs, WireBooks
      <4>. QED  BY <3>2, <4>1, BeliefsTyped DEF Beliefs, WireBooks
    <3>. QED  BY <3>1, <3>2
  <2>2. /\ worker'.pc = "send" => worker'.request.receiver \in Receivers
        /\ worker'.pc = "zoom" => worker'.request = NoContext
                                   \/ worker'.request.receiver \in Receivers
    BY DEF Beliefs, WireBooks
  <2>3. worker'.pc \in {"zoom", "send"} /\ worker'.request.receiver \in Receivers
          => \A m \in wire' : m.token < worker'.request.token
    BY DEF Beliefs, WireBooks
  <2>4. ASSUME NEW s \in Slots, NEW m \in Outstanding',
               st'[s].active, st'[s].awaiting_ack,
               m.receiver = st'[s].receiver
        PROVE  m.token <= st'[s].token
    BY <2>4 DEF Beliefs, WireBooks
  <2>. QED  BY <2>1, <2>2, <2>3, <2>4 DEF WireBooks
<1>2. ASSUME NEW s \in Slots
      PROVE  Believed(s)'
  <2>. SUFFICES ASSUME InOrder, st'[s].active, ~st'[s].stop_requested,
                       st'[s].last_ui_slot # NoUi
                PROVE  /\ confirmed'[st'[s].receiver].ui = st'[s].last_ui_slot
                       /\ \A m \in Outstanding' :
                            m.receiver = st'[s].receiver /\ m.stage = "show"
                            => /\ Owns(st'[s], m) /\ Current(st'[s], m)
    BY DEF Believed, Owns, Current
  <2>1. /\ st[s].active /\ ~st[s].stop_requested
        /\ st[s].last_ui_slot = st'[s].last_ui_slot
        /\ st'[s].receiver = st[s].receiver
        /\ st'[s].generation = st[s].generation
        /\ st'[s].token = st[s].token
        /\ \/ /\ st'[s].awaiting_ack = st[s].awaiting_ack
              /\ st'[s].stage = st[s].stage
           \/ st[s].stage # "show"
    OBVIOUS
  <2>2. /\ confirmed[st[s].receiver].ui = st[s].last_ui_slot
        /\ \A m \in Outstanding :
             m.receiver = st[s].receiver /\ m.stage = "show"
             => /\ Owns(st[s], m) /\ Current(st[s], m)
    BY <2>1 DEF Beliefs, Believed
  <2>. QED  BY <2>1, <2>2 DEF Owns, Current
<1>. QED  BY <1>1, <1>2 DEF Beliefs

LEMMA BeliefsBystander ==
  ASSUME Beliefs, Books', Bystander
  PROVE  Beliefs'
<1>1. Outstanding' = Outstanding /\ UNCHANGED <<worker, wire, confirmed>>
  BY DEF Bystander, Outstanding
<1>2. \A s \in Slots :
        \/ ~st'[s].active
        \/ Aside(st[s], st'[s])
  BY DEF Bystander, Cleared
<1>3. worker.pc = "send" => worker.request.receiver \in Receivers
  BY DEF Beliefs, WireBooks
<1>. QED  BY <1>1, <1>2, <1>3, BeliefsKept DEF Aside

LEMMA BeliefsSetup ==
  ASSUME Beliefs, Books', NEW r \in Receivers, Setup(r)
  PROVE  Beliefs'
<1>1. PICK n \in Slots : st' = [st EXCEPT ![n] = Allocated(r, generation_serial + 1)]
  BY DEF Setup
<1>2. UNCHANGED <<worker, wire, confirmed>> /\ Outstanding' = Outstanding
  BY DEF Setup, threadVars, phoneVars, Outstanding
<1>3. st'[n].last_ui_slot = NoUi /\ ~st'[n].awaiting_ack
  <2>1. st'[n] = Allocated(r, generation_serial + 1)
    BY <1>1, BeliefsTyped
  <2>. QED  BY <2>1 DEF Allocated, Cleared
<1>4. \A s \in Slots : s # n => st'[s] = st[s]
  BY <1>1, BeliefsTyped
<1>5. worker.pc = "send" => worker.request.receiver \in Receivers
  BY DEF Beliefs, WireBooks
<1>. QED  BY <1>2, <1>3, <1>4, <1>5, BeliefsKept

LEMMA BeliefsCommands ==
  ASSUME Beliefs, Books',
         \/ ZoomSent \/ SendCommand \/ CommandReturned \/ DispatchFailed
         \/ \E m \in wire : NeverAnswered(m)
  PROVE  Beliefs'
<1>0. /\ TypeOK /\ st \in [Slots -> Session]
      /\ \A s \in Slots : st[s] \in Session
      /\ UNCHANGED confirmed
  BY BeliefsTyped DEF ZoomSent, SendCommand, CommandReturned, DispatchFailed,
                      NeverAnswered, phoneVars
<1>1. CASE ZoomSent
  <2>1. \A s \in Slots :
          /\ st'[s].receiver = st[s].receiver
          /\ st'[s].generation = st[s].generation
          /\ st'[s].active = st[s].active
          /\ st'[s].stop_requested = st[s].stop_requested
          /\ st'[s].token = st[s].token
          /\ st'[s].awaiting_ack = st[s].awaiting_ack
          /\ st'[s].stage = st[s].stage
          /\ st'[s].last_ui_slot = st[s].last_ui_slot
    BY <1>0, <1>1 DEF ZoomSent, Session
  <2>2. /\ worker.pc = "zoom" /\ wire' = wire
        /\ worker'.request = worker.request
        /\ worker'.pc \in {"tick", "send"}
        /\ worker'.pc = "send" => worker.request # NoContext
    BY <1>0, <1>1 DEF ZoomSent, phoneVars, TypeOK
  <2>3. Outstanding' \subseteq Outstanding
    BY <2>2 DEF Outstanding
  <2>4. worker'.pc = "send" => worker'.request.receiver \in Receivers
    BY <2>2 DEF Beliefs, WireBooks
  <2>. QED  BY <1>0, <2>1, <2>2, <2>3, <2>4, BeliefsKept
<1>2. CASE SendCommand
  <2>1. /\ worker.pc = "send" /\ worker'.pc \in {"sent", "refused"}
        /\ wire' \in {wire, wire \cup {worker.request}} /\ st' = st
    BY <1>0, <1>2 DEF SendCommand, TypeOK
  <2>2. Outstanding' \subseteq Outstanding
    BY <2>1 DEF Outstanding
  <2>. QED  BY <1>0, <2>1, <2>2, BeliefsKept
<1>3. CASE CommandReturned
  <2>1. /\ worker'.pc \in {"tick", "failed"} /\ wire' = wire
    BY <1>0, <1>3 DEF CommandReturned, phoneVars, TypeOK
  <2>2. \A s \in Slots :
          /\ st'[s].receiver = st[s].receiver
          /\ st'[s].generation = st[s].generation
          /\ st'[s].active = st[s].active
          /\ st'[s].stop_requested = st[s].stop_requested
          /\ st'[s].token = st[s].token
          /\ st'[s].awaiting_ack = st[s].awaiting_ack
          /\ st'[s].stage = st[s].stage
          /\ st'[s].last_ui_slot = st[s].last_ui_slot
    BY <1>0, <1>3 DEF CommandReturned, Session
  <2>3. Outstanding' \subseteq Outstanding
    BY <2>1 DEF Outstanding
  <2>. QED  BY <1>0, <2>1, <2>2, <2>3, BeliefsKept
<1>4. CASE DispatchFailed
  <2>1. worker'.pc = "tick" /\ wire' = wire
    BY <1>0, <1>4 DEF DispatchFailed, phoneVars, TypeOK
  <2>2. \A c \in Session :
          /\ Failed(c).receiver = c.receiver
          /\ Failed(c).generation = c.generation
          /\ Failed(c).active = c.active
          /\ Failed(c).stop_requested = c.stop_requested
          /\ Failed(c).token = c.token
          /\ Failed(c).awaiting_ack = FALSE
          /\ Failed(c).last_ui_slot = IF c.stage = "show" THEN NoUi
                                                          ELSE c.last_ui_slot
    BY DEF Failed, Session
  <2>3. \A s \in Slots : st'[s] \in {st[s], Failed(st[s])}
    BY <1>4 DEF DispatchFailed
  <2>4. Outstanding' \subseteq Outstanding
    BY <2>1 DEF Outstanding
  <2>. QED  BY <1>0, <2>1, <2>2, <2>3, <2>4, BeliefsKept
<1>5. CASE \E m \in wire : NeverAnswered(m)
  <2>1. /\ worker' = worker /\ wire' \subseteq wire /\ st' = st
    BY <1>5 DEF NeverAnswered, threadVars
  <2>2. Outstanding' \subseteq Outstanding
    BY <2>1 DEF Outstanding
  <2>3. worker.pc = "send" => worker.request.receiver \in Receivers
    BY DEF Beliefs, WireBooks
  <2>. QED  BY <1>0, <2>1, <2>2, <2>3, BeliefsKept
<1>. QED  BY <1>1, <1>2, <1>3, <1>4, <1>5

LEMMA BeliefsCompletion ==
  ASSUME Beliefs, Books', NEW m \in wire, NEW ok \in BOOLEAN, Completion(m, ok)
  PROVE  Beliefs'
<1>0. /\ TypeOK /\ ControlInv /\ Identities /\ st \in [Slots -> Session]
      /\ m \in Context /\ m.token \in Nat /\ m.stage \in Stages
      /\ m.receiver \in Receivers \cup {NoReceiver}
      /\ \A s \in Slots : /\ st[s] \in Session /\ st[s].token \in Nat
                          /\ st[s].active => st[s].receiver \in Receivers
      /\ confirmed \in [Receivers -> [ui : {NoUi, 0, 1},
                                      view : Views \cup {NoView}]]
  BY BeliefsTyped DEF Context
<1>1. /\ wire' = wire \ {m} /\ worker' = worker
      /\ Outstanding' \subseteq Outstanding
  BY DEF Completion, threadVars, Outstanding
<1>2. ASSUME NEW s \in Slots, ~Valid(st[s], m)
      PROVE  st'[s] = st[s]
  BY <1>2 DEF Completion
<1>3. ASSUME NEW s \in Slots, Valid(st[s], m)
      PROVE  /\ st'[s].receiver = st[s].receiver
             /\ st'[s].active = st[s].active
             /\ st'[s].stop_requested = st[s].stop_requested
             /\ st'[s].awaiting_ack = FALSE
             /\ st'[s].last_ui_slot = IF m.stage # "show" THEN st[s].last_ui_slot
                                      ELSE IF ok THEN UiSlot(m.view) ELSE NoUi
  <2>1. st'[s] = IF ok THEN Succeeded(st[s], m) ELSE Failed(st[s])
    BY <1>3 DEF Completion
  <2>2. m.stage = st[s].stage
    BY <1>3 DEF Valid, Current
  <2>3. CASE ok
    BY <1>0, <2>1, <2>2, <2>3 DEF Succeeded, Session
  <2>4. CASE ~ok
    BY <1>0, <2>1, <2>2, <2>4 DEF Failed, Session
  <2>. QED  BY <2>3, <2>4
<1>4. WireBooks'
  <2>1. ASSUME NEW s \in Slots, NEW n \in Outstanding',
               st'[s].active, st'[s].awaiting_ack,
               n.receiver = st'[s].receiver
        PROVE  n.token <= st'[s].token
    <3>1. st'[s] = st[s]
      BY <1>2, <1>3, <2>1
    <3>. QED  BY <1>1, <2>1, <3>1 DEF Beliefs, WireBooks
  <2>. QED  BY <1>1, <2>1 DEF Beliefs, WireBooks
(* The only answer that tells a session of another layout is the one it    *)
(* waits for, and after it no other showUI is under way.                   *)
<1>5. ASSUME NEW r \in Receivers
      PROVE  confirmed'[r].ui = IF ok /\ m.stage = "show" /\ m.receiver = r
                                THEN UiSlot(m.view) ELSE confirmed[r].ui
  <2>1. CASE ok
    <3>1. confirmed' = [confirmed EXCEPT ![m.receiver] = Shows(@, m)]
      BY <2>1 DEF Completion
    <3>2. CASE m.receiver = r
      <4>1. confirmed'[r] = Shows(confirmed[r], m)
        BY <1>0, <3>1, <3>2
      <4>. QED  BY <1>0, <2>1, <3>2, <4>1 DEF Shows
    <3>3. CASE m.receiver # r
      BY <1>0, <3>1, <3>3
    <3>. QED  BY <3>2, <3>3
  <2>2. CASE ~ok
    BY <2>2 DEF Completion
  <2>. QED  BY <2>1, <2>2
<1>6. ASSUME NEW s \in Slots
      PROVE  Believed(s)'
  <2>. SUFFICES ASSUME InOrder, st'[s].active, ~st'[s].stop_requested,
                       st'[s].last_ui_slot # NoUi
                PROVE  /\ confirmed'[st'[s].receiver].ui = st'[s].last_ui_slot
                       /\ \A n \in Outstanding' :
                            n.receiver = st'[s].receiver /\ n.stage = "show"
                            => /\ Owns(st'[s], n) /\ Current(st'[s], n)
    BY DEF Believed, Owns, Current
  <2>. DEFINE r == st[s].receiver
  <2>1. /\ st[s].active /\ ~st[s].stop_requested /\ r \in Receivers
        /\ st'[s].receiver = r
    BY <1>0, <1>2, <1>3
  <2>2. CASE ~Valid(st[s], m)
    <3>1. Believed(s) /\ m \in Outstanding /\ st'[s] = st[s]
      BY <1>2, <2>2 DEF Beliefs, Outstanding
    <3>2. ~(m.stage = "show" /\ m.receiver = r)
      BY <2>1, <2>2, <3>1 DEF Believed, Valid
    <3>3. confirmed'[r].ui = confirmed[r].ui
      BY <1>5, <2>1, <3>2
    <3>. QED  BY <1>1, <2>1, <3>1, <3>3 DEF Believed
  <2>3. CASE Valid(st[s], m) /\ m.stage # "show"
    <3>1. /\ Believed(s) /\ st'[s].last_ui_slot = st[s].last_ui_slot
          /\ st[s].stage # "show"
      BY <1>3, <2>3 DEF Beliefs, Valid, Current
    <3>2. \A n \in Outstanding : ~(n.stage = "show" /\ n.receiver = r)
      BY <2>1, <3>1 DEF Believed, Current
    <3>3. confirmed'[r].ui = confirmed[r].ui
      BY <1>5, <2>1, <2>3
    <3>. QED  BY <1>1, <2>1, <3>1, <3>2, <3>3 DEF Believed
  <2>4. CASE Valid(st[s], m) /\ m.stage = "show"
    <3>1. /\ ok /\ st'[s].last_ui_slot = UiSlot(m.view) /\ m.receiver = r
          /\ st[s].awaiting_ack /\ st[s].token = m.token
      BY <1>3, <2>4 DEF Valid, Owns, Current
    <3>2. confirmed'[r].ui = st'[s].last_ui_slot
      BY <1>5, <2>1, <2>4, <3>1
    <3>3. ASSUME NEW n \in Outstanding', n.receiver = r
          PROVE  FALSE
      <4>1. n.token <= m.token
        BY <1>1, <2>1, <3>1, <3>3 DEF Beliefs, WireBooks
      <4>2. CASE n \in wire'
        <5>1. n \in wire /\ n # m /\ n.token \in Nat
          BY <1>1, <4>2, BeliefsTyped
        <5>2. m.token <= n.token
          BY <3>1, <3>3, <5>1 DEF Completion
        <5>3. \A x, y \in Nat : x <= y /\ y <= x => x = y
          OBVIOUS
        <5>4. n.token = m.token
          BY <1>0, <4>1, <5>1, <5>2, <5>3, Zenon
        <5>. QED  BY <5>1, <5>4 DEF Beliefs, WireBooks
      <4>3. CASE worker.pc \in {"zoom", "send"} /\ n = worker.request
        <5>1. m.token < n.token /\ n.token \in Nat
          BY <2>1, <3>3, <4>3, BeliefsTyped DEF Beliefs, WireBooks
        <5>. QED  BY <1>0, <4>1, <5>1
      <4>. QED  BY <1>1, <3>3, <4>2, <4>3 DEF Outstanding
    <3>. QED  BY <2>1, <3>2, <3>3
  <2>. QED  BY <2>2, <2>3, <2>4
<1>. QED  BY <1>4, <1>6 DEF Beliefs
LEMMA BeliefsTick ==
  ASSUME Beliefs, Books', Tick
  PROVE  Beliefs'
<1>. DEFINE fresh == request_serial + 1
            k == First(Asking)
            new == worker'.request
<1>0. /\ TypeOK /\ ControlInv /\ Identities /\ st \in [Slots -> Session]
      /\ request_serial \in Nat /\ worker.pc = "tick"
      /\ \A s \in Slots : /\ st[s] \in Session /\ st[s].token \in Nat
                          /\ st[s].active => st[s].receiver \in Receivers
      /\ \A m \in wire : m \in Context /\ m.token \in Nat
      /\ wire' = wire /\ confirmed' = confirmed
  BY BeliefsTyped DEF Tick, phoneVars
<1>1. Outstanding = wire
  BY <1>0 DEF Outstanding
<1>2. \A m \in wire : m.token < fresh
  BY <1>0 DEF ControlInv, TokensIssued, Commands
(* The session that is asked, and the command it is asked for. *)
<1>3. ASSUME NEW s \in Asking
      PROVE  /\ s \in Slots /\ s = k
             /\ st'[s].active /\ st'[s].receiver = st[s].receiver
             /\ st[s].active /\ st[s].receiver \in Receivers
             /\ ~st[s].stop_requested
             /\ st'[s].token = fresh /\ st'[s].awaiting_ack
             /\ new.receiver = st[s].receiver /\ new.token = fresh
             /\ Owns(st'[s], new) /\ Current(st'[s], new)
  <2>. DEFINE w == Swept(st[s])
  <2>1. s \in Slots /\ s = k
    BY OneIsAsked
  <2>2. w \in Session /\ Serviceable(st[s]) /\ fresh \in Nat
    <3>1. Serviceable(w)
      BY DEF Asking, ReadySlots, Ready
    <3>2. ~Serviceable(st[s]) => w = st[s]
      BY DEF Swept
    <3>. QED  BY <1>0, <2>1, <3>1, <3>2, SweptType
  <2>3. w.receiver = st[s].receiver /\ w.active
    <3>1. \A c \in Session : Failed(c).receiver = c.receiver
                             /\ Failed(c).active = c.active
      BY DEF Failed, Session
    <3>2. \A c \in Session : Replanned(c).receiver = c.receiver
                             /\ Replanned(c).active = c.active
      BY DEF Replanned, Session
    <3>. QED  BY <1>0, <2>1, <2>2, <3>1, <3>2, TimedOutType
              DEF Swept, TimedOut, Serviceable
  <2>4. new = RequestOf(w, fresh)
    BY <2>1 DEF Tick
  <2>5. LET e == Asked(w, fresh) IN
        /\ st'[s].active = e.active /\ st'[s].receiver = e.receiver
        /\ st'[s].generation = e.generation /\ st'[s].token = e.token
        /\ st'[s].stage = e.stage /\ st'[s].awaiting_ack = e.awaiting_ack
    BY <1>0, <2>1, ScanOutcome
  <2>6. /\ st'[s].active /\ st'[s].receiver = w.receiver
        /\ st'[s].generation = w.generation /\ st'[s].token = fresh
        /\ st'[s].stage = w.stage /\ st'[s].awaiting_ack = TRUE
    BY <2>2, <2>3, <2>5 DEF Asked, Session
  <2>. QED  BY <1>0, <2>1, <2>2, <2>3, <2>4, <2>6
            DEF RequestOf, Owns, Current, Serviceable
(* A session that is not asked may have been swept. *)
<1>4. ASSUME NEW s \in Slots
      PROVE  /\ st'[s].active = st[s].active
             /\ st'[s].receiver = st[s].receiver
             /\ st'[s].stop_requested = st[s].stop_requested
             /\ \/ /\ st'[s].awaiting_ack = st[s].awaiting_ack
                   /\ st'[s].stage = st[s].stage
                   /\ st'[s].token = st[s].token
                   /\ st'[s].generation = st[s].generation
                   /\ st'[s].last_ui_slot = st[s].last_ui_slot
                \/ /\ ~st[s].awaiting_ack \/ st[s].stage # "show"
                   /\ st'[s].last_ui_slot = st[s].last_ui_slot
                   /\ s \in Asking \/ ~st'[s].awaiting_ack
                \/ /\ st'[s].last_ui_slot = NoUi
                   /\ s \in Asking \/ ~st'[s].awaiting_ack
  <2>. DEFINE c == st[s]
              w == Swept(c)
  <2>1. c \in Session /\ w \in Session /\ fresh \in Nat
    BY <1>0, SweptType
  <2>2. /\ w.active = c.active /\ w.receiver = c.receiver
        /\ w.stop_requested = c.stop_requested
        /\ \/ w = c
           \/ /\ ~w.awaiting_ack
              /\ \/ /\ ~c.awaiting_ack \/ c.stage # "show"
                    /\ w.last_ui_slot = c.last_ui_slot
                 \/ w.last_ui_slot = NoUi
    <3>1. /\ Failed(c).receiver = c.receiver /\ Failed(c).active = c.active
          /\ Failed(c).stop_requested = c.stop_requested
          /\ Failed(c).awaiting_ack = FALSE
          /\ Failed(c).last_ui_slot = IF c.stage = "show" THEN NoUi
                                                          ELSE c.last_ui_slot
      BY <2>1 DEF Failed, Session
    <3>2. \A x \in Session :
            /\ Replanned(x).receiver = x.receiver
            /\ Replanned(x).active = x.active
            /\ Replanned(x).stop_requested = x.stop_requested
            /\ Replanned(x).awaiting_ack = x.awaiting_ack
            /\ Replanned(x).last_ui_slot = x.last_ui_slot
            /\ Replanned(x) = x \/ ~x.awaiting_ack
      BY DEF Replanned, Session
    <3>3. CASE TimedOut(c) = c
      BY <2>1, <3>2, <3>3 DEF Swept
    <3>4. CASE TimedOut(c) = Failed(c)
      BY <2>1, <3>1, <3>2, <3>4, FailedType DEF Swept
    <3>. QED  BY <3>3, <3>4 DEF TimedOut
  <2>3. CASE s \in Asking
    <3>1. LET e == Asked(w, fresh) IN
          /\ Ready(w)
          /\ st'[s].active = e.active /\ st'[s].receiver = e.receiver
          /\ st'[s].stop_requested = e.stop_requested
          /\ st'[s].last_ui_slot = e.last_ui_slot
      BY <1>0, <2>3, ScanOutcome
    <3>2. /\ ~w.awaiting_ack
          /\ st'[s].active = w.active /\ st'[s].receiver = w.receiver
          /\ st'[s].stop_requested = w.stop_requested
          /\ st'[s].last_ui_slot = w.last_ui_slot
      BY <2>1, <3>1 DEF Asked, Session, Ready
    <3>. QED  BY <2>2, <2>3, <3>2
  <2>4. CASE s \notin Asking
    <3>1. \E e \in {c, w} :
            /\ st'[s].active = e.active /\ st'[s].receiver = e.receiver
            /\ st'[s].generation = e.generation /\ st'[s].token = e.token
            /\ st'[s].stop_requested = e.stop_requested
            /\ st'[s].stage = e.stage /\ st'[s].awaiting_ack = e.awaiting_ack
            /\ st'[s].last_ui_slot = e.last_ui_slot
      BY <1>0, <2>4, ScanOutcome
    <3>. QED  BY <2>2, <3>1
  <2>. QED  BY <2>3, <2>4
<1>5. IF Asking = {} THEN new = NoContext
                     ELSE k \in Asking
  <2>1. Asking # {} => k \in Asking
    BY FirstIsSmallest DEF Asking, ReadySlots
  <2>. QED  BY <2>1 DEF Tick
<1>6. /\ Outstanding' \subseteq wire \cup {new}
      /\ worker'.pc = "send" => Asking # {}
      /\ worker'.pc \in {"tick", "send", "zoom"}
  BY <1>0 DEF Outstanding, Tick
<1>7. NoContext.receiver \notin Receivers /\ NoContext.stage # "show"
  BY ControlAssumption DEF NoContext
<1>8. WireBooks'
  <2>1. worker'.pc = "send" => new.receiver \in Receivers
    BY <1>3, <1>5, <1>6
  <2>2. new = NoContext \/ new.receiver \in Receivers
    BY <1>3, <1>5
  <2>3. new.receiver \in Receivers => \A m \in wire : m.token < new.token
    BY <1>2, <1>3, <1>5, <1>7
  <2>4. ASSUME NEW s \in Slots, NEW m \in Outstanding',
               st'[s].active, st'[s].awaiting_ack,
               m.receiver = st'[s].receiver
        PROVE  m.token <= st'[s].token
    <3>1. CASE s \in Asking
      <4>1. m.token < fresh \/ m.token = fresh
        BY <1>2, <1>3, <1>6, <3>1
      <4>2. st'[s].token = fresh
        BY <1>3, <3>1
      <4>3. m \in wire => m.token \in Nat
        BY <1>0
      <4>4. m = new => m.token = fresh
        BY <1>3, <3>1
      <4>. QED  BY <1>0, <1>2, <1>6, <2>4, <4>2, <4>3, <4>4
    <3>2. CASE s \notin Asking
      <4>1. /\ st[s].active /\ st[s].awaiting_ack
            /\ st'[s].token = st[s].token /\ m.receiver = st[s].receiver
            /\ st[s].receiver \in Receivers
        BY <1>0, <1>4, <2>4, <3>2
      <4>2. m # new
        BY <1>0, <1>3, <1>5, <1>7, <3>2, <4>1 DEF Identities
      <4>. QED  BY <1>1, <1>6, <2>4, <4>1, <4>2 DEF Beliefs, WireBooks
    <3>. QED  BY <3>1, <3>2
  <2>. QED  BY <1>0, <2>1, <2>2, <2>3, <2>4 DEF Beliefs, WireBooks
<1>9. ASSUME NEW s \in Slots
      PROVE  Believed(s)'
  <2>. SUFFICES ASSUME InOrder, st'[s].active, ~st'[s].stop_requested,
                       st'[s].last_ui_slot # NoUi
                PROVE  /\ confirmed'[st'[s].receiver].ui = st'[s].last_ui_slot
                       /\ \A m \in Outstanding' :
                            m.receiver = st'[s].receiver /\ m.stage = "show"
                            => /\ Owns(st'[s], m) /\ Current(st'[s], m)
    BY DEF Believed, Owns, Current
  <2>1. /\ st[s].active /\ ~st[s].stop_requested
        /\ st'[s].last_ui_slot = st[s].last_ui_slot
        /\ st'[s].receiver = st[s].receiver
        /\ st[s].receiver \in Receivers
    BY <1>0, <1>4
  <2>2. /\ confirmed[st[s].receiver].ui = st[s].last_ui_slot
        /\ \A m \in wire : m.receiver = st[s].receiver /\ m.stage = "show"
                           => Owns(st[s], m) /\ Current(st[s], m)
    BY <1>1, <2>1 DEF Beliefs, Believed
  <2>3. ASSUME NEW m \in wire, m.receiver = st[s].receiver, m.stage = "show"
        PROVE  Owns(st'[s], m) /\ Current(st'[s], m)
    <3>1. Owns(st[s], m) /\ Current(st[s], m)
      BY <2>2, <2>3
    <3>. QED  BY <1>4, <2>1, <2>3, <3>1 DEF Owns, Current
  <2>4. new.receiver = st[s].receiver => Owns(st'[s], new) /\ Current(st'[s], new)
    <3>1. CASE s \in Asking
      BY <1>3, <3>1
    <3>2. CASE s \notin Asking
      BY <1>0, <1>3, <1>5, <1>7, <2>1, <3>2 DEF Identities
    <3>. QED  BY <3>1, <3>2
  <2>. QED  BY <1>0, <1>6, <2>1, <2>2, <2>3, <2>4
<1>. QED  BY <1>8, <1>9 DEF Beliefs

LEMMA BeliefsInvariant == Spec => []Beliefs
<1>1. Init => Beliefs
  BY BeliefsInit
<1>2. ASSUME Beliefs, Books, Books', [Next]_vars
      PROVE  Beliefs'
  <2>1. TypeOK
    BY BeliefsTyped, <1>2
  <2>. QED
    BY <1>2, <2>1, StepKinds, BeliefsBystander, BeliefsSetup, BeliefsTick,
       BeliefsCommands, BeliefsCompletion
<1>. QED  BY <1>1, <1>2, BooksInvariant, PTL DEF Spec

(* While the transport answers in order, the layout a session believes the *)
(* phone to show is the one its answers have established, whichever of     *)
(* them came late or belonged to an earlier session (UiBeliefIsConfirmed). *)
THEOREM BeliefsConfirmed == Spec => []UiBeliefIsConfirmed
<1>1. Beliefs => UiBeliefIsConfirmed
  BY DEF Beliefs, Believed, UiBeliefIsConfirmed
<1>. QED  BY <1>1, BeliefsInvariant, PTL
-----------------------------------------------------------------------------
(* The latest request wins.  Besides the property itself the invariant     *)
(* needs only that a session whose screen has not started has no picture.  *)

Heading(c) == IF c.pending_view # NoView THEN c.pending_view ELSE c.target_view

Pictured(s) ==
  Serviceable(st[s]) /\ st[s].show_sent /\ thread[s] # "first_frame"

Lagging(r) == parser.pc = "queue" /\ parser.receiver = r

HeadsRight(s) ==
  Pictured(s) /\ Heading(st[s]) # NoView /\ ~Lagging(st[s].receiver)
  => Heading(st[s]) = RouteView(st[s], layout_slot)

NoEarlyPicture ==
  \A s \in Slots : thread[s] \in {"none", "waiting", "opened"}
                     => ~st[s].show_sent

Headings == TypeOK /\ NoEarlyPicture /\ \A s \in Slots : HeadsRight(s)

(* A step under which a session goes on towards the same view.             *)
Steady(s) ==
  /\ Heading(st'[s]) = Heading(st[s])
  /\ st'[s].route = st[s].route /\ st'[s].receiver = st[s].receiver
  /\ (Serviceable(st'[s]) /\ st'[s].show_sent /\ thread'[s] # "first_frame")
       => Pictured(s)

LEMMA SteadyHeads ==
  ASSUME NEW s \in Slots, HeadsRight(s), Steady(s),
         UNCHANGED layout_slot,
         \A r : Lagging(r) => Lagging(r)'
  PROVE  HeadsRight(s)'
BY DEF HeadsRight, Steady, Pictured, RouteView

LEMMA HeadingFields ==
  ASSUME NEW c \in Session
  PROVE  /\ Heading([c EXCEPT !.stop_requested = TRUE]) = Heading(c)
         /\ \A b \in BOOLEAN :
              Heading([c EXCEPT !.screen_started = b]) = Heading(c)
         /\ Heading([c EXCEPT !.show_sent = TRUE]) = Heading(c)
         /\ Heading([c EXCEPT !.view_due = TRUE]) = Heading(c)
         /\ Heading([c EXCEPT !.expired = TRUE]) = Heading(c)
         /\ \A n : Heading([c EXCEPT !.inflight = n]) = Heading(c)
         /\ \A n : Heading(Asked(c, n)) = Heading(c)
         /\ Heading(Failed(c)) = Heading(c)
         /\ \A m : Heading(Succeeded(c, m)) = Heading(c)
         /\ Heading(Replanned(c)) = Heading(c)
<1>. USE DEF Heading, Session
<1>1. /\ Heading([c EXCEPT !.stop_requested = TRUE]) = Heading(c)
      /\ \A b \in BOOLEAN :
           Heading([c EXCEPT !.screen_started = b]) = Heading(c)
      /\ Heading([c EXCEPT !.show_sent = TRUE]) = Heading(c)
      /\ Heading([c EXCEPT !.view_due = TRUE]) = Heading(c)
      /\ Heading([c EXCEPT !.expired = TRUE]) = Heading(c)
      /\ \A n : Heading([c EXCEPT !.inflight = n]) = Heading(c)
  OBVIOUS
<1>2. /\ \A n : Heading(Asked(c, n)) = Heading(c)
      /\ Heading(Failed(c)) = Heading(c)
  BY DEF Asked, Failed
<1>3. \A m : Heading(Succeeded(c, m)) = Heading(c)
  BY DEF Succeeded
<1>4. Heading(Replanned(c)) = Heading(c)
  BY DEF Replanned
<1>. QED  BY <1>1, <1>2, <1>3, <1>4

(* The fields of a session that the control worker never writes.           *)
Shown(c, d) ==
  /\ d.active = c.active /\ d.receiver = c.receiver /\ d.route = c.route
  /\ d.screen_started = c.screen_started /\ d.show_sent = c.show_sent
  /\ d.stop_requested = c.stop_requested
  /\ Heading(d) = Heading(c)

LEMMA ShownFields ==
  ASSUME NEW c \in Session
  PROVE  /\ Shown(c, c) /\ Shown(c, Failed(c)) /\ Shown(c, Swept(c))
         /\ \A m : Shown(c, Succeeded(c, m))
         /\ \A n \in Nat : Shown(c, [c EXCEPT !.inflight = n])
         /\ \A n \in Nat : Shown(c, Asked(c, n))
<1>1. \A x \in Session : Shown(x, Failed(x))
  BY HeadingFields DEF Shown, Failed, Session
<1>2. \A x \in Session : Shown(x, Replanned(x))
  BY HeadingFields DEF Shown, Replanned, Session
<1>3. Shown(c, Swept(c))
  BY <1>1, <1>2, TimedOutType DEF Swept, TimedOut, Shown
<1>4. \A m : Shown(c, Succeeded(c, m))
  <2>. TAKE m
  <2>1. Heading(Succeeded(c, m)) = Heading(c)
    BY HeadingFields
  <2>. QED  BY <2>1 DEF Shown, Succeeded, Session
<1>5. /\ \A n \in Nat : Shown(c, [c EXCEPT !.inflight = n])
      /\ \A n \in Nat : Shown(c, Asked(c, n))
  BY HeadingFields DEF Shown, Asked, Session
<1>. QED  BY <1>1, <1>3, <1>4, <1>5 DEF Shown

(* The control worker and the transport.                                   *)
LEMMA HeadingsControl ==
  ASSUME Headings, TypeOK',
         \/ ControlThread
         \/ \E m \in wire : \/ \E ok \in BOOLEAN : Completion(m, ok)
                            \/ NeverAnswered(m)
  PROVE  Headings'
<1>. USE DEF displayVars, outputVars, phoneVars, serialVars, threadVars
<1>0. st \in [Slots -> Session] /\ \A s \in Slots : st[s] \in Session
  BY DEF Headings, TypeOK
<1>1. UNCHANGED <<thread, layout_slot, parser>>
  BY DEF ControlThread, Tick, ZoomSent, SendCommand, CommandReturned,
         DispatchFailed, Completion, NeverAnswered
<1>2. ASSUME NEW s \in Slots
      PROVE  Shown(st[s], st'[s])
  <2>1. CASE Tick
    <3>. DEFINE w == Swept(st[s])
                fresh == request_serial + 1
    <3>a. w \in Session /\ Shown(st[s], w)
      BY <1>0, SweptType, ShownFields
    <3>b. fresh \in Nat
      BY DEF Headings, TypeOK
    <3>. HIDE DEF w, fresh
    <3>1. /\ w \in Session /\ fresh \in Nat /\ Asked(w, fresh) \in Session
          /\ Shown(st[s], w)
      BY <3>a, <3>b, AskedType
    <3>2. Shown(st[s], Asked(w, fresh))
      BY <3>1, ShownFields DEF Shown
    <3>3. AfterScan(s) \in {st[s], w, Asked(w, fresh)}
      BY DEF AfterScan, w, fresh
    <3>4. AfterScan(s) \in Session /\ Shown(st[s], AfterScan(s))
      BY <1>0, <3>1, <3>2, <3>3, ShownFields
    <3>. DEFINE more == AfterScan(s).inflight + 1
    <3>5. more \in Nat /\ Shown(AfterScan(s), [AfterScan(s) EXCEPT !.inflight = more])
      BY <3>4, ShownFields DEF Session
    <3>6. st'[s] \in {AfterScan(s), [AfterScan(s) EXCEPT !.inflight = more]}
      BY <2>1 DEF Tick
    <3>. QED  BY <3>4, <3>5, <3>6 DEF Shown
  <2>2. CASE ZoomSent \/ CommandReturned
    <3>. DEFINE less == st[s].inflight - 1
    <3>1. st[s].inflight > 0 => less \in Nat
      BY <1>0 DEF Session
    <3>2. \/ st'[s] = st[s]
          \/ st'[s] = [st[s] EXCEPT !.inflight = st[s].inflight]
          \/ st[s].inflight > 0 /\ st'[s] = [st[s] EXCEPT !.inflight = less]
      BY <1>0, <2>2 DEF ZoomSent, CommandReturned
    <3>3. st[s].inflight \in Nat
      BY <1>0 DEF Session
    <3>. HIDE DEF less
    <3>. QED  BY <1>0, <3>1, <3>2, <3>3, ShownFields
  <2>3. CASE SendCommand \/ \E m \in wire : NeverAnswered(m)
    BY <1>0, <2>3, ShownFields DEF SendCommand, NeverAnswered
  <2>4. CASE DispatchFailed
    BY <1>0, <2>4, ShownFields DEF DispatchFailed
  <2>5. CASE \E m \in wire, ok \in BOOLEAN : Completion(m, ok)
    BY <1>0, <2>5, ShownFields DEF Completion
  <2>. QED  BY <2>1, <2>2, <2>3, <2>4, <2>5 DEF ControlThread
<1>3. \A s \in Slots : Steady(s)
  BY <1>1, <1>2 DEF Shown, Steady, Pictured, Serviceable
<1>4. NoEarlyPicture'
  BY <1>1, <1>2 DEF Headings, NoEarlyPicture, Shown
<1>5. \A s \in Slots : HeadsRight(s)'
  BY <1>1, <1>3, SteadyHeads DEF Headings, Lagging
<1>. QED  BY <1>4, <1>5 DEF Headings

(* The session and stream threads, and the clock.                          *)
LEMMA HeadingsSession ==
  ASSUME Headings, TypeOK',
         \/ \E r \in Receivers : Setup(r)
         \/ \E s \in Slots : \/ SessionThread(s) \/ StreamThread(s)
                             \/ ViewSettles(s) \/ AckDeadline(s)
  PROVE  Headings'
<1>. USE DEF displayVars, outputVars, phoneVars, serialVars, threadVars
<1>0. /\ st \in [Slots -> Session] /\ \A s \in Slots : st[s] \in Session
      /\ thread \in [Slots -> {"none", "waiting", "opened", "playing",
                               "first_frame", "stopping", "exited"}]
  BY DEF Headings, TypeOK
<1>a. UNCHANGED <<layout_slot, parser>>
  BY DEF Setup, SessionThread, PrepareFails, StopRequest, Release,
         StreamThread, OutputOpen, ScreenStart, WorkerQuits, FirstFrame,
         RequestCluster, ScreenStop, ScreenEnd, ViewSettles, AckDeadline
<1>b. ASSUME NEW n \in Slots, \A s \in Slots \ {n} :
                                st'[s] = st[s] /\ thread'[s] = thread[s],
             HeadsRight(n)',
             thread'[n] \in {"none", "waiting", "opened"} => ~st'[n].show_sent
      PROVE  Headings'
  <2>1. \A s \in Slots \ {n} : Steady(s)
    BY <1>b DEF Steady, Pictured
  <2>2. \A s \in Slots \ {n} : HeadsRight(s)'
    BY <1>a, <2>1, SteadyHeads DEF Headings, Lagging
  <2>3. NoEarlyPicture'
    BY <1>b DEF Headings, NoEarlyPicture
  <2>. QED  BY <1>b, <2>2, <2>3 DEF Headings
<1>1. ASSUME NEW r \in Receivers, Setup(r)
      PROVE  Headings'
  <2>1. PICK n \in Slots :
          /\ st' = [st EXCEPT ![n] = Allocated(r, generation_serial + 1)]
          /\ thread' = [thread EXCEPT ![n] = "waiting"]
    BY <1>1 DEF Setup
  <2>2. ~st'[n].show_sent
    BY <1>0, <2>1 DEF Allocated, Cleared
  <2>3. HeadsRight(n)'
    BY <2>2 DEF HeadsRight, Pictured
  <2>. QED  BY <1>0, <1>b, <2>1, <2>2, <2>3
<1>2. ASSUME NEW s \in Slots, PrepareFails(s) \/ Release(s)
      PROVE  Headings'
  <2>1. /\ st' = [st EXCEPT ![s] = Cleared]
        /\ thread' = [thread EXCEPT ![s] = "none"]
    BY <1>2 DEF PrepareFails, Release
  <2>2. ~st'[s].show_sent
    BY <1>0, <2>1 DEF Cleared
  <2>3. HeadsRight(s)'
    BY <2>2 DEF HeadsRight, Pictured
  <2>. QED  BY <1>0, <1>b, <2>1, <2>2, <2>3
<1>3. ASSUME NEW s \in Slots, StopRequest(s)
      PROVE  Headings'
  <2>1. st' = [st EXCEPT ![s].stop_requested = TRUE] /\ thread' = thread
    BY <1>3 DEF StopRequest
  <2>2. st'[s].stop_requested /\ st'[s].show_sent = st[s].show_sent
    BY <1>0, <2>1 DEF Session
  <2>3. HeadsRight(s)'
    BY <2>2 DEF HeadsRight, Pictured, Serviceable
  <2>. QED  BY <1>0, <1>b, <2>1, <2>2, <2>3 DEF Headings, NoEarlyPicture
<1>4. ASSUME NEW s \in Slots, OutputOpen(s) \/ WorkerQuits(s)
      PROVE  Headings'
  <2>1. /\ st' = st
        /\ thread[s] \in {"waiting", "opened"}
        /\ thread' = [thread EXCEPT ![s] = thread'[s]]
    BY <1>0, <1>4 DEF OutputOpen, WorkerQuits
  <2>2. ~st'[s].show_sent
    BY <2>1 DEF Headings, NoEarlyPicture
  <2>3. HeadsRight(s)'
    BY <2>2 DEF HeadsRight, Pictured
  <2>. QED  BY <1>0, <1>b, <2>1, <2>2, <2>3
<1>5. ASSUME NEW s \in Slots, ScreenStart(s)
      PROVE  Headings'
  <2>1. /\ st' = [st EXCEPT ![s].screen_started = TRUE]
        /\ thread[s] = "opened"
        /\ thread' = [thread EXCEPT ![s] = "playing"]
    BY <1>5 DEF ScreenStart
  <2>2. ~st'[s].show_sent
    BY <1>0, <2>1 DEF Headings, NoEarlyPicture, Session
  <2>3. HeadsRight(s)'
    BY <2>2 DEF HeadsRight, Pictured
  <2>. QED  BY <1>0, <1>b, <2>1, <2>2, <2>3
<1>6. ASSUME NEW s \in Slots, FirstFrame(s)
      PROVE  Headings'
  <2>1. /\ st' = [st EXCEPT ![s].show_sent = TRUE]
        /\ thread' = [thread EXCEPT ![s] = "first_frame"]
    BY <1>6 DEF FirstFrame
  <2>2. thread'[s] = "first_frame"
    BY <1>0, <2>1
  <2>3. HeadsRight(s)'
    BY <2>2 DEF HeadsRight, Pictured
  <2>. QED  BY <1>0, <1>b, <2>1, <2>2, <2>3
<1>7. ASSUME NEW s \in Slots, RequestCluster(s)
      PROVE  Headings'
  <2>1. /\ thread' = [thread EXCEPT ![s] = "playing"]
        /\ st' = IF st[s].active /\ ~st[s].stop_requested
                 THEN [st EXCEPT ![s].pending_view = RouteView(st[s], layout_slot),
                                 ![s].view_due = TRUE,
                                 ![s].startup = TRUE]
                 ELSE st
    BY <1>7 DEF RequestCluster
  <2>2. RouteView(st[s], layout_slot) \in Views
    BY ViewFacts DEF Headings, TypeOK
  <2>3. CASE st[s].active /\ ~st[s].stop_requested
    <3>1. /\ st'[s].pending_view = RouteView(st[s], layout_slot)
          /\ st'[s].route = st[s].route
      BY <1>0, <2>1, <2>3 DEF Session
    <3>2. HeadsRight(s)'
      BY <1>a, <2>2, <3>1 DEF HeadsRight, Heading, RouteView, Views, NoView
    <3>. QED  BY <1>0, <1>b, <2>1, <2>3, <3>2
  <2>4. CASE ~(st[s].active /\ ~st[s].stop_requested)
    <3>1. HeadsRight(s)'
      BY <2>1, <2>4 DEF HeadsRight, Pictured, Serviceable
    <3>. QED  BY <1>0, <1>b, <2>1, <2>4, <3>1
  <2>. QED  BY <2>3, <2>4
<1>8. ASSUME NEW s \in Slots, ScreenStop(s)
      PROVE  Headings'
  <2>1. /\ st' = st /\ thread[s] = "playing"
        /\ thread' = [thread EXCEPT ![s] = "stopping"]
    BY <1>8 DEF ScreenStop
  <2>2. Steady(s)
    BY <1>0, <2>1 DEF Steady, Pictured
  <2>3. HeadsRight(s)'
    BY <1>a, <2>2, SteadyHeads DEF Headings, Lagging
  <2>. QED  BY <1>0, <1>b, <2>1, <2>3
<1>9. ASSUME NEW s \in Slots, ScreenEnd(s)
      PROVE  Headings'
  <2>1. /\ st' = [st EXCEPT ![s].screen_started = FALSE]
        /\ thread' = [thread EXCEPT ![s] = "exited"]
    BY <1>9 DEF ScreenEnd
  <2>2. ~st'[s].screen_started
    BY <1>0, <2>1 DEF Session
  <2>3. HeadsRight(s)'
    BY <2>2 DEF HeadsRight, Pictured, Serviceable
  <2>. QED  BY <1>0, <1>b, <2>1, <2>3
<1>10. ASSUME NEW s \in Slots, ViewSettles(s) \/ AckDeadline(s)
       PROVE  Headings'
  <2>1. /\ st' = [st EXCEPT ![s] = st'[s]] /\ thread' = thread
        /\ st'[s] \in {[st[s] EXCEPT !.view_due = TRUE],
                       [st[s] EXCEPT !.expired = TRUE]}
    BY <1>0, <1>10 DEF ViewSettles, AckDeadline
  <2>2. /\ st'[s].active = st[s].active /\ st'[s].receiver = st[s].receiver
        /\ st'[s].route = st[s].route /\ st'[s].show_sent = st[s].show_sent
        /\ st'[s].screen_started = st[s].screen_started
        /\ st'[s].stop_requested = st[s].stop_requested
        /\ Heading(st'[s]) = Heading(st[s])
    BY ZenonT(40), <1>0, <2>1, HeadingFields DEF Session
  <2>3. Steady(s)
    BY <2>1, <2>2 DEF Steady, Pictured, Serviceable
  <2>4. HeadsRight(s)'
    BY <1>a, <2>3, SteadyHeads DEF Headings, Lagging
  <2>. QED  BY <1>0, <1>b, <2>1, <2>2, <2>4 DEF Headings, NoEarlyPicture
<1>. QED
  BY <1>1, <1>2, <1>3, <1>4, <1>5, <1>6, <1>7, <1>8, <1>9, <1>10
  DEF SessionThread, StreamThread

(* The mode parser and the trace readers.                                  *)
LEMMA HeadingsQueued ==
  ASSUME Headings, TypeOK',
         \/ \E r \in Receivers, route \in {"off", "on"} : ParseMode(r, route)
         \/ NoteRoute \/ QueueRouteView
         \/ \E slot \in {0, 1} : ObserveBap54(slot) \/ ObserveZoomArea(slot)
         \/ \E step \in {-1, 1} : EncoderStep(step)
  PROVE  Headings'
<1>. USE DEF displayVars, outputVars, phoneVars, serialVars, threadVars
<1>0. /\ st \in [Slots -> Session] /\ \A s \in Slots : st[s] \in Session
      /\ layout_slot \in {0, 1} /\ TypeOK
  BY DEF Headings, TypeOK
<1>1. UNCHANGED thread
  BY DEF ParseMode, NoteRoute, QueueRouteView, ObserveBap54, ObserveZoomArea,
         EncoderStep
(* A view that is queued is the one asked for. *)
<1>2. ASSUME NEW s \in Slots, NEW l \in {0, 1}
      PROVE  LET d == Queued(st[s], l) IN
             /\ Heading(d) = RouteView(d, l) /\ d.show_sent = st[s].show_sent
  <2>1. RouteView(st[s], l) \in Views
    BY ViewFacts
  <2>2. RouteView(st[s], l) # NoView
    BY <2>1 DEF Views, NoView
  <2>3. LET d == Queued(st[s], l) IN
        /\ d.pending_view = RouteView(st[s], l) /\ d.route = st[s].route
        /\ d.show_sent = st[s].show_sent
    BY <1>0 DEF Queued, Session
  <2>. QED  BY <2>2, <2>3 DEF Heading, RouteView
<1>3. CASE \/ \E r \in Receivers, route \in {"off", "on"} : ParseMode(r, route)
           \/ \E step \in {-1, 1} : EncoderStep(step)
  <2>1. /\ st' = st /\ layout_slot' = layout_slot
        /\ \A r : Lagging(r) => Lagging(r)'
    BY <1>3 DEF ParseMode, EncoderStep, Lagging
  <2>2. \A s \in Slots : Steady(s)
    BY <1>1, <2>1 DEF Steady, Pictured
  <2>. QED  BY <1>1, <2>1, <2>2, SteadyHeads DEF Headings, NoEarlyPicture
<1>4. CASE NoteRoute
  <2>1. /\ layout_slot' = layout_slot /\ parser.pc = "note"
        /\ parser'.receiver = parser.receiver
        /\ parser'.pc = IF st' = st THEN "none" ELSE "queue"
    BY <1>0, <1>4 DEF NoteRoute, TypeOK
  <2>2. \A s \in Slots : st'[s].show_sent = st[s].show_sent
    BY <1>0, <1>4 DEF NoteRoute, Session
  <2>3. ASSUME NEW s \in Slots
        PROVE  HeadsRight(s)'
    <3>1. CASE st'[s] = st[s]
      BY <1>1, <2>1, <3>1 DEF Headings, HeadsRight, Pictured, Lagging
    <3>2. CASE st'[s] # st[s]
      <4>1. Holds(s, parser.receiver)
        BY <1>4, <3>2 DEF NoteRoute
      <4>2. st'[s].receiver = parser.receiver
        BY <1>0, <1>4, <4>1 DEF NoteRoute, Holds, Session
      <4>3. parser'.pc = "queue" /\ parser'.receiver = st'[s].receiver
        BY <2>1, <3>2, <4>2
      <4>. QED  BY <4>3 DEF HeadsRight, Lagging
    <3>. QED  BY <3>1, <3>2
  <2>. QED  BY <1>1, <2>2, <2>3 DEF Headings, NoEarlyPicture
<1>5. CASE QueueRouteView
  <2>1. layout_slot' = layout_slot /\ parser.pc = "queue"
    BY <1>5 DEF QueueRouteView
  <2>2. ASSUME NEW s \in Slots
        PROVE  HeadsRight(s)' /\ st'[s].show_sent = st[s].show_sent
    <3>1. CASE Holds(s, parser.receiver) /\ ~st[s].stop_requested
      <4>1. st'[s] = Queued(st[s], layout_slot)
        BY <1>5, <3>1 DEF QueueRouteView
      <4>. QED  BY <1>0, <1>2, <2>1, <4>1 DEF HeadsRight
    <3>2. CASE ~(Holds(s, parser.receiver) /\ ~st[s].stop_requested)
      <4>1. st'[s] = st[s]
        BY <1>5, <3>2 DEF QueueRouteView
      <4>2. Serviceable(st[s]) => ~Lagging(st[s].receiver)
        BY <3>2 DEF Serviceable, Holds, Lagging
      <4>. QED  BY <1>1, <2>1, <4>1, <4>2 DEF Headings, HeadsRight, Pictured
    <3>. QED  BY <3>1, <3>2
  <2>. QED  BY <1>1, <2>2 DEF Headings, NoEarlyPicture
<1>6. ASSUME NEW slot \in {0, 1}, ObserveBap54(slot) \/ ObserveZoomArea(slot)
      PROVE  Headings'
  <2>1. LayoutBecomes(slot) /\ parser' = parser
    BY <1>6 DEF ObserveBap54, ObserveZoomArea
  <2>2. ASSUME NEW s \in Slots
        PROVE  HeadsRight(s)' /\ st'[s].show_sent = st[s].show_sent
    <3>1. CASE slot = layout_slot
      BY <1>1, <2>1, <3>1
      DEF LayoutBecomes, Headings, HeadsRight, Pictured, Lagging
    <3>2. CASE /\ slot # layout_slot
               /\ st[s].active /\ st[s].screen_started /\ ~st[s].stop_requested
      <4>1. st'[s] = Queued(st[s], slot) /\ layout_slot' = slot
        BY <2>1, <3>2 DEF LayoutBecomes
      <4>. QED  BY <1>2, <4>1 DEF HeadsRight
    <3>3. CASE /\ slot # layout_slot
               /\ ~(st[s].active /\ st[s].screen_started
                                 /\ ~st[s].stop_requested)
      <4>1. st'[s] = st[s]
        BY <2>1, <3>3 DEF LayoutBecomes
      <4>. QED  BY <3>3, <4>1 DEF HeadsRight, Pictured, Serviceable
    <3>. QED  BY <3>1, <3>2, <3>3
  <2>. QED  BY <1>1, <2>2 DEF Headings, NoEarlyPicture
<1>. QED  BY <1>3, <1>4, <1>5, <1>6

LEMMA HeadingsInvariant == Spec => []Headings
<1>1. Init => Headings
  <2>. SUFFICES ASSUME Init PROVE Headings
    OBVIOUS
  <2>1. \A s \in Slots : ~st[s].show_sent
    BY DEF Init, Cleared
  <2>. QED  BY <2>1, TypeInit DEF Headings, NoEarlyPicture, HeadsRight, Pictured
<1>2. ASSUME Headings, [Next]_vars
      PROVE  Headings'
  <2>1. TypeOK'
    BY <1>2, TypeStep DEF Headings
  <2>2. CASE UNCHANGED vars
    <3>1. UNCHANGED <<st, thread, layout_slot, parser>>
      BY <2>2 DEF vars
    <3>. QED  BY <1>2, <2>1, <3>1
              DEF Headings, NoEarlyPicture, HeadsRight, Pictured, Lagging
  <2>. QED
    BY <1>2, <2>1, <2>2, HeadingsControl, HeadingsSession, HeadingsQueued
    DEF Next
<1>. QED  BY <1>1, <1>2, PTL DEF Spec

(* No change of route or layout is lost to a race of the mode parser, the  *)
(* trace readers, the first frame and the control worker: a session with a *)
(* picture is heading for the view they call for (LatestRequestWins).      *)
THEOREM LatestWins == Spec => []LatestRequestWins
<1>1. Headings => LatestRequestWins
  BY DEF Headings, HeadsRight, Pictured, Heading, Lagging, LatestRequestWins
<1>. QED  BY <1>1, HeadingsInvariant, PTL

(* The commands of every session fit what the phone was told before them,  *)
(* whatever answers are lost, late or refused: answers, views and beliefs  *)
(* each by the theorem above.                                              *)
THEOREM CommandsInOrder == Spec => []CommandsFit
BY AnswersFit, ViewsUnderTheirUi, BeliefsConfirmed, PTL DEF CommandsFit
=============================================================================
