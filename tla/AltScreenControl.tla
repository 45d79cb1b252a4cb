-------------------------- MODULE AltScreenControl --------------------------
(***************************************************************************)
(* The display control of the private cluster stream (CarPlay stream 111): *)
(* altscreen/native/altscreen_session.c.                                   *)
(*                                                                         *)
(* g_states[] holds one session per AirPlay receiver.  Five kinds of       *)
(* thread work on it under g_lock: the AirPlay session thread (SETUP and   *)
(* TEARDOWN), one stream worker per session, the stock mode parser, the    *)
(* DSI trace readers, and one control worker that ticks every 50 ms and    *)
(* walks  showUI -> updateViewArea -> forceKeyFrame  one answered command  *)
(* at a time.  Answers come back on the transport's own thread.  One       *)
(* action is one critical section of g_lock, or one call made outside it.  *)
(***************************************************************************)
EXTENDS Integers

CONSTANTS
  Receivers,   \* AirPlay receiver objects; an address may come back
  NoReceiver,  \* the NULL receiver of a cleared slot
  MaxStates,   \* ALTSCREEN_MAX_STATES
  ZoomLimit,   \* bound on outstanding zoom steps (20 in the code)
  MaxStimuli,  \* bound of the model on events from the environment
  InOrder,     \* the transport answers a receiver's commands in order
  Faulty       \* commands may be refused, fail, stay silent or be late

ASSUME ControlAssumption ==
  /\ NoReceiver \notin Receivers
  /\ MaxStates \in Nat \ {0}
  /\ ZoomLimit \in Nat \ {0}
  /\ MaxStimuli \in Nat
  /\ InOrder \in BOOLEAN
  /\ Faulty \in BOOLEAN

VARIABLES
  st,                 \* g_states
  thread,             \* the stream worker of each session
  layout_slot,        \* g_layout_slot: 0 small gauges, 1 big gauges
  bap54_known,        \* g_bap54_layout_known
  pending_zoom,       \* g_pending_zoom
  marker,             \* the file /tmp/mib2high-lvds-active exists
  stub_owner,         \* the session holding the stub output, or 0
  view_worker,        \* the control worker runs
  worker,             \* where it stands inside a tick
  parser,             \* where the mode parser stands
  wire,               \* commands whose completion has not run
  confirmed,          \* what each phone's answers have confirmed
  generation_serial,  \* g_control_generation_serial
  request_serial,     \* g_control_request_serial
  stimuli             \* environment events so far, at most MaxStimuli

vars == <<st, thread, layout_slot, bap54_known, pending_zoom, marker,
          stub_owner, view_worker, worker, parser, wire, confirmed, generation_serial,
          request_serial, stimuli>>

-----------------------------------------------------------------------------
Slots  == 1..MaxStates
Views  == 0..3
NoView == -1
NoUi   == -1
Stages == {"idle", "show", "view", "keyframe"}

(* Two ViewAreas per gauge layout: the URL slot is view / 2. *)
UiSlot(view) == IF view \in {2, 3} THEN 1 ELSE 0

Context == [receiver : Receivers \cup {NoReceiver}, generation : Nat,
            token : Nat, stage : Stages, view : Views \cup {NoView}]

NoContext == [receiver |-> NoReceiver, generation |-> 0, token |-> 0,
              stage |-> "idle", view |-> NoView]

Session ==
  [receiver : Receivers \cup {NoReceiver}, active : BOOLEAN, generation : Nat,
   screen_started : BOOLEAN, show_sent : BOOLEAN, stop_requested : BOOLEAN,
   route : {"unknown", "off", "on"},
   current_view : Views \cup {NoView}, pending_view : Views \cup {NoView},
   view_due : BOOLEAN,       \* view_due_ms has been reached
   inflight : Nat, last_ui_slot : {NoUi, 0, 1}, stage : Stages,
   target_view : Views \cup {NoView}, awaiting_ack : BOOLEAN,
   startup : BOOLEAN, token : Nat,
   expired : BOOLEAN]        \* control_deadline_ms has been reached

(* memset(state, 0): receiver NULL, inactive, every number zero. *)
Cleared ==
  [receiver |-> NoReceiver, active |-> FALSE, generation |-> 0,
   screen_started |-> FALSE, show_sent |-> FALSE, stop_requested |-> FALSE,
   route |-> "unknown", current_view |-> 0, pending_view |-> 0,
   view_due |-> FALSE, inflight |-> 0, last_ui_slot |-> 0, stage |-> "idle",
   target_view |-> 0, awaiting_ack |-> FALSE, startup |-> FALSE,
   token |-> 0, expired |-> FALSE]

Allocated(r, g) ==
  [Cleared EXCEPT !.receiver = r, !.active = TRUE, !.generation = g,
                  !.current_view = NoView, !.pending_view = NoView,
                  !.target_view = NoView, !.last_ui_slot = NoUi]

First(S) == CHOOSE s \in S : \A t \in S : s <= t

Holds(s, r) == st[s].active /\ st[s].receiver = r

Serviceable(c) ==
  c.active /\ c.screen_started /\ ~c.stop_requested /\ c.receiver # NoReceiver

RouteView(c, layout) == layout * 2 + (IF c.route = "on" THEN 1 ELSE 0)

Init ==
  /\ st = [s \in Slots |-> Cleared]
  /\ thread = [s \in Slots |-> "none"]
  /\ layout_slot = 0 /\ bap54_known = FALSE
  /\ pending_zoom = 0
  /\ marker = FALSE /\ stub_owner = 0
  /\ view_worker = FALSE
  /\ worker = [pc |-> "tick", picked |-> 0, picked_gen |-> 0,
               request |-> NoContext]
  /\ parser = [pc |-> "none", receiver |-> NoReceiver, route |-> "unknown"]
  /\ wire = {}
  /\ confirmed = [r \in Receivers |-> [ui |-> NoUi, view |-> NoView]]
  /\ generation_serial = 0 /\ request_serial = 0
  /\ stimuli = 0

Stimulus == stimuli < MaxStimuli /\ stimuli' = stimuli + 1

-----------------------------------------------------------------------------
(* AirPlay session thread: SETUP and TEARDOWN of stream 111.               *)

outputVars  == <<marker, stub_owner>>
displayVars == <<layout_slot, bap54_known>>
serialVars  == <<generation_serial, request_serial>>
threadVars  == <<worker, parser>>
phoneVars   == <<wire, confirmed>>

(* prepare_altscreen takes the first free slot for a receiver that has     *)
(* none, and makes sure the control worker runs; its creation may fail.    *)
Setup(r) ==
  /\ Stimulus
  /\ \A s \in Slots : ~Holds(s, r)
  /\ \E s \in Slots :
       /\ ~st[s].active /\ \A t \in Slots : t < s => st[t].active
       /\ st' = [st EXCEPT ![s] = Allocated(r, generation_serial + 1)]
       /\ thread' = [thread EXCEPT ![s] = "waiting"]
  /\ generation_serial' = generation_serial + 1
  /\ view_worker' \in {view_worker, TRUE}
  /\ view_worker' \/ Faulty
  /\ UNCHANGED <<displayVars, pending_zoom, outputVars, threadVars,
                 phoneVars, request_serial>>

(* A later step of prepare_altscreen fails: the slot is cleared again.     *)
PrepareFails(s) ==
  /\ thread[s] = "waiting" /\ ~st[s].stop_requested
  /\ st' = [st EXCEPT ![s] = Cleared]
  /\ thread' = [thread EXCEPT ![s] = "none"]
  /\ UNCHANGED <<displayVars, pending_zoom, outputVars, view_worker,
                 threadVars, phoneVars, serialVars, stimuli>>

(* cleanup_altscreen, first critical section: no new work is scheduled.    *)
StopRequest(s) ==
  /\ st[s].active /\ ~st[s].stop_requested
  /\ st' = [st EXCEPT ![s].stop_requested = TRUE]
  /\ UNCHANGED <<thread, displayVars, pending_zoom, outputVars, view_worker,
                 threadVars, phoneVars, serialVars, stimuli>>

(* It joins the stream worker, waits for control_inflight = 0 for at most  *)
(* 50 polls of 10 ms, clears the slot and lets stock tear the receiver     *)
(* down.                                                                   *)
Release(s) ==
  /\ st[s].stop_requested /\ thread[s] = "exited"
  /\ st[s].inflight = 0 \/ Faulty
  /\ st' = [st EXCEPT ![s] = Cleared]
  /\ thread' = [thread EXCEPT ![s] = "none"]
  /\ UNCHANGED <<displayVars, pending_zoom, outputVars, view_worker,
                 threadVars, phoneVars, serialVars, stimuli>>

-----------------------------------------------------------------------------
(* Stream worker of a session, and the video frames it carries.            *)

(* NvSSVideoOpen, inside the stock session start the worker calls: the one *)
(* stub output goes to the first that asks, sets the marker and spawns the *)
(* display control script; without the script the marker is taken back.    *)
OutputOpen(s) ==
  /\ thread[s] = "waiting"
  /\ thread' = [thread EXCEPT ![s] = "opened"]
  /\ IF stub_owner # 0 THEN UNCHANGED <<stub_owner, marker>>
     ELSE /\ stub_owner' = s
          /\ marker' \in {marker, TRUE}
          /\ marker' \/ Faulty
  /\ UNCHANGED <<st, displayVars, pending_zoom, view_worker,
                 threadVars, phoneVars, serialVars, stimuli>>

ScreenStart(s) ==
  /\ thread[s] = "opened"
  /\ thread' = [thread EXCEPT ![s] = "playing"]
  /\ st' = [st EXCEPT ![s].screen_started = TRUE]
  /\ UNCHANGED <<displayVars, pending_zoom, outputVars, view_worker,
                 threadVars, phoneVars, serialVars, stimuli>>

(* NvSSVideoClose, when stock stops the screen that owns the output.       *)
OutputCloses(s) ==
  IF stub_owner = s THEN stub_owner' = 0 /\ marker' = FALSE
                    ELSE UNCHANGED outputVars

(* accept failed, stop seen, no primary time sync, or session start failed *)
WorkerQuits(s) ==
  /\ thread[s] \in {"waiting", "opened"}
  /\ thread' = [thread EXCEPT ![s] = "exited"]
  /\ OutputCloses(s)
  /\ UNCHANGED <<st, displayVars, pending_zoom, view_worker,
                 threadVars, phoneVars, serialVars, stimuli>>

ScreenStop(s) ==
  /\ thread[s] = "playing"
  /\ thread' = [thread EXCEPT ![s] = "stopping"]
  /\ OutputCloses(s)
  /\ UNCHANGED <<st, displayVars, pending_zoom, view_worker,
                 threadVars, phoneVars, serialVars, stimuli>>

ScreenEnd(s) ==
  /\ thread[s] = "stopping"
  /\ thread' = [thread EXCEPT ![s] = "exited"]
  /\ st' = [st EXCEPT ![s].screen_started = FALSE]
  /\ UNCHANGED <<displayVars, pending_zoom, outputVars, view_worker,
                 threadVars, phoneVars, serialVars, stimuli>>

(* ScreenStreamProcessData: the first decoded frame of a live session.     *)
FirstFrame(s) ==
  /\ thread[s] = "playing"
  /\ st[s].screen_started /\ ~st[s].show_sent /\ ~st[s].stop_requested
  /\ st' = [st EXCEPT ![s].show_sent = TRUE]
  /\ thread' = [thread EXCEPT ![s] = "first_frame"]
  /\ UNCHANGED <<displayVars, pending_zoom, outputVars, view_worker,
                 threadVars, phoneVars, serialVars, stimuli>>

RequestCluster(s) ==
  /\ thread[s] = "first_frame"
  /\ thread' = [thread EXCEPT ![s] = "playing"]
  /\ st' = IF st[s].active /\ ~st[s].stop_requested
           THEN [st EXCEPT ![s].pending_view = RouteView(st[s], layout_slot),
                           ![s].view_due = TRUE,
                           ![s].startup = TRUE]
           ELSE st
  /\ UNCHANGED <<displayVars, pending_zoom, outputVars, view_worker,
                 threadVars, phoneVars, serialVars, stimuli>>

-----------------------------------------------------------------------------
(* Stock mode parser: AirPlayReceiverSessionMakeModeStateFromDictionary.   *)
(* Three critical sections: is the private stream live, note the route,    *)
(* queue the view.  The session may be stopped or replaced between them.   *)

ParseMode(r, route) ==
  /\ Stimulus
  /\ parser.pc = "none"
  /\ marker /\ \E s \in Slots : Holds(s, r) /\ Serviceable(st[s])
  /\ parser' = [pc |-> "note", receiver |-> r, route |-> route]
  /\ UNCHANGED <<st, thread, displayVars, pending_zoom, outputVars, view_worker,
                 worker, phoneVars, serialVars>>

NoteRoute ==
  /\ parser.pc = "note"
  /\ st' = [s \in Slots |->
             IF Holds(s, parser.receiver)
             THEN [st[s] EXCEPT !.route = parser.route] ELSE st[s]]
  /\ parser' = [parser EXCEPT !.pc = IF st' = st THEN "none" ELSE "queue"]
  /\ UNCHANGED <<thread, displayVars, pending_zoom, outputVars, view_worker,
                 worker, phoneVars, serialVars, stimuli>>

(* A newly queued view is due after the 150 ms reacquire delay. *)
Queued(c, layout) ==
  [c EXCEPT !.pending_view = RouteView(c, layout), !.view_due = FALSE]

QueueRouteView ==
  /\ parser.pc = "queue"
  /\ st' = [s \in Slots |->
             IF Holds(s, parser.receiver) /\ ~st[s].stop_requested
             THEN Queued(st[s], layout_slot) ELSE st[s]]
  /\ parser' = [parser EXCEPT !.pc = "none"]
  /\ UNCHANGED <<thread, displayVars, pending_zoom, outputVars, view_worker,
                 worker, phoneVars, serialVars, stimuli>>

-----------------------------------------------------------------------------
(* DSI trace readers.                                                      *)

(* Mutant: a session that waits for an answer does not hear of a new layout. *)
LayoutSkipsBusy(slot) ==
  /\ layout_slot' = slot
  /\ st' = IF slot = layout_slot THEN st
           ELSE [s \in Slots |-> IF st[s].active /\ st[s].screen_started
                                      /\ ~st[s].stop_requested
                                      /\ ~st[s].awaiting_ack
                                 THEN Queued(st[s], slot) ELSE st[s]]

(* A change of gauge layout re-queues the view of every started session.   *)
LayoutBecomes(slot) ==
  /\ layout_slot' = slot
  /\ st' = IF slot = layout_slot THEN st
           ELSE [s \in Slots |-> IF st[s].active /\ st[s].screen_started
                                      /\ ~st[s].stop_requested
                                 THEN Queued(st[s], slot) ELSE st[s]]

(* Live BAP function 54; buffered playback is ignored altogether. *)
ObserveBap54(slot) ==
  /\ Stimulus
  /\ bap54_known' = TRUE
  /\ LayoutBecomes(slot)
  /\ UNCHANGED <<thread, pending_zoom, outputVars, view_worker, threadVars,
                 phoneVars, serialVars>>

(* The zoom-area size is a heuristic, believed only until BAP 54 is known. *)
ObserveZoomArea(slot) ==
  /\ Stimulus
  /\ ~bap54_known
  /\ LayoutBecomes(slot)
  /\ UNCHANGED <<thread, bap54_known, pending_zoom, outputVars, view_worker,
                 threadVars, phoneVars, serialVars>>

EncoderStep(step) ==
  /\ Stimulus
  /\ -ZoomLimit < pending_zoom /\ pending_zoom < ZoomLimit
  /\ pending_zoom' = pending_zoom + step
  /\ UNCHANGED <<st, thread, displayVars, outputVars, view_worker, threadVars,
                 phoneVars, serialVars>>

-----------------------------------------------------------------------------
(* Time.  A deadline is a flag that the clock raises; the ticks read it.   *)

ViewSettles(s) ==
  /\ st[s].active /\ st[s].pending_view # NoView /\ ~st[s].view_due
  /\ st' = [st EXCEPT ![s].view_due = TRUE]
  /\ UNCHANGED <<thread, displayVars, pending_zoom, outputVars, view_worker,
                 threadVars, phoneVars, serialVars, stimuli>>

AckDeadline(s) ==
  /\ Faulty
  /\ st[s].awaiting_ack /\ ~st[s].expired
  /\ st' = [st EXCEPT ![s].expired = TRUE]
  /\ UNCHANGED <<thread, displayVars, pending_zoom, outputVars, view_worker,
                 threadVars, phoneVars, serialVars, stimuli>>

-----------------------------------------------------------------------------
(* The control worker: v8s_control_tick and the calls it makes.            *)

(* Mutant: a showUI that failed is taken to have changed nothing. *)
FailedKeepsUi(c) ==
  [c EXCEPT !.awaiting_ack = FALSE, !.expired = FALSE, !.startup = FALSE,
            !.stage = "idle"]

(* A command without an answer: no dependent command follows it, and a     *)
(* showUI that failed leaves the layout on the phone unknown.              *)
Failed(c) ==
  [c EXCEPT !.awaiting_ack = FALSE, !.expired = FALSE, !.startup = FALSE,
            !.last_ui_slot = IF c.stage = "show" THEN NoUi ELSE @,
            !.stage = "idle"]

(* Mutant: an unanswered command is waited for without end. *)
NeverTimedOut(c) == c

TimedOut(c) == IF c.awaiting_ack /\ c.expired THEN Failed(c) ELSE c

(* Mutants: a view due during an unanswered command replaces the plan at   *)
(* once; showUI is sent once a session.                                    *)
ReplannedAtOnce(c) ==
  IF c.pending_view # NoView /\ c.view_due
  THEN [c EXCEPT !.target_view = c.pending_view,
                 !.pending_view = NoView, !.view_due = FALSE,
                 !.stage = IF c.last_ui_slot # UiSlot(c.pending_view)
                           THEN "show" ELSE "view"]
  ELSE c

ReplannedShowingOnce(c) ==
  IF ~c.awaiting_ack /\ c.pending_view # NoView /\ c.view_due
  THEN [c EXCEPT !.target_view = c.pending_view,
                 !.pending_view = NoView, !.view_due = FALSE,
                 !.stage = IF c.last_ui_slot = NoUi THEN "show" ELSE "view"]
  ELSE c

(* The latest pending view replaces the plan once nothing is unanswered.   *)
Replanned(c) ==
  IF ~c.awaiting_ack /\ c.pending_view # NoView /\ c.view_due
  THEN [c EXCEPT !.target_view = c.pending_view,
                 !.pending_view = NoView, !.view_due = FALSE,
                 !.stage = IF c.last_ui_slot # UiSlot(c.pending_view)
                           THEN "show" ELSE "view"]
  ELSE c

Swept(c) == IF Serviceable(c) THEN Replanned(TimedOut(c)) ELSE c

Ready(c) ==
  /\ Serviceable(c)
  /\ ~c.awaiting_ack /\ c.pending_view = NoView
  /\ c.stage # "idle"
  /\ marker \/ c.startup

Asked(c, token) ==
  [c EXCEPT !.token = token, !.awaiting_ack = TRUE, !.expired = FALSE,
            !.inflight = @ + 1]

ReadySlots   == {s \in Slots : Ready(Swept(st[s]))}
StartedSlots == {s \in Slots : Serviceable(st[s])}

(* The scan stops at the first session that has a command to ask.          *)
Scanned(s) == \A t \in ReadySlots : s <= t

Asking == {s \in ReadySlots : Scanned(s)}

AfterScan(s) ==
  IF s \in Asking THEN Asked(Swept(st[s]), request_serial + 1)
  ELSE IF Scanned(s) THEN Swept(st[s]) ELSE st[s]

RequestOf(c, token) ==
  [receiver |-> c.receiver, generation |-> c.generation, token |-> token,
   stage |-> c.stage, view |-> c.target_view]

(* One zoom step goes to the first started session while the marker is up. *)
ZoomDue  == marker /\ pending_zoom # 0 /\ StartedSlots # {}
ZoomSlot == First(StartedSlots)

Tick ==
  /\ view_worker /\ worker.pc = "tick"
  /\ st' = [s \in Slots |->
             IF ZoomDue /\ s = ZoomSlot
             THEN [AfterScan(s) EXCEPT !.inflight = @ + 1] ELSE AfterScan(s)]
  /\ request_serial' = IF Asking = {} THEN request_serial
                       ELSE request_serial + 1
  /\ pending_zoom' = IF ~marker THEN 0
                     ELSE IF ~ZoomDue THEN pending_zoom
                     ELSE IF pending_zoom > 0 THEN pending_zoom - 1
                     ELSE pending_zoom + 1
  /\ worker' =
       [pc |-> IF ZoomDue THEN "zoom"
               ELSE IF Asking # {} THEN "send" ELSE "tick",
        picked |-> IF ZoomDue THEN ZoomSlot ELSE 0,
        picked_gen |-> IF ZoomDue THEN st[ZoomSlot].generation ELSE 0,
        request |-> IF Asking = {} THEN NoContext
                    ELSE RequestOf(Swept(st[First(Asking)]),
                                   request_serial + 1)]
  /\ UNCHANGED <<thread, displayVars, outputVars, view_worker, parser,
                 phoneVars, generation_serial, stimuli>>

(* Mutant: one booking off serves for the zoom and the command after it. *)
ZoomSentWithCommand ==
  /\ worker.pc = "zoom"
  /\ st' = IF worker.request # NoContext THEN st
           ELSE [st EXCEPT ![worker.picked].inflight = IF @ > 0 THEN @ - 1 ELSE @]
  /\ worker' = [worker EXCEPT
                  !.pc = IF worker.request = NoContext THEN "tick" ELSE "send",
                  !.picked = 0, !.picked_gen = 0]
  /\ UNCHANGED <<thread, displayVars, pending_zoom, outputVars, view_worker,
                 parser, phoneVars, serialVars, stimuli>>

(* send_zoom_event has returned; picked may be another session by now.     *)
ZoomSent ==
  /\ worker.pc = "zoom"
  /\ st' = [st EXCEPT ![worker.picked].inflight = IF @ > 0 THEN @ - 1 ELSE @]
  /\ worker' = [worker EXCEPT
                  !.pc = IF worker.request = NoContext THEN "tick" ELSE "send",
                  !.picked = 0, !.picked_gen = 0]
  /\ UNCHANGED <<thread, displayVars, pending_zoom, outputVars, view_worker,
                 parser, phoneVars, serialVars, stimuli>>

(* AirPlayReceiverSessionSendCommand takes the command, or refuses it (or  *)
(* it could not be built); its completion may run before it returns.       *)
SendCommand ==
  /\ worker.pc = "send"
  /\ \/ /\ wire' = wire \cup {worker.request}
        /\ worker' = [worker EXCEPT !.pc = "sent"]
     \/ /\ Faulty
        /\ wire' = wire
        /\ worker' = [worker EXCEPT !.pc = "refused"]
  /\ UNCHANGED <<st, thread, displayVars, pending_zoom, outputVars, view_worker,
                 parser, confirmed, serialVars, stimuli>>

Owns(c, m) == c.active /\ c.receiver = m.receiver
              /\ c.generation = m.generation

CommandReturned ==
  /\ worker.pc \in {"sent", "refused"}
  /\ st' = [s \in Slots |->
             IF Owns(st[s], worker.request) /\ st[s].inflight > 0
             THEN [st[s] EXCEPT !.inflight = @ - 1] ELSE st[s]]
  /\ worker' = IF worker.pc = "sent"
               THEN [worker EXCEPT !.pc = "tick", !.request = NoContext]
               ELSE [worker EXCEPT !.pc = "failed"]
  /\ UNCHANGED <<thread, displayVars, pending_zoom, outputVars, view_worker,
                 parser, phoneVars, serialVars, stimuli>>

(* Mutant: an answer is recognised by its step alone. *)
CurrentByStage(c, m) == c.awaiting_ack /\ c.stage = m.stage

Current(c, m) ==
  c.awaiting_ack /\ c.token = m.token /\ c.stage = m.stage

DispatchFailed ==
  /\ worker.pc = "failed"
  /\ st' = [s \in Slots |->
             IF Owns(st[s], worker.request) /\ Current(st[s], worker.request)
             THEN Failed(st[s]) ELSE st[s]]
  /\ worker' = [worker EXCEPT !.pc = "tick", !.request = NoContext]
  /\ UNCHANGED <<thread, displayVars, pending_zoom, outputVars, view_worker,
                 parser, phoneVars, serialVars, stimuli>>

-----------------------------------------------------------------------------
(* The transport: v8s_control_completion, run on its thread.               *)

Valid(c, m) == Owns(c, m) /\ ~c.stop_requested /\ Current(c, m)

Succeeded(c, m) ==
  LET answered == [c EXCEPT !.awaiting_ack = FALSE, !.expired = FALSE] IN
  CASE m.stage = "show" ->
         [answered EXCEPT !.last_ui_slot = UiSlot(m.view), !.stage = "view"]
    [] m.stage = "view" -> [answered EXCEPT !.stage = "keyframe"]
    [] OTHER -> [answered EXCEPT !.current_view = m.view, !.stage = "idle",
                                 !.startup = FALSE]

(* What the phone shows once it has carried out m. *)
Shows(before, m) ==
  CASE m.stage = "show" -> [before EXCEPT !.ui = UiSlot(m.view)]
    [] m.stage = "view" -> [before EXCEPT !.view = m.view]
    [] OTHER -> before

Completion(m, ok) ==
  /\ m \in wire
  /\ InOrder => \A n \in wire : n.receiver = m.receiver => m.token <= n.token
  /\ ok \/ Faulty
  /\ wire' = wire \ {m}
  /\ confirmed' = IF ok THEN [confirmed EXCEPT ![m.receiver] = Shows(@, m)]
                  ELSE confirmed
  /\ st' = [s \in Slots |->
             IF ~Valid(st[s], m) THEN st[s]
             ELSE IF ok THEN Succeeded(st[s], m) ELSE Failed(st[s])]
  /\ UNCHANGED <<thread, displayVars, pending_zoom, outputVars, view_worker,
                 threadVars, serialVars, stimuli>>

(* The connection dies under a command: no completion ever runs.           *)
NeverAnswered(m) ==
  /\ Faulty
  /\ m \in wire
  /\ wire' = wire \ {m}
  /\ UNCHANGED <<st, thread, displayVars, pending_zoom, outputVars, view_worker,
                 threadVars, confirmed, serialVars, stimuli>>

-----------------------------------------------------------------------------
SessionThread(s) ==
  PrepareFails(s) \/ StopRequest(s) \/ Release(s)

StreamThread(s) ==
  \/ OutputOpen(s) \/ ScreenStart(s) \/ WorkerQuits(s)
  \/ FirstFrame(s) \/ RequestCluster(s) \/ ScreenStop(s) \/ ScreenEnd(s)

ControlThread ==
  Tick \/ ZoomSent \/ SendCommand \/ CommandReturned \/ DispatchFailed

Next ==
  \/ \E r \in Receivers : Setup(r)
  \/ \E s \in Slots : SessionThread(s) \/ StreamThread(s)
  \/ \E r \in Receivers, route \in {"off", "on"} : ParseMode(r, route)
  \/ NoteRoute \/ QueueRouteView
  \/ \E slot \in {0, 1} : ObserveBap54(slot) \/ ObserveZoomArea(slot)
  \/ \E step \in {-1, 1} : EncoderStep(step)
  \/ \E s \in Slots : ViewSettles(s) \/ AckDeadline(s)
  \/ ControlThread
  \/ \E m \in wire : \/ \E ok \in BOOLEAN : Completion(m, ok)
                     \/ NeverAnswered(m)

Spec == Init /\ [][Next]_vars

(* The control worker never stops ticking and SendCommand returns; the     *)
(* clock advances; the parser finishes the call it is in; a stopped        *)
(* session's worker exits and its cleanup goes through.                    *)
Fairness ==
  /\ WF_vars(ControlThread)
  /\ \A s \in Slots : WF_vars(ViewSettles(s)) /\ WF_vars(AckDeadline(s))
  /\ WF_vars(NoteRoute) /\ WF_vars(QueueRouteView)
  /\ \A s \in Slots : WF_vars(RequestCluster(s)) /\ WF_vars(ScreenEnd(s))

FairSpec == Spec /\ Fairness

-----------------------------------------------------------------------------
(* Every variable stays in its type.                                       *)
TypeOK ==
  /\ st \in [Slots -> Session]
  /\ thread \in [Slots -> {"none", "waiting", "opened", "playing", "first_frame",
                           "stopping", "exited"}]
  /\ layout_slot \in {0, 1} /\ bap54_known \in BOOLEAN
  /\ pending_zoom \in -ZoomLimit..ZoomLimit
  /\ marker \in BOOLEAN /\ stub_owner \in Slots \cup {0}
  /\ view_worker \in BOOLEAN
  /\ worker \in [pc : {"tick", "zoom", "send", "sent", "refused", "failed"},
                 picked : Slots \cup {0}, picked_gen : Nat, request : Context]
  /\ parser \in [pc : {"none", "note", "queue"},
                 receiver : Receivers \cup {NoReceiver},
                 route : {"unknown", "off", "on"}]
  /\ wire \subseteq Context
  /\ confirmed \in [Receivers -> [ui : {NoUi, 0, 1},
                                  view : Views \cup {NoView}]]
  /\ generation_serial \in Nat /\ request_serial \in Nat
  /\ stimuli \in 0..MaxStimuli

(* The commands that exist: on the wire, or in the control worker's hands. *)
Commands == wire \cup (IF worker.pc = "tick" THEN {} ELSE {worker.request})

(* An answer that passes the generation and token checks answers exactly   *)
(* what the session stands at: the same step, for the view still aimed at. *)
(* v8s_control_completion stores ctx->view and walks on from ctx->stage,   *)
(* and never looks at control_target_view; this is why it may.             *)
AnswerFitsRequest ==
  \A s \in Slots, m \in Commands :
    /\ Owns(st[s], m) /\ st[s].awaiting_ack /\ st[s].token = m.token
    => m.stage = st[s].stage /\ m.view = st[s].target_view

(* updateViewArea and forceKeyFrame are only ever planned or asked under   *)
(* the layout URL that the session knows the phone to show, through layout *)
(* changes, failed showUIs, timeouts and views queued during an answer.    *)
ViewUnderItsUi ==
  \A s \in Slots :
    st[s].active /\ st[s].stage \in {"view", "keyframe"}
    => st[s].last_ui_slot = UiSlot(st[s].target_view)

(* last_ui_slot, which decides whether showUI may be skipped, is what the  *)
(* phone's answers have established, also after answers that came too late *)
(* or belonged to an earlier session of the same receiver.                 *)
UiBeliefIsConfirmed ==
  InOrder =>
  \A s \in Slots :
    /\ st[s].active /\ ~st[s].stop_requested
    /\ st[s].last_ui_slot # NoUi
    => confirmed[st[s].receiver].ui = st[s].last_ui_slot

(* control_inflight counts the control worker's calls into SendCommand for *)
(* this very session, so cleanup's wait for zero waits for the right ones: *)
(* a decrement meant for a slot's earlier session never hits its next one. *)
InflightExact ==
  \A s \in Slots :
    st[s].inflight =
      (IF worker.pc = "zoom" /\ worker.picked = s
          /\ worker.picked_gen = st[s].generation THEN 1 ELSE 0)
    + (IF worker.pc \in {"zoom", "send", "sent", "refused"}
          /\ Owns(st[s], worker.request) THEN 1 ELSE 0)

(* The view a session with a picture is heading for is always the one its  *)
(* route state and the gauge layout call for: no change is lost to a race  *)
(* of the mode parser, the trace readers, the first frame and the control  *)
(* worker.  (Between note_route_state and the queueing that follows it, it *)
(* lags.  Before request_cluster has run for the first frame it may be     *)
(* stale: a view queued for a session that has replaced the one the parser *)
(* meant misses the layout changes until the screen starts.)               *)
LatestRequestWins ==
  \A s \in Slots :
    LET c == st[s]
        heading == IF c.pending_view # NoView THEN c.pending_view
                                              ELSE c.target_view
    IN  /\ Serviceable(c) /\ c.show_sent /\ thread[s] # "first_frame"
        /\ heading # NoView
        /\ ~(parser.pc = "queue" /\ parser.receiver = c.receiver)
        => heading = RouteView(c, layout_slot)

(* The commands of a session fit what the phone was told before them: an   *)
(* answer is for the step the session stands at, a view and its picture    *)
(* follow the layout they belong to, and what the session believes to be   *)
(* shown is what the phone's answers have established.                     *)
CommandsFit == AnswerFitsRequest /\ ViewUnderItsUi /\ UiBeliefIsConfirmed

(* The session a slot's walk belongs to, as AckedControl sees it.          *)
Acked(s) == INSTANCE AckedControl WITH
  step  <- st[s].stage,
  asked <- st[s].awaiting_ack,
  goal  <- IF st[s].active THEN st[s].target_view ELSE NoView,
  ui    <- IF st[s].active THEN st[s].last_ui_slot ELSE NoUi,
  shown <- IF st[s].active THEN confirmed[st[s].receiver]
                           ELSE [ui |-> NoUi, view |-> NoView]

(* Each session implements the abstract walk of acknowledged commands.     *)
WalksAcknowledged ==
  /\ \A s \in Slots : Acked(s)!Init
  /\ [][\A s \in Slots : [Acked(s)!Next]_(Acked(s)!vars)]_vars

(* A queued view is taken up once it settles, unless the session stops     *)
(* being serviced or a newer view replaces it.                             *)
PendingIsServed ==
  \A s \in Slots :
    (view_worker /\ Serviceable(st[s]) /\ st[s].pending_view # NoView)
    ~> (st[s].pending_view = NoView \/ ~Serviceable(st[s]))
=============================================================================
