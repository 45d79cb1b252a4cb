# Verification of the K2161 CarPlay route guidance and cluster stream

This directory holds TLA+ models of the program in `src/`, the TLC
configurations that check them, and theorems about them checked by TLAPS.
The models are translated from the code; a document is only quoted where the
code disagrees with it.

The repository holds two trees: the original v1.1 route guidance
(`native/`, `java/src/`) and AltScreen v1.0 (`altscreen/`), which repeats the
whole of v1.1 with small differences (`send_hook.c`, `ident_hook.c`,
`BAPBridge`, `K2161GatedCombiService`, `K2161RouteGuidanceOwnership`,
`RouteGuidance`) and adds the private cluster video stream. The models follow
the `altscreen/` tree and name the v1.1 file where it differs.

## 1. Inventory

The program is a set of preloaded libraries inside three stock processes of an
infotainment unit, a Java bundle in the stock navigation runtime, a display
control script and a small renderer. Nothing is persisted except logs; what is
left behind in `/tmp` (the active marker, the pid file) is state shared between
processes.

### Inside the AirPlay receiver process

**AltScreen session and display control** (`altscreen_session.c`).
*State:* `g_states[4]`, one session per AirPlay receiver, with the view it
shows, the view queued, the command in flight and its deadline; the gauge
layout; the encoder counter; serial numbers for sessions and requests; all
under `g_lock`.
*Operations:* SETUP and TEARDOWN of stream 111 (split off the request the
stock library sees), a listener and a stream worker per session, the first
decoded frame, the mode dictionary that carries the route state, DSI trace
lines (gauge layout, encoder), and one control worker that ticks every 50 ms
and walks `showUI -> updateViewArea -> forceKeyFrame`, one answered command at
a time.
*Interactions:* asks the phone through `AirPlayReceiverSessionSendCommand`,
whose completion comes back on a transport thread; reads the active marker the
output sets; starts stock sessions, which open the output.
*Hard:* five kinds of thread and an asynchronous peer; answers that are late,
lost or of an earlier session at the same address; a receiver used after the
lock is released; teardown against a call in progress.
*Correct when:* an answer is only believed for what was asked; a view is only
set under its own layout; the latest request is what the display ends up with;
teardown waits for exactly the calls that use its receiver; nothing waits for
ever for an answer.

**AltScreen output forwarder** (`altscreen_output.c`).
*State:* one stub output with its owner, scope and active marker; a renderer
connection, the wait for an IDR, the cached parameter sets; time-sync and AES
material.
*Operations:* open, write, close of the stub; the forwarder, on
the decoding thread (connect, resend parameter sets, drop until an IDR, ask for one at most every
750 ms). *Hard:* reconnects under a running stream, the order marker / frame.
*Correct when:* the renderer never gets a picture before its parameter sets
and an IDR, and a marker exists only while an output is open.

**AirPlay info patching** (`altscreen_airplay.c`).
*State:* the CoreFoundation functions, looked up once; within a call, the
references it holds.
*Operations:* three stock functions called through wrappers: the two that copy a
property of the server or the session, and the one that copies the whole
information. *Interactions:* reads the profile and the view lines from two
files; the AirPlay stack owns what is answered.
*Hard:* every object can fail to be made, and then what was made before has to
be released once; two threads may call before the functions are looked up.
*Correct when:* the caller owns one reference to the answer and nothing leaks;
the phone is told of a complete second display or of none; without the patch
it gets the stock answer.

### Inside the iAP2 driver process

**0x5200 sender** (`send_hook.c`).
*State:* a retry epoch (generation, attempts, due flag, context), the time of
the last received route guidance message, eight slots for replies in progress.
*Operations:* the wrapped message handler (0x1D00 resets, 0x2700 tracks its
reply and may re-arm after silence), the wrapped `MsgReply` that starts an
epoch, the retry worker that only marks an attempt as due, the send, the note of
a received 0x520x. *Hard:* replies, workers and sends of an old epoch. *Correct
when:* an old worker or reply never changes a new epoch; one worker per epoch;
silence leads to a new request.

**Native bus** (`framework/bus.c`): a ring of 256 frames, a sticky copy of the
last state frame, a writer thread, a connector thread that connects, greets,
replays and then reads until the link breaks, and a timer thread. It can answer a
sync request, which no peer sends. *Hard:* replay against queued frames, a full
ring, descriptor numbers that are reused, an end that must not wait for a stuck
callback. *Correct when:* what the reader holds after a connection settles is the
latest state, and nothing is freed under a thread that uses it.

**Route guidance state** (`routeguidance/rgd_hook.c`): merges updates into
maneuver and lane slot caches, debounces the end of a route by 800 ms.
*Hard:* the debounce expires while an update arrives; slots renumbered between
merge and snapshot. *Correct when:* an end is reported only for a route that
stayed ended.

**TLV parsing** (`rgd_tlv.c`): three messages, each a run of TLVs (with a second
run in a lane information), into structures of fixed arrays. *Hard:* lengths the
phone claims, repeated lists, items in any order. *Correct when:* nothing beyond
the message is read and nothing beyond an array written, what was sent is what
is filled in, and no length keeps the loop in its place.

**Message table patch** (`message_table.c`), **identification**
(`ident_hook.c`), the installation of the **sender**, the **observer**
(`observer.c`), **bridge** (`rgi_bridge.c`) and **diagnostics**.
*State:* words in the memory of the stock driver, and which of them are ours; the
one attempt to install; whether the bus is up or was shut down; the current
sequence and message of the diagnostics.
*Operations:* `dlopen` finds the driver; the first received packet installs the
three parts in their order, each with a check, a write and a read back; every
packet is captured, found or not, and handed to the parser; the exit takes the
bus down. *Hard:* driver threads use the words while they change; a part that
does not stay; an exit during a frame. *Correct when:* what cannot be
installed whole is taken out whole before a thread meets it, and foreign words are
left alone.

**Status** counts; the **logger** (`logging.c`) is a bounded queue and a writer
thread.

### In the Java runtime

**CarplayBus**: accepts the native connection, decodes frames and hands them to
the listener of their type; it ignores their sequence numbers and sends nothing.
**Activator and CarPlayLifecycle**: start and stop of the parts with the CarPlay
session. **RouteGuidance**: the state of a guided route, and which parts of it a
frame changed. **Ownership gate** (`K2161RouteGuidanceOwnership`,
`K2161GatedCombiService`): blocks the native navigation's calls while CarPlay
guides, by a runnable on the navigation dispatcher it waits at most 10 s for.
**BAPBridge, ManeuverMapper, SideStreets**: takes the cluster over and gives it
back, and writes the selected maneuver's symbol, distance, text and lanes as the
changed parts ask. **Log and traces**: output.
*Hard:* a dispatcher timeout whose runnable still runs later; a stop while a
frame is worked on; a frame that changes part of what a part of the display is
made of. *Correct when:* the gate is open whenever no CarPlay guidance owns the
cluster, CarPlay only writes while it is closed, and what the cluster shows is
of one maneuver, the one the route is at.

### Beside them

**Display control script** (`mib2high-lvds-control.sh`): one instance by pid
file, follows the marker, takes and gives back the display context.
**Renderer** (`vc_render.c`), **installers, collectors, evidence**.

## 2. Plan

Order of work, the most important behaviour first.

| # | modules | what they model | stated against | state |
|---|---|---|---|---|
| 1 | `AltScreenControl`, `AckedControl` | sessions, display control, completions | `AckedControl`: a walk in which a step follows only the answer to the step before | checked; all four safety properties proved, the refinement among them |
| 2 | `RgiSender` | the 0x5200 retry epochs | the shape of an epoch (`NeverStuck`, `EpochAdvances`) | checked; all three safety properties proved |
| 3 | `RgiBus` | ring, sticky cache, replay, reconnect, the Java reader | a register that a reader follows | checked; all three safety properties proved |
| 4 | `RgdState` | the held route end, maneuver and lane slots, the snapshot and its reader | what the phone's lists say | checked; all three safety properties proved |
| 5 | `RouteOwnership` | gate, dispatcher, lifecycle, route session | one writer to the cluster | checked; both safety properties proved |
| 6 | `AltScreenOutput` | stub output, forwarder, marker, control script | what a decoder needs | checked; all three safety properties proved |
| 7 | `HudGuidance`, `ManeuverIcons` | State, parse, dirty flags, the display's parts; maneuver and street mapping | what the whole State would show | checked; two of four proved, and half of a third |
| 8 | `RgdTlv`, `RgdTlvMeaning` | the parsers of the three messages | what the phone packed (`RgdTlvMeaning`) | checked; two of three proved |
| 9 | `HookInstall` | getting into the driver, and the received frame | the stock words, as they were | checked; all three safety properties proved |
| 10 | `AirPlayInfo` | the second display in the receiver's information | the stock answer | checked; all three proved |

The order was that of what can go wrong: first the asynchronous peers and the
threads around them, then the ownership of shared outputs, then the sequential
but stateful display. `AltScreenOutput` stands for what the plan first had as
three modules (the session's worker and fresh key frame, the forwarder, the
script): the marker and the stub tie them together, so they are composed in one.
The last three modules are the program's edges, where bytes, foreign memory and
foreign objects come in; their proofs share `BoundaryProofs`.
Worth adding next: the split of the SETUP and TEARDOWN requests with `stopUI`,
and, of the theorems, the mirror half of `SidesAreRight` (`HudGuidance`).

Some properties the runs check are the conjunction of two or three that belong
together and are proved one by one: `CommandsFit` is `AnswerFitsRequest`,
`ViewUnderItsUi` and `UiBeliefIsConfirmed`; `EpochAccounted` is `WorkerAccounted`
and `NeverStuck`; `AsksAgain` is `SilenceAsksAgain` and `UnansweredAsksAgain`;
`SlotsAgree` is `OrderIsTheList` and `LanesAreFound`; `EndsStay` is `NoGhostRoute`
and `HeldEndForgets`; `GuidanceKeepsItsSlots` is `ListedKeepsItsSlot` and
`ShownLanesAreKept`; `OneWriter` is `GateFollowsRoute` and `EmitsAsOwner`;
`MarkerIsFollowed` is `NativeComesBack` and `MarkerIsServed`. The text below uses
the names of the parts where it speaks of one.

Modules meant for proofs use recursive functions or folds and no `RECURSIVE`
operator, name every assumption on a constant, and have one action per
critical section.

## 3. The display control model

### Modules

`AltScreenControl` is the program; `AckedControl` is what it promises to each
session; `MCAltScreenControl` is its instance for TLC; `AltScreenControlProofs`
holds the theorems.

### State

| variable | code |
|---|---|
| `st[s]` | `g_states[s]`: `receiver`, `active`, `screen_started`, `show_sent`, `stop_requested`, the route state, `current_view`, `pending_view`, and the `control_*` fields |
| `thread[s]` | where the session's stream worker stands |
| `layout_slot`, `bap54_known`, `pending_zoom` | `g_layout_slot`, `g_bap54_layout_known`, `g_pending_zoom` |
| `marker`, `stub_owner` | `/tmp/mib2high-lvds-active` and the stub output of `altscreen_output.c` |
| `view_worker`, `worker` | the control worker and the local variables of the tick it is in |
| `parser` | the mode parser between its critical sections |
| `wire` | commands accepted by `SendCommand` whose completion has not run |
| `confirmed` | history: the layout and view each phone's successful answers established |
| `generation_serial`, `request_serial` | the two serial numbers |
| `stimuli` | the model's own bound on events from outside |

A deadline is a flag (`view_due`, `expired`) raised by `ViewSettles` and
`AckDeadline`: the code compares the clock with a deadline only inside the
tick, so when the flag rises is arbitrary and that it rises is fairness.

### Actions

One action is one critical section of `g_lock`, or one call made outside it.
The tick is one action as its scan runs under the lock; the calls it then makes
(`send_zoom_event`, `SendCommand`) and the critical sections after them
(`ZoomSent`, `CommandReturned`, `DispatchFailed`) are separate, so anything may
happen between the pick and the booking-off: the completion before the call
returns, a teardown that gives up waiting, a new session at the same address.

Abstractions, and why they hide nothing the properties are about:

- `Setup` is `prepare_altscreen` up to the control worker's creation; the
  later steps fail as a whole (`PrepareFails`). No other thread but the trace
  readers looks at the session in between, and they skip one not started.
- The marker is read just before `g_lock` is taken, in the tick and in the
  mode parser. The model reads it in the same step. A change in between equals
  a tick that ran a moment earlier or later, save that a zoom step may leave
  just after the output closed.
- The commands' contents, the view areas' rectangles and the URLs are the
  view number; the URL is `UiSlot(view)`.
- `OutputOpen` sets the marker and takes it back when the script cannot be
  spawned in one step.
- `AirPlayReceiverSessionSendCommand` is external: it takes a command (which
  then is answered once, or never if the connection dies) or refuses it. With
  `InOrder` it answers a receiver's commands in order, as a request queue
  on one connection does; the safety that does not need it is proved without.
- Not in this model: `stopUI` and the split of the stock requests (section 12);
  the fresh key-frame request and what a session's output does are in
  `AltScreenOutput` (section 8).

### Run

| run | bounds | shows |
|---|---|---|
| `control_serves` | one receiver, one slot, 2 stimuli, faults, answers in order, fair | `CommandsFit`: an answer accepted fits what the session stands at, views are set under their layout, the layout believed shown is what the phone confirmed; calls are booked on the session they use; no route or layout change is lost; each session implements `AckedControl`; a queued view is taken up although commands fail or are never answered |

**Bounds.** `MaxStimuli` bounds what the environment does *unasked*: SETUPs,
mode changes, layout changes, encoder steps. Everything else is free: faults,
answers, timeouts and teardowns are unbounded. Two stimuli give a session, a
teardown and a session at the same address in the same slot, the
shortest history in which an old answer or an old call can meet a new session, or
a session and a change; the state
space runs to completion. `ZoomLimit` is 1 instead of 20: the counter is only
compared with its limit and with 0. There is one slot: two
sessions that live at once meet in the scan (the first one ready wins), in the
layout broadcast, in the stub output (one owner) and in the slot a zoom call was
picked from. The run has none of that; the theorems of section 11 have it, as
they hold for any number of slots and receivers, and all but the belief without
an order of the answers.
`CHECK_DEADLOCK` is off: the environment stops after
`MaxStimuli` events and a system without sessions then has nothing to do.

**Fairness.** `ControlThread`: the worker loops for ever around a 50 ms sleep
and its calls return. `ViewSettles`, `AckDeadline`: a monotonic clock passes a
deadline. `NoteRoute`, `QueueRouteView`, `RequestCluster`, `ScreenEnd`: a
thread inside one of our functions leaves it. No fairness is assumed for the
environment: SETUP, frames, mode changes and answers may never come.
All of it is weak
fairness: none of these steps is disabled again and again by another thread.
That the display ends up with the view asked for is not stated: it takes a phone
that answers, and a second session that plays on after the owner of the stub has
left takes up a later change but does not send it, as the marker is gone.

### Refinement

`AckedControl` keeps, for one session, whether it is open, the step it is at and
whether it waits. Its steps are: open, aim at a view (only when nothing is
unanswered), ask, be answered and move on, fail or expire and stand still,
close. It has no tokens, generations, locks or other sessions: that a late answer
changes nothing is its step `LateAnswer`, and that a confirmation counts only
with what the phone now shows is in `ConfirmUi` and `ConfirmView`.
`WalksAcknowledged` says every slot of `AltScreenControl` implements it under
the mapping given beside it (`Acked`); the run checks it with answers in order,
and section 11 has the proof for any order.

### A comment that does not hold

The comment on `request_cluster` (`altscreen_session.c:1226`) says "First real
stream frame starts the UI sequence." A gauge change queues a view for every
session with `screen_started` set, and the control worker sends it as soon as the
active marker exists; the marker is set by the stub output's open, inside the
session start and before any frame (lines 1328-1333). So a `showUI` may be under
way with `show_sent = 0`. Teardown tests `show_sent` before it sends `stopUI`, and
such a session is left without one.

## 4. The 0x5200 sender model

### Module, state and actions

`RgiSender` models the altscreen tree's `send_hook.c`, `MCRgiSender` adds the
symmetry, `RgiSenderProofs` the theorems. The v1.1 tree's file has the same
operations, but its Identification reset neither takes `send_lock` around the
clearing nor clears the flag of the running subscription: the results here are
about the altscreen file only.

| variable | code |
|---|---|
| `retry` | everything `retry_lock` protects, under the names of the code |
| `pending` | `pending_replies`, with `MaxReplies` slots instead of 8 |
| `send_lock` | the holder of `send_lock`; the other two locks are held within one action |
| `call[t]` | the call of `wrapped_iap2_msg` or `wrapped_iap2_close` that driver thread `t` is in: the message, its client, where it stands |
| `workers` | how many retry workers of each generation have not returned |
| `fresh` | history: the threads that took a 0x2700 for a trigger since the last boundary |

A call walks through one action per critical section: for 0x1D00 `Reset` and
`ClearReplies` under `send_lock`; for 0x2700 `RearmIfStale`, `TakeTrigger`,
`Track`, the stock handler with its real reply (`RealReply`), the lookup in
`MsgReply` (`TakeReply`), `Begin`, `Spawn`, `Send`, and after the stock handler
`After` and `Claim`. `WorkerRound` is one round of a worker, `NoteRgiRx` the
receive observer. Between any two, any other thread may run.

Abstractions: a time is kept as what it is compared with (`"never"`, `"recent"`,
past its interval), so the two retry intervals are one, and `attempts` saturates
at `RGI_START_FAST_ATTEMPTS`, above which nothing depends on it. `ctp` is not
null. The packet's building and sending has one outcome, as all outcomes leave
the same state. Messages other than the three do not touch the state. The table
is ready, as the hook is not installed otherwise.

### Runs

| run | bounds | shows |
|---|---|---|
| `sender_epochs` | 2 threads, 2 clients, 1 context, 2 slots, 2 stimuli, faults, fair | only a trigger of its own begins an epoch; each epoch has exactly its one worker; there is always a way on; nothing old takes an epoch back; an unanswered request is repeated; after silence, the next positions lead to a new one |

**Bounds.** `MaxStimuli` bounds 0x1D00, OCB closes and 0x520x received together;
0x2700, workers and time are unbounded. Two stimuli give an answer and its silence,
a boundary during or after an epoch, and two boundaries. Two threads are what an
interleaving of two calls takes, and two clients what lets both be in a 0x2700.
`MaxGeneration` is a width the runs do not exhaust; that a boundary changes
the generation also where it wraps is proved. Deadlock is checked.

**Environment.** The code has eight reply slots and three locks, so the driver is
taken to have several threads. `EagerClients` decides whether a client that was
replied to may send again before the thread that replied has left its handler.

**Fairness.** A thread inside the code leaves it; a worker ticks; the interval
passes; a stock handler that is entered again and again replies again and again
(`SF`, as it may leave some replies to others when `Faulty`). `GpsSpec` adds that
the phone keeps sending positions: `docs/architecture.md:52` makes the
recovery conditional on it.

**Limits found.** Two situations have no way on but 0x1D00 or an answer of the
phone: the retry thread cannot be created, and positions go on in another context
than the one the unanswered epoch began in (`retry_claim_pending` compares the
contexts). `UnansweredAsksAgain` therefore asks for a retry thread, and for
positions in the epoch's context. No document promises otherwise; they are listed
as hazards.

### A comment that does not hold

The header of `send_hook.c` (lines 9-11) promises 0x2700, stock handling, real
`MsgReply`, then 0x5200. `MsgReply` looks for its slot after the real reply. A
client that sends a 0x2700 at once, taken by another driver thread under the same
rcvid (`EagerClients`), has its slot found by the first thread, which begins the
epoch and sends before that 0x2700 is handled. With `EagerClients` false, as in
the run, `FreshTriggerBegins` holds, which includes the order.

## 5. The bus model

### Module, state and actions

`RgiBus` models `framework/bus.c` of the altscreen tree with the reading end in
`CarplayBus.java` and `RouteGuidance.java`; `MCRgiBus` adds the symmetry and a
start state in which the bus and the Java side are up; `RgiBusProofs` the theorems.

| variable | code |
|---|---|
| `bus` | what `g_lock` protects: the ring, the sticky copy, `g_client_fd`, `g_client_gen` |
| `shutdown`, `life` | `g_shutdown`; where `bus_init` and `bus_shutdown` stand |
| `writer`, `connector`, `timer` | the three threads: where they stand, and what they hold in local variables |
| `fds` | the connection a descriptor number stands for now |
| `conns` | per connection the frames in flight and whether either end is open |
| `java` | the server socket, the connection being read, whether the listener is registered, the state `RouteGuidance` holds |
| `heard`, `lost` | history: the last update that reached Java; whether the latest one did not fit into the ring |

`BusSend` is the locked part of `bus_send`; `WriterTakes`, `WriterSends` and
`WriterDrops` are the writer before, in and after its send, which it makes without
the lock; `Connect`, `Hello`, `Snapshot`, `SendReplay` (one frame each),
`Publish`, `LinkCheck` and `ReadFails` are the connector's round. `BusInit`,
`CreateThreads`, `WriterNotCreated` and `Unwound` are `bus_init` with its failure
path, `BusShutdown` to `ShutdownFrees` or `ShutdownDefers` the end.

Abstractions:

- The program sends one type, `EVT_RGD_UPDATE`, always with the sticky flag, so
  the table of types is one slot and an update is the number of its `bus_send`.
  `bus_set_sticky`, `bus_set_policy`, `bus_on` and `bus_off` are called nowhere.
- A frame is its kind and its update; its sequence number is left out, as
  `CarplayBus` reads and ignores it. One sent
  in part is `"cut"`: the reader waits for the rest of it and leaves when it gets
  the next frame, or the end of the stream, instead.
- A connection made after `g_shutdown` is set is closed at once and left out.
- `send` fails on a closed descriptor, may fail after the peer has closed, and
  may time out with `Window` frames in flight. `Window >= 4`: the greeting of
  an idle link (HELLO, begin, update, end) fits into the socket buffer. Were it
  smaller, a Java that reads would still be greeted; but the model would let a
  greeting fail for ever.
- The Java side sends nothing, so `recv` returns only when the link is gone.
  Closing a socket is taken to wake a thread that reads from it.
- Frames on one connection stay in order and are lost only with it.
- Allocation does not fail.

### Runs

| run | bounds | shows |
|---|---|---|
| `bus_follows` | 2 updates, ring of 2, 2 stimuli, 2 descriptors, both sides up, fair | once things settle Java has heard the latest update; when updates stop, it arrives; the writer closes only the connection it sent on |
| `bus_lifecycle` | 2 updates, ring of 1, 2 stimuli, thread creation fails, fair | what is freed stays free; `bus_shutdown` ends even when the timer's callback does not return |

**Bounds.** `MaxStimuli` bounds the Java side's starts, stops and deaths and the
failures to create the writer; time-outs, reads and reconnects are free. Two
descriptors let a number be reused and not. A ring of 2 holds an update older
than the replayed one behind it; a ring of 1 runs full.
`bus_follows` starts with both sides up (`UpInit`, the state
that `BusInit`, `CreateThreads` and `RouteStart` lead to), which saves a stimulus
for Java's death and return. `CHECK_DEADLOCK` is off: after `bus_shutdown`, or
without a Java side, the system stops.

**Fairness.** The writer, the connector and Java's reader are threads that run.
The timer leaves when it is asleep; that its callback returns is not assumed.
`bus_shutdown`, once entered, goes on. No update, start or stop is assumed to
come.

**Conditions.** `FollowsLatest` and `LatestArrives` except an update that did not
fit into the ring: its copy is in the cache, and only a new connection or a new
update brings Java up to date. Both are checked with thread creation
succeeding. When it fails with the connector between `connect` and publication,
the failure path of `bus_init` leaves a descriptor published; the next `bus_init`
finds it, its writer takes the latest update for the old link, and that update can
be lost until the next one (TLC shows it from `Init` with `CreateFails`). The
comment at `bus.c:656` says that a stale descriptor should not exist there.

### Comments that do not hold

The comment at `bus.c:550` says that Java asks for a replay after it has
registered its listener. `CarplayBus.send` ignores what it is given and
`RouteGuidance.start` sends nothing (line 285 registers), so a `RouteGuidance`
restarted on a live link keeps its old state until the next update.

Two more sentences are not kept, without an effect on the reader: a frame that
waited in the ring keeps its number and follows a replay with higher ones
(`bus_protocol.h:13`: increasing per side), and a writer that holds the old
descriptor number can send before HELLO on a new connection that got the same
number (`bus.c:631`).

## 6. The route guidance state model

### Module, state and actions

`RgdState` models `routeguidance/rgd_hook.c` with the reading end in
`RouteGuidance.parse`; `MCRgdState` gives the messages of a small phone;
`RgdStateProofs` holds the theorems.

| variable | code |
|---|---|
| `running`, `haveUpdate` | the hook until `rgd_shutdown`; `have_update` |
| `last`, `emitted` | `last_route_state`, what the phone said; `emitted_route_state`, what Java was told |
| `zero`, `claimed` | the held route end (`route_zero_*`) as what its deadline is compared with; the tick's local claim |
| `maps` | the maneuver list (whether there is one), the stored maneuvers, the slots of the maneuvers and those of the lanes |
| `cache` | `update_cache` |
| `sticky` | the last frame on the bus, which a new reader is given |
| `java` | `RouteGuidance.State` |

A handler is one step (`HoldEnd`, `SuppressUpdate`, `RouteUpdate`,
`ManeuverUpdate`, `LaneUpdate`): the phone's messages are handled one at a time,
and the only other thread, the tick, shares with it what the debounce lock
protects. The tick is two steps, as it sends after the unlock. The LRU order is a
rank per slot instead of an age counter. The messages are enumerated by TLC from
three constants (`Updates`, `Maneuvers`, `Lanes`), and are any in the proofs.

### Runs

| run | bounds | shows |
|---|---|---|
| `route_state` | 3 indices on 2 slots, 6 updates, 3 maneuvers, 3 lanes, fair | Java presents the list in its order; it finds the lanes of the event it shows; no ended route stays or comes back; a listed maneuver keeps its slot and the lanes shown are not evicted; a silent phone leaves nothing half ended |

**Bounds.** Two slots under three indices make both caches full and evict; the
updates are a list longer and shorter than that, a reroute, an end held back, an
end by the source (which comes with an empty list), and an update without a field.
Nothing bounds the length of a behaviour. **Fairness.** The clock runs (`GraceElapses`) and the bus's
timer thread calls the tick (`TickClaims \/ TickSends`). Nothing of the phone is
assumed to come.

### What the model shows besides

The comment at `rgd_hook.c:1164` says that a 0x5202 in no list is
"storage transport only: maneuver_list remains the sole authority for presentation".
A route end that is held back resets the list and the slots, and Java is told
nothing. A 0x5202 that follows is stored in a slot Java's old list still names and
is presented under it, until the next list (`rgd_hook.c:1429` resets).

Two more things that no document excludes: an end after a
reroute is never told by the timer (`"reroute"` has no way to `"due"`), and an
update that falls between the tick's claim and its send is followed by the end,
so that Java waits for the next `route_state` (hence `~claimed` in
`NoGhostRoute`, and only an end of the hook in `SilenceSettles`).

## 7. The route ownership model

### Module, state and actions

`RouteOwnership` models who drives the cluster: `Activator`, `CarPlayLifecycle`,
`RouteGuidance` (start, stop, and when a frame starts or ends the route),
`BAPBridge` (init, onStart, onShutdown, dispose),
`K2161RouteGuidanceOwnership` and the gate `K2161GatedCombiService`.
`RouteOwnershipProofs` holds the theorems.

| variable | code |
|---|---|
| `nav` | the native side: whether `Navigation.getInstance()` is there, the service the map and guidance call, which gates block, and of the cluster what CarPlay overlays |
| `jobs` | the queue of the navigation's dispatcher, with the thread that waits for each runnable |
| `bridge` | the `BAPBridge`s made, each with the fields of its ownership object and the monitor of that object |
| `guide` | the `RouteGuidance`s made, one per navigation service |
| `listener` | who listens for `EVT_RGD_UPDATE` |
| `life`, `bundle` | `CarPlayLifecycle` with its monitor; `Activator` |
| `call[t]` | where thread `t` stands, with the guidance, bridge and wish it carries |
| `made` | how many gates were made, which numbers them |
| `late`, `met` | history: a caller has given up waiting for the dispatcher; a stop or start has met another thread's work with the same guidance |
| `stimuli` | the model's own bound |

Three threads call in: the bus thread with frames, the device thread with the
active device's state, the bundle thread with the navigation's service. A call
walks through one action per point at which another thread can interfere:
onStart is `FindsGate`, `ReadsOwnership`, `SetsRoute` and the four steps of
`TakesOver`; a stop is `Stops`, `GoesDown`, `ReadsOwnership`, `SetsRoute`,
`Restores`, `Disposes`. The wait for the dispatcher is a place of its own:
`DispatcherRuns` runs the oldest runnable and lets its caller go on,
`GivesUp` is the timeout of `runOnDispatcherAndWait`, after which the runnable
still runs. Bridges and guidances are numbered as they are made and never
removed, so a thread may hold a bridge that was disposed of.

Abstractions: the threads share plain fields; a thread is taken to read what was
written last. A frame is whether it starts or ends the route (what makes it do
so is `WantsOwnership` in `HudGuidance`). The gate lets through or drops all
route guidance writes alike, as in the code, whose map block is never set. Left
out: rejected services, the ready marker, a bundle that is started again.

### Runs

| run | bounds | shows |
|---|---|---|
| `route_owned` | 6 stimuli, fair | a stop leaves native guidance open however late its jobs run; with a punctual dispatcher the gate follows the route, and CarPlay writes only while native guidance is shut out; every call returns |
| `route_hand_back` | 6 stimuli | *violation*, see below |

**Bounds.** `MaxStimuli` bounds device states, service changes and frames; the
dispatcher, its timeouts and the coming up of the navigation are free. Six are a
service, a device, a frame that starts the route and three events against it:
the shortest history of a stop, a restart and a frame on the new bridge. About
680,000 states. `CHECK_DEADLOCK` is off: after its stimuli the environment stops.

**Fairness.** The three threads run, and a wait ends in time (`GivesUp`). Nothing
is assumed of the dispatcher, so `CallsReturn` holds with one that hangs.

**Conditions.** `GateFollowsRoute` and `EmitsAsOwner` are for a dispatcher that
keeps its time (`~late`). After a timeout the ownership object believes what was
before, and the next activation skips a block that was undone or repeats one;
nothing in the code repairs the flag. All three leave out the stop that meets
another thread's work (`~met`), which is the finding.

### Finding

`route_hand_back`: `RouteGuidance.start` says that "stop() performs a full
BAPBridge dispose so native navigation gets its raw service back"
(`RouteGuidance.java:261-262`). If the stop runs while onStart, on the bus
thread, stands between reading the ownership object and closing the gate, then
`restoreBestEffort` finds nothing to restore, dispose drops the reference, and
onStart installs and closes a gate nobody can reach any more. Its own hand-back,
at `BAPBridge.java:801`, finds no ownership object. Everything has stopped, every
wait ended in time, and native guidance stays shut out.

## 8. The cluster picture model

### Module, state and actions

`AltScreenOutput` models the way of a picture out of `dio_manager`:
`altscreen_output.c`, the worker of `altscreen_session.c` that opens and closes
the output, the renderer's end of the connection, and
`mib2high-lvds-control.sh`. It composes them because they only meet through the
stub, the marker and the pid file. `AltScreenOutputProofs` holds the theorems.

| variable | code |
|---|---|
| `sess`, `scope` | the sessions with their workers; `g_patch_owner`, whose thread opens outputs for the cluster |
| `fwd` | the stub and the forwarder under `g_fwd_lock`: whether it is active, its connection, `need_idr`, whether a request was made, the cached parameter sets |
| `decoder` | what the renderer's decoder was given on this connection |
| `phone` | the stream: its format, what comes next, whether a key frame is owed |
| `render` | the renderer process |
| `marker`, `pidfile` | `/tmp/mib2high-lvds-active`, `/tmp/mib2high-lvds-control.pid` |
| `script`, `display` | the instances of the control script; the display context and the heartbeat file |
| `crossed`, `missed`, `oversize` | history: the sessions whose output was still being closed when the open one was opened; a script gave way to one that was leaving; a unit did not fit the buffer |
| `left` | what is left of the budget of sessions and faults |

`Decodes` is one access unit from `NvSSVideoDecode` to the socket:
connect or wait out the pause, keep the parameter sets, drop until an IDR, write,
lose the connection. A key frame is asked for in two steps, as in
`altscreen_request_fresh_keyframe`: the receiver is picked under `g_lock`
(`PicksReceiver`) and used after the unlock (`ForcesKeyFrame`).

Abstractions: a unit is what the scan of its NAL types says (IDR or not, which
parameter sets, fits or not); the pause before the next attempt to connect is
chosen when the connection is lost; the display context is declared successfully;
the captured time sync and AES key of the main screen are a choice of `Starts`;
what `NvSSVideoClose` leaves for the next open to reset is reset at once. Left
out: a renderer whose decoder cannot be opened, the reacquire marker (nothing in
the repository reads it), `StreamConfigure` and attributes.

### Run

| run | bounds | shows |
|---|---|---|
| `output` | 2 slots; 2 sessions without faults, or 1 session with 3 faults; fair | the decoder gets parameter sets and an IDR before what needs them; a marker has its output; a key frame is asked of the worker's own session, or of one whose output was still being closed when this one was opened; a picture comes back after every break; the display is native again after the last session; a marker is served by a script |

**Bounds.** Two sessions are what an open that crosses a close takes, and two
scripts what a pid file race takes; three faults are a renderer's death, a lost
request and a send that fails, in any order. The two budgets are separate as
sessions only meet in stub, marker and pid file, and faults only in the stream of
the one that has the stub. About 293,000 states.

**Fairness.** Workers and scripts run and time passes. A phone goes on with its
stream (`WF`), and an owed key frame comes however many pictures come before it
(`SF`, as the pictures may be dropped in between). A stream that was told to stop
ends (`SF`: it may be busy with a unit again and again).

**Conditions.** `DecoderIsPrimed` leaves out an IDR that does not fit the 384 KB
buffer: the wait for an IDR is cleared before the unit is dropped
(`altscreen_output.c:829-831`, then 675), so the predictive frames after it are
sent, against the comment at lines 843-848. `AsksTheLiving` names the window of
`altscreen_request_fresh_keyframe` and does not exclude it: the function picks the
first started session under `g_lock` and uses its receiver after the unlock. That
is the worker's own session, which is not released while its worker runs, or one
whose output was still being closed when this one was opened; TLC reaches both,
and a state in which the receiver picked has been released meanwhile. What the
property rules out is every other session: one that has not opened an output, or
had left before. `MarkerHasOutput` is about a marker without an output. The
converse does not hold: close clears `g_stub_active` before it unlinks the marker
(1101-1124), so it may unlink the next session's.
`MarkerIsServed` leaves out the race for the pid file (script, lines 21-28 and
32-39): a script that starts while the former is leaving gives way to it. A
renderer that dies is not restarted before the next session's script, so
`PictureComes` asks for one that stays.

## 9. The display model

### Modules, state and actions

`HudGuidance` models what the cluster shows of a route: `RouteGuidance.State`,
`parse` with its dirty flags and `onFrame`, and `BAPBridge.update` with all it
writes about the maneuver. `ManeuverIcons` holds the mappings it uses as
operators: `ManeuverMapper.map`, the side streets of crossings and roundabouts,
the arrows and the lane panel. `MCHudGuidance` holds the frames TLC tries,
`HudGuidanceProofs` the theorems.

| variable | code |
|---|---|
| `state` | `State`, with the slots of the maneuvers and lane events, without its flags |
| `bridge` | the approach zone, the maneuver shown, the latched text and the last distance of `BAPBridge` |
| `cluster` | what was last written to the cluster, part by part |
| `running`, `routeSeen`, `rgActive` | the flags of `RouteGuidance` |
| `fresh` | history: the parts written since there is a route to show |
| `story` | the frames TLC tries in a behavior |

`update` writes only the parts its flags name, out of a `State` that many frames
filled. The properties compare what is shown with what the whole `State` would
show: an abstract display that is always written in full. A frame that is parsed,
starts or ends the route and updates the display is one step, as the bus thread
does it in one callback; stops between frames are here, stops within are in
`RouteOwnership`.

Left out: the figures of the trip, the z level, lane positions, the formatting of
distances and the length of texts.

### Run

| run | bounds | shows |
|---|---|---|
| `hud` | 2 slots, 6,244 stories | symbol, distance, text and "turn now" are those of the one maneuver the last list selects; the lanes are those of the event the phone names; mirrored traffic gets mirrored symbols, and sides follow the angle; every street has its line |

**Bounds.** A story is a set of frames that may come in any order and any number
of times: maneuvers and lists (a list of two that shrinks, grows and starts with
`START_ROUTE`, slots filled late and again, distances of all three zones), lane
events that move between two slots, the life of a route with refusals and
restarts, and one story for each type of maneuver at twenty angles, three
junctions and both driving sides, with and without streets around it. Two slots
are one more than a list shows at a time. The system is single threaded and
sequential: there is no fairness and no liveness to state.

**Limits found.** The flags of a frame that is refused, or comes before the
bridge is there, are gone. A route that becomes active after its distance was
written as cleared leaves the distance away, as `ROUTE` names no part. `stop`
keeps `State`. A slot keeps the fields a new maneuver does not carry. A real
angle of -1 is taken for none; -1000 is no angle to `ManeuverMapper` but an angle
to the side streets. The fallback on linked lanes in
`resolveLaneGuidanceManeuverIndex` cannot be reached. A list of none while the
route is active keeps the last symbol. The properties state what holds besides.

## 10. The edges

Three modules for the places where the library meets what is not its own. They
share `BoundaryProofs`.

### The messages of the phone

`RgdTlv` models `rgd_tlv.c`: one action per TLV of the run, and of the second run
in a lane information. `RgdTlvMeaning` says what a message means from the TLVs
the phone packed and not from its bytes; `MCRgdTlv` has the messages.

| variable | code |
|---|---|
| `msg` | the buffer, with the TLVs packed into it (`sent`, for the properties only) |
| `phase`, `off`, `group` | the loop of `rgd_parse_update`, `rgd_parse_maneuver` or `rgd_parse_lane_guidance`, and the one of `rgd_parse_lane_information_value` inside the last |
| `present`, `number`, `list`, `text`, `lanes` | the structure that is filled in, by TLV identifier |

A number is kept as its bytes and a string up to its NUL. A byte outside the
buffer reads as `Garbage`, which is no byte: `StaysWithin` says that none gets
into a scalar, a list or a lane. The three loops share one check of the length (`Sound`) as they do in
the code. The component of the identification message and the hex preview are
left out.

### Getting into the driver

`HookInstall` models the installation (`observer.c`, `ident_hook.c`,
`message_table.c`, the end of `send_hook.c`) and what becomes of a received
packet (`receive_probe.c`, `rgi_bridge.c`, the session and sequence of
`diagnostics.c`).

| variable | code |
|---|---|
| `build`, `base` | what the driver of this process is like; whether `driver_base` is set |
| `mem` | the driver's words: three callbacks, and name, messages and count of group 0x52 |
| `mine` | what each wrapper needs to call the stock function, with its installed flag |
| `attempted`, `rx` | `ident_install_attempted`; where the receiving thread is, in the installation or with a frame |
| `loader`, `stock`, `lookup` | a thread in `dlopen`; what a driver thread has fetched from a callback; one that has seen the count of the group |
| `bridge`, `handed`, `diag`, `raw` | the bridge's flags and lock; messages given to the parser; the diagnostics; bytes captured |
| `alive` | the process has not called, or read, through NULL |

Every store to the driver's memory is an action of its own, and so is every read
back. A driver is a record of what the checks look at (`Build`): whether the two
lookups agree, which words are the stock ones, whether the references are where
they are expected, and which of the six words keep what is written to them; each
is kept or refused by itself. Both roll backs go as the code goes: the table's
takes back the count, the messages and the name in three stores
(`message_table.c:220-224`); the callbacks' takes back the one that took its
wrapper and then sets to NULL, one after the other, what the wrappers call
(`send_hook.c:603-608`). The driver's threads may fetch a callback at one moment
and call it at any later one, and may see the count of the group at one moment
and use its messages at a later one; if what they call or read is NULL then, the
process is not `alive` and nothing more happens (`Dead`).

Stores and loads are taken in the order of the program. A wrapper once called is
one step, so that a function that is set to NULL while the wrapper is running on
its way to it is not told apart from one set before.

### The information of the receiver

`AirPlayInfo` models `altscreen_airplay.c`: the three wrappers, the copies they
make and the profile.

| variable | code |
|---|---|
| `platform`, `cf`, `elsewhere` | what `dlsym` finds; `g_cf`; another thread's first call, as far as it resolves |
| `step`, `request`, `answer` | where the call stands, what it was asked, what it returned |
| `held`, `inside`, `whole` | the references the call owns; what is in which container; the objects all of whose fields are set |
| `profile`, `slot` | the profile that was read; the view area that is made |

A step is what lies between two points where something may fail to be made, so
each failure is one choice. A view area and its safe area are made in a step each;
a third looks at the pair and releases the one that was made when the other was
not (`PairMade`, `altscreen_airplay.c:678-683`). The key strings live within a
step, which fails with them. The values of fixed fields are left out; the rectangles of the profile are
modelled, with their bounds.

### Runs

| run | bounds | shows |
|---|---|---|
| `tlv_parsed` | messages of up to three TLVs out of 26, lane informations of up to three items out of eight, four broken ends; arrays of 2 or 3, strings of 3, 5 and 9; fair | nothing from beyond the message is taken and no array overfilled; what was sent is what is filled in; each step comes nearer to the end |
| `hooks_installed` | 16 drivers, four kinds of frame, 2 packets, 1 new session, fair | what cannot be put in whole is taken out whole, under the threads of the driver, which meet a NULL only in the mixed drivers below; foreign words are kept; a line of the diagnostics names the message at hand or none; what was shut down stays down; the right driver is hooked |
| `airplay_answers` | three platforms, 17 requests, 54 profiles, 4 view files, any object failing | references balance, also of borrowed objects; a second display is complete or not there, its safe areas on the canvas; the stock answer is withheld only while another thread looks for the functions |

**Bounds.** Three TLVs are a list, its repetition and a broken end; an array of
two is filled by one list and overfilled by two. Of the drivers, one is the right
one, six have something else in one place, as each check fails on its own, and
nine refuse words: each of the six alone, both callbacks, the whole group, and
the name with the messages. The run has about 694,000 states. Two packets are one that installs and one that comes later, and the
second session is what resets the sequence in the middle of a message. A
behavior of `AirPlayInfo` may ask again without bound. The canvas is 4 by 3 with
profiles inside and outside of the limits of 2 to 6.

**Fairness.** The parser and the receiving thread go on with what they have
begun (`WF`), the exit with the shutdown. That packets come is not assumed:
`Arms` starts from the first attempt. `AirPlayInfo` is a call that
returns, with no liveness to state.

**Limits found.** A driver that keeps one callback and refuses the other makes
`send_hook.c:601-613` take the wrapper back and set `original_iap2_msg` and
`original_iap2_close` to NULL; a thread that fetched the wrapper in between calls
NULL (line 502 or 536). A driver that keeps the count of group 0x52 and refuses
the messages or the name shows the count without them from the store (line 209 of
`message_table.c`) until it is taken back (220), against the comment at 198-203,
"the entry cannot become visible in a half-written state"; a lookup in between
uses messages that are NULL. TLC reaches both within 20 steps. `HooksSound` names
exactly these drivers (`CallbacksEven`, `TableEven`): in every other one a fetched
wrapper still has what it calls, a lookup that saw the count finds what it counts,
and the process stays `alive`; in these, too, the roll back leaves nothing behind
(`NothingHalf`), and a wrapper that is in the driver has what it calls.

A profile is for the first two views: views 2 and 3 keep the
default canvas for a safe area, which is larger than that of a smaller profile
(`altscreen_airplay.c:586`), unless the view file names them. `resolved` is set
before the functions are looked up, so a second thread's first call may get
nothing where the stock function would have answered (line 140);
`AnswersAsStock` excepts just that. A frame that has passed the bridge's lock
before the exit took it reaches the parser after the shutdown (`FeedHand`):
`StaysDown` says that it is the only one. `rect_valid` adds what stands in the
file (line 526); sums are taken to fit an `int`.

## 11. Proofs

TLAPS proves each theorem for every value of the constants. The types
(`TypeOK`) are proved for every module and so no run repeats them; the other
properties are both run and proved where they are listed here.

`AltScreenControlProofs` proves, for any receivers, number of slots and bounds:

| theorem | statement |
|---|---|
| `TypeCorrect` | `Spec => []TypeOK` |
| `AnswersFit` | `Spec => []AnswerFitsRequest` |
| `ViewsUnderTheirUi` | `Spec => []ViewUnderItsUi` |
| `WalksAreAcknowledged` | `Spec => WalksAcknowledged`, the refinement of `AckedControl` |
| `InflightCounted` | `Spec => []InflightExact` |
| `BeliefsConfirmed` | `Spec => []UiBeliefIsConfirmed` |
| `CommandsInOrder` | `Spec => []CommandsFit`, the conjunction the run checks |
| `LatestWins` | `Spec => []LatestRequestWins` |

They rest on `ControlAssumption` alone (there is a slot, the NULL receiver is no
receiver, the bounds are natural numbers).

`TypeOK` is not inductive-by-shape everywhere: the first ready and first started
slot are `CHOOSE`n, so `FirstIsSmallest` (a non-empty set of naturals has a
least element, from the well-foundedness of `<`) is needed before the tick's
`picked` has a type.

`AnswerFitsRequest` is not inductive: a new request could carry the token of a
command still under way. `ControlInv` adds

- `TokensIssued`: no session and no command has a token above
  `request_serial`, so a new request's token differs from every one in use.
  Generations need no such bound: tokens alone tell commands apart, and the
  proof shows it;
- `Sound` for each session: an active one has a receiver, and one that stands at
  `view` or `keyframe` has shown the layout of the view it aims at, which is
  `ViewUnderItsUi` and is kept by the answers because they fit.

The step lemmas (`Kept...`, `Control...`) go action by action; an action that
leaves the commands and the `control_*` fields alone is covered by one lemma.

The refinement follows from `ControlInv`: initial states map to `Acked(s)!Init`,
and every step is, for every slot, one step of `AckedControl` or none. The
actions fall into a few kinds (`StepKinds`): steps that leave a session alone,
its setup and release, the tick, a completion, a failure. What makes the
completion a `ConfirmUi` or a `ConfirmView` is that an answer accepted fits the
request.

`InflightExact` needs `Books`: two active sessions have different generations and
receivers, and a worker in the zoom call holds the generation of the session it
was picked for, unless that session is gone. Then a call is counted once and
booked off once, in the slot's session or not at all.

`UiBeliefIsConfirmed` needs `Beliefs`, which adds the order of the transport:
tokens of commands under way to one phone grow along the wire, no session waits
for an older command than one under way, and while a session believes a layout
to be shown, no other session's `showUI` is under way to its phone.

`LatestRequestWins` needs only `Headings`: a session whose screen has not started
has no picture. Its condition on the first frame was found by the proof: a view
queued for a session that has replaced the one the mode parser meant is of the old
route until `request_cluster` runs for the first frame.

`RgiSenderProofs` proves, for any threads, clients, contexts and widths that
`SenderAssumption` allows:

| theorem | statement |
|---|---|
| `TypeCorrect` | `Spec => []TypeOK` |
| `AlwaysAWayOn` | `Spec => []NeverStuck` |
| `EpochsAdvance` | `Spec => EpochAdvances` |
| `WorkersAccounted` | `Spec => []WorkerAccounted` |
| `FreshTriggersBegin` | with `~EagerClients`: `Spec => FreshTriggerBegins` |
| `EpochsAccounted` | `Spec => []EpochAccounted` |

`NeverStuck` is inductive over well-typed states: its three disjuncts are the
states of an epoch, and each action maps each of them to one of them. It is also
what the action property needs: a worker that finds `got_520x` with the sender
enabled would end the asking, and `NeverStuck` says that none does. `NextGenerationDiffers`
is where the width matters: a boundary never keeps the generation.

`WorkerAccounted` also needs that a generation is not used twice. It is a property of
the bounds, not of the code: a worker that slept through all `MaxGeneration`
boundaries (2^32 in the code) would wake up in its own. `BoundariesCounted` counts
the boundaries that can still come against the stimuli, which `SenderAssumption`
keeps below the width, and `NoneAhead` says that no generation ahead has a worker.
`FreshTriggerBegins` needs `FreshInv`: one call per client, a slot is of a call
that waits for its reply, no two slots are of one client, and what bears the
current generation was taken since the last boundary. With `EagerClients` the
property does not hold (section 4), hence the hypothesis.

`RgiBusProofs` proves, for any descriptors, capacity, window and bounds that
`BusAssumption` allows:

| theorem | statement |
|---|---|
| `TypeCorrect` | `Spec => []TypeOK`, with the ring never beyond its capacity |
| `FreedStays` | `Spec => []FreedStaysFree` |
| `WriterClosesOwn` | `Spec => WriterClosesItsOwn` |
| `LatestFollowed` | with `~CreateFails`: `Spec => []FollowsLatest` |

The types are inductive over one lemma per group of actions; the lemmas before them
say what a call on a descriptor makes of the connections (`ClosingType`,
`SentType`, `FailsType`) and what a thread holds at a stage (`SendingWriter`,
`ConnectedConnector`). `FreedStaysFree` needs one more fact, that `g_shutdown`
is set from the moment `bus_shutdown` has begun: a caller of `bus_send` is then
refused, and of the threads none is left that could write (`FreedInv`).

`WriterClosesItsOwn` needs `Owners`: as long as the published descriptor and its
generation are those the writer took, they stand for the connection it took them
for, which rests on the connector working on another descriptor until it
publishes it, and on the generation growing with each publication.

`FollowsLatest` speaks of a bus at rest and follows from where the latest update
is at any time (`LatestInv`): at the end of the ring or in the writer's hand
(`LatestQueued`), in the replay the connector is sending (`LatestReplayed`), or
on the link (`LatestSent`), where it is the last update in the socket or the one
Java has heard, or the link is broken and one of the two ends will notice
(`Carries`). `GreetingFits` is what makes the replay arrive: what the greeting sends,
with the one frame the writer may still put before it, stays within the socket's
buffer (`Window >= 4` in `BusAssumption`), so that no send of the replay times
out. The hypothesis excludes the failure described in section 5, with which the
property is false.

`RgdStateProofs` proves, for any number of slots, indices and messages that
`RgdAssumption` allows:

| theorem | statement |
|---|---|
| `TypeCorrect` | `Spec => []TypeOK` |
| `OrderFollowsList` | `Spec => []OrderIsTheList` |
| `NoGhost` | `Spec => []NoGhostRoute` |
| `HeldEnd` | `Spec => []HeldEndForgets` |
| `LanesFound` | `Spec => []LanesAreFound` |
| `ListedKept` | `Spec => ListedKeepsItsSlot` |
| `LanesKept` | `Spec => ShownLanesAreKept` |
| `SlotsInAgreement`, `EndsRemain`, `SlotsKept` | `Spec => []SlotsAgree`, `Spec => []EndsStay`, `Spec => GuidanceKeepsItsSlots` |

The inductive invariant (`Inv`) joins three parts to the types: what Java and the
last frame show of the route state is what the hook emitted (`Told`; the
frame too, as a new reader is given it), the merged update tells no other state,
and the last snapshot agrees with the lane cache field by field (`Shown`). The
two action properties need that an index has at most one slot (`Own`), and
`ListedKept` a pigeonhole: were every slot in use, there would be as many listed
indices as slots. What a frame makes of the state is in `SnapshotFacts`,
`PublishedFacts` and `ParsedFacts`. `OrderIsTheList` has an invariant of its own
beside `Inv`: as long as the phone's list stands, the last snapshot names its order
and types, and Java has taken them over (`Presented`). A handler either publishes
again or, having nothing to publish, has left list, slots and maneuvers alone
(`SameList`). For this `Order` picks the n-th of the list's usable positions
(`Nth`), which exists because counting them is one to one (`NthIsThere`).

`RouteOwnershipProofs` proves, for any number of stimuli, and so for any number
of services, sessions, bridges and gates:

| theorem | statement |
|---|---|
| `TypeCorrect` | `Spec => []TypeOK`, where every reference has its object and a job that is waited for is the one its thread waits for |
| `EmitsOwned` | `Spec => []EmitsAsOwner` |
| `WorksAlone` | `Spec => []OneAtWork`: one thread at a time is at work with a bridge, unless a wait timed out or a stop or start met another's work |

`EmitsAsOwner` speaks of one thread and the native side; that it holds depends on
what every other thread is kept from. The inductive invariant (`Inv`) has four
parts. Each thread keeps to its own kind of work and waits for jobs of that kind
(`Course`). While nothing was late and nothing met, one thread at a time is at
work, with the guidance the bundle holds, and a thread on the way into a start
holds the monitor of the lifecycle (`Orderly`): this is what makes a second one
wait. Therefore the queue holds one job at most, for the bridge in use, and
service and gate are as that bridge's flags say, but for the moment in which
`restoreBestEffort` has opened the gate and waits (`Guarded`, with `GateInv`).
And past the gate, the bus thread has closed it (`Owning`). The lemmas go action
by action for each of the four; steps that leave the gates alone share
`PlainGuarded`, steps that queue a job `DispatchGuarded`, and the steps of the
dispatcher `GoesOnGuarded`.

Its second half goes on from there, also for any number of stimuli:

| theorem | statement |
|---|---|
| `StoppedOpens` | `Spec => []StoppedIsOpen` |
| `GateFollows` | `Spec => []GateFollowsRoute` |
| `OneWriterOnly` | `Spec => []OneWriter` |

`StoppedIsOpen` holds even when waits have timed out, so its invariant (`Tidy`)
cannot say what the queue holds. It follows each gate to its end instead (`Ends`):
it has not been closed and no block is queued for it, or its bridge still has it
to give back, or a job that puts the raw service back is queued after all others
of that gate, or it is not the service any more and has no job left. With an empty
queue and no guidance running only the harmless ends remain. What the cluster shows
is in `Overlaid`: what a bridge has forced or captured, it is still going to undo.
`GateFollowsRoute` adds for a punctual dispatcher (`Steady`) that a closed gate is
that of the bridge in use and known to it (`Closing`), a queued raw service is of
a gate that is open already (`Reopened`), and that the bridge's flags agree with
the route wherever the bus thread has no more to do (`Shows`).

`AltScreenOutputProofs` proves, for any number of slots and any budget that
`OutputAssumption` allows:

| theorem | statement |
|---|---|
| `TypeCorrect` | `Spec => []TypeOK` |
| `DecoderPrimed` | `Spec => []DecoderIsPrimed` |
| `MarkersHaveOutputs` | `Spec => []MarkerHasOutput` |
| `AskedLive` | `Spec => []AsksTheLiving` |

`SessInv` says that one session is busy with the stub, that those leaving it
meanwhile are in `crossed`, and that a session asks for a key frame of itself or
of one of these. `AskedLive` is about who may be asked; that the receiver of one
of these may be gone when it is used is not excluded, by the theorem or the code. `StreamInv` ties the forwarder's belief to the decoder: without a live
connection the decoder has nothing; on a live one either an IDR is waited for or
the chain of pictures is whole, and the decoder's parameter sets, like the cached
ones, are those of the phone's format once it has sent them.

`HudGuidanceProofs` proves, for any number of slots and any frames that
`HudAssumption` allows:

| theorem | statement |
|---|---|
| `TypeCorrect` | `Spec => []TypeOK` |
| `DisplayFollows` | `Spec => []DisplayIsSelected` |
| `LanesFollow` | `Spec => []LanesOfActiveEvent` |
| `AnglesTurn` | `Spec => []TurnsWithTheAngle` |

The argument has two halves. Each step of `parse` keeps everything its flags do
not name (`Kept`), which composes over the whole of it (`StepsCompose`,
`ParsedStep`). Given that, each part of the display is either written anew or
still what the new `State` says (`IconUpdate`, `DistanceUpdate`, `TextUpdate`,
`ActionUpdate`, `LanesUpdate`).
`AnglesTurn` is half of `SidesAreRight`: for every angle, where the type does not
say left or right the angle does. It is a case analysis of the maneuver types that
holds of any maneuver a slot can hold, so it needs no induction over the steps.

`BoundaryProofs` proves, for any drivers and frames (`InstallAssumption`), any
platforms, requests and files (`InfoAssumption`), and any bytes and sizes of the
arrays (`MessageAssumption`, `CapacityAssumption`: the position of a lane fits
into 16 bits):

| theorem | statement |
|---|---|
| `InstallTypeCorrect` | `InstallSpec => []InstallTypeOK` |
| `InstallSound` | `InstallSpec => []HooksSound` |
| `LinesNamed` | `InstallSpec => []LinesNameTheMessage` |
| `DownStays` | `InstallSpec => StaysDown` |
| `InfoTypeCorrect` | `InfoSpec => []InfoTypeOK` |
| `ReferencesStayKept` | `InfoSpec => []ReferencesKept` |
| `DisplayStaysWhole` | `InfoSpec => []DisplayIsWhole` |
| `AnsweredAsStock` | `InfoSpec => AnswersAsStock` |
| `ParseTypeCorrect` | `ParseSpec => []ParseTypeOK` |
| `ParseStaysWithin` | `ParseSpec => []StaysWithin` |
| `ParseAdvances` | `ParseSpec => Advances` |

`HooksSound` says nothing of where the installation stands, and so is not
inductive. `Standing` adds it: what is in the driver's words at each point of the
receiving thread's way (`IdentStands`, `TableStands`, `SendStands`), and that what
another thread has taken from the driver is still there, in a driver that does not
take one word of a pair or group and refuse the other (`ThreadsStand`). The roll
backs are what the proof turns on. In any driver the ones of the callbacks come
with a word that was refused (`{"msg", "close"}` is not within `keeps`), and each
of their steps leaves a known one of the two words as it was built; that is enough
for what is in the driver, and for what is left once they are done. For what a
thread has fetched it is not: there `CallbacksEven` adds that both were refused, so
that neither wrapper was ever there to be fetched, and `TableEven` that a count
that was seen is not taken back. Without them the statement is false of the code
(section 10). `Diagnosed` adds to `LinesNameTheMessage` that no sequence means no
message.

`ReferencesKept` needs to know, at each step, which objects the call owns for
certain (`Firm`) and which if they could be made (`Perhaps`); `Counted` says that
each of those is owned once and nothing else is. `Routed` says which requests lead
where, `StockAsCame` that the containers of the stock answer hold what they came
with, and `PartsMade` how far the second display is: it gets into a container
only when all its parts are whole. `ProfileSound` is about the two files alone:
whatever they hold, the last line that counts is one of those that hold for the
view. `AnswersAsStock` rests on `Resolved`, about the flag and the two threads.

`StaysWithin` has the walk (`WalkInv`: the lane information ends where the TLV
does, both within the message), what is taken (`TakenInv`) and the lanes
(`LanesInv`: a lane that was begun is there). `Advances` follows from the
walk and the check of the length. The strings are the one part without a
proof: their conversion is a fold.

Not proved, only model-checked:

- `ReadAsSent` of `RgdTlvMeaning`: what a run of TLVs means is told by folds over
  the run, and that the loop computes it is an induction over data;

- the mirror half of `SidesAreRight` (`MirrorsTraffic`) and `StreetsHaveLines` of
  `HudGuidance`, which the run evaluates for every type, angle and junction it
  lists: they are about folds over sequences, which need an induction over data
  that the installed provers cannot do;
- the liveness properties (`PendingIsServed`,
  `SilenceAsksAgain`, `UnansweredAsksAgain`, `LatestArrives`, `ShutdownEnds`,
  `SilenceSettles`, `CallsReturn`, `PictureComes`, `NativeComesBack`,
  `MarkerIsServed`, `Arms`), which with fairness and `ENABLED` are out of the prover's
  reach.

## 12. Not modelled, and why

- **Status counters, the bytes of the identification message and of the
  dictionaries' fixed fields, the hex preview, the frame search of
  `iap2_protocol.c`**: they keep no state that another part reads; a packet is in
  `HookInstall` what the search finds in it.
- **Loggers and traces**: output that no other part reads.
- **Split of the SETUP and TEARDOWN requests, `stopUI`, the listener of a
  session**: what they do to the session table is in `Setup`, `StopRequest` and
  `Release`; their own exchange with the stock library is not.
- **Trip figures, z level, formatting**: see section 9.
- **The renderer's drawing**: behind the connection that is modelled.
- **Installers, collectors, evidence**: one-shot scripts and archived results.
- **The original v1.1 tree**: the models follow the `altscreen/` tree; where a
  file of the other differs, the section of its model says so.

`PROJECT.json` lists, per component, what is missing.
