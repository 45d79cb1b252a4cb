--------------------------- MODULE RouteOwnership ---------------------------
(***************************************************************************)
(* Who drives the cluster: the Java side of the route guidance, from the   *)
(* bundle and the CarPlay session to the gate before the native            *)
(* navigation.  Activator, CarPlayLifecycle, RouteGuidance, BAPBridge,     *)
(* K2161RouteGuidanceOwnership and K2161GatedCombiService of the altscreen *)
(* tree.                                                                   *)
(*                                                                         *)
(* Three threads meet here: "bus" reads frames and runs onFrame, "device"  *)
(* brings the state of the active device to CarPlayLifecycle, "bundle"     *)
(* brings the navigation service to Activator and takes it away.  What     *)
(* touches the native service runs on a fourth, the dispatcher of the      *)
(* navigation, for which the caller waits DISPATCH_TIMEOUT_MS; a job that  *)
(* nobody waits for any more still runs.                                   *)
(*                                                                         *)
(* The threads share plain fields; a thread is taken to read what was      *)
(* written last.  Each action is what a thread does up to the next point   *)
(* where another's step can make a difference to it.                       *)
(***************************************************************************)
EXTENDS Naturals, Sequences

CONSTANTS
  MaxStimuli  \* bound: device states, service changes, frames

(* RouteGuidances, bridges and gates are numbered as they are made.        *)
Gates    == Nat \ {0}
Nobody   == 0                       \* no guidance, bridge or gate; null
Raw      == 0                       \* the service without a gate
Threads  == {"bus", "device", "bundle"}
NoThread == "nobody"

ASSUME OwnershipAssumption == MaxStimuli \in Nat \ {0}

VARIABLES
  nav,       \* the native side: its service, the gates, what CarPlay overlays
  jobs,      \* the dispatcher's queue
  bridge,    \* the BAPBridges made, with their K2161RouteGuidanceOwnership
  guide,     \* the RouteGuidances made, one per service
  listener,  \* who listens for EVT_RGD_UPDATE
  life,      \* CarPlayLifecycle, and the active device
  bundle,    \* Activator
  call,      \* where each thread stands
  made,      \* how many gates were made
  late,      \* history: a caller has given up waiting for the dispatcher
  met,       \* history: a stop or start has met another thread's work
  stimuli

vars == <<nav, jobs, bridge, guide, listener, life, bundle, call, made, late,
          met, stimuli>>

Idle == [at |-> "idle", guide |-> Nobody, bridge |-> Nobody, gate |-> Nobody,
         want |-> FALSE, then |-> "idle"]

Init ==
  /\ nav = [ready |-> FALSE, service |-> Raw, closed |-> {},
            rgActive |-> FALSE, view |-> "stock"]
  /\ jobs = <<>>
  /\ bridge = <<>> /\ guide = <<>> /\ listener = Nobody
  /\ life = [guide |-> Nobody, attached |-> FALSE, device |-> "none",
             closed |-> FALSE, monitor |-> NoThread]
  /\ bundle = [guide |-> Nobody, stopping |-> FALSE]
  /\ call = [t \in Threads |-> Idle]
  /\ made = 0 /\ late = FALSE /\ met = FALSE /\ stimuli = 0

Works(t, r) == call[t].at # "idle" /\ call[t].guide = r

(* Another thread is at work with the guidance r.                          *)
Meets(t, r) == \E u \in Threads \ {t} : Works(u, r)

Stimulus == stimuli < MaxStimuli /\ stimuli' = stimuli + 1

-----------------------------------------------------------------------------
(* The dispatcher: runOnDispatcherAndWait, and the jobs it is used for.    *)

(* The thread queues a job and waits for it.                               *)
Dispatches(t, c, job, g) ==
  /\ jobs' = Append(jobs, [job |-> job, gate |-> g, by |-> t])
  /\ call' = [call EXCEPT ![t] = [c EXCEPT !.at = "waits", !.gate = g]]

(* What a job does to the native side.  "again" is an installation from    *)
(* within setCarPlayRouteActive.                                           *)
Native(j) ==
  CASE j.job \in {"install", "again"} -> [nav EXCEPT !.service = j.gate]
    [] j.job = "block" -> [nav EXCEPT !.closed = @ \cup {j.gate}]
    [] j.job = "open" -> [nav EXCEPT !.closed = @ \ {j.gate},
                                     !.service = j.gate]
    [] j.job = "raw" -> [nav EXCEPT !.service = Raw]

(* What follows the gate: onStart goes on, a hand-back was the last step.  *)
AfterSet(c) == IF c.want THEN "capture" ELSE c.then

(* The caller goes on with the job done ...                                *)
Completes(t, j) ==
  LET c == call[t]
      own == bridge[c.bridge]
      installed == [own EXCEPT !.installed = TRUE, !.active = FALSE,
                               !.gate = j.gate]
  IN  CASE j.job = "install" ->
             /\ bridge' = [bridge EXCEPT ![c.bridge] =
                             [installed EXCEPT !.monitor = NoThread]]
             /\ call' = [call EXCEPT ![t].at = c.then]
             /\ jobs' = Tail(jobs)
        [] j.job = "again" /\ c.want ->
             /\ bridge' = [bridge EXCEPT ![c.bridge] = installed]
             /\ call' = call
             /\ jobs' = Append(Tail(jobs),
                               [job |-> "block", gate |-> j.gate, by |-> t])
        [] j.job = "again" /\ ~c.want ->
             /\ bridge' = [bridge EXCEPT ![c.bridge] =
                             [installed EXCEPT !.monitor = NoThread]]
             /\ call' = [call EXCEPT ![t].at = c.then]
             /\ jobs' = Tail(jobs)
        [] j.job \in {"block", "open"} ->
             /\ bridge' = [bridge EXCEPT ![c.bridge] =
                             [own EXCEPT !.active = (j.job = "block"),
                                         !.monitor = NoThread]]
             /\ call' = [call EXCEPT ![t].at = AfterSet(c)]
             /\ jobs' = Tail(jobs)
        [] j.job = "raw" ->
             /\ bridge' = [bridge EXCEPT ![c.bridge] =
                             [own EXCEPT !.installed = FALSE,
                                         !.active = FALSE, !.gate = Nobody,
                                         !.monitor = NoThread]]
             /\ call' = [call EXCEPT ![t].at = "dispose"]
             /\ jobs' = Tail(jobs)

\* Mutant: the exception leaves the monitor entered.
FailsLocked(t, job) ==
  LET c == call[t]
      free == bridge[c.bridge]
  IN  CASE job = "install" ->
             /\ bridge' = [bridge EXCEPT ![c.bridge] =
                             [free EXCEPT !.owned = FALSE]]
             /\ call' = [call EXCEPT ![t].at = c.then]
        [] job \in {"again", "block", "open"} ->
             /\ bridge' = [bridge EXCEPT ![c.bridge] = free]
             /\ call' = [call EXCEPT ![t].at = IF c.want THEN "undo" ELSE c.then]
        [] job = "raw" ->
             /\ bridge' = [bridge EXCEPT ![c.bridge] =
                             [free EXCEPT !.installed = FALSE,
                                          !.active = FALSE, !.gate = Nobody]]
             /\ call' = [call EXCEPT ![t].at = "dispose"]

(* ... or with the exception of the timeout.                               *)
Fails(t, job) ==
  LET c == call[t]
      free == [bridge[c.bridge] EXCEPT !.monitor = NoThread]
  IN  CASE job = "install" ->
             /\ bridge' = [bridge EXCEPT ![c.bridge] =
                             [free EXCEPT !.owned = FALSE]]
             /\ call' = [call EXCEPT ![t].at = c.then]
        [] job \in {"again", "block", "open"} ->
             /\ bridge' = [bridge EXCEPT ![c.bridge] = free]
             /\ call' = [call EXCEPT ![t].at = IF c.want THEN "undo" ELSE c.then]
        [] job = "raw" ->
             /\ bridge' = [bridge EXCEPT ![c.bridge] =
                             [free EXCEPT !.installed = FALSE,
                                          !.active = FALSE, !.gate = Nobody]]
             /\ call' = [call EXCEPT ![t].at = "dispose"]

DispatcherRuns ==
  /\ jobs # <<>>
  /\ nav' = Native(Head(jobs))
  /\ IF Head(jobs).by = NoThread
     THEN jobs' = Tail(jobs) /\ UNCHANGED <<bridge, call>>
     ELSE Completes(Head(jobs).by, Head(jobs))
  /\ UNCHANGED <<guide, listener, life, bundle, made, late, met, stimuli>>

GivesUp(t) ==
  /\ call[t].at = "waits"
  /\ late' = TRUE
  /\ \E k \in DOMAIN jobs :
       /\ jobs[k].by = t
       /\ jobs' = [jobs EXCEPT ![k].by = NoThread]
       /\ Fails(t, jobs[k].job)
  /\ UNCHANGED <<nav, guide, listener, life, bundle, made, met, stimuli>>

(* Navigation.getInstance() and its services are there.                    *)
NavigationComesUp ==
  /\ ~nav.ready /\ nav' = [nav EXCEPT !.ready = TRUE]
  /\ UNCHANGED <<jobs, bridge, guide, listener, life, bundle, call, made, late,
                 met, stimuli>>

-----------------------------------------------------------------------------
(* BAPBridge.                                                              *)

(* A bridge that was initialised, without access to the cluster.           *)
Fresh == [init |-> TRUE, cluster |-> FALSE, owned |-> FALSE,
          installed |-> FALSE, active |-> FALSE, gate |-> Nobody,
          monitor |-> NoThread, forced |-> FALSE, saved |-> FALSE,
          captured |-> FALSE, view |-> "stock"]

(* initClusterAccess: a gate for one of the bridges, made open.  A new     *)
(* K2161RouteGuidanceOwnership waits for the dispatcher in its install.    *)
Accesses(t, c, bridges) ==
  /\ made' = made + 1
  /\ bridge' = [bridges EXCEPT
       ![c.bridge] = [@ EXCEPT !.cluster = TRUE, !.owned = TRUE,
                               !.installed = FALSE, !.active = FALSE,
                               !.monitor = t]]
  /\ Dispatches(t, c, "install", made + 1)

(* init of the next bridge; without the navigation it has no gate yet.     *)
NewBridge(t, c) ==
  LET next == [c EXCEPT !.bridge = Len(bridge) + 1]
      bridges == Append(bridge, Fresh)
  IN  IF nav.ready THEN Accesses(t, next, bridges)
      ELSE /\ bridge' = bridges
           /\ call' = [call EXCEPT ![t] = [next EXCEPT !.at = c.then]]
           /\ UNCHANGED <<jobs, made>>

(* setCarPlayRouteActive: the reference is read first; a hand-back also    *)
(* asks isCarPlayRouteActive, which waits for the monitor.                 *)
ReadsOwnership(t) ==
  LET c == call[t]
      own == bridge[c.bridge]
  IN
  /\ c.at = "set"
  /\ own.owned /\ ~c.want => own.monitor = NoThread
  /\ call' = [call EXCEPT ![t] =
       IF own.owned /\ (c.want \/ own.active) THEN [c EXCEPT !.at = "enter"]
       ELSE IF c.want THEN Idle ELSE [c EXCEPT !.at = c.then]]
  /\ UNCHANGED <<nav, jobs, bridge, guide, listener, life, bundle, made, late,
                 met, stimuli>>

(* ... then the monitor is entered.  A gate that is not installed is       *)
(* installed first, whatever is asked for.                                 *)
SetsRoute(t) ==
  LET c == call[t]
      own == bridge[c.bridge]
      locked == [bridge EXCEPT ![c.bridge].monitor = t]
  IN
  /\ c.at = "enter" /\ own.monitor = NoThread
  /\ IF own.installed /\ own.active # c.want
     THEN /\ bridge' = locked /\ made' = made
          /\ Dispatches(t, c, IF c.want THEN "block" ELSE "open", own.gate)
     ELSE IF ~own.installed /\ nav.ready
     THEN /\ made' = made + 1
          /\ bridge' = locked
          /\ Dispatches(t, c, "again", made + 1)
     ELSE /\ call' = [call EXCEPT ![t] =
                        IF c.want /\ ~own.installed THEN Idle
                        ELSE [c EXCEPT !.at = AfterSet(c)]]
          /\ UNCHANGED <<jobs, bridge, made>>
  /\ UNCHANGED <<nav, guide, listener, life, bundle, late, met, stimuli>>

\* Mutant: a gate installed late is not closed.
FindsGateOnly ==
  LET c == [call["bus"] EXCEPT !.want = TRUE, !.then = "capture"]
      own == bridge[c.bridge]
  IN
  /\ c.at = "own"
  /\ IF ~own.owned /\ nav.ready /\ own.init THEN Accesses("bus", c, bridge)
     ELSE /\ call' = [call EXCEPT !["bus"] =
                        IF own.owned THEN [c EXCEPT !.at = "set"] ELSE Idle]
          /\ UNCHANGED <<jobs, bridge, made>>
  /\ UNCHANGED <<nav, guide, listener, life, bundle, late, met, stimuli>>

(* onStart, on the bus thread.                                             *)
FindsGate ==
  LET c == [call["bus"] EXCEPT !.want = TRUE, !.then = "set"]
      own == bridge[c.bridge]
  IN
  /\ c.at = "own"
  /\ IF ~own.owned /\ nav.ready /\ own.init THEN Accesses("bus", c, bridge)
     ELSE /\ call' = [call EXCEPT !["bus"] =
                        IF own.owned THEN [c EXCEPT !.at = "set"] ELSE Idle]
          /\ UNCHANGED <<jobs, bridge, made>>
  /\ UNCHANGED <<nav, guide, listener, life, bundle, late, met, stimuli>>

(* The steps after the gate: the factory's view is noted, the overlay is   *)
(* put on, CarPlay's status is sent, its view is chosen.  "cluster" and    *)
(* "init" stand for csRef and appConnectorNavi, which dispose sets to null.*)
TakesOver ==
  LET c == call["bus"]
      b == c.bridge
      own == bridge[b]
      next(ok, at) == call' = [call EXCEPT !["bus"].at = IF ok THEN at
                                                         ELSE "undo"]
  IN
  /\ \/ /\ c.at = "capture" /\ next(own.cluster \/ own.captured, "force")
        /\ bridge' = IF own.captured \/ ~own.cluster THEN bridge
                     ELSE [bridge EXCEPT ![b] = [own EXCEPT !.captured = TRUE,
                                                            !.view = nav.view]]
        /\ UNCHANGED <<nav, guide>>
     \/ /\ c.at = "force" /\ next(TRUE, "emit")
        /\ IF own.cluster
           THEN /\ nav' = [nav EXCEPT !.rgActive = TRUE]
                /\ bridge' = [bridge EXCEPT ![b] =
                     [own EXCEPT !.forced = TRUE,
                        !.saved = IF own.forced THEN @ ELSE nav.rgActive]]
           ELSE UNCHANGED <<nav, bridge>>
        /\ UNCHANGED guide
     \/ /\ c.at = "emit" /\ next(own.init, "show")
        /\ UNCHANGED <<nav, bridge, guide>>
     \/ /\ c.at = "show" /\ ~own.cluster /\ next(FALSE, "show")
        /\ UNCHANGED <<nav, bridge, guide>>
     \/ /\ c.at = "show" /\ own.cluster
        /\ nav' = [nav EXCEPT !.view = "rgi"]
        /\ guide' = [guide EXCEPT ![c.guide].active = TRUE]
        /\ call' = [call EXCEPT !["bus"] = Idle]
        /\ bridge' = bridge
  /\ UNCHANGED <<jobs, listener, life, bundle, made, late, met, stimuli>>

(* forceClusterRouteInfoState(false) and restoreVcPresentation.            *)
TakesOverlayOff(b) ==
  LET own == bridge[b] IN
  /\ nav' = IF ~own.cluster THEN nav
            ELSE [nav EXCEPT
                   !.rgActive = IF own.forced THEN own.saved ELSE @,
                   !.view = IF own.captured THEN own.view ELSE @]
  /\ bridge' = [bridge EXCEPT ![b] =
                  [own EXCEPT !.forced = own.forced /\ ~own.cluster,
                              !.captured = FALSE]]

\* Mutant: the gate is left to dispose.
GoesDownLightly(t) ==
  LET c == call[t] IN
  /\ c.at \in {"undo", "down"}
  /\ IF c.at = "down" /\ ~bridge[c.bridge].init
     THEN /\ call' = [call EXCEPT ![t].at = c.then]
          /\ UNCHANGED <<nav, bridge>>
     ELSE /\ TakesOverlayOff(c.bridge)
          /\ call' = [call EXCEPT
               ![t] = [c EXCEPT !.at = IF c.at = "undo" THEN "idle" ELSE c.then]]
  /\ UNCHANGED <<jobs, guide, listener, life, bundle, made, late, met,
                 stimuli>>

(* The catch of onStart, and onShutdown: both end by giving the gate back. *)
GoesDown(t) ==
  LET c == call[t] IN
  /\ c.at \in {"undo", "down"}
  /\ IF c.at = "down" /\ ~bridge[c.bridge].init
     THEN /\ call' = [call EXCEPT ![t].at = c.then]
          /\ UNCHANGED <<nav, bridge>>
     ELSE /\ TakesOverlayOff(c.bridge)
          /\ call' = [call EXCEPT
               ![t] = [c EXCEPT !.at = "set", !.want = FALSE,
                                !.then = IF c.at = "undo" THEN "idle" ELSE @]]
  /\ UNCHANGED <<jobs, guide, listener, life, bundle, made, late, met,
                 stimuli>>

\* Mutant: only an owner restores.
RestoresIfActive(t) ==
  LET c == call[t]
      own == bridge[c.bridge]
  IN
  /\ c.at = "restore"
  /\ IF ~own.owned
     THEN /\ call' = [call EXCEPT ![t].at = "dispose"]
          /\ UNCHANGED <<nav, jobs, bridge>>
     ELSE /\ own.monitor = NoThread
          /\ IF ~own.active
             THEN /\ call' = [call EXCEPT ![t].at = "dispose"]
                  /\ UNCHANGED <<nav, jobs, bridge>>
             ELSE /\ nav' = [nav EXCEPT !.closed = @ \ {own.gate}]
                  /\ bridge' = [bridge EXCEPT ![c.bridge].monitor = t]
                  /\ Dispatches(t, c, "raw", own.gate)
  /\ UNCHANGED <<guide, listener, life, bundle, made, late, met, stimuli>>

(* dispose, after its onShutdown: restoreBestEffort opens the gate at once *)
(* and has the raw service put back, ...                                   *)
Restores(t) ==
  LET c == call[t]
      own == bridge[c.bridge]
  IN
  /\ c.at = "restore"
  /\ IF ~own.owned
     THEN /\ call' = [call EXCEPT ![t].at = "dispose"]
          /\ UNCHANGED <<nav, jobs, bridge>>
     ELSE /\ own.monitor = NoThread
          /\ IF ~own.installed
             THEN /\ call' = [call EXCEPT ![t].at = "dispose"]
                  /\ UNCHANGED <<nav, jobs, bridge>>
             ELSE /\ nav' = [nav EXCEPT !.closed = @ \ {own.gate}]
                  /\ bridge' = [bridge EXCEPT ![c.bridge].monitor = t]
                  /\ Dispatches(t, c, "raw", own.gate)
  /\ UNCHANGED <<guide, listener, life, bundle, made, late, met, stimuli>>

(* ... then the bridge lets go of everything, and RouteGuidance of it.     *)
Disposes(t) ==
  LET c == call[t] IN
  /\ c.at = "dispose"
  /\ bridge' = [bridge EXCEPT ![c.bridge] =
                  [@ EXCEPT !.owned = FALSE, !.init = FALSE, !.cluster = FALSE]]
  /\ guide' = [guide EXCEPT ![c.guide].bap = Nobody]
  /\ call' = [call EXCEPT ![t].at = "stopped"]
  /\ UNCHANGED <<nav, jobs, listener, life, bundle, made, late, met, stimuli>>

-----------------------------------------------------------------------------
(* RouteGuidance.                                                          *)

(* onFrame: a frame that changes what wantsRouteOwnership says starts or   *)
(* ends the CarPlay route, a disconnect ends it.                           *)
FrameStarts ==
  LET r == listener IN
  /\ call["bus"].at = "idle" /\ r # Nobody /\ Stimulus
  /\ guide[r].running /\ ~guide[r].active
  /\ guide[r].bap # Nobody /\ bridge[guide[r].bap].init
  /\ call' = [call EXCEPT !["bus"] =
                [Idle EXCEPT !.at = "own", !.guide = r,
                             !.bridge = guide[r].bap]]
  /\ UNCHANGED <<nav, jobs, bridge, guide, listener, life, bundle, made, late,
                 met>>

FrameEnds ==
  LET r == listener IN
  /\ call["bus"].at = "idle" /\ r # Nobody /\ Stimulus
  /\ guide[r].running
  /\ call' = [call EXCEPT !["bus"] =
                [Idle EXCEPT !.at = IF guide[r].bap = Nobody THEN "ended"
                                    ELSE "down",
                             !.guide = r, !.bridge = guide[r].bap,
                             !.then = "ended"]]
  /\ UNCHANGED <<nav, jobs, bridge, guide, listener, life, bundle, made, late,
                 met>>

FrameEnded ==
  LET c == call["bus"] IN
  /\ c.at = "ended"
  /\ guide' = [guide EXCEPT ![c.guide].active = FALSE]
  /\ call' = [call EXCEPT !["bus"] = Idle]
  /\ UNCHANGED <<nav, jobs, bridge, listener, life, bundle, made, late, met,
                 stimuli>>

(* start: a stop has disposed of the bridge, so there may be a new one.    *)
Starts(t) ==
  LET c == call[t]
      r == c.guide
  IN
  /\ c.at = "start" /\ met' = (met \/ Meets(t, r))
  /\ IF guide[r].running
     THEN /\ call' = [call EXCEPT ![t].at = "started"]
          /\ UNCHANGED <<jobs, bridge, made>>
     ELSE IF guide[r].bap = Nobody
     THEN NewBridge(t, [c EXCEPT !.then = "run"])
     ELSE /\ call' = [call EXCEPT ![t] = [c EXCEPT !.at = "run",
                                                   !.bridge = guide[r].bap]]
          /\ UNCHANGED <<jobs, bridge, made>>
  /\ UNCHANGED <<nav, guide, listener, life, bundle, late, stimuli>>

Runs(t) ==
  LET c == call[t] IN
  /\ c.at = "run"
  /\ guide' = [guide EXCEPT ![c.guide] = [running |-> TRUE, active |-> FALSE,
                                          bap |-> c.bridge]]
  /\ listener' = c.guide
  /\ call' = [call EXCEPT ![t].at = "started"]
  /\ UNCHANGED <<nav, jobs, bridge, life, bundle, made, late, met, stimuli>>

(* stop up to dispose.  It may find the bus thread at work with the bridge.*)
Stops(t) ==
  LET c == call[t]
      r == c.guide
      b == guide[r].bap
  IN
  /\ c.at = "stop" /\ met' = (met \/ Meets(t, r))
  /\ IF ~guide[r].running
     THEN /\ call' = [call EXCEPT ![t].at = "stopped"]
          /\ UNCHANGED <<guide, listener>>
     ELSE /\ guide' = [guide EXCEPT ![r] = [@ EXCEPT !.running = FALSE,
                                                      !.active = FALSE]]
          /\ listener' = Nobody
          /\ call' = [call EXCEPT ![t] =
                        [c EXCEPT !.at = IF b = Nobody THEN "stopped" ELSE "down",
                                  !.bridge = b, !.then = "restore"]]
  /\ UNCHANGED <<nav, jobs, bridge, life, bundle, made, late, stimuli>>

-----------------------------------------------------------------------------
(* CarPlayLifecycle, under its monitor.                                    *)

(* What handleDevice makes of the device that is now active.               *)
HandlesDevice(t, r, device) ==
  LET do(at) == /\ call' = [call EXCEPT ![t] = [Idle EXCEPT !.at = at,
                                                            !.guide = r]]
                /\ life' = [life EXCEPT !.guide = r, !.device = device,
                                        !.attached = TRUE, !.monitor = t]
  IN  IF r # Nobody /\ device = "carplay" /\ ~guide[r].running
      THEN do("start")
      ELSE IF r # Nobody /\ device = "other" /\ guide[r].running
      THEN do("stop")
      ELSE /\ call' = [call EXCEPT ![t] = Idle]
           /\ life' = [life EXCEPT !.guide = r, !.device = device,
                                   !.attached = TRUE]

(* updateActiveDeviceState, or TerminalMode's service has come and is      *)
(* asked for its active device.                                            *)
DeviceState(device) ==
  /\ call["device"].at = "idle" /\ life.monitor = NoThread
  /\ ~life.closed /\ Stimulus
  /\ HandlesDevice("device", life.guide, device)
  /\ UNCHANGED <<nav, jobs, bridge, guide, listener, bundle, made, late, met>>

(* TerminalMode's service goes: releaseService.                            *)
TerminalModeGoes ==
  /\ call["device"].at = "idle" /\ life.monitor = NoThread
  /\ life.attached /\ Stimulus
  /\ IF life.guide # Nobody /\ guide[life.guide].running
     THEN /\ call' = [call EXCEPT !["device"] = [Idle EXCEPT !.at = "stop",
                                                             !.guide = life.guide]]
          /\ life' = [life EXCEPT !.attached = FALSE, !.monitor = "device"]
     ELSE call' = call /\ life' = [life EXCEPT !.attached = FALSE]
  /\ UNCHANGED <<nav, jobs, bridge, guide, listener, bundle, made, late, met>>

(* The start or stop returns, and the monitor is left.                     *)
Leaves(t) ==
  /\ \/ call[t].at = "started"
     \/ call[t].at = "stopped" /\ t = "device"
  /\ call' = [call EXCEPT ![t] = Idle]
  /\ life' = [life EXCEPT !.monitor = NoThread]
  /\ UNCHANGED <<nav, jobs, bridge, guide, listener, bundle, made, late, met,
                 stimuli>>

-----------------------------------------------------------------------------
(* Activator: the navigation's service comes and goes.                     *)

ServiceComes ==
  /\ call["bundle"].at = "idle" /\ Stimulus
  /\ ~bundle.stopping /\ bundle.guide = Nobody
  /\ guide' = Append(guide, [running |-> FALSE, active |-> FALSE,
                             bap |-> Len(bridge) + 1])
  /\ NewBridge("bundle", [Idle EXCEPT !.guide = Len(guide) + 1,
                                       !.then = "added"])
  /\ UNCHANGED <<nav, listener, life, bundle, late, met>>

(* setRouteGuidance(rg), which looks at the active device.                 *)
ServiceAcquired ==
  LET r == call["bundle"].guide IN
  /\ call["bundle"].at = "added" /\ life.monitor = NoThread
  /\ bundle' = [bundle EXCEPT !.guide = r]
  /\ IF life.attached THEN HandlesDevice("bundle", r, life.device)
     ELSE /\ call' = [call EXCEPT !["bundle"] = Idle]
          /\ life' = [life EXCEPT !.guide = r]
  /\ UNCHANGED <<nav, jobs, bridge, guide, listener, made, late, met, stimuli>>

(* removedService, or the bundle's stop: release.                          *)
ServiceGoes(stopping) ==
  /\ call["bundle"].at = "idle" /\ bundle.guide # Nobody /\ Stimulus
  /\ bundle' = [bundle EXCEPT !.stopping = stopping]
  /\ call' = [call EXCEPT !["bundle"] = [Idle EXCEPT !.at = "stop",
                                                     !.guide = bundle.guide]]
  /\ UNCHANGED <<nav, jobs, bridge, guide, listener, life, made, late, met>>

(* The lifecycle is told that there is no RouteGuidance any more; when the *)
(* bundle stops it is closed too.                                          *)
ServiceGone ==
  /\ call["bundle"].at = "stopped" /\ life.monitor = NoThread
  /\ bundle' = [bundle EXCEPT !.guide = Nobody]
  /\ life' = [life EXCEPT !.guide = Nobody,
                          !.attached = @ /\ ~bundle.stopping,
                          !.closed = bundle.stopping]
  /\ call' = [call EXCEPT !["bundle"] = Idle]
  /\ UNCHANGED <<nav, jobs, bridge, guide, listener, made, late, met, stimuli>>

-----------------------------------------------------------------------------
(* The threads, and the specification.                                     *)

Steps(t) ==
  \/ ReadsOwnership(t) \/ SetsRoute(t) \/ GoesDown(t) \/ Restores(t)
  \/ Disposes(t) \/ Starts(t) \/ Runs(t) \/ Stops(t) \/ Leaves(t)

Bus    == Steps("bus") \/ FindsGate \/ TakesOver \/ FrameEnded
Device == Steps("device")
Bundle == Steps("bundle") \/ ServiceAcquired \/ ServiceGone

Outside ==
  \/ NavigationComesUp \/ FrameStarts \/ FrameEnds
  \/ \E d \in {"carplay", "other"} : DeviceState(d)
  \/ TerminalModeGoes \/ ServiceComes
  \/ \E s \in BOOLEAN : ServiceGoes(s)

Next == Outside \/ Bus \/ Device \/ Bundle \/ DispatcherRuns
          \/ \E t \in Threads : GivesUp(t)

Spec == Init /\ [][Next]_vars

(* The threads run and a wait ends in time.  Nothing is assumed of the     *)
(* dispatcher.                                                             *)
FairSpec ==
  /\ Spec /\ WF_vars(Bus) /\ WF_vars(Device) /\ WF_vars(Bundle)
  /\ \A t \in Threads : WF_vars(GivesUp(t))

-----------------------------------------------------------------------------
(* Properties.                                                             *)

(* The places of a thread at work with a bridge, and all places.           *)
AtBridge == {"waits", "own", "set", "enter", "capture", "force", "emit",
             "show", "undo", "down", "restore", "dispose", "run"}
Places == AtBridge \cup {"idle", "start", "started", "stop", "stopped",
                        "ended", "added"}

Views  == {"stock", "rgi"}
Nav    == [ready : BOOLEAN, service : Gates \cup {Raw}, closed : SUBSET Gates,
           rgActive : BOOLEAN, view : Views]
Job    == [job : {"install", "again", "block", "open", "raw"}, gate : Gates,
           by : Threads \cup {NoThread}]
Bridge == [init : BOOLEAN, cluster : BOOLEAN, owned : BOOLEAN,
           installed : BOOLEAN, active : BOOLEAN, gate : Gates \cup {Nobody},
           monitor : Threads \cup {NoThread}, forced : BOOLEAN,
           saved : BOOLEAN, captured : BOOLEAN, view : Views]
Guide  == [running : BOOLEAN, active : BOOLEAN, bap : Nat]
Life   == [guide : Nat, attached : BOOLEAN,
           device : {"none", "carplay", "other"}, closed : BOOLEAN,
           monitor : Threads \cup {NoThread}]
Call   == [at : Places, guide : Nat, bridge : Nat,
           gate : Gates \cup {Nobody}, want : BOOLEAN, then : Places]

(* No call is about a guidance or a bridge that was not made, and none at  *)
(* work lacks the guidance or the bridge it works with.                    *)
Sound(c) == /\ c \in Call
            /\ c.guide \in 0..Len(guide) /\ c.bridge \in 0..Len(bridge)
            /\ c.at # "idle" => c.guide # Nobody
            /\ c.at \in AtBridge => c.bridge # Nobody

CallsOK   == call \in [Threads -> Call] /\ \A t \in Threads : Sound(call[t])
BridgesOK == /\ bridge \in Seq(Bridge)
             /\ \A b \in DOMAIN bridge : bridge[b].installed
                                           => bridge[b].gate # Nobody
GuidesOK  == /\ guide \in Seq(Guide)
             /\ \A r \in DOMAIN guide : guide[r].bap \in 0..Len(bridge)
JobsOK    == /\ jobs \in Seq(Job)
             /\ \A k \in DOMAIN jobs : jobs[k].by # NoThread =>
                  /\ call[jobs[k].by].at = "waits"
                  /\ \A j \in DOMAIN jobs : jobs[j].by = jobs[k].by => j = k
OthersOK  == /\ nav \in Nav /\ listener \in Nat
             /\ life \in Life /\ bundle \in [guide : Nat, stopping : BOOLEAN]
             /\ {listener, life.guide, bundle.guide} \subseteq 0..Len(guide)
             /\ made \in Nat /\ stimuli \in 0..MaxStimuli
             /\ late \in BOOLEAN /\ met \in BOOLEAN

(* Every variable keeps its type and every reference its object, and a job *)
(* that is waited for is the one its thread waits for.                     *)
TypeOK == CallsOK /\ BridgesOK /\ GuidesOK /\ JobsOK /\ OthersOK

NativeBlocked == nav.service \in nav.closed
Idling        == \A t \in Threads : call[t].at = "idle"
Settled       == jobs = <<>> /\ Idling

(* When every guidance has been stopped and the dispatcher has worked off  *)
(* its queue, native guidance gets through and the cluster shows what it   *)
(* showed before CarPlay, even if waits for the dispatcher have timed out  *)
(* on the way and their jobs ran late (restoreBestEffort, "Reopen native   *)
(* RG first"), as long as no stop met a frame being worked on.             *)
StoppedIsOpen ==
  Settled /\ ~met /\ (\A r \in DOMAIN guide : ~guide[r].running)
    => ~NativeBlocked /\ ~nav.rgActive /\ nav.view = "stock"

(* With a dispatcher that keeps its time, native guidance is shut out, and *)
(* the cluster shows CarPlay's, exactly while the guidance that listens    *)
(* has a route it owns, whenever no thread is at work with it (onStart,    *)
(* onShutdown).                                                            *)
GateFollowsRoute ==
  LET active == guide[listener].active IN
  listener # Nobody /\ ~late /\ ~met
    /\ (\A t \in Threads : ~Works(t, listener))
    => /\ NativeBlocked <=> active
       /\ nav.rgActive <=> active
       /\ (nav.view = "rgi") <=> active

(* CarPlay writes its route status to the cluster only while native        *)
(* guidance is shut out: there are never two writers (onStart).            *)
EmitsAsOwner ==
  call["bus"].at = "emit" /\ ~late /\ ~met => NativeBlocked

(* The cluster has one writer at a time, and it is the one whose route it  *)
(* shows.                                                                  *)
OneWriter == GateFollowsRoute /\ EmitsAsOwner

(* Every call ends, though nothing is assumed of the dispatcher: no wait   *)
(* outlives its timeout and no monitor is kept (runOnDispatcherAndWait,    *)
(* CarPlayLifecycle, Activator).                                           *)
CallsReturn == ~Idling ~> Idling

(* Stopped, with an idle and punctual dispatcher, native guidance gets     *)
(* through (RouteGuidance.start on stop: "native navigation gets its raw   *)
(* service back").  It does not when the stop met a route being started.   *)
StopGivesNativeBack ==
  Settled /\ ~late /\ (\A r \in DOMAIN guide : ~guide[r].running)
    => ~NativeBlocked
=============================================================================
