-------------------------- MODULE AltScreenOutput --------------------------
(***************************************************************************)
(* The way of a cluster picture out of dio_manager: the single stub output *)
(* that a Stream-111 session opens in the place of a stock one, the        *)
(* forwarder that sends its access units to the renderer, the marker that  *)
(* says a session is up, and the control script that takes the display     *)
(* while the marker exists.  altscreen_output.c, with the worker of        *)
(* altscreen_session.c that opens and closes it, the renderer process and  *)
(* mib2high-lvds-control.sh.                                               *)
(*                                                                         *)
(* Left to choice: what the phone sends, when the renderer dies, whether a *)
(* send fails and a script can be spawned.  A unit is what the scan of its *)
(* NAL types says of it: an IDR or not, the parameter sets it carries, and *)
(* whether it fits the buffer.                                             *)
(***************************************************************************)
EXTENDS Naturals, FiniteSetsExt

CONSTANTS
  Slots,    \* slots of g_states, one session each
  Budgets   \* bounds, one picked at the start: sessions set up; and faults:
            \* renderer deaths, failed sends, lost requests, units that do
            \* not fit, new formats of the stream

ASSUME OutputAssumption ==
  Slots \in Nat \ {0} /\ Budgets \subseteq [sessions : Nat, faults : Nat]

Sessions == 1..Slots
Scripts  == 1..Max({b.sessions : b \in Budgets})  \* one a session opened
Formats  == Nat \ {0}              \* a fault each, but for the first
None     == 0                      \* no session, script or parameter sets

VARIABLES
  sess,     \* the sessions and their worker threads
  scope,    \* g_patch_owner: whose thread opens outputs for the cluster
  fwd,      \* the stub and the forwarder, under g_fwd_lock
  decoder,  \* what the renderer has been given on the connection
  phone,    \* the stream of the session that has the stub
  render,   \* the renderer process
  marker,   \* /tmp/mib2high-lvds-active
  script,   \* the instances of the control script
  pidfile,  \* /tmp/mib2high-lvds-control.pid
  display,  \* the cluster's display context and the heartbeat file
  crossed,  \* history: whose output was still being closed when the open
            \* one was opened
  missed,   \* history: a script gave way to one that was leaving
  oversize, \* history: a unit did not fit the buffer
  left      \* of the budget

vars == <<sess, scope, fwd, decoder, phone, render, marker, script, pidfile,
          display, crossed, missed, oversize, left>>

SessVars   == <<sess, scope>>
StreamVars == <<fwd, decoder, phone, oversize>>
ScriptVars == <<script, pidfile, display, missed>>

NoSession == [at |-> "idle", started |-> FALSE, stop |-> FALSE, asks |-> FALSE,
              target |-> None]
NoDecoder == [params |-> None, chain |-> FALSE, lost |-> FALSE]

(* fwd_reset_locked.                                                       *)
ResetForwarder ==
  [active |-> FALSE, fd |-> "closed", waits |-> FALSE, need_idr |-> FALSE,
   asked |-> FALSE, params |-> None]

Init ==
  /\ sess = [s \in Sessions |-> NoSession] /\ scope = None
  /\ fwd = ResetForwarder /\ decoder = NoDecoder
  /\ phone = [format |-> 1, next |-> "params", owes |-> FALSE]
  /\ render = "down" /\ marker = FALSE
  /\ script = [k \in Scripts |-> "none"]
  /\ pidfile = None
  /\ display = [native |-> TRUE, heartbeat |-> FALSE]
  /\ crossed = {} /\ missed = FALSE /\ oversize = FALSE /\ left \in Budgets

Fault == left.faults > 0 /\ left' = [left EXCEPT !.faults = @ - 1]

Script(k, from) == script[k] = from

GoesOn(k, at) == script' = [script EXCEPT ![k] = at]

Goes(s, at) == sess' = [sess EXCEPT ![s].at = at]

-----------------------------------------------------------------------------
(* A session and its worker.                                               *)

(* prepare_altscreen: the first free slot; the screen is registered and    *)
(* its worker waits for a connection.                                      *)
Prepares ==
  LET free == {s \in Sessions : sess[s].at = "idle"} IN
  /\ free # {}
  /\ left.sessions > 0 /\ left' = [left EXCEPT !.sessions = @ - 1]
  /\ Goes(Min(free), "ready")
  /\ UNCHANGED <<scope, render, marker, crossed, StreamVars, ScriptVars>>

(* begin_output_scope and end_output_scope: one worker at a time.          *)
BeginsScope(s) == scope = None /\ scope' = s
EndsScope      == scope' = None

(* altscreen_start_session.  The main screen's time sync may never have    *)
(* been captured, and another worker may be inside.                        *)
Starts(s) ==
  /\ sess[s].at = "ready" /\ ~sess[s].stop
  /\ \/ BeginsScope(s) /\ Goes(s, "opens")
     \/ scope' = scope /\ Goes(s, "over")
  /\ UNCHANGED <<render, marker, crossed, left, StreamVars, ScriptVars>>

(* The stop finds a worker that still waits for its connection.            *)
WorkerQuits(s) ==
  /\ sess[s].at = "ready" /\ sess[s].stop /\ Goes(s, "over")
  /\ UNCHANGED <<scope, render, marker, crossed, left, StreamVars, ScriptVars>>

(* NvSSVideoOpen within the scope, up to its unlock.                       *)
Opens(s) ==
  /\ sess[s].at = "opens"
  /\ IF fwd.active
     THEN /\ Goes(s, "over") /\ EndsScope
          /\ UNCHANGED <<fwd, phone, crossed, decoder>>
     ELSE /\ fwd' = [ResetForwarder EXCEPT !.active = TRUE]
          /\ decoder' = NoDecoder
          /\ phone' = [phone EXCEPT !.next = "params", !.owes = FALSE]
          /\ crossed' = {t \in Sessions : sess[t].at \in {"unmarks", "closed"}}
          /\ scope' = scope /\ Goes(s, "marks")
  /\ UNCHANGED <<render, marker, oversize, left, ScriptVars>>

(* The marker is set and the script spawned; a failure takes the marker    *)
(* away again.  The scope ends and screen_started is set.                  *)
Marks(s) ==
  /\ sess[s].at = "marks" /\ EndsScope
  /\ sess' = [sess EXCEPT ![s].at = "runs", ![s].started = TRUE]
  /\ \/ marker' = TRUE /\ GoesOn(Min({k \in Scripts : Script(k, "none")}), "check")
     \/ marker' = FALSE /\ script' = script
  /\ UNCHANGED <<render, pidfile, display, crossed, missed, left, StreamVars>>

(* The stream ends by itself, or by the shutdown and 'q' of the teardown.  *)
StreamEnds(s) ==
  /\ sess[s].at = "runs" /\ ~sess[s].asks
  /\ Goes(s, "closes")
  /\ UNCHANGED <<scope, render, marker, crossed, left, StreamVars, ScriptVars>>

(* NvSSVideoClose up to its unlock; what it leaves the next open resets ... *)
Closes(s) ==
  /\ sess[s].at = "closes" /\ Goes(s, "unmarks")
  /\ fwd' = ResetForwarder /\ decoder' = NoDecoder
  /\ phone' = [phone EXCEPT !.next = "params", !.owes = FALSE]
  /\ UNCHANGED <<scope, oversize, render, marker, crossed, left, ScriptVars>>

\* Mutant: the close leaves the marker to the control script.
UnmarksNothing(s) ==
  /\ sess[s].at = "unmarks" /\ Goes(s, "closed")
  /\ UNCHANGED <<scope, render, marker, crossed, left, StreamVars, ScriptVars>>

(* ... and after it.                                                       *)
Unmarks(s) ==
  /\ sess[s].at = "unmarks" /\ Goes(s, "closed") /\ marker' = FALSE
  /\ UNCHANGED <<scope, render, crossed, left, StreamVars, ScriptVars>>

Stopped(s) ==
  /\ sess[s].at = "closed"
  /\ sess' = [sess EXCEPT ![s].at = "over", ![s].started = FALSE]
  /\ UNCHANGED <<scope, render, marker, crossed, left, StreamVars, ScriptVars>>

(* cleanup_altscreen: the stop, and once the worker is joined the slot is  *)
(* cleared.                                                                *)
StopRequest(s) ==
  /\ sess[s].at # "idle" /\ ~sess[s].stop
  /\ sess' = [sess EXCEPT ![s].stop = TRUE]
  /\ UNCHANGED <<scope, render, marker, crossed, left, StreamVars, ScriptVars>>

Cleaned(s) ==
  /\ sess[s].at = "over" /\ sess[s].stop
  /\ sess' = [sess EXCEPT ![s] = NoSession]
  /\ UNCHANGED <<scope, render, marker, crossed, left, StreamVars, ScriptVars>>

-----------------------------------------------------------------------------
(* The stream, fwd_send_access_unit and the renderer's end.                *)

Unit(idr, params, big) == [idr |-> idr, params |-> params, big |-> big]

(* A stream begins, and goes on after a change of format, with parameter   *)
(* sets and an IDR; a requested key frame is an IDR, with or without them. *)
NextUnits ==
  CASE phone.next = "params" -> {Unit(i, phone.format, FALSE) : i \in BOOLEAN}
    [] phone.next = "idr" -> {Unit(TRUE, None, b) : b \in BOOLEAN}
    [] phone.next = "any" ->
         {Unit(FALSE, None, FALSE)} \cup
         (IF phone.owes THEN {Unit(TRUE, p, b) : p \in {None, phone.format},
                                                 b \in BOOLEAN} ELSE {})

AfterUnit(u) ==
  [phone EXCEPT
     !.owes = @ /\ ~u.idr,
     !.next = IF u.idr THEN "any" ELSE IF u.params # None THEN "idr" ELSE @]

(* What the decoder makes of a unit: an IDR needs the parameter sets of    *)
(* its format, any other picture needs the pictures before it.             *)
Fed(d, u) ==
  LET params == IF u.params # None THEN u.params ELSE d.params IN
  [params |-> params,
   chain |-> d.chain \/ u.idr,
   lost |-> \/ d.lost
            \/ u.idr /\ params # phone.format
            \/ ~u.idr /\ u.params = None /\ ~d.chain]

(* fwd_scan_parameter_sets.                                                *)
Scanned(f, u) == IF u.params = None THEN f ELSE [f EXCEPT !.params = u.params]

\* Mutant: a new connection does not wait for an IDR.
ConnectedAtOnce(f) == [f EXCEPT !.fd = "live", !.asked = FALSE]

(* fwd_connect_locked.                                                     *)
Connected(f) ==
  [f EXCEPT !.fd = "live", !.need_idr = TRUE, !.asked = FALSE]

(* fwd_close_locked; the pause since the last attempt to connect may be    *)
(* over or not.                                                            *)
Lost(f) ==
  /\ \E pause \in BOOLEAN : fwd' = [f EXCEPT !.fd = "closed", !.waits = pause]
  /\ decoder' = NoDecoder

(* The wait for an IDR ends with one; a request is made at most every      *)
(* 750 ms.                                                                 *)
Asks(f, u) == f.need_idr /\ ~u.idr /\ ~f.asked

Awaited(f, u) ==
  IF f.need_idr /\ u.idr THEN [f EXCEPT !.need_idr = FALSE, !.asked = FALSE]
  ELSE IF Asks(f, u) THEN [f EXCEPT !.asked = TRUE] ELSE f

(* fwd_write_locked: what is written to a dead connection is lost at first *)
(* and an error later.                                                     *)
Writes(f, d, u, works) ==
  IF u.big THEN fwd' = f /\ decoder' = d
  ELSE IF f.fd = "live" /\ works THEN fwd' = f /\ decoder' = Fed(d, u)
  ELSE IF f.fd = "dying" THEN fwd' = [f EXCEPT !.fd = "dead"] /\ decoder' = d
  ELSE Lost(f)

(* On a connection just made the cached parameter sets go first, if the    *)
(* unit has none.                                                          *)
Replays(f, u) == fwd.fd = "closed" /\ u.params = None /\ f.params # None

Primed(f, u) ==
  IF fwd.fd # "closed" THEN decoder
  ELSE IF Replays(f, u) THEN Fed(NoDecoder, Unit(FALSE, f.params, FALSE))
  ELSE NoDecoder

(* fwd_send_access_unit with a connection, old or just made.               *)
Forwards(s, u, works) ==
  LET f == IF fwd.fd = "closed" THEN Connected(Scanned(fwd, u))
           ELSE Scanned(fwd, u)
      dropped == f.need_idr /\ ~u.idr /\ u.params = None
  IN
  IF dropped /\ ~works
  THEN Replays(f, u) /\ Lost(f) /\ sess' = sess
  ELSE /\ sess' = [sess EXCEPT ![s].asks = Asks(f, u)]
       /\ IF dropped THEN fwd' = Awaited(f, u) /\ decoder' = Primed(f, u)
          ELSE Writes(Awaited(f, u), Primed(f, u), u, works)

(* NvSSVideoDecode: without a renderer, or before the next attempt to      *)
(* connect, only the parameter sets are kept.                              *)
Decodes(s) ==
  /\ sess[s].at = "runs" /\ ~sess[s].asks
  /\ \E u \in NextUnits, works \in BOOLEAN :
       /\ phone' = AfterUnit(u)
       /\ oversize' = (oversize \/ u.big)
       /\ IF u.big \/ ~works THEN Fault ELSE left' = left
       /\ IF fwd.fd = "closed" /\ (fwd.waits \/ render = "down")
          THEN /\ works /\ fwd' = [Scanned(fwd, u) EXCEPT !.waits = TRUE]
               /\ UNCHANGED <<decoder, sess>>
          ELSE Forwards(s, u, works)
  /\ UNCHANGED <<scope, render, marker, crossed, ScriptVars>>

\* Mutant: any session that is not stopped will do.
LiveUnstarted == {t \in Sessions : sess[t].at # "idle" /\ ~sess[t].stop}

(* altscreen_request_fresh_keyframe: the first started session's receiver  *)
(* is read under g_lock ...                                                *)
Live == {t \in Sessions : sess[t].started /\ ~sess[t].stop}

PicksReceiver(s) ==
  /\ sess[s].asks /\ sess[s].target = None
  /\ sess' = [sess EXCEPT ![s].asks = Live # {},
                          ![s].target = IF Live = {} THEN None ELSE Min(Live)]
  /\ UNCHANGED <<scope, render, marker, crossed, left, StreamVars, ScriptVars>>

(* ... and used after the unlock.                                          *)
ForcesKeyFrame(s) ==
  /\ sess[s].asks /\ sess[s].target # None
  /\ \/ /\ phone' = [phone EXCEPT !.owes = @ \/ sess[s].target = s]
        /\ left' = left
     \/ Fault /\ phone' = phone
  /\ sess' = [sess EXCEPT ![s].asks = FALSE, ![s].target = None]
  /\ UNCHANGED <<scope, fwd, decoder, oversize, render, marker, crossed, ScriptVars>>

\* Mutant: a key frame is asked for once per connection.
TimePassesOnce ==
  /\ fwd.waits /\ fwd' = [fwd EXCEPT !.waits = FALSE]
  /\ UNCHANGED <<decoder, phone, oversize, render, marker, crossed, left,
                 SessVars, ScriptVars>>

(* ALTSCREEN_FWD_RETRY_MS, and the 750 ms, are over.                       *)
TimePasses ==
  /\ \/ fwd.waits /\ fwd' = [fwd EXCEPT !.waits = FALSE]
     \/ fwd.asked /\ fwd' = [fwd EXCEPT !.asked = FALSE]
  /\ UNCHANGED <<decoder, phone, oversize, render, marker, crossed, left,
                 SessVars, ScriptVars>>

NewFormat ==
  /\ Fault /\ \E s \in Sessions : sess[s].at = "runs"
  /\ phone' = [phone EXCEPT !.format = @ + 1, !.next = "params"]
  /\ UNCHANGED <<fwd, decoder, oversize, render, marker, crossed, SessVars,
                 ScriptVars>>

RendererGone(render1) ==
  /\ render' = render1
  /\ fwd' = [fwd EXCEPT !.fd = IF @ = "live" THEN "dying" ELSE @]

RendererDies ==
  /\ render = "up" /\ Fault /\ RendererGone("down")
  /\ decoder' = NoDecoder
  /\ UNCHANGED <<phone, oversize, marker, crossed, SessVars, ScriptVars>>

-----------------------------------------------------------------------------
(* mib2high-lvds-control.sh, instance k.                                   *)

(* The pid file is looked at and the pid written.                          *)
ChecksPid(k) ==
  /\ Script(k, "check")
  /\ IF pidfile # None /\ script[pidfile] # "gone"
     THEN /\ GoesOn(k, "gone")
          /\ missed' = (missed \/ script[pidfile] = "cleans")
     ELSE GoesOn(k, "writes") /\ missed' = missed
  /\ UNCHANGED <<pidfile, display, render, marker, crossed, left, SessVars,
                 StreamVars>>

WritesPid(k) ==
  /\ Script(k, "writes") /\ pidfile' = k /\ GoesOn(k, "tests")
  /\ UNCHANGED <<display, missed, render, marker, crossed, left, SessVars,
                 StreamVars>>

\* Mutant: it takes for granted that the renderer runs.
TestsMarkerAndRenderer(k) ==
  /\ Script(k, "tests")
  /\ GoesOn(k, IF marker /\ render = "up" THEN "loops" ELSE "cleans")
  /\ display' = [display EXCEPT !.heartbeat = @ /\ marker]
  /\ UNCHANGED <<pidfile, missed, render, marker, crossed, left, SessVars,
                 StreamVars>>

(* Without a marker it leaves; else the renderer is started, or restarted  *)
(* for another profile, and the display context declared.                  *)
TestsMarker(k) ==
  /\ Script(k, "tests")
  /\ IF ~marker
     THEN /\ GoesOn(k, "cleans") /\ display' = [display EXCEPT !.heartbeat = FALSE]
          /\ UNCHANGED <<render, fwd, decoder>>
     ELSE /\ GoesOn(k, "loops") /\ display' = display
          /\ \/ RendererGone("up") /\ decoder' = NoDecoder
             \/ render = "up" /\ UNCHANGED <<render, fwd, decoder>>
  /\ UNCHANGED <<pidfile, missed, phone, oversize, marker, crossed, left,
                 SessVars>>

\* Mutant: the end of the loop leaves the display to cleanup.
LoopsUnrestored(k) ==
  /\ Script(k, "loops")
  /\ GoesOn(k, IF marker THEN "ticks" ELSE "cleans")
  /\ display' = [display EXCEPT !.heartbeat = @ /\ marker]
  /\ UNCHANGED <<pidfile, missed, render, marker, crossed, left, SessVars,
                 StreamVars>>

(* The loop: while the marker is there, the heartbeat and, every third     *)
(* round, CarPlay's context.                                               *)
Loops(k) ==
  /\ Script(k, "loops")
  /\ GoesOn(k, IF marker THEN "ticks" ELSE "cleans")
  /\ display' = IF marker THEN display
                ELSE [native |-> TRUE, heartbeat |-> FALSE]
  /\ UNCHANGED <<pidfile, missed, render, marker, crossed, left, SessVars,
                 StreamVars>>

Ticks(k) ==
  /\ Script(k, "ticks") /\ GoesOn(k, "loops")
  /\ display' = [native |-> FALSE, heartbeat |-> TRUE]
  /\ UNCHANGED <<pidfile, missed, render, marker, crossed, left, SessVars,
                 StreamVars>>

(* cleanup, at exit.                                                       *)
Cleans(k) ==
  /\ Script(k, "cleans") /\ GoesOn(k, "gone")
  /\ pidfile' = None
  /\ display' = [native |-> display.native \/ ~marker, heartbeat |-> FALSE]
  /\ UNCHANGED <<missed, render, marker, crossed, left, SessVars, StreamVars>>

-----------------------------------------------------------------------------
Worker(s) ==
  \/ Starts(s) \/ WorkerQuits(s) \/ Opens(s) \/ Marks(s) \/ Closes(s)
  \/ Unmarks(s) \/ Stopped(s) \/ PicksReceiver(s) \/ ForcesKeyFrame(s)

Control(k) ==
  \/ ChecksPid(k) \/ WritesPid(k) \/ TestsMarker(k) \/ Loops(k) \/ Ticks(k)
  \/ Cleans(k)

Next ==
  \/ Prepares \/ TimePasses \/ NewFormat \/ RendererDies
  \/ \E s \in Sessions : \/ Worker(s) \/ StreamEnds(s) \/ Decodes(s)
                         \/ StopRequest(s) \/ Cleaned(s)
  \/ \E k \in Scripts : Control(k)

Spec == Init /\ [][Next]_vars

(* Threads and scripts run and time passes; a phone goes on with its       *)
(* stream and answers a request for a key frame.  One session streams at a *)
(* time.                                                                   *)
FairSpec ==
  /\ Spec /\ WF_vars(TimePasses)
  /\ WF_vars(\E s \in Sessions : Decodes(s))
  /\ SF_vars(\E s \in Sessions : Decodes(s) /\ phone.owes /\ ~phone'.owes)
  /\ SF_vars(\E s \in Sessions : sess[s].stop /\ StreamEnds(s))
  /\ \A s \in Sessions : WF_vars(Worker(s))
  /\ \A k \in Scripts : WF_vars(Control(k))

-----------------------------------------------------------------------------
(* Properties.                                                             *)

SessTypeOK ==
  /\ sess \in [Sessions -> [at : {"idle", "ready", "opens", "marks", "runs",
                                  "closes", "unmarks", "closed", "over"},
                            started : BOOLEAN, stop : BOOLEAN,
                            asks : BOOLEAN, target : Sessions \cup {None}]]
  /\ \A s \in Sessions :
       sess[s].started => sess[s].at \in {"runs", "closes", "unmarks", "closed"}
  /\ scope \in Sessions \cup {None}

StreamTypeOK ==
  /\ fwd \in [active : BOOLEAN, fd : {"closed", "live", "dying", "dead"},
              waits : BOOLEAN, need_idr : BOOLEAN, asked : BOOLEAN,
              params : Formats \cup {None}]
  /\ decoder \in [params : Formats \cup {None}, chain : BOOLEAN, lost : BOOLEAN]
  /\ phone \in [format : Formats, next : {"params", "idr", "any"},
                owes : BOOLEAN]
  /\ oversize \in BOOLEAN

ScriptTypeOK ==
  /\ script \in [Scripts -> {"none", "check", "writes", "tests", "loops",
                             "ticks", "cleans", "gone"}]
  /\ pidfile \in Scripts \cup {None}
  /\ display \in [native : BOOLEAN, heartbeat : BOOLEAN]
  /\ missed \in BOOLEAN

(* Every variable keeps its type, and a session is marked as started only  *)
(* while its screen is (altscreen_worker).                                 *)
TypeOK ==
  /\ SessTypeOK /\ StreamTypeOK /\ ScriptTypeOK
  /\ render \in {"down", "up"} /\ marker \in BOOLEAN /\ crossed \subseteq Sessions
  /\ left \in [sessions : Nat, faults : Nat]

(* Whatever reconnects fall between, the renderer's decoder is given a key *)
(* frame only after the parameter sets of its format, and another picture  *)
(* only after a key frame, on the same connection (fwd_send_access_unit,   *)
(* "predictive frames are discarded until a fresh IDR lands"); as long as  *)
(* every unit fitted the buffer.                                           *)
DecoderIsPrimed == ~oversize => ~decoder.lost

(* With no output being opened or closed, a marker stands for an open      *)
(* output: none is left behind by a session that ended (NvSSVideoClose).   *)
MarkerHasOutput ==
  marker /\ (\A s \in Sessions : sess[s].at \notin {"marks", "unmarks"})
    => fwd.active

(* A key frame is asked of the session that misses it, whose receiver is   *)
(* there as long as it runs; or of one whose output was still being closed *)
(* when this one was opened, and whose receiver may be released between    *)
(* the lock and the use.  Never of one that has not opened an output, or   *)
(* had left before (altscreen_request_fresh_keyframe).                     *)
AsksTheLiving ==
  \A s \in Sessions :
    LET t == sess[s].target IN
    t # None => (t = s /\ sess[s].at = "runs") \/ t \in crossed

(* A session that streams to a renderer that stays gets a picture again    *)
(* after every break, though requests for key frames get lost              *)
(* (fwd_send_access_unit).                                                 *)
PictureComes ==
  \A s \in Sessions :
    <>[](sess[s].at = "runs" /\ render = "up" /\ ~oversize)
      => <>[](fwd.fd = "live" /\ decoder.chain)

(* After the last session the display is native again and the heartbeat    *)
(* gone, whichever scripts were about (mib2high-lvds-control.sh).          *)
NativeComesBack == <>[]~marker => <>[](display.native /\ ~display.heartbeat)

(* A session that stays is served by a script, unless its script gave way  *)
(* to one that was leaving.                                                *)
MarkerIsServed ==
  <>[](marker /\ ~missed) => <>[](\E k \in Scripts : script[k] \in {"loops", "ticks"})

(* The marker is followed: up, a script serves it; gone, the display is    *)
(* the stock navigation's again.                                           *)
MarkerIsFollowed == NativeComesBack /\ MarkerIsServed
=============================================================================
