----------------------- MODULE AltScreenOutputProofs -----------------------
(***************************************************************************)
(* Theorems about AltScreenOutput, for any number of slots and any budget. *)
(* The runs' FairSpec implies the Spec they are about.                     *)
(***************************************************************************)
EXTENDS AltScreenOutput, TLAPS, WellFoundedInduction

-----------------------------------------------------------------------------
(* Which output is open, and whom a key frame is asked of.                 *)

Busy    == {"marks", "runs", "closes"}        \* has the stub
Leaving == {"unmarks", "closed"}              \* had it

(* One session has the stub; while it has it none that had it before is    *)
(* about but those still closing when it was opened; and so a key frame is *)
(* asked of the session that misses it, or of one of those.                *)
SessInv ==
  /\ \A s \in Sessions : sess[s].at \in Busy => fwd.active
  /\ \A s, t \in Sessions : sess[s].at \in Busy /\ sess[t].at \in Busy => s = t
  /\ \A s, t \in Sessions :
       sess[s].at \in Busy /\ sess[t].at \in Leaving => t \in crossed
  /\ \A s \in Sessions :
       /\ sess[s].asks => sess[s].at = "runs"
       /\ sess[s].target # None => sess[s].asks
       /\ sess[s].target # None => sess[s].target \in {s} \cup crossed
  /\ marker => \E s \in Sessions : sess[s].at \in Busy \cup {"unmarks"}

(* What the decoder has been given is what the forwarder thinks it has: a  *)
(* key frame unless one is waited for, and the parameter sets the phone    *)
(* sent last; those are kept for the next connection.                      *)
StreamInv ==
  /\ fwd.fd # "live" => decoder = NoDecoder
  /\ fwd.fd = "live" /\ ~oversize
       => /\ fwd.need_idr \/ decoder.chain
          /\ ~decoder.lost
          /\ phone.next # "params" => decoder.params = phone.format
  /\ phone.next # "params" => fwd.params = phone.format

Inv == TypeOK /\ SessInv /\ StreamInv

LEMMA MinOfSessions ==
  ASSUME NEW S \in SUBSET Sessions, S # {}
  PROVE  Min(S) \in S
<1> DEFINE R == OpToRel(<, Nat)
<1>1. S \subseteq Nat
  BY OutputAssumption DEF Sessions
<1>2. IsWellFoundedOn(R, Nat)
  BY NatLessThanWellFounded, Zenon
<1>3. \A x, y \in Nat : <<y, x>> \notin R => x <= y
  BY DEF OpToRel
<1> HIDE DEF R
<1>4. IsWellFoundedOn(R, S)
  BY <1>1, <1>2, IsWellFoundedOnSubset
<1>5. \E x \in S : \A y \in S : <<y, x>> \notin R
  BY <1>4, WFMin
<1>6. \E x \in S : \A y \in S : x <= y
  BY <1>1, <1>3, <1>5
<1> QED BY <1>6 DEF Min

LEMMA InvInit == Init => Inv
<1> SUFFICES ASSUME Init PROVE Inv
  OBVIOUS
<1> USE DEF Init, NoSession, ResetForwarder, NoDecoder, None
<1>1. TypeOK
  <2>1. left \in [sessions : Nat, faults : Nat]
    BY OutputAssumption
  <2>2. phone \in [format : Formats, next : {"params", "idr", "any"},
                  owes : BOOLEAN]
    BY DEF Formats
  <2> QED BY <2>1, <2>2 DEF TypeOK, SessTypeOK, StreamTypeOK, ScriptTypeOK
<1>2. SessInv
  BY DEF SessInv, Busy
<1>3. StreamInv
  BY DEF StreamInv
<1> QED BY <1>1, <1>2, <1>3 DEF Inv

-----------------------------------------------------------------------------
(* The sessions' own steps.                                                *)

LEMMA StreamKept ==
  ASSUME Inv, UNCHANGED <<fwd, decoder, phone, oversize>>
  PROVE  StreamTypeOK' /\ StreamInv'
BY DEF Inv, TypeOK, StreamTypeOK, StreamInv

LEMMA SessKept ==
  ASSUME Inv, UNCHANGED <<sess, scope, marker, crossed>>, fwd'.active = fwd.active
  PROVE  SessTypeOK' /\ SessInv'
BY DEF Inv, TypeOK, SessTypeOK, SessInv

LEMMA ScriptKept ==
  ASSUME Inv, UNCHANGED <<script, pidfile, display, missed>>
  PROVE  ScriptTypeOK'
BY DEF Inv, TypeOK, ScriptTypeOK

LEMMA PreparesKeeps == Inv /\ Prepares => Inv'
<1> SUFFICES ASSUME Inv, Prepares PROVE Inv'
  OBVIOUS
<1>1. PICK s \in Sessions : sess[s].at = "idle" /\ Goes(s, "ready")
  BY MinOfSessions DEF Prepares
<1>2. /\ UNCHANGED <<scope, render, marker, crossed, fwd, decoder, phone,
                     oversize, script, pidfile, display, missed>>
      /\ left' = [left EXCEPT !.sessions = @ - 1] /\ left.sessions > 0
  BY DEF Prepares, StreamVars, ScriptVars
<1>3. SessTypeOK'
  BY <1>1, <1>2 DEF Inv, TypeOK, SessTypeOK, Goes
<1>4. SessInv'
  BY <1>1, <1>2 DEF Inv, SessInv, TypeOK, SessTypeOK, Goes, Busy, Leaving
<1>5. StreamTypeOK' /\ StreamInv'
  BY <1>2, StreamKept
<1> QED BY <1>1, <1>2, <1>3, <1>4, <1>5, ScriptKept DEF Inv, TypeOK

LEMMA StartsKeeps ==
  ASSUME Inv, NEW s \in Sessions, Starts(s) \/ WorkerQuits(s) PROVE Inv'
<1>1. /\ Goes(s, "opens") \/ Goes(s, "over")
      /\ sess[s].at = "ready" /\ scope' \in Sessions \cup {None}
      /\ UNCHANGED <<render, marker, crossed, fwd, decoder, phone, oversize,
                     script, pidfile, display, missed, left>>
  BY DEF Starts, WorkerQuits, BeginsScope, StreamVars, ScriptVars, Inv, TypeOK, SessTypeOK, StreamTypeOK, ScriptTypeOK
<1>2. SessTypeOK'
  BY <1>1 DEF Inv, TypeOK, SessTypeOK, Goes
<1>3. SessInv'
  BY <1>1 DEF Inv, SessInv, TypeOK, SessTypeOK, Goes, Busy, Leaving
<1>4. StreamTypeOK' /\ StreamInv'
  BY <1>1, StreamKept
<1> QED BY <1>1, <1>2, <1>3, <1>4, ScriptKept DEF Inv, TypeOK

LEMMA OpensKeeps ==
  ASSUME Inv, NEW s \in Sessions, Opens(s) PROVE Inv'
<1>1. /\ sess[s].at = "opens"
      /\ UNCHANGED <<render, marker, oversize, left, script, pidfile, display,
                     missed>>
  BY DEF Opens, ScriptVars
<1>2. CASE fwd.active
  <2>1. /\ Goes(s, "over") /\ scope' = None
        /\ UNCHANGED <<fwd, phone, crossed, decoder>>
    BY <1>2 DEF Opens, EndsScope
  <2>2. SessTypeOK'
    BY <1>1, <2>1 DEF Inv, TypeOK, SessTypeOK, Goes
  <2>3. SessInv'
    BY <1>1, <2>1 DEF Inv, SessInv, TypeOK, SessTypeOK, Goes, Busy, Leaving
  <2>4. StreamTypeOK' /\ StreamInv'
    BY <1>1, <2>1, StreamKept
  <2> QED BY <1>1, <2>1, <2>2, <2>3, <2>4, ScriptKept DEF Inv, TypeOK
<1>3. CASE ~fwd.active
  <2>1. /\ fwd' = [ResetForwarder EXCEPT !.active = TRUE]
        /\ decoder' = NoDecoder
        /\ phone' = [phone EXCEPT !.next = "params", !.owes = FALSE]
        /\ crossed' = {t \in Sessions : sess[t].at \in Leaving}
        /\ scope' = scope /\ Goes(s, "marks")
    BY <1>3 DEF Opens, Leaving
  <2>2. SessTypeOK'
    BY <1>1, <2>1 DEF Inv, TypeOK, SessTypeOK, Goes, ResetForwarder, NoDecoder
  <2>3. \A t \in Sessions : sess[t].at \notin Busy
    BY <1>3 DEF Inv, SessInv
  <2>4. fwd'.active
    BY <2>1 DEF ResetForwarder
  <2>5. SessInv'
    <3>1. \A t \in Sessions :
            /\ t # s => sess'[t] = sess[t]
            /\ sess'[t].asks = sess[t].asks /\ sess'[t].target = sess[t].target
      BY <2>1 DEF Inv, TypeOK, SessTypeOK, Goes
    <3>2. sess'[s].at = "marks"
      BY <2>1 DEF Inv, TypeOK, SessTypeOK, Goes
    <3>3. \A t \in Sessions : ~sess[t].asks /\ sess[t].target = None
      BY <2>3 DEF Inv, SessInv, Busy
    <3>4. \A t \in Sessions : sess'[t].at \in Leaving => t \in crossed'
      BY <2>1, <3>1, <3>2 DEF Leaving
    <3> QED BY <1>1, <2>3, <2>4, <3>1, <3>2, <3>3, <3>4 DEF Inv, SessInv, Busy
  <2>6. StreamTypeOK' /\ StreamInv'
    BY <1>1, <2>1 DEF Inv, StreamInv, TypeOK, StreamTypeOK, ResetForwarder,
       NoDecoder, None
  <2> QED BY <1>1, <2>1, <2>2, <2>5, <2>6, ScriptKept DEF Inv, TypeOK
<1> QED BY <1>2, <1>3

LEMMA MarksKeeps ==
  ASSUME Inv, NEW s \in Sessions, Marks(s) PROVE Inv'
<1>1. /\ sess[s].at = "marks" /\ scope' = None
      /\ sess' = [sess EXCEPT ![s].at = "runs", ![s].started = TRUE]
      /\ UNCHANGED <<render, pidfile, display, crossed, missed, left, fwd,
                     decoder, phone, oversize>>
      /\ marker' \in BOOLEAN
  BY DEF Marks, EndsScope, StreamVars
<1>2. script' \in [Scripts -> {"none", "check", "writes", "tests", "loops",
                              "ticks", "cleans", "gone"}]
  BY DEF Marks, GoesOn, Inv, TypeOK, SessTypeOK, StreamTypeOK, ScriptTypeOK
<1>3. SessTypeOK'
  BY <1>1, <1>2 DEF Inv, TypeOK, SessTypeOK
<1>4. SessInv'
  BY <1>1 DEF Inv, SessInv, TypeOK, SessTypeOK, Busy, Leaving
<1>5. StreamTypeOK' /\ StreamInv'
  BY <1>1, StreamKept
<1>6. ScriptTypeOK'
  BY <1>1, <1>2 DEF Inv, TypeOK, ScriptTypeOK
<1> QED BY <1>1, <1>3, <1>4, <1>5, <1>6 DEF Inv, TypeOK

LEMMA ClosesKeeps ==
  ASSUME Inv, NEW s \in Sessions,
         StreamEnds(s) \/ Closes(s) \/ Unmarks(s) \/ Stopped(s)
  PROVE  Inv'
<1>1. CASE StreamEnds(s)
  <2>1. /\ sess[s].at = "runs" /\ ~sess[s].asks /\ Goes(s, "closes")
        /\ UNCHANGED <<scope, render, marker, crossed, fwd, decoder, phone,
                       oversize, script, pidfile, display, missed, left>>
    BY <1>1 DEF StreamEnds, StreamVars, ScriptVars
  <2>2. SessTypeOK'
    BY <2>1 DEF Inv, TypeOK, SessTypeOK, Goes
  <2>3. SessInv'
    BY <2>1 DEF Inv, SessInv, TypeOK, SessTypeOK, Goes, Busy, Leaving
  <2>4. StreamTypeOK' /\ StreamInv'
    BY <2>1, StreamKept
  <2> QED BY <2>1, <2>2, <2>3, <2>4, ScriptKept DEF Inv, TypeOK
<1>2. CASE Closes(s)
  <2>1. /\ sess[s].at = "closes" /\ Goes(s, "unmarks")
        /\ fwd' = ResetForwarder /\ decoder' = NoDecoder
        /\ phone' = [phone EXCEPT !.next = "params", !.owes = FALSE]
        /\ UNCHANGED <<scope, oversize, render, marker, crossed, left, script,
                       pidfile, display, missed>>
    BY <1>2 DEF Closes, ScriptVars
  <2>2. SessTypeOK'
    BY <2>1 DEF Inv, TypeOK, SessTypeOK, Goes, ResetForwarder, NoDecoder
  <2>3. SessInv'
    BY <2>1 DEF Inv, SessInv, TypeOK, SessTypeOK, Goes, Busy, Leaving, ResetForwarder
  <2>4. StreamTypeOK' /\ StreamInv'
    BY <2>1 DEF Inv, StreamInv, TypeOK, StreamTypeOK, ResetForwarder,
       NoDecoder, None
  <2> QED BY <2>1, <2>2, <2>3, <2>4, ScriptKept DEF Inv, TypeOK
<1>3. CASE Unmarks(s)
  <2>1. /\ sess[s].at = "unmarks" /\ Goes(s, "closed") /\ marker' = FALSE
        /\ UNCHANGED <<scope, render, crossed, fwd, decoder, phone, oversize,
                       script, pidfile, display, missed, left>>
    BY <1>3 DEF Unmarks, StreamVars, ScriptVars
  <2>2. SessTypeOK'
    BY <2>1 DEF Inv, TypeOK, SessTypeOK, Goes
  <2>3. SessInv'
    BY <2>1 DEF Inv, SessInv, TypeOK, SessTypeOK, Goes, Busy, Leaving
  <2>4. StreamTypeOK' /\ StreamInv'
    BY <2>1, StreamKept
  <2> QED BY <2>1, <2>2, <2>3, <2>4, ScriptKept DEF Inv, TypeOK
<1>4. CASE Stopped(s)
  <2>1. /\ sess[s].at = "closed"
        /\ sess' = [sess EXCEPT ![s].at = "over", ![s].started = FALSE]
        /\ UNCHANGED <<scope, render, marker, crossed, fwd, decoder, phone,
                       oversize, script, pidfile, display, missed, left>>
    BY <1>4 DEF Stopped, StreamVars, ScriptVars
  <2>2. SessTypeOK'
    BY ZenonT(40), <2>1 DEF Inv, TypeOK, SessTypeOK
  <2>3. SessInv'
    BY <2>1 DEF Inv, SessInv, TypeOK, SessTypeOK, Busy, Leaving
  <2>4. StreamTypeOK' /\ StreamInv'
    BY <2>1, StreamKept
  <2> QED BY <2>1, <2>2, <2>3, <2>4, ScriptKept DEF Inv, TypeOK
<1> QED BY <1>1, <1>2, <1>3, <1>4

LEMMA CleanupKeeps ==
  ASSUME Inv, NEW s \in Sessions, StopRequest(s) \/ Cleaned(s) PROVE Inv'
<1>1. /\ UNCHANGED <<scope, render, marker, crossed, fwd, decoder, phone,
                     oversize, script, pidfile, display, missed, left>>
      /\ \/ sess' = [sess EXCEPT ![s].stop = TRUE]
         \/ sess[s].at = "over" /\ sess' = [sess EXCEPT ![s] = NoSession]
  BY DEF StopRequest, Cleaned, StreamVars, ScriptVars
<1>2. SessTypeOK'
  <2>1. CASE sess' = [sess EXCEPT ![s].stop = TRUE]
    <3>1. \A t \in Sessions :
            sess'[t].started = sess[t].started /\ sess'[t].at = sess[t].at
      BY <2>1 DEF Inv, TypeOK, SessTypeOK
    <3>2. sess' \in [Sessions -> [at : {"idle", "ready", "opens", "marks", "runs",
                                      "closes", "unmarks", "closed", "over"},
                                started : BOOLEAN, stop : BOOLEAN,
                                asks : BOOLEAN, target : Sessions \cup {None}]]
      BY <2>1 DEF Inv, TypeOK, SessTypeOK
    <3> QED BY <1>1, <3>1, <3>2 DEF Inv, TypeOK, SessTypeOK
  <2>2. CASE sess' = [sess EXCEPT ![s] = NoSession]
    BY <1>1, <2>2 DEF Inv, TypeOK, SessTypeOK, NoSession, None
  <2> QED BY <1>1, <2>1, <2>2
<1>3. SessInv'
  BY <1>1 DEF Inv, SessInv, TypeOK, SessTypeOK, Busy, Leaving, NoSession
<1>4. StreamTypeOK' /\ StreamInv'
  BY <1>1, StreamKept
<1> QED BY <1>1, <1>2, <1>3, <1>4, ScriptKept DEF Inv, TypeOK

-----------------------------------------------------------------------------
(* Key frames and faults.                                                  *)

(* While a session has a key frame asked for, the only ones started are    *)
(* itself and those that were leaving when it was opened.                  *)
LEMMA OnlyLive ==
  ASSUME Inv, NEW s \in Sessions, sess[s].asks, NEW t \in Live
  PROVE  t \in {s} \cup crossed
<1>1. t \in Sessions /\ sess[t].started
  BY DEF Live
<1>2. sess[t].at \in Busy \cup Leaving /\ sess[s].at \in Busy
  BY <1>1 DEF Inv, TypeOK, SessTypeOK, SessInv, Busy, Leaving
<1> QED BY <1>1, <1>2 DEF Inv, SessInv

LEMMA AsksKeeps ==
  ASSUME Inv, NEW s \in Sessions, PicksReceiver(s) PROVE Inv'
<1>1. /\ sess[s].asks /\ sess[s].target = None
      /\ UNCHANGED <<scope, render, marker, crossed, fwd, decoder, phone,
                     oversize, script, pidfile, display, missed, left>>
  BY DEF PicksReceiver, StreamVars, ScriptVars
<1>2. PICK goes, aim : /\ sess' = [sess EXCEPT ![s].asks = goes, ![s].target = aim]
                       /\ goes = (Live # {})
                       /\ aim = IF Live = {} THEN None ELSE Min(Live)
  BY DEF PicksReceiver
<1>3. /\ goes \in BOOLEAN /\ aim \in Sessions \cup {None}
      /\ aim # None => goes /\ aim \in Live
  BY <1>2, MinOfSessions DEF Live
<1>4. aim # None => aim \in {s} \cup crossed
  BY <1>1, <1>3, OnlyLive
<1>8. /\ \A t \in Sessions :
           /\ sess'[t].at = sess[t].at /\ sess'[t].started = sess[t].started
           /\ t # s => sess'[t] = sess[t]
      /\ sess'[s].asks = goes /\ sess'[s].target = aim
  BY <1>2 DEF Inv, TypeOK, SessTypeOK
<1>5. SessTypeOK'
  <2>1. sess' \in [Sessions -> [at : {"idle", "ready", "opens", "marks", "runs",
                                    "closes", "unmarks", "closed", "over"},
                              started : BOOLEAN, stop : BOOLEAN,
                              asks : BOOLEAN, target : Sessions \cup {None}]]
    <3> DEFINE r == [sess[s] EXCEPT !.asks = goes, !.target = aim]
    <3>1. r \in [at : {"idle", "ready", "opens", "marks", "runs", "closes",
                      "unmarks", "closed", "over"},
                started : BOOLEAN, stop : BOOLEAN, asks : BOOLEAN,
                target : Sessions \cup {None}]
      BY <1>3 DEF Inv, TypeOK, SessTypeOK
    <3>2. sess' = [sess EXCEPT ![s] = r]
      BY <1>2 DEF Inv, TypeOK, SessTypeOK
    <3> HIDE DEF r
    <3> QED BY <3>1, <3>2 DEF Inv, TypeOK, SessTypeOK
  <2> QED BY <1>1, <1>8, <2>1 DEF Inv, TypeOK, SessTypeOK
<1>6. SessInv'
  BY <1>1, <1>3, <1>4, <1>8 DEF Inv, SessInv
<1>7. StreamTypeOK' /\ StreamInv'
  BY <1>1, StreamKept
<1> QED BY <1>1, <1>5, <1>6, <1>7, ScriptKept DEF Inv, TypeOK

LEMMA ForcesKeeps ==
  ASSUME Inv, NEW s \in Sessions, ForcesKeyFrame(s) PROVE Inv'
<1>1. /\ sess[s].asks
      /\ sess' = [sess EXCEPT ![s].asks = FALSE, ![s].target = None]
      /\ UNCHANGED <<scope, fwd, decoder, oversize, render, marker, crossed,
                     script, pidfile, display, missed>>
  BY DEF ForcesKeyFrame, ScriptVars
<1>2. /\ left' \in [sessions : Nat, faults : Nat]
      /\ phone' \in [format : Formats, next : {"params", "idr", "any"},
                     owes : BOOLEAN]
      /\ phone'.next = phone.next /\ phone'.format = phone.format
  <2>1. CASE /\ phone' = [phone EXCEPT !.owes = @ \/ sess[s].target = s]
             /\ left' = left
    BY <2>1 DEF Inv, TypeOK, StreamTypeOK
  <2>2. CASE Fault /\ phone' = phone
    BY <2>2 DEF Fault, Inv, TypeOK, StreamTypeOK
  <2> QED BY <2>1, <2>2 DEF ForcesKeyFrame
<1>3. SessTypeOK'
  BY ZenonT(40), <1>1 DEF Inv, TypeOK, SessTypeOK
<1>4. SessInv'
  BY <1>1 DEF Inv, SessInv, TypeOK, SessTypeOK
<1>5. StreamTypeOK' /\ StreamInv'
  BY <1>1, <1>2 DEF Inv, TypeOK, StreamTypeOK, StreamInv
<1> QED BY <1>1, <1>2, <1>3, <1>4, <1>5, ScriptKept DEF Inv, TypeOK

LEMMA TimeKeeps ==
  ASSUME Inv, TimePasses \/ NewFormat PROVE Inv'
<1>1. CASE TimePasses
  <2>1. /\ UNCHANGED <<decoder, phone, oversize, render, marker, crossed, left,
                       sess, scope, script, pidfile, display, missed>>
        /\ \/ fwd' = [fwd EXCEPT !.waits = FALSE]
           \/ fwd' = [fwd EXCEPT !.asked = FALSE]
    BY <1>1 DEF TimePasses, SessVars, ScriptVars
  <2>2. StreamTypeOK' /\ StreamInv' /\ fwd'.active = fwd.active
    BY ZenonT(40), <2>1 DEF Inv, TypeOK, StreamTypeOK, StreamInv
  <2> QED BY <2>1, <2>2, SessKept, ScriptKept DEF Inv, TypeOK
<1>2. CASE NewFormat
  <2>1. /\ UNCHANGED <<fwd, decoder, oversize, render, marker, crossed,
                       sess, scope, script, pidfile, display, missed>>
        /\ phone' = [phone EXCEPT !.format = @ + 1, !.next = "params"]
        /\ left' \in [sessions : Nat, faults : Nat]
    BY <1>2 DEF NewFormat, Fault, SessVars, ScriptVars, Inv, TypeOK
  <2>2. phone.format + 1 \in Formats
    BY DEF Inv, TypeOK, StreamTypeOK, Formats
  <2>3. StreamTypeOK' /\ StreamInv'
    BY ZenonT(40), <2>1, <2>2 DEF Inv, TypeOK, StreamTypeOK, StreamInv
  <2> QED BY <2>1, <2>3, SessKept, ScriptKept DEF Inv, TypeOK
<1> QED BY <1>1, <1>2

LEMMA RendererKeeps ==
  ASSUME Inv, NEW r \in {"up", "down"}, RendererGone(r), decoder' = NoDecoder,
         UNCHANGED <<phone, oversize>>
  PROVE  StreamTypeOK' /\ StreamInv' /\ fwd'.active = fwd.active
BY DEF RendererGone, Inv, TypeOK, StreamTypeOK, StreamInv, NoDecoder, None

LEMMA DiesKeeps ==
  ASSUME Inv, RendererDies PROVE Inv'
<1>1. /\ UNCHANGED <<phone, oversize, marker, crossed, sess, scope, script,
                     pidfile, display, missed>>
      /\ render' = "down" /\ left' \in [sessions : Nat, faults : Nat]
  BY DEF RendererDies, RendererGone, Fault, SessVars, ScriptVars, Inv, TypeOK
<1>2. StreamTypeOK' /\ StreamInv' /\ fwd'.active = fwd.active
  BY <1>1, RendererKeeps DEF RendererDies
<1> QED BY <1>1, <1>2, SessKept, ScriptKept DEF Inv, TypeOK

LEMMA ControlKeeps ==
  ASSUME Inv, NEW k \in Scripts, Control(k) PROVE Inv'
<1>1. /\ UNCHANGED <<phone, oversize, marker, crossed, sess, scope, left>>
      /\ render' \in {"down", "up"}
      /\ \/ UNCHANGED <<fwd, decoder>>
         \/ RendererGone("up") /\ decoder' = NoDecoder
  BY DEF Control, ChecksPid, WritesPid, TestsMarker, Loops, Ticks, Cleans,
     SessVars, StreamVars, RendererGone, Inv, TypeOK
<1>2. StreamTypeOK' /\ StreamInv' /\ fwd'.active = fwd.active
  BY <1>1, RendererKeeps, StreamKept
<1>3. ScriptTypeOK'
  <2>1. PICK at : script' = [script EXCEPT ![k] = at] /\
                  at \in {"writes", "tests", "loops", "ticks", "cleans", "gone"}
    BY DEF Control, ChecksPid, WritesPid, TestsMarker, Loops, Ticks, Cleans, GoesOn
  <2>2. pidfile' \in Scripts \cup {None} /\ missed' \in BOOLEAN
    BY DEF Control, ChecksPid, WritesPid, TestsMarker, Loops, Ticks, Cleans,
       Inv, TypeOK, ScriptTypeOK
  <2>3. display' \in [native : BOOLEAN, heartbeat : BOOLEAN]
    <3> USE DEF Inv, TypeOK, ScriptTypeOK
    <3>1. CASE ChecksPid(k) \/ WritesPid(k) \/ TestsMarker(k)
      BY <3>1 DEF ChecksPid, WritesPid, TestsMarker
    <3>2. CASE Ticks(k)
      BY <3>2 DEF Ticks
    <3>4. CASE Loops(k)
      <4>1. \/ display' = display
            \/ display' = [native |-> TRUE, heartbeat |-> FALSE]
        BY <3>4 DEF Loops
      <4>2. [native |-> TRUE, heartbeat |-> FALSE]
              \in [native : BOOLEAN, heartbeat : BOOLEAN]
        OBVIOUS
      <4> QED BY <4>1, <4>2
    <3>3. CASE Cleans(k)
      <4>1. (display.native \/ ~marker) \in BOOLEAN
        OBVIOUS
      <4> QED BY <3>3, <4>1 DEF Cleans
    <3> QED BY <3>1, <3>2, <3>3, <3>4 DEF Control
  <2> QED BY <2>1, <2>2, <2>3 DEF Inv, TypeOK, ScriptTypeOK
<1> QED BY <1>1, <1>2, <1>3, SessKept DEF Inv, TypeOK

-----------------------------------------------------------------------------
(* The forwarder.                                                          *)

(* The units the phone may send next.                                      *)
LEMMA UnitFacts ==
  ASSUME Inv, NEW u \in NextUnits
  PROVE  /\ u.idr \in BOOLEAN /\ u.big \in BOOLEAN
         /\ u.params \in {None, phone.format} /\ phone.format # None
         /\ phone.next = "params" => u.params = phone.format
         /\ AfterUnit(u) \in [format : Formats, next : {"params", "idr", "any"},
                              owes : BOOLEAN]
         /\ AfterUnit(u).format = phone.format
         /\ AfterUnit(u).next # "params"
<1>1. phone.next \in {"params", "idr", "any"} /\ phone.format \in Formats
      /\ phone.owes \in BOOLEAN
  BY DEF Inv, TypeOK, StreamTypeOK
<1>2. phone.format # None
  BY <1>1 DEF Formats, None
<1>3. \E i, b \in BOOLEAN, q \in {None, phone.format} :
         /\ u = Unit(i, q, b) /\ (phone.next = "params" => q = phone.format)
         /\ (phone.next = "idr" => i)
  <2>1. CASE phone.next = "params"
    <3>1. NextUnits = {Unit(i, phone.format, FALSE) : i \in BOOLEAN}
      BY <2>1 DEF NextUnits
    <3>2. PICK i \in BOOLEAN : u = Unit(i, phone.format, FALSE)
      BY <3>1
    <3> QED BY <2>1, <3>2
  <2>2. CASE phone.next = "idr"
    <3>1. NextUnits = {Unit(TRUE, None, b) : b \in BOOLEAN}
      BY <2>2 DEF NextUnits
    <3>2. PICK b \in BOOLEAN : u = Unit(TRUE, None, b)
      BY <3>1
    <3> QED BY <2>2, <3>2
  <2>3. CASE phone.next = "any"
    <3> DEFINE asked == {Unit(TRUE, q, b) : q \in {None, phone.format},
                                            b \in BOOLEAN}
    <3>2. NextUnits = {Unit(FALSE, None, FALSE)}
                        \cup (IF phone.owes THEN asked ELSE {})
      BY <2>3 DEF NextUnits
    <3>3. u \in asked => \E q \in {None, phone.format}, b \in BOOLEAN :
                           u = Unit(TRUE, q, b)
      BY DEF Unit
    <3> HIDE DEF asked
    <3>1. \/ u = Unit(FALSE, None, FALSE)
          \/ \E q \in {None, phone.format}, b \in BOOLEAN : u = Unit(TRUE, q, b)
      BY <3>2, <3>3
    <3> QED BY <2>3, <3>1
  <2> QED BY <1>1, <2>1, <2>2, <2>3
<1>4. /\ u.idr \in BOOLEAN /\ u.big \in BOOLEAN
      /\ u.params \in {None, phone.format}
      /\ phone.next = "params" => u.params = phone.format
  BY <1>3 DEF Unit
<1>5. /\ AfterUnit(u).format = phone.format
      /\ AfterUnit(u).next # "params"
      /\ AfterUnit(u) \in [format : Formats, next : {"params", "idr", "any"},
                           owes : BOOLEAN]
  BY <1>1, <1>2, <1>4 DEF AfterUnit, Inv, TypeOK, StreamTypeOK
<1> QED BY <1>2, <1>4, <1>5

(* What is right of a forwarder f and a decoder d, when the phone has sent *)
(* a unit of this format and everything fitted.                            *)
Right(f, d, format, fits) ==
  /\ f.fd # "live" => d = NoDecoder
  /\ f.fd = "live" /\ fits
       => (f.need_idr \/ d.chain) /\ ~d.lost /\ d.params = format
  /\ f.params = format

(* The same before the unit is written: the sets may still be in it.       *)
Ready(f, d, u, format, fits) ==
  /\ f.fd # "live" => d = NoDecoder
  /\ f.fd = "live" /\ fits
       => /\ (f.need_idr \/ d.chain) /\ ~d.lost
          /\ u.params = None => d.params = format
  /\ f.params = format

IsForwarder(f) ==
  f \in [active : BOOLEAN, fd : {"closed", "live", "dying", "dead"},
         waits : BOOLEAN, need_idr : BOOLEAN, asked : BOOLEAN,
         params : Formats \cup {None}]
IsDecoder(d) ==
  d \in [params : Formats \cup {None}, chain : BOOLEAN, lost : BOOLEAN]

LEMMA ScannedReady ==
  ASSUME Inv, NEW u \in NextUnits
  PROVE  LET f == IF fwd.fd = "closed" THEN Connected(Scanned(fwd, u))
                  ELSE Scanned(fwd, u)
         IN  /\ IsForwarder(Scanned(fwd, u)) /\ Scanned(fwd, u).active = fwd.active
             /\ Scanned(fwd, u).params = phone.format
             /\ Scanned(fwd, u).fd = fwd.fd
             /\ IsForwarder(f) /\ IsDecoder(Primed(f, u))
             /\ f.active = fwd.active
             /\ Ready(f, Primed(f, u), u, phone.format, ~oversize)
<1> DEFINE g == Scanned(fwd, u)
           f == IF fwd.fd = "closed" THEN Connected(g) ELSE g
           Goal == /\ IsForwarder(g) /\ g.active = fwd.active
                   /\ g.params = phone.format /\ g.fd = fwd.fd
                   /\ IsForwarder(f) /\ IsDecoder(Primed(f, u))
                   /\ f.active = fwd.active
                   /\ Ready(f, Primed(f, u), u, phone.format, ~oversize)
<1>1. /\ u.params \in {None, phone.format} /\ phone.format # None
      /\ phone.next = "params" => u.params = phone.format
      /\ phone.format \in Formats
  BY UnitFacts DEF Inv, TypeOK, StreamTypeOK
<1>2. IsForwarder(fwd) /\ IsDecoder(decoder)
  BY DEF Inv, TypeOK, StreamTypeOK, IsForwarder, IsDecoder
<1>3. IsForwarder(g) /\ g.active = fwd.active /\ g.fd = fwd.fd
      /\ g.need_idr = fwd.need_idr
  BY <1>1, <1>2 DEF Scanned, IsForwarder
<1>4. g.params = phone.format
  BY <1>1, <1>2 DEF Scanned, IsForwarder, Inv, StreamInv
<1> HIDE DEF g
<1>5. ASSUME fwd.fd = "closed" PROVE Goal
  <2>1. f = [g EXCEPT !.fd = "live", !.need_idr = TRUE, !.asked = FALSE]
    BY <1>5 DEF Connected
  <2>2. /\ IsForwarder(f) /\ f.active = fwd.active /\ f.params = phone.format
        /\ f.need_idr /\ f.fd = "live"
    BY <1>3, <1>4, <2>1 DEF IsForwarder
  <2> HIDE DEF f
  <2>3. CASE u.params = None
    <3>1. Primed(f, u) = Fed(NoDecoder, Unit(FALSE, phone.format, FALSE))
      BY <1>1, <1>5, <2>2, <2>3 DEF Primed, Replays
    <3>2. Primed(f, u) = [params |-> phone.format, chain |-> FALSE, lost |-> FALSE]
      BY <1>1, <3>1 DEF Fed, NoDecoder, Unit
    <3> QED BY <1>1, <1>3, <1>4, <2>2, <3>2 DEF Ready, IsDecoder
  <2>4. CASE u.params # None
    <3>1. Primed(f, u) = NoDecoder
      BY <1>5, <2>4 DEF Primed, Replays
    <3> QED BY <1>3, <1>4, <2>2, <2>4, <3>1 DEF Ready, IsDecoder, NoDecoder
  <2> QED BY <2>3, <2>4
<1>6. ASSUME fwd.fd # "closed" PROVE Goal
  <2>1. f = g /\ Primed(f, u) = decoder
    BY <1>6 DEF Primed
  <2>2. Ready(g, decoder, u, phone.format, ~oversize)
    BY <1>1, <1>3, <1>4 DEF Ready, Inv, StreamInv
  <2> QED BY <1>2, <1>3, <1>4, <2>1, <2>2
<1> QED BY <1>5, <1>6 DEF g

LEMMA AwaitedFacts ==
  ASSUME NEW f, NEW u, IsForwarder(f), u.idr \in BOOLEAN
  PROVE  LET g == Awaited(f, u)
         IN  /\ IsForwarder(g) /\ g.active = f.active /\ g.fd = f.fd
             /\ g.params = f.params /\ g.need_idr = (f.need_idr /\ ~u.idr)
BY DEF Awaited, Asks, IsForwarder

LEMMA LostRight ==
  ASSUME NEW f, IsForwarder(f), Lost(f), NEW format, f.params = format, NEW fits
  PROVE  /\ IsForwarder(fwd') /\ IsDecoder(decoder') /\ fwd'.active = f.active
         /\ Right(fwd', decoder', format, fits)
<1>1. PICK p \in BOOLEAN : fwd' = [f EXCEPT !.fd = "closed", !.waits = p]
  BY DEF Lost
<1>2. decoder' = NoDecoder
  BY DEF Lost
<1> QED BY <1>1, <1>2 DEF IsForwarder, IsDecoder, NoDecoder, None, Right

LEMMA WritesRight ==
  ASSUME Inv, NEW u \in NextUnits, NEW f, NEW d, NEW works, NEW fits \in BOOLEAN,
         IsForwarder(f), IsDecoder(d), Ready(f, d, u, phone.format, fits),
         ~(f.need_idr /\ ~u.idr /\ u.params = None),
         Writes(Awaited(f, u), d, u, works)
  PROVE  /\ IsForwarder(fwd') /\ IsDecoder(decoder') /\ fwd'.active = f.active
         /\ Right(fwd', decoder', phone.format, fits /\ ~u.big)
<1> DEFINE g == Awaited(f, u)
<1>1. /\ u.idr \in BOOLEAN /\ u.big \in BOOLEAN
      /\ u.params \in {None, phone.format} /\ phone.format \in Formats
  BY UnitFacts DEF Inv, TypeOK, StreamTypeOK
<1>2. /\ IsForwarder(g) /\ g.active = f.active /\ g.fd = f.fd
      /\ g.params = phone.format /\ g.need_idr = (f.need_idr /\ ~u.idr)
  BY <1>1, AwaitedFacts DEF Ready
<1> HIDE DEF g
<1>3. CASE u.big /\ fwd' = g /\ decoder' = d
  BY <1>2, <1>3 DEF Ready, Right
<1>4. CASE g.fd = "live" /\ fwd' = g /\ decoder' = Fed(d, u)
  <2>1. Fed(d, u).params \in Formats \cup {None}
    BY <1>1 DEF Fed, IsDecoder
  <2>2. IsDecoder(Fed(d, u))
    BY <1>1, <2>1 DEF Fed, IsDecoder
  <2>3. ASSUME fits
        PROVE  /\ Fed(d, u).params = phone.format
               /\ g.need_idr \/ Fed(d, u).chain
               /\ ~Fed(d, u).lost
    BY <1>1, <1>2, <1>4, <2>3 DEF Fed, Ready
  <2> QED BY <1>2, <1>4, <2>2, <2>3 DEF Right
<1>5. CASE g.fd = "dying" /\ fwd' = [g EXCEPT !.fd = "dead"] /\ decoder' = d
  BY <1>2, <1>5 DEF Ready, Right, IsForwarder
<1>6. CASE Lost(g)
  BY <1>2, <1>6, LostRight
<1>7. \/ u.big /\ fwd' = g /\ decoder' = d
      \/ g.fd = "live" /\ fwd' = g /\ decoder' = Fed(d, u)
      \/ g.fd = "dying" /\ fwd' = [g EXCEPT !.fd = "dead"] /\ decoder' = d
      \/ Lost(g)
  BY DEF Writes, g
<1> QED BY <1>3, <1>4, <1>5, <1>6, <1>7

(* What the forwarder makes of a unit is right.                            *)
LEMMA ForwardsRight ==
  ASSUME Inv, NEW s \in Sessions, NEW u \in NextUnits, NEW works \in BOOLEAN,
         Forwards(s, u, works)
  PROVE  /\ IsForwarder(fwd') /\ IsDecoder(decoder')
         /\ fwd'.active = fwd.active
         /\ Right(fwd', decoder', phone.format, ~oversize /\ ~u.big)
<1> DEFINE f == IF fwd.fd = "closed" THEN Connected(Scanned(fwd, u))
                ELSE Scanned(fwd, u)
           d == Primed(f, u)
           dropped == f.need_idr /\ ~u.idr /\ u.params = None
<1>1. /\ IsForwarder(f) /\ IsDecoder(d) /\ f.active = fwd.active
      /\ Ready(f, d, u, phone.format, ~oversize)
  BY ScannedReady
<1>2. u.idr \in BOOLEAN /\ (~oversize) \in BOOLEAN
  <2>1. u.idr \in BOOLEAN
    BY UnitFacts
  <2> QED BY <2>1
<1>3. \/ dropped /\ Lost(f)
      \/ dropped /\ fwd' = Awaited(f, u) /\ decoder' = d
      \/ ~dropped /\ Writes(Awaited(f, u), d, u, works)
  BY DEF Forwards
<1> HIDE DEF f, d
<1>4. CASE dropped /\ Lost(f)
  BY <1>1, <1>4, LostRight DEF Ready
<1>5. CASE dropped /\ fwd' = Awaited(f, u) /\ decoder' = d
  <2>1. /\ IsForwarder(fwd') /\ fwd'.active = f.active /\ fwd'.fd = f.fd
        /\ fwd'.params = f.params
        /\ fwd'.need_idr = (f.need_idr /\ ~u.idr)
    BY <1>1, <1>2, <1>5, AwaitedFacts
  <2> QED BY <1>1, <1>2, <1>5, <2>1 DEF Ready, Right
<1>6. CASE ~dropped /\ Writes(Awaited(f, u), d, u, works)
  BY <1>1, <1>2, <1>6, WritesRight
<1> QED BY <1>3, <1>4, <1>5, <1>6

LEMMA DecodesKeeps ==
  ASSUME Inv, NEW s \in Sessions, Decodes(s) PROVE Inv'
<1>1. /\ sess[s].at = "runs" /\ ~sess[s].asks
      /\ UNCHANGED <<scope, render, marker, crossed, script, pidfile, display,
                     missed>>
  BY DEF Decodes, ScriptVars
<1>2. PICK u \in NextUnits, works \in BOOLEAN :
        /\ phone' = AfterUnit(u) /\ oversize' = (oversize \/ u.big)
        /\ IF u.big \/ ~works THEN Fault ELSE left' = left
        /\ IF fwd.fd = "closed" /\ (fwd.waits \/ render = "down")
           THEN /\ works /\ fwd' = [Scanned(fwd, u) EXCEPT !.waits = TRUE]
                /\ UNCHANGED <<decoder, sess>>
           ELSE Forwards(s, u, works)
  BY DEF Decodes
<1>3. left' \in [sessions : Nat, faults : Nat]
  BY <1>2 DEF Fault, Inv, TypeOK
<1>4. /\ phone' \in [format : Formats, next : {"params", "idr", "any"},
                     owes : BOOLEAN]
      /\ phone'.format = phone.format /\ phone'.next # "params"
      /\ u.idr \in BOOLEAN /\ u.big \in BOOLEAN
  BY <1>2, UnitFacts
<1>5. oversize' \in BOOLEAN /\ (~oversize' <=> ~oversize /\ ~u.big)
  BY <1>2, <1>4 DEF Inv, TypeOK, StreamTypeOK
<1>6. /\ IsForwarder(fwd') /\ IsDecoder(decoder') /\ fwd'.active = fwd.active
      /\ Right(fwd', decoder', phone.format, ~oversize /\ ~u.big)
  <2>1. CASE /\ fwd.fd = "closed"
             /\ fwd' = [Scanned(fwd, u) EXCEPT !.waits = TRUE]
             /\ UNCHANGED <<decoder, sess>>
    <3>1. /\ IsForwarder(Scanned(fwd, u))
          /\ Scanned(fwd, u).active = fwd.active
          /\ Scanned(fwd, u).params = phone.format
          /\ Scanned(fwd, u).fd = "closed"
      BY <2>1, ScannedReady
    <3>2. /\ IsForwarder(fwd') /\ fwd'.active = fwd.active
          /\ fwd'.params = phone.format /\ fwd'.fd = "closed"
      BY <2>1, <3>1 DEF IsForwarder
    <3>3. IsDecoder(decoder') /\ decoder' = NoDecoder
      BY <2>1 DEF Inv, TypeOK, StreamTypeOK, StreamInv, IsDecoder
    <3> QED BY <3>2, <3>3 DEF Right
  <2>2. CASE Forwards(s, u, works)
    BY <2>2, ForwardsRight
  <2> QED BY <1>2, <2>1, <2>2
<1>7. PICK asks \in BOOLEAN : sess' = [sess EXCEPT ![s].asks = asks]
  <2>1. \/ sess' = sess
        \/ \E f : sess' = [sess EXCEPT ![s].asks = Asks(f, u)]
    BY <1>2 DEF Forwards
  <2>2. \A f : Asks(f, u) \in BOOLEAN
    BY DEF Asks
  <2>3. sess' = sess => sess' = [sess EXCEPT ![s].asks = FALSE]
    BY <1>1 DEF Inv, TypeOK, SessTypeOK
  <2> QED BY <2>1, <2>2, <2>3
<1>8. /\ \A t \in Sessions :
           /\ sess'[t].at = sess[t].at /\ sess'[t].started = sess[t].started
           /\ sess'[t].target = sess[t].target
           /\ t # s => sess'[t] = sess[t]
      /\ sess'[s].asks = asks
  BY <1>7 DEF Inv, TypeOK, SessTypeOK
<1>9. SessTypeOK'
  <2>1. sess' \in [Sessions -> [at : {"idle", "ready", "opens", "marks", "runs",
                                    "closes", "unmarks", "closed", "over"},
                              started : BOOLEAN, stop : BOOLEAN,
                              asks : BOOLEAN, target : Sessions \cup {None}]]
    BY <1>7 DEF Inv, TypeOK, SessTypeOK
  <2> QED BY <1>1, <1>8, <2>1 DEF Inv, TypeOK, SessTypeOK
<1>10. SessInv'
  BY <1>1, <1>6, <1>8 DEF Inv, SessInv
<1>11. StreamTypeOK'
  BY <1>4, <1>5, <1>6 DEF StreamTypeOK, IsForwarder, IsDecoder
<1>12. StreamInv'
  BY <1>4, <1>5, <1>6 DEF Right, StreamInv
<1> QED BY <1>1, <1>3, <1>9, <1>10, <1>11, <1>12, ScriptKept DEF Inv, TypeOK

-----------------------------------------------------------------------------
LEMMA InvNext == Inv /\ [Next]_vars => Inv'
<1> SUFFICES ASSUME Inv, [Next]_vars PROVE Inv'
  OBVIOUS
<1>1. CASE UNCHANGED vars
  BY <1>1, StreamKept, SessKept, ScriptKept DEF vars, Inv, TypeOK
<1>2. ASSUME NEW s \in Sessions, Worker(s) PROVE Inv'
  BY <1>2, StartsKeeps, OpensKeeps, MarksKeeps, ClosesKeeps, AsksKeeps,
     ForcesKeeps DEF Worker
<1>3. ASSUME NEW s \in Sessions,
             StreamEnds(s) \/ Decodes(s) \/ StopRequest(s) \/ Cleaned(s)
      PROVE  Inv'
  BY <1>3, ClosesKeeps, DecodesKeeps, CleanupKeeps
<1> QED BY <1>1, <1>2, <1>3, PreparesKeeps, TimeKeeps, DiesKeeps, ControlKeeps
        DEF Next

(* The invariant holds in all behaviors.                                   *)
LEMMA InvHolds == Spec => []Inv
BY InvInit, InvNext, PTL DEF Spec

(* Every variable keeps its type, and a session is marked as started only  *)
(* while its screen is, for any number of sessions (altscreen_worker).     *)
THEOREM TypeCorrect == Spec => []TypeOK
<1>1. Inv => TypeOK
  BY DEF Inv
<1> QED BY <1>1, InvHolds, PTL

(* Whatever reconnects, deaths and failed sends fall between, the decoder  *)
(* gets a key frame after the parameter sets of its format and another     *)
(* picture after a key frame, as long as every unit fitted the buffer      *)
(* (fwd_send_access_unit).                                                 *)
THEOREM DecoderPrimed == Spec => []DecoderIsPrimed
<1>1. Inv => DecoderIsPrimed
  BY DEF Inv, StreamInv, DecoderIsPrimed, NoDecoder
<1> QED BY <1>1, InvHolds, PTL

(* The marker of no session is left behind, however sessions overlap       *)
(* (NvSSVideoClose).                                                       *)
THEOREM MarkersHaveOutputs == Spec => []MarkerHasOutput
<1>1. Inv => MarkerHasOutput
  BY DEF Inv, SessInv, MarkerHasOutput, Busy
<1> QED BY <1>1, InvHolds, PTL

(* AsksTheLiving: a key frame is asked of the session that misses it, while*)
(* it runs, or of one whose output was still being closed when this one    *)
(* was opened.  The receiver of the latter may have been released: that    *)
(* this window is the only one is what is proved, not that it is harmless  *)
(* (altscreen_request_fresh_keyframe).                                     *)
THEOREM AskedLive == Spec => []AsksTheLiving
<1>1. Inv => AsksTheLiving
  BY DEF Inv, SessInv, AsksTheLiving
<1> QED BY <1>1, InvHolds, PTL
=============================================================================
