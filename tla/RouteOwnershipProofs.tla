------------------------ MODULE RouteOwnershipProofs ------------------------
(***************************************************************************)
(* Proofs about RouteOwnership, for any number of stimuli: the types, and  *)
(* that CarPlay never writes to the cluster beside native guidance.        *)
(*                                                                         *)
(* The argument: each thread keeps to its own kind of work (Course); while *)
(* no stop or start meets another thread's work, one thread at a time is   *)
(* at work, and with the guidance the bundle holds (Orderly); while every  *)
(* wait for the dispatcher ends in time too, it has one job at most,       *)
(* nobody else changes the gate of the bridge in use, and what the service *)
(* and that gate are follows from the bridge's flags (Guarded).            *)
(***************************************************************************)
EXTENDS RouteOwnership, SequenceTheorems, TLAPS

-----------------------------------------------------------------------------
(* The invariant.                                                          *)

BusAt   == {"idle", "own", "waits", "set", "enter", "capture", "force", "emit",
            "show", "undo", "down", "ended"}
OtherAt == {"idle", "start", "waits", "run", "started", "stop", "down", "set",
            "enter", "restore", "dispose", "stopped", "added"}

(* What a thread may be about: the bus thread takes the route over and     *)
(* gives it back, the others make bridges and dispose of them.             *)
OnCourse(t, c) ==
  IF t = "bus"
  THEN /\ c.at \in BusAt /\ c.then \in {"idle", "set", "ended"}
       /\ c.at \in {"waits", "set", "enter"} /\ ~c.want
            => c.then \in {"idle", "ended"}
       /\ c.at = "down" => c.then = "ended"
  ELSE /\ c.at \in OtherAt /\ ~c.want
       /\ c.at \in {"down", "set", "enter", "restore"} => c.then = "restore"
       /\ c.at = "waits" => c.then \in {"run", "added", "restore"}
       /\ t = "device" => c.at # "added" /\ (c.at = "waits" => c.then # "added")

(* What a thread waits for is what it is about.                            *)
JobFits(j, c) ==
  /\ j.job = "install" => IF j.by = "bus" THEN c.want /\ c.then = "set"
                          ELSE c.then \in {"run", "added"}
  /\ j.job = "raw"   => j.by # "bus"
  /\ j.job = "block" => c.want
  /\ j.job = "open"  => ~c.want
  /\ j.job # "install" /\ j.by # "bus" => c.then = "restore"

Course ==
  /\ \A t \in Threads : OnCourse(t, call[t])
  /\ \A k \in DOMAIN jobs : jobs[k].by # NoThread
       => JobFits(jobs[k], call[jobs[k].by])

(* A call that is past its check of who else is at work; one on the way of *)
(* a start, under the monitor of CarPlayLifecycle; one that is making the  *)
(* guidance of a service that has come.                                    *)
AtWork(c) == c.at \notin {"idle", "start", "stop", "started"}
Begins(c) == \/ c.at \in {"start", "run", "started"}
             \/ c.at = "waits" /\ c.then = "run"
Adds(c)   == \/ c.at = "added"
             \/ c.at = "waits" /\ c.then = "added"

(* One thread is at work at a time, with the guidance the bundle holds.    *)
Orderly ==
  /\ \A t, u \in Threads : AtWork(call[t]) /\ AtWork(call[u]) => t = u
  /\ \A r \in DOMAIN guide : guide[r].running => r = bundle.guide
  /\ life.guide \in {Nobody, bundle.guide}
  /\ \A t \in Threads : call[t].at # "idle" =>
       IF Adds(call[t]) THEN bundle.guide = Nobody
                        ELSE call[t].guide = bundle.guide
  /\ call["bus"].at # "idle" => guide[call["bus"].guide].running
  /\ call["device"].at # "idle" => life.monitor = "device"
  /\ Begins(call["bundle"]) => life.monitor = "bundle"
  /\ \A t \in {"device", "bundle"} :
       AtWork(call[t]) => ~guide[call[t].guide].running

(* A thread at work with a bridge works with the one of its guidance.      *)
AtOne(c) == c.at \in AtBridge \cup {"added"}

Linked == \A t \in Threads : AtOne(call[t]) =>
            guide[call[t].guide].bap \in {Nobody, call[t].bridge}

(* There is one job at most, and a gate is moved for the bridge it is of.  *)
Queued ==
  /\ Len(jobs) <= 1
  /\ \A k \in DOMAIN jobs :
       LET j == jobs[k]
           own == bridge[call[j.by].bridge]
       IN  /\ j.by # NoThread
           /\ j.job \in {"block", "open"} => own.installed /\ own.gate = j.gate

(* The bridges somebody works with or could be told to work with.          *)
Uses(b) == \/ \E t \in Threads : AtOne(call[t]) /\ call[t].bridge = b
           \/ bundle.guide # Nobody /\ guide[bundle.guide].bap = b

(* The native service and the gate are as the bridge's flags say, but for  *)
(* the time restoreBestEffort has opened the gate and waits.               *)
Restoring  == \E k \in DOMAIN jobs : jobs[k].job = "raw"
Follows(b) == LET own == bridge[b] IN
  own.installed => /\ nav.service = own.gate
                   /\ own.active /\ ~Restoring => own.gate \in nav.closed

GateInv == \A b \in DOMAIN bridge : Uses(b) => Follows(b)

(* Past the gate, the bus thread has closed it.                            *)
PastGate == {"capture", "force", "emit", "show"}

Owning ==
  call["bus"].at \in PastGate =>
    LET own == bridge[call["bus"].bridge] IN own.installed /\ own.active

Guarded == Linked /\ Queued /\ GateInv /\ Owning

Inv == TypeOK /\ Course /\ (~late /\ ~met => Orderly /\ Guarded)

-----------------------------------------------------------------------------
(* Sequences of bridges and guidances.                                     *)

LEMMA SeqUpdated ==
  ASSUME NEW S, NEW s \in Seq(S), NEW i, NEW v, i \in DOMAIN s => v \in S
  PROVE  /\ [s EXCEPT ![i] = v] \in Seq(S)
         /\ Len([s EXCEPT ![i] = v]) = Len(s)
         /\ DOMAIN [s EXCEPT ![i] = v] = DOMAIN s
         /\ \A j \in DOMAIN s : [s EXCEPT ![i] = v][j] = IF j = i THEN v ELSE s[j]
<1>. DEFINE r == [s EXCEPT ![i] = v]
<1>1. /\ Len(s) \in Nat /\ DOMAIN s = 1..Len(s)
      /\ \A j \in DOMAIN s : s[j] \in S
  OBVIOUS
<1>2. /\ r = [j \in 1..Len(s) |-> r[j]] /\ DOMAIN r = 1..Len(s)
      /\ \A j \in DOMAIN s : r[j] = IF j = i THEN v ELSE s[j]
  BY <1>1
<1>3. r \in Seq(S)
  <2>1. r \in [1..Len(s) -> S]
    BY <1>1, <1>2
  <2>. QED  BY <1>1, <2>1, SeqDef
<1>4. Len(r) = Len(s)
  BY <1>1, <1>2, <1>3
<1>. QED  BY <1>1, <1>2, <1>3, <1>4

LEMMA SeqAppended ==
  ASSUME NEW S, NEW s \in Seq(S), NEW v \in S
  PROVE  /\ Append(s, v) \in Seq(S)
         /\ Len(Append(s, v)) = Len(s) + 1
         /\ DOMAIN Append(s, v) = DOMAIN s \cup {Len(s) + 1}
         /\ \A j \in DOMAIN s : Append(s, v)[j] = s[j]
         /\ Append(s, v)[Len(s) + 1] = v
  OBVIOUS

LEMMA Typed ==
  ASSUME TypeOK
  PROVE  /\ Len(bridge) \in Nat /\ DOMAIN bridge = 1..Len(bridge)
         /\ \A b \in 1..Len(bridge) : bridge[b] \in Bridge
         /\ Len(guide) \in Nat /\ DOMAIN guide = 1..Len(guide)
         /\ \A r \in 1..Len(guide) : guide[r] \in Guide
         /\ \A k \in DOMAIN jobs : jobs[k] \in Job
  BY DEF TypeOK, BridgesOK, GuidesOK, JobsOK

-----------------------------------------------------------------------------
(* The types.                                                              *)

LEMMA SoundIdle == ASSUME TypeOK PROVE Sound(Idle)
  BY Typed DEF TypeOK, Sound, Call, Idle, Places, AtBridge, Nobody

(* A thread takes up work with a guidance, and with its bridge if any.     *)
LEMMA SoundWork ==
  ASSUME TypeOK, NEW c \in Call, NEW p \in Places, NEW q \in Places,
         NEW r \in 1..Len(guide), NEW b \in 0..Len(bridge),
         p \in AtBridge => b # Nobody
  PROVE  /\ Sound([c EXCEPT !.at = p, !.guide = r, !.bridge = b])
         /\ Sound([c EXCEPT !.at = p, !.guide = r, !.bridge = b, !.then = q])
         /\ c.guide = r => /\ Sound([c EXCEPT !.at = p, !.bridge = b])
                           /\ Sound([c EXCEPT !.at = p, !.bridge = b, !.then = q])
<1>1. r \in Nat /\ b \in Nat /\ r \in 0..Len(guide) /\ r # Nobody
  BY Typed DEF Nobody
<1>. QED  BY <1>1 DEF Sound, Call

(* A thread at a bridge may go on to any place.                            *)
LEMMA SoundNext ==
  ASSUME NEW c, Sound(c), c.at \in AtBridge, NEW p \in Places
  PROVE  Sound([c EXCEPT !.at = p])
  BY DEF Sound, Call, AtBridge

(* A thread moves; what was made stays.                                    *)
Fits(c, n, k) == /\ c \in Call /\ c.guide \in 0..n /\ c.bridge \in 0..k
                 /\ c.at # "idle" => c.guide # Nobody
                 /\ c.at \in AtBridge => c.bridge # Nobody

LEMMA MovedOn ==
  ASSUME TypeOK, NEW t \in Threads, NEW c,
         Fits(c, Len(guide'), Len(bridge')), call' = [call EXCEPT ![t] = c],
         Len(guide') \in Nat, Len(guide') >= Len(guide),
         Len(bridge') \in Nat, Len(bridge') >= Len(bridge)
  PROVE  CallsOK'
  BY Typed DEF TypeOK, CallsOK, Sound, Fits

LEMMA Moved ==
  ASSUME TypeOK, NEW t \in Threads, NEW c, Sound(c),
         call' = [call EXCEPT ![t] = c],
         Len(guide') = Len(guide), Len(bridge') = Len(bridge)
  PROVE  CallsOK'
<1>1. Fits(c, Len(guide'), Len(bridge'))
  BY DEF Sound, Fits
<1>2. Len(guide) \in Nat /\ Len(bridge) \in Nat
  BY Typed
<1>3. /\ Len(guide') \in Nat /\ Len(guide') >= Len(guide)
      /\ Len(bridge') \in Nat /\ Len(bridge') >= Len(bridge)
  BY <1>2
<1>. QED  BY <1>1, <1>3, MovedOn

(* One bridge changes at most.                                             *)
SoundBridge(v) == v \in Bridge /\ (v.installed => v.gate # Nobody)

LEMMA BridgeSet ==
  ASSUME TypeOK, NEW b, NEW v, SoundBridge(v),
         bridge' \in {bridge, [bridge EXCEPT ![b] = v]}
  PROVE  BridgesOK' /\ Len(bridge') = Len(bridge)
<1>1. /\ [bridge EXCEPT ![b] = v] \in Seq(Bridge)
      /\ Len([bridge EXCEPT ![b] = v]) = Len(bridge)
      /\ DOMAIN [bridge EXCEPT ![b] = v] = DOMAIN bridge
      /\ \A j \in DOMAIN bridge : [bridge EXCEPT ![b] = v][j]
                                    = IF j = b THEN v ELSE bridge[j]
  BY SeqUpdated DEF TypeOK, BridgesOK, SoundBridge
<1>. QED  BY <1>1 DEF TypeOK, BridgesOK, SoundBridge

LEMMA BridgeIsSound ==
  ASSUME TypeOK, NEW b \in 1..Len(bridge)
  PROVE  SoundBridge(bridge[b])
  BY Typed DEF TypeOK, BridgesOK, SoundBridge

(* One guidance changes at most.                                           *)
LEMMA GuideSet ==
  ASSUME TypeOK, NEW r, NEW v \in Guide, v.bap \in 0..Len(bridge),
         guide' \in {guide, [guide EXCEPT ![r] = v]},
         Len(bridge') = Len(bridge)
  PROVE  GuidesOK' /\ Len(guide') = Len(guide)
<1>1. /\ [guide EXCEPT ![r] = v] \in Seq(Guide)
      /\ Len([guide EXCEPT ![r] = v]) = Len(guide)
      /\ DOMAIN [guide EXCEPT ![r] = v] = DOMAIN guide
      /\ \A j \in DOMAIN guide : [guide EXCEPT ![r] = v][j]
                                    = IF j = r THEN v ELSE guide[j]
  BY SeqUpdated DEF TypeOK, GuidesOK
<1>. QED  BY <1>1 DEF TypeOK, GuidesOK

(* A thread that does not wait may queue a job and wait for it.            *)
LEMMA JobsSet ==
  ASSUME TypeOK, NEW t \in Threads, call[t].at # "waits",
         NEW c, call' = [call EXCEPT ![t] = c],
         \/ jobs' = jobs
         \/ /\ c.at = "waits"
            /\ \E j \in Job : j.by = t /\ jobs' = Append(jobs, j)
  PROVE  JobsOK'
<1>1. /\ jobs \in Seq(Job) /\ Len(jobs) \in Nat /\ DOMAIN jobs = 1..Len(jobs)
      /\ \A k \in DOMAIN jobs : jobs[k] \in Job /\ jobs[k].by # t
  BY DEF TypeOK, JobsOK, Threads, NoThread
<1>2. /\ call'[t] = c
      /\ \A u \in Threads \ {t} : call'[u] = call[u]
  BY DEF TypeOK, CallsOK
<1>3. CASE jobs' = jobs
  <2>1. ASSUME NEW k \in DOMAIN jobs, jobs[k].by # NoThread
        PROVE  call'[jobs[k].by] = call[jobs[k].by]
    BY <1>1, <1>2, <2>1 DEF Job
  <2>. QED  BY <1>3, <2>1 DEF TypeOK, JobsOK
<1>4. ASSUME NEW j \in Job, j.by = t, jobs' = Append(jobs, j), c.at = "waits"
      PROVE  JobsOK'
  <2>1. /\ jobs' \in Seq(Job) /\ DOMAIN jobs' = DOMAIN jobs \cup {Len(jobs) + 1}
        /\ \A k \in DOMAIN jobs : jobs'[k] = jobs[k]
        /\ jobs'[Len(jobs) + 1] = j
    <3>1. jobs \in Seq(Job) /\ j \in Job /\ jobs' = Append(jobs, j)
      BY <1>1, <1>4
    <3>2. /\ Append(jobs, j) \in Seq(Job)
          /\ DOMAIN Append(jobs, j) = DOMAIN jobs \cup {Len(jobs) + 1}
          /\ \A k \in DOMAIN jobs : Append(jobs, j)[k] = jobs[k]
          /\ Append(jobs, j)[Len(jobs) + 1] = j
      BY <3>1, SeqAppended
    <3>. QED  BY <3>1, <3>2
  <2>2. ASSUME NEW k \in DOMAIN jobs, jobs[k].by # NoThread
        PROVE  call'[jobs[k].by] = call[jobs[k].by]
    BY <1>1, <1>2, <2>2 DEF Job
  <2>3. ASSUME NEW k \in DOMAIN jobs', jobs'[k].by # NoThread
        PROVE  /\ call'[jobs'[k].by].at = "waits"
               /\ \A i \in DOMAIN jobs' : jobs'[i].by = jobs'[k].by => i = k
    <3>1. CASE k \in DOMAIN jobs
      <4>1. jobs'[k] = jobs[k] /\ jobs[k].by # NoThread /\ jobs[k].by # t
        BY <1>1, <2>1, <2>3, <3>1
      <4>2. call'[jobs[k].by].at = "waits"
        BY <2>2, <3>1, <4>1 DEF TypeOK, JobsOK
      <4>3. \A i \in DOMAIN jobs : jobs[i].by = jobs[k].by => i = k
        BY <3>1, <4>1 DEF TypeOK, JobsOK
      <4>4. \A i \in DOMAIN jobs' : jobs'[i].by = jobs'[k].by => i = k
        BY <1>4, <2>1, <4>1, <4>3
      <4>. QED  BY <4>1, <4>2, <4>4
    <3>2. CASE k = Len(jobs) + 1
      BY <1>1, <1>2, <1>4, <2>1, <2>3, <3>2
    <3>. QED  BY <2>1, <3>1, <3>2
  <2>. QED  BY <2>1, <2>3 DEF JobsOK
<1>. QED  BY <1>3, <1>4

(* A job that is done goes, and its thread may wait for the next.          *)
LEMMA JobDone ==
  ASSUME TypeOK, jobs # <<>>
  PROVE  /\ Head(jobs) \in Job /\ Tail(jobs) \in Seq(Job)
         /\ Head(jobs).by # NoThread =>
              /\ Head(jobs).by \in Threads /\ call[Head(jobs).by].at = "waits"
              /\ \A k \in DOMAIN Tail(jobs) : Tail(jobs)[k].by # Head(jobs).by
         /\ \A k \in DOMAIN Tail(jobs) : Tail(jobs)[k].by # NoThread =>
              /\ call[Tail(jobs)[k].by].at = "waits"
              /\ \A j \in DOMAIN Tail(jobs) : Tail(jobs)[j].by = Tail(jobs)[k].by
                                               => j = k
<1>1. /\ jobs \in Seq(Job) /\ Len(jobs) \in Nat \ {0}
      /\ DOMAIN jobs = 1..Len(jobs)
      /\ \A k \in DOMAIN jobs : jobs[k] \in Job
  BY DEF TypeOK, JobsOK
<1>2. /\ Head(jobs) = jobs[1] /\ Tail(jobs) \in Seq(Job)
      /\ DOMAIN Tail(jobs) = 1..(Len(jobs) - 1)
      /\ \A k \in DOMAIN Tail(jobs) : Tail(jobs)[k] = jobs[k + 1]
  BY <1>1
<1>3. \A k \in DOMAIN Tail(jobs) : k + 1 \in DOMAIN jobs /\ k + 1 # 1
  BY <1>1, <1>2
<1>4. Head(jobs).by # NoThread =>
              /\ Head(jobs).by \in Threads /\ call[Head(jobs).by].at = "waits"
              /\ \A k \in DOMAIN Tail(jobs) : Tail(jobs)[k].by # Head(jobs).by
  BY <1>1, <1>2, <1>3 DEF TypeOK, JobsOK, Job
<1>5. ASSUME NEW k \in DOMAIN Tail(jobs), Tail(jobs)[k].by # NoThread
      PROVE  /\ call[Tail(jobs)[k].by].at = "waits"
             /\ \A j \in DOMAIN Tail(jobs) : Tail(jobs)[j].by = Tail(jobs)[k].by
                                               => j = k
  BY <1>1, <1>2, <1>3, <1>5 DEF TypeOK, JobsOK
<1>. QED  BY <1>1, <1>2, <1>4, <1>5

(* The caller of a job that was queued.                                    *)
LEMMA CallWaits ==
  ASSUME NEW c, Sound(c), c.guide # Nobody, c.bridge # Nobody, NEW g \in Gates
  PROVE  Sound([c EXCEPT !.at = "waits", !.gate = g])
  BY DEF Sound, Call, AtBridge, Places

LEMMA ReadsTyped ==
  ASSUME TypeOK, NEW t \in Threads, ReadsOwnership(t)
  PROVE  TypeOK'
<1>1. Sound(call[t]) /\ call[t].at = "set" /\ call[t].then \in Places
  BY DEF TypeOK, CallsOK, ReadsOwnership, Sound, Call
<1>2. /\ Sound(Idle) /\ Sound([call[t] EXCEPT !.at = "enter"])
      /\ Sound([call[t] EXCEPT !.at = call[t].then])
  BY <1>1, SoundIdle, SoundNext DEF Places, AtBridge
<1>3. PICK c : Sound(c) /\ call' = [call EXCEPT ![t] = c]
  BY <1>2 DEF ReadsOwnership
<1>4. UNCHANGED <<nav, jobs, bridge, guide, listener, life, bundle, made,
                  late, met, stimuli>>
  BY DEF ReadsOwnership
<1>5. CallsOK' /\ JobsOK'
  BY <1>1, <1>3, <1>4, Moved, JobsSet
<1>. QED  BY <1>4, <1>5 DEF TypeOK, BridgesOK, GuidesOK, OthersOK

LEMMA SetsTyped ==
  ASSUME TypeOK, NEW t \in Threads, SetsRoute(t)
  PROVE  TypeOK'
<1>. DEFINE b == call[t].bridge
            g == IF bridge[b].installed THEN bridge[b].gate ELSE made + 1
            J == [job : {"again", "block", "open"}, gate : {g}, by : {t}]
<1>1. /\ Sound(call[t]) /\ call[t].at = "enter" /\ call[t].then \in Places
      /\ call[t].guide # Nobody /\ b # Nobody /\ b \in 1..Len(bridge)
  BY Typed DEF TypeOK, CallsOK, SetsRoute, Sound, Call, AtBridge, Nobody
<1>2. SoundBridge(bridge[b]) /\ g \in Gates
  BY <1>1, BridgeIsSound
     DEF TypeOK, OthersOK, SoundBridge, Bridge, Gates, Nobody
<1>3. /\ Sound([call[t] EXCEPT !.at = "waits", !.gate = g])
      /\ Sound(Idle) /\ Sound([call[t] EXCEPT !.at = AfterSet(call[t])])
  BY <1>1, <1>2, SoundIdle, SoundNext, CallWaits DEF AfterSet, Places, AtBridge
<1>4. PICK c : /\ Sound(c) /\ call' = [call EXCEPT ![t] = c]
               /\ \/ jobs' = jobs
                  \/ c.at = "waits" /\ \E j \in J : jobs' = Append(jobs, j)
  <2>. DEFINE w == [call[t] EXCEPT !.at = "waits", !.gate = g]
  <2>1. w.at = "waits"
    BY <1>1 DEF Sound, Call
  <2>2. \A j \in {"again", "block", "open"} :
           [job |-> j, gate |-> g, by |-> t] \in J
    OBVIOUS
  <2>3. CASE \E j \in {"again", "block", "open"} : Dispatches(t, call[t], j, g)
    <3>1. PICK j \in {"again", "block", "open"} :
             /\ jobs' = Append(jobs, [job |-> j, gate |-> g, by |-> t])
             /\ call' = [call EXCEPT ![t] = w]
      BY <2>3 DEF Dispatches
    <3>2. \E i \in J : jobs' = Append(jobs, i)
      BY <2>2, <3>1, Zenon
    <3>. QED  BY <1>3, <2>1, <3>1, <3>2
  <2>4. CASE UNCHANGED jobs /\ call' = [call EXCEPT ![t] =
                        IF call[t].want /\ ~bridge[b].installed THEN Idle
                        ELSE [call[t] EXCEPT !.at = AfterSet(call[t])]]
    BY <1>3, <2>4
  <2>. QED  BY <2>3, <2>4 DEF SetsRoute
<1>5. SoundBridge([bridge[b] EXCEPT !.monitor = t])
  BY <1>2 DEF SoundBridge, Bridge
<1>6. bridge' \in {bridge, [bridge EXCEPT ![b] = [bridge[b] EXCEPT !.monitor = t]]}
  BY DEF SetsRoute
<1>7. BridgesOK' /\ Len(bridge') = Len(bridge)
  BY <1>5, <1>6, BridgeSet
<1>8. \A j \in J : j \in Job /\ j.by = t
  BY <1>2 DEF Job
<1>9. made' \in Nat
  BY DEF SetsRoute, TypeOK, OthersOK
<1>10. UNCHANGED <<nav, guide, listener, life, bundle, late, met, stimuli>>
  BY DEF SetsRoute
<1>11. CallsOK' /\ JobsOK'
  BY <1>1, <1>4, <1>7, <1>8, <1>10, Moved, JobsSet
<1>. QED  BY <1>7, <1>9, <1>10, <1>11 DEF TypeOK, GuidesOK, OthersOK

(* A step of a thread that is not waiting, and queues nothing.             *)
LEMMA PlainMove ==
  ASSUME TypeOK, NEW t \in Threads, call[t].at # "waits", NEW c, Sound(c),
         call' = [call EXCEPT ![t] = c], UNCHANGED jobs,
         Len(guide') = Len(guide), Len(bridge') = Len(bridge)
  PROVE  CallsOK' /\ JobsOK'
  BY Moved, JobsSet

LEMMA NewBridgeTyped ==
  ASSUME TypeOK, NEW t \in Threads, call[t].at # "waits",
         NEW c \in Call, c.guide # Nobody, c.guide \in 0..Len(guide'),
         Len(guide') \in Nat, Len(guide') >= Len(guide), NewBridge(t, c)
  PROVE  /\ BridgesOK' /\ CallsOK' /\ JobsOK' /\ made' \in Nat
         /\ Len(bridge') = Len(bridge) + 1
<1>. DEFINE n    == Len(bridge) + 1
            next == [c EXCEPT !.bridge = n]
            bs   == Append(bridge, Fresh)
            own  == [Fresh EXCEPT !.cluster = TRUE, !.owned = TRUE,
                       !.installed = FALSE, !.active = FALSE, !.monitor = t]
            w    == [next EXCEPT !.at = "waits", !.gate = made + 1]
            p    == [next EXCEPT !.at = c.then]
            job  == [job |-> "install", gate |-> made + 1, by |-> t]
<1>1. /\ Len(bridge) \in Nat /\ made \in Nat /\ n # Nobody /\ n \in 1..n
      /\ bridge \in Seq(Bridge) /\ DOMAIN bridge = 1..Len(bridge)
  BY Typed DEF TypeOK, BridgesOK, OthersOK, Nobody
<1>2. SoundBridge(Fresh) /\ SoundBridge(own)
  BY DEF Fresh, SoundBridge, Bridge, Threads, NoThread, Views, Gates
<1>3. /\ bs \in Seq(Bridge) /\ Len(bs) = n /\ DOMAIN bs = 1..n
      /\ \A b \in 1..Len(bridge) : bs[b] = bridge[b]
      /\ bs[n] = Fresh
  BY <1>1, <1>2, SeqAppended DEF SoundBridge
<1>4. \A b \in 1..n : SoundBridge(bs[b])
  BY <1>1, <1>2, <1>3, BridgeIsSound
<1>5. /\ w \in Call /\ w.at = "waits" /\ w.guide = c.guide /\ w.bridge = n
      /\ p \in Call /\ p.guide = c.guide /\ p.bridge = n
      /\ job \in Job /\ job.by = t
  <2>1. made + 1 \in Gates /\ n \in Nat
    BY <1>1 DEF Gates
  <2>2. next \in Call /\ next.guide = c.guide /\ next.bridge = n /\ c.then \in Places
    BY <2>1 DEF Call
  <2>3. w \in Call /\ w.at = "waits" /\ w.guide = c.guide /\ w.bridge = n
    BY <2>1, <2>2 DEF Call, Places, AtBridge
  <2>4. p \in Call /\ p.guide = c.guide /\ p.bridge = n
    BY <2>2 DEF Call
  <2>. QED  BY <2>1, <2>3, <2>4 DEF Job
<1>6. CASE nav.ready
  <2>0. Accesses(t, next, bs)
    BY <1>6 DEF NewBridge
  <2>1. /\ made' = made + 1 /\ jobs' = Append(jobs, job)
        /\ call' = [call EXCEPT ![t] = w]
        /\ bridge' = [bs EXCEPT ![n] = own]
    <3>1. next.bridge = n
      BY DEF Call
    <3>. QED  BY <1>3, <2>0, <3>1 DEF Accesses, Dispatches
  <2>2. /\ bridge' \in Seq(Bridge) /\ Len(bridge') = n /\ DOMAIN bridge' = 1..n
        /\ \A b \in 1..n : bridge'[b] = IF b = n THEN own ELSE bs[b]
    BY <1>2, <1>3, <2>1, SeqUpdated DEF SoundBridge
  <2>3. BridgesOK'
    BY <1>2, <1>4, <2>2 DEF BridgesOK, SoundBridge
  <2>4. Fits(w, Len(guide'), Len(bridge'))
    BY <1>1, <1>5, <2>2 DEF Fits
  <2>5. CallsOK'
    <3>1. Len(bridge') \in Nat /\ Len(bridge') >= Len(bridge)
      BY <1>1, <2>2
    <3>. QED  BY <2>1, <2>4, <3>1, MovedOn
  <2>6. JobsOK'
    BY <1>5, <2>1, JobsSet
  <2>. QED  BY <1>1, <2>1, <2>2, <2>3, <2>5, <2>6
<1>7. CASE ~nav.ready
  <2>1. bridge' = bs /\ call' = [call EXCEPT ![t] = p] /\ UNCHANGED <<jobs, made>>
    BY <1>7 DEF NewBridge
  <2>2. BridgesOK'
    BY <1>3, <1>4, <2>1 DEF BridgesOK, SoundBridge
  <2>3. Fits(p, Len(guide'), Len(bridge'))
    BY <1>1, <1>3, <1>5, <2>1 DEF Fits
  <2>4. CallsOK'
    <3>1. Len(bridge') \in Nat /\ Len(bridge') >= Len(bridge)
      BY <1>1, <1>3, <2>1
    <3>. QED  BY <2>1, <2>3, <3>1, MovedOn
  <2>5. JobsOK'
    BY <2>1, JobsSet
  <2>. QED  BY <1>1, <1>3, <2>1, <2>2, <2>4, <2>5
<1>. QED  BY <1>6, <1>7

-----------------------------------------------------------------------------
(* Each action keeps the types.                                            *)

LEMMA NavigationTyped ==
  ASSUME TypeOK, NavigationComesUp
  PROVE  TypeOK'
<1>1. nav' \in Nav
  BY DEF NavigationComesUp, TypeOK, OthersOK, Nav
<1>. QED  BY <1>1 DEF NavigationComesUp, TypeOK, CallsOK, Sound, BridgesOK,
                      GuidesOK, JobsOK, OthersOK

(* A stimulus from outside, or the end of a call.                          *)
LEMMA OnlyMoves ==
  ASSUME TypeOK, NEW t \in Threads, call[t].at # "waits", NEW c, Sound(c),
         call' = [call EXCEPT ![t] = c],
         UNCHANGED <<nav, jobs, bridge, guide, listener, made, late>>,
         life' \in Life, bundle' \in [guide : Nat, stopping : BOOLEAN],
         {life'.guide, bundle'.guide} \subseteq 0..Len(guide),
         met' \in BOOLEAN, stimuli' \in 0..MaxStimuli
  PROVE  TypeOK'
<1>1. CallsOK' /\ JobsOK'
  BY PlainMove
<1>. QED  BY <1>1 DEF TypeOK, BridgesOK, GuidesOK, OthersOK

LEMMA StimulusTyped ==
  ASSUME TypeOK, Stimulus
  PROVE  stimuli' \in 0..MaxStimuli
  BY OwnershipAssumption DEF Stimulus, TypeOK, OthersOK

LEMMA FrameTyped ==
  ASSUME TypeOK, FrameStarts \/ FrameEnds
  PROVE  TypeOK'
<1>1. /\ listener \in 1..Len(guide) /\ call["bus"].at = "idle"
      /\ "bus" \in Threads /\ stimuli' \in 0..MaxStimuli
      /\ guide[listener].bap \in 0..Len(bridge)
      /\ UNCHANGED <<nav, jobs, bridge, guide, listener, life, bundle, made,
                     late, met>>
  BY Typed, StimulusTyped
     DEF FrameStarts, FrameEnds, TypeOK, OthersOK, GuidesOK, Nobody, Threads
<1>2. PICK c : Sound(c) /\ call' = [call EXCEPT !["bus"] = c]
  <2>. DEFINE r == listener
              b == guide[r].bap
  <2>1. CASE FrameStarts
    <3>1. b # Nobody /\ "own" \in Places
      BY <2>1 DEF FrameStarts, Places, AtBridge
    <3>2. Sound([Idle EXCEPT !.at = "own", !.guide = r, !.bridge = b])
      BY <1>1, <3>1, SoundWork, SoundIdle DEF Sound
    <3>. QED  BY <2>1, <3>2 DEF FrameStarts
  <2>2. CASE FrameEnds
    <3>. DEFINE p == IF b = Nobody THEN "ended" ELSE "down"
    <3>1. p \in Places /\ "ended" \in Places /\ (p \in AtBridge => b # Nobody)
      BY DEF Places, AtBridge
    <3>2. Sound([Idle EXCEPT !.at = p, !.guide = r, !.bridge = b, !.then = "ended"])
      <4>. HIDE DEF p
      <4>. QED  BY ZenonT(40), <1>1, <3>1, SoundWork, SoundIdle DEF Sound
    <3>. QED  BY <2>2, <3>2 DEF FrameEnds
  <2>. QED  BY <2>1, <2>2
<1>4. /\ life' \in Life /\ bundle' \in [guide : Nat, stopping : BOOLEAN]
      /\ {life'.guide, bundle'.guide} \subseteq 0..Len(guide) /\ met' \in BOOLEAN
  BY <1>1 DEF TypeOK, OthersOK
<1>. QED  BY <1>1, <1>2, <1>4, OnlyMoves

LEMMA FrameEndedTyped ==
  ASSUME TypeOK, FrameEnded
  PROVE  TypeOK'
<1>. DEFINE r == call["bus"].guide
<1>1. /\ r \in 1..Len(guide) /\ call["bus"].at = "ended" /\ "bus" \in Threads
      /\ UNCHANGED <<nav, jobs, bridge, listener, life, bundle, made, late,
                     met, stimuli>>
      /\ call' = [call EXCEPT !["bus"] = Idle]
      /\ guide' = [guide EXCEPT ![r] = [guide[r] EXCEPT !.active = FALSE]]
  BY DEF FrameEnded, TypeOK, CallsOK, Sound, Threads, Nobody
<1>2. /\ [guide[r] EXCEPT !.active = FALSE] \in Guide
      /\ [guide[r] EXCEPT !.active = FALSE].bap \in 0..Len(bridge)
  BY <1>1, Typed DEF Guide, TypeOK, GuidesOK
<1>3. GuidesOK' /\ Len(guide') = Len(guide)
  BY <1>1, <1>2, GuideSet
<1>4. CallsOK' /\ JobsOK'
  BY <1>1, <1>3, SoundIdle, PlainMove
<1>. QED  BY <1>1, <1>3, <1>4 DEF TypeOK, BridgesOK, OthersOK

LEMMA RunsTyped ==
  ASSUME TypeOK, NEW t \in Threads, Runs(t)
  PROVE  TypeOK'
<1>. DEFINE c == call[t]
            v == [running |-> TRUE, active |-> FALSE, bap |-> c.bridge]
<1>1. /\ Sound(c) /\ c.guide \in 1..Len(guide) /\ c.at = "run"
      /\ UNCHANGED <<nav, jobs, bridge, life, bundle, made, late, met, stimuli>>
      /\ call' = [call EXCEPT ![t] = [c EXCEPT !.at = "started"]]
      /\ guide' = [guide EXCEPT ![c.guide] = v] /\ listener' = c.guide
  BY DEF Runs, TypeOK, CallsOK, Sound, Nobody
<1>2. v \in Guide /\ v.bap \in 0..Len(bridge)
  BY <1>1 DEF Guide, Sound, Call
<1>3. GuidesOK' /\ Len(guide') = Len(guide)
  BY <1>1, <1>2, GuideSet
<1>4. Sound([c EXCEPT !.at = "started"])
  BY <1>1, SoundNext DEF Places, AtBridge
<1>5. CallsOK' /\ JobsOK'
  BY <1>1, <1>3, <1>4, PlainMove
<1>. QED  BY <1>1, <1>3, <1>5, Typed DEF TypeOK, BridgesOK, OthersOK

LEMMA StopsTyped ==
  ASSUME TypeOK, NEW t \in Threads, Stops(t)
  PROVE  TypeOK'
<1>. DEFINE c == call[t]
            r == c.guide
            b == guide[r].bap
            v == [guide[r] EXCEPT !.running = FALSE, !.active = FALSE]
<1>1. /\ Sound(c) /\ r \in 1..Len(guide) /\ c.at = "stop"
      /\ UNCHANGED <<nav, jobs, bridge, life, bundle, made, late, stimuli>>
      /\ guide' \in {guide, [guide EXCEPT ![r] = v]}
      /\ listener' \in {listener, Nobody} /\ met' \in BOOLEAN
  <2>1. Sound(c) /\ c.at = "stop" /\ met \in BOOLEAN
    BY DEF Stops, TypeOK, CallsOK, OthersOK
  <2>2. r \in 1..Len(guide)
    BY <2>1 DEF Sound, Nobody
  <2>3. /\ guide' \in {guide, [guide EXCEPT ![r] = v]}
        /\ listener' \in {listener, Nobody}
    BY DEF Stops
  <2>. QED  BY <2>1, <2>2, <2>3 DEF Stops
<1>2. v \in Guide /\ v.bap \in 0..Len(bridge) /\ b \in 0..Len(bridge)
  BY <1>1, Typed DEF Guide, TypeOK, GuidesOK
<1>3. GuidesOK' /\ Len(guide') = Len(guide)
  BY <1>1, <1>2, GuideSet
<1>4. PICK d : Sound(d) /\ call' = [call EXCEPT ![t] = d]
  <2>. DEFINE p == IF b = Nobody THEN "stopped" ELSE "down"
  <2>1. p \in Places /\ "restore" \in Places /\ (p \in AtBridge => b # Nobody)
    BY DEF Places, AtBridge
  <2>2. Sound([c EXCEPT !.at = "stopped"])
    BY <1>1 DEF Sound, Call, Places, AtBridge, Nobody
  <2>3. Sound([c EXCEPT !.at = p, !.bridge = b, !.then = "restore"])
    <3>1. c \in Call
      BY <1>1 DEF Sound
    <3>. HIDE DEF p, b, r, c
    <3>2. c.guide = r => Sound([c EXCEPT !.at = p, !.bridge = b, !.then = "restore"])
      BY <1>1, <1>2, <2>1, <3>1, SoundWork
    <3>. QED  BY <3>2 DEF r
  <2>. QED  BY <2>2, <2>3 DEF Stops
<1>6. CallsOK' /\ JobsOK'
  BY <1>1, <1>3, <1>4, PlainMove
<1>7. listener' \in 0..Len(guide')
  BY <1>1, <1>3, Typed DEF TypeOK, OthersOK, Nobody
<1>. QED  BY <1>1, <1>3, <1>6, <1>7 DEF TypeOK, BridgesOK, OthersOK

LEMMA StartsTyped ==
  ASSUME TypeOK, NEW t \in Threads, Starts(t)
  PROVE  TypeOK'
<1>. DEFINE c == call[t]
            r == c.guide
<1>1. /\ Sound(c) /\ r \in 1..Len(guide) /\ c.at = "start" /\ r # Nobody
      /\ UNCHANGED <<nav, guide, listener, life, bundle, late, stimuli>>
      /\ met' \in BOOLEAN /\ guide[r].bap \in 0..Len(bridge)
  BY Typed DEF Starts, TypeOK, CallsOK, OthersOK, GuidesOK, Sound, Nobody
<1>2. CASE NewBridge(t, [c EXCEPT !.then = "run"])
  <2>1. /\ [c EXCEPT !.then = "run"] \in Call
        /\ [c EXCEPT !.then = "run"].guide = r
    BY <1>1 DEF Sound, Call, Places, AtBridge
  <2>2. /\ BridgesOK' /\ CallsOK' /\ JobsOK' /\ made' \in Nat
        /\ Len(bridge') = Len(bridge) + 1
    <3>1. Len(guide') \in Nat /\ Len(guide') >= Len(guide) /\ r \in 0..Len(guide')
      BY <1>1, Typed
    <3>. QED  BY <1>1, <1>2, <2>1, <3>1, NewBridgeTyped
  <2>3. GuidesOK'
    BY <1>1, <2>2, Typed DEF TypeOK, GuidesOK
  <2>. QED  BY <1>1, <2>2, <2>3 DEF TypeOK, OthersOK
<1>3. CASE /\ UNCHANGED <<jobs, bridge, made>>
           /\ guide[r].running \/ guide[r].bap # Nobody
  <2>. DEFINE b == guide[r].bap
  <2>1. /\ Sound([c EXCEPT !.at = "started"]) /\ "run" \in Places
    BY <1>1 DEF Sound, Call, Places, AtBridge, Nobody
  <2>2. PICK d : Sound(d) /\ call' = [call EXCEPT ![t] = d]
    <3>1. b # Nobody => Sound([c EXCEPT !.at = "run", !.bridge = b])
      BY ZenonT(40), <1>1, <2>1, SoundWork DEF Sound
    <3>2. CASE guide[r].running
      BY <2>1, <3>2 DEF Starts
    <3>3. CASE ~guide[r].running /\ b # Nobody
      BY <3>1, <3>3 DEF Starts
    <3>. QED  BY <1>3, <3>2, <3>3
  <2>3. CallsOK' /\ JobsOK'
    BY <1>1, <1>3, <2>2, PlainMove
  <2>. QED  BY <1>1, <1>3, <2>3 DEF TypeOK, BridgesOK, GuidesOK, OthersOK
<1>. QED  BY <1>2, <1>3 DEF Starts

LEMMA FindsTyped ==
  ASSUME TypeOK, FindsGate
  PROVE  TypeOK'
<1>. DEFINE d == call["bus"]
            b == d.bridge
            c == [d EXCEPT !.want = TRUE, !.then = "set"]
            own == [bridge[b] EXCEPT !.cluster = TRUE, !.owned = TRUE,
                       !.installed = FALSE, !.active = FALSE, !.monitor = "bus"]
            w == [c EXCEPT !.at = "waits", !.gate = made + 1]
            job == [job |-> "install", gate |-> made + 1, by |-> "bus"]
<1>1. /\ Sound(d) /\ b # Nobody /\ d.guide # Nobody /\ d.at = "own"
      /\ b \in 1..Len(bridge) /\ "bus" \in Threads /\ made + 1 \in Gates
      /\ made' \in Nat
      /\ UNCHANGED <<nav, guide, listener, life, bundle, late, met, stimuli>>
  BY Typed DEF FindsGate, Accesses, TypeOK, CallsOK, OthersOK, Sound, Threads,
               AtBridge, Nobody, Gates
<1>2. Sound(c) /\ c.guide # Nobody /\ c.bridge = b /\ c.bridge # Nobody
  BY <1>1 DEF Sound, Call, Places, AtBridge
<1>3. CASE Accesses("bus", c, bridge)
  <2>1. /\ jobs' = Append(jobs, job) /\ call' = [call EXCEPT !["bus"] = w]
        /\ bridge' = [bridge EXCEPT ![b] = own]
    BY <1>2, <1>3 DEF Accesses, Dispatches
  <2>2. Sound(w) /\ w.at = "waits" /\ job \in Job /\ job.by = "bus"
    BY <1>1, <1>2, CallWaits DEF Job, Sound, Call
  <2>3. SoundBridge(own)
    <3>1. bridge[b] \in Bridge
      BY <1>1, Typed
    <3>2. own \in Bridge /\ own.installed = FALSE
      BY <3>1 DEF Bridge, Threads
    <3>. QED  BY <3>2 DEF SoundBridge
  <2>4. BridgesOK' /\ Len(bridge') = Len(bridge)
    BY <2>1, <2>3, BridgeSet
  <2>5. CallsOK' /\ JobsOK'
    BY <1>1, <2>1, <2>2, <2>4, Moved, JobsSet
  <2>. QED  BY <1>1, <2>4, <2>5 DEF TypeOK, GuidesOK, OthersOK
<1>4. CASE UNCHANGED <<jobs, bridge, made>>
  <2>1. PICK e : Sound(e) /\ call' = [call EXCEPT !["bus"] = e]
    <3>1. c.at \in AtBridge /\ "set" \in Places
      BY <1>1 DEF Sound, Call, Places, AtBridge
    <3>2. Sound([c EXCEPT !.at = "set"]) /\ Sound(Idle)
      BY <1>2, <3>1, SoundIdle, SoundNext
    <3>3. ~Accesses("bus", c, bridge)
      BY <1>4 DEF Accesses, TypeOK, OthersOK
    <3>. QED  BY <3>2, <3>3 DEF FindsGate
  <2>2. CallsOK' /\ JobsOK'
    BY <1>1, <1>4, <2>1, PlainMove
  <2>. QED  BY <1>1, <1>4, <2>2 DEF TypeOK, BridgesOK, GuidesOK, OthersOK
<1>. QED  BY <1>3, <1>4 DEF FindsGate

LEMMA GoesTyped ==
  ASSUME TypeOK, NEW t \in Threads, GoesDown(t)
  PROVE  TypeOK'
<1>. DEFINE c == call[t]
            b == c.bridge
            own == bridge[b]
            v == [own EXCEPT !.forced = own.forced /\ ~own.cluster,
                             !.captured = FALSE]
<1>1. /\ Sound(c) /\ c.at \in {"undo", "down"} /\ b \in 1..Len(bridge)
      /\ UNCHANGED <<jobs, guide, listener, life, bundle, made, late, met,
                     stimuli>>
  BY DEF GoesDown, TypeOK, CallsOK, Sound, AtBridge, Nobody
<1>2. SoundBridge(own) /\ SoundBridge(v)
  <2>1. own \in Bridge /\ SoundBridge(own)
    BY <1>1, Typed, BridgeIsSound
  <2>2. v \in Bridge /\ v.installed = own.installed /\ v.gate = own.gate
    BY <2>1 DEF Bridge
  <2>. QED  BY <2>1, <2>2 DEF SoundBridge
<1>3. bridge' \in {bridge, [bridge EXCEPT ![b] = v]}
  BY DEF GoesDown, TakesOverlayOff
<1>4. BridgesOK' /\ Len(bridge') = Len(bridge)
  BY <1>2, <1>3, BridgeSet
<1>5. nav' \in Nav
  <2>1. nav \in Nav /\ own \in Bridge
    BY <1>2 DEF TypeOK, OthersOK, SoundBridge
  <2>. QED  BY <2>1 DEF GoesDown, TakesOverlayOff, Nav, Bridge
<1>6. PICK d : Sound(d) /\ call' = [call EXCEPT ![t] = d]
  <2>. DEFINE q == IF c.at = "undo" THEN "idle" ELSE c.then
  <2>1. /\ Sound([c EXCEPT !.at = c.then])
        /\ Sound([c EXCEPT !.at = "set", !.want = FALSE, !.then = q])
    BY <1>1 DEF Sound, Call, Places, AtBridge, Nobody
  <2>. QED  BY <2>1 DEF GoesDown
<1>7. CallsOK' /\ JobsOK'
  BY <1>1, <1>4, <1>6, PlainMove
<1>. QED  BY <1>1, <1>4, <1>5, <1>7 DEF TypeOK, GuidesOK, OthersOK

LEMMA TakesTyped ==
  ASSUME TypeOK, TakesOver
  PROVE  TypeOK'
<1>. DEFINE c == call["bus"]
            b == c.bridge
            r == c.guide
            own == bridge[b]
            seen == [own EXCEPT !.captured = TRUE, !.view = nav.view]
            forced == [own EXCEPT !.forced = TRUE,
                         !.saved = IF own.forced THEN @ ELSE nav.rgActive]
            shown == [guide[r] EXCEPT !.active = TRUE]
<1>1. /\ Sound(c) /\ c.at \in {"capture", "force", "emit", "show"}
      /\ b \in 1..Len(bridge) /\ r \in 1..Len(guide) /\ "bus" \in Threads
      /\ UNCHANGED <<jobs, listener, life, bundle, made, late, met, stimuli>>
  BY Typed DEF TakesOver, TypeOK, CallsOK, Sound, AtBridge, Nobody, Threads
<1>2. nav \in Nav /\ own \in Bridge /\ SoundBridge(own)
  BY <1>1, Typed, BridgeIsSound DEF TypeOK, OthersOK
<1>3. SoundBridge(seen) /\ SoundBridge(forced)
  <2>1. nav.view \in Views /\ nav.rgActive \in BOOLEAN
    BY <1>2 DEF Nav
  <2>2. /\ seen \in Bridge /\ seen.installed = own.installed
        /\ seen.gate = own.gate
    BY <1>2, <2>1 DEF Bridge
  <2>3. /\ forced \in Bridge /\ forced.installed = own.installed
        /\ forced.gate = own.gate
    BY <1>2, <2>1 DEF Bridge
  <2>. QED  BY <1>2, <2>2, <2>3 DEF SoundBridge
<1>4. \/ bridge' \in {bridge, [bridge EXCEPT ![b] = seen]}
      \/ bridge' \in {bridge, [bridge EXCEPT ![b] = forced]}
  BY DEF TakesOver
<1>5. BridgesOK' /\ Len(bridge') = Len(bridge)
  BY <1>3, <1>4, BridgeSet
<1>6. nav' \in Nav
  BY <1>2 DEF TakesOver, Nav, Views
<1>7. shown \in Guide /\ shown.bap \in 0..Len(bridge)
  BY <1>1, Typed DEF Guide, TypeOK, GuidesOK
<1>8. GuidesOK' /\ Len(guide') = Len(guide)
  <2>1. guide' \in {guide, [guide EXCEPT ![r] = shown]}
    BY DEF TakesOver
  <2>. QED  BY <1>5, <1>7, <2>1, GuideSet
<1>9. PICK d : Sound(d) /\ call' = [call EXCEPT !["bus"] = d]
  <2>1. \A p \in {"force", "emit", "show", "undo"} :
          Sound([c EXCEPT !.at = p])
    BY <1>1, SoundNext DEF Places, AtBridge
  <2>2. Sound(Idle)
    BY SoundIdle
  <2>. QED  BY <2>1, <2>2 DEF TakesOver
<1>10. CallsOK' /\ JobsOK'
  BY <1>1, <1>5, <1>8, <1>9, PlainMove
<1>. QED  BY <1>1, <1>5, <1>6, <1>8, <1>10 DEF TypeOK, OthersOK

LEMMA RestoresTyped ==
  ASSUME TypeOK, NEW t \in Threads, Restores(t)
  PROVE  TypeOK'
<1>. DEFINE c == call[t]
            b == c.bridge
            own == bridge[b]
            v == [own EXCEPT !.monitor = t]
            w == [c EXCEPT !.at = "waits", !.gate = own.gate]
            job == [job |-> "raw", gate |-> own.gate, by |-> t]
<1>1. /\ Sound(c) /\ c.at = "restore" /\ c.guide # Nobody /\ b # Nobody
      /\ b \in 1..Len(bridge)
      /\ UNCHANGED <<guide, listener, life, bundle, made, late, met, stimuli>>
  BY DEF Restores, TypeOK, CallsOK, Sound, AtBridge, Nobody
<1>2. nav \in Nav /\ own \in Bridge /\ SoundBridge(own)
  BY <1>1, Typed, BridgeIsSound DEF TypeOK, OthersOK
<1>3. CASE own.installed /\ Dispatches(t, c, "raw", own.gate)
  <2>1. own.gate \in Gates
    BY <1>2, <1>3 DEF SoundBridge, Bridge
  <2>2. /\ nav' \in {nav, [nav EXCEPT !.closed = nav.closed \ {own.gate}]}
        /\ bridge' \in {bridge, [bridge EXCEPT ![b] = v]}
        /\ jobs' = Append(jobs, job) /\ call' = [call EXCEPT ![t] = w]
    BY <1>3 DEF Restores, Dispatches
  <2>3. nav' \in Nav
    BY <1>2, <2>2 DEF Nav
  <2>4. SoundBridge(v)
    <3>1. v \in Bridge /\ v.gate = own.gate
      BY <1>2 DEF Bridge
    <3>. QED  BY <2>1, <3>1 DEF SoundBridge, Gates, Nobody
  <2>5. BridgesOK' /\ Len(bridge') = Len(bridge)
    BY <2>2, <2>4, BridgeSet
  <2>6. Sound(w) /\ w.at = "waits" /\ job \in Job /\ job.by = t
    BY <1>1, <2>1, CallWaits DEF Job, Sound, Call
  <2>7. CallsOK' /\ JobsOK'
    BY <1>1, <2>2, <2>5, <2>6, Moved, JobsSet
  <2>. QED  BY <1>1, <2>3, <2>5, <2>7 DEF TypeOK, GuidesOK, OthersOK
<1>4. CASE /\ call' = [call EXCEPT ![t] = [c EXCEPT !.at = "dispose"]]
           /\ UNCHANGED <<nav, jobs, bridge>>
  <2>1. Sound([c EXCEPT !.at = "dispose"])
    BY <1>1, SoundNext DEF Places, AtBridge
  <2>2. CallsOK' /\ JobsOK'
    BY <1>1, <1>4, <2>1, PlainMove
  <2>. QED  BY <1>1, <1>4, <2>2 DEF TypeOK, BridgesOK, GuidesOK, OthersOK
<1>. QED  BY <1>3, <1>4 DEF Restores

LEMMA DisposesTyped ==
  ASSUME TypeOK, NEW t \in Threads, Disposes(t)
  PROVE  TypeOK'
<1>. DEFINE c == call[t]
            b == c.bridge
            r == c.guide
            v == [bridge[b] EXCEPT !.owned = FALSE, !.init = FALSE,
                                   !.cluster = FALSE]
            g == [guide[r] EXCEPT !.bap = Nobody]
<1>1. /\ Sound(c) /\ c.at = "dispose" /\ r \in 1..Len(guide)
      /\ b \in 1..Len(bridge)
      /\ bridge' = [bridge EXCEPT ![b] = v] /\ guide' = [guide EXCEPT ![r] = g]
      /\ call' = [call EXCEPT ![t] = [c EXCEPT !.at = "stopped"]]
      /\ UNCHANGED <<nav, jobs, listener, life, bundle, made, late, met, stimuli>>
  BY DEF Disposes, TypeOK, CallsOK, Sound, AtBridge, Nobody
<1>2. SoundBridge(v)
  <2>1. bridge[b] \in Bridge /\ SoundBridge(bridge[b])
    BY <1>1, Typed, BridgeIsSound
  <2>2. /\ v \in Bridge /\ v.installed = bridge[b].installed
        /\ v.gate = bridge[b].gate
    BY <2>1 DEF Bridge
  <2>. QED  BY <2>1, <2>2 DEF SoundBridge
<1>3. BridgesOK' /\ Len(bridge') = Len(bridge)
  BY <1>1, <1>2, BridgeSet
<1>4. g \in Guide /\ g.bap \in 0..Len(bridge)
  BY <1>1, Typed DEF Guide, Nobody
<1>5. GuidesOK' /\ Len(guide') = Len(guide)
  BY <1>1, <1>3, <1>4, GuideSet
<1>6. Sound([c EXCEPT !.at = "stopped"])
  BY <1>1, SoundNext DEF Places, AtBridge
<1>7. CallsOK' /\ JobsOK'
  BY <1>1, <1>3, <1>5, <1>6, PlainMove
<1>. QED  BY <1>1, <1>3, <1>5, <1>7 DEF TypeOK, OthersOK

(* What the lifecycle makes of a device.                                   *)
LEMMA HandlesTyped ==
  ASSUME TypeOK, NEW t \in Threads, NEW r \in 0..Len(guide),
         NEW d \in {"none", "carplay", "other"}, HandlesDevice(t, r, d)
  PROVE  /\ life' \in Life /\ life'.guide = r
         /\ \E c : Sound(c) /\ call' = [call EXCEPT ![t] = c]
<1>1. life \in Life /\ r \in Nat /\ Len(guide) \in Nat
  BY Typed DEF TypeOK, OthersOK
<1>2. life' \in Life /\ life'.guide = r
  BY <1>1 DEF HandlesDevice, Life, Threads
<1>3. \A p \in {"start", "stop"} : r # Nobody =>
        Sound([Idle EXCEPT !.at = p, !.guide = r])
  BY <1>1, SoundIdle DEF Sound, Call, Places, AtBridge, Nobody, Idle
<1>. QED  BY <1>2, <1>3, SoundIdle DEF HandlesDevice

LEMMA DeviceTyped ==
  ASSUME TypeOK, NEW d \in {"carplay", "other"}, DeviceState(d)
  PROVE  TypeOK'
<1>1. /\ "device" \in Threads /\ call["device"].at = "idle"
      /\ life.guide \in 0..Len(guide) /\ stimuli' \in 0..MaxStimuli
      /\ HandlesDevice("device", life.guide, d)
      /\ UNCHANGED <<nav, jobs, bridge, guide, listener, bundle, made, late, met>>
  BY StimulusTyped DEF DeviceState, TypeOK, OthersOK, Threads
<1>2. /\ life' \in Life /\ life'.guide = life.guide
      /\ \E c : Sound(c) /\ call' = [call EXCEPT !["device"] = c]
  BY <1>1, HandlesTyped
<1>3. PICK c : Sound(c) /\ call' = [call EXCEPT !["device"] = c]
  BY <1>2
<1>4. /\ bundle' \in [guide : Nat, stopping : BOOLEAN] /\ met' \in BOOLEAN
      /\ {life'.guide, bundle'.guide} \subseteq 0..Len(guide)
  BY <1>1, <1>2 DEF TypeOK, OthersOK
<1>. QED  BY <1>1, <1>2, <1>3, <1>4, OnlyMoves

LEMMA AcquiredTyped ==
  ASSUME TypeOK, ServiceAcquired
  PROVE  TypeOK'
<1>. DEFINE r == call["bundle"].guide
<1>1. /\ "bundle" \in Threads /\ call["bundle"].at = "added"
      /\ r \in 0..Len(guide) /\ r \in Nat
      /\ bundle' = [bundle EXCEPT !.guide = r]
      /\ UNCHANGED <<nav, jobs, bridge, guide, listener, made, late, met, stimuli>>
  BY DEF ServiceAcquired, TypeOK, CallsOK, Sound, Call, Threads
<1>2. /\ bundle' \in [guide : Nat, stopping : BOOLEAN] /\ bundle'.guide = r
      /\ life \in Life
  BY <1>1 DEF TypeOK, OthersOK
<1>3. /\ life' \in Life /\ life'.guide = r
      /\ \E c : Sound(c) /\ call' = [call EXCEPT !["bundle"] = c]
  <2>1. CASE life.attached
    <3>1. life.device \in {"none", "carplay", "other"}
      BY <1>2 DEF Life
    <3>2. HandlesDevice("bundle", r, life.device)
      BY <2>1 DEF ServiceAcquired
    <3>. QED  BY <1>1, <3>1, <3>2, HandlesTyped
  <2>2. CASE ~life.attached
    <3>1. /\ call' = [call EXCEPT !["bundle"] = Idle]
          /\ life' = [life EXCEPT !.guide = r]
      BY <2>2 DEF ServiceAcquired
    <3>. QED  BY <1>1, <1>2, <3>1, SoundIdle DEF Life
  <2>. QED  BY <2>1, <2>2
<1>4. PICK c : Sound(c) /\ call' = [call EXCEPT !["bundle"] = c]
  BY <1>3
<1>5. /\ {life'.guide, bundle'.guide} \subseteq 0..Len(guide)
      /\ met' \in BOOLEAN /\ stimuli' \in 0..MaxStimuli
  BY <1>1, <1>2, <1>3 DEF TypeOK, OthersOK
<1>. QED  BY <1>1, <1>2, <1>3, <1>4, <1>5, OnlyMoves

(* The other calls that come and go.                                       *)
LEMMA ComesAndGoesTyped ==
  ASSUME TypeOK, NEW t \in Threads, NEW s \in BOOLEAN,
         TerminalModeGoes \/ Leaves(t) \/ ServiceGoes(s) \/ ServiceGone
  PROVE  TypeOK'
<1>1. /\ life \in Life /\ bundle \in [guide : Nat, stopping : BOOLEAN]
      /\ life.guide \in 0..Len(guide) /\ bundle.guide \in 0..Len(guide)
      /\ met \in BOOLEAN /\ stimuli \in 0..MaxStimuli /\ 0 \in 0..Len(guide)
  BY Typed DEF TypeOK, OthersOK
<1>2. ASSUME NEW r \in 0..Len(guide), r # Nobody
      PROVE  Sound([Idle EXCEPT !.at = "stop", !.guide = r])
  <2>1. r \in Nat /\ Sound(Idle)
    BY Typed, SoundIdle
  <2>. QED  BY <1>2, <2>1 DEF Sound, Call, Places, AtBridge, Nobody, Idle
<1>3. Sound(Idle) /\ call \in [Threads -> Call]
  BY SoundIdle DEF TypeOK, CallsOK
<1>4. CASE TerminalModeGoes
  <2>1. PICK c : Sound(c) /\ call' = [call EXCEPT !["device"] = c]
    <3>1. CASE life.guide # Nobody /\ guide[life.guide].running
      BY <1>1, <1>2, <1>4, <3>1 DEF TerminalModeGoes
    <3>2. CASE ~(life.guide # Nobody /\ guide[life.guide].running)
      <4>1. /\ call' = call /\ "device" \in Threads
            /\ call = [call EXCEPT !["device"] = call["device"]]
        BY <1>3, <1>4, <3>2 DEF TerminalModeGoes, Threads
      <4>2. Sound(call["device"])
        BY <4>1 DEF TypeOK, CallsOK
      <4>. QED  BY <4>1, <4>2
    <3>. QED  BY <3>1, <3>2
  <2>2. life' \in Life /\ life'.guide = life.guide
    BY <1>1, <1>4 DEF TerminalModeGoes, Life, Threads
  <2>3. /\ "device" \in Threads /\ call["device"].at # "waits"
        /\ UNCHANGED <<nav, jobs, bridge, guide, listener, bundle, made, late, met>>
        /\ stimuli' \in 0..MaxStimuli
    BY <1>4, StimulusTyped DEF TerminalModeGoes, Threads
  <2>. QED  BY <1>1, <2>1, <2>2, <2>3, OnlyMoves
<1>5. CASE Leaves(t)
  <2>1. life' \in Life /\ life'.guide = life.guide
    BY <1>1, <1>5 DEF Leaves, Life, NoThread
  <2>2. /\ call[t].at # "waits" /\ call' = [call EXCEPT ![t] = Idle]
        /\ UNCHANGED <<nav, jobs, bridge, guide, listener, bundle, made, late,
                       met, stimuli>>
    BY <1>5 DEF Leaves
  <2>. QED  BY <1>1, <1>3, <2>1, <2>2, OnlyMoves
<1>6. CASE ServiceGoes(s)
  <2>1. /\ "bundle" \in Threads /\ call["bundle"].at # "waits"
        /\ UNCHANGED <<nav, jobs, bridge, guide, listener, life, made, late, met>>
        /\ stimuli' \in 0..MaxStimuli
        /\ bundle' = [bundle EXCEPT !.stopping = s]
        /\ call' = [call EXCEPT !["bundle"] = [Idle EXCEPT !.at = "stop",
                                                 !.guide = bundle.guide]]
        /\ bundle.guide # Nobody
    BY <1>6, StimulusTyped DEF ServiceGoes, Threads
  <2>2. /\ bundle' \in [guide : Nat, stopping : BOOLEAN]
        /\ bundle'.guide = bundle.guide
    BY <1>1, <2>1
  <2>3. Sound([Idle EXCEPT !.at = "stop", !.guide = bundle.guide])
    BY <1>1, <1>2, <2>1
  <2>. QED  BY <1>1, <2>1, <2>2, <2>3, OnlyMoves
<1>7. CASE ServiceGone
  <2>1. /\ "bundle" \in Threads /\ call["bundle"].at # "waits"
        /\ UNCHANGED <<nav, jobs, bridge, guide, listener, made, late, met, stimuli>>
        /\ bundle' = [bundle EXCEPT !.guide = Nobody]
        /\ call' = [call EXCEPT !["bundle"] = Idle]
    BY <1>7 DEF ServiceGone, Threads
  <2>2. /\ bundle' \in [guide : Nat, stopping : BOOLEAN] /\ bundle'.guide = 0
    BY <1>1, <2>1 DEF Nobody
  <2>3. life' \in Life /\ life'.guide = 0
    BY <1>1, <1>7 DEF ServiceGone, Life, Nobody
  <2>. QED  BY <1>1, <1>3, <2>1, <2>2, <2>3, OnlyMoves
<1>. QED  BY <1>4, <1>5, <1>6, <1>7

LEMMA ComesTyped ==
  ASSUME TypeOK, ServiceComes
  PROVE  TypeOK'
<1>. DEFINE g == [running |-> FALSE, active |-> FALSE, bap |-> Len(bridge) + 1]
            c == [Idle EXCEPT !.guide = Len(guide) + 1, !.then = "added"]
<1>1. /\ Len(guide) \in Nat /\ Len(bridge) \in Nat /\ g \in Guide
      /\ guide' = Append(guide, g) /\ NewBridge("bundle", c)
      /\ "bundle" \in Threads /\ call["bundle"].at # "waits"
      /\ UNCHANGED <<nav, listener, life, bundle, late, met>>
      /\ stimuli' \in 0..MaxStimuli
  BY Typed, StimulusTyped DEF ServiceComes, Guide, Threads
<1>2. /\ Len(guide') = Len(guide) + 1 /\ guide' \in Seq(Guide)
      /\ DOMAIN guide' = DOMAIN guide \cup {Len(guide) + 1}
      /\ \A r \in DOMAIN guide : guide'[r] = guide[r]
      /\ guide'[Len(guide) + 1] = g
  BY <1>1, SeqAppended DEF TypeOK, GuidesOK
<1>3. /\ c \in Call /\ c.guide # Nobody /\ c.guide \in 0..Len(guide')
  <2>1. Idle \in Call /\ "added" \in Places /\ Len(guide) + 1 \in Nat
    BY <1>1, SoundIdle DEF Sound, Places
  <2>2. c \in Call /\ c.guide = Len(guide) + 1
    BY <2>1 DEF Call
  <2>. QED  BY <1>1, <1>2, <2>2 DEF Nobody
<1>4. /\ BridgesOK' /\ CallsOK' /\ JobsOK' /\ made' \in Nat
      /\ Len(bridge') = Len(bridge) + 1
  <2>1. Len(guide') \in Nat /\ Len(guide') >= Len(guide)
    BY <1>1, <1>2
  <2>. QED  BY <1>1, <1>3, <2>1, NewBridgeTyped
<1>5. GuidesOK'
  <2>1. \A r \in DOMAIN guide' : guide'[r].bap \in 0..Len(bridge')
    BY <1>1, <1>2, <1>4 DEF TypeOK, GuidesOK
  <2>. QED  BY <1>2, <2>1 DEF GuidesOK
<1>. QED  BY <1>1, <1>2, <1>4, <1>5 DEF TypeOK, OthersOK

-----------------------------------------------------------------------------
(* The dispatcher keeps the types.                                         *)

(* A caller whose job was done, and who may have another to wait for.      *)
LEMMA JobsLeft ==
  ASSUME TypeOK, jobs # <<>>,
         \/ jobs' = Tail(jobs) /\ Head(jobs).by = NoThread /\ call' = call
         \/ /\ jobs' = Tail(jobs) /\ Head(jobs).by # NoThread
            /\ \E c : call' = [call EXCEPT ![Head(jobs).by] = c]
         \/ /\ call' = call /\ Head(jobs).by # NoThread
            /\ \E j \in Job : /\ j.by = Head(jobs).by
                             /\ jobs' = Append(Tail(jobs), j)
  PROVE  JobsOK'
<1>. DEFINE t == Head(jobs).by
            q == Tail(jobs)
<1>1. /\ q \in Seq(Job) /\ \A k \in DOMAIN q : q[k] \in Job
      /\ t # NoThread => /\ t \in Threads /\ call[t].at = "waits"
                         /\ \A k \in DOMAIN q : q[k].by # t
      /\ \A k \in DOMAIN q : q[k].by # NoThread =>
           /\ call[q[k].by].at = "waits"
           /\ \A j \in DOMAIN q : q[j].by = q[k].by => j = k
  <2>1. q \in Seq(Job)
    BY JobDone
  <2>2. \A k \in DOMAIN q : q[k] \in Job
    BY <2>1
  <2>. QED  BY <2>1, <2>2, JobDone
<1>2. call \in [Threads -> Call]
  BY DEF TypeOK, CallsOK
<1>3. CASE jobs' = q
  <2>1. ASSUME NEW k \in DOMAIN q, q[k].by # NoThread
        PROVE  call'[q[k].by] = call[q[k].by]
    <3>1. CASE call' = call
      BY <3>1
    <3>2. ASSUME NEW c, call' = [call EXCEPT ![t] = c], t # NoThread
          PROVE  call'[q[k].by] = call[q[k].by]
      BY <1>1, <1>2, <2>1, <3>2 DEF Job
    <3>3. call' = call \/ \E c : call' = [call EXCEPT ![t] = c] /\ t # NoThread
      OBVIOUS
    <3>. QED  BY <3>1, <3>2, <3>3
  <2>. QED  BY <1>1, <1>3, <2>1 DEF JobsOK
<1>4. ASSUME NEW j \in Job, j.by = t, jobs' = Append(q, j), call' = call,
             t # NoThread
      PROVE  JobsOK'
  <2>1. /\ Append(q, j) \in Seq(Job) /\ Len(q) + 1 \notin DOMAIN q
        /\ DOMAIN Append(q, j) = DOMAIN q \cup {Len(q) + 1}
        /\ \A k \in DOMAIN q : Append(q, j)[k] = q[k]
        /\ Append(q, j)[Len(q) + 1] = j
    <3>. HIDE DEF q
    <3>1. Len(q) \in Nat /\ DOMAIN q = 1..Len(q)
      BY <1>1
    <3>. QED  BY <1>1, <1>4, <3>1, SeqAppended
  <2>. HIDE DEF q
  <2>2. ASSUME NEW k \in DOMAIN jobs', jobs'[k].by # NoThread
        PROVE  /\ call'[jobs'[k].by].at = "waits"
               /\ \A i \in DOMAIN jobs' : jobs'[i].by = jobs'[k].by => i = k
    <3>1. CASE k \in DOMAIN q
      BY <1>1, <1>4, <2>1, <2>2, <3>1
    <3>2. CASE k = Len(q) + 1
      BY <1>1, <1>4, <2>1, <2>2, <3>2
    <3>. QED  BY <1>4, <2>1, <3>1, <3>2
  <2>. QED  BY <1>4, <2>1, <2>2 DEF JobsOK
<1>. QED  BY <1>3, <1>4

LEMMA CompletesTyped ==
  ASSUME TypeOK, jobs # <<>>, Head(jobs).by # NoThread, UNCHANGED guide,
         Completes(Head(jobs).by, Head(jobs))
  PROVE  CallsOK' /\ BridgesOK' /\ JobsOK' /\ Len(bridge') = Len(bridge)
<1>. DEFINE j == Head(jobs)
            t == j.by
            c == call[t]
            b == c.bridge
            own == bridge[b]
            installed == [own EXCEPT !.installed = TRUE, !.active = FALSE,
                                     !.gate = j.gate]
            fresh == [installed EXCEPT !.monitor = NoThread]
            set == [own EXCEPT !.active = (j.job = "block"),
                               !.monitor = NoThread]
            raw == [own EXCEPT !.installed = FALSE, !.active = FALSE,
                               !.gate = Nobody, !.monitor = NoThread]
            again == [job |-> "block", gate |-> j.gate, by |-> t]
<1>1. /\ j \in Job /\ t \in Threads /\ Sound(c) /\ c.at = "waits"
      /\ b \in 1..Len(bridge)
  <2>1. j \in Job /\ t \in Threads /\ c.at = "waits"
    BY JobDone
  <2>2. Sound(c)
    BY <2>1 DEF TypeOK, CallsOK
  <2>. QED  BY <2>1, <2>2 DEF Sound, AtBridge, Nobody
<1>2. own \in Bridge /\ SoundBridge(own) /\ j.gate \in Gates
  BY <1>1, Typed, BridgeIsSound DEF Job
<1>. HIDE DEF j
<1>3. /\ SoundBridge(installed) /\ SoundBridge(fresh) /\ SoundBridge(set)
      /\ SoundBridge(raw)
  <2>1. installed \in Bridge /\ installed.gate = j.gate
    BY <1>2 DEF Bridge
  <2>2. fresh \in Bridge /\ fresh.gate = j.gate
    BY <1>2 DEF Bridge
  <2>3. set \in Bridge /\ set.installed = own.installed /\ set.gate = own.gate
    BY <1>2 DEF Bridge
  <2>4. raw \in Bridge /\ raw.installed = FALSE
    BY <1>2 DEF Bridge
  <2>. QED  BY <1>2, <2>1, <2>2, <2>3, <2>4 DEF SoundBridge, Gates, Nobody
<1>4. \E v : SoundBridge(v) /\ bridge' \in {bridge, [bridge EXCEPT ![b] = v]}
  BY <1>1, <1>3 DEF Completes, Job, j
<1>5. BridgesOK' /\ Len(bridge') = Len(bridge)
  BY <1>4, BridgeSet
<1>6. \/ /\ jobs' = Tail(jobs)
         /\ \E p \in Places : call' = [call EXCEPT ![t] = [c EXCEPT !.at = p]]
      \/ jobs' = Append(Tail(jobs), again) /\ call' = call
  <2>1. c.then \in Places /\ AfterSet(c) \in Places /\ "dispose" \in Places
    BY <1>1 DEF Sound, Call, AfterSet, Places, AtBridge
  <2>2. j.job \in {"install", "again", "block", "open", "raw"}
    BY <1>1 DEF Job
  <2>. QED  BY <2>1, <2>2 DEF Completes, j
<1>7. CallsOK'
  <2>1. PICK d : Sound(d) /\ call' = [call EXCEPT ![t] = d]
    <3>1. CASE call' = call
      <4>1. call = [call EXCEPT ![t] = c]
        BY <1>1 DEF TypeOK, CallsOK
      <4>. QED  BY <1>1, <3>1, <4>1
    <3>2. ASSUME NEW p \in Places, call' = [call EXCEPT ![t] = [c EXCEPT !.at = p]]
          PROVE  \E d : Sound(d) /\ call' = [call EXCEPT ![t] = d]
      <4>1. Sound([c EXCEPT !.at = p])
        BY <1>1, SoundNext DEF AtBridge
      <4>. QED  BY <3>2, <4>1
    <3>. QED  BY <1>6, <3>1, <3>2
  <2>. QED  BY <1>1, <1>5, <2>1, Moved
<1>8. JobsOK'
  <2>1. again \in Job /\ again.by = t
    BY <1>1, <1>2 DEF Job
  <2>. QED  BY <1>6, <2>1, JobsLeft DEF j
<1>. QED  BY <1>5, <1>7, <1>8

LEMMA DispatcherTyped ==
  ASSUME TypeOK, DispatcherRuns
  PROVE  TypeOK'
<1>. DEFINE j == Head(jobs)
<1>1. /\ jobs # <<>> /\ j \in Job /\ nav' = Native(j)
      /\ UNCHANGED <<guide, listener, life, bundle, made, late, met, stimuli>>
  BY JobDone DEF DispatcherRuns
<1>2. nav' \in Nav
  <2>1. nav \in Nav /\ j.gate \in Gates
        /\ j.job \in {"install", "again", "block", "open", "raw"}
    BY <1>1 DEF TypeOK, OthersOK, Job
  <2>. QED  BY <1>1, <2>1 DEF Native, Nav, Raw
<1>3. CallsOK' /\ BridgesOK' /\ JobsOK' /\ Len(bridge') = Len(bridge)
  <2>1. CASE j.by = NoThread
    <3>1. jobs' = Tail(jobs) /\ UNCHANGED <<bridge, call>>
      BY <2>1 DEF DispatcherRuns
    <3>2. JobsOK'
      BY <1>1, <2>1, <3>1, JobsLeft
    <3>. QED  BY <1>1, <3>1, <3>2 DEF TypeOK, CallsOK, Sound, BridgesOK
  <2>2. CASE j.by # NoThread
    BY <1>1, <2>2, CompletesTyped DEF DispatcherRuns
  <2>. QED  BY <2>1, <2>2
<1>. QED  BY <1>1, <1>2, <1>3 DEF TypeOK, GuidesOK, OthersOK

LEMMA GivesUpTyped ==
  ASSUME TypeOK, NEW t \in Threads, GivesUp(t)
  PROVE  TypeOK'
<1>1. PICK k \in DOMAIN jobs : /\ jobs[k].by = t
                              /\ jobs' = [jobs EXCEPT ![k].by = NoThread]
                              /\ Fails(t, jobs[k].job)
  BY DEF GivesUp
<1>. DEFINE c == call[t]
            b == c.bridge
            own == bridge[b]
            job == jobs[k].job
            free == [own EXCEPT !.monitor = NoThread]
            lost == [free EXCEPT !.owned = FALSE]
            raw == [free EXCEPT !.installed = FALSE, !.active = FALSE,
                                !.gate = Nobody]
            left == [jobs[k] EXCEPT !.by = NoThread]
<1>2. /\ Sound(c) /\ c.at = "waits" /\ b \in 1..Len(bridge)
      /\ jobs[k] \in Job /\ late' = TRUE
      /\ UNCHANGED <<nav, guide, listener, life, bundle, made, met, stimuli>>
  BY Typed DEF GivesUp, TypeOK, CallsOK, Sound, AtBridge, Nobody
<1>3. own \in Bridge /\ SoundBridge(own)
  BY <1>2, Typed, BridgeIsSound
<1>4. SoundBridge(free) /\ SoundBridge(lost) /\ SoundBridge(raw)
  <2>1. free \in Bridge /\ free.installed = own.installed /\ free.gate = own.gate
    BY <1>3 DEF Bridge
  <2>2. lost \in Bridge /\ lost.installed = own.installed /\ lost.gate = own.gate
    BY <1>3 DEF Bridge
  <2>3. raw \in Bridge /\ raw.installed = FALSE
    BY <1>3 DEF Bridge
  <2>. QED  BY <1>3, <2>1, <2>2, <2>3 DEF SoundBridge
<1>5. job \in {"install", "again", "block", "open", "raw"}
  BY <1>2 DEF Job
<1>6. \E v : SoundBridge(v) /\ bridge' = [bridge EXCEPT ![b] = v]
  BY <1>1, <1>4, <1>5 DEF Fails
<1>7. BridgesOK' /\ Len(bridge') = Len(bridge)
  BY <1>6, BridgeSet
<1>8. PICK p \in Places : call' = [call EXCEPT ![t] = [c EXCEPT !.at = p]]
  <2>1. c.then \in Places /\ {"undo", "dispose"} \subseteq Places
    BY <1>2 DEF Sound, Call, Places, AtBridge
  <2>. QED  BY <1>1, <1>5, <2>1 DEF Fails
<1>9. CallsOK'
  <2>1. Sound([c EXCEPT !.at = p])
    BY <1>2, SoundNext DEF AtBridge
  <2>. QED  BY <1>2, <1>7, <1>8, <2>1, Moved
<1>10. JobsOK'
  <2>1. left \in Job /\ left.by = NoThread
    BY <1>2 DEF Job
  <2>2. jobs \in Seq(Job) /\ jobs' = [jobs EXCEPT ![k] = left]
    BY <1>1 DEF TypeOK, JobsOK
  <2>3. /\ jobs' \in Seq(Job) /\ DOMAIN jobs' = DOMAIN jobs
        /\ \A i \in DOMAIN jobs : jobs'[i] = IF i = k THEN left ELSE jobs[i]
    BY <2>1, <2>2, SeqUpdated
  <2>4. ASSUME NEW i \in DOMAIN jobs', jobs'[i].by # NoThread
        PROVE  /\ call'[jobs'[i].by].at = "waits"
               /\ \A u \in DOMAIN jobs' : jobs'[u].by = jobs'[i].by => u = i
    <3>1. i # k /\ jobs'[i] = jobs[i] /\ i \in DOMAIN jobs
      BY <2>1, <2>3, <2>4
    <3>2. /\ call[jobs[i].by].at = "waits" /\ jobs[i] \in Job
          /\ \A u \in DOMAIN jobs : jobs[u].by = jobs[i].by => u = i
      BY <2>4, <3>1, Typed DEF TypeOK, JobsOK
    <3>3. jobs[i].by # t /\ jobs[i].by \in Threads
      BY <1>1, <2>4, <3>1, <3>2 DEF Job
    <3>4. call'[jobs[i].by] = call[jobs[i].by]
      BY <1>8, <3>3 DEF TypeOK, CallsOK
    <3>. QED  BY <2>1, <2>3, <2>4, <3>1, <3>2, <3>4
  <2>. QED  BY <2>3, <2>4 DEF JobsOK
<1>. QED  BY <1>2, <1>7, <1>9, <1>10 DEF TypeOK, GuidesOK, OthersOK

-----------------------------------------------------------------------------

LEMMA TypesInit ==
  ASSUME Init
  PROVE  TypeOK
<1>1. Len(bridge) = 0 /\ Len(guide) = 0 /\ DOMAIN jobs = {}
  BY DEF Init
<1>2. CallsOK
  BY <1>1 DEF Init, CallsOK, Sound, Call, Idle, Places, AtBridge, Nobody
<1>3. OthersOK
  <2>1. nav \in Nav /\ life \in Life
    BY DEF Init, Nav, Life, Views, Raw, Nobody, NoThread
  <2>2. /\ bundle \in [guide : Nat, stopping : BOOLEAN]
        /\ {listener, life.guide, bundle.guide} \subseteq 0..Len(guide)
        /\ listener \in Nat
    BY <1>1 DEF Init, Nobody
  <2>3. made = 0 /\ stimuli = 0 /\ late = FALSE /\ met = FALSE
    BY DEF Init
  <2>4. made \in Nat /\ stimuli \in 0..MaxStimuli
    BY <2>3, OwnershipAssumption
  <2>. QED  BY <2>1, <2>2, <2>3, <2>4 DEF OthersOK
<1>. QED  BY <1>1, <1>2, <1>3 DEF Init, TypeOK, BridgesOK, GuidesOK, JobsOK

LEMMA TypesStep ==
  ASSUME TypeOK, [Next]_vars
  PROVE  TypeOK'
<1>1. ASSUME NEW t \in Threads, Steps(t) PROVE TypeOK'
  BY <1>1, ReadsTyped, SetsTyped, GoesTyped, RestoresTyped, DisposesTyped,
     StartsTyped, RunsTyped, StopsTyped, ComesAndGoesTyped DEF Steps
<1>2. CASE Bus
  BY <1>1, <1>2, FindsTyped, TakesTyped, FrameEndedTyped DEF Bus, Threads
<1>3. CASE Device
  BY <1>1, <1>3 DEF Device, Threads
<1>4. CASE Bundle
  BY <1>1, <1>4, AcquiredTyped, ComesAndGoesTyped DEF Bundle, Threads
<1>5. CASE Outside
  BY <1>5, NavigationTyped, FrameTyped, DeviceTyped, ComesAndGoesTyped,
     ComesTyped DEF Outside, Threads
<1>6. CASE UNCHANGED vars
  BY <1>6 DEF vars, TypeOK, CallsOK, Sound, BridgesOK, GuidesOK, JobsOK, OthersOK
<1>. QED  BY <1>2, <1>3, <1>4, <1>5, <1>6, DispatcherTyped, GivesUpTyped DEF Next

(* Whatever the dispatcher does, nothing loses its type, no reference its  *)
(* object, and nobody waits for a job but his own.                         *)
THEOREM TypeCorrect == Spec => []TypeOK
  BY TypesInit, TypesStep, PTL DEF Spec

-----------------------------------------------------------------------------
(* Course: what a thread may be about.                                     *)

LEMMA CourseMoves ==
  ASSUME TypeOK, Course, NEW t \in Threads, call[t].at # "waits",
         NEW c, OnCourse(t, c), call' = [call EXCEPT ![t] = c],
         \/ jobs' = jobs
         \/ \E j \in Job : j.by = t /\ JobFits(j, c) /\ jobs' = Append(jobs, j)
  PROVE  Course'
<1>1. /\ jobs \in Seq(Job) /\ Len(jobs) \in Nat /\ DOMAIN jobs = 1..Len(jobs)
      /\ \A k \in DOMAIN jobs : jobs[k] \in Job /\ jobs[k].by # t
  BY DEF TypeOK, JobsOK, Threads, NoThread
<1>2. call'[t] = c /\ \A u \in Threads \ {t} : call'[u] = call[u]
  BY DEF TypeOK, CallsOK
<1>3. \A u \in Threads : OnCourse(u, call'[u])
  BY <1>2 DEF Course
<1>4. ASSUME NEW k \in DOMAIN jobs, jobs[k].by # NoThread
      PROVE  JobFits(jobs[k], call'[jobs[k].by])
  <2>1. jobs[k].by \in Threads \ {t}
    BY <1>1, <1>4 DEF Job
  <2>. QED  BY <1>2, <1>4, <2>1 DEF Course
<1>5. \A k \in DOMAIN jobs' : jobs'[k].by # NoThread
        => JobFits(jobs'[k], call'[jobs'[k].by])
  <2>1. CASE jobs' = jobs
    BY <1>4, <2>1
  <2>2. ASSUME NEW j \in Job, j.by = t, JobFits(j, c), jobs' = Append(jobs, j)
        PROVE  \A k \in DOMAIN jobs' : jobs'[k].by # NoThread
                 => JobFits(jobs'[k], call'[jobs'[k].by])
    <3>1. /\ DOMAIN jobs' = DOMAIN jobs \cup {Len(jobs) + 1}
          /\ \A k \in DOMAIN jobs : jobs'[k] = jobs[k]
          /\ jobs'[Len(jobs) + 1] = j
      <4>1. jobs \in Seq(Job) /\ j \in Job
        BY <1>1, <2>2
      <4>2. /\ DOMAIN Append(jobs, j) = DOMAIN jobs \cup {Len(jobs) + 1}
            /\ \A k \in DOMAIN jobs : Append(jobs, j)[k] = jobs[k]
            /\ Append(jobs, j)[Len(jobs) + 1] = j
        BY <4>1, SeqAppended
      <4>. QED  BY <2>2, <4>2
    <3>. QED  BY <1>2, <1>4, <2>2, <3>1
  <2>. QED  BY <2>1, <2>2
<1>. QED  BY <1>3, <1>5 DEF Course

LEMMA CourseStays ==
  ASSUME Course, UNCHANGED <<call, jobs>>
  PROVE  Course'
  BY DEF Course

LEMMA OnCourseIdle == \A t \in Threads : OnCourse(t, Idle)
  BY DEF OnCourse, Idle, BusAt, OtherAt, Threads

LEMMA ReadsCourse ==
  ASSUME TypeOK, Course, NEW t \in Threads, ReadsOwnership(t)
  PROVE  Course'
<1>. DEFINE c == call[t]
<1>1. c \in Call /\ OnCourse(t, c) /\ c.at = "set" /\ UNCHANGED jobs
  BY DEF TypeOK, CallsOK, Course, ReadsOwnership
<1>2. /\ OnCourse(t, [c EXCEPT !.at = "enter"])
      /\ ~c.want => OnCourse(t, [c EXCEPT !.at = c.then])
  BY <1>1 DEF OnCourse, Call, BusAt, OtherAt
<1>3. OnCourse(t, Idle)
  BY OnCourseIdle
<1>4. PICK d : OnCourse(t, d) /\ call' = [call EXCEPT ![t] = d]
  BY <1>2, <1>3 DEF ReadsOwnership
<1>. QED  BY <1>1, <1>4, CourseMoves

LEMMA SetsCourse ==
  ASSUME TypeOK, Course, NEW t \in Threads, SetsRoute(t)
  PROVE  Course'
<1>. DEFINE c == call[t]
            own == bridge[c.bridge]
            g == IF own.installed THEN own.gate ELSE made + 1
            w == [c EXCEPT !.at = "waits", !.gate = g]
            J == {j \in Job : j.by = t /\ JobFits(j, w)}
            job(what) == [job |-> what, gate |-> g, by |-> t]
<1>1. /\ c \in Call /\ OnCourse(t, c) /\ c.at = "enter" /\ g \in Gates
      /\ c.bridge \in 1..Len(bridge)
  <2>1. Sound(c) /\ OnCourse(t, c) /\ c.at = "enter"
    BY DEF TypeOK, CallsOK, Course, SetsRoute
  <2>2. c.bridge \in 1..Len(bridge)
    BY <2>1 DEF Sound, AtBridge, Nobody
  <2>3. SoundBridge(own)
    BY <2>2, BridgeIsSound
  <2>4. own.installed => own.gate \in Gates
    BY <2>3 DEF SoundBridge, Bridge
  <2>5. made + 1 \in Gates
    BY DEF TypeOK, OthersOK, Gates
  <2>. QED  BY <2>1, <2>2, <2>4, <2>5 DEF Sound
<1>2. OnCourse(t, w) /\ w.want = c.want /\ w.then = c.then
  BY <1>1 DEF OnCourse, Call, BusAt, OtherAt
<1>3. /\ c.want => OnCourse(t, [c EXCEPT !.at = "capture"])
      /\ ~c.want => OnCourse(t, [c EXCEPT !.at = c.then])
  BY <1>1 DEF OnCourse, Call, BusAt, OtherAt
<1>4. OnCourse(t, [c EXCEPT !.at = AfterSet(c)]) /\ OnCourse(t, Idle)
  BY <1>3, OnCourseIdle DEF AfterSet
<1>5. CASE UNCHANGED jobs /\ call' \in {[call EXCEPT ![t] = Idle],
                                       [call EXCEPT ![t] = [c EXCEPT !.at = AfterSet(c)]]}
  <2>1. PICK d : OnCourse(t, d) /\ call' = [call EXCEPT ![t] = d]
    BY <1>4, <1>5
  <2>. QED  BY <1>1, <1>5, <2>1, CourseMoves
<1>6. ASSUME NEW what \in {"again", "block", "open"},
             what = "block" => c.want, what = "open" => ~c.want,
             Dispatches(t, c, what, g)
      PROVE  Course'
  <2>1. /\ job(what) \in Job /\ job(what).by = t
        /\ jobs' = Append(jobs, job(what)) /\ call' = [call EXCEPT ![t] = w]
    BY <1>1, <1>6 DEF Job, Dispatches
  <2>2. JobFits(job(what), w)
    BY <1>1, <1>2, <1>6 DEF JobFits, OnCourse
  <2>. QED  BY <1>1, <1>2, <2>1, <2>2, CourseMoves
<1>. QED  BY <1>5, <1>6 DEF SetsRoute

LEMMA NewBridgeCourse ==
  ASSUME TypeOK, Course, NEW t \in Threads \ {"bus"}, call[t].at # "waits",
         NEW c \in Call, ~c.want, c.then \in {"run", "added"},
         c.then = "added" => t = "bundle", NewBridge(t, c)
  PROVE  Course'
<1>. DEFINE n    == Len(bridge) + 1
            next == [c EXCEPT !.bridge = n]
            w    == [next EXCEPT !.at = "waits", !.gate = made + 1]
            p    == [next EXCEPT !.at = c.then]
            job  == [job |-> "install", gate |-> made + 1, by |-> t]
<1>1. job \in Job /\ job.by = t /\ n \in Nat
  BY Typed DEF TypeOK, OthersOK, Gates, Job
<1>2. /\ next \in Call /\ next.then = c.then /\ ~next.want
  BY <1>1 DEF Call
<1>3. OnCourse(t, w) /\ OnCourse(t, p) /\ w.then = c.then
  BY <1>2 DEF OnCourse, Call, OtherAt, Threads
<1>4. CASE nav.ready
  <2>1. jobs' = Append(jobs, job) /\ call' = [call EXCEPT ![t] = w]
    BY <1>4 DEF NewBridge, Accesses, Dispatches
  <2>2. JobFits(job, w)
    BY <1>3 DEF JobFits
  <2>. QED  BY <1>1, <1>3, <2>1, <2>2, CourseMoves
<1>5. CASE ~nav.ready
  <2>1. jobs' = jobs /\ call' = [call EXCEPT ![t] = p]
    BY <1>5 DEF NewBridge
  <2>. QED  BY <1>3, <2>1, CourseMoves
<1>. QED  BY <1>4, <1>5

LEMMA FindsCourse ==
  ASSUME TypeOK, Course, FindsGate
  PROVE  Course'
<1>. DEFINE d == call["bus"]
            c == [d EXCEPT !.want = TRUE, !.then = "set"]
            w == [c EXCEPT !.at = "waits", !.gate = made + 1]
            job == [job |-> "install", gate |-> made + 1, by |-> "bus"]
<1>1. /\ "bus" \in Threads /\ d \in Call /\ d.at = "own"
      /\ job \in Job /\ job.by = "bus" /\ made \in Nat
  BY DEF TypeOK, CallsOK, OthersOK, FindsGate, Threads, Job, Gates
<1>2. /\ OnCourse("bus", w) /\ w.want = TRUE /\ w.then = "set"
      /\ OnCourse("bus", [c EXCEPT !.at = "set"]) /\ OnCourse("bus", Idle)
  <2>1. c \in Call /\ c.want = TRUE /\ c.then = "set"
    BY <1>1 DEF Call, Places, AtBridge
  <2>. QED  BY <1>1, <2>1, OnCourseIdle DEF OnCourse, Call, BusAt
<1>3. CASE Accesses("bus", c, bridge)
  <2>1. jobs' = Append(jobs, job) /\ call' = [call EXCEPT !["bus"] = w]
    BY <1>3 DEF Accesses, Dispatches
  <2>2. JobFits(job, w)
    BY <1>2 DEF JobFits
  <2>. QED  BY <1>1, <1>2, <2>1, <2>2, CourseMoves
<1>4. CASE /\ UNCHANGED jobs
           /\ call' \in {[call EXCEPT !["bus"] = [c EXCEPT !.at = "set"]],
                          [call EXCEPT !["bus"] = Idle]}
  <2>1. PICK e : OnCourse("bus", e) /\ call' = [call EXCEPT !["bus"] = e]
    BY <1>2, <1>4
  <2>. QED  BY <1>1, <1>4, <2>1, CourseMoves
<1>. QED  BY <1>3, <1>4 DEF FindsGate

LEMMA TakesCourse ==
  ASSUME TypeOK, Course, TakesOver
  PROVE  Course'
<1>. DEFINE c == call["bus"]
<1>1. /\ "bus" \in Threads /\ c \in Call /\ OnCourse("bus", c)
      /\ c.at \in {"capture", "force", "emit", "show"} /\ UNCHANGED jobs
  BY DEF TypeOK, CallsOK, Course, TakesOver, Threads
<1>2. /\ \A p \in {"force", "emit", "show", "undo"} :
           OnCourse("bus", [c EXCEPT !.at = p])
      /\ OnCourse("bus", Idle)
  BY <1>1, OnCourseIdle DEF OnCourse, Call, BusAt
<1>3. PICK d : OnCourse("bus", d) /\ call' = [call EXCEPT !["bus"] = d]
  BY <1>2 DEF TakesOver
<1>. QED  BY <1>1, <1>3, CourseMoves

LEMMA GoesCourse ==
  ASSUME TypeOK, Course, NEW t \in Threads, GoesDown(t)
  PROVE  Course'
<1>. DEFINE c == call[t]
            q == IF c.at = "undo" THEN "idle" ELSE c.then
<1>1. c \in Call /\ OnCourse(t, c) /\ c.at \in {"undo", "down"} /\ UNCHANGED jobs
  BY DEF TypeOK, CallsOK, Course, GoesDown
<1>2. c.at = "down" => OnCourse(t, [c EXCEPT !.at = c.then])
  BY <1>1 DEF OnCourse, Call, BusAt, OtherAt
<1>3. OnCourse(t, [c EXCEPT !.at = "set", !.want = FALSE, !.then = q])
  <2>1. q \in Places
    BY <1>1 DEF Call, Places
  <2>2. IF t = "bus" THEN q \in {"idle", "ended"} ELSE q = "restore"
    BY <1>1 DEF OnCourse, OtherAt
  <2>. HIDE DEF q
  <2>. QED  BY <1>1, <2>1, <2>2 DEF OnCourse, Call, BusAt, OtherAt
<1>4. PICK d : OnCourse(t, d) /\ call' = [call EXCEPT ![t] = d]
  BY <1>2, <1>3 DEF GoesDown
<1>. QED  BY <1>1, <1>4, CourseMoves

LEMMA RestoresCourse ==
  ASSUME TypeOK, Course, NEW t \in Threads, Restores(t)
  PROVE  Course'
<1>. DEFINE c == call[t]
            own == bridge[c.bridge]
            w == [c EXCEPT !.at = "waits", !.gate = own.gate]
            job == [job |-> "raw", gate |-> own.gate, by |-> t]
<1>1. /\ Sound(c) /\ c \in Call /\ OnCourse(t, c) /\ c.at = "restore"
      /\ t # "bus" /\ c.bridge \in 1..Len(bridge)
  BY DEF TypeOK, CallsOK, Course, Restores, OnCourse, BusAt, Sound, AtBridge, Nobody
<1>2. own.installed => own.gate \in Gates
  BY <1>1, BridgeIsSound DEF SoundBridge, Bridge
<1>3. OnCourse(t, [c EXCEPT !.at = "dispose"])
  BY <1>1 DEF OnCourse, Call, OtherAt
<1>4. CASE own.installed /\ Dispatches(t, c, "raw", own.gate)
  <2>1. /\ job \in Job /\ job.by = t /\ jobs' = Append(jobs, job)
        /\ call' = [call EXCEPT ![t] = w]
    BY <1>2, <1>4 DEF Job, Dispatches
  <2>2. OnCourse(t, w) /\ JobFits(job, w)
    BY <1>1, <1>2, <1>4 DEF OnCourse, JobFits, Call, OtherAt
  <2>. QED  BY <1>1, <2>1, <2>2, CourseMoves
<1>5. CASE jobs' = jobs /\ call' = [call EXCEPT ![t] = [c EXCEPT !.at = "dispose"]]
  BY <1>1, <1>3, <1>5, CourseMoves
<1>. QED  BY <1>4, <1>5 DEF Restores

LEMMA DisposesCourse ==
  ASSUME TypeOK, Course, NEW t \in Threads, Disposes(t)
  PROVE  Course'
<1>. DEFINE c == call[t]
<1>1. /\ c \in Call /\ OnCourse(t, c) /\ c.at = "dispose" /\ t # "bus"
      /\ UNCHANGED jobs /\ call' = [call EXCEPT ![t] = [c EXCEPT !.at = "stopped"]]
  BY DEF TypeOK, CallsOK, Course, Disposes, OnCourse, BusAt
<1>2. OnCourse(t, [c EXCEPT !.at = "stopped"])
  BY <1>1 DEF OnCourse, Call, OtherAt
<1>. QED  BY <1>1, <1>2, CourseMoves

LEMMA FrameCourse ==
  ASSUME TypeOK, Course, FrameStarts \/ FrameEnds \/ FrameEnded
  PROVE  Course'
<1>. DEFINE r == listener
            b == guide[r].bap
            p == IF b = Nobody THEN "ended" ELSE "down"
            starts == [Idle EXCEPT !.at = "own", !.guide = r, !.bridge = b]
            ends == [Idle EXCEPT !.at = p, !.guide = r, !.bridge = b,
                                 !.then = "ended"]
<1>1. /\ "bus" \in Threads /\ call["bus"].at # "waits" /\ jobs' = jobs
      /\ call' \in {[call EXCEPT !["bus"] = starts],
                    [call EXCEPT !["bus"] = ends], [call EXCEPT !["bus"] = Idle]}
  BY DEF FrameStarts, FrameEnds, FrameEnded, Threads
<1>2. OnCourse("bus", starts) /\ OnCourse("bus", ends) /\ OnCourse("bus", Idle)
  BY <1>1, OnCourseIdle DEF OnCourse, Idle, BusAt
<1>3. PICK d : OnCourse("bus", d) /\ call' = [call EXCEPT !["bus"] = d]
  BY <1>1, <1>2
<1>. QED  BY <1>1, <1>3, CourseMoves

LEMMA StartsCourse ==
  ASSUME TypeOK, Course, NEW t \in Threads, Starts(t)
  PROVE  Course'
<1>. DEFINE c == call[t]
            r == c.guide
<1>1. c \in Call /\ OnCourse(t, c) /\ c.at = "start" /\ t # "bus" /\ ~c.want
  BY DEF TypeOK, CallsOK, Course, Starts, OnCourse, BusAt
<1>2. CASE NewBridge(t, [c EXCEPT !.then = "run"])
  <2>1. /\ [c EXCEPT !.then = "run"] \in Call
        /\ [c EXCEPT !.then = "run"].then = "run"
        /\ ~[c EXCEPT !.then = "run"].want
    BY <1>1 DEF Call, Places, AtBridge
  <2>. QED  BY <1>1, <1>2, <2>1, NewBridgeCourse
<1>3. CASE /\ jobs' = jobs
           /\ call' \in {[call EXCEPT ![t] = [c EXCEPT !.at = "started"]],
                          [call EXCEPT ![t] = [c EXCEPT !.at = "run",
                                                 !.bridge = guide[r].bap]]}
  <2>1. /\ OnCourse(t, [c EXCEPT !.at = "started"])
        /\ OnCourse(t, [c EXCEPT !.at = "run", !.bridge = guide[r].bap])
    BY <1>1 DEF OnCourse, Call, OtherAt
  <2>2. PICK d : OnCourse(t, d) /\ call' = [call EXCEPT ![t] = d]
    BY <1>3, <2>1
  <2>. QED  BY <1>1, <1>3, <2>2, CourseMoves
<1>. QED  BY <1>2, <1>3 DEF Starts

LEMMA StopsCourse ==
  ASSUME TypeOK, Course, NEW t \in Threads, Runs(t) \/ Stops(t) \/ Leaves(t)
  PROVE  Course'
<1>. DEFINE c == call[t]
            b == guide[c.guide].bap
            p == IF b = Nobody THEN "stopped" ELSE "down"
            down == [c EXCEPT !.at = p, !.bridge = b, !.then = "restore"]
            run == [c EXCEPT !.at = "started"]
            stop == [c EXCEPT !.at = "stopped"]
<1>1. /\ c \in Call /\ OnCourse(t, c) /\ t # "bus" /\ jobs' = jobs
      /\ c.at \in {"run", "stop", "started", "stopped"}
      /\ call' \in {[call EXCEPT ![t] = down], [call EXCEPT ![t] = run],
                    [call EXCEPT ![t] = stop], [call EXCEPT ![t] = Idle]}
  BY DEF TypeOK, CallsOK, Course, Runs, Stops, Leaves, OnCourse, BusAt, Threads
<1>2. OnCourse(t, run) /\ OnCourse(t, stop) /\ OnCourse(t, Idle)
  BY <1>1, OnCourseIdle DEF OnCourse, Call, OtherAt
<1>3. OnCourse(t, down)
  <2>1. p \in {"stopped", "down"} /\ "restore" \in Places
    BY DEF Places, AtBridge
  <2>. HIDE DEF p, b
  <2>. QED  BY <1>1, <2>1 DEF OnCourse, Call, OtherAt
<1>4. PICK d : OnCourse(t, d) /\ call' = [call EXCEPT ![t] = d]
  BY <1>1, <1>2, <1>3
<1>. QED  BY <1>1, <1>4, CourseMoves

LEMMA HandlesCourse ==
  ASSUME TypeOK, Course, NEW t \in Threads \ {"bus"}, call[t].at # "waits",
         NEW r, NEW d, HandlesDevice(t, r, d), UNCHANGED jobs
  PROVE  Course'
<1>1. /\ \A p \in {"start", "stop"} :
           OnCourse(t, [Idle EXCEPT !.at = p, !.guide = r])
      /\ OnCourse(t, Idle)
  BY OnCourseIdle DEF OnCourse, Idle, OtherAt, Threads
<1>2. PICK c : OnCourse(t, c) /\ call' = [call EXCEPT ![t] = c]
  BY <1>1 DEF HandlesDevice
<1>. QED  BY <1>2, CourseMoves

LEMMA LifeCourse ==
  ASSUME TypeOK, Course, NEW d \in {"carplay", "other"}, NEW s \in BOOLEAN,
         \/ DeviceState(d) \/ TerminalModeGoes
         \/ ServiceAcquired \/ ServiceGoes(s) \/ ServiceGone
  PROVE  Course'
<1>1. CASE DeviceState(d)
  BY <1>1, HandlesCourse DEF DeviceState, Threads
<1>2. CASE ServiceAcquired /\ life.attached
  BY <1>2, HandlesCourse DEF ServiceAcquired, Threads
<1>3. CASE /\ jobs' = jobs
           /\ \E t \in Threads \ {"bus"} : \E r :
                /\ call[t].at # "waits"
                /\ call' \in {call, [call EXCEPT ![t] = Idle],
                     [call EXCEPT ![t] = [Idle EXCEPT !.at = "stop", !.guide = r]]}
  <2>0. PICK t \in Threads \ {"bus"} : \E r :
                /\ call[t].at # "waits"
                /\ call' \in {call, [call EXCEPT ![t] = Idle],
                     [call EXCEPT ![t] = [Idle EXCEPT !.at = "stop", !.guide = r]]}
    BY <1>3
  <2>1. PICK r :
                /\ call[t].at # "waits"
                /\ call' \in {call, [call EXCEPT ![t] = Idle],
                     [call EXCEPT ![t] = [Idle EXCEPT !.at = "stop", !.guide = r]]}
    BY <2>0
  <2>2. /\ OnCourse(t, Idle)
        /\ OnCourse(t, [Idle EXCEPT !.at = "stop", !.guide = r])
    BY <2>1, OnCourseIdle DEF OnCourse, Idle, OtherAt
  <2>3. CASE call' = call
    BY <1>3, <2>3, CourseStays
  <2>4. CASE call' # call
    <3>1. PICK c : OnCourse(t, c) /\ call' = [call EXCEPT ![t] = c]
      BY <2>1, <2>2, <2>4
    <3>. QED  BY <1>3, <2>1, <3>1, CourseMoves
  <2>. QED  BY <2>3, <2>4
<1>4. CASE TerminalModeGoes
  <2>1. /\ "device" \in Threads \ {"bus"} /\ jobs' = jobs
        /\ call["device"].at # "waits"
        /\ call' \in {call, [call EXCEPT !["device"] =
                            [Idle EXCEPT !.at = "stop", !.guide = life.guide]]}
    BY <1>4 DEF TerminalModeGoes, Threads
  <2>. QED  BY <1>3, <2>1
<1>5. CASE ServiceGoes(s)
  <2>1. /\ "bundle" \in Threads \ {"bus"} /\ jobs' = jobs
        /\ call["bundle"].at # "waits"
        /\ call' = [call EXCEPT !["bundle"] =
                      [Idle EXCEPT !.at = "stop", !.guide = bundle.guide]]
    BY <1>5 DEF ServiceGoes, Threads
  <2>. QED  BY <1>3, <2>1
<1>6. CASE ServiceGone \/ (ServiceAcquired /\ ~life.attached)
  <2>1. /\ "bundle" \in Threads \ {"bus"} /\ jobs' = jobs
        /\ call["bundle"].at # "waits"
        /\ call' = [call EXCEPT !["bundle"] = Idle]
    BY <1>6 DEF ServiceGone, ServiceAcquired, Threads
  <2>. QED  BY <1>3, <2>1
<1>. QED  BY <1>1, <1>2, <1>4, <1>5, <1>6

LEMMA ComesCourse ==
  ASSUME TypeOK, Course, ServiceComes
  PROVE  Course'
<1>. DEFINE c == [Idle EXCEPT !.guide = Len(guide) + 1, !.then = "added"]
<1>1. c \in Call /\ ~c.want /\ c.then = "added"
  <2>1. /\ Idle \in Call /\ Idle.want = FALSE /\ Len(guide) + 1 \in Nat
        /\ "added" \in Places
    BY Typed, SoundIdle DEF Sound, Idle, Places
  <2>. QED  BY <2>1 DEF Call
<1>. QED  BY <1>1, NewBridgeCourse DEF ServiceComes, Threads

LEMMA CompletesCourse ==
  ASSUME TypeOK, Course, DispatcherRuns
  PROVE  Course'
<1>. DEFINE j == Head(jobs)
            t == j.by
            c == call[t]
            q == Tail(jobs)
            again == [job |-> "block", gate |-> j.gate, by |-> t]
<1>1. /\ jobs # <<>> /\ j \in Job /\ q \in Seq(Job)
      /\ t # NoThread => /\ t \in Threads /\ c.at = "waits"
                         /\ \A k \in DOMAIN q : q[k].by # t
  BY JobDone DEF DispatcherRuns
<1>2. /\ \A k \in DOMAIN q : q[k] \in Job
      /\ \A k \in DOMAIN q : q[k].by # NoThread => JobFits(q[k], call[q[k].by])
      /\ t # NoThread => JobFits(j, c)
  <2>1. /\ jobs \in Seq(Job) /\ Len(jobs) \in Nat \ {0}
        /\ DOMAIN jobs = 1..Len(jobs) /\ j = jobs[1] /\ 1 \in DOMAIN jobs
        /\ DOMAIN q = 1..(Len(jobs) - 1)
        /\ \A k \in DOMAIN q : q[k] = jobs[k + 1] /\ k + 1 \in DOMAIN jobs
    BY <1>1 DEF TypeOK, JobsOK
  <2>. QED  BY <2>1 DEF Course
<1>3. CASE t = NoThread
  <2>1. jobs' = q /\ call' = call
    BY <1>3 DEF DispatcherRuns
  <2>2. \A k \in DOMAIN q : q[k] \in Job
    BY <1>1
  <2>. QED  BY <1>2, <2>1, <2>2 DEF Course
<1>4. CASE t # NoThread
  <2>1. t \in Threads /\ c \in Call /\ OnCourse(t, c) /\ JobFits(j, c)
    BY <1>1, <1>2, <1>4 DEF Course, TypeOK, CallsOK
  <2>2. CASE j.job = "again" /\ c.want
    <3>1. jobs' = Append(q, again) /\ call' = call
      BY <1>4, <2>2 DEF DispatcherRuns, Completes
    <3>2. again \in Job /\ again.by = t /\ JobFits(again, c)
      BY <1>1, <2>1, <2>2 DEF Job, JobFits, OnCourse
    <3>3. /\ DOMAIN jobs' = DOMAIN q \cup {Len(q) + 1}
          /\ \A k \in DOMAIN q : jobs'[k] = q[k]
          /\ jobs'[Len(q) + 1] = again
      <4>. HIDE DEF q, again
      <4>. QED  BY <1>1, <3>1, <3>2, SeqAppended
    <3>4. \A k \in DOMAIN jobs' : jobs'[k].by # NoThread
            => JobFits(jobs'[k], call'[jobs'[k].by])
      <4>. HIDE DEF q, again
      <4>. QED  BY <1>2, <3>1, <3>2, <3>3
    <3>. QED  BY <3>1, <3>4 DEF Course
  <2>3. ASSUME jobs' = q, NEW p, OnCourse(t, [c EXCEPT !.at = p]),
               call' = [call EXCEPT ![t] = [c EXCEPT !.at = p]]
        PROVE  Course'
    <3>1. /\ call'[t] = [c EXCEPT !.at = p]
          /\ \A u \in Threads \ {t} : call'[u] = call[u]
      BY <2>1, <2>3 DEF TypeOK, CallsOK
    <3>2. \A u \in Threads : OnCourse(u, call'[u])
      BY <2>3, <3>1 DEF Course
    <3>3. ASSUME NEW k \in DOMAIN q, q[k].by # NoThread
          PROVE  JobFits(q[k], call'[q[k].by])
      <4>1. q[k].by \in Threads \ {t}
        BY <1>1, <1>2, <1>4, <3>3 DEF Job
      <4>. QED  BY <1>2, <3>1, <3>3, <4>1
    <3>. QED  BY <2>3, <3>2, <3>3 DEF Course
  <2>4. CASE j.job = "install" \/ (j.job = "again" /\ ~c.want)
    <3>1. OnCourse(t, [c EXCEPT !.at = c.then])
      BY <1>1, <1>4, <2>1, <2>4 DEF OnCourse, JobFits, Call, BusAt, OtherAt
    <3>2. jobs' = q /\ call' = [call EXCEPT ![t] = [c EXCEPT !.at = c.then]]
      BY <1>4, <2>4 DEF DispatcherRuns, Completes
    <3>. QED  BY <2>3, <3>1, <3>2
  <2>5. CASE j.job \in {"block", "open"}
    <3>1. /\ c.want => OnCourse(t, [c EXCEPT !.at = "capture"])
          /\ ~c.want => OnCourse(t, [c EXCEPT !.at = c.then])
      BY <1>1, <1>4, <2>1, <2>5 DEF OnCourse, JobFits, Call, BusAt, OtherAt
    <3>2. jobs' = q /\ call' = [call EXCEPT ![t] = [c EXCEPT !.at = AfterSet(c)]]
      BY <1>4, <2>5 DEF DispatcherRuns, Completes
    <3>3. OnCourse(t, [c EXCEPT !.at = AfterSet(c)])
      BY <3>1 DEF AfterSet
    <3>. QED  BY <2>3, <3>2, <3>3
  <2>6. CASE j.job = "raw"
    <3>1. OnCourse(t, [c EXCEPT !.at = "dispose"])
      BY <1>1, <1>4, <2>1, <2>6 DEF OnCourse, JobFits, Call, OtherAt
    <3>2. jobs' = q /\ call' = [call EXCEPT ![t] = [c EXCEPT !.at = "dispose"]]
      BY <1>4, <2>6 DEF DispatcherRuns, Completes
    <3>. QED  BY <2>3, <3>1, <3>2
  <2>. QED  BY <1>1, <2>2, <2>4, <2>5, <2>6 DEF Job
<1>. QED  BY <1>3, <1>4

LEMMA GivesUpCourse ==
  ASSUME TypeOK, Course, NEW t \in Threads, GivesUp(t)
  PROVE  Course'
<1>. DEFINE c == call[t]
<1>1. PICK k \in DOMAIN jobs : /\ jobs[k].by = t
                              /\ jobs' = [jobs EXCEPT ![k].by = NoThread]
                              /\ Fails(t, jobs[k].job)
  BY DEF GivesUp
<1>. DEFINE job == jobs[k].job
            left == [jobs[k] EXCEPT !.by = NoThread]
<1>2. /\ c \in Call /\ OnCourse(t, c) /\ c.at = "waits" /\ JobFits(jobs[k], c)
      /\ jobs[k] \in Job /\ t # NoThread
  BY <1>1, Typed DEF GivesUp, TypeOK, CallsOK, Course, Threads, NoThread
<1>3. PICK p : /\ OnCourse(t, [c EXCEPT !.at = p])
               /\ call' = [call EXCEPT ![t] = [c EXCEPT !.at = p]]
  <2>1. CASE job = "install"
    <3>1. OnCourse(t, [c EXCEPT !.at = c.then])
      BY <1>1, <1>2, <2>1 DEF OnCourse, JobFits, Call, BusAt, OtherAt
    <3>. QED  BY <1>1, <2>1, <3>1 DEF Fails
  <2>2. CASE job \in {"again", "block", "open"}
    <3>1. /\ c.want => OnCourse(t, [c EXCEPT !.at = "undo"])
          /\ ~c.want => OnCourse(t, [c EXCEPT !.at = c.then])
      BY <1>1, <1>2, <2>2 DEF OnCourse, JobFits, Call, BusAt, OtherAt
    <3>2. call' = [call EXCEPT ![t] = [c EXCEPT !.at =
                                         IF c.want THEN "undo" ELSE c.then]]
      BY <1>1, <2>2 DEF Fails
    <3>. QED  BY <3>1, <3>2
  <2>3. CASE job = "raw"
    <3>1. OnCourse(t, [c EXCEPT !.at = "dispose"])
      BY <1>1, <1>2, <2>3 DEF OnCourse, JobFits, Call, OtherAt
    <3>. QED  BY <1>1, <2>3, <3>1 DEF Fails
  <2>. QED  BY <1>2, <2>1, <2>2, <2>3 DEF Job
<1>4. /\ call'[t] = [c EXCEPT !.at = p]
      /\ \A u \in Threads \ {t} : call'[u] = call[u]
  BY <1>3 DEF TypeOK, CallsOK
<1>5. /\ DOMAIN jobs' = DOMAIN jobs
      /\ \A i \in DOMAIN jobs : jobs'[i] = IF i = k THEN left ELSE jobs[i]
  BY <1>1 DEF TypeOK, JobsOK
<1>6. ASSUME NEW i \in DOMAIN jobs', jobs'[i].by # NoThread
      PROVE  JobFits(jobs'[i], call'[jobs'[i].by])
  <2>1. left.by = NoThread
    BY <1>2 DEF Job
  <2>2. i # k /\ jobs'[i] = jobs[i] /\ i \in DOMAIN jobs /\ jobs[i] \in Job
    BY <1>5, <1>6, <2>1, Typed
  <2>3. jobs[i].by \in Threads \ {t}
    BY <1>1, <1>2, <1>6, <2>2 DEF TypeOK, JobsOK, Job
  <2>. QED  BY <1>4, <1>6, <2>2, <2>3 DEF Course
<1>7. \A u \in Threads : OnCourse(u, call'[u])
  BY <1>3, <1>4 DEF Course
<1>. QED  BY <1>6, <1>7 DEF Course

LEMMA CourseStep ==
  ASSUME TypeOK, Course, [Next]_vars
  PROVE  Course'
<1>1. ASSUME NEW t \in Threads, Steps(t) PROVE Course'
  BY <1>1, ReadsCourse, SetsCourse, GoesCourse, RestoresCourse, DisposesCourse,
     StartsCourse, StopsCourse DEF Steps
<1>2. CASE Bus
  BY <1>1, <1>2, FindsCourse, TakesCourse, FrameCourse DEF Bus, Threads
<1>3. CASE Device
  BY <1>1, <1>3 DEF Device, Threads
<1>4. CASE Bundle
  BY <1>1, <1>4, LifeCourse DEF Bundle, Threads
<1>5. CASE Outside
  <2>1. CASE NavigationComesUp
    BY <2>1, CourseStays DEF NavigationComesUp
  <2>. QED  BY <1>5, <2>1, FrameCourse, LifeCourse, ComesCourse DEF Outside
<1>6. CASE UNCHANGED vars
  BY <1>6, CourseStays DEF vars
<1>. QED  BY <1>2, <1>3, <1>4, <1>5, <1>6, CompletesCourse, GivesUpCourse DEF Next

LEMMA CourseInit ==
  ASSUME Init
  PROVE  Course
<1>1. DOMAIN jobs = {} /\ \A t \in Threads : call[t] = Idle
  BY DEF Init
<1>. QED  BY <1>1, OnCourseIdle DEF Course

-----------------------------------------------------------------------------
(* Orderly: one thread at work at a time.                                  *)

LEMMA OrderlyStays ==
  ASSUME Orderly, UNCHANGED <<call, guide, life, bundle>>
  PROVE  Orderly'
  BY DEF Orderly

(* What is known of the guidance of a call.                                *)
LEMMA GuideKnown ==
  ASSUME TypeOK, NEW t \in Threads, call[t].at # "idle"
  PROVE  call[t].guide \in DOMAIN guide /\ call[t].guide # Nobody
  BY DEF TypeOK, CallsOK, GuidesOK, Sound, Nobody

(* The step of a thread at work: it goes on with what it is about.         *)
Onward(c, d) == /\ d.at # "idle" => /\ d.guide = c.guide
                                    /\ Adds(d) <=> Adds(c)
                /\ Begins(d) => Begins(c)

LEMMA Continues ==
  ASSUME TypeOK, Orderly, NEW t \in Threads, AtWork(call[t]),
         NEW d, call' = [call EXCEPT ![t] = d], Onward(call[t], d),
         DOMAIN guide' = DOMAIN guide,
         \A r \in DOMAIN guide : guide'[r].running = guide[r].running,
         UNCHANGED <<life, bundle>>
  PROVE  Orderly'
<1>1. /\ call'[t] = d /\ \A u \in Threads \ {t} : call'[u] = call[u]
      /\ call[t].at # "idle"
  BY DEF TypeOK, CallsOK, AtWork
<1>2. \A u \in Threads : call[u].at # "idle" => call[u].guide \in DOMAIN guide
  BY GuideKnown
<1>3. d.at # "idle" => d.guide \in DOMAIN guide
  BY <1>1, <1>2 DEF Onward
<1>4. \A u, v \in Threads : AtWork(call'[u]) /\ AtWork(call'[v]) => u = v
  BY <1>1 DEF Orderly
<1>5. \A u \in Threads : call'[u].at # "idle" =>
        IF Adds(call'[u]) THEN bundle'.guide = Nobody
                          ELSE call'[u].guide = bundle'.guide
  BY <1>1 DEF Orderly, Onward
<1>6. /\ call'["bus"].at # "idle" => guide'[call'["bus"].guide].running
      /\ call'["device"].at # "idle" => life'.monitor = "device"
      /\ Begins(call'["bundle"]) => life'.monitor = "bundle"
  BY <1>1, <1>2, <1>3 DEF Orderly, Onward, Threads
<1>7. ASSUME NEW u \in {"device", "bundle"}, AtWork(call'[u])
      PROVE  ~guide'[call'[u].guide].running
  <2>1. AtWork(call[u]) /\ call'[u].guide = call[u].guide /\ u \in Threads
    BY <1>1, <1>7 DEF Onward, AtWork, Threads
  <2>. QED  BY <1>2, <2>1 DEF Orderly, AtWork
<1>. QED  BY <1>4, <1>5, <1>6, <1>7 DEF Orderly

(* A step of a thread while the others are idle.                           *)
LEMMA OnlyOne ==
  ASSUME TypeOK, NEW t \in Threads \ {"bus"},
         \A u \in Threads \ {t} : call[u].at = "idle",
         NEW d, call' = [call EXCEPT ![t] = d],
         \A r \in DOMAIN guide' : guide'[r].running => r = bundle'.guide,
         life'.guide \in {Nobody, bundle'.guide},
         d.at # "idle" => IF Adds(d) THEN bundle'.guide = Nobody
                                     ELSE d.guide = bundle'.guide,
         t = "device" /\ d.at # "idle" => life'.monitor = "device",
         t = "bundle" /\ Begins(d) => life'.monitor = "bundle",
         AtWork(d) => ~guide'[d.guide].running
  PROVE  Orderly'
<1>1. call'[t] = d /\ \A u \in Threads \ {t} : call'[u].at = "idle"
  BY DEF TypeOK, CallsOK
<1>2. \A u \in Threads \ {t} : ~AtWork(call'[u]) /\ ~Begins(call'[u])
  BY <1>1 DEF AtWork, Begins
<1>. QED  BY <1>1, <1>2 DEF Orderly, Threads

(* A stop or start that meets nobody.                                      *)
LEMMA Alone ==
  ASSUME TypeOK, Course, Orderly, NEW t \in Threads,
         call[t].at \in {"start", "stop"}, ~Meets(t, call[t].guide)
  PROVE  /\ \A u \in Threads \ {t} : call[u].at = "idle"
         /\ t # "bus" /\ call[t].guide = bundle.guide /\ bundle.guide # Nobody
<1>1. /\ call[t].guide = bundle.guide /\ bundle.guide # Nobody /\ t # "bus"
  BY GuideKnown DEF Orderly, Adds, Course, OnCourse, BusAt
<1>2. ASSUME NEW u \in Threads \ {t}, call[u].at # "idle" PROVE FALSE
  BY <1>1, <1>2 DEF Orderly, Meets, Works
<1>. QED  BY <1>1, <1>2

LEMMA StepsOrderly ==
  ASSUME TypeOK, Course, Orderly, NEW t \in Threads,
         \/ ReadsOwnership(t) \/ SetsRoute(t) \/ GoesDown(t) \/ Restores(t)
         \/ Disposes(t)
  PROVE  Orderly'
<1>. DEFINE c == call[t]
            q == IF c.at = "undo" THEN "idle" ELSE c.then
<1>1. /\ c \in Call /\ OnCourse(t, c) /\ UNCHANGED <<life, bundle>>
      /\ c.at \in {"set", "enter", "undo", "down", "restore", "dispose"}
  BY DEF TypeOK, CallsOK, Course, ReadsOwnership, SetsRoute, GoesDown, Restores,
         Disposes
<1>2. /\ AtWork(c) /\ ~Adds(c) /\ ~Begins(c)
      /\ c.at \in {"set", "enter", "down"} /\ ~c.want => c.then \in {"idle", "ended", "restore"}
      /\ c.at = "down" => c.then \in {"ended", "restore"}
  BY <1>1 DEF AtWork, Adds, Begins, OnCourse
<1>3. /\ \A p \in {"enter", "capture", "dispose", "stopped", "idle", "ended",
                   "restore"} :
           Onward(c, [c EXCEPT !.at = p])
      /\ Onward(c, Idle)
  BY <1>1, <1>2 DEF Onward, Adds, Begins, Call, Idle
<1>4. \A g : c.then \notin {"run", "added"} =>
             Onward(c, [c EXCEPT !.at = "waits", !.gate = g])
  BY <1>1, <1>2 DEF Onward, Adds, Begins, Call
<1>5. Onward(c, [c EXCEPT !.at = "set", !.want = FALSE, !.then = q])
  BY <1>1, <1>2 DEF Onward, Adds, Begins, Call
<1>6. PICK d : Onward(c, d) /\ call' = [call EXCEPT ![t] = d]
  <2>1. CASE ReadsOwnership(t)
    <3>1. ~c.want => c.then \in {"idle", "ended", "restore"}
      BY <1>1, <1>2, <2>1 DEF ReadsOwnership
    <3>. QED  BY <1>3, <2>1, <3>1 DEF ReadsOwnership
  <2>2. CASE SetsRoute(t)
    <3>1. c.then \notin {"run", "added"} /\ c.at = "enter"
      BY <1>1, <2>2 DEF SetsRoute, OnCourse
    <3>2. AfterSet(c) \in {"capture", "idle", "ended", "restore"}
      BY <1>1, <1>2, <3>1 DEF AfterSet
    <3>. QED  BY <1>3, <1>4, <2>2, <3>1, <3>2 DEF SetsRoute, Dispatches
  <2>3. CASE GoesDown(t)
    BY <1>2, <1>3, <1>5, <2>3 DEF GoesDown
  <2>4. CASE Restores(t)
    <3>1. c.then \notin {"run", "added"}
      BY <1>1, <2>4 DEF Restores, OnCourse, BusAt
    <3>. QED  BY <1>3, <1>4, <2>4, <3>1 DEF Restores, Dispatches
  <2>5. CASE Disposes(t)
    BY <1>3, <2>5 DEF Disposes
  <2>. QED  BY <2>1, <2>2, <2>3, <2>4, <2>5
<1>7. /\ DOMAIN guide' = DOMAIN guide
      /\ \A r \in DOMAIN guide : guide'[r].running = guide[r].running
  <2>1. CASE guide' = guide
    BY <2>1
  <2>2. CASE guide' = [guide EXCEPT ![c.guide] = [guide[c.guide] EXCEPT !.bap = Nobody]]
    <3>1. \A r \in DOMAIN guide : guide[r] \in Guide
      BY Typed
    <3>. QED  BY <2>2, <3>1 DEF Guide
  <2>. QED  BY <2>1, <2>2 DEF ReadsOwnership, SetsRoute, GoesDown, Restores, Disposes
<1>. QED  BY <1>1, <1>2, <1>6, <1>7, Continues

LEMMA BusOrderly ==
  ASSUME TypeOK, Course, Orderly, FindsGate \/ TakesOver \/ FrameEnded
  PROVE  Orderly'
<1>. DEFINE c == call["bus"]
            f == [c EXCEPT !.want = TRUE, !.then = "set"]
            w == [f EXCEPT !.at = "waits", !.gate = made + 1]
<1>1. /\ "bus" \in Threads /\ c \in Call /\ UNCHANGED <<life, bundle>>
      /\ c.at \in {"own", "capture", "force", "emit", "show", "ended"}
  BY DEF TypeOK, CallsOK, FindsGate, TakesOver, FrameEnded, Threads
<1>2. /\ AtWork(c) /\ ~Adds(c) /\ ~Begins(c)
  BY <1>1 DEF AtWork, Adds, Begins
<1>3. /\ \A p \in {"force", "emit", "show", "undo"} :
           Onward(c, [c EXCEPT !.at = p])
      /\ Onward(c, Idle)
  BY <1>1, <1>2 DEF Onward, Adds, Begins, Call, Idle
<1>4. Onward(c, w) /\ Onward(c, [f EXCEPT !.at = "set"])
  <2>1. f \in Call /\ f.guide = c.guide /\ f.then = "set"
    BY <1>1 DEF Call, Places, AtBridge
  <2>2. w.at = "waits" /\ w.guide = c.guide /\ w.then = "set"
    BY <2>1 DEF Call
  <2>. QED  BY <1>2, <2>1, <2>2 DEF Onward, Adds, Begins, Call
<1>5. PICK d : Onward(c, d) /\ call' = [call EXCEPT !["bus"] = d]
  <2>1. CASE FindsGate
    BY <1>3, <1>4, <2>1 DEF FindsGate, Accesses, Dispatches
  <2>. QED  BY <1>3, <2>1 DEF TakesOver, FrameEnded
<1>6. /\ DOMAIN guide' = DOMAIN guide
      /\ \A r \in DOMAIN guide : guide'[r].running = guide[r].running
  <2>1. \A r \in DOMAIN guide : guide[r] \in Guide
    BY Typed
  <2>2. guide' \in {guide,
          [guide EXCEPT ![c.guide] = [guide[c.guide] EXCEPT !.active = TRUE]],
          [guide EXCEPT ![c.guide] = [guide[c.guide] EXCEPT !.active = FALSE]]}
    BY DEF FindsGate, TakesOver, FrameEnded
  <2>. QED  BY <2>1, <2>2 DEF Guide
<1>. QED  BY <1>1, <1>2, <1>5, <1>6, Continues

LEMMA FrameOrderly ==
  ASSUME TypeOK, Course, Orderly, FrameStarts \/ FrameEnds
  PROVE  Orderly'
<1>. DEFINE r == listener
            b == guide[r].bap
            p == IF b = Nobody THEN "ended" ELSE "down"
            starts == [Idle EXCEPT !.at = "own", !.guide = r, !.bridge = b]
            ends == [Idle EXCEPT !.at = p, !.guide = r, !.bridge = b,
                                 !.then = "ended"]
<1>1. /\ r \in DOMAIN guide /\ r # Nobody /\ guide[r].running
      /\ call["bus"].at = "idle" /\ UNCHANGED <<guide, life, bundle>>
      /\ call' \in {[call EXCEPT !["bus"] = starts],
                    [call EXCEPT !["bus"] = ends]}
  BY Typed DEF FrameStarts, FrameEnds, TypeOK, OthersOK, Nobody
<1>2. r = bundle.guide
  BY <1>1 DEF Orderly
<1>3. /\ starts.guide = r /\ AtWork(starts) /\ ~Adds(starts)
      /\ ends.guide = r /\ AtWork(ends) /\ ~Adds(ends)
  BY DEF Idle, AtWork, Adds
<1>4. PICK d : /\ d.guide = r /\ AtWork(d) /\ ~Adds(d)
               /\ call' = [call EXCEPT !["bus"] = d]
  BY <1>1, <1>3
<1>5. call'["bus"] = d /\ \A u \in Threads \ {"bus"} : call'[u] = call[u]
  BY <1>4 DEF TypeOK, CallsOK, Threads
<1>6. \A u \in Threads \ {"bus"} : ~AtWork(call[u])
  <2>1. ASSUME NEW u \in {"device", "bundle"}, AtWork(call[u]) PROVE FALSE
    <3>1. ~guide[call[u].guide].running /\ call[u].at # "idle" /\ u \in Threads
      BY <2>1 DEF Orderly, AtWork, Threads
    <3>2. ~Adds(call[u])
      BY <1>1, <1>2, <3>1 DEF Orderly
    <3>3. call[u].guide = r
      BY <1>2, <3>1, <3>2 DEF Orderly
    <3>. QED  BY <1>1, <3>1, <3>3
  <2>. QED  BY <2>1 DEF Threads
<1>. QED  BY <1>1, <1>2, <1>4, <1>5, <1>6 DEF Orderly, AtWork, Threads

LEMMA StartsOrderly ==
  ASSUME TypeOK, Course, Orderly, NEW t \in Threads, Starts(t), ~met'
  PROVE  Orderly'
<1>. DEFINE c == call[t]
            n == Len(bridge) + 1
            f == [c EXCEPT !.then = "run"]
            w == [[f EXCEPT !.bridge = n] EXCEPT !.at = "waits", !.gate = made + 1]
            q == [[f EXCEPT !.bridge = n] EXCEPT !.at = f.then]
<1>1. /\ c.at = "start" /\ c \in Call /\ ~Meets(t, c.guide)
      /\ UNCHANGED <<guide, life, bundle>>
  BY DEF Starts, TypeOK, CallsOK
<1>2. /\ \A u \in Threads \ {t} : call[u].at = "idle"
      /\ t # "bus" /\ c.guide = bundle.guide
  BY <1>1, Alone
<1>3. /\ t = "device" => life.monitor = "device"
      /\ t = "bundle" => life.monitor = "bundle"
      /\ \A r \in DOMAIN guide : guide[r].running => r = bundle.guide
      /\ life.guide \in {Nobody, bundle.guide}
  BY <1>1 DEF Orderly, Begins
<1>4. CASE guide[c.guide].running
  <2>. DEFINE d == [c EXCEPT !.at = "started"]
  <2>1. call' = [call EXCEPT ![t] = d]
    BY <1>4 DEF Starts
  <2>2. d.guide = c.guide /\ ~Adds(d) /\ ~AtWork(d)
    BY <1>1 DEF Call, Adds, AtWork
  <2>. HIDE DEF d
  <2>. QED  BY <1>1, <1>2, <1>3, <2>1, <2>2, OnlyOne
<1>5. CASE ~guide[c.guide].running
  <2>1. PICK d : d.guide = c.guide /\ ~Adds(d) /\ call' = [call EXCEPT ![t] = d]
    <3>1. f \in Call /\ f.guide = c.guide /\ f.then = "run"
      BY <1>1 DEF Call, Places, AtBridge
    <3>2. /\ w.guide = c.guide /\ w.at = "waits" /\ w.then = "run"
          /\ q.guide = c.guide /\ q.at = "run"
      BY <3>1 DEF Call
    <3>3. ~Adds(w) /\ ~Adds(q)
      BY <3>2 DEF Adds
    <3>4. /\ [c EXCEPT !.at = "run", !.bridge = guide[c.guide].bap].guide = c.guide
          /\ ~Adds([c EXCEPT !.at = "run", !.bridge = guide[c.guide].bap])
      BY <1>1 DEF Call, Adds
    <3>. QED  BY <1>5, <3>2, <3>3, <3>4 DEF Starts, NewBridge, Accesses, Dispatches
  <2>. QED  BY <1>1, <1>2, <1>3, <1>5, <2>1, OnlyOne
<1>. QED  BY <1>4, <1>5

LEMMA StopsOrderly ==
  ASSUME TypeOK, Course, Orderly, NEW t \in Threads, Stops(t), ~met'
  PROVE  Orderly'
<1>. DEFINE c == call[t]
            r == c.guide
            b == guide[r].bap
            p == IF b = Nobody THEN "stopped" ELSE "down"
            down == [c EXCEPT !.at = p, !.bridge = b, !.then = "restore"]
            stop == [c EXCEPT !.at = "stopped"]
            v == [guide[r] EXCEPT !.running = FALSE, !.active = FALSE]
<1>1. /\ c.at = "stop" /\ c \in Call /\ ~Meets(t, r)
      /\ UNCHANGED <<life, bundle>> /\ r \in DOMAIN guide
  BY GuideKnown DEF Stops, TypeOK, CallsOK
<1>2. /\ \A u \in Threads \ {t} : call[u].at = "idle"
      /\ t # "bus" /\ r = bundle.guide
  BY <1>1, Alone
<1>3. /\ t = "device" => life.monitor = "device"
      /\ \A x \in DOMAIN guide : guide[x].running => x = bundle.guide
      /\ life.guide \in {Nobody, bundle.guide}
  BY <1>1 DEF Orderly
<1>4. /\ DOMAIN guide' = DOMAIN guide /\ ~guide'[r].running
      /\ \A x \in DOMAIN guide : guide'[x].running => guide[x].running
  <2>1. \/ guide' = guide /\ ~guide[r].running
        \/ guide' = [guide EXCEPT ![r] = v]
    BY DEF Stops
  <2>2. ~v.running
    BY <1>1, Typed DEF Guide
  <2>. QED  BY <1>1, <2>1, <2>2
<1>5. PICK d : /\ d.guide = r /\ ~Adds(d) /\ ~Begins(d)
               /\ call' = [call EXCEPT ![t] = d]
  <2>1. p \in {"stopped", "down"}
    OBVIOUS
  <2>2. down.guide = r /\ ~Adds(down) /\ ~Begins(down)
    <3>. HIDE DEF p, b
    <3>. QED  BY <1>1, <2>1 DEF Call, Adds, Begins
  <2>3. stop.guide = r /\ ~Adds(stop) /\ ~Begins(stop)
    BY <1>1 DEF Call, Adds, Begins
  <2>4. call' \in {[call EXCEPT ![t] = down], [call EXCEPT ![t] = stop]}
    BY DEF Stops
  <2>. HIDE DEF down, stop
  <2>. QED  BY <2>2, <2>3, <2>4
<1>. QED  BY <1>1, <1>2, <1>3, <1>4, <1>5, OnlyOne

LEMMA RunsOrderly ==
  ASSUME TypeOK, Course, Orderly, NEW t \in Threads, Runs(t)
  PROVE  Orderly'
<1>. DEFINE c == call[t]
            d == [c EXCEPT !.at = "started"]
            v == [running |-> TRUE, active |-> FALSE, bap |-> c.bridge]
<1>1. /\ c.at = "run" /\ c \in Call /\ UNCHANGED <<life, bundle>>
      /\ call' = [call EXCEPT ![t] = d]
      /\ guide' = [guide EXCEPT ![c.guide] = v]
  BY DEF Runs, TypeOK, CallsOK
<1>2. /\ AtWork(c) /\ ~Adds(c) /\ t # "bus" /\ c.guide = bundle.guide
      /\ c.guide \in DOMAIN guide
  BY <1>1, GuideKnown DEF AtWork, Adds, Course, OnCourse, BusAt, Orderly
<1>3. /\ d.guide = c.guide /\ d.at = "started" /\ ~Adds(d) /\ ~AtWork(d)
  BY <1>1 DEF Call, Adds, AtWork
<1>4. /\ call'[t] = d /\ \A u \in Threads \ {t} : call'[u] = call[u]
      /\ DOMAIN guide' = DOMAIN guide /\ v.running
      /\ \A x \in DOMAIN guide : guide'[x] = IF x = c.guide THEN v ELSE guide[x]
  BY <1>1 DEF TypeOK, CallsOK
<1>5. \A u \in Threads \ {t} : ~AtWork(call[u])
  BY <1>2 DEF Orderly
<1>6. call["bus"].at = "idle"
  BY <1>2, <1>5 DEF Course, OnCourse, BusAt, AtWork, Threads
<1>7. \A u, x \in Threads : AtWork(call'[u]) /\ AtWork(call'[x]) => u = x
  BY <1>3, <1>4, <1>5
<1>8. \A u \in Threads : call'[u].at # "idle" =>
        IF Adds(call'[u]) THEN bundle'.guide = Nobody
                          ELSE call'[u].guide = bundle'.guide
  BY <1>1, <1>2, <1>3, <1>4 DEF Orderly
<1>9. /\ call'["device"].at # "idle" => life'.monitor = "device"
      /\ Begins(call'["bundle"]) => life'.monitor = "bundle"
  BY <1>1, <1>3, <1>4 DEF Orderly, Begins, Threads
<1>10. call'["bus"].at = "idle"
  BY <1>2, <1>4, <1>6 DEF Threads
<1>11. \A u \in {"device", "bundle"} : ~AtWork(call'[u])
  BY <1>3, <1>4, <1>5 DEF Threads
<1>12. \A x \in DOMAIN guide' : guide'[x].running => x = bundle'.guide
  BY <1>1, <1>2, <1>4 DEF Orderly
<1>. QED  BY <1>1, <1>7, <1>8, <1>9, <1>10, <1>11, <1>12 DEF Orderly

(* The device thread may stop or start under the free monitor.             *)
LEMMA DeviceTurns ==
  ASSUME TypeOK, Course, Orderly, life.monitor = NoThread,
         call["device"].at = "idle",
         NEW d, call' = [call EXCEPT !["device"] = d],
         d.at \in {"idle", "start", "stop"},
         d.at # "idle" => /\ d.guide = life.guide /\ life.guide # Nobody
                          /\ life'.monitor = "device",
         life'.guide = life.guide, UNCHANGED <<guide, bundle>>
  PROVE  Orderly'
<1>1. /\ call'["device"] = d
      /\ \A u \in Threads \ {"device"} : call'[u] = call[u]
      /\ ~AtWork(d) /\ ~Adds(d)
  BY DEF TypeOK, CallsOK, Threads, AtWork, Adds
<1>2. ~Begins(call["bundle"])
  BY DEF Orderly, Threads, NoThread
<1>3. \A u \in Threads : AtWork(call'[u]) => AtWork(call[u]) /\ u # "device"
  BY <1>1
<1>4. \A u, v \in Threads : AtWork(call'[u]) /\ AtWork(call'[v]) => u = v
  BY <1>3 DEF Orderly
<1>5. \A u \in Threads : call'[u].at # "idle" =>
        IF Adds(call'[u]) THEN bundle'.guide = Nobody
                          ELSE call'[u].guide = bundle'.guide
  BY <1>1 DEF Orderly
<1>6. /\ call'["bus"].at # "idle" => guide'[call'["bus"].guide].running
      /\ call'["device"].at # "idle" => life'.monitor = "device"
      /\ ~Begins(call'["bundle"])
  BY <1>1, <1>2 DEF Orderly, Threads
<1>7. \A u \in {"device", "bundle"} :
        AtWork(call'[u]) => ~guide'[call'[u].guide].running
  BY <1>1, <1>3 DEF Orderly, Threads
<1>. QED  BY <1>4, <1>5, <1>6, <1>7 DEF Orderly

LEMMA DeviceOrderly ==
  ASSUME TypeOK, Course, Orderly, NEW x \in {"carplay", "other"},
         DeviceState(x) \/ TerminalModeGoes
  PROVE  Orderly'
<1>. DEFINE r == life.guide
            at(p) == [Idle EXCEPT !.at = p, !.guide = r]
<1>1. /\ life \in Life /\ life.monitor = NoThread /\ call["device"].at = "idle"
      /\ UNCHANGED <<guide, bundle>> /\ call \in [Threads -> Call]
      /\ "device" \in Threads
  BY DEF DeviceState, TerminalModeGoes, TypeOK, OthersOK, CallsOK, Threads
<1>2. \A p \in {"start", "stop"} : at(p).at = p /\ at(p).guide = r
  BY DEF Idle
<1>3. life'.guide = r
  BY <1>1 DEF DeviceState, TerminalModeGoes, HandlesDevice, Life
<1>4. \/ call' = call
      \/ call' = [call EXCEPT !["device"] = Idle]
      \/ /\ r # Nobody /\ life'.monitor = "device"
         /\ \E p \in {"start", "stop"} : call' = [call EXCEPT !["device"] = at(p)]
  BY <1>1 DEF DeviceState, TerminalModeGoes, HandlesDevice, Life
<1>5. PICK d : /\ call' = [call EXCEPT !["device"] = d]
               /\ d.at \in {"idle", "start", "stop"}
               /\ d.at # "idle" => /\ d.guide = r /\ r # Nobody
                                   /\ life'.monitor = "device"
  <2>1. CASE call' = call
    <3>1. call = [call EXCEPT !["device"] = call["device"]]
      BY <1>1
    <3>. QED  BY <1>1, <2>1, <3>1
  <2>2. CASE call' = [call EXCEPT !["device"] = Idle]
    <3>1. Idle.at = "idle"
      BY DEF Idle
    <3>. QED  BY <2>2, <3>1
  <2>3. ASSUME NEW p \in {"start", "stop"}, r # Nobody, life'.monitor = "device",
               call' = [call EXCEPT !["device"] = at(p)]
        PROVE  \E d : /\ call' = [call EXCEPT !["device"] = d]
                      /\ d.at \in {"idle", "start", "stop"}
                      /\ d.at # "idle" => /\ d.guide = r /\ r # Nobody
                                          /\ life'.monitor = "device"
    <3>. HIDE DEF at
    <3>. QED  BY <1>2, <2>3
  <2>. QED  BY <1>4, <2>1, <2>2, <2>3
<1>. QED  BY <1>1, <1>3, <1>5, DeviceTurns

LEMMA LeavesOrderly ==
  ASSUME TypeOK, Course, Orderly, NEW t \in Threads, Leaves(t)
  PROVE  Orderly'
<1>1. /\ call[t].at \in {"started", "stopped"} /\ t # "bus"
      /\ call[t].at = "stopped" => t = "device"
      /\ call' = [call EXCEPT ![t] = Idle] /\ life \in Life
      /\ life' = [life EXCEPT !.monitor = NoThread] /\ UNCHANGED <<guide, bundle>>
  BY DEF Leaves, Course, OnCourse, BusAt, TypeOK, OthersOK
<1>2. /\ call'[t] = Idle /\ \A u \in Threads \ {t} : call'[u] = call[u]
      /\ life'.guide = life.guide
  BY <1>1 DEF TypeOK, CallsOK, Life
<1>3. Idle.at = "idle" /\ ~AtWork(Idle) /\ ~Adds(Idle) /\ ~Begins(Idle)
  BY DEF Idle, AtWork, Adds, Begins
<1>4. t = "bundle" => call["device"].at = "idle"
  BY <1>1 DEF Orderly, Begins
<1>5. t = "device" => ~Begins(call["bundle"])
  BY <1>1 DEF Orderly
<1>6. \A u, v \in Threads : AtWork(call'[u]) /\ AtWork(call'[v]) => u = v
  BY <1>2, <1>3 DEF Orderly
<1>7. \A u \in Threads : call'[u].at # "idle" =>
        IF Adds(call'[u]) THEN bundle'.guide = Nobody
                          ELSE call'[u].guide = bundle'.guide
  BY <1>1, <1>2, <1>3 DEF Orderly
<1>8. /\ call'["bus"].at # "idle" => guide'[call'["bus"].guide].running
      /\ call'["device"].at = "idle" /\ ~Begins(call'["bundle"])
  BY <1>1, <1>2, <1>3, <1>4, <1>5 DEF Orderly, Threads
<1>9. \A u \in {"device", "bundle"} :
        AtWork(call'[u]) => ~guide'[call'[u].guide].running
  BY <1>1, <1>2, <1>3 DEF Orderly, Threads
<1>10. /\ \A r \in DOMAIN guide' : guide'[r].running => r = bundle'.guide
       /\ life'.guide \in {Nobody, bundle'.guide}
  BY <1>1, <1>2 DEF Orderly
<1>. QED  BY <1>6, <1>7, <1>8, <1>9, <1>10 DEF Orderly

LEMMA GoesOrderly ==
  ASSUME TypeOK, Course, Orderly, NEW s \in BOOLEAN, ServiceGoes(s)
  PROVE  Orderly'
<1>. DEFINE d == [Idle EXCEPT !.at = "stop", !.guide = bundle.guide]
<1>1. /\ call["bundle"].at = "idle" /\ bundle.guide # Nobody
      /\ call' = [call EXCEPT !["bundle"] = d] /\ UNCHANGED <<guide, life>>
      /\ bundle' = [bundle EXCEPT !.stopping = s]
      /\ bundle \in [guide : Nat, stopping : BOOLEAN] /\ "bundle" \in Threads
  BY DEF ServiceGoes, TypeOK, OthersOK, Threads
<1>2. /\ d.guide = bundle.guide /\ ~Adds(d) /\ ~Begins(d) /\ ~AtWork(d)
      /\ bundle'.guide = bundle.guide
      /\ call'["bundle"] = d
      /\ \A u \in Threads \ {"bundle"} : call'[u] = call[u]
  BY <1>1 DEF Idle, Adds, Begins, AtWork, TypeOK, CallsOK
<1>. HIDE DEF d
<1>3. \A u, v \in Threads : AtWork(call'[u]) /\ AtWork(call'[v]) => u = v
  BY <1>2 DEF Orderly
<1>4. \A u \in Threads : call'[u].at # "idle" =>
        IF Adds(call'[u]) THEN bundle'.guide = Nobody
                          ELSE call'[u].guide = bundle'.guide
  BY <1>2 DEF Orderly
<1>5. /\ call'["bus"].at # "idle" => guide'[call'["bus"].guide].running
      /\ call'["device"].at # "idle" => life'.monitor = "device"
      /\ ~Begins(call'["bundle"])
  BY <1>1, <1>2 DEF Orderly, Threads
<1>6. \A u \in {"device", "bundle"} :
        AtWork(call'[u]) => ~guide'[call'[u].guide].running
  BY <1>1, <1>2 DEF Orderly, Threads
<1>. QED  BY <1>1, <1>2, <1>3, <1>4, <1>5, <1>6 DEF Orderly

LEMMA ComesOrderly ==
  ASSUME TypeOK, Course, Orderly, ServiceComes
  PROVE  Orderly'
<1>. DEFINE g == [running |-> FALSE, active |-> FALSE, bap |-> Len(bridge) + 1]
            r == Len(guide) + 1
            c == [Idle EXCEPT !.guide = r, !.then = "added"]
            n == Len(bridge) + 1
            w == [[c EXCEPT !.bridge = n] EXCEPT !.at = "waits", !.gate = made + 1]
            q == [[c EXCEPT !.bridge = n] EXCEPT !.at = c.then]
<1>1. /\ call["bundle"].at = "idle" /\ bundle.guide = Nobody
      /\ UNCHANGED <<life, bundle>> /\ guide' = Append(guide, g)
      /\ NewBridge("bundle", c)
  BY DEF ServiceComes
<1>2. \A u \in Threads \ {"bundle"} : call[u].at = "idle"
  <2>1. ASSUME NEW u \in {"bus", "device"}, call[u].at # "idle" PROVE FALSE
    <3>1. u \in Threads /\ ~Adds(call[u])
      BY <2>1 DEF Course, OnCourse, BusAt, Adds, Threads
    <3>. QED  BY <1>1, <2>1, <3>1, GuideKnown DEF Orderly
  <2>. QED  BY <2>1 DEF Threads
<1>3. /\ DOMAIN guide' = DOMAIN guide \cup {r} /\ guide'[r] = g /\ ~g.running
      /\ \A x \in DOMAIN guide : guide'[x] = guide[x]
  <2>1. guide \in Seq(Guide) /\ g \in Guide
    BY Typed DEF TypeOK, GuidesOK, Guide
  <2>2. /\ DOMAIN Append(guide, g) = DOMAIN guide \cup {r}
        /\ Append(guide, g)[r] = g
        /\ \A x \in DOMAIN guide : Append(guide, g)[x] = guide[x]
    <3>. HIDE DEF g
    <3>. QED  BY <2>1, SeqAppended
  <2>. QED  BY <1>1, <2>2
<1>4. PICK d : /\ d.guide = r /\ Adds(d) /\ ~Begins(d)
               /\ call' = [call EXCEPT !["bundle"] = d]
  <2>1. /\ w.guide = r /\ Adds(w) /\ ~Begins(w)
        /\ q.guide = r /\ Adds(q) /\ ~Begins(q)
    BY DEF Idle, Adds, Begins
  <2>. QED  BY <1>1, <2>1 DEF NewBridge, Accesses, Dispatches
<1>5. \A x \in DOMAIN guide' : guide'[x].running => x = bundle'.guide
  <2>. HIDE DEF g
  <2>. QED  BY <1>1, <1>3 DEF Orderly
<1>6. /\ ~guide'[d.guide].running /\ life'.guide \in {Nobody, bundle'.guide}
      /\ "bundle" \in Threads \ {"bus"}
  BY <1>1, <1>3, <1>4 DEF Orderly, Threads
<1>. QED  BY <1>1, <1>2, <1>4, <1>5, <1>6, OnlyOne

LEMMA BundleOrderly ==
  ASSUME TypeOK, Course, Orderly, ServiceAcquired \/ ServiceGone
  PROVE  Orderly'
<1>. DEFINE r == call["bundle"].guide
            at(p) == [Idle EXCEPT !.at = p, !.guide = r]
<1>1. /\ AtWork(call["bundle"]) /\ life.monitor = NoThread
      /\ "bundle" \in Threads \ {"bus"} /\ UNCHANGED guide
      /\ r \in DOMAIN guide /\ ~guide[r].running
      /\ bundle \in [guide : Nat, stopping : BOOLEAN] /\ life \in Life
  <2>1. AtWork(call["bundle"]) /\ call["bundle"].at # "idle" /\ "bundle" \in Threads
    BY DEF ServiceAcquired, ServiceGone, AtWork, Threads
  <2>. QED  BY <2>1, GuideKnown
            DEF ServiceAcquired, ServiceGone, TypeOK, OthersOK, Orderly
<1>2. \A u \in Threads \ {"bundle"} : call[u].at = "idle"
  <2>1. call["device"].at = "idle"
    BY <1>1 DEF Orderly, NoThread
  <2>2. ~AtWork(call["bus"])
    BY <1>1 DEF Orderly, Threads
  <2>3. call["bus"].at = "idle"
    BY <2>2 DEF AtWork, Course, OnCourse, BusAt, Threads
  <2>. QED  BY <2>1, <2>3 DEF Threads
<1>3. Idle.at = "idle" /\ ~AtWork(Idle) /\ ~Begins(Idle)
  BY DEF Idle, AtWork, Begins
<1>4. CASE ServiceAcquired
  <2>1. /\ bundle.guide = Nobody /\ bundle'.guide = r
    BY <1>1, <1>4 DEF ServiceAcquired, Orderly, Adds
  <2>2. \A x \in DOMAIN guide : ~guide[x].running
    <3>1. \A x \in DOMAIN guide : x # Nobody
      BY Typed DEF Nobody
    <3>. QED  BY <2>1, <3>1 DEF Orderly
  <2>3. life'.guide = r
    BY <1>1, <1>4 DEF ServiceAcquired, HandlesDevice, Life
  <2>4. PICK d : /\ call' = [call EXCEPT !["bundle"] = d]
                 /\ d.at \in {"idle", "start"}
                 /\ d.at # "idle" => d.guide = r /\ life'.monitor = "bundle"
    <3>1. at("start").at = "start" /\ at("start").guide = r
      BY DEF Idle
    <3>2. \/ call' = [call EXCEPT !["bundle"] = Idle]
          \/ /\ call' = [call EXCEPT !["bundle"] = at("start")]
             /\ life'.monitor = "bundle"
      BY <1>1, <1>4 DEF ServiceAcquired, HandlesDevice, Life
    <3>. HIDE DEF at
    <3>. QED  BY <1>3, <3>1, <3>2
  <2>5. ~AtWork(d) /\ ~Adds(d) /\ (Begins(d) => d.at # "idle")
    BY <2>4 DEF AtWork, Adds, Begins
  <2>. QED  BY <1>1, <1>2, <2>1, <2>2, <2>3, <2>4, <2>5, OnlyOne
<1>5. CASE ServiceGone
  <2>1. /\ call' = [call EXCEPT !["bundle"] = Idle] /\ bundle'.guide = Nobody
        /\ life'.guide = Nobody
    BY <1>1, <1>5 DEF ServiceGone, Life
  <2>2. r = bundle.guide
    BY <1>1, <1>5 DEF ServiceGone, Orderly, Adds
  <2>3. \A x \in DOMAIN guide : ~guide[x].running
    BY <1>1, <2>2 DEF Orderly
  <2>. QED  BY <1>1, <1>2, <1>3, <2>1, <2>3, OnlyOne
<1>. QED  BY <1>4, <1>5

LEMMA DispatcherOrderly ==
  ASSUME TypeOK, Course, Orderly, DispatcherRuns
  PROVE  Orderly'
<1>. DEFINE j == Head(jobs)
            t == j.by
            c == call[t]
<1>1. /\ j \in Job /\ UNCHANGED <<guide, life, bundle>>
      /\ t # NoThread => t \in Threads /\ c.at = "waits"
  BY JobDone DEF DispatcherRuns
<1>2. CASE t = NoThread
  BY <1>1, <1>2, OrderlyStays DEF DispatcherRuns
<1>3. CASE t # NoThread
  <2>1. /\ t \in Threads /\ c \in Call /\ OnCourse(t, c) /\ JobFits(j, c)
        /\ AtWork(c)
    <3>1. JobFits(j, c)
      <4>1. 1 \in DOMAIN jobs /\ jobs[1] = j
        BY DEF DispatcherRuns, TypeOK, JobsOK
      <4>. QED  BY <1>3, <4>1 DEF Course
    <3>. QED  BY <1>1, <1>3, <3>1 DEF TypeOK, CallsOK, Course, AtWork
  <2>2. ASSUME NEW p, Onward(c, [c EXCEPT !.at = p]),
               call' = [call EXCEPT ![t] = [c EXCEPT !.at = p]]
        PROVE  Orderly'
    BY <1>1, <2>1, <2>2, Continues
  <2>3. CASE j.job = "again" /\ c.want
    BY <1>1, <1>3, <2>3, OrderlyStays DEF DispatcherRuns, Completes
  <2>4. CASE j.job = "install"
    <3>1. Onward(c, [c EXCEPT !.at = c.then])
      BY <1>1, <1>3, <2>1, <2>4 DEF Onward, JobFits, Adds, Begins, Call
    <3>. QED  BY <1>3, <2>2, <2>4, <3>1 DEF DispatcherRuns, Completes
  <2>5. CASE j.job # "install" /\ ~(j.job = "again" /\ c.want)
    <3>1. c.then \notin {"run", "added"} /\ (~c.want => c.then \in {"idle", "ended", "restore"})
      BY <1>1, <1>3, <2>1, <2>5 DEF JobFits, OnCourse
    <3>2. \A p \in {"idle", "ended", "restore", "capture", "dispose"} :
            Onward(c, [c EXCEPT !.at = p])
      BY <1>1, <1>3, <2>1, <3>1 DEF Onward, Adds, Begins, Call
    <3>3. AfterSet(c) \in {"idle", "ended", "restore", "capture"}
      BY <3>1 DEF AfterSet
    <3>4. CASE j.job = "again"
      BY <1>3, <2>2, <2>5, <3>1, <3>2, <3>4 DEF DispatcherRuns, Completes
    <3>5. CASE j.job \in {"block", "open"}
      <4>1. call' = [call EXCEPT ![t] = [c EXCEPT !.at = AfterSet(c)]]
        BY <1>3, <3>5 DEF DispatcherRuns, Completes
      <4>. QED  BY <2>2, <3>2, <3>3, <4>1
    <3>6. CASE j.job = "raw"
      BY <1>3, <2>2, <3>2, <3>6 DEF DispatcherRuns, Completes
    <3>. QED  BY <1>1, <2>5, <3>4, <3>5, <3>6 DEF Job
  <2>. QED  BY <2>3, <2>4, <2>5
<1>. QED  BY <1>2, <1>3

LEMMA GivesUpOrderly ==
  ASSUME TypeOK, Course, Orderly, NEW t \in Threads, GivesUp(t)
  PROVE  Orderly'
<1>. DEFINE c == call[t]
<1>1. PICK k \in DOMAIN jobs : jobs[k].by = t /\ Fails(t, jobs[k].job)
  BY DEF GivesUp
<1>. DEFINE job == jobs[k].job
            p == IF job = "raw" THEN "dispose"
                 ELSE IF job # "install" /\ c.want THEN "undo" ELSE c.then
<1>2. /\ c \in Call /\ OnCourse(t, c) /\ c.at = "waits" /\ AtWork(c)
      /\ JobFits(jobs[k], c) /\ jobs[k] \in Job
      /\ UNCHANGED <<guide, life, bundle>>
  BY <1>1, Typed DEF GivesUp, TypeOK, CallsOK, Course, Threads, NoThread, AtWork
<1>3. call' = [call EXCEPT ![t] = [c EXCEPT !.at = p]]
  BY <1>1, <1>2 DEF Fails, Job
<1>4. CASE job = "install"
  <2>1. Onward(c, [c EXCEPT !.at = c.then])
    BY <1>1, <1>2, <1>4 DEF Onward, JobFits, Adds, Begins, Call
  <2>. QED  BY <1>2, <1>3, <1>4, <2>1, Continues
<1>5. CASE job # "install"
  <2>1. c.then \notin {"run", "added"} /\ (~c.want => c.then \in {"idle", "ended", "restore"})
    BY <1>1, <1>2, <1>5 DEF JobFits, OnCourse, Job
  <2>2. p \in {"idle", "ended", "restore", "undo", "dispose"}
    <3>1. job = "raw" \/ c.want \/ c.then \in {"idle", "ended", "restore"}
      BY <2>1
    <3>. QED  BY <1>5, <3>1
  <2>3. \A q \in {"idle", "ended", "restore", "undo", "dispose"} :
          Onward(c, [c EXCEPT !.at = q])
    BY <1>2, <2>1 DEF Onward, Adds, Begins, Call
  <2>. HIDE DEF p
  <2>. QED  BY <1>2, <1>3, <2>2, <2>3, Continues
<1>. QED  BY <1>4, <1>5

LEMMA OrderlyStep ==
  ASSUME TypeOK, Course, Orderly, [Next]_vars, ~met'
  PROVE  Orderly'
<1>1. ASSUME NEW t \in Threads, Steps(t) PROVE Orderly'
  BY <1>1, StepsOrderly, StartsOrderly, RunsOrderly, StopsOrderly, LeavesOrderly
     DEF Steps
<1>2. CASE Bus
  BY <1>1, <1>2, BusOrderly DEF Bus, Threads
<1>3. CASE Device
  BY <1>1, <1>3 DEF Device, Threads
<1>4. CASE Bundle
  BY <1>1, <1>4, BundleOrderly DEF Bundle, Threads
<1>5. CASE Outside
  <2>1. CASE NavigationComesUp
    BY <2>1, OrderlyStays DEF NavigationComesUp
  <2>. QED  BY <1>5, <2>1, FrameOrderly, DeviceOrderly, ComesOrderly, GoesOrderly
            DEF Outside
<1>6. CASE UNCHANGED vars
  BY <1>6, OrderlyStays DEF vars
<1>. QED  BY <1>2, <1>3, <1>4, <1>5, <1>6, DispatcherOrderly, GivesUpOrderly
          DEF Next

-----------------------------------------------------------------------------
(* Guarded: the gate of the bridge in use is as its flags say.             *)

LEMMA BridgeKnown ==
  ASSUME TypeOK, NEW t \in Threads, call[t].at \in AtBridge
  PROVE  /\ call[t].bridge \in DOMAIN bridge /\ AtOne(call[t]) /\ AtWork(call[t])
         /\ call[t].guide \in DOMAIN guide
  BY DEF TypeOK, CallsOK, BridgesOK, GuidesOK, Sound, Nobody, AtOne, AtWork, AtBridge

(* Nobody waits for a job but the one at work.                             *)
LEMMA NoJobs ==
  ASSUME TypeOK, Queued, NEW t \in Threads, call[t].at # "waits",
         \A u \in Threads \ {t} : ~AtWork(call[u])
  PROVE  jobs = <<>>
<1>1. ASSUME NEW k \in DOMAIN jobs PROVE FALSE
  <2>0. jobs[k] \in Job /\ jobs[k].by # NoThread
    BY <1>1, Typed DEF Queued
  <2>1. jobs[k].by \in Threads /\ call[jobs[k].by].at = "waits"
    BY <1>1, <2>0 DEF TypeOK, JobsOK, Job
  <2>. QED  BY <2>1 DEF AtWork
<1>2. jobs \in Seq(Job) /\ DOMAIN jobs = {}
  BY <1>1 DEF TypeOK, JobsOK
<1>. QED  BY <1>2, EmptySeq

(* The one at work has the bridge in use.                                  *)
LEMMA Mine ==
  ASSUME TypeOK, Orderly, Linked, NEW t \in Threads, AtOne(call[t]),
         NEW b \in DOMAIN bridge, Uses(b)
  PROVE  b = call[t].bridge
<1>1. AtWork(call[t]) /\ call[t].at # "idle" /\ b # Nobody
  BY Typed DEF AtOne, AtWork, AtBridge, Nobody
<1>2. CASE \E u \in Threads : AtOne(call[u]) /\ call[u].bridge = b
  BY <1>1, <1>2 DEF Orderly, AtOne, AtWork, AtBridge
<1>3. CASE bundle.guide # Nobody /\ guide[bundle.guide].bap = b
  BY <1>1, <1>3 DEF Orderly, Linked
<1>. QED  BY <1>2, <1>3 DEF Uses

(* The gates, and what the bridges know of them, stay as they are.         *)
Unmoved ==
  /\ DOMAIN bridge' = DOMAIN bridge
  /\ \A b \in DOMAIN bridge : /\ bridge'[b].installed = bridge[b].installed
                              /\ bridge'[b].active = bridge[b].active
                              /\ bridge'[b].gate = bridge[b].gate
  /\ nav'.service = nav.service /\ nav'.closed = nav.closed

LEMMA FollowsStays ==
  ASSUME Unmoved, jobs' = jobs, NEW b \in DOMAIN bridge, Follows(b)
  PROVE  Follows(b)'
  BY DEF Unmoved, Follows, Restoring

LEMMA QueuedStays ==
  ASSUME TypeOK, Queued, Unmoved, jobs' = jobs, NEW t \in Threads,
         call[t].at # "waits", NEW d, call' = [call EXCEPT ![t] = d]
  PROVE  Queued'
<1>1. ASSUME NEW k \in DOMAIN jobs
      PROVE  /\ call'[jobs[k].by] = call[jobs[k].by]
             /\ call[jobs[k].by].bridge \in DOMAIN bridge
  <2>0. jobs[k] \in Job /\ jobs[k].by # NoThread
    BY <1>1, Typed DEF Queued
  <2>1. jobs[k].by \in Threads /\ call[jobs[k].by].at = "waits"
    BY <1>1, <2>0 DEF TypeOK, JobsOK, Job
  <2>. QED  BY <2>1, BridgeKnown DEF TypeOK, CallsOK, AtBridge
<1>. QED  BY <1>1 DEF Queued, Unmoved

LEMMA OwningStays ==
  ASSUME TypeOK, Owning, Unmoved, NEW t \in Threads,
         NEW d, call' = [call EXCEPT ![t] = d],
         t = "bus" /\ d.at \in PastGate =>
           call["bus"].at \in PastGate /\ d.bridge = call["bus"].bridge
  PROVE  Owning'
<1>1. call["bus"].at \in PastGate => call["bus"].bridge \in DOMAIN bridge
  BY BridgeKnown DEF PastGate, AtBridge, Threads
<1>. QED  BY <1>1 DEF Owning, Unmoved, TypeOK, CallsOK, Threads

(* A step that moves no gate: it takes up no bridge that was not in use.   *)
LEMMA PlainGuarded ==
  ASSUME TypeOK, Guarded, Unmoved, jobs' = jobs, NEW t \in Threads,
         call[t].at # "waits", NEW d, call' = [call EXCEPT ![t] = d],
         Linked', \A b \in DOMAIN bridge : Uses(b)' => Uses(b), Owning'
  PROVE  Guarded'
<1>1. Queued'
  BY QueuedStays DEF Guarded
<1>2. ASSUME NEW b \in DOMAIN bridge', Uses(b)'
      PROVE  Follows(b)'
  BY <1>2, FollowsStays DEF Guarded, GateInv, Unmoved
<1>. QED  BY <1>1, <1>2 DEF Guarded, GateInv

(* The one at work goes on with its bridge, or leaves it.                  *)
LEMMA Within ==
  ASSUME TypeOK, Orderly, Linked, NEW t \in Threads, AtOne(call[t]),
         NEW d, call' = [call EXCEPT ![t] = d],
         AtOne(d) => d.guide = call[t].guide /\ d.bridge = call[t].bridge,
         UNCHANGED <<guide, bundle>>
  PROVE  Linked' /\ \A b : Uses(b)' => Uses(b)
<1>1. call'[t] = d /\ \A u \in Threads \ {t} : call'[u] = call[u]
  BY DEF TypeOK, CallsOK
<1>2. Linked'
  BY <1>1 DEF Linked
<1>3. ASSUME NEW b, Uses(b)' PROVE Uses(b)
  BY <1>1, <1>3 DEF Uses
<1>. QED  BY <1>2, <1>3

(* A thread takes up the guidance of the bundle, with its bridge.          *)
LEMMA Joins ==
  ASSUME TypeOK, Linked, NEW t \in Threads,
         NEW d, call' = [call EXCEPT ![t] = d],
         AtOne(d) => /\ bundle.guide # Nobody /\ d.guide = bundle.guide
                     /\ d.bridge = guide[bundle.guide].bap
                     /\ d.guide \in DOMAIN guide,
         \A r \in DOMAIN guide : guide'[r].bap = guide[r].bap,
         bundle'.guide = bundle.guide
  PROVE  Linked' /\ \A b : Uses(b)' => Uses(b)
<1>1. call'[t] = d /\ \A u \in Threads \ {t} : call'[u] = call[u]
  BY DEF TypeOK, CallsOK
<1>2. \A u \in Threads : AtOne(call[u]) => call[u].guide \in DOMAIN guide
  BY GuideKnown DEF AtOne, AtBridge
<1>3. Linked'
  BY <1>1, <1>2 DEF Linked
<1>4. bundle.guide # Nobody => bundle.guide \in DOMAIN guide
  BY DEF TypeOK, OthersOK, GuidesOK, Nobody
<1>5. ASSUME NEW b, Uses(b)' PROVE Uses(b)
  BY <1>1, <1>4, <1>5 DEF Uses
<1>. QED  BY <1>3, <1>5

LEMMA GuardedStays ==
  ASSUME Guarded, UNCHANGED <<call, guide, bundle, jobs, bridge>>, Unmoved
  PROVE  Guarded'
  BY DEF Guarded, Linked, Queued, GateInv, Uses, Follows, Restoring, Owning, Unmoved

(* What changes of a bridge besides its gate.                              *)
LEMMA UnmovedBridge ==
  ASSUME TypeOK, NEW b \in DOMAIN bridge, NEW v,
         v.installed = bridge[b].installed, v.active = bridge[b].active,
         v.gate = bridge[b].gate,
         bridge' \in {bridge, [bridge EXCEPT ![b] = v]},
         nav'.service = nav.service, nav'.closed = nav.closed
  PROVE  Unmoved
  BY DEF Unmoved

LEMMA ReadsGuarded ==
  ASSUME TypeOK, Course, Orderly, Guarded, NEW t \in Threads, ReadsOwnership(t)
  PROVE  Guarded'
<1>. DEFINE c == call[t]
<1>1. /\ c \in Call /\ c.at = "set" /\ AtOne(c) /\ OnCourse(t, c)
      /\ UNCHANGED <<nav, bridge, guide, bundle, jobs>>
  BY DEF ReadsOwnership, TypeOK, CallsOK, Course, AtOne, AtBridge
<1>2. /\ \A p : [c EXCEPT !.at = p].guide = c.guide
                /\ [c EXCEPT !.at = p].bridge = c.bridge
                /\ [c EXCEPT !.at = p].at = p
      /\ Idle.at = "idle" /\ ~AtOne(Idle)
  BY <1>1 DEF Call, Idle, AtOne, AtBridge
<1>3. ~c.want => c.then \notin PastGate
  BY <1>1 DEF OnCourse, PastGate
<1>4. PICK d : /\ call' = [call EXCEPT ![t] = d]
               /\ AtOne(d) => d.guide = c.guide /\ d.bridge = c.bridge
               /\ d.at \notin PastGate
  <2>1. \/ call' = [call EXCEPT ![t] = [c EXCEPT !.at = "enter"]]
        \/ call' = [call EXCEPT ![t] = Idle]
        \/ ~c.want /\ call' = [call EXCEPT ![t] = [c EXCEPT !.at = c.then]]
    BY DEF ReadsOwnership
  <2>2. {"enter", "idle"} \cap PastGate = {}
    BY DEF PastGate
  <2>3. ASSUME NEW p, p \notin PastGate,
               call' = [call EXCEPT ![t] = [c EXCEPT !.at = p]]
        PROVE  \E d : /\ call' = [call EXCEPT ![t] = d]
                      /\ AtOne(d) => d.guide = c.guide /\ d.bridge = c.bridge
                      /\ d.at \notin PastGate
    BY <1>2, <2>3
  <2>4. CASE call' = [call EXCEPT ![t] = Idle]
    BY <1>2, <2>2, <2>4
  <2>. QED  BY <1>3, <2>1, <2>2, <2>3, <2>4
<1>5. Unmoved
  BY <1>1 DEF Unmoved
<1>6. Linked' /\ \A b : Uses(b)' => Uses(b)
  BY <1>1, <1>4, Within DEF Guarded
<1>7. Owning'
  BY <1>4, <1>5, OwningStays DEF Guarded
<1>. QED  BY <1>1, <1>4, <1>5, <1>6, <1>7, PlainGuarded

LEMMA GoesGuarded ==
  ASSUME TypeOK, Course, Orderly, Guarded, NEW t \in Threads, GoesDown(t)
  PROVE  Guarded'
<1>. DEFINE c == call[t]
            own == bridge[c.bridge]
            q == IF c.at = "undo" THEN "idle" ELSE c.then
            v == [own EXCEPT !.forced = own.forced /\ ~own.cluster,
                             !.captured = FALSE]
            s == [c EXCEPT !.at = "set", !.want = FALSE, !.then = q]
<1>1. /\ c \in Call /\ c.at \in {"undo", "down"} /\ AtOne(c) /\ OnCourse(t, c)
      /\ c.bridge \in DOMAIN bridge /\ UNCHANGED <<guide, bundle, jobs>>
  BY BridgeKnown DEF GoesDown, TypeOK, CallsOK, Course, AtBridge
<1>2. own \in Bridge /\ nav \in Nav
  BY <1>1, Typed DEF TypeOK, OthersOK
<1>3. Unmoved
  <2>1. /\ v.installed = own.installed /\ v.active = own.active
        /\ v.gate = own.gate
    BY <1>2 DEF Bridge
  <2>2. bridge' \in {bridge, [bridge EXCEPT ![c.bridge] = v]}
    BY DEF GoesDown, TakesOverlayOff
  <2>3. nav'.service = nav.service /\ nav'.closed = nav.closed
    BY <1>2 DEF GoesDown, TakesOverlayOff, Nav
  <2>. HIDE DEF v
  <2>. QED  BY <1>1, <2>1, <2>2, <2>3, UnmovedBridge
<1>4. PICK d : /\ call' = [call EXCEPT ![t] = d]
               /\ d.guide = c.guide /\ d.bridge = c.bridge
               /\ d.at \notin PastGate
  <2>1. s.guide = c.guide /\ s.bridge = c.bridge /\ s.at = "set"
    BY <1>1 DEF Call
  <2>2. c.at = "down" => c.then \notin PastGate
    BY <1>1 DEF OnCourse, PastGate
  <2>3. /\ [c EXCEPT !.at = c.then].guide = c.guide
        /\ [c EXCEPT !.at = c.then].bridge = c.bridge
        /\ [c EXCEPT !.at = c.then].at = c.then
    BY <1>1 DEF Call
  <2>4. \/ call' = [call EXCEPT ![t] = s]
        \/ c.at = "down" /\ call' = [call EXCEPT ![t] = [c EXCEPT !.at = c.then]]
    BY DEF GoesDown
  <2>. QED  BY <2>1, <2>2, <2>3, <2>4 DEF PastGate
<1>5. Linked' /\ \A b : Uses(b)' => Uses(b)
  BY <1>1, <1>4, Within DEF Guarded
<1>6. Owning'
  BY <1>3, <1>4, OwningStays DEF Guarded
<1>. QED  BY <1>1, <1>3, <1>4, <1>5, <1>6, PlainGuarded

(* A step that has a thread at work wait for its job.                      *)
LEMMA DispatchGuarded ==
  ASSUME TypeOK, Orderly, Guarded, NEW t \in Threads, AtOne(call[t]),
         NEW d, call' = [call EXCEPT ![t] = d], d.at = "waits",
         d.guide = call[t].guide, d.bridge = call[t].bridge,
         UNCHANGED <<guide, bundle>>, DOMAIN bridge' = DOMAIN bridge,
         NEW j, jobs' = Append(jobs, j), jobs = <<>>, j.by = t,
         j.job \in {"block", "open"} => /\ bridge'[d.bridge].installed
                                        /\ bridge'[d.bridge].gate = j.gate,
         bridge'[d.bridge].installed =>
           /\ nav'.service = bridge'[d.bridge].gate
           /\ bridge'[d.bridge].active /\ j.job # "raw"
                => bridge'[d.bridge].gate \in nav'.closed
  PROVE  Guarded'
<1>1. call'[t] = d /\ \A u \in Threads \ {t} : call'[u] = call[u]
  BY DEF TypeOK, CallsOK
<1>2. DOMAIN jobs' = {1} /\ jobs'[1] = j /\ Len(jobs') = 1
  OBVIOUS
<1>3. Linked' /\ \A b : Uses(b)' => Uses(b)
  BY Within DEF Guarded
<1>4. Queued'
  BY <1>1, <1>2 DEF Queued, Threads, NoThread
<1>5. ASSUME NEW b \in DOMAIN bridge', Uses(b)'
      PROVE  Follows(b)'
  <2>1. b = d.bridge
    BY <1>3, <1>5, Mine DEF Guarded
  <2>. QED  BY <1>2, <2>1 DEF Follows, Restoring
<1>6. Owning'
  <2>1. call'["bus"].at \notin PastGate
    <3>1. \A u \in Threads \ {t} : ~AtWork(call[u])
      BY DEF Orderly, AtOne, AtWork, AtBridge
    <3>2. CASE t = "bus"
      BY <1>1, <3>2 DEF PastGate
    <3>3. CASE t # "bus"
      BY <1>1, <3>1, <3>3 DEF PastGate, AtWork, Threads
    <3>. QED  BY <3>2, <3>3
  <2>. QED  BY <2>1 DEF Owning
<1>. QED  BY <1>3, <1>4, <1>5, <1>6 DEF Guarded, GateInv

(* Who is at work with a bridge knows that nobody waits, and its bridge.   *)
LEMMA AtWorkAlone ==
  ASSUME TypeOK, Orderly, Guarded, NEW t \in Threads,
         call[t].at \in AtBridge \ {"waits"}
  PROVE  /\ jobs = <<>> /\ ~Restoring /\ AtOne(call[t])
         /\ call[t].bridge \in DOMAIN bridge /\ bridge[call[t].bridge] \in Bridge
         /\ Follows(call[t].bridge)
<1>1. /\ AtOne(call[t]) /\ AtWork(call[t]) /\ call[t].bridge \in DOMAIN bridge
  BY BridgeKnown
<1>2. \A u \in Threads \ {t} : ~AtWork(call[u])
  BY <1>1 DEF Orderly
<1>3. jobs = <<>>
  BY <1>2, NoJobs DEF Guarded
<1>4. Uses(call[t].bridge)
  BY <1>1 DEF Uses
<1>. QED  BY <1>1, <1>3, <1>4, Typed DEF Restoring, Guarded, GateInv

LEMMA SetsGuarded ==
  ASSUME TypeOK, Course, Orderly, Guarded, NEW t \in Threads, SetsRoute(t)
  PROVE  Guarded'
<1>. DEFINE c == call[t]
            b == c.bridge
            own == bridge[b]
            v == [own EXCEPT !.monitor = t]
            g == IF own.installed THEN own.gate ELSE made + 1
            w == [c EXCEPT !.at = "waits", !.gate = g]
            job(what) == [job |-> what, gate |-> g, by |-> t]
<1>1. /\ c \in Call /\ c.at = "enter" /\ AtOne(c) /\ OnCourse(t, c)
      /\ b \in DOMAIN bridge /\ own \in Bridge /\ jobs = <<>> /\ ~Restoring
      /\ Follows(b) /\ UNCHANGED <<nav, guide, bundle>>
  BY AtWorkAlone DEF SetsRoute, TypeOK, CallsOK, Course, AtBridge
<1>2. /\ v.installed = own.installed /\ v.active = own.active
      /\ v.gate = own.gate
  BY <1>1 DEF Bridge
<1>3. bridge' \in {bridge, [bridge EXCEPT ![b] = v]}
  BY DEF SetsRoute
<1>4. Unmoved
  <2>. HIDE DEF v
  <2>. QED  BY <1>1, <1>2, <1>3, UnmovedBridge
<1>5. ASSUME NEW what \in {"again", "block", "open"},
             what \in {"block", "open"} => own.installed,
             Dispatches(t, c, what, g)
      PROVE  Guarded'
  <2>1. /\ jobs' = Append(jobs, job(what)) /\ call' = [call EXCEPT ![t] = w]
        /\ job(what).by = t /\ job(what).job = what /\ job(what).gate = g
    BY <1>5 DEF Dispatches
  <2>2. w.at = "waits" /\ w.guide = c.guide /\ w.bridge = b
    BY <1>1 DEF Call
  <2>3. what \in {"block", "open"} => bridge'[b].installed /\ bridge'[b].gate = g
    BY <1>1, <1>4, <1>5 DEF Unmoved
  <2>4. bridge'[b].installed =>
          /\ nav'.service = bridge'[b].gate
          /\ bridge'[b].active => bridge'[b].gate \in nav'.closed
    BY <1>1, <1>4 DEF Follows, Unmoved
  <2>5. DOMAIN bridge' = DOMAIN bridge
    BY <1>4 DEF Unmoved
  <2>. DEFINE j == job(what)
  <2>6. /\ jobs' = Append(jobs, j) /\ j.by = t /\ j.gate = g
        /\ j.job \in {"block", "open"} => /\ bridge'[w.bridge].installed
                                       /\ bridge'[w.bridge].gate = j.gate
        /\ call' = [call EXCEPT ![t] = w]
    BY <2>1, <2>2, <2>3
  <2>. HIDE DEF w, job, j, g, own
  <2>. QED  BY <1>1, <2>2, <2>4, <2>5, <2>6, DispatchGuarded
<1>6. CASE /\ jobs' = jobs
           /\ ~(own.installed /\ own.active # c.want)
           /\ \/ call' = [call EXCEPT ![t] = Idle]
              \/ /\ c.want => own.installed
                 /\ call' = [call EXCEPT ![t] = [c EXCEPT !.at = AfterSet(c)]]
  <2>1. /\ [c EXCEPT !.at = AfterSet(c)].guide = c.guide
        /\ [c EXCEPT !.at = AfterSet(c)].bridge = b
        /\ [c EXCEPT !.at = AfterSet(c)].at = AfterSet(c)
        /\ Idle.at = "idle" /\ ~AtOne(Idle) /\ "idle" \notin PastGate
    BY <1>1 DEF Call, Idle, AtOne, AtBridge, PastGate
  <2>2. AfterSet(c) \in PastGate => c.want
    BY <1>1 DEF AfterSet, OnCourse, PastGate
  <2>3. PICK d : /\ call' = [call EXCEPT ![t] = d]
                 /\ AtOne(d) => d.guide = c.guide /\ d.bridge = b
                 /\ d.at \in PastGate => c.want /\ own.installed /\ d.bridge = b
    BY <1>6, <2>1, <2>2
  <2>4. Linked' /\ \A x : Uses(x)' => Uses(x)
    BY <1>1, <2>3, Within DEF Guarded
  <2>5. Owning'
    <3>1. call'[t] = d /\ \A u \in Threads \ {t} : call'[u] = call[u]
      BY <2>3 DEF TypeOK, CallsOK
    <3>2. CASE t = "bus"
      <4>1. own.active \in BOOLEAN /\ c.want \in BOOLEAN
        BY <1>1 DEF Bridge, Call
      <4>2. d.at \in PastGate => own.installed /\ own.active
        BY <1>6, <2>3, <4>1
      <4>. QED  BY <1>1, <1>4, <2>3, <3>1, <3>2, <4>2 DEF Owning, Unmoved
    <3>3. CASE t # "bus"
      BY <1>4, <2>3, <3>3, OwningStays DEF Guarded
    <3>. QED  BY <3>2, <3>3
  <2>. QED  BY <1>1, <1>4, <1>6, <2>3, <2>4, <2>5, PlainGuarded
<1>. QED  BY <1>5, <1>6 DEF SetsRoute

LEMMA RestoresGuarded ==
  ASSUME TypeOK, Course, Orderly, Guarded, NEW t \in Threads, Restores(t)
  PROVE  Guarded'
<1>. DEFINE c == call[t]
            b == c.bridge
            own == bridge[b]
            v == [own EXCEPT !.monitor = t]
            w == [c EXCEPT !.at = "waits", !.gate = own.gate]
            job == [job |-> "raw", gate |-> own.gate, by |-> t]
            d == [c EXCEPT !.at = "dispose"]
<1>1. /\ c \in Call /\ c.at = "restore" /\ AtOne(c) /\ OnCourse(t, c)
      /\ b \in DOMAIN bridge /\ own \in Bridge /\ jobs = <<>> /\ ~Restoring
      /\ Follows(b) /\ UNCHANGED <<guide, bundle>> /\ nav \in Nav
  BY AtWorkAlone DEF Restores, TypeOK, CallsOK, OthersOK, Course, AtBridge
<1>2. CASE /\ Dispatches(t, c, "raw", own.gate)
           /\ nav' = [nav EXCEPT !.closed = nav.closed \ {own.gate}]
           /\ bridge' = [bridge EXCEPT ![b] = v]
  <2>1. /\ jobs' = Append(jobs, job) /\ call' = [call EXCEPT ![t] = w]
        /\ job.by = t /\ job.job = "raw"
    BY <1>2 DEF Dispatches
  <2>2. w.at = "waits" /\ w.guide = c.guide /\ w.bridge = b
    BY <1>1 DEF Call
  <2>3. /\ bridge'[b].installed = own.installed /\ bridge'[b].gate = own.gate
        /\ DOMAIN bridge' = DOMAIN bridge /\ nav'.service = nav.service
    BY <1>1, <1>2 DEF Bridge, Nav
  <2>4. bridge'[b].installed => nav'.service = bridge'[b].gate
    BY <1>1, <2>3 DEF Follows
  <2>. HIDE DEF w, job
  <2>. QED  BY ZenonT(40), <1>1, <2>1, <2>2, <2>3, <2>4, DispatchGuarded
<1>3. CASE call' = [call EXCEPT ![t] = d] /\ UNCHANGED <<nav, jobs, bridge>>
  <2>1. d.guide = c.guide /\ d.bridge = b /\ d.at \notin PastGate
    BY <1>1 DEF Call, PastGate
  <2>2. Unmoved
    BY <1>3 DEF Unmoved
  <2>. HIDE DEF d
  <2>3. Linked' /\ \A x : Uses(x)' => Uses(x)
    BY <1>1, <1>3, <2>1, Within DEF Guarded
  <2>4. Owning'
    BY <1>3, <2>1, <2>2, OwningStays DEF Guarded
  <2>. QED  BY <1>1, <1>3, <2>2, <2>3, <2>4, PlainGuarded
<1>. QED  BY <1>2, <1>3 DEF Restores

LEMMA FindsGuarded ==
  ASSUME TypeOK, Course, Orderly, Guarded, FindsGate
  PROVE  Guarded'
<1>. DEFINE e == call["bus"]
            b == e.bridge
            own == bridge[b]
            c == [e EXCEPT !.want = TRUE, !.then = "set"]
            v == [own EXCEPT !.cluster = TRUE, !.owned = TRUE,
                    !.installed = FALSE, !.active = FALSE, !.monitor = "bus"]
            w == [c EXCEPT !.at = "waits", !.gate = made + 1]
            job == [job |-> "install", gate |-> made + 1, by |-> "bus"]
            d == [c EXCEPT !.at = "set"]
<1>1. /\ e \in Call /\ e.at = "own" /\ AtOne(e) /\ "bus" \in Threads
      /\ b \in DOMAIN bridge /\ own \in Bridge /\ jobs = <<>>
      /\ UNCHANGED <<nav, guide, bundle>>
  BY AtWorkAlone DEF FindsGate, TypeOK, CallsOK, AtBridge, Threads
<1>2. /\ c.bridge = b /\ w.at = "waits" /\ w.guide = e.guide /\ w.bridge = b
      /\ d.at = "set" /\ d.guide = e.guide /\ d.bridge = b
  BY <1>1 DEF Call
<1>3. CASE Accesses("bus", c, bridge)
  <2>1. /\ jobs' = Append(jobs, job) /\ call' = [call EXCEPT !["bus"] = w]
        /\ bridge' = [bridge EXCEPT ![b] = v]
        /\ job.by = "bus" /\ job.job = "install"
    BY <1>2, <1>3 DEF Accesses, Dispatches
  <2>2. v.installed = FALSE
    BY <1>1 DEF Bridge
  <2>3. ~bridge'[b].installed /\ DOMAIN bridge' = DOMAIN bridge
    BY <1>1, <2>1, <2>2
  <2>. HIDE DEF w, job
  <2>. QED  BY <1>1, <1>2, <2>1, <2>3, DispatchGuarded
<1>4. CASE UNCHANGED <<jobs, bridge>> /\ call' \in {[call EXCEPT !["bus"] = d],
                                                   [call EXCEPT !["bus"] = Idle]}
  <2>1. Idle.at = "idle" /\ ~AtOne(Idle)
    BY DEF Idle, AtOne, AtBridge
  <2>2. PICK x : /\ call' = [call EXCEPT !["bus"] = x] /\ x.at \notin PastGate
                 /\ AtOne(x) => x.guide = e.guide /\ x.bridge = b
    <3>. HIDE DEF d
    <3>. QED  BY <1>2, <1>4, <2>1 DEF PastGate
  <2>3. Unmoved
    BY <1>1, <1>4 DEF Unmoved
  <2>4. Linked' /\ \A y : Uses(y)' => Uses(y)
    BY <1>1, <2>2, Within DEF Guarded
  <2>5. Owning'
    BY <1>1, <2>2, <2>3, OwningStays DEF Guarded
  <2>. QED  BY <1>1, <1>4, <2>2, <2>3, <2>4, <2>5, PlainGuarded
<1>. QED  BY <1>3, <1>4 DEF FindsGate

LEMMA TakesGuarded ==
  ASSUME TypeOK, Course, Orderly, Guarded, TakesOver
  PROVE  Guarded'
<1>. DEFINE c == call["bus"]
            b == c.bridge
            own == bridge[b]
            seen == [own EXCEPT !.captured = TRUE, !.view = nav.view]
            forced == [own EXCEPT !.forced = TRUE,
                         !.saved = IF own.forced THEN @ ELSE nav.rgActive]
<1>1. /\ c \in Call /\ c.at \in PastGate /\ AtOne(c) /\ "bus" \in Threads
      /\ b \in DOMAIN bridge /\ own \in Bridge /\ nav \in Nav
      /\ c.guide \in DOMAIN guide /\ UNCHANGED <<jobs, bundle>> /\ c.at # "waits"
  BY BridgeKnown, AtWorkAlone
     DEF TakesOver, TypeOK, CallsOK, OthersOK, AtBridge, PastGate, Threads
<1>2. Unmoved
  <2>1. /\ seen.installed = own.installed /\ seen.active = own.active
        /\ seen.gate = own.gate
        /\ forced.installed = own.installed /\ forced.active = own.active
        /\ forced.gate = own.gate
    BY <1>1 DEF Bridge
  <2>2. \/ bridge' \in {bridge, [bridge EXCEPT ![b] = seen]}
        \/ bridge' \in {bridge, [bridge EXCEPT ![b] = forced]}
    BY DEF TakesOver
  <2>3. nav'.service = nav.service /\ nav'.closed = nav.closed
    BY <1>1 DEF TakesOver, Nav
  <2>. HIDE DEF seen, forced
  <2>. QED  BY <1>1, <2>1, <2>2, <2>3, UnmovedBridge
<1>3. PICK d : /\ call' = [call EXCEPT !["bus"] = d]
               /\ AtOne(d) => d.guide = c.guide /\ d.bridge = b
               /\ d.at \in PastGate => d.bridge = b
  <2>1. /\ \A p : [c EXCEPT !.at = p].guide = c.guide
                  /\ [c EXCEPT !.at = p].bridge = b
        /\ Idle.at = "idle" /\ ~AtOne(Idle) /\ "idle" \notin PastGate
    BY <1>1 DEF Call, Idle, AtOne, AtBridge, PastGate
  <2>2. \/ \E p : call' = [call EXCEPT !["bus"] = [c EXCEPT !.at = p]]
        \/ call' = [call EXCEPT !["bus"] = Idle]
    BY DEF TakesOver
  <2>3. CASE call' = [call EXCEPT !["bus"] = Idle]
    BY <2>1, <2>3
  <2>4. ASSUME NEW p, call' = [call EXCEPT !["bus"] = [c EXCEPT !.at = p]]
        PROVE  \E d : /\ call' = [call EXCEPT !["bus"] = d]
                      /\ AtOne(d) => d.guide = c.guide /\ d.bridge = b
                      /\ d.at \in PastGate => d.bridge = b
    BY <2>1, <2>4
  <2>. QED  BY <2>2, <2>3, <2>4
<1>4. \A r \in DOMAIN guide : guide'[r].bap = guide[r].bap
  <2>1. \A r \in DOMAIN guide : guide[r] \in Guide
    BY Typed
  <2>2. guide' \in {guide,
                [guide EXCEPT ![c.guide] = [guide[c.guide] EXCEPT !.active = TRUE]]}
    BY DEF TakesOver
  <2>. QED  BY <2>1, <2>2 DEF Guide
<1>5. call'["bus"] = d /\ \A u \in Threads \ {"bus"} : call'[u] = call[u]
  BY <1>1, <1>3 DEF TypeOK, CallsOK
<1>6. \A u \in Threads : AtOne(call[u]) => call[u].guide \in DOMAIN guide
  BY GuideKnown DEF AtOne, AtBridge
<1>7. Linked'
  BY <1>1, <1>3, <1>4, <1>5, <1>6 DEF Guarded, Linked
<1>8. bundle.guide # Nobody => bundle.guide \in DOMAIN guide
  BY DEF TypeOK, OthersOK, GuidesOK, Nobody
<1>9. ASSUME NEW x, Uses(x)' PROVE Uses(x)
  BY <1>1, <1>3, <1>4, <1>5, <1>8, <1>9 DEF Uses
<1>10. Owning'
  BY <1>1, <1>2, <1>3, OwningStays DEF Guarded
<1>. QED  BY <1>1, <1>2, <1>3, <1>7, <1>9, <1>10, PlainGuarded

(* The one at work leaves its bridge, with or without its guidance.        *)
LEMMA LeavesBridge ==
  ASSUME TypeOK, Orderly, Guarded, NEW t \in Threads,
         call[t].at \in AtBridge \ {"waits"}, Unmoved, jobs' = jobs,
         NEW d, call' = [call EXCEPT ![t] = d], d.at \in {"started", "stopped"},
         guide'[call[t].guide].bap \in {Nobody, call[t].bridge},
         \A r \in DOMAIN guide : r # call[t].guide => guide'[r] = guide[r],
         UNCHANGED bundle
  PROVE  Guarded'
<1>. DEFINE c == call[t]
<1>1. /\ c.guide \in DOMAIN guide /\ AtOne(c) /\ AtWork(c)
      /\ call'[t] = d /\ ~AtOne(d)
      /\ \A u \in Threads \ {t} : call'[u] = call[u]
  BY BridgeKnown DEF TypeOK, CallsOK, AtOne, AtBridge
<1>2. \A u \in Threads : ~AtOne(call'[u])
  BY <1>1 DEF Orderly, AtOne, AtWork, AtBridge
<1>3. Linked'
  BY <1>2 DEF Linked
<1>4. bundle.guide # Nobody => bundle.guide \in DOMAIN guide
  BY DEF TypeOK, OthersOK, GuidesOK, Nobody
<1>5. ASSUME NEW b \in DOMAIN bridge, Uses(b)' PROVE Uses(b)
  <2>1. bundle.guide # Nobody /\ guide'[bundle.guide].bap = b
    BY <1>2, <1>5 DEF Uses
  <2>2. b # Nobody
    BY Typed DEF Nobody
  <2>3. CASE bundle.guide = c.guide
    BY <1>1, <2>1, <2>2, <2>3 DEF Uses
  <2>4. CASE bundle.guide # c.guide
    BY <1>1, <1>4, <2>1, <2>4 DEF Uses
  <2>. QED  BY <2>3, <2>4
<1>6. Owning'
  BY OwningStays DEF Guarded, PastGate
<1>. QED  BY <1>3, <1>5, <1>6, PlainGuarded

LEMMA DisposesGuarded ==
  ASSUME TypeOK, Course, Orderly, Guarded, NEW t \in Threads,
         Disposes(t) \/ Runs(t)
  PROVE  Guarded'
<1>. DEFINE c == call[t]
            b == c.bridge
            own == bridge[b]
            v == [own EXCEPT !.owned = FALSE, !.init = FALSE, !.cluster = FALSE]
            g == [guide[c.guide] EXCEPT !.bap = Nobody]
            h == [running |-> TRUE, active |-> FALSE, bap |-> b]
            stop == [c EXCEPT !.at = "stopped"]
            run == [c EXCEPT !.at = "started"]
<1>1. /\ c \in Call /\ c.at \in {"dispose", "run"} /\ b \in DOMAIN bridge
      /\ own \in Bridge /\ guide[c.guide] \in Guide /\ c.guide \in DOMAIN guide
      /\ UNCHANGED <<nav, jobs, bundle>>
  BY BridgeKnown, AtWorkAlone, Typed DEF Disposes, Runs, TypeOK, CallsOK, AtBridge
<1>2. /\ v.installed = own.installed /\ v.active = own.active /\ v.gate = own.gate
      /\ g.bap = Nobody /\ h.bap = b /\ stop.at = "stopped" /\ run.at = "started"
  BY <1>1 DEF Bridge, Guide, Call
<1>3. bridge' \in {bridge, [bridge EXCEPT ![b] = v]}
  BY DEF Disposes, Runs
<1>. HIDE DEF v
<1>4. Unmoved
  BY <1>1, <1>2, <1>3, UnmovedBridge
<1>5. PICK d : call' = [call EXCEPT ![t] = d] /\ d.at \in {"started", "stopped"}
  <2>1. call' \in {[call EXCEPT ![t] = stop], [call EXCEPT ![t] = run]}
    BY DEF Disposes, Runs
  <2>. HIDE DEF stop, run
  <2>. QED  BY <1>2, <2>1
<1>6. /\ guide'[c.guide].bap \in {Nobody, b}
      /\ \A r \in DOMAIN guide : r # c.guide => guide'[r] = guide[r]
  <2>1. guide' \in {[guide EXCEPT ![c.guide] = g], [guide EXCEPT ![c.guide] = h]}
    BY DEF Disposes, Runs
  <2>. HIDE DEF g, h
  <2>. QED  BY <1>1, <1>2, <2>1
<1>7. /\ c.at \in AtBridge \ {"waits"} /\ jobs' = jobs /\ UNCHANGED bundle
  BY <1>1 DEF AtBridge
<1>. QED  BY <1>4, <1>5, <1>6, <1>7, LeavesBridge

(* A thread takes up the bundle's guidance or nothing.                     *)
LEMMA JoinsGuarded ==
  ASSUME TypeOK, Guarded, NEW t \in Threads, call[t].at # "waits",
         NEW d, call' = [call EXCEPT ![t] = d], d.at \notin PastGate,
         AtOne(d) => /\ bundle.guide # Nobody /\ d.guide = bundle.guide
                     /\ d.bridge = guide[bundle.guide].bap
                     /\ d.guide \in DOMAIN guide,
         \A r \in DOMAIN guide : guide'[r].bap = guide[r].bap,
         bundle'.guide = bundle.guide, UNCHANGED <<nav, jobs, bridge>>
  PROVE  Guarded'
<1>1. Unmoved
  BY DEF Unmoved
<1>2. Linked' /\ \A b : Uses(b)' => Uses(b)
  BY Joins DEF Guarded
<1>3. Owning'
  BY <1>1, OwningStays DEF Guarded
<1>. QED  BY <1>1, <1>2, <1>3, PlainGuarded

LEMMA FrameGuarded ==
  ASSUME TypeOK, Course, Orderly, Guarded, FrameStarts \/ FrameEnds \/ FrameEnded
  PROVE  Guarded'
<1>. DEFINE r == listener
            b == guide[r].bap
            p == IF b = Nobody THEN "ended" ELSE "down"
            starts == [Idle EXCEPT !.at = "own", !.guide = r, !.bridge = b]
            ends == [Idle EXCEPT !.at = p, !.guide = r, !.bridge = b,
                                 !.then = "ended"]
<1>1. /\ "bus" \in Threads /\ call["bus"].at # "waits"
      /\ bundle'.guide = bundle.guide /\ UNCHANGED <<nav, jobs, bridge>>
  BY DEF FrameStarts, FrameEnds, FrameEnded, Threads
<1>2. \A x \in DOMAIN guide : guide'[x].bap = guide[x].bap
  <2>1. \A x \in DOMAIN guide : guide[x] \in Guide
    BY Typed
  <2>2. guide' \in {guide, [guide EXCEPT ![call["bus"].guide] =
                             [guide[call["bus"].guide] EXCEPT !.active = FALSE]]}
    BY DEF FrameStarts, FrameEnds, FrameEnded
  <2>. QED  BY <2>1, <2>2 DEF Guide
<1>3. CASE FrameStarts \/ FrameEnds
  <2>1. /\ r \in DOMAIN guide /\ r # Nobody /\ guide[r].running
        /\ call' \in {[call EXCEPT !["bus"] = starts],
                      [call EXCEPT !["bus"] = ends]}
    BY <1>3, Typed DEF FrameStarts, FrameEnds, TypeOK, OthersOK, Nobody
  <2>2. r = bundle.guide
    BY <2>1 DEF Orderly
  <2>3. /\ starts.guide = r /\ starts.bridge = b /\ starts.at = "own"
        /\ ends.guide = r /\ ends.bridge = b /\ ends.at = p
    BY DEF Idle
  <2>4. "own" \notin PastGate /\ p \notin PastGate
    BY DEF PastGate
  <2>5. PICK d : /\ call' = [call EXCEPT !["bus"] = d] /\ d.at \notin PastGate
                 /\ d.guide = r /\ d.bridge = b
    <3>. HIDE DEF starts, ends, p
    <3>. QED  BY <2>1, <2>3, <2>4
  <2>. QED  BY <1>1, <1>2, <2>1, <2>2, <2>5, JoinsGuarded
<1>4. CASE FrameEnded
  <2>1. Idle.at \notin PastGate /\ ~AtOne(Idle)
    BY DEF Idle, PastGate, AtOne, AtBridge
  <2>2. call' = [call EXCEPT !["bus"] = Idle]
    BY <1>4 DEF FrameEnded
  <2>. QED  BY <1>1, <1>2, <2>1, <2>2, JoinsGuarded
<1>. QED  BY <1>3, <1>4

LEMMA StopsGuarded ==
  ASSUME TypeOK, Course, Orderly, Guarded, NEW t \in Threads, Stops(t), ~met'
  PROVE  Guarded'
<1>. DEFINE c == call[t]
            r == c.guide
            b == guide[r].bap
            p == IF b = Nobody THEN "stopped" ELSE "down"
            down == [c EXCEPT !.at = p, !.bridge = b, !.then = "restore"]
            stop == [c EXCEPT !.at = "stopped"]
            v == [guide[r] EXCEPT !.running = FALSE, !.active = FALSE]
<1>1. /\ c \in Call /\ c.at = "stop" /\ ~Meets(t, r) /\ r \in DOMAIN guide
      /\ UNCHANGED <<nav, jobs, bridge, bundle>> /\ guide[r] \in Guide
  BY GuideKnown, Typed DEF Stops, TypeOK, CallsOK
<1>2. r = bundle.guide /\ bundle.guide # Nobody
  BY <1>1, Alone
<1>3. \A x \in DOMAIN guide : guide'[x].bap = guide[x].bap
  <2>1. guide' \in {guide, [guide EXCEPT ![r] = v]} /\ v.bap = guide[r].bap
    BY <1>1 DEF Stops, Guide
  <2>. QED  BY <1>1, <2>1
<1>4. PICK d : /\ call' = [call EXCEPT ![t] = d] /\ d.at \notin PastGate
               /\ AtOne(d) => d.guide = r /\ d.bridge = b
  <2>1. /\ stop.at = "stopped" /\ down.at = p /\ down.guide = r /\ down.bridge = b
    BY <1>1 DEF Call
  <2>2. p \notin PastGate /\ "stopped" \notin PastGate
    BY DEF PastGate
  <2>3. ~AtOne(stop)
    BY <2>1 DEF AtOne, AtBridge
  <2>4. call' \in {[call EXCEPT ![t] = down], [call EXCEPT ![t] = stop]}
    BY DEF Stops
  <2>. HIDE DEF stop, down, p
  <2>. QED  BY <2>1, <2>2, <2>3, <2>4
<1>. QED  BY <1>1, <1>2, <1>3, <1>4, JoinsGuarded

(* The device's states, the ends of calls, and a service that goes.        *)
LEMMA LifeGuarded ==
  ASSUME TypeOK, Course, Orderly, Guarded, NEW t \in Threads,
         NEW x \in {"carplay", "other"}, NEW s \in BOOLEAN,
         DeviceState(x) \/ TerminalModeGoes \/ Leaves(t) \/ ServiceGoes(s)
  PROVE  Guarded'
<1>1. /\ UNCHANGED <<nav, jobs, bridge, guide>>
      /\ bundle'.guide = bundle.guide /\ call \in [Threads -> Call]
      /\ \A r \in DOMAIN guide : guide'[r].bap = guide[r].bap
  BY DEF DeviceState, TerminalModeGoes, Leaves, ServiceGoes, TypeOK, OthersOK,
         CallsOK
<1>2. PICK u \in Threads : /\ call[u].at \in {"idle", "started", "stopped"}
                          /\ \/ call' = call
                             \/ call' = [call EXCEPT ![u] = Idle]
                             \/ \E r : \E p \in {"start", "stop"} :
                                  call' = [call EXCEPT ![u] =
                                             [Idle EXCEPT !.at = p, !.guide = r]]
  <2>1. CASE DeviceState(x)
    BY <2>1 DEF DeviceState, HandlesDevice, Threads
  <2>2. CASE TerminalModeGoes
    BY <2>2 DEF TerminalModeGoes, Threads
  <2>3. CASE Leaves(t)
    BY <2>3 DEF Leaves
  <2>4. CASE ServiceGoes(s)
    BY <2>4 DEF ServiceGoes, Threads
  <2>. QED  BY <2>1, <2>2, <2>3, <2>4
<1>3. PICK d : /\ call' = [call EXCEPT ![u] = d]
               /\ d.at \in {"idle", "start", "stop", "started", "stopped"}
  <2>1. CASE call' = call
    <3>1. call = [call EXCEPT ![u] = call[u]]
      BY <1>1
    <3>. QED  BY <1>2, <2>1, <3>1
  <2>2. CASE call' = [call EXCEPT ![u] = Idle]
    <3>1. Idle.at = "idle"
      BY DEF Idle
    <3>. QED  BY <2>2, <3>1
  <2>3. ASSUME NEW r, NEW p \in {"start", "stop"},
               call' = [call EXCEPT ![u] = [Idle EXCEPT !.at = p, !.guide = r]]
        PROVE  \E d : /\ call' = [call EXCEPT ![u] = d]
                      /\ d.at \in {"idle", "start", "stop", "started", "stopped"}
    <3>1. [Idle EXCEPT !.at = p, !.guide = r].at = p
      BY DEF Idle
    <3>. QED  BY <2>3, <3>1
  <2>. QED  BY <1>2, <2>1, <2>2, <2>3
<1>4. d.at \notin PastGate /\ ~AtOne(d)
  BY <1>3 DEF PastGate, AtOne, AtBridge
<1>. QED  BY <1>1, <1>2, <1>3, <1>4, JoinsGuarded

LEMMA BundleGuarded ==
  ASSUME TypeOK, Course, Orderly, Guarded, ServiceAcquired \/ ServiceGone
  PROVE  Guarded'
<1>. DEFINE c == call["bundle"]
            r == c.guide
<1>1. /\ "bundle" \in Threads /\ c.at \in {"added", "stopped"}
      /\ UNCHANGED <<nav, jobs, bridge, guide>> /\ r \in DOMAIN guide
      /\ bundle \in [guide : Nat, stopping : BOOLEAN]
  <2>1. "bundle" \in Threads /\ c.at \in {"added", "stopped"}
    BY DEF ServiceAcquired, ServiceGone, Threads
  <2>. QED  BY <2>1, GuideKnown DEF ServiceAcquired, ServiceGone, TypeOK, OthersOK
<1>2. PICK d : /\ call' = [call EXCEPT !["bundle"] = d]
               /\ d.at \in {"idle", "start", "stop"}
  <2>1. /\ Idle.at = "idle"
        /\ \A p : [Idle EXCEPT !.at = p, !.guide = r].at = p
    BY DEF Idle
  <2>2. \/ call' = [call EXCEPT !["bundle"] = Idle]
        \/ call' = [call EXCEPT !["bundle"] = [Idle EXCEPT !.at = "start", !.guide = r]]
        \/ call' = [call EXCEPT !["bundle"] = [Idle EXCEPT !.at = "stop", !.guide = r]]
    BY DEF ServiceAcquired, ServiceGone, HandlesDevice
  <2>. QED  BY <2>1, <2>2
<1>3. /\ call'["bundle"] = d /\ ~AtOne(d) /\ d.at \notin PastGate
      /\ \A u \in Threads \ {"bundle"} : call'[u] = call[u]
  BY <1>1, <1>2 DEF TypeOK, CallsOK, AtOne, AtBridge, PastGate
<1>4. Unmoved
  BY <1>1 DEF Unmoved
<1>5. Linked'
  BY <1>1, <1>3 DEF Guarded, Linked
<1>6. ASSUME NEW b \in DOMAIN bridge, Uses(b)' PROVE Uses(b)
  <2>1. CASE \E u \in Threads : AtOne(call'[u]) /\ call'[u].bridge = b
    BY <1>3, <2>1 DEF Uses
  <2>2. CASE bundle'.guide # Nobody /\ guide'[bundle'.guide].bap = b
    <3>1. bundle'.guide = r /\ c.at = "added"
      BY <1>1, <2>2 DEF ServiceAcquired, ServiceGone
    <3>2. b # Nobody /\ AtOne(c)
      BY <3>1, Typed DEF Nobody, AtOne
    <3>3. c.bridge = b
      BY <1>1, <2>2, <3>1, <3>2 DEF Guarded, Linked
    <3>. QED  BY <1>1, <3>2, <3>3 DEF Uses
  <2>. QED  BY <1>6, <2>1, <2>2 DEF Uses
<1>7. Owning'
  BY <1>1, <1>2, <1>3, <1>4, OwningStays DEF Guarded
<1>. QED  BY <1>1, <1>2, <1>4, <1>5, <1>6, <1>7, PlainGuarded

(* A new bridge has a gate that was never closed, if it has one.           *)
LEMMA NewBridgeGuarded ==
  ASSUME TypeOK, Guarded, NEW t \in Threads \ {"bus"}, call[t].at # "waits",
         \A u \in Threads \ {t} : ~AtWork(call[u]),
         NEW c \in Call, NewBridge(t, c), c.then \notin PastGate,
         guide'[c.guide].bap \in {Nobody, Len(bridge) + 1},
         bundle'.guide # Nobody => guide'[bundle'.guide].bap \in {Nobody, Len(bridge) + 1}
  PROVE  Guarded'
<1>. DEFINE n    == Len(bridge) + 1
            next == [c EXCEPT !.bridge = n]
            bs   == Append(bridge, Fresh)
            own  == [Fresh EXCEPT !.cluster = TRUE, !.owned = TRUE,
                       !.installed = FALSE, !.active = FALSE, !.monitor = t]
            w    == [next EXCEPT !.at = "waits", !.gate = made + 1]
            p    == [next EXCEPT !.at = c.then]
            job  == [job |-> "install", gate |-> made + 1, by |-> t]
<1>1. /\ Len(bridge) \in Nat /\ n \in Nat /\ DOMAIN bridge = 1..Len(bridge)
      /\ jobs = <<>>
  BY Typed, NoJobs DEF Guarded
<1>2. bs[n] = Fresh /\ DOMAIN bs = 1..n
  <2>1. bridge \in Seq(Bridge) /\ Fresh \in Bridge
    BY DEF TypeOK, BridgesOK, Fresh, Bridge, Threads, NoThread, Views
  <2>. QED  BY <1>1, <2>1, SeqAppended
<1>3. /\ next.bridge = n /\ w.at = "waits" /\ w.bridge = n /\ w.guide = c.guide
      /\ p.bridge = n /\ p.guide = c.guide /\ p.at = c.then
  BY <1>1 DEF Call
<1>4. PICK d : /\ call' = [call EXCEPT ![t] = d] /\ d.guide = c.guide
               /\ d.bridge = n /\ d.at \notin PastGate
               /\ \/ jobs' = <<>>
                  \/ jobs' = Append(jobs, job)
               /\ ~bridge'[n].installed /\ DOMAIN bridge' = 1..n
  <2>1. CASE nav.ready
    <3>1. Accesses(t, next, bs)
      BY <2>1 DEF NewBridge
    <3>2. /\ jobs' = Append(jobs, job) /\ call' = [call EXCEPT ![t] = w]
          /\ bridge' = [bs EXCEPT ![n] = own]
      BY <1>2, <1>3, <3>1 DEF Accesses, Dispatches
    <3>3. ~own.installed /\ n \in 1..n
      BY <1>1 DEF Fresh
    <3>4. bridge'[n] = own /\ DOMAIN bridge' = 1..n
      BY <1>2, <3>2, <3>3
    <3>5. "waits" \notin PastGate
      BY DEF PastGate
    <3>. HIDE DEF w, job, own, bs
    <3>. QED  BY <1>3, <3>2, <3>3, <3>4, <3>5
  <2>2. CASE ~nav.ready
    <3>1. /\ jobs' = jobs /\ call' = [call EXCEPT ![t] = p] /\ bridge' = bs
      BY <2>2 DEF NewBridge
    <3>2. ~Fresh.installed
      BY DEF Fresh
    <3>. HIDE DEF p, bs
    <3>. QED  BY <1>1, <1>2, <1>3, <3>1, <3>2
  <2>. QED  BY <2>1, <2>2
<1>5. /\ call'[t] = d /\ \A u \in Threads \ {t} : call'[u] = call[u]
  BY <1>4 DEF TypeOK, CallsOK
<1>6. \A u \in Threads \ {t} : ~AtOne(call'[u]) /\ ~AtWork(call'[u])
  BY <1>5 DEF AtOne, AtWork, AtBridge
<1>7. Linked'
  BY <1>4, <1>5, <1>6 DEF Linked
<1>8. Queued'
  <2>1. CASE jobs' = <<>>
    BY <2>1 DEF Queued
  <2>2. CASE jobs' = Append(jobs, job)
    <3>1. DOMAIN jobs' = {1} /\ jobs'[1] = job /\ Len(jobs') = 1
      BY <1>1, <2>2
    <3>2. job.by = t /\ job.job = "install"
      OBVIOUS
    <3>. HIDE DEF job
    <3>. QED  BY <3>1, <3>2 DEF Queued, Threads, NoThread
  <2>. QED  BY <1>4, <2>1, <2>2
<1>9. ASSUME NEW b \in DOMAIN bridge', Uses(b)'
      PROVE  Follows(b)'
  <2>1. b # Nobody
    BY <1>4, <1>9 DEF Nobody
  <2>2. b = n
    BY <1>4, <1>5, <1>6, <1>9, <2>1 DEF Uses
  <2>. QED  BY <1>4, <2>2 DEF Follows
<1>10. Owning'
  BY <1>6 DEF Owning, AtWork, PastGate, Threads
<1>. QED  BY <1>7, <1>8, <1>9, <1>10 DEF Guarded, GateInv

LEMMA StartsGuarded ==
  ASSUME TypeOK, Course, Orderly, Guarded, NEW t \in Threads, Starts(t), ~met'
  PROVE  Guarded'
<1>. DEFINE c == call[t]
            r == c.guide
            f == [c EXCEPT !.then = "run"]
            up == [c EXCEPT !.at = "started"]
            run == [c EXCEPT !.at = "run", !.bridge = guide[r].bap]
<1>1. /\ c \in Call /\ c.at = "start" /\ ~Meets(t, r) /\ r \in DOMAIN guide
      /\ UNCHANGED <<nav, guide, bundle>>
  BY GuideKnown DEF Starts, TypeOK, CallsOK
<1>2. /\ r = bundle.guide /\ bundle.guide # Nobody /\ t # "bus"
      /\ \A u \in Threads \ {t} : call[u].at = "idle"
  BY <1>1, Alone
<1>3. CASE guide[r].bap = Nobody /\ NewBridge(t, f)
  <2>1. f \in Call /\ f.guide = r /\ f.then = "run"
    BY <1>1 DEF Call, Places, AtBridge
  <2>2. \A u \in Threads \ {t} : ~AtWork(call[u])
    BY <1>2 DEF AtWork
  <2>3. "run" \notin PastGate
    BY DEF PastGate
  <2>. HIDE DEF f
  <2>. QED  BY <1>1, <1>2, <1>3, <2>1, <2>2, <2>3, NewBridgeGuarded
<1>4. CASE /\ UNCHANGED <<jobs, bridge>>
           /\ call' \in {[call EXCEPT ![t] = up], [call EXCEPT ![t] = run]}
  <2>1. /\ up.at = "started" /\ run.at = "run" /\ run.guide = r
        /\ run.bridge = guide[r].bap
    BY <1>1 DEF Call
  <2>2. ~AtOne(up) /\ up.at \notin PastGate /\ run.at \notin PastGate
    BY <2>1 DEF AtOne, AtBridge, PastGate
  <2>3. PICK d : /\ call' = [call EXCEPT ![t] = d] /\ d.at \notin PastGate
                 /\ AtOne(d) => d.guide = r /\ d.bridge = guide[r].bap
    <3>. HIDE DEF up, run
    <3>. QED  BY <1>4, <2>1, <2>2
  <2>. QED  BY <1>1, <1>2, <1>4, <2>3, JoinsGuarded
<1>. QED  BY <1>3, <1>4 DEF Starts

LEMMA ComesGuarded ==
  ASSUME TypeOK, Course, Orderly, Guarded, ServiceComes
  PROVE  Guarded'
<1>. DEFINE g == [running |-> FALSE, active |-> FALSE, bap |-> Len(bridge) + 1]
            r == Len(guide) + 1
            c == [Idle EXCEPT !.guide = r, !.then = "added"]
<1>1. /\ call["bundle"].at = "idle" /\ bundle.guide = Nobody
      /\ UNCHANGED <<life, bundle>> /\ guide' = Append(guide, g)
      /\ NewBridge("bundle", c)
  BY DEF ServiceComes
<1>2. \A u \in Threads \ {"bundle"} : ~AtWork(call[u])
  <2>1. ASSUME NEW u \in {"bus", "device"}, call[u].at # "idle" PROVE FALSE
    <3>1. u \in Threads /\ ~Adds(call[u])
      BY <2>1 DEF Course, OnCourse, BusAt, Adds, Threads
    <3>. QED  BY <1>1, <2>1, <3>1, GuideKnown DEF Orderly
  <2>. QED  BY <2>1 DEF Threads, AtWork
<1>3. guide'[r] = g
  <2>1. guide \in Seq(Guide) /\ g \in Guide
    BY Typed DEF TypeOK, GuidesOK, Guide
  <2>2. Append(guide, g)[r] = g
    <3>. HIDE DEF g
    <3>. QED  BY <2>1, SeqAppended
  <2>. QED  BY <1>1, <2>2
<1>4. c \in Call /\ c.guide = r /\ c.then = "added"
  <2>1. /\ Idle \in Call /\ Len(guide) + 1 \in Nat /\ "added" \in Places
    BY Typed, SoundIdle DEF Sound, Places
  <2>. QED  BY <2>1 DEF Call
<1>5. /\ "added" \notin PastGate /\ "bundle" \in Threads \ {"bus"}
      /\ call["bundle"].at # "waits"
  BY <1>1 DEF PastGate, Threads
<1>. HIDE DEF c
<1>. QED  BY <1>1, <1>2, <1>3, <1>4, <1>5, NewBridgeGuarded

(* The one that waited goes on with its bridge, which has changed.         *)
LEMMA GoesOnGuarded ==
  ASSUME TypeOK, Orderly, Guarded, NEW t \in Threads, call[t].at = "waits",
         NEW b \in DOMAIN bridge, b = call[t].bridge, NEW d,
         call' = [call EXCEPT ![t] = d], d.guide = call[t].guide, d.bridge = b,
         UNCHANGED <<guide, bundle>>, DOMAIN bridge' = DOMAIN bridge,
         bridge'[b].installed =>
           /\ nav'.service = bridge'[b].gate
           /\ bridge'[b].active => bridge'[b].gate \in nav'.closed,
         t = "bus" /\ d.at \in PastGate =>
           bridge'[b].installed /\ bridge'[b].active,
         \/ jobs' = <<>>
         \/ \E j : /\ jobs' = Append(<<>>, j) /\ j.by = t
                   /\ bridge'[b].installed /\ bridge'[b].gate = j.gate
  PROVE  Guarded'
<1>1. /\ AtOne(call[t]) /\ AtWork(call[t])
      /\ call'[t] = d /\ \A u \in Threads \ {t} : call'[u] = call[u]
  BY BridgeKnown DEF TypeOK, CallsOK, AtBridge
<1>2. Linked' /\ \A x : Uses(x)' => Uses(x)
  BY <1>1, Within DEF Guarded
<1>3. Queued'
  <2>1. CASE jobs' = <<>>
    BY <2>1 DEF Queued
  <2>2. ASSUME NEW j, jobs' = Append(<<>>, j), j.by = t,
               bridge'[b].installed, bridge'[b].gate = j.gate
        PROVE  Queued'
    <3>1. DOMAIN jobs' = {1} /\ jobs'[1] = j /\ Len(jobs') = 1
      BY <2>2
    <3>. QED  BY SMTT(30), <1>1, <2>2, <3>1 DEF Queued, Threads, NoThread
  <2>. QED  BY <2>1, <2>2
<1>4. ASSUME NEW x \in DOMAIN bridge', Uses(x)'
      PROVE  Follows(x)'
  <2>1. x = b
    BY <1>1, <1>2, <1>4, Mine DEF Guarded
  <2>. QED  BY <2>1 DEF Follows
<1>5. Owning'
  <2>1. CASE t = "bus"
    BY <1>1, <2>1 DEF Owning
  <2>2. CASE t # "bus"
    <3>1. ~AtWork(call["bus"])
      BY <1>1, <2>2 DEF Orderly, Threads
    <3>. QED  BY <1>1, <2>2, <3>1 DEF Owning, AtWork, PastGate, Threads
  <2>. QED  BY <2>1, <2>2
<1>. QED  BY <1>2, <1>3, <1>4, <1>5 DEF Guarded, GateInv

LEMMA DispatcherGuarded ==
  ASSUME TypeOK, Course, Orderly, Guarded, DispatcherRuns
  PROVE  Guarded'
<1>. DEFINE j == Head(jobs)
            t == j.by
            c == call[t]
            own == bridge[c.bridge]
            got == [own EXCEPT !.installed = TRUE, !.active = FALSE,
                               !.gate = j.gate]
            free == [got EXCEPT !.monitor = NoThread]
            set == [own EXCEPT !.active = (j.job = "block"),
                               !.monitor = NoThread]
            raw == [own EXCEPT !.installed = FALSE, !.active = FALSE,
                               !.gate = Nobody, !.monitor = NoThread]
            block == [job |-> "block", gate |-> j.gate, by |-> t]
            at(p) == [c EXCEPT !.at = p]
<1>1. /\ jobs # <<>> /\ j \in Job /\ Tail(jobs) = <<>> /\ 1 \in DOMAIN jobs
      /\ jobs[1] = j /\ \A k \in DOMAIN jobs : k = 1
  <2>1. jobs \in Seq(Job) /\ Len(jobs) <= 1 /\ jobs # <<>>
    BY DEF DispatcherRuns, TypeOK, JobsOK, Guarded, Queued
  <2>2. Len(jobs) \in Nat /\ Len(jobs) # 0 /\ Len(jobs) <= 1
    BY <2>1, EmptySeq
  <2>3. Len(jobs) = 1
    BY <2>2
  <2>4. DOMAIN jobs = {1}
    BY <2>1, <2>3
  <2>5. Tail(jobs) \in Seq(Job) /\ Len(Tail(jobs)) = 0
    BY <2>1, <2>3
  <2>6. Tail(jobs) = <<>>
    BY <2>5, EmptySeq
  <2>. QED  BY <2>1, <2>3, <2>4, <2>6
<1>2. t # NoThread
  BY <1>1 DEF Guarded, Queued
<1>3. /\ t \in Threads /\ c.at = "waits" /\ c \in Call
      /\ OnCourse(t, c) /\ JobFits(j, c)
  BY <1>1, <1>2, JobDone DEF TypeOK, CallsOK, Course
<1>4. /\ c.bridge \in DOMAIN bridge /\ own \in Bridge /\ nav \in Nav
      /\ Uses(c.bridge) /\ Follows(c.bridge)
  <2>1. c.bridge \in DOMAIN bridge /\ AtOne(c)
    BY <1>3, BridgeKnown DEF AtBridge
  <2>2. Uses(c.bridge)
    BY <1>3, <2>1 DEF Uses
  <2>. QED  BY <2>1, <2>2, Typed DEF TypeOK, OthersOK, Guarded, GateInv
<1>5. j.job \in {"block", "open"} => own.installed /\ own.gate = j.gate
  BY <1>1 DEF Guarded, Queued
<1>6. j.job # "raw" => ~Restoring
  BY <1>1 DEF Restoring
<1>7. nav' = Native(j) /\ Completes(t, j) /\ UNCHANGED <<guide, bundle>>
  BY <1>2 DEF DispatcherRuns
<1>8. /\ got.installed /\ ~got.active /\ got.gate = j.gate
      /\ free.installed /\ ~free.active /\ free.gate = j.gate
      /\ set.installed = own.installed /\ set.gate = own.gate
      /\ set.active = (j.job = "block") /\ ~raw.installed
  BY <1>4 DEF Bridge
<1>9. \A p : /\ at(p).guide = c.guide /\ at(p).bridge = c.bridge /\ at(p).at = p
  BY <1>3 DEF Call
<1>10. call = [call EXCEPT ![t] = c]
  BY <1>3 DEF TypeOK, CallsOK
<1>11. ASSUME NEW v, bridge' = [bridge EXCEPT ![c.bridge] = v],
              NEW p, call' = [call EXCEPT ![t] = at(p)],
              v.installed => /\ nav'.service = v.gate
                             /\ v.active => v.gate \in nav'.closed,
              t = "bus" /\ p \in PastGate => v.installed /\ v.active,
              \/ jobs' = <<>>
              \/ jobs' = Append(<<>>, block) /\ v.installed /\ v.gate = j.gate
       PROVE  Guarded'
  <2>1. PICK b \in DOMAIN bridge : b = c.bridge
    BY <1>4
  <2>2. bridge'[b] = v /\ DOMAIN bridge' = DOMAIN bridge
    BY <1>11, <2>1
  <2>3. block.by = t /\ block.gate = j.gate
    OBVIOUS
  <2>4. PICK d : /\ call' = [call EXCEPT ![t] = d] /\ d.guide = c.guide
                 /\ d.bridge = b /\ d.at = p
    <3>. HIDE DEF at
    <3>. QED  BY <1>9, <1>11, <2>1
  <2>5. \/ jobs' = <<>>
        \/ \E i : /\ jobs' = Append(<<>>, i) /\ i.by = t
                  /\ bridge'[b].installed /\ bridge'[b].gate = i.gate
    <3>. HIDE DEF block
    <3>. QED  BY <1>11, <2>2, <2>3
  <2>. HIDE DEF t, block, at
  <2>. QED
    BY ZenonT(40), <1>3, <1>7, <1>11, <2>1, <2>2, <2>4, <2>5, GoesOnGuarded
    DEF c
<1>12. CASE j.job = "install"
  <2>1. /\ bridge' = [bridge EXCEPT ![c.bridge] = free] /\ jobs' = <<>>
        /\ call' = [call EXCEPT ![t] = at(c.then)] /\ nav'.service = j.gate
    BY <1>1, <1>4, <1>7, <1>12 DEF Completes, Native, Nav
  <2>2. t = "bus" => c.then \notin PastGate
    BY <1>3, <1>12 DEF JobFits, PastGate
  <2>. HIDE DEF free, at, t
  <2>. QED  BY ZenonT(40), <1>8, <1>11, <2>1, <2>2
<1>13. CASE j.job = "again" /\ c.want
  <2>1. /\ bridge' = [bridge EXCEPT ![c.bridge] = got]
        /\ jobs' = Append(Tail(jobs), block) /\ call' = call
    BY <1>7, <1>13 DEF Completes
  <2>2. jobs' = Append(<<>>, block)
    BY <1>1, <2>1
  <2>3. nav'.service = j.gate
    BY <1>4, <1>7, <1>13 DEF Native, Nav
  <2>4. at("waits") = c /\ "waits" \notin PastGate
    BY <1>3 DEF Call, PastGate
  <2>5. call' = [call EXCEPT ![t] = at("waits")]
    BY <1>10, <2>1, <2>4
  <2>6. PICK v : /\ bridge' = [bridge EXCEPT ![c.bridge] = v]
                 /\ nav'.service = v.gate /\ v.gate = j.gate
                 /\ v.installed /\ ~v.active
    <3>. HIDE DEF got
    <3>. QED  BY <1>8, <2>1, <2>3
  <2>7. PICK p : call' = [call EXCEPT ![t] = at(p)] /\ p \notin PastGate
    <3>. HIDE DEF at
    <3>. QED  BY <2>4, <2>5
  <2>. HIDE DEF at, t, c, j, block
  <2>. QED  BY <1>11, <2>2, <2>6, <2>7
<1>14. CASE j.job = "again" /\ ~c.want
  <2>1. /\ bridge' = [bridge EXCEPT ![c.bridge] = free] /\ jobs' = <<>>
        /\ call' = [call EXCEPT ![t] = at(c.then)] /\ nav'.service = j.gate
    BY <1>1, <1>4, <1>7, <1>14 DEF Completes, Native, Nav
  <2>2. t = "bus" => c.then \notin PastGate
    BY <1>3, <1>14 DEF OnCourse, PastGate
  <2>. HIDE DEF free, at, t
  <2>. QED  BY ZenonT(40), <1>8, <1>11, <2>1, <2>2
<1>15. CASE j.job \in {"block", "open"}
  <2>1. /\ bridge' = [bridge EXCEPT ![c.bridge] = set] /\ jobs' = <<>>
        /\ call' = [call EXCEPT ![t] = at(AfterSet(c))]
    BY <1>1, <1>7, <1>15 DEF Completes
  <2>2. nav'.service = j.gate /\ (j.job = "block" => j.gate \in nav'.closed)
    BY <1>4, <1>5, <1>7, <1>15 DEF Native, Nav, Follows
  <2>3. t = "bus" /\ AfterSet(c) \in PastGate => j.job = "block"
    BY <1>3, <1>15 DEF JobFits, OnCourse, AfterSet, PastGate
  <2>. HIDE DEF set, at, t
  <2>. QED  BY <1>5, <1>8, <1>11, <1>15, <2>1, <2>2, <2>3
<1>16. CASE j.job = "raw"
  <2>1. /\ bridge' = [bridge EXCEPT ![c.bridge] = raw] /\ jobs' = <<>>
        /\ call' = [call EXCEPT ![t] = at("dispose")]
    BY <1>1, <1>7, <1>16 DEF Completes
  <2>2. "dispose" \notin PastGate
    BY DEF PastGate
  <2>. HIDE DEF raw, at, t
  <2>. QED  BY <1>8, <1>11, <2>1, <2>2
<1>. QED  BY <1>1, <1>12, <1>13, <1>14, <1>15, <1>16 DEF Job

LEMMA GuardedStep ==
  ASSUME TypeOK, Course, Orderly, Guarded, [Next]_vars, ~late', ~met'
  PROVE  Guarded'
<1>1. ASSUME NEW t \in Threads, Steps(t) PROVE Guarded'
  BY <1>1, ReadsGuarded, SetsGuarded, GoesGuarded, RestoresGuarded,
     DisposesGuarded, StartsGuarded, StopsGuarded, LifeGuarded DEF Steps
<1>2. CASE Bus
  BY <1>1, <1>2, FindsGuarded, TakesGuarded, FrameGuarded DEF Bus, Threads
<1>3. CASE Device
  BY <1>1, <1>3 DEF Device, Threads
<1>4. CASE Bundle
  BY <1>1, <1>4, BundleGuarded DEF Bundle, Threads
<1>5. CASE Outside
  <2>1. CASE NavigationComesUp
    <3>1. nav'.service = nav.service /\ nav'.closed = nav.closed
      BY <2>1 DEF NavigationComesUp, TypeOK, OthersOK, Nav
    <3>2. Unmoved /\ UNCHANGED <<call, guide, bundle, jobs, bridge>>
      BY <2>1, <3>1 DEF NavigationComesUp, Unmoved
    <3>. QED  BY <3>2, GuardedStays
  <2>. QED  BY <1>5, <2>1, FrameGuarded, LifeGuarded, ComesGuarded
            DEF Outside, Threads
<1>6. CASE UNCHANGED vars
  BY <1>6, GuardedStays DEF vars, Unmoved
<1>7. ~\E t \in Threads : GivesUp(t)
  BY DEF GivesUp
<1>. QED  BY <1>2, <1>3, <1>4, <1>5, <1>6, <1>7, DispatcherGuarded DEF Next

-----------------------------------------------------------------------------
(* The invariant, and what it is for.                                      *)

LEMMA InvInit ==
  ASSUME Init
  PROVE  Inv
<1>1. TypeOK
  BY TypesInit
<1>2. Course
  BY CourseInit
<1>3. /\ \A t \in Threads : call[t].at = "idle"
      /\ jobs = <<>> /\ bridge = <<>> /\ guide = <<>>
      /\ life.guide = Nobody /\ bundle.guide = Nobody
  BY DEF Init, Idle
<1>4. \A t \in Threads : ~AtWork(call[t]) /\ ~AtOne(call[t]) /\ ~Begins(call[t])
  BY <1>3 DEF AtWork, AtOne, Begins, AtBridge
<1>5. Orderly
  BY <1>3, <1>4 DEF Orderly, Threads
<1>6. Linked /\ Owning
  BY <1>3, <1>4 DEF Linked, Owning, PastGate, Threads
<1>7. Queued /\ GateInv
  BY <1>3 DEF Queued, GateInv
<1>. QED  BY <1>1, <1>2, <1>5, <1>6, <1>7 DEF Inv, Guarded

(* What has happened to the order of things has happened for good.         *)
LEMMA HistoryGrows ==
  ASSUME [Next]_vars
  PROVE  (late => late') /\ (met => met')
<1>1. ASSUME NEW t \in Threads, Steps(t) \/ GivesUp(t)
      PROVE  (late => late') /\ (met => met')
  <2>1. CASE ReadsOwnership(t) \/ SetsRoute(t) \/ GoesDown(t)
    BY <2>1 DEF ReadsOwnership, SetsRoute, GoesDown
  <2>2. CASE Restores(t) \/ Disposes(t) \/ Runs(t) \/ Leaves(t)
    BY <2>2 DEF Restores, Disposes, Runs, Leaves
  <2>3. CASE Starts(t) \/ Stops(t)
    <3>1. met' = (met \/ Meets(t, call[t].guide)) /\ late' = late
      BY <2>3 DEF Starts, Stops
    <3>. QED  BY <3>1, Zenon
  <2>4. CASE GivesUp(t)
    BY <2>4 DEF GivesUp
  <2>. QED  BY <1>1, <2>1, <2>2, <2>3, <2>4 DEF Steps
<1>2. CASE Bus
  BY <1>1, <1>2 DEF Bus, FindsGate, TakesOver, FrameEnded, Threads
<1>3. CASE Device
  BY <1>1, <1>3 DEF Device, Threads
<1>4. CASE Bundle
  BY <1>1, <1>4 DEF Bundle, ServiceAcquired, ServiceGone, Threads
<1>5. CASE Outside
  BY <1>5 DEF Outside, NavigationComesUp, FrameStarts, FrameEnds, DeviceState,
              TerminalModeGoes, ServiceComes, ServiceGoes
<1>6. CASE UNCHANGED vars
  BY <1>6 DEF vars
<1>. QED  BY <1>1, <1>2, <1>3, <1>4, <1>5, <1>6 DEF Next, DispatcherRuns

LEMMA InvStep ==
  ASSUME Inv, [Next]_vars
  PROVE  Inv'
<1>1. TypeOK' /\ Course'
  BY TypesStep, CourseStep DEF Inv
<1>2. ASSUME ~late', ~met' PROVE Orderly' /\ Guarded'
  <2>1. ~late /\ ~met
    BY <1>2, HistoryGrows
  <2>. QED  BY <1>2, <2>1, OrderlyStep, GuardedStep DEF Inv
<1>. QED  BY <1>1, <1>2 DEF Inv

(* The bus thread that writes CarPlay's status is past the gate, and the   *)
(* service behind the gate of its bridge is the one everybody calls.       *)
LEMMA InvEmits ==
  ASSUME Inv
  PROVE  EmitsAsOwner
<1>. DEFINE b == call["bus"].bridge
<1>1. SUFFICES ASSUME call["bus"].at = "emit", ~late, ~met
               PROVE  NativeBlocked
  BY DEF EmitsAsOwner
<1>2. TypeOK /\ Orderly /\ Guarded
  BY <1>1 DEF Inv
<1>3. "bus" \in Threads /\ call["bus"].at \in AtBridge \ {"waits"}
  BY <1>1 DEF Threads, AtBridge
<1>4. Follows(b) /\ ~Restoring
  BY <1>2, <1>3, AtWorkAlone
<1>5. bridge[b].installed /\ bridge[b].active
  BY <1>1, <1>2 DEF Guarded, Owning, PastGate
<1>. QED  BY <1>4, <1>5 DEF Follows, NativeBlocked

(* CarPlay writes its route status to the cluster only while native        *)
(* guidance is shut out, however many sessions, services and frames there  *)
(* are, as long as the dispatcher keeps its time and no stop or start      *)
(* meets another thread's work (BAPBridge.onStart).                        *)
THEOREM EmitsOwned == Spec => []EmitsAsOwner
<1>1. Inv /\ [Next]_vars => Inv'
  BY InvStep
<1>. QED  BY InvInit, <1>1, InvEmits, PTL DEF Spec

(* At most one thread at a time is at work with a bridge, always with that *)
(* of the guidance the bundle holds: the monitors of CarPlayLifecycle and  *)
(* of the bridges and the waits for the dispatcher leave no room for two.  *)
OneAtWork ==
  ~late /\ ~met =>
    \A t, u \in Threads : AtWork(call[t]) /\ AtWork(call[u]) => t = u

THEOREM WorksAlone == Spec => []OneAtWork
<1>1. Inv /\ [Next]_vars => Inv'
  BY InvStep
<1>2. Inv => OneAtWork
  BY DEF Inv, Orderly, OneAtWork
<1>. QED  BY InvInit, <1>1, <1>2, PTL DEF Spec

-----------------------------------------------------------------------------
(***************************************************************************)
(* The second part: native guidance gets through                           *)
(* once every guidance is stopped, whatever has timed out on the way, and  *)
(* with a punctual dispatcher the gate and the overlay follow the route.   *)
(*                                                                         *)
(* The argument of the first: the dispatcher works its queue off in order, *)
(* and restoreBestEffort queues the raw service behind everything a bridge *)
(* ever asked for its gate; so a gate that is closed, or will be, is of    *)
(* the bridge in use, or has the raw service behind its last job, or is    *)
(* not the service any more and never will be (Ends).  The overlay is put  *)
(* off when a route goes down, and what it put on is known (Overlaid).     *)
(* The second adds where the bridge in use is on its way: the gate is      *)
(* closed and the overlay on while the route is shown, or while a thread   *)
(* is at work that puts them on or off (Shows).                            *)
(***************************************************************************)


-----------------------------------------------------------------------------
(* The invariant.                                                          *)

(* What a bridge in use has of the cluster.                                *)
Kit(own) == /\ own.init
            /\ own.owned => own.cluster
            /\ own.installed => own.owned
            /\ own.active => own.installed

Kits == \A b \in DOMAIN bridge : Uses(b) => Kit(bridge[b])

(* The listener is the guidance that runs.                                 *)
Hearing ==
  /\ listener # Nobody => listener = bundle.guide /\ guide[listener].running
  /\ \A r \in DOMAIN guide :
       /\ guide[r].running => listener = r /\ guide[r].bap # Nobody
       /\ guide[r].active => guide[r].running

(* A job that is waited for is the last of the queue, and finds its bridge *)
(* as its caller left it.                                                  *)
Awaited(j, own) ==
  /\ j.job \in {"install", "again"} => own.owned /\ ~own.installed
  /\ j.job \in {"block", "open", "raw"} => own.installed /\ own.gate = j.gate

Waiting ==
  \A k \in DOMAIN jobs : jobs[k].by # NoThread =>
    k = Len(jobs) /\ Awaited(jobs[k], bridge[call[jobs[k].by].bridge])

Placed(c, own) == /\ c.at = "enter" => own.owned
                  /\ c.at = "dispose" => ~own.installed

Placing == \A t \in Threads : call[t].at \in {"enter", "dispose"} =>
             Placed(call[t], bridge[call[t].bridge])

Bounded == /\ \A g \in nav.closed : g <= made
           /\ \A k \in DOMAIN jobs : jobs[k].gate <= made
           /\ \A b \in DOMAIN bridge : bridge[b].gate <= made

(* The overlay is what the bridge in use has put on, and can be put off.   *)
Overlay(own, n) ==
  /\ n.rgActive = own.forced
  /\ own.forced => ~own.saved
  /\ n.view = "rgi" => own.captured
  /\ own.captured => own.view = "stock"
  /\ own.forced \/ own.captured => own.cluster

Bare(own) == ~own.forced /\ ~own.captured
Running   == bundle.guide # Nobody /\ guide[bundle.guide].running
ComesDown == \E t \in Threads : call[t].at = "down"

Overlaid ==
  /\ (\A b \in DOMAIN bridge : ~Uses(b)) => ~nav.rgActive /\ nav.view = "stock"
  /\ \A b \in DOMAIN bridge : Uses(b) =>
       Overlay(bridge[b], nav) /\ (Bare(bridge[b]) \/ Running \/ ComesDown)

PutOn(c, own) == /\ c.at \in {"force", "emit", "show"} => own.captured
                 /\ c.at \in {"emit", "show"} => own.forced

Dressing == call["bus"].at \in {"force", "emit", "show"} =>
              PutOn(call["bus"], bridge[call["bus"].bridge])

(* What can be said of every gate.                                         *)
Untouched(g) == /\ g \notin nav.closed
                /\ \A k \in DOMAIN jobs : jobs[k].job = "block"
                                            => jobs[k].gate # g

HandsAt   == {"down", "set", "enter", "waits", "restore"}
HandsBack == \E t \in Threads : call[t].at \in HandsAt

Live(g) == /\ Running \/ HandsBack
           /\ \E b \in DOMAIN bridge :
                Uses(b) /\ bridge[b].installed /\ bridge[b].gate = g

Returned(g) == \E m \in DOMAIN jobs :
                 /\ jobs[m].job = "raw" /\ jobs[m].gate = g
                 /\ \A k \in DOMAIN jobs : k > m => jobs[k].gate # g

Past(g) == nav.service # g /\ \A k \in DOMAIN jobs : jobs[k].gate # g

Ends == \A g \in Gates : Untouched(g) \/ Live(g) \/ Returned(g) \/ Past(g)

Tidy == /\ Orderly /\ Linked /\ Kits /\ Hearing /\ Waiting /\ Placing
        /\ Bounded /\ Overlaid /\ Dressing /\ Ends

-----------------------------------------------------------------------------
(* The bridge in hand.                                                     *)

LEMMA InHand ==
  ASSUME TypeOK, Orderly, Linked, NEW t \in Threads, call[t].at \in AtBridge
  PROVE  LET c == call[t] IN
         /\ c \in Call /\ AtOne(c) /\ AtWork(c) /\ c.guide \in DOMAIN guide
         /\ c.bridge \in DOMAIN bridge /\ bridge[c.bridge] \in Bridge
         /\ Uses(c.bridge) /\ \A x \in DOMAIN bridge : Uses(x) => x = c.bridge
         /\ \A u \in Threads \ {t} : ~AtWork(call[u]) /\ ~AtOne(call[u])
         /\ bundle.guide # Nobody => c.guide = bundle.guide
         /\ guide[c.guide].bap \in {Nobody, c.bridge}
         /\ nav \in Nav
<1>. DEFINE c == call[t]
<1>1. /\ c \in Call /\ AtOne(c) /\ AtWork(c) /\ c.bridge \in DOMAIN bridge
      /\ c.guide \in DOMAIN guide /\ bridge[c.bridge] \in Bridge /\ nav \in Nav
      /\ c.at # "idle"
  BY BridgeKnown, Typed DEF TypeOK, CallsOK, OthersOK, AtBridge
<1>2. \A u \in Threads \ {t} : ~AtWork(call[u]) /\ ~AtOne(call[u])
  BY <1>1 DEF Orderly, AtOne, AtWork, AtBridge
<1>3. Uses(c.bridge) /\ \A x \in DOMAIN bridge : Uses(x) => x = c.bridge
  BY <1>1, Mine DEF Uses
<1>4. bundle.guide # Nobody => c.guide = bundle.guide
  BY <1>1 DEF Orderly
<1>. QED  BY <1>1, <1>2, <1>3, <1>4 DEF Linked

LEMMA BridgeSame ==
  ASSUME TypeOK, NEW b \in DOMAIN bridge
  PROVE  [bridge EXCEPT ![b] = bridge[b]] = bridge
<1>1. bridge = [x \in 1..Len(bridge) |-> bridge[x]]
  BY DEF TypeOK, BridgesOK
<1>. QED  BY <1>1

(* A thread works on its bridge; it goes on with it or leaves it.          *)
Working(t, d, v) ==
  LET c == call[t] IN
  /\ c.at \in AtBridge /\ call' = [call EXCEPT ![t] = d]
  /\ AtOne(d) => d.guide = c.guide /\ d.bridge = c.bridge
  /\ bridge' = [bridge EXCEPT ![c.bridge] = v] /\ v \in Bridge
  /\ DOMAIN guide' = DOMAIN guide /\ UNCHANGED bundle
  /\ \A r \in DOMAIN guide : r # c.guide => guide'[r] = guide[r]
  /\ guide'[c.guide].bap \in {guide[c.guide].bap, Nobody, c.bridge}
  /\ guide[c.guide].running => guide'[c.guide].running

LEMMA WorkOn ==
  ASSUME TypeOK, Orderly, Linked, NEW t \in Threads, NEW d, NEW v,
         Working(t, d, v), Hearing', NEW b, b = call[t].bridge
  PROVE  /\ b \in DOMAIN bridge
         /\ call'[t] = d /\ \A u \in Threads \ {t} : call'[u] = call[u]
         /\ DOMAIN bridge' = DOMAIN bridge /\ bridge'[b] = v
         /\ Linked' /\ \A x \in DOMAIN bridge : Uses(x)' => x = b
         /\ AtOne(d) \/ Running' => Uses(b)'
         /\ Running => Running'
<1>. DEFINE c == call[t]
<1>1. /\ c \in Call /\ AtOne(c) /\ AtWork(c) /\ c.guide \in DOMAIN guide
      /\ b \in DOMAIN bridge /\ \A x \in DOMAIN bridge : Uses(x) => x = b
      /\ \A u \in Threads \ {t} : ~AtWork(call[u]) /\ ~AtOne(call[u])
      /\ bundle.guide # Nobody => c.guide = bundle.guide
      /\ guide[c.guide].bap \in {Nobody, b}
  BY InHand DEF Working
<1>2. call'[t] = d /\ \A u \in Threads \ {t} : call'[u] = call[u]
  BY DEF Working, TypeOK, CallsOK
<1>3. DOMAIN bridge' = DOMAIN bridge /\ bridge'[b] = v
  BY <1>1 DEF Working
<1>4. Linked'
  BY <1>1, <1>2 DEF Linked, Working
<1>5. Nobody \notin DOMAIN bridge
  BY Typed DEF Nobody
<1>6. \A x \in DOMAIN bridge : Uses(x)' => x = b
  BY <1>1, <1>2, <1>5 DEF Uses, Working
<1>7. Running' => Uses(b)'
  <2>1. Running' => /\ bundle'.guide # Nobody /\ bundle'.guide = c.guide
                    /\ guide'[c.guide].running /\ c.guide \in DOMAIN guide'
    BY <1>1 DEF Running, Working
  <2>2. Running' => guide'[c.guide].bap = b
    BY <1>1, <2>1 DEF Hearing, Working
  <2>. QED  BY <2>1, <2>2 DEF Uses
<1>8. AtOne(d) => Uses(b)'
  BY <1>2 DEF Uses, Working
<1>9. Running => Running'
  BY <1>1 DEF Running, Working
<1>. QED  BY <1>1, <1>2, <1>3, <1>4, <1>6, <1>7, <1>8, <1>9

(* What a step at a bridge has to see to, the gate aside.                  *)
LEMMA WorkTidy ==
  ASSUME TypeOK, Orderly, Linked, NEW t \in Threads, NEW d, NEW v,
         Working(t, d, v), Hearing', TypeOK', NEW b, b = call[t].bridge,
         Uses(b)' => Kit(v), Placed(d, v), PutOn(d, v),
         Overlay(v, nav'), Bare(v) \/ Running' \/ d.at = "down"
  PROVE  Kits' /\ Placing' /\ Overlaid' /\ Dressing'
<1>1. /\ b \in DOMAIN bridge
      /\ call'[t] = d /\ \A u \in Threads \ {t} : call'[u] = call[u]
      /\ DOMAIN bridge' = DOMAIN bridge /\ bridge'[b] = v
      /\ \A x \in DOMAIN bridge : Uses(x)' => x = b
      /\ AtOne(d) \/ Running' => Uses(b)'
  BY WorkOn
<1>2. \A u \in Threads \ {t} : ~AtWork(call[u]) /\ ~AtOne(call[u])
  BY InHand DEF Working
<1>3. AtOne(d) => d.bridge = b
  BY DEF Working
<1>4. Kits'
  BY <1>1 DEF Kits
<1>5. Placing'
  BY <1>1, <1>2, <1>3 DEF Placing, AtOne, AtBridge, AtWork
<1>6. Dressing'
  BY <1>1, <1>2, <1>3 DEF Dressing, AtOne, AtBridge, AtWork, Threads
<1>7. d.at = "down" => ComesDown' /\ Uses(b)'
  BY <1>1 DEF ComesDown, AtOne, AtBridge
<1>8. (\A x \in DOMAIN bridge' : ~Uses(x)') => ~nav'.rgActive /\ nav'.view = "stock"
  <2>1. SUFFICES ASSUME ~Uses(b)' PROVE ~nav'.rgActive /\ nav'.view = "stock"
    BY <1>1
  <2>2. Bare(v) /\ nav' \in Nav
    BY <1>1, <1>7, <2>1 DEF TypeOK, OthersOK
  <2>. QED  BY <2>2 DEF Bare, Overlay, Nav, Views
<1>9. ASSUME NEW x \in DOMAIN bridge', Uses(x)'
      PROVE  /\ Overlay(bridge'[x], nav')
             /\ Bare(bridge'[x]) \/ Running' \/ ComesDown'
  BY <1>1, <1>7, <1>9
<1>. QED  BY <1>4, <1>5, <1>6, <1>8, <1>9 DEF Overlaid

(* Nobody waits but the one at work.                                       *)
LEMMA NobodyWaits ==
  ASSUME TypeOK, NEW t \in Threads, call[t].at # "waits",
         \A u \in Threads \ {t} : ~AtWork(call[u])
  PROVE  \A k \in DOMAIN jobs : jobs[k] \in Job /\ jobs[k].by = NoThread
<1>. TAKE k \in DOMAIN jobs
<1>1. jobs[k] \in Job
  BY Typed
<1>2. jobs[k].by # NoThread => jobs[k].by \in Threads /\ call[jobs[k].by].at = "waits"
  BY <1>1 DEF TypeOK, JobsOK, Job
<1>. QED  BY <1>1, <1>2 DEF AtWork

(* The gates are left as they are.                                         *)
LEMMA EndsStays ==
  ASSUME Ends, jobs' = jobs, nav'.service = nav.service,
         nav'.closed \subseteq nav.closed,
         \A g \in Gates : Live(g) => Live(g)'
  PROVE  Ends'
<1>. SUFFICES ASSUME NEW g \in Gates
              PROVE  (Untouched(g) \/ Live(g) \/ Returned(g) \/ Past(g))'
  BY DEF Ends
<1>1. Untouched(g) => Untouched(g)'
  BY DEF Untouched
<1>2. Returned(g) => Returned(g)'
  BY DEF Returned
<1>3. Past(g) => Past(g)'
  BY DEF Past
<1>. QED  BY <1>1, <1>2, <1>3 DEF Ends

(* The gate of the bridge in hand stays live.                              *)
LEMMA LiveOn ==
  ASSUME TypeOK, Orderly, Linked, NEW t \in Threads, NEW d, NEW v,
         Working(t, d, v), Hearing',
         bridge[call[t].bridge].installed =>
           /\ v.installed /\ v.gate = bridge[call[t].bridge].gate
           /\ Running' \/ d.at \in HandsAt
  PROVE  \A g \in Gates : Live(g) => Live(g)'
<1>1. PICK b : b = call[t].bridge
  OBVIOUS
<1>2. /\ b \in DOMAIN bridge /\ call'[t] = d
      /\ DOMAIN bridge' = DOMAIN bridge /\ bridge'[b] = v
      /\ AtOne(d) \/ Running' => Uses(b)'
  BY <1>1, WorkOn
<1>3. \A x \in DOMAIN bridge : Uses(x) => x = b
  BY <1>1, InHand DEF Working
<1>4. d.at \in HandsAt => HandsBack' /\ AtOne(d)
  BY <1>2 DEF HandsBack, HandsAt, AtOne, AtBridge
<1>5. ASSUME NEW g \in Gates, Live(g) PROVE Live(g)'
  <2>1. bridge[b].installed /\ bridge[b].gate = g
    BY <1>3, <1>5 DEF Live
  <2>2. /\ Uses(b)' /\ bridge'[b].installed /\ bridge'[b].gate = g
        /\ (Running \/ HandsBack)'
    BY <1>1, <1>2, <1>4, <2>1
  <2>. QED  BY <1>2, <2>2 DEF Live
<1>. QED  BY <1>5

(* A step at a bridge that asks nothing of the dispatcher.                 *)
LEMMA WorkPlain ==
  ASSUME TypeOK, Tidy, TypeOK', Orderly', NEW t \in Threads, NEW d, NEW v,
         Working(t, d, v), call[t].at # "waits", Hearing',
         NEW b, b = call[t].bridge,
         Uses(b)' => Kit(v), Placed(d, v), PutOn(d, v),
         Overlay(v, nav'), Bare(v) \/ Running' \/ d.at = "down",
         UNCHANGED <<jobs, made>>, nav'.service = nav.service,
         nav'.closed \subseteq nav.closed,
         v.gate = bridge[b].gate,
         bridge[b].installed => v.installed /\ (Running' \/ d.at \in HandsAt)
  PROVE  Tidy'
<1>1. Linked'
  BY WorkOn DEF Tidy
<1>2. Kits' /\ Placing' /\ Overlaid' /\ Dressing'
  BY WorkTidy DEF Tidy
<1>3. Waiting'
  BY NobodyWaits, InHand DEF Waiting, Working, Tidy
<1>4. Bounded'
  <2>1. /\ DOMAIN bridge' = DOMAIN bridge
        /\ \A x \in DOMAIN bridge : bridge'[x].gate = bridge[x].gate
    BY WorkOn DEF Working, Tidy
  <2>. QED  BY <2>1 DEF Bounded, Tidy
<1>5. Ends'
  BY EndsStays, LiveOn DEF Tidy
<1>. QED  BY <1>1, <1>2, <1>3, <1>4, <1>5 DEF Tidy

(* What is known of the bridge in hand.                                    *)
LEMMA KnownOf ==
  ASSUME TypeOK, Course, Tidy, NEW t \in Threads, call[t].at \in AtBridge
  PROVE  LET c == call[t]
             own == bridge[c.bridge]
         IN  /\ Kit(own) /\ Overlay(own, nav)
             /\ Bare(own) \/ Running \/ c.at = "down"
             /\ Placed(c, own) /\ OnCourse(t, c)
             /\ t = "bus" => Running /\ PutOn(c, own)
             /\ t # "bus" /\ (c.at = "dispose" \/ c.at = "run")
                  => ~guide[c.guide].running
<1>. DEFINE c == call[t]
            own == bridge[c.bridge]
<1>1. /\ c.bridge \in DOMAIN bridge /\ Uses(c.bridge) /\ AtWork(c)
      /\ \A u \in Threads \ {t} : ~AtWork(call[u]) /\ ~AtOne(call[u])
      /\ bundle.guide # Nobody => c.guide = bundle.guide /\ AtOne(c)
  BY InHand DEF Tidy
<1>2. Kit(own) /\ Overlay(own, nav)
  BY <1>1 DEF Tidy, Kits, Overlaid
<1>3. ComesDown => c.at = "down"
  BY <1>1 DEF ComesDown, AtWork
<1>4. Bare(own) \/ Running \/ c.at = "down"
  BY <1>1, <1>3 DEF Tidy, Overlaid
<1>5. Placed(c, own) /\ OnCourse(t, c)
  BY DEF Tidy, Placing, Placed, Course
<1>6. t = "bus" => Running /\ PutOn(c, own)
  <2>1. t = "bus" => ~Adds(c) /\ c.at # "idle" /\ c.guide # Nobody
    BY <1>5, GuideKnown DEF Adds, AtBridge, OnCourse, BusAt
  <2>2. t = "bus" => Running
    BY <2>1 DEF Tidy, Orderly, Running
  <2>. QED  BY <2>2 DEF Tidy, Dressing, PutOn
<1>7. t # "bus" => ~guide[c.guide].running
  BY <1>1 DEF Tidy, Orderly, Threads
<1>. QED  BY <1>2, <1>4, <1>5, <1>6, <1>7

LEMMA ReadsTidy ==
  ASSUME TypeOK, Course, Tidy, TypeOK', Orderly', NEW t \in Threads,
         ReadsOwnership(t)
  PROVE  Tidy'
<1>. DEFINE c == call[t]
<1>0. PICK b : b = c.bridge
  OBVIOUS
<1>. DEFINE own == bridge[b]
<1>1. /\ c \in Call /\ b \in DOMAIN bridge /\ own \in Bridge
      /\ c.at = "set" /\ c.at \in AtBridge /\ Kit(own) /\ Overlay(own, nav)
      /\ OnCourse(t, c) /\ c.guide \in DOMAIN guide
      /\ (Bare(own) \/ Running) /\ (t = "bus" => Running)
      /\ UNCHANGED <<nav, jobs, bridge, guide, listener, bundle, made>>
  BY <1>0, InHand, KnownOf DEF Tidy, ReadsOwnership, AtBridge
<1>2. Hearing' /\ (Running <=> Running')
  BY <1>1 DEF Tidy, Hearing, Running
<1>3. PICK d : /\ call' = [call EXCEPT ![t] = d]
               /\ AtOne(d) => d.guide = c.guide /\ d.bridge = b
               /\ d.at = "enter" => own.owned
               /\ d.at \notin {"dispose", "force", "emit", "show"}
               /\ Running \/ d.at \in HandsAt \/ ~own.installed
  <2>1. /\ [c EXCEPT !.at = "enter"].guide = c.guide
        /\ [c EXCEPT !.at = "enter"].bridge = b
        /\ [c EXCEPT !.at = "enter"].at = "enter"
    BY <1>0, <1>1 DEF Call
  <2>2. /\ [c EXCEPT !.at = c.then].guide = c.guide
        /\ [c EXCEPT !.at = c.then].bridge = b
        /\ [c EXCEPT !.at = c.then].at = c.then
    BY <1>0, <1>1 DEF Call
  <2>3. /\ t # "bus" => c.then = "restore" /\ ~c.want
        /\ t = "bus" => Running /\ (~c.want => c.then \in {"idle", "ended"})
    BY <1>1, KnownOf DEF OnCourse
  <2>4. CASE call' = [call EXCEPT ![t] = [c EXCEPT !.at = "enter"]] /\ own.owned
    BY <2>1, <2>4 DEF HandsAt
  <2>5. CASE call' = [call EXCEPT ![t] = Idle] /\ t = "bus"
    BY <2>3, <2>5 DEF Idle, AtOne, AtBridge
  <2>6. CASE call' = [call EXCEPT ![t] = [c EXCEPT !.at = c.then]] /\ ~c.want
    BY <2>2, <2>3, <2>6 DEF HandsAt
  <2>. QED  BY <1>0, <1>1, <2>3, <2>4, <2>5, <2>6 DEF ReadsOwnership
<1>4. Working(t, d, own)
  BY <1>0, <1>1, <1>3, BridgeSame DEF Working
<1>5. Bare(own) \/ Running
  BY <1>0, <1>1, KnownOf
<1>6. PutOn(d, own) /\ Placed(d, own)
  BY <1>3 DEF PutOn, Placed
<1>7. PICK v : v = own
  OBVIOUS
<1>. QED
  BY <1>0, <1>1, <1>2, <1>3, <1>4, <1>5, <1>6, <1>7, WorkPlain

LEMMA GoesTidy ==
  ASSUME TypeOK, Course, Tidy, TypeOK', Orderly', NEW t \in Threads, GoesDown(t)
  PROVE  Tidy'
<1>. DEFINE c == call[t]
<1>0. PICK b : b = c.bridge
  OBVIOUS
<1>. DEFINE own == bridge[b]
            q == IF c.at = "undo" THEN "idle" ELSE c.then
            off == [own EXCEPT !.forced = own.forced /\ ~own.cluster,
                               !.captured = FALSE]
            s == [c EXCEPT !.at = "set", !.want = FALSE, !.then = q]
<1>1. /\ c \in Call /\ b \in DOMAIN bridge /\ own \in Bridge
      /\ c.at \in {"undo", "down"} /\ c.at \in AtBridge
      /\ Kit(own) /\ Overlay(own, nav) /\ nav \in Nav /\ c.guide \in DOMAIN guide
      /\ UNCHANGED <<jobs, guide, listener, bundle, made>>
  BY <1>0, InHand, KnownOf DEF Tidy, GoesDown, AtBridge
<1>2. Hearing'
  BY <1>1 DEF Tidy, Hearing
<1>3. PICK d : /\ call' = [call EXCEPT ![t] = d] /\ d.at = "set"
               /\ d.guide = c.guide /\ d.bridge = b
  <2>1. s.at = "set" /\ s.guide = c.guide /\ s.bridge = b
    BY <1>0, <1>1 DEF Call
  <2>2. call' = [call EXCEPT ![t] = s]
    BY <1>0, <1>1 DEF GoesDown, Kit
  <2>. HIDE DEF s
  <2>. QED  BY <2>1, <2>2
<1>4. PICK v : /\ bridge' = [bridge EXCEPT ![b] = v] /\ v \in Bridge /\ Kit(v)
               /\ v.installed = own.installed /\ v.gate = own.gate
               /\ Bare(v) /\ Overlay(v, nav')
  <2>1. bridge' = [bridge EXCEPT ![b] = off] /\ TakesOverlayOff(b)
    BY <1>0, <1>1 DEF GoesDown, Kit, TakesOverlayOff
  <2>2. off \in Bridge /\ Kit(off) /\ off.installed = own.installed
        /\ off.gate = own.gate /\ off.captured = FALSE /\ off.forced = FALSE
        /\ off.cluster = own.cluster
    BY <1>1 DEF Bridge, Kit, Overlay
  <2>3. nav'.rgActive = FALSE /\ nav'.view = "stock"
    <3>1. CASE ~own.cluster
      BY <1>1, <2>1, <3>1 DEF TakesOverlayOff, Overlay, Nav, Views
    <3>2. CASE own.cluster
      BY <1>1, <2>1, <3>2 DEF TakesOverlayOff, Overlay, Nav, Views
    <3>. QED  BY <3>1, <3>2
  <2>4. Bare(off) /\ Overlay(off, nav')
    BY <2>2, <2>3 DEF Bare, Overlay
  <2>. HIDE DEF off
  <2>. QED  BY <2>1, <2>2, <2>4
<1>5. Working(t, d, v)
  BY <1>0, <1>1, <1>3, <1>4 DEF Working
<1>6. PutOn(d, v) /\ Placed(d, v) /\ d.at \in HandsAt
  BY <1>3 DEF PutOn, Placed, HandsAt
<1>7. nav'.service = nav.service /\ nav'.closed = nav.closed
  BY <1>1 DEF GoesDown, TakesOverlayOff, Nav
<1>8. c.at # "waits"
  BY <1>1
<1>. QED
  BY <1>0, <1>1, <1>2, <1>4, <1>5, <1>6, <1>7, <1>8, WorkPlain

(* onStart past the gate.                                                  *)
LEMMA TakesTidy ==
  ASSUME TypeOK, Course, Tidy, TypeOK', Orderly', TakesOver
  PROVE  Tidy'
<1>. DEFINE c == call["bus"]
<1>0. PICK b, t : b = c.bridge /\ t = "bus"
  OBVIOUS
<1>. DEFINE own == bridge[b]
<1>1. /\ c \in Call /\ b \in DOMAIN bridge /\ own \in Bridge /\ nav \in Nav
      /\ c.at \in {"capture", "force", "emit", "show"} /\ c.at \in AtBridge
      /\ Kit(own) /\ Overlay(own, nav) /\ Running /\ PutOn(c, own)
      /\ c.guide \in DOMAIN guide /\ guide[c.guide] \in Guide
      /\ t \in Threads /\ c.guide = bundle.guide
      /\ UNCHANGED <<jobs, listener, bundle, made>>
  BY <1>0, InHand, KnownOf, Typed
  DEF Tidy, TakesOver, AtBridge, Threads, Running
<1>2. PICK d, v :
        /\ call' = [call EXCEPT ![t] = d]
        /\ bridge' = [bridge EXCEPT ![b] = v] /\ v \in Bridge /\ Kit(v)
        /\ v.installed = own.installed /\ v.gate = own.gate
        /\ AtOne(d) => d.guide = c.guide /\ d.bridge = b
        /\ d.at \notin {"enter", "dispose"}
        /\ PutOn(d, v) /\ Overlay(v, nav')
        /\ nav'.service = nav.service /\ nav'.closed = nav.closed
  <2>. DEFINE to(at) == [c EXCEPT !.at = at]
  <2>1. /\ \A at : to(at).at = at /\ to(at).guide = c.guide /\ to(at).bridge = b
        /\ bridge = [bridge EXCEPT ![b] = own]
    BY <1>0, <1>1, BridgeSame DEF Call
  <2>2. PutOn(to("undo"), own)
    BY <2>1 DEF PutOn
  <2>3. CASE c.at = "capture"
    <3>. DEFINE noted == [own EXCEPT !.captured = TRUE, !.view = nav.view]
    <3>1. /\ noted \in Bridge /\ Kit(noted) /\ noted.installed = own.installed
          /\ noted.gate = own.gate /\ noted.captured /\ noted.view = nav.view
          /\ noted.forced = own.forced /\ noted.saved = own.saved
          /\ noted.cluster = own.cluster
      BY <1>1 DEF Bridge, Nav, Kit
    <3>2. nav' = nav
      BY <2>3 DEF TakesOver
    <3>3. CASE own.captured
      <4>1. call' = [call EXCEPT ![t] = to("force")] /\ bridge' = bridge
        BY <1>0, <2>3, <3>3 DEF TakesOver
      <4>2. PutOn(to("force"), own)
        BY <2>1, <3>3 DEF PutOn
      <4>. HIDE DEF to
      <4>. QED  BY <1>1, <2>1, <3>2, <4>1, <4>2
    <3>4. CASE ~own.captured /\ ~own.cluster
      <4>1. call' = [call EXCEPT ![t] = to("undo")] /\ bridge' = bridge
        BY <1>0, <2>3, <3>4 DEF TakesOver
      <4>. HIDE DEF to
      <4>. QED  BY <1>1, <2>1, <2>2, <3>2, <4>1
    <3>5. CASE ~own.captured /\ own.cluster
      <4>1. /\ call' = [call EXCEPT ![t] = to("force")]
            /\ bridge' = [bridge EXCEPT ![b] = noted]
        BY <1>0, <2>3, <3>5 DEF TakesOver
      <4>2. PutOn(to("force"), noted)
        BY <2>1, <3>1 DEF PutOn
      <4>3. Overlay(noted, nav')
        BY <1>1, <3>1, <3>2, <3>5 DEF Overlay, Nav, Views
      <4>. HIDE DEF to, noted
      <4>. QED  BY <1>1, <2>1, <3>1, <3>2, <4>1, <4>2, <4>3
    <3>. QED  BY <3>3, <3>4, <3>5
  <2>4. CASE c.at = "force"
    <3>. DEFINE on == [own EXCEPT !.forced = TRUE,
                         !.saved = IF own.forced THEN own.saved ELSE nav.rgActive]
    <3>1. own.captured /\ own.cluster
      BY <1>1, <2>4 DEF PutOn, Overlay
    <3>2. /\ on \in Bridge /\ Kit(on) /\ on.installed = own.installed
          /\ on.gate = own.gate /\ on.captured /\ on.view = own.view
          /\ on.forced /\ on.cluster = own.cluster
          /\ on.saved = IF own.forced THEN own.saved ELSE nav.rgActive
      BY <1>1, <3>1 DEF Bridge, Nav, Kit
    <3>3. /\ nav' = [nav EXCEPT !.rgActive = TRUE]
          /\ bridge' = [bridge EXCEPT ![b] = on]
          /\ call' = [call EXCEPT ![t] = to("emit")]
      BY <1>0, <2>4, <3>1 DEF TakesOver
    <3>4. /\ nav'.rgActive /\ nav'.view = nav.view /\ nav'.service = nav.service
          /\ nav'.closed = nav.closed
      BY <1>1, <3>3 DEF Nav
    <3>5. PutOn(to("emit"), on)
      BY <2>1, <3>2 DEF PutOn
    <3>6. Overlay(on, nav')
      BY <1>1, <3>1, <3>2, <3>4 DEF Overlay
    <3>. HIDE DEF to, on
    <3>7. /\ on.installed = own.installed /\ on.gate = own.gate
          /\ to("emit").guide = c.guide /\ to("emit").bridge = b
          /\ to("emit").at \notin {"enter", "dispose"}
      BY <2>1, <3>2
    <3>. QED  BY ONLY <3>2, <3>3, <3>4, <3>5, <3>6, <3>7
  <2>5. CASE c.at = "emit"
    <3>1. /\ UNCHANGED <<nav, bridge>> /\ own.init
          /\ call' = [call EXCEPT ![t] = to("show")]
      BY <1>0, <1>1, <2>5 DEF TakesOver, Kit
    <3>2. PutOn(to("show"), own)
      BY <1>1, <2>1, <2>5 DEF PutOn
    <3>. HIDE DEF to
    <3>. QED  BY <1>1, <2>1, <3>1, <3>2
  <2>6. CASE c.at = "show"
    <3>1. own.captured /\ own.cluster
      BY <1>1, <2>6 DEF PutOn, Overlay
    <3>2. /\ nav' = [nav EXCEPT !.view = "rgi"] /\ bridge' = bridge
          /\ call' = [call EXCEPT ![t] = Idle]
      BY <1>0, <2>6, <3>1 DEF TakesOver
    <3>3. /\ nav'.rgActive = nav.rgActive /\ nav'.service = nav.service
          /\ nav'.closed = nav.closed
      BY <1>1, <3>2 DEF Nav
    <3>4. ~AtOne(Idle) /\ Idle.at = "idle" /\ PutOn(Idle, own)
      BY DEF AtOne, AtBridge, Idle, PutOn
    <3>5. Overlay(own, nav')
      BY <1>1, <3>1, <3>3 DEF Overlay
    <3>. HIDE DEF to
    <3>. QED  BY <1>1, <2>1, <3>2, <3>3, <3>4, <3>5
  <2>. QED  BY <1>1, <2>3, <2>4, <2>5, <2>6
<1>3. /\ DOMAIN guide' = DOMAIN guide
      /\ \A r \in DOMAIN guide :
           /\ r # c.guide => guide'[r] = guide[r]
           /\ guide'[r].running = guide[r].running
           /\ guide'[r].bap = guide[r].bap
           /\ guide'[r].active => guide[r].active \/ r = c.guide
  <2>. DEFINE g == [guide[c.guide] EXCEPT !.active = TRUE]
  <2>1. g.running = guide[c.guide].running /\ g.bap = guide[c.guide].bap
    BY <1>1 DEF Guide
  <2>2. guide' \in {guide, [guide EXCEPT ![c.guide] = g]}
    BY DEF TakesOver
  <2>. HIDE DEF g
  <2>. QED  BY <1>1, <2>1, <2>2
<1>4. Hearing' /\ Running'
  BY <1>1, <1>3 DEF Tidy, Hearing, Running
<1>5. Working(t, d, v)
  BY <1>0, <1>1, <1>2, <1>3 DEF Working
<1>6. Placed(d, v) /\ call[t].at # "waits" /\ b = call[t].bridge
  BY <1>0, <1>1, <1>2 DEF Placed
<1>. QED
  BY <1>1, <1>2, <1>4, <1>5, <1>6, WorkPlain

(* What a new job leaves of what can be said of the other gates, and of    *)
(* the gate it makes.                                                      *)
LEMMA Appended ==
  ASSUME TypeOK, Ends, Bounded, NEW j \in Job, jobs' = Append(jobs, j),
         nav'.service = nav.service, nav'.closed \subseteq nav.closed,
         NEW g \in Gates, ~Live(g),
         g # j.gate \/ (j.job \in {"install", "again"} /\ j.gate = made + 1)
  PROVE  (Untouched(g) \/ Returned(g) \/ Past(g))'
<1>1. /\ Len(jobs) \in Nat /\ DOMAIN jobs = 1..Len(jobs)
      /\ Len(jobs') = Len(jobs) + 1
      /\ DOMAIN jobs' = DOMAIN jobs \cup {Len(jobs) + 1}
      /\ \A k \in DOMAIN jobs : jobs'[k] = jobs[k]
      /\ jobs'[Len(jobs) + 1] = j
  <2>1. jobs \in Seq(Job)
    BY DEF TypeOK, JobsOK
  <2>. QED  BY <2>1, SeqAppended
<1>2. CASE g = j.gate
  <2>1. /\ g = made + 1 /\ made \in Nat
        /\ \A k \in DOMAIN jobs : jobs[k].gate \in Nat
    BY <1>2, Typed DEF TypeOK, OthersOK, Job, Gates
  <2>2. g \notin nav.closed /\ \A k \in DOMAIN jobs : jobs[k].gate # g
    BY <2>1 DEF Bounded
  <2>3. j.job # "block"
    BY <1>2
  <2>. QED  BY <1>1, <2>2, <2>3 DEF Untouched
<1>3. CASE g # j.gate
  <2>1. Untouched(g) => Untouched(g)'
    BY <1>1, <1>3 DEF Untouched
  <2>2. Past(g) => Past(g)'
    BY <1>1, <1>3 DEF Past
  <2>3. Returned(g) => Returned(g)'
    BY <1>1, <1>3 DEF Returned
  <2>. QED  BY <2>1, <2>2, <2>3 DEF Ends
<1>. QED  BY <1>2, <1>3

(* A step at a bridge that queues a job and waits for it.                  *)
LEMMA WorkAsks ==
  ASSUME TypeOK, Tidy, TypeOK', Orderly', NEW t \in Threads, NEW d, NEW v,
         Working(t, d, v), call[t].at # "waits", d.at = "waits", AtOne(d),
         UNCHANGED <<guide, listener>>,
         NEW b, b = call[t].bridge, Kit(v), Overlay(v, nav'), Bare(v) \/ Running,
         NEW j \in Job, j.by = t, jobs' = Append(jobs, j), Awaited(j, v),
         v.gate = bridge[b].gate,
         nav'.service = nav.service, nav'.closed \subseteq nav.closed,
         \/ /\ j.job \in {"block", "open", "raw"} /\ made' = made
            /\ bridge[b].installed /\ bridge[b].gate = j.gate /\ j.gate <= made
         \/ /\ j.job \in {"install", "again"} /\ ~bridge[b].installed
            /\ j.gate = made + 1 /\ made' = made + 1
  PROVE  Tidy'
<1>1. Hearing' /\ (Running <=> Running')
  BY DEF Tidy, Hearing, Running, Working
<1>2. /\ call'[t] = d /\ bridge'[b] = v /\ b \in DOMAIN bridge
      /\ \A u \in Threads \ {t} : call'[u] = call[u]
      /\ DOMAIN bridge' = DOMAIN bridge /\ Linked' /\ Uses(b)'
  BY <1>1, WorkOn DEF Tidy
<1>3. PutOn(d, v) /\ Placed(d, v)
  BY DEF PutOn, Placed
<1>4. Kits' /\ Placing' /\ Overlaid' /\ Dressing'
  BY <1>1, <1>3, WorkTidy DEF Tidy
<1>5. /\ Len(jobs) \in Nat /\ DOMAIN jobs = 1..Len(jobs)
      /\ Len(jobs') = Len(jobs) + 1
      /\ DOMAIN jobs' = DOMAIN jobs \cup {Len(jobs) + 1}
      /\ \A k \in DOMAIN jobs : jobs'[k] = jobs[k]
      /\ jobs'[Len(jobs) + 1] = j
  <2>1. jobs \in Seq(Job)
    BY DEF TypeOK, JobsOK
  <2>. QED  BY <2>1, SeqAppended
<1>6. /\ \A k \in DOMAIN jobs : jobs[k] \in Job /\ jobs[k].by = NoThread
      /\ \A x \in DOMAIN bridge : Uses(x) => x = b
  BY NobodyWaits, InHand DEF Tidy, Working
<1>7. Waiting'
  <2>1. d.bridge = b /\ t # NoThread
    BY DEF Working, Threads, NoThread
  <2>. QED  BY <1>2, <1>5, <1>6, <2>1 DEF Waiting
<1>8. made \in Nat /\ \A k \in DOMAIN jobs : jobs[k].gate \in Nat
  BY <1>6 DEF TypeOK, OthersOK, Job, Gates
<1>9. Bounded'
  <2>1. \A k \in DOMAIN jobs' : jobs'[k].gate <= made'
    BY <1>5, <1>8 DEF Tidy, Bounded
  <2>2. \A g \in nav'.closed : g \in Nat
    BY DEF TypeOK, OthersOK, Nav, Gates
  <2>3. \A x \in DOMAIN bridge : bridge[x].gate \in Nat
    BY Typed DEF Bridge, Gates, Nobody
  <2>4. \A x \in DOMAIN bridge : bridge'[x].gate = bridge[x].gate
    BY <1>2 DEF Working
  <2>5. \A x \in DOMAIN bridge' : bridge'[x].gate <= made'
    BY <1>2, <1>8, <2>3, <2>4 DEF Tidy, Bounded
  <2>. QED  BY <1>8, <2>1, <2>2, <2>5 DEF Tidy, Bounded
<1>10. ASSUME NEW g \in Gates
       PROVE  (Untouched(g) \/ Live(g) \/ Returned(g) \/ Past(g))'
  <2>1. CASE g = j.gate /\ j.job = "raw"
    <3>1. \A k \in DOMAIN jobs' : ~(k > Len(jobs) + 1)
      BY <1>5
    <3>2. Returned(g)'
      BY <1>5, <2>1, <3>1 DEF Returned
    <3>. QED  BY <3>2
  <2>2. CASE g = j.gate /\ j.job \in {"block", "open"}
    <3>1. HandsBack'
      BY <1>2 DEF HandsBack, HandsAt
    <3>2. v.installed /\ v.gate = g
      BY <2>2 DEF Awaited
    <3>. QED  BY <1>2, <3>1, <3>2 DEF Live
  <2>3. CASE g # j.gate \/ j.job \in {"install", "again"}
    <3>1. ~Live(g)
      BY <1>6, <2>3 DEF Live
    <3>. QED  BY <2>3, <3>1, Appended DEF Tidy
  <2>. QED  BY <2>1, <2>2, <2>3 DEF Job
<1>11. Ends'
  BY <1>10 DEF Ends
<1>. QED  BY <1>1, <1>2, <1>4, <1>7, <1>9, <1>11 DEF Tidy

LEMMA RestoresTidy ==
  ASSUME TypeOK, Course, Tidy, TypeOK', Orderly', NEW t \in Threads, Restores(t)
  PROVE  Tidy'
<1>. DEFINE c == call[t]
<1>0. PICK b : b = c.bridge
  OBVIOUS
<1>. DEFINE own == bridge[b]
            held == [own EXCEPT !.monitor = t]
            w == [c EXCEPT !.at = "waits", !.gate = own.gate]
            go == [c EXCEPT !.at = "dispose"]
            job == [job |-> "raw", gate |-> own.gate, by |-> t]
<1>1. /\ c \in Call /\ b \in DOMAIN bridge /\ own \in Bridge
      /\ c.at = "restore" /\ c.at \in AtBridge /\ Kit(own) /\ Overlay(own, nav)
      /\ nav \in Nav /\ c.guide \in DOMAIN guide /\ (Bare(own) \/ Running)
      /\ UNCHANGED <<guide, listener, bundle, made>>
  BY <1>0, InHand, KnownOf DEF Tidy, Restores, AtBridge
<1>2. Hearing' /\ (Running <=> Running')
  BY <1>1 DEF Tidy, Hearing, Running
<1>3. CASE ~own.installed /\ UNCHANGED <<nav, jobs, bridge>>
  <2>1. PICK d : /\ call' = [call EXCEPT ![t] = d] /\ d.at = "dispose"
                 /\ d.guide = c.guide /\ d.bridge = b
    <3>1. go.at = "dispose" /\ go.guide = c.guide /\ go.bridge = b
      BY <1>0, <1>1 DEF Call
    <3>2. call' = [call EXCEPT ![t] = go]
      BY <1>0, <1>1, <1>3 DEF Restores, Kit, Dispatches
    <3>. HIDE DEF go
    <3>. QED  BY <3>1, <3>2
  <2>2. PICK v : v = own
    OBVIOUS
  <2>3. Working(t, d, v)
    BY <1>0, <1>1, <1>3, <2>1, <2>2, BridgeSame DEF Working
  <2>4. PutOn(d, v) /\ Placed(d, v)
    BY <1>3, <2>1, <2>2 DEF PutOn, Placed
  <2>5. c.at # "waits"
    BY <1>1
  <2>. QED  BY <1>0, <1>1, <1>2, <1>3, <2>2, <2>3, <2>4, <2>5, WorkPlain
<1>4. CASE own.installed
  <2>1. PICK d : /\ call' = [call EXCEPT ![t] = d] /\ d.at = "waits"
                 /\ d.guide = c.guide /\ d.bridge = b
    <3>1. w.at = "waits" /\ w.guide = c.guide /\ w.bridge = b
      BY <1>0, <1>1 DEF Call
    <3>2. call' = [call EXCEPT ![t] = w]
      BY <1>0, <1>1, <1>4 DEF Restores, Kit, Dispatches
    <3>. HIDE DEF w
    <3>. QED  BY <3>1, <3>2
  <2>2. PICK v : /\ bridge' = [bridge EXCEPT ![b] = v] /\ v \in Bridge /\ Kit(v)
                 /\ v.installed = own.installed /\ v.gate = own.gate
                 /\ v.forced = own.forced /\ v.captured = own.captured
                 /\ v.saved = own.saved /\ v.view = own.view
                 /\ v.cluster = own.cluster
    <3>1. bridge' = [bridge EXCEPT ![b] = held]
      BY <1>0, <1>1, <1>4 DEF Restores, Kit
    <3>2. /\ held \in Bridge /\ Kit(held)
          /\ held.installed = own.installed /\ held.gate = own.gate
          /\ held.forced = own.forced /\ held.captured = own.captured
          /\ held.saved = own.saved /\ held.view = own.view
          /\ held.cluster = own.cluster
      BY <1>1 DEF Bridge, Kit
    <3>. HIDE DEF held
    <3>. QED  BY <3>1, <3>2
  <2>3. PICK j : /\ j = job /\ j \in Job /\ j.by = t /\ j.job = "raw"
                 /\ j.gate = own.gate /\ jobs' = Append(jobs, j)
    <3>1. own.gate \in Gates
      BY <1>0, <1>1, <1>4, BridgeIsSound, Typed DEF SoundBridge, Bridge, Gates, Nobody
    <3>2. jobs' = Append(jobs, job)
      BY <1>0, <1>1, <1>4 DEF Restores, Kit, Dispatches
    <3>. QED  BY <3>1, <3>2 DEF Job
  <2>4. own.gate <= made
    BY <1>1 DEF Tidy, Bounded
  <2>5. Working(t, d, v) /\ AtOne(d)
    BY <1>0, <1>1, <2>1, <2>2 DEF Working, AtOne, AtBridge
  <2>6. /\ nav'.service = nav.service /\ nav'.closed \subseteq nav.closed
        /\ nav'.rgActive = nav.rgActive /\ nav'.view = nav.view
    BY <1>0, <1>1, <1>4 DEF Restores, Kit, Nav
  <2>7. /\ Overlay(v, nav') /\ (Bare(v) \/ Running) /\ Awaited(j, v)
        /\ c.at # "waits"
    BY <1>1, <1>4, <2>2, <2>3, <2>6 DEF Overlay, Bare, Awaited
  <2>. QED
    BY <1>0, <1>1, <1>4, <2>1, <2>2, <2>3, <2>4, <2>5, <2>6, <2>7, WorkAsks
<1>. QED  BY <1>0, <1>1, <1>3, <1>4 DEF Restores, Kit

(* A bridge whose monitor was entered or left.                             *)
Alike(v, own) ==
  /\ v \in Bridge /\ v.init = own.init /\ v.cluster = own.cluster
  /\ v.owned = own.owned /\ v.installed = own.installed
  /\ v.active = own.active /\ v.gate = own.gate /\ v.forced = own.forced
  /\ v.saved = own.saved /\ v.captured = own.captured /\ v.view = own.view

LEMMA Locked ==
  ASSUME NEW own \in Bridge, NEW m \in Threads \cup {NoThread}
  PROVE  Alike([own EXCEPT !.monitor = m], own)
  BY DEF Alike, Bridge

LEMMA SetsTidy ==
  ASSUME TypeOK, Course, Tidy, TypeOK', Orderly', NEW t \in Threads, SetsRoute(t)
  PROVE  Tidy'
<1>. DEFINE c == call[t]
<1>0. PICK b : b = c.bridge
  OBVIOUS
<1>. DEFINE own == bridge[b]
            held == [own EXCEPT !.monitor = t]
            set == IF c.want THEN "block" ELSE "open"
            w(g) == [c EXCEPT !.at = "waits", !.gate = g]
            to(at) == [c EXCEPT !.at = at]
            job(what, g) == [job |-> what, gate |-> g, by |-> t]
<1>1. /\ c \in Call /\ b \in DOMAIN bridge /\ own \in Bridge /\ made \in Nat
      /\ c.at = "enter" /\ c.at \in AtBridge /\ Kit(own) /\ Overlay(own, nav)
      /\ c.guide \in DOMAIN guide /\ (Bare(own) \/ Running) /\ own.owned
      /\ OnCourse(t, c) /\ (t = "bus" => Running)
      /\ UNCHANGED <<nav, guide, listener, bundle>>
  BY <1>0, InHand, KnownOf DEF Tidy, SetsRoute, AtBridge, Placed, TypeOK, OthersOK
<1>2. Hearing' /\ (Running <=> Running')
  BY <1>1 DEF Tidy, Hearing, Running
<1>3. /\ \A g : w(g).at = "waits" /\ w(g).guide = c.guide /\ w(g).bridge = b
      /\ \A at : to(at).at = at /\ to(at).guide = c.guide /\ to(at).bridge = b
  BY <1>0, <1>1 DEF Call
<1>4. Alike(held, own)
  BY <1>1, Locked
<1>5. ASSUME NEW g \in Gates, NEW what \in {"block", "open", "again"},
             call' = [call EXCEPT ![t] = w(g)],
             bridge' = [bridge EXCEPT ![b] = held],
             jobs' = Append(jobs, job(what, g)),
             \/ /\ what \in {"block", "open"} /\ own.installed /\ g = own.gate
                /\ made' = made
             \/ /\ what = "again" /\ ~own.installed /\ g = made + 1 /\ made' = made + 1
      PROVE  Tidy'
  <2>1. PICK d : /\ call' = [call EXCEPT ![t] = d] /\ d.at = "waits"
                 /\ d.guide = c.guide /\ d.bridge = b
    <3>. HIDE DEF w
    <3>. QED  BY <1>3, <1>5
  <2>2. PICK v : bridge' = [bridge EXCEPT ![b] = v] /\ Alike(v, own)
    <3>. HIDE DEF held
    <3>. QED  BY <1>4, <1>5
  <2>3. PICK j : /\ j \in Job /\ j.by = t /\ j.job = what /\ j.gate = g
                 /\ jobs' = Append(jobs, j)
    <3>1. job(what, g) \in Job
      BY DEF Job
    <3>2. /\ job(what, g).by = t /\ job(what, g).job = what
          /\ job(what, g).gate = g
      OBVIOUS
    <3>. HIDE DEF job
    <3>. QED  BY <1>5, <3>1, <3>2
  <2>4. Working(t, d, v) /\ AtOne(d)
    BY <1>0, <1>1, <2>1, <2>2 DEF Working, Alike, AtOne, AtBridge
  <2>5. /\ Kit(v) /\ Overlay(v, nav') /\ (Bare(v) \/ Running) /\ Awaited(j, v)
        /\ c.at # "waits" /\ own.gate <= made /\ v.gate = own.gate
    BY <1>1, <1>5, <2>2, <2>3
    DEF Alike, Kit, Overlay, Bare, Awaited, Tidy, Bounded
  <2>6. nav'.service = nav.service /\ nav'.closed \subseteq nav.closed
    BY <1>1
  <2>. QED
    BY <1>0, <1>1, <1>5, <2>1, <2>2, <2>3, <2>4, <2>5, <2>6, WorkAsks
<1>6. CASE own.installed /\ own.active # c.want
  <2>1. /\ bridge' = [bridge EXCEPT ![b] = held] /\ made' = made
        /\ Dispatches(t, c, set, own.gate)
    BY <1>0, <1>1, <1>6 DEF SetsRoute
  <2>2. own.gate \in Gates
    BY <1>0, <1>1, <1>6, BridgeIsSound, Typed DEF SoundBridge, Bridge, Gates, Nobody
  <2>3. set \in {"block", "open"}
    OBVIOUS
  <2>. HIDE DEF held, set
  <2>. QED  BY <1>5, <1>6, <2>1, <2>2, <2>3 DEF Dispatches
<1>7. CASE ~own.installed /\ nav.ready
  <2>1. /\ bridge' = [bridge EXCEPT ![b] = held] /\ made' = made + 1
        /\ Dispatches(t, c, "again", made + 1)
    BY <1>0, <1>1, <1>7 DEF SetsRoute
  <2>2. made + 1 \in Gates
    BY <1>1 DEF Gates
  <2>. HIDE DEF held
  <2>. QED  BY <1>5, <1>7, <2>1, <2>2 DEF Dispatches
<1>8. CASE ~(own.installed /\ own.active # c.want) /\ ~(~own.installed /\ nav.ready)
  <2>1. /\ UNCHANGED <<jobs, bridge, made>>
        /\ call' = [call EXCEPT ![t] = IF c.want /\ ~own.installed THEN Idle
                                       ELSE to(AfterSet(c))]
    BY <1>0, <1>1, <1>8 DEF SetsRoute
  <2>2. PICK d : /\ call' = [call EXCEPT ![t] = d]
                 /\ AtOne(d) => d.guide = c.guide /\ d.bridge = b
                 /\ d.at \notin {"enter", "dispose", "force", "emit", "show"}
                 /\ Running \/ d.at \in HandsAt \/ ~own.installed
    <3>1. CASE c.want /\ ~own.installed
      BY <2>1, <3>1 DEF Idle, AtOne, AtBridge
    <3>2. CASE ~(c.want /\ ~own.installed)
      <4>1. /\ AfterSet(c) \in {"capture", "idle", "ended", "restore"}
            /\ t # "bus" => AfterSet(c) = "restore"
        BY <1>1 DEF AfterSet, OnCourse
      <4>2. call' = [call EXCEPT ![t] = to(AfterSet(c))]
        BY <2>1, <3>2
      <4>3. /\ to(AfterSet(c)).at = AfterSet(c) /\ to(AfterSet(c)).guide = c.guide
            /\ to(AfterSet(c)).bridge = b
        BY <1>3
      <4>4. Running \/ to(AfterSet(c)).at \in HandsAt
        BY <1>1, <4>1, <4>3 DEF HandsAt
      <4>. HIDE DEF to
      <4>. QED  BY <4>1, <4>2, <4>3, <4>4
    <3>. QED  BY <3>1, <3>2
  <2>3. PICK v : v = own
    OBVIOUS
  <2>4. Working(t, d, v)
    BY <1>0, <1>1, <2>1, <2>2, <2>3, BridgeSame DEF Working
  <2>5. PutOn(d, v) /\ Placed(d, v)
    BY <2>2 DEF PutOn, Placed
  <2>6. c.at # "waits"
    BY <1>1
  <2>. QED
    BY <1>0, <1>1, <1>2, <2>1, <2>2, <2>3, <2>4, <2>5, <2>6, WorkPlain
<1>. QED  BY <1>6, <1>7, <1>8

(* The gate of a bridge that had none is made.                             *)
WithGate(v, own) ==
  /\ v \in Bridge /\ v.init = own.init /\ v.cluster /\ v.owned
  /\ ~v.installed /\ ~v.active /\ v.gate = own.gate /\ v.forced = own.forced
  /\ v.saved = own.saved /\ v.captured = own.captured /\ v.view = own.view

LEMMA FindsTidy ==
  ASSUME TypeOK, Course, Tidy, TypeOK', Orderly', FindsGate
  PROVE  Tidy'
<1>. DEFINE c == call["bus"]
<1>0. PICK b, t : b = c.bridge /\ t = "bus"
  OBVIOUS
<1>. DEFINE own == bridge[b]
            e == [c EXCEPT !.want = TRUE, !.then = "set"]
            gated == [own EXCEPT !.cluster = TRUE, !.owned = TRUE,
                        !.installed = FALSE, !.active = FALSE, !.monitor = t]
            w == [e EXCEPT !.at = "waits", !.gate = made + 1]
            s == [e EXCEPT !.at = "set"]
            job == [job |-> "install", gate |-> made + 1, by |-> t]
<1>1. /\ c \in Call /\ b \in DOMAIN bridge /\ own \in Bridge /\ made \in Nat
      /\ c.at = "own" /\ c.at \in AtBridge /\ Kit(own) /\ Overlay(own, nav)
      /\ c.guide \in DOMAIN guide /\ Running /\ t \in Threads
      /\ e.bridge = b
      /\ UNCHANGED <<nav, guide, listener, bundle>>
  <2>1. c.at = "own" /\ c.at \in AtBridge /\ "bus" \in Threads
    BY DEF FindsGate, AtBridge, Threads
  <2>2. c \in Call
    BY <2>1, InHand DEF Tidy
  <2>. QED  BY <1>0, <2>1, <2>2, InHand, KnownOf
            DEF Tidy, FindsGate, TypeOK, OthersOK, Call
<1>2. Hearing' /\ (Running <=> Running')
  BY <1>1 DEF Tidy, Hearing, Running
<1>3. CASE ~own.owned /\ nav.ready /\ own.init
  <2>1. Accesses(t, e, bridge)
    BY <1>0, <1>1, <1>3 DEF FindsGate
  <2>2. PICK d : /\ call' = [call EXCEPT ![t] = d] /\ d.at = "waits"
                 /\ d.guide = c.guide /\ d.bridge = b
    <3>1. w.at = "waits" /\ w.guide = c.guide /\ w.bridge = b
      BY <1>0, <1>1 DEF Call
    <3>2. call' = [call EXCEPT ![t] = w]
      BY <2>1 DEF Accesses, Dispatches
    <3>. HIDE DEF w
    <3>. QED  BY <3>1, <3>2
  <2>3. PICK v : bridge' = [bridge EXCEPT ![b] = v] /\ WithGate(v, own)
    <3>1. WithGate(gated, own)
      BY <1>1 DEF WithGate, Bridge
    <3>2. bridge' = [bridge EXCEPT ![b] = gated]
      <4>. HIDE DEF e
      <4>. QED  BY <1>1, <2>1 DEF Accesses
    <3>. HIDE DEF gated
    <3>. QED  BY <3>1, <3>2
  <2>4. PICK j : /\ j \in Job /\ j.by = t /\ j.job = "install"
                 /\ j.gate = made + 1 /\ jobs' = Append(jobs, j)
    <3>1. job \in Job
      BY <1>1 DEF Job, Gates
    <3>2. jobs' = Append(jobs, job)
      BY <2>1 DEF Accesses, Dispatches
    <3>. QED  BY <3>1, <3>2
  <2>5. Working(t, d, v) /\ AtOne(d)
    BY <1>0, <1>1, <2>2, <2>3 DEF Working, WithGate, AtOne, AtBridge
  <2>6. /\ Kit(v) /\ Overlay(v, nav') /\ (Bare(v) \/ Running) /\ Awaited(j, v)
        /\ v.gate = own.gate /\ ~own.installed
    BY <1>1, <1>3, <2>3, <2>4 DEF WithGate, Kit, Overlay, Bare, Awaited
  <2>7. /\ nav'.service = nav.service /\ nav'.closed \subseteq nav.closed
        /\ made' = made + 1 /\ call[t].at # "waits" /\ b = call[t].bridge
    BY <1>0, <1>1, <2>1 DEF Accesses
  <2>. QED  BY <1>1, <2>2, <2>4, <2>5, <2>6, <2>7, WorkAsks
<1>4. CASE ~(~own.owned /\ nav.ready /\ own.init)
  <2>1. /\ UNCHANGED <<jobs, bridge, made>>
        /\ call' = [call EXCEPT ![t] = IF own.owned THEN s ELSE Idle]
    BY <1>0, <1>1, <1>4 DEF FindsGate
  <2>2. PICK d : /\ call' = [call EXCEPT ![t] = d]
                 /\ AtOne(d) => d.guide = c.guide /\ d.bridge = b
                 /\ d.at \in {"set", "idle"}
    <3>1. s.at = "set" /\ s.guide = c.guide /\ s.bridge = b
      BY <1>0, <1>1 DEF Call
    <3>2. ~AtOne(Idle) /\ Idle.at = "idle"
      BY DEF Idle, AtOne, AtBridge
    <3>. HIDE DEF s
    <3>. QED  BY <2>1, <3>1, <3>2
  <2>3. PICK v : v = own
    OBVIOUS
  <2>4. Working(t, d, v)
    BY <1>0, <1>1, <2>1, <2>2, <2>3, BridgeSame DEF Working
  <2>5. PutOn(d, v) /\ Placed(d, v) /\ call[t].at # "waits" /\ b = call[t].bridge
    BY <1>0, <1>1, <2>2 DEF PutOn, Placed
  <2>. QED  BY <1>1, <1>2, <2>1, <2>3, <2>4, <2>5, WorkPlain
<1>. QED  BY <1>3, <1>4

LEMMA DisposesTidy ==
  ASSUME TypeOK, Course, Tidy, TypeOK', Orderly', NEW t \in Threads, Disposes(t)
  PROVE  Tidy'
<1>. DEFINE c == call[t]
<1>0. PICK b : b = c.bridge
  OBVIOUS
<1>. DEFINE own == bridge[b]
            gone == [own EXCEPT !.owned = FALSE, !.init = FALSE, !.cluster = FALSE]
            g == [guide[c.guide] EXCEPT !.bap = Nobody]
            stop == [c EXCEPT !.at = "stopped"]
<1>1. /\ c \in Call /\ b \in DOMAIN bridge /\ own \in Bridge
      /\ c.at = "dispose" /\ c.at \in AtBridge /\ Kit(own) /\ Overlay(own, nav)
      /\ c.guide \in DOMAIN guide /\ guide[c.guide] \in Guide
      /\ ~own.installed /\ t # "bus" /\ ~guide[c.guide].running
      /\ bundle.guide # Nobody => c.guide = bundle.guide
      /\ \A u \in Threads \ {t} : ~AtOne(call[u])
      /\ (Bare(own) \/ Running)
      /\ UNCHANGED <<nav, jobs, listener, bundle, made>>
  <2>1. c.at = "dispose" /\ c.at \in AtBridge
    BY DEF Disposes, AtBridge
  <2>2. OnCourse(t, c) => t # "bus"
    BY <2>1 DEF OnCourse, BusAt
  <2>. QED  BY <1>0, <2>1, <2>2, InHand, KnownOf, Typed
            DEF Tidy, Disposes, Placed
<1>2. Bare(own)
  BY <1>1 DEF Running
<1>3. /\ guide' = [guide EXCEPT ![c.guide] = g] /\ g.bap = Nobody
      /\ g.running = guide[c.guide].running /\ g.active = guide[c.guide].active
  BY <1>1 DEF Disposes, Guide
<1>. HIDE DEF g
<1>4. Hearing'
  BY <1>1, <1>3 DEF Tidy, Hearing
<1>5. PICK d : call' = [call EXCEPT ![t] = d] /\ d.at = "stopped"
  <2>1. stop.at = "stopped" /\ call' = [call EXCEPT ![t] = stop]
    BY <1>1 DEF Call, Disposes
  <2>. HIDE DEF stop
  <2>. QED  BY <2>1
<1>6. PICK v : /\ bridge' = [bridge EXCEPT ![b] = v] /\ v \in Bridge
               /\ v.gate = own.gate
               /\ v.forced = own.forced /\ v.captured = own.captured
  <2>1. /\ bridge' = [bridge EXCEPT ![b] = gone] /\ gone \in Bridge
        /\ gone.gate = own.gate
        /\ gone.forced = own.forced /\ gone.captured = own.captured
    BY <1>0, <1>1 DEF Disposes, Bridge
  <2>. HIDE DEF gone
  <2>. QED  BY <2>1
<1>7. Working(t, d, v)
  BY <1>0, <1>1, <1>3, <1>5, <1>6 DEF Working, AtOne, AtBridge
<1>8. ~Uses(b)'
  <2>1. call'[t] = d /\ \A u \in Threads \ {t} : call'[u] = call[u]
    BY <1>5 DEF TypeOK, CallsOK
  <2>2. \A u \in Threads : ~AtOne(call'[u])
    BY <1>1, <1>5, <2>1 DEF AtOne, AtBridge
  <2>3. b # Nobody
    BY <1>1, Typed DEF Nobody
  <2>. QED  BY <1>1, <1>3, <2>2, <2>3 DEF Uses
<1>9. /\ Overlay(v, nav') /\ Bare(v) /\ PutOn(d, v) /\ Placed(d, v)
      /\ c.at # "waits"
  BY <1>1, <1>2, <1>5, <1>6 DEF Overlay, Bare, PutOn, Placed
<1>. QED  BY <1>0, <1>1, <1>4, <1>6, <1>7, <1>8, <1>9, WorkPlain

LEMMA RunsTidy ==
  ASSUME TypeOK, Course, Tidy, TypeOK', Orderly', NEW t \in Threads, Runs(t)
  PROVE  Tidy'
<1>. DEFINE c == call[t]
<1>0. PICK b : b = c.bridge
  OBVIOUS
<1>. DEFINE own == bridge[b]
            g == [running |-> TRUE, active |-> FALSE, bap |-> b]
            up == [c EXCEPT !.at = "started"]
<1>1. /\ c \in Call /\ b \in DOMAIN bridge /\ own \in Bridge
      /\ c.at = "run" /\ c.at \in AtBridge /\ Kit(own) /\ Overlay(own, nav)
      /\ c.guide \in DOMAIN guide /\ b # Nobody
      /\ c.guide = bundle.guide /\ bundle.guide # Nobody
      /\ UNCHANGED <<nav, jobs, bridge, bundle, made>>
  <2>1. c.at = "run" /\ c.at \in AtBridge /\ ~Adds(c)
    BY DEF Runs, AtBridge, Adds
  <2>2. c.guide = bundle.guide /\ c.guide # Nobody
    BY <2>1, GuideKnown DEF Tidy, Orderly
  <2>. QED  BY <1>0, <2>1, <2>2, InHand, KnownOf, Typed DEF Tidy, Runs, Nobody
<1>2. /\ guide' = [guide EXCEPT ![c.guide] = g] /\ listener' = c.guide
      /\ g.running /\ ~g.active /\ g.bap = b
  BY <1>0 DEF Runs
<1>. HIDE DEF g
<1>3. \A r \in DOMAIN guide : r # c.guide => ~guide[r].running /\ ~guide[r].active
  BY <1>1 DEF Tidy, Hearing, Orderly
<1>4. Hearing' /\ Running'
  BY <1>1, <1>2, <1>3 DEF Hearing, Running
<1>5. PICK d : call' = [call EXCEPT ![t] = d] /\ d.at = "started"
  <2>1. up.at = "started" /\ call' = [call EXCEPT ![t] = up]
    BY <1>1 DEF Call, Runs
  <2>. HIDE DEF up
  <2>. QED  BY <2>1
<1>6. PICK v : v = own
  OBVIOUS
<1>7. Working(t, d, v)
  BY <1>0, <1>1, <1>2, <1>5, <1>6, BridgeSame DEF Working, AtOne, AtBridge
<1>8. PutOn(d, v) /\ Placed(d, v) /\ c.at # "waits"
  BY <1>1, <1>5 DEF PutOn, Placed
<1>. QED  BY <1>0, <1>1, <1>4, <1>6, <1>7, <1>8, WorkPlain

(* Nothing but who is at work changes: a bridge may fall out of use, but   *)
(* not one whose route is up or coming down.                               *)
SameGates ==
  /\ UNCHANGED <<bridge, jobs, made>>
  /\ nav'.service = nav.service /\ nav'.closed = nav.closed
  /\ nav'.rgActive = nav.rgActive /\ nav'.view = nav.view

LEMMA MovesTidy ==
  ASSUME TypeOK, TypeOK', Tidy, Orderly', Linked', Hearing', SameGates,
         NEW t \in Threads, NEW d, call' = [call EXCEPT ![t] = d],
         call[t].at \notin AtBridge,
         d.at \notin {"enter", "dispose", "force", "emit", "show"},
         Running => Running' \/ d.at = "down",
         \A x \in DOMAIN bridge : Uses(x)' => Uses(x),
         \A x \in DOMAIN bridge : Uses(x) => Uses(x)' \/ (~Running /\ ~HandsBack)
  PROVE  Tidy'
<1>1. call'[t] = d /\ \A u \in Threads \ {t} : call'[u] = call[u]
  BY DEF TypeOK, CallsOK
<1>2. Kits'
  BY DEF Tidy, Kits, SameGates
<1>3. Waiting'
  <2>1. ASSUME NEW k \in DOMAIN jobs, jobs[k].by # NoThread
        PROVE  call'[jobs[k].by] = call[jobs[k].by]
    <3>1. jobs[k] \in Job /\ call[jobs[k].by].at = "waits"
      BY <2>1, Typed DEF TypeOK, JobsOK
    <3>. QED  BY <1>1, <2>1, <3>1 DEF Job, AtBridge
  <2>. QED  BY <2>1 DEF Tidy, Waiting, SameGates
<1>4. Placing' /\ Dressing'
  BY <1>1 DEF Tidy, Placing, Dressing, SameGates, Threads
<1>5. Bounded'
  BY DEF Tidy, Bounded, SameGates
<1>6. /\ HandsBack => HandsBack'
      /\ ComesDown => ComesDown' /\ HandsBack
      /\ d.at = "down" => ComesDown' /\ HandsBack'
  BY <1>1 DEF HandsBack, ComesDown, HandsAt, AtBridge
<1>7. Overlaid'
  <2>1. ASSUME NEW x \in DOMAIN bridge', Uses(x)'
        PROVE  /\ Overlay(bridge'[x], nav')
               /\ Bare(bridge'[x]) \/ Running' \/ ComesDown'
    <3>1. /\ Overlay(bridge[x], nav) /\ x \in DOMAIN bridge
          /\ Bare(bridge[x]) \/ Running \/ ComesDown
      BY <2>1 DEF Tidy, Overlaid, SameGates
    <3>2. Overlay(bridge'[x], nav')
      BY <3>1 DEF Overlay, SameGates
    <3>3. bridge' = bridge
      BY DEF SameGates
    <3>. QED  BY <1>6, <3>1, <3>2, <3>3
  <2>2. ASSUME \A x \in DOMAIN bridge' : ~Uses(x)'
        PROVE  ~nav'.rgActive /\ nav'.view = "stock"
    <3>1. CASE \A x \in DOMAIN bridge : ~Uses(x)
      BY <3>1 DEF Tidy, Overlaid, SameGates
    <3>2. CASE \E x \in DOMAIN bridge : Uses(x)
      <4>1. PICK x \in DOMAIN bridge : Uses(x)
        BY <3>2
      <4>2. ~Running /\ ~HandsBack
        BY <2>2, <4>1 DEF SameGates
      <4>3. Overlay(bridge[x], nav) /\ Bare(bridge[x])
        BY <1>6, <4>1, <4>2 DEF Tidy, Overlaid
      <4>4. nav \in Nav
        BY DEF TypeOK, OthersOK
      <4>. QED  BY <4>3, <4>4 DEF Overlay, Bare, Nav, Views, SameGates
    <3>. QED  BY <3>1, <3>2
  <2>. QED  BY <2>1, <2>2 DEF Overlaid
<1>8. Ends'
  <2>1. ASSUME NEW g \in Gates, Live(g) PROVE Live(g)'
    BY <1>6, <2>1 DEF Live, SameGates
  <2>. QED  BY <2>1, EndsStays DEF Tidy, SameGates
<1>. QED  BY <1>2, <1>3, <1>4, <1>5, <1>7, <1>8 DEF Tidy

(* A thread without a bridge takes up that of the bundle's guidance, or    *)
(* none.                                                                   *)
LEMMA TakesUp ==
  ASSUME TypeOK, TypeOK', Tidy, Orderly', Hearing', SameGates,
         NEW t \in Threads, NEW d, call' = [call EXCEPT ![t] = d],
         ~AtOne(call[t]),
         AtOne(d) => /\ bundle.guide # Nobody /\ d.guide = bundle.guide
                     /\ d.bridge = guide[bundle.guide].bap
                     /\ d.guide \in DOMAIN guide,
         d.at \notin {"enter", "dispose", "force", "emit", "show"},
         \A r \in DOMAIN guide : guide'[r].bap = guide[r].bap,
         bundle'.guide = bundle.guide,
         Running => Running' \/ d.at = "down"
  PROVE  Tidy'
<1>1. Linked' /\ \A x : Uses(x)' => Uses(x)
  BY Joins DEF Tidy
<1>2. ASSUME NEW x \in DOMAIN bridge, Uses(x)
      PROVE  Uses(x)'
  <2>1. call'[t] = d /\ \A u \in Threads \ {t} : call'[u] = call[u]
    BY DEF TypeOK, CallsOK
  <2>2. bundle.guide # Nobody => bundle.guide \in DOMAIN guide
    BY DEF TypeOK, OthersOK, GuidesOK, Nobody
  <2>. QED  BY <1>2, <2>1, <2>2 DEF Uses
<1>3. call[t].at \notin AtBridge
  BY DEF AtOne
<1>. QED  BY <1>1, <1>2, <1>3, MovesTidy

LEMMA TidyStays ==
  ASSUME TypeOK, Tidy, SameGates, UNCHANGED <<call, guide, bundle, listener, life>>
  PROVE  Tidy'
<1>1. Orderly' /\ Linked'
  BY DEF Tidy, Orderly, Linked
<1>2. \A x : Uses(x)' <=> Uses(x)
  BY DEF Uses
<1>3. /\ Running' <=> Running
      /\ ComesDown' <=> ComesDown
      /\ HandsBack' <=> HandsBack
  BY DEF Running, ComesDown, HandsBack
<1>4. Kits' /\ Hearing' /\ Waiting' /\ Placing' /\ Bounded' /\ Dressing'
  BY <1>2 DEF Tidy, Kits, Hearing, Waiting, Placing, Bounded, Dressing, SameGates
<1>5. Overlaid'
  BY <1>2, <1>3 DEF Tidy, Overlaid, Overlay, SameGates
<1>6. \A g \in Gates : Live(g) => Live(g)'
  BY <1>2, <1>3 DEF Live, SameGates
<1>7. Ends'
  BY <1>6, EndsStays DEF Tidy, SameGates
<1>. QED  BY <1>1, <1>4, <1>5, <1>7 DEF Tidy

-----------------------------------------------------------------------------
(* The steps of those without a bridge.                                    *)

LEMMA FrameTidy ==
  ASSUME TypeOK, Course, Tidy, TypeOK', Orderly',
         FrameStarts \/ FrameEnds \/ FrameEnded
  PROVE  Tidy'
<1>. DEFINE r == listener
            b == guide[r].bap
            p == IF b = Nobody THEN "ended" ELSE "down"
            starts == [Idle EXCEPT !.at = "own", !.guide = r, !.bridge = b]
            ends == [Idle EXCEPT !.at = p, !.guide = r, !.bridge = b,
                                 !.then = "ended"]
<1>1. /\ "bus" \in Threads /\ ~AtOne(call["bus"]) /\ bundle' = bundle
      /\ listener' = listener /\ SameGates
  BY DEF FrameStarts, FrameEnds, FrameEnded, Threads, AtOne, AtBridge, SameGates
<1>2. /\ DOMAIN guide' = DOMAIN guide
      /\ \A x \in DOMAIN guide :
           /\ guide'[x].bap = guide[x].bap /\ guide'[x].running = guide[x].running
           /\ guide'[x].active => guide[x].active
  <2>1. \A x \in DOMAIN guide : guide[x] \in Guide
    BY Typed
  <2>2. guide' \in {guide, [guide EXCEPT ![call["bus"].guide] =
                             [guide[call["bus"].guide] EXCEPT !.active = FALSE]]}
    BY DEF FrameStarts, FrameEnds, FrameEnded
  <2>. QED  BY <2>1, <2>2 DEF Guide
<1>3. bundle.guide # Nobody => bundle.guide \in DOMAIN guide
  BY Typed DEF TypeOK, OthersOK, Nobody
<1>4. Hearing' /\ (Running => Running')
  <2>1. listener # Nobody => listener \in DOMAIN guide
    BY Typed DEF TypeOK, OthersOK, Nobody
  <2>. QED  BY <1>1, <1>2, <1>3, <2>1 DEF Tidy, Hearing, Running
<1>5. CASE FrameStarts \/ FrameEnds
  <2>1. /\ r \in DOMAIN guide /\ r # Nobody /\ r = bundle.guide
        /\ call' \in {[call EXCEPT !["bus"] = starts],
                      [call EXCEPT !["bus"] = ends]}
    BY <1>3, <1>5 DEF FrameStarts, FrameEnds, Tidy, Hearing
  <2>2. /\ starts.guide = r /\ starts.bridge = b /\ starts.at = "own"
        /\ ends.guide = r /\ ends.bridge = b /\ ends.at = p
    BY DEF Idle
  <2>3. PICK d : /\ call' = [call EXCEPT !["bus"] = d]
                 /\ d.at \in {"own", "ended", "down"}
                 /\ d.guide = r /\ d.bridge = b
    <3>1. p \in {"own", "ended", "down"}
      OBVIOUS
    <3>. HIDE DEF starts, ends, p
    <3>. QED  BY <2>1, <2>2, <3>1
  <2>. QED  BY <1>1, <1>2, <1>4, <2>1, <2>3, TakesUp
<1>6. CASE FrameEnded
  <2>1. ~AtOne(Idle) /\ Idle.at = "idle"
    BY DEF Idle, AtOne, AtBridge
  <2>2. call' = [call EXCEPT !["bus"] = Idle]
    BY <1>6 DEF FrameEnded
  <2>. QED  BY <1>1, <1>2, <1>4, <2>1, <2>2, TakesUp
<1>. QED  BY <1>5, <1>6

LEMMA StopsTidy ==
  ASSUME TypeOK, Course, Tidy, TypeOK', Orderly', NEW t \in Threads, Stops(t),
         ~met'
  PROVE  Tidy'
<1>. DEFINE c == call[t]
            r == c.guide
            b == guide[r].bap
            p == IF b = Nobody THEN "stopped" ELSE "down"
            down == [c EXCEPT !.at = p, !.bridge = b, !.then = "restore"]
            stop == [c EXCEPT !.at = "stopped"]
            v == [guide[r] EXCEPT !.running = FALSE, !.active = FALSE]
<1>1. /\ c \in Call /\ c.at = "stop" /\ ~Meets(t, r) /\ r \in DOMAIN guide
      /\ ~AtOne(c) /\ SameGates /\ bundle' = bundle /\ guide[r] \in Guide
  BY GuideKnown, Typed DEF Stops, TypeOK, CallsOK, AtOne, AtBridge, SameGates
<1>2. r = bundle.guide /\ bundle.guide # Nobody
  BY <1>1, Alone DEF Tidy
<1>3. CASE ~guide[r].running
  <2>1. stop.at = "stopped" /\ ~AtOne(stop)
    BY <1>1 DEF Call, AtOne, AtBridge
  <2>2. /\ UNCHANGED <<guide, listener>> /\ call' = [call EXCEPT ![t] = stop]
    BY <1>3 DEF Stops
  <2>3. Hearing' /\ (Running => Running')
    BY <1>1, <2>2 DEF Tidy, Hearing, Running
  <2>4. bundle'.guide = bundle.guide /\ \A x \in DOMAIN guide : guide'[x].bap = guide[x].bap
    BY <1>1, <2>2
  <2>. HIDE DEF stop
  <2>. QED  BY <1>1, <2>1, <2>2, <2>3, <2>4, TakesUp
<1>4. CASE guide[r].running
  <2>1. /\ guide' = [guide EXCEPT ![r] = v] /\ listener' = Nobody
        /\ v.bap = b /\ ~v.running /\ ~v.active
        /\ call' = [call EXCEPT ![t] = down]
    BY <1>1, <1>4 DEF Stops, Guide
  <2>2. /\ DOMAIN guide' = DOMAIN guide
        /\ \A x \in DOMAIN guide : guide'[x].bap = guide[x].bap
    BY <1>1, <2>1
  <2>3. \A x \in DOMAIN guide : x # r => ~guide[x].running /\ ~guide[x].active
    BY <1>2 DEF Tidy, Hearing, Orderly
  <2>4. Hearing'
    <3>. HIDE DEF v
    <3>. QED  BY <1>1, <2>1, <2>3 DEF Hearing
  <2>5. b # Nobody
    BY <1>1, <1>4 DEF Tidy, Hearing
  <2>6. down.at = "down" /\ down.guide = r /\ down.bridge = b
    BY <1>1, <2>5 DEF Call
  <2>. HIDE DEF down
  <2>. QED  BY <1>1, <1>2, <2>1, <2>2, <2>4, <2>6, TakesUp
<1>. QED  BY <1>3, <1>4

LEMMA LifeTidy ==
  ASSUME TypeOK, Course, Tidy, TypeOK', Orderly', NEW t \in Threads,
         NEW x \in {"carplay", "other"}, NEW s \in BOOLEAN,
         DeviceState(x) \/ TerminalModeGoes \/ Leaves(t) \/ ServiceGoes(s)
  PROVE  Tidy'
<1>1. /\ SameGates /\ UNCHANGED <<guide, listener>>
      /\ bundle'.guide = bundle.guide /\ call \in [Threads -> Call]
      /\ \A r \in DOMAIN guide : guide'[r].bap = guide[r].bap
  BY DEF DeviceState, TerminalModeGoes, Leaves, ServiceGoes, TypeOK, OthersOK,
         CallsOK, SameGates
<1>2. PICK u \in Threads : /\ call[u].at \in {"idle", "started", "stopped"}
                          /\ \/ call' = call
                             \/ call' = [call EXCEPT ![u] = Idle]
                             \/ \E r : \E p \in {"start", "stop"} :
                                  call' = [call EXCEPT ![u] =
                                             [Idle EXCEPT !.at = p, !.guide = r]]
  <2>1. CASE DeviceState(x)
    BY <2>1 DEF DeviceState, HandlesDevice, Threads
  <2>2. CASE TerminalModeGoes
    BY <2>2 DEF TerminalModeGoes, Threads
  <2>3. CASE Leaves(t)
    BY <2>3 DEF Leaves
  <2>4. CASE ServiceGoes(s)
    BY <2>4 DEF ServiceGoes, Threads
  <2>. QED  BY <2>1, <2>2, <2>3, <2>4
<1>3. PICK d : /\ call' = [call EXCEPT ![u] = d]
               /\ d.at \in {"idle", "start", "stop", "started", "stopped"}
  <2>1. CASE call' = call
    <3>1. call = [call EXCEPT ![u] = call[u]]
      BY <1>1
    <3>. QED  BY <1>2, <2>1, <3>1
  <2>2. CASE call' = [call EXCEPT ![u] = Idle]
    <3>1. Idle.at = "idle"
      BY DEF Idle
    <3>. QED  BY <2>2, <3>1
  <2>3. ASSUME NEW r, NEW p \in {"start", "stop"},
               call' = [call EXCEPT ![u] = [Idle EXCEPT !.at = p, !.guide = r]]
        PROVE  \E d : /\ call' = [call EXCEPT ![u] = d]
                      /\ d.at \in {"idle", "start", "stop", "started", "stopped"}
    <3>1. [Idle EXCEPT !.at = p, !.guide = r].at = p
      BY DEF Idle
    <3>. QED  BY <2>3, <3>1
  <2>. QED  BY <1>2, <2>1, <2>2, <2>3
<1>4. ~AtOne(d) /\ ~AtOne(call[u])
  BY <1>2, <1>3 DEF AtOne, AtBridge
<1>5. Hearing' /\ (Running => Running')
  BY <1>1 DEF Tidy, Hearing, Running
<1>. QED  BY <1>1, <1>3, <1>4, <1>5, TakesUp

(* The bundle's guidance comes or goes.                                    *)
LEMMA BundleTidy ==
  ASSUME TypeOK, Course, Tidy, TypeOK', Orderly', ServiceAcquired \/ ServiceGone
  PROVE  Tidy'
<1>. DEFINE c == call["bundle"]
            r == c.guide
<1>1. /\ "bundle" \in Threads /\ c.at \in {"added", "stopped"}
      /\ SameGates /\ UNCHANGED <<guide, listener>> /\ r \in DOMAIN guide
      /\ bundle \in [guide : Nat, stopping : BOOLEAN] /\ r # Nobody
  <2>1. "bundle" \in Threads /\ c.at \in {"added", "stopped"}
    BY DEF ServiceAcquired, ServiceGone, Threads
  <2>. QED  BY <2>1, GuideKnown
            DEF ServiceAcquired, ServiceGone, TypeOK, OthersOK, SameGates
<1>2. PICK d : /\ call' = [call EXCEPT !["bundle"] = d]
               /\ d.at \in {"idle", "start", "stop"}
  <2>1. /\ Idle.at = "idle"
        /\ \A p : [Idle EXCEPT !.at = p, !.guide = r].at = p
    BY DEF Idle
  <2>2. \/ call' = [call EXCEPT !["bundle"] = Idle]
        \/ \E p \in {"start", "stop"} :
             call' = [call EXCEPT !["bundle"] =
                                    [Idle EXCEPT !.at = p, !.guide = r]]
    BY DEF ServiceAcquired, ServiceGone, HandlesDevice
  <2>. QED  BY <2>1, <2>2
<1>3. /\ call'["bundle"] = d
      /\ \A u \in Threads \ {"bundle"} : call'[u] = call[u]
  BY <1>2 DEF TypeOK, CallsOK
<1>4. /\ AtWork(c) /\ c.at \notin AtBridge /\ ~AtOne(d)
      /\ \A u \in Threads \ {"bundle"} : ~AtWork(call[u]) /\ ~AtOne(call[u])
  <2>1. AtWork(c) /\ c.at \notin AtBridge /\ ~AtOne(d)
    BY <1>1, <1>2 DEF AtWork, AtBridge, AtOne
  <2>2. \A u \in Threads \ {"bundle"} : ~AtWork(call[u])
    BY <1>1, <2>1 DEF Tidy, Orderly
  <2>. QED  BY <2>1, <2>2 DEF AtOne, AtWork, AtBridge
<1>5. ~HandsBack
  BY <1>1, <1>4 DEF HandsBack, HandsAt, AtBridge, AtWork
<1>6. \A u \in Threads : ~AtOne(call'[u])
  BY <1>3, <1>4
<1>7. Linked'
  BY <1>6 DEF Linked
<1>8. ~Running
  BY <1>1, <1>4 DEF Tidy, Orderly, Running, Adds
<1>9. Hearing'
  BY <1>1, <1>8 DEF Tidy, Hearing, Running
<1>10. CASE ServiceAcquired
  <2>1. bundle'.guide = r /\ AtOne(c)
    BY <1>1, <1>10 DEF ServiceAcquired, AtOne
  <2>2. guide[r].bap \in {Nobody, c.bridge}
    BY <1>1, <2>1 DEF Tidy, Linked
  <2>3. \A x \in DOMAIN bridge : Uses(x)' => Uses(x)
    <3>1. ASSUME NEW x \in DOMAIN bridge, Uses(x)' PROVE Uses(x)
      <4>1. guide[r].bap = x /\ x # Nobody
        BY <1>1, <1>6, <2>1, <3>1, Typed DEF Uses, Nobody
      <4>. QED  BY <1>1, <2>1, <2>2, <4>1 DEF Uses
    <3>. QED  BY <3>1
  <2>. QED
    BY <1>1, <1>2, <1>4, <1>5, <1>7, <1>8, <1>9, <2>3, MovesTidy
<1>11. CASE ServiceGone
  <2>1. bundle'.guide = Nobody
    BY <1>1, <1>11 DEF ServiceGone
  <2>2. \A x \in DOMAIN bridge : Uses(x)' => Uses(x)
    BY <1>6, <2>1 DEF Uses
  <2>. QED
    BY <1>1, <1>2, <1>4, <1>5, <1>7, <1>8, <1>9, <2>2, MovesTidy
<1>. QED  BY <1>10, <1>11

(* A bridge is made while none is in use.                                  *)
LEMMA NewBridgeTidy ==
  ASSUME TypeOK, Tidy, TypeOK', Orderly', Hearing', UNCHANGED nav,
         NEW t \in Threads \ {"bus"}, \A u \in Threads : ~AtOne(call[u]),
         \A u \in Threads \ {t} : ~AtWork(call[u]),
         \A x \in DOMAIN bridge : ~Uses(x),
         NEW c \in Call, NewBridge(t, c), c.then \in {"run", "added"},
         guide'[c.guide].bap \in {Nobody, Len(bridge) + 1},
         bundle'.guide # Nobody => guide'[bundle'.guide].bap \in {Nobody, Len(bridge) + 1}
  PROVE  Tidy'
<1>. DEFINE n    == Len(bridge) + 1
            next == [c EXCEPT !.bridge = n]
            bs   == Append(bridge, Fresh)
            own  == [Fresh EXCEPT !.cluster = TRUE, !.owned = TRUE,
                       !.installed = FALSE, !.active = FALSE, !.monitor = t]
            w    == [next EXCEPT !.at = "waits", !.gate = made + 1]
            p    == [next EXCEPT !.at = c.then]
            job  == [job |-> "install", gate |-> made + 1, by |-> t]
            bare(v) == /\ v.init /\ ~v.installed /\ ~v.active /\ v.gate = Nobody
                       /\ ~v.forced /\ ~v.captured /\ (v.owned => v.cluster)
<1>1. /\ Len(bridge) \in Nat /\ n \in Nat /\ DOMAIN bridge = 1..Len(bridge)
      /\ made \in Nat /\ nav \in Nav
      /\ \A k \in DOMAIN jobs : jobs[k] \in Job /\ jobs[k].by = NoThread
  <2>1. call[t].at # "waits"
    BY DEF AtOne, AtBridge
  <2>. QED  BY SMTT(30), <2>1, Typed, NobodyWaits DEF TypeOK, OthersOK
<1>2. bs[n] = Fresh /\ DOMAIN bs = 1..n /\ \A x \in DOMAIN bridge : bs[x] = bridge[x]
  <2>1. bridge \in Seq(Bridge) /\ Fresh \in Bridge
    BY DEF TypeOK, BridgesOK, Fresh, Bridge, Threads, NoThread, Views
  <2>. QED  BY <1>1, <2>1, SeqAppended
<1>3. /\ next.bridge = n /\ w.at = "waits" /\ w.bridge = n /\ w.guide = c.guide
      /\ p.bridge = n /\ p.guide = c.guide /\ p.at = c.then
  BY <1>1 DEF Call
<1>4. PICK d, v : /\ call' = [call EXCEPT ![t] = d] /\ d.guide = c.guide
                  /\ d.bridge = n /\ d.at \in {"waits", "run", "added"}
                  /\ \/ jobs' = jobs /\ made' = made
                     \/ /\ jobs' = Append(jobs, job) /\ made' = made + 1
                        /\ v.owned
                  /\ bridge'[n] = v /\ bare(v) /\ DOMAIN bridge' = 1..n
                  /\ \A x \in DOMAIN bridge : bridge'[x] = bridge[x]
  <2>1. CASE nav.ready
    <3>1. Accesses(t, next, bs)
      BY <2>1 DEF NewBridge
    <3>2. /\ jobs' = Append(jobs, job) /\ call' = [call EXCEPT ![t] = w]
          /\ bridge' = [bs EXCEPT ![n] = own] /\ made' = made + 1
      BY <1>2, <1>3, <3>1 DEF Accesses, Dispatches
    <3>3. bare(own) /\ own.owned /\ n \in 1..n
      BY <1>1 DEF Fresh
    <3>4. /\ bridge'[n] = own /\ DOMAIN bridge' = 1..n
          /\ \A x \in DOMAIN bridge : bridge'[x] = bridge[x]
      <4>. HIDE DEF own, bs
      <4>. QED  BY <1>1, <1>2, <3>2, <3>3
    <3>. HIDE DEF w, job, own, bs, bare
    <3>. QED  BY <1>3, <3>2, <3>3, <3>4
  <2>2. CASE ~nav.ready
    <3>1. /\ jobs' = jobs /\ call' = [call EXCEPT ![t] = p] /\ bridge' = bs
          /\ made' = made
      BY <2>2 DEF NewBridge
    <3>2. bare(Fresh)
      BY DEF Fresh
    <3>. HIDE DEF p, bs, bare
    <3>. QED  BY <1>1, <1>2, <1>3, <3>1, <3>2
  <2>. QED  BY <2>1, <2>2
<1>. HIDE DEF next, bs, own, w, p
<1>5. /\ call'[t] = d /\ \A u \in Threads \ {t} : call'[u] = call[u]
  BY <1>4 DEF TypeOK, CallsOK
<1>6. \A u \in Threads \ {t} : ~AtOne(call'[u]) /\ ~AtWork(call'[u])
  BY <1>5
<1>7. Linked'
  BY <1>4, <1>5, <1>6 DEF Linked
<1>8. ASSUME NEW b \in DOMAIN bridge', Uses(b)'
      PROVE  b = n
  <2>1. b # Nobody
    BY <1>4, <1>8 DEF Nobody
  <2>. QED  BY <1>4, <1>5, <1>6, <1>8, <2>1 DEF Uses
<1>9. Kits'
  BY <1>4, <1>8 DEF Kits, Kit
<1>10. /\ Len(jobs) \in Nat /\ DOMAIN jobs = 1..Len(jobs) /\ job \in Job
       /\ job.by = t /\ job.job = "install" /\ job.gate = made + 1
       /\ jobs' = Append(jobs, job) =>
           /\ Len(jobs') = Len(jobs) + 1
           /\ DOMAIN jobs' = DOMAIN jobs \cup {Len(jobs) + 1}
           /\ \A k \in DOMAIN jobs : jobs'[k] = jobs[k]
           /\ jobs'[Len(jobs) + 1] = job
  <2>1. /\ jobs \in Seq(Job) /\ job \in Job
        /\ job.by = t /\ job.job = "install" /\ job.gate = made + 1
    BY <1>1 DEF TypeOK, JobsOK, Job, Gates
  <2>. HIDE DEF job
  <2>2. /\ Len(Append(jobs, job)) = Len(jobs) + 1
        /\ DOMAIN Append(jobs, job) = DOMAIN jobs \cup {Len(jobs) + 1}
        /\ \A k \in DOMAIN jobs : Append(jobs, job)[k] = jobs[k]
        /\ Append(jobs, job)[Len(jobs) + 1] = job
    BY <2>1, SeqAppended
  <2>3. Len(jobs) \in Nat /\ DOMAIN jobs = 1..Len(jobs)
    BY <2>1
  <2>4. ASSUME jobs' = Append(jobs, job)
        PROVE  /\ Len(jobs') = Len(jobs) + 1
               /\ DOMAIN jobs' = DOMAIN jobs \cup {Len(jobs) + 1}
               /\ \A k \in DOMAIN jobs : jobs'[k] = jobs[k]
               /\ jobs'[Len(jobs) + 1] = job
    BY <2>2, <2>4
  <2>. QED  BY <2>1, <2>3, <2>4, Zenon
<1>. HIDE DEF job
<1>11. Waiting'
  <2>1. jobs' = jobs \/ (jobs' = Append(jobs, job) /\ Awaited(job, v))
    BY <1>4, <1>10 DEF Awaited
  <2>. QED  BY <1>1, <1>4, <1>5, <1>10, <2>1 DEF Waiting
<1>12. Placing' /\ Dressing'
  BY <1>4, <1>5, <1>6 DEF Placing, Dressing, AtWork, Threads
<1>13. Bounded'
  <2>1. \A k \in DOMAIN jobs : jobs[k].gate \in Nat /\ jobs[k].gate <= made
    BY <1>1 DEF Tidy, Bounded, Job, Gates
  <2>2. \A k \in DOMAIN jobs' : jobs'[k].gate <= made'
    BY <1>1, <1>4, <1>10, <2>1
  <2>3. \A g \in nav.closed : g \in Nat /\ g <= made
    BY <1>1 DEF Tidy, Bounded, Nav, Gates
  <2>4. \A x \in DOMAIN bridge : bridge[x].gate \in Nat /\ bridge[x].gate <= made
    BY Typed DEF Tidy, Bounded, Bridge, Gates, Nobody
  <2>5. \A x \in DOMAIN bridge' : bridge'[x].gate <= made'
    <3>1. \A x \in DOMAIN bridge' : x \in DOMAIN bridge \/ x = n
      BY <1>1, <1>4
    <3>2. made <= made' /\ made' \in Nat /\ 0 <= made'
      BY <1>1, <1>4
    <3>. QED  BY <1>1, <1>4, <2>4, <3>1, <3>2 DEF Nobody
  <2>. QED  BY <1>1, <1>4, <2>2, <2>3, <2>5 DEF Bounded
<1>14. Overlaid'
  <2>1. ~nav'.rgActive /\ nav'.view = "stock"
    BY DEF Tidy, Overlaid
  <2>2. Overlay(v, nav') /\ Bare(v)
    <3>1. v \in Bridge
      BY <1>1, <1>4, Typed DEF TypeOK, BridgesOK
    <3>. QED  BY <1>1, <1>4, <2>1, <3>1 DEF Overlay, Bare, Nav, Bridge
  <2>. QED  BY <1>4, <1>8, <2>1, <2>2 DEF Overlaid
<1>15. Ends'
  <2>1. \A g \in Gates : ~Live(g)
    BY DEF Live
  <2>2. CASE jobs' = jobs
    BY <2>1, <2>2, EndsStays DEF Tidy
  <2>3. CASE jobs' = Append(jobs, job)
    <3>1. ASSUME NEW g \in Gates
          PROVE  (Untouched(g) \/ Returned(g) \/ Past(g))'
      <4>1. ~Live(g) /\ Ends /\ Bounded
        BY <2>1 DEF Tidy
      <4>2. g # job.gate \/ (job.job \in {"install", "again"} /\ job.gate = made + 1)
        BY <1>10
      <4>. QED  BY <1>10, <2>3, <4>1, <4>2, Appended
    <3>. QED  BY <3>1 DEF Ends
  <2>. QED  BY <1>4, <2>2, <2>3
<1>. QED  BY <1>7, <1>9, <1>11, <1>12, <1>13, <1>14, <1>15 DEF Tidy

LEMMA StartsTidy ==
  ASSUME TypeOK, Course, Tidy, TypeOK', Orderly', NEW t \in Threads, Starts(t),
         ~met'
  PROVE  Tidy'
<1>. DEFINE c == call[t]
            r == c.guide
            f == [c EXCEPT !.then = "run"]
            up == [c EXCEPT !.at = "started"]
            run == [c EXCEPT !.at = "run", !.bridge = guide[r].bap]
<1>1. /\ c \in Call /\ c.at = "start" /\ ~Meets(t, r) /\ r \in DOMAIN guide
      /\ UNCHANGED <<nav, guide, listener, bundle>>
  BY GuideKnown DEF Starts, TypeOK, CallsOK
<1>2. /\ r = bundle.guide /\ bundle.guide # Nobody /\ t # "bus"
      /\ \A u \in Threads \ {t} : call[u].at = "idle"
  BY <1>1, Alone DEF Tidy
<1>3. Hearing' /\ (Running => Running')
  BY <1>1 DEF Tidy, Hearing, Running
<1>4. \A u \in Threads : ~AtOne(call[u])
  BY <1>1, <1>2 DEF AtOne, AtBridge
<1>5. CASE guide[r].bap = Nobody /\ NewBridge(t, f)
  <2>1. f \in Call /\ f.guide = r /\ f.then = "run"
    BY <1>1 DEF Call, Places, AtBridge
  <2>2. \A u \in Threads \ {t} : ~AtWork(call[u])
    BY <1>2 DEF AtWork
  <2>3. \A x \in DOMAIN bridge : ~Uses(x)
    <3>1. \A x \in DOMAIN bridge : x # Nobody
      BY Typed DEF Nobody
    <3>. QED  BY <1>2, <1>4, <1>5, <3>1 DEF Uses
  <2>. HIDE DEF f
  <2>. QED  BY <1>1, <1>2, <1>3, <1>4, <1>5, <2>1, <2>2, <2>3, NewBridgeTidy
<1>6. CASE /\ UNCHANGED <<jobs, bridge, made>>
           /\ call' \in {[call EXCEPT ![t] = up], [call EXCEPT ![t] = run]}
  <2>1. /\ up.at = "started" /\ run.at = "run" /\ run.guide = r
        /\ run.bridge = guide[r].bap
    BY <1>1 DEF Call
  <2>2. ~AtOne(up)
    BY <2>1 DEF AtOne, AtBridge
  <2>3. PICK d : /\ call' = [call EXCEPT ![t] = d]
                 /\ d.at \notin {"enter", "dispose", "force", "emit", "show"}
                 /\ AtOne(d) => d.guide = r /\ d.bridge = guide[r].bap
    <3>. HIDE DEF up, run
    <3>. QED  BY <1>6, <2>1, <2>2
  <2>4. SameGates
    BY <1>1, <1>6 DEF SameGates
  <2>. QED  BY <1>1, <1>2, <1>3, <1>4, <2>3, <2>4, TakesUp
<1>. QED  BY <1>5, <1>6 DEF Starts

LEMMA ComesTidy ==
  ASSUME TypeOK, Course, Tidy, TypeOK', Orderly', ServiceComes
  PROVE  Tidy'
<1>. DEFINE g == [running |-> FALSE, active |-> FALSE, bap |-> Len(bridge) + 1]
            r == Len(guide) + 1
            c == [Idle EXCEPT !.guide = r, !.then = "added"]
<1>1. /\ call["bundle"].at = "idle" /\ bundle.guide = Nobody
      /\ UNCHANGED <<nav, listener, life, bundle>> /\ guide' = Append(guide, g)
      /\ NewBridge("bundle", c)
  BY DEF ServiceComes
<1>2. \A u \in Threads \ {"bundle"} : ~AtWork(call[u])
  <2>1. ASSUME NEW u \in {"bus", "device"}, call[u].at # "idle" PROVE FALSE
    <3>1. u \in Threads /\ ~Adds(call[u])
      BY <2>1 DEF Course, OnCourse, BusAt, Adds, Threads
    <3>. QED  BY <1>1, <2>1, <3>1, GuideKnown DEF Tidy, Orderly
  <2>. QED  BY <2>1 DEF Threads, AtWork
<1>3. /\ guide'[r] = g /\ DOMAIN guide' = DOMAIN guide \cup {r}
      /\ \A x \in DOMAIN guide : guide'[x] = guide[x]
  <2>1. guide \in Seq(Guide) /\ g \in Guide
    BY Typed DEF TypeOK, GuidesOK, Guide
  <2>2. /\ Append(guide, g)[r] = g /\ DOMAIN Append(guide, g) = DOMAIN guide \cup {r}
        /\ \A x \in DOMAIN guide : Append(guide, g)[x] = guide[x]
    <3>. HIDE DEF g
    <3>. QED  BY <2>1, SeqAppended
  <2>. QED  BY <1>1, <2>2
<1>4. c \in Call /\ c.guide = r /\ c.then = "added"
  <2>1. /\ Idle \in Call /\ Len(guide) + 1 \in Nat /\ "added" \in Places
    BY Typed, SoundIdle DEF Sound, Places
  <2>. QED  BY <2>1 DEF Call
<1>5. \A u \in Threads : ~AtOne(call[u])
  BY <1>1, <1>2 DEF AtOne, AtBridge, AtWork
<1>6. \A x \in DOMAIN bridge : ~Uses(x)
  BY <1>1, <1>5 DEF Uses
<1>7. Hearing'
  <2>1. listener = Nobody /\ \A x \in DOMAIN guide : x # Nobody
    BY <1>1, Typed DEF Tidy, Hearing, Nobody
  <2>2. \A x \in DOMAIN guide : ~guide[x].running /\ ~guide[x].active
    BY <2>1 DEF Tidy, Hearing
  <2>. QED  BY <1>1, <1>3, <2>1, <2>2 DEF Hearing
<1>8. "bundle" \in Threads \ {"bus"} /\ g.bap = Len(bridge) + 1
  BY DEF Threads
<1>. HIDE DEF c, g
<1>. QED  BY <1>1, <1>2, <1>3, <1>4, <1>5, <1>6, <1>7, <1>8, NewBridgeTidy

-----------------------------------------------------------------------------
(* The dispatcher, and those who wait for it.                              *)

(* What becomes of a gate that is not in use when the next job is done.    *)
LEMMA DoneGate ==
  ASSUME TypeOK, Ends, jobs # <<>>, nav' = Native(Head(jobs)),
         jobs' = Tail(jobs), NEW g \in Gates, ~Live(g)
  PROVE  (Untouched(g) \/ Returned(g) \/ Past(g))'
<1>. DEFINE j == Head(jobs)
<1>1. /\ jobs \in Seq(Job) /\ Len(jobs) \in Nat \ {0}
      /\ DOMAIN jobs = 1..Len(jobs) /\ j \in Job /\ j = jobs[1]
      /\ DOMAIN jobs' = 1..(Len(jobs) - 1)
      /\ \A k \in DOMAIN jobs' : jobs'[k] = jobs[k + 1]
  BY DEF TypeOK, JobsOK
<1>2. \A k \in DOMAIN jobs' : k \in Nat /\ k + 1 \in DOMAIN jobs
  BY <1>1
<1>3. nav \in Nav /\ g # Raw
  BY DEF TypeOK, OthersOK, Gates, Raw
<1>4. /\ nav'.closed \subseteq IF j.job = "block" THEN nav.closed \cup {j.gate}
                               ELSE nav.closed
      /\ nav'.service \in {nav.service, j.gate, Raw}
      /\ j.job = "raw" => nav'.service = Raw
  BY <1>1, <1>3 DEF Native, Nav, Job
<1>5. CASE Untouched(g)
  BY <1>1, <1>2, <1>4, <1>5 DEF Untouched
<1>6. CASE Past(g)
  BY <1>1, <1>2, <1>3, <1>4, <1>6 DEF Past
<1>7. CASE Returned(g)
  <2>1. PICK m \in DOMAIN jobs :
          /\ jobs[m].job = "raw" /\ jobs[m].gate = g
          /\ \A k \in DOMAIN jobs : k > m => jobs[k].gate # g
    BY <1>7 DEF Returned
  <2>2. CASE m = 1
    <3>1. \A k \in DOMAIN jobs' : jobs'[k].gate # g
      BY <1>1, <1>2, <2>1, <2>2
    <3>. QED  BY <1>1, <1>3, <1>4, <2>1, <2>2, <3>1 DEF Past
  <2>3. CASE m # 1
    <3>1. /\ m - 1 \in DOMAIN jobs' /\ jobs'[m - 1] = jobs[m]
          /\ \A k \in DOMAIN jobs' : k > m - 1 => k + 1 > m
      BY <1>1, <2>3
    <3>2. \A k \in DOMAIN jobs' : k > m - 1 => jobs'[k].gate # g
      BY <1>1, <1>2, <2>1, <3>1
    <3>. QED  BY <2>1, <3>1, <3>2 DEF Returned
  <2>. QED  BY <2>2, <2>3
<1>. QED  BY <1>5, <1>6, <1>7 DEF Ends

(* A job that nobody waits for any more.                                   *)
LEMMA RunsOnTidy ==
  ASSUME TypeOK, Tidy, TypeOK', Orderly', jobs # <<>>,
         nav' = Native(Head(jobs)), jobs' = Tail(jobs),
         UNCHANGED <<bridge, call, guide, listener, bundle, made>>
  PROVE  Tidy'
<1>. DEFINE j == Head(jobs)
<1>1. /\ jobs \in Seq(Job) /\ Len(jobs) \in Nat \ {0}
      /\ DOMAIN jobs = 1..Len(jobs) /\ j \in Job /\ j = jobs[1]
      /\ Len(jobs') = Len(jobs) - 1
      /\ DOMAIN jobs' = 1..(Len(jobs) - 1)
      /\ \A k \in DOMAIN jobs' : jobs'[k] = jobs[k + 1]
  BY DEF TypeOK, JobsOK
<1>2. \A k \in DOMAIN jobs' : k \in Nat /\ k + 1 \in DOMAIN jobs
  BY <1>1
<1>3. /\ nav'.rgActive = nav.rgActive /\ nav'.view = nav.view
      /\ nav'.closed \subseteq nav.closed \cup {j.gate}
  <2>1. nav \in Nav
    BY DEF TypeOK, OthersOK
  <2>. QED  BY <1>1, <2>1 DEF Native, Nav, Job
<1>4. \A x : Uses(x)' <=> Uses(x)
  BY DEF Uses
<1>5. (Running' <=> Running) /\ (ComesDown' <=> ComesDown) /\ (HandsBack' <=> HandsBack)
  BY DEF Running, ComesDown, HandsBack
<1>6. Linked' /\ Kits' /\ Hearing' /\ Placing' /\ Dressing'
  BY <1>4 DEF Tidy, Linked, Kits, Hearing, Placing, Dressing
<1>7. Waiting'
  BY <1>1, <1>2 DEF Tidy, Waiting
<1>8. Bounded'
  <2>1. /\ \A k \in DOMAIN jobs : jobs[k].gate <= made
        /\ \A g \in nav.closed : g <= made
        /\ \A x \in DOMAIN bridge : bridge[x].gate <= made
    BY DEF Tidy, Bounded
  <2>2. j.gate <= made
    BY <1>1, <2>1
  <2>3. \A k \in DOMAIN jobs' : jobs'[k].gate <= made
    BY <1>1, <1>2, <2>1
  <2>. QED  BY <1>3, <2>1, <2>2, <2>3 DEF Bounded
<1>9. Overlaid'
  BY <1>3, <1>4, <1>5 DEF Tidy, Overlaid, Overlay
<1>10. Ends'
  <2>1. ASSUME NEW g \in Gates
        PROVE  (Untouched(g) \/ Live(g) \/ Returned(g) \/ Past(g))'
    <3>1. CASE Live(g)
      BY <1>4, <1>5, <3>1 DEF Live
    <3>2. CASE ~Live(g)
      BY <3>2, DoneGate DEF Tidy
    <3>. QED  BY <3>1, <3>2
  <2>. QED  BY <2>1 DEF Ends
<1>. QED  BY <1>6, <1>7, <1>8, <1>9, <1>10 DEF Tidy

(* The one that waited goes on with its bridge.                            *)
Dressed(v, own) ==
  /\ v.forced = own.forced /\ v.saved = own.saved /\ v.cluster = own.cluster
  /\ v.captured = own.captured /\ v.view = own.view

LEMMA GoesOnTidy ==
  ASSUME TypeOK, Course, Tidy, TypeOK', Orderly', NEW t \in Threads, NEW d, NEW v,
         Working(t, d, v), call[t].at = "waits",
         UNCHANGED <<guide, listener, made>>,
         NEW b, b = call[t].bridge, Kit(v), Placed(d, v), Dressed(v, bridge[b]),
         d.at \notin {"force", "emit", "show"},
         nav'.rgActive = nav.rgActive, nav'.view = nav.view, v.gate <= made,
         \A g \in nav'.closed : g <= made,
         \A k \in DOMAIN jobs' : jobs'[k].gate <= made, Waiting', Ends'
  PROVE  Tidy'
<1>1. Hearing' /\ (Running <=> Running')
  BY DEF Tidy, Hearing, Running, Working
<1>2. /\ Overlay(bridge[b], nav) /\ (Bare(bridge[b]) \/ Running)
      /\ b \in DOMAIN bridge
  BY InHand, KnownOf DEF Tidy, Working
<1>3. Overlay(v, nav') /\ (Bare(v) \/ Running') /\ PutOn(d, v)
  BY <1>1, <1>2 DEF Overlay, Bare, Dressed, PutOn
<1>4. Linked' /\ Kits' /\ Placing' /\ Overlaid' /\ Dressing'
  BY <1>1, <1>3, WorkTidy, WorkOn DEF Tidy
<1>5. Bounded'
  <2>1. /\ DOMAIN bridge' = DOMAIN bridge
        /\ \A x \in DOMAIN bridge : x # b => bridge'[x] = bridge[x]
        /\ bridge'[b] = v
    BY <1>2 DEF Working
  <2>. QED  BY <2>1 DEF Tidy, Bounded
<1>. QED  BY <1>1, <1>4, <1>5 DEF Tidy

(* What a thread at work waits for is the last job there is.               *)
LEMMA WaitsForLast ==
  ASSUME TypeOK, Course, Tidy, NEW k \in DOMAIN jobs, NEW t \in Threads,
         jobs[k].by = t
  PROVE  LET c == call[t]
             own == bridge[c.bridge]
             j == jobs[k]
         IN  /\ j \in Job /\ k = Len(jobs) /\ Awaited(j, own) /\ JobFits(j, c)
             /\ c \in Call /\ c.at = "waits" /\ OnCourse(t, c)
             /\ c.bridge \in DOMAIN bridge /\ own \in Bridge /\ Kit(own)
             /\ c.guide \in DOMAIN guide /\ (t = "bus" => Running)
             /\ \A x \in DOMAIN bridge : Uses(x) => x = c.bridge
             /\ \A i \in DOMAIN jobs : i # k => jobs[i].by = NoThread
<1>1. jobs[k] \in Job /\ jobs[k].by # NoThread
  BY Typed DEF Threads, NoThread
<1>2. call[t].at = "waits" /\ call[t].at \in AtBridge
  BY <1>1 DEF TypeOK, JobsOK, AtBridge
<1>3. k = Len(jobs) /\ Awaited(jobs[k], bridge[call[t].bridge]) /\ JobFits(jobs[k], call[t])
  BY <1>1 DEF Tidy, Waiting, Course
<1>4. \A i \in DOMAIN jobs : i # k => jobs[i].by = NoThread
  BY <1>3 DEF Tidy, Waiting
<1>. QED  BY <1>1, <1>2, <1>3, <1>4, InHand, KnownOf DEF Tidy

LEMMA GivesUpTidy ==
  ASSUME TypeOK, Course, Tidy, TypeOK', Orderly', NEW t \in Threads, GivesUp(t)
  PROVE  Tidy'
<1>. DEFINE c == call[t]
<1>0. PICK b, k : /\ b = c.bridge /\ k \in DOMAIN jobs /\ jobs[k].by = t
                  /\ jobs' = [jobs EXCEPT ![k].by = NoThread]
                  /\ Fails(t, jobs[k].job)
  BY DEF GivesUp
<1>. DEFINE own == bridge[b]
            j == jobs[k]
            free == [own EXCEPT !.monitor = NoThread]
            lost == [free EXCEPT !.owned = FALSE]
            bare == [free EXCEPT !.installed = FALSE, !.active = FALSE,
                                 !.gate = Nobody]
            p == IF j.job = "raw" THEN "dispose"
                 ELSE IF j.job # "install" /\ c.want THEN "undo" ELSE c.then
            to == [c EXCEPT !.at = p]
<1>1. /\ j \in Job /\ k = Len(jobs) /\ Awaited(j, own) /\ JobFits(j, c)
      /\ c \in Call /\ c.at = "waits" /\ OnCourse(t, c) /\ c.at \in AtBridge
      /\ b \in DOMAIN bridge /\ own \in Bridge /\ Kit(own)
      /\ c.guide \in DOMAIN guide /\ (t = "bus" => Running)
      /\ \A x \in DOMAIN bridge : Uses(x) => x = b
      /\ \A i \in DOMAIN jobs : i # k => jobs[i].by = NoThread
      /\ UNCHANGED <<nav, guide, listener, bundle, made>>
  BY <1>0, WaitsForLast DEF GivesUp, AtBridge
<1>2. /\ to.at = p /\ to.guide = c.guide /\ to.bridge = b
      /\ call' = [call EXCEPT ![t] = to]
  BY <1>0, <1>1 DEF Fails, Job, Call
<1>3. /\ p \notin {"enter", "force", "emit", "show"}
      /\ p = "dispose" => j.job = "raw"
      /\ t # "bus" /\ j.job # "install" => p \in {"dispose", "restore"}
  BY <1>0, <1>1 DEF OnCourse, JobFits, Job
<1>4. PICK d : /\ call' = [call EXCEPT ![t] = d] /\ d.at = p
               /\ d.guide = c.guide /\ d.bridge = b
  <2>. HIDE DEF to, p
  <2>. QED  BY <1>2
<1>5. /\ Alike(free, own)
      /\ Dressed(lost, own) /\ lost \in Bridge /\ lost.init = own.init /\ ~lost.owned
      /\ lost.installed = own.installed /\ lost.active = own.active
      /\ lost.gate = own.gate
      /\ Dressed(bare, own) /\ bare \in Bridge /\ bare.init = own.init
      /\ bare.owned = own.owned /\ ~bare.installed /\ ~bare.active
      /\ bare.gate = Nobody
  BY <1>1 DEF Alike, Dressed, Bridge
<1>6. PICK v : /\ bridge' = [bridge EXCEPT ![b] = v]
               /\ v \in Bridge /\ Dressed(v, own) /\ Kit(v)
               /\ v.gate \in {own.gate, Nobody}
               /\ j.job # "raw" => v.installed = own.installed /\ v.gate = own.gate
               /\ j.job = "raw" => ~v.installed
  <2>1. CASE j.job = "install"
    <3>1. bridge' = [bridge EXCEPT ![b] = lost]
      BY <1>0, <2>1 DEF Fails
    <3>2. Kit(lost)
      BY <1>1, <1>5, <2>1 DEF Kit, Awaited
    <3>. HIDE DEF lost
    <3>. QED  BY <1>5, <2>1, <3>1, <3>2
  <2>2. CASE j.job \in {"again", "block", "open"}
    <3>1. bridge' = [bridge EXCEPT ![b] = free]
      BY <1>0, <2>2 DEF Fails
    <3>2. Kit(free) /\ Dressed(free, own)
      BY <1>1, <1>5 DEF Kit, Alike, Dressed
    <3>. HIDE DEF free
    <3>. QED  BY <1>5, <2>2, <3>1, <3>2 DEF Alike
  <2>3. CASE j.job = "raw"
    <3>1. bridge' = [bridge EXCEPT ![b] = bare]
      BY <1>0, <2>3 DEF Fails
    <3>2. Kit(bare)
      BY <1>1, <1>5 DEF Kit
    <3>. HIDE DEF bare
    <3>. QED  BY <1>5, <2>3, <3>1, <3>2
  <2>. QED  BY <1>1, <2>1, <2>2, <2>3 DEF Job
<1>7. Working(t, d, v) /\ Placed(d, v)
  BY <1>0, <1>1, <1>3, <1>4, <1>6 DEF Working, Placed
<1>8. /\ DOMAIN jobs' = DOMAIN jobs /\ Len(jobs') = Len(jobs)
      /\ DOMAIN jobs = 1..Len(jobs) /\ Len(jobs) \in Nat
      /\ \A i \in DOMAIN jobs : /\ jobs'[i].gate = jobs[i].gate
                                /\ jobs'[i].job = jobs[i].job
                                /\ jobs'[i].by = NoThread
  <2>. DEFINE i == [j EXCEPT !.by = NoThread]
  <2>1. jobs \in Seq(Job) /\ i \in Job /\ i.gate = j.gate /\ i.job = j.job /\ i.by = NoThread
    BY <1>1 DEF TypeOK, JobsOK, Job
  <2>2. jobs' = [jobs EXCEPT ![k] = i]
    BY <1>0
  <2>3. DOMAIN jobs = 1..Len(jobs) /\ Len(jobs) \in Nat
    BY <2>1
  <2>. HIDE DEF i
  <2>4. /\ Len(jobs') = Len(jobs) /\ DOMAIN jobs' = DOMAIN jobs
        /\ \A m \in DOMAIN jobs : jobs'[m] = IF m = k THEN i ELSE jobs[m]
    BY <2>1, <2>2, SeqUpdated
  <2>. QED  BY <1>1, <2>1, <2>3, <2>4
<1>9. Waiting'
  BY <1>8 DEF Waiting
<1>10. /\ \A g \in nav'.closed : g <= made
       /\ \A i \in DOMAIN jobs' : jobs'[i].gate <= made
  BY <1>1, <1>8 DEF Tidy, Bounded
<1>11. v.gate <= made
  <2>1. own.gate <= made /\ made \in Nat
    BY <1>1 DEF Tidy, Bounded, TypeOK, OthersOK
  <2>. QED  BY <1>6, <2>1 DEF Nobody
<1>12. Ends'
  <2>1. Hearing'
    BY <1>1 DEF Tidy, Hearing
  <2>2. Running' <=> Running
    BY <1>1 DEF Running
  <2>3. ASSUME NEW g \in Gates, Live(g), j.job # "raw" PROVE Live(g)'
    <3>1. own.installed /\ own.gate = g
      BY <1>1, <2>3 DEF Live
    <3>2. j.job \in {"block", "open"}
      BY <1>1, <2>3, <3>1 DEF Awaited, Job
    <3>3. Running' \/ d.at \in HandsAt
      BY <1>1, <1>3, <1>4, <2>2, <3>2 DEF HandsAt
    <3>4. v.installed /\ v.gate = own.gate
      BY <1>6, <2>3, <3>1
    <3>. QED  BY <1>0, <1>7, <2>1, <2>3, <3>3, <3>4, LiveOn DEF Tidy
  <2>4. ASSUME NEW g \in Gates, Live(g), j.job = "raw" PROVE Returned(g)'
    <3>1. j.gate = g
      BY <1>1, <2>4 DEF Live, Awaited
    <3>2. \A i \in DOMAIN jobs' : ~(i > k)
      BY <1>1, <1>8
    <3>. QED  BY <1>0, <1>8, <2>4, <3>1, <3>2 DEF Returned
  <2>5. ASSUME NEW g \in Gates
        PROVE  /\ Untouched(g) => Untouched(g)'
               /\ Returned(g) => Returned(g)'
               /\ Past(g) => Past(g)'
    BY <1>1, <1>8 DEF Untouched, Returned, Past
  <2>. QED  BY <2>3, <2>4, <2>5 DEF Tidy, Ends
<1>13. /\ nav'.rgActive = nav.rgActive /\ nav'.view = nav.view
       /\ d.at \notin {"force", "emit", "show"}
  BY <1>1, <1>3, <1>4
<1>. QED
  BY <1>0, <1>1, <1>6, <1>7, <1>9, <1>10, <1>11, <1>12, <1>13, GoesOnTidy

(* The caller goes on with its job done.                                   *)
LEMMA GoesOnDone ==
  ASSUME TypeOK, Course, Tidy, TypeOK', Orderly', jobs # <<>>,
         NEW t \in Threads, Head(jobs).by = t, nav' = Native(Head(jobs)),
         Completes(t, Head(jobs)), UNCHANGED <<guide, listener, bundle, made>>
  PROVE  Tidy'
<1>. DEFINE c == call[t]
            j == Head(jobs)
<1>0. PICK b : b = c.bridge
  OBVIOUS
<1>. DEFINE own == bridge[b]
            got == [own EXCEPT !.installed = TRUE, !.active = FALSE,
                               !.gate = j.gate]
            free == [got EXCEPT !.monitor = NoThread]
            set == [own EXCEPT !.active = (j.job = "block"),
                               !.monitor = NoThread]
            raw == [own EXCEPT !.installed = FALSE, !.active = FALSE,
                               !.gate = Nobody, !.monitor = NoThread]
            block == [job |-> "block", gate |-> j.gate, by |-> t]
            p == IF j.job = "raw" THEN "dispose"
                 ELSE IF j.job \in {"block", "open"} THEN AfterSet(c)
                 ELSE IF j.job = "again" /\ c.want THEN "waits" ELSE c.then
            to == [c EXCEPT !.at = p]
<1>1. jobs[1] = j /\ 1 \in DOMAIN jobs /\ jobs \in Seq(Job) /\ DOMAIN jobs = 1..Len(jobs)
  <2>1. jobs \in Seq(Job) /\ jobs # <<>>
    BY DEF TypeOK, JobsOK
  <2>. QED  BY <2>1
<1>2. /\ j \in Job /\ Len(jobs) = 1 /\ Awaited(j, own) /\ JobFits(j, c)
      /\ c \in Call /\ c.at = "waits" /\ OnCourse(t, c) /\ c.at \in AtBridge
      /\ b \in DOMAIN bridge /\ own \in Bridge /\ Kit(own) /\ nav \in Nav
      /\ c.guide \in DOMAIN guide /\ (t = "bus" => Running)
      /\ \A x \in DOMAIN bridge : Uses(x) => x = b
  BY <1>0, <1>1, WaitsForLast DEF AtBridge, TypeOK, OthersOK
<1>3. Tail(jobs) = <<>> /\ \A k \in DOMAIN jobs : k = 1
  <2>1. Tail(jobs) \in Seq(Job) /\ Len(Tail(jobs)) = 0
    BY <1>1, <1>2
  <2>2. Tail(jobs) = <<>>
    BY <2>1, EmptySeq
  <2>3. DOMAIN jobs = 1..1
    BY <1>1, <1>2
  <2>. QED  BY <2>2, <2>3
<1>4. /\ to.at = p /\ to.guide = c.guide /\ to.bridge = b
      /\ call' = [call EXCEPT ![t] = to]
  <2>1. call = [call EXCEPT ![t] = c] /\ (p = "waits" => to = c)
    BY <1>2 DEF TypeOK, CallsOK, Call
  <2>2. to.at = p /\ to.guide = c.guide /\ to.bridge = b
    BY <1>0, <1>2 DEF Call
  <2>3. CASE j.job = "again" /\ c.want
    BY <2>1, <2>2, <2>3 DEF Completes
  <2>4. CASE ~(j.job = "again" /\ c.want)
    BY <1>2, <2>2, <2>4 DEF Completes, Job
  <2>. QED  BY <2>3, <2>4
<1>5. /\ p \notin {"enter", "force", "emit", "show"}
      /\ p = "dispose" => j.job = "raw"
      /\ t # "bus" /\ j.job # "install" => p \in {"dispose", "restore"}
      /\ j.job = "again" /\ c.want => p = "waits"
  BY <1>2 DEF OnCourse, JobFits, Job, AfterSet
<1>6. PICK d : /\ call' = [call EXCEPT ![t] = d] /\ d.at = p
               /\ d.guide = c.guide /\ d.bridge = b
  <2>. HIDE DEF to, p
  <2>. QED  BY <1>4
<1>7. /\ \A x \in {got, free} : /\ Dressed(x, own) /\ x \in Bridge
                                /\ x.init = own.init /\ x.owned = own.owned
                                /\ x.installed /\ ~x.active /\ x.gate = j.gate
      /\ Dressed(set, own) /\ set \in Bridge /\ set.init = own.init
      /\ set.owned = own.owned /\ set.installed = own.installed
      /\ set.gate = own.gate
      /\ Dressed(raw, own) /\ raw \in Bridge /\ raw.init = own.init
      /\ raw.owned = own.owned /\ ~raw.installed /\ ~raw.active
      /\ raw.gate = Nobody
  BY ZenonT(40), <1>2 DEF Dressed, Bridge, Job
<1>8. PICK v : /\ bridge' = [bridge EXCEPT ![b] = v]
               /\ v \in Bridge /\ Dressed(v, own) /\ Kit(v)
               /\ j.job # "raw" => v.installed /\ v.gate = j.gate
               /\ j.job = "raw" => ~v.installed /\ v.gate = Nobody
  <2>1. CASE j.job \in {"install", "again"}
    <3>1. PICK x \in {got, free} : bridge' = [bridge EXCEPT ![b] = x]
      BY <1>0, <2>1 DEF Completes
    <3>2. /\ Dressed(x, own) /\ x \in Bridge /\ Kit(x) /\ x.installed
          /\ x.gate = j.gate
      <4>1. /\ Dressed(x, own) /\ x \in Bridge /\ x.init = own.init
            /\ x.owned = own.owned /\ x.installed /\ ~x.active /\ x.gate = j.gate
        BY <1>7
      <4>. HIDE DEF got, free
      <4>. QED  BY <1>2, <2>1, <4>1 DEF Kit, Awaited, Dressed
    <3>. HIDE DEF got, free
    <3>. QED  BY <2>1, <3>1, <3>2
  <2>2. CASE j.job \in {"block", "open"}
    <3>1. bridge' = [bridge EXCEPT ![b] = set]
      BY <1>0, <2>2 DEF Completes
    <3>2. Kit(set) /\ set.installed /\ set.gate = j.gate
      <4>. HIDE DEF set
      <4>. QED  BY <1>2, <1>7, <2>2 DEF Kit, Awaited, Dressed
    <3>. HIDE DEF set
    <3>. QED  BY <1>7, <2>2, <3>1, <3>2
  <2>3. CASE j.job = "raw"
    <3>1. bridge' = [bridge EXCEPT ![b] = raw]
      BY <1>0, <2>3 DEF Completes
    <3>2. Kit(raw)
      <4>. HIDE DEF raw
      <4>. QED  BY <1>2, <1>7 DEF Kit, Dressed
    <3>. HIDE DEF raw
    <3>. QED  BY <1>7, <2>3, <3>1, <3>2
  <2>. QED  BY <1>2, <2>1, <2>2, <2>3 DEF Job
<1>9. Working(t, d, v) /\ Placed(d, v)
  BY <1>0, <1>2, <1>5, <1>6, <1>8 DEF Working, Placed
<1>. HIDE DEF got, free, set, raw, to, p
<1>10. /\ bridge'[b] = v /\ call'[t] = d /\ b \in DOMAIN bridge'
       /\ Uses(b)' \/ ~AtOne(d)
  <2>1. Hearing'
    BY <1>2 DEF Tidy, Hearing
  <2>2. call'[t] = d
    BY <1>6 DEF TypeOK, CallsOK
  <2>. QED  BY <1>0, <1>2, <1>9, <2>1, <2>2, WorkOn DEF Tidy
<1>11. CASE j.job = "again" /\ c.want
  <2>1. jobs' = Append(<<>>, block)
    BY <1>3, <1>11 DEF Completes
  <2>2. /\ DOMAIN jobs' = {1} /\ Len(jobs') = 1 /\ jobs'[1] = block
        /\ block.job = "block" /\ block.gate = j.gate /\ block.by = t
    BY <2>1
  <2>. HIDE DEF block
  <2>3. d.at = "waits" /\ AtOne(d)
    BY <1>5, <1>6, <1>11 DEF AtOne, AtBridge
  <2>4. Waiting'
    <3>1. Awaited(block, v) /\ call'[block.by].bridge = b
      BY <1>6, <1>8, <1>10, <1>11, <2>2 DEF Awaited
    <3>. QED  BY <1>10, <2>2, <3>1 DEF Waiting
  <2>5. nav'.service = j.gate /\ nav'.closed = nav.closed
        /\ nav'.rgActive = nav.rgActive /\ nav'.view = nav.view
    BY <1>2, <1>11 DEF Native, Nav
  <2>6. Ends'
    <3>1. ASSUME NEW g \in Gates, g # j.gate PROVE (Untouched(g) \/ Past(g))'
      <4>1. ~Live(g) /\ ~Returned(g)
        BY <1>1, <1>2, <1>3, <1>11 DEF Live, Awaited, Returned
      <4>2. Untouched(g) => Untouched(g)'
        BY <2>2, <2>5, <3>1 DEF Untouched
      <4>3. Past(g) => Past(g)'
        BY <2>2, <2>5, <3>1 DEF Past
      <4>. QED  BY <4>1, <4>2, <4>3 DEF Tidy, Ends
    <3>2. ASSUME NEW g \in Gates, g = j.gate PROVE Live(g)'
      <4>1. HandsBack'
        BY <1>10, <2>3 DEF HandsBack, HandsAt
      <4>2. v.installed /\ v.gate = j.gate
        BY <1>8, <1>11
      <4>. QED  BY <1>10, <2>3, <3>2, <4>1, <4>2 DEF Live
    <3>. QED  BY <3>1, <3>2 DEF Ends
  <2>7. /\ v.gate <= made /\ \A k \in DOMAIN jobs' : jobs'[k].gate <= made
        /\ \A g \in nav'.closed : g <= made
    BY <1>1, <1>8, <1>11, <2>2, <2>5 DEF Tidy, Bounded
  <2>8. d.at \notin {"force", "emit", "show"}
    BY <2>3
  <2>. QED
    BY <1>0, <1>2, <1>8, <1>9, <2>4, <2>5, <2>6, <2>7, <2>8, GoesOnTidy
<1>12. CASE ~(j.job = "again" /\ c.want)
  <2>1. jobs' = Tail(jobs) /\ DOMAIN jobs' = {}
    <3>1. jobs' = Tail(jobs)
      BY <1>2, <1>12 DEF Completes, Job
    <3>. QED  BY <1>3, <3>1
  <2>2. Waiting' /\ \A k \in DOMAIN jobs' : jobs'[k].gate <= made
    BY <2>1 DEF Waiting
  <2>3. /\ nav'.rgActive = nav.rgActive /\ nav'.view = nav.view
        /\ nav'.closed \subseteq nav.closed \cup {j.gate}
        /\ j.job = "raw" => nav'.service = Raw
    BY <1>2 DEF Native, Nav, Job
  <2>4. Running' <=> Running
    BY DEF Running
  <2>5. ASSUME NEW g \in Gates, Live(g), j.job # "raw" PROVE Live(g)'
    <3>1. own.installed /\ own.gate = g
      BY <1>2, <2>5 DEF Live
    <3>2. j.job \in {"block", "open"} /\ j.gate = g
      BY <1>2, <2>5, <3>1 DEF Awaited, Job
    <3>3. Running' \/ d.at \in HandsAt
      BY <1>2, <1>5, <1>6, <2>4, <3>2 DEF HandsAt
    <3>4. v.installed /\ v.gate = own.gate
      BY <1>8, <2>5, <3>1, <3>2
    <3>5. Hearing'
      BY <1>2 DEF Tidy, Hearing
    <3>. QED  BY <1>0, <1>9, <2>5, <3>3, <3>4, <3>5, LiveOn DEF Tidy
  <2>6. ASSUME NEW g \in Gates, Live(g), j.job = "raw" PROVE Past(g)'
    <3>1. g # Raw
      BY DEF Gates, Raw
    <3>. QED  BY <2>1, <2>3, <2>6, <3>1 DEF Past
  <2>7. Ends'
    <3>1. ASSUME NEW g \in Gates, ~Live(g)
          PROVE  (Untouched(g) \/ Returned(g) \/ Past(g))'
      BY <2>1, <3>1, DoneGate DEF Tidy
    <3>. QED  BY <2>5, <2>6, <3>1 DEF Ends
  <2>8. v.gate <= made /\ \A g \in nav'.closed : g <= made
    <3>1. j.gate <= made /\ made \in Nat
      BY <1>1 DEF Tidy, Bounded, TypeOK, OthersOK
    <3>2. v.gate <= made
      BY <1>8, <3>1 DEF Nobody
    <3>. QED  BY <2>3, <3>1, <3>2 DEF Tidy, Bounded
  <2>9. d.at \notin {"force", "emit", "show"}
    BY <1>5, <1>6
  <2>. QED
    BY <1>0, <1>2, <1>8, <1>9, <2>2, <2>3, <2>7, <2>8, <2>9, GoesOnTidy
<1>. QED  BY <1>11, <1>12

LEMMA DispatcherTidy ==
  ASSUME TypeOK, Course, Tidy, TypeOK', Orderly', DispatcherRuns
  PROVE  Tidy'
<1>1. jobs # <<>> /\ nav' = Native(Head(jobs))
      /\ UNCHANGED <<guide, listener, bundle, made>>
  BY DEF DispatcherRuns
<1>2. CASE Head(jobs).by = NoThread
  BY <1>1, <1>2, RunsOnTidy DEF DispatcherRuns
<1>3. CASE Head(jobs).by # NoThread
  <2>1. Head(jobs).by \in Threads
    BY <1>1, <1>3, JobDone
  <2>2. Completes(Head(jobs).by, Head(jobs))
    BY <1>3 DEF DispatcherRuns
  <2>. QED  BY <1>1, <2>1, <2>2, GoesOnDone
<1>. QED  BY <1>2, <1>3

-----------------------------------------------------------------------------
(* The invariant, and that native guidance gets through in the end.        *)

LEMMA TidyStep ==
  ASSUME TypeOK, Course, Tidy, TypeOK', [Next]_vars, ~met'
  PROVE  Tidy'
<1>0. Orderly'
  BY OrderlyStep DEF Tidy
<1>1. ASSUME NEW t \in Threads, Steps(t) PROVE Tidy'
  <2>1. "carplay" \in {"carplay", "other"} /\ TRUE \in BOOLEAN
    OBVIOUS
  <2>. QED
    BY <1>0, <1>1, <2>1, ReadsTidy, SetsTidy, GoesTidy, RestoresTidy,
       DisposesTidy, StartsTidy, RunsTidy, StopsTidy, LifeTidy DEF Steps
<1>2. CASE Bus
  BY <1>0, <1>1, <1>2, FindsTidy, TakesTidy, FrameTidy DEF Bus, Threads
<1>3. CASE Device
  BY <1>1, <1>3 DEF Device, Threads
<1>4. CASE Bundle
  BY <1>0, <1>1, <1>4, BundleTidy DEF Bundle, Threads
<1>5. CASE Outside
  <2>1. CASE NavigationComesUp
    <3>1. nav \in Nav
      BY DEF TypeOK, OthersOK
    <3>2. SameGates
      BY <2>1, <3>1 DEF NavigationComesUp, SameGates, Nav
    <3>. QED  BY <2>1, <3>2, TidyStays DEF NavigationComesUp
  <2>2. CASE FrameStarts \/ FrameEnds
    BY <1>0, <2>2, FrameTidy
  <2>3. CASE TerminalModeGoes \/ (\E d \in {"carplay", "other"} : DeviceState(d))
             \/ \E s \in BOOLEAN : ServiceGoes(s)
    BY <1>0, <2>3, LifeTidy DEF Threads
  <2>4. CASE ServiceComes
    BY <1>0, <2>4, ComesTidy
  <2>. QED  BY <1>5, <2>1, <2>2, <2>3, <2>4 DEF Outside
<1>6. CASE UNCHANGED vars
  BY <1>6, TidyStays DEF vars, SameGates
<1>. QED  BY <1>0, <1>2, <1>3, <1>4, <1>5, <1>6, DispatcherTidy, GivesUpTidy
          DEF Next

LEMMA TidyInit ==
  ASSUME Init
  PROVE  Tidy
<1>1. /\ \A t \in Threads : call[t].at = "idle"
      /\ jobs = <<>> /\ bridge = <<>> /\ guide = <<>> /\ listener = Nobody
      /\ life.guide = Nobody /\ bundle.guide = Nobody
      /\ nav.closed = {} /\ ~nav.rgActive /\ nav.view = "stock"
  BY DEF Init, Idle
<1>2. DOMAIN jobs = {} /\ DOMAIN bridge = {} /\ DOMAIN guide = {}
  BY <1>1
<1>3. \A t \in Threads : ~AtWork(call[t]) /\ ~AtOne(call[t]) /\ ~Begins(call[t])
  BY <1>1 DEF AtWork, AtOne, Begins, AtBridge
<1>4. Orderly /\ Linked
  BY <1>1, <1>2, <1>3 DEF Orderly, Linked, Threads
<1>5. Kits /\ Hearing /\ Waiting /\ Placing /\ Bounded /\ Overlaid /\ Dressing
  BY <1>1, <1>2, <1>3
  DEF Kits, Hearing, Waiting, Placing, Bounded, Overlaid, Dressing, Threads
<1>6. Ends
  BY <1>1, <1>2 DEF Ends, Untouched
<1>. QED  BY <1>4, <1>5, <1>6 DEF Tidy

(* What holds whatever has timed out, as long as nobody was met.           *)
InvTidy == TypeOK /\ Course /\ (~met => Tidy)

LEMMA InvTidyStep ==
  ASSUME InvTidy, [Next]_vars
  PROVE  InvTidy'
<1>1. TypeOK' /\ Course'
  BY TypesStep, CourseStep DEF InvTidy
<1>2. ASSUME ~met' PROVE Tidy'
  BY <1>1, <1>2, HistoryGrows, TidyStep DEF InvTidy
<1>. QED  BY <1>1, <1>2 DEF InvTidy

(* At rest with no guidance that runs, no gate is the service and closed.  *)
LEMMA InvOpens ==
  ASSUME InvTidy
  PROVE  StoppedIsOpen
<1>1. SUFFICES ASSUME Settled, ~met, \A r \in DOMAIN guide : ~guide[r].running
               PROVE  ~NativeBlocked /\ ~nav.rgActive /\ nav.view = "stock"
  BY DEF StoppedIsOpen
<1>2. TypeOK /\ Tidy /\ DOMAIN jobs = {} /\ nav \in Nav
  BY <1>1 DEF InvTidy, Settled, TypeOK, OthersOK
<1>3. ~Running /\ ~HandsBack /\ ~ComesDown
  <2>1. bundle.guide # Nobody => bundle.guide \in DOMAIN guide
    BY <1>2, Typed DEF TypeOK, OthersOK, Nobody
  <2>. QED  BY <1>1, <2>1 DEF Settled, Idling, Running, HandsBack, HandsAt, ComesDown
<1>4. ~NativeBlocked
  <2>1. ASSUME NativeBlocked PROVE FALSE
    <3>1. nav.service \in Gates /\ nav.service \in nav.closed
      BY <1>2, <2>1 DEF NativeBlocked, Nav
    <3>2. PICK g \in Gates : g = nav.service
      BY <3>1
    <3>3. ~Live(g) /\ ~Returned(g) /\ ~Past(g) /\ ~Untouched(g)
      BY <1>2, <1>3, <3>1, <3>2 DEF Live, Returned, Past, Untouched
    <3>. QED  BY <1>2, <3>3 DEF Tidy, Ends
  <2>. QED  BY <2>1
<1>5. ~nav.rgActive /\ nav.view = "stock"
  <2>1. ASSUME NEW b \in DOMAIN bridge, Uses(b)
        PROVE  ~nav.rgActive /\ nav.view = "stock"
    <3>1. Overlay(bridge[b], nav) /\ Bare(bridge[b])
      BY <1>2, <1>3, <2>1 DEF Tidy, Overlaid
    <3>. QED  BY <1>2, <3>1 DEF Overlay, Bare, Nav, Views
  <2>. QED  BY <1>2, <2>1 DEF Tidy, Overlaid
<1>. QED  BY <1>4, <1>5

(* When every guidance has been stopped and the dispatcher has worked off  *)
(* its queue, native guidance gets through and the cluster shows what it   *)
(* showed before CarPlay, whatever waits have timed out on the way and     *)
(* however late their jobs have run, as long as no stop or start has met   *)
(* another thread's work (BAPBridge.dispose, restoreBestEffort).           *)
THEOREM StoppedOpens == Spec => []StoppedIsOpen
<1>1. Init => InvTidy
  BY TypesInit, CourseInit, TidyInit DEF InvTidy
<1>2. InvTidy /\ [Next]_vars => InvTidy'
  BY InvTidyStep
<1>. QED  BY <1>1, <1>2, InvOpens, PTL DEF Spec

-----------------------------------------------------------------------------
(* The gate and the overlay follow the route, with a punctual dispatcher.  *)

(* The route of the guidance that the bundle holds is shown.               *)
Shown   == bundle.guide # Nobody /\ guide[bundle.guide].active
Resting == call["bus"].at = "idle" /\ Shown
AtGate  == {"down", "set", "enter", "waits"}

(* The bridge in use has the overlay on and the gate closed only while the *)
(* route is shown or a thread is on the way to it or back, and has both    *)
(* while the route is shown.                                               *)
Fitting(own) ==
  /\ \/ Bare(own) \/ Resting \/ ComesDown
     \/ call["bus"].at \in {"force", "emit", "show"}
  /\ own.active => \/ Resting \/ call["bus"].at \in PastGate
                   \/ \E t \in Threads : call[t].at \in AtGate
  /\ Shown /\ call["bus"].at \in {"idle", "down"}
       => own.active /\ own.forced /\ nav.view = "rgi"

Shows ==
  /\ call["bus"].at # "undo"
  /\ call["bus"].at \in {"set", "enter", "waits"} /\ ~call["bus"].want
       => call["bus"].then = "ended"
  /\ Shown /\ call["bus"].at # "idle"
       => ~call["bus"].want /\ call["bus"].at \in AtGate \cup {"ended"}
  /\ \A b \in DOMAIN bridge : Uses(b) => Fitting(bridge[b])

(* A gate that is closed is of the bridge in use, which knows it; one that *)
(* waits for the raw service is open already.                              *)
Closing == \A g \in nav.closed : \E b \in DOMAIN bridge :
             Uses(b) /\ bridge[b].active /\ bridge[b].gate = g

Reopened == \A k \in DOMAIN jobs : jobs[k].job = "raw"
                                     => jobs[k].gate \notin nav.closed

Steady == Guarded /\ Shows /\ Closing /\ Reopened

(* While another thread is at work, the bus thread is not and no guidance  *)
(* runs.                                                                   *)
LEMMA Aside ==
  ASSUME TypeOK, Course, Tidy, NEW t \in Threads \ {"bus"}, AtWork(call[t])
  PROVE  call["bus"].at = "idle" /\ ~Running /\ ~Shown
<1>1. call["bus"].at = "idle"
  <2>1. ~AtWork(call["bus"])
    BY DEF Tidy, Orderly, Threads
  <2>. QED  BY <2>1 DEF AtWork, Course, OnCourse, BusAt, Threads
<1>2. ~Running
  BY DEF Tidy, Orderly, Running, Threads, AtWork
<1>3. Shown => Running
  <2>1. bundle.guide # Nobody => bundle.guide \in DOMAIN guide
    BY Typed DEF TypeOK, OthersOK, Nobody
  <2>. QED  BY <2>1 DEF Shown, Running, Tidy, Hearing
<1>. QED  BY <1>1, <1>2, <1>3

(* What is known of the one at a bridge.                                   *)
LEMMA ShownOf ==
  ASSUME TypeOK, Course, Tidy, Shows, Closing,
         NEW t \in Threads, call[t].at \in AtBridge
  PROVE  LET c == call[t]
             own == bridge[c.bridge]
         IN  /\ \A g \in nav.closed : own.active /\ own.gate = g
             /\ \/ Bare(own) \/ c.at = "down"
                \/ t = "bus" /\ c.at \in {"force", "emit", "show"}
             /\ own.active => c.at \in AtGate \/ (t = "bus" /\ c.at \in PastGate)
             /\ t # "bus" => ~Shown /\ call["bus"].at = "idle"
             /\ t = "bus" => /\ c.at # "undo" /\ (Shown => ~c.want /\ c.at \in AtGate)
                             /\ c.at \in {"set", "enter", "waits"} /\ ~c.want
                                  => c.then = "ended"
<1>. DEFINE c == call[t]
            own == bridge[c.bridge]
<1>1. /\ c.bridge \in DOMAIN bridge /\ Uses(c.bridge) /\ AtWork(c) /\ c.at # "idle"
      /\ \A x \in DOMAIN bridge : Uses(x) => x = c.bridge
      /\ \A u \in Threads \ {t} : ~AtWork(call[u])
  BY InHand DEF Tidy, AtBridge
<1>2. t # "bus" => ~Shown /\ call["bus"].at = "idle"
  BY <1>1, Aside
<1>3. \A u \in Threads : call[u].at \in AtGate => u = t
  BY <1>1 DEF AtGate, AtWork
<1>4. ComesDown => c.at = "down"
  BY <1>3 DEF ComesDown, AtGate
<1>5. ~Resting
  BY <1>1, <1>2 DEF Resting
<1>6. call["bus"].at \in PastGate \cup {"force", "emit", "show"} => t = "bus"
  BY <1>2 DEF PastGate
<1>7. Fitting(own)
  BY <1>1 DEF Shows
<1>8. \A g \in nav.closed : own.active /\ own.gate = g
  BY <1>1 DEF Closing
<1>9. \/ Bare(own) \/ c.at = "down"
      \/ t = "bus" /\ c.at \in {"force", "emit", "show"}
  BY <1>4, <1>5, <1>6, <1>7 DEF Fitting
<1>10. own.active => c.at \in AtGate \/ (t = "bus" /\ c.at \in PastGate)
  BY <1>3, <1>5, <1>6, <1>7 DEF Fitting
<1>. QED  BY <1>1, <1>2, <1>8, <1>9, <1>10 DEF Shows, AtBridge

(* A step of the one at a bridge.                                          *)
LEMMA WorkShows ==
  ASSUME TypeOK, Course, Tidy, Shows, NEW t \in Threads, NEW d, NEW v,
         Working(t, d, v), Hearing', NEW b, b = call[t].bridge,
         d.at # "undo",
         t = "bus" /\ d.at \in {"set", "enter", "waits"} /\ ~d.want
           => d.then = "ended",
         Shown' => /\ t = "bus" /\ d.at # "down"
                   /\ d.at # "idle" => ~d.want /\ d.at \in AtGate \cup {"ended"}
                   /\ d.at = "idle" => v.active /\ v.forced /\ nav'.view = "rgi",
         \/ Bare(v) \/ d.at = "down"
         \/ t = "bus" /\ (d.at \in {"force", "emit", "show"} \/ (d.at = "idle" /\ Shown')),
         v.active =>
           \/ d.at \in AtGate
           \/ t = "bus" /\ (d.at \in PastGate \/ (d.at = "idle" /\ Shown')),
         \A g \in nav'.closed : v.active /\ v.gate = g
  PROVE  Shows' /\ Closing'
<1>1. /\ b \in DOMAIN bridge
      /\ call'[t] = d /\ \A u \in Threads \ {t} : call'[u] = call[u]
      /\ DOMAIN bridge' = DOMAIN bridge /\ bridge'[b] = v
      /\ \A x \in DOMAIN bridge : Uses(x)' => x = b
      /\ AtOne(d) \/ Running' => Uses(b)'
  BY WorkOn DEF Tidy
<1>2. t # "bus" => call["bus"].at = "idle" /\ call'["bus"] = call["bus"]
  BY <1>1, InHand, Aside DEF Working, Tidy, Threads
<1>3. t = "bus" => call'["bus"] = d
  BY <1>1
<1>4. Resting' <=> t = "bus" /\ d.at = "idle" /\ Shown'
  BY <1>2, <1>3 DEF Resting
<1>5. (d.at = "down" => ComesDown') /\ (d.at \in AtGate => \E u \in Threads : call'[u].at \in AtGate)
  BY <1>1 DEF ComesDown
<1>6. Fitting(v)'
  <2>1. (Bare(v) \/ Resting \/ ComesDown \/ call["bus"].at \in {"force", "emit", "show"})'
    BY <1>3, <1>4, <1>5 DEF Bare
  <2>2. v.active => \/ Resting' \/ call'["bus"].at \in PastGate
                    \/ \E u \in Threads : call'[u].at \in AtGate
    BY <1>3, <1>4, <1>5
  <2>3. Shown' /\ call'["bus"].at \in {"idle", "down"}
          => v.active /\ v.forced /\ nav'.view = "rgi"
    BY <1>3
  <2>. QED  BY <2>1, <2>2, <2>3 DEF Fitting
<1>7. Shows'
  <2>1. \A x \in DOMAIN bridge' : Uses(x)' => Fitting(bridge[x])'
    BY <1>1, <1>6 DEF Fitting
  <2>2. call'["bus"].at # "undo"
    BY <1>2, <1>3
  <2>3. call'["bus"].at \in {"set", "enter", "waits"} /\ ~call'["bus"].want
          => call'["bus"].then = "ended"
    BY <1>2, <1>3
  <2>4. Shown' /\ call'["bus"].at # "idle"
          => ~call'["bus"].want /\ call'["bus"].at \in AtGate \cup {"ended"}
    BY <1>3
  <2>. QED  BY <2>1, <2>2, <2>3, <2>4 DEF Shows
<1>8. Closing'
  <2>1. v.active => Uses(b)'
    <3>1. d.at \in AtGate \cup PastGate => AtOne(d)
      BY DEF AtGate, PastGate, AtOne, AtBridge
    <3>2. Shown' => Running'
      <4>1. Shown' => bundle'.guide \in DOMAIN guide'
        BY Typed DEF Shown, Working, TypeOK, OthersOK, Nobody
      <4>. QED  BY <4>1 DEF Shown, Running, Hearing
    <3>. QED  BY <1>1, <3>1, <3>2
  <2>. QED  BY <1>1, <2>1 DEF Closing
<1>. QED  BY <1>7, <1>8

LEMMA ReadsShows ==
  ASSUME TypeOK, Course, Tidy, Shows, Closing, NEW t \in Threads,
         ReadsOwnership(t)
  PROVE  Shows' /\ Closing'
<1>. DEFINE c == call[t]
<1>0. PICK b, v : b = c.bridge /\ v = bridge[b]
  OBVIOUS
<1>1. /\ c \in Call /\ b \in DOMAIN bridge /\ v \in Bridge
      /\ c.at = "set" /\ c.at \in AtBridge /\ Kit(v)
      /\ OnCourse(t, c) /\ c.guide \in DOMAIN guide
      /\ UNCHANGED <<nav, jobs, bridge, guide, listener, bundle, made>>
  BY <1>0, InHand, KnownOf DEF Tidy, ReadsOwnership, AtBridge
<1>2. /\ \A g \in nav.closed : v.active /\ v.gate = g
      /\ Bare(v) /\ (t # "bus" => ~Shown)
      /\ t = "bus" => (Shown => ~c.want) /\ (~c.want => c.then = "ended")
  BY <1>0, <1>1, ShownOf
<1>3. Hearing' /\ (Shown' <=> Shown)
  BY <1>1 DEF Tidy, Hearing, Shown
<1>4. PICK d : /\ call' = [call EXCEPT ![t] = d]
               /\ AtOne(d) => d.guide = c.guide /\ d.bridge = b
               /\ \/ d.at = "enter" /\ d.want = c.want /\ d.then = c.then
                  \/ d.at = "idle" /\ t = "bus" /\ c.want /\ ~v.active
                  \/ d.at = c.then /\ d.want = c.want /\ ~c.want /\ ~v.active
  <2>1. /\ [c EXCEPT !.at = "enter"].guide = c.guide
        /\ [c EXCEPT !.at = "enter"].bridge = b
        /\ [c EXCEPT !.at = "enter"].at = "enter"
        /\ [c EXCEPT !.at = "enter"].want = c.want
        /\ [c EXCEPT !.at = "enter"].then = c.then
    BY <1>0, <1>1 DEF Call
  <2>2. /\ [c EXCEPT !.at = c.then].guide = c.guide
        /\ [c EXCEPT !.at = c.then].bridge = b
        /\ [c EXCEPT !.at = c.then].at = c.then
        /\ [c EXCEPT !.at = c.then].want = c.want
    BY <1>0, <1>1 DEF Call
  <2>3. t # "bus" => ~c.want
    BY <1>1 DEF OnCourse
  <2>4. CASE v.owned /\ (c.want \/ v.active)
    BY <1>0, <2>1, <2>4 DEF ReadsOwnership
  <2>5. CASE ~(v.owned /\ (c.want \/ v.active)) /\ c.want
    <3>1. Idle.at = "idle" /\ ~AtOne(Idle) /\ ~v.active /\ t = "bus"
      BY <1>1, <2>3, <2>5 DEF Idle, AtOne, AtBridge, Kit
    <3>2. call' = [call EXCEPT ![t] = Idle]
      BY <1>0, <1>1, <2>5 DEF ReadsOwnership
    <3>. QED  BY <2>5, <3>1, <3>2
  <2>6. CASE ~(v.owned /\ (c.want \/ v.active)) /\ ~c.want
    BY <1>0, <1>1, <2>2, <2>6 DEF ReadsOwnership, Kit
  <2>. QED  BY <2>4, <2>5, <2>6
<1>5. Working(t, d, v)
  BY <1>0, <1>1, <1>4, BridgeSame DEF Working
<1>6. t # "bus" => c.then = "restore"
  BY <1>1 DEF OnCourse
<1>. QED  BY <1>0, <1>1, <1>2, <1>3, <1>4, <1>5, <1>6, WorkShows DEF AtGate

LEMMA SetsShows ==
  ASSUME TypeOK, Course, Tidy, Shows, Closing, NEW t \in Threads, SetsRoute(t)
  PROVE  Shows' /\ Closing'
<1>. DEFINE c == call[t]
<1>0. PICK b : b = c.bridge
  OBVIOUS
<1>. DEFINE own == bridge[b]
            held == [own EXCEPT !.monitor = t]
            w(g) == [c EXCEPT !.at = "waits", !.gate = g]
            to == [c EXCEPT !.at = AfterSet(c)]
<1>1. /\ c \in Call /\ b \in DOMAIN bridge /\ own \in Bridge
      /\ c.at = "enter" /\ c.at \in AtBridge /\ Kit(own)
      /\ c.guide \in DOMAIN guide /\ OnCourse(t, c)
      /\ UNCHANGED <<nav, guide, listener, bundle>>
  BY <1>0, InHand, KnownOf DEF Tidy, SetsRoute, AtBridge
<1>2. /\ \A g \in nav.closed : own.active /\ own.gate = g
      /\ Bare(own) /\ (t # "bus" => ~Shown)
      /\ t = "bus" => (Shown => ~c.want) /\ (~c.want => c.then = "ended")
  BY <1>0, <1>1, ShownOf
<1>3. Hearing' /\ (Shown' <=> Shown)
  BY <1>1 DEF Tidy, Hearing, Shown
<1>4. Alike(held, own) /\ bridge = [bridge EXCEPT ![b] = own] /\ Alike(own, own)
  BY <1>1, Locked, BridgeSame DEF Alike
<1>5. /\ \A g : /\ w(g).at = "waits" /\ w(g).guide = c.guide /\ w(g).bridge = b
                /\ w(g).want = c.want /\ w(g).then = c.then
      /\ to.at = AfterSet(c) /\ to.guide = c.guide /\ to.bridge = b
      /\ to.want = c.want
  BY <1>0, <1>1 DEF Call
<1>6. PICK d, v : /\ call' = [call EXCEPT ![t] = d]
                  /\ bridge' = [bridge EXCEPT ![b] = v] /\ Alike(v, own)
                  /\ AtOne(d) => d.guide = c.guide /\ d.bridge = b
                  /\ \/ d.at = "waits" /\ d.want = c.want /\ d.then = c.then
                     \/ d.at = "idle" /\ c.want /\ ~own.active
                     \/ d.at = "capture" /\ c.want
                     \/ d.at = c.then /\ d.want = c.want /\ ~c.want /\ ~own.active
  <2>1. ASSUME NEW g, call' = [call EXCEPT ![t] = w(g)],
               bridge' = [bridge EXCEPT ![b] = held]
        PROVE  \E d, v : /\ call' = [call EXCEPT ![t] = d]
                         /\ bridge' = [bridge EXCEPT ![b] = v] /\ Alike(v, own)
                         /\ d.guide = c.guide /\ d.bridge = b
                         /\ d.at = "waits" /\ d.want = c.want /\ d.then = c.then
    <3>. HIDE DEF w, held
    <3>. QED  BY ZenonT(40), <1>4, <1>5, <2>1
  <2>2. CASE own.installed /\ own.active # c.want
    <3>1. /\ bridge' = [bridge EXCEPT ![b] = held]
          /\ call' = [call EXCEPT ![t] = w(own.gate)]
      BY <1>0, <1>1, <2>2 DEF SetsRoute, Dispatches
    <3>. HIDE DEF w, held
    <3>. QED  BY <2>1, <3>1
  <2>3. CASE ~own.installed /\ nav.ready
    <3>1. /\ bridge' = [bridge EXCEPT ![b] = held]
          /\ call' = [call EXCEPT ![t] = w(made + 1)]
      BY <1>0, <1>1, <2>3 DEF SetsRoute, Dispatches
    <3>. HIDE DEF w, held
    <3>. QED  BY <2>1, <3>1
  <2>4. CASE ~(own.installed /\ own.active # c.want) /\ ~(~own.installed /\ nav.ready)
    <3>1. /\ bridge' = bridge
          /\ call' = [call EXCEPT ![t] = IF c.want /\ ~own.installed THEN Idle
                                         ELSE to]
      BY <1>0, <1>1, <2>4 DEF SetsRoute
    <3>2. Idle.at = "idle" /\ ~AtOne(Idle)
      BY DEF Idle, AtOne, AtBridge
    <3>3. own.active => own.installed /\ own.active = c.want
      BY <1>1, <2>4 DEF Kit
    <3>4. c.want \in BOOLEAN /\ own.active \in BOOLEAN
      BY <1>1 DEF Call, Bridge
    <3>5. AfterSet(c) = IF c.want THEN "capture" ELSE c.then
      BY DEF AfterSet
    <3>. HIDE DEF to
    <3>. QED  BY ZenonT(40), <1>4, <1>5, <3>1, <3>2, <3>3, <3>4, <3>5
  <2>. QED  BY <2>2, <2>3, <2>4
<1>7. Working(t, d, v)
  BY <1>0, <1>1, <1>6 DEF Working, Alike
<1>8. /\ t # "bus" => c.then = "restore" /\ ~c.want
      /\ t = "bus" => (Shown => ~c.want)
  BY <1>1, <1>2 DEF OnCourse
<1>9. Bare(v) /\ v.active = own.active /\ v.gate = own.gate
  BY <1>2, <1>6 DEF Alike, Bare
<1>. QED
  BY <1>0, <1>1, <1>2, <1>3, <1>6, <1>7, <1>8, <1>9, WorkShows DEF AtGate, PastGate

LEMMA GoesShows ==
  ASSUME TypeOK, Course, Tidy, Shows, Closing, NEW t \in Threads, GoesDown(t)
  PROVE  Shows' /\ Closing'
<1>. DEFINE c == call[t]
<1>0. PICK b : b = c.bridge
  OBVIOUS
<1>. DEFINE own == bridge[b]
            off == [own EXCEPT !.forced = own.forced /\ ~own.cluster,
                               !.captured = FALSE]
            s == [c EXCEPT !.at = "set", !.want = FALSE,
                           !.then = IF c.at = "undo" THEN "idle" ELSE c.then]
<1>1. /\ c \in Call /\ b \in DOMAIN bridge /\ own \in Bridge
      /\ c.at \in {"undo", "down"} /\ c.at \in AtBridge
      /\ Kit(own) /\ Overlay(own, nav) /\ nav \in Nav /\ c.guide \in DOMAIN guide
      /\ OnCourse(t, c) /\ UNCHANGED <<jobs, guide, listener, bundle, made>>
  BY <1>0, InHand, KnownOf DEF Tidy, GoesDown, AtBridge
<1>2. /\ \A g \in nav.closed : own.active /\ own.gate = g
      /\ t # "bus" => ~Shown
      /\ t = "bus" => c.at # "undo"
  BY <1>0, <1>1, ShownOf
<1>3. c.at = "down" /\ (t = "bus" => c.then = "ended")
  BY <1>1, <1>2 DEF OnCourse, OtherAt
<1>4. Hearing' /\ (Shown' <=> Shown)
  BY <1>1 DEF Tidy, Hearing, Shown
<1>5. PICK d : /\ call' = [call EXCEPT ![t] = d] /\ d.at = "set"
               /\ d.guide = c.guide /\ d.bridge = b
               /\ ~d.want /\ d.then = c.then
  <2>1. /\ s.at = "set" /\ s.guide = c.guide /\ s.bridge = b
        /\ ~s.want /\ s.then = c.then
    BY <1>0, <1>1, <1>3 DEF Call
  <2>2. call' = [call EXCEPT ![t] = s]
    BY <1>0, <1>1 DEF GoesDown, Kit
  <2>. HIDE DEF s
  <2>. QED  BY <2>1, <2>2
<1>6. PICK v : /\ bridge' = [bridge EXCEPT ![b] = v] /\ v \in Bridge
               /\ v.active = own.active /\ v.gate = own.gate /\ Bare(v)
  <2>1. bridge' = [bridge EXCEPT ![b] = off]
    BY <1>0, <1>1 DEF GoesDown, Kit, TakesOverlayOff
  <2>2. off \in Bridge /\ off.active = own.active /\ off.gate = own.gate /\ Bare(off)
    BY <1>1 DEF Bridge, Overlay, Bare
  <2>. HIDE DEF off
  <2>. QED  BY <2>1, <2>2
<1>7. Working(t, d, v)
  BY <1>0, <1>1, <1>5, <1>6 DEF Working
<1>8. nav'.closed = nav.closed
  BY <1>1 DEF GoesDown, TakesOverlayOff, Nav
<1>. QED
  BY <1>0, <1>2, <1>3, <1>4, <1>5, <1>6, <1>7, <1>8, WorkShows DEF AtGate

(* Past the gate on the way to dispose, and on that of a start.            *)
LEMMA AsideShows ==
  ASSUME TypeOK, Course, Tidy, Shows, Closing, NEW t \in Threads \ {"bus"},
         NEW d, NEW v, Working(t, d, v), Hearing', NEW b, b = call[t].bridge,
         call[t].at \in {"restore", "dispose", "run"}, ~Shown',
         d.at \in {"dispose", "waits", "stopped", "started"},
         v.active = bridge[b].active, v.gate = bridge[b].gate,
         v.forced = bridge[b].forced, v.captured = bridge[b].captured,
         nav'.closed \subseteq nav.closed
  PROVE  Shows' /\ Closing'
<1>1. Bare(bridge[b]) /\ ~bridge[b].active /\ \A g \in nav.closed : FALSE
  BY ShownOf DEF Working, AtGate
<1>2. Bare(v)
  BY <1>1 DEF Bare
<1>. QED  BY <1>1, <1>2, WorkShows

LEMMA RestoresShows ==
  ASSUME TypeOK, Course, Tidy, Shows, Closing, NEW t \in Threads, Restores(t)
  PROVE  Shows' /\ Closing'
<1>. DEFINE c == call[t]
<1>0. PICK b : b = c.bridge
  OBVIOUS
<1>. DEFINE own == bridge[b]
            held == [own EXCEPT !.monitor = t]
            w == [c EXCEPT !.at = "waits", !.gate = own.gate]
            go == [c EXCEPT !.at = "dispose"]
<1>1. /\ c \in Call /\ b \in DOMAIN bridge /\ own \in Bridge /\ nav \in Nav
      /\ c.at = "restore" /\ c.at \in AtBridge /\ Kit(own)
      /\ c.guide \in DOMAIN guide /\ AtWork(c)
      /\ UNCHANGED <<guide, listener, bundle, made>>
  BY <1>0, InHand, KnownOf DEF Tidy, Restores, AtBridge
<1>2. t # "bus"
  BY <1>1 DEF Course, OnCourse, BusAt
<1>3. Hearing' /\ ~Shown'
  BY <1>1, <1>2, Aside DEF Tidy, Hearing, Shown
<1>4. PICK d : /\ call' = [call EXCEPT ![t] = d] /\ d.at \in {"dispose", "waits"}
               /\ d.guide = c.guide /\ d.bridge = b
  <2>1. /\ w.at = "waits" /\ w.guide = c.guide /\ w.bridge = b
        /\ go.at = "dispose" /\ go.guide = c.guide /\ go.bridge = b
    BY <1>0, <1>1 DEF Call
  <2>2. call' \in {[call EXCEPT ![t] = w], [call EXCEPT ![t] = go]}
    BY <1>0 DEF Restores, Dispatches
  <2>. HIDE DEF w, go
  <2>. QED  BY <2>1, <2>2
<1>5. PICK v : bridge' = [bridge EXCEPT ![b] = v] /\ Alike(v, own)
  <2>1. Alike(held, own) /\ Alike(own, own) /\ bridge = [bridge EXCEPT ![b] = own]
    BY <1>1, Locked, BridgeSame DEF Alike
  <2>2. bridge' \in {bridge, [bridge EXCEPT ![b] = held]}
    BY <1>0 DEF Restores
  <2>. HIDE DEF held
  <2>. QED  BY <2>1, <2>2
<1>6. Working(t, d, v)
  BY <1>0, <1>1, <1>4, <1>5 DEF Working, Alike
<1>7. nav'.closed \subseteq nav.closed
  BY <1>1 DEF Restores, Nav
<1>. QED
  BY <1>0, <1>1, <1>2, <1>3, <1>4, <1>5, <1>6, <1>7, AsideShows DEF Alike

LEMMA DisposesShows ==
  ASSUME TypeOK, Course, Tidy, Tidy', Shows, Closing, NEW t \in Threads,
         Disposes(t)
  PROVE  Shows' /\ Closing'
<1>. DEFINE c == call[t]
<1>0. PICK b : b = c.bridge
  OBVIOUS
<1>. DEFINE own == bridge[b]
            gone == [own EXCEPT !.owned = FALSE, !.init = FALSE, !.cluster = FALSE]
            g == [guide[c.guide] EXCEPT !.bap = Nobody]
            stop == [c EXCEPT !.at = "stopped"]
<1>1. /\ c \in Call /\ b \in DOMAIN bridge /\ own \in Bridge
      /\ c.at = "dispose" /\ c.at \in AtBridge /\ AtWork(c)
      /\ c.guide \in DOMAIN guide /\ guide[c.guide] \in Guide
      /\ UNCHANGED <<nav, jobs, listener, bundle, made>>
  BY <1>0, InHand, Typed DEF Tidy, Disposes, AtBridge
<1>2. t # "bus"
  BY <1>1 DEF Course, OnCourse, BusAt
<1>3. /\ guide' = [guide EXCEPT ![c.guide] = g] /\ g.bap = Nobody
      /\ g.running = guide[c.guide].running /\ g.active = guide[c.guide].active
  BY <1>1 DEF Disposes, Guide
<1>. HIDE DEF g
<1>4. Hearing' /\ ~Shown'
  <2>1. ~Shown /\ (bundle.guide # Nobody => bundle.guide \in DOMAIN guide)
    BY <1>1, <1>2, Aside, Typed DEF TypeOK, OthersOK, Nobody
  <2>. QED  BY <1>1, <1>3, <2>1 DEF Tidy, Shown
<1>5. PICK d : call' = [call EXCEPT ![t] = d] /\ d.at = "stopped"
  <2>1. stop.at = "stopped" /\ call' = [call EXCEPT ![t] = stop]
    BY <1>1 DEF Call, Disposes
  <2>. HIDE DEF stop
  <2>. QED  BY <2>1
<1>6. PICK v : /\ bridge' = [bridge EXCEPT ![b] = v] /\ v \in Bridge
               /\ v.gate = own.gate /\ v.active = own.active
               /\ v.forced = own.forced /\ v.captured = own.captured
  <2>1. /\ bridge' = [bridge EXCEPT ![b] = gone] /\ gone \in Bridge
        /\ gone.gate = own.gate /\ gone.active = own.active
        /\ gone.forced = own.forced /\ gone.captured = own.captured
    BY <1>0, <1>1 DEF Disposes, Bridge
  <2>. HIDE DEF gone
  <2>. QED  BY <2>1
<1>7. Working(t, d, v)
  BY <1>0, <1>1, <1>3, <1>5, <1>6 DEF Working, AtOne, AtBridge
<1>. QED  BY <1>0, <1>1, <1>2, <1>4, <1>5, <1>6, <1>7, AsideShows

LEMMA RunsShows ==
  ASSUME TypeOK, Course, Tidy, Tidy', Shows, Closing, NEW t \in Threads, Runs(t)
  PROVE  Shows' /\ Closing'
<1>. DEFINE c == call[t]
<1>0. PICK b, v : b = c.bridge /\ v = bridge[b]
  OBVIOUS
<1>. DEFINE g == [running |-> TRUE, active |-> FALSE, bap |-> b]
            up == [c EXCEPT !.at = "started"]
<1>1. /\ c \in Call /\ b \in DOMAIN bridge /\ v \in Bridge
      /\ c.at = "run" /\ c.at \in AtBridge /\ AtWork(c)
      /\ c.guide \in DOMAIN guide
      /\ UNCHANGED <<nav, jobs, bridge, bundle, made>>
  BY <1>0, InHand DEF Tidy, Runs, AtBridge
<1>2. t # "bus"
  BY <1>1 DEF Course, OnCourse, BusAt
<1>3. /\ guide' = [guide EXCEPT ![c.guide] = g] /\ ~g.active /\ g.bap = b /\ g.running
  BY <1>0 DEF Runs
<1>. HIDE DEF g
<1>4. Hearing' /\ ~Shown'
  <2>1. ~Shown /\ (bundle.guide # Nobody => bundle.guide \in DOMAIN guide)
    BY <1>1, <1>2, Aside, Typed DEF TypeOK, OthersOK, Nobody
  <2>. QED  BY <1>1, <1>3, <2>1 DEF Tidy, Shown
<1>5. PICK d : call' = [call EXCEPT ![t] = d] /\ d.at = "started"
  <2>1. up.at = "started" /\ call' = [call EXCEPT ![t] = up]
    BY <1>1 DEF Call, Runs
  <2>. HIDE DEF up
  <2>. QED  BY <2>1
<1>6. Working(t, d, v)
  BY <1>0, <1>1, <1>3, <1>5, BridgeSame DEF Working, AtOne, AtBridge
<1>. QED  BY <1>0, <1>1, <1>2, <1>4, <1>5, <1>6, AsideShows

LEMMA FindsShows ==
  ASSUME TypeOK, Course, Tidy, Shows, Closing, FindsGate
  PROVE  Shows' /\ Closing'
<1>. DEFINE c == call["bus"]
<1>0. PICK b, t : b = c.bridge /\ t = "bus"
  OBVIOUS
<1>. DEFINE own == bridge[b]
            e == [c EXCEPT !.want = TRUE, !.then = "set"]
            gated == [own EXCEPT !.cluster = TRUE, !.owned = TRUE,
                        !.installed = FALSE, !.active = FALSE, !.monitor = t]
            w == [e EXCEPT !.at = "waits", !.gate = made + 1]
            s == [e EXCEPT !.at = "set"]
<1>1. /\ c \in Call /\ b \in DOMAIN bridge /\ own \in Bridge
      /\ c.at = "own" /\ c.at \in AtBridge /\ t \in Threads /\ e.bridge = b
      /\ c.guide \in DOMAIN guide
      /\ UNCHANGED <<nav, guide, listener, bundle>>
  <2>1. c.at = "own" /\ c.at \in AtBridge /\ "bus" \in Threads
    BY DEF FindsGate, AtBridge, Threads
  <2>2. c \in Call
    BY <2>1, InHand DEF Tidy
  <2>. QED  BY <1>0, <2>1, <2>2, InHand DEF Tidy, FindsGate, Call
<1>2. Bare(own) /\ ~own.active /\ ~Shown /\ \A g \in nav.closed : FALSE
  BY <1>0, <1>1, ShownOf DEF AtGate, PastGate
<1>3. Hearing' /\ ~Shown'
  BY <1>1, <1>2 DEF Tidy, Hearing, Shown
<1>4. PICK d : /\ call' = [call EXCEPT ![t] = d]
               /\ AtOne(d) => d.guide = c.guide /\ d.bridge = b
               /\ \/ d.at \in {"set", "waits"} /\ d.want
                  \/ d.at = "idle"
  <2>1. /\ s.at = "set" /\ s.guide = c.guide /\ s.bridge = b /\ s.want
        /\ w.at = "waits" /\ w.guide = c.guide /\ w.bridge = b /\ w.want
    BY <1>0, <1>1 DEF Call
  <2>2. ~AtOne(Idle) /\ Idle.at = "idle"
    BY DEF Idle, AtOne, AtBridge
  <2>3. call' \in {[call EXCEPT ![t] = w], [call EXCEPT ![t] = s],
                   [call EXCEPT ![t] = Idle]}
    BY <1>0 DEF FindsGate, Accesses, Dispatches
  <2>. HIDE DEF w, s
  <2>. QED  BY <2>1, <2>2, <2>3
<1>5. PICK v : /\ bridge' = [bridge EXCEPT ![b] = v] /\ v \in Bridge
               /\ Bare(v) /\ ~v.active
  <2>1. gated \in Bridge /\ Bare(gated) /\ ~gated.active
    BY <1>1, <1>2 DEF Bridge, Bare
  <2>2. bridge' \in {bridge, [bridge EXCEPT ![b] = gated]}
    <3>. HIDE DEF e
    <3>1. \/ bridge' = bridge \/ Accesses(t, e, bridge)
      BY <1>0 DEF FindsGate, e
    <3>. QED  BY <1>1, <3>1 DEF Accesses
  <2>. HIDE DEF gated
  <2>. QED  BY <1>1, <1>2, <2>1, <2>2, BridgeSame
<1>6. Working(t, d, v)
  BY <1>0, <1>1, <1>4, <1>5 DEF Working
<1>. QED  BY <1>0, <1>1, <1>2, <1>3, <1>4, <1>5, <1>6, WorkShows DEF AtGate

LEMMA TakesShows ==
  ASSUME TypeOK, Course, Tidy, Tidy', Guarded, Shows, Closing, TakesOver
  PROVE  Shows' /\ Closing'
<1>. DEFINE c == call["bus"]
<1>0. PICK b, t : b = c.bridge /\ t = "bus"
  OBVIOUS
<1>. DEFINE own == bridge[b]
            to(at) == [c EXCEPT !.at = at]
<1>1. /\ c \in Call /\ b \in DOMAIN bridge /\ own \in Bridge /\ nav \in Nav
      /\ c.at \in {"capture", "force", "emit", "show"} /\ c.at \in AtBridge
      /\ Kit(own) /\ PutOn(c, own) /\ t \in Threads
      /\ c.guide \in DOMAIN guide /\ guide[c.guide] \in Guide
      /\ c.guide = bundle.guide
      /\ UNCHANGED <<jobs, listener, bundle, made>>
  BY <1>0, InHand, KnownOf, Typed
  DEF Tidy, TakesOver, AtBridge, Threads, Running
<1>2. own.installed /\ own.active /\ own.cluster /\ own.init
  BY <1>0, <1>1 DEF Guarded, Owning, PastGate, Kit
<1>3. ~Shown /\ \A g \in nav.closed : own.gate = g
  BY <1>0, <1>1, ShownOf DEF AtGate
<1>4. c.at = "capture" => Bare(own)
  BY <1>0, <1>1, ShownOf
<1>5. /\ \A at : to(at).at = at /\ to(at).guide = c.guide /\ to(at).bridge = b
      /\ bridge = [bridge EXCEPT ![b] = own]
  BY <1>0, <1>1, BridgeSame DEF Call
<1>6. PICK d, v :
        /\ call' = [call EXCEPT ![t] = d]
        /\ bridge' = [bridge EXCEPT ![b] = v] /\ v \in Bridge
        /\ v.active /\ v.gate = own.gate
        /\ AtOne(d) => d.guide = c.guide /\ d.bridge = b
        /\ nav'.closed = nav.closed
        /\ \/ d.at \in {"force", "emit", "show"} /\ guide' = guide
           \/ /\ d.at = "idle" /\ v.forced /\ nav'.view = "rgi"
              /\ guide' = [guide EXCEPT ![c.guide].active = TRUE]
  <2>1. CASE c.at = "capture"
    <3>. DEFINE noted == [own EXCEPT !.captured = TRUE, !.view = nav.view]
    <3>1. noted \in Bridge /\ noted.active /\ noted.gate = own.gate
      BY <1>1, <1>2 DEF Bridge, Nav
    <3>2. /\ nav' = nav /\ guide' = guide
          /\ call' = [call EXCEPT ![t] = to("force")]
          /\ bridge' \in {bridge, [bridge EXCEPT ![b] = noted]}
      BY <1>0, <1>2, <2>1 DEF TakesOver
    <3>3. /\ to("force").at = "force" /\ to("force").guide = c.guide
          /\ to("force").bridge = b
      BY <1>5
    <3>. HIDE DEF to, noted
    <3>4. PICK v : /\ bridge' = [bridge EXCEPT ![b] = v] /\ v \in Bridge
                   /\ v.active /\ v.gate = own.gate
      BY <1>1, <1>2, <1>5, <3>1, <3>2
    <3>. QED  BY <3>2, <3>3, <3>4
  <2>2. CASE c.at = "force"
    <3>. DEFINE on == [own EXCEPT !.forced = TRUE,
                         !.saved = IF own.forced THEN own.saved ELSE nav.rgActive]
    <3>1. on \in Bridge /\ on.active /\ on.gate = own.gate
      BY <1>1, <1>2 DEF Bridge, Nav
    <3>2. /\ nav' = [nav EXCEPT !.rgActive = TRUE] /\ guide' = guide
          /\ bridge' = [bridge EXCEPT ![b] = on]
          /\ call' = [call EXCEPT ![t] = to("emit")]
      BY <1>0, <1>2, <2>2 DEF TakesOver
    <3>3. nav'.closed = nav.closed
      BY <1>1, <3>2 DEF Nav
    <3>4. /\ to("emit").at = "emit" /\ to("emit").guide = c.guide
          /\ to("emit").bridge = b
      BY <1>5
    <3>. HIDE DEF to, on
    <3>. QED  BY <3>1, <3>2, <3>3, <3>4
  <2>3. CASE c.at = "emit"
    <3>1. /\ UNCHANGED <<nav, bridge, guide>>
          /\ call' = [call EXCEPT ![t] = to("show")]
      BY <1>0, <1>2, <2>3 DEF TakesOver
    <3>. HIDE DEF to
    <3>. QED  BY ZenonT(40), <1>1, <1>2, <1>5, <3>1
  <2>4. CASE c.at = "show"
    <3>1. /\ nav' = [nav EXCEPT !.view = "rgi"] /\ bridge' = bridge
          /\ call' = [call EXCEPT ![t] = Idle]
          /\ guide' = [guide EXCEPT ![c.guide].active = TRUE]
      BY <1>0, <1>2, <2>4 DEF TakesOver
    <3>2. nav'.closed = nav.closed /\ nav'.view = "rgi"
      BY <1>1, <3>1 DEF Nav
    <3>3. ~AtOne(Idle) /\ Idle.at = "idle" /\ own.forced
      BY <1>1, <2>4 DEF AtOne, AtBridge, Idle, PutOn
    <3>. HIDE DEF to
    <3>. QED  BY <1>1, <1>2, <1>5, <3>1, <3>2, <3>3
  <2>. QED  BY <1>1, <2>1, <2>2, <2>3, <2>4
<1>7. /\ DOMAIN guide' = DOMAIN guide
      /\ \A r \in DOMAIN guide :
           /\ r # c.guide => guide'[r] = guide[r]
           /\ guide'[r].running = guide[r].running
           /\ guide'[r].bap = guide[r].bap
      /\ d.at = "idle" => guide'[c.guide].active
      /\ d.at # "idle" => guide' = guide
  <2>. DEFINE g == [guide[c.guide] EXCEPT !.active = TRUE]
  <2>1. /\ g.running = guide[c.guide].running /\ g.bap = guide[c.guide].bap
        /\ g.active
    BY <1>1 DEF Guide
  <2>2. \/ d.at # "idle" /\ guide' = guide
        \/ d.at = "idle" /\ guide' = [guide EXCEPT ![c.guide] = g]
    BY <1>6
  <2>. HIDE DEF g
  <2>. QED  BY <1>1, <2>1, <2>2
<1>8. Shown' <=> d.at = "idle"
  <2>1. bundle.guide # Nobody
    BY <1>1, Typed DEF Nobody
  <2>. QED  BY <1>1, <1>3, <1>7, <2>1 DEF Shown
<1>9. Working(t, d, v)
  BY <1>0, <1>1, <1>6, <1>7 DEF Working
<1>10. Hearing'
  BY DEF Tidy
<1>. QED
  BY <1>0, <1>1, <1>3, <1>6, <1>8, <1>9, <1>10, WorkShows DEF PastGate

(* What was waited for is done.                                            *)
LEMMA DoneShows ==
  ASSUME TypeOK, Course, Tidy, Tidy', Guarded, Shows, Closing, Reopened,
         DispatcherRuns
  PROVE  Shows' /\ Closing' /\ Reopened'
<1>. DEFINE j == Head(jobs)
            c == call[j.by]
<1>0. PICK b, t : b = c.bridge /\ t = j.by
  OBVIOUS
<1>. DEFINE own == bridge[b]
            got == [own EXCEPT !.installed = TRUE, !.active = FALSE,
                               !.gate = j.gate]
            free == [got EXCEPT !.monitor = NoThread]
            set == [own EXCEPT !.active = (j.job = "block"),
                               !.monitor = NoThread]
            raw == [own EXCEPT !.installed = FALSE, !.active = FALSE,
                               !.gate = Nobody, !.monitor = NoThread]
            block == [job |-> "block", gate |-> j.gate, by |-> t]
            p == IF j.job = "raw" THEN "dispose"
                 ELSE IF j.job \in {"block", "open"} THEN AfterSet(c)
                 ELSE IF j.job = "again" /\ c.want THEN "waits" ELSE c.then
            to == [c EXCEPT !.at = p]
<1>1. /\ jobs # <<>> /\ nav' = Native(j) /\ UNCHANGED <<guide, listener, bundle>>
      /\ jobs \in Seq(Job) /\ jobs[1] = j /\ 1 \in DOMAIN jobs
      /\ DOMAIN jobs = 1..Len(jobs) /\ t \in Threads
  <2>1. jobs # <<>> /\ jobs \in Seq(Job)
    BY DEF DispatcherRuns, TypeOK, JobsOK
  <2>2. jobs[1] = j /\ 1 \in DOMAIN jobs /\ DOMAIN jobs = 1..Len(jobs)
    BY <2>1
  <2>3. t # NoThread
    BY <1>0, <2>2 DEF Guarded, Queued
  <2>. QED  BY <1>0, <2>1, <2>2, <2>3, JobDone DEF DispatcherRuns
<1>2. /\ j \in Job /\ Len(jobs) = 1 /\ Awaited(j, own) /\ JobFits(j, c)
      /\ c \in Call /\ c.at = "waits" /\ OnCourse(t, c) /\ c.at \in AtBridge
      /\ b \in DOMAIN bridge /\ own \in Bridge /\ Kit(own) /\ nav \in Nav
      /\ c.guide \in DOMAIN guide
  BY <1>0, <1>1, WaitsForLast DEF AtBridge, TypeOK, OthersOK
<1>3. /\ \A g \in nav.closed : own.active /\ own.gate = g
      /\ Bare(own) /\ (t # "bus" => ~Shown)
      /\ t = "bus" => (Shown => ~c.want) /\ (~c.want => c.then = "ended")
  BY <1>0, <1>1, <1>2, ShownOf
<1>4. Completes(t, j)
  <2>1. t # NoThread
    BY <1>1 DEF Threads, NoThread
  <2>. QED  BY <1>0, <2>1 DEF DispatcherRuns
<1>5. /\ p \in {"dispose", "capture", "waits", "set", "run", "added", "restore",
                "ended"}
      /\ p = "capture" <=> j.job = "block"
      /\ p = "capture" => t = "bus"
      /\ c.want => t = "bus" /\ j.job \in {"block", "again", "install"}
      /\ p = "set" => c.want
      /\ ~c.want /\ t = "bus" => p = "ended"
  <2>1. /\ t # "bus" => ~c.want
        /\ t # "bus" /\ j.job # "install" => c.then = "restore"
        /\ j.job = "install" => IF t = "bus" THEN c.want /\ c.then = "set"
                                ELSE c.then \in {"run", "added"}
        /\ j.job = "raw" => t # "bus"
        /\ j.job = "block" => c.want
        /\ j.job = "open" => ~c.want
    BY <1>0, <1>2 DEF OnCourse, JobFits
  <2>2. j.job \in {"install", "again", "block", "open", "raw"} /\ c.want \in BOOLEAN
    BY <1>2 DEF Job, Call
  <2>. QED  BY <1>3, <2>1, <2>2 DEF AfterSet
<1>6. PICK d : /\ call' = [call EXCEPT ![t] = d] /\ d.at = p
               /\ d.guide = c.guide /\ d.bridge = b
               /\ d.want = c.want /\ d.then = c.then
  <2>1. call = [call EXCEPT ![t] = c] /\ (p = "waits" => to = c)
    BY <1>0, <1>1, <1>2 DEF TypeOK, CallsOK, Call
  <2>2. /\ to.at = p /\ to.guide = c.guide /\ to.bridge = b
        /\ to.want = c.want /\ to.then = c.then
    BY <1>0, <1>2 DEF Call
  <2>3. call' = [call EXCEPT ![t] = to]
    <3>1. CASE j.job = "again" /\ c.want
      BY <1>0, <1>4, <2>1, <3>1 DEF Completes
    <3>2. CASE ~(j.job = "again" /\ c.want)
      BY <1>0, <1>2, <1>4, <3>2 DEF Completes, Job
    <3>. QED  BY <3>1, <3>2
  <2>. HIDE DEF to, p
  <2>. QED  BY <2>2, <2>3
<1>7. /\ \A x \in {got, free} : x \in Bridge /\ Bare(x) /\ ~x.active
      /\ set \in Bridge /\ Bare(set) /\ set.active = (j.job = "block")
      /\ set.gate = own.gate
      /\ raw \in Bridge /\ Bare(raw) /\ ~raw.active
  BY ZenonT(40), <1>2, <1>3 DEF Bare, Bridge, Job
<1>8. PICK v : /\ bridge' = [bridge EXCEPT ![b] = v] /\ v \in Bridge /\ Bare(v)
               /\ v.active => j.job = "block" /\ v.gate = j.gate
               /\ j.job = "block" => v.active
  <2>1. CASE j.job \in {"install", "again"}
    <3>1. PICK x \in {got, free} : bridge' = [bridge EXCEPT ![b] = x]
      BY <1>0, <1>4, <2>1 DEF Completes
    <3>2. x \in Bridge /\ Bare(x) /\ ~x.active
      BY <1>7
    <3>. HIDE DEF got, free
    <3>. QED  BY <2>1, <3>1, <3>2
  <2>2. CASE j.job \in {"block", "open"}
    <3>1. bridge' = [bridge EXCEPT ![b] = set] /\ own.gate = j.gate
      BY <1>0, <1>2, <1>4, <2>2 DEF Completes, Awaited
    <3>. HIDE DEF set
    <3>. QED  BY <1>7, <3>1
  <2>3. CASE j.job = "raw"
    <3>1. bridge' = [bridge EXCEPT ![b] = raw]
      BY <1>0, <1>4, <2>3 DEF Completes
    <3>. HIDE DEF raw
    <3>. QED  BY <1>7, <2>3, <3>1
  <2>. QED  BY <1>2, <2>1, <2>2, <2>3 DEF Job
<1>. HIDE DEF got, free, set, raw, to, p
<1>9. \A g \in nav'.closed : v.active /\ v.gate = g
  <2>1. CASE j.job \in {"install", "again"}
    <3>1. nav.closed = {} /\ nav'.closed = nav.closed
      BY <1>1, <1>2, <1>3, <2>1 DEF Native, Nav, Awaited, Kit
    <3>. QED  BY <3>1
  <2>2. CASE j.job = "block"
    <3>1. nav'.closed = nav.closed \cup {j.gate} /\ own.gate = j.gate
      BY <1>1, <1>2, <2>2 DEF Native, Nav, Awaited
    <3>. QED  BY <1>3, <1>8, <2>2, <3>1
  <2>3. CASE j.job = "open"
    <3>1. nav'.closed = nav.closed \ {j.gate} /\ own.gate = j.gate
      BY <1>1, <1>2, <2>3 DEF Native, Nav, Awaited
    <3>. QED  BY <1>3, <3>1
  <2>4. CASE j.job = "raw"
    <3>1. nav'.closed = nav.closed /\ own.gate = j.gate
      BY <1>1, <1>2, <2>4 DEF Native, Nav, Awaited
    <3>2. j.gate \notin nav.closed
      BY <1>1, <2>4 DEF Reopened
    <3>. QED  BY <1>3, <3>1, <3>2
  <2>. QED  BY <1>2, <2>1, <2>2, <2>3, <2>4 DEF Job
<1>10. Working(t, d, v)
  BY <1>0, <1>1, <1>2, <1>6, <1>8 DEF Working
<1>11. Hearing' /\ (Shown' <=> Shown)
  BY <1>1 DEF Tidy, Shown
<1>12. Shows' /\ Closing'
  BY <1>0, <1>1, <1>3, <1>5, <1>6, <1>8, <1>9, <1>10, <1>11, WorkShows
  DEF AtGate, PastGate
<1>13. Reopened'
  <2>1. Tail(jobs) = <<>>
    <3>1. Tail(jobs) \in Seq(Job) /\ Len(Tail(jobs)) = 0
      BY <1>1, <1>2
    <3>. QED  BY <3>1, EmptySeq
  <2>2. jobs' = <<>> \/ jobs' = Append(<<>>, block)
    BY <1>2, <1>4, <2>1 DEF Completes, Job
  <2>3. \A k \in DOMAIN jobs' : jobs'[k] = block
    BY <2>2
  <2>. QED  BY <2>3 DEF Reopened
<1>. QED  BY <1>12, <1>13

(* A step of a thread without a bridge: it leaves the route as it is, or   *)
(* it stops the guidance, or the bus thread takes up a frame or is done    *)
(* with one.                                                               *)
LEMMA MovesShows ==
  ASSUME TypeOK, Course, Tidy, Shows, Closing, SameGates, NEW t \in Threads,
         NEW d, call' = [call EXCEPT ![t] = d], call[t].at \notin AtBridge,
         d.at \notin {"undo", "set", "enter", "waits"},
         \A x \in DOMAIN bridge : Uses(x)' => Uses(x),
         \A x \in DOMAIN bridge : Uses(x) => Uses(x)' \/ (~Running /\ ~HandsBack),
         \/ t # "bus" /\ (Shown' <=> Shown)
         \/ t # "bus" /\ d.at = "down" /\ ~Shown'
         \/ t = "bus" /\ call[t].at = "idle" /\ d.at = "own" /\ ~Shown /\ ~Shown'
         \/ t = "bus" /\ call[t].at = "idle" /\ d.at = "down" /\ ~d.want
              /\ (Shown' <=> Shown)
         \/ t = "bus" /\ call[t].at = "ended" /\ d.at = "idle" /\ ~Shown'
  PROVE  Shows' /\ Closing'
<1>1. call'[t] = d /\ \A u \in Threads \ {t} : call'[u] = call[u]
  BY DEF TypeOK, CallsOK
<1>2. /\ t # "bus" => call'["bus"] = call["bus"]
      /\ t = "bus" => call'["bus"] = d
  BY <1>1 DEF Threads
<1>3. /\ ComesDown => ComesDown'
      /\ d.at = "down" => ComesDown' /\ \E u \in Threads : call'[u].at \in AtGate
      /\ (\E u \in Threads : call[u].at \in AtGate)
           => \E u \in Threads : call'[u].at \in AtGate
  BY <1>1 DEF ComesDown, AtGate, AtBridge
<1>4. ASSUME NEW x \in DOMAIN bridge', Uses(x)'
      PROVE  Fitting(bridge[x])'
  <2>1. PICK own : own = bridge[x]
    OBVIOUS
  <2>2. Fitting(own) /\ bridge'[x] = own /\ nav'.view = nav.view
    BY <1>4, <2>1 DEF Shows, SameGates
  <2>3. CASE t # "bus" /\ (Shown' <=> Shown)
    <3>1. Resting' <=> Resting
      BY <1>2, <2>3 DEF Resting
    <3>. QED  BY <1>2, <1>3, <2>2, <2>3, <3>1 DEF Fitting, Bare
  <2>4. CASE t # "bus" /\ d.at = "down" /\ ~Shown'
    BY <1>3, <2>2, <2>4 DEF Fitting
  <2>5. CASE t = "bus" /\ call[t].at = "idle" /\ d.at = "own" /\ ~Shown /\ ~Shown'
    <3>1. ~Resting /\ call["bus"].at \notin PastGate \cup {"force", "emit", "show"}
      BY <2>5 DEF Resting, PastGate
    <3>. QED  BY <1>3, <2>2, <2>5, <3>1 DEF Fitting, Bare
  <2>6. CASE t = "bus" /\ call[t].at = "idle" /\ d.at = "down" /\ (Shown' <=> Shown)
    BY <1>3, <2>2, <2>6 DEF Fitting
  <2>7. CASE t = "bus" /\ call[t].at = "ended" /\ d.at = "idle" /\ ~Shown'
    <3>1. ~Resting /\ call["bus"].at \notin PastGate \cup {"force", "emit", "show"}
      BY <2>7 DEF Resting, PastGate
    <3>. QED  BY <1>3, <2>2, <2>7, <3>1 DEF Fitting, Bare
  <2>. QED  BY <2>3, <2>4, <2>5, <2>6, <2>7
<1>5. Shows'
  <2>1. /\ call'["bus"].at # "undo"
        /\ call'["bus"].at \in {"set", "enter", "waits"} /\ ~call'["bus"].want
             => call'["bus"].then = "ended"
        /\ Shown' /\ call'["bus"].at # "idle"
             => ~call'["bus"].want /\ call'["bus"].at \in AtGate \cup {"ended"}
    BY <1>2 DEF Shows, AtGate
  <2>. QED  BY <1>4, <2>1 DEF Shows
<1>6. Closing'
  <2>1. ASSUME NEW x \in DOMAIN bridge, Uses(x), bridge[x].active
        PROVE  Running \/ HandsBack
    <3>1. Resting \/ call["bus"].at \in PastGate \/ \E u \in Threads : call[u].at \in AtGate
      BY <2>1 DEF Shows, Fitting
    <3>2. CASE Resting
      <4>1. bundle.guide # Nobody => bundle.guide \in DOMAIN guide
        BY Typed DEF TypeOK, OthersOK, Nobody
      <4>. QED  BY <3>2, <4>1 DEF Resting, Shown, Running, Tidy, Hearing
    <3>3. CASE call["bus"].at \in PastGate
      BY <3>3, KnownOf DEF PastGate, AtBridge, Threads
    <3>4. CASE \E u \in Threads : call[u].at \in AtGate
      BY <3>4 DEF HandsBack, HandsAt, AtGate
    <3>. QED  BY <3>1, <3>2, <3>3, <3>4
  <2>2. ASSUME NEW g \in nav.closed
        PROVE  \E x \in DOMAIN bridge : Uses(x)' /\ bridge[x].active /\ bridge[x].gate = g
    BY <2>1, <2>2 DEF Closing
  <2>. QED  BY <2>2 DEF Closing, SameGates
<1>. QED  BY <1>5, <1>6

(* Nothing but the life of the session changes.                            *)
LEMMA ShowsStays ==
  ASSUME Shows, Closing, SameGates, UNCHANGED <<call, guide, bundle>>
  PROVE  Shows' /\ Closing'
<1>1. \A x : Uses(x)' <=> Uses(x)
  BY DEF Uses
<1>2. (Shown' <=> Shown) /\ (Resting' <=> Resting) /\ (ComesDown' <=> ComesDown)
  BY DEF Shown, Resting, ComesDown
<1>3. ASSUME NEW x \in DOMAIN bridge, Fitting(bridge[x]) PROVE Fitting(bridge[x])'
  BY <1>2, <1>3 DEF Fitting, SameGates, Bare
<1>4. Shows'
  BY <1>1, <1>2, <1>3 DEF Shows, SameGates
<1>. QED  BY <1>1, <1>4 DEF Closing, SameGates

(* A thread without a bridge takes up that of the bundle's guidance.       *)
LEMMA TakesUpShows ==
  ASSUME TypeOK, Course, Tidy, Shows, Closing, SameGates, NEW t \in Threads,
         NEW d, call' = [call EXCEPT ![t] = d], ~AtOne(call[t]),
         AtOne(d) => /\ bundle.guide # Nobody /\ d.guide = bundle.guide
                     /\ d.bridge = guide[bundle.guide].bap
                     /\ d.guide \in DOMAIN guide,
         d.at \notin {"undo", "set", "enter", "waits"},
         \A r \in DOMAIN guide : guide'[r].bap = guide[r].bap,
         bundle'.guide = bundle.guide,
         \/ t # "bus" /\ (Shown' <=> Shown)
         \/ t # "bus" /\ d.at = "down" /\ ~Shown'
         \/ t = "bus" /\ call[t].at = "idle" /\ d.at = "own" /\ ~Shown /\ ~Shown'
         \/ t = "bus" /\ call[t].at = "idle" /\ d.at = "down" /\ ~d.want
              /\ (Shown' <=> Shown)
         \/ t = "bus" /\ call[t].at = "ended" /\ d.at = "idle" /\ ~Shown'
  PROVE  Shows' /\ Closing'
<1>1. \A x : Uses(x)' => Uses(x)
  BY Joins DEF Tidy
<1>2. ASSUME NEW x \in DOMAIN bridge, Uses(x)
      PROVE  Uses(x)'
  <2>1. call'[t] = d /\ \A u \in Threads \ {t} : call'[u] = call[u]
    BY DEF TypeOK, CallsOK
  <2>2. bundle.guide # Nobody => bundle.guide \in DOMAIN guide
    BY DEF TypeOK, OthersOK, GuidesOK, Nobody
  <2>. QED  BY <1>2, <2>1, <2>2 DEF Uses
<1>3. call[t].at \notin AtBridge
  BY DEF AtOne
<1>. QED  BY <1>1, <1>2, <1>3, MovesShows

LEMMA FrameShows ==
  ASSUME TypeOK, Course, Tidy, Shows, Closing,
         FrameStarts \/ FrameEnds \/ FrameEnded
  PROVE  Shows' /\ Closing'
<1>. DEFINE r == listener
            b == guide[r].bap
            starts == [Idle EXCEPT !.at = "own", !.guide = r, !.bridge = b]
            ends == [Idle EXCEPT !.at = "down", !.guide = r, !.bridge = b,
                                 !.then = "ended"]
            c == call["bus"]
            v == [guide[c.guide] EXCEPT !.active = FALSE]
<1>1. /\ "bus" \in Threads /\ ~AtOne(c) /\ bundle' = bundle /\ SameGates
  BY DEF FrameStarts, FrameEnds, FrameEnded, Threads, AtOne, AtBridge, SameGates
<1>2. CASE FrameStarts \/ FrameEnds
  <2>1. /\ r \in DOMAIN guide /\ r # Nobody /\ r = bundle.guide
        /\ guide[r].running /\ b # Nobody /\ c.at = "idle" /\ guide' = guide
    <3>1. r # Nobody => r \in DOMAIN guide
      BY Typed DEF TypeOK, OthersOK, Nobody
    <3>. QED  BY <1>2, <3>1 DEF FrameStarts, FrameEnds, Tidy, Hearing
  <2>2. /\ starts.guide = r /\ starts.bridge = b /\ starts.at = "own"
        /\ ends.guide = r /\ ends.bridge = b /\ ends.at = "down" /\ ~ends.want
    BY DEF Idle
  <2>3. Shown' <=> Shown
    BY <1>1, <2>1 DEF Shown
  <2>4. CASE FrameStarts
    <3>1. call' = [call EXCEPT !["bus"] = starts] /\ ~Shown
      BY <2>1, <2>4 DEF FrameStarts, Shown
    <3>. HIDE DEF starts
    <3>. QED  BY <1>1, <2>1, <2>2, <2>3, <3>1, TakesUpShows
  <2>5. CASE FrameEnds
    <3>1. call' = [call EXCEPT !["bus"] = ends]
      BY <2>1, <2>5 DEF FrameEnds
    <3>. HIDE DEF ends
    <3>. QED  BY <1>1, <2>1, <2>2, <2>3, <3>1, TakesUpShows
  <2>. QED  BY <1>2, <2>4, <2>5
<1>3. CASE FrameEnded
  <2>1. /\ ~AtOne(Idle) /\ Idle.at = "idle" /\ c.at = "ended"
        /\ call' = [call EXCEPT !["bus"] = Idle]
    BY <1>3 DEF Idle, AtOne, AtBridge, FrameEnded
  <2>2. /\ c.guide \in DOMAIN guide /\ guide[c.guide] \in Guide
        /\ guide' = [guide EXCEPT ![c.guide] = v]
        /\ c.guide = bundle.guide
    <3>1. ~Adds(c)
      BY <2>1 DEF Adds
    <3>2. c.guide = bundle.guide
      BY <1>1, <2>1, <3>1 DEF Tidy, Orderly
    <3>. QED  BY <1>1, <1>3, <2>1, <3>2, GuideKnown, Typed DEF FrameEnded
  <2>3. ~v.active /\ v.bap = guide[c.guide].bap
    BY <2>2 DEF Guide
  <2>. HIDE DEF v
  <2>4. ~Shown' /\ \A x \in DOMAIN guide : guide'[x].bap = guide[x].bap
    BY <1>1, <2>2, <2>3 DEF Shown
  <2>. QED  BY <1>1, <2>1, <2>4, TakesUpShows
<1>. QED  BY <1>2, <1>3

LEMMA StopsShows ==
  ASSUME TypeOK, Course, Tidy, Shows, Closing, NEW t \in Threads, Stops(t), ~met'
  PROVE  Shows' /\ Closing'
<1>. DEFINE c == call[t]
            r == c.guide
            b == guide[r].bap
            down == [c EXCEPT !.at = "down", !.bridge = b, !.then = "restore"]
            stop == [c EXCEPT !.at = "stopped"]
            v == [guide[r] EXCEPT !.running = FALSE, !.active = FALSE]
<1>1. /\ c \in Call /\ c.at = "stop" /\ ~Meets(t, r) /\ r \in DOMAIN guide
      /\ ~AtOne(c) /\ SameGates /\ bundle' = bundle /\ guide[r] \in Guide
  BY GuideKnown, Typed DEF Stops, TypeOK, CallsOK, AtOne, AtBridge, SameGates
<1>2. r = bundle.guide /\ bundle.guide # Nobody /\ t # "bus"
  BY <1>1, Alone DEF Tidy
<1>3. CASE ~guide[r].running
  <2>1. stop.at = "stopped" /\ ~AtOne(stop)
    BY <1>1 DEF Call, AtOne, AtBridge
  <2>2. guide' = guide /\ call' = [call EXCEPT ![t] = stop]
    BY <1>3 DEF Stops
  <2>3. /\ Shown' <=> Shown
        /\ \A x \in DOMAIN guide : guide'[x].bap = guide[x].bap
    BY <1>1, <2>2 DEF Shown
  <2>. HIDE DEF stop
  <2>. QED  BY <1>1, <1>2, <2>1, <2>2, <2>3, TakesUpShows
<1>4. CASE guide[r].running
  <2>1. b # Nobody
    BY <1>1, <1>4 DEF Tidy, Hearing
  <2>2. /\ guide' = [guide EXCEPT ![r] = v] /\ v.bap = b /\ ~v.active
        /\ call' = [call EXCEPT ![t] = down]
    BY <1>1, <1>4, <2>1 DEF Stops, Guide
  <2>3. down.at = "down" /\ down.guide = r /\ down.bridge = b
    BY <1>1, <2>1 DEF Call
  <2>. HIDE DEF down, v
  <2>4. ~Shown' /\ \A x \in DOMAIN guide : guide'[x].bap = guide[x].bap
    BY <1>1, <1>2, <2>2 DEF Shown
  <2>. QED  BY <1>1, <1>2, <2>2, <2>3, <2>4, TakesUpShows
<1>. QED  BY <1>3, <1>4

LEMMA LifeShows ==
  ASSUME TypeOK, Course, Tidy, Shows, Closing, NEW t \in Threads,
         NEW x \in {"carplay", "other"}, NEW s \in BOOLEAN,
         DeviceState(x) \/ TerminalModeGoes \/ Leaves(t) \/ ServiceGoes(s)
  PROVE  Shows' /\ Closing'
<1>1. /\ SameGates /\ UNCHANGED guide /\ bundle'.guide = bundle.guide
      /\ \A r \in DOMAIN guide : guide'[r].bap = guide[r].bap
  BY DEF DeviceState, TerminalModeGoes, Leaves, ServiceGoes, TypeOK, OthersOK,
         SameGates
<1>2. PICK u \in Threads \ {"bus"} :
        /\ call[u].at \in {"idle", "started", "stopped"}
        /\ \/ call' = call
           \/ call' = [call EXCEPT ![u] = Idle]
           \/ \E r : \E p \in {"start", "stop"} :
                call' = [call EXCEPT ![u] = [Idle EXCEPT !.at = p, !.guide = r]]
  <2>1. CASE DeviceState(x)
    BY <2>1 DEF DeviceState, HandlesDevice, Threads
  <2>2. CASE TerminalModeGoes
    BY <2>2 DEF TerminalModeGoes, Threads
  <2>3. CASE Leaves(t)
    BY <2>3 DEF Leaves, Course, OnCourse, BusAt
  <2>4. CASE ServiceGoes(s)
    BY <2>4 DEF ServiceGoes, Threads
  <2>. QED  BY <2>1, <2>2, <2>3, <2>4
<1>3. PICK d : /\ call' = [call EXCEPT ![u] = d]
               /\ d.at \in {"idle", "start", "stop", "started", "stopped"}
  <2>1. CASE call' = call
    <3>1. call = [call EXCEPT ![u] = call[u]]
      BY DEF TypeOK, CallsOK
    <3>. QED  BY <1>2, <2>1, <3>1
  <2>2. CASE call' = [call EXCEPT ![u] = Idle]
    <3>1. Idle.at = "idle"
      BY DEF Idle
    <3>. QED  BY <2>2, <3>1
  <2>3. ASSUME NEW r, NEW p \in {"start", "stop"},
               call' = [call EXCEPT ![u] = [Idle EXCEPT !.at = p, !.guide = r]]
        PROVE  \E d : /\ call' = [call EXCEPT ![u] = d]
                      /\ d.at \in {"idle", "start", "stop", "started", "stopped"}
    <3>1. [Idle EXCEPT !.at = p, !.guide = r].at = p
      BY DEF Idle
    <3>. QED  BY <2>3, <3>1
  <2>. QED  BY <1>2, <2>1, <2>2, <2>3
<1>4. ~AtOne(d) /\ ~AtOne(call[u])
  BY <1>2, <1>3 DEF AtOne, AtBridge
<1>5. Shown' <=> Shown
  BY <1>1 DEF Shown
<1>. QED  BY <1>1, <1>3, <1>4, <1>5, TakesUpShows

LEMMA BundleShows ==
  ASSUME TypeOK, Course, Tidy, Shows, Closing, ServiceAcquired \/ ServiceGone
  PROVE  Shows' /\ Closing'
<1>. DEFINE c == call["bundle"]
            r == c.guide
<1>1. /\ "bundle" \in Threads \ {"bus"} /\ c.at \in {"added", "stopped"}
      /\ SameGates /\ UNCHANGED guide /\ r \in DOMAIN guide
      /\ bundle \in [guide : Nat, stopping : BOOLEAN] /\ r # Nobody
  <2>1. "bundle" \in Threads \ {"bus"} /\ c.at \in {"added", "stopped"}
    BY DEF ServiceAcquired, ServiceGone, Threads
  <2>. QED  BY <2>1, GuideKnown
            DEF ServiceAcquired, ServiceGone, TypeOK, OthersOK, SameGates
<1>2. PICK d : /\ call' = [call EXCEPT !["bundle"] = d]
               /\ d.at \in {"idle", "start", "stop"}
  <2>1. /\ Idle.at = "idle"
        /\ \A p : [Idle EXCEPT !.at = p, !.guide = r].at = p
    BY DEF Idle
  <2>2. \/ call' = [call EXCEPT !["bundle"] = Idle]
        \/ \E p \in {"start", "stop"} :
             call' = [call EXCEPT !["bundle"] =
                                    [Idle EXCEPT !.at = p, !.guide = r]]
    BY DEF ServiceAcquired, ServiceGone, HandlesDevice
  <2>. QED  BY <2>1, <2>2
<1>3. /\ call'["bundle"] = d
      /\ \A u \in Threads \ {"bundle"} : call'[u] = call[u]
  BY <1>1, <1>2 DEF TypeOK, CallsOK
<1>4. /\ AtWork(c) /\ c.at \notin AtBridge /\ ~AtOne(d)
      /\ \A u \in Threads \ {"bundle"} : ~AtWork(call[u]) /\ ~AtOne(call[u])
  <2>1. AtWork(c) /\ c.at \notin AtBridge /\ ~AtOne(d)
    BY <1>1, <1>2 DEF AtWork, AtBridge, AtOne
  <2>2. \A u \in Threads \ {"bundle"} : ~AtWork(call[u])
    BY <1>1, <2>1 DEF Tidy, Orderly
  <2>. QED  BY <2>1, <2>2 DEF AtOne, AtWork, AtBridge
<1>5. ~HandsBack
  BY <1>1, <1>4 DEF HandsBack, HandsAt, AtBridge, AtWork
<1>6. \A u \in Threads : ~AtOne(call'[u])
  BY <1>3, <1>4
<1>7. ~Running /\ ~Shown
  BY <1>1, <1>4, Aside
<1>8. \A x \in DOMAIN bridge : Uses(x)' => Uses(x)
  <2>1. CASE ServiceAcquired
    <3>1. bundle'.guide = r /\ AtOne(c)
      BY <1>1, <2>1 DEF ServiceAcquired, AtOne
    <3>2. guide[r].bap \in {Nobody, c.bridge}
      BY <1>1, <3>1 DEF Tidy, Linked
    <3>3. ASSUME NEW x \in DOMAIN bridge, Uses(x)' PROVE Uses(x)
      <4>1. guide[r].bap = x /\ x # Nobody
        BY <1>1, <1>6, <3>1, <3>3, Typed DEF Uses, Nobody
      <4>. QED  BY <1>1, <3>1, <3>2, <4>1 DEF Uses
    <3>. QED  BY <3>3
  <2>2. CASE ServiceGone
    <3>1. bundle'.guide = Nobody
      BY <1>1, <2>2 DEF ServiceGone
    <3>. QED  BY <1>6, <3>1 DEF Uses
  <2>. QED  BY <2>1, <2>2
<1>9. ~Shown'
  <2>1. CASE ServiceAcquired
    <3>1. bundle'.guide = r
      BY <1>1, <2>1 DEF ServiceAcquired
    <3>2. ~guide[r].running
      BY <1>1, <1>4 DEF Tidy, Orderly
    <3>. QED  BY <1>1, <3>1, <3>2 DEF Shown, Tidy, Hearing
  <2>2. CASE ServiceGone
    BY <1>1, <2>2 DEF ServiceGone, Shown
  <2>. QED  BY <2>1, <2>2
<1>. QED
  BY <1>1, <1>2, <1>4, <1>5, <1>7, <1>8, <1>9, MovesShows

(* A bridge is made while none is in use.                                  *)
LEMMA NewBridgeShows ==
  ASSUME TypeOK, Shows, Closing, UNCHANGED nav, ~Shown',
         NEW t \in Threads \ {"bus"}, \A u \in Threads : ~AtOne(call[u]),
         \A x \in DOMAIN bridge : ~Uses(x),
         NEW c \in Call, NewBridge(t, c),
         bundle'.guide # Nobody => guide'[bundle'.guide].bap \in {Nobody, Len(bridge) + 1}
  PROVE  Shows' /\ Closing'
<1>. DEFINE n    == Len(bridge) + 1
            next == [c EXCEPT !.bridge = n]
            bs   == Append(bridge, Fresh)
            own  == [Fresh EXCEPT !.cluster = TRUE, !.owned = TRUE,
                       !.installed = FALSE, !.active = FALSE, !.monitor = t]
            w    == [next EXCEPT !.at = "waits", !.gate = made + 1]
            p    == [next EXCEPT !.at = c.then]
<1>1. /\ Len(bridge) \in Nat /\ DOMAIN bridge = 1..Len(bridge)
      /\ bs[n] = Fresh /\ DOMAIN bs = 1..n
      /\ next.bridge = n /\ w.bridge = n /\ p.bridge = n
  <2>1. bridge \in Seq(Bridge) /\ Fresh \in Bridge
    BY DEF TypeOK, BridgesOK, Fresh, Bridge, Threads, NoThread, Views
  <2>. QED  BY <2>1, Typed, SeqAppended DEF Call
<1>2. PICK d, v : /\ call' = [call EXCEPT ![t] = d] /\ d.bridge = n
                  /\ DOMAIN bridge' = 1..n
                  /\ bridge'[n] = v /\ Bare(v) /\ ~v.active
  <2>1. CASE nav.ready
    <3>1. Accesses(t, next, bs)
      BY <2>1 DEF NewBridge
    <3>2. call' = [call EXCEPT ![t] = w] /\ bridge' = [bs EXCEPT ![n] = own]
      BY <1>1, <3>1 DEF Accesses, Dispatches
    <3>3. Bare(own) /\ ~own.active /\ n \in 1..n
      BY <1>1 DEF Fresh, Bare
    <3>4. bridge'[n] = own /\ DOMAIN bridge' = 1..n
      <4>. HIDE DEF own, bs
      <4>. QED  BY <1>1, <3>2, <3>3
    <3>. HIDE DEF w, own, bs
    <3>. QED  BY <1>1, <3>2, <3>3, <3>4
  <2>2. CASE ~nav.ready
    <3>1. call' = [call EXCEPT ![t] = p] /\ bridge' = bs
      BY <2>2 DEF NewBridge
    <3>2. Bare(Fresh) /\ ~Fresh.active
      BY DEF Fresh, Bare
    <3>. HIDE DEF p, bs
    <3>. QED  BY <1>1, <3>1, <3>2
  <2>. QED  BY <2>1, <2>2
<1>. HIDE DEF next, bs, own, w, p
<1>3. /\ call'[t] = d /\ \A u \in Threads \ {t} : call'[u] = call[u]
      /\ call'["bus"] = call["bus"]
  <2>1. call'[t] = d /\ \A u \in Threads \ {t} : call'[u] = call[u]
    BY <1>2 DEF TypeOK, CallsOK
  <2>. QED  BY <2>1 DEF Threads
<1>4. ASSUME NEW x \in DOMAIN bridge', Uses(x)'
      PROVE  x = n
  <2>1. x # Nobody
    BY <1>2, <1>4 DEF Nobody
  <2>. QED  BY <1>2, <1>3, <1>4, <2>1 DEF Uses
<1>5. nav.closed = {}
  BY DEF Closing
<1>6. ASSUME NEW x \in DOMAIN bridge', Uses(x)'
      PROVE  Fitting(bridge[x])'
  <2>1. bridge'[x] = v
    BY <1>2, <1>4, <1>6
  <2>. QED  BY <1>2, <2>1 DEF Fitting, Bare
<1>. QED  BY <1>3, <1>5, <1>6 DEF Shows, Closing

LEMMA StartsShows ==
  ASSUME TypeOK, Course, Tidy, Shows, Closing, NEW t \in Threads, Starts(t), ~met'
  PROVE  Shows' /\ Closing'
<1>. DEFINE c == call[t]
            r == c.guide
            f == [c EXCEPT !.then = "run"]
            up == [c EXCEPT !.at = "started"]
            run == [c EXCEPT !.at = "run", !.bridge = guide[r].bap]
<1>1. /\ c \in Call /\ c.at = "start" /\ ~Meets(t, r) /\ r \in DOMAIN guide
      /\ UNCHANGED <<nav, guide, listener, bundle>>
  BY GuideKnown DEF Starts, TypeOK, CallsOK
<1>2. /\ r = bundle.guide /\ bundle.guide # Nobody /\ t # "bus"
      /\ \A u \in Threads \ {t} : call[u].at = "idle"
  BY <1>1, Alone DEF Tidy
<1>3. Shown' <=> Shown
  BY <1>1 DEF Shown
<1>4. \A u \in Threads : ~AtOne(call[u])
  BY <1>1, <1>2 DEF AtOne, AtBridge
<1>5. CASE ~guide[r].running /\ guide[r].bap = Nobody /\ NewBridge(t, f)
  <2>1. f \in Call
    BY <1>1 DEF Call, Places, AtBridge
  <2>2. ~Shown'
    BY <1>1, <1>2, <1>3, <1>5 DEF Shown, Tidy, Hearing
  <2>3. \A x \in DOMAIN bridge : ~Uses(x)
    <3>1. \A x \in DOMAIN bridge : x # Nobody
      BY Typed DEF Nobody
    <3>. QED  BY <1>2, <1>4, <1>5, <3>1 DEF Uses
  <2>. HIDE DEF f
  <2>. QED  BY <1>1, <1>2, <1>4, <1>5, <2>1, <2>2, <2>3, NewBridgeShows
<1>6. CASE /\ UNCHANGED <<jobs, bridge, made>>
           /\ call' \in {[call EXCEPT ![t] = up], [call EXCEPT ![t] = run]}
  <2>1. /\ up.at = "started" /\ run.at = "run" /\ run.guide = r
        /\ run.bridge = guide[r].bap
    BY <1>1 DEF Call
  <2>2. ~AtOne(up)
    BY <2>1 DEF AtOne, AtBridge
  <2>3. PICK d : /\ call' = [call EXCEPT ![t] = d]
                 /\ d.at \in {"started", "run"}
                 /\ AtOne(d) => d.guide = r /\ d.bridge = guide[r].bap
    <3>. HIDE DEF up, run
    <3>. QED  BY <1>6, <2>1, <2>2
  <2>4. SameGates
    BY <1>1, <1>6 DEF SameGates
  <2>. QED  BY <1>1, <1>2, <1>3, <1>4, <2>3, <2>4, TakesUpShows
<1>. QED  BY <1>5, <1>6 DEF Starts

LEMMA ComesShows ==
  ASSUME TypeOK, Course, Tidy, Shows, Closing, ServiceComes
  PROVE  Shows' /\ Closing'
<1>. DEFINE c == [Idle EXCEPT !.guide = Len(guide) + 1, !.then = "added"]
<1>1. /\ call["bundle"].at = "idle" /\ bundle.guide = Nobody
      /\ UNCHANGED <<nav, bundle>> /\ NewBridge("bundle", c)
  BY DEF ServiceComes
<1>2. \A u \in Threads \ {"bundle"} : ~AtWork(call[u])
  <2>1. ASSUME NEW u \in {"bus", "device"}, call[u].at # "idle" PROVE FALSE
    <3>1. u \in Threads /\ ~Adds(call[u])
      BY <2>1 DEF Course, OnCourse, BusAt, Adds, Threads
    <3>. QED  BY <1>1, <2>1, <3>1, GuideKnown DEF Tidy, Orderly
  <2>. QED  BY <2>1 DEF Threads, AtWork
<1>3. c \in Call
  <2>1. /\ Idle \in Call /\ Len(guide) + 1 \in Nat /\ "added" \in Places
    BY Typed, SoundIdle DEF Sound, Places
  <2>. QED  BY <2>1 DEF Call
<1>4. \A u \in Threads : ~AtOne(call[u])
  BY <1>1, <1>2 DEF AtOne, AtBridge, AtWork
<1>5. \A x \in DOMAIN bridge : ~Uses(x)
  BY <1>1, <1>4 DEF Uses
<1>6. "bundle" \in Threads \ {"bus"} /\ ~Shown' /\ bundle'.guide = Nobody
  BY <1>1 DEF Threads, Shown
<1>. HIDE DEF c
<1>. QED  BY <1>1, <1>3, <1>4, <1>5, <1>6, NewBridgeShows

-----------------------------------------------------------------------------
(* Where the raw service is put back, the gate is open already.            *)

LEMMA ReopenedStays ==
  ASSUME TypeOK, Reopened, nav'.closed \subseteq nav.closed,
         \/ jobs' = jobs
         \/ \E j : /\ jobs' = Append(jobs, j) /\ j \in Job
                   /\ j.job = "raw" => j.gate \notin nav'.closed
  PROVE  Reopened'
<1>1. CASE jobs' = jobs
  BY <1>1 DEF Reopened
<1>2. ASSUME NEW j \in Job, jobs' = Append(jobs, j),
             j.job = "raw" => j.gate \notin nav'.closed
      PROVE  Reopened'
  <2>1. jobs \in Seq(Job)
    BY DEF TypeOK, JobsOK
  <2>2. /\ DOMAIN jobs' = DOMAIN jobs \cup {Len(jobs) + 1}
        /\ \A k \in DOMAIN jobs : jobs'[k] = jobs[k]
        /\ jobs'[Len(jobs) + 1] = j
    BY <1>2, <2>1, SeqAppended
  <2>. QED  BY <1>2, <2>2 DEF Reopened
<1>. QED  BY <1>1, <1>2

(* A job that is queued is an installation, or what setCarPlayRouteActive  *)
(* asks for, or the raw service once the gate is open.                     *)
LEMMA AsksInstall ==
  ASSUME TypeOK, Reopened, NEW t \in Threads, UNCHANGED nav,
         NEW c, NEW bs, Accesses(t, c, bs) \/ jobs' = jobs
  PROVE  Reopened'
<1>. DEFINE j == [job |-> "install", gate |-> made + 1, by |-> t]
<1>1. j \in Job /\ j.job # "raw"
  BY DEF Job, Gates, TypeOK, OthersOK
<1>2. jobs' = jobs \/ jobs' = Append(jobs, j)
  BY DEF Accesses, Dispatches
<1>. HIDE DEF j
<1>. QED  BY <1>1, <1>2, ReopenedStays

LEMMA SetsReopened ==
  ASSUME TypeOK, Reopened, NEW t \in Threads, SetsRoute(t), call[t].at \in AtBridge
  PROVE  Reopened'
<1>. DEFINE c == call[t]
<1>0. PICK b : b = c.bridge
  OBVIOUS
<1>. DEFINE own == bridge[b]
            x == [job |-> IF c.want THEN "block" ELSE "open",
                  gate |-> own.gate, by |-> t]
            y == [job |-> "again", gate |-> made + 1, by |-> t]
<1>1. UNCHANGED nav /\ own \in Bridge /\ b \in DOMAIN bridge
      /\ (own.installed => own.gate # Nobody) /\ made \in Nat
  BY <1>0, BridgeKnown, Typed DEF SetsRoute, TypeOK, BridgesOK, OthersOK
<1>2. CASE own.installed /\ own.active # c.want
  <2>1. jobs' = Append(jobs, x)
    BY <1>0, <1>2 DEF SetsRoute, Dispatches
  <2>2. x \in Job /\ x.job # "raw"
    BY <1>1, <1>2 DEF Job, Bridge
  <2>. HIDE DEF x
  <2>. QED  BY <1>1, <2>1, <2>2, ReopenedStays
<1>3. CASE ~own.installed /\ nav.ready
  <2>1. jobs' = Append(jobs, y)
    BY <1>0, <1>3 DEF SetsRoute, Dispatches
  <2>2. y \in Job /\ y.job # "raw"
    BY <1>1 DEF Job, Gates
  <2>. HIDE DEF y
  <2>. QED  BY <1>1, <2>1, <2>2, ReopenedStays
<1>4. CASE ~(own.installed /\ own.active # c.want) /\ ~(~own.installed /\ nav.ready)
  <2>1. jobs' = jobs
    BY <1>0, <1>4 DEF SetsRoute
  <2>. QED  BY <1>1, <2>1, ReopenedStays
<1>. QED  BY <1>2, <1>3, <1>4

LEMMA RestoresReopened ==
  ASSUME TypeOK, Reopened, NEW t \in Threads, Restores(t)
  PROVE  Reopened'
<1>. DEFINE c == call[t]
<1>0. PICK b : b = c.bridge
  OBVIOUS
<1>. DEFINE own == bridge[b]
            x == [job |-> "raw", gate |-> own.gate, by |-> t]
<1>1. /\ own \in Bridge /\ b \in DOMAIN bridge /\ nav \in Nav
      /\ own.installed => own.gate # Nobody
  <2>1. c.at \in AtBridge
    BY DEF Restores, AtBridge
  <2>. QED  BY <1>0, <2>1, BridgeKnown, Typed DEF TypeOK, BridgesOK, OthersOK
<1>2. CASE UNCHANGED <<nav, jobs>>
  BY <1>2, ReopenedStays
<1>3. CASE own.owned /\ own.installed
  <2>1. jobs' = Append(jobs, x) /\ nav'.closed = nav.closed \ {own.gate}
    BY <1>0, <1>1, <1>3 DEF Restores, Dispatches, Nav
  <2>2. x \in Job /\ x.gate \notin nav'.closed
    BY <1>1, <1>3, <2>1 DEF Job, Bridge
  <2>. HIDE DEF x
  <2>. QED  BY <2>1, <2>2, ReopenedStays
<1>. QED  BY <1>0, <1>2, <1>3 DEF Restores

(* All the others leave the queue and the gates.                           *)
LEMMA OthersReopened ==
  ASSUME TypeOK, Reopened, NEW t \in Threads,
         NEW x \in {"carplay", "other"}, NEW s \in BOOLEAN,
         \/ ReadsOwnership(t) \/ GoesDown(t) \/ Disposes(t) \/ Runs(t)
         \/ Stops(t) \/ Leaves(t) \/ TakesOver
         \/ FrameStarts \/ FrameEnds \/ FrameEnded
         \/ DeviceState(x) \/ TerminalModeGoes \/ ServiceGoes(s)
         \/ ServiceAcquired \/ ServiceGone \/ NavigationComesUp
         \/ UNCHANGED vars
  PROVE  Reopened'
<1>1. nav \in Nav
  BY DEF TypeOK, OthersOK
<1>2. jobs' = jobs
  BY DEF ReadsOwnership, GoesDown, Disposes, Runs, Stops, Leaves, TakesOver,
     FrameStarts, FrameEnds, FrameEnded, DeviceState, TerminalModeGoes,
     ServiceGoes, ServiceAcquired, ServiceGone, NavigationComesUp, vars
<1>3. CASE GoesDown(t)
  <2>1. nav'.closed = nav.closed
    BY <1>1, <1>3 DEF GoesDown, TakesOverlayOff, Nav
  <2>. QED  BY <1>2, <2>1, ReopenedStays
<1>4. CASE TakesOver
  <2>1. nav'.closed = nav.closed
    BY <1>1, <1>4 DEF TakesOver, Nav
  <2>. QED  BY <1>2, <2>1, ReopenedStays
<1>5. CASE NavigationComesUp
  <2>1. nav'.closed = nav.closed
    BY <1>1, <1>5 DEF NavigationComesUp, Nav
  <2>. QED  BY <1>2, <2>1, ReopenedStays
<1>6. CASE UNCHANGED nav
  BY <1>2, <1>6, ReopenedStays
<1>. QED
  BY <1>3, <1>4, <1>5, <1>6
  DEF ReadsOwnership, Disposes, Runs, Stops, Leaves, FrameStarts, FrameEnds,
      FrameEnded, DeviceState, TerminalModeGoes, ServiceGoes, ServiceAcquired,
      ServiceGone, vars

-----------------------------------------------------------------------------
(* The invariant, and that the gate and the overlay follow the route.      *)

LEMMA SteadyStep ==
  ASSUME TypeOK, TypeOK', Course, Tidy, Tidy', Steady, [Next]_vars, ~late', ~met'
  PROVE  Steady'
<1>0. Guarded /\ Shows /\ Closing /\ Reopened /\ Orderly
  BY DEF Steady, Tidy
<1>1. Guarded'
  BY <1>0, GuardedStep
<1>2. /\ "carplay" \in {"carplay", "other"} /\ TRUE \in BOOLEAN
      /\ "bus" \in Threads /\ "bundle" \in Threads
  BY DEF Threads
<1>3. ASSUME NEW t \in Threads, Steps(t) PROVE Shows' /\ Closing' /\ Reopened'
  <2>1. CASE ReadsOwnership(t)
    BY <1>0, <1>2, <2>1, ReadsShows, OthersReopened
  <2>2. CASE SetsRoute(t)
    BY <1>0, <2>2, SetsShows, SetsReopened DEF SetsRoute, AtBridge
  <2>3. CASE GoesDown(t)
    BY <1>0, <1>2, <2>3, GoesShows, OthersReopened
  <2>4. CASE Restores(t)
    BY <1>0, <2>4, RestoresShows, RestoresReopened
  <2>5. CASE Disposes(t)
    BY <1>0, <1>2, <2>5, DisposesShows, OthersReopened
  <2>6. CASE Starts(t)
    <3>1. PICK c, bs : Accesses(t, c, bs) \/ jobs' = jobs
      BY <2>6 DEF Starts, NewBridge
    <3>2. Reopened'
      BY <1>0, <2>6, <3>1, AsksInstall DEF Starts
    <3>. QED  BY <1>0, <2>6, <3>2, StartsShows
  <2>7. CASE Runs(t)
    BY <1>0, <1>2, <2>7, RunsShows, OthersReopened
  <2>8. CASE Stops(t)
    BY <1>0, <1>2, <2>8, StopsShows, OthersReopened
  <2>9. CASE Leaves(t)
    BY <1>0, <1>2, <2>9, LifeShows, OthersReopened
  <2>. QED
    BY <1>3, <2>1, <2>2, <2>3, <2>4, <2>5, <2>6, <2>7, <2>8, <2>9 DEF Steps
<1>4. CASE FindsGate
  <2>1. PICK c, bs : Accesses("bus", c, bs) \/ jobs' = jobs
    BY <1>4 DEF FindsGate
  <2>2. Reopened'
    BY <1>0, <1>2, <1>4, <2>1, AsksInstall DEF FindsGate
  <2>. QED  BY <1>0, <1>1, <1>4, <2>2, FindsShows DEF Steady
<1>5. CASE TakesOver
  BY <1>0, <1>1, <1>2, <1>5, TakesShows, OthersReopened DEF Steady
<1>6. CASE FrameStarts \/ FrameEnds \/ FrameEnded
  BY <1>0, <1>1, <1>2, <1>6, FrameShows, OthersReopened DEF Steady
<1>7. CASE ServiceAcquired \/ ServiceGone
  BY <1>0, <1>1, <1>2, <1>7, BundleShows, OthersReopened DEF Steady
<1>8. CASE TerminalModeGoes \/ (\E x \in {"carplay", "other"} : DeviceState(x))
             \/ \E s \in BOOLEAN : ServiceGoes(s)
  <2>1. \E x \in {"carplay", "other"} : \E s \in BOOLEAN :
          DeviceState(x) \/ TerminalModeGoes \/ ServiceGoes(s)
    BY <1>2, <1>8
  <2>. QED  BY <1>0, <1>1, <1>2, <2>1, LifeShows, OthersReopened DEF Steady
<1>9. CASE ServiceComes
  <2>1. PICK c, bs : Accesses("bundle", c, bs) \/ jobs' = jobs
    BY <1>9 DEF ServiceComes, NewBridge
  <2>2. Reopened'
    BY <1>0, <1>2, <1>9, <2>1, AsksInstall DEF ServiceComes
  <2>. QED  BY <1>0, <1>1, <1>9, <2>2, ComesShows DEF Steady
<1>10. CASE NavigationComesUp
  <2>1. nav \in Nav
    BY DEF TypeOK, OthersOK
  <2>2. SameGates
    BY <1>10, <2>1 DEF NavigationComesUp, SameGates, Nav
  <2>3. Reopened'
    BY <1>0, <1>2, <1>10, OthersReopened
  <2>. QED  BY <1>0, <1>1, <1>10, <2>2, <2>3, ShowsStays DEF NavigationComesUp, Steady
<1>11. CASE UNCHANGED vars
  <2>1. SameGates /\ UNCHANGED <<call, guide, bundle>>
    BY <1>11 DEF vars, SameGates
  <2>2. Reopened'
    BY <1>0, <1>2, <1>11, OthersReopened
  <2>. QED  BY <1>0, <1>1, <2>1, <2>2, ShowsStays DEF Steady
<1>12. CASE DispatcherRuns
  BY <1>0, <1>1, <1>12, DoneShows DEF Steady
<1>13. \A t \in Threads : ~GivesUp(t)
  BY DEF GivesUp
<1>14. CASE Outside
  BY <1>6, <1>8, <1>9, <1>10, <1>14 DEF Outside
<1>15. ASSUME NEW t \in Threads, Steps(t) PROVE Steady'
  BY <1>1, <1>3, <1>15 DEF Steady
<1>16. CASE Bus \/ Device \/ Bundle
  BY <1>2, <1>4, <1>5, <1>6, <1>7, <1>15, <1>16 DEF Bus, Device, Bundle, Threads
<1>. QED  BY <1>11, <1>12, <1>13, <1>14, <1>16 DEF Next

LEMMA SteadyInit ==
  ASSUME Init
  PROVE  Steady
<1>1. Guarded
  BY InvInit DEF Inv, Init
<1>2. /\ DOMAIN jobs = {} /\ DOMAIN bridge = {} /\ nav.closed = {}
      /\ bundle.guide = Nobody /\ call["bus"].at = "idle"
  BY DEF Init, Idle, Threads
<1>. QED  BY <1>1, <1>2 DEF Steady, Shows, Shown, Closing, Reopened

(* As long as nobody was met, and while the dispatcher has kept its time.  *)
InvSteady == InvTidy /\ (~late /\ ~met => Steady)

LEMMA InvSteadyStep ==
  ASSUME InvSteady, [Next]_vars
  PROVE  InvSteady'
<1>1. InvTidy'
  BY InvTidyStep DEF InvSteady
<1>2. ASSUME ~late', ~met' PROVE Steady'
  <2>1. ~late /\ ~met
    BY <1>2, HistoryGrows
  <2>. QED  BY <1>1, <1>2, <2>1, SteadyStep DEF InvSteady, InvTidy
<1>. QED  BY <1>1, <1>2 DEF InvSteady

(* No thread is at work with the guidance that listens: it is the bundle's,*)
(* every thread is idle, the queue is empty, and its bridge is in use.     *)
LEMMA InvFollows ==
  ASSUME InvSteady
  PROVE  GateFollowsRoute
<1>. DEFINE active == guide[listener].active
<1>1. SUFFICES ASSUME listener # Nobody, ~late, ~met,
                      \A t \in Threads : ~Works(t, listener)
               PROVE  /\ NativeBlocked <=> active
                      /\ nav.rgActive <=> active
                      /\ (nav.view = "rgi") <=> active
  BY DEF GateFollowsRoute
<1>2. TypeOK /\ Course /\ Tidy /\ Steady /\ nav \in Nav
  BY <1>1 DEF InvSteady, InvTidy, TypeOK, OthersOK
<1>3. PICK r, b : r = listener /\ b = guide[r].bap
  OBVIOUS
<1>. DEFINE own == bridge[b]
<1>4. /\ r = bundle.guide /\ r # Nobody /\ r \in DOMAIN guide
      /\ guide[r] \in Guide /\ guide[r].running /\ b # Nobody
      /\ b \in DOMAIN bridge /\ own \in Bridge
  <2>1. r = bundle.guide /\ r # Nobody /\ r \in DOMAIN guide /\ guide[r].running
    BY <1>1, <1>2, <1>3, Typed DEF Tidy, Hearing, TypeOK, OthersOK, Nobody
  <2>2. b # Nobody /\ guide[r] \in Guide /\ b \in DOMAIN bridge
    BY <1>2, <1>3, <2>1, Typed DEF Tidy, Hearing, TypeOK, GuidesOK, Nobody
  <2>. QED  BY <1>2, <2>1, <2>2, Typed
<1>5. \A t \in Threads : call[t].at = "idle"
  BY <1>1, <1>2, <1>3, <1>4 DEF Tidy, Orderly, Works
<1>6. ~Restoring
  <2>1. ASSUME NEW k \in DOMAIN jobs PROVE FALSE
    <3>1. jobs[k] \in Job /\ jobs[k].by # NoThread
      BY <1>2, <2>1, Typed DEF Steady, Guarded, Queued
    <3>. QED  BY <1>2, <1>5, <2>1, <3>1 DEF TypeOK, JobsOK, Job
  <2>. QED  BY <2>1 DEF Restoring
<1>7. Uses(b) /\ \A x \in DOMAIN bridge : Uses(x) => x = b
  BY <1>3, <1>4, <1>5 DEF Uses, AtOne, AtBridge
<1>8. Fitting(own) /\ Follows(b) /\ Kit(own) /\ Overlay(own, nav)
  BY <1>2, <1>4, <1>7 DEF Steady, Shows, Guarded, GateInv, Tidy, Kits, Overlaid
<1>9. /\ call["bus"].at = "idle" /\ ~ComesDown
      /\ \A t \in Threads : call[t].at \notin AtGate
  BY <1>5 DEF Threads, ComesDown, AtGate
<1>10. Shown <=> active
  BY <1>3, <1>4 DEF Shown
<1>11. CASE active
  <2>1. own.active /\ own.forced /\ nav.view = "rgi" /\ own.installed
    BY <1>8, <1>9, <1>10, <1>11 DEF Fitting, Kit
  <2>. QED  BY <1>6, <1>8, <1>11, <2>1 DEF Follows, NativeBlocked, Overlay
<1>12. CASE ~active
  <2>1. ~own.active /\ Bare(own)
    BY <1>8, <1>9, <1>10, <1>12 DEF Fitting, Resting, PastGate
  <2>2. ~NativeBlocked
    BY <1>2, <1>7, <2>1 DEF Steady, Closing, NativeBlocked
  <2>3. nav.rgActive = own.forced /\ (nav.view = "rgi" => own.captured)
    BY <1>8 DEF Overlay
  <2>. QED  BY <1>12, <2>1, <2>2, <2>3 DEF Bare
<1>. QED  BY <1>11, <1>12

(* With a dispatcher that keeps its time, native guidance is shut out, and *)
(* the cluster shows CarPlay's, exactly while the guidance that listens    *)
(* has a route it owns, whenever no thread is at work with it and no stop  *)
(* or start has met another thread's work (onStart, onShutdown).           *)
THEOREM GateFollows == Spec => []GateFollowsRoute
<1>1. Init => InvSteady
  BY TypesInit, CourseInit, TidyInit, SteadyInit DEF InvSteady, InvTidy
<1>2. InvSteady /\ [Next]_vars => InvSteady'
  BY InvSteadyStep
<1>. QED  BY <1>1, <1>2, InvFollows, PTL DEF Spec

(* The two together: the cluster has one writer at a time, and it is the   *)
(* one whose route it shows.                                               *)
THEOREM OneWriterOnly == Spec => []OneWriter
BY EmitsOwned, GateFollows, PTL DEF OneWriter

=============================================================================
