----------------------------- MODULE RgiSender -----------------------------
(***************************************************************************)
(* The sender of StartRouteGuidanceUpdates (0x5200):                       *)
(* altscreen/native/send_hook.c.                                           *)
(*                                                                         *)
(* Threads of the stock iAP2 driver handle messages through                *)
(* wrapped_iap2_msg: 0x1D00 opens a new epoch, 0x2700 (GPS) is the only    *)
(* occasion on which 0x5200 may be sent: first right after the real        *)
(* MsgReply, later, when a retry is due, after the stock handler.  Each    *)
(* epoch has a retry worker that only marks a retry as due.  The receive   *)
(* observer notes the phone's 0x5201, 0x5202 and 0x5204 on its own thread. *)
(* One action is one critical section, or one call made outside it.        *)
(***************************************************************************)
EXTENDS Integers

CONSTANTS
  Threads,        \* driver threads
  Rcvids,         \* ids of clients blocked in a message
  Contexts,       \* iAP2 contexts
  NoContext,      \* the NULL context
  NoThread,       \* no one holds send_lock
  MaxReplies,     \* length of pending_replies (8)
  FastAttempts,   \* RGI_START_FAST_ATTEMPTS; attempts are counted up to it
  MaxGeneration,  \* the width of retry_generation, which wraps to 1
  MaxStimuli,     \* bound of the model on 0x1D00 and 0x520x received
  Faulty,         \* creating a thread may fail, stock may not reply
  EagerClients    \* a client may be back before its handler has returned

ASSUME SenderAssumption ==
  /\ NoContext \notin Contexts /\ NoThread \notin Threads
  /\ MaxReplies \in Nat \ {0}
  /\ FastAttempts \in Nat \ {0}
  /\ MaxStimuli \in Nat
  /\ MaxGeneration \in Nat /\ MaxStimuli + 1 < MaxGeneration
  /\ Faulty \in BOOLEAN
  /\ EagerClients \in BOOLEAN

VARIABLES
  retry,      \* what retry_lock protects
  pending,    \* pending_replies, under pending_lock
  send_lock,  \* who holds send_lock
  call,       \* the call each driver thread is in
  workers,    \* how many retry workers of each generation are alive
  fresh,      \* history: threads that took 0x2700 for a trigger in this epoch
  stimuli     \* events bounded by MaxStimuli

vars == <<retry, pending, send_lock, call, workers, fresh, stimuli>>

-----------------------------------------------------------------------------
Generations == 1..MaxGeneration
Replies     == 1..MaxReplies

(* Mutant: a boundary keeps the generation. *)
SameGeneration(g) == g

NextGeneration(g) == IF g = MaxGeneration THEN 1 ELSE g + 1

(* Times are kept as what is compared with them: "never" is zero, "due" and *)
(* "stale" that the retry interval or RGI_STALE_REARM_MS has passed since.  *)
Retry ==
  [generation : Generations, attempts : 0..FastAttempts,
   last_5200 : {"never", "recent", "due"},
   last_rgi : {"never", "recent", "stale"},
   got_520x : BOOLEAN, need_5200 : BOOLEAN, ctx : Contexts \cup {NoContext},
   enabled : BOOLEAN, thread_running : BOOLEAN,
   soft_generation : Generations \cup {0}]

Epoch(g) ==
  [generation |-> g, attempts |-> 0, last_5200 |-> "never",
   last_rgi |-> "never", got_520x |-> FALSE, need_5200 |-> FALSE,
   ctx |-> NoContext, enabled |-> FALSE, thread_running |-> FALSE,
   soft_generation |-> 0]

Reply   == [active : BOOLEAN, rcvid : Rcvids, ctx : Contexts,
            generation : Generations]
NoReply == [active |-> FALSE]

Call == [pc : {"reset", "clear", "rearm", "trigger", "track", "stock",
               "replied", "begin", "spawn", "unspawned", "send", "sending",
               "after", "claim", "close"},
         msg : {"1d00", "2700", "close"}, ctx : Contexts, rcvid : Rcvids,
         generation : Generations,   \* of the trigger or the reply's slot
         created : Generations,      \* of the worker it creates
         sends_in : Contexts,        \* the context it sends 0x5200 in
         deferred : BOOLEAN]         \* it sends after the stock handler
NoCall == [pc |-> "idle"]

Init ==
  /\ retry = Epoch(1)
  /\ pending = [i \in Replies |-> NoReply]
  /\ send_lock = NoThread
  /\ call = [t \in Threads |-> NoCall]
  /\ workers = [g \in Generations |-> 0]
  /\ fresh = {}
  /\ stimuli = 0

Stimulus == stimuli < MaxStimuli /\ stimuli' = stimuli + 1

At(t, pc) == call[t].pc = pc
Goes(t, pc) == call' = [call EXCEPT ![t].pc = pc]
Ends(t) == call' = [call EXCEPT ![t] = NoCall]

(* A client is blocked until the real MsgReply; then its id is free again, *)
(* although the thread that replied has not left the handler yet.          *)
Taken(r) ==
  \E t \in Threads :
    /\ call[t] # NoCall /\ call[t].rcvid = r
    /\ call[t].pc \in {"reset", "clear", "rearm", "trigger", "track", "stock"}
       \/ ~EagerClients

-----------------------------------------------------------------------------
(* wrapped_iap2_msg and wrapped_iap2_close are entered.                    *)

Arrives(t, r, c, msg, pc) ==
  /\ call[t] = NoCall
  /\ ~Taken(r)
  /\ call' = [call EXCEPT ![t] =
                [pc |-> pc, msg |-> msg, ctx |-> c, rcvid |-> r,
                 generation |-> 1, created |-> 1,
                 sends_in |-> c, deferred |-> FALSE]]
  /\ UNCHANGED <<retry, pending, send_lock, workers, fresh>>

StartIdentification(t, r, c) == Stimulus /\ Arrives(t, r, c, "1d00", "reset")
GpsInfo(t, r, c) == Arrives(t, r, c, "2700", "rearm") /\ UNCHANGED stimuli
OcbClose(t, r, c) == Stimulus /\ Arrives(t, r, c, "close", "close")

-----------------------------------------------------------------------------
(* reset_rgi_for_identification, under send_lock.                          *)

Reset(t) ==
  /\ At(t, "reset") /\ send_lock = NoThread
  /\ send_lock' = t
  /\ retry' = Epoch(NextGeneration(retry.generation))
  /\ fresh' = {}
  /\ Goes(t, "clear")
  /\ UNCHANGED <<pending, workers, stimuli>>

ClearReplies(t) ==
  /\ At(t, "clear")
  /\ pending' = [i \in Replies |-> NoReply]
  /\ send_lock' = NoThread
  /\ Goes(t, "stock")
  /\ UNCHANGED <<retry, workers, fresh, stimuli>>

(* The OCB close keeps sends out, and changes nothing of ours. *)
Close(t) ==
  /\ At(t, "close")
  /\ \/ send_lock = NoThread /\ send_lock' = t /\ UNCHANGED call
     \/ send_lock = t /\ send_lock' = NoThread /\ Ends(t)
  /\ UNCHANGED <<retry, pending, workers, fresh, stimuli>>

-----------------------------------------------------------------------------
(* 0x2700 before the stock handler.                                        *)

(* Mutant: a new epoch that keeps the count of attempts. *)
RearmedCounting(g) == [Epoch(g) EXCEPT !.soft_generation = g,
                                       !.attempts = retry.attempts]

Rearmed(g) == [Epoch(g) EXCEPT !.soft_generation = g]

(* Mutant: the comparison with the time limit is the wrong way round. *)
RearmIfRecent(t) ==
  /\ At(t, "rearm")
  /\ IF retry.got_520x /\ ~retry.enabled /\ retry.last_rgi = "recent"
     THEN /\ retry' = Rearmed(NextGeneration(retry.generation))
          /\ fresh' = {}
     ELSE UNCHANGED <<retry, fresh>>
  /\ Goes(t, "trigger")
  /\ UNCHANGED <<pending, send_lock, workers, stimuli>>

(* Route guidance was active and has been silent: a new epoch. *)
RearmIfStale(t) ==
  /\ At(t, "rearm")
  /\ IF retry.got_520x /\ ~retry.enabled /\ retry.last_rgi = "stale"
     THEN /\ retry' = Rearmed(NextGeneration(retry.generation))
          /\ fresh' = {}
     ELSE UNCHANGED <<retry, fresh>>
  /\ Goes(t, "trigger")
  /\ UNCHANGED <<pending, send_lock, workers, stimuli>>

NeedsTrigger ==
  ~retry.got_520x /\ ~retry.enabled /\ retry.attempts = 0

TakeTrigger(t) ==
  /\ At(t, "trigger")
  /\ IF NeedsTrigger
     THEN /\ call' = [call EXCEPT ![t].pc = "track",
                                  ![t].generation = retry.generation]
          /\ fresh' = fresh \cup {t}
     ELSE Goes(t, "stock") /\ UNCHANGED fresh
  /\ UNCHANGED <<retry, pending, send_lock, workers, stimuli>>

(* The first slot that is free, or that has this client's reply. *)
SlotFor(r) ==
  {i \in Replies :
     /\ ~pending[i].active \/ pending[i].rcvid = r
     /\ \A j \in Replies : j < i => pending[j].active /\ pending[j].rcvid # r}

ReplySlot(c) == [active |-> TRUE, rcvid |-> c.rcvid, ctx |-> c.ctx,
                 generation |-> c.generation]

Track(t) ==
  /\ At(t, "track")
  /\ pending' = [i \in Replies |->
                  IF i \in SlotFor(call[t].rcvid)
                  THEN ReplySlot(call[t]) ELSE pending[i]]
  /\ Goes(t, "stock")
  /\ UNCHANGED <<retry, send_lock, workers, fresh, stimuli>>

-----------------------------------------------------------------------------
(* The stock handler, and the MsgReply it makes.                           *)

RealReply(t) ==
  /\ At(t, "stock")
  /\ Goes(t, "replied")
  /\ UNCHANGED <<retry, pending, send_lock, workers, fresh, stimuli>>

(* The handler returns and leaves the reply to someone else. *)
NoRealReply(t) ==
  /\ Faulty
  /\ At(t, "stock")
  /\ Goes(t, "after")
  /\ UNCHANGED <<retry, pending, send_lock, workers, fresh, stimuli>>

(* The client may be back with a new message by now.                       *)
TakeReply(t) ==
  /\ At(t, "replied")
  /\ LET own == {i \in Replies : /\ pending[i].active
                                 /\ pending[i].rcvid = call[t].rcvid}
     IN  IF own = {} THEN Goes(t, "after") /\ UNCHANGED pending
         ELSE LET i == CHOOSE i \in own : \A j \in own : i <= j
              IN  /\ pending' = [pending EXCEPT ![i] = NoReply]
                  /\ call' = [call EXCEPT ![t].pc = "begin",
                                ![t].sends_in = pending[i].ctx,
                                ![t].generation = pending[i].generation]
  /\ UNCHANGED <<retry, send_lock, workers, fresh, stimuli>>

(* Mutant: the epoch of the reply is ignored. *)
MayBeginAnyEpoch(c) == NeedsTrigger

MayBegin(c) == c.generation = retry.generation /\ NeedsTrigger

Begun(c) ==
  [retry EXCEPT !.ctx = c, !.enabled = TRUE, !.need_5200 = FALSE,
                !.attempts = 1, !.last_5200 = "recent",
                !.thread_running = TRUE]

(* retry_begin *)
Begin(t) ==
  /\ At(t, "begin")
  /\ IF MayBegin(call[t])
     THEN /\ retry' = Begun(call[t].sends_in)
          /\ call' = [call EXCEPT
                        ![t].pc = IF retry.thread_running THEN "send"
                                                          ELSE "spawn",
                        ![t].created = retry.generation]
     ELSE Goes(t, "after") /\ UNCHANGED retry
  /\ UNCHANGED <<pending, send_lock, workers, fresh, stimuli>>

Spawn(t) ==
  /\ At(t, "spawn")
  /\ \/ /\ workers' = [workers EXCEPT ![call[t].created] = @ + 1]
        /\ Goes(t, "send")
     \/ /\ Faulty
        /\ Goes(t, "unspawned")
        /\ UNCHANGED workers
  /\ UNCHANGED <<retry, pending, send_lock, fresh, stimuli>>

SpawnFailed(t) ==
  /\ At(t, "unspawned")
  /\ retry' = IF call[t].created = retry.generation
              THEN [retry EXCEPT !.thread_running = FALSE] ELSE retry
  /\ Goes(t, "send")
  /\ UNCHANGED <<pending, send_lock, workers, fresh, stimuli>>

-----------------------------------------------------------------------------
(* 0x2700 after the stock handler: forget the reply, claim a due retry.    *)

After(t) ==
  /\ At(t, "after")
  /\ IF call[t].msg = "2700"
     THEN /\ pending' = [i \in Replies |->
                          IF pending[i].active
                             /\ pending[i].rcvid = call[t].rcvid
                          THEN NoReply ELSE pending[i]]
          /\ Goes(t, "claim")
     ELSE Ends(t) /\ UNCHANGED pending
  /\ UNCHANGED <<retry, send_lock, workers, fresh, stimuli>>

(* Mutant: a retry that is not counted. *)
ClaimUncounted(t) ==
  /\ At(t, "claim")
  /\ IF /\ retry.enabled /\ ~retry.got_520x /\ retry.need_5200
        /\ retry.ctx = call[t].ctx
     THEN /\ retry' = [retry EXCEPT !.need_5200 = FALSE, !.last_5200 = "recent"]
          /\ call' = [call EXCEPT ![t].pc = "send", ![t].deferred = TRUE,
                                  ![t].sends_in = call[t].ctx]
     ELSE Ends(t) /\ UNCHANGED retry
  /\ UNCHANGED <<pending, send_lock, workers, fresh, stimuli>>

(* retry_claim_pending *)
Claim(t) ==
  /\ At(t, "claim")
  /\ IF /\ retry.enabled /\ ~retry.got_520x /\ retry.need_5200
        /\ retry.ctx = call[t].ctx
     THEN /\ retry' = [retry EXCEPT
                         !.need_5200 = FALSE, !.last_5200 = "recent",
                         !.attempts = IF @ < FastAttempts THEN @ + 1 ELSE @]
          /\ call' = [call EXCEPT ![t].pc = "send", ![t].deferred = TRUE,
                                  ![t].sends_in = call[t].ctx]
     ELSE Ends(t) /\ UNCHANGED retry
  /\ UNCHANGED <<pending, send_lock, workers, fresh, stimuli>>

-----------------------------------------------------------------------------
(* k2161_send_start_route_guidance, under send_lock: within MsgReply, with *)
(* the stock handler still to return, or deferred, after it.               *)

Leaves(t) == IF call[t].deferred THEN Ends(t) ELSE Goes(t, "after")

Send(t) ==
  /\ At(t, "send") /\ send_lock = NoThread
  /\ IF retry.enabled /\ retry.ctx = call[t].sends_in
     THEN Goes(t, "sending") /\ send_lock' = t
     ELSE Leaves(t) /\ UNCHANGED send_lock
  /\ UNCHANGED <<retry, pending, workers, fresh, stimuli>>

(* The packet is sent, or the pool is empty or the link refuses it; either *)
(* way the attempt counts.                                                 *)
Sent(t) ==
  /\ At(t, "sending")
  /\ Leaves(t)
  /\ send_lock' = NoThread
  /\ UNCHANGED <<retry, pending, workers, fresh, stimuli>>

-----------------------------------------------------------------------------
(* retry_worker of generation g, one round.                                *)

WorkerLeaves(g) == workers' = [workers EXCEPT ![g] = @ - 1]

(* Mutant: a worker does not look at the generation. *)
OutdatedNever(g) == FALSE

Outdated(g) == g # retry.generation

WorkerRound(g) ==
  /\ workers[g] > 0
  /\ IF Outdated(g)
     THEN WorkerLeaves(g) /\ UNCHANGED retry
     ELSE IF ~retry.enabled \/ retry.ctx = NoContext
     THEN WorkerLeaves(g) /\ retry' = [retry EXCEPT !.thread_running = FALSE]
     ELSE IF retry.got_520x
     THEN /\ WorkerLeaves(g)
          /\ retry' = [retry EXCEPT !.enabled = FALSE, !.need_5200 = FALSE,
                                    !.ctx = NoContext,
                                    !.thread_running = FALSE]
     ELSE /\ ~retry.need_5200 /\ retry.last_5200 = "due"
          /\ retry' = [retry EXCEPT !.need_5200 = TRUE]
          /\ UNCHANGED workers
  /\ UNCHANGED <<pending, send_lock, call, fresh, stimuli>>

(* k2161_send_note_rgi_rx: 0x5201, 0x5202 or 0x5204 from the phone. *)
NoteRgiRx ==
  /\ Stimulus
  /\ retry' = IF retry.got_520x THEN [retry EXCEPT !.last_rgi = "recent"]
              ELSE [retry EXCEPT
                      !.last_rgi = "recent", !.got_520x = TRUE,
                      !.need_5200 = FALSE, !.enabled = FALSE,
                      !.ctx = NoContext, !.last_5200 = "recent",
                      !.soft_generation =
                         IF @ = retry.generation THEN 0 ELSE @]
  /\ UNCHANGED <<pending, send_lock, call, workers, fresh>>

(* The clock. *)
RetryFallsDue ==
  /\ retry.last_5200 = "recent"
  /\ retry' = [retry EXCEPT !.last_5200 = "due"]
  /\ UNCHANGED <<pending, send_lock, call, workers, fresh, stimuli>>

RgiFallsSilent ==
  /\ retry.last_rgi = "recent"
  /\ retry' = [retry EXCEPT !.last_rgi = "stale"]
  /\ UNCHANGED <<pending, send_lock, call, workers, fresh, stimuli>>

-----------------------------------------------------------------------------
Handles(t) ==
  \/ Reset(t) \/ ClearReplies(t) \/ Close(t)
  \/ RearmIfStale(t) \/ TakeTrigger(t) \/ Track(t)
  \/ TakeReply(t) \/ Begin(t) \/ Spawn(t) \/ SpawnFailed(t)
  \/ After(t) \/ Claim(t) \/ Send(t) \/ Sent(t)

Next ==
  \/ \E t \in Threads, r \in Rcvids, c \in Contexts :
       StartIdentification(t, r, c) \/ GpsInfo(t, r, c) \/ OcbClose(t, r, c)
  \/ \E t \in Threads : Handles(t) \/ RealReply(t) \/ NoRealReply(t)
  \/ \E g \in Generations : WorkerRound(g)
  \/ NoteRgiRx \/ RetryFallsDue \/ RgiFallsSilent

Spec == Init /\ [][Next]_vars

(* A thread in one of our functions leaves it, the stock handler replies,  *)
(* workers keep ticking, the retry interval passes.                        *)
Fairness ==
  /\ \A t \in Threads : WF_vars(Handles(t)) /\ SF_vars(RealReply(t))
  /\ \A g \in Generations : WF_vars(WorkerRound(g))
  /\ WF_vars(RetryFallsDue)

(* And the phone keeps sending its position. *)
GpsSpec ==
  /\ Spec /\ Fairness
  /\ WF_vars(\E t \in Threads, r \in Rcvids, c \in Contexts : GpsInfo(t, r, c))

-----------------------------------------------------------------------------
(* Every variable stays in its type; an active reply slot is a Reply.      *)
TypeOK ==
  /\ retry \in Retry
  /\ pending \in [Replies -> Reply \cup {NoReply}]
  /\ send_lock \in Threads \cup {NoThread}
  /\ call \in [Threads -> Call \cup {NoCall}]
  /\ workers \in [Generations -> Nat]
  /\ fresh \in SUBSET Threads
  /\ stimuli \in 0..MaxStimuli

(* retry_thread_running tells exactly whether the epoch has its one worker *)
(* (or one about to be created): none is lost, and old workers of earlier  *)
(* epochs, whenever they wake up, are neither counted nor heeded.          *)
Creating(g) == {t \in Threads : call[t].pc \in {"spawn", "unspawned"}
                                /\ call[t].created = g}

WorkerAccounted ==
  LET g == retry.generation
  IN  IF retry.thread_running
      THEN \/ workers[g] = 1 /\ Creating(g) = {}
           \/ workers[g] = 0 /\ \E t \in Threads : Creating(g) = {t}
      ELSE workers[g] = 0 /\ Creating(g) = {}

(* There is always a way on: an epoch is answered and can be re-armed, is  *)
(* being asked for in some context, or waits for a trigger.  No mix of     *)
(* resets, answers, workers and claims leaves it between these.            *)
NeverStuck ==
  \/ /\ retry.got_520x /\ ~retry.enabled
     /\ retry.last_rgi # "never" /\ ~retry.need_5200
  \/ /\ retry.enabled /\ ~retry.got_520x
     /\ retry.ctx # NoContext /\ retry.attempts > 0
     /\ retry.last_5200 # "never"
  \/ NeedsTrigger /\ ~retry.need_5200 /\ retry.ctx = NoContext

(* Whatever resets, answers, workers and claims come together, the epoch   *)
(* has a way on and the one worker it is to have.                          *)
EpochAccounted == WorkerAccounted /\ NeverStuck

(* An epoch is begun only by the reply to a 0x2700 that was taken for its  *)
(* trigger since the last boundary: a delayed reply of an old epoch, or a  *)
(* slot filled across the boundary, does not begin a new one.              *)
FreshTriggerBegins ==
  [][~retry.enabled /\ retry'.enabled
     => \E t \in fresh : At(t, "begin") /\ ~At(t, "begin")']_vars

(* Old workers, replies and claims never take an epoch backwards, and      *)
(* nothing but the phone's answer ends the asking in it.                   *)
Advances ==
  retry'.generation = retry.generation
  => /\ retry'.attempts >= retry.attempts
     /\ retry.got_520x => retry'.got_520x
     /\ retry.enabled /\ ~retry'.enabled => retry'.got_520x
     /\ retry.enabled /\ retry'.enabled => retry'.ctx = retry.ctx

EpochAdvances == [][Advances]_vars

(* When route guidance was active and has fallen silent, it is asked for   *)
(* again, as long as the phone sends positions.                            *)
SilenceAsksAgain ==
  (retry.got_520x /\ retry.last_rgi = "stale")
  ~> (retry.enabled \/ retry.last_rgi = "recent")

(* A request that is not answered is repeated, as long as positions come   *)
(* in its context and the retry thread could be created.                   *)
UnansweredAsksAgain ==
  \A c \in Contexts :
    []<><<\E t \in Threads, r \in Rcvids : GpsInfo(t, r, c)>>_vars
    => ((retry.enabled /\ retry.attempts = 1 /\ retry.ctx = c)
        ~> (retry.attempts = 2 \/ ~retry.enabled \/ ~retry.thread_running))

(* Route guidance that is silent, or was never heard, is asked for again.  *)
AsksAgain == SilenceAsksAgain /\ UnansweredAsksAgain
=============================================================================
