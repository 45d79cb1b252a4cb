-------------------------- MODULE RgiSenderProofs --------------------------
(***************************************************************************)
(* Theorems about RgiSender, for any threads, clients, contexts and bounds *)
(* that SenderAssumption allows.                                           *)
(***************************************************************************)
EXTENDS RgiSender, FiniteSetTheorems, TLAPS, WellFoundedInduction

(* A boundary always changes the generation, also where it wraps.          *)
LEMMA NextGenerationDiffers ==
  ASSUME NEW g \in Generations
  PROVE  NextGeneration(g) \in Generations /\ NextGeneration(g) # g
<1>1. MaxGeneration \in Nat /\ MaxGeneration > 1
  BY SenderAssumption
<1> QED BY <1>1 DEF Generations, NextGeneration

LEMMA EpochType ==
  ASSUME NEW g \in Generations
  PROVE  Epoch(g) \in Retry /\ Rearmed(g) \in Retry
<1>1. 0 \in 0..FastAttempts
  BY SenderAssumption
<1>2. Epoch(g) \in Retry
  BY <1>1 DEF Epoch, Retry
<1>3. Rearmed(g) \in Retry
  BY <1>1 DEF Rearmed, Epoch, Retry
<1> QED BY <1>2, <1>3

-----------------------------------------------------------------------------
(* Of a non-empty set of reply slots one is the first.                     *)
LEMMA FirstReply ==
  ASSUME NEW S \in SUBSET Replies, S # {}
  PROVE  (CHOOSE i \in S : \A j \in S : i <= j) \in S
<1> DEFINE Less == {ss \in Nat \X Nat : ss[1] < ss[2]}
<1>1. IsWellFoundedOn(Less, Nat)
  <2>1. Less = OpToRel(<, Nat)
    BY DEF OpToRel
  <2> QED BY <2>1, NatLessThanWellFounded, Zenon
<1>2. \A i, j \in Nat : <<j, i>> \notin Less => i <= j
  OBVIOUS
<1>3. S \in SUBSET Nat
  BY SenderAssumption DEF Replies
<1> HIDE DEF Less
<1>4. \E i \in S : \A j \in S : <<j, i>> \notin Less
  BY <1>1, <1>3, WFMin
<1>5. \E i \in S : \A j \in S : i <= j
  BY <1>2, <1>3, <1>4
<1> QED BY <1>5

-----------------------------------------------------------------------------
(* What the actions make of the calls.                                     *)

CallsOK == call \in [Threads -> Call \cup {NoCall}]

LEMMA GoesType ==
  ASSUME CallsOK, NEW t \in Threads, call[t] # NoCall,
         NEW pc \in {"clear", "trigger", "track", "stock", "replied", "begin",
                     "spawn", "unspawned", "send", "sending", "after",
                     "claim"},
         Goes(t, pc)
  PROVE  CallsOK'
<1>1. [call[t] EXCEPT !.pc = pc] \in Call
  BY DEF CallsOK, Call
<1> QED BY <1>1 DEF Goes, CallsOK

LEMMA EndsType ==
  ASSUME CallsOK, NEW t \in Threads, Ends(t)
  PROVE  CallsOK'
BY DEF Ends, CallsOK

LEMMA LeavesType ==
  ASSUME CallsOK, NEW t \in Threads, call[t] # NoCall, Leaves(t)
  PROVE  CallsOK'
<1>1. CASE call[t].deferred
  BY <1>1, EndsType DEF Leaves
<1>2. CASE ~call[t].deferred
  BY <1>2, GoesType DEF Leaves
<1> QED BY <1>1, <1>2

LEMMA ArrivesType ==
  ASSUME CallsOK, NEW t \in Threads, NEW r \in Rcvids, NEW c \in Contexts,
         NEW msg \in {"1d00", "2700", "close"},
         NEW pc \in {"reset", "rearm", "close"}, Arrives(t, r, c, msg, pc)
  PROVE  CallsOK'
<1>1. 1 \in Generations
  BY SenderAssumption DEF Generations
<1>2. [pc |-> pc, msg |-> msg, ctx |-> c, rcvid |-> r, generation |-> 1,
       created |-> 1, sends_in |-> c, deferred |-> FALSE] \in Call
  BY <1>1 DEF Call
<1> QED BY <1>2 DEF Arrives, CallsOK

-----------------------------------------------------------------------------
(* What the actions make of the epoch.                                     *)

LEMMA RetryUpdates ==
  ASSUME NEW e \in Retry
  PROVE  /\ [e EXCEPT !.thread_running = FALSE] \in Retry
         /\ [e EXCEPT !.need_5200 = TRUE] \in Retry
         /\ [e EXCEPT !.enabled = FALSE, !.need_5200 = FALSE,
                      !.ctx = NoContext, !.thread_running = FALSE] \in Retry
         /\ [e EXCEPT !.last_5200 = "due"] \in Retry
         /\ \A x \in {"recent", "stale"} : [e EXCEPT !.last_rgi = x] \in Retry
         /\ \A n \in 0..FastAttempts :
              [e EXCEPT !.need_5200 = FALSE, !.last_5200 = "recent",
                        !.attempts = n] \in Retry
         /\ \A n \in Generations \cup {0} :
              [e EXCEPT !.last_rgi = "recent", !.got_520x = TRUE,
                        !.need_5200 = FALSE, !.enabled = FALSE,
                        !.ctx = NoContext, !.last_5200 = "recent",
                        !.soft_generation = n] \in Retry
BY DEF Retry

LEMMA BegunType ==
  ASSUME retry \in Retry, NEW c \in Contexts
  PROVE  Begun(c) \in Retry
<1>1. 1 \in 0..FastAttempts
  BY SenderAssumption
<1> QED BY <1>1 DEF Begun, Retry

LEMMA InitType == Init => TypeOK
<1> SUFFICES ASSUME Init PROVE TypeOK
  OBVIOUS
<1>1. 1 \in Generations /\ MaxStimuli \in Nat
  BY SenderAssumption DEF Generations
<1>2. retry \in Retry
  BY <1>1, EpochType DEF Init
<1> QED BY <1>1, <1>2 DEF Init, TypeOK

LEMMA TypeStep ==
  ASSUME TypeOK, [Next]_vars
  PROVE  TypeOK'
<1>a. retry \in Retry /\ CallsOK
  BY DEF TypeOK, CallsOK
<1>b. \A t \in Threads : call[t] # NoCall => call[t] \in Call
  BY DEF TypeOK
<1>c. \A t \in Threads : \A pc : At(t, pc) /\ pc # "idle" => call[t] # NoCall
  BY DEF At, NoCall
<1>d. MaxStimuli \in Nat /\ stimuli \in 0..MaxStimuli
  BY SenderAssumption DEF TypeOK
<1>e. Stimulus => stimuli' \in 0..MaxStimuli
  BY <1>d DEF Stimulus
<1>f. NextGeneration(retry.generation) \in Generations
  BY <1>a, NextGenerationDiffers DEF Retry
<1>1. CASE UNCHANGED vars
  BY <1>1 DEF vars, TypeOK
<1>2. ASSUME NEW t \in Threads, NEW r \in Rcvids, NEW c \in Contexts,
             StartIdentification(t, r, c) \/ GpsInfo(t, r, c)
             \/ OcbClose(t, r, c)
      PROVE  TypeOK'
  <2>1. CallsOK'
    BY <1>2, <1>a, ArrivesType DEF StartIdentification, GpsInfo, OcbClose
  <2> QED BY <1>2, <2>1, <1>e
          DEF StartIdentification, GpsInfo, OcbClose, Arrives, TypeOK, CallsOK
<1>3. ASSUME NEW t \in Threads, Reset(t) PROVE TypeOK'
  <2>1. CallsOK'
    BY <1>3, <1>a, <1>c, GoesType DEF Reset
  <2> QED BY <1>3, <1>f, <2>1, EpochType DEF Reset, TypeOK, CallsOK
<1>4. ASSUME NEW t \in Threads, ClearReplies(t) PROVE TypeOK'
  <2>1. CallsOK'
    BY <1>4, <1>a, <1>c, GoesType DEF ClearReplies
  <2> QED BY <1>4, <2>1 DEF ClearReplies, TypeOK, CallsOK
<1>5. ASSUME NEW t \in Threads, Close(t) PROVE TypeOK'
  <2>1. CallsOK'
    BY <1>5, <1>a, EndsType DEF Close, CallsOK
  <2> QED BY <1>5, <2>1 DEF Close, TypeOK, CallsOK
<1>6. ASSUME NEW t \in Threads, RearmIfStale(t) PROVE TypeOK'
  <2>1. CallsOK'
    BY <1>6, <1>a, <1>c, GoesType DEF RearmIfStale
  <2>2. retry' \in Retry
    BY <1>6, <1>a, <1>f, EpochType DEF RearmIfStale
  <2> QED BY <1>6, <2>1, <2>2 DEF RearmIfStale, TypeOK, CallsOK
<1>7. ASSUME NEW t \in Threads, TakeTrigger(t) PROVE TypeOK'
  <2>1. CASE NeedsTrigger
    <3>1. [call[t] EXCEPT !.pc = "track", !.generation = retry.generation]
            \in Call
      BY <1>7, <1>a, <1>b, <1>c DEF TakeTrigger, Call, Retry
    <3>2. CallsOK'
      BY <1>7, <1>a, <2>1, <3>1 DEF TakeTrigger, CallsOK
    <3> QED BY <1>7, <2>1, <3>2 DEF TakeTrigger, TypeOK, CallsOK
  <2>2. CASE ~NeedsTrigger
    <3>1. CallsOK'
      BY <1>7, <1>a, <1>c, <2>2, GoesType DEF TakeTrigger
    <3> QED BY <1>7, <2>2, <3>1 DEF TakeTrigger, TypeOK, CallsOK
  <2> QED BY <2>1, <2>2
<1>8. ASSUME NEW t \in Threads, Track(t) PROVE TypeOK'
  <2>1. CallsOK'
    BY <1>8, <1>a, <1>c, GoesType DEF Track
  <2>2. ReplySlot(call[t]) \in Reply
    BY <1>8, <1>b, <1>c DEF Track, ReplySlot, Reply, Call
  <2>3. pending' \in [Replies -> Reply \cup {NoReply}]
    BY <1>8, <2>2 DEF Track, TypeOK
  <2> QED BY <1>8, <2>1, <2>3 DEF Track, TypeOK, CallsOK
<1>9. ASSUME NEW t \in Threads, RealReply(t) \/ NoRealReply(t) PROVE TypeOK'
  <2>1. CallsOK'
    BY <1>9, <1>a, <1>c, GoesType DEF RealReply, NoRealReply
  <2> QED BY <1>9, <2>1 DEF RealReply, NoRealReply, TypeOK, CallsOK
<1>10. ASSUME NEW t \in Threads, TakeReply(t) PROVE TypeOK'
  <2> DEFINE own == {i \in Replies : /\ pending[i].active
                                     /\ pending[i].rcvid = call[t].rcvid}
             i == CHOOSE i \in own : \A j \in own : i <= j
  <2>1. CASE own = {}
    <3>1. CallsOK'
      BY <1>10, <1>a, <1>c, <2>1, GoesType DEF TakeReply
    <3> QED BY <1>10, <2>1, <3>1 DEF TakeReply, TypeOK, CallsOK
  <2>2. CASE own # {}
    <3>1. i \in own
      BY <2>2, FirstReply
    <3>2. pending[i] \in Reply
      BY <3>1 DEF TypeOK, NoReply
    <3>3. [call[t] EXCEPT !.pc = "begin", !.sends_in = pending[i].ctx,
                          !.generation = pending[i].generation] \in Call
      <4>1. call[t] \in Call
        BY <1>10, <1>b, <1>c DEF TakeReply
      <4>2. \A c \in Call, p \in Reply :
              [c EXCEPT !.pc = "begin", !.sends_in = p.ctx,
                        !.generation = p.generation] \in Call
        BY DEF Call, Reply
      <4> QED BY <3>2, <4>1, <4>2
    <3>4. /\ pending' = [pending EXCEPT ![i] = NoReply]
          /\ call' = [call EXCEPT ![t].pc = "begin", ![t].sends_in = pending[i].ctx,
                                  ![t].generation = pending[i].generation]
      BY <1>10, <2>2 DEF TakeReply
    <3>5. CallsOK'
      BY <1>a, <3>3, <3>4 DEF CallsOK
    <3>6. pending' \in [Replies -> Reply \cup {NoReply}]
      BY <3>4 DEF TypeOK
    <3> QED BY <1>10, <3>5, <3>6 DEF TakeReply, TypeOK, CallsOK
  <2> QED BY <2>1, <2>2
<1>11. ASSUME NEW t \in Threads, Begin(t) PROVE TypeOK'
  <2>1. CASE MayBegin(call[t])
    <3>1. call[t] \in Call
      BY <1>11, <1>b, <1>c DEF Begin
    <3>2. Begun(call[t].sends_in) \in Retry
      BY <1>a, <3>1, BegunType DEF Call
    <3>3. \A pc \in {"send", "spawn"} :
            [call[t] EXCEPT !.pc = pc, !.created = retry.generation] \in Call
      BY <1>a, <3>1 DEF Call, Retry
    <3>4. CallsOK'
      BY <1>11, <1>a, <2>1, <3>3 DEF Begin, CallsOK
    <3> QED BY <1>11, <2>1, <3>2, <3>4 DEF Begin, TypeOK, CallsOK
  <2>2. CASE ~MayBegin(call[t])
    <3>1. CallsOK'
      BY <1>11, <1>a, <1>c, <2>2, GoesType DEF Begin
    <3> QED BY <1>11, <2>2, <3>1 DEF Begin, TypeOK, CallsOK
  <2> QED BY <2>1, <2>2
<1>12. ASSUME NEW t \in Threads, Spawn(t) PROVE TypeOK'
  <2>1. CallsOK'
    BY <1>12, <1>a, <1>c, GoesType DEF Spawn
  <2>2. workers' \in [Generations -> Nat]
    BY <1>12 DEF Spawn, TypeOK
  <2> QED BY <1>12, <2>1, <2>2 DEF Spawn, TypeOK, CallsOK
<1>13. ASSUME NEW t \in Threads, SpawnFailed(t) PROVE TypeOK'
  <2>1. CallsOK'
    BY <1>13, <1>a, <1>c, GoesType DEF SpawnFailed
  <2>2. retry' \in Retry
    BY <1>13, <1>a, RetryUpdates DEF SpawnFailed
  <2> QED BY <1>13, <2>1, <2>2 DEF SpawnFailed, TypeOK, CallsOK
<1>14. ASSUME NEW t \in Threads, After(t) PROVE TypeOK'
  <2>1. CallsOK'
    BY <1>14, <1>a, <1>c, GoesType, EndsType DEF After
  <2>2. pending' \in [Replies -> Reply \cup {NoReply}]
    BY <1>14 DEF After, TypeOK
  <2> QED BY <1>14, <2>1, <2>2 DEF After, TypeOK, CallsOK
<1>15. ASSUME NEW t \in Threads, Claim(t) PROVE TypeOK'
  <2>1. [call[t] EXCEPT !.pc = "send", !.deferred = TRUE,
                         !.sends_in = call[t].ctx] \in Call
    BY <1>15, <1>b, <1>c DEF Claim, Call
  <2>2. CallsOK'
    BY <1>15, <1>a, <2>1, EndsType DEF Claim, CallsOK
  <2>3. retry' \in Retry
    <3> DEFINE n == IF retry.attempts < FastAttempts THEN retry.attempts + 1
                                                     ELSE retry.attempts
    <3>1. retry.attempts \in 0..FastAttempts /\ FastAttempts \in Nat
      BY <1>a, SenderAssumption DEF Retry
    <3>2. n \in 0..FastAttempts
      BY <3>1
    <3>3. retry' = retry
          \/ retry' = [retry EXCEPT !.need_5200 = FALSE,
                                    !.last_5200 = "recent", !.attempts = n]
      BY <1>15 DEF Claim
    <3> HIDE DEF n
    <3> QED BY <1>a, <3>2, <3>3, RetryUpdates
  <2> QED BY <1>15, <2>2, <2>3 DEF Claim, TypeOK, CallsOK
<1>16. ASSUME NEW t \in Threads, Send(t) PROVE TypeOK'
  <2>1. CallsOK'
    BY <1>16, <1>a, <1>c, GoesType, LeavesType DEF Send
  <2> QED BY <1>16, <2>1 DEF Send, TypeOK, CallsOK
<1>17. ASSUME NEW t \in Threads, Sent(t) PROVE TypeOK'
  <2>1. CallsOK'
    BY <1>17, <1>a, <1>c, LeavesType DEF Sent
  <2> QED BY <1>17, <2>1 DEF Sent, TypeOK, CallsOK
<1>18. ASSUME NEW g \in Generations, WorkerRound(g) PROVE TypeOK'
  <2>1. retry' \in Retry
    BY <1>18, <1>a, RetryUpdates DEF WorkerRound
  <2>2. workers' \in [Generations -> Nat]
    BY <1>18 DEF WorkerRound, WorkerLeaves, TypeOK
  <2> QED BY <1>18, <2>1, <2>2 DEF WorkerRound, TypeOK
<1>19. CASE NoteRgiRx
  <2>1. retry' \in Retry
    <3>1. retry.soft_generation \in Generations \cup {0}
      BY <1>a DEF Retry
    <3> QED BY <1>19, <1>a, <3>1, RetryUpdates DEF NoteRgiRx
  <2> QED BY <1>19, <1>e, <2>1 DEF NoteRgiRx, TypeOK
<1>20. CASE RetryFallsDue \/ RgiFallsSilent
  <2>1. retry' \in Retry
    BY <1>20, <1>a, RetryUpdates DEF RetryFallsDue, RgiFallsSilent
  <2> QED BY <1>20, <2>1 DEF RetryFallsDue, RgiFallsSilent, TypeOK
<1> QED
  BY <1>1, <1>2, <1>3, <1>4, <1>5, <1>6, <1>7, <1>8, <1>9, <1>10, <1>11,
     <1>12, <1>13, <1>14, <1>15, <1>16, <1>17, <1>18, <1>19, <1>20
  DEF Next, Handles

(* Every variable of the sender keeps its type.                            *)
THEOREM TypeCorrect == Spec => []TypeOK
<1> QED BY InitType, TypeStep, PTL DEF Spec

-----------------------------------------------------------------------------
(* The epochs.  NeverStuck is kept by every step of a well-typed state.    *)

LEMMA StuckInit == Init => NeverStuck
BY DEF Init, NeverStuck, NeedsTrigger, Epoch

(* A new epoch waits for a trigger. *)
LEMMA BoundaryWaits ==
  ASSUME NEW g \in Generations, retry' = Epoch(g) \/ retry' = Rearmed(g)
  PROVE  NeverStuck' /\ retry'.generation = g
BY DEF NeverStuck, NeedsTrigger, Epoch, Rearmed

LEMMA StuckStep ==
  ASSUME TypeOK, NeverStuck, [Next]_vars
  PROVE  NeverStuck'
<1>a. retry \in Retry /\ FastAttempts \in Nat /\ retry.attempts \in Nat
  BY SenderAssumption DEF TypeOK, Retry
<1>b. NextGeneration(retry.generation) \in Generations
  BY <1>a, NextGenerationDiffers DEF Retry
<1>c. NoContext \notin Contexts
  BY SenderAssumption
<1>1. CASE UNCHANGED retry
  BY <1>1 DEF NeverStuck, NeedsTrigger
<1>2. ASSUME NEW t \in Threads, Reset(t) \/ RearmIfStale(t) PROVE NeverStuck'
  BY <1>1, <1>2, <1>b, BoundaryWaits DEF Reset, RearmIfStale
<1>3. ASSUME NEW t \in Threads, Begin(t) PROVE NeverStuck'
  <2>1. call[t].sends_in \in Contexts
    BY <1>3 DEF Begin, At, TypeOK, Call, NoCall
  <2>2. CASE retry' = Begun(call[t].sends_in) /\ NeedsTrigger
    BY <1>a, <1>c, <2>1, <2>2 DEF NeverStuck, NeedsTrigger, Begun, Retry
  <2> QED BY <1>1, <1>3, <2>2 DEF Begin, MayBegin
<1>4. ASSUME NEW t \in Threads, SpawnFailed(t) PROVE NeverStuck'
  BY <1>a, <1>1, <1>4 DEF SpawnFailed, NeverStuck, NeedsTrigger, Retry
<1>5. ASSUME NEW t \in Threads, Claim(t) PROVE NeverStuck'
  <2>1. CASE retry' # retry
    <3>1. retry.enabled /\ ~retry.got_520x /\ retry.need_5200
      BY <1>5, <2>1 DEF Claim
    <3>2. /\ retry.ctx # NoContext /\ retry.attempts > 0
      BY <3>1 DEF NeverStuck, NeedsTrigger
    <3>3. /\ retry'.enabled = retry.enabled
          /\ retry'.got_520x = retry.got_520x
          /\ retry'.ctx = retry.ctx /\ retry'.last_5200 = "recent"
          /\ retry'.attempts \in {retry.attempts, retry.attempts + 1}
      BY <1>a, <1>5, <2>1 DEF Claim, Retry
    <3> QED BY <1>a, <3>1, <3>2, <3>3 DEF NeverStuck
  <2> QED BY <1>1, <2>1
<1>6. ASSUME NEW g \in Generations, WorkerRound(g) PROVE NeverStuck'
  BY <1>a, <1>1, <1>6 DEF WorkerRound, NeverStuck, NeedsTrigger, Retry
<1>7. CASE NoteRgiRx
  BY <1>a, <1>7 DEF NoteRgiRx, NeverStuck, NeedsTrigger, Retry
<1>8. CASE RetryFallsDue \/ RgiFallsSilent
  BY <1>a, <1>8 DEF RetryFallsDue, RgiFallsSilent, NeverStuck, NeedsTrigger,
                    Retry
<1>9. ASSUME NEW t \in Threads,
             \/ ClearReplies(t) \/ Close(t) \/ TakeTrigger(t) \/ Track(t)
             \/ RealReply(t) \/ NoRealReply(t) \/ TakeReply(t) \/ Spawn(t)
             \/ After(t) \/ Send(t) \/ Sent(t)
      PROVE  NeverStuck'
  BY <1>1, <1>9 DEF ClearReplies, Close, TakeTrigger, Track, RealReply,
                    NoRealReply, TakeReply, Spawn, After, Send, Sent
<1>10. ASSUME NEW t \in Threads, NEW r \in Rcvids, NEW c \in Contexts,
              StartIdentification(t, r, c) \/ GpsInfo(t, r, c)
              \/ OcbClose(t, r, c)
       PROVE  NeverStuck'
  BY <1>1, <1>10 DEF StartIdentification, GpsInfo, OcbClose, Arrives
<1> QED
  BY <1>1, <1>2, <1>3, <1>4, <1>5, <1>6, <1>7, <1>8, <1>9, <1>10
  DEF Next, Handles, vars

(* However resets, answers, replies, workers and claims interleave, an     *)
(* epoch is answered, asked for, or open to a trigger.                     *)
THEOREM AlwaysAWayOn == Spec => []NeverStuck
<1>1. Init => TypeOK /\ NeverStuck
  BY InitType, StuckInit
<1>2. TypeOK /\ NeverStuck /\ [Next]_vars => TypeOK' /\ NeverStuck'
  BY TypeStep, StuckStep
<1> QED BY <1>1, <1>2, PTL DEF Spec

LEMMA AdvancesStep ==
  ASSUME TypeOK, NeverStuck, [Next]_vars
  PROVE  [Advances]_vars
<1> SUFFICES Advances
  OBVIOUS
<1>a. /\ retry \in Retry /\ retry.attempts \in 0..FastAttempts
      /\ FastAttempts \in Nat
  BY SenderAssumption DEF TypeOK, Retry
<1>b. NextGeneration(retry.generation) # retry.generation
  BY <1>a, NextGenerationDiffers DEF Retry
<1>1. CASE UNCHANGED retry
  BY <1>a, <1>1 DEF Advances
<1>2. ASSUME NEW t \in Threads, Reset(t) \/ RearmIfStale(t) PROVE Advances
  BY <1>1, <1>2, <1>b DEF Reset, RearmIfStale, Epoch, Rearmed, Advances
<1>3. ASSUME NEW t \in Threads, Begin(t) PROVE Advances
  <2>1. CASE NeedsTrigger /\ retry' = Begun(call[t].sends_in)
    <3>1. ~retry.got_520x /\ ~retry.enabled /\ retry.attempts = 0
      BY <2>1 DEF NeedsTrigger
    <3>2. retry'.attempts = 1
      BY <1>a, <2>1 DEF Begun, Retry
    <3> QED BY <3>1, <3>2 DEF Advances
  <2> QED BY <1>1, <1>3, <2>1 DEF Begin, MayBegin
<1>4. ASSUME NEW t \in Threads, SpawnFailed(t) PROVE Advances
  BY <1>a, <1>1, <1>4 DEF SpawnFailed, Retry, Advances
<1>5. ASSUME NEW t \in Threads, Claim(t) PROVE Advances
  <2>1. CASE retry' # retry
    <3>1. /\ retry'.enabled = retry.enabled
          /\ retry'.got_520x = retry.got_520x
          /\ retry'.ctx = retry.ctx
          /\ retry'.attempts \in {retry.attempts, retry.attempts + 1}
      BY <1>a, <1>5, <2>1 DEF Claim, Retry
    <3> QED BY <1>a, <3>1 DEF Advances
  <2> QED BY <1>1, <2>1
<1>6. ASSUME NEW g \in Generations, WorkerRound(g) PROVE Advances
  BY <1>a, <1>1, <1>6
  DEF WorkerRound, NeverStuck, NeedsTrigger, Retry, Advances
<1>7. CASE NoteRgiRx
  BY <1>a, <1>7 DEF NoteRgiRx, Retry, Advances
<1>8. CASE RetryFallsDue \/ RgiFallsSilent
  BY <1>a, <1>8 DEF RetryFallsDue, RgiFallsSilent, Retry, Advances
<1>9. ASSUME NEW t \in Threads,
             \/ ClearReplies(t) \/ Close(t) \/ TakeTrigger(t) \/ Track(t)
             \/ RealReply(t) \/ NoRealReply(t) \/ TakeReply(t) \/ Spawn(t)
             \/ After(t) \/ Send(t) \/ Sent(t)
      PROVE  Advances
  BY <1>1, <1>9 DEF ClearReplies, Close, TakeTrigger, Track, RealReply,
                    NoRealReply, TakeReply, Spawn, After, Send, Sent
<1>10. ASSUME NEW t \in Threads, NEW r \in Rcvids, NEW c \in Contexts,
              StartIdentification(t, r, c) \/ GpsInfo(t, r, c)
              \/ OcbClose(t, r, c)
       PROVE  Advances
  BY <1>1, <1>10 DEF StartIdentification, GpsInfo, OcbClose, Arrives
<1> QED
  BY <1>1, <1>2, <1>3, <1>4, <1>5, <1>6, <1>7, <1>8, <1>9, <1>10
  DEF Next, Handles, vars

(* Within an epoch attempts only grow, an answer stays, the context asked  *)
(* in stays, and only an answer ends the asking: no old worker, delayed    *)
(* reply or claim changes that.                                            *)
THEOREM EpochsAdvance == Spec => EpochAdvances
<1>1. TypeOK /\ NeverStuck /\ [Next]_vars => [Advances]_vars
  BY AdvancesStep
<1>2. Spec => []TypeOK
  BY TypeCorrect
<1>3. Spec => []NeverStuck
  BY AlwaysAWayOn
<1> QED BY <1>1, <1>2, <1>3, PTL DEF Spec, EpochAdvances

-----------------------------------------------------------------------------
(* The workers.  A generation that has not been reached has none, and none *)
(* about to be created; and since every boundary takes a 0x1D00 or an      *)
(* answer of the phone, generations do not wrap within MaxStimuli.         *)

Resetting == {t \in Threads : call[t].pc = "reset"}

BoundariesCounted ==
  /\ IsFiniteSet(Resetting)
  /\ retry.generation + Cardinality(Resetting)
       + (IF retry.got_520x THEN 1 ELSE 0) <= stimuli + 1

NoneAhead ==
  \A g \in Generations :
    g > retry.generation => workers[g] = 0 /\ Creating(g) = {}

WorkersInv == TypeOK /\ BoundariesCounted /\ NoneAhead /\ WorkerAccounted

LEMMA WorkersInit == Init => BoundariesCounted /\ NoneAhead /\ WorkerAccounted
<1> SUFFICES ASSUME Init
             PROVE  BoundariesCounted /\ NoneAhead /\ WorkerAccounted
  OBVIOUS
<1>1. Resetting = {} /\ \A g : Creating(g) = {}
  BY DEF Init, Resetting, Creating, NoCall
<1>2. IsFiniteSet({}) /\ Cardinality({}) = 0
  BY FS_EmptySet
<1>3. /\ retry.generation = 1 /\ ~retry.got_520x /\ ~retry.thread_running
      /\ stimuli = 0 /\ workers = [g \in Generations |-> 0]
      /\ 1 \in Generations
  BY SenderAssumption DEF Init, Epoch, Generations
<1>4. BoundariesCounted
  BY <1>1, <1>2, <1>3 DEF BoundariesCounted
<1> QED BY <1>1, <1>3, <1>4 DEF NoneAhead, WorkerAccounted

(* Before the bound on stimuli is reached no boundary wraps.               *)
LEMMA NoWrap ==
  ASSUME TypeOK, BoundariesCounted
  PROVE  /\ retry.generation \in Nat /\ stimuli \in Nat
         /\ Cardinality(Resetting) \in Nat
         /\ retry.generation < MaxGeneration
         /\ NextGeneration(retry.generation) = retry.generation + 1
         /\ retry.generation + 1 \in Generations
<1>1. /\ MaxGeneration \in Nat /\ MaxStimuli \in Nat
      /\ MaxStimuli + 1 < MaxGeneration
  BY SenderAssumption
<1>2. retry.generation \in 1..MaxGeneration /\ stimuli \in 0..MaxStimuli
  BY DEF TypeOK, Retry, Generations
<1>3. Cardinality(Resetting) \in Nat
  BY FS_CardinalityType DEF BoundariesCounted
<1>4. retry.generation <= stimuli + 1
  <2>1. CASE retry.got_520x
    BY <1>2, <1>3, <2>1 DEF BoundariesCounted
  <2>2. CASE ~retry.got_520x
    BY <1>2, <1>3, <2>2 DEF BoundariesCounted
  <2> QED BY <2>1, <2>2
<1> QED BY <1>1, <1>2, <1>3, <1>4 DEF NextGeneration, Generations

(* A step of one call that is not about to reset, before or after it.      *)
LEMMA ResettingSame ==
  ASSUME CallsOK, NEW t \in Threads, call[t].pc # "reset",
         NEW c, c.pc # "reset", call' = [call EXCEPT ![t] = c]
  PROVE  Resetting' = Resetting
BY DEF Resetting, CallsOK

(* A step of one call that neither starts nor ends the making of a worker. *)
LEMMA CreatingSame ==
  ASSUME CallsOK, NEW t \in Threads, NEW c,
         call[t].pc \notin {"spawn", "unspawned"},
         c.pc \notin {"spawn", "unspawned"},
         call' = [call EXCEPT ![t] = c]
  PROVE  \A g \in Generations : Creating(g)' = Creating(g)
BY DEF Creating, CallsOK

(* What makes none and is no boundary keeps the workers accounted.         *)
LEMMA AccountKept ==
  ASSUME NoneAhead, WorkerAccounted, retry \in Retry,
         \A g \in Generations : Creating(g)' = Creating(g), UNCHANGED workers,
         retry'.generation = retry.generation,
         retry'.thread_running = retry.thread_running
  PROVE  NoneAhead' /\ WorkerAccounted'
<1>1. retry.generation \in Generations
  BY DEF Retry
<1>2. NoneAhead'
  BY DEF NoneAhead
<1>3. PICK g \in Generations : g = retry.generation
  BY <1>1
<1>4. Creating(g)' = Creating(g) /\ retry'.generation = g
  BY <1>3
<1>5. WorkerAccounted'
  BY <1>3, <1>4 DEF WorkerAccounted, Creating
<1> QED BY <1>2, <1>5
LEMMA CountKept ==
  ASSUME BoundariesCounted, Resetting' = Resetting, UNCHANGED stimuli,
         retry'.generation = retry.generation,
         retry'.got_520x = retry.got_520x
  PROVE  BoundariesCounted'
<1>1. Cardinality(Resetting)' = Cardinality(Resetting)
  OBVIOUS
<1> QED BY <1>1 DEF BoundariesCounted

(* The next generation is one that no worker has.                          *)
LEMMA AccountOpens ==
  ASSUME TypeOK, BoundariesCounted, NoneAhead,
         \A g \in Generations : Creating(g)' = Creating(g), UNCHANGED workers,
         LET g == NextGeneration(retry.generation)
         IN  retry' = Epoch(g) \/ retry' = Rearmed(g)
  PROVE  NoneAhead' /\ WorkerAccounted'
<1>1. PICK n \in Generations : n = retry.generation + 1
  BY NoWrap
<1>2. /\ retry'.generation = n /\ ~retry'.thread_running
      /\ retry.generation \in Nat
  BY <1>1, NoWrap DEF Epoch, Rearmed
<1>3. \A g \in Generations : g \in Nat
  BY SenderAssumption DEF Generations
<1>4. n > retry.generation /\ \A g \in Generations : g > n => g > retry.generation
  BY <1>1, <1>2, <1>3
<1>5. NoneAhead'
  BY <1>2, <1>4 DEF NoneAhead
<1>6. workers[n] = 0 /\ Creating(n)' = {}
  BY <1>4 DEF NoneAhead
<1> QED BY <1>2, <1>5, <1>6 DEF WorkerAccounted, Creating

LEMMA WorkersArrive ==
  ASSUME TypeOK, BoundariesCounted, NoneAhead, WorkerAccounted,
         NEW t \in Threads, NEW r \in Rcvids, NEW c \in Contexts,
         StartIdentification(t, r, c) \/ GpsInfo(t, r, c) \/ OcbClose(t, r, c)
  PROVE  BoundariesCounted' /\ NoneAhead' /\ WorkerAccounted'
<1>a. CallsOK /\ retry \in Retry
  BY DEF TypeOK, CallsOK
<1>b. PICK msg, pc :
        /\ Arrives(t, r, c, msg, pc) /\ pc \in {"reset", "rearm", "close"}
        /\ pc = "reset" => Stimulus
        /\ Stimulus \/ UNCHANGED stimuli
  BY DEF StartIdentification, GpsInfo, OcbClose
<1> DEFINE new == [pc |-> pc, msg |-> msg, ctx |-> c, rcvid |-> r,
                   generation |-> 1, created |-> 1,
                   sends_in |-> c, deferred |-> FALSE]
<1>1. call' = [call EXCEPT ![t] = new] /\ new.pc = pc /\ call[t].pc = "idle"
  BY <1>b DEF Arrives, NoCall
<1>2. UNCHANGED <<retry, workers>>
  BY <1>b DEF Arrives
<1> HIDE DEF new
<1>3. \A g \in Generations : Creating(g)' = Creating(g)
  BY <1>a, <1>b, <1>1, CreatingSame
<1>4. NoneAhead' /\ WorkerAccounted'
  BY <1>a, <1>2, <1>3, AccountKept
<1>5. stimuli \in Nat /\ (stimuli' = stimuli + 1 \/ stimuli' = stimuli)
  BY <1>b, NoWrap DEF Stimulus
<1> DEFINE answered == IF retry.got_520x THEN 1 ELSE 0
<1>c. /\ retry.generation \in Nat /\ Cardinality(Resetting) \in Nat
      /\ answered \in Nat
      /\ retry.generation + Cardinality(Resetting) + answered <= stimuli + 1
  BY NoWrap DEF BoundariesCounted
<1>d. ASSUME IsFiniteSet(Resetting)',
             retry.generation + Cardinality(Resetting)' + answered
               <= stimuli' + 1
      PROVE  BoundariesCounted'
  BY <1>2, <1>d DEF BoundariesCounted
<1> HIDE DEF answered
<1>6. CASE pc = "reset"
  <2>1. Resetting' = Resetting \cup {t} /\ t \notin Resetting
    BY <1>a, <1>1, <1>6 DEF Resetting, CallsOK
  <2>2. /\ IsFiniteSet(Resetting')
        /\ Cardinality(Resetting') = Cardinality(Resetting) + 1
    BY <2>1, FS_AddElement DEF BoundariesCounted
  <2>3. stimuli' = stimuli + 1
    BY <1>b, <1>6 DEF Stimulus
  <2>4. Cardinality(Resetting)' = Cardinality(Resetting) + 1
    BY <2>2
  <2> QED BY <1>c, <1>d, <1>4, <1>5, <2>2, <2>3, <2>4
<1>7. CASE pc # "reset"
  <2>1. Resetting' = Resetting
    BY <1>a, <1>1, <1>7, ResettingSame
  <2>2. Cardinality(Resetting)' = Cardinality(Resetting)
    BY <2>1
  <2>3. IsFiniteSet(Resetting)'
    BY <2>1 DEF BoundariesCounted
  <2> QED BY <1>c, <1>d, <1>4, <1>5, <2>2, <2>3
<1> QED BY <1>4, <1>6, <1>7

LEMMA WorkersReset ==
  ASSUME TypeOK, BoundariesCounted, NoneAhead, WorkerAccounted,
         NEW t \in Threads, Reset(t)
  PROVE  BoundariesCounted' /\ NoneAhead' /\ WorkerAccounted'
<1>a. CallsOK /\ retry \in Retry
  BY DEF TypeOK, CallsOK
<1> DEFINE new == [call[t] EXCEPT !.pc = "clear"]
<1>1. call[t].pc = "reset" /\ call' = [call EXCEPT ![t] = new]
      /\ new.pc = "clear" /\ UNCHANGED <<workers, stimuli>>
  <2>1. call[t] \in Call
    BY <1>a DEF Reset, At, CallsOK, NoCall
  <2> QED BY <2>1 DEF Reset, At, Goes, Call
<1>2. retry' = Epoch(NextGeneration(retry.generation))
  BY DEF Reset
<1> HIDE DEF new
<1>3. \A g \in Generations : Creating(g)' = Creating(g)
  BY <1>a, <1>1, CreatingSame
<1>4. NoneAhead' /\ WorkerAccounted'
  BY <1>1, <1>2, <1>3, AccountOpens
<1>5. Resetting' = Resetting \ {t} /\ t \in Resetting
  BY <1>a, <1>1 DEF Resetting, CallsOK
<1>6. /\ IsFiniteSet(Resetting')
      /\ Cardinality(Resetting') = Cardinality(Resetting) - 1
  BY <1>5, FS_RemoveElement DEF BoundariesCounted
<1>7. retry'.generation = retry.generation + 1 /\ ~retry'.got_520x
  BY <1>2, NoWrap DEF Epoch
<1>8. retry.generation + Cardinality(Resetting) <= stimuli + 1
  BY NoWrap DEF BoundariesCounted
<1>9. BoundariesCounted'
  BY <1>1, <1>6, <1>7, <1>8, NoWrap DEF BoundariesCounted
<1> QED BY <1>4, <1>9

LEMMA WorkersRearm ==
  ASSUME TypeOK, BoundariesCounted, NoneAhead, WorkerAccounted,
         NEW t \in Threads, RearmIfStale(t)
  PROVE  BoundariesCounted' /\ NoneAhead' /\ WorkerAccounted'
<1>a. CallsOK /\ retry \in Retry
  BY DEF TypeOK, CallsOK
<1> DEFINE new == [call[t] EXCEPT !.pc = "trigger"]
<1>1. call[t].pc = "rearm" /\ call' = [call EXCEPT ![t] = new]
      /\ new.pc = "trigger" /\ UNCHANGED <<workers, stimuli>>
  <2>1. call[t] \in Call
    BY <1>a DEF RearmIfStale, At, CallsOK, NoCall
  <2> QED BY <2>1 DEF RearmIfStale, At, Goes, Call
<1> HIDE DEF new
<1>3. \A g \in Generations : Creating(g)' = Creating(g)
  BY <1>a, <1>1, CreatingSame
<1>5. Resetting' = Resetting
  BY <1>a, <1>1, ResettingSame
<1>6. CASE retry' = retry
  BY <1>a, <1>1, <1>3, <1>5, <1>6, AccountKept, CountKept
<1>7. CASE retry.got_520x
           /\ retry' = Rearmed(NextGeneration(retry.generation))
  <2>1. NoneAhead' /\ WorkerAccounted'
    BY <1>1, <1>3, <1>7, AccountOpens
  <2>2. retry'.generation = retry.generation + 1 /\ ~retry'.got_520x
    BY <1>7, NoWrap DEF Rearmed, Epoch
  <2>3. Cardinality(Resetting)' = Cardinality(Resetting)
    BY <1>5
  <2>4. BoundariesCounted'
    BY <1>1, <1>5, <1>7, <2>2, <2>3, NoWrap DEF BoundariesCounted
  <2> QED BY <2>1, <2>4
<1> QED BY <1>6, <1>7 DEF RearmIfStale

(* The steps of a call that only change the call: no boundary, no worker.  *)
LEMMA WorkersAside ==
  ASSUME TypeOK, BoundariesCounted, NoneAhead, WorkerAccounted,
         NEW t \in Threads, NEW c,
         call[t].pc \notin {"reset", "spawn", "unspawned"},
         c.pc \notin {"reset", "spawn", "unspawned"},
         call' = [call EXCEPT ![t] = c],
         UNCHANGED <<workers, stimuli>>,
         retry'.generation = retry.generation,
         retry'.got_520x = retry.got_520x,
         retry'.thread_running = retry.thread_running
  PROVE  BoundariesCounted' /\ NoneAhead' /\ WorkerAccounted'
<1>a. CallsOK /\ retry \in Retry
  BY DEF TypeOK, CallsOK
<1>1. \A g \in Generations : Creating(g)' = Creating(g)
  BY <1>a, CreatingSame
<1>2. Resetting' = Resetting
  BY <1>a, ResettingSame
<1> QED BY <1>a, <1>1, <1>2, AccountKept, CountKept
(* The worker is created, or it cannot be.                                 *)
LEMMA WorkersSpawn ==
  ASSUME TypeOK, BoundariesCounted, NoneAhead, WorkerAccounted,
         NEW t \in Threads, Spawn(t)
  PROVE  BoundariesCounted' /\ NoneAhead' /\ WorkerAccounted'
<1>a. CallsOK /\ retry \in Retry /\ workers \in [Generations -> Nat]
  BY DEF TypeOK, CallsOK
<1>1. /\ call[t] \in Call /\ call[t].pc = "spawn"
      /\ UNCHANGED <<retry, stimuli>>
  BY <1>a DEF Spawn, At, CallsOK, NoCall
<1>2. PICK n \in Generations : n = call[t].created
  BY <1>1 DEF Call
<1>3. PICK g \in Generations : g = retry.generation
  BY <1>a DEF Retry
<1>4. n <= g
  BY <1>1, <1>2, <1>3 DEF NoneAhead, Creating, Generations
<1>5. ASSUME NEW pc \in {"send", "unspawned"}, Goes(t, pc)
      PROVE  /\ Resetting' = Resetting
             /\ call'[t].pc = pc /\ call'[t].created = n
             /\ \A u \in Threads \ {t} : call'[u] = call[u]
  BY <1>a, <1>1, <1>2, <1>5 DEF Goes, CallsOK, Call, Resetting
<1>6. BoundariesCounted'
  BY <1>1, <1>5, CountKept DEF Spawn
<1>7. CASE Goes(t, "unspawned") /\ UNCHANGED workers
  <2>1. \A k \in Generations : Creating(k)' = Creating(k)
    BY <1>1, <1>2, <1>5, <1>7 DEF Creating
  <2> QED BY <1>a, <1>1, <1>6, <1>7, <2>1, AccountKept
<1>8. CASE /\ Goes(t, "send")
           /\ workers' = [workers EXCEPT ![n] = @ + 1]
  <2>1. \A k \in Generations : Creating(k)' = Creating(k) \ {t}
    BY <1>1, <1>2, <1>5, <1>8 DEF Creating
  <2>2. t \in Creating(n)
    BY <1>1, <1>2 DEF Creating
  <2>3. \A k \in Generations \ {n} :
          Creating(k)' = Creating(k) /\ workers'[k] = workers[k]
    BY <1>a, <1>1, <1>2, <1>8, <2>1 DEF Creating
  <2>4. NoneAhead'
    BY <1>1, <1>3, <1>4, <2>3 DEF NoneAhead, Generations
  <2>5. CASE n # g
    <3>1. Creating(g)' = Creating(g) /\ workers'[g] = workers[g]
      BY <1>3, <2>3, <2>5
    <3> QED BY <1>1, <1>3, <1>6, <2>4, <3>1 DEF WorkerAccounted, Creating
  <2>6. CASE n = g
    <3>1. /\ retry.thread_running /\ workers[g] = 0
          /\ \E u \in Threads : Creating(g) = {u}
      BY <1>3, <2>2, <2>6 DEF WorkerAccounted
    <3>2. Creating(g)' = {} /\ workers'[g] = 1
      BY <1>a, <1>8, <2>1, <2>2, <2>6, <3>1
    <3> QED BY <1>1, <1>3, <1>6, <2>4, <3>1, <3>2
            DEF WorkerAccounted, Creating
  <2> QED BY <2>5, <2>6
<1> QED BY <1>2, <1>7, <1>8 DEF Spawn

LEMMA WorkersSpawnFailed ==
  ASSUME TypeOK, BoundariesCounted, NoneAhead, WorkerAccounted,
         NEW t \in Threads, SpawnFailed(t)
  PROVE  BoundariesCounted' /\ NoneAhead' /\ WorkerAccounted'
<1>a. CallsOK /\ retry \in Retry
  BY DEF TypeOK, CallsOK
<1>1. /\ call[t] \in Call /\ call[t].pc = "unspawned"
      /\ UNCHANGED <<workers, stimuli>>
  BY <1>a DEF SpawnFailed, At, CallsOK, NoCall
<1>2. PICK n \in Generations : n = call[t].created
  BY <1>1 DEF Call
<1>3. PICK g \in Generations : g = retry.generation
  BY <1>a DEF Retry
<1>4. /\ Resetting' = Resetting
      /\ call'[t].pc = "send"
      /\ \A u \in Threads \ {t} : call'[u] = call[u]
  BY <1>a, <1>1, <1>2 DEF SpawnFailed, Goes, CallsOK, Call, Resetting
<1>5. /\ retry'.generation = g /\ retry'.got_520x = retry.got_520x
      /\ retry'.thread_running
           = IF n = g THEN FALSE ELSE retry.thread_running
  BY <1>a, <1>2, <1>3 DEF SpawnFailed, Retry
<1>6. BoundariesCounted'
  BY <1>1, <1>3, <1>4, <1>5, CountKept
<1>7. \A k \in Generations : Creating(k)' = Creating(k) \ {t}
  BY <1>1, <1>2, <1>4 DEF Creating
<1>8. t \in Creating(n) /\ \A k \in Generations \ {n} : t \notin Creating(k)
  BY <1>1, <1>2 DEF Creating
<1>9. NoneAhead'
  BY <1>1, <1>3, <1>5, <1>7 DEF NoneAhead
<1>10. CASE n # g
  <2>1. Creating(g)' = Creating(g) /\ workers'[g] = workers[g]
    <3>1. Creating(g)' = Creating(g) \ {t} /\ t \notin Creating(g)
      BY <1>7, <1>8, <1>10
    <3> QED BY <1>1, <3>1
  <2> QED BY <1>3, <1>5, <1>6, <1>9, <1>10, <2>1 DEF WorkerAccounted, Creating
<1>11. CASE n = g
  <2>1. workers[g] = 0 /\ \E u \in Threads : Creating(g) = {u}
    BY <1>3, <1>8, <1>11 DEF WorkerAccounted
  <2>2. Creating(g)' = {} /\ workers'[g] = 0
    BY <1>1, <1>7, <1>8, <1>11, <2>1
  <2> QED BY <1>5, <1>6, <1>9, <1>11, <2>2 DEF WorkerAccounted, Creating
<1> QED BY <1>10, <1>11

(* The one step that makes a worker of the generation due.                 *)
LEMMA WorkersBegin ==
  ASSUME TypeOK, BoundariesCounted, NoneAhead, WorkerAccounted,
         NEW t \in Threads, Begin(t)
  PROVE  BoundariesCounted' /\ NoneAhead' /\ WorkerAccounted'
<1>a. CallsOK /\ retry \in Retry
  BY DEF TypeOK, CallsOK
<1>1. /\ call[t] \in Call /\ call[t].pc = "begin"
      /\ UNCHANGED <<workers, stimuli>>
  BY <1>a DEF Begin, At, CallsOK, NoCall
<1>2. PICK g \in Generations : g = retry.generation
  BY <1>a DEF Retry
<1>3. CASE ~MayBegin(call[t])
  <2> DEFINE new == [call[t] EXCEPT !.pc = "after"]
  <2>1. call' = [call EXCEPT ![t] = new] /\ new.pc = "after"
    BY <1>1, <1>3 DEF Begin, Goes, Call
  <2>2. retry' = retry
    BY <1>3 DEF Begin
  <2> HIDE DEF new
  <2> QED BY <1>1, <2>1, <2>2, WorkersAside
<1>4. CASE MayBegin(call[t])
  <2>1. /\ retry'.generation = g /\ retry'.got_520x = retry.got_520x
        /\ retry'.thread_running
    BY <1>a, <1>2, <1>4 DEF Begin, Begun, Retry
  <2> DEFINE new == [call[t] EXCEPT
                       !.pc = IF retry.thread_running THEN "send"
                                                      ELSE "spawn",
                       !.created = g]
  <2>2. /\ call' = [call EXCEPT ![t] = new]
        /\ new.pc = (IF retry.thread_running THEN "send" ELSE "spawn")
        /\ new.created = g
    BY <1>1, <1>2, <1>4 DEF Begin, Call
  <2> HIDE DEF new
  <2>3. CASE retry.thread_running
    BY <1>1, <1>2, <2>1, <2>2, <2>3, WorkersAside
  <2>4. CASE ~retry.thread_running
    <3>1. Resetting' = Resetting
      BY <1>a, <1>1, <2>2, <2>4, ResettingSame
    <3>2. BoundariesCounted'
      BY <1>1, <1>2, <2>1, <3>1, CountKept
    <3>3. workers[g] = 0 /\ Creating(g) = {}
      BY <1>2, <2>4 DEF WorkerAccounted
    <3>4. /\ Creating(g)' = Creating(g) \cup {t}
          /\ \A k \in Generations \ {g} : Creating(k)' = Creating(k)
      BY <1>a, <1>1, <2>2, <2>4 DEF Creating, CallsOK
    <3>5. NoneAhead'
      BY <1>1, <1>2, <2>1, <3>4 DEF NoneAhead, Generations
    <3>6. Creating(g)' = {t} /\ workers'[g] = 0
      BY <1>1, <3>3, <3>4
    <3>7. WorkerAccounted'
      BY <2>1, <3>6 DEF WorkerAccounted, Creating
    <3> QED BY <3>2, <3>5, <3>7
  <2> QED BY <2>3, <2>4
<1> QED BY <1>3, <1>4

(* A worker's round: the one of the generation clears the flag it leaves   *)
(* by, one of an earlier generation leaves and touches nothing.            *)
LEMMA WorkersRound ==
  ASSUME TypeOK, BoundariesCounted, NoneAhead, WorkerAccounted,
         NEW n \in Generations, WorkerRound(n)
  PROVE  BoundariesCounted' /\ NoneAhead' /\ WorkerAccounted'
<1>a. retry \in Retry /\ workers \in [Generations -> Nat]
  BY DEF TypeOK
<1>1. PICK g \in Generations : g = retry.generation
  BY <1>a DEF Retry
<1>2. \A k \in Generations : Creating(k)' = Creating(k)
  BY DEF WorkerRound, Creating
<1>3. Resetting' = Resetting /\ UNCHANGED stimuli /\ workers[n] > 0
  BY DEF WorkerRound, Resetting
<1>4. retry'.generation = g /\ retry'.got_520x = retry.got_520x
  BY <1>a, <1>1 DEF WorkerRound, Retry
<1>5. BoundariesCounted'
  BY <1>1, <1>3, <1>4, CountKept
<1>6. n <= g
  BY <1>1, <1>3 DEF NoneAhead, Generations
<1>7. \A k \in Generations \ {n} : workers'[k] = workers[k]
  BY <1>a DEF WorkerRound, WorkerLeaves
<1>8. NoneAhead'
  BY <1>1, <1>2, <1>4, <1>6, <1>7 DEF NoneAhead, Generations
<1>9. CASE n # g
  <2>1. UNCHANGED retry /\ workers'[g] = workers[g] /\ Creating(g)' = Creating(g)
    BY <1>1, <1>2, <1>7, <1>9 DEF WorkerRound, Outdated
  <2> QED BY <1>1, <1>5, <1>8, <2>1 DEF WorkerAccounted, Creating
<1>10. CASE n = g
  <2>1. retry.thread_running /\ workers[g] = 1 /\ Creating(g) = {}
    BY <1>1, <1>3, <1>10 DEF WorkerAccounted
  <2>2. \/ /\ workers' = [workers EXCEPT ![g] = @ - 1]
           /\ ~retry'.thread_running
        \/ workers' = workers /\ retry'.thread_running
    BY <1>a, <1>1, <1>10, <2>1 DEF WorkerRound, WorkerLeaves, Outdated, Retry
  <2>3. Creating(g)' = {}
    BY <1>2, <2>1
  <2>4. \/ workers'[g] = 0 /\ ~retry'.thread_running
        \/ workers'[g] = 1 /\ retry'.thread_running
    BY <1>a, <2>1, <2>2
  <2> QED BY <1>4, <1>5, <1>8, <2>3, <2>4 DEF WorkerAccounted, Creating
<1> QED BY <1>9, <1>10
LEMMA WorkersStep ==
  ASSUME WorkersInv, [Next]_vars
  PROVE  BoundariesCounted' /\ NoneAhead' /\ WorkerAccounted'
<1> DEFINE Goal == BoundariesCounted' /\ NoneAhead' /\ WorkerAccounted'
<1>a. /\ TypeOK /\ BoundariesCounted /\ NoneAhead /\ WorkerAccounted
      /\ CallsOK /\ retry \in Retry
  BY DEF WorkersInv, TypeOK, CallsOK
<1>b. \A t \in Threads : call[t] # NoCall => call[t] \in Call
  BY <1>a DEF CallsOK
<1>c. \A t \in Threads : \A pc : At(t, pc) /\ pc # "idle" => call[t] # NoCall
  BY DEF At, NoCall
<1>d. ASSUME UNCHANGED <<call, workers>>,
             retry'.generation = retry.generation,
             retry'.thread_running = retry.thread_running
      PROVE  NoneAhead' /\ WorkerAccounted'
  <2>1. \A g \in Generations : Creating(g)' = Creating(g)
    BY <1>d DEF Creating
  <2> QED BY <1>a, <1>d, <2>1, AccountKept
<1>e. ASSUME NEW t \in Threads, NEW c,
             call[t].pc \notin {"reset", "spawn", "unspawned"},
             c.pc \notin {"reset", "spawn", "unspawned"},
             call' = [call EXCEPT ![t] = c],
             UNCHANGED <<retry, workers, stimuli>>
      PROVE  Goal
  BY <1>a, <1>e, WorkersAside
<1>f. ASSUME NEW t \in Threads,
             NEW pc \in {"trigger", "track", "stock", "replied", "begin",
                         "send", "sending", "after", "claim"},
             Goes(t, pc), call[t] # NoCall,
             call[t].pc \notin {"reset", "spawn", "unspawned"},
             UNCHANGED <<retry, workers, stimuli>>
      PROVE  Goal
  <2> DEFINE c == [call[t] EXCEPT !.pc = pc]
  <2>1. c.pc = pc /\ call' = [call EXCEPT ![t] = c]
    BY <1>b, <1>f DEF Goes, Call
  <2> HIDE DEF c
  <2> QED BY <1>e, <1>f, <2>1
<1>g. ASSUME NEW t \in Threads, Ends(t),
             call[t].pc \notin {"reset", "spawn", "unspawned"},
             UNCHANGED <<retry, workers, stimuli>>
      PROVE  Goal
  BY <1>e, <1>g DEF Ends, NoCall
<1>1. CASE UNCHANGED vars
  <2>1. Resetting' = Resetting
    BY <1>1 DEF vars, Resetting
  <2> QED BY <1>a, <1>1, <1>d, <2>1, CountKept DEF vars
<1>2. ASSUME NEW t \in Threads, NEW r \in Rcvids, NEW c \in Contexts,
             StartIdentification(t, r, c) \/ GpsInfo(t, r, c)
             \/ OcbClose(t, r, c)
      PROVE  Goal
  BY <1>a, <1>2, WorkersArrive
<1>3. ASSUME NEW t \in Threads, Reset(t) PROVE Goal
  BY <1>a, <1>3, WorkersReset
<1>4. ASSUME NEW t \in Threads, ClearReplies(t) PROVE Goal
  <2>1. call[t] # NoCall /\ call[t].pc = "clear" /\ Goes(t, "stock")
    BY <1>4, <1>c DEF ClearReplies, At
  <2> DEFINE c == [call[t] EXCEPT !.pc = "stock"]
  <2>2. c.pc = "stock" /\ call' = [call EXCEPT ![t] = c]
    BY <1>b, <2>1 DEF Goes, Call
  <2> HIDE DEF c
  <2> QED BY <1>4, <1>e, <2>1, <2>2 DEF ClearReplies
<1>5. ASSUME NEW t \in Threads, Close(t) PROVE Goal
  <2>1. CASE UNCHANGED call
    <3>1. Resetting' = Resetting
      BY <2>1 DEF Resetting
    <3> QED BY <1>a, <1>5, <1>d, <2>1, <3>1, CountKept DEF Close
  <2>2. CASE Ends(t)
    BY <1>5, <1>g, <2>2 DEF Close, At
  <2> QED BY <1>5, <2>1, <2>2 DEF Close
<1>6. ASSUME NEW t \in Threads, RearmIfStale(t) PROVE Goal
  BY <1>a, <1>6, WorkersRearm
<1>7. ASSUME NEW t \in Threads, TakeTrigger(t) PROVE Goal
  <2>1. CASE NeedsTrigger
    <3> DEFINE c == [call[t] EXCEPT !.pc = "track",
                                    !.generation = retry.generation]
    <3>1. c.pc = "track" /\ call' = [call EXCEPT ![t] = c]
      BY <1>7, <1>b, <1>c, <2>1 DEF TakeTrigger, Call
    <3> HIDE DEF c
    <3> QED BY <1>7, <1>e, <3>1 DEF TakeTrigger, At
  <2>2. CASE ~NeedsTrigger
    BY <1>7, <1>c, <1>f, <2>2 DEF TakeTrigger, At
  <2> QED BY <2>1, <2>2
<1>8. ASSUME NEW t \in Threads, Track(t) PROVE Goal
  BY <1>8, <1>c, <1>f DEF Track, At
<1>9. ASSUME NEW t \in Threads, RealReply(t) \/ NoRealReply(t) PROVE Goal
  BY <1>9, <1>c, <1>f DEF RealReply, NoRealReply, At
<1>10. ASSUME NEW t \in Threads, TakeReply(t) PROVE Goal
  <2>1. CASE Goes(t, "after")
    BY <1>10, <1>c, <1>f, <2>1 DEF TakeReply, At
  <2>2. CASE \E x, y : call' = [call EXCEPT ![t].pc = "begin",
                                  ![t].sends_in = x, ![t].generation = y]
    <3>1. PICK x, y : call' = [call EXCEPT ![t].pc = "begin",
                                 ![t].sends_in = x, ![t].generation = y]
      BY <2>2
    <3> DEFINE c == [call[t] EXCEPT !.pc = "begin", !.sends_in = x,
                                    !.generation = y]
    <3>2. c.pc = "begin" /\ call' = [call EXCEPT ![t] = c]
      BY <1>10, <1>b, <1>c, <3>1 DEF TakeReply, Call
    <3> HIDE DEF c
    <3> QED BY <1>10, <1>e, <3>2 DEF TakeReply, At
  <2> QED BY <1>10, <2>1, <2>2 DEF TakeReply
<1>11. ASSUME NEW t \in Threads, Begin(t) PROVE Goal
  BY <1>a, <1>11, WorkersBegin
<1>12. ASSUME NEW t \in Threads, Spawn(t) PROVE Goal
  BY <1>a, <1>12, WorkersSpawn
<1>13. ASSUME NEW t \in Threads, SpawnFailed(t) PROVE Goal
  BY <1>a, <1>13, WorkersSpawnFailed
<1>14. ASSUME NEW t \in Threads, After(t) PROVE Goal
  BY <1>14, <1>c, <1>f, <1>g DEF After, At
<1>15. ASSUME NEW t \in Threads, Claim(t) PROVE Goal
  <2>1. CASE Ends(t) /\ UNCHANGED retry
    BY <1>15, <1>g, <2>1 DEF Claim, At
  <2>2. CASE ~(Ends(t) /\ UNCHANGED retry)
    <3> DEFINE c == [call[t] EXCEPT !.pc = "send", !.deferred = TRUE,
                                    !.sends_in = call[t].ctx]
    <3>1. c.pc = "send" /\ call' = [call EXCEPT ![t] = c]
      BY <1>15, <1>b, <1>c, <2>2 DEF Claim, Call
    <3>2. /\ retry'.generation = retry.generation
          /\ retry'.got_520x = retry.got_520x
          /\ retry'.thread_running = retry.thread_running
      BY <1>15, <1>a, <2>2 DEF Claim, Retry
    <3> HIDE DEF c
    <3> QED BY <1>15, <1>a, <3>1, <3>2, WorkersAside DEF Claim, At
  <2> QED BY <2>1, <2>2
<1>16. ASSUME NEW t \in Threads, Send(t) \/ Sent(t) PROVE Goal
  BY <1>16, <1>c, <1>f, <1>g DEF Send, Sent, Leaves, At
<1>17. ASSUME NEW g \in Generations, WorkerRound(g) PROVE Goal
  BY <1>a, <1>17, WorkersRound
<1>18. CASE NoteRgiRx
  <2>1. /\ retry'.generation = retry.generation /\ retry'.got_520x
        /\ retry'.thread_running = retry.thread_running
        /\ UNCHANGED <<call, workers>> /\ stimuli' = stimuli + 1
    BY <1>18, <1>a DEF NoteRgiRx, Stimulus, Retry
  <2>2. Resetting' = Resetting
    BY <2>1 DEF Resetting
  <2>3. Cardinality(Resetting)' = Cardinality(Resetting)
    BY <2>2
  <2>4. retry.generation + Cardinality(Resetting) <= stimuli + 1
    BY <1>a, NoWrap DEF BoundariesCounted
  <2>5. BoundariesCounted'
    BY <1>a, <2>1, <2>2, <2>3, <2>4, NoWrap DEF BoundariesCounted
  <2> QED BY <1>d, <2>1, <2>5
<1>19. CASE RetryFallsDue \/ RgiFallsSilent
  <2>1. /\ retry'.generation = retry.generation
        /\ retry'.got_520x = retry.got_520x
        /\ retry'.thread_running = retry.thread_running
        /\ UNCHANGED <<call, workers, stimuli>>
    BY <1>19, <1>a DEF RetryFallsDue, RgiFallsSilent, Retry
  <2>2. Resetting' = Resetting
    BY <2>1 DEF Resetting
  <2> QED BY <1>a, <1>d, <2>1, <2>2, CountKept
<1> QED
  BY <1>1, <1>2, <1>3, <1>4, <1>5, <1>6, <1>7, <1>8, <1>9, <1>10, <1>11,
     <1>12, <1>13, <1>14, <1>15, <1>16, <1>17, <1>18, <1>19
  DEF Next, Handles

(* In every generation retry_thread_running tells whether that generation  *)
(* has its one worker, or one about to be created: boundaries, failures to *)
(* create it and late workers of earlier generations never break the       *)
(* count.                                                                  *)
THEOREM WorkersAccounted == Spec => []WorkerAccounted
<1>1. Init => WorkersInv
  BY InitType, WorkersInit DEF WorkersInv
<1>2. WorkersInv /\ [Next]_vars => WorkersInv'
  BY TypeStep, WorkersStep DEF WorkersInv
<1>3. WorkersInv => WorkerAccounted
  BY DEF WorkersInv
<1> QED BY <1>1, <1>2, <1>3, PTL DEF Spec
-----------------------------------------------------------------------------
(* Triggers and their replies, when a client has one message at a time (it *)
(* is blocked until the handler has returned).  A slot belongs to a call   *)
(* that waits for its reply, no two slots are of one client, and what is   *)
(* of this generation was taken in this epoch.                             *)

OneCallEach ==
  \A t, u \in Threads :
    call[t] # NoCall /\ call[u] # NoCall /\ call[t].rcvid = call[u].rcvid
    => t = u

TriggersFresh ==
  \A t \in Threads :
    call[t].pc \in {"track", "begin"}
    => /\ call[t].generation <= retry.generation
       /\ call[t].generation = retry.generation => t \in fresh

OnlyPositions ==
  \A t \in Threads :
    call[t].pc \in {"rearm", "trigger", "track"} => call[t].msg = "2700"

OwnedBy(i, t) ==
  /\ call[t].pc \in {"stock", "replied", "after"} /\ call[t].msg = "2700"
  /\ call[t].rcvid = pending[i].rcvid
  /\ pending[i].generation = retry.generation => t \in fresh

SlotsOwned ==
  \A i \in Replies :
    pending[i].active
    => /\ pending[i].generation <= retry.generation
       /\ \E t \in Threads : OwnedBy(i, t)

SlotsDiffer ==
  \A i, j \in Replies :
    pending[i].active /\ pending[j].active
    /\ pending[i].rcvid = pending[j].rcvid => i = j

FreshInv ==
  OneCallEach /\ TriggersFresh /\ OnlyPositions /\ SlotsOwned /\ SlotsDiffer

(* Slots are only cleared, and none of this call's is left when the call   *)
(* is past the place where it takes its reply.                             *)
LEMMA FreshAside ==
  ASSUME FreshInv, CallsOK, NEW t \in Threads, NEW c,
         call' = [call EXCEPT ![t] = c],
         \/ c = NoCall
         \/ /\ c # NoCall /\ call[t] # NoCall
            /\ c.rcvid = call[t].rcvid /\ c.msg = call[t].msg,
         c.pc \notin {"rearm", "track", "begin"},
         c.pc = "trigger" => call[t].pc = "rearm",
         UNCHANGED fresh, retry'.generation = retry.generation,
         \A i \in Replies : pending'[i].active => pending'[i] = pending[i],
         \A i \in Replies : pending'[i].active /\ OwnedBy(i, t)
                            => /\ c # NoCall
                               /\ c.pc \in {"stock", "replied", "after"}
  PROVE  FreshInv'
<1>1. /\ call'[t] = c
      /\ \A u \in Threads \ {t} : call'[u] = call[u]
  BY DEF CallsOK
<1>2. OneCallEach'
  BY <1>1 DEF FreshInv, OneCallEach
<1>3. TriggersFresh'
  BY <1>1 DEF FreshInv, TriggersFresh
<1>4. SlotsDiffer'
  BY DEF FreshInv, SlotsDiffer
<1>7. OnlyPositions'
  BY <1>1 DEF FreshInv, OnlyPositions, NoCall
<1>5. ASSUME NEW i \in Replies, pending'[i].active
      PROVE  /\ pending'[i].generation <= retry'.generation
             /\ \E u \in Threads : OwnedBy(i, u)'
  <2>1. pending'[i] = pending[i] /\ pending[i].active
    BY <1>5
  <2>2. PICK u \in Threads : OwnedBy(i, u)
    BY <2>1 DEF FreshInv, SlotsOwned
  <2>3. OwnedBy(i, u)'
    <3>1. CASE u # t
      BY <1>1, <2>1, <2>2, <3>1 DEF OwnedBy
    <3>2. CASE u = t
      BY <1>1, <1>5, <2>1, <2>2, <3>2 DEF OwnedBy
    <3> QED BY <3>1, <3>2
  <2>4. pending[i].generation <= retry.generation
    BY <2>1 DEF FreshInv, SlotsOwned
  <2> QED BY <2>1, <2>3, <2>4
<1>6. SlotsOwned'
  BY <1>5 DEF SlotsOwned
<1> QED BY <1>2, <1>3, <1>4, <1>6, <1>7 DEF FreshInv

(* A boundary leaves every trigger and slot behind.                        *)
LEMMA FreshOpens ==
  ASSUME FreshInv, TypeOK, BoundariesCounted, NEW t \in Threads, NEW c,
         call' = [call EXCEPT ![t] = c], c # NoCall, call[t] # NoCall,
         c.rcvid = call[t].rcvid, c.msg = call[t].msg,
         c.pc \notin {"rearm", "track", "begin"},
         c.pc = "trigger" => call[t].pc = "rearm",
         call[t].pc \notin {"stock", "replied", "after"},
         UNCHANGED pending,
         retry'.generation = retry.generation + 1
  PROVE  FreshInv'
<1>0. CallsOK /\ \A u \in Threads : call[u] # NoCall => call[u] \in Call
  BY DEF TypeOK, CallsOK
<1>1. /\ call'[t] = c
      /\ \A u \in Threads \ {t} : call'[u] = call[u]
  BY <1>0 DEF CallsOK
<1>2. OneCallEach'
  BY <1>1 DEF FreshInv, OneCallEach
<1>3. SlotsDiffer'
  BY DEF FreshInv, SlotsDiffer
<1>4. /\ retry.generation \in Nat
      /\ \A g \in Generations : g \in Nat
  BY NoWrap, SenderAssumption DEF Generations
<1>5. TriggersFresh'
  <2> SUFFICES ASSUME NEW u \in Threads, call'[u].pc \in {"track", "begin"}
               PROVE  /\ call'[u].generation <= retry'.generation
                      /\ call'[u].generation # retry'.generation
    BY DEF TriggersFresh
  <2>1. u # t /\ call'[u] = call[u] /\ call[u] # NoCall
    BY <1>1 DEF NoCall
  <2>2. call[u].generation \in Nat /\ call[u].generation <= retry.generation
    BY <1>0, <1>4, <2>1 DEF Call, FreshInv, TriggersFresh
  <2> QED BY <1>4, <2>1, <2>2
<1>6. ASSUME NEW i \in Replies, pending'[i].active
      PROVE  /\ pending'[i].generation <= retry'.generation
             /\ \E u \in Threads : OwnedBy(i, u)'
  <2>1. pending'[i] = pending[i] /\ pending[i].active
    BY <1>6
  <2>2. PICK u \in Threads : OwnedBy(i, u)
    BY <2>1 DEF FreshInv, SlotsOwned
  <2>3. u # t
    BY <2>2 DEF OwnedBy
  <2>4. pending[i] \in Reply
    BY <2>1 DEF TypeOK, NoReply
  <2>5. /\ pending[i].generation \in Nat
        /\ pending[i].generation <= retry.generation
    BY <1>4, <2>1, <2>4 DEF Reply, FreshInv, SlotsOwned
  <2>6. /\ pending'[i].generation <= retry'.generation
        /\ pending'[i].generation # retry'.generation
    BY <1>4, <2>1, <2>5
  <2>7. OwnedBy(i, u)'
    BY <1>1, <2>1, <2>2, <2>3, <2>6 DEF OwnedBy
  <2> QED BY <2>6, <2>7
<1>7. SlotsOwned'
  BY <1>6 DEF SlotsOwned
<1>8. OnlyPositions'
  BY <1>1 DEF FreshInv, OnlyPositions
<1> QED BY <1>2, <1>3, <1>5, <1>7, <1>8 DEF FreshInv

LEMMA FreshArrives ==
  ASSUME ~EagerClients, FreshInv, TypeOK, NEW t \in Threads,
         NEW r \in Rcvids, NEW c \in Contexts, NEW msg,
         NEW pc \in {"reset", "rearm", "close"}, pc = "rearm" => msg = "2700",
         Arrives(t, r, c, msg, pc)
  PROVE  FreshInv'
<1>0. CallsOK
  BY DEF TypeOK, CallsOK
<1> DEFINE new == [pc |-> pc, msg |-> msg, ctx |-> c, rcvid |-> r,
                   generation |-> 1, created |-> 1,
                   sends_in |-> c, deferred |-> FALSE]
<1>1. /\ new.pc = pc /\ new.rcvid = r /\ new.msg = msg
      /\ call' = [call EXCEPT ![t] = new] /\ call[t] = NoCall
      /\ UNCHANGED <<retry, pending, fresh>>
  BY DEF Arrives
<1> HIDE DEF new
<1>2. \A u \in Threads : call[u] # NoCall => call[u].rcvid # r
  BY DEF Arrives, Taken
<1>3. /\ call'[t] = new
      /\ \A u \in Threads \ {t} : call'[u] = call[u]
  BY <1>0, <1>1 DEF CallsOK
<1>4. OneCallEach'
  BY <1>1, <1>2, <1>3 DEF FreshInv, OneCallEach
<1>5. TriggersFresh'
  BY <1>1, <1>3 DEF FreshInv, TriggersFresh
<1>6. \A i \in Replies, u \in Threads : OwnedBy(i, u) => OwnedBy(i, u)'
  <2> SUFFICES ASSUME NEW i \in Replies, NEW u \in Threads, OwnedBy(i, u)
               PROVE  OwnedBy(i, u)'
    OBVIOUS
  <2>1. u # t
    BY <1>1 DEF OwnedBy, NoCall
  <2> QED BY <1>1, <1>3, <2>1 DEF OwnedBy
<1>7. SlotsOwned'
  BY <1>1, <1>6 DEF FreshInv, SlotsOwned
<1>8. SlotsDiffer'
  BY <1>1 DEF FreshInv, SlotsDiffer
<1>9. OnlyPositions'
  BY <1>1, <1>3 DEF FreshInv, OnlyPositions
<1> QED BY <1>4, <1>5, <1>7, <1>8, <1>9 DEF FreshInv
LEMMA FreshTaken ==
  ASSUME FreshInv, TypeOK, NEW t \in Threads, TakeTrigger(t)
  PROVE  FreshInv'
<1>0. CallsOK /\ retry \in Retry
  BY DEF TypeOK, CallsOK
<1>1. /\ call[t] \in Call /\ call[t] # NoCall /\ call[t].pc = "trigger"
      /\ UNCHANGED <<retry, pending>>
  BY <1>0 DEF TakeTrigger, At, CallsOK, NoCall
<1>2. CASE ~NeedsTrigger
  <2> DEFINE c == [call[t] EXCEPT !.pc = "stock"]
  <2>1. /\ c.pc = "stock" /\ c.rcvid = call[t].rcvid /\ c.msg = call[t].msg
        /\ c # NoCall /\ call' = [call EXCEPT ![t] = c] /\ UNCHANGED fresh
    BY <1>1, <1>2 DEF TakeTrigger, Goes, Call, NoCall
  <2> HIDE DEF c
  <2> QED BY <1>0, <1>1, <2>1, FreshAside
<1>3. CASE NeedsTrigger
  <2> DEFINE c == [call[t] EXCEPT !.pc = "track",
                                  !.generation = retry.generation]
  <2>1. /\ c.pc = "track" /\ c.rcvid = call[t].rcvid /\ c.msg = call[t].msg
        /\ c.generation = retry.generation
        /\ c # NoCall /\ call' = [call EXCEPT ![t] = c]
        /\ fresh' = fresh \cup {t}
    BY <1>1, <1>3 DEF TakeTrigger, Call, NoCall
  <2> HIDE DEF c
  <2>2. /\ call'[t] = c
        /\ \A u \in Threads \ {t} : call'[u] = call[u]
    BY <1>0, <2>1 DEF CallsOK
  <2>3. OneCallEach'
    BY <1>1, <2>1, <2>2 DEF FreshInv, OneCallEach
  <2>4. TriggersFresh'
    <3>1. retry.generation <= retry.generation
      BY <1>0, SenderAssumption DEF Retry, Generations
    <3> QED BY <1>1, <2>1, <2>2, <3>1 DEF FreshInv, TriggersFresh
  <2>5. OnlyPositions'
    BY <1>1, <2>1, <2>2 DEF FreshInv, OnlyPositions
  <2>6. SlotsDiffer'
    BY <1>1 DEF FreshInv, SlotsDiffer
  <2>7. \A i \in Replies, u \in Threads : OwnedBy(i, u) => OwnedBy(i, u)'
    <3> SUFFICES ASSUME NEW i \in Replies, NEW u \in Threads, OwnedBy(i, u)
                 PROVE  OwnedBy(i, u)'
      OBVIOUS
    <3>1. u # t
      BY <1>1 DEF OwnedBy
    <3> QED BY <1>1, <2>1, <2>2, <3>1 DEF OwnedBy
  <2>8. SlotsOwned'
    BY <1>1, <2>7 DEF FreshInv, SlotsOwned
  <2> QED BY <2>3, <2>4, <2>5, <2>6, <2>8 DEF FreshInv
<1> QED BY <1>2, <1>3

(* The slot a call fills was free, and it is the only one of its client.   *)
LEMMA FreshTracked ==
  ASSUME FreshInv, TypeOK, NEW t \in Threads, Track(t)
  PROVE  FreshInv'
<1>0. CallsOK /\ retry \in Retry
  BY DEF TypeOK, CallsOK
<1>1. /\ call[t] \in Call /\ call[t] # NoCall /\ call[t].pc = "track"
      /\ UNCHANGED <<retry, fresh>>
  BY <1>0 DEF Track, At, CallsOK, NoCall
<1> DEFINE c == [call[t] EXCEPT !.pc = "stock"]
           r == call[t].rcvid
<1>2. /\ c.pc = "stock" /\ c.rcvid = r /\ c.msg = "2700"
      /\ c # NoCall /\ call' = [call EXCEPT ![t] = c]
  <2>1. call[t].msg = "2700"
    BY <1>1 DEF FreshInv, OnlyPositions
  <2> QED BY <1>1, <2>1 DEF Track, Goes, Call, NoCall
<1> HIDE DEF c
<1>3. /\ call'[t] = c
      /\ \A u \in Threads \ {t} : call'[u] = call[u]
  BY <1>0, <1>2 DEF CallsOK
<1>4. \A i \in Replies : pending[i].active => pending[i].rcvid # r
  <2> SUFFICES ASSUME NEW i \in Replies, pending[i].active,
                      pending[i].rcvid = r
               PROVE  FALSE
    OBVIOUS
  <2>1. PICK u \in Threads : OwnedBy(i, u)
    BY DEF FreshInv, SlotsOwned
  <2>2. call[u] # NoCall /\ call[u].rcvid = r /\ u # t
    BY <1>1, <2>1 DEF OwnedBy, NoCall
  <2> QED BY <1>1, <2>2 DEF FreshInv, OneCallEach
<1>5. \A i \in SlotFor(r) : ~pending[i].active
  BY <1>4 DEF SlotFor
<1>6. \A i, j \in SlotFor(r) : i = j
  <2>1. \A i, j \in SlotFor(r) : ~(j < i)
    BY <1>5 DEF SlotFor
  <2>2. \A i \in SlotFor(r) : i \in Nat
    BY SenderAssumption DEF SlotFor, Replies
  <2> QED BY <2>1, <2>2
<1>7. \A i \in Replies : pending'[i] = IF i \in SlotFor(r)
                                       THEN ReplySlot(call[t]) ELSE pending[i]
  BY DEF Track
<1>8. /\ ReplySlot(call[t]).rcvid = r
      /\ ReplySlot(call[t]).generation = call[t].generation
  BY DEF ReplySlot
<1>9. OneCallEach'
  BY <1>1, <1>2, <1>3 DEF FreshInv, OneCallEach
<1>10. TriggersFresh'
  BY <1>1, <1>2, <1>3 DEF FreshInv, TriggersFresh
<1>11. OnlyPositions'
  BY <1>1, <1>2, <1>3 DEF FreshInv, OnlyPositions
<1>12. SlotsDiffer'
  BY <1>4, <1>6, <1>7, <1>8 DEF FreshInv, SlotsDiffer
<1>13. ASSUME NEW i \in Replies, pending'[i].active
       PROVE  /\ pending'[i].generation <= retry'.generation
              /\ \E u \in Threads : OwnedBy(i, u)'
  <2>1. CASE i \in SlotFor(r)
    <3>1. pending'[i].rcvid = r /\ pending'[i].generation = call[t].generation
      BY <1>7, <1>8, <2>1
    <3>2. /\ call[t].generation <= retry.generation
          /\ call[t].generation = retry.generation => t \in fresh
      BY <1>1 DEF FreshInv, TriggersFresh
    <3>3. OwnedBy(i, t)'
      BY <1>1, <1>2, <1>3, <3>1, <3>2 DEF OwnedBy
    <3> QED BY <1>1, <3>1, <3>2, <3>3
  <2>2. CASE i \notin SlotFor(r)
    <3>1. pending'[i] = pending[i] /\ pending[i].active
      BY <1>7, <1>13, <2>2
    <3>2. PICK u \in Threads : OwnedBy(i, u)
      BY <3>1 DEF FreshInv, SlotsOwned
    <3>3. u # t
      BY <1>1, <3>2 DEF OwnedBy
    <3>4. OwnedBy(i, u)'
      BY <1>1, <1>3, <3>1, <3>2, <3>3 DEF OwnedBy
    <3>5. pending[i].generation <= retry.generation
      BY <3>1 DEF FreshInv, SlotsOwned
    <3> QED BY <1>1, <3>1, <3>4, <3>5
  <2> QED BY <2>1, <2>2
<1>14. SlotsOwned'
  BY <1>13 DEF SlotsOwned
<1> QED BY <1>9, <1>10, <1>11, <1>12, <1>14 DEF FreshInv

(* A call takes the slot it filled itself.                                 *)
LEMMA FreshReplied ==
  ASSUME FreshInv, TypeOK, NEW t \in Threads, TakeReply(t)
  PROVE  FreshInv'
<1>0. CallsOK /\ retry \in Retry
  BY DEF TypeOK, CallsOK
<1>1. /\ call[t] \in Call /\ call[t] # NoCall /\ call[t].pc = "replied"
      /\ UNCHANGED <<retry, fresh>>
  <2>1. call[t].pc = "replied" /\ UNCHANGED <<retry, fresh>>
    BY DEF TakeReply, At
  <2> QED BY <1>0, <2>1 DEF CallsOK, NoCall
<1> DEFINE r == call[t].rcvid
           own == {i \in Replies : pending[i].active /\ pending[i].rcvid = r}
           k == CHOOSE i \in own : \A j \in own : i <= j
<1>2. CASE own = {}
  <2> DEFINE c == [call[t] EXCEPT !.pc = "after"]
  <2>1. /\ c.pc = "after" /\ c.rcvid = call[t].rcvid /\ c.msg = call[t].msg
        /\ c # NoCall /\ call' = [call EXCEPT ![t] = c] /\ UNCHANGED pending
    BY <1>1, <1>2 DEF TakeReply, Goes, Call, NoCall
  <2> HIDE DEF c, own
  <2> QED BY <1>0, <1>1, <2>1, FreshAside
<1>3. CASE own # {}
  <2>1. k \in own
    BY <1>3, FirstReply
  <2>2. /\ k \in Replies /\ pending[k].active /\ pending[k].rcvid = r
    BY <2>1
  <2> DEFINE c == [call[t] EXCEPT !.pc = "begin",
                                  !.sends_in = pending[k].ctx,
                                  !.generation = pending[k].generation]
  <2>3. call' = [call EXCEPT ![t] = c] /\ pending' = [pending EXCEPT ![k] = NoReply]
    BY <1>3 DEF TakeReply
  <2>4. /\ c.pc = "begin" /\ c.rcvid = r /\ c # NoCall
        /\ c.generation = pending[k].generation
    BY <1>1 DEF Call, NoCall
  <2> HIDE DEF c, k, own
  <2>5. /\ call'[t] = c
        /\ \A u \in Threads \ {t} : call'[u] = call[u]
    BY <1>0, <2>3 DEF CallsOK
  <2>6. /\ ~pending'[k].active
        /\ \A i \in Replies \ {k} : pending'[i] = pending[i]
    BY <2>2, <2>3 DEF TypeOK, NoReply
  <2>7. \A i \in Replies, u \in Threads :
          OwnedBy(i, u) /\ pending[i].rcvid = r => u = t
    <3> SUFFICES ASSUME NEW i \in Replies, NEW u \in Threads, OwnedBy(i, u),
                        pending[i].rcvid = r
                 PROVE  u = t
      OBVIOUS
    <3>1. call[u] # NoCall /\ call[u].rcvid = r
      BY DEF OwnedBy, NoCall
    <3> QED BY <1>1, <3>1 DEF FreshInv, OneCallEach
  <2>8. /\ pending[k].generation <= retry.generation
        /\ pending[k].generation = retry.generation => t \in fresh
    <3>1. PICK u \in Threads : OwnedBy(k, u)
      BY <2>2 DEF FreshInv, SlotsOwned
    <3>2. u = t
      BY <2>2, <2>7, <3>1
    <3> QED BY <2>2, <3>1, <3>2 DEF OwnedBy, FreshInv, SlotsOwned
  <2>9. OneCallEach'
    BY <1>1, <2>4, <2>5 DEF FreshInv, OneCallEach
  <2>10. TriggersFresh'
    BY <1>1, <2>4, <2>5, <2>8 DEF FreshInv, TriggersFresh
  <2>11. OnlyPositions'
    BY <1>1, <2>4, <2>5 DEF FreshInv, OnlyPositions
  <2>12. SlotsDiffer'
    BY <2>6 DEF FreshInv, SlotsDiffer
  <2>13. ASSUME NEW i \in Replies, pending'[i].active
         PROVE  /\ pending'[i].generation <= retry'.generation
                /\ \E u \in Threads : OwnedBy(i, u)'
    <3>1. i # k /\ pending'[i] = pending[i] /\ pending[i].active
      BY <2>6, <2>13
    <3>2. pending[i].rcvid # r
      BY <2>2, <3>1 DEF FreshInv, SlotsDiffer
    <3>3. PICK u \in Threads : OwnedBy(i, u)
      BY <3>1 DEF FreshInv, SlotsOwned
    <3>4. u # t
      BY <3>2, <3>3 DEF OwnedBy
    <3>5. OwnedBy(i, u)'
      BY <1>1, <2>5, <3>1, <3>3, <3>4 DEF OwnedBy
    <3>6. pending[i].generation <= retry.generation
      BY <3>1 DEF FreshInv, SlotsOwned
    <3> QED BY <1>1, <3>1, <3>5, <3>6
  <2>14. SlotsOwned'
    BY <2>13 DEF SlotsOwned
  <2> QED BY <2>9, <2>10, <2>11, <2>12, <2>14 DEF FreshInv
<1> QED BY <1>2, <1>3
LEMMA FreshInit == Init => FreshInv
BY DEF Init, NoCall, NoReply, FreshInv, OneCallEach, TriggersFresh,
       OnlyPositions, SlotsOwned, SlotsDiffer

LEMMA FreshStep ==
  ASSUME ~EagerClients, WorkersInv, FreshInv, [Next]_vars
  PROVE  FreshInv'
<1>a. TypeOK /\ BoundariesCounted /\ CallsOK /\ retry \in Retry
  BY DEF WorkersInv, TypeOK, CallsOK
<1>b. \A t \in Threads : call[t] # NoCall => call[t] \in Call
  BY <1>a DEF CallsOK
<1>c. \A t \in Threads : \A pc : At(t, pc) /\ pc # "idle" => call[t] # NoCall
  BY DEF At, NoCall
<1>d. ASSUME UNCHANGED <<call, pending, fresh>>,
             retry'.generation = retry.generation
      PROVE  FreshInv'
  BY <1>d DEF FreshInv, OneCallEach, TriggersFresh, OnlyPositions,
              SlotsOwned, OwnedBy, SlotsDiffer
<1>f. ASSUME NEW t \in Threads,
             NEW pc \in {"trigger", "stock", "replied", "spawn", "unspawned",
                         "send", "sending", "after", "claim"},
             Goes(t, pc), call[t] # NoCall,
             pc = "trigger" => call[t].pc = "rearm",
             call[t].pc \in {"stock", "replied", "after"}
               => pc \in {"stock", "replied", "after"},
             UNCHANGED <<pending, fresh>>,
             retry'.generation = retry.generation
      PROVE  FreshInv'
  <2> DEFINE c == [call[t] EXCEPT !.pc = pc]
  <2>1. /\ c.pc = pc /\ c.rcvid = call[t].rcvid /\ c.msg = call[t].msg
        /\ c # NoCall /\ call' = [call EXCEPT ![t] = c]
    BY <1>b, <1>f DEF Goes, Call, NoCall
  <2> HIDE DEF c
  <2>2. \A i \in Replies : OwnedBy(i, t)
          => c # NoCall /\ c.pc \in {"stock", "replied", "after"}
    BY <1>f, <2>1 DEF OwnedBy
  <2> QED BY <1>a, <1>f, <2>1, <2>2, FreshAside
<1>g. ASSUME NEW t \in Threads, Ends(t),
             UNCHANGED <<pending, fresh>>,
             call[t].pc \notin {"stock", "replied", "after"},
             retry'.generation = retry.generation
      PROVE  FreshInv'
  <2>1. \A i \in Replies : ~OwnedBy(i, t)
    BY <1>g DEF OwnedBy
  <2>2. NoCall.pc = "idle"
    BY DEF NoCall
  <2> QED BY <1>a, <1>g, <2>1, <2>2, FreshAside DEF Ends
<1>1. CASE UNCHANGED vars
  BY <1>1, <1>d DEF vars
<1>2. ASSUME NEW t \in Threads, NEW r \in Rcvids, NEW c \in Contexts,
             StartIdentification(t, r, c) \/ GpsInfo(t, r, c)
             \/ OcbClose(t, r, c)
      PROVE  FreshInv'
  BY <1>a, <1>2, FreshArrives DEF StartIdentification, GpsInfo, OcbClose
<1>3. ASSUME NEW t \in Threads, Reset(t) PROVE FreshInv'
  <2> DEFINE c == [call[t] EXCEPT !.pc = "clear"]
  <2>1. /\ c.pc = "clear" /\ c.rcvid = call[t].rcvid /\ c.msg = call[t].msg
        /\ c # NoCall /\ call' = [call EXCEPT ![t] = c]
        /\ call[t] # NoCall /\ call[t].pc = "reset" /\ UNCHANGED pending
    BY <1>3, <1>b, <1>c DEF Reset, Goes, At, Call, NoCall
  <2>2. retry'.generation = retry.generation + 1
    BY <1>3, <1>a, NoWrap DEF Reset, Epoch
  <2> HIDE DEF c
  <2> QED BY <1>a, <2>1, <2>2, FreshOpens
<1>4. ASSUME NEW t \in Threads, ClearReplies(t) PROVE FreshInv'
  <2> DEFINE c == [call[t] EXCEPT !.pc = "stock"]
  <2>1. /\ c.pc = "stock" /\ c.rcvid = call[t].rcvid /\ c.msg = call[t].msg
        /\ c # NoCall /\ call' = [call EXCEPT ![t] = c]
        /\ call[t] # NoCall /\ UNCHANGED <<retry, fresh>>
    BY <1>4, <1>b, <1>c DEF ClearReplies, Goes, At, Call, NoCall
  <2>2. \A i \in Replies : ~pending'[i].active
    BY <1>4 DEF ClearReplies, NoReply
  <2> HIDE DEF c
  <2> QED BY <1>a, <2>1, <2>2, FreshAside
<1>5. ASSUME NEW t \in Threads, Close(t) PROVE FreshInv'
  <2>1. CASE UNCHANGED call
    BY <1>5, <1>d, <2>1 DEF Close
  <2>2. CASE Ends(t)
    BY <1>5, <1>g, <2>2 DEF Close, At
  <2> QED BY <1>5, <2>1, <2>2 DEF Close
<1>6. ASSUME NEW t \in Threads, RearmIfStale(t) PROVE FreshInv'
  <2>1. call[t] # NoCall /\ call[t].pc = "rearm" /\ Goes(t, "trigger")
        /\ UNCHANGED pending
    BY <1>6, <1>c DEF RearmIfStale, At
  <2>2. CASE UNCHANGED <<retry, fresh>>
    BY <1>f, <2>1, <2>2
  <2>3. CASE retry' = Rearmed(NextGeneration(retry.generation))
    <3> DEFINE c == [call[t] EXCEPT !.pc = "trigger"]
    <3>1. /\ c.pc = "trigger" /\ c.rcvid = call[t].rcvid
          /\ c.msg = call[t].msg
          /\ c # NoCall /\ call' = [call EXCEPT ![t] = c]
      BY <1>b, <2>1 DEF Goes, Call, NoCall
    <3>2. retry'.generation = retry.generation + 1
      BY <1>a, <2>3, NoWrap DEF Rearmed, Epoch
    <3> HIDE DEF c
    <3> QED BY <1>a, <2>1, <3>1, <3>2, FreshOpens
  <2> QED BY <1>6, <2>2, <2>3 DEF RearmIfStale
<1>7. ASSUME NEW t \in Threads, TakeTrigger(t) PROVE FreshInv'
  BY <1>a, <1>7, FreshTaken
<1>8. ASSUME NEW t \in Threads, Track(t) PROVE FreshInv'
  BY <1>a, <1>8, FreshTracked
<1>9. ASSUME NEW t \in Threads, RealReply(t) \/ NoRealReply(t)
      PROVE  FreshInv'
  BY <1>9, <1>c, <1>f DEF RealReply, NoRealReply, At
<1>10. ASSUME NEW t \in Threads, TakeReply(t) PROVE FreshInv'
  BY <1>a, <1>10, FreshReplied
<1>11. ASSUME NEW t \in Threads, Begin(t) PROVE FreshInv'
  <2>1. CASE ~MayBegin(call[t])
    BY <1>11, <1>c, <1>f, <2>1 DEF Begin, At
  <2>2. CASE MayBegin(call[t])
    <3> DEFINE c == [call[t] EXCEPT
                       !.pc = IF retry.thread_running THEN "send"
                                                      ELSE "spawn",
                       !.created = retry.generation]
    <3>1. /\ c.pc \in {"send", "spawn"} /\ c.rcvid = call[t].rcvid
          /\ c.msg = call[t].msg /\ c # NoCall
          /\ call' = [call EXCEPT ![t] = c]
          /\ call[t] # NoCall /\ call[t].pc = "begin"
      BY <1>11, <1>b, <1>c, <2>2 DEF Begin, At, Call, NoCall
    <3>2. retry'.generation = retry.generation
      BY <1>11, <1>a, <2>2 DEF Begin, Begun, Retry
    <3>3. UNCHANGED <<pending, fresh>>
      BY <1>11 DEF Begin
    <3>4. \A i \in Replies : ~OwnedBy(i, t)
      BY <3>1 DEF OwnedBy
    <3> HIDE DEF c
    <3> QED BY <1>a, <3>1, <3>2, <3>3, <3>4, FreshAside
  <2> QED BY <2>1, <2>2
<1>12. ASSUME NEW t \in Threads, Spawn(t) PROVE FreshInv'
  BY <1>12, <1>c, <1>f DEF Spawn, At
<1>13. ASSUME NEW t \in Threads, SpawnFailed(t) PROVE FreshInv'
  <2>1. retry'.generation = retry.generation
    BY <1>13, <1>a DEF SpawnFailed, Retry
  <2> QED BY <1>13, <1>c, <1>f, <2>1 DEF SpawnFailed, At
<1>14. ASSUME NEW t \in Threads, After(t) PROVE FreshInv'
  <2>0. /\ call[t] # NoCall /\ call[t].pc = "after" /\ call[t] \in Call
        /\ UNCHANGED <<retry, fresh>>
    BY <1>14, <1>b, <1>c DEF After, At
  <2>1. CASE call[t].msg = "2700"
    <3> DEFINE c == [call[t] EXCEPT !.pc = "claim"]
    <3>1. /\ c.pc = "claim" /\ c.rcvid = call[t].rcvid
          /\ c.msg = call[t].msg /\ c # NoCall
          /\ call' = [call EXCEPT ![t] = c]
      BY <1>14, <2>0, <2>1 DEF After, Goes, Call, NoCall
    <3>2. \A i \in Replies :
            pending'[i] = IF pending[i].active /\ pending[i].rcvid = call[t].rcvid
                          THEN NoReply ELSE pending[i]
      BY <1>14, <2>1 DEF After
    <3>3. \A i \in Replies :
            pending'[i].active => /\ pending'[i] = pending[i]
                                  /\ pending[i].rcvid # call[t].rcvid
      BY <3>2 DEF NoReply
    <3>4. \A i \in Replies : pending'[i].active => ~OwnedBy(i, t)
      BY <3>3 DEF OwnedBy
    <3> HIDE DEF c
    <3> QED BY <1>a, <2>0, <3>1, <3>3, <3>4, FreshAside
  <2>2. CASE call[t].msg # "2700"
    <3>1. Ends(t) /\ UNCHANGED pending
      BY <1>14, <2>2 DEF After
    <3>2. \A i \in Replies : ~OwnedBy(i, t)
      BY <2>2 DEF OwnedBy
    <3>3. NoCall.pc = "idle"
      BY DEF NoCall
    <3> QED BY <1>a, <2>0, <3>1, <3>2, <3>3, FreshAside DEF Ends
  <2> QED BY <2>1, <2>2
<1>15. ASSUME NEW t \in Threads, Claim(t) PROVE FreshInv'
  <2>0. call[t] # NoCall /\ call[t].pc = "claim" /\ call[t] \in Call
        /\ UNCHANGED <<pending, fresh>>
    BY <1>15, <1>b, <1>c DEF Claim, At
  <2>1. retry'.generation = retry.generation
    BY <1>15, <1>a DEF Claim, Retry
  <2>2. CASE Ends(t)
    BY <1>g, <2>0, <2>1, <2>2
  <2>3. CASE ~Ends(t)
    <3> DEFINE c == [call[t] EXCEPT !.pc = "send", !.deferred = TRUE,
                                    !.sends_in = call[t].ctx]
    <3>1. /\ c.pc = "send" /\ c.rcvid = call[t].rcvid
          /\ c.msg = call[t].msg /\ c # NoCall
          /\ call' = [call EXCEPT ![t] = c]
      BY <1>15, <2>0, <2>3 DEF Claim, Call, NoCall
    <3>2. \A i \in Replies : ~OwnedBy(i, t)
      BY <2>0 DEF OwnedBy
    <3> HIDE DEF c
    <3> QED BY <1>a, <2>0, <2>1, <3>1, <3>2, FreshAside
  <2> QED BY <2>2, <2>3
<1>16. ASSUME NEW t \in Threads, Send(t) \/ Sent(t) PROVE FreshInv'
  BY <1>16, <1>c, <1>f, <1>g DEF Send, Sent, Leaves, At
<1>17. ASSUME \/ \E g \in Generations : WorkerRound(g)
              \/ NoteRgiRx \/ RetryFallsDue \/ RgiFallsSilent
       PROVE  FreshInv'
  <2>1. retry'.generation = retry.generation
    BY <1>17, <1>a DEF WorkerRound, NoteRgiRx, RetryFallsDue, RgiFallsSilent,
                       Retry
  <2>2. UNCHANGED <<call, pending, fresh>>
    BY <1>17 DEF WorkerRound, NoteRgiRx, RetryFallsDue, RgiFallsSilent
  <2> QED BY <1>d, <2>1, <2>2
<1> QED
  BY <1>1, <1>2, <1>3, <1>4, <1>5, <1>6, <1>7, <1>8, <1>9, <1>10, <1>11,
     <1>12, <1>13, <1>14, <1>15, <1>16, <1>17
  DEF Next, Handles

(* Only Begin turns the asking on, and what it begins was taken for the    *)
(* trigger of this epoch.                                                  *)
LEMMA BegunFresh ==
  ASSUME TypeOK, FreshInv, [Next]_vars, ~retry.enabled, retry'.enabled
  PROVE  \E t \in fresh : At(t, "begin") /\ ~At(t, "begin")'
<1>a. CallsOK /\ retry \in Retry
  BY DEF TypeOK, CallsOK
<1>1. \E t \in Threads : Begin(t)
  <2>1. retry' # retry
    OBVIOUS
  <2>2. ~\E t \in Threads : \/ Reset(t) \/ RearmIfStale(t) \/ SpawnFailed(t)
                            \/ Claim(t)
    BY <1>a, <2>1 DEF Reset, RearmIfStale, SpawnFailed, Claim, Epoch, Rearmed,
                      Retry
  <2>3. /\ ~\E g \in Generations : WorkerRound(g)
        /\ ~NoteRgiRx /\ ~RetryFallsDue /\ ~RgiFallsSilent
    BY <1>a, <2>1 DEF WorkerRound, NoteRgiRx, RetryFallsDue, RgiFallsSilent,
                      Retry
  <2>4. ~\E t \in Threads :
           \/ ClearReplies(t) \/ Close(t) \/ TakeTrigger(t) \/ Track(t)
           \/ RealReply(t) \/ NoRealReply(t) \/ TakeReply(t) \/ Spawn(t)
           \/ After(t) \/ Send(t) \/ Sent(t)
    BY <2>1 DEF ClearReplies, Close, TakeTrigger, Track, RealReply,
                NoRealReply, TakeReply, Spawn, After, Send, Sent
  <2>5. ~\E t \in Threads, r \in Rcvids, c \in Contexts :
           StartIdentification(t, r, c) \/ GpsInfo(t, r, c) \/ OcbClose(t, r, c)
    BY <2>1 DEF StartIdentification, GpsInfo, OcbClose, Arrives
  <2> QED BY <2>1, <2>2, <2>3, <2>4, <2>5 DEF Next, Handles, vars
<1>2. PICK t \in Threads : Begin(t)
  BY <1>1
<1>3. /\ call[t] \in Call /\ call[t].pc = "begin" /\ MayBegin(call[t])
  BY <1>a, <1>2 DEF Begin, At, CallsOK, NoCall
<1>4. t \in fresh
  BY <1>3 DEF MayBegin, FreshInv, TriggersFresh
<1>5. call'[t].pc # "begin"
  BY <1>a, <1>2, <1>3 DEF Begin, CallsOK, Call
<1> QED BY <1>3, <1>4, <1>5 DEF At

(* Where a client has one message at a time, an epoch is begun only by the *)
(* reply to a position taken as its trigger since the last boundary,       *)
(* however resets, clears, delayed replies and handlers without one        *)
(* interleave and whether or not a slot was free.                          *)
THEOREM FreshTriggersBegin ==
  ASSUME ~EagerClients
  PROVE  Spec => FreshTriggerBegins
<1>1. Init => WorkersInv /\ FreshInv
  BY InitType, WorkersInit, FreshInit DEF WorkersInv
<1>2. WorkersInv /\ FreshInv /\ [Next]_vars => WorkersInv' /\ FreshInv'
  BY TypeStep, WorkersStep, FreshStep DEF WorkersInv
<1>3. WorkersInv /\ FreshInv /\ [Next]_vars
      => [~retry.enabled /\ retry'.enabled
          => \E t \in fresh : At(t, "begin") /\ ~At(t, "begin")']_vars
  BY BegunFresh DEF WorkersInv
<1> QED BY <1>1, <1>2, <1>3, PTL DEF Spec, FreshTriggerBegins

(* The epoch has the one worker it is to have and a way on, for any number *)
(* of threads and contexts.                                                *)
THEOREM EpochsAccounted == Spec => []EpochAccounted
BY WorkersAccounted, AlwaysAWayOn, PTL DEF EpochAccounted
=============================================================================
