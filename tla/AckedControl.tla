---------------------------- MODULE AckedControl ----------------------------
(***************************************************************************)
(* What the display control promises for one private cluster session,      *)
(* whatever threads, timers, tokens and reconnects it is built from:       *)
(*                                                                         *)
(*   showUI -> updateViewArea -> forceKeyFrame                             *)
(*                                                                         *)
(* is walked one acknowledged command at a time.  A step is left forwards  *)
(* only in the very transition in which the phone confirms that command    *)
(* for the current goal; otherwise the walk is abandoned.                  *)
(***************************************************************************)
EXTENDS Integers

VARIABLES
  step,    \* the command the session stands at
  asked,   \* that command has been handed to the phone and is unanswered
  goal,    \* the ViewArea being established
  ui,      \* the layout whose showUI is known to have succeeded, or NoUi
  shown    \* what the phone's answers have confirmed: [ui, view]

vars == <<step, asked, goal, ui, shown>>

Views  == 0..3
NoView == -1
NoUi   == -1
UiSlot(view) == IF view \in {2, 3} THEN 1 ELSE 0

Blank == step = "idle" /\ ~asked /\ goal = NoView /\ ui = NoUi

Init == Blank /\ shown = [ui |-> NoUi, view |-> NoView]

(* A session opens or closes: nothing of the previous walk survives. *)
Reset == Blank'

(* A failed showUI leaves the layout on the phone unknown. *)
UiAfterFailure == IF step = "show" THEN NoUi ELSE ui

(* A new goal replaces whatever was planned, abandoning a command that got *)
(* no answer, and its first command may be asked in the same breath.       *)
Aim(view, ask) ==
  /\ ui'    = IF asked THEN UiAfterFailure ELSE ui
  /\ step'  = IF ui' = UiSlot(view) THEN "view" ELSE "show"
  /\ goal'  = view
  /\ asked' = ask
  /\ UNCHANGED shown

Ask ==
  /\ ~asked /\ step # "idle"
  /\ asked' = TRUE
  /\ UNCHANGED <<step, goal, ui, shown>>

Abandon ==
  /\ asked
  /\ asked' = FALSE
  /\ step'  = "idle"
  /\ ui'    = UiAfterFailure
  /\ UNCHANGED <<goal, shown>>

(* The phone confirms the command asked for, for this goal. *)
ConfirmUi ==
  /\ asked /\ step = "show"
  /\ shown'.ui = UiSlot(goal)
  /\ ui' = UiSlot(goal)
  /\ step' = "view" /\ asked' = FALSE
  /\ UNCHANGED goal

ConfirmView ==
  /\ asked /\ step = "view"
  /\ shown'.view = goal
  /\ step' = "keyframe" /\ asked' = FALSE
  /\ UNCHANGED <<goal, ui>>

ConfirmKeyframe ==
  /\ asked /\ step = "keyframe"
  /\ step' = "idle" /\ asked' = FALSE
  /\ UNCHANGED <<goal, ui, shown>>

(* Answers to commands nobody waits for any more still tell what is shown. *)
LateAnswer == UNCHANGED <<step, asked, goal, ui>>

Next ==
  \/ Reset
  \/ \E view \in Views, ask \in BOOLEAN : Aim(view, ask)
  \/ Ask \/ Abandon
  \/ ConfirmUi \/ ConfirmView \/ ConfirmKeyframe
  \/ LateAnswer

Spec == Init /\ [][Next]_vars
=============================================================================
