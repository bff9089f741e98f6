------------------------------ MODULE Desktop ------------------------------
(***************************************************************************)
(* Mouse and popup together, as the resident's message loop joins them: a  *)
(* press elsewhere dismisses the popup, the pointer over a popup's         *)
(* finished text is read like any other text, and the popup a Hover        *)
(* extraction reads from can go away.  What the popup is asked to show is  *)
(* ResidentShell's matter; here any of its requests may come at any time   *)
(* its guards allow.                                                       *)
(***************************************************************************)
EXTENDS MouseGestures, PopupWindow

CONSTANT Output   \* the spot on the output control of the popup

ASSUME DesktopAssumption == Output \in Spots /\ \A pair \in Near : Output \notin pair

vars == <<mouseVars, popupVars>>

Init == MouseInit /\ PopupInit

TypeOK == MouseTypeOK /\ PopupTypeOK

(* contains_completed_output_point *)
ReadableOutput == win.life = "Open" /\ win.state = "Completed" /\ win.standard

(* What removing the popup does to the extraction that reads from it. *)
ForgetSource(e) == IF e.fromPopup THEN NoExtraction ELSE e

(* Mutant of RemovePopup: the extraction of the popup's text goes on. *)
RemovePopupOnly == Remove /\ UNCHANGED mouseVars

(* remove_popup *)
RemovePopup ==
    /\ Remove
    /\ extraction' = ForgetSource(extraction)
    /\ UNCHANGED <<mouse, hoverOn, rest, timers, tick>>

-----------------------------------------------------------------------------
(* Hook messages: events over the resident's own windows are left to those *)
(* windows, but for moves over readable output while Hover is on.          *)

(* dismiss_unpinned_outside, for a press outside the popup *)
DismissOutside == IF Reusable THEN Remove ELSE UNCHANGED popupVars

PressLeft == LeftDown /\ DismissOutside

ReleaseLeft == LeftUp /\ UNCHANGED popupVars

PressOther == ~rest /\ CancelDwell /\ DismissOutside

PointerMoves(spot) ==
    /\ spot = Output => hoverOn /\ ReadableOutput
    /\ Move(spot) /\ UNCHANGED popupVars

(* handle_foreground_changed, to a window that is no popup: a Hover's      *)
(* popup goes when the window it belongs to is no longer in front.         *)
ForegroundChanges ==
    /\ CancelDwell
    /\ \/ win.hover /\ Reusable /\ Remove
       \/ UNCHANGED popupVars

-----------------------------------------------------------------------------
(* Timers and toggles *)

(* A chooser is on screen, or the user may just have closed it. *)
ChooserIsUp == win.choosing \/ win.life = "Closed"

TimerFires ==
    /\ WmTimer(mouse.candidate = Output /\ ReadableOutput)
    /\ UNCHANGED popupVars

(* begin_request for a Selection removes the chooser of the one before.    *)
TimerFiresOverChooser ==
    /\ tick /\ ~rest /\ mouse.selection = "Due" /\ ChooserIsUp
    /\ tick' = FALSE /\ mouse' = TakeDue(mouse) /\ Arm(mouse')
    /\ Remove
    /\ extraction' = NoExtraction
    /\ UNCHANGED <<hoverOn, rest>>

SwitchHover ==
    /\ ToggleHover
    /\ IF hoverOn /\ win.hover THEN Remove ELSE UNCHANGED popupVars

SwitchRest == ToggleRest /\ Remove

-----------------------------------------------------------------------------
(* The resident's work on the popup *)

(* Nothing but a Hover extraction is tracked here, and it shares the one   *)
(* slot for a pending attempt with the others.                             *)
Answered(hover) ==
    /\ ~rest
    /\ IF hover THEN extraction # NoExtraction /\ ~extraction.fromPopup
       ELSE extraction = NoExtraction
    /\ extraction' = NoExtraction
    /\ UNCHANGED <<mouse, hoverOn, rest, timers, tick>>

AnswerIsPresented(hover) == Answered(hover) /\ PresentNew(hover)

AnswerIsRefused == Answered(FALSE) /\ PresentError

SelectionIsAnswered == Answered(FALSE) /\ PresentChooser

(* A cascade's answer goes to a popup of its own. *)
HoverEnds == ExtractionEnds /\ UNCHANGED popupVars

StreamSends == Delta /\ UNCHANGED mouseVars

StreamEnds == Finish /\ UNCHANGED mouseVars

(* apply_config: work in flight is cancelled, a chooser shows the new      *)
(* profiles or goes.                                                       *)
Reload ==
    /\ ~rest
    /\ StopJob \/ RefreshChooser \/ (ChooserIsUp /\ Remove)
    /\ extraction' = NoExtraction
    /\ UNCHANGED <<mouse, hoverOn, rest, timers, tick>>

(* The posted messages, in their order. *)
HandleDismissed ==
    /\ posts # <<>> /\ Head(posts) = "Dismissed"
    /\ RemovePopup

(* replay_popup cancels the work in flight; admission may still refuse. *)
HandleReplay ==
    /\ posts # <<>> /\ Head(posts) = "Replay"
    /\ \/ /\ \/ \E hover \in BOOLEAN : PresentResult(hover, Tail(posts))
             \/ win' = [win EXCEPT !.job = FALSE] /\ posts' = Tail(posts)
          /\ extraction' = NoExtraction
          /\ UNCHANGED <<mouse, hoverOn, rest, timers, tick>>
       \/ posts' = Tail(posts) /\ UNCHANGED <<win, mouseVars>>

(* begin_selected_profile: admitted, or refused by the coordinator or the  *)
(* generation check, which leaves the chooser as it is.                    *)
HandleChosen ==
    /\ posts # <<>> /\ Head(posts) = "Chosen"
    /\ \/ Answered(FALSE) /\ PresentResult(FALSE, Tail(posts))
       \/ posts' = Tail(posts) /\ UNCHANGED <<win, mouseVars>>

UserActs ==
    /\ CloseByUser \/ PressReplay \/ PressPin \/ PressChoice
       \/ EnterMove \/ ExitMove
    /\ UNCHANGED mouseVars

Renders == RenderTimer /\ UNCHANGED mouseVars

Expires == (SelectionExpires \/ HoverExpires) /\ UNCHANGED popupVars

Ticks == TimerElapses /\ UNCHANGED popupVars

Next ==
    \/ \E spot \in Spots : PointerMoves(spot)
    \/ PressLeft \/ ReleaseLeft \/ PressOther \/ ForegroundChanges
    \/ Expires \/ Ticks \/ TimerFires \/ TimerFiresOverChooser
    \/ (WmTimerAtRest /\ UNCHANGED popupVars)
    \/ SwitchHover \/ SwitchRest
    \/ \E hover \in BOOLEAN : AnswerIsPresented(hover)
    \/ AnswerIsRefused \/ SelectionIsAnswered \/ HoverEnds
    \/ StreamSends \/ StreamEnds \/ Reload
    \/ HandleDismissed \/ HandleReplay \/ HandleChosen
    \/ UserActs \/ Renders

(* Time passes, Windows delivers timer messages, and the loop takes them.  *)
Fairness ==
    /\ WF_vars(SelectionExpires /\ UNCHANGED popupVars)
    /\ WF_vars(Ticks)
    /\ WF_vars(TimerFires \/ TimerFiresOverChooser)

Spec == Init /\ [][Next]_vars /\ Fairness

(* The popup whose text is being read is there, though the user may just   *)
(* have closed it: whatever removes it takes the extraction back.          *)
SourceIsThere == extraction.fromPopup => win.life # "None"
=============================================================================
