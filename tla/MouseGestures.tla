--------------------------- MODULE MouseGestures ---------------------------
(***************************************************************************)
(* The resident's reading of the mouse: MouseState of mouse.rs, and how    *)
(* app.rs feeds it hook messages, arms its two window timers and acts on   *)
(* what take_due emits.  The hook thread posts events that may be lost, so *)
(* any event can follow any other.                                         *)
(*                                                                         *)
(* A spot stands for a screen point with the process and root window under *)
(* it; spots in Near are within the jitter threshold of each other in the  *)
(* same window.  A deadline is "Running" and then "Due".  hover_generation *)
(* is only compared before and after one call, so it is kept as the two    *)
(* conditions under which a call advances it, Dwells and LeavesAnchor.  Of *)
(* a queued release only its place in the queue matters here: what it      *)
(* carries (points, process, selection rectangle) and the memory of the    *)
(* last click that goes into it are left out.                              *)
(***************************************************************************)
EXTENDS Naturals

CONSTANTS Spots, Near, NoSpot, MaxReleases

ASSUME MouseAssumption ==
    /\ NoSpot \notin Spots
    /\ \A pair \in Near : pair \subseteq Spots
    /\ MaxReleases \in Nat \ {0}

VARIABLES
    mouse,       \* MouseState
    hoverOn,     \* ShellState.hover_enabled
    rest,        \* ShellState.rest_enabled
    timers,      \* the window timers that are set
    tick,        \* a WM_TIMER is in the message queue
    extraction   \* the pending Hover extraction

mouseVars == <<mouse, hoverOn, rest, timers, tick, extraction>>

Deadlines == {"None", "Running", "Due"}
Place == Spots \cup {NoSpot}
NoExtraction == [spot |-> NoSpot, fromPopup |-> FALSE]

MouseState ==
    [down : BOOLEAN, releases : 0..MaxReleases, selection : Deadlines,
     enabled : BOOLEAN, anchor : Place, candidate : Place, hover : Deadlines]

NewMouse ==
    [down |-> FALSE, releases |-> 0, selection |-> "None",
     enabled |-> FALSE, anchor |-> NoSpot, candidate |-> NoSpot, hover |-> "None"]

MouseTypeOK ==
    /\ mouse \in MouseState
    /\ hoverOn \in BOOLEAN /\ rest \in BOOLEAN /\ tick \in BOOLEAN
    /\ timers \subseteq {"Selection", "Hover"}
    /\ extraction \in [spot : Spots, fromPopup : BOOLEAN] \cup {NoExtraction}

MouseInit ==
    /\ mouse = NewMouse
    /\ hoverOn = FALSE /\ rest = FALSE /\ timers = {} /\ tick = FALSE
    /\ extraction = NoExtraction

-----------------------------------------------------------------------------
(* MouseState *)

SamePlace(a, b) == a = b \/ {a, b} \in Near

(* A hover dwell is under way, or a hover fired from where the pointer is. *)
Dwells(m) == m.hover # "None" \/ m.anchor # NoSpot \/ m.candidate # NoSpot

LeavesAnchor(m, spot) == m.anchor # NoSpot /\ ~SamePlace(m.anchor, spot)

WithoutDwell(m) ==
    [m EXCEPT !.hover = "None", !.anchor = NoSpot, !.candidate = NoSpot]

SetHoverEnabled(m, enabled) == [WithoutDwell(m) EXCEPT !.enabled = enabled]

OnLeftDown(m) == [WithoutDwell(m) EXCEPT !.down = TRUE]

(* Every release is queued and starts the delay anew, whether it ended a   *)
(* drag, a double click or neither.                                        *)
OnLeftUp(m) ==
    [WithoutDwell(m) EXCEPT
        !.down = FALSE, !.releases = @ + 1, !.selection = "Running"]

(* Movement within the threshold neither extends nor replaces a dwell. *)
OnMove(m, spot) ==
    IF m.enabled /\ ~m.down /\ (m.anchor = NoSpot \/ LeavesAnchor(m, spot))
    THEN [m EXCEPT !.anchor = spot, !.candidate = spot, !.hover = "Running"]
    ELSE m

(* Mutant of TakeDue: releases that are left wait for no deadline. *)
TakeDueOnce(m) ==
    LET selection == m.selection = "Due"
        hover == m.hover = "Due"
    IN  [m EXCEPT !.releases = IF selection THEN @ - 1 ELSE @,
                  !.selection = IF selection THEN "None" ELSE @,
                  !.candidate = IF hover THEN NoSpot ELSE @,
                  !.hover = IF hover THEN "None" ELSE @]

(* take_due pops one release per expiry and restarts the delay for those   *)
(* that are left.                                                          *)
TakeDue(m) ==
    LET selection == m.selection = "Due"
        hover == m.hover = "Due"
    IN  [m EXCEPT !.releases = IF selection THEN @ - 1 ELSE @,
                  !.selection = IF ~selection THEN @
                                ELSE IF m.releases > 1 THEN "Running" ELSE "None",
                  !.candidate = IF hover THEN NoSpot ELSE @,
                  !.hover = IF hover THEN "None" ELSE @]

-----------------------------------------------------------------------------
(* The message loop *)

(* Mutant of Arm: a timer that is set is left alone. *)
ArmOnly(m) ==
    timers' = timers \cup (IF m.selection # "None" THEN {"Selection"} ELSE {})
                     \cup (IF m.hover # "None" THEN {"Hover"} ELSE {})

(* arm_mouse_timers *)
Arm(m) ==
    timers' = (IF m.selection # "None" THEN {"Selection"} ELSE {})
              \cup (IF m.hover # "None" THEN {"Hover"} ELSE {})

(* Mutant of DropHover: an emitted hover is not taken back once its own    *)
(* deadline has passed.                                                    *)
DropHoverWhileDwelling(changed) ==
    extraction' = IF changed /\ mouse.hover # "None" THEN NoExtraction ELSE extraction

(* cancel_hover_extraction when the generation changed. *)
DropHover(changed) == extraction' = IF changed THEN NoExtraction ELSE extraction

LeftDown ==
    /\ ~rest
    /\ mouse' = OnLeftDown(mouse)
    /\ DropHover(Dwells(mouse)) /\ Arm(mouse')
    /\ UNCHANGED <<hoverOn, rest, tick>>

LeftUp ==
    /\ ~rest /\ mouse.releases < MaxReleases
    /\ mouse' = OnLeftUp(mouse)
    /\ DropHover(Dwells(mouse)) /\ Arm(mouse')
    /\ UNCHANGED <<hoverOn, rest, tick>>

Move(spot) ==
    /\ ~rest /\ mouse' = OnMove(mouse, spot)
    /\ DropHover(mouse.enabled /\ ~mouse.down /\ LeavesAnchor(mouse, spot))
    /\ Arm(mouse')
    /\ UNCHANGED <<hoverOn, rest, tick>>

(* Another button went down, or the foreground left for a window that is   *)
(* no popup: the dwell, its timer and its extraction go.                   *)
CancelDwell ==
    /\ mouse' = WithoutDwell(mouse)
    /\ timers' = timers \ {"Hover"}
    /\ extraction' = NoExtraction
    /\ UNCHANGED <<hoverOn, rest, tick>>

(* Time passes: a deadline expires. *)
SelectionExpires ==
    /\ mouse.selection = "Running" /\ mouse' = [mouse EXCEPT !.selection = "Due"]
    /\ UNCHANGED <<hoverOn, rest, timers, tick, extraction>>

HoverExpires ==
    /\ mouse.hover = "Running" /\ mouse' = [mouse EXCEPT !.hover = "Due"]
    /\ UNCHANGED <<hoverOn, rest, timers, tick, extraction>>

(* A window timer puts a WM_TIMER into the queue, at times a little before *)
(* the deadline; killing the timer does not take it out again.             *)
TimerElapses ==
    /\ timers # {} /\ ~tick /\ tick' = TRUE
    /\ UNCHANGED <<mouse, hoverOn, rest, timers, extraction>>

(* WM_TIMER: begin_request may refuse either trigger; an accepted          *)
(* Selection replaces a pending Hover.  fromPopup: the candidate lies on   *)
(* the completed output of a popup.                                        *)
WmTimer(fromPopup) ==
    /\ tick /\ ~rest /\ tick' = FALSE
    /\ mouse' = TakeDue(mouse)
    /\ Arm(mouse')
    /\ LET selected == IF mouse.selection = "Due"
                       THEN {extraction, NoExtraction} ELSE {extraction}
           hovered == IF mouse.hover = "Due"
                      THEN {[spot |-> mouse.candidate, fromPopup |-> fromPopup]} ELSE {}
       IN  extraction' \in selected \cup hovered
    /\ UNCHANGED <<hoverOn, rest>>

(* WM_TIMER at rest. *)
WmTimerAtRest ==
    /\ tick /\ rest /\ tick' = FALSE
    /\ timers' = {}
    /\ UNCHANGED <<mouse, hoverOn, rest, extraction>>

(* The tray's or the hotkey's hover toggle. *)
ToggleHover ==
    /\ ~rest
    /\ hoverOn' = ~hoverOn
    /\ mouse' = SetHoverEnabled(mouse, hoverOn')
    /\ DropHover(hoverOn) /\ Arm(mouse')
    /\ UNCHANGED <<rest, tick>>

(* set_rest_mode, the mouse's part: a new MouseState and no timers. *)
ToggleRest ==
    /\ rest' = ~rest
    /\ mouse' = SetHoverEnabled(NewMouse, hoverOn)
    /\ timers' = {}
    /\ extraction' = NoExtraction
    /\ UNCHANGED <<hoverOn, tick>>

(* The pending Hover extraction is answered, or another request replaces   *)
(* it.                                                                     *)
ExtractionEnds ==
    /\ extraction # NoExtraction /\ extraction' = NoExtraction
    /\ UNCHANGED <<mouse, hoverOn, rest, timers, tick>>

-----------------------------------------------------------------------------
(* Whatever waits has a deadline, and every deadline its window timer:     *)
(* handlers, cancellations and rest mode change the two apart from each    *)
(* other (arm_mouse_timers against the KillTimer calls of app.rs).         *)
TimersMatchDeadlines ==
    /\ mouse.releases # 0 <=> mouse.selection # "None"
    /\ mouse.selection # "None" <=> "Selection" \in timers
    /\ mouse.hover # "None" <=> "Hover" \in timers

(* A pending Hover extraction is for the place the pointer is known to     *)
(* rest on, with Hover on, no button held and no rest mode: movement,      *)
(* buttons, toggles and foreground changes take the old one back           *)
(* (hover_generation, cancel_hover_extraction).                            *)
HoverWorkIsCurrent ==
    extraction # NoExtraction =>
        ~rest /\ hoverOn /\ ~mouse.down /\ mouse.anchor = extraction.spot

(* Every queued selection release is observed in its turn or dropped by    *)
(* rest mode: none stays behind a timer that never comes.                  *)
EveryReleaseIsObserved ==
    []<>(mouse.releases = 0) \/ []<><<mouse'.releases < mouse.releases>>_mouse
=============================================================================
