---------------------------- MODULE DesktopProofs ----------------------------
(***************************************************************************)
(* Mouse and popup for every set of spots, output length, chooser and      *)
(* message bound.                                                          *)
(*                                                                         *)
(* The mouse's properties need its shape: a dwell belongs to an enabled    *)
(* Hover and a released button, and a deadline to a candidate that is the  *)
(* anchor.  The popup's are inductive together.  They are proved apart,    *)
(* since each joint action is an action of both, and then joined for the   *)
(* popup a Hover reads from.                                               *)
(***************************************************************************)
EXTENDS Desktop, TLAPS

MouseShape ==
    /\ mouse.enabled = hoverOn
    /\ mouse.anchor # NoSpot => mouse.enabled /\ ~mouse.down
    /\ mouse.hover # "None" => mouse.anchor # NoSpot /\ mouse.candidate = mouse.anchor
    /\ rest => mouse = SetHoverEnabled(NewMouse, hoverOn)

MouseInv == MouseTypeOK /\ MouseShape /\ TimersMatchDeadlines /\ HoverWorkIsCurrent

USE DEF MouseTypeOK, MouseState, Place, Deadlines, MouseShape, TimersMatchDeadlines,
        HoverWorkIsCurrent, NoExtraction, Arm, DropHover, WithoutDwell

-----------------------------------------------------------------------------
(* The mouse *)

(* A pending Hover extraction can be taken back at any time.               *)
LEMMA DroppingExtraction ==
  ASSUME MouseInv, extraction' \in {extraction, NoExtraction},
         UNCHANGED <<mouse, hoverOn, rest, timers, tick>>
  PROVE  MouseInv'
<1>1. CASE extraction' = extraction
  BY <1>1 DEF MouseInv
<1>2. CASE extraction' = NoExtraction
  <2>1. mouse' \in MouseState /\ timers' \subseteq {"Selection", "Hover"}
    BY DEF MouseInv
  <2>2. hoverOn' \in BOOLEAN /\ rest' \in BOOLEAN /\ tick' \in BOOLEAN
    BY DEF MouseInv
  <2>3. MouseTypeOK'
    <3>1. extraction' \in [spot : Spots, fromPopup : BOOLEAN] \cup {NoExtraction}
      BY <1>2
    <3> QED
      BY <2>1, <2>2, <3>1
  <2>4. MouseShape' /\ TimersMatchDeadlines' /\ HoverWorkIsCurrent'
    BY <1>2 DEF MouseInv
  <2> QED
    BY <2>3, <2>4 DEF MouseInv
<1> QED
  BY <1>1, <1>2

(* A press ends the dwell and takes its extraction back.                   *)
LEMMA LeftDownInv ==
  ASSUME MouseInv, LeftDown
  PROVE  MouseInv'
<1>1. MouseTypeOK'
  <2>1. mouse' \in MouseState
    BY MouseAssumption DEF MouseInv, LeftDown, OnLeftDown
  <2>2. extraction' \in [spot : Spots, fromPopup : BOOLEAN] \cup {NoExtraction}
    BY DEF MouseInv, LeftDown
  <2>3. timers' \subseteq {"Selection", "Hover"}
    BY DEF LeftDown
  <2>4. hoverOn' \in BOOLEAN /\ rest' \in BOOLEAN /\ tick' \in BOOLEAN
    BY DEF MouseInv, LeftDown
  <2> QED
    BY <2>1, <2>2, <2>3, <2>4
<1>2. MouseShape'
  BY MouseAssumption DEF MouseInv, LeftDown, OnLeftDown, Dwells
<1>3. TimersMatchDeadlines'
  BY MouseAssumption DEF MouseInv, LeftDown, OnLeftDown, Dwells
<1>4. HoverWorkIsCurrent'
  BY MouseAssumption DEF MouseInv, LeftDown, OnLeftDown, Dwells
<1> QED
  BY <1>1, <1>2, <1>3, <1>4 DEF MouseInv

(* A release is queued with a deadline and a timer.                         *)
LEMMA LeftUpInv ==
  ASSUME MouseInv, LeftUp
  PROVE  MouseInv'
<1>1. MouseTypeOK'
  <2>1. mouse' \in MouseState
    <3>1. mouse.releases + 1 \in 0..MaxReleases
      BY MouseAssumption DEF MouseInv, LeftUp
    <3> DEFINE queued == mouse.releases + 1
    <3>2. mouse' = [mouse EXCEPT !.hover = "None", !.anchor = NoSpot, !.candidate = NoSpot,
                                 !.down = FALSE, !.releases = queued,
                                 !.selection = "Running"]
      BY DEF MouseInv, LeftUp, OnLeftUp
    <3> HIDE DEF queued
    <3>3. queued \in 0..MaxReleases
      BY <3>1 DEF queued
    <3> QED
      BY <3>2, <3>3 DEF MouseInv
  <2>2. extraction' \in [spot : Spots, fromPopup : BOOLEAN] \cup {NoExtraction}
    BY DEF MouseInv, LeftUp
  <2>3. timers' \subseteq {"Selection", "Hover"}
    BY DEF LeftUp
  <2>4. hoverOn' \in BOOLEAN /\ rest' \in BOOLEAN /\ tick' \in BOOLEAN
    BY DEF MouseInv, LeftUp
  <2> QED
    BY <2>1, <2>2, <2>3, <2>4
<1>2. MouseShape'
  BY MouseAssumption DEF MouseInv, LeftUp, OnLeftUp, Dwells
<1>3. TimersMatchDeadlines'
  BY MouseAssumption DEF MouseInv, LeftUp, OnLeftUp, Dwells
<1>4. HoverWorkIsCurrent'
  BY MouseAssumption DEF MouseInv, LeftUp, OnLeftUp, Dwells
<1> QED
  BY <1>1, <1>2, <1>3, <1>4 DEF MouseInv

(* A move begins a dwell, leaves one, or is jitter.                         *)
LEMMA MoveInv ==
  ASSUME MouseInv, NEW spot \in Spots, Move(spot)
  PROVE  MouseInv'
<1>1. MouseTypeOK'
  BY MouseAssumption DEF MouseInv, Move, OnMove, LeavesAnchor
<1>2. MouseShape'
  BY MouseAssumption DEF MouseInv, Move, OnMove, LeavesAnchor
<1>3. TimersMatchDeadlines'
  BY MouseAssumption DEF MouseInv, Move, OnMove, LeavesAnchor
<1>4. HoverWorkIsCurrent'
  BY MouseAssumption DEF MouseInv, Move, OnMove, LeavesAnchor
<1> QED
  BY <1>1, <1>2, <1>3, <1>4 DEF MouseInv

(* Cancelling a dwell takes its timer with it.                              *)
LEMMA CancelDwellInv ==
  ASSUME MouseInv, CancelDwell
  PROVE  MouseInv'
<1>1. MouseTypeOK'
  BY MouseAssumption DEF MouseInv, CancelDwell, SetHoverEnabled, NewMouse
<1>2. MouseShape'
  BY MouseAssumption DEF MouseInv, CancelDwell, SetHoverEnabled, NewMouse
<1>3. TimersMatchDeadlines'
  BY MouseAssumption DEF MouseInv, CancelDwell, SetHoverEnabled, NewMouse
<1>4. HoverWorkIsCurrent'
  BY MouseAssumption DEF MouseInv, CancelDwell, SetHoverEnabled, NewMouse
<1> QED
  BY <1>1, <1>2, <1>3, <1>4 DEF MouseInv

(* Deadlines that expire and timers that elapse only wait to be handled.    *)
LEMMA ExpiryInv ==
  ASSUME MouseInv, SelectionExpires \/ HoverExpires \/ TimerElapses
  PROVE  MouseInv'
<1>1. CASE SelectionExpires
  <2>1. ~rest
    BY <1>1 DEF MouseInv, SelectionExpires, SetHoverEnabled, NewMouse
  <2>2. MouseTypeOK'
    BY <1>1 DEF MouseInv, SelectionExpires
  <2>3. MouseShape'
    BY <1>1, <2>1 DEF MouseInv, SelectionExpires
  <2>4. TimersMatchDeadlines' /\ HoverWorkIsCurrent'
    BY <1>1 DEF MouseInv, SelectionExpires
  <2> QED
    BY <2>2, <2>3, <2>4 DEF MouseInv
<1>2. CASE HoverExpires
  <2>1. ~rest
    BY <1>2 DEF MouseInv, HoverExpires, SetHoverEnabled, NewMouse
  <2>2. MouseTypeOK'
    BY <1>2 DEF MouseInv, HoverExpires
  <2>3. MouseShape'
    BY <1>2, <2>1 DEF MouseInv, HoverExpires
  <2>4. TimersMatchDeadlines' /\ HoverWorkIsCurrent'
    BY <1>2 DEF MouseInv, HoverExpires
  <2> QED
    BY <2>2, <2>3, <2>4 DEF MouseInv
<1>3. CASE TimerElapses
  <2>1. MouseTypeOK'
    BY <1>3 DEF MouseInv, TimerElapses
  <2>2. MouseShape' /\ TimersMatchDeadlines' /\ HoverWorkIsCurrent'
    BY <1>3 DEF MouseInv, TimerElapses
  <2> QED
    BY <2>1, <2>2 DEF MouseInv
<1> QED
  BY <1>1, <1>2, <1>3

(* What a timer message leaves: the extraction it found, a new one for the *)
(* candidate, or none.                                                     *)
LEMMA TakeDueInv ==
  ASSUME MouseInv, ~rest, mouse' = TakeDue(mouse), Arm(mouse'), tick' = FALSE,
         UNCHANGED <<hoverOn, rest>>, NEW fromPopup \in BOOLEAN,
         \/ extraction' \in {extraction, NoExtraction}
         \/ /\ mouse.hover = "Due"
            /\ extraction' = [spot |-> mouse.candidate, fromPopup |-> fromPopup]
  PROVE  MouseInv'
<1>1. MouseTypeOK'
  <2>1. mouse' \in MouseState
    <3>1. mouse.selection = "Due" => mouse.releases \in 1..MaxReleases
      BY MouseAssumption DEF MouseInv
    <3>2. mouse.selection = "Due" => mouse.releases - 1 \in 0..MaxReleases
      BY <3>1, MouseAssumption
    <3> DEFINE left == IF mouse.selection = "Due" THEN mouse.releases - 1 ELSE mouse.releases
               next == IF mouse.selection # "Due" THEN mouse.selection
                       ELSE IF mouse.releases > 1 THEN "Running" ELSE "None"
               place == IF mouse.hover = "Due" THEN NoSpot ELSE mouse.candidate
               dwell == IF mouse.hover = "Due" THEN "None" ELSE mouse.hover
    <3>3. left \in 0..MaxReleases /\ next \in Deadlines /\ place \in Place /\ dwell \in Deadlines
      BY <3>2 DEF MouseInv
    <3>4. mouse' = [mouse EXCEPT !.releases = left, !.selection = next,
                                 !.candidate = place, !.hover = dwell]
      BY DEF TakeDue, MouseInv
    <3> HIDE DEF left, next, place, dwell
    <3> QED
      BY <3>3, <3>4 DEF MouseInv
  <2>2. timers' \subseteq {"Selection", "Hover"} /\ tick' \in BOOLEAN
    OBVIOUS
  <2>3. hoverOn' \in BOOLEAN /\ rest' \in BOOLEAN
    BY DEF MouseInv
  <2>4. mouse.hover = "Due" => mouse.candidate \in Spots
    BY MouseAssumption DEF MouseInv
  <2>5. extraction' \in [spot : Spots, fromPopup : BOOLEAN] \cup {NoExtraction}
    BY <2>4 DEF MouseInv
  <2> QED
    BY <2>1, <2>2, <2>3, <2>5
<1>2. MouseShape'
  BY MouseAssumption DEF MouseInv, TakeDue
<1>3. TimersMatchDeadlines'
  BY MouseAssumption DEF MouseInv, TakeDue
<1>4. HoverWorkIsCurrent'
  BY MouseAssumption DEF MouseInv, TakeDue
<1> QED
  BY <1>1, <1>2, <1>3, <1>4 DEF MouseInv

(* WM_TIMER is such a message.                                             *)
LEMMA WmTimerInv ==
  ASSUME MouseInv, NEW fromPopup \in BOOLEAN, WmTimer(fromPopup)
  PROVE  MouseInv'
  BY TakeDueInv DEF WmTimer

(* At rest it finds nothing to do.                                         *)
LEMMA RestTimerInv ==
  ASSUME MouseInv, WmTimerAtRest
  PROVE  MouseInv'
<1>1. MouseTypeOK'
  BY MouseAssumption DEF MouseInv, WmTimerAtRest, SetHoverEnabled, NewMouse
<1>2. MouseShape'
  BY MouseAssumption DEF MouseInv, WmTimerAtRest, SetHoverEnabled, NewMouse
<1>3. TimersMatchDeadlines'
  BY MouseAssumption DEF MouseInv, WmTimerAtRest, SetHoverEnabled, NewMouse
<1>4. HoverWorkIsCurrent'
  BY MouseAssumption DEF MouseInv, WmTimerAtRest, SetHoverEnabled, NewMouse
<1> QED
  BY <1>1, <1>2, <1>3, <1>4 DEF MouseInv

(* Toggling Hover or rest starts without a dwell.                          *)
LEMMA TogglesInv ==
  ASSUME MouseInv, ToggleHover \/ ToggleRest
  PROVE  MouseInv'
<1>1. CASE ToggleHover
  <2>1. hoverOn' \in BOOLEAN /\ hoverOn' # hoverOn
    BY <1>1 DEF MouseInv, ToggleHover
  <2>2. mouse' = [WithoutDwell(mouse) EXCEPT !.enabled = hoverOn']
    BY <1>1 DEF ToggleHover, SetHoverEnabled
  <2>3. mouse' \in MouseState
    BY <2>1, <2>2 DEF MouseInv
  <2>4. timers' \subseteq {"Selection", "Hover"} /\ rest' \in BOOLEAN /\ tick' \in BOOLEAN
    BY <1>1 DEF MouseInv, ToggleHover
  <2>5. extraction' = NoExtraction
    BY <1>1 DEF MouseInv, ToggleHover
  <2>6. MouseTypeOK'
    BY <2>1, <2>3, <2>4, <2>5
  <2>7. MouseShape'
    BY <1>1, <2>2 DEF MouseInv, ToggleHover
  <2>8. TimersMatchDeadlines'
    BY <1>1, <2>2 DEF MouseInv, ToggleHover
  <2> QED
    BY <2>5, <2>6, <2>7, <2>8 DEF MouseInv
<1>2. CASE ToggleRest
  <2>1. hoverOn \in BOOLEAN /\ hoverOn' = hoverOn
    BY <1>2 DEF MouseInv, ToggleRest
  <2>2. mouse' = [WithoutDwell(NewMouse) EXCEPT !.enabled = hoverOn]
    BY <1>2 DEF ToggleRest, SetHoverEnabled
  <2>3. mouse' \in MouseState
    <3>1. mouse' = [down |-> FALSE, releases |-> 0, selection |-> "None",
                    enabled |-> hoverOn, anchor |-> NoSpot, candidate |-> NoSpot,
                    hover |-> "None"]
      BY <2>2 DEF NewMouse
    <3> QED
      BY <2>1, <3>1, MouseAssumption
  <2>4. timers' = {} /\ extraction' = NoExtraction /\ tick' = tick
    BY <1>2 DEF ToggleRest
  <2>5. rest' \in BOOLEAN
    BY <1>2 DEF ToggleRest, MouseInv
  <2>6. tick' \in BOOLEAN
    BY <2>4 DEF MouseInv
  <2>7. MouseTypeOK'
    BY <2>1, <2>3, <2>4, <2>5, <2>6
  <2>8. MouseShape'
    BY <1>2, <2>1, <2>2 DEF ToggleRest, SetHoverEnabled, NewMouse
  <2>9. TimersMatchDeadlines' /\ HoverWorkIsCurrent'
    BY <2>2, <2>4 DEF NewMouse
  <2> QED
    BY <2>7, <2>8, <2>9 DEF MouseInv
<1> QED
  BY <1>1, <1>2

(* Nothing changes.                                                        *)
LEMMA MouseUnchanged == MouseInv /\ UNCHANGED mouseVars => MouseInv'
  BY DEF MouseInv, mouseVars

(* The mouse starts with nothing pending.                                  *)
LEMMA MouseInitInv ==
  ASSUME MouseInit
  PROVE  MouseInv
<1>1. mouse \in MouseState
  BY MouseAssumption DEF MouseInit, NewMouse
<1>2. MouseTypeOK
  BY <1>1 DEF MouseInit
<1>3. MouseShape
  BY DEF MouseInit, NewMouse, SetHoverEnabled
<1>4. TimersMatchDeadlines /\ HoverWorkIsCurrent
  BY DEF MouseInit, NewMouse
<1> QED
  BY <1>2, <1>3, <1>4 DEF MouseInv

-----------------------------------------------------------------------------
(* The popup *)

Scheduled(w) == w.shown # Display(w) => w.armed \/ (w.moving /\ w.pending)

Surface(w) ==
    /\ w.choosing <=> ~w.standard
    /\ w.buttons = IF w.choosing THEN ButtonsFor(w.labels) ELSE 0
    /\ w.job => w.standard /\ w.state \in {"Loading", "Streaming"}

Good(w) == w \in Window /\ (w.life = "Open" => Scheduled(w) /\ Surface(w))

Reported(m) == \E i \in DOMAIN m : m[i] = "Dismissed"

PopupInv ==
    /\ Good(win)
    /\ posts \in Seq(Posts) /\ Len(posts) <= MaxPosts
    /\ win.life = "Closed" <=> Reported(posts)

(* What a window can be asked to show is text, a message or nothing.       *)
LEMMA DisplayType ==
  ASSUME NEW w \in Window
  PROVE  Display(w) \in Shown
<1>1. Empty \in Buffer
  BY PopupAssumption DEF Empty, Buffer
<1>2. w.buffer \in Buffer
  BY DEF Window
<1> QED
  BY <1>1, <1>2 DEF Display, LoadingShown, Shown

(* An output that grows stays within its bound.                            *)
LEMMA ExtendedType ==
  ASSUME NEW b \in Buffer, NEW delta \in Nat
  PROVE  Extended(b, delta) \in Buffer
<1>1. b.text \in 0..(MaxOutput - Marker) /\ b.truncated \in BOOLEAN
  BY DEF Buffer
<1>2. b.text + Smaller(delta, (MaxOutput - Marker) - b.text) \in 0..(MaxOutput - Marker)
  BY <1>1, PopupAssumption DEF Smaller
<1>3. (delta > (MaxOutput - Marker) - b.text) \in BOOLEAN
  OBVIOUS
<1> QED
  BY <1>2, <1>3 DEF Extended, Buffer

(* Putting on screen what is to be shown keeps a window's surface.         *)
LEMMA SyncedGood ==
  ASSUME NEW w \in Window, w.life = "Open" => Surface(w)
  PROVE  /\ Good(Synced(w))
         /\ Synced(w).life = w.life
<1>1. Synced(w) \in Window
  BY DisplayType DEF Synced, Window
<1>2. Synced(w).life = w.life /\ Synced(w).shown = Display(w)
  BY DEF Synced, Window
<1>3. Display(Synced(w)) = Display(w)
  BY DEF Synced, Window, Display
<1>4. w.life = "Open" => Surface(Synced(w))
  BY DEF Synced, Window, Surface
<1> QED
  BY <1>1, <1>2, <1>3, <1>4 DEF Good, Scheduled

(* Whatever state a window was given, after request_render it is shown or  *)
(* its rendering is scheduled.                                             *)
LEMMA RenderRequested ==
  ASSUME NEW w \in Window, Surface(w), NEW r \in RequestRender(w)
  PROVE  Good(r) /\ r.life = w.life
<1>1. CASE r = Synced(w)
  BY <1>1, SyncedGood
<1>2. CASE w.moving /\ r = [w EXCEPT !.pending = TRUE]
  <2>1. r \in Window /\ r.moving /\ r.pending /\ r.life = w.life
    BY <1>2 DEF Window
  <2>2. Surface(r)
    BY <1>2 DEF Window, Surface
  <2> QED
    BY <2>1, <2>2 DEF Good, Scheduled
<1>3. CASE r = [w EXCEPT !.armed = TRUE]
  <2>1. r \in Window /\ r.armed /\ r.life = w.life
    BY <1>3 DEF Window
  <2>2. Surface(r)
    BY <1>3 DEF Window, Surface
  <2> QED
    BY <2>1, <2>2 DEF Good, Scheduled
<1>4. CASE w.armed /\ r = w
  BY <1>4 DEF Good, Scheduled
<1> QED
  BY <1>1, <1>2, <1>3, <1>4 DEF RequestRender

(* Leaving the chooser shows the result's controls again.                  *)
LEMMA ChooserLeft ==
  ASSUME NEW w \in Window, Surface(w)
  PROVE  /\ LeaveChooser(w) \in Window
         /\ LeaveChooser(w).life = w.life
         /\ ~LeaveChooser(w).choosing
         /\ LeaveChooser(w).buttons = 0
         /\ LeaveChooser(w).standard
<1>1. CASE ~w.choosing /\ w.buttons = 0
  BY <1>1 DEF LeaveChooser, Surface, Window
<1>2. CASE ~(~w.choosing /\ w.buttons = 0)
  <2> DEFINE l == [w EXCEPT !.choosing = FALSE, !.labels = 0, !.buttons = 0, !.standard = TRUE]
  <2>1. LeaveChooser(w) = l
    BY <1>2 DEF LeaveChooser
  <2>2. 0 \in 0..MaxLabels /\ 0 \in 0..(InlineLimit + 1)
    BY PopupAssumption
  <2>3. l \in Window
    BY <2>2 DEF Window
  <2>4. l.life = w.life /\ ~l.choosing /\ l.buttons = 0 /\ l.standard
    BY DEF Window
  <2> QED
    BY <2>1, <2>3, <2>4
<1> QED
  BY <1>1, <1>2

(* A window that is given a state, an output and perhaps a stream.         *)
LEMMA StateGiven ==
  ASSUME NEW w \in Window, Surface(w), w.life = "Open",
         NEW state \in {"Loading", "Streaming", "Completed", "LocalError"},
         NEW buffer \in Buffer, NEW job \in BOOLEAN,
         job => state \in {"Loading", "Streaming"},
         NEW r \in RequestRender([LeaveChooser(w) EXCEPT !.state = state, !.buffer = buffer,
                                                         !.job = job])
  PROVE  Good(r) /\ r.life = "Open"
<1> DEFINE l == LeaveChooser(w)
           s == [l EXCEPT !.state = state, !.buffer = buffer, !.job = job]
<1>1. l \in Window /\ l.life = "Open" /\ ~l.choosing /\ l.buttons = 0 /\ l.standard
  BY ChooserLeft
<1> HIDE DEF l
<1>2. s \in Window /\ s.life = "Open"
  BY <1>1 DEF Window
<1>3. Surface(s)
  BY <1>1 DEF Window, Surface
<1>4. r \in RequestRender(s)
  BY DEF l
<1> QED
  BY <1>2, <1>3, <1>4, RenderRequested

(* What the resident asks an open window to show.                          *)
LEMMA Presented ==
  ASSUME NEW w \in Window, Surface(w), w.life = "Open"
  PROVE  /\ \A r \in WithLoading(w) : Good(r) /\ r.life = "Open"
         /\ \A r \in WithError(w) : Good(r) /\ r.life = "Open"
         /\ \A n \in Deltas : \A r \in WithText(w, n) : Good(r) /\ r.life = "Open"
<1>1. Empty \in Buffer
  BY PopupAssumption DEF Empty, Buffer
<1>2. \A n \in Deltas : Extended(Empty, n) \in Buffer
  BY <1>1, ExtendedType, PopupAssumption
<1>3. ASSUME NEW r \in WithLoading(w) PROVE Good(r) /\ r.life = "Open"
  BY <1>1, <1>3, StateGiven DEF WithLoading
<1>4. ASSUME NEW r \in WithError(w) PROVE Good(r) /\ r.life = "Open"
  BY <1>1, <1>4, StateGiven DEF WithError
<1>5. ASSUME NEW n \in Deltas, NEW r \in WithText(w, n) PROVE Good(r) /\ r.life = "Open"
  BY <1>2, <1>5, StateGiven DEF WithText
<1> QED
  BY <1>3, <1>4, <1>5

(* A chooser takes the place of the result.                                *)
LEMMA ChoicesShown ==
  ASSUME NEW w \in Window, w.life = "Open", Scheduled(w), NEW count \in 1..MaxLabels
  PROVE  Good(WithChoices(w, count)) /\ WithChoices(w, count).life = "Open"
<1> DEFINE c == WithChoices(w, count)
           buttons == ButtonsFor(count)
<1>1. buttons \in 0..(InlineLimit + 1) /\ count \in 0..MaxLabels
  BY PopupAssumption DEF ButtonsFor
<1>2. c = [w EXCEPT !.choosing = TRUE, !.labels = count, !.buttons = buttons,
                    !.standard = FALSE, !.job = FALSE]
  BY DEF WithChoices
<1> HIDE DEF c, buttons
<1>3. c \in Window /\ c.life = "Open"
  BY <1>1, <1>2 DEF Window
<1>4. c.choosing /\ ~c.standard /\ ~c.job /\ c.labels = count /\ c.buttons = buttons
  BY <1>2 DEF Window
<1>5. Surface(c)
  BY <1>4 DEF Surface, buttons
<1>6. c.shown = w.shown /\ c.armed = w.armed /\ c.moving = w.moving /\ c.pending = w.pending
  BY <1>2 DEF Window
<1>7. Display(c) = Display(w)
  BY <1>2 DEF Window, Display
<1> QED
  BY <1>3, <1>5, <1>6, <1>7 DEF Good, Scheduled, c

(* A new window shows that it is loading.                                  *)
LEMMA NewWindowGood ==
  /\ Good(NewWindow) /\ NewWindow.life = "Open"
  /\ Good(NoWindow) /\ NoWindow.life = "None"
<1>1. Empty \in Buffer
  BY PopupAssumption DEF Empty, Buffer
<1>2. LoadingShown \in Shown
  BY <1>1 DEF LoadingShown, Shown
<1>3. 0 \in 0..MaxLabels /\ 0 \in 0..(InlineLimit + 1)
  BY PopupAssumption
<1>4. NewWindow \in Window
  BY <1>1, <1>2, <1>3 DEF NewWindow, Window
<1>5. NewWindow.life = "Open" /\ Scheduled(NewWindow) /\ Surface(NewWindow)
  BY DEF NewWindow, Scheduled, Surface, Display
<1>6. NoWindow \in Window /\ NoWindow.life = "None"
  BY <1>4 DEF NoWindow, Window
<1> QED
  BY <1>4, <1>5, <1>6 DEF Good

-----------------------------------------------------------------------------
(* Its steps *)

(* The resident may show something on a new window or on the open one.     *)
LEMMA SurfacesGood ==
  ASSUME PopupInv, NEW surface \in Surfaces
  PROVE  /\ surface \in Window /\ surface.life = "Open"
         /\ Scheduled(surface) /\ Surface(surface)
<1>1. Good(surface) /\ surface.life = "Open"
  BY NewWindowGood DEF PopupInv, Surfaces
<1> QED
  BY <1>1 DEF Good

(* Messages that stay, or of which the first is handled, report no close   *)
(* of a window that is open.                                               *)
LEMMA PostsLeft ==
  ASSUME PopupInv, posts' = posts \/ (posts # <<>> /\ posts' = Tail(posts))
  PROVE  /\ posts' \in Seq(Posts) /\ Len(posts') <= MaxPosts
         /\ ~Reported(posts) => ~Reported(posts')
<1>1. CASE posts' = posts
  BY <1>1 DEF PopupInv
<1>2. CASE posts # <<>> /\ posts' = Tail(posts)
  <2>1. /\ posts' \in Seq(Posts) /\ Len(posts') = Len(posts) - 1
        /\ \A i \in 1..Len(posts') : posts'[i] = posts[i + 1] /\ i + 1 \in 1..Len(posts)
    BY <1>2 DEF PopupInv
  <2>2. Len(posts') <= MaxPosts
    BY <2>1, PopupAssumption DEF PopupInv
  <2>3. DOMAIN posts = 1..Len(posts) /\ DOMAIN posts' = 1..Len(posts')
    BY <2>1 DEF PopupInv
  <2> QED
    BY <2>1, <2>2, <2>3 DEF Reported
<1> QED
  BY <1>1, <1>2

(* No message at all.                                                      *)
LEMMA NoPosts ==
  <<>> \in Seq(Posts) /\ Len(<<>>) <= MaxPosts /\ ~Reported(<<>>)
  BY PopupAssumption DEF Reported

(* An open window and no report of a close.                                *)
LEMMA OpenInv ==
  ASSUME Good(win'), win'.life = "Open", posts' \in Seq(Posts), Len(posts') <= MaxPosts,
         ~Reported(posts')
  PROVE  PopupInv'
  BY DEF PopupInv

(* Removing a popup drops the messages about it.                           *)
LEMMA RemoveInv ==
  ASSUME Remove
  PROVE  PopupInv'
  BY NewWindowGood, NoPosts DEF Remove, PopupInv

(* What a surface is given to show it shows, whichever surface it is.      *)
LEMMA ShownInv ==
  ASSUME PopupInv, NEW surface \in Surfaces, Good(win'), win'.life = "Open",
         \/ posts' = <<>>
         \/ surface = win /\ (posts' = posts \/ (posts # <<>> /\ posts' = Tail(posts)))
  PROVE  PopupInv'
<1>1. CASE posts' = <<>>
  BY <1>1, NoPosts, OpenInv
<1>2. CASE surface = win /\ (posts' = posts \/ (posts # <<>> /\ posts' = Tail(posts)))
  <2>1. ~Reported(posts)
    BY <1>2, SurfacesGood DEF PopupInv
  <2> QED
    BY <1>2, <2>1, PostsLeft, OpenInv
<1> QED
  BY <1>1, <1>2

(* An answer is presented, with the messages that were on their way or     *)
(* without the one that is handled.                                        *)
LEMMA PresentResultInv ==
  ASSUME PopupInv, NEW hover \in BOOLEAN,
         PresentResult(hover, posts) \/ (posts # <<>> /\ PresentResult(hover, Tail(posts)))
  PROVE  PopupInv'
<1>1. CASE Remove
  BY <1>1, RemoveInv
<1>2. CASE ~Remove
  <2>1. PICK surface \in Surfaces :
          LET s == [surface EXCEPT !.hover = hover]
          IN  /\ win' \in WithLoading(s) \cup UNION {WithText(s, n) : n \in Deltas}
              /\ \/ posts' = <<>>
                 \/ surface = win /\ (posts' = posts \/ (posts # <<>> /\ posts' = Tail(posts)))
    BY <1>2 DEF PresentResult, Show
  <2> DEFINE s == [surface EXCEPT !.hover = hover]
  <2>2. s \in Window /\ s.life = "Open"
    BY SurfacesGood DEF Window
  <2>3. Surface(s)
    BY SurfacesGood DEF Window, Surface
  <2>4. win' \in WithLoading(s) \cup UNION {WithText(s, n) : n \in Deltas}
    BY <2>1
  <2> HIDE DEF s
  <2>5. Good(win') /\ win'.life = "Open"
    BY <2>2, <2>3, <2>4, Presented
  <2> QED
    BY <2>1, <2>5, ShownInv
<1> QED
  BY <1>1, <1>2

(* A message of the resident's own takes the popup.                        *)
LEMMA PresentErrorInv ==
  ASSUME PopupInv, PresentError
  PROVE  PopupInv'
<1>1. CASE Remove
  BY <1>1, RemoveInv
<1>2. CASE ~Remove
  <2>1. PICK surface \in Surfaces :
          /\ win' \in WithError([surface EXCEPT !.hover = FALSE])
          /\ posts' = <<>> \/ (surface = win /\ posts' = posts)
    BY <1>2 DEF PresentError, Show
  <2> DEFINE s == [surface EXCEPT !.hover = FALSE]
  <2>2. s \in Window /\ s.life = "Open"
    BY SurfacesGood DEF Window
  <2>3. Surface(s)
    BY SurfacesGood DEF Window, Surface
  <2>4. win' \in WithError(s)
    BY <2>1
  <2> HIDE DEF s
  <2>5. Good(win') /\ win'.life = "Open"
    BY <2>2, <2>3, <2>4, Presented
  <2> QED
    BY <2>1, <2>5, ShownInv
<1> QED
  BY <1>1, <1>2

(* A Selection's chooser.                                                  *)
LEMMA PresentChooserInv ==
  ASSUME PopupInv, PresentChooser
  PROVE  PopupInv'
<1>1. CASE Remove
  BY <1>1, RemoveInv
<1>2. CASE ~Remove
  <2>1. PICK surface \in Surfaces, count \in 1..MaxLabels :
          /\ win' = WithChoices(surface, count)
          /\ posts' = <<>> \/ (surface = win /\ posts' = posts)
    BY <1>2 DEF PresentChooser, Show
  <2>2. Good(win') /\ win'.life = "Open"
    BY <2>1, SurfacesGood, ChoicesShown
  <2> QED
    BY <2>1, <2>2, ShownInv
<1> QED
  BY <1>1, <1>2

(* A chooser shows the profiles of a new configuration.                    *)
LEMMA RefreshChooserInv ==
  ASSUME PopupInv, RefreshChooser
  PROVE  PopupInv'
<1>1. PICK count \in 1..MaxLabels : win' = WithChoices(win, count)
  BY DEF RefreshChooser
<1>2. win \in Window /\ win.life = "Open" /\ Scheduled(win)
  BY DEF PopupInv, Good, RefreshChooser
<1>3. Good(win') /\ win'.life = "Open"
  BY <1>1, <1>2, ChoicesShown
<1>4. posts' = posts /\ ~Reported(posts)
  BY <1>2 DEF RefreshChooser, PopupInv
<1> QED
  BY <1>3, <1>4, PostsLeft, OpenInv

(* An open window that changes, the messages as they were.                 *)
LEMMA OpenStays ==
  ASSUME PopupInv, win.life = "Open", Good(win'), win'.life = "Open", posts' = posts
  PROVE  PopupInv' /\ win'.life = win.life
  BY PostsLeft, OpenInv DEF PopupInv

(* A piece of output reaches a window that is open.                        *)
LEMMA DeltaInv ==
  ASSUME PopupInv, Delta
  PROVE  PopupInv' /\ win'.life = win.life
<1>1. CASE win.life # "Open"
  BY <1>1 DEF Delta, PopupInv
<1>2. CASE win.life = "Open"
  <2>1. win \in Window /\ Surface(win) /\ win.job
    BY <1>2 DEF PopupInv, Good, Delta
  <2>2. PICK d \in Deltas : win' \in WithDelta(win, d)
    BY <1>2 DEF Delta
  <2> DEFINE text == Extended(IF win.state = "Loading" THEN Empty ELSE win.buffer, d)
             w == [win EXCEPT !.state = "Streaming", !.buffer = text]
  <2>3. d \in Nat /\ Empty \in Buffer
    BY PopupAssumption DEF Empty, Buffer
  <2>4. win.state = "Loading" \/ win.state = "Streaming"
    BY <2>1 DEF Surface
  <2>5. text \in Buffer
    BY <2>1, <2>3, ExtendedType DEF Window
  <2>6. win' \in RequestRender(w)
    <3>1. CASE win.state = "Loading"
      BY <2>2, <3>1 DEF WithDelta
    <3>2. CASE win.state = "Streaming"
      <4>1. w = [win EXCEPT !.buffer = Extended(@, d)]
        BY <2>1, <3>2 DEF Window
      <4> QED
        BY <2>2, <3>2, <4>1 DEF WithDelta
    <3> QED
      BY <2>4, <3>1, <3>2
  <2> HIDE DEF text
  <2>7. w \in Window /\ w.life = "Open"
    BY <1>2, <2>1, <2>5 DEF Window
  <2>8. Surface(w)
    BY <2>1 DEF Window, Surface
  <2> HIDE DEF w
  <2>9. Good(win') /\ win'.life = "Open"
    BY <2>6, <2>7, <2>8, RenderRequested
  <2> QED
    BY <1>2, <2>9, OpenStays DEF Delta
<1> QED
  BY <1>1, <1>2

(* A stream that is no longer presented changes nothing on the screen.     *)
LEMMA JobDropped ==
  ASSUME PopupInv, win' = [win EXCEPT !.job = FALSE]
  PROVE  Good(win') /\ win'.life = win.life
<1>1. win \in Window
  BY DEF PopupInv, Good
<1>2. win' \in Window /\ win'.life = win.life
  BY <1>1 DEF Window
<1>3. Surface(win) => Surface(win')
  BY <1>1 DEF Window, Surface
<1>4. Display(win') = Display(win)
  BY <1>1 DEF Window, Display
<1>5. /\ win'.shown = win.shown /\ win'.armed = win.armed
      /\ win'.moving = win.moving /\ win'.pending = win.pending
  BY <1>1 DEF Window
<1> QED
  BY <1>2, <1>3, <1>4, <1>5 DEF PopupInv, Good, Scheduled

(* A stream ends with its answer, a message, or out of sight.              *)
LEMMA FinishInv ==
  ASSUME PopupInv, Finish
  PROVE  PopupInv' /\ win'.life = win.life
<1>1. CASE win.life = "Open"
  <2>1. win \in Window /\ Surface(win)
    BY <1>1 DEF PopupInv, Good
  <2>2. Good(win') /\ win'.life = "Open"
    BY <1>1, <2>1, Presented DEF Finish
  <2> QED
    BY <1>1, <2>2, OpenStays DEF Finish
<1>2. CASE win.life # "Open"
  BY <1>2, JobDropped DEF Finish, PopupInv
<1> QED
  BY <1>1, <1>2

(* A stream is stopped.                                                    *)
LEMMA StopJobInv ==
  ASSUME PopupInv, StopJob
  PROVE  PopupInv' /\ win'.life = win.life
  BY JobDropped DEF StopJob, PopupInv

(* The user's close is reported.                                           *)
LEMMA CloseInv ==
  ASSUME PopupInv, CloseByUser
  PROVE  PopupInv' /\ win'.life = "Closed"
<1>1. win \in Window
  BY DEF PopupInv, Good
<1>2. win' \in Window /\ win'.life = "Closed"
  <2>1. NewWindow \in Window
    BY NewWindowGood DEF Good
  <2>2. win.hover \in BOOLEAN /\ win.job \in BOOLEAN
    BY <1>1 DEF Window
  <2> QED
    BY <2>1, <2>2 DEF CloseByUser, Window
<1>3. posts' \in Seq(Posts) /\ Len(posts') <= MaxPosts
  BY PopupAssumption DEF CloseByUser, Post, PopupInv, Posts
<1>4. Len(posts') \in DOMAIN posts' /\ posts'[Len(posts')] = "Dismissed"
  BY DEF CloseByUser, Post, PopupInv
<1>5. Reported(posts')
  BY <1>4 DEF Reported
<1> QED
  BY <1>2, <1>3, <1>5 DEF PopupInv, Good

(* A button of the window posts a message that reports no close.           *)
LEMMA PressInv ==
  ASSUME PopupInv, PressReplay \/ PressChoice
  PROVE  PopupInv' /\ win'.life = win.life
<1>1. PICK message \in {"Replay", "Chosen"} :
        Len(posts) < MaxPosts /\ posts' = Append(posts, message)
  BY DEF PressReplay, PressChoice, Post
<1>2. UNCHANGED win /\ win.life = "Open"
  BY DEF PressReplay, PressChoice
<1>3. posts' \in Seq(Posts) /\ Len(posts') <= MaxPosts
  BY <1>1, PopupAssumption DEF PopupInv, Posts
<1>4. ~Reported(posts)
  BY <1>2 DEF PopupInv
<1>5. /\ DOMAIN posts = 1..Len(posts) /\ DOMAIN posts' = 1..(Len(posts) + 1)
      /\ \A i \in 1..Len(posts) : posts'[i] = posts[i]
      /\ posts'[Len(posts) + 1] = message
  BY <1>1 DEF PopupInv
<1>6. ~Reported(posts')
  BY <1>4, <1>5 DEF Reported, PopupInv
<1> QED
  BY <1>2, <1>3, <1>6 DEF PopupInv

(* Pinning and the begin of a move leave what is shown.                    *)
LEMMA PinInv ==
  ASSUME PopupInv, PressPin \/ EnterMove
  PROVE  PopupInv' /\ win'.life = win.life
<1>1. win \in Window /\ win.life = "Open" /\ Scheduled(win) /\ Surface(win)
  BY DEF PopupInv, Good, PressPin, EnterMove
<1>2. win' \in Window /\ win'.life = "Open"
  BY <1>1 DEF PressPin, EnterMove, Window
<1>3. Surface(win')
  BY <1>1 DEF PressPin, EnterMove, Window, Surface
<1>4. Display(win') = Display(win)
  BY <1>1 DEF PressPin, EnterMove, Window, Display
<1>5. /\ win'.shown = win.shown /\ win'.armed = win.armed /\ win'.pending = win.pending
      /\ win.moving => win'.moving
  BY <1>1 DEF PressPin, EnterMove, Window
<1>6. Good(win')
  BY <1>1, <1>2, <1>3, <1>4, <1>5 DEF Good, Scheduled
<1> QED
  BY <1>1, <1>2, <1>6, OpenStays DEF PressPin, EnterMove

(* The end of a move shows what was held back.                             *)
LEMMA ExitMoveInv ==
  ASSUME PopupInv, ExitMove
  PROVE  PopupInv' /\ win'.life = win.life
<1> DEFINE w == [win EXCEPT !.moving = FALSE, !.pending = FALSE, !.armed = FALSE]
<1>1. win \in Window
  BY DEF PopupInv, Good
<1>2. w \in Window /\ w.life = win.life
  BY <1>1 DEF Window
<1>3. win.life = "Open" => Surface(win) /\ Scheduled(win)
  BY DEF PopupInv, Good
<1>4. win.life = "Open" => Surface(w)
  BY <1>1, <1>3 DEF Window, Surface
<1>5. CASE win.pending \/ win.armed
  <2>1. win' = Synced(w)
    BY <1>5 DEF ExitMove
  <2>2. Good(win') /\ win'.life = win.life
    BY <1>2, <1>4, <2>1, SyncedGood
  <2> QED
    BY <2>2 DEF ExitMove, PopupInv
<1>6. CASE ~(win.pending \/ win.armed)
  <2>1. win' = w
    BY <1>6 DEF ExitMove
  <2>2. Display(w) = Display(win) /\ w.shown = win.shown
    BY <1>1 DEF Window, Display
  <2>3. Good(win') /\ win'.life = win.life
    BY <1>2, <1>3, <1>4, <1>6, <2>1, <2>2 DEF Good, Scheduled
  <2> QED
    BY <2>3 DEF ExitMove, PopupInv
<1> QED
  BY <1>5, <1>6

(* The timer shows what is to be shown, or leaves it to the end of a move. *)
LEMMA RenderTimerInv ==
  ASSUME PopupInv, RenderTimer
  PROVE  PopupInv' /\ win'.life = win.life
<1>1. win \in Window /\ (win.life = "Open" => Surface(win))
  BY DEF PopupInv, Good
<1>2. CASE win.moving
  <2>1. win' = [win EXCEPT !.armed = FALSE, !.pending = TRUE]
    BY <1>2 DEF RenderTimer
  <2>2. win' \in Window /\ win'.life = win.life /\ win'.moving /\ win'.pending
    BY <1>1, <1>2, <2>1 DEF Window
  <2>3. win.life = "Open" => Surface(win')
    BY <1>1, <2>1 DEF Window, Surface
  <2> QED
    BY <2>2, <2>3 DEF RenderTimer, PopupInv, Good, Scheduled
<1>3. CASE ~win.moving
  <2> DEFINE w == Synced(win)
  <2>1. win' = [w EXCEPT !.armed = FALSE]
    BY <1>3 DEF RenderTimer
  <2>2. Good(w) /\ w.life = win.life
    BY <1>1, SyncedGood
  <2>3. w.shown = Display(w)
    BY <1>1 DEF Synced, Display, Window
  <2> HIDE DEF w
  <2>4. win' \in Window /\ win'.life = win.life
    BY <2>1, <2>2 DEF Good, Window
  <2>5. win'.shown = Display(win')
    BY <2>1, <2>2, <2>3 DEF Good, Window, Display
  <2>6. win.life = "Open" => Surface(win')
    BY <2>1, <2>2 DEF Good, Window, Surface
  <2> QED
    BY <2>4, <2>5, <2>6 DEF RenderTimer, PopupInv, Good, Scheduled
<1> QED
  BY <1>2, <1>3

(* A handled message that is no report of a close leaves the report that   *)
(* may be behind it.                                                       *)
LEMMA MessageHandled ==
  ASSUME PopupInv, posts # <<>>, Head(posts) # "Dismissed", posts' = Tail(posts),
         win' = win \/ win' = [win EXCEPT !.job = FALSE]
  PROVE  PopupInv' /\ win'.life = win.life
<1>1. Good(win') /\ win'.life = win.life
  BY JobDropped DEF PopupInv
<1>2. /\ DOMAIN posts = 1..Len(posts) /\ Len(posts) \in Nat
      /\ posts[1] # "Dismissed"
  BY DEF PopupInv
<1>3. DOMAIN posts' = 1..(Len(posts) - 1)
  BY DEF PopupInv
<1>4. ASSUME NEW i \in DOMAIN posts, posts[i] = "Dismissed"
      PROVE  i - 1 \in DOMAIN posts' /\ posts'[i - 1] = "Dismissed"
  BY <1>2, <1>3, <1>4 DEF PopupInv
<1>5. Reported(posts) => Reported(posts')
  BY <1>4 DEF Reported
<1> QED
  BY <1>1, <1>5, PostsLeft DEF PopupInv

-----------------------------------------------------------------------------
(* Mouse and popup together *)

Inv == MouseInv /\ PopupInv /\ SourceIsThere

(* Nothing changes.                                                        *)
LEMMA PopupUnchanged == PopupInv /\ UNCHANGED popupVars => PopupInv'
  BY DEF PopupInv, popupVars, Reported

(* Where nothing is read from a popup there is no source to miss.          *)
LEMMA NoSource == extraction' = NoExtraction => SourceIsThere'
  BY DEF SourceIsThere

(* A press outside takes back what was read before it removes the popup.   *)
LEMMA PressOutside ==
  ASSUME Inv, PressLeft \/ PressOther
  PROVE  Inv'
<1>1. MouseInv'
  BY LeftDownInv, CancelDwellInv DEF Inv, PressLeft, PressOther
<1>2. PopupInv'
  BY RemoveInv, PopupUnchanged DEF Inv, PressLeft, PressOther, DismissOutside
<1>3. CASE PressOther
  BY <1>1, <1>2, <1>3, NoSource DEF Inv, PressOther, CancelDwell
<1>4. CASE PressLeft
  <2>1. extraction # NoExtraction => mouse.anchor # NoSpot
    BY MouseAssumption DEF Inv, MouseInv
  <2>2. extraction' = NoExtraction
    BY <1>4, <2>1 DEF PressLeft, LeftDown, Dwells
  <2> QED
    BY <1>1, <1>2, <2>2, NoSource DEF Inv
<1> QED
  BY <1>3, <1>4

(* The other events of the mouse leave the popup, or no extraction.        *)
LEMMA MouseEvents ==
  ASSUME Inv,
         \/ \E spot \in Spots : PointerMoves(spot)
         \/ ReleaseLeft \/ ForegroundChanges \/ Expires \/ Ticks
         \/ (WmTimerAtRest /\ UNCHANGED popupVars)
  PROVE  Inv'
<1>1. CASE \E spot \in Spots : PointerMoves(spot)
  <2>1. PICK spot \in Spots : Move(spot) /\ UNCHANGED popupVars
    BY <1>1 DEF PointerMoves
  <2>2. extraction' \in {extraction, NoExtraction}
    BY <2>1 DEF Move
  <2> QED
    BY <2>1, <2>2, MoveInv, PopupUnchanged DEF Inv, SourceIsThere, popupVars
<1>2. CASE ReleaseLeft
  <2>1. extraction' \in {extraction, NoExtraction}
    BY <1>2 DEF ReleaseLeft, LeftUp
  <2> QED
    BY <1>2, <2>1, LeftUpInv, PopupUnchanged DEF Inv, SourceIsThere, popupVars, ReleaseLeft
<1>3. CASE ForegroundChanges
  BY <1>3, CancelDwellInv, RemoveInv, PopupUnchanged, NoSource
     DEF Inv, ForegroundChanges, CancelDwell
<1>4. CASE Expires
  <2>1. extraction' = extraction
    BY <1>4 DEF Expires, SelectionExpires, HoverExpires
  <2> QED
    BY <1>4, <2>1, ExpiryInv, PopupUnchanged DEF Inv, SourceIsThere, popupVars, Expires
<1>5. CASE Ticks
  <2>1. extraction' = extraction
    BY <1>5 DEF Ticks, TimerElapses
  <2> QED
    BY <1>5, <2>1, ExpiryInv, PopupUnchanged DEF Inv, SourceIsThere, popupVars, Ticks
<1>6. CASE WmTimerAtRest /\ UNCHANGED popupVars
  BY <1>6, RestTimerInv, PopupUnchanged DEF Inv, SourceIsThere, popupVars, WmTimerAtRest
<1> QED
  BY <1>1, <1>2, <1>3, <1>4, <1>5, <1>6

(* A timer reads from a popup only what it finds there.                    *)
LEMMA Timers ==
  ASSUME Inv, TimerFires \/ TimerFiresOverChooser
  PROVE  Inv'
<1>1. CASE TimerFires
  <2> DEFINE fromPopup == mouse.candidate = Output /\ ReadableOutput
  <2>1. WmTimer(fromPopup) /\ UNCHANGED popupVars
    BY <1>1 DEF TimerFires
  <2>2. fromPopup \in BOOLEAN /\ (fromPopup => win.life = "Open")
    BY DEF ReadableOutput
  <2> HIDE DEF fromPopup
  <2>3. MouseInv'
    BY <2>1, <2>2, WmTimerInv DEF Inv
  <2>4. extraction' \in {extraction, NoExtraction, [spot |-> mouse.candidate,
                                                    fromPopup |-> fromPopup]}
    BY <2>1 DEF WmTimer
  <2>5. SourceIsThere'
    BY <2>1, <2>2, <2>4 DEF Inv, SourceIsThere, popupVars
  <2> QED
    BY <2>1, <2>3, <2>5, PopupUnchanged DEF Inv
<1>2. CASE TimerFiresOverChooser
  <2>1. MouseInv'
    BY <1>2, TakeDueInv DEF Inv, TimerFiresOverChooser
  <2> QED
    BY <1>2, <2>1, RemoveInv, NoSource DEF Inv, TimerFiresOverChooser
<1> QED
  BY <1>1, <1>2

(* Hover and rest end what they allowed.                                   *)
LEMMA Switches ==
  ASSUME Inv, SwitchHover \/ SwitchRest
  PROVE  Inv'
<1>1. MouseInv' /\ PopupInv'
  BY TogglesInv, RemoveInv, PopupUnchanged DEF Inv, SwitchHover, SwitchRest
<1>2. extraction' = NoExtraction
  BY DEF Inv, MouseInv, SwitchHover, SwitchRest, ToggleHover, ToggleRest
<1> QED
  BY <1>1, <1>2, NoSource DEF Inv

(* Only the resident's work on the popup is left: it takes the extraction  *)
(* back, or leaves both as they are.                                       *)
LEMMA PopupWork ==
  ASSUME Inv,
         \/ \E hover \in BOOLEAN : AnswerIsPresented(hover)
         \/ AnswerIsRefused \/ SelectionIsAnswered \/ HoverEnds
         \/ StreamSends \/ StreamEnds \/ Reload
         \/ HandleDismissed \/ HandleReplay \/ HandleChosen
         \/ UserActs \/ Renders
  PROVE  Inv'
<1>1. ASSUME extraction' = NoExtraction, UNCHANGED <<mouse, hoverOn, rest, timers, tick>>,
             PopupInv'
      PROVE  Inv'
  BY <1>1, DroppingExtraction, NoSource DEF Inv
<1>2. ASSUME UNCHANGED mouseVars, PopupInv', win.life # "None" => win'.life # "None"
      PROVE  Inv'
  BY <1>2, MouseUnchanged DEF Inv, SourceIsThere, mouseVars
<1>3. CASE \E hover \in BOOLEAN : AnswerIsPresented(hover)
  <2>1. PICK hover \in BOOLEAN : Answered(hover) /\ PresentResult(hover, posts)
    BY <1>3 DEF AnswerIsPresented, PresentNew
  <2>2. PopupInv'
    BY <2>1, PresentResultInv DEF Inv
  <2> QED
    BY <1>1, <2>1, <2>2 DEF Answered
<1>4. CASE AnswerIsRefused
  BY <1>1, <1>4, PresentErrorInv DEF Inv, AnswerIsRefused, Answered
<1>5. CASE SelectionIsAnswered
  BY <1>1, <1>5, PresentChooserInv DEF Inv, SelectionIsAnswered, Answered
<1>6. CASE HoverEnds
  BY <1>1, <1>6, PopupUnchanged DEF Inv, HoverEnds, ExtractionEnds
<1>7. CASE StreamSends
  <2>1. PopupInv' /\ win'.life = win.life
    BY <1>7, DeltaInv DEF Inv, StreamSends
  <2> QED
    BY <1>2, <1>7, <2>1 DEF StreamSends
<1>8. CASE StreamEnds
  <2>1. PopupInv' /\ win'.life = win.life
    BY <1>8, FinishInv DEF Inv, StreamEnds
  <2> QED
    BY <1>2, <1>8, <2>1 DEF StreamEnds
<1>9. CASE Reload
  BY <1>1, <1>9, StopJobInv, RefreshChooserInv, RemoveInv DEF Inv, Reload
<1>10. CASE HandleDismissed
  <2>1. PopupInv' /\ extraction' \in {extraction, NoExtraction}
    BY <1>10, RemoveInv DEF HandleDismissed, RemovePopup, ForgetSource
  <2>2. MouseInv'
    BY <1>10, <2>1, DroppingExtraction DEF Inv, HandleDismissed, RemovePopup
  <2>3. ~extraction'.fromPopup
    BY <1>10 DEF HandleDismissed, RemovePopup, ForgetSource
  <2> QED
    BY <2>1, <2>2, <2>3 DEF Inv, SourceIsThere
<1>11. CASE HandleReplay
  <2>1. CASE \E hover \in BOOLEAN : PresentResult(hover, Tail(posts))
    <3>1. PopupInv'
      BY <1>11, <2>1, PresentResultInv DEF Inv, HandleReplay
    <3>2. CASE extraction' = NoExtraction /\ UNCHANGED <<mouse, hoverOn, rest, timers, tick>>
      BY <1>1, <3>1, <3>2
    <3>3. CASE posts' = Tail(posts) /\ UNCHANGED <<win, mouseVars>>
      BY <1>2, <3>1, <3>3
    <3> QED
      BY <1>11, <3>2, <3>3 DEF HandleReplay
  <2>2. CASE ~\E hover \in BOOLEAN : PresentResult(hover, Tail(posts))
    <3>1. PopupInv' /\ win'.life = win.life
      BY <1>11, <2>2, MessageHandled DEF Inv, HandleReplay
    <3>2. CASE extraction' = NoExtraction /\ UNCHANGED <<mouse, hoverOn, rest, timers, tick>>
      BY <1>1, <3>1, <3>2
    <3>3. CASE UNCHANGED mouseVars
      BY <1>2, <3>1, <3>3
    <3> QED
      BY <1>11, <3>2, <3>3 DEF HandleReplay
  <2> QED
    BY <2>1, <2>2
<1>12. CASE HandleChosen
  <2>1. CASE Answered(FALSE) /\ PresentResult(FALSE, Tail(posts))
    <3>1. PopupInv'
      BY <1>12, <2>1, PresentResultInv DEF Inv, HandleChosen
    <3> QED
      BY <1>1, <2>1, <3>1 DEF Answered
  <2>2. CASE posts' = Tail(posts) /\ UNCHANGED <<win, mouseVars>>
    <3>1. PopupInv' /\ win'.life = win.life
      BY <1>12, <2>2, MessageHandled DEF Inv, HandleChosen
    <3> QED
      BY <1>2, <2>2, <3>1
  <2> QED
    BY <1>12, <2>1, <2>2 DEF HandleChosen
<1>13. CASE UserActs
  <2>1. PopupInv' /\ (win'.life = win.life \/ win'.life = "Closed")
    BY <1>13, CloseInv, PressInv, PinInv, ExitMoveInv DEF Inv, UserActs
  <2> QED
    BY <1>2, <1>13, <2>1 DEF UserActs
<1>14. CASE Renders
  <2>1. PopupInv' /\ win'.life = win.life
    BY <1>14, RenderTimerInv DEF Inv, Renders
  <2> QED
    BY <1>2, <1>14, <2>1 DEF Renders
<1> QED
  BY <1>3, <1>4, <1>5, <1>6, <1>7, <1>8, <1>9, <1>10, <1>11,
     <1>12, <1>13, <1>14

-----------------------------------------------------------------------------
(* Theorems *)

(* Every step keeps the invariant.                                         *)
LEMMA Step ==
  ASSUME Inv, [Next]_vars
  PROVE  Inv'
<1>1. CASE UNCHANGED vars
  BY <1>1, MouseUnchanged, PopupUnchanged DEF Inv, vars, SourceIsThere, mouseVars, popupVars
<1>2. CASE Next
  BY <1>2, PressOutside, MouseEvents, Timers, Switches, PopupWork DEF Next
<1> QED
  BY <1>1, <1>2

(* It holds at the start.                                                  *)
LEMMA Start == Init => Inv
<1> SUFFICES ASSUME Init PROVE Inv
  OBVIOUS
<1>1. MouseInv
  BY MouseInitInv DEF Init
<1>2. PopupInv
  BY NewWindowGood, NoPosts DEF Init, PopupInit, PopupInv
<1>3. SourceIsThere
  BY DEF Init, MouseInit, SourceIsThere
<1> QED
  BY <1>1, <1>2, <1>3 DEF Inv

(* The inductive invariant of mouse and popup (mouse.rs, popup.rs, app.rs).*)
THEOREM Invariance == Spec => []Inv
  BY Start, Step, PTL DEF Spec

(* Mouse, popup and messages have their types: an output never outgrows    *)
(* MAX_OUTPUT_CHARS, no release is lost in the queue (mouse.rs, popup.rs). *)
THEOREM TypeCorrect == Spec => []TypeOK
<1>1. Inv => TypeOK
  BY DEF Inv, MouseInv, PopupInv, Good, TypeOK, PopupTypeOK
<1> QED
  BY <1>1, Invariance, PTL

(* What waits has a deadline and a deadline its window timer               *)
(* (arm_mouse_timers and the KillTimer calls of app.rs).                   *)
THEOREM TimersCorrect == Spec => []TimersMatchDeadlines
<1>1. Inv => TimersMatchDeadlines
  BY DEF Inv, MouseInv
<1> QED
  BY <1>1, Invariance, PTL

(* A pending Hover extraction is for the place the pointer rests on        *)
(* (hover_generation, cancel_hover_extraction).                            *)
THEOREM HoverCorrect == Spec => []HoverWorkIsCurrent
<1>1. Inv => HoverWorkIsCurrent
  BY DEF Inv, MouseInv
<1> QED
  BY <1>1, Invariance, PTL

(* The popup that is read is there (remove_popup).                         *)
THEOREM SourceCorrect == Spec => []SourceIsThere
<1>1. Inv => SourceIsThere
  BY DEF Inv
<1> QED
  BY <1>1, Invariance, PTL

(* A stale display has its rendering scheduled (request_render and the     *)
(* move loop of popup.rs).                                                 *)
THEOREM DisplayCorrect == Spec => []StaleDisplayIsScheduled
<1>1. Inv => StaleDisplayIsScheduled
  BY DEF Inv, PopupInv, Good, Scheduled, StaleDisplayIsScheduled
<1> QED
  BY <1>1, Invariance, PTL

(* Chooser or result, never both (show_profile_choices,                    *)
(* leave_profile_chooser).                                                 *)
THEOREM SurfaceCorrect == Spec => []OneSurface
<1>1. Inv => OneSurface
  BY DEF Inv, PopupInv, Good, Surface, OneSurface
<1> QED
  BY <1>1, Invariance, PTL

(* The resident is told of exactly the closes it did not make              *)
(* (notify_owner).                                                         *)
THEOREM ReportCorrect == Spec => []ClosedIsReported
<1>1. Inv => ClosedIsReported
  BY DEF Inv, PopupInv, Reported, ClosedIsReported
<1> QED
  BY <1>1, Invariance, PTL
=============================================================================
