---------------------------- MODULE PopupWindow ----------------------------
(***************************************************************************)
(* A result window of popup.rs: what it is to show (PopupState and         *)
(* OutputBuffer), the render timer, Windows' own move loop during which    *)
(* rendering waits, the profile chooser that takes the place of the        *)
(* result, and the messages the window posts to the resident.              *)
(*                                                                         *)
(* One slot of the resident's list of popups is followed.  Popup ids are   *)
(* not used twice and a message about a popup that is gone changes         *)
(* nothing, so such messages are dropped with the popup.  Geometry, fonts, *)
(* colours and markdown are left out: they decide nothing here.            *)
(***************************************************************************)
EXTENDS Naturals, Sequences

CONSTANTS MaxOutput,     \* MAX_OUTPUT_CHARS
          Marker,        \* length of TRUNCATION_MARKER
          InlineLimit,   \* INLINE_PROFILE_LIMIT
          Deltas,        \* lengths of the pieces a provider sends
          MaxLabels,     \* bounds of the model: profiles in a chooser,
          MaxPosts       \*   messages on their way to the resident

ASSUME PopupAssumption ==
    /\ MaxOutput \in Nat /\ Marker \in Nat /\ Marker < MaxOutput
    /\ InlineLimit \in Nat \ {0} /\ MaxLabels \in Nat \ {0} /\ MaxPosts \in Nat \ {0}
    /\ Deltas \subseteq Nat \ {0}

VARIABLES
    win,      \* PopupData, with the state of its native window
    posts     \* messages posted to the resident and not handled

popupVars == <<win, posts>>

Buffer == [text : 0..(MaxOutput - Marker), truncated : BOOLEAN]
Empty == [text |-> 0, truncated |-> FALSE]

(* What the output control shows: a state's text, whatever the state is.   *)
Shown == [kind : {"Loading", "Error", "Text"}, buffer : Buffer]

(* life: no popup, one whose window exists, or one the user closed and     *)
(* whose entry the resident still holds.  hover: presented_trigger is      *)
(* Hover.  job: a running stream is presented here.                        *)
Window ==
    [life : {"None", "Open", "Closed"}, state : {"Loading", "Streaming", "Completed", "LocalError"},
     buffer : Buffer, shown : Shown, pinned : BOOLEAN, hover : BOOLEAN, job : BOOLEAN,
     choosing : BOOLEAN, labels : 0..MaxLabels, buttons : 0..(InlineLimit + 1),
     standard : BOOLEAN,
     moving : BOOLEAN, pending : BOOLEAN, armed : BOOLEAN]

LoadingShown == [kind |-> "Loading", buffer |-> Empty]

(* A window as create and create_controls leave it. *)
NewWindow ==
    [life |-> "Open", state |-> "Loading", buffer |-> Empty, shown |-> LoadingShown,
     pinned |-> FALSE, hover |-> FALSE, job |-> FALSE,
     choosing |-> FALSE, labels |-> 0, buttons |-> 0, standard |-> TRUE,
     moving |-> FALSE, pending |-> FALSE, armed |-> FALSE]

NoWindow == [NewWindow EXCEPT !.life = "None"]

Posts == {"Dismissed", "Replay", "Chosen"}

PopupTypeOK ==
    /\ win \in Window
    /\ posts \in Seq(Posts) /\ Len(posts) <= MaxPosts

PopupInit == win = NoWindow /\ posts = <<>>

-----------------------------------------------------------------------------
(* Output *)

Smaller(a, b) == IF a < b THEN a ELSE b

(* Mutant of Extended: the marker is not counted. *)
ExtendedToTheBrim(b, delta) ==
    LET available == MaxOutput - b.text
    IN  IF b.truncated THEN b
        ELSE [text |-> b.text + Smaller(delta, available), truncated |-> delta > available]

(* OutputBuffer::append *)
Extended(b, delta) ==
    LET available == (MaxOutput - Marker) - b.text
    IN  IF b.truncated THEN b
        ELSE [text |-> b.text + Smaller(delta, available), truncated |-> delta > available]

(* state_text *)
Display(w) ==
    CASE w.state = "Loading" -> LoadingShown
      [] w.state = "LocalError" -> [kind |-> "Error", buffer |-> Empty]
      [] OTHER -> [kind |-> "Text", buffer |-> w.buffer]

(* sync_controls *)
Synced(w) == [w EXCEPT !.shown = Display(w)]

(* request_render, with the rendering its callers do when no timer can be  *)
(* had.                                                                    *)
RequestRender(w) ==
    IF w.moving THEN {[w EXCEPT !.pending = TRUE]}
    ELSE IF w.armed THEN {w}
    ELSE {[w EXCEPT !.armed = TRUE], Synced(w)}

-----------------------------------------------------------------------------
(* Chooser *)

ButtonsFor(labels) ==
    IF labels > InlineLimit THEN InlineLimit + 1 ELSE labels

(* Mutant of LeaveChooser: the controls it had hidden stay hidden. *)
LeaveChooserHidden(w) ==
    [w EXCEPT !.choosing = FALSE, !.labels = 0, !.buttons = 0]

(* leave_profile_chooser; without a chooser the controls are visible       *)
(* already, which OneSurface states.                                       *)
LeaveChooser(w) ==
    IF ~w.choosing /\ w.buttons = 0 THEN w
    ELSE [w EXCEPT !.choosing = FALSE, !.labels = 0, !.buttons = 0, !.standard = TRUE]

(* show_profile_choices, where it succeeds; where it fails its callers     *)
(* remove the popup.                                                       *)
WithChoices(w, count) ==
    [w EXCEPT !.choosing = TRUE, !.labels = count, !.buttons = ButtonsFor(count),
              !.standard = FALSE, !.job = FALSE]

-----------------------------------------------------------------------------
(* The resident's calls: each gives the windows that can result *)

WithLoading(w) ==
    RequestRender([LeaveChooser(w) EXCEPT !.state = "Loading", !.buffer = Empty, !.job = TRUE])

WithError(w) ==
    RequestRender([LeaveChooser(w) EXCEPT !.state = "LocalError", !.buffer = Empty,
                                          !.job = FALSE])

WithText(w, length) ==
    RequestRender([LeaveChooser(w) EXCEPT !.state = "Completed",
                                          !.buffer = Extended(Empty, length), !.job = FALSE])

(* PopupState::append *)
WithDelta(w, delta) ==
    RequestRender(
        IF w.state = "Loading" THEN [w EXCEPT !.state = "Streaming",
                                              !.buffer = Extended(Empty, delta)]
        ELSE IF w.state = "Streaming" THEN [w EXCEPT !.buffer = Extended(@, delta)]
        ELSE w)

(* ensure_popup: an unpinned popup whose window can still be shown at the  *)
(* new place is used again, otherwise a new one is made.                   *)
Surfaces == {NewWindow} \cup (IF win.life = "Open" THEN {win} ELSE {})

(* Mutant of Remove: dismiss leaves notify_owner as it is. *)
RemoveNoisily ==
    /\ win' = NoWindow
    /\ posts' = IF win.life = "Open" THEN <<"Dismissed">> ELSE <<>>

(* remove_popup: the entry goes and its window with it, silently. *)
Remove == win' = NoWindow /\ posts' = <<>>

(* The surface is given something to show; left: what then is still on its *)
(* way from a surface that is used again.                                  *)
Show(surface, results, left) ==
    /\ win' \in results
    /\ posts' = IF surface = win THEN left ELSE <<>>

(* admit_extracted_request from its commit on, initialize_result_surface:  *)
(* a cached answer or a stream that begins.                                *)
PresentResult(hover, left) ==
    \/ \E surface \in Surfaces :
          LET s == [surface EXCEPT !.hover = hover]
          IN  Show(surface, WithLoading(s) \cup UNION {WithText(s, n) : n \in Deltas}, left)
    \/ Remove

(* A request that names no popup takes over an unpinned one. *)
Reusable == win.life # "Open" \/ ~win.pinned

PresentNew(hover) == Reusable /\ PresentResult(hover, posts)

(* show_local_error of app.rs *)
PresentError ==
    /\ Reusable
    /\ \/ \E surface \in Surfaces :
            Show(surface, WithError([surface EXCEPT !.hover = FALSE]), posts)
       \/ Remove

(* A Selection's text: the chooser, or no popup when it cannot be shown. *)
PresentChooser ==
    /\ Reusable
    /\ \/ \E surface \in Surfaces, count \in 1..MaxLabels :
            Show(surface, {WithChoices(surface, count)}, posts)
       \/ Remove

(* apply_config with a chooser on screen: the new profiles, or no popup. *)
RefreshChooser ==
    /\ win.life = "Open" /\ win.choosing
    /\ \E count \in 1..MaxLabels : win' = WithChoices(win, count)
    /\ UNCHANGED posts

Delta ==
    /\ win.job
    /\ IF win.life = "Open" THEN \E d \in Deltas : win' \in WithDelta(win, d) ELSE UNCHANGED win
    /\ UNCHANGED posts

(* handle_finished: the normalized answer, or a message.  A window that    *)
(* was closed has nothing to show it in.                                   *)
Finish ==
    /\ win.job
    /\ IF win.life = "Open"
       THEN win' \in WithError(win) \cup UNION {WithText(win, n) : n \in Deltas}
       ELSE win' = [win EXCEPT !.job = FALSE]
    /\ UNCHANGED posts

(* The stream is stopped and the popup stays as it is (a reload). *)
StopJob ==
    /\ win.job /\ win' = [win EXCEPT !.job = FALSE]
    /\ UNCHANGED posts

-----------------------------------------------------------------------------
(* The window procedure *)

Post(message) == Len(posts) < MaxPosts /\ posts' = Append(posts, message)

(* Close, Escape, WM_CLOSE: the window is destroyed and WM_DESTROY tells   *)
(* the resident.                                                           *)
CloseByUser ==
    /\ win.life = "Open"
    /\ win' = [NewWindow EXCEPT !.life = "Closed", !.hover = win.hover, !.job = win.job]
    /\ Post("Dismissed")

PressReplay ==
    /\ win.life = "Open" /\ win.standard /\ Post("Replay")
    /\ UNCHANGED win

PressPin ==
    /\ win.life = "Open" /\ win.standard
    /\ win' = [win EXCEPT !.pinned = ~@]
    /\ UNCHANGED posts

(* A profile's button, or its entry in the "More" menu; the menu runs a    *)
(* message loop of its own, so as with any posted message the chooser may  *)
(* be another, or gone, when the choice is handled.                        *)
PressChoice ==
    /\ win.life = "Open" /\ win.choosing /\ Post("Chosen")
    /\ UNCHANGED win

EnterMove ==
    /\ win.life = "Open" /\ ~win.choosing /\ ~win.moving
    /\ win' = [win EXCEPT !.moving = TRUE]
    /\ UNCHANGED posts

(* Mutant of ExitMove: a timer that was set when the move began is killed  *)
(* and forgotten.                                                          *)
ExitMoveForgetting ==
    /\ win.moving
    /\ LET w == [win EXCEPT !.moving = FALSE, !.pending = FALSE, !.armed = FALSE]
       IN  win' = IF win.pending THEN Synced(w) ELSE w
    /\ UNCHANGED posts

ExitMove ==
    /\ win.moving
    /\ LET w == [win EXCEPT !.moving = FALSE, !.pending = FALSE, !.armed = FALSE]
       IN  win' = IF win.pending \/ win.armed THEN Synced(w) ELSE w
    /\ UNCHANGED posts

RenderTimer ==
    /\ win.armed
    /\ win' = IF win.moving THEN [win EXCEPT !.armed = FALSE, !.pending = TRUE]
              ELSE [Synced(win) EXCEPT !.armed = FALSE]
    /\ UNCHANGED posts

-----------------------------------------------------------------------------
(* What a window does not show yet, something will make it show: the       *)
(* timer, or the end of the move loop (request_render, WM_TIMER and        *)
(* WM_EXITSIZEMOVE hand the duty to each other).                           *)
StaleDisplayIsScheduled ==
    win.life = "Open" /\ win.shown # Display(win) => win.armed \/ (win.moving /\ win.pending)

(* A window shows the chooser or the result, never both and never neither, *)
(* and a stream is never presented behind a chooser                        *)
(* (show_profile_choices, leave_profile_chooser).                          *)
OneSurface ==
    win.life = "Open" =>
        /\ win.choosing <=> ~win.standard
        /\ win.buttons = IF win.choosing THEN ButtonsFor(win.labels) ELSE 0
        /\ win.job => win.standard /\ win.state \in {"Loading", "Streaming"}

(* The resident is told of exactly the closes it did not make: a closed    *)
(* window's entry has its message on the way, and a popup the resident     *)
(* removed or replaced itself sends none (notify_owner).                   *)
ClosedIsReported == win.life = "Closed" <=> \E i \in DOMAIN posts : posts[i] = "Dismissed"
=============================================================================
