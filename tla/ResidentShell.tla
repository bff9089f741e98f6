--------------------------- MODULE ResidentShell ---------------------------
(***************************************************************************)
(* The resident's message loop: ShellState of app.rs, its handlers for     *)
(* triggers, extraction answers, provider deltas, popup commands, foreign  *)
(* clicks and reloads, and the provider streams it starts.  Handlers run   *)
(* to completion on one thread, so each is one step; a handler is written  *)
(* as an operator from one shell value to the next and composed like the   *)
(* functions of app.rs.                                                    *)
(*                                                                         *)
(* Channel messages and posted window messages are handled some time after *)
(* they were sent.  The model lets the send happen at any earlier moment,  *)
(* so a stream that was told to stop may still deliver, and a command may  *)
(* concern a popup that is gone; only the order of one stream's own        *)
(* messages is kept, which is all the channel promises.                    *)
(***************************************************************************)
EXTENDS CoordinatorOps, Sequences, FiniteSetsExt, Functions

CONSTANTS MaxVisible,      \* MAX_VISIBLE_POPUPS
          Texts,           \* what an extraction can find
          RefusedTexts,    \* those RequestGate::prepare refuses
          Configs,         \* runtime configurations that can be loaded
          MaxPopup,        \* bounds of the model's counters: popup ids,
          MaxAttempt,      \*   extraction attempts,
          MaxGeneration,   \*   config generations,
          MaxChunks        \*   deltas of one stream

ASSUME ShellAssumption ==
    /\ MaxVisible \in Nat \ {0}
    /\ RefusedTexts \subseteq Texts /\ "None" \notin Texts
    /\ MaxId > 1       \* 2^64 - 1: a started job changes the next id
    /\ Texts \ RefusedTexts \subseteq Fingerprints
    /\ MaxPopup \in Nat /\ MaxAttempt \in Nat
    /\ MaxGeneration \in Nat \ {0} /\ MaxChunks \in Nat

VARIABLES
    shell,      \* ShellState
    open,       \* extraction attempts that may still be answered
    streams     \* what became of each started job's provider stream

vars == <<shell, open, streams>>

PopupIds == 1..MaxPopup
Attempts == 1..MaxAttempt
GoodTexts == Texts \ RefusedTexts

NoPending == [attempt |-> 0, trigger |-> "None", source |-> 0, generation |-> 0]
NoChoice == [popup |-> 0, text |-> "None", generation |-> 0]
NoReplay == [trigger |-> "None", text |-> "None"]
NoOutput == [job |-> 0, chunks |-> <<>>]

(* PopupEntry with the parts of Popup the handlers ask about.  A popup the *)
(* user closed is "Closed" until its POPUP_DISMISSED message is handled;   *)
(* such a window reports neither a pin nor a result.                       *)
PopupEntry ==
    [view : {"Loading", "Result", "Error", "Closed"}, choosing : BOOLEAN,
     pinned : BOOLEAN, hover : BOOLEAN,
     replay : [trigger : Triggers, text : GoodTexts] \cup {NoReplay}]

NewEntry == [view |-> "Loading", choosing |-> FALSE, pinned |-> FALSE,
             hover |-> FALSE, replay |-> NoReplay]

Pending == [attempt : Attempts, trigger : Triggers, source : 0..MaxPopup,
            generation : 1..MaxGeneration]
Choice == [popup : PopupIds, text : GoodTexts, generation : 1..MaxGeneration]
Output == [job : JobIds, chunks : Seq(JobIds)]
Stream == [sent : 0..MaxChunks, generation : 1..MaxGeneration,
           end : {"Running", "Ok", "Failed", "Cached"}]

(* A function on some of the ids. *)
PartialFunction(f, ids, values) == DOMAIN f \subseteq ids /\ \A id \in DOMAIN f : f[id] \in values

(* f with one more id. *)
Entered(f, new, value) ==
    [id \in DOMAIN f \cup {new} |-> IF id \in DOMAIN f THEN f[id] ELSE value]

(* startupError: runtime.startup_error is set.  provider: the request gate *)
(* and the pipeline have a provider.  config: runtime.config.  rest and    *)
(* hoverOn: rest_enabled and hover_enabled.                                *)
TypeOK ==
    /\ shell.rest \in BOOLEAN /\ shell.hoverOn \in BOOLEAN
    /\ shell.startupError \in BOOLEAN /\ shell.provider \in BOOLEAN
    /\ shell.config \in Configs /\ shell.generation \in 1..MaxGeneration
    /\ shell.coord \in CoordinatorValue
    /\ PartialFunction(shell.popups, PopupIds, PopupEntry)
    /\ shell.nextPopup \in 1..(MaxPopup + 1) /\ shell.nextAttempt \in 1..(MaxAttempt + 1)
    /\ shell.pending \in Pending \cup {NoPending} /\ shell.choice \in Choice \cup {NoChoice}
    /\ shell.activeRequest \in GoodTexts \cup {"None"} /\ shell.activePopup \in 0..MaxPopup
    /\ shell.popupJob \in (0..MaxId) \cup Attempts
    /\ shell.token \in 0..MaxId /\ shell.revoked \subseteq JobIds
    /\ shell.output \in Seq(JobIds) /\ shell.cache \in [GoodTexts -> Output \cup {NoOutput}]
    /\ open \subseteq Attempts
    /\ PartialFunction(streams, JobIds, Stream)

EmptyCache == [text \in GoodTexts |-> NoOutput]

(* A start-up with an unreadable configuration file keeps the provider of  *)
(* the default configuration.                                              *)
Init ==
    /\ \E broken \in BOOLEAN, ready \in BOOLEAN, config \in Configs :
          /\ broken \/ ready
          /\ shell = [rest |-> FALSE, hoverOn |-> FALSE, startupError |-> broken,
                      provider |-> ready, config |-> config, generation |-> 1,
                      coord |-> NewCoordinator,
                      popups |-> <<>>, nextPopup |-> 1, nextAttempt |-> 1,
                      pending |-> NoPending, choice |-> NoChoice,
                      activeRequest |-> "None", activePopup |-> 0, popupJob |-> 0,
                      token |-> 0, revoked |-> {}, output |-> <<>>,
                      cache |-> EmptyCache]
    /\ open = {}
    /\ streams = <<>>

-----------------------------------------------------------------------------
(* Cancelling *)

CancelPendingExtraction(s) == [s EXCEPT !.pending = NoPending]

(* Mutant of StopStream: the token is dropped without being cancelled. *)
StopStreamLosingToken(s) ==
    [s EXCEPT !.token = 0,
              !.coord = CancelActiveJob(@), !.activeRequest = "None",
              !.activePopup = 0, !.popupJob = 0, !.output = <<>>]

(* What remove_popup and cancel_inflight_work share. *)
StopStream(s) ==
    [s EXCEPT !.revoked = @ \cup ({s.token} \ {0}), !.token = 0,
              !.coord = CancelActiveJob(@), !.activeRequest = "None",
              !.activePopup = 0, !.popupJob = 0, !.output = <<>>]

CancelInflightWork(s) == StopStream(CancelPendingExtraction(s))

(* Mutant of RemovePopups: the active popup goes, its stream stays. *)
RemovePopupsKeepingStream(s, ids) ==
    LET p == IF s.pending.source \in ids THEN CancelPendingExtraction(s) ELSE s
        c == IF s.choice.popup \in ids THEN [p EXCEPT !.choice = NoChoice] ELSE p
    IN  [c EXCEPT !.popups = Restrict(@, DOMAIN @ \ ids)]

(* remove_popup for several popups; only Hover names a source, and no      *)
(* pending attempt of begin_request names a destination.                   *)
RemovePopups(s, ids) ==
    LET p == IF s.pending.source \in ids THEN CancelPendingExtraction(s) ELSE s
        c == IF s.choice.popup \in ids THEN [p EXCEPT !.choice = NoChoice] ELSE p
        a == IF s.activePopup \in ids THEN StopStream(c) ELSE c
    IN  [a EXCEPT !.popups = Restrict(@, DOMAIN @ \ ids)]

RemovePopup(s, id) == RemovePopups(s, {id} \ {0})

-----------------------------------------------------------------------------
(* Finding a surface *)

Alive(s, id) == id \in DOMAIN s.popups /\ s.popups[id].view # "Closed"

Reusable(s) == {id \in DOMAIN s.popups : ~s.popups[id].pinned}

(* Mutant of Evictable: unfinished popups count as well. *)
EvictableUnfinished(s, source) == {id \in Reusable(s) : id \notin {source, s.activePopup}}

Evictable(s, source) ==
    {id \in Reusable(s) : s.popups[id].view = "Result" /\ id \notin {source, s.activePopup}}

Full(s) == Cardinality(DOMAIN s.popups) >= MaxVisible

NoSurface(s) == [shell |-> s, popup |-> 0]
OnSurface(s, id) == [shell |-> s, popup |-> id]

(* A popup beyond the capacity is staged and replaces the oldest popup     *)
(* that may go.  Creating the window may fail, which costs an id; past     *)
(* MaxPopup it does.                                                       *)
CreatePopup(s, source, canShow) ==
    IF (Full(s) /\ Evictable(s, source) = {}) \/ s.nextPopup > MaxPopup THEN NoSurface(s)
    ELSE IF ~canShow THEN NoSurface([s EXCEPT !.nextPopup = @ + 1])
    ELSE LET evicted == IF Full(s) THEN {Min(Evictable(s, source))} ELSE {}
             kept == RemovePopups(s, evicted)
         IN  OnSurface([kept EXCEPT !.popups = Entered(@, s.nextPopup, NewEntry),
                                    !.nextPopup = @ + 1], s.nextPopup)

(* ensure_popup: the destination, else the newest popup that is not        *)
(* pinned, else a new one.  The registry is in creation order.             *)
EnsurePopup(s, destination, source, forceNew, canShow) ==
    IF Alive(s, destination) THEN OnSurface(s, destination)
    ELSE LET there == RemovePopup(s, destination)
             reused == IF forceNew \/ Reusable(there) = {} THEN 0 ELSE Max(Reusable(there))
         IN  IF Alive(there, reused) THEN OnSurface(there, reused)
             ELSE CreatePopup(RemovePopup(there, reused), source, canShow)

ShowLocalError(s, job, canShow) ==
    LET found == EnsurePopup(s, 0, 0, FALSE, canShow)
        id == found.popup
    IN  IF id = 0 THEN found.shell
        ELSE [found.shell EXCEPT !.popupJob = job,
                                 !.activePopup = id,
                                 !.popups[id].view = "Error",
                                 !.popups[id].choosing = FALSE,
                                 !.popups[id].hover = FALSE]

(* Only Manual is told why nothing happens. *)
TellManual(s, trigger, attempt, canShow) ==
    IF trigger = "Manual" THEN ShowLocalError(s, attempt, canShow) ELSE s

-----------------------------------------------------------------------------
(* Admission *)

(* The candidate's trigger, text, attempt, source and destination popups.   *)
(* Retry, Prompt and a chosen profile name a destination, and exactly they  *)
(* bypass duplicate suppression.                                            *)
Candidate(trigger, text, attempt, source, destination) ==
    [trigger |-> trigger, text |-> text, attempt |-> attempt,
     source |-> source, destination |-> destination]

CascadeReady(s, source) ==
    source # 0 => Alive(s, source) /\ s.popups[source].view = "Result"

(* RequestGate::prepare, as far as its answer goes. *)
Prepared(s, text) == text \in GoodTexts /\ s.provider

SetView(s, id, view) ==
    IF Alive(s, id)
    THEN [s EXCEPT !.popups[id].view = view, !.popups[id].choosing = FALSE]
    ELSE s

(* The commit point of admit_extracted_request: coordinator start, switch  *)
(* of the provider token, and either the cached output or a new stream.    *)
Commit(s, id, c) ==
    LET job == s.coord.nextId
        cached == s.cache[c.text]
        hit == cached # NoOutput
        started == StartJob(s.coord, c.trigger)
    IN  SetView([s EXCEPT
            !.coord = IF hit THEN CompleteJob(started, job, c.text, 0) ELSE started,
            !.revoked = @ \cup ({s.token} \ {0}),
            !.token = IF hit THEN 0 ELSE job,
            !.activeRequest = IF hit THEN "None" ELSE c.text,
            !.activePopup = id,
            !.popupJob = job,
            !.output = IF hit THEN cached.chunks ELSE <<>>,
            !.popups[id].hover = (c.trigger = "Hover"),
            !.popups[id].replay = [trigger |-> c.trigger, text |-> c.text]],
            id, IF hit THEN "Result" ELSE "Loading")

(* admit_extracted_request.  inFront: the window a Hover came from still   *)
(* has the foreground.                                                     *)
Admit(s, c, inFront, canShow) ==
    IF (c.trigger = "Hover" /\ ~inFront) \/ ~CascadeReady(s, c.source) THEN s
    ELSE IF ~Prepared(s, c.text) \/ ~CanStart(s.coord, c.trigger, c.text, 0, c.destination = 0)
    THEN TellManual(s, c.trigger, c.attempt, canShow)
    ELSE LET found == EnsurePopup(s, c.destination, c.source,
                                  c.source # 0 /\ c.destination = 0, canShow)
         IN  IF found.popup = 0 THEN found.shell
             ELSE Commit(found.shell, found.popup, c)

-----------------------------------------------------------------------------
(* Handlers *)

RemoveChooser(s) == IF s.choice = NoChoice THEN s ELSE RemovePopup(s, s.choice.popup)

OutrankedBy(s, trigger) ==
    \/ s.pending # NoPending /\ Priority(s.pending.trigger) > Priority(trigger)
    \/ s.coord.active # NoJob /\ Priority(s.coord.active.trigger) > Priority(trigger)

Extract(s, trigger, source) ==
    LET c == IF trigger = "Manual" THEN CancelInflightWork(s) ELSE CancelPendingExtraction(s)
    IN  [c EXCEPT !.nextAttempt = @ + 1,
                  !.pending = [attempt |-> s.nextAttempt, trigger |-> trigger,
                               source |-> source, generation |-> s.generation]]

(* begin_request *)
BeginRequest(s, trigger, source, canShow) ==
    IF s.rest THEN s
    ELSE IF s.startupError THEN TellManual(s, trigger, 0, canShow)
    ELSE IF s.choice # NoChoice /\ trigger = "Hover" THEN s
    ELSE LET c == RemoveChooser(s)
         IN  IF OutrankedBy(c, trigger) THEN c ELSE Extract(c, trigger, source)

(* The Selection half of handle_extraction: ask for a profile first. *)
ShowChooser(s, text, canShow) ==
    IF ~Prepared(s, text) THEN s
    ELSE LET found == EnsurePopup(s, 0, 0, FALSE, canShow)
         IN  IF found.popup = 0 \/ ~canShow THEN RemovePopup(found.shell, found.popup)
             ELSE [found.shell EXCEPT
                     !.popups[found.popup].choosing = TRUE,
                     !.popupJob = 0,
                     !.choice = [popup |-> found.popup, text |-> text,
                                 generation |-> s.generation]]

(* Mutant of TakesPending: any extraction answer consumes the pending one. *)
TakesPendingAny(s, attempt) == s.pending # NoPending

(* take_matching_pending *)
TakesPending(s, attempt) ==
    s.pending.attempt = attempt /\ s.pending.generation = s.generation

(* handle_extraction; text is "None" when the extraction failed. *)
HandleExtraction(s, attempt, text, inFront, canShow) ==
    IF ~TakesPending(s, attempt) THEN s
    ELSE LET p == s.pending
             t == [s EXCEPT !.pending = NoPending]
         IN  IF s.startupError \/ text = "None"
             THEN TellManual(t, p.trigger, attempt, canShow)
             ELSE IF p.trigger = "Selection" THEN ShowChooser(t, text, canShow)
             ELSE Admit(t, Candidate(p.trigger, text, attempt, p.source, 0), inFront, canShow)

(* replay_popup: Retry, and Prompt with another profile. *)
ReplayPopup(s, id, inFront, canShow) ==
    LET r == s.popups[id].replay
    IN  IF id \notin DOMAIN s.popups \/ r = NoReplay THEN s
        ELSE Admit(CancelInflightWork(s), Candidate(r.trigger, r.text, 0, 0, id), inFront, canShow)

(* begin_selected_profile, once the profile is known to exist: profile ids *)
(* of the choice's generation are profiles of the current configuration.   *)
BeginSelectedProfile(s, id, canShow) ==
    IF s.choice.popup # id \/ s.choice.generation # s.generation THEN s
    ELSE Admit([s EXCEPT !.choice = NoChoice],
               Candidate("Selection", s.choice.text, 0, 0, id), TRUE, canShow)

(* is_current_presentation *)
IsCurrentPresentation(s, job) == IsCurrent(s.coord, job) /\ s.popupJob = job

HandleDelta(s, job) ==
    IF IsCurrentPresentation(s, job) THEN [s EXCEPT !.output = Append(@, job)] ELSE s

(* A stream that ended well with some output is cached, recorded and       *)
(* completed.  History is written from the same output as the cache.       *)
Succeed(s, job) ==
    LET text == s.activeRequest
        kept == IF text = "None" THEN s
                ELSE [s EXCEPT !.cache[text] = [job |-> job, chunks |-> s.output],
                               !.coord = CompleteJob(@, job, text, 0)]
    IN  SetView([kept EXCEPT !.activeRequest = "None"], s.activePopup, "Result")

Fail(s, job) == [s EXCEPT !.coord = FinishJob(@, job), !.activeRequest = "None"]

(* handle_finished *)
HandleFinished(s, job, end) ==
    IF ~IsCurrentPresentation(s, job) THEN s
    ELSE LET t == [s EXCEPT !.token = 0]
         IN  CASE end = "Ok" /\ s.output # <<>> -> Succeed(t, job)
               [] end = "Ok" /\ s.output = <<>> -> SetView(Fail(t, job), s.activePopup, "Error")
               [] end = "Failed"                -> SetView(Fail(t, job), s.activePopup, "Error")
               [] end = "Cancelled"             -> Fail(t, job)

CancelHoverExtraction(s) ==
    IF s.pending.trigger = "Hover" THEN CancelPendingExtraction(s) ELSE s

HoverPopups(s) == {id \in DOMAIN s.popups : s.popups[id].hover}

(* cancel_hover_work *)
CancelHoverWork(s) == RemovePopups(CancelHoverExtraction(s), HoverPopups(s))

(* Hover is switched on or off, by its hot key or in the tray menu. *)
ToggleHover(s) ==
    [(IF s.hoverOn THEN CancelHoverWork(s) ELSE s) EXCEPT !.hoverOn = ~s.hoverOn]

(* Mutant of SetRestMode: cancelling is left to the removal of the popups. *)
SetRestModeByPopups(s, enabled) ==
    RemovePopups([s EXCEPT !.rest = enabled, !.choice = NoChoice], DOMAIN s.popups)

(* set_rest_mode *)
SetRestMode(s, enabled) ==
    RemovePopups([CancelInflightWork(s) EXCEPT !.rest = enabled, !.choice = NoChoice],
                 DOMAIN s.popups)

(* Mutant of NewGeneration: the cache survives. *)
NewGenerationKeepingCache(s) == [CancelInflightWork(s) EXCEPT !.generation = @ + 1]

(* What every reload does first. *)
NewGeneration(s) ==
    [CancelInflightWork(s) EXCEPT !.generation = @ + 1, !.cache = EmptyCache]

(* ConfigChange::Invalid in drain_config_changes. *)
ConfigInvalid(s) == RemoveChooser([NewGeneration(s) EXCEPT !.startupError = TRUE])

(* apply_provider_runtime; works: provider_reloader reports no error. *)
ApplyProviderRuntime(s, works) == [s EXCEPT !.provider = works, !.startupError = ~works]

(* Mutant of RefreshChooser: the choice keeps its old generation. *)
RefreshChooserOnly(s, canShow) ==
    IF s.choice = NoChoice THEN s
    ELSE IF Alive(s, s.choice.popup) /\ canShow
    THEN [s EXCEPT !.popups[s.choice.popup].choosing = TRUE]
    ELSE RemovePopup(s, s.choice.popup)

RefreshChooser(s, canShow) ==
    IF s.choice = NoChoice THEN s
    ELSE IF Alive(s, s.choice.popup) /\ canShow
    THEN [s EXCEPT !.popups[s.choice.popup].choosing = TRUE,
                   !.choice.generation = s.generation]
    ELSE RemovePopup(s, s.choice.popup)

(* apply_config *)
ApplyConfig(s, config, works, canShow) ==
    IF config = s.config THEN s
    ELSE RefreshChooser([ApplyProviderRuntime(NewGeneration(s), works) EXCEPT !.config = config],
                        canShow)

(* refresh_provider *)
RefreshProvider(s, works) == RemoveChooser(ApplyProviderRuntime(NewGeneration(s), works))

-----------------------------------------------------------------------------
(* The steps of the message loop *)

(* Pipeline::stream: a started job without a cached answer gets a thread. *)
Handle(new) ==
    LET job == shell.coord.nextId
    IN  /\ shell' = new
        /\ streams' = IF new.coord.nextId = job THEN streams
                      ELSE Entered(streams, job,
                              [sent |-> 0, generation |-> shell.generation,
                               end |-> IF new.token = job THEN "Running" ELSE "Cached"])

(* An id comes back only after 2^64 - 1 starts. *)
JobIdIsFree == shell.coord.nextId \notin DOMAIN streams

Trigger(trigger) ==
    /\ shell.nextAttempt <= MaxAttempt
    /\ trigger = "Hover" => shell.hoverOn
    /\ \E source \in {0} \cup DOMAIN shell.popups, canShow \in BOOLEAN :
          /\ source # 0 => trigger = "Hover" /\ ~shell.popups[source].choosing
                             /\ shell.popups[source].view = "Result"
          /\ Handle(BeginRequest(shell, trigger, source, canShow))
    /\ open' = IF shell'.nextAttempt # shell.nextAttempt
               THEN open \cup {shell.nextAttempt} ELSE open

ExtractionAnswered(attempt) ==
    /\ attempt \in open
    /\ JobIdIsFree
    /\ open' = open \ {attempt}
    /\ \E text \in Texts \cup {"None"}, canShow \in BOOLEAN,
          inFront \in IF shell.pending.trigger = "Hover" THEN BOOLEAN ELSE {TRUE} :
          Handle(HandleExtraction(shell, attempt, text, inFront, canShow))

Replay(id) ==
    /\ id \in DOMAIN shell.popups
    /\ JobIdIsFree
    /\ \E canShow \in BOOLEAN,
          inFront \in IF shell.popups[id].replay.trigger = "Hover" THEN BOOLEAN ELSE {TRUE} :
          Handle(ReplayPopup(shell, id, inFront, canShow))
    /\ UNCHANGED open

ProfileSelected(id) ==
    /\ JobIdIsFree
    /\ \E canShow \in BOOLEAN : Handle(BeginSelectedProfile(shell, id, canShow))
    /\ UNCHANGED open

Delta(job) ==
    /\ job \in DOMAIN streams
    /\ streams[job].end = "Running"
    /\ streams[job].sent < MaxChunks
    /\ streams' = [streams EXCEPT ![job].sent = @ + 1]
    /\ shell' = HandleDelta(shell, job)
    /\ UNCHANGED open

(* Only a stream that was told to stop ends as Cancelled; it may also have  *)
(* ended otherwise before it noticed.                                       *)
Finished(job) ==
    /\ job \in DOMAIN streams
    /\ streams[job].end = "Running"
    /\ \E end \in {"Ok", "Failed", "Cancelled"} :
          /\ end = "Cancelled" => job \in shell.revoked
          /\ streams' = [streams EXCEPT ![job].end = IF end = "Ok" THEN "Ok" ELSE "Failed"]
          /\ shell' = HandleFinished(shell, job, end)
    /\ UNCHANGED open

PinToggled(id) ==
    /\ Alive(shell, id)
    /\ ~shell.popups[id].choosing
    /\ shell' = [shell EXCEPT !.popups[id].pinned = ~@]
    /\ UNCHANGED <<open, streams>>

(* close_by_user destroys the window; POPUP_DISMISSED is handled later. *)
UserCloses(id) ==
    /\ Alive(shell, id)
    /\ shell' = [shell EXCEPT !.popups[id].view = "Closed",
                               !.popups[id].choosing = FALSE, !.popups[id].pinned = FALSE]
    /\ UNCHANGED <<open, streams>>

PopupDismissed(id) ==
    /\ id \in DOMAIN shell.popups
    /\ shell.popups[id].view = "Closed"
    /\ shell' = RemovePopup(shell, id)
    /\ UNCHANGED <<open, streams>>

(* dismiss_unpinned_outside, for a click into one popup or into none. *)
ClickOutside ==
    /\ \E clicked \in {0} \cup DOMAIN shell.popups :
          shell' = RemovePopups(shell, Reusable(shell) \ {clicked})
    /\ UNCHANGED <<open, streams>>

(* cancel_hover_extraction: the pointer moved on, or a button went down. *)
PointerMoves ==
    /\ shell' = CancelHoverExtraction(shell)
    /\ UNCHANGED <<open, streams>>

(* Mutant of ForegroundChanged: pinned Hover popups go as well. *)
ForegroundChangedEvenPinned ==
    /\ \E ids \in SUBSET HoverPopups(shell) :
          shell' = RemovePopups(CancelHoverExtraction(shell), ids)
    /\ UNCHANGED <<open, streams>>

(* handle_foreground_changed: of the Hover popups that are not pinned those *)
(* go that belong to other windows.                                         *)
ForegroundChanged ==
    /\ \E ids \in SUBSET (HoverPopups(shell) \cap Reusable(shell)) :
          shell' = RemovePopups(CancelHoverExtraction(shell), ids)
    /\ UNCHANGED <<open, streams>>

(* Rest mode leaves the toggle to nobody. *)
HoverToggled ==
    /\ ~shell.rest
    /\ shell' = ToggleHover(shell)
    /\ UNCHANGED <<open, streams>>

RestToggled ==
    /\ shell' = SetRestMode(shell, ~shell.rest)
    /\ UNCHANGED <<open, streams>>

ConfigRejected ==
    /\ shell.generation < MaxGeneration
    /\ shell' = ConfigInvalid(shell)
    /\ UNCHANGED <<open, streams>>

ConfigLoaded(config, works) ==
    /\ shell.generation < MaxGeneration
    /\ \E canShow \in BOOLEAN : shell' = ApplyConfig(shell, config, works, canShow)
    /\ UNCHANGED <<open, streams>>

CredentialsChanged(works) ==
    /\ shell.generation < MaxGeneration
    /\ shell' = RefreshProvider(shell, works)
    /\ UNCHANGED <<open, streams>>

(* AUTOMATIC_DUPLICATE_TTL passes: the last success suppresses no more. *)
DuplicateWindowPasses ==
    /\ shell' = [shell EXCEPT !.coord.recent = NoRecent]
    /\ UNCHANGED <<open, streams>>

Next ==
    \/ \E trigger \in Triggers : Trigger(trigger)
    \/ \E attempt \in Attempts : ExtractionAnswered(attempt)
    \/ \E id \in PopupIds :
          Replay(id) \/ ProfileSelected(id) \/ PinToggled(id) \/ UserCloses(id) \/ PopupDismissed(id)
    \/ \E job \in JobIds : Delta(job) \/ Finished(job)
    \/ ClickOutside
    \/ PointerMoves
    \/ ForegroundChanged
    \/ HoverToggled
    \/ RestToggled
    \/ ConfigRejected
    \/ \E works \in BOOLEAN :
          CredentialsChanged(works) \/ \E config \in Configs : ConfigLoaded(config, works)
    \/ DuplicateWindowPasses

Spec == Init /\ [][Next]_vars

-----------------------------------------------------------------------------
(* A stream nobody told to stop is the coordinator's active job, and the   *)
(* shell still holds the token that can stop it: no handler leaves a       *)
(* provider call running that nothing can reach any more (app.rs,          *)
(* admit_extracted_request, remove_popup, cancel_inflight_work).           *)
OneLiveStream ==
    \A job \in DOMAIN streams :
        streams[job].end = "Running" /\ job \notin shell.revoked
            => shell.token = job /\ IsCurrent(shell.coord, job)

(* Deltas and results reach the popup their job was admitted for: while    *)
(* the active job is the one presented, its popup is registered, its       *)
(* request is at hand and its token is the one held (app.rs,               *)
(* is_current_presentation and the fields it vouches for).                 *)
PresentationIsWired ==
    shell.coord.active # NoJob /\ IsCurrentPresentation(shell, shell.coord.active.id)
        => /\ shell.activePopup \in DOMAIN shell.popups
           /\ shell.activeRequest # "None"
           /\ shell.token = shell.popupJob
           /\ streams[shell.popupJob].end = "Running"
           /\ shell.popups[shell.activePopup].replay =
                 [trigger |-> shell.coord.active.trigger, text |-> shell.activeRequest]

(* What the shell waits for can still come: the pending attempt is open    *)
(* and its answer will be taken, and the chooser's popup is registered and *)
(* its choice accepted (app.rs, take_matching_pending and                  *)
(* profile_for_generation against every reload and dismissal).             *)
AwaitedCanCome ==
    /\ shell.pending # NoPending =>
          shell.pending.attempt \in open /\ shell.pending.generation = shell.generation
    /\ shell.choice # NoChoice =>
          /\ shell.choice.popup \in DOMAIN shell.popups
          /\ shell.choice.generation = shell.generation
          /\ shell.pending = NoPending

(* An extraction answer is used for the request it was made for and for no *)
(* other: a late answer of a cancelled attempt never consumes its          *)
(* replacement (app.rs, handle_extraction).                                *)
AnswerServesItsRequest ==
    [][\A attempt \in open \ open' :
          shell.pending # NoPending /\ shell'.pending = NoPending
              => attempt = shell.pending.attempt]_vars

(* Only whole results are kept: a cached output, which is what history got *)
(* as well, consists of all the deltas of one stream that ended well under *)
(* the current configuration (docs/PRIVACY.md: failed, cancelled, stale,   *)
(* partial and empty jobs are not stored).                                 *)
CachedOutputIsWhole ==
    \A text \in GoodTexts :
        LET o == shell.cache[text]
        IN  o # NoOutput =>
              /\ o.chunks # <<>>
              /\ o.chunks = [i \in 1..streams[o.job].sent |-> o.job]
              /\ streams[o.job].end = "Ok"
              /\ streams[o.job].generation = shell.generation

(* In rest mode nothing is shown, awaited or running, whatever messages    *)
(* were under way when it was entered (app.rs, set_rest_mode).             *)
RestIsQuiet ==
    shell.rest => /\ DOMAIN shell.popups = {}
                  /\ shell.pending = NoPending
                  /\ shell.choice = NoChoice
                  /\ shell.coord.active = NoJob
                  /\ shell.token = 0

(* A cascade at capacity takes at most a finished popup away: never a      *)
(* pinned one, the one it springs from, or one that still waits for its    *)
(* output; and the registry never outgrows its capacity (app.rs,           *)
(* oldest_evictable_popup and ensure_result_surface).                      *)
EvictionSparesWork ==
    [][/\ Cardinality(DOMAIN shell'.popups) <= MaxVisible
       /\ shell'.coord.nextId # shell.coord.nextId =>
             \A id \in DOMAIN shell.popups \ DOMAIN shell'.popups :
                \/ shell.popups[id].view = "Closed"
                \/ /\ shell.popups[id].view = "Result"
                   /\ ~shell.popups[id].pinned
                   /\ id # shell.pending.source]_vars

(* A pinned popup is not taken away: no eviction, reuse, click, foreground *)
(* change, reload or stale message removes it, and a pinned Hover popup    *)
(* goes in no step but the one that switches Hover off (app.rs,            *)
(* should_dismiss_hover_for_foreground and its test, dismiss_unpinned_     *)
(* outside).  Left are rest mode and a popup the shell believes to be the  *)
(* chooser.                                                                *)
PinnedPopupsStay ==
    [][\A id \in DOMAIN shell.popups :
          shell.popups[id].pinned /\ id \notin DOMAIN shell'.popups
              => \/ shell'.rest # shell.rest
                 \/ shell.popups[id].hover /\ shell.hoverOn /\ ~shell'.hoverOn
                 \/ shell.choice.popup = id]_vars

(* What keeps a trigger out is work that will report: with nothing awaited *)
(* or chosen, a trigger outranked by the coordinator's active job has a    *)
(* job before it whose stream still runs (coordinator.rs: an ended job     *)
(* "must not block later jobs").                                           *)
EndedJobDoesNotBlock ==
    \A trigger \in Triggers :
        /\ ~shell.rest /\ ~shell.startupError
        /\ trigger = "Hover" => shell.hoverOn
        /\ shell.pending = NoPending /\ shell.choice = NoChoice
        /\ OutrankedBy(shell, trigger)
        => streams[shell.coord.active.id].end = "Running"

=============================================================================
