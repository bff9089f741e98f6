------------------------- MODULE ExtractionMailbox -------------------------
(***************************************************************************)
(* The extraction half of composition.rs: the message loop submits and     *)
(* cancels requests through a one-slot mailbox (mutex and condition        *)
(* variable), one worker thread takes them and asks UI Automation, the     *)
(* native edit control, the clipboard and OCR in turn, and posts the       *)
(* result to the event channel.  Every critical section, every platform    *)
(* call and every separate read of a cancellation flag is a step.          *)
(***************************************************************************)
EXTENDS Integers, Sequences, SequencesExt

CONSTANT MaxAttempt     \* bound of the attempt counter for model checking

ASSUME AttemptAssumption == MaxAttempt \in Nat

VARIABLES
    (* the message loop *)
    uiPc,           \* "Idle", "Submitting", "Dropping", "Gone"
    nextAttempt,    \* Pipeline::next_attempt
    wanted,         \* attempt in ShellState::pending, 0 for None
    (* the mailbox, under its mutex *)
    slot,           \* the pending request, or NoRequest
    mailActive,     \* attempt whose token the mailbox holds as active, or 0
    shuttingDown,
    (* shared atomics and the channel *)
    cancelled,      \* attempts whose CancellationToken is set
    events,         \* PipelineEvent::Extraction messages, oldest first
    (* the worker thread *)
    pc,             \* where the worker is
    request,        \* the request it works on
    result,         \* the last outcome
    trail           \* the sources asked for this request, with their outcomes

uiVars == <<uiPc, nextAttempt, wanted>>
mailVars == <<slot, mailActive, shuttingDown>>
workVars == <<pc, request, result, trail>>
vars == <<uiVars, mailVars, cancelled, events, workVars>>

Attempts == 1..MaxAttempt
Triggers == {"Hover", "Selection", "Manual"}

(* hasRect: the trigger remembered a selection rectangle. *)
Request == [attempt : Attempts, trigger : Triggers, hasRect : BOOLEAN]
NoRequest == [attempt |-> 0, trigger |-> "None", hasRect |-> FALSE]

(* Ok carries a sentence of context, Bare does not; Denied is               *)
(* PermissionDenied and Failed any other ExtractionFailure.                 *)
Outcomes == {"Ok", "Bare", "Denied", "Failed"}
Errors == {"Denied", "Failed"}
Sources == {"Uia", "Native", "Clipboard", "Ocr"}

Stages == {"Uia", "Native", "Clipboard", "Ocr", "Enrich", "Check", "Post"}
WorkerPcs == Stages \cup {"Absent", "Next", "Waiting", "Complete", "Exited"}

TypeOK ==
    /\ uiPc \in {"Idle", "Submitting", "Dropping", "Gone"}
    /\ nextAttempt \in 1..(MaxAttempt + 1)
    /\ wanted \in 0..MaxAttempt
    /\ slot \in Request \cup {NoRequest}
    /\ mailActive \in 0..MaxAttempt
    /\ shuttingDown \in BOOLEAN
    /\ cancelled \subseteq Attempts
    /\ events \in Seq([attempt : Attempts, result : Outcomes])
    /\ pc \in WorkerPcs
    /\ request \in Request \cup {NoRequest}
    /\ result \in Outcomes
    /\ trail \in Seq([source : Sources, outcome : Outcomes])

(* "Absent": the worker thread could not be started. *)
Init ==
    /\ uiPc = "Idle"
    /\ nextAttempt = 1
    /\ wanted = 0
    /\ slot = NoRequest
    /\ mailActive = 0
    /\ shuttingDown = FALSE
    /\ cancelled = {}
    /\ events = <<>>
    /\ pc \in {"Next", "Absent"}
    /\ request = NoRequest
    /\ result = "Failed"
    /\ trail = <<>>

-----------------------------------------------------------------------------
(* The mailbox's critical sections *)

(* notify_one: a wake-up is lost unless the worker waits. *)
Notified(at) == IF at = "Waiting" THEN "Next" ELSE at

(* Mutant of MailboxCancel: only the slot is emptied. *)
MailboxCancelSlotOnly ==
    /\ slot' = NoRequest
    /\ UNCHANGED <<mailActive, cancelled>>

MailboxCancel ==
    /\ slot' = NoRequest
    /\ mailActive' = 0
    /\ cancelled' = cancelled \cup ({mailActive} \ {0})

(* Mutant of MailboxSubmit: notify_one is forgotten. *)
MailboxSubmitSilently(new) ==
    /\ slot' = new
    /\ cancelled' = cancelled \cup ({mailActive} \ {0})
    /\ UNCHANGED <<mailActive, shuttingDown, pc>>

MailboxSubmit(new) ==
    /\ slot' = new
    /\ cancelled' = cancelled \cup ({mailActive} \ {0})
    /\ pc' = Notified(pc)
    /\ UNCHANGED <<mailActive, shuttingDown>>

-----------------------------------------------------------------------------
(* The message loop *)

(* begin_request: cancel_pending_extraction, then Pipeline::extract. *)
BeginRequest ==
    /\ uiPc = "Idle"
    /\ nextAttempt <= MaxAttempt
    /\ uiPc' = "Submitting"
    /\ wanted' = 0
    /\ MailboxCancel
    /\ UNCHANGED <<nextAttempt, shuttingDown, events, workVars>>

Await == nextAttempt' = nextAttempt + 1 /\ wanted' = nextAttempt

(* Pipeline::extract, and the attempt it returned becomes the wanted one. *)
Extract(trigger, hasRect) ==
    /\ uiPc = "Submitting"
    /\ uiPc' = "Idle"
    /\ Await
    /\ IF pc = "Absent"
       THEN /\ events' = Append(events, [attempt |-> nextAttempt, result |-> "Failed"])
            /\ UNCHANGED <<mailVars, cancelled, pc>>
       ELSE /\ MailboxSubmit([attempt |-> nextAttempt, trigger |-> trigger,
                              hasRect |-> hasRect])
            /\ UNCHANGED events
    /\ UNCHANGED <<request, result, trail>>

(* cancel_pending_extraction on its own: dismissal, reload, rest mode. *)
CancelExtraction ==
    /\ uiPc = "Idle"
    /\ wanted # 0
    /\ wanted' = 0
    /\ MailboxCancel
    /\ UNCHANGED <<uiPc, nextAttempt, shuttingDown, events, workVars>>

(* take_matching_pending: an answer nobody waits for is dropped. *)
HandleExtraction ==
    /\ uiPc = "Idle"
    /\ events # <<>>
    /\ events' = Tail(events)
    /\ wanted' = IF Head(events).attempt = wanted THEN 0 ELSE wanted
    /\ UNCHANGED <<uiPc, nextAttempt, mailVars, cancelled, workVars>>

MailboxShutdown ==
    /\ shuttingDown' = TRUE
    /\ slot' = NoRequest
    /\ mailActive' = 0
    /\ cancelled' = cancelled \cup ({mailActive} \ {0})
    /\ pc' = Notified(pc)

(* ExtractionWorker::drop, when the resident exits. *)
DropWorker ==
    /\ uiPc = "Idle"
    /\ pc # "Absent"
    /\ uiPc' = "Dropping"
    /\ wanted' = 0
    /\ MailboxShutdown
    /\ UNCHANGED <<nextAttempt, events, request, result, trail>>

(* The join loop ends with the worker, or when its 150 ms are used up. *)
StopWaitingForWorker ==
    /\ uiPc = "Dropping"
    /\ uiPc' = "Gone"
    /\ UNCHANGED <<nextAttempt, wanted, mailVars, cancelled, events, workVars>>

-----------------------------------------------------------------------------
(* The worker thread *)

(* Mutant of TakeSlot: the request is copied and stays in the slot. *)
CopySlot ==
    /\ slot' = slot
    /\ mailActive' = slot.attempt
    /\ request' = slot

TakeSlot ==
    /\ slot' = NoRequest
    /\ mailActive' = slot.attempt
    /\ request' = slot

(* ExtractionMailbox::next *)
TakeNext ==
    /\ pc = "Next"
    /\ IF shuttingDown
       THEN /\ slot' = NoRequest
            /\ pc' = "Exited"
            /\ UNCHANGED <<mailActive, request, trail>>
       ELSE IF slot # NoRequest
       THEN /\ TakeSlot
            /\ trail' = <<>>
            /\ pc' = "Uia"
       ELSE /\ pc' = "Waiting"
            /\ UNCHANGED <<slot, mailActive, request, trail>>
    /\ UNCHANGED <<uiVars, shuttingDown, cancelled, events, result>>

(* Condvar::wait may return without a notification. *)
SpuriousWakeup ==
    /\ pc = "Waiting"
    /\ pc' = "Next"
    /\ UNCHANGED <<uiVars, mailVars, cancelled, events, request, result, trail>>

IsCancelled == request.attempt \in cancelled

(* The worker asks a source, which answers outcome, and goes on to `goto`. *)
Ask(source, outcome, goto) ==
    /\ trail' = Append(trail, [source |-> source, outcome |-> outcome])
    /\ result' = outcome
    /\ pc' = goto
    /\ UNCHANGED <<uiVars, mailVars, cancelled, events, request>>

(* A stage that is skipped leaves the previous result in place. *)
Skip(goto) ==
    /\ pc' = goto
    /\ UNCHANGED <<uiVars, mailVars, cancelled, events, request, result, trail>>

AfterUia(outcome) ==
    CASE IsCancelled                                  -> "Complete"
      [] ~IsCancelled /\ request.trigger = "Hover"     ->
             IF outcome \in Errors THEN "Ocr" ELSE "Enrich"
      [] ~IsCancelled /\ request.trigger = "Manual"    ->
             IF outcome \in Errors THEN "Clipboard" ELSE "Check"
      [] ~IsCancelled /\ request.trigger = "Selection" ->
             IF outcome \in Errors THEN "Native" ELSE "Enrich"

AskUia ==
    /\ pc = "Uia"
    /\ \E outcome \in Outcomes : Ask("Uia", outcome, AfterUia(outcome))

(* native_failure_allows_fallback *)
FallbackAllowed(outcome) == outcome # "Denied"

AskNative ==
    /\ pc = "Native"
    /\ \/ IsCancelled /\ Skip("Check")
       \/ /\ ~IsCancelled
          /\ \E outcome \in Outcomes :
                Ask("Native", outcome,
                    IF outcome \notin Errors THEN "Enrich"
                    ELSE IF FallbackAllowed(outcome) THEN "Clipboard" ELSE "Check")

(* Mutant of ClipboardAllowed: the rectangle is not asked for. *)
ClipboardAllowedAlways == request.trigger \in {"Manual", "Selection"}

(* clipboard_fallback_allowed *)
ClipboardAllowed ==
    \/ request.trigger = "Manual"
    \/ request.trigger = "Selection" /\ request.hasRect

(* Clipboard text alone carries no context.  Manual goes on to OCR after    *)
(* any failure, Selection only when the failure allows a fallback.          *)
AskClipboard ==
    /\ pc = "Clipboard"
    /\ \/ IsCancelled /\ Skip("Check")
       \/ ~IsCancelled /\ ~ClipboardAllowed /\ Skip("Ocr")
       \/ /\ ~IsCancelled
          /\ ClipboardAllowed
          /\ \E outcome \in Outcomes \ {"Ok"} :
                Ask("Clipboard", outcome,
                    CASE outcome \notin Errors /\ request.trigger = "Selection" -> "Enrich"
                      [] outcome \notin Errors /\ request.trigger = "Manual"    -> "Check"
                      [] outcome \in Errors ->
                            IF request.trigger = "Manual" \/ FallbackAllowed(outcome)
                            THEN "Ocr" ELSE "Check")

AskOcr ==
    /\ pc = "Ocr"
    /\ \/ IsCancelled /\ Skip("Check")
       \/ /\ ~IsCancelled
          /\ \E outcome \in Outcomes : Ask("Ocr", outcome, "Check")

(* enrich_missing_selection_context and enrich_missing_hover_context: text  *)
(* without a sentence is completed by OCR.  Selection keeps bare text when  *)
(* that fails; Hover turns it into an error.                                *)
Enrich ==
    /\ pc = "Enrich"
    /\ pc' = "Check"
    /\ \E found \in BOOLEAN :
          result' = CASE result = "Ok" -> "Ok"
                      [] result = "Bare" /\ request.trigger = "Hover" ->
                            IF found /\ ~IsCancelled THEN "Ok" ELSE "Failed"
                      [] result = "Bare" /\ request.trigger = "Selection" ->
                            IF found /\ request.hasRect /\ ~IsCancelled THEN "Ok" ELSE "Bare"
    /\ UNCHANGED <<uiVars, mailVars, cancelled, events, request, trail>>

(* The last look at the flag before the result is posted. *)
CheckBeforePost ==
    /\ pc = "Check"
    /\ Skip(IF IsCancelled THEN "Complete" ELSE "Post")

PostResult ==
    /\ pc = "Post"
    /\ events' = Append(events, [attempt |-> request.attempt, result |-> result])
    /\ pc' = "Complete"
    /\ UNCHANGED <<uiVars, mailVars, cancelled, request, result, trail>>

MailboxComplete == mailActive' = IF mailActive = request.attempt THEN 0 ELSE mailActive

CompleteRequest ==
    /\ pc = "Complete"
    /\ pc' = "Next"
    /\ MailboxComplete
    /\ UNCHANGED <<uiVars, slot, shuttingDown, cancelled, events, request, result, trail>>

Worker ==
    \/ TakeNext
    \/ AskUia
    \/ AskNative
    \/ AskClipboard
    \/ AskOcr
    \/ Enrich
    \/ CheckBeforePost
    \/ PostResult
    \/ CompleteRequest

Next ==
    \/ BeginRequest
    \/ \E trigger \in Triggers, hasRect \in BOOLEAN : Extract(trigger, hasRect)
    \/ CancelExtraction
    \/ HandleExtraction
    \/ DropWorker
    \/ StopWaitingForWorker
    \/ SpuriousWakeup
    \/ Worker

(* The worker thread is scheduled and its platform calls return; the        *)
(* message loop goes on with a handler it began and drains the channel.     *)
(* Nobody has to begin or cancel a request.                                 *)
Fairness ==
    /\ WF_vars(Worker)
    /\ WF_vars(\E trigger \in Triggers, hasRect \in BOOLEAN : Extract(trigger, hasRect))
    /\ WF_vars(HandleExtraction)

Spec == Init /\ [][Next]_vars /\ Fairness

-----------------------------------------------------------------------------
(* The refinement mapping: an attempt is open while it sits in the slot or  *)
(* the worker has not decided about its answer.                             *)

Working == pc \in Stages

OpenAttempts ==
    ({slot.attempt} \ {0}) \cup (IF Working THEN {request.attempt} ELSE {})

Promise == INSTANCE LatestWins
             WITH open <- OpenAttempts,
                  answers <- [i \in DOMAIN events |-> events[i].attempt]

(* The mailbox and its worker do what the message loop relies on: only an  *)
(* unwanted attempt is given up, none is answered twice (composition.rs,   *)
(* ExtractionMailbox and run_extraction).                                  *)
ImplementsLatestWins == Promise!Spec

(* Work nobody wants any more has been told to stop: whenever the message  *)
(* loop is between handlers, a request the worker still runs is either the *)
(* wanted one or sees its cancellation flag (ExtractionMailbox::submit,    *)
(* next, cancel and complete on two threads).                              *)
StaleWorkIsCancelled ==
    uiPc = "Idle" /\ Working /\ request.attempt # wanted => request.attempt \in cancelled

(* Sources are asked in the documented order, each only after the previous *)
(* ones failed; Copy is never synthesized for Hover or for a Selection     *)
(* without a rectangle, and nothing follows a denial by the native control *)
(* (docs/FALLBACKS.md, run_extraction).                                    *)
FallbackOrder ==
    LET asked == {trail[i].source : i \in DOMAIN trail}
    IN  /\ \A i \in 1..(Len(trail) - 1) : trail[i].outcome \in Errors
        /\ "Clipboard" \in asked =>
              \/ request.trigger = "Manual"
              \/ /\ request.trigger = "Selection"
                 /\ request.hasRect
                 /\ \E i \in DOMAIN trail : trail[i].source = "Native"
        /\ \A i \in DOMAIN trail :
              trail[i] = [source |-> "Native", outcome |-> "Denied"] => i = Len(trail)
        /\ "Native" \in asked => request.trigger = "Selection"

(* Every attempt the message loop waits for is resolved, however the       *)
(* submissions, cancellations and wake-ups interleave; and the worker      *)
(* leaves its loop once the resident drops it, also when it was asleep in  *)
(* the mailbox or busy with a request.                                     *)
NobodyWaitsForever ==
    /\ \A attempt \in Attempts : wanted = attempt ~> wanted # attempt
    /\ shuttingDown ~> pc = "Exited"
=============================================================================
