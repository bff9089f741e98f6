--------------------------- MODULE ClipboardCopy ---------------------------
(***************************************************************************)
(* clipboard.rs: one thread answers extraction requests by borrowing the   *)
(* user's clipboard.  It clones the clipboard, injects a Copy into the     *)
(* application in front, waits for the clipboard to change and settle,     *)
(* reads the text and puts the clone back.  Every other program may open   *)
(* the clipboard and write it between any two of its steps.                *)
(***************************************************************************)
EXTENDS Integers

CONSTANTS
    Owners,         \* windows that own the clipboard (GetClipboardOwner)
    MaxCalls,       \* bound: extractions asked of the worker
    MaxWrites,      \* bound: times other programs write the clipboard
    SeqMod          \* the clipboard sequence number wraps here (2^32)

(* No sequence number comes back within one extraction. *)
ASSUME ClipboardAssumption ==
    /\ MaxCalls \in Nat
    /\ MaxWrites \in Nat
    /\ SeqMod \in Nat
    /\ SeqMod > 2 * MaxWrites + 2 * MaxCalls

VARIABLES
    (* Windows and the other programs *)
    clip,           \* the clipboard: sequence number, owner, content
    writer,         \* what the program that has it open writes, or "Nobody"
    writes,         \* times other programs wrote so far
    asked,          \* injected Copy inputs their application may yet answer
    (* the callers: the extraction worker, and whoever drops the extractor *)
    calls,          \* extractions asked so far; a call is known by its number
    waiting,        \* the call waiting for its response, or 0
    slot,           \* the bounded channel: a call, 0 (empty) or Shutdown
    dropped,        \* ClipboardExtractor::drop ran; the sender is gone
    (* the clipboard worker *)
    pc,
    serving,        \* the call it works on
    snapshot,       \* what it cloned
    retried,        \* the second Copy was used
    partial,        \* SendInput injected only part of the keys
    seen,           \* last sequence number of wait_for_copy_settle
    copy,           \* RestoreClipboard::copy_sequence and copy_owner
    result,         \* what extract_once returns
    (* history *)
    seenContent,    \* the content that went with seen
    calm            \* nothing outside the protocol touched this extraction

outside == <<clip, writer, writes, asked>>
callers == <<calls, waiting, slot, dropped>>
worker == <<pc, serving, snapshot, retried, partial, seen, copy, result,
            seenContent>>
vars == <<outside, callers, worker, calm>>

-----------------------------------------------------------------------------
Sequences == 0..(SeqMod - 1)
NoOwner == "NoOwner"
OwnerSignals == Owners \cup {NoOwner}

(* Who put the content there, and which of all writes it was.  A program   *)
(* that empties the clipboard to fill it leaves "Nobody"'s for a while.     *)
Contents == [by : {"User", "Copy", "Nobody"}, write : 0..MaxWrites]
Clipboards == [sequence : Sequences, owner : OwnerSignals, content : Contents]
NoContent == [by |-> "Nobody", write |-> 0]

NoCopy == [sequence |-> -1, owner |-> NoOwner]
Observations == [sequence : Sequences, owner : OwnerSignals] \cup {NoCopy}

Shutdown == -1

Failed == [ok |-> FALSE, text |-> NoContent]
Results == [ok : BOOLEAN, text : Contents]

Running == {"Snapshot", "Send", "Inject", "Await", "Reconsider", "Settle",
            "Observe", "Read", "Restore", "Reopen", "Reply"}

TypeOK ==
    /\ clip \in Clipboards
    /\ writer \in {"Nobody", "User", "Copy"}
    /\ writes \in 0..MaxWrites
    /\ asked \in 0..(2 * MaxCalls)
    /\ calls \in 0..MaxCalls
    /\ waiting \in 0..MaxCalls
    /\ slot \in 0..MaxCalls \cup {Shutdown}
    /\ dropped \in BOOLEAN
    /\ pc \in Running \cup {"Idle", "Exited", "Killed"}
    /\ serving \in 0..MaxCalls
    /\ snapshot \in Clipboards
    /\ retried \in BOOLEAN
    /\ partial \in BOOLEAN
    /\ seen \in Sequences
    /\ copy \in Observations
    /\ result \in Results
    /\ seenContent \in Contents
    /\ calm \in BOOLEAN

Init ==
    /\ \E start \in {0, SeqMod - 1}, owner \in OwnerSignals :
          clip = [sequence |-> start, owner |-> owner,
                  content |-> [by |-> "User", write |-> 0]]
    /\ writer = "Nobody"
    /\ writes = 0
    /\ asked = 0
    /\ calls = 0
    /\ waiting = 0
    /\ slot = 0
    /\ dropped = FALSE
    /\ pc = "Idle"
    /\ serving = 0
    /\ snapshot = clip
    /\ retried = FALSE
    /\ partial = FALSE
    /\ seen = 0
    /\ copy = NoCopy
    /\ result = Failed
    /\ seenContent = NoContent
    /\ calm = TRUE

-----------------------------------------------------------------------------
(* Other programs.  A write opens the clipboard, empties it and fills it;   *)
(* both change the sequence number, and until it is closed nobody else can  *)
(* open it.  The number and the owner can be read at any time.              *)

SequenceAfter(steps) == (clip.sequence + steps) % SeqMod

(* Anything the user's programs write, and a Copy that is answered after    *)
(* the worker stopped waiting for it, is outside the protocol.              *)
Undisturbed(by) == calm /\ by = "Copy" /\ pc \in {"Await", "Settle"}

OpenAndEmpty(by, owner) ==
    /\ writer = "Nobody"
    /\ writes < MaxWrites
    /\ IF by = "Copy" THEN asked > 0 /\ asked' = asked - 1 ELSE UNCHANGED asked
    /\ writer' = by
    /\ writes' = writes + 1
    /\ clip' = [sequence |-> SequenceAfter(1), owner |-> owner,
                content |-> [by |-> "Nobody", write |-> writes + 1]]
    /\ calm' = Undisturbed(by)
    /\ UNCHANGED <<callers, worker>>

FillAndClose ==
    /\ writer # "Nobody"
    /\ writer' = "Nobody"
    /\ clip' = [clip EXCEPT !.sequence = SequenceAfter(1), !.content.by = writer]
    /\ calm' = Undisturbed(writer)
    /\ UNCHANGED <<writes, asked, callers, worker>>

(* The owner's window is destroyed: the data stay, the number too. *)
OwnerCloses ==
    /\ writer = "Nobody"
    /\ clip.owner # NoOwner
    /\ clip' = [clip EXCEPT !.owner = NoOwner]
    /\ calm' = FALSE
    /\ UNCHANGED <<writer, writes, asked, callers, worker>>

-----------------------------------------------------------------------------
(* The callers *)

(* extract_cancellable: try_send into the one slot; a full slot fails the   *)
(* call at once.                                                            *)
Call ==
    /\ waiting = 0
    /\ ~dropped
    /\ calls < MaxCalls
    /\ calls' = calls + 1
    /\ IF slot = 0
       THEN slot' = calls + 1 /\ waiting' = calls + 1
       ELSE UNCHANGED <<slot, waiting>>
    /\ UNCHANGED <<outside, dropped, worker, calm>>

(* The caller is cancelled or its deadline passes; the request stays.       *)
GiveUp ==
    /\ waiting # 0
    /\ waiting' = 0
    /\ UNCHANGED <<outside, calls, slot, dropped, worker, calm>>

(* try_send(Shutdown) finds the slot free or is ignored; then the sender    *)
(* itself is dropped.                                                       *)
Drop ==
    /\ waiting = 0
    /\ ~dropped
    /\ dropped' = TRUE
    /\ slot' = IF slot = 0 THEN Shutdown ELSE slot
    /\ UNCHANGED <<outside, calls, waiting, worker, calm>>

(* The variables of extract_once before and after it. *)
NoExtraction ==
    /\ serving' = 0
    /\ retried' = FALSE
    /\ partial' = FALSE
    /\ seen' = 0
    /\ copy' = NoCopy
    /\ result' = Failed
    /\ seenContent' = NoContent

(* Drop waits 100 ms for the worker; then the process may end under it.     *)
ProcessEnds ==
    /\ dropped
    /\ pc \notin {"Exited", "Killed"}
    /\ pc' = "Killed"
    /\ slot' = 0
    /\ calm' = FALSE
    /\ NoExtraction
    /\ UNCHANGED <<outside, calls, waiting, dropped, snapshot>>

-----------------------------------------------------------------------------
(* worker_main: a request taken, the end of the loop *)

Receive ==
    /\ pc = "Idle"
    /\ slot \in 1..MaxCalls
    /\ pc' = "Snapshot"
    /\ serving' = slot
    /\ slot' = 0
    /\ UNCHANGED <<outside, calls, waiting, dropped, snapshot, retried, partial,
                   seen, copy, result, seenContent, calm>>

(* Mutant of LoopEnds: the end of the channel is not the end of the loop. *)
LoopEndsOnMessage == slot = Shutdown

LoopEnds == slot = Shutdown \/ (dropped /\ slot = 0)

Exit ==
    /\ pc = "Idle"
    /\ LoopEnds
    /\ pc' = "Exited"
    /\ UNCHANGED <<outside, callers, serving, snapshot, retried, partial, seen,
                   copy, result, seenContent, calm>>

(* The response goes to a caller that may have given up; with extract_once  *)
(* its variables end.                                                       *)
Reply ==
    /\ pc = "Reply"
    /\ pc' = "Idle"
    /\ waiting' = IF waiting = serving THEN 0 ELSE waiting
    /\ NoExtraction
    /\ UNCHANGED <<outside, calls, slot, dropped, snapshot, calm>>

-----------------------------------------------------------------------------
(* extract_once *)

(* snapshot_original: with the clipboard open nobody can write it; a number *)
(* that changed meanwhile (delayed rendering) starts the clone over.        *)
TakeSnapshot ==
    /\ pc = "Snapshot"
    /\ writer = "Nobody"
    /\ pc' = "Send"
    /\ snapshot' = clip
    /\ calm' = TRUE
    /\ UNCHANGED <<outside, callers, serving, retried, partial, seen, copy,
                   result, seenContent>>

(* No access within the deadline, a format that cannot be cloned, too much. *)
RefuseSnapshot ==
    /\ pc = "Snapshot"
    /\ pc' = "Reply"
    /\ UNCHANGED <<outside, callers, serving, snapshot, retried, partial, seen,
                   copy, result, seenContent, calm>>

SignalsUnchanged ==
    clip.sequence = snapshot.sequence /\ clip.owner = snapshot.owner

(* send_copy up to SendInput: the modifiers are up and the expected window  *)
(* is in front; a retry also checks that the clipboard is as it was.        *)
ApproveCopy ==
    /\ pc = "Send"
    /\ retried => SignalsUnchanged
    /\ pc' = "Inject"
    /\ UNCHANGED <<outside, callers, serving, snapshot, retried, partial, seen,
                   copy, result, seenContent, calm>>

(* NoInput: one of these checks failed, or SendInput injected nothing. *)
RefuseCopy ==
    /\ pc \in {"Send", "Inject"}
    /\ pc' = "Restore"
    /\ UNCHANGED <<outside, callers, serving, snapshot, retried, partial, seen,
                   copy, result, seenContent, calm>>

(* SendInput injects all keys, or some of them: then the C key may or may   *)
(* not be among them.                                                       *)
Inject ==
    /\ pc = "Inject"
    /\ pc' = "Await"
    /\ \/ asked' = asked + 1 /\ UNCHANGED partial
       \/ asked' \in {asked, asked + 1} /\ partial' = TRUE
    /\ UNCHANGED <<clip, writer, writes, callers, serving, snapshot, retried,
                   seen, copy, result, seenContent, calm>>

(* wait_for_sequence_change *)
SeeChange ==
    /\ pc = "Await"
    /\ clip.sequence # snapshot.sequence
    /\ pc' = "Settle"
    /\ seen' = clip.sequence
    /\ seenContent' = clip.content
    /\ UNCHANGED <<outside, callers, serving, snapshot, retried, partial, copy,
                   result, calm>>

(* Mutant of AfterTimeOut: an unanswered retry is read all the same. *)
AfterTimeOutReads == IF partial THEN "Restore" ELSE IF retried THEN "Read" ELSE "Reconsider"

(* Only a complete first Copy is considered again. *)
AfterTimeOut == IF partial \/ retried THEN "Restore" ELSE "Reconsider"

(* COPY_ATTEMPT_TIMEOUT *)
TimeOut ==
    /\ pc = "Await"
    /\ clip.sequence = snapshot.sequence
    /\ pc' = AfterTimeOut
    /\ UNCHANGED <<outside, callers, serving, snapshot, retried, partial, seen,
                   copy, result, seenContent, calm>>

(* copy_retry_allowed, with the expected window still in front. *)
Retry ==
    /\ pc = "Reconsider"
    /\ SignalsUnchanged
    /\ pc' = "Send"
    /\ retried' = TRUE
    /\ UNCHANGED <<outside, callers, serving, snapshot, partial, seen, copy,
                   result, seenContent, calm>>

(* Another window is in front, or the clipboard is no longer as it was. *)
NoRetry ==
    /\ pc = "Reconsider"
    /\ pc' = "Restore"
    /\ UNCHANGED <<outside, callers, serving, snapshot, retried, partial, seen,
                   copy, result, seenContent, calm>>

(* wait_for_copy_settle: a number that moved is watched for another 20 ms.  *)
SeeMore ==
    /\ pc = "Settle"
    /\ clip.sequence # seen
    /\ seen' = clip.sequence
    /\ seenContent' = clip.content
    /\ UNCHANGED <<outside, callers, pc, serving, snapshot, retried, partial,
                   copy, result, calm>>

(* It stood still long enough, or the attempt's time is up: a program that  *)
(* is still writing disturbs the extraction.                                *)
Settled ==
    /\ pc = "Settle"
    /\ clip.sequence = seen
    /\ pc' = "Observe"
    /\ calm' = (calm /\ writer = "Nobody")
    /\ UNCHANGED <<outside, callers, serving, snapshot, retried, partial, seen,
                   copy, result, seenContent>>

(* Mutant of IsSequenceAdvance: a larger number, forgetting the wrap. *)
IsSequenceLarger(before, after) == after > before

IsSequenceAdvance(before, after) == after # before

(* The owner is read after the number; then observe_copy. *)
Observe ==
    /\ pc = "Observe"
    /\ copy' = IF IsSequenceAdvance(snapshot.sequence, seen)
               THEN [sequence |-> seen, owner |-> clip.owner]
               ELSE NoCopy
    /\ pc' = IF partial THEN "Restore" ELSE "Read"
    /\ UNCHANGED <<outside, callers, serving, snapshot, retried, partial, seen,
                   result, seenContent, calm>>

(* read_unicode_text and the normalization of what it found.                *)
ReadText ==
    /\ pc = "Read"
    /\ pc' = "Restore"
    /\ writer = "Nobody"
    /\ clip.content.by # "Nobody"
    /\ result' = [ok |-> TRUE, text |-> clip.content]
    /\ UNCHANGED <<outside, callers, serving, snapshot, retried, partial, seen,
                   copy, seenContent, calm>>

(* No text in it, a blank text, or another program has the clipboard open.  *)
ReadNothing ==
    /\ pc = "Read"
    /\ pc' = "Restore"
    /\ UNCHANGED <<outside, callers, serving, snapshot, retried, partial, seen,
                   copy, result, seenContent, calm>>

-----------------------------------------------------------------------------
(* Drop of RestoreClipboard *)

ShouldRestore ==
    /\ IsSequenceAdvance(snapshot.sequence, copy.sequence)
    /\ clip.sequence = copy.sequence
    /\ clip.owner = copy.owner

ConsiderRestore ==
    /\ pc = "Restore"
    /\ pc' = IF copy # NoCopy /\ ShouldRestore THEN "Reopen" ELSE "Reply"
    /\ UNCHANGED <<outside, callers, serving, snapshot, retried, partial, seen,
                   copy, result, seenContent, calm>>

(* Mutant of StillOurs: what was checked before opening is not checked again. *)
StillOursAsChecked == TRUE

StillOurs == ShouldRestore

(* restore_snapshot with the clipboard open: EmptyClipboard and one         *)
(* SetClipboardData per format.  The owner is a window that lives no longer. *)
RestoreSnapshot ==
    /\ pc = "Reopen"
    /\ writer = "Nobody"
    /\ StillOurs
    /\ pc' = "Reply"
    /\ \/ /\ clip' = [sequence |-> SequenceAfter(2), owner |-> NoOwner,
                      content |-> snapshot.content]
          /\ UNCHANGED calm
       \/ /\ clip' = [sequence |-> SequenceAfter(1), owner |-> NoOwner,
                      content |-> NoContent]
          /\ calm' = FALSE
    /\ UNCHANGED <<writer, writes, asked, callers, serving, snapshot, retried,
                   partial, seen, copy, result, seenContent>>

(* The second check fails. *)
RestoreRefused ==
    /\ pc = "Reopen"
    /\ writer = "Nobody"
    /\ ~ShouldRestore
    /\ pc' = "Reply"
    /\ UNCHANGED <<outside, callers, serving, snapshot, retried, partial, seen,
                   copy, result, seenContent, calm>>

(* No owner window, no access within RESTORE_TIMEOUT, EmptyClipboard fails. *)
RestoreFails ==
    /\ pc = "Reopen"
    /\ pc' = "Reply"
    /\ calm' = FALSE
    /\ UNCHANGED <<outside, callers, serving, snapshot, retried, partial, seen,
                   copy, result, seenContent>>

-----------------------------------------------------------------------------
Others ==
    \/ \E by \in {"User", "Copy"}, owner \in OwnerSignals : OpenAndEmpty(by, owner)
    \/ FillAndClose
    \/ OwnerCloses
    \/ Call
    \/ GiveUp
    \/ Drop
    \/ ProcessEnds

Worker ==
    \/ Receive \/ Exit \/ Reply
    \/ TakeSnapshot \/ RefuseSnapshot
    \/ ApproveCopy \/ RefuseCopy \/ Inject
    \/ SeeChange \/ TimeOut \/ Retry \/ NoRetry \/ SeeMore \/ Settled \/ Observe
    \/ ReadText \/ ReadNothing
    \/ ConsiderRestore \/ RestoreSnapshot \/ RestoreRefused \/ RestoreFails

Next == Others \/ Worker

(* The worker's thread is scheduled and each of its waits has a deadline.   *)
Spec == Init /\ [][Next]_vars /\ WF_vars(Worker)

-----------------------------------------------------------------------------
(* Properties *)

(* When the worker is done with an extraction that no other program and no  *)
(* refusal of Windows came across, the clipboard holds what it held before, *)
(* whatever the extraction returned, with and without a retry, across the   *)
(* wrap of the sequence number and with the caller long gone.               *)
ClipboardComesBack ==
    pc = "Idle" /\ calm => clip.content = snapshot.content

(* Restoring replaces only the content the worker watched settle: whatever  *)
(* is written after that, even while the worker waits for the clipboard,    *)
(* stays (should_restore is asked again with the clipboard open).           *)
RestoreReplacesWhatSettled ==
    [][RestoreSnapshot => clip.content = seenContent]_vars

(* The text an extraction returns was put on the clipboard after its        *)
(* snapshot: what the user had copied earlier is never translated.          *)
OldClipboardIsNotTheAnswer ==
    pc = "Reply" /\ result.ok => result.text # snapshot.content

(* Once the extractor is dropped its thread ends, also when the request for *)
(* it did not fit into the channel.                                         *)
WorkerEnds == dropped ~> pc \in {"Exited", "Killed"}

(* clipboard.rs:212-213: the guard restores "only a stable sequence owned   *)
(* by the copy burst".  What restoring replaces was put there by the        *)
(* injected Copy, and not by the user.                                      *)
OnlyTheCopyIsReplaced ==
    [][RestoreSnapshot => clip.content.by = "Copy"]_vars
=============================================================================
