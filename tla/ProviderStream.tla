--------------------------- MODULE ProviderStream --------------------------
(***************************************************************************)
(* One answer on its way from the server to the message loop: the adapter  *)
(* in apps/resident/main.rs polls a channel of deltas and the user's        *)
(* cancellation; the client in provider-openai/client.rs drives WinHTTP on  *)
(* a thread of its own; a TimeoutGuard thread ends the request at its       *)
(* deadline.  All three may close the one request handle.                   *)
(***************************************************************************)
EXTENDS Integers

CONSTANT MaxDeltas      \* bound: deltas the server sends

ASSUME DeltaAssumption == MaxDeltas \in Nat

VARIABLES
    (* the pipeline's thread, in OpenAiAdapter::stream *)
    adapter,        \* where it is
    userCancelled,  \* the token the message loop holds
    delivered,      \* deltas passed on to the sink
    returned,       \* what stream returned, or "None"
    (* the client's thread, in stream_worker *)
    worker,         \* where it is
    emitted,        \* deltas sent to the channel; emitted - delivered wait there
    terminated,     \* the terminal event or the complete JSON body was read
    result,         \* what stream_winhttp and then stream_worker return
    (* the CancellationToken of the client *)
    cancelled,
    timedOut,
    active,         \* active_request holds the handle
    (* the WinHTTP request handle *)
    handle,         \* "None", "Open", "Closed"
    closings,       \* calls of WinHttpCloseHandle on it
    (* TimeoutGuard *)
    guard,          \* where its thread is
    finished        \* the flag under its mutex

adapterVars == <<adapter, userCancelled, delivered, returned>>
workerVars == <<worker, emitted, terminated, result>>
tokenVars == <<cancelled, timedOut, active, handle, closings>>
guardVars == <<guard, finished>>
vars == <<adapterVars, workerVars, tokenVars, guardVars>>

-----------------------------------------------------------------------------
Results == {"None", "Ok", "Cancelled", "Timeout", "Error"}

AdapterPcs == {"Start", "Head", "Flag", "Swap", "Receive", "Probe", "Join",
               "Returned"}
WorkerPcs == {"Absent", "Begin", "Open", "Activate", "Check", "Publish", "Call",
              "Status", "Head", "Read", "Decode", "Last", "Blame", "Clear",
              "Close", "Finish", "Notify", "JoinGuard", "Conclude", "Ended",
              "Joined"}
GuardPcs == {"Absent", "Spawned", "Waiting", "Expired", "Flag", "Swap", "Gone"}

TypeOK ==
    /\ adapter \in AdapterPcs
    /\ userCancelled \in BOOLEAN
    /\ delivered \in 0..emitted
    /\ returned \in Results
    /\ worker \in WorkerPcs
    /\ emitted \in 0..MaxDeltas
    /\ terminated \in BOOLEAN
    /\ result \in Results
    /\ cancelled \in BOOLEAN
    /\ timedOut \in BOOLEAN
    /\ active \in BOOLEAN
    /\ handle \in {"None", "Open", "Closed"}
    /\ closings \in Nat
    /\ guard \in GuardPcs
    /\ finished \in BOOLEAN

Init ==
    /\ adapter = "Start"
    /\ userCancelled = FALSE
    /\ delivered = 0
    /\ returned = "None"
    /\ worker = "Absent"
    /\ emitted = 0
    /\ terminated = FALSE
    /\ result = "None"
    /\ cancelled = FALSE
    /\ timedOut = FALSE
    /\ active = FALSE
    /\ handle = "None"
    /\ closings = 0
    /\ guard = "Absent"
    /\ finished = FALSE

-----------------------------------------------------------------------------
(* CancellationToken *)

SetCancelled ==
    /\ cancelled' = TRUE
    /\ UNCHANGED <<timedOut, active, handle, closings>>

(* Mutant of CloseActive: the flag is believed to be enough. *)
CloseNothing == UNCHANGED tokenVars

(* cancel: swap out the active handle and close it if there was one. *)
CloseActive ==
    /\ active' = FALSE
    /\ IF active THEN handle' = "Closed" /\ closings' = closings + 1
                 ELSE UNCHANGED <<handle, closings>>
    /\ UNCHANGED <<cancelled, timedOut>>

-----------------------------------------------------------------------------
(* OpenAiAdapter::stream *)

UserCancels ==
    /\ ~userCancelled
    /\ returned = "None"
    /\ userCancelled' = TRUE
    /\ UNCHANGED <<adapter, delivered, returned, workerVars, tokenVars, guardVars>>

Return(outcome) ==
    /\ adapter' = "Returned"
    /\ returned' = outcome
    /\ UNCHANGED <<userCancelled, delivered>>

AdapterGoes(next) ==
    /\ adapter' = next
    /\ UNCHANGED <<userCancelled, delivered, returned>>

(* Cancelled before it began, the worker cannot be started, or it is.       *)
Start ==
    /\ adapter = "Start"
    /\ \/ userCancelled /\ Return("Cancelled") /\ UNCHANGED workerVars
       \/ ~userCancelled /\ Return("Error") /\ UNCHANGED workerVars
       \/ /\ ~userCancelled
          /\ AdapterGoes("Head")
          /\ worker' = "Begin"
          /\ UNCHANGED <<emitted, terminated, result>>
    /\ UNCHANGED <<tokenVars, guardVars>>

LookAtToken ==
    /\ adapter = "Head"
    /\ AdapterGoes(IF userCancelled THEN "Flag" ELSE "Receive")
    /\ UNCHANGED <<workerVars, tokenVars, guardVars>>

ForwardCancel ==
    /\ adapter = "Flag"
    /\ AdapterGoes("Swap")
    /\ SetCancelled
    /\ UNCHANGED <<workerVars, guardVars>>

ForwardClose ==
    /\ adapter = "Swap"
    /\ AdapterGoes("Receive")
    /\ CloseActive
    /\ UNCHANGED <<workerVars, guardVars>>

Passed == delivered + 1

ReceiveDelta ==
    /\ adapter = "Receive"
    /\ delivered < emitted
    /\ adapter' = "Head"
    /\ delivered' = Passed
    /\ UNCHANGED <<userCancelled, returned, workerVars, tokenVars, guardVars>>

(* The sender is dropped with the client's thread, and the channel is empty. *)
Disconnected == worker \in {"Ended", "Joined"} /\ delivered = emitted

ReceiveEnd ==
    /\ adapter = "Receive"
    /\ Disconnected
    /\ AdapterGoes("Join")
    /\ UNCHANGED <<workerVars, tokenVars, guardVars>>

(* 20 ms without a delta; whether the worker is finished is asked after it.  *)
PollTimesOut ==
    /\ adapter = "Receive"
    /\ delivered = emitted
    /\ ~Disconnected
    /\ AdapterGoes("Probe")
    /\ UNCHANGED <<workerVars, tokenVars, guardVars>>

Probe ==
    /\ adapter = "Probe"
    /\ AdapterGoes(IF worker = "Joined" THEN "Join" ELSE "Head")
    /\ UNCHANGED <<workerVars, tokenVars, guardVars>>

Join ==
    /\ adapter = "Join"
    /\ worker = "Joined"
    /\ Return(IF userCancelled THEN "Cancelled" ELSE result)
    /\ UNCHANGED <<workerVars, tokenVars, guardVars>>

-----------------------------------------------------------------------------
(* stream_worker and stream_winhttp *)

WorkerGoes(next) ==
    /\ worker' = next
    /\ UNCHANGED <<emitted, terminated, result>>

WorkerEndsWith(outcome, next) ==
    /\ worker' = next
    /\ result' = outcome
    /\ UNCHANGED <<emitted, terminated>>

(* The token is looked at, the body built, the guard started. *)
Begin ==
    /\ worker = "Begin"
    /\ \/ cancelled /\ WorkerEndsWith("Cancelled", "Ended") /\ UNCHANGED guard
       \/ ~cancelled /\ WorkerEndsWith("Error", "Ended") /\ UNCHANGED guard
       \/ ~cancelled /\ WorkerGoes("Open") /\ guard' = "Spawned"
    /\ UNCHANGED <<adapterVars, tokenVars, finished>>

(* Session, connection and request: each may fail, and the token is looked  *)
(* at between them.                                                         *)
OpenRequest ==
    /\ worker = "Open"
    /\ WorkerGoes("Activate")
    /\ handle' = "Open"
    /\ UNCHANGED <<adapterVars, cancelled, timedOut, active, closings, guardVars>>

OpenFails ==
    /\ worker = "Open"
    /\ \/ cancelled /\ WorkerEndsWith("Cancelled", "Finish")
       \/ WorkerEndsWith("Error", "Finish")
    /\ UNCHANGED <<adapterVars, tokenVars, guardVars>>

Publish(next) ==
    /\ WorkerGoes(next)
    /\ active' = TRUE
    /\ UNCHANGED <<adapterVars, cancelled, timedOut, handle, closings, guardVars>>

(* set_active, and then the token is looked at. *)
SetActive == worker = "Activate" /\ Publish("Check")

CheckToken ==
    /\ worker = "Check"
    /\ IF cancelled THEN WorkerEndsWith("Cancelled", "Clear") ELSE WorkerGoes("Call")
    /\ UNCHANGED <<adapterVars, tokenVars, guardVars>>

(* A release store may become visible after a later acquire load of another *)
(* variable, on x86 too: the flag is read before the handle is published.   *)
CheckTokenEarly ==
    /\ worker = "Activate"
    /\ ~cancelled
    /\ WorkerGoes("Publish")
    /\ UNCHANGED <<adapterVars, tokenVars, guardVars>>

SetActiveLate == worker = "Publish" /\ Publish("Call")

(* Headers, the request and the response's headers: the call blocks until   *)
(* the server answers, it fails, or the handle is closed under it.          *)
CallAnswered ==
    /\ worker = "Call"
    /\ handle = "Open"
    /\ WorkerGoes("Status")
    /\ UNCHANGED <<adapterVars, tokenVars, guardVars>>

(* Cancelled meanwhile, a status of 400 or more, or a body to be read.      *)
LookAtStatus ==
    /\ worker = "Status"
    /\ \/ cancelled /\ WorkerEndsWith("Cancelled", "Clear")
       \/ ~cancelled /\ WorkerEndsWith("Error", "Clear")
       \/ ~cancelled /\ WorkerGoes("Head")
    /\ UNCHANGED <<adapterVars, tokenVars, guardVars>>

-----------------------------------------------------------------------------
(* read_response *)

LookBeforeRead ==
    /\ worker = "Head"
    /\ IF cancelled THEN WorkerEndsWith("Cancelled", "Clear") ELSE WorkerGoes("Read")
    /\ UNCHANGED <<adapterVars, tokenVars, guardVars>>

(* A chunk, or the end of the body. *)
ReadAnswered ==
    /\ worker = "Read"
    /\ handle = "Open"
    /\ WorkerGoes("Decode") \/ WorkerGoes("Last")
    /\ UNCHANGED <<adapterVars, tokenVars, guardVars>>

NetworkFails ==
    /\ worker \in {"Call", "Read"}
    /\ handle = "Open"
    /\ WorkerGoes("Blame")
    /\ UNCHANGED <<adapterVars, tokenVars, guardVars>>

HandleGone ==
    /\ worker \in {"Call", "Read"}
    /\ handle = "Closed"
    /\ WorkerGoes("Blame")
    /\ UNCHANGED <<adapterVars, tokenVars, guardVars>>

(* win_error_or_cancel *)
Blame ==
    /\ worker = "Blame"
    /\ WorkerEndsWith(IF timedOut THEN "Timeout"
                      ELSE IF cancelled THEN "Cancelled" ELSE "Error", "Clear")
    /\ UNCHANGED <<adapterVars, tokenVars, guardVars>>

(* emit_event; what follows the terminal event in the same chunk is still   *)
(* passed on, at the end of the body nothing is.                            *)
EmitDelta ==
    /\ \/ worker = "Decode"
       \/ worker = "Last" /\ ~terminated
    /\ emitted < MaxDeltas
    /\ emitted' = emitted + 1
    /\ UNCHANGED <<worker, terminated, result, adapterVars, tokenVars, guardVars>>

(* [DONE], a finish_reason, or a JSON body that parses. *)
EmitDone ==
    /\ worker \in {"Decode", "Last"}
    /\ ~terminated
    /\ terminated' = TRUE
    /\ UNCHANGED <<worker, emitted, result, adapterVars, tokenVars, guardVars>>

(* Malformed, or larger than a limit allows. *)
Reject ==
    /\ worker \in {"Decode", "Last"}
    /\ WorkerEndsWith("Error", "Clear")
    /\ UNCHANGED <<adapterVars, tokenVars, guardVars>>

ChunkEnds ==
    /\ worker = "Decode"
    /\ IF terminated THEN WorkerEndsWith("Ok", "Clear") ELSE WorkerGoes("Head")
    /\ UNCHANGED <<adapterVars, tokenVars, guardVars>>

(* IncompleteResponse unless the terminal event came. *)
BodyEnds ==
    /\ worker = "Last"
    /\ WorkerEndsWith(IF terminated THEN "Ok" ELSE "Error", "Clear")
    /\ UNCHANGED <<adapterVars, tokenVars, guardVars>>

-----------------------------------------------------------------------------
(* The end of stream_winhttp and of stream_worker *)

(* Mutant of AfterClear: the outcome of compare_exchange is ignored. *)
AfterClearAlways == "Close"

(* clear_active tells whether the handle is still the worker's to close. *)
AfterClear == IF active THEN "Close" ELSE "Finish"

ClearActive ==
    /\ worker = "Clear"
    /\ WorkerGoes(AfterClear)
    /\ active' = FALSE
    /\ UNCHANGED <<adapterVars, cancelled, timedOut, handle, closings, guardVars>>

CloseRequest ==
    /\ worker = "Close"
    /\ WorkerGoes("Finish")
    /\ handle' = "Closed"
    /\ closings' = closings + 1
    /\ UNCHANGED <<adapterVars, cancelled, timedOut, active, guardVars>>

(* The guard keeps its mutex from the expiry to the end of timeout(). *)
GuardHoldsLock == guard \in {"Flag", "Swap"}

FinishGuard ==
    /\ worker = "Finish"
    /\ ~GuardHoldsLock
    /\ WorkerGoes("Notify")
    /\ finished' = TRUE
    /\ UNCHANGED <<adapterVars, tokenVars, guard>>

(* notify_one is lost unless the guard waits already. *)
NotifyGuard ==
    /\ worker = "Notify"
    /\ WorkerGoes("JoinGuard")
    /\ guard' = IF guard = "Waiting" THEN "Gone" ELSE guard
    /\ UNCHANGED <<adapterVars, tokenVars, finished>>

JoinGuard ==
    /\ worker = "JoinGuard"
    /\ guard = "Gone"
    /\ WorkerGoes("Conclude")
    /\ UNCHANGED <<adapterVars, tokenVars, guardVars>>

(* Mutant of Conclusion: the deadline is not looked at again. *)
ConclusionOfReading == result

Conclusion == IF timedOut THEN "Timeout" ELSE result

Conclude ==
    /\ worker = "Conclude"
    /\ WorkerEndsWith(Conclusion, "Ended")
    /\ UNCHANGED <<adapterVars, tokenVars, guardVars>>

(* OpenAiProvider::stream joins the thread, then its own thread finishes. *)
JoinWorker ==
    /\ worker = "Ended"
    /\ WorkerGoes("Joined")
    /\ UNCHANGED <<adapterVars, tokenVars, guardVars>>

-----------------------------------------------------------------------------
(* The guard's thread *)

GuardGoes(next) ==
    /\ guard' = next
    /\ UNCHANGED <<adapterVars, workerVars, finished>>

(* It takes the mutex and waits, without a look at finished. *)
GuardWaits ==
    /\ guard = "Spawned"
    /\ GuardGoes("Waiting")
    /\ UNCHANGED tokenVars

GuardExpires ==
    /\ guard = "Waiting"
    /\ GuardGoes("Expired")
    /\ UNCHANGED tokenVars

(* wait_timeout may return early; nothing waits for the deadline any more.   *)
GuardWakesUp ==
    /\ guard = "Waiting"
    /\ GuardGoes("Gone")
    /\ UNCHANGED tokenVars

(* With the mutex again: finished meanwhile, or timeout() begins.           *)
GuardDecides ==
    /\ guard = "Expired"
    /\ IF finished
       THEN GuardGoes("Gone") /\ UNCHANGED timedOut
       ELSE GuardGoes("Flag") /\ timedOut' = TRUE
    /\ UNCHANGED <<cancelled, active, handle, closings>>

GuardCancels ==
    /\ guard = "Flag"
    /\ GuardGoes("Swap")
    /\ SetCancelled

GuardCloses ==
    /\ guard = "Swap"
    /\ GuardGoes("Gone")
    /\ CloseActive

-----------------------------------------------------------------------------
Adapter ==
    \/ Start \/ LookAtToken \/ ForwardCancel \/ ForwardClose
    \/ ReceiveDelta \/ ReceiveEnd \/ PollTimesOut \/ Probe \/ Join

(* What the client's thread does by itself. *)
WorkerAlone ==
    \/ Begin \/ OpenRequest \/ OpenFails
    \/ SetActive \/ CheckToken \/ CheckTokenEarly \/ SetActiveLate
    \/ LookAtStatus \/ LookBeforeRead
    \/ HandleGone \/ Blame
    \/ EmitDelta \/ EmitDone \/ Reject \/ ChunkEnds \/ BodyEnds
    \/ ClearActive \/ CloseRequest
    \/ FinishGuard \/ NotifyGuard \/ JoinGuard \/ Conclude \/ JoinWorker

(* What it does when the server lets it. *)
Server == CallAnswered \/ ReadAnswered \/ NetworkFails

Guard ==
    \/ GuardWaits \/ GuardExpires \/ GuardDecides \/ GuardCancels \/ GuardCloses

Returned == adapter = "Returned" /\ UNCHANGED vars

Next == UserCancels \/ Adapter \/ WorkerAlone \/ Server \/ Guard \/ GuardWakesUp
        \/ Returned

(* The threads are scheduled and the deadline passes.  The server owes      *)
(* nothing.                                                                 *)
Spec ==
    /\ Init
    /\ [][Next]_vars
    /\ WF_vars(Adapter)
    /\ WF_vars(WorkerAlone)
    /\ WF_vars(Guard)

-----------------------------------------------------------------------------
(* Properties *)

(* However cancellation, deadline and a normal end overlap, nobody closes    *)
(* the request handle twice, and none is left open by a finished client.     *)
HandleClosedOnce ==
    /\ closings <= 1
    /\ worker \in {"Ended", "Joined"} => handle # "Open"

(* A stream that returns Ok read the terminal event, and its deadline did   *)
(* not end it: no answer that was cut off counts as complete.               *)
OkIsFinal == returned = "Ok" => terminated /\ ~timedOut

(* A stream the user cancels returns, even if the server never answers, the *)
(* guard misses its notification or wakes up early, and the cancellation    *)
(* passes the publication of the handle.                                    *)
CancelEnds == userCancelled ~> returned # "None"

(* PRIVACY.md:6: "partial" answers "are not stored".  When a stream returns *)
(* Ok, every delta it read was passed on to the sink.                       *)
OkIsWhole == returned = "Ok" => delivered = emitted
=============================================================================
