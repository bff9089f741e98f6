----------------------- MODULE ProviderStreamProofs ------------------------
(***************************************************************************)
(* The type invariant and the two safety invariants of ProviderStream for  *)
(* every number of deltas.                                                  *)
(*                                                                         *)
(* HandleClosedOnce is not inductive: who may still close the handle is     *)
(* known only from the client's place and from `active`, which is what     *)
(* HandleOwned says.  OkIsFinal needs that the guard is gone once the       *)
(* client looks at timedOut for the last time, which is DeadlineSettled.    *)
(***************************************************************************)
EXTENDS ProviderStream, TLAPS

BeforeRequest == {"Absent", "Begin", "Open"}
Unpublished == {"Activate", "Publish"}
AfterGuard == {"Conclude", "Ended", "Joined"}
AfterRequest == {"Finish", "Notify", "JoinGuard"} \cup AfterGuard

(* Whoever closes the handle takes it out of `active` first, except before  *)
(* it was published and after the client took it back.                      *)
HandleOwned ==
    /\ handle = "Closed" => closings = 1
    /\ handle # "Closed" => closings = 0
    /\ active => handle = "Open"
    /\ adapter = "Start" => worker = "Absent"
    /\ worker \in BeforeRequest => handle = "None"
    /\ worker \in Unpublished => handle = "Open" /\ ~active
    /\ worker = "Close" => handle = "Open" /\ ~active
    /\ worker \in AfterRequest => handle # "Open"
    /\ handle = "Open" /\ ~active => worker \in Unpublished \cup {"Close"}

(* Nothing touches timedOut after the client joined the guard. *)
DeadlineSettled ==
    /\ result = "Ok" => terminated
    /\ worker \in BeforeRequest => result = "None"
    /\ worker \in {"Absent", "Begin"} => guard = "Absent"
    /\ worker \in AfterGuard => guard \in {"Absent", "Gone"}
    /\ worker \in {"Ended", "Joined"} /\ result = "Ok" => ~timedOut
    /\ returned = "Ok" => worker = "Joined" /\ result = "Ok"

StreamInv == TypeOK /\ HandleOwned /\ DeadlineSettled

-----------------------------------------------------------------------------
(* cancel() takes the handle out of `active` and closes it, or finds that   *)
(* somebody else did: either way its owner is known afterwards.             *)
LEMMA CloseActiveKeepsOwner ==
  ASSUME TypeOK, HandleOwned, CloseActive, UNCHANGED worker,
         adapter' \in AdapterPcs \ {"Start"} \/ UNCHANGED adapter
  PROVE  /\ HandleOwned'
         /\ active' \in BOOLEAN
         /\ handle' \in {"None", "Open", "Closed"}
         /\ closings' \in Nat
<1> USE DEF HandleOwned, TypeOK, CloseActive
<1>1. CASE active
  <2>1. closings' = 1 /\ handle' = "Closed" /\ active' = FALSE
    BY <1>1
  <2>2. worker \notin BeforeRequest \cup Unpublished \cup {"Close"}
    BY <1>1
  <2>3. adapter' = "Start" => worker' = "Absent"
    OBVIOUS
  <2> QED
    BY <2>1, <2>2, <2>3
<1>2. CASE ~active
  <2>1. closings' = closings /\ handle' = handle /\ active' = FALSE
    BY <1>2
  <2>2. adapter' = "Start" => worker' = "Absent"
    OBVIOUS
  <2> QED
    BY <1>2, <2>1, <2>2
<1> QED
  BY <1>1, <1>2

(* The adapter closes only what `active` still holds. *)
LEMMA AdapterKeepsInv == StreamInv /\ Adapter => StreamInv'
<1> SUFFICES ASSUME StreamInv, Adapter PROVE StreamInv'
  OBVIOUS
<1> USE DEF StreamInv, TypeOK, HandleOwned, DeadlineSettled, AdapterPcs, WorkerPcs,
           GuardPcs, Results, BeforeRequest, Unpublished, AfterGuard, AfterRequest
<1>1. CASE Start
  BY <1>1 DEF Start, Return, AdapterGoes, workerVars, tokenVars, guardVars
<1>2. CASE LookAtToken
  BY <1>2 DEF LookAtToken, AdapterGoes, workerVars, tokenVars, guardVars
<1>3. CASE ForwardCancel
  BY <1>3 DEF ForwardCancel, AdapterGoes, SetCancelled, workerVars, guardVars
<1>4. CASE ForwardClose
  <2>1. TypeOK /\ HandleOwned /\ CloseActive /\ UNCHANGED worker
    BY <1>4 DEF ForwardClose, AdapterGoes, workerVars, guardVars
  <2>2. adapter' \in AdapterPcs \ {"Start"} \/ UNCHANGED adapter
    BY <1>4 DEF ForwardClose, AdapterGoes, workerVars, guardVars
  <2>3. /\ HandleOwned'
        /\ active' \in BOOLEAN
        /\ handle' \in {"None", "Open", "Closed"}
        /\ closings' \in Nat
    <3> HIDE DEF HandleOwned, TypeOK, AdapterPcs
    <3> QED
      BY <2>1, <2>2, CloseActiveKeepsOwner
  <2>4. TypeOK' /\ DeadlineSettled'
    BY <1>4, <2>3 DEF ForwardClose, AdapterGoes, CloseActive, workerVars, guardVars
  <2> QED
    BY <2>3, <2>4
<1>5. CASE ReceiveDelta
  BY <1>5 DEF ReceiveDelta, Passed, workerVars, tokenVars, guardVars
<1>6. CASE ReceiveEnd
  BY <1>6 DEF ReceiveEnd, AdapterGoes, workerVars, tokenVars, guardVars
<1>7. CASE PollTimesOut
  BY <1>7 DEF PollTimesOut, AdapterGoes, workerVars, tokenVars, guardVars
<1>8. CASE Probe
  BY <1>8 DEF Probe, AdapterGoes, workerVars, tokenVars, guardVars
<1>9. CASE Join
  BY <1>9 DEF Join, Return, workerVars, tokenVars, guardVars
<1> QED
  BY <1>1, <1>2, <1>3, <1>4, <1>5, <1>6, <1>7, <1>8, <1>9 DEF Adapter

(* The client publishes its handle, takes it back or finds it taken. *)
LEMMA WorkerKeepsInv == StreamInv /\ WorkerAlone => StreamInv'
<1> SUFFICES ASSUME StreamInv, WorkerAlone PROVE StreamInv'
  OBVIOUS
<1> USE DEF StreamInv, TypeOK, HandleOwned, DeadlineSettled, AdapterPcs, WorkerPcs,
           GuardPcs, Results, BeforeRequest, Unpublished, AfterGuard, AfterRequest
<1>1. CASE Begin
  BY <1>1 DEF Begin, WorkerGoes, WorkerEndsWith, adapterVars, tokenVars
<1>2. CASE OpenRequest
  BY <1>2 DEF OpenRequest, WorkerGoes, adapterVars, guardVars
<1>3. CASE OpenFails
  BY <1>3 DEF OpenFails, WorkerEndsWith, adapterVars, tokenVars, guardVars
<1>4. CASE SetActive
  BY <1>4 DEF SetActive, Publish, WorkerGoes, adapterVars, guardVars
<1>5. CASE CheckToken
  BY <1>5 DEF CheckToken, WorkerGoes, WorkerEndsWith, adapterVars, tokenVars, guardVars
<1>6. CASE CheckTokenEarly
  BY <1>6 DEF CheckTokenEarly, WorkerGoes, adapterVars, tokenVars, guardVars
<1>7. CASE SetActiveLate
  BY <1>7 DEF SetActiveLate, Publish, WorkerGoes, adapterVars, guardVars
<1>8. CASE LookAtStatus
  BY <1>8 DEF LookAtStatus, WorkerGoes, WorkerEndsWith, adapterVars, tokenVars, guardVars
<1>9. CASE LookBeforeRead
  BY <1>9 DEF LookBeforeRead, WorkerGoes, WorkerEndsWith, adapterVars, tokenVars, guardVars
<1>10. CASE HandleGone
  BY <1>10 DEF HandleGone, WorkerGoes, adapterVars, tokenVars, guardVars
<1>11. CASE Blame
  BY <1>11 DEF Blame, WorkerEndsWith, adapterVars, tokenVars, guardVars
<1>12. CASE EmitDelta
  BY <1>12, DeltaAssumption DEF EmitDelta, adapterVars, tokenVars, guardVars
<1>13. CASE EmitDone
  BY <1>13 DEF EmitDone, adapterVars, tokenVars, guardVars
<1>14. CASE Reject
  BY <1>14 DEF Reject, WorkerEndsWith, adapterVars, tokenVars, guardVars
<1>15. CASE ChunkEnds
  BY <1>15 DEF ChunkEnds, WorkerGoes, WorkerEndsWith, adapterVars, tokenVars, guardVars
<1>16. CASE BodyEnds
  BY <1>16 DEF BodyEnds, WorkerEndsWith, adapterVars, tokenVars, guardVars
<1>17. CASE ClearActive
  <2>1. CASE active
    <3>1. worker' = "Close" /\ handle' = "Open" /\ active' = FALSE
      BY <1>17, <2>1 DEF ClearActive, AfterClear, WorkerGoes
    <3>2. UNCHANGED <<adapterVars, emitted, terminated, result, cancelled, timedOut,
                      handle, closings, guardVars>>
      BY <1>17 DEF ClearActive, WorkerGoes
    <3>3. TypeOK'
      <4>1. worker' \in WorkerPcs /\ active' \in BOOLEAN
        BY <3>1
      <4> QED
        BY <3>2, <4>1 DEF adapterVars, guardVars
    <3>4. HandleOwned'
      BY <1>17, <2>1, <3>1, <3>2 DEF ClearActive, adapterVars, guardVars
    <3>5. DeadlineSettled'
      BY <1>17, <3>1, <3>2 DEF ClearActive, adapterVars, guardVars
    <3> QED
      BY <3>3, <3>4, <3>5
  <2>2. CASE ~active
    <3>1. worker' = "Finish" /\ handle' # "Open" /\ active' = FALSE
      BY <1>17, <2>2 DEF ClearActive, AfterClear, WorkerGoes
    <3>2. UNCHANGED <<adapterVars, emitted, terminated, result, cancelled, timedOut,
                      handle, closings, guardVars>>
      BY <1>17 DEF ClearActive, WorkerGoes
    <3>3. TypeOK'
      <4>1. worker' \in WorkerPcs /\ active' \in BOOLEAN
        BY <3>1
      <4> QED
        BY <3>2, <4>1 DEF adapterVars, guardVars
    <3>4. HandleOwned'
      BY <1>17, <2>2, <3>1, <3>2 DEF ClearActive, adapterVars, guardVars
    <3>5. DeadlineSettled'
      BY <1>17, <3>1, <3>2 DEF ClearActive, adapterVars, guardVars
    <3> QED
      BY <3>3, <3>4, <3>5
  <2> QED
    BY <2>1, <2>2
<1>18. CASE CloseRequest
  BY <1>18 DEF CloseRequest, WorkerGoes, adapterVars, guardVars
<1>19. CASE FinishGuard
  BY <1>19 DEF FinishGuard, WorkerGoes, adapterVars, tokenVars
<1>20. CASE NotifyGuard
  BY <1>20 DEF NotifyGuard, WorkerGoes, adapterVars, tokenVars
<1>21. CASE JoinGuard
  BY <1>21 DEF JoinGuard, WorkerGoes, adapterVars, tokenVars, guardVars
<1>22. CASE Conclude
  BY <1>22 DEF Conclude, Conclusion, WorkerEndsWith, adapterVars, tokenVars, guardVars
<1>23. CASE JoinWorker
  BY <1>23 DEF JoinWorker, WorkerGoes, adapterVars, tokenVars, guardVars
<1> QED
  BY <1>1, <1>2, <1>3, <1>4, <1>5, <1>6, <1>7, <1>8, <1>9, <1>10, <1>11,
     <1>12, <1>13, <1>14, <1>15, <1>16, <1>17, <1>18, <1>19, <1>20, <1>21,
     <1>22, <1>23 DEF WorkerAlone

(* What the server does moves the client and nothing it owns. *)
LEMMA ServerKeepsInv == StreamInv /\ Server => StreamInv'
<1> SUFFICES ASSUME StreamInv, Server PROVE StreamInv'
  OBVIOUS
<1> USE DEF StreamInv, TypeOK, HandleOwned, DeadlineSettled, AdapterPcs, WorkerPcs,
           GuardPcs, Results, BeforeRequest, Unpublished, AfterGuard, AfterRequest
<1>1. CASE CallAnswered
  BY <1>1 DEF CallAnswered, WorkerGoes, adapterVars, tokenVars, guardVars
<1>2. CASE ReadAnswered
  BY <1>2 DEF ReadAnswered, WorkerGoes, adapterVars, tokenVars, guardVars
<1>3. CASE NetworkFails
  BY <1>3 DEF NetworkFails, WorkerGoes, adapterVars, tokenVars, guardVars
<1> QED
  BY <1>1, <1>2, <1>3 DEF Server

(* The guard sets timedOut only while the client has not joined it. *)
LEMMA GuardKeepsInv == StreamInv /\ Guard => StreamInv'
<1> SUFFICES ASSUME StreamInv, Guard PROVE StreamInv'
  OBVIOUS
<1> USE DEF StreamInv, TypeOK, HandleOwned, DeadlineSettled, AdapterPcs, WorkerPcs,
           GuardPcs, Results, BeforeRequest, Unpublished, AfterGuard, AfterRequest
<1>1. CASE GuardWaits
  BY <1>1 DEF GuardWaits, GuardGoes, tokenVars, adapterVars, workerVars
<1>2. CASE GuardExpires
  BY <1>2 DEF GuardExpires, GuardGoes, tokenVars, adapterVars, workerVars
<1>3. CASE GuardDecides
  <2>1. /\ timedOut' \in BOOLEAN
        /\ guard' \in {"Gone", "Flag"}
        /\ worker \notin AfterGuard
        /\ worker \notin {"Absent", "Begin"}
    BY <1>3 DEF GuardDecides, GuardGoes
  <2> QED
    BY <1>3, <2>1 DEF GuardDecides, GuardGoes, adapterVars, workerVars
<1>4. CASE GuardCancels
  BY <1>4 DEF GuardCancels, GuardGoes, SetCancelled, adapterVars, workerVars
<1>5. CASE GuardCloses
  <2>1. TypeOK /\ HandleOwned /\ CloseActive /\ UNCHANGED worker
    BY <1>5 DEF GuardCloses, GuardGoes, adapterVars, workerVars
  <2>2. adapter' \in AdapterPcs \ {"Start"} \/ UNCHANGED adapter
    BY <1>5 DEF GuardCloses, GuardGoes, adapterVars, workerVars
  <2>3. /\ HandleOwned'
        /\ active' \in BOOLEAN
        /\ handle' \in {"None", "Open", "Closed"}
        /\ closings' \in Nat
    <3> HIDE DEF HandleOwned, TypeOK, AdapterPcs
    <3> QED
      BY <2>1, <2>2, CloseActiveKeepsOwner
  <2>4. TypeOK' /\ DeadlineSettled'
    BY <1>5, <2>3 DEF GuardCloses, GuardGoes, CloseActive, adapterVars, workerVars
  <2> QED
    BY <2>3, <2>4
<1> QED
  BY <1>1, <1>2, <1>3, <1>4, <1>5 DEF Guard

-----------------------------------------------------------------------------
(* The inductive invariant: types, who owns the handle, a settled deadline. *)
THEOREM InvariantCorrect == Spec => []StreamInv
<1>1. Init => StreamInv
  <2> SUFFICES ASSUME Init PROVE StreamInv
    OBVIOUS
  <2> USE DEF Init
  <2>1. TypeOK
    <3>1. delivered \in 0..emitted /\ emitted \in 0..MaxDeltas /\ closings \in Nat
      BY DeltaAssumption
    <3> QED
      BY <3>1 DEF TypeOK, AdapterPcs, WorkerPcs, GuardPcs, Results
  <2>2. HandleOwned
    BY DEF HandleOwned, BeforeRequest, Unpublished, AfterGuard, AfterRequest
  <2>3. DeadlineSettled
    BY DEF DeadlineSettled, BeforeRequest, AfterGuard
  <2> QED
    BY <2>1, <2>2, <2>3 DEF StreamInv
<1>2. StreamInv /\ [Next]_vars => StreamInv'
  <2> SUFFICES ASSUME StreamInv, [Next]_vars PROVE StreamInv'
    OBVIOUS
  <2>1. CASE UserCancels
    BY <2>1 DEF UserCancels, StreamInv, TypeOK, HandleOwned, DeadlineSettled,
                workerVars, tokenVars, guardVars
  <2>2. CASE GuardWakesUp
    BY <2>2 DEF GuardWakesUp, GuardGoes, StreamInv, TypeOK, HandleOwned,
                DeadlineSettled, GuardPcs, AfterGuard, adapterVars, workerVars, tokenVars
  <2>3. CASE Returned \/ UNCHANGED vars
    BY <2>3 DEF Returned, StreamInv, TypeOK, HandleOwned, DeadlineSettled, vars,
                adapterVars, workerVars, tokenVars, guardVars
  <2> QED
    BY <2>1, <2>2, <2>3, AdapterKeepsInv, WorkerKeepsInv, ServerKeepsInv, GuardKeepsInv
       DEF Next
<1> QED
  BY <1>1, <1>2, PTL DEF Spec

(* The state always has its type; in particular no more deltas are passed   *)
(* on than the client sent (OpenAiAdapter::stream).                         *)
THEOREM TypeCorrect == Spec => []TypeOK
<1>1. StreamInv => TypeOK
  BY DEF StreamInv
<1> QED
  BY <1>1, InvariantCorrect, PTL

(* However adapter, guard and client overlap, WinHttpCloseHandle is called   *)
(* at most once on the request, and a finished client leaves none open.     *)
THEOREM HandleClosedOnceCorrect == Spec => []HandleClosedOnce
<1>1. StreamInv => HandleClosedOnce
  BY DEF StreamInv, HandleOwned, HandleClosedOnce, AfterRequest, AfterGuard
<1> QED
  BY <1>1, InvariantCorrect, PTL

(* Ok is returned only after the terminal event and never for a stream its  *)
(* deadline ended (stream_worker looks at timedOut after finish()).         *)
THEOREM OkIsFinalCorrect == Spec => []OkIsFinal
<1>1. StreamInv => OkIsFinal
  BY DEF StreamInv, DeadlineSettled, OkIsFinal
<1> QED
  BY <1>1, InvariantCorrect, PTL
=============================================================================
