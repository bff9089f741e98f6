----------------------------- MODULE CoreProofs -----------------------------
(***************************************************************************)
(* What crates/core promises the message loop: the coordinator's type      *)
(* invariant, safety invariants and action properties for every MaxId,     *)
(* TTL, clock bound and set of fingerprints, and that a request prepared   *)
(* before its job is the one sent for it, for every text and configuration.*)
(*                                                                         *)
(* OnlyActiveIsLive is not inductive alone: finish() empties `active`      *)
(* without setting the flag, so one needs to know that what left `active`  *)
(* that way was recorded as settled.  TerminalJobsNeverBlock further needs *)
(* that the active job itself never is.                                    *)
(***************************************************************************)
EXTENDS Coordinator, RequestGate, TLAPS

ActiveNotSettled == coord.active.id \notin settled

CoordinatorInv == TypeOK /\ OnlyActiveIsLive /\ ActiveNotSettled

-----------------------------------------------------------------------------
(* What the operations return when applied to a coordinator value.         *)

(* The next id is a job id, also where the counter wraps.                  *)
LEMMA SuccessorIdType == ASSUME NEW id \in JobIds PROVE SuccessorId(id) \in JobIds
  BY CoordinatorAssumption DEF JobIds, SuccessorId

(* A start uses a job id and leaves a coordinator behind.                  *)
LEMMA StartJobType ==
  ASSUME NEW c \in CoordinatorValue, NEW trigger \in Triggers
  PROVE  /\ c.nextId \in JobIds
         /\ StartJob(c, trigger) \in CoordinatorValue
  BY SuccessorIdType DEF StartJob, CoordinatorValue, Job

(* A completion, accepted or stale, leaves a coordinator behind.           *)
LEMMA CompleteJobType ==
  ASSUME NEW c \in CoordinatorValue, NEW id \in JobIds,
         NEW fingerprint \in Fingerprints, NEW at \in Nat
  PROVE  CompleteJob(c, id, fingerprint, at) \in CoordinatorValue
  BY DEF CompleteJob, CoordinatorValue, RecentAutomatic

(* So does a terminal report of any job.                                   *)
LEMMA FinishJobType ==
  ASSUME NEW c \in CoordinatorValue, NEW id \in JobIds
  PROVE  FinishJob(c, id) \in CoordinatorValue
  BY DEF FinishJob, CoordinatorValue

(* So does cancelling whatever is active.                                  *)
LEMMA CancelActiveJobType ==
  ASSUME NEW c \in CoordinatorValue
  PROVE  CancelActiveJob(c) \in CoordinatorValue
  BY DEF CancelActiveJob, CoordinatorValue

-----------------------------------------------------------------------------
(* The state always has its type: ids stay in 1..MaxId through the wrap,   *)
(* so zero never names a job (start_with_duplicate_suppression).           *)
THEOREM TypeCorrect == Spec => []TypeOK
<1>1. Init => TypeOK
  BY CoordinatorAssumption
     DEF Init, TypeOK, NewCoordinator, CoordinatorValue, JobIds, NoJob, NoRecent
<1>2. TypeOK /\ [Next]_vars => TypeOK'
  <2> SUFFICES ASSUME TypeOK, [Next]_vars PROVE TypeOK'
    OBVIOUS
  <2> USE DEF TypeOK
  <2>1. ASSUME NEW trigger \in Triggers, NEW fingerprint \in Fingerprints,
               NEW suppress \in BOOLEAN, Start(trigger, fingerprint, suppress)
        PROVE  TypeOK'
    BY <2>1, StartJobType DEF Start
  <2>2. ASSUME NEW id \in JobIds, NEW fingerprint \in Fingerprints, Complete(id, fingerprint)
        PROVE  TypeOK'
    BY <2>2, CompleteJobType DEF Complete
  <2>3. ASSUME NEW id \in JobIds, Finish(id) PROVE TypeOK'
    BY <2>3, FinishJobType DEF Finish
  <2>4. ASSUME NEW id \in JobIds, HolderCancels(id) PROVE TypeOK'
    BY <2>4 DEF HolderCancels, CoordinatorValue
  <2>5. ASSUME NEW id \in JobIds, Release(id) PROVE TypeOK'
    BY <2>5 DEF Release
  <2>6. CASE CancelActive
    BY <2>6, CancelActiveJobType DEF CancelActive
  <2>7. CASE Tick
    BY <2>7, ClockAssumption DEF Tick
  <2>8. CASE UNCHANGED vars
    BY <2>8 DEF vars
  <2> QED BY <2>1, <2>2, <2>3, <2>4, <2>5, <2>6, <2>7, <2>8 DEF Next
<1> QED BY <1>1, <1>2, PTL DEF Spec

(* The inductive step of the two safety invariants: one case per action.   *)
LEMMA InvariantStep ==
  ASSUME TypeOK, OnlyActiveIsLive, ActiveNotSettled, [Next]_vars
  PROVE  OnlyActiveIsLive' /\ ActiveNotSettled'
<1> USE DEF TypeOK, OnlyActiveIsLive, ActiveNotSettled, CoordinatorValue
<1>1. ASSUME NEW trigger \in Triggers, NEW fingerprint \in Fingerprints,
             NEW suppress \in BOOLEAN, Start(trigger, fingerprint, suppress)
      PROVE  OnlyActiveIsLive' /\ ActiveNotSettled'
  <2>1. /\ coord'.active.id = coord.nextId
        /\ coord'.cancelled =
             (coord.cancelled \cup ({coord.active.id} \cap JobIds)) \ {coord.nextId}
        /\ held' = held \cup {coord.nextId}
        /\ settled' = settled \ {coord.nextId}
    BY <1>1 DEF Start, StartJob
  <2>2. ActiveNotSettled'
    BY <2>1
  <2>3. OnlyActiveIsLive'
    <3> SUFFICES ASSUME NEW id \in held', id \notin coord'.cancelled, id \notin settled'
                 PROVE  id = coord.nextId
      BY <2>1
    <3>1. CASE id \in held /\ id # coord.nextId
      <4>1. id \notin coord.cancelled /\ id \notin settled /\ id # coord.active.id
        BY <2>1, <3>1
      <4> QED BY <4>1, <3>1
    <3> QED BY <2>1, <3>1
  <2> QED BY <2>2, <2>3
<1>2. ASSUME NEW id \in JobIds, NEW fingerprint \in Fingerprints, Complete(id, fingerprint)
      PROVE  OnlyActiveIsLive' /\ ActiveNotSettled'
  <2>1. CASE IsCurrent(coord, id)
    <3>1. /\ coord'.active = NoJob
          /\ coord'.cancelled = coord.cancelled
          /\ held' = held
          /\ settled' = settled \cup {id}
          /\ coord.active.id = id
      BY <1>2, <2>1 DEF Complete, CompleteJob, IsCurrent
    <3> QED BY <3>1 DEF NoJob, JobIds
  <2>2. CASE ~IsCurrent(coord, id)
    BY <1>2, <2>2 DEF Complete, CompleteJob
  <2> QED BY <2>1, <2>2
<1>3. ASSUME NEW id \in JobIds, Finish(id) PROVE OnlyActiveIsLive' /\ ActiveNotSettled'
  <2>1. CASE coord.active # NoJob /\ coord.active.id = id
    <3>1. /\ coord'.active = NoJob
          /\ coord'.cancelled = coord.cancelled
          /\ held' = held
          /\ settled' = settled \cup {id}
      BY <1>3, <2>1 DEF Finish, FinishJob
    <3> QED BY <3>1, <2>1 DEF NoJob, JobIds
  <2>2. CASE ~(coord.active # NoJob /\ coord.active.id = id)
    <3>1. coord.active.id # id
      BY <2>2 DEF NoJob, JobIds
    <3> QED BY <1>3, <2>2, <3>1 DEF Finish, FinishJob
  <2> QED BY <2>1, <2>2
<1>4. ASSUME NEW id \in JobIds, HolderCancels(id)
      PROVE  OnlyActiveIsLive' /\ ActiveNotSettled'
  BY <1>4 DEF HolderCancels
<1>5. ASSUME NEW id \in JobIds, Release(id) PROVE OnlyActiveIsLive' /\ ActiveNotSettled'
  BY <1>5 DEF Release
<1>6. CASE CancelActive
  <2>1. /\ coord'.active = NoJob
        /\ coord'.cancelled = coord.cancelled \cup ({coord.active.id} \cap JobIds)
        /\ UNCHANGED <<held, settled>>
    BY <1>6 DEF CancelActive, CancelActiveJob
  <2> QED BY <2>1 DEF NoJob, JobIds
<1>7. CASE Tick
  BY <1>7 DEF Tick
<1>8. CASE UNCHANGED vars
  BY <1>8 DEF vars
<1> QED BY <1>1, <1>2, <1>3, <1>4, <1>5, <1>6, <1>7, <1>8 DEF Next

(* The inductive invariant: the type, no unaware older worker, and an      *)
(* active job that has not ended (start, complete, finish, cancel_active). *)
THEOREM InvariantCorrect == Spec => []CoordinatorInv
<1>1. Init => OnlyActiveIsLive /\ ActiveNotSettled
  BY DEF Init, OnlyActiveIsLive, ActiveNotSettled
<1>2. TypeOK /\ OnlyActiveIsLive /\ ActiveNotSettled /\ [Next]_vars
        => OnlyActiveIsLive' /\ ActiveNotSettled'
  BY InvariantStep
<1> QED BY <1>1, <1>2, TypeCorrect, PTL DEF Spec, CoordinatorInv

-----------------------------------------------------------------------------
(* Every held job other than the active one ended or sees its cancellation *)
(* flag, for any number of jobs and holders.                               *)
THEOREM OnlyActiveIsLiveCorrect == Spec => []OnlyActiveIsLive
  BY InvariantCorrect, PTL DEF CoordinatorInv

(* An ended or cancelled job keeps no trigger out for its priority.        *)
THEOREM TerminalJobsNeverBlockCorrect == Spec => []TerminalJobsNeverBlock
<1>1. CoordinatorInv => TerminalJobsNeverBlock
  BY DEF CoordinatorInv, ActiveNotSettled, TerminalJobsNeverBlock, CanStart,
         LowerPriorityActive
<1> QED BY <1>1, InvariantCorrect, PTL

(* Duplicate suppression is refreshed only by the success of the current   *)
(* uncancelled automatic job, and that success ends the job.               *)
THEOREM RecentOnlyFromCurrentSuccessCorrect == Spec => RecentOnlyFromCurrentSuccess
<1>1. TypeOK /\ [Next]_vars
        => [coord'.recent # coord.recent
              => /\ coord.active # NoJob
                 /\ Automatic(coord.active.trigger)
                 /\ coord.active.id \notin coord.cancelled
                 /\ coord'.active = NoJob
                 /\ coord.active.id \in settled']_vars
  <2> SUFFICES ASSUME TypeOK, Next, coord'.recent # coord.recent
               PROVE  /\ coord.active # NoJob
                      /\ Automatic(coord.active.trigger)
                      /\ coord.active.id \notin coord.cancelled
                      /\ coord'.active = NoJob
                      /\ coord.active.id \in settled'
    OBVIOUS
  <2> USE DEF TypeOK, CoordinatorValue
  <2>1. PICK id \in JobIds, fingerprint \in Fingerprints : Complete(id, fingerprint)
    BY DEF Next, Start, StartJob, Finish, FinishJob, HolderCancels, Release,
           CancelActive, CancelActiveJob, Tick
  <2>2. IsCurrent(coord, id)
    BY <2>1 DEF Complete, CompleteJob
  <2> QED BY <2>1, <2>2 DEF Complete, CompleteJob, IsCurrent
<1> QED BY <1>1, TypeCorrect, PTL DEF Spec, RecentOnlyFromCurrentSuccess

(* No start replaces a running job of higher priority.                     *)
THEOREM NoPriorityDowngradeCorrect == Spec => NoPriorityDowngrade
<1>1. TypeOK /\ [Next]_vars
        => [coord.active # NoJob /\ coord'.active \notin {NoJob, coord.active}
              => \/ Priority(coord'.active.trigger) >= Priority(coord.active.trigger)
                 \/ coord.active.id \in coord.cancelled]_vars
  <2> SUFFICES ASSUME TypeOK, Next, coord.active # NoJob,
                      coord'.active \notin {NoJob, coord.active},
                      coord.active.id \notin coord.cancelled
               PROVE  Priority(coord'.active.trigger) >= Priority(coord.active.trigger)
    OBVIOUS
  <2> USE DEF TypeOK, CoordinatorValue
  <2>1. PICK trigger \in Triggers, fingerprint \in Fingerprints, suppress \in BOOLEAN :
            Start(trigger, fingerprint, suppress)
    BY DEF Next, Complete, CompleteJob, Finish, FinishJob, HolderCancels, Release,
           CancelActive, CancelActiveJob, Tick
  <2>2. coord'.active.trigger = trigger
    BY <2>1 DEF Start, StartJob
  <2>3. ~(Priority(trigger) < Priority(coord.active.trigger))
    BY <2>1 DEF Start, CanStart, LowerPriorityActive
  <2>4. coord.active.trigger \in Triggers
    BY DEF Job
  <2> QED BY <2>2, <2>3, <2>4 DEF Priority, Triggers
<1> QED BY <1>1, TypeCorrect, PTL DEF Spec, NoPriorityDowngrade

-----------------------------------------------------------------------------
(* Admission *)

Input == [id : Nat, trigger : Triggers, profile : STRING,
          text : [target : Seq(Characters), context : Seq(Characters), source : STRING]]

(* The shell validates a text before the coordinator issues a job, with    *)
(* the id zero, and binds the id afterwards.  What it then sends is what   *)
(* the gate would have made for the job itself (bind_job_id): nothing but  *)
(* the id depends on when the request was prepared.                        *)
THEOREM PreflightIsTheRequest ==
    ASSUME NEW input \in Input, NEW id \in Nat, NEW profiles, NEW provider,
           NEW early, early = Prepare([input EXCEPT !.id = 0], 0, FALSE, profiles, provider),
           early.rejection = "Accepted"
    PROVE  Prepare([input EXCEPT !.id = id], id, FALSE, profiles, provider)
           = [rejection |-> "Accepted", request |-> BindJobId(early.request, id)]
<1> DEFINE before == [input EXCEPT !.id = 0]
           after == [input EXCEPT !.id = id]
           profile == Profile(profiles, input.profile)
<1>1. /\ before.id = 0 /\ after.id = id /\ before.trigger = input.trigger
      /\ after.trigger = input.trigger /\ before.text = input.text /\ after.text = input.text
      /\ before.profile = input.profile /\ after.profile = input.profile
  BY DEF Input
<1> HIDE DEF before, after
<1>2. /\ TargetOf(before) = TargetOf(after) /\ ContextOf(before) = ContextOf(after)
  <2>1. TargetOf(before) = TargetOf(after)
    BY <1>1, Zenon DEF TargetOf
  <2>2. QED
    BY <1>1, <2>1, Zenon DEF ContextOf
<1>3. Rejection(after, id, FALSE, profiles, provider)
      = Rejection(before, 0, FALSE, profiles, provider)
  BY <1>1, <1>2, Zenon DEF Rejection
<1>4. /\ Rejection(before, 0, FALSE, profiles, provider) = "Accepted"
      /\ early = [rejection |-> "Accepted",
                  request |-> PreparedRequest(before, profile, provider)]
  BY <1>1 DEF Prepare, before
<1>5. Prepare(after, id, FALSE, profiles, provider)
      = [rejection |-> "Accepted", request |-> PreparedRequest(after, profile, provider)]
  BY <1>1, <1>3, <1>4 DEF Prepare
<1>6. PreparedRequest(after, profile, provider)
      = BindJobId(PreparedRequest(before, profile, provider), id)
  <2> HIDE DEF profile
  <2>1. QED
    BY <1>1, <1>2 DEF PreparedRequest, BindJobId
<1>7. Prepare(after, id, FALSE, profiles, provider)
      = [rejection |-> "Accepted", request |-> BindJobId(early.request, id)]
  <2> HIDE DEF profile
  <2>1. [rejection |-> "Accepted", request |-> PreparedRequest(before, profile, provider)].request
        = PreparedRequest(before, profile, provider)
    OBVIOUS
  <2>2. early.request = PreparedRequest(before, profile, provider)
    BY <1>4, <2>1, Zenon
  <2>3. QED
    BY <1>5, <1>6, <2>2, Zenon
<1>8. QED
  BY <1>7, Zenon DEF after
=============================================================================
