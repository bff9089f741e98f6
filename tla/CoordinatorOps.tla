--------------------------- MODULE CoordinatorOps ---------------------------
(***************************************************************************)
(* The operations of crates/core/src/coordinator.rs as functions from one  *)
(* coordinator value to the next.  Coordinator.tla gives them a behaviour  *)
(* of their own; ResidentShell.tla composes several of them in one handler.*)
(*                                                                         *)
(* A coordinator value c is a record                                       *)
(*   nextId    the id the next started job gets,                           *)
(*   active    the one active job, or NoJob,                               *)
(*   recent    the last automatic success, or NoRecent,                    *)
(*   cancelled the ids whose JobCancellation flag is set.  The flag is     *)
(*             shared with every clone of the JobHandle, so it outlives    *)
(*             the job's stay in `active`.                                 *)
(***************************************************************************)
EXTENDS Integers

CONSTANTS MaxId,         \* the largest job id: 2^64 - 1 in the code
          TTL,           \* AUTOMATIC_DUPLICATE_TTL, in ticks
          Fingerprints,  \* what TextFingerprint::new can return
          EmptyPrints    \* the fingerprints whose normalized target is empty

ASSUME CoordinatorAssumption ==
    /\ MaxId \in Nat \ {0}
    /\ TTL \in Nat
    /\ EmptyPrints \subseteq Fingerprints

JobIds == 1..MaxId
Triggers == {"Hover", "Selection", "Manual"}

Priority(trigger) == CASE trigger = "Hover"     -> 0
                       [] trigger = "Selection" -> 1
                       [] trigger = "Manual"    -> 2

Automatic(trigger) == trigger # "Manual"

NoJob == [id |-> 0, trigger |-> "None"]
NoRecent == [fingerprint |-> "None", completedAt |-> 0]

Job == [id : JobIds, trigger : Triggers]
RecentAutomatic == [fingerprint : Fingerprints, completedAt : Nat]

CoordinatorValue ==
    [nextId : JobIds, active : Job \cup {NoJob},
     recent : RecentAutomatic \cup {NoRecent}, cancelled : SUBSET JobIds]

NewCoordinator ==
    [nextId |-> 1, active |-> NoJob, recent |-> NoRecent, cancelled |-> {}]

(* next_id.wrapping_add(1).max(1): zero never names a job. *)
SuccessorId(id) == IF id = MaxId THEN 1 ELSE id + 1

IsCurrent(c, id) ==
    /\ c.active # NoJob
    /\ c.active.id = id
    /\ id \notin c.cancelled

(* Only the latest automatic success is remembered, and an entry exactly   *)
(* TTL old still suppresses.                                               *)
IsDuplicate(c, fingerprint, now) ==
    /\ c.recent # NoRecent
    /\ now - c.recent.completedAt <= TTL
    /\ fingerprint \notin EmptyPrints
    /\ c.recent.fingerprint = fingerprint

(* Mutant of LowerPriorityActive: the is_cancelled test is dropped. *)
LowerPriorityEvenCancelled(c, trigger) ==
    /\ c.active # NoJob
    /\ Priority(trigger) < Priority(c.active.trigger)

(* Mutant of LowerPriorityActive: no priority test at all. *)
NeverLowerPriority(c, trigger) == FALSE

LowerPriorityActive(c, trigger) ==
    /\ c.active # NoJob
    /\ Priority(trigger) < Priority(c.active.trigger)
    /\ c.active.id \notin c.cancelled

(* can_start when suppress is TRUE, can_start_explicit when it is FALSE. *)
CanStart(c, trigger, fingerprint, now, suppress) ==
    /\ ~(suppress /\ Automatic(trigger) /\ IsDuplicate(c, fingerprint, now))
    /\ ~LowerPriorityActive(c, trigger)

(* Mutant of StartJob: the replaced job is not cancelled. *)
StartJobKeepingOld(c, trigger) ==
    [c EXCEPT !.nextId = SuccessorId(c.nextId),
              !.active = [id |-> c.nextId, trigger |-> trigger],
              !.cancelled = @ \ {c.nextId}]

(* The accepted half of start_with_duplicate_suppression.  The new job gets *)
(* a fresh flag, which matters when its id was in use before a wrap.        *)
StartJob(c, trigger) ==
    [c EXCEPT !.nextId = SuccessorId(c.nextId),
              !.active = [id |-> c.nextId, trigger |-> trigger],
              !.cancelled = (@ \cup ({c.active.id} \cap JobIds)) \ {c.nextId}]

(* Mutant of CompleteJob: the cancellation test is dropped. *)
CompleteJobEvenCancelled(c, id, fingerprint, now) ==
    IF c.active = NoJob \/ c.active.id # id THEN c
    ELSE [c EXCEPT !.active = NoJob,
                   !.recent = IF Automatic(c.active.trigger) /\ fingerprint \notin EmptyPrints
                              THEN [fingerprint |-> fingerprint, completedAt |-> now]
                              ELSE @]

(* complete() answers Accepted exactly when IsCurrent(c, id). *)
CompleteJob(c, id, fingerprint, now) ==
    IF ~IsCurrent(c, id) THEN c
    ELSE [c EXCEPT !.active = NoJob,
                   !.recent = IF Automatic(c.active.trigger) /\ fingerprint \notin EmptyPrints
                              THEN [fingerprint |-> fingerprint, completedAt |-> now]
                              ELSE @]

(* finish() takes the job out whether or not its flag is set. *)
FinishJob(c, id) ==
    IF c.active # NoJob /\ c.active.id = id
    THEN [c EXCEPT !.active = NoJob]
    ELSE c

CancelActiveJob(c) ==
    [c EXCEPT !.active = NoJob, !.cancelled = @ \cup ({c.active.id} \cap JobIds)]
=============================================================================
