---------------------------- MODULE Coordinator ----------------------------
(***************************************************************************)
(* The coordinator of crates/core/src/coordinator.rs and the parties that  *)
(* hold the JobHandles it gives out: any holder may report its job         *)
(* completed or failed at any time, late or twice, and may set the shared  *)
(* cancellation flag itself (the field is public).                         *)
(***************************************************************************)
EXTENDS CoordinatorOps

CONSTANT MaxTime    \* bound of the clock for model checking

ASSUME ClockAssumption == MaxTime \in Nat

VARIABLES
    coord,      \* the Coordinator
    now,        \* the monotonic clock behind Instant::now()
    held,       \* ids of the handles the platform still holds
    settled     \* ids of held jobs that ended by complete() or finish()

vars == <<coord, now, held, settled>>

TypeOK ==
    /\ coord \in CoordinatorValue
    /\ now \in Nat
    /\ held \subseteq JobIds
    /\ settled \subseteq JobIds

Init ==
    /\ coord = NewCoordinator
    /\ now = 0
    /\ held = {}
    /\ settled = {}

(* An id comes back only after 2^64 - 1 starts; no handle is held that long. *)
IdIsFree == coord.nextId \notin held \cup {coord.active.id}

Start(trigger, fingerprint, suppress) ==
    /\ CanStart(coord, trigger, fingerprint, now, suppress)
    /\ IdIsFree
    /\ coord' = StartJob(coord, trigger)
    /\ held' = held \cup {coord.nextId}
    /\ settled' = settled \ {coord.nextId}
    /\ UNCHANGED now

Complete(id, fingerprint) ==
    /\ id \in held
    /\ coord' = CompleteJob(coord, id, fingerprint, now)
    /\ settled' = IF IsCurrent(coord, id) THEN settled \cup {id} ELSE settled
    /\ UNCHANGED <<now, held>>

Finish(id) ==
    /\ id \in held
    /\ coord' = FinishJob(coord, id)
    /\ settled' = IF coord.active.id = id THEN settled \cup {id} ELSE settled
    /\ UNCHANGED <<now, held>>

CancelActive ==
    /\ coord' = CancelActiveJob(coord)
    /\ UNCHANGED <<now, held, settled>>

(* handle.cancellation.cancel() by a holder. *)
HolderCancels(id) ==
    /\ id \in held
    /\ coord' = [coord EXCEPT !.cancelled = @ \cup {id}]
    /\ UNCHANGED <<now, held, settled>>

(* A holder drops its clone of the handle; it reports nothing afterwards. *)
Release(id) ==
    /\ id \in held
    /\ held' = held \ {id}
    /\ UNCHANGED <<coord, now, settled>>

Tick ==
    /\ now < MaxTime
    /\ now' = now + 1
    /\ UNCHANGED <<coord, held, settled>>

Next ==
    \/ \E trigger \in Triggers, fingerprint \in Fingerprints, suppress \in BOOLEAN :
          Start(trigger, fingerprint, suppress)
    \/ \E id \in JobIds, fingerprint \in Fingerprints : Complete(id, fingerprint)
    \/ \E id \in JobIds : Finish(id) \/ HolderCancels(id) \/ Release(id)
    \/ CancelActive
    \/ Tick

Spec == Init /\ [][Next]_vars

-----------------------------------------------------------------------------
(* Every job whose handle is still held, other than the active one, has    *)
(* either ended by its own report or sees its cancellation flag: starting  *)
(* a job never leaves an older worker running unaware (coordinator.rs,     *)
(* start_with_duplicate_suppression and cancel_active).                    *)
OnlyActiveIsLive ==
    \A id \in held :
        id \notin coord.cancelled /\ id \notin settled => coord.active.id = id

(* A job that ended is no longer active, and a cancelled one does not      *)
(* count: neither keeps any trigger out for its priority ("must not block  *)
(* later jobs", coordinator.rs, complete).                                 *)
TerminalJobsNeverBlock ==
    coord.active.id \in settled \cup coord.cancelled
        => \A trigger \in Triggers, fingerprint \in Fingerprints :
              CanStart(coord, trigger, fingerprint, now, FALSE)

(* Duplicate suppression is refreshed only by the success of the current,  *)
(* uncancelled, automatic job, and that success ends the job: a late or    *)
(* stale report never refreshes it (coordinator.rs, complete).             *)
RecentOnlyFromCurrentSuccess ==
    [][coord'.recent # coord.recent
         => /\ coord.active # NoJob
            /\ Automatic(coord.active.trigger)
            /\ coord.active.id \notin coord.cancelled
            /\ coord'.active = NoJob
            /\ coord.active.id \in settled']_vars

(* A start never replaces a running job of higher priority; a job leaves   *)
(* `active` by its own report, by cancellation, or for an equal or higher  *)
(* trigger.                                                                *)
NoPriorityDowngrade ==
    [][coord.active # NoJob /\ coord'.active \notin {NoJob, coord.active}
         => \/ Priority(coord'.active.trigger) >= Priority(coord.active.trigger)
            \/ coord.active.id \in coord.cancelled]_vars

=============================================================================
