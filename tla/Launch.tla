------------------------------- MODULE Launch -------------------------------
(***************************************************************************)
(* How the one resident process comes to run: residents started by the     *)
(* user or by a manager, and managers that make sure there is one before   *)
(* they show their window (ensure_resident_running).  They meet in two     *)
(* named mutexes and in the resident's hidden window.                      *)
(*                                                                         *)
(* A named mutex exists while any process holds a handle to it, and the    *)
(* manager's question whether it exists (resident_mutex_present) opens a   *)
(* handle itself: a resident that starts meanwhile takes it for another    *)
(* resident and exits.  The launch mutex keeps managers from asking while  *)
(* one of them waits for its child.                                        *)
(***************************************************************************)
EXTENDS Integers, FiniteSets

CONSTANTS Residents,    \* resident processes, each started at most once
          Managers,     \* manager processes, each started at most once
          NoChild       \* a manager that launched nothing

ASSUME LaunchAssumption == NoChild \notin Residents

VARIABLES
    resident,   \* where each resident process is
    manager,    \* where each manager is in ensure_resident_running, or after it
    child       \* the resident a manager launched and waits for

launchVars == <<resident, manager, child>>

\* Loading: build_runtime; Opening: the mutex is held, window and hooks are
\* being made; Ready: the message loop; Closing: after the loop.
ResidentPlaces == {"Absent", "Loading", "Acquiring", "Opening", "Ready", "Closing", "Gone"}

\* First: resident_ready; Locking: LaunchLock::acquire; then, with the lock,
\* Second: resident_ready; Answered, Probe: what it said; ProbeReady, ProbeOld,
\* ProbeNew: the handle of resident_mutex_present is open, after an answered
\* ping, or on a mutex that existed or not; Spawning; Waiting:
\* wait_for_resident.
Locked == {"Second", "Answered", "Probe", "ProbeReady", "ProbeOld", "ProbeNew",
           "Spawning", "Waiting"}
ManagerPlaces == {"Absent", "First", "Locking", "Loading", "Open", "Gone"} \cup Locked

LaunchTypeOK ==
    /\ resident \in [Residents -> ResidentPlaces]
    /\ manager \in [Managers -> ManagerPlaces]
    /\ child \in [Managers -> Residents \cup {NoChild}]

LaunchInit ==
    /\ resident = [r \in Residents |-> "Absent"]
    /\ manager = [m \in Managers |-> "Absent"]
    /\ child = [m \in Managers |-> NoChild]

\* Processes that were not started yet differ in nothing, so one of them
\* stands for all.
IsNextResident(r) ==
    resident[r] = "Absent" /\ r = CHOOSE s \in Residents : resident[s] = "Absent"
IsNextManager(m) ==
    manager[m] = "Absent" /\ m = CHOOSE n \in Managers : manager[n] = "Absent"

ResidentGoes(r, from, to) ==
    /\ resident[r] = from
    /\ resident' = [resident EXCEPT ![r] = to]
    /\ UNCHANGED <<manager, child>>

ManagerGoes(m, from, to) ==
    /\ manager[m] = from
    /\ manager' = [manager EXCEPT ![m] = to]
    /\ UNCHANGED <<resident, child>>

-----------------------------------------------------------------------------
(* The resident process *)

Holders == {r \in Residents : resident[r] \in {"Opening", "Ready", "Closing"}}
Probing == {m \in Managers : manager[m] \in {"ProbeReady", "ProbeOld", "ProbeNew"}}

(* By hand, at login or by another program. *)
StartResident(r) == IsNextResident(r) /\ ResidentGoes(r, "Absent", "Loading")

RuntimeBuilt(r) == ResidentGoes(r, "Loading", "Acquiring")

(* Mutant of Acquire: the error that tells an old mutex from a new one is  *)
(* not looked at.                                                          *)
AcquireAlways(r) == ResidentGoes(r, "Acquiring", "Opening")

(* ResidentInstance::acquire: a mutex that exists ends the process.        *)
Acquire(r) ==
    IF Holders = {} /\ Probing = {}
    THEN ResidentGoes(r, "Acquiring", "Opening")
    ELSE ResidentGoes(r, "Acquiring", "Gone")

(* The state is in place before the loop handles its first message. *)
BecomeReady(r) == ResidentGoes(r, "Opening", "Ready")

(* Exit in the tray menu; the mutex is held until the state is dropped.    *)
Quit(r) == ResidentGoes(r, "Ready", "Closing")

(* The end of run, a window, icon or hook that cannot be made, a crash. *)
EndResident(r) ==
    /\ resident[r] \notin {"Absent", "Gone"}
    /\ ResidentGoes(r, resident[r], "Gone")

-----------------------------------------------------------------------------
(* The manager *)

StartManager(m) == IsNextManager(m) /\ ManagerGoes(m, "Absent", "First")

(* resident_ready: the message loop answers a ping. *)
ResidentReady == \E r \in Residents : resident[r] = "Ready"

(* A ping that is answered.  A busy resident may not answer within the      *)
(* timeout, so every ping may also fail.                                   *)
FirstPing(m) ==
    \/ ResidentReady /\ ManagerGoes(m, "First", "Loading")
    \/ ManagerGoes(m, "First", "Locking")

(* LaunchLock::acquire; the lock of a manager that died is taken over. *)
TakeLock(m) ==
    /\ \A n \in Managers : manager[n] \notin Locked
    /\ ManagerGoes(m, "Locking", "Second")

LockTimesOut(m) == ManagerGoes(m, "Locking", "Loading")

(* plan_resident_start is given both answers, so the mutex is asked for    *)
(* even when the ping was answered.                                        *)
SecondPing(m) ==
    \/ ResidentReady /\ ManagerGoes(m, "Second", "Answered")
    \/ ManagerGoes(m, "Second", "Probe")

OpenProbe(m) ==
    \/ ManagerGoes(m, "Answered", "ProbeReady")
    \/ ManagerGoes(m, "Probe", IF Holders # {} THEN "ProbeOld" ELSE "ProbeNew")

(* Ready, or somebody to wait for, or nobody. *)
CloseProbe(m) ==
    \/ ManagerGoes(m, "ProbeReady", "Loading")
    \/ ManagerGoes(m, "ProbeOld", "Waiting")
    \/ ManagerGoes(m, "ProbeNew", "Spawning")

(* Mutant of Spawn: the lock is released once the child is started.        *)
SpawnAndUnlock(m) ==
    /\ manager[m] = "Spawning"
    /\ \E r \in Residents :
          /\ IsNextResident(r)
          /\ resident' = [resident EXCEPT ![r] = "Loading"]
          /\ child' = [child EXCEPT ![m] = r]
    /\ manager' = [manager EXCEPT ![m] = "First"]

Spawn(m) ==
    /\ manager[m] = "Spawning"
    /\ \E r \in Residents :
          /\ IsNextResident(r)
          /\ resident' = [resident EXCEPT ![r] = "Loading"]
          /\ child' = [child EXCEPT ![m] = r]
    /\ manager' = [manager EXCEPT ![m] = "Waiting"]

SpawnFails(m) == ManagerGoes(m, "Spawning", "Loading")

(* wait_for_resident: an answered ping, a child that exited, a deadline.   *)
(* Each releases the lock.                                                 *)
EndWait(m) ==
    /\ manager[m] = "Waiting"
    /\ manager' = [manager EXCEPT ![m] = "Loading"]
    /\ child' = [child EXCEPT ![m] = NoChild]
    /\ UNCHANGED resident

Present(m) == ManagerGoes(m, "Loading", "Open")

CloseManager(m) ==
    /\ manager[m] \notin {"Absent", "Gone"}
    /\ manager' = [manager EXCEPT ![m] = "Gone"]
    /\ child' = [child EXCEPT ![m] = NoChild]
    /\ UNCHANGED resident

LaunchSteps(m) ==
    \/ FirstPing(m) \/ TakeLock(m) \/ LockTimesOut(m) \/ SecondPing(m)
    \/ OpenProbe(m) \/ CloseProbe(m) \/ Spawn(m) \/ SpawnFails(m) \/ EndWait(m)

LaunchNext ==
    \/ \E r \in Residents : \/ StartResident(r) \/ RuntimeBuilt(r) \/ Acquire(r)
                            \/ BecomeReady(r) \/ Quit(r) \/ EndResident(r)
    \/ \E m \in Managers : \/ StartManager(m) \/ LaunchSteps(m)
                           \/ Present(m) \/ CloseManager(m)

LaunchSpec == LaunchInit /\ [][LaunchNext]_launchVars
-----------------------------------------------------------------------------
(* Properties *)

(* There is never a second resident with a window, hooks and hot keys,     *)
(* however many are started at once (ResidentInstance).                    *)
OneResident == Cardinality(Holders) <= 1

(* A manager's question for the mutex never ends the child another manager *)
(* waits for, whoever times out, exits or dies (LaunchLock): when the      *)
(* child asks for the mutex, only another resident can be in its way.      *)
ChildSurvivesQuestions ==
    \A m \in Managers :
        child[m] # NoChild /\ resident[child[m]] = "Acquiring" => Probing = {}
=============================================================================
