----------------------------- MODULE ConfigSync -----------------------------
(***************************************************************************)
(* How the running resident follows config.toml: managers save it, other   *)
(* programs edit it, a watcher thread reads it after a notification of its *)
(* directory and queues what it read, and a manager that saved asks the    *)
(* resident to read it at once.  The processes come and go as Launch says. *)
(*                                                                         *)
(* A handler of the resident or of a manager is one step up to a call that *)
(* waits for the other process.  A save that fails changes nothing, since  *)
(* atomic_write replaces the file in one operation, and has no step.       *)
(***************************************************************************)
EXTENDS Launch, ManagerForms

CONSTANTS Default,      \* AppConfig::default()
          Edits,        \* what other programs write: configurations, or Broken
          Budgets       \* bounds: starts, saves and edits, typed fields

VARIABLES
    file,       \* config.toml, as AppConfig::load sees it
    keys,       \* targets with a key in the credential store
    runtime,    \* configuration, provider and hot key of each resident
    watcher,    \* the watcher thread of the resident that has the mutex
    notified,   \* the directory handle holds a change of the file
    changes,    \* ConfigChange channel
    unseen,     \* residents no notification will tell of the file as it is
    window,     \* the window of each manager
    budget

resVars == <<runtime, watcher, notified, changes>>
vars == <<launchVars, file, keys, resVars, unseen, window, budget>>

Broken == [profiles |-> <<>>]      \* missing, unreadable, incomplete or invalid
NoKey == "None"

NoRuntime == [config |-> Default, key |-> NoKey, cycle |-> NoKey, conflicts |-> {}]
NoWindow == NewWindow(Default)

ASSUME ConfigAssumption ==
    /\ LaunchAssumption
    /\ MaxProfiles \in Nat
    /\ Default \in Config /\ Validate(Default)
    /\ \A edit \in Edits : edit = Broken \/ (edit \in Config /\ Validate(edit))
    /\ {NoKey, NoTarget, Unparsable} \cap (Targets \cup Hotkeys) = {}

TypeOK ==
    /\ LaunchTypeOK
    /\ file \in Config \cup {Broken} /\ keys \subseteq Targets
    /\ runtime \in [Residents -> [config : Config, key : Targets \cup {NoKey},
                                  cycle : Hotkeys \cup {NoKey},
                                  conflicts : SUBSET (Hotkeys \cup {Unparsable})]]
    /\ watcher \in {"Off", "Starting", "Waiting", "Reading"} /\ notified \in BOOLEAN
    /\ changes \in Seq(Config \cup {Broken}) /\ unseen \subseteq Residents
    /\ \A m \in Managers :
          /\ window[m].config \in Config /\ window[m].view \in Views
          /\ window[m].index \in DOMAIN window[m].config.profiles
          /\ window[m].notice \in {"None", "Config", "Key"} /\ window[m].edited \subseteq Views

Init ==
    /\ LaunchInit
    /\ file \in {Broken, Default} /\ keys = {}
    /\ runtime = [r \in Residents |-> NoRuntime]
    /\ watcher = "Off" /\ notified = FALSE /\ changes = <<>> /\ unseen = {}
    /\ window = [m \in Managers |-> NoWindow]
    /\ budget \in Budgets

Spend(what) == budget[what] > 0 /\ budget' = [budget EXCEPT ![what] = @ - 1]

-----------------------------------------------------------------------------
(* What the resident runs with. *)

(* build_provider: a provider has the key of its own target, or there is   *)
(* none.                                                                   *)
KeyFor(target) == IF target \in keys THEN target ELSE NoKey

(* register_cycle and try_register: free are the combinations Windows does *)
(* not refuse just now.                                                    *)
Register(rt, wanted, free) ==
    IF wanted \in free THEN [rt EXCEPT !.cycle = wanted]
    ELSE [rt EXCEPT !.conflicts = @ \cup {wanted}]

(* Mutant of Reregister: with the old combination back there is nothing to *)
(* complain about.                                                         *)
ReregisterQuietly(rt, wanted, free) ==
    LET tried == Register([rt EXCEPT !.cycle = NoKey, !.conflicts = {}], wanted, free)
        back == [tried EXCEPT !.conflicts = {}]
    IN  CASE wanted = Unparsable -> [rt EXCEPT !.conflicts = @ \cup {wanted}]
          [] wanted = rt.cycle -> [rt EXCEPT !.conflicts = {}]
          [] OTHER -> IF tried.cycle = wanted \/ rt.cycle = NoKey THEN tried
                      ELSE Register(back, rt.cycle, free)

(* reregister: the old combination is tried again when the new one fails. *)
Reregister(rt, wanted, free) ==
    LET tried == Register([rt EXCEPT !.cycle = NoKey, !.conflicts = {}], wanted, free)
    IN  CASE wanted = Unparsable -> [rt EXCEPT !.conflicts = @ \cup {wanted}]
          [] wanted = rt.cycle -> [rt EXCEPT !.conflicts = {}]
          [] OTHER -> IF tried.cycle = wanted \/ rt.cycle = NoKey THEN tried
                      ELSE Register(tried, rt.cycle, free)

(* load_config, build_runtime *)
Built == LET config == IF file = Broken THEN Default ELSE file
         IN  [NoRuntime EXCEPT !.config = config, !.key = KeyFor(config.target)]

(* apply_config, with resident_runtime_config_eq.  Jobs, cache, chooser    *)
(* and startup error are in ResidentShell.                                 *)
ApplyConfig(rt, config, free) ==
    IF [config EXCEPT !.ui = rt.config.ui] = rt.config
    THEN [rt EXCEPT !.config.ui = config.ui]
    ELSE [Reregister(rt, config.hotkey, free)
            EXCEPT !.config = config, !.key = KeyFor(config.target)]

-----------------------------------------------------------------------------
(* The resident process *)

(* A resident that ended leaves nothing behind. *)
Left(r) ==
    /\ runtime' = [runtime EXCEPT ![r] = NoRuntime]
    /\ unseen' = unseen \ {r}
    /\ IF r \in Holders
       THEN watcher' = "Off" /\ notified' = FALSE /\ changes' = <<>>
       ELSE UNCHANGED <<watcher, notified, changes>>

UserStartsResident(r) ==
    /\ StartResident(r) /\ Spend("starts")
    /\ UNCHANGED <<file, keys, resVars, unseen, window>>

BuildRuntime(r) ==
    /\ RuntimeBuilt(r)
    /\ runtime' = [runtime EXCEPT ![r] = Built]
    /\ UNCHANGED <<file, keys, watcher, notified, changes, unseen, window, budget>>

AcquireInstance(r) ==
    /\ Acquire(r)
    /\ IF resident'[r] = "Gone" THEN Left(r) ELSE UNCHANGED <<resVars, unseen>>
    /\ UNCHANGED <<file, keys, window, budget>>

(* run: hot keys, then the watcher, then the state and the loop. *)
OpenShell(r) ==
    /\ BecomeReady(r)
    /\ \E free \in SUBSET Hotkeys :
          runtime' = [runtime EXCEPT ![r] = Reregister(@, @.config.hotkey, free)]
    /\ watcher' \in {"Starting", "Off"}
    /\ UNCHANGED <<file, keys, notified, changes, unseen, window, budget>>

QuitResident(r) ==
    Quit(r) /\ UNCHANGED <<file, keys, resVars, unseen, window, budget>>

ResidentEnds(r) == EndResident(r) /\ Left(r) /\ UNCHANGED <<file, keys, window, budget>>

-----------------------------------------------------------------------------
(* The watcher thread *)

Watch(from, to) ==
    /\ watcher = from /\ watcher' = to
    /\ UNCHANGED <<launchVars, file, keys, runtime, window, budget>>

(* The first ReadDirectoryChangesW. *)
StartWatching == Watch("Starting", "Waiting") /\ UNCHANGED <<notified, changes, unseen>>

(* A notification, and the pause before the file is read; later changes    *)
(* are kept for the next request.                                          *)
TakeNotification ==
    /\ notified /\ Watch("Waiting", "Reading")
    /\ notified' = FALSE /\ UNCHANGED <<changes, unseen>>

(* AppConfig::load, send, PostMessageW.  A file that is there may still not *)
(* be readable after the pause, and is then reported as invalid; nothing    *)
(* reads it again before the next notification.                             *)
ReadFile ==
    /\ Watch("Reading", "Waiting")
    /\ \/ changes' = Append(changes, file) /\ UNCHANGED unseen
       \/ /\ file # Broken
          /\ changes' = Append(changes, Broken)
          /\ unseen' = IF notified THEN unseen ELSE unseen \cup Holders
    /\ UNCHANGED notified

(* The buffer of the handle overflows, or a request fails and the thread   *)
(* ends: a change nobody reads.                                            *)
MissNotification ==
    /\ \/ notified /\ Watch("Waiting", "Waiting")
       \/ watcher \in {"Starting", "Waiting"} /\ Watch(watcher, "Off")
    /\ notified' = FALSE /\ unseen' = IF notified THEN unseen \cup Holders ELSE unseen
    /\ UNCHANGED changes

ApplyChange(rt, change, free) ==
    IF change = Broken THEN rt ELSE ApplyConfig(rt, change, free)

(* Mutant of ApplyChanges: the changes are popped from the end of a list. *)
ApplyChangesBackwards(rt, queue, free) ==
    FoldRight(LAMBDA change, sofar : ApplyChange(sofar, change, free), queue, rt)

ApplyChanges(rt, queue, free) ==
    FoldLeft(LAMBDA sofar, change : ApplyChange(sofar, change, free), rt, queue)

(* drain_config_changes; an unreadable file changes nothing here. *)
DrainChanges(r) ==
    /\ resident[r] = "Ready" /\ changes # <<>>
    /\ \E free \in SUBSET Hotkeys :
          runtime' = [runtime EXCEPT ![r] = ApplyChanges(@, changes, free)]
    /\ changes' = <<>>
    /\ UNCHANGED <<launchVars, file, keys, watcher, notified, unseen, window, budget>>

-----------------------------------------------------------------------------
(* Writing the file *)

(* A change of the file is notified to the resident that watches.  Others  *)
(* that read it before have missed it.                                     *)
Loaded == {r \in Residents : resident[r] \in {"Acquiring", "Opening", "Ready", "Closing"}}

FileBecomes(content) ==
    /\ file' = content /\ content # file
    /\ IF watcher \in {"Waiting", "Reading"}
       THEN notified' = TRUE /\ unseen' = Loaded \ Holders
       ELSE UNCHANGED notified /\ unseen' = Loaded

EditFile ==
    /\ Spend("writes")
    /\ \E edit \in Edits : FileBecomes(edit)
    /\ UNCHANGED <<launchVars, keys, runtime, watcher, changes, window>>

(* save_config; saving what is there already notifies too, which only      *)
(* makes the watcher read it again.                                        *)
Save(m, content, after) ==
    /\ manager[m] = "Open" /\ window[m].notice = "None"
    /\ Validate(content)
    /\ IF content = file THEN UNCHANGED <<file, notified, unseen>> ELSE FileBecomes(content)
    /\ window' = [window EXCEPT ![m] = after]
    /\ Spend("writes")
    /\ UNCHANGED <<launchVars, keys, runtime, watcher, changes>>

SaveSettings(m) ==
    /\ window[m].view = "Settings"
    /\ Save(m, SettingsSaved(window[m]), AfterSettings(window[m]))

SavePrompt(m) ==
    /\ window[m].view = "Prompts"
    /\ Save(m, PromptSaved(window[m]), AfterPrompt(window[m]))

SaveLanguage(m) ==
    Save(m, LanguageSaved(window[m]), [window[m] EXCEPT !.config = LanguageSaved(window[m])])

(* notify_config_changed: the resident reads the file and answers, or is   *)
(* absent, or does not answer in time, whether it did or did not.          *)
NotifyConfig(m) ==
    /\ manager[m] = "Open" /\ window[m].notice = "Config"
    /\ window' = [window EXCEPT ![m].notice = "None"]
    /\ \/ UNCHANGED <<runtime, unseen>>
       \/ \E r \in Residents, free \in SUBSET Hotkeys :
             /\ resident[r] = "Ready" /\ file # Broken
             /\ runtime' = [runtime EXCEPT ![r] = ApplyConfig(@, file, free)]
             /\ unseen' = IF changes = <<>> THEN unseen \ {r} ELSE unseen
    /\ UNCHANGED <<launchVars, file, keys, watcher, notified, changes, budget>>

(* validate_target *)
IsTarget(target) == target # NoTarget

(* The target is that of the text field, and the resident is told when it  *)
(* is the saved one.                                                       *)
ChangeKey(m, stored) ==
    /\ manager[m] = "Open" /\ window[m].notice = "None" /\ window[m].view = "Settings"
    /\ IsTarget(window[m].target)
    /\ keys' = stored
    /\ window' = [window EXCEPT ![m].notice =
          IF window[m].target = window[m].config.target THEN "Key" ELSE "None"]
    /\ Spend("writes")
    /\ UNCHANGED <<launchVars, file, resVars, unseen>>

SaveKey(m) == ChangeKey(m, keys \cup {window[m].target})

DeleteKey(m) == ChangeKey(m, keys \ {window[m].target})

(* notify_credentials_changed, refresh_provider *)
NotifyKey(m) ==
    /\ manager[m] = "Open" /\ window[m].notice = "Key"
    /\ window' = [window EXCEPT ![m].notice = "None"]
    /\ \/ UNCHANGED runtime
       \/ \E r \in Residents :
             /\ resident[r] = "Ready"
             /\ runtime' = [runtime EXCEPT ![r].key = KeyFor(runtime[r].config.target)]
    /\ UNCHANGED <<launchVars, file, keys, watcher, notified, changes, unseen, budget>>

-----------------------------------------------------------------------------
(* The manager process *)

ManagerStarts(m) ==
    /\ StartManager(m) /\ Spend("starts")
    /\ UNCHANGED <<file, keys, resVars, unseen, window>>

EnsureResident(m) ==
    LaunchSteps(m) /\ UNCHANGED <<file, keys, resVars, unseen, window, budget>>

(* load_config: defaults stand in for a file that cannot be read. *)
OpenWindow(m) ==
    /\ Present(m)
    /\ window' = [window EXCEPT ![m] = NewWindow(IF file = Broken THEN Default ELSE file)]
    /\ UNCHANGED <<file, keys, resVars, unseen, budget>>

ManagerEnds(m) ==
    /\ CloseManager(m)
    /\ window' = [window EXCEPT ![m] = NoWindow]
    /\ UNCHANGED <<file, keys, resVars, unseen, budget>>

Page(m, views) ==
    manager[m] = "Open" /\ window[m].notice = "None" /\ window[m].view \in views

(* The user types or selects; nothing is saved. *)
Type(m) ==
    /\ \/ /\ Page(m, {"Settings"})
          /\ \/ \E target \in Targets \cup {NoTarget} :
                   window' = [window EXCEPT ![m].target = target,
                                            ![m].edited = @ \cup {"Settings"}]
             \/ \E i \in DOMAIN window[m].config.profiles :
                   window' = [window EXCEPT ![m].chosen = window[m].config.profiles[i],
                                            ![m].edited = @ \cup {"Settings"}]
       \/ /\ Page(m, {"Prompts"})
          /\ \E id \in Ids \cup {Blank} :
                \/ window' = [window EXCEPT ![m].id = id,
                                            ![m].edited = @ \cup {"Prompts"}]
                \/ window' = [window EXCEPT ![m].default = id,
                                            ![m].edited = @ \cup {"Prompts"}]
    /\ Spend("typings")
    /\ UNCHANGED <<launchVars, file, keys, resVars, unseen>>

(* switch_view and the buttons of the Prompts page. *)
Turn(m) ==
    /\ \/ \E view \in Views :
             /\ Page(m, Views)
             /\ window' = [window EXCEPT ![m] = SwitchView(@, view)]
       \/ /\ Page(m, {"Prompts"}) /\ Len(window[m].config.profiles) < MaxProfiles
          /\ window' = [window EXCEPT ![m] = NewPrompt(@)]
       \/ /\ Page(m, {"Prompts"})
          /\ \/ window' = [window EXCEPT ![m] = PreviousPrompt(@)]
             \/ window' = [window EXCEPT ![m] = NextPrompt(@)]
    /\ UNCHANGED <<launchVars, file, keys, resVars, unseen, budget>>

-----------------------------------------------------------------------------
Watcher == StartWatching \/ TakeNotification \/ ReadFile

Next ==
    \/ \E r \in Residents :
          \/ UserStartsResident(r) \/ BuildRuntime(r) \/ AcquireInstance(r)
          \/ OpenShell(r) \/ QuitResident(r) \/ ResidentEnds(r) \/ DrainChanges(r)
    \/ Watcher \/ MissNotification
    \/ EditFile
    \/ \E m \in Managers :
          \/ ManagerStarts(m) \/ EnsureResident(m) \/ OpenWindow(m) \/ ManagerEnds(m)
          \/ SaveSettings(m) \/ SavePrompt(m) \/ SaveLanguage(m) \/ NotifyConfig(m)
          \/ SaveKey(m) \/ DeleteKey(m) \/ NotifyKey(m)
          \/ Type(m) \/ Turn(m)

(* The thread is scheduled, and the loop handles what is posted to it. *)
Fairness ==
    /\ WF_vars(Watcher)
    /\ \A r \in Residents : WF_vars(DrainChanges(r))

Spec == Init /\ [][Next]_vars /\ Fairness
-----------------------------------------------------------------------------
(* Properties, besides those of Launch. *)

(* A page of a manager shows what its Save would write back: fields nobody *)
(* edited are those of the profile or draft that is selected and of the    *)
(* configuration last saved, through discarded drafts, turned pages,       *)
(* renames, new profiles and the saves of the other page and of the        *)
(* language (switch_view, discard_draft, save_prompt, save_settings).      *)
(* Not so the default the Prompts page holds: save_settings leaves it.     *)
PagesAreCurrent ==
    \A m \in Managers : manager[m] = "Open" =>
        /\ "Prompts" \notin window[m].edited => window[m].id = Selected(window[m])
        /\ window[m].view = "Settings" /\ "Settings" \notin window[m].edited =>
              /\ window[m].target = window[m].config.target
              /\ window[m].chosen = window[m].config.default

(* Key and hot key belong to the configuration the resident runs with: no  *)
(* provider has the key of another target, and without a conflict on       *)
(* record the configured combination is the registered one (apply_config,  *)
(* reregister).                                                            *)
RuntimeIsOfOnePiece ==
    \A r \in Residents : resident[r] = "Ready" =>
        /\ runtime[r].key \in {NoKey, runtime[r].config.target}
        /\ runtime[r].conflicts = {} <=> runtime[r].cycle = runtime[r].config.hotkey

(* The running resident does not stay behind the file, whatever the        *)
(* watcher merges and whichever of watcher and manager is first, unless a  *)
(* notification was lost, the file changed before anybody watched, or it   *)
(* could not be read after the last notification, which is not tried again *)
(* (watch_directory, drain_config_changes, reload_config_from_disk).       *)
ResidentFollowsFile ==
    []<>(\A r \in Residents :
            resident[r] = "Ready" /\ r \notin unseen
                => file \in {Broken, runtime[r].config})
=============================================================================
