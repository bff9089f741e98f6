-------------------------- MODULE ConfigSyncProofs --------------------------
(***************************************************************************)
(* The launch protocol and the way of the configuration, for any number of *)
(* residents and managers, any targets, hot keys and edits, and any number *)
(* of profiles.                                                            *)
(*                                                                         *)
(* None of the properties is inductive alone.  OneResident holds because   *)
(* whoever takes the mutex finds no holder, so the holders are stated as   *)
(* equal instead of counted.  ChildSurvivesQuestions needs that the launch *)
(* mutex is exclusive and that a manager with a child has not released it. *)
(* PagesAreCurrent needs that a window's fields make a configuration       *)
(* (Fits), so that the selected profile exists; RuntimeIsOfOnePiece, that  *)
(* Windows never holds an unparsable combination, and that a whole queue   *)
(* of changes, applied one by one, keeps what each of them keeps.          *)
(***************************************************************************)
EXTENDS ConfigSync, FiniteSetTheorems, SequenceTheorems, WellFoundedInduction, TLAPS

-----------------------------------------------------------------------------
(* The launch protocol *)

HoldersAgree == \A r, s \in Holders : r = s

LockIsExclusive ==
    \A m, n \in Managers : manager[m] \in Locked /\ manager[n] \in Locked => m = n

ParentsWait == \A m \in Managers : child[m] # NoChild => manager[m] = "Waiting"

LaunchInv == LaunchTypeOK /\ HoldersAgree /\ LockIsExclusive /\ ParentsWait

-----------------------------------------------------------------------------
(* A resident that moves on without entering the mutex adds no holder.     *)
LEMMA ResidentStep ==
  ASSUME LaunchInv, NEW r \in Residents, NEW from \in ResidentPlaces,
         NEW to \in ResidentPlaces, ResidentGoes(r, from, to),
         to \in {"Opening", "Ready", "Closing"} =>
            from \in {"Opening", "Ready", "Closing"} \/ Holders = {}
  PROVE  LaunchInv'
<1>1. LaunchTypeOK'
  BY DEF LaunchInv, LaunchTypeOK, ResidentGoes
<1>2. HoldersAgree'
  BY DEF LaunchInv, LaunchTypeOK, ResidentGoes, HoldersAgree, Holders
<1>3. LockIsExclusive' /\ ParentsWait'
  BY DEF LaunchInv, ResidentGoes, LockIsExclusive, ParentsWait
<1> QED
  BY <1>1, <1>2, <1>3 DEF LaunchInv

(* A manager that moves without taking the lock, and with no child to      *)
(* leave behind, disturbs nothing.                                         *)
LEMMA ManagerStep ==
  ASSUME LaunchInv, NEW m \in Managers, NEW from \in ManagerPlaces,
         NEW to \in ManagerPlaces, ManagerGoes(m, from, to), from # "Waiting",
         to \in Locked =>
            from \in Locked \/ \A n \in Managers : manager[n] \notin Locked
  PROVE  LaunchInv'
<1>1. LaunchTypeOK'
  BY DEF LaunchInv, LaunchTypeOK, ManagerGoes
<1>2. HoldersAgree'
  BY DEF LaunchInv, ManagerGoes, HoldersAgree, Holders
<1>3. LockIsExclusive'
  BY DEF LaunchInv, LaunchTypeOK, ManagerGoes, LockIsExclusive
<1>4. ParentsWait'
  BY DEF LaunchInv, LaunchTypeOK, ManagerGoes, ParentsWait
<1> QED
  BY <1>1, <1>2, <1>3, <1>4 DEF LaunchInv

(* A manager that gives up its child has given up the lock.                *)
LEMMA LeavingStep ==
  ASSUME LaunchInv, NEW m \in Managers, NEW to \in ManagerPlaces \ Locked,
         manager' = [manager EXCEPT ![m] = to],
         child' = [child EXCEPT ![m] = NoChild], resident' = resident
  PROVE  LaunchInv'
  BY DEF LaunchInv, LaunchTypeOK, HoldersAgree, Holders, LockIsExclusive, ParentsWait, Locked

-----------------------------------------------------------------------------
(* Nobody runs at first.                                                  *)
LEMMA LaunchInit_Inv == LaunchInit => LaunchInv
  BY DEF LaunchInit, LaunchInv, LaunchTypeOK, HoldersAgree, Holders, LockIsExclusive,
         ParentsWait, ResidentPlaces, ManagerPlaces, Locked

(* Every step of the protocol keeps the invariant.                         *)
LEMMA LaunchNext_Inv == LaunchInv /\ [LaunchNext]_launchVars => LaunchInv'
<1> SUFFICES ASSUME LaunchInv, [LaunchNext]_launchVars PROVE LaunchInv'
  OBVIOUS
<1>1. ASSUME NEW r \in Residents, StartResident(r) PROVE LaunchInv'
  BY <1>1, ResidentStep DEF StartResident, ResidentPlaces
<1>2. ASSUME NEW r \in Residents, RuntimeBuilt(r) PROVE LaunchInv'
  BY <1>2, ResidentStep DEF RuntimeBuilt, ResidentPlaces
<1>3. ASSUME NEW r \in Residents, Acquire(r) PROVE LaunchInv'
  <2>1. CASE Holders = {} /\ Probing = {}
    <3>1. ResidentGoes(r, "Acquiring", "Opening")
      BY <1>3, <2>1 DEF Acquire
    <3> QED
      BY <2>1, <3>1, ResidentStep DEF ResidentPlaces
  <2>2. CASE ~(Holders = {} /\ Probing = {})
    <3>1. ResidentGoes(r, "Acquiring", "Gone")
      BY <1>3, <2>2 DEF Acquire
    <3> QED
      BY <3>1, ResidentStep DEF ResidentPlaces
  <2> QED
    BY <2>1, <2>2
<1>4. ASSUME NEW r \in Residents, BecomeReady(r) PROVE LaunchInv'
  BY <1>4, ResidentStep DEF BecomeReady, ResidentPlaces
<1>5. ASSUME NEW r \in Residents, Quit(r) PROVE LaunchInv'
  BY <1>5, ResidentStep DEF Quit, ResidentPlaces
<1>6. ASSUME NEW r \in Residents, EndResident(r) PROVE LaunchInv'
  <2>1. resident[r] \in ResidentPlaces
    BY DEF LaunchInv, LaunchTypeOK
  <2>2. ResidentGoes(r, resident[r], "Gone")
    BY <1>6 DEF EndResident
  <2> QED
    BY <2>1, <2>2, ResidentStep DEF ResidentPlaces
<1>7. ASSUME NEW m \in Managers, StartManager(m) PROVE LaunchInv'
  BY <1>7, ManagerStep DEF StartManager, ManagerPlaces, Locked
<1>8. ASSUME NEW m \in Managers, LaunchSteps(m) PROVE LaunchInv'
  <2>1. ASSUME FirstPing(m) PROVE LaunchInv'
    BY <2>1, ManagerStep DEF FirstPing, ManagerPlaces, Locked
  <2>2. ASSUME TakeLock(m) PROVE LaunchInv'
    BY <2>2, ManagerStep DEF TakeLock, ManagerPlaces, Locked
  <2>3. ASSUME LockTimesOut(m) PROVE LaunchInv'
    BY <2>3, ManagerStep DEF LockTimesOut, ManagerPlaces, Locked
  <2>4. ASSUME SecondPing(m) PROVE LaunchInv'
    BY <2>4, ManagerStep DEF SecondPing, ManagerPlaces, Locked
  <2>5. ASSUME OpenProbe(m) PROVE LaunchInv'
    BY <2>5, ManagerStep DEF OpenProbe, ManagerPlaces, Locked
  <2>6. ASSUME CloseProbe(m) PROVE LaunchInv'
    BY <2>6, ManagerStep DEF CloseProbe, ManagerPlaces, Locked
  <2>7. ASSUME Spawn(m) PROVE LaunchInv'
    <3>1. PICK r \in Residents :
            /\ IsNextResident(r)
            /\ resident' = [resident EXCEPT ![r] = "Loading"]
            /\ child' = [child EXCEPT ![m] = r]
      BY <2>7 DEF Spawn
    <3>2. manager[m] = "Spawning" /\ manager' = [manager EXCEPT ![m] = "Waiting"]
      BY <2>7 DEF Spawn
    <3>3. LaunchTypeOK'
      BY <3>1, <3>2 DEF LaunchInv, LaunchTypeOK, ResidentPlaces, ManagerPlaces, Locked
    <3>4. HoldersAgree'
      BY <3>1 DEF LaunchInv, LaunchTypeOK, HoldersAgree, Holders
    <3>5. LockIsExclusive'
      BY <3>2 DEF LaunchInv, LaunchTypeOK, LockIsExclusive, Locked
    <3>6. ParentsWait'
      BY <3>1, <3>2 DEF LaunchInv, LaunchTypeOK, ParentsWait
    <3> QED
      BY <3>3, <3>4, <3>5, <3>6 DEF LaunchInv
  <2>8. ASSUME SpawnFails(m) PROVE LaunchInv'
    BY <2>8, ManagerStep DEF SpawnFails, ManagerPlaces, Locked
  <2>9. ASSUME EndWait(m) PROVE LaunchInv'
    BY <2>9, LeavingStep DEF EndWait, ManagerPlaces, Locked
  <2> QED
    BY <1>8, <2>1, <2>2, <2>3, <2>4, <2>5, <2>6, <2>7, <2>8, <2>9 DEF LaunchSteps
<1>9. ASSUME NEW m \in Managers, Present(m) PROVE LaunchInv'
  BY <1>9, ManagerStep DEF Present, ManagerPlaces, Locked
<1>10. ASSUME NEW m \in Managers, CloseManager(m) PROVE LaunchInv'
  BY <1>10, LeavingStep DEF CloseManager, ManagerPlaces, Locked
<1>11. CASE UNCHANGED launchVars
  BY <1>11 DEF launchVars, LaunchInv, LaunchTypeOK, HoldersAgree, Holders, LockIsExclusive,
               ParentsWait
<1> QED
  BY <1>1, <1>2, <1>3, <1>4, <1>5, <1>6, <1>7, <1>8, <1>9, <1>10, <1>11 DEF LaunchNext

(* The invariant gives what the runs check.                                *)
LEMMA LaunchInv_Properties == LaunchInv => OneResident /\ ChildSurvivesQuestions
<1> SUFFICES ASSUME LaunchInv PROVE OneResident /\ ChildSurvivesQuestions
  OBVIOUS
<1>1. OneResident
  <2>1. CASE Holders = {}
    BY <2>1, FS_EmptySet DEF OneResident
  <2>2. ASSUME NEW r \in Holders PROVE OneResident
    <3>1. Holders = {r}
      BY <2>2 DEF LaunchInv, HoldersAgree
    <3> QED
      BY <3>1, FS_Singleton DEF OneResident
  <2> QED
    BY <2>1, <2>2
<1>2. ChildSurvivesQuestions
  BY DEF LaunchInv, ParentsWait, LockIsExclusive, ChildSurvivesQuestions, Probing, Locked
<1> QED
  BY <1>1, <1>2

(* So the protocol alone has it always.                                    *)
LEMMA LaunchInvHolds == LaunchSpec => []LaunchInv
  BY LaunchInit_Inv, LaunchNext_Inv, PTL DEF LaunchSpec

-----------------------------------------------------------------------------
(* Configurations *)

(* The constants. *)
LEMMA ConstantsArePlain ==
  /\ MaxProfiles \in Nat
  /\ Default \in Config /\ Validate(Default)
  /\ \A edit \in Edits : edit = Broken \/ (edit \in Config /\ Validate(edit))
  /\ NoKey \notin Targets \cup Hotkeys /\ NoTarget \notin Targets \cup Hotkeys
  /\ Unparsable \notin Targets \cup Hotkeys
BY ConfigAssumption

ProfileLists == UNION {[1..n -> Ids] : n \in 1..MaxProfiles}

(* A list of profiles is a sequence of ids, not empty and not too long. *)
LEMMA ProfilesAreSequences ==
  ASSUME NEW p
  PROVE  p \in ProfileLists <=> p \in Seq(Ids) /\ Len(p) \in 1..MaxProfiles
<1>1. ASSUME p \in ProfileLists
      PROVE  p \in Seq(Ids) /\ Len(p) \in 1..MaxProfiles
  <2>1. PICK n \in 1..MaxProfiles : p \in [1..n -> Ids]
    BY <1>1 DEF ProfileLists
  <2>2. n \in Nat
    BY <2>1, ConstantsArePlain
  <2>3. p \in Seq(Ids)
    BY <2>1, <2>2, SeqDef
  <2>4. Len(p) \in Nat /\ DOMAIN p = 1..Len(p) /\ DOMAIN p = 1..n
    BY <2>1, <2>3, LenProperties
  <2>5. Len(p) = n
    <3>1. (n = 0 \/ n \in 1..n) /\ (Len(p) = 0 \/ Len(p) \in 1..Len(p))
      BY <2>2, <2>4
    <3>2. (n = 0 \/ n \in 1..Len(p)) /\ (Len(p) = 0 \/ Len(p) \in 1..n)
      BY <2>4, <3>1
    <3>3. Len(p) \in Nat
      BY <2>4
    <3>4. n = 0 \/ n <= Len(p)
      BY <2>2, <3>2, <3>3
    <3>5. Len(p) = 0 \/ Len(p) <= n
      BY <2>2, <3>2, <3>3
    <3> QED
      BY <2>2, <3>3, <3>4, <3>5
  <2> QED
    BY <2>1, <2>3, <2>5
<1>2. ASSUME p \in Seq(Ids), Len(p) \in 1..MaxProfiles
      PROVE  p \in ProfileLists
  BY <1>2, LenProperties DEF ProfileLists
<1> QED
  BY <1>1, <1>2

(* The fields of a configuration. *)
LEMMA ConfigFields ==
  ASSUME NEW c \in Config
  PROVE  /\ c = [profiles |-> c.profiles, default |-> c.default, target |-> c.target,
                 hotkey |-> c.hotkey, ui |-> c.ui]
         /\ c.profiles \in ProfileLists /\ c.profiles \in Seq(Ids)
         /\ Len(c.profiles) \in 1..MaxProfiles /\ DOMAIN c.profiles = 1..Len(c.profiles)
         /\ c.default \in Ids /\ c.target \in Targets
         /\ c.hotkey \in Hotkeys \cup {Unparsable} /\ c.ui \in Languages
<1>1. /\ c = [profiles |-> c.profiles, default |-> c.default, target |-> c.target,
              hotkey |-> c.hotkey, ui |-> c.ui]
      /\ c.profiles \in ProfileLists /\ c.default \in Ids /\ c.target \in Targets
      /\ c.hotkey \in Hotkeys \cup {Unparsable} /\ c.ui \in Languages
  BY DEF Config, ProfileLists
<1> QED
  BY <1>1, ProfilesAreSequences, LenProperties

(* No configuration is the unreadable file. *)
LEMMA BrokenIsApart ==
  Broken \notin Config
<1> SUFFICES ASSUME Broken \in Config PROVE FALSE
  OBVIOUS
<1>1. Len(Broken.profiles) \in 1..MaxProfiles
  BY ConfigFields
<1>2. Len(Broken.profiles) = 0
  BY EmptySeq DEF Broken
<1> QED
  BY <1>1, <1>2

-----------------------------------------------------------------------------
(* The manager's window *)

Window == [view : Views, config : Config, draft : 0..MaxProfiles, index : Nat,
           target : Targets \cup {NoTarget}, chosen : Ids \cup {Blank},
           id : Ids \cup {Blank}, default : Ids \cup {Blank}, edited : SUBSET Views,
           notice : {"None", "Config", "Key"}]

(* The selected profile exists, and a draft is numbered behind the last. *)
Fits(w) ==
    /\ w \in Window
    /\ w.index \in DOMAIN w.config.profiles
    /\ w.draft # NoDraft => w.draft = Len(w.config.profiles) + 1

(* The forms show what the window has. *)
LEMMA ShowingFits ==
  ASSUME NEW w, Fits(w)
  PROVE  Fits(ShowSettings(w)) /\ Fits(ShowPrompt(w))
<1>1. w \in Window /\ w.config \in Config /\ w.draft \in 0..MaxProfiles
  BY DEF Fits, Window
<1>2. /\ w.config.default \in Ids /\ w.config.target \in Targets
      /\ w.config.profiles \in Seq(Ids) /\ DOMAIN w.config.profiles = 1..Len(w.config.profiles)
  BY <1>1, ConfigFields
<1>3. w.config.profiles[w.index] \in Ids
  BY <1>2, ElementOfSeq DEF Fits
<1>4. w.draft # NoDraft => w.draft \in Ids
  BY <1>1, ConstantsArePlain DEF Ids, NoDraft
<1>5. Fits(ShowSettings(w))
  BY <1>1, <1>2 DEF Fits, Window, ShowSettings
<1>6. Fits(ShowPrompt(w))
  BY <1>1, <1>2, <1>3, <1>4 DEF Fits, Window, ShowPrompt, Selected
<1> QED
  BY <1>5, <1>6

(* A new window fits the configuration it was opened with. *)
LEMMA NewWindowFits ==
  ASSUME NEW c \in Config
  PROVE  Fits(NewWindow(c))
<1> DEFINE w == [view |-> "Settings", config |-> c, draft |-> NoDraft, index |-> 1,
                 target |-> NoTarget, chosen |-> Blank, id |-> Blank,
                 default |-> Blank, edited |-> {}, notice |-> "None"]
<1>1. Fits(w)
  <2>1. 1 \in DOMAIN c.profiles
    BY ConfigFields
  <2>2. w \in Window
    BY ConstantsArePlain DEF Window, Views, NoDraft
  <2>3. w.config = c /\ w.index = 1 /\ w.draft = NoDraft
    OBVIOUS
  <2> HIDE DEF w
  <2> QED
    BY <2>1, <2>2, <2>3 DEF Fits
<1>2. NewWindow(c) = ShowPrompt(ShowSettings(w))
  BY DEF NewWindow
<1> HIDE DEF w
<1> QED
  BY <1>1, <1>2, ShowingFits

(* Nor does leaving a draft, a page or a profile break it. *)
LEMMA TurningFits ==
  ASSUME NEW w, Fits(w)
  PROVE  /\ Fits(DiscardDraft(w))
         /\ \A view \in Views : Fits(SwitchView(w, view))
         /\ Len(w.config.profiles) < MaxProfiles => Fits(NewPrompt(w))
         /\ Fits(PreviousPrompt(w)) /\ Fits(NextPrompt(w))
<1>1. \A v : Fits(v) => /\ v \in Window /\ v.config \in Config
                       /\ v.config.profiles \in Seq(Ids)
                       /\ Len(v.config.profiles) \in 1..MaxProfiles
                       /\ DOMAIN v.config.profiles = 1..Len(v.config.profiles)
  BY ConfigFields DEF Fits, Window
<1>2. \A v : Fits(v) => Fits(DiscardDraft(v))
  <2> SUFFICES ASSUME NEW v, Fits(v) PROVE Fits(DiscardDraft(v))
    OBVIOUS
  <2> DEFINE left == [v EXCEPT !.draft = NoDraft]
  <2>1. Fits(left)
    <3>1. 0 \in 0..MaxProfiles
      BY ConstantsArePlain
    <3>2. left \in Window
      BY <1>1, <3>1 DEF Fits, Window, NoDraft
    <3>3. left.config = v.config /\ left.index = v.index /\ left.draft = NoDraft
      BY <1>1 DEF Window
    <3> HIDE DEF left
    <3> QED
      BY <3>2, <3>3 DEF Fits
  <2>2. DiscardDraft(v) = v \/ DiscardDraft(v) = ShowPrompt(left)
    BY DEF DiscardDraft
  <2> HIDE DEF left
  <2> QED
    BY <2>1, <2>2, ShowingFits
<1>3. ASSUME NEW view \in Views PROVE Fits(SwitchView(w, view))
  <2> DEFINE left == IF w.view = "Prompts" /\ view # "Prompts" THEN DiscardDraft(w) ELSE w
             shown == [left EXCEPT !.view = view]
  <2>1. Fits(left)
    BY <1>2
  <2>2. SwitchView(w, view) = IF view = "Settings" THEN ShowSettings(shown) ELSE shown
    BY DEF SwitchView
  <2> HIDE DEF left
  <2>3. Fits(shown)
    BY <1>1, <2>1 DEF Fits, Window
  <2> HIDE DEF shown
  <2> QED
    BY <2>2, <2>3, ShowingFits
<1>4. ASSUME Len(w.config.profiles) < MaxProfiles PROVE Fits(NewPrompt(w))
  <2> DEFINE drafted == [w EXCEPT !.draft = Len(w.config.profiles) + 1]
  <2>1. Fits(drafted)
    BY <1>1, <1>4, ConstantsArePlain DEF Fits, Window
  <2>2. NewPrompt(w) = ShowPrompt(drafted)
    BY DEF NewPrompt
  <2> HIDE DEF drafted
  <2> QED
    BY <2>1, <2>2, ShowingFits
<1>5. Fits(PreviousPrompt(w)) /\ Fits(NextPrompt(w))
  <2> DEFINE kept == DiscardDraft(w)
             back == [kept EXCEPT !.index = IF @ = 1 THEN 1 ELSE @ - 1]
             next == [kept EXCEPT !.index = (@ % Len(kept.config.profiles)) + 1]
  <2>1. Fits(kept)
    BY <1>2
  <2>2. PreviousPrompt(w) = ShowPrompt(back) /\ NextPrompt(w) = ShowPrompt(next)
    BY DEF PreviousPrompt, NextPrompt
  <2> HIDE DEF kept
  <2>3. kept \in Window /\ Len(kept.config.profiles) \in Nat \ {0}
        /\ kept.index \in 1..Len(kept.config.profiles)
        /\ DOMAIN kept.config.profiles = 1..Len(kept.config.profiles)
    BY <1>1, <2>1 DEF Fits
  <2>4. Fits(back)
    BY <2>1, <2>3 DEF Fits, Window
  <2>5. (kept.index % Len(kept.config.profiles)) + 1 \in 1..Len(kept.config.profiles)
    BY <2>3
  <2>6. Fits(next)
    BY <2>1, <2>3, <2>5 DEF Fits, Window
  <2> HIDE DEF back, next
  <2> QED
    BY <2>2, <2>4, <2>6, ShowingFits
<1> QED
  BY <1>2, <1>3, <1>4, <1>5

(* What leaving a draft leaves alone. *)
LEMMA DiscardKeeps ==
  ASSUME NEW w, Fits(w)
  PROVE  /\ DiscardDraft(w).config = w.config /\ DiscardDraft(w).index = w.index
         /\ DiscardDraft(w).draft = NoDraft
<1>1. w \in Window
  BY DEF Fits
<1>2. CASE w.draft = NoDraft
  BY <1>2 DEF DiscardDraft
<1>3. CASE w.draft # NoDraft
  <2> DEFINE left == [w EXCEPT !.draft = NoDraft]
  <2>1. left.config = w.config /\ left.index = w.index /\ left.draft = NoDraft
        /\ DOMAIN left = DOMAIN w
    BY <1>1 DEF Window
  <2>2. DiscardDraft(w) = ShowPrompt(left)
    BY <1>3 DEF DiscardDraft
  <2>3. left = [view |-> w.view, config |-> w.config, draft |-> NoDraft, index |-> w.index,
                target |-> w.target, chosen |-> w.chosen, id |-> w.id,
                default |-> w.default, edited |-> w.edited, notice |-> w.notice]
    BY <1>1 DEF Window
  <2> HIDE DEF left
  <2> QED
    BY <2>2, <2>3 DEF ShowPrompt
<1> QED
  BY <1>2, <1>3

(* The other language: the configuration stays one, and as valid as it was. *)
LEMMA LanguageFits ==
  ASSUME NEW w, Fits(w), NEW after, after = [w EXCEPT !.config = LanguageSaved(w)]
  PROVE  LanguageSaved(w) \in Config /\ Fits(after)
<1>1. w \in Window /\ w.config \in Config
  BY DEF Fits, Window
<1>2. (CHOOSE language \in Languages : language # w.config.ui) \in Languages
  <2>1. \E language \in Languages : language # w.config.ui
    BY DEF Languages
  <2> QED
    BY <2>1
<1> DEFINE other == CHOOSE language \in Languages : language # w.config.ui
<1>3. LanguageSaved(w) = [w.config EXCEPT !.ui = other]
  BY DEF LanguageSaved
<1> HIDE DEF other
<1>4. LanguageSaved(w) \in Config /\ LanguageSaved(w).profiles = w.config.profiles
  BY <1>1, <1>2, <1>3 DEF Config, other
<1>5. after \in Window /\ after.config = LanguageSaved(w) /\ after.index = w.index
      /\ after.draft = w.draft
  BY <1>1, <1>4 DEF Window
<1> QED
  BY <1>4, <1>5 DEF Fits

(* save_settings writes a configuration if it passes the validation. *)
LEMMA SettingsFit ==
  ASSUME NEW w, Fits(w), Validate(SettingsSaved(w))
  PROVE  SettingsSaved(w) \in Config /\ Fits(AfterSettings(w))
<1>1. w \in Window /\ w.config \in Config
  BY DEF Fits, Window
<1> DEFINE saved == SettingsSaved(w)
           kept == DiscardDraft(w)
           after == [kept EXCEPT !.config = saved, !.notice = "Config"]
<1>2. /\ saved = [w.config EXCEPT !.target = w.target, !.default = w.chosen]
      /\ saved.profiles = w.config.profiles
      /\ saved.target = w.target /\ saved.default = w.chosen
  BY <1>1 DEF SettingsSaved, Config
<1>3. /\ w.target \in Targets
      /\ w.chosen \in Ids
  <2>1. w.target # NoTarget /\ w.chosen \in ToSet(w.config.profiles)
    BY <1>2 DEF Validate
  <2>2. w.config.profiles \in Seq(Ids) /\ DOMAIN w.config.profiles = 1..Len(w.config.profiles)
    BY <1>1, ConfigFields
  <2> QED
    BY <1>1, <2>1, <2>2, ElementOfSeq DEF Window, ToSet
<1>4. saved \in Config
  BY <1>1, <1>2, <1>3 DEF Config
<1>5. /\ kept \in Window /\ kept.config = w.config /\ kept.index = w.index
      /\ kept.draft = NoDraft
  BY DiscardKeeps, TurningFits DEF Fits
<1>6. AfterSettings(w) = ShowSettings(after)
  BY DEF AfterSettings
<1> HIDE DEF saved, kept
<1>7. /\ after \in Window /\ after.config = saved /\ after.index = w.index
      /\ after.draft = NoDraft
  BY <1>4, <1>5 DEF Window
<1> HIDE DEF after
<1>8. Fits(after)
  BY <1>2, <1>7 DEF Fits
<1>9. Fits(AfterSettings(w))
  BY <1>6, <1>8, ShowingFits
<1> QED
  BY <1>4, <1>9 DEF saved

(* So does save_prompt: a draft becomes the last profile, an edited profile *)
(* keeps its place.                                                         *)
LEMMA PromptFits ==
  ASSUME NEW w, Fits(w), Validate(PromptSaved(w))
  PROVE  PromptSaved(w) \in Config /\ Fits(AfterPrompt(w))
<1>1. w \in Window /\ w.config \in Config /\ w.id \in Ids \cup {Blank}
  BY DEF Fits, Window
<1>2. /\ w.config.profiles \in Seq(Ids) /\ Len(w.config.profiles) \in 1..MaxProfiles
      /\ DOMAIN w.config.profiles = 1..Len(w.config.profiles)
      /\ w.index \in 1..Len(w.config.profiles)
  BY <1>1, ConfigFields DEF Fits
<1> DEFINE saved == PromptSaved(w)
           list == IF w.draft # NoDraft THEN Append(w.config.profiles, w.id)
                   ELSE [w.config.profiles EXCEPT ![w.index] = w.id]
           place == IF w.draft # NoDraft THEN Len(saved.profiles) ELSE w.index
           after == [w EXCEPT !.config = saved, !.draft = NoDraft, !.notice = "Config",
                              !.index = place]
<1>3. /\ saved = [w.config EXCEPT !.profiles = list, !.default = w.default]
      /\ saved.profiles = list /\ saved.default = w.default
  BY <1>1 DEF PromptSaved, Config
<1>4. Blank \notin ToSet(list) /\ w.default \in ToSet(list)
  BY <1>3 DEF Validate
<1>5. AfterPrompt(w) = ShowPrompt(after)
  BY DEF AfterPrompt
<1>6. Ids \subseteq Ids \cup {Blank} /\ w.config.profiles \in Seq(Ids \cup {Blank})
  BY <1>2, SeqMonotonic
<1>7. /\ list \in Seq(Ids \cup {Blank}) /\ Len(list) \in 1..MaxProfiles
      /\ w.draft = NoDraft => Len(list) = Len(w.config.profiles)
  <2>1. CASE w.draft # NoDraft
    <3>1. Len(w.config.profiles) + 1 \in 1..MaxProfiles
      BY <1>1, <1>2, <2>1, ConstantsArePlain DEF Fits, Window
    <3> QED
      BY <1>1, <1>6, <2>1, <3>1, AppendProperties
  <2>2. CASE w.draft = NoDraft
    BY <1>1, <1>2, <1>6, <2>2, ExceptSeq
  <2> QED
    BY <2>1, <2>2
<1> HIDE DEF list
<1>8. /\ DOMAIN list = 1..Len(list)
      /\ \A i \in 1..Len(list) : list[i] \in Ids \cup {Blank}
  BY <1>7, LenProperties, ElementOfSeq
<1>9. \A i \in 1..Len(list) : list[i] \in Ids
  BY <1>4, <1>8 DEF ToSet
<1>10. list \in Seq(Ids) /\ w.default \in Ids
  <2>1. list \in [1..Len(list) -> Ids] /\ Len(list) \in Nat
    BY <1>7, <1>9, LenProperties
  <2>2. list \in Seq(Ids)
    BY <2>1, SeqDef
  <2> QED
    BY <1>4, <1>8, <1>9, <2>2 DEF ToSet
<1>11. saved \in Config
  <2>1. list \in ProfileLists
    BY <1>7, <1>10, ProfilesAreSequences
  <2> QED
    BY <1>1, <1>3, <1>10, <2>1 DEF Config, ProfileLists
<1>12. place \in 1..Len(list)
  BY <1>2, <1>3, <1>7
<1> HIDE DEF saved, place
<1>13. /\ after \in Window /\ after.config = saved /\ after.index = place
       /\ after.draft = NoDraft
  <2>1. place \in Nat /\ NoDraft \in 0..MaxProfiles
    BY <1>7, <1>12, ConstantsArePlain DEF NoDraft
  <2> QED
    BY <1>1, <1>11, <2>1 DEF Window
<1> HIDE DEF after
<1>14. Fits(after)
  BY <1>3, <1>8, <1>12, <1>13 DEF Fits
<1>15. Fits(AfterPrompt(w))
  BY <1>5, <1>14, ShowingFits
<1> QED
  BY <1>11, <1>15 DEF saved

-----------------------------------------------------------------------------
(* What the pages show *)

(* Fields nobody edited are those of what a save would write them over. *)
PromptCurrent(w) == "Prompts" \notin w.edited => w.id = Selected(w)
SettingsCurrent(w) ==
    w.view = "Settings" /\ "Settings" \notin w.edited =>
        w.target = w.config.target /\ w.chosen = w.config.default

(* A form that is filled is current, and the other one as current as it was. *)
LEMMA ShowingIsCurrent ==
  ASSUME NEW w, Fits(w)
  PROVE  /\ SettingsCurrent(ShowSettings(w)) /\ PromptCurrent(ShowPrompt(w))
         /\ PromptCurrent(w) => PromptCurrent(ShowSettings(w))
         /\ SettingsCurrent(w) => SettingsCurrent(ShowPrompt(w))
<1>1. w \in Window
  BY DEF Fits
<1>2. LET v == ShowSettings(w)
      IN  /\ v.config = w.config /\ v.draft = w.draft /\ v.index = w.index /\ v.id = w.id
          /\ v.target = w.config.target /\ v.chosen = w.config.default
          /\ v.edited = w.edited \ {"Settings"}
  BY <1>1 DEF ShowSettings, Window
<1>3. LET v == ShowPrompt(w)
      IN  /\ v.config = w.config /\ v.draft = w.draft /\ v.index = w.index /\ v.view = w.view
          /\ v.target = w.target /\ v.chosen = w.chosen /\ v.id = Selected(w)
          /\ v.edited = w.edited \ {"Prompts"}
  BY <1>1 DEF ShowPrompt, Window
<1>4. SettingsCurrent(ShowSettings(w)) /\ (PromptCurrent(w) => PromptCurrent(ShowSettings(w)))
  BY <1>2 DEF SettingsCurrent, PromptCurrent, Selected
<1>5. PromptCurrent(ShowPrompt(w)) /\ (SettingsCurrent(w) => SettingsCurrent(ShowPrompt(w)))
  BY <1>3 DEF SettingsCurrent, PromptCurrent, Selected
<1> QED
  BY <1>4, <1>5

(* A new window shows the configuration it was opened with. *)
LEMMA NewWindowIsCurrent ==
  ASSUME NEW c \in Config
  PROVE  PromptCurrent(NewWindow(c)) /\ SettingsCurrent(NewWindow(c))
<1> DEFINE w == [view |-> "Settings", config |-> c, draft |-> NoDraft, index |-> 1,
                 target |-> NoTarget, chosen |-> Blank, id |-> Blank,
                 default |-> Blank, edited |-> {}, notice |-> "None"]
<1>1. Fits(w)
  <2>1. 1 \in DOMAIN c.profiles
    BY ConfigFields
  <2>2. w \in Window
    BY ConstantsArePlain DEF Window, Views, NoDraft
  <2>3. w.config = c /\ w.index = 1 /\ w.draft = NoDraft
    OBVIOUS
  <2> HIDE DEF w
  <2> QED
    BY <2>1, <2>2, <2>3 DEF Fits
<1>2. NewWindow(c) = ShowPrompt(ShowSettings(w))
  BY DEF NewWindow
<1> HIDE DEF w
<1> QED
  BY <1>1, <1>2, ShowingFits, ShowingIsCurrent

(* A discarded draft gives its fields back. *)
LEMMA DiscardIsCurrent ==
  ASSUME NEW w, Fits(w), PromptCurrent(w)
  PROVE  /\ PromptCurrent(DiscardDraft(w))
         /\ SettingsCurrent(w) => SettingsCurrent(DiscardDraft(w))
<1>1. CASE w.draft = NoDraft
  BY <1>1 DEF DiscardDraft
<1>2. CASE w.draft # NoDraft
  <2> DEFINE left == [w EXCEPT !.draft = NoDraft]
  <2>1. w \in Window
    BY DEF Fits
  <2>2. 0 \in 0..MaxProfiles
    BY ConstantsArePlain
  <2>3. /\ left \in Window /\ left.config = w.config /\ left.index = w.index
        /\ left.draft = NoDraft /\ left.view = w.view /\ left.target = w.target
        /\ left.chosen = w.chosen /\ left.edited = w.edited
    BY <2>1, <2>2 DEF Window, NoDraft
  <2>4. DiscardDraft(w) = ShowPrompt(left)
    BY <1>2 DEF DiscardDraft
  <2> HIDE DEF left
  <2>5. Fits(left) /\ (SettingsCurrent(w) => SettingsCurrent(left))
    BY <2>3 DEF Fits, SettingsCurrent
  <2> QED
    BY <2>4, <2>5, ShowingIsCurrent
<1> QED
  BY <1>1, <1>2

(* So do the pages and profiles that are turned. *)
LEMMA TurningIsCurrent ==
  ASSUME NEW w, Fits(w), PromptCurrent(w), SettingsCurrent(w)
  PROVE  /\ \A view \in Views : /\ PromptCurrent(SwitchView(w, view))
                                /\ SettingsCurrent(SwitchView(w, view))
         /\ Len(w.config.profiles) < MaxProfiles =>
               PromptCurrent(NewPrompt(w)) /\ SettingsCurrent(NewPrompt(w))
         /\ PromptCurrent(PreviousPrompt(w)) /\ SettingsCurrent(PreviousPrompt(w))
         /\ PromptCurrent(NextPrompt(w)) /\ SettingsCurrent(NextPrompt(w))
<1> DEFINE kept == DiscardDraft(w)
<1>1. Fits(kept) /\ PromptCurrent(kept) /\ SettingsCurrent(kept)
  BY TurningFits, DiscardIsCurrent
<1>2. ASSUME NEW v, Fits(v), NEW after, Fits(after), SettingsCurrent(v),
             after.view = v.view, after.config = v.config, after.target = v.target,
             after.chosen = v.chosen, after.edited = v.edited
      PROVE  PromptCurrent(ShowPrompt(after)) /\ SettingsCurrent(ShowPrompt(after))
  BY <1>2, ShowingIsCurrent DEF SettingsCurrent
<1>3. /\ w \in Window /\ kept \in Window
      /\ w.config \in Config /\ kept.config \in Config
      /\ Len(w.config.profiles) \in 1..MaxProfiles
      /\ DOMAIN w.config.profiles = 1..Len(w.config.profiles)
      /\ Len(kept.config.profiles) \in 1..MaxProfiles
      /\ DOMAIN kept.config.profiles = 1..Len(kept.config.profiles)
  BY <1>1, ConfigFields DEF Fits, Window
<1>4. ASSUME NEW view \in Views
      PROVE  PromptCurrent(SwitchView(w, view)) /\ SettingsCurrent(SwitchView(w, view))
  <2> DEFINE left == IF w.view = "Prompts" /\ view # "Prompts" THEN kept ELSE w
             shown == [left EXCEPT !.view = view]
  <2>1. Fits(left) /\ PromptCurrent(left) /\ left \in Window
    BY <1>1, <1>3
  <2>2. SwitchView(w, view) = IF view = "Settings" THEN ShowSettings(shown) ELSE shown
    BY DEF SwitchView
  <2> HIDE DEF left
  <2>3. /\ shown \in Window /\ shown.config = left.config /\ shown.index = left.index
        /\ shown.draft = left.draft /\ shown.id = left.id /\ shown.edited = left.edited
        /\ shown.view = view
    BY <2>1 DEF Window
  <2> HIDE DEF shown
  <2>4. Fits(shown)
    BY <2>1, <2>3 DEF Fits
  <2>5. PromptCurrent(shown) /\ (view # "Settings" => SettingsCurrent(shown))
    BY <2>1, <2>3 DEF PromptCurrent, SettingsCurrent, Selected
  <2> QED
    BY <2>2, <2>4, <2>5, ShowingIsCurrent
<1>5. ASSUME Len(w.config.profiles) < MaxProfiles
      PROVE  PromptCurrent(NewPrompt(w)) /\ SettingsCurrent(NewPrompt(w))
  <2> DEFINE drafted == [w EXCEPT !.draft = Len(w.config.profiles) + 1]
  <2>1. Fits(drafted)
    BY <1>3, <1>5, ConstantsArePlain DEF Fits, Window
  <2>2. NewPrompt(w) = ShowPrompt(drafted)
    BY DEF NewPrompt
  <2>3. /\ drafted.view = w.view /\ drafted.config = w.config /\ drafted.target = w.target
        /\ drafted.chosen = w.chosen /\ drafted.edited = w.edited
    BY <1>3 DEF Window
  <2> HIDE DEF drafted
  <2> QED
    BY <1>2, <2>1, <2>2, <2>3
<1>6. /\ PromptCurrent(PreviousPrompt(w)) /\ SettingsCurrent(PreviousPrompt(w))
      /\ PromptCurrent(NextPrompt(w)) /\ SettingsCurrent(NextPrompt(w))
  <2> DEFINE back == [kept EXCEPT !.index = IF @ = 1 THEN 1 ELSE @ - 1]
             next == [kept EXCEPT !.index = (@ % Len(kept.config.profiles)) + 1]
  <2>1. PreviousPrompt(w) = ShowPrompt(back) /\ NextPrompt(w) = ShowPrompt(next)
    BY DEF PreviousPrompt, NextPrompt
  <2> HIDE DEF kept
  <2>2. kept \in Window /\ Len(kept.config.profiles) \in Nat \ {0}
        /\ kept.index \in 1..Len(kept.config.profiles)
        /\ DOMAIN kept.config.profiles = 1..Len(kept.config.profiles)
    BY <1>1, <1>3 DEF Fits
  <2>3. Fits(back)
    BY <1>1, <2>2 DEF Fits, Window
  <2>4. (kept.index % Len(kept.config.profiles)) + 1 \in 1..Len(kept.config.profiles)
    BY <2>2
  <2>5. Fits(next)
    BY <1>1, <2>2, <2>4 DEF Fits, Window
  <2>6. /\ back.view = kept.view /\ back.config = kept.config /\ back.target = kept.target
        /\ back.chosen = kept.chosen /\ back.edited = kept.edited
        /\ next.view = kept.view /\ next.config = kept.config /\ next.target = kept.target
        /\ next.chosen = kept.chosen /\ next.edited = kept.edited
    BY <1>3 DEF Window
  <2> HIDE DEF back, next
  <2>7. PromptCurrent(ShowPrompt(back)) /\ SettingsCurrent(ShowPrompt(back))
    BY <1>1, <1>2, <2>3, <2>6
  <2>8. PromptCurrent(ShowPrompt(next)) /\ SettingsCurrent(ShowPrompt(next))
    BY <1>1, <1>2, <2>5, <2>6
  <2> QED
    BY <2>1, <2>7, <2>8
<1> QED
  BY <1>4, <1>5, <1>6

(* The language is no field of a page. *)
LEMMA LanguageIsCurrent ==
  ASSUME NEW w, Fits(w), PromptCurrent(w), SettingsCurrent(w),
         NEW after, after = [w EXCEPT !.config = LanguageSaved(w)]
  PROVE  PromptCurrent(after) /\ SettingsCurrent(after)
<1>1. w \in Window /\ w.config \in Config
  BY DEF Fits, Window
<1>2. /\ LanguageSaved(w).profiles = w.config.profiles
      /\ LanguageSaved(w).target = w.config.target
      /\ LanguageSaved(w).default = w.config.default
  BY <1>1 DEF LanguageSaved, Config
<1>3. /\ after.config = LanguageSaved(w) /\ after.index = w.index /\ after.draft = w.draft
      /\ after.id = w.id /\ after.edited = w.edited /\ after.view = w.view
      /\ after.target = w.target /\ after.chosen = w.chosen
  BY <1>1 DEF Window
<1> QED
  BY <1>2, <1>3 DEF PromptCurrent, SettingsCurrent, Selected

(* Saved settings discard a draft and leave the profiles alone. *)
LEMMA SettingsAreCurrent ==
  ASSUME NEW w, Fits(w), PromptCurrent(w), Validate(SettingsSaved(w))
  PROVE  PromptCurrent(AfterSettings(w)) /\ SettingsCurrent(AfterSettings(w))
<1> DEFINE saved == SettingsSaved(w)
           kept == DiscardDraft(w)
           after == [kept EXCEPT !.config = saved, !.notice = "Config"]
<1>1. w \in Window /\ w.config \in Config /\ saved \in Config
  BY SettingsFit DEF Fits, Window
<1>2. saved.profiles = w.config.profiles
  BY <1>1 DEF SettingsSaved, Config
<1>3. /\ Fits(kept) /\ kept \in Window /\ PromptCurrent(kept)
      /\ kept.config = w.config /\ kept.draft = NoDraft
  BY TurningFits, DiscardKeeps, DiscardIsCurrent DEF Fits
<1>4. AfterSettings(w) = ShowSettings(after)
  BY DEF AfterSettings
<1> HIDE DEF saved, kept
<1>5. /\ after \in Window /\ after.config = saved /\ after.index = kept.index
      /\ after.draft = NoDraft /\ after.id = kept.id /\ after.edited = kept.edited
  BY <1>1, <1>3 DEF Window
<1> HIDE DEF after
<1>6. Fits(after) /\ PromptCurrent(after)
  BY <1>2, <1>3, <1>5 DEF Fits, PromptCurrent, Selected
<1> QED
  BY <1>4, <1>6, ShowingIsCurrent

(* A saved profile fills the page again; the other one is not open. *)
LEMMA PromptIsCurrent ==
  ASSUME NEW w, Fits(w), w.view = "Prompts", Validate(PromptSaved(w))
  PROVE  PromptCurrent(AfterPrompt(w)) /\ SettingsCurrent(AfterPrompt(w))
<1> DEFINE saved == PromptSaved(w)
           place == IF w.draft # NoDraft THEN Len(saved.profiles) ELSE w.index
           after == [w EXCEPT !.config = saved, !.draft = NoDraft, !.notice = "Config",
                              !.index = place]
<1>1. w \in Window
  BY DEF Fits
<1>2. AfterPrompt(w) = ShowPrompt(after)
  BY DEF AfterPrompt
<1> HIDE DEF saved, place
<1>3. after.view = "Prompts" /\ DOMAIN after = DOMAIN w
  BY <1>1 DEF Window
<1>4. SettingsCurrent(ShowPrompt(after))
  <2>1. ShowPrompt(after).view = "Prompts"
    BY <1>1, <1>3 DEF ShowPrompt, Window
  <2> QED
    BY <2>1 DEF SettingsCurrent
<1>5. PromptCurrent(ShowPrompt(after))
  BY <1>1 DEF PromptCurrent, ShowPrompt, Selected, Window
<1> QED
  BY <1>2, <1>4, <1>5

-----------------------------------------------------------------------------
(* The runtime *)

Runtime == [config : Config, key : Targets \cup {NoKey}, cycle : Hotkeys \cup {NoKey},
            conflicts : SUBSET (Hotkeys \cup {Unparsable})]

OwnKey(rt) == rt.key \in {NoKey, rt.config.target}
OwnHotkey(rt) == rt.conflicts = {} <=> rt.cycle = rt.config.hotkey
Whole(rt) == rt \in Runtime /\ OwnKey(rt) /\ OwnHotkey(rt)

(* One registration, which succeeds or leaves a conflict. *)
LEMMA RegisterIsHonest ==
  ASSUME NEW rt \in Runtime, NEW wanted \in Hotkeys, NEW free
  PROVE  LET new == Register(rt, wanted, free)
         IN  /\ new \in Runtime /\ new.config = rt.config /\ new.key = rt.key
             /\ \/ new.cycle = wanted /\ new.conflicts = rt.conflicts
                \/ new.cycle = rt.cycle /\ new.conflicts = rt.conflicts \cup {wanted}
BY DEF Register, Runtime

(* reregister, whatever Windows refuses: without a conflict the wanted      *)
(* combination is registered, and with one it is not.                       *)
LEMMA ReregisterIsHonest ==
  ASSUME NEW rt \in Runtime, NEW wanted \in Hotkeys \cup {Unparsable}, NEW free
  PROVE  LET new == Reregister(rt, wanted, free)
         IN  /\ new \in Runtime /\ new.config = rt.config /\ new.key = rt.key
             /\ new.conflicts = {} <=> new.cycle = wanted
<1> DEFINE bare == [rt EXCEPT !.cycle = NoKey, !.conflicts = {}]
           tried == Register(bare, wanted, free)
           again == Register(tried, rt.cycle, free)
           new == Reregister(rt, wanted, free)
<1>1. /\ rt.cycle \in Hotkeys \cup {NoKey} /\ NoKey \notin Hotkeys
      /\ Unparsable \notin Hotkeys /\ NoKey # Unparsable
  BY ConstantsArePlain DEF Runtime, NoKey, Unparsable
<1>2. CASE wanted = Unparsable
  <2>1. new = [rt EXCEPT !.conflicts = @ \cup {wanted}]
    BY <1>1, <1>2 DEF Reregister
  <2>2. /\ new \in Runtime /\ new.config = rt.config /\ new.key = rt.key
        /\ new.cycle = rt.cycle /\ new.conflicts # {}
    BY <2>1 DEF Runtime
  <2> HIDE DEF new
  <2> QED
    BY <1>1, <1>2, <2>2 DEF new
<1>3. CASE wanted # Unparsable /\ wanted = rt.cycle
  <2>1. new = [rt EXCEPT !.conflicts = {}]
    BY <1>3 DEF Reregister
  <2> QED
    BY <1>3, <2>1 DEF Runtime
<1>4. CASE wanted # Unparsable /\ wanted # rt.cycle
  <2>1. new = IF tried.cycle = wanted \/ rt.cycle = NoKey THEN tried ELSE again
    BY <1>4 DEF Reregister
  <2>2. /\ bare \in Runtime /\ bare.config = rt.config /\ bare.key = rt.key
        /\ bare.cycle = NoKey /\ bare.conflicts = {}
    BY DEF Runtime
  <2> HIDE DEF bare
  <2>3. wanted \in Hotkeys
    BY <1>4
  <2>4. /\ tried \in Runtime /\ tried.config = rt.config /\ tried.key = rt.key
        /\ \/ tried.cycle = wanted /\ tried.conflicts = {}
           \/ tried.cycle = NoKey /\ tried.conflicts = {wanted}
    BY <2>2, <2>3, RegisterIsHonest
  <2> HIDE DEF tried
  <2>5. CASE tried.cycle = wanted \/ rt.cycle = NoKey
    <3>1. new = tried
      BY <2>1, <2>5
    <3> HIDE DEF new
    <3> QED
      BY <1>1, <2>3, <2>4, <3>1 DEF new
  <2>6. CASE tried.cycle # wanted /\ rt.cycle # NoKey
    <3>1. new = again
      BY <2>1, <2>6
    <3>2. rt.cycle \in Hotkeys /\ tried.conflicts = {wanted} /\ tried.cycle = NoKey
      BY <1>1, <2>4, <2>6
    <3>3. /\ again \in Runtime /\ again.config = tried.config /\ again.key = tried.key
          /\ \/ again.cycle = rt.cycle /\ again.conflicts = tried.conflicts
             \/ again.cycle = tried.cycle /\ again.conflicts = tried.conflicts \cup {rt.cycle}
      BY <2>4, <3>2, RegisterIsHonest
    <3> HIDE DEF again
    <3>4. again.conflicts # {} /\ again.cycle # wanted
      BY <1>1, <1>4, <2>3, <3>2, <3>3
    <3> HIDE DEF new
    <3> QED
      BY <2>4, <3>1, <3>3, <3>4 DEF new
  <2> QED
    BY <2>5, <2>6
<1> QED
  BY <1>2, <1>3, <1>4

(* apply_config: key and hot key follow the new configuration, or neither   *)
(* target nor hot key changed.                                              *)
LEMMA ApplyIsWhole ==
  ASSUME NEW rt, Whole(rt), NEW config \in Config, NEW free
  PROVE  Whole(ApplyConfig(rt, config, free))
<1>1. rt \in Runtime /\ rt.config \in Config
  BY DEF Whole, Runtime
<1>2. config.hotkey \in Hotkeys \cup {Unparsable} /\ config.target \in Targets
      /\ config.ui \in Languages
  BY ConfigFields
<1>3. CASE [config EXCEPT !.ui = rt.config.ui] = rt.config
  <2> DEFINE new == [rt EXCEPT !.config.ui = config.ui]
  <2>1. ApplyConfig(rt, config, free) = new
    BY <1>3 DEF ApplyConfig
  <2>2. /\ new.config \in Config /\ new.config.target = rt.config.target
        /\ new.config.hotkey = rt.config.hotkey
        /\ new.key = rt.key /\ new.cycle = rt.cycle /\ new.conflicts = rt.conflicts
    BY <1>1, <1>2 DEF Runtime, Config
  <2>3. new \in Runtime
    BY <1>1, <2>2 DEF Runtime
  <2> HIDE DEF new
  <2> QED
    BY <2>1, <2>2, <2>3 DEF Whole, OwnKey, OwnHotkey
<1>4. CASE [config EXCEPT !.ui = rt.config.ui] # rt.config
  <2> DEFINE registered == Reregister(rt, config.hotkey, free)
             new == [registered EXCEPT !.config = config, !.key = KeyFor(config.target)]
  <2>1. ApplyConfig(rt, config, free) = new
    BY <1>4 DEF ApplyConfig
  <2>2. registered \in Runtime /\ (registered.conflicts = {} <=> registered.cycle = config.hotkey)
    BY <1>1, <1>2, ReregisterIsHonest
  <2>3. KeyFor(config.target) \in {NoKey, config.target}
    BY DEF KeyFor
  <2> HIDE DEF registered
  <2>4. /\ new \in Runtime /\ new.config = config /\ new.key = KeyFor(config.target)
        /\ new.cycle = registered.cycle /\ new.conflicts = registered.conflicts
    BY <1>2, <2>2, <2>3 DEF Runtime
  <2> HIDE DEF new
  <2> QED
    BY <2>1, <2>2, <2>3, <2>4 DEF Whole, OwnKey, OwnHotkey
<1> QED
  BY <1>3, <1>4

-----------------------------------------------------------------------------
(* A queue of changes, applied one by one *)

(* Every set of numbers has a least one. *)
LEMMA LeastNumber ==
  ASSUME NEW T, T \subseteq Nat, T # {}
  PROVE  \E x \in T : \A y \in T : x <= y
<1> DEFINE less == {pair \in Nat \X Nat : pair[1] < pair[2]}
<1>1. IsWellFoundedOn(less, Nat)
  BY NatLessThanWellFounded DEF OpToRel
<1>2. \A x, y \in Nat : x < y => <<x, y>> \in less
  OBVIOUS
<1> HIDE DEF less
<1>3. PICK x \in T : \A y \in T : ~(<<y, x>> \in less)
  BY <1>1, WFMin
<1>4. ASSUME NEW y \in T PROVE x <= y
  <2>1. x \in Nat /\ y \in Nat
    OBVIOUS
  <2>2. ~(y < x)
    BY <1>2, <1>3, <2>1
  <2> QED
    BY <2>1, <2>2
<1> QED
  BY <1>4

(* The function FoldLeft defines, on sets of the first k indices. *)
Folded(rt, queue, free, k, iter) ==
    iter = [s \in SUBSET (1..k) |->
              IF s = {} THEN rt
              ELSE ApplyChange(iter[s \ {Max(s)}], queue[Max(s)], free)]

(* The largest of a set of indices that has the last one. *)
LEMMA LastIsMax ==
  ASSUME NEW k \in Nat, NEW s \in SUBSET (1..k), k \in s
  PROVE  Max(s) = k
<1>1. \A y \in s : k >= y
  OBVIOUS
<1>2. \A x \in s : (\A y \in s : x >= y) => x = k
  OBVIOUS
<1> QED
  BY <1>1, <1>2 DEF Max

(* It exists for every k: the least one for which it did not would have a   *)
(* predecessor that can be extended by one application.                     *)
LEMMA FoldIsThere ==
  ASSUME NEW rt, NEW queue, NEW free, NEW n \in Nat
  PROVE  \E iter : Folded(rt, queue, free, n, iter)
<1> DEFINE bad == {k \in Nat : ~\E iter : Folded(rt, queue, free, k, iter)}
<1>1. ASSUME bad # {} PROVE FALSE
  <2>1. PICK k \in bad : \A j \in bad : k <= j
    BY <1>1, LeastNumber
  <2>2. k \in Nat /\ ~\E iter : Folded(rt, queue, free, k, iter)
    BY <2>1
  <2>3. CASE k = 0
    <3> DEFINE iter == [s \in SUBSET (1..0) |-> rt]
    <3>1. \A s \in SUBSET (1..0) : s = {}
      OBVIOUS
    <3>2. Folded(rt, queue, free, 0, iter)
      BY <3>1 DEF Folded
    <3> QED
      BY <2>2, <2>3, <3>2
  <2>4. CASE k # 0
    <3>1. k - 1 \in Nat /\ ~(k <= k - 1)
      BY <2>2, <2>4
    <3>2. k - 1 \notin bad
      BY <2>1, <3>1
    <3>3. PICK g : Folded(rt, queue, free, k - 1, g)
      BY <3>1, <3>2
    <3> DEFINE h == [s \in SUBSET (1..k) |->
                       IF k \in s THEN ApplyChange(g[s \ {k}], queue[k], free) ELSE g[s]]
               rule(s) == IF s = {} THEN rt
                          ELSE ApplyChange(h[s \ {Max(s)}], queue[Max(s)], free)
    <3> HIDE DEF bad
    <3>4. ASSUME NEW s \in SUBSET (1..k) PROVE h[s] = rule(s)
      <4>1. \A t \in SUBSET (1..k) : k \notin t => t \in SUBSET (1..(k - 1)) /\ h[t] = g[t]
        BY <2>2
      <4>2. CASE k \in s
        <5>1. Max(s) = k
          BY <2>2, <4>2, LastIsMax
        <5>2. h[s \ {k}] = g[s \ {k}]
          BY <4>1
        <5>3. h[s] = ApplyChange(g[s \ {k}], queue[k], free)
          BY <4>2
        <5> HIDE DEF h
        <5> QED
          BY <4>2, <5>1, <5>2, <5>3
      <4>3. CASE k \notin s
        <5>1. s \in SUBSET (1..(k - 1)) /\ h[s] = g[s]
          BY <4>1, <4>3
        <5>2. s \ {Max(s)} \in SUBSET (1..k) /\ k \notin s \ {Max(s)}
          BY <4>3
        <5>3. h[s \ {Max(s)}] = g[s \ {Max(s)}]
          BY <4>1, <5>2
        <5>4. g[s] = IF s = {} THEN rt
                     ELSE ApplyChange(g[s \ {Max(s)}], queue[Max(s)], free)
          BY <3>3, <5>1 DEF Folded
        <5> HIDE DEF h
        <5> QED
          BY <5>1, <5>3, <5>4
      <4> QED
        BY <4>2, <4>3
    <3>5. h = [s \in SUBSET (1..k) |-> h[s]]
      OBVIOUS
    <3> HIDE DEF h
    <3>6. Folded(rt, queue, free, k, h)
      BY <3>4, <3>5 DEF Folded
    <3> QED
      BY <2>2, <3>6
  <2> QED
    BY <2>3, <2>4
<1>2. n \notin bad
  BY <1>1
<1> QED
  BY <1>2

(* drain_config_changes: what each applied change keeps, the queue keeps.   *)
LEMMA QueueIsWhole ==
  ASSUME NEW rt, Whole(rt), NEW queue \in Seq(Config \cup {Broken}), NEW free
  PROVE  Whole(ApplyChanges(rt, queue, free))
<1>1. Len(queue) \in Nat /\ DOMAIN queue = 1..Len(queue)
      /\ \A i \in 1..Len(queue) : queue[i] \in Config \cup {Broken}
  BY LenProperties, ElementOfSeq
<1> DEFINE iter == CHOOSE iter : Folded(rt, queue, free, Len(queue), iter)
<1>2. Folded(rt, queue, free, Len(queue), iter)
  BY <1>1, FoldIsThere
<1>3. ApplyChanges(rt, queue, free) = iter[1..Len(queue)]
  BY <1>1 DEF ApplyChanges, FoldLeft, MapThenFoldSet, Folded
<1> HIDE DEF iter
<1> DEFINE bad == {k \in 0..Len(queue) : ~Whole(iter[1..k])}
<1>4. ASSUME bad # {} PROVE FALSE
  <2>1. PICK k \in bad : \A j \in bad : k <= j
    <3>1. bad \subseteq Nat
      BY <1>1
    <3> QED
      BY <1>4, <3>1, LeastNumber
  <2>2. k \in 0..Len(queue) /\ k \in Nat /\ ~Whole(iter[1..k])
    BY <1>1, <2>1
  <2>3. CASE k = 0
    <3>1. 1..k = {} /\ {} \in SUBSET (1..Len(queue))
      BY <2>3
    <3>2. iter[{}] = rt
      BY <1>2, <3>1 DEF Folded
    <3> QED
      BY <2>2, <3>1, <3>2
  <2>4. CASE k # 0
    <3>1. /\ k - 1 \in 0..Len(queue) /\ ~(k <= k - 1) /\ k \in 1..Len(queue)
          /\ k \in 1..k /\ (1..k) \ {k} = 1..(k - 1) /\ 1..k \in SUBSET (1..Len(queue))
      BY <1>1, <2>2, <2>4
    <3>2. Whole(iter[1..(k - 1)])
      BY <2>1, <3>1
    <3>3. Max(1..k) = k
      BY <2>2, <3>1, LastIsMax
    <3>4. iter[1..k] = ApplyChange(iter[1..(k - 1)], queue[k], free)
      BY <1>2, <3>1, <3>3 DEF Folded
    <3>5. queue[k] \in Config \cup {Broken}
      BY <1>1, <3>1
    <3>6. Whole(ApplyChange(iter[1..(k - 1)], queue[k], free))
      BY <3>2, <3>5, ApplyIsWhole DEF ApplyChange
    <3> QED
      BY <2>2, <3>4, <3>6
  <2> QED
    BY <2>3, <2>4
<1>5. Len(queue) \notin bad
  BY <1>4
<1>6. Len(queue) \in 0..Len(queue)
  BY <1>1
<1> QED
  BY <1>3, <1>5, <1>6

-----------------------------------------------------------------------------
(* The invariant *)

FilesFit ==
    /\ file \in Config \cup {Broken} /\ keys \subseteq Targets
    /\ file # Broken => Validate(file)
    /\ watcher \in {"Off", "Starting", "Waiting", "Reading"} /\ notified \in BOOLEAN
    /\ changes \in Seq(Config \cup {Broken}) /\ unseen \subseteq Residents

RuntimesFit ==
    /\ runtime \in [Residents -> Runtime]
    /\ \A r \in Residents :
          /\ OwnKey(runtime[r])
          /\ resident[r] = "Ready" => OwnHotkey(runtime[r])

WindowsFit ==
    /\ window \in [Managers -> Window]
    /\ \A m \in Managers :
          Fits(window[m]) /\ PromptCurrent(window[m]) /\ SettingsCurrent(window[m])

SyncInv == LaunchInv /\ FilesFit /\ RuntimesFit /\ WindowsFit

(* What a process starts with. *)
LEMMA NothingFits ==
  /\ NoRuntime \in Runtime /\ OwnKey(NoRuntime) /\ Fits(NoWindow) /\ NoWindow \in Window
  /\ PromptCurrent(NoWindow) /\ SettingsCurrent(NoWindow)
<1>1. NoRuntime \in Runtime /\ OwnKey(NoRuntime)
  BY ConstantsArePlain DEF NoRuntime, Runtime, OwnKey
<1>2. Fits(NoWindow) /\ PromptCurrent(NoWindow) /\ SettingsCurrent(NoWindow)
  BY ConstantsArePlain, NewWindowFits, NewWindowIsCurrent DEF NoWindow
<1> QED
  BY <1>1, <1>2 DEF Fits

(* Init satisfies it. *)
LEMMA InitHasInv == Init => SyncInv
<1> SUFFICES ASSUME Init PROVE SyncInv
  OBVIOUS
<1>1. LaunchInv
  BY LaunchInit_Inv DEF Init
<1>2. FilesFit
  <2>1. <<>> \in Seq(Config \cup {Broken})
    BY EmptySeq
  <2> QED
    BY <2>1, ConstantsArePlain DEF Init, FilesFit
<1>3. RuntimesFit
  BY NothingFits DEF Init, LaunchInit, RuntimesFit
<1>4. WindowsFit
  BY NothingFits DEF Init, WindowsFit
<1> QED
  BY <1>1, <1>2, <1>3, <1>4 DEF SyncInv

(* Every step is one of Launch, or moves no process. *)
LEMMA LaunchStep ==
  ASSUME [Next]_vars
  PROVE  [LaunchNext]_launchVars
<1>1. ASSUME NEW r \in Residents,
             \/ UserStartsResident(r) \/ BuildRuntime(r) \/ AcquireInstance(r)
             \/ OpenShell(r) \/ QuitResident(r) \/ ResidentEnds(r)
      PROVE  LaunchNext
  BY <1>1 DEF UserStartsResident, BuildRuntime, AcquireInstance, OpenShell, QuitResident,
              ResidentEnds, LaunchNext
<1>2. ASSUME NEW m \in Managers,
             ManagerStarts(m) \/ EnsureResident(m) \/ OpenWindow(m) \/ ManagerEnds(m)
      PROVE  LaunchNext
  BY <1>2 DEF ManagerStarts, EnsureResident, OpenWindow, ManagerEnds, LaunchNext
<1>3. ASSUME NEW r \in Residents, DrainChanges(r) PROVE UNCHANGED launchVars
  BY <1>3 DEF DrainChanges
<1>4. ASSUME Watcher \/ MissNotification \/ EditFile PROVE UNCHANGED launchVars
  BY <1>4 DEF Watcher, StartWatching, TakeNotification, ReadFile, Watch, MissNotification, EditFile
<1>5. ASSUME NEW m \in Managers,
             \/ SaveSettings(m) \/ SavePrompt(m) \/ SaveLanguage(m) \/ NotifyConfig(m)
             \/ SaveKey(m) \/ DeleteKey(m) \/ NotifyKey(m) \/ Type(m) \/ Turn(m)
      PROVE  UNCHANGED launchVars
  BY <1>5 DEF SaveSettings, SavePrompt, SaveLanguage, Save, NotifyConfig, SaveKey, DeleteKey,
              ChangeKey, NotifyKey, Type, Turn
<1>6. CASE UNCHANGED vars
  BY <1>6 DEF vars
<1> QED
  BY <1>1, <1>2, <1>3, <1>4, <1>5, <1>6 DEF Next

-----------------------------------------------------------------------------
(* The file *)

(* A change of the file reaches the watcher or is missed. *)
LEMMA FileBecomesFits ==
  ASSUME FilesFit, NEW content, FileBecomes(content),
         content = Broken \/ (content \in Config /\ Validate(content)),
         UNCHANGED <<keys, watcher, changes>>
  PROVE  FilesFit'
BY DEF FilesFit, FileBecomes, Loaded

(* Saving writes what was validated. *)
LEMMA SaveFits ==
  ASSUME FilesFit, NEW m \in Managers, NEW content, NEW after, Save(m, content, after),
         content \in Config
  PROVE  FilesFit'
<1>1. Validate(content) /\ UNCHANGED <<keys, watcher, changes>>
  BY DEF Save
<1>2. CASE content = file
  BY <1>1, <1>2 DEF Save, FilesFit
<1>3. CASE content # file
  <2>1. FileBecomes(content)
    BY <1>3 DEF Save
  <2> QED
    BY <1>1, <2>1, FileBecomesFits
<1> QED
  BY <1>2, <1>3

(* Every step keeps the file loadable and the queue made of what was read.  *)
LEMMA FilesStep ==
  ASSUME SyncInv, [Next]_vars
  PROVE  FilesFit'
<1>0. FilesFit
  BY DEF SyncInv
<1>1. ASSUME NEW r \in Residents,
             UserStartsResident(r) \/ BuildRuntime(r) \/ OpenShell(r) \/ QuitResident(r)
      PROVE  FilesFit'
  BY <1>0, <1>1 DEF UserStartsResident, BuildRuntime, OpenShell, QuitResident, FilesFit, resVars
<1>2. ASSUME NEW r \in Residents, AcquireInstance(r) \/ ResidentEnds(r) \/ DrainChanges(r)
      PROVE  FilesFit'
  <2>1. <<>> \in Seq(Config \cup {Broken})
    BY EmptySeq
  <2> QED
    BY <1>0, <1>2, <2>1 DEF AcquireInstance, ResidentEnds, Left, DrainChanges, FilesFit, resVars
<1>3. CASE Watcher
  <2>1. /\ Append(changes, file) \in Seq(Config \cup {Broken})
        /\ Append(changes, Broken) \in Seq(Config \cup {Broken})
    BY <1>0, AppendProperties DEF FilesFit
  <2> QED
    BY <1>0, <1>3, <2>1
       DEF Watcher, StartWatching, TakeNotification, ReadFile, Watch, FilesFit, Holders
<1>4. CASE MissNotification
  BY <1>0, <1>4 DEF MissNotification, Watch, FilesFit, Holders
<1>5. CASE EditFile
  BY <1>0, <1>5, ConstantsArePlain, FileBecomesFits DEF EditFile
<1>6. ASSUME NEW m \in Managers, SaveSettings(m) \/ SavePrompt(m) \/ SaveLanguage(m)
      PROVE  FilesFit'
  <2>1. Fits(window[m])
    BY DEF SyncInv, WindowsFit
  <2>2. CASE SaveSettings(m)
    <3>1. /\ Save(m, SettingsSaved(window[m]), AfterSettings(window[m]))
          /\ Validate(SettingsSaved(window[m]))
      BY <2>2 DEF SaveSettings, Save
    <3> QED
      BY <1>0, <2>1, <3>1, SettingsFit, SaveFits
  <2>3. CASE SavePrompt(m)
    <3>1. /\ Save(m, PromptSaved(window[m]), AfterPrompt(window[m]))
          /\ Validate(PromptSaved(window[m]))
      BY <2>3 DEF SavePrompt, Save
    <3> QED
      BY <1>0, <2>1, <3>1, PromptFits, SaveFits
  <2>4. CASE SaveLanguage(m)
    <3> DEFINE after == [window[m] EXCEPT !.config = LanguageSaved(window[m])]
    <3>1. Save(m, LanguageSaved(window[m]), after)
      BY <2>4 DEF SaveLanguage
    <3>2. LanguageSaved(window[m]) \in Config
      BY <2>1, LanguageFits
    <3> HIDE DEF after
    <3> QED
      BY <1>0, <3>1, <3>2, SaveFits
  <2> QED
    BY <1>6, <2>2, <2>3, <2>4
<1>7. ASSUME NEW m \in Managers, SaveKey(m) \/ DeleteKey(m)
      PROVE  FilesFit'
  <2>1. window[m].target \in Targets \cup {NoTarget}
    BY DEF SyncInv, WindowsFit, Window
  <2> QED
    BY <1>0, <1>7, <2>1 DEF SaveKey, DeleteKey, ChangeKey, IsTarget, FilesFit, resVars
<1>8. ASSUME NEW m \in Managers, NotifyConfig(m)
      PROVE  FilesFit'
  BY <1>0, <1>8 DEF NotifyConfig, FilesFit
<1>9. ASSUME NEW m \in Managers,
             \/ ManagerStarts(m) \/ EnsureResident(m) \/ OpenWindow(m) \/ ManagerEnds(m)
             \/ NotifyKey(m) \/ Type(m) \/ Turn(m)
      PROVE  FilesFit'
  BY <1>0, <1>9 DEF ManagerStarts, EnsureResident, OpenWindow, ManagerEnds, NotifyKey, Type, Turn,
                    FilesFit, resVars
<1>10. CASE UNCHANGED vars
  BY <1>0, <1>10 DEF vars, resVars, FilesFit
<1> QED
  BY <1>1, <1>2, <1>3, <1>4, <1>5, <1>6, <1>7, <1>8, <1>9, <1>10 DEF Next

-----------------------------------------------------------------------------
(* The residents *)

(* Where no runtime changes, a resident that becomes ready is the question. *)
LEMMA RuntimesKept ==
  ASSUME RuntimesFit, runtime' = runtime,
         \A r \in Residents : resident'[r] = "Ready" => resident[r] = "Ready"
  PROVE  RuntimesFit'
BY DEF RuntimesFit

(* One runtime changes. *)
LEMMA RuntimeChanged ==
  ASSUME RuntimesFit, NEW r \in Residents, NEW rt \in Runtime, OwnKey(rt),
         runtime' = [runtime EXCEPT ![r] = rt],
         \A s \in Residents : s # r /\ resident'[s] = "Ready" => resident[s] = "Ready",
         resident'[r] = "Ready" => OwnHotkey(rt)
  PROVE  RuntimesFit'
<1>1. runtime' \in [Residents -> Runtime]
  BY DEF RuntimesFit
<1>2. ASSUME NEW s \in Residents
      PROVE  OwnKey(runtime'[s]) /\ (resident'[s] = "Ready" => OwnHotkey(runtime'[s]))
  <2>1. CASE s = r
    <3>1. runtime'[s] = rt
      BY <2>1 DEF RuntimesFit
    <3> QED
      BY <2>1, <3>1
  <2>2. CASE s # r
    <3>1. runtime'[s] = runtime[s]
      BY <2>2 DEF RuntimesFit
    <3> QED
      BY <2>2, <3>1 DEF RuntimesFit
  <2> QED
    BY <2>1, <2>2
<1> QED
  BY <1>1, <1>2 DEF RuntimesFit

(* A manager or a resident that moves makes nobody ready, but for           *)
(* BecomeReady.                                                             *)
LEMMA NobodyGetsReady ==
  ASSUME LaunchInv,
         \/ \E r \in Residents : \/ StartResident(r) \/ RuntimeBuilt(r) \/ Acquire(r)
                                 \/ Quit(r) \/ EndResident(r)
         \/ \E m \in Managers : StartManager(m) \/ LaunchSteps(m) \/ Present(m) \/ CloseManager(m)
         \/ UNCHANGED launchVars
  PROVE  \A s \in Residents : resident'[s] = "Ready" => resident[s] = "Ready"
<1>1. resident \in [Residents -> ResidentPlaces]
  BY DEF LaunchInv, LaunchTypeOK
<1>2. ASSUME NEW r \in Residents, NEW from, NEW to, to # "Ready", ResidentGoes(r, from, to)
      PROVE  \A s \in Residents : resident'[s] = "Ready" => resident[s] = "Ready"
  BY <1>1, <1>2 DEF ResidentGoes
<1>3. ASSUME NEW r \in Residents,
             StartResident(r) \/ RuntimeBuilt(r) \/ Acquire(r) \/ Quit(r) \/ EndResident(r)
      PROVE  \A s \in Residents : resident'[s] = "Ready" => resident[s] = "Ready"
  BY <1>2, <1>3 DEF StartResident, RuntimeBuilt, Acquire, Quit, EndResident
<1>4. ASSUME NEW m \in Managers, Spawn(m)
      PROVE  \A s \in Residents : resident'[s] = "Ready" => resident[s] = "Ready"
  BY <1>1, <1>4 DEF Spawn
<1>5. ASSUME NEW m \in Managers,
             StartManager(m) \/ (LaunchSteps(m) /\ ~Spawn(m)) \/ Present(m) \/ CloseManager(m)
      PROVE  resident' = resident
  BY <1>5 DEF StartManager, LaunchSteps, Present, CloseManager, FirstPing, TakeLock,
              LockTimesOut, SecondPing, OpenProbe, CloseProbe, SpawnFails, EndWait, ManagerGoes
<1> QED
  BY <1>3, <1>4, <1>5 DEF launchVars

(* Every step keeps key and hot key with the configuration. *)
LEMMA RuntimesStep ==
  ASSUME SyncInv, [Next]_vars
  PROVE  RuntimesFit'
<1>0. /\ RuntimesFit /\ FilesFit /\ LaunchInv
      /\ runtime \in [Residents -> Runtime] /\ resident \in [Residents -> ResidentPlaces]
  BY DEF SyncInv, LaunchInv, LaunchTypeOK, RuntimesFit
<1>w. ASSUME NEW r \in Residents, resident[r] = "Ready" PROVE Whole(runtime[r])
  BY <1>0, <1>w DEF RuntimesFit, Whole
<1>1. ASSUME NEW r \in Residents, UserStartsResident(r) \/ QuitResident(r)
      PROVE  RuntimesFit'
  BY <1>0, <1>1, NobodyGetsReady, RuntimesKept DEF UserStartsResident, QuitResident, resVars
<1>2. ASSUME NEW r \in Residents, BuildRuntime(r) PROVE RuntimesFit'
  <2>1. Built \in Runtime /\ OwnKey(Built)
    <3> DEFINE config == IF file = Broken THEN Default ELSE file
    <3>1. config \in Config /\ config.target \in Targets
      BY <1>0, ConstantsArePlain, ConfigFields DEF FilesFit
    <3>2. KeyFor(config.target) \in {NoKey, config.target}
      BY DEF KeyFor
    <3>3. Built = [NoRuntime EXCEPT !.config = config, !.key = KeyFor(config.target)]
      BY DEF Built
    <3> HIDE DEF config
    <3>4. Built \in Runtime /\ Built.config = config /\ Built.key = KeyFor(config.target)
      BY <3>1, <3>2, <3>3, NothingFits DEF Runtime
    <3> QED
      BY <3>2, <3>4 DEF OwnKey
  <2>2. runtime' = [runtime EXCEPT ![r] = Built] /\ RuntimeBuilt(r)
    BY <1>2 DEF BuildRuntime
  <2>3. resident'[r] # "Ready"
    BY <1>0, <2>2 DEF RuntimeBuilt, ResidentGoes
  <2>4. \A s \in Residents : resident'[s] = "Ready" => resident[s] = "Ready"
    BY <1>0, <2>2, NobodyGetsReady
  <2> QED
    BY <1>0, <2>1, <2>2, <2>3, <2>4, RuntimeChanged
<1>3. ASSUME NEW r \in Residents, Left(r), resident'[r] = "Gone",
             \A s \in Residents : resident'[s] = "Ready" => resident[s] = "Ready"
      PROVE  RuntimesFit'
  <2>1. runtime' = [runtime EXCEPT ![r] = NoRuntime] /\ resident'[r] # "Ready"
    BY <1>3 DEF Left
  <2> QED
    BY <1>0, <1>3, <2>1, NothingFits, RuntimeChanged
<1>4. ASSUME NEW r \in Residents, AcquireInstance(r) \/ ResidentEnds(r) PROVE RuntimesFit'
  <2>1. \A s \in Residents : resident'[s] = "Ready" => resident[s] = "Ready"
    BY <1>0, <1>4, NobodyGetsReady DEF AcquireInstance, ResidentEnds
  <2>2. CASE AcquireInstance(r) /\ resident'[r] # "Gone"
    BY <1>0, <2>1, <2>2, RuntimesKept DEF AcquireInstance, resVars
  <2>3. CASE AcquireInstance(r) /\ resident'[r] = "Gone"
    BY <1>3, <2>1, <2>3 DEF AcquireInstance
  <2>4. CASE ResidentEnds(r)
    <3>1. resident'[r] = "Gone" /\ Left(r)
      BY <1>0, <2>4 DEF ResidentEnds, EndResident, ResidentGoes
    <3> QED
      BY <1>3, <2>1, <3>1
  <2> QED
    BY <1>4, <2>2, <2>3, <2>4
<1>5. ASSUME NEW r \in Residents, OpenShell(r) PROVE RuntimesFit'
  <2>1. PICK free \in SUBSET Hotkeys :
          runtime' = [runtime EXCEPT ![r] = Reregister(@, @.config.hotkey, free)]
    BY <1>5 DEF OpenShell
  <2> DEFINE new == Reregister(runtime[r], runtime[r].config.hotkey, free)
  <2>2. runtime[r] \in Runtime /\ OwnKey(runtime[r])
        /\ runtime[r].config.hotkey \in Hotkeys \cup {Unparsable}
    BY <1>0, ConfigFields DEF RuntimesFit, Runtime
  <2>3. /\ new \in Runtime /\ new.config = runtime[r].config /\ new.key = runtime[r].key
        /\ new.conflicts = {} <=> new.cycle = runtime[r].config.hotkey
    BY <2>2, ReregisterIsHonest
  <2>4. runtime' = [runtime EXCEPT ![r] = new]
    BY <2>1
  <2> HIDE DEF new
  <2>5. OwnKey(new) /\ OwnHotkey(new)
    BY <2>2, <2>3 DEF OwnKey, OwnHotkey
  <2>6. ASSUME NEW s \in Residents, s # r, resident'[s] = "Ready" PROVE resident[s] = "Ready"
    BY <1>0, <1>5, <2>6 DEF OpenShell, BecomeReady, ResidentGoes
  <2> QED
    BY <1>0, <2>3, <2>4, <2>5, <2>6, RuntimeChanged
<1>6. ASSUME NEW r \in Residents, NEW rt, resident[r] = "Ready", Whole(rt),
             runtime' = [runtime EXCEPT ![r] = rt], UNCHANGED launchVars
      PROVE  RuntimesFit'
  BY <1>0, <1>6, NobodyGetsReady, RuntimeChanged DEF Whole
<1>7. ASSUME NEW r \in Residents, DrainChanges(r) PROVE RuntimesFit'
  <2>1. PICK free \in SUBSET Hotkeys :
          runtime' = [runtime EXCEPT ![r] = ApplyChanges(@, changes, free)]
    BY <1>7 DEF DrainChanges
  <2>2. resident[r] = "Ready" /\ UNCHANGED launchVars
    BY <1>7 DEF DrainChanges
  <2>3. Whole(ApplyChanges(runtime[r], changes, free))
    BY <1>0, <1>w, <2>2, QueueIsWhole DEF FilesFit
  <2> QED
    BY <1>6, <2>1, <2>2, <2>3
<1>8. ASSUME NEW m \in Managers, NotifyConfig(m) PROVE RuntimesFit'
  <2>1. UNCHANGED launchVars
    BY <1>8 DEF NotifyConfig
  <2>2. CASE UNCHANGED runtime
    BY <1>0, <2>1, <2>2, NobodyGetsReady, RuntimesKept
  <2>3. ASSUME NEW r \in Residents, NEW free \in SUBSET Hotkeys,
               resident[r] = "Ready", file # Broken,
               runtime' = [runtime EXCEPT ![r] = ApplyConfig(@, file, free)]
        PROVE  RuntimesFit'
    <3>1. Whole(ApplyConfig(runtime[r], file, free))
      BY <1>0, <1>w, <2>3, ApplyIsWhole DEF FilesFit
    <3> QED
      BY <1>6, <2>1, <2>3, <3>1
  <2> QED
    BY <1>8, <2>2, <2>3 DEF NotifyConfig
<1>9. ASSUME NEW m \in Managers, NotifyKey(m) PROVE RuntimesFit'
  <2>1. UNCHANGED launchVars
    BY <1>9 DEF NotifyKey
  <2>2. CASE UNCHANGED runtime
    BY <1>0, <2>1, <2>2, NobodyGetsReady, RuntimesKept
  <2>3. ASSUME NEW r \in Residents, resident[r] = "Ready",
               runtime' = [runtime EXCEPT ![r].key = KeyFor(runtime[r].config.target)]
        PROVE  RuntimesFit'
    <3> DEFINE new == [runtime[r] EXCEPT !.key = KeyFor(runtime[r].config.target)]
    <3>1. runtime' = [runtime EXCEPT ![r] = new]
      BY <2>3
    <3>2. Whole(runtime[r]) /\ runtime[r].config.target \in Targets
      BY <1>w, <2>3, ConfigFields DEF Whole, Runtime
    <3>3. KeyFor(runtime[r].config.target) \in {NoKey, runtime[r].config.target}
      BY DEF KeyFor
    <3>4. /\ new \in Runtime /\ new.config = runtime[r].config
          /\ new.key = KeyFor(runtime[r].config.target)
          /\ new.cycle = runtime[r].cycle /\ new.conflicts = runtime[r].conflicts
      BY <3>2, <3>3 DEF Whole, Runtime
    <3> HIDE DEF new
    <3>5. Whole(new)
      BY <3>2, <3>3, <3>4 DEF Whole, OwnKey, OwnHotkey
    <3> QED
      BY <1>6, <2>1, <2>3, <3>1, <3>5
  <2> QED
    BY <1>9, <2>2, <2>3 DEF NotifyKey
<1>10. ASSUME NEW m \in Managers,
              ManagerStarts(m) \/ EnsureResident(m) \/ OpenWindow(m) \/ ManagerEnds(m)
       PROVE  RuntimesFit'
  <2>1. /\ runtime' = runtime
        /\ StartManager(m) \/ LaunchSteps(m) \/ Present(m) \/ CloseManager(m)
    BY <1>10 DEF ManagerStarts, EnsureResident, OpenWindow, ManagerEnds, resVars
  <2> QED
    BY <1>0, <2>1, NobodyGetsReady, RuntimesKept
<1>11. ASSUME UNCHANGED launchVars, runtime' = runtime PROVE RuntimesFit'
  BY <1>0, <1>11, NobodyGetsReady, RuntimesKept
<1>12. ASSUME Watcher \/ MissNotification \/ EditFile PROVE RuntimesFit'
  BY <1>11, <1>12 DEF Watcher, StartWatching, TakeNotification, ReadFile, Watch,
                      MissNotification, EditFile
<1>13. ASSUME NEW m \in Managers,
              \/ SaveSettings(m) \/ SavePrompt(m) \/ SaveLanguage(m)
              \/ SaveKey(m) \/ DeleteKey(m) \/ Type(m) \/ Turn(m)
       PROVE  RuntimesFit'
  BY <1>11, <1>13 DEF SaveSettings, SavePrompt, SaveLanguage, Save, SaveKey, DeleteKey,
                      ChangeKey, Type, Turn, resVars
<1>14. CASE UNCHANGED vars
  BY <1>11, <1>14 DEF vars, resVars
<1> QED
  BY <1>1, <1>2, <1>4, <1>5, <1>7, <1>8, <1>9, <1>10, <1>12, <1>13, <1>14 DEF Next

-----------------------------------------------------------------------------
(* The managers *)

(* One window changes. *)
LEMMA WindowChanged ==
  ASSUME WindowsFit, NEW m \in Managers, NEW w, Fits(w), PromptCurrent(w), SettingsCurrent(w),
         window' = [window EXCEPT ![m] = w]
  PROVE  WindowsFit'
BY DEF WindowsFit, Fits

(* A notice is given or taken; the forms stay. *)
LEMMA NoticeFits ==
  ASSUME NEW w, Fits(w), PromptCurrent(w), SettingsCurrent(w),
         NEW notice \in {"None", "Config", "Key"},
         NEW after, after = [w EXCEPT !.notice = notice]
  PROVE  Fits(after) /\ PromptCurrent(after) /\ SettingsCurrent(after)
<1>1. after \in Window /\ after.config = w.config /\ after.index = w.index
      /\ after.draft = w.draft
  BY DEF Fits, Window
<1>2. /\ after.view = w.view /\ after.edited = w.edited /\ after.id = w.id
      /\ after.target = w.target /\ after.chosen = w.chosen
  BY DEF Fits, Window
<1>3. Fits(after)
  BY <1>1 DEF Fits
<1>4. PromptCurrent(after) /\ SettingsCurrent(after)
  BY <1>1, <1>2 DEF PromptCurrent, SettingsCurrent, Selected
<1> QED
  BY <1>3, <1>4

(* What is typed or selected stays within its field, and its page counts   *)
(* as edited.                                                              *)
LEMMA TypingFits ==
  ASSUME WindowsFit, NEW m \in Managers, Type(m)
  PROVE  WindowsFit'
<1>1. /\ Fits(window[m]) /\ window[m] \in Window /\ window[m].config \in Config
      /\ PromptCurrent(window[m]) /\ SettingsCurrent(window[m])
      /\ window[m].edited \subseteq Views
  BY DEF WindowsFit, Window, Fits
<1>2. ASSUME NEW after \in Window, after.config = window[m].config,
             after.index = window[m].index, after.draft = window[m].draft,
             PromptCurrent(after), SettingsCurrent(after),
             window' = [window EXCEPT ![m] = after]
      PROVE  WindowsFit'
  <2>1. Fits(after)
    BY <1>1, <1>2 DEF Fits
  <2> QED
    BY <1>2, <2>1, WindowChanged
<1> DEFINE settings == window[m].edited \cup {"Settings"}
           prompts == window[m].edited \cup {"Prompts"}
<1>3. settings \in SUBSET Views /\ prompts \in SUBSET Views
  BY <1>1 DEF Views
<1>4. ASSUME NEW target \in Targets \cup {NoTarget}, NEW chosen \in Ids \cup {Blank},
             window' = [window EXCEPT ![m] = [window[m] EXCEPT
                           !.target = target, !.chosen = chosen, !.edited = settings]]
      PROVE  WindowsFit'
  <2> DEFINE after == [window[m] EXCEPT
                           !.target = target, !.chosen = chosen, !.edited = settings]
  <2>1. /\ after \in Window /\ after.config = window[m].config
        /\ after.index = window[m].index /\ after.draft = window[m].draft
        /\ after.id = window[m].id /\ after.edited = settings
    BY <1>1, <1>3 DEF Window
  <2>2. PromptCurrent(after) /\ SettingsCurrent(after)
    BY <1>1, <2>1 DEF PromptCurrent, SettingsCurrent, Selected
  <2> HIDE DEF after
  <2> QED
    BY <1>2, <1>4, <2>1, <2>2 DEF after
<1>5. ASSUME NEW id \in Ids \cup {Blank}, NEW default \in Ids \cup {Blank},
             window' = [window EXCEPT ![m] = [window[m] EXCEPT
                           !.id = id, !.default = default, !.edited = prompts]]
      PROVE  WindowsFit'
  <2> DEFINE after == [window[m] EXCEPT
                           !.id = id, !.default = default, !.edited = prompts]
  <2>1. /\ after \in Window /\ after.config = window[m].config
        /\ after.index = window[m].index /\ after.draft = window[m].draft
        /\ after.view = window[m].view /\ after.edited = prompts
        /\ after.target = window[m].target /\ after.chosen = window[m].chosen
    BY <1>1, <1>3 DEF Window
  <2>2. PromptCurrent(after) /\ SettingsCurrent(after)
    BY <1>1, <2>1 DEF PromptCurrent, SettingsCurrent
  <2> HIDE DEF after
  <2> QED
    BY <1>2, <1>5, <2>1, <2>2 DEF after
<1>6. /\ window[m].target \in Targets \cup {NoTarget} /\ window[m].chosen \in Ids \cup {Blank}
      /\ window[m].id \in Ids \cup {Blank} /\ window[m].default \in Ids \cup {Blank}
      /\ window \in [Managers -> Window]
  BY <1>1 DEF Window, WindowsFit
<1>7. ASSUME NEW target \in Targets \cup {NoTarget},
             window' = [window EXCEPT ![m].target = target, ![m].edited = @ \cup {"Settings"}]
      PROVE  WindowsFit'
  <2>1. window' = [window EXCEPT ![m] = [window[m] EXCEPT !.target = target,
                              !.chosen = window[m].chosen, !.edited = settings]]
    BY <1>1, <1>6, <1>7 DEF Window
  <2> QED
    BY <1>4, <1>6, <2>1
<1>8. ASSUME NEW i \in DOMAIN window[m].config.profiles,
             window' = [window EXCEPT ![m].chosen = window[m].config.profiles[i],
                                      ![m].edited = @ \cup {"Settings"}]
      PROVE  WindowsFit'
  <2> DEFINE chosen == window[m].config.profiles[i]
  <2>1. chosen \in Ids \cup {Blank}
    BY <1>1, ConfigFields, ElementOfSeq
  <2>2. window' = [window EXCEPT ![m] = [window[m] EXCEPT !.target = window[m].target,
                              !.chosen = chosen, !.edited = settings]]
    BY <1>1, <1>6, <1>8 DEF Window
  <2> HIDE DEF chosen
  <2> QED
    BY <1>4, <1>6, <2>1, <2>2
<1>9. ASSUME NEW id \in Ids \cup {Blank},
             \/ window' = [window EXCEPT ![m].id = id, ![m].edited = @ \cup {"Prompts"}]
             \/ window' = [window EXCEPT ![m].default = id, ![m].edited = @ \cup {"Prompts"}]
      PROVE  WindowsFit'
  <2>1. CASE window' = [window EXCEPT ![m].id = id, ![m].edited = @ \cup {"Prompts"}]
    <3>1. window' = [window EXCEPT ![m] = [window[m] EXCEPT !.id = id,
                              !.default = window[m].default, !.edited = prompts]]
      BY <1>1, <1>6, <2>1 DEF Window
    <3> QED
      BY <1>5, <1>6, <3>1
  <2>2. CASE window' = [window EXCEPT ![m].default = id, ![m].edited = @ \cup {"Prompts"}]
    <3>1. window' = [window EXCEPT ![m] = [window[m] EXCEPT !.id = window[m].id,
                              !.default = id, !.edited = prompts]]
      BY <1>1, <1>6, <2>2 DEF Window
    <3> QED
      BY <1>5, <1>6, <3>1
  <2> QED
    BY <1>9, <2>1, <2>2
<1> QED
  BY <1>7, <1>8, <1>9 DEF Type

(* Every step keeps the windows' fields together. *)
LEMMA WindowsStep ==
  ASSUME SyncInv, [Next]_vars
  PROVE  WindowsFit'
<1>0. /\ WindowsFit /\ FilesFit
      /\ \A m \in Managers :
            Fits(window[m]) /\ PromptCurrent(window[m]) /\ SettingsCurrent(window[m])
  BY DEF SyncInv, WindowsFit
<1>1. ASSUME window' = window PROVE WindowsFit'
  BY <1>0, <1>1 DEF WindowsFit
<1>2. ASSUME NEW r \in Residents,
             \/ UserStartsResident(r) \/ BuildRuntime(r) \/ AcquireInstance(r)
             \/ OpenShell(r) \/ QuitResident(r) \/ ResidentEnds(r) \/ DrainChanges(r)
      PROVE  WindowsFit'
  BY <1>1, <1>2 DEF UserStartsResident, BuildRuntime, AcquireInstance, OpenShell, QuitResident,
                    ResidentEnds, DrainChanges
<1>3. ASSUME Watcher \/ MissNotification \/ EditFile PROVE WindowsFit'
  BY <1>1, <1>3 DEF Watcher, StartWatching, TakeNotification, ReadFile, Watch,
                    MissNotification, EditFile
<1>4. ASSUME NEW m \in Managers, ManagerStarts(m) \/ EnsureResident(m) PROVE WindowsFit'
  BY <1>1, <1>4 DEF ManagerStarts, EnsureResident
<1>5. ASSUME NEW m \in Managers, OpenWindow(m) \/ ManagerEnds(m) PROVE WindowsFit'
  <2>1. (IF file = Broken THEN Default ELSE file) \in Config
    BY <1>0, ConstantsArePlain DEF FilesFit
  <2> DEFINE new == NewWindow(IF file = Broken THEN Default ELSE file)
  <2>2. Fits(new) /\ PromptCurrent(new) /\ SettingsCurrent(new)
    BY <2>1, NewWindowFits, NewWindowIsCurrent
  <2>3. window' = [window EXCEPT ![m] = new] \/ window' = [window EXCEPT ![m] = NoWindow]
    BY <1>5 DEF OpenWindow, ManagerEnds
  <2> HIDE DEF new
  <2> QED
    BY <1>0, <2>2, <2>3, NothingFits, WindowChanged
<1>6. ASSUME NEW m \in Managers, SaveSettings(m) \/ SavePrompt(m) \/ SaveLanguage(m)
      PROVE  WindowsFit'
  <2> DEFINE translated == [window[m] EXCEPT !.config = LanguageSaved(window[m])]
  <2>1. \/ /\ Validate(SettingsSaved(window[m]))
           /\ window' = [window EXCEPT ![m] = AfterSettings(window[m])]
        \/ /\ Validate(PromptSaved(window[m])) /\ window[m].view = "Prompts"
           /\ window' = [window EXCEPT ![m] = AfterPrompt(window[m])]
        \/ window' = [window EXCEPT ![m] = translated]
    BY <1>6 DEF SaveSettings, SavePrompt, SaveLanguage, Save
  <2>2. Fits(translated) /\ PromptCurrent(translated) /\ SettingsCurrent(translated)
    BY <1>0, LanguageFits, LanguageIsCurrent
  <2> HIDE DEF translated
  <2>3. CASE window' = [window EXCEPT ![m] = translated]
    BY <1>0, <2>2, <2>3, WindowChanged
  <2>4. CASE /\ Validate(SettingsSaved(window[m]))
             /\ window' = [window EXCEPT ![m] = AfterSettings(window[m])]
    <3>1. /\ Fits(AfterSettings(window[m])) /\ PromptCurrent(AfterSettings(window[m]))
          /\ SettingsCurrent(AfterSettings(window[m]))
      BY <1>0, <2>4, SettingsFit, SettingsAreCurrent
    <3> QED
      BY <1>0, <2>4, <3>1, WindowChanged
  <2>5. CASE /\ Validate(PromptSaved(window[m])) /\ window[m].view = "Prompts"
             /\ window' = [window EXCEPT ![m] = AfterPrompt(window[m])]
    <3>1. /\ Fits(AfterPrompt(window[m])) /\ PromptCurrent(AfterPrompt(window[m]))
          /\ SettingsCurrent(AfterPrompt(window[m]))
      BY <1>0, <2>5, PromptFits, PromptIsCurrent
    <3> QED
      BY <1>0, <2>5, <3>1, WindowChanged
  <2> QED
    BY <2>1, <2>3, <2>4, <2>5
<1>7. ASSUME NEW m \in Managers, SaveKey(m) \/ DeleteKey(m) \/ NotifyConfig(m) \/ NotifyKey(m)
      PROVE  WindowsFit'
  <2>1. PICK notice \in {"None", "Config", "Key"} :
          window' = [window EXCEPT ![m].notice = notice]
    BY <1>7 DEF SaveKey, DeleteKey, ChangeKey, NotifyConfig, NotifyKey
  <2> DEFINE after == [window[m] EXCEPT !.notice = notice]
  <2>2. window' = [window EXCEPT ![m] = after]
    BY <2>1
  <2>3. Fits(after) /\ PromptCurrent(after) /\ SettingsCurrent(after)
    BY <1>0, NoticeFits
  <2> HIDE DEF after
  <2> QED
    BY <1>0, <2>2, <2>3, WindowChanged
<1>8. ASSUME NEW m \in Managers, Type(m) PROVE WindowsFit'
  BY <1>0, <1>8, TypingFits
<1>9. ASSUME NEW m \in Managers, Turn(m) PROVE WindowsFit'
  <2>1. ASSUME NEW view \in Views, window' = [window EXCEPT ![m] = SwitchView(@, view)]
        PROVE  WindowsFit'
    BY <1>0, <2>1, TurningFits, TurningIsCurrent, WindowChanged
  <2>2. ASSUME Len(window[m].config.profiles) < MaxProfiles,
               window' = [window EXCEPT ![m] = NewPrompt(@)]
        PROVE  WindowsFit'
    BY <1>0, <2>2, TurningFits, TurningIsCurrent, WindowChanged
  <2>3. ASSUME \/ window' = [window EXCEPT ![m] = PreviousPrompt(@)]
               \/ window' = [window EXCEPT ![m] = NextPrompt(@)]
        PROVE  WindowsFit'
    BY <1>0, <2>3, TurningFits, TurningIsCurrent, WindowChanged
  <2> QED
    BY <1>9, <2>1, <2>2, <2>3 DEF Turn
<1>10. CASE UNCHANGED vars
  BY <1>1, <1>10 DEF vars
<1> QED
  BY <1>2, <1>3, <1>4, <1>5, <1>6, <1>7, <1>8, <1>9, <1>10 DEF Next

-----------------------------------------------------------------------------
(* Theorems *)

(* A configuration moves between processes that come and go as Launch says: *)
(* the file, the watcher and the managers' windows add nothing to the       *)
(* protocol and take nothing from it.                                       *)
THEOREM LaunchImplemented == Spec => LaunchSpec
<1>1. Init => LaunchInit
  BY DEF Init
<1>2. [Next]_vars => [LaunchNext]_launchVars
  BY LaunchStep
<1> QED
  BY <1>1, <1>2, PTL DEF Spec, LaunchSpec

(* In every reachable state the file is valid or unreadable, every runtime  *)
(* has its own key and every ready resident its own hot key, and every      *)
(* window's fields make a configuration.                                    *)
THEOREM InvariantCorrect == Spec => []SyncInv
<1>1. SyncInv /\ [Next]_vars => SyncInv'
  <2> SUFFICES ASSUME SyncInv, [Next]_vars PROVE SyncInv'
    OBVIOUS
  <2>1. LaunchInv'
    BY LaunchStep, LaunchNext_Inv DEF SyncInv
  <2> QED
    BY <2>1, FilesStep, RuntimesStep, WindowsStep DEF SyncInv
<1> QED
  BY InitHasInv, <1>1, PTL DEF Spec

(* The variables hold what the code's types allow. *)
THEOREM TypeCorrect == Spec => []TypeOK
<1>1. SyncInv => TypeOK
  <2> SUFFICES ASSUME SyncInv PROVE TypeOK
    OBVIOUS
  <2>1. runtime \in [Residents -> Runtime]
    BY DEF SyncInv, RuntimesFit
  <2>2. LaunchTypeOK
    BY DEF SyncInv, LaunchInv
  <2>3. ASSUME NEW m \in Managers
        PROVE  /\ window[m].config \in Config /\ window[m].view \in Views
               /\ window[m].index \in DOMAIN window[m].config.profiles
               /\ window[m].notice \in {"None", "Config", "Key"}
               /\ window[m].edited \subseteq Views
    BY DEF SyncInv, WindowsFit, Fits, Window
  <2> QED
    BY <2>1, <2>2, <2>3 DEF TypeOK, SyncInv, FilesFit, Runtime
<1> QED
  BY InvariantCorrect, <1>1, PTL

(* However many residents are started by hand or by managers, one at most   *)
(* gets past ResidentInstance::acquire at a time.                           *)
THEOREM OneResidentCorrect == Spec => []OneResident
  BY LaunchImplemented, LaunchInvHolds, LaunchInv_Properties, PTL

(* No manager asks for the mutex while another one waits for its child,     *)
(* whichever of them times out or dies (LaunchLock).                        *)
THEOREM ChildSurvivesQuestionsCorrect == Spec => []ChildSurvivesQuestions
  BY LaunchImplemented, LaunchInvHolds, LaunchInv_Properties, PTL

(* Whatever managers type, draft, rename, discard and save, the fields      *)
(* nobody edited are those of what a save would write them over             *)
(* (discard_draft, switch_view, save_prompt, save_settings).                *)
THEOREM PagesAreCurrentCorrect == Spec => []PagesAreCurrent
<1>1. SyncInv => PagesAreCurrent
  BY DEF SyncInv, WindowsFit, PromptCurrent, SettingsCurrent, PagesAreCurrent
<1> QED
  BY InvariantCorrect, <1>1, PTL

(* A ready resident has no key of another target, and without a conflict on *)
(* record the configured combination, whatever queue of changes it applied  *)
(* and whatever Windows refused meanwhile (apply_config, reregister).       *)
THEOREM RuntimeIsOfOnePieceCorrect == Spec => []RuntimeIsOfOnePiece
<1>1. SyncInv => RuntimeIsOfOnePiece
  BY DEF SyncInv, RuntimesFit, OwnKey, OwnHotkey, RuntimeIsOfOnePiece
<1> QED
  BY InvariantCorrect, <1>1, PTL

=============================================================================
