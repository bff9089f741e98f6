---------------------------- MODULE ManagerForms ----------------------------
(***************************************************************************)
(* The manager's Settings and Prompts pages as functions from one          *)
(* ManagerState to the next, so that ConfigSync can put the file, the      *)
(* notification and the resident around them.                              *)
(*                                                                         *)
(* A configuration is reduced to what the pages and the resident tell      *)
(* apart.  A profile is its id, a number: profile n is "custom-n", which   *)
(* is how new_prompt names a draft.  default stands for both triggers'     *)
(* defaults, target for the whole provider section.                        *)
(***************************************************************************)
EXTENDS Integers, Sequences, SequencesExt

CONSTANTS MaxProfiles,  \* bound of the number of profiles
          Targets,      \* credential targets and what belongs to them
          Hotkeys       \* combinations that parse

Ids == 1..(MaxProfiles + 1)
Blank == 0
NoDraft == 0
NoTarget == ""
Unparsable == "Unparsable"
Languages == {"English", "SimplifiedChinese"}
Views == {"Settings", "Prompts", "History"}

Config == [profiles : UNION {[1..n -> Ids] : n \in 1..MaxProfiles}, default : Ids,
           target : Targets, hotkey : Hotkeys \cup {Unparsable}, ui : Languages]

(* AppConfig::validate, PromptConfig::validation_error *)
Validate(config) ==
    /\ config.profiles # <<>> /\ Blank \notin ToSet(config.profiles)
    /\ IsInjective(config.profiles)
    /\ config.default \in ToSet(config.profiles)
    /\ config.target # NoTarget

-----------------------------------------------------------------------------
(* The window: the last saved configuration, the draft, and what the text  *)
(* fields and the selector of the default profile show.  edited has the    *)
(* pages with a field the user changed after it was filled; it is only     *)
(* remembered for the properties.                                          *)

(* refresh_settings_form, populate_profile_selectors *)
ShowSettings(window) ==
    [window EXCEPT !.target = window.config.target, !.chosen = window.config.default,
                   !.edited = @ \ {"Settings"}]

(* The profile a save of the Prompts page replaces or adds. *)
Selected(window) ==
    IF window.draft # NoDraft THEN window.draft ELSE window.config.profiles[window.index]

(* refresh_prompt_form *)
ShowPrompt(window) ==
    [window EXCEPT !.id = Selected(window), !.default = window.config.default,
                   !.edited = @ \ {"Prompts"}]

(* run, initialize_controls *)
NewWindow(config) ==
    ShowPrompt(ShowSettings([view |-> "Settings", config |-> config, draft |-> NoDraft,
                             index |-> 1, target |-> NoTarget, chosen |-> Blank, id |-> Blank,
                             default |-> Blank, edited |-> {}, notice |-> "None"]))

(* Mutant of DiscardDraft: the draft goes, its text stays in the fields. *)
DiscardDraftOnly(window) == [window EXCEPT !.draft = NoDraft]

DiscardDraft(window) ==
    IF window.draft = NoDraft THEN window
    ELSE ShowPrompt([window EXCEPT !.draft = NoDraft])

SwitchView(window, view) ==
    LET left == IF window.view = "Prompts" /\ view # "Prompts"
                THEN DiscardDraft(window) ELSE window
        shown == [left EXCEPT !.view = view]
    IN  IF view = "Settings" THEN ShowSettings(shown) ELSE shown

NewPrompt(window) ==
    ShowPrompt([window EXCEPT !.draft = Len(window.config.profiles) + 1])

PreviousPrompt(window) ==
    LET kept == DiscardDraft(window)
    IN  ShowPrompt([kept EXCEPT !.index = IF @ = 1 THEN 1 ELSE @ - 1])

NextPrompt(window) ==
    LET kept == DiscardDraft(window)
    IN  ShowPrompt([kept EXCEPT !.index = (@ % Len(kept.config.profiles)) + 1])

-----------------------------------------------------------------------------
(* What a save writes, and the window after it. *)

(* save_manager_language: the fields of the pages are not read. *)
LanguageSaved(window) ==
    [window.config EXCEPT !.ui = CHOOSE language \in Languages : language # @]

(* save_settings *)
SettingsSaved(window) ==
    [window.config EXCEPT !.target = window.target, !.default = window.chosen]

AfterSettings(window) ==
    ShowSettings([DiscardDraft(window) EXCEPT !.config = SettingsSaved(window),
                                              !.notice = "Config"])

(* save_prompt: apply_prompt's renaming of the default is overwritten by   *)
(* the page's own field.                                                   *)
PromptSaved(window) ==
    [window.config EXCEPT
        !.profiles = IF window.draft # NoDraft THEN Append(@, window.id)
                     ELSE [@ EXCEPT ![window.index] = window.id],
        !.default = window.default]

AfterPrompt(window) ==
    LET saved == PromptSaved(window)
    IN  ShowPrompt([window EXCEPT
            !.config = saved, !.draft = NoDraft, !.notice = "Config",
            !.index = IF window.draft # NoDraft THEN Len(saved.profiles) ELSE @])
=============================================================================
