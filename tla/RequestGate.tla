---------------------------- MODULE RequestGate ----------------------------
(***************************************************************************)
(* Admission: what turns an extracted text and a profile into a request    *)
(* that may be sent (request_gate.rs, prompt.rs).  The operators are       *)
(* functions; ResidentShell asks only whether a text is admitted.          *)
(*                                                                         *)
(* A template is a sequence of braces, names and ordinary text.  A         *)
(* rendered prompt is the sequence of what was put in for the pieces.      *)
(***************************************************************************)
EXTENDS TextRules

CONSTANT MaxTarget      \* MAX_TARGET_SCALARS

Blank == ""
Untidy == " x"          \* not what normalize_text makes of it

Placeholders == {"target", "context", "source"}
Pieces == Placeholders \cup {"{", "}", "words"}
Contract == "contract"  \* MARKDOWN_RESPONSE_CONTRACT
NoModel == "inherit"    \* a profile without a model of its own

-----------------------------------------------------------------------------
(* prompt.rs *)

IsPlaceholder(template, i) ==
    /\ i > 1 /\ i < Len(template) /\ template[i] \in Placeholders
    /\ template[i - 1] = "{" /\ template[i + 1] = "}"

(* A brace that is not that of a placeholder.  The scan stops at the first *)
(* one, so what comes before it is well formed.                            *)
Stray(template, i) ==
    \/ template[i] = "{" /\ ~IsPlaceholder(template, i + 1)
    \/ template[i] = "}" /\ ~IsPlaceholder(template, i - 1)

(* validate_template *)
TemplateError(template, needsTarget) ==
    LET stray == {i \in DOMAIN template : Stray(template, i)}
        first == Min(stray)
        closed == \E j \in first..Len(template) : template[j] = "}"
        asks == \E i \in DOMAIN template :
                   IsPlaceholder(template, i) /\ template[i] = "target"
    IN  CASE template = <<>> -> IF needsTarget THEN "EmptyTemplate" ELSE "None"
          [] template # <<>> /\ stray # {} ->
                IF template[first] = "{" /\ closed THEN "UnknownPlaceholder"
                ELSE "MalformedPlaceholder"
          [] template # <<>> /\ stray = {} ->
                IF needsTarget /\ ~asks THEN "MissingTargetPlaceholder" ELSE "None"

(* validation_error; inference stands for temperature and token limit. *)
ProfileError(profile) ==
    IF profile.id = Untidy THEN "InvalidId"
    ELSE IF profile.id = Blank THEN "EmptyId"
    ELSE IF ~profile.named THEN "EmptyName"
    ELSE IF TemplateError(profile.system, FALSE) # "None" THEN TemplateError(profile.system, FALSE)
    ELSE IF TemplateError(profile.user, TRUE) # "None" THEN TemplateError(profile.user, TRUE)
    ELSE IF profile.model \in {Blank, Untidy} THEN "InvalidModel"
    ELSE IF ~profile.inference THEN "InvalidInference"
    ELSE "None"

IsValidProfile(profile) == ProfileError(profile) = "None"

(* render_template: from brace to brace; what is put in is not scanned. *)
RenderTemplate(template, values) ==
    LET from[i \in 1..Len(template) + 1] ==
            CASE i > Len(template) -> <<>>
              [] i <= Len(template) /\ template[i] = "{" ->
                    values[template[i + 1]] \o from[i + 3]
              [] i <= Len(template) /\ template[i] # "{" ->
                    <<template[i]>> \o from[i + 1]
    IN  from[1]

(* PromptConfig::render, and the contract prepare_request appends. *)
Render(profile, target, context, source) ==
    LET values == [target |-> target, context |-> context, source |-> <<source>>]
    IN  [system |-> Append(RenderTemplate(profile.system, values), Contract),
         user |-> RenderTemplate(profile.user, values)]

-----------------------------------------------------------------------------
(* ProviderConfig *)

UpTo(text, ends) ==
    LET cut == {i \in DOMAIN text : text[i] \in ends}
    IN  IF cut = {} THEN text ELSE SubSeq(text, 1, Min(cut) - 1)

(* is_loopback_authority gets authority and path together; localhost     *)
(* stands for the three loopback names, / for what ends an authority.      *)
IsLoopback(address) ==
    LET at == {i \in DOMAIN address : address[i] = "@"}
    IN  UpTo(SubSeq(address, Max(at \cup {0}) + 1, Len(address)), {":"}) = <<"localhost">>

(* is_valid *)
IsValidProvider(provider) ==
    /\ provider.model \notin {Blank, Untidy}
    /\ \/ provider.scheme = "https"
       \/ provider.scheme = "http" /\ IsLoopback(provider.address)
    /\ UpTo(provider.address, {"/"}) # <<>>

-----------------------------------------------------------------------------
(* prepare_request *)

NoProvider == [scheme |-> "none"]

(* A request's text, from what was extracted. *)
TargetOf(input) ==
    IF input.trigger = "Hover" THEN HoverTarget(input.text.target)
    ELSE Normalize(input.text.target)

ContextOf(input) ==
    IF input.trigger = "Hover" THEN HoverText(input.text).context
    ELSE Sentence(Normalize(input.text.context), TargetOf(input))

Matching(profiles, id) == {i \in DOMAIN profiles : profiles[i].id = id}

(* with_optional_provider and prepare look for a second profile of that id *)
(* in two places; both answer InvalidPrompt, the first before all else.    *)
Ambiguous(profiles, id) == \E i, j \in Matching(profiles, id) : i # j

Profile(profiles, id) == profiles[CHOOSE i \in Matching(profiles, id) : TRUE]

(* RequestRejection, in the order of the checks. *)
Rejection(input, active, cancelled, profiles, provider) ==
    IF Ambiguous(profiles, input.profile) THEN "InvalidPrompt"
    ELSE IF cancelled THEN "Cancelled"
    ELSE IF input.id # active THEN "StaleJob"
    ELSE IF TargetOf(input) = None THEN "MissingTarget"
    ELSE IF Len(TargetOf(input)) > MaxTarget THEN "TargetTooLong"
    ELSE IF input.profile = Blank THEN "MissingPrompt"
    ELSE IF Matching(profiles, input.profile) = {} THEN "MissingPrompt"
    ELSE IF ~IsValidProfile(Profile(profiles, input.profile)) THEN "InvalidPrompt"
    ELSE IF provider = NoProvider THEN "MissingProviderConfig"
    ELSE IF ~IsValidProvider(provider) THEN "InvalidProviderConfig"
    ELSE IF input.trigger = "Hover" /\ ContextOf(input) = None THEN "MissingTarget"
    ELSE "Accepted"

PreparedRequest(input, profile, provider) ==
    [id |-> input.id, target |-> TargetOf(input), context |-> ContextOf(input),
     profile |-> profile.id, inference |-> profile.inference,
     model |-> IF profile.model = NoModel THEN provider.model ELSE profile.model,
     prompt |-> Render(profile, TargetOf(input), ContextOf(input), input.text.source)]

NoRequest == [id |-> "None"]

Prepare(input, active, cancelled, profiles, provider) ==
    LET rejection == Rejection(input, active, cancelled, profiles, provider)
    IN  [rejection |-> rejection,
         request |-> IF rejection = "Accepted"
                     THEN PreparedRequest(input, Profile(profiles, input.profile), provider)
                     ELSE NoRequest]

(* bind_job_id *)
BindJobId(request, id) == [request EXCEPT !.id = id]
=============================================================================
