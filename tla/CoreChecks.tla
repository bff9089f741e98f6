----------------------------- MODULE CoreChecks -----------------------------
(***************************************************************************)
(* The functions of TextRules, RequestGate, ResultCache and ResponseFormat *)
(* against reference definitions, for every input up to a length.  TLC     *)
(* evaluates the assumptions before the run of MCCoordinator.              *)
(***************************************************************************)
EXTENDS RequestGate, ResultCache, ResponseFormat

TextsOf(alphabet, n) == UNION {[1..k -> alphabet] : k \in 0..n}

-----------------------------------------------------------------------------
(* TextRules *)

HoverInputs == TextsOf({"Lower", "Link", "Dot", "Plus", "Hash", "Sharp", "Space"}, 4)
               \cup TextsOf(Characters, 3)
Contexts == TextsOf({"Lower", "Upper", "Abbr", "Dot", "Stop", "Space", "Quote"}, 4)

LettersOf(text) == SelectSeq(text, LAMBDA c : c \in Letters)

(* A Hover target is a piece of what was found, with all its letters and   *)
(* no space; cleaning it again, as the gate does, changes nothing.         *)
ASSUME HoverTargetIsAWord ==
    \A raw \in HoverInputs :
        LET target == HoverTarget(raw)
        IN  target # None =>
                /\ Occurrences(Normalize(raw), target) # {}
                /\ LettersOf(target) = LettersOf(raw) /\ target[1] \in Letters
                /\ ToSet(target) \cap Spaces = {}
                /\ HoverTarget(target) = target

(* Sentences divide a text: two words are in one sentence exactly when no  *)
(* boundary lies between them, seen from either.                           *)
ASSUME SentencesPartition ==
    \A text \in Contexts :
        LET words == {i \in DOMAIN text : text[i] \in Letters}
        IN  \A p, q \in words : p <= q =>
                LET apart == \E i \in p..q : IsBoundary(text, i)
                IN  /\ SentenceStart(text, p) <= p
                    /\ (SentenceEnd(text, p) >= q) <=> ~apart
                    /\ (SentenceStart(text, p) = SentenceStart(text, q)) <=> ~apart

HoverWords == {word \in TextsOf({"Lower", "Upper", "Link", "Dot"}, 3) :
                  word # None /\ HoverTarget(word) = word}

DottedCapital(word) ==
    \E i \in DOMAIN word : i > 1 /\ word[i - 1] = "Dot" /\ word[i] # "Lower"

(* The sentence around a Hover word is kept when the gate cuts it again,   *)
(* unless a dot before a capital or a digit stands inside the word: that   *)
(* dot ends the sentence, which then does not hold the word, and the gate  *)
(* finds no sentence (System.Console, 3.14).                               *)
ASSUME SentenceKeepsItsWord ==
    \A word \in HoverWords, context \in Contexts :
        LET sentence == HoverContext(word, context)
        IN  sentence # None =>
                IF DottedCapital(word) THEN Occurrences(sentence, word) = {}
                ELSE HoverContext(word, sentence) = sentence

-----------------------------------------------------------------------------
(* RequestGate *)

Templates == TextsOf({"{", "}", "target", "context", "words"}, 4)
Hostile == <<"{", "context", "}">>

(* A template is accepted exactly when it is made of words and             *)
(* placeholders, and rendering it copies values without reading them.      *)
WellFormed(template) ==
    \A i \in DOMAIN template :
        /\ template[i] = "{" => IsPlaceholder(template, i + 1)
        /\ template[i] = "}" => IsPlaceholder(template, i - 1)

Rendered(template, values) ==
    FlattenSeq([i \in DOMAIN template |->
        IF template[i] \in {"{", "}"} THEN <<>>
        ELSE IF IsPlaceholder(template, i) THEN values[template[i]]
        ELSE <<template[i]>>])

ASSUME TemplatesRender ==
    \A template \in Templates :
        LET values == [target |-> Hostile, context |-> None, source |-> <<"Ocr">>]
        IN  /\ TemplateError(template, FALSE) = "None" <=> WellFormed(template)
            /\ WellFormed(template) =>
                   RenderTemplate(template, values) = Rendered(template, values)

GoodProfile == [id |-> "a", named |-> TRUE, system |-> <<>>, user |-> <<"{", "target", "}">>,
                model |-> NoModel, inference |-> TRUE]
Profiles == {GoodProfile, [GoodProfile EXCEPT !.id = "b"], [GoodProfile EXCEPT !.id = Untidy],
             [GoodProfile EXCEPT !.user = <<"words">>], [GoodProfile EXCEPT !.model = Untidy]}
Addresses == TextsOf({"localhost", "host", ":", "/", "@"}, 3)
Provider(scheme, address) == [scheme |-> scheme, address |-> address, model |-> "m"]

Inputs == [id : {1}, trigger : {"Hover", "Manual"}, profile : {Blank, "a", "b", Untidy},
           text : [target : {None, <<"Space">>, <<"Lower", "Stop">>, <<"Lower", "Link", "Lower">>},
                   context : {None, <<"Lower", "Stop">>}, source : {"Ocr"}]]

(* What was admitted is asked for: the prompt has the text, which is in    *)
(* its context if there is one, and goes to a model that has a name.       *)
ASSUME AdmittedIsAskedFor ==
    \A input \in Inputs, active \in {1, 2}, cancelled \in BOOLEAN,
       profiles \in Profiles \X Profiles,
       provider \in {NoProvider, Provider("https", <<"host">>), Provider("http", <<"host">>)} :
        LET request == Prepare(input, active, cancelled, profiles, provider).request
        IN  request # NoRequest =>
                /\ request.target # None /\ Occurrences(request.prompt.user, request.target) # {}
                /\ request.context # None => Occurrences(request.context, request.target) # {}
                /\ request.model \notin {Blank, Untidy, NoModel}

(* Plain HTTP is for this machine: a name, and a port when anything        *)
(* follows it.                                                             *)
ASSUME PlainHttpStaysLocal ==
    \A address \in {address \in Addresses : ~Contains(address, "@")} :
        IsValidProvider(Provider("http", address))
        <=> address # <<>> /\ address[1] = "localhost"
            /\ (Len(address) = 1 \/ address[2] = ":")

-----------------------------------------------------------------------------
(* ResultCache *)

Keys == {"k1", "k2", "k3"}

(* Answers inserted one per tick. *)
Filled(keys) == FoldLeftDomain(LAMBDA cache, i : Insert(cache, keys[i], i, i), <<>>, keys)

(* What remains: of each key its last answer, as long as fewer than        *)
(* Capacity other keys came after it and it is not too old.                *)
Remaining(keys, key, now) ==
    {i \in DOMAIN keys :
        /\ keys[i] = key /\ now - i <= MaxAge
        /\ key \notin {keys[j] : j \in i + 1..Len(keys)}
        /\ Cardinality({keys[j] : j \in i + 1..Len(keys)}) < Capacity}

ASSUME CacheKeepsTheLatest ==
    \A keys \in TextsOf(Keys, 5), key \in Keys :
        \A now \in Len(keys)..Len(keys) + MaxAge + 1 :
            Lookup(Filled(keys), key, now).output = Remaining(keys, key, now)

-----------------------------------------------------------------------------
(* ResponseFormat *)

Words == [kind |-> "Text", words |-> "words"]
Lines == {Empty, Words, Heading(1), Heading(3), Field(1, Words), Field(2, Empty)}

Contents(response) ==
    SelectSeq(response, LAMBDA line : line.kind = "Text" /\ line # NoneLine)

(* The four headings stand once and in order, no text is lost, and         *)
(* formatting what is formatted changes nothing.                           *)
ASSUME ResponsesAreFormatted ==
    \A response \in TextsOf(Lines, 5) \ {<<>>} :
        LET formatted == NormalizeTerminalResponse("linguist-analysis", response)
            values == SelectSeq(response, LAMBDA line : line = Field(1, Words))
        IN  /\ SelectSeq(formatted, LAMBDA line : line.kind \in {"Heading", "Field"})
                  = [section \in Sections |-> Heading(section)]
            /\ Len(Contents(formatted)) = Len(Contents(response)) + Len(values)
            /\ NormalizeTerminalResponse("linguist-analysis", formatted) = formatted
=============================================================================
