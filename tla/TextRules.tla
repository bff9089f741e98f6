----------------------------- MODULE TextRules -----------------------------
(***************************************************************************)
(* What normalize.rs and sentence.rs make of the text an extractor found:  *)
(* the word of a Hover, and the sentence around a target.                  *)
(*                                                                         *)
(* A text is a sequence of characters, and a character stands for those    *)
(* the rules do not tell apart: Upper for a capital, a digit or a letter   *)
(* outside ASCII, Abbr for a word that is an abbreviation with a dot after *)
(* it, Sharp for C and F, Link for a connector other than dot and          *)
(* apostrophe (:: and -> count as one), Break for white space that is a    *)
(* control character.  None is the empty sequence.                         *)
(***************************************************************************)
EXTENDS Naturals, Sequences, SequencesExt, FiniteSetsExt

Letters == {"Lower", "Upper", "Abbr", "Sharp"}
Connectors == {"Link", "Dot", "Apostrophe"}
Spaces == {"Space", "Break"}
Closing == {"Quote", "Apostrophe"}
Characters == Letters \cup Connectors \cup Spaces \cup Closing
              \cup {"Mark", "Plus", "Hash", "Stop", "Invisible", "Other"}

None == <<>>

-----------------------------------------------------------------------------
(* normalize.rs *)

Trim(text) ==
    LET solid == {i \in DOMAIN text : text[i] \notin Spaces}
    IN  IF solid = {} THEN None ELSE SubSeq(text, Min(solid), Max(solid))

(* normalize_text, normalize_optional *)
Normalize(text) == Trim(SelectSeq(text, LAMBDA c : c # "Invisible"))

(* consume_word_segment: a letter, and the letters and marks after it. *)
SegmentEnd(text, start) ==
    Max({end \in start..Len(text) :
            \A i \in start + 1..end : text[i] \in Letters \cup {"Mark"}})

(* The loop of sanitize_hover_target: a connector goes on with the token   *)
(* when a letter follows it.                                               *)
TokenEnd(text, start) ==
    LET from[i \in start..Len(text)] ==
            LET end == SegmentEnd(text, i)
            IN  IF end + 2 <= Len(text) /\ text[end + 1] \in Connectors
                   /\ text[end + 2] \in Letters
                THEN from[end + 2] ELSE end
    IN  from[start]

(* ++, and # after a lone C or F. *)
Suffix(text, start, end) ==
    LET after == SubSeq(text, end + 1, Len(text))
        last(n) == \A i \in n + 1..Len(after) : after[i] \notin Letters
    IN  CASE IsPrefix(<<"Plus", "Plus">>, after) -> IF last(2) THEN 2 ELSE 0
          [] IsPrefix(<<"Hash">>, after) /\ SubSeq(text, start, end) = <<"Sharp">> ->
                IF last(1) THEN 1 ELSE 0
          [] OTHER -> 0

(* sanitize_hover_target *)
HoverTarget(raw) ==
    LET text == Normalize(raw)
        words == {i \in DOMAIN text : text[i] \in Letters}
        start == Min(words)
        token == TokenEnd(text, start)
        end == token + Suffix(text, start, token)
    IN  IF words = {} \/ Contains(text, "Break") \/ \E i \in words : i > end
        THEN None ELSE SubSeq(text, start, end)

-----------------------------------------------------------------------------
(* sentence.rs *)

(* is_abbreviation; token is compared in lower case, so that capitals with *)
(* dots pass only as listed abbreviations.                                 *)
IsAbbreviation(text, dot) ==
    LET before == {i \in 1..dot : text[i] \in Spaces \cup Closing}
        token == SubSeq(text, Max(before \cup {0}) + 1, dot)
    IN  \/ token = <<"Abbr", "Dot">> \/ ToSet(token) = {"Dot"}
        \/ dot < Len(text) /\ text[dot + 1] = "Lower"

IsBoundary(text, i) == text[i] = "Stop" \/ (text[i] = "Dot" /\ ~IsAbbreviation(text, i))

(* The first position from i on that holds none of chars. *)
SkipFrom(text, i, chars) ==
    Min({j \in i..Len(text) + 1 : j = Len(text) + 1 \/ text[j] \notin chars})

(* sentence_bounds; positions count from one, the last is included. *)
SentenceStart(text, at) ==
    LET ends == {i \in 1..at - 1 : IsBoundary(text, i)}
    IN  IF ends = {} THEN 1 ELSE SkipFrom(text, Max(ends) + 1, Closing \cup Spaces)

SentenceEnd(text, at) ==
    LET ends == {i \in at..Len(text) : IsBoundary(text, i)}
    IN  IF ends = {} THEN Len(text) ELSE SkipFrom(text, Min(ends) + 1, Closing) - 1

(* sentence_for_target_at *)
SentenceAt(context, target, at) ==
    LET needle == Trim(target)
        candidate == SubSeq(context, at, at + Len(needle) - 1)
    IN  IF needle = None \/ at + Len(needle) - 1 > Len(context)
           \/ Normalize(candidate) # Normalize(needle)
        THEN None
        ELSE Trim(SubSeq(context, SentenceStart(context, at), SentenceEnd(context, at)))

Occurrences(context, needle) ==
    {i \in 1..Len(context) + 1 - Len(needle) : SubSeq(context, i, i + Len(needle) - 1) = needle}

SameCase(text) == [i \in DOMAIN text |-> IF text[i] = "Upper" THEN "Lower" ELSE text[i]]

(* find_target: as it is, or, for ASCII, in another case. *)
FindTarget(context, target) ==
    LET needle == Trim(target)
        exact == Occurrences(context, needle)
        folded == IF Contains(needle, "Mark") THEN {}
                  ELSE Occurrences(SameCase(context), SameCase(needle))
    IN  IF exact # {} THEN exact ELSE folded

(* sentence_for_target *)
Sentence(context, target) ==
    LET found == FindTarget(context, target)
    IN  IF Trim(target) = None \/ found = {} THEN None
        ELSE SentenceAt(context, target, Min(found))

(* sanitize_hover_text_context: the sentence of the first occurrence of    *)
(* the cleaned target.                                                     *)
HoverContext(target, context) ==
    LET clean == Normalize(context)
        found == Occurrences(clean, target)
    IN  IF target = None \/ found = {} THEN None ELSE SentenceAt(clean, target, Min(found))

HoverText(text) ==
    LET target == HoverTarget(text.target)
    IN  [target |-> target, context |-> HoverContext(target, text.context)]
=============================================================================
