--------------------------- MODULE ResponseFormat ---------------------------
(***************************************************************************)
(* normalize_terminal_response: a finished answer of the built-in linguist *)
(* profile gets its four headings, each once and in order, before it is    *)
(* shown, cached and recorded.                                             *)
(*                                                                         *)
(* A response is the sequence of its lines.  A line is Empty, other text,  *)
(* a heading of a section, or a field: a section's name with text after a  *)
(* colon.  A final line break is an Empty last line.                       *)
(***************************************************************************)
EXTENDS Naturals, Sequences, SequencesExt

Sections == 1..4        \* HEADINGS
Empty == [kind |-> "Empty"]
NoneLine == [kind |-> "Text", words |-> "None"]

Heading(section) == [kind |-> "Heading", section |-> section]
Field(section, value) == [kind |-> "Field", section |-> section, value |-> value]

EndsWithBreak(response) == Len(response) > 1 /\ Last(response) = Empty

(* The loop over the lines.  Section 0 is the preamble; classify_heading   *)
(* leaves a field's value to its section.                                  *)
NoSections == [current |-> 0, body |-> [section \in {0} \cup Sections |-> <<>>]]

TakeLine(sorted, line) ==
    CASE line.kind = "Heading" -> [sorted EXCEPT !.current = line.section]
      [] line.kind = "Field" -> [sorted EXCEPT !.current = line.section,
                                               !.body[line.section] = Append(@, line.value)]
      [] line.kind \in {"Text", "Empty"} -> [sorted EXCEPT !.body[sorted.current] = Append(@, line)]

Sorted(response) ==
    FoldLeft(TakeLine, NoSections,
             IF EndsWithBreak(response) THEN Front(response) ELSE response)

(* The preamble opens the first section; a section with nothing in it says *)
(* so.                                                                     *)
Body(sorted, section) ==
    LET lines == IF section = 1 THEN sorted.body[0] \o sorted.body[1] ELSE sorted.body[section]
    IN  IF ToSet(lines) \subseteq {Empty} THEN <<NoneLine>> ELSE lines

NormalizeTerminalResponse(profile, response) ==
    LET sorted == Sorted(response)
        lines == FlattenSeq([section \in Sections |-> <<Heading(section)>> \o Body(sorted, section)])
    IN  IF profile # "linguist-analysis" THEN response
        ELSE IF EndsWithBreak(response) THEN Append(lines, Empty) ELSE lines
=============================================================================
