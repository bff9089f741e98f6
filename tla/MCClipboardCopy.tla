-------------------------- MODULE MCClipboardCopy --------------------------
(* Two extractions, the second of which meets what the first left behind,   *)
(* and two writes by other programs: answers to Copy, late or not, and the   *)
(* user's own, in any order, starting right at the wrap of the number.      *)
EXTENDS ClipboardCopy
=============================================================================
