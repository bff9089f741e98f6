-------------------------- MODULE MCResidentShell --------------------------
(* Two visible popups; one good and one refused text; two configurations   *)
(* that differ in nothing but being different.                             *)
EXTENDS ResidentShell, TLC

CONSTANTS word, blank, first, second

MCTexts == {word, blank}
MCGood == {word}
MCRefused == {blank}
MCConfigs == {first, second}
MCSymmetry == Permutations(MCConfigs)

(* What the shell's own future depends on: flags of stopped work, answers  *)
(* to attempts nobody waits for and streams that were told to stop change  *)
(* nothing in it.  For runs whose properties speak of popups only.         *)
MCShellView ==
    <<[shell EXCEPT !.revoked = {}, !.coord.cancelled = {}],
      open \cap {shell.pending.attempt},
      Restrict(streams, DOMAIN streams \cap {shell.token}), JobIdIsFree>>
=============================================================================
