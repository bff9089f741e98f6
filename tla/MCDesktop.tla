------------------------------ MODULE MCDesktop ------------------------------
(* Two spots of one word, one on the popup's output; an output of three    *)
(* characters with a marker of one; at most one profile button beside the  *)
(* More button.                                                            *)
EXTENDS Desktop

CONSTANTS word, letter, output

MCSpots == {word, letter, output}
MCNear == {{word, letter}}
MCDeltas == {2}
=============================================================================
