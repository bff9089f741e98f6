------------------------ MODULE MCExtractionMailbox ------------------------
(* Three attempts: one that runs, one that waits and one that replaces it.  *)
EXTENDS ExtractionMailbox
=============================================================================
