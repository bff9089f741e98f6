--------------------------- MODULE MCCoordinator ---------------------------
(* Three ids, so that the id counter wraps with handles held; two texts, one *)
(* of which normalizes to nothing; a clock that passes the TTL boundary.    *)
EXTENDS Coordinator, CoreChecks

CONSTANTS word, blank

MCPrints == {word, blank}
MCEmpty == {blank}
=============================================================================
