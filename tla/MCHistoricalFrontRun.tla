----------------------- MODULE MCHistoricalFrontRun -----------------------
(***************************************************************************)
(* Two pubkeys, two blocks of two log indexes each: every ordering of a    *)
(* foreign deposit before, between and after Lido deposits of a key.       *)
(***************************************************************************)
EXTENDS HistoricalFrontRun, TLC

CONSTANTS k1, k2

MCPubkeys == {k1, k2}

Symmetry == Permutations(MCPubkeys)

====
