--------------------------- MODULE MCModelSource ---------------------------
(***************************************************************************)
(* A repository with one weights file and three variants, two of which     *)
(* contain the tag "q4"; or one without weights.                           *)
(***************************************************************************)
EXTENDS ModelSource, TLC

CONSTANTS config, weights, q4_0, q4_k, q8_0, p1, p2

Symm == Permutations({p1, p2})
MCContains == [t \in Tag |-> IF t = "q4" THEN {q4_0, q4_k} ELSE IF t = "q4_0" THEN {q4_0} ELSE {}]
MCListings == {{config, weights, q4_0, q4_k, q8_0}, {config, q4_0}}
=============================================================================
