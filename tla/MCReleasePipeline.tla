-------------------------- MODULE MCReleasePipeline --------------------------
EXTENDS ReleasePipeline, TLC

CONSTANTS a1, a2, b1, v1, v2

(* Builds of v1 are not reproducible: they produce a1 or a2.                 *)
MCBuilt ==
    [v \in Versions |-> Artifacts \cap IF v = v1 THEN {a1, a2} ELSE {b1}]

Symmetry == Permutations(Packages)
=============================================================================
