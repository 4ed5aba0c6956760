----------------------------- MODULE MCEvidence -----------------------------
(***************************************************************************)
(* Version v1 comes out as a1 or a2, so that builds may fail to repeat;    *)
(* v2 is a version that does not build yet.                                *)
(***************************************************************************)
EXTENDS Evidence, TLC

CONSTANTS p1, v1, v2, a1, a2

MCBuilds == [v \in Versions |-> IF v = v1 THEN {a1, a2} ELSE {}]
MCProcesses == {Script, Person}
MCChecks == {"reproducible_build", "pristine_source", "apt_install", "chrome"}
=============================================================================
