------------------------------ MODULE MCInputs ------------------------------
(***************************************************************************)
(* Two contents, two states of the compatibility sources and two targets:  *)
(* enough for an edit to be taken back, and for one target to be forgotten *)
(* while the other one is built.  Four attempts, as in the code.           *)
(***************************************************************************)
EXTENDS Inputs, TLC

(* Runs break off anywhere but between the first and the last file of an     *)
(* installation that is judged by a file already there.                      *)
MCBreakable == Steps \ {"copy", "settle"}
=============================================================================
