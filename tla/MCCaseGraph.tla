---------------------------- MODULE MCCaseGraph -----------------------------
(* The case graph for TLC: every form, one resume, a bounded number of bad   *)
(* outputs.                                                                  *)
EXTENDS CaseGraph
=============================================================================
