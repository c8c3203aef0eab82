--------------------------- MODULE MCAuthoringJob ---------------------------
(* Three deliveries of one job, interchangeable. *)
EXTENDS AuthoringJob, TLC

CONSTANTS d1, d2, d3

AllRuns == {d1, d2, d3}

Symmetry == Permutations(AllRuns)

=============================================================================
