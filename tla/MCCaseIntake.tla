---------------------------- MODULE MCCaseIntake ----------------------------
(* Two tabs edit the syllabus while one case is asked for, generated, and its
   notebook regenerated twice. *)
EXTENDS CaseIntake, TLC

CONSTANTS t1, t2, m1, m2, c1, g1, g2

Symmetry == Permutations({t1, t2}) \cup Permutations({m1, m2})
                \cup Permutations({g1, g2})

=============================================================================
