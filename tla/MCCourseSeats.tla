-------------------------- MODULE MCCourseSeats --------------------------
(* Small instances of CourseSeats. *)
EXTENDS CourseSeats, TLC

Symmetry == Permutations(Requests)
=============================================================================
