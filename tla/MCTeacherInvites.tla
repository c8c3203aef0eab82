------------------------- MODULE MCTeacherInvites -------------------------
(* Small instances of TeacherInvites. *)
EXTENDS TeacherInvites, TLC

Symmetry == Permutations(Requests)
=============================================================================
