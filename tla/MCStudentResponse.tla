-------------------------- MODULE MCStudentResponse --------------------------
(* Two tabs of one student on one case. *)
EXTENDS StudentResponse

CONSTANTS c1, c2

TwoTabs == {c1, c2}

=============================================================================
