---------------------------- MODULE MCCaseGrading ----------------------------
(* Requests on one submission: a case of two questions, written once or      *)
(* twice, the second time without one question and with a new one.           *)
EXTENDS CaseGrading, TLC

CONSTANTS t1, t2, t3

TwoRequests == {t1, t2}
ThreeRequests == {t1, t2, t3}

Symmetry == Permutations(ThreeRequests)

OneEdition == <<{"q1", "q2"}>>
TwoEditions == <<{"q1", "q2"}, {"q2", "q3"}>>

=============================================================================
