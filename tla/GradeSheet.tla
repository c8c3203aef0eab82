----------------------------- MODULE GradeSheet -----------------------------
(***************************************************************************)
(* What the grading of one submission promises: one change of one question *)
(* at a time, and with it, in the same step, the case grade those question *)
(* grades make.                                                            *)
(*                                                                         *)
(*   rows       case_question_grades of the student and the assignment     *)
(*   caseGrade  the case_grades row of the two, NoCase when there is none  *)
(*   edition    how often the case has been written so far: which set of   *)
(*              questions is gradeable                                     *)
(***************************************************************************)
EXTENDS Naturals

CONSTANTS
    Questions,  \* question ids a card of some edition of the case may have
    Grades,     \* points awarded to a question, with their maximum
    NEditions,  \* the editions of the case a behaviour may contain
    Gradeable   \* the gradeable question ids of each edition

NoGrade == "ungraded"
NoCase == [status |-> "none"]

VARIABLES rows, caseGrade, edition

\* The case grade of the question grades: none without a grade, a score once
\* every gradeable question has one. The normalized score is a function of the
\* points it is computed from, and stands here for those points.
Rollup(questions, ids) ==
    LET kept == {q \in ids : questions[q] # NoGrade}
    IN  IF kept = {} THEN NoCase
        ELSE IF kept = ids
             THEN [status |-> "graded", score |-> [q \in ids |-> questions[q]]]
             ELSE [status |-> "submitted"]

Init ==
    /\ rows = [q \in Questions |-> NoGrade]
    /\ caseGrade = NoCase
    /\ edition = 1

\* A teacher grades a question or clears it, knowing some edition of the case.
Regrade ==
    \E q \in Questions, g \in Grades \cup {NoGrade}, e \in 1 .. edition :
        /\ rows' = [rows EXCEPT ![q] = g]
        /\ caseGrade' = Rollup(rows', Gradeable[e])
        /\ UNCHANGED edition

\* The generation of the case writes it again, with other questions.
Rewrite ==
    /\ edition < NEditions
    /\ edition' = edition + 1
    /\ UNCHANGED <<rows, caseGrade>>

Next == Regrade \/ Rewrite

Spec == Init /\ [][Next]_<<rows, caseGrade, edition>>

=============================================================================
