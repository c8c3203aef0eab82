----------------------------- MODULE CaseGrading -----------------------------
(***************************************************************************)
(* Manual grading of one student's submission of one case: the requests    *)
(* upsert_question_grade and clear_question_grade of                       *)
(* shared/teacher_grading.py, each a transaction of several statements at  *)
(* READ COMMITTED, interleaved statement by statement.                     *)
(*                                                                         *)
(* rows, caseGrade and edition are the committed database (see GradeSheet);    *)
(* submitted is student_case_responses.status = 'submitted'. Request t     *)
(* stands at pc[t] and keeps in txn[t] what it has read and written:       *)
(*   q, g       the question and its new grade, NoGrade to clear it        *)
(*   ids        all_ids, from the canonical output it loaded               *)
(*   changed    it has an uncommitted write of the row of q, and with it   *)
(*              that row's lock                                            *)
(*   locked     it holds the lock of the case_grades row                   *)
(*   wrote      it has an uncommitted write of that row, namely case       *)
(*                                                                         *)
(* A statement reads the committed database and the request's own writes.  *)
(* A statement that waits for a lock is an action that is not enabled.     *)
(***************************************************************************)
EXTENDS Naturals

CONSTANTS
    Questions,  \* question ids a card of some edition of the case may have
    Grades,     \* points awarded to a question, with their maximum
    NEditions,  \* the editions of the case a behaviour may contain
    Gradeable,  \* the gradeable question ids of each edition
    Requests,   \* the requests a behaviour may contain
    DbFaults    \* whether the database may fail a request in its transaction

NoGrade == "ungraded"
NoCase == [status |-> "none"]
SubmittedCase == [status |-> "submitted"]

ASSUME GradesAssumption == NoGrade \notin Grades \cup Questions
ASSUME EditionsAssumption ==
    /\ NEditions \in Nat \ {0}
    /\ Gradeable \in [1 .. NEditions -> SUBSET Questions]
ASSUME DbFaultsAssumption == DbFaults \in BOOLEAN

VARIABLES rows, caseGrade, edition, submitted, pc, txn

Sheet == INSTANCE GradeSheet

sheet == <<rows, caseGrade, edition>>
vars == <<sheet, submitted, pc, txn>>

InTransaction == {"write", "materialize", "lock", "recompute", "commit"}
Answered == {"ok", "rejected", "missing", "failed"}
Control == {"idle"} \cup InTransaction \cup Answered

Idle == [q |-> NoGrade, g |-> NoGrade, ids |-> {}, changed |-> FALSE,
         locked |-> FALSE, wrote |-> FALSE, case |-> NoCase]

Goto(t, l) == pc' = [pc EXCEPT ![t] = l]
\* The transaction is over: its locks are released, what it wrote is dropped.
End(t, l) == /\ Goto(t, l)
             /\ txn' = [txn EXCEPT ![t] = Idle]

Init ==
    /\ rows = [q \in Questions |-> NoGrade]
    /\ caseGrade = NoCase
    /\ edition = 1
    /\ submitted = FALSE
    /\ pc = [t \in Requests |-> "idle"]
    /\ txn = [t \in Requests |-> Idle]

-----------------------------------------------------------------------------
(* The case and the student *)

\* run_job, a preview or regenerate_notebook replaces canonical_output.
Rewrite ==
    /\ edition < NEditions
    /\ edition' = edition + 1
    /\ UNCHANGED <<rows, caseGrade, submitted, pc, txn>>

\* submit_student_case: there is no way back from submitted.
Submit ==
    /\ ~submitted
    /\ submitted' = TRUE
    /\ UNCHANGED <<sheet, pc, txn>>

-----------------------------------------------------------------------------
(* A request, statement by statement *)

\* _resolve_grading_target and the checks of the request's own values: the
\* submitted gate, the gradeable set, and for an upsert that q is in it.
\* Anything else a request may be refused for (ownership, topology, points
\* out of range) does not depend on this state.
Resolve(t) ==
    /\ pc[t] = "idle"
    /\ \E q \in Questions, g \in Grades \cup {NoGrade} :
          LET ids == Gradeable[edition]
          IN  \/ /\ submitted
                 /\ g = NoGrade \/ q \in ids
                 /\ Goto(t, "write")
                 /\ txn' = [txn EXCEPT ![t] =
                               [Idle EXCEPT !.q = q, !.g = g, !.ids = ids]]
              \/ End(t, "rejected")
    /\ UNCHANGED <<sheet, submitted>>

\* Another request holds the row of question q.
RowHeld(t, q) == \E u \in Requests \ {t} : txn[u].changed /\ txn[u].q = q

\* INSERT ... ON CONFLICT DO UPDATE waits for whoever writes that row; DELETE
\* waits for the holder of a row it sees, and passes by a row not committed.
WriteQuestion(t) ==
    LET q == txn[t].q
        deletesNothing == txn[t].g = NoGrade /\ rows[q] = NoGrade
    IN  /\ pc[t] = "write"
        /\ deletesNothing \/ ~RowHeld(t, q)
        /\ txn' = [txn EXCEPT ![t].changed = ~deletesNothing]
        /\ Goto(t, "materialize")
        /\ UNCHANGED <<sheet, submitted>>

\* INSERT ... ON CONFLICT DO NOTHING waits for whoever is writing the row (a
\* mere FOR UPDATE does not stop it), then inserts it or leaves it alone.
MaterializeCase(t) ==
    /\ pc[t] = "materialize"
    /\ \A u \in Requests \ {t} : ~txn[u].wrote
    /\ txn' = IF caseGrade # NoCase THEN txn
              ELSE [txn EXCEPT ![t].locked = TRUE, ![t].wrote = TRUE,
                               ![t].case = SubmittedCase]
    /\ Goto(t, "lock")
    /\ UNCHANGED <<sheet, submitted>>

\* Mutant: the row is read without FOR UPDATE.
LockCaseUnlocked(t) ==
    /\ pc[t] = "lock"
    /\ txn[t].wrote \/ caseGrade # NoCase
    /\ Goto(t, "recompute")
    /\ UNCHANGED <<sheet, submitted, txn>>

\* SELECT ... FOR UPDATE of the row it inserted or of the committed one.
LockCase(t) ==
    /\ pc[t] = "lock"
    /\ \/ txn[t].wrote
       \/ /\ caseGrade # NoCase
          /\ \A u \in Requests \ {t} : ~txn[u].locked
    /\ txn' = [txn EXCEPT ![t].locked = TRUE]
    /\ Goto(t, "recompute")
    /\ UNCHANGED <<sheet, submitted>>

\* The row was there for DO NOTHING and is gone: a request that cleared the
\* last grade has committed in between. scalar_one() raises NoResultFound,
\* which no handler of this module catches.
CaseMissing(t) ==
    /\ pc[t] = "lock"
    /\ ~txn[t].wrote
    /\ caseGrade = NoCase
    /\ End(t, "missing")
    /\ UNCHANGED <<sheet, submitted>>

\* The question rows as request t sees them.
Seen(t) == IF txn[t].changed THEN [rows EXCEPT ![txn[t].q] = txn[t].g] ELSE rows

\* Mutant: the case counts as graded before its last question is.
RolledUpEarly(t) ==
    IF \A q \in txn[t].ids : Seen(t)[q] = NoGrade THEN NoCase
    ELSE [status |-> "graded", score |-> [q \in txn[t].ids |-> Seen(t)[q]]]

\* Mutant: the case grade stays when its last question grade is cleared.
RolledUpKeeping(t) ==
    LET kept == {q \in txn[t].ids : Seen(t)[q] # NoGrade}
    IN  IF kept = txn[t].ids /\ kept # {}
        THEN [status |-> "graded", score |-> [q \in kept |-> Seen(t)[q]]]
        ELSE SubmittedCase

\* The case grade over the question rows t sees, of which ids are gradeable:
\* none, a score once every one of them has a grade, or no score yet. The
\* normalized score is a function of the points, and stands here for them.
RolledUp(t) ==
    LET kept == {q \in txn[t].ids : Seen(t)[q] # NoGrade}
    IN  IF kept = {} THEN NoCase
        ELSE IF kept = txn[t].ids
             THEN [status |-> "graded", score |-> [q \in kept |-> Seen(t)[q]]]
             ELSE SubmittedCase

\* The question rows are read under the lock, and the row updated or deleted.
Recompute(t) ==
    /\ pc[t] = "recompute"
    /\ txn' = [txn EXCEPT ![t].wrote = TRUE, ![t].case = RolledUp(t)]
    /\ Goto(t, "commit")
    /\ UNCHANGED <<sheet, submitted>>

Commit(t) ==
    /\ pc[t] = "commit"
    /\ rows' = Seen(t)
    /\ caseGrade' = txn[t].case
    /\ End(t, "ok")
    /\ UNCHANGED <<edition, submitted>>

\* Mutant: the session is not rolled back and keeps its locks.
FailWithoutRollback(t) ==
    /\ DbFaults
    /\ pc[t] \in InTransaction
    /\ Goto(t, "failed")
    /\ UNCHANGED <<sheet, submitted, txn>>

\* The database fails a statement or the commit: the session is rolled back.
Fail(t) ==
    /\ DbFaults
    /\ pc[t] \in InTransaction
    /\ End(t, "failed")
    /\ UNCHANGED <<sheet, submitted>>

Serve(t) ==
    \/ WriteQuestion(t) \/ MaterializeCase(t) \/ LockCase(t)
    \/ CaseMissing(t) \/ Recompute(t) \/ Commit(t)

Next ==
    \/ Rewrite
    \/ Submit
    \/ \E t \in Requests : Resolve(t) \/ Serve(t) \/ Fail(t)

Spec == Init /\ [][Next]_vars

\* The server goes on with the requests it has begun to serve.
FairSpec == Spec /\ \A t \in Requests : WF_vars(Serve(t))

-----------------------------------------------------------------------------
(* Properties *)

CaseGrades == {NoCase, SubmittedCase}
    \cup UNION {{[status |-> "graded", score |-> s] : s \in [ids -> Grades]} :
                   ids \in SUBSET Questions}

Transactions == [q: Questions \cup {NoGrade}, g: Grades \cup {NoGrade},
                 ids: SUBSET Questions, changed: BOOLEAN, locked: BOOLEAN,
                 wrote: BOOLEAN, case: CaseGrades]

TypeOK ==
    /\ rows \in [Questions -> Grades \cup {NoGrade}]
    /\ caseGrade \in CaseGrades
    /\ edition \in 1 .. NEditions
    /\ submitted \in BOOLEAN
    /\ pc \in [Requests -> Control]
    /\ txn \in [Requests -> Transactions]

\* The committed case grade is the one the committed question grades make,
\* over the questions of an edition of the case: no interleaving of saves and
\* clears loses the "all graded" transition, leaves a case graded that is not,
\* keeps a case grade nothing is left of, or a score of grades since changed
\* (_recompute_case_grade_rollup, teacher_grading.py:133).
RollupOfRows ==
    \E e \in 1 .. edition : caseGrade = Sheet!Rollup(rows, Gradeable[e])

\* Why: the request that writes the case_grades row holds its lock, alone, and
\* what it is about to commit was computed under that lock, from the question
\* rows that are still there (the order is load-bearing, teacher_grading.py:145).
OneCaseWriter ==
    /\ \A t, u \in Requests : txn[t].locked /\ txn[u].locked => t = u
    /\ \A t \in Requests :
          /\ txn[t].wrote => txn[t].locked
          /\ txn[t].locked => txn[t].wrote \/ caseGrade # NoCase
          /\ pc[t] \in {"recompute", "commit"} => txn[t].locked

PendingOf(t) ==
    /\ txn[t].q \in Questions
    /\ \E e \in 1 .. edition :
          /\ txn[t].ids = Gradeable[e]
          /\ pc[t] = "commit" =>
                txn[t].case = Sheet!Rollup(Seen(t), Gradeable[e])

PendingIsRollup == \A t \in Requests : pc[t] \in InTransaction => PendingOf(t)

\* The inductive invariant of grading.
GradingInv == TypeOK /\ OneCaseWriter /\ PendingIsRollup /\ RollupOfRows

\* Requests take effect one at a time: every step changes one question grade
\* and the case grade with it, or nothing (one transaction per request).
ImplementsGradeSheet == Sheet!Spec

\* A request the server has begun to serve is answered: the waits for the
\* question's row and for the case's row never close a circle.
RequestsAnswered ==
    \A t \in Requests : pc[t] \in InTransaction ~> pc[t] \in Answered

\* The next statement of t waits for no lock.
Ready(t) ==
    \/ pc[t] \in {"recompute", "commit"}
    \/ /\ pc[t] = "write"
       /\ \/ txn[t].g = NoGrade /\ rows[txn[t].q] = NoGrade
          \/ ~RowHeld(t, txn[t].q)
    \/ pc[t] = "materialize" /\ \A u \in Requests \ {t} : ~txn[u].wrote
    \/ /\ pc[t] = "lock"
       /\ \/ txn[t].wrote \/ caseGrade = NoCase
          \/ \A u \in Requests \ {t} : ~txn[u].locked

\* Why RequestsAnswered: the question's row is locked before the case's row,
\* and nothing is waited for under that one. So who waits, waits for a request
\* that goes on, or that waits for one that does.
LocksInOrder ==
    \A t \in Requests :
        /\ txn[t].changed \/ txn[t].locked
           => pc[t] \in {"materialize", "lock", "recompute", "commit"}
        /\ txn[t].locked => pc[t] # "materialize" /\ (pc[t] = "lock" => txn[t].wrote)
WaitsEnd ==
    \A t \in Requests : pc[t] \in InTransaction /\ ~Ready(t) =>
        \E u \in Requests :
            /\ pc[u] \in InTransaction
            /\ Ready(u) \/ \E v \in Requests : txn[v].locked /\ Ready(v)
            /\ \/ pc[t] = "write" /\ txn[u].changed /\ txn[u].q = txn[t].q
               \/ pc[t] \in {"materialize", "lock"} /\ txn[u].locked /\ Ready(u)

=============================================================================
