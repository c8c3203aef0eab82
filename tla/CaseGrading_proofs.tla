------------------------- MODULE CaseGrading_proofs -------------------------
(***************************************************************************)
(* Proofs about CaseGrading, for any set of requests, questions and        *)
(* grades, any number of editions of the case and with database faults:    *)
(* the committed case grade is always the one of the committed question    *)
(* grades, the requests implement GradeSheet, and their waits for rows     *)
(* never close a circle.                                                   *)
(***************************************************************************)
EXTENDS CaseGrading, TLAPS

USE GradesAssumption, EditionsAssumption, DbFaultsAssumption

-----------------------------------------------------------------------------
(* What a request computes *)

\* The row a request sees is a row: its own write is well typed.
LEMMA SeenType ==
    ASSUME TypeOK, NEW t \in Requests, txn[t].changed => txn[t].q \in Questions
    PROVE  Seen(t) \in [Questions -> Grades \cup {NoGrade}]
  BY DEF TypeOK, Seen, Transactions

\* The case grade a request computes is the reference one of GradeSheet over
\* the rows it sees (_recompute_case_grade_rollup).
LEMMA RolledUpIsRollup ==
    ASSUME NEW t \in Requests
    PROVE  RolledUp(t) = Sheet!Rollup(Seen(t), txn[t].ids)
  <1> DEFINE kept == {q \in txn[t].ids : Seen(t)[q] # NoGrade}
  <1>1. CASE kept = txn[t].ids
    BY <1>1, Zenon DEF RolledUp, Sheet!Rollup, NoGrade, Sheet!NoGrade, NoCase,
                       Sheet!NoCase, SubmittedCase
  <1>2. CASE kept # txn[t].ids
    BY <1>2, Zenon DEF RolledUp, Sheet!Rollup, NoGrade, Sheet!NoGrade, NoCase,
                       Sheet!NoCase, SubmittedCase
  <1> QED
    BY <1>1, <1>2

LEMMA CaseShapes == NoCase \in CaseGrades /\ SubmittedCase \in CaseGrades
  BY Zenon DEF CaseGrades, SubmittedCase

LEMMA IdleType == Idle \in Transactions
  BY CaseShapes DEF Idle, Transactions

\* A computed case grade is one the constraints of case_grades allow.
LEMMA RollupType ==
    ASSUME NEW f \in [Questions -> Grades \cup {NoGrade}],
           NEW ids \in SUBSET Questions
    PROVE  Sheet!Rollup(f, ids) \in CaseGrades
  <1> DEFINE kept == {q \in ids : f[q] # NoGrade}
             score == [q \in ids |-> f[q]]
  <1>1. CASE kept = ids
    <2>1. \A q \in ids : f[q] \in Grades
      <3> SUFFICES ASSUME NEW q \in ids PROVE f[q] \in Grades
        OBVIOUS
      <3>1. q \in kept
        BY <1>1
      <3> QED
        BY <3>1
    <2>2. [status |-> "graded", score |-> score] \in CaseGrades
      <3>1. score \in [ids -> Grades]
        BY <2>1
      <3>2. [status |-> "graded", score |-> score]
              \in {[status |-> "graded", score |-> s] : s \in [ids -> Grades]}
        BY <3>1
      <3> HIDE DEF score
      <3> QED
        BY <3>2, Zenon DEF CaseGrades
    <2> QED
      BY <1>1, <2>2, CaseShapes, Zenon DEF Sheet!Rollup, NoGrade, Sheet!NoGrade, NoCase,
                                     Sheet!NoCase
  <1>2. CASE kept # ids
    BY <1>2, Zenon DEF Sheet!Rollup, CaseGrades, NoGrade, Sheet!NoGrade, NoCase,
                       Sheet!NoCase, SubmittedCase
  <1> QED
    BY <1>1, <1>2

-----------------------------------------------------------------------------
(* The inductive invariant *)

\* Leaving a transaction keeps the invariants of the requests that stay.
LEMMA EndKeepsTypes ==
    ASSUME TypeOK, NEW t \in Requests, NEW l \in Control, End(t, l)
    PROVE  /\ pc' \in [Requests -> Control]
           /\ txn' \in [Requests -> Transactions]
  BY IdleType DEF TypeOK, End, Goto

LEMMA InvInit == Init => GradingInv
  <1> SUFFICES ASSUME Init PROVE GradingInv
    OBVIOUS
  <1>2. TypeOK
    <2>1. rows \in [Questions -> Grades \cup {NoGrade}]
      BY DEF Init
    <2>2. edition \in 1 .. NEditions
      BY DEF Init
    <2>3. pc \in [Requests -> Control]
      BY DEF Init, Control
    <2>4. txn \in [Requests -> Transactions]
      BY IdleType DEF Init
    <2> QED
      BY <2>1, <2>2, <2>3, <2>4, CaseShapes DEF Init, TypeOK
  <1>3. OneCaseWriter
    BY DEF Init, OneCaseWriter, Idle
  <1>4. PendingIsRollup
    BY DEF Init, PendingIsRollup, InTransaction
  <1>5. caseGrade = Sheet!Rollup(rows, Gradeable[1])
    <2>1. \A q \in Gradeable[1] : rows[q] = NoGrade
      <3>1. Gradeable[1] \subseteq Questions
        OBVIOUS
      <3> QED
        BY <3>1 DEF Init
    <2>2. {q \in Gradeable[1] : rows[q] # NoGrade} = {}
      BY <2>1
    <2> QED
      BY <2>2, Zenon DEF Init, Sheet!Rollup, NoGrade, Sheet!NoGrade, NoCase,
                         Sheet!NoCase
  <1>6. RollupOfRows
    <2>1. 1 \in 1 .. edition
      BY DEF Init
    <2> QED
      BY <1>5, <2>1 DEF RollupOfRows
  <1> QED
    BY <1>2, <1>3, <1>4, <1>6 DEF GradingInv

\* What a commit makes of the committed state, the heart of the argument: the
\* case grade was computed under the lock the request still holds, from rows
\* no other request has been able to commit over.
LEMMA CommitStep ==
    ASSUME GradingInv, NEW t \in Requests, Commit(t)
    PROVE  /\ Sheet!Regrade
           /\ \E e \in 1 .. edition : caseGrade' = Sheet!Rollup(rows', Gradeable[e])
  <1>1. PICK e \in 1 .. edition : txn[t].case = Sheet!Rollup(Seen(t), Gradeable[e])
    BY DEF GradingInv, PendingIsRollup, PendingOf, Commit, InTransaction
  <1>2. rows' = Seen(t) /\ caseGrade' = txn[t].case /\ edition' = edition
    BY DEF Commit
  <1>3. caseGrade' = Sheet!Rollup(rows', Gradeable[e])
    BY <1>1, <1>2
  <1>4. txn[t].q \in Questions
    BY DEF GradingInv, PendingIsRollup, PendingOf, Commit, InTransaction
  <1>5. \E g \in Grades \cup {NoGrade} : rows' = [rows EXCEPT ![txn[t].q] = g]
    <2>1. CASE txn[t].changed
      <3>1. txn[t].g \in Grades \cup {NoGrade}
        BY DEF GradingInv, TypeOK, Transactions
      <3> QED
        BY <2>1, <3>1, <1>2 DEF Seen
    <2>2. CASE ~txn[t].changed
      <3>1. rows' = rows /\ rows \in [Questions -> Grades \cup {NoGrade}]
        BY <2>2, <1>2 DEF Seen, GradingInv, TypeOK
      <3>2. rows[txn[t].q] \in Grades \cup {NoGrade}
        BY <3>1, <1>4
      <3>3. rows' = [rows EXCEPT ![txn[t].q] = rows[txn[t].q]]
        BY <3>1, <1>4
      <3> QED
        BY <3>2, <3>3
    <2> QED
      BY <2>1, <2>2
  <1> QED
    BY <1>2, <1>3, <1>4, <1>5, Zenon DEF Sheet!Regrade, NoGrade, Sheet!NoGrade

LEMMA TypeStep == ASSUME GradingInv, Next PROVE TypeOK'
  <1> USE DEF GradingInv
  <1> SUFFICES ASSUME TypeOK PROVE TypeOK'
    OBVIOUS
  <1>1. CASE Rewrite
    BY <1>1 DEF Rewrite, TypeOK
  <1>2. CASE Submit
    BY <1>2 DEF Submit, TypeOK, sheet
  <1>3. ASSUME NEW t \in Requests, Resolve(t) PROVE TypeOK'
    <2>1. CASE End(t, "rejected")
      <3>1. "rejected" \in Control
        BY DEF Control, Answered
      <3> QED
        BY <1>3, <2>1, <3>1, EndKeepsTypes DEF Resolve, TypeOK, sheet
    <2>2. ASSUME NEW q \in Questions, NEW g \in Grades \cup {NoGrade},
                 Goto(t, "write"),
                 txn' = [txn EXCEPT ![t] = [Idle EXCEPT !.q = q, !.g = g,
                                              !.ids = Gradeable[edition]]]
          PROVE  TypeOK'
      <3>1. Gradeable[edition] \in SUBSET Questions
        BY DEF TypeOK
      <3>2. [Idle EXCEPT !.q = q, !.g = g, !.ids = Gradeable[edition]]
               \in Transactions
        BY <3>1, IdleType, Zenon DEF Transactions
      <3> QED
        BY <1>3, <2>2, <3>2
           DEF Resolve, TypeOK, sheet, Goto, Control, InTransaction
    <2> QED
      BY <1>3, <2>1, <2>2 DEF Resolve
  <1>4. ASSUME NEW t \in Requests, WriteQuestion(t) PROVE TypeOK'
    <2>1. PICK b \in BOOLEAN : txn' = [txn EXCEPT ![t].changed = b]
      BY <1>4, Zenon DEF WriteQuestion
    <2>2. [txn[t] EXCEPT !.changed = b] \in Transactions
      BY Zenon DEF TypeOK, Transactions
    <2>3. txn' \in [Requests -> Transactions]
      BY <2>1, <2>2 DEF TypeOK
    <2> QED
      BY <1>4, <2>3 DEF WriteQuestion, TypeOK, sheet, Goto, Control, InTransaction
  <1>5. ASSUME NEW t \in Requests, MaterializeCase(t) PROVE TypeOK'
    <2>1. txn' \in [Requests -> Transactions]
      <3>1. [txn[t] EXCEPT !.locked = TRUE, !.wrote = TRUE, !.case = SubmittedCase]
              \in Transactions
        BY CaseShapes, Zenon DEF TypeOK, Transactions
      <3> QED
        BY <1>5, <3>1 DEF MaterializeCase, TypeOK
    <2> QED
      BY <1>5, <2>1 DEF MaterializeCase, TypeOK, sheet, Goto, Control, InTransaction
  <1>6. ASSUME NEW t \in Requests, LockCase(t) PROVE TypeOK'
    BY <1>6 DEF LockCase, TypeOK, Transactions, sheet, Goto, Control, InTransaction
  <1>7. ASSUME NEW t \in Requests, CaseMissing(t) PROVE TypeOK'
    <2>1. "missing" \in Control
      BY DEF Control, Answered
    <2> QED
      BY <1>7, <2>1, EndKeepsTypes DEF CaseMissing, TypeOK, sheet
  <1>8. ASSUME NEW t \in Requests, Recompute(t) PROVE TypeOK'
    <2>1. txn[t].q \in Questions
      BY <1>8 DEF Recompute, PendingIsRollup, PendingOf, InTransaction
    <2>2. RolledUp(t) \in CaseGrades
      BY <2>1, SeenType, RolledUpIsRollup, RollupType DEF TypeOK, Transactions
    <2> QED
      <3>1. [txn[t] EXCEPT !.wrote = TRUE, !.case = RolledUp(t)] \in Transactions
        BY <2>2, Zenon DEF TypeOK, Transactions
      <3>2. txn' \in [Requests -> Transactions]
        BY <1>8, <3>1 DEF Recompute, TypeOK
      <3> QED
        BY <1>8, <3>2 DEF Recompute, TypeOK, sheet, Goto, Control, InTransaction
  <1>9. ASSUME NEW t \in Requests, Commit(t) PROVE TypeOK'
    <2>1. "ok" \in Control
      BY DEF Control, Answered
    <2>2. txn[t].q \in Questions
      BY <1>9 DEF Commit, PendingIsRollup, PendingOf, InTransaction
    <2>3. rows' \in [Questions -> Grades \cup {NoGrade}]
      BY <1>9, <2>2, SeenType DEF Commit
    <2> QED
      <3>1. caseGrade' \in CaseGrades
        BY <1>9 DEF Commit, TypeOK, Transactions
      <3> QED
        BY <1>9, <2>1, <2>3, <3>1, EndKeepsTypes DEF Commit, TypeOK
  <1>10. ASSUME NEW t \in Requests, Fail(t) PROVE TypeOK'
    <2>1. "failed" \in Control
      BY DEF Control, Answered
    <2> QED
      BY <1>10, <2>1, EndKeepsTypes DEF Fail, TypeOK, sheet
  <1> QED
    BY <1>1, <1>2, <1>3, <1>4, <1>5, <1>6, <1>7, <1>8, <1>9, <1>10 DEF Next, Serve

\* One request at a time writes the case_grades row.
LEMMA WriterStep == ASSUME GradingInv, Next PROVE OneCaseWriter'
  <1> SUFFICES ASSUME TypeOK, OneCaseWriter PROVE OneCaseWriter'
    BY DEF GradingInv
  <1>1. CASE Rewrite
    BY <1>1 DEF Rewrite, OneCaseWriter
  <1>2. CASE Submit
    BY <1>2 DEF Submit, OneCaseWriter, sheet
  <1>3. ASSUME NEW t \in Requests, Resolve(t) PROVE OneCaseWriter'
    <2>1. ASSUME NEW s, txn' = [txn EXCEPT ![t] = s], ~s.locked, ~s.wrote,
                 \/ pc' = [pc EXCEPT ![t] = "write"]
                 \/ pc' = [pc EXCEPT ![t] = "rejected"]
          PROVE  OneCaseWriter'
      <3>1. /\ \A u \in Requests \ {t} : txn'[u] = txn[u] /\ pc'[u] = pc[u]
            /\ ~txn'[t].locked /\ ~txn'[t].wrote
            /\ pc'[t] \in {"write", "rejected"}
            /\ caseGrade' = caseGrade
        BY <1>3, <2>1 DEF Resolve, sheet, TypeOK
      <3> QED
        BY <3>1 DEF OneCaseWriter
    <2>2. CASE End(t, "rejected")
      <3>1. ~Idle.locked /\ ~Idle.wrote
        BY DEF Idle
      <3> QED
        BY <2>1, <2>2, <3>1 DEF End, Goto
    <2>3. ASSUME NEW q \in Questions, NEW g \in Grades \cup {NoGrade},
                 Goto(t, "write"),
                 txn' = [txn EXCEPT ![t] = [Idle EXCEPT !.q = q, !.g = g,
                                              !.ids = Gradeable[edition]]]
          PROVE  OneCaseWriter'
      <3> DEFINE s == [Idle EXCEPT !.q = q, !.g = g, !.ids = Gradeable[edition]]
      <3>1. ~s.locked /\ ~s.wrote
        BY DEF Idle
      <3> QED
        BY <2>1, <2>3, <3>1 DEF Goto
    <2> QED
      BY <1>3, <2>2, <2>3 DEF Resolve
  <1>4. ASSUME NEW t \in Requests, WriteQuestion(t) PROVE OneCaseWriter'
    BY <1>4 DEF WriteQuestion, OneCaseWriter, TypeOK, sheet, Goto
  <1>5. ASSUME NEW t \in Requests, MaterializeCase(t) PROVE OneCaseWriter'
    BY <1>5 DEF MaterializeCase, OneCaseWriter, TypeOK, sheet, Goto
  <1>6. ASSUME NEW t \in Requests, LockCase(t) PROVE OneCaseWriter'
    BY <1>6 DEF LockCase, OneCaseWriter, TypeOK, sheet, Goto
  <1>7. ASSUME NEW t \in Requests, NEW l \in Answered, End(t, l),
               caseGrade' = caseGrade
        PROVE  OneCaseWriter'
    BY <1>7 DEF OneCaseWriter, TypeOK, End, Goto, Idle, Answered
  <1>8. ASSUME NEW t \in Requests, Recompute(t) PROVE OneCaseWriter'
    BY <1>8 DEF Recompute, OneCaseWriter, TypeOK, sheet, Goto
  <1>9. ASSUME NEW t \in Requests, Commit(t) PROVE OneCaseWriter'
    <2>1. txn[t].locked /\ \A u \in Requests \ {t} : ~txn[u].locked
      BY <1>9 DEF Commit, OneCaseWriter
    <2> QED
      BY <1>9, <2>1 DEF Commit, OneCaseWriter, TypeOK, End, Goto, Idle
  <1>10. ASSUME NEW t \in Requests, CaseMissing(t) \/ Fail(t) PROVE OneCaseWriter'
    BY <1>10, <1>7 DEF CaseMissing, Fail, Answered, sheet
  <1> QED
    BY <1>1, <1>2, <1>3, <1>4, <1>5, <1>6, <1>8, <1>9, <1>10 DEF Next, Serve

\* A request that has been resolved keeps the question ids of its edition, and
\* what it computed stays the rollup of the rows: they cannot change under it.
LEMMA PendingStep == ASSUME GradingInv, Next PROVE PendingIsRollup'
  <1> SUFFICES ASSUME TypeOK, OneCaseWriter, PendingIsRollup,
                      NEW u \in Requests, pc'[u] \in InTransaction
               PROVE  PendingOf(u)'
    BY DEF GradingInv, PendingIsRollup
  <1>1. ASSUME pc'[u] = pc[u], txn'[u] = txn[u],
               edition' \in Nat, edition' >= edition,
               pc[u] = "commit" => rows' = rows
        PROVE  PendingOf(u)'
    <2>1. PendingOf(u)
      BY <1>1 DEF PendingIsRollup
    <2>2. PICK e \in 1 .. edition :
             /\ txn[u].ids = Gradeable[e]
             /\ pc[u] = "commit" =>
                  txn[u].case = Sheet!Rollup(Seen(u), Gradeable[e])
      BY <2>1 DEF PendingOf
    <2>3. e \in 1 .. edition'
      BY <1>1 DEF TypeOK
    <2>4. pc'[u] = "commit" =>
             txn'[u].case = Sheet!Rollup(Seen(u)', Gradeable[e])
      BY <1>1, <2>2 DEF Seen
    <2> QED
      BY <1>1, <2>1, <2>2, <2>3, <2>4 DEF PendingOf
  <1>2. CASE Rewrite \/ Submit
    BY <1>1, <1>2 DEF Rewrite, Submit, sheet, TypeOK
  <1>3. ASSUME NEW t \in Requests, Resolve(t) PROVE PendingOf(u)'
    <2>1. CASE u = t
      <3>1. /\ pc'[u] = "write"
            /\ txn'[u].q \in Questions
            /\ txn'[u].ids = Gradeable[edition]
            /\ edition' = edition
        <4>1. pc'[u] = "write"
          BY <1>3, <2>1 DEF Resolve, End, Goto, TypeOK, InTransaction
        <4>2. PICK q \in Questions, g \in Grades \cup {NoGrade} :
                 txn' = [txn EXCEPT ![t] = [Idle EXCEPT !.q = q, !.g = g,
                                                      !.ids = Gradeable[edition]]]
          BY <1>3, <2>1, <4>1 DEF Resolve, End, Goto, TypeOK
        <4>3. txn'[u] = [Idle EXCEPT !.q = q, !.g = g, !.ids = Gradeable[edition]]
          BY <2>1, <4>2 DEF TypeOK
        <4> QED
          BY <1>3, <4>1, <4>3 DEF Resolve, sheet, Idle
      <3>2. edition \in 1 .. edition'
        BY <3>1 DEF TypeOK
      <3> QED
        BY <3>1, <3>2 DEF PendingOf
    <2>2. CASE u # t
      BY <1>1, <1>3, <2>2 DEF Resolve, End, Goto, sheet, TypeOK
    <2> QED
      BY <2>1, <2>2
  <1>4. ASSUME NEW t \in Requests,
               WriteQuestion(t) \/ MaterializeCase(t) \/ LockCase(t)
        PROVE  PendingOf(u)'
    <2>1. CASE u = t
      <3>1. /\ txn'[u].q = txn[u].q /\ txn'[u].ids = txn[u].ids
            /\ pc'[u] # "commit" /\ edition' = edition
            /\ pc[u] \in InTransaction
        <4>1. CASE WriteQuestion(t)
          BY <4>1, <2>1 DEF WriteQuestion, Goto, sheet, TypeOK, InTransaction
        <4>2. CASE MaterializeCase(t)
          BY <4>2, <2>1 DEF MaterializeCase, Goto, sheet, TypeOK, InTransaction
        <4>3. CASE LockCase(t)
          BY <4>3, <2>1 DEF LockCase, Goto, sheet, TypeOK, InTransaction
        <4> QED
          BY <1>4, <4>1, <4>2, <4>3
      <3>2. PendingOf(u)
        BY <3>1 DEF PendingIsRollup
      <3> QED
        BY <3>1, <3>2 DEF PendingOf
    <2>2. CASE u # t
      BY <1>1, <1>4, <2>2
         DEF WriteQuestion, MaterializeCase, LockCase, Goto, sheet, TypeOK
    <2> QED
      BY <2>1, <2>2
  <1>5. ASSUME NEW t \in Requests, Recompute(t) PROVE PendingOf(u)'
    <2>1. CASE u = t
      <3>1. /\ txn'[u].q = txn[u].q /\ txn'[u].ids = txn[u].ids
            /\ txn'[u].case = RolledUp(u) /\ edition' = edition
            /\ pc[u] \in InTransaction
        BY <1>5, <2>1 DEF Recompute, Goto, sheet, TypeOK, InTransaction
      <3>2. Seen(u)' = Seen(u)
        BY <1>5, <2>1 DEF Recompute, Seen, sheet, TypeOK
      <3>3. PICK e \in 1 .. edition : txn[u].ids = Gradeable[e]
        BY <3>1 DEF PendingIsRollup, PendingOf
      <3>4. txn'[u].case = Sheet!Rollup(Seen(u)', Gradeable[e])
        BY <3>1, <3>2, <3>3, RolledUpIsRollup
      <3>5. txn[u].q \in Questions
        BY <3>1 DEF PendingIsRollup, PendingOf
      <3> QED
        BY <3>1, <3>3, <3>4, <3>5 DEF PendingOf
    <2>2. CASE u # t
      BY <1>1, <1>5, <2>2 DEF Recompute, Goto, sheet, TypeOK
    <2> QED
      BY <2>1, <2>2
  <1>6. ASSUME NEW t \in Requests, CaseMissing(t) \/ Fail(t) PROVE PendingOf(u)'
    <2>1. u # t
      BY <1>6 DEF CaseMissing, Fail, End, Goto, TypeOK, InTransaction
    <2> QED
      BY <1>1, <1>6, <2>1 DEF CaseMissing, Fail, End, Goto, sheet, TypeOK
  <1>7. ASSUME NEW t \in Requests, Commit(t) PROVE PendingOf(u)'
    <2>1. u # t
      BY <1>7 DEF Commit, End, Goto, TypeOK, InTransaction
    <2>2. pc[u] # "commit"
      BY <1>7, <2>1 DEF Commit, OneCaseWriter
    <2> QED
      BY <1>1, <1>7, <2>1, <2>2 DEF Commit, End, Goto, TypeOK
  <1> QED
    BY <1>2, <1>3, <1>4, <1>5, <1>6, <1>7 DEF Next, Serve

LEMMA RollupStep == ASSUME GradingInv, Next PROVE RollupOfRows'
  <1>1. PICK e \in 1 .. edition : caseGrade = Sheet!Rollup(rows, Gradeable[e])
    BY DEF GradingInv, RollupOfRows
  <1>2. ASSUME rows' = rows, caseGrade' = caseGrade, edition' \in Nat,
               edition' >= edition
        PROVE  RollupOfRows'
    <2>1. e \in 1 .. edition'
      BY <1>2 DEF GradingInv, TypeOK
    <2> QED
      BY <1>1, <1>2, <2>1 DEF RollupOfRows
  <1>3. ASSUME NEW t \in Requests, Commit(t) PROVE RollupOfRows'
    <2>1. edition' = edition
      BY <1>3 DEF Commit
    <2> QED
      BY <1>3, <2>1, CommitStep DEF RollupOfRows
  <1>4. ASSUME ~ \E t \in Requests : Commit(t) PROVE RollupOfRows'
    <2>1. /\ rows' = rows /\ caseGrade' = caseGrade
          /\ edition' = edition \/ edition' = edition + 1
      BY <1>4 DEF Next, Serve, Rewrite, Submit, Resolve, WriteQuestion,
                  MaterializeCase, LockCase, CaseMissing, Recompute, Fail, sheet
    <2>2. edition' \in Nat /\ edition' >= edition
      BY <2>1 DEF GradingInv, TypeOK
    <2> QED
      BY <1>2, <2>1, <2>2
  <1> QED
    BY <1>3, <1>4

LEMMA InvStep == GradingInv /\ [Next]_vars => GradingInv'
  <1> SUFFICES ASSUME GradingInv, [Next]_vars PROVE GradingInv'
    OBVIOUS
  <1>1. CASE Next
    BY <1>1, TypeStep, WriterStep, PendingStep, RollupStep DEF GradingInv
  <1>2. CASE UNCHANGED vars
    BY <1>2 DEF vars, sheet, GradingInv, TypeOK, OneCaseWriter, PendingIsRollup,
                PendingOf, RollupOfRows, Seen
  <1> QED
    BY <1>1, <1>2

-----------------------------------------------------------------------------
(* The theorems *)

\* The inductive invariant holds in every behaviour.
THEOREM GradingInvariant == Spec => []GradingInv
  BY InvInit, InvStep, PTL DEF Spec

\* Every state of grading is well typed: case grades included, which are one
\* of the shapes ck_case_grades_state_consistency allows.
THEOREM GradingTypeCorrect == Spec => []TypeOK
  <1>1. GradingInv => TypeOK
    BY DEF GradingInv
  <1> QED
    BY <1>1, GradingInvariant, PTL

\* The committed case grade is the rollup of the committed question grades,
\* for any number of concurrent saves and clears.
THEOREM RollupIsRaceFree == Spec => []RollupOfRows
  <1>1. GradingInv => RollupOfRows
    BY DEF GradingInv
  <1> QED
    BY <1>1, GradingInvariant, PTL

\* Every step of the interleaved requests is a step of the abstract grade
\* sheet, which changes one question and the case grade at once, or nothing.
THEOREM GradingImplementsSheet == Spec => ImplementsGradeSheet
  <1>1. Init => Sheet!Init
    BY DEF Init, Sheet!Init, NoGrade, Sheet!NoGrade, NoCase, Sheet!NoCase
  <1>2. GradingInv /\ [Next]_vars
           => [Sheet!Next]_<<rows, caseGrade, edition>>
    <2> SUFFICES ASSUME GradingInv, Next
                 PROVE  [Sheet!Next]_<<rows, caseGrade, edition>>
      BY DEF vars, sheet
    <2>1. ASSUME NEW t \in Requests, Commit(t) PROVE Sheet!Next
      BY <2>1, CommitStep DEF Sheet!Next
    <2>2. CASE Rewrite
      BY <2>2 DEF Rewrite, Sheet!Rewrite, Sheet!Next
    <2>3. ASSUME ~Rewrite, ~ \E t \in Requests : Commit(t)
          PROVE  UNCHANGED <<rows, caseGrade, edition>>
      BY <2>3 DEF Next, Serve, Submit, Resolve, WriteQuestion, MaterializeCase,
                  LockCase, CaseMissing, Recompute, Fail, sheet
    <2> QED
      BY <2>1, <2>2, <2>3
  <1> QED
    BY <1>1, <1>2, GradingInvariant, PTL DEF Spec, Sheet!Spec, ImplementsGradeSheet

-----------------------------------------------------------------------------
(* The waits of the requests *)

\* A request takes its locks in order, and drops them together.
LEMMA OrderStep ==
    ASSUME GradingInv, LocksInOrder, Next PROVE LocksInOrder'
  <1> SUFFICES ASSUME TypeOK PROVE LocksInOrder'
    BY DEF GradingInv
  <1> DEFINE Orderly(u) ==
          /\ txn'[u].changed \/ txn'[u].locked
             => pc'[u] \in {"materialize", "lock", "recompute", "commit"}
          /\ txn'[u].locked
             => pc'[u] # "materialize" /\ (pc'[u] = "lock" => txn'[u].wrote)
  <1>1. ASSUME NEW u \in Requests, pc'[u] = pc[u], txn'[u] = txn[u] PROVE Orderly(u)
    BY <1>1 DEF LocksInOrder
  <1>2. CASE Rewrite \/ Submit
    BY <1>1, <1>2 DEF Rewrite, Submit, LocksInOrder
  <1>3. ASSUME NEW t \in Requests, Resolve(t) \/ Serve(t) \/ Fail(t)
        PROVE  Orderly(t) /\ \A u \in Requests \ {t} : pc'[u] = pc[u] /\ txn'[u] = txn[u]
    <2>1. ~Idle.changed /\ ~Idle.locked
      BY DEF Idle
    <2>2. CASE \E l : End(t, l)
      BY <2>1, <2>2 DEF End, Goto, TypeOK
    <2>3. CASE \E q, g, ids : /\ Goto(t, "write")
                              /\ txn' = [txn EXCEPT ![t] =
                                    [Idle EXCEPT !.q = q, !.g = g, !.ids = ids]]
      <3>1. PICK q, g, ids : /\ Goto(t, "write")
                             /\ txn' = [txn EXCEPT ![t] =
                                   [Idle EXCEPT !.q = q, !.g = g, !.ids = ids]]
        BY <2>3
      <3> DEFINE s == [Idle EXCEPT !.q = q, !.g = g, !.ids = ids]
      <3>2. ~s.changed /\ ~s.locked
        BY DEF Idle
      <3>3. txn' = [txn EXCEPT ![t] = s]
        BY <3>1
      <3> HIDE DEF s
      <3> QED
        BY <3>1, <3>2, <3>3 DEF Goto, TypeOK
    <2>4. CASE WriteQuestion(t)
      BY <2>4 DEF WriteQuestion, Goto, TypeOK, LocksInOrder, Transactions
    <2>5. CASE MaterializeCase(t)
      BY <2>5 DEF MaterializeCase, Goto, TypeOK, LocksInOrder, Transactions
    <2>6. CASE LockCase(t) \/ Recompute(t)
      BY <2>6 DEF LockCase, Recompute, Goto, TypeOK, Transactions
    <2> QED
      BY <1>3, <2>2, <2>3, <2>4, <2>5, <2>6, Zenon
         DEF Serve, Resolve, CaseMissing, Commit, Fail
  <1>4. \A u \in Requests : Orderly(u)
    <2> HIDE DEF Orderly
    <2> QED
      BY <1>1, <1>2, <1>3 DEF Next, Rewrite, Submit
  <1> QED
    BY <1>4 DEF LocksInOrder

\* Any number of saves and clears of grades take their locks in one order:
\* the row of the question, then the row of the case.
THEOREM GradingLocksInOrder == Spec => []LocksInOrder
  <1>1. Init => LocksInOrder
    BY DEF Init, LocksInOrder, Idle
  <1>2. GradingInv /\ LocksInOrder /\ [Next]_vars => LocksInOrder'
    BY OrderStep DEF vars, LocksInOrder
  <1> QED
    BY <1>1, <1>2, GradingInvariant, PTL DEF Spec

\* Among any number of saves and clears no wait closes a circle: who waits for
\* the row of a question waits for a request that goes on or waits for the row
\* of the case alone, and the request that holds that row goes on.
THEOREM GradingNeverDeadlocks == Spec => []WaitsEnd
  <1>1. GradingInv /\ LocksInOrder => WaitsEnd
    <2> SUFFICES ASSUME GradingInv, LocksInOrder,
                        NEW t \in Requests, pc[t] \in InTransaction, ~Ready(t)
                 PROVE  \E u \in Requests :
            /\ pc[u] \in InTransaction
            /\ Ready(u) \/ \E v \in Requests : txn[v].locked /\ Ready(v)
            /\ \/ pc[t] = "write" /\ txn[u].changed /\ txn[u].q = txn[t].q
               \/ pc[t] \in {"materialize", "lock"} /\ txn[u].locked /\ Ready(u)
      BY DEF WaitsEnd
    <2>1. ASSUME NEW u \in Requests, txn[u].locked
          PROVE  pc[u] \in InTransaction /\ Ready(u)
      BY <2>1 DEF LocksInOrder, Ready, InTransaction
    <2>2. \A u \in Requests : txn[u].wrote => txn[u].locked
      BY DEF GradingInv, OneCaseWriter
    <2>3. ASSUME NEW u \in Requests, pc[u] \in {"materialize", "lock"}, ~Ready(u)
          PROVE  \E v \in Requests : txn[v].locked /\ Ready(v)
      BY <2>1, <2>2, <2>3 DEF Ready
    <2>4. CASE pc[t] = "write"
      <3>1. PICK u \in Requests : txn[u].changed /\ txn[u].q = txn[t].q
        BY <2>4 DEF Ready, RowHeld
      <3>2. pc[u] \in {"materialize", "lock", "recompute", "commit"}
        BY <3>1 DEF LocksInOrder
      <3>3. Ready(u) \/ pc[u] \in {"materialize", "lock"}
        BY <3>2 DEF Ready
      <3> QED
        BY <2>3, <2>4, <3>1, <3>2, <3>3 DEF InTransaction
    <2>5. CASE pc[t] \in {"materialize", "lock"}
      <3>1. PICK v \in Requests : txn[v].locked /\ Ready(v)
        BY <2>3, <2>5
      <3> QED
        BY <2>1, <2>5, <3>1
    <2> QED
      BY <2>4, <2>5 DEF InTransaction, Ready
  <1> QED
    BY <1>1, GradingInvariant, GradingLocksInOrder, PTL

=============================================================================
