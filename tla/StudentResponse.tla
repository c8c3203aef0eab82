--------------------------- MODULE StudentResponse ---------------------------
(***************************************************************************)
(* The server side of a student's work on one case (shared/student_reads): *)
(* get_student_case_detail, save_student_case_draft and                    *)
(* submit_student_case, statement by statement at READ COMMITTED, for the  *)
(* clients (tabs, devices) one student has open.                           *)
(*                                                                         *)
(*   row          the student_case_responses row, NoRow until it is opened *)
(*   submissions  student_case_response_submissions.answers_snapshot       *)
(*   now          the clock of the servers                                 *)
(*   knows        what each client takes the response to be: the version   *)
(*                and the answers of its last good reply                   *)
(*   pc           where the request of each client stands                  *)
(*   req          the request and what its session has read: op, answers,  *)
(*                base (the version it names), at (reference_now), read    *)
(*                (the ORM object of the row), locked (it holds the row)   *)
(*                                                                         *)
(* A client has one request at a time; what it does between them is        *)
(* modelled on its own.                                                    *)
(***************************************************************************)
EXTENDS Naturals, Sequences

CONSTANTS
    Clients,     \* the tabs and devices of the student
    Answers,     \* what the student may write
    MaxVersion,  \* bound: no write is sent over this version
    MaxTime,     \* bound of the clock
    Faults       \* which faults may happen

NoRow == [status |-> "none"]
Blank == "blank"
Unknown == [version |-> 0, answers |-> "unknown"]

ASSUME AnswersAssumption == {Blank, "unknown"} \cap Answers = {}
ASSUME BoundsAssumption == MaxVersion \in Nat /\ MaxTime \in Nat
ASSUME FaultsAssumption == Faults \subseteq {"dbError", "lostReply"}

VARIABLES row, submissions, now, knows, pc, req

stored == <<row, submissions>>
vars == <<stored, now, knows, pc, req>>

Control == {"idle", "ensure", "insert", "lock", "write", "refresh"}
NoRequest == [op |-> "none", answers |-> Blank, base |-> 0, at |-> 0,
              read |-> NoRow, locked |-> FALSE]

Goto(c, l) == pc' = [pc EXCEPT ![c] = l]
\* The request is answered, or given up; its session is closed.
Finish(c) == Goto(c, "idle") /\ req' = [req EXCEPT ![c] = NoRequest]

Init ==
    /\ row = NoRow
    /\ submissions = <<>>
    /\ now = 0
    /\ knows = [c \in Clients |-> Unknown]
    /\ pc = [c \in Clients |-> "idle"]
    /\ req = [c \in Clients |-> NoRequest]

-----------------------------------------------------------------------------
Tick ==
    /\ now < MaxTime
    /\ now' = now + 1
    /\ UNCHANGED <<stored, knows, pc, req>>

-----------------------------------------------------------------------------
(* The three requests *)

\* A request that is let in: whether it is (the case is visible and available,
\* the deadline of a write is not over, its answers are valid) is decided
\* before anything is locked, and one that is not changes nothing.
ReceiveOpen(c) ==
    /\ pc[c] = "idle"
    /\ Goto(c, "ensure")
    /\ req' = [req EXCEPT ![c] = [NoRequest EXCEPT !.op = "open", !.at = now]]
    /\ UNCHANGED <<stored, now, knows>>

\* A client writes only after it has loaded the response.
ReceiveWrite(c, op) ==
    /\ pc[c] = "idle"
    /\ knows[c] # Unknown
    /\ knows[c].version < MaxVersion
    /\ \E a \in Answers :
          req' = [req EXCEPT ![c] =
                     [op |-> op, answers |-> a, base |-> knows[c].version,
                      at |-> now, read |-> NoRow, locked |-> FALSE]]
    /\ Goto(c, "ensure")
    /\ UNCHANGED <<stored, now, knows>>

\* _ensure_student_case_response: SELECT without a lock. What it reads is the
\* answer to a GET; a write drops it and reads the row again under its lock.
Ensure(c) ==
    /\ pc[c] = "ensure"
    /\ IF row = NoRow
       THEN Goto(c, "insert") /\ UNCHANGED <<knows, req>>
       ELSE IF req[c].op = "open"
            THEN /\ knows' = [knows EXCEPT ![c] = [version |-> row.version,
                                                  answers |-> row.answers]]
                 /\ Finish(c)
            ELSE Goto(c, "lock") /\ UNCHANGED <<knows, req>>
    /\ UNCHANGED <<stored, now>>

\* INSERT and commit; the unique constraint sends the loser back to SELECT.
Insert(c) ==
    /\ pc[c] = "insert"
    /\ IF row = NoRow
       THEN /\ row' = [status |-> "draft", version |-> 0, answers |-> Blank,
                       openedAt |-> req[c].at, savedAt |-> req[c].at]
            /\ Goto(c, IF req[c].op = "open" THEN "refresh" ELSE "lock")
       ELSE Goto(c, "ensure") /\ UNCHANGED row
    /\ UNCHANGED <<submissions, now, knows, req>>

\* Mutant: the row is read without FOR UPDATE.
LockUnlocked(c) ==
    /\ pc[c] = "lock"
    /\ req' = [req EXCEPT ![c].read = row]
    /\ Goto(c, "write")
    /\ UNCHANGED <<stored, now, knows>>

\* SELECT ... FOR UPDATE, into a fresh object: nothing refers any more to the
\* one _ensure_student_case_response has read.
Lock(c) ==
    /\ pc[c] = "lock"
    /\ \A d \in Clients \ {c} : ~req[d].locked
    /\ req' = [req EXCEPT ![c].read = row, ![c].locked = TRUE]
    /\ Goto(c, "write")
    /\ UNCHANGED <<stored, now, knows>>

\* Mutant: any version is good.
AcceptableAnyVersion(c) == req[c].read.status = "draft"

\* The checks of a write, under the lock: submitted first, then the version.
Acceptable(c) ==
    /\ req[c].read.status = "draft"
    /\ req[c].base = req[c].read.version

\* Mutant: the snapshot is taken of the answers before the submit.
SnapshotBefore(c) ==
    submissions' = IF req[c].op = "submit"
                   THEN Append(submissions, row.answers) ELSE submissions

\* StudentCaseResponseSubmission, in the transaction of the submit.
Snapshot(c) ==
    submissions' = IF req[c].op = "submit"
                   THEN Append(submissions, req[c].answers) ELSE submissions

Write(c) ==
    /\ pc[c] = "write"
    /\ \/ /\ Acceptable(c)
          /\ row' = [status |-> IF req[c].op = "submit" THEN "submitted"
                                ELSE req[c].read.status,
                     version |-> req[c].read.version + 1,
                     answers |-> req[c].answers,
                     openedAt |-> req[c].read.openedAt,
                     savedAt |-> req[c].at]
          /\ Snapshot(c)
          /\ Goto(c, "refresh")
          /\ req' = [req EXCEPT ![c].locked = FALSE]
       \* already_submitted or version_conflict.
       \/ /\ ~Acceptable(c)
          /\ Finish(c)
          /\ UNCHANGED stored
    /\ UNCHANGED <<now, knows>>

\* The database fails: the session is closed and its transaction rolled back.
Fail(c) ==
    /\ "dbError" \in Faults
    /\ pc[c] # "idle"
    /\ Finish(c)
    /\ UNCHANGED <<stored, now, knows>>

\* db.refresh after the commit reads the row once more, in a transaction of
\* its own, and the reply names the version it finds.
Refresh(c) ==
    /\ pc[c] = "refresh"
    /\ knows' = [knows EXCEPT ![c] =
                    [version |-> row.version,
                     answers |-> IF req[c].op = "open" THEN row.answers
                                 ELSE req[c].answers]]
    /\ Finish(c)
    /\ UNCHANGED <<stored, now>>

\* The reply is lost: the client knows nothing of what was written.
LoseReply(c) ==
    /\ "lostReply" \in Faults
    /\ pc[c] = "refresh"
    /\ Finish(c)
    /\ UNCHANGED <<stored, now, knows>>

Serve(c) == Ensure(c) \/ Insert(c) \/ Lock(c) \/ Write(c) \/ Refresh(c)

Next ==
    \/ Tick
    \/ \E c \in Clients :
          \/ ReceiveOpen(c) \/ ReceiveWrite(c, "draft") \/ ReceiveWrite(c, "submit")
          \/ Serve(c) \/ Fail(c) \/ LoseReply(c)

Spec == Init /\ [][Next]_vars

-----------------------------------------------------------------------------
(* Properties *)

Texts == Answers \cup {Blank}
Responses == [status: {"draft", "submitted"}, version: Nat, answers: Texts,
              openedAt: 0 .. MaxTime, savedAt: 0 .. MaxTime]
Rows == {NoRow} \cup Responses
Requests == [op: {"none", "open", "draft", "submit"}, answers: Texts, base: Nat,
             at: 0 .. MaxTime, read: Rows, locked: BOOLEAN]
Known == [version: Nat, answers: Texts \cup {"unknown"}]

TypeOK ==
    /\ row \in Rows
    /\ submissions \in Seq(Answers)
    /\ now \in 0 .. MaxTime
    /\ knows \in [Clients -> Known]
    /\ pc \in [Clients -> Control]
    /\ req \in [Clients -> Requests]

\* The response as its promise speaks of it, without the times.
Draft == IF row = NoRow THEN NoRow
         ELSE [status |-> row.status, version |-> row.version,
               answers |-> row.answers]

Promise == INSTANCE VersionedDraft WITH draft <- Draft

\* However the requests of the student's tabs interleave: the response is
\* created once, no two writes are accepted over one version, nothing is
\* written over a submitted response, and it has the one snapshot of the
\* write that submitted it (models.py:559 and issue-196-rewrite.md:514).
ImplementsVersionedDraft == Promise!Spec

\* A submitted response, and no other, has a snapshot: one, of the answers
\* the response still holds when a teacher grades it.
SnapshotIsSubmission ==
    submissions = IF row # NoRow /\ row.status = "submitted"
                  THEN <<row.answers>> ELSE <<>>

\* A later version never carries an earlier time: the time a write is stamped
\* with was read when its request came in, before it waited for the lock, and
\* its client knew the version it writes over by then.
StampsFollowVersions ==
    [][row # NoRow => row'.savedAt >= row.savedAt]_vars

\* Why: only the request that holds the row writes it, as it has read it.
WriterHoldsRow ==
    /\ \A c, d \in Clients : req[c].locked /\ req[d].locked => c = d
    /\ \A c \in Clients :
          /\ pc[c] = "write" <=> req[c].locked
          /\ pc[c] = "write" => req[c].read = row
          /\ pc[c] \in {"lock", "write", "refresh"} => row # NoRow
          /\ pc[c] # "idle" => req[c].op # "none"
          /\ pc[c] \in {"lock", "write"} => req[c].op # "open"
          /\ req[c].op \in {"draft", "submit"} => req[c].answers \in Answers

\* And the version a write names is one its client was told of before the
\* write was stamped (the server counts versions up, one at a time).
BasesArePast ==
    /\ row # NoRow => row.savedAt <= now
    /\ \A c \in Clients :
          /\ knows[c] # Unknown => row # NoRow /\ knows[c].version <= row.version
          /\ req[c].at <= now
          /\ req[c].op \in {"draft", "submit"} /\ pc[c] # "refresh" =>
                /\ row # NoRow
                /\ req[c].base <= row.version
                /\ req[c].base = row.version => row.savedAt <= req[c].at

\* The inductive invariant of the response.
ResponseInv ==
    TypeOK /\ WriterHoldsRow /\ BasesArePast /\ SnapshotIsSubmission

=============================================================================
