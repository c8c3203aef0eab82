--------------------------- MODULE TeacherInvites ---------------------------
(***************************************************************************)
(* How teachers get their courses (shared/admin_writes.py, the activation  *)
(* of shared/app.py): an administrator gives a course to a teacher or to a *)
(* person who has been invited; the person activates the invite, or the    *)
(* administrator revokes it, resends it, or removes the teacher.           *)
(*                                                                         *)
(*   status   the invite of each person, as committed                      *)
(*   expired  the pending invites whose time is over                       *)
(*   members  the people with a teacher membership, as committed           *)
(*   post     teacher_membership_id and pending_teacher_invite_id of each  *)
(*            course, as committed                                         *)
(*   req      the requests: what each has read, locked and not committed   *)
(*                                                                         *)
(* A statement is an action. PostgreSQL's row locks are read off what the  *)
(* requests have done. A request that is refused ends.                     *)
(***************************************************************************)
EXTENDS FiniteSets

CONSTANTS
    Courses,
    People,     \* those invited: a person has one invite and at most one membership
    Requests    \* those served at a time

ASSUME CoursesAssumption == Courses # {}
ASSUME PeopleAssumption == People # {}

VARIABLES status, expired, members, post, req

database == <<status, members, post>>
vars == <<database, expired, req>>

\* A nullable column is a set of at most one person.
Columns == {{}} \cup {{p} : p \in People}
Rows == [teacher : Columns, waits : Columns]

\* member, invite: update_admin_course with a membership or an invite.
\* repair: the activation of an invite that is consumed already.
Kinds == {"member", "invite", "activate", "repair", "revoke", "remove"}
Assigns == {"member", "invite"}
Phases == {"idle", "resolve", "write", "refer", "lock", "sweep", "commit"}

\* saw: the course as the request read it; rows: the courses its UPDATE has
\* written.
Reqs == [pc : Phases, kind : Kinds, course : Courses, person : People,
         saw : Rows, rows : SUBSET Courses]

-----------------------------------------------------------------------------
(* What a request writes *)

Person(r) == req[r].person

\* What the request asks the columns to be.
Wanted(r) == IF req[r].kind = "member"
             THEN [teacher |-> {Person(r)}, waits |-> {}]
             ELSE [teacher |-> {}, waits |-> {Person(r)}]

\* SQLAlchemy writes the columns that differ from what was read.
Differs(r) == Wanted(r) # req[r].saw
Written(r) ==
    LET c == req[r].course
    IN  [teacher |-> IF Wanted(r).teacher = req[r].saw.teacher
                     THEN post[c].teacher ELSE Wanted(r).teacher,
         waits |-> IF Wanted(r).waits = req[r].saw.waits
                   THEN post[c].waits ELSE Wanted(r).waits]

\* ck_courses_teacher_assignment_xor
Xor(row) == row.teacher = {} \/ row.waits = {}

\* Mutant: only the courses that wait for the person.
NamesWaiting(r, c) == post[c].waits = {Person(r)}

\* The courses that the UPDATE of a request is about.
Names(r, c) == IF req[r].kind = "remove" THEN post[c].teacher = {Person(r)}
               ELSE post[c].waits = {Person(r)}
Sweeps(r) ==
    {c \in Courses : Names(r, c)
                     /\ (req[r].kind \in {"activate", "repair"} =>
                           post[c].teacher = {})}

-----------------------------------------------------------------------------
(* Locks *)

\* Mutant: the invite is read without a lock.
LocksInviteOfSweeps(q) ==
    req[q].kind \in {"activate", "repair", "revoke"}
    /\ req[q].pc \in {"sweep", "commit"}

\* FOR UPDATE on the invite.
LocksInvite(q) ==
    \/ req[q].kind = "invite" /\ req[q].pc \in {"write", "commit"}
    \/ req[q].kind \in {"activate", "repair", "revoke"}
       /\ req[q].pc \in {"sweep", "commit"}

\* FOR UPDATE on the membership, until it is deleted.
LocksMember(q) == req[q].kind = "remove" /\ req[q].pc \in {"sweep", "commit"}

\* What FOR UPDATE NOWAIT finds taken: the key-share lock of a course that
\* refers to the membership, and the upserted row.
UsesMember(q) == /\ req[q].kind \in {"member", "activate"}
                 /\ req[q].pc = "commit"

LocksCourse(q, c) ==
    \/ req[q].kind \in Assigns /\ req[q].course = c
       /\ req[q].pc \in {"refer", "commit"}
    \/ req[q].pc = "commit" /\ c \in req[q].rows

\* The other requests about the same person.
Others(r) == {q \in Requests \ {r} : Person(q) = Person(r)}

WaitsFor(r) ==
    {q \in Requests \ {r} :
        \/ req[r].pc = "lock" /\ req[r].kind = "activate"
           /\ q \in Others(r) /\ LocksInvite(q)
        \/ req[r].pc = "write" /\ Differs(r) /\ LocksCourse(q, req[r].course)
        \/ req[r].pc = "refer" /\ q \in Others(r) /\ LocksMember(q)
        \/ req[r].pc = "sweep"
           /\ \/ \E c \in Sweeps(r) : LocksCourse(q, c)
              \/ req[r].kind = "activate" /\ q \in Others(r) /\ LocksMember(q)}

At(r, pc) == req[r].pc = pc /\ WaitsFor(r) = {}

\* A request that has been answered, or whose client has not sent the next.
Idle == [pc |-> "idle", kind |-> "member",
         course |-> CHOOSE c \in Courses : TRUE,
         person |-> CHOOSE p \in People : TRUE,
         saw |-> [teacher |-> {}, waits |-> {}], rows |-> {}]
Goto(r, pc) ==
    req' = [req EXCEPT ![r] = IF pc = "idle" THEN Idle
                              ELSE [@ EXCEPT !.pc = pc]]
DatabaseUnchanged == UNCHANGED <<database, expired>>

-----------------------------------------------------------------------------
(* A course is given to somebody *)

\* The course is read without a lock.
BeginAssign(r) ==
    /\ req[r].pc = "idle"
    /\ \E c \in Courses, p \in People, kind \in Assigns :
         req' = [req EXCEPT ![r] =
                   [pc |-> "resolve", kind |-> kind, course |-> c,
                    person |-> p, saw |-> post[c], rows |-> {}]]
    /\ DatabaseUnchanged

Pending(p) == status[p] = "pending" /\ p \notin expired

\* _resolve_teacher_assignment: the membership is read without a lock, the
\* invite FOR UPDATE NOWAIT.
Resolve(r) ==
    /\ At(r, "resolve")
    /\ LET p == Person(r)
           found == IF req[r].kind = "member" THEN p \in members
                    ELSE Pending(p) /\ \A q \in Others(r) : ~LocksInvite(q)
       IN  Goto(r, IF found THEN "write" ELSE "idle")
    /\ DatabaseUnchanged

\* db.flush(): the row of the course is locked, and its check constraint
\* looks at what the row has become since it was read.
Write(r) ==
    /\ At(r, "write")
    /\ Goto(r, IF ~Differs(r) \/ ~Xor(Written(r)) THEN "idle"
               ELSE IF Written(r).teacher \subseteq post[req[r].course].teacher
                    THEN "commit" ELSE "refer")
    /\ DatabaseUnchanged

\* The foreign key of the teacher.
Refer(r) ==
    /\ At(r, "refer")
    /\ Goto(r, IF Person(r) \in members THEN "commit" ELSE "idle")
    /\ DatabaseUnchanged

CommitAssign(r) ==
    /\ req[r].kind \in Assigns /\ req[r].pc = "commit"
    /\ post' = [post EXCEPT ![req[r].course] = Written(r)]
    /\ Goto(r, "idle")
    /\ UNCHANGED <<status, members, expired>>

-----------------------------------------------------------------------------
(* An invite is settled, a teacher removed *)

BeginSweep(r) ==
    /\ req[r].pc = "idle"
    /\ \E p \in People, kind \in {"activate", "revoke", "remove"} :
         req' = [req EXCEPT ![r] = [Idle EXCEPT !.pc = "lock", !.kind = kind,
                                                        !.person = p]]
    /\ DatabaseUnchanged

\* activate_password, activate_oauth_complete: FOR UPDATE, which waits.
LockToActivate(r) ==
    /\ req[r].kind = "activate" /\ At(r, "lock")
    /\ LET p == Person(r)
       IN  IF Pending(p) THEN Goto(r, "sweep")
           ELSE IF status[p] = "consumed" /\ p \in members
           THEN req' = [req EXCEPT ![r].pc = "sweep", ![r].kind = "repair"]
           ELSE Goto(r, "idle")
    /\ DatabaseUnchanged

\* Mutant: a revocation does not look at the status.
LockToRevokeAnyway(r) ==
    /\ req[r].kind = "revoke" /\ At(r, "lock")
    /\ Goto(r, IF \A q \in Others(r) : ~LocksInvite(q) THEN "sweep" ELSE "idle")
    /\ DatabaseUnchanged

\* revoke_teacher_invite: NOWAIT.
LockToRevoke(r) ==
    /\ req[r].kind = "revoke" /\ At(r, "lock")
    /\ Goto(r, IF /\ status[Person(r)] # "consumed"
                  /\ \A q \in Others(r) : ~LocksInvite(q)
               THEN "sweep" ELSE "idle")
    /\ DatabaseUnchanged

\* remove_teacher_membership: NOWAIT.
LockToRemove(r) ==
    /\ req[r].kind = "remove" /\ At(r, "lock")
    /\ Goto(r, IF /\ Person(r) \in members
                  /\ \A q \in Others(r) : ~LocksMember(q) /\ ~UsesMember(q)
               THEN "sweep" ELSE "idle")
    /\ DatabaseUnchanged

\* The UPDATE of the courses that name the person.
Sweep(r) ==
    /\ At(r, "sweep")
    /\ req' = [req EXCEPT ![r].pc = "commit", ![r].rows = Sweeps(r)]
    /\ DatabaseUnchanged

\* Mutant: a revoked invite counts as expired.
CommitSweepExpires(r) ==
    /\ req[r].kind = "revoke" /\ req[r].pc = "commit"
    /\ post' = [c \in Courses |-> IF c \in req[r].rows
                                  THEN [teacher |-> {}, waits |-> {}] ELSE post[c]]
    /\ status' = [status EXCEPT ![Person(r)] = "expired"]
    /\ Goto(r, "idle")
    /\ UNCHANGED <<members, expired>>

CommitSweep(r) ==
    /\ req[r].kind \notin Assigns /\ req[r].pc = "commit"
    /\ LET p == Person(r)
           kind == req[r].kind
           to == IF kind \in {"activate", "repair"} THEN {p} ELSE {}
       IN  /\ post' = [c \in Courses |->
                         IF c \in req[r].rows
                         THEN [teacher |-> to, waits |-> {}] ELSE post[c]]
           /\ status' = [status EXCEPT ![p] =
                           CASE kind = "activate" -> "consumed"
                             [] kind = "revoke" -> "revoked"
                             [] OTHER -> @]
           /\ members' = CASE kind = "activate" -> members \cup {p}
                           [] kind = "remove" -> members \ {p}
                           [] OTHER -> members
           /\ expired' = IF kind \in {"activate", "revoke"}
                         THEN expired \ {p} ELSE expired
    /\ Goto(r, "idle")

-----------------------------------------------------------------------------
(* Time, and what goes wrong *)

\* resend_teacher_invite: NOWAIT, one row.
Resend(p) ==
    /\ status[p] = "pending" /\ p \in expired
    /\ \A q \in Requests : ~(LocksInvite(q) /\ Person(q) = p)
    /\ expired' = expired \ {p}
    /\ UNCHANGED <<database, req>>

Expire(p) ==
    /\ Pending(p)
    /\ expired' = expired \cup {p}
    /\ UNCHANGED <<database, req>>

\* The database fails a statement, or ends a deadlock by failing one of those
\* who wait in it: the transaction is rolled back.
Fail(r) ==
    /\ req[r].pc # "idle"
    /\ Goto(r, "idle")
    /\ DatabaseUnchanged

-----------------------------------------------------------------------------
(* Specification *)

Init ==
    /\ status = [p \in People |-> "pending"] /\ expired = {}
    /\ members \in SUBSET People
    /\ post \in [Courses -> {[teacher |-> t, waits |-> {}] :
                               t \in {{}} \cup {{p} : p \in members}}]
    /\ req = [r \in Requests |-> Idle]

Serve(r) == \/ Resolve(r) \/ Write(r) \/ Refer(r) \/ CommitAssign(r)
            \/ LockToActivate(r) \/ LockToRevoke(r) \/ LockToRemove(r)
            \/ Sweep(r) \/ CommitSweep(r)

Next == \/ \E r \in Requests : \/ BeginAssign(r) \/ BeginSweep(r)
                               \/ Serve(r) \/ Fail(r)
        \/ \E p \in People : Resend(p) \/ Expire(p)

Spec == Init /\ [][Next]_vars

-----------------------------------------------------------------------------
(* Properties *)

TypeOK ==
    /\ status \in [People -> {"pending", "consumed", "revoked"}]
    /\ expired \subseteq People /\ members \subseteq People
    /\ post \in [Courses -> Rows]
    /\ req \in [Requests -> Reqs]

\* No course waits for somebody who has answered or whose invite was revoked:
\* nothing would ever give it a teacher.
NoCourseWaitsInVain ==
    \A c \in Courses : \A p \in post[c].waits : status[p] = "pending"

\* Who teaches is a teacher of the university, and nobody else is awaited.
PostsAreHeld ==
    \A c \in Courses : /\ post[c].teacher \subseteq members
                       /\ Xor(post[c])

\* Whatever the requests read and lock, who teaches what changes as
\* TeacherPosts says: one request at a time, all courses of a person at once.
Posts == INSTANCE TeacherPosts
ImplementsPosts == Posts!Spec
=============================================================================
