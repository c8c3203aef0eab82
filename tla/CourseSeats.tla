---------------------------- MODULE CourseSeats ----------------------------
(***************************************************************************)
(* How students get into one course: over its access link, on seats that   *)
(* are counted under a lock of the course (shared/course_access.py), or by *)
(* an invite, which asks for no seat (shared/app.py); and how the link is  *)
(* rotated and the course edited meanwhile.                                *)
(*                                                                         *)
(*   course    max_students and status, as committed                       *)
(*   links     the tokens whose link is active; issued counts the tokens   *)
(*   accounts  the students with an account at Supabase                    *)
(*   members   the students with an active membership, as committed        *)
(*   enrolled  the students with a course membership, as committed         *)
(*   invite    the state of each student's invite to the course            *)
(*   req       the requests: what each has read, locked and not committed  *)
(*                                                                         *)
(* A statement is an action, and takes the locks its transaction keeps to  *)
(* its end: FOR UPDATE on the course and on the invite, the row of a       *)
(* profile that is upserted, the entry of a new course membership in its   *)
(* unique index, and then the key-share lock on the course that the        *)
(* foreign key of the entry takes.                                         *)
(***************************************************************************)
EXTENDS Naturals, FiniteSets

CONSTANTS
    Requests,   \* the requests of students and of those who rotate the link
    Students,
    Limits,     \* the values max_students may be given
    Faults      \* what may go wrong: "database", "supabase"

ASSUME StudentsAssumption == Students # {} /\ IsFiniteSet(Students)
ASSUME LimitsAssumption == Limits # {} /\ Limits \subseteq Nat \ {0}
ASSUME FaultsAssumption == Faults \subseteq {"database", "supabase"}
ASSUME RequestsAssumption == IsFiniteSet(Requests)

VARIABLES course, links, issued, accounts, members, enrolled, invite, req

committed == <<course, members, enrolled, invite>>
linkVars == <<links, issued>>
vars == <<committed, linkVars, accounts, req>>

Courses == [max : Limits, status : {"active", "inactive"}]

\* enroll: a student who is signed in and has a membership; complete: one who
\* is signed in; password: one who has no account yet, all with the link.
\* redeem: a signed-in student with an invite; invite: activation with one.
\* rotate: not a student's, a new link for the course.
LinkKinds == {"enroll", "complete", "password"}
Kinds == LinkKinds \cup {"redeem", "invite", "rotate"}
Phases == {"idle", "lock", "account", "check", "profile", "enrol", "key",
           "consume", "commit", "undo", "rotate", "done"}
Locks == {"course", "profile", "key", "invite"}

\* saw: max_students as a request over the link read it, which the lock does not
\* refresh; member: a membership was found before the lock; created: the
\* request made the account; inserted: it inserted the course membership;
\* locks: the rows its transaction has locked; rotates: the active links a
\* rotation has locked.
Reqs == [pc : Phases, kind : Kinds, who : Students, saw : Limits,
         member : BOOLEAN, created : BOOLEAN, inserted : BOOLEAN,
         locks : SUBSET Locks, rotates : SUBSET Nat]

-----------------------------------------------------------------------------
(* Locks *)

OverLink(r) == req[r].kind \in LinkKinds
Who(r) == req[r].who

\* Mutant: seats are counted without locking the course.
HoldsCourseNever(r) == FALSE

HoldsCourse(r) == "course" \in req[r].locks
SharesCourse(r) == "key" \in req[r].locks
HoldsProfile(r) == "profile" \in req[r].locks
HoldsInvite(r) == "invite" \in req[r].locks
HoldsEntry(r) == req[r].inserted

\* The requests whose locks r waits for.
WaitsFor(r) ==
    {q \in Requests \ {r} :
        \/ req[r].pc = "lock" /\ OverLink(r) /\ (HoldsCourse(q) \/ SharesCourse(q))
        \/ req[r].pc \in {"key", "rotate"} /\ HoldsCourse(q)
        \/ /\ Who(q) = Who(r)
           /\ \/ req[r].pc = "lock" /\ ~OverLink(r) /\ HoldsInvite(q)
              \/ req[r].pc = "profile" /\ HoldsProfile(q)
              \/ req[r].pc = "enrol" /\ Who(r) \notin enrolled /\ HoldsEntry(q)
              \/ req[r].pc = "consume" /\ HoldsInvite(q)}

At(r, pc) == req[r].pc = pc /\ WaitsFor(r) = {}

\* A request that is not being served: nothing but where it stands matters.
Idle(pc) == [pc |-> pc, kind |-> "enroll", who |-> CHOOSE s \in Students : TRUE,
             saw |-> CHOOSE n \in Limits : TRUE,
             member |-> FALSE, created |-> FALSE, inserted |-> FALSE,
             locks |-> {}, rotates |-> {}]

\* Mutant: an enrolment over the link counts the seats after its insert.
ThenCountsLast(kind, pc) ==
    CASE pc = "idle" -> IF kind \in {"enroll", "redeem"} THEN "enrol" ELSE "lock"
      [] pc = "lock" -> CASE kind = "enroll" -> "commit"
                          [] kind = "complete" -> "profile"
                          [] OTHER -> "account"
      [] pc = "account" -> IF kind = "password" THEN "check" ELSE "profile"
      [] pc = "check" -> "profile"
      [] pc = "profile" -> "enrol"
      [] pc = "enrol" -> "key"
      [] pc = "key" -> CASE kind = "enroll" -> "lock"
                         [] kind = "redeem" -> "consume"
                         [] OTHER -> "commit"
      [] OTHER -> "commit"

\* The statement of a handler that follows the one at pc.
Then(kind, pc) ==
    CASE pc = "idle" -> IF kind = "redeem" THEN "enrol" ELSE "lock"
      [] pc = "lock" -> CASE kind = "enroll" -> "enrol"
                          [] kind = "complete" -> "profile"
                          [] OTHER -> "account"
      [] pc = "account" -> IF kind = "password" THEN "check" ELSE "profile"
      [] pc = "check" -> "profile"
      [] pc = "profile" -> "enrol"
      [] pc = "enrol" -> "key"
      [] pc = "key" -> IF kind = "redeem" THEN "consume" ELSE "commit"
      [] OTHER -> "commit"

Goes(r, pc, taken) ==
    req' = [req EXCEPT ![r].pc = pc, ![r].locks = @ \cup taken]
\* The transaction has ended.
Ends(r, pc) ==
    req' = [req EXCEPT ![r] =
              IF pc = "done" THEN Idle("done")
              ELSE [@ EXCEPT !.pc = pc, !.inserted = FALSE, !.locks = {}]]
DatabaseUnchanged == UNCHANGED <<committed, linkVars>>
OthersUnchanged == DatabaseUnchanged /\ UNCHANGED accounts

-----------------------------------------------------------------------------
(* Requests over the link *)

\* The link is active and so is the course; the account and the membership
\* are what the kind of request asks for. A refused request changes nothing
\* and is left out.
Resolve(r) ==
    /\ req[r].pc = "idle"
    /\ links # {} /\ course.status = "active"
    /\ \E kind \in LinkKinds, s \in Students :
         /\ kind = "password" => s \notin accounts
         /\ kind = "complete" => s \in accounts /\ ~(s \in members \cap enrolled)
         /\ kind = "enroll" => s \in accounts \cap members
         /\ req' = [req EXCEPT ![r] =
              [pc |-> Then(kind, "idle"), kind |-> kind, who |-> s, saw |-> course.max,
               member |-> kind # "password" /\ s \in members,
               created |-> FALSE, inserted |-> FALSE,
               locks |-> {}, rotates |-> {}]]
    /\ OthersUnchanged

\* _ensure_course_capacity_available: the lock, then the count against the
\* max_students read before it. A student known to be enrolled needs no seat.
CountSeats(r) ==
    /\ OverLink(r) /\ At(r, "lock")
    /\ IF \/ req[r].member /\ Who(r) \in enrolled
          \/ Cardinality(enrolled) < req[r].saw
       THEN Goes(r, Then(req[r].kind, "lock"), {"course"})
       ELSE Ends(r, "done")
    /\ OthersUnchanged

-----------------------------------------------------------------------------
(* Requests with an invite *)

\* activate_password: the invite is read FOR UPDATE.
BeginInvite(r) ==
    /\ req[r].pc = "idle"
    /\ \E s \in Students :
         req' = [req EXCEPT ![r] =
              [Idle(Then("invite", "idle")) EXCEPT !.kind = "invite", !.who = s]]
    /\ OthersUnchanged

LockInvite(r) ==
    /\ req[r].kind = "invite" /\ At(r, "lock")
    /\ IF invite[Who(r)] = "pending"
       THEN Goes(r, Then("invite", IF Who(r) \in accounts THEN "account"
                                                          ELSE "lock"), {"invite"})
       ELSE Ends(r, "done")
    /\ OthersUnchanged

\* redeem_invite reads the invite without a lock. A student who is already
\* enrolled only consumes it.
Redeem(r) ==
    /\ req[r].pc = "idle"
    /\ \E s \in accounts \cap members :
         /\ s \in enrolled \/ invite[s] = "pending"
         /\ req' = [req EXCEPT ![r] =
              [Idle(Then("redeem", IF s \in enrolled THEN "key" ELSE "idle"))
                 EXCEPT !.kind = "redeem", !.who = s]]
    /\ OthersUnchanged

\* Mutant: the invite is consumed in a transaction of its own.
ConsumeAtOnce(r) ==
    /\ At(r, "consume")
    /\ IF invite[Who(r)] = "pending" THEN Goes(r, "commit", {}) ELSE Ends(r, "done")
    /\ invite' = [invite EXCEPT ![Who(r)] = IF @ = "pending" THEN "consumed"
                                           ELSE @]
    /\ UNCHANGED <<course, members, enrolled, linkVars, accounts>>

\* UPDATE ... WHERE status = 'pending': without a row, the enrolment is
\* rolled back.
Consume(r) ==
    /\ At(r, "consume")
    /\ IF invite[Who(r)] = "pending"
       THEN Goes(r, Then(req[r].kind, "consume"), {"invite"})
       ELSE Ends(r, "done")
    /\ OthersUnchanged

-----------------------------------------------------------------------------
(* What they share *)

\* get_or_create_user_by_email, outside of any transaction. When it raises,
\* the request ends; the account may be there.
CreateAccount(r) ==
    /\ req[r].pc = "account"
    /\ \/ /\ accounts' = accounts \cup {Who(r)}
          /\ req' = [req EXCEPT ![r].pc = Then(req[r].kind, "account"),
                                ![r].created = Who(r) \notin accounts]
       \/ /\ "supabase" \in Faults
          /\ accounts' \in {accounts, accounts \cup {Who(r)}}
          /\ Ends(r, "done")
    /\ DatabaseUnchanged

\* _assert_not_staff_account reads the memberships of the account, before the
\* handler has anything to undo.
CheckAccount(r) ==
    /\ req[r].pc = "check"
    /\ Goes(r, Then(req[r].kind, "check"), {})
    /\ OthersUnchanged

\* The upserts of the profile, the membership and the legacy user.
UpsertProfile(r) ==
    /\ At(r, "profile")
    /\ Goes(r, Then(req[r].kind, "profile"), {"profile"})
    /\ OthersUnchanged

\* ensure_course_membership: ON CONFLICT DO NOTHING, which waits for an entry
\* that is not committed,
Enrol(r) ==
    /\ At(r, "enrol")
    /\ LET inserts == Who(r) \notin enrolled
       IN  req' = [req EXCEPT
                     ![r].pc = Then(req[r].kind, IF inserts THEN "enrol" ELSE "key"),
                     ![r].inserted = inserts]
    /\ OthersUnchanged

\* and, when the entry stands, its foreign key: FOR KEY SHARE on the course.
ShareCourse(r) ==
    /\ At(r, "key")
    /\ Goes(r, Then(req[r].kind, "key"), {"key"})
    /\ OthersUnchanged

\* Mutant: a status that the check constraint of the table refuses.
CommitsAccepted(r) ==
    /\ enrolled' = IF req[r].inserted THEN enrolled \cup {Who(r)} ELSE enrolled
    /\ invite' = IF OverLink(r) THEN invite
                 ELSE [invite EXCEPT ![Who(r)] = "accepted"]
    /\ UNCHANGED <<course, members, accounts, linkVars>>

\* What the transaction of r makes visible.
Commits(r) ==
    /\ enrolled' = IF req[r].inserted THEN enrolled \cup {Who(r)} ELSE enrolled
    /\ members' = IF req[r].kind \in {"enroll", "redeem"} THEN members
                  ELSE members \cup {Who(r)}
    /\ invite' = IF OverLink(r) THEN invite
                 ELSE [invite EXCEPT ![Who(r)] = "consumed"]
    /\ UNCHANGED <<course, accounts, linkVars>>

Commit(r) ==
    /\ req[r].pc = "commit"
    /\ Ends(r, "done")
    /\ Commits(r)

\* Mutant: the handler forgets the account.
AbortsOnly(r) == Ends(r, "done")

\* The handler of the activations: rollback, then the account made by this
\* request is deleted. The check of the account is not inside of it, and the
\* other requests have nothing to undo.
Aborts(r) == Ends(r, IF req[r].created /\ req[r].pc # "check" THEN "undo"
                                                             ELSE "done")

Fail(r) ==
    /\ "database" \in Faults
    /\ req[r].pc \in {"lock", "check", "profile", "enrol", "key", "consume",
                      "commit"}
    /\ Aborts(r)
    /\ OthersUnchanged

\* The commit is applied and its acknowledgement lost.
CommitUnacknowledged(r) ==
    /\ "database" \in Faults
    /\ req[r].pc = "commit"
    /\ Aborts(r)
    /\ Commits(r)

Undo(r) ==
    /\ req[r].pc = "undo"
    /\ Ends(r, "done")
    /\ \/ accounts' = accounts \ {Who(r)}
       \/ "supabase" \in Faults /\ UNCHANGED accounts
    /\ DatabaseUnchanged

\* PostgreSQL ends a deadlock by failing one of those who wait in it.
Deadlocked == UNION {S \in SUBSET Requests :
                       \A q \in S : /\ WaitsFor(q) \cap S # {}
                                    /\ \E p \in S : q \in WaitsFor(p)}

DeadlockVictim(r) ==
    /\ r \in Deadlocked
    /\ Aborts(r)
    /\ OthersUnchanged

-----------------------------------------------------------------------------
(* The course and its link *)

\* update_admin_course: waits for whoever has locked the course.
UpdateCourse ==
    /\ \A r \in Requests : ~HoldsCourse(r)
    /\ course' \in Courses
    /\ UNCHANGED <<members, enrolled, invite, linkVars, accounts, req>>

\* regenerate_course_access_link: the advisory lock is taken or the request
\* refused; the active links are read and locked until the commit.
Rotate(r, advised) ==
    /\ req[r].pc = "idle" /\ course.status = "active"
    /\ req' = [req EXCEPT ![r] =
                 IF advised
                 THEN [Idle("rotate") EXCEPT !.kind = "rotate",
                                             !.rotates = links]
                 ELSE Idle("done")]
    /\ OthersUnchanged

\* Mutant: no advisory lock.
BeginRotationAnyway(r) == Rotate(r, TRUE)

BeginRotation(r) == Rotate(r, \A q \in Requests : req[q].pc # "rotate")

\* The foreign key of the new link waits for whoever has locked the course.
EndRotation(r) ==
    /\ At(r, "rotate")
    /\ Ends(r, "done")
    /\ \/ /\ links' = (links \ req[r].rotates) \cup {issued + 1}
          /\ issued' = issued + 1
       \/ "database" \in Faults /\ UNCHANGED <<links, issued>>
    /\ UNCHANGED <<committed, accounts>>

-----------------------------------------------------------------------------
(* Specification *)

Init ==
    /\ course \in [max : Limits, status : {"active"}]
    /\ links = {1} /\ issued = 1
    /\ accounts \in SUBSET Students /\ members \in SUBSET accounts
    /\ enrolled = {}
    /\ invite \in [Students -> {"none", "pending"}]
    /\ req = [r \in Requests |-> Idle("idle")]

\* What a request does once the server has begun it.
Serve(r) == \/ CountSeats(r) \/ LockInvite(r) \/ Consume(r) \/ CreateAccount(r)
            \/ CheckAccount(r) \/ UpsertProfile(r) \/ Enrol(r) \/ ShareCourse(r)
            \/ Commit(r) \/ Undo(r) \/ DeadlockVictim(r) \/ EndRotation(r)
Begin(r) == Resolve(r) \/ BeginInvite(r) \/ Redeem(r) \/ BeginRotation(r)

Next ==
    \/ \E r \in Requests : Begin(r) \/ Serve(r) \/ Fail(r)
                           \/ CommitUnacknowledged(r)
    \/ UpdateCourse

Spec == Init /\ [][Next]_vars

-----------------------------------------------------------------------------
(* Properties *)

TypeOK ==
    /\ course \in Courses
    /\ issued \in Nat /\ links \subseteq 1 .. issued
    /\ accounts \subseteq Students
    /\ members \subseteq Students /\ enrolled \subseteq Students
    /\ invite \in [Students -> {"none", "pending", "consumed"}]
    /\ req \in [Requests -> Reqs]

\* The last seat has one taker: a student who comes over the link gets a seat
\* only while there are fewer than the limit the request read, though others
\* come over the link and by invite at the same time.
SeatWithinLimit ==
    \A r \in Requests :
        /\ OverLink(r) /\ req[r].pc = "commit" /\ req[r].inserted
        => /\ Who(r) \notin enrolled
           /\ Cardinality(enrolled) < req[r].saw

\* An invite is used up exactly by an enrolment: one that is consumed has
\* enrolled its student, whatever fails in between.
ConsumedHasEnrolled ==
    \A s \in Students : invite[s] = "consumed" => s \in enrolled \cap members

\* An activation that made its account and fails in its handler leaves no
\* account behind, unless Supabase refuses the compensating delete: its
\* student could not activate again (account_exists_sign_in_required). What
\* fails at the check of the account, before the handler, does leave one.
NoAccountLeaks ==
    [][\A r \in Requests :
         /\ req[r].created /\ req[r].pc \notin {"check", "done"}
         /\ req'[r].pc = "done"
         => Who(r) \in accounts' \cap members' \/ Who(r) \notin accounts']_vars

\* The course has one active link: two rotations never leave two, which the
\* partial unique index would refuse with a 500.
OneActiveLink == Cardinality(links) = 1

\* Who waits for each other in a circle are requests of one student, and one
\* of them uses his invite: students who rush for the last seats over the link,
\* or by invites of their own, never deadlock each other.
DeadlocksAreOfOneStudent ==
    \A r \in Deadlocked :
        /\ \A q \in Deadlocked \cap WaitsFor(r) : Who(q) = Who(r)
        /\ \E q \in Deadlocked : Who(q) = Who(r) /\ ~OverLink(q)

\* Which they are: one over the link, before its profile or before its
\* enrolment, and an activation with the invite or a redemption of it.
Stands(r, kinds, pc) == req[r].kind \in kinds /\ req[r].pc = pc
Pair(r, q) ==
    /\ Who(r) = Who(q) /\ q \in WaitsFor(r) /\ r \in WaitsFor(q)
    /\ \/ Stands(r, LinkKinds, "profile") /\ Stands(q, {"invite"}, "key")
       \/ Stands(r, LinkKinds, "enrol") /\ Stands(q, {"invite", "redeem"}, "key")
       \/ Stands(r, {"invite"}, "enrol") /\ Stands(q, {"redeem"}, "consume")
Triple(r, q, p) ==
    /\ Who(r) = Who(q) /\ Who(r) = Who(p)
    /\ q \in WaitsFor(r) /\ p \in WaitsFor(q) /\ r \in WaitsFor(p)
    /\ Stands(r, LinkKinds, "profile") /\ Stands(q, {"invite"}, "enrol")
    /\ Stands(p, {"redeem"}, "key")
DeadlockShapes ==
    \A r \in Deadlocked : \E x, y, z \in Deadlocked :
        /\ r \in {x, y, z}
        /\ (Pair(x, y) /\ z = x) \/ Triple(x, y, z)

\* An invite is locked by one request at a time.
InviteHeldOnce ==
    \A r, q \in Requests :
        HoldsInvite(r) /\ HoldsInvite(q) /\ Who(r) = Who(q) => r = q

\* Who does not go on waits in the end for one who does, or in a deadlock,
\* which PostgreSQL ends.
SomebodyGoesOn ==
    (\E r \in Requests : req[r].pc \notin {"idle", "done"})
    => \E r \in Requests : \/ req[r].pc \notin {"idle", "done"} /\ WaitsFor(r) = {}
                          \/ r \in Deadlocked
=============================================================================
