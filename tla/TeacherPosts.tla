---------------------------- MODULE TeacherPosts ----------------------------
(***************************************************************************)
(* What an administrator is promised about who teaches a course: a course  *)
(* has nobody, a teacher, or a person who has been invited and has not     *)
(* answered; and an answer, a revocation or a removal settles at once      *)
(* every course that names the person.                                     *)
(***************************************************************************)
CONSTANTS Courses, People

\* status of the invite of a person, members: the teachers of the
\* university, post: who has the post of each course.
VARIABLES status, members, post

vars == <<status, members, post>>

Nobody == [teacher |-> {}, waits |-> {}]
Taught(p) == [teacher |-> {p}, waits |-> {}]
Awaits(p) == [teacher |-> {}, waits |-> {p}]
Posts == {Nobody} \cup {Taught(p) : p \in People} \cup {Awaits(p) : p \in People}

Init == /\ status \in [People -> {"pending"}]
        /\ members \in SUBSET People
        /\ post \in [Courses -> {Nobody} \cup {Taught(p) : p \in members}]

Assign(c) ==
    /\ \/ \E p \in members : post' = [post EXCEPT ![c] = Taught(p)]
       \/ \E p \in People : /\ status[p] = "pending"
                            /\ post' = [post EXCEPT ![c] = Awaits(p)]
    /\ UNCHANGED <<status, members>>

\* Every course with the post from gets the post to.
Settle(from, to) ==
    post' = [c \in Courses |-> IF post[c] = from THEN to ELSE post[c]]

Activate(p) ==
    /\ status[p] = "pending" /\ status' = [status EXCEPT ![p] = "consumed"]
    /\ members' = members \cup {p}
    /\ Settle(Awaits(p), Taught(p))

Revoke(p) ==
    /\ status[p] = "pending" /\ status' = [status EXCEPT ![p] = "revoked"]
    /\ Settle(Awaits(p), Nobody)
    /\ UNCHANGED members

Remove(p) ==
    /\ p \in members /\ members' = members \ {p}
    /\ Settle(Taught(p), Nobody)
    /\ UNCHANGED status

Next == \/ \E c \in Courses : Assign(c)
        \/ \E p \in People : Activate(p) \/ Revoke(p) \/ Remove(p)

Spec == Init /\ [][Next]_vars
=============================================================================
