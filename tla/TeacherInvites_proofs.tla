----------------------- MODULE TeacherInvites_proofs -----------------------
(***************************************************************************)
(* Proofs about TeacherInvites, for any courses, people and requests: its  *)
(* types, that no course waits in vain, that posts are held, and that it   *)
(* implements TeacherPosts.                                                *)
(***************************************************************************)
EXTENDS TeacherInvites, TLAPS

USE CoursesAssumption, PeopleAssumption

-----------------------------------------------------------------------------
(* The locks and the writes of a request, as functions of its record *)

Invites == {"activate", "repair", "revoke"}
LI(x) == \/ x.kind = "invite" /\ x.pc \in {"write", "commit"}
         \/ x.kind \in Invites /\ x.pc \in {"sweep", "commit"}
LM(x) == x.kind = "remove" /\ x.pc \in {"sweep", "commit"}
LC(x, c) == \/ x.kind \in Assigns /\ x.course = c /\ x.pc \in {"refer", "commit"}
            \/ x.pc = "commit" /\ c \in x.rows
Refers(x) == x.kind = "member" /\ x.pc = "commit"
Upserts(x) == x.kind = "activate" /\ x.pc = "commit"

Wish(x) == IF x.kind = "member" THEN [teacher |-> {x.person}, waits |-> {}]
                                ELSE [teacher |-> {}, waits |-> {x.person}]
Row(x) == [teacher |-> IF Wish(x).teacher = x.saw.teacher
                       THEN post[x.course].teacher ELSE Wish(x).teacher,
           waits |-> IF Wish(x).waits = x.saw.waits
                     THEN post[x.course].waits ELSE Wish(x).waits]
Named(x) == {c \in Courses : IF x.kind = "remove"
                             THEN post[c].teacher = {x.person}
                             ELSE post[c].waits = {x.person}}

-----------------------------------------------------------------------------
(* The invariant *)

\* What a request may rely on while it holds its locks.
Sound(x) ==
    /\ Xor(x.saw)
    /\ x.pc \in {"resolve", "write", "refer"} => x.kind \in Assigns
    /\ x.pc \in {"lock", "sweep"} => x.kind \notin Assigns
    /\ x.pc = "refer" => x.kind = "member"
    /\ LI(x) /\ x.kind \in {"invite", "activate"} => status[x.person] = "pending"
    /\ LI(x) /\ x.kind = "revoke" => status[x.person] # "consumed"
    /\ LI(x) /\ x.kind = "repair" => status[x.person] = "consumed"
    /\ LM(x) => x.person \in members
    /\ x.kind \in Assigns /\ x.pc \in {"refer", "commit"} => Row(x) = Wish(x)
    /\ Refers(x) => x.person \in members
    /\ x.kind \in Assigns => x.rows = {}
    /\ x.kind \notin Assigns /\ x.pc = "commit" => x.rows = Named(x)

\* What the locks of two requests exclude. A course may be given again to
\* the teacher it has while that teacher is being removed: the key is not
\* checked, but the row is locked.
Apart(x, y) ==
    /\ \A c \in Courses : ~(LC(x, c) /\ LC(y, c))
    /\ x.person = y.person =>
         /\ ~(LI(x) /\ LI(y))
         /\ ~(LM(x) /\ LM(y))
         /\ ~(Upserts(x) /\ LM(y)) /\ ~(LM(x) /\ Upserts(y))
         /\ Refers(x) /\ LM(y) => post[x.course].teacher = {x.person}
         /\ LM(x) /\ Refers(y) => post[y.course].teacher = {y.person}

InvitesInv ==
    /\ TypeOK
    /\ \A r \in Requests : Sound(req[r])
    /\ \A r, q \in Requests : r # q => Apart(req[r], req[q])
    /\ NoCourseWaitsInVain
    /\ PostsAreHeld

-----------------------------------------------------------------------------
(* Lemmas *)

LEMMA ApartSymmetric == ASSUME NEW x, NEW y, Apart(x, y) PROVE Apart(y, x)
  BY DEF Apart

LEMMA RecordOf ==
    ASSUME InvitesInv, NEW r \in Requests
    PROVE  /\ req \in [Requests -> Reqs] /\ req[r] \in Reqs /\ Sound(req[r])
           /\ Person(r) = req[r].person /\ Person(r) \in People
           /\ req[r].course \in Courses /\ expired \subseteq People
           /\ LocksInvite(r) = LI(req[r]) /\ LocksMember(r) = LM(req[r])
           /\ \A c : LocksCourse(r, c) = LC(req[r], c)
           /\ Wanted(r) = Wish(req[r]) /\ Written(r) = Row(req[r])
           /\ Differs(r) = (Wish(req[r]) # req[r].saw)
  <1>1. req \in [Requests -> Reqs] /\ req[r] \in Reqs /\ Sound(req[r])
        /\ expired \subseteq People
    BY DEF InvitesInv, TypeOK
  <1>2. Person(r) = req[r].person /\ Person(r) \in People
        /\ req[r].course \in Courses
    BY <1>1 DEF Person, Reqs
  <1>3. LocksInvite(r) = LI(req[r]) /\ LocksMember(r) = LM(req[r])
        /\ \A c : LocksCourse(r, c) = LC(req[r], c)
    BY DEF LocksInvite, LI, Invites, LocksMember, LM, LocksCourse, LC
  <1>4. Wanted(r) = Wish(req[r])
    BY DEF Wanted, Wish, Person
  <1>5. Written(r) = Row(req[r]) /\ Differs(r) = (Wish(req[r]) # req[r].saw)
    BY <1>4 DEF Written, Row, Differs
  <1> QED
    BY <1>1, <1>2, <1>3, <1>4, <1>5

LEMMA OthersOf ==
    ASSUME InvitesInv, NEW r \in Requests, NEW q \in Requests \ {r},
           req[q].person = req[r].person
    PROVE  q \in Others(r)
  BY DEF Others, Person

LEMMA IdleSound == Idle \in Reqs /\ Sound(Idle) /\ Idle.pc = "idle"
  <1>1. (CHOOSE c \in Courses : TRUE) \in Courses
    OBVIOUS
  <1>2. (CHOOSE p \in People : TRUE) \in People
    OBVIOUS
  <1>3. Idle \in Reqs
    BY <1>1, <1>2 DEF Idle, Reqs, Phases, Kinds, Rows, Columns
  <1>4. Idle.pc = "idle" /\ Idle.saw.teacher = {} /\ Idle.rows = {}
    BY DEF Idle
  <1> QED
    BY <1>3, <1>4 DEF Sound, Xor, LI, LM, Refers

LEMMA IdleApart == ASSUME NEW x, NEW y, x.pc \in {"idle", "resolve", "lock"}
                   PROVE  Apart(x, y)
  BY DEF Apart, LC, LI, LM, Refers, Upserts

\* A statement that writes no row that others see.
LEMMA StatementKeepsInv ==
    ASSUME InvitesInv, NEW r \in Requests, NEW x \in Reqs, Sound(x),
           \A q \in Requests \ {r} : Apart(x, req[q]),
           req' = [req EXCEPT ![r] = x], UNCHANGED database,
           expired' \subseteq People
    PROVE  InvitesInv'
  <1>1. req \in [Requests -> Reqs]
    BY DEF InvitesInv, TypeOK
  <1>2. /\ req' \in [Requests -> Reqs] /\ req'[r] = x
        /\ \A q \in Requests \ {r} : req'[q] = req[q]
    BY <1>1
  <1>3. UNCHANGED <<status, members, post>>
    BY DEF database
  <1>4. TypeOK'
    BY <1>2, <1>3 DEF InvitesInv, TypeOK
  <1>5. ASSUME NEW q \in Requests PROVE Sound(req[q])'
    <2>1. Sound(req'[q])
      BY <1>2 DEF InvitesInv
    <2> QED
      BY <1>3, <2>1
      DEF Sound, Row, Wish, Named, LI, LM, Refers, Xor, Invites, Assigns
  <1>6. ASSUME NEW q \in Requests, NEW u \in Requests, q # u
        PROVE  Apart(req[q], req[u])'
    <2>1. Apart(req'[q], req'[u])
      BY <1>2, <1>6, ApartSymmetric DEF InvitesInv
    <2> QED
      BY <1>3, <2>1 DEF Apart, LC, LI, LM, Refers, Upserts, Invites, Assigns
  <1>7. NoCourseWaitsInVain' /\ PostsAreHeld'
    BY <1>3 DEF InvitesInv, NoCourseWaitsInVain, PostsAreHeld, Xor
  <1> QED
    BY <1>4, <1>5, <1>6, <1>7 DEF InvitesInv

\* A request that is refused, fails or has been answered.
LEMMA EndKeepsInv ==
    ASSUME InvitesInv, NEW r \in Requests, Goto(r, "idle"), UNCHANGED database,
           expired' \subseteq People
    PROVE  InvitesInv'
  <1>1. req' = [req EXCEPT ![r] = Idle]
    BY DEF Goto
  <1>2. \A q \in Requests \ {r} : Apart(Idle, req[q])
    BY IdleSound, IdleApart
  <1> QED
    BY <1>1, <1>2, IdleSound, StatementKeepsInv

\* The record of a request that goes on: what it stays, and what it must fit.
Becomes(r, x, pc, kind, rows) ==
    /\ x.pc = pc /\ x.kind = kind /\ x.rows = rows /\ x.person = Person(r)
    /\ x.course = req[r].course /\ x.saw = req[r].saw
Fits(r, x) == Sound(x) /\ \A q \in Requests \ {r} : Apart(x, req[q])

LEMMA GoingKeepsInv ==
    ASSUME InvitesInv, NEW r \in Requests, NEW pc \in Phases, NEW kind \in Kinds,
           NEW rows \in SUBSET Courses,
           req' = [req EXCEPT ![r] = [req[r] EXCEPT !.pc = pc, !.kind = kind,
                                                    !.rows = rows]],
           DatabaseUnchanged,
           \A x \in Reqs : Becomes(r, x, pc, kind, rows) => Fits(r, x)
    PROVE  InvitesInv'
  <1> DEFINE x == [req[r] EXCEPT !.pc = pc, !.kind = kind, !.rows = rows]
  <1>1. x \in Reqs /\ Becomes(r, x, pc, kind, rows)
    BY RecordOf DEF Reqs, Becomes
  <1>2. UNCHANGED database /\ expired' \subseteq People
    BY RecordOf DEF DatabaseUnchanged
  <1> HIDE DEF x
  <1>3. Sound(x) /\ \A q \in Requests \ {r} : Apart(x, req[q])
    BY <1>1 DEF Fits
  <1> QED
    BY <1>1, <1>2, <1>3, StatementKeepsInv DEF x

LEMMA GotoKeepsInv ==
    ASSUME InvitesInv, NEW r \in Requests, NEW pc \in Phases \ {"idle"},
           Goto(r, pc), DatabaseUnchanged,
           \A x \in Reqs : Becomes(r, x, pc, req[r].kind, req[r].rows)
                           => Fits(r, x)
    PROVE  InvitesInv'
  <1>1. req' = [req EXCEPT ![r] = [req[r] EXCEPT !.pc = pc]]
    BY RecordOf DEF Goto
  <1>2. [req[r] EXCEPT !.pc = pc] = [req[r] EXCEPT !.pc = pc,
                                         !.kind = req[r].kind,
                                         !.rows = req[r].rows]
    BY RecordOf DEF Reqs
  <1>3. req[r].kind \in Kinds /\ req[r].rows \in SUBSET Courses
    BY RecordOf DEF Reqs
  <1>4. req' = [req EXCEPT ![r] = [req[r] EXCEPT !.pc = pc,
                                                 !.kind = req[r].kind,
                                                 !.rows = req[r].rows]]
    BY <1>1, <1>2
  <1> QED
    BY <1>3, <1>4, GoingKeepsInv

LEMMA RefusedKeepsInv ==
    ASSUME InvitesInv, NEW r \in Requests, Goto(r, "idle"), DatabaseUnchanged
    PROVE  InvitesInv'
  BY RecordOf, EndKeepsInv DEF DatabaseUnchanged

-----------------------------------------------------------------------------
(* The statements *)

LEMMA BeginAssignKeepsInv ==
    ASSUME InvitesInv, NEW r \in Requests, BeginAssign(r)
    PROVE  InvitesInv'
  <1>1. PICK c \in Courses, p \in People, kind \in Assigns :
          req' = [req EXCEPT ![r] =
                   [pc |-> "resolve", kind |-> kind, course |-> c,
                    person |-> p, saw |-> post[c], rows |-> {}]]
    BY DEF BeginAssign
  <1> DEFINE x == [pc |-> "resolve", kind |-> kind, course |-> c,
                   person |-> p, saw |-> post[c], rows |-> {}]
  <1>2. post[c] \in Rows /\ Xor(post[c])
    BY DEF InvitesInv, TypeOK, PostsAreHeld
  <1>3. /\ x \in Reqs /\ x.pc = "resolve" /\ x.kind \in Assigns
        /\ x.saw = post[c] /\ x.rows = {}
    BY <1>2 DEF Reqs, Phases, Kinds, Assigns
  <1>4. UNCHANGED database /\ expired' \subseteq People
    BY RecordOf DEF BeginAssign, DatabaseUnchanged
  <1> HIDE DEF x
  <1>5. Sound(x)
    BY <1>2, <1>3 DEF Sound, LI, LM, Refers
  <1>6. \A q \in Requests \ {r} : Apart(x, req[q])
    BY <1>3, IdleApart
  <1> QED
    BY <1>1, <1>3, <1>4, <1>5, <1>6, StatementKeepsInv DEF x

LEMMA BeginSweepKeepsInv ==
    ASSUME InvitesInv, NEW r \in Requests, BeginSweep(r)
    PROVE  InvitesInv'
  <1>1. PICK p \in People, kind \in {"activate", "revoke", "remove"} :
          req' = [req EXCEPT ![r] = [Idle EXCEPT !.pc = "lock", !.kind = kind,
                                                 !.person = p]]
    BY DEF BeginSweep
  <1> DEFINE x == [Idle EXCEPT !.pc = "lock", !.kind = kind, !.person = p]
  <1>2. x \in Reqs /\ x.pc = "lock" /\ x.kind = kind /\ x.saw = Idle.saw
    BY IdleSound DEF Reqs, Phases, Kinds
  <1>3. UNCHANGED database /\ expired' \subseteq People
    BY RecordOf DEF BeginSweep, DatabaseUnchanged
  <1> HIDE DEF x
  <1>4. Sound(x)
    BY <1>2, IdleSound DEF Sound, LI, LM, Refers, Assigns
  <1>5. \A q \in Requests \ {r} : Apart(x, req[q])
    BY <1>2, IdleApart
  <1> QED
    BY <1>1, <1>2, <1>3, <1>4, <1>5, StatementKeepsInv DEF x

LEMMA ResolveKeepsInv ==
    ASSUME InvitesInv, NEW r \in Requests, Resolve(r)
    PROVE  InvitesInv'
  <1>1. DatabaseUnchanged /\ req[r].pc = "resolve" /\ req[r].kind \in Assigns
    BY RecordOf DEF Resolve, At, Sound
  <1>2. CASE Goto(r, "idle")
    BY <1>1, <1>2, RefusedKeepsInv
  <1>3. CASE ~Goto(r, "idle")
    <2>1. Goto(r, "write")
      BY <1>3 DEF Resolve
    <2>2. req[r].kind = "invite" =>
            /\ status[Person(r)] = "pending"
            /\ \A q \in Others(r) : ~LocksInvite(q)
      BY <1>3 DEF Resolve, Pending
    <2>3. ASSUME NEW x \in Reqs,
                 Becomes(r, x, "write", req[r].kind, req[r].rows)
          PROVE  Fits(r, x)
      <3>1. /\ x.pc = "write" /\ x.kind = req[r].kind /\ x.saw = req[r].saw
            /\ x.person = Person(r) /\ x.rows = req[r].rows
        BY <2>3 DEF Becomes
      <3>2. Sound(x)
        BY <1>1, <2>2, <3>1, RecordOf
        DEF Sound, LI, LM, Refers, Assigns, Invites
      <3>3. ASSUME NEW q \in Requests \ {r} PROVE Apart(x, req[q])
        <4>1. x.person = req[q].person => ~(LI(x) /\ LI(req[q]))
          BY <1>1, <2>2, <3>1, OthersOf, RecordOf DEF LI, Assigns, Invites
        <4> QED
          BY <1>1, <3>1, <4>1 DEF Apart, LC, LM, Refers, Upserts, Assigns
      <3> QED
        BY <3>2, <3>3 DEF Fits
    <2>4. "write" \in Phases \ {"idle"}
      BY DEF Phases
    <2> QED
      BY <1>1, <2>1, <2>3, <2>4, GotoKeepsInv
  <1> QED
    BY <1>2, <1>3

\* A request that holds the row of a course: nobody else holds it.
LEMMA WriteKeepsInv ==
    ASSUME InvitesInv, NEW r \in Requests, Write(r)
    PROVE  InvitesInv'
  <1>1. /\ DatabaseUnchanged /\ req[r].pc = "write" /\ req[r].kind \in Assigns
        /\ WaitsFor(r) = {}
    BY RecordOf DEF Write, At, Sound
  <1>2. CASE Goto(r, "idle")
    BY <1>1, <1>2, RefusedKeepsInv
  <1>3. CASE ~Goto(r, "idle")
    <2> DEFINE c == req[r].course
               pc == IF Written(r).teacher \subseteq post[c].teacher
                     THEN "commit" ELSE "refer"
    <2>1. Goto(r, pc) /\ Differs(r) /\ Xor(Written(r))
      BY <1>3 DEF Write
    <2>2. Wish(req[r]) # req[r].saw /\ Xor(Row(req[r])) /\ Xor(req[r].saw)
      BY <2>1, RecordOf DEF Sound
    <2>3. c \in Courses /\ post[c] \in Rows /\ Person(r) \in People
          /\ req[r].saw \in Rows
      BY RecordOf DEF InvitesInv, TypeOK, Reqs
    <2>4. Row(req[r]) = Wish(req[r])
      BY <1>1, <2>2, <2>3, RecordOf DEF Row, Wish, Xor, Rows, Columns, Assigns
    <2>5. pc = "commit" /\ req[r].kind = "member"
            => post[c].teacher = {Person(r)}
      <3> SUFFICES ASSUME pc = "commit", req[r].kind = "member"
                   PROVE  post[c].teacher = {Person(r)}
        OBVIOUS
      <3>0. Written(r) = Wish(req[r]) /\ Person(r) = req[r].person
        BY <2>4, RecordOf
      <3>1. Written(r).teacher = {Person(r)}
        BY <3>0 DEF Wish
      <3>2. {Person(r)} \subseteq post[c].teacher
        BY <3>1
      <3>3. post[c].teacher \in Columns
        BY <2>3 DEF Rows
      <3> QED
        BY <3>2, <3>3 DEF Columns
    <2>6. pc = "refer" => req[r].kind = "member"
      BY <1>1, <2>4, RecordOf DEF Wish, Assigns
    <2>7. \A q \in Requests \ {r} : ~LC(req[q], c)
      BY <1>1, <2>1, RecordOf DEF WaitsFor
    <2>8. pc \in {"commit", "refer"}
      OBVIOUS
    <2> HIDE DEF pc, c
    <2>9. ASSUME NEW x \in Reqs, Becomes(r, x, pc, req[r].kind, req[r].rows)
          PROVE  Fits(r, x)
      <3>1. /\ x.pc = pc /\ x.kind = req[r].kind /\ x.saw = req[r].saw
            /\ x.person = req[r].person /\ x.course = c /\ x.rows = {}
        BY <1>1, <2>9, RecordOf DEF Becomes, Sound, c
      <3>2. Row(x) = Wish(x)
        BY <2>4, <3>1 DEF Row, Wish, c
      <3>3. LI(x) => LI(req[r]) /\ x.kind = "invite"
        BY <1>1, <3>1 DEF LI, Assigns, Invites
      <3>4. Refers(x) => post[c].teacher = {x.person} /\ x.person \in members
        BY <2>3, <2>5, <3>1, RecordOf DEF Refers, InvitesInv, PostsAreHeld
      <3>5. Sound(x)
        BY <1>1, <2>6, <2>8, <3>1, <3>2, <3>3, <3>4, RecordOf
        DEF Sound, LM, Assigns
      <3>6. ASSUME NEW q \in Requests \ {r} PROVE Apart(x, req[q])
        <4>1. Apart(req[r], req[q])
          BY DEF InvitesInv
        <4>2. ASSUME NEW d \in Courses PROVE ~(LC(x, d) /\ LC(req[q], d))
          BY <1>1, <2>7, <3>1 DEF LC
        <4> QED
          BY <1>1, <3>1, <3>3, <3>4, <4>1, <4>2
          DEF Apart, LM, Upserts, Assigns
      <3> QED
        BY <3>5, <3>6 DEF Fits
    <2>10. pc \in Phases \ {"idle"}
      BY <2>8 DEF Phases
    <2> QED
      BY <1>1, <2>1, <2>9, <2>10, GotoKeepsInv
  <1> QED
    BY <1>2, <1>3

LEMMA ReferKeepsInv ==
    ASSUME InvitesInv, NEW r \in Requests, Refer(r)
    PROVE  InvitesInv'
  <1>1. /\ DatabaseUnchanged /\ req[r].pc = "refer" /\ req[r].kind = "member"
        /\ req[r].rows = {} /\ WaitsFor(r) = {}
    BY RecordOf DEF Refer, At, Sound, Assigns
  <1>2. CASE Goto(r, "idle")
    BY <1>1, <1>2, RefusedKeepsInv
  <1>3. CASE ~Goto(r, "idle")
    <2>1. Goto(r, "commit") /\ Person(r) \in members
      BY <1>3 DEF Refer
    <2>2. \A q \in Requests \ {r} :
            req[q].person = Person(r) => ~LM(req[q])
      BY <1>1, OthersOf, RecordOf DEF WaitsFor
    <2>3. ASSUME NEW x \in Reqs,
                 Becomes(r, x, "commit", req[r].kind, req[r].rows)
          PROVE  Fits(r, x)
      <3>1. /\ x.pc = "commit" /\ x.kind = "member" /\ x.saw = req[r].saw
            /\ x.person = Person(r) /\ x.course = req[r].course /\ x.rows = {}
        BY <1>1, <2>3 DEF Becomes
      <3>2. Row(x) = Wish(x)
        <4>1. Row(req[r]) = Wish(req[r])
          BY <1>1, RecordOf DEF Sound, Assigns
        <4> QED
          BY <1>1, <3>1, <4>1, RecordOf DEF Row, Wish
      <3>3. Sound(x)
        BY <1>1, <2>1, <3>1, <3>2, RecordOf
        DEF Sound, LI, LM, Assigns, Invites
      <3>4. ASSUME NEW q \in Requests \ {r} PROVE Apart(x, req[q])
        <4>1. Apart(req[r], req[q])
          BY DEF InvitesInv
        <4> QED
          BY <1>1, <2>2, <3>1, <4>1
          DEF Apart, LC, LI, LM, Refers, Upserts, Assigns, Invites
      <3> QED
        BY <3>3, <3>4 DEF Fits
    <2>4. "commit" \in Phases \ {"idle"}
      BY DEF Phases
    <2> QED
      BY <1>1, <2>1, <2>3, <2>4, GotoKeepsInv
  <1> QED
    BY <1>2, <1>3

\* The invite is locked: what its status allows, whoever else has it.
LEMMA LockedInviteFits ==
    ASSUME InvitesInv, NEW r \in Requests, req[r].pc = "lock",
           NEW kind \in Invites, NEW x \in Reqs,
           Becomes(r, x, "sweep", kind, req[r].rows),
           kind = "activate" => status[Person(r)] = "pending",
           kind = "revoke" => status[Person(r)] # "consumed",
           kind = "repair" => status[Person(r)] = "consumed",
           \A q \in Others(r) : ~LocksInvite(q)
    PROVE  Fits(r, x)
  <1>1. /\ x.pc = "sweep" /\ x.kind = kind /\ x.saw = req[r].saw
        /\ x.person = Person(r) /\ kind \notin Assigns /\ kind # "remove"
    BY DEF Becomes, Invites, Assigns
  <1>2. Sound(x)
    BY <1>1, RecordOf DEF Sound, LI, LM, Refers, Assigns
  <1>3. ASSUME NEW q \in Requests \ {r} PROVE Apart(x, req[q])
    <2>1. x.person = req[q].person => ~LI(req[q])
      BY <1>1, OthersOf, RecordOf
    <2> QED
      BY <1>1, <2>1 DEF Apart, LC, LM, Refers, Upserts, Assigns
  <1> QED
    BY <1>2, <1>3 DEF Fits

LEMMA LockToActivateKeepsInv ==
    ASSUME InvitesInv, NEW r \in Requests, LockToActivate(r)
    PROVE  InvitesInv'
  <1>1. /\ DatabaseUnchanged /\ req[r].pc = "lock" /\ req[r].kind = "activate"
        /\ WaitsFor(r) = {}
    BY DEF LockToActivate, At
  <1>2. \A q \in Others(r) : ~LocksInvite(q)
    BY <1>1 DEF WaitsFor, Others
  <1>3. "sweep" \in Phases \ {"idle"} /\ "activate" \in Invites
        /\ "repair" \in Invites \cap Kinds
    BY DEF Phases, Invites, Kinds
  <1>4. CASE Pending(Person(r))
    <2>1. Goto(r, "sweep")
      BY <1>4 DEF LockToActivate
    <2>2. status[Person(r)] = "pending"
      BY <1>4 DEF Pending
    <2>3. \A x \in Reqs : Becomes(r, x, "sweep", req[r].kind, req[r].rows)
                            => Fits(r, x)
      BY <1>1, <1>2, <1>3, <2>2, LockedInviteFits
    <2> QED
      BY <1>1, <1>3, <2>1, <2>3, GotoKeepsInv
  <1>5. CASE ~Pending(Person(r)) /\ status[Person(r)] = "consumed"
             /\ Person(r) \in members
    <2>1. req' = [req EXCEPT ![r].pc = "sweep", ![r].kind = "repair"]
      BY <1>5 DEF LockToActivate
    <2>2. req' = [req EXCEPT ![r] = [req[r] EXCEPT !.pc = "sweep",
                                                   !.kind = "repair",
                                                   !.rows = req[r].rows]]
      BY <2>1, RecordOf DEF Reqs
    <2>3. \A x \in Reqs : Becomes(r, x, "sweep", "repair", req[r].rows)
                            => Fits(r, x)
      BY <1>1, <1>2, <1>3, <1>5, LockedInviteFits
    <2>4. req[r].rows \in SUBSET Courses
      BY RecordOf DEF Reqs
    <2> QED
      BY <1>1, <1>3, <2>2, <2>3, <2>4, GoingKeepsInv
  <1>6. CASE ~Pending(Person(r)) /\ ~(status[Person(r)] = "consumed"
                                      /\ Person(r) \in members)
    <2>1. Goto(r, "idle")
      BY <1>6 DEF LockToActivate
    <2> QED
      BY <1>1, <2>1, RefusedKeepsInv
  <1> QED
    BY <1>4, <1>5, <1>6

LEMMA LockToRevokeKeepsInv ==
    ASSUME InvitesInv, NEW r \in Requests, LockToRevoke(r)
    PROVE  InvitesInv'
  <1>1. DatabaseUnchanged /\ req[r].pc = "lock" /\ req[r].kind = "revoke"
    BY DEF LockToRevoke, At
  <1>2. CASE Goto(r, "idle")
    BY <1>1, <1>2, RefusedKeepsInv
  <1>3. CASE ~Goto(r, "idle")
    <2>1. /\ Goto(r, "sweep") /\ status[Person(r)] # "consumed"
          /\ \A q \in Others(r) : ~LocksInvite(q)
      BY <1>3 DEF LockToRevoke
    <2>2. "sweep" \in Phases \ {"idle"} /\ "revoke" \in Invites
      BY DEF Phases, Invites
    <2>3. \A x \in Reqs : Becomes(r, x, "sweep", req[r].kind, req[r].rows)
                            => Fits(r, x)
      BY <1>1, <2>1, <2>2, LockedInviteFits
    <2> QED
      BY <1>1, <2>1, <2>2, <2>3, GotoKeepsInv
  <1> QED
    BY <1>2, <1>3

LEMMA LockToRemoveKeepsInv ==
    ASSUME InvitesInv, NEW r \in Requests, LockToRemove(r)
    PROVE  InvitesInv'
  <1>1. DatabaseUnchanged /\ req[r].pc = "lock" /\ req[r].kind = "remove"
    BY DEF LockToRemove, At
  <1>2. CASE Goto(r, "idle")
    BY <1>1, <1>2, RefusedKeepsInv
  <1>3. CASE ~Goto(r, "idle")
    <2>1. /\ Goto(r, "sweep") /\ Person(r) \in members
          /\ \A q \in Others(r) : ~LocksMember(q) /\ ~UsesMember(q)
      BY <1>3 DEF LockToRemove
    <2>2. ASSUME NEW x \in Reqs,
                 Becomes(r, x, "sweep", req[r].kind, req[r].rows)
          PROVE  Fits(r, x)
      <3>1. /\ x.pc = "sweep" /\ x.kind = "remove" /\ x.saw = req[r].saw
            /\ x.person = Person(r)
        BY <1>1, <2>2 DEF Becomes
      <3>2. Sound(x)
        BY <2>1, <3>1, RecordOf DEF Sound, LI, LM, Refers, Assigns, Invites
      <3>3. ASSUME NEW q \in Requests \ {r} PROVE Apart(x, req[q])
        <4>1. x.person = req[q].person =>
                ~LM(req[q]) /\ ~Refers(req[q]) /\ ~Upserts(req[q])
          BY <2>1, <3>1, OthersOf, RecordOf DEF UsesMember, Refers, Upserts
        <4> QED
          BY <3>1, <4>1 DEF Apart, LC, LI, Refers, Upserts, Assigns, Invites
      <3> QED
        BY <3>2, <3>3 DEF Fits
    <2>3. "sweep" \in Phases \ {"idle"}
      BY DEF Phases
    <2> QED
      BY <1>1, <2>1, <2>2, <2>3, GotoKeepsInv
  <1> QED
    BY <1>2, <1>3

LEMMA SweepsAreNamed ==
    ASSUME InvitesInv, NEW r \in Requests PROVE Sweeps(r) = Named(req[r])
  <1>1. ASSUME NEW c \in Courses, req[r].kind # "remove",
               post[c].waits = {Person(r)}
        PROVE  post[c].teacher = {}
    BY <1>1 DEF InvitesInv, PostsAreHeld, Xor
  <1> QED
    BY <1>1 DEF Sweeps, Names, Named, Person

LEMMA SweepKeepsInv ==
    ASSUME InvitesInv, NEW r \in Requests, Sweep(r)
    PROVE  InvitesInv'
  <1>1. /\ DatabaseUnchanged /\ req[r].pc = "sweep" /\ req[r].kind \notin Assigns
        /\ WaitsFor(r) = {}
        /\ req' = [req EXCEPT ![r].pc = "commit", ![r].rows = Sweeps(r)]
    BY RecordOf DEF Sweep, At, Sound
  <1>2. Sweeps(r) \in SUBSET Courses /\ "commit" \in Phases
        /\ req[r].kind \in Kinds
    BY RecordOf DEF Sweeps, Phases, Reqs
  <1>3. req' = [req EXCEPT ![r] = [req[r] EXCEPT !.pc = "commit",
                                                 !.kind = req[r].kind,
                                                 !.rows = Sweeps(r)]]
    BY <1>1, RecordOf DEF Reqs
  <1>4. ASSUME NEW x \in Reqs, Becomes(r, x, "commit", req[r].kind, Sweeps(r))
        PROVE  Fits(r, x)
    <2>1. /\ x.pc = "commit" /\ x.kind = req[r].kind /\ x.saw = req[r].saw
          /\ x.person = req[r].person /\ x.rows = Sweeps(r)
      BY <1>4, RecordOf DEF Becomes
    <2>2. x.rows = Named(x)
      BY <2>1, SweepsAreNamed DEF Named
    <2>3. /\ LI(x) => LI(req[r])
          /\ LM(x) => LM(req[r])
      BY <1>1, <2>1 DEF LI, LM, Assigns
    <2>4. Sound(x)
      BY <1>1, <2>1, <2>2, <2>3, RecordOf DEF Sound, Refers, Assigns
    <2>5. ASSUME NEW q \in Requests \ {r} PROVE Apart(x, req[q])
      <3>1. Apart(req[r], req[q])
        BY DEF InvitesInv
      <3>2. \A c \in Courses : LC(x, c) => c \in Sweeps(r)
        BY <1>1, <2>1 DEF LC
      <3>3. \A c \in Sweeps(r) : ~LC(req[q], c)
        BY <1>1, RecordOf DEF WaitsFor
      <3>4. req[r].kind = "activate" /\ req[q].person = req[r].person
              => ~LM(req[q])
        BY <1>1, OthersOf, RecordOf DEF WaitsFor
      <3> QED
        BY <1>1, <2>1, <2>3, <3>1, <3>2, <3>3, <3>4
        DEF Apart, Refers, Upserts, Assigns
    <2> QED
      BY <2>4, <2>5 DEF Fits
  <1> QED
    BY <1>1, <1>2, <1>3, <1>4, GoingKeepsInv

\* A step of nobody's request: time passes for an invite.
LEMMA ExpiryKeepsInv ==
    ASSUME InvitesInv, UNCHANGED <<database, req>>, expired' \subseteq People
    PROVE  InvitesInv'
  <1>1. UNCHANGED <<status, members, post, req>>
    BY DEF database
  <1>2. TypeOK'
    BY <1>1 DEF InvitesInv, TypeOK
  <1>3. ASSUME NEW r \in Requests PROVE Sound(req[r])'
    BY <1>1 DEF InvitesInv, Sound, Row, Wish, Named, LI, LM, Refers, Xor
  <1>4. ASSUME NEW r \in Requests, NEW q \in Requests, r # q
        PROVE  Apart(req[r], req[q])'
    BY <1>1, <1>4 DEF InvitesInv, Apart, LC, LI, LM, Refers, Upserts
  <1>5. NoCourseWaitsInVain' /\ PostsAreHeld'
    BY <1>1 DEF InvitesInv, NoCourseWaitsInVain, PostsAreHeld, Xor
  <1> QED
    BY <1>2, <1>3, <1>4, <1>5 DEF InvitesInv

-----------------------------------------------------------------------------
(* The commits *)

LEMMA CommitAssignKeepsInv ==
    ASSUME InvitesInv, NEW r \in Requests, CommitAssign(r)
    PROVE  /\ InvitesInv'
           /\ post' = [post EXCEPT ![req[r].course] = Wish(req[r])]
           /\ req[r].kind = "member" => Person(r) \in members
           /\ req[r].kind = "invite" => status[Person(r)] = "pending"
  <1> DEFINE c == req[r].course
             p == Person(r)
  <1>1. /\ req[r].kind \in Assigns /\ req[r].pc = "commit"
        /\ req' = [req EXCEPT ![r] = Idle]
        /\ UNCHANGED <<status, members, expired>>
    BY DEF CommitAssign, Goto
  <1>2. /\ c \in Courses /\ p \in People /\ p = req[r].person
        /\ Row(req[r]) = Wish(req[r]) /\ Written(r) = Wish(req[r])
        /\ post \in [Courses -> Rows]
    BY <1>1, RecordOf DEF Sound, InvitesInv, TypeOK
  <1>3. post' = [post EXCEPT ![c] = Wish(req[r])]
    BY <1>2 DEF CommitAssign
  <1>4. /\ req[r].kind = "member" => p \in members
        /\ req[r].kind = "invite" => status[p] = "pending"
    BY <1>1, RecordOf DEF Sound, Refers, LI
  <1>5. /\ Wish(req[r]) \in Rows /\ Xor(Wish(req[r]))
        /\ Wish(req[r]).teacher \subseteq members
        /\ \A o \in Wish(req[r]).waits : status[o] = "pending"
    BY <1>1, <1>2, <1>4 DEF Wish, Rows, Columns, Xor, Assigns
  <1>6. TypeOK'
    BY <1>1, <1>2, <1>3, <1>5, IdleSound, RecordOf DEF InvitesInv, TypeOK
  <1>7. NoCourseWaitsInVain' /\ PostsAreHeld'
    <2>1. post'[c] = Wish(req[r]) /\ \A d \in Courses \ {c} : post'[d] = post[d]
      BY <1>2, <1>3
    <2> QED
      BY <1>1, <1>5, <2>1
      DEF InvitesInv, NoCourseWaitsInVain, PostsAreHeld, Xor
  <1>8. /\ req'[r] = Idle
        /\ \A q \in Requests \ {r} : req'[q] = req[q]
    BY <1>1, RecordOf
  <1>9. ASSUME NEW q \in Requests \ {r}
        PROVE  /\ Apart(req[r], req[q]) /\ Sound(req[q]) /\ ~LC(req[q], c)
               /\ req[q].course \in Courses
    <2>1. LC(req[r], c)
      BY <1>1 DEF LC
    <2> QED
      BY <1>2, <2>1, RecordOf DEF InvitesInv, Apart
  <1>10. ASSUME NEW q \in Requests PROVE Sound(req[q])'
    <2>1. CASE q = r
      BY <1>8, <2>1, IdleSound
      DEF Sound, LI, LM, Refers, Idle, Xor
    <2>2. CASE q # r
      <3>1. req'[q] = req[q] /\ Sound(req[q])
        BY <1>8, <1>9, <2>2
      <3>2. req[q].kind \in Assigns /\ req[q].pc \in {"refer", "commit"}
              => post'[req[q].course] = post[req[q].course]
        BY <1>2, <1>3, <1>9, <2>2 DEF LC
      <3>3. ASSUME req[q].kind \notin Assigns, req[q].pc = "commit"
            PROVE  req[q].rows = Named(req[q])'
        <4>1. req[q].rows = Named(req[q]) /\ c \notin req[q].rows
          BY <1>2, <1>9, <2>2, <3>3 DEF Sound, LC
        <4>2. \A d \in Courses \ {c} : post'[d] = post[d]
          BY <1>2, <1>3
        <4>3. ~(IF req[q].kind = "remove"
                THEN Wish(req[r]).teacher = {req[q].person}
                ELSE Wish(req[r]).waits = {req[q].person})
          <5>1. CASE req[q].kind = "remove"
            <6>1. SUFFICES ASSUME Wish(req[r]).teacher = {req[q].person}
                           PROVE  FALSE
              BY <5>1
            <6>2. req[r].kind = "member" /\ req[q].person = p
              BY <1>1, <1>2, <6>1 DEF Wish, Assigns
            <6>3. Refers(req[r]) /\ LM(req[q])
              BY <1>1, <3>3, <5>1, <6>2 DEF Refers, LM
            <6>4. post[c].teacher = {req[q].person}
              BY <1>2, <1>9, <2>2, <6>2, <6>3 DEF Apart
            <6> QED
              BY <1>2, <4>1, <5>1, <6>4 DEF Named
          <5>2. CASE req[q].kind # "remove"
            <6>1. SUFFICES ASSUME Wish(req[r]).waits = {req[q].person}
                           PROVE  FALSE
              BY <5>2
            <6>2. req[r].kind = "invite" /\ req[q].person = p
              BY <1>1, <1>2, <6>1 DEF Wish, Assigns
            <6>3. req[q].kind \in Invites
              BY <2>2, <3>3, <5>2, RecordOf DEF Reqs, Kinds, Invites, Assigns
            <6>4. LI(req[r]) /\ LI(req[q])
              BY <1>1, <3>3, <6>2, <6>3 DEF LI
            <6> QED
              BY <1>2, <1>9, <2>2, <6>2, <6>4 DEF Apart
          <5> QED
            BY <5>1, <5>2
        <4>4. post'[c] = Wish(req[r])
          BY <1>2, <1>3
        <4>5. Named(req[q])' = {d \in Courses :
                  IF req[q].kind = "remove"
                  THEN post'[d].teacher = {req[q].person}
                  ELSE post'[d].waits = {req[q].person}}
          BY <3>1 DEF Named
        <4> QED
          BY <1>2, <4>1, <4>2, <4>3, <4>4, <4>5 DEF Named
      <3>4. ASSUME req[q].kind \in Assigns, req[q].pc \in {"refer", "commit"}
            PROVE  Row(req[q])' = Wish(req[q])'
        <4>1. Row(req[q]) = Wish(req[q])
          BY <3>1, <3>4 DEF Sound
        <4> QED
          BY <3>1, <3>2, <3>4, <4>1 DEF Row, Wish
      <3> QED
        BY <1>1, <3>1, <3>3, <3>4 DEF Sound, LI, LM, Refers, Xor
    <2> QED
      BY <2>1, <2>2
  <1>11. ASSUME NEW q \in Requests, NEW u \in Requests, q # u
         PROVE  Apart(req[q], req[u])'
    <2>1. CASE q = r \/ u = r
      <3>1. Apart(req'[q], req'[u])
        BY <1>8, <1>11, <2>1, IdleSound, IdleApart, ApartSymmetric
      <3>2. req'[q].pc = "idle" \/ req'[u].pc = "idle"
        BY <1>8, <2>1, IdleSound
      <3> QED
        BY <3>1, <3>2 DEF Apart, LC, LI, LM, Refers, Upserts
    <2>2. CASE q # r /\ u # r
      <3>1. Apart(req[q], req[u]) /\ req'[q] = req[q] /\ req'[u] = req[u]
        BY <1>8, <1>11, <2>2 DEF InvitesInv
      <3>2. /\ Refers(req[q]) => post'[req[q].course] = post[req[q].course]
            /\ Refers(req[u]) => post'[req[u].course] = post[req[u].course]
        BY <1>2, <1>3, <1>9, <2>2 DEF LC, Refers, Assigns
      <3> QED
        BY <3>1, <3>2 DEF Apart, LC, LI, LM, Refers, Upserts
    <2> QED
      BY <2>1, <2>2
  <1> QED
    BY <1>3, <1>4, <1>6, <1>7, <1>10, <1>11 DEF InvitesInv

Settles == {"activate", "repair", "revoke", "remove"}

\* What the commit of a request that settles an invite or a membership writes.
LEMMA CommitSweepWrites ==
    ASSUME InvitesInv, NEW r \in Requests, CommitSweep(r)
    PROVE  /\ req[r].kind \in Settles /\ req[r].pc = "commit"
           /\ req[r].rows = Named(req[r])
           /\ req[r].kind = "repair" => req[r].rows = {}
           /\ \A c \in Courses :
                post'[c] = IF c \in req[r].rows
                           THEN [teacher |-> IF req[r].kind = "activate"
                                             THEN {Person(r)} ELSE {},
                                 waits |-> {}]
                           ELSE post[c]
           /\ req[r].kind = "activate" =>
                /\ status' = [status EXCEPT ![Person(r)] = "consumed"]
                /\ members' = members \cup {Person(r)}
           /\ req[r].kind = "revoke" =>
                /\ status' = [status EXCEPT ![Person(r)] = "revoked"]
                /\ members' = members
           /\ req[r].kind = "repair" => status' = status /\ members' = members
           /\ req[r].kind = "remove" =>
                status' = status /\ members' = members \ {Person(r)}
           /\ DOMAIN post' = Courses
  <1>1. /\ req[r].kind \in Settles /\ req[r].pc = "commit"
        /\ req[r].rows = Named(req[r])
    BY RecordOf DEF CommitSweep, Settles, Reqs, Kinds, Assigns, Sound
  <1>2. ASSUME req[r].kind = "repair" PROVE req[r].rows = {}
    <2>1. SUFFICES ASSUME NEW c \in req[r].rows PROVE FALSE
      OBVIOUS
    <2>2. c \in Courses /\ req[r].person \in post[c].waits
      BY <1>1, <1>2 DEF Named
    <2>3. status[req[r].person] = "consumed"
      BY <1>1, <1>2, RecordOf DEF Sound, LI, Invites
    <2> QED
      BY <2>2, <2>3 DEF InvitesInv, NoCourseWaitsInVain
  <1>3. /\ DOMAIN post' = Courses
        /\ \A c \in Courses :
             post'[c] = IF c \in req[r].rows
                        THEN [teacher |-> IF req[r].kind = "activate"
                                          THEN {Person(r)} ELSE {},
                              waits |-> {}]
                        ELSE post[c]
    BY <1>1, <1>2 DEF CommitSweep, Settles
  <1>4. status \in [People -> {"pending", "consumed", "revoked"}]
        /\ Person(r) \in People
    BY RecordOf DEF InvitesInv, TypeOK
  <1>5. req[r].kind = "activate" =>
          /\ status' = [status EXCEPT ![Person(r)] = "consumed"]
          /\ members' = members \cup {Person(r)}
    BY DEF CommitSweep
  <1>6. req[r].kind = "revoke" =>
          /\ status' = [status EXCEPT ![Person(r)] = "revoked"]
          /\ members' = members
    BY DEF CommitSweep
  <1>7. /\ req[r].kind = "repair" => status' = status /\ members' = members
        /\ req[r].kind = "remove" =>
             status' = status /\ members' = members \ {Person(r)}
    BY <1>4 DEF CommitSweep
  <1> QED
    BY <1>1, <1>2, <1>3, <1>5, <1>6, <1>7

LEMMA CommitSweepKeepsInv ==
    ASSUME InvitesInv, NEW r \in Requests, CommitSweep(r)
    PROVE  InvitesInv'
  <1> DEFINE p == Person(r)
             rows == req[r].rows
             kind == req[r].kind
  <1>1. /\ req' = [req EXCEPT ![r] = Idle] /\ expired' \subseteq People
        /\ p \in People /\ p = req[r].person
        /\ post \in [Courses -> Rows] /\ members \subseteq People
        /\ status \in [People -> {"pending", "consumed", "revoked"}]
    BY RecordOf DEF CommitSweep, Goto, InvitesInv, TypeOK
  <1>2. /\ kind \in Settles /\ req[r].pc = "commit"
        /\ rows \subseteq Courses
        /\ \A c \in Courses :
             c \in rows <=> IF kind = "remove" THEN post[c].teacher = {p}
                            ELSE post[c].waits = {p}
        /\ kind = "repair" => rows = {}
    <2>1. /\ kind \in Settles /\ req[r].pc = "commit" /\ rows = Named(req[r])
          /\ kind = "repair" => rows = {}
      BY CommitSweepWrites
    <2> QED
      BY <1>1, <2>1 DEF Named
  <1>3. /\ \A c \in rows :
             /\ post'[c].teacher = IF kind = "activate" THEN {p} ELSE {}
             /\ post'[c].waits = {} /\ post'[c] \in Rows
        /\ \A c \in Courses \ rows : post'[c] = post[c]
        /\ post' \in [Courses -> Rows]
    <2>1. \A c \in rows :
            post'[c] = [teacher |-> IF kind = "activate" THEN {p} ELSE {},
                        waits |-> {}]
      BY <1>2, CommitSweepWrites
    <2>2. \A c \in Courses \ rows : post'[c] = post[c]
      BY CommitSweepWrites
    <2>3. [teacher |-> IF kind = "activate" THEN {p} ELSE {}, waits |-> {}]
            \in Rows
      BY <1>1 DEF Rows, Columns
    <2>4. \A c \in Courses : post'[c] \in Rows
      BY <1>1, <2>1, <2>2, <2>3
    <2>5. post' = [c \in Courses |-> post'[c]]
      BY DEF CommitSweep
    <2>6. post' \in [Courses -> Rows]
      BY <2>4, <2>5
    <2>7. \A c \in rows : /\ post'[c].teacher = IF kind = "activate" THEN {p} ELSE {}
                          /\ post'[c].waits = {} /\ post'[c] \in Rows
      BY <2>1, <2>3
    <2> QED
      BY <2>2, <2>6, <2>7
  <1>4. /\ \A o \in People \ {p} : status'[o] = status[o]
        /\ kind \in {"repair", "remove"} => status' = status
        /\ status' \in [People -> {"pending", "consumed", "revoked"}]
    <2>1. CASE kind = "activate"
      BY <1>1, <2>1, CommitSweepWrites
    <2>2. CASE kind = "revoke"
      BY <1>1, <2>2, CommitSweepWrites
    <2>3. CASE kind \in {"repair", "remove"}
      BY <1>1, <2>3, CommitSweepWrites
    <2> QED
      BY <1>2, <2>1, <2>2, <2>3 DEF Settles
  <1>5. /\ members' \subseteq People
        /\ \A o \in People \ {p} : o \in members => o \in members'
        /\ kind = "activate" => p \in members'
        /\ kind # "remove" => members \subseteq members'
    <2>1. CASE kind = "activate"
      <3>1. members' = members \cup {p}
        BY <2>1, CommitSweepWrites
      <3> QED
        BY <1>1, <2>1, <3>1
    <2>2. CASE kind = "remove"
      BY <1>1, <2>2, CommitSweepWrites
    <2>3. CASE kind \in {"repair", "revoke"}
      BY <1>1, <2>3, CommitSweepWrites
    <2> QED
      BY <1>2, <2>1, <2>2, <2>3 DEF Settles
  <1>6. TypeOK'
    BY <1>1, <1>3, <1>4, <1>5, IdleSound, RecordOf DEF TypeOK
  <1>7. NoCourseWaitsInVain'
    <2>1. SUFFICES ASSUME NEW c \in Courses, NEW o \in post'[c].waits
                   PROVE  status'[o] = "pending"
      BY DEF NoCourseWaitsInVain
    <2>2. c \notin rows /\ post'[c] = post[c]
      BY <1>3, <2>1
    <2>3. status[o] = "pending" /\ post[c].waits = {o} /\ o \in People
      BY <1>1, <2>1, <2>2
      DEF InvitesInv, NoCourseWaitsInVain, Rows, Columns
    <2> QED
      BY <1>2, <1>4, <2>2, <2>3 DEF Settles
  <1>8. PostsAreHeld'
    <2>1. SUFFICES ASSUME NEW c \in Courses
                   PROVE  /\ post'[c].teacher \subseteq members'
                          /\ post'[c].teacher = {} \/ post'[c].waits = {}
      BY DEF PostsAreHeld, Xor
    <2>2. CASE c \in rows
      BY <1>3, <1>5, <2>2
    <2>3. CASE c \notin rows
      <3>1. post'[c] = post[c] /\ post[c].teacher \subseteq members
            /\ (post[c].teacher = {} \/ post[c].waits = {})
        BY <1>3, <2>3 DEF InvitesInv, PostsAreHeld, Xor
      <3>2. post[c].teacher \in Columns
        BY <1>1 DEF Rows
      <3>3. ASSUME kind = "remove" PROVE p \notin post[c].teacher
        BY <1>2, <2>3, <3>2, <3>3 DEF Columns
      <3> QED
        BY <1>1, <1>5, <3>1, <3>2, <3>3
    <2> QED
      BY <2>2, <2>3
  <1>9. /\ req'[r] = Idle
        /\ \A q \in Requests \ {r} : req'[q] = req[q]
    BY <1>1, RecordOf
  <1>10. ASSUME NEW q \in Requests \ {r}
         PROVE  /\ Apart(req[r], req[q]) /\ Sound(req[q]) /\ req[q] \in Reqs
                /\ req[q].course \in Courses
                /\ \A c \in rows : ~LC(req[q], c)
    <2>1. \A c \in rows : LC(req[r], c)
      BY <1>2 DEF LC
    <2> QED
      BY <1>2, <2>1, RecordOf DEF InvitesInv, Apart
  <1>11. ASSUME NEW q \in Requests PROVE Sound(req[q])'
    <2>1. CASE q = r
      BY <1>9, <2>1, IdleSound DEF Sound, LI, LM, Refers, Idle, Xor
    <2>2. CASE q # r
      <3>1. /\ req'[q] = req[q] /\ Sound(req[q]) /\ Apart(req[r], req[q])
            /\ req[q].person \in People
        BY <1>9, <1>10, <2>2 DEF Reqs
      <3>2. ASSUME req[q].kind \in Assigns, req[q].pc \in {"refer", "commit"}
            PROVE  Row(req[q])' = Wish(req[q])'
        <4>1. LC(req[q], req[q].course)
          BY <3>2 DEF LC
        <4>2. post'[req[q].course] = post[req[q].course]
          BY <1>3, <1>10, <2>2, <4>1
        <4>3. Row(req[q]) = Wish(req[q])
          BY <3>1, <3>2 DEF Sound
        <4> QED
          BY <3>1, <4>2, <4>3 DEF Row, Wish
      <3>3. ASSUME req[q].kind \notin Assigns, req[q].pc = "commit"
            PROVE  req[q].rows = Named(req[q])'
        <4>1. req[q].rows = Named(req[q]) /\ \A c \in rows : c \notin req[q].rows
          BY <1>10, <2>2, <3>1, <3>3 DEF Sound, LC
        <4>2. ASSUME NEW c \in rows, req[q].kind = "remove"
              PROVE  post'[c].teacher # {req[q].person}
          <5>1. LM(req[q])
            BY <3>3, <4>2 DEF LM
          <5>2. kind = "activate" => Upserts(req[r])
            BY <1>2 DEF Upserts
          <5> QED
            BY <1>1, <1>3, <3>1, <5>1, <5>2 DEF Apart
        <4>3. \A c \in rows : post'[c].waits # {req[q].person}
          BY <1>3
        <4>4. Named(req[q])' = {d \in Courses :
                  IF req[q].kind = "remove"
                  THEN post'[d].teacher = {req[q].person}
                  ELSE post'[d].waits = {req[q].person}}
          BY <3>1 DEF Named
        <4> QED
          BY <1>3, <4>1, <4>2, <4>3, <4>4 DEF Named
      <3>4. LI(req[q]) => status'[req[q].person] = status[req[q].person]
        <4>1. CASE kind \in {"repair", "remove"}
          BY <1>4, <4>1
        <4>2. CASE kind \in {"activate", "revoke"}
          <5>1. LI(req[r])
            BY <1>2, <4>2 DEF LI, Invites
          <5> QED
            BY <1>1, <1>4, <3>1, <5>1 DEF Apart
        <4> QED
          BY <1>2, <4>1, <4>2 DEF Settles
      <3>5. LM(req[q]) => req[q].person \in members'
        <4>1. SUFFICES ASSUME LM(req[q]) PROVE req[q].person \in members'
          OBVIOUS
        <4>2. req[q].person \in members
          BY <3>1, <4>1 DEF Sound
        <4>3. CASE kind = "remove"
          <5>1. LM(req[r])
            BY <1>2, <4>3 DEF LM
          <5> QED
            BY <1>1, <1>5, <3>1, <4>1, <4>2, <5>1 DEF Apart
        <4> QED
          BY <1>5, <4>2, <4>3
      <3>6. Refers(req[q]) => req[q].person \in members'
        <4>1. SUFFICES ASSUME Refers(req[q]) PROVE req[q].person \in members'
          OBVIOUS
        <4>2. req[q].person \in members
          BY <3>1, <4>1 DEF Sound
        <4>3. CASE kind = "remove" /\ req[q].person = p
          <5>1. LM(req[r])
            BY <1>2, <4>3 DEF LM
          <5>2. post[req[q].course].teacher = {p}
            BY <1>1, <3>1, <4>1, <4>3, <5>1 DEF Apart
          <5>3. req[q].course \in rows
            BY <1>2, <1>10, <2>2, <4>3, <5>2
          <5> QED
            BY <1>10, <2>2, <4>1, <5>3 DEF Refers, LC, Assigns
        <4> QED
          BY <1>5, <3>1, <4>2, <4>3
      <3> QED
        BY <3>1, <3>2, <3>3, <3>4, <3>5, <3>6 DEF Sound, LI, LM, Refers, Xor
    <2> QED
      BY <2>1, <2>2
  <1>12. ASSUME NEW q \in Requests, NEW u \in Requests, q # u
         PROVE  Apart(req[q], req[u])'
    <2>1. CASE q = r \/ u = r
      <3>1. Apart(req'[q], req'[u])
        BY <1>9, <1>12, <2>1, IdleSound, IdleApart, ApartSymmetric
      <3>2. req'[q].pc = "idle" \/ req'[u].pc = "idle"
        BY <1>9, <2>1, IdleSound
      <3> QED
        BY <3>1, <3>2 DEF Apart, LC, LI, LM, Refers, Upserts
    <2>2. CASE q # r /\ u # r
      <3>1. Apart(req[q], req[u]) /\ req'[q] = req[q] /\ req'[u] = req[u]
        BY <1>9, <1>12, <2>2 DEF InvitesInv
      <3>2. \A t \in Requests \ {r} :
              Refers(req[t]) => post'[req[t].course] = post[req[t].course]
        BY <1>3, <1>10 DEF LC, Refers, Assigns
      <3> QED
        BY <2>2, <3>1, <3>2 DEF Apart, LC, LI, LM, Refers, Upserts
    <2> QED
      BY <2>1, <2>2
  <1> QED
    BY <1>6, <1>7, <1>8, <1>11, <1>12 DEF InvitesInv

-----------------------------------------------------------------------------
(* The specification *)

LEMMA InitInv == ASSUME Init PROVE InvitesInv
  <1>1. /\ status = [p \in People |-> "pending"] /\ expired = {}
        /\ members \in SUBSET People /\ req = [r \in Requests |-> Idle]
        /\ post \in [Courses -> {[teacher |-> t, waits |-> {}] :
                                   t \in {{}} \cup {{p} : p \in members}}]
    BY DEF Init
  <1>2. ASSUME NEW c \in Courses
        PROVE  /\ post[c] \in Rows /\ post[c].waits = {}
               /\ post[c].teacher \subseteq members
    <2>1. PICK t \in {{}} \cup {{p} : p \in members} :
            post[c] = [teacher |-> t, waits |-> {}]
      BY <1>1
    <2>2. t \in Columns /\ t \subseteq members
      BY <1>1, <2>1 DEF Columns
    <2> QED
      BY <2>1, <2>2 DEF Rows, Columns
  <1>3. post \in [Courses -> Rows]
    BY <1>1, <1>2
  <1>4. TypeOK
    BY <1>1, <1>3, IdleSound DEF TypeOK
  <1>5. NoCourseWaitsInVain /\ PostsAreHeld
    BY <1>2 DEF NoCourseWaitsInVain, PostsAreHeld, Xor
  <1>6. \A r \in Requests : req[r] = Idle
    BY <1>1
  <1>7. \A r \in Requests : Sound(req[r])
    BY <1>6, IdleSound
  <1>8. \A r, q \in Requests : r # q => Apart(req[r], req[q])
    BY <1>6, IdleSound, IdleApart
  <1> QED
    BY <1>4, <1>5, <1>7, <1>8 DEF InvitesInv

LEMMA NextKeepsInv == ASSUME InvitesInv, [Next]_vars PROVE InvitesInv'
  <1>1. ASSUME NEW r \in Requests, BeginAssign(r) \/ BeginSweep(r)
        PROVE  InvitesInv'
    BY <1>1, BeginAssignKeepsInv, BeginSweepKeepsInv
  <1>2. ASSUME NEW r \in Requests, Serve(r) PROVE InvitesInv'
    BY <1>2, ResolveKeepsInv, WriteKeepsInv, ReferKeepsInv, CommitAssignKeepsInv,
       LockToActivateKeepsInv, LockToRevokeKeepsInv, LockToRemoveKeepsInv,
       SweepKeepsInv, CommitSweepKeepsInv
    DEF Serve
  <1>3. ASSUME NEW r \in Requests, Fail(r) PROVE InvitesInv'
    BY <1>3, RefusedKeepsInv DEF Fail
  <1>4. ASSUME NEW p \in People, Resend(p) \/ Expire(p) PROVE InvitesInv'
    BY <1>4, ExpiryKeepsInv DEF Resend, Expire, InvitesInv, TypeOK
  <1>5. CASE UNCHANGED vars
    BY <1>5, ExpiryKeepsInv DEF vars, InvitesInv, TypeOK
  <1> QED
    BY <1>1, <1>2, <1>3, <1>4, <1>5 DEF Next

LEMMA SpecKeepsInv == Spec => []InvitesInv
  <1>1. Init => InvitesInv
    BY InitInv
  <1>2. InvitesInv /\ [Next]_vars => InvitesInv'
    BY NextKeepsInv
  <1> QED
    BY <1>1, <1>2, PTL DEF Spec

\* The status of an invite is one of three, the people teachers and courses
\* refer to exist, and each request is at a statement of its handler.
THEOREM InviteTypes == Spec => []TypeOK
  <1>1. InvitesInv => TypeOK
    BY DEF InvitesInv
  <1> QED
    BY <1>1, SpecKeepsInv, PTL

\* Whoever assigns, activates, revokes and removes at the same time, no course
\* is left waiting for a person who has answered or whose invite is revoked:
\* the invite is locked by who makes a course wait for it and by who settles it.
THEOREM CoursesWaitForPending == Spec => []NoCourseWaitsInVain
  <1>1. InvitesInv => NoCourseWaitsInVain
    BY DEF InvitesInv
  <1> QED
    BY <1>1, SpecKeepsInv, PTL

\* The teacher of a course has a membership, and a course with a teacher waits
\* for nobody, though the columns are written one by one from a stale reading.
THEOREM TeachersAreMembers == Spec => []PostsAreHeld
  <1>1. InvitesInv => PostsAreHeld
    BY DEF InvitesInv
  <1> QED
    BY <1>1, SpecKeepsInv, PTL

-----------------------------------------------------------------------------
(* The refinement *)

LEMMA AssignIsAssign ==
    ASSUME InvitesInv, NEW r \in Requests, CommitAssign(r)
    PROVE  Posts!Assign(req[r].course)
  <1>1. /\ req[r].kind \in Assigns /\ Person(r) = req[r].person
        /\ Person(r) \in People /\ UNCHANGED <<status, members>>
        /\ post' = [post EXCEPT ![req[r].course] = Wish(req[r])]
        /\ req[r].kind = "member" => Person(r) \in members
        /\ req[r].kind = "invite" => status[Person(r)] = "pending"
    BY RecordOf, CommitAssignKeepsInv DEF CommitAssign
  <1>2. CASE req[r].kind = "member"
    <2>1. Wish(req[r]) = Posts!Taught(Person(r))
      BY <1>1, <1>2 DEF Wish, Posts!Taught
    <2> QED
      BY <1>1, <1>2, <2>1 DEF Posts!Assign
  <1>3. CASE req[r].kind = "invite"
    <2>1. Wish(req[r]) = Posts!Awaits(Person(r))
      BY <1>1, <1>3 DEF Wish, Posts!Awaits
    <2> QED
      BY <1>1, <1>3, <2>1 DEF Posts!Assign
  <1> QED
    BY <1>1, <1>2, <1>3 DEF Assigns

LEMMA SettlementIsOne ==
    ASSUME InvitesInv, NEW r \in Requests, CommitSweep(r)
    PROVE  \/ Posts!Activate(Person(r)) \/ Posts!Revoke(Person(r))
           \/ Posts!Remove(Person(r)) \/ UNCHANGED Posts!vars
  <1> DEFINE p == Person(r)
             rows == req[r].rows
             kind == req[r].kind
  <1>1. /\ p \in People /\ p = req[r].person /\ Sound(req[r])
        /\ post \in [Courses -> Rows]
        /\ status \in [People -> {"pending", "consumed", "revoked"}]
        /\ DOMAIN post' = Courses /\ post' = [c \in Courses |-> post'[c]]
        /\ \A c \in Courses : post[c].teacher = {} \/ post[c].waits = {}
    BY RecordOf, CommitSweepWrites
    DEF InvitesInv, TypeOK, PostsAreHeld, Xor, CommitSweep
  <1>2. /\ kind \in Settles /\ req[r].pc = "commit" /\ rows = Named(req[r])
        /\ kind = "repair" => rows = {}
    BY CommitSweepWrites
  <1>3. \A c \in Courses :
          post'[c] = IF c \in rows
                     THEN [teacher |-> IF kind = "activate" THEN {p} ELSE {},
                           waits |-> {}]
                     ELSE post[c]
    BY CommitSweepWrites
  <1>4. ASSUME NEW c \in Courses
        PROVE  /\ kind # "remove" => (c \in rows <=> post[c] = Posts!Awaits(p))
               /\ kind = "remove" => (c \in rows <=> post[c] = Posts!Taught(p))
    <2>1. post[c] = [teacher |-> post[c].teacher, waits |-> post[c].waits]
      BY <1>1 DEF Rows
    <2>2. c \in rows <=> IF kind = "remove" THEN post[c].teacher = {p}
                         ELSE post[c].waits = {p}
      BY <1>1, <1>2 DEF Named
    <2> QED
      BY <1>1, <2>1, <2>2 DEF Posts!Awaits, Posts!Taught
  <1>5. CASE kind = "activate"
    <2>1. status[p] = "pending"
      BY <1>1, <1>2, <1>5 DEF Sound, LI, Invites
    <2>2. /\ status' = [status EXCEPT ![p] = "consumed"]
          /\ members' = members \cup {p}
      BY <1>5, CommitSweepWrites
    <2>3. Posts!Settle(Posts!Awaits(p), Posts!Taught(p))
      BY <1>1, <1>3, <1>4, <1>5 DEF Posts!Settle, Posts!Taught
    <2> QED
      BY <2>1, <2>2, <2>3 DEF Posts!Activate
  <1>6. CASE kind = "revoke" /\ status[p] = "pending"
    <2>1. /\ status' = [status EXCEPT ![p] = "revoked"]
          /\ members' = members
      BY <1>6, CommitSweepWrites
    <2>2. Posts!Settle(Posts!Awaits(p), Posts!Nobody)
      BY <1>1, <1>3, <1>4, <1>6 DEF Posts!Settle, Posts!Nobody
    <2> QED
      BY <1>6, <2>1, <2>2 DEF Posts!Revoke
  <1>7. CASE kind = "revoke" /\ status[p] # "pending"
    <2>1. status[p] = "revoked"
      BY <1>1, <1>2, <1>7 DEF Sound, LI, Invites
    <2>2. status' = [status EXCEPT ![p] = "revoked"] /\ members' = members
      BY <1>7, CommitSweepWrites
    <2>3. status' = status
      BY <1>1, <2>1, <2>2
    <2>4. rows = {}
      BY <1>1, <1>2, <1>7
      DEF Named, InvitesInv, NoCourseWaitsInVain
    <2>5. post' = post
      BY <1>1, <1>3, <2>4
    <2> QED
      BY <2>2, <2>3, <2>5 DEF Posts!vars
  <1>8. CASE kind = "repair"
    <2>1. post' = post
      BY <1>1, <1>2, <1>3, <1>8
    <2> QED
      BY <1>8, <2>1, CommitSweepWrites DEF Posts!vars
  <1>9. CASE kind = "remove"
    <2>1. p \in members
      BY <1>1, <1>2, <1>9 DEF Sound, LM
    <2>2. status' = status /\ members' = members \ {p}
      BY <1>9, CommitSweepWrites
    <2>3. Posts!Settle(Posts!Taught(p), Posts!Nobody)
      BY <1>1, <1>3, <1>4, <1>9 DEF Posts!Settle, Posts!Nobody
    <2> QED
      BY <2>1, <2>2, <2>3 DEF Posts!Remove
  <1> QED
    BY <1>2, <1>5, <1>6, <1>7, <1>8, <1>9 DEF Settles

LEMMA InitIsInit == ASSUME Init PROVE Posts!Init
  <1>1. {[teacher |-> t, waits |-> {}] : t \in {{}} \cup {{p} : p \in members}}
          \subseteq {Posts!Nobody} \cup {Posts!Taught(p) : p \in members}
    BY DEF Posts!Nobody, Posts!Taught
  <1>2. post \in [Courses -> {Posts!Nobody}
                               \cup {Posts!Taught(p) : p \in members}]
    BY <1>1 DEF Init
  <1> QED
    BY <1>2 DEF Init, Posts!Init

LEMMA StepIsStep ==
    ASSUME InvitesInv, [Next]_vars PROVE [Posts!Next]_(Posts!vars)
  <1>1. ASSUME UNCHANGED database PROVE UNCHANGED Posts!vars
    BY <1>1 DEF database, Posts!vars
  <1>2. ASSUME NEW r \in Requests, Serve(r), ~UNCHANGED database
        PROVE  Posts!Next
    <2>1. CASE CommitAssign(r)
      BY <2>1, AssignIsAssign, RecordOf DEF Posts!Next
    <2>2. CASE CommitSweep(r)
      <3>1. ~UNCHANGED Posts!vars
        BY <1>2 DEF database, Posts!vars
      <3> QED
        BY <2>2, <3>1, SettlementIsOne, RecordOf DEF Posts!Next
    <2>3. CASE ~CommitAssign(r) /\ ~CommitSweep(r)
      BY <1>2, <2>3
      DEF Serve, Resolve, Write, Refer, LockToActivate, LockToRevoke,
          LockToRemove, Sweep, DatabaseUnchanged
    <2> QED
      BY <2>1, <2>2, <2>3
  <1>3. ASSUME NEW r \in Requests, BeginAssign(r) \/ BeginSweep(r) \/ Fail(r)
        PROVE  UNCHANGED database
    BY <1>3 DEF BeginAssign, BeginSweep, Fail, DatabaseUnchanged
  <1>4. ASSUME NEW p \in People, Resend(p) \/ Expire(p)
        PROVE  UNCHANGED database
    BY <1>4 DEF Resend, Expire
  <1>5. CASE UNCHANGED vars
    BY <1>1, <1>5 DEF vars
  <1> QED
    BY <1>1, <1>2, <1>3, <1>4, <1>5 DEF Next

\* Though requests read without a lock, lock one row at a time and may be
\* rolled back at any statement, every committed change of the posts is one
\* assignment, or one answer, revocation or removal that settles all courses
\* of a person at once.
THEOREM PostsChangeAsPromised == Spec => ImplementsPosts
  <1>1. Init => Posts!Init
    BY InitIsInit
  <1>2. InvitesInv /\ [Next]_vars => [Posts!Next]_(Posts!vars)
    BY StepIsStep
  <1> QED
    BY <1>1, <1>2, SpecKeepsInv, PTL DEF Spec, ImplementsPosts, Posts!Spec

=============================================================================
