------------------------ MODULE CourseSeats_proofs ------------------------
(***************************************************************************)
(* Proofs about CourseSeats, for any number of requests and students and   *)
(* any limits: its types, that seats are never taken past the limit, that  *)
(* a consumed invite has enrolled, that one link is active, that the       *)
(* handler of an activation undoes its account, and which requests may     *)
(* deadlock.                                                               *)
(***************************************************************************)
EXTENDS CourseSeats, FiniteSetTheorems, TLAPS

USE StudentsAssumption, LimitsAssumption

-----------------------------------------------------------------------------
(* The invariant, request by request *)

\* What the transaction of a request has locked, told by where it stands.
Holds(x) == x.kind \in LinkKinds
            /\ x.pc \in {"account", "check", "profile", "enrol", "key", "commit"}
Shares(x) == x.inserted /\ x.pc \in {"consume", "commit"}
HasProfile(x) == x.kind \in {"complete", "password", "invite"}
                 /\ x.pc \in {"enrol", "key", "commit"}
HasInvite(x) ==
    \/ x.kind = "invite"
       /\ x.pc \in {"account", "profile", "enrol", "key", "commit"}
    \/ x.kind = "redeem" /\ x.pc = "commit"

Locked(x) ==
    /\ "course" \in x.locks <=> Holds(x)
    /\ "key" \in x.locks <=> Shares(x)
    /\ "profile" \in x.locks <=> HasProfile(x)
    /\ "invite" \in x.locks <=> HasInvite(x)

\* Which kinds of request get where.
Activation == {"password", "invite"}
Placed(x) ==
    /\ x.inserted => x.pc \in {"key", "consume", "commit"}
    /\ x.pc = "key" => x.inserted
    /\ x.pc = "account" => x.kind \in Activation
    /\ x.pc = "check" => x.kind = "password"
    /\ x.pc = "profile" => x.kind \in {"complete", "password", "invite"}
    /\ x.pc \in {"lock", "enrol", "key"} => x.kind # "rotate"

\* Who has locked the course is alone with it, and has counted a free seat
\* or a student who needs none.
Alone(r, x) ==
    /\ Holds(x) => \A q \in Requests \ {r} : ~Holds(req[q]) /\ ~Shares(req[q])
    /\ Shares(x) => \A q \in Requests \ {r} : ~Holds(req[q])
    /\ x.pc = "rotate" => \A q \in Requests \ {r} : req[q].pc # "rotate"

Seated(x) ==
    /\ Holds(x) => \/ x.member /\ x.who \in enrolled
                   \/ Cardinality(enrolled) < x.saw
    /\ Holds(x) /\ x.inserted => x.who \notin enrolled

\* Who is about to consume an invite has enrolled its student.
Invited(x) ==
    /\ x.pc = "consume" => x.kind = "redeem"
    /\ x.kind = "redeem" => x.who \in members
    /\ x.pc = "consume" \/ (x.pc = "commit" /\ x.kind \notin LinkKinds)
       => x.inserted \/ x.who \in enrolled

Rotating(x) == x.pc = "rotate" => x.rotates = links

Sound(r, x) == /\ Alone(r, x) /\ Seated(x) /\ Invited(x) /\ Rotating(x)
               /\ Locked(x) /\ Placed(x)

SeatInv ==
    /\ TypeOK
    /\ \A r \in Requests : Sound(r, req[r])
    /\ ConsumedHasEnrolled
    /\ links = {issued}

-----------------------------------------------------------------------------
(* Lemmas *)

LEMMA IdleFields ==
    ASSUME NEW pc \in Phases
    PROVE  /\ Idle(pc) \in Reqs
           /\ Idle(pc).pc = pc /\ Idle(pc).kind = "enroll" /\ Idle(pc).locks = {}
           /\ ~Idle(pc).inserted /\ ~Idle(pc).created
  <1>1. (CHOOSE s \in Students : TRUE) \in Students
    OBVIOUS
  <1>2. (CHOOSE n \in Limits : TRUE) \in Limits
    OBVIOUS
  <1> QED
    BY <1>1, <1>2 DEF Idle, Reqs, Kinds, LinkKinds

LEMMA IdleSound ==
    ASSUME NEW r \in Requests, NEW pc \in {"idle", "done"}
    PROVE  Idle(pc) \in Reqs /\ Sound(r, Idle(pc))
  <1>1. pc \in Phases
    BY DEF Phases
  <1> QED
    BY <1>1, IdleFields
    DEF Sound, Alone, Seated, Invited, Rotating, Holds, Shares, Locked, Placed,
        HasProfile, HasInvite

\* A statement that writes no row that others see: if what the request
\* becomes is sound, everything is.
LEMMA StatementKeepsInv ==
    ASSUME SeatInv, NEW r \in Requests, NEW x \in Reqs, Sound(r, x),
           req' = [req EXCEPT ![r] = x], DatabaseUnchanged,
           accounts' \subseteq Students
    PROVE  SeatInv'
  <1>1. req \in [Requests -> Reqs]
    BY DEF SeatInv, TypeOK
  <1>2. /\ req' \in [Requests -> Reqs] /\ req'[r] = x
        /\ \A q \in Requests \ {r} : req'[q] = req[q]
    BY <1>1
  <1>3. TypeOK'
    BY <1>2 DEF SeatInv, TypeOK, DatabaseUnchanged, committed, linkVars
  <1>4. ASSUME NEW q \in Requests PROVE Sound(q, req[q])'
    <2>1. Sound(q, req[q])
      BY DEF SeatInv
    <2>2. CASE q = r
      <3>1. Alone(q, req[q])'
        BY <1>2, <2>2 DEF Sound, Alone
      <3>2. (Seated(req[q]) /\ Invited(req[q]) /\ Rotating(req[q]))'
        BY <1>2, <2>2
        DEF Sound, Seated, Invited, Rotating, DatabaseUnchanged, committed,
            linkVars
      <3>3. (Locked(req[q]) /\ Placed(req[q]))'
        BY <1>2, <2>2 DEF Sound
      <3> QED
        BY <3>1, <3>2, <3>3 DEF Sound
    <2>3. CASE q # r
      <3>1. req'[q] = req[q]
        BY <1>2, <2>3
      <3>2. Alone(q, req[q])'
        BY <1>2, <2>1, <2>3, <3>1 DEF Sound, Alone
      <3>3. (Seated(req[q]) /\ Invited(req[q]) /\ Rotating(req[q]))'
        BY <2>1, <3>1
        DEF Sound, Seated, Invited, Rotating, DatabaseUnchanged, committed,
            linkVars
      <3>4. (Locked(req[q]) /\ Placed(req[q]))'
        BY <2>1, <3>1 DEF Sound
      <3> QED
        BY <3>2, <3>3, <3>4 DEF Sound
    <2> QED
      BY <2>2, <2>3
  <1>5. ConsumedHasEnrolled' /\ (links = {issued})'
    BY DEF SeatInv, ConsumedHasEnrolled, DatabaseUnchanged, committed, linkVars
  <1> QED
    BY <1>3, <1>4, <1>5 DEF SeatInv

\* What is locked is told by where the request stands.
LEMMA FieldsOf ==
    ASSUME SeatInv, NEW r \in Requests
    PROVE  /\ req \in [Requests -> Reqs] /\ req[r] \in Reqs /\ Sound(r, req[r])
           /\ Who(r) = req[r].who /\ Who(r) \in Students
           /\ (HoldsCourse(r) <=> Holds(req[r])) /\ (SharesCourse(r) <=> Shares(req[r]))
           /\ (HoldsProfile(r) <=> HasProfile(req[r]))
           /\ (HoldsInvite(r) <=> HasInvite(req[r]))
           /\ (HoldsEntry(r) <=> req[r].inserted)
           /\ accounts \subseteq Students
  <1>1. req \in [Requests -> Reqs] /\ req[r] \in Reqs /\ Sound(r, req[r])
    BY DEF SeatInv, TypeOK
  <1>2. Who(r) = req[r].who /\ Who(r) \in Students /\ accounts \subseteq Students
    BY <1>1 DEF SeatInv, TypeOK, Who, Reqs
  <1>3. req[r].inserted \in BOOLEAN
    BY <1>1 DEF Reqs
  <1>4. Locked(req[r])
    BY <1>1 DEF Sound
  <1>5. (HoldsCourse(r) <=> Holds(req[r]))
    BY <1>4 DEF Locked, HoldsCourse
  <1>6. (SharesCourse(r) <=> Shares(req[r]))
    BY <1>4 DEF Locked, SharesCourse
  <1>7. (HoldsProfile(r) <=> HasProfile(req[r]))
    BY <1>4 DEF Locked, HoldsProfile
  <1>8. (HoldsInvite(r) <=> HasInvite(req[r]))
    BY <1>4 DEF Locked, HoldsInvite
  <1> QED
    BY <1>1, <1>2, <1>5, <1>6, <1>7, <1>8 DEF HoldsEntry

\* A request that ends, or goes on to undo what it did.
Ended(x, pc) == IF pc = "done" THEN Idle("done")
                ELSE [x EXCEPT !.pc = pc, !.inserted = FALSE, !.locks = {}]

LEMMA EndedFields ==
    ASSUME SeatInv, NEW r \in Requests, NEW pc \in {"done", "undo"}, Ends(r, pc)
    PROVE  /\ req' = [req EXCEPT ![r] = Ended(req[r], pc)]
           /\ req'[r] = Ended(req[r], pc)
           /\ Ended(req[r], pc) \in Reqs /\ Sound(r, Ended(req[r], pc))
           /\ Ended(req[r], pc).pc = pc
           /\ ~Holds(Ended(req[r], pc)) /\ ~Shares(Ended(req[r], pc))
           /\ pc = "undo" => /\ Ended(req[r], pc).kind = req[r].kind
                             /\ Ended(req[r], pc).who = req[r].who
                             /\ Ended(req[r], pc).created = req[r].created
  <1>1. /\ req \in [Requests -> Reqs] /\ req[r] \in Reqs
        /\ req[r].kind = "redeem" => req[r].who \in members
    BY FieldsOf DEF Sound, Invited
  <1>2. req' = [req EXCEPT ![r] = Ended(req[r], pc)]
    BY <1>1 DEF Ends, Ended
  <1>3. CASE pc = "done"
    <2>1. Ended(req[r], pc) = Idle("done")
      BY <1>3 DEF Ended
    <2> QED
      BY <1>1, <1>2, <1>3, <2>1, IdleSound, IdleFields DEF Phases, Holds, Shares
  <1>4. CASE pc = "undo"
    <2> DEFINE x == [req[r] EXCEPT !.pc = "undo", !.inserted = FALSE, !.locks = {}]
    <2>1. Ended(req[r], pc) = x
      BY <1>4 DEF Ended
    <2>2. /\ x \in Reqs /\ x.pc = "undo" /\ x.kind = req[r].kind
          /\ x.who = req[r].who /\ x.created = req[r].created
          /\ ~x.inserted /\ x.locks = {}
      BY <1>1 DEF Reqs, Phases
    <2> HIDE DEF x
    <2>3. Sound(r, x) /\ ~Holds(x) /\ ~Shares(x)
      BY <1>1, <2>2
      DEF Sound, Alone, Seated, Invited, Rotating, Holds, Shares, Locked, Placed,
          HasProfile, HasInvite
    <2> QED
      BY <1>1, <1>2, <1>4, <2>1, <2>2, <2>3
  <1> QED
    BY <1>3, <1>4

LEMMA EndKeepsInv ==
    ASSUME SeatInv, NEW r \in Requests, NEW pc \in {"done", "undo"},
           Ends(r, pc), DatabaseUnchanged, accounts' \subseteq Students
    PROVE  SeatInv'
  BY EndedFields, StatementKeepsInv

\* A request that goes on: it need only be sound where it goes.
Gone(x, pc, taken) == [x EXCEPT !.pc = pc, !.locks = x.locks \cup taken]

LEMMA GoneFields ==
    ASSUME SeatInv, NEW r \in Requests, NEW pc \in Phases,
           NEW taken \in SUBSET Locks, Goes(r, pc, taken)
    PROVE  LET x == Gone(req[r], pc, taken)
           IN  /\ req' = [req EXCEPT ![r] = x] /\ req'[r] = x /\ x \in Reqs
               /\ x.pc = pc /\ x.kind = req[r].kind /\ x.who = req[r].who
               /\ x.saw = req[r].saw /\ x.member = req[r].member
               /\ x.created = req[r].created /\ x.inserted = req[r].inserted
               /\ x.locks = req[r].locks \cup taken
  <1> DEFINE x == Gone(req[r], pc, taken)
  <1>1. req \in [Requests -> Reqs] /\ req[r] \in Reqs
    BY FieldsOf
  <1>2. req[r].locks \cup taken \in SUBSET Locks
    BY <1>1 DEF Reqs
  <1>3. /\ x \in Reqs /\ x.pc = pc /\ x.kind = req[r].kind /\ x.who = req[r].who
        /\ x.saw = req[r].saw /\ x.member = req[r].member
        /\ x.created = req[r].created /\ x.inserted = req[r].inserted
        /\ x.locks = req[r].locks \cup taken
    BY <1>1, <1>2 DEF Gone, Reqs
  <1>4. req' = [req EXCEPT ![r].pc = pc, ![r].locks = @ \cup taken]
    BY DEF Goes
  <1>5. req'[r] = x
    BY <1>1, <1>4 DEF Gone
  <1>6. req' = [req EXCEPT ![r] = x]
    BY <1>1, <1>4 DEF Gone
  <1> QED
    BY <1>3, <1>5, <1>6

LEMMA GoingKeepsInv ==
    ASSUME SeatInv, NEW r \in Requests, NEW pc \in Phases,
           NEW taken \in SUBSET Locks, Goes(r, pc, taken),
           DatabaseUnchanged, accounts' \subseteq Students,
           Sound(r, Gone(req[r], pc, taken))
    PROVE  SeatInv'
  BY GoneFields, StatementKeepsInv

LEMMA NobodyHolds ==
    ASSUME SeatInv, NEW r \in Requests, WaitsFor(r) = {}
    PROVE  /\ req[r].pc = "lock" /\ OverLink(r) =>
                \A q \in Requests \ {r} : ~Holds(req[q]) /\ ~Shares(req[q])
           /\ req[r].pc = "key" => \A q \in Requests \ {r} : ~Holds(req[q])
  <1>1. ASSUME NEW q \in Requests \ {r}
        PROVE  (HoldsCourse(q) <=> Holds(req[q])) /\ (SharesCourse(q) <=> Shares(req[q]))
    BY <1>1, FieldsOf
  <1> QED
    BY <1>1 DEF WaitsFor

LEMMA ResolveKeepsInv ==
    ASSUME SeatInv, NEW r \in Requests, Resolve(r)
    PROVE  SeatInv'
  <1>1. PICK kind \in LinkKinds, s \in Students :
          req' = [req EXCEPT ![r] =
              [pc |-> Then(kind, "idle"), kind |-> kind, who |-> s,
               saw |-> course.max, member |-> kind # "password" /\ s \in members,
               created |-> FALSE, inserted |-> FALSE, locks |-> {}, rotates |-> {}]]
    BY DEF Resolve
  <1> DEFINE x == [pc |-> Then(kind, "idle"), kind |-> kind, who |-> s,
                   saw |-> course.max, member |-> kind # "password" /\ s \in members,
                   created |-> FALSE, inserted |-> FALSE, locks |-> {},
                   rotates |-> {}]
  <1>2. course.max \in Limits
    BY DEF SeatInv, TypeOK, Courses
  <1>3. Then(kind, "idle") = "lock"
    BY DEF Then, LinkKinds
  <1>4. x \in Reqs
    BY <1>2, <1>3 DEF Reqs, Phases, Kinds
  <1>5. x.pc = "lock" /\ x.kind \in LinkKinds /\ ~x.inserted /\ x.locks = {}
    BY <1>3
  <1> HIDE DEF x
  <1>6. Sound(r, x)
    BY <1>5 DEF Sound, Alone, Seated, Invited, Rotating, Holds, Shares, LinkKinds,
                Locked, Placed, HasProfile, HasInvite
  <1>7. DatabaseUnchanged /\ accounts' \subseteq Students
    BY FieldsOf DEF Resolve, OthersUnchanged
  <1> QED
    BY <1>1, <1>4, <1>6, <1>7, StatementKeepsInv DEF x

LEMMA BeginInviteKeepsInv ==
    ASSUME SeatInv, NEW r \in Requests, BeginInvite(r)
    PROVE  SeatInv'
  <1>1. PICK s \in Students :
          req' = [req EXCEPT ![r] =
              [Idle(Then("invite", "idle")) EXCEPT !.kind = "invite", !.who = s]]
    BY DEF BeginInvite
  <1> DEFINE begun == Idle(Then("invite", "idle"))
             x == [begun EXCEPT !.kind = "invite", !.who = s]
  <1>2. Then("invite", "idle") = "lock"
    BY DEF Then
  <1>3. begun \in Reqs /\ begun.pc = "lock" /\ begun.locks = {} /\ ~begun.inserted
    BY <1>2, IdleFields DEF Phases
  <1> HIDE DEF begun
  <1>4. x \in Reqs
    BY <1>3 DEF Reqs, Kinds, LinkKinds
  <1>5. x.pc = "lock" /\ x.kind = "invite" /\ ~x.inserted /\ x.locks = {}
    BY <1>3 DEF Reqs
  <1> HIDE DEF x
  <1>6. Sound(r, x)
    BY <1>5 DEF Sound, Alone, Seated, Invited, Rotating, Holds, Shares,
                Locked, Placed, HasProfile, HasInvite
  <1>7. DatabaseUnchanged /\ accounts' \subseteq Students
    BY FieldsOf DEF BeginInvite, OthersUnchanged
  <1> QED
    BY <1>1, <1>4, <1>6, <1>7, StatementKeepsInv DEF x, begun

LEMMA RedeemKeepsInv ==
    ASSUME SeatInv, NEW r \in Requests, Redeem(r)
    PROVE  SeatInv'
  <1>1. PICK s \in accounts \cap members :
          req' = [req EXCEPT ![r] =
              [Idle(Then("redeem", IF s \in enrolled THEN "key" ELSE "idle"))
                 EXCEPT !.kind = "redeem", !.who = s]]
    BY DEF Redeem
  <1> DEFINE pc == Then("redeem", IF s \in enrolled THEN "key" ELSE "idle")
             begun == Idle(pc)
             x == [begun EXCEPT !.kind = "redeem", !.who = s]
  <1>2. (pc = "consume" /\ s \in enrolled) \/ pc = "enrol"
    BY DEF Then
  <1>3. begun \in Reqs /\ begun.pc = pc /\ begun.locks = {} /\ ~begun.inserted
    BY <1>2, IdleFields DEF Phases
  <1>6. req' = [req EXCEPT ![r] = x]
    BY <1>1
  <1> HIDE DEF begun, pc
  <1>4. x \in Reqs
    BY <1>3 DEF SeatInv, TypeOK, Reqs, Kinds
  <1>5. /\ \/ x.pc = "consume" /\ x.who \in enrolled
           \/ x.pc = "enrol"
        /\ x.kind = "redeem" /\ x.who \in members /\ ~x.inserted /\ x.locks = {}
    BY <1>2, <1>3 DEF Reqs
  <1> HIDE DEF x
  <1>7. Sound(r, x)
    BY <1>5
    DEF Sound, Alone, Seated, Invited, Rotating, Holds, Shares, LinkKinds,
        Locked, Placed, HasProfile, HasInvite
  <1>8. DatabaseUnchanged /\ accounts' \subseteq Students
    BY FieldsOf DEF Redeem, OthersUnchanged
  <1> QED
    BY <1>4, <1>6, <1>7, <1>8, StatementKeepsInv

LEMMA BeginRotationKeepsInv ==
    ASSUME SeatInv, NEW r \in Requests, BeginRotation(r)
    PROVE  SeatInv'
  <1> DEFINE advised == \A q \in Requests : req[q].pc # "rotate"
             x == IF advised
                  THEN [Idle("rotate") EXCEPT !.kind = "rotate", !.rotates = links]
                  ELSE Idle("done")
  <1>1. req' = [req EXCEPT ![r] = x] /\ OthersUnchanged
    BY DEF BeginRotation, Rotate
  <1>2. x \in Reqs /\ Sound(r, x)
    <2>1. CASE ~advised
      BY <2>1, IdleSound
    <2>2. CASE advised
      <3>1. /\ Idle("rotate") \in Reqs /\ Idle("rotate").locks = {}
            /\ ~Idle("rotate").inserted /\ Idle("rotate").pc = "rotate"
        BY IdleFields DEF Phases
      <3>2. links \in SUBSET Nat
        BY DEF SeatInv, TypeOK
      <3>3. /\ x \in Reqs /\ x.pc = "rotate" /\ x.kind = "rotate"
            /\ x.rotates = links /\ ~x.inserted /\ x.locks = {}
        BY <2>2, <3>1, <3>2 DEF Reqs, Kinds
      <3> QED
        BY <2>2, <3>3
        DEF Sound, Alone, Seated, Invited, Rotating, Holds, Shares, LinkKinds,
            Locked, Placed, HasProfile, HasInvite
    <2> QED
      BY <2>1, <2>2
  <1>3. DatabaseUnchanged /\ accounts' \subseteq Students
    BY <1>1, FieldsOf DEF OthersUnchanged
  <1> HIDE DEF x
  <1> QED
    BY <1>1, <1>2, <1>3, StatementKeepsInv

\* What a statement that goes on is sound by, from where it stood.
LEMMA SoundParts ==
    ASSUME SeatInv, NEW r \in Requests, NEW x \in Reqs,
           Holds(x) => Holds(req[r]), Shares(x) => Shares(req[r]),
           x.pc # "rotate", x.who = req[r].who, x.member = req[r].member,
           x.saw = req[r].saw, x.inserted = req[r].inserted,
           Invited(x), Locked(x), Placed(x)
    PROVE  Sound(r, x)
  BY FieldsOf DEF Sound, Alone, Seated, Rotating

LEMMA CountSeatsKeepsInv ==
    ASSUME SeatInv, NEW r \in Requests, CountSeats(r)
    PROVE  SeatInv'
  <1>1. DatabaseUnchanged /\ accounts' \subseteq Students
    BY FieldsOf DEF CountSeats, OthersUnchanged
  <1> DEFINE free == \/ req[r].member /\ Who(r) \in enrolled
                     \/ Cardinality(enrolled) < req[r].saw
             pc == Then(req[r].kind, "lock")
             x == Gone(req[r], pc, {"course"})
  <1>2. CASE ~free
    <2>1. Ends(r, "done")
      BY <1>2 DEF CountSeats
    <2> QED
      BY <1>1, <2>1, EndKeepsInv
  <1>3. CASE free
    <2>1. Goes(r, pc, {"course"})
      BY <1>3 DEF CountSeats
    <2>2. /\ req[r].kind \in LinkKinds /\ req[r].pc = "lock" /\ WaitsFor(r) = {}
          /\ pc = CASE req[r].kind = "enroll" -> "enrol"
                    [] req[r].kind = "complete" -> "profile"
                    [] OTHER -> "account"
      BY DEF CountSeats, OverLink, At, Then
    <2>3. \A q \in Requests \ {r} : ~Holds(req[q]) /\ ~Shares(req[q])
      BY <2>2, NobodyHolds DEF OverLink
    <2>4. pc \in Phases /\ {"course"} \in SUBSET Locks
      BY <2>2 DEF Phases, Locks
    <2>5. /\ ~req[r].inserted /\ req[r].locks = {} /\ Who(r) = req[r].who
      <3>1. Locked(req[r]) /\ Placed(req[r]) /\ req[r] \in Reqs /\ Who(r) = req[r].who
        BY FieldsOf DEF Sound
      <3>2. req[r].locks \subseteq Locks
        BY <3>1 DEF Reqs
      <3>3. \A l \in Locks : l \notin req[r].locks
        BY <2>2, <3>1 DEF Locked, Placed, Holds, Shares, HasProfile, HasInvite, Locks
      <3> QED
        BY <2>2, <3>1, <3>2, <3>3 DEF Placed
    <2>6. /\ x \in Reqs /\ x.pc = pc /\ x.kind = req[r].kind /\ x.who = req[r].who
          /\ x.saw = req[r].saw /\ x.member = req[r].member
          /\ x.inserted = req[r].inserted /\ x.locks = {"course"}
      BY <2>1, <2>4, <2>5, GoneFields
    <2> HIDE DEF x, pc
    <2>7. Alone(r, x) /\ Seated(x) /\ Invited(x) /\ Rotating(x)
      BY <1>3, <2>2, <2>3, <2>5, <2>6
      DEF Alone, Seated, Invited, Rotating, Holds, Shares, LinkKinds
    <2>8. Locked(x) /\ Placed(x)
      BY <2>2, <2>5, <2>6
      DEF Locked, Placed, Holds, Shares, HasProfile, HasInvite, LinkKinds, Activation
    <2>9. Sound(r, x)
      BY <2>7, <2>8 DEF Sound
    <2> QED
      BY <1>1, <2>1, <2>4, <2>9, GoingKeepsInv DEF x
  <1> QED
    BY <1>2, <1>3

LEMMA LockInviteKeepsInv ==
    ASSUME SeatInv, NEW r \in Requests, LockInvite(r)
    PROVE  SeatInv'
  <1>1. DatabaseUnchanged /\ accounts' \subseteq Students
    BY FieldsOf DEF LockInvite, OthersUnchanged
  <1> DEFINE pc == Then("invite", IF Who(r) \in accounts THEN "account" ELSE "lock")
             x == Gone(req[r], pc, {"invite"})
  <1>2. CASE Goes(r, pc, {"invite"})
    <2>1. pc \in {"profile", "account"} /\ pc \in Phases /\ {"invite"} \in SUBSET Locks
      BY DEF Then, Phases, Locks
    <2>2. req[r].kind = "invite" /\ req[r].pc = "lock"
      BY DEF LockInvite, At
    <2>3. Locked(req[r]) /\ Placed(req[r])
      BY FieldsOf DEF Sound
    <2>4. /\ x \in Reqs /\ x.pc = pc /\ x.kind = req[r].kind /\ x.who = req[r].who
          /\ x.saw = req[r].saw /\ x.member = req[r].member
          /\ x.inserted = req[r].inserted /\ x.locks = req[r].locks \cup {"invite"}
      BY <1>2, <2>1, GoneFields
    <2> HIDE DEF x, pc
    <2>5. Sound(r, x)
      BY <2>1, <2>2, <2>3, <2>4, SoundParts
      DEF Invited, Locked, Placed, Holds, Shares, HasProfile, HasInvite,
          LinkKinds, Activation
    <2> QED
      BY <1>1, <1>2, <2>1, <2>5, GoingKeepsInv DEF x
  <1>3. CASE Ends(r, "done")
    BY <1>1, <1>3, EndKeepsInv
  <1> QED
    BY <1>2, <1>3 DEF LockInvite

LEMMA ConsumeKeepsInv ==
    ASSUME SeatInv, NEW r \in Requests, Consume(r)
    PROVE  SeatInv'
  <1>1. DatabaseUnchanged /\ accounts' \subseteq Students
    BY FieldsOf DEF Consume, OthersUnchanged
  <1> DEFINE x == Gone(req[r], "commit", {"invite"})
  <1>2. CASE Goes(r, Then(req[r].kind, "consume"), {"invite"})
    <2>1. /\ req[r].pc = "consume" /\ req[r].kind = "redeem"
          /\ req[r].who \in members /\ (req[r].inserted \/ req[r].who \in enrolled)
          /\ Locked(req[r]) /\ Placed(req[r])
      BY FieldsOf DEF Consume, At, Sound, Invited
    <2>2. /\ Then(req[r].kind, "consume") = "commit"
          /\ "commit" \in Phases /\ {"invite"} \in SUBSET Locks
      BY DEF Then, Phases, Locks
    <2>3. Goes(r, "commit", {"invite"})
      BY <1>2, <2>2
    <2>4. /\ x \in Reqs /\ x.pc = "commit" /\ x.kind = req[r].kind /\ x.who = req[r].who
          /\ x.saw = req[r].saw /\ x.member = req[r].member
          /\ x.inserted = req[r].inserted /\ x.locks = req[r].locks \cup {"invite"}
      BY <2>2, <2>3, GoneFields
    <2> HIDE DEF x
    <2>5. Sound(r, x)
      BY <2>1, <2>4, SoundParts
      DEF Invited, Locked, Placed, Holds, Shares, HasProfile, HasInvite,
          LinkKinds, Activation
    <2> QED
      BY <1>1, <2>2, <2>3, <2>5, GoingKeepsInv DEF x
  <1>3. CASE Ends(r, "done")
    BY <1>1, <1>3, EndKeepsInv
  <1> QED
    BY <1>2, <1>3 DEF Consume

LEMMA CreateAccountKeepsInv ==
    ASSUME SeatInv, NEW r \in Requests, CreateAccount(r)
    PROVE  SeatInv'
  <1>1. DatabaseUnchanged /\ accounts' \subseteq Students
    BY FieldsOf DEF CreateAccount
  <1>2. CASE Ends(r, "done")
    BY <1>1, <1>2, EndKeepsInv
  <1>3. CASE req' = [req EXCEPT ![r].pc = Then(req[r].kind, "account"),
                                ![r].created = Who(r) \notin accounts]
    <2> DEFINE pc == Then(req[r].kind, "account")
               x == [req[r] EXCEPT !.pc = pc, !.created = Who(r) \notin accounts]
    <2>1. req' = [req EXCEPT ![r] = x]
      BY <1>3, FieldsOf
    <2>2. /\ Locked(req[r]) /\ Placed(req[r]) /\ req[r].pc = "account"
          /\ req[r].kind \in Activation /\ req[r] \in Reqs
      BY FieldsOf DEF CreateAccount, Sound, Placed
    <2>3. pc = IF req[r].kind = "password" THEN "check" ELSE "profile"
      BY DEF Then
    <2> HIDE DEF pc
    <2>4. /\ x \in Reqs /\ x.pc = pc /\ x.kind = req[r].kind
          /\ x.who = req[r].who /\ x.member = req[r].member
          /\ x.saw = req[r].saw /\ x.inserted = req[r].inserted
          /\ x.locks = req[r].locks
      BY <2>2, <2>3 DEF Reqs, Phases
    <2> HIDE DEF x
    <2>5. Sound(r, x)
      BY <2>2, <2>3, <2>4, SoundParts
      DEF Invited, Locked, Placed, Holds, Shares, HasProfile, HasInvite,
          LinkKinds, Activation
    <2> QED
      BY <1>1, <2>1, <2>4, <2>5, StatementKeepsInv
  <1> QED
    BY <1>2, <1>3 DEF CreateAccount

LEMMA CheckAccountKeepsInv ==
    ASSUME SeatInv, NEW r \in Requests, CheckAccount(r)
    PROVE  SeatInv'
  <1> DEFINE none == {}
             x == Gone(req[r], "profile", none)
  <1>1. /\ DatabaseUnchanged /\ accounts' \subseteq Students
        /\ Goes(r, "profile", none) /\ "profile" \in Phases /\ none \in SUBSET Locks
        /\ req[r].locks \cup none = req[r].locks
    BY FieldsOf DEF CheckAccount, OthersUnchanged, Then, Phases
  <1> HIDE DEF none
  <1>2. /\ Locked(req[r]) /\ Placed(req[r]) /\ req[r].pc = "check"
        /\ req[r].kind = "password"
    BY FieldsOf DEF CheckAccount, Sound, Placed
  <1>3. /\ x \in Reqs /\ x.pc = "profile" /\ x.kind = req[r].kind
        /\ x.who = req[r].who /\ x.saw = req[r].saw /\ x.member = req[r].member
        /\ x.inserted = req[r].inserted /\ x.locks = req[r].locks \cup none
    BY <1>1, GoneFields
  <1> HIDE DEF x
  <1>4. Sound(r, x)
    BY <1>1, <1>2, <1>3, SoundParts
    DEF Invited, Locked, Placed, Holds, Shares, HasProfile, HasInvite, LinkKinds
  <1> QED
    BY <1>1, <1>4, GoingKeepsInv DEF x

LEMMA UpsertProfileKeepsInv ==
    ASSUME SeatInv, NEW r \in Requests, UpsertProfile(r)
    PROVE  SeatInv'
  <1> DEFINE x == Gone(req[r], "enrol", {"profile"})
  <1>1. /\ DatabaseUnchanged /\ accounts' \subseteq Students
        /\ Goes(r, "enrol", {"profile"}) /\ "enrol" \in Phases
        /\ {"profile"} \in SUBSET Locks
    BY FieldsOf DEF UpsertProfile, OthersUnchanged, Then, Phases, Locks
  <1>2. /\ Locked(req[r]) /\ Placed(req[r]) /\ req[r].pc = "profile"
        /\ req[r].kind \in {"complete", "password", "invite"}
    BY FieldsOf DEF UpsertProfile, At, Sound, Placed
  <1>3. /\ x \in Reqs /\ x.pc = "enrol" /\ x.kind = req[r].kind
        /\ x.who = req[r].who /\ x.saw = req[r].saw /\ x.member = req[r].member
        /\ x.inserted = req[r].inserted /\ x.locks = req[r].locks \cup {"profile"}
    BY <1>1, GoneFields
  <1> HIDE DEF x
  <1>4. Sound(r, x)
    BY <1>2, <1>3, SoundParts
    DEF Invited, Locked, Placed, Holds, Shares, HasProfile, HasInvite, LinkKinds
  <1> QED
    BY <1>1, <1>4, GoingKeepsInv DEF x

LEMMA EnrolKeepsInv ==
    ASSUME SeatInv, NEW r \in Requests, Enrol(r)
    PROVE  SeatInv'
  <1>1. DatabaseUnchanged /\ accounts' \subseteq Students
    BY FieldsOf DEF Enrol, OthersUnchanged
  <1> DEFINE inserts == Who(r) \notin enrolled
             pc == Then(req[r].kind, IF inserts THEN "enrol" ELSE "key")
             x == [req[r] EXCEPT !.pc = pc, !.inserted = inserts]
  <1>2. req' = [req EXCEPT ![r] = x]
    BY FieldsOf DEF Enrol
  <1>3. /\ Locked(req[r]) /\ Placed(req[r]) /\ req[r].pc = "enrol" /\ req[r] \in Reqs
        /\ Alone(r, req[r]) /\ Seated(req[r]) /\ Invited(req[r])
        /\ Who(r) = req[r].who /\ req[r].kind # "rotate"
    BY FieldsOf DEF Enrol, At, Sound, Placed
  <1>4. pc = IF inserts THEN "key" ELSE IF req[r].kind = "redeem" THEN "consume"
                                                                   ELSE "commit"
    BY DEF Then
  <1> HIDE DEF pc
  <1>5. /\ x \in Reqs /\ x.pc = pc /\ x.kind = req[r].kind
        /\ x.who = req[r].who /\ x.member = req[r].member
        /\ x.saw = req[r].saw /\ x.inserted = inserts
        /\ x.locks = req[r].locks
    BY <1>3, <1>4 DEF Reqs, Phases
  <1> HIDE DEF x
  <1>6. Alone(r, x) /\ Seated(x) /\ Rotating(x)
    BY <1>3, <1>4, <1>5 DEF Alone, Seated, Rotating, Holds, Shares
  <1>7. Invited(x) /\ Locked(x) /\ Placed(x)
    BY <1>3, <1>4, <1>5
    DEF Invited, Locked, Placed, Holds, Shares, HasProfile, HasInvite,
        LinkKinds, Activation
  <1>8. Sound(r, x)
    BY <1>6, <1>7 DEF Sound
  <1> QED
    BY <1>1, <1>2, <1>5, <1>8, StatementKeepsInv

LEMMA ShareCourseKeepsInv ==
    ASSUME SeatInv, NEW r \in Requests, ShareCourse(r)
    PROVE  SeatInv'
  <1> DEFINE pc == Then(req[r].kind, "key")
             x == Gone(req[r], pc, {"key"})
  <1>1. /\ DatabaseUnchanged /\ accounts' \subseteq Students
        /\ Goes(r, pc, {"key"}) /\ pc \in Phases /\ {"key"} \in SUBSET Locks
        /\ pc = IF req[r].kind = "redeem" THEN "consume" ELSE "commit"
    BY FieldsOf DEF ShareCourse, OthersUnchanged, Then, Phases, Locks
  <1>2. /\ Locked(req[r]) /\ Placed(req[r]) /\ req[r].pc = "key"
        /\ req[r].inserted /\ Alone(r, req[r]) /\ Seated(req[r]) /\ Invited(req[r])
        /\ \A q \in Requests \ {r} : ~Holds(req[q])
    BY FieldsOf, NobodyHolds DEF ShareCourse, At, Sound, Placed
  <1>3. /\ x \in Reqs /\ x.pc = pc /\ x.kind = req[r].kind
        /\ x.who = req[r].who /\ x.saw = req[r].saw /\ x.member = req[r].member
        /\ x.inserted = req[r].inserted /\ x.locks = req[r].locks \cup {"key"}
    BY <1>1, GoneFields
  <1> HIDE DEF x, pc
  <1>4. Alone(r, x) /\ Seated(x) /\ Rotating(x)
    BY <1>1, <1>2, <1>3 DEF Alone, Seated, Rotating, Holds, Shares
  <1>5. Invited(x) /\ Locked(x) /\ Placed(x)
    BY <1>1, <1>2, <1>3
    DEF Invited, Locked, Placed, Holds, Shares, HasProfile, HasInvite,
        LinkKinds, Activation
  <1>6. Sound(r, x)
    BY <1>4, <1>5 DEF Sound
  <1> QED
    BY <1>1, <1>6, GoingKeepsInv DEF x

LEMMA UndoKeepsInv ==
    ASSUME SeatInv, NEW r \in Requests, Undo(r)
    PROVE  SeatInv'
  <1>1. DatabaseUnchanged /\ accounts' \subseteq Students /\ Ends(r, "done")
    BY FieldsOf DEF Undo
  <1> QED
    BY <1>1, EndKeepsInv

LEMMA AbortsKeepsInv ==
    ASSUME SeatInv, NEW r \in Requests, Aborts(r), OthersUnchanged
    PROVE  SeatInv'
  <1>1. DatabaseUnchanged /\ accounts' \subseteq Students
    BY FieldsOf DEF OthersUnchanged
  <1>2. Ends(r, "done") \/ Ends(r, "undo")
    BY DEF Aborts
  <1> QED
    BY <1>1, <1>2, EndKeepsInv

LEMMA EndRotationKeepsInv ==
    ASSUME SeatInv, NEW r \in Requests, EndRotation(r)
    PROVE  SeatInv'
  <1>1. CASE UNCHANGED <<links, issued>>
    <2>1. DatabaseUnchanged /\ accounts' \subseteq Students /\ Ends(r, "done")
      BY <1>1, FieldsOf DEF EndRotation, DatabaseUnchanged, linkVars
    <2> QED
      BY <2>1, EndKeepsInv
  <1>2. CASE links' = (links \ req[r].rotates) \cup {issued + 1} /\ issued' = issued + 1
    <2>1. req[r].rotates = links /\ req[r].pc = "rotate"
      BY FieldsOf DEF EndRotation, At, Sound, Rotating
    <2>2. links' = {issued'}
      BY <1>2, <2>1
    <2>3. req' = [req EXCEPT ![r] = Idle("done")]
      BY DEF EndRotation, Ends
    <2>4. /\ req' \in [Requests -> Reqs] /\ req'[r] = Idle("done")
          /\ \A q \in Requests \ {r} : req'[q] = req[q] /\ req[q].pc # "rotate"
      BY <2>1, <2>3, FieldsOf, IdleSound DEF Sound, Alone
    <2>5. UNCHANGED <<course, members, enrolled, invite, accounts>>
      BY DEF EndRotation, committed
    <2>6. TypeOK'
      BY <1>2, <2>2, <2>4, <2>5 DEF SeatInv, TypeOK
    <2>7. Idle("done").pc = "done" /\ ~Holds(Idle("done")) /\ ~Shares(Idle("done"))
      BY IdleFields DEF Phases, Holds, Shares
    <2>8. ASSUME NEW q \in Requests PROVE Sound(q, req[q])'
      <3>1. CASE q = r
        <4>1. Sound(r, Idle("done"))
          BY IdleSound
        <4>2. Locked(req[q])' /\ Placed(req[q])'
          BY <2>4, <3>1, <4>1 DEF Sound
        <4>3. (Alone(q, req[q]) /\ Seated(req[q]) /\ Invited(req[q]) /\ Rotating(req[q]))'
          BY <2>4, <2>5, <2>7, <3>1, <4>1
          DEF Alone, Seated, Rotating, Sound, Invited
        <4> QED
          BY <4>2, <4>3 DEF Sound
      <3>2. CASE q # r
        <4>1. req'[q] = req[q] /\ req[q].pc # "rotate" /\ Sound(q, req[q])
          BY <2>4, <3>2, FieldsOf
        <4>2. Alone(q, req[q])'
          BY <2>4, <2>7, <4>1 DEF Sound, Alone
        <4>3. (Seated(req[q]) /\ Invited(req[q]) /\ Rotating(req[q]))'
          BY <2>5, <4>1 DEF Sound, Seated, Invited, Rotating
        <4>4. Locked(req[q])' /\ Placed(req[q])'
          BY <4>1 DEF Sound
        <4> QED
          BY <4>2, <4>3, <4>4 DEF Sound
      <3> QED
        BY <3>1, <3>2
    <2>9. ConsumedHasEnrolled'
      BY <2>5 DEF SeatInv, ConsumedHasEnrolled
    <2> QED
      BY <2>2, <2>6, <2>8, <2>9 DEF SeatInv
  <1> QED
    BY <1>1, <1>2 DEF EndRotation

LEMMA UpdateCourseKeepsInv ==
    ASSUME SeatInv, UpdateCourse
    PROVE  SeatInv'
  <1>1. UNCHANGED <<members, enrolled, invite, links, issued, accounts, req>>
        /\ course' \in Courses
    BY DEF UpdateCourse, linkVars
  <1>2. TypeOK'
    BY <1>1 DEF SeatInv, TypeOK
  <1>3. ASSUME NEW q \in Requests PROVE Sound(q, req[q])'
    BY <1>1 DEF SeatInv, Sound, Alone, Seated, Invited, Rotating
  <1> QED
    BY <1>1, <1>2, <1>3 DEF SeatInv, ConsumedHasEnrolled

\* A commit: nobody else has the course locked when a seat is taken.
LEMMA CommitsKeepsInv ==
    ASSUME SeatInv, NEW r \in Requests, NEW pc \in {"done", "undo"},
           req[r].pc = "commit", Ends(r, pc), Commits(r)
    PROVE  SeatInv'
  <1> DEFINE x == Ended(req[r], pc)
  <1>1. /\ Sound(r, req[r]) /\ req[r] \in Reqs /\ Who(r) = req[r].who
        /\ Who(r) \in Students
    BY FieldsOf
  <1>2. /\ req' = [req EXCEPT ![r] = x] /\ x \in Reqs /\ Sound(r, x) /\ x.pc = pc
        /\ ~Holds(x) /\ ~Shares(x)
    BY EndedFields
  <1>3. x.kind = "redeem" => x.who \in members
    BY <1>2 DEF Sound, Invited
  <1> HIDE DEF x
  <1>4. x.pc \notin {"rotate", "consume", "commit"}
    BY <1>2
  <1>5. /\ req' \in [Requests -> Reqs] /\ req'[r] = x
        /\ \A q \in Requests \ {r} : req'[q] = req[q]
    BY <1>2, FieldsOf
  <1>6. /\ enrolled' = IF req[r].inserted THEN enrolled \cup {Who(r)} ELSE enrolled
        /\ members \subseteq members' /\ members' \subseteq Students
        /\ invite' = IF OverLink(r) THEN invite
                     ELSE [invite EXCEPT ![Who(r)] = "consumed"]
        /\ req[r].kind \notin {"enroll", "redeem"} => Who(r) \in members'
        /\ UNCHANGED <<course, accounts, links, issued>>
    BY <1>1 DEF Commits, linkVars, SeatInv, TypeOK
  <1>7. TypeOK'
    BY <1>1, <1>5, <1>6 DEF SeatInv, TypeOK
  <1>8. ASSUME NEW q \in Requests \ {r}, Holds(req[q]) PROVE enrolled' = enrolled
    BY <1>1, <1>6, <1>8 DEF Sound, Alone, Shares
  <1>9. ASSUME NEW q \in Requests PROVE Sound(q, req[q])'
    <2>1. CASE q = r
      <3>1. (Alone(q, req[q]) /\ Seated(req[q]) /\ Invited(req[q]) /\ Rotating(req[q]))'
        BY <1>2, <1>3, <1>4, <1>5, <1>6, <2>1
        DEF Alone, Seated, Invited, Rotating
      <3>2. Locked(req[q])' /\ Placed(req[q])'
        BY <1>2, <1>5, <2>1 DEF Sound
      <3> QED
        BY <3>1, <3>2 DEF Sound
    <2>2. CASE q # r
      <3>1. req'[q] = req[q] /\ Sound(q, req[q])
        BY <1>5, <2>2, FieldsOf
      <3>2. Alone(q, req[q])'
        BY <1>2, <1>4, <1>5, <3>1 DEF Sound, Alone
      <3>3. Seated(req[q])'
        BY <1>8, <2>2, <3>1 DEF Sound, Seated
      <3>4. Invited(req[q])' /\ Rotating(req[q])'
        BY <1>6, <3>1 DEF Sound, Invited, Rotating
      <3>5. Locked(req[q])' /\ Placed(req[q])'
        BY <3>1 DEF Sound
      <3> QED
        BY <3>2, <3>3, <3>4, <3>5 DEF Sound
    <2> QED
      BY <2>1, <2>2
  <1>10. ConsumedHasEnrolled'
    <2> SUFFICES ASSUME NEW s \in Students, invite'[s] = "consumed"
                 PROVE  s \in enrolled' \cap members'
      BY DEF ConsumedHasEnrolled
    <2>1. CASE invite[s] = "consumed"
      BY <1>6, <2>1 DEF SeatInv, ConsumedHasEnrolled
    <2>2. CASE invite[s] # "consumed"
      <3>1. s = Who(r) /\ ~OverLink(r)
        BY <1>6, <2>2 DEF SeatInv, TypeOK
      <3>2. s \in enrolled'
        BY <1>1, <1>6, <3>1 DEF Sound, Invited, OverLink
      <3>3. s \in members'
        BY <1>1, <1>6, <3>1 DEF Sound, Invited, OverLink, LinkKinds
      <3> QED
        BY <3>2, <3>3
    <2> QED
      BY <2>1, <2>2
  <1> QED
    BY <1>6, <1>7, <1>9, <1>10 DEF SeatInv

-----------------------------------------------------------------------------
(* The theorems on seats, invites and the link *)

LEMMA InitSeatInv == Init => SeatInv
  <1> SUFFICES ASSUME Init PROVE SeatInv
    OBVIOUS
  <1>1. \A r \in Requests : req[r] = Idle("idle")
    BY DEF Init
  <1>2. \A r \in Requests : Idle("idle") \in Reqs /\ Sound(r, Idle("idle"))
    BY IdleSound
  <1>3. TypeOK
    BY <1>1, <1>2 DEF Init, TypeOK, Courses
  <1> QED
    BY <1>1, <1>2, <1>3 DEF Init, SeatInv, ConsumedHasEnrolled

LEMMA NextSeatInv == SeatInv /\ [Next]_vars => SeatInv'
  <1> SUFFICES ASSUME SeatInv, [Next]_vars PROVE SeatInv'
    OBVIOUS
  <1>1. CASE UNCHANGED vars
    BY <1>1
    DEF vars, committed, linkVars, SeatInv, TypeOK, Sound, Alone, Seated,
        Invited, Rotating, ConsumedHasEnrolled
  <1>2. CASE UpdateCourse
    BY <1>2, UpdateCourseKeepsInv
  <1>3. ASSUME NEW r \in Requests, Begin(r) PROVE SeatInv'
    BY <1>3, ResolveKeepsInv, BeginInviteKeepsInv, RedeemKeepsInv,
       BeginRotationKeepsInv DEF Begin
  <1>4. ASSUME NEW r \in Requests, Commit(r) \/ CommitUnacknowledged(r)
        PROVE  SeatInv'
    BY <1>4, CommitsKeepsInv DEF Commit, CommitUnacknowledged, Aborts
  <1>5. ASSUME NEW r \in Requests, Fail(r) \/ DeadlockVictim(r)
        PROVE  SeatInv'
    BY <1>5, AbortsKeepsInv DEF Fail, DeadlockVictim
  <1>6. ASSUME NEW r \in Requests, Serve(r) PROVE SeatInv'
    BY <1>4, <1>5, <1>6, CountSeatsKeepsInv, LockInviteKeepsInv,
       ConsumeKeepsInv, CreateAccountKeepsInv, CheckAccountKeepsInv,
       UpsertProfileKeepsInv, EnrolKeepsInv, ShareCourseKeepsInv,
       UndoKeepsInv, EndRotationKeepsInv DEF Serve
  <1> QED
    BY <1>1, <1>2, <1>3, <1>4, <1>5, <1>6 DEF Next

LEMMA SeatInvHolds == Spec => []SeatInv
  BY InitSeatInv, NextSeatInv, PTL DEF Spec

\* Every variable keeps its type, for any requests, students and limits.
THEOREM SeatTypes == Spec => []TypeOK
  <1>1. SeatInv => TypeOK
    BY DEF SeatInv
  <1> QED
    BY <1>1, SeatInvHolds, PTL

\* The last seat has one taker, however many requests come over the link and
\* by invite at once (_ensure_course_capacity_available).
THEOREM SeatsWithinLimit == Spec => []SeatWithinLimit
  <1>1. SeatInv => SeatWithinLimit
    BY FieldsOf DEF SeatWithinLimit, SeatInv, Sound, Seated, Holds, OverLink
  <1> QED
    BY <1>1, SeatInvHolds, PTL

\* A consumed invite has enrolled its student, whatever failed in between.
THEOREM ConsumedInvitesEnrolled == Spec => []ConsumedHasEnrolled
  <1>1. SeatInv => ConsumedHasEnrolled
    BY DEF SeatInv
  <1> QED
    BY <1>1, SeatInvHolds, PTL

\* However many rotations run at once, one link is active.
THEOREM LinkIsUnique == Spec => []OneActiveLink
  <1>1. SeatInv => OneActiveLink
    BY FS_Singleton DEF SeatInv, OneActiveLink
  <1> QED
    BY <1>1, SeatInvHolds, PTL

-----------------------------------------------------------------------------
(* What becomes of the accounts *)

\* Only an activation makes an account, and from then on it goes on to the
\* check, the statements whose failure is handled, or the undoing of it.
Accounts(x) ==
    x.created => /\ x.kind \in Activation
                 /\ x.pc \in {"check", "profile", "enrol", "key", "commit", "undo"}
AccountInv == SeatInv /\ \A r \in Requests : Accounts(req[r])

\* A request with an invite begins with nothing.
LEMMA InviteBegins ==
    ASSUME SeatInv, NEW r \in Requests, BeginInvite(r) \/ Redeem(r)
    PROVE  ~req'[r].created /\ req'[r].locks = {}
  <1>1. req \in [Requests -> Reqs]
    BY FieldsOf
  <1>2. PICK pc \in Phases, kind \in Kinds, s \in Students :
          req' = [req EXCEPT ![r] = [Idle(pc) EXCEPT !.kind = kind, !.who = s]]
    <2>1. Then("invite", "idle") \in Phases
      BY DEF Then, Phases
    <2>2. \A s : Then("redeem", IF s \in enrolled THEN "key" ELSE "idle") \in Phases
      BY DEF Then, Phases
    <2>3. "invite" \in Kinds /\ "redeem" \in Kinds
      BY DEF Kinds
    <2>4. accounts \cap members \subseteq Students
      BY DEF SeatInv, TypeOK
    <2> QED
      BY <2>1, <2>2, <2>3, <2>4 DEF BeginInvite, Redeem
  <1>3. req'[r] = [Idle(pc) EXCEPT !.kind = kind, !.who = s]
    BY <1>1, <1>2
  <1>4. Idle(pc) \in Reqs /\ ~Idle(pc).created /\ Idle(pc).locks = {}
    BY IdleFields
  <1> QED
    BY <1>3, <1>4 DEF Reqs

\* A request that begins has made no account.
LEMMA BeginAccounts ==
    ASSUME AccountInv, NEW r \in Requests, Begin(r)
    PROVE  ~req'[r].created
  <1>1. req \in [Requests -> Reqs]
    BY FieldsOf DEF AccountInv
  <1>2. CASE Resolve(r) \/ BeginInvite(r) \/ Redeem(r)
    BY <1>1, <1>2, InviteBegins DEF Resolve, AccountInv
  <1>3. CASE BeginRotation(r)
    <2>1. \/ req'[r] = [Idle("rotate") EXCEPT !.kind = "rotate", !.rotates = links]
          \/ req'[r] = Idle("done")
      BY <1>1, <1>3 DEF BeginRotation, Rotate
    <2>2. CASE req'[r] = Idle("done")
      BY <2>2, IdleFields DEF Phases
    <2>3. CASE req'[r] = [Idle("rotate") EXCEPT !.kind = "rotate", !.rotates = links]
      <3>1. req'[r].created = Idle("rotate").created
        BY <2>3 DEF Idle
      <3> QED
        BY <3>1, IdleFields DEF Phases
    <2> QED
      BY <2>1, <2>2, <2>3
  <1> QED
    BY <1>2, <1>3 DEF Begin

\* What a request becomes when it ends, and when it goes on.
LEMMA EndedAccounts ==
    ASSUME AccountInv, NEW r \in Requests, NEW pc \in {"done", "undo"}, Ends(r, pc)
    PROVE  Accounts(req'[r]) /\ req'[r].pc = pc
  <1>1. Accounts(req[r]) /\ SeatInv
    BY DEF AccountInv
  <1>2. CASE pc = "done"
    <2>1. req'[r] = Idle("done")
      BY <1>1, <1>2, EndedFields DEF Ended
    <2> QED
      BY <1>2, <2>1, IdleFields DEF Phases, Accounts
  <1>3. CASE pc = "undo"
    BY <1>1, <1>3, EndedFields DEF Accounts
  <1> QED
    BY <1>2, <1>3

LEMMA GoneAccounts ==
    ASSUME AccountInv, NEW r \in Requests, NEW pc \in Phases,
           NEW taken \in SUBSET Locks, Goes(r, pc, taken),
           req[r].created => pc \in {"check", "profile", "enrol", "key", "commit"}
    PROVE  Accounts(req'[r]) /\ req'[r].pc = pc
  <1>1. Accounts(req[r]) /\ SeatInv
    BY DEF AccountInv
  <1>2. /\ req'[r].pc = pc /\ req'[r].kind = req[r].kind
        /\ req'[r].created = req[r].created
    BY <1>1, GoneFields
  <1> QED
    BY <1>1, <1>2 DEF Accounts

LEMMA ServeAccounts ==
    ASSUME AccountInv, NEW r \in Requests,
           Serve(r) \/ Fail(r) \/ CommitUnacknowledged(r)
    PROVE  Accounts(req'[r])
  <1>1. /\ req[r] \in Reqs /\ req \in [Requests -> Reqs] /\ Accounts(req[r])
        /\ Placed(req[r]) /\ SeatInv
    BY FieldsOf DEF AccountInv, Sound
  <1>2. /\ \A pc \in Phases \ {"idle", "lock", "account", "consume", "undo",
                               "rotate", "done"} :
             pc \in {"check", "profile", "enrol", "key", "commit"}
        /\ \A l \in Locks : {l} \in SUBSET Locks
        /\ {} \in SUBSET Locks
    BY DEF Phases
  <1>3. CASE CountSeats(r)
    <2>1. ~req[r].created
      BY <1>1, <1>3 DEF CountSeats, At, Accounts
    <2>2. Then(req[r].kind, "lock") \in Phases /\ "course" \in Locks
      BY DEF Then, Phases, Locks
    <2>3. Goes(r, Then(req[r].kind, "lock"), {"course"}) \/ Ends(r, "done")
      BY <1>3 DEF CountSeats
    <2> QED
      BY <1>2, <2>1, <2>2, <2>3, GoneAccounts, EndedAccounts
  <1>4. CASE LockInvite(r)
    <2> DEFINE pc == Then("invite", IF Who(r) \in accounts THEN "account" ELSE "lock")
    <2>1. ~req[r].created
      BY <1>1, <1>4 DEF LockInvite, At, Accounts
    <2>2. pc \in Phases /\ "invite" \in Locks
      BY DEF Then, Phases, Locks
    <2>3. Goes(r, pc, {"invite"}) \/ Ends(r, "done")
      BY <1>4 DEF LockInvite
    <2> HIDE DEF pc
    <2> QED
      BY <1>2, <2>1, <2>2, <2>3, GoneAccounts, EndedAccounts
  <1>5. CASE Consume(r)
    <2>1. Then(req[r].kind, "consume") = "commit" /\ "commit" \in Phases
          /\ "invite" \in Locks
      BY DEF Then, Phases, Locks
    <2>2. Goes(r, "commit", {"invite"}) \/ Ends(r, "done")
      BY <1>5, <2>1 DEF Consume
    <2> QED
      BY <1>2, <2>1, <2>2, GoneAccounts, EndedAccounts
  <1>6. CASE CreateAccount(r)
    <2>1. CASE Ends(r, "done")
      BY <2>1, EndedAccounts
    <2>2. CASE req' = [req EXCEPT ![r].pc = Then(req[r].kind, "account"),
                                  ![r].created = Who(r) \notin accounts]
      <3>1. /\ req'[r].pc = Then(req[r].kind, "account")
            /\ req'[r].kind = req[r].kind
        BY <1>1, <2>2 DEF Reqs
      <3>2. req[r].kind \in Activation
        BY <1>1, <1>6 DEF CreateAccount, Placed
      <3> QED
        BY <3>1, <3>2 DEF Accounts, Then
    <2> QED
      BY <1>6, <2>1, <2>2 DEF CreateAccount
  <1>7. CASE CheckAccount(r)
    <2>1. Goes(r, "profile", {}) /\ "profile" \in Phases
      BY <1>7 DEF CheckAccount, Then, Phases
    <2> QED
      BY <1>2, <2>1, GoneAccounts
  <1>8. CASE UpsertProfile(r)
    <2>1. Goes(r, "enrol", {"profile"}) /\ "enrol" \in Phases /\ "profile" \in Locks
      BY <1>8 DEF UpsertProfile, Then, Phases, Locks
    <2> QED
      BY <1>2, <2>1, GoneAccounts
  <1>9. CASE Enrol(r)
    <2> DEFINE pc == Then(req[r].kind, IF Who(r) \notin enrolled THEN "enrol" ELSE "key")
    <2>1. /\ req'[r].pc = pc /\ req'[r].kind = req[r].kind
          /\ req'[r].created = req[r].created
      BY <1>1, <1>9 DEF Enrol, Reqs
    <2>2. /\ pc \in {"key", "consume", "commit"}
          /\ pc = "consume" => req[r].kind = "redeem"
      BY DEF Then
    <2> QED
      BY <1>1, <2>1, <2>2 DEF Accounts, Activation
  <1>10. CASE ShareCourse(r)
    <2> DEFINE pc == Then(req[r].kind, "key")
    <2>1. Goes(r, pc, {"key"}) /\ pc \in Phases /\ "key" \in Locks
          /\ pc = IF req[r].kind = "redeem" THEN "consume" ELSE "commit"
      BY <1>10 DEF ShareCourse, Then, Phases, Locks
    <2>2. req[r].created => pc = "commit"
      BY <1>1, <2>1 DEF Accounts, Activation
    <2> HIDE DEF pc
    <2> QED
      BY <1>2, <2>1, <2>2, GoneAccounts
  <1>11. CASE Commit(r) \/ Undo(r) \/ EndRotation(r)
    BY <1>11, EndedAccounts DEF Commit, Undo, EndRotation
  <1>12. CASE Aborts(r)
    BY <1>12, EndedAccounts DEF Aborts
  <1> QED
    BY <1>3, <1>4, <1>5, <1>6, <1>7, <1>8, <1>9, <1>10, <1>11, <1>12
    DEF Serve, Fail, CommitUnacknowledged, DeadlockVictim

\* A step moves one request.
LEMMA OneMoves ==
    ASSUME AccountInv, NEW r \in Requests,
           Begin(r) \/ Serve(r) \/ Fail(r) \/ CommitUnacknowledged(r)
    PROVE  \A q \in Requests \ {r} : req'[q] = req[q]
  <1>1. req \in [Requests -> Reqs]
    BY FieldsOf DEF AccountInv
  <1>2. CASE \E x : req' = [req EXCEPT ![r] = x]
    BY <1>1, <1>2
  <1>3. CASE \E pc, taken : Goes(r, pc, taken)
    BY <1>1, <1>3 DEF Goes
  <1>4. CASE \E pc : Ends(r, pc)
    BY <1>1, <1>4 DEF Ends
  <1>5. CASE \E a, b : req' = [req EXCEPT ![r].pc = a, ![r].created = b]
    BY <1>1, <1>5
  <1>6. CASE \E a, b : req' = [req EXCEPT ![r].pc = a, ![r].inserted = b]
    BY <1>1, <1>6
  <1>7. CASE Begin(r)
    BY <1>2, <1>7 DEF Begin, Resolve, BeginInvite, Redeem, BeginRotation, Rotate
  <1>8. CASE CountSeats(r) \/ LockInvite(r) \/ Consume(r) \/ CheckAccount(r)
             \/ UpsertProfile(r) \/ ShareCourse(r)
    BY <1>3, <1>4, <1>8
    DEF CountSeats, LockInvite, Consume, CheckAccount, UpsertProfile, ShareCourse
  <1>9. CASE CreateAccount(r)
    BY <1>4, <1>5, <1>9 DEF CreateAccount
  <1>10. CASE Enrol(r)
    BY <1>6, <1>10 DEF Enrol
  <1>11. CASE Commit(r) \/ Undo(r) \/ EndRotation(r) \/ Aborts(r)
    BY <1>4, <1>11 DEF Commit, Undo, EndRotation, Aborts
  <1> QED
    BY <1>7, <1>8, <1>9, <1>10, <1>11
    DEF Serve, Fail, CommitUnacknowledged, DeadlockVictim

LEMMA NextAccountInv == AccountInv /\ [Next]_vars => AccountInv'
  <1> SUFFICES ASSUME AccountInv, [Next]_vars PROVE AccountInv'
    OBVIOUS
  <1>1. SeatInv'
    BY NextSeatInv DEF AccountInv
  <1>2. CASE UpdateCourse \/ UNCHANGED vars
    BY <1>1, <1>2 DEF AccountInv, UpdateCourse, vars
  <1>3. ASSUME NEW r \in Requests,
               Begin(r) \/ Serve(r) \/ Fail(r) \/ CommitUnacknowledged(r)
        PROVE  AccountInv'
    <2>1. Accounts(req'[r])
      BY <1>3, BeginAccounts, ServeAccounts DEF Accounts
    <2> QED
      BY <1>1, <1>3, <2>1, OneMoves DEF AccountInv
  <1> QED
    BY <1>2, <1>3 DEF Next

LEMMA AccountInvHolds == Spec => []AccountInv
  <1>1. Init => AccountInv
    <2>1. ~Idle("idle").created
      BY IdleFields DEF Phases
    <2> QED
      BY <2>1, InitSeatInv DEF Init, AccountInv, Accounts
  <1> QED
    BY <1>1, NextAccountInv, PTL DEF Spec

\* While Supabase does what it is asked, an activation that made its account
\* and got past the check of it ends with a membership or without the account,
\* whichever statement failed and whoever else activates the same student.
THEOREM AccountsAreUndone ==
    ASSUME "supabase" \notin Faults
    PROVE  Spec => NoAccountLeaks
  <1>1. ASSUME AccountInv, [Next]_vars, NEW r \in Requests, req[r].created,
               req[r].pc \notin {"check", "done"}, req'[r].pc = "done"
        PROVE  Who(r) \in accounts' \cap members' \/ Who(r) \notin accounts'
    <2>1. /\ req[r].pc \in {"profile", "enrol", "key", "commit", "undo"}
          /\ req[r].kind \in Activation
          /\ req \in [Requests -> Reqs] /\ SeatInv
      BY <1>1, FieldsOf DEF AccountInv, Accounts
    <2>2. PICK q \in Requests : Begin(q) \/ Serve(q) \/ Fail(q)
                                 \/ CommitUnacknowledged(q)
      BY <1>1 DEF Next, UpdateCourse, vars
    <2>3. q = r
      BY <1>1, <2>2, OneMoves
    <2>4. CASE Commit(r)
      <3>1. members' = members \cup {Who(r)} /\ accounts' = accounts
        BY <2>1, <2>4 DEF Commit, Commits, Activation
      <3> QED
        BY <3>1
    <2>5. CASE Undo(r)
      BY <2>5 DEF Undo
    <2>6. ~Begin(r)
      BY <2>1 DEF Begin, Resolve, BeginInvite, Redeem, BeginRotation, Rotate
    <2>7. ~Aborts(r)
      BY <1>1, EndedAccounts DEF Aborts
    <2>8. ~UpsertProfile(r)
      <3> SUFFICES ASSUME UpsertProfile(r) PROVE FALSE
        OBVIOUS
      <3>1. Goes(r, "enrol", {"profile"}) /\ "enrol" \in Phases
            /\ {"profile"} \in SUBSET Locks
        BY DEF UpsertProfile, Then, Phases, Locks
      <3> QED
        BY <1>1, <2>1, <3>1, GoneFields
    <2>9. ~Enrol(r)
      <3> SUFFICES ASSUME Enrol(r) PROVE FALSE
        OBVIOUS
      <3>1. req'[r].pc = Then(req[r].kind, IF Who(r) \notin enrolled THEN "enrol"
                                                                  ELSE "key")
        BY <2>1 DEF Enrol, Reqs
      <3> QED
        BY <1>1, <3>1 DEF Then
    <2>10. ~ShareCourse(r)
      <3> SUFFICES ASSUME ShareCourse(r) PROVE FALSE
        OBVIOUS
      <3>1. PICK pc \in {"consume", "commit"} : Goes(r, pc, {"key"})
        BY DEF ShareCourse, Then
      <3>2. pc \in Phases /\ {"key"} \in SUBSET Locks
        BY DEF Phases, Locks
      <3> QED
        BY <1>1, <2>1, <3>1, <3>2, GoneFields
    <2> QED
      BY <2>1, <2>2, <2>3, <2>4, <2>5, <2>6, <2>7, <2>8, <2>9, <2>10
      DEF Serve, CountSeats, LockInvite, Consume, CreateAccount, CheckAccount, At,
          EndRotation, Fail, CommitUnacknowledged, DeadlockVictim
  <1>2. AccountInv /\ [Next]_vars =>
          [\A r \in Requests :
             /\ req[r].created /\ req[r].pc \notin {"check", "done"}
             /\ req'[r].pc = "done"
             => Who(r) \in accounts' \cap members' \/ Who(r) \notin accounts']_vars
    BY <1>1
  <1> QED
    BY <1>2, AccountInvHolds, PTL DEF Spec, NoAccountLeaks

-----------------------------------------------------------------------------
(* The waits of the requests *)

\* Who holds an invite after its step held it before, or has waited for it.
LEMMA TakesInvite ==
    ASSUME AccountInv, NEW r \in Requests,
           Begin(r) \/ Serve(r) \/ Fail(r) \/ CommitUnacknowledged(r),
           "invite" \in req'[r].locks
    PROVE  /\ req'[r].who = req[r].who
           /\ \/ "invite" \in req[r].locks
              \/ \A q \in Requests \ {r} : HoldsInvite(q) => Who(q) # Who(r)
  <1>1. req[r] \in Reqs /\ req \in [Requests -> Reqs] /\ SeatInv
    BY FieldsOf DEF AccountInv
  <1>2. ASSUME NEW pc, NEW taken, Goes(r, pc, taken)
        PROVE  req'[r].who = req[r].who /\ req'[r].locks = req[r].locks \cup taken
    BY <1>1, <1>2 DEF Goes, Reqs
  <1>3. ASSUME NEW pc \in {"done", "undo"}, Ends(r, pc) PROVE FALSE
    <2>1. Ended(req[r], pc).locks = {}
      <3>1. CASE pc = "done"
        BY <3>1, IdleFields DEF Ended, Phases
      <3>2. CASE pc = "undo"
        BY <1>1, <3>2 DEF Ended, Reqs
      <3> QED
        BY <3>1, <3>2
    <2> QED
      BY <1>1, <1>3, <2>1, EndedFields
  <1>4. ~Begin(r)
    <2>1. ~Resolve(r) /\ ~BeginInvite(r) /\ ~Redeem(r)
      BY <1>1, InviteBegins DEF Resolve
    <2>2. ~BeginRotation(r)
      <3> SUFFICES ASSUME BeginRotation(r) PROVE FALSE
        OBVIOUS
      <3>1. \/ req'[r] = [Idle("rotate") EXCEPT !.kind = "rotate", !.rotates = links]
            \/ req'[r] = Idle("done")
        BY <1>1 DEF BeginRotation, Rotate
      <3>2. CASE req'[r] = Idle("done")
        BY <3>2, IdleFields DEF Phases
      <3>3. CASE req'[r] = [Idle("rotate") EXCEPT !.kind = "rotate", !.rotates = links]
        <4>1. req'[r].locks = Idle("rotate").locks
          BY <3>3 DEF Idle
        <4> QED
          BY <4>1, IdleFields DEF Phases
      <3> QED
        BY <3>1, <3>2, <3>3
    <2> QED
      BY <2>1, <2>2 DEF Begin
  <1>5. CASE CountSeats(r)
    BY <1>2, <1>3, <1>5 DEF CountSeats
  <1>6. CASE LockInvite(r)
    <2>1. req'[r].who = req[r].who
      BY <1>2, <1>3, <1>6 DEF LockInvite
    <2>2. req[r].pc = "lock" /\ ~OverLink(r) /\ WaitsFor(r) = {}
      BY <1>6 DEF LockInvite, At, OverLink, LinkKinds
    <2> QED
      BY <2>1, <2>2 DEF WaitsFor
  <1>7. CASE Consume(r)
    <2>1. req'[r].who = req[r].who
      BY <1>2, <1>3, <1>7 DEF Consume
    <2>2. req[r].pc = "consume" /\ WaitsFor(r) = {}
      BY <1>7 DEF Consume, At
    <2> QED
      BY <2>1, <2>2 DEF WaitsFor
  <1>8. CASE CreateAccount(r)
    <2>1. req' = [req EXCEPT ![r].pc = Then(req[r].kind, "account"),
                             ![r].created = Who(r) \notin accounts]
      BY <1>3, <1>8 DEF CreateAccount
    <2> QED
      BY <1>1, <2>1 DEF Reqs
  <1>9. CASE CheckAccount(r) \/ UpsertProfile(r) \/ ShareCourse(r)
    BY <1>2, <1>9 DEF CheckAccount, UpsertProfile, ShareCourse
  <1>10. CASE Enrol(r)
    <2>1. req'[r].who = req[r].who /\ req'[r].locks = req[r].locks
      BY <1>1, <1>10 DEF Enrol, Reqs
    <2> QED
      BY <2>1
  <1>11. ~Commit(r) /\ ~Undo(r) /\ ~EndRotation(r) /\ ~Aborts(r)
    BY <1>3 DEF Commit, Undo, EndRotation, Aborts
  <1> QED
    BY <1>4, <1>5, <1>6, <1>7, <1>8, <1>9, <1>10, <1>11
       DEF Serve, Fail, CommitUnacknowledged, DeadlockVictim

LEMMA NextInviteHeldOnce ==
    AccountInv /\ InviteHeldOnce /\ [Next]_vars => InviteHeldOnce'
  <1> SUFFICES ASSUME AccountInv, InviteHeldOnce, [Next]_vars PROVE InviteHeldOnce'
    OBVIOUS
  <1>1. CASE UpdateCourse \/ UNCHANGED vars
    <2>1. req' = req
      BY <1>1 DEF UpdateCourse, vars
    <2> QED
      BY <2>1 DEF InviteHeldOnce, HoldsInvite, Who
  <1>2. ASSUME NEW r \in Requests,
               Begin(r) \/ Serve(r) \/ Fail(r) \/ CommitUnacknowledged(r)
        PROVE  InviteHeldOnce'
    <2>1. \A q \in Requests \ {r} : req'[q] = req[q]
      BY <1>2, OneMoves
    <2>2. "invite" \in req'[r].locks =>
             /\ req'[r].who = req[r].who
             /\ \A q \in Requests \ {r} : HoldsInvite(q) => Who(q) # Who(r)
      BY <1>2, TakesInvite DEF InviteHeldOnce, HoldsInvite
    <2> QED
      BY <2>1, <2>2 DEF InviteHeldOnce, HoldsInvite, Who
  <1> QED
    BY <1>1, <1>2 DEF Next

\* However many requests redeem an invite or activate with it, one of them at
\* a time has locked it (resolve FOR UPDATE, UPDATE ... WHERE status = pending).
LEMMA InvitesAreLocked == Spec => [](SeatInv /\ InviteHeldOnce)
  <1>1. Init => InviteHeldOnce
    <2>1. Idle("idle").locks = {}
      BY IdleFields DEF Phases
    <2> QED
      BY <2>1 DEF Init, InviteHeldOnce, HoldsInvite
  <1>2. AccountInv => SeatInv
    BY DEF AccountInv
  <1> QED
    BY <1>1, <1>2, AccountInvHolds, NextInviteHeldOnce, PTL DEF Spec

\* Who waits for whom, and where the two stand.
LEMMA WaitCases ==
    ASSUME NEW r \in Requests, NEW q \in WaitsFor(r)
    PROVE  /\ q \in Requests \ {r}
           /\ \/ req[r].pc \in {"lock", "rotate"}
              \/ req[r].pc = "profile" /\ HoldsProfile(q) /\ Who(q) = Who(r)
              \/ /\ req[r].pc = "enrol" /\ Who(r) \notin enrolled
                 /\ HoldsEntry(q) /\ Who(q) = Who(r)
              \/ req[r].pc = "key" /\ HoldsCourse(q)
              \/ req[r].pc = "consume" /\ HoldsInvite(q) /\ Who(q) = Who(r)
           /\ \/ HoldsCourse(q) \/ SharesCourse(q) \/ HoldsProfile(q)
              \/ HoldsInvite(q) \/ HoldsEntry(q)
  BY DEF WaitsFor

\* Who has locked the course is alone with it.
LEMMA CourseHeldOnce ==
    ASSUME SeatInv, NEW r \in Requests, NEW q \in Requests, HoldsCourse(r), r # q
    PROVE  ~HoldsCourse(q) /\ ~SharesCourse(q)
  BY FieldsOf DEF Sound, Alone

\* A circle of waits: everyone in it waits in it and is waited for in it. In
\* one stand: requests over the link that hold the course, before the profile
\* or before the enrolment; activations with the invite, before the enrolment
\* or at the foreign key of it; and redemptions, at the foreign key or, having
\* enrolled, at the invite.
Circle(S) == \A q \in S : WaitsFor(q) \cap S # {} /\ \E p \in S : q \in WaitsFor(p)

LinkProfile(r) == Stands(r, LinkKinds, "profile")
LinkEnrol(r) == Stands(r, LinkKinds, "enrol")
InviteEnrol(r) == Stands(r, {"invite"}, "enrol")
InviteKey(r) == Stands(r, {"invite"}, "key")
RedeemKey(r) == Stands(r, {"redeem"}, "key")
RedeemConsume(r) == Stands(r, {"redeem"}, "consume") /\ HoldsEntry(r)

\* What each of them holds.
LEMMA PlacesHold ==
    ASSUME SeatInv, NEW r \in Requests
    PROVE  /\ LinkProfile(r) =>
                HoldsCourse(r) /\ ~HoldsProfile(r) /\ ~HoldsInvite(r) /\ ~HoldsEntry(r)
           /\ LinkEnrol(r) => HoldsCourse(r) /\ ~HoldsInvite(r) /\ ~HoldsEntry(r)
           /\ InviteEnrol(r) =>
                HoldsProfile(r) /\ HoldsInvite(r) /\ ~HoldsCourse(r) /\ ~HoldsEntry(r)
           /\ InviteKey(r) =>
                HoldsProfile(r) /\ HoldsInvite(r) /\ HoldsEntry(r) /\ ~HoldsCourse(r)
           /\ RedeemKey(r) =>
                HoldsEntry(r) /\ ~HoldsProfile(r) /\ ~HoldsInvite(r) /\ ~HoldsCourse(r)
           /\ RedeemConsume(r) =>
                SharesCourse(r) /\ ~HoldsProfile(r) /\ ~HoldsInvite(r) /\ ~HoldsCourse(r)
  <1>1. /\ HoldsCourse(r) <=> Holds(req[r])
        /\ SharesCourse(r) <=> Shares(req[r])
        /\ HoldsProfile(r) <=> HasProfile(req[r])
        /\ HoldsInvite(r) <=> HasInvite(req[r])
        /\ HoldsEntry(r) <=> req[r].inserted
        /\ Placed(req[r])
    BY FieldsOf DEF Sound
  <1> QED
    BY <1>1
    DEF LinkProfile, LinkEnrol, InviteEnrol, InviteKey, RedeemKey, RedeemConsume,
        Stands, Holds, Shares, HasProfile, HasInvite, Placed, LinkKinds, HoldsEntry

LEMMA CirclePlaces ==
    ASSUME SeatInv, InviteHeldOnce, NEW S \in SUBSET Requests, Circle(S), NEW r \in S
    PROVE  \/ LinkProfile(r) \/ LinkEnrol(r) \/ InviteEnrol(r) \/ InviteKey(r)
           \/ RedeemKey(r) \/ RedeemConsume(r)
  <1> DEFINE InvProfile(x) == Stands(x, {"invite"}, "profile")
             Place(x) == \/ LinkProfile(x) \/ LinkEnrol(x) \/ InviteEnrol(x)
                         \/ InviteKey(x) \/ RedeemKey(x) \/ RedeemConsume(x)
                         \/ InvProfile(x)
  <1>1. ASSUME NEW x \in S PROVE Place(x)
    <2>1. PICK y \in S : y \in WaitsFor(x)
      BY DEF Circle
    <2>2. PICK z \in S : x \in WaitsFor(z)
      BY DEF Circle
    <2>3. /\ HoldsCourse(x) <=> Holds(req[x])
          /\ SharesCourse(x) <=> Shares(req[x])
          /\ HoldsProfile(x) <=> HasProfile(req[x])
          /\ HoldsInvite(x) <=> HasInvite(req[x])
          /\ HoldsEntry(x) <=> req[x].inserted
          /\ Placed(req[x]) /\ Invited(req[x]) /\ req[x] \in Reqs
      BY FieldsOf DEF Sound
    <2>4. \/ HoldsCourse(x) \/ SharesCourse(x) \/ HoldsProfile(x)
          \/ HoldsInvite(x) \/ HoldsEntry(x)
      BY <2>2, WaitCases
    <2>5. req[x].pc \in {"profile", "enrol", "key", "consume"}
      BY <2>1, <2>3, <2>4, WaitCases
         DEF Holds, Shares, HasProfile, HasInvite, Placed
    <2>6. req[x].pc = "key" => ~HoldsCourse(x)
      BY <2>1, WaitCases, CourseHeldOnce
    <2>7. req[x].kind \in LinkKinds \cup {"redeem", "invite", "rotate"}
      BY <2>3 DEF Reqs, Kinds
    <2>8. CASE req[x].pc = "profile"
      BY <2>3, <2>8 DEF Placed, LinkProfile, Stands, LinkKinds
    <2>9. CASE req[x].pc = "enrol"
      BY <2>3, <2>4, <2>7, <2>9
         DEF Placed, LinkEnrol, InviteEnrol, Stands, LinkKinds,
             Holds, Shares, HasProfile, HasInvite
    <2>10. CASE req[x].pc = "key"
      BY <2>3, <2>6, <2>7, <2>10
         DEF Placed, InviteKey, RedeemKey, Stands, LinkKinds, Holds
    <2>11. CASE req[x].pc = "consume"
      BY <2>3, <2>4, <2>11
         DEF Placed, Invited, RedeemConsume, Stands, LinkKinds,
             Holds, Shares, HasProfile, HasInvite
    <2> QED
      BY <2>5, <2>8, <2>9, <2>10, <2>11
  <1>2. ~InvProfile(r)
    <2> SUFFICES ASSUME InvProfile(r) PROVE FALSE
      OBVIOUS
    <2>1. PICK y \in S : y \in WaitsFor(r)
      BY DEF Circle
    <2>2. PICK z \in S : r \in WaitsFor(z)
      BY DEF Circle
    <2>3. /\ HoldsInvite(r) /\ ~HoldsCourse(r) /\ ~SharesCourse(r)
          /\ ~HoldsProfile(r) /\ ~HoldsEntry(r)
      BY FieldsOf
         DEF Stands, Sound, Placed, HasInvite, Holds, Shares, HasProfile, LinkKinds
    <2>4. HoldsProfile(y) /\ Who(y) = Who(r) /\ y # r
      BY <2>1, WaitCases DEF Stands
    <2>5. ~HoldsInvite(y)
      BY <2>3, <2>4 DEF InviteHeldOnce
    <2>6. ~InvProfile(y)
      BY <2>5, FieldsOf DEF Stands, HasInvite
    <2>7. HoldsCourse(y)
      BY <1>1, <2>4, <2>5, <2>6, PlacesHold
    <2>8. req[z].pc = "consume" \/ req[z].pc \in {"lock", "rotate"}
      BY <2>2, <2>3, WaitCases
    <2>9. RedeemConsume(z)
      BY <1>1, <2>8
         DEF Stands, LinkProfile, LinkEnrol, InviteEnrol, InviteKey, RedeemKey
    <2>10. SharesCourse(z) /\ ~HoldsCourse(z)
      BY <2>9, PlacesHold
    <2> QED
      BY <2>7, <2>10, CourseHeldOnce
  <1> QED
    BY <1>1, <1>2

\* Everyone in a circle is part of a pair or of a triple in it.
LEMMA ShapeOf ==
    ASSUME SeatInv, InviteHeldOnce, NEW S \in SUBSET Requests, Circle(S),
           NEW r \in S
    PROVE  \/ \E x, y \in S : r \in {x, y} /\ Pair(x, y)
           \/ \E x, y, z \in S : r \in {x, y, z} /\ Triple(x, y, z)
  <1>1. ASSUME NEW x \in S
        PROVE  \/ LinkProfile(x) \/ LinkEnrol(x) \/ InviteEnrol(x) \/ InviteKey(x)
               \/ RedeemKey(x) \/ RedeemConsume(x)
    BY CirclePlaces
  <1>2. PICK y \in S : y \in WaitsFor(r)
    BY DEF Circle
  <1>3. PICK z \in S : r \in WaitsFor(z)
    BY DEF Circle
  <1>4. y \in Requests \ {r} /\ r \in Requests \ {z} /\ z \in Requests
    BY <1>2, <1>3, WaitCases
  \* Two places exclude each other when one has locked the course and the other
  \* has shared it, or when both have locked the invite.
  <1>5. ASSUME NEW p \in S, NEW q \in S, HoldsCourse(p) PROVE ~RedeemConsume(q)
    BY <1>5, PlacesHold, CourseHeldOnce
  <1>6. ASSUME NEW p \in S, NEW q \in S, p # q, Who(p) = Who(q),
               InviteEnrol(p) \/ InviteKey(p)
        PROVE  ~InviteEnrol(q) /\ ~InviteKey(q)
    BY <1>6, PlacesHold DEF InviteHeldOnce
  <1>7. CASE LinkProfile(r)
    <2>1. HoldsCourse(r) /\ req[r].pc = "profile"
      BY <1>7, PlacesHold DEF LinkProfile, Stands
    <2>2. HoldsProfile(y) /\ Who(y) = Who(r)
      BY <1>2, <2>1, WaitCases
    <2>3. ~HoldsCourse(y)
      BY <1>4, <2>1, CourseHeldOnce
    <2>4. InviteEnrol(y) \/ InviteKey(y)
      BY <1>1, <2>2, <2>3, PlacesHold
    <2>5. CASE InviteKey(y)
      <3>1. r \in WaitsFor(y)
        BY <1>4, <2>1, <2>5 DEF WaitsFor, InviteKey, Stands
      <3> QED
        BY <1>2, <1>7, <2>2, <2>5, <3>1 DEF Pair, InviteKey, LinkProfile
    <2>6. CASE InviteEnrol(y)
      <3>1. PICK w \in S : w \in WaitsFor(y)
        BY DEF Circle
      <3>2. HoldsEntry(w) /\ Who(w) = Who(y) /\ w # y
        BY <2>6, <3>1, WaitCases DEF InviteEnrol, Stands
      <3>3. RedeemKey(w)
        BY <1>1, <1>5, <1>6, <2>1, <2>6, <3>2, PlacesHold
      <3>4. w # r
        BY <2>1, <3>3 DEF RedeemKey, Stands
      <3>5. r \in WaitsFor(w)
        BY <1>4, <2>1, <3>3, <3>4 DEF WaitsFor, RedeemKey, Stands
      <3> QED
        BY <1>2, <1>7, <2>2, <2>6, <3>1, <3>2, <3>3, <3>5
        DEF Triple, LinkProfile, InviteEnrol, RedeemKey
    <2> QED
      BY <2>4, <2>5, <2>6
  <1>8. CASE LinkEnrol(r)
    <2>1. HoldsCourse(r) /\ req[r].pc = "enrol"
      BY <1>8, PlacesHold DEF LinkEnrol, Stands
    <2>2. HoldsEntry(y) /\ Who(y) = Who(r)
      BY <1>2, <2>1, WaitCases
    <2>3. InviteKey(y) \/ RedeemKey(y)
      BY <1>1, <1>5, <2>1, <2>2, PlacesHold
    <2>4. r \in WaitsFor(y)
      BY <1>4, <2>1, <2>3 DEF WaitsFor, InviteKey, RedeemKey, Stands
    <2> QED
      BY <1>2, <1>8, <2>2, <2>3, <2>4
      DEF Pair, LinkEnrol, InviteKey, RedeemKey, Stands
  <1>9. CASE InviteKey(r) \/ RedeemKey(r)
    <2>1. HoldsCourse(y) /\ req[r].pc = "key" /\ ~HoldsCourse(r)
      BY <1>2, <1>9, WaitCases, PlacesHold DEF InviteKey, RedeemKey, Stands
    <2>2. HoldsEntry(r) /\ (InviteKey(r) => HoldsInvite(r))
      BY <1>9, PlacesHold
    <2>3. \A p \in S : ~RedeemConsume(p)
      BY <1>5, <2>1
    <2>4. req[z].pc \in {"profile", "enrol"} /\ Who(z) = Who(r)
      BY <1>1, <1>3, <2>1, <2>3, WaitCases
      DEF LinkProfile, LinkEnrol, InviteEnrol, InviteKey, RedeemKey, Stands
    <2>5. CASE LinkProfile(z) \/ LinkEnrol(z)
      <3>1. HoldsCourse(z)
        BY <2>5, PlacesHold
      <3>2. z \in WaitsFor(r)
        BY <1>4, <2>1, <3>1 DEF WaitsFor
      <3>3. LinkProfile(z) => InviteKey(r)
        BY <1>3, <1>9, WaitCases, PlacesHold DEF LinkProfile, Stands
      <3> QED
        BY <1>3, <1>9, <2>4, <2>5, <3>2, <3>3
        DEF Pair, LinkProfile, LinkEnrol, InviteKey, RedeemKey, Stands
    <2>6. CASE InviteEnrol(z)
      <3>1. RedeemKey(r)
        BY <1>4, <1>6, <1>9, <2>4, <2>6
      <3>2. PICK u \in S : z \in WaitsFor(u)
        BY DEF Circle
      <3>3. /\ HoldsProfile(z) /\ HoldsInvite(z) /\ ~HoldsCourse(z)
            /\ ~HoldsEntry(z)
        BY <2>6, PlacesHold
      <3>4. LinkProfile(u) /\ Who(u) = Who(z)
        BY <1>1, <2>3, <3>2, <3>3, WaitCases
        DEF LinkProfile, LinkEnrol, InviteEnrol, InviteKey, RedeemKey, Stands
      <3>5. HoldsCourse(u) /\ u # r /\ u \in Requests
        BY <2>1, <3>4, PlacesHold
      <3>6. u \in WaitsFor(r)
        BY <2>1, <3>5 DEF WaitsFor
      <3> QED
        BY <1>3, <2>4, <2>6, <3>1, <3>2, <3>4, <3>6
        DEF Triple, LinkProfile, InviteEnrol, RedeemKey
    <2> QED
      BY <1>1, <2>3, <2>4, <2>5, <2>6 DEF InviteKey, RedeemKey, Stands
  <1>10. CASE InviteEnrol(r)
    <2>1. /\ HoldsProfile(r) /\ HoldsInvite(r) /\ ~HoldsCourse(r)
          /\ ~HoldsEntry(r) /\ req[r].pc = "enrol"
      BY <1>10, PlacesHold DEF InviteEnrol, Stands
    <2>2. HoldsEntry(y) /\ Who(y) = Who(r)
      BY <1>2, <2>1, WaitCases
    <2>3. RedeemKey(y) \/ RedeemConsume(y)
      BY <1>1, <1>4, <1>6, <1>10, <2>2, PlacesHold
    <2>4. CASE RedeemConsume(y)
      <3>1. r \in WaitsFor(y)
        BY <1>4, <2>1, <2>2, <2>4 DEF WaitsFor, RedeemConsume, Stands
      <3> QED
        BY <1>2, <1>10, <2>2, <2>4, <3>1 DEF Pair, InviteEnrol, RedeemConsume
    <2>5. CASE RedeemKey(y)
      <3>1. PICK h \in S : h \in WaitsFor(y)
        BY DEF Circle
      <3>2. HoldsCourse(h) /\ req[y].pc = "key"
        BY <2>5, <3>1, WaitCases DEF RedeemKey, Stands
      <3>3. LinkProfile(z) /\ Who(z) = Who(r)
        BY <1>1, <1>3, <1>5, <2>1, <3>2, WaitCases
        DEF LinkProfile, LinkEnrol, InviteEnrol, InviteKey, RedeemKey, Stands
      <3>4. HoldsCourse(z) /\ z # y
        BY <2>5, <3>3, PlacesHold DEF RedeemKey, LinkProfile, Stands
      <3>5. z \in WaitsFor(y)
        BY <1>4, <3>2, <3>4 DEF WaitsFor
      <3> QED
        BY <1>2, <1>3, <1>10, <2>2, <2>5, <3>3, <3>5
        DEF Triple, LinkProfile, InviteEnrol, RedeemKey
    <2> QED
      BY <2>3, <2>4, <2>5
  <1>11. CASE RedeemConsume(r)
    <2>1. /\ SharesCourse(r) /\ HoldsEntry(r) /\ ~HoldsInvite(r)
          /\ req[r].pc = "consume"
      BY <1>11, PlacesHold DEF RedeemConsume, Stands
    <2>2. HoldsInvite(y) /\ Who(y) = Who(r)
      BY <1>2, <2>1, WaitCases
    <2>3. ~InviteKey(y)
      <3> SUFFICES ASSUME InviteKey(y) PROVE FALSE
        OBVIOUS
      <3>1. PICK h \in S : h \in WaitsFor(y)
        BY DEF Circle
      <3>2. HoldsCourse(h)
        BY <3>1, WaitCases DEF InviteKey, Stands
      <3> QED
        BY <1>5, <1>11, <3>2
    <2>4. InviteEnrol(y)
      BY <1>1, <2>2, <2>3, PlacesHold
    <2>5. PICK w \in S : w \in WaitsFor(y)
      BY DEF Circle
    <2>6. req[y].pc = "enrol" /\ Who(y) \notin enrolled
      BY <2>4, <2>5, WaitCases DEF InviteEnrol, Stands
    <2>7. r \in WaitsFor(y)
      BY <1>4, <2>1, <2>2, <2>6 DEF WaitsFor
    <2> QED
      BY <1>2, <1>11, <2>2, <2>4, <2>7 DEF Pair, InviteEnrol, RedeemConsume
  <1> QED
    BY <1>1, <1>7, <1>8, <1>9, <1>10, <1>11

LEMMA CirclesAreShaped == SeatInv /\ InviteHeldOnce => DeadlockShapes
  <1> SUFFICES ASSUME SeatInv, InviteHeldOnce, NEW r \in Deadlocked
               PROVE  \E x, y, z \in Deadlocked :
                        /\ r \in {x, y, z}
                        /\ (Pair(x, y) /\ z = x) \/ Triple(x, y, z)
    BY DEF DeadlockShapes
  <1>1. PICK S \in SUBSET Requests : r \in S /\ Circle(S)
    BY DEF Deadlocked, Circle
  <1>2. S \subseteq Deadlocked
    BY <1>1 DEF Deadlocked, Circle
  <1>3. \/ \E x, y \in S : r \in {x, y} /\ Pair(x, y)
        \/ \E x, y, z \in S : r \in {x, y, z} /\ Triple(x, y, z)
    BY <1>1, ShapeOf
  <1>4. CASE \E x, y \in S : r \in {x, y} /\ Pair(x, y)
    <2>1. PICK x \in S, y \in S : r \in {x, y} /\ Pair(x, y)
      BY <1>4
    <2>2. x \in Deadlocked /\ y \in Deadlocked /\ r \in {x, y, x}
      BY <1>2, <2>1
    <2> QED
      BY <2>1, <2>2
  <1> QED
    BY <1>2, <1>3, <1>4

\* Of the requests that wait in a circle each is in one of five: three pairs
\* of one over the link and one with the invite, an activation with the invite
\* and a redemption of it, and a triple of all three. No other order in which
\* the handlers take their locks deadlocks.
THEOREM DeadlocksAreFive == Spec => []DeadlockShapes
  BY CirclesAreShaped, InvitesAreLocked, PTL

\* Who waits for each other are requests of one student, and one of them uses
\* his invite: students who rush for the last seats never deadlock each other.
THEOREM DeadlocksOfOneStudent == Spec => []DeadlocksAreOfOneStudent
  <1>1. SeatInv /\ DeadlockShapes => DeadlocksAreOfOneStudent
    <2> SUFFICES ASSUME SeatInv, DeadlockShapes, NEW r \in Deadlocked
                 PROVE  /\ \A q \in Deadlocked \cap WaitsFor(r) : Who(q) = Who(r)
                        /\ \E q \in Deadlocked : Who(q) = Who(r) /\ ~OverLink(q)
      BY DEF DeadlocksAreOfOneStudent
    <2>1. r \in Requests
      BY DEF Deadlocked
    <2>2. PICK x \in Deadlocked, y \in Deadlocked, z \in Deadlocked :
             /\ r \in {x, y, z}
             /\ (Pair(x, y) /\ z = x) \/ Triple(x, y, z)
      BY DEF DeadlockShapes
    <2>3. x \in Requests /\ y \in Requests /\ z \in Requests
      BY DEF Deadlocked
    <2>4. /\ Who(x) = Who(r) /\ Who(y) = Who(r) /\ Who(z) = Who(r)
          /\ ~OverLink(y)
          /\ req[r].pc \in {"profile", "enrol", "key", "consume"}
          /\ req[r].pc = "key" => LinkProfile(x) \/ LinkEnrol(x)
      BY <2>2 DEF Pair, Triple, Stands, OverLink, LinkKinds, LinkProfile, LinkEnrol
    <2>5. ASSUME NEW q \in WaitsFor(r) PROVE Who(q) = Who(r)
      <3>1. CASE req[r].pc = "key"
        <4>1. HoldsCourse(x) /\ HoldsCourse(q) /\ q \in Requests
          BY <2>1, <2>3, <2>4, <3>1, WaitCases, PlacesHold
        <4> QED
          BY <2>3, <2>4, <4>1, CourseHeldOnce
      <3>2. CASE req[r].pc # "key"
        BY <2>1, <2>4, <3>2, WaitCases
      <3> QED
        BY <3>1, <3>2
    <2> QED
      BY <2>4, <2>5
  <1> QED
    BY <1>1, CirclesAreShaped, InvitesAreLocked, PTL

\* Those who wait for each other in a circle are deadlocked.
LEMMA CircleIsDeadlocked ==
    ASSUME NEW S \in SUBSET Requests, Circle(S), NEW r \in S
    PROVE  r \in Deadlocked
  <1>1. S \in {T \in SUBSET Requests : Circle(T)}
    OBVIOUS
  <1> QED
    BY <1>1, Zenon DEF Deadlocked, Circle

LEMMA PairIsDeadlocked ==
    ASSUME NEW r \in Requests, NEW q \in Requests, q \in WaitsFor(r), r \in WaitsFor(q)
    PROVE  r \in Deadlocked
  <1>1. Circle({r, q})
    BY DEF Circle
  <1> QED
    BY <1>1, CircleIsDeadlocked

LEMMA TripleIsDeadlocked ==
    ASSUME NEW r \in Requests, NEW q \in Requests, NEW p \in Requests,
           q \in WaitsFor(r), p \in WaitsFor(q), r \in WaitsFor(p)
    PROVE  r \in Deadlocked
  <1>1. Circle({r, q, p})
    BY DEF Circle
  <1> QED
    BY <1>1, CircleIsDeadlocked

InProgress(r) == req[r].pc \notin {"idle", "done"}
GoesOn(r) == InProgress(r) /\ WaitsFor(r) = {}

\* Who waits for somebody leads to one who goes on or is deadlocked.
LEMMA WaitEnds ==
    ASSUME SeatInv, InviteHeldOnce, NEW r \in Requests, WaitsFor(r) # {}
    PROVE  \E q \in Requests : GoesOn(q) \/ q \in Deadlocked
  <1> SUFFICES ASSUME \A q \in Requests : ~GoesOn(q) /\ q \notin Deadlocked PROVE FALSE
    OBVIOUS
  <1> DEFINE Placing(x) ==
               /\ HoldsCourse(x) <=> Holds(req[x])
               /\ SharesCourse(x) <=> Shares(req[x])
               /\ HoldsProfile(x) <=> HasProfile(req[x])
               /\ HoldsInvite(x) <=> HasInvite(req[x])
               /\ HoldsEntry(x) <=> req[x].inserted
               /\ Placed(req[x])
  <1>1. ASSUME NEW x \in Requests PROVE Placing(x)
    BY FieldsOf DEF Sound
  \* Everyone in progress waits for somebody.
  <1>2. ASSUME NEW x \in Requests, InProgress(x)
        PROVE  /\ req[x].pc \in {"lock", "rotate", "profile", "enrol", "key", "consume"}
               /\ \E y \in Requests : y \in WaitsFor(x)
    <2>1. PICK y \in WaitsFor(x) : TRUE
      BY <1>2 DEF GoesOn
    <2> QED
      BY <2>1, WaitCases
  <1>3. ASSUME NEW x \in Requests, HoldsCourse(x) PROVE FALSE
    <2>1. /\ req[x].pc \in {"profile", "enrol", "key"} /\ InProgress(x)
          /\ req[x].pc # "key" => ~HoldsEntry(x)
      BY <1>1, <1>2, <1>3 DEF Holds, InProgress, Placed
    <2>2. PICK y \in Requests : y \in WaitsFor(x)
      BY <1>2, <2>1
    <2>3. y # x /\ ~HoldsCourse(y) /\ ~SharesCourse(y)
      BY <1>3, <2>2, WaitCases, CourseHeldOnce
    <2>4. ASSUME NEW z \in Requests \ {x}, HoldsEntry(z)
          PROVE  req[z].pc = "key" /\ x \in WaitsFor(z)
      <3>1. ~SharesCourse(z)
        BY <1>3, <2>4, CourseHeldOnce
      <3>2. InProgress(z) /\ req[z].pc \in {"key", "consume", "commit"} /\ req[z].inserted
        BY <1>1, <2>4 DEF Placed, InProgress
      <3>3. req[z].pc = "key"
        BY <1>1, <3>1, <3>2 DEF Shares
      <3> QED
        BY <1>3, <3>3 DEF WaitsFor
    <2>5. CASE req[x].pc = "profile"
      <3>1. HoldsProfile(y)
        BY <2>2, <2>5, WaitCases
      <3>2. req[y].kind = "invite" /\ req[y].pc \in {"enrol", "key"} /\ InProgress(y)
        BY <1>1, <1>2, <2>3, <3>1 DEF HasProfile, Holds, LinkKinds, InProgress
      <3>3. CASE req[y].pc = "key"
        <4>1. HoldsEntry(y)
          BY <1>1, <3>3 DEF Placed
        <4> QED
          BY <2>2, <2>3, <2>4, <4>1, PairIsDeadlocked
      <3>4. CASE req[y].pc = "enrol"
        <4>1. PICK z \in Requests : z \in WaitsFor(y)
          BY <1>2, <3>2
        <4>2. HoldsEntry(z)
          BY <3>4, <4>1, WaitCases
        <4>3. z # x
          BY <2>1, <2>5, <4>2
        <4> QED
          BY <2>2, <2>4, <4>1, <4>2, <4>3, TripleIsDeadlocked
      <3> QED
        BY <3>2, <3>3, <3>4
    <2>6. CASE req[x].pc = "enrol"
      <3>1. HoldsEntry(y)
        BY <2>2, <2>6, WaitCases
      <3> QED
        BY <2>2, <2>3, <2>4, <3>1, PairIsDeadlocked
    <2>7. req[x].pc # "key"
      BY <2>2, <2>3, WaitCases
    <2> QED
      BY <2>1, <2>5, <2>6, <2>7
  <1>4. ASSUME NEW x \in Requests PROVE req[x].pc # "key"
    <2> SUFFICES ASSUME req[x].pc = "key" PROVE FALSE
      OBVIOUS
    <2>1. PICK y \in Requests : y \in WaitsFor(x)
      BY <1>2 DEF InProgress
    <2> QED
      BY <1>3, <2>1, WaitCases
  \* An activation with the invite before the profile waits for one before the
  \* enrolment, which has the invite too.
  <1>5. ASSUME NEW x \in Requests, HoldsInvite(x)
        PROVE  req[x].pc = "enrol" /\ InProgress(x)
    <2>1. req[x].pc \in {"profile", "enrol"} /\ InProgress(x)
      BY <1>1, <1>2, <1>4, <1>5 DEF HasInvite, InProgress
    <2>2. PICK y \in Requests : y \in WaitsFor(x)
      BY <1>2, <2>1
    <2>3. CASE req[x].pc = "profile"
      <3>1. HoldsProfile(y) /\ Who(y) = Who(x) /\ y # x
        BY <2>2, <2>3, WaitCases
      <3>2. ~HoldsInvite(y) /\ ~HoldsCourse(y)
        BY <1>3, <1>5, <3>1 DEF InviteHeldOnce
      <3> QED
        BY <1>1, <3>1, <3>2 DEF HasProfile, HasInvite, Holds, LinkKinds
    <2> QED
      BY <2>1, <2>3
  <1>6. ASSUME NEW x \in Requests, HoldsEntry(x) PROVE FALSE
    <2>1. req[x].pc = "consume" /\ InProgress(x)
      BY <1>1, <1>2, <1>4, <1>6 DEF Placed, InProgress
    <2>2. PICK y \in Requests : y \in WaitsFor(x)
      BY <1>2, <2>1
    <2>3. HoldsInvite(y) /\ Who(y) = Who(x) /\ y # x
      BY <2>1, <2>2, WaitCases
    <2>4. req[y].pc = "enrol" /\ InProgress(y)
      BY <1>5, <2>3
    <2>5. PICK z \in Requests : z \in WaitsFor(y)
      BY <1>2, <2>4
    <2>6. Who(y) \notin enrolled
      BY <2>4, <2>5, WaitCases
    <2>7. x \in WaitsFor(y)
      BY <1>6, <2>3, <2>4, <2>6 DEF WaitsFor
    <2> QED
      BY <2>2, <2>7, PairIsDeadlocked
  <1>7. ASSUME NEW x \in Requests, HoldsInvite(x) PROVE FALSE
    <2>1. PICK y \in Requests : y \in WaitsFor(x)
      BY <1>2, <1>5, <1>7
    <2> QED
      BY <1>5, <1>6, <1>7, <2>1, WaitCases
  <1>8. ASSUME NEW x \in Requests
        PROVE  /\ ~HoldsCourse(x) /\ ~SharesCourse(x) /\ ~HoldsProfile(x)
               /\ ~HoldsInvite(x) /\ ~HoldsEntry(x)
    <2>1. ~HoldsCourse(x) /\ ~HoldsInvite(x) /\ ~HoldsEntry(x)
      BY <1>3, <1>6, <1>7
    <2> QED
      BY <1>1, <2>1 DEF Shares, HasProfile, HasInvite, Holds, LinkKinds
  <1>9. PICK y \in WaitsFor(r) : TRUE
    OBVIOUS
  <1> QED
    BY <1>8, <1>9, WaitCases

\* Whatever the requests wait for, one of them goes on or is in a deadlock,
\* which PostgreSQL ends: nobody waits for a lock that is never released.
THEOREM SeatsNeverStuck == Spec => []SomebodyGoesOn
  <1>1. SeatInv /\ InviteHeldOnce => SomebodyGoesOn
    <2> SUFFICES ASSUME SeatInv, InviteHeldOnce, NEW r \in Requests, InProgress(r)
                 PROVE  \E q \in Requests : GoesOn(q) \/ q \in Deadlocked
      BY DEF SomebodyGoesOn, InProgress, GoesOn
    <2> QED
      BY WaitEnds DEF GoesOn
  <1> QED
    BY <1>1, InvitesAreLocked, PTL
=============================================================================
