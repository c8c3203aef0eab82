------------------------- MODULE StudentWork_proofs -------------------------
(***************************************************************************)
(* Proofs about a student's work on a case. The server, StudentResponse:   *)
(* for any number of tabs and any bound on versions and times, with        *)
(* database errors and lost replies. The page, StudentRuntime: for any     *)
(* number of visits, of texts typed and of incidents, over a server that   *)
(* keeps the promise the first half proves of StudentResponse.             *)
(***************************************************************************)
EXTENDS StudentResponse, StudentRuntime, TLAPS

USE AnswersAssumption, BoundsAssumption, PageBounds

-----------------------------------------------------------------------------
(* Types *)

LEMMA NoRowIsNoResponse == NoRow \notin Responses
  <1> SUFFICES ASSUME NoRow \in Responses PROVE FALSE
    OBVIOUS
  <1>1. NoRow.status \in {"draft", "submitted"}
    BY Zenon DEF Responses
  <1> QED
    BY <1>1 DEF NoRow

LEMMA NoRequestType == NoRequest \in Requests
  BY DEF NoRequest, Requests, Texts, Rows

LEMMA UnknownType == Unknown \in Known
  BY DEF Unknown, Known

\* The response a write makes of the one it has read.
Written(c) ==
    [status |-> IF req[c].op = "submit" THEN "submitted" ELSE req[c].read.status,
     version |-> req[c].read.version + 1, answers |-> req[c].answers,
     openedAt |-> req[c].read.openedAt, savedAt |-> req[c].at]

\* What an accepted write is: made over the row as it is, by a client that
\* names its version.
LEMMA AcceptedWrite ==
    ASSUME TypeOK, WriterHoldsRow, NEW c \in Clients, pc[c] = "write", Acceptable(c)
    PROVE  /\ row \in Responses /\ req[c].read = row
           /\ row.status = "draft" /\ req[c].base = row.version
           /\ Written(c) \in Responses
           /\ Written(c).version = row.version + 1
           /\ Written(c).answers = req[c].answers
           /\ Written(c).savedAt = req[c].at
           /\ Written(c).status = IF req[c].op = "submit" THEN "submitted" ELSE "draft"
  <1>1. req[c].read = row /\ row # NoRow
    BY DEF WriterHoldsRow
  <1>2. row \in Responses
    BY <1>1 DEF TypeOK, Rows
  <1>3. row.status = "draft" /\ req[c].base = row.version
    BY <1>1 DEF Acceptable
  <1>4. /\ row.version \in Nat /\ row.openedAt \in 0 .. MaxTime
        /\ req[c].answers \in Texts /\ req[c].at \in 0 .. MaxTime
    BY <1>2 DEF Responses, TypeOK, Requests
  <1>5. /\ (IF req[c].op = "submit" THEN "submitted" ELSE req[c].read.status)
             \in {"draft", "submitted"}
        /\ req[c].read.version + 1 \in Nat
    BY <1>1, <1>3, <1>4
  <1>6. Written(c) \in Responses
    BY <1>1, <1>4, <1>5, Zenon DEF Written, Responses
  <1> QED
    BY <1>1, <1>2, <1>3, <1>6 DEF Written

\* One step of Next, by action, so that each lemma below can split on it.
LEMMA StepCases ==
    ASSUME Next
    PROVE  \/ Tick
           \/ \E c \in Clients :
                 \/ ReceiveOpen(c)
                 \/ \E op \in {"draft", "submit"} : ReceiveWrite(c, op)
                 \/ Ensure(c) \/ Insert(c) \/ Lock(c) \/ Write(c)
                 \/ Refresh(c) \/ Fail(c) \/ LoseReply(c)
  BY DEF Next, Serve

LEMMA TypeInit == Init => TypeOK
  BY NoRequestType, UnknownType DEF Init, TypeOK, Rows, Control

LEMMA TypeStep == ASSUME TypeOK, WriterHoldsRow, Next PROVE TypeOK'
  <1> USE DEF Goto, stored
  <1>1. CASE Tick
    BY <1>1 DEF Tick, TypeOK
  <1>2. ASSUME NEW c \in Clients, ReceiveOpen(c) PROVE TypeOK'
    <2>1. [NoRequest EXCEPT !.op = "open", !.at = now] \in Requests
      BY NoRequestType, Zenon DEF TypeOK, Requests
    <2> QED
      BY <1>2, <2>1 DEF ReceiveOpen, TypeOK, Control
  <1>3. ASSUME NEW c \in Clients, NEW op \in {"draft", "submit"},
               ReceiveWrite(c, op)
        PROVE  TypeOK'
    <2>1. PICK a \in Answers :
             req' = [req EXCEPT ![c] =
                       [op |-> op, answers |-> a, base |-> knows[c].version,
                        at |-> now, read |-> NoRow, locked |-> FALSE]]
      BY <1>3 DEF ReceiveWrite
    <2>2. knows[c].version \in Nat /\ a \in Texts /\ NoRow \in Rows
      BY DEF TypeOK, Known, Texts, Rows
    <2>3. [op |-> op, answers |-> a, base |-> knows[c].version,
           at |-> now, read |-> NoRow, locked |-> FALSE] \in Requests
      BY <2>2 DEF TypeOK, Requests
    <2> QED
      BY <1>3, <2>1, <2>3 DEF ReceiveWrite, TypeOK, Control
  <1>4. ASSUME NEW c \in Clients, NEW k \in Known,
               knows' \in {knows, [knows EXCEPT ![c] = k]}, Finish(c),
               UNCHANGED <<row, submissions, now>>
        PROVE  TypeOK'
    BY <1>4, NoRequestType DEF Finish, TypeOK, Control
  <1>5. ASSUME NEW c \in Clients, row # NoRow, NEW a \in Texts
        PROVE  [version |-> row.version, answers |-> a] \in Known
    <2>1. row.version \in Nat
      BY <1>5 DEF TypeOK, Rows, Responses
    <2> QED
      BY <2>1 DEF Known
  <1>6. ASSUME NEW c \in Clients, Ensure(c) PROVE TypeOK'
    <2>1. CASE row # NoRow /\ req[c].op = "open"
      <3>1. row.answers \in Texts
        BY <2>1 DEF TypeOK, Rows, Responses
      <3> QED
        BY <1>4, <1>5, <1>6, <2>1, <3>1 DEF Ensure
    <2>2. CASE ~(row # NoRow /\ req[c].op = "open")
      BY <1>6, <2>2 DEF Ensure, TypeOK, Control
    <2> QED
      BY <2>1, <2>2
  <1>7. ASSUME NEW c \in Clients, Insert(c) PROVE TypeOK'
    <2>1. CASE row = NoRow
      <3>1. req[c].at \in 0 .. MaxTime
        BY DEF TypeOK, Requests
      <3>2. row' \in Responses
        BY <1>7, <2>1, <3>1 DEF Insert, Responses, Texts
      <3> QED
        BY <1>7, <2>1, <3>2 DEF Insert, TypeOK, Rows, Control
    <2>2. CASE row # NoRow
      BY <1>7, <2>2 DEF Insert, TypeOK, Control
    <2> QED
      BY <2>1, <2>2
  <1>8. ASSUME NEW c \in Clients, Lock(c) PROVE TypeOK'
    <2>1. [req[c] EXCEPT !.read = row, !.locked = TRUE] \in Requests
      BY Zenon DEF TypeOK, Requests
    <2> QED
      BY <1>8, <2>1 DEF Lock, TypeOK, Control
  <1>9. ASSUME NEW c \in Clients, Write(c) PROVE TypeOK'
    <2>1. CASE Acceptable(c)
      <3>1. pc[c] = "write" /\ row' = Written(c)
        BY <1>9, <2>1 DEF Write, Written
      <3>2. row' \in Rows
        BY <2>1, <3>1, AcceptedWrite DEF Rows
      <3>3. submissions' \in Seq(Answers)
        <4>1. submissions \in Seq(Answers) /\ req[c].answers \in Answers
          BY <3>1 DEF TypeOK, WriterHoldsRow, Requests
        <4>2. submissions' \in {submissions, Append(submissions, req[c].answers)}
          BY <1>9, <2>1 DEF Write, Snapshot
        <4> QED
          BY <4>1, <4>2
      <3>4. [req[c] EXCEPT !.locked = FALSE] \in Requests
        BY Zenon DEF TypeOK, Requests
      <3> QED
        BY <1>9, <2>1, <3>2, <3>3, <3>4 DEF Write, TypeOK, Control
    <2>2. CASE ~Acceptable(c)
      BY <1>9, <2>2, NoRequestType DEF Write, Finish, TypeOK, Control
    <2> QED
      BY <2>1, <2>2
  <1>10. ASSUME NEW c \in Clients, Refresh(c) PROVE TypeOK'
    <2>1. row # NoRow
      BY <1>10 DEF Refresh, WriterHoldsRow
    <2>2. row.answers \in Texts /\ req[c].answers \in Texts
      BY <2>1 DEF TypeOK, Rows, Responses, Requests
    <2> QED
      BY <1>4, <1>5, <1>10, <2>1, <2>2 DEF Refresh
  <1>11. ASSUME NEW c \in Clients, Fail(c) \/ LoseReply(c) PROVE TypeOK'
    BY <1>11, NoRequestType DEF Fail, LoseReply, Finish, TypeOK, Control
  <1> QED
    BY <1>1, <1>2, <1>3, <1>6, <1>7, <1>8, <1>9, <1>10, <1>11, StepCases

-----------------------------------------------------------------------------
(* The row is written by the request that holds it *)

LEMMA WriterStep == ASSUME TypeOK, WriterHoldsRow, Next PROVE WriterHoldsRow'
  <1> USE DEF Goto, stored
  <1>0. NoRequest.op = "none" /\ ~NoRequest.locked
    BY DEF NoRequest
  <1>1. CASE Tick
    BY <1>1 DEF Tick, WriterHoldsRow
  \* A client that has no request, or begins one, holds nothing.
  <1>2. ASSUME NEW c \in Clients, NEW l \in {"idle", "ensure"}, NEW q,
               req' = [req EXCEPT ![c] = q], ~q.locked, l = "idle" \/ q.op # "none",
               q.op \in {"draft", "submit"} => q.answers \in Answers,
               pc' = [pc EXCEPT ![c] = l], row' = row
        PROVE  WriterHoldsRow'
    <2>1. /\ req'[c] = q /\ pc'[c] = l
          /\ \A d \in Clients \ {c} : req'[d] = req[d] /\ pc'[d] = pc[d]
      BY <1>2 DEF TypeOK
    <2> QED
      BY <1>2, <2>1 DEF WriterHoldsRow
  <1>3. ASSUME NEW c \in Clients, Finish(c), row' = row PROVE WriterHoldsRow'
    BY <1>0, <1>2, <1>3 DEF Finish
  <1>4. ASSUME NEW c \in Clients, ReceiveOpen(c) PROVE WriterHoldsRow'
    <2> DEFINE q == [NoRequest EXCEPT !.op = "open", !.at = now]
    <2>1. ~q.locked /\ q.op = "open"
      BY DEF NoRequest
    <2> QED
      BY <1>2, <1>4, <2>1 DEF ReceiveOpen
  <1>5. ASSUME NEW c \in Clients, NEW op \in {"draft", "submit"},
               ReceiveWrite(c, op)
        PROVE  WriterHoldsRow'
    <2>1. PICK a \in Answers :
             req' = [req EXCEPT ![c] =
                       [op |-> op, answers |-> a, base |-> knows[c].version,
                        at |-> now, read |-> NoRow, locked |-> FALSE]]
      BY <1>5 DEF ReceiveWrite
    <2> DEFINE q == [op |-> op, answers |-> a, base |-> knows[c].version,
                     at |-> now, read |-> NoRow, locked |-> FALSE]
    <2>2. ~q.locked /\ q.op # "none" /\ q.answers \in Answers
      OBVIOUS
    <2>3. /\ req' = [req EXCEPT ![c] = q] /\ row' = row
          /\ pc' = [pc EXCEPT ![c] = "ensure"]
      BY <1>5, <2>1 DEF ReceiveWrite
    <2> HIDE DEF q
    <2> QED
      BY <1>2, <2>2, <2>3
  <1>6. ASSUME NEW c \in Clients, Ensure(c) PROVE WriterHoldsRow'
    <2>1. CASE row # NoRow /\ req[c].op = "open"
      BY <1>3, <1>6, <2>1 DEF Ensure
    <2>2. CASE row = NoRow
      BY <1>6, <2>2 DEF Ensure, WriterHoldsRow, TypeOK
    <2>3. CASE row # NoRow /\ req[c].op # "open"
      BY <1>6, <2>3 DEF Ensure, WriterHoldsRow, TypeOK, Requests
    <2> QED
      BY <2>1, <2>2, <2>3
  <1>7. ASSUME NEW c \in Clients, Insert(c) PROVE WriterHoldsRow'
    <2>1. CASE row = NoRow
      <3>1. row' # NoRow
        BY <1>7, <2>1 DEF Insert, NoRow
      <3>2. pc' = [pc EXCEPT ![c] = IF req[c].op = "open" THEN "refresh" ELSE "lock"]
        BY <1>7, <2>1 DEF Insert
      <3> QED
        <4>1. req' = req /\ pc[c] = "insert"
          BY <1>7 DEF Insert
        <4>2. \A d \in Clients : pc[d] \notin {"lock", "write", "refresh"}
          BY <2>1 DEF WriterHoldsRow
        <4>3. \A d \in Clients : d # c => pc'[d] = pc[d]
          BY <3>2 DEF TypeOK
        <4>4. pc'[c] = IF req[c].op = "open" THEN "refresh" ELSE "lock"
          BY <3>2 DEF TypeOK
        <4> QED
          BY <3>1, <4>1, <4>2, <4>3, <4>4 DEF WriterHoldsRow
    <2>2. CASE row # NoRow
      BY <1>7, <2>2 DEF Insert, WriterHoldsRow, TypeOK
    <2> QED
      BY <2>1, <2>2
  <1>8. ASSUME NEW c \in Clients, Lock(c) PROVE WriterHoldsRow'
    BY <1>8 DEF Lock, WriterHoldsRow, TypeOK
  <1>9. ASSUME NEW c \in Clients, Write(c) PROVE WriterHoldsRow'
    <2>1. CASE Acceptable(c)
      <3>1. pc[c] = "write" /\ row' = Written(c)
        BY <1>9, <2>1 DEF Write, Written
      <3>2. row' # NoRow
        BY <2>1, <3>1, AcceptedWrite, NoRowIsNoResponse
      <3>3. \A d \in Clients \ {c} : ~req[d].locked /\ pc[d] # "write"
        BY <3>1 DEF WriterHoldsRow
      <3>4. /\ pc' = [pc EXCEPT ![c] = "refresh"]
            /\ req' = [req EXCEPT ![c].locked = FALSE]
        BY <1>9, <2>1 DEF Write
      <3> QED
        <4>1. /\ ~req'[c].locked /\ pc'[c] = "refresh"
              /\ req'[c].op = req[c].op /\ req'[c].answers = req[c].answers
              /\ \A d \in Clients \ {c} : req'[d] = req[d] /\ pc'[d] = pc[d]
          BY <3>4 DEF TypeOK, Requests
        <4> QED
          BY <3>1, <3>2, <3>3, <4>1 DEF WriterHoldsRow
    <2>2. CASE ~Acceptable(c)
      BY <1>3, <1>9, <2>2 DEF Write
    <2> QED
      BY <2>1, <2>2
  <1>10. ASSUME NEW c \in Clients, Refresh(c) \/ Fail(c) \/ LoseReply(c)
         PROVE  WriterHoldsRow'
    BY <1>3, <1>10 DEF Refresh, Fail, LoseReply
  <1> QED
    BY <1>1, <1>4, <1>5, <1>6, <1>7, <1>8, <1>9, <1>10, StepCases

-----------------------------------------------------------------------------
(* What a step does to the response *)

\* Every step of the requests is a step of the promise, or changes nothing of
\* it; and it never takes the response to an earlier time.
LEMMA PromiseStep ==
    ASSUME TypeOK, WriterHoldsRow, Next
    PROVE  [Promise!Next]_<<Draft, submissions>>
  <1> USE DEF Goto, stored
  <1>1. ASSUME NEW c \in Clients, Insert(c), row = NoRow PROVE Promise!Open
    <2>1. row' = [status |-> "draft", version |-> 0, answers |-> Blank,
                  openedAt |-> req[c].at, savedAt |-> req[c].at]
      BY <1>1 DEF Insert
    <2>2. row' # NoRow
      BY <2>1 DEF NoRow
    <2>3. Draft = NoRow
      BY <1>1 DEF Draft
    <2>4. Draft' = [status |-> "draft", version |-> 0, answers |-> Blank]
      BY <2>1, <2>2 DEF Draft
    <2> QED
      BY <1>1, <2>3, <2>4 DEF Insert, Promise!Open
  <1>2. ASSUME NEW c \in Clients, Write(c), Acceptable(c)
        PROVE  \E a \in Answers : Promise!Save(a) \/ Promise!Submit(a)
    <2>1. pc[c] = "write" /\ row' = Written(c)
      BY <1>2 DEF Write, Written
    <2>2. /\ req[c].answers \in Answers /\ req[c].op \in {"draft", "submit"}
          /\ row # NoRow
      BY <2>1 DEF WriterHoldsRow, TypeOK, Requests
    <2>3. row' # NoRow
      BY <1>2, <2>1, AcceptedWrite, NoRowIsNoResponse
    <2>4. Draft = [status |-> row.status, version |-> row.version,
                   answers |-> row.answers]
      BY <2>2 DEF Draft
    <2>5. Draft' = [status |-> row'.status, version |-> row'.version,
                    answers |-> row'.answers]
      BY <2>3 DEF Draft
    <2>6. /\ row.status = "draft"
          /\ row'.version = row.version + 1
          /\ row'.answers = req[c].answers
          /\ row'.status = IF req[c].op = "submit" THEN "submitted" ELSE "draft"
      BY <1>2, <2>1, AcceptedWrite
    <2>7. Draft # NoRow /\ Draft.status = "draft" /\ Draft.version = row.version
      <3>1. Draft.version = row.version /\ Draft.status = "draft"
        BY <2>4, <2>6
      <3> QED
        BY <3>1 DEF NoRow
    <2>8. CASE req[c].op = "draft"
      <3>1. UNCHANGED submissions
        BY <1>2, <2>8 DEF Write, Snapshot
      <3>2. Draft' = [status |-> "draft", version |-> Draft.version + 1,
                      answers |-> req[c].answers]
        BY <2>5, <2>6, <2>7, <2>8
      <3> QED
        BY <2>2, <2>7, <3>1, <3>2 DEF Promise!Save
    <2>9. CASE req[c].op = "submit"
      <3>1. submissions' = Append(submissions, req[c].answers)
        BY <1>2, <2>9 DEF Write, Snapshot
      <3>2. Draft' = [status |-> "submitted", version |-> Draft.version + 1,
                      answers |-> req[c].answers]
        BY <2>5, <2>6, <2>7, <2>9
      <3> QED
        BY <2>2, <2>7, <3>1, <3>2 DEF Promise!Submit
    <2> QED
      BY <2>2, <2>8, <2>9
  <1>3. ASSUME UNCHANGED stored PROVE UNCHANGED <<Draft, submissions>>
    BY <1>3 DEF Draft
  <1>4. \/ UNCHANGED stored
        \/ \E c \in Clients : (Insert(c) /\ row = NoRow)
                              \/ (Write(c) /\ Acceptable(c))
    <2>1. CASE Tick
      BY <2>1 DEF Tick
    <2>2. ASSUME NEW c \in Clients,
                 \/ ReceiveOpen(c)
                 \/ \E op \in {"draft", "submit"} : ReceiveWrite(c, op)
                 \/ Ensure(c) \/ Lock(c) \/ Refresh(c) \/ Fail(c) \/ LoseReply(c)
          PROVE  UNCHANGED stored
      BY <2>2 DEF ReceiveOpen, ReceiveWrite, Ensure, Lock, Refresh, Fail, LoseReply
    <2>3. ASSUME NEW c \in Clients, Insert(c) PROVE UNCHANGED stored \/ row = NoRow
      BY <2>3 DEF Insert
    <2>4. ASSUME NEW c \in Clients, Write(c) PROVE UNCHANGED stored \/ Acceptable(c)
      BY <2>4 DEF Write
    <2>5. ASSUME ~Tick
          PROVE  UNCHANGED stored
                 \/ \E c \in Clients : (Insert(c) /\ row = NoRow)
                                       \/ (Write(c) /\ Acceptable(c))
      <3>1. PICK c \in Clients :
                 \/ ReceiveOpen(c)
                 \/ \E op \in {"draft", "submit"} : ReceiveWrite(c, op)
                 \/ Ensure(c) \/ Insert(c) \/ Lock(c) \/ Write(c)
                 \/ Refresh(c) \/ Fail(c) \/ LoseReply(c)
        BY <2>5, StepCases
      <3>2. CASE Insert(c)
        <4>1. UNCHANGED stored \/ row = NoRow
          BY <2>3, <3>2
        <4> QED
          BY <3>2, <4>1, Zenon
      <3>3. CASE Write(c)
        BY <2>4, <3>3
      <3> QED
        BY <2>2, <3>1, <3>2, <3>3
    <2> QED
      BY <2>1, <2>5
  <1> QED
    BY <1>1, <1>2, <1>3, <1>4 DEF Promise!Next

LEMMA SnapshotStep ==
    ASSUME TypeOK, WriterHoldsRow, SnapshotIsSubmission,
           [Promise!Next]_<<Draft, submissions>>
    PROVE  SnapshotIsSubmission'
  <1> DEFINE Expected(d) == IF d # NoRow /\ d.status = "submitted"
                            THEN <<d.answers>> ELSE <<>>
  <1>1. SnapshotIsSubmission <=> submissions = Expected(Draft)
    BY DEF SnapshotIsSubmission, Draft, NoRow
  <1>2. SnapshotIsSubmission' <=> submissions' = Expected(Draft')
    BY DEF SnapshotIsSubmission, Draft, NoRow
  <1>3. CASE Promise!Open
    BY <1>1, <1>2, <1>3 DEF Promise!Open, NoRow
  <1>4. ASSUME NEW a \in Answers, Promise!Save(a) PROVE SnapshotIsSubmission'
    BY <1>1, <1>2, <1>4 DEF Promise!Save
  <1>5. ASSUME NEW a \in Answers, Promise!Submit(a) PROVE SnapshotIsSubmission'
    <2>1. submissions' = <<a>>
      BY <1>1, <1>5 DEF Promise!Submit
    <2>2. Draft'.status = "submitted" /\ Draft'.answers = a
      BY <1>5 DEF Promise!Submit
    <2>3. Draft' # NoRow
      BY <2>2 DEF NoRow
    <2> QED
      BY <1>2, <2>1, <2>2, <2>3
  <1>6. CASE UNCHANGED <<Draft, submissions>>
    BY <1>1, <1>2, <1>6
  <1> QED
    BY <1>3, <1>4, <1>5, <1>6 DEF Promise!Next

-----------------------------------------------------------------------------
(* Versions and times *)

\* How a step changes the row: it creates it, or writes the next version of it
\* for a request that named the last one, or leaves it alone.
LEMMA RowStep ==
    ASSUME TypeOK, WriterHoldsRow, Next
    PROVE  \/ row' = row
           \/ /\ row = NoRow
              /\ \E c \in Clients : Insert(c) /\ row'.savedAt = req[c].at
              /\ row' # NoRow /\ row'.version = 0
           \/ /\ row # NoRow /\ row' # NoRow
              /\ row'.version = row.version + 1
              /\ \E c \in Clients :
                    /\ Write(c) /\ pc[c] = "write" /\ pc'[c] = "refresh"
                    /\ req[c].op \in {"draft", "submit"}
                    /\ req[c].base = row.version
                    /\ row'.savedAt = req[c].at
  <1>1. ASSUME NEW c \in Clients, Insert(c), row = NoRow
        PROVE  row' # NoRow /\ row'.savedAt = req[c].at /\ row'.version = 0
    BY <1>1 DEF Insert, NoRow
  <1>2. ASSUME NEW c \in Clients, Write(c), Acceptable(c)
        PROVE  /\ row # NoRow /\ row' # NoRow
               /\ row'.version = row.version + 1
               /\ pc[c] = "write" /\ pc'[c] = "refresh"
               /\ req[c].op \in {"draft", "submit"}
               /\ req[c].base = row.version
               /\ row'.savedAt = req[c].at
    <2>1. pc[c] = "write" /\ row' = Written(c) /\ pc'[c] = "refresh"
      BY <1>2 DEF Write, Written, Goto, TypeOK
    <2>2. row # NoRow /\ req[c].op \in {"draft", "submit"}
      BY <2>1 DEF WriterHoldsRow, TypeOK, Requests
    <2> QED
      BY <1>2, <2>1, <2>2, AcceptedWrite, NoRowIsNoResponse
  <1>3. CASE Tick
    BY <1>3 DEF Tick, stored
  <1>4. ASSUME NEW c \in Clients,
               \/ ReceiveOpen(c)
               \/ \E op \in {"draft", "submit"} : ReceiveWrite(c, op)
               \/ Ensure(c) \/ Lock(c) \/ Refresh(c) \/ Fail(c) \/ LoseReply(c)
        PROVE  row' = row
    BY <1>4 DEF ReceiveOpen, ReceiveWrite, Ensure, Lock, Refresh, Fail, LoseReply,
                stored
  <1>5. ASSUME NEW c \in Clients, Insert(c), row # NoRow PROVE row' = row
    BY <1>5 DEF Insert
  <1>6. ASSUME NEW c \in Clients, Write(c), ~Acceptable(c) PROVE row' = row
    BY <1>6 DEF Write, stored
  <1>7. ASSUME row' # row
        PROVE  \E c \in Clients : (Insert(c) /\ row = NoRow)
                                  \/ (Write(c) /\ Acceptable(c))
    <2>1. PICK c \in Clients : Insert(c) \/ Write(c)
      BY <1>3, <1>4, <1>7, StepCases
    <2>2. CASE Insert(c)
      <3>1. row = NoRow
        BY <1>5, <1>7, <2>2
      <3> QED
        BY <2>2, <3>1, Zenon
    <2>3. CASE Write(c)
      <3>1. Acceptable(c)
        BY <1>6, <1>7, <2>3
      <3> QED
        BY <2>3, <3>1, Zenon
    <2> QED
      BY <2>1, <2>2, <2>3
  <1> QED
    BY <1>1, <1>2, <1>7, Zenon

\* A version a client knows stays one of the past: what a step does to what a
\* client knows and to its request.
LEMMA BasesStep ==
    ASSUME TypeOK, WriterHoldsRow, BasesArePast, Next
    PROVE  BasesArePast'
  <1> USE DEF Goto, stored
  <1>1. now \in Nat /\ now' \in Nat /\ now <= now'
    <2>1. now' = now \/ now' = now + 1
      BY StepCases DEF Tick, ReceiveOpen, ReceiveWrite, Ensure, Insert, Lock,
                       Write, Refresh, Fail, LoseReply
    <2> QED
      BY <2>1 DEF TypeOK
  <1>2. /\ row # NoRow => row' # NoRow /\ row.version <= row'.version
        /\ row' # NoRow => row'.savedAt <= now
    BY RowStep DEF BasesArePast, TypeOK, Rows, Responses
  \* What the server has not told a client yet stays true of it.
  <1>3. ASSUME NEW c \in Clients, knows'[c] = knows[c]
        PROVE  knows'[c] # Unknown => row' # NoRow /\ knows'[c].version <= row'.version
    <2>1. CASE knows[c] # Unknown
      <3>1. /\ row # NoRow /\ knows[c].version <= row.version
            /\ knows[c].version \in Nat
        BY <2>1 DEF BasesArePast, TypeOK, Known
      <3>2. row.version \in Nat /\ row' # NoRow /\ row'.version \in Nat
        BY <3>1, <1>2, TypeStep DEF TypeOK, Rows, Responses
      <3> QED
        BY <1>2, <1>3, <3>1, <3>2
    <2> QED
      BY <1>3, <2>1
  <1> DEFINE Heard(c) == knows'[c] # Unknown =>
                           row' # NoRow /\ knows'[c].version <= row'.version
             Past(c) == /\ req'[c].at <= now'
                        /\ req'[c].op \in {"draft", "submit"} /\ pc'[c] # "refresh" =>
                              /\ row' # NoRow
                              /\ req'[c].base <= row'.version
                              /\ req'[c].base = row'.version =>
                                    row'.savedAt <= req'[c].at
  \* Nor does what a request names grow younger while it waits.
  <1>4. ASSUME NEW c \in Clients, req'[c].op = req[c].op,
               req'[c].base = req[c].base, req'[c].at = req[c].at,
               pc[c] = "refresh" => pc'[c] = "refresh"
        PROVE  Past(c)
    <2>1. req[c].at \in Nat /\ req[c].base \in Nat
      BY DEF TypeOK, Requests
    <2>2. req'[c].at <= now'
      BY <1>1, <1>4, <2>1 DEF BasesArePast
    <2>3. CASE req[c].op \in {"draft", "submit"} /\ pc[c] # "refresh"
      <3>1. /\ row # NoRow /\ req[c].base <= row.version
            /\ req[c].base = row.version => row.savedAt <= req[c].at
        BY <2>3 DEF BasesArePast
      <3>2. row.version \in Nat
        BY <3>1 DEF TypeOK, Rows, Responses
      <3>3. row' = row \/ (row' # NoRow /\ row'.version = row.version + 1)
        BY <3>1, RowStep
      <3>4. CASE row' = row
        BY <1>4, <2>2, <3>1, <3>4
      <3>5. CASE row' # NoRow /\ row'.version = row.version + 1
        BY <1>4, <2>1, <2>2, <3>1, <3>2, <3>5
      <3> QED
        BY <3>3, <3>4, <3>5
    <2> QED
      BY <1>4, <2>2, <2>3
  <1>5. ASSUME NEW c \in Clients, Finish(c) PROVE Past(c)
    <2>1. req'[c] = NoRequest
      BY <1>5 DEF Finish, TypeOK
    <2>2. req'[c].at = 0 /\ req'[c].op = "none"
      BY <2>1 DEF NoRequest
    <2> QED
      BY <1>1, <2>2
  <1>6. ASSUME NEW c \in Clients, row # NoRow, row' = row,
               knows'[c].version = row.version
        PROVE  Heard(c)
    <2>1. row.version \in Nat
      BY <1>6 DEF TypeOK, Rows, Responses
    <2> QED
      BY <1>6, <2>1
  <1>7. ASSUME NEW c \in Clients, ReceiveOpen(c) PROVE Heard(c) /\ Past(c)
    <2>1. req'[c] = [NoRequest EXCEPT !.op = "open", !.at = now]
      BY <1>7 DEF ReceiveOpen, TypeOK
    <2>2. req'[c].at = now /\ req'[c].op = "open"
      BY <2>1 DEF NoRequest
    <2>3. knows'[c] = knows[c] /\ now' = now
      BY <1>7 DEF ReceiveOpen
    <2> QED
      BY <1>1, <1>3, <2>2, <2>3
  <1>8. ASSUME NEW c \in Clients, NEW op \in {"draft", "submit"},
               ReceiveWrite(c, op)
        PROVE  Heard(c) /\ Past(c)
    <2>1. PICK a \in Answers :
             req' = [req EXCEPT ![c] =
                       [op |-> op, answers |-> a, base |-> knows[c].version,
                        at |-> now, read |-> NoRow, locked |-> FALSE]]
      BY <1>8 DEF ReceiveWrite
    <2>2. req'[c].at = now /\ req'[c].base = knows[c].version
      BY <2>1 DEF TypeOK
    <2>3. /\ knows[c] # Unknown /\ knows'[c] = knows[c]
          /\ now' = now /\ row' = row
      BY <1>8 DEF ReceiveWrite
    <2>4. row # NoRow /\ knows[c].version <= row.version /\ row.savedAt <= now
      BY <2>3 DEF BasesArePast
    <2> QED
      BY <1>1, <1>3, <2>2, <2>3, <2>4
  <1>9. ASSUME NEW c \in Clients, Ensure(c) PROVE Heard(c) /\ Past(c)
    <2>1. CASE row # NoRow /\ req[c].op = "open"
      <3>1. knows'[c].version = row.version /\ row' = row /\ Finish(c)
        BY <1>9, <2>1 DEF Ensure, TypeOK
      <3> QED
        BY <1>5, <1>6, <2>1, <3>1
    <2>2. CASE ~(row # NoRow /\ req[c].op = "open")
      <3>1. knows' = knows /\ req' = req /\ pc[c] # "refresh"
        BY <1>9, <2>2 DEF Ensure
      <3> QED
        BY <1>3, <1>4, <3>1
    <2> QED
      BY <2>1, <2>2
  <1>10. ASSUME NEW c \in Clients, Insert(c) PROVE Heard(c) /\ Past(c)
    BY <1>3, <1>4, <1>10 DEF Insert
  <1>11. ASSUME NEW c \in Clients, Lock(c) PROVE Heard(c) /\ Past(c)
    <2>1. req'[c] = [req[c] EXCEPT !.read = row, !.locked = TRUE]
      BY <1>11 DEF Lock, TypeOK
    <2>2. /\ req'[c].op = req[c].op /\ req'[c].base = req[c].base
          /\ req'[c].at = req[c].at
      BY <2>1 DEF TypeOK, Requests
    <2>3. knows' = knows /\ pc[c] # "refresh"
      BY <1>11 DEF Lock
    <2> QED
      BY <1>3, <1>4, <2>2, <2>3
  <1>12. ASSUME NEW c \in Clients, Write(c) PROVE Heard(c) /\ Past(c)
    <2>1. knows' = knows /\ pc[c] # "refresh"
      BY <1>12 DEF Write
    <2>2. CASE Acceptable(c)
      <3>1. req'[c] = [req[c] EXCEPT !.locked = FALSE]
        BY <1>12, <2>2 DEF Write, TypeOK
      <3>2. /\ req'[c].op = req[c].op /\ req'[c].base = req[c].base
            /\ req'[c].at = req[c].at
        BY <3>1 DEF TypeOK, Requests
      <3> QED
        BY <1>3, <1>4, <2>1, <3>2
    <2>3. CASE ~Acceptable(c)
      BY <1>3, <1>5, <1>12, <2>1, <2>3 DEF Write
    <2> QED
      BY <2>2, <2>3
  <1>13. ASSUME NEW c \in Clients, Refresh(c) PROVE Heard(c) /\ Past(c)
    <2>1. row # NoRow /\ row' = row /\ knows'[c].version = row.version
      BY <1>13 DEF Refresh, WriterHoldsRow, TypeOK
    <2> QED
      BY <1>5, <1>6, <1>13, <2>1 DEF Refresh
  <1>14. ASSUME NEW c \in Clients, Fail(c) \/ LoseReply(c) PROVE Heard(c) /\ Past(c)
    BY <1>3, <1>5, <1>14 DEF Fail, LoseReply
  \* The clients a step is not about.
  <1>15. ASSUME NEW c \in Clients, knows'[c] = knows[c], req'[c] = req[c],
                pc'[c] = pc[c]
         PROVE  Heard(c) /\ Past(c)
    BY <1>3, <1>4, <1>15
  <1>16. ASSUME NEW c \in Clients, NEW d \in Clients \ {c},
                \/ ReceiveOpen(c)
                \/ \E op \in {"draft", "submit"} : ReceiveWrite(c, op)
                \/ Ensure(c) \/ Insert(c) \/ Lock(c) \/ Write(c)
                \/ Refresh(c) \/ Fail(c) \/ LoseReply(c)
         PROVE  knows'[d] = knows[d] /\ req'[d] = req[d] /\ pc'[d] = pc[d]
    BY <1>16 DEF ReceiveOpen, ReceiveWrite, Ensure, Insert, Lock, Write, Refresh,
                 Fail, LoseReply, Finish, TypeOK
  <1>17. \A c \in Clients : Heard(c) /\ Past(c)
    <2>1. CASE Tick
      BY <1>15, <2>1 DEF Tick
    <2>2. ASSUME NEW c \in Clients, NEW d \in Clients,
                 \/ ReceiveOpen(c)
                 \/ \E op \in {"draft", "submit"} : ReceiveWrite(c, op)
                 \/ Ensure(c) \/ Insert(c) \/ Lock(c) \/ Write(c)
                 \/ Refresh(c) \/ Fail(c) \/ LoseReply(c)
          PROVE  Heard(d) /\ Past(d)
      <3>1. CASE d = c
        <4> HIDE DEF Heard, Past
        <4> QED
          BY <1>7, <1>8, <1>9, <1>10, <1>11, <1>12, <1>13, <1>14, <2>2, <3>1
      <3>2. CASE d # c
        <4>1. knows'[d] = knows[d] /\ req'[d] = req[d] /\ pc'[d] = pc[d]
          BY <1>16, <2>2, <3>2
        <4> QED
          BY <1>15, <4>1
      <3> QED
        BY <3>1, <3>2
    <2> HIDE DEF Heard, Past
    <2> QED
      BY <2>1, <2>2, StepCases
  <1>18. row' # NoRow => row'.savedAt <= now'
    <2>1. CASE row' # NoRow
      <3>1. row'.savedAt \in Nat
        BY <2>1, TypeStep DEF TypeOK, Rows, Responses
      <3> QED
        BY <1>1, <1>2, <3>1
    <2> QED
      BY <2>1
  <1> QED
    BY <1>17, <1>18 DEF BasesArePast

-----------------------------------------------------------------------------
(* The inductive invariant *)

LEMMA InvInit == Init => ResponseInv
  <1> SUFFICES ASSUME Init PROVE WriterHoldsRow /\ BasesArePast /\ SnapshotIsSubmission
    BY TypeInit DEF ResponseInv
  <1>1. /\ NoRequest.op = "none" /\ ~NoRequest.locked /\ NoRequest.at = 0
        /\ \A c \in Clients : /\ req[c] = NoRequest /\ pc[c] = "idle"
                              /\ knows[c] = Unknown
    BY DEF Init, NoRequest
  <1> QED
    BY <1>1 DEF Init, WriterHoldsRow, BasesArePast, SnapshotIsSubmission

LEMMA InvStep == ResponseInv /\ [Next]_vars => ResponseInv'
  <1> SUFFICES ASSUME ResponseInv, [Next]_vars PROVE ResponseInv'
    OBVIOUS
  <1>1. CASE Next
    <2>1. TypeOK /\ WriterHoldsRow /\ BasesArePast /\ SnapshotIsSubmission
      BY DEF ResponseInv
    <2> QED
      BY <1>1, <2>1, TypeStep, WriterStep, BasesStep, PromiseStep, SnapshotStep
      DEF ResponseInv
  <1>2. CASE UNCHANGED vars
    BY <1>2 DEF vars, stored, ResponseInv, TypeOK, WriterHoldsRow, BasesArePast,
                SnapshotIsSubmission
  <1> QED
    BY <1>1, <1>2

-----------------------------------------------------------------------------
(* The theorems *)

\* Whatever the tabs of a student do, the invariant of the response holds: the
\* request that holds the row is the only one that writes it, and it writes
\* over the version it has read under its lock.
THEOREM ResponseInvariant == Spec => []ResponseInv
  BY InvInit, InvStep, PTL DEF Spec

\* Every row, snapshot, request and version is one the types allow.
THEOREM ResponseTypeCorrect == Spec => []TypeOK
  <1>1. ResponseInv => TypeOK
    BY DEF ResponseInv
  <1> QED
    BY <1>1, ResponseInvariant, PTL

\* The one snapshot of a response is of the answers it was submitted with, and
\* those are the ones it holds ever after (submit_student_case).
THEOREM SnapshotOfSubmission == Spec => []SnapshotIsSubmission
  <1>1. ResponseInv => SnapshotIsSubmission
    BY DEF ResponseInv
  <1> QED
    BY <1>1, ResponseInvariant, PTL

\* Though a write is stamped before it waits for the row, the stamps of the
\* versions never go back (last_autosaved_at of save_student_case_draft).
THEOREM StampsNeverGoBack == Spec => StampsFollowVersions
  <1>1. ResponseInv /\ Next => (row # NoRow => row'.savedAt >= row.savedAt)
    <2> SUFFICES ASSUME ResponseInv, Next, row # NoRow
                 PROVE  row'.savedAt >= row.savedAt
      OBVIOUS
    <2>1. TypeOK /\ WriterHoldsRow /\ BasesArePast
      BY DEF ResponseInv
    <2>2. row.savedAt \in Nat
      BY <2>1 DEF TypeOK, Rows, Responses
    <2>3. CASE row' = row
      BY <2>2, <2>3
    <2>4. CASE row' # row
      <3>1. PICK c \in Clients :
               /\ pc[c] = "write" /\ req[c].op \in {"draft", "submit"}
               /\ req[c].base = row.version /\ row'.savedAt = req[c].at
        BY <2>1, <2>4, RowStep
      <3>2. req[c].at \in Nat /\ row.savedAt <= req[c].at
        BY <2>1, <3>1 DEF BasesArePast, TypeOK, Requests
      <3> QED
        BY <2>2, <3>1, <3>2
    <2> QED
      BY <2>3, <2>4
  <1>2. ResponseInv /\ [Next]_vars => [row # NoRow => row'.savedAt >= row.savedAt]_vars
    BY <1>1
  <1> QED
    BY <1>2, ResponseInvariant, PTL DEF Spec, StampsFollowVersions

\* The server keeps the promise of VersionedDraft to any number of tabs: one
\* opening, one accepted write over each version, none after the submit.
THEOREM ResponseImplementsVersionedDraft == Spec => ImplementsVersionedDraft
  <1>1. Init => Promise!Init
    BY DEF Init, Promise!Init, Draft
  <1>2. ResponseInv /\ [Next]_vars => [Promise!Next]_<<Draft, submissions>>
    <2> SUFFICES ASSUME ResponseInv, [Next]_vars
                 PROVE  [Promise!Next]_<<Draft, submissions>>
      OBVIOUS
    <2>1. CASE Next
      BY <2>1, PromiseStep DEF ResponseInv
    <2>2. CASE UNCHANGED vars
      BY <2>2 DEF vars, stored, Draft
    <2> QED
      BY <2>1, <2>2
  <1> QED
    BY <1>1, <1>2, ResponseInvariant, PTL
    DEF Spec, ImplementsVersionedDraft, Promise!Spec

-----------------------------------------------------------------------------
(* The page of the student: types *)

LEMMA PageConstants ==
    /\ Fresh \in Screens
    /\ NoCall \notin Calls /\ NoCall.at = "none" /\ NoCall.version = 0
    /\ None \notin Details /\ Asked \notin Details /\ None # Asked
    /\ None.status = "none" /\ Asked.status = "asked"
    /\ None \in Backups
    /\ NoText \in PageTexts /\ Other \in PageTexts
  <1>1. NoCall.op = "none" /\ None.status = "none" /\ Asked.status = "asked"
    BY DEF NoCall, None, Asked
  <1>2. NoCall \notin Calls
    BY <1>1 DEF Calls
  <1>3. None \notin Details /\ Asked \notin Details
    BY <1>1 DEF Details
  <1> QED
    BY <1>1, <1>2, <1>3
       DEF Fresh, Screens, NoCall, None, Asked, Backups, NoText, Other, PageTexts

\* A page is filled with a text of the detail or of the backup.
LEMMA HydratedType ==
    ASSUME NEW d \in Details, NEW s \in Screens, NEW b \in Backups
    PROVE  Hydrated(d, s, b) \in Screens
  <1>1. Replays(d, b) \in BOOLEAN
    BY DEF Replays
  <1>2. Replays(d, b) => b \in Details
    BY DEF Replays, Backups
  <1>3. (IF Replays(d, b) THEN b.text ELSE d.text) \in PageTexts
    BY <1>2 DEF Details
  <1> QED
    BY <1>1, <1>3 DEF Hydrated, Screens, Details

LEMMA CacheType ==
    ASSUME NEW d \in Details \cup {None}, NEW s \in Screens, NEW b \in Backups,
           Cache(d, s, b)
    PROVE  /\ cache' \in Details \cup {None}
           /\ screen' \in Screens
           /\ backup' \in Backups
  <1>1. d # None => d \in Details
    OBVIOUS
  <1> QED
    BY <1>1, HydratedType, PageConstants DEF Cache

LEMMA CallFields ==
    ASSUME NEW r \in Calls
    PROVE  /\ r.op \in {"save", "submit", "flush", "last save", "last submit"}
           /\ r.version \in Nat /\ r.version + 1 \in Nat /\ r.text \in PageTexts
           /\ r.tries \in 0 .. MaxRetries
  <1>1. /\ r.op \in {"save", "submit", "flush", "last save", "last submit"}
        /\ r.version \in Nat /\ r.text \in PageTexts /\ r.tries \in 0 .. MaxRetries
    BY Zenon DEF Calls
  <1>2. r.version \in Nat
    BY <1>1, Zenon
  <1>3. r.version + 1 \in Nat
    BY <1>2
  <1> QED
    BY <1>1, <1>3, Zenon

\* The reply to a write, as the cache gets it.
LEMMA PatchedType ==
    ASSUME NEW r \in Calls, NEW st \in {"draft", "submitted", "closed"}
    PROVE  /\ Patched(r, st) \in Details
           /\ Patched(r, st).version = r.version + 1
           /\ Patched(r, st).text = r.text /\ Patched(r, st).status = st
  <1>1. r.version \in Nat /\ r.text \in PageTexts
    BY CallFields
  <1> QED
    BY <1>1 DEF Patched, Details

LEMMA SettledType ==
    ASSUME NEW s \in Screens
    PROVE  /\ Settled(s) \in Screens
           /\ Settled(s).text = s.text /\ Settled(s).version = s.version
           /\ Settled(s).dirty = s.dirty /\ Settled(s).hydrated = s.hydrated
           /\ Settled(s).override = s.override
  BY DEF Settled, Screens

LEMMA SettledFresh == Settled(Fresh) = Fresh
  <1>1. /\ Fresh \in Screens /\ Settled(Fresh) \in Screens
        /\ ~Fresh.reloading /\ ~Fresh.modal /\ ~Fresh.banner
    BY PageConstants, SettledType DEF Fresh
  <1>2. /\ ~Settled(Fresh).reloading /\ ~Settled(Fresh).modal
        /\ ~Settled(Fresh).banner
    BY <1>1 DEF Settled, Screens
  <1> QED
    BY <1>1, <1>2, SettledType DEF Screens

\* A request of the page as it stands, and what becomes of one.
LEMMA CallType ==
    ASSUME PageTypeOK, NEW op \in {"save", "submit", "flush"}
    PROVE  /\ Call(op) \in Calls
           /\ Call(op).version = screen.version /\ Call(op).at = "sent"
           /\ Call(op).text = screen.text /\ Call(op).op = op
  <1>1. screen.text \in PageTexts /\ screen.version \in Nat /\ 0 \in 0 .. MaxRetries
    BY DEF PageTypeOK, Screens
  <1> QED
    BY <1>1 DEF Call, Calls

LEMMA MovedType ==
    ASSUME NEW r \in Calls, NEW at \in {"sent", "ok"} \cup Refusals
    PROVE  /\ [r EXCEPT !.at = at] \in Calls
           /\ r.tries < MaxRetries => Again(r, at) \in Calls
           /\ r.op # "flush" =>
                [r EXCEPT !.op = IF @ = "submit" THEN "last submit" ELSE "last save"]
                  \in Calls
  <1>1. r.tries \in 0 .. MaxRetries
    BY CallFields
  <1>2. r.tries < MaxRetries => r.tries + 1 \in 0 .. MaxRetries
    BY <1>1
  <1> QED
    BY <1>1, <1>2, CallFields DEF Calls, Again, Refusals

LEMMA AnswerType == ASSUME NEW r PROVE Answer(r) \in {"ok", "closed", "already", "conflict"}
  BY DEF Answer

\* The server answers a request; only an accepted one changes the response.
LEMMA ServeType ==
    ASSUME PageTypeOK, NEW r \in Calls, ServeCall(r)
    PROVE  /\ Answered(r) \in Calls
           /\ server' \in Details /\ server'.status # "closed"
  <1>1. Answered(r) \in Calls
    BY AnswerType, MovedType DEF Answered, Refusals
  <1>2. \A st \in {"draft", "submitted", "closed"} :
            Patched(r, st) \in Details /\ Patched(r, st).status = st
    BY PatchedType
  <1>3. CASE Answer(r) = "ok"
    BY <1>1, <1>2, <1>3 DEF ServeCall
  <1>4. CASE Answer(r) # "ok"
    BY <1>1, <1>4 DEF ServeCall, PageTypeOK
  <1> QED
    BY <1>3, <1>4

LEMMA ErrorType ==
    ASSUME PageTypeOK, NEW at \in Refusals, HandleError(at)
    PROVE  /\ screen' \in Screens /\ backup' \in Backups
           /\ get' \in {get, Asked}
  <1>1. backup \in Backups /\ screen \in Screens
    BY DEF PageTypeOK
  <1>2. CASE at = "conflict"
    BY <1>1, <1>2 DEF HandleError, Screens
  <1>3. CASE at \in {"already", "closed"}
    <2>1. [Settled(screen) EXCEPT !.override = TRUE] \in Screens
      BY <1>1, SettledType DEF Screens
    <2> QED
      BY <1>1, <1>3, <2>1, PageConstants DEF HandleError
  <1>4. CASE at = "lost"
    BY <1>1, <1>4 DEF HandleError, Screens
  <1> QED
    BY <1>2, <1>3, <1>4 DEF Refusals

LEMMA PageTypeInit == PageInit => PageTypeOK
  <1> SUFFICES ASSUME PageInit PROVE PageTypeOK
    OBVIOUS
  <1>1. server \in Details /\ server.status # "closed"
    BY PageConstants DEF PageInit, Details
  <1>2. 0 \in 0 .. MaxIncidents /\ 0 \in 0 .. MaxTyped /\ 0 \in 0 .. MaxVisits
    OBVIOUS
  <1> QED
    BY <1>1, <1>2, PageConstants, Zenon DEF PageInit, PageTypeOK

\* What the answer to a page that is gone does: it leaves, or is tried again,
\* and one of five things happens to the browser.
LEMMA OrphanCases ==
    ASSUME NEW o, OrphanReturns(o)
    PROVE  /\ UNCHANGED <<server, closed, incidents, typed, visits, page, put, post>>
           /\ \/ orphans' = orphans \ {o}
              \/ /\ o.tries < MaxRetries
                 /\ \E at \in {"sent", "lost"} :
                       orphans' = (orphans \ {o}) \cup {Again(o, at)}
           /\ \/ UNCHANGED <<backup, cache, screen, get>>
              \/ /\ o.at = "ok" /\ cache # None
                 /\ Cache(Patched(o, cache.status), screen, backup)
                 /\ UNCHANGED get
              \/ /\ backup' = [version |-> o.version + 1, text |-> o.text,
                               status |-> "draft"]
                 /\ UNCHANGED <<cache, screen, get>>
              \/ /\ o.at = "ok"
                 /\ Cache(IF cache = None THEN None ELSE Patched(o, "submitted"),
                          IF page THEN Settled(screen) ELSE screen, None)
                 /\ get' = IF page THEN Asked ELSE get
              \/ /\ backup' = IF o.at = "already" THEN None ELSE backup
                 /\ get' = Asked /\ screen' = Settled(screen)
                 /\ UNCHANGED cache
  <1>1. UNCHANGED <<server, closed, incidents, typed, visits, page, put, post>>
    BY DEF OrphanReturns, remote, student
  <1>2. CASE /\ o.op = "save" /\ o.at = "lost" /\ o.tries < MaxRetries
             /\ \E at \in {"sent", "lost"} :
                  orphans' = (orphans \ {o}) \cup {Again(o, at)}
             /\ UNCHANGED <<backup, cache, screen, get>>
    BY <1>1, <1>2, Zenon
  <1>3. CASE orphans' = orphans \ {o}
    BY <1>1, <1>3, Zenon DEF OrphanReturns
  <1> QED
    BY <1>2, <1>3, Zenon DEF OrphanReturns

LEMMA IncidentType ==
    ASSUME PageTypeOK, Incident PROVE incidents' \in 0 .. MaxIncidents
  BY DEF PageTypeOK, Incident

LEMMA PageTypeStep ==
    ASSUME PageTypeOK, PageFollowsCache, PageNext PROVE PageTypeOK'
  <1> USE DEF PageTypeOK
  <1>t. /\ Fresh \in Screens /\ None \in Backups
        /\ \A r \in {put, post} \cup orphans : r \in Calls \/ r = NoCall
        /\ NoCall \notin Calls /\ NoCall.at = "none"
    BY PageConstants
  <1>c. put \in Calls \/ post \in Calls =>
           cache.status \in {"draft", "submitted", "closed"}
    BY <1>t, PageConstants DEF PageFollowsCache, Details
  <1>1. CASE Open
    <2>1. page' \in BOOLEAN /\ visits' \in 0 .. MaxVisits /\ get' \in {get, Asked}
      BY <1>1 DEF Open
    <2>2. cache' \in Details \cup {None} /\ screen' \in Screens /\ backup' \in Backups
      BY <1>1, <1>t, CacheType DEF Open
    <2> QED
      BY <1>1, <2>1, <2>2 DEF Open, remote, network
  <1>2. CASE Type
    <2>1. typed' \in 0 .. MaxTyped /\ typed' \in PageTexts
      BY <1>2 DEF Type, PageTexts
    <2>2. screen' \in Screens
      BY <1>2, <2>1 DEF Type, Screens
    <2>3. backup' \in Backups
      BY <1>2, <2>1 DEF Type, Screens, Backups, Details
    <2> QED
      BY <1>2, <2>1, <2>2, <2>3 DEF Type, remote, network
  <1>3. CASE Submit
    BY <1>3, CallType DEF Submit, remote, browser, student
  <1>4. CASE Reload
    BY <1>4, <1>t DEF Reload, remote, network, student, Screens
  <1>5. CASE Leave
    <2>1. orphans' \subseteq Calls
      BY <1>5, <1>t, CallType DEF Leave
    <2> QED
      BY <1>5, <1>t, <2>1 DEF Leave, remote, student
  <1>6. CASE CloseBrowser
    <2>1. orphans' \subseteq Calls
      <3>1. \A r \in Calls :
              [r EXCEPT !.op = IF @ = "submit" THEN "last submit" ELSE "last save"]
                \in Calls
        BY DEF Calls
      <3> QED
        BY <1>6, <1>t, <3>1 DEF CloseBrowser
    <2>2. incidents' \in 0 .. MaxIncidents
      BY <1>6, IncidentType DEF CloseBrowser
    <2> QED
      BY <1>6, <1>t, <2>1, <2>2 DEF CloseBrowser, student
  <1>7. CASE Collect
    BY <1>7 DEF Collect, remote, network, student
  <1>8. CASE OtherDevice
    <2>1. incidents' \in 0 .. MaxIncidents
      BY <1>8, IncidentType DEF OtherDevice
    <2>2. server' \in Details /\ server'.status # "closed"
      BY <1>8, PageConstants DEF OtherDevice, Details
    <2> QED
      BY <1>8, <2>1, <2>2 DEF OtherDevice, browser, network, student
  <1>9. CASE Deadline
    BY <1>9, IncidentType DEF Deadline, browser, network, student
  <1>10. CASE Refetch
    BY <1>10 DEF Refetch, remote, network, student
  <1>11. CASE FetchFails
    BY <1>11, IncidentType, SettledType DEF FetchFails, network, student
  <1>12. CASE Lose
    <2>1. incidents' \in 0 .. MaxIncidents
      BY <1>12, IncidentType DEF Lose
    <2>2. \A r \in Calls : [r EXCEPT !.at = "lost"] \in Calls
      BY DEF Calls, Refusals
    <2>3. Lost(put) => put \in Calls
      BY <1>t DEF Lost
    <2>4. Lost(post) => post \in Calls
      BY <1>t DEF Lost
    <2> QED
      BY <1>12, <2>1, <2>2, <2>3, <2>4 DEF Lose, browser, student
  <1>13. CASE Flush
    BY <1>13, CallType DEF Flush, remote, browser, student
  <1>14. CASE ServePut
    <2>1. put \in Calls
      BY <1>14, <1>t DEF ServePut, ServeCall
    <2> QED
      BY <1>14, <2>1, ServeType DEF ServePut, ServeCall, browser, student
  <1>15. CASE ServePost
    <2>1. post \in Calls
      BY <1>15, <1>t DEF ServePost, ServeCall
    <2> QED
      BY <1>15, <2>1, ServeType DEF ServePost, ServeCall, browser, student
  <1>16. CASE ServeGet
    <2>1. get' \in Details
      BY <1>16 DEF ServeGet, Details
    <2> QED
      BY <1>16, <2>1 DEF ServeGet, remote, network, student
  <1>17. CASE Fetched
    <2>1. get \in Details /\ Settled(screen) \in Screens
      BY <1>17, SettledType DEF Fetched
    <2>2. cache' \in Details \cup {None} /\ screen' \in Screens /\ backup' \in Backups
      BY <1>17, <2>1, CacheType DEF Fetched
    <2> QED
      BY <1>17, <2>2 DEF Fetched, remote, network, student
  <1>18. CASE SaveSucceeds
    <2>1. put \in Calls /\ cache.status \in {"draft", "submitted", "closed"}
      BY <1>18, <1>t, <1>c DEF SaveSucceeds
    <2>2. put.version + 1 \in Nat /\ put.text \in PageTexts
      BY <2>1, CallFields
    <2>3. [version |-> put.version + 1, text |-> put.text, status |-> "draft"] \in Backups
      BY <2>2 DEF Backups, Details
    <2>4. \A changed \in BOOLEAN :
             [screen EXCEPT !.version = put.version + 1, !.dirty = changed,
                            !.banner = @ /\ changed] \in Screens
      BY <2>2 DEF Screens
    <2>5. Patched(put, cache.status) \in Details
      BY <2>1, PatchedType
    <2>6. cache' \in Details \cup {None} /\ screen' \in Screens /\ backup' \in Backups
      BY <1>18, <2>3, <2>4, <2>5, CacheType DEF SaveSucceeds
    <2> QED
      BY <1>18, <2>6 DEF SaveSucceeds, remote, student
  <1>19. CASE SaveFails
    BY <1>19, ErrorType DEF SaveFails, remote, student
  <1>20. CASE Retry
    <2>1. put \in Calls
      BY <1>20, <1>t DEF Retry
    <2>2. put' \in Calls
      BY <1>20, <2>1, MovedType DEF Retry, Refusals
    <2> QED
      BY <1>20, <2>2 DEF Retry, remote, student, Screens
  <1>21. CASE SubmitSucceeds
    <2>1. post \in Calls
      BY <1>21, <1>t DEF SubmitSucceeds
    <2>2. post.version + 1 \in Nat
      BY <2>1, CallFields
    <2>3. [Settled(screen) EXCEPT !.version = post.version + 1, !.dirty = FALSE,
                                  !.override = FALSE, !.banner = FALSE] \in Screens
      BY <2>2, SettledType DEF Screens
    <2>4. Patched(post, "submitted") \in Details
      BY <2>1, PatchedType
    <2>5. cache' \in Details \cup {None} /\ screen' \in Screens /\ backup' \in Backups
      BY <1>21, <1>t, <2>3, <2>4, CacheType DEF SubmitSucceeds
    <2> QED
      BY <1>21, <2>5 DEF SubmitSucceeds, remote, student
  <1>22. CASE SubmitFails
    BY <1>22, ErrorType DEF SubmitFails, remote, student
  <1>23. CASE \E o \in orphans : ServeOrphan(o)
    <2>1. PICK o \in orphans : ServeOrphan(o)
      BY <1>23
    <2> QED
      BY <2>1, ServeType DEF ServeOrphan, ServeCall, browser, student
  <1>24. CASE \E o \in orphans : OrphanReturns(o)
    <2>1. PICK o \in orphans : OrphanReturns(o)
      BY <1>24
    <2>2. o \in Calls
      BY <2>1
    <2>3. UNCHANGED <<server, closed, incidents, typed, visits, page, put, post>>
      BY <2>1, OrphanCases, Zenon
    <2>4. orphans' \subseteq Calls
      <3>1. CASE orphans' = orphans \ {o}
        BY <3>1
      <3>2. CASE /\ o.tries < MaxRetries
                 /\ \E at \in {"sent", "lost"} :
                       orphans' = (orphans \ {o}) \cup {Again(o, at)}
        BY <3>2, <2>2, MovedType DEF Refusals
      <3> QED
        BY <2>1, <3>1, <3>2, OrphanCases
    <2>5. Settled(screen) \in Screens
      BY SettledType
    <2>6. Patched(o, "submitted") \in Details
      BY <2>2, PatchedType
    <2>7. cache # None => Patched(o, cache.status) \in Details
      BY <2>2, PatchedType DEF Details
    <2>8. [version |-> o.version + 1, text |-> o.text, status |-> "draft"] \in Backups
      <3>1. o.version + 1 \in Nat /\ o.text \in PageTexts
        BY <2>2, CallFields
      <3> QED
        BY <3>1 DEF Backups, Details
    <2>9. /\ cache' \in Details \cup {None} /\ screen' \in Screens /\ backup' \in Backups
          /\ get' \in {get, Asked}
      <3>1. CASE UNCHANGED <<backup, cache, screen, get>>
        BY <3>1
      <3>2. CASE /\ cache # None /\ Cache(Patched(o, cache.status), screen, backup)
                 /\ UNCHANGED get
        BY <3>2, <2>7, CacheType
      <3>3. CASE /\ backup' = [version |-> o.version + 1, text |-> o.text,
                               status |-> "draft"]
                 /\ UNCHANGED <<cache, screen, get>>
        BY <3>3, <2>8
      <3>4. CASE /\ Cache(IF cache = None THEN None ELSE Patched(o, "submitted"),
                          IF page THEN Settled(screen) ELSE screen, None)
                 /\ get' = IF page THEN Asked ELSE get
        BY <3>4, <1>t, <2>5, <2>6, CacheType
      <3>5. CASE /\ backup' = IF o.at = "already" THEN None ELSE backup
                 /\ get' = Asked /\ screen' = Settled(screen)
                 /\ UNCHANGED cache
        BY <3>5, <1>t, <2>5
      <3> QED
        BY <2>1, <3>1, <3>2, <3>3, <3>4, <3>5, OrphanCases, Zenon
    <2> QED
      BY <2>3, <2>4, <2>9
  <1> QED
    BY <1>1, <1>2, <1>3, <1>4, <1>5, <1>6, <1>7, <1>8, <1>9, <1>10, <1>11, <1>12,
       <1>13, <1>14, <1>15, <1>16, <1>17, <1>18, <1>19, <1>20, <1>21, <1>22, <1>23,
       <1>24 DEF PageNext, Proceed

-----------------------------------------------------------------------------
(* A page that says its text is saved is right *)

\* PageInv in two halves: what the page shows, and what is on its way.
ShownIsCurrent ==
    /\ cache # None => Current(cache)
    /\ screen.version <= server.version
    /\ SavedMeansSaved
    /\ IF page THEN screen.hydrated <=> cache # None ELSE screen = Fresh
    /\ screen.dirty => screen.hydrated
    /\ page /\ cache # None /\ cache.status # "draft" => screen.text = cache.text
RequestsAreCurrent ==
    /\ get \notin {None, Asked} => Current(get)
    /\ \A r \in {put, post} \cup orphans : CurrentCall(r)
    /\ put # NoCall \/ post # NoCall => page /\ cache # None

LEMMA HalvesOfInv ==
    /\ PageInv <=> PageTypeOK /\ ShownIsCurrent /\ RequestsAreCurrent
    /\ PageInv' <=> PageTypeOK' /\ ShownIsCurrent' /\ RequestsAreCurrent'
  BY Zenon DEF PageInv, VersionsAreCurrent, PageFollowsCache, ShownIsCurrent,
               RequestsAreCurrent

\* The response stays as it is, or goes on to its next version.
ServerMoves ==
    \/ server' = server
    \/ server' \in Details /\ server'.version = server.version + 1

\* What was true of a version stays true when the response goes on.
LEMMA ClaimsStay ==
    ASSUME PageTypeOK, ServerMoves
    PROVE  /\ \A v \in Nat : v <= server.version => v <= server'.version
           /\ \A d \in Details : Current(d) => Current(d)'
           /\ \A r \in Calls \cup {NoCall} : CurrentCall(r) => CurrentCall(r)'
  <1>1. server.version \in Nat /\ server'.version \in Nat
    BY DEF PageTypeOK, Details, ServerMoves
  <1>2. server' = server \/ server'.version = server.version + 1
    BY DEF ServerMoves
  <1>3. \A v \in Nat : v <= server.version => v <= server'.version
    BY <1>1, <1>2
  <1>4. ASSUME NEW d \in Details, Current(d) PROVE Current(d)'
    <2>1. d.version \in Nat
      BY DEF Details
    <2> QED
      BY <1>1, <1>2, <1>4, <2>1 DEF Current
  <1>5. ASSUME NEW r \in Calls \cup {NoCall}, CurrentCall(r) PROVE CurrentCall(r)'
    <2>1. r.version \in Nat
      <3>1. CASE r \in Calls
        BY <3>1, CallFields
      <3>2. CASE r = NoCall
        BY <3>2 DEF NoCall
      <3> QED
        BY <3>1, <3>2
    <2>2. r.at = "ok" => Patched(r, "draft") \in Details
      BY PatchedType, PageConstants
    <2> QED
      BY <1>3, <1>4, <1>5, <2>1, <2>2 DEF CurrentCall
  <1> QED
    BY <1>3, <1>4, <1>5

\* The page is still right, since the version it shows is past or the same.
LEMMA ShownStays ==
    ASSUME PageTypeOK, ShownIsCurrent, ServerMoves, UNCHANGED <<cache, page, screen>>
    PROVE  ShownIsCurrent'
  <1>1. /\ screen.version \in Nat /\ server.version \in Nat
        /\ screen.version <= server.version
    BY DEF PageTypeOK, Screens, Details, ShownIsCurrent
  <1>2. cache # None => Current(cache)'
    BY ClaimsStay DEF ShownIsCurrent, PageTypeOK
  <1>3. SavedMeansSaved' /\ screen'.version <= server'.version
    BY <1>1 DEF ServerMoves, SavedMeansSaved, ShownIsCurrent
  <1> QED
    BY <1>2, <1>3 DEF ShownIsCurrent, Current

\* A reply says what the server has made of the request.
LEMMA AnswerIsCurrent ==
    ASSUME PageTypeOK, NEW r \in Calls, CurrentCall(r), ServeCall(r)
    PROVE  ServerMoves /\ \A q \in Calls : q = Answered(r) => CurrentCall(q)'
  <1> SUFFICES ASSUME NEW q \in Calls, q = Answered(r)
               PROVE  ServerMoves /\ CurrentCall(q)'
    BY ServeType
  <1>1. q.at = Answer(r) /\ q.version = r.version /\ q.text = r.text
    BY DEF Answered, Calls
  <1>2. /\ \A st \in {"draft", "submitted"} :
               /\ Patched(r, st) \in Details
               /\ Patched(r, st).version = r.version + 1 /\ Patched(r, st).text = r.text
        /\ Patched(q, "draft").version = r.version + 1
        /\ Patched(q, "draft").text = r.text
    BY <1>1, PatchedType
  <1>3. r.version \in Nat /\ server.version \in Nat /\ r.version <= server.version
    BY CallFields DEF PageTypeOK, Details, CurrentCall
  <1>4. CASE Answer(r) # "ok"
    BY <1>1, <1>3, <1>4 DEF ServeCall, ServerMoves, CurrentCall
  <1>5. CASE Answer(r) = "ok"
    <2>1. r.version = server.version
      BY <1>5 DEF Answer, PageTypeOK, Details
    <2>2. /\ server' \in Details /\ server'.version = r.version + 1
          /\ server'.text = r.text
      BY <1>2, <1>5 DEF ServeCall
    <2> QED
      BY <1>1, <1>2, <1>3, <2>1, <2>2 DEF ServerMoves, CurrentCall, Current
  <1> QED
    BY <1>4, <1>5

\* The cache gets a detail of the server: the page shows the detail, or has
\* text of its own to save.
LEMMA CacheIsCurrent ==
    ASSUME PageTypeOK, UNCHANGED server, page' \in BOOLEAN,
           NEW d \in Details \cup {None}, NEW s \in Screens, NEW b \in Backups,
           Cache(d, s, b),
           d # None => Current(d),
           s.version <= server.version,
           page' /\ s.hydrated /\ ~s.dirty /\ s.version = server.version /\ d = cache
             => s.text = server.text,
           page' /\ s.hydrated /\ d # None /\ d = cache /\ d.status # "draft"
             => s.text = d.text,
           page' /\ d = None => ~s.hydrated,
           s.dirty => s.hydrated,
           ~page' => s = Fresh
    PROVE  ShownIsCurrent'
  <1> USE DEF ShownIsCurrent
  <1>1. cache' = d /\ (d # None => Current(d)')
    BY DEF Cache, Current
  <1>2. CASE page' /\ d # None /\ (d # cache \/ ~s.hydrated)
    <2>1. screen' = Hydrated(d, s, b) /\ d \in Details
      BY <1>2 DEF Cache
    <2>2. CASE ShouldHydrate(d, s)
      <3>1. /\ screen'.text = IF Replays(d, b) THEN b.text ELSE d.text
            /\ screen'.version = d.version /\ screen'.dirty = Replays(d, b)
            /\ screen'.hydrated
        BY <2>1, <2>2 DEF Hydrated, Screens
      <3>2. d.status # "draft" => ~Replays(d, b)
        BY DEF Replays
      <3> QED
        BY <1>1, <1>2, <3>1, <3>2 DEF SavedMeansSaved, Current
    <2>3. CASE ~ShouldHydrate(d, s)
      <3>1. screen' = s /\ s.hydrated /\ s.dirty /\ d.status = "draft"
        BY <2>1, <2>3 DEF Hydrated, ShouldHydrate
      <3> QED
        BY <1>1, <1>2, <3>1 DEF SavedMeansSaved
    <2> QED
      BY <2>2, <2>3
  <1>3. CASE ~(page' /\ d # None /\ (d # cache \/ ~s.hydrated))
    <2>1. screen' = s
      BY <1>3 DEF Cache
    <2> QED
      BY <1>1, <1>3, <2>1 DEF SavedMeansSaved
  <1> QED
    BY <1>2, <1>3

\* A refused or lost request does not touch what the page shows.
LEMMA ErrorKeepsText ==
    ASSUME PageTypeOK, NEW at \in Refusals, HandleError(at)
    PROVE  /\ screen'.text = screen.text /\ screen'.version = screen.version
           /\ screen'.dirty = screen.dirty /\ screen'.hydrated = screen.hydrated
           /\ get' = get \/ get' = Asked
  <1>1. screen \in Screens
    BY DEF PageTypeOK
  <1> QED
    BY <1>1, SettledType DEF HandleError, Refusals, Screens

\* A request leaves with the version and the text the page shows.
LEMMA CallIsCurrent ==
    ASSUME PageTypeOK, ShownIsCurrent, NEW op \in {"save", "submit", "flush"}
    PROVE  CurrentCall(Call(op))
  BY CallType DEF CurrentCall, ShownIsCurrent

\* The reply to a request, as the cache gets it.
LEMMA ReplyIsCurrent ==
    ASSUME PageTypeOK, NEW r \in Calls, CurrentCall(r), r.at = "ok",
           NEW st \in {"draft", "submitted", "closed"}
    PROVE  /\ Patched(r, st) \in Details /\ Current(Patched(r, st))
           /\ r.version + 1 <= server.version
           /\ r.version + 1 = server.version => r.text = server.text
  BY PatchedType DEF CurrentCall, Current

LEMMA PageInvInit == PageInit => PageInv
  <1> SUFFICES ASSUME PageInit PROVE PageInv
    OBVIOUS
  <1>1. PageTypeOK
    BY PageTypeInit
  <1>2. CurrentCall(NoCall)
    BY DEF PageInit, CurrentCall, NoCall
  <1>3. VersionsAreCurrent
    BY <1>2 DEF PageInit, VersionsAreCurrent, Fresh
  <1> QED
    BY <1>1, <1>3 DEF PageInit, PageInv, PageFollowsCache, SavedMeansSaved, Fresh

\* The steps of the world and of the server move the response, or nothing of
\* what the page has.
LEMMA WorldKeeps ==
    ASSUME PageInv, PageTypeOK',
           OtherDevice \/ Deadline \/ ServePut \/ ServePost
             \/ (\E o \in orphans : ServeOrphan(o)) \/ ServeGet \/ Lose
    PROVE  PageInv'
  <1>t. /\ PageTypeOK /\ ShownIsCurrent /\ RequestsAreCurrent
        /\ NoCall \notin Calls /\ NoCall.at = "none"
        /\ \A r \in {put, post} \cup orphans : r \in Calls \/ r = NoCall
    BY HalvesOfInv, PageConstants DEF PageTypeOK
  <1> SUFFICES ShownIsCurrent' /\ RequestsAreCurrent'
    BY HalvesOfInv
  <1>s. ASSUME ServerMoves, UNCHANGED <<cache, page, screen, get>>,
               \A r \in {put', post'} \cup orphans' :
                  r \in {put, post} \cup orphans \/ CurrentCall(r)',
               put' # NoCall \/ post' # NoCall => put # NoCall \/ post # NoCall
        PROVE  ShownIsCurrent' /\ RequestsAreCurrent'
    <2>1. ShownIsCurrent'
      BY <1>s, <1>t, ShownStays
    <2>2. get \notin {None, Asked} => Current(get)'
      BY <1>s, <1>t, ClaimsStay DEF RequestsAreCurrent, PageTypeOK
    <2>3. \A r \in {put, post} \cup orphans : CurrentCall(r)'
      BY <1>s, <1>t, ClaimsStay DEF RequestsAreCurrent
    <2> QED
      BY <1>s, <1>t, <2>1, <2>2, <2>3 DEF RequestsAreCurrent, Current
  <1>1. CASE OtherDevice
    <2>1. ServerMoves
      BY <1>1, <1>t DEF OtherDevice, ServerMoves, PageTypeOK
    <2> QED
      BY <1>1, <1>s, <2>1 DEF OtherDevice, browser, network
  <1>2. CASE Deadline
    BY <1>2, <1>s DEF Deadline, browser, network, ServerMoves
  <1>3. CASE ServePut
    <2>1. put \in Calls /\ CurrentCall(put) /\ ServeCall(put)
      BY <1>3, <1>t DEF ServePut, ServeCall, RequestsAreCurrent
    <2>2. /\ ServerMoves /\ Answered(put) \in Calls
          /\ \A q \in Calls : q = Answered(put) => CurrentCall(q)'
      BY <1>t, <2>1, ServeType, AnswerIsCurrent
    <2> QED
      BY <1>3, <1>s, <1>t, <2>1, <2>2 DEF ServePut, ServeCall, browser
  <1>4. CASE ServePost
    <2>1. post \in Calls /\ CurrentCall(post) /\ ServeCall(post)
      BY <1>4, <1>t DEF ServePost, ServeCall, RequestsAreCurrent
    <2>2. /\ ServerMoves /\ Answered(post) \in Calls
          /\ \A q \in Calls : q = Answered(post) => CurrentCall(q)'
      BY <1>t, <2>1, ServeType, AnswerIsCurrent
    <2> QED
      BY <1>4, <1>s, <1>t, <2>1, <2>2 DEF ServePost, ServeCall, browser
  <1>5. CASE \E o \in orphans : ServeOrphan(o)
    <2>0. PICK o \in orphans : ServeOrphan(o)
      BY <1>5
    <2>1. o \in Calls /\ CurrentCall(o) /\ ServeCall(o)
      BY <2>0, <1>t DEF ServeOrphan, RequestsAreCurrent, PageTypeOK
    <2>2. /\ ServerMoves /\ Answered(o) \in Calls
          /\ \A q \in Calls : q = Answered(o) => CurrentCall(q)'
      BY <1>t, <2>1, ServeType, AnswerIsCurrent
    <2> QED
      BY <2>0, <1>s, <2>2 DEF ServeOrphan, ServeCall, browser
  <1>6. CASE ServeGet
    <2>1. Current(get') /\ UNCHANGED server
      BY <1>6, <1>t DEF ServeGet, Current, remote, PageTypeOK, Details
    <2> QED
      BY <1>6, <1>t, <2>1
         DEF ServeGet, network, RequestsAreCurrent, ShownIsCurrent, Current,
             CurrentCall, SavedMeansSaved
  <1>7. CASE Lose
    <2>1. \A r \in Calls : CurrentCall(r) => CurrentCall([r EXCEPT !.at = "lost"])'
      BY <1>7 DEF Lose, CurrentCall, Calls
    <2> QED
      BY <1>7, <1>s, <1>t, <2>1
         DEF Lose, Lost, RequestsAreCurrent, browser, ServerMoves, PageTypeOK
  <1> QED
    BY <1>1, <1>2, <1>3, <1>4, <1>5, <1>6, <1>7

\* What is on its way stays current while the response stays as it is: a
\* request is an old one, a new one, or one that says nothing of a success.
LEMMA RequestsKeep ==
    ASSUME PageInv, UNCHANGED server,
           get' \in {get, None, Asked},
           \A r \in {put', post'} \cup orphans' :
              CurrentCall(r) \/ (r.version <= server.version /\ r.at # "ok"),
           put' # NoCall \/ post' # NoCall => page' /\ cache' # None
    PROVE  RequestsAreCurrent'
  <1>1. \A r : CurrentCall(r) => CurrentCall(r)'
    BY DEF CurrentCall, Current
  <1>2. \A r : r.version <= server.version /\ r.at # "ok" => CurrentCall(r)'
    BY DEF CurrentCall
  <1>3. get' \notin {None, Asked} => Current(get)'
    BY HalvesOfInv DEF RequestsAreCurrent, Current
  <1> QED
    BY <1>1, <1>2, <1>3 DEF RequestsAreCurrent

\* The steps of the page that leave the cache alone, or throw it away.
LEMMA PageKeeps ==
    ASSUME PageInv, PageTypeOK',
           \/ Type \/ Submit \/ Flush \/ Reload \/ Leave \/ CloseBrowser \/ Collect
           \/ Refetch \/ FetchFails \/ SaveFails \/ Retry \/ SubmitFails
    PROVE  PageInv'
  <1>t. /\ PageTypeOK /\ ShownIsCurrent /\ RequestsAreCurrent
        /\ NoCall \notin Calls /\ NoCall.at = "none"
        /\ \A r \in {put, post} \cup orphans :
              (r \in Calls \/ r = NoCall) /\ CurrentCall(r)
        /\ screen \in Screens /\ Fresh.version = 0 /\ ~Fresh.dirty
        /\ 0 <= server.version
    BY HalvesOfInv, PageConstants
       DEF PageTypeOK, RequestsAreCurrent, Fresh, Details
  <1> SUFFICES ShownIsCurrent' /\ RequestsAreCurrent'
    BY HalvesOfInv
  <1>s. ASSUME UNCHANGED <<server, cache, page>>,
               screen'.version = screen.version, screen'.hydrated = screen.hydrated,
               \/ screen'.text = screen.text /\ screen'.dirty = screen.dirty
               \/ Editable /\ screen'.dirty,
               page
        PROVE  ShownIsCurrent'
    BY <1>s, <1>t DEF ShownIsCurrent, SavedMeansSaved, Current, Editable, ReadOnly
  <1>1. CASE Type
    <2>1. ShownIsCurrent'
      BY <1>1, <1>s, <1>t DEF Type, remote, Editable, Screens
    <2> QED
      BY <1>1, <1>t, <2>1, RequestsKeep DEF Type, remote, network, RequestsAreCurrent
  <1>2. CASE Submit \/ Flush
    <2>1. ShownIsCurrent'
      BY <1>2, <1>s, <1>t DEF Submit, Flush, remote, browser, Editable
    <2>2. CurrentCall(Call("submit")) /\ CurrentCall(Call("save"))
      BY <1>t, CallIsCurrent
    <2>3. page' /\ cache' # None /\ UNCHANGED <<server, get>>
      BY <1>2 DEF Submit, Flush, remote, browser, Editable
    <2>4. \A r \in {put', post'} \cup orphans' : CurrentCall(r)
      BY <1>2, <1>t, <2>2 DEF Submit, Flush
    <2> QED
      BY <2>1, <2>3, <2>4, RequestsKeep
  <1>3. CASE Reload
    <2>1. ShownIsCurrent'
      BY <1>3, <1>s, <1>t DEF Reload, remote, Screens
    <2> QED
      BY <1>3, <1>t, <2>1, RequestsKeep DEF Reload, remote, network, RequestsAreCurrent
  <1>4. CASE Leave
    <2>1. ShownIsCurrent'
      BY <1>4, <1>t DEF Leave, remote, ShownIsCurrent, SavedMeansSaved, Current
    <2>2. CurrentCall(Call("flush"))
      BY <1>t, CallIsCurrent
    <2>3. \A r \in {put', post'} \cup orphans' :
             CurrentCall(r) \/ (r.version <= server.version /\ r.at # "ok")
      BY <1>4, <1>t, <2>2 DEF Leave, NoCall
    <2> QED
      BY <1>4, <2>1, <2>3, RequestsKeep DEF Leave, remote
  <1>5. CASE CloseBrowser
    <2>1. ShownIsCurrent'
      BY <1>5, <1>t DEF CloseBrowser, ShownIsCurrent, SavedMeansSaved
    <2>2. \A r \in Calls : CurrentCall(r) =>
             CurrentCall([r EXCEPT !.op = IF @ = "submit" THEN "last submit"
                                          ELSE "last save"])
      BY DEF CurrentCall, Calls, Patched
    <2>3. CurrentCall(NoCall) /\ put' = NoCall /\ post' = NoCall
      BY <1>5, <1>t, PageConstants DEF CloseBrowser, CurrentCall
    <2>4. \A r \in orphans' : CurrentCall(r)
      BY <1>5, <1>t, <2>2 DEF CloseBrowser
    <2> QED
      BY <1>5, <2>1, <2>3, <2>4, RequestsKeep DEF CloseBrowser
  <1>6. CASE Collect
    <2>1. ShownIsCurrent'
      BY <1>6, <1>t DEF Collect, remote, ShownIsCurrent, SavedMeansSaved
    <2> QED
      BY <1>6, <1>t, <2>1, RequestsKeep DEF Collect, remote, network, RequestsAreCurrent
  <1>7. CASE Refetch
    <2>1. ShownIsCurrent'
      BY <1>7, <1>s, <1>t DEF Refetch, remote
    <2> QED
      BY <1>7, <1>t, <2>1, RequestsKeep DEF Refetch, remote, network, RequestsAreCurrent
  <1>8. CASE FetchFails
    <2>1. ShownIsCurrent'
      <3>1. UNCHANGED <<server, cache, page>>
        BY <1>8 DEF FetchFails
      <3>2. CASE page
        BY <1>8, <1>s, <1>t, <3>1, <3>2, SettledType DEF FetchFails
      <3>3. CASE ~page
        <4>1. Settled(Fresh) = Fresh
          BY SettledFresh
        <4> QED
          BY <1>8, <1>t, <3>1, <3>3, <4>1
             DEF FetchFails, ShownIsCurrent, SavedMeansSaved, Current
      <3> QED
        BY <3>2, <3>3
    <2> QED
      BY <1>8, <1>t, <2>1, RequestsKeep DEF FetchFails, network, RequestsAreCurrent
  <1>9. CASE SaveFails
    <2>1. page /\ UNCHANGED <<server, cache, page>> /\ put.at \in Refusals
      BY <1>9, <1>t DEF SaveFails, remote, RequestsAreCurrent, Refusals
    <2>2. /\ screen'.text = screen.text /\ screen'.version = screen.version
          /\ screen'.dirty = screen.dirty /\ screen'.hydrated = screen.hydrated
          /\ get' = get \/ get' = Asked
      BY <1>9, <1>t, <2>1, ErrorKeepsText DEF SaveFails
    <2>3. ShownIsCurrent'
      BY <1>s, <2>1, <2>2
    <2>4. page' /\ cache' # None
      BY <1>9, <1>t, <2>1 DEF SaveFails, RequestsAreCurrent, Refusals
    <2>5. \A r \in {put', post'} \cup orphans' : CurrentCall(r)
      BY <1>9, <1>t, PageConstants DEF SaveFails, CurrentCall
    <2> QED
      BY <2>1, <2>2, <2>3, <2>4, <2>5, RequestsKeep
  <1>10. CASE Retry
    <2>1. put \in Calls /\ page /\ UNCHANGED <<server, cache, page>> /\ UNCHANGED get
      BY <1>10, <1>t DEF Retry, remote, RequestsAreCurrent
    <2>2. ShownIsCurrent'
      BY <1>10, <1>s, <1>t, <2>1 DEF Retry, Screens
    <2>3. put'.version <= server.version /\ put'.at # "ok"
      BY <1>10, <1>t, <2>1 DEF Retry, Again, Calls, CurrentCall
    <2>4. page /\ cache # None
      BY <1>10, <1>t, <2>1 DEF RequestsAreCurrent
    <2> QED
      BY <1>10, <1>t, <2>1, <2>2, <2>3, <2>4, RequestsKeep DEF Retry
  <1>11. CASE SubmitFails
    <2>1. page /\ UNCHANGED <<server, cache, page>> /\ post.at \in Refusals
      BY <1>11, <1>t DEF SubmitFails, remote, RequestsAreCurrent, Refusals
    <2>2. /\ screen'.text = screen.text /\ screen'.version = screen.version
          /\ screen'.dirty = screen.dirty /\ screen'.hydrated = screen.hydrated
          /\ get' = get \/ get' = Asked
      BY <1>11, <1>t, <2>1, ErrorKeepsText DEF SubmitFails
    <2>3. ShownIsCurrent'
      BY <1>s, <2>1, <2>2
    <2>4. page' /\ cache' # None
      BY <1>11, <1>t, <2>1 DEF SubmitFails, RequestsAreCurrent, Refusals
    <2>5. \A r \in {put', post'} \cup orphans' : CurrentCall(r)
      BY <1>11, <1>t, PageConstants DEF SubmitFails, CurrentCall
    <2> QED
      BY <2>1, <2>2, <2>3, <2>4, <2>5, RequestsKeep
  <1> QED
    BY <1>1, <1>2, <1>3, <1>4, <1>5, <1>6, <1>7, <1>8, <1>9, <1>10, <1>11

\* The steps that fill the cache: by a fetch, by the reply to a save, by the
\* reply to a submit, and by what comes back to a page that is gone.
LEMMA CacheKeeps ==
    ASSUME PageInv, PageTypeOK',
           \/ Open \/ Fetched \/ SaveSucceeds \/ SubmitSucceeds
           \/ \E o \in orphans : OrphanReturns(o)
    PROVE  PageInv'
  <1>t. /\ PageTypeOK /\ ShownIsCurrent /\ RequestsAreCurrent
        /\ NoCall \notin Calls /\ NoCall.at = "none" /\ CurrentCall(NoCall)
        /\ \A r \in {put, post} \cup orphans :
              (r \in Calls \/ r = NoCall) /\ CurrentCall(r)
        /\ screen \in Screens /\ backup \in Backups /\ None \in Backups
        /\ cache \in Details \cup {None} /\ page' \in BOOLEAN
        /\ Fresh \in Screens /\ Fresh.version = 0 /\ ~Fresh.hydrated /\ ~Fresh.dirty
        /\ 0 <= server.version
        /\ cache # None => cache.status \in {"draft", "submitted", "closed"}
        /\ Settled(screen) \in Screens /\ Settled(Fresh) = Fresh
    BY HalvesOfInv, PageConstants, SettledType, SettledFresh
       DEF PageTypeOK, RequestsAreCurrent, Fresh, Details, CurrentCall
  <1> SUFFICES ShownIsCurrent' /\ RequestsAreCurrent'
    BY HalvesOfInv
  <1>1. CASE Open
    <2>1. ~page /\ page' /\ UNCHANGED server /\ Cache(cache, Fresh, backup)
      BY <1>1 DEF Open, remote
    <2>2. ShownIsCurrent'
      BY <1>t, <2>1, CacheIsCurrent DEF ShownIsCurrent
    <2>3. put' = NoCall /\ post' = NoCall /\ UNCHANGED orphans
      BY <1>1, <1>t, <2>1 DEF Open, network, RequestsAreCurrent
    <2>4. \A r \in {put', post'} \cup orphans' : CurrentCall(r)
      BY <1>t, <2>3
    <2>5. get' \in {get, None, Asked}
      BY <1>1 DEF Open
    <2> QED
      BY <2>1, <2>2, <2>3, <2>4, <2>5, RequestsKeep
  <1>2. CASE Fetched
    <2>1. /\ UNCHANGED <<page, server>> /\ Cache(get, Settled(screen), backup)
          /\ get \in Details /\ Current(get) /\ get' = None
          /\ UNCHANGED <<put, post, orphans>>
      BY <1>2, <1>t DEF Fetched, remote, network, RequestsAreCurrent, PageTypeOK
    <2>2. /\ Settled(screen).text = screen.text
          /\ Settled(screen).version = screen.version
          /\ Settled(screen).dirty = screen.dirty
          /\ Settled(screen).hydrated = screen.hydrated
      BY <1>t, SettledType
    <2>3. get # None
      BY <1>2 DEF Fetched
    <2>4. ShownIsCurrent'
      BY <1>t, <2>1, <2>2, <2>3, CacheIsCurrent DEF ShownIsCurrent, SavedMeansSaved
    <2>5. cache' # None
      BY <2>1, <2>3 DEF Cache
    <2> QED
      BY <1>t, <2>1, <2>4, <2>5, RequestsKeep DEF RequestsAreCurrent
  <1>3. CASE SaveSucceeds
    <2> DEFINE changed == screen.text # put.text
               s == [screen EXCEPT !.version = put.version + 1, !.dirty = changed,
                                   !.banner = @ /\ changed]
               b == [version |-> put.version + 1, text |-> put.text,
                     status |-> "draft"]
               d == Patched(put, cache.status)
    <2>1. put \in Calls /\ put.at = "ok" /\ CurrentCall(put) /\ page /\ cache # None
      BY <1>3, <1>t DEF SaveSucceeds, RequestsAreCurrent
    <2>2. /\ UNCHANGED <<page, server, get, post, orphans>> /\ put' = NoCall
          /\ Cache(d, s, b)
      BY <1>3 DEF SaveSucceeds, remote
    <2>3. put.version + 1 \in Nat /\ put.text \in PageTexts
      BY <2>1, CallFields
    <2>4. b \in Backups
      BY <2>3 DEF Backups, Details
    <2>5. /\ s \in Screens /\ s.version = put.version + 1 /\ s.text = screen.text
          /\ s.dirty = changed /\ s.hydrated = screen.hydrated
      BY <1>t, <2>3 DEF Screens
    <2>6. /\ d \in Details /\ Current(d)
          /\ put.version + 1 <= server.version
          /\ put.version + 1 = server.version => put.text = server.text
          /\ d.text = put.text
      BY <1>t, <2>1, ReplyIsCurrent, PatchedType
    <2>7. d # None /\ (d = cache /\ d.status # "draft" => screen.text = d.text)
      BY <1>t, <2>1, <2>6, PageConstants DEF ShownIsCurrent
    <2> HIDE DEF changed, s, b, d
    <2>8. s.version = server.version /\ ~s.dirty => s.text = server.text
      BY <2>5, <2>6 DEF changed
    <2>9. s.version <= server.version /\ s.hydrated
      BY <1>t, <2>1, <2>5, <2>6 DEF ShownIsCurrent
    <2>10. ShownIsCurrent'
      BY <1>t, <2>1, <2>2, <2>4, <2>5, <2>6, <2>7, <2>8, <2>9, CacheIsCurrent
    <2>11. page' /\ cache' # None
      BY <2>1, <2>2, <2>7 DEF Cache
    <2> QED
      BY <1>t, <2>2, <2>10, <2>11, RequestsKeep
  <1>4. CASE SubmitSucceeds
    <2> DEFINE s == [Settled(screen) EXCEPT !.version = post.version + 1,
                        !.dirty = FALSE, !.override = FALSE, !.banner = FALSE]
               d == Patched(post, "submitted")
    <2>1. /\ post \in Calls /\ post.at = "ok" /\ CurrentCall(post)
          /\ page /\ cache # None
      BY <1>4, <1>t DEF SubmitSucceeds, RequestsAreCurrent
    <2>2. /\ UNCHANGED <<page, server, put, orphans>> /\ post' = NoCall
          /\ get' = Asked /\ Cache(d, s, None)
      BY <1>4 DEF SubmitSucceeds, remote
    <2>3. post.version + 1 \in Nat
      BY <2>1, CallFields
    <2>4. /\ s \in Screens /\ s.version = post.version + 1 /\ s.text = screen.text
          /\ s.hydrated = screen.hydrated
      BY <1>t, <2>3, SettledType DEF Screens
    <2>5. /\ d \in Details /\ Current(d) /\ d.status = "submitted"
          /\ d.version = post.version + 1
          /\ post.version + 1 <= server.version
      BY <1>t, <2>1, ReplyIsCurrent, PatchedType
    <2>6. d # None /\ (d = cache => screen.text = d.text)
      BY <1>t, <2>1, <2>5, PageConstants DEF ShownIsCurrent
    <2> HIDE DEF s, d
    <2>7. d = cache /\ s.version = server.version => s.text = server.text
      BY <2>4, <2>5, <2>6 DEF Current
    <2>8. s.version <= server.version /\ s.hydrated
      BY <1>t, <2>1, <2>4, <2>5 DEF ShownIsCurrent
    <2>9. ShownIsCurrent'
      BY <1>t, <2>1, <2>2, <2>4, <2>5, <2>6, <2>7, <2>8, CacheIsCurrent
    <2>10. page' /\ cache' # None
      BY <2>1, <2>2, <2>6 DEF Cache
    <2> QED
      BY <1>t, <2>2, <2>9, <2>10, RequestsKeep
  <1>5. CASE \E o \in orphans : OrphanReturns(o)
    <2>0. PICK o \in orphans : OrphanReturns(o)
      BY <1>5
    <2>1. /\ o \in Calls /\ CurrentCall(o)
          /\ UNCHANGED <<server, page, put, post>>
      BY <2>0, <1>t, OrphanCases DEF PageTypeOK
    <2>2. \A r \in {put', post'} \cup orphans' :
             CurrentCall(r) \/ (r.version <= server.version /\ r.at # "ok")
      <3>1. \A r \in {put, post} \cup orphans : CurrentCall(r)
        BY <1>t
      <3>2. ASSUME NEW at \in {"sent", "lost"}
            PROVE  Again(o, at).version <= server.version /\ Again(o, at).at # "ok"
        BY <2>1 DEF Again, Calls, CurrentCall
      <3> QED
        BY <2>0, <2>1, <3>1, <3>2, OrphanCases
    <2>3. /\ Settled(screen).text = screen.text
          /\ Settled(screen).version = screen.version
          /\ Settled(screen).dirty = screen.dirty
          /\ Settled(screen).hydrated = screen.hydrated
      BY <1>t, SettledType
    <2>4. ~page => put = NoCall /\ post = NoCall
      BY <1>t DEF RequestsAreCurrent
    <2>5. CASE UNCHANGED <<backup, cache, screen, get>>
      <3>1. ShownIsCurrent'
        BY <1>t, <2>1, <2>5, ShownStays DEF ServerMoves
      <3> QED
        BY <1>t, <2>1, <2>2, <2>5, <3>1, RequestsKeep DEF RequestsAreCurrent
    <2>6. CASE /\ o.at = "ok" /\ cache # None
               /\ Cache(Patched(o, cache.status), screen, backup)
               /\ UNCHANGED get
      <3>1. /\ Patched(o, cache.status) \in Details
            /\ Current(Patched(o, cache.status))
        BY <1>t, <2>1, <2>6, ReplyIsCurrent
      <3>2. ShownIsCurrent'
        BY <1>t, <2>1, <2>6, <3>1, CacheIsCurrent, PageConstants
           DEF ShownIsCurrent, SavedMeansSaved
      <3>3. cache' # None
        BY <2>6, <3>1, PageConstants DEF Cache
      <3> QED
        BY <1>t, <2>1, <2>2, <2>6, <3>2, <3>3, RequestsKeep DEF RequestsAreCurrent
    <2>7. CASE /\ backup' = [version |-> o.version + 1, text |-> o.text,
                             status |-> "draft"]
               /\ UNCHANGED <<cache, screen, get>>
      <3>1. ShownIsCurrent'
        BY <1>t, <2>1, <2>7, ShownStays DEF ServerMoves
      <3> QED
        BY <1>t, <2>1, <2>2, <2>7, <3>1, RequestsKeep DEF RequestsAreCurrent
    <2>8. CASE /\ o.at = "ok"
               /\ Cache(IF cache = None THEN None ELSE Patched(o, "submitted"),
                        IF page THEN Settled(screen) ELSE screen, None)
               /\ get' = IF page THEN Asked ELSE get
      <3> DEFINE d == IF cache = None THEN None ELSE Patched(o, "submitted")
                 s == IF page THEN Settled(screen) ELSE screen
      <3>1. Patched(o, "submitted") \in Details /\ Current(Patched(o, "submitted"))
        BY <1>t, <2>1, <2>8, ReplyIsCurrent
      <3>2. /\ d \in Details \cup {None} /\ (d # None => Current(d))
            /\ d = None <=> cache = None
        BY <3>1, PageConstants
      <3>3. /\ s \in Screens /\ s.text = screen.text /\ s.version = screen.version
            /\ s.dirty = screen.dirty /\ s.hydrated = screen.hydrated
            /\ ~page => s = Fresh
        BY <1>t, <2>3 DEF ShownIsCurrent
      <3>4. Cache(d, s, None)
        BY <2>8
      <3> HIDE DEF d, s
      <3>5. ShownIsCurrent'
        BY <1>t, <2>1, <3>2, <3>3, <3>4, CacheIsCurrent
           DEF ShownIsCurrent, SavedMeansSaved
      <3>6. cache' = None <=> cache = None
        BY <3>2, <3>4 DEF Cache
      <3> QED
        BY <1>t, <2>1, <2>2, <2>8, <3>5, <3>6, RequestsKeep DEF RequestsAreCurrent
    <2>9. CASE /\ backup' = IF o.at = "already" THEN None ELSE backup
               /\ get' = Asked /\ screen' = Settled(screen)
               /\ UNCHANGED cache
      <3>1. ShownIsCurrent'
        BY <1>t, <2>1, <2>3, <2>9 DEF ShownIsCurrent, SavedMeansSaved, Current
      <3> QED
        BY <1>t, <2>1, <2>2, <2>9, <3>1, RequestsKeep DEF RequestsAreCurrent
    <2> QED
      BY <2>0, <2>5, <2>6, <2>7, <2>8, <2>9, OrphanCases, Zenon
  <1> QED
    BY <1>1, <1>2, <1>3, <1>4, <1>5

LEMMA PageInvStep == PageInv /\ [PageNext]_pageVars => PageInv'
  <1> SUFFICES ASSUME PageInv, [PageNext]_pageVars PROVE PageInv'
    OBVIOUS
  <1>1. CASE PageNext
    <2>1. PageTypeOK'
      BY <1>1, PageTypeStep DEF PageInv
    <2> QED
      BY <1>1, <2>1, WorldKeeps, PageKeeps, CacheKeeps DEF PageNext, Proceed
  <1>2. CASE UNCHANGED pageVars
    BY <1>2 DEF pageVars, remote, browser, student, network, PageInv, PageTypeOK,
         VersionsAreCurrent, PageFollowsCache, SavedMeansSaved, Current, CurrentCall
  <1> QED
    BY <1>1, <1>2

\* Whatever the page, the cache, a reply or a request says of a version of the
\* response is true of it, and the page shows what the cache has.
THEOREM PageInvariant == PageSpec => []PageInv
  <1>1. PageInit => PageInv
    BY PageInvInit
  <1>2. PageInv /\ [PageNext]_pageVars => PageInv'
    BY PageInvStep
  <1> QED
    BY <1>1, <1>2, PTL DEF PageSpec

\* The page, its cache, its backup and its requests have the types of
\* useStudentCaseResolution.ts.
THEOREM PageTypeCorrect == PageSpec => []PageTypeOK
  <1>1. PageInv => PageTypeOK
    BY DEF PageInv
  <1> QED
    BY <1>1, PageInvariant, PTL

\* A page that says its text is saved is right, unless the response has gone on
\* without it (useStudentCaseResolution.ts, onSuccess of the autosave).
THEOREM SavedIsSaved == PageSpec => []SavedMeansSaved
  <1>1. PageInv => SavedMeansSaved
    BY DEF PageInv
  <1> QED
    BY <1>1, PageInvariant, PTL

\* Text that is not saved never waits for nothing: it can be sent, or its save
\* stands where it is answered, tried again or given up (flushDraft).
THEOREM AutosaveNeverStuck == PageSpec => []AutosaveGoesOn
  <1>1. PageInv => AutosaveGoesOn
    <2> SUFFICES ASSUME PageInv, page, screen.dirty, ~Told
                 PROVE  Editable /\ (put = NoCall \/ put.at \in {"sent", "ok"} \cup Refusals)
      BY DEF AutosaveGoesOn
    <2>1. cache # None
      BY DEF PageInv, PageFollowsCache
    <2>2. put = NoCall \/ put \in Calls
      BY DEF PageInv, PageTypeOK
    <2> QED
      BY <2>1, <2>2 DEF Editable, Told, Calls
  <1> QED
    BY <1>1, PageInvariant, PTL

-----------------------------------------------------------------------------
(* What the page relies on of its server *)

\* A request that is served is a step of VersionedDraft, or none.
LEMMA ServeIsPromised ==
    ASSUME PageTypeOK, NEW r \in Calls, ServeCall(r)
    PROVE  UNCHANGED server \/ Served!Next
  <1>1. CASE Answer(r) # "ok"
    BY <1>1 DEF ServeCall
  <1>2. CASE Answer(r) = "ok"
    <2>1. server.status = "draft" /\ r.version = server.version
      BY <1>2 DEF Answer, PageTypeOK, Details
    <2>2. r.text \in PageTexts
      BY CallFields
    <2>3. Response # None
      BY <2>1 DEF Response, None
    <2> DEFINE st == IF Submits(r) THEN "submitted" ELSE "draft"
    <2>4. server' = [version |-> server.version + 1, text |-> r.text, status |-> st]
      BY <1>2, <2>1 DEF ServeCall, Patched
    <2>5. Response' = [status |-> st, version |-> server.version + 1, answers |-> r.text]
      BY <2>4 DEF Response
    <2>6. CASE Submits(r)
      <3>1. Submissions' = Append(Submissions, r.text)
        BY <2>1, <2>4, <2>6 DEF Submissions
      <3> QED
        BY <2>1, <2>2, <2>3, <2>5, <2>6, <3>1 DEF Served!Next, Served!Submit, Response
    <2>7. CASE ~Submits(r)
      <3>1. UNCHANGED Submissions
        BY <2>1, <2>4, <2>7 DEF Submissions
      <3> QED
        BY <2>1, <2>2, <2>3, <2>5, <2>7, <3>1 DEF Served!Next, Served!Save, Response
    <2> QED
      BY <2>6, <2>7
  <1> QED
    BY <1>1, <1>2

LEMMA OtherIsPromised ==
    ASSUME PageTypeOK, OtherDevice
    PROVE  Served!Next
  <1>1. /\ server.status = "draft" /\ Response # None /\ Other \in PageTexts
        /\ Response.status = "draft" /\ Response.version = server.version
    BY PageConstants DEF OtherDevice, Response, None
  <1>2. PICK status \in {"draft", "submitted"} :
           server' = [version |-> server.version + 1, text |-> Other, status |-> status]
    BY DEF OtherDevice
  <1>3. Response' = [status |-> status, version |-> server.version + 1, answers |-> Other]
    BY <1>2 DEF Response
  <1>4. CASE status = "draft"
    BY <1>1, <1>2, <1>3, <1>4 DEF Submissions, Served!Next, Served!Save
  <1>5. CASE status = "submitted"
    <2>1. Submissions' = Append(Submissions, Other)
      BY <1>1, <1>2, <1>5 DEF Submissions
    <2> QED
      BY <1>1, <1>3, <1>5, <2>1 DEF Served!Next, Served!Submit
  <1> QED
    BY <1>4, <1>5

\* Every step the page sees its server make, whoever makes it, is one that
\* VersionedDraft allows, and so one StudentResponse implements: what is proved
\* of the page is proved of a page of that server.
THEOREM PageServerIsVersionedDraft == PageSpec => ServerKeepsPromise
  <1>1. PageInv /\ [PageNext]_pageVars => [Served!Next]_<<Response, Submissions>>
    <2> SUFFICES ASSUME PageInv, [PageNext]_pageVars
                 PROVE  UNCHANGED server \/ Served!Next
      BY DEF Response, Submissions
    <2>t. /\ PageTypeOK
          /\ \A r \in {put, post} \cup orphans : r.at = "sent" => r \in Calls
      BY PageConstants DEF PageInv, PageTypeOK
    <2>1. CASE OtherDevice
      BY <2>1, <2>t, OtherIsPromised
    <2>2. CASE ServePut \/ ServePost \/ \E o \in orphans : ServeOrphan(o)
      <3>1. PICK r \in {put, post} \cup orphans : ServeCall(r)
        BY <2>2, Zenon DEF ServePut, ServePost, ServeOrphan
      <3>2. r \in Calls
        BY <2>t, <3>1 DEF ServeCall
      <3> QED
        BY <2>t, <3>1, <3>2, ServeIsPromised
    <2>3. CASE UNCHANGED pageVars
      BY <2>3 DEF pageVars, remote
    <2>4. CASE \E o \in orphans : OrphanReturns(o)
      BY <2>4, OrphanCases
    <2> QED
      BY <2>1, <2>2, <2>3, <2>4
         DEF PageNext, Proceed, Open, Type, Submit, Reload, Leave, CloseBrowser,
             Collect, Deadline, Refetch, FetchFails, Lose, Flush, ServeGet, Fetched,
             SaveSucceeds, SaveFails, Retry, SubmitSucceeds, SubmitFails, remote
  <1> QED
    BY <1>1, PageInvariant, PTL DEF PageSpec, ServerKeepsPromise
=============================================================================
