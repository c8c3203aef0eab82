--------------------------- MODULE VersionedDraft ---------------------------
(***************************************************************************)
(* What the server promises of a student's response to a case: it is       *)
(* opened once, every accepted write takes it to the next version, and the *)
(* write that submits it is the last one and leaves exactly one snapshot,  *)
(* of what was submitted.                                                  *)
(*                                                                         *)
(*   draft        the response, NoRow until it is opened                   *)
(*   submissions  the append-only snapshots                                *)
(***************************************************************************)
EXTENDS Naturals, Sequences

CONSTANTS
    NoRow,   \* there is no response yet
    Blank,   \* the answers of a response nobody has written
    Answers  \* what a student may write

VARIABLES draft, submissions

Init == draft = NoRow /\ submissions = <<>>

Open ==
    /\ draft = NoRow
    /\ draft' = [status |-> "draft", version |-> 0, answers |-> Blank]
    /\ UNCHANGED submissions

Save(a) ==
    /\ draft # NoRow
    /\ draft.status = "draft"
    /\ draft' = [status |-> "draft", version |-> draft.version + 1, answers |-> a]
    /\ UNCHANGED submissions

Submit(a) ==
    /\ draft # NoRow
    /\ draft.status = "draft"
    /\ draft' = [status |-> "submitted", version |-> draft.version + 1,
                 answers |-> a]
    /\ submissions' = Append(submissions, a)

Next == Open \/ \E a \in Answers : Save(a) \/ Submit(a)

Spec == Init /\ [][Next]_<<draft, submissions>>

=============================================================================
