---------------------------- MODULE JobLifecycle ----------------------------
(***************************************************************************)
(* What an authoring job promises, whatever its deliveries and faults: a   *)
(* lock. One run at a time owns the job, only that run settles it, and the *)
(* artifacts are published by the settlement that completes it and never   *)
(* by another one.                                                         *)
(*                                                                         *)
(*   status     authoring_jobs.status                                      *)
(*   owner      the run that holds the job, NoRun when nobody does         *)
(*   published  whether the narrative artifact is published                *)
(***************************************************************************)
CONSTANTS Runs, NoRun

VARIABLES status, owner, published

vars == <<status, owner, published>>

Retryable == {"pending", "failed_resumable"}
Settled == {"completed", "failed", "failed_resumable"}

Init ==
    /\ status = "pending"
    /\ owner = NoRun
    /\ published = FALSE

Claim(r) ==
    /\ owner = NoRun
    /\ status \in Retryable
    /\ status' = "processing"
    /\ owner' = r
    /\ UNCHANGED published

\* A job that cannot be grounded in its syllabus fails without being claimed.
Reject ==
    /\ status \in Retryable
    /\ status' = "failed"
    /\ UNCHANGED <<owner, published>>

Settle(r) ==
    /\ owner = r
    /\ status' \in Settled
    /\ owner' = NoRun
    /\ published' = (status' = "completed")

Next == Reject \/ \E r \in Runs : Claim(r) \/ Settle(r)

Spec == Init /\ [][Next]_vars

=============================================================================
