---------------------------- MODULE AuthoringJob ----------------------------
(***************************************************************************)
(* The life of one authoring job: a row of authoring_jobs, the deliveries  *)
(* that ask a worker to run it, and the worker runs themselves             *)
(* (AuthoringService.run_job and the transactions it is made of).          *)
(*                                                                         *)
(*   status     authoring_jobs.status                                      *)
(*   retries    authoring_jobs.retry_count                                 *)
(*   pay        authoring_jobs.task_payload, cut down to the progress      *)
(*              fields (seq, step, last, boot) and to the intake form: its *)
(*              syllabus selection can be resolved, cannot, or it is lost  *)
(*   manifest   artifact_manifests.status of the two kinds of artifact     *)
(*   blob       the run whose text the deterministic storage path holds    *)
(*   output     assignments.blueprint and assignments.canonical_output     *)
(*   ckpt       the durable LangGraph checkpoint of thread_id = job_id     *)
(*   pc         where each run stands; "idle" is a delivery not made yet   *)
(*   loc        the run's local variables, dropped where they are last     *)
(*              used: was, read (the row as micro-session 1 read it), pos  *)
(*              (the next flow of its graph stream), rep, cur              *)
(*              (last_reported_step, the step being persisted), err        *)
(*              (error_code), tries (attempts of the loop it is in)        *)
(*                                                                         *)
(* A transaction is one action: at READ COMMITTED a conditional UPDATE     *)
(* waits for the row lock and tests its WHERE again, so the claim is       *)
(* atomic; the read before it is a step of its own.                        *)
(***************************************************************************)
EXTENDS Naturals, FiniteSets

CONSTANTS
    Runs,         \* the deliveries of the job a behaviour may contain
    NFlows,       \* the flows of the master graph, in order
    MaxAttempts,  \* max_attempts of the two bounded retry loops
    Faults,       \* which faults of the environment may happen
    Dispatch      \* AUTHORING_DISPATCH

ASSUME FlowsAssumption == NFlows \in Nat \ {0}
ASSUME AttemptsAssumption == MaxAttempts \in Nat \ {0}
ASSUME FaultsAssumption == Faults \subseteq {"crash", "dbError", "lostCommit"}
ASSUME ModeAssumption == Dispatch \in {"inline", "cloud_tasks"}

VARIABLES status, retries, pay, manifest, blob, output, ckpt,
          pc, loc

row == <<status, retries, pay>>
artifacts == <<manifest, blob, output>>
vars == <<row, artifacts, ckpt, pc, loc>>

-----------------------------------------------------------------------------
(* The row and what is derived from it *)

Status == {"pending", "processing", "completed", "failed", "failed_resumable"}
Retryable == {"pending", "failed_resumable"}

Steps == 1 .. NFlows
NoStep == 0
FailedStep == NFlows + 1
DoneStep == NFlows + 2
FirstStep == 1

Payload == [seq: Nat, step: 0 .. NFlows + 2, last: 0 .. NFlows,
            boot: BOOLEAN, intake: {"grounded", "ungrounded", "lost"}]

\* _resolve_job_grounding_snapshot raises: no snapshot holds the selection.
Ungrounded(p) == p.intake = "ungrounded"

Kinds == {"narrative_text", "eda_report"}
NoRun == "none"

ASSUME RunsAssumption == NoRun \notin Runs

Resumable == {"bootstrap_timeout", "checkpoint_unavailable", "llm_timeout",
              "llm_provider_unavailable", "llm_rate_limited"}
Fatal == {"llm_unhandled_error", "m3_notebook_unsafe_code"}

\* Mutant: a transient failure goes back to the queue's initial status.
ClassifyRequeued(e) == IF e \in Resumable THEN "pending" ELSE "failed"

ClassifyFailure(e) == IF e \in Resumable THEN "failed_resumable" ELSE "failed"

\* _next_progress_payload over an existing payload.
NextPayload(p, s) == [p EXCEPT !.seq = @ + 1, !.step = s]

\* _next_progress_payload(None, ...): nothing of the old payload is kept.
FreshPayload(s) ==
    [seq |-> 1, step |-> s, last |-> NoStep, boot |-> FALSE, intake |-> "lost"]

\* Mutant: the current step is taken as it is, a terminal one included.
ResumeStepRaw(p) == p.step

\* _processing_resume_step: current_step if canonical, else last_known_step.
ResumeStep(p) == IF p.step \in Steps THEN p.step ELSE p.last

\* The payload a claim writes, computed from the row the run READ.
ProcessingPayload(p) == [NextPayload(p, ResumeStep(p)) EXCEPT !.boot = TRUE]

\* The payload of a recorded failure, _remember_last_canonical_step included.
FailurePayload(p) ==
    [NextPayload(p, FailedStep) EXCEPT
        !.last = IF p.step \in Steps THEN p.step ELSE @, !.boot = FALSE]

Unvalidated == {k \in Kinds : manifest[k] = "unvalidated"}

\* publish_job_artifacts / orphan_job_artifacts: only unvalidated rows move.
MoveUnvalidated(to) ==
    manifest' = [k \in Kinds |-> IF k \in Unvalidated THEN to ELSE manifest[k]]

-----------------------------------------------------------------------------
(* Control states of a run *)

\* The run has claimed the row and not yet committed its end.
Working == {"prefetch", "bootstrap", "streaming", "persisting", "degrading",
            "preview", "failing", "finalizing", "savingEda", "completing"}
\* The run is in the finalization error path, or will never take a step again.
Ending == {"forcing", "exhausted", "stranded", "crashed"}
Waiting == {"idle", "queued", "entered", "claiming", "groundingFailed"}
Over == {"cleanup", "done"}
Control == Working \cup Ending \cup Waiting \cup Over

NewPayload == [seq |-> 0, step |-> NoStep, last |-> NoStep,
               boot |-> FALSE, intake |-> "grounded"]
Locals == [was: Retryable, read: Payload, pos: 0 .. NFlows + 1,
           rep: 0 .. NFlows, cur: 0 .. NFlows,
           err: Resumable \cup Fatal \cup {"none"}, tries: 0 .. MaxAttempts]
NoLocals == [was |-> "pending", read |-> NewPayload, pos |-> 0,
             rep |-> NoStep, cur |-> NoStep, err |-> "none", tries |-> 0]

Goto(r, l) == pc' = [pc EXCEPT ![r] = l]
\* The run moves on and its locals are not read again.
Leave(r, l) == /\ Goto(r, l)
               /\ loc' = [loc EXCEPT ![r] = NoLocals]
FailWith(r, e) == /\ Goto(r, "failing")
                  /\ loc' = [loc EXCEPT ![r] = [NoLocals EXCEPT !.err = e]]

Init ==
    /\ status = "pending"
    /\ retries = 0
    /\ pay \in {NewPayload, [NewPayload EXCEPT !.intake = "ungrounded"]}
    /\ manifest = [k \in Kinds |-> "absent"]
    /\ blob = [k \in Kinds |-> NoRun]
    /\ output = [blueprint |-> NoRun, canonical |-> "none"]
    /\ ckpt = [done |-> 0, agent |-> NoStep]
    /\ pc = [r \in Runs |-> "idle"]
    /\ loc = [r \in Runs |-> NoLocals]

-----------------------------------------------------------------------------
(* Deliveries: the intake and retry endpoints, and Cloud Tasks *)

\* create_authoring_job and retry_authoring_job dispatch only a retryable job.
DispatchJob(r) ==
    /\ pc[r] = "idle"
    /\ status \in Retryable
    /\ Goto(r, "queued")
    /\ UNCHANGED <<row, artifacts, ckpt, loc>>

\* Cloud Tasks delivers at least once: any earlier delivery may come again.
Redeliver(r) ==
    /\ Dispatch = "cloud_tasks"
    /\ pc[r] = "idle"
    /\ \E q \in Runs : pc[q] # "idle"
    /\ Goto(r, "queued")
    /\ UNCHANGED <<row, artifacts, ckpt, loc>>

\* process_authoring_job_task reads the status in its own session and lets
\* only a retryable job through; BackgroundTasks calls run_job directly.
Deliver(r) ==
    /\ pc[r] = "queued"
    /\ Goto(r, IF Dispatch = "inline" \/ status \in Retryable
               THEN "entered" ELSE "done")
    /\ UNCHANGED <<row, artifacts, ckpt, loc>>

-----------------------------------------------------------------------------
(* Micro-session 1: read the row, then claim it *)

ReadJob(r) ==
    /\ pc[r] = "entered"
    /\ IF status \in Retryable
       THEN /\ loc' = [loc EXCEPT ![r].was = status, ![r].read = pay]
            /\ Goto(r, "claiming")
       ELSE Leave(r, "done")
    /\ UNCHANGED <<row, artifacts, ckpt>>

\* Mutant: the UPDATE claims the row whatever its status.
ClaimableAlways == TRUE

\* UPDATE ... WHERE status IN (retryable), and the effect of a won claim.
Claimable == status \in Retryable

TakeJob(r) ==
    /\ status' = "processing"
    /\ retries' = retries + 1
    /\ pay' = ProcessingPayload(loc[r].read)

\* last_reported_step: the claimed payload's step, or the first one.
Reported(p) == IF ResumeStep(p) = NoStep THEN FirstStep ELSE ResumeStep(p)

Claim(r) ==
    /\ pc[r] = "claiming"
    /\ Claimable
    /\ ~Ungrounded(loc[r].read)
    /\ \/ /\ TakeJob(r)
          /\ loc' = [loc EXCEPT ![r] =
                        [NoLocals EXCEPT !.rep = Reported(loc[r].read)]]
          /\ Goto(r, IF loc[r].was = "failed_resumable"
                     THEN "prefetch" ELSE "bootstrap")
       \* The claim fails before its commit: the run logs it and returns.
       \/ /\ "dbError" \in Faults
          /\ Leave(r, "done")
          /\ UNCHANGED row
       \* The commit is applied and its answer lost: the run returns too.
       \/ /\ "lostCommit" \in Faults
          /\ TakeJob(r)
          /\ Leave(r, "stranded")
    /\ UNCHANGED <<artifacts, ckpt>>

LoseClaim(r) ==
    /\ pc[r] = "claiming"
    /\ ~Claimable
    /\ Leave(r, "done")
    /\ UNCHANGED <<row, artifacts, ckpt>>

\* The syllabus snapshot cannot be resolved: the claim is rolled back first
\* and the failure is written by a later transaction with no condition.
ClaimWithoutGrounding(r) ==
    /\ pc[r] = "claiming"
    /\ Claimable
    /\ Ungrounded(loc[r].read)
    /\ Goto(r, "groundingFailed")
    /\ UNCHANGED <<row, artifacts, ckpt, loc>>

FailGrounding(r) ==
    /\ pc[r] = "groundingFailed"
    /\ \/ /\ status' = "failed"
          /\ pay' = NextPayload(ProcessingPayload(loc[r].read), FailedStep)
          /\ UNCHANGED retries
       \/ /\ "dbError" \in Faults
          /\ UNCHANGED row
    /\ Leave(r, "done")
    /\ UNCHANGED <<artifacts, ckpt>>

\* prefetch_resume_artifacts: best effort, and read by no other step here:
\* what it can find is the subject of the property PrefetchFindsNothing.
Prefetch(r) ==
    /\ pc[r] = "prefetch"
    /\ Goto(r, "bootstrap")
    /\ UNCHANGED <<row, artifacts, ckpt, loc>>

-----------------------------------------------------------------------------
(* The graph: bootstrap, then the stream of top-level values *)

\* asyncio.wait_for(get_graph()); the clean room that follows a failure works
\* on the process's pools, not on this job.
Bootstrap(r) ==
    /\ pc[r] = "bootstrap"
    /\ \/ /\ Goto(r, "streaming")
          /\ UNCHANGED loc
       \/ \E e \in {"bootstrap_timeout", "checkpoint_unavailable"} : FailWith(r, e)
    /\ UNCHANGED <<row, artifacts, ckpt>>

\* astream(state_input) restarts the master graph at START over the channels
\* of the checkpoint: the first value carries the agent stored there, then
\* every flow passes again, run or skipped, and writes its agent.
StreamEvent(r) ==
    LET pos == loc[r].pos
        step == IF pos = 0 THEN ckpt.agent ELSE pos
        new == step # NoStep /\ step # loc[r].rep
    IN  /\ pc[r] = "streaming"
        /\ pos <= NFlows
        /\ ckpt' = IF pos = 0 THEN ckpt
                   ELSE [done |-> IF ckpt.done < pos THEN pos ELSE ckpt.done,
                         agent |-> pos]
        /\ loc' = [loc EXCEPT ![r].pos = pos + 1,
                              ![r].cur = IF new THEN step ELSE NoStep]
        /\ Goto(r, IF new THEN "persisting" ELSE "streaming")
        /\ UNCHANGED <<row, artifacts>>

EndStream(r) ==
    /\ pc[r] = "streaming"
    /\ loc[r].pos = NFlows + 1
    /\ Leave(r, "finalizing")
    /\ UNCHANGED <<row, artifacts, ckpt>>

\* The stream raises, or wait_for's 1900 s expire; while a failed write of
\* progress backs off only the timeout can strike.
GraphRaises(r) ==
    /\ \/ /\ pc[r] = "streaming"
          /\ \E e \in (Resumable \cup Fatal) \ {"bootstrap_timeout"} : FailWith(r, e)
       \/ /\ pc[r] = "persisting"
          /\ loc[r].tries > 0
          /\ FailWith(r, "llm_timeout")
    /\ UNCHANGED <<row, artifacts, ckpt>>

\* The next attempt of a bounded retry loop, or what follows the last one.
Retry(r, exhausted) ==
    IF loc[r].tries + 1 < MaxAttempts
    THEN /\ loc' = [loc EXCEPT ![r].tries = @ + 1]
         /\ UNCHANGED pc
    ELSE /\ loc' = [loc EXCEPT ![r].tries = 0, ![r].cur = NoStep]
         /\ Goto(r, exhausted)

\* _persist_intermediate_progress_step, one attempt.
PersistStep(r) ==
    LET written == [NextPayload(pay, loc[r].cur) EXCEPT !.boot = FALSE]
    IN  /\ pc[r] = "persisting"
        /\ \/ /\ pay' = written
              /\ loc' = [loc EXCEPT ![r].rep = loc[r].cur, ![r].cur = NoStep,
                                    ![r].tries = 0]
              /\ Goto(r, "preview")
           \/ /\ "dbError" \in Faults
              /\ Retry(r, "degrading")
              /\ UNCHANGED pay
           \/ /\ "lostCommit" \in Faults
              /\ Retry(r, "degrading")
              /\ pay' = written
        /\ UNCHANGED <<status, retries, artifacts, ckpt>>

\* _persist_progress_degradation: marks the payload or, best effort, does not.
DegradeProgress(r) ==
    /\ pc[r] = "degrading"
    /\ pay' \in {pay, [NextPayload(pay, IF pay.step = NoStep THEN FirstStep
                                        ELSE pay.step) EXCEPT !.boot = FALSE]}
    /\ Goto(r, "preview")
    /\ UNCHANGED <<status, retries, artifacts, ckpt, loc>>

\* _persist_partial_preview: an UPDATE with no condition, or nothing.
PersistPreview(r) ==
    /\ pc[r] = "preview"
    /\ \E c \in {output.canonical, "partial"} :
          output' = [output EXCEPT !.canonical = c]
    /\ Goto(r, "streaming")
    /\ UNCHANGED <<row, manifest, blob, ckpt, loc>>

-----------------------------------------------------------------------------
(* Micro-session 2: persist the outcome *)

SettleFailed(r) ==
    LET outcome == ClassifyFailure(loc[r].err)
    IN  /\ status' = outcome
        /\ pay' = FailurePayload(pay)
        /\ IF outcome = "failed" THEN MoveUnvalidated("orphaned")
           ELSE UNCHANGED manifest

\* Mutant: a failed write of the failure is not followed by another one.
RecordFailureOnce(r) ==
    /\ pc[r] = "failing"
    /\ SettleFailed(r) \/ UNCHANGED <<status, pay, manifest>>
    /\ Leave(r, "done")
    /\ UNCHANGED <<retries, blob, output, ckpt>>

\* "forcing" is the except branch of micro-session 2: _force_job_failed.
RecordFailure(r) ==
    /\ pc[r] = "failing"
    /\ \/ /\ SettleFailed(r)
          /\ Leave(r, "done")
       \/ /\ "dbError" \in Faults
          /\ Leave(r, "forcing")
          /\ UNCHANGED <<status, pay, manifest>>
       \/ /\ "lostCommit" \in Faults
          /\ SettleFailed(r)
          /\ Leave(r, "forcing")
    /\ UNCHANGED <<retries, blob, output, ckpt>>

\* save_artifact: upload to the deterministic path, then upsert and commit.
\* An empty narrative or a failed upload raises before anything is stored.
SaveArtifact(r, k, next) ==
    \/ /\ blob' = [blob EXCEPT ![k] = r]
       /\ manifest' = [manifest EXCEPT ![k] = "unvalidated"]
       /\ Goto(r, next) \/ ("lostCommit" \in Faults /\ Goto(r, "forcing"))
    \/ /\ Goto(r, "forcing")
       /\ UNCHANGED blob \/ ("dbError" \in Faults /\ blob' = [blob EXCEPT ![k] = r])
       /\ UNCHANGED manifest

SaveNarrative(r) ==
    /\ pc[r] = "finalizing"
    /\ SaveArtifact(r, "narrative_text", "savingEda")
    /\ UNCHANGED <<row, output, ckpt, loc>>

\* The EDA report is saved only when the graph produced a useful one.
SaveEda(r) ==
    /\ pc[r] = "savingEda"
    /\ \/ SaveArtifact(r, "eda_report", "completing")
       \/ /\ Goto(r, "completing")
          /\ UNCHANGED <<manifest, blob>>
    /\ UNCHANGED <<row, output, ckpt, loc>>

\* Mutant: publish_job_artifacts is not called.
SettleUnpublished(r) ==
    /\ status' = "completed"
    /\ pay' = [NextPayload(pay, DoneStep) EXCEPT !.boot = FALSE]
    /\ output' = [blueprint |-> r, canonical |-> "final"]
    /\ UNCHANGED manifest

\* Blueprint, canonical output, status and publish_job_artifacts commit at once.
SettleCompleted(r) ==
    /\ status' = "completed"
    /\ pay' = [NextPayload(pay, DoneStep) EXCEPT !.boot = FALSE]
    /\ output' = [blueprint |-> r, canonical |-> "final"]
    /\ MoveUnvalidated("published_v5")

Complete(r) ==
    /\ pc[r] = "completing"
    /\ \/ /\ SettleCompleted(r)
          /\ Goto(r, "done")
       \* Building the blueprint or the adapter raises, or the commit fails.
       \/ /\ Goto(r, "forcing")
          /\ UNCHANGED <<status, pay, manifest, output>>
       \/ /\ "lostCommit" \in Faults
          /\ SettleCompleted(r)
          /\ Goto(r, "forcing")
    /\ UNCHANGED <<retries, blob, ckpt, loc>>

\* The one UPDATE of _force_job_failed: only a row still processing is flipped.
Flip ==
    IF status = "processing"
    THEN /\ status' = "failed"
         /\ pay' = FreshPayload(FailedStep)
    ELSE UNCHANGED <<status, pay>>

ForceFail(r) ==
    /\ pc[r] = "forcing"
    /\ \/ /\ Flip
          /\ Leave(r, "cleanup")
       \/ /\ "dbError" \in Faults
          /\ Retry(r, "exhausted")
          /\ UNCHANGED <<status, pay>>
       \/ /\ "lostCommit" \in Faults
          /\ Flip
          /\ Retry(r, "exhausted")
    /\ UNCHANGED <<retries, artifacts, ckpt>>

\* Best effort, in a session of its own, after the status is safe.
OrphanArtifacts(r) ==
    /\ pc[r] = "cleanup"
    /\ MoveUnvalidated("orphaned") \/ ("dbError" \in Faults /\ UNCHANGED manifest)
    /\ Goto(r, "done")
    /\ UNCHANGED <<row, blob, output, ckpt, loc>>

-----------------------------------------------------------------------------
(* The worker process goes away: a cancelled task is not caught either, and
   an inline delivery still in memory is lost with its process. *)
Crash(r) ==
    /\ "crash" \in Faults
    /\ \/ /\ pc[r] \in Working \cup {"forcing"}
          /\ Leave(r, "crashed")
       \/ /\ pc[r] \in {"entered", "claiming", "groundingFailed", "cleanup"}
          /\ Leave(r, "done")
       \/ /\ Dispatch = "inline"
          /\ pc[r] = "queued"
          /\ Leave(r, "done")
    /\ UNCHANGED <<row, artifacts, ckpt>>

Worker(r) ==
    \/ Deliver(r) \/ ReadJob(r)
    \/ Claim(r) \/ LoseClaim(r)
    \/ ClaimWithoutGrounding(r) \/ FailGrounding(r)
    \/ Prefetch(r) \/ Bootstrap(r)
    \/ StreamEvent(r) \/ EndStream(r) \/ GraphRaises(r)
    \/ PersistStep(r) \/ DegradeProgress(r) \/ PersistPreview(r)
    \/ RecordFailure(r)
    \/ SaveNarrative(r) \/ SaveEda(r) \/ Complete(r)
    \/ ForceFail(r) \/ OrphanArtifacts(r)

Next == \E r \in Runs : DispatchJob(r) \/ Redeliver(r) \/ Crash(r) \/ Worker(r)

Spec == Init /\ [][Next]_vars

\* A worker keeps running its coroutine; nobody has to deliver, retry or crash.
FairSpec == Spec /\ \A r \in Runs : WF_vars(Worker(r))

-----------------------------------------------------------------------------
(* Properties *)

TypeOK ==
    /\ status \in Status
    /\ retries \in Nat
    /\ pay \in Payload
    /\ manifest \in [Kinds -> {"absent", "unvalidated", "published_v5", "orphaned"}]
    /\ blob \in [Kinds -> Runs \cup {NoRun}]
    /\ output \in [blueprint: Runs \cup {NoRun},
                   canonical: {"none", "partial", "final"}]
    /\ ckpt \in [done: 0 .. NFlows, agent: 0 .. NFlows]
    /\ pc \in [Runs -> Control]
    /\ loc \in [Runs -> Locals]

\* A run that owns the row, alive or lost.
Owns(r) == pc[r] \in Working \cup Ending

\* Winner takes the lock: two runs never work for the job at the same time,
\* whatever the duplicates, retries and crashes, and the row says processing
\* exactly while one of them owns it (the CAS of run_job, authoring.py:931).
SingleOwner ==
    /\ \A r, q \in Runs : Owns(r) /\ Owns(q) => r = q
    /\ (\E r \in Runs : Owns(r)) <=> status = "processing"

\* A completed job is a published one: its narrative is published, it is the
\* text at the deterministic path, it came from the run whose blueprint and
\* final canonical output the assignment holds, and no manifest is left behind
\* (micro-session 2, authoring.py:1417-1480).
CompletedIsPublished ==
    status = "completed" =>
        /\ output.blueprint # NoRun
        /\ output.canonical = "final"
        /\ manifest["narrative_text"] = "published_v5"
        /\ Unvalidated = {}
        /\ \A k \in Kinds :
              manifest[k] = "published_v5" => blob[k] = output.blueprint

\* Nothing is published for a job that has not completed, however far the
\* finalization of any of its runs went (save_artifact commits on its own).
OnlyCompletedPublishes ==
    status # "completed" =>
        /\ output.blueprint = NoRun
        /\ output.canonical # "final"
        /\ \A k \in Kinds : manifest[k] # "published_v5"

\* What a resume can hydrate from artifacts: nothing. Artifacts are saved after
\* the last failure that is classified resumable, so a resumed run works from
\* the checkpoint alone (prefetch_resume_artifacts, artifact_manager.py:132).
PrefetchFindsNothing ==
    \/ status = "failed_resumable"
    \/ \E r \in Runs : pc[r] = "prefetch"
    => \A k \in Kinds : manifest[k] \notin {"unvalidated", "published_v5"}

\* A job that may still run keeps its intake form in task_payload, the only
\* copy of what the teacher asked for (run_job rebuilds state_input from it).
RunnableKeepsIntake == status \in Retryable \cup {"processing"} => pay.intake # "lost"

\* The row a teacher polls after the run is over: a settled payload names the
\* outcome and no longer says the bootstrap is in progress.
SettledPayload ==
    /\ status = "completed" => pay.step = DoneStep /\ ~pay.boot /\ pay.intake # "lost"
    /\ status = "failed_resumable" => pay.step = FailedStep /\ ~pay.boot

\* Why the artifacts are safe: nothing is stored for a job that may still be
\* claimed, nor by its owner before the graph is over; after that what is
\* stored and unvalidated is the owner's own, and the cleanup that orphans it
\* finds a failed job (micro-session 2 comes last).
ArtifactsFollowOwner ==
    /\ \/ status \in Retryable
       \/ \E r \in Runs : pc[r] \in Working \ {"savingEda", "completing"}
       => \A k \in Kinds : manifest[k] = "absent"
    /\ \A r \in Runs : pc[r] \in {"savingEda", "completing"} =>
          /\ manifest["narrative_text"] = "unvalidated"
          /\ blob["narrative_text"] = r
          /\ \/ manifest["eda_report"] = "absent"
             \/ /\ pc[r] = "completing"
                /\ manifest["eda_report"] = "unvalidated"
                /\ blob["eda_report"] = r
    /\ \A r \in Runs : pc[r] = "cleanup" => status = "failed"

\* A job that cannot be grounded is never claimed, and what a run is about to
\* claim with still holds the intake form (run_job, micro-session 1).
ClaimsAreGrounded ==
    /\ Ungrounded(pay) => status \in {"pending", "failed"}
    /\ \A r \in Runs : pc[r] = "claiming" =>
          /\ loc[r].read.intake # "lost"
          /\ Ungrounded(loc[r].read) <=> Ungrounded(pay)
    /\ \A r \in Runs : pc[r] = "groundingFailed" =>
          Ungrounded(pay) /\ Ungrounded(loc[r].read)

\* The inductive invariant of the job, while no commit is lost after it was
\* applied: the safety invariants above and the two facts they rest on.
JobInv ==
    /\ TypeOK
    /\ SingleOwner
    /\ ClaimsAreGrounded
    /\ RunnableKeepsIntake
    /\ ArtifactsFollowOwner
    /\ CompletedIsPublished
    /\ OnlyCompletedPublishes
    /\ SettledPayload

\* Completed and failed are final: no late delivery, stale claim, delayed
\* failure write or forced failure moves a job out of them.
TerminalStatusFinal ==
    [][(status \in {"completed", "failed"}) => status' = status]_vars

\* The run that owns the row, if any.
Owner == IF \E r \in Runs : Owns(r) THEN CHOOSE r \in Runs : Owns(r) ELSE NoRun

Lifecycle == INSTANCE JobLifecycle
    WITH owner <- Owner,
         published <- manifest["narrative_text"] = "published_v5"

\* The job implements its lock: every step claims, settles, rejects or
\* changes nothing of what the lock promises.
ImplementsLifecycle == Lifecycle!Spec

\* A claimed job settles, unless the process that owned it is gone or every
\* emergency write failed: there is no other way to stay in processing.
ClaimedJobSettles ==
    status = "processing" ~>
        \/ status # "processing"
        \/ \E r \in Runs : pc[r] \in {"crashed", "exhausted", "stranded"}

\* Why ClaimedJobSettles: a run that was delivered comes to its end by itself.
\* The steps it has left, at most, from where it stands (l) and its locals (s):
\* a value of the stream takes one to read, MaxAttempts to write and at most
\* two to degrade and preview; the end takes Ends, its retries included.
Round == MaxAttempts + 4
RoundsLeft(pos) == (NFlows + 1 - pos) * Round
Ends == MaxAttempts + 2
Before == [queued |-> 5, entered |-> 4, claiming |-> 3, prefetch |-> 2,
           bootstrap |-> 1]
After == [finalizing |-> 3, savingEda |-> 2, completing |-> 1, failing |-> 1]
StepsFrom(l, s) ==
    CASE l \in DOMAIN Before -> Ends + 4 + RoundsLeft(0) + Before[l]
      [] l = "streaming" -> Ends + 4 + RoundsLeft(s.pos)
      [] l = "preview" -> Ends + 5 + RoundsLeft(s.pos)
      [] l = "degrading" -> Ends + 6 + RoundsLeft(s.pos)
      [] l = "persisting" -> Ends + 7 + RoundsLeft(s.pos) + MaxAttempts - s.tries
      [] l \in DOMAIN After -> Ends + After[l]
      [] l = "forcing" -> Ends - s.tries
      [] l \in {"cleanup", "groundingFailed"} -> 1
      [] OTHER -> 0
WorkLeft(r) == StepsFrom(pc[r], loc[r])

\* They are fewer after each step of the run, and once the run is delivered
\* nothing adds to them: no retry, degradation, fault or other run keeps it
\* going (the bounded loops of run_job, max_attempts and one pass of astream).
RunsFinish ==
    [][\A r \in Runs :
         /\ Worker(r) => WorkLeft(r) \in Nat /\ WorkLeft(r)' < WorkLeft(r)
         /\ pc[r] # "idle" => WorkLeft(r)' <= WorkLeft(r)]_vars

\* What no fault takes away, a commit whose answer is lost included. At most one
\* run works for the job, on a row that says processing or that the emergency
\* write of an earlier run has failed under it (_force_job_failed, which tests
\* the status and not the claim).
OneWorker ==
    \A r \in Runs : pc[r] \in Working =>
        /\ \A q \in Runs : pc[q] \in Working => q = r
        /\ status \in {"processing", "failed"}

\* A completed job has the blueprint, the canonical output and the payload of
\* its completion, leaves no artifact behind, and what it has published is of
\* the run that completed it.
CompletedHasOutput ==
    status = "completed" =>
        /\ output.blueprint # NoRun /\ output.canonical = "final"
        /\ pay.step = DoneStep /\ ~pay.boot
        /\ Unvalidated = {}
        /\ \A k \in Kinds :
              manifest[k] = "published_v5" => blob[k] = output.blueprint

\* Nothing is stored for a job that may be claimed, nor before its worker has
\* its output; from then on what is stored is the worker's own, though the
\* clean-up of an earlier run may orphan it.
ArtifactsFollowWorker ==
    /\ \/ status \in Retryable
       \/ \E r \in Runs : pc[r] \in Working \ {"savingEda", "completing"}
       => \A k \in Kinds : manifest[k] = "absent"
    /\ \A r \in Runs : pc[r] \in {"savingEda", "completing"} =>
          \A k \in Kinds : manifest[k] # "absent" => blob[k] = r

\* A job that cannot be grounded is not worked for, whoever has read it.
UngroundedIsIdle ==
    /\ Ungrounded(pay) => /\ status \in {"pending", "failed"}
                          /\ \A r \in Runs : ~Owns(r)
    /\ \A r \in Runs :
          /\ pc[r] = "claiming" => (Ungrounded(loc[r].read) <=> Ungrounded(pay))
          /\ pc[r] = "groundingFailed" =>
                Ungrounded(pay) /\ Ungrounded(loc[r].read)

\* The inductive invariant of the job under every fault.
FaultInv ==
    /\ TypeOK
    /\ OneWorker
    /\ UngroundedIsIdle
    /\ ArtifactsFollowWorker
    /\ CompletedHasOutput
    /\ OnlyCompletedPublishes

\* Completed is final under every fault; failed is not, when the run that the
\* emergency write has failed goes on and ends well.
CompletedIsFinal ==
    [][status = "completed" => status' = status /\ output' = output]_vars

=============================================================================
