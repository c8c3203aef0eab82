------------------------ MODULE AuthoringJob_proofs ------------------------
(***************************************************************************)
(* Proofs about AuthoringJob, for every number of deliveries, flows and    *)
(* attempts. Type correctness, the lock and the artifacts so far as no     *)
(* fault harms them (FaultInv), and that a run comes to its end by itself, *)
(* hold under every fault. The rest is proved under the assumption that no *)
(* commit is applied with its answer lost (NoLostCommit): with such a      *)
(* commit the emergency write of one run can end the claim of another, and *)
(* SingleOwner is false.                                                   *)
(***************************************************************************)
EXTENDS AuthoringJob, TLAPS

USE FlowsAssumption, AttemptsAssumption, RunsAssumption

-----------------------------------------------------------------------------
(* Payloads and control states *)

\* What a payload operator writes is a payload (_next_progress_payload).
LEMMA NextPayloadType ==
    ASSUME NEW p \in Payload, NEW s \in 0 .. NFlows + 2
    PROVE  NextPayload(p, s) \in Payload
  <1>1. p.seq + 1 \in Nat
    BY DEF Payload
  <1> QED
    BY <1>1, Zenon DEF NextPayload, Payload

LEMMA FreshPayloadType ==
    ASSUME NEW s \in 0 .. NFlows + 2
    PROVE  FreshPayload(s) \in Payload
  BY DEF FreshPayload, Payload, NoStep

\* The step a claim resumes from is a canonical one or none, never a terminal
\* one (_processing_resume_step).
LEMMA ResumeStepType ==
    ASSUME NEW p \in Payload
    PROVE  ResumeStep(p) \in 0 .. NFlows
  BY DEF ResumeStep, Payload, Steps

LEMMA ProcessingPayloadType ==
    ASSUME NEW p \in Payload
    PROVE  ProcessingPayload(p) \in Payload
  <1>1. ResumeStep(p) \in 0 .. NFlows
    BY ResumeStepType
  <1>2. NextPayload(p, ResumeStep(p)) \in Payload
    BY <1>1, NextPayloadType
  <1> QED
    BY <1>2 DEF ProcessingPayload, Payload

LEMMA FailurePayloadType ==
    ASSUME NEW p \in Payload
    PROVE  FailurePayload(p) \in Payload
  <1>1. NextPayload(p, FailedStep) \in Payload
    BY NextPayloadType DEF FailedStep
  <1>2. (IF p.step \in Steps THEN p.step ELSE NextPayload(p, FailedStep).last)
           \in 0 .. NFlows
    BY <1>1 DEF Payload, Steps
  <1> QED
    BY <1>1, <1>2, Zenon DEF FailurePayload, Payload

\* The five sets of control states are disjoint where it matters.
LEMMA ControlSets ==
    /\ (Working \cup Ending) \cap (Waiting \cup Over) = {}
    /\ Working \cap Ending = {}
  BY DEF Working, Ending, Waiting, Over

LEMMA NoLocalsType == NoLocals \in Locals
  BY DEF NoLocals, Locals, NewPayload, Payload, NoStep, Retryable

\* Moving a run keeps the functions pc and loc well typed.
LEMMA LeaveType ==
    ASSUME NEW r \in Runs, NEW l \in Control, Leave(r, l),
           pc \in [Runs -> Control], loc \in [Runs -> Locals]
    PROVE  pc' \in [Runs -> Control] /\ loc' \in [Runs -> Locals]
  BY NoLocalsType DEF Leave, Goto

LEMMA FailWithType ==
    ASSUME NEW r \in Runs, NEW e \in Resumable \cup Fatal, FailWith(r, e),
           pc \in [Runs -> Control], loc \in [Runs -> Locals]
    PROVE  pc' \in [Runs -> Control] /\ loc' \in [Runs -> Locals]
  <1>1. [NoLocals EXCEPT !.err = e] \in Locals
    BY NoLocalsType DEF Locals
  <1> QED
    BY <1>1 DEF FailWith, Goto, Control, Working

LEMMA RetryType ==
    ASSUME NEW r \in Runs, NEW l \in Control, Retry(r, l),
           pc \in [Runs -> Control], loc \in [Runs -> Locals]
    PROVE  pc' \in [Runs -> Control] /\ loc' \in [Runs -> Locals]
  <1>1. CASE loc[r].tries + 1 < MaxAttempts
    <2>1. [loc[r] EXCEPT !.tries = @ + 1] \in Locals
      BY <1>1 DEF Locals
    <2> QED
      BY <1>1, <2>1 DEF Retry
  <1>2. CASE ~(loc[r].tries + 1 < MaxAttempts)
    <2>1. 0 \in 0 .. MaxAttempts /\ NoStep \in 0 .. NFlows
      BY DEF NoStep
    <2>2. [loc[r] EXCEPT !.tries = 0, !.cur = NoStep] \in Locals
      BY <2>1, Zenon DEF Locals
    <2> QED
      BY <1>2, <2>2 DEF Retry, Goto
  <1> QED
    BY <1>1, <1>2

LEMMA MoveUnvalidatedType ==
    ASSUME NEW to \in {"published_v5", "orphaned"}, MoveUnvalidated(to),
           manifest \in [Kinds -> {"absent", "unvalidated", "published_v5", "orphaned"}]
    PROVE  manifest' \in [Kinds -> {"absent", "unvalidated", "published_v5", "orphaned"}]
  BY DEF MoveUnvalidated, Unvalidated

-----------------------------------------------------------------------------
(* Type correctness, one lemma per group of operations *)

LEMMA TypeInit == Init => TypeOK
  <1> SUFFICES ASSUME Init PROVE TypeOK
    OBVIOUS
  <1>1. pay \in Payload
    <2>1. NewPayload \in Payload
      BY DEF NewPayload, Payload, NoStep
    <2>2. [NewPayload EXCEPT !.intake = "ungrounded"] \in Payload
      BY <2>1, Zenon DEF Payload
    <2> QED
      BY <2>1, <2>2 DEF Init
  <1>2. pc \in [Runs -> Control] /\ loc \in [Runs -> Locals]
    BY NoLocalsType DEF Init, Control, Waiting
  <1>3. ckpt \in [done: 0 .. NFlows, agent: 0 .. NFlows]
    BY DEF Init, NoStep
  <1>4. /\ blob \in [Kinds -> Runs \cup {NoRun}]
        /\ output \in [blueprint: Runs \cup {NoRun},
                       canonical: {"none", "partial", "final"}]
        /\ manifest \in [Kinds -> {"absent", "unvalidated", "published_v5", "orphaned"}]
        /\ status \in Status /\ retries \in Nat
    BY DEF Init, Status
  <1> QED
    BY <1>1, <1>2, <1>3, <1>4 DEF TypeOK

LEMMA TypeDelivery ==
    ASSUME TypeOK, NEW r \in Runs,
           DispatchJob(r) \/ Redeliver(r) \/ Deliver(r) \/ Crash(r)
    PROVE  TypeOK'
  <1>1. {"idle", "queued", "entered", "done", "crashed"} \subseteq Control
    BY DEF Control, Working, Ending, Waiting, Over
  <1>2. pc' \in [Runs -> Control] /\ loc' \in [Runs -> Locals]
    BY <1>1, NoLocalsType
       DEF DispatchJob, Redeliver, Deliver, Crash, Leave, Goto, TypeOK
  <1>3. UNCHANGED <<row, artifacts, ckpt>>
    BY DEF DispatchJob, Redeliver, Deliver, Crash
  <1> QED
    BY <1>2, <1>3 DEF TypeOK, row, artifacts

LEMMA TypeClaim ==
    ASSUME TypeOK, NEW r \in Runs,
           \/ ReadJob(r) \/ Claim(r) \/ LoseClaim(r)
           \/ ClaimWithoutGrounding(r) \/ FailGrounding(r)
    PROVE  TypeOK'
  <1>1. {"claiming", "done", "prefetch", "bootstrap", "stranded", "groundingFailed"}
           \subseteq Control
    BY DEF Control, Working, Ending, Waiting, Over
  <1>2. loc[r] \in Locals /\ loc[r].read \in Payload
    BY DEF TypeOK, Locals
  <1>3. /\ ProcessingPayload(loc[r].read) \in Payload
        /\ NextPayload(ProcessingPayload(loc[r].read), FailedStep) \in Payload
    BY <1>2, ProcessingPayloadType, NextPayloadType DEF FailedStep
  <1>4. UNCHANGED <<artifacts, ckpt>>
    BY DEF ReadJob, Claim, LoseClaim, ClaimWithoutGrounding, FailGrounding
  <1>5. CASE ReadJob(r)
    <2>1. CASE status \in Retryable
      <3>1. [loc[r] EXCEPT !.was = status, !.read = pay] \in Locals
        BY <1>2, <2>1, Zenon DEF TypeOK, Locals
      <3>2. loc' = [loc EXCEPT ![r] = [loc[r] EXCEPT !.was = status, !.read = pay]]
        BY <1>5, <2>1 DEF ReadJob, TypeOK
      <3>3. pc' \in [Runs -> Control] /\ loc' \in [Runs -> Locals]
        BY <1>1, <1>5, <2>1, <3>1, <3>2 DEF ReadJob, Goto, TypeOK
      <3> QED
        BY <1>4, <1>5, <3>3 DEF ReadJob, TypeOK, row, artifacts
    <2>2. CASE status \notin Retryable
      BY <1>1, <1>4, <1>5, <2>2, LeaveType DEF ReadJob, TypeOK, row, artifacts
    <2> QED
      BY <2>1, <2>2
  <1>6. CASE Claim(r)
    <2>1. [NoLocals EXCEPT !.rep = Reported(loc[r].read)] \in Locals
      <3>1. Reported(loc[r].read) \in 0 .. NFlows
        BY <1>2, ResumeStepType DEF Reported, FirstStep, NoStep
      <3> QED
        BY <3>1, NoLocalsType, Zenon DEF Locals
    <2>2. pc' \in [Runs -> Control] /\ loc' \in [Runs -> Locals]
      BY <1>1, <1>6, <2>1, NoLocalsType DEF Claim, Leave, Goto, TypeOK
    <2>3. status' \in Status /\ retries' \in Nat /\ pay' \in Payload
      BY <1>3, <1>6 DEF Claim, TakeJob, TypeOK, Status, row
    <2> QED
      BY <1>4, <2>2, <2>3 DEF TypeOK, artifacts
  <1>7. CASE LoseClaim(r) \/ ClaimWithoutGrounding(r)
    BY <1>1, <1>4, <1>7, LeaveType
       DEF LoseClaim, ClaimWithoutGrounding, Goto, TypeOK, row, artifacts
  <1>8. CASE FailGrounding(r)
    <2>1. pc' \in [Runs -> Control] /\ loc' \in [Runs -> Locals]
      BY <1>1, <1>8, LeaveType DEF FailGrounding, TypeOK
    <2>2. status' \in Status /\ retries' \in Nat /\ pay' \in Payload
      BY <1>3, <1>8 DEF FailGrounding, TypeOK, Status, row
    <2> QED
      BY <1>4, <2>1, <2>2 DEF TypeOK, artifacts
  <1> QED
    BY <1>5, <1>6, <1>7, <1>8

LEMMA TypeGraph ==
    ASSUME TypeOK, NEW r \in Runs,
           \/ Prefetch(r) \/ Bootstrap(r) \/ StreamEvent(r) \/ EndStream(r)
           \/ GraphRaises(r)
    PROVE  TypeOK'
  <1>1. {"bootstrap", "streaming", "persisting", "finalizing"} \subseteq Control
    BY DEF Control, Working
  <1>2. loc[r] \in Locals
    BY DEF TypeOK
  <1>3. UNCHANGED <<row, artifacts>>
    BY DEF Prefetch, Bootstrap, StreamEvent, EndStream, GraphRaises
  <1>4. CASE Prefetch(r) \/ EndStream(r)
    BY <1>1, <1>3, <1>4, LeaveType
       DEF Prefetch, EndStream, Goto, TypeOK, row, artifacts
  <1>5. CASE Bootstrap(r) \/ GraphRaises(r)
    <2>1. ckpt' = ckpt /\ \/ Goto(r, "streaming") /\ UNCHANGED loc
                          \/ \E e \in Resumable \cup Fatal : FailWith(r, e)
      BY <1>5 DEF Bootstrap, GraphRaises, Resumable, Fatal
    <2>2. pc' \in [Runs -> Control] /\ loc' \in [Runs -> Locals]
      BY <1>1, <2>1, FailWithType DEF Goto, TypeOK
    <2> QED
      BY <1>3, <2>1, <2>2 DEF TypeOK, row, artifacts
  <1>6. CASE StreamEvent(r)
    <2> DEFINE pos == loc[r].pos
               step == IF pos = 0 THEN ckpt.agent ELSE pos
               new == step # NoStep /\ step # loc[r].rep
               moved == [loc[r] EXCEPT !.pos = pos + 1,
                                       !.cur = IF new THEN step ELSE NoStep]
    <2>1. pos \in 0 .. NFlows /\ step \in 0 .. NFlows /\ pos + 1 \in 0 .. NFlows + 1
      BY <1>2, <1>6 DEF StreamEvent, Locals, TypeOK
    <2>2. (IF new THEN step ELSE NoStep) \in 0 .. NFlows
      BY <2>1 DEF NoStep
    <2>3. moved \in Locals
      <3> HIDE DEF pos, step, new
      <3> QED
        BY <1>2, <2>1, <2>2, Zenon DEF Locals
    <2>4. loc' = [loc EXCEPT ![r] = moved]
      BY <1>6 DEF StreamEvent, TypeOK
    <2>5. Goto(r, "persisting") \/ Goto(r, "streaming")
      BY <1>6 DEF StreamEvent
    <2>7. loc' \in [Runs -> Locals] /\ pc' \in [Runs -> Control]
      <3> HIDE DEF moved
      <3> QED
        BY <1>1, <2>3, <2>4, <2>5 DEF Goto, TypeOK
    <2>6. ckpt' \in [done: 0 .. NFlows, agent: 0 .. NFlows]
      BY <1>6, <2>1 DEF StreamEvent, TypeOK
    <2> QED
      BY <1>3, <2>6, <2>7 DEF TypeOK, row, artifacts
  <1> QED
    BY <1>4, <1>5, <1>6

LEMMA TypeProgress ==
    ASSUME TypeOK, NEW r \in Runs,
           PersistStep(r) \/ DegradeProgress(r) \/ PersistPreview(r)
    PROVE  TypeOK'
  <1>1. {"preview", "degrading", "streaming"} \subseteq Control
    BY DEF Control, Working
  <1>2. loc[r] \in Locals /\ loc[r].cur \in 0 .. NFlows /\ pay \in Payload
    BY DEF TypeOK, Locals
  <1>3. ASSUME NEW s \in 0 .. NFlows + 2
        PROVE  [NextPayload(pay, s) EXCEPT !.boot = FALSE] \in Payload
    BY <1>2, NextPayloadType DEF Payload
  <1>4. CASE PersistStep(r)
    <2>1. UNCHANGED <<status, retries, artifacts, ckpt>>
      BY <1>4 DEF PersistStep
    <2>2. pay' \in Payload
      BY <1>2, <1>3, <1>4 DEF PersistStep
    <2>3. [loc[r] EXCEPT !.rep = loc[r].cur, !.cur = NoStep, !.tries = 0] \in Locals
      <3>1. NoStep \in 0 .. NFlows /\ 0 \in 0 .. MaxAttempts
        BY DEF NoStep
      <3> QED
        BY <1>2, <3>1, Zenon DEF Locals
    <2>4. \/ Retry(r, "degrading")
          \/ /\ loc' = [loc EXCEPT ![r] = [loc[r] EXCEPT !.rep = loc[r].cur,
                                             !.cur = NoStep, !.tries = 0]]
             /\ Goto(r, "preview")
      BY <1>4 DEF PersistStep, TypeOK
    <2>5. pc' \in [Runs -> Control] /\ loc' \in [Runs -> Locals]
      BY <1>1, <2>3, <2>4, RetryType DEF Goto, TypeOK
    <2> QED
      BY <2>1, <2>2, <2>5 DEF TypeOK, artifacts
  <1>5. CASE DegradeProgress(r)
    <2>1. (IF pay.step = NoStep THEN FirstStep ELSE pay.step) \in 0 .. NFlows + 2
      BY <1>2 DEF Payload, FirstStep
    <2>2. pay' \in Payload
      BY <1>2, <1>3, <1>5, <2>1 DEF DegradeProgress
    <2> QED
      BY <1>1, <1>5, <2>2 DEF DegradeProgress, Goto, TypeOK, artifacts
  <1>6. CASE PersistPreview(r)
    <2>1. output' \in [blueprint: Runs \cup {NoRun},
                       canonical: {"none", "partial", "final"}]
      BY <1>6 DEF PersistPreview, TypeOK
    <2> QED
      BY <1>1, <1>6, <2>1 DEF PersistPreview, Goto, TypeOK, row
  <1> QED
    BY <1>4, <1>5, <1>6

LEMMA TypeOutcome ==
    ASSUME TypeOK, NEW r \in Runs,
           \/ RecordFailure(r) \/ SaveNarrative(r) \/ SaveEda(r)
           \/ Complete(r) \/ ForceFail(r) \/ OrphanArtifacts(r)
    PROVE  TypeOK'
  <1>1. {"done", "forcing", "savingEda", "completing", "cleanup", "exhausted"}
           \subseteq Control
    BY DEF Control, Working, Ending, Over
  <1>2. /\ FailurePayload(pay) \in Payload
        /\ FreshPayload(FailedStep) \in Payload
        /\ [NextPayload(pay, DoneStep) EXCEPT !.boot = FALSE] \in Payload
    <2>1. NextPayload(pay, DoneStep) \in Payload
      BY NextPayloadType DEF DoneStep, TypeOK
    <2>2. FreshPayload(FailedStep) \in Payload
      BY FreshPayloadType DEF FailedStep
    <2>3. FailurePayload(pay) \in Payload
      BY FailurePayloadType DEF TypeOK
    <2> QED
      BY <2>1, <2>2, <2>3 DEF Payload
  <1>3. CASE RecordFailure(r)
    <2>1. UNCHANGED <<retries, blob, output, ckpt>>
      BY <1>3 DEF RecordFailure
    <2>2. /\ status' \in Status /\ pay' \in Payload
          /\ manifest' \in [Kinds -> {"absent", "unvalidated", "published_v5", "orphaned"}]
      BY <1>2, <1>3, MoveUnvalidatedType
         DEF RecordFailure, SettleFailed, ClassifyFailure, Status, TypeOK
    <2>3. pc' \in [Runs -> Control] /\ loc' \in [Runs -> Locals]
      BY <1>1, <1>3, LeaveType DEF RecordFailure, TypeOK
    <2> QED
      BY <2>1, <2>2, <2>3 DEF TypeOK
  <1>4. CASE SaveNarrative(r) \/ SaveEda(r)
    BY <1>1, <1>4
       DEF SaveNarrative, SaveEda, SaveArtifact, Kinds, Goto, TypeOK, row
  <1>5. CASE Complete(r)
    <2>1. pc' \in [Runs -> Control]
      BY <1>1, <1>5 DEF Complete, Goto, TypeOK
    <2>2. UNCHANGED <<retries, blob, ckpt, loc>>
      BY <1>5 DEF Complete
    <2>3. CASE SettleCompleted(r)
      <3>1. manifest' \in [Kinds -> {"absent", "unvalidated", "published_v5", "orphaned"}]
        BY <2>3, MoveUnvalidatedType DEF SettleCompleted, TypeOK
      <3> QED
        BY <1>2, <2>1, <2>2, <2>3, <3>1 DEF SettleCompleted, Status, TypeOK
    <2>4. CASE UNCHANGED <<status, pay, manifest, output>>
      BY <2>1, <2>2, <2>4 DEF TypeOK
    <2> QED
      BY <1>5, <2>3, <2>4 DEF Complete
  <1>6. CASE ForceFail(r)
    <2>1. pc' \in [Runs -> Control] /\ loc' \in [Runs -> Locals]
      BY <1>1, <1>6, LeaveType, RetryType DEF ForceFail, TypeOK
    <2> QED
      BY <1>2, <1>6, <2>1 DEF ForceFail, Flip, Status, TypeOK, artifacts
  <1>7. CASE OrphanArtifacts(r)
    BY <1>1, <1>7, MoveUnvalidatedType DEF OrphanArtifacts, Goto, TypeOK, row
  <1> QED
    BY <1>3, <1>4, <1>5, <1>6, <1>7

LEMMA TypeNext == TypeOK /\ [Next]_vars => TypeOK'
  <1> SUFFICES ASSUME TypeOK, [Next]_vars PROVE TypeOK'
    OBVIOUS
  <1>1. CASE Next
    BY <1>1, TypeDelivery, TypeClaim, TypeGraph, TypeProgress, TypeOutcome
       DEF Next, Worker
  <1>2. CASE UNCHANGED vars
    BY <1>2 DEF vars, row, artifacts, TypeOK
  <1> QED
    BY <1>1, <1>2

\* Every state of the job is well typed, under every fault: in particular a
\* claim never resumes from a terminal step and never writes one as its
\* current step (run_job, _next_progress_payload).
THEOREM TypeCorrect == Spec => []TypeOK
  <1> QED
    BY TypeInit, TypeNext, PTL DEF Spec

-----------------------------------------------------------------------------
(* What a step does to the lock: nothing, a claim, a settlement by the owner
   or the rejection of a job that cannot be grounded *)

NoLostCommit == "lostCommit" \notin Faults

OthersKept(r) == \A q \in Runs \ {r} : Owns(q)' <=> Owns(q)

Keeps == status' = status /\ \A q \in Runs : Owns(q)' <=> Owns(q)

Takes(r) == /\ status \in Retryable /\ status' = "processing"
            /\ Owns(r)' /\ OthersKept(r)

Settles(r) == /\ Owns(r) /\ ~Owns(r)' /\ OthersKept(r)
              /\ status' \in {"completed", "failed", "failed_resumable"}

Rejects == /\ Ungrounded(pay) /\ status' = "failed"
           /\ \A q \in Runs : Owns(q)' <=> Owns(q)

\* A run that moves leaves the others where they are.
LEMMA GotoFacts ==
    ASSUME NEW r \in Runs, NEW l, Goto(r, l), pc \in [Runs -> Control]
    PROVE  /\ pc'[r] = l
           /\ \A q \in Runs \ {r} : pc'[q] = pc[q]
           /\ OthersKept(r)
           /\ Owns(r)' <=> l \in Working \cup Ending
  BY DEF Goto, OthersKept, Owns

\* A move inside, or outside, the states that own the row keeps the owners.
LEMMA GotoKeeps ==
    ASSUME NEW r \in Runs, NEW l, Goto(r, l), pc \in [Runs -> Control],
           pc[r] \in Working \cup Ending <=> l \in Working \cup Ending
    PROVE  \A q \in Runs : Owns(q)' <=> Owns(q)
  BY GotoFacts DEF OthersKept, Owns

LEMMA LockOutsideClaim ==
    ASSUME JobInv, NoLostCommit, NEW r \in Runs,
           \/ DispatchJob(r) \/ Redeliver(r) \/ Deliver(r) \/ Crash(r)
           \/ ReadJob(r) \/ LoseClaim(r) \/ ClaimWithoutGrounding(r)
           \/ Prefetch(r) \/ Bootstrap(r) \/ StreamEvent(r) \/ EndStream(r)
           \/ GraphRaises(r) \/ PersistStep(r) \/ DegradeProgress(r)
           \/ PersistPreview(r) \/ SaveNarrative(r) \/ SaveEda(r)
           \/ OrphanArtifacts(r)
    PROVE  Keeps
  <1>1. pc \in [Runs -> Control]
    BY DEF JobInv, TypeOK
  <1>2. CASE DispatchJob(r) \/ Redeliver(r) \/ Deliver(r) \/ Crash(r)
    <2>1. status' = status
      BY <1>2 DEF DispatchJob, Redeliver, Deliver, Crash, row
    <2>2. \E l \in Control : Goto(r, l) /\ (pc[r] \in Working \cup Ending
                                             <=> l \in Working \cup Ending)
      BY <1>2 DEF DispatchJob, Redeliver, Deliver, Crash, Leave, Control,
                  Working, Ending, Waiting, Over
    <2> QED
      BY <1>1, <2>1, <2>2, GotoKeeps DEF Keeps
  <1>3. CASE ReadJob(r) \/ LoseClaim(r) \/ ClaimWithoutGrounding(r)
    <2>1. status' = status
      BY <1>3 DEF ReadJob, LoseClaim, ClaimWithoutGrounding, row
    <2>2. \E l \in Control : Goto(r, l) /\ (pc[r] \in Working \cup Ending
                                             <=> l \in Working \cup Ending)
      BY <1>3 DEF ReadJob, LoseClaim, ClaimWithoutGrounding, Leave, Control,
                  Working, Ending, Waiting, Over
    <2> QED
      BY <1>1, <2>1, <2>2, GotoKeeps DEF Keeps
  <1>4. CASE Prefetch(r) \/ Bootstrap(r) \/ StreamEvent(r) \/ EndStream(r)
             \/ GraphRaises(r)
    <2>1. status' = status
      BY <1>4 DEF Prefetch, Bootstrap, StreamEvent, EndStream, GraphRaises, row
    <2>2. \E l \in Control : Goto(r, l) /\ (pc[r] \in Working \cup Ending
                                             <=> l \in Working \cup Ending)
      BY <1>4 DEF Prefetch, Bootstrap, StreamEvent, EndStream, GraphRaises,
                  FailWith, Leave, Control, Working
    <2> QED
      BY <1>1, <2>1, <2>2, GotoKeeps DEF Keeps
  <1>5. CASE PersistStep(r) \/ DegradeProgress(r) \/ PersistPreview(r)
    <2>1. status' = status
      BY <1>5 DEF PersistStep, DegradeProgress, PersistPreview, row
    <2>2. \/ pc' = pc
          \/ \E l \in Working : Goto(r, l) /\ pc[r] \in Working
      BY <1>5 DEF PersistStep, DegradeProgress, PersistPreview, Retry, Working
    <2> QED
      BY <1>1, <2>1, <2>2, GotoKeeps DEF Keeps, Owns
  <1>6. CASE SaveNarrative(r) \/ SaveEda(r) \/ OrphanArtifacts(r)
    <2>1. status' = status
      BY <1>6 DEF SaveNarrative, SaveEda, OrphanArtifacts, row
    <2>2. \E l \in Control : Goto(r, l) /\ (pc[r] \in Working \cup Ending
                                             <=> l \in Working \cup Ending)
      BY <1>6 DEF SaveNarrative, SaveEda, SaveArtifact, OrphanArtifacts, Control,
                  Working, Ending, Over
    <2> QED
      BY <1>1, <2>1, <2>2, GotoKeeps DEF Keeps
  <1> QED
    BY <1>2, <1>3, <1>4, <1>5, <1>6

LEMMA LockOfClaim ==
    ASSUME JobInv, NoLostCommit, NEW r \in Runs, Claim(r) \/ FailGrounding(r)
    PROVE  Keeps \/ Takes(r) \/ Rejects
  <1>1. pc \in [Runs -> Control]
    BY DEF JobInv, TypeOK
  <1>2. CASE Claim(r)
    <2>1. CASE TakeJob(r) /\ \/ Goto(r, "prefetch") \/ Goto(r, "bootstrap")
      BY <1>1, <1>2, <2>1, GotoFacts
         DEF Claim, Claimable, TakeJob, Takes, Working
    <2>2. CASE UNCHANGED row /\ Leave(r, "done")
      BY <1>1, <1>2, <2>2, GotoKeeps
         DEF Claim, Leave, Keeps, row, Working, Ending
    <2> QED
      BY <1>2, <2>1, <2>2 DEF Claim, NoLostCommit
  <1>3. CASE FailGrounding(r)
    <2>1. Ungrounded(pay) /\ (status' = "failed" \/ status' = status)
      BY <1>3 DEF FailGrounding, JobInv, ClaimsAreGrounded, row
    <2>2. \A q \in Runs : Owns(q)' <=> Owns(q)
      BY <1>1, <1>3, GotoKeeps DEF FailGrounding, Leave, Working, Ending
    <2> QED
      BY <2>1, <2>2 DEF Keeps, Rejects
  <1> QED
    BY <1>2, <1>3

LEMMA LockOfOutcome ==
    ASSUME JobInv, NoLostCommit, NEW r \in Runs,
           RecordFailure(r) \/ Complete(r) \/ ForceFail(r)
    PROVE  Keeps \/ Settles(r)
  <1>1. pc \in [Runs -> Control] /\ Owns(r) /\ status = "processing"
    BY DEF JobInv, TypeOK, SingleOwner, Owns, RecordFailure, Complete,
           ForceFail, Working, Ending
  <1>2. CASE RecordFailure(r)
    <2>1. CASE SettleFailed(r) /\ Leave(r, "done")
      BY <1>1, <2>1, GotoFacts
         DEF SettleFailed, ClassifyFailure, Leave, Settles, Working, Ending
    <2>2. CASE Leave(r, "forcing") /\ UNCHANGED <<status, pay, manifest>>
      BY <1>1, <2>2, GotoKeeps DEF Leave, Keeps, Owns, Ending
    <2> QED
      BY <1>2, <2>1, <2>2 DEF RecordFailure, NoLostCommit
  <1>3. CASE Complete(r)
    <2>1. CASE SettleCompleted(r) /\ Goto(r, "done")
      BY <1>1, <2>1, GotoFacts DEF SettleCompleted, Settles, Working, Ending
    <2>2. CASE Goto(r, "forcing") /\ UNCHANGED <<status, pay, manifest, output>>
      BY <1>1, <2>2, GotoKeeps DEF Keeps, Owns, Ending
    <2> QED
      BY <1>3, <2>1, <2>2 DEF Complete, NoLostCommit
  <1>4. CASE ForceFail(r)
    <2>1. CASE Flip /\ Leave(r, "cleanup")
      BY <1>1, <2>1, GotoFacts DEF Flip, Leave, Settles, Working, Ending
    <2>2. CASE Retry(r, "exhausted") /\ UNCHANGED <<status, pay>>
      <3>1. pc' = pc \/ Goto(r, "exhausted")
        BY <2>2 DEF Retry
      <3> QED
        BY <1>1, <2>2, <3>1, GotoKeeps DEF Keeps, Owns, Ending
    <2> QED
      BY <1>4, <2>1, <2>2 DEF ForceFail, NoLostCommit
  <1> QED
    BY <1>2, <1>3, <1>4

\* Every step of the job is a step of its lock or leaves the lock alone.
LEMMA LockStep ==
    ASSUME JobInv, NoLostCommit, Next
    PROVE  Keeps \/ Rejects \/ \E r \in Runs : Takes(r) \/ Settles(r)
  BY LockOutsideClaim, LockOfClaim, LockOfOutcome DEF Next, Worker

LEMMA SingleOwnerNext ==
    ASSUME JobInv, NoLostCommit, Next
    PROVE  SingleOwner'
  <1>1. SingleOwner /\ (Ungrounded(pay) => status # "processing")
    BY DEF JobInv, ClaimsAreGrounded
  <1>2. CASE Keeps \/ Rejects
    BY <1>1, <1>2 DEF Keeps, Rejects, SingleOwner
  <1>3. ASSUME NEW r \in Runs, Takes(r) PROVE SingleOwner'
    BY <1>1, <1>3 DEF Takes, OthersKept, SingleOwner, Retryable
  <1>4. ASSUME NEW r \in Runs, Settles(r) PROVE SingleOwner'
    BY <1>1, <1>4 DEF Settles, OthersKept, SingleOwner
  <1> QED
    BY <1>2, <1>3, <1>4, LockStep

-----------------------------------------------------------------------------
(* What a step does to the data the lock protects *)

Data == /\ ClaimsAreGrounded
        /\ RunnableKeepsIntake
        /\ ArtifactsFollowOwner
        /\ CompletedIsPublished
        /\ OnlyCompletedPublishes
        /\ SettledPayload

LEMMA DataUnmoved ==
    ASSUME JobInv, NoLostCommit, NEW r \in Runs,
           \/ DispatchJob(r) \/ Redeliver(r) \/ Deliver(r) \/ Crash(r)
           \/ ReadJob(r) \/ LoseClaim(r) \/ ClaimWithoutGrounding(r)
           \/ Prefetch(r) \/ Bootstrap(r) \/ StreamEvent(r) \/ EndStream(r)
           \/ GraphRaises(r)
    PROVE  Data'
  <1>1. UNCHANGED <<row, artifacts>>
    BY DEF DispatchJob, Redeliver, Deliver, Crash, ReadJob, LoseClaim,
           ClaimWithoutGrounding, Prefetch, Bootstrap, StreamEvent, EndStream,
           GraphRaises
  <1>2. RunnableKeepsIntake' /\ CompletedIsPublished' /\ OnlyCompletedPublishes'
        /\ SettledPayload'
    BY <1>1 DEF JobInv, row, artifacts, RunnableKeepsIntake, CompletedIsPublished,
                OnlyCompletedPublishes, SettledPayload, Unvalidated
  <1>3. pc \in [Runs -> Control] /\ \A q \in Runs \ {r} : pc'[q] = pc[q]
    BY DEF JobInv, TypeOK, DispatchJob, Redeliver, Deliver, Crash, ReadJob,
           LoseClaim, ClaimWithoutGrounding, Prefetch, Bootstrap, StreamEvent,
           EndStream, GraphRaises, FailWith, Leave, Goto
  <1>4. /\ pc'[r] \notin {"savingEda", "completing", "cleanup"}
        /\ pc'[r] \in Working => pc[r] \in Working \ {"savingEda", "completing"}
    BY <1>3 DEF DispatchJob, Redeliver, Deliver, Crash, ReadJob, LoseClaim,
                ClaimWithoutGrounding, Prefetch, Bootstrap, StreamEvent, EndStream,
                GraphRaises, FailWith, Leave, Goto, Working
  <1>5. ArtifactsFollowOwner'
    BY <1>1, <1>3, <1>4 DEF JobInv, ArtifactsFollowOwner, row, artifacts
  <1>6. \A q \in Runs \ {r} : loc'[q] = loc[q]
    BY DEF JobInv, TypeOK, DispatchJob, Redeliver, Deliver, Crash, ReadJob,
           LoseClaim, ClaimWithoutGrounding, Prefetch, Bootstrap, StreamEvent,
           EndStream, GraphRaises, FailWith, Leave
  <1>7. /\ pc'[r] = "groundingFailed" =>
              Ungrounded(pay) /\ Ungrounded(loc'[r].read)
        /\ pc'[r] = "claiming" => /\ loc'[r].read.intake # "lost"
                                  /\ Ungrounded(loc'[r].read) <=> Ungrounded(pay)
    <2>1. CASE ReadJob(r)
      <3>1. CASE status \in Retryable
        <4>1. loc'[r].read = pay
          BY <2>1, <3>1 DEF ReadJob, JobInv, TypeOK, Locals
        <4> QED
          BY <1>3, <2>1, <3>1, <4>1 DEF ReadJob, JobInv, RunnableKeepsIntake, Goto
      <3>2. CASE status \notin Retryable
        BY <1>3, <2>1, <3>2 DEF ReadJob, Leave, Goto
      <3> QED
        BY <3>1, <3>2
    <2>2. CASE LoseClaim(r) \/ ClaimWithoutGrounding(r)
      BY <1>3, <2>2 DEF LoseClaim, ClaimWithoutGrounding, Leave, Goto, JobInv,
                        ClaimsAreGrounded
    <2>3. CASE \/ DispatchJob(r) \/ Redeliver(r) \/ Deliver(r) \/ Crash(r)
               \/ Prefetch(r) \/ Bootstrap(r) \/ StreamEvent(r) \/ EndStream(r)
               \/ GraphRaises(r)
      BY <1>3, <2>3 DEF DispatchJob, Redeliver, Deliver, Crash, Prefetch,
                        Bootstrap, StreamEvent, EndStream, GraphRaises, FailWith,
                        Leave, Goto
    <2> QED
      BY <2>1, <2>2, <2>3
  <1>8. ClaimsAreGrounded'
    BY <1>1, <1>3, <1>6, <1>7 DEF JobInv, ClaimsAreGrounded, row
  <1> QED
    BY <1>2, <1>5, <1>8 DEF Data

LEMMA DataClaim ==
    ASSUME JobInv, NoLostCommit, NEW r \in Runs, Claim(r)
    PROVE  Data'
  <1>1. pc \in [Runs -> Control] /\ loc \in [Runs -> Locals]
    BY DEF JobInv, TypeOK
  <1>2. CASE TakeJob(r) /\ \/ Goto(r, "prefetch") \/ Goto(r, "bootstrap")
    <2>1. /\ status \in Retryable /\ status' = "processing"
          /\ UNCHANGED artifacts /\ ~Ungrounded(loc[r].read) /\ ~Ungrounded(pay)
          /\ loc[r].read \in Payload /\ loc[r].read.intake # "lost"
      BY <1>1, <1>2
         DEF Claim, Claimable, TakeJob, JobInv, ClaimsAreGrounded, Locals
    <2>2. pay'.intake = loc[r].read.intake
      BY <1>2, <2>1 DEF TakeJob, ProcessingPayload, NextPayload, Payload
    <2>7. pay'.intake # "lost" /\ ~Ungrounded(pay')
      BY <2>1, <2>2 DEF Ungrounded
    <2>3. \A k \in Kinds : manifest'[k] = "absent"
      BY <2>1 DEF JobInv, ArtifactsFollowOwner, artifacts
    <2>4. \A q \in Runs : pc'[q] \notin {"savingEda", "completing", "cleanup"}
      BY <1>1, <1>2, <2>1 DEF Goto, JobInv, SingleOwner, Owns, Working, Retryable,
                              ArtifactsFollowOwner
    <2>5. ClaimsAreGrounded'
      <3>1. \A q \in Runs \ {r} : pc'[q] = pc[q] /\ loc'[q] = loc[q]
        BY <1>1, <1>2 DEF Claim, Goto, Leave
      <3>2. pc'[r] \in {"prefetch", "bootstrap"}
        BY <1>1, <1>2 DEF Goto
      <3> QED
        BY <2>1, <2>7, <3>1, <3>2 DEF JobInv, ClaimsAreGrounded
    <2>6. OnlyCompletedPublishes'
      BY <2>1, <2>3 DEF JobInv, OnlyCompletedPublishes, Retryable, artifacts
    <2> QED
      BY <2>1, <2>7, <2>3, <2>4, <2>5, <2>6
         DEF Data, RunnableKeepsIntake, ArtifactsFollowOwner,
             CompletedIsPublished, SettledPayload, Retryable
  <1>3. CASE UNCHANGED row /\ Leave(r, "done")
    <2>1. UNCHANGED <<row, artifacts>>
      BY <1>3 DEF Claim
    <2>2. ArtifactsFollowOwner' /\ ClaimsAreGrounded'
      BY <1>1, <1>3, <2>1 DEF JobInv, ArtifactsFollowOwner, ClaimsAreGrounded,
         row, artifacts, Leave, Goto, Working
    <2> QED
      BY <2>1, <2>2 DEF JobInv, Data, row, artifacts, RunnableKeepsIntake,
         CompletedIsPublished, OnlyCompletedPublishes, SettledPayload, Unvalidated
  <1> QED
    BY <1>2, <1>3 DEF Claim, NoLostCommit

LEMMA DataFailGrounding ==
    ASSUME JobInv, NoLostCommit, NEW r \in Runs, FailGrounding(r)
    PROVE  Data'
  <1>1. /\ pc \in [Runs -> Control] /\ loc \in [Runs -> Locals]
        /\ Ungrounded(pay) /\ Ungrounded(loc[r].read)
        /\ status \in {"pending", "failed"}
    BY DEF JobInv, TypeOK, ClaimsAreGrounded, FailGrounding
  <1>6. Ungrounded(pay')
    <2>1. loc[r].read \in Payload
      BY <1>1 DEF Locals
    <2>2. /\ ProcessingPayload(loc[r].read) \in Payload
          /\ Ungrounded(ProcessingPayload(loc[r].read))
      BY <1>1, <2>1, ProcessingPayloadType
         DEF ProcessingPayload, NextPayload, Ungrounded, Payload
    <2>3. Ungrounded(NextPayload(ProcessingPayload(loc[r].read), FailedStep))
      BY <2>2 DEF NextPayload, Ungrounded, Payload
    <2> QED
      BY <1>1, <2>3 DEF FailGrounding, row
  <1>2. /\ UNCHANGED artifacts
        /\ status' = "failed" \/ UNCHANGED row
    BY DEF FailGrounding
  <1>3. \A q \in Runs : pc[q] \notin Working /\ pc'[q] \notin Working
    BY <1>1 DEF JobInv, SingleOwner, Owns, FailGrounding, Leave, Goto, Working
  <1>4. ClaimsAreGrounded'
    <2>1. \A q \in Runs : pc'[q] \in {"claiming", "groundingFailed"} =>
             pc'[q] = pc[q] /\ loc'[q] = loc[q]
      BY <1>1 DEF FailGrounding, Leave, Goto
    <2>2. status' \in {"pending", "failed"}
      BY <1>1, <1>2 DEF row
    <2> QED
      BY <1>1, <1>6, <2>1, <2>2 DEF JobInv, ClaimsAreGrounded
  <1>5. ArtifactsFollowOwner'
    <2>1. \A q \in Runs : pc'[q] = "cleanup" => pc[q] = "cleanup"
      BY <1>1 DEF FailGrounding, Leave, Goto
    <2> QED
      BY <1>2, <1>3, <2>1
         DEF JobInv, ArtifactsFollowOwner, Retryable, Working, row, artifacts
  <1> QED
    BY <1>1, <1>2, <1>4, <1>5 DEF Data, JobInv, RunnableKeepsIntake,
       CompletedIsPublished, OnlyCompletedPublishes, SettledPayload, Retryable,
       row, artifacts

LEMMA DataProgress ==
    ASSUME JobInv, NoLostCommit, NEW r \in Runs,
           PersistStep(r) \/ DegradeProgress(r) \/ PersistPreview(r)
    PROVE  Data'
  <1>1. /\ pc \in [Runs -> Control] /\ Owns(r) /\ status = "processing"
        /\ pay \in Payload /\ pay.intake # "lost"
    BY DEF JobInv, TypeOK, SingleOwner, Owns, RunnableKeepsIntake, Working,
           PersistStep, DegradeProgress, PersistPreview
  <1>2. status' = status /\ UNCHANGED <<manifest, blob>>
    BY DEF PersistStep, DegradeProgress, PersistPreview, row, artifacts
  <1>3. pay'.intake = pay.intake
    BY <1>1 DEF PersistStep, DegradeProgress, PersistPreview, NextPayload,
                Payload, row
  <1>4. /\ \A q \in Runs \ {r} : pc'[q] = pc[q]
        /\ pc[r] \in Working \ {"savingEda", "completing"}
        /\ pc'[r] \in Working \ {"savingEda", "completing"}
    BY <1>1 DEF PersistStep, DegradeProgress, PersistPreview, Retry, Goto, Working
  <1>5. output'.blueprint = NoRun /\ output'.canonical # "final"
    BY <1>1 DEF JobInv, TypeOK, OnlyCompletedPublishes, PersistStep,
                DegradeProgress, PersistPreview, artifacts
  <1>6. ArtifactsFollowOwner'
    BY <1>2, <1>4 DEF JobInv, ArtifactsFollowOwner, Working
  <1>7. ClaimsAreGrounded'
    <2>1. \A q \in Runs \ {r} : loc'[q] = loc[q]
      BY DEF JobInv, TypeOK, PersistStep, DegradeProgress, PersistPreview, Retry
    <2> QED
      BY <1>2, <1>3, <1>4, <2>1 DEF JobInv, ClaimsAreGrounded, Ungrounded, Working
  <1> QED
    BY <1>1, <1>2, <1>3, <1>5, <1>6, <1>7 DEF JobInv, Data, RunnableKeepsIntake,
       CompletedIsPublished, OnlyCompletedPublishes, SettledPayload

LEMMA DataFailure ==
    ASSUME JobInv, NoLostCommit, NEW r \in Runs,
           RecordFailure(r) \/ ForceFail(r) \/ OrphanArtifacts(r)
    PROVE  Data'
  <1>1. pc \in [Runs -> Control] /\ pay \in Payload
    BY DEF JobInv, TypeOK
  <1>2. /\ \A q \in Runs \ {r} : pc'[q] = pc[q] /\ loc'[q] = loc[q]
        /\ pc'[r] \in {"done", "forcing", "cleanup", "exhausted"}
        /\ UNCHANGED <<blob, output>>
    BY <1>1 DEF JobInv, TypeOK, RecordFailure, ForceFail, OrphanArtifacts, Leave,
                Retry, Goto, artifacts
  <1>3. pc[r] \in {"failing", "forcing"} =>
           /\ status = "processing" /\ pay.intake # "lost" /\ ~Ungrounded(pay)
    BY DEF JobInv, SingleOwner, Owns, RunnableKeepsIntake, ClaimsAreGrounded,
           Working, Ending
  <1>8. FailurePayload(pay).intake = pay.intake
    BY <1>1, NextPayloadType, Zenon DEF FailurePayload, NextPayload, Payload
  <1>4. ClaimsAreGrounded'
    <2>1. \/ UNCHANGED <<status, pay>>
          \/ /\ pc[r] \in {"failing", "forcing"}
             /\ pay' \in {FailurePayload(pay), FreshPayload(FailedStep)}
      BY DEF RecordFailure, SettleFailed, ForceFail, Flip, OrphanArtifacts, row
    <2>2. CASE UNCHANGED <<status, pay>>
      BY <1>2, <2>2 DEF JobInv, ClaimsAreGrounded
    <2>3. CASE /\ pc[r] \in {"failing", "forcing"}
               /\ pay' \in {FailurePayload(pay), FreshPayload(FailedStep)}
      <3>1. ~Ungrounded(FreshPayload(FailedStep))
        BY DEF FreshPayload, Ungrounded
      <3>2. ~Ungrounded(pay) /\ ~Ungrounded(pay')
        BY <1>3, <1>8, <2>3, <3>1 DEF Ungrounded
      <3> QED
        BY <1>2, <3>2 DEF JobInv, ClaimsAreGrounded
    <2> QED
      BY <2>1, <2>2, <2>3
  <1>5. CASE RecordFailure(r)
    <2>1. status = "processing" /\ \A k \in Kinds : manifest[k] = "absent"
      BY <1>3, <1>5 DEF RecordFailure, JobInv, ArtifactsFollowOwner, Working
    <2>2. \A q \in Runs \ {r} : pc'[q] \notin Working
      BY <1>2, <1>5 DEF RecordFailure, JobInv, SingleOwner, Owns, Working
    <2>3. manifest' = manifest
      BY <1>5, <2>1 DEF RecordFailure, SettleFailed, MoveUnvalidated, Unvalidated,
                        NoLostCommit, JobInv, TypeOK
    <2>4. \/ /\ status' \in {"failed", "failed_resumable"}
             /\ pay' = FailurePayload(pay)
          \/ status' = status /\ pay' = pay
      BY <1>5 DEF RecordFailure, SettleFailed, ClassifyFailure
    <2>5. ~FailurePayload(pay).boot /\ FailurePayload(pay).step = FailedStep
      BY <1>1, NextPayloadType, Zenon DEF FailurePayload, NextPayload, Payload
    <2>6. ArtifactsFollowOwner'
      <3>1. \A q \in Runs : pc'[q] # "cleanup"
        BY <1>1, <1>2, <1>5, <2>1
           DEF RecordFailure, Leave, Goto, JobInv, ArtifactsFollowOwner
      <3> QED
        BY <1>2, <2>1, <2>2, <2>3, <3>1 DEF ArtifactsFollowOwner, Working
    <2>7. RunnableKeepsIntake' /\ SettledPayload'
      BY <1>3, <1>5, <1>8, <2>1, <2>4, <2>5
         DEF RecordFailure, RunnableKeepsIntake, SettledPayload
    <2> QED
      BY <1>2, <1>4, <2>1, <2>3, <2>4, <2>6, <2>7
         DEF JobInv, Data, CompletedIsPublished, OnlyCompletedPublishes
  <1>6. CASE ForceFail(r)
    <2>1. /\ status = "processing" /\ manifest' = manifest
          /\ \/ status' = "failed"
             \/ UNCHANGED <<status, pay>>
      BY <1>3, <1>6 DEF ForceFail, Flip, NoLostCommit, artifacts
    <2>2. \A q \in Runs : pc'[q] \notin Working
      BY <1>2, <1>6 DEF ForceFail, JobInv, SingleOwner, Owns, Working, Ending
    <2>3. ArtifactsFollowOwner'
      <3>1. \A q \in Runs : pc'[q] = "cleanup" => status' = "failed"
        BY <1>1, <1>2, <1>6, <2>1 DEF ForceFail, Flip, Retry, Leave, Goto, JobInv,
                                      ArtifactsFollowOwner
      <3> QED
        BY <2>1, <2>2, <3>1 DEF ArtifactsFollowOwner, Retryable, Working
    <2> QED
      BY <1>2, <1>4, <2>1, <2>3 DEF JobInv, Data, RunnableKeepsIntake, Retryable,
         CompletedIsPublished, OnlyCompletedPublishes, SettledPayload
  <1>7. CASE OrphanArtifacts(r)
    <2>1. /\ UNCHANGED row
          /\ \A k \in Kinds : \/ manifest'[k] = manifest[k]
                              \/ manifest[k] = "unvalidated" /\ manifest'[k] = "orphaned"
      BY <1>7 DEF OrphanArtifacts, MoveUnvalidated, Unvalidated
    <2>2. status = "failed" /\ status' = "failed" /\ pay' = pay
      BY <1>7, <2>1 DEF OrphanArtifacts, JobInv, ArtifactsFollowOwner, row
    <2>3. \A q \in Runs : pc'[q] \notin Working
      BY <1>2, <2>2 DEF JobInv, SingleOwner, Owns, Working
    <2>4. ArtifactsFollowOwner'
      BY <2>2, <2>3 DEF ArtifactsFollowOwner, Retryable, Working
    <2>5. OnlyCompletedPublishes'
      BY <1>2, <2>1, <2>2 DEF JobInv, OnlyCompletedPublishes
    <2> QED
      BY <1>4, <2>2, <2>4, <2>5 DEF Data, RunnableKeepsIntake, SettledPayload,
         CompletedIsPublished, Retryable
  <1> QED
    BY <1>5, <1>6, <1>7

LEMMA DataSave ==
    ASSUME JobInv, NoLostCommit, NEW r \in Runs, SaveNarrative(r) \/ SaveEda(r)
    PROVE  Data'
  <1>1. /\ pc \in [Runs -> Control]
        /\ manifest \in [Kinds -> {"absent", "unvalidated", "published_v5", "orphaned"}]
        /\ blob \in [Kinds -> Runs \cup {NoRun}]
    BY DEF JobInv, TypeOK
  <1>2. pc[r] \in {"finalizing", "savingEda"} /\ status = "processing"
    BY DEF SaveNarrative, SaveEda, JobInv, SingleOwner, Owns, Working
  <1>3. UNCHANGED <<row, output, loc>>
    BY DEF SaveNarrative, SaveEda
  <1>4. \A q \in Runs \ {r} : /\ pc'[q] = pc[q]
                              /\ pc'[q] \notin Working \cup Ending
    BY <1>1, <1>2 DEF SaveNarrative, SaveEda, SaveArtifact, Goto, JobInv,
                      SingleOwner, Owns, Working
  <1>5. \A q \in Runs : pc'[q] # "cleanup"
    BY <1>1, <1>2 DEF SaveNarrative, SaveEda, SaveArtifact, Goto, JobInv,
                      ArtifactsFollowOwner
  <1>6. \A k \in Kinds : manifest'[k] # "published_v5"
    BY <1>1, <1>2 DEF SaveNarrative, SaveEda, SaveArtifact, JobInv,
                      OnlyCompletedPublishes
  <1>7. /\ pc'[r] \in {"savingEda", "completing", "forcing"}
        /\ pc'[r] \in {"savingEda", "completing"} =>
              /\ manifest'["narrative_text"] = "unvalidated"
              /\ blob'["narrative_text"] = r
              /\ \/ manifest'["eda_report"] = "absent"
                 \/ /\ pc'[r] = "completing"
                    /\ manifest'["eda_report"] = "unvalidated"
                    /\ blob'["eda_report"] = r
    <2>1. CASE SaveNarrative(r)
      <3>1. \A k \in Kinds : manifest[k] = "absent"
        BY <2>1 DEF SaveNarrative, JobInv, ArtifactsFollowOwner, Working
      <3> QED
        BY <1>1, <2>1, <3>1, NoLostCommit DEF SaveNarrative, SaveArtifact, Goto,
           Kinds, NoLostCommit
    <2>2. CASE SaveEda(r)
      <3>1. /\ manifest["narrative_text"] = "unvalidated"
            /\ blob["narrative_text"] = r
            /\ manifest["eda_report"] = "absent"
        BY <2>2 DEF SaveEda, JobInv, ArtifactsFollowOwner
      <3> QED
        BY <1>1, <2>2, <3>1, NoLostCommit DEF SaveEda, SaveArtifact, Goto, Kinds,
           NoLostCommit
    <2> QED
      BY <2>1, <2>2
  <1>8. ArtifactsFollowOwner'
    BY <1>2, <1>3, <1>4, <1>5, <1>7 DEF ArtifactsFollowOwner, Retryable, Working, row
  <1>9. ClaimsAreGrounded'
    BY <1>3, <1>4, <1>7, <1>2 DEF JobInv, ClaimsAreGrounded, row
  <1> QED
    BY <1>2, <1>3, <1>6, <1>8, <1>9 DEF JobInv, Data, RunnableKeepsIntake,
       CompletedIsPublished, OnlyCompletedPublishes, SettledPayload, row

LEMMA DataComplete ==
    ASSUME JobInv, NoLostCommit, NEW r \in Runs, Complete(r)
    PROVE  Data'
  <1>1. /\ pc \in [Runs -> Control] /\ pay \in Payload
        /\ manifest \in [Kinds -> {"absent", "unvalidated", "published_v5", "orphaned"}]
    BY DEF JobInv, TypeOK
  <1>2. /\ status = "processing" /\ pay.intake # "lost" /\ ~Ungrounded(pay)
        /\ UNCHANGED <<blob, loc>>
    BY DEF Complete, JobInv, SingleOwner, Owns, Working, RunnableKeepsIntake,
           ClaimsAreGrounded
  <1>3. \A q \in Runs \ {r} : /\ pc'[q] = pc[q]
                              /\ pc'[q] \notin Working \cup Ending
    BY <1>1 DEF Complete, Goto, JobInv, SingleOwner, Owns, Working
  <1>4. pc'[r] \in {"done", "forcing"} /\ \A q \in Runs : pc'[q] # "cleanup"
    BY <1>1, <1>2 DEF Complete, Goto, JobInv, ArtifactsFollowOwner
  <1>5. ClaimsAreGrounded'
    <2>1. pay' = pay \/ pay' = [NextPayload(pay, DoneStep) EXCEPT !.boot = FALSE]
      BY DEF Complete, SettleCompleted
    <2>2. pay'.intake = pay.intake
      BY <1>1, <2>1 DEF NextPayload, Payload
    <2> QED
      BY <1>2, <1>3, <1>4, <2>2 DEF JobInv, ClaimsAreGrounded, Ungrounded
  <1>6. CASE UNCHANGED <<status, pay, manifest, output>>
    <2>1. ArtifactsFollowOwner'
      BY <1>2, <1>3, <1>4, <1>6 DEF ArtifactsFollowOwner, Retryable, Working
    <2> QED
      BY <1>2, <1>5, <1>6, <2>1 DEF JobInv, Data, RunnableKeepsIntake,
         CompletedIsPublished, OnlyCompletedPublishes, SettledPayload
  <1>7. CASE SettleCompleted(r)
    <2>1. /\ manifest["narrative_text"] = "unvalidated"
          /\ blob["narrative_text"] = r
          /\ \/ manifest["eda_report"] = "absent"
             \/ manifest["eda_report"] = "unvalidated" /\ blob["eda_report"] = r
      BY DEF Complete, JobInv, ArtifactsFollowOwner
    <2>2. /\ manifest'["narrative_text"] = "published_v5"
          /\ manifest'["eda_report"] \in {"absent", "published_v5"}
          /\ manifest'["eda_report"] = "published_v5" => blob["eda_report"] = r
      BY <1>1, <1>7, <2>1 DEF SettleCompleted, MoveUnvalidated, Unvalidated, Kinds
    <2>3. output'.blueprint = r /\ output'.canonical = "final" /\ r # NoRun
      BY <1>7 DEF SettleCompleted
    <2>4. pay'.step = DoneStep /\ ~pay'.boot /\ pay'.intake # "lost"
      <3>1. pay' = [NextPayload(pay, DoneStep) EXCEPT !.boot = FALSE]
            /\ NextPayload(pay, DoneStep) \in Payload
        BY <1>1, <1>7, NextPayloadType DEF SettleCompleted, DoneStep
      <3>2. /\ NextPayload(pay, DoneStep).step = DoneStep
            /\ NextPayload(pay, DoneStep).intake # "lost"
        BY <1>1, <1>2, Zenon DEF NextPayload, Payload
      <3> QED
        BY <3>1, <3>2 DEF Payload
    <2>5. status' = "completed"
      BY <1>7 DEF SettleCompleted
    <2>6. ArtifactsFollowOwner'
      BY <1>3, <1>4, <2>5 DEF ArtifactsFollowOwner, Retryable, Working
    <2>7. CompletedIsPublished'
      BY <1>2, <2>1, <2>2, <2>3 DEF CompletedIsPublished, Unvalidated, Kinds
    <2> QED
      BY <1>5, <2>4, <2>5, <2>6, <2>7 DEF Data, RunnableKeepsIntake,
         OnlyCompletedPublishes, SettledPayload, Retryable
  <1> QED
    BY <1>6, <1>7 DEF Complete

-----------------------------------------------------------------------------
(* The inductive invariant and what follows from it *)

LEMMA InvInit == Init => JobInv
  <1> SUFFICES ASSUME Init PROVE JobInv
    OBVIOUS
  <1>1. TypeOK
    BY TypeInit
  <1>2. SingleOwner /\ ClaimsAreGrounded /\ ArtifactsFollowOwner
    BY DEF Init, SingleOwner, Owns, Working, Ending, ClaimsAreGrounded,
           ArtifactsFollowOwner
  <1>3. pay.intake # "lost"
    BY DEF Init, NewPayload
  <1> QED
    BY <1>1, <1>2, <1>3 DEF Init, JobInv, RunnableKeepsIntake,
       CompletedIsPublished, OnlyCompletedPublishes, SettledPayload

LEMMA InvNext ==
    ASSUME NoLostCommit
    PROVE  JobInv /\ [Next]_vars => JobInv'
  <1> SUFFICES ASSUME JobInv, [Next]_vars PROVE JobInv'
    OBVIOUS
  <1>1. CASE Next
    <2>1. TypeOK'
      BY <1>1, TypeNext DEF JobInv
    <2>2. SingleOwner'
      BY <1>1, SingleOwnerNext
    <2>3. Data'
      BY <1>1, DataUnmoved, DataClaim, DataFailGrounding, DataProgress,
         DataFailure, DataSave, DataComplete DEF Next, Worker
    <2> QED
      BY <2>1, <2>2, <2>3 DEF JobInv, Data
  <1>2. CASE UNCHANGED vars
    BY <1>2 DEF vars, row, artifacts, JobInv, TypeOK, SingleOwner, Owns,
       ClaimsAreGrounded, RunnableKeepsIntake, ArtifactsFollowOwner,
       CompletedIsPublished, OnlyCompletedPublishes, SettledPayload, Unvalidated
  <1> QED
    BY <1>1, <1>2

\* Whatever the number of deliveries, retries, crashes and failed transactions:
\* the inductive invariant of the job.
THEOREM JobInvariant ==
    ASSUME NoLostCommit
    PROVE  Spec => []JobInv
  <1>1. JobInv /\ [Next]_vars => JobInv'
    BY InvNext
  <1> QED
    BY <1>1, InvInit, PTL DEF Spec

\* One run at a time owns the job: the compare-and-set of run_job is a lock.
THEOREM OneOwner ==
    ASSUME NoLostCommit
    PROVE  Spec => []SingleOwner
  <1>1. Spec => []JobInv
    BY JobInvariant
  <1>2. JobInv => SingleOwner
    BY DEF JobInv
  <1> QED
    BY <1>1, <1>2, PTL

\* Artifacts are published exactly for a completed job, and are the text of
\* the run whose blueprint it holds (save_artifact, publish_job_artifacts).
THEOREM PublishedExactlyWhenCompleted ==
    ASSUME NoLostCommit
    PROVE  Spec => [](CompletedIsPublished /\ OnlyCompletedPublishes)
  <1>1. Spec => []JobInv
    BY JobInvariant
  <1>2. JobInv => CompletedIsPublished /\ OnlyCompletedPublishes
    BY DEF JobInv
  <1> QED
    BY <1>1, <1>2, PTL

\* The intake form is still in task_payload whenever a run may need it.
THEOREM IntakeIsKept ==
    ASSUME NoLostCommit
    PROVE  Spec => []RunnableKeepsIntake
  <1>1. Spec => []JobInv
    BY JobInvariant
  <1>2. JobInv => RunnableKeepsIntake
    BY DEF JobInv
  <1> QED
    BY <1>1, <1>2, PTL

\* No step moves a job out of completed or failed.
THEOREM TerminalIsFinal ==
    ASSUME NoLostCommit
    PROVE  Spec => TerminalStatusFinal
  <1>1. JobInv /\ [Next]_vars =>
           [(status \in {"completed", "failed"}) => status' = status]_vars
    <2> SUFFICES ASSUME JobInv, Next, status \in {"completed", "failed"}
                 PROVE  status' = status
      OBVIOUS
    <2>1. Keeps \/ Rejects \/ \E r \in Runs : Takes(r) \/ Settles(r)
      BY LockStep
    <2>2. \A r \in Runs : ~Takes(r) /\ ~Settles(r)
      BY DEF Takes, Settles, Retryable, JobInv, SingleOwner
    <2>3. Rejects => status' = status
      BY DEF Rejects, JobInv, ClaimsAreGrounded
    <2> QED
      BY <2>1, <2>2, <2>3 DEF Keeps
  <1>2. Spec => []JobInv
    BY JobInvariant
  <1> QED
    BY <1>1, <1>2, PTL DEF Spec, TerminalStatusFinal

-----------------------------------------------------------------------------
(* The job implements its lock *)

\* The mapped owner is the one run that owns the row, before and after a step.
LEMMA OwnerNow ==
    ASSUME SingleOwner
    PROVE  /\ \A r \in Runs : Owns(r) => Owner = r
           /\ (\A r \in Runs : ~Owns(r)) => Owner = NoRun
  <1>1. ASSUME NEW r \in Runs, Owns(r) PROVE Owner = r
    <2>1. \E q \in Runs : Owns(q)
      BY <1>1
    <2>2. PICK q \in Runs : q = (CHOOSE x \in Runs : Owns(x)) /\ Owns(q)
      BY <2>1, Zenon
    <2>3. q = r
      BY <1>1, <2>2 DEF SingleOwner
    <2> QED
      BY <2>1, <2>2, <2>3, Zenon DEF Owner
  <1> QED
    BY <1>1, Zenon DEF Owner

LEMMA OwnerNext ==
    ASSUME SingleOwner'
    PROVE  /\ \A r \in Runs : Owns(r)' => Owner' = r
           /\ (\A r \in Runs : ~Owns(r)') => Owner' = NoRun
  <1>1. ASSUME NEW r \in Runs, Owns(r)' PROVE Owner' = r
    <2>1. \E q \in Runs : Owns(q)'
      BY <1>1
    <2>2. PICK q \in Runs : q = (CHOOSE x \in Runs : Owns(x)') /\ Owns(q)'
      BY <2>1, Zenon
    <2>3. q = r
      BY <1>1, <2>2 DEF SingleOwner
    <2> QED
      BY <2>1, <2>2, <2>3, Zenon DEF Owner
  <1> QED
    BY <1>1, Zenon DEF Owner

\* The narrative is published for a completed job and for no other.
LEMMA PublishedIsCompleted ==
    ASSUME JobInv
    PROVE  (manifest["narrative_text"] = "published_v5") = (status = "completed")
  BY DEF JobInv, CompletedIsPublished, OnlyCompletedPublishes, Kinds

LEMMA PublishedIsCompletedNext ==
    ASSUME JobInv'
    PROVE  (manifest'["narrative_text"] = "published_v5") = (status' = "completed")
  BY DEF JobInv, CompletedIsPublished, OnlyCompletedPublishes, Kinds

LEMMA LifecycleInit == Init => Lifecycle!Init
  BY DEF Init, Lifecycle!Init, Owner, Owns, Working, Ending, Kinds

LEMMA LifecycleStep ==
    ASSUME NoLostCommit, JobInv, JobInv', [Next]_vars
    PROVE  [Lifecycle!Next]_(Lifecycle!vars)
  <1>1. SingleOwner /\ SingleOwner'
    BY DEF JobInv
  <1>2. /\ (manifest["narrative_text"] = "published_v5") = (status = "completed")
        /\ (manifest'["narrative_text"] = "published_v5") = (status' = "completed")
    BY PublishedIsCompleted, PublishedIsCompletedNext
  <1>3. ASSUME \A q \in Runs : Owns(q)' <=> Owns(q) PROVE Owner' = Owner
    BY <1>1, <1>3, OwnerNow, OwnerNext
  <1>4. CASE Keeps
    <2>1. status' = status /\ Owner' = Owner
      BY <1>3, <1>4 DEF Keeps
    <2>2. (manifest'["narrative_text"] = "published_v5")
             = (manifest["narrative_text"] = "published_v5")
      BY <1>2, <2>1
    <2> QED
      BY <2>1, <2>2 DEF Lifecycle!vars
  <1>5. CASE Rejects
    <2>1. status \in {"pending", "failed"} /\ status' = "failed" /\ Owner' = Owner
      BY <1>3, <1>5 DEF Rejects, JobInv, ClaimsAreGrounded
    <2>2. (manifest'["narrative_text"] = "published_v5")
             = (manifest["narrative_text"] = "published_v5")
      BY <1>2, <2>1
    <2> QED
      BY <2>1, <2>2 DEF Lifecycle!vars, Lifecycle!Next, Lifecycle!Reject,
                        Lifecycle!Retryable
  <1>6. ASSUME NEW r \in Runs, Takes(r) PROVE Lifecycle!Next
    <2>1. status \in {"pending", "failed_resumable"} /\ status' = "processing"
      BY <1>6 DEF Takes, Retryable
    <2>2. Owner = NoRun /\ Owner' = r
      BY <1>1, <1>6, <2>1, OwnerNow, OwnerNext DEF Takes, SingleOwner
    <2>3. (manifest'["narrative_text"] = "published_v5")
             = (manifest["narrative_text"] = "published_v5")
      BY <1>2, <2>1
    <2> QED
      BY <2>1, <2>2, <2>3 DEF Lifecycle!Next, Lifecycle!Claim, Lifecycle!Retryable
  <1>7. ASSUME NEW r \in Runs, Settles(r) PROVE Lifecycle!Next
    <2>1. status' \in {"completed", "failed", "failed_resumable"}
          /\ Owner = r /\ Owner' = NoRun
      BY <1>1, <1>7, OwnerNow, OwnerNext DEF Settles, SingleOwner
    <2> QED
      BY <1>2, <2>1 DEF Lifecycle!Next, Lifecycle!Settle, Lifecycle!Settled
  <1>8. CASE UNCHANGED vars
    <2>1. Keeps
      BY <1>8 DEF vars, row, Keeps, Owns
    <2> QED
      BY <1>4, <2>1
  <1> QED
    BY <1>4, <1>5, <1>6, <1>7, <1>8, LockStep

\* The authoring job implements the lock of JobLifecycle: each step maps to a
\* claim, a settlement by the owner, the rejection of a job that cannot be
\* grounded, or to nothing.
THEOREM JobImplementsLifecycle ==
    ASSUME NoLostCommit
    PROVE  Spec => ImplementsLifecycle
  <1>1. JobInv /\ JobInv' /\ [Next]_vars => [Lifecycle!Next]_(Lifecycle!vars)
    BY LifecycleStep
  <1>2. Spec => []JobInv
    BY JobInvariant
  <1> QED
    BY <1>1, <1>2, LifecycleInit, PTL DEF Spec, Lifecycle!Spec, ImplementsLifecycle

-----------------------------------------------------------------------------
(* A run comes to its end by itself, under every fault: the steps it has left
   are a natural number that each of its steps lowers and nothing raises *)

\* One value of the stream takes a round off those that are left.
LEMMA RoundsFacts ==
    /\ Round \in Nat /\ Ends \in Nat
    /\ \A p \in 0 .. NFlows + 1 :
          RoundsLeft(p) \in Nat /\ RoundsLeft(p) <= RoundsLeft(0)
    /\ \A p \in 0 .. NFlows : RoundsLeft(p) = RoundsLeft(p + 1) + Round
  <1>1. Round \in Nat /\ Ends \in Nat
    BY DEF Round, Ends
  <1>2. ASSUME NEW k \in Nat, NEW w \in Nat
        PROVE  k * w \in Nat /\ (k + 1) * w = k * w + w
    OBVIOUS
  <1>3. ASSUME NEW k \in Nat, NEW j \in Nat, NEW w \in Nat
        PROVE  (k + j) * w = k * w + j * w
    OBVIOUS
  <1>4. ASSUME NEW p \in 0 .. NFlows + 1
        PROVE  RoundsLeft(p) \in Nat /\ RoundsLeft(p) <= RoundsLeft(0)
    <2>1. /\ NFlows + 1 - p \in Nat /\ p \in Nat
          /\ (NFlows + 1 - p) + p = NFlows + 1 - 0
      OBVIOUS
    <2>2. (NFlows + 1 - p) * Round \in Nat /\ p * Round \in Nat
      BY <1>1, <1>2, <2>1, Zenon
    <2>3. ((NFlows + 1 - p) + p) * Round = (NFlows + 1 - p) * Round + p * Round
      <3> DEFINE k == NFlows + 1 - p
      <3>1. k \in Nat /\ p \in Nat
        BY <2>1
      <3> HIDE DEF k
      <3>2. (k + p) * Round = k * Round + p * Round
        BY <1>1, <1>3, <3>1
      <3> QED
        BY <3>2 DEF k
    <2>4. (NFlows + 1 - 0) * Round = (NFlows + 1 - p) * Round + p * Round
      BY <2>1, <2>3, Zenon
    <2> QED
      BY <2>2, <2>4 DEF RoundsLeft
  <1>5. ASSUME NEW p \in 0 .. NFlows
        PROVE  RoundsLeft(p) = RoundsLeft(p + 1) + Round
    <2>1. NFlows - p \in Nat /\ NFlows + 1 - (p + 1) = NFlows - p
          /\ NFlows + 1 - p = (NFlows - p) + 1
      OBVIOUS
    <2> QED
      BY <1>1, <1>2, <2>1, Zenon DEF RoundsLeft
  <1> QED
    BY <1>1, <1>4, <1>5

\* The steps left at each control state.
LEMMA StepsTable ==
    ASSUME NEW s
    PROVE  /\ StepsFrom("queued", s) = Ends + 4 + RoundsLeft(0) + 5
           /\ StepsFrom("entered", s) = Ends + 4 + RoundsLeft(0) + 4
           /\ StepsFrom("claiming", s) = Ends + 4 + RoundsLeft(0) + 3
           /\ StepsFrom("prefetch", s) = Ends + 4 + RoundsLeft(0) + 2
           /\ StepsFrom("bootstrap", s) = Ends + 4 + RoundsLeft(0) + 1
           /\ StepsFrom("streaming", s) = Ends + 4 + RoundsLeft(s.pos)
           /\ StepsFrom("preview", s) = Ends + 5 + RoundsLeft(s.pos)
           /\ StepsFrom("degrading", s) = Ends + 6 + RoundsLeft(s.pos)
           /\ StepsFrom("persisting", s)
                = Ends + 7 + RoundsLeft(s.pos) + MaxAttempts - s.tries
           /\ StepsFrom("finalizing", s) = Ends + 3
           /\ StepsFrom("savingEda", s) = Ends + 2
           /\ StepsFrom("completing", s) = Ends + 1
           /\ StepsFrom("failing", s) = Ends + 1
           /\ StepsFrom("forcing", s) = Ends - s.tries
           /\ \A l \in {"cleanup", "groundingFailed"} : StepsFrom(l, s) = 1
           /\ \A l \in {"idle", "done", "crashed", "exhausted", "stranded"} :
                 StepsFrom(l, s) = 0
  BY DEF StepsFrom, Before, After

\* The run goes to l with the locals s, and the other runs stay where they are.
Goes(r, l, s) == /\ pc'[r] = l /\ loc'[r] = s
                 /\ \A q \in Runs \ {r} : pc'[q] = pc[q] /\ loc'[q] = loc[q]

LEMMA GoesFacts ==
    ASSUME NEW r \in Runs, NEW l, pc \in [Runs -> Control], loc \in [Runs -> Locals]
    PROVE  /\ Leave(r, l) => Goes(r, l, NoLocals)
           /\ Goto(r, l) /\ UNCHANGED loc => Goes(r, l, loc[r])
           /\ \A e : FailWith(r, e)
                 => Goes(r, "failing", [NoLocals EXCEPT !.err = e])
           /\ Retry(r, l) =>
                 \/ \E s \in Locals :
                       /\ Goes(r, pc[r], s) /\ s.pos = loc[r].pos
                       /\ s.tries = loc[r].tries + 1
                 \/ \E s \in Locals : Goes(r, l, s) /\ s.pos = loc[r].pos
  <1>1. Leave(r, l) => Goes(r, l, NoLocals)
    BY DEF Leave, Goto, Goes
  <1>2. Goto(r, l) /\ UNCHANGED loc => Goes(r, l, loc[r])
    BY DEF Goto, Goes
  <1>3. ASSUME NEW e, FailWith(r, e)
        PROVE  Goes(r, "failing", [NoLocals EXCEPT !.err = e])
    BY <1>3 DEF FailWith, Goto, Goes
  <1>4. ASSUME Retry(r, l), loc[r].tries + 1 < MaxAttempts
        PROVE  \E s \in Locals :
                  /\ Goes(r, pc[r], s) /\ s.pos = loc[r].pos
                  /\ s.tries = loc[r].tries + 1
    <2> DEFINE s == [loc[r] EXCEPT !.tries = @ + 1]
    <2>1. s \in Locals /\ s.pos = loc[r].pos /\ s.tries = loc[r].tries + 1
      BY <1>4 DEF Locals
    <2>2. Goes(r, pc[r], s)
      BY <1>4 DEF Retry, Goes
    <2> QED
      BY <2>1, <2>2
  <1>5. ASSUME Retry(r, l), ~(loc[r].tries + 1 < MaxAttempts)
        PROVE  \E s \in Locals : Goes(r, l, s) /\ s.pos = loc[r].pos
    <2> DEFINE s == [loc[r] EXCEPT !.tries = 0, !.cur = NoStep]
    <2>1. 0 \in 0 .. MaxAttempts /\ NoStep \in 0 .. NFlows
      BY DEF NoStep
    <2>2. s \in Locals /\ s.pos = loc[r].pos
      BY <2>1, Zenon DEF Locals
    <2>3. Goes(r, l, s)
      BY <1>5 DEF Retry, Goto, Goes
    <2> QED
      BY <2>2, <2>3
  <1> QED
    BY <1>1, <1>2, <1>3, <1>4, <1>5

\* What one step of a run does to the steps it has left.
Lowers(r) == /\ WorkLeft(r) \in Nat /\ WorkLeft(r)' < WorkLeft(r)
             /\ \A q \in Runs \ {r} : WorkLeft(q)' = WorkLeft(q)

\* It is enough to know where the run went.
LEMMA GoesLowers ==
    ASSUME NEW r \in Runs, NEW l, NEW s, Goes(r, l, s),
           StepsFrom(pc[r], loc[r]) \in Nat,
           StepsFrom(l, s) < StepsFrom(pc[r], loc[r])
    PROVE  Lowers(r)
  BY DEF Lowers, WorkLeft, Goes

\* Where StepsFrom reads the locals they bound it.
LEMMA LocalsFacts ==
    ASSUME NEW s \in Locals
    PROVE  /\ s.pos \in 0 .. NFlows + 1 /\ s.tries \in 0 .. MaxAttempts
           /\ RoundsLeft(s.pos) \in Nat
  BY RoundsFacts DEF Locals

LEMMA StartLowers ==
    ASSUME TypeOK, NEW r \in Runs,
           \/ Deliver(r) \/ ReadJob(r) \/ Claim(r) \/ LoseClaim(r)
           \/ ClaimWithoutGrounding(r) \/ FailGrounding(r) \/ Prefetch(r)
           \/ Bootstrap(r)
    PROVE  Lowers(r)
  <1>1. pc \in [Runs -> Control] /\ loc \in [Runs -> Locals]
    BY DEF TypeOK
  <1>2. Ends \in Nat /\ RoundsLeft(0) \in Nat
    BY RoundsFacts
  <1>3. CASE Deliver(r)
    <2>1. pc[r] = "queued" /\ \E l \in {"entered", "done"} : Goes(r, l, loc[r])
      BY <1>1, <1>3, GoesFacts DEF Deliver
    <2> QED
      BY <1>2, <2>1, GoesLowers, StepsTable
  <1>4. CASE ReadJob(r)
    <2>1. pc[r] = "entered"
          /\ \E l \in {"claiming", "done"} : \E s : Goes(r, l, s)
      <3>1. CASE status \in Retryable
        <4>1. Goes(r, "claiming",
                   [loc[r] EXCEPT !.was = status, !.read = pay])
          BY <1>1, <1>4, <3>1 DEF ReadJob, Goto, Goes
        <4> QED
          BY <1>4, <4>1 DEF ReadJob
      <3>2. CASE status \notin Retryable
        BY <1>1, <1>4, <3>2, GoesFacts DEF ReadJob
      <3> QED
        BY <3>1, <3>2
    <2> QED
      BY <1>2, <2>1, GoesLowers, StepsTable
  <1>5. CASE Claim(r)
    <2>1. pc[r] = "claiming"
          /\ \E l \in {"prefetch", "bootstrap", "done", "stranded"} : \E s : Goes(r, l, s)
      <3>1. CASE Leave(r, "done") \/ Leave(r, "stranded")
        BY <1>1, <1>5, <3>1, GoesFacts DEF Claim
      <3>2. CASE ~(Leave(r, "done") \/ Leave(r, "stranded"))
        <4>1. PICK l \in {"prefetch", "bootstrap"} : Goto(r, l)
          BY <1>5, <3>2 DEF Claim
        <4>2. loc' = [loc EXCEPT ![r] =
                        [NoLocals EXCEPT !.rep = Reported(loc[r].read)]]
          BY <1>5, <3>2 DEF Claim
        <4>3. Goes(r, l, [NoLocals EXCEPT !.rep = Reported(loc[r].read)])
          BY <1>1, <4>1, <4>2 DEF Goto, Goes
        <4> QED
          BY <1>5, <4>3 DEF Claim
      <3> QED
        BY <3>1, <3>2
    <2> QED
      BY <1>2, <2>1, GoesLowers, StepsTable
  <1>6. CASE LoseClaim(r)
    <2>1. pc[r] = "claiming" /\ Goes(r, "done", NoLocals)
      BY <1>1, <1>6, GoesFacts DEF LoseClaim
    <2> QED
      BY <1>2, <2>1, GoesLowers, StepsTable
  <1>7. CASE ClaimWithoutGrounding(r)
    <2>1. pc[r] = "claiming" /\ Goes(r, "groundingFailed", loc[r])
      BY <1>1, <1>7, GoesFacts DEF ClaimWithoutGrounding
    <2> QED
      BY <1>2, <2>1, GoesLowers, StepsTable
  <1>8. CASE FailGrounding(r)
    <2>1. pc[r] = "groundingFailed" /\ Goes(r, "done", NoLocals)
      BY <1>1, <1>8, GoesFacts DEF FailGrounding
    <2> QED
      BY <2>1, GoesLowers, StepsTable
  <1>9. CASE Prefetch(r)
    <2>1. pc[r] = "prefetch" /\ Goes(r, "bootstrap", loc[r])
      BY <1>1, <1>9, GoesFacts DEF Prefetch
    <2> QED
      BY <1>2, <2>1, GoesLowers, StepsTable
  <1>10. CASE Bootstrap(r)
    <2>1. pc[r] = "bootstrap"
      BY <1>10 DEF Bootstrap
    <2>2. CASE Goto(r, "streaming") /\ UNCHANGED loc
      <3>1. Goes(r, "streaming", loc[r])
        BY <1>1, <2>2, GoesFacts
      <3>2. loc[r].pos \in 0 .. NFlows + 1 /\ RoundsLeft(loc[r].pos) \in Nat
        BY <1>1, LocalsFacts
      <3>3. RoundsLeft(loc[r].pos) <= RoundsLeft(0)
        BY <3>2, RoundsFacts
      <3> QED
        BY <1>2, <2>1, <3>1, <3>2, <3>3, GoesLowers, StepsTable
    <2>3. CASE \E e : FailWith(r, e)
      <3>1. \E s : Goes(r, "failing", s)
        BY <1>1, <2>3, GoesFacts
      <3> QED
        BY <1>2, <2>1, <3>1, GoesLowers, StepsTable
    <2> QED
      BY <1>10, <2>2, <2>3 DEF Bootstrap
  <1> QED
    BY <1>3, <1>4, <1>5, <1>6, <1>7, <1>8, <1>9, <1>10

LEMMA StreamLowers ==
    ASSUME TypeOK, NEW r \in Runs,
           \/ StreamEvent(r) \/ EndStream(r) \/ GraphRaises(r)
           \/ PersistStep(r) \/ DegradeProgress(r) \/ PersistPreview(r)
    PROVE  Lowers(r)
  <1>1. pc \in [Runs -> Control] /\ loc \in [Runs -> Locals]
    BY DEF TypeOK
  <1>2. /\ Ends \in Nat /\ RoundsLeft(loc[r].pos) \in Nat
        /\ loc[r].pos \in 0 .. NFlows + 1 /\ loc[r].tries \in 0 .. MaxAttempts
    BY <1>1, RoundsFacts, LocalsFacts
  <1>3. CASE StreamEvent(r)
    <2>1. pc[r] = "streaming" /\ loc[r].pos \in 0 .. NFlows
      BY <1>2, <1>3 DEF StreamEvent
    <2>2. PICK l \in {"persisting", "streaming"} : \E c :
             /\ Goto(r, l)
             /\ loc' = [loc EXCEPT ![r].pos = loc[r].pos + 1, ![r].cur = c]
      BY <1>3, Zenon DEF StreamEvent
    <2> PICK c : loc' = [loc EXCEPT ![r].pos = loc[r].pos + 1, ![r].cur = c]
      BY <2>2
    <2> DEFINE s == [loc[r] EXCEPT !.pos = loc[r].pos + 1, !.cur = c]
    <2>3. Goes(r, l, s)
      BY <1>1, <2>2 DEF Goto, Goes
    <2>4. s.pos = loc[r].pos + 1 /\ s.tries = loc[r].tries
      BY <1>1 DEF Locals
    <2>5. /\ RoundsLeft(loc[r].pos) = RoundsLeft(loc[r].pos + 1) + MaxAttempts + 4
          /\ RoundsLeft(loc[r].pos + 1) \in Nat
      BY <2>1, RoundsFacts DEF Round
    <2>6. /\ StepsFrom("streaming", s) = Ends + 4 + RoundsLeft(s.pos)
          /\ StepsFrom("persisting", s)
               = Ends + 7 + RoundsLeft(s.pos) + MaxAttempts - s.tries
          /\ StepsFrom("streaming", loc[r]) = Ends + 4 + RoundsLeft(loc[r].pos)
      BY StepsTable
    <2>7. StepsFrom(l, s) < StepsFrom(pc[r], loc[r])
          /\ StepsFrom(pc[r], loc[r]) \in Nat
      <3> HIDE DEF s
      <3> QED
        BY <1>2, <2>1, <2>2, <2>4, <2>5, <2>6
    <2> QED
      BY <2>3, <2>7, GoesLowers
  <1>4. CASE EndStream(r)
    <2>1. pc[r] = "streaming" /\ Goes(r, "finalizing", NoLocals)
      BY <1>1, <1>4, GoesFacts DEF EndStream
    <2> QED
      BY <1>2, <2>1, GoesLowers, StepsTable
  <1>5. CASE GraphRaises(r)
    <2>1. pc[r] \in {"streaming", "persisting"} /\ \E s : Goes(r, "failing", s)
      BY <1>1, <1>5, GoesFacts DEF GraphRaises
    <2> QED
      BY <1>2, <2>1, GoesLowers, StepsTable
  <1>6. CASE PersistStep(r)
    <2>1. pc[r] = "persisting"
      BY <1>6 DEF PersistStep
    <2>2. \/ \E s : Goes(r, "preview", s) /\ s.pos = loc[r].pos
          \/ Retry(r, "degrading")
      <3>1. CASE Goto(r, "preview") /\ loc' =
                   [loc EXCEPT ![r].rep = loc[r].cur, ![r].cur = NoStep,
                               ![r].tries = 0]
        <4> DEFINE s == [loc[r] EXCEPT !.rep = loc[r].cur, !.cur = NoStep,
                                       !.tries = 0]
        <4>1. Goes(r, "preview", s)
          BY <1>1, <3>1 DEF Goto, Goes
        <4>2. s.pos = loc[r].pos
          BY <1>1 DEF Locals
        <4> QED
          BY <4>1, <4>2
      <3> QED
        BY <1>6, <3>1, Zenon DEF PersistStep
    <2>3. CASE Retry(r, "degrading")
      <3>1. \/ \E s \in Locals :
                  /\ Goes(r, pc[r], s) /\ s.pos = loc[r].pos
                  /\ s.tries = loc[r].tries + 1
            \/ \E s \in Locals : Goes(r, "degrading", s) /\ s.pos = loc[r].pos
        BY <1>1, <2>3, GoesFacts
      <3> QED
        BY <1>2, <2>1, <3>1, GoesLowers, StepsTable
    <2>4. CASE \E s : Goes(r, "preview", s) /\ s.pos = loc[r].pos
      BY <1>2, <2>1, <2>4, GoesLowers, StepsTable
    <2> QED
      BY <2>2, <2>3, <2>4
  <1>7. CASE DegradeProgress(r)
    <2>1. pc[r] = "degrading" /\ Goes(r, "preview", loc[r])
      BY <1>1, <1>7, GoesFacts DEF DegradeProgress
    <2> QED
      BY <1>2, <2>1, GoesLowers, StepsTable
  <1>8. CASE PersistPreview(r)
    <2>1. pc[r] = "preview" /\ Goes(r, "streaming", loc[r])
      BY <1>1, <1>8, GoesFacts DEF PersistPreview
    <2> QED
      BY <1>2, <2>1, GoesLowers, StepsTable
  <1> QED
    BY <1>3, <1>4, <1>5, <1>6, <1>7, <1>8

LEMMA OutcomeLowers ==
    ASSUME TypeOK, NEW r \in Runs,
           \/ RecordFailure(r) \/ SaveNarrative(r) \/ SaveEda(r)
           \/ Complete(r) \/ ForceFail(r) \/ OrphanArtifacts(r)
    PROVE  Lowers(r)
  <1>1. pc \in [Runs -> Control] /\ loc \in [Runs -> Locals]
    BY DEF TypeOK
  <1>2. Ends \in Nat /\ Ends = MaxAttempts + 2
    BY DEF Ends
  <1>3. loc[r].tries \in 0 .. MaxAttempts /\ NoLocals.tries \in 0 .. MaxAttempts
    BY <1>1, LocalsFacts, NoLocalsType
  <1>4. CASE RecordFailure(r)
    <2>1. pc[r] = "failing"
          /\ \E l \in {"done", "forcing"} : Goes(r, l, NoLocals)
      BY <1>1, <1>4, GoesFacts DEF RecordFailure
    <2> QED
      BY <1>2, <1>3, <2>1, GoesLowers, StepsTable
  <1>5. CASE SaveNarrative(r)
    <2>1. pc[r] = "finalizing"
          /\ \E l \in {"savingEda", "forcing"} : Goes(r, l, loc[r])
      BY <1>1, <1>5, GoesFacts DEF SaveNarrative, SaveArtifact
    <2> QED
      BY <1>2, <1>3, <2>1, GoesLowers, StepsTable
  <1>6. CASE SaveEda(r)
    <2>1. pc[r] = "savingEda"
          /\ \E l \in {"completing", "forcing"} : Goes(r, l, loc[r])
      BY <1>1, <1>6, GoesFacts DEF SaveEda, SaveArtifact
    <2> QED
      BY <1>2, <1>3, <2>1, GoesLowers, StepsTable
  <1>7. CASE Complete(r)
    <2>1. pc[r] = "completing"
          /\ \E l \in {"done", "forcing"} : Goes(r, l, loc[r])
      BY <1>1, <1>7, GoesFacts DEF Complete
    <2> QED
      BY <1>2, <1>3, <2>1, GoesLowers, StepsTable
  <1>8. CASE ForceFail(r)
    <2>1. pc[r] = "forcing"
      BY <1>8 DEF ForceFail
    <2>2. CASE Leave(r, "cleanup")
      <3>1. Goes(r, "cleanup", NoLocals)
        BY <1>1, <2>2, GoesFacts
      <3> QED
        BY <1>2, <1>3, <2>1, <3>1, GoesLowers, StepsTable
    <2>3. CASE Retry(r, "exhausted")
      <3>1. \/ \E s \in Locals :
                  Goes(r, "forcing", s) /\ s.tries = loc[r].tries + 1
            \/ \E s \in Locals : Goes(r, "exhausted", s)
        BY <1>1, <2>1, <2>3, GoesFacts
      <3>2. \A s \in Locals : s.tries \in 0 .. MaxAttempts
        BY LocalsFacts
      <3> QED
        BY <1>2, <1>3, <2>1, <3>1, <3>2, GoesLowers, StepsTable
    <2> QED
      BY <1>8, <2>2, <2>3 DEF ForceFail
  <1>9. CASE OrphanArtifacts(r)
    <2>1. pc[r] = "cleanup" /\ Goes(r, "done", loc[r])
      BY <1>1, <1>9, GoesFacts DEF OrphanArtifacts
    <2> QED
      BY <2>1, GoesLowers, StepsTable
  <1> QED
    BY <1>4, <1>5, <1>6, <1>7, <1>8, <1>9

\* The steps left are always counted by a natural number.
LEMMA StepsType ==
    ASSUME NEW l \in Control, NEW s \in Locals
    PROVE  StepsFrom(l, s) \in Nat
  <1>1. /\ RoundsLeft(0) \in Nat /\ RoundsLeft(s.pos) \in Nat
        /\ s.tries \in 0 .. MaxAttempts
        /\ Ends \in Nat /\ Ends = MaxAttempts + 2
    BY RoundsFacts, LocalsFacts DEF Ends
  <1>2. l \in {"queued", "entered", "claiming", "prefetch", "bootstrap",
               "streaming", "preview", "degrading", "persisting",
               "finalizing", "savingEda", "completing", "failing", "forcing",
               "cleanup", "groundingFailed",
               "idle", "done", "crashed", "exhausted", "stranded"}
    BY DEF Control, Working, Ending, Waiting, Over
  <1> QED
    BY <1>1, <1>2, StepsTable

LEMMA WorkerLowers ==
    ASSUME TypeOK, NEW r \in Runs, Worker(r)
    PROVE  Lowers(r)
  BY StartLowers, StreamLowers, OutcomeLowers DEF Worker

\* The environment hands over a delivery that has not begun, or ends a run.
LEMMA FaultAddsNothing ==
    ASSUME TypeOK, NEW r \in Runs,
           DispatchJob(r) \/ Redeliver(r) \/ Crash(r)
    PROVE  /\ pc[r] # "idle" => WorkLeft(r)' <= WorkLeft(r)
           /\ \A q \in Runs \ {r} : WorkLeft(q)' = WorkLeft(q)
  <1>1. pc \in [Runs -> Control] /\ loc \in [Runs -> Locals]
    BY DEF TypeOK
  <1>2. CASE DispatchJob(r) \/ Redeliver(r)
    <2>1. pc[r] = "idle" /\ Goes(r, "queued", loc[r])
      BY <1>1, <1>2, GoesFacts DEF DispatchJob, Redeliver
    <2> QED
      BY <2>1 DEF Goes, WorkLeft
  <1>3. CASE Crash(r)
    <2>1. \E l \in {"crashed", "done"} : Goes(r, l, NoLocals)
      BY <1>1, <1>3, GoesFacts DEF Crash
    <2>2. WorkLeft(r) \in Nat
      BY <1>1, StepsType DEF WorkLeft
    <2>3. WorkLeft(r)' = 0
      BY <2>1, StepsTable DEF WorkLeft, Goes
    <2>4. \A q \in Runs \ {r} : WorkLeft(q)' = WorkLeft(q)
      BY <2>1 DEF Goes, WorkLeft
    <2> QED
      BY <2>2, <2>3, <2>4
  <1> QED
    BY <1>2, <1>3

\* A delivered run comes to its end by itself, for every number of flows,
\* attempts and deliveries and under every fault: each of its steps leaves
\* fewer of at most WorkLeft, and nothing that any other run, a redelivery or
\* a crash does adds to them (the loops of run_job are bounded).
THEOREM RunsComeToAnEnd == Spec => RunsFinish
  <1>1. ASSUME TypeOK, [Next]_vars, NEW r \in Runs
        PROVE  /\ Worker(r) => WorkLeft(r) \in Nat /\ WorkLeft(r)' < WorkLeft(r)
               /\ pc[r] # "idle" => WorkLeft(r)' <= WorkLeft(r)
    <2>1. Worker(r) => Lowers(r)
      BY <1>1, WorkerLowers
    <2>2. WorkLeft(r) \in Nat
      BY <1>1, StepsType DEF WorkLeft, TypeOK
    <2>3. CASE \E q \in Runs \ {r} :
                  DispatchJob(q) \/ Redeliver(q) \/ Crash(q) \/ Worker(q)
      <3>1. WorkLeft(r)' = WorkLeft(r)
        BY <1>1, <2>3, FaultAddsNothing, WorkerLowers DEF Lowers
      <3> QED
        BY <2>1, <2>2, <3>1 DEF Lowers
    <2>4. CASE DispatchJob(r) \/ Redeliver(r) \/ Crash(r)
      <3>1. pc[r] # "idle" => WorkLeft(r)' <= WorkLeft(r)
        BY <1>1, <2>4, FaultAddsNothing
      <3> QED
        BY <2>1, <3>1 DEF Lowers
    <2>5. CASE Worker(r)
      <3> DEFINE now == WorkLeft(r)
                 next == WorkLeft(r)'
      <3>1. now \in Nat /\ next < now
        BY <2>1, <2>5 DEF Lowers
      <3>2. next \in Nat
        BY <1>1, TypeNext, StepsType DEF WorkLeft, TypeOK
      <3> HIDE DEF now, next
      <3>3. next <= now
        BY <3>1, <3>2
      <3> QED
        BY <3>1, <3>3 DEF now, next
    <2>6. CASE UNCHANGED vars
      <3>1. WorkLeft(r)' = WorkLeft(r)
        BY <2>6 DEF vars, WorkLeft
      <3> QED
        BY <2>1, <2>2, <3>1 DEF Lowers
    <2> QED
      BY <1>1, <2>3, <2>4, <2>5, <2>6 DEF Next
  <1>2. TypeOK /\ [Next]_vars =>
          [\A r \in Runs :
             /\ Worker(r) => WorkLeft(r) \in Nat /\ WorkLeft(r)' < WorkLeft(r)
             /\ pc[r] # "idle" => WorkLeft(r)' <= WorkLeft(r)]_vars
    BY <1>1
  <1>3. Spec => []TypeOK
    BY TypeCorrect
  <1> QED
    BY <1>2, <1>3, PTL DEF Spec, RunsFinish

-----------------------------------------------------------------------------
(* What holds under every fault, commits with a lost answer included *)

\* FaultInv but for the types, which have been proved.
Unharmed == /\ OneWorker
            /\ UngroundedIsIdle
            /\ ArtifactsFollowWorker
            /\ CompletedHasOutput
            /\ OnlyCompletedPublishes

LEMMA FaultUnmoved ==
    ASSUME FaultInv, NEW r \in Runs,
           \/ DispatchJob(r) \/ Redeliver(r) \/ Deliver(r) \/ Crash(r)
           \/ ReadJob(r) \/ LoseClaim(r) \/ ClaimWithoutGrounding(r)
           \/ Prefetch(r) \/ Bootstrap(r) \/ StreamEvent(r) \/ EndStream(r)
           \/ GraphRaises(r)
    PROVE  Unharmed'
  <1>1. UNCHANGED <<row, artifacts>>
    BY DEF DispatchJob, Redeliver, Deliver, Crash, ReadJob, LoseClaim,
           ClaimWithoutGrounding, Prefetch, Bootstrap, StreamEvent, EndStream,
           GraphRaises
  <1>2. CompletedHasOutput' /\ OnlyCompletedPublishes'
    BY <1>1 DEF FaultInv, row, artifacts, CompletedHasOutput,
                OnlyCompletedPublishes, Unvalidated
  <1>3. /\ pc \in [Runs -> Control] /\ loc \in [Runs -> Locals]
        /\ \A q \in Runs \ {r} : pc'[q] = pc[q] /\ loc'[q] = loc[q]
    BY DEF FaultInv, TypeOK, DispatchJob, Redeliver, Deliver, Crash, ReadJob,
           LoseClaim, ClaimWithoutGrounding, Prefetch, Bootstrap, StreamEvent,
           EndStream, GraphRaises, FailWith, Leave, Goto
  <1>4. /\ pc'[r] \notin {"savingEda", "completing"}
        /\ pc'[r] \in Working => pc[r] \in Working \ {"savingEda", "completing"}
        /\ Owns(r)' => Owns(r)
    BY <1>3 DEF DispatchJob, Redeliver, Deliver, Crash, ReadJob, LoseClaim,
                ClaimWithoutGrounding, Prefetch, Bootstrap, StreamEvent, EndStream,
                GraphRaises, FailWith, Leave, Goto, Owns, Working, Ending
  <1>5. OneWorker' /\ ArtifactsFollowWorker'
    BY <1>1, <1>3, <1>4 DEF FaultInv, OneWorker, ArtifactsFollowWorker, row, artifacts
  <1>6. /\ pc'[r] = "groundingFailed" =>
              Ungrounded(pay) /\ Ungrounded(loc'[r].read)
        /\ pc'[r] = "claiming" => (Ungrounded(loc'[r].read) <=> Ungrounded(pay))
    <2>1. CASE ReadJob(r)
      <3>1. CASE status \in Retryable
        <4>1. loc'[r].read = pay
          BY <2>1, <3>1 DEF ReadJob, FaultInv, TypeOK, Locals
        <4> QED
          BY <1>3, <2>1, <3>1, <4>1 DEF ReadJob, Goto
      <3>2. CASE status \notin Retryable
        BY <1>3, <2>1, <3>2 DEF ReadJob, Leave, Goto
      <3> QED
        BY <3>1, <3>2
    <2>2. CASE LoseClaim(r) \/ ClaimWithoutGrounding(r)
      BY <1>3, <2>2 DEF LoseClaim, ClaimWithoutGrounding, Leave, Goto, FaultInv,
                        UngroundedIsIdle
    <2>3. CASE \/ DispatchJob(r) \/ Redeliver(r) \/ Deliver(r) \/ Crash(r)
               \/ Prefetch(r) \/ Bootstrap(r) \/ StreamEvent(r) \/ EndStream(r)
               \/ GraphRaises(r)
      BY <1>3, <2>3 DEF DispatchJob, Redeliver, Deliver, Crash, Prefetch,
                        Bootstrap, StreamEvent, EndStream, GraphRaises, FailWith,
                        Leave, Goto
    <2> QED
      BY <2>1, <2>2, <2>3
  <1>7. UngroundedIsIdle'
    BY <1>1, <1>3, <1>4, <1>6 DEF FaultInv, UngroundedIsIdle, Owns, row
  <1> QED
    BY <1>2, <1>5, <1>7 DEF Unharmed

LEMMA FaultClaim ==
    ASSUME FaultInv, NEW r \in Runs, Claim(r)
    PROVE  Unharmed'
  <1>1. /\ pc \in [Runs -> Control] /\ loc \in [Runs -> Locals]
        /\ pc[r] = "claiming" /\ status \in Retryable
        /\ UNCHANGED artifacts /\ ~Ungrounded(loc[r].read)
    BY DEF FaultInv, TypeOK, Claim, Claimable
  <1>2. ~Ungrounded(pay) /\ \A q \in Runs : pc[q] \notin Working
    BY <1>1 DEF FaultInv, UngroundedIsIdle, OneWorker, Retryable
  <1>3. \A q \in Runs \ {r} : pc'[q] = pc[q] /\ loc'[q] = loc[q]
    BY <1>1 DEF Claim, Leave, Goto
  <1>4. CASE TakeJob(r)
    <2>1. status' = "processing"
      BY <1>4 DEF TakeJob
    <2>2. ~Ungrounded(pay')
      <3>1. loc[r].read \in Payload
        BY <1>1 DEF Locals
      <3>2. pay'.intake = loc[r].read.intake
        BY <1>4, <3>1 DEF TakeJob, ProcessingPayload, NextPayload, Payload
      <3> QED
        BY <1>1, <3>2 DEF Ungrounded
    <2>3. pc'[r] \in {"prefetch", "bootstrap", "stranded", "done"}
      BY <1>1 DEF Claim, Leave, Goto
    <2>4. OneWorker' /\ UngroundedIsIdle'
      BY <1>2, <1>3, <2>1, <2>2, <2>3 DEF FaultInv, OneWorker, UngroundedIsIdle
    <2>5. ArtifactsFollowWorker'
      BY <1>1, <1>2, <1>3, <2>3
         DEF FaultInv, ArtifactsFollowWorker, Working, artifacts
    <2>6. CompletedHasOutput' /\ OnlyCompletedPublishes'
      BY <1>1, <2>1 DEF FaultInv, CompletedHasOutput, OnlyCompletedPublishes,
                        Retryable, artifacts
    <2> QED
      BY <2>4, <2>5, <2>6 DEF Unharmed
  <1>5. CASE UNCHANGED row /\ Leave(r, "done")
    <2>1. pc'[r] = "done"
      BY <1>1, <1>5 DEF Leave, Goto
    <2>2. OneWorker' /\ UngroundedIsIdle' /\ ArtifactsFollowWorker'
      BY <1>1, <1>2, <1>3, <1>5, <2>1
         DEF FaultInv, OneWorker, UngroundedIsIdle, ArtifactsFollowWorker, Owns,
             Working, Ending, row, artifacts
    <2>3. CompletedHasOutput' /\ OnlyCompletedPublishes'
      BY <1>1, <1>5 DEF FaultInv, CompletedHasOutput, OnlyCompletedPublishes,
                        Unvalidated, row, artifacts
    <2> QED
      BY <2>2, <2>3 DEF Unharmed
  <1> QED
    BY <1>4, <1>5 DEF Claim

LEMMA FaultFailGrounding ==
    ASSUME FaultInv, NEW r \in Runs, FailGrounding(r)
    PROVE  Unharmed'
  <1>1. /\ pc \in [Runs -> Control] /\ loc \in [Runs -> Locals]
        /\ Ungrounded(pay) /\ Ungrounded(loc[r].read)
        /\ status \in {"pending", "failed"} /\ UNCHANGED artifacts
        /\ \A q \in Runs : ~Owns(q)
    BY DEF FaultInv, TypeOK, UngroundedIsIdle, FailGrounding
  <1>2. Ungrounded(pay')
    <2>1. loc[r].read \in Payload
      BY <1>1 DEF Locals
    <2>2. /\ ProcessingPayload(loc[r].read) \in Payload
          /\ Ungrounded(ProcessingPayload(loc[r].read))
      BY <1>1, <2>1, ProcessingPayloadType
         DEF ProcessingPayload, NextPayload, Ungrounded, Payload
    <2>3. Ungrounded(NextPayload(ProcessingPayload(loc[r].read), FailedStep))
      BY <2>2 DEF NextPayload, Ungrounded, Payload
    <2> QED
      BY <1>1, <2>3 DEF FailGrounding, row
  <1>3. status' = "failed" \/ status' = status
    BY DEF FailGrounding, row
  <1>4. /\ pc'[r] = "done"
        /\ \A q \in Runs \ {r} : pc'[q] = pc[q] /\ loc'[q] = loc[q]
    BY <1>1 DEF FailGrounding, Leave, Goto
  <1>5. \A q \in Runs : ~Owns(q)'
    BY <1>1, <1>4 DEF Owns, Working, Ending
  <1>6. OneWorker' /\ UngroundedIsIdle'
    BY <1>1, <1>2, <1>3, <1>4, <1>5 DEF FaultInv, OneWorker, UngroundedIsIdle, Owns
  <1>7. ArtifactsFollowWorker'
    BY <1>1, <1>3, <1>5 DEF FaultInv, ArtifactsFollowWorker, Owns, Retryable,
                            Working, artifacts
  <1>8. CompletedHasOutput' /\ OnlyCompletedPublishes'
    BY <1>1, <1>3 DEF FaultInv, CompletedHasOutput, OnlyCompletedPublishes, artifacts
  <1> QED
    BY <1>6, <1>7, <1>8 DEF Unharmed

LEMMA FaultProgress ==
    ASSUME FaultInv, NEW r \in Runs,
           PersistStep(r) \/ DegradeProgress(r) \/ PersistPreview(r)
    PROVE  Unharmed'
  <1>1. /\ pc \in [Runs -> Control] /\ pay \in Payload
        /\ pc[r] \in Working \ {"savingEda", "completing"}
        /\ UNCHANGED <<status, manifest, blob>>
    BY DEF FaultInv, TypeOK, PersistStep, DegradeProgress, PersistPreview, row,
           artifacts, Working
  <1>2. status \in {"processing", "failed"} /\ ~Ungrounded(pay)
    BY <1>1 DEF FaultInv, OneWorker, UngroundedIsIdle, Owns
  <1>3. pay'.intake = pay.intake
    BY <1>1 DEF PersistStep, DegradeProgress, PersistPreview, NextPayload,
                Payload, row
  <1>4. /\ \A q \in Runs \ {r} : pc'[q] = pc[q] /\ loc'[q] = loc[q]
        /\ pc'[r] \in Working \ {"savingEda", "completing"}
    BY <1>1 DEF FaultInv, TypeOK, PersistStep, DegradeProgress, PersistPreview,
                Retry, Goto, Working
  <1>5. output'.blueprint = NoRun /\ output'.canonical # "final"
    BY <1>2 DEF FaultInv, TypeOK, OnlyCompletedPublishes, PersistStep,
                DegradeProgress, PersistPreview, artifacts
  <1>6. OneWorker' /\ ArtifactsFollowWorker'
    BY <1>1, <1>4 DEF FaultInv, OneWorker, ArtifactsFollowWorker
  <1>7. UngroundedIsIdle'
    <2>1. pc'[r] \notin {"claiming", "groundingFailed"} /\ ~Ungrounded(pay')
      BY <1>2, <1>3, <1>4 DEF Working, Ungrounded
    <2> QED
      BY <1>2, <1>4, <2>1 DEF FaultInv, UngroundedIsIdle
  <1> QED
    BY <1>1, <1>2, <1>5, <1>6, <1>7
       DEF Unharmed, FaultInv, CompletedHasOutput, OnlyCompletedPublishes

LEMMA FaultRecordFailure ==
    ASSUME FaultInv, NEW r \in Runs, RecordFailure(r)
    PROVE  Unharmed'
  <1>1. /\ pc \in [Runs -> Control] /\ loc \in [Runs -> Locals]
        /\ pay \in Payload
        /\ pc[r] = "failing" /\ UNCHANGED <<blob, output>>
    BY DEF FaultInv, TypeOK, RecordFailure
  <1>2. /\ status \in {"processing", "failed"} /\ ~Ungrounded(pay)
        /\ \A q \in Runs \ {r} : pc[q] \notin Working
        /\ \A k \in Kinds : manifest[k] = "absent"
    BY <1>1 DEF FaultInv, OneWorker, UngroundedIsIdle, ArtifactsFollowWorker,
                Owns, Working
  <1>3. /\ pc'[r] \in {"done", "forcing"}
        /\ \A q \in Runs \ {r} : pc'[q] = pc[q] /\ loc'[q] = loc[q]
    BY <1>1 DEF RecordFailure, Leave, Goto
  <1>4. status' \in {"processing", "failed", "failed_resumable"}
    BY <1>2 DEF RecordFailure, SettleFailed, ClassifyFailure
  <1>5. \A k \in Kinds : manifest'[k] = "absent"
    BY <1>2 DEF RecordFailure, SettleFailed, MoveUnvalidated, Unvalidated
  <1>6. ~Ungrounded(pay')
    <2>1. FailurePayload(pay).intake = pay.intake
      BY <1>1, NextPayloadType, Zenon DEF FailurePayload, NextPayload, Payload
    <2> QED
      BY <1>2, <2>1 DEF RecordFailure, SettleFailed, Ungrounded
  <1>7. OneWorker' /\ UngroundedIsIdle'
    BY <1>2, <1>3, <1>6 DEF FaultInv, OneWorker, UngroundedIsIdle, Working
  <1>8. ArtifactsFollowWorker'
    BY <1>2, <1>3, <1>5 DEF ArtifactsFollowWorker, Working
  <1> QED
    BY <1>1, <1>2, <1>4, <1>5, <1>7, <1>8
       DEF Unharmed, FaultInv, CompletedHasOutput, OnlyCompletedPublishes

LEMMA FaultForceFail ==
    ASSUME FaultInv, NEW r \in Runs, ForceFail(r)
    PROVE  Unharmed'
  <1>1. /\ pc \in [Runs -> Control] /\ pc[r] = "forcing" /\ UNCHANGED artifacts
    BY DEF FaultInv, TypeOK, ForceFail
  <1>2. ~Ungrounded(pay)
    BY <1>1 DEF FaultInv, UngroundedIsIdle, Owns, Ending
  <1>3. \/ UNCHANGED <<status, pay>>
        \/ /\ status = "processing" /\ status' = "failed"
           /\ pay' = FreshPayload(FailedStep)
    BY DEF ForceFail, Flip
  <1>4. ~Ungrounded(pay')
    BY <1>2, <1>3 DEF FreshPayload, Ungrounded
  <1>5. /\ pc'[r] \in {"cleanup", "forcing", "exhausted"}
        /\ \A q \in Runs \ {r} : pc'[q] = pc[q] /\ loc'[q] = loc[q]
    BY <1>1 DEF FaultInv, TypeOK, ForceFail, Leave, Retry, Goto
  <1>6. OneWorker' /\ UngroundedIsIdle'
    BY <1>2, <1>3, <1>4, <1>5 DEF FaultInv, OneWorker, UngroundedIsIdle, Working
  <1>7. ArtifactsFollowWorker'
    BY <1>1, <1>3, <1>5 DEF FaultInv, ArtifactsFollowWorker, Working, Retryable,
                            artifacts
  <1>8. CompletedHasOutput' /\ OnlyCompletedPublishes'
    BY <1>1, <1>3 DEF FaultInv, CompletedHasOutput, OnlyCompletedPublishes,
                      Unvalidated, artifacts
  <1> QED
    BY <1>6, <1>7, <1>8 DEF Unharmed

LEMMA FaultOrphan ==
    ASSUME FaultInv, NEW r \in Runs, OrphanArtifacts(r)
    PROVE  Unharmed'
  <1>1. /\ pc \in [Runs -> Control] /\ UNCHANGED <<row, blob, output, loc>>
        /\ manifest \in [Kinds -> {"absent", "unvalidated", "published_v5", "orphaned"}]
    BY DEF FaultInv, TypeOK, OrphanArtifacts
  <1>2. \A k \in Kinds :
          \/ manifest'[k] = manifest[k]
          \/ manifest[k] = "unvalidated" /\ manifest'[k] = "orphaned"
    BY <1>1 DEF OrphanArtifacts, MoveUnvalidated, Unvalidated
  <1>3. pc'[r] = "done" /\ \A q \in Runs \ {r} : pc'[q] = pc[q]
    BY <1>1 DEF OrphanArtifacts, Goto
  <1>4. OneWorker' /\ UngroundedIsIdle'
    BY <1>1, <1>3 DEF FaultInv, OneWorker, UngroundedIsIdle, Owns, Working,
                      Ending, row
  <1>5. ArtifactsFollowWorker'
    BY <1>1, <1>2, <1>3 DEF FaultInv, ArtifactsFollowWorker, Working, row
  <1>6. CompletedHasOutput' /\ OnlyCompletedPublishes'
    BY <1>1, <1>2 DEF FaultInv, CompletedHasOutput, OnlyCompletedPublishes,
                      Unvalidated, row
  <1> QED
    BY <1>4, <1>5, <1>6 DEF Unharmed

LEMMA FaultSave ==
    ASSUME FaultInv, NEW r \in Runs, SaveNarrative(r) \/ SaveEda(r)
    PROVE  Unharmed'
  <1>1. /\ pc \in [Runs -> Control] /\ UNCHANGED <<row, output, loc>>
        /\ manifest \in [Kinds -> {"absent", "unvalidated", "published_v5", "orphaned"}]
        /\ blob \in [Kinds -> Runs \cup {NoRun}]
        /\ pc[r] \in {"finalizing", "savingEda"}
    BY DEF FaultInv, TypeOK, SaveNarrative, SaveEda
  <1>2. /\ status \in {"processing", "failed"} /\ ~Ungrounded(pay)
        /\ \A q \in Runs \ {r} : pc[q] \notin Working
    BY <1>1 DEF FaultInv, OneWorker, UngroundedIsIdle, Owns, Working
  <1>3. \A k \in Kinds : manifest[k] # "absent" => blob[k] = r
    BY <1>1 DEF FaultInv, ArtifactsFollowWorker, Working
  <1>4. PICK k \in Kinds :
          \/ /\ blob' = [blob EXCEPT ![k] = r]
             /\ manifest' = [manifest EXCEPT ![k] = "unvalidated"]
          \/ blob' \in {blob, [blob EXCEPT ![k] = r]} /\ manifest' = manifest
    BY DEF SaveNarrative, SaveEda, SaveArtifact, Kinds
  <1>5. \A j \in Kinds : /\ manifest'[j] # "absent" => blob'[j] = r
                         /\ manifest'[j] = "published_v5" => manifest[j] = "published_v5"
    BY <1>1, <1>3, <1>4
  <1>6. /\ pc'[r] \in {"savingEda", "completing", "forcing"}
        /\ \A q \in Runs \ {r} : pc'[q] = pc[q]
    BY <1>1 DEF SaveNarrative, SaveEda, SaveArtifact, Goto
  <1>7. OneWorker' /\ UngroundedIsIdle'
    BY <1>1, <1>2, <1>6 DEF FaultInv, OneWorker, UngroundedIsIdle, Working, row
  <1>8. ArtifactsFollowWorker'
    BY <1>1, <1>2, <1>5, <1>6 DEF ArtifactsFollowWorker, Working, Retryable, row
  <1>9. CompletedHasOutput' /\ OnlyCompletedPublishes'
    BY <1>1, <1>2, <1>5 DEF FaultInv, CompletedHasOutput, OnlyCompletedPublishes, row
  <1> QED
    BY <1>7, <1>8, <1>9 DEF Unharmed

LEMMA FaultComplete ==
    ASSUME FaultInv, NEW r \in Runs, Complete(r)
    PROVE  Unharmed'
  <1>1. /\ pc \in [Runs -> Control] /\ pay \in Payload
        /\ manifest \in [Kinds -> {"absent", "unvalidated", "published_v5", "orphaned"}]
        /\ pc[r] = "completing" /\ UNCHANGED <<blob, loc>>
    BY DEF FaultInv, TypeOK, Complete
  <1>2. /\ status \in {"processing", "failed"} /\ ~Ungrounded(pay)
        /\ \A q \in Runs \ {r} : pc[q] \notin Working
        /\ \A k \in Kinds : manifest[k] # "published_v5"
        /\ \A k \in Kinds : manifest[k] # "absent" => blob[k] = r
    BY <1>1 DEF FaultInv, OneWorker, UngroundedIsIdle, ArtifactsFollowWorker,
                OnlyCompletedPublishes, Owns, Working
  <1>3. /\ pc'[r] \in {"done", "forcing"}
        /\ \A q \in Runs \ {r} : pc'[q] = pc[q]
    BY <1>1 DEF Complete, Goto
  <1>4. CASE UNCHANGED <<status, pay, manifest, output>>
    <2>1. OneWorker' /\ UngroundedIsIdle' /\ ArtifactsFollowWorker'
      BY <1>1, <1>2, <1>3, <1>4
         DEF FaultInv, OneWorker, UngroundedIsIdle, ArtifactsFollowWorker,
             Retryable, Working
    <2> QED
      BY <1>2, <1>4, <2>1
         DEF Unharmed, FaultInv, CompletedHasOutput, OnlyCompletedPublishes
  <1>5. CASE SettleCompleted(r)
    <2>1. /\ status' = "completed"
          /\ output'.blueprint = r /\ output'.canonical = "final"
      BY <1>5 DEF SettleCompleted
    <2>2. /\ pay'.step = DoneStep /\ ~pay'.boot /\ ~Ungrounded(pay')
      <3>1. NextPayload(pay, DoneStep) \in Payload
        BY <1>1, NextPayloadType DEF DoneStep
      <3>2. /\ NextPayload(pay, DoneStep).step = DoneStep
            /\ NextPayload(pay, DoneStep).intake = pay.intake
        BY <1>1, Zenon DEF NextPayload, Payload
      <3>3. /\ pay'.step = NextPayload(pay, DoneStep).step /\ ~pay'.boot
            /\ pay'.intake = NextPayload(pay, DoneStep).intake
        BY <1>5, <3>1 DEF SettleCompleted, Payload
      <3> QED
        BY <1>2, <3>2, <3>3 DEF Ungrounded
    <2>3. \A k \in Kinds : /\ manifest'[k] # "unvalidated"
                           /\ manifest'[k] = "published_v5" => blob[k] = r
      BY <1>1, <1>2, <1>5 DEF SettleCompleted, MoveUnvalidated, Unvalidated
    <2>4. OneWorker' /\ UngroundedIsIdle' /\ ArtifactsFollowWorker'
      BY <1>1, <1>2, <1>3, <2>1, <2>2
         DEF FaultInv, OneWorker, UngroundedIsIdle, ArtifactsFollowWorker,
             Retryable, Working
    <2>5. r # NoRun
      OBVIOUS
    <2>6. CompletedHasOutput'
      BY <1>1, <2>1, <2>2, <2>3, <2>5 DEF CompletedHasOutput, Unvalidated
    <2> QED
      BY <2>1, <2>4, <2>6 DEF Unharmed, OnlyCompletedPublishes
  <1> QED
    BY <1>4, <1>5 DEF Complete

LEMMA FaultNext == FaultInv /\ [Next]_vars => FaultInv'
  <1> SUFFICES ASSUME FaultInv, [Next]_vars PROVE FaultInv'
    OBVIOUS
  <1>1. TypeOK'
    BY TypeNext DEF FaultInv
  <1>2. CASE Next
    <2>1. Unharmed'
      BY <1>2, FaultUnmoved, FaultClaim, FaultFailGrounding, FaultProgress,
         FaultRecordFailure, FaultForceFail, FaultOrphan, FaultSave, FaultComplete
         DEF Next, Worker
    <2> QED
      BY <1>1, <2>1 DEF Unharmed, FaultInv
  <1>3. CASE UNCHANGED vars
    BY <1>1, <1>3 DEF vars, row, artifacts, FaultInv, OneWorker, UngroundedIsIdle,
       ArtifactsFollowWorker, CompletedHasOutput, OnlyCompletedPublishes,
       Unvalidated, Owns
  <1> QED
    BY <1>2, <1>3

LEMMA FaultInit == Init => FaultInv
  <1> SUFFICES ASSUME Init PROVE FaultInv
    OBVIOUS
  <1>1. TypeOK
    BY TypeInit
  <1>2. OneWorker /\ UngroundedIsIdle /\ ArtifactsFollowWorker
    BY DEF Init, OneWorker, UngroundedIsIdle, ArtifactsFollowWorker, Owns,
           Working, Ending
  <1>3. CompletedHasOutput /\ OnlyCompletedPublishes
    BY DEF Init, CompletedHasOutput, OnlyCompletedPublishes
  <1> QED
    BY <1>1, <1>2, <1>3 DEF FaultInv

\* What no fault takes away, commits applied with their answer lost included:
\* one run at most works for the job, and what is stored, published and put in
\* the assignment is its own (run_job and _force_job_failed together).
THEOREM FaultInvariant == Spec => []FaultInv
  <1> QED
    BY FaultInit, FaultNext, PTL DEF Spec

\* Under every fault at most one run works for the job, on a row in processing
\* or failed under it: the claim of run_job is a lock even when the emergency
\* write of another run breaks its status.
THEOREM OneWorkerAlways == Spec => []OneWorker
  <1>1. Spec => []FaultInv
    BY FaultInvariant
  <1>2. FaultInv => OneWorker
    BY DEF FaultInv
  <1> QED
    BY <1>1, <1>2, PTL

\* Under every fault nothing is published, and no blueprint or final output
\* set, for a job that has not completed; and a completed one has both, with
\* no artifact left behind.
THEOREM PublishedOnlyByCompletion ==
    Spec => [](OnlyCompletedPublishes /\ CompletedHasOutput)
  <1>1. Spec => []FaultInv
    BY FaultInvariant
  <1>2. FaultInv => OnlyCompletedPublishes /\ CompletedHasOutput
    BY DEF FaultInv
  <1> QED
    BY <1>1, <1>2, PTL

\* A run that resumes a failed job finds no artifact to hydrate, under every
\* fault: prefetch_resume_artifacts always returns nothing.
THEOREM NothingToPrefetch == Spec => []PrefetchFindsNothing
  <1>1. Spec => []FaultInv
    BY FaultInvariant
  <1>2. FaultInv => PrefetchFindsNothing
    BY DEF FaultInv, PrefetchFindsNothing, ArtifactsFollowWorker, Retryable, Working
  <1> QED
    BY <1>1, <1>2, PTL

\* Under every fault a completed job stays completed, with the blueprint and
\* the output of the run that completed it: no late delivery, stale claim,
\* delayed failure or emergency write reaches it.
THEOREM CompletedStays == Spec => CompletedIsFinal
  <1>1. ASSUME FaultInv, [Next]_vars, status = "completed"
        PROVE  status' = status /\ output' = output
    <2>1. \A r \in Runs : pc[r] \notin Working \cup {"groundingFailed"}
      BY <1>1 DEF FaultInv, OneWorker, UngroundedIsIdle
    <2>2. CASE UNCHANGED vars
      BY <2>2 DEF vars, row, artifacts
    <2>3. ASSUME NEW r \in Runs,
                 DispatchJob(r) \/ Redeliver(r) \/ Crash(r) \/ Worker(r)
          PROVE  status' = status /\ output' = output
      <3>1. CASE \/ DispatchJob(r) \/ Redeliver(r) \/ Deliver(r) \/ Crash(r)
                 \/ ReadJob(r) \/ LoseClaim(r) \/ ClaimWithoutGrounding(r)
                 \/ OrphanArtifacts(r)
        BY <3>1 DEF DispatchJob, Redeliver, Deliver, Crash, ReadJob, LoseClaim,
                    ClaimWithoutGrounding, OrphanArtifacts, row, artifacts
      <3>2. ~Claim(r) /\ ~FailGrounding(r)
        BY <1>1, <2>1 DEF Claim, Claimable, Retryable, FailGrounding
      <3>3. /\ ~Prefetch(r) /\ ~Bootstrap(r) /\ ~StreamEvent(r) /\ ~EndStream(r)
            /\ ~GraphRaises(r) /\ ~PersistStep(r) /\ ~DegradeProgress(r)
            /\ ~PersistPreview(r) /\ ~RecordFailure(r) /\ ~SaveNarrative(r)
            /\ ~SaveEda(r) /\ ~Complete(r)
        BY <2>1 DEF Working, Prefetch, Bootstrap, StreamEvent, EndStream,
                    GraphRaises, PersistStep, DegradeProgress, PersistPreview,
                    RecordFailure, SaveNarrative, SaveEda, Complete
      <3>4. CASE ForceFail(r)
        BY <1>1, <3>4 DEF ForceFail, Flip, artifacts
      <3> QED
        BY <2>3, <3>1, <3>2, <3>3, <3>4 DEF Worker
    <2> QED
      BY <1>1, <2>2, <2>3 DEF Next
  <1>2. FaultInv /\ [Next]_vars =>
          [status = "completed" => status' = status /\ output' = output]_vars
    BY <1>1
  <1>3. Spec => []FaultInv
    BY FaultInvariant
  <1> QED
    BY <1>2, <1>3, PTL DEF Spec, CompletedIsFinal

=============================================================================
