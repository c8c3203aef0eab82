----------------------------- MODULE CaseIntake -----------------------------
(***************************************************************************)
(* How a case gets its syllabus, and how its notebook is made again:       *)
(* create_authoring_job checks the teacher's selection against the locked  *)
(* syllabus, each claim of the job resolves it again in the snapshot the   *)
(* job names, and regenerate_notebook works on the completed case, while   *)
(* CourseSyllabus goes on saving. What run_job does in between is the      *)
(* subject of AuthoringJob.                                                *)
(*                                                                         *)
(*   case   of a case: job, authoring_jobs.status, with "ungrounded" for   *)
(*          failed with syllabus_grounding_unavailable, and "draft" for an *)
(*          assignment whose job is not written yet; module, the selection;*)
(*          seen, the revision it was checked against; rev, task_payload's *)
(*          syllabus_revision; used, the modules it was generated from     *)
(*   book   of a case: text, what canonical_output holds as its notebook;  *)
(*          shown, m3NotebookDegraded in it; flag and inputs,              *)
(*          m3_notebook_degraded and m3_notebook_regen_inputs in           *)
(*          task_payload                                                   *)
(*   regen  the regenerations delivered: where each stands, its case, and  *)
(*          whether the inputs it read were there                          *)
(***************************************************************************)
EXTENDS CourseSyllabus

CONSTANTS
    Cases,    \* the cases a teacher asks for
    Regens,   \* the regenerations a behaviour may contain
    NoModule, \* no selection
    NoCase    \* a regeneration not asked for

ASSUME IntakeAssumption == NoModule \notin Modules /\ NoCase \notin Cases

VARIABLES case, book, regen

caseVars == <<case, book, regen>>
vars == <<syllabusVars, caseVars>>

-----------------------------------------------------------------------------
\* Mutant: a status the runner never writes.
RetryableUnknown == {"pending", "failed_retryable"}

Retryable == {"pending", "failed_resumable"}
JobStatus == Retryable \cup {"none", "draft", "processing", "completed", "failed",
                             "ungrounded"}

Init ==
    /\ SyllabusInit
    /\ case = [c \in Cases |-> [job |-> "none", module |-> NoModule, seen |-> 0,
                                rev |-> 0, used |-> {}]]
    /\ book = [c \in Cases |-> [text |-> "none", shown |-> FALSE, flag |-> FALSE,
                                inputs |-> FALSE]]
    /\ regen = [g \in Regens |-> [at |-> "idle", case |-> NoCase,
                                  inputs |-> FALSE]]

-----------------------------------------------------------------------------
(* create_authoring_job *)

\* resolve_syllabus_selection_titles, strict.
Selectable(m, modules) == m \in modules

\* The course and the syllabus are locked, the selection is checked, and the
\* assignment is committed, which gives the locks back. Without a syllabus
\* (412) or with a selection it does not hold (422) nothing is written.
Accept(c) ==
    /\ case[c].job = "none"
    /\ live.rev > 0
    /\ \E m \in Modules :
          /\ Selectable(m, live.modules)
          /\ case' = [case EXCEPT ![c].job = "draft", ![c].module = m,
                                  ![c].seen = live.rev]
    /\ UNCHANGED <<syllabusVars, book, regen>>

\* The commit has expired owned_course.syllabus: its revision is read again
\* for the payload of the job, with no lock and no second check.
CreateJob(c) ==
    /\ case[c].job = "draft"
    /\ case' = [case EXCEPT ![c].job = "pending", ![c].rev = live.rev]
    /\ UNCHANGED <<syllabusVars, book, regen>>

-----------------------------------------------------------------------------
(* run_job, as far as the syllabus and the notebook are concerned *)

\* Mutant: the selection is looked up in the syllabus as it is now.
GroundingNow(c) == live.modules

\* _resolve_job_grounding_snapshot: the snapshot of the job's revision.
Grounding(c) == Content(case[c].rev)

\* Every claim resolves the snapshot, that of a resumed job too.
Claim(c) ==
    /\ case[c].job \in Retryable
    /\ case' = [case EXCEPT
                   ![c].job = IF case[c].module \in Grounding(c)
                              THEN "processing" ELSE "ungrounded",
                   ![c].used = IF case[c].module \in Grounding(c)
                               THEN Grounding(c) ELSE @]
    /\ UNCHANGED <<syllabusVars, book, regen>>

Interrupt(c) ==
    /\ case[c].job = "processing"
    /\ \E s \in {"failed", "failed_resumable"} : case' = [case EXCEPT ![c].job = s]
    /\ UNCHANGED <<syllabusVars, book, regen>>

\* The case ships without its notebook, and with what it takes to make it.
Degraded == [text |-> "placeholder", shown |-> TRUE, flag |-> TRUE, inputs |-> TRUE]

Complete(c) ==
    /\ case[c].job = "processing"
    /\ case' = [case EXCEPT ![c].job = "completed"]
    /\ \/ book' = [book EXCEPT ![c].text = "full"]
       \/ book' = [book EXCEPT ![c] = Degraded]
    /\ UNCHANGED <<syllabusVars, regen>>

-----------------------------------------------------------------------------
(* regenerate_authoring_notebook, and regenerate_notebook in a worker *)

\* The endpoint refuses a case that is not degraded (400); Cloud Tasks may
\* deliver what was accepted once more, whatever has become of the case.
RequestRegeneration(g, c) ==
    /\ regen[g].at = "idle"
    /\ case[c].job = "completed"
    /\ \/ book[c].flag
       \/ \E h \in Regens : regen[h].case = c
    /\ regen' = [regen EXCEPT ![g] = [at |-> "queued", case |-> c,
                                      inputs |-> FALSE]]
    /\ UNCHANGED <<syllabusVars, case, book>>

\* Mutant: there is no idempotency guard.
StillDegradedAlways(c) == TRUE

\* The idempotency guard of regenerate_notebook.
StillDegraded(c) == book[c].flag

\* The row is read, flag and inputs together; the notebook is then generated
\* from what was read, for minutes.
StartRegeneration(g) ==
    /\ regen[g].at = "queued"
    /\ regen' = IF StillDegraded(regen[g].case)
                THEN [regen EXCEPT ![g].at = "generating",
                                   ![g].inputs = book[regen[g].case].inputs]
                ELSE [regen EXCEPT ![g].at = "done"]
    /\ UNCHANGED <<syllabusVars, case, book>>

\* A notebook made without its inputs is a worse one.
Regenerated(g) == [text |-> IF regen[g].inputs THEN "full" ELSE "poor",
                   shown |-> FALSE, flag |-> FALSE, inputs |-> FALSE]

\* Written whole, from what was read, in one transaction; or the notebook is
\* degraded again, or the worker fails, and nothing is written.
FinishRegeneration(g) ==
    /\ regen[g].at = "generating"
    /\ \/ book' = [book EXCEPT ![regen[g].case] = Regenerated(g)]
       \/ UNCHANGED book
    /\ regen' = [regen EXCEPT ![g].at = "done"]
    /\ UNCHANGED <<syllabusVars, case>>

Next ==
    \/ SyllabusNext /\ UNCHANGED caseVars
    \/ \E c \in Cases :
          \/ Accept(c) \/ CreateJob(c) \/ Claim(c) \/ Interrupt(c) \/ Complete(c)
          \/ \E g \in Regens : RequestRegeneration(g, c)
    \/ \E g \in Regens : StartRegeneration(g) \/ FinishRegeneration(g)

Spec == Init /\ [][Next]_vars

-----------------------------------------------------------------------------
(* Properties *)

TypeOK ==
    /\ SyllabusTypeOK
    /\ case \in [Cases -> [job: JobStatus, module: Modules \cup {NoModule},
                           seen: Nat, rev: Nat, used: SUBSET Modules]]
    /\ book \in [Cases -> [text: {"none", "placeholder", "full", "poor"},
                           shown: BOOLEAN, flag: BOOLEAN, inputs: BOOLEAN]]
    /\ regen \in [Regens -> [at: {"idle", "queued", "generating", "done"},
                             case: Cases \cup {NoCase}, inputs: BOOLEAN]]

\* The job of an accepted case is rejected for its syllabus only when a save
\* overtook the intake between its two commits; every other case is generated,
\* at each of its claims and resumptions, from the very revision its selection
\* was checked against, whatever the syllabus has become since.
OnlyOvertakenIntakesFail ==
    \A c \in Cases :
        /\ case[c].job = "ungrounded" => case[c].rev > case[c].seen
        /\ case[c].used # {} /\ case[c].rev = case[c].seen =>
              case[c].used = snaps[case[c].seen]

\* A completed case tells the truth about its notebook: it is shown as degraded
\* exactly while a regeneration is accepted, it can then be made as well as the
\* first time, and once made it is never replaced by a worse one, however many
\* regenerations overlap or are delivered again.
NotebookTellsTruth ==
    \A c \in Cases : case[c].job = "completed" =>
        /\ book[c].shown = book[c].flag
        /\ book[c].flag => book[c].text = "placeholder" /\ book[c].inputs
        /\ ~book[c].flag => book[c].text = "full"

=============================================================================
