# A formal model of ADAM-EDU

ADAM-EDU lets teachers have business cases written by a language-model pipeline,
lets students work on them, and lets teachers grade the result. The modules here
model the parts of its backend in which concurrent requests, workers, faults and
retries meet over shared rows. Paths are relative to `src/`; `shared/` and
`case_generator/` are under `src/backend/src/`.

1. [The system](#1-the-system)
2. [The modules and the code](#2-the-modules-and-the-code)
3. [What is checked](#3-what-is-checked)
4. [What is proved](#4-what-is-proved)
5. [Where the code and its documents part](#5-where-the-code-and-its-documents-part)
6. [What is not modelled](#6-what-is-not-modelled)
7. [Plan](#7-plan)

Run `tlc -config X.cfg M` in this directory for a run and `tlapm M.tla` for a module of proofs.

## 1. The system

A FastAPI service (`shared/app.py` and its routers) answers browsers; SQLAlchemy
sessions (`autoflush=False`) talk to PostgreSQL at READ COMMITTED; a worker (the
same process, or a Cloud Run service that Cloud Tasks calls) runs a LangGraph
graph per authoring job; Supabase keeps accounts and pushes row changes to
browsers; a React client keeps query caches, drafts and backups of its own.

| Component | State it keeps | Operations | Hard behaviour | What makes it correct | Module |
|---|---|---|---|---|---|
| Authoring job runner (`case_generator/core/authoring.py`, `artifact_manager.py`) | `authoring_jobs` row, artifact manifests and blobs, `assignments` output, graph checkpoint | claim, stream and persist progress, record failure, save artifacts, complete, emergency failure | duplicate deliveries, crash at any step, failure of the write that records a failure | one run owns the job; nothing is published unless the job is completed, and then all of it; a claimed job settles | `AuthoringJob` |
| Case generation graph (`case_generator/graph.py`) | checkpointed channels, the channels of the flow under way | 21 nodes in 5 flows, resume skip, cuts | restart from START over old channels, nodes that run again, soft failures that look like outputs | a resume neither repeats nor loses what was paid for; a finished case is complete; what speaks of the data speaks of the data there is | `CaseGraph` |
| Intake and dispatch (`shared/app.py`, `internal_tasks.py`, `job_dispatch.py`) | assignment, job row | create, retry, deliver | two commits, at-least-once delivery, syllabus saved meanwhile | a job keeps the revision its selection was checked against; the barrier lets one delivery through | `CaseIntake`, `AuthoringJob` |
| Notebook regeneration (`authoring.py:1526`) | payload flag, canonical output | request, generate, write back | minutes between read and write | the case and the job agree on the notebook, and neither calls a notebook that runs degraded | `CaseIntake` |
| Syllabus (`shared/teacher_writes.py`, `TeacherCoursePage.tsx`) | syllabus, revisions, the form of each tab over its cached detail | open, type, save, react to a conflict | two tabs, late details | a save changes only what its author typed; revisions are a chain | `CourseSyllabus` |
| Manual grading (`shared/teacher_grading.py`) | `case_question_grades`, `case_grades` | save and clear a question's grade | first saves race, row deleted under a waiter, case rewritten meanwhile | the case grade is the rollup of the question grades | `CaseGrading` |
| Student responses (`shared/student_reads.py`) | `student_case_responses`, its submissions | open, save draft, submit | two tabs on one version, lost replies, read after commit | versions have one writer; a submit is final and has one snapshot | `StudentResponse` |
| Student runtime (`useStudentCaseResolution.ts`) | answers, version, local backup, query cache, requests under way | type, autosave, retry, hydrate, submit, leave, come back | late replies, retry of what was committed, replies to a page that is gone | what a page says is saved is saved; what is not is saved in the end or the student is told | `StudentRuntime` |
| Authoring progress (`useAuthoringJobProgress.ts`, `shared/api.ts`) | last sequence number, phase, watchdog, previews | snapshot, realtime event, poll, preview, retry, reload | two reordered sources, silence, a channel that dies | what is shown goes back only where `progress_seq` did; a completed case is shown whole; the end is shown unless the hook gives up | `ProgressFeed` |
| Teacher invites, course assignment (`shared/admin_writes.py`, `identity_activation.py`) | invites, memberships, courses | assign, resend, revoke, activate, repair, remove | unlocked reads before NOWAIT locks, two parties settling one invite | no course waits on a settled invite; who teaches is a member | `TeacherInvites` |
| Course access (`shared/course_access.py`, `course_access_links.py`, `shared/app.py`) | links, enrolments, memberships, accounts, invites | enrol, activate, redeem, rotate | last seat, lock order, account outside the transaction | nobody comes over the link past the limit; an invite is consumed by an enrolment; a failed activation takes its account back; students do not deadlock each other | `CourseSeats` |
| Pools and checkpointer (`shared/database.py`, `db_resilience.py`) | shared pool, graph singleton, budget semaphore | open, clean up, guard | one job's clean-up against the others | no job uses a closed pool | none (section 6) |
| Publication (`shared/teacher_router.py`) | `assignments.status`, schedule | publish, set deadline | job still running | what students see is complete | none (section 6) |

Components meet in rows: the job runner writes `assignments.canonical_output`, which
grading and the student endpoints read to know which questions exist; a submit makes
a case gradeable; a syllabus revision is what a job is grounded on; the browser
merges what it polls and what it is pushed. Nothing but row locks, unique
constraints and compare-and-set updates orders them.

## 2. The modules and the code

| Module | Contents |
|---|---|
| `AuthoringJob` | one job: its row, its deliveries, the runs of `run_job` |
| `JobLifecycle` | what the job promises: a lock that publishes only on completion |
| `CaseGraph` | one case through the graph, node by node, with cuts and resumes |
| `CaseLedger` | what a resumable generation promises: paid work is written down once |
| `CourseSyllabus` | one course's syllabus and the tabs in which it is edited |
| `CaseIntake` | EXTENDS `CourseSyllabus`: cases asked for over that syllabus, and the regeneration of their notebooks |
| `CaseGrading` | save and clear requests on one student's submission of one case |
| `GradeSheet` | what grading promises: a question grade and the case grade it makes change in one step |
| `StudentResponse` | open, save and submit requests of one student's tabs on one case |
| `VersionedDraft` | what the server promises a student: one opening, one write over each version, one final submit with its snapshot |
| `StudentRuntime` | one student's page over such a server |
| `ProgressFeed` | a teacher's page that follows one job |
| `CourseSeats` | requests to get into one course |
| `TeacherInvites` | requests about who teaches the courses |
| `TeacherPosts` | what an administrator is promised: a post is empty, taught or awaited, and a settled person settles all posts at once |
| `MC...` | instances for TLC |
| `..._proofs` | proofs for every value of the constants; `StudentWork_proofs` is about both `StudentResponse` and `StudentRuntime` |

**Grain.** `AuthoringJob` takes a transaction as one action, since its concurrency
is decided by conditional UPDATEs; every read whose result outlives its transaction
is a step of its own (`ReadJob` before `Claim`). `CaseGrading`, `StudentResponse`,
`CourseSeats` and `TeacherInvites` take a *statement* as one action, since there the
order of statements and locks is the question; a statement that waits for a row lock
is an action that is not enabled. `CourseSyllabus` and `CaseIntake` lock a row before
they read it and hold it to the commit, so a transaction is one action again. The browser modules
take a JavaScript handler, with the render it causes, as one action. Definitions
named in a comment "Mutant:" are not part of any specification: each is a plausible
mistake a property was tried against.

### AuthoringJob

`status`, `retries` and `pay` are the row; `pay` keeps of the JSON payload
`progress_seq`, `current_step`, `last_canonical_step`, the bootstrap flag, and in `pay.intake` whether
the intake form is still there and whether its syllabus selection can be resolved.
`manifest` and `blob` are the artifact table and the
deterministic storage path; `output` is what the assignment holds; `ckpt` is the
durable checkpoint, cut down to how many flows are done. `pc[r]` is where run `r` stands:

| Actions | Code |
|---|---|
| `DispatchJob`, `Redeliver`, `Deliver` | the create and retry endpoints, Cloud Tasks, the barrier of the task endpoint |
| `ReadJob`, `Claim`, `LoseClaim`, `ClaimWithoutGrounding`, `FailGrounding` | micro-session 1 of `run_job` (893-1003) |
| `Prefetch`, `Bootstrap`, `StreamEvent`, `EndStream`, `GraphRaises` | the graph stream (1159-1367) |
| `PersistStep`, `DegradeProgress`, `PersistPreview` | progress writes with their bounded retries |
| `RecordFailure`, `SaveNarrative`, `SaveEda`, `Complete` | micro-session 2 (1369-1498) |
| `ForceFail`, `OrphanArtifacts` | `_force_job_failed` and the clean-up |
| `Crash` | the process goes away; no handler runs |

`Faults` chooses among crashes, database errors, and commits that are applied
while their acknowledgement is lost; `Dispatch` is the dispatch mode.

### CaseGraph

`st` holds the channels of the master graph's checkpoint, `sub` the channels the nodes of the current
superstep read, `next` those with the writes of the nodes that have run: LangGraph
merges a superstep's writes when all its nodes are done, and a flow (a compiled
subgraph without a checkpointer of its own) is one write of the master graph. A value is its
kind (good, empty, an error sentinel, a fallback text, a placeholder, rows that are too few),
the run that made it and the design of the dataset it was computed from. Every node of the
graph is an action of its own, named as in the code; `Wrapped` is `_with_resume_skip`, `Generates` a
wrapped node whose bad output counts as not there. `RunIsCut` ends a run at any
moment, `RunFails` at a node that lets an error out, and `RunResumes` starts the
master graph over the channels that were kept. `form` is the kind of case
(no EDA; EDA without notebook; notebook executed with or without an own design; notebook not executed).

### CourseSyllabus and CaseIntake

`live` and `snaps` are the syllabus row and its revisions, a syllabus being the set of its
modules. `page[t]` is a tab: the detail in its query cache, the form, and what was typed
since the form was filled. `GetDetail` reads the detail on the server and its answer travels as
long as it likes until `DetailArrives`; `Shown` is the effect that fills the form again whenever the cached detail
changes; `ClickSave`, `HandleSave` and the steps after it are `save_teacher_course_syllabus` with its
409. `CaseIntake` adds a case (`Accept` is the first commit of `create_authoring_job`,
`CreateJob` the second, which reads the revision again; `Claim` resolves the selection in the
snapshot the job names; `Interrupt` and `Complete` stand for `run_job`) and the
regenerations: `RequestRegeneration`, `StartRegeneration` with its guard,
`FinishRegeneration` with the write that replaces payload and output.

### CaseGrading

`rows`, `caseGrade` and `edition` are what is committed; `txn[t]` is what request `t`
has read, locked and not yet committed. `Resolve` is everything before the first
write (`_resolve_grading_target` and the checks of points), `WriteQuestion` the
upsert or delete of the question grade with its row lock, `MaterializeCase`,
`LockCase`, `CaseMissing` and `Recompute` are `_recompute_case_grade_rollup`, then
`Commit`; `Fail` is the rollback of the except branches. `Rewrite` is another edition
of the case's questions, `Submit` the student's submission. A normalized score is a
function of the points it is computed from, and stands in the model for those points.

### StudentResponse

`row` and `submissions` are the two tables, `knows[c]` what client `c` was last
told, `req[c]` its request. `ReceiveOpen` and `ReceiveWrite` stand for the checks
made before any lock (a refused request changes nothing and is left out), `Ensure`
and `Insert` for `_ensure_student_case_response`, `Lock` for SELECT FOR UPDATE,
`Write` for the status and version checks with the update and its commit, `Refresh` for
`db.refresh` and the reply. `Fail` is any exception (`get_db` closes the session),
`LoseReply` a reply the client never gets. `now` is the servers' clock, taken as one clock.

### StudentRuntime

The server here is one that keeps the promise of `VersionedDraft`: a request is
served in one step, and `ServerKeepsPromise` says that the page's server does so. `screen` is the hook's state, `backup` the draft in
localStorage, `cache` the query cache, `get`, `put` and `post` the requests under way,
`orphans` those of pages that are gone, whose replies still write the cache and the
backup. Autosave may fire whenever there is unsaved text and no save is under way:
each render arms its timer anew. Another device, the end of the deadline, a lost request and a closed
browser are incidents. The module's `PageTypeOK` and `PageSpec` are so named because its proofs
share a module with those of `StudentResponse`.

### ProgressFeed

`log` is the sequence of the job's rows as committed, with duplicate deliveries and the stale claim of
`AuthoringJob` that puts `progress_seq` back; `page` is what the hook shows, `feed` what
`streamRealtimeProgress` has emitted, `get` and `preview` its requests, `event` the
next row of the realtime channel, `armed` the silence watchdog. The hook's phases are
snapshot, realtime, polling, one recovery, and the end. `Continue` is what it does with an answer. The hook gives
up with `failed` when a GET fails or a second channel dies while it joins (`GivesUp`); that is a way for it
to end, and the job may go on.

### CourseSeats

`course`, `members`, `enrolled` and `invite` are what is committed; `req[r]` what request `r` has
read, locked and written. A request enrols an account over the link, activates a password over the link or over an
invite, redeems an invite, or rotates the link; `Then` is the order of its statements. A statement that takes a lock
adds it to `req[r].locks`, which the end of the transaction empties: FOR UPDATE on the course and on the invite, the
profile row an upsert holds. The insert of a course membership is two actions, since PostgreSQL makes the entry in the
unique index first (`Enrol`, where a second insert of the same student waits for an entry that is not committed,
`HoldsEntry`) and then checks the foreign key (`ShareCourse`, a key-share lock that waits for FOR UPDATE on the course).
`WaitsFor` says whose locks a statement waits for, and `DeadlockVictim` is the one PostgreSQL picks of a cycle. The
course's limit and status change at any time. Accounts are made outside the transaction (`CreateAccount`); an
activation over the link then reads the memberships of the account (`CheckAccount`), outside of the `try` whose
handler deletes the account again (`Aborts`, `Undo`).

### TeacherInvites

`status`, `members` and `post` are what is committed, `req[r]` the course row as read unlocked,
the locks taken NOWAIT, the writes not yet committed. An assignment writes only the columns
that differ from its stale reading, and the XOR constraint refuses what that makes of the row.

## 3. What is checked

| Run | Result | Bounds | What it shows |
|---|---|---|---|
| `JobFaults` | passes | 3 deliveries, 3 flows, 3 attempts, crashes and database errors | `SingleOwner`, `CompletedIsPublished`, and that the job implements `JobLifecycle`, in which completed and failed are final |
| `JobLiveness` | passes | 2 deliveries, inline dispatch, every fault | `ClaimedJobSettles`: a claimed job settles unless its process is gone or every emergency write failed |
| `CaseGraph` | passes | all 5 forms, 2 runs, 2 bad outputs | `InputsDecided` before they are read, `FinishedIsComplete`, `QuestionsFromRealRun`, `MadeTogetherAgree`, `EveryRunEnds`, and that the checkpoint is a `CaseLedger` |
| `GraphStaleNotebook` | violated | 1 form, 2 runs, 1 bad output | section 5 |
| `CaseIntake` | passes | 2 tabs, 2 modules, 2 revisions, 2 changes of a form, 2 details asked for, 1 lost request, 1 case, 2 regenerations | `OnlyOvertakenIntakesFail`: a job fails for its syllabus only if the syllabus was saved between its two commits; `NotebookTellsTruth`; `OnlyTypedChanges`: an accepted save turns the revision before it into a next one by what was typed and nothing else |
| `GradingRaces` | passes | 3 requests, 3 questions, 2 editions, database errors | `RollupOfRows`, `RequestsAnswered`, and that the requests implement `GradeSheet` |
| `ResponseTabs` | passes | 2 tabs, 2 answers, versions to 2, a clock of 1, database errors and lost replies | `StampsFollowVersions`, and that the requests implement `VersionedDraft` |
| `StudentRuntime` | passes | 2 texts, 2 visits, 2 incidents, of these 4 in all, 1 retry, versions to 3 | `SavedMeansSaved`; `SavedOrTold`: text that is not saved is saved in the end or the student is told |
| `RuntimeLostText` | violated | 2 texts, 2 visits, no incident | section 5 |
| `ProgressFeed` | passes | 2 steps, 7 rows, 2 troubles (a request, event or channel that fails, a task delivered twice, a reload) | `CompletedIsWhole`; `ProgressGoesForward`: a step that is shown gives way to an older one only over a claim that set `progress_seq` back; `JobEndIsShown`: a page that follows a job which has ended shows that end, unless the job starts again, a request or a channel fails once more, or the hook gives up |
| `CourseSeats` | passes | 3 requests, 2 students, limits 1 and 2, database errors | `SeatWithinLimit`, `ConsumedHasEnrolled`, `OneActiveLink`, `NoAccountLeaks`, and `DeadlocksAreOfOneStudent`: who waits for each other in a circle are requests of one student who uses his invite |
| `TeacherInvites` | passes | 2 requests at a time, without end, 2 people, 2 courses | `NoCourseWaitsInVain`, `PostsAreHeld`, and that the requests implement `TeacherPosts` |

Every passing run but `JobLiveness`, which shares its module with `JobFaults`, also checks the `TypeOK`
(`PageTypeOK`) of its module.

*Why the bounds are enough to be interesting.* Three deliveries are a run that owns
the job, one that has read a stale row and one that comes after both; three flows
have a first, a middle and a last; with three attempts a retry loop fails once, again, and
for good. The graph needs one resume to meet its own checkpoint, and two bad
outputs for one to be met on the way to another; the retries of the dataset cost no bound. Grading
needs one request that writes, one that waits and one that takes the
row away, and an edition that drops a question and adds one. Two tabs are enough
for a conflict, and two versions for a write over another's write. No form is saved empty, so
a module leaves the syllabus by a save that puts another in its place (two changes of one form): that is enough for a
case whose selection is gone when its job is created, and for a save over an old detail that would take back what
another tab has added. The runtime needs two
texts (one saved, one typed meanwhile) and two visits (a page that is gone and one that
meets its late replies), and two incidents on one of them. `SavedOrTold` stops looking when the server has reached
version 3, which takes three writes: below it lie a save that is committed while its reply is lost, the retry over that
reply, the conflict with it or with another device, and text typed during each of them; section 5 says why a bound is
needed. Seven rows are a job that is claimed, advances, fails, is claimed
again over a stale row and advances: fewer never show an older step. Two troubles are two channels that die while
they join, after which the hook gives up, or one lost event and a request that fails when the watchdog asks. Three requests that take any of their kinds meet in every
triple of kinds, on a last seat and with a limit that is lowered; each of the five deadlocks of section 4 occurs,
the circle of three among them. Two regenerations are the race over one flag. The safety
properties that section 4 names are proved for every bound.

*Deadlock.* Every configuration sets `CHECK_DEADLOCK FALSE`. But for `TeacherInvites`, which
goes on for ever, the behaviours are finite, since deliveries, requests,
versions and visits are bounded, and a state in which they are
all answered has no successor. That nothing stops earlier is what the liveness
properties say.

*Fairness.* Faults, people and the outside world have none: nobody has to deliver, retry,
resume, type, come back, crash, or deliver a realtime event. What is fair, and why:

| Module | Weakly fair | Because |
|---|---|---|
| `AuthoringJob` | `Worker(r)` | an event loop runs a coroutine that can go on |
| `CaseGraph` | `GraphStep` | the same, for the run under way; nobody has to resume a job |
| `CaseGrading` | `Serve(t)` | the server goes on with a request it has begun |
| `StudentRuntime` | the flush, the server's answer to a save, the reaction to it, the retry | timers fire, and a `fetch` settles one way or the other, with a network error at worst |
| `ProgressFeed` | the answers to GETs, the reactions to them, joining the channel, the silence watchdog and the polling timer | the same; that events arrive is *not* assumed |
| `StudentResponse`, `CourseSeats`, `TeacherInvites`, `CaseIntake` | nothing | safety only |

## 4. What is proved

| Theorem | Says | Assumes |
|---|---|---|
| `JobInvariant`, `TypeCorrect` (`AuthoringJob_proofs`) | `JobInv` is invariant; types | for `JobInvariant` no commit is applied with its acknowledgement lost; none for the types |
| `OneOwner`, `PublishedExactlyWhenCompleted`, `IntakeIsKept`, `TerminalIsFinal` | `SingleOwner`, `CompletedIsPublished`; `RunnableKeepsIntake`, `TerminalStatusFinal` | the same |
| `FaultInvariant`, `OneWorkerAlways`, `PublishedOnlyByCompletion`, `CompletedStays`, `NothingToPrefetch` | what is left when acknowledgements are lost too: `FaultInv`; `OneWorker`, `OnlyCompletedPublishes`, `CompletedHasOutput`, `CompletedIsFinal`, `PrefetchFindsNothing` | none |
| `RunsComeToAnEnd` | `RunsFinish`: each step of a run lowers the number of those it has left, and nothing raises it | none |
| `JobImplementsLifecycle` | `AuthoringJob` implements `JobLifecycle` | the same |
| `GraphTypes` | the types of `CaseGraph` | none |
| `OrderOfNodes`, `FinishedCases`, `NotebookQuestions`, `ReportsOfTheirRows` | `InputsDecided`, `FinishedIsComplete`, `QuestionsFromRealRun`, `MadeTogetherAgree` | none |
| `RunsEndByThemselves` | `RunsAreShort`: each step of a run lowers the number of those it has left, each superstep that of its flow | none |
| `GraphKeepsPaidWork` | `CaseGraph` implements `CaseLedger` | none |
| `GradingInvariant`, `GradingTypeCorrect`, `RollupIsRaceFree` | `GradingInv` and its parts | none |
| `GradingImplementsSheet` | `CaseGrading` implements `GradeSheet` | none |
| `GradingLocksInOrder`, `GradingNeverDeadlocks` | `LocksInOrder`, `WaitsEnd`: rows are locked in one order, so whoever waits, waits for one who goes on | none |
| `ResponseInvariant`, `ResponseTypeCorrect`, `SnapshotOfSubmission`, `StampsNeverGoBack` | `ResponseInv`, its parts, and `StampsFollowVersions` | none |
| `ResponseImplementsVersionedDraft` | `StudentResponse` implements `VersionedDraft` | none |
| `PageInvariant`, `PageTypeCorrect`, `SavedIsSaved` | `PageInv` and its parts, `PageTypeOK` and `SavedMeansSaved` among them | none |
| `AutosaveNeverStuck` | `AutosaveGoesOn`: text that is not saved, and of which the student is told nothing, has a next step | none |
| `PageServerIsVersionedDraft` | the server of `StudentRuntime` implements `VersionedDraft` | none |
| `SeatTypes`, `SeatsWithinLimit`, `ConsumedInvitesEnrolled`, `LinkIsUnique` | the invariants of `CourseSeats` | none |
| `AccountsAreUndone` | `NoAccountLeaks`, which excepts a failure of the read between the account and the `try` | Supabase refuses nothing (`"supabase" \notin Faults`) |
| `DeadlocksOfOneStudent`, `DeadlocksAreFive` | `DeadlocksAreOfOneStudent`, and `DeadlockShapes`: which requests deadlock, and at which statements | none |
| `SeatsNeverStuck` | `SomebodyGoesOn`: requests that do not all end go on or are in a deadlock | none |
| `InviteTypes`, `CoursesWaitForPending`, `TeachersAreMembers` | the invariants of `TeacherInvites` | none |
| `PostsChangeAsPromised` | `TeacherInvites` implements `TeacherPosts` | none |
| `IntakeInvariant`, `TypeCorrect`, `OnlyOvertakenFail`, `NotebookTruth`, `TypedOnly` (`CaseIntake_proofs`) | `Inv` and every property of the run `CaseIntake` | none |
| `FeedTypes`, `CompletedShown`, `AlwaysAsks`, `ForwardButOverAClaim` | `TypeOK`, `CompletedIsWhole`, `NeverDeaf` and `ProgressGoesForward` of `ProgressFeed` | none |

"None" means: only the ASSUMEs of the component's module, which type its constants.
The proofs hold for any number of deliveries, flows, attempts, runs, requests, questions,
editions, tabs, answers, versions, texts, visits, incidents, students, courses, modules, revisions, cases, steps,
rows and troubles.

*The job.* That one run owns the job is inductive with the fact that the row says `processing` exactly while a run
owns it. That artifacts are published only by completion is not: a run saves them in transactions of their own, long
before it completes. `ArtifactsFollowOwner` adds that nothing is stored while the job may still be claimed, that what
is stored and unvalidated belongs to the owner, and that the clean-up finds a failed job. `ClaimsAreGrounded` adds
that what a run is about to claim with still has the intake form. A lost acknowledgement breaks this (section 5);
hence the assumption. What it does not break is proved without it, from `FaultInv`. After a lost acknowledgement of a
resumable failure the emergency write may fail the job under the run that has resumed it, so the status is no lock any
more; but a job that is `failed` cannot be claimed either, so one run at most works for it (`OneWorker`). Nothing is
published but by its completion, and a completed job stays so, with the output of the run that completed it. What may
be missing is the narrative, which the earlier run's clean-up may have orphaned, and the intake form. TLC finds
`FaultInv` and `CompletedIsFinal` true of three deliveries with every fault. That a run ends needs no assumption
either. `WorkLeft` bounds the steps a run has left by where it stands, the flows its stream has still to pass and the
attempts it has made: a value of the stream costs a read, at most `MaxAttempts` writes, a degradation and a preview,
and there are `NFlows + 1` of them; the emergency write has its own attempts. Each step lowers the number, with every
fault, and what other runs do leaves it alone.

*The graph.* The refinement needs to know that a channel of the flow under way is the checkpoint's own value wherever
the checkpoint has a usable one (a wrapped node leaves it alone), and that it was made by the current run where it has
not. The induction carries both for `sub` and `next` at once, for the nodes of any superstep, in any order. `OrderInv`
says which channels have been decided before each flow and each node may run, and gives both that inputs are decided
and that a finished case is complete. `NotebookInv` says which channels the nodes at the notebook have written by
then, and that those which have not run have written nothing, so that what the questions quote is a run of the
notebook that is there. `AgreeInv` says that a run has made its rows before it says anything of them. A flow is a
graph with edges and one loop, from the validator of the dataset back to its generator. `SuperstepsLeft` is the
longest way from the frontier to the end of its flow, and what the retries left may add; each superstep lowers it, and
`StepsLeft`, the same with the nodes of the superstep and the flows ahead, is lowered by every step.

*Grading.* `RollupOfRows` speaks of committed rows, and a commit publishes what was computed
statements earlier. `OneCaseWriter` says that only the holder of the case row's
lock has written it, `PendingIsRollup` that what it is about to commit is the rollup
of the rows it sees; since those that other requests see differ only in rows they have
not committed, the commit keeps `RollupOfRows`. The waits are another matter. A request holds the row of its question, and
the row of the case after it, and nothing is waited for under the second (`LocksInOrder`). So a circle of waits would
need a holder of the case's row that waits, and there is none. `Ready` spells out when a request that is
in its transaction may go on, since ENABLED cannot be reasoned about; on the instance of `GradingRaces` TLC finds it equal to
`ENABLED Serve(t)`.

*Responses.* `WriterHoldsRow` says that the request which is about to write
holds the row and has read it as it is; with the version check, that makes each accepted write a
step of `VersionedDraft`. The times need another argument, since a write is stamped
before it waits for the row: `BasesArePast` says that the version a request names
had been saved by the time the request was stamped, if it is still the current one.

*The page.* That a page which shows "saved" is right cannot be had from the page alone: it says so by a version
number, and versions come to it from GETs, from replies (its own and those of pages that are gone), from the cache and from the
backup, each of them possibly old. `VersionsAreCurrent` says of all of these that what they say of the version the
server has is what the server holds, so that an older one is recognised by its number and the current one is right.
`PageFollowsCache` ties what the page shows to the cache it was last filled from, which is what a render compares. With the two,
every handler of the hook keeps `SavedMeansSaved`, in whatever order replies come.

*Seats.* `SeatWithinLimit` is about what is committed, but a seat is counted and taken
before the commit. `SeatInv` says of each request what its phase stands on: `Alone`, that a request between the count
and the commit is the only one with the course locked; `Seated`, that the seat it counted is still
there; `Invited`, that the invite it will consume is pending and its student's membership is on the way; `Rotating`,
that the tokens it retires are those it has read; `Locked`, which locks it has by where it stands; `Placed`, which kind
stands where. `AccountInv` adds that a request which has made an account stands, until it ends, at the check of it or
where a failure leads to the compensating delete.

*Deadlocks.* In a circle everyone waits and is waited for, and what a request holds follows from where it stands. With
`InviteHeldOnce` (the invite's row has one holder) and the course's lock, that leaves six places (`CirclePlaces`), and
who waits for whom among them leaves five circles (`ShapeOf`):

| One | waits for | the other, which waits for it |
|---|---|---|
| over the link, at the profile | the profile | activation by invite, at the foreign key of its enrolment |
| over the link, at the enrolment | the entry of the enrolment | activation by invite, at the foreign key |
| over the link, at the enrolment | the entry of the enrolment | redemption, at the foreign key |
| activation by invite, at the enrolment | the entry of the enrolment | redemption, at the invite |
| over the link, at the profile | the profile | activation by invite, at the enrolment, which waits for a redemption at the foreign key |

All of them are of one student: the course's lock is taken first, and nobody who waits for another student's holds
anything that this one can wait for. `WaitEnds` follows a chain of waits to its end.

*Invites.* `Sound` ties what a request has locked and written to the phase it is in,
`Apart` keeps two requests on one person out of each other's way, the invite's row lock being what they meet
at. That a course never waits for a settled invite then follows from who holds the invite while
the sweep decides which courses to settle.

*Intake.* Revisions are append-only, so a detail, once read, stays the content of its
revision (`PageSound`, `GetSound`, `SaveSound`), and a save that the server accepts was typed
over the revision before it. `CaseSound` says that a job that names the revision it was checked
against finds its selection there, and `BookSound` with `RegenSound` that an outstanding
regeneration cannot bring a placeholder back.

*Progress.* `FeedInv` says that nothing is written after a completed row, that whoever has read `completed` is right,
and that a page at its end is closed to previews. `OrderInv` is about order. `SeqGrows` says of any two rows that
either `progress_seq` was set back between them or it has not fallen, and has risen if the first is one a stream can
show; it is inductive over what is appended, which spares an induction over the rows. `ShownInv` says that a stream
has emitted at least the `progress_seq` of the row it shows, unless nothing older is on its way. `NeverDeaf` is
inductive with `FeedInv`: whatever drops a request, an event or a channel leaves the phase with a request, the
watchdog or the poll.

*Only model-checked.* Liveness under fairness (`ClaimedJobSettles`, `RequestsAnswered` of grading, `EveryRunEnds`,
`SavedOrTold`, `JobEndIsShown`) is beyond the prover's reach, as is every ENABLED. What can be proved of it is the half
that is safety. Nobody is stuck: so much is proved of `RequestsAnswered`, of `SavedOrTold` and of
`JobEndIsShown` (`WaitsEnd`, `AutosaveGoesOn`, `NeverDeaf`). Nobody goes on for ever: so much is
proved of `ClaimedJobSettles` and of `EveryRunEnds` (`RunsFinish`, `RunsAreShort`). These five are no properties of a
run, nor are `DeadlockShapes` and `SomebodyGoesOn`; TLC finds each of them true on the instance of its module. The other half, that a run which is not over can take
its next step, and the use of fairness, are left to TLC. Every invariant, every action property and every refinement a
passing run checks is proved.

## 5. Where the code and its documents part

Two runs show a state that a document of the repository rules out:

| Run | What happens |
|---|---|
| `GraphStaleNotebook` | On a resume `schema_designer`, `data_generator` and `data_validator` run again and design other rows, while `m3_notebook_executor` is skipped because its metrics were kept (`graph.py:12417`): the finished case ships a notebook that ran on rows it does not hold, though "a runtime-broken notebook is never shipped, only a placeholder" (`:11412`). |
| `RuntimeLostText` | A student leaves the page while a save is under way. The cleanup flushes nothing then, and the late reply of the save puts a later version over the backup of what was typed meanwhile, so that this text is neither sent nor replayed ("Evita pérdida silenciosa de trabajo del estudiante", `docs/planPlataforma/issue-196-rewrite.md:37`, and `:369`). |

What else the models show, with no run of its own, because it is what a model says and not what
a property forbids:

*Jobs.* A claim computes its payload from the row it read before the compare-and-set, so a stale claim sets
`progress_seq` back (`authoring.py:915`, while `:621` calls it monotonic); the emergency failure
(`:663`) starts it at 1 again, from an empty payload. A resumed run announces its steps again, so `current_step`
goes back. A job whose worker is gone stays `processing`, the barrier turning redeliveries away
(ADR 0004, line 71). The emergency UPDATE tests that the job is `processing`, not that the claim is its own
(`:673`, comment at `:648`): if a resumable failure was committed and the acknowledgement
lost, it fails the job under the run that has resumed it. `prefetch_resume_artifacts` never finds an artifact,
because artifacts are stored only after the last failure that can be resumed (`PrefetchFindsNothing`).
`FailGrounding` leaves the bootstrap flag as it was.

*Graph.* After a soft failure of the architect, a resume keeps the narrative of the failed brief. `DATASET_UNAVAILABLE`
counts as a report on a resume. Edits of the call to action and `data_gap_warnings` are repeated on every resume.
`m3_content` may see metrics on a resume, where the comment at 9235 says always None. `schema_designer` is
wrapped and never skipped. `industria` is overwritten by the input adapter on a resume. The executor runs again when its metrics are
None and may put a placeholder in the place of a good notebook, which `teaching_note_part1` still mentions. The guard of the M1 options
(2020-2086) may undo that of the exhibits (1963-2018).

*Intake, syllabus, notebook.* The syllabus revision is read again after the first commit has released
the locks (`app.py:785`): an overtaken intake gives a job that fails for good, where a 422 was meant. A crash
between the two commits leaves a draft without a job. The course page fills its form again whenever its detail changes
(`TeacherCoursePage.tsx:154`), dropping what was typed; an old answer may replace a newer detail in the cache, whose next
save then meets a 409. Two regenerations that have both read the flag both write (comment at `authoring.py:1551`), and
the second notebook replaces the one the teacher was told of. Regenerating after a submission makes the
payload hash drift, which `teacher_reads.py:884` only logs.

*Grading.* A save finds the case grade there (ON CONFLICT DO NOTHING), a clear of the last other
grade deletes it, and `scalar_one()` finds nothing: the save answers 500. A case graded over an earlier edition stays graded
when its questions change.

*Responses.* `db.refresh` after the commit reads what another tab wrote in between: the reply names that version, and
the client's next save passes the version check over answers it never saw. On the page, the conflict modal speaks of
another tab or device (`StudentVersionConflictModal.tsx:24`) also when a submit meets the page's own
autosave, or when a save is retried whose reply was lost; an answer to an old GET, with a backup rewritten since, may bring an
older text back, which the page then saves over the newer one; this may happen again with that save, so that two texts
take turns without end, hence the bound on versions in `SavedOrTold`; an old GET of before a submit may open the cached
case again.

*Progress.* A duplicate delivery whose claim is stale makes events of older rows carry higher sequence numbers: the
page then shows an older step, which `emitMonotonicProgress` is there to prevent; that is the exception in
`ProgressGoesForward`. An accepted retry leaves the row `failed_resumable` until a worker claims it, and the page
reads the row at once (`app.py:838`): it may show the old failure while the job runs (the test at
`useAuthoringJobProgress.rehydration.test.ts:194` mocks a row that is processing already), and a further retry, after
completion, makes it `failed`. A GET that fails, or a second channel that dies while it joins, shows `failed` and
forgets a job that runs or has completed (`GivesUp`). A page may also be left at an older end of a job that was retried
and ended otherwise (`OutdatedEnds`).

*Seats and invites.* The status and limit of a course are those read before FOR UPDATE is granted. Requests of one
student may deadlock in the five ways of section 4; the victim of two activations deletes the account the
other has enrolled, which leaves a member without an account (`app.py:1564`; `NoAccountLeaks` does not speak of
that). The read that follows the making of an account (`_assert_not_staff_account`, `course_access.py:545-551`) stands
before the `try` at 553: when it fails, the account stays, and the student who tries again is told that he has one
(`account_exists_sign_in_required`). An invite asks for no seat. Two clicks on one activation at the last seat answer 409
to the second, `course_capacity_reached`. An assignment over a stale reading writes only the columns that differ from it:
the XOR check may refuse the row (500), and an assignment equal to the stale reading writes nothing. A job
may be created between the check for active jobs (`admin_writes.py:532`) and the delete of the membership.

## 6. What is not modelled

- *Content.* Most of the backend's lines are the prompts, the text the nodes of the graph put together and
  check, the generation of datasets and charts, and the code of notebooks. They are text and numbers in one thread of
  control. `CaseGraph` has every node, with what it reads, writes and may fail at; what a node
  writes is a kind, a run and a design. This, and the views and read endpoints, which change no state,
  are most of the lines no definition stands for.
- *Pools and the checkpointer* (`shared/database.py`, `db_resilience.py`). Their effect on jobs is modelled
  where it arrives, as failing sessions, lost commits and raising streams. Read by hand: `clean_authoring_runtime` closes whichever pool
  is current and not the one its job failed with, so that one clean-up may fail the jobs of a pool opened since, each of
  which cleans up in its turn; a close that times out leaves a closed pool registered, which costs
  the next job a failure before it heals; resetting the graph singleton drops its lock too,
  so two initializers may run. Every one of these is a resumable failure of the job.
- *Publication* (`shared/teacher_router.py`). `publish_teacher_case` does not look at the job, so a case
  may be published, by its URL, while the job runs or after it has failed. The deadline endpoint compares the
  two ends of the window only when both are in the request (395-401), and the
  modal sends null for a cleared date, which the server takes as unchanged.
- *Refusals that change nothing*: authorization, visibility, validation. In
  particular a write that waits for the row past the deadline is accepted by
  the time its request came in, and no property says otherwise.
- `ProgressFeed` leaves out the path of a client without Supabase, straight to polling (`api.ts:728-731`), the hook's
  `reset`, and a submit that fails; a row that has failed or completed keeps its `step`, where the code writes these
  words as `current_step`. `CourseSyllabus` drops a save its client has given up on, which the server may still handle,
  and reads the detail a reaction to a conflict asks for when it is sent.
- The reply of a grading request is read after its commit and is not modelled; the
  course of the student is taken as fixed. The clocks of several servers are one clock.
- `AuthoringJob` sees the graph as a stream of steps that may end, raise or be cut, `CaseGraph` sees the job as what cuts
  and resumes a run; the two are not composed.
- The components of section 1 that are not in section 2, each named with its reason in `PROJECT.json`.

## 7. Plan

1. `CheckpointerPool`: pool, graph singleton and its lock under jobs that fail and clean up; to check: a clean-up fails no
   job that is on another pool, or how many it fails.
2. A composition of `StudentResponse`, `CaseGrading` and the editions of a case: what a
   teacher grades is what was submitted.
3. `CaseGraph` under `AuthoringJob`: the stream of steps as what the graph emits.
4. Publication with the window of a case, over the job's row.
5. What remains of the liveness properties: that a run of the job, or of the graph, which is not over has a next step.
