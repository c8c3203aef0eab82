----------------------------- MODULE ProgressFeed -----------------------------
(***************************************************************************)
(* How a teacher's browser follows an authoring job                        *)
(* (teacher-authoring/useAuthoringJobProgress.ts, shared/api.ts): a        *)
(* snapshot, then realtime events with a watchdog for silence, or polling  *)
(* when the channel fails, and previews of the case on the side.           *)
(*                                                                         *)
(*   log     the rows of the job, in the order they were committed; a row  *)
(*           knows its place n, which the browser does not see             *)
(*   wanted  the job has been dispatched and waits for a worker            *)
(*   page    what is shown: the hook's state                               *)
(*   saved   sessionStorage names the job                                  *)
(*   phase   where the hook stands, attempt how often it has started over  *)
(*   feed    what streamRealtimeProgress has emitted                       *)
(*   get     the GET the hook waits for, preview the one on the side       *)
(*   event   the next row the channel delivers                             *)
(*   armed   the silence watchdog                                          *)
(*                                                                         *)
(* A handler runs to its end and React renders what it has set: one        *)
(* action. The bootstrap indicator is left out.                            *)
(***************************************************************************)
EXTENDS Naturals, Sequences

CONSTANTS
    NSteps,       \* the canonical steps of a job
    MaxRows,      \* bound: how often the job is written
    MaxTroubles   \* bound: requests, events and channels that fail, tasks that
                  \* are delivered twice, reloads of the browser

ASSUME StepsAssumption == NSteps \in Nat \ {0}
ASSUME BoundsAssumption == MaxRows \in Nat \ {0} /\ MaxTroubles \in Nat

VARIABLES log, wanted, troubles, page, saved, phase, attempt, feed,
          get, preview, event, armed

server == <<log, wanted>>
channel == <<event, armed>>
vars == <<server, troubles, page, saved, phase, attempt, feed, get,
          preview, channel>>

\* progress_seq is null until a worker has claimed the job.
NoSeq == 0
NoStep == 0

\* What the page shows of the case: nothing, what there is at a step, or all.
NoResult == 0
Final == NSteps + 1

None == [n |-> 0, status |-> "none", step |-> NoStep, seq |-> NoSeq]
Asked == [None EXCEPT !.status = "asked"]
NoPreview == [step |-> NoStep, got |-> NoResult, done |-> FALSE]

NoFeed == [seq |-> NoSeq, status |-> "none", step |-> NoStep]

\* useState; applied is appliedPreviewStepRef, of is the row active is from.
Fresh == [status |-> "none", active |-> NoStep, of |-> 0, result |-> NoResult,
          streaming |-> FALSE, applied |-> NoStep]

Created == log # <<>>
Job == log[Len(log)]
Terminal == {"completed", "failed", "failed_resumable"}
Retryable == {"pending", "failed_resumable"}
Following == phase # "idle"

Trouble == troubles < MaxTroubles /\ troubles' = troubles + 1

-----------------------------------------------------------------------------
(* The job *)

Written(status, step, seq) ==
    /\ Len(log) < MaxRows
    /\ log' = Append(log, [n |-> Len(log) + 1, status |-> status,
                           step |-> step, seq |-> seq])
    /\ UNCHANGED <<page, saved, phase, attempt, feed, get, preview,
                   channel>>

\* run_job computes the payload of its claim from the row it has read, which
\* another run may have written since. A task may be delivered twice.
Claim ==
    /\ Created /\ wanted /\ Job.status \in Retryable
    /\ \/ wanted' = FALSE /\ UNCHANGED troubles
       \/ wanted' = TRUE /\ Trouble
    /\ \E read \in {r \in DOMAIN log : log[r].status \in Retryable} :
         Written("processing", log[read].step, log[read].seq + 1)

\* A resumed run announces its first steps again.
Advance ==
    /\ Created /\ Job.status = "processing"
    /\ UNCHANGED <<wanted, troubles>>
    /\ \E step \in {1, Job.step + 1} \ {Job.step} :
         step <= NSteps /\ Written("processing", step, Job.seq + 1)

Complete ==
    /\ Created /\ Job.status = "processing" /\ Job.step = NSteps
    /\ UNCHANGED <<wanted, troubles>>
    /\ Written("completed", Job.step, Job.seq + 1)

\* The emergency failure starts from an empty payload.
Fail ==
    /\ Created /\ Job.status = "processing"
    /\ UNCHANGED <<wanted, troubles>>
    /\ \/ \E status \in {"failed", "failed_resumable"} :
            Written(status, Job.step, Job.seq + 1)
       \/ Written("failed", NoStep, 1)

-----------------------------------------------------------------------------
(* What the hook emits and shows *)

\* Mutant: every row is emitted.
OutdatedNever(row) == FALSE

\* emitMonotonicProgress drops rows that are older.
Outdated(row) == row.seq # NoSeq /\ feed.seq # NoSeq /\ row.seq < feed.seq

Emits(row) ==
    IF Outdated(row) THEN feed
    ELSE [seq |-> IF row.seq > feed.seq THEN row.seq ELSE feed.seq,
          status |-> row.status,
          step |-> IF row.step # NoStep THEN row.step ELSE feed.step]

\* The page after the metadata and the message of a row.
Shows(row) ==
    LET step == Emits(row).step
    IN  [page EXCEPT
           !.status = IF Emits(row).status # feed.status THEN row.status ELSE @,
           !.active = IF step # feed.step THEN step ELSE @,
           !.of = IF step # feed.step THEN row.n ELSE @]

\* Mutant: the end of the job leaves the previews as they are.
LockedNot(pg) == pg

\* lockPreviewAtTerminal
Locked(pg) == [pg EXCEPT !.applied = Final]

\* The effect on [activeAgent, isStreaming]: fetchAndApplyPreview aborts what
\* is under way. otherwise is the preview if there is nothing to fetch.
Previewing(pg, otherwise) ==
    IF /\ pg.streaming /\ pg.active # NoStep /\ pg.active > pg.applied
       /\ <<pg.active, pg.streaming>> # <<page.active, page.streaming>>
    THEN [NoPreview EXCEPT !.step = pg.active]
    ELSE otherwise

Stop == phase' = "idle" /\ get' = None /\ event' = 0 /\ armed' = FALSE

\* The error event, and the failures of the hook, which forget the job.
EndWith(pg, status, keep) ==
    /\ page' = [pg EXCEPT !.status = status, !.streaming = FALSE]
    /\ saved' = (saved /\ keep)
    /\ Stop
    /\ UNCHANGED <<feed, attempt, preview>>

\* emitTerminalEvent: the result is fetched; an error is emitted at once.
EndOf(row, pg) ==
    \/ /\ row.status = "completed"
       /\ page' = pg /\ phase' = "result" /\ get' = Asked
       /\ event' = 0 /\ armed' = FALSE
       /\ feed' = Emits(row)
       /\ preview' = Previewing(pg, preview)
       /\ UNCHANGED <<saved, attempt>>
    \/ /\ row.status \in {"failed", "failed_resumable"}
       /\ EndWith(pg, row.status, row.status = "failed_resumable")

-----------------------------------------------------------------------------
(* The teacher *)

\* startStreaming, of a page that begins as pg.
StartStreaming(pg) ==
    LET started == [pg EXCEPT !.streaming = TRUE, !.result = NoResult,
                              !.applied = NoStep]
    IN  /\ page' = started
        /\ phase' = "open" /\ get' = Asked /\ feed' = NoFeed
        /\ event' = 0 /\ armed' = FALSE
        /\ preview' = Previewing(started, NoPreview)

\* submitJob
Submit ==
    /\ ~Created /\ ~Following /\ page.status = "none"
    /\ log' = <<[n |-> 1, status |-> "pending", step |-> NoStep, seq |-> NoSeq]>>
    /\ wanted' = TRUE /\ saved' = TRUE /\ attempt' = 0
    /\ StartStreaming([Fresh EXCEPT !.status = "pending"])
    /\ UNCHANGED troubles

Bootstrap(pg) ==
    /\ page' = [pg EXCEPT !.result = NoResult]
    /\ phase' = "bootstrap" /\ get' = Asked /\ event' = 0 /\ armed' = FALSE

\* retryJob, where the endpoint accepts: it dispatches the job and leaves its
\* row as it is.
Retry ==
    /\ ~Following /\ page.status = "failed_resumable"
    /\ Job.status \in Retryable \cup {"processing"}
    /\ wanted' = (wanted \/ Job.status \in Retryable)
    /\ Bootstrap([page EXCEPT !.status = "pending"]) /\ attempt' = 0
    /\ UNCHANGED <<log, troubles, saved, feed, preview>>

RetryFails ==
    /\ ~Following /\ page.status = "failed_resumable"
    /\ \/ Job.status \in {"completed", "failed"} /\ UNCHANGED <<wanted, troubles>>
       \/ Trouble /\ wanted' \in {wanted, TRUE}
    /\ page' = [page EXCEPT !.status = "failed"]
    /\ UNCHANGED <<log, saved, phase, attempt, feed, get, preview, channel>>

\* The browser is reloaded; the job is found in sessionStorage.
Reload ==
    /\ Created /\ Trouble
    /\ \/ saved /\ Bootstrap(Fresh)
       \/ ~saved /\ page' = Fresh /\ Stop
    /\ attempt' = 0 /\ feed' = NoFeed /\ preview' = NoPreview
    /\ UNCHANGED <<server, saved>>

-----------------------------------------------------------------------------
(* Requests *)

\* get_job_progress, get_job_result
Serve ==
    /\ get = Asked /\ get' = Job
    /\ UNCHANGED <<server, troubles, page, saved, phase, attempt, feed,
                   preview, channel>>

Answered == get \notin {None, Asked}
Quietly == UNCHANGED <<server, troubles>>

\* bootstrapResumedJob
Bootstrapped ==
    /\ phase = "bootstrap" /\ Answered /\ Quietly
    /\ \/ /\ get.status = "completed"
          /\ page' = Locked(page) /\ phase' = "end" /\ get' = Asked
          /\ preview' = IF Locked(page) = page THEN preview ELSE NoPreview
          /\ UNCHANGED <<saved, attempt, feed, channel>>
       \/ /\ get.status \in {"failed", "failed_resumable"}
          /\ EndWith(page, get.status, get.status = "failed_resumable")
       \/ /\ get.status \notin Terminal
          /\ StartStreaming(
               [page EXCEPT !.status = get.status,
                            !.active = IF get.step # NoStep THEN get.step ELSE @,
                            !.of = IF get.step # NoStep THEN get.n ELSE @])
          /\ saved' = TRUE
          /\ UNCHANGED attempt

\* The snapshot streamRealtimeProgress begins with.
Opened ==
    /\ phase = "open" /\ Answered /\ Quietly
    /\ \/ get.status \in Terminal /\ EndOf(get, Shows(get))
       \/ /\ get.status \notin Terminal
          /\ feed' = Emits(get) /\ page' = Shows(get)
          /\ preview' = Previewing(page', preview)
          /\ phase' = "joining" /\ get' = None
          /\ UNCHANGED <<saved, attempt, channel>>

\* SUBSCRIBED: events of what is committed from now on, and a reconciliation.
Join ==
    /\ phase = "joining" /\ Quietly
    /\ phase' = "live" /\ get' = Asked
    /\ event' = Len(log) + 1 /\ armed' = FALSE
    /\ UNCHANGED <<page, saved, attempt, feed, preview>>

\* Mutant: after a reconciliation the watchdog for silence is not armed again.
ReconciledUnwatched ==
    /\ phase = "live" /\ Answered /\ Quietly
    /\ \/ get.status \in Terminal /\ EndOf(get, Shows(get))
       \/ /\ get.status \notin Terminal
          /\ feed' = Emits(get) /\ page' = Shows(get)
          /\ preview' = Previewing(page', preview)
          /\ get' = None
          /\ UNCHANGED <<saved, phase, attempt, channel>>

\* reconcileLatestSnapshot
Reconciled ==
    /\ phase = "live" /\ Answered /\ Quietly
    /\ \/ get.status \in Terminal /\ EndOf(get, Shows(get))
       \/ /\ get.status \notin Terminal
          /\ feed' = Emits(get) /\ page' = Shows(get)
          /\ preview' = Previewing(page', preview)
          /\ get' = None /\ armed' = TRUE
          /\ UNCHANGED <<saved, phase, attempt, event>>

\* The silence watchdog.
Silence ==
    /\ phase = "live" /\ armed /\ Quietly
    /\ armed' = FALSE
    /\ get' = IF get = None THEN Asked ELSE get
    /\ UNCHANGED <<page, saved, phase, attempt, feed, preview, event>>

\* An UPDATE of the row comes over the channel.
Event ==
    /\ phase = "live" /\ event <= Len(log) /\ Quietly
    /\ LET row == log[event]
       IN  \/ row.status \in Terminal /\ EndOf(row, Shows(row))
           \/ /\ row.status \notin Terminal
              /\ feed' = Emits(row) /\ page' = Shows(row)
              /\ preview' = Previewing(page', preview)
              /\ event' = event + 1 /\ armed' = TRUE
              /\ UNCHANGED <<saved, phase, attempt, get>>

LoseEvent ==
    /\ phase = "live" /\ event <= Len(log) /\ Trouble
    /\ event' = event + 1
    /\ UNCHANGED <<server, page, saved, phase, attempt, feed, get,
                   preview, armed>>

\* CHANNEL_ERROR, TIMED_OUT, CLOSED, or the watchdog of the subscription.
ChannelFails ==
    /\ phase \in {"joining", "live"} /\ Trouble
    /\ phase' = IF phase = "joining" THEN "degraded" ELSE "polling"
    /\ get' = IF get = None THEN Asked ELSE get
    /\ event' = 0 /\ armed' = FALSE
    /\ UNCHANGED <<server, page, saved, attempt, feed, preview>>

\* pollProgressUntilTerminal
Poll ==
    /\ phase = "polling" /\ get = None /\ Quietly
    /\ get' = Asked
    /\ UNCHANGED <<page, saved, phase, attempt, feed, preview, channel>>

Polled ==
    /\ phase = "polling" /\ Answered /\ Quietly
    /\ \/ get.status \in Terminal /\ EndOf(get, Shows(get))
       \/ /\ get.status \notin Terminal
          /\ feed' = Emits(get) /\ page' = Shows(get)
          /\ preview' = Previewing(page', preview)
          /\ get' = None
          /\ UNCHANGED <<saved, phase, attempt, channel>>

\* Mutant: the hook starts over each time.
DegradedAgain ==
    /\ phase = "degraded" /\ Answered /\ Quietly
    /\ \/ get.status \in Terminal /\ EndOf(get, Shows(get))
       \/ /\ get.status \notin Terminal
          /\ Bootstrap(Shows(get)) /\ attempt' = attempt + 1
          /\ feed' = Emits(get)
          /\ preview' = Previewing(Shows(get), preview)
          /\ UNCHANGED saved

\* ProgressTransportDegradedError: the hook starts over, once.
Degraded ==
    /\ phase = "degraded" /\ Answered /\ Quietly
    /\ \/ get.status \in Terminal /\ EndOf(get, Shows(get))
       \/ /\ get.status \notin Terminal /\ attempt = 0
          /\ Bootstrap(Shows(get)) /\ attempt' = 1
          /\ feed' = Emits(get)
          /\ preview' = Previewing(Shows(get), preview)
          /\ UNCHANGED saved
       \/ /\ get.status \notin Terminal /\ attempt = 1
          /\ EndWith(Shows(get), "failed", FALSE)

\* The result event, and the result at the end of bootstrapResumedJob.
Finished ==
    /\ phase \in {"result", "end"} /\ Answered /\ Quietly
    /\ page' = [Locked(page) EXCEPT !.result = Final, !.status = "completed",
                                    !.streaming = FALSE]
    /\ saved' = FALSE /\ Stop
    /\ preview' = IF Locked(page) = page /\ phase = "result" THEN preview
                  ELSE NoPreview
    /\ UNCHANGED <<attempt, feed>>

\* A GET fails: the hook gives up. Only its bootstrap keeps the job in mind.
GetFails ==
    /\ get # None /\ Trouble
    /\ EndWith(page, "failed", phase \in {"bootstrap", "end"})
    /\ UNCHANGED server

\* get_job_preview
ServePreview ==
    /\ preview.step # NoStep /\ ~preview.done
    /\ preview' = [preview EXCEPT
                     !.done = TRUE,
                     !.got = IF Job.status \in {"processing", "failed",
                                                "failed_resumable"}
                             THEN Job.step ELSE NoResult]
    /\ UNCHANGED <<server, troubles, page, saved, phase, attempt, feed,
                   get, channel>>

\* fetchAndApplyPreview; a preview that fails is like one that has nothing.
PreviewArrives ==
    /\ preview.done
    /\ page' = IF preview.step > page.applied /\ preview.got # NoResult
               THEN [page EXCEPT !.result = preview.got, !.applied = preview.step]
               ELSE page
    /\ preview' = NoPreview
    /\ UNCHANGED <<server, troubles, saved, phase, attempt, feed, get,
                   channel>>

-----------------------------------------------------------------------------
(* Specification *)

Init ==
    /\ log = <<>> /\ wanted = FALSE /\ troubles = 0
    /\ page = Fresh /\ saved = FALSE /\ phase = "idle" /\ attempt = 0
    /\ feed = NoFeed /\ get = None /\ preview = NoPreview
    /\ event = 0 /\ armed = FALSE

\* What the hook does with an answer.
Continue ==
    \/ Bootstrapped \/ Opened \/ Reconciled \/ Polled \/ Degraded \/ Finished

Next ==
    \/ Claim \/ Advance \/ Complete \/ Fail
    \/ Submit \/ Retry \/ RetryFails \/ Reload
    \/ Serve \/ Continue \/ Join \/ Silence \/ Poll
    \/ Event \/ LoseEvent \/ ChannelFails \/ GetFails
    \/ ServePreview \/ PreviewArrives

Spec == Init /\ [][Next]_vars

\* Requests are answered, timers fire, and a subscription is confirmed unless
\* its watchdog is faster. Nobody has to deliver an event.
FairSpec ==
    /\ Spec
    /\ WF_vars(Serve) /\ WF_vars(Continue)
    /\ WF_vars(Join) /\ WF_vars(Silence) /\ WF_vars(Poll)

-----------------------------------------------------------------------------
(* Properties *)

Statuses == {"pending", "processing"} \cup Terminal
Rows == [n : Nat, status : Statuses, step : 0 .. NSteps, seq : Nat]

TypeOK ==
    /\ log \in Seq(Rows) /\ Len(log) <= MaxRows
    /\ wanted \in BOOLEAN /\ troubles \in 0 .. MaxTroubles
    /\ page \in [status : Statuses \cup {"none"}, active : 0 .. NSteps, of : Nat,
                 result : 0 .. Final, streaming : BOOLEAN, applied : 0 .. Final]
    /\ saved \in BOOLEAN /\ attempt \in 0 .. 1
    /\ phase \in {"idle", "bootstrap", "end", "open", "joining", "live",
                  "polling", "degraded", "result"}
    /\ feed \in [seq : Nat, status : Statuses \cup {"none"}, step : 0 .. NSteps]
    /\ get \in Rows \cup {None, Asked}
    /\ preview \in [step : 0 .. NSteps, got : 0 .. NSteps, done : BOOLEAN]
    /\ event \in 0 .. MaxRows + 1 /\ armed \in BOOLEAN

\* What a page shows of a completed job is the whole case, however late a
\* preview comes, and the job is completed.
CompletedIsWhole ==
    ~Following /\ page.status = "completed" =>
        Job.status = "completed" /\ page.result = Final

Stream == {"joining", "live", "polling", "degraded", "result"}

\* While a page follows one stream, the step it shows is replaced by one of an
\* older row only when a claim between the two has set progress_seq back: else
\* snapshots and events may overtake each other as they like.
ProgressGoesForward ==
    [][(phase \in Stream /\ phase' \in Stream /\ page'.of < page.of) =>
         \E i \in page'.of + 1 .. page.of : log[i].seq < log[i - 1].seq]_vars

\* The page shows the end of the job.
Ended == Created /\ Job.status \in Terminal
ShowsTheEnd == ~Following /\ page.status = Job.status

\* Ends that the job has left behind by a new claim, and that are still on
\* their way to the page.
OutdatedEnds ==
    {i \in 1 .. Len(log) - 1 :
        /\ log[i].status \in Terminal
        /\ get = log[i] \/ (phase = "live" /\ event <= i)}

\* The second channel in a row has failed before it was joined, and the answer
\* about the job is from before its end: the hook gives up.
GivesUp == phase = "degraded" /\ attempt = 1 /\ Answered /\ get # Job

\* A page that follows a job shows the end the job has come to, completed or
\* failed, whatever events, channels and answers were lost before, unless one
\* more request fails or the hook has given up: a browser that is told
\* nothing finds out by itself (the watchdog for silence, the polling).
JobEndIsShown ==
    \A k \in 0 .. MaxTroubles :
        Following /\ Ended /\ OutdatedEnds = {} /\ troubles = k
        ~> ~Ended \/ ShowsTheEnd \/ GivesUp \/ troubles # k

\* Why JobEndIsShown: a page that follows a job never just waits to be told.
\* It has asked, or is about to join the channel, with the watchdog of the
\* subscription over it, or has the watchdog for silence, or polls.
NeverDeaf ==
    /\ Following => \/ get # None
                    \/ phase \in {"joining", "polling"}
                    \/ phase = "live" /\ armed
    /\ phase = "joining" => get = None
=============================================================================
