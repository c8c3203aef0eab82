------------------------- MODULE ProgressFeed_proofs -------------------------
(***************************************************************************)
(* Proofs about ProgressFeed, for any number of steps, rows and troubles:  *)
(* its types, that a page which says that a job is completed shows the     *)
(* whole case of a job that is (FeedInv), that the step a stream shows     *)
(* goes back only over a claim that has set progress_seq back (OrderInv),  *)
(* and that a page which follows a job never just waits (NeverDeaf).       *)
(***************************************************************************)
EXTENDS ProgressFeed, TLAPS

USE StepsAssumption, BoundsAssumption

Pages == [status : Statuses \cup {"none"}, active : 0 .. NSteps, of : Nat,
          result : 0 .. Final, streaming : BOOLEAN, applied : 0 .. Final]
Feeds == [seq : Nat, status : Statuses \cup {"none"}, step : 0 .. NSteps]
Previews == [step : 0 .. NSteps, got : 0 .. NSteps, done : BOOLEAN]
Phases == {"idle", "bootstrap", "end", "open", "joining", "live", "polling",
           "degraded", "result"}

\* The types of what the browser keeps.
BrowserOK ==
    /\ page \in Pages /\ saved \in BOOLEAN /\ attempt \in 0 .. 1
    /\ phase \in Phases /\ feed \in Feeds
    /\ get \in Rows \cup {None, Asked} /\ preview \in Previews
    /\ event \in 0 .. MaxRows + 1 /\ armed \in BOOLEAN
ServerOK ==
    /\ log \in Seq(Rows) /\ Len(log) <= MaxRows
    /\ wanted \in BOOLEAN /\ troubles \in 0 .. MaxTroubles

LEMMA TypeParts == TypeOK <=> ServerOK /\ BrowserOK
  BY DEF TypeOK, ServerOK, BrowserOK, Pages, Feeds, Previews, Phases

\* Before there is a job there is nothing to follow.
Unborn == ~Created => /\ phase = "idle" /\ get = None /\ preview = NoPreview
                      /\ page.status = "none"

\* A channel that is live knows its next row.
Listening == phase = "live" => event # 0

\* A job that has completed is not written again, and who has read that it
\* has completed is right.
IsCompleted == Created /\ Job.status = "completed"
CompletedIsLast ==
    \A i \in 1 .. Len(log) : log[i].status = "completed" => i = Len(log)
ReadsAreTrue ==
    /\ get.status = "completed" => IsCompleted
    /\ phase \in {"result", "end"} => IsCompleted

\* A page that has come to the end is closed to previews.
EndIsShown ==
    phase = "idle" /\ page.status = "completed" =>
        IsCompleted /\ page.result = Final /\ page.applied = Final

FeedInv == /\ TypeOK /\ Unborn /\ Listening /\ CompletedIsLast
           /\ ReadsAreTrue /\ EndIsShown

-----------------------------------------------------------------------------
(* The types *)

LEMMA JobType ==
    ASSUME log \in Seq(Rows), Created
    PROVE  /\ Len(log) \in 1 .. Len(log) /\ Job \in Rows
           /\ \A i \in 1 .. Len(log) : log[i] \in Rows
  <1>1. Len(log) \in Nat /\ log # <<>>
    BY DEF Created
  <1>2. Len(log) # 0
    BY <1>1
  <1> QED
    BY <1>1, <1>2 DEF Job

LEMMA StepRange == 0 \in 0 .. NSteps /\ 0 \in 0 .. Final /\ Final \in 0 .. Final
                   /\ NSteps < Final /\ \A s \in 0 .. NSteps : s \in 0 .. Final
  BY DEF Final

LEMMA NoEvent == 0 \in 0 .. MaxRows + 1
  BY BoundsAssumption

LEMMA AnswerType ==
    ASSUME BrowserOK, Answered PROVE get \in Rows
  BY DEF BrowserOK, Answered

LEMMA EmitsType ==
    ASSUME feed \in Feeds, NEW row \in Rows
    PROVE  Emits(row) \in Feeds
  BY DEF Emits, Feeds, Rows

LEMMA ShowsType ==
    ASSUME feed \in Feeds, page \in Pages, NEW row \in Rows
    PROVE  /\ Shows(row) \in Pages
           /\ Shows(row).result = page.result
  <1>1. Emits(row).step \in 0 .. NSteps
    BY EmitsType DEF Feeds
  <1>2. row.status \in Statuses \cup {"none"} /\ row.n \in Nat
    BY DEF Rows
  <1> QED
    BY <1>1, <1>2 DEF Shows, Pages

LEMMA NoPreviewType == NoPreview \in Previews
  BY StepRange DEF NoPreview, Previews, NoStep, NoResult

LEMMA PreviewingType ==
    ASSUME NEW pg \in Pages, NEW o \in Previews
    PROVE  Previewing(pg, o) \in Previews
  <1>1. pg.active \in 0 .. NSteps
    BY DEF Pages
  <1> QED
    BY <1>1, NoPreviewType DEF Previewing, Previews

LEMMA EndWithType ==
    ASSUME BrowserOK, NEW pg \in Pages, NEW status \in Statuses,
           NEW keep \in BOOLEAN, EndWith(pg, status, keep)
    PROVE  BrowserOK'
  <1>1. page' \in Pages
    BY DEF EndWith, Pages
  <1>2. saved' \in BOOLEAN
    BY Zenon DEF EndWith
  <1> QED
    BY <1>1, <1>2, NoEvent DEF BrowserOK, EndWith, Stop, Phases

LEMMA EndOfType ==
    ASSUME BrowserOK, NEW row \in Rows, NEW pg \in Pages, EndOf(row, pg)
    PROVE  BrowserOK'
  <1>1. CASE row.status = "completed"
    <2>1. Previewing(pg, preview) \in Previews /\ Emits(row) \in Feeds
      BY PreviewingType, EmitsType DEF BrowserOK
    <2> QED
      BY <1>1, <2>1, NoEvent DEF EndOf, BrowserOK, Phases
  <1>2. CASE row.status \in {"failed", "failed_resumable"}
    <2>1. EndWith(pg, row.status, row.status = "failed_resumable")
      BY <1>2 DEF EndOf
    <2>2. row.status \in Statuses /\ (row.status = "failed_resumable") \in BOOLEAN
      BY <1>2 DEF Statuses, Terminal
    <2> QED
      BY <2>1, <2>2, EndWithType
  <1> QED
    BY <1>1, <1>2 DEF EndOf

LEMMA StreamingType ==
    ASSUME BrowserOK, NEW pg \in Pages, StartStreaming(pg),
           saved' \in BOOLEAN, attempt' \in 0 .. 1
    PROVE  BrowserOK'
  <1> DEFINE started == [pg EXCEPT !.streaming = TRUE, !.result = NoResult,
                                   !.applied = NoStep]
  <1>1. started \in Pages
    BY StepRange DEF Pages, NoResult, NoStep
  <1>2. Previewing(started, NoPreview) \in Previews
    BY <1>1, PreviewingType, NoPreviewType
  <1>3. NoFeed \in Feeds
    BY StepRange DEF NoFeed, Feeds, NoSeq, NoStep
  <1> QED
    BY <1>1, <1>2, <1>3, NoEvent DEF StartStreaming, BrowserOK, Phases

LEMMA BootstrapType ==
    ASSUME NEW pg \in Pages, Bootstrap(pg)
    PROVE  /\ page' \in Pages /\ phase' \in Phases /\ get' \in {Asked}
           /\ event' \in 0 .. MaxRows + 1 /\ armed' \in BOOLEAN
  BY StepRange, NoEvent DEF Bootstrap, Pages, Phases, NoResult

LEMMA FreshType == Fresh \in Pages
  BY StepRange DEF Fresh, Pages, NoStep, NoResult

Typed == TypeOK /\ Unborn /\ Listening

LEMMA WrittenType ==
    ASSUME TypeOK, NEW status \in Statuses, NEW step \in 0 .. NSteps,
           NEW seq \in Nat, Written(status, step, seq), wanted' \in BOOLEAN,
           troubles' \in 0 .. MaxTroubles
    PROVE  TypeOK'
  <1> DEFINE row == [n |-> Len(log) + 1, status |-> status, step |-> step,
                     seq |-> seq]
  <1>1. ServerOK /\ BrowserOK
    BY TypeParts
  <1>2. row \in Rows
    BY <1>1 DEF ServerOK, Rows
  <1>3. log' = Append(log, row) /\ Len(log) < MaxRows
    BY DEF Written
  <1>4. log' \in Seq(Rows) /\ Len(log') <= MaxRows
    BY <1>1, <1>2, <1>3 DEF ServerOK
  <1>5. /\ troubles' \in 0 .. MaxTroubles
        /\ UNCHANGED <<page, saved, phase, attempt, feed, get, preview, event,
                       armed>>
    BY DEF Written, channel
  <1>6. ServerOK'
    BY <1>1, <1>4, <1>5 DEF ServerOK
  <1>7. BrowserOK'
    BY <1>1, <1>5 DEF BrowserOK
  <1> QED
    BY <1>6, <1>7, TypeParts DEF TypeOK, ServerOK, BrowserOK, Pages, Feeds,
       Previews, Phases

LEMMA StatusNames ==
    {"pending", "processing", "completed", "failed", "failed_resumable"}
      = Statuses
  BY DEF Statuses, Terminal

LEMMA ReadRowType ==
    ASSUME TypeOK, Created
    PROVE  \A i \in DOMAIN log : /\ log[i].step \in 0 .. NSteps
                                 /\ log[i].seq \in Nat /\ log[i].n \in Nat
                                 /\ log[i].status \in Statuses
  <1>1. DOMAIN log = 1 .. Len(log)
    BY DEF TypeOK
  <1>2. \A i \in DOMAIN log : log[i] \in Rows
    BY <1>1, JobType DEF TypeOK
  <1> QED
    BY <1>2 DEF Rows

LEMMA JobParts ==
    ASSUME TypeOK, Created
    PROVE  /\ Job.step \in 0 .. NSteps /\ Job.seq \in Nat /\ Job.n \in Nat
           /\ Job.status \in Statuses /\ Job \in Rows
  BY JobType DEF TypeOK, Rows

LEMMA TroubleType ==
    ASSUME TypeOK, Trouble PROVE troubles' \in 0 .. MaxTroubles
  BY BoundsAssumption DEF TypeOK, Trouble

LEMMA JobActionsType ==
    ASSUME TypeOK, Claim \/ Advance \/ Complete \/ Fail
    PROVE  TypeOK'
  <1>1. CASE Claim
    <2>1. PICK read \in DOMAIN log :
            Written("processing", log[read].step, log[read].seq + 1)
      BY <1>1 DEF Claim
    <2>2. log[read].step \in 0 .. NSteps /\ log[read].seq + 1 \in Nat
      BY <1>1, <2>1, ReadRowType DEF Claim
    <2>3. wanted' \in BOOLEAN /\ "processing" \in Statuses
      BY <1>1, StatusNames DEF Claim
    <2>4. troubles' \in 0 .. MaxTroubles
      BY <1>1, TroubleType DEF Claim, TypeOK
    <2> QED
      BY <2>1, <2>2, <2>3, <2>4, WrittenType
  <1>2. CASE Advance
    <2>1. Job.step \in 0 .. NSteps /\ Job.seq + 1 \in Nat
      BY <1>2, JobParts DEF Advance
    <2>2. PICK step \in {1, Job.step + 1} :
            step <= NSteps /\ Written("processing", step, Job.seq + 1)
      BY <1>2 DEF Advance
    <2>3. step \in 0 .. NSteps
      BY <2>1, <2>2
    <2>4. /\ wanted' \in BOOLEAN /\ "processing" \in Statuses
          /\ troubles' \in 0 .. MaxTroubles
      BY <1>2, StatusNames DEF Advance, TypeOK
    <2> QED
      BY <2>1, <2>2, <2>3, <2>4, WrittenType
  <1>3. CASE Complete
    <2>1. Job.step \in 0 .. NSteps /\ Job.seq + 1 \in Nat
      BY <1>3, JobParts DEF Complete
    <2>2. /\ wanted' \in BOOLEAN /\ "completed" \in Statuses
          /\ troubles' \in 0 .. MaxTroubles
      BY <1>3, StatusNames DEF Complete, TypeOK
    <2> QED
      BY <1>3, <2>1, <2>2, WrittenType DEF Complete
  <1>4. CASE Fail
    <2>1. Job.step \in 0 .. NSteps /\ Job.seq + 1 \in Nat
      BY <1>4, JobParts DEF Fail
    <2>2. /\ wanted' \in BOOLEAN /\ {"failed", "failed_resumable"} \subseteq Statuses
          /\ troubles' \in 0 .. MaxTroubles
      BY <1>4, StatusNames DEF Fail, TypeOK
    <2>3. NoStep \in 0 .. NSteps
      BY StepRange DEF NoStep
    <2> QED
      BY <1>4, <2>1, <2>2, <2>3, WrittenType DEF Fail
  <1> QED
    BY <1>1, <1>2, <1>3, <1>4

LEMMA TeacherType ==
    ASSUME Typed, Submit \/ Retry \/ RetryFails \/ Reload
    PROVE  ServerOK' /\ BrowserOK'
  <1>0. ServerOK /\ BrowserOK
    BY TypeParts DEF Typed
  <1>1. CASE Submit
    <2> DEFINE row == [n |-> 1, status |-> "pending", step |-> NoStep,
                       seq |-> NoSeq]
    <2>1. row \in Rows
      BY StepRange, StatusNames DEF Rows, NoStep, NoSeq
    <2>2. log' \in Seq(Rows) /\ Len(log') <= MaxRows
      BY <1>1, <2>1, BoundsAssumption DEF Submit
    <2>3. [Fresh EXCEPT !.status = "pending"] \in Pages
      BY FreshType, StatusNames DEF Pages
    <2>4. StartStreaming([Fresh EXCEPT !.status = "pending"])
      BY <1>1 DEF Submit
    <2>5. saved' \in BOOLEAN /\ attempt' \in 0 .. 1 /\ wanted' \in BOOLEAN
      BY <1>1 DEF Submit
    <2>6. BrowserOK'
      BY <1>0, <2>3, <2>4, <2>5, StreamingType
    <2> QED
      BY <1>0, <1>1, <2>2, <2>5, <2>6 DEF Submit, ServerOK
  <1>2. CASE Retry
    <2>1. [page EXCEPT !.status = "pending"] \in Pages
      BY <1>0, StatusNames DEF BrowserOK, Pages
    <2>2. wanted' \in BOOLEAN
      BY <1>2, Zenon DEF Retry
    <2> QED
      BY <1>0, <1>2, <2>1, <2>2, BootstrapType DEF Retry, ServerOK, BrowserOK
  <1>3. CASE RetryFails
    <2>1. page' \in Pages
      BY <1>0, <1>3, StatusNames DEF RetryFails, BrowserOK, Pages
    <2>2. wanted' \in BOOLEAN
      BY <1>0, <1>3 DEF RetryFails, ServerOK
    <2>3. troubles' \in 0 .. MaxTroubles
      BY <1>0, <1>3, TroubleType DEF RetryFails, ServerOK, Typed
    <2>4. BrowserOK'
      BY <1>0, <1>3, <2>1 DEF RetryFails, BrowserOK, channel
    <2> QED
      BY <1>0, <1>3, <2>2, <2>3, <2>4 DEF RetryFails, ServerOK
  <1>4. CASE Reload
    <2>1. troubles' \in 0 .. MaxTroubles
      BY <1>4, TroubleType DEF Reload, Typed
    <2>2. NoFeed \in Feeds
      BY StepRange DEF NoFeed, Feeds, NoSeq, NoStep
    <2>3. /\ page' \in Pages /\ phase' \in Phases
          /\ get' \in Rows \cup {None, Asked}
          /\ event' \in 0 .. MaxRows + 1 /\ armed' \in BOOLEAN
      BY <1>4, FreshType, BootstrapType, NoEvent DEF Reload, Stop, Phases
    <2>4. BrowserOK'
      BY <1>0, <1>4, <2>2, <2>3, NoPreviewType DEF Reload, BrowserOK
    <2> QED
      BY <1>0, <1>4, <2>1, <2>4 DEF Reload, ServerOK, server
  <1> QED
    BY <1>1, <1>2, <1>3, <1>4

LEMMA AnswersType ==
    ASSUME Typed,
           \/ Bootstrapped \/ Opened \/ Reconciled \/ Event \/ Polled
           \/ Degraded
    PROVE  ServerOK' /\ BrowserOK'
  <1>0. ServerOK /\ BrowserOK
    BY TypeParts DEF Typed
  <1>1. ServerOK'
    BY <1>0 DEF Bootstrapped, Opened, Reconciled, Event, Polled, Degraded,
                Quietly, server, ServerOK
  <1>2. ASSUME Answered
        PROVE  /\ get \in Rows /\ Shows(get) \in Pages /\ Emits(get) \in Feeds
               /\ Previewing(Shows(get), preview) \in Previews
    BY <1>0, <1>2, AnswerType, ShowsType, EmitsType, PreviewingType
       DEF BrowserOK
  <1>3. CASE Bootstrapped
    <2>1. get \in Rows
      BY <1>2, <1>3 DEF Bootstrapped
    <2>2. CASE get.status = "completed"
      <3>1. Locked(page) \in Pages
        BY <1>0, StepRange DEF BrowserOK, Locked, Pages
      <3>2. /\ page' = Locked(page) /\ phase' = "end" /\ get' = Asked
            /\ preview' \in {preview, NoPreview}
            /\ UNCHANGED <<saved, attempt, feed, event, armed>>
        BY <1>3, <2>2 DEF Bootstrapped, channel, Terminal
      <3> QED
        BY <1>0, <1>1, <3>1, <3>2, NoPreviewType DEF BrowserOK, Phases
    <2>3. CASE get.status \in {"failed", "failed_resumable"}
      <3>1. EndWith(page, get.status, get.status = "failed_resumable")
        BY <1>3, <2>3 DEF Bootstrapped, Terminal
      <3>2. get.status \in Statuses
        BY <2>3, StatusNames
      <3> QED
        BY <1>0, <1>1, <3>1, <3>2, EndWithType DEF BrowserOK
    <2>4. CASE get.status \notin Terminal
      <3> DEFINE pg == [page EXCEPT
                          !.status = get.status,
                          !.active = IF get.step # NoStep THEN get.step ELSE @,
                          !.of = IF get.step # NoStep THEN get.n ELSE @]
      <3>1. pg \in Pages
        BY <1>0, <2>1 DEF BrowserOK, Pages, Rows
      <3>2. StartStreaming(pg) /\ saved' = TRUE /\ UNCHANGED attempt
        BY <1>3, <2>4 DEF Bootstrapped, Terminal
      <3> QED
        BY <1>0, <1>1, <3>1, <3>2, StreamingType DEF BrowserOK
    <2> QED
      BY <1>1, <1>3, <2>2, <2>3, <2>4 DEF Bootstrapped
  <1>4. CASE Opened \/ Reconciled \/ Polled
    <2>1. Answered
      BY <1>4 DEF Opened, Reconciled, Polled
    <2>2. CASE EndOf(get, Shows(get))
      BY <1>0, <1>1, <1>2, <2>1, <2>2, EndOfType
    <2>3. CASE ~EndOf(get, Shows(get))
      <3>1. /\ feed' = Emits(get) /\ page' = Shows(get)
            /\ preview' = Previewing(page', preview) /\ get' = None
            /\ phase' \in {"joining", phase} /\ armed' \in {armed, TRUE}
            /\ UNCHANGED <<saved, attempt, event>>
        BY <1>4, <2>3 DEF Opened, Reconciled, Polled, channel
      <3> QED
        BY <1>0, <1>1, <1>2, <2>1, <3>1 DEF BrowserOK, Phases
    <2> QED
      BY <2>2, <2>3
  <1>5. CASE Event
    <2> DEFINE row == log[event]
    <2>1. event \in 1 .. Len(log)
      BY <1>0, <1>5 DEF Event, Typed, Listening, BrowserOK, ServerOK
    <2>2. row \in Rows
      BY <1>0, <2>1 DEF ServerOK
    <2>3. /\ Shows(row) \in Pages /\ Emits(row) \in Feeds
          /\ Previewing(Shows(row), preview) \in Previews
      BY <1>0, <2>2, ShowsType, EmitsType, PreviewingType DEF BrowserOK
    <2>4. CASE EndOf(row, Shows(row))
      BY <1>0, <1>1, <2>2, <2>3, <2>4, EndOfType
    <2>5. CASE ~EndOf(row, Shows(row))
      <3>1. /\ feed' = Emits(row) /\ page' = Shows(row)
            /\ preview' = Previewing(page', preview)
            /\ event' = event + 1 /\ armed' = TRUE
            /\ UNCHANGED <<saved, phase, attempt, get>>
        BY <1>5, <2>5 DEF Event
      <3>2. event' \in 0 .. MaxRows + 1
        BY <1>0, <2>1, <3>1, BoundsAssumption DEF ServerOK
      <3> QED
        BY <1>0, <1>1, <2>3, <3>1, <3>2 DEF BrowserOK
    <2> QED
      BY <2>4, <2>5
  <1>6. CASE Degraded
    <2>1. Answered
      BY <1>6 DEF Degraded
    <2>2. CASE EndOf(get, Shows(get))
      BY <1>0, <1>1, <1>2, <2>1, <2>2, EndOfType
    <2>3. CASE /\ Bootstrap(Shows(get)) /\ attempt' = 1 /\ feed' = Emits(get)
               /\ preview' = Previewing(Shows(get), preview) /\ UNCHANGED saved
      BY <1>0, <1>1, <1>2, <2>1, <2>3, BootstrapType DEF BrowserOK
    <2>4. CASE EndWith(Shows(get), "failed", FALSE)
      <3>1. "failed" \in Statuses /\ FALSE \in BOOLEAN
        BY StatusNames
      <3> QED
        BY <1>0, <1>1, <1>2, <2>1, <2>4, <3>1, EndWithType
    <2> QED
      BY <1>6, <2>2, <2>3, <2>4 DEF Degraded
  <1> QED
    BY <1>3, <1>4, <1>5, <1>6

LEMMA ChannelType ==
    ASSUME Typed,
           \/ Serve \/ Join \/ Silence \/ LoseEvent \/ ChannelFails \/ Poll
    PROVE  ServerOK' /\ BrowserOK'
  <1>0. ServerOK /\ BrowserOK
    BY TypeParts DEF Typed
  <1>1. CASE Serve
    <2>1. Created
      BY <1>1 DEF Serve, Typed, Unborn, Asked, None
    <2>2. get' \in Rows
      BY <1>1, <2>1, JobParts DEF Serve, Typed
    <2> QED
      BY <1>0, <1>1, <2>2 DEF Serve, server, channel, ServerOK, BrowserOK
  <1>2. CASE Join
    <2>1. event' \in 0 .. MaxRows + 1
      BY <1>0, <1>2, BoundsAssumption DEF Join, ServerOK
    <2> QED
      BY <1>0, <1>2, <2>1
         DEF Join, Quietly, server, ServerOK, BrowserOK, Phases
  <1>3. CASE Silence
    BY <1>0, <1>3 DEF Silence, Quietly, server, ServerOK, BrowserOK
  <1>4. CASE LoseEvent
    <2>1. event' \in 0 .. MaxRows + 1
      BY <1>0, <1>4, BoundsAssumption DEF LoseEvent, ServerOK, BrowserOK
    <2> QED
      BY <1>0, <1>4, <2>1, TroubleType
         DEF LoseEvent, server, ServerOK, BrowserOK, Typed
  <1>5. CASE ChannelFails
    BY <1>0, <1>5, TroubleType, NoEvent
       DEF ChannelFails, server, ServerOK, BrowserOK, Phases, Typed
  <1>6. CASE Poll
    BY <1>0, <1>6 DEF Poll, Quietly, server, channel, ServerOK, BrowserOK
  <1> QED
    BY <1>1, <1>2, <1>3, <1>4, <1>5, <1>6

LEMMA ResultType ==
    ASSUME Typed, Finished \/ GetFails \/ ServePreview \/ PreviewArrives
    PROVE  ServerOK' /\ BrowserOK'
  <1>0. ServerOK /\ BrowserOK
    BY TypeParts DEF Typed
  <1>1. CASE Finished
    <2>1. page' \in Pages
      BY <1>0, <1>1, StepRange, StatusNames
         DEF Finished, BrowserOK, Locked, Pages
    <2> QED
      BY <1>0, <1>1, <2>1, NoPreviewType, NoEvent
         DEF Finished, Stop, Quietly, server, ServerOK, BrowserOK, Phases
  <1>2. CASE GetFails
    <2>1. EndWith(page, "failed", phase \in {"bootstrap", "end"})
      BY <1>2 DEF GetFails
    <2>2. BrowserOK'
      <3>1. "failed" \in Statuses /\ page \in Pages
        BY <1>0, StatusNames DEF BrowserOK
      <3>2. (phase \in {"bootstrap", "end"}) \in BOOLEAN
        OBVIOUS
      <3> QED
        BY <1>0, <2>1, <3>1, <3>2, EndWithType
    <2> QED
      BY <1>0, <1>2, <2>2, TroubleType DEF GetFails, server, ServerOK, Typed
  <1>3. CASE ServePreview
    <2>1. Created
      BY <1>3 DEF ServePreview, Typed, Unborn, NoPreview
    <2>2. Job.step \in 0 .. NSteps /\ NoResult \in 0 .. NSteps
      BY <2>1, JobParts, StepRange DEF Typed, NoResult
    <2>3. preview' \in Previews
      BY <1>0, <1>3, <2>2 DEF ServePreview, BrowserOK, Previews
    <2> QED
      BY <1>0, <1>3, <2>3 DEF ServePreview, server, channel, ServerOK, BrowserOK
  <1>4. CASE PreviewArrives
    <2>1. page' \in Pages
      <3>1. preview.got \in 0 .. Final /\ preview.step \in 0 .. Final
        BY <1>0, StepRange DEF BrowserOK, Previews
      <3> QED
        BY <1>0, <1>4, <3>1 DEF PreviewArrives, BrowserOK, Pages
    <2> QED
      BY <1>0, <1>4, <2>1, NoPreviewType
         DEF PreviewArrives, server, channel, ServerOK, BrowserOK
  <1> QED
    BY <1>1, <1>2, <1>3, <1>4

LEMMA NextTypeOK == Typed /\ [Next]_vars => TypeOK'
  <1> SUFFICES ASSUME Typed, [Next]_vars PROVE TypeOK'
    OBVIOUS
  <1>1. CASE Claim \/ Advance \/ Complete \/ Fail
    BY <1>1, JobActionsType DEF Typed
  <1>2. ASSUME ServerOK', BrowserOK' PROVE TypeOK'
    BY <1>2
       DEF TypeOK, ServerOK, BrowserOK, Pages, Feeds, Previews, Phases
  <1>3. CASE UNCHANGED vars
    <2>1. ServerOK /\ BrowserOK
      BY TypeParts DEF Typed
    <2> QED
      BY <1>2, <1>3, <2>1 DEF vars, server, channel, ServerOK, BrowserOK
  <1> QED
    BY <1>1, <1>2, <1>3, TeacherType, AnswersType, ChannelType, ResultType
       DEF Next, Continue
-----------------------------------------------------------------------------
(* The end of a job *)

\* A job that has completed stays so, and nothing is written after it.
LEMMA WrittenLast ==
    ASSUME log \in Seq(Rows), Created, CompletedIsLast, ~IsCompleted,
           NEW row \in Rows, log' = Append(log, row)
    PROVE  CompletedIsLast' /\ Created'
  <1>1. Len(log') = Len(log) + 1 /\ Len(log) \in Nat
    OBVIOUS
  <1>2. \A i \in 1 .. Len(log) : log'[i] = log[i] /\ log[i].status # "completed"
    BY <1>1 DEF CompletedIsLast, IsCompleted, Job
  <1>3. \A i \in 1 .. Len(log') : i \in 1 .. Len(log) \/ i = Len(log')
    BY <1>1
  <1>4. CompletedIsLast'
    BY <1>2, <1>3 DEF CompletedIsLast
  <1>5. log' # <<>>
    BY <1>1
  <1> QED
    BY <1>4, <1>5 DEF Created

LEMMA JobActionsWrite ==
    ASSUME TypeOK, CompletedIsLast, Claim \/ Advance \/ Complete \/ Fail
    PROVE  /\ Created /\ ~IsCompleted /\ CompletedIsLast' /\ Created'
           /\ UNCHANGED <<page, phase, get, preview, event>>
  <1>1. Created /\ Job.status # "completed"
    BY DEF Claim, Advance, Complete, Fail, Retryable
  <1>2. PICK status, step, seq : Written(status, step, seq)
    <2>1. CASE Claim
      BY <2>1, Zenon DEF Claim
    <2>2. CASE Advance
      BY <2>2, Zenon DEF Advance
    <2>3. CASE Complete
      BY <2>3, Zenon DEF Complete
    <2>4. CASE Fail
      BY <2>4, Zenon DEF Fail
    <2> QED
      BY <2>1, <2>2, <2>3, <2>4
  <1> DEFINE row == [n |-> Len(log) + 1, status |-> status, step |-> step,
                     seq |-> seq]
  <1>3. log' = Append(log, row)
    BY <1>2 DEF Written
  <1>4. TypeOK'
    BY JobActionsType
  <1>5. log \in Seq(Rows) /\ log' \in Seq(Rows)
    BY <1>4 DEF TypeOK
  <1>6. row \in Rows
    <2>1. Len(log) \in Nat /\ Len(log') = Len(log) + 1
      BY <1>3, <1>5
    <2>2. log'[Len(log')] = row /\ Len(log') \in 1 .. Len(log')
      BY <1>3, <1>5, <2>1
    <2> QED
      BY <1>5, <2>2
  <1>7. CompletedIsLast' /\ Created'
    BY <1>1, <1>3, <1>5, <1>6, WrittenLast DEF IsCompleted
  <1> QED
    BY <1>1, <1>2, <1>7 DEF Written, channel, IsCompleted

\* What the end of a row leaves behind.
LEMMA EndWithLeaves ==
    ASSUME NEW pg \in Pages, NEW status, NEW keep \in BOOLEAN,
           EndWith(pg, status, keep)
    PROVE  /\ phase' = "idle" /\ get' = None /\ page'.status = status
  BY DEF EndWith, Stop, Pages

LEMMA EndOfLeaves ==
    ASSUME NEW row, NEW pg \in Pages, EndOf(row, pg)
    PROVE  \/ row.status = "completed" /\ phase' = "result" /\ get' = Asked
           \/ /\ phase' = "idle" /\ get' = None
              /\ page'.status \in {"failed", "failed_resumable"}
  <1>1. CASE EndWith(pg, row.status, row.status = "failed_resumable")
             /\ row.status \in {"failed", "failed_resumable"}
    BY <1>1, EndWithLeaves
  <1> QED
    BY <1>1 DEF EndOf

\* What a step of the page may leave behind.
Heard ==
    /\ UNCHANGED log
    /\ phase' = "idle" /\ page'.status = "completed" =>
         IsCompleted /\ page'.result = Final /\ page'.applied = Final
    /\ get'.status = "completed" => IsCompleted
    /\ phase' \in {"result", "end"} => IsCompleted
    /\ phase' = "live" => event' # 0

LEMMA EndOfIsHeard ==
    ASSUME FeedInv, Created, UNCHANGED log, NEW row \in Rows,
           EndOf(row, Shows(row)), row.status = "completed" => IsCompleted
    PROVE  Heard
  <1>1. Shows(row) \in Pages
    BY ShowsType, TypeParts DEF FeedInv, BrowserOK
  <1>2. None.status # "completed" /\ Asked.status # "completed"
    BY DEF None, Asked
  <1> QED
    BY <1>1, <1>2, EndOfLeaves DEF Heard

LEMMA AnswersAreHeard ==
    ASSUME FeedInv,
           \/ Bootstrapped \/ Opened \/ Reconciled \/ Event \/ Polled
           \/ Degraded
    PROVE  Heard /\ Created
  <1>0. ServerOK /\ BrowserOK /\ phase # "idle"
    BY TypeParts
       DEF FeedInv, Bootstrapped, Opened, Reconciled, Event, Polled, Degraded
  <1>1. Created /\ page \in Pages /\ feed \in Feeds /\ UNCHANGED log
    BY <1>0 DEF BrowserOK, FeedInv, Unborn, Bootstrapped, Opened, Reconciled,
                Event, Polled, Degraded, Quietly, server
  <1>a. /\ None.status # "completed" /\ Asked.status # "completed"
        /\ get.status = "completed" => IsCompleted
    BY DEF None, Asked, FeedInv, ReadsAreTrue
  <1>3. Answered => get \in Rows /\ (get.status = "completed" => IsCompleted)
    BY <1>0, AnswerType DEF FeedInv, ReadsAreTrue
  <1>4. CASE Bootstrapped
    <2>1. CASE get.status = "completed"
      BY <1>a, <1>1, <1>3, <1>4, <2>1 DEF Bootstrapped, Terminal, Heard
    <2>2. CASE get.status \in {"failed", "failed_resumable"}
      <3>1. EndWith(page, get.status, get.status = "failed_resumable")
        BY <1>4, <2>2 DEF Bootstrapped, Terminal
      <3> QED
        BY <1>a, <1>1, <2>2, <3>1, EndWithLeaves DEF Heard
    <2>3. CASE get.status \notin Terminal
      <3>1. phase' = "open" /\ get' = Asked
        BY <1>4, <2>3 DEF Bootstrapped, Terminal, StartStreaming
      <3> QED
        BY <1>a, <1>1, <3>1 DEF Heard
    <2> QED
      BY <1>4, <2>1, <2>2, <2>3 DEF Bootstrapped
  <1>5. CASE Opened \/ Reconciled \/ Polled
    <2>1. Answered
      BY <1>5 DEF Opened, Reconciled, Polled
    <2>2. CASE EndOf(get, Shows(get))
      BY <1>1, <1>3, <2>1, <2>2, EndOfIsHeard
    <2>3. CASE ~EndOf(get, Shows(get))
      <3>1. /\ get' = None /\ phase' \in {"joining", "live", "polling"}
            /\ phase' = "live" => event' = event /\ phase = "live"
        BY <1>5, <2>3 DEF Opened, Reconciled, Polled, channel
      <3> QED
        BY <1>a, <1>1, <3>1 DEF Heard, FeedInv, Listening
    <2> QED
      BY <2>2, <2>3
  <1>6. CASE Event
    <2>1. event \in 1 .. Len(log) /\ log[event] \in Rows
      BY <1>0, <1>6 DEF Event, FeedInv, Listening, BrowserOK, ServerOK
    <2>2. log[event].status = "completed" => IsCompleted
      BY <1>1, <2>1 DEF FeedInv, CompletedIsLast, IsCompleted, Job
    <2>3. CASE EndOf(log[event], Shows(log[event]))
      BY <1>1, <2>1, <2>2, <2>3, EndOfIsHeard
    <2>4. CASE ~EndOf(log[event], Shows(log[event]))
      <3>1. event' = event + 1 /\ phase' = "live" /\ get' = get
        BY <1>6, <2>4 DEF Event
      <3> QED
        BY <1>a, <1>1, <2>1, <3>1 DEF Heard
    <2> QED
      BY <2>3, <2>4
  <1>7. CASE Degraded
    <2>1. Answered
      BY <1>7 DEF Degraded
    <2>2. CASE EndOf(get, Shows(get))
      BY <1>1, <1>3, <2>1, <2>2, EndOfIsHeard
    <2>3. CASE Bootstrap(Shows(get))
      BY <1>a, <1>1, <2>3 DEF Bootstrap, Heard
    <2>4. CASE EndWith(Shows(get), "failed", FALSE)
      <3>1. Shows(get) \in Pages
        BY <1>1, <1>3, <2>1, ShowsType
      <3>2. phase' = "idle" /\ get' = None /\ page'.status = "failed"
        <4>1. FALSE \in BOOLEAN
          OBVIOUS
        <4> QED
          BY <2>4, <3>1, <4>1, EndWithLeaves
      <3> QED
        BY <1>a, <1>1, <3>2 DEF Heard
    <2> QED
      BY <1>7, <2>2, <2>3, <2>4 DEF Degraded
  <1> QED
    BY <1>1, <1>4, <1>5, <1>6, <1>7

LEMMA InitFeedInv == Init => FeedInv
  <1> SUFFICES ASSUME Init PROVE FeedInv
    OBVIOUS
  <1>0. wanted \in BOOLEAN /\ saved \in BOOLEAN /\ armed \in BOOLEAN
    BY Zenon DEF Init
  <1>1. ServerOK
    <2>1. <<>> \in Seq(Rows) /\ Len(<<>>) = 0
      OBVIOUS
    <2>2. log = <<>> /\ troubles = 0
      BY DEF Init
    <2> QED
      BY <1>0, <2>1, <2>2, BoundsAssumption DEF ServerOK
  <1>2. BrowserOK
    <2>1. NoFeed \in Feeds
      BY StepRange DEF NoFeed, Feeds, NoSeq, NoStep
    <2> QED
      <3>1. /\ page = Fresh /\ phase = "idle" /\ attempt = 0
            /\ feed = NoFeed /\ get = None /\ preview = NoPreview
            /\ event = 0
        BY DEF Init
      <3> QED
        BY <1>0, <2>1, <3>1, FreshType, NoPreviewType, NoEvent
           DEF BrowserOK, Phases
  <1>3. TypeOK
    BY <1>1, <1>2, TypeParts
  <1>4. Unborn /\ Listening /\ CompletedIsLast /\ ReadsAreTrue /\ EndIsShown
    BY DEF Init, Unborn, Listening, CompletedIsLast, ReadsAreTrue, EndIsShown,
           Created, Fresh, None
  <1> QED
    BY <1>3, <1>4 DEF FeedInv

\* A step that leaves the log alone and is heard keeps all but the types.
LEMMA HeardKeeps ==
    ASSUME FeedInv, Heard, Created
    PROVE  /\ Unborn' /\ Listening' /\ CompletedIsLast' /\ ReadsAreTrue'
           /\ EndIsShown'
  <1>1. Created' /\ IsCompleted' = IsCompleted /\ CompletedIsLast'
    BY Zenon
       DEF Heard, FeedInv, CompletedIsLast, IsCompleted, Created, Job
  <1>2. None.status # "completed" /\ Asked.status # "completed"
    BY DEF None, Asked
  <1> QED
    BY <1>1, <1>2
       DEF Heard, FeedInv, Unborn, Listening, ReadsAreTrue, EndIsShown

LEMMA TeacherIsHeard ==
    ASSUME FeedInv, Retry \/ RetryFails \/ Reload
    PROVE  Heard /\ Created
  <1>0. BrowserOK /\ Asked.status # "completed" /\ None.status # "completed"
    BY TypeParts DEF FeedInv, Asked, None
  <1>1. Created
    BY DEF Retry, RetryFails, Reload, FeedInv, Unborn
  <1>2. CASE Retry
    BY <1>0, <1>1, <1>2 DEF Retry, Bootstrap, Heard
  <1>3. CASE RetryFails
    <2>1. page'.status = "failed" /\ UNCHANGED <<log, phase, get, event>>
      BY <1>0, <1>3 DEF RetryFails, BrowserOK, Pages, channel
    <2>2. phase = "idle"
      BY <1>3 DEF RetryFails, Following
    <2> QED
      BY <1>1, <2>1, <2>2 DEF Heard, FeedInv, ReadsAreTrue
  <1>4. CASE Reload
    <2>1. UNCHANGED log
      BY <1>4 DEF Reload, server
    <2>2. CASE saved
      BY <1>0, <1>1, <1>4, <2>1, <2>2 DEF Reload, Bootstrap, Heard
    <2>3. CASE ~saved
      <3>1. page' = Fresh /\ phase' = "idle" /\ get' = None
        BY <1>4, <2>3 DEF Reload, Stop
      <3>2. Fresh.status # "completed"
        BY DEF Fresh
      <3> QED
        BY <1>0, <1>1, <2>1, <3>1, <3>2 DEF Heard
    <2> QED
      BY <2>2, <2>3
  <1> QED
    BY <1>1, <1>2, <1>3, <1>4

LEMMA ChannelIsHeard ==
    ASSUME FeedInv, Serve \/ Join \/ Silence \/ LoseEvent \/ ChannelFails \/ Poll
    PROVE  Heard /\ Created
  <1>0. ServerOK /\ BrowserOK /\ Asked.status # "completed"
    BY TypeParts DEF FeedInv, Asked
  <1>1. Created
    BY DEF FeedInv, Unborn, Asked, None, Serve, Join, Silence, LoseEvent,
           ChannelFails, Poll
  <1>2. CASE Serve
    BY <1>1, <1>2
       DEF Serve, server, channel, Heard, FeedInv, Listening, ReadsAreTrue,
           EndIsShown, IsCompleted
  <1>3. CASE Join
    <2>1. event' # 0
      BY <1>0, <1>3 DEF Join, ServerOK
    <2> QED
      BY <1>0, <1>1, <1>3, <2>1
         DEF Join, Quietly, server, Heard, FeedInv, ReadsAreTrue
  <1>4. CASE Silence \/ Poll
    BY <1>0, <1>1, <1>4
       DEF Silence, Poll, Quietly, server, channel, Heard, FeedInv, Listening,
           ReadsAreTrue
  <1>5. CASE LoseEvent
    <2>1. event' # 0
      BY <1>0, <1>5 DEF LoseEvent, BrowserOK
    <2> QED
      BY <1>1, <1>5, <2>1 DEF LoseEvent, server, Heard, FeedInv, ReadsAreTrue
  <1>6. CASE ChannelFails
    BY <1>0, <1>1, <1>6 DEF ChannelFails, server, Heard, FeedInv, ReadsAreTrue
  <1> QED
    BY <1>1, <1>2, <1>3, <1>4, <1>5, <1>6

LEMMA ResultIsHeard ==
    ASSUME FeedInv, Finished \/ GetFails \/ ServePreview \/ PreviewArrives
    PROVE  Heard /\ Created
  <1>0. BrowserOK /\ None.status # "completed"
    BY TypeParts DEF FeedInv, None
  <1>1. Created
    BY DEF FeedInv, Unborn, NoPreview, Finished, GetFails, ServePreview,
           PreviewArrives
  <1>2. CASE Finished
    <2>1. /\ page'.result = Final /\ page'.applied = Final
          /\ phase' = "idle" /\ get' = None /\ UNCHANGED log /\ IsCompleted
      BY <1>0, <1>2
         DEF Finished, BrowserOK, Pages, Locked, Stop, Quietly, server,
             FeedInv, ReadsAreTrue
    <2> QED
      BY <1>0, <1>1, <2>1 DEF Heard
  <1>3. CASE GetFails
    <2>1. EndWith(page, "failed", phase \in {"bootstrap", "end"})
          /\ UNCHANGED log
      BY <1>3 DEF GetFails, server
    <2>2. phase' = "idle" /\ get' = None /\ page'.status = "failed"
      <3>1. (phase \in {"bootstrap", "end"}) \in BOOLEAN
        OBVIOUS
      <3> QED
        BY <1>0, <2>1, <3>1, EndWithLeaves DEF BrowserOK
    <2> QED
      BY <1>0, <1>1, <2>1, <2>2 DEF Heard
  <1>4. CASE ServePreview
    BY <1>1, <1>4
       DEF ServePreview, server, channel, Heard, FeedInv, Listening,
           ReadsAreTrue, EndIsShown
  <1>5. CASE PreviewArrives
    <2>1. UNCHANGED <<log, phase, get, event>> /\ page'.status = page.status
      BY <1>0, <1>5
         DEF PreviewArrives, server, channel, BrowserOK, Pages
    <2>2. ASSUME phase = "idle", page.status = "completed" PROVE page' = page
      <3>1. page.applied = Final /\ preview.step \in 0 .. NSteps
        BY <1>0, <2>2 DEF FeedInv, EndIsShown, BrowserOK, Previews
      <3> QED
        BY <1>5, <3>1, StepRange DEF PreviewArrives
    <2> QED
      BY <1>1, <2>1, <2>2
         DEF Heard, FeedInv, Listening, ReadsAreTrue, EndIsShown
  <1> QED
    BY <1>1, <1>2, <1>3, <1>4, <1>5

LEMMA NextEnds ==
    ASSUME FeedInv, [Next]_vars
    PROVE  /\ Unborn' /\ Listening' /\ CompletedIsLast' /\ ReadsAreTrue'
           /\ EndIsShown'
  <1>1. CASE Claim \/ Advance \/ Complete \/ Fail
    <2>1. /\ Created /\ ~IsCompleted /\ CompletedIsLast' /\ Created'
          /\ UNCHANGED <<page, phase, get, preview, event>>
      BY <1>1, JobActionsWrite DEF FeedInv
    <2> QED
      BY <2>1 DEF FeedInv, Unborn, Listening, ReadsAreTrue, EndIsShown
  <1>2. CASE Submit
    <2>1. /\ log' = <<[n |-> 1, status |-> "pending", step |-> NoStep,
                       seq |-> NoSeq]>>
          /\ phase' = "open" /\ get' = Asked
      BY <1>2 DEF Submit, StartStreaming
    <2>2. Created' /\ CompletedIsLast'
      BY <2>1 DEF Created, CompletedIsLast
    <2> QED
      BY <2>1, <2>2
         DEF Unborn, Listening, ReadsAreTrue, EndIsShown, Asked, None
  <1>3. CASE UNCHANGED vars
    BY <1>3
       DEF vars, server, channel, FeedInv, Unborn, Listening, CompletedIsLast,
           ReadsAreTrue, EndIsShown, IsCompleted, Created, Job
  <1>4. CASE Heard /\ Created
    BY <1>4, HeardKeeps
  <1> QED
    BY <1>1, <1>2, <1>3, <1>4, AnswersAreHeard, TeacherIsHeard,
       ChannelIsHeard, ResultIsHeard DEF Next, Continue

LEMMA FeedInvHolds == Spec => []FeedInv
  <1>1. FeedInv /\ [Next]_vars => FeedInv'
    BY NextTypeOK, NextEnds DEF FeedInv, Typed
  <1> QED
    BY <1>1, InitFeedInv, PTL DEF Spec

\* The types of the rows of the job and of everything the hook keeps, in
\* particular that it recovers from a failing channel once (useAuthoring-
\* JobProgress.ts, startStreaming).
THEOREM FeedTypes == Spec => []TypeOK
  <1>1. FeedInv => TypeOK
    BY DEF FeedInv
  <1> QED
    BY <1>1, FeedInvHolds, PTL

\* A page that has come to rest and says that the job is completed shows the
\* whole case, of a job that is completed: no preview that arrives late takes
\* a part of it back (lockPreviewAtTerminal).
THEOREM CompletedShown == Spec => []CompletedIsWhole
  <1>1. FeedInv => CompletedIsWhole
    BY DEF FeedInv, EndIsShown, IsCompleted, CompletedIsWhole, Following
  <1> QED
    BY <1>1, FeedInvHolds, PTL
-----------------------------------------------------------------------------
(* The order of what is shown *)

SetBack(l, i, j) == \E m \in i + 1 .. j : l[m].seq < l[m - 1].seq

\* What an emergency failure leaves.
Emptied(row) == row.status = "failed" /\ row.step = NoStep

\* The rows of a job: each knows its place, the first has neither step nor seq,
\* and seq only fails to grow where a claim or an emergency failure writes.
RowsInOrder ==
    \A i \in 1 .. Len(log) :
       /\ log[i].n = i
       /\ IF i = 1 THEN log[i].step = NoStep
          ELSE log[i].seq # NoSeq /\ log[i].status # "pending"
SeqGrows ==
    \A i, j \in 1 .. Len(log) : i <= j =>
       /\ SetBack(log, i, j) \/ log[i].seq <= log[j].seq
       /\ i < j /\ log[i].status \notin Retryable /\ ~Emptied(log[j]) =>
            SetBack(log, i, j) \/ log[i].seq < log[j].seq
LogInv == RowsInOrder /\ SeqGrows

\* What is on its way to the page is not older than what it shows.
LaterRows ==
    /\ Answered => get.n >= page.of
    /\ event # 0 => event >= page.of

\* A page that shows a step shows that of a row, and a stream knows at least
\* the seq of that row, unless nothing older can come.
ShownInv ==
    /\ page.of <= Len(log)
    /\ page.of # 0 => log[page.of].step # NoStep
    /\ Answered => get.n \in 1 .. Len(log) /\ get = log[get.n]
    /\ phase \in {"bootstrap", "open"} => LaterRows
    /\ phase \in Stream =>
         LaterRows \/ (page.of # 0 /\ feed.seq >= log[page.of].seq)

OrderInv == FeedInv /\ LogInv /\ ShownInv

LEMMA WrittenRow ==
    ASSUME TypeOK, NEW status \in Statuses, NEW step \in 0 .. NSteps,
           NEW seq \in Nat, Written(status, step, seq)
    PROVE  /\ \E row \in Rows :
                /\ log' = Append(log, row) /\ row.n = Len(log) + 1
                /\ row.status = status /\ row.step = step /\ row.seq = seq
           /\ UNCHANGED <<page, phase, feed, get, event>>
  <1> DEFINE row == [n |-> Len(log) + 1, status |-> status, step |-> step,
                     seq |-> seq]
  <1>1. row \in Rows
    BY DEF TypeOK, Rows
  <1>2. log' = Append(log, row)
    BY DEF Written
  <1>3. /\ row.n = Len(log) + 1 /\ row.status = status /\ row.step = step
        /\ row.seq = seq
    OBVIOUS
  <1> QED
    BY <1>1, <1>2, <1>3 DEF Written, channel

LEMMA JobActionsAppend ==
    ASSUME TypeOK, Claim \/ Advance \/ Complete \/ Fail
    PROVE  /\ Created
           /\ \E row \in Rows :
                /\ log' = Append(log, row) /\ row.n = Len(log) + 1
                /\ row.seq # NoSeq /\ row.status # "pending"
                /\ \/ Job.status \in Retryable
                   \/ row.seq = Job.seq + 1 \/ Emptied(row)
           /\ UNCHANGED <<page, phase, feed, get, event>>
  <1>0. Created
    BY DEF Claim, Advance, Complete, Fail
  <1>1. /\ Job.step \in 0 .. NSteps /\ Job.seq \in Nat /\ Job.seq + 1 \in Nat
        /\ Job.seq + 1 # NoSeq
    BY <1>0, JobParts DEF NoSeq
  <1>2. {"processing", "completed", "failed", "failed_resumable"} \subseteq Statuses
    BY StatusNames
  <1>3. CASE Claim
    <2>1. PICK read \in DOMAIN log :
            Written("processing", log[read].step, log[read].seq + 1)
      BY <1>3 DEF Claim
    <2>2. /\ log[read].step \in 0 .. NSteps /\ log[read].seq + 1 \in Nat
          /\ log[read].seq + 1 # NoSeq
      BY <1>0, <2>1, ReadRowType DEF NoSeq
    <2>3. Job.status \in Retryable
      BY <1>3 DEF Claim
    <2>4. PICK row \in Rows :
            /\ log' = Append(log, row) /\ row.n = Len(log) + 1
            /\ row.status = "processing" /\ row.seq = log[read].seq + 1
      BY <1>2, <2>1, <2>2, WrittenRow
    <2>5. UNCHANGED <<page, phase, feed, get, event>>
      BY <1>2, <2>1, <2>2, WrittenRow
    <2> QED
      BY <1>0, <2>2, <2>3, <2>4, <2>5
  <1>4. ASSUME NEW status \in Statuses, status # "pending",
               NEW step \in 0 .. NSteps, Written(status, step, Job.seq + 1)
        PROVE  /\ \E row \in Rows :
                    /\ log' = Append(log, row) /\ row.n = Len(log) + 1
                    /\ row.seq # NoSeq /\ row.status # "pending"
                    /\ row.seq = Job.seq + 1
               /\ UNCHANGED <<page, phase, feed, get, event>>
    BY <1>1, <1>4, WrittenRow
  <1>5. CASE Advance
    <2>1. PICK step \in {1, Job.step + 1} :
            step <= NSteps /\ Written("processing", step, Job.seq + 1)
      BY <1>5 DEF Advance
    <2>2. step \in 0 .. NSteps
      BY <1>1, <2>1
    <2> QED
      BY <1>0, <1>2, <1>4, <2>1, <2>2
  <1>6. CASE Complete
    <2>1. Written("completed", Job.step, Job.seq + 1)
      BY <1>6 DEF Complete
    <2> QED
      BY <1>0, <1>1, <1>2, <1>4, <2>1
  <1>7. CASE Written("failed", NoStep, 1)
    <2>1. NoStep \in 0 .. NSteps /\ 1 \in Nat /\ 1 # NoSeq
      BY StepRange DEF NoStep, NoSeq
    <2>2. PICK row \in Rows :
            /\ log' = Append(log, row) /\ row.n = Len(log) + 1
            /\ row.status = "failed" /\ row.step = NoStep /\ row.seq = 1
      BY <1>2, <1>7, <2>1, WrittenRow
    <2>3. UNCHANGED <<page, phase, feed, get, event>>
      BY <1>2, <1>7, <2>1, WrittenRow
    <2> QED
      BY <1>0, <2>1, <2>2, <2>3 DEF Emptied
  <1>8. CASE Fail /\ ~Written("failed", NoStep, 1)
    <2>1. PICK status \in {"failed", "failed_resumable"} :
            Written(status, Job.step, Job.seq + 1)
      BY <1>8 DEF Fail
    <2>2. status \in Statuses /\ status # "pending"
      BY <1>2, <2>1
    <2> QED
      BY <1>0, <1>1, <1>4, <2>1, <2>2
  <1> QED
    BY <1>3, <1>5, <1>6, <1>7, <1>8

LEMMA LogInvKept ==
    ASSUME TypeOK, LogInv, Claim \/ Advance \/ Complete \/ Fail
    PROVE  LogInv'
  <1>1. Created /\ log \in Seq(Rows) /\ Len(log) \in Nat
    BY JobActionsAppend DEF TypeOK
  <1>2. PICK row \in Rows :
          /\ log' = Append(log, row) /\ row.n = Len(log) + 1
          /\ row.seq # NoSeq /\ row.status # "pending"
          /\ \/ Job.status \in Retryable
             \/ row.seq = Job.seq + 1 \/ Emptied(row)
    BY JobActionsAppend
  <1> DEFINE L == Len(log)
  <1>3. /\ Len(log') = L + 1 /\ log'[L + 1] = row /\ L \in 1 .. L
        /\ \A i \in 1 .. L : log'[i] = log[i]
    BY <1>1, <1>2, JobType
  <1>4. /\ \A i \in 1 .. L : log[i] \in Rows /\ log[i].seq \in Nat
        /\ Job = log[L] /\ row.seq \in Nat
    BY <1>1, <1>2, JobType DEF Rows, Job
  <1>5. \A i \in 1 .. L + 1 : i \in 1 .. L \/ i = L + 1
    BY <1>1
  <1>6. RowsInOrder'
    <2>1. L + 1 # 1
      BY <1>1, <1>3
    <2> QED
      BY <1>2, <1>3, <1>5, <2>1 DEF LogInv, RowsInOrder
  <1>7. \A i, j \in 1 .. L : SetBack(log, i, j) <=> SetBack(log', i, j)
    <2> SUFFICES ASSUME NEW i \in 1 .. L, NEW j \in 1 .. L
                 PROVE  SetBack(log, i, j) <=> SetBack(log', i, j)
      OBVIOUS
    <2>1. \A m \in i + 1 .. j : m \in 1 .. L /\ m - 1 \in 1 .. L
      BY <1>1
    <2> QED
      BY <1>3, <2>1 DEF SetBack
  <1>8. ASSUME NEW i \in 1 .. L
        PROVE  /\ SetBack(log', i, L + 1) \/ log[i].seq <= row.seq
               /\ log[i].status \notin Retryable /\ ~Emptied(row) =>
                    SetBack(log', i, L + 1) \/ log[i].seq < row.seq
    <2>1. CASE SetBack(log, i, L)
      <3>1. PICK m \in i + 1 .. L : log'[m].seq < log'[m - 1].seq
        BY <1>3, <1>7, <1>8, <2>1 DEF SetBack
      <3>2. m \in i + 1 .. L + 1
        BY <1>1
      <3> QED
        BY <3>1, <3>2 DEF SetBack
    <2>2. CASE row.seq < log[L].seq
      <3>1. L + 1 \in i + 1 .. L + 1 /\ (L + 1) - 1 = L
        BY <1>1, <1>8
      <3>2. log'[L + 1].seq < log'[(L + 1) - 1].seq
        BY <1>3, <2>2, <3>1
      <3> QED
        BY <3>1, <3>2 DEF SetBack
    <2>3. CASE ~SetBack(log, i, L) /\ row.seq >= log[L].seq
      <3>1. i <= L /\ log[i].seq <= log[L].seq
        BY <1>1, <1>3, <1>4, <1>8, <2>3 DEF LogInv, SeqGrows
      <3>2. log[i].seq <= row.seq
        BY <1>3, <1>4, <1>8, <2>3, <3>1
      <3>3. CASE row.seq = Job.seq + 1 \/ Emptied(row)
        BY <1>3, <1>4, <1>8, <3>1, <3>2, <3>3
      <3>4. CASE Job.status \in Retryable
        <4>1. ~Emptied(log[L])
          BY <1>4, <3>4 DEF Emptied, Retryable
        <4>2. ASSUME log[i].status \notin Retryable PROVE log[i].seq < log[L].seq
          <5>1. i < L
            BY <1>1, <1>4, <3>1, <3>4, <4>2
          <5> QED
            BY <1>3, <1>8, <2>3, <4>1, <4>2, <5>1 DEF LogInv, SeqGrows
        <4> QED
          BY <1>3, <1>4, <1>8, <2>3, <3>2, <4>2
      <3> QED
        BY <1>2, <3>3, <3>4
    <2> QED
      BY <1>3, <1>4, <2>1, <2>2, <2>3
  <1>9. SeqGrows'
    <2> SUFFICES ASSUME NEW i \in 1 .. L + 1, NEW j \in 1 .. L + 1, i <= j
                 PROVE  /\ SetBack(log', i, j) \/ log'[i].seq <= log'[j].seq
                        /\ /\ i < j /\ log'[i].status \notin Retryable
                           /\ ~Emptied(log'[j])
                           => SetBack(log', i, j) \/ log'[i].seq < log'[j].seq
      BY <1>3 DEF SeqGrows
    <2>1. CASE j \in 1 .. L
      <3>1. i \in 1 .. L
        BY <1>1, <2>1
      <3> QED
        BY <1>3, <1>7, <2>1, <3>1 DEF LogInv, SeqGrows
    <2>2. CASE j = L + 1 /\ i \in 1 .. L
      BY <1>3, <1>8, <2>2
    <2>3. CASE j = L + 1 /\ i = L + 1
      BY <1>1, <1>3, <1>4, <2>3
    <2> QED
      BY <1>5, <2>1, <2>2, <2>3
  <1> QED
    BY <1>6, <1>9 DEF LogInv
LEMMA NotYetAnswered ==
    ~(None \notin {None, Asked}) /\ ~(Asked \notin {None, Asked})
  OBVIOUS

\* What a row that is emitted does to the page and to the feed.
LEMMA EmitsFacts ==
    ASSUME page \in Pages, feed \in Feeds, NEW row \in Rows
    PROVE  /\ Emits(row).seq \in Nat /\ Emits(row).seq >= feed.seq
           /\ \/ Shows(row).of = page.of
              \/ /\ Shows(row).of = row.n /\ row.step # NoStep
                 /\ ~Outdated(row) /\ Emits(row).seq >= row.seq
  <1>1. row.seq \in Nat /\ feed.seq \in Nat
    BY DEF Rows, Feeds
  <1>2. /\ Emits(row).seq \in Nat /\ Emits(row).seq >= feed.seq
        /\ ~Outdated(row) => Emits(row).seq >= row.seq
    BY <1>1 DEF Emits
  <1>3. Outdated(row) \/ row.step = NoStep => Emits(row).step = feed.step
    BY DEF Emits
  <1>4. Shows(row).of = IF Emits(row).step # feed.step THEN row.n ELSE page.of
    BY DEF Shows, Pages
  <1> QED
    BY <1>2, <1>3, <1>4

\* A row that is emitted to a stream replaces a newer one only over a claim.
LEMMA EmittedForward ==
    ASSUME OrderInv, NEW r \in 1 .. Len(log), phase \in Stream,
           log[r].status \notin {"failed", "failed_resumable"},
           log[r].n < page.of => ~LaterRows,
           Shows(log[r]).of < page.of
    PROVE  SetBack(log, Shows(log[r]).of, page.of)
  <1>0. /\ page \in Pages /\ feed \in Feeds /\ log[r] \in Rows
        /\ page.of \in Nat /\ Len(log) \in Nat /\ log \in Seq(Rows)
    BY TypeParts DEF OrderInv, FeedInv, BrowserOK, ServerOK, Pages
  <1>1. /\ Shows(log[r]).of = log[r].n /\ log[r].step # NoStep
        /\ ~Outdated(log[r])
    BY <1>0, EmitsFacts
  <1>2. log[r].n = r /\ r < page.of
    BY <1>1 DEF OrderInv, LogInv, RowsInOrder
  <1>3. page.of \in 1 .. Len(log) /\ log[page.of].step # NoStep
    BY <1>0, <1>2 DEF OrderInv, ShownInv
  <1>4. feed.seq >= log[page.of].seq
    BY <1>2 DEF OrderInv, ShownInv
  <1>5. r # 1 /\ page.of # 1
    BY <1>1, <1>2, <1>3 DEF OrderInv, LogInv, RowsInOrder
  <1>6. log[r].seq # NoSeq /\ log[page.of].seq # NoSeq
        /\ log[r].status # "pending"
    BY <1>3, <1>5 DEF OrderInv, LogInv, RowsInOrder
  <1>7. log[r].seq \in Nat /\ feed.seq \in Nat /\ log[page.of].seq \in Nat
    <2>1. log[page.of] \in Rows
      BY <1>0, <1>3
    <2> QED
      BY <1>0, <2>1 DEF Rows, Feeds
  <1>8. log[r].seq >= log[page.of].seq
    BY <1>1, <1>4, <1>6, <1>7 DEF Outdated, NoSeq
  <1>9. log[r].status \notin Retryable /\ ~Emptied(log[page.of])
    BY <1>3, <1>6 DEF Retryable, Emptied
  <1>10. SetBack(log, r, page.of) \/ log[r].seq < log[page.of].seq
    BY <1>0, <1>2, <1>3, <1>9 DEF OrderInv, LogInv, SeqGrows
  <1> QED
    BY <1>1, <1>2, <1>7, <1>8, <1>10

\* What an emitted row leaves of ShownInv.
LEMMA EmittedShown ==
    ASSUME OrderInv, NEW r \in 1 .. Len(log), NEW pg,
           pg.of = Shows(log[r]).of
    PROVE  /\ pg.of <= Len(log) /\ (pg.of # 0 => log[pg.of].step # NoStep)
           /\ \/ pg.of = page.of
              \/ pg.of # 0 /\ Emits(log[r]).seq >= log[pg.of].seq
           /\ Emits(log[r]).seq >= feed.seq /\ Emits(log[r]).seq \in Nat
  <1>0. page \in Pages /\ feed \in Feeds /\ log[r] \in Rows
    BY TypeParts DEF OrderInv, FeedInv, BrowserOK, ServerOK
  <1>1. log[r].n = r /\ r # 0 /\ r <= Len(log)
    BY DEF OrderInv, LogInv, RowsInOrder
  <1> QED
    BY <1>0, <1>1, EmitsFacts DEF OrderInv, ShownInv

LEMMA InitOrderInv == Init => OrderInv
  <1> SUFFICES ASSUME Init PROVE OrderInv
    OBVIOUS
  <1>1. FeedInv
    BY InitFeedInv
  <1>2. log = <<>> /\ phase = "idle" /\ page.of = 0 /\ get = None /\ event = 0
    BY DEF Init, Fresh
  <1>3. LogInv
    BY <1>2 DEF LogInv, RowsInOrder, SeqGrows
  <1>4. ShownInv
    BY <1>2 DEF ShownInv, Answered, Stream
  <1> QED
    BY <1>1, <1>3, <1>4 DEF OrderInv

\* The page hears of rows: the log stays, and what comes later is not older.
LEMMA StreamKeeps ==
    ASSUME OrderInv, UNCHANGED log,
           page'.of <= Len(log), page'.of # 0 => log[page'.of].step # NoStep,
           Answered' => get' = get \/ (get' = log[Len(log)] /\ Created),
           phase' \in {"bootstrap", "open"} => LaterRows',
           phase' \in Stream =>
             LaterRows' \/ (page'.of # 0 /\ feed'.seq >= log[page'.of].seq)
    PROVE  LogInv' /\ ShownInv'
  <1>1. LogInv'
    BY DEF OrderInv, LogInv, RowsInOrder, SeqGrows
  <1>2. ASSUME Answered'
        PROVE  get'.n \in 1 .. Len(log) /\ get' = log[get'.n]
    <2>1. CASE get' = get
      BY <1>2, <2>1 DEF OrderInv, ShownInv, Answered
    <2>2. CASE get' = log[Len(log)] /\ Created
      <3>1. Len(log) \in 1 .. Len(log)
        BY <2>2, JobType DEF OrderInv, FeedInv, TypeOK
      <3>2. log[Len(log)].n = Len(log)
        BY <3>1 DEF OrderInv, LogInv, RowsInOrder
      <3> QED
        BY <2>2, <3>1, <3>2
    <2> QED
      BY <1>2, <2>1, <2>2
  <1> QED
    BY <1>1, <1>2 DEF ShownInv
\* No step that is shown is replaced by an older one, but over a claim.
Forward ==
    phase \in Stream /\ phase' \in Stream /\ page'.of < page.of =>
      SetBack(log, page'.of, page.of)

LEMMA PageStays ==
    ASSUME OrderInv, UNCHANGED log, page'.of = page.of, feed' = feed,
           Answered' => get' = get \/ (get' = Job /\ Created),
           event' # 0 => \/ event # 0 /\ event' \in {event, event + 1}
                         \/ event' = Len(log) + 1,
           phase' \in Stream => phase \in Stream,
           phase' \in {"bootstrap", "open"} =>
             phase' = phase \/ (~Answered' /\ event' = 0)
    PROVE  LogInv' /\ ShownInv' /\ Forward
  <1>0. page.of \in Nat /\ Len(log) \in Nat /\ event \in Nat
        /\ page.of <= Len(log)
    BY TypeParts
       DEF OrderInv, FeedInv, BrowserOK, ServerOK, Pages, ShownInv
  <1>1. ASSUME Answered', LaterRows PROVE get'.n >= page.of
    <2>1. CASE get' = get
      BY <1>1, <2>1 DEF LaterRows, Answered
    <2>2. CASE get' = Job /\ Created
      <3>1. Len(log) \in 1 .. Len(log)
        BY <2>2, JobType DEF OrderInv, FeedInv, TypeOK
      <3>2. log[Len(log)].n = Len(log)
        BY <3>1 DEF OrderInv, LogInv, RowsInOrder
      <3> QED
        BY <1>0, <2>2, <3>2 DEF Job
    <2> QED
      BY <1>1, <2>1, <2>2
  <1>2. LaterRows => LaterRows'
    BY <1>0, <1>1 DEF LaterRows
  <1>3. ~Answered' /\ event' = 0 => LaterRows'
    BY DEF LaterRows
  <1>4. LogInv' /\ ShownInv'
    BY <1>2, <1>3, StreamKeeps DEF OrderInv, ShownInv, Job
  <1> QED
    BY <1>0, <1>4 DEF Forward

\* A row that has been answered or delivered is emitted.
LEMMA EmissionKeeps ==
    ASSUME OrderInv, UNCHANGED log, NEW r \in 1 .. Len(log),
           (Answered /\ r = get.n) \/ (event # 0 /\ r = event),
           page'.of = Shows(log[r]).of,
           Answered' => get' = get,
           \/ phase' = "idle"
           \/ phase' = "bootstrap" /\ ~Answered' /\ event' = 0
           \/ /\ phase' \in Stream /\ phase \in Stream \cup {"open"}
              /\ log[r].status \notin {"failed", "failed_resumable"}
              /\ feed' = Emits(log[r])
              /\ event' # 0 => event # 0 /\ event' \in {event, event + 1}
    PROVE  LogInv' /\ ShownInv' /\ Forward
  <1>0. page.of \in Nat /\ event \in Nat /\ feed.seq \in Nat
        /\ Len(log) \in Nat
    BY TypeParts
       DEF OrderInv, FeedInv, BrowserOK, ServerOK, Pages, Feeds
  <1>1. /\ page'.of <= Len(log) /\ (page'.of # 0 => log[page'.of].step # NoStep)
        /\ \/ page'.of = page.of
           \/ page'.of # 0 /\ Emits(log[r]).seq >= log[page'.of].seq
        /\ Emits(log[r]).seq >= feed.seq /\ Emits(log[r]).seq \in Nat
    BY EmittedShown
  <1>2. ~Answered' /\ event' = 0 => LaterRows'
    BY DEF LaterRows
  <1>3. CASE \/ phase' = "idle"
             \/ phase' = "bootstrap" /\ ~Answered' /\ event' = 0
    <2>1. phase' \notin Stream
      BY <1>3 DEF Stream
    <2> QED
      BY <1>1, <1>2, <1>3, <2>1, StreamKeeps DEF Forward
  <1>4. CASE /\ phase' \in Stream /\ phase \in Stream \cup {"open"}
             /\ log[r].status \notin {"failed", "failed_resumable"}
             /\ feed' = Emits(log[r])
             /\ event' # 0 => event # 0 /\ event' \in {event, event + 1}
    <2>1. \/ page'.of = page.of
          \/ page'.of # 0 /\ feed'.seq >= log[page'.of].seq
      BY <1>1, <1>4
    <2>2. ASSUME page'.of = page.of, LaterRows PROVE LaterRows'
      BY <1>0, <1>4, <2>2 DEF LaterRows, Answered
    <2>3. ASSUME page'.of = page.of, page.of # 0, feed.seq >= log[page.of].seq
          PROVE  feed'.seq >= log[page'.of].seq
      <3>1. log[page.of].seq \in Nat
        <4>1. page.of \in 1 .. Len(log) /\ log \in Seq(Rows)
          BY <1>0, <1>1, <2>3, TypeParts DEF OrderInv, FeedInv, ServerOK
        <4>2. log[page.of] \in Rows
          BY <4>1
        <4> QED
          BY <4>2 DEF Rows
      <3> QED
        BY <1>0, <1>1, <1>4, <2>3, <3>1
    <2>4. \/ LaterRows'
          \/ page'.of # 0 /\ feed'.seq >= log[page'.of].seq
      BY <1>1, <1>4, <2>1, <2>2, <2>3 DEF OrderInv, ShownInv
    <2>5. phase' \notin {"bootstrap", "open"}
      BY <1>4 DEF Stream
    <2>6. LogInv' /\ ShownInv'
      BY <1>1, <2>4, <2>5, StreamKeeps
    <2>7. ASSUME phase \in Stream, page'.of < page.of
          PROVE  SetBack(log, page'.of, page.of)
      <3>1. log[r].n = r
        BY DEF OrderInv, LogInv, RowsInOrder
      <3>2. log[r].n < page.of => ~LaterRows
        BY <1>0, <3>1 DEF LaterRows
      <3> QED
        BY <1>4, <2>7, <3>2, EmittedForward
    <2> QED
      BY <2>6, <2>7 DEF Forward
  <1> QED
    BY <1>3, <1>4
LEMMA NoneIsNoAnswer ==
    /\ get' = None => ~Answered'
    /\ get' = Asked => ~Answered'
  BY DEF Answered

LEMMA JobActionsOrder ==
    ASSUME OrderInv, Claim \/ Advance \/ Complete \/ Fail
    PROVE  LogInv' /\ ShownInv' /\ Forward
  <1>0. TypeOK /\ LogInv /\ page.of \in Nat
    BY TypeParts DEF OrderInv, FeedInv, BrowserOK, Pages
  <1>1. LogInv'
    BY <1>0, LogInvKept
  <1>2. PICK row \in Rows : log' = Append(log, row)
    BY <1>0, JobActionsAppend
  <1>3. UNCHANGED <<page, phase, feed, get, event>>
    BY <1>0, JobActionsAppend
  <1>4. /\ Len(log') = Len(log) + 1 /\ Len(log) \in Nat
        /\ \A i \in 1 .. Len(log) : log'[i] = log[i] /\ i \in 1 .. Len(log')
    BY <1>0, <1>2 DEF TypeOK
  <1>5. page.of # 0 => page.of \in 1 .. Len(log)
    BY <1>0, <1>4 DEF OrderInv, ShownInv
  <1>6. (Answered' <=> Answered) /\ (LaterRows' <=> LaterRows)
    BY <1>3 DEF Answered, LaterRows
  <1>7. page'.of <= Len(log')
    BY <1>0, <1>3, <1>4 DEF OrderInv, ShownInv
  <1>8. ShownInv'
    BY <1>3, <1>4, <1>5, <1>6, <1>7 DEF OrderInv, ShownInv
  <1>9. Forward
    BY <1>0, <1>3 DEF Forward
  <1> QED
    BY <1>1, <1>8, <1>9

LEMMA SubmitOrder ==
    ASSUME OrderInv, Submit
    PROVE  LogInv' /\ ShownInv' /\ Forward
  <1>1. /\ log' = <<[n |-> 1, status |-> "pending", step |-> NoStep,
                     seq |-> NoSeq]>>
        /\ phase' = "open" /\ get' = Asked /\ event' = 0
        /\ phase = "idle"
    BY DEF Submit, StartStreaming, Following
  <1>2. page'.of = 0
    <2>1. [Fresh EXCEPT !.status = "pending"] \in Pages
      BY FreshType, StatusNames DEF Pages
    <2>2. [Fresh EXCEPT !.status = "pending"].of = 0
      BY DEF Fresh
    <2> QED
      BY <2>1, <2>2 DEF Submit, StartStreaming, Pages
  <1>3. /\ Len(log') = 1 /\ log'[1].n = 1 /\ log'[1].step = NoStep
        /\ log'[1].seq = 0
    BY <1>1 DEF NoSeq
  <1>4. LogInv'
    <2>1. RowsInOrder'
      BY <1>3 DEF RowsInOrder
    <2>2. SeqGrows'
      BY <1>3 DEF SeqGrows
    <2> QED
      BY <2>1, <2>2 DEF LogInv
  <1>5. ShownInv'
    BY <1>1, <1>2, <1>3, NoneIsNoAnswer DEF ShownInv, LaterRows, Stream
  <1> QED
    BY <1>1, <1>4, <1>5 DEF Forward, Stream

LEMMA TeacherOrder ==
    ASSUME OrderInv, Retry \/ RetryFails \/ Reload
    PROVE  LogInv' /\ ShownInv' /\ Forward
  <1>0. page \in Pages /\ Len(log) \in Nat
    BY TypeParts DEF OrderInv, FeedInv, BrowserOK, ServerOK
  <1>1. CASE Retry
    <2>1. /\ page'.of = page.of /\ UNCHANGED <<log, feed>>
          /\ phase' = "bootstrap" /\ get' = Asked /\ event' = 0
      BY <1>0, <1>1 DEF Retry, Bootstrap, Pages
    <2> QED
      BY <2>1, PageStays, NoneIsNoAnswer DEF Stream
  <1>2. CASE RetryFails
    <2>1. page'.of = page.of /\ UNCHANGED <<log, feed, phase, get, event>>
      BY <1>0, <1>2 DEF RetryFails, Pages, channel
    <2>2. event' # 0 => event # 0 /\ event' \in {event, event + 1}
      BY <2>1
    <2> QED
      BY <2>1, <2>2, PageStays
  <1>3. CASE Reload
    <2>1. /\ page'.of = 0 /\ UNCHANGED log /\ ~Answered'
          /\ phase' \in {"idle", "bootstrap"} /\ event' = 0
      <3>1. Fresh \in Pages /\ Fresh.of = 0
        BY FreshType DEF Fresh
      <3> QED
        BY <1>3, <3>1, NoneIsNoAnswer
           DEF Reload, Bootstrap, Stop, server, Pages
    <2>2. LaterRows' /\ phase' \notin Stream
      BY <2>1 DEF LaterRows, Stream
    <2> QED
      BY <1>0, <2>1, <2>2, StreamKeeps DEF Forward
  <1> QED
    BY <1>1, <1>2, <1>3

LEMMA AnswersOrder ==
    ASSUME OrderInv,
           \/ Bootstrapped \/ Opened \/ Reconciled \/ Event \/ Polled
           \/ Degraded
    PROVE  LogInv' /\ ShownInv' /\ Forward
  <1>0. /\ page \in Pages /\ feed \in Feeds /\ event \in Nat
        /\ Len(log) \in Nat /\ log \in Seq(Rows)
    BY TypeParts DEF OrderInv, FeedInv, BrowserOK, ServerOK
  <1>1. UNCHANGED log
    BY DEF Bootstrapped, Opened, Reconciled, Event, Polled, Degraded,
           Quietly, server
  <1>2. ASSUME Answered
        PROVE  get.n \in 1 .. Len(log) /\ get = log[get.n] /\ get \in Rows
    BY <1>0, <1>2 DEF OrderInv, ShownInv
  <1>3. ASSUME NEW r \in 1 .. Len(log), EndOf(log[r], Shows(log[r])),
               phase \in Stream \cup {"open"},
               (Answered /\ r = get.n) \/ (event # 0 /\ r = event)
        PROVE  LogInv' /\ ShownInv' /\ Forward
    <2>1. Shows(log[r]) \in Pages
      BY <1>0, <1>3, ShowsType
    <2>2. CASE log[r].status = "completed"
      <3>1. /\ page' = Shows(log[r]) /\ phase' = "result" /\ get' = Asked
            /\ event' = 0 /\ feed' = Emits(log[r])
        BY <1>3, <2>2 DEF EndOf
      <3> QED
        BY <1>1, <1>3, <2>2, <3>1, EmissionKeeps, NoneIsNoAnswer DEF Stream
    <2>3. CASE log[r].status \in {"failed", "failed_resumable"}
      <3>1. EndWith(Shows(log[r]), log[r].status,
                    log[r].status = "failed_resumable")
        BY <1>3, <2>3 DEF EndOf
      <3>2. page'.of = Shows(log[r]).of /\ phase' = "idle" /\ get' = None
        BY <2>1, <3>1 DEF EndWith, Stop, Pages
      <3> QED
        BY <1>1, <1>3, <3>2, EmissionKeeps, NoneIsNoAnswer
    <2> QED
      BY <1>3, <2>2, <2>3 DEF EndOf
  <1>4. CASE Bootstrapped
    <2>1. Answered /\ phase = "bootstrap"
      BY <1>4 DEF Bootstrapped
    <2>2. CASE get.status = "completed"
      <3>1. /\ page'.of = page.of /\ phase' = "end" /\ get' = Asked
            /\ UNCHANGED <<feed, event>>
        BY <1>0, <1>4, <2>2 DEF Bootstrapped, Terminal, Locked, Pages, channel
      <3>2. event' # 0 => event # 0 /\ event' \in {event, event + 1}
        BY <3>1
      <3> QED
        BY <1>1, <3>1, <3>2, PageStays, NoneIsNoAnswer DEF Stream
    <2>3. CASE get.status \in {"failed", "failed_resumable"}
      <3>1. EndWith(page, get.status, get.status = "failed_resumable")
        BY <1>4, <2>3 DEF Bootstrapped, Terminal
      <3>2. /\ page'.of = page.of /\ phase' = "idle" /\ get' = None
            /\ event' = 0 /\ feed' = feed
        BY <1>0, <3>1 DEF EndWith, Stop, Pages
      <3> QED
        BY <1>1, <3>2, PageStays, NoneIsNoAnswer DEF Stream
    <2>4. CASE get.status \notin Terminal
      <3>1. /\ phase' = "open" /\ get' = Asked /\ event' = 0
            /\ page'.of = IF get.step # NoStep THEN get.n ELSE page.of
        BY <1>0, <1>4, <2>4
           DEF Bootstrapped, Terminal, StartStreaming, Pages
      <3>2. ~Answered' /\ LaterRows' /\ phase' \notin Stream
        BY <3>1, NoneIsNoAnswer DEF LaterRows, Stream
      <3>3. /\ page'.of <= Len(log)
            /\ page'.of # 0 => log[page'.of].step # NoStep
        BY <1>0, <1>2, <2>1, <3>1 DEF OrderInv, ShownInv
      <3> QED
        BY <1>1, <3>2, <3>3, StreamKeeps DEF Forward
    <2> QED
      BY <1>4, <2>2, <2>3, <2>4 DEF Bootstrapped
  <1>5. CASE Opened \/ Reconciled \/ Polled
    <2>1. Answered /\ phase \in Stream \cup {"open"}
      BY <1>5 DEF Opened, Reconciled, Polled, Stream
    <2>2. CASE EndOf(get, Shows(get))
      BY <1>2, <1>3, <2>1, <2>2
    <2>3. CASE ~EndOf(get, Shows(get))
      <3>1. /\ page'.of = Shows(get).of /\ feed' = Emits(get) /\ get' = None
            /\ phase' \in Stream /\ event' = event
            /\ get.status \notin {"failed", "failed_resumable"}
        BY <1>5, <2>3
           DEF Opened, Reconciled, Polled, channel, Stream, Terminal
      <3>2. event' # 0 => event # 0 /\ event' \in {event, event + 1}
        BY <3>1
      <3> QED
        BY <1>1, <1>2, <2>1, <3>1, <3>2, EmissionKeeps, NoneIsNoAnswer
    <2> QED
      BY <2>2, <2>3
  <1>6. CASE Event
    <2>1. event \in 1 .. Len(log) /\ event # 0 /\ phase \in Stream
      BY <1>0, <1>6 DEF Event, OrderInv, FeedInv, Listening, Stream
    <2>2. CASE EndOf(log[event], Shows(log[event]))
      BY <1>3, <2>1, <2>2
    <2>3. CASE ~EndOf(log[event], Shows(log[event]))
      <3>1. /\ page'.of = Shows(log[event]).of /\ feed' = Emits(log[event])
            /\ get' = get /\ phase' = phase /\ event' = event + 1
            /\ log[event].status \notin {"failed", "failed_resumable"}
        BY <1>6, <2>3 DEF Event, Terminal
      <3> QED
        BY <1>1, <2>1, <3>1, EmissionKeeps
    <2> QED
      BY <2>2, <2>3
  <1>7. CASE Degraded
    <2>1. Answered /\ phase \in Stream
      BY <1>7 DEF Degraded, Stream
    <2>2. CASE EndOf(get, Shows(get))
      BY <1>2, <1>3, <2>1, <2>2
    <2>3. Shows(get) \in Pages
      BY <1>0, <1>2, <2>1, ShowsType
    <2>4. CASE Bootstrap(Shows(get))
      <3>1. /\ page'.of = Shows(get).of /\ phase' = "bootstrap"
            /\ get' = Asked /\ event' = 0
        BY <2>3, <2>4 DEF Bootstrap, Pages
      <3> QED
        BY <1>1, <1>2, <2>1, <3>1, EmissionKeeps, NoneIsNoAnswer
    <2>5. CASE EndWith(Shows(get), "failed", FALSE)
      <3>1. page'.of = Shows(get).of /\ phase' = "idle" /\ get' = None
        BY <2>3, <2>5 DEF EndWith, Stop, Pages
      <3> QED
        BY <1>1, <1>2, <2>1, <3>1, EmissionKeeps, NoneIsNoAnswer
    <2> QED
      BY <1>7, <2>2, <2>4, <2>5 DEF Degraded
  <1> QED
    BY <1>4, <1>5, <1>6, <1>7

LEMMA QuietOrder ==
    ASSUME OrderInv,
           \/ Serve \/ Join \/ Silence \/ LoseEvent \/ ChannelFails \/ Poll
           \/ Finished \/ GetFails \/ ServePreview \/ PreviewArrives
           \/ UNCHANGED vars
    PROVE  LogInv' /\ ShownInv' /\ Forward
  <1>0. page \in Pages /\ event \in Nat
    BY TypeParts DEF OrderInv, FeedInv, BrowserOK
  <1>1. page'.of = page.of
    BY <1>0 DEF Serve, Join, Silence, LoseEvent, ChannelFails, Poll, Finished,
                GetFails, EndWith, Locked, ServePreview, PreviewArrives, vars,
                Pages
  <1>2. UNCHANGED <<log, feed>>
    BY DEF Serve, Join, Silence, LoseEvent, ChannelFails, Poll, Finished,
           GetFails, EndWith, ServePreview, PreviewArrives, vars, server,
           Quietly
  <1>3. event' # 0 => \/ event # 0 /\ event' \in {event, event + 1}
                      \/ event' = Len(log) + 1
    BY <1>0
       DEF Serve, Join, Silence, LoseEvent, ChannelFails, Poll, Finished,
           GetFails, EndWith, Stop, ServePreview, PreviewArrives, vars,
           channel, OrderInv, FeedInv, Listening
  <1>4. /\ phase' \in Stream => phase \in Stream
        /\ phase' \in {"bootstrap", "open"} => phase' = phase
    BY DEF Serve, Join, Silence, LoseEvent, ChannelFails, Poll, Finished,
           GetFails, EndWith, Stop, ServePreview, PreviewArrives, vars, Stream
  <1>5. get' \in {None, Asked, get} \/ Serve
    BY DEF Join, Silence, LoseEvent, ChannelFails, Poll, Finished, GetFails,
           EndWith, Stop, ServePreview, PreviewArrives, vars
  <1>6. Serve => get' = Job /\ Created
    BY DEF Serve, OrderInv, FeedInv, Unborn, Asked, None
  <1> QED
    BY <1>1, <1>2, <1>3, <1>4, <1>5, <1>6, NoneIsNoAnswer, PageStays

LEMMA NextOrder ==
    ASSUME OrderInv, [Next]_vars
    PROVE  OrderInv' /\ Forward
  <1>1. FeedInv'
    BY NextTypeOK, NextEnds DEF OrderInv, FeedInv, Typed
  <1>2. LogInv' /\ ShownInv' /\ Forward
    BY JobActionsOrder, SubmitOrder, TeacherOrder, AnswersOrder, QuietOrder
       DEF Next, Continue
  <1> QED
    BY <1>1, <1>2 DEF OrderInv

\* While a page follows one stream, however snapshots and events overtake each
\* other, the step it shows is replaced by one of an older row only when a
\* claim between the two has set progress_seq back (api.ts,
\* emitMonotonicProgress; authoring.py, run_job).
THEOREM ForwardButOverAClaim == Spec => ProgressGoesForward
  <1>1. OrderInv /\ [Next]_vars => OrderInv'
    BY NextOrder
  <1>2. OrderInv /\ [Next]_vars =>
          [(phase \in Stream /\ phase' \in Stream /\ page'.of < page.of) =>
             \E i \in page'.of + 1 .. page.of : log[i].seq < log[i - 1].seq]_vars
    BY NextOrder DEF Forward, SetBack
  <1> QED
    BY <1>1, <1>2, InitOrderInv, PTL DEF Spec, ProgressGoesForward

-----------------------------------------------------------------------------
(* A page that follows is never deaf *)

LEMMA AskedIsARequest == Asked # None
  BY DEF Asked, None

LEMMA EndOfListens ==
    ASSUME NEW row, NEW pg, EndOf(row, pg) PROVE NeverDeaf'
  BY AskedIsARequest, Zenon DEF EndOf, EndWith, Stop, NeverDeaf, Following

LEMMA NextListens ==
    ASSUME FeedInv, NeverDeaf, Next PROVE NeverDeaf'
  <1> USE AskedIsARequest DEF NeverDeaf, Following
  <1>1. CASE Claim \/ Advance \/ Complete \/ Fail
    BY <1>1 DEF Claim, Advance, Complete, Fail, Written, channel
  <1>2. CASE Submit \/ Retry \/ RetryFails \/ Reload
    BY <1>2 DEF Submit, Retry, RetryFails, Reload, StartStreaming, Bootstrap,
                Stop, channel
  <1>3. CASE Serve
    <2>1. Created
      BY <1>3 DEF Serve, FeedInv, Unborn
    <2>2. Job.status # None.status
      BY <2>1, JobParts DEF FeedInv, Statuses, Terminal, None
    <2> QED
      BY <1>3, <2>2 DEF Serve, channel
  <1>4. CASE Bootstrapped
    BY <1>4 DEF Bootstrapped, EndWith, StartStreaming, Stop, channel
  <1>5. CASE Opened \/ Polled
    BY <1>5, EndOfListens DEF Opened, Polled, channel
  <1>6. CASE Reconciled \/ Event
    BY <1>6, EndOfListens DEF Reconciled, Event, channel
  <1>7. CASE Degraded
    BY <1>7, EndOfListens DEF Degraded, Bootstrap, EndWith, Stop
  <1>8. CASE Finished \/ GetFails
    BY <1>8 DEF Finished, GetFails, EndWith, Stop
  <1>9. CASE Join \/ Silence \/ Poll \/ LoseEvent \/ ChannelFails
    BY <1>9 DEF Join, Silence, Poll, LoseEvent, ChannelFails, channel
  <1>10. CASE ServePreview \/ PreviewArrives
    BY <1>10 DEF ServePreview, PreviewArrives, channel
  <1> QED
    BY <1>1, <1>2, <1>3, <1>4, <1>5, <1>6, <1>7, <1>8, <1>9, <1>10
       DEF Next, Continue

\* Whatever events, answers and channels are lost, a page that follows a job
\* has asked, is about to, or has a timer that will make it ask (NeverDeaf).
THEOREM AlwaysAsks == Spec => []NeverDeaf
  <1>1. Init => NeverDeaf
    BY DEF Init, NeverDeaf, Following
  <1>2. FeedInv /\ NeverDeaf /\ [Next]_vars => NeverDeaf'
    BY NextListens DEF vars, channel, NeverDeaf, Following
  <1> QED
    BY <1>1, <1>2, FeedInvHolds, PTL DEF Spec
=============================================================================
