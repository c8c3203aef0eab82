---------------------------- MODULE StudentRuntime ----------------------------
(***************************************************************************)
(* The page on which a student works on a case                             *)
(* (student-runtime/useStudentCaseResolution.ts), against a server that    *)
(* keeps the promise of VersionedDraft: what is typed is backed up in the  *)
(* browser and saved a moment later, the saves are tried again, the query  *)
(* cache is filled by GETs and patched by replies, and the page is filled  *)
(* from the cache or, when it is as new, from the backup.                  *)
(*                                                                         *)
(*   server   the response to the case, closed: its deadline is over       *)
(*   typed    the texts typed so far: text n is what stood there when the  *)
(*            student typed for the n-th time                              *)
(*   backup   the draft in localStorage                                    *)
(*   cache    the case detail in the query cache                           *)
(*   page     the page is mounted                                          *)
(*   screen   the state of its hook                                        *)
(*   get      the one fetch of the detail that is under way                *)
(*   put      the autosave that is under way, post: the submit             *)
(*   orphans  the requests of pages that are gone                          *)
(*                                                                         *)
(* JavaScript runs a handler to its end and React renders what it has set, *)
(* with the effects of the render: one action. A render arms the autosave  *)
(* timer anew while there is something to save, so a page with unsaved     *)
(* text may save at any moment at which no save is under way.              *)
(*                                                                         *)
(* StudentResponse is the same response as the server keeps it: what both  *)
(* modules have is named apart here, so that one module can extend both.   *)
(***************************************************************************)
EXTENDS Naturals

CONSTANTS
    MaxTyped,      \* bound: how often the student types
    MaxVisits,     \* bound: how often the page is opened
    MaxIncidents,  \* bound: how often something happens from outside
    MaxEvents,     \* bound: how often all of these happen, taken together
    LastVersion,   \* bound: from this version on nothing is flushed
    MaxRetries     \* AUTOSAVE_RETRY_DELAYS_MS.length

ASSUME PageBounds ==
    /\ MaxTyped \in Nat /\ MaxVisits \in Nat /\ MaxIncidents \in Nat
    /\ MaxEvents \in Nat /\ LastVersion \in Nat /\ MaxRetries \in Nat

VARIABLES server, closed, incidents, typed, visits, backup, cache, page, screen,
          get, put, post, orphans

remote == <<server, closed, incidents>>
student == <<typed, visits>>
browser == <<student, backup, cache, page, screen, get>>
network == <<put, post, orphans>>
pageVars == <<remote, browser, network>>

NoText == 0
Other == MaxTyped + 1  \* what another device writes
PageTexts == 0 .. MaxTyped + 1

None == [version |-> 0, text |-> NoText, status |-> "none"]
Asked == [version |-> 0, text |-> NoText, status |-> "asked"]
NoCall == [op |-> "none", text |-> NoText, version |-> 0, tries |-> 0,
              at |-> "none"]

\* useState, as a page begins with it.
Fresh == [text |-> NoText, version |-> 0, dirty |-> FALSE, hydrated |-> FALSE,
          override |-> FALSE, modal |-> FALSE, reloading |-> FALSE,
          banner |-> FALSE]

ReadOnly == screen.override \/ cache.status # "draft"
Editable == page /\ cache # None /\ ~ReadOnly

\* Bounds: what comes from the student and from outside the page.
MoreEvents == typed + visits + incidents < MaxEvents
Incident ==
    /\ MoreEvents /\ incidents < MaxIncidents
    /\ incidents' = incidents + 1

-----------------------------------------------------------------------------
(* The page is filled *)

\* shouldReplayLocalDraft. (While the clocks agree, a backup of this version
\* was written after the server had it.)
Replays(detail, b) ==
    /\ detail.status = "draft" /\ b # None
    /\ b.version >= detail.version
    /\ b.text # detail.text

ShouldHydrate(detail, s) ==
    ~s.hydrated \/ ~s.dirty \/ detail.version # s.version
    \/ detail.status # "draft"

Hydrated(detail, s, b) ==
    IF ~ShouldHydrate(detail, s) THEN s
    ELSE [s EXCEPT !.text = IF Replays(detail, b) THEN b.text ELSE detail.text,
                   !.version = detail.version, !.dirty = Replays(detail, b),
                   !.override = FALSE, !.hydrated = TRUE]

\* The cache gets detail, while the page sets its state to s and the backup to
\* b. A detail that is equal to the cached one triggers no effect.
Cache(detail, s, b) ==
    LET effect == page' /\ detail # None /\ (detail # cache \/ ~s.hydrated)
    IN  /\ cache' = detail
        /\ screen' = IF effect THEN Hydrated(detail, s, b) ELSE s
        /\ backup' = IF effect /\ detail.status # "draft" THEN None ELSE b

Patched(r, status) ==
    [version |-> r.version + 1, text |-> r.text, status |-> status]

\* refetch, invalidateQueries: a fetch under way is cancelled, and with it the
\* reload that waits for it.
Settled(s) == [s EXCEPT !.modal = @ /\ ~s.reloading,
                        !.banner = @ /\ ~s.reloading, !.reloading = FALSE]

-----------------------------------------------------------------------------
(* The student *)

Open ==
    /\ ~page /\ page' = TRUE
    /\ MoreEvents /\ visits < MaxVisits /\ visits' = visits + 1
    /\ Cache(cache, Fresh, backup)
    /\ IF cache = None /\ get = None THEN get' = Asked
       ELSE get' \in {get} \cup (IF get = None THEN {Asked} ELSE {})
    /\ UNCHANGED <<remote, network, typed>>

\* setLocalAnswers
Type ==
    /\ Editable /\ MoreEvents /\ typed < MaxTyped
    /\ typed' = typed + 1
    /\ screen' = [screen EXCEPT !.text = typed', !.dirty = TRUE, !.banner = FALSE]
    /\ backup' = [version |-> screen.version, text |-> typed', status |-> "draft"]
    /\ UNCHANGED <<remote, network, visits, cache, page, get>>

Call(op) == [op |-> op, text |-> screen.text, version |-> screen.version,
                tries |-> 0, at |-> "sent"]

\* flushDraft
Flush ==
    /\ Editable /\ screen.dirty /\ put = NoCall
    /\ server.version < LastVersion
    /\ put' = Call("save")
    /\ UNCHANGED <<remote, browser, post, orphans>>

\* submitCase: the autosave goes on.
Submit ==
    /\ Editable /\ screen.text # NoText /\ post = NoCall
    /\ post' = Call("submit")
    /\ UNCHANGED <<remote, browser, put, orphans>>

\* reloadAfterConflict
Reload ==
    /\ page /\ screen.modal /\ ~screen.reloading
    /\ backup' = None
    /\ get' = Asked
    /\ screen' = [screen EXCEPT !.reloading = TRUE]
    /\ UNCHANGED <<remote, network, student, cache, page>>

\* Bound: the student does not leave again before the network is quiet.
Leave ==
    /\ page /\ page' = FALSE /\ orphans = {}
    /\ orphans' = ({put, post} \ {NoCall})
                  \cup IF Editable /\ screen.dirty /\ put = NoCall
                       THEN {Call("flush")} ELSE {}
    /\ screen' = Fresh /\ put' = NoCall /\ post' = NoCall
    /\ UNCHANGED <<remote, student, backup, cache, get>>

\* What was sent may still come to the server.
CloseBrowser ==
    /\ Incident /\ orphans = {}
    /\ page' = FALSE /\ screen' = Fresh /\ cache' = None /\ get' = None
    /\ orphans' = {[r EXCEPT !.op = IF @ = "submit" THEN "last submit"
                                    ELSE "last save"] :
                     r \in {put, post} \ {NoCall}}
    /\ put' = NoCall /\ post' = NoCall
    /\ UNCHANGED <<server, closed, student, backup>>

\* gcTime
Collect ==
    /\ ~page /\ cache # None /\ cache' = None
    /\ UNCHANGED <<remote, network, student, backup, page, screen, get>>

-----------------------------------------------------------------------------
(* The server *)

Submits(r) == r.op \in {"submit", "last submit"}

\* save_student_case_draft, submit_student_case: the deadline first.
Answer(r) ==
    CASE closed -> "closed"
      [] ~closed /\ server.status = "submitted" -> "already"
      [] ~closed /\ server.status = "draft" /\ r.version # server.version ->
           "conflict"
      [] OTHER -> "ok"

ServeCall(r) ==
    /\ r.at = "sent"
    /\ server' = IF Answer(r) # "ok" THEN server
                 ELSE Patched(r, IF Submits(r) THEN "submitted" ELSE "draft")
    /\ UNCHANGED <<closed, incidents, browser>>
Answered(r) == [r EXCEPT !.at = Answer(r)]

ServePut == ServeCall(put) /\ put' = Answered(put) /\ UNCHANGED <<post, orphans>>
ServePost == ServeCall(post) /\ post' = Answered(post) /\ UNCHANGED <<put, orphans>>
ServeOrphan(o) ==
    /\ ServeCall(o)
    /\ orphans' = (orphans \ {o}) \cup {Answered(o)}
    /\ UNCHANGED <<put, post>>

\* get_student_case_detail
ServeGet ==
    /\ get = Asked
    /\ get' = [server EXCEPT !.status =
                 IF @ = "draft" /\ closed THEN "closed" ELSE @]
    /\ UNCHANGED <<remote, network, student, backup, cache, page, screen>>

OtherDevice ==
    /\ server.status = "draft" /\ ~closed /\ Incident
    /\ \E status \in {"draft", "submitted"} :
         server' = [version |-> server.version + 1, text |-> Other,
                    status |-> status]
    /\ UNCHANGED <<closed, browser, network>>

Deadline ==
    /\ ~closed /\ Incident /\ closed' = TRUE
    /\ UNCHANGED <<server, browser, network>>

-----------------------------------------------------------------------------
(* The replies *)

\* refetchOnReconnect
Refetch ==
    /\ page /\ cache # None /\ get = None
    /\ get' = Asked
    /\ UNCHANGED <<remote, network, student, backup, cache, page, screen>>

Fetched ==
    /\ get \notin {None, Asked} /\ get' = None
    /\ UNCHANGED page
    /\ Cache(get, Settled(screen), backup)
    /\ UNCHANGED <<remote, network, student>>

FetchFails ==
    /\ get # None /\ Incident /\ get' = None
    /\ screen' = Settled(screen)
    /\ UNCHANGED <<server, closed, network, student, backup, cache, page>>

\* Mutant: what was typed during the save counts as saved.
SaveSucceedsForAll ==
    /\ put.at = "ok" /\ put' = NoCall
    /\ UNCHANGED page
    /\ Cache(Patched(put, cache.status),
             [screen EXCEPT !.version = put.version + 1, !.dirty = FALSE,
                            !.banner = FALSE],
             [version |-> put.version + 1, text |-> put.text, status |-> "draft"])
    /\ UNCHANGED <<remote, student, get, post, orphans>>

\* onSuccess patches the cache, then flushDraft goes on.
SaveSucceeds ==
    /\ put.at = "ok" /\ put' = NoCall
    /\ UNCHANGED page
    /\ LET changed == screen.text # put.text
       IN  Cache(Patched(put, cache.status),
                 [screen EXCEPT !.version = put.version + 1, !.dirty = changed,
                                !.banner = @ /\ changed],
                 [version |-> put.version + 1, text |-> put.text,
                  status |-> "draft"])
    /\ UNCHANGED <<remote, student, get, post, orphans>>

\* handleMutationError, of a save or a submit.
HandleError(at) ==
    CASE at = "conflict" ->
           /\ screen' = [screen EXCEPT !.modal = TRUE]
           /\ UNCHANGED <<backup, get>>
      [] at \in {"already", "closed"} ->
           /\ screen' = [Settled(screen) EXCEPT !.override = TRUE]
           /\ backup' = IF at = "already" THEN None ELSE backup
           /\ get' = Asked
      [] at = "lost" ->
           /\ screen' = [screen EXCEPT !.banner = TRUE]
           /\ UNCHANGED <<backup, get>>

Refusals == {"conflict", "already", "closed", "lost"}

\* Mutant: a save that comes after the deadline is left to the next one.
SaveFailsQuietly ==
    /\ put.at \in Refusals /\ (put.at = "lost" => put.tries = MaxRetries)
    /\ IF put.at = "closed" THEN UNCHANGED <<screen, backup, get>>
                            ELSE HandleError(put.at)
    /\ put' = NoCall
    /\ UNCHANGED <<remote, student, cache, page, post, orphans>>

SaveFails ==
    /\ put.at \in Refusals /\ (put.at = "lost" => put.tries = MaxRetries)
    /\ HandleError(put.at)
    /\ put' = NoCall
    /\ UNCHANGED <<remote, student, cache, page, post, orphans>>

\* Mutant: one more try than there are delays.
RetryOneMore ==
    /\ put.at = "lost" /\ put.tries <= MaxRetries
    /\ \E at \in {"sent", "lost"} :
         put' = [put EXCEPT !.at = at, !.tries = @ + 1]
    /\ screen' = [screen EXCEPT !.banner = TRUE]
    /\ UNCHANGED <<remote, student, backup, cache, page, get, post, orphans>>

\* saveDraftWithRetry
Again(r, at) == [r EXCEPT !.at = at, !.tries = @ + 1]
Retry ==
    /\ put.at = "lost" /\ put.tries < MaxRetries
    /\ \E at \in {"sent", "lost"} : put' = Again(put, at)
    /\ screen' = [screen EXCEPT !.banner = TRUE]
    /\ UNCHANGED <<remote, student, backup, cache, page, get, post, orphans>>

SubmitSucceeds ==
    /\ post.at = "ok" /\ post' = NoCall
    /\ UNCHANGED page
    /\ Cache(Patched(post, "submitted"),
             [Settled(screen) EXCEPT !.version = post.version + 1, !.dirty = FALSE,
                                     !.override = FALSE, !.banner = FALSE],
             None)
    /\ get' = Asked
    /\ UNCHANGED <<remote, student, put, orphans>>

SubmitFails ==
    /\ post.at \in Refusals
    /\ HandleError(post.at)
    /\ post' = NoCall
    /\ UNCHANGED <<remote, student, cache, page, put, orphans>>

\* The promises of a page that is gone still run: the callbacks of a mutation
\* patch the cache, a flush writes the backup, and so may a page that has been
\* opened since be filled anew.
OrphanReturns(o) ==
    /\ o.at \notin {"sent", "none"}
    /\ UNCHANGED <<remote, student, page, put, post>>
    /\ \/ /\ o.op = "save" /\ o.at = "lost" /\ o.tries < MaxRetries
          /\ \E at \in {"sent", "lost"} :
               orphans' = (orphans \ {o}) \cup {Again(o, at)}
          /\ UNCHANGED <<backup, cache, screen, get>>
       \/ /\ ~(o.op = "save" /\ o.at = "lost" /\ o.tries < MaxRetries)
          /\ orphans' = orphans \ {o}
          /\ \/ /\ o.op = "save" /\ o.at = "ok" /\ cache # None
                /\ Cache(Patched(o, cache.status), screen, backup)
                /\ UNCHANGED get
             \/ /\ o.op = "flush" /\ o.at = "ok"
                /\ backup' = [version |-> o.version + 1, text |-> o.text,
                              status |-> "draft"]
                /\ UNCHANGED <<cache, screen, get>>
             \/ /\ o.op = "submit" /\ o.at = "ok"
                /\ Cache(IF cache = None THEN None ELSE Patched(o, "submitted"),
                         IF page THEN Settled(screen) ELSE screen, None)
                /\ get' = IF page THEN Asked ELSE get
             \/ /\ o.op = "submit" /\ o.at \in {"already", "closed"}
                /\ backup' = IF o.at = "already" THEN None ELSE backup
                /\ get' = Asked /\ screen' = Settled(screen)
                /\ UNCHANGED cache
             \/ /\ \/ o.op \in {"last save", "last submit"}
                   \/ o.op = "save" /\ ~(o.at = "ok" /\ cache # None)
                   \/ o.op = "flush" /\ o.at # "ok"
                   \/ o.op = "submit" /\ o.at \in {"conflict", "lost"}
                /\ UNCHANGED <<backup, cache, screen, get>>

\* A request or its reply is lost, or the server fails; the retries too may
\* meet the outage.
Lost(r) == r.at \notin {"none", "lost"}
Lose ==
    /\ Incident
    /\ UNCHANGED <<server, closed, browser>>
    /\ \/ Lost(put) /\ put' = [put EXCEPT !.at = "lost"] /\ UNCHANGED <<post, orphans>>
       \/ Lost(post) /\ post' = [post EXCEPT !.at = "lost"] /\ UNCHANGED <<put, orphans>>
       \/ \E o \in orphans :
            /\ Lost(o) /\ orphans' = (orphans \ {o}) \cup {[o EXCEPT !.at = "lost"]}
            /\ UNCHANGED <<put, post>>

-----------------------------------------------------------------------------
(* Specification *)

PageInit ==
    /\ server = [version |-> 0, text |-> NoText, status |-> "draft"]
    /\ closed = FALSE /\ incidents = 0 /\ typed = 0 /\ visits = 0
    /\ backup = None /\ cache = None /\ get = None
    /\ page = FALSE /\ screen = Fresh
    /\ put = NoCall /\ post = NoCall /\ orphans = {}

\* What goes on by itself.
Proceed ==
    \/ Flush \/ ServePut \/ ServePost \/ ServeGet \/ Fetched
    \/ SaveSucceeds \/ SaveFails \/ Retry \/ SubmitSucceeds \/ SubmitFails
    \/ \E o \in orphans : ServeOrphan(o) \/ OrphanReturns(o)

PageNext ==
    \/ Open \/ Type \/ Submit \/ Reload \/ Leave \/ CloseBrowser \/ Collect
    \/ OtherDevice \/ Deadline \/ Refetch \/ FetchFails \/ Lose
    \/ Proceed

PageSpec == PageInit /\ [][PageNext]_pageVars

\* Timers fire and requests are answered or time out.
FairPageSpec ==
    /\ PageSpec
    /\ WF_pageVars(Flush) /\ WF_pageVars(ServePut)
    /\ WF_pageVars(SaveSucceeds) /\ WF_pageVars(SaveFails) /\ WF_pageVars(Retry)

-----------------------------------------------------------------------------
(* Properties *)

Details == [version : Nat, text : PageTexts, status : {"draft", "submitted", "closed"}]
Backups == {b \in Details \cup {None} : b.status \in {"draft", "none"}}
Calls == [op : {"save", "submit", "flush", "last save", "last submit"},
             text : PageTexts, version : Nat, tries : 0 .. MaxRetries,
             at : {"sent", "ok"} \cup Refusals]
Screens == [text : PageTexts, version : Nat, dirty : BOOLEAN, hydrated : BOOLEAN,
            override : BOOLEAN, modal : BOOLEAN, reloading : BOOLEAN,
            banner : BOOLEAN]

PageTypeOK ==
    /\ server \in Details /\ server.status # "closed"
    /\ closed \in BOOLEAN /\ incidents \in 0 .. MaxIncidents
    /\ typed \in 0 .. MaxTyped /\ visits \in 0 .. MaxVisits
    /\ cache \in Details \cup {None}
    /\ backup \in Backups
    /\ get \in Details \cup {None, Asked}
    /\ page \in BOOLEAN /\ screen \in Screens
    /\ put \in Calls \cup {NoCall} /\ post \in Calls \cup {NoCall}
    /\ orphans \subseteq Calls

\* A page that says its text is saved is right, unless the response has gone on
\* without it (issue-196-rewrite.md:526).
SavedMeansSaved ==
    page /\ screen.hydrated /\ ~screen.dirty /\ screen.version = server.version
    => screen.text = server.text

\* What says of itself that it is version v of the response is that version.
Current(d) ==
    /\ d.version <= server.version
    /\ d.version = server.version => d.text = server.text

\* Why SavedMeansSaved: whatever carries a version got it from the server, a
\* GET or the reply to a write, together with the text of that version, and
\* the server counts versions up; a page has what the cache has once there is
\* nothing more to edit.
CurrentCall(r) ==
    /\ r.version <= server.version
    /\ r.at = "ok" => Current(Patched(r, "draft"))
VersionsAreCurrent ==
    /\ cache # None => Current(cache)
    /\ get \notin {None, Asked} => Current(get)
    /\ \A r \in {put, post} \cup orphans : CurrentCall(r)
    /\ screen.version <= server.version
PageFollowsCache ==
    /\ IF page THEN screen.hydrated <=> cache # None ELSE screen = Fresh
    /\ screen.dirty => screen.hydrated
    /\ page /\ cache # None /\ cache.status # "draft" => screen.text = cache.text
    /\ put # NoCall \/ post # NoCall => page /\ cache # None
PageInv ==
    PageTypeOK /\ VersionsAreCurrent /\ PageFollowsCache /\ SavedMeansSaved

\* The response as VersionedDraft speaks of it, once it is opened.
Response == [status |-> server.status, version |-> server.version,
             answers |-> server.text]
Submissions == IF server.status = "submitted" THEN <<server.text>> ELSE <<>>

Served == INSTANCE VersionedDraft
            WITH draft <- Response, submissions <- Submissions,
                 NoRow <- None, Blank <- NoText, Answers <- PageTexts

\* The page relies on its server for no more than StudentResponse promises.
ServerKeepsPromise == [][Served!Next]_<<Response, Submissions>>

\* Text that is not saved is saved in the end, or the student is told: after a
\* conflict, a reply that is lost, or a save under which more was typed. Only at
\* LastVersion, where the bound stops the autosave, nothing is claimed.
Told == screen.modal \/ screen.banner \/ ReadOnly
SavedOrTold ==
    page /\ screen.dirty
    ~> ~page \/ ~screen.dirty \/ Told \/ server.version >= LastVersion

\* Why SavedOrTold: such text can be sent at once, or its save stands where it
\* is answered, tried again or given up.
AutosaveGoesOn ==
    page /\ screen.dirty /\ ~Told
    => Editable /\ (put = NoCall \/ put.at \in {"sent", "ok"} \cup Refusals)

\* The page keeps what the student has typed.
Quiet == put = NoCall /\ post = NoCall /\ orphans = {} /\ get = None
OwnWorkIsShown ==
    page /\ screen.hydrated /\ Quiet /\ ~screen.modal /\ cache.status = "draft"
    /\ ~closed /\ incidents = 0
    => screen.text = typed
=============================================================================
