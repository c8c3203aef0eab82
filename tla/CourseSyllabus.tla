--------------------------- MODULE CourseSyllabus ---------------------------
(***************************************************************************)
(* The syllabus of a course: the row and its append-only revisions on the  *)
(* server (save_teacher_course_syllabus), and the tabs in which its        *)
(* teacher edits it (TeacherCoursePage over the query cache).              *)
(*                                                                         *)
(*   live     syllabuses: revision and modules, revision 0 before the      *)
(*            first save                                                   *)
(*   snaps    syllabus_revisions: snaps[r] holds the modules of revision r *)
(*   page     of a tab: data, the course detail in its cache; draft, what  *)
(*            its form shows; typed, what the teacher changed in the form  *)
(*            since it was last filled from a detail                       *)
(*   save     of a tab: its PUT, from the click to the reaction            *)
(*   get      of a tab: its GET of the course detail                       *)
(*   visits   how often the tabs asked for the detail on their own         *)
(*                                                                         *)
(* A syllabus is the set of its modules: the other fields are written and  *)
(* compared with them. A transaction that locks the course and the         *)
(* syllabus is one action.                                                 *)
(***************************************************************************)
EXTENDS Naturals, Sequences, FiniteSets

CONSTANTS
    Tabs,         \* the tabs of the course's teacher, on one device or more
    Modules,      \* the modules a syllabus may have
    MaxRevision,  \* saves are clicked below this revision
    MaxTyped,     \* changes a form holds at once
    MaxVisits,    \* details the tabs ask for on their own
    MaxTroubles,  \* requests the network or the database loses
    NoDetail      \* nothing in the cache, no request

VARIABLES live, snaps, page, save, get, visits, troubles

syllabusVars == <<live, snaps, page, save, get, visits, troubles>>

-----------------------------------------------------------------------------
Detail == [rev: Nat, modules: SUBSET Modules]

ASSUME DetailAssumption == NoDetail \notin Detail
ASSUME BoundsAssumption == MaxVisits \in Nat /\ MaxTroubles \in Nat

\* What revision r holds; revision 0 is a course without a syllabus.
Content(r) == IF r = 0 THEN {} ELSE snaps[r]

\* The modules of S with the changes of the form applied to them.
Changed(S, changes) == (S \ changes) \cup (changes \ S)

NoSave == [at |-> "none", expected |-> 0, modules |-> {}, typed |-> {},
           reply |-> NoDetail]

SyllabusInit ==
    /\ live = [rev |-> 0, modules |-> {}]
    /\ snaps = <<>>
    /\ page = [t \in Tabs |-> [data |-> NoDetail, draft |-> {}, typed |-> {}]]
    /\ save = [t \in Tabs |-> NoSave]
    /\ get = [t \in Tabs |-> NoDetail]
    /\ visits = 0
    /\ troubles = 0

Trouble == /\ troubles < MaxTroubles
           /\ troubles' = troubles + 1

-----------------------------------------------------------------------------
(* The page *)

\* The effect on courseDetailQuery.data fills the form from the new detail.
Shown(d) == [data |-> d, draft |-> d.modules, typed |-> {}]

\* The query asks when the page is opened, and again when the connection is
\* back or the page is opened once more. get_teacher_course_detail reads the
\* syllabus in one SELECT; its answer travels as long as it likes.
GetDetail(t) ==
    /\ get[t] = NoDetail
    /\ visits < MaxVisits
    /\ visits' = visits + 1
    /\ get' = [get EXCEPT ![t] = live]
    /\ UNCHANGED <<live, snaps, page, save, troubles>>

\* An equal detail keeps its identity and the form; the rest of the detail
\* (its counts, its access link) may have changed all the same. Nothing keeps
\* an old answer from replacing what a save has put in the cache meanwhile.
DetailArrives(t) ==
    /\ get[t] # NoDetail
    /\ \/ page' = [page EXCEPT ![t] = Shown(get[t])]
       \/ /\ page[t].data = get[t]
          /\ UNCHANGED page
    /\ get' = [get EXCEPT ![t] = NoDetail]
    /\ UNCHANGED <<live, snaps, save, visits, troubles>>

DetailLost(t) ==
    /\ get[t] # NoDetail
    /\ Trouble
    /\ get' = [get EXCEPT ![t] = NoDetail]
    /\ UNCHANGED <<live, snaps, page, save, visits>>

\* The fields stay enabled while a save is under way.
Type(t, m) ==
    /\ page[t].data # NoDetail
    /\ Cardinality(Changed(page[t].typed, {m})) <= MaxTyped
    /\ page' = [page EXCEPT ![t].draft = Changed(@, {m}),
                            ![t].typed = Changed(@, {m})]
    /\ UNCHANGED <<live, snaps, save, get, visits, troubles>>

\* handleSave: the form is valid, and no other save of the tab is pending.
ClickSave(t) ==
    /\ page[t].data # NoDetail
    /\ page[t].draft # {}
    /\ save[t] = NoSave
    /\ live.rev < MaxRevision
    /\ save' = [save EXCEPT ![t] =
                   [at |-> "sent", expected |-> page[t].data.rev,
                    modules |-> page[t].draft, typed |-> page[t].typed,
                    reply |-> NoDetail]]
    /\ UNCHANGED <<live, snaps, page, get, visits, troubles>>

-----------------------------------------------------------------------------
(* save_teacher_course_syllabus *)

\* Mutant: the revision the form was made from is not compared.
UpToDateAlways(expected) == TRUE

UpToDate(expected) == expected = live.rev

\* The row and its snapshot in one transaction, under the locks of both rows.
HandleSave(t) ==
    /\ save[t].at = "sent"
    /\ IF UpToDate(save[t].expected)
       THEN /\ live' = [rev |-> live.rev + 1, modules |-> save[t].modules]
            /\ snaps' = Append(snaps, save[t].modules)
            /\ save' = [save EXCEPT ![t].at = "saved"]
       ELSE /\ save' = [save EXCEPT ![t].at = "stale"]
            /\ UNCHANGED <<live, snaps>>
    /\ UNCHANGED <<page, get, visits, troubles>>

\* The answer is read after the commit: it may be another tab's revision.
AnswerSave(t) ==
    /\ save[t].at = "saved"
    /\ save' = [save EXCEPT ![t].at = "answered", ![t].reply = live]
    /\ UNCHANGED <<live, snaps, page, get, visits, troubles>>

\* setQueryData, the effect, setDraft(response).
SaveArrives(t) ==
    /\ save[t].at = "answered"
    /\ page' = [page EXCEPT ![t] = Shown(save[t].reply)]
    /\ save' = [save EXCEPT ![t] = NoSave]
    /\ UNCHANGED <<live, snaps, get, visits, troubles>>

\* 409 stale_syllabus_revision: refetch() drops a GET under way for a new one.
StaleArrives(t) ==
    /\ save[t].at = "stale"
    /\ get' = [get EXCEPT ![t] = live]
    /\ save' = [save EXCEPT ![t] = NoSave]
    /\ UNCHANGED <<live, snaps, page, visits, troubles>>

\* The request or its answer is lost, or the transaction fails: the form keeps
\* what it shows, and the cache the revision it has.
SaveLost(t) ==
    /\ save[t] # NoSave
    /\ Trouble
    /\ save' = [save EXCEPT ![t] = NoSave]
    /\ UNCHANGED <<live, snaps, page, get, visits>>

SyllabusNext ==
    \E t \in Tabs :
        \/ GetDetail(t) \/ DetailArrives(t) \/ DetailLost(t)
        \/ \E m \in Modules : Type(t, m)
        \/ ClickSave(t) \/ HandleSave(t) \/ AnswerSave(t)
        \/ SaveArrives(t) \/ StaleArrives(t) \/ SaveLost(t)

-----------------------------------------------------------------------------
Pages == [data: Detail \cup {NoDetail}, draft: SUBSET Modules,
          typed: SUBSET Modules]
Saves == [at: {"none", "sent", "saved", "answered", "stale"}, expected: Nat,
          modules: SUBSET Modules, typed: SUBSET Modules,
          reply: Detail \cup {NoDetail}]

SyllabusTypeOK ==
    /\ live \in Detail
    /\ snaps \in Seq(SUBSET Modules)
    /\ page \in [Tabs -> Pages]
    /\ save \in [Tabs -> Saves]
    /\ get \in [Tabs -> Detail \cup {NoDetail}]
    /\ visits \in 0 .. MaxVisits
    /\ troubles \in 0 .. MaxTroubles

\* A save changes in the syllabus what its author changed in the form, and
\* nothing else: it never takes back what another tab saved meanwhile, however
\* old the form, and whatever answers arrived in which order (the handoff of
\* issue 140: a conflict is never overwritten silently).
OnlyTypedChanges ==
    [][/\ live'.rev = live.rev + 1
       /\ \E t \in Tabs :
             /\ save[t].at = "sent" /\ save'[t].at = "saved"
             /\ live'.modules = Changed(live.modules, save[t].typed)]_live

\* Every detail that travels or is shown is a revision of the history.
IsRevision(d) == d.rev <= Len(snaps) /\ d.modules = Content(d.rev)

\* Why it holds: a form is a known revision with the changes typed since, and
\* a save under way names the revision its modules were made from.
PageSound(p) == p.data # NoDetail =>
    /\ IsRevision(p.data)
    /\ p.draft = Changed(p.data.modules, p.typed)

GetSound(d) == d # NoDetail => IsRevision(d)

SaveSound(x) ==
    /\ x.at = "sent" => /\ x.expected <= Len(snaps)
                        /\ x.modules = Changed(Content(x.expected), x.typed)
    /\ x.at = "answered" => x.reply # NoDetail /\ IsRevision(x.reply)

SyllabusInv ==
    /\ IsRevision(live) /\ live.rev = Len(snaps)
    /\ \A t \in Tabs : PageSound(page[t]) /\ GetSound(get[t]) /\ SaveSound(save[t])

=============================================================================
