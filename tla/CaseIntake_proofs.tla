------------------------- MODULE CaseIntake_proofs -------------------------
(***************************************************************************)
(* Proofs about CourseSyllabus and CaseIntake, for any number of tabs,     *)
(* cases and regenerations and any number of revisions.                    *)
(***************************************************************************)
EXTENDS CaseIntake, SequenceTheorems, TLAPS

USE DetailAssumption, BoundsAssumption, IntakeAssumption

-----------------------------------------------------------------------------
(* The syllabus *)

\* A save adds a revision and changes none.
LEMMA HistoryGrows ==
    ASSUME snaps \in Seq(SUBSET Modules), NEW S \in SUBSET Modules,
           snaps' = Append(snaps, S)
    PROVE  /\ snaps' \in Seq(SUBSET Modules)
           /\ Len(snaps') = Len(snaps) + 1
           /\ snaps'[Len(snaps) + 1] = S
           /\ \A r \in 0 .. Len(snaps) : Content(r)' = Content(r)
  BY DEF Content

\* What a tab knows of the history stays true when the history grows.
LEMMA KnowledgeStays ==
    ASSUME snaps \in Seq(SUBSET Modules), NEW S \in SUBSET Modules,
           snaps' = Append(snaps, S)
    PROVE  /\ \A d \in Detail : IsRevision(d) => IsRevision(d)'
           /\ \A p \in Pages : PageSound(p) => PageSound(p)'
           /\ \A d \in Detail \cup {NoDetail} : GetSound(d) => GetSound(d)'
           /\ \A x \in Saves : SaveSound(x) => SaveSound(x)'
  <1>0. Len(snaps) \in Nat
    OBVIOUS
  <1>1. ASSUME NEW d \in Detail, IsRevision(d) PROVE IsRevision(d)'
    <2>1. d.rev \in 0 .. Len(snaps)
      BY <1>0, <1>1 DEF Detail, IsRevision
    <2>2. Content(d.rev)' = Content(d.rev) /\ Len(snaps') = Len(snaps) + 1
      BY <2>1, HistoryGrows
    <2> QED
      BY <1>0, <1>1, <2>1, <2>2 DEF IsRevision
  <1>2. ASSUME NEW p \in Pages, PageSound(p) PROVE PageSound(p)'
    <2>1. CASE p.data = NoDetail
      BY <2>1 DEF PageSound
    <2>2. CASE p.data # NoDetail
      BY <1>1, <1>2, <2>2 DEF PageSound, Pages
    <2> QED
      BY <2>1, <2>2
  <1>3. ASSUME NEW d \in Detail \cup {NoDetail}, GetSound(d) PROVE GetSound(d)'
    BY <1>1, <1>3 DEF GetSound
  <1>4. ASSUME NEW x \in Saves, SaveSound(x) PROVE SaveSound(x)'
    <2>1. CASE x.at = "sent"
      <3>1. x.expected \in 0 .. Len(snaps)
        BY <1>0, <1>4, <2>1 DEF SaveSound, Saves
      <3>2. Content(x.expected)' = Content(x.expected) /\ Len(snaps') = Len(snaps) + 1
        BY <3>1, HistoryGrows
      <3> QED
        BY <1>0, <1>4, <2>1, <3>1, <3>2 DEF SaveSound
    <2>2. CASE x.at = "answered"
      BY <1>1, <1>4, <2>2 DEF SaveSound, Saves
    <2> QED
      BY <2>1, <2>2 DEF SaveSound
  <1> QED
    BY <1>1, <1>2, <1>3, <1>4

\* A step of a tab that writes no row: what it leaves in the tab is sound.
LEMMA TabKeepsInv ==
    ASSUME SyllabusTypeOK, SyllabusInv, NEW t \in Tabs,
           NEW p \in Pages, NEW x \in Saves, NEW d \in Detail \cup {NoDetail},
           page' = [page EXCEPT ![t] = p], save' = [save EXCEPT ![t] = x],
           get' = [get EXCEPT ![t] = d], UNCHANGED <<live, snaps>>,
           visits' \in 0 .. MaxVisits, troubles' \in 0 .. MaxTroubles,
           PageSound(p), SaveSound(x), GetSound(d)
    PROVE  SyllabusTypeOK' /\ SyllabusInv'
  <1>1. SyllabusTypeOK'
    BY DEF SyllabusTypeOK
  <1>2. ASSUME NEW u \in Tabs
        PROVE  /\ page'[u] = IF u = t THEN p ELSE page[u]
               /\ save'[u] = IF u = t THEN x ELSE save[u]
               /\ get'[u] = IF u = t THEN d ELSE get[u]
    BY DEF SyllabusTypeOK
  <1>3. ASSUME NEW u \in Tabs
        PROVE  PageSound(page[u])' /\ GetSound(get[u])' /\ SaveSound(save[u])'
    BY <1>2 DEF SyllabusInv, PageSound, GetSound, SaveSound, IsRevision, Content
  <1> QED
    BY <1>1, <1>3 DEF SyllabusInv, IsRevision, Content

LEMMA TroubleTyped ==
    ASSUME troubles \in 0 .. MaxTroubles, Trouble
    PROVE  troubles' \in 0 .. MaxTroubles
  BY DEF Trouble

LEMMA FormTyped ==
    ASSUME NEW p \in Pages, NEW m \in Modules
    PROVE  LET q == [p EXCEPT !.draft = Changed(@, {m}), !.typed = Changed(@, {m})]
           IN  /\ q \in Pages /\ q.data = p.data
               /\ q.draft = Changed(p.draft, {m}) /\ q.typed = Changed(p.typed, {m})
  BY DEF Pages, Changed

LEMMA SyllabusInitHolds == SyllabusInit => SyllabusTypeOK /\ SyllabusInv
  <1> SUFFICES ASSUME SyllabusInit PROVE SyllabusTypeOK /\ SyllabusInv
    OBVIOUS
  <1> USE DEF SyllabusInit
  <1>1. NoSave \in Saves /\ NoSave.at = "none"
    BY DEF NoSave, Saves
  <1>2. SyllabusTypeOK
    BY <1>1 DEF SyllabusTypeOK, Detail, Pages
  <1>3. ASSUME NEW t \in Tabs
        PROVE  PageSound(page[t]) /\ GetSound(get[t]) /\ SaveSound(save[t])
    BY <1>1 DEF PageSound, GetSound, SaveSound
  <1>4. Len(snaps) = 0
    OBVIOUS
  <1>5. IsRevision(live) /\ live.rev = Len(snaps)
    BY <1>4 DEF IsRevision, Content
  <1> QED
    BY <1>2, <1>3, <1>5 DEF SyllabusInv

\* A step of a tab keeps the invariant of the syllabus, the save included.
LEMMA SyllabusStep ==
    ASSUME SyllabusTypeOK, SyllabusInv, SyllabusNext
    PROVE  SyllabusTypeOK' /\ SyllabusInv'
  <1> PICK t \in Tabs :
        \/ GetDetail(t) \/ DetailArrives(t) \/ DetailLost(t)
        \/ \E m \in Modules : Type(t, m)
        \/ ClickSave(t) \/ HandleSave(t) \/ AnswerSave(t)
        \/ SaveArrives(t) \/ StaleArrives(t) \/ SaveLost(t)
    BY DEF SyllabusNext
  <1> DEFINE p == page[t]
             x == save[t]
             d == get[t]
  <1>1. /\ live \in Detail /\ snaps \in Seq(SUBSET Modules)
        /\ page \in [Tabs -> Pages] /\ p \in Pages
        /\ save \in [Tabs -> Saves] /\ x \in Saves
        /\ get \in [Tabs -> Detail \cup {NoDetail}]
        /\ d \in Detail \cup {NoDetail}
        /\ visits \in 0 .. MaxVisits /\ troubles \in 0 .. MaxTroubles
    BY DEF SyllabusTypeOK
  <1>2. PageSound(p) /\ SaveSound(x) /\ GetSound(d) /\ IsRevision(live)
    BY DEF SyllabusInv
  <1>3. /\ page = [page EXCEPT ![t] = p] /\ save = [save EXCEPT ![t] = x]
        /\ get = [get EXCEPT ![t] = d]
    BY <1>1
  <1>4. NoSave \in Saves /\ SaveSound(NoSave)
    BY DEF NoSave, Saves, SaveSound
  <1>5. live # NoDetail /\ GetSound(live)
    BY <1>1, <1>2 DEF GetSound
  <1>6. ASSUME NEW e \in Detail, IsRevision(e)
        PROVE  Shown(e) \in Pages /\ PageSound(Shown(e))
    <2>1. e.modules \in SUBSET Modules
      BY DEF Detail
    <2>2. Changed(e.modules, {}) = e.modules
      BY <2>1 DEF Changed
    <2>3. Shown(e) \in Pages
      BY <2>1 DEF Shown, Pages
    <2> QED
      BY <1>6, <2>2, <2>3 DEF Shown, PageSound
  <1> HIDE DEF p, x, d
  <1>7. CASE GetDetail(t)
    <2>1. visits' \in 0 .. MaxVisits
      BY <1>1, <1>7 DEF GetDetail
    <2> QED
      BY <1>1, <1>2, <1>3, <1>5, <1>7, <2>1, TabKeepsInv DEF GetDetail
  <1>8. CASE DetailArrives(t)
    <2>1. get' = [get EXCEPT ![t] = NoDetail] /\ GetSound(NoDetail)
      BY <1>8 DEF DetailArrives, GetSound
    <2>2. /\ d \in Detail /\ IsRevision(d)
      BY <1>1, <1>2, <1>8 DEF DetailArrives, GetSound, d
    <2>3. PICK q \in Pages : PageSound(q) /\ page' = [page EXCEPT ![t] = q]
      BY <1>1, <1>2, <1>3, <1>6, <1>8, <2>2 DEF DetailArrives, d
    <2> QED
      BY <1>1, <1>2, <1>3, <1>8, <2>1, <2>3, TabKeepsInv DEF DetailArrives
  <1>9. CASE DetailLost(t)
    <2>1. get' = [get EXCEPT ![t] = NoDetail] /\ GetSound(NoDetail)
      BY <1>9 DEF DetailLost, GetSound
    <2>2. troubles' \in 0 .. MaxTroubles
      BY <1>1, <1>9, TroubleTyped DEF DetailLost
    <2> QED
      BY <1>1, <1>2, <1>3, <1>9, <2>1, <2>2, TabKeepsInv DEF DetailLost
  <1>10. CASE \E m \in Modules : Type(t, m)
    <2> PICK m \in Modules : Type(t, m)
      BY <1>10
    <2> DEFINE q == [p EXCEPT !.draft = Changed(@, {m}), !.typed = Changed(@, {m})]
    <2>1. page' = [page EXCEPT ![t] = q]
      BY <1>1 DEF Type, p
    <2>2. /\ q \in Pages /\ q.data = p.data /\ q.draft = Changed(p.draft, {m})
          /\ q.typed = Changed(p.typed, {m})
      BY <1>1, FormTyped
    <2>3. p.data # NoDetail
      BY DEF Type, p
    <2>4. p.draft = Changed(p.data.modules, p.typed) /\ IsRevision(p.data)
      BY <1>2, <2>3 DEF PageSound
    <2>5. Changed(Changed(p.data.modules, p.typed), {m})
             = Changed(p.data.modules, Changed(p.typed, {m}))
      BY DEF Changed
    <2>6. PageSound(q)
      BY <2>2, <2>4, <2>5 DEF PageSound
    <2> HIDE DEF q
    <2> QED
      BY <1>1, <1>2, <1>3, <2>1, <2>2, <2>6, TabKeepsInv DEF Type
  <1>11. CASE ClickSave(t)
    <2> DEFINE y == [at |-> "sent", expected |-> p.data.rev, modules |-> p.draft,
                     typed |-> p.typed, reply |-> NoDetail]
    <2>1. save' = [save EXCEPT ![t] = y]
      BY <1>11 DEF ClickSave, p
    <2>2. p.data # NoDetail
      BY <1>11 DEF ClickSave, p
    <2>3. p.data \in Detail /\ p.draft \in SUBSET Modules /\ p.typed \in SUBSET Modules
      BY <1>1, <2>2 DEF Pages
    <2>4. IsRevision(p.data) /\ p.draft = Changed(p.data.modules, p.typed)
      BY <1>2, <2>2 DEF PageSound
    <2>5. y \in Saves
      BY <2>3 DEF Saves, Detail
    <2>6. SaveSound(y)
      BY <2>4 DEF SaveSound, IsRevision
    <2> HIDE DEF y
    <2> QED
      BY <1>1, <1>2, <1>3, <1>11, <2>1, <2>5, <2>6, TabKeepsInv DEF ClickSave
  <1>12. CASE HandleSave(t)
    <2>1. x.at = "sent"
      BY <1>12 DEF HandleSave, x
    <2>2. CASE ~UpToDate(x.expected)
      <3> DEFINE y == [x EXCEPT !.at = "stale"]
      <3>1. /\ save' = [save EXCEPT ![t] = y]
            /\ UNCHANGED <<live, snaps, page, get, visits, troubles>>
        BY <1>1, <1>12, <2>2 DEF HandleSave, x
      <3>2. y \in Saves /\ y.at = "stale"
        BY <1>1 DEF Saves
      <3>3. SaveSound(y)
        BY <3>2 DEF SaveSound
      <3> HIDE DEF y
      <3> QED
        BY <1>1, <1>2, <1>3, <3>1, <3>2, <3>3, TabKeepsInv
    <2>3. CASE UpToDate(x.expected)
      <3> DEFINE y == [x EXCEPT !.at = "saved"]
      <3>1. /\ live' = [rev |-> live.rev + 1, modules |-> x.modules]
            /\ snaps' = Append(snaps, x.modules)
            /\ save' = [save EXCEPT ![t] = y]
            /\ UNCHANGED <<page, get, visits, troubles>>
        BY <1>12, <2>3 DEF HandleSave, x
      <3>2. y \in Saves /\ y.at = "saved" /\ x.modules \in SUBSET Modules
        BY <1>1 DEF Saves
      <3> HIDE DEF y
      <3>3. /\ snaps' \in Seq(SUBSET Modules) /\ Len(snaps') = Len(snaps) + 1
            /\ snaps'[Len(snaps) + 1] = x.modules
        BY <1>1, <3>1, <3>2, HistoryGrows
      <3>4. live.rev = Len(snaps) /\ Len(snaps) \in Nat
        BY <1>1 DEF SyllabusInv
      <3>5. live' \in Detail
        BY <1>1, <3>1, <3>2 DEF Detail
      <3>6. save' \in [Tabs -> Saves] /\ save'[t] = y
            /\ \A u \in Tabs \ {t} : save'[u] = save[u]
        BY <1>1, <3>1, <3>2
      <3>7. SyllabusTypeOK'
        BY <1>1, <3>1, <3>3, <3>5, <3>6 DEF SyllabusTypeOK
      <3>8. live'.rev = Len(snaps') /\ IsRevision(live)'
        BY <3>1, <3>3, <3>4 DEF IsRevision, Content
      <3>9. ASSUME NEW u \in Tabs
            PROVE  PageSound(page[u])' /\ GetSound(get[u])' /\ SaveSound(save[u])'
        <4>1. PageSound(page[u]) /\ GetSound(get[u]) /\ SaveSound(save[u])
          BY DEF SyllabusInv
        <4>2. page[u] \in Pages /\ get[u] \in Detail \cup {NoDetail} /\ save[u] \in Saves
          BY <1>1
        <4>3. PageSound(page[u])' /\ GetSound(get[u])'
          BY <1>1, <3>1, <3>2, <4>1, <4>2, KnowledgeStays
             DEF PageSound, GetSound, IsRevision, Content
        <4>4. SaveSound(save[u])'
          <5>1. CASE u = t
            BY <3>2, <3>6, <5>1 DEF SaveSound
          <5>2. CASE u # t
            BY <1>1, <3>1, <3>2, <3>6, <4>1, <4>2, <5>2, KnowledgeStays
               DEF SaveSound, IsRevision, Content
          <5> QED
            BY <5>1, <5>2
        <4> QED
          BY <4>3, <4>4
      <3> QED
        BY <3>7, <3>8, <3>9 DEF SyllabusInv
    <2> QED
      BY <2>2, <2>3
  <1>13. CASE AnswerSave(t)
    <2> DEFINE y == [x EXCEPT !.at = "answered", !.reply = live]
    <2>1. save' = [save EXCEPT ![t] = y]
      BY <1>1, <1>13 DEF AnswerSave, x
    <2>2. y \in Saves /\ y.at = "answered" /\ y.reply = live
      BY <1>1 DEF Saves
    <2>3. SaveSound(y)
      BY <1>2, <1>5, <2>2 DEF SaveSound
    <2> HIDE DEF y
    <2> QED
      BY <1>1, <1>2, <1>3, <1>13, <2>1, <2>2, <2>3, TabKeepsInv DEF AnswerSave
  <1>14. CASE SaveArrives(t)
    <2>1. x.reply \in Detail /\ IsRevision(x.reply)
      BY <1>1, <1>2, <1>14 DEF SaveArrives, SaveSound, Saves, x
    <2>2. page' = [page EXCEPT ![t] = Shown(x.reply)]
      BY <1>14 DEF SaveArrives, x
    <2> QED
      BY <1>1, <1>2, <1>3, <1>4, <1>6, <1>14, <2>1, <2>2, TabKeepsInv
      DEF SaveArrives
  <1>15. CASE StaleArrives(t)
    BY <1>1, <1>2, <1>3, <1>4, <1>5, <1>15, TabKeepsInv DEF StaleArrives
  <1>16. CASE SaveLost(t)
    <2>1. troubles' \in 0 .. MaxTroubles
      BY <1>1, <1>16, TroubleTyped DEF SaveLost
    <2> QED
      BY <1>1, <1>2, <1>3, <1>4, <1>16, <2>1, TabKeepsInv DEF SaveLost
  <1> QED
    BY <1>7, <1>8, <1>9, <1>10, <1>11, <1>12, <1>13, <1>14, <1>15, <1>16

-----------------------------------------------------------------------------
(* The cases *)

Statuses == {"none", "draft", "pending", "failed_resumable", "processing",
             "completed", "failed", "ungrounded"}
CaseRows == [job: Statuses, module: Modules \cup {NoModule}, seen: Nat, rev: Nat,
             used: SUBSET Modules]
Books == [text: {"none", "placeholder", "full", "poor"}, shown: BOOLEAN,
          flag: BOOLEAN, inputs: BOOLEAN]
RegenRows == [at: {"idle", "queued", "generating", "done"},
              case: Cases \cup {NoCase}, inputs: BOOLEAN]

CaseTypeOK ==
    /\ case \in [Cases -> CaseRows]
    /\ book \in [Cases -> Books]
    /\ regen \in [Regens -> RegenRows]

\* An accepted case holds its module in the revision it was checked against,
\* its job names that one or a later one, and has been told by that one.
CaseSound(k) ==
    /\ k.job # "none" => /\ k.seen \in 1 .. Len(snaps)
                         /\ k.module \in Content(k.seen)
    /\ k.job \notin {"none", "draft"} => k.rev \in k.seen .. Len(snaps)
    /\ k.job = "ungrounded" => k.module \notin Content(k.rev)
    /\ k.used # {} => /\ k.job \notin {"none", "draft"}
                      /\ k.used = Content(k.rev)

\* The notebook of a case is degraded with its inputs, or whole.
BookSound(k, b) ==
    /\ b.shown = b.flag
    /\ b.flag => k.job = "completed" /\ b.text = "placeholder" /\ b.inputs
    /\ k.job = "completed" /\ ~b.flag => b.text = "full"

\* A regeneration works on a completed case, and has read its inputs.
RegenSound(y) ==
    /\ y.at # "idle" => y.case \in Cases /\ case[y.case].job = "completed"
    /\ y.at = "generating" => y.inputs

IntakeInv ==
    /\ CaseTypeOK
    /\ \A c \in Cases : CaseSound(case[c]) /\ BookSound(case[c], book[c])
    /\ \A g \in Regens : RegenSound(regen[g])

Inv == SyllabusTypeOK /\ SyllabusInv /\ IntakeInv

LEMMA TypesAgree == SyllabusTypeOK /\ CaseTypeOK <=> TypeOK
  <1>1. JobStatus = Statuses
    BY DEF JobStatus, Retryable, Statuses
  <1> QED
    BY <1>1 DEF TypeOK, CaseTypeOK, CaseRows, Books, RegenRows

\* A step of a case that completes or reopens nothing but that case.
LEMMA CaseKeepsInv ==
    ASSUME IntakeInv, NEW c \in Cases, NEW k \in CaseRows, NEW b \in Books,
           case' = [case EXCEPT ![c] = k], book' = [book EXCEPT ![c] = b],
           UNCHANGED <<snaps, regen>>, CaseSound(k), BookSound(k, b),
           case[c].job = "completed" => k.job = "completed"
    PROVE  IntakeInv'
  <1>1. CaseTypeOK'
    BY DEF IntakeInv, CaseTypeOK
  <1>2. ASSUME NEW a \in Cases
        PROVE  /\ case'[a] = IF a = c THEN k ELSE case[a]
               /\ book'[a] = IF a = c THEN b ELSE book[a]
    BY DEF IntakeInv, CaseTypeOK
  <1>3. ASSUME NEW a \in Cases
        PROVE  CaseSound(case[a])' /\ BookSound(case[a], book[a])'
    BY <1>2 DEF IntakeInv, CaseSound, BookSound, Content
  <1>4. ASSUME NEW g \in Regens PROVE RegenSound(regen[g])'
    BY <1>2 DEF IntakeInv, RegenSound
  <1> QED
    BY <1>1, <1>3, <1>4 DEF IntakeInv

LEMMA RegenKeepsInv ==
    ASSUME IntakeInv, NEW g \in Regens, NEW y \in RegenRows,
           regen' = [regen EXCEPT ![g] = y], UNCHANGED <<snaps, case, book>>,
           RegenSound(y)
    PROVE  IntakeInv'
  <1>1. CaseTypeOK'
    BY DEF IntakeInv, CaseTypeOK
  <1>2. ASSUME NEW a \in Cases
        PROVE  CaseSound(case[a])' /\ BookSound(case[a], book[a])'
    BY DEF IntakeInv, CaseSound, BookSound, Content
  <1>3. ASSUME NEW h \in Regens PROVE RegenSound(regen[h])'
    BY DEF IntakeInv, CaseTypeOK, RegenSound
  <1> QED
    BY <1>1, <1>2, <1>3 DEF IntakeInv

LEMMA InitHolds == Init => Inv
  <1> SUFFICES ASSUME Init PROVE Inv
    OBVIOUS
  <1>1. SyllabusTypeOK /\ SyllabusInv
    BY SyllabusInitHolds DEF Init
  <1>2. CaseTypeOK
    BY DEF Init, CaseTypeOK, CaseRows, Books, RegenRows, Statuses
  <1>3. ASSUME NEW c \in Cases
        PROVE  CaseSound(case[c]) /\ BookSound(case[c], book[c])
    BY DEF Init, CaseSound, BookSound
  <1>4. ASSUME NEW g \in Regens PROVE RegenSound(regen[g])
    BY DEF Init, RegenSound
  <1> QED
    BY <1>1, <1>2, <1>3, <1>4 DEF Inv, IntakeInv

\* The cases are not disturbed by what the tabs do: they hold on to revisions.
LEMMA TabsKeepIntake ==
    ASSUME Inv, SyllabusNext, UNCHANGED caseVars
    PROVE  IntakeInv'
  <1>1. snaps \in Seq(SUBSET Modules) /\ Len(snaps) \in Nat
    BY DEF Inv, SyllabusTypeOK
  <1>2. /\ Len(snaps') \in Nat /\ Len(snaps) <= Len(snaps')
        /\ \A r \in 0 .. Len(snaps) : Content(r)' = Content(r)
    <2>1. CASE UNCHANGED snaps
      BY <1>1, <2>1 DEF Content
    <2>2. CASE \E t \in Tabs : HandleSave(t)
      <3> PICK t \in Tabs : HandleSave(t)
        BY <2>2
      <3>1. CASE snaps' = Append(snaps, save[t].modules)
        <4>1. save[t].modules \in SUBSET Modules
          BY DEF Inv, SyllabusTypeOK, Saves
        <4> QED
          BY <1>1, <3>1, <4>1, HistoryGrows
      <3> QED
        BY <2>1, <3>1 DEF HandleSave
    <2> QED
      BY <2>1, <2>2
      DEF SyllabusNext, GetDetail, DetailArrives, DetailLost, Type, ClickSave,
          AnswerSave, SaveArrives, StaleArrives, SaveLost
  <1>3. case' = case /\ book' = book /\ regen' = regen
    BY DEF caseVars
  <1>4. ASSUME NEW c \in Cases PROVE CaseSound(case[c])'
    <2>1. CaseSound(case[c]) /\ case[c].seen \in Nat /\ case[c].rev \in Nat
      BY DEF Inv, IntakeInv, CaseTypeOK, CaseRows
    <2>2. case[c].job # "none" => /\ case[c].seen \in 1 .. Len(snaps')
                                  /\ case[c].module \in Content(case[c].seen)'
      BY <1>1, <1>2, <1>3, <2>1 DEF CaseSound
    <2>3. case[c].job \notin {"none", "draft"} =>
            /\ case[c].rev \in case[c].seen .. Len(snaps')
            /\ Content(case[c].rev)' = Content(case[c].rev)
      BY <1>1, <1>2, <1>3, <2>1 DEF CaseSound
    <2> QED
      BY <1>3, <2>1, <2>2, <2>3 DEF CaseSound
  <1>5. CaseTypeOK'
    BY <1>3 DEF Inv, IntakeInv, CaseTypeOK
  <1> QED
    BY <1>3, <1>4, <1>5 DEF Inv, IntakeInv, BookSound, RegenSound

LEMMA CasesKeepIntake ==
    ASSUME Inv, NEW c \in Cases,
           \/ Accept(c) \/ CreateJob(c) \/ Claim(c) \/ Interrupt(c) \/ Complete(c)
    PROVE  IntakeInv'
  <1> DEFINE k == case[c]
             b == book[c]
  <1>1. /\ case \in [Cases -> CaseRows] /\ k \in CaseRows
        /\ book \in [Cases -> Books] /\ b \in Books
        /\ IntakeInv /\ CaseSound(k) /\ BookSound(k, b)
    BY DEF Inv, IntakeInv, CaseTypeOK
  <1>2. /\ live.rev = Len(snaps) /\ Len(snaps) \in Nat /\ live.rev \in Nat
        /\ live.modules = Content(live.rev) /\ snaps \in Seq(SUBSET Modules)
    BY DEF Inv, SyllabusInv, SyllabusTypeOK, IsRevision, Detail
  <1>3. book = [book EXCEPT ![c] = b]
    BY <1>1
  <1>4. ASSUME UNCHANGED syllabusVars PROVE UNCHANGED snaps
    BY <1>4 DEF syllabusVars
  <1> HIDE DEF k, b
  <1>5. CASE Accept(c)
    <2> PICK m \in Modules :
          /\ Selectable(m, live.modules)
          /\ case' = [case EXCEPT ![c].job = "draft", ![c].module = m,
                                  ![c].seen = live.rev]
      BY <1>5 DEF Accept
    <2> DEFINE q == [k EXCEPT !.job = "draft", !.module = m, !.seen = live.rev]
    <2>1. case' = [case EXCEPT ![c] = q]
      BY <1>1 DEF k
    <2>2. /\ q \in CaseRows /\ q.job = "draft" /\ q.module = m
          /\ q.seen = live.rev /\ q.used = k.used
      BY <1>1, <1>2 DEF CaseRows, Statuses
    <2>3. k.job = "none" /\ live.rev > 0 /\ UNCHANGED <<snaps, book, regen>>
      BY <1>4, <1>5 DEF Accept, k
    <2>4. CaseSound(q) /\ BookSound(q, b)
      BY <1>1, <1>2, <2>2, <2>3 DEF CaseSound, BookSound, Selectable
    <2> HIDE DEF q
    <2> QED
      BY <1>1, <1>3, <2>1, <2>2, <2>3, <2>4, CaseKeepsInv DEF k
  <1>6. CASE CreateJob(c)
    <2> DEFINE q == [k EXCEPT !.job = "pending", !.rev = live.rev]
    <2>1. case' = [case EXCEPT ![c] = q]
      BY <1>1, <1>6 DEF CreateJob, k
    <2>2. /\ q \in CaseRows /\ q.job = "pending" /\ q.module = k.module
          /\ q.seen = k.seen /\ q.rev = live.rev /\ q.used = k.used
      BY <1>1, <1>2 DEF CaseRows, Statuses
    <2>3. k.job = "draft" /\ UNCHANGED <<snaps, book, regen>>
      BY <1>4, <1>6 DEF CreateJob, k
    <2>4. CaseSound(q) /\ BookSound(q, b)
      BY <1>1, <1>2, <2>2, <2>3 DEF CaseSound, BookSound
    <2> HIDE DEF q
    <2> QED
      BY <1>1, <1>3, <2>1, <2>2, <2>3, <2>4, CaseKeepsInv DEF k
  <1>7. CASE Claim(c)
    <2>1. k.job \in {"pending", "failed_resumable"} /\ UNCHANGED <<snaps, book, regen>>
      BY <1>4, <1>7 DEF Claim, Retryable, k
    <2>2. k.rev \in Nat /\ k.rev \in k.seen .. Len(snaps) /\ k.seen \in 1 .. Len(snaps)
      BY <1>1, <2>1 DEF CaseSound, CaseRows
    <2>3. Content(k.rev) \in SUBSET Modules
      BY <1>2, <2>2 DEF Content
    <2> DEFINE ok == k.module \in Content(k.rev)
               q == [k EXCEPT !.job = IF ok THEN "processing" ELSE "ungrounded",
                              !.used = IF ok THEN Content(k.rev) ELSE @]
    <2>4. case' = [case EXCEPT ![c] = q]
      BY <1>1, <1>7 DEF Claim, Grounding, k
    <2>5. /\ q \in CaseRows /\ q.module = k.module /\ q.seen = k.seen /\ q.rev = k.rev
          /\ q.job = IF ok THEN "processing" ELSE "ungrounded"
          /\ q.used = IF ok THEN Content(k.rev) ELSE k.used
      BY <1>1, <2>3 DEF CaseRows, Statuses
    <2>6. CaseSound(q) /\ BookSound(q, b)
      BY <1>1, <1>2, <2>1, <2>2, <2>5 DEF CaseSound, BookSound
    <2> HIDE DEF q, ok
    <2> QED
      BY <1>1, <1>3, <2>1, <2>4, <2>5, <2>6, CaseKeepsInv DEF k
  <1>8. CASE Interrupt(c)
    <2> PICK s \in {"failed", "failed_resumable"} : case' = [case EXCEPT ![c].job = s]
      BY <1>8 DEF Interrupt
    <2> DEFINE q == [k EXCEPT !.job = s]
    <2>1. case' = [case EXCEPT ![c] = q]
      BY <1>1 DEF k
    <2>2. /\ q \in CaseRows /\ q.job = s /\ q.module = k.module
          /\ q.seen = k.seen /\ q.rev = k.rev /\ q.used = k.used
      BY <1>1 DEF CaseRows, Statuses
    <2>3. k.job = "processing" /\ UNCHANGED <<snaps, book, regen>>
      BY <1>4, <1>8 DEF Interrupt, k
    <2>4. CaseSound(q) /\ BookSound(q, b)
      BY <1>1, <2>2, <2>3 DEF CaseSound, BookSound
    <2> HIDE DEF q
    <2> QED
      BY <1>1, <1>3, <2>1, <2>2, <2>3, <2>4, CaseKeepsInv DEF k
  <1>9. CASE Complete(c)
    <2> DEFINE q == [k EXCEPT !.job = "completed"]
    <2>1. case' = [case EXCEPT ![c] = q]
      BY <1>1, <1>9 DEF Complete, k
    <2>2. /\ q \in CaseRows /\ q.job = "completed" /\ q.module = k.module
          /\ q.seen = k.seen /\ q.rev = k.rev /\ q.used = k.used
      BY <1>1 DEF CaseRows, Statuses
    <2>3. k.job = "processing" /\ UNCHANGED <<snaps, regen>>
      BY <1>4, <1>9 DEF Complete, k
    <2>4. CaseSound(q)
      BY <1>1, <2>2, <2>3 DEF CaseSound
    <2>5. PICK w \in Books : book' = [book EXCEPT ![c] = w] /\ BookSound(q, w)
      <3>1. CASE book' = [book EXCEPT ![c] = Degraded]
        <4>1. Degraded \in Books /\ BookSound(q, Degraded)
          BY DEF Degraded, Books, BookSound
        <4> QED
          BY <3>1, <4>1
      <3>2. CASE book' = [book EXCEPT ![c].text = "full"]
        <4> DEFINE w == [b EXCEPT !.text = "full"]
        <4>1. book' = [book EXCEPT ![c] = w]
          BY <1>1, <3>2 DEF b
        <4>2. w \in Books /\ w.text = "full" /\ w.shown = b.shown /\ w.flag = b.flag
          BY <1>1 DEF Books
        <4>3. BookSound(q, w)
          BY <1>1, <2>2, <2>3, <4>2 DEF BookSound
        <4> HIDE DEF w
        <4> QED
          BY <4>1, <4>2, <4>3
      <3> QED
        BY <1>9, <3>1, <3>2 DEF Complete
    <2> HIDE DEF q
    <2> QED
      BY <1>1, <2>1, <2>2, <2>3, <2>4, <2>5, CaseKeepsInv
  <1> QED
    BY <1>5, <1>6, <1>7, <1>8, <1>9

LEMMA RegensKeepIntake ==
    ASSUME Inv, NEW g \in Regens,
           \/ \E c \in Cases : RequestRegeneration(g, c)
           \/ StartRegeneration(g) \/ FinishRegeneration(g)
    PROVE  IntakeInv'
  <1> DEFINE y == regen[g]
  <1>1. /\ IntakeInv /\ case \in [Cases -> CaseRows] /\ book \in [Cases -> Books]
        /\ regen \in [Regens -> RegenRows] /\ y \in RegenRows /\ RegenSound(y)
    BY DEF Inv, IntakeInv, CaseTypeOK
  <1>2. UNCHANGED syllabusVars => UNCHANGED snaps
    BY DEF syllabusVars
  <1>3. ASSUME NEW c \in Cases
        PROVE  BookSound(case[c], book[c]) /\ CaseSound(case[c])
    BY <1>1 DEF IntakeInv
  <1> HIDE DEF y
  <1>4. CASE \E c \in Cases : RequestRegeneration(g, c)
    <2> PICK c \in Cases : RequestRegeneration(g, c)
      BY <1>4
    <2> DEFINE z == [at |-> "queued", case |-> c, inputs |-> FALSE]
    <2>1. z \in RegenRows /\ RegenSound(z)
      BY DEF RegenRows, RegenSound, RequestRegeneration
    <2> HIDE DEF z
    <2>2. regen' = [regen EXCEPT ![g] = z] /\ UNCHANGED <<snaps, case, book>>
      BY <1>2 DEF RequestRegeneration, z
    <2> QED
      BY <1>1, <2>1, <2>2, RegenKeepsInv
  <1>5. CASE StartRegeneration(g)
    <2>1. y.at = "queued" /\ y.case \in Cases /\ case[y.case].job = "completed"
      BY <1>1, <1>5 DEF StartRegeneration, RegenSound, y
    <2>2. UNCHANGED <<snaps, case, book>>
      BY <1>2, <1>5 DEF StartRegeneration
    <2>3. CASE StillDegraded(y.case)
      <3> DEFINE z == [y EXCEPT !.at = "generating", !.inputs = book[y.case].inputs]
      <3>1. regen' = [regen EXCEPT ![g] = z]
        BY <1>1, <1>5, <2>3 DEF StartRegeneration, y
      <3>2. book[y.case].inputs = TRUE
        BY <1>1, <1>3, <2>1, <2>3 DEF StillDegraded, BookSound, Books
      <3>3. z \in RegenRows /\ z.at = "generating" /\ z.case = y.case /\ z.inputs = TRUE
        BY <1>1, <3>2 DEF RegenRows
      <3>4. RegenSound(z)
        BY <2>1, <3>3 DEF RegenSound
      <3> HIDE DEF z
      <3> QED
        BY <1>1, <2>2, <3>1, <3>3, <3>4, RegenKeepsInv
    <2>4. CASE ~StillDegraded(y.case)
      <3> DEFINE z == [y EXCEPT !.at = "done"]
      <3>1. regen' = [regen EXCEPT ![g] = z]
        BY <1>1, <1>5, <2>4 DEF StartRegeneration, y
      <3>2. z \in RegenRows /\ z.at = "done" /\ z.case = y.case
        BY <1>1 DEF RegenRows
      <3>3. RegenSound(z)
        BY <2>1, <3>2 DEF RegenSound
      <3> HIDE DEF z
      <3> QED
        BY <1>1, <2>2, <3>1, <3>2, <3>3, RegenKeepsInv
    <2> QED
      BY <2>3, <2>4
  <1>6. CASE FinishRegeneration(g)
    <2>1. y.at = "generating" /\ y.case \in Cases /\ case[y.case].job = "completed"
          /\ y.inputs
      BY <1>1, <1>6 DEF FinishRegeneration, RegenSound, y
    <2>2. UNCHANGED <<snaps, case>>
      BY <1>2, <1>6 DEF FinishRegeneration
    <2> DEFINE z == [y EXCEPT !.at = "done"]
    <2>3. regen' = [regen EXCEPT ![g] = z]
      BY <1>1, <1>6 DEF FinishRegeneration, y
    <2>4. z \in RegenRows /\ z.at = "done" /\ z.case = y.case
      BY <1>1 DEF RegenRows
    <2>5. RegenSound(z)
      BY <2>1, <2>4 DEF RegenSound
    <2> HIDE DEF z
    <2>6. regen' \in [Regens -> RegenRows]
          /\ \A h \in Regens : regen'[h] = IF h = g THEN z ELSE regen[h]
      BY <1>1, <2>3, <2>4
    <2>7. Regenerated(g) = [text |-> "full", shown |-> FALSE, flag |-> FALSE,
                            inputs |-> FALSE]
      BY <2>1 DEF Regenerated, y
    <2>8. Regenerated(g) \in Books /\ BookSound(case[y.case], Regenerated(g))
      BY <2>7 DEF Books, BookSound
    <2>9. /\ book' \in [Cases -> Books]
          /\ \A c \in Cases : BookSound(case[c], book'[c])
      <3>1. CASE UNCHANGED book
        BY <1>1, <1>3, <3>1
      <3>2. CASE book' = [book EXCEPT ![y.case] = Regenerated(g)]
        BY <1>1, <1>3, <2>1, <2>8, <3>2
      <3> QED
        BY <1>6, <3>1, <3>2 DEF FinishRegeneration, y
    <2>10. CaseTypeOK'
      BY <1>1, <2>2, <2>6, <2>9 DEF CaseTypeOK
    <2>11. ASSUME NEW c \in Cases PROVE CaseSound(case[c])' /\ BookSound(case[c], book[c])'
      BY <1>3, <2>2, <2>9 DEF CaseSound, BookSound, Content
    <2>12. ASSUME NEW h \in Regens PROVE RegenSound(regen[h])'
      BY <1>1, <2>2, <2>5, <2>6 DEF IntakeInv, RegenSound
    <2> QED
      BY <2>10, <2>11, <2>12 DEF IntakeInv
  <1> QED
    BY <1>4, <1>5, <1>6

-----------------------------------------------------------------------------
(* The invariant *)

LEMMA NextKeepsInv == Inv /\ [Next]_vars => Inv'
  <1> SUFFICES ASSUME Inv, [Next]_vars PROVE Inv'
    OBVIOUS
  <1>1. CASE SyllabusNext /\ UNCHANGED caseVars
    BY <1>1, SyllabusStep, TabsKeepIntake DEF Inv
  <1>2. CASE UNCHANGED syllabusVars
    <2>1. SyllabusTypeOK' /\ SyllabusInv'
      BY <1>2 DEF syllabusVars, Inv, SyllabusTypeOK, SyllabusInv, PageSound,
                  GetSound, SaveSound, IsRevision, Content
    <2>2. CASE \E c \in Cases : \/ Accept(c) \/ CreateJob(c) \/ Claim(c)
                                \/ Interrupt(c) \/ Complete(c)
      BY <2>1, <2>2, CasesKeepIntake DEF Inv
    <2>3. CASE \E g \in Regens : \/ \E c \in Cases : RequestRegeneration(g, c)
                                 \/ StartRegeneration(g) \/ FinishRegeneration(g)
      BY <2>1, <2>3, RegensKeepIntake DEF Inv
    <2>4. CASE UNCHANGED caseVars
      BY <1>2, <2>1, <2>4
      DEF syllabusVars, caseVars, Inv, IntakeInv, CaseTypeOK, CaseSound, BookSound,
          RegenSound, Content
    <2>5. Next => \/ SyllabusNext /\ UNCHANGED caseVars
                  \/ (\E c \in Cases : \/ Accept(c) \/ CreateJob(c) \/ Claim(c)
                                       \/ Interrupt(c) \/ Complete(c))
                  \/ (\E g \in Regens : \/ \E c \in Cases : RequestRegeneration(g, c)
                                        \/ StartRegeneration(g) \/ FinishRegeneration(g))
      BY DEF Next
    <2> QED
      BY <1>1, <2>2, <2>3, <2>4, <2>5 DEF vars
  <1>3. \/ SyllabusNext /\ UNCHANGED caseVars
        \/ UNCHANGED syllabusVars
    BY DEF Next, vars, Accept, CreateJob, Claim, Interrupt, Complete,
           RequestRegeneration, StartRegeneration, FinishRegeneration
  <1> QED
    BY <1>1, <1>2, <1>3

\* Every revision anyone holds is one of the history, and every case and
\* regeneration is consistent with the revision and the notebook it names.
THEOREM IntakeInvariant == Spec => []Inv
  <1> QED
    BY InitHolds, NextKeepsInv, PTL DEF Spec

-----------------------------------------------------------------------------
(* The properties *)

\* The tabs, the syllabus, the cases and the regenerations keep their types.
THEOREM TypeCorrect == Spec => []TypeOK
  <1>1. Inv => TypeOK
    BY TypesAgree DEF Inv, IntakeInv
  <1> QED
    BY <1>1, IntakeInvariant, PTL

\* An accepted case is rejected for its syllabus only when a save overtook its
\* intake between the two commits of create_authoring_job.
THEOREM OnlyOvertakenFail == Spec => []OnlyOvertakenIntakesFail
  <1>1. Inv => OnlyOvertakenIntakesFail
    <2> SUFFICES ASSUME Inv, NEW c \in Cases
                 PROVE  /\ case[c].job = "ungrounded" => case[c].rev > case[c].seen
                        /\ case[c].used # {} /\ case[c].rev = case[c].seen =>
                              case[c].used = snaps[case[c].seen]
      BY DEF OnlyOvertakenIntakesFail
    <2>1. /\ CaseSound(case[c]) /\ case[c].seen \in Nat /\ case[c].rev \in Nat
          /\ Len(snaps) \in Nat
      BY DEF Inv, IntakeInv, CaseTypeOK, CaseRows, SyllabusTypeOK
    <2> QED
      BY <2>1 DEF CaseSound, Content
  <1> QED
    BY <1>1, IntakeInvariant, PTL

\* A completed case tells the truth about its notebook, however many
\* regenerations of it overlap.
THEOREM NotebookTruth == Spec => []NotebookTellsTruth
  <1>1. Inv => NotebookTellsTruth
    BY DEF Inv, IntakeInv, BookSound, NotebookTellsTruth
  <1> QED
    BY <1>1, IntakeInvariant, PTL

\* A save changes what its author typed, and takes back nothing that another
\* tab has saved.
THEOREM TypedOnly == Spec => OnlyTypedChanges
  <1> DEFINE A == /\ live'.rev = live.rev + 1
                  /\ \E t \in Tabs :
                        /\ save[t].at = "sent" /\ save'[t].at = "saved"
                        /\ live'.modules = Changed(live.modules, save[t].typed)
  <1>1. Inv /\ [Next]_vars => [A]_live
    <2> SUFFICES ASSUME Inv, Next, live' # live PROVE A
      BY DEF vars, syllabusVars
    <2>1. SyllabusNext
      BY DEF Next, syllabusVars, Accept, CreateJob, Claim, Interrupt, Complete,
             RequestRegeneration, StartRegeneration, FinishRegeneration
    <2> PICK t \in Tabs : HandleSave(t)
      BY <2>1
      DEF SyllabusNext, GetDetail, DetailArrives, DetailLost, Type, ClickSave,
          AnswerSave, SaveArrives, StaleArrives, SaveLost
    <2>2. /\ save[t].at = "sent" /\ save[t].expected = live.rev
          /\ live' = [rev |-> live.rev + 1, modules |-> save[t].modules]
          /\ save' = [save EXCEPT ![t].at = "saved"]
      BY DEF HandleSave, UpToDate
    <2>3. /\ SaveSound(save[t]) /\ live.modules = Content(live.rev)
          /\ save \in [Tabs -> Saves] /\ save[t] \in Saves
      BY DEF Inv, SyllabusInv, SyllabusTypeOK, IsRevision
    <2>4. save[t].modules = Changed(live.modules, save[t].typed)
      BY <2>2, <2>3 DEF SaveSound
    <2>5. save'[t].at = "saved"
      BY <2>2, <2>3 DEF Saves
    <2> QED
      BY <2>2, <2>4, <2>5
  <1> QED
    BY <1>1, IntakeInvariant, PTL DEF Spec, OnlyTypedChanges

=============================================================================
