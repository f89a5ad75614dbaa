--------------------------- MODULE SettingsProofs ---------------------------
(***************************************************************************)
(* Proofs about the settings, for all documents, any number of saves by    *)
(* this tab and by others, and any number of failures and visits.          *)
(***************************************************************************)
EXTENDS Settings, TLAPS

Texts == {"invalid", "scalar", "document"}

Puts ==
  [id : Nat, doc : Doc, json : Texts, stage : {"sent", "read", "done"}, seen : Nat,
   rev : Nat, ok : BOOLEAN, lost : BOOLEAN, stored : BOOLEAN]

Fetches == [stage : {"idle", "sent", "ok", "failed"}, doc : Doc, rev : Nat]

Queries ==
  [loaded : BOOLEAN, data : Doc, rev : Nat, fetch : Fetches, invalidated : BOOLEAN,
   first : BOOLEAN]

Pages == [mode : {"form", "json"}, general : Values, notification : Values, text : Doc,
          json : Texts]

Types ==
  /\ cm \in [rev : Nat, state : {"ok", "absent", "nodata", "garbage"}, doc : Doc]
  /\ puts \subseteq Puts
  /\ query \in Queries
  /\ page \in Pages
  /\ acked \in Nat
  /\ saves \in Nat /\ visits \in Nat /\ faults \in Nat

\* A request that is not answered has stored nothing; an answer tells what happened.
Truthful(r) ==
  /\ r.stage /= "done" => ~ r.ok /\ ~ r.stored
  /\ r.stage = "done" /\ ~ r.lost => (r.ok <=> r.stored)

\* A version this tab knows of is at most the stored one, and a fetch that was
\* answered, unless it is the first, was answered with the save that was acknowledged
\* last, or a later one.
Versions ==
  /\ \A r \in puts : r.rev <= cm.rev
  /\ acked <= cm.rev
  /\ query.loaded /\ query.fetch.stage = "ok" => query.fetch.rev >= acked

\* The inductive invariant.
SettingsInv ==
  /\ Types
  /\ \A r \in puts : Truthful(r)
  /\ Versions
  /\ SavedIsShown
  /\ UntouchedFormShowsData
-----------------------------------------------------------------------------
\* Without a document the server answers with an empty one.
LEMMA EmptyDocType == EmptyDoc \in Doc
BY DEF EmptyDoc, Doc, Values

\* A fetch that has no answer.
LEMMA FetchType ==
  ASSUME NEW stage \in {"idle", "sent", "failed"}
  PROVE  /\ Fetch(stage) \in Fetches /\ Fetch(stage).stage = stage
         /\ Fetch(stage).stage /= "ok"
BY EmptyDocType DEF Fetch, Fetches

\* The page as it is mounted.
LEMMA BlankType == Blank \in Pages
BY EmptyDocType DEF Blank, Pages, Texts, Values

\* The effect of the page shows the document.
LEMMA SeededShows ==
  ASSUME NEW p \in Pages, NEW doc \in Doc
  PROVE  /\ Seeded(p, doc) \in Pages
         /\ ~ doc.null => /\ Seeded(p, doc).text = doc
                          /\ \A section \in Sections :
                               doc[section] /= "missing" =>
                                 Seeded(p, doc)[section] = doc[section]
<1> DEFINE general == IF doc.general = "missing" THEN p.general ELSE doc.general
           notification == IF doc.notification = "missing" THEN p.notification
                           ELSE doc.notification
<1>1. general \in Values /\ notification \in Values
  BY DEF Doc, Pages
<1>2. CASE ~ doc.null
  <2>1. /\ Seeded(p, doc) \in Pages /\ Seeded(p, doc).text = doc
        /\ Seeded(p, doc).general = general /\ Seeded(p, doc).notification = notification
    BY <1>1, <1>2 DEF Seeded, Pages, Texts
  <2> QED BY <2>1 DEF Sections
<1>3. CASE doc.null
  BY <1>3 DEF Seeded
<1> QED BY <1>2, <1>3

\* Nothing is loaded and nothing saved.
LEMMA InitSettingsInv == Init => SettingsInv
<1> SUFFICES ASSUME Init PROVE SettingsInv
  OBVIOUS
<1>1. cm \in [rev : Nat, state : {"ok", "absent", "nodata", "garbage"}, doc : Doc]
  BY SettingsConstants, EmptyDocType DEF Init, ConfigMap
<1>2. query \in Queries /\ query.fetch.stage = "sent" /\ query.loaded = FALSE
  BY EmptyDocType, FetchType DEF Init, Queries
<1>3. Types
  BY <1>1, <1>2, BlankType DEF Init, Types
<1>4. Versions
  BY <1>1, <1>2 DEF Init, Versions
<1> QED BY <1>2, <1>3, <1>4 DEF Init, SettingsInv, SavedIsShown, UntouchedFormShowsData
-----------------------------------------------------------------------------
\* A step of one request, and of the map with it.
LEMMA RequestKeeps ==
  ASSUME SettingsInv, NEW r \in puts, NEW s \in Puts, Becomes(r, s), Truthful(s),
         cm' \in [rev : Nat, state : {"ok", "absent", "nodata", "garbage"}, doc : Doc],
         cm.rev <= cm'.rev, s.rev <= cm'.rev, faults' \in Nat,
         UNCHANGED <<query, page, edited, acked, saves, visits>>
  PROVE  SettingsInv'
<1>1. Types'
  BY DEF SettingsInv, Types, Becomes
<1>2. \A q \in puts' : Truthful(q)
  BY DEF SettingsInv, Becomes
<1>3. Versions'
  <2>1. \A q \in puts : q.rev \in Nat
    BY DEF SettingsInv, Types, Puts
  <2>2. cm.rev \in Nat /\ cm'.rev \in Nat /\ acked \in Nat
    BY DEF SettingsInv, Types
  <2>3. \A q \in puts' : q.rev <= cm'.rev
    BY <2>1, <2>2 DEF SettingsInv, Versions, Becomes
  <2> QED BY <2>2, <2>3 DEF SettingsInv, Versions
<1>4. SavedIsShown' /\ UntouchedFormShowsData'
  BY DEF SettingsInv, SavedIsShown, UntouchedFormShowsData
<1> QED BY <1>1, <1>2, <1>3, <1>4 DEF SettingsInv

\* The handler's steps and the failures.
LEMMA HandlerKeeps ==
  ASSUME SettingsInv, NEW r \in puts,
         ReadMap(r) \/ RefuseBody(r) \/ WriteMap(r) \/ PutFails(r)
  PROVE  SettingsInv'
<1>0. /\ r \in Puts /\ Truthful(r) /\ r.rev <= cm.rev
      /\ cm \in [rev : Nat, state : {"ok", "absent", "nodata", "garbage"}, doc : Doc]
      /\ cm.rev <= cm.rev /\ faults \in Nat
  BY DEF SettingsInv, Types, Versions
<1>1. CASE ReadMap(r)
  <2> DEFINE s == [r EXCEPT !.stage = "read", !.seen = cm.rev]
  <2>1. s \in Puts /\ s.stage = "read" /\ s.ok = r.ok /\ s.stored = r.stored /\ s.rev = r.rev
    BY <1>0 DEF Puts
  <2>2. Becomes(r, s) /\ r.stage = "sent" /\ UNCHANGED <<cm, query, page, edited, acked, moves>>
    BY <1>1 DEF ReadMap
  <2> HIDE DEF s
  <2>3. Truthful(s)
    BY <1>0, <2>1, <2>2 DEF Truthful
  <2> QED BY <1>0, <2>1, <2>2, <2>3, RequestKeeps DEF moves
<1>2. ASSUME Refuse(r), r.stage \in {"sent", "read"}, UNCHANGED <<query, page, edited, acked, moves>>
      PROVE  SettingsInv'
  <2> DEFINE s == [r EXCEPT !.stage = "done", !.seen = 0]
  <2>1. s \in Puts /\ s.stage = "done" /\ s.ok = r.ok /\ s.stored = r.stored /\ s.rev = r.rev
    BY <1>0 DEF Puts
  <2>2. Becomes(r, s) /\ UNCHANGED cm
    BY <1>2 DEF Refuse
  <2> HIDE DEF s
  <2>3. Truthful(s)
    BY <1>0, <1>2, <2>1 DEF Truthful
  <2> QED BY <1>0, <1>2, <2>1, <2>2, <2>3, RequestKeeps DEF moves
<1>3. ASSUME Accept(r), UNCHANGED <<query, page, edited, acked, moves>>
      PROVE  SettingsInv'
  <2> DEFINE s == [r EXCEPT !.stage = "done", !.seen = 0, !.ok = TRUE, !.stored = TRUE,
                            !.rev = cm.rev + 1]
  <2>0. cm.rev + 1 \in Nat
    BY <1>0
  <2>1. s \in Puts /\ s.ok = TRUE /\ s.stored = TRUE /\ s.stage = "done" /\ s.rev = cm.rev + 1
    BY <1>0, <2>0 DEF Puts
  <2>2. Becomes(r, s) /\ cm' = [rev |-> cm.rev + 1, state |-> "ok", doc |-> r.doc]
    BY <1>3 DEF Accept
  <2>3. /\ cm' \in [rev : Nat, state : {"ok", "absent", "nodata", "garbage"}, doc : Doc]
        /\ cm'.rev = cm.rev + 1 /\ cm.rev <= cm'.rev /\ s.rev <= cm'.rev
    BY <1>0, <2>1, <2>2 DEF Puts
  <2> HIDE DEF s
  <2>4. Truthful(s)
    BY <2>1 DEF Truthful
  <2> QED BY <1>0, <1>3, <2>1, <2>2, <2>3, <2>4, RequestKeeps DEF moves
<1>4. CASE PutFails(r)
  <2> DEFINE s == [r EXCEPT !.stage = "done", !.lost = TRUE]
  <2>1. s \in Puts /\ s.lost = TRUE /\ s.stage = "done" /\ s.rev = r.rev
    BY <1>0 DEF Puts
  <2>2. Becomes(r, s) /\ UNCHANGED <<cm, query, page, edited, acked, saves, visits>>
        /\ faults' \in Nat
    BY <1>0, <1>4 DEF PutFails
  <2> HIDE DEF s
  <2>3. Truthful(s)
    BY <2>1 DEF Truthful
  <2> QED BY <1>0, <2>1, <2>2, <2>3, RequestKeeps
<1> QED BY <1>1, <1>2, <1>3, <1>4 DEF RefuseBody, WriteMap

\* The answer reaches the tab.
LEMMA AnsweredKeeps ==
  ASSUME SettingsInv, NEW r \in puts, Answered(r)
  PROVE  SettingsInv'
<1>0. /\ Types /\ query \in Queries /\ r \in Puts /\ r.rev \in Nat /\ acked \in Nat
      /\ cm.rev \in Nat /\ r.rev <= cm.rev /\ acked <= cm.rev
  BY DEF SettingsInv, Types, Versions, Puts
<1>1. /\ puts' \subseteq puts /\ cm' = cm /\ page' = page /\ edited' = edited
      /\ saves' = saves /\ visits' = visits /\ faults' = faults
  BY DEF Answered, moves
<1>2. CASE UNCHANGED <<query, acked>>
  BY <1>0, <1>1, <1>2
     DEF SettingsInv, Types, Versions, SavedIsShown, UntouchedFormShowsData
<1>3. CASE /\ invalidateQueries
           /\ acked' = IF r.rev > acked THEN r.rev ELSE acked
  <2> DEFINE fetch == IF query.loaded \/ query.fetch.stage = "idle" THEN Fetch("sent")
                      ELSE query.fetch
  <2>1. query' = [query EXCEPT !.invalidated = TRUE, !.fetch = fetch]
    BY <1>3 DEF invalidateQueries
  <2>2. fetch \in Fetches /\ (fetch.stage = "ok" => ~ query.loaded /\ fetch = query.fetch)
    BY <1>0, FetchType DEF Queries
  <2> HIDE DEF fetch
  <2>3. /\ query' \in Queries /\ query'.fetch = fetch /\ query'.invalidated = TRUE
        /\ query'.loaded = query.loaded /\ query'.data = query.data
    BY <1>0, <2>1, <2>2 DEF Queries
  <2>4. acked' \in Nat /\ acked' <= cm.rev
    BY <1>0, <1>3
  <2>5. Types'
    BY <1>0, <1>1, <2>3, <2>4 DEF Types
  <2>6. Versions'
    BY <1>0, <1>1, <2>2, <2>3, <2>4 DEF SettingsInv, Versions
  <2> QED BY <1>1, <2>3, <2>5, <2>6
          DEF SettingsInv, SavedIsShown, UntouchedFormShowsData
<1> QED BY <1>2, <1>3 DEF Answered

\* A fetch begins, is answered or fails: the page does not change.
LEMMA FetchStepKeeps ==
  ASSUME SettingsInv, Poll \/ ServeGet \/ GetFails
  PROVE  SettingsInv'
<1>0. /\ Types /\ query \in Queries /\ cm.rev \in Nat /\ acked \in Nat /\ acked <= cm.rev
  BY DEF SettingsInv, Types, Versions
<1>1. /\ puts' = puts /\ cm' = cm /\ page' = page /\ edited' = edited /\ acked' = acked
      /\ saves' = saves /\ visits' = visits /\ faults' \in Nat
  BY <1>0 DEF Poll, ServeGet, GetFails, moves, Types
<1>2. PICK fetch \in Fetches : /\ query' = [query EXCEPT !.fetch = fetch]
                               /\ fetch.stage = "ok" => fetch.rev >= acked
  <2>1. GetSettings \in Fetches /\ GetSettings.rev = cm.rev
    BY <1>0 DEF GetSettings, Fetches, Types
  <2> QED BY <1>0, <2>1, FetchType DEF Poll, ServeGet, GetFails
<1>3. /\ query' \in Queries /\ query'.fetch = fetch /\ query'.loaded = query.loaded
      /\ query'.data = query.data /\ query'.rev = query.rev
      /\ query'.invalidated = query.invalidated /\ query'.first = query.first
  BY <1>0, <1>2 DEF Queries
<1>4. Types' /\ Versions'
  BY <1>0, <1>1, <1>2, <1>3 DEF SettingsInv, Types, Versions
<1> QED BY <1>1, <1>3, <1>4 DEF SettingsInv, SavedIsShown, UntouchedFormShowsData

\* A fetch ends, and seeds the form if it brought something new.
LEMMA FetchedKeeps ==
  ASSUME SettingsInv, Fetched
  PROVE  SettingsInv'
<1>0. Types /\ query \in Queries /\ query.fetch \in Fetches /\ page \in Pages
  BY DEF SettingsInv, Types, Queries
<1>1. /\ puts' = puts /\ cm' = cm /\ acked' = acked
      /\ saves' = saves /\ visits' = visits /\ faults' = faults
  BY DEF Fetched, moves
<1>2. CASE query.fetch.stage = "failed"
  <2>1. query' = [query EXCEPT !.fetch = Fetch("idle")] /\ UNCHANGED <<page, edited>>
    BY <1>2 DEF Fetched
  <2>2. /\ query' \in Queries /\ query'.fetch.stage = "idle" /\ query'.loaded = query.loaded
        /\ query'.data = query.data /\ query'.rev = query.rev
        /\ query'.invalidated = query.invalidated /\ query'.first = query.first
    BY <1>0, <2>1, FetchType DEF Queries
  <2> QED BY <1>0, <1>1, <2>1, <2>2
          DEF SettingsInv, Types, Versions, SavedIsShown, UntouchedFormShowsData
<1>3. CASE query.fetch.stage = "ok"
  <2> DEFINE doc == query.fetch.doc
  <2>1. /\ query' = [loaded |-> TRUE, data |-> doc, rev |-> query.fetch.rev,
                     fetch |-> Fetch("idle"), invalidated |-> FALSE,
                     first |-> ~ query.loaded]
        /\ Seed(query.fetch)
    BY <1>3 DEF Fetched
  <2>2. /\ doc \in Doc /\ query.fetch.rev \in Nat
        /\ query.loaded => query.fetch.rev >= acked
    BY <1>0, <1>3 DEF Fetches, SettingsInv, Versions
  <2>3. /\ query' \in Queries /\ query'.fetch.stage = "idle" /\ query'.loaded = TRUE
        /\ query'.data = doc /\ query'.rev = query.fetch.rev
        /\ query'.first = ~ query.loaded
    BY <2>1, <2>2, FetchType DEF Queries
  <2>4. page' \in Pages /\ UntouchedFormShowsData'
    <3>1. CASE ~ query.loaded \/ query.data /= doc
      <4>1. page' = Seeded(page, doc) /\ (~ doc.null => edited' = {})
        BY <2>1, <3>1 DEF Seed, SeedPage
      <4> QED BY <1>0, <2>2, <2>3, <4>1, SeededShows DEF UntouchedFormShowsData
    <3>2. CASE query.loaded /\ query.data = doc
      <4>1. UNCHANGED <<page, edited>>
        BY <2>1, <3>2 DEF Seed
      <4> QED BY <1>0, <2>3, <3>2, <4>1 DEF SettingsInv, UntouchedFormShowsData
    <3> QED BY <3>1, <3>2
  <2>5. Types' /\ Versions'
    BY <1>0, <1>1, <2>3, <2>4 DEF SettingsInv, Types, Versions
  <2> QED BY <1>1, <2>2, <2>3, <2>4, <2>5 DEF SettingsInv, SavedIsShown
<1> QED BY <1>2, <1>3 DEF Fetched

\* What the user types, and what others save.
LEMMA UserKeeps ==
  ASSUME SettingsInv, User
  PROVE  SettingsInv'
<1>0. /\ Types /\ query \in Queries /\ page \in Pages /\ saves \in Nat /\ visits \in Nat
      /\ cm.rev \in Nat
  BY DEF SettingsInv, Types
<1>1. ASSUME NEW section \in Sections, EditForm(section) PROVE SettingsInv'
  <2>1. page' = [page EXCEPT ![section] = "typed"] /\ edited' = edited \cup {section}
    BY <1>1 DEF EditForm
  <2>2. /\ UNCHANGED <<cm, puts, query, acked, saves, visits, faults>>
    BY <1>1 DEF EditForm, moves
  <2>3. /\ page' \in Pages /\ page'.text = page.text
        /\ \A other \in Sections \ {section} : page'[other] = page[other]
    BY <1>0, <2>1 DEF Pages, Sections, Values
  <2>4. UntouchedFormShowsData'
    BY <2>1, <2>2, <2>3 DEF SettingsInv, UntouchedFormShowsData, Sections
  <2> QED BY <2>2, <2>3, <2>4 DEF SettingsInv, Types, Versions, SavedIsShown
<1>2. ASSUME NEW json \in Texts, NEW doc \in TypedDocs, EditText(json, doc)
      PROVE  SettingsInv'
  <2>1. /\ page' = [page EXCEPT !.json = json, !.text = IF json = "document" THEN doc ELSE EmptyDoc]
        /\ edited' = edited \cup {"text"}
    BY <1>2 DEF EditText
  <2>2. /\ UNCHANGED <<cm, puts, query, acked, saves, visits, faults>>
    BY <1>2 DEF EditText, moves
  <2>3. /\ page' \in Pages /\ page'.general = page.general
        /\ page'.notification = page.notification
    BY <1>0, <2>1, SettingsConstants, EmptyDocType DEF Pages
  <2>4. UntouchedFormShowsData'
    BY <2>1, <2>2, <2>3 DEF SettingsInv, UntouchedFormShowsData, Sections
  <2> QED BY <2>2, <2>3, <2>4 DEF SettingsInv, Types, Versions, SavedIsShown
<1>3. ASSUME NEW mode \in {"form", "json"}, SetMode(mode) PROVE SettingsInv'
  <2>1. /\ page' = [page EXCEPT !.mode = mode]
        /\ UNCHANGED <<cm, puts, query, edited, acked, saves, visits, faults>>
    BY <1>3 DEF SetMode, moves
  <2>2. /\ page' \in Pages /\ page'.general = page.general /\ page'.text = page.text
        /\ page'.notification = page.notification
    BY <1>0, <2>1 DEF Pages
  <2>3. UntouchedFormShowsData'
    BY <2>1, <2>2 DEF SettingsInv, UntouchedFormShowsData, Sections
  <2> QED BY <2>1, <2>2, <2>3 DEF SettingsInv, Types, Versions, SavedIsShown
<1>4. ASSUME NEW doc \in Doc, NEW json \in Texts, Send(doc, json),
             UNCHANGED <<cm, query, page, edited, acked, visits, faults>>
      PROVE  SettingsInv'
  <2> DEFINE r == [id |-> saves + 1, doc |-> doc, json |-> json, stage |-> "sent", seen |-> 0,
                   rev |-> 0, ok |-> FALSE, lost |-> FALSE, stored |-> FALSE]
  <2>1. r \in Puts /\ Truthful(r) /\ r.rev <= cm.rev
    BY <1>0 DEF Puts, Truthful
  <2>2. puts' = puts \cup {r} /\ saves' \in Nat
    BY <1>0, <1>4 DEF Send
  <2> HIDE DEF r
  <2> QED BY <1>0, <1>4, <2>1, <2>2
          DEF SettingsInv, Types, Versions, SavedIsShown, UntouchedFormShowsData
<1>5. CASE handleSaveForm
  <2>1. [EmptyDoc EXCEPT !.general = page.general, !.notification = page.notification] \in Doc
    BY <1>0 DEF Pages, Doc, EmptyDoc
  <2> QED BY <1>4, <1>5, <2>1 DEF handleSaveForm, Texts
<1>6. CASE handleSaveJson
  BY <1>0, <1>4, <1>6 DEF handleSaveJson, Pages
<1>7. CASE Revisit
  <2> DEFINE fetch == IF query.fetch.stage = "idle" /\ ~ query.loaded THEN Fetch("sent")
                      ELSE query.fetch
  <2>1. /\ query' = [query EXCEPT !.fetch = fetch] /\ edited' = {}
        /\ page' = (IF query.loaded THEN Seeded(Blank, query.data) ELSE Blank)
        /\ cm' = cm /\ puts' = puts /\ acked' = acked /\ saves' = saves /\ faults' = faults
        /\ visits' \in Nat
    BY <1>0, <1>7 DEF Revisit
  <2>2. fetch \in Fetches /\ (fetch.stage = "ok" => fetch = query.fetch)
    BY <1>0, FetchType DEF Queries
  <2> HIDE DEF fetch
  <2>3. /\ query' \in Queries /\ query'.fetch = fetch /\ query'.loaded = query.loaded
        /\ query'.data = query.data /\ query'.rev = query.rev /\ query.data \in Doc
        /\ query'.invalidated = query.invalidated /\ query'.first = query.first
    BY <1>0, <2>1, <2>2 DEF Queries
  <2>4. page' \in Pages /\ UntouchedFormShowsData'
    BY <2>1, <2>3, BlankType, SeededShows DEF UntouchedFormShowsData
  <2>5. Types' /\ Versions'
    BY <1>0, <2>1, <2>2, <2>3, <2>4 DEF SettingsInv, Types, Versions
  <2> QED BY <2>1, <2>3, <2>4, <2>5 DEF SettingsInv, SavedIsShown
<1> QED BY <1>1, <1>2, <1>3, <1>5, <1>6, <1>7 DEF User, Texts

\* Every step keeps the invariant.
LEMMA StepKeeps == SettingsInv /\ [Next]_vars => SettingsInv'
<1> SUFFICES ASSUME SettingsInv, [Next]_vars PROVE SettingsInv'
  OBVIOUS
<1>1. ASSUME NEW doc \in OtherDocs, OtherSaves(doc) PROVE SettingsInv'
  <2>1. /\ cm' = [rev |-> cm.rev + 1, state |-> "ok", doc |-> doc] /\ saves' = saves + 1
        /\ UNCHANGED <<puts, query, page, edited, acked, visits, faults>>
    BY <1>1 DEF OtherSaves
  <2>2. /\ cm' \in [rev : Nat, state : {"ok", "absent", "nodata", "garbage"}, doc : Doc]
        /\ cm'.rev = cm.rev + 1 /\ cm.rev \in Nat
    BY <2>1, SettingsConstants DEF SettingsInv, Types
  <2>3. Types'
    BY <2>1, <2>2 DEF SettingsInv, Types
  <2>4. Versions'
    <3>1. \A r \in puts : r.rev \in Nat /\ r.rev <= cm.rev
      BY DEF SettingsInv, Types, Puts, Versions
    <3> QED BY <2>1, <2>2, <3>1 DEF SettingsInv, Types, Versions
  <2> QED BY <2>1, <2>3, <2>4 DEF SettingsInv, SavedIsShown, UntouchedFormShowsData
<1>2. CASE UNCHANGED vars
  BY <1>2 DEF vars, SettingsInv, Types, Versions, SavedIsShown, UntouchedFormShowsData
<1> QED BY <1>1, <1>2, UserKeeps, FetchStepKeeps, FetchedKeeps, HandlerKeeps, AnsweredKeeps
        DEF Next

\* The invariant of the page, the query, the requests and the ConfigMap.
THEOREM SettingsInvariant == Spec => []SettingsInv
BY InitSettingsInv, StepKeeps, PTL DEF Spec
-----------------------------------------------------------------------------
\* UpdateSettings (settings.go) answers "ok" just when it has stored the document,
\* unless the connection is lost, however its requests and other clients interleave.
THEOREM AnswersAreTrue == Spec => []AnswersTellTheTruth
<1>1. SettingsInv => AnswersTellTheTruth
  BY DEF SettingsInv, Truthful, AnswersTellTheTruth
<1> QED BY <1>1, SettingsInvariant, PTL

\* The parts of the page (Settings.tsx) that the user has not changed show the document
\* the query has, unless that is null, whatever fetches, saves and visits there were.
THEOREM UntouchedShowsData == Spec => []UntouchedFormShowsData
BY SettingsInvariant, PTL DEF SettingsInv

\* A save that onSuccess has reported is on the page once the query counts as valid
\* again: once there are data, invalidateQueries never settles for an answer that is
\* older than the save.  Only the data of the very first fetch may lack it.
THEOREM SavedDocumentIsShown == Spec => []SavedIsShown
BY SettingsInvariant, PTL DEF SettingsInv

\* The effect on [settings] throws away unsaved changes only for a document that differs
\* from the last one.
THEOREM EditsOutlastAllPolls == Spec => EditsOutlastPolls
<1>1. SettingsInv /\ [Next]_vars =>
        [edited /= {} /\ edited' = {} =>
           query'.data /= query.data \/ ~ query.loaded \/ visits' /= visits]_vars
  <2> SUFFICES ASSUME SettingsInv, Next, edited /= {}, edited' = {}
               PROVE  query'.data /= query.data \/ ~ query.loaded \/ visits' /= visits
    OBVIOUS
  <2>1. edited' /= edited
    OBVIOUS
  <2>2. CASE Revisit
    BY <2>2 DEF Revisit, SettingsInv, Types
  <2>3. CASE Fetched
    <3>1. CASE query.fetch.stage = "failed"
      BY <2>1, <2>3, <3>1 DEF Fetched
    <3>2. CASE query.fetch.stage = "ok"
      BY <2>1, <2>3, <3>2 DEF Fetched, Seed, SeedPage
    <3> QED BY <2>3, <3>1, <3>2 DEF Fetched
  <2> QED BY <2>1, <2>2, <2>3
          DEF Next, User, EditForm, EditText, SetMode, handleSaveForm, handleSaveJson, Poll,
              ServeGet, GetFails, ReadMap, RefuseBody, WriteMap, PutFails, Answered, OtherSaves
<1> QED BY <1>1, SettingsInvariant, PTL DEF Spec, EditsOutlastPolls
=============================================================================
