------------------------------ MODULE Settings ------------------------------
(***************************************************************************)
(* The settings: the page of the web UI (ui/src/pages/Settings.tsx), its   *)
(* query in the cache of react-query, and the two handlers that read and   *)
(* replace the settings document in a ConfigMap                            *)
(* (operator/server/handler/settings.go), with other clients that save     *)
(* settings of their own.                                                  *)
(*                                                                         *)
(* A document has the two sections the form knows and, or not, other       *)
(* top-level keys.  A section is one value: a field of the form that the   *)
(* document lacks and a section it lacks are both "missing".  The JSON     *)
(* null, which the handler takes for a document, is one of its own kind.   *)
(***************************************************************************)
EXTENDS Naturals, FiniteSets

CONSTANTS
  TypedDocs,   \* what the user may type as JSON
  OtherDocs,   \* what other clients save
  StoredDocs,  \* what may be stored at the start
  MaxSaves,    \* bound: saves by anybody
  MaxUpsets    \* bound: errors of the API server, lost connections, and times
               \* the user leaves the page and comes back

Sections == {"general", "notification"}
Values == {"missing", "default", "typed", "other", "initial"}
Doc == [general : Values, notification : Values, extra : BOOLEAN, null : BOOLEAN]
EmptyDoc == [general |-> "missing", notification |-> "missing", extra |-> FALSE, null |-> FALSE]
NullDoc == [EmptyDoc EXCEPT !.null = TRUE]

ASSUME SettingsConstants ==
  /\ TypedDocs \subseteq Doc /\ OtherDocs \subseteq Doc /\ StoredDocs \subseteq Doc
  /\ \A bound \in {MaxSaves, MaxUpsets} : bound \in Nat

VARIABLES
  cm,      \* the ConfigMap: its version, whether there is a document, and which
  puts,    \* PUT requests in flight
  query,   \* the query 'settings': data, fetch in flight, isInvalidated; its first
           \* is a history: the data are those of the first fetch that succeeded
  page,    \* the mounted page: mode, the sections of the form, jsonText
  edited,  \* what the user has changed since it was last seeded
  mine,    \* the save the page is waiting for (isPending), 0 if none
  acked,   \* history: the latest version that a save of this tab was told of
  saves, visits, faults

moves == <<saves, visits, faults>>
vars == <<cm, puts, query, page, edited, mine, acked, saves, visits, faults>>

\* There may be no ConfigMap, one without data, one whose text is not JSON.
\* Versions count from 1; 0 is the version of a map that does not exist.
ConfigMap(state, docs) ==
  [rev : {IF state = "absent" THEN 0 ELSE 1}, state : {state}, doc : docs]

\* GetSettings: a missing map and a missing key are answered with an empty
\* document, which is what cm.doc then is.
GetSettings == [stage |-> IF cm.state = "garbage" THEN "failed" ELSE "ok",
                doc |-> cm.doc, rev |-> cm.rev]

Fetch(stage) == [stage |-> stage, doc |-> EmptyDoc, rev |-> 0]
-----------------------------------------------------------------------------
(* The page.                                                               *)

\* The effect on [settings]: nothing for null, else jsonText, and a section if the
\* document has it.
Seeded(p, doc) ==
  IF doc.null THEN p
  ELSE [p EXCEPT !.text = doc, !.json = "document",
                 !.general = IF doc.general = "missing" THEN @ ELSE doc.general,
                 !.notification = IF doc.notification = "missing" THEN @ ELSE doc.notification]

Blank == [mode |-> "form", general |-> "default", notification |-> "default",
          text |-> EmptyDoc, json |-> "invalid"]

\* isLoading: the page renders nothing else.
Loading == ~ query.loaded /\ query.fetch.stage /= "idle"

Init ==
  /\ cm \in ConfigMap("ok", StoredDocs) \cup
           UNION {ConfigMap(state, {EmptyDoc}) : state \in {"absent", "nodata", "garbage"}}
  /\ puts = {}
  /\ query = [loaded |-> FALSE, data |-> EmptyDoc, rev |-> 0,
              fetch |-> Fetch("sent"), invalidated |-> FALSE,
              first |-> FALSE]
  /\ page = Blank
  /\ edited = {}
  /\ mine = 0
  /\ acked = 0
  /\ saves = 0 /\ visits = 0 /\ faults = 0

\* The inputs of the form.
EditForm(section) ==
  /\ ~ Loading /\ page.mode = "form"
  /\ page' = [page EXCEPT ![section] = "typed"]
  /\ edited' = edited \cup {section}
  /\ UNCHANGED <<cm, puts, query, mine, acked, moves>>

\* The text area: text that is no JSON, JSON that is neither an object nor null, or
\* a document.
EditText(json, doc) ==
  /\ ~ Loading /\ page.mode = "json"
  /\ page' = [page EXCEPT !.json = json, !.text = IF json = "document" THEN doc ELSE EmptyDoc]
  /\ edited' = edited \cup {"text"}
  /\ UNCHANGED <<cm, puts, query, mine, acked, moves>>

SetMode(mode) ==
  /\ ~ Loading
  /\ page' = [page EXCEPT !.mode = mode]
  /\ UNCHANGED <<cm, puts, query, edited, mine, acked, moves>>

Send(doc, json) ==
  /\ saves < MaxSaves
  /\ saves' = saves + 1
  /\ puts' = puts \cup {[id |-> saves + 1, doc |-> doc, json |-> json, stage |-> "sent", seen |-> 0, rev |-> 0,
                         ok |-> FALSE, lost |-> FALSE, stored |-> FALSE]}

\* handleSaveForm: the two sections, and nothing else of the document.
handleSaveForm ==
  /\ ~ Loading /\ mine = 0 /\ page.mode = "form"
  /\ Send([EmptyDoc EXCEPT !.general = page.general, !.notification = page.notification],
          "document")
  /\ mine' = saves + 1
  /\ UNCHANGED <<cm, query, page, edited, acked, visits, faults>>

\* handleSaveJson: text that does not parse is not sent.
handleSaveJson ==
  /\ ~ Loading /\ mine = 0 /\ page.mode = "json"
  /\ page.json /= "invalid"
  /\ Send(page.text, page.json)
  /\ mine' = saves + 1
  /\ UNCHANGED <<cm, query, page, edited, acked, visits, faults>>

\* The user leaves the page and comes back: the state of the components is
\* gone, the query's data is not, and a save in flight has no observer.  What was
\* never loaded is fetched at once; for data past staleTime that is a Poll.
Revisit ==
  /\ visits + faults < MaxUpsets
  /\ visits' = visits + 1
  /\ page' = IF query.loaded THEN Seeded(Blank, query.data) ELSE Blank
  /\ edited' = {}
  /\ mine' = 0
  /\ query' = [query EXCEPT !.fetch = IF @.stage = "idle" /\ ~ query.loaded THEN Fetch("sent") ELSE @]
  /\ UNCHANGED <<cm, puts, acked, saves, faults>>
-----------------------------------------------------------------------------
(* The query.                                                              *)

\* Mutant: no refetchInterval; only what never loaded is fetched again.
PollUnloadedOnly ==
  /\ query.fetch.stage = "idle" /\ ~ query.loaded
  /\ query' = [query EXCEPT !.fetch = Fetch("sent")]
  /\ UNCHANGED <<cm, puts, page, edited, mine, acked, moves>>

\* refetchInterval.
Poll ==
  /\ query.fetch.stage = "idle"
  /\ query' = [query EXCEPT !.fetch = Fetch("sent")]
  /\ UNCHANGED <<cm, puts, page, edited, mine, acked, moves>>

ServeGet ==
  /\ query.fetch.stage = "sent"
  /\ query' = [query EXCEPT !.fetch = GetSettings]
  /\ UNCHANGED <<cm, puts, page, edited, mine, acked, moves>>

GetFails ==
  /\ query.fetch.stage = "sent"
  /\ visits + faults < MaxUpsets
  /\ query' = [query EXCEPT !.fetch = Fetch("failed")]
  /\ faults' = faults + 1
  /\ UNCHANGED <<cm, puts, page, edited, mine, acked, saves, visits>>

\* The effect runs.
SeedPage(doc) ==
  /\ page' = Seeded(page, doc)
  /\ edited' = IF doc.null THEN edited ELSE {}

\* Mutant: the form follows the first document only.
SeedOnce(answer) ==
  IF ~ query.loaded THEN SeedPage(answer.doc) ELSE UNCHANGED <<page, edited>>

\* Mutant: every fetch seeds the form, also one that brought nothing new.
SeedAlways(answer) == SeedPage(answer.doc)

\* The effect runs when the data changes: an equal document is shared with the
\* old one and is no change.
Seed(answer) ==
  IF ~ query.loaded \/ query.data /= answer.doc
  THEN SeedPage(answer.doc)
  ELSE UNCHANGED <<page, edited>>

\* A fetch ends; a failed one (after its retry) leaves the data as it is.
Fetched ==
  /\ query.fetch.stage \in {"ok", "failed"}
  /\ IF query.fetch.stage = "failed"
     THEN /\ query' = [query EXCEPT !.fetch = Fetch("idle")]
          /\ UNCHANGED <<page, edited>>
     ELSE /\ query' = [loaded |-> TRUE, data |-> query.fetch.doc, rev |-> query.fetch.rev,
                       fetch |-> Fetch("idle"), invalidated |-> FALSE,
                       first |-> ~ query.loaded]
          /\ Seed(query.fetch)
  /\ UNCHANGED <<cm, puts, mine, acked, moves>>

\* Mutant: a fetch in flight is good enough.
invalidateQueriesLazily ==
  query' = [query EXCEPT !.invalidated = TRUE,
                         !.fetch = IF @.stage = "idle" THEN Fetch("sent") ELSE @]

\* invalidateQueries: a fetch in flight is cancelled and another one sent, unless
\* there are no data yet.
invalidateQueries ==
  query' = [query EXCEPT !.invalidated = TRUE,
                         !.fetch = IF query.loaded \/ @.stage = "idle" THEN Fetch("sent") ELSE @]

\* onSuccess and onError of the mutation.
Answered(r) ==
  /\ r.stage = "done"
  /\ puts' = puts \ {r}
  /\ mine' = IF mine = r.id THEN 0 ELSE mine
  /\ IF r.ok /\ ~ r.lost
     THEN /\ invalidateQueries
          /\ acked' = IF r.rev > acked THEN r.rev ELSE acked
     ELSE UNCHANGED <<query, acked>>
  /\ UNCHANGED <<cm, page, edited, moves>>
-----------------------------------------------------------------------------
(* The handler UpdateSettings, and the clients that call it.               *)

Becomes(r, s) == puts' = (puts \ {r}) \cup {s}

\* The Get of UpdateSettings.
ReadMap(r) ==
  /\ r.stage = "sent" /\ r.json = "document"
  /\ Becomes(r, [r EXCEPT !.stage = "read", !.seen = cm.rev])
  /\ UNCHANGED <<cm, query, page, edited, mine, acked, moves>>

Refuse(r) == Becomes(r, [r EXCEPT !.stage = "done", !.seen = 0]) /\ UNCHANGED cm

Accept(r) ==
  /\ cm' = [rev |-> cm.rev + 1, state |-> "ok", doc |-> r.doc]
  /\ Becomes(r, [r EXCEPT !.stage = "done", !.seen = 0, !.ok = TRUE, !.stored = TRUE, !.rev = cm.rev + 1])

\* A body that does not decode into a map is refused (400); null does.
RefuseBody(r) ==
  /\ r.stage = "sent" /\ r.json /= "document"
  /\ Refuse(r)
  /\ UNCHANGED <<query, page, edited, mine, acked, moves>>

\* Mutant: a map that another request has created meanwhile counts as created.
WriteMapTolerant(r) ==
  /\ r.stage = "read"
  /\ CASE r.seen = cm.rev /\ cm.state /= "nodata" -> Accept(r)
       [] r.seen = 0 /\ cm.rev /= 0 -> Becomes(r, [r EXCEPT !.stage = "done", !.ok = TRUE]) /\ UNCHANGED cm
       [] OTHER -> Refuse(r)
  /\ UNCHANGED <<query, page, edited, mine, acked, moves>>

\* Create if the map was absent (refused if it is no longer), Update else
\* (refused if the map has changed); storing into the nil Data of a map without
\* data panics, and the connection is closed.
WriteMap(r) ==
  /\ r.stage = "read"
  /\ IF r.seen = cm.rev /\ cm.state /= "nodata"
     THEN Accept(r)
     ELSE Refuse(r)
  /\ UNCHANGED <<query, page, edited, mine, acked, moves>>

\* The API server fails, or the connection is lost, before or after the write.
PutFails(r) ==
  /\ visits + faults < MaxUpsets
  /\ ~ r.lost
  /\ Becomes(r, [r EXCEPT !.stage = "done", !.lost = TRUE])
  /\ faults' = faults + 1
  /\ UNCHANGED <<cm, query, page, edited, mine, acked, saves, visits>>

\* Another client saves settings.  Of its request only the write shows here, and
\* only if it was neither refused nor late.
OtherSaves(doc) ==
  /\ saves < MaxSaves
  /\ cm.state /= "nodata"
  /\ cm' = [rev |-> cm.rev + 1, state |-> "ok", doc |-> doc]
  /\ saves' = saves + 1
  /\ UNCHANGED <<puts, query, page, edited, mine, acked, visits, faults>>

User ==
  \/ \E section \in Sections : EditForm(section)
  \/ \E json \in {"invalid", "scalar", "document"}, doc \in TypedDocs : EditText(json, doc)
  \/ \E mode \in {"form", "json"} : SetMode(mode)
  \/ handleSaveForm \/ handleSaveJson \/ Revisit

Next ==
  \/ User
  \/ Poll \/ ServeGet \/ GetFails \/ Fetched
  \/ \E r \in puts : ReadMap(r) \/ RefuseBody(r) \/ WriteMap(r) \/ PutFails(r) \/ Answered(r)
  \/ \E doc \in OtherDocs : OtherSaves(doc)

Fairness == WF_vars(Poll) /\ WF_vars(ServeGet) /\ WF_vars(Fetched)

Spec == Init /\ [][Next]_vars /\ Fairness
-----------------------------------------------------------------------------
\* The answer to a save tells the truth: "ok" means the document was stored, an
\* error that it was not, unless the connection was lost.
AnswersTellTheTruth ==
  \A r \in puts : r.stage = "done" /\ ~ r.lost => (r.ok <=> r.stored)

\* What the user has not changed shows the document of the query (line 50 of
\* Settings.tsx has the form seeded "on initial load" only).  The exception is a
\* stored null, which the guard of the effect skips: the page goes on showing what
\* it showed before, until the next document that is not null.
UntouchedFormShowsData ==
  query.loaded /\ ~ query.data.null =>
    /\ "text" \notin edited => page.text = query.data
    /\ \A section \in Sections \ edited :
         query.data[section] /= "missing" => page[section] = query.data[section]

\* A save that was acknowledged is on the page as soon as the query counts as
\* valid again, although fetches may have been on their way when it was saved.  The
\* exception is the first fetch: invalidateQueries does not cancel it while there
\* are no data, so its answer may be older than a save acknowledged before it came
\* and yet counts as valid, until the next fetch.
SavedIsShown ==
  query.loaded /\ ~ query.invalidated => query.rev >= acked \/ query.first

\* Unsaved changes are lost only when a fetch brings a document that differs
\* from the last one, or when the user leaves the page.
EditsOutlastPolls ==
  [][edited /= {} /\ edited' = {} => query'.data /= query.data \/ ~ query.loaded \/ visits' /= visits]_vars

\* In the end the page shows what is stored.
EventuallyShowsStored ==
  <>[](cm.state /= "garbage" => query.loaded /\ query.data = cm.doc)
=============================================================================
