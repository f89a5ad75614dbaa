--------------------------- MODULE ConsoleProofs ---------------------------
(***************************************************************************)
(* Proofs about the pages of the web UI behind the login: the policies     *)
(* page, for all names, namespaces and specifications, the dashboard and   *)
(* the results, for all results of scans, and any number of inputs,        *)
(* requests, reports and failures.                                         *)
(***************************************************************************)
EXTENDS Console, FiniteSetTheorems, WellFoundedInduction, TLAPS

RequestFields == {"id", "kind", "key", "spec", "stage", "rev", "orphan"}
QueryFields ==
  {"loaded", "data", "rev", "invalidated", "stage", "answer", "answerRev", "first"}
FormFields == Fields \cup {"open", "boxes", "typed", "left"}
PolicyFields == {"key", "spec", "deleting"}
Observers == {"form", "list", "detail", "delete"}

\* The requests and who waits for them: each has a number of its own, and nobody
\* waits for one whose form is gone.
RequestInv ==
  /\ counts \in [edits : Nat, sent : Nat, upsets : Nat]
  /\ DOMAIN busy = Observers /\ busy.form \in Nat
  /\ \A r \in requests : DOMAIN r = RequestFields /\ r.id \in Nat \ {0} /\ r.id <= counts.sent
  /\ \A r, s \in requests : r.id = s.id => r = s
  /\ \A r \in requests : r.orphan => r.id /= busy.form
  /\ OneSubmissionPerForm

\* The list and its versions: this page knows of no change that was not made, and a
\* fetch that was answered, unless it is the first one, was answered with the last
\* acknowledged change.
ListInv ==
  /\ rev \in Nat /\ acked \in Nat /\ acked <= rev
  /\ DOMAIN query = QueryFields /\ query.rev \in Nat /\ query.answerRev \in Nat
  /\ \A r \in requests : r.rev \in Nat /\ r.rev <= rev
  /\ query.loaded /\ query.stage = "ok" => query.answerRev >= acked
  /\ AcknowledgedIsListed

\* A policy as the API server returns it.
IsPolicy(p) == DOMAIN p = PolicyFields /\ p.key \in Keys

\* The policies on their way and in the views have names and namespaces; a detail
\* view comes from a list that was loaded.
PolicyInv ==
  /\ \A p \in stored \cup query.data \cup query.answer : IsPolicy(p)
  /\ \A r \in requests : r.key \in Keys
  /\ target = None \/ target \in Keys
  /\ selected = None \/ (IsPolicy(selected) /\ query.loaded)
  /\ query.loaded \/ query.data = {}

\* The fields of the form: the name and the namespace of an existing policy are
\* never typed, no form leaves anything behind for its edit form, and a form that is
\* closed holds nothing but what is left behind.
FormInv ==
  /\ DOMAIN form = FormFields
  /\ form.name \in Names \cup {""} /\ form.namespace \in Namespaces \cup {""}
  /\ selected /= None => form.typed \cap {"name", "namespace"} = {} /\ form.left = {}
  /\ ~ form.open => form.typed \subseteq form.left
  /\ UntouchedFieldsAreShown
-----------------------------------------------------------------------------
\* No request is in flight.
LEMMA InitRequestInv == Init => RequestInv
BY DEF Init, RequestInv, Unwatched, Observers, OneSubmissionPerForm

\* A step that only counts.
LEMMA CountKeepsRequests ==
  ASSUME RequestInv, UNCHANGED <<requests, busy>>,
         UNCHANGED counts \/ (\E bound : Count("edits", bound) \/ Count("upsets", bound))
  PROVE  RequestInv'
<1>1. counts' \in [edits : Nat, sent : Nat, upsets : Nat] /\ counts'.sent = counts.sent
  BY DEF RequestInv, Count
<1> QED BY <1>1 DEF RequestInv, OneSubmissionPerForm

\* A mutation is sent.
LEMMA SendKeepsRequests ==
  ASSUME RequestInv, NEW kind, NEW observer \in Observers, NEW key, NEW sp,
         Send(kind, observer, key, sp),
         IF observer = "form" THEN busy.form = 0 ELSE kind \notin {"create", "update"}
  PROVE  RequestInv'
<1> DEFINE r == [id |-> counts.sent + 1, kind |-> kind, key |-> key, spec |-> sp,
                 stage |-> "sent", rev |-> 0, orphan |-> FALSE]
<1>1. requests' = requests \cup {r} /\ busy' = [busy EXCEPT ![observer] = counts.sent + 1]
  BY DEF Send
<1>2. /\ counts' \in [edits : Nat, sent : Nat, upsets : Nat]
      /\ counts'.sent = counts.sent + 1 /\ counts.sent \in Nat
  BY DEF RequestInv, Send, Count
<1>3. DOMAIN r = RequestFields /\ r.id = counts.sent + 1 /\ r.kind = kind /\ ~ r.orphan
  BY DEF RequestFields
<1> HIDE DEF r
<1>4. /\ DOMAIN busy' = Observers /\ busy'.form \in Nat
      /\ busy'.form = IF observer = "form" THEN counts.sent + 1 ELSE busy.form
  BY <1>1, <1>2 DEF RequestInv, Observers
<1>5. \A s \in requests : s.id \in Nat \ {0} /\ s.id <= counts.sent /\ s.id /= r.id
  BY <1>2, <1>3 DEF RequestInv
<1>6. \A s \in requests' : DOMAIN s = RequestFields /\ s.id \in Nat \ {0} /\ s.id <= counts'.sent
  BY <1>1, <1>2, <1>3, <1>5 DEF RequestInv
<1>7. \A s, t \in requests' : s.id = t.id => s = t
  BY <1>1, <1>5 DEF RequestInv
<1>8. OneSubmissionPerForm'
  BY <1>1, <1>3, <1>4, <1>5 DEF RequestInv, OneSubmissionPerForm
<1>9. \A s \in requests' : s.orphan => s.id /= busy'.form
  BY <1>1, <1>3, <1>4, <1>5 DEF RequestInv
<1> QED BY <1>2, <1>4, <1>6, <1>7, <1>8, <1>9 DEF RequestInv

\* What a form that is unmounted leaves of its request.
LEMMA OrphanedRequests ==
  ASSUME RequestInv, NEW rs \in SUBSET requests
  PROVE  \A s \in Orphaned(rs) : \E r \in rs :
           /\ DOMAIN s = RequestFields /\ s.id = r.id /\ s.kind = r.kind /\ s.rev = r.rev
           /\ s.key = r.key /\ s.orphan = (r.orphan \/ r.id = busy.form)
           /\ s = [r EXCEPT !.orphan = r.orphan \/ r.id = busy.form]
BY DEF RequestInv, Orphaned, RequestFields

\* The form is unmounted, or stays.
LEMMA UnmountKeepsRequests ==
  ASSUME RequestInv, NEW rs \in SUBSET requests, UNCHANGED counts,
         requests' = Orphaned(rs), DOMAIN busy' = Observers, busy'.form = 0
  PROVE  RequestInv'
<1>1. \A s \in requests' : \E r \in rs :
           /\ DOMAIN s = RequestFields /\ s.id = r.id /\ s.kind = r.kind
           /\ s.orphan = (r.orphan \/ r.id = busy.form)
           /\ s = [r EXCEPT !.orphan = r.orphan \/ r.id = busy.form]
  BY OrphanedRequests
<1>2. \A s \in requests' : DOMAIN s = RequestFields /\ s.id \in Nat \ {0} /\ s.id <= counts.sent
  BY <1>1 DEF RequestInv
<1>3. \A s, t \in requests' : s.id = t.id => s = t
  BY <1>1 DEF RequestInv
<1>4. OneSubmissionPerForm'
  <2>1. \A r \in rs : r.kind \in {"create", "update"} => r.orphan \/ r.id = busy.form
    BY DEF RequestInv, OneSubmissionPerForm
  <2>2. \A s \in requests' : s.kind \in {"create", "update"} => s.orphan
    BY <1>1, <2>1
  <2> QED BY <2>2 DEF OneSubmissionPerForm
<1> QED BY <1>2, <1>3, <1>4 DEF RequestInv

\* The server takes a step with one request.
LEMMA ServeKeepsRequests ==
  ASSUME RequestInv, NEW r \in requests, NEW s, Becomes(r, s), UNCHANGED busy,
         DOMAIN s = RequestFields, s.id = r.id, s.kind = r.kind, s.orphan = r.orphan,
         counts' \in [edits : Nat, sent : Nat, upsets : Nat], counts'.sent = counts.sent
  PROVE  RequestInv'
<1>1. requests' = (requests \ {r}) \cup {s}
  BY DEF Becomes
<1>2. \A t \in requests' :
        DOMAIN t = RequestFields /\ t.id \in Nat \ {0} /\ t.id <= counts'.sent
  BY <1>1 DEF RequestInv
<1>3. \A t, u \in requests' : t.id = u.id => t = u
  BY <1>1 DEF RequestInv
<1>4. OneSubmissionPerForm'
  BY <1>1 DEF RequestInv, OneSubmissionPerForm
<1>5. \A t \in requests' : t.orphan => t.id /= busy'.form
  BY <1>1 DEF RequestInv
<1> QED BY <1>2, <1>3, <1>4, <1>5 DEF RequestInv

\* A request is answered: whoever waited for it waits no longer.
LEMMA AnswerKeepsRequests ==
  ASSUME RequestInv, NEW r \in requests, Answer(r)
  PROVE  RequestInv'
<1> DEFINE b == [observer \in DOMAIN busy |->
                   IF busy[observer] = r.id THEN 0 ELSE busy[observer]]
<1>1. PICK q : Rendered(q, Closed(r), b, requests \ {r})
  BY DEF Answer
<1>2. counts' = counts
  BY DEF Answer
<1>3. DOMAIN b = Observers /\ b.form = IF busy.form = r.id THEN 0 ELSE busy.form
  BY DEF RequestInv, Observers
<1> HIDE DEF b
<1>4. CASE Loading(q)
  <2>1. requests' = Orphaned(requests \ {r}) /\ busy' = [b EXCEPT !.form = 0]
    BY <1>1, <1>4 DEF Rendered
  <2>2. DOMAIN busy' = Observers /\ busy'.form = 0
    BY <1>3, <2>1 DEF Observers
  <2> QED BY <1>2, <2>1, <2>2, UnmountKeepsRequests
<1>5. CASE ~ Loading(q)
  <2>1. requests' = requests \ {r} /\ busy' = b
    BY <1>1, <1>5 DEF Rendered
  <2>2. \A s \in requests' : s \in requests /\ s.id /= r.id
    BY <2>1 DEF RequestInv
  <2>3. busy'.form \in Nat
    BY <1>3, <2>1 DEF RequestInv
  <2>4. OneSubmissionPerForm'
    BY <1>3, <2>1, <2>2 DEF RequestInv, OneSubmissionPerForm
  <2> QED BY <1>2, <1>3, <2>1, <2>2, <2>3, <2>4 DEF RequestInv
<1> QED BY <1>4, <1>5

\* The fetch of the interval may find the page without data.
LEMMA PollKeepsRequests ==
  ASSUME RequestInv, Poll
  PROVE  RequestInv'
<1> DEFINE q == [query EXCEPT !.stage = "sent"]
<1>1. Rendered(q, form, busy, requests) /\ counts' = counts
  BY DEF Poll
<1> HIDE DEF q
<1>2. CASE Loading(q)
  <2>1. requests' = Orphaned(requests) /\ busy' = [busy EXCEPT !.form = 0]
    BY <1>1, <1>2 DEF Rendered
  <2>2. DOMAIN busy' = Observers /\ busy'.form = 0
    BY <2>1 DEF RequestInv, Observers
  <2> QED BY <1>1, <2>1, <2>2, UnmountKeepsRequests
<1>3. CASE ~ Loading(q)
  BY <1>1, <1>3, CountKeepsRequests DEF Rendered
<1> QED BY <1>2, <1>3
-----------------------------------------------------------------------------
(* The steps of Next, in the groups that the three invariants tell apart.  *)

\* An input in the form, whichever field it is for.
Edit ==
  \/ \E name \in Names : EditName(name)
  \/ EditText("config", "typed") \/ EditText("rescan", "typed") \/ EditText("rescan", "")
  \/ EditChecks \/ ChooseTargets
  \/ \E which \in {"namespace", "targets"} : UseBox(which)
  \/ \E namespace \in Namespaces : ChooseNamespace(namespace)

\* An input changes the form and is counted.
LEMMA EditIsEditedTo == Edit => \E new : EditedTo(new)
<1>1. ASSUME EditChecks PROVE \E new : EditedTo(new)
  BY <1>1 DEF EditChecks
<1>2. ASSUME ChooseTargets PROVE \E new : EditedTo(new)
  BY <1>2 DEF ChooseTargets
<1>3. ASSUME NEW which, UseBox(which) PROVE \E new : EditedTo(new)
  BY <1>3 DEF UseBox
<1> QED BY <1>1, <1>2, <1>3 DEF Edit, EditName, EditText, ChooseNamespace

\* Steps of the user that change only what is shown.
Look ==
  \/ OpenCreate \/ OpenEdit \/ CancelDelete \/ handleClose
  \/ \E p \in query.data : AskDelete(p.key)

\* The view is changed, and its form with it.
Leave == Back \/ \E p \in query.data : Select(p)

\* A mutation is started.
Start ==
  \/ ConfirmDelete \/ handleSubmit
  \/ \E p \in query.data : RunNow("list", p.key)
  \/ Detailed /\ RunNow("detail", selected.key)

\* These are all steps of the user.
LEMMA UserSteps == User => Edit \/ Look \/ Leave \/ Start
BY DEF User, Edit, Look, Leave, Start

\* Every mutation has its observer, and a form has one at a time.
LEMMA StartSends ==
  ASSUME Start
  PROVE  \E kind, key, sp : \E observer \in Observers :
           /\ Send(kind, observer, key, sp)
           /\ IF observer = "form" THEN busy.form = 0 ELSE kind \notin {"create", "update"}
BY DEF Start, ConfirmDelete, handleSubmit, RunNow, Observers

\* The API server's steps with a request change its stage, and its version.
LEMMA ServedRequest ==
  ASSUME RequestInv, NEW r \in requests, Serve(r) \/ ServeFails(r) \/ AnswerLost(r)
  PROVE  \E s : /\ Becomes(r, s) /\ DOMAIN s = RequestFields
                /\ s.id = r.id /\ s.kind = r.kind /\ s.orphan = r.orphan /\ s.key = r.key
                /\ s.spec = r.spec
                /\ s.rev = r.rev \/ s.rev = 0 \/ s.rev = rev'
                /\ UNCHANGED <<query, view, busy, acked>>
                /\ counts' \in [edits : Nat, sent : Nat, upsets : Nat]
                /\ counts'.sent = counts.sent
<1>1. DOMAIN r = RequestFields
  BY DEF RequestInv
<1>2. /\ UNCHANGED <<query, view, busy, acked>>
      /\ counts' \in [edits : Nat, sent : Nat, upsets : Nat]
      /\ counts'.sent = counts.sent
  BY DEF Serve, ServeFails, AnswerLost, Server, view, RequestInv, Count
<1>3. ASSUME Serve(r)
      PROVE  Becomes(r, [r EXCEPT !.stage = "ok", !.rev = rev'])
  BY <1>3 DEF Serve
<1>4. ASSUME ServeFails(r)
      PROVE  Becomes(r, [r EXCEPT !.stage = "error"])
  BY <1>4 DEF ServeFails
<1>5. ASSUME AnswerLost(r)
      PROVE  Becomes(r, [r EXCEPT !.stage = "error", !.rev = 0])
  BY <1>5 DEF AnswerLost
<1>6. \A s \in {[r EXCEPT !.stage = "ok", !.rev = rev'], [r EXCEPT !.stage = "error"],
               [r EXCEPT !.stage = "error", !.rev = 0]} :
        /\ DOMAIN s = RequestFields
        /\ s.id = r.id /\ s.kind = r.kind /\ s.orphan = r.orphan /\ s.key = r.key
        /\ s.spec = r.spec
        /\ s.rev = r.rev \/ s.rev = 0 \/ s.rev = rev'
  BY <1>1 DEF RequestFields
<1> QED BY <1>2, <1>3, <1>4, <1>5, <1>6

\* Every step keeps the invariant of the requests.
LEMMA RequestStep == RequestInv /\ [Next]_vars => RequestInv'
<1> SUFFICES ASSUME RequestInv, [Next]_vars PROVE RequestInv'
  OBVIOUS
<1>1. CASE Edit
  BY <1>1, EditIsEditedTo, CountKeepsRequests DEF EditedTo, Page
<1>2. CASE Look
  BY <1>2, CountKeepsRequests
     DEF Look, OpenCreate, OpenEdit, CancelDelete, handleClose, AskDelete, Page
<1>3. CASE Leave
  <2>1. requests' = Orphaned(requests) /\ counts' = counts
    BY <1>3 DEF Leave, Back, Select
  <2>2. DOMAIN busy' = Observers /\ busy'.form = 0
    BY <1>3 DEF Leave, Back, Select, RequestInv, Observers
  <2> QED BY <2>1, <2>2, UnmountKeepsRequests
<1>4. CASE Start
  BY <1>4, StartSends, SendKeepsRequests
<1>5. CASE Poll
  BY <1>5, PollKeepsRequests
<1>6. CASE ListPolicies \/ ListFails \/ Fetched
  BY <1>6, CountKeepsRequests DEF ListPolicies, ListFails, Fetched, Client
<1>7. CASE \E r \in requests : Serve(r) \/ ServeFails(r) \/ AnswerLost(r)
  BY <1>7, ServedRequest, ServeKeepsRequests
<1>8. CASE \E r \in requests : Answer(r)
  BY <1>8, AnswerKeepsRequests
<1>9. CASE Others \/ \E key \in Keys : Finalized(key)
  BY <1>9, CountKeepsRequests DEF Others, Other, Finalized, Server
<1>10. CASE UNCHANGED vars
  BY <1>10, CountKeepsRequests DEF vars
<1> QED
  BY <1>1, <1>2, <1>3, <1>4, <1>5, <1>6, <1>7, <1>8, <1>9, <1>10, UserSteps DEF Next

\* Every request has a number of its own, which no observer confuses: the inductive
\* invariant of the mutations of the page.
THEOREM RequestInvariant == Spec => []RequestInv
BY InitRequestInv, RequestStep, PTL DEF Spec

\* A form has at most one submission in flight (the button is disabled while its
\* mutation is pending, Policies.tsx), also after it was closed and opened again,
\* however many requests, answers and failures there are.
THEOREM OneSubmissionPerFormHolds == Spec => []OneSubmissionPerForm
<1>1. RequestInv => OneSubmissionPerForm
  BY DEF RequestInv
<1> QED BY <1>1, RequestInvariant, PTL
-----------------------------------------------------------------------------
(* The list.                                                               *)


\* Nothing is listed, nothing acknowledged.
LEMMA InitListInv == Init => ListInv
BY DEF Init, ListInv, QueryFields, AcknowledgedIsListed

\* A step that leaves the list alone and makes no request newer.
LEMMA QuietKeepsList ==
  ASSUME ListInv, UNCHANGED <<rev, query, acked>>,
         \A s \in requests' : s.rev = 0 \/ \E r \in requests : s.rev = r.rev
  PROVE  ListInv'
BY DEF ListInv, AcknowledgedIsListed

\* The versions of the requests are those of before when the form is unmounted.
LEMMA OrphanedVersions ==
  ASSUME RequestInv, NEW rs \in SUBSET requests
  PROVE  \A s \in Orphaned(rs) : \E r \in requests : s.rev = r.rev
BY OrphanedRequests

\* What is rendered, with or without the form.
LEMMA RenderedVersions ==
  ASSUME RequestInv, NEW rs \in SUBSET requests, NEW q, NEW f, NEW b, Rendered(q, f, b, rs)
  PROVE  query' = q /\ \A s \in requests' : \E r \in requests : s.rev = r.rev
BY OrphanedVersions DEF Rendered

\* The steps of the fetches.
LEMMA FetchKeepsList ==
  ASSUME RequestInv, ListInv, Poll \/ ListPolicies \/ ListFails \/ Fetched
  PROVE  ListInv'
<1>1. rev' = rev /\ acked' = acked
  BY DEF Poll, ListPolicies, ListFails, Fetched, Client
<1>2. \A s \in requests' : \E r \in requests : s.rev = r.rev
  BY RenderedVersions DEF Poll, ListPolicies, ListFails, Fetched, Client
<1>3. query' = [query EXCEPT !.stage = "sent"] => ListInv'
  BY <1>1, <1>2 DEF ListInv, AcknowledgedIsListed, QueryFields
<1>4. query' = [query EXCEPT !.stage = "ok", !.answer = stored, !.answerRev = rev] => ListInv'
  BY <1>1, <1>2 DEF ListInv, AcknowledgedIsListed, QueryFields
<1>5. query' = Settled(query) => ListInv'
  BY <1>1, <1>2 DEF ListInv, AcknowledgedIsListed, QueryFields, Settled
<1>6. CASE Fetched
  <2>1. /\ DOMAIN query' = QueryFields /\ query'.rev = query.answerRev
        /\ query'.answerRev = 0 /\ query'.stage = "idle" /\ query'.first = ~ query.loaded
    BY <1>6 DEF Fetched, Settled, ListInv, QueryFields
  <2>2. query.answerRev >= acked \/ query'.first
    BY <1>6, <2>1 DEF Fetched, ListInv
  <2> QED BY <1>1, <1>2, <2>1, <2>2 DEF ListInv, AcknowledgedIsListed
<1> QED
  BY <1>3, <1>4, <1>5, <1>6, RenderedVersions DEF Poll, ListPolicies, ListFails

\* An acknowledged change makes the list invalid, and a fetch of before is not
\* waited for if there is a list.
LEMMA AnswerKeepsList ==
  ASSUME RequestInv, ListInv, NEW r \in requests, Answer(r)
  PROVE  ListInv'
<1>1. /\ rev' = rev
      /\ acked' = IF r.stage = "ok" /\ r.rev > acked THEN r.rev ELSE acked
  BY DEF Answer
<1>2. query' = IF r.stage = "ok" THEN invalidated(query) ELSE query
  BY RenderedVersions DEF Answer
<1>3. \A s \in requests' : \E t \in requests : s.rev = t.rev
  BY RenderedVersions DEF Answer
<1>4. acked' \in Nat /\ acked' <= rev
  BY <1>1 DEF ListInv
<1>5. \A s \in requests' : s.rev \in Nat /\ s.rev <= rev'
  BY <1>1, <1>3 DEF ListInv
<1>6. CASE r.stage = "ok" /\ (query.loaded \/ query.stage = "idle")
  <2>1. /\ DOMAIN query' = QueryFields /\ query'.rev = query.rev /\ query'.answerRev = 0
        /\ query'.invalidated = TRUE /\ query'.stage = "sent"
    BY <1>2, <1>6 DEF invalidated, Settled, ListInv, QueryFields
  <2> QED BY <1>1, <1>4, <1>5, <2>1 DEF ListInv, AcknowledgedIsListed
<1>7. CASE r.stage = "ok" /\ ~ (query.loaded \/ query.stage = "idle")
  <2>1. /\ DOMAIN query' = QueryFields /\ query'.rev = query.rev
        /\ query'.answerRev = query.answerRev
        /\ query'.invalidated = TRUE /\ query'.loaded = query.loaded
    BY <1>2, <1>7 DEF invalidated, ListInv, QueryFields
  <2> QED BY <1>1, <1>4, <1>5, <1>7, <2>1 DEF ListInv, AcknowledgedIsListed
<1>8. CASE r.stage /= "ok"
  BY <1>1, <1>2, <1>5, <1>8 DEF ListInv, AcknowledgedIsListed
<1> QED BY <1>6, <1>7, <1>8

\* Every step keeps the invariant of the list.
LEMMA ListStep == RequestInv /\ ListInv /\ [Next]_vars => ListInv'
<1> SUFFICES ASSUME RequestInv, ListInv, [Next]_vars PROVE ListInv'
  OBVIOUS
<1>1. CASE Edit
  BY <1>1, EditIsEditedTo, QuietKeepsList DEF EditedTo, Page
<1>2. CASE Look
  BY <1>2, QuietKeepsList
     DEF Look, OpenCreate, OpenEdit, CancelDelete, handleClose, AskDelete, Page
<1>3. CASE Leave
  BY <1>3, OrphanedVersions, QuietKeepsList DEF Leave, Back, Select
<1>4. CASE Start
  BY <1>4, StartSends, QuietKeepsList DEF Send
<1>5. CASE Poll \/ ListPolicies \/ ListFails \/ Fetched
  BY <1>5, FetchKeepsList
<1>6. CASE \E r \in requests : Serve(r) \/ ServeFails(r) \/ AnswerLost(r)
  <2>1. PICK r \in requests : Serve(r) \/ ServeFails(r) \/ AnswerLost(r)
    BY <1>6
  <2>2. PICK s : /\ Becomes(r, s)
                 /\ s.rev = r.rev \/ s.rev = 0 \/ s.rev = rev'
                 /\ UNCHANGED <<query, acked>>
    BY <2>1, ServedRequest
  <2>3. rev' = rev \/ rev' = rev + 1
    BY <2>1 DEF Serve, ServeFails, AnswerLost
  <2>4. rev' \in Nat /\ rev <= rev'
    BY <2>3 DEF ListInv
  <2>5. \A t \in requests : t.rev \in Nat /\ t.rev <= rev'
    BY <2>4 DEF ListInv
  <2>6. s.rev \in Nat /\ s.rev <= rev'
    BY <2>2, <2>4, <2>5
  <2>7. \A t \in requests' : t.rev \in Nat /\ t.rev <= rev'
    BY <2>2, <2>5, <2>6 DEF Becomes
  <2> QED BY <2>2, <2>4, <2>7 DEF ListInv, AcknowledgedIsListed
<1>7. CASE \E r \in requests : Answer(r)
  BY <1>7, AnswerKeepsList
<1>8. CASE Others \/ \E key \in Keys : Finalized(key)
  BY <1>8, QuietKeepsList DEF Others, Other, Finalized, Server
<1>9. CASE UNCHANGED vars
  BY <1>9, QuietKeepsList DEF vars
<1> QED
  BY <1>1, <1>2, <1>3, <1>4, <1>5, <1>6, <1>7, <1>8, <1>9, UserSteps DEF Next

\* The versions of the list and of the requests: the inductive invariant of the
\* query 'policies', together with that of the requests.
THEOREM ListInvariant == Spec => []ListInv
<1>1. Init => RequestInv /\ ListInv
  BY InitRequestInv, InitListInv
<1>2. RequestInv /\ ListInv /\ [Next]_vars => RequestInv' /\ ListInv'
  BY RequestStep, ListStep
<1> QED BY <1>1, <1>2, PTL DEF Spec

\* A change that was acknowledged to the page is in the list as soon as the query
\* counts as valid again (invalidateQueries in onSuccess, Policies.tsx), for any
\* number of changes, fetches, errors and lost answers, unless the list is that of
\* the first fetch that succeeded, which no change cancels.
THEOREM AcknowledgedChangesAreListed == Spec => []AcknowledgedIsListed
<1>1. ListInv => AcknowledgedIsListed
  BY DEF ListInv
<1> QED BY <1>1, ListInvariant, PTL
-----------------------------------------------------------------------------
(* The policies and their keys.                                            *)

\* A key is a name and a namespace, and any of these make one.
LEMMA KeyParts ==
  /\ \A key \in Keys : key.name \in Names /\ key.namespace \in Namespaces
  /\ \A name \in Names, namespace \in Namespaces :
       [name |-> name, namespace |-> namespace] \in Keys
  /\ "" \notin Names /\ "" \notin Namespaces /\ defaultNs \in Namespaces
<1>1. Keys = [name : Names, namespace : Namespaces]
  BY PoliciesConstants
<1>2. "" \notin Names \cup Namespaces /\ defaultNs \in Namespaces
  BY PoliciesConstants
<1> QED BY <1>1, <1>2

\* No policy is None.
LEMMA NoneIsNoPolicy == \A p : IsPolicy(p) => p /= None
<1>1. DOMAIN None = {"key"}
  BY DEF None
<1> QED BY <1>1 DEF IsPolicy, PolicyFields

\* The policies of the cluster are policies.
LEMMA InitPolicyInv == Init => PolicyInv
<1>1. \A p \in Stored : IsPolicy(p)
  BY PoliciesConstants DEF IsPolicy, PolicyFields
<1> QED BY <1>1 DEF Init, PolicyInv

\* The form of an existing policy keeps its namespace.
LEMMA EditedNamespace ==
  ASSUME PolicyInv, FormInv, selected /= None, form.open
  PROVE  form.namespace = selected.key.namespace /\ form.namespace /= ""
<1>1. "namespace" \in Fields \ (form.typed \cup form.left)
  BY DEF FormInv, Fields
<1>2. form.namespace = Base("namespace")
  BY <1>1 DEF FormInv, UntouchedFieldsAreShown
<1>3. form.namespace = selected.key.namespace
  BY <1>2 DEF Base
<1> QED BY <1>3, KeyParts DEF PolicyInv, IsPolicy

\* A policy that can be submitted has a name, and a namespace.
LEMMA SubmitKeyIsKey ==
  ASSUME PolicyInv, FormInv, form.open, CanSubmit(form)
  PROVE  SubmitKey \in Keys
<1>1. form.name \in Names
  BY DEF FormInv, CanSubmit
<1>2. (IF selected = None /\ form.namespace = "" THEN defaultNs ELSE form.namespace) \in Namespaces
  BY EditedNamespace, KeyParts DEF FormInv
<1> QED BY <1>1, <1>2, KeyParts DEF SubmitKey

\* Requests keep their keys when their form is unmounted.
LEMMA OrphanedKeys ==
  ASSUME RequestInv, PolicyInv, NEW rs \in SUBSET requests
  PROVE  \A s \in Orphaned(rs) : s.key \in Keys
BY OrphanedRequests DEF PolicyInv

\* Mutations are sent for policies.
LEMMA StartKeepsPolicies ==
  ASSUME PolicyInv, FormInv, Start
  PROVE  PolicyInv'
<1>1. PICK kind, observer, key, sp : Send(kind, observer, key, sp) /\ key \in Keys
  <2>1. CASE ConfirmDelete
    BY <2>1 DEF ConfirmDelete, PolicyInv
  <2>2. CASE handleSubmit
    BY <2>2, SubmitKeyIsKey DEF handleSubmit, Editable
  <2>3. CASE \E p \in query.data : RunNow("list", p.key)
    BY <2>3 DEF RunNow, PolicyInv, IsPolicy
  <2>4. CASE Detailed /\ RunNow("detail", selected.key)
    BY <2>4 DEF RunNow, Detailed, PolicyInv, IsPolicy
  <2> QED BY <2>1, <2>2, <2>3, <2>4 DEF Start
<1>2. \A s \in requests' : s.key \in Keys
  BY <1>1 DEF Send, PolicyInv
<1>3. stored' = stored /\ query' = query
  BY <1>1 DEF Send
<1>4. selected' = selected /\ (target' = target \/ target' = None)
  BY DEF Start, ConfirmDelete, handleSubmit, RunNow, view
<1> QED BY <1>2, <1>3, <1>4 DEF PolicyInv

\* What the API server stores are policies.
LEMMA ServeKeepsPolicies ==
  ASSUME RequestInv, PolicyInv, NEW r \in requests,
         Serve(r) \/ ServeFails(r) \/ AnswerLost(r)
  PROVE  PolicyInv'
<1>1. PICK s : Becomes(r, s) /\ s.key = r.key /\ UNCHANGED <<query, view>>
  BY ServedRequest
<1>2. \A t \in requests' : t.key \in Keys
  BY <1>1 DEF Becomes, PolicyInv
<1>3. query' = query /\ selected' = selected /\ target' = target
  BY <1>1 DEF view
<1>4. \A p \in stored' : IsPolicy(p)
  <2>1. CASE stored' = stored
    BY <2>1 DEF PolicyInv
  <2>2. CASE stored' /= stored /\ r.kind = "create"
    <3>1. stored' = stored \cup {Policy(r.key, r.spec)}
      BY <2>2 DEF Serve, ServeFails, AnswerLost
    <3>2. IsPolicy(Policy(r.key, r.spec))
      BY DEF IsPolicy, Policy, PolicyFields, PolicyInv
    <3> QED BY <3>1, <3>2 DEF PolicyInv
  <2>3. CASE stored' /= stored /\ r.kind /= "create"
    <3>1. Serve(r)
      BY <2>3 DEF ServeFails, AnswerLost
    <3>2. Exists(r.key)
      BY <2>3, <3>1 DEF Serve
    <3>3. Lookup(r.key) \in stored /\ Lookup(r.key).key = r.key
      BY <3>2 DEF Exists, Lookup
    <3>4. DOMAIN Lookup(r.key) = PolicyFields /\ r.key \in Keys
      BY <3>3 DEF PolicyInv, IsPolicy
    <3>5. /\ IsPolicy([Lookup(r.key) EXCEPT !.spec = r.spec])
          /\ IsPolicy([Lookup(r.key) EXCEPT !.deleting = TRUE])
      BY <3>3, <3>4 DEF IsPolicy, PolicyFields
    <3>6. \/ stored' = Replace(r.key, {[Lookup(r.key) EXCEPT !.spec = r.spec]})
          \/ stored' = Replace(r.key, {[Lookup(r.key) EXCEPT !.deleting = TRUE]})
      BY <2>3, <3>1 DEF Serve
    <3> QED BY <3>5, <3>6 DEF Replace, PolicyInv
  <2> QED BY <2>1, <2>2, <2>3
<1> QED BY <1>2, <1>3, <1>4 DEF PolicyInv

\* The remaining steps move policies between the lists and the views.
LEMMA PolicyStep ==
  RequestInv /\ ListInv /\ PolicyInv /\ FormInv /\ [Next]_vars => PolicyInv'
<1> SUFFICES ASSUME RequestInv, ListInv, PolicyInv, FormInv, [Next]_vars PROVE PolicyInv'
  OBVIOUS
<1>1. CASE Edit
  <2>1. PICK new : EditedTo(new)
    BY <1>1, EditIsEditedTo
  <2> QED BY <2>1 DEF EditedTo, Page, PolicyInv
<1>2. CASE Look
  <2>1. stored' = stored /\ query' = query /\ requests' = requests /\ selected' = selected
    BY <1>2 DEF Look, OpenCreate, OpenEdit, CancelDelete, handleClose, AskDelete, Page
  <2>2. target' = target \/ target' = None \/ \E p \in query.data : target' = p.key
    BY <1>2 DEF Look, OpenCreate, OpenEdit, CancelDelete, handleClose, AskDelete, Page
  <2>3. target' = None \/ target' \in Keys
    BY <2>2 DEF PolicyInv, IsPolicy
  <2> QED BY <2>1, <2>3 DEF PolicyInv
<1>3. CASE Leave
  <2>1. stored' = stored /\ query' = query /\ requests' = Orphaned(requests) /\ target' = target
    BY <1>3 DEF Leave, Back, Select
  <2>2. selected' = None \/ selected' \in query.data
    BY <1>3 DEF Leave, Back, Select
  <2>3. \A s \in requests' : s.key \in Keys
    BY <2>1, OrphanedKeys
  <2> QED BY <2>1, <2>2, <2>3 DEF PolicyInv
<1>4. CASE Start
  BY <1>4, StartKeepsPolicies
<1>5. CASE Poll
  <2>1. /\ stored' = stored /\ selected' = selected /\ target' = target
        /\ query' = [query EXCEPT !.stage = "sent"]
        /\ requests' \in {requests, Orphaned(requests)}
    BY <1>5 DEF Poll, Rendered
  <2>2. query'.data = query.data /\ query'.answer = query.answer /\ query'.loaded = query.loaded
    BY <2>1 DEF ListInv, QueryFields
  <2>3. \A s \in requests' : s.key \in Keys
    BY <2>1, OrphanedKeys DEF PolicyInv
  <2> QED BY <2>1, <2>2, <2>3 DEF PolicyInv
<1>6. CASE ListPolicies \/ ListFails \/ Fetched
  <2>1. /\ stored' = stored /\ selected' = selected /\ target' = target
        /\ requests' = requests
    BY <1>6 DEF ListPolicies, ListFails, Fetched, Client, view
  <2>2. /\ query'.data \in {query.data, query.answer}
        /\ query'.answer \in {stored, {}}
        /\ query'.loaded \/ query'.loaded = query.loaded
        /\ query'.loaded \/ query'.data = query.data
    BY <1>6 DEF ListPolicies, ListFails, Fetched, Settled, ListInv, QueryFields
  <2> QED BY <2>1, <2>2 DEF PolicyInv
<1>7. CASE \E r \in requests : Serve(r) \/ ServeFails(r) \/ AnswerLost(r)
  BY <1>7, ServeKeepsPolicies
<1>8. CASE \E r \in requests : Answer(r)
  <2>1. PICK r \in requests : Answer(r)
    BY <1>8
  <2>2. /\ stored' = stored /\ selected' = selected /\ target' = target
        /\ query' \in {query, invalidated(query)}
        /\ requests' \in {requests \ {r}, Orphaned(requests \ {r})}
    BY <2>1 DEF Answer, Rendered
  <2>3. /\ query'.data = query.data /\ query'.loaded = query.loaded
        /\ query'.answer \in {query.answer, {}}
    BY <2>2 DEF invalidated, Settled, ListInv, QueryFields
  <2>4. \A s \in requests' : s.key \in Keys
    BY <2>2, OrphanedKeys DEF PolicyInv
  <2> QED BY <2>2, <2>3, <2>4 DEF PolicyInv
<1>9. CASE Others \/ \E key \in Keys : Finalized(key)
  <2>1. /\ query' = query /\ selected' = selected /\ target' = target
        /\ requests' = requests
    BY <1>9 DEF Others, Other, Finalized, Server, view
  <2>2. \A p \in stored' : IsPolicy(p)
    <3>1. CASE \E key \in Keys : Finalized(key)
      BY <3>1 DEF Finalized, Replace, PolicyInv
    <3>2. CASE Others
      <4>1. PICK p \in stored : \/ stored' = Replace(p.key, {[p EXCEPT !.deleting = TRUE]})
                                \/ stored' = Replace(p.key, {[p EXCEPT !.spec = OtherSpec]})
        BY <3>2 DEF Others, Other
      <4>2. DOMAIN p = PolicyFields /\ p.key \in Keys
        BY DEF PolicyInv, IsPolicy
      <4>3. /\ IsPolicy([p EXCEPT !.deleting = TRUE])
            /\ IsPolicy([p EXCEPT !.spec = OtherSpec])
        BY <4>2 DEF IsPolicy, PolicyFields
      <4> QED BY <4>1, <4>3 DEF Replace, PolicyInv
    <3> QED BY <1>9, <3>1, <3>2
  <2> QED BY <2>1, <2>2 DEF PolicyInv
<1>10. CASE UNCHANGED vars
  BY <1>10 DEF vars, PolicyInv
<1> QED
  BY <1>1, <1>2, <1>3, <1>4, <1>5, <1>6, <1>7, <1>8, <1>9, <1>10, UserSteps DEF Next
-----------------------------------------------------------------------------
(* The form.                                                               *)

\* The fields of the initial form.
LEMMA InitialFormFields ==
  /\ DOMAIN InitialForm = FormFields
  /\ InitialForm.name = "" /\ InitialForm.namespace = ""
  /\ InitialForm.open = FALSE /\ InitialForm.typed = {} /\ InitialForm.left = {}
BY DEF InitialForm, FormFields, Fields

\* A form as it is before anything was typed.
Fresh(f) ==
  /\ DOMAIN f = FormFields /\ f.typed = {} /\ f.left = {}
  /\ \A field \in Fields : f[field] = InitialForm[field]

\* What the state of the page makes of the initial form.
LEMMA FreshForms ==
  /\ Fresh(InitialForm)
  /\ \A open : Fresh([InitialForm EXCEPT !.open = open])
  /\ \A f : Fresh(Shut(resetForm(f))) /\ ~ Shut(resetForm(f)).open
BY InitialFormFields DEF Fresh, FormFields, Fields, Shut, resetForm

\* Such a form fits the list, and a detail view it is closed in.
LEMMA FreshFormInv ==
  ASSUME Fresh(form'), selected' = None \/ ~ form'.open
  PROVE  FormInv'
<1>1. form'.name = "" /\ form'.namespace = ""
  BY InitialFormFields DEF Fresh, Fields
<1>2. UntouchedFieldsAreShown'
  BY DEF Fresh, UntouchedFieldsAreShown, Base
<1> QED BY <1>1, <1>2 DEF FormInv, Fresh

\* g shows what the form shows.
Shows(g, f) ==
  /\ DOMAIN g = FormFields /\ g.typed = f.typed /\ g.left = f.left
  /\ \A field \in Fields : g[field] = f[field]

\* The same fields in the same view.
LEMMA SameFieldsFormInv ==
  ASSUME FormInv, Shows(form', form), selected' = selected, form'.open = form.open
  PROVE  FormInv'
<1>1. form'.name = form.name /\ form'.namespace = form.namespace
  BY DEF Shows, Fields
<1>2. UntouchedFieldsAreShown'
  BY DEF Shows, FormInv, UntouchedFieldsAreShown, Base
<1> QED BY <1>1, <1>2 DEF FormInv, Shows

\* The list's form is opened or shut with what it holds.
LEMMA LeftFormInv ==
  ASSUME FormInv, selected = None, selected' = None, DOMAIN form' = FormFields,
         \A field \in Fields : form'[field] = form[field],
         form.typed \cup form.left \subseteq form'.typed \cup form'.left,
         ~ form'.open => form'.typed \subseteq form'.left
  PROVE  FormInv'
<1>1. form'.name = form.name /\ form'.namespace = form.namespace
  BY DEF Fields
<1>2. UntouchedFieldsAreShown'
  BY DEF FormInv, UntouchedFieldsAreShown, Base
<1> QED BY <1>1, <1>2 DEF FormInv

\* An input in a field; the name and the namespace only in the form of a new policy.
LEMMA TypedFormInv ==
  ASSUME FormInv, NEW g, Shows(g, form), form.open, g.open = form.open,
         NEW field \in Fields, NEW value, form' = Typed(g, field, value), selected' = selected,
         field = "name" => selected = None /\ value \in Names,
         field = "namespace" => selected = None /\ value \in Namespaces
  PROVE  FormInv' /\ form'.typed /= {}
<1>1. /\ DOMAIN form' = FormFields /\ form'.open = form.open
      /\ form'.typed = form.typed \cup {field} /\ form'.left = form.left
      /\ form'[field] = value
      /\ \A other \in Fields \ {field} : form'[other] = form[other]
  BY DEF Shows, Typed, FormFields, Fields
<1>2. /\ form'.name \in Names \cup {""} /\ form'.namespace \in Namespaces \cup {""}
  BY <1>1 DEF FormInv, Fields
<1>3. UntouchedFieldsAreShown'
  <2>1. \A other : Base(other)' = Base(other)
    BY <1>1 DEF Base
  <2>2. \A other \in Fields \ (form'.typed \cup form'.left) :
          other /= field /\ other \in Fields \ (form.typed \cup form.left)
    BY <1>1
  <2>3. \A other \in Fields \ (form.typed \cup form.left) : form[other] = Base(other)
    BY DEF FormInv, UntouchedFieldsAreShown
  <2>4. \A other \in Fields \ (form'.typed \cup form'.left) : form'[other] = Base(other)'
    BY <1>1, <2>1, <2>2, <2>3
  <2> QED BY <2>4 DEF UntouchedFieldsAreShown
<1> QED BY <1>1, <1>2, <1>3 DEF FormInv

\* A form shows what it shows, also when a box in it opens or closes.
LEMMA BoxShows ==
  ASSUME FormInv
  PROVE  /\ Shows(form, form)
         /\ \A which, box : /\ Shows(WithBox(which, box), form)
                            /\ WithBox(which, box).open = form.open
BY DEF FormInv, Shows, WithBox, FormFields, Fields

\* No input discards what was typed.
LEMMA EditKeepsForm ==
  ASSUME FormInv, Edit
  PROVE  FormInv' /\ (form.typed /= {} => form'.typed /= {})
<1>1. ASSUME NEW field \in {"config", "rescan", "targets", "checks"}, NEW value,
             EditedTo(Typed(form, field, value))
      PROVE  FormInv' /\ form'.typed /= {}
  BY <1>1, BoxShows, TypedFormInv DEF EditedTo, Editable, Fields
<1>2. ASSUME NEW which, NEW box, EditedTo(WithBox(which, box))
      PROVE  FormInv' /\ form'.typed = form.typed
  <2>1. Shows(form', form) /\ form'.open = form.open /\ selected' = selected
    BY <1>2, BoxShows DEF EditedTo
  <2> QED BY <2>1, SameFieldsFormInv DEF Shows
<1>3. ASSUME NEW name \in Names, EditName(name)
      PROVE  FormInv' /\ form'.typed /= {}
  BY <1>3, BoxShows, TypedFormInv DEF EditName, EditedTo, Editable, Fields
<1>4. ASSUME NEW namespace \in Namespaces, ChooseNamespace(namespace)
      PROVE  FormInv' /\ form'.typed /= {}
  BY <1>4, BoxShows, TypedFormInv DEF ChooseNamespace, EditedTo, Editable, Fields
<1>5. CASE EditChecks
  <2>1. \E value : EditedTo(Typed(form, "checks", value))
    BY <1>5 DEF EditChecks, addCheck, removeCheck, updateCheck
  <2> QED BY <1>1, <2>1
<1>6. CASE ChooseTargets
  <2>1. \E value : EditedTo(Typed(form, "targets", value))
    BY <1>6 DEF ChooseTargets
  <2> QED BY <1>1, <2>1
<1>7. ASSUME NEW which, UseBox(which) PROVE \E box : EditedTo(WithBox(which, box))
  BY <1>7 DEF UseBox
<1>8. ASSUME EditText("config", "typed") \/ EditText("rescan", "typed") \/ EditText("rescan", "")
      PROVE  FormInv' /\ form'.typed /= {}
  BY <1>1, <1>8 DEF EditText
<1> QED BY <1>2, <1>3, <1>4, <1>5, <1>6, <1>7, <1>8, <1>1 DEF Edit

\* The edit form opens with the policy of the detail view.
LEMMA OpenEditKeepsForm ==
  ASSUME PolicyInv, FormInv, OpenEdit
  PROVE  FormInv'
<1>1. selected /= None /\ selected' = selected /\ form' = prefilled(selected)
  BY DEF OpenEdit, Detailed, Page
<1>2. /\ DOMAIN form' = FormFields /\ form'.open /\ form'.typed = {} /\ form'.left = {}
      /\ form'.name = selected.key.name /\ form'.namespace = selected.key.namespace
      /\ form'.config = selected.spec.config /\ form'.rescan = rescanOf(selected.spec)
      /\ form'.targets = targetsOf(selected.spec) /\ form'.checks = selected.spec.checks
  BY <1>1, InitialFormFields DEF prefilled, FormFields, Fields
<1>3. selected.key \in Keys
  BY <1>1 DEF PolicyInv, IsPolicy
<1>4. UntouchedFieldsAreShown'
  BY <1>1, <1>2 DEF UntouchedFieldsAreShown, Base, Fields
<1> QED BY <1>2, <1>3, <1>4, KeyParts DEF FormInv

\* A render without data gives the page a new form; the list is shown then.
LEMMA RenderedForm ==
  ASSUME PolicyInv, NEW q, NEW f, NEW b, NEW rs, Rendered(q, f, b, rs),
         q.loaded = query.loaded, selected' = selected
  PROVE  \/ Loading(q) /\ ~ query.loaded /\ FormInv'
         \/ ~ Loading(q) /\ form' = f
<1>1. CASE Loading(q)
  <2>1. selected' = None
    BY <1>1 DEF Loading, PolicyInv
  <2>2. Fresh(form')
    BY <1>1, FreshForms DEF Rendered
  <2> QED BY <1>1, <2>1, <2>2, FreshFormInv DEF Loading
<1> QED BY <1>1 DEF Rendered

\* handleClose in onSuccess.
LEMMA AnswerKeepsForm ==
  ASSUME RequestInv, ListInv, PolicyInv, FormInv, NEW r \in requests, Answer(r)
  PROVE  /\ FormInv'
         /\ \/ form'.typed = form.typed
            \/ ~ query.loaded /\ Loading(query')
            \/ r.stage = "ok" /\ r.id = busy.form /\ requests' = requests \ {r}
<1> DEFINE q == IF r.stage = "ok" THEN invalidated(query) ELSE query
<1> DEFINE b == [observer \in DOMAIN busy |->
                   IF busy[observer] = r.id THEN 0 ELSE busy[observer]]
<1>1. Rendered(q, Closed(r), b, requests \ {r}) /\ query' = q /\ selected' = selected
  BY DEF Answer, Rendered
<1>2. q.loaded = query.loaded
  BY DEF invalidated, Settled, ListInv, QueryFields
<1> HIDE DEF q, b
<1>3. CASE Loading(q)
  BY <1>1, <1>2, <1>3, RenderedForm
<1>4. CASE ~ Loading(q)
  <2>1. form' = Closed(r) /\ requests' = requests \ {r}
    BY <1>1, <1>4 DEF Rendered
  <2>2. CASE r.stage = "ok" /\ r.id = busy.form
    <3>1. form' = Shut(resetForm(form))
      BY <2>1, <2>2 DEF Closed, RequestInv
    <3> QED BY <2>1, <2>2, <3>1, FreshForms, FreshFormInv
  <2>3. CASE r.stage = "ok" /\ r.id /= busy.form /\ r.kind = "create" /\ r.orphan /\ selected = None
    <3>1. form' = [Shut(form) EXCEPT !.left = @ \cup form.typed]
      BY <2>1, <2>3 DEF Closed
    <3>2. /\ DOMAIN form' = FormFields /\ form'.typed = form.typed
          /\ form'.left = form.left \cup form.typed
          /\ \A field \in Fields : form'[field] = form[field]
      BY <3>1 DEF Shut, FormInv, FormFields, Fields
    <3> QED BY <1>1, <2>3, <3>2, LeftFormInv
  <2>4. CASE form' = form
    BY <1>1, <2>4, BoxShows, SameFieldsFormInv
  <2> QED BY <2>1, <2>2, <2>3, <2>4 DEF Closed
<1> QED BY <1>3, <1>4

\* The page begins with such a form.
LEMMA InitFormInv == Init => FormInv
<1> SUFFICES ASSUME Init PROVE FormInv
  OBVIOUS
<1>1. form = InitialForm /\ selected = None
  BY DEF Init
<1>2. Fresh(form)
  BY <1>1, FreshForms
<1>3. form.name = "" /\ form.namespace = ""
  BY <1>1, InitialFormFields
<1> QED BY <1>1, <1>2, <1>3 DEF Fresh, FormInv, UntouchedFieldsAreShown, Base

\* A step that leaves the form and the view alone.
LEMMA QuietKeepsForm ==
  ASSUME FormInv, form' = form, selected' = selected
  PROVE  FormInv'
BY BoxShows, SameFieldsFormInv

\* Every step keeps the invariant of the form.
LEMMA FormStep == RequestInv /\ ListInv /\ PolicyInv /\ FormInv /\ [Next]_vars => FormInv'
<1> SUFFICES ASSUME RequestInv, ListInv, PolicyInv, FormInv, [Next]_vars PROVE FormInv'
  OBVIOUS
<1>1. CASE Edit
  BY <1>1, EditKeepsForm
<1>2. CASE Look
  <2>1. CASE OpenCreate
    <3>1. /\ form' = [form EXCEPT !.open = TRUE, !.typed = {}] /\ ~ form.open
          /\ selected = None /\ selected' = selected
      BY <2>1 DEF OpenCreate, Listed, Plain
    <3>2. /\ DOMAIN form' = FormFields /\ form'.left = form.left /\ form'.open
          /\ \A field \in Fields : form'[field] = form[field]
      BY <3>1 DEF FormInv, FormFields, Fields
    <3>3. form.typed \subseteq form.left
      BY <3>1 DEF FormInv
    <3> QED BY <3>1, <3>2, <3>3, LeftFormInv
  <2>2. CASE handleClose
    BY <2>2, FreshForms, FreshFormInv DEF handleClose
  <2>3. CASE CancelDelete \/ \E p \in query.data : AskDelete(p.key)
    BY <2>3, QuietKeepsForm DEF CancelDelete, AskDelete
  <2> QED BY <1>2, <2>1, <2>2, <2>3, OpenEditKeepsForm DEF Look
<1>3. CASE Leave
  BY <1>3, FreshForms, FreshFormInv, InitialFormFields DEF Leave, Back, Select
<1>4. CASE Start
  BY <1>4, QuietKeepsForm DEF Start, ConfirmDelete, handleSubmit, RunNow, view
<1>5. CASE Poll
  <2> DEFINE q == [query EXCEPT !.stage = "sent"]
  <2>1. Rendered(q, form, busy, requests) /\ selected' = selected
    BY <1>5 DEF Poll
  <2>2. q.loaded = query.loaded
    BY DEF ListInv, QueryFields
  <2> HIDE DEF q
  <2> QED BY <2>1, <2>2, RenderedForm, QuietKeepsForm
<1>6. CASE ListPolicies \/ ListFails \/ Fetched
  BY <1>6, QuietKeepsForm DEF ListPolicies, ListFails, Fetched, view
<1>7. CASE \E r \in requests : Serve(r) \/ ServeFails(r) \/ AnswerLost(r)
  BY <1>7, QuietKeepsForm DEF Serve, ServeFails, AnswerLost, Server, view
<1>8. CASE \E r \in requests : Answer(r)
  BY <1>8, AnswerKeepsForm
<1>9. CASE Others \/ \E key \in Keys : Finalized(key)
  BY <1>9, QuietKeepsForm DEF Others, Other, Finalized, Server, view
<1>10. CASE UNCHANGED vars
  BY <1>10, QuietKeepsForm DEF vars
<1> QED
  BY <1>1, <1>2, <1>3, <1>4, <1>5, <1>6, <1>7, <1>8, <1>9, <1>10, UserSteps DEF Next
-----------------------------------------------------------------------------
\* The inductive invariant of the page.
PageInv == RequestInv /\ ListInv /\ PolicyInv /\ FormInv

\* The requests, the list, the policies in the views and the form, together.
THEOREM PageInvariant == Spec => []PageInv
<1>1. Init => PageInv
  BY InitRequestInv, InitListInv, InitPolicyInv, InitFormInv DEF PageInv
<1>2. PageInv /\ [Next]_vars => PageInv'
  BY RequestStep, ListStep, PolicyStep, FormStep DEF PageInv
<1> QED BY <1>1, <1>2, PTL DEF Spec

\* A field nobody has typed in shows the policy that is edited, or the default of a
\* new one (resetForm and the prefill of PolicyFormModal), for any number of forms
\* opened, closed and submitted before; the exception is what a form left behind
\* that an orphaned create shut without a reset.
THEOREM UntouchedFieldsShowThePolicy == Spec => []UntouchedFieldsAreShown
<1>1. PageInv => UntouchedFieldsAreShown
  BY DEF PageInv, FormInv
<1> QED BY <1>1, PageInvariant, PTL

\* buildCR, which the preview shows, and handleSubmit, which computes name,
\* namespace and specification again, agree on every form that can be submitted.
THEOREM PreviewIsWhatIsSubmitted == Spec => []PreviewIsSubmitted
<1>1. PageInv => PreviewIsSubmitted
  <2> SUFFICES ASSUME PageInv, Editable, CanSubmit(form)
               PROVE  buildCR(form, defaultNs) = [key |-> SubmitKey, spec |-> Submitted(form)]
    BY DEF PreviewIsSubmitted
  <2>1. form.name /= ""
    BY DEF CanSubmit
  <2>2. selected /= None => form.namespace /= ""
    BY EditedNamespace DEF PageInv, Editable
  <2>3. buildCR(form, defaultNs).key = SubmitKey
    BY <2>1, <2>2 DEF buildCR, SubmitKey
  <2>4. buildCR(form, defaultNs).spec = Submitted(form)
    <3> DEFINE unsent == (IF form.rescan = "" THEN {"rescan"} ELSE {}) \cup
                         (IF Len(form.targets) > 0 THEN {} ELSE {"targets"})
               sent == {"config", "rescan", "targets", "checks"} \ unsent
               spread == IF form.rescan /= "" THEN {"config", "checks"} \cup {"rescan"}
                         ELSE {"config", "checks"}
               fields == IF Len(form.targets) > 0 THEN spread \cup {"targets"} ELSE spread
    <3>1. sent = fields
      OBVIOUS
    <3>2. buildCR(form, defaultNs).spec = [field \in fields |-> Held(form, field)]
      BY DEF buildCR
    <3>3. Submitted(form) = [field \in sent |-> Held(form, field)]
      BY DEF Submitted
    <3> QED BY <3>1, <3>2, <3>3
  <2> QED BY <2>3, <2>4 DEF buildCR
<1> QED BY <1>1, PageInvariant, PTL

\* What the user typed is lost only by closing the form, by the success of a request
\* that the form sent, and, as long as no list was ever loaded, by a fetch of it.
LEMMA TypedStep ==
  ASSUME PageInv, [Next]_vars, form.open, form.typed /= {}, form'.typed = {}
  PROVE  \/ requests' = requests /\ ~ form'.open
         \/ \E r \in requests \ requests' : r.id = busy.form /\ r.stage = "ok"
         \/ ~ query.loaded /\ Loading(query')
<1>1. CASE Edit
  BY <1>1, EditKeepsForm DEF PageInv
<1>2. CASE Look
  <2>1. handleClose
    BY <1>2 DEF Look, OpenCreate, OpenEdit, CancelDelete, AskDelete, Plain
  <2> QED BY <2>1, FreshForms DEF handleClose, Page
<1>3. CASE Leave
  BY <1>3 DEF Leave, Back, Select, Plain
<1>4. CASE Start
  BY <1>4 DEF Start, ConfirmDelete, handleSubmit, RunNow, view
<1>5. CASE Poll
  <2>1. query' = [query EXCEPT !.stage = "sent"] /\ Loading(query')
    BY <1>5 DEF Poll, Rendered
  <2>2. query'.loaded = query.loaded
    BY <2>1 DEF PageInv, ListInv, QueryFields
  <2> QED BY <2>1, <2>2 DEF Loading
<1>6. CASE ListPolicies \/ ListFails \/ Fetched
  BY <1>6 DEF ListPolicies, ListFails, Fetched, view
<1>7. CASE \E r \in requests : Serve(r) \/ ServeFails(r) \/ AnswerLost(r)
  BY <1>7 DEF Serve, ServeFails, AnswerLost, Server, view
<1>8. CASE \E r \in requests : Answer(r)
  BY <1>8, AnswerKeepsForm DEF PageInv
<1>9. CASE Others \/ \E key \in Keys : Finalized(key)
  BY <1>9 DEF Others, Other, Finalized, Server, view
<1>10. CASE UNCHANGED vars
  BY <1>10 DEF vars
<1> QED
  BY <1>1, <1>2, <1>3, <1>4, <1>5, <1>6, <1>7, <1>8, <1>9, <1>10, UserSteps DEF Next

\* The same as an action property of the page: no error, no other request and no
\* poll of the list discards an input.
THEOREM TypedInputIsKept == Spec => TypedIsKept
<1>1. PageInv /\ [Next]_vars =>
        [form.open /\ form.typed /= {} /\ form'.typed = {} =>
           \/ requests' = requests /\ ~ form'.open
           \/ \E r \in requests \ requests' : r.id = busy.form /\ r.stage = "ok"
           \/ ~ query.loaded /\ Loading(query')]_vars
  BY TypedStep
<1> QED BY <1>1, PageInvariant, PTL DEF Spec, TypedIsKept
-----------------------------------------------------------------------------
(* The order of the results.                                               *)

\* Newer results come first, those of one moment in the order of the server's list:
\* a strict total order.
LEMMA BeforeIsOrder ==
  /\ \A r \in Results : ~ Before(r, r)
  /\ \A r, s \in Results : r /= s => Before(r, s) \/ Before(s, r)
  /\ \A r, s, t \in Results : Before(r, s) /\ Before(s, t) => Before(r, t)
<1>1. \A r \in Results : r.place \in Nat /\ r.time \in Nat
  BY OverviewConstants
<1>2. \A r, s \in Results : r.place = s.place => r = s
  BY OverviewConstants
<1>3. \A r \in Results : ~ Before(r, r)
  BY <1>1 DEF Before
<1>4. \A r, s \in Results : r /= s => Before(r, s) \/ Before(s, r)
  BY <1>1, <1>2 DEF Before
<1>5. \A r, s, t \in Results : Before(r, s) /\ Before(s, t) => Before(r, t)
  BY <1>1 DEF Before
<1> QED BY <1>3, <1>4, <1>5

\* How many results are before r.
Rank(data, r) == Cardinality({s \in data : Before(s, r)})

\* The rank is a number below the number of results.
LEMMA RankType ==
  ASSUME NEW data \in SUBSET Results, IsFiniteSet(data), NEW r \in data
  PROVE  Rank(data, r) \in Nat /\ Rank(data, r) < Cardinality(data)
<1> DEFINE B == {s \in data : Before(s, r)}
<1>1. B \in SUBSET data /\ B /= data
  BY BeforeIsOrder
<1> HIDE DEF B
<1>2. IsFiniteSet(B) /\ Cardinality(B) <= Cardinality(data) /\ Cardinality(data) /= Cardinality(B)
  BY <1>1, FS_Subset
<1>3. Cardinality(B) \in Nat /\ Cardinality(data) \in Nat
  BY <1>2, FS_CardinalityType
<1>4. Cardinality(B) \in Nat /\ Cardinality(B) < Cardinality(data)
  BY <1>2, <1>3
<1> QED BY <1>4 DEF Rank, B

\* A result that comes first has the smaller rank.
LEMMA RankAscends ==
  ASSUME NEW data \in SUBSET Results, IsFiniteSet(data), NEW r \in data, NEW t \in data,
         Before(r, t)
  PROVE  Rank(data, r) < Rank(data, t)
<1> DEFINE B == {s \in data : Before(s, r)}
           C == {s \in data : Before(s, t)}
<1>1. B \in SUBSET C /\ r \in C /\ r \notin B /\ C \in SUBSET data
  BY BeforeIsOrder
<1> HIDE DEF B, C
<1>2. IsFiniteSet(C)
  BY <1>1, FS_Subset
<1>3. IsFiniteSet(B) /\ Cardinality(B) <= Cardinality(C) /\ Cardinality(C) /= Cardinality(B)
  BY <1>1, <1>2, FS_Subset
<1>4. Cardinality(B) \in Nat /\ Cardinality(C) \in Nat
  BY <1>2, <1>3, FS_CardinalityType
<1>5. Cardinality(B) < Cardinality(C)
  BY <1>3, <1>4
<1> QED BY <1>5 DEF Rank, B, C

\* Every place of the list is some result's rank.
LEMMA RankReaches ==
  ASSUME NEW data \in SUBSET Results, IsFiniteSet(data),
         NEW k \in 0..(Cardinality(data) - 1)
  PROVE  \E r \in data : Rank(data, r) = k
<1> DEFINE n == Cardinality(data)
           T == 0..(n - 1)
           f == [r \in data |-> Rank(data, r)]
<1>1. n \in Nat
  BY FS_CardinalityType
<1>2. f \in [data -> T]
  <2>1. \A r \in data : Rank(data, r) \in T
    BY <1>1, RankType
  <2> QED BY <2>1
<1>3. \A r, t \in data : Rank(data, r) = Rank(data, t) => r = t
  <2> SUFFICES ASSUME NEW r \in data, NEW t \in data, Rank(data, r) = Rank(data, t), r /= t
               PROVE  FALSE
    OBVIOUS
  <2>1. Before(r, t) \/ Before(t, r)
    BY BeforeIsOrder
  <2>2. Rank(data, r) < Rank(data, t) \/ Rank(data, t) < Rank(data, r)
    BY <2>1, RankAscends
  <2>3. Rank(data, r) \in Nat /\ Rank(data, t) \in Nat
    BY RankType
  <2> QED BY <2>2, <2>3
<1>4. f \in Injection(data, T)
  BY <1>2, <1>3 DEF Injection, IsInjective
<1>5. IsFiniteSet(T) /\ Cardinality(T) = n
  BY <1>1, FS_Interval
<1> HIDE DEF f, T, n
<1>6. f \in Surjection(data, T)
  BY <1>4, <1>5, FS_Injection DEF n
<1>7. \A t \in T : \E r \in data : f[r] = t
  BY <1>6 DEF Surjection
<1> QED BY <1>7 DEF f, T, n

\* The list of the page (the sort in Results.tsx) has every result once, newest
\* first, and those of one moment in the order of the server's list.
THEOREM ResultsAreSorted ==
  ASSUME NEW data \in SUBSET Results, IsFiniteSet(data)
  PROVE  /\ Sorted(data) \in Seq(data) /\ Len(Sorted(data)) = Cardinality(data)
         /\ \A r \in data : \E i \in 1..Len(Sorted(data)) : Sorted(data)[i] = r
         /\ \A i, j \in 1..Len(Sorted(data)) : i < j => Before(Sorted(data)[i], Sorted(data)[j])
<1> DEFINE n == Cardinality(data)
           list == Sorted(data)
<1>1. n \in Nat
  BY FS_CardinalityType
<1>2. list = [i \in 1..n |-> CHOOSE r \in data : Rank(data, r) = i - 1]
  BY DEF Sorted, Rank
<1> HIDE DEF list, n
<1>3. ASSUME NEW i \in 1..n PROVE list[i] \in data /\ Rank(data, list[i]) = i - 1
  <2>1. i - 1 \in 0..(Cardinality(data) - 1)
    BY <1>1 DEF n
  <2>2. \E r \in data : Rank(data, r) = i - 1
    BY <2>1, RankReaches
  <2>3. list[i] = CHOOSE r \in data : Rank(data, r) = i - 1
    BY <1>2
  <2> QED BY <2>2, <2>3
<1>4. list \in Seq(data) /\ Len(list) = n
  <2>1. DOMAIN list = 1..n /\ list = [i \in 1..n |-> list[i]]
    BY <1>2
  <2>2. list \in [1..n -> data]
    BY <1>3, <2>1
  <2> QED BY <1>1, <2>1, <2>2
<1>5. ASSUME NEW r \in data PROVE \E i \in 1..n : list[i] = r
  <2> DEFINE i == Rank(data, r) + 1
  <2>1. i \in 1..n /\ i - 1 = Rank(data, r)
    BY <1>1, RankType DEF n
  <2> HIDE DEF i
  <2>2. list[i] \in data /\ Rank(data, list[i]) = Rank(data, r)
    BY <1>3, <2>1
  <2>3. ~ Before(r, list[i]) /\ ~ Before(list[i], r)
    <3>1. Rank(data, r) \in Nat
      BY RankType
    <3>2. ~ (Rank(data, r) < Rank(data, list[i])) /\ ~ (Rank(data, list[i]) < Rank(data, r))
      BY <2>2, <3>1
    <3> QED BY <2>2, <3>2, RankAscends
  <2>4. list[i] = r
    BY <2>2, <2>3, BeforeIsOrder
  <2> QED BY <2>1, <2>4
<1>6. ASSUME NEW i \in 1..n, NEW j \in 1..n, i < j PROVE Before(list[i], list[j])
  <2>1. /\ list[i] \in data /\ Rank(data, list[i]) = i - 1
        /\ list[j] \in data /\ Rank(data, list[j]) = j - 1
    BY <1>3
  <2>2. list[i] /= list[j] /\ ~ (Rank(data, list[j]) < Rank(data, list[i]))
    BY <1>1, <1>6, <2>1
  <2>3. ~ Before(list[j], list[i])
    BY <2>1, <2>2, RankAscends
  <2> QED BY <2>1, <2>2, <2>3, BeforeIsOrder
<1> QED BY <1>4, <1>5, <1>6 DEF list, n
-----------------------------------------------------------------------------
(* The totals of the dashboard.                                            *)

\* The least-number principle, from the well-foundedness of < on the naturals.
LEMMA LeastOf ==
  ASSUME NEW S \in SUBSET Nat, S /= {}
  PROVE  \E n \in S : \A m \in S : n <= m
<1> DEFINE R == OpToRel(<, Nat)
<1>1. IsWellFoundedOn(R, Nat)
  BY NatLessThanWellFounded
<1>2. \A x, y \in Nat : <<x, y>> \in R <=> x < y
  BY DEF OpToRel
<1> HIDE DEF R
<1>3. PICK n \in S : \A m \in S : ~(<<m, n>> \in R)
  BY <1>1, WFMin
<1>4. ASSUME NEW m \in S PROVE n <= m
  <2>1. n \in Nat /\ m \in Nat
    OBVIOUS
  <2>2. ~(m < n)
    BY <1>2, <1>3, <2>1
  <2> QED BY <2>1, <2>2
<1> QED BY <1>4

\* The element that a sum over a set takes next.
Taken(s) == CHOOSE x \in s : TRUE

\* What is left of a set when its next element is taken.
LEMMA TakenLeaves ==
  ASSUME NEW D, IsFiniteSet(D), NEW s \in SUBSET D, s /= {}
  PROVE  /\ Taken(s) \in s /\ s \ {Taken(s)} \in SUBSET D
         /\ Cardinality(s) \in Nat \ {0}
         /\ Cardinality(s \ {Taken(s)}) = Cardinality(s) - 1
         /\ \A k \in Nat : Cardinality(s) <= k => Cardinality(s \ {Taken(s)}) <= k - 1
<1>1. Taken(s) \in s
  BY DEF Taken
<1>2. IsFiniteSet(s)
  BY FS_Subset
<1>3. Cardinality(s) \in Nat /\ Cardinality(s) /= 0
  BY <1>2, FS_CardinalityType, FS_EmptySet
<1>4. Cardinality(s \ {Taken(s)}) = Cardinality(s) - 1
  BY <1>1, <1>2, FS_RemoveElement
<1> QED BY <1>1, <1>3, <1>4

\* The equation of a sum over the subsets of a set, one element at a time.
Sums(iter, D, f) ==
  iter = [s \in SUBSET D |-> IF s = {} THEN 0 ELSE f[Taken(s)] + iter[s \ {Taken(s)}]]

\* The equation has a solution.
LEMMA SumsExist ==
  ASSUME NEW D, IsFiniteSet(D), NEW f \in [D -> Nat]
  PROVE  \E iter : Sums(iter, D, f)
<1> DEFINE Small(k) == {s \in SUBSET D : Cardinality(s) <= k}
           Solves(g, k) == \A s \in Small(k) :
                             g[s] = IF s = {} THEN 0 ELSE f[Taken(s)] + g[s \ {Taken(s)}]
           n == Cardinality(D)
           Bad == {k \in 0..n : ~ \E g \in [Small(k) -> Nat] : Solves(g, k)}
<1>1. n \in Nat /\ \A s \in SUBSET D : Cardinality(s) \in Nat /\ Cardinality(s) <= n
  BY FS_CardinalityType, FS_Subset
<1>2. \A s \in SUBSET D : s /= {} => s \ {Taken(s)} \in SUBSET D /\ f[Taken(s)] \in Nat
  BY TakenLeaves
<1>3. Bad = {}
  <2> SUFFICES ASSUME Bad /= {} PROVE FALSE
    OBVIOUS
  <2>1. Bad \in SUBSET Nat
    BY <1>1
  <2>2. PICK k \in Bad : \A m \in Bad : k <= m
    <3> HIDE DEF Bad
    <3> QED BY <2>1, LeastOf
  <2>3. k \in 0..n /\ ~ \E g \in [Small(k) -> Nat] : Solves(g, k)
    OBVIOUS
  <2>4. CASE k = 0
    <3> DEFINE g == [s \in Small(k) |-> 0]
    <3>1. \A s \in Small(k) : s = {}
      <4>1. \A s \in SUBSET D : IsFiniteSet(s)
        BY FS_Subset
      <4>2. \A s \in Small(k) : Cardinality(s) = 0
        BY <1>1, <2>4
      <4> QED BY <4>1, <4>2, FS_EmptySet
    <3>2. g \in [Small(k) -> Nat] /\ Solves(g, k)
      BY <3>1
    <3> QED BY <2>3, <3>2
  <2>5. CASE k /= 0
    <3>1. k - 1 \in 0..n /\ ~(k <= k - 1) /\ k \in Nat
      BY <1>1, <2>3, <2>5
    <3>2. k - 1 \notin Bad
      BY <2>2, <3>1
    <3>3. PICK h \in [Small(k - 1) -> Nat] : Solves(h, k - 1)
      BY <3>1, <3>2
    <3> DEFINE g == [s \in Small(k) |->
                       IF s = {} THEN 0 ELSE f[Taken(s)] + h[s \ {Taken(s)}]]
    <3>4. \A s \in Small(k) : s /= {} => s \ {Taken(s)} \in Small(k - 1)
      BY <3>1, TakenLeaves
    <3>5. g \in [Small(k) -> Nat]
      <4>1. \A s \in Small(k) : s /= {} => f[Taken(s)] \in Nat /\ h[s \ {Taken(s)}] \in Nat
        BY <1>2, <3>3, <3>4
      <4>2. \A s \in Small(k) :
              (IF s = {} THEN 0 ELSE f[Taken(s)] + h[s \ {Taken(s)}]) \in Nat
        BY <4>1
      <4> QED BY <4>2
    <3>6. \A s \in Small(k - 1) : s \in Small(k) /\ g[s] = h[s]
      <4>1. \A s \in Small(k - 1) : s \in Small(k)
        BY <1>1, <3>1
      <4>2. \A s \in Small(k - 1) :
              h[s] = IF s = {} THEN 0 ELSE f[Taken(s)] + h[s \ {Taken(s)}]
        BY <3>3
      <4> QED BY <4>1, <4>2
    <3>7. Solves(g, k)
      <4>1. \A s \in Small(k) : s /= {} => g[s \ {Taken(s)}] = h[s \ {Taken(s)}]
        BY <3>4, <3>6
      <4> QED BY <4>1
    <3> QED BY <2>3, <3>5, <3>7
  <2> QED BY <2>4, <2>5
<1>4. PICK g \in [Small(n) -> Nat] : Solves(g, n)
  <2>1. n \in 0..n
    BY <1>1
  <2>2. n \notin Bad
    <3> HIDE DEF Bad
    <3> QED BY <1>3
  <2> HIDE DEF Solves, Small, n
  <2> QED BY <2>1, <2>2
<1>5. Small(n) = SUBSET D
  BY <1>1
<1>6. Sums(g, D, f)
  BY <1>4, <1>5 DEF Sums
<1> QED BY <1>6

\* A sum of naturals is 0 exactly when all of them are.
LEMMA SumIsZero ==
  ASSUME NEW D, IsFiniteSet(D), NEW f \in [D -> Nat], NEW iter, Sums(iter, D, f)
  PROVE  iter[D] = 0 <=> \A p \in D : f[p] = 0
<1> DEFINE Good(s) == iter[s] \in Nat /\ (iter[s] = 0 <=> \A p \in s : f[p] = 0)
           Bad == {k \in Nat : \E s \in SUBSET D : Cardinality(s) = k /\ ~ Good(s)}
<1>1. \A s \in SUBSET D :
        iter[s] = IF s = {} THEN 0 ELSE f[Taken(s)] + iter[s \ {Taken(s)}]
  <2> DEFINE F == [s \in SUBSET D |-> IF s = {} THEN 0 ELSE f[Taken(s)] + iter[s \ {Taken(s)}]]
  <2>1. iter = F
    BY DEF Sums
  <2>2. \A s \in SUBSET D : F[s] = IF s = {} THEN 0 ELSE f[Taken(s)] + iter[s \ {Taken(s)}]
    OBVIOUS
  <2> HIDE DEF F
  <2> QED BY <2>1, <2>2
<1>2. Bad = {}
  <2> SUFFICES ASSUME Bad /= {} PROVE FALSE
    OBVIOUS
  <2>1. Bad \in SUBSET Nat
    OBVIOUS
  <2>2. PICK k \in Bad : \A m \in Bad : k <= m
    <3> HIDE DEF Bad
    <3> QED BY <2>1, LeastOf
  <2>3. PICK s \in SUBSET D : Cardinality(s) = k /\ ~ Good(s)
    OBVIOUS
  <2>4. s /= {}
    <3> SUFFICES ASSUME s = {} PROVE FALSE
      OBVIOUS
    <3>1. iter[s] = 0
      BY <1>1
    <3> QED BY <2>3, <3>1
  <2>5. /\ Taken(s) \in s /\ s \ {Taken(s)} \in SUBSET D
        /\ Cardinality(s \ {Taken(s)}) = k - 1 /\ k \in Nat \ {0}
    BY <2>3, <2>4, TakenLeaves
  <2>6. k - 1 \notin Bad /\ k - 1 \in Nat
    BY <2>2, <2>5
  <2>7. Good(s \ {Taken(s)})
    BY <2>5, <2>6
  <2>8. iter[s] = f[Taken(s)] + iter[s \ {Taken(s)}] /\ f[Taken(s)] \in Nat
    BY <1>1, <2>4, <2>5
  <2>9. iter[s] \in Nat /\ (iter[s] = 0 <=> f[Taken(s)] = 0 /\ iter[s \ {Taken(s)}] = 0)
    BY <2>7, <2>8
  <2>10. (\A p \in s : f[p] = 0) <=>
           f[Taken(s)] = 0 /\ \A p \in s \ {Taken(s)} : f[p] = 0
    BY <2>5
  <2> QED BY <2>3, <2>7, <2>9, <2>10
<1>3. Cardinality(D) \in Nat
  BY FS_CardinalityType
<1> QED BY <1>2, <1>3

\* The total of a field, of policies whose numbers are naturals.
LEMMA AggIsZero ==
  ASSUME IsFiniteSet(cache["policies"].data),
         \A p \in cache["policies"].data : p.status.summary["fail"] \in Nat
  PROVE  agg("fail") = 0 <=> \A p \in cache["policies"].data : p.status.summary["fail"] = 0
<1> DEFINE D == cache["policies"].data
           f == [p \in D |-> p.status.summary["fail"]]
           Equation(g) ==
             g = [s \in SUBSET D |->
                    IF s = {} THEN 0
                    ELSE (CHOOSE x \in s : TRUE).status.summary["fail"] +
                           g[s \ {CHOOSE x \in s : TRUE}]]
           iter == CHOOSE g : Equation(g)
<1>1. f \in [D -> Nat]
  OBVIOUS
<1>2. agg("fail") = iter[D]
  BY DEF agg, MapThenSumSet, MapThenFoldSet
<1>3. Sums(iter, D, f)
  <2>1. \A g : Sums(g, D, f) <=> Equation(g)
    <3>1. \A s \in SUBSET D :
            s /= {} => f[Taken(s)] = (CHOOSE x \in s : TRUE).status.summary["fail"]
      BY DEF Taken
    <3> QED BY <3>1 DEF Sums, Taken
  <2> HIDE DEF f, Equation
  <2>2. \E g : Sums(g, D, f)
    BY <1>1, SumsExist
  <2>3. \E g : Equation(g)
    BY <2>1, <2>2
  <2>4. Equation(iter)
    BY <2>3
  <2> QED BY <2>1, <2>4
<1> HIDE DEF f, iter
<1>4. agg("fail") = 0 <=> \A p \in D : f[p] = 0
  BY <1>1, <1>2, <1>3, SumIsZero
<1> QED BY <1>4 DEF f
-----------------------------------------------------------------------------
(* The invariant of the dashboard and the results.                         *)

\* The last scan that reported found a failure.
Failing(s) == ~ s.summary.none /\ s.summary.fail > 0

\* A status says Degraded for two reasons and Available if there is none of them;
\* before the first report it says nothing.
Truthful(s) ==
  \/ s.conditions = {} /\ ~ s.broken /\ ~ Failing(s)
  \/ /\ s.conditions /= {}
     /\ Has(s.conditions, "Degraded") <=> (Failing(s) \/ s.broken)
     /\ Has(s.conditions, "Available") <=> ~ Has(s.conditions, "Degraded")

\* The policies as the dashboard gets them, and what a query may hold.
Conditions == [type : {"Degraded", "Available"}, true : BOOLEAN]
Known ==
  {s \in [summary : Summaries, conditions : SUBSET Conditions, broken : BOOLEAN] : Truthful(s)}
Entries == [policy : PolicyNames, status : Known]
Answers == [loaded : BOOLEAN, data : SUBSET (Results \cup Entries), fetching : BOOLEAN]

\* The results fetched are results of scans, finitely many, and the statuses fetched
\* are truthful ones of policies.
DataInv ==
  /\ made \in SUBSET Results /\ IsFiniteSet(made) /\ kept \subseteq made
  /\ status \in [PolicyNames -> Known]
  /\ cache \in [{"results", "policies"} -> Answers]
  /\ cache["results"].data \subseteq made
  /\ cache["policies"].data \subseteq Entries /\ IsFiniteSet(cache["policies"].data)

\* The results that the filters let through.
Matching == {r \in cache["results"].data : Matches(r)}

\* The page number points at a result, also when nothing is shown, and a policy that
\* was chosen is one of the list, as long as no results have gone since.
RangeInv ==
  /\ page \in Nat
  /\ DOMAIN filter = {"search", "policy", "type", "verdict"}
  /\ "page" \notin shrunk => page = 0 \/ page * PAGE_SIZE < Cardinality(Matching)
  /\ "policy" \notin shrunk => filter.policy \in policyNames \cup {""}

\* What is unfolded is of the result that is looked at.
FoldInv ==
  /\ picked.checks \in Seq(STRING)
  /\ expanded \subseteq ToSet(picked.checks)

\* The inductive invariant.
OverviewInv == DataInv /\ RangeInv /\ FoldInv

\* No query was answered, nothing is filtered and nothing is unfolded.
LEMMA InitOverviewInv == OverviewInit => OverviewInv
<1> SUFFICES ASSUME OverviewInit PROVE OverviewInv
  OBVIOUS
<1>1. Unfetched \in Answers /\ Unfetched.data = {}
  BY DEF Unfetched, Answers
<1>2. DataInv
  <2>1. made = Earlier /\ kept = made /\ IsFiniteSet(made) /\ made \in SUBSET Results
    BY OverviewConstants DEF OverviewInit
  <2>2. status \in [PolicyNames -> Known]
    <3>1. NoStatus \in Known
      BY DEF NoStatus, Known, Summaries, Truthful, Failing, NoSummary
    <3> QED BY <3>1 DEF OverviewInit
  <2>3. /\ cache \in [{"results", "policies"} -> Answers]
        /\ cache["results"].data = {} /\ cache["policies"].data = {}
    BY <1>1 DEF OverviewInit
  <2> QED BY <2>1, <2>2, <2>3, FS_EmptySet DEF DataInv
<1>3. RangeInv
  BY DEF OverviewInit, RangeInv, NoFilter
<1>4. FoldInv
  BY DEF OverviewInit, FoldInv, Nothing
<1> QED BY <1>2, <1>3, <1>4 DEF OverviewInv

\* A status is written, by a scan or by a reconciliation.
Reported ==
  \/ \E r \in made : ScanReports(r)
  \/ \E policy \in PolicyNames : ReconcileReports(policy) \/ BuildFails(policy)

\* What the two conditions say after they were set.
LEMMA ConditionsSet ==
  ASSUME NEW old \in SUBSET Conditions, NEW degraded \in BOOLEAN
  PROVE  /\ WithConditions(old, degraded) \in SUBSET Conditions
         /\ WithConditions(old, degraded) /= {}
         /\ Has(WithConditions(old, degraded), "Degraded") <=> degraded
         /\ Has(WithConditions(old, degraded), "Available") <=> ~ degraded
<1> DEFINE d == [type |-> "Degraded", true |-> degraded]
           a == [type |-> "Available", true |-> ~ degraded]
<1>1. \A c \in old : c.type \in {"Degraded", "Available"}
  BY DEF Conditions
<1>2. WithConditions(old, degraded) = {d, a}
  BY <1>1 DEF WithConditions
<1>3. d \in Conditions /\ a \in Conditions
  BY DEF Conditions
<1>4. d.type = "Degraded" /\ a.type = "Available" /\ d.true = degraded /\ a.true = ~ degraded
  OBVIOUS
<1> HIDE DEF d, a
<1>5. Has({d, a}, "Degraded") <=> degraded
  BY <1>4 DEF Has
<1>6. Has({d, a}, "Available") <=> ~ degraded
  BY <1>4 DEF Has
<1> QED BY <1>2, <1>3, <1>5, <1>6

\* A status whose conditions were set by what is wrong is truthful.
LEMMA SetIsTruthful ==
  ASSUME NEW summary \in Summaries, NEW broken \in BOOLEAN, NEW old \in SUBSET Conditions,
         NEW degraded \in BOOLEAN,
         degraded <=> (~ summary.none /\ summary.fail > 0) \/ broken
  PROVE  [summary |-> summary, conditions |-> WithConditions(old, degraded),
          broken |-> broken] \in Known
<1> DEFINE c == WithConditions(old, degraded)
           s == [summary |-> summary, conditions |-> c, broken |-> broken]
<1>1. /\ c \in SUBSET Conditions /\ c /= {}
      /\ Has(c, "Degraded") <=> degraded
      /\ Has(c, "Available") <=> ~ degraded
  BY ConditionsSet
<1> HIDE DEF c
<1>2. s.summary = summary /\ s.conditions = c /\ s.broken = broken
  OBVIOUS
<1>3. s \in [summary : Summaries, conditions : SUBSET Conditions, broken : BOOLEAN]
  BY <1>1
<1> HIDE DEF s
<1>4. Truthful(s)
  BY <1>1, <1>2 DEF Truthful, Failing
<1> QED BY <1>3, <1>4 DEF Known, s, c

\* Every writer leaves a truthful status.
LEMMA ReportWrites ==
  ASSUME DataInv, Reported
  PROVE  \E policy \in PolicyNames : \E new \in Known : Writes(policy, new)
<1>1. ASSUME NEW r \in made, ScanReports(r)
      PROVE  \E policy \in PolicyNames : \E new \in Known : Writes(policy, new)
  <2>1. r \in Results /\ r.policy \in PolicyNames /\ r.summary \in Summaries
    BY OverviewConstants DEF DataInv, PolicyNames
  <2>2. status[r.policy].conditions \in SUBSET Conditions
    BY <2>1 DEF DataInv, Known
  <2>3. ~ r.summary.none /\ (r.summary.fail > 0) \in BOOLEAN
    BY <1>1 DEF ScanReports
  <2>4. [summary |-> r.summary,
         conditions |-> WithConditions(status[r.policy].conditions, r.summary.fail > 0),
         broken |-> FALSE] \in Known
    BY <2>1, <2>2, <2>3, SetIsTruthful
  <2> QED BY <1>1, <2>1, <2>4 DEF ScanReports
<1>2. ASSUME NEW policy \in PolicyNames, ReconcileReports(policy) \/ BuildFails(policy)
      PROVE  \E new \in Known : Writes(policy, new)
  <2> DEFINE old == status[policy]
             failing == ~ old.summary.none /\ old.summary.fail > 0
  <2>1. /\ old \in [summary : Summaries, conditions : SUBSET Conditions, broken : BOOLEAN]
    BY DEF DataInv, Known
  <2>2. /\ old.summary \in Summaries /\ old.conditions \in SUBSET Conditions
    BY <2>1
  <2>3. \A broken, conditions :
          [old EXCEPT !.broken = broken, !.conditions = conditions] =
            [summary |-> old.summary, conditions |-> conditions, broken |-> broken]
    <3> SUFFICES ASSUME NEW broken, NEW conditions
                 PROVE  [old EXCEPT !.broken = broken, !.conditions = conditions] =
                          [summary |-> old.summary, conditions |-> conditions, broken |-> broken]
      OBVIOUS
    <3> DEFINE e == [old EXCEPT !.broken = broken, !.conditions = conditions]
               n == [summary |-> old.summary, conditions |-> conditions, broken |-> broken]
    <3> HIDE DEF old
    <3>1. DOMAIN old = {"summary", "conditions", "broken"}
      BY <2>1
    <3>2. DOMAIN e = DOMAIN n
      BY <3>1
    <3>3. e.summary = n.summary /\ e.conditions = n.conditions /\ e.broken = n.broken
      BY <3>1
    <3>4. \A field \in DOMAIN e : e[field] = n[field]
      BY <3>1, <3>2, <3>3
    <3>5. e = [field \in DOMAIN e |-> e[field]] /\ n = [field \in DOMAIN n |-> n[field]]
      OBVIOUS
    <3> HIDE DEF e, n
    <3>6. e = n
      BY <3>2, <3>4, <3>5
    <3> QED BY <3>6 DEF e, n
  <2>4. [summary |-> old.summary, conditions |-> WithConditions(old.conditions, failing),
         broken |-> FALSE] \in Known
    BY <2>2, SetIsTruthful
  <2>5. [summary |-> old.summary, conditions |-> WithConditions(old.conditions, TRUE),
         broken |-> TRUE] \in Known
    BY <2>2, SetIsTruthful
  <2> QED BY <1>2, <2>3, <2>4, <2>5 DEF ReconcileReports, BuildFails
<1> QED BY <1>1, <1>2 DEF Reported

\* The scans, the deletions and the statuses of the cluster.
LEMMA ClusterKeepsData ==
  ASSUME DataInv, UNCHANGED cache,
         \/ \E r \in Results \ made : ScanDone(r)
         \/ \E policy \in PolicyNames : PolicyDeleted(policy)
         \/ Reported
  PROVE  DataInv'
<1>1. CASE \E r \in Results \ made : ScanDone(r)
  <2>1. PICK r \in Results \ made : ScanDone(r)
    BY <1>1
  <2>2. made' = made \cup {r} /\ kept' = kept \cup {r} /\ status' = status
    BY <2>1 DEF ScanDone
  <2>3. IsFiniteSet(made')
    BY <2>2, FS_AddElement DEF DataInv
  <2> QED BY <2>2, <2>3 DEF DataInv
<1>2. CASE \E policy \in PolicyNames : PolicyDeleted(policy)
  <2>1. made' = made /\ kept' \subseteq kept /\ status' = status
    BY <1>2 DEF PolicyDeleted
  <2> QED BY <2>1 DEF DataInv
<1>3. CASE Reported
  <2>1. PICK policy \in PolicyNames : \E new \in Known : Writes(policy, new)
    BY <1>3, ReportWrites
  <2>1a. PICK new \in Known : Writes(policy, new)
    BY <2>1
  <2>2. made' = made /\ kept' = kept /\ status' = [status EXCEPT ![policy] = new]
    BY <2>1a DEF Writes
  <2>3. status' \in [PolicyNames -> Known]
    BY <2>2 DEF DataInv
  <2> QED BY <2>2, <2>3 DEF DataInv
<1> QED BY <1>1, <1>2, <1>3

\* ListPolicies answers with one entry for each policy.
LEMMA EntriesAreFinite ==
  ASSUME DataInv
  PROVE  Answered("policies") \subseteq Entries /\ IsFiniteSet(Answered("policies"))
<1> DEFINE f == [policy \in PolicyNames |-> [policy |-> policy, status |-> status[policy]]]
           T == Answered("policies")
<1>1. T = {f[policy] : policy \in PolicyNames}
  BY DEF Answered
<1>2. T \subseteq Entries
  BY DEF Answered, Entries, DataInv
<1>3. f \in Surjection(PolicyNames, T)
  BY <1>1 DEF Surjection
<1>4. IsFiniteSet(PolicyNames)
  BY OverviewConstants
<1> HIDE DEF f, T
<1>5. IsFiniteSet(T)
  BY <1>3, <1>4, FS_Surjection
<1> QED BY <1>2, <1>5 DEF T

\* The queries, and the page that mounts them anew.
LEMMA QueriesKeepData ==
  ASSUME DataInv, UNCHANGED cluster,
         \/ \E asked \in DOMAIN cache : Repoll(asked) \/ FetchFails(asked) \/ FetchDone(asked)
         \/ \E to \in {"dashboard", "results"} : navigate(to)
  PROVE  DataInv'
<1> DEFINE Q == {"results", "policies"}
<1>0. cache \in [Q -> Answers] /\ DOMAIN cache = Q
  BY DEF DataInv
<1>1. made' = made /\ kept' = kept /\ status' = status
  BY DEF cluster
<1>2. CASE \E asked \in DOMAIN cache : Repoll(asked) \/ FetchFails(asked)
  <2>1. PICK asked \in Q, flag \in BOOLEAN : cache' = [cache EXCEPT ![asked].fetching = flag]
    BY <1>0, <1>2 DEF Repoll, FetchFails
  <2>2. cache' \in [Q -> Answers] /\ \A q \in Q : cache'[q].data = cache[q].data
    BY <1>0, <2>1 DEF Answers
  <2> QED BY <1>1, <2>2 DEF DataInv
<1>3. CASE \E asked \in DOMAIN cache : FetchDone(asked)
  <2>1. PICK asked \in Q : FetchDone(asked)
    BY <1>0, <1>3
  <2> DEFINE new == [loaded |-> TRUE, data |-> Answered(asked), fetching |-> FALSE]
  <2>2. cache' = [cache EXCEPT ![asked] = new]
    BY <2>1 DEF FetchDone
  <2>3. Answered("results") = kept
    BY DEF Answered
  <2>4. new \in Answers
    BY <2>3, EntriesAreFinite DEF Answers, DataInv
  <2>5. new.data = Answered(asked)
    OBVIOUS
  <2> HIDE DEF new
  <2>6. cache' \in [Q -> Answers] /\ cache'[asked] = new /\ \A q \in Q \ {asked} : cache'[q] = cache[q]
    BY <1>0, <2>2, <2>4
  <2>7. cache'["results"].data \subseteq made
    BY <2>3, <2>5, <2>6 DEF DataInv
  <2>8. cache'["policies"].data \subseteq Entries /\ IsFiniteSet(cache'["policies"].data)
    BY <2>5, <2>6, EntriesAreFinite DEF DataInv
  <2> QED BY <1>1, <2>6, <2>7, <2>8 DEF DataInv
<1>4. CASE \E to \in {"dashboard", "results"} : navigate(to)
  <2>1. PICK to \in {"dashboard", "results"} : navigate(to)
    BY <1>4
  <2>2. Unfetched \in Answers /\ Unfetched.data = {}
    BY DEF Unfetched, Answers
  <2>3. cache' \in [Q -> Answers] /\ \A q \in Q : cache'[q] = cache[q] \/ cache'[q] = Unfetched
    BY <1>0, <2>1, <2>2 DEF navigate
  <2>4. cache'["results"].data \subseteq made
    BY <2>2, <2>3 DEF DataInv
  <2>5. cache'["policies"].data \subseteq Entries /\ IsFiniteSet(cache'["policies"].data)
    BY <2>2, <2>3, FS_EmptySet DEF DataInv
  <2> QED BY <1>1, <2>3, <2>4, <2>5 DEF DataInv
<1> QED BY <1>2, <1>3, <1>4

\* The clicks and inputs on the page of results.
Click ==
  \/ setFilter("search", "text") \/ setFilter("type", "FullScan")
  \/ \E verdict \in {"PASS", "WARN", "FAIL", ""} : setFilter("verdict", verdict)
  \/ \E policy \in policyNames \cup {""} : setFilter("policy", policy)
  \/ \E to \in 0..(page + 1) : setPage(to)
  \/ \E i \in DOMAIN paged : pick(paged[i])
  \/ unpick \/ expandAll \/ \E id \in ToSet(picked.checks) : toggle(id)

\* No click changes the data.
LEMMA ClickKeepsData ==
  ASSUME Click
  PROVE  UNCHANGED <<made, kept, status, cache, shown>>
BY DEF Click, setFilter, setPage, pick, unpick, expandAll, toggle, Unfold, cluster

\* The data of every step.
LEMMA DataStep == DataInv /\ [OverviewNext]_overview => DataInv'
<1> SUFFICES ASSUME DataInv, [OverviewNext]_overview PROVE DataInv'
  OBVIOUS
<1>1. CASE \/ \E r \in Results \ made : ScanDone(r)
           \/ \E policy \in PolicyNames : PolicyDeleted(policy)
           \/ Reported
  <2>1. UNCHANGED cache
    BY <1>1 DEF ScanDone, PolicyDeleted, Reported, ScanReports, ReconcileReports, BuildFails, Writes
  <2> QED BY <1>1, <2>1, ClusterKeepsData
<1>2. CASE \/ \E asked \in DOMAIN cache : Repoll(asked) \/ FetchFails(asked) \/ FetchDone(asked)
           \/ \E to \in {"dashboard", "results"} : navigate(to)
  <2>1. UNCHANGED cluster
    BY <1>2 DEF Repoll, FetchFails, FetchDone, navigate, cluster
  <2> QED BY <1>2, <2>1, QueriesKeepData
<1>3. CASE Click \/ UNCHANGED overview
  <2>1. UNCHANGED <<made, kept, status, cache>>
    BY <1>3, ClickKeepsData DEF overview
  <2> QED BY <2>1 DEF DataInv
<1> QED BY <1>1, <1>2, <1>3 DEF OverviewNext, Click, Reported
-----------------------------------------------------------------------------
(* The pages.                                                              *)

\* The list of the page has as many results as match.
LEMMA FilteredLength ==
  ASSUME DataInv
  PROVE  /\ Matching \in SUBSET Results /\ IsFiniteSet(Matching)
         /\ Cardinality(Matching) \in Nat
         /\ filteredResults \in Seq(Matching)
         /\ Len(filteredResults) = Cardinality(Matching)
<1>1. Matching \in SUBSET made /\ Matching \in SUBSET Results
  BY DEF Matching, DataInv
<1>2. IsFiniteSet(Matching)
  BY <1>1, FS_Subset DEF DataInv
<1>3. filteredResults = Sorted(Matching)
  BY DEF filteredResults, Matching
<1> QED BY <1>1, <1>2, <1>3, ResultsAreSorted, FS_CardinalityType

\* The number of a page is in range when it is less than the number of pages.
LEMMA PageBelowTotal ==
  ASSUME NEW n \in Nat, NEW size \in Nat \ {0}, NEW k \in Nat,
         k < (n + size - 1) \div size
  PROVE  k * size < n
<1> DEFINE q == (n + size - 1) \div size
<1>1. n + size - 1 \in Nat /\ q \in Int
  OBVIOUS
<1>2. q * size <= n + size - 1
  OBVIOUS
<1>3. (k + 1) * size <= q * size
  <2> HIDE DEF q
  <2>1. k + 1 <= q
    BY <1>1 DEF q
  <2> QED BY <1>1, <2>1
<1>4. (k + 1) * size = k * size + size
  OBVIOUS
<1> HIDE DEF q
<1> QED BY <1>1, <1>2, <1>3, <1>4

\* The pages are in order.
LEMMA PagesAscend ==
  ASSUME NEW k \in Nat, NEW m \in Nat, NEW size \in Nat \ {0}, k <= m
  PROVE  k * size \in Nat /\ m * size \in Nat /\ k * size <= m * size
OBVIOUS

\* The smaller of two numbers.
LEMMA MinOfTwo ==
  ASSUME NEW a \in Nat, NEW b \in Nat
  PROVE  Min({a, b}) = IF a <= b THEN a ELSE b
<1> DEFINE m == IF a <= b THEN a ELSE b
<1>1. m \in {a, b} /\ \A y \in {a, b} : m <= y
  OBVIOUS
<1>2. \A x \in {a, b} : (\A y \in {a, b} : x <= y) => x = m
  OBVIOUS
<1> HIDE DEF m
<1>3. Min({a, b}) = m
  BY <1>1, <1>2 DEF Min
<1> QED BY <1>3 DEF m

\* What is on a page are results, and there are some if its number is in range.
LEMMA PagedResults ==
  ASSUME DataInv, page \in Nat
  PROVE  /\ \A i \in DOMAIN paged : paged[i] \in Results
         /\ page * PAGE_SIZE < Len(filteredResults) => paged /= <<>>
<1> DEFINE list == filteredResults
           n == Len(list)
           low == page * PAGE_SIZE
           high == Min({(page + 1) * PAGE_SIZE, n})
<1>1. PAGE_SIZE \in Nat \ {0}
  BY OverviewConstants
<1>2. list \in Seq(Results) /\ n \in Nat
  BY FilteredLength
<1>3. low \in Nat /\ (page + 1) * PAGE_SIZE = low + PAGE_SIZE /\ (page + 1) * PAGE_SIZE \in Nat
  BY <1>1
<1>4. high = IF low + PAGE_SIZE <= n THEN low + PAGE_SIZE ELSE n
  BY <1>2, <1>3, MinOfTwo
<1>5. paged = SubSeq(list, low + 1, high)
  BY DEF paged
<1> HIDE DEF list, low, high
<1>6. high \in Nat /\ high <= n /\ (low < n => low < high)
  BY <1>1, <1>2, <1>3, <1>4
<1>7. DOMAIN paged = 1..(high - low) /\ \A i \in 1..(high - low) : paged[i] = list[low + i]
  BY <1>2, <1>3, <1>5, <1>6
<1>8. \A i \in 1..(high - low) : low + i \in 1..n
  BY <1>2, <1>3, <1>6
<1>9. \A i \in DOMAIN paged : paged[i] \in Results
  BY <1>2, <1>7, <1>8
<1>10. low < n => paged /= <<>>
  <2> SUFFICES ASSUME low < n PROVE paged /= <<>>
    OBVIOUS
  <2>1. 1 \in DOMAIN paged
    BY <1>2, <1>3, <1>6, <1>7
  <2> QED BY <2>1
<1> QED BY <1>9, <1>10 DEF list, low

\* More data, or the same, with the same filters: the page stays in range.
LEMMA GrowthKeepsRange ==
  ASSUME DataInv, RangeInv, DataInv', UNCHANGED <<page, filter, shrunk>>,
         cache["results"].data \subseteq cache'["results"].data
  PROVE  RangeInv'
<1>1. Matching \in SUBSET Matching'
  BY DEF Matching, Matches
<1>2. IsFiniteSet(Matching') /\ Cardinality(Matching') \in Nat /\ Cardinality(Matching) \in Nat
  <2>1. Matching' \in SUBSET made' /\ IsFiniteSet(made')
    BY DEF Matching, DataInv
  <2>2. IsFiniteSet(Matching')
    BY <2>1, FS_Subset
  <2> QED BY <2>2, FilteredLength, FS_CardinalityType
<1>3. Cardinality(Matching) <= Cardinality(Matching')
  BY <1>1, <1>2, FS_Subset
<1>4. page * PAGE_SIZE \in Nat
  <2>1. PAGE_SIZE \in Nat \ {0}
    BY OverviewConstants
  <2>2. page \in Nat
    BY DEF RangeInv
  <2> QED BY <2>1, <2>2, PagesAscend
<1>5. policyNames \subseteq policyNames'
  BY DEF policyNames
<1>6. page * PAGE_SIZE < Cardinality(Matching) => page * PAGE_SIZE < Cardinality(Matching')
  BY <1>2, <1>3, <1>4
<1> QED BY <1>5, <1>6 DEF RangeInv

\* The toolbar goes to the first page and offers the policies of the list.
LEMMA FilterKeepsRange ==
  ASSUME RangeInv, NEW field \in {"search", "policy", "type", "verdict"}, NEW value,
         setFilter(field, value), field = "policy" => value \in policyNames \cup {""}
  PROVE  RangeInv'
<1>1. /\ page' = 0 /\ filter' = [filter EXCEPT ![field] = value] /\ cache' = cache
      /\ shrunk' = shrunk \ (IF field = "policy" THEN {"page", "policy"} ELSE {"page"})
  BY DEF setFilter
<1>2. DOMAIN filter' = DOMAIN filter /\ policyNames' = policyNames
  BY <1>1 DEF policyNames
<1>3. CASE field = "policy"
  <2>1. filter'.policy \in policyNames \cup {""}
    BY <1>1, <1>3 DEF RangeInv
  <2> QED BY <1>1, <1>2, <2>1 DEF RangeInv
<1>4. CASE field /= "policy"
  <2>1. filter'.policy = filter.policy /\ ("policy" \in shrunk' <=> "policy" \in shrunk)
    BY <1>1, <1>4 DEF RangeInv
  <2> QED BY <1>1, <1>2, <2>1 DEF RangeInv
<1> QED BY <1>3, <1>4

\* Next is offered up to the last page, Previous down to the first.
LEMMA SetPageKeepsRange ==
  ASSUME DataInv, RangeInv, NEW to \in 0..(page + 1), setPage(to)
  PROVE  RangeInv'
<1> DEFINE n == Cardinality(Matching)
<1>1. /\ page' = to /\ filter' = filter /\ cache' = cache /\ shrunk' = shrunk
      /\ (to = page + 1 /\ page < totalPages - 1) \/ to + 1 = page
  BY DEF setPage
<1>2. Matching' = Matching /\ policyNames' = policyNames
  BY <1>1 DEF Matching, Matches, policyNames
<1>3. /\ PAGE_SIZE \in Nat \ {0} /\ page \in Nat /\ to \in Nat /\ n \in Nat
      /\ totalPages = (n + PAGE_SIZE - 1) \div PAGE_SIZE
  <2>1. PAGE_SIZE \in Nat \ {0}
    BY OverviewConstants
  <2>2a. page \in Nat
    BY DEF RangeInv
  <2>2. page \in Nat /\ to \in Nat
    BY <2>2a
  <2>3. n \in Nat /\ Len(filteredResults) = n
    BY FilteredLength
  <2>4. totalPages = (n + PAGE_SIZE - 1) \div PAGE_SIZE
    BY <2>3 DEF totalPages
  <2> QED BY <2>1, <2>2, <2>3, <2>4
<1> HIDE DEF n
<1>4. CASE to = page + 1 /\ page < totalPages - 1
  <2>1. totalPages \in Int
    BY <1>3
  <2>2. to < (n + PAGE_SIZE - 1) \div PAGE_SIZE
    BY <1>3, <1>4, <2>1
  <2>3. to * PAGE_SIZE < n
    BY <1>3, <2>2, PageBelowTotal
  <2> QED BY <1>1, <1>2, <1>3, <2>3 DEF RangeInv, n
<1>5. CASE to + 1 = page
  <2>1. to * PAGE_SIZE \in Nat /\ page * PAGE_SIZE \in Nat /\ to * PAGE_SIZE <= page * PAGE_SIZE
    BY <1>3, <1>5, PagesAscend
  <2>2. page /= 0
    BY <1>3, <1>5
  <2>3. "page" \notin shrunk => page * PAGE_SIZE < n
    BY <2>2 DEF RangeInv, n
  <2>4. "page" \notin shrunk => to * PAGE_SIZE < n
    BY <1>3, <2>1, <2>3
  <2> QED BY <1>1, <1>2, <1>3, <2>4 DEF RangeInv, n
<1> QED BY <1>1, <1>4, <1>5

\* Every step keeps the page in range.
LEMMA RangeStep == DataInv /\ RangeInv /\ [OverviewNext]_overview => RangeInv'
<1> SUFFICES ASSUME DataInv, RangeInv, [OverviewNext]_overview PROVE RangeInv'
  OBVIOUS
<1>0. DataInv'
  BY DataStep
<1>1. CASE UNCHANGED <<page, filter, shrunk>> /\ cache' = cache
  BY <1>0, <1>1, GrowthKeepsRange
<1>2. CASE \/ \E r \in Results \ made : ScanDone(r)
           \/ \E policy \in PolicyNames : PolicyDeleted(policy)
           \/ Reported
  BY <1>1, <1>2
     DEF ScanDone, PolicyDeleted, Reported, ScanReports, ReconcileReports, BuildFails, Writes, results
<1>3. CASE \E asked \in DOMAIN cache : Repoll(asked) \/ FetchFails(asked)
  <2>1. PICK asked \in DOMAIN cache : Repoll(asked) \/ FetchFails(asked)
    BY <1>3
  <2>2. PICK flag \in BOOLEAN : cache' = [cache EXCEPT ![asked].fetching = flag]
    BY <2>1 DEF Repoll, FetchFails
  <2>3. cache'["results"].data = cache["results"].data
    BY <2>1, <2>2 DEF DataInv, Answers
  <2>4. UNCHANGED <<page, filter, shrunk>>
    BY <2>1 DEF Repoll, FetchFails, results
  <2> QED BY <1>0, <2>3, <2>4, GrowthKeepsRange
<1>4. CASE \E asked \in DOMAIN cache : FetchDone(asked)
  <2>1. PICK asked \in DOMAIN cache : FetchDone(asked)
    BY <1>4
  <2>2. /\ page' = page /\ filter' = filter
        /\ cache' = [cache EXCEPT ![asked] = [loaded |-> TRUE, data |-> Answered(asked),
                                              fetching |-> FALSE]]
    BY <2>1 DEF FetchDone
  <2>3. CASE shrunk' = {"page", "policy"}
    BY <2>2, <2>3 DEF RangeInv
  <2>4. CASE shrunk' = shrunk /\ (asked = "results" => cache[asked].data \subseteq kept)
    <3>1. asked = "results" => cache'["results"].data = kept
      BY <2>1, <2>2 DEF Answered, DataInv
    <3>2. asked /= "results" => cache'["results"] = cache["results"]
      BY <2>2
    <3>3. cache["results"].data \subseteq cache'["results"].data
      BY <2>4, <3>1, <3>2
    <3> QED BY <1>0, <2>2, <2>4, <3>3, GrowthKeepsRange
  <2> QED BY <2>1, <2>3, <2>4 DEF FetchDone
<1>5. CASE \E to \in {"dashboard", "results"} : navigate(to)
  <2>1. page' = 0 /\ filter' = NoFilter
    BY <1>5 DEF navigate
  <2>2. DOMAIN filter' = {"search", "policy", "type", "verdict"} /\ filter'.policy = ""
    BY <2>1 DEF NoFilter
  <2> QED BY <2>1, <2>2 DEF RangeInv
<1>6. CASE Click
  <2>1. CASE \/ setFilter("search", "text") \/ setFilter("type", "FullScan")
             \/ \E verdict \in {"PASS", "WARN", "FAIL", ""} : setFilter("verdict", verdict)
             \/ \E policy \in policyNames \cup {""} : setFilter("policy", policy)
    BY <2>1, FilterKeepsRange
  <2>2. CASE \E to \in 0..(page + 1) : setPage(to)
    BY <2>2, SetPageKeepsRange
  <2>3. CASE \/ \E i \in DOMAIN paged : pick(paged[i])
             \/ unpick \/ expandAll \/ \E id \in ToSet(picked.checks) : toggle(id)
    BY <1>1, <2>3 DEF pick, unpick, expandAll, toggle, Unfold
  <2> QED BY <1>6, <2>1, <2>2, <2>3 DEF Click
<1>7. CASE UNCHANGED overview
  BY <1>1, <1>7 DEF overview
<1> QED BY <1>2, <1>3, <1>4, <1>5, <1>6, <1>7 DEF OverviewNext, Click, Reported
-----------------------------------------------------------------------------
(* The detail view, and the theorems.                                      *)

\* Every step unfolds only checks of the result that is looked at.
LEMMA FoldStep == DataInv /\ RangeInv /\ FoldInv /\ [OverviewNext]_overview => FoldInv'
<1> SUFFICES ASSUME DataInv, RangeInv, FoldInv, [OverviewNext]_overview PROVE FoldInv'
  OBVIOUS
<1>0. Nothing.checks = <<>> /\ Nothing.checks \in Seq(STRING) /\ ToSet(Nothing.checks) = {}
  BY DEF Nothing, ToSet
<1>1. CASE picked' = picked /\ expanded' \subseteq ToSet(picked.checks)
  BY <1>1 DEF FoldInv
<1>2. CASE picked' = Nothing /\ expanded' = {}
  BY <1>0, <1>2 DEF FoldInv
<1>3. CASE \E i \in DOMAIN paged : pick(paged[i])
  <2>1. PICK i \in DOMAIN paged : pick(paged[i])
    BY <1>3
  <2>2. paged[i] \in Results
    BY PagedResults DEF RangeInv
  <2>3. picked = Nothing /\ picked' = paged[i] /\ expanded' = expanded
    BY <2>1 DEF pick, Listing
  <2>4. paged[i].checks \in Seq(STRING)
    BY <2>2, OverviewConstants
  <2>5. expanded = {}
    BY <1>0, <2>3 DEF FoldInv
  <2> QED BY <2>3, <2>4, <2>5 DEF FoldInv
<1>4. CASE expandAll \/ \E id \in ToSet(picked.checks) : toggle(id)
  <2>1. picked' = picked
    BY <1>4 DEF expandAll, toggle, Unfold
  <2>2. expanded' \subseteq ToSet(picked.checks)
    BY <1>4 DEF expandAll, toggle, Unfold, FoldInv
  <2> QED BY <1>1, <2>1, <2>2
<1>5. CASE unpick \/ \E to \in {"dashboard", "results"} : navigate(to)
  BY <1>2, <1>5 DEF unpick, navigate
<1>6. CASE UNCHANGED <<picked, expanded>>
  BY <1>1, <1>6 DEF FoldInv
<1>7. CASE \/ \E r \in Results \ made : ScanDone(r)
           \/ \E policy \in PolicyNames : PolicyDeleted(policy)
           \/ Reported
           \/ \E asked \in DOMAIN cache : Repoll(asked) \/ FetchFails(asked) \/ FetchDone(asked)
  BY <1>6, <1>7
     DEF ScanDone, PolicyDeleted, Reported, ScanReports, ReconcileReports, BuildFails, Writes,
         Repoll, FetchFails, FetchDone, results
<1>8. CASE \/ setFilter("search", "text") \/ setFilter("type", "FullScan")
           \/ \E verdict \in {"PASS", "WARN", "FAIL", ""} : setFilter("verdict", verdict)
           \/ \E policy \in policyNames \cup {""} : setFilter("policy", policy)
           \/ \E to \in 0..(page + 1) : setPage(to)
  BY <1>6, <1>8 DEF setFilter, setPage
<1>9. CASE UNCHANGED overview
  BY <1>6, <1>9 DEF overview
<1> QED BY <1>3, <1>4, <1>5, <1>7, <1>8, <1>9 DEF OverviewNext, Reported

\* The inductive invariant of the dashboard and the results holds of every reachable
\* state: of data, pages and unfolded checks together.
THEOREM OverviewInvariant == OverviewSpec => []OverviewInv
<1>1. OverviewInit => OverviewInv
  BY InitOverviewInv
<1>2. OverviewInv /\ [OverviewNext]_overview => OverviewInv'
  BY DataStep, RangeStep, FoldStep DEF OverviewInv
<1> QED BY <1>1, <1>2, PTL DEF OverviewSpec

\* There is something on the page the user is on, if anything matches the filters,
\* and the policy filtered by is one the toolbar offers, unless results have gone
\* since: Results.tsx never clamps its page number, and that is the only way out.
THEOREM PageInRange == OverviewSpec => []InRange
<1>1. OverviewInv => InRange
  <2> SUFFICES ASSUME DataInv, RangeInv PROVE InRange
    BY DEF OverviewInv
  <2>1. ASSUME filteredResults /= <<>>, "page" \notin shrunk PROVE paged /= <<>>
    <3>1. Len(filteredResults) = Cardinality(Matching) /\ Len(filteredResults) \in Nat
      BY FilteredLength
    <3>2. Len(filteredResults) > 0
      BY <2>1, FilteredLength
    <3>3. page = 0 \/ page * PAGE_SIZE < Len(filteredResults)
      BY <2>1, <3>1 DEF RangeInv
    <3>4. page = 0 => page * PAGE_SIZE = 0
      BY OverviewConstants
    <3>5. page * PAGE_SIZE < Len(filteredResults)
      BY <3>2, <3>3, <3>4
    <3> QED BY <3>5, PagedResults DEF RangeInv
  <2> QED BY <2>1 DEF InRange, RangeInv
<1> QED BY <1>1, OverviewInvariant, PTL

\* A list names as many IDs as it has places exactly when no ID occurs twice.
LEMMA IDsOfList ==
  ASSUME NEW list \in Seq(STRING)
  PROVE  /\ IsFiniteSet(ToSet(list)) /\ Cardinality(ToSet(list)) \in Nat
         /\ Cardinality(ToSet(list)) <= Len(list)
         /\ Cardinality(ToSet(list)) = Len(list) <=> IsInjective(list)
<1> DEFINE D == 1..Len(list)
           T == ToSet(list)
<1>1. Len(list) \in Nat /\ DOMAIN list = D
  OBVIOUS
<1>2. list \in [D -> T] /\ T = {list[i] : i \in D}
  BY <1>1 DEF ToSet
<1>3. list \in Surjection(D, T)
  BY <1>2 DEF Surjection
<1>4. IsFiniteSet(D) /\ Cardinality(D) = Len(list)
  BY <1>1, FS_Interval
<1> HIDE DEF D, T
<1>5. /\ IsFiniteSet(T) /\ Cardinality(T) <= Cardinality(D)
      /\ Cardinality(T) = Cardinality(D) <=> list \in Injection(D, T)
  BY <1>3, <1>4, FS_Surjection
<1>6. list \in Injection(D, T) <=> IsInjective(list)
  BY <1>2 DEF Injection, IsInjective
<1> QED BY <1>4, <1>5, <1>6, FS_CardinalityType DEF T

\* Collapse All is offered exactly when every check of the result is unfolded and no
\* ID occurs twice in it: expandAll of Results.tsx compares a set's size with a
\* list's length.
THEOREM CollapseIsOfferedRightly == OverviewSpec => []CollapseWhenAllUnfolded
<1>1. OverviewInv => CollapseWhenAllUnfolded
  <2> SUFFICES ASSUME FoldInv
               PROVE  CollapseOffered <=> expanded = ToSet(picked.checks) /\ IsInjective(picked.checks)
    BY DEF OverviewInv, CollapseWhenAllUnfolded
  <2> DEFINE list == picked.checks
             T == ToSet(list)
  <2>1. list \in Seq(STRING) /\ expanded \in SUBSET T
    BY DEF FoldInv
  <2>2. Len(list) \in Nat
    BY <2>1
  <2> HIDE DEF list
  <2>3. /\ IsFiniteSet(T) /\ Cardinality(T) \in Nat /\ Cardinality(T) <= Len(list)
        /\ Cardinality(T) = Len(list) <=> IsInjective(list)
    BY <2>1, IDsOfList
  <2> HIDE DEF T
  <2>4. /\ IsFiniteSet(expanded) /\ Cardinality(expanded) <= Cardinality(T)
        /\ Cardinality(T) = Cardinality(expanded) => T = expanded
    BY <2>1, <2>3, FS_Subset
  <2>5. Cardinality(expanded) \in Nat
    BY <2>4, FS_CardinalityType
  <2>6. Cardinality(expanded) = Len(list) => Cardinality(T) = Cardinality(expanded) /\ Cardinality(T) = Len(list)
    BY <2>2, <2>3, <2>4, <2>5
  <2>7. Cardinality(expanded) = Len(list) <=> expanded = T /\ IsInjective(list)
    BY <2>3, <2>4, <2>6
  <2> QED BY <2>7 DEF CollapseOffered, T, list
<1> QED BY <1>1, OverviewInvariant, PTL

\* Of a summary, exactly one of the three verdicts of the toolbar holds.
LEMMA OneVerdict ==
  ASSUME NEW r, r.summary \in Summaries, ~ r.summary.none
  PROVE  Cardinality({verdict \in {"PASS", "WARN", "FAIL"} : HasVerdict(r, verdict)}) = 1
<1> DEFINE V == {verdict \in {"PASS", "WARN", "FAIL"} : HasVerdict(r, verdict)}
           one == IF r.summary.fail > 0 THEN "FAIL" ELSE IF r.summary.warn > 0 THEN "WARN" ELSE "PASS"
<1>1. r.summary.fail \in Nat /\ r.summary.warn \in Nat
  <2>1. r.summary /= NoSummary
    BY DEF NoSummary
  <2> QED BY <2>1 DEF Summaries
<1>2. HasVerdict(r, "PASS") <=> r.summary.fail = 0 /\ r.summary.warn = 0
  BY DEF HasVerdict
<1>3. HasVerdict(r, "WARN") <=> r.summary.warn > 0 /\ r.summary.fail = 0
  BY DEF HasVerdict
<1>4. HasVerdict(r, "FAIL") <=> r.summary.fail > 0
  BY DEF HasVerdict
<1>5. V = {one}
  <2>1. CASE r.summary.fail > 0
    <3>1. ~ HasVerdict(r, "PASS") /\ ~ HasVerdict(r, "WARN") /\ HasVerdict(r, "FAIL")
      BY <1>1, <1>2, <1>3, <1>4, <2>1
    <3> QED BY <2>1, <3>1
  <2>2. CASE ~ r.summary.fail > 0 /\ r.summary.warn > 0
    <3>1. ~ HasVerdict(r, "PASS") /\ HasVerdict(r, "WARN") /\ ~ HasVerdict(r, "FAIL")
      BY <1>1, <1>2, <1>3, <1>4, <2>2
    <3> QED BY <2>2, <3>1
  <2>3. CASE ~ r.summary.fail > 0 /\ ~ r.summary.warn > 0
    <3>1. HasVerdict(r, "PASS") /\ ~ HasVerdict(r, "WARN") /\ ~ HasVerdict(r, "FAIL")
      BY <1>1, <1>2, <1>3, <1>4, <2>3
    <3> QED BY <2>3, <3>1
  <2> QED BY <2>1, <2>2, <2>3
<1> QED BY <1>5, FS_Singleton

\* A card says failing exactly when the summary counts a failure.
LEMMA CardFails ==
  ASSUME NEW p, p.status.summary \in Summaries
  PROVE  /\ p.status.summary["fail"] \in Nat
         /\ card(p) /= "failing" <=> p.status.summary["fail"] = 0
<1> DEFINE s == p.status.summary
<1>1. CASE s = NoSummary
  BY <1>1 DEF card, NoSummary
<1>2. CASE s \in [pass : Nat, warn : Nat, fail : Nat, none : {FALSE}]
  BY <1>2 DEF card
<1> QED BY <1>1, <1>2 DEF Summaries

\* The two renderings of a policy's conditions.
LEMMA BadgeIsDetail ==
  ASSUME NEW set
  PROVE  LET badge == ConditionBadge(set)
             detail == DetailCard(set)
         IN  /\ (badge = "-") <=> (detail = "Pending")
             /\ {badge, detail} \cap {"Error", "Healthy"} /= {} => badge = detail
<1>0. set = {} => ~ Has(set, "Degraded") /\ ~ Has(set, "Available")
  BY DEF Has
<1>1. CASE set = {}
  <2>1. ConditionBadge(set) = "-" /\ DetailCard(set) = "Pending"
    BY <1>0, <1>1 DEF ConditionBadge, DetailCard
  <2> QED BY <2>1
<1>2. CASE set /= {} /\ Has(set, "Degraded")
  <2>1. ConditionBadge(set) = "Error" /\ DetailCard(set) = "Error"
    BY <1>2 DEF ConditionBadge, DetailCard
  <2> QED BY <2>1
<1>3. CASE set /= {} /\ ~ Has(set, "Degraded") /\ Has(set, "Available")
  <2>1. ConditionBadge(set) = "Healthy" /\ DetailCard(set) = "Healthy"
    BY <1>3 DEF ConditionBadge, DetailCard
  <2> QED BY <2>1
<1>4. CASE set /= {} /\ ~ Has(set, "Degraded") /\ ~ Has(set, "Available")
  <2>1. ConditionBadge(set) = "other" /\ DetailCard(set) = "none"
    BY <1>4 DEF ConditionBadge, DetailCard
  <2> QED BY <2>1
<1> QED BY <1>1, <1>2, <1>3, <1>4

\* The badge of a truthful status, beside the card.
LEMMA CardBesideBadge ==
  ASSUME NEW p, p.status \in Known
  PROVE  LET badge == ConditionBadge(p.status.conditions)
         IN  /\ badge \in {"-", "Error", "Healthy"}
             /\ card(p) = "failing" => badge = "Error"
             /\ badge = "Error" => card(p) = "failing" \/ p.status.broken
<1> DEFINE st == p.status
<1>1. st.summary \in Summaries /\ Truthful(st)
  BY DEF Known
<1>2. card(p) = "failing" <=> Failing(st)
  <2>1. CASE st.summary = NoSummary
    <3>1. p.status.summary.none
      BY <2>1 DEF NoSummary
    <3>2. card(p) = "No data"
      BY <3>1 DEF card
    <3> QED BY <3>1, <3>2 DEF Failing
  <2>2. CASE st.summary \in [pass : Nat, warn : Nat, fail : Nat, none : {FALSE}]
    <3>1. ~ p.status.summary.none /\ p.status.summary.fail \in Nat
      BY <2>2
    <3>2. CASE p.status.summary.fail = 0
      <4>1. card(p) = "Healthy" /\ ~ Failing(st)
        BY <3>1, <3>2 DEF card, Failing
      <4> QED BY <4>1
    <3>3. CASE p.status.summary.fail > 0
      <4>1. p.status.summary.fail /= 0
        BY <3>3
      <4>2. card(p) = "failing"
        BY <3>1, <4>1 DEF card
      <4>3. Failing(st)
        BY <3>1, <3>3 DEF Failing
      <4> QED BY <4>2, <4>3
    <3> QED BY <3>1, <3>2, <3>3
  <2> QED BY <1>1, <2>1, <2>2 DEF Summaries
<1> HIDE DEF st
<1>3. CASE st.conditions = {}
  <2>1. ConditionBadge(st.conditions) = "-" /\ ~ Failing(st)
    BY <1>1, <1>3 DEF ConditionBadge, Truthful, Has
  <2> QED BY <1>2, <2>1 DEF st
<1>4. CASE st.conditions /= {} /\ Has(st.conditions, "Degraded")
  <2>1. ConditionBadge(st.conditions) = "Error" /\ (Failing(st) \/ st.broken)
    BY <1>1, <1>4 DEF ConditionBadge, Truthful
  <2> QED BY <1>2, <2>1 DEF st
<1>5. CASE st.conditions /= {} /\ ~ Has(st.conditions, "Degraded")
  <2>1. Has(st.conditions, "Available") /\ ~ Failing(st)
    BY <1>1, <1>5 DEF Truthful
  <2>2. ConditionBadge(st.conditions) = "Healthy"
    BY <1>5, <2>1 DEF ConditionBadge
  <2> QED BY <1>2, <2>1, <2>2 DEF st
<1> QED BY <1>3, <1>4, <1>5

\* The filters by verdict split the results that have a summary, the dashboard counts
\* no failing check exactly when no card says failing, the two views of a policy agree
\* on its health, and so do card and badge but after a failed build, whatever scans
\* found and however scans and reconciliations write their conditions in turn.
THEOREM HealthIsConsistent == OverviewSpec => []HealthAgrees
<1>1. OverviewInv => HealthAgrees
  <2> SUFFICES ASSUME DataInv PROVE HealthAgrees
    BY DEF OverviewInv
  <2>1. VerdictsPartition
    <3> SUFFICES ASSUME NEW r \in cache["results"].data, ~ r.summary.none
                 PROVE  Cardinality({verdict \in {"PASS", "WARN", "FAIL"} : HasVerdict(r, verdict)}) = 1
      BY DEF VerdictsPartition
    <3>1. r \in Results
      BY DEF DataInv
    <3>2. r.summary \in Summaries
      BY <3>1, OverviewConstants
    <3> QED BY <3>2, OneVerdict
  <2>2. TotalsMatchCards
    <3>1. \A p \in cache["policies"].data : p.status.summary \in Summaries
      <4> SUFFICES ASSUME NEW p \in Entries PROVE p.status.summary \in Summaries
        BY DEF DataInv
      <4> QED BY DEF Entries, Known
    <3>2. \A p \in cache["policies"].data :
            /\ p.status.summary["fail"] \in Nat
            /\ card(p) /= "failing" <=> p.status.summary["fail"] = 0
      BY <3>1, CardFails
    <3>3. IsFiniteSet(cache["policies"].data)
      BY DEF DataInv
    <3>4. agg("fail") = 0 <=> \A p \in cache["policies"].data : p.status.summary["fail"] = 0
      BY <3>2, <3>3, AggIsZero
    <3> QED BY <3>2, <3>4 DEF TotalsMatchCards
  <2>3. BadgesAgree
    BY BadgeIsDetail DEF BadgesAgree
  <2>4. CardsMatchBadges
    <3>1. \A p \in cache["policies"].data : p.status \in Known
      BY DEF DataInv, Entries
    <3> QED BY <3>1, CardBesideBadge DEF CardsMatchBadges
  <2> QED BY <2>1, <2>2, <2>3, <2>4 DEF HealthAgrees
<1> QED BY <1>1, OverviewInvariant, PTL
-----------------------------------------------------------------------------
(* The comboboxes.                                                         *)

\* What the namespaces in a list are.
Words == STRING

\* The loop behind value.filter, over the first places of the list.
Filters(f, value, item, k) ==
  \A n \in 0..k :
    f[n] = IF n = 0 THEN <<>>
           ELSE IF value[n] /= item THEN Append(f[n - 1], value[n])
           ELSE f[n - 1]

\* There is such a loop, whatever the length of the list.
LEMMA FilterExists ==
  ASSUME NEW value \in Seq(Words), NEW item
  PROVE  \E f \in [0..Len(value) -> Seq(Words)] : Filters(f, value, item, Len(value))
<1> DEFINE Bad == {k \in 0..Len(value) :
                     ~\E f \in [0..k -> Seq(Words)] : Filters(f, value, item, k)}
<1>0. Len(value) \in Nat /\ \A n \in 1..Len(value) : value[n] \in Words
  OBVIOUS
<1>1. Bad = {}
  <2> SUFFICES ASSUME Bad /= {} PROVE FALSE
    OBVIOUS
  <2>1. Bad \in SUBSET Nat
    BY <1>0
  <2>2. PICK k \in Bad : \A m \in Bad : k <= m
    <3> HIDE DEF Bad
    <3> QED BY <2>1, LeastOf
  <2>3. k \in 0..Len(value) /\ ~\E f \in [0..k -> Seq(Words)] : Filters(f, value, item, k)
    OBVIOUS
  <2>4. CASE k = 0
    <3> DEFINE f == [n \in 0..0 |-> <<>>]
    <3>1. f \in [0..k -> Seq(Words)]
      BY <2>4
    <3>2. Filters(f, value, item, k)
      BY <2>4 DEF Filters
    <3> QED BY <2>3, <3>1, <3>2
  <2>5. CASE k /= 0
    <3>1. k - 1 \in 0..Len(value) /\ k \in 1..Len(value) /\ ~(k <= k - 1)
      BY <1>0, <2>3, <2>5
    <3>2. k - 1 \notin Bad
      BY <2>2, <3>1
    <3>3. PICK g \in [0..(k - 1) -> Seq(Words)] : Filters(g, value, item, k - 1)
      BY <3>1, <3>2
    <3> DEFINE last == IF value[k] /= item THEN Append(g[k - 1], value[k]) ELSE g[k - 1]
               f == [n \in 0..k |-> IF n < k THEN g[n] ELSE last]
    <3>4. g[k - 1] \in Seq(Words) /\ value[k] \in Words
      BY <1>0, <3>1, <3>3
    <3>5. last \in Seq(Words)
      <4>1. Append(g[k - 1], value[k]) \in Seq(Words)
        BY <3>4
      <4> QED BY <3>4, <4>1
    <3> HIDE DEF last
    <3>6. f \in [0..k -> Seq(Words)]
      <4> SUFFICES ASSUME NEW n \in 0..k, n < k PROVE g[n] \in Seq(Words)
        BY <3>5
      <4>1. n \in 0..(k - 1)
        BY <3>1
      <4> QED BY <3>3, <4>1
    <3>7. Filters(f, value, item, k)
      <4> SUFFICES ASSUME NEW n \in 0..k
                   PROVE  f[n] = IF n = 0 THEN <<>>
                                 ELSE IF value[n] /= item THEN Append(f[n - 1], value[n])
                                 ELSE f[n - 1]
        BY DEF Filters
      <4>1. CASE n < k
        <5>1. n \in 0..(k - 1) /\ (n /= 0 => n - 1 \in 0..k /\ n - 1 < k)
          BY <3>1, <4>1
        <5>2. f[n] = g[n] /\ (n /= 0 => f[n - 1] = g[n - 1])
          BY <4>1, <5>1
        <5> QED BY <3>3, <5>1, <5>2 DEF Filters
      <4>2. CASE ~(n < k)
        <5>1. n = k /\ n /= 0 /\ n - 1 \in 0..k /\ n - 1 < k
          BY <2>5, <3>1, <4>2
        <5>2. f[n] = last /\ f[n - 1] = g[k - 1]
          BY <5>1
        <5> QED BY <5>1, <5>2 DEF last
      <4> QED BY <4>1, <4>2
    <3> HIDE DEF f
    <3> QED BY <2>3, <3>6, <3>7
  <2> QED BY <2>4, <2>5
<1>2. Len(value) \notin Bad /\ Len(value) \in 0..Len(value)
  BY <1>0, <1>1
<1> QED BY <1>2

\* A list made of values at the first n places: what occurs in it twice occurs twice
\* at those places.
Drawn(list, value, n) ==
  /\ list \in Seq(Words)
  /\ \A i \in 1..Len(list) : \E j \in 1..n : list[i] = value[j]
  /\ \A item : Twice(list, item) =>
       \E i, j \in 1..n : i /= j /\ value[i] = item /\ value[j] = item

\* The places of a list that one value is added to.
LEMMA AppendPlaces ==
  ASSUME NEW S, NEW list \in Seq(S), NEW e \in S
  PROVE  /\ Append(list, e) \in Seq(S) /\ Len(list) \in Nat
         /\ DOMAIN list = 1..Len(list) /\ DOMAIN Append(list, e) = 1..(Len(list) + 1)
         /\ Len(Append(list, e)) = Len(list) + 1 /\ Append(list, e)[Len(list) + 1] = e
         /\ \A i \in 1..Len(list) : Append(list, e)[i] = list[i]
<1>1. Len(list) \in Nat /\ Append(list, e) \in Seq(S) /\ Len(Append(list, e)) = Len(list) + 1
  OBVIOUS
<1>2. Append(list, e)[Len(list) + 1] = e
  BY <1>1
<1>3. \A i \in 1..Len(list) : Append(list, e)[i] = list[i]
  BY <1>1
<1> QED BY <1>1, <1>2, <1>3

\* What occurs twice in a longer list.
LEMMA AppendTwice ==
  ASSUME NEW S, NEW list \in Seq(S), NEW e \in S, NEW item
  PROVE  Twice(Append(list, e), item) =>
           Twice(list, item) \/ (item = e /\ \E i \in 1..Len(list) : list[i] = e)
<1> SUFFICES ASSUME Twice(Append(list, e), item), ~ Twice(list, item)
             PROVE  item = e /\ \E i \in 1..Len(list) : list[i] = e
  OBVIOUS
<1>0. /\ Append(list, e)[Len(list) + 1] = e
      /\ \A i \in 1..Len(list) : Append(list, e)[i] = list[i]
  BY AppendPlaces
<1> DEFINE more == Append(list, e)
           n == Len(list)
<1>1. n \in Nat /\ DOMAIN list = 1..n /\ DOMAIN more = 1..(n + 1)
  OBVIOUS
<1>2. more[n + 1] = e /\ \A i \in 1..n : more[i] = list[i]
  BY <1>0
<1>3. PICK i \in DOMAIN more : \E j \in DOMAIN more : i /= j /\ more[i] = item /\ more[j] = item
  BY DEF Twice
<1>4. PICK j \in DOMAIN more : i /= j /\ more[i] = item /\ more[j] = item
  BY <1>3
<1> HIDE DEF more, n
<1>5. i \in 1..(n + 1) /\ j \in 1..(n + 1)
  BY <1>1
<1>6. ~(i \in 1..n /\ j \in 1..n)
  BY <1>1, <1>2, <1>4 DEF Twice
<1>7. CASE i = n + 1
  <2>1. j \in 1..n
    BY <1>1, <1>4, <1>5, <1>7
  <2> QED BY <1>2, <1>4, <1>7, <2>1 DEF n
<1>8. CASE j = n + 1
  <2>1. i \in 1..n
    BY <1>1, <1>4, <1>5, <1>8
  <2> QED BY <1>2, <1>4, <1>8, <2>1 DEF n
<1>9. i = n + 1 \/ j = n + 1
  BY <1>1, <1>5, <1>6
<1> QED BY <1>7, <1>8, <1>9

\* The loop draws from the places it has seen.
LEMMA FilterDraws ==
  ASSUME NEW value \in Seq(Words), NEW item, NEW f, Filters(f, value, item, Len(value))
  PROVE  \A n \in 0..Len(value) : Drawn(f[n], value, n)
<1> DEFINE Bad == {n \in 0..Len(value) : ~ Drawn(f[n], value, n)}
<1>0. Len(value) \in Nat /\ \A n \in 1..Len(value) : value[n] \in Words
  OBVIOUS
<1> SUFFICES ASSUME Bad /= {} PROVE FALSE
  OBVIOUS
<1>1. PICK k \in Bad : \A m \in Bad : k <= m
  <2>1. Bad \in SUBSET Nat
    BY <1>0
  <2> HIDE DEF Bad
  <2> QED BY <2>1, LeastOf
<1>2. k \in 0..Len(value) /\ ~ Drawn(f[k], value, k)
  OBVIOUS
<1>3. CASE k = 0
  <2>1. f[k] = <<>>
    BY <1>2, <1>3 DEF Filters
  <2> QED BY <1>2, <2>1 DEF Drawn, Twice
<1>4. CASE k /= 0
  <2> DEFINE list == f[k - 1]
             e == value[k]
  <2>1. /\ k - 1 \in 0..Len(value) /\ k \in 1..Len(value) /\ ~(k <= k - 1)
        /\ 1..(k - 1) \subseteq 1..k /\ k \in 1..k /\ k \notin 1..(k - 1)
    BY <1>0, <1>2, <1>4
  <2>2. Drawn(list, value, k - 1)
    BY <1>1, <2>1
  <2>3. e \in Words /\ (f[k] = list \/ f[k] = Append(list, e))
    BY <1>0, <1>2, <1>4, <2>1 DEF Filters
  <2> HIDE DEF list
  <2>4. CASE f[k] = list
    BY <1>2, <2>1, <2>2, <2>4 DEF Drawn
  <2>5. CASE f[k] = Append(list, e)
    <3>1. list \in Seq(Words) /\ Append(list, e) \in Seq(Words) /\ Len(list) \in Nat
      BY <2>2, <2>3 DEF Drawn
    <3>2. /\ Len(Append(list, e)) = Len(list) + 1 /\ Append(list, e)[Len(list) + 1] = e
          /\ \A i \in 1..Len(list) : Append(list, e)[i] = list[i]
      BY <3>1
    <3>3. \A i \in 1..Len(f[k]) : \E j \in 1..k : f[k][i] = value[j]
      <4> SUFFICES ASSUME NEW i \in 1..(Len(list) + 1)
                   PROVE  \E j \in 1..k : Append(list, e)[i] = value[j]
        BY <2>5, <3>2
      <4>1. CASE i = Len(list) + 1
        BY <2>1, <3>2, <4>1
      <4>2. CASE i \in 1..Len(list)
        BY <2>1, <2>2, <3>2, <4>2 DEF Drawn
      <4>3. i = Len(list) + 1 \/ i \in 1..Len(list)
        BY <3>1
      <4> QED BY <4>1, <4>2, <4>3
    <3>4. ASSUME NEW it, Twice(f[k], it)
          PROVE  \E i, j \in 1..k : i /= j /\ value[i] = it /\ value[j] = it
      <4>1. Twice(list, it) \/ (it = e /\ \E i \in 1..Len(list) : list[i] = e)
        <5>1. Twice(Append(list, e), it)
          BY <2>5, <3>4
        <5> HIDE DEF e
        <5> QED BY <2>3, <3>1, <5>1, AppendTwice
      <4>2. CASE Twice(list, it)
        BY <2>1, <2>2, <4>2 DEF Drawn
      <4>3. CASE it = e /\ \E i \in 1..Len(list) : list[i] = e
        <5>1. PICK j \in 1..(k - 1) : value[j] = e
          BY <2>2, <4>3 DEF Drawn
        <5> QED BY <2>1, <4>3, <5>1
      <4> QED BY <4>1, <4>2, <4>3
    <3> QED BY <1>2, <2>5, <3>1, <3>3, <3>4 DEF Drawn
  <2> QED BY <2>3, <2>4, <2>5
<1> QED BY <1>3, <1>4

\* value.filter of the combobox returns a list, and nothing occurs in it twice that
\* did not before.
LEMMA WithoutKeeps ==
  ASSUME NEW value \in Seq(Words), NEW item
  PROVE  /\ Without(value, item) \in Seq(Words)
         /\ \A other : Twice(Without(value, item), other) => Twice(value, other)
<1> DEFINE N == Len(value)
           Equation(g) == g = [n \in 0..N |->
                                 IF n = 0 THEN <<>>
                                 ELSE IF value[n] /= item THEN Append(g[n - 1], value[n])
                                 ELSE g[n - 1]]
           rest == CHOOSE g : Equation(g)
<1>1. Without(value, item) = rest[N]
  BY DEF Without
<1>2. N \in Nat /\ DOMAIN value = 1..N /\ N \in 0..N
  OBVIOUS
<1>3. \A g : Equation(g) => Filters(g, value, item, N)
  BY DEF Filters
<1>4. \E g : Equation(g)
  <2>1. PICK g \in [0..N -> Seq(Words)] : Filters(g, value, item, N)
    BY FilterExists
  <2>2. Equation(g)
    BY <2>1 DEF Filters
  <2> QED BY <2>2
<1> HIDE DEF Equation
<1>5. Filters(rest, value, item, N)
  BY <1>3, <1>4
<1> HIDE DEF rest
<1>6. Drawn(rest[N], value, N)
  BY <1>2, <1>5, FilterDraws
<1>7. rest[N] \in Seq(Words)
  BY <1>6 DEF Drawn
<1>8. ASSUME NEW other, Twice(rest[N], other) PROVE Twice(value, other)
  <2>1. \E i, j \in 1..N : i /= j /\ value[i] = other /\ value[j] = other
    BY <1>6, <1>8 DEF Drawn
  <2> QED BY <1>2, <2>1 DEF Twice
<1> QED BY <1>1, <1>7, <1>8

\* Choosing and taking away values adds no value that is there already.
LEMMA ValuesStayDistinct ==
  ASSUME NEW value \in Seq(Words), NEW item \in Words, NEW box
  PROVE  /\ toggled(value, item) \in Seq(Words)
         /\ backspaced(box, value) \in Seq(Words)
         /\ \A other : /\ Twice(toggled(value, item), other) => Twice(value, other)
                       /\ Twice(backspaced(box, value), other) => Twice(value, other)
<1>1. item \in ToSet(value) <=> \E i \in 1..Len(value) : value[i] = item
  <2>1. DOMAIN value = 1..Len(value)
    OBVIOUS
  <2> QED BY <2>1 DEF ToSet
<1>2. CASE item \in ToSet(value)
  <2>1. toggled(value, item) = Without(value, item)
    BY <1>2 DEF toggled
  <2>2. backspaced(box, value) = value \/ backspaced(box, value) = Without(value, Last(value))
    BY DEF backspaced
  <2> QED BY <2>1, <2>2, WithoutKeeps
<1>3. CASE item \notin ToSet(value)
  <2>1. toggled(value, item) = Append(value, item) /\ Append(value, item) \in Seq(Words)
    BY <1>3, AppendPlaces DEF toggled
  <2>2. backspaced(box, value) = value \/ backspaced(box, value) = Without(value, Last(value))
    BY DEF backspaced
  <2>3. \A other : Twice(Append(value, item), other) => Twice(value, other)
    <3> SUFFICES ASSUME NEW other, Twice(Append(value, item), other) PROVE Twice(value, other)
      OBVIOUS
    <3>1. Twice(value, other) \/ \E i \in 1..Len(value) : value[i] = item
      BY AppendTwice
    <3> QED BY <1>1, <1>3, <3>1
  <2> QED BY <2>1, <2>2, <2>3, WithoutKeeps
<1> QED BY <1>2, <1>3

\* A specification that lists namespaces.
Lists(sp) == targetsOf(sp) \in Seq(Words)

\* The specifications in the cluster, in the lists, in the detail view and on their
\* way list namespaces.
SpecsInv ==
  /\ \A p \in stored \cup query.data \cup query.answer : Lists(p.spec)
  /\ \A r \in requests : r.kind \in {"create", "update"} => Lists(r.spec)
  /\ selected /= None => Lists(selected.spec)

Boxes == {"namespace", "targets"}

\* The comboboxes of the form, closed or open, and the namespaces chosen.
BoxInv ==
  /\ form.targets \in Seq(Words)
  /\ form.boxes \in [Boxes -> Box]
  /\ BoxesAreClean

\* The form begins with no namespace and with closed boxes, and so does every form
\* that is reset.
LEMMA EmptyBoxes ==
  /\ InitialForm.targets = <<>> /\ InitialForm.boxes = [box \in Boxes |-> ClosedBox]
  /\ \A open : [InitialForm EXCEPT !.open = open].targets = <<>>
               /\ [InitialForm EXCEPT !.open = open].boxes = InitialForm.boxes
  /\ \A f : Shut(resetForm(f)).targets = <<>> /\ Shut(resetForm(f)).boxes = InitialForm.boxes
BY DEF InitialForm, Boxes, Shut, resetForm

\* Closed boxes are boxes without a text.
LEMMA ClosedBoxes ==
  /\ InitialForm.boxes \in [Boxes -> Box]
  /\ \A which \in Boxes : InitialForm.boxes[which].search = ""
<1>1. InitialForm.boxes = [box \in Boxes |-> ClosedBox]
  BY EmptyBoxes
<1>2. ClosedBox \in Box /\ ClosedBox.search = ""
  BY DEF ClosedBox, Box, Searches
<1> HIDE DEF ClosedBox
<1> QED BY <1>1, <1>2

\* Such a form is clean.
LEMMA EmptyBoxInv ==
  ASSUME form'.targets = <<>>, form'.boxes = InitialForm.boxes
  PROVE  BoxInv'
<1>3. form'.boxes \in [Boxes -> Box] /\ \A which \in Boxes : form'.boxes[which].search = ""
  BY ClosedBoxes
<1>4. \A namespace : ~ Twice(form'.targets, namespace)
  BY DEF Twice
<1>5. form'.targets \in Seq(Words)
  OBVIOUS
<1> QED BY <1>3, <1>4, <1>5 DEF BoxInv, BoxesAreClean

\* A step in the same view whose boxes are clean and that adds no namespace twice.
LEMMA CleanStep ==
  ASSUME BoxInv, selected' = selected,
         form'.boxes \in [Boxes -> Box],
         \A which \in Boxes : ~ form'.boxes[which].open => form'.boxes[which].search = "",
         form'.targets \in Seq(Words),
         \A namespace : Twice(form'.targets, namespace) => Twice(form.targets, namespace)
  PROVE  BoxInv'
<1>1. ASSUME NEW namespace, Twice(form'.targets, namespace)
      PROVE  selected' /= None /\ Twice(targetsOf(selected'.spec), namespace)
  <2>1. Twice(form.targets, namespace)
    BY <1>1
  <2>2. namespace \in ToSet(form.targets)
    BY <2>1 DEF Twice, ToSet
  <2> QED BY <2>1, <2>2 DEF BoxInv, BoxesAreClean
<1>2. DOMAIN form'.boxes = Boxes
  OBVIOUS
<1> QED BY <1>1, <1>2 DEF BoxInv, BoxesAreClean

\* The boxes of a form that satisfies the invariant.
LEMMA BoxesNow ==
  ASSUME BoxInv
  PROVE  /\ form.boxes \in [Boxes -> Box] /\ form.targets \in Seq(Words)
         /\ \A which \in Boxes : ~ form.boxes[which].open => form.boxes[which].search = ""
<1>1. DOMAIN form.boxes = Boxes
  BY DEF BoxInv
<1> QED BY <1>1 DEF BoxInv, BoxesAreClean

\* A step that leaves the boxes and the namespaces alone.
LEMMA QuietKeepsBoxes ==
  ASSUME BoxInv, selected' = selected, form'.boxes = form.boxes, form'.targets = form.targets
  PROVE  BoxInv'
BY BoxesNow, CleanStep

\* What an input leaves of the other fields.
LEMMA TypedParts ==
  ASSUME NEW g, DOMAIN g = FormFields, NEW field \in Fields, NEW value
  PROVE  /\ Typed(g, field, value).boxes = g.boxes
         /\ Typed(g, field, value).targets = IF field = "targets" THEN value ELSE g.targets
BY DEF Typed, FormFields, Fields

\* A box of the form.
LEMMA BoxParts ==
  ASSUME FormInv, BoxInv, NEW which \in Boxes, NEW box \in Box
  PROVE  /\ DOMAIN WithBox(which, box) = FormFields
         /\ WithBox(which, box).targets = form.targets
         /\ WithBox(which, box).boxes \in [Boxes -> Box]
         /\ WithBox(which, box).boxes[which] = box
         /\ \A other \in Boxes \ {which} : WithBox(which, box).boxes[other] = form.boxes[other]
<1>1. DOMAIN form = FormFields /\ form.boxes \in [Boxes -> Box]
  BY DEF FormInv, BoxInv
<1>2. /\ DOMAIN WithBox(which, box) = FormFields
      /\ WithBox(which, box).targets = form.targets
      /\ WithBox(which, box).boxes = [form.boxes EXCEPT ![which] = box]
  BY <1>1 DEF WithBox, FormFields, Fields
<1> QED BY <1>1, <1>2

\* Using a box leaves it open, or without a text.
LEMMA UsedBox ==
  ASSUME FormInv, BoxInv, NEW which \in Boxes, NEW box \in Box, box.open \/ box.search = "",
         selected' = selected, form'.boxes = WithBox(which, box).boxes,
         form'.targets = form.targets
  PROVE  BoxInv'
<1> DEFINE g == WithBox(which, box)
<1>1. /\ g.boxes \in [Boxes -> Box] /\ g.boxes[which] = box
      /\ \A other \in Boxes \ {which} : g.boxes[other] = form.boxes[other]
  BY BoxParts
<1>2. form'.boxes = g.boxes
  OBVIOUS
<1> HIDE DEF g
<1>3. \A other \in Boxes : ~ g.boxes[other].open => g.boxes[other].search = ""
  BY <1>1, BoxesNow
<1>4. /\ form'.boxes \in [Boxes -> Box]
      /\ \A other \in Boxes : ~ form'.boxes[other].open => form'.boxes[other].search = ""
  BY <1>1, <1>2, <1>3
<1> QED BY <1>4, BoxesNow, CleanStep

\* An input in a field other than the namespaces.
LEMMA OtherFieldKeepsBoxes ==
  ASSUME FormInv, BoxInv, NEW field \in Fields \ {"targets"}, NEW value,
         EditedTo(Typed(form, field, value))
  PROVE  BoxInv'
<1>1. form' = Typed(form, field, value) /\ selected' = selected
  BY DEF EditedTo
<1>2. form'.boxes = form.boxes /\ form'.targets = form.targets
  <2>1. DOMAIN form = FormFields
    BY DEF FormInv
  <2>2. /\ Typed(form, field, value).boxes = form.boxes
        /\ Typed(form, field, value).targets = form.targets
    BY <2>1, TypedParts
  <2> QED BY <1>1, <2>2
<1> QED BY <1>1, <1>2, QuietKeepsBoxes

\* Namespaces are chosen and taken away in the box for several values.
LEMMA TargetsKeepBoxes ==
  ASSUME FormInv, BoxInv, ChooseTargets
  PROVE  BoxInv'
<1>1. PICK value : /\ EditedTo(Typed(form, "targets", value)) /\ value \in Seq(Words)
                   /\ \A other : Twice(value, other) => Twice(form.targets, other)
  <2> DEFINE box == form.boxes["targets"]
  <2>0. form.targets \in Seq(Words)
    BY DEF BoxInv
  <2>1. CASE \E namespace \in filtered(box, Namespaces, {defaultNs}) :
               EditedTo(Typed(form, "targets", toggled(form.targets, namespace)))
    <3>1. PICK namespace \in filtered(box, Namespaces, {defaultNs}) :
            EditedTo(Typed(form, "targets", toggled(form.targets, namespace)))
      BY <2>1
    <3>2. namespace \in Namespaces
      BY DEF filtered
    <3>3. namespace \in Words
      BY <3>2, PoliciesConstants DEF Words
    <3> QED BY <2>0, <3>1, <3>3, ValuesStayDistinct
  <2>2. CASE \E namespace \in ToSet(form.targets) :
               EditedTo(Typed(form, "targets", Without(form.targets, namespace)))
    BY <2>0, <2>2, WithoutKeeps
  <2>3. CASE EditedTo(Typed(form, "targets", backspaced(box, form.targets)))
    <3>1. PICK namespace \in Words : TRUE
      BY PoliciesConstants DEF Words
    <3>2. /\ backspaced(box, form.targets) \in Seq(Words)
          /\ \A other : Twice(backspaced(box, form.targets), other) => Twice(form.targets, other)
      BY <2>0, <3>1, ValuesStayDistinct
    <3> QED BY <2>3, <3>2
  <2> QED BY <2>1, <2>2, <2>3 DEF ChooseTargets
<1>2. form' = Typed(form, "targets", value) /\ selected' = selected
  BY <1>1 DEF EditedTo
<1>3. form'.boxes = form.boxes /\ form'.targets = value
  <2>1. DOMAIN form = FormFields /\ "targets" \in Fields
    BY DEF FormInv, Fields
  <2>2. /\ Typed(form, "targets", value).boxes = form.boxes
        /\ Typed(form, "targets", value).targets = value
    BY <2>1, TypedParts
  <2> QED BY <1>2, <2>2
<1> QED BY <1>1, <1>2, <1>3, BoxesNow, CleanStep

\* The boxes open, close and are searched.
LEMMA UseBoxKeepsBoxes ==
  ASSUME FormInv, BoxInv, NEW which \in Boxes, UseBox(which)
  PROVE  BoxInv'
<1>1. form.boxes[which] \in Box
  BY DEF BoxInv
<1>2. PICK box : EditedTo(WithBox(which, box)) /\ box \in Box /\ (box.open \/ box.search = "")
  <2>1. Opened(form.boxes[which]) \in Box /\ Opened(form.boxes[which]).open
    BY <1>1 DEF Opened, Box
  <2>2. Searching("text") \in Box /\ Searching("text").open
    BY DEF Searching, Box, Searches
  <2>3. Dismissed(form.boxes[which]) \in Box /\ Dismissed(form.boxes[which]).search = ""
    BY DEF Dismissed, ClosedBox, Box, Searches
  <2> QED BY <2>1, <2>2, <2>3 DEF UseBox
<1>3. form' = WithBox(which, box) /\ selected' = selected
  BY <1>2 DEF EditedTo
<1>4. form'.targets = form.targets
  BY <1>2, <1>3, BoxParts
<1> QED BY <1>2, <1>3, <1>4, UsedBox

\* The choice of the policy's own namespace closes its box.
LEMMA NamespaceKeepsBoxes ==
  ASSUME FormInv, BoxInv, NEW namespace, ChooseNamespace(namespace)
  PROVE  BoxInv'
<1> DEFINE g == WithBox("namespace", ClosedBox)
<1>1. form' = Typed(g, "namespace", namespace) /\ selected' = selected
  BY DEF ChooseNamespace, EditedTo
<1>2. ClosedBox \in Box /\ ClosedBox.search = "" /\ "namespace" \in Boxes
  BY DEF ClosedBox, Box, Searches, Boxes
<1>3. DOMAIN g = FormFields /\ g.targets = form.targets
  BY <1>2, BoxParts
<1> HIDE DEF g
<1>4. form'.boxes = g.boxes /\ form'.targets = form.targets
  BY <1>1, <1>3, TypedParts DEF Fields
<1> QED BY <1>1, <1>2, <1>4, UsedBox DEF g

\* Every input keeps the boxes clean.
LEMMA EditKeepsBoxes ==
  ASSUME FormInv, BoxInv, Edit
  PROVE  BoxInv'
<1>1. CASE EditChecks
  <2>1. \E value : EditedTo(Typed(form, "checks", value))
    BY <1>1 DEF EditChecks, addCheck, removeCheck, updateCheck
  <2> QED BY <2>1, OtherFieldKeepsBoxes DEF Fields
<1>2. CASE \E name \in Names : EditName(name)
  BY <1>2, OtherFieldKeepsBoxes DEF EditName, Fields
<1>3. CASE EditText("config", "typed") \/ EditText("rescan", "typed") \/ EditText("rescan", "")
  BY <1>3, OtherFieldKeepsBoxes DEF EditText, Fields
<1> QED BY <1>1, <1>2, <1>3, TargetsKeepBoxes, UseBoxKeepsBoxes, NamespaceKeepsBoxes
        DEF Edit, Boxes

\* Every step keeps the boxes clean.
LEMMA BoxStep ==
  RequestInv /\ FormInv /\ SpecsInv /\ BoxInv /\ [Next]_vars => BoxInv'
<1> SUFFICES ASSUME RequestInv, FormInv, SpecsInv, BoxInv, [Next]_vars PROVE BoxInv'
  OBVIOUS
<1> DEFINE ShutWithInput == [Shut(form) EXCEPT !.left = @ \cup form.typed]
<1>0. DOMAIN form = FormFields
  BY DEF FormInv
<1>1. CASE Look
  <2>1. CASE OpenCreate
    <3>1. form' = [form EXCEPT !.open = TRUE, !.typed = {}] /\ selected' = selected
      BY <2>1 DEF OpenCreate
    <3>2. form'.boxes = form.boxes /\ form'.targets = form.targets
      BY <1>0, <3>1 DEF FormFields, Fields
    <3> QED BY <3>1, <3>2, QuietKeepsBoxes
  <2>2. CASE handleClose
    <3>1. form' = Shut(resetForm(form))
      BY <2>2 DEF handleClose
    <3> QED BY <3>1, EmptyBoxes, EmptyBoxInv
  <2>3. CASE CancelDelete \/ \E p \in query.data : AskDelete(p.key)
    BY <2>3, QuietKeepsBoxes DEF CancelDelete, AskDelete
  <2>4. CASE OpenEdit
    <3>1. selected /= None /\ selected' = selected /\ form' = prefilled(selected)
      BY <2>4 DEF OpenEdit, Detailed, Page
    <3>2. form'.targets = targetsOf(selected.spec) /\ form'.boxes = InitialForm.boxes
      BY <3>1, InitialFormFields DEF prefilled, FormFields, Fields
    <3>3. form'.targets \in Seq(Words)
      BY <3>1, <3>2 DEF SpecsInv, Lists
    <3>4. /\ form'.boxes \in [Boxes -> Box]
          /\ \A which \in Boxes : form'.boxes[which].search = ""
      BY <3>2, ClosedBoxes
    <3> QED BY <3>1, <3>2, <3>3, <3>4 DEF BoxInv, BoxesAreClean
  <2> QED BY <1>1, <2>1, <2>2, <2>3, <2>4 DEF Look
<1>2. CASE Leave
  BY <1>2, EmptyBoxes, EmptyBoxInv DEF Leave, Back, Select
<1>3. CASE Start
  BY <1>3, QuietKeepsBoxes DEF Start, ConfirmDelete, handleSubmit, RunNow, view
<1>4. CASE \E q, f, b, rs : Rendered(q, f, b, rs) /\ selected' = selected
                            /\ f \in {form, ShutWithInput, Shut(resetForm(form))}
  <2>1. PICK q, f, b, rs : Rendered(q, f, b, rs) /\ selected' = selected
                           /\ f \in {form, ShutWithInput, Shut(resetForm(form))}
    BY <1>4
  <2>2. CASE form' = [InitialForm EXCEPT !.open = f.open]
    BY <2>2, EmptyBoxes, EmptyBoxInv
  <2>3. CASE form' = form
    BY <2>1, <2>3, QuietKeepsBoxes
  <2>4. CASE form' = Shut(resetForm(form))
    BY <2>4, EmptyBoxes, EmptyBoxInv
  <2>5. CASE form' = [Shut(form) EXCEPT !.left = @ \cup form.typed]
    <3>1. form'.targets = form.targets /\ form'.boxes = InitialForm.boxes
      BY <1>0, <2>5 DEF Shut, FormFields, Fields
    <3>2. /\ form'.boxes \in [Boxes -> Box]
          /\ \A which \in Boxes : form'.boxes[which].search = ""
      BY <3>1, ClosedBoxes
    <3> QED BY <2>1, <3>1, <3>2, BoxesNow, CleanStep
  <2> QED BY <2>1, <2>2, <2>3, <2>4, <2>5 DEF Rendered
<1>5. CASE Poll
  BY <1>4, <1>5 DEF Poll
<1>6. CASE \E r \in requests : Answer(r)
  <2>1. PICK r \in requests : Answer(r)
    BY <1>6
  <2>2. Closed(r) \in {form, ShutWithInput, Shut(resetForm(form))}
    BY DEF Closed
  <2> QED BY <1>4, <2>1, <2>2 DEF Answer
<1>7. CASE ListPolicies \/ ListFails \/ Fetched
  BY <1>7, QuietKeepsBoxes DEF ListPolicies, ListFails, Fetched, view
<1>8. CASE \E r \in requests : Serve(r) \/ ServeFails(r) \/ AnswerLost(r)
  BY <1>8, QuietKeepsBoxes DEF Serve, ServeFails, AnswerLost, Server, view
<1>9. CASE Others \/ \E key \in Keys : Finalized(key)
  BY <1>9, QuietKeepsBoxes DEF Others, Other, Finalized, Server, view
<1>10. CASE UNCHANGED vars
  BY <1>10, QuietKeepsBoxes DEF vars
<1> QED
  BY <1>1, <1>2, <1>3, <1>5, <1>6, <1>7, <1>8, <1>9, <1>10, UserSteps, EditKeepsBoxes DEF Next

\* Requests keep their specifications when their form is unmounted.
LEMMA OrphanedSpecs ==
  ASSUME RequestInv, SpecsInv, NEW rs \in SUBSET requests
  PROVE  \A s \in Orphaned(rs) : s.kind \in {"create", "update"} => Lists(s.spec)
<1> SUFFICES ASSUME NEW s \in Orphaned(rs), s.kind \in {"create", "update"}
             PROVE  Lists(s.spec)
  OBVIOUS
<1>1. PICK r \in rs : s.kind = r.kind /\ s = [r EXCEPT !.orphan = r.orphan \/ r.id = busy.form]
  BY OrphanedRequests
<1>2. DOMAIN r = RequestFields
  BY DEF RequestInv
<1>3. s.spec = r.spec
  BY <1>1, <1>2 DEF RequestFields
<1> QED BY <1>1, <1>3 DEF SpecsInv

\* What the API server stores lists namespaces, whoever wrote it last.
LEMMA ServeKeepsSpecs ==
  ASSUME RequestInv, PolicyInv, SpecsInv, NEW r \in requests,
         Serve(r) \/ ServeFails(r) \/ AnswerLost(r)
  PROVE  SpecsInv'
<1>1. PICK s : Becomes(r, s) /\ s.kind = r.kind /\ s.spec = r.spec /\ UNCHANGED <<query, view>>
  BY ServedRequest
<1>2. \A t \in requests' : t.kind \in {"create", "update"} => Lists(t.spec)
  BY <1>1 DEF Becomes, SpecsInv
<1>3. query' = query /\ selected' = selected
  BY <1>1 DEF view
<1>4. \A p \in stored' : Lists(p.spec)
  <2>1. CASE stored' = stored
    BY <2>1 DEF SpecsInv
  <2>2. CASE stored' /= stored /\ r.kind = "create"
    <3>1. stored' = stored \cup {Policy(r.key, r.spec)}
      BY <2>2 DEF Serve, ServeFails, AnswerLost
    <3>2. Policy(r.key, r.spec).spec = r.spec /\ Lists(r.spec)
      BY <2>2 DEF Policy, SpecsInv
    <3> QED BY <3>1, <3>2 DEF SpecsInv
  <2>3. CASE stored' /= stored /\ r.kind /= "create"
    <3>1. Serve(r)
      BY <2>3 DEF ServeFails, AnswerLost
    <3>2. Exists(r.key)
      BY <2>3, <3>1 DEF Serve
    <3>3. Lookup(r.key) \in stored
      BY <3>2 DEF Exists, Lookup
    <3>4. DOMAIN Lookup(r.key) = PolicyFields /\ Lists(Lookup(r.key).spec)
      BY <3>3 DEF PolicyInv, IsPolicy, SpecsInv
    <3>5. /\ [Lookup(r.key) EXCEPT !.spec = r.spec].spec = r.spec
          /\ [Lookup(r.key) EXCEPT !.deleting = TRUE].spec = Lookup(r.key).spec
      BY <3>4 DEF PolicyFields
    <3>6. \/ /\ r.kind = "update"
             /\ stored' = Replace(r.key, {[Lookup(r.key) EXCEPT !.spec = r.spec]})
          \/ stored' = Replace(r.key, {[Lookup(r.key) EXCEPT !.deleting = TRUE]})
      BY <2>3, <3>1 DEF Serve
    <3>7. r.kind = "update" => Lists(r.spec)
      BY DEF SpecsInv
    <3> QED BY <3>4, <3>5, <3>6, <3>7 DEF Replace, SpecsInv
  <2> QED BY <2>1, <2>2, <2>3
<1> QED BY <1>2, <1>3, <1>4 DEF SpecsInv

\* The specifications list namespaces after every step.
LEMMA SpecsStep ==
  RequestInv /\ ListInv /\ PolicyInv /\ SpecsInv /\ BoxInv /\ [Next]_vars => SpecsInv'
<1> SUFFICES ASSUME RequestInv, ListInv, PolicyInv, SpecsInv, BoxInv, [Next]_vars
             PROVE  SpecsInv'
  OBVIOUS
<1>1. CASE Edit
  <2>1. PICK new : EditedTo(new)
    BY <1>1, EditIsEditedTo
  <2> QED BY <2>1 DEF EditedTo, Page, SpecsInv
<1>2. CASE Look
  <2>1. stored' = stored /\ query' = query /\ requests' = requests /\ selected' = selected
    BY <1>2 DEF Look, OpenCreate, OpenEdit, CancelDelete, handleClose, AskDelete, Page
  <2> QED BY <2>1 DEF SpecsInv
<1>3. CASE Leave
  <2>1. stored' = stored /\ query' = query /\ requests' = Orphaned(requests)
    BY <1>3 DEF Leave, Back, Select
  <2>2. selected' = None \/ selected' \in query.data
    BY <1>3 DEF Leave, Back, Select
  <2>3. \A s \in requests' : s.kind \in {"create", "update"} => Lists(s.spec)
    BY <2>1, OrphanedSpecs
  <2> QED BY <2>1, <2>2, <2>3 DEF SpecsInv
<1>4. CASE Start
  <2>1. PICK kind, observer, key, sp :
          Send(kind, observer, key, sp) /\ (kind \in {"create", "update"} => Lists(sp))
    <3>1. targetsOf(Submitted(form)) \in {form.targets, <<>>}
      BY DEF Submitted, targetsOf, Held
    <3>2. form.targets \in Seq(Words) /\ <<>> \in Seq(Words)
      BY DEF BoxInv
    <3>3. Lists(Submitted(form))
      BY <3>1, <3>2 DEF Lists
    <3> QED BY <1>4, <3>3 DEF Start, ConfirmDelete, handleSubmit, RunNow
  <2>2. \A s \in requests' : s.kind \in {"create", "update"} => Lists(s.spec)
    BY <2>1 DEF Send, SpecsInv
  <2>3. stored' = stored /\ query' = query
    BY <2>1 DEF Send
  <2>4. selected' = selected
    BY <1>4 DEF Start, ConfirmDelete, handleSubmit, RunNow, view
  <2> QED BY <2>2, <2>3, <2>4 DEF SpecsInv
<1>5. CASE Poll
  <2>1. /\ stored' = stored /\ selected' = selected
        /\ query' = [query EXCEPT !.stage = "sent"]
        /\ requests' \in {requests, Orphaned(requests)}
    BY <1>5 DEF Poll, Rendered
  <2>2. query'.data = query.data /\ query'.answer = query.answer
    BY <2>1 DEF ListInv, QueryFields
  <2>3. \A s \in requests' : s.kind \in {"create", "update"} => Lists(s.spec)
    BY <2>1, OrphanedSpecs DEF SpecsInv
  <2> QED BY <2>1, <2>2, <2>3 DEF SpecsInv
<1>6. CASE ListPolicies \/ ListFails \/ Fetched
  <2>1. stored' = stored /\ selected' = selected /\ requests' = requests
    BY <1>6 DEF ListPolicies, ListFails, Fetched, Client, view
  <2>2. query'.data \in {query.data, query.answer} /\ query'.answer \in {stored, {}}
    BY <1>6 DEF ListPolicies, ListFails, Fetched, Settled, ListInv, QueryFields
  <2> QED BY <2>1, <2>2 DEF SpecsInv
<1>7. CASE \E r \in requests : Serve(r) \/ ServeFails(r) \/ AnswerLost(r)
  BY <1>7, ServeKeepsSpecs
<1>8. CASE \E r \in requests : Answer(r)
  <2>1. PICK r \in requests : Answer(r)
    BY <1>8
  <2>2. /\ stored' = stored /\ selected' = selected
        /\ query' \in {query, invalidated(query)}
        /\ requests' \in {requests \ {r}, Orphaned(requests \ {r})}
    BY <2>1 DEF Answer, Rendered
  <2>3. query'.data = query.data /\ query'.answer \in {query.answer, {}}
    BY <2>2 DEF invalidated, Settled, ListInv, QueryFields
  <2>4. \A s \in requests' : s.kind \in {"create", "update"} => Lists(s.spec)
    BY <2>2, OrphanedSpecs DEF SpecsInv
  <2> QED BY <2>2, <2>3, <2>4 DEF SpecsInv
<1>9. CASE Others \/ \E key \in Keys : Finalized(key)
  <2>1. query' = query /\ selected' = selected /\ requests' = requests
    BY <1>9 DEF Others, Other, Finalized, Server, view
  <2>2. \A p \in stored' : Lists(p.spec)
    <3>1. CASE \E key \in Keys : Finalized(key)
      BY <3>1 DEF Finalized, Replace, SpecsInv
    <3>2. CASE Others
      <4>1. PICK p \in stored : \/ stored' = Replace(p.key, {[p EXCEPT !.deleting = TRUE]})
                                \/ stored' = Replace(p.key, {[p EXCEPT !.spec = OtherSpec]})
        BY <3>2 DEF Others, Other
      <4>2. DOMAIN p = PolicyFields /\ Lists(p.spec)
        BY DEF PolicyInv, IsPolicy, SpecsInv
      <4>3. Lists(OtherSpec)
        BY PoliciesConstants DEF Lists, Words
      <4>4. [p EXCEPT !.deleting = TRUE].spec = p.spec /\ [p EXCEPT !.spec = OtherSpec].spec = OtherSpec
        BY <4>2 DEF PolicyFields
      <4> QED BY <4>1, <4>2, <4>3, <4>4 DEF Replace, SpecsInv
    <3> QED BY <1>9, <3>1, <3>2
  <2> QED BY <2>1, <2>2 DEF SpecsInv
<1>10. CASE UNCHANGED vars
  BY <1>10 DEF vars, SpecsInv
<1> QED
  BY <1>1, <1>2, <1>3, <1>4, <1>5, <1>6, <1>7, <1>8, <1>9, <1>10, UserSteps DEF Next

\* A closed combobox shows its value and no namespace is chosen twice that the edited
\* policy does not name twice (Combobox.tsx in PolicyFormModal): for any forms opened,
\* filled in, sent and closed, and whatever other clients store meanwhile.
THEOREM ComboboxesAreClean == Spec => []BoxesAreClean
<1>1. Init => SpecsInv /\ BoxInv
  <2> SUFFICES ASSUME Init PROVE SpecsInv /\ BoxInv
    OBVIOUS
  <2>1. \A p \in Stored : Lists(p.spec)
    BY PoliciesConstants DEF Lists, Words
  <2>2. SpecsInv
    BY <2>1 DEF Init, SpecsInv
  <2>3. form.targets = <<>> /\ form.boxes = InitialForm.boxes
    BY EmptyBoxes DEF Init
  <2>4. form.targets \in Seq(Words) /\ \A namespace : ~ Twice(form.targets, namespace)
    BY <2>3 DEF Twice
  <2>5. BoxInv
    BY <2>3, <2>4, ClosedBoxes DEF BoxInv, BoxesAreClean
  <2> QED BY <2>2, <2>5
<1>2. PageInv /\ SpecsInv /\ BoxInv /\ [Next]_vars => SpecsInv' /\ BoxInv'
  BY SpecsStep, BoxStep DEF PageInv
<1>3. BoxInv => BoxesAreClean
  BY DEF BoxInv
<1> QED BY <1>1, <1>2, <1>3, PageInvariant, PTL DEF Spec
-----------------------------------------------------------------------------
(* The console.                                                            *)

\* A visit of the console is a behaviour of the policies page, and one of the
\* dashboard and the results: the routes of App.tsx mount one of them, and the other
\* one stutters.
LEMMA ConsoleComposes == ConsoleSpec => Spec /\ OverviewSpec
<1>1. ConsoleInit => Init /\ OverviewInit
  BY DEF ConsoleInit
<1>2. [ConsoleNext]_<<route, vars, overview>> => [Next]_vars /\ [OverviewNext]_overview
  BY DEF ConsoleNext
<1> QED BY <1>1, <1>2, PTL DEF ConsoleSpec, Spec, OverviewSpec

\* So what was proved of the pages holds of the console, in every state of a visit:
\* the form and its comboboxes, the requests and the list, and the pages and totals
\* of the results.
THEOREM ConsoleIsSafe ==
  ConsoleSpec =>
    /\ [](UntouchedFieldsAreShown /\ PreviewIsSubmitted /\ BoxesAreClean)
    /\ [](OneSubmissionPerForm /\ AcknowledgedIsListed) /\ TypedIsKept
    /\ [](InRange /\ CollapseWhenAllUnfolded /\ HealthAgrees)
BY ConsoleComposes, UntouchedFieldsShowThePolicy, PreviewIsWhatIsSubmitted, ComboboxesAreClean,
   OneSubmissionPerFormHolds, AcknowledgedChangesAreListed, TypedInputIsKept,
   PageInRange, CollapseIsOfferedRightly, HealthIsConsistent, PTL
=============================================================================
