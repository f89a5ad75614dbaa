------------------------------ MODULE Policies ------------------------------
(***************************************************************************)
(* The policies page of the web UI (ui/src/pages/Policies.tsx): the list,  *)
(* the detail view of a policy, the dialogs, the query 'policies' and the  *)
(* mutations of react-query, with the API server's policies                *)
(* (operator/server/handler/policies.go and run.go) and other clients.     *)
(*                                                                         *)
(* There is one form at a time: the list's, which creates, or the detail   *)
(* view's, which edits.  Leaving the view, or a render of the loading      *)
(* state, unmounts it; a request it has sent goes on without it.           *)
(***************************************************************************)
EXTENDS PolicyForm, FiniteSets

CONSTANTS
  Keys,         \* [name, namespace] of the policies
  Stored,       \* policies in the cluster at the start
  OtherSpec,    \* what other clients make of a policy
  defaultNs,    \* the operator's namespace, or "dtm-system" before it is known
  MaxEdits,     \* bound: inputs of the user in forms
  MaxRequests,  \* bound: mutations sent
  MaxUpsets,    \* bound: changes by other clients, errors of the API server
                \* and lost connections
  MaxMoves      \* bound: all of these together, where a mutation counts twice

Namespaces == {key.namespace : key \in Keys}
Names == {key.name : key \in Keys}

ASSUME PoliciesConstants ==
  /\ defaultNs \in Namespaces
  /\ Keys = [name : Names, namespace : Namespaces]
  /\ "" \notin Names \cup Namespaces /\ Namespaces \subseteq STRING
  /\ \A p \in Stored : DOMAIN p = {"key", "spec", "deleting"} /\ p.key \in Keys
  /\ \A spec \in {p.spec : p \in Stored} \cup {OtherSpec} : targetsOf(spec) \in Seq(STRING)
  /\ \A bound \in {MaxEdits, MaxRequests, MaxUpsets, MaxMoves} : bound \in Nat

None == [key |-> "none"]
Policy(key, spec) == [key |-> key, spec |-> spec, deleting |-> FALSE]

VARIABLES
  stored,    \* the policies in the cluster
  rev,       \* how often this page has changed them
  query,     \* the query 'policies'; its first is a history: the data are those of
             \* the first fetch that succeeded
  selected,  \* the policy of the detail view, as it was in the list, or None
  form,      \* the mounted form
  target,    \* deleteTarget
  busy,      \* the request each mutation observer is waiting for, 0 if none
  requests,  \* the mutations in flight
  acked,     \* history: the newest change acknowledged to this page
  counts     \* the bounded counters

view == <<selected, form, target>>
vars == <<stored, rev, query, selected, form, target, busy, requests, acked, counts>>

Lookup(key) == CHOOSE p \in stored : p.key = key
Exists(key) == \E p \in stored : p.key = key
Replace(key, new) == {p \in stored : p.key /= key} \cup new

\* isLoading: no data, and a fetch on its way.
Loading(q) == ~ q.loaded /\ q.stage /= "idle"
Listed == ~ Loading(query) /\ selected = None
Detailed == ~ Loading(query) /\ selected /= None
Editable == ~ Loading(query) /\ form.open
Plain == ~ form.open /\ target = None

Unwatched == [form |-> 0, list |-> 0, detail |-> 0, delete |-> 0]

Init ==
  /\ stored \in {Stored, {}}
  /\ rev = 0
  /\ query = [loaded |-> FALSE, data |-> {}, rev |-> 0, invalidated |-> FALSE,
              stage |-> "sent", answer |-> {}, answerRev |-> 0, first |-> FALSE]
  /\ selected = None /\ form = InitialForm /\ target = None
  /\ busy = Unwatched
  /\ requests = {}
  /\ acked = 0
  /\ counts = [edits |-> 0, sent |-> 0, upsets |-> 0]

Count(what, bound) ==
  /\ counts[what] < bound
  /\ counts' = [counts EXCEPT ![what] = @ + 1]
  /\ counts'.edits + 2 * counts'.sent + counts'.upsets <= MaxMoves

Page == UNCHANGED <<stored, rev, query, requests, acked>>
-----------------------------------------------------------------------------
(* The list and the detail view.                                           *)

\* The form of the view is unmounted: nobody waits for its requests any longer.
Orphaned(rs) == {[r EXCEPT !.orphan = @ \/ r.id = busy.form] : r \in rs}

\* New Policy: the form shows what it holds.
OpenCreate ==
  /\ Listed /\ Plain
  /\ form' = [form EXCEPT !.open = TRUE, !.typed = {}]
  /\ Page /\ UNCHANGED <<selected, target, busy, counts>>

\* A click on a name: the policy as the list has it now.
Select(p) ==
  /\ Listed /\ Plain
  /\ selected' = p
  /\ form' = InitialForm
  /\ busy' = [busy EXCEPT !.form = 0]
  /\ requests' = Orphaned(requests)
  /\ UNCHANGED <<stored, rev, query, target, acked, counts>>

\* onBack: the list gets a new create form.
Back ==
  /\ Detailed /\ Plain
  /\ selected' = None
  /\ form' = InitialForm
  /\ busy' = [busy EXCEPT !.form = 0, !.detail = 0]
  /\ requests' = Orphaned(requests)
  /\ UNCHANGED <<stored, rev, query, target, acked, counts>>

\* Edit: the form is filled in with what the detail view shows.
OpenEdit ==
  /\ Detailed /\ Plain
  /\ form' = prefilled(selected)
  /\ Page /\ UNCHANGED <<selected, target, busy, counts>>

Send(kind, observer, key, spec) ==
  /\ Count("sent", MaxRequests)
  /\ requests' = requests \cup {[id |-> counts.sent + 1, kind |-> kind, key |-> key, spec |-> spec,
                                 stage |-> "sent", rev |-> 0, orphan |-> FALSE]}
  /\ busy' = [busy EXCEPT ![observer] = counts.sent + 1]
  /\ UNCHANGED <<stored, rev, query, acked>>

\* Run, in the list and in the detail view: one at a time in each.
RunNow(observer, key) ==
  /\ Plain
  /\ busy[observer] = 0
  /\ Send(observer, observer, key, None)
  /\ UNCHANGED view

AskDelete(key) ==
  /\ Listed /\ Plain
  /\ target' = key
  /\ Page /\ UNCHANGED <<selected, form, busy, counts>>

CancelDelete ==
  /\ target /= None
  /\ target' = None
  /\ Page /\ UNCHANGED <<selected, form, busy, counts>>

\* onConfirm: the dialog closes at once.
ConfirmDelete ==
  /\ target /= None
  /\ busy.delete = 0
  /\ Send("delete", "delete", target, None)
  /\ target' = None
  /\ UNCHANGED <<selected, form>>
-----------------------------------------------------------------------------
(* The form.                                                               *)

EditedTo(new) ==
  /\ Editable
  /\ Count("edits", MaxEdits)
  /\ form' = new
  /\ Page /\ UNCHANGED <<selected, target, busy>>

\* The name and the namespace of an existing policy cannot be changed.
EditName(name) == selected = None /\ EditedTo(Typed(form, "name", name))

EditText(field, text) == EditedTo(Typed(form, field, text))

EditChecks ==
  \/ EditedTo(addCheck(form))
  \/ \E i \in DOMAIN form.checks :
       \/ CanRemove(form) /\ EditedTo(removeCheck(form, i))
       \/ \E text \in {"", "typed"} :
            EditedTo(updateCheck(form, i, [form.checks[i] EXCEPT !.description = text]))
       \/ EditedTo(updateCheck(form, i, [form.checks[i] EXCEPT !.id = 0]))

WithBox(which, box) == [form EXCEPT !.boxes[which] = box]

\* The two comboboxes; the one for the namespace is disabled when editing.
UseBox(which) ==
  LET box == form.boxes[which] IN
  /\ which = "targets" \/ selected = None
  /\ \/ ~ box.open /\ EditedTo(WithBox(which, Opened(box)))
     \/ EditedTo(WithBox(which, Searching("text")))
     \/ box.open /\ EditedTo(WithBox(which, Dismissed(box)))

ChooseNamespace(namespace) ==
  LET box == form.boxes["namespace"] IN
  /\ selected = None /\ box.open
  /\ namespace \in filtered(box, Namespaces, {defaultNs})
  /\ EditedTo(Typed(WithBox("namespace", ClosedBox), "namespace", namespace))

ChooseTargets ==
  LET box == form.boxes["targets"] IN
  \/ /\ box.open
     /\ \E namespace \in filtered(box, Namespaces, {defaultNs}) :
          EditedTo(Typed(form, "targets", toggled(form.targets, namespace)))
  \/ \E namespace \in ToSet(form.targets) :
       EditedTo(Typed(form, "targets", Without(form.targets, namespace)))
  \/ EditedTo(Typed(form, "targets", backspaced(box, form.targets)))

\* Mutant: closing the dialog also resets the mutation.
handleCloseForgets ==
  /\ Editable
  /\ form' = Shut(resetForm(form))
  /\ busy' = [busy EXCEPT !.form = 0]
  /\ Page /\ UNCHANGED <<selected, target, counts>>

\* Cancel, the cross, a click beside the dialog, Escape anywhere in it.
handleClose ==
  /\ Editable
  /\ form' = Shut(resetForm(form))
  /\ Page /\ UNCHANGED <<selected, target, busy, counts>>

\* Where handleSubmit sends the policy to.
SubmitKey ==
  [name |-> form.name,
   namespace |-> IF selected = None /\ form.namespace = "" THEN defaultNs ELSE form.namespace]

\* The button is disabled while the form's mutation is pending.
handleSubmit ==
  /\ Editable
  /\ CanSubmit(form)
  /\ busy.form = 0
  /\ Send(IF selected = None THEN "create" ELSE "update", "form", SubmitKey, Submitted(form))
  /\ UNCHANGED view
-----------------------------------------------------------------------------
(* The queries.                                                            *)

Client == UNCHANGED <<stored, rev, requests, acked>>

\* A fetch without data renders the loading state, which unmounts the form of
\* the list; that it was open is kept by the page.
Rendered(q, f, b, rs) ==
  /\ query' = q
  /\ form' = IF Loading(q) THEN [InitialForm EXCEPT !.open = f.open] ELSE f
  /\ busy' = IF Loading(q) THEN [b EXCEPT !.form = 0] ELSE b
  /\ requests' = IF Loading(q) THEN Orphaned(rs) ELSE rs

\* refetchInterval.
Poll ==
  /\ query.stage = "idle"
  /\ Rendered([query EXCEPT !.stage = "sent"], form, busy, requests)
  /\ UNCHANGED <<stored, rev, selected, target, acked, counts>>

\* ListPolicies.
ListPolicies ==
  /\ query.stage = "sent"
  /\ query' = [query EXCEPT !.stage = "ok", !.answer = stored, !.answerRev = rev]
  /\ Client /\ UNCHANGED <<view, busy, counts>>

Settled(q) == [q EXCEPT !.stage = "idle", !.answer = {}, !.answerRev = 0]

\* After a failed fetch without data the page shows an empty list.
ListFails ==
  /\ query.stage = "sent"
  /\ Count("upsets", MaxUpsets)
  /\ query' = Settled(query)
  /\ Client /\ UNCHANGED <<view, busy>>

Fetched ==
  /\ query.stage = "ok"
  /\ query' = [Settled(query) EXCEPT !.loaded = TRUE, !.data = query.answer,
                                     !.rev = query.answerRev, !.invalidated = FALSE,
                                     !.first = ~ query.loaded]
  /\ Client /\ UNCHANGED <<view, busy, counts>>

\* Mutant: a fetch in flight is good enough.
invalidatedLazily(q) ==
  [q EXCEPT !.invalidated = TRUE, !.stage = IF @ = "idle" THEN "sent" ELSE @]

\* invalidateQueries: a fetch in flight is cancelled and another one sent, unless
\* there are no data yet.
invalidated(q) ==
  IF q.loaded \/ q.stage = "idle"
  THEN [Settled(q) EXCEPT !.invalidated = TRUE, !.stage = "sent"]
  ELSE [q EXCEPT !.invalidated = TRUE]
-----------------------------------------------------------------------------
(* The mutations and the API server.                                       *)

Becomes(r, s) == requests' = (requests \ {r}) \cup {s}
Server == UNCHANGED <<query, view, busy, acked>>

\* A write that the API server accepts: CreatePolicy, UpdatePolicy (the whole
\* specification is replaced), DeletePolicy (the finalizer keeps the policy until
\* the controller has seen it), and RunNow, which annotates.
Serve(r) ==
  /\ r.stage = "sent"
  /\ (r.kind = "create") = ~ Exists(r.key)
  /\ stored' = CASE r.kind = "create" -> stored \cup {Policy(r.key, r.spec)}
                 [] r.kind = "update" -> Replace(r.key, {[Lookup(r.key) EXCEPT !.spec = r.spec]})
                 [] r.kind = "delete" -> Replace(r.key, {[Lookup(r.key) EXCEPT !.deleting = TRUE]})
                 [] OTHER -> stored
  /\ rev' = IF stored' = stored THEN rev ELSE rev + 1
  /\ Becomes(r, [r EXCEPT !.stage = "ok", !.rev = rev'])
  /\ Server /\ UNCHANGED counts

\* The policy is there already, or gone; or an update meets another one between
\* its Get and its Update, or the API server fails.
ServeFails(r) ==
  /\ r.stage = "sent"
  /\ Becomes(r, [r EXCEPT !.stage = "error"])
  /\ \/ (r.kind = "create") = Exists(r.key) /\ UNCHANGED counts
     \/ Count("upsets", MaxUpsets)
  /\ Server /\ UNCHANGED <<stored, rev>>

\* The connection is lost when the write is done.
AnswerLost(r) ==
  /\ r.stage = "ok"
  /\ Count("upsets", MaxUpsets)
  /\ Becomes(r, [r EXCEPT !.stage = "error", !.rev = 0])
  /\ Server /\ UNCHANGED <<stored, rev>>

\* The controller has removed the finalizer.
Finalized(key) ==
  /\ Exists(key) /\ Lookup(key).deleting
  /\ stored' = Replace(key, {})
  /\ Server /\ UNCHANGED <<rev, requests, counts>>

\* Mutant: the dialog closes whatever the answer (onSettled for onSuccess).
ClosedAlways(r) == IF r.id = busy.form THEN Shut(resetForm(form)) ELSE form

\* handleClose in onSuccess: the form that sent the request is reset and closed,
\* also when it was closed and opened again meanwhile; when it is gone, only
\* setShowCreate still has an effect: it shuts the list's new form and resets
\* nothing of it.
Closed(r) ==
  CASE r.stage = "ok" /\ r.id = busy.form -> Shut(resetForm(form))
    [] r.stage = "ok" /\ r.kind = "create" /\ r.orphan /\ selected = None ->
         [Shut(form) EXCEPT !.left = @ \cup form.typed]
    [] OTHER -> form

\* onSuccess, or onError where there is one.
Answer(r) ==
  /\ r.stage \in {"ok", "error"}
  /\ Rendered(IF r.stage = "ok" THEN invalidated(query) ELSE query, Closed(r),
              [observer \in DOMAIN busy |-> IF busy[observer] = r.id THEN 0 ELSE busy[observer]],
              requests \ {r})
  /\ acked' = IF r.stage = "ok" /\ r.rev > acked THEN r.rev ELSE acked
  /\ UNCHANGED <<stored, rev, selected, target, counts>>

\* Another client changes or deletes a policy.
Other(new) ==
  /\ Count("upsets", MaxUpsets)
  /\ stored' = new
  /\ Server /\ UNCHANGED <<rev, requests>>

Others ==
  \E p \in stored :
    \/ Other(Replace(p.key, {[p EXCEPT !.deleting = TRUE]}))
    \/ Other(Replace(p.key, {[p EXCEPT !.spec = OtherSpec]}))

User ==
  \/ OpenCreate \/ Back \/ OpenEdit \/ CancelDelete \/ ConfirmDelete
  \/ \E p \in query.data : Select(p) \/ AskDelete(p.key) \/ (Listed /\ RunNow("list", p.key))
  \/ Detailed /\ RunNow("detail", selected.key)
  \/ \E name \in Names : EditName(name)
  \/ EditText("config", "typed") \/ EditText("rescan", "typed") \/ EditText("rescan", "")
  \/ EditChecks \/ ChooseTargets
  \/ \E which \in {"namespace", "targets"} : UseBox(which)
  \/ \E namespace \in Namespaces : ChooseNamespace(namespace)
  \/ handleClose \/ handleSubmit

Next ==
  \/ User
  \/ Poll \/ ListPolicies \/ ListFails \/ Fetched
  \/ \E r \in requests : Serve(r) \/ ServeFails(r) \/ AnswerLost(r) \/ Answer(r)
  \/ Others \/ \E key \in Keys : Finalized(key)

Spec == Init /\ [][Next]_vars
-----------------------------------------------------------------------------
\* What a field shows when nothing is typed: the policy of the detail view, or the
\* default of a new one.
Base(field) ==
  IF selected = None \/ ~ form.open THEN InitialForm[field]
  ELSE CASE field \in {"name", "namespace"} -> selected.key[field]
         [] field = "rescan" -> rescanOf(selected.spec)
         [] field = "targets" -> targetsOf(selected.spec)
         [] OTHER -> selected.spec[field]

\* A field the user has not touched since the form was opened shows the policy
\* that is edited, or the default of a new one: nothing of an earlier form is in it.
\* The exception is what a form left behind that the success of an orphaned create
\* shut under the user's hands: it was not reset, and the next one shows its input.
UntouchedFieldsAreShown ==
  \A field \in Fields \ (form.typed \cup form.left) : form[field] = Base(field)

\* Two requests of one form are never in flight at once, although closing it does
\* not cancel the first: a policy is not created or changed twice by one form.
OneSubmissionPerForm ==
  \A r \in requests :
    r.kind \in {"create", "update"} /\ ~ r.orphan => r.id = busy.form

\* What handleSubmit would send, and where to, is what the preview shows: the two
\* are computed separately, each with conditions of its own on what may be empty.
PreviewIsSubmitted ==
  Editable /\ CanSubmit(form) =>
    buildCR(form, defaultNs) = [key |-> SubmitKey, spec |-> Submitted(form)]

\* What the user typed is discarded by closing the form, by the success of a
\* request that the same form sent (maybe before it was last opened), and while no
\* list has been loaded yet by a fetch of it; not by errors, by other requests or
\* by polls.
TypedIsKept ==
  [][form.open /\ form.typed /= {} /\ form'.typed = {} =>
       \/ requests' = requests /\ ~ form'.open
       \/ \E r \in requests \ requests' : r.id = busy.form /\ r.stage = "ok"
       \/ ~ query.loaded /\ Loading(query')]_vars

\* A change that was acknowledged is in the list as soon as the query counts as
\* valid again, although fetches may have been on their way when it was made.  The
\* exception is the first fetch: invalidateQueries does not cancel it while there
\* is no list, so its answer may be older than a change acknowledged before it came
\* and yet counts as valid, until the next fetch.
AcknowledgedIsListed ==
  query.loaded /\ ~ query.invalidated => query.rev >= acked \/ query.first

Twice(list, item) ==
  \E i, j \in DOMAIN list : i /= j /\ list[i] = item /\ list[j] = item

\* A combobox whose dropdown is closed shows its value: no text searched for
\* earlier is left, which would keep Backspace from removing the last value; and no
\* namespace is chosen twice, unless the policy that is edited names it twice.
BoxesAreClean ==
  /\ \A which \in DOMAIN form.boxes :
       ~ form.boxes[which].open => form.boxes[which].search = ""
  /\ \A namespace \in ToSet(form.targets) :
       Twice(form.targets, namespace) =>
         selected /= None /\ Twice(targetsOf(selected.spec), namespace)
=============================================================================
