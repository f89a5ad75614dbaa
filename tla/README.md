# TLA+ verification of drop-the-mic

drop-the-mic (DTM) runs natural-language checks against a Kubernetes cluster: an
operator schedules scans of each `ChecklistPolicy`, an LLM judges the checks with
read-only tools, an alert state machine decides what is announced, and an API
server with a web UI lets users edit policies and settings, start scans and read
results.  This directory models the operator, the handlers of the API server that
keep or change state, and the web UI: what each keeps in memory, what it writes,
and what happens when scans, reconciles, users, tabs, polls and failures
interleave.

## 1. Inventory

| Component | State | Operations | Hard behaviour |
|---|---|---|---|
| Alert store (`internal/state/store.go`) | `policyRef -> checkID -> {State, FailedSince, RetryCount}` behind one mutex | `RecordFail`, `RecordPass`, `FailedChecks`, `GetState`, `RestoreFromFailedSince` | int32 counter, exact escalation, lost on restart, key without namespace |
| Scheduler (`internal/scheduler/scheduler.go`) | two cancel handles, cron entries, one goroutine per scan | `Start`, `Stop`, cron jobs, `TriggerFullScan`, `processResults`, `createResult`, `updatePolicyStatus` | overlapping scans, cancellation without waiting, dispatch outside the lock, name collisions |
| Controller (`internal/controller/checklistpolicy_controller.go`) | `schedulers` map; the policy object in the API server | `Reconcile` (not found, deletion, finalizer, Run Now, rebuild, status) | stale cache, conflicts, retries, restart, its own status writes wake it |
| Engine (`internal/engine/engine.go`) | snapshot hash and last verdicts per policy | `collectSnapshot`, `RunChecks` | memory copied under the lock and used after it; reuse of verdicts; batches |
| Tools (`internal/engine/tool`) | registry; a cache per run | `Register`, `Call` | cluster changes during a run |
| Claude adapter (`internal/engine/llm/claude.go`) | one conversation per call | `Verify`, `BatchVerify`, `processToolUse`, verdict parsers | bounded tool loop, partial failures, free text |
| Notifiers (`internal/notify`) | none | `Dispatch`, `Send` | tried once, no timeout |
| API server: policies (`server/handler/policies.go`, `run.go`) | the policies in the cluster | CRUD, Run Now | read-modify-write against the reconciler |
| API server: settings (`server/handler/settings.go`) | one ConfigMap | `GetSettings`, `UpdateSettings` | a read, then a create or an update, with other writers between; a map without data |
| API server: authentication (`server/handler/auth.go`) | none: the token carries its expiry | `Login`, the middleware, `AuthCheck` | expiry while a page is open |
| UI: session (`ui/src/api/client.ts`, `App.tsx`, `pages/Login.tsx`) | one token in localStorage, shared by the tabs; page and requests of each tab | login, guard, requests, redirect, logout | answers that arrive after the session has changed in another tab |
| UI: settings page (`pages/Settings.tsx`) | form, JSON text, the query's data | edit, switch editors, save, seed | polls against unsaved edits, saves against fetches in flight |
| UI: policies page (`pages/Policies.tsx`, `Combobox.tsx`, `Modal.tsx`) | list, detail view, form, dialogs, query, mutations | create, edit, delete, Run Now, preview | answers for a form that was closed or opened again, resets, stale detail view |
| UI: dashboard and results (`pages/Dashboard.tsx`, `Results.tsx`) | filters, page number, picked result, unfolded checks | filter, page, pick, unfold | lists that shrink below the page, counts that are missing |

Interaction: the controller owns one scheduler per policy and rebuilds it on every
reconcile that reaches that branch; schedulers share one store and call their
engine, the dispatcher and the API server from goroutines; each full scan ends
with a status update that wakes the controller, which stops and rebuilds the
scheduler; users change policies through the API server's handlers, which have an
uncached client, while controller and scans read from the informer's cache.  The
pages of the UI poll the API server through queries of react-query and change it
through mutations, whose success invalidates the queries; every request carries
the token, and a refused one removes it and loads `/login`.

What makes the parts correct: alerts follow the lifecycle exactly and each change
is announced once (store); no transition is lost or doubled however scans overlap,
and what channels show agrees with the store (scheduler); a deleted policy has no
scheduler, user edits survive, the controller converges (controller); each verdict
belongs to the snapshot of its run, and each check gets one (engine); the
conversation is well formed and only a final answer gives a verdict (adapter); an
accepted token is not thrown away by accident, and a logout reaches the open tabs
(session); what a save reports is true, and a page shows what was saved and keeps
what was typed (pages).  `PROJECT.json` lists the hazards line by line.

## 2. Modules

Operator:

* **AlertStore** is `store.go`: every locked method is one action whose last
  parameter is the returned `*Transition`.  `checks[p][c]` is the map, `Absent` a
  missing entry, `now` the clock.  `Inc32` is `++` on an int32.
* **AlertLifecycle** is the abstract specification: phases quiet, firing,
  escalated, a count of failures, and the last announcement.  It escalates when the
  code does, one failure later than the documents say (section 3).
* **AlertHistory** composes the store with history variables driven by calls and
  return values only (`streak`, `since`, `heard`, `told`, `demoted`), states the
  properties and the refinement mapping.  `Spec` is what the operator calls;
  `SpecWithRestore` adds `RestoreFromFailedSince`, which has no caller.
* **AlertStoreProofs** holds the store's theorems.
* **Scheduler** composes the store with the scans of one policy.  A scan is a slot
  with a program counter; its steps are the points where it touches shared state:
  registering its cancel function (`Register`), selecting failed checks,
  `RunChecks`, the store call and the later `GetState`, `Dispatch`, creating the
  result, fetching and updating the status.  A specification is the list of checks
  and whether `failedRescan` is configured, without which `Start` registers no
  rescan loop.  `orphan` marks scans of a stopped
  scheduler, `tracked` those whose cancel function `Stop` still has.  `board` is
  what each channel shows; `net` and `blurred` are history.
* **SchedulerProofs** holds the scheduler's theorems.
* **Controller** is the reconciler for one policy.  `obj` is the object in the API
  server, `watch` the versions the informer has not delivered, `cache` its copy,
  `work` the reconcile in progress.  A reconcile is two steps, since it reads once
  and writes at most once; a write with a stale copy is refused.  Its environment
  is the API server's handlers, the secrets, the scans and restarts.
* **ControllerProofs** holds the controller's theorems.
* **Engine** is `RunChecks` with the tool registry and the per-run cache.  Its
  lifetime is that of one scheduler: a rebuild starts with an empty memory.  A
  snapshot stands for its hash.  A call is a tool with parameters, and the cache is
  keyed by both, as `cacheKey` has it: the snapshot calls every tool with `{}`, and
  the LLM must give `list_pods` a namespace, so its call misses the snapshot's entry.
* **EngineProofs** holds the engine's theorems.
* **VerdictParsing** is the two verdict parsers as operators on token sequences.
* **ClaudeAdapter** is the conversation loop of `Verify` and `BatchVerify`; its
  last step reads the verdicts of the text with VerdictParsing, and its properties
  say what the parsers must make of a text.  `InOrder` is the order in which
  `processToolUse` ranges over the blocks of a response.
* **AdapterProofs** holds the theorems of the adapter and the parsers.

API server and web UI:

* **Session** is the token and the tabs.  `stored` is localStorage, `page[t]` what
  a tab shows, `calls[t]` its requests in flight, `owner` the tab that stored the
  token last.  A full load of a page (the redirect after a refusal, a logout)
  drops the tab's requests, a `navigate` of the router does not.  Of the server,
  `issued` and `expired` are enough: tokens are numbered in the order they are
  issued, which is the order in which they expire.
* **SessionProofs** holds the session's theorems.
* **Settings** is the settings page, its query and the two handlers.  `cm` is the
  ConfigMap (absent, without data, not JSON, or good, which includes a stored
  `null`), `puts` the saves in flight,
  each one a read and a later write, `query` the cached document and its fetch,
  `page` the two editors.
* **SettingsProofs** holds the theorems of the settings.
* **Combobox** and **PolicyForm** are operators on the state of a combobox and of
  the form that creates and edits a policy: prefill, reset, inputs, the
  specification that is sent (`Submitted`) and, computed separately with conditions
  of its own, the one that is previewed (`buildCR`).  A specification is a function
  on the fields it has, so that one left out differs from an empty one.  `typed` and
  `left` are history: what was typed since the form was opened, and what a form that
  was shut without a reset left behind.
* **Policies** is the policies page over them: list, detail view, dialogs, the
  query `policies`, a request per mutation, the server's answers, other clients.
* **Overview** is what the UI computes from scans: the dashboard, the results with
  filters and pages, the detail view and the badges of a policy's health, with the
  writers of the status they read: a scan (`ScanReports`), a reconcile that built a
  scheduler (`ReconcileReports`) and one that could not (`BuildFails`).  The list
  of results is sorted by rank: the i-th is the one with i - 1 others before it.
* **Console** composes the two as the routes of `App.tsx` do: a behaviour is a
  visit of the policies page, or of the dashboard and the results.
* **ConsoleProofs** holds the theorems of these pages and of their composition.

The **MC** modules only define constants and symmetries.

Abstractions in the operator: descriptions, reasoning, payloads and messages are
left out; a secret is "every secret resolves" or not; `LastUpdated` is written and
never read; object versions are not numbered, a copy is stale when a write it
lacks happened; of the result name the scan type (in its case) and the second are
kept; the conditions a scan writes are in Controller and in Overview
(`ScanReports`), not in Scheduler.

Abstractions in the UI: react-query, which is a library, is modelled from how the
pages use it: a query polls, `invalidateQueries` cancels a fetch in flight and
sends another one unless there are no data yet (then the fetch in flight goes on,
and its answer counts as valid), an equal document is no change, a
query without data renders the loading state and so unmounts the forms on the
page, and a mutation whose form is gone goes on without it.  A section of the
settings is one value; of a policy's specification the form knows four parts, and
`hidden` stands for what it does not know and therefore does not send.  A result's
text is whether the search matches it.  Escape anywhere in a dialog closes it, so
it is not an operation of the combobox inside.

## 3. Runs

| Run | Question | Bounds |
|---|---|---|
| `store` | escalation, `FailedSince`, announcements, refinement | 1 policy, 2 checks; threshold and counter width small enough that the counter wraps |
| `scheduler_overlap` | conservation of alerts, channels agree with the store, whom `Stop` cancels, the two-step read of `FailedSince` | 1 check that the policy may lose, 2 full scans, 1 channel, threshold 1, 2 instants |
| `scheduler_rescan` | failing checks are rescanned | 1 check, with and without `failedRescan`, a full scan and a rescan, 1 crash |
| `controller` | safety of the reconciler; convergence, truthful conditions, rest | 3 specs, one invalid; 8 moves of the environment, lag 3 |
| `engine_runs` | every check judged, on the run's own snapshot, from one view | 2 runs sharing the memory; lists of 0, 1 and 3 checks, batches of 2; the LLM asks for nodes as the snapshot does and for pods with a namespace; pods change and their tool may fail |
| `adapter` | conversation, evidence, cut-off; what the parsers understand | 3 iterations, 5 shapes of responses; all texts of 3 tokens and two answered lines after any token; 2 IDs, one inside the other |
| `session` | who may remove an accepted token; a logout reaches the open tabs; the guard decides | 2 tabs, 2 logins, 2 requests in flight per tab, 1 load by the user, 1 fault |
| `settings` | truthful answers; form, text and query agree; saved is shown; edits survive polls; the page catches up | 2 saves by anybody, 1 fault or revisit; every state of the ConfigMap, documents with and without the sections, `null` |
| `console` | forms, previews, lists, filters, pages and totals agree with the data they stand for | 2 namespaces; 4 inputs, 2 mutations, 1 upset, 5 of these together, a mutation counting twice; 4 results in pages of 2; 3 clicks, 2 writes of statuses, 1 loss, 4 of these together |

Why these are enough: the store treats checks independently, so two of them show
interference if there is any; races of scans are between two of them (a handle and
its overwriter, a holder and an overtaker); the reconciler needs create, finalizer,
build, an edit, Run Now, a failure, a deletion and a re-creation to go through all
its branches, which is eight moves; the engine's memory is written by one run and
read by another; a batch boundary needs one list below, at and above it; the
parsers look at a mention, a verdict mark and the word after it for at most two
checks.  A token is lost to another tab when that tab's request was sent with an
older token, which takes two tabs and two logins; a read-modify-write is overtaken
by one other save; a form meets the answer of its own earlier life with one
request sent, a closing, an opening and an input; a page number falls out of range
when one page of two becomes empty.  Slots and runs are interchangeable, and
symmetry is only used in runs without liveness.  Constants whose names begin with
`Max`, and the slots, are the bounds.  Deadlock is checked except where the model
ends on purpose: the controller comes to rest, a conversation returns.

Some properties say what the code does where a reader might expect more, and hold
because they name the exception: `OnlyLateRefusalsLogOut` allows the refusal of an
old request of another tab to remove a new, accepted token; `TypedIsKept` allows
the success of an earlier request to reset a form that was closed and opened again
meanwhile; `EditsOutlastPolls` allows a poll that brings a changed document to
overwrite unsaved edits; `InRange` allows a page or a filter to point nowhere when
results have gone since it was chosen; `BoxesAreClean` allows a namespace to be
chosen twice in the form of a policy that names it twice, and
`CollapseWhenAllUnfolded` says that Collapse All is never offered for a result in
which a check ID occurs twice.  The instance of `console` has such a policy and such
a result.  Further:

* `SavedIsShown` and `AcknowledgedIsListed` except the first fetch.  While there are
  no data `invalidateQueries` does not cancel it; if it read the store before a save
  that is acknowledged before it arrives, its older answer counts as valid until the
  next fetch.  Both pages allow a save then, after a failed first fetch.
* `UntouchedFormShowsData` excepts a stored `null`: a body of `null` is accepted by
  `UpdateSettings`, and the effect of the page returns early, so that the editors
  go on showing the document before it.
* `UntouchedFieldsAreShown` excepts what a form left behind that was shut without a
  reset.  A create form is unmounted when the user goes to a detail view; back in the
  list there is a new one, but both close through the page's `setShowCreate`.  The
  late success of a create sent from the first shuts the second, whose fields stay,
  and the next "New Policy" shows what was typed there.
* `HealthAgrees` excepts a policy without a scheduler: a failed build sets Degraded
  and leaves the summary, so the dashboard says Healthy, or No data, where the list
  says Error.  `setDegradedCondition` would do the same, but cannot be reached.
* `BoardShowsState` excepts checks with a lost notification or with transitions held
  by two scans at once, `StopReachesTracked` the scans whose cancel function was
  overwritten or never registered, `FailingIsRescanned` policies without
  `failedRescan` and rescans that hang.  These properties show that the exceptions
  are the only ones, not that they do no harm.

Violations, each against a sentence of the repository:

| Run | Sentence | What the code does |
|---|---|---|
| `scheduler_restart` | "Duplicate alerts are suppressed." | a restart forgets the alerts, a check that still fails fires again |
| `controller_run_now` | "RunNow triggers an immediate scan" | without a scheduler the annotation is removed and nothing runs |
| `adapter_per_check` | "extracts per-check verdicts" | a check without a line takes the verdict of another check's line |

Four divergences were met that have no run, because one line shows them.  The
escalation comes one failure late: the documents have it on the N-th consecutive
failure ("escalation defines how many consecutive failures trigger escalation.",
`checklistpolicy_types.go:152`; "ESCALATED (after N consecutive failures)",
`src/README.md:97`; `N failures` in `Policies.tsx:231`), while `RecordFail` leaves
`RetryCount` at 0 on the first one and so escalates on failure N + 1
(`store.go:83`, and `store_test.go:98` expects it); `EscalatesOnThreshold`,
`AlertLifecycle` and `EscalationIsExact` state what the code does.  Besides, N is
the constant 5 of `cmd/main.go:189`.  `updatePolicyStatus` makes the name of
`lastResultName` again, later and not in lower case (`scheduler.go:282` against
`:237`), so it need not be the name of the result; `collectSnapshot` asks for `get_events` while the tool is registered as
`list_events` (`engine.go:33`), so events are never in the snapshot; and the
comment at `Settings.tsx:50` has the form seeded "on initial load", while the
effect runs for every document that differs from the last one.

Every property of a passing run has a mutant of the code that breaks it (a dropped
guard, a missing reset, an ignored error); the mutants stand before the definition
they replace and are marked as such.

## 4. Fairness

* Scheduler: weak fairness of the rescan cron entry and of a goroutine's local
  steps (registering, selecting, recording).  Nothing is assumed of the LLM, the
  channels and the API server, since the HTTP clients have no timeout;
  `FailingIsRescanned` has "rescans come to an end" as a hypothesis instead, and
  holds also while a full scan hangs.
* Controller: weak fairness of the informer, of the single worker and of its
  write.  The work queue retries after an error with a back-off, and a write that
  is not stale eventually succeeds because failures are moves of the environment,
  which are finite.  Users, secrets and scans owe nothing.
* Session: weak fairness of a tab's polling, of the server's answer, of the
  handling of an answer and of the browser's load of `/login`.  Only the tab in
  the foreground polls, as react-query does by default, so `LoggedOutEverywhere`
  is about a tab the user keeps looking at.  Logins, logouts and loads owe nothing.
* Settings: weak fairness of the poll (`refetchInterval`), of the server's answer
  to it and of its arrival.  Saves, and the user, owe nothing.
* Console: none; its properties are about safety.

## 5. Proofs

`AlertStoreProofs` proves, for all sets of policies and checks, every threshold,
every counter width and every clock bound (assumption `StoreConstants`: the
threshold is an integer that fits the counter):

* `StoreTypeCorrect`: `Spec => []TypeOK`;
* `EscalationIsExact`: `Spec => []EscalatesOnThreshold`;
* `FailedSinceIsExact`: `Spec => []FailedSinceIsStreakStart`;
* `AnnouncedOnce`: `Spec => []ToldOncePerState`;
* `StoreImplementsLifecycle`: `Spec => ImplementsLifecycle`;
* `RestoreKeepsTheCount`: `SpecWithRestore => []RestoreKeepsCount`;
* `RestoreDeduplicates`: `SpecWithRestore => NoFiringDuringStreak`.

The first five rest on `StoreInvariant`: `StoreInv` is the conjunction of the four
invariants, and is inductive.  None of them is so alone: that a repeated failure
does not announce needs the count to be exact, which needs the count of a check
that is not failing to be zero; the type of `RetryCount` while FIRING comes from
the streak's bound.  The invariant is broken down to one check (`StoreInvByKey`),
the effect of a call on the check concerned is a lemma per method (`FailEntry`,
`PassEntry`), and the other checks are untouched.  The refinement maps `phase` and
`fails` to functions of the store's entry; every call is one abstract step or a
stutter.  With restores at any time the last two have a weaker invariant,
`RestoreInv`: a check that a restore took back from ESCALATED to FIRING, whose count
is then off, is failing until it passes, and the counts of all others are exact.  They say what the operator
would gain by calling `RestoreFromFailedSince` at its start.

`ControllerProofs` proves, for all sets of specifications, every lag of the
informer and every number of moves (`ControllerConstants`):

* `ControllerTypeCorrect`: `Spec => []TypeOK`;
* `GoneHasNoScheduler`: `Spec => []GoneIsStopped`;
* `UserFieldsAreKept`: `Spec => ReconcilerKeepsUserFields`.

`GoneIsStopped` is not inductive, since a stale version of a policy could make the
reconciler build a scheduler for one that is gone.  `ControllerInv` says why not:
the newest version on its way is the object (`NewestIsObject`); as long as a
version that allows a build is in the cache or on its way there, the object has
its finalizer (`VersionsAreGuarded`); without the finalizer there is no scheduler
(`SchedulerIsGuarded`); and a reconcile that is not stale holds the object itself
(`WorkFits`), which is also why its write loses nothing a user wrote.

`SessionProofs` proves, for every number of tabs, logins, requests, loads and
faults (`SessionConstants`):

* `SessionTypeCorrect`: `Spec => []TypeOK`;
* `OwnTabIsCurrent`: `Spec => []OwnRequestsAreCurrent`;
* `OnlyLateRefusals`: `Spec => OnlyLateRefusalsLogOut`.

`SessionInv` adds to `OwnRequestsAreCurrent` which requests a page may have in
flight (`Fits`: a login page has no request of an earlier session, since the
redirect to it was a full load) and what an answer says of its token (`Credible`:
a refused token is expired, or none).  Together they show that a refusal in the
tab that logged in means that the stored token has expired.

`SchedulerProofs` proves, for any number of scans that overlap, all check lists,
any channels, thresholds, counter widths and restarts (`StoreConstants` and
`SchedulerConstants`: the two loops' slots are apart, and finitely many):

* `AlertsAreConserved`: `Spec => []AlertsConserved`;
* `BoardsShowState`: `Spec => []BoardShowsState`;
* `StopReachesAllTracked`: `Spec => []StopReachesTracked`;
* `FailedSinceIsNotOlder`: `Spec => []FailedSinceNotOlder`;
* `ScansFollowLifecycle`: the store that the scans share goes through
  `AlertLifecycle`, and begins it anew at each restart.

`SchedulerInv` has the four properties and what each needs to survive a step of
another scan.  `Types` has, with the types, that a scan between two calls of
`processResults` has a verdict for the check at hand.  `Handles` says why `Stop`
reaches a tracked scan: it is the one the cancel function of its loop cancels, and
a scan that overwrites the function takes the mark away.  `CleanIsCurrent` is the
missing half of `BoardShowsState`: a transition that nothing has blurred is the
only one on its way for its check and still says the state of the store, so that
its dispatch brings the channels up to date.  `SinceKept` says that between a
failure and the separate `GetState` the start of the incident is never moved back,
since only a pass ends it and a later failure starts a later one.  Conservation is
arithmetic over `Cardinality` of the scans that hold a transition; the lemmas on
that set (a scan enters, leaves or keeps what it holds) are shared by all actions.

`ScansFollowLifecycle` is the refinement at the level of the operator.  The phase,
the failures and the last state heard of are read off the store's entries, without
the histories that `StoreImplementsLifecycle` uses.  Every step but a restart is a
step of the lifecycle or none, and one that changes the state shown of a check
leaves the transition with exactly one scan that held nothing before (`ChangeIsHeld`).  So an
incident is escalated on the failure that the argument of `NewStore` names, whichever
overlapping scans recorded the failures.  It needs one more invariant, `Counted`:
the retries of a firing check are below the threshold, which also keeps `RetryCount`
away from its wrap until the escalation.

`EngineProofs` proves, for any number of runs that share the memory, all lists of
checks (IDs that occur twice included), every batch size and every behaviour of
cluster, tools and LLM (`EngineConstants`):

* `EveryCheckIsJudged`: `Spec => []EveryCheckJudged`;
* `VerdictsMatchSnapshots`: `Spec => []VerdictMatchesSnapshot`;
* `OneViewPerRunHolds`: `Spec => []OneViewPerRun`.

`EngineInv` says that the shared memory, and each run's copy of it taken under the
lock, is `Faithful` (the verdict kept under an ID is of that check and was given on
the snapshot kept with it), that a run's results so far are those of the first
checks of its list, on its own snapshot, and that what a run has seen of a tool is
what its cache answers.  A reused verdict is right because the copy is faithful and
its hash equals the snapshot; the memory written back is faithful because one run
writes hash and verdicts together.  `OneViewPerRun` is about equal calls: what the LLM
reads with parameters of its own may be newer than the snapshot.

`AdapterProofs` proves, for responses and texts of any length, all batches, any
nesting of IDs and any limit of iterations (`ParsingConstants`, `AdapterConstants`):

* `ConversationIsAccepted`: `Spec => []ConversationAccepted`;
* `EvidenceIsWhatTheModelSaw`: `Spec => []EvidenceIsWhatWasShown`;
* `VerdictsComeAtTheEnd`: `Spec => []NoVerdictBeforeTheEnd`;
* `AnswersAreUnderstood`: `Spec => []AnswerIsUnderstood`;
* `SilenceIsFailure`: `Spec => []SilenceFails`.

`AdapterInv` keeps the conversation acceptable at every point of the loop, not only
before a call (`Talk`), the evidence equal to the tool results shown so far, and the
verdicts equal to what the parser makes of the last response.  The core is
`TurnsMatch`: the assistant's turn and the user's turn built from one response name
the same tool uses in the same order, although the two loops leave different blocks
out.  The last two theorems reduce to lemmas about the parsers: the first line that
mentions a check and asks for a verdict is its own answer, or there is none.

`SettingsProofs` proves, for all documents, any number of saves, failures and visits
(`SettingsConstants`):

* `AnswersAreTrue`: `Spec => []AnswersTellTheTruth`;
* `UntouchedShowsData`: `Spec => []UntouchedFormShowsData`;
* `SavedDocumentIsShown`: `Spec => []SavedIsShown`;
* `EditsOutlastAllPolls`: `Spec => EditsOutlastPolls`.

`SettingsInv` adds that a save which is not answered has stored nothing, and an order
of versions (`Versions`): the one this tab knows of is at most the stored one, and
the answer of a fetch that has not arrived yet is at least as new as the last
acknowledged save, because the acknowledgement cancelled every older fetch, unless it
is the first one (`query.first`).

`ConsoleProofs` proves, for all names, namespaces and specifications and any number
of inputs, requests and failures (`PoliciesConstants`: names and namespaces are not
empty, which the API server guarantees, and a specification's targets are a list of
strings), of the policies page:

* `OneSubmissionPerFormHolds`: `Spec => []OneSubmissionPerForm`;
* `AcknowledgedChangesAreListed`: `Spec => []AcknowledgedIsListed`;
* `UntouchedFieldsShowThePolicy`: `Spec => []UntouchedFieldsAreShown`;
* `PreviewIsWhatIsSubmitted`: `Spec => []PreviewIsSubmitted`;
* `TypedInputIsKept`: `Spec => TypedIsKept`;
* `ComboboxesAreClean`: `Spec => []BoxesAreClean`.

`PageInv` has four layers, each proved from those before it.  `RequestInv`: every
request has its own number and nobody waits for a request whose form is gone.
`ListInv`: the order of versions, as for the settings.  `PolicyInv`: what the views
show are policies with a name and a namespace, and a detail view comes from a loaded
list.  `FormInv`: the name and the namespace of a policy that exists are never typed,
so that in an edit the namespace is never empty: the preview replaces an empty one by
the default in every form, the request only in one that creates.  The comboboxes add
two layers that need each other: `BoxInv` for the form, and `SpecsInv`, that every
specification stored, listed, looked at or on its way has a list of namespaces, since
what one form sends is what another one is filled in with.  That choosing and taking
away values adds no duplicate is a lemma about the loop of `Without`.

Of the dashboard and the results, for all results and statuses, every page size and
any number of clicks, scans and losses (`OverviewConstants`: a result has its own
place in the server's list, the counts of a summary are naturals, the policies and
the results of earlier scans are finitely many):

* `PageInRange`: `OverviewSpec => []InRange`;
* `CollapseIsOfferedRightly`: `OverviewSpec => []CollapseWhenAllUnfolded`;
* `HealthIsConsistent`: `OverviewSpec => []HealthAgrees`;
* `ResultsAreSorted`: the sorted list enumerates the data, each result once, in order.

`OverviewInv` is the invariant.  `DataInv`: what the queries hold are finite sets of
results that scans made and of entries of policies.  `RangeInv` is stronger than
`InRange`: the page number points at a match also in the detail view and while
nothing is listed, where `InRange` says nothing but the way back leads to the list.
It survives a fetch because data that did not shrink leave at least as many matches,
and Next because a number below `totalPages` begins inside the list.  `FoldInv`: what
is unfolded are checks of the picked result, so that comparing a set's size with a
list's length decides whether they are all of them, given that no ID occurs twice.
For the dashboard's total, the sum over a set is shown to be 0 exactly when all
summands are.  `Truthful` is what makes cards and badges agree: in every status, in
the cluster or fetched, Degraded and Available are both set or both missing, and
opposite; Degraded holds exactly if the summary has failures or the last build failed.

`ConsoleIsSafe` states the nine safety properties of the composition that the run
checks; a lemma splits a visit into a behaviour of either page.

Induction over data is not given by the library in a form the provers can use.  Where
a proof needs it, it is done by hand from the least-number principle, which follows
from the well-foundedness of `<`: for `Kept` (the loop of `runRescan`), for the
greatest index of a check in the engine's list, for the enumeration `InOrder`, for
`FlattenSeq`, for the loop of `Without` and for the sum behind `agg`: the defining
recursion is shown to have a solution, and then what every solution satisfies.

What the proofs found in the models: two arms of a `CASE` in `Engine!Answers` were
both true for a registered tool whose answer is cached, so that only TLC's choice of
the first made the cache answer; it is now an `IF`.  In `Policies!Closed` the arms
exclude each other only because of the last but one part of `RequestInv`, which was
added.  `BoxesAreClean` and `CollapseWhenAllUnfolded` used to hold only because the
instance had no list with duplicates, which neither the API server nor the form
refuses; they now name the exception, and the instance has it.

Only model-checked:

* liveness, which needs fairness and `ENABLED`: `FailingIsRescanned`,
  `EventuallyConverged`, `EventuallyTruthful`, `EventuallyQuiet`,
  `LoggedOutEverywhere`, `GuardDecides`, `EventuallyShowsStored`;
* the three violations.

## 6. Not modelled

* UI: rendering (badges, cards, icons, tooltips, the rounding of the health ring,
  the error boundary), toasts and their timers; an error message that stays in a
  form that is opened again; the default namespace before `/info` has answered,
  other than as the constant it is then; the configuration without credentials,
  in which the login page refuses everybody and the UI cannot be entered.
* API server: the reads other than the lists the pages show, static files and
  routing, which keep no state; the token's encoding and cryptography.
* Operator: the text of prompts, payloads and JSON schemas; the tools' output
  format; flags, metrics and leader election; `setDegradedCondition`, which cannot
  be reached because `RunChecks` never returns an error; the policy's
  `escalationThreshold` field, which no code reads: the store is made with
  threshold 5.
* Deployment manifests and generated code.

## 7. Plan

1. *Done*: store with lifecycle, scheduler, controller, engine, adapter and parsers,
   session, settings, the pages of the UI; theorems for the safety properties of all
   of them.
2. Operator composition: several policies and namespaces over one store (the key
   without namespace, entries that are never removed), scheduler and controller
   together, with the rebuild after each full scan.
