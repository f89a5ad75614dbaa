------------------------------ MODULE Overview ------------------------------
(***************************************************************************)
(* What the web UI shows of scans: the dashboard                           *)
(* (ui/src/pages/Dashboard.tsx), the page of results with its filters, its *)
(* pages and its detail view (ui/src/pages/Results.tsx), and the badges of *)
(* a policy's health (ui/src/pages/Policies.tsx), with the three writers   *)
(* of a policy's status: scans, and reconciliations that succeed or fail.  *)
(*                                                                         *)
(* The two pages share the query 'results' and keep nothing else when the  *)
(* user goes from one to the other.  A result has its place in the         *)
(* server's list, the time of its creation, its policy, the type of the    *)
(* scan, the numbers of its summary (or none), the IDs of its checks, and  *)
(* whether the text in the search field occurs in it.  The conditions of a *)
(* status are a set: no two have the same type, and none is shown by its   *)
(* place.                                                                  *)
(***************************************************************************)
EXTENDS Naturals, FiniteSets, Sequences, SequencesExt, FiniteSetsExt

CONSTANTS
  Results,     \* the results that scans may leave
  Earlier,     \* those of scans before the visit
  PAGE_SIZE,   \* 20 in the code
  MaxClicks,   \* bound: clicks and inputs on the page of results
  MaxReports,  \* bound: writes of policies' statuses
  MaxLosses,   \* bound: failed fetches and deleted policies
  MaxSteps     \* bound: all of these together

NoSummary == [pass |-> 0, warn |-> 0, fail |-> 0, none |-> TRUE]
NoStatus == [summary |-> NoSummary, conditions |-> {}, broken |-> FALSE]
PolicyNames == {r.policy : r \in Results}
Summaries == {NoSummary} \cup [pass : Nat, warn : Nat, fail : Nat, none : {FALSE}]

ASSUME OverviewConstants ==
  /\ Earlier \subseteq Results /\ IsFiniteSet(Earlier) /\ IsFiniteSet(PolicyNames)
  /\ PAGE_SIZE \in Nat \ {0}
  /\ \A r \in Results :
       r.place \in Nat /\ r.time \in Nat /\ r.checks \in Seq(STRING) /\ r.summary \in Summaries
  /\ \A r, s \in Results : r.place = s.place => r = s
  /\ \A bound \in {MaxClicks, MaxReports, MaxLosses, MaxSteps} : bound \in Nat

Nothing == [place |-> 0, checks |-> <<>>]

VARIABLES
  made,      \* results of scans so far
  kept,      \* those in the cluster: the results of a deleted policy go with it
  status,    \* the status of each policy; its broken is a history: the last
             \* reconciliation could not build a scheduler, and no scan reported since
  cache,     \* the queries 'results' and 'policies'
  shown,     \* the page: "dashboard" or "results"
  filter,    \* search, filterPolicy, filterType, filterVerdict ("" is all)
  page,      \* the page number, from 0
  picked,    \* the result in the detail view, or Nothing
  expanded,  \* the IDs of the checks unfolded there
  shrunk,    \* history: what a smaller list may have left out of range
  tally      \* the bounded counters

cluster == <<made, kept, status>>
results == <<filter, page, picked, expanded, shrunk>>
overview == <<made, kept, status, cache, shown, filter, page, picked, expanded, shrunk, tally>>

NoFilter == [search |-> "", policy |-> "", type |-> "", verdict |-> ""]
Unfetched == [loaded |-> FALSE, data |-> {}, fetching |-> TRUE]

\* isLoading of a query.
Waiting(query) == ~ cache[query].loaded /\ cache[query].fetching
Observed == IF shown = "results" THEN {"results"} ELSE {"results", "policies"}

OverviewInit ==
  /\ made = Earlier /\ kept = made
  /\ status = [policy \in PolicyNames |-> NoStatus]
  /\ cache = [query \in {"results", "policies"} |-> Unfetched]
  /\ shown = "dashboard"
  /\ filter = NoFilter /\ page = 0 /\ picked = Nothing /\ expanded = {} /\ shrunk = {}
  /\ tally = [clicks |-> 0, reports |-> 0, losses |-> 0]

Tally(what, bound) ==
  /\ tally[what] < bound
  /\ tally.clicks + tally.reports + tally.losses < MaxSteps
  /\ tally' = [tally EXCEPT ![what] = @ + 1]
-----------------------------------------------------------------------------
(* What is shown of the data.                                              *)

\* Newest first; the sort is stable, so results of one moment keep the server's
\* order.  The i-th result is the one with i - 1 others before it.
Before(r, s) == r.time > s.time \/ (r.time = s.time /\ r.place < s.place)
Sorted(data) ==
  [i \in 1..Cardinality(data) |->
     CHOOSE r \in data : Cardinality({s \in data : Before(s, r)}) = i - 1]

\* The conditions of filterVerdict.
HasVerdict(r, verdict) ==
  /\ ~ r.summary.none
  /\ CASE verdict = "PASS" -> r.summary.fail = 0 /\ r.summary.warn = 0
       [] verdict = "WARN" -> r.summary.warn > 0 /\ r.summary.fail = 0
       [] verdict = "FAIL" -> r.summary.fail > 0

Matches(r) ==
  /\ filter.search = "" \/ r.hit
  /\ filter.policy \in {"", r.policy}
  /\ filter.type \in {"", r.type}
  /\ filter.verdict = "" \/ HasVerdict(r, filter.verdict)

filteredResults == Sorted({r \in cache["results"].data : Matches(r)})

totalPages == (Len(filteredResults) + PAGE_SIZE - 1) \div PAGE_SIZE
paged == SubSeq(filteredResults, page * PAGE_SIZE + 1,
                Min({(page + 1) * PAGE_SIZE, Len(filteredResults)}))
policyNames == {r.policy : r \in cache["results"].data}

\* agg, over the policies with a summary.
agg(field) == MapThenSumSet(LAMBDA p : p.status.summary[field], cache["policies"].data)

\* The badge of a policy's card on the dashboard.
card(p) ==
  CASE p.status.summary.none -> "No data"
    [] ~ p.status.summary.none /\ p.status.summary.fail = 0 -> "Healthy"
    [] OTHER -> "failing"

Has(conditions, type) == \E c \in conditions : c.type = type /\ c.true

\* getLatestCondition and ConditionBadge, in the list of policies.
ConditionBadge(conditions) ==
  CASE conditions = {} -> "-"
    [] Has(conditions, "Degraded") -> "Error"
    [] Has(conditions, "Available") /\ ~ Has(conditions, "Degraded") -> "Healthy"
    [] OTHER -> "other"

\* Health Status, in the detail view of a policy.
DetailCard(conditions) ==
  CASE conditions = {} -> "Pending"
    [] Has(conditions, "Degraded") -> "Error"
    [] Has(conditions, "Available") /\ ~ Has(conditions, "Degraded") -> "Healthy"
    [] OTHER -> "none"
-----------------------------------------------------------------------------
(* The cluster and the queries.                                            *)

\* A scan leaves a result.
ScanDone(r) ==
  /\ made' = made \cup {r}
  /\ kept' = kept \cup {r}
  /\ UNCHANGED <<status, cache, shown, results, tally>>

\* A policy is deleted; the garbage collector takes its results.
PolicyDeleted(policy) ==
  /\ Tally("losses", MaxLosses)
  /\ kept' = {r \in kept : r.policy /= policy}
  /\ UNCHANGED <<made, status, cache, shown, results>>

\* The two calls of SetStatusCondition that every writer of a status makes.
WithConditions(old, degraded) ==
  {c \in old : c.type \notin {"Degraded", "Available"}} \cup
  {[type |-> "Degraded", true |-> degraded], [type |-> "Available", true |-> ~ degraded]}

Writes(policy, new) ==
  /\ Tally("reports", MaxReports)
  /\ status' = [status EXCEPT ![policy] = new]
  /\ UNCHANGED <<made, kept, cache, shown, results>>

\* updatePolicyStatus: the scan that has left a result reports its summary.
ScanReports(r) ==
  LET old == status[r.policy] IN
  /\ ~ r.summary.none
  /\ Writes(r.policy, [summary |-> r.summary, broken |-> FALSE,
                       conditions |-> WithConditions(old.conditions, r.summary.fail > 0)])

\* Mutant: a scheduler that runs is good news, whatever the last scan found.
ReconcileReportsHealthy(policy) ==
  LET old == status[policy] IN
  Writes(policy, [old EXCEPT !.broken = FALSE, !.conditions = WithConditions(@, FALSE)])

\* Reconcile with a scheduler built: the conditions follow the summary there is.
\* The status was read before, but a stale copy of it would be refused.
ReconcileReports(policy) ==
  LET old == status[policy] IN
  Writes(policy, [old EXCEPT !.broken = FALSE,
                             !.conditions = WithConditions(@, ~ old.summary.none /\ old.summary.fail > 0)])

\* Reconcile without: degraded, and the summary stays.  A scan that fails as a whole
\* would do the same (setDegradedCondition), but RunChecks returns no error.
BuildFails(policy) ==
  LET old == status[policy] IN
  Writes(policy, [old EXCEPT !.broken = TRUE, !.conditions = WithConditions(@, TRUE)])

\* refetchInterval.
Repoll(query) ==
  /\ query \in Observed
  /\ ~ cache[query].fetching
  /\ cache' = [cache EXCEPT ![query].fetching = TRUE]
  /\ UNCHANGED <<cluster, shown, results, tally>>

FetchFails(query) ==
  /\ cache[query].fetching
  /\ Tally("losses", MaxLosses)
  /\ cache' = [cache EXCEPT ![query].fetching = FALSE]
  /\ UNCHANGED <<cluster, shown, results>>

\* ListResults and ListPolicies.  These pages write nothing, so an answer that was
\* on its way while the cluster changed is one that came before the change.
Answered(query) ==
  IF query = "results" THEN kept
  ELSE {[policy |-> policy, status |-> status[policy]] : policy \in PolicyNames}

\* New data are rendered; the state of the page of results stays what it is.
FetchDone(query) ==
  /\ cache[query].fetching
  /\ cache' = [cache EXCEPT ![query] = [loaded |-> TRUE, data |-> Answered(query), fetching |-> FALSE]]
  /\ shrunk' = IF query = "results" /\ ~ cache[query].data \subseteq kept
               THEN {"page", "policy"} ELSE shrunk
  /\ UNCHANGED <<cluster, shown, filter, page, picked, expanded, tally>>
-----------------------------------------------------------------------------
(* The user.                                                               *)

\* The links of the dashboard and the navigation: the page is mounted anew, and
\* what was never loaded is fetched.
navigate(to) ==
  /\ shown /= to
  /\ shown' = to
  /\ cache' = [query \in DOMAIN cache |->
                 IF ~ cache[query].loaded /\ (query = "results" \/ to = "dashboard")
                 THEN Unfetched ELSE cache[query]]
  /\ filter' = NoFilter /\ page' = 0 /\ picked' = Nothing /\ expanded' = {} /\ shrunk' = {}
  /\ UNCHANGED <<cluster, tally>>

Listing == shown = "results" /\ ~ Waiting("results") /\ picked = Nothing
Detail == shown = "results" /\ ~ Waiting("results") /\ picked /= Nothing

\* Mutant: the filter by policy forgets to go to the first page.
setFilterKeepsPage(field, value) ==
  /\ Listing /\ Tally("clicks", MaxClicks)
  /\ filter' = [filter EXCEPT ![field] = value]
  /\ page' = IF field = "policy" THEN page ELSE 0
  /\ shrunk' = shrunk \ (IF field = "policy" THEN {"page", "policy"} ELSE {"page"})
  /\ UNCHANGED <<cluster, cache, shown, picked, expanded>>

\* The toolbar: every input goes to the first page.
setFilter(field, value) ==
  /\ Listing /\ Tally("clicks", MaxClicks)
  /\ filter' = [filter EXCEPT ![field] = value]
  /\ page' = 0
  /\ shrunk' = shrunk \ (IF field = "policy" THEN {"page", "policy"} ELSE {"page"})
  /\ UNCHANGED <<cluster, cache, shown, picked, expanded>>

\* Previous and Next, shown if there are several pages.
setPage(to) ==
  /\ Listing /\ Tally("clicks", MaxClicks)
  /\ totalPages > 1
  /\ (to = page + 1 /\ page < totalPages - 1) \/ to + 1 = page
  /\ page' = to
  /\ UNCHANGED <<cluster, cache, shown, filter, picked, expanded, shrunk>>

\* A click on a result's name.
pick(r) ==
  /\ Listing /\ Tally("clicks", MaxClicks)
  /\ picked' = r
  /\ UNCHANGED <<cluster, cache, shown, filter, page, expanded, shrunk>>

\* Mutant: the unfolded checks are state of the page, not of the detail view.
unpickKeeps ==
  /\ Detail
  /\ picked' = Nothing
  /\ UNCHANGED <<cluster, cache, shown, filter, page, expanded, shrunk, tally>>

\* onBack: the detail view and its state go; filters and page number stay.
unpick ==
  /\ Detail
  /\ picked' = Nothing /\ expanded' = {}
  /\ UNCHANGED <<cluster, cache, shown, filter, page, shrunk, tally>>

Unfold(ids) ==
  /\ Detail /\ Tally("clicks", MaxClicks)
  /\ expanded' = ids
  /\ UNCHANGED <<cluster, cache, shown, filter, page, picked, shrunk>>

toggle(id) == Unfold(IF id \in expanded THEN expanded \ {id} ELSE expanded \cup {id})

\* The label of the button, which expandAll decides by too.
CollapseOffered == Cardinality(expanded) = Len(picked.checks)

expandAll == Unfold(IF CollapseOffered THEN {} ELSE ToSet(picked.checks))

OverviewNext ==
  \/ \E r \in Results \ made : ScanDone(r)
  \/ \E r \in made : ScanReports(r)
  \/ \E policy \in PolicyNames :
       PolicyDeleted(policy) \/ ReconcileReports(policy) \/ BuildFails(policy)
  \/ \E query \in DOMAIN cache : Repoll(query) \/ FetchFails(query) \/ FetchDone(query)
  \/ \E to \in {"dashboard", "results"} : navigate(to)
  \/ setFilter("search", "text") \/ setFilter("type", "FullScan")
  \/ \E verdict \in {"PASS", "WARN", "FAIL", ""} : setFilter("verdict", verdict)
  \/ \E policy \in policyNames \cup {""} : setFilter("policy", policy)
  \/ \E to \in 0..(page + 1) : setPage(to)
  \/ \E i \in DOMAIN paged : pick(paged[i])
  \/ unpick \/ expandAll \/ \E id \in ToSet(picked.checks) : toggle(id)

OverviewSpec == OverviewInit /\ [][OverviewNext]_overview
-----------------------------------------------------------------------------
\* There is something on the page the user is on, if anything matches the filters,
\* and the filter by policy is one the toolbar offers: out of range they can only
\* be because results have gone since they were chosen.
InRange ==
  Listing =>
    /\ filteredResults /= <<>> /\ "page" \notin shrunk => paged /= <<>>
    /\ "policy" \notin shrunk => filter.policy \in policyNames \cup {""}

\* Collapse All is offered exactly when every check is unfolded, also after another
\* result was looked at; never for a result in which an ID occurs twice, because
\* the number of unfolded IDs is compared with the number of checks.
CollapseWhenAllUnfolded ==
  Detail => (CollapseOffered <=> expanded = ToSet(picked.checks) /\ IsInjective(picked.checks))

\* Every result that has a summary is found under exactly one of All Pass, Has
\* Warnings and Has Failures.
VerdictsPartition ==
  \A r \in cache["results"].data :
    ~ r.summary.none =>
      Cardinality({verdict \in {"PASS", "WARN", "FAIL"} : HasVerdict(r, verdict)}) = 1

\* The number of failing checks on the dashboard is 0 exactly when no card of a
\* policy says failing.
TotalsMatchCards ==
  (agg("fail") = 0) <=> (\A p \in cache["policies"].data : card(p) /= "failing")

\* The list of policies and the detail view tell the same of a policy's health.
BadgesAgree ==
  \A p \in cache["policies"].data :
    LET badge == ConditionBadge(p.status.conditions)
        detail == DetailCard(p.status.conditions)
    IN /\ (badge = "-") <=> (detail = "Pending")
       /\ {badge, detail} \cap {"Error", "Healthy"} /= {} => badge = detail

\* The dashboard and the list of policies tell the same of a policy's health: the
\* card says failing only beside Error, the badge says one of Error and Healthy once
\* anything was written, and it says Error beside another card than failing only
\* because no scheduler could be built: that leaves the summary of the last scan,
\* and the dashboard goes on saying Healthy (or No data).
CardsMatchBadges ==
  \A p \in cache["policies"].data :
    LET badge == ConditionBadge(p.status.conditions) IN
    /\ badge \in {"-", "Error", "Healthy"}
    /\ card(p) = "failing" => badge = "Error"
    /\ badge = "Error" => card(p) = "failing" \/ p.status.broken

\* The places that judge the same scan or the same policy, each by conditions of
\* its own on counts and conditions that may be missing and that scans and
\* reconciliations write, do not contradict each other: the filters of the results,
\* the dashboard's total and cards, the badge and the detail view of a policy.  The
\* exception, a policy without a scheduler, is the one CardsMatchBadges names.
HealthAgrees == VerdictsPartition /\ TotalsMatchCards /\ BadgesAgree /\ CardsMatchBadges
=============================================================================
