----------------------------- MODULE Scheduler -----------------------------
(***************************************************************************)
(* The dual-loop scheduler of one ChecklistPolicy                          *)
(* (operator/internal/scheduler/scheduler.go), with the goroutines it      *)
(* leaves running, over the alert store they share, the notification       *)
(* channels and the ChecklistResults and policy status they write.         *)
(*                                                                         *)
(* A scan is a goroutine: cron starts one per tick without waiting for the *)
(* previous one, Run Now starts one more, and Stop waits for none.  Its    *)
(* steps are the points where it touches something shared: the cancel      *)
(* handles, the store, a channel, the API server.  engine.RunChecks is one *)
(* step with an arbitrary outcome here; Engine models it.                  *)
(*                                                                         *)
(* Goroutines are drawn from a fixed set of slots.  A scan of a scheduler  *)
(* that has been stopped is "orphaned"; schedulers are otherwise not       *)
(* numbered, since Stop is never called twice on one.                      *)
(***************************************************************************)
EXTENDS AlertStore, Sequences, FiniteSets

CONSTANTS
  Policy,      \* the policy's name, the store's key
  Specs,       \* the specifications the policy may have: its checks (a sequence of
               \* IDs), and whether a failedRescan schedule is configured
  FullSlots,   \* goroutines available to full scans (cron and Run Now)
  RescanSlots, \* goroutines available to rescans
  Channels,    \* the configured notifiers
  MaxCrashes   \* bound on operator restarts

Scans == FullSlots \cup RescanSlots

ASSUME SchedulerConstants ==
  /\ Policy \in Policies
  /\ Specs \subseteq [checks : Seq(CheckIDs), rescan : BOOLEAN]
  /\ FullSlots \cap RescanSlots = {}
  /\ "none" \notin Scans
  /\ IsFiniteSet(Scans)
  /\ MaxCrashes \in Nat

VARIABLES
  running,         \* a scheduler is started
  spec,            \* its policy.Spec
  cancelFullScan,  \* the scan its cancelFullScan cancels, or "none"
  cancelRescan,    \* the scan its cancelRescan cancels, or "none"
  scan,            \* the goroutines
  results,         \* names of the ChecklistResults that exist
  lastResultName,  \* policy.Status.LastResultName
  crashes,         \* operator restarts so far
  board,           \* board[ch][c]: last announcement about c delivered on ch
  net,             \* history: FIRING minus RESOLVED dispatches of each check
  blurred          \* history: the last dispatch about c was lost or overtaken

handleVars == <<cancelFullScan, cancelRescan>>
apiVars == <<results, lastResultName>>
noticeVars == <<board, net, blurred>>
vars == <<checks, now, running, spec, cancelFullScan, cancelRescan, scan,
          results, lastResultName, crashes, board, net, blurred>>
-----------------------------------------------------------------------------
Verdicts == {"PASS", "WARN", "FAIL"}

\* GenerateResultName: policy, scan type and the second.  ToLower is the change
\* of case that createResult applies and updatePolicyStatus does not.
GenerateResultName(scanType) == <<scanType, now>>

ToLower(name) ==
  <<IF name[1] = "FullScan" THEN "fullscan" ELSE "rescan", name[2]>>

NoResult == <<"none", 0>>
NoSpec == [checks |-> <<>>, rescan |-> FALSE]

Idle == [pc |-> "idle", scanType |-> "FullScan", tracked |-> FALSE,
         orphan |-> FALSE, cancelled |-> FALSE, ids |-> <<>>, verdicts |-> <<>>,
         transition |-> NoTransition, clean |-> TRUE, since |-> 0,
         failedSince |-> 0, conflict |-> FALSE]

Goto(s, pc) == scan' = [scan EXCEPT ![s].pc = pc]

\* A goroutine ends; its cancel function, if still held, has no effect any more.
Forget(handle, s) == IF handle = s THEN "none" ELSE handle

Finish(s) ==
  /\ scan' = [scan EXCEPT ![s] = Idle]
  /\ cancelFullScan' = Forget(cancelFullScan, s)
  /\ cancelRescan' = Forget(cancelRescan, s)

\* Scans that hold a transition of c that is recorded and not yet dispatched.
Holding(c) ==
  {s \in Scans : /\ scan[s].pc \in {"readState", "notify"}
                 /\ Head(scan[s].ids) = c
                 /\ scan[s].transition /= NoTransition}

\* The next check of processResults, or createResult after the last one.
NextCheck(r) ==
  [r EXCEPT !.ids = Tail(@), !.verdicts = Tail(@), !.transition = NoTransition,
            !.clean = TRUE, !.since = 0, !.failedSince = 0,
            !.pc = IF Len(r.ids) = 1 THEN "create" ELSE "process"]
-----------------------------------------------------------------------------
Init ==
  /\ StoreInit
  /\ running = FALSE
  /\ spec = NoSpec
  /\ cancelFullScan = "none"
  /\ cancelRescan = "none"
  /\ scan = [s \in Scans |-> Idle]
  /\ results = {}
  /\ lastResultName = NoResult
  /\ crashes = 0
  /\ board = [ch \in Channels |-> [c \in CheckIDs |-> "none"]]
  /\ net = [c \in CheckIDs |-> 0]
  /\ blurred = [c \in CheckIDs |-> FALSE]

\* New and Start, for the specification the policy has at the time.
Start ==
  /\ ~running
  /\ running' = TRUE
  /\ spec' \in Specs
  /\ UNCHANGED <<checks, now, cancelFullScan, cancelRescan, scan, results, lastResultName,
                 crashes, board, net, blurred>>

\* Mutant: Stop forgets the cancel functions.
StopCronOnly ==
  /\ running
  /\ running' = FALSE
  /\ spec' = NoSpec
  /\ scan' = [s \in Scans |->
                IF scan[s].pc = "idle" THEN scan[s] ELSE [scan[s] EXCEPT !.orphan = TRUE]]
  /\ cancelFullScan' = "none"
  /\ cancelRescan' = "none"
  /\ UNCHANGED <<checks, now, results, lastResultName, crashes, board, net, blurred>>

\* Stop: call the cancel functions held, stop cron, wait for nobody.
Stop ==
  /\ running
  /\ running' = FALSE
  /\ spec' = NoSpec
  /\ scan' = [s \in Scans |->
                IF scan[s].pc = "idle" THEN scan[s]
                ELSE [scan[s] EXCEPT
                        !.orphan = TRUE,
                        !.cancelled = @ \/ s \in {cancelFullScan, cancelRescan}]]
  /\ cancelFullScan' = "none"
  /\ cancelRescan' = "none"
  /\ UNCHANGED <<checks, now, results, lastResultName, crashes, board, net, blurred>>

\* A cron tick starts the job function in a goroutine of its own.
Fire(s, scanType) ==
  /\ running
  /\ scan[s].pc = "idle"
  /\ scan' = [scan EXCEPT ![s] = [Idle EXCEPT !.pc = "spawned", !.ids = spec.checks,
                                              !.scanType = scanType]]
  /\ UNCHANGED <<checks, now, running, spec, handleVars, apiVars, crashes, noticeVars>>

FireFullScan == \E s \in FullSlots : Fire(s, "FullScan")

\* The second loop, which there is only if failedRescan is configured.
FireRescan == spec.rescan /\ \E s \in RescanSlots : Fire(s, "Rescan")

\* The job takes a cancellable context and leaves its cancel function with the
\* scheduler, over the one an earlier scan may still need.  A job that outlived
\* Stop leaves it with a scheduler nobody will stop again.
Register(s) ==
  /\ scan[s].pc = "spawned"
  /\ scan' = [t \in Scans |->
       IF t = s
       THEN [scan[s] EXCEPT !.tracked = ~scan[s].orphan,
                            !.pc = IF scan[s].scanType = "FullScan" THEN "verify"
                                                                    ELSE "select"]
       ELSE IF ~scan[s].orphan /\ t = (IF scan[s].scanType = "FullScan"
                                       THEN cancelFullScan ELSE cancelRescan)
       THEN [scan[t] EXCEPT !.tracked = FALSE]
       ELSE scan[t]]
  /\ cancelFullScan' = IF scan[s].scanType = "FullScan" /\ ~scan[s].orphan
                       THEN s ELSE cancelFullScan
  /\ cancelRescan' = IF scan[s].scanType = "Rescan" /\ ~scan[s].orphan
                     THEN s ELSE cancelRescan
  /\ UNCHANGED <<checks, now, running, spec, apiVars, crashes, noticeVars>>

\* TriggerFullScan: a full scan with the caller's context, no cancel function.
TriggerFullScan(s) ==
  /\ running
  /\ scan[s].pc = "idle"
  /\ scan' = [scan EXCEPT ![s] = [Idle EXCEPT !.pc = "verify", !.ids = spec.checks]]
  /\ UNCHANGED <<checks, now, running, spec, handleVars, apiVars, crashes, noticeVars>>

\* The checks of a list that are in a set, in their order.
Kept(ids, failed) ==
  LET kept[n \in 0..Len(ids)] ==
        IF n = 0 THEN <<>>
        ELSE IF ids[n] \in failed THEN Append(kept[n - 1], ids[n])
        ELSE kept[n - 1]
  IN kept[Len(ids)]

\* runRescan reads the failed checks and keeps those the policy still has; none
\* failed ends the rescan, none left in the policy does not.
SelectFailed(s) ==
  LET failed == FailedChecks(Policy) IN
  /\ scan[s].pc = "select"
  /\ \/ /\ failed = {}
        /\ Finish(s)
     \/ /\ failed /= {}
        /\ scan' = [scan EXCEPT ![s].pc = "verify",
                                ![s].ids = Kept(@, failed)]
        /\ UNCHANGED handleVars
  /\ UNCHANGED <<checks, now, running, spec, apiVars, crashes, noticeVars>>

\* RunChecks returns a verdict per check and never an error.  A cancelled or
\* failing LLM call yields FAIL, so any verdict is possible at any time.
RunChecks(s) ==
  /\ scan[s].pc = "verify"
  /\ \E verdicts \in [1..Len(scan[s].ids) -> Verdicts] :
       scan' = [scan EXCEPT ![s].verdicts = verdicts,
                            ![s].pc = IF scan[s].ids = <<>> THEN "create" ELSE "process"]
  /\ UNCHANGED <<checks, now, running, spec, handleVars, apiVars, crashes, noticeVars>>

\* The scan holds a transition (or none) of check c until it is dispatched.
\* Another transition of c held meanwhile may be dispatched out of order.
Hold(s, c, tr, pc) ==
  LET others == Holding(c) \ {s} IN
  scan' = [t \in Scans |->
    IF t = s
    THEN IF tr = NoTransition /\ pc = "notify" THEN NextCheck(scan[s])
         ELSE [scan[s] EXCEPT !.pc = pc, !.transition = tr,
                              !.clean = tr = NoTransition \/ others = {},
                              !.since = IF pc = "readState"
                                        THEN checks'[Policy][c].FailedSince ELSE 0]
    ELSE IF t \in others /\ tr /= NoTransition
    THEN [scan[t] EXCEPT !.clean = FALSE]
    ELSE scan[t]]

\* processResults, the call into the store for the check at hand.
Record(s) ==
  LET c == Head(scan[s].ids) IN
  /\ scan[s].pc = "process"
  /\ \/ /\ Head(scan[s].verdicts) = "FAIL"
        /\ \E tr \in Transitions : /\ RecordFail(Policy, c, tr)
                                   /\ Hold(s, c, tr, "readState")
     \/ /\ Head(scan[s].verdicts) = "PASS"
        /\ \E tr \in Transitions : /\ RecordPass(Policy, c, tr)
                                   /\ Hold(s, c, tr, "notify")
     \/ /\ Head(scan[s].verdicts) = "WARN"
        /\ scan' = [scan EXCEPT ![s] = NextCheck(@)]
        /\ UNCHANGED storeVars
  /\ UNCHANGED <<running, spec, handleVars, apiVars, crashes, noticeVars>>

\* processResults, the second call after a failure: GetState for FailedSince.
ReadState(s) ==
  /\ scan[s].pc = "readState"
  /\ LET read == [scan[s] EXCEPT
           !.failedSince = GetState(Policy, Head(scan[s].ids)).FailedSince,
           !.pc = "notify"]
     IN scan' = [scan EXCEPT ![s] = read]
  /\ UNCHANGED <<checks, now, running, spec, handleVars, apiVars, crashes, noticeVars>>

\* Mutant: a cancelled scan gives up before the notifiers.
DispatchUnlessCancelled(s) ==
  LET c == Head(scan[s].ids)
      tr == scan[s].transition
  IN
  /\ scan[s].pc = "notify"
  /\ \/ /\ tr = NoTransition \/ scan[s].cancelled
        /\ UNCHANGED noticeVars
     \/ /\ tr /= NoTransition
        /\ ~scan[s].cancelled
        /\ board' = [ch \in Channels |-> [board[ch] EXCEPT ![c] = tr.To]]
        /\ net' = [net EXCEPT ![c] = @ + (IF tr.To = "FIRING" THEN 1
                                          ELSE IF tr.To = "RESOLVED" THEN -1 ELSE 0)]
        /\ UNCHANGED blurred
  /\ scan' = [scan EXCEPT ![s] = NextCheck(@)]
  /\ UNCHANGED <<checks, now, running, spec, handleVars, apiVars, crashes>>

\* Send of a notifier posts the new state of the check; these channels accept it.
Send(delivered, c, to) ==
  board' = [ch \in Channels |->
              IF ch \in delivered THEN [board[ch] EXCEPT ![c] = to] ELSE board[ch]]

\* Dispatch tries every notifier once; errors are logged and that is all.  No
\* request of a cancelled context is answered.
Dispatch(s) ==
  LET c == Head(scan[s].ids)
      tr == scan[s].transition
  IN
  /\ scan[s].pc = "notify"
  /\ \/ /\ tr = NoTransition
        /\ UNCHANGED noticeVars
     \/ /\ tr /= NoTransition
        /\ \E delivered \in SUBSET Channels :
             /\ scan[s].cancelled => delivered = {}
             /\ Send(delivered, c, tr.To)
             /\ blurred' = [blurred EXCEPT ![c] =
                              ~scan[s].clean \/ delivered /= Channels]
        /\ net' = [net EXCEPT ![c] = @ + (IF tr.To = "FIRING" THEN 1
                                          ELSE IF tr.To = "RESOLVED" THEN -1 ELSE 0)]
  /\ scan' = [scan EXCEPT ![s] = NextCheck(@)]
  /\ UNCHANGED <<checks, now, running, spec, handleVars, apiVars, crashes>>

\* createResult.  The API server refuses a name that exists; a full scan that
\* cannot create its result does not touch the status.
CreateResult(s) ==
  LET name == ToLower(GenerateResultName(scan[s].scanType)) IN
  /\ scan[s].pc = "create"
  /\ \/ /\ ~scan[s].cancelled
        /\ name \notin results
        /\ results' = results \cup {name}
        /\ \/ /\ scan[s].scanType = "FullScan"
              /\ Goto(s, "fetch")
              /\ UNCHANGED handleVars
           \/ /\ scan[s].scanType = "Rescan"
              /\ Finish(s)
     \/ /\ UNCHANGED results
        /\ Finish(s)
  /\ UNCHANGED <<checks, now, running, spec, lastResultName, crashes, noticeVars>>

\* updatePolicyStatus, the Get: later updates of the object will conflict.
FetchPolicy(s) ==
  /\ scan[s].pc = "fetch"
  /\ \/ Goto(s, "update") /\ UNCHANGED handleVars
     \/ Finish(s)
  /\ UNCHANGED <<checks, now, running, spec, apiVars, crashes, noticeVars>>

\* updatePolicyStatus, the Update: refused when another update came between.  The
\* summary, times and conditions it also writes are data (Controller has them).
UpdateStatus(s) ==
  /\ scan[s].pc = "update"
  /\ \/ /\ ~scan[s].cancelled
        /\ ~scan[s].conflict
        /\ lastResultName' = GenerateResultName("FullScan")
        /\ scan' = [t \in Scans |->
             IF t = s THEN Idle
             ELSE IF scan[t].pc = "update" THEN [scan[t] EXCEPT !.conflict = TRUE]
             ELSE scan[t]]
     \/ /\ UNCHANGED lastResultName
        /\ scan' = [scan EXCEPT ![s] = Idle]
  /\ cancelFullScan' = Forget(cancelFullScan, s)
  /\ cancelRescan' = Forget(cancelRescan, s)
  /\ UNCHANGED <<checks, now, running, spec, results, crashes, noticeVars>>

\* The operator restarts: memory is lost, the cluster's objects stay.
Crash ==
  /\ crashes < MaxCrashes
  /\ crashes' = crashes + 1
  /\ checks' = [p \in Policies |-> [c \in CheckIDs |-> Absent]]
  /\ running' = FALSE
  /\ spec' = NoSpec
  /\ cancelFullScan' = "none"
  /\ cancelRescan' = "none"
  /\ scan' = [s \in Scans |-> Idle]
  /\ blurred' = [c \in CheckIDs |-> TRUE]
  /\ UNCHANGED <<now, results, lastResultName, board, net>>

Second ==
  /\ Tick
  /\ UNCHANGED <<running, spec, handleVars, scan, apiVars, crashes, noticeVars>>

\* The steps a goroutine takes on its own, without an answer from outside.
LocalStep(s) == Register(s) \/ SelectFailed(s) \/ Record(s) \/ ReadState(s)

\* The steps that end with an answer of the LLM, a channel or the API server.
RemoteStep(s) ==
  RunChecks(s) \/ Dispatch(s) \/ CreateResult(s) \/ FetchPolicy(s) \/ UpdateStatus(s)

Next ==
  \/ Start
  \/ Stop
  \/ FireFullScan
  \/ FireRescan
  \/ \E s \in FullSlots : TriggerFullScan(s)
  \/ \E s \in Scans : LocalStep(s) \/ RemoteStep(s)
  \/ Crash
  \/ Second

Spec == Init /\ [][Next]_vars

\* Cron keeps ticking and the runtime keeps scheduling goroutines.  Nothing is
\* assumed of remote calls: the HTTP clients have no timeout.
Fairness ==
  /\ WF_vars(FireRescan)
  /\ \A s \in Scans : WF_vars(LocalStep(s))

FairSpec == Spec /\ Fairness
-----------------------------------------------------------------------------
\* The transitions to a state that are recorded and not yet dispatched.
InFlight(c, to) == Cardinality({s \in Holding(c) : scan[s].transition.To = to})

\* However scans overlap, are cancelled or outlive their scheduler, each FIRING
\* and each RESOLVED transition of the store is dispatched once: what has been
\* dispatched and what is on its way add up to the state of the check.
AlertsConserved ==
  crashes = 0 =>
    \A c \in CheckIDs :
      net[c] + InFlight(c, "FIRING") - InFlight(c, "RESOLVED") =
      IF checks[Policy][c].State \in FailingStates THEN 1 ELSE 0

\* When no announcement about a check is on its way, every channel shows the
\* state of the store, unless the last announcement was lost (Dispatch does not
\* retry) or two scans held transitions of the check at the same time
\* (processResults dispatches outside the store's lock).
BoardShowsState ==
  \A c \in CheckIDs :
    Holding(c) = {} /\ ~blurred[c] =>
      \A ch \in Channels :
        board[ch][c] = IF checks[Policy][c].State \in {"ABSENT", "UNKNOWN"}
                       THEN "none" ELSE checks[Policy][c].State

\* Stop cancels every scan it can: one that still runs with a live context after
\* Stop is a Run Now scan, one a later tick of its loop has overtaken, or one
\* that cron had started and that had not yet registered.
StopReachesTracked ==
  \A s \in Scans : scan[s].orphan /\ scan[s].tracked => scan[s].cancelled

\* The FailedSince a result reports comes from a second, separate read of the
\* store; whatever other scans record in between, it is never older than the
\* incident the scan's own failure belongs to, nor in the future.
FailedSinceNotOlder ==
  \A s \in Scans :
    scan[s].pc = "notify" /\ Head(scan[s].verdicts) = "FAIL" =>
      scan[s].failedSince \in scan[s].since..now

\* A failing check of the running policy, which has a rescan loop.
Waiting(c) ==
  /\ running /\ spec.rescan
  /\ checks[Policy][c].State \in FailingStates
  /\ \E i \in DOMAIN spec.checks : spec.checks[i] = c

\* A rescan of the running scheduler is about to verify c.
BeingRescanned(c) ==
  \E s \in RescanSlots :
    /\ scan[s].pc = "verify"
    /\ \E i \in DOMAIN scan[s].ids : scan[s].ids[i] = c

\* A failing check, escalated or not, is rescanned again and again as long as it
\* fails and its scheduler runs, also while a full scan hangs (the clients have no timeout),
\* provided that failedRescan is configured and that rescans come to an end (their
\* slots are finite).
FailingIsRescanned ==
  (\A s \in RescanSlots : []<>(scan[s].pc = "idle")) =>
    \A c \in CheckIDs : []<>(~Waiting(c) \/ BeingRescanned(c))

\* README.md: "Duplicate alerts are suppressed."  A check is announced as FIRING
\* again only after it was announced as RESOLVED.
DuplicateAlertsSuppressed == \A c \in CheckIDs : net[c] <= 1
=============================================================================
