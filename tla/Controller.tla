----------------------------- MODULE Controller -----------------------------
(***************************************************************************)
(* The ChecklistPolicy controller                                          *)
(* (operator/internal/controller/checklistpolicy_controller.go) for one    *)
(* policy: the API object with its optimistic concurrency, the informer    *)
(* cache the reconciler reads, the work queue, the schedulers map, and the *)
(* users, scans and secrets that change things meanwhile                   *)
(* (operator/server/handler/policies.go, run.go).                          *)
(*                                                                         *)
(* Reconcile reads the policy from the cache and ends with at most one     *)
(* write, so it is two steps: Get with everything that is local to the     *)
(* process, and the write.  Resource versions are not numbered: a copy is  *)
(* stale when a write that it does not contain has happened.               *)
(***************************************************************************)
EXTENDS Naturals, Sequences

CONSTANTS
  Specs,      \* policy specs a user may write
  Valid,      \* those with a supported provider and parsable cron expressions
  NoSpec,
  MaxMoves,   \* bound on what users, secrets, scans and failures do
  MaxLag      \* bound on watch events not yet delivered

ASSUME ControllerConstants ==
  /\ Valid \subseteq Specs
  /\ NoSpec \notin Specs
  /\ MaxMoves \in Nat
  /\ MaxLag \in Nat \ {0}

VARIABLES
  obj,      \* the ChecklistPolicy in the API server
  watch,    \* versions of it that the informer has not delivered yet
  cache,    \* the informer's copy
  queued,   \* the work queue holds the policy's key
  work,     \* the reconcile in progress
  sched,    \* the spec the running scheduler was built from, or NoSpec
  secret,   \* every secret the policy refers to can be resolved
  started,  \* a scheduler was started in this process: scans may be running
  moves     \* moves made so far

vars == <<obj, watch, cache, queued, work, sched, secret, started, moves>>
-----------------------------------------------------------------------------
Reasons == {"none", "SecretNotFound", "SchedulerError", "ChecksFailed",
            "ScanCompleted", "SchedulerRunning"}

Gone == [exists |-> FALSE, deleting |-> FALSE, finalizer |-> FALSE,
         runNow |-> FALSE, spec |-> NoSpec, fails |-> FALSE, reason |-> "none"]

Resting == [pc |-> "idle", policy |-> Gone, stale |-> FALSE, triggered |-> FALSE]

\* The API server stores a new version: the informer will hear of it, and the
\* copy a reconcile holds is out of date.
Store(new) ==
  /\ Len(watch) < MaxLag
  /\ obj' = new
  /\ watch' = Append(watch, new)

Move ==
  /\ moves < MaxMoves
  /\ moves' = moves + 1

\* A write by anyone but the reconcile in progress.
OtherWrite(new) ==
  /\ Move
  /\ Store(new)
  /\ work' = [work EXCEPT !.stale = work.pc /= "idle"]

Init ==
  /\ obj = Gone
  /\ watch = <<>>
  /\ cache = Gone
  /\ queued = FALSE
  /\ work = Resting
  /\ sched = NoSpec
  /\ secret = FALSE
  /\ started = FALSE
  /\ moves = 0
-----------------------------------------------------------------------------
\* Users, through the API server's handlers or kubectl.  UpdatePolicy and RunNow
\* read and then write: they succeed when nothing came between, which is one
\* step, and change nothing otherwise.
CreatePolicy ==
  /\ ~obj.exists
  /\ \E spec \in Specs :
       OtherWrite([Gone EXCEPT !.exists = TRUE, !.spec = spec])
  /\ UNCHANGED <<cache, queued, sched, secret, started>>

UpdatePolicy ==
  /\ obj.exists
  /\ \E spec \in Specs \ {obj.spec} : OtherWrite([obj EXCEPT !.spec = spec])
  /\ UNCHANGED <<cache, queued, sched, secret, started>>

RunNow ==
  /\ obj.exists
  /\ OtherWrite([obj EXCEPT !.runNow = TRUE])
  /\ UNCHANGED <<cache, queued, sched, secret, started>>

\* The API server keeps an object that has finalizers until they are removed.
DeletePolicy ==
  /\ obj.exists
  /\ ~obj.deleting
  /\ OtherWrite(IF obj.finalizer THEN [obj EXCEPT !.deleting = TRUE] ELSE Gone)
  /\ UNCHANGED <<cache, queued, sched, secret, started>>

\* A secret appears or disappears.  The controller does not watch secrets.
SecretChanges ==
  /\ Move
  /\ secret' = ~secret
  /\ UNCHANGED <<obj, watch, cache, queued, work, sched, started>>

\* A full scan ends with updatePolicyStatus: it fetches the policy from the same
\* cache, so that it only succeeds when that is up to date.  Scans outlive the
\* scheduler that started them.
ScanReports ==
  /\ started
  /\ obj.exists
  /\ watch = <<>>
  /\ \E fails \in BOOLEAN :
       OtherWrite([obj EXCEPT !.fails = fails,
                              !.reason = IF fails THEN "ChecksFailed" ELSE "ScanCompleted"])
  /\ UNCHANGED <<cache, queued, sched, secret, started>>

\* The operator restarts: its informer lists the object and queues it.
Restart ==
  /\ Move
  /\ watch' = <<>>
  /\ cache' = obj
  /\ queued' = obj.exists
  /\ work' = Resting
  /\ sched' = NoSpec
  /\ started' = FALSE
  /\ UNCHANGED <<obj, secret>>

\* The informer delivers the next version; For() has no predicates, so every
\* version queues the key.
Deliver ==
  /\ watch /= <<>>
  /\ cache' = Head(watch)
  /\ watch' = Tail(watch)
  /\ queued' = TRUE
  /\ UNCHANGED <<obj, work, sched, secret, started, moves>>
-----------------------------------------------------------------------------
\* Reconcile starts: one worker, one key, the copy the cache has now.
Begin(pc) ==
  /\ work.pc = "idle"
  /\ queued
  /\ queued' = FALSE
  /\ work' = [pc |-> pc, policy |-> cache, stale |-> watch /= <<>>,
              triggered |-> pc = "clearRunNow" /\ sched /= NoSpec]
  /\ UNCHANGED <<obj, watch, cache, secret, moves>>

\* Reconcile returns without a write.
Return ==
  /\ work.pc = "idle"
  /\ queued
  /\ queued' = FALSE
  /\ UNCHANGED <<obj, watch, cache, work, secret, moves>>

stopScheduler == sched' = NoSpec /\ UNCHANGED started

ReconcileNotFound ==
  /\ ~cache.exists
  /\ Return
  /\ stopScheduler

\* Mutant: the finalizer is removed with the scheduler still running.
ReconcileDeletionKeepsScheduler ==
  /\ cache.exists /\ cache.deleting
  /\ \/ cache.finalizer /\ Begin("removeFinalizer")
     \/ ~cache.finalizer /\ Return
  /\ UNCHANGED <<sched, started>>

ReconcileDeletion ==
  /\ cache.exists /\ cache.deleting
  /\ \/ /\ cache.finalizer
        /\ Begin("removeFinalizer")
        /\ stopScheduler
     \/ /\ ~cache.finalizer
        /\ Return
        /\ UNCHANGED <<sched, started>>

ReconcileAddFinalizer ==
  /\ cache.exists /\ ~cache.deleting /\ ~cache.finalizer
  /\ Begin("addFinalizer")
  /\ UNCHANGED <<sched, started>>

\* Run Now: TriggerFullScan if there is a scheduler, then drop the annotation.
ReconcileRunNow ==
  /\ cache.exists /\ ~cache.deleting /\ cache.finalizer
  /\ cache.runNow
  /\ Begin("clearRunNow")
  /\ started' = (started \/ sched /= NoSpec)
  /\ UNCHANGED sched

\* Nothing special about the policy: rebuild its scheduler.
Plain(policy) ==
  policy.exists /\ ~policy.deleting /\ policy.finalizer /\ ~policy.runNow

\* reconcileScheduler stops the old scheduler, then builds the new one.
ReconcileBuild ==
  /\ Plain(cache)
  /\ secret
  /\ cache.spec \in Valid
  /\ Begin("writeStatus")
  /\ sched' = cache.spec
  /\ started' = TRUE

\* It returns an error after the old one is stopped.  The LLM secret is resolved
\* first, then the provider is looked at, then the notifiers' secrets and last the
\* cron expressions: if both kinds of things are wrong, either may be reported.
ReconcileBuildFails ==
  /\ Plain(cache)
  /\ \/ ~secret /\ Begin("writeSecretNotFound")
     \/ cache.spec \notin Valid /\ Begin("writeSchedulerError")
  /\ stopScheduler

\* What the write of a reconcile stores: the object for Update, its status for
\* Status().Update.
Written ==
  LET policy == work.policy IN
  CASE work.pc = "removeFinalizer" -> Gone
    [] work.pc = "addFinalizer" -> [policy EXCEPT !.finalizer = TRUE]
    [] work.pc = "clearRunNow" -> [policy EXCEPT !.runNow = FALSE]
    [] work.pc = "writeStatus" ->
         [obj EXCEPT !.fails = policy.fails,
                     !.reason = IF policy.fails THEN "ChecksFailed" ELSE "SchedulerRunning"]
    [] work.pc = "writeSecretNotFound" ->
         [obj EXCEPT !.fails = policy.fails, !.reason = "SecretNotFound"]
    [] work.pc = "writeSchedulerError" ->
         [obj EXCEPT !.fails = policy.fails, !.reason = "SchedulerError"]

Failing == {"writeSecretNotFound", "writeSchedulerError"}

\* Mutant: an Update without a resource version, which never conflicts.
WriteSucceedsBlindly ==
  /\ work.pc /= "idle"
  /\ IF Written = obj THEN UNCHANGED <<obj, watch>> ELSE Store(Written)
  /\ queued' = (queued \/ work.pc \in Failing \cup {"addFinalizer"})
  /\ work' = Resting
  /\ UNCHANGED <<cache, sched, secret, started, moves>>

\* Mutant: the error of reconcileScheduler is not returned.
WriteSucceedsNoRetry ==
  /\ work.pc /= "idle"
  /\ ~work.stale
  /\ IF Written = obj THEN UNCHANGED <<obj, watch>> ELSE Store(Written)
  /\ queued' = (queued \/ work.pc = "addFinalizer")
  /\ work' = Resting
  /\ UNCHANGED <<cache, sched, secret, started, moves>>

\* Mutant: every status write is a new version (a time stamp set each time).
WriteSucceedsAlwaysNew ==
  /\ work.pc /= "idle"
  /\ ~work.stale
  /\ Store(Written)
  /\ queued' = (queued \/ work.pc \in Failing \cup {"addFinalizer"})
  /\ work' = Resting
  /\ UNCHANGED <<cache, sched, secret, started, moves>>

\* The write is accepted.  One that changes nothing makes no new version.  A
\* reconcile that added the finalizer, or could not build the scheduler, asks to
\* run again.
WriteSucceeds ==
  /\ work.pc /= "idle"
  /\ ~work.stale
  /\ IF Written = obj THEN UNCHANGED <<obj, watch>> ELSE Store(Written)
  /\ queued' = (queued \/ work.pc \in Failing \cup {"addFinalizer"})
  /\ work' = Resting
  /\ UNCHANGED <<cache, sched, secret, started, moves>>

\* Mutant: a failed write is logged and forgotten.
WriteFailsQuietly ==
  /\ work.pc /= "idle"
  /\ \/ work.stale /\ UNCHANGED moves
     \/ ~work.stale /\ Move
  /\ work' = Resting
  /\ UNCHANGED <<obj, watch, cache, queued, sched, secret, started>>

\* The write is refused because the copy is stale, or it fails for a moment;
\* either way the reconcile will run again.
WriteFails ==
  /\ work.pc /= "idle"
  /\ \/ work.stale /\ UNCHANGED moves
     \/ ~work.stale /\ Move
  /\ queued' = TRUE
  /\ work' = Resting
  /\ UNCHANGED <<obj, watch, cache, sched, secret, started>>

Reconcile ==
  \/ ReconcileNotFound
  \/ ReconcileDeletion
  \/ ReconcileAddFinalizer
  \/ ReconcileRunNow
  \/ ReconcileBuild
  \/ ReconcileBuildFails

Next ==
  \/ CreatePolicy \/ UpdatePolicy \/ RunNow \/ DeletePolicy
  \/ SecretChanges \/ ScanReports \/ Restart
  \/ Deliver
  \/ Reconcile
  \/ WriteSucceeds
  \/ WriteFails

\* The informer delivers and the worker keeps working (retries are eventually
\* due); users, secrets, scans and failures owe nothing.
Fairness ==
  /\ WF_vars(Deliver)
  /\ WF_vars(Reconcile)
  /\ WF_vars(WriteSucceeds \/ (work.stale /\ WriteFails))

Spec == Init /\ [][Next]_vars /\ Fairness
-----------------------------------------------------------------------------
Policies ==
  [exists : BOOLEAN, deleting : BOOLEAN, finalizer : BOOLEAN, runNow : BOOLEAN,
   spec : Specs \cup {NoSpec}, fails : BOOLEAN, reason : Reasons]

Reconciles ==
  [pc : {"idle", "removeFinalizer", "addFinalizer", "clearRunNow", "writeStatus"} \cup Failing,
   policy : Policies, stale : BOOLEAN, triggered : BOOLEAN]

\* Types; the running scheduler is always of a spec that passed reconcileScheduler's
\* checks, and the informer's lag keeps its bound.
TypeOK ==
  /\ obj \in Policies
  /\ watch \in Seq(Policies) /\ Len(watch) <= MaxLag
  /\ cache \in Policies
  /\ queued \in BOOLEAN
  /\ work \in Reconciles
  /\ sched \in Valid \cup {NoSpec}
  /\ secret \in BOOLEAN
  /\ started \in BOOLEAN
  /\ moves \in 0..MaxMoves

\* A policy that is gone has no scheduler left: the finalizer keeps the object
\* until stopScheduler has run, and no reconcile of a stale copy starts the
\* scheduler again afterwards.
GoneIsStopped == ~obj.exists => sched = NoSpec

\* What users write survives the reconciler: it never changes the spec, never
\* revives or ends an object that is not being deleted, and only takes away the
\* run-now annotation in the branch that handles it, although every Update sends
\* back a whole object that was read earlier.
ReconcilerKeepsUserFields ==
  [][ work.pc /= "idle" /\ work'.pc = "idle" /\ obj' /= obj =>
        /\ obj.exists
        /\ obj'.exists => /\ obj'.spec = obj.spec
                          /\ obj'.deleting = obj.deleting
                          /\ obj.runNow /\ ~obj'.runNow => work.pc = "clearRunNow"
        /\ ~obj'.exists => obj.deleting ]_vars

\* Nothing is left to do for the policy.
Converged ==
  /\ ~obj.deleting
  /\ ~obj.exists => sched = NoSpec
  /\ obj.exists =>
       /\ obj.finalizer
       /\ ~obj.runNow
       /\ \/ sched = obj.spec
          \/ sched = NoSpec /\ (~secret \/ obj.spec \notin Valid)

\* Once users, secrets and scans leave the policy alone, it is deleted or its
\* scheduler runs the spec it has now, if it can.  README.md: "retries
\* automatically until the secret is available".
EventuallyConverged == <>[]Converged

\* The conditions say which of the two it is.
StatusTellsTruth ==
  obj.exists =>
    IF sched /= NoSpec
    THEN obj.reason \in (IF obj.fails THEN {"ChecksFailed"}
                                      ELSE {"SchedulerRunning", "ScanCompleted"})
    ELSE obj.reason \in {"SecretNotFound", "SchedulerError"}

\* Once left alone, the conditions Available and Degraded that the reconciler and the
\* scans write come to say what is so, and stay right.
EventuallyTruthful == <>[]StatusTellsTruth

\* The status that a reconcile writes wakes the controller up again; this comes
\* to an end, except for a policy that cannot have a scheduler.
Quiet ==
  sched /= NoSpec \/ ~obj.exists => ~queued /\ work.pc = "idle" /\ watch = <<>>

\* Once left alone, status writes and the reconciles they cause die out.
EventuallyQuiet == <>[]Quiet

\* run.go: "RunNow triggers an immediate scan".  The annotation is only taken
\* away by a reconcile that has triggered a scan.
RunNowTriggersScan ==
  [][obj.runNow /\ obj'.exists /\ ~obj'.runNow => work.triggered]_vars
=============================================================================
