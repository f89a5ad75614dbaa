-------------------------- MODULE ControllerProofs --------------------------
(***************************************************************************)
(* Proofs about the controller, for every set of specifications, every lag *)
(* of the informer and any number of moves of users, secrets, scans and    *)
(* failures.                                                               *)
(***************************************************************************)
EXTENDS Controller, TLAPS

\* The newest version the informer has, or will deliver, is the object.
NewestIsObject == IF watch = <<>> THEN cache = obj ELSE watch[Len(watch)] = obj

\* A version of which a reconcile may build a scheduler.
Guarded(policy) == policy.exists /\ policy.finalizer /\ ~policy.deleting

\* As long as such a version is in the cache, or on its way there, the object has
\* the finalizer.
VersionsAreGuarded ==
  (Guarded(cache) \/ \E i \in DOMAIN watch : Guarded(watch[i])) => obj.finalizer

\* A policy without the finalizer has no scheduler, and one that is gone has no
\* finalizer.
SchedulerIsGuarded ==
  /\ obj.finalizer => obj.exists
  /\ sched /= NoSpec => obj.finalizer

\* What a reconcile that is not stale holds is the object, which nobody can
\* change unnoticed; one that removes the finalizer has stopped the scheduler.
WorkFits ==
  work.pc /= "idle" =>
    /\ work.policy.exists
    /\ ~work.stale => watch = <<>> /\ cache = obj /\ work.policy = obj
    /\ work.pc = "removeFinalizer" => work.policy.deleting /\ sched = NoSpec

\* The inductive invariant.
ControllerInv ==
  /\ TypeOK
  /\ NewestIsObject
  /\ VersionsAreGuarded
  /\ SchedulerIsGuarded
  /\ WorkFits
-----------------------------------------------------------------------------
\* An absent policy, an idle worker.
LEMMA GoneIsPolicy == Gone \in Policies /\ Resting \in Reconciles
<1>1. Gone \in Policies
  BY DEF Gone, Policies, Reasons
<1> QED BY <1>1 DEF Resting, Reconciles

\* The initial state satisfies the invariant.
LEMMA InitControllerInv == Init => ControllerInv
<1> SUFFICES ASSUME Init PROVE ControllerInv
  OBVIOUS
<1>1. watch \in Seq(Policies) /\ Len(watch) <= MaxLag
  BY ControllerConstants DEF Init
<1>2. obj \in Policies /\ cache \in Policies /\ work \in Reconciles
  BY GoneIsPolicy DEF Init
<1>3. moves \in 0..MaxMoves
  BY ControllerConstants DEF Init
<1>4. TypeOK
  BY <1>1, <1>2, <1>3 DEF Init, TypeOK
<1> QED BY <1>4 DEF Init, ControllerInv, NewestIsObject, VersionsAreGuarded, Guarded,
                     SchedulerIsGuarded, WorkFits, Gone, Resting

\* A stored version: the new one is the newest, and the others stay guarded if the
\* object keeps its finalizer or none of them needs it.
LEMMA Stored ==
  ASSUME TypeOK, VersionsAreGuarded, NEW new \in Policies, Store(new), cache' = cache,
         Guarded(new) => new.finalizer,
         obj.finalizer => new.finalizer \/ (watch = <<>> /\ ~ Guarded(cache))
  PROVE  /\ obj' \in Policies
         /\ watch' \in Seq(Policies) /\ Len(watch') <= MaxLag
         /\ NewestIsObject' /\ VersionsAreGuarded'
         /\ watch' /= <<>>
<1>1. /\ watch' = Append(watch, new) /\ obj' = new
      /\ watch \in Seq(Policies) /\ Len(watch) < MaxLag /\ MaxLag \in Nat
  BY ControllerConstants DEF Store, TypeOK
<1>2. watch' \in Seq(Policies) /\ Len(watch') = Len(watch) + 1 /\ Len(watch) \in Nat
  BY <1>1
<1>3. /\ watch'[Len(watch')] = new
      /\ \A i \in DOMAIN watch' : watch'[i] = new \/ (i \in DOMAIN watch /\ watch'[i] = watch[i])
  BY <1>1, <1>2
<1>4. watch' /= <<>>
  BY <1>2
<1>5. NewestIsObject'
  BY <1>1, <1>3, <1>4 DEF NewestIsObject
<1>6. VersionsAreGuarded'
  <2> SUFFICES ASSUME Guarded(cache') \/ \E i \in DOMAIN watch' : Guarded(watch'[i])
               PROVE  obj'.finalizer
    BY DEF VersionsAreGuarded
  <2>1. Guarded(new) \/ Guarded(cache) \/ \E i \in DOMAIN watch : Guarded(watch[i])
    BY <1>3
  <2>2. watch = <<>> => DOMAIN watch = {}
    OBVIOUS
  <2> QED BY <1>1, <2>1, <2>2 DEF VersionsAreGuarded
<1> QED BY <1>1, <1>2, <1>4, <1>5, <1>6
-----------------------------------------------------------------------------
\* What a write by anyone but the reconcile in progress keeps: the reconcile is
\* stale from now on.
LEMMA OtherWriteKeeps ==
  ASSUME ControllerInv, NEW new \in Policies, OtherWrite(new),
         UNCHANGED <<cache, queued, sched, secret, started>>,
         Guarded(new) => new.finalizer, new.finalizer => new.exists,
         obj.finalizer => new.finalizer
  PROVE  ControllerInv'
<1> USE DEF ControllerInv
<1>1. /\ obj' = new /\ obj' \in Policies
      /\ watch' \in Seq(Policies) /\ Len(watch') <= MaxLag
      /\ NewestIsObject' /\ VersionsAreGuarded'
  BY Stored DEF OtherWrite, Store
<1>2. /\ work' \in Reconciles
      /\ work'.pc = work.pc /\ work'.policy = work.policy
      /\ work'.pc /= "idle" => work'.stale
  BY DEF OtherWrite, TypeOK, Reconciles
<1>3. moves' \in 0..MaxMoves
  BY ControllerConstants DEF OtherWrite, Move, TypeOK
<1>4. TypeOK'
  BY <1>1, <1>2, <1>3 DEF TypeOK
<1>5. SchedulerIsGuarded'
  BY <1>1 DEF SchedulerIsGuarded
<1>6. WorkFits'
  BY <1>2 DEF WorkFits
<1> QED BY <1>1, <1>4, <1>5, <1>6

\* The users' writes and the scans' keep the finalizer.
LEMMA EnvironmentKeeps ==
  ASSUME ControllerInv, CreatePolicy \/ UpdatePolicy \/ RunNow \/ DeletePolicy \/ ScanReports
  PROVE  ControllerInv'
<1> USE DEF ControllerInv
<1>0. obj \in Policies /\ obj.finalizer \in BOOLEAN /\ obj.exists \in BOOLEAN /\ (obj.finalizer => obj.exists)
  BY DEF TypeOK, Policies, SchedulerIsGuarded
<1>1. CASE CreatePolicy
  <2>1. PICK spec \in Specs : OtherWrite([Gone EXCEPT !.exists = TRUE, !.spec = spec])
    BY <1>1 DEF CreatePolicy
  <2>2. [Gone EXCEPT !.exists = TRUE, !.spec = spec] \in Policies
    BY DEF Gone, Policies, Reasons
  <2>3. ~ obj.finalizer
    BY <1>0, <1>1 DEF CreatePolicy
  <2> QED BY <1>1, <2>1, <2>2, <2>3, OtherWriteKeeps DEF CreatePolicy, Gone, Guarded
<1>2. CASE UpdatePolicy
  <2>1. PICK spec \in Specs : OtherWrite([obj EXCEPT !.spec = spec])
    BY <1>2 DEF UpdatePolicy
  <2>2. [obj EXCEPT !.spec = spec] \in Policies
    BY <1>0 DEF Policies
  <2>3. /\ [obj EXCEPT !.spec = spec].finalizer = obj.finalizer
        /\ [obj EXCEPT !.spec = spec].exists = obj.exists
    BY <1>0 DEF Policies
  <2> QED BY <1>0, <1>2, <2>1, <2>2, <2>3, OtherWriteKeeps DEF UpdatePolicy, Guarded
<1>3. CASE RunNow
  <2> DEFINE new == [obj EXCEPT !.runNow = TRUE]
  <2>1. new \in Policies /\ new.finalizer = obj.finalizer /\ new.exists = obj.exists
    BY <1>0 DEF Policies
  <2>2. OtherWrite(new)
    BY <1>3 DEF RunNow
  <2> HIDE DEF new
  <2> QED BY <1>0, <1>3, <2>1, <2>2, OtherWriteKeeps DEF RunNow, Guarded
<1>4. CASE DeletePolicy
  <2>1. CASE obj.finalizer
    <3> DEFINE new == [obj EXCEPT !.deleting = TRUE]
    <3>1. new \in Policies /\ new.finalizer = obj.finalizer /\ new.exists = obj.exists
      BY <1>0 DEF Policies
    <3>2. OtherWrite(new)
      BY <1>4, <2>1 DEF DeletePolicy
    <3> HIDE DEF new
    <3> QED BY <1>0, <1>4, <3>1, <3>2, OtherWriteKeeps DEF DeletePolicy, Guarded
  <2>2. CASE ~ obj.finalizer
    <3>1. OtherWrite(Gone) /\ Gone \in Policies
      BY <1>4, <2>2, GoneIsPolicy DEF DeletePolicy
    <3> QED BY <1>4, <2>2, <3>1, OtherWriteKeeps DEF DeletePolicy, Guarded, Gone
  <2> QED BY <2>1, <2>2
<1>5. CASE ScanReports
  <2>1. PICK fails \in BOOLEAN :
          OtherWrite([obj EXCEPT !.fails = fails,
                                 !.reason = IF fails THEN "ChecksFailed" ELSE "ScanCompleted"])
    BY <1>5 DEF ScanReports
  <2> DEFINE new == [obj EXCEPT !.fails = fails,
                                !.reason = IF fails THEN "ChecksFailed" ELSE "ScanCompleted"]
  <2>2. new \in Policies /\ new.finalizer = obj.finalizer /\ new.exists = obj.exists
    BY <1>0 DEF Policies, Reasons
  <2>3. OtherWrite(new)
    BY <2>1
  <2> HIDE DEF new
  <2> QED BY <1>0, <1>5, <2>2, <2>3, OtherWriteKeeps DEF ScanReports, Guarded
<1> QED BY <1>1, <1>2, <1>3, <1>4, <1>5

\* A secret, a restart and the informer.
LEMMA OthersKeep ==
  ASSUME ControllerInv, SecretChanges \/ Restart \/ Deliver
  PROVE  ControllerInv'
<1> USE DEF ControllerInv
<1>1. CASE SecretChanges
  <2>1. secret' \in BOOLEAN /\ moves' \in 0..MaxMoves
    BY <1>1, ControllerConstants DEF SecretChanges, Move, TypeOK
  <2>2. TypeOK'
    BY <1>1, <2>1 DEF SecretChanges, TypeOK
  <2> QED BY <1>1, <2>2 DEF SecretChanges, NewestIsObject, VersionsAreGuarded,
                             SchedulerIsGuarded, WorkFits
<1>2. CASE Restart
  <2>1. watch' \in Seq(Policies) /\ Len(watch') <= MaxLag /\ DOMAIN watch' = {}
    BY <1>2, ControllerConstants DEF Restart
  <2>2. moves' \in 0..MaxMoves /\ queued' \in BOOLEAN
    BY <1>2, ControllerConstants DEF Restart, Move, TypeOK, Policies
  <2>3. TypeOK'
    BY <1>2, <2>1, <2>2, GoneIsPolicy DEF Restart, TypeOK
  <2>4. VersionsAreGuarded'
    BY <1>2, <2>1 DEF Restart, VersionsAreGuarded, Guarded
  <2> QED BY <1>2, <2>3, <2>4 DEF Restart, NewestIsObject, SchedulerIsGuarded, WorkFits, Resting
<1>3. CASE Deliver
  <2>1. /\ watch \in Seq(Policies) /\ watch /= <<>> /\ Len(watch) \in Nat /\ Len(watch) > 0
        /\ cache' = watch[1] /\ watch' = Tail(watch)
    BY <1>3 DEF Deliver, TypeOK
  <2>2. /\ watch' \in Seq(Policies) /\ Len(watch') = Len(watch) - 1
        /\ \A i \in DOMAIN watch' : watch'[i] = watch[i + 1] /\ i + 1 \in DOMAIN watch
    BY <2>1
  <2>3. cache' \in Policies /\ 1 \in DOMAIN watch
    BY <2>1
  <2>4. TypeOK'
    BY <1>3, <2>2, <2>3, <2>1, ControllerConstants DEF Deliver, TypeOK
  <2>5. NewestIsObject'
    <3>1. CASE Len(watch) = 1
      BY <1>3, <2>1, <2>2, <3>1 DEF Deliver, NewestIsObject
    <3>2. CASE Len(watch) > 1
      <4>1. Len(watch') \in DOMAIN watch' /\ Len(watch') + 1 = Len(watch)
        BY <2>1, <2>2, <3>2
      <4>2. watch'[Len(watch')] = watch[Len(watch)]
        BY <2>2, <4>1
      <4>3. watch' /= <<>>
        BY <4>1
      <4> QED BY <1>3, <2>1, <4>2, <4>3 DEF Deliver, NewestIsObject
    <3>3. \A n \in Nat : n > 0 => n = 1 \/ n > 1
      OBVIOUS
    <3>4. Len(watch) \in Nat /\ Len(watch) > 0
      BY <2>1
    <3> QED BY <3>1, <3>2, <3>3, <3>4, Zenon
  <2>6. VersionsAreGuarded'
    BY <1>3, <2>1, <2>2, <2>3 DEF Deliver, VersionsAreGuarded
  <2>7. WorkFits'
    BY <1>3, <2>1 DEF Deliver, WorkFits
  <2> QED BY <1>3, <2>4, <2>5, <2>6, <2>7 DEF Deliver, SchedulerIsGuarded
<1> QED BY <1>1, <1>2, <1>3

\* A reconcile begins, with the copy the cache has, and does what it does to the
\* scheduler: it may build one only of a guarded copy.
LEMMA BeginKeeps ==
  ASSUME ControllerInv, NEW pc, Begin(pc),
         pc \in {"removeFinalizer", "addFinalizer", "clearRunNow", "writeStatus"} \cup Failing,
         cache.exists,
         pc = "removeFinalizer" => cache.deleting /\ sched' = NoSpec,
         sched' \in {NoSpec, sched} \/ (sched' \in Valid /\ Guarded(cache)),
         started' \in BOOLEAN
  PROVE  ControllerInv'
<1> USE DEF ControllerInv
<1>1. work' = [pc |-> pc, policy |-> cache, stale |-> watch /= <<>>,
               triggered |-> pc = "clearRunNow" /\ sched /= NoSpec]
  BY DEF Begin
<1>2. work' \in Reconciles
  BY <1>1 DEF Reconciles, TypeOK
<1>3. TypeOK'
  BY <1>2 DEF Begin, TypeOK
<1>4. SchedulerIsGuarded'
  BY DEF Begin, SchedulerIsGuarded, VersionsAreGuarded
<1>5. work'.pc = pc /\ work'.policy = cache /\ obj' = obj /\ watch' = watch /\ cache' = cache
  BY <1>1 DEF Begin
<1>6. watch /= <<>> => work'.stale
  BY <1>1
<1>7. WorkFits'
  <2>1. CASE watch = <<>>
    BY <1>5, <2>1 DEF WorkFits, NewestIsObject
  <2>2. CASE watch /= <<>>
    BY <1>5, <1>6, <2>2 DEF WorkFits
  <2> QED BY <2>1, <2>2
<1> QED BY <1>3, <1>4, <1>7 DEF Begin, NewestIsObject, VersionsAreGuarded

\* A reconcile that returns at once.
LEMMA ReturnKeeps ==
  ASSUME ControllerInv, Return, sched' \in {NoSpec, sched}, started' = started
  PROVE  ControllerInv'
<1> USE DEF ControllerInv
<1>1. TypeOK'
  BY DEF Return, TypeOK
<1> QED BY <1>1 DEF Return, NewestIsObject, VersionsAreGuarded, SchedulerIsGuarded, WorkFits

\* The branches of Reconcile.
LEMMA ReconcileKeeps == ControllerInv /\ Reconcile => ControllerInv'
<1> SUFFICES ASSUME ControllerInv, Reconcile PROVE ControllerInv'
  OBVIOUS
<1>0. sched \in Valid \cup {NoSpec} /\ started \in BOOLEAN
  BY DEF ControllerInv, TypeOK
<1>1. CASE ReconcileNotFound
  BY <1>1, ReturnKeeps DEF ReconcileNotFound, stopScheduler
<1>2. CASE ReconcileDeletion
  <2>1. CASE cache.finalizer /\ Begin("removeFinalizer") /\ stopScheduler
    BY <1>0, <1>2, <2>1, BeginKeeps DEF ReconcileDeletion, stopScheduler
  <2>2. CASE ~cache.finalizer /\ Return /\ UNCHANGED <<sched, started>>
    BY <2>2, ReturnKeeps
  <2> QED BY <1>2, <2>1, <2>2 DEF ReconcileDeletion
<1>3. CASE ReconcileAddFinalizer
  BY <1>0, <1>3, BeginKeeps DEF ReconcileAddFinalizer
<1>4. CASE ReconcileRunNow
  BY <1>0, <1>4, BeginKeeps DEF ReconcileRunNow
<1>5. CASE ReconcileBuild
  BY <1>0, <1>5, BeginKeeps DEF ReconcileBuild, Plain, Guarded
<1>6. CASE ReconcileBuildFails
  <2>1. CASE Begin("writeSecretNotFound")
    BY <1>0, <1>6, <2>1, BeginKeeps DEF ReconcileBuildFails, Plain, stopScheduler, Failing
  <2>2. CASE Begin("writeSchedulerError")
    BY <1>0, <1>6, <2>2, BeginKeeps DEF ReconcileBuildFails, Plain, stopScheduler, Failing
  <2> QED BY <1>6, <2>1, <2>2 DEF ReconcileBuildFails
<1> QED BY <1>1, <1>2, <1>3, <1>4, <1>5, <1>6 DEF Reconcile

\* What the write of a reconcile that is not stale does to the object.
LEMMA WrittenFields ==
  ASSUME ControllerInv, work.pc /= "idle", ~work.stale
  PROVE  /\ work.policy = obj /\ obj \in Policies /\ obj.exists
         /\ watch = <<>> /\ cache = obj
         /\ Written \in Policies
         /\ work.pc = "removeFinalizer" =>
              Written = Gone /\ obj.deleting /\ sched = NoSpec
         /\ work.pc /= "removeFinalizer" =>
              /\ Written.exists = obj.exists
              /\ Written.spec = obj.spec
              /\ Written.deleting = obj.deleting
              /\ obj.finalizer => Written.finalizer
              /\ work.pc /= "clearRunNow" => Written.runNow = obj.runNow
<1> USE DEF ControllerInv
<1>1. /\ work.policy = obj /\ obj \in Policies /\ obj.exists /\ watch = <<>> /\ cache = obj
      /\ work.pc = "removeFinalizer" => obj.deleting /\ sched = NoSpec
  BY DEF WorkFits, TypeOK
<1>2. CASE work.pc = "removeFinalizer"
  BY <1>1, <1>2, GoneIsPolicy DEF Written
<1>3. CASE work.pc = "addFinalizer"
  <2>1. Written = [obj EXCEPT !.finalizer = TRUE]
    BY <1>1, <1>3 DEF Written
  <2> QED BY <1>1, <1>3, <2>1 DEF Policies
<1>4. CASE work.pc = "clearRunNow"
  <2>1. Written = [obj EXCEPT !.runNow = FALSE]
    BY <1>1, <1>4 DEF Written
  <2> QED BY <1>1, <1>4, <2>1 DEF Policies
<1>5. CASE work.pc \in {"writeStatus"} \cup Failing
  <2>1. PICK reason \in Reasons : Written = [obj EXCEPT !.fails = obj.fails, !.reason = reason]
    BY <1>1, <1>5 DEF Written, Failing, Reasons
  <2> QED BY <1>1, <1>5, <2>1 DEF Policies, Failing
<1>6. work.pc \in {"removeFinalizer", "addFinalizer", "clearRunNow", "writeStatus"} \cup Failing
  BY DEF TypeOK, Reconciles
<1> QED BY <1>2, <1>3, <1>4, <1>5, <1>6

\* The end of a reconcile.
LEMMA WriteKeeps ==
  ASSUME ControllerInv, WriteSucceeds \/ WriteFails
  PROVE  ControllerInv'
<1> USE DEF ControllerInv
<1>1. CASE WriteSucceeds
  <2>0. work.pc /= "idle" /\ ~work.stale
    BY <1>1 DEF WriteSucceeds
  <2>1. /\ work' = Resting /\ work' \in Reconciles /\ queued' \in BOOLEAN
        /\ UNCHANGED <<cache, sched, secret, started, moves>>
    BY <1>1, GoneIsPolicy DEF WriteSucceeds, TypeOK
  <2>2. WorkFits'
    BY <2>1 DEF WorkFits, Resting
  <2>3. CASE UNCHANGED <<obj, watch>>
    <3>1. TypeOK'
      BY <2>1, <2>3 DEF TypeOK
    <3> QED BY <2>1, <2>2, <2>3, <3>1 DEF NewestIsObject, VersionsAreGuarded, SchedulerIsGuarded
  <2>4. CASE Store(Written)
    <3>1. /\ Written \in Policies
          /\ Guarded(Written) => Written.finalizer
          /\ obj.finalizer => Written.finalizer \/ (watch = <<>> /\ ~Guarded(cache))
      BY <2>0, WrittenFields DEF Guarded
    <3>2. /\ obj' \in Policies
          /\ watch' \in Seq(Policies) /\ Len(watch') <= MaxLag
          /\ NewestIsObject' /\ VersionsAreGuarded'
      BY <2>1, <2>4, <3>1, Stored
    <3>3. TypeOK'
      BY <2>1, <3>2 DEF TypeOK
    <3>4. obj' = Written
      BY <2>4 DEF Store
    <3>5. SchedulerIsGuarded'
      <4>1. CASE work.pc = "removeFinalizer"
        BY <2>0, <2>1, <3>4, <4>1, WrittenFields DEF SchedulerIsGuarded, Gone
      <4>2. CASE work.pc /= "removeFinalizer"
        BY <2>0, <2>1, <3>4, <4>2, WrittenFields DEF SchedulerIsGuarded
      <4> QED BY <4>1, <4>2
    <3> QED BY <2>2, <3>2, <3>3, <3>5
  <2> QED BY <1>1, <2>3, <2>4 DEF WriteSucceeds
<1>2. CASE WriteFails
  <2>1. moves' \in 0..MaxMoves
    BY <1>2, ControllerConstants DEF WriteFails, Move, TypeOK
  <2>2. TypeOK'
    BY <1>2, <2>1, GoneIsPolicy DEF WriteFails, TypeOK
  <2> QED BY <1>2, <2>2 DEF WriteFails, NewestIsObject, VersionsAreGuarded, SchedulerIsGuarded,
                             WorkFits, Resting
<1> QED BY <1>1, <1>2
-----------------------------------------------------------------------------
\* The invariant holds of every reachable state of the controller.
THEOREM ControllerInvariant == Spec => []ControllerInv
<1>1. ASSUME ControllerInv, [Next]_vars PROVE ControllerInv'
  <2>1. CASE CreatePolicy \/ UpdatePolicy \/ RunNow \/ DeletePolicy \/ ScanReports
    BY <1>1, <2>1, EnvironmentKeeps
  <2>2. CASE SecretChanges \/ Restart \/ Deliver
    BY <1>1, <2>2, OthersKeep
  <2>3. CASE Reconcile
    BY <1>1, <2>3, ReconcileKeeps
  <2>4. CASE WriteSucceeds \/ WriteFails
    BY <1>1, <2>4, WriteKeeps
  <2>5. CASE UNCHANGED vars
    BY <1>1, <2>5 DEF vars, ControllerInv, TypeOK, NewestIsObject, VersionsAreGuarded,
                      SchedulerIsGuarded, WorkFits
  <2> QED BY <1>1, <2>1, <2>2, <2>3, <2>4, <2>5 DEF Next
<1> QED BY <1>1, InitControllerInv, PTL DEF Spec

\* The controller's state keeps its types; in particular, the running scheduler is
\* of a specification that passed reconcileScheduler's checks.
THEOREM ControllerTypeCorrect == Spec => []TypeOK
<1>1. ControllerInv => TypeOK
  BY DEF ControllerInv
<1> QED BY <1>1, ControllerInvariant, PTL

\* A policy that is gone has no scheduler, whatever stale versions of it the
\* informer still holds and however reconciles, users and restarts interleave.
THEOREM GoneHasNoScheduler == Spec => []GoneIsStopped
<1>1. ControllerInv => GoneIsStopped
  BY DEF ControllerInv, SchedulerIsGuarded, GoneIsStopped
<1> QED BY <1>1, ControllerInvariant, PTL

\* The write that ends a reconcile keeps what users have written, although it sends
\* back a whole object read earlier.
THEOREM UserFieldsAreKept == Spec => ReconcilerKeepsUserFields
<1> DEFINE Keeps ==
      work.pc /= "idle" /\ work'.pc = "idle" /\ obj' /= obj =>
        /\ obj.exists
        /\ obj'.exists => /\ obj'.spec = obj.spec
                          /\ obj'.deleting = obj.deleting
                          /\ obj.runNow /\ ~obj'.runNow => work.pc = "clearRunNow"
        /\ ~obj'.exists => obj.deleting
<1>1. ASSUME ControllerInv, [Next]_vars PROVE [Keeps]_vars
  <2> SUFFICES ASSUME Next, work.pc /= "idle", work'.pc = "idle", obj' /= obj
               PROVE  Keeps
    BY <1>1
  <2>1. CASE WriteSucceeds
    <3>1. ~work.stale /\ obj' = Written
      BY <2>1 DEF WriteSucceeds, Store
    <3>2. CASE work.pc = "removeFinalizer"
      BY <1>1, <3>1, <3>2, WrittenFields DEF Gone
    <3>3. CASE work.pc /= "removeFinalizer"
      BY <1>1, <3>1, <3>3, WrittenFields
    <3> QED BY <3>2, <3>3
  <2>2. CASE CreatePolicy \/ UpdatePolicy \/ RunNow \/ DeletePolicy \/ ScanReports
    <3>1. work'.pc = work.pc
      BY <1>1, <2>2 DEF ControllerInv, TypeOK, Reconciles, CreatePolicy, UpdatePolicy, RunNow,
                        DeletePolicy, ScanReports, OtherWrite
    <3> QED BY <3>1
  <2>3. CASE SecretChanges \/ Restart \/ Deliver \/ WriteFails
    BY <2>3 DEF SecretChanges, Restart, Deliver, WriteFails
  <2>4. CASE Reconcile
    BY <2>4 DEF Reconcile, ReconcileNotFound, ReconcileDeletion, ReconcileAddFinalizer,
                ReconcileRunNow, ReconcileBuild, ReconcileBuildFails, Begin, Return
  <2> QED BY <2>1, <2>2, <2>3, <2>4 DEF Next
<1> QED BY <1>1, ControllerInvariant, PTL DEF Spec, ReconcilerKeepsUserFields
=============================================================================
