----------------------------- MODULE AlertStore -----------------------------
(***************************************************************************)
(* The in-memory alert store of operator/internal/state/store.go: one      *)
(* CheckState per (policyRef, checkID), all of it behind one mutex, so     *)
(* that every exported method is one action.  A method's return value is   *)
(* the action's last parameter: the caller constrains it, the action says  *)
(* which value the code returns.                                           *)
(*                                                                         *)
(* LastUpdated is left out: the code writes it and never reads it.  The    *)
(* CheckState copied into a Transition is left out too: the notifiers only *)
(* read From and To.                                                       *)
(***************************************************************************)
EXTENDS Integers

CONSTANTS
  Policies,             \* policyRef values: the bare policy names callers pass
  CheckIDs,             \* the checkID values
  EscalationThreshold,  \* NewStore's argument
  MaxInt32,             \* largest RetryCount; 2^31 - 1 in the build
  MaxTime               \* bound on the clock

\* NewStore: a non-positive argument becomes 5.
Threshold == IF EscalationThreshold <= 0 THEN 5 ELSE EscalationThreshold

\* An int32 argument cannot exceed the range of the counter it is compared to.
ASSUME StoreConstants ==
  /\ EscalationThreshold \in Int
  /\ MaxInt32 \in Nat
  /\ Threshold <= MaxInt32
  /\ MaxTime \in Nat

VARIABLES
  checks,  \* checks[p][c]: the CheckState, or Absent while the map has no entry
  now      \* what time.Now() returns

storeVars == <<checks, now>>
-----------------------------------------------------------------------------
AlertState == {"UNKNOWN", "FIRING", "RESOLVED", "ESCALATED"}

FailingStates == {"FIRING", "ESCALATED"}

Time == 0..MaxTime

Int32 == (-(MaxInt32 + 1))..MaxInt32

CheckState ==
  [State : AlertState \cup {"ABSENT"}, FailedSince : Time, RetryCount : Int32]

\* No entry in the map.  The zero FailedSince is never read in this state.
Absent == [State |-> "ABSENT", FailedSince |-> 0, RetryCount |-> 0]

Transition(from, to) == [From |-> from, To |-> to]

\* A nil *Transition.
NoTransition == Transition("nil", "nil")

\* The transitions the store can return.
Transitions ==
  {NoTransition} \cup
  {Transition(from, to) : from \in AlertState, to \in AlertState \ {"UNKNOWN"}}

\* RetryCount++ on an int32 wraps.
Inc32(n) == IF n = MaxInt32 THEN -(MaxInt32 + 1) ELSE n + 1

\* The entry a locked method works on; every method but the two readers
\* creates it when it is missing.
getOrCreate(p, c) ==
  IF checks[p][c].State = "ABSENT"
  THEN [checks[p][c] EXCEPT !.State = "UNKNOWN"]
  ELSE checks[p][c]

Save(p, c, cs) == checks' = [checks EXCEPT ![p][c] = cs]
-----------------------------------------------------------------------------
StoreInit ==
  /\ checks = [p \in Policies |-> [c \in CheckIDs |-> Absent]]
  /\ now = 0

\* Mutant: FailedSince is only set the first time ever.
FirstFailKeepsSince(p, c, transition) ==
  LET cs == getOrCreate(p, c) IN
  /\ cs.State \in {"UNKNOWN", "RESOLVED"}
  /\ Save(p, c, [cs EXCEPT !.State = "FIRING", !.RetryCount = 0,
                           !.FailedSince = IF cs.State = "UNKNOWN" THEN now ELSE @])
  /\ transition = Transition(cs.State, "FIRING")

\* Mutant: only the first incident of a check is announced.
FirstFailSilentAgain(p, c, transition) ==
  LET cs == getOrCreate(p, c) IN
  /\ cs.State \in {"UNKNOWN", "RESOLVED"}
  /\ Save(p, c, [State |-> "FIRING", FailedSince |-> now, RetryCount |-> 0])
  /\ transition = IF cs.State = "UNKNOWN" THEN Transition("UNKNOWN", "FIRING")
                                         ELSE NoTransition

\* RecordFail, case UNKNOWN or RESOLVED: a new incident.
FirstFail(p, c, transition) ==
  LET cs == getOrCreate(p, c) IN
  /\ cs.State \in {"UNKNOWN", "RESOLVED"}
  /\ Save(p, c, [State |-> "FIRING", FailedSince |-> now, RetryCount |-> 0])
  /\ transition = Transition(cs.State, "FIRING")

\* RecordFail, case FIRING once the retries reach the threshold.
Escalate(p, c, transition) ==
  LET cs == getOrCreate(p, c) IN
  /\ cs.State = "FIRING"
  /\ Inc32(cs.RetryCount) >= Threshold
  /\ Save(p, c, [cs EXCEPT !.State = "ESCALATED", !.RetryCount = Inc32(@)])
  /\ transition = Transition("FIRING", "ESCALATED")

\* Mutant: a repeated failure is not counted.
RepeatFailUncounted(p, c, transition) ==
  LET cs == getOrCreate(p, c) IN
  /\ \/ cs.State = "FIRING" /\ Inc32(cs.RetryCount) < Threshold
     \/ cs.State = "ESCALATED"
  /\ Save(p, c, cs)
  /\ transition = NoTransition

\* Mutant: an escalated check is announced again at each failure.
RepeatFailNagging(p, c, transition) ==
  LET cs == getOrCreate(p, c) IN
  /\ \/ cs.State = "FIRING" /\ Inc32(cs.RetryCount) < Threshold
     \/ cs.State = "ESCALATED"
  /\ Save(p, c, [cs EXCEPT !.RetryCount = Inc32(@)])
  /\ transition = IF cs.State = "ESCALATED" THEN Transition("FIRING", "ESCALATED")
                                           ELSE NoTransition

\* RecordFail, the cases that only count: still firing, or already escalated.
RepeatFail(p, c, transition) ==
  LET cs == getOrCreate(p, c) IN
  /\ \/ cs.State = "FIRING" /\ Inc32(cs.RetryCount) < Threshold
     \/ cs.State = "ESCALATED"
  /\ Save(p, c, [cs EXCEPT !.RetryCount = Inc32(@)])
  /\ transition = NoTransition

RecordFail(p, c, transition) ==
  /\ \/ FirstFail(p, c, transition)
     \/ Escalate(p, c, transition)
     \/ RepeatFail(p, c, transition)
  /\ UNCHANGED now

\* Mutant: an escalated check is resolved without a transition.
RecordPassEscalatedSilently(p, c, transition) ==
  LET cs == getOrCreate(p, c) IN
  /\ \/ /\ cs.State \in FailingStates
        /\ Save(p, c, [cs EXCEPT !.State = "RESOLVED", !.RetryCount = 0])
        /\ transition = IF cs.State = "FIRING" THEN Transition("FIRING", "RESOLVED")
                                              ELSE NoTransition
     \/ /\ cs.State \notin FailingStates
        /\ Save(p, c, cs)
        /\ transition = NoTransition
  /\ UNCHANGED now

\* Mutant: the resolution clears FailedSince.
RecordPassClearsSince(p, c, transition) ==
  LET cs == getOrCreate(p, c) IN
  /\ \/ /\ cs.State \in FailingStates
        /\ Save(p, c, [State |-> "RESOLVED", FailedSince |-> 0, RetryCount |-> 0])
        /\ transition = Transition(cs.State, "RESOLVED")
     \/ /\ cs.State \notin FailingStates
        /\ Save(p, c, cs)
        /\ transition = NoTransition
  /\ UNCHANGED now

\* RecordPass: FailedSince is kept, RetryCount is reset.  A pass of an unknown
\* or resolved check still creates the entry.
RecordPass(p, c, transition) ==
  LET cs == getOrCreate(p, c) IN
  /\ \/ /\ cs.State \in FailingStates
        /\ Save(p, c, [cs EXCEPT !.State = "RESOLVED", !.RetryCount = 0])
        /\ transition = Transition(cs.State, "RESOLVED")
     \/ /\ cs.State \notin FailingStates
        /\ Save(p, c, cs)
        /\ transition = NoTransition
  /\ UNCHANGED now

\* RestoreFromFailedSince: no guard, and RetryCount is left as it was.
RestoreFromFailedSince(p, c, failedSince) ==
  /\ Save(p, c, [getOrCreate(p, c) EXCEPT !.State = "FIRING",
                                          !.FailedSince = failedSince])
  /\ UNCHANGED now

\* Mutant: an escalated check no longer counts as failed.
FailedChecksFiringOnly(p) == {c \in CheckIDs : checks[p][c].State = "FIRING"}

\* FailedChecks and GetState, the two readers.
FailedChecks(p) == {c \in CheckIDs : checks[p][c].State \in FailingStates}

GetState(p, c) == checks[p][c]

Tick ==
  /\ now < MaxTime
  /\ now' = now + 1
  /\ UNCHANGED checks
-----------------------------------------------------------------------------
\* How an entry reads in the abstract lifecycle of AlertLifecycle.
PhaseOf(cs) ==
  IF cs.State = "FIRING" THEN "firing"
  ELSE IF cs.State = "ESCALATED" THEN "escalated" ELSE "quiet"

FailsOf(cs) ==
  IF cs.State = "FIRING" THEN cs.RetryCount + 1
  ELSE IF cs.State = "ESCALATED" THEN Threshold + 1 ELSE 0
=============================================================================
