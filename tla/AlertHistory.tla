---------------------------- MODULE AlertHistory ----------------------------
(***************************************************************************)
(* The alert store used by callers that record verdicts in any order, with *)
(* history variables that remember what the store itself forgets.  The     *)
(* histories are driven by the calls and the returned transitions alone,   *)
(* never by the store's State or RetryCount, so that an invariant relating *)
(* the two says something about the code.                                  *)
(***************************************************************************)
EXTENDS AlertStore

VARIABLES
  streak,   \* failures since the last pass, counted up to Threshold + 1
  since,    \* when the first failure of the last streak was recorded
  heard,    \* the state named by the last transition returned
  told,     \* transitions returned since the last pass, counted up to 3
  demoted   \* the check was restored while its escalation stood

historyVars == <<streak, since, heard, told, demoted>>
vars == <<checks, now, streak, since, heard, told, demoted>>

PerCheck(value) == [p \in Policies |-> [c \in CheckIDs |-> value]]

Init ==
  /\ StoreInit
  /\ streak = PerCheck(0)
  /\ since = PerCheck(0)
  /\ heard = PerCheck("none")
  /\ told = PerCheck(0)
  /\ demoted = PerCheck(FALSE)

\* The caller is told of a transition, or of nothing.
Hear(p, c, transition) ==
  heard' = IF transition = NoTransition
           THEN heard
           ELSE [heard EXCEPT ![p][c] = transition.To]

Fail(p, c, transition) ==
  /\ RecordFail(p, c, transition)
  /\ Hear(p, c, transition)
  /\ told' = [told EXCEPT ![p][c] =
                IF transition /= NoTransition /\ @ < 3 THEN @ + 1 ELSE @]
  /\ streak' = [streak EXCEPT ![p][c] = IF @ <= Threshold THEN @ + 1 ELSE @]
  /\ since' = [since EXCEPT ![p][c] = IF streak[p][c] = 0 THEN now ELSE @]
  /\ UNCHANGED demoted

Pass(p, c, transition) ==
  /\ RecordPass(p, c, transition)
  /\ Hear(p, c, transition)
  /\ told' = [told EXCEPT ![p][c] = 0]
  /\ streak' = [streak EXCEPT ![p][c] = 0]
  /\ demoted' = [demoted EXCEPT ![p][c] = FALSE]
  /\ UNCHANGED since

Restore(p, c, failedSince) ==
  /\ RestoreFromFailedSince(p, c, failedSince)
  /\ streak' = [streak EXCEPT ![p][c] = IF @ = 0 THEN 1 ELSE @]
  /\ since' = [since EXCEPT ![p][c] = failedSince]
  /\ demoted' = [demoted EXCEPT ![p][c] = @ \/ streak[p][c] > Threshold]
  /\ UNCHANGED <<heard, told>>

Clock == Tick /\ UNCHANGED historyVars

\* What the operator calls: RestoreFromFailedSince has no caller in the build.
Next ==
  \/ \E p \in Policies, c \in CheckIDs, tr \in Transitions :
       Fail(p, c, tr) \/ Pass(p, c, tr)
  \/ Clock

Spec == Init /\ [][Next]_vars

\* The whole exported interface.
NextWithRestore ==
  \/ Next
  \/ \E p \in Policies, c \in CheckIDs, t \in Time :
       t <= now /\ Restore(p, c, t)

SpecWithRestore == Init /\ [][NextWithRestore]_vars
-----------------------------------------------------------------------------
\* Types of the store and of its histories.
TypeOK ==
  /\ checks \in [Policies -> [CheckIDs -> CheckState]]
  /\ now \in Time
  /\ streak \in [Policies -> [CheckIDs -> 0..(Threshold + 1)]]
  /\ since \in [Policies -> [CheckIDs -> Time]]
  /\ heard \in [Policies -> [CheckIDs -> AlertState \cup {"none"}]]
  /\ told \in [Policies -> [CheckIDs -> 0..3]]
  /\ demoted \in [Policies -> [CheckIDs -> BOOLEAN]]

\* The state of one check says how long its current run of failures is.
CountsStreak(p, c) ==
  LET cs == checks[p][c] IN
  /\ cs.State \notin FailingStates => streak[p][c] = 0 /\ cs.RetryCount = 0
  /\ cs.State = "FIRING" => /\ streak[p][c] \in 1..Threshold
                            /\ cs.RetryCount = streak[p][c] - 1
  /\ cs.State = "ESCALATED" => streak[p][c] = Threshold + 1

\* RecordFail escalates on the Threshold-th failure after the one that opened
\* the incident, that is, on the (Threshold + 1)-th failure in a row (as
\* store_test.go:98 has it), never earlier or later, and an escalation stands
\* until a pass, whatever happens to the int32 RetryCount meanwhile (it may
\* wrap).  The documents promise one failure less: "escalation defines how many
\* consecutive failures trigger escalation." (checklistpolicy_types.go:152) and
\* "ESCALATED (after N consecutive failures)" (README.md:97); after N failures the
\* code still says FIRING, since the first one leaves RetryCount at zero.
EscalatesOnThreshold ==
  \A p \in Policies, c \in CheckIDs : CountsStreak(p, c)

\* FailedSince is the time of the first failure after the last pass: neither a
\* repeated failure nor a resolution moves it.
FailedSinceIsStreakStart ==
  \A p \in Policies, c \in CheckIDs :
    /\ checks[p][c].State \notin {"ABSENT", "UNKNOWN"} =>
         checks[p][c].FailedSince = since[p][c]
    /\ since[p][c] <= now

\* A caller that forwards every returned transition has told its users the
\* state the store is in, and told it once: one announcement for an incident
\* that is firing, two for one that is escalated, however often it failed.
ToldOncePerState ==
  \A p \in Policies, c \in CheckIDs :
    LET state == checks[p][c].State IN
    /\ heard[p][c] = IF state \in {"ABSENT", "UNKNOWN"} THEN "none" ELSE state
    /\ told[p][c] = IF state = "FIRING" THEN 1
                    ELSE IF state = "ESCALATED" THEN 2 ELSE 0

\* With RestoreFromFailedSince called at any time, the count is still exact for
\* every check but one restored while escalated (it is put back to FIRING with
\* its retries kept, and is escalated again by its next failure).
RestoreKeepsCount ==
  \A p \in Policies, c \in CheckIDs :
    ~demoted[p][c] => CountsStreak(p, c)

\* RestoreFromFailedSince does what its comment in ChecklistResult promises
\* (failedSince is "Used for deduplication"): a check restored or failing is not
\* announced as FIRING again before a pass.
NoFiringDuringStreak ==
  [][\A p \in Policies, c \in CheckIDs :
       told'[p][c] > told[p][c] /\ heard'[p][c] = "FIRING" => streak[p][c] = 0]_vars
-----------------------------------------------------------------------------
\* The refinement mapping to the abstract lifecycle.
Lifecycle == INSTANCE AlertLifecycle WITH
  phase <- [p \in Policies |-> [c \in CheckIDs |-> PhaseOf(checks[p][c])]],
  fails <- [p \in Policies |-> [c \in CheckIDs |-> FailsOf(checks[p][c])]],
  heard <- heard

\* The store used without restores implements the abstract lifecycle.
ImplementsLifecycle == Lifecycle!Spec
=============================================================================
