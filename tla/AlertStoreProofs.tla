-------------------------- MODULE AlertStoreProofs --------------------------
(***************************************************************************)
(* Proofs about the alert store, for every set of policies and checks,     *)
(* every threshold, every width of the retry counter and every clock.      *)
(***************************************************************************)
EXTENDS AlertHistory, TLAPS

\* Writing back the entry that is there changes nothing.
LEMMA TableSame ==
  ASSUME NEW S, NEW f \in [Policies -> [CheckIDs -> S]],
         NEW p \in Policies, NEW c \in CheckIDs, NEW v, v = f[p][c]
  PROVE  [f EXCEPT ![p][c] = v] = f
OBVIOUS

\* NewStore leaves a positive threshold that fits the counter.
LEMMA ThresholdPositive ==
  /\ Threshold \in Nat
  /\ Threshold >= 1
  /\ Threshold <= MaxInt32
  /\ MaxInt32 \in Nat
  /\ MaxTime \in Nat
BY StoreConstants DEF Threshold

\* RetryCount++ stays an int32.
LEMMA Inc32Type == \A n \in Int32 : Inc32(n) \in Int32
BY ThresholdPositive DEF Int32, Inc32

\* The inductive invariant of the store as the operator uses it.
StoreInv ==
  /\ TypeOK
  /\ EscalatesOnThreshold
  /\ FailedSinceIsStreakStart
  /\ ToldOncePerState

\* What the invariant says of one check.
KeyInv(p, c) ==
  LET cs == checks[p][c] IN
  /\ CountsStreak(p, c)
  /\ cs.State \notin {"ABSENT", "UNKNOWN"} => cs.FailedSince = since[p][c]
  /\ since[p][c] <= now
  /\ heard[p][c] = IF cs.State \in {"ABSENT", "UNKNOWN"} THEN "none" ELSE cs.State
  /\ told[p][c] = IF cs.State = "FIRING" THEN 1
                  ELSE IF cs.State = "ESCALATED" THEN 2 ELSE 0

\* The invariant, one check at a time.
LEMMA StoreInvByKey ==
  StoreInv <=> TypeOK /\ \A p \in Policies, c \in CheckIDs : KeyInv(p, c)
BY DEF StoreInv, KeyInv, EscalatesOnThreshold, FailedSinceIsStreakStart, ToldOncePerState

\* A store without entries satisfies the invariant.
LEMMA InitStoreInv == Init => StoreInv
BY ThresholdPositive
   DEF Init, StoreInit, PerCheck, Absent, StoreInv, TypeOK, CheckState, AlertState,
       Int32, Time, EscalatesOnThreshold, CountsStreak, FailedSinceIsStreakStart,
       ToldOncePerState, FailingStates

\* The four ways RecordFail can leave the entry it works on, by the state it found.
FailEffect(p, c, cs, tr) ==
  LET old == checks[p][c] IN
  /\ checks' = [checks EXCEPT ![p][c] = cs]
  /\ \/ /\ old.State \notin FailingStates
        /\ cs.State = "FIRING" /\ cs.FailedSince = now /\ cs.RetryCount = 0
        /\ tr.To = "FIRING" /\ tr /= NoTransition
     \/ /\ old.State = "FIRING"
        /\ streak[p][c] = Threshold
        /\ cs.State = "ESCALATED" /\ cs.FailedSince = old.FailedSince
        /\ tr.To = "ESCALATED" /\ tr /= NoTransition
     \/ /\ old.State = "FIRING"
        /\ streak[p][c] < Threshold
        /\ cs.State = "FIRING" /\ cs.FailedSince = old.FailedSince
        /\ cs.RetryCount = old.RetryCount + 1
        /\ tr = NoTransition
     \/ /\ old.State = "ESCALATED"
        /\ cs.State = "ESCALATED" /\ cs.FailedSince = old.FailedSince
        /\ tr = NoTransition

\* What RecordFail does to the entry it works on, by the state it finds.
LEMMA FailEntry ==
  ASSUME NEW p \in Policies, NEW c \in CheckIDs, NEW tr \in Transitions,
         checks[p][c] \in CheckState, now \in Time,
         streak[p][c] \in 0..(Threshold + 1), CountsStreak(p, c),
         RecordFail(p, c, tr)
  PROVE  \E cs \in CheckState :
           FailEffect(p, c, cs, tr)
<1> DEFINE cs0 == checks[p][c]
<1>1. cs0 \in CheckState /\ now \in Time
  OBVIOUS
<1>2. CountsStreak(p, c) /\ streak[p][c] \in Nat
  BY ThresholdPositive
<1>3. CASE FirstFail(p, c, tr)
  <2> DEFINE cs == [State |-> "FIRING", FailedSince |-> now, RetryCount |-> 0]
  <2>1. cs \in CheckState
    BY <1>1, ThresholdPositive DEF CheckState, AlertState, Int32
  <2>2. checks' = [checks EXCEPT ![p][c] = cs]
    BY <1>3 DEF FirstFail, Save
  <2>3. cs0.State \notin FailingStates
    BY <1>3 DEF FirstFail, getOrCreate, FailingStates
  <2>4. tr.To = "FIRING" /\ tr /= NoTransition
    BY <1>3 DEF FirstFail, Transition, NoTransition
  <2> QED BY <2>1, <2>2, <2>3, <2>4 DEF FailEffect
<1>4. CASE Escalate(p, c, tr)
  <2> DEFINE cs == [cs0 EXCEPT !.State = "ESCALATED", !.RetryCount = Inc32(cs0.RetryCount)]
  <2>1. cs0.State = "FIRING" /\ getOrCreate(p, c) = cs0
    BY <1>1, <1>4 DEF Escalate, getOrCreate, CheckState
  <2>2. cs \in CheckState /\ cs.State = "ESCALATED" /\ cs.FailedSince = cs0.FailedSince
    BY <1>1, Inc32Type DEF CheckState, AlertState
  <2>3. checks' = [checks EXCEPT ![p][c] = cs]
    BY <2>1, <1>4 DEF Escalate, Save
  <2>4. streak[p][c] = Threshold
    BY <1>1, <1>2, <2>1, <1>4, ThresholdPositive
       DEF Escalate, CountsStreak, Inc32, CheckState, Int32
  <2>5. tr.To = "ESCALATED" /\ tr /= NoTransition
    BY <1>4 DEF Escalate, Transition, NoTransition
  <2> QED BY <2>1, <2>2, <2>3, <2>4, <2>5 DEF FailEffect
<1>5. CASE RepeatFail(p, c, tr)
  <2> DEFINE cs == [cs0 EXCEPT !.RetryCount = Inc32(cs0.RetryCount)]
  <2>1. cs0.State \in FailingStates /\ getOrCreate(p, c) = cs0
    BY <1>1, <1>5 DEF RepeatFail, getOrCreate, FailingStates, CheckState
  <2>2. /\ cs \in CheckState
        /\ cs.State = cs0.State
        /\ cs.FailedSince = cs0.FailedSince
        /\ cs.RetryCount = Inc32(cs0.RetryCount)
    BY <1>1, Inc32Type DEF CheckState
  <2>3. checks' = [checks EXCEPT ![p][c] = cs] /\ tr = NoTransition
    BY <2>1, <1>5 DEF RepeatFail, Save
  <2>4. ASSUME cs0.State = "FIRING"
        PROVE  streak[p][c] < Threshold /\ Inc32(cs0.RetryCount) = cs0.RetryCount + 1
    BY <1>1, <1>2, <2>1, <2>4, <1>5, ThresholdPositive
       DEF RepeatFail, CountsStreak, Inc32, CheckState, Int32
  <2> QED BY <2>1, <2>2, <2>3, <2>4 DEF FailEffect, FailingStates
<1> QED BY <1>3, <1>4, <1>5 DEF RecordFail

\* A recorded failure keeps the inductive invariant.
LEMMA FailStoreInv ==
  ASSUME StoreInv, NEW p \in Policies, NEW c \in CheckIDs, NEW tr \in Transitions,
         Fail(p, c, tr)
  PROVE  StoreInv'
<1>0. /\ checks[p][c] \in CheckState /\ now \in Time
      /\ streak[p][c] \in 0..(Threshold + 1) /\ CountsStreak(p, c)
  BY DEF StoreInv, TypeOK, EscalatesOnThreshold
<1>1. PICK cs \in CheckState : FailEffect(p, c, cs, tr)
  BY <1>0, FailEntry DEF Fail
<1> DEFINE newStreak == IF streak[p][c] <= Threshold THEN streak[p][c] + 1 ELSE streak[p][c]
           newSince == IF streak[p][c] = 0 THEN now ELSE since[p][c]
           newTold == IF tr /= NoTransition /\ told[p][c] < 3 THEN told[p][c] + 1
                                                             ELSE told[p][c]
           newHeard == IF tr = NoTransition THEN heard[p][c] ELSE tr.To
<1>2. /\ streak[p][c] \in 0..(Threshold + 1) /\ since[p][c] \in Time
      /\ told[p][c] \in 0..3 /\ heard[p][c] \in AlertState \cup {"none"}
      /\ checks[p][c] \in CheckState /\ now \in Time
  BY DEF StoreInv, TypeOK
<1>3. /\ newStreak \in 0..(Threshold + 1) /\ newSince \in Time
      /\ newTold \in 0..3 /\ newHeard \in AlertState \cup {"none"}
  BY <1>1, <1>2, ThresholdPositive DEF AlertState, FailEffect
<1>4. /\ streak' = [streak EXCEPT ![p][c] = newStreak]
      /\ since' = [since EXCEPT ![p][c] = newSince]
      /\ told' = [told EXCEPT ![p][c] = newTold]
      /\ demoted' = demoted /\ now' = now
  BY DEF Fail, RecordFail
<1>5. heard' = [heard EXCEPT ![p][c] = newHeard]
  BY DEF Fail, Hear, StoreInv, TypeOK
<1>6. TypeOK'
  BY <1>1, <1>3, <1>4, <1>5 DEF StoreInv, TypeOK, FailEffect
<1>7. ASSUME NEW q \in Policies, NEW d \in CheckIDs
      PROVE  KeyInv(q, d)'
  <2>1. KeyInv(q, d)
    BY StoreInvByKey
  <2>2. CASE <<q, d>> /= <<p, c>>
    <3>1. /\ checks'[q][d] = checks[q][d] /\ streak'[q][d] = streak[q][d]
          /\ since'[q][d] = since[q][d] /\ told'[q][d] = told[q][d]
          /\ heard'[q][d] = heard[q][d] /\ now' = now
      BY <1>1, <1>3, <1>4, <1>5, <2>2 DEF StoreInv, TypeOK, FailEffect
    <3> QED BY <3>1, <2>1 DEF KeyInv, CountsStreak
  <2>3. CASE <<q, d>> = <<p, c>>
    <3>1. /\ checks'[p][c] = cs /\ streak'[p][c] = newStreak
          /\ since'[p][c] = newSince /\ told'[p][c] = newTold
          /\ heard'[p][c] = newHeard /\ now' = now
      BY <1>1, <1>3, <1>4, <1>5 DEF StoreInv, TypeOK, FailEffect
    <3> QED BY <3>1, <2>1, <2>3, <1>1, <1>2, ThresholdPositive
            DEF KeyInv, CountsStreak, FailingStates, CheckState, Time, Int32, FailEffect
  <2> QED BY <2>2, <2>3
<1> QED BY <1>6, <1>7 DEF KeyInv, StoreInv, EscalatesOnThreshold,
                          FailedSinceIsStreakStart, ToldOncePerState

\* The two ways RecordPass can leave the entry it works on.
PassEffect(old, cs, tr) ==
  \/ /\ old.State \in FailingStates
     /\ cs.State = "RESOLVED" /\ cs.FailedSince = old.FailedSince /\ cs.RetryCount = 0
     /\ tr.To = "RESOLVED" /\ tr /= NoTransition
  \/ /\ old.State \notin FailingStates
     /\ cs.State = IF old.State = "ABSENT" THEN "UNKNOWN" ELSE old.State
     /\ cs.FailedSince = old.FailedSince /\ cs.RetryCount = old.RetryCount
     /\ tr = NoTransition

\* What RecordPass does to the entry it works on.
LEMMA PassEntry ==
  ASSUME NEW p \in Policies, NEW c \in CheckIDs, NEW tr \in Transitions,
         checks[p][c] \in CheckState, Pass(p, c, tr)
  PROVE  \E cs \in CheckState : /\ checks' = [checks EXCEPT ![p][c] = cs]
                                /\ PassEffect(checks[p][c], cs, tr)
<1> DEFINE old == checks[p][c]
<1>1. old \in CheckState
  OBVIOUS
<1>2. CASE old.State \in FailingStates
  <2> DEFINE cs == [old EXCEPT !.State = "RESOLVED", !.RetryCount = 0]
  <2>1. getOrCreate(p, c) = old
    BY <1>2 DEF getOrCreate, FailingStates
  <2>2. /\ cs \in CheckState /\ cs.State = "RESOLVED"
        /\ cs.FailedSince = old.FailedSince /\ cs.RetryCount = 0
    <3>1. 0 \in Int32
      BY ThresholdPositive DEF Int32
    <3> QED BY <1>1, <3>1 DEF CheckState, AlertState
  <2>3. checks' = [checks EXCEPT ![p][c] = cs] /\ tr = Transition(old.State, "RESOLVED")
    BY <1>2, <2>1, <2>2 DEF Pass, RecordPass, Save
  <2>4. PassEffect(old, cs, tr)
    BY <1>2, <2>2, <2>3 DEF PassEffect, Transition, NoTransition
  <2> QED BY <2>2, <2>3, <2>4
<1>3. CASE old.State \notin FailingStates
  <2> DEFINE cs == getOrCreate(p, c)
  <2>1. /\ cs \in CheckState
        /\ cs.State = IF old.State = "ABSENT" THEN "UNKNOWN" ELSE old.State
        /\ cs.FailedSince = old.FailedSince /\ cs.RetryCount = old.RetryCount
    BY <1>1 DEF CheckState, AlertState, getOrCreate
  <2>2. checks' = [checks EXCEPT ![p][c] = cs] /\ tr = NoTransition
    BY <1>3, <2>1 DEF Pass, RecordPass, Save, FailingStates
  <2>3. PassEffect(old, cs, tr)
    BY <1>3, <2>1, <2>2 DEF PassEffect
  <2> QED BY <2>1, <2>2, <2>3
<1> QED BY <1>2, <1>3

\* A recorded pass keeps the inductive invariant.
LEMMA PassStoreInv ==
  ASSUME StoreInv, NEW p \in Policies, NEW c \in CheckIDs, NEW tr \in Transitions,
         Pass(p, c, tr)
  PROVE  StoreInv'
<1> DEFINE newHeard == IF tr = NoTransition THEN heard[p][c] ELSE tr.To
<1>0. checks[p][c] \in CheckState
  BY DEF StoreInv, TypeOK
<1>1. PICK cs \in CheckState : /\ checks' = [checks EXCEPT ![p][c] = cs]
                               /\ PassEffect(checks[p][c], cs, tr)
  BY <1>0, PassEntry
<1>2. checks[p][c] \in CheckState /\ heard[p][c] \in AlertState \cup {"none"}
  BY DEF StoreInv, TypeOK
<1>3. now' = now
  BY DEF Pass, RecordPass
<1>5. newHeard \in AlertState \cup {"none"}
  BY <1>1, <1>2 DEF AlertState, PassEffect
<1>6. /\ streak' = [streak EXCEPT ![p][c] = 0]
      /\ told' = [told EXCEPT ![p][c] = 0]
      /\ demoted' = [demoted EXCEPT ![p][c] = FALSE]
      /\ since' = since
  BY DEF Pass
<1>7. heard' = [heard EXCEPT ![p][c] = newHeard]
  BY DEF Pass, Hear, StoreInv, TypeOK
<1>8. TypeOK'
  BY <1>1, <1>3, <1>5, <1>6, <1>7, ThresholdPositive DEF StoreInv, TypeOK
<1>9. ASSUME NEW q \in Policies, NEW d \in CheckIDs
      PROVE  KeyInv(q, d)'
  <2>1. KeyInv(q, d)
    BY StoreInvByKey
  <2>2. CASE <<q, d>> /= <<p, c>>
    <3>1. /\ checks'[q][d] = checks[q][d] /\ streak'[q][d] = streak[q][d]
          /\ since'[q][d] = since[q][d] /\ told'[q][d] = told[q][d]
          /\ heard'[q][d] = heard[q][d] /\ now' = now
      BY <1>1, <1>3, <1>5, <1>6, <1>7, <2>2 DEF StoreInv, TypeOK
    <3> QED BY <3>1, <2>1 DEF KeyInv, CountsStreak
  <2>3. CASE <<q, d>> = <<p, c>>
    <3>1. /\ checks'[p][c] = cs /\ streak'[p][c] = 0 /\ told'[p][c] = 0
          /\ since'[p][c] = since[p][c] /\ heard'[p][c] = newHeard /\ now' = now
      BY <1>1, <1>3, <1>5, <1>6, <1>7 DEF StoreInv, TypeOK
    <3> QED BY <3>1, <2>1, <2>3, <1>1, <1>2, ThresholdPositive
            DEF KeyInv, CountsStreak, FailingStates, CheckState, AlertState, PassEffect
  <2> QED BY <2>2, <2>3
<1> QED
  <2>1. (\A q \in Policies, d \in CheckIDs : KeyInv(q, d))'
    BY <1>9
  <2> QED BY <1>8, <2>1
          DEF KeyInv, StoreInv, EscalatesOnThreshold, FailedSinceIsStreakStart,
              ToldOncePerState

\* Every step of the store as the operator uses it keeps the invariant.
LEMMA NextStoreInv == StoreInv /\ [Next]_vars => StoreInv'
<1> SUFFICES ASSUME StoreInv, [Next]_vars PROVE StoreInv'
  OBVIOUS
<1>1. CASE \E p \in Policies, c \in CheckIDs, tr \in Transitions :
             Fail(p, c, tr) \/ Pass(p, c, tr)
  BY <1>1, FailStoreInv, PassStoreInv
<1>2. CASE Clock
  BY <1>2, ThresholdPositive
     DEF Clock, Tick, historyVars, StoreInv, TypeOK, Time, EscalatesOnThreshold,
         CountsStreak, FailedSinceIsStreakStart, ToldOncePerState
<1>3. CASE UNCHANGED vars
  BY <1>3 DEF vars, StoreInv, TypeOK, EscalatesOnThreshold, CountsStreak,
              FailedSinceIsStreakStart, ToldOncePerState
<1> QED BY <1>1, <1>2, <1>3 DEF Next

\* The inductive invariant holds of every behaviour of the store.
THEOREM StoreInvariant == Spec => []StoreInv
BY InitStoreInv, NextStoreInv, PTL DEF Spec

\* Every reachable store is well typed: no call leaves a value outside its type,
\* the wrapping int32 counter of RecordFail included.
THEOREM StoreTypeCorrect == Spec => []TypeOK
<1>1. StoreInv => TypeOK
  BY DEF StoreInv
<1> QED BY <1>1, StoreInvariant, PTL

\* RecordFail escalates exactly on the Threshold-th failure after the first one,
\* for every threshold and every width of RetryCount.
THEOREM EscalationIsExact == Spec => []EscalatesOnThreshold
<1>1. StoreInv => EscalatesOnThreshold
  BY DEF StoreInv
<1> QED BY <1>1, StoreInvariant, PTL

\* FailedSince is always the time of the failure that opened the last incident.
THEOREM FailedSinceIsExact == Spec => []FailedSinceIsStreakStart
<1>1. StoreInv => FailedSinceIsStreakStart
  BY DEF StoreInv
<1> QED BY <1>1, StoreInvariant, PTL

\* The transitions returned by RecordFail and RecordPass announce every change of
\* state once and nothing else.
THEOREM AnnouncedOnce == Spec => []ToldOncePerState
<1>1. StoreInv => ToldOncePerState
  BY DEF StoreInv
<1> QED BY <1>1, StoreInvariant, PTL

\* The store used without restores implements the abstract alert lifecycle.
THEOREM StoreImplementsLifecycle == Spec => ImplementsLifecycle
<1> DEFINE aPhase == [p \in Policies |-> [c \in CheckIDs |-> PhaseOf(checks[p][c])]]
           aFails == [p \in Policies |-> [c \in CheckIDs |-> FailsOf(checks[p][c])]]
<1>1. Init => Lifecycle!Init
  BY DEF Init, StoreInit, PerCheck, Absent, PhaseOf, FailsOf, Lifecycle!Init
<1>2. StoreInv /\ [Next]_vars => [Lifecycle!Next]_(Lifecycle!vars)
  <2> SUFFICES ASSUME StoreInv, [Next]_vars
               PROVE  [Lifecycle!Next]_(Lifecycle!vars)
    OBVIOUS
  <2>1. ASSUME NEW p \in Policies, NEW c \in CheckIDs, NEW tr \in Transitions,
               Fail(p, c, tr)
        PROVE  [Lifecycle!Next]_(Lifecycle!vars)
    <3>0. /\ checks[p][c] \in CheckState /\ now \in Time
          /\ streak[p][c] \in 0..(Threshold + 1) /\ CountsStreak(p, c)
      BY DEF StoreInv, TypeOK, EscalatesOnThreshold
    <3>1. PICK cs \in CheckState : FailEffect(p, c, cs, tr)
      BY <2>1, <3>0, FailEntry DEF Fail
    <3>2. KeyInv(p, c) /\ checks[p][c] \in CheckState /\ streak[p][c] \in Nat
      BY StoreInvByKey, ThresholdPositive DEF StoreInv, TypeOK
    <3>3. /\ aPhase' = [aPhase EXCEPT ![p][c] = PhaseOf(cs)]
          /\ aFails' = [aFails EXCEPT ![p][c] = FailsOf(cs)]
      BY <3>1 DEF FailEffect, StoreInv, TypeOK
    <3>4. heard' = [heard EXCEPT ![p][c] = IF tr = NoTransition THEN heard[p][c] ELSE tr.To]
      BY <2>1 DEF Fail, Hear, StoreInv, TypeOK
    <3> DEFINE old == checks[p][c]
    <3>5. /\ aPhase[p][c] = PhaseOf(old) /\ aFails[p][c] = FailsOf(old)
          /\ aPhase \in [Policies -> [CheckIDs -> {"quiet", "firing", "escalated"}]]
          /\ aFails \in [Policies -> [CheckIDs -> Int]]
      BY ThresholdPositive DEF StoreInv, TypeOK, PhaseOf, FailsOf, CheckState, Int32
    <3>6. CASE old.State \notin FailingStates
      <4>1. PhaseOf(old) = "quiet" /\ PhaseOf(cs) = "firing" /\ FailsOf(cs) = 1
        BY <3>1, <3>6 DEF FailEffect, FailingStates, PhaseOf, FailsOf
      <4>2. heard' = [heard EXCEPT ![p][c] = "FIRING"]
        BY <3>1, <3>4, <3>6 DEF FailEffect, FailingStates
      <4>3. Lifecycle!Open(p, c)
        BY <4>1, <4>2, <3>3, <3>5 DEF Lifecycle!Open, Lifecycle!Update
      <4> QED BY <4>3 DEF Lifecycle!Next
    <3>7. CASE old.State = "FIRING" /\ streak[p][c] = Threshold
      <4>1. /\ PhaseOf(old) = "firing" /\ FailsOf(old) = Threshold
            /\ PhaseOf(cs) = "escalated" /\ FailsOf(cs) = Threshold + 1
        BY <3>1, <3>2, <3>7, ThresholdPositive
           DEF FailEffect, FailingStates, PhaseOf, FailsOf, KeyInv, CountsStreak
      <4>2. heard' = [heard EXCEPT ![p][c] = "ESCALATED"]
        <5>1. tr.To = "ESCALATED" /\ tr /= NoTransition
          BY <3>1, <3>2, <3>7, ThresholdPositive DEF FailEffect, FailingStates
        <5> QED BY <5>1, <3>4
      <4>3. Lifecycle!Escalate(p, c)
        BY <4>1, <4>2, <3>3, <3>5 DEF Lifecycle!Escalate, Lifecycle!Update
      <4> QED BY <4>3 DEF Lifecycle!Next
    <3>8. CASE old.State = "FIRING" /\ streak[p][c] < Threshold
      <4>1. /\ PhaseOf(old) = "firing" /\ FailsOf(old) < Threshold
            /\ PhaseOf(cs) = "firing" /\ FailsOf(cs) = FailsOf(old) + 1
        BY <3>1, <3>2, <3>8, ThresholdPositive
           DEF FailEffect, FailingStates, PhaseOf, FailsOf, KeyInv, CountsStreak
      <4>2. heard' = heard
        BY <3>1, <3>4, <3>8, ThresholdPositive DEF FailEffect, FailingStates, StoreInv, TypeOK
      <4>3. aPhase' = aPhase
        <5> HIDE DEF aPhase
        <5> QED BY <4>1, <3>3, <3>5, TableSame
      <4>4. Lifecycle!FailAgain(p, c)
        BY <4>1, <4>2, <4>3, <3>3, <3>5 DEF Lifecycle!FailAgain, Lifecycle!Update
      <4> QED BY <4>4 DEF Lifecycle!Next
    <3>9. CASE old.State = "ESCALATED"
      <4>1. PhaseOf(cs) = PhaseOf(old) /\ FailsOf(cs) = FailsOf(old)
        BY <3>1, <3>9 DEF FailEffect, FailingStates, PhaseOf, FailsOf
      <4>2. heard' = heard
        BY <3>1, <3>4, <3>9 DEF FailEffect, FailingStates, StoreInv, TypeOK
      <4>3. aPhase' = aPhase /\ aFails' = aFails
        <5> HIDE DEF aPhase, aFails
        <5> QED BY <4>1, <3>3, <3>5, TableSame
      <4> QED BY <4>2, <4>3 DEF Lifecycle!vars
    <3> QED BY <3>1, <3>6, <3>7, <3>8, <3>9 DEF FailEffect
  <2>2. ASSUME NEW p \in Policies, NEW c \in CheckIDs, NEW tr \in Transitions,
               Pass(p, c, tr)
        PROVE  [Lifecycle!Next]_(Lifecycle!vars)
    <3> DEFINE old == checks[p][c]
    <3>0. old \in CheckState
      BY DEF StoreInv, TypeOK
    <3>1. PICK cs : /\ checks' = [checks EXCEPT ![p][c] = cs]
                    /\ PassEffect(old, cs, tr)
      BY <2>2, <3>0, PassEntry
    <3>2. heard' = [heard EXCEPT ![p][c] = IF tr = NoTransition THEN heard[p][c] ELSE tr.To]
      BY <2>2 DEF Pass, Hear, StoreInv, TypeOK
    <3>3. /\ aPhase' = [aPhase EXCEPT ![p][c] = PhaseOf(cs)]
          /\ aFails' = [aFails EXCEPT ![p][c] = FailsOf(cs)]
      BY <3>1 DEF StoreInv, TypeOK
    <3>4. /\ aPhase[p][c] = PhaseOf(old) /\ aFails[p][c] = FailsOf(old)
          /\ aPhase \in [Policies -> [CheckIDs -> {"quiet", "firing", "escalated"}]]
          /\ aFails \in [Policies -> [CheckIDs -> Int]]
      BY ThresholdPositive DEF StoreInv, TypeOK, PhaseOf, FailsOf, CheckState, Int32
    <3>5. CASE old.State \in FailingStates
      <4>1. PhaseOf(old) /= "quiet" /\ PhaseOf(cs) = "quiet" /\ FailsOf(cs) = 0
        BY <3>1, <3>5 DEF PassEffect, FailingStates, PhaseOf, FailsOf
      <4>2. heard' = [heard EXCEPT ![p][c] = "RESOLVED"]
        BY <3>1, <3>2, <3>5 DEF PassEffect
      <4>3. Lifecycle!Close(p, c)
        BY <4>1, <4>2, <3>3, <3>4 DEF Lifecycle!Close, Lifecycle!Update
      <4> QED BY <4>3 DEF Lifecycle!Next
    <3>6. CASE old.State \notin FailingStates
      <4>1. PhaseOf(cs) = PhaseOf(old) /\ FailsOf(cs) = FailsOf(old)
        BY <3>1, <3>6 DEF PassEffect, FailingStates, PhaseOf, FailsOf
      <4>2. heard' = heard
        BY <3>1, <3>2, <3>6 DEF PassEffect, StoreInv, TypeOK
      <4>3. aPhase' = aPhase /\ aFails' = aFails
        <5> HIDE DEF aPhase, aFails
        <5> QED BY <4>1, <3>3, <3>4, TableSame
      <4> QED BY <4>2, <4>3 DEF Lifecycle!vars
    <3> QED BY <3>5, <3>6
  <2>3. CASE Clock \/ UNCHANGED vars
    BY <2>3 DEF Clock, Tick, historyVars, vars, Lifecycle!vars
  <2> QED BY <2>1, <2>2, <2>3 DEF Next
<1> QED BY <1>1, <1>2, StoreInvariant, PTL DEF Spec, ImplementsLifecycle, Lifecycle!Spec
-----------------------------------------------------------------------------
\* The whole interface, RestoreFromFailedSince included.  A demoted check, back in
\* FIRING with the retries of its escalation, is failing until a pass.
RestoreKeyInv(p, c) ==
  /\ demoted[p][c] => checks[p][c].State \in FailingStates
  /\ ~demoted[p][c] => CountsStreak(p, c)

RestoreTypes ==
  /\ checks \in [Policies -> [CheckIDs -> CheckState]]
  /\ now \in Time
  /\ streak \in [Policies -> [CheckIDs -> 0..(Threshold + 1)]]
  /\ demoted \in [Policies -> [CheckIDs -> BOOLEAN]]

RestoreInv ==
  RestoreTypes /\ \A p \in Policies, c \in CheckIDs : RestoreKeyInv(p, c)

\* A failure of a check that is failing leaves it failing.
LEMMA FailStaysFailing ==
  ASSUME RestoreTypes, NEW p \in Policies, NEW c \in CheckIDs, NEW tr \in Transitions,
         checks[p][c].State \in FailingStates, RecordFail(p, c, tr)
  PROVE  \E cs \in CheckState : /\ checks' = [checks EXCEPT ![p][c] = cs]
                                /\ cs.State \in FailingStates
                                /\ tr.To /= "FIRING"
<1> DEFINE old == checks[p][c]
           esc == [old EXCEPT !.State = "ESCALATED", !.RetryCount = Inc32(old.RetryCount)]
           rep == [old EXCEPT !.RetryCount = Inc32(old.RetryCount)]
<1>1. old \in CheckState /\ getOrCreate(p, c) = old
  BY DEF RestoreTypes, getOrCreate, FailingStates
<1>2. /\ esc \in CheckState /\ esc.State = "ESCALATED"
      /\ rep \in CheckState /\ rep.State = old.State
  BY <1>1, Inc32Type DEF CheckState, AlertState
<1>3. ~ FirstFail(p, c, tr)
  BY <1>1 DEF FirstFail, FailingStates
<1>4. CASE Escalate(p, c, tr)
  BY <1>4, <1>1, <1>2 DEF Escalate, Save, Transition, FailingStates
<1>5. CASE RepeatFail(p, c, tr)
  BY <1>5, <1>1, <1>2 DEF RepeatFail, Save, Transition, NoTransition
<1> QED BY <1>3, <1>4, <1>5 DEF RecordFail

\* The effect of a change of one check on the invariant: the others keep theirs.
LEMMA RestoreOneKey ==
  ASSUME RestoreInv, NEW p \in Policies, NEW c \in CheckIDs,
         NEW cs \in CheckState, NEW n \in 0..(Threshold + 1), NEW d \in BOOLEAN,
         checks' = [checks EXCEPT ![p][c] = cs],
         streak' = [streak EXCEPT ![p][c] = n],
         demoted' = [demoted EXCEPT ![p][c] = d],
         now' \in Time,
         d => cs.State \in FailingStates,
         ~d => /\ cs.State \notin FailingStates => n = 0 /\ cs.RetryCount = 0
               /\ cs.State = "FIRING" => n \in 1..Threshold /\ cs.RetryCount = n - 1
               /\ cs.State = "ESCALATED" => n = Threshold + 1
  PROVE  RestoreInv'
<1>1. RestoreTypes'
  BY DEF RestoreInv, RestoreTypes
<1>2. ASSUME NEW q \in Policies, NEW e \in CheckIDs
      PROVE  RestoreKeyInv(q, e)'
  <2>1. CASE <<q, e>> /= <<p, c>>
    <3>1. /\ checks'[q][e] = checks[q][e] /\ streak'[q][e] = streak[q][e]
          /\ demoted'[q][e] = demoted[q][e]
      BY <2>1 DEF RestoreInv, RestoreTypes
    <3> QED BY <3>1 DEF RestoreInv, RestoreKeyInv, CountsStreak
  <2>2. CASE <<q, e>> = <<p, c>>
    <3>1. checks'[p][c] = cs /\ streak'[p][c] = n /\ demoted'[p][c] = d
      BY DEF RestoreInv, RestoreTypes
    <3> QED BY <3>1, <2>2 DEF RestoreKeyInv, CountsStreak
  <2> QED BY <2>1, <2>2
<1>3. (\A q \in Policies, e \in CheckIDs : RestoreKeyInv(q, e))'
  BY <1>2
<1> QED BY <1>1, <1>3 DEF RestoreInv

\* Every call of the whole interface keeps the invariant.
LEMMA NextRestoreInv == RestoreInv /\ [NextWithRestore]_vars => RestoreInv'
<1> SUFFICES ASSUME RestoreInv, [NextWithRestore]_vars PROVE RestoreInv'
  OBVIOUS
<1> USE ThresholdPositive
<1>1. ASSUME NEW p \in Policies, NEW c \in CheckIDs, NEW tr \in Transitions,
             Fail(p, c, tr)
      PROVE  RestoreInv'
  <2> DEFINE n == IF streak[p][c] <= Threshold THEN streak[p][c] + 1 ELSE streak[p][c]
  <2>1. /\ checks[p][c] \in CheckState /\ now \in Time /\ demoted[p][c] \in BOOLEAN
        /\ streak[p][c] \in 0..(Threshold + 1) /\ RestoreKeyInv(p, c)
    BY DEF RestoreInv, RestoreTypes
  <2>2. /\ streak' = [streak EXCEPT ![p][c] = n] /\ n \in 0..(Threshold + 1)
        /\ demoted' = [demoted EXCEPT ![p][c] = demoted[p][c]] /\ now' = now
        /\ RecordFail(p, c, tr)
    BY <1>1, <2>1 DEF Fail, RecordFail, RestoreInv, RestoreTypes
  <2>3. CASE demoted[p][c]
    <3>1. PICK cs \in CheckState : /\ checks' = [checks EXCEPT ![p][c] = cs]
                                   /\ cs.State \in FailingStates
      BY <2>1, <2>2, <2>3, FailStaysFailing DEF RestoreInv, RestoreKeyInv
    <3> HIDE DEF n
    <3> QED BY <3>1, <2>1, <2>2, <2>3, RestoreOneKey
  <2>4. CASE ~demoted[p][c]
    <3>1. CountsStreak(p, c)
      BY <2>1, <2>4 DEF RestoreKeyInv
    <3>2. PICK cs \in CheckState : FailEffect(p, c, cs, tr)
      BY <2>1, <2>2, <3>1, FailEntry
    <3>3. /\ checks' = [checks EXCEPT ![p][c] = cs]
          /\ cs.State \notin FailingStates => n = 0 /\ cs.RetryCount = 0
          /\ cs.State = "FIRING" => n \in 1..Threshold /\ cs.RetryCount = n - 1
          /\ cs.State = "ESCALATED" => n = Threshold + 1
      BY <2>1, <3>1, <3>2 DEF FailEffect, CountsStreak, FailingStates, CheckState, Int32
    <3> HIDE DEF n
    <3> QED BY <3>3, <2>1, <2>2, <2>4, RestoreOneKey
  <2> QED BY <2>3, <2>4
<1>2. ASSUME NEW p \in Policies, NEW c \in CheckIDs, NEW tr \in Transitions,
             Pass(p, c, tr)
      PROVE  RestoreInv'
  <2>1. checks[p][c] \in CheckState /\ now \in Time /\ RestoreKeyInv(p, c)
    BY DEF RestoreInv, RestoreTypes
  <2>2. PICK cs \in CheckState : /\ checks' = [checks EXCEPT ![p][c] = cs]
                                 /\ PassEffect(checks[p][c], cs, tr)
    BY <1>2, <2>1, PassEntry
  <2>3. /\ streak' = [streak EXCEPT ![p][c] = 0]
        /\ demoted' = [demoted EXCEPT ![p][c] = FALSE] /\ now' \in Time
    BY <1>2, <2>1 DEF Pass, RecordPass
  <2>4. cs.State \notin FailingStates /\ cs.RetryCount = 0
    BY <2>1, <2>2 DEF PassEffect, RestoreKeyInv, CountsStreak, FailingStates
  <2>5. 0 \in 0..(Threshold + 1) /\ cs.State \notin {"FIRING", "ESCALATED"}
    BY <2>4 DEF FailingStates
  <2> QED BY <2>2, <2>3, <2>4, <2>5, RestoreOneKey
<1>3. ASSUME NEW p \in Policies, NEW c \in CheckIDs, NEW t \in Time,
             Restore(p, c, t)
      PROVE  RestoreInv'
  <2> DEFINE cs == [getOrCreate(p, c) EXCEPT !.State = "FIRING", !.FailedSince = t]
             n == IF streak[p][c] = 0 THEN 1 ELSE streak[p][c]
             d == demoted[p][c] \/ streak[p][c] > Threshold
  <2>1. /\ checks[p][c] \in CheckState /\ now \in Time /\ demoted[p][c] \in BOOLEAN
        /\ streak[p][c] \in 0..(Threshold + 1) /\ RestoreKeyInv(p, c)
    BY DEF RestoreInv, RestoreTypes
  <2>2. /\ cs \in CheckState /\ cs.State = "FIRING"
        /\ cs.RetryCount = checks[p][c].RetryCount
    BY <2>1 DEF getOrCreate, CheckState, AlertState
  <2>3. /\ checks' = [checks EXCEPT ![p][c] = cs]
        /\ streak' = [streak EXCEPT ![p][c] = n] /\ n \in 0..(Threshold + 1)
        /\ demoted' = [demoted EXCEPT ![p][c] = d] /\ d \in BOOLEAN
        /\ now' \in Time
    BY <1>3, <2>1 DEF Restore, RestoreFromFailedSince, Save
  <2>4. ~d => n \in 1..Threshold /\ cs.RetryCount = n - 1
    BY <2>1, <2>2 DEF RestoreKeyInv, CountsStreak, FailingStates, CheckState, AlertState
  <2> HIDE DEF cs, n, d
  <2> QED BY <2>2, <2>3, <2>4, RestoreOneKey DEF FailingStates
<1>4. CASE Clock
  BY <1>4 DEF Clock, Tick, historyVars, Time, RestoreInv, RestoreTypes, RestoreKeyInv,
              CountsStreak
<1>5. CASE UNCHANGED vars
  BY <1>5 DEF vars, RestoreInv, RestoreTypes, RestoreKeyInv, CountsStreak
<1> QED BY <1>1, <1>2, <1>3, <1>4, <1>5 DEF NextWithRestore, Next

\* The invariant of the whole interface holds of every behaviour.
THEOREM RestoreInvariant == SpecWithRestore => []RestoreInv
<1>1. Init => RestoreInv
  BY ThresholdPositive
     DEF Init, StoreInit, PerCheck, Absent, RestoreInv, RestoreTypes, RestoreKeyInv,
         CheckState, AlertState, Int32, Time, CountsStreak, FailingStates
<1> QED BY <1>1, NextRestoreInv, PTL DEF SpecWithRestore

\* With RestoreFromFailedSince called at any time, the count of failures stays exact
\* for every check but one restored while its escalation stood.
THEOREM RestoreKeepsTheCount == SpecWithRestore => []RestoreKeepsCount
<1>1. RestoreInv => RestoreKeepsCount
  BY DEF RestoreInv, RestoreKeyInv, RestoreKeepsCount
<1> QED BY <1>1, RestoreInvariant, PTL

\* The histories of the announcements keep their types.
ToldTypes ==
  /\ heard \in [Policies -> [CheckIDs -> AlertState \cup {"none"}]]
  /\ told \in [Policies -> [CheckIDs -> 0..3]]

\* Every step keeps the types of the announcements.
LEMMA NextToldTypes == ToldTypes /\ [NextWithRestore]_vars => ToldTypes'
<1> SUFFICES ASSUME ToldTypes, [NextWithRestore]_vars PROVE ToldTypes'
  OBVIOUS
<1>1. ASSUME NEW p \in Policies, NEW c \in CheckIDs, NEW tr \in Transitions,
             Fail(p, c, tr) \/ Pass(p, c, tr)
      PROVE  ToldTypes'
  <2>1. tr /= NoTransition => tr.To \in AlertState
    BY DEF Transitions, Transition, NoTransition
  <2>2. heard' \in [Policies -> [CheckIDs -> AlertState \cup {"none"}]]
    BY <1>1, <2>1 DEF Fail, Pass, Hear, ToldTypes
  <2>3. told' \in [Policies -> [CheckIDs -> 0..3]]
    <3>1. told[p][c] \in 0..3
      BY DEF ToldTypes
    <3>2. PICK n \in 0..3 : told' = [told EXCEPT ![p][c] = n]
      BY <1>1, <3>1 DEF Fail, Pass
    <3> QED BY <3>2 DEF ToldTypes
  <2> QED BY <2>2, <2>3 DEF ToldTypes
<1>2. CASE \E p \in Policies, c \in CheckIDs, t \in Time : Restore(p, c, t)
  BY <1>2 DEF Restore, ToldTypes
<1>3. CASE Clock \/ UNCHANGED vars
  BY <1>3 DEF Clock, historyVars, vars, ToldTypes
<1> QED BY <1>1, <1>2, <1>3 DEF NextWithRestore, Next

\* A check that is failing, or was restored as failing, is not announced as FIRING
\* again before it passes: the deduplication RestoreFromFailedSince is there for.
THEOREM RestoreDeduplicates == SpecWithRestore => NoFiringDuringStreak
<1> DEFINE Dedup == \A p \in Policies, c \in CheckIDs :
                      told'[p][c] > told[p][c] /\ heard'[p][c] = "FIRING"
                        => streak[p][c] = 0
<1>1. Init => ToldTypes
  BY DEF Init, PerCheck, ToldTypes
<1>2. ASSUME RestoreInv, ToldTypes, [NextWithRestore]_vars
      PROVE  [Dedup]_vars
  <2> SUFFICES ASSUME NEW q \in Policies, NEW e \in CheckIDs,
                      told'[q][e] > told[q][e], heard'[q][e] = "FIRING"
               PROVE  streak[q][e] = 0
    OBVIOUS
  <2>1. told[q][e] \in 0..3 /\ told' /= told
    BY <1>2 DEF ToldTypes
  <2>2. PICK p \in Policies, c \in CheckIDs, tr \in Transitions : Fail(p, c, tr) \/ Pass(p, c, tr)
    BY <1>2, <2>1 DEF NextWithRestore, Next, Clock, historyVars, vars, Restore
  <2>3. ~ Pass(p, c, tr)
    <3> SUFFICES ASSUME Pass(p, c, tr) PROVE FALSE
      OBVIOUS
    <3>1. told'[q][e] \in {0, told[q][e]}
      BY <1>2 DEF Pass, ToldTypes
    <3> QED BY <3>1, <2>1
  <2>4. q = p /\ e = c /\ tr /= NoTransition
    BY <1>2, <2>1, <2>2, <2>3 DEF Fail, ToldTypes
  <2>5. tr.To = "FIRING"
    BY <1>2, <2>2, <2>3, <2>4 DEF Fail, Hear, ToldTypes
  <2>6. checks[p][c].State \notin FailingStates
    BY <1>2, <2>2, <2>3, <2>5, FailStaysFailing DEF RestoreInv, Fail
  <2>7. CountsStreak(p, c)
    BY <1>2, <2>6 DEF RestoreInv, RestoreTypes, RestoreKeyInv
  <2> QED BY <2>4, <2>6, <2>7 DEF CountsStreak
<1>3. SpecWithRestore => []ToldTypes
  BY <1>1, NextToldTypes, PTL DEF SpecWithRestore
<1> QED BY <1>2, <1>3, RestoreInvariant, PTL DEF SpecWithRestore, NoFiringDuringStreak
=============================================================================
