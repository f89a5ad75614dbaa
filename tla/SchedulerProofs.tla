-------------------------- MODULE SchedulerProofs --------------------------
(***************************************************************************)
(* Proofs about the scheduler, for any number of overlapping scans, all    *)
(* check lists, any channels and any number of restarts.                   *)
(***************************************************************************)
EXTENDS Scheduler, FiniteSetTheorems, WellFoundedInduction, TLAPS

\* The points of a scan, and those where it has a check at hand.
Points == {"idle", "spawned", "select", "verify", "process", "readState", "notify",
           "create", "fetch", "update"}
AtHand == {"process", "readState", "notify"}
Telling == {"readState", "notify"}

ScanStates ==
  [pc : Points, scanType : {"FullScan", "Rescan"}, tracked : BOOLEAN, orphan : BOOLEAN,
   cancelled : BOOLEAN, ids : Seq(CheckIDs), verdicts : Seq(Verdicts),
   transition : Transitions, clean : BOOLEAN, since : Time, failedSince : Time,
   conflict : BOOLEAN]

\* A scan with a check at hand has a verdict for it.
Matched(x) == x.pc \in AtHand => x.ids /= <<>> /\ Len(x.verdicts) = Len(x.ids)

Types ==
  /\ checks \in [Policies -> [CheckIDs -> CheckState]]
  /\ now \in Time
  /\ spec.checks \in Seq(CheckIDs)
  /\ scan \in [Scans -> ScanStates]
  /\ \A s \in Scans : Matched(scan[s])
  /\ crashes \in Nat
  /\ board \in [Channels -> [CheckIDs -> {"none"} \cup AlertState]]
  /\ net \in [CheckIDs -> Int]
  /\ blurred \in [CheckIDs -> BOOLEAN]

\* A tracked scan is the one its loop's cancel function cancels, until Stop has
\* cancelled it.
Reached(x, s, full, re) ==
  /\ x.pc = "idle" => ~x.tracked
  /\ x.tracked /\ x.orphan => x.cancelled
  /\ x.tracked /\ ~x.orphan => s = IF x.scanType = "FullScan" THEN full ELSE re

Handles == \A s \in Scans : Reached(scan[s], s, cancelFullScan, cancelRescan)

\* A transition nothing has blurred is the only one on its way, and tells the state.
CleanIsCurrent ==
  \A c \in CheckIDs : \A s \in Holding(c) :
    scan[s].clean => Holding(c) = {s} /\ scan[s].transition.To = checks[Policy][c].State

\* The start of an incident is not moved back while a scan is about to read it.
SinceKept ==
  /\ \A c \in CheckIDs : checks[Policy][c].FailedSince <= now
  /\ \A s \in Scans :
       scan[s].pc = "readState" =>
         scan[s].since <= checks[Policy][Head(scan[s].ids)].FailedSince

\* The inductive invariant.
SchedulerInv ==
  /\ Types
  /\ Handles
  /\ AlertsConserved
  /\ BoardShowsState /\ CleanIsCurrent
  /\ FailedSinceNotOlder /\ SinceKept
-----------------------------------------------------------------------------
\* The least-number principle, from the well-foundedness of < on the naturals.
LEMMA LeastNatural ==
  ASSUME NEW S \in SUBSET Nat, S /= {}
  PROVE  \E n \in S : \A m \in S : n <= m
<1> DEFINE R == OpToRel(<, Nat)
<1>1. IsWellFoundedOn(R, Nat)
  BY NatLessThanWellFounded
<1>2. \A x, y \in Nat : <<x, y>> \in R <=> x < y
  BY DEF OpToRel
<1> HIDE DEF R
<1>3. PICK n \in S : \A m \in S : ~(<<m, n>> \in R)
  BY <1>1, WFMin
<1>4. ASSUME NEW m \in S PROVE n <= m
  <2>1. n \in Nat /\ m \in Nat
    OBVIOUS
  <2>2. ~(m < n)
    BY <1>2, <1>3, <2>1
  <2> QED BY <2>1, <2>2
<1> QED BY <1>4

\* The loop of runRescan, run over the first n checks, builds a list of checks.
LEMMA KeptSteps ==
  ASSUME NEW ids \in Seq(CheckIDs), NEW failed
  PROVE  \E f \in [0..Len(ids) -> Seq(CheckIDs)] :
           f = [n \in 0..Len(ids) |->
                  IF n = 0 THEN <<>>
                  ELSE IF ids[n] \in failed THEN Append(f[n - 1], ids[n]) ELSE f[n - 1]]
<1> DEFINE Builds(f, k) ==
             \A n \in 0..k :
               f[n] = IF n = 0 THEN <<>>
                      ELSE IF ids[n] \in failed THEN Append(f[n - 1], ids[n])
                      ELSE f[n - 1]
           Bad == {k \in 0..Len(ids) : ~\E f \in [0..k -> Seq(CheckIDs)] : Builds(f, k)}
<1>0. Len(ids) \in Nat /\ \A n \in 1..Len(ids) : ids[n] \in CheckIDs
  OBVIOUS
<1>1. Bad = {}
  <2> SUFFICES ASSUME Bad /= {} PROVE FALSE
    OBVIOUS
  <2>1. Bad \in SUBSET Nat
    BY <1>0
  <2>2. PICK k \in Bad : \A m \in Bad : k <= m
    <3> HIDE DEF Bad
    <3> QED BY <2>1, LeastNatural
  <2>3. k \in 0..Len(ids) /\ ~\E f \in [0..k -> Seq(CheckIDs)] : Builds(f, k)
    OBVIOUS
  <2>4. CASE k = 0
    <3> DEFINE f == [n \in 0..0 |-> <<>>]
    <3>1. f \in [0..k -> Seq(CheckIDs)]
      BY <2>4
    <3>2. Builds(f, k)
      BY <2>4
    <3> QED BY <2>3, <3>1, <3>2
  <2>5. CASE k /= 0
    <3>1. k - 1 \in 0..Len(ids) /\ k \in 1..Len(ids) /\ ~(k <= k - 1)
      BY <1>0, <2>3, <2>5
    <3>2. k - 1 \notin Bad
      BY <2>2, <3>1
    <3>3. PICK g \in [0..(k - 1) -> Seq(CheckIDs)] : Builds(g, k - 1)
      BY <3>1, <3>2
    <3> DEFINE f == [n \in 0..k |->
                       IF n < k THEN g[n]
                       ELSE IF ids[n] \in failed THEN Append(g[k - 1], ids[n])
                       ELSE g[k - 1]]
    <3>4. g[k - 1] \in Seq(CheckIDs) /\ ids[k] \in CheckIDs
      BY <1>0, <3>1, <3>3
    <3>5. Append(g[k - 1], ids[k]) \in Seq(CheckIDs)
      BY <3>4
    <3>6. f \in [0..k -> Seq(CheckIDs)]
      <4> SUFFICES ASSUME NEW n \in 0..k
                   PROVE  (IF n < k THEN g[n]
                           ELSE IF ids[n] \in failed THEN Append(g[k - 1], ids[n])
                           ELSE g[k - 1]) \in Seq(CheckIDs)
        OBVIOUS
      <4>1. CASE n < k
        <5>1. n \in 0..(k - 1)
          BY <3>1, <4>1
        <5> QED BY <3>3, <4>1, <5>1
      <4>2. CASE ~(n < k)
        <5>1. n = k
          BY <3>1, <4>2
        <5> QED BY <3>4, <3>5, <4>2, <5>1
      <4> QED BY <4>1, <4>2
    <3>7. Builds(f, k)
      <4> SUFFICES ASSUME NEW n \in 0..k
                   PROVE  f[n] = IF n = 0 THEN <<>>
                                 ELSE IF ids[n] \in failed THEN Append(f[n - 1], ids[n])
                                 ELSE f[n - 1]
        OBVIOUS
      <4>1. CASE n = 0
        <5>1. n \in 0..(k - 1) /\ n < k
          BY <3>1, <4>1
        <5> QED BY <3>3, <4>1, <5>1
      <4>2. CASE n /= 0 /\ n < k
        <5>1. n \in 0..(k - 1) /\ n - 1 \in 0..k /\ n - 1 < k
          BY <3>1, <4>2
        <5>2. f[n] = g[n] /\ f[n - 1] = g[n - 1]
          BY <4>2, <5>1
        <5> HIDE DEF f
        <5> QED BY <3>3, <4>2, <5>1, <5>2
      <4>3. CASE n = k
        <5>1. k - 1 \in 0..k /\ k - 1 < k /\ ~(k < k)
          BY <3>1
        <5>2. f[k - 1] = g[k - 1]
          BY <5>1
        <5>3. f[k] = IF ids[k] \in failed THEN Append(g[k - 1], ids[k]) ELSE g[k - 1]
          BY <5>1
        <5> HIDE DEF f
        <5> QED BY <2>5, <4>3, <5>2, <5>3
      <4> QED BY <3>1, <4>1, <4>2, <4>3
    <3> QED BY <2>3, <3>6, <3>7
  <2> QED BY <2>4, <2>5
<1>2. Len(ids) \in 0..Len(ids)
  BY <1>0
<1>3. PICK f \in [0..Len(ids) -> Seq(CheckIDs)] : Builds(f, Len(ids))
  BY <1>1, <1>2
<1>4. f = [n \in 0..Len(ids) |->
             IF n = 0 THEN <<>>
             ELSE IF ids[n] \in failed THEN Append(f[n - 1], ids[n]) ELSE f[n - 1]]
  BY <1>3
<1> QED BY <1>4

\* The function the loop defines starts from nothing and goes on from what it has.
LEMMA KeptType ==
  ASSUME NEW ids \in Seq(CheckIDs), NEW failed
  PROVE  Kept(ids, failed) \in Seq(CheckIDs)
<1> DEFINE kept == CHOOSE f : f = [n \in 0..Len(ids) |->
             IF n = 0 THEN <<>>
             ELSE IF ids[n] \in failed THEN Append(f[n - 1], ids[n]) ELSE f[n - 1]]
<1>1. Kept(ids, failed) = kept[Len(ids)]
  BY DEF Kept
<1> HIDE DEF kept
<1>2. kept = [n \in 0..Len(ids) |->
             IF n = 0 THEN <<>>
             ELSE IF ids[n] \in failed THEN Append(kept[n - 1], ids[n]) ELSE kept[n - 1]]
  <2>1. \E f : f = [n \in 0..Len(ids) |->
             IF n = 0 THEN <<>>
             ELSE IF ids[n] \in failed THEN Append(f[n - 1], ids[n]) ELSE f[n - 1]]
    BY KeptSteps
  <2> QED BY <2>1, Zenon DEF kept
<1> DEFINE Bad == {n \in 0..Len(ids) : kept[n] \notin Seq(CheckIDs)}
<1>0. Len(ids) \in Nat /\ \A n \in 1..Len(ids) : ids[n] \in CheckIDs
  OBVIOUS
<1>3. Bad = {}
  <2> SUFFICES ASSUME Bad /= {} PROVE FALSE
    OBVIOUS
  <2>1. Bad \in SUBSET Nat
    BY <1>0
  <2>2. PICK k \in Bad : \A m \in Bad : k <= m
    <3> HIDE DEF Bad
    <3> QED BY <2>1, LeastNatural
  <2>3. k \in 0..Len(ids) /\ kept[k] \notin Seq(CheckIDs)
    OBVIOUS
  <2>4. kept[k] = IF k = 0 THEN <<>>
                  ELSE IF ids[k] \in failed THEN Append(kept[k - 1], ids[k])
                  ELSE kept[k - 1]
    BY <1>2, <2>3
  <2>5. k /= 0
    BY <2>3, <2>4
  <2>6. k - 1 \in 0..Len(ids) /\ k \in 1..Len(ids) /\ ~(k <= k - 1)
    BY <1>0, <2>3, <2>5
  <2>7. kept[k - 1] \in Seq(CheckIDs) /\ ids[k] \in CheckIDs
    BY <1>0, <2>2, <2>6
  <2> QED BY <2>3, <2>4, <2>5, <2>7
<1>4. kept[Len(ids)] \in Seq(CheckIDs)
  BY <1>0, <1>3
<1> QED BY <1>1, <1>4
-----------------------------------------------------------------------------
\* What a channel shows of a state.
Shown(state) == IF state \in {"ABSENT", "UNKNOWN"} THEN "none" ELSE state

\* What a record leaves of the entry old: it never moves FailedSince back, and it
\* returns a transition just when the state that is shown changes.
Recorded(old, new, tr) ==
  /\ old.FailedSince <= new.FailedSince
  /\ new.FailedSince <= now
  /\ tr = NoTransition => Shown(new.State) = Shown(old.State)
  /\ tr /= NoTransition =>
       /\ new.State = tr.To
       /\ tr.To \in {"FIRING", "ESCALATED", "RESOLVED"}
       /\ tr.To = "FIRING" <=> old.State \notin FailingStates

\* RecordFail and RecordPass, whatever the entry they find.
LEMMA RecordEffect ==
  ASSUME NEW c \in CheckIDs, NEW tr \in Transitions,
         checks[Policy][c] \in CheckState, now \in Time,
         checks[Policy][c].FailedSince <= now,
         RecordFail(Policy, c, tr) \/ RecordPass(Policy, c, tr)
  PROVE  /\ UNCHANGED now
         /\ \E new \in CheckState :
              /\ checks' = [checks EXCEPT ![Policy][c] = new]
              /\ Recorded(checks[Policy][c], new, tr)
<1> DEFINE old == checks[Policy][c]
           cs == getOrCreate(Policy, c)
<1>0. MaxInt32 \in Nat /\ MaxTime \in Nat /\ now \in Nat
  BY StoreConstants DEF Time
<1>1. /\ cs \in CheckState /\ cs.FailedSince = old.FailedSince
      /\ cs.RetryCount = old.RetryCount
      /\ cs.State = IF old.State = "ABSENT" THEN "UNKNOWN" ELSE old.State
      /\ old.FailedSince \in Nat
  BY <1>0 DEF getOrCreate, CheckState, AlertState, Time
<1>2. \A n \in Int32 : Inc32(n) \in Int32
  BY <1>0 DEF Int32, Inc32
<1> HIDE DEF cs
<1>3. CASE FirstFail(Policy, c, tr) /\ UNCHANGED now
  <2> DEFINE new == [State |-> "FIRING", FailedSince |-> now, RetryCount |-> 0]
  <2>1. new \in CheckState
    BY <1>0 DEF CheckState, AlertState, Int32
  <2>2. checks' = [checks EXCEPT ![Policy][c] = new]
    BY <1>3 DEF FirstFail, Save
  <2>3. tr.To = "FIRING" /\ old.State \notin FailingStates
    BY <1>1, <1>3 DEF FirstFail, Transition, FailingStates, cs
  <2>4. Recorded(old, new, tr)
    BY <1>0, <1>1, <2>3 DEF Recorded, NoTransition, Transition
  <2> QED BY <1>3, <2>1, <2>2, <2>4
<1>4. CASE Escalate(Policy, c, tr) /\ UNCHANGED now
  <2> DEFINE new == [cs EXCEPT !.State = "ESCALATED", !.RetryCount = Inc32(@)]
  <2>1. /\ new \in CheckState /\ new.State = "ESCALATED"
        /\ new.FailedSince = old.FailedSince
    BY <1>1, <1>2 DEF CheckState, AlertState
  <2>2. checks' = [checks EXCEPT ![Policy][c] = new]
    BY <1>4 DEF Escalate, Save, cs
  <2>3. tr.To = "ESCALATED" /\ old.State \in FailingStates
    BY <1>1, <1>4 DEF Escalate, Transition, FailingStates, cs
  <2> HIDE DEF new
  <2>4. Recorded(old, new, tr)
    BY <1>0, <1>1, <2>1, <2>3 DEF Recorded, NoTransition, Transition
  <2> QED BY <1>4, <2>1, <2>2, <2>4
<1>5. CASE RepeatFail(Policy, c, tr) /\ UNCHANGED now
  <2> DEFINE new == [cs EXCEPT !.RetryCount = Inc32(@)]
  <2>1. /\ new \in CheckState /\ new.State = cs.State
        /\ new.FailedSince = old.FailedSince
    BY <1>1, <1>2 DEF CheckState, AlertState
  <2>2. checks' = [checks EXCEPT ![Policy][c] = new]
    BY <1>5 DEF RepeatFail, Save, cs
  <2>3. tr = NoTransition
    BY <1>5 DEF RepeatFail
  <2> HIDE DEF new
  <2>4. Recorded(old, new, tr)
    BY <1>0, <1>1, <2>1, <2>3 DEF Recorded, Shown
  <2> QED BY <1>5, <2>1, <2>2, <2>4
<1>6. CASE RecordPass(Policy, c, tr) /\ cs.State \in FailingStates
  <2> DEFINE new == [cs EXCEPT !.State = "RESOLVED", !.RetryCount = 0]
  <2>1. /\ new \in CheckState /\ new.State = "RESOLVED"
        /\ new.FailedSince = old.FailedSince
    <3>1. 0 \in Int32
      BY <1>0 DEF Int32
    <3> QED BY <1>1, <3>1 DEF CheckState, AlertState
  <2>2. /\ checks' = [checks EXCEPT ![Policy][c] = new] /\ UNCHANGED now
        /\ tr = Transition(cs.State, "RESOLVED")
    BY <1>6 DEF RecordPass, Save, cs
  <2>3. tr.To = "RESOLVED" /\ old.State \in FailingStates
    BY <1>1, <1>6, <2>2 DEF Transition, FailingStates
  <2> HIDE DEF new
  <2>4. Recorded(old, new, tr)
    BY <1>0, <1>1, <2>1, <2>3 DEF Recorded, NoTransition, Transition
  <2> QED BY <2>1, <2>2, <2>4
<1>7. CASE RecordPass(Policy, c, tr) /\ cs.State \notin FailingStates
  <2>1. checks' = [checks EXCEPT ![Policy][c] = cs] /\ UNCHANGED now /\ tr = NoTransition
    BY <1>7 DEF RecordPass, Save, cs
  <2>2. Recorded(old, cs, tr)
    BY <1>0, <1>1, <2>1 DEF Recorded, Shown
  <2> QED BY <1>1, <2>1, <2>2
<1> QED BY <1>3, <1>4, <1>5, <1>6, <1>7 DEF RecordFail
-----------------------------------------------------------------------------
\* The scan has a transition that is recorded and not yet dispatched.
Tells(x) == x.pc \in Telling /\ x.transition /= NoTransition

\* A scan that holds a transition is about to announce it.
LEMMA HoldingTells ==
  \A c : Holding(c) = {s \in Scans : Tells(scan[s]) /\ Head(scan[s].ids) = c}
BY DEF Holding, Tells, Telling

\* A step that neither brings nor sends news.
NoNews ==
  \A s \in Scans :
    /\ Tells(scan'[s]) <=> Tells(scan[s])
    /\ Tells(scan[s]) => /\ scan'[s].ids = scan[s].ids
                         /\ scan'[s].transition = scan[s].transition
                         /\ scan'[s].clean = scan[s].clean

\* The states shown stay.
StatesStay ==
  \A c \in CheckIDs : Shown(checks'[Policy][c].State) = Shown(checks[Policy][c].State)

\* A step without a new transition leaves the holders as they are.
LEMMA NoNewsHolding ==
  ASSUME NoNews
  PROVE  \A c : Holding(c)' = Holding(c)
<1>1. \A c : Holding(c)' = {s \in Scans : Tells(scan'[s]) /\ Head(scan'[s].ids) = c}
  BY DEF Holding, Tells, Telling
<1> QED BY <1>1, HoldingTells DEF NoNews

\* A transition on its way is one to a state that is shown.
LEMMA HeldTransition ==
  ASSUME Types, NEW c, NEW s \in Holding(c)
  PROVE  scan[s].transition.To \in AlertState \ {"UNKNOWN"}
<1>1. s \in Scans /\ scan[s].transition \in Transitions \ {NoTransition}
  BY HoldingTells DEF Types, ScanStates, Tells
<1>2. PICK from \in AlertState, to \in AlertState \ {"UNKNOWN"} :
        scan[s].transition = Transition(from, to)
  BY <1>1 DEF Transitions
<1> QED BY <1>2 DEF Transition

\* Without news, and while the states stay, the announcements stay in order.
LEMMA NoNewsKeeps ==
  ASSUME Types, Types', AlertsConserved, BoardShowsState, CleanIsCurrent,
         NoNews, StatesStay, UNCHANGED <<crashes, board, net, blurred>>
  PROVE  AlertsConserved' /\ BoardShowsState' /\ CleanIsCurrent'
<1>1. \A c \in CheckIDs :
        checks'[Policy][c].State \in FailingStates <=> checks[Policy][c].State \in FailingStates
  BY DEF StatesStay, Shown, FailingStates
<1>2. \A c \in CheckIDs : Holding(c)' = Holding(c)
  BY NoNewsHolding
<1>3. \A c : \A s \in Holding(c) :
        /\ s \in Scans
        /\ scan'[s].transition = scan[s].transition /\ scan'[s].clean = scan[s].clean
  BY HoldingTells DEF NoNews
<1>4. \A c \in CheckIDs : \A to : InFlight(c, to)' = InFlight(c, to)
  BY <1>2, <1>3 DEF InFlight
<1>5. AlertsConserved'
  BY <1>1, <1>4 DEF AlertsConserved
<1>6. BoardShowsState'
  BY <1>2 DEF BoardShowsState, StatesStay, Shown
<1>7. CleanIsCurrent'
  <2> SUFFICES ASSUME NEW c \in CheckIDs, NEW s \in Holding(c), scan[s].clean
               PROVE  /\ Holding(c) = {s}
                      /\ scan[s].transition.To = checks'[Policy][c].State
    BY <1>2, <1>3 DEF CleanIsCurrent
  <2>1. Holding(c) = {s} /\ scan[s].transition.To = checks[Policy][c].State
    BY DEF CleanIsCurrent
  <2>2. scan[s].transition.To \in AlertState \ {"UNKNOWN"}
    BY HeldTransition
  <2> QED BY <2>1, <2>2 DEF AlertState, StatesStay, Shown
<1> QED BY <1>5, <1>6, <1>7

\* A step after which the scans that report a failure, or are about to, are the same
\* as before or have read what the store has now, and no incident has begun earlier.
SinceStays ==
  /\ now <= now'
  /\ \A c \in CheckIDs :
       /\ checks[Policy][c].FailedSince <= checks'[Policy][c].FailedSince
       /\ checks'[Policy][c].FailedSince <= now'
  /\ \A s \in Scans : scan'[s].pc \in Telling =>
       \/ /\ scan'[s].pc = scan[s].pc /\ scan'[s].ids = scan[s].ids
          /\ scan'[s].verdicts = scan[s].verdicts
          /\ scan'[s].since = scan[s].since /\ scan'[s].failedSince = scan[s].failedSince
       \/ /\ scan'[s].pc = "readState"
          /\ scan'[s].since <= checks'[Policy][Head(scan'[s].ids)].FailedSince
       \/ /\ scan'[s].pc = "notify"
          /\ Head(scan'[s].verdicts) = "FAIL" =>
               scan'[s].failedSince \in scan'[s].since..now'

\* The check at hand is a check.
LEMMA HeadIsCheck ==
  ASSUME Types, NEW s \in Scans, scan[s].pc \in AtHand
  PROVE  /\ Head(scan[s].ids) \in CheckIDs /\ Head(scan[s].verdicts) \in Verdicts
         /\ Tail(scan[s].ids) \in Seq(CheckIDs) /\ Tail(scan[s].verdicts) \in Seq(Verdicts)
<1>1. /\ scan[s].ids \in Seq(CheckIDs) /\ scan[s].verdicts \in Seq(Verdicts)
      /\ scan[s].ids /= <<>> /\ Len(scan[s].verdicts) = Len(scan[s].ids)
  BY DEF Types, ScanStates, Matched
<1>2. scan[s].verdicts /= <<>>
  BY <1>1
<1> QED BY <1>1, <1>2

\* A step that moves no start of an incident back keeps SinceKept.
LEMMA SinceStaysKeeps ==
  ASSUME Types, Types', FailedSinceNotOlder, SinceKept, SinceStays
  PROVE  FailedSinceNotOlder' /\ SinceKept'
<1>0. now \in Nat /\ now' \in Nat /\ MaxTime \in Nat
  BY StoreConstants DEF Types, Time
<1>1. ASSUME NEW s \in Scans, scan'[s].pc = "notify", Head(scan'[s].verdicts) = "FAIL"
      PROVE  scan'[s].failedSince \in scan'[s].since..now'
  <2>1. CASE /\ scan[s].pc = "notify" /\ scan'[s].verdicts = scan[s].verdicts
             /\ scan'[s].since = scan[s].since /\ scan'[s].failedSince = scan[s].failedSince
    <3>1. scan[s].failedSince \in scan[s].since..now
      BY <1>1, <2>1 DEF FailedSinceNotOlder
    <3>2. scan[s].since \in Nat
      BY <1>0 DEF Types, ScanStates, Time
    <3> QED BY <1>0, <2>1, <3>1, <3>2 DEF SinceStays
  <2> QED BY <1>1, <2>1 DEF SinceStays, Telling
<1>2. ASSUME NEW s \in Scans, scan'[s].pc = "readState"
      PROVE  scan'[s].since <= checks'[Policy][Head(scan'[s].ids)].FailedSince
  <2>1. CASE /\ scan[s].pc = "readState" /\ scan'[s].ids = scan[s].ids
             /\ scan'[s].since = scan[s].since
    <3>1. Head(scan[s].ids) \in CheckIDs
      BY <2>1, HeadIsCheck DEF AtHand
    <3>2. scan[s].since <= checks[Policy][Head(scan[s].ids)].FailedSince
      BY <2>1 DEF SinceKept
    <3>3. /\ checks[Policy][Head(scan[s].ids)].FailedSince \in Nat
          /\ checks'[Policy][Head(scan[s].ids)].FailedSince \in Nat
          /\ scan[s].since \in Nat
      <4>1. \A c \in CheckIDs : /\ checks[Policy][c] \in CheckState
                                /\ checks'[Policy][c] \in CheckState
        BY SchedulerConstants DEF Types
      <4>2. scan[s] \in ScanStates
        BY DEF Types
      <4> QED BY <1>0, <3>1, <4>1, <4>2 DEF CheckState, ScanStates, Time
    <3> QED BY <2>1, <3>1, <3>2, <3>3 DEF SinceStays
  <2> QED BY <1>2, <2>1 DEF SinceStays, Telling
<1> QED BY <1>1, <1>2 DEF FailedSinceNotOlder, SinceKept, SinceStays

\* A step of the scans alone that keeps the scans with a check at hand as they are.
Aside ==
  /\ UNCHANGED <<checks, crashes, board, net, blurred>>
  /\ now' \in Time /\ now <= now'
  /\ spec'.checks \in Seq(CheckIDs)
  /\ scan' \in [Scans -> ScanStates]
  /\ \A s \in Scans :
       /\ Matched(scan'[s])
       /\ scan[s].pc \in Telling \/ scan'[s].pc \in Telling =>
            /\ scan'[s].pc = scan[s].pc /\ scan'[s].ids = scan[s].ids
            /\ scan'[s].verdicts = scan[s].verdicts
            /\ scan'[s].transition = scan[s].transition
            /\ scan'[s].clean = scan[s].clean
            /\ scan'[s].since = scan[s].since
            /\ scan'[s].failedSince = scan[s].failedSince

\* A step beside the store and the announcements.
LEMMA AsideKeeps ==
  ASSUME SchedulerInv, Aside, Handles'
  PROVE  SchedulerInv'
<1>0. now \in Nat /\ now' \in Nat /\ MaxTime \in Nat
  BY StoreConstants DEF SchedulerInv, Types, Aside, Time
<1>1. Types'
  BY DEF SchedulerInv, Types, Aside
<1>2. NoNews /\ StatesStay
  BY DEF Aside, NoNews, Tells, StatesStay
<1>3. SinceStays
  <2>1. \A c \in CheckIDs : /\ checks[Policy][c].FailedSince <= now
                            /\ checks[Policy][c].FailedSince \in Nat
    BY <1>0, SchedulerConstants DEF SchedulerInv, Types, SinceKept, CheckState, Time
  <2> QED BY <1>0, <2>1 DEF Aside, SinceStays
<1>4. AlertsConserved' /\ BoardShowsState' /\ CleanIsCurrent'
  BY <1>1, <1>2, NoNewsKeeps DEF SchedulerInv, Aside
<1>5. FailedSinceNotOlder' /\ SinceKept'
  BY <1>1, <1>3, SinceStaysKeeps DEF SchedulerInv
<1> QED BY <1>1, <1>4, <1>5 DEF SchedulerInv
-----------------------------------------------------------------------------
\* A scheduler that is not started has no checks.
LEMMA NoSpecType == NoSpec.checks \in Seq(CheckIDs)
BY DEF NoSpec

\* A goroutine that has not begun.
LEMMA IdleType == Idle \in ScanStates /\ Matched(Idle)
<1>1. 0 \in Time
  BY StoreConstants DEF Time
<1> QED BY <1>1 DEF Idle, ScanStates, Points, Transitions, Matched, AtHand

\* Nothing runs and nothing was announced.
LEMMA InitSchedulerInv == Init => SchedulerInv
<1> SUFFICES ASSUME Init PROVE SchedulerInv
  OBVIOUS
<1>0. 0 \in Time /\ MaxInt32 \in Nat
  BY StoreConstants DEF Time
<1>1. Absent \in CheckState
  BY <1>0 DEF Absent, CheckState, AlertState, Int32
<1>2. \A s \in Scans : scan[s] = Idle
  BY DEF Init
<1>3. \A c \in CheckIDs : checks[Policy][c] = Absent
  BY SchedulerConstants DEF Init, StoreInit
<1>4. \A c : Holding(c) = {}
  BY <1>2 DEF Holding, Idle
<1>5. \A c : \A to : InFlight(c, to) = 0
  BY <1>4, FS_EmptySet DEF InFlight
<1>6. Types
  BY <1>0, <1>1, IdleType, NoSpecType DEF Init, StoreInit, Types
<1>7. Handles
  BY <1>2 DEF Handles, Reached, Idle
<1>8. AlertsConserved
  BY <1>3, <1>5 DEF AlertsConserved, Init, Absent, FailingStates
<1>9. BoardShowsState /\ CleanIsCurrent
  BY <1>3, <1>4 DEF BoardShowsState, CleanIsCurrent, Init, Absent
<1>10. FailedSinceNotOlder /\ SinceKept
  BY <1>0, <1>2, <1>3 DEF FailedSinceNotOlder, SinceKept, Idle, Absent, Init, StoreInit
<1> QED BY <1>6, <1>7, <1>8, <1>9, <1>10 DEF SchedulerInv

\* A goroutine's fields as it goes on to a point where it has no check at hand.
LEMMA GotoType ==
  ASSUME NEW x \in ScanStates, NEW pc \in Points \ AtHand
  PROVE  /\ [x EXCEPT !.pc = pc] \in ScanStates /\ Matched([x EXCEPT !.pc = pc])
         /\ [x EXCEPT !.pc = pc].pc = pc
BY DEF ScanStates, Matched

\* One goroutine, without news before and after, takes a step of its own.
LEMMA OneAside ==
  ASSUME SchedulerInv, NEW s \in Scans, NEW x \in ScanStates, Matched(x),
         scan[s].pc \notin Telling, x.pc \notin Telling,
         scan' = [scan EXCEPT ![s] = x],
         UNCHANGED <<checks, now, spec, crashes, board, net, blurred>>
  PROVE  Aside /\ \A t \in Scans : scan'[t] = IF t = s THEN x ELSE scan[t]
<1>0. now \in Nat
  BY StoreConstants DEF SchedulerInv, Types, Time
<1>1. /\ scan' \in [Scans -> ScanStates]
      /\ \A t \in Scans : scan'[t] = IF t = s THEN x ELSE scan[t]
  BY DEF SchedulerInv, Types
<1> QED BY <1>0, <1>1 DEF Aside, SchedulerInv, Types

\* A goroutine is started.
LEMMA SpawnKeeps ==
  ASSUME SchedulerInv, NEW s \in Scans, NEW scanType \in {"FullScan", "Rescan"},
         NEW pc \in {"spawned", "verify"}, scan[s].pc = "idle",
         scan' = [scan EXCEPT ![s] = [Idle EXCEPT !.pc = pc, !.ids = spec.checks,
                                                  !.scanType = scanType]],
         UNCHANGED <<checks, now, spec, cancelFullScan, cancelRescan, crashes,
                     board, net, blurred>>
  PROVE  SchedulerInv'
<1> DEFINE x == [Idle EXCEPT !.pc = pc, !.ids = spec.checks, !.scanType = scanType]
<1>1. /\ x \in ScanStates /\ Matched(x) /\ x.pc = pc /\ x.tracked = FALSE
  BY IdleType DEF SchedulerInv, Types, ScanStates, Idle, Points, Matched, AtHand
<1> HIDE DEF x
<1>2. Aside /\ \A t \in Scans : scan'[t] = IF t = s THEN x ELSE scan[t]
  BY <1>1, OneAside DEF Telling, x
<1>3. Handles'
  BY <1>1, <1>2 DEF SchedulerInv, Handles, Reached
<1> QED BY <1>2, <1>3, AsideKeeps

\* A goroutine that has dispatched all it had ends.
LEMMA FinishKeeps ==
  ASSUME SchedulerInv, NEW s \in Scans, scan[s].pc \notin Telling, Finish(s),
         UNCHANGED <<checks, now, spec, crashes, board, net, blurred>>
  PROVE  SchedulerInv'
<1>1. Aside /\ \A t \in Scans : scan'[t] = IF t = s THEN Idle ELSE scan[t]
  <2>1. Idle.pc \notin Telling
    BY DEF Idle, Telling
  <2> QED BY <2>1, IdleType, OneAside DEF Finish
<1>2. Handles'
  <2>1. Idle.tracked = FALSE
    BY DEF Idle
  <2> QED BY <1>1, <2>1 DEF SchedulerInv, Handles, Reached, Finish, Forget
<1> QED BY <1>1, <1>2, AsideKeeps

\* A goroutine goes on to a point where it has no check at hand.
LEMMA GotoKeeps ==
  ASSUME SchedulerInv, NEW s \in Scans, NEW pc \in {"fetch", "update"},
         scan[s].pc \in {"create", "fetch"}, Goto(s, pc),
         UNCHANGED <<checks, now, spec, cancelFullScan, cancelRescan, crashes,
                     board, net, blurred>>
  PROVE  SchedulerInv'
<1> DEFINE x == [scan[s] EXCEPT !.pc = pc]
<1>0. scan \in [Scans -> ScanStates] /\ scan[s] \in ScanStates
  BY DEF SchedulerInv, Types
<1>1. /\ x \in ScanStates /\ Matched(x) /\ x.pc = pc
  BY <1>0, GotoType DEF Points, AtHand
<1>2. /\ x.tracked = scan[s].tracked /\ x.orphan = scan[s].orphan
      /\ x.cancelled = scan[s].cancelled /\ x.scanType = scan[s].scanType
  BY <1>0 DEF ScanStates
<1>3. scan' = [scan EXCEPT ![s] = x]
  BY <1>0 DEF Goto
<1> HIDE DEF x
<1>4. Aside /\ \A t \in Scans : scan'[t] = IF t = s THEN x ELSE scan[t]
  BY <1>1, <1>3, OneAside DEF Telling
<1>5. Handles'
  BY <1>1, <1>2, <1>4 DEF SchedulerInv, Handles, Reached
<1> QED BY <1>4, <1>5, AsideKeeps

\* Stop marks the goroutines it leaves behind and calls the cancel functions it has.
LEMMA StopKeeps ==
  ASSUME SchedulerInv, Stop
  PROVE  SchedulerInv'
<1> DEFINE y(s) == [scan[s] EXCEPT !.orphan = TRUE,
                      !.cancelled = @ \/ s \in {cancelFullScan, cancelRescan}]
<1>0. scan \in [Scans -> ScanStates] /\ now \in Nat
  BY StoreConstants DEF SchedulerInv, Types, Time
<1>1. ASSUME NEW s \in Scans
      PROVE  /\ y(s) \in ScanStates
             /\ y(s).orphan = TRUE /\ y(s).tracked = scan[s].tracked
             /\ y(s).cancelled = (scan[s].cancelled \/ s \in {cancelFullScan, cancelRescan})
             /\ y(s).pc = scan[s].pc /\ y(s).ids = scan[s].ids
             /\ y(s).verdicts = scan[s].verdicts /\ y(s).transition = scan[s].transition
             /\ y(s).clean = scan[s].clean /\ y(s).since = scan[s].since
             /\ y(s).failedSince = scan[s].failedSince
  <2>1. scan[s] \in ScanStates
    BY <1>0
  <2>2. (scan[s].cancelled \/ s \in {cancelFullScan, cancelRescan}) \in BOOLEAN
    OBVIOUS
  <2> QED BY <2>1, <2>2 DEF ScanStates
<1> HIDE DEF y
<1>2. /\ scan' \in [Scans -> ScanStates]
      /\ \A s \in Scans : scan'[s] = IF scan[s].pc = "idle" THEN scan[s] ELSE y(s)
  BY <1>0, <1>1 DEF Stop, y
<1>3. Aside
  <2>1. ASSUME NEW s \in Scans
        PROVE  /\ scan'[s].pc = scan[s].pc /\ scan'[s].ids = scan[s].ids
               /\ scan'[s].verdicts = scan[s].verdicts
               /\ scan'[s].transition = scan[s].transition
               /\ scan'[s].clean = scan[s].clean /\ scan'[s].since = scan[s].since
               /\ scan'[s].failedSince = scan[s].failedSince
    BY <1>1, <1>2
  <2>2. \A s \in Scans : Matched(scan'[s])
    BY <2>1 DEF SchedulerInv, Types, Matched
  <2>3. /\ UNCHANGED <<checks, crashes, board, net, blurred>> /\ now' \in Time
        /\ now <= now' /\ spec'.checks \in Seq(CheckIDs)
    <3>1. /\ checks' = checks /\ now' = now /\ crashes' = crashes /\ board' = board
          /\ net' = net /\ blurred' = blurred /\ spec' = NoSpec
      BY DEF Stop
    <3> QED BY <1>0, <3>1, NoSpecType DEF SchedulerInv, Types
  <2> QED BY <1>2, <2>1, <2>2, <2>3 DEF Aside
<1>4. Handles'
  <2> SUFFICES ASSUME NEW s \in Scans PROVE Reached(scan'[s], s, "none", "none")
    BY DEF Handles, Stop
  <2>1. Reached(scan[s], s, cancelFullScan, cancelRescan)
    BY DEF SchedulerInv, Handles
  <2>2. CASE scan[s].pc = "idle"
    BY <1>2, <2>1, <2>2 DEF Reached
  <2>3. CASE scan[s].pc /= "idle"
    BY <1>1, <1>2, <2>1, <2>3 DEF Reached
  <2> QED BY <2>2, <2>3
<1> QED BY <1>3, <1>4, AsideKeeps

\* A goroutine leaves its cancel function over the one that was there.
LEMMA RegisterKeeps ==
  ASSUME SchedulerInv, NEW s \in Scans, Register(s)
  PROVE  SchedulerInv'
<1> DEFINE full == scan[s].scanType = "FullScan"
           x == [scan[s] EXCEPT !.tracked = ~scan[s].orphan,
                                !.pc = IF full THEN "verify" ELSE "select"]
           y(t) == [scan[t] EXCEPT !.tracked = FALSE]
           over(t) == ~scan[s].orphan /\ t = IF full THEN cancelFullScan ELSE cancelRescan
<1>0. scan \in [Scans -> ScanStates] /\ now \in Nat /\ scan[s] \in ScanStates
  BY StoreConstants DEF SchedulerInv, Types, Time
<1>1. /\ x \in ScanStates /\ Matched(x) /\ x.pc \notin Telling /\ x.pc /= "idle"
      /\ x.tracked = ~scan[s].orphan /\ x.orphan = scan[s].orphan
      /\ x.scanType = scan[s].scanType
  <2>1. (~scan[s].orphan) \in BOOLEAN
    OBVIOUS
  <2> QED BY <1>0, <2>1 DEF ScanStates, Points, Matched, AtHand, Telling
<1>2. ASSUME NEW t \in Scans
      PROVE  /\ y(t) \in ScanStates /\ y(t).tracked = FALSE
             /\ y(t).pc = scan[t].pc /\ y(t).ids = scan[t].ids
             /\ y(t).verdicts = scan[t].verdicts /\ y(t).transition = scan[t].transition
             /\ y(t).clean = scan[t].clean /\ y(t).since = scan[t].since
             /\ y(t).failedSince = scan[t].failedSince
  BY <1>0 DEF ScanStates
<1> HIDE DEF x, y
<1>3. /\ scan' \in [Scans -> ScanStates]
      /\ \A t \in Scans :
           scan'[t] = IF t = s THEN x ELSE IF over(t) THEN y(t) ELSE scan[t]
  BY <1>0, <1>1, <1>2 DEF Register, x, y
<1>4. scan[s].pc \notin Telling
  BY DEF Register, Telling
<1>5. Aside
  <2>1. ASSUME NEW t \in Scans, t /= s
        PROVE  /\ scan'[t].pc = scan[t].pc /\ scan'[t].ids = scan[t].ids
               /\ scan'[t].verdicts = scan[t].verdicts
               /\ scan'[t].transition = scan[t].transition
               /\ scan'[t].clean = scan[t].clean /\ scan'[t].since = scan[t].since
               /\ scan'[t].failedSince = scan[t].failedSince
    BY <1>2, <1>3, <2>1
  <2>2. scan'[s] = x
    BY <1>3
  <2>3. ASSUME NEW t \in Scans PROVE Matched(scan'[t])
    <3>1. Matched(scan[t])
      BY DEF SchedulerInv, Types
    <3> QED BY <1>1, <2>1, <2>2, <3>1 DEF Matched
  <2>4. /\ UNCHANGED <<checks, crashes, board, net, blurred>> /\ now' \in Time
        /\ now <= now' /\ spec'.checks \in Seq(CheckIDs)
    <3>1. /\ checks' = checks /\ now' = now /\ crashes' = crashes /\ board' = board
          /\ net' = net /\ blurred' = blurred /\ spec' = spec
      BY DEF Register, noticeVars
    <3> QED BY <1>0, <3>1 DEF SchedulerInv, Types
  <2> QED BY <1>1, <1>3, <1>4, <2>1, <2>2, <2>3, <2>4 DEF Aside
<1>6. Handles'
  <2> SUFFICES ASSUME NEW t \in Scans
               PROVE  Reached(scan'[t], t, cancelFullScan', cancelRescan')
    BY DEF Handles
  <2>1. Reached(scan[t], t, cancelFullScan, cancelRescan)
    BY DEF SchedulerInv, Handles
  <2>2. /\ cancelFullScan' = IF full /\ ~scan[s].orphan THEN s ELSE cancelFullScan
        /\ cancelRescan' = IF ~full /\ ~scan[s].orphan THEN s ELSE cancelRescan
    BY <1>0 DEF Register, ScanStates
  <2>3. CASE t = s
    BY <1>1, <1>3, <2>2, <2>3 DEF Reached
  <2>4. CASE t /= s /\ over(t)
    BY <1>2, <1>3, <2>1, <2>4 DEF Reached
  <2>5. CASE t /= s /\ ~over(t)
    BY <1>3, <2>1, <2>2, <2>5 DEF Reached
  <2> QED BY <2>3, <2>4, <2>5
<1> QED BY <1>5, <1>6, AsideKeeps

\* A rescan takes up the failed checks, or ends.
LEMMA SelectFailedKeeps ==
  ASSUME SchedulerInv, NEW s \in Scans, SelectFailed(s)
  PROVE  SchedulerInv'
<1>0. /\ scan \in [Scans -> ScanStates] /\ scan[s] \in ScanStates
      /\ scan[s].pc = "select" /\ scan[s].pc \notin Telling
      /\ UNCHANGED <<checks, now, spec, crashes, board, net, blurred>>
  BY DEF SchedulerInv, Types, SelectFailed, Telling, noticeVars
<1>1. CASE Finish(s)
  BY <1>0, <1>1, FinishKeeps
<1>2. CASE /\ scan' = [scan EXCEPT ![s].pc = "verify",
                                   ![s].ids = Kept(@, FailedChecks(Policy))]
           /\ UNCHANGED handleVars
  <2> DEFINE x == [scan[s] EXCEPT !.pc = "verify",
                                  !.ids = Kept(scan[s].ids, FailedChecks(Policy))]
  <2>1. Kept(scan[s].ids, FailedChecks(Policy)) \in Seq(CheckIDs)
    <3>1. scan[s].ids \in Seq(CheckIDs)
      BY <1>0 DEF ScanStates
    <3> QED BY <3>1, KeptType
  <2>2. /\ x \in ScanStates /\ Matched(x) /\ x.pc = "verify"
        /\ x.tracked = scan[s].tracked /\ x.orphan = scan[s].orphan
        /\ x.cancelled = scan[s].cancelled /\ x.scanType = scan[s].scanType
    BY <1>0, <2>1 DEF ScanStates, Points, Matched, AtHand
  <2>3. scan' = [scan EXCEPT ![s] = x]
    BY <1>0, <1>2
  <2> HIDE DEF x
  <2>4. Aside /\ \A t \in Scans : scan'[t] = IF t = s THEN x ELSE scan[t]
    BY <1>0, <2>2, <2>3, OneAside DEF Telling
  <2>5. Handles'
    <3>1. cancelFullScan' = cancelFullScan /\ cancelRescan' = cancelRescan
      BY <1>2 DEF handleVars
    <3> QED BY <2>2, <2>4, <3>1 DEF SchedulerInv, Handles, Reached
  <2> QED BY <2>4, <2>5, AsideKeeps
<1> QED BY <1>1, <1>2 DEF SelectFailed

\* The verdicts arrive.
LEMMA RunChecksKeeps ==
  ASSUME SchedulerInv, NEW s \in Scans, RunChecks(s)
  PROVE  SchedulerInv'
<1>0. /\ scan \in [Scans -> ScanStates] /\ scan[s] \in ScanStates
      /\ scan[s].pc = "verify" /\ scan[s].pc \notin Telling
      /\ UNCHANGED <<checks, now, spec, cancelFullScan, cancelRescan, crashes, board,
                     net, blurred>>
  BY DEF SchedulerInv, Types, RunChecks, Telling, noticeVars, handleVars
<1>1. PICK verdicts \in [1..Len(scan[s].ids) -> Verdicts] :
        scan' = [scan EXCEPT ![s].verdicts = verdicts,
                             ![s].pc = IF scan[s].ids = <<>> THEN "create" ELSE "process"]
  BY DEF RunChecks
<1> DEFINE x == [scan[s] EXCEPT !.verdicts = verdicts,
                   !.pc = IF scan[s].ids = <<>> THEN "create" ELSE "process"]
<1>2. verdicts \in Seq(Verdicts) /\ Len(verdicts) = Len(scan[s].ids)
  <2>1. scan[s].ids \in Seq(CheckIDs) /\ Len(scan[s].ids) \in Nat
    BY <1>0 DEF ScanStates
  <2> QED BY <2>1
<1>3. /\ x \in ScanStates /\ x.ids = scan[s].ids /\ x.verdicts = verdicts
      /\ x.pc = (IF scan[s].ids = <<>> THEN "create" ELSE "process")
      /\ x.tracked = scan[s].tracked /\ x.orphan = scan[s].orphan
      /\ x.cancelled = scan[s].cancelled /\ x.scanType = scan[s].scanType
  BY <1>0, <1>2 DEF ScanStates, Points
<1>4. scan' = [scan EXCEPT ![s] = x]
  BY <1>0, <1>1
<1> HIDE DEF x
<1>5. Matched(x) /\ x.pc \notin Telling /\ x.pc /= "idle"
  BY <1>2, <1>3 DEF Matched, AtHand, Telling
<1>6. Aside /\ \A t \in Scans : scan'[t] = IF t = s THEN x ELSE scan[t]
  BY <1>0, <1>3, <1>4, <1>5, OneAside
<1>7. Handles'
  BY <1>0, <1>3, <1>5, <1>6 DEF SchedulerInv, Handles, Reached
<1> QED BY <1>6, <1>7, AsideKeeps

\* The status is written; other writers of the status will conflict.
LEMMA UpdateStatusKeeps ==
  ASSUME SchedulerInv, NEW s \in Scans, UpdateStatus(s)
  PROVE  SchedulerInv'
<1>0. /\ scan \in [Scans -> ScanStates] /\ now \in Nat
      /\ scan[s].pc = "update" /\ scan[s].pc \notin Telling
      /\ checks' = checks /\ now' = now /\ crashes' = crashes /\ board' = board
      /\ net' = net /\ blurred' = blurred /\ spec' = spec
  BY StoreConstants DEF SchedulerInv, Types, Time, UpdateStatus, Telling, noticeVars
<1>1. CASE scan' = [scan EXCEPT ![s] = Idle]
  <2>1. Finish(s)
    BY <1>1 DEF UpdateStatus, Finish
  <2> QED BY <1>0, <2>1, FinishKeeps
<1>2. CASE scan' = [t \in Scans |->
             IF t = s THEN Idle
             ELSE IF scan[t].pc = "update" THEN [scan[t] EXCEPT !.conflict = TRUE]
             ELSE scan[t]]
  <2> DEFINE y(t) == [scan[t] EXCEPT !.conflict = TRUE]
  <2>1. ASSUME NEW t \in Scans
        PROVE  /\ y(t) \in ScanStates /\ y(t).pc = scan[t].pc
               /\ y(t).tracked = scan[t].tracked /\ y(t).orphan = scan[t].orphan
               /\ y(t).cancelled = scan[t].cancelled /\ y(t).scanType = scan[t].scanType
    BY <1>0 DEF ScanStates
  <2> HIDE DEF y
  <2>2. /\ scan' \in [Scans -> ScanStates]
        /\ \A t \in Scans :
             scan'[t] = IF t = s THEN Idle ELSE IF scan[t].pc = "update" THEN y(t) ELSE scan[t]
    BY <1>0, <1>2, <2>1, IdleType DEF y
  <2>3. ASSUME NEW t \in Scans PROVE Matched(scan'[t])
    <3>1. Matched(scan[t])
      BY DEF SchedulerInv, Types
    <3> QED BY <2>1, <2>2, <3>1, IdleType DEF Matched, AtHand
  <2>4. Idle.pc = "idle" /\ Idle.tracked = FALSE
    BY DEF Idle
  <2>5. Aside
    <3>1. now' \in Time /\ spec'.checks \in Seq(CheckIDs) /\ now <= now'
      BY <1>0 DEF SchedulerInv, Types
    <3>2. \A t \in Scans : \/ scan'[t] = scan[t]
                           \/ scan[t].pc \notin Telling /\ scan'[t].pc \notin Telling
      BY <1>0, <2>1, <2>2, <2>4 DEF Telling
    <3> QED BY <1>0, <2>2, <2>3, <3>1, <3>2 DEF Aside
  <2>6. Handles'
    <3> SUFFICES ASSUME NEW t \in Scans
                 PROVE  Reached(scan'[t], t, cancelFullScan', cancelRescan')
      BY DEF Handles
    <3>1. Reached(scan[t], t, cancelFullScan, cancelRescan)
      BY DEF SchedulerInv, Handles
    <3>2. /\ cancelFullScan' = IF cancelFullScan = s THEN "none" ELSE cancelFullScan
          /\ cancelRescan' = IF cancelRescan = s THEN "none" ELSE cancelRescan
      BY DEF UpdateStatus, Forget
    <3> QED BY <2>1, <2>2, <2>4, <3>1, <3>2 DEF Reached
  <2> QED BY <2>5, <2>6, AsideKeeps
<1> QED BY <1>1, <1>2 DEF UpdateStatus
-----------------------------------------------------------------------------
\* The fields the cancel functions are about stay.
SameHandle(x, y) ==
  /\ y.tracked = x.tracked /\ y.orphan = x.orphan /\ y.cancelled = x.cancelled
  /\ y.scanType = x.scanType /\ (y.pc = "idle" <=> x.pc = "idle")

\* A step that leaves the handles alone.
LEMMA SameHandles ==
  ASSUME Handles, \A s \in Scans : SameHandle(scan[s], scan'[s]),
         UNCHANGED <<cancelFullScan, cancelRescan>>
  PROVE  Handles'
BY DEF Handles, SameHandle, Reached

\* The next check, or none.
LEMMA NextCheckType ==
  ASSUME NEW x \in ScanStates, Matched(x), x.pc \in AtHand
  PROVE  /\ NextCheck(x) \in ScanStates /\ Matched(NextCheck(x))
         /\ NextCheck(x).pc \in {"create", "process"} /\ SameHandle(x, NextCheck(x))
<1>1. /\ x.ids \in Seq(CheckIDs) /\ x.verdicts \in Seq(Verdicts)
      /\ x.ids /= <<>> /\ x.verdicts /= <<>> /\ Len(x.verdicts) = Len(x.ids)
  <2>1. /\ x.ids \in Seq(CheckIDs) /\ x.verdicts \in Seq(Verdicts)
        /\ x.ids /= <<>> /\ Len(x.verdicts) = Len(x.ids)
    BY DEF ScanStates, Matched
  <2> QED BY <2>1
<1>2. /\ Tail(x.ids) \in Seq(CheckIDs) /\ Tail(x.verdicts) \in Seq(Verdicts)
      /\ Len(Tail(x.ids)) = Len(x.ids) - 1 /\ Len(Tail(x.verdicts)) = Len(x.verdicts) - 1
  BY <1>1
<1>3. Len(x.ids) /= 1 => Tail(x.ids) /= <<>>
  <2>1. Len(x.ids) \in Nat /\ Len(x.ids) /= 0
    BY <1>1
  <2>2. Len(x.ids) /= 1 => Len(Tail(x.ids)) /= 0
    BY <1>2, <2>1
  <2> QED BY <1>2, <2>2
<1>4. 0 \in Time /\ NoTransition \in Transitions
  BY StoreConstants DEF Time, Transitions
<1>5. /\ NextCheck(x) \in ScanStates
      /\ NextCheck(x).ids = Tail(x.ids) /\ NextCheck(x).verdicts = Tail(x.verdicts)
      /\ NextCheck(x).pc = IF Len(x.ids) = 1 THEN "create" ELSE "process"
      /\ NextCheck(x).tracked = x.tracked /\ NextCheck(x).orphan = x.orphan
      /\ NextCheck(x).cancelled = x.cancelled /\ NextCheck(x).scanType = x.scanType
  BY <1>2, <1>4 DEF NextCheck, ScanStates, Points
<1> QED BY <1>1, <1>2, <1>3, <1>5 DEF Matched, AtHand, SameHandle

\* What the store has after a record of c.
LEMMA RecordedStore ==
  ASSUME SchedulerInv, NEW c \in CheckIDs, NEW new \in CheckState, NEW tr,
         checks' = [checks EXCEPT ![Policy][c] = new], UNCHANGED now,
         Recorded(checks[Policy][c], new, tr)
  PROVE  /\ checks' \in [Policies -> [CheckIDs -> CheckState]]
         /\ \A d \in CheckIDs : checks'[Policy][d] = IF d = c THEN new ELSE checks[Policy][d]
         /\ \A d \in CheckIDs :
              /\ checks[Policy][d].FailedSince <= checks'[Policy][d].FailedSince
              /\ checks'[Policy][d].FailedSince <= now'
<1>0. checks \in [Policies -> [CheckIDs -> CheckState]] /\ MaxTime \in Nat
  BY StoreConstants DEF SchedulerInv, Types
<1>1. /\ checks' \in [Policies -> [CheckIDs -> CheckState]]
      /\ \A d \in CheckIDs : checks'[Policy][d] = IF d = c THEN new ELSE checks[Policy][d]
  BY <1>0, SchedulerConstants
<1>2. \A d \in CheckIDs : checks[Policy][d].FailedSince \in Nat
  BY <1>0, SchedulerConstants DEF CheckState, Time
<1>3. ASSUME NEW d \in CheckIDs
      PROVE  /\ checks[Policy][d].FailedSince <= checks'[Policy][d].FailedSince
             /\ checks'[Policy][d].FailedSince <= now'
  <2>1. CASE d = c
    BY <1>1, <2>1 DEF Recorded
  <2>2. CASE d /= c
    BY <1>1, <1>2, <2>2 DEF SchedulerInv, SinceKept
  <2> QED BY <2>1, <2>2
<1> QED BY <1>1, <1>3

\* A record without a transition.
LEMMA QuietRecordKeeps ==
  ASSUME SchedulerInv, NEW s \in Scans, NEW c \in CheckIDs, NEW new \in CheckState,
         NEW x \in ScanStates, scan[s].pc = "process",
         Matched(x), ~Tells(x), SameHandle(scan[s], x), x.pc /= "notify",
         x.pc = "readState" => Head(x.ids) = c /\ x.since = new.FailedSince,
         checks' = [checks EXCEPT ![Policy][c] = new],
         Recorded(checks[Policy][c], new, NoTransition),
         scan' = [scan EXCEPT ![s] = x],
         UNCHANGED <<now, spec, cancelFullScan, cancelRescan, crashes, board, net, blurred>>
  PROVE  SchedulerInv'
<1>0. MaxTime \in Nat /\ now \in Nat
  BY StoreConstants DEF SchedulerInv, Types, Time
<1>1. /\ scan' \in [Scans -> ScanStates]
      /\ \A t \in Scans : scan'[t] = IF t = s THEN x ELSE scan[t]
  BY DEF SchedulerInv, Types
<1>2. /\ checks' \in [Policies -> [CheckIDs -> CheckState]]
      /\ \A d \in CheckIDs : checks'[Policy][d] = IF d = c THEN new ELSE checks[Policy][d]
      /\ \A d \in CheckIDs :
           /\ checks[Policy][d].FailedSince <= checks'[Policy][d].FailedSince
           /\ checks'[Policy][d].FailedSince <= now'
  BY RecordedStore
<1>3. Types'
  BY <1>1, <1>2 DEF SchedulerInv, Types
<1>4. Handles'
  BY <1>1, SameHandles DEF SchedulerInv, SameHandle
<1>5. NoNews
  BY <1>1 DEF NoNews, Tells, Telling
<1>6. StatesStay
  BY <1>2 DEF StatesStay, Recorded
<1>7. AlertsConserved' /\ BoardShowsState' /\ CleanIsCurrent'
  BY <1>3, <1>5, <1>6, NoNewsKeeps DEF SchedulerInv
<1>8. SinceStays
  <2>1. new.FailedSince \in Nat
    BY <1>0 DEF CheckState, Time
  <2>2. x.pc = "readState" => x.since <= checks'[Policy][Head(x.ids)].FailedSince
    BY <1>2, <2>1
  <2>3. \A t \in Scans : scan'[t].pc \in Telling =>
          \/ scan'[t] = scan[t]
          \/ /\ scan'[t].pc = "readState"
             /\ scan'[t].since <= checks'[Policy][Head(scan'[t].ids)].FailedSince
    BY <1>1, <2>2 DEF Telling
  <2> QED BY <1>0, <1>2, <2>3 DEF SinceStays
<1>9. FailedSinceNotOlder' /\ SinceKept'
  BY <1>3, <1>8, SinceStaysKeeps DEF SchedulerInv
<1> QED BY <1>3, <1>4, <1>7, <1>9 DEF SchedulerInv

\* A step of one scan that leaves the store and the channels alone.
LEMMA OneQuietKeeps ==
  ASSUME SchedulerInv, NEW s \in Scans, NEW x \in ScanStates,
         Matched(x), SameHandle(scan[s], x), Tells(x) <=> Tells(scan[s]),
         Tells(x) => /\ x.ids = scan[s].ids /\ x.transition = scan[s].transition
                     /\ x.clean = scan[s].clean,
         x.pc /= "readState",
         x.pc = "notify" => x.failedSince \in x.since..now,
         scan' = [scan EXCEPT ![s] = x],
         UNCHANGED <<checks, now, spec, cancelFullScan, cancelRescan, crashes, board,
                     net, blurred>>
  PROVE  SchedulerInv'
<1>0. MaxTime \in Nat /\ now \in Nat
  BY StoreConstants DEF SchedulerInv, Types, Time
<1>1. /\ scan' \in [Scans -> ScanStates]
      /\ \A t \in Scans : scan'[t] = IF t = s THEN x ELSE scan[t]
  BY DEF SchedulerInv, Types
<1>2. Types'
  BY <1>1 DEF SchedulerInv, Types
<1>3. Handles'
  BY <1>1, SameHandles DEF SchedulerInv, SameHandle
<1>4. NoNews /\ StatesStay
  BY <1>1 DEF NoNews, StatesStay
<1>5. AlertsConserved' /\ BoardShowsState' /\ CleanIsCurrent'
  BY <1>2, <1>4, NoNewsKeeps DEF SchedulerInv
<1>6. SinceStays
  <2>1. \A c \in CheckIDs : /\ checks[Policy][c].FailedSince \in Nat
                            /\ checks[Policy][c].FailedSince <= now
    BY <1>0, SchedulerConstants DEF SchedulerInv, Types, SinceKept, CheckState, Time
  <2>2. \A t \in Scans : scan'[t].pc \in Telling =>
          \/ scan'[t] = scan[t]
          \/ scan'[t].pc = "notify" /\ scan'[t].failedSince \in scan'[t].since..now'
    BY <1>1 DEF Telling
  <2> QED BY <1>0, <2>1, <2>2 DEF SinceStays
<1>7. FailedSinceNotOlder' /\ SinceKept'
  BY <1>2, <1>6, SinceStaysKeeps DEF SchedulerInv
<1> QED BY <1>2, <1>3, <1>5, <1>7 DEF SchedulerInv

\* What is on its way is finite in number.
LEMMA InFlightFinite ==
  ASSUME NEW c, NEW to
  PROVE  /\ IsFiniteSet({s \in Holding(c) : scan[s].transition.To = to})
         /\ InFlight(c, to) \in Nat
<1>1. {s \in Holding(c) : scan[s].transition.To = to} \subseteq Scans
  BY DEF Holding
<1>2. IsFiniteSet({s \in Holding(c) : scan[s].transition.To = to})
  BY <1>1, FS_Subset, SchedulerConstants
<1> QED BY <1>2, FS_CardinalityType DEF InFlight

\* A record with a transition: one more announcement is on its way.
LEMMA NewsKeeps ==
  ASSUME SchedulerInv, NEW s \in Scans, NEW c \in CheckIDs, NEW new \in CheckState,
         NEW x \in ScanStates, NEW tr \in Transitions, tr /= NoTransition,
         scan[s].pc = "process", Head(scan[s].ids) = c,
         x.pc \in Telling, x.ids = scan[s].ids, x.verdicts = scan[s].verdicts,
         x.transition = tr, x.clean = (Holding(c) = {}), SameHandle(scan[s], x),
         x.pc = "readState" => x.since = new.FailedSince,
         x.pc = "notify" => Head(x.verdicts) /= "FAIL",
         checks' = [checks EXCEPT ![Policy][c] = new],
         Recorded(checks[Policy][c], new, tr),
         scan' \in [Scans -> ScanStates],
         \A t \in Scans : scan'[t] = IF t = s THEN x
                                     ELSE IF t \in Holding(c)
                                     THEN [scan[t] EXCEPT !.clean = FALSE] ELSE scan[t],
         UNCHANGED <<now, spec, cancelFullScan, cancelRescan, crashes, board, net, blurred>>
  PROVE  SchedulerInv'
<1>0. MaxTime \in Nat /\ now \in Nat
  BY StoreConstants DEF SchedulerInv, Types, Time
<1>1. ASSUME NEW t \in Scans, t /= s
      PROVE  /\ SameHandle(scan[t], scan'[t])
             /\ scan'[t].pc = scan[t].pc /\ scan'[t].ids = scan[t].ids
             /\ scan'[t].verdicts = scan[t].verdicts
             /\ scan'[t].transition = scan[t].transition
             /\ scan'[t].since = scan[t].since /\ scan'[t].failedSince = scan[t].failedSince
             /\ scan'[t].clean = (t \notin Holding(c) /\ scan[t].clean)
  <2>1. scan[t] \in ScanStates
    BY DEF SchedulerInv, Types
  <2>2. CASE t \in Holding(c)
    BY <1>1, <2>1, <2>2 DEF ScanStates, SameHandle
  <2>3. CASE t \notin Holding(c)
    BY <1>1, <2>1, <2>3 DEF ScanStates, SameHandle
  <2> QED BY <2>2, <2>3
<1>2. scan'[s] = x
  OBVIOUS
<1>3. /\ checks' \in [Policies -> [CheckIDs -> CheckState]]
      /\ \A d \in CheckIDs : checks'[Policy][d] = IF d = c THEN new ELSE checks[Policy][d]
      /\ \A d \in CheckIDs :
           /\ checks[Policy][d].FailedSince <= checks'[Policy][d].FailedSince
           /\ checks'[Policy][d].FailedSince <= now'
  BY RecordedStore
<1>4. \A t \in Scans : Matched(scan'[t])
  <2>1. \A t \in Scans : Matched(scan[t])
    BY DEF SchedulerInv, Types
  <2>2. Matched(x)
    BY <2>1 DEF Matched, AtHand
  <2>3. ASSUME NEW t \in Scans, t /= s PROVE Matched(scan'[t])
    BY <1>1, <2>1, <2>3 DEF Matched
  <2> QED BY <1>2, <2>2, <2>3
<1>5. Types'
  BY <1>3, <1>4 DEF SchedulerInv, Types
<1>6. Handles'
  <2>1. \A t \in Scans : SameHandle(scan[t], scan'[t])
    BY <1>1, <1>2
  <2> QED BY <2>1, SameHandles DEF SchedulerInv
<1>7. s \notin Holding(c) /\ \A d : s \notin Holding(d)
  BY DEF Holding
<1>8. \A d : Holding(d)' = IF d = c THEN Holding(c) \cup {s} ELSE Holding(d)
  <2>1. \A d : Holding(d)' = {t \in Scans : Tells(scan'[t]) /\ Head(scan'[t].ids) = d}
    BY DEF Holding, Tells, Telling
  <2>2. \A t \in Scans : t /= s => (Tells(scan'[t]) <=> Tells(scan[t]))
    BY <1>1 DEF Tells
  <2>3. Tells(scan'[s]) /\ Head(scan'[s].ids) = c
    BY <1>2 DEF Tells
  <2>4. ASSUME NEW d
        PROVE  Holding(d)' = IF d = c THEN Holding(c) \cup {s} ELSE Holding(d)
    <3>1. Holding(d)' = {t \in Scans : Tells(scan'[t]) /\ Head(scan'[t].ids) = d}
      BY <2>1
    <3>2. Holding(d) = {t \in Scans : Tells(scan[t]) /\ Head(scan[t].ids) = d}
      BY HoldingTells
    <3>3. CASE d = c
      BY <1>1, <2>2, <2>3, <3>1, <3>2, <3>3
    <3>4. CASE d /= c
      BY <1>1, <1>7, <2>2, <2>3, <3>1, <3>2, <3>4
    <3> QED BY <3>3, <3>4
  <2> QED BY <2>4
<1>9. ASSUME NEW d, NEW to
      PROVE  InFlight(d, to)' = InFlight(d, to) + IF d = c /\ to = tr.To THEN 1 ELSE 0
  <2> DEFINE A == {t \in Holding(d) : scan[t].transition.To = to}
             B == {t \in Holding(d)' : scan'[t].transition.To = to}
  <2>1. \A t \in Holding(d) : scan'[t].transition = scan[t].transition
    BY <1>1, <1>7 DEF Holding
  <2>2. B = IF d = c /\ to = tr.To THEN A \cup {s} ELSE A
    BY <1>2, <1>8, <2>1
  <2>3. IsFiniteSet(A) /\ s \notin A /\ InFlight(d, to) = Cardinality(A)
    <3>1. IsFiniteSet(A)
      BY InFlightFinite
    <3>2. s \notin A
      BY <1>7
    <3>3. InFlight(d, to) = Cardinality(A)
      BY DEF InFlight
    <3> QED BY <3>1, <3>2, <3>3
  <2>4. InFlight(d, to)' = Cardinality(B) /\ Cardinality(A) \in Nat
    BY <2>3, FS_CardinalityType DEF InFlight
  <2> HIDE DEF A, B
  <2>5. Cardinality(A \cup {s}) = Cardinality(A) + 1
    BY <2>3, FS_AddElement
  <2> QED BY <2>2, <2>3, <2>4, <2>5
<1>10. AlertsConserved'
  <2> SUFFICES ASSUME crashes = 0, NEW d \in CheckIDs
               PROVE  net[d] + InFlight(d, "FIRING")' - InFlight(d, "RESOLVED")' =
                      IF checks'[Policy][d].State \in FailingStates THEN 1 ELSE 0
    BY DEF AlertsConserved
  <2>1. net[d] + InFlight(d, "FIRING") - InFlight(d, "RESOLVED") =
        IF checks[Policy][d].State \in FailingStates THEN 1 ELSE 0
    BY DEF SchedulerInv, AlertsConserved
  <2>2. net[d] \in Int /\ InFlight(d, "FIRING") \in Nat /\ InFlight(d, "RESOLVED") \in Nat
    BY InFlightFinite DEF SchedulerInv, Types
  <2>3. CASE d /= c
    BY <1>3, <1>9, <2>1, <2>2, <2>3
  <2>4. CASE d = c
    <3>1. /\ InFlight(d, "FIRING")' =
               InFlight(d, "FIRING") + IF tr.To = "FIRING" THEN 1 ELSE 0
          /\ InFlight(d, "RESOLVED")' =
               InFlight(d, "RESOLVED") + IF tr.To = "RESOLVED" THEN 1 ELSE 0
      BY <1>9, <2>4
    <3>2. checks'[Policy][d] = new
      BY <1>3, <2>4
    <3>3. /\ new.State = tr.To /\ tr.To \in {"FIRING", "ESCALATED", "RESOLVED"}
          /\ tr.To = "FIRING" <=> checks[Policy][d].State \notin FailingStates
      BY <2>4 DEF Recorded
    <3> QED BY <2>1, <2>2, <3>1, <3>2, <3>3 DEF FailingStates
  <2> QED BY <2>3, <2>4
<1>11. BoardShowsState'
  <2> SUFFICES ASSUME NEW d \in CheckIDs, Holding(d)' = {}, ~blurred[d], NEW ch \in Channels
               PROVE  board[ch][d] = IF checks'[Policy][d].State \in {"ABSENT", "UNKNOWN"}
                                     THEN "none" ELSE checks'[Policy][d].State
    BY DEF BoardShowsState
  <2>1. d /= c /\ Holding(d) = {}
    BY <1>8
  <2>2. checks'[Policy][d] = checks[Policy][d]
    BY <1>3, <2>1
  <2> QED BY <2>1, <2>2 DEF SchedulerInv, BoardShowsState
<1>12. CleanIsCurrent'
  <2> SUFFICES ASSUME NEW d \in CheckIDs, NEW t \in Holding(d)', scan'[t].clean
               PROVE  /\ Holding(d)' = {t}
                      /\ scan'[t].transition.To = checks'[Policy][d].State
    BY DEF CleanIsCurrent
  <2>1. CASE t = s
    <3>1. d = c /\ Holding(c) = {}
      BY <1>2, <1>7, <1>8, <2>1
    <3> QED BY <1>2, <1>3, <1>8, <2>1, <3>1 DEF Recorded
  <2>2. CASE t /= s
    <3>1. t \in Holding(d) /\ t \in Scans
      BY <1>8, <2>2 DEF Holding
    <3>2. t \notin Holding(c) /\ scan[t].clean
      BY <1>1, <2>2, <3>1
    <3>3. d /= c
      BY <3>1, <3>2
    <3> QED BY <1>1, <1>3, <1>8, <2>2, <3>1, <3>2, <3>3 DEF SchedulerInv, CleanIsCurrent
  <2> QED BY <2>1, <2>2
<1>13. SinceStays
  <2>1. new.FailedSince \in Nat
    BY <1>0 DEF CheckState, Time
  <2>2. x.pc = "readState" => x.since <= checks'[Policy][Head(x.ids)].FailedSince
    BY <1>3, <2>1
  <2> QED BY <1>0, <1>1, <1>2, <1>3, <2>2 DEF SinceStays, Telling
<1>14. FailedSinceNotOlder' /\ SinceKept'
  BY <1>5, <1>13, SinceStaysKeeps DEF SchedulerInv
<1> QED BY <1>5, <1>6, <1>10, <1>11, <1>12, <1>14 DEF SchedulerInv

\* processResults records the verdict of the check at hand.
LEMMA RecordKeeps ==
  ASSUME SchedulerInv, NEW s \in Scans, Record(s)
  PROVE  SchedulerInv'
<1> DEFINE c == Head(scan[s].ids)
<1>0. /\ Types /\ scan \in [Scans -> ScanStates] /\ scan[s] \in ScanStates
      /\ Matched(scan[s]) /\ scan[s].pc = "process" /\ scan[s].pc \in AtHand
      /\ spec' = spec /\ cancelFullScan' = cancelFullScan /\ cancelRescan' = cancelRescan
      /\ crashes' = crashes /\ board' = board /\ net' = net /\ blurred' = blurred
  BY DEF SchedulerInv, Types, Record, AtHand, handleVars, noticeVars
<1>1. c \in CheckIDs
  BY <1>0, HeadIsCheck
<1>2. /\ NextCheck(scan[s]) \in ScanStates /\ Matched(NextCheck(scan[s]))
      /\ NextCheck(scan[s]).pc \in {"create", "process"}
      /\ SameHandle(scan[s], NextCheck(scan[s])) /\ ~Tells(NextCheck(scan[s]))
  BY <1>0, NextCheckType DEF Tells, Telling
<1>3. CASE scan' = [scan EXCEPT ![s] = NextCheck(@)] /\ UNCHANGED storeVars
  <2>1. /\ scan' = [scan EXCEPT ![s] = NextCheck(scan[s])]
        /\ checks' = checks /\ now' = now /\ ~Tells(scan[s])
    BY <1>0, <1>3 DEF storeVars, Tells, Telling
  <2> QED BY <1>0, <1>2, <2>1, OneQuietKeeps
<1>4. ASSUME NEW tr \in Transitions, NEW pc \in {"readState", "notify"},
             RecordFail(Policy, c, tr) \/ RecordPass(Policy, c, tr), Hold(s, c, tr, pc),
             pc = "notify" => Head(scan[s].verdicts) /= "FAIL"
      PROVE  SchedulerInv'
  <2>0. /\ checks[Policy][c] \in CheckState /\ now \in Time
        /\ checks[Policy][c].FailedSince <= now
    BY <1>0, <1>1, SchedulerConstants DEF Types, SchedulerInv, SinceKept
  <2> HIDE DEF c
  <2>1. now' = now
    BY <1>1, <1>4, <2>0, RecordEffect
  <2>2. PICK new \in CheckState : /\ checks' = [checks EXCEPT ![Policy][c] = new]
                                  /\ Recorded(checks[Policy][c], new, tr)
    BY <1>1, <1>4, <2>0, RecordEffect
  <2>3. checks'[Policy][c] = new
    BY <1>0, <1>1, <2>2, SchedulerConstants DEF Types
  <2>4. new.FailedSince \in Time /\ 0 \in Time
    BY StoreConstants DEF CheckState, Time
  <2>5. Holding(c) \ {s} = Holding(c)
    BY <1>0 DEF Holding
  <2> DEFINE x == [scan[s] EXCEPT !.pc = pc, !.transition = tr,
                     !.clean = tr = NoTransition \/ Holding(c) = {},
                     !.since = IF pc = "readState" THEN new.FailedSince ELSE 0]
  <2>6. /\ x \in ScanStates /\ x.pc = pc /\ x.transition = tr
        /\ x.ids = scan[s].ids /\ x.verdicts = scan[s].verdicts
        /\ x.clean = (tr = NoTransition \/ Holding(c) = {})
        /\ x.since = (IF pc = "readState" THEN new.FailedSince ELSE 0)
        /\ SameHandle(scan[s], x)
    <3>1. (tr = NoTransition \/ Holding(c) = {}) \in BOOLEAN
      OBVIOUS
    <3> QED BY <1>0, <2>4, <3>1 DEF ScanStates, Points, SameHandle
  <2>7. Matched(x)
    <3> HIDE DEF x
    <3> QED BY <1>0, <2>6 DEF Matched, AtHand
  <2> HIDE DEF x
  <2>8. CASE tr = NoTransition
    <3> DEFINE y == IF pc = "notify" THEN NextCheck(scan[s]) ELSE x
    <3>1. scan' = [scan EXCEPT ![s] = y]
      <4>1. scan' = [t \in Scans |-> IF t = s THEN y ELSE scan[t]]
        BY <1>4, <2>3, <2>5, <2>8 DEF Hold, x
      <4> HIDE DEF y
      <4> QED BY <1>0, <4>1
    <3>2. /\ y \in ScanStates /\ Matched(y) /\ ~Tells(y) /\ SameHandle(scan[s], y)
          /\ y.pc /= "notify"
          /\ y.pc = "readState" => Head(y.ids) = c /\ y.since = new.FailedSince
      BY <1>2, <2>6, <2>7, <2>8 DEF Tells, c
    <3> HIDE DEF y
    <3>3. Recorded(checks[Policy][c], new, NoTransition)
      BY <2>2, <2>8
    <3> QED BY <1>0, <1>1, <2>1, <2>2, <3>1, <3>2, <3>3, QuietRecordKeeps
  <2>9. CASE tr /= NoTransition
    <3>1. \A t \in Scans : scan'[t] = IF t = s THEN x
                                      ELSE IF t \in Holding(c)
                                      THEN [scan[t] EXCEPT !.clean = FALSE] ELSE scan[t]
      BY <1>4, <2>3, <2>5, <2>9 DEF Hold, x
    <3>2. scan' \in [Scans -> ScanStates]
      <4>1. \A t \in Scans : [scan[t] EXCEPT !.clean = FALSE] \in ScanStates
        BY <1>0 DEF ScanStates
      <4>2. scan' = [t \in Scans |-> scan'[t]]
        BY <1>4 DEF Hold
      <4> QED BY <1>0, <2>6, <3>1, <4>1, <4>2
    <3>3. x.clean = (Holding(c) = {}) /\ x.pc \in Telling /\ Head(scan[s].ids) = c
      BY <2>6, <2>9 DEF Telling, c
    <3>4. /\ x.pc = "readState" => x.since = new.FailedSince
          /\ x.pc = "notify" => Head(x.verdicts) /= "FAIL"
      BY <1>4, <2>6
    <3> QED BY <1>0, <1>1, <2>1, <2>2, <2>6, <2>9, <3>1, <3>2, <3>3, <3>4, NewsKeeps
  <2> QED BY <2>8, <2>9
<1>5. CASE /\ Head(scan[s].verdicts) = "FAIL"
           /\ \E tr \in Transitions : /\ RecordFail(Policy, c, tr)
                                      /\ Hold(s, c, tr, "readState")
  BY <1>4, <1>5
<1>6. CASE /\ Head(scan[s].verdicts) = "PASS"
           /\ \E tr \in Transitions : /\ RecordPass(Policy, c, tr)
                                      /\ Hold(s, c, tr, "notify")
  BY <1>4, <1>6
<1> QED BY <1>3, <1>5, <1>6 DEF Record

\* processResults reads FailedSince back.
LEMMA ReadStateKeeps ==
  ASSUME SchedulerInv, NEW s \in Scans, ReadState(s)
  PROVE  SchedulerInv'
<1> DEFINE c == Head(scan[s].ids)
           x == [scan[s] EXCEPT !.failedSince = checks[Policy][c].FailedSince,
                                !.pc = "notify"]
<1>0. /\ Types /\ scan \in [Scans -> ScanStates] /\ scan[s] \in ScanStates
      /\ Matched(scan[s]) /\ scan[s].pc = "readState" /\ scan[s].pc \in AtHand
      /\ spec' = spec /\ cancelFullScan' = cancelFullScan /\ cancelRescan' = cancelRescan
      /\ crashes' = crashes /\ board' = board /\ net' = net /\ blurred' = blurred
      /\ checks' = checks /\ now' = now
  BY DEF SchedulerInv, Types, ReadState, AtHand, handleVars, noticeVars
<1>1. c \in CheckIDs
  BY <1>0, HeadIsCheck
<1>2. /\ checks[Policy][c] \in CheckState /\ checks[Policy][c].FailedSince \in Time
      /\ checks[Policy][c].FailedSince <= now /\ scan[s].since <= checks[Policy][c].FailedSince
  BY <1>0, <1>1, SchedulerConstants DEF Types, CheckState, SchedulerInv, SinceKept
<1>3. scan' = [scan EXCEPT ![s] = x]
  BY DEF ReadState, GetState
<1>4. /\ x \in ScanStates /\ x.pc = "notify" /\ x.ids = scan[s].ids
      /\ x.verdicts = scan[s].verdicts /\ x.transition = scan[s].transition
      /\ x.clean = scan[s].clean /\ x.since = scan[s].since
      /\ x.failedSince = checks[Policy][c].FailedSince /\ SameHandle(scan[s], x)
  BY <1>0, <1>2 DEF ScanStates, Points, SameHandle
<1> HIDE DEF x, c
<1>5. x.failedSince \in x.since..now
  <2>1. now \in Nat /\ scan[s].since \in Nat /\ checks[Policy][c].FailedSince \in Nat
    BY <1>0, <1>2, StoreConstants DEF Types, ScanStates, Time
  <2> QED BY <1>2, <1>4, <2>1
<1>6. Matched(x) /\ (Tells(x) <=> Tells(scan[s]))
  BY <1>0, <1>4 DEF Matched, AtHand, Tells, Telling
<1> QED BY <1>0, <1>3, <1>4, <1>5, <1>6, OneQuietKeeps

\* Dispatch of a transition: one announcement less is on its way.
LEMMA NewsSentKeeps ==
  ASSUME SchedulerInv, NEW s \in Scans, NEW c \in CheckIDs, NEW x \in ScanStates,
         scan[s].pc = "notify", Head(scan[s].ids) = c, scan[s].transition /= NoTransition,
         Matched(x), x.pc \in {"create", "process"}, SameHandle(scan[s], x),
         scan' = [scan EXCEPT ![s] = x], NEW delivered \in SUBSET Channels,
         Send(delivered, c, scan[s].transition.To),
         blurred' = [blurred EXCEPT ![c] = ~scan[s].clean \/ delivered /= Channels],
         net' = [net EXCEPT ![c] = @ + (IF scan[s].transition.To = "FIRING" THEN 1
                                ELSE IF scan[s].transition.To = "RESOLVED" THEN -1 ELSE 0)],
         UNCHANGED <<checks, now, spec, cancelFullScan, cancelRescan, crashes>>
  PROVE  SchedulerInv'
<1> DEFINE to == scan[s].transition.To
<1>0. MaxTime \in Nat /\ now \in Nat /\ Types
  BY StoreConstants DEF SchedulerInv, Types, Time
<1>1. /\ scan' \in [Scans -> ScanStates]
      /\ \A t \in Scans : scan'[t] = IF t = s THEN x ELSE scan[t]
  BY <1>0 DEF Types
<1>2. s \in Holding(c) /\ \A d : d /= c => s \notin Holding(d)
  BY DEF Holding
<1>3. to \in AlertState \ {"UNKNOWN"}
  BY <1>0, <1>2, HeldTransition
<1> HIDE DEF to
<1>4. /\ board' \in [Channels -> [CheckIDs -> {"none"} \cup AlertState]]
      /\ \A ch \in Channels, d \in CheckIDs :
           board'[ch][d] = IF ch \in delivered /\ d = c THEN to ELSE board[ch][d]
  <2>1. board' = [ch \in Channels |->
              IF ch \in delivered THEN [board[ch] EXCEPT ![c] = to] ELSE board[ch]]
    BY DEF Send, to
  <2> QED BY <1>0, <1>3, <2>1 DEF Types
<1>5. /\ net' \in [CheckIDs -> Int]
      /\ \A d \in CheckIDs :
           net'[d] = net[d] + IF d = c /\ to = "FIRING" THEN 1
                              ELSE IF d = c /\ to = "RESOLVED" THEN -1 ELSE 0
  BY <1>0 DEF Types, to
<1>6. /\ blurred' \in [CheckIDs -> BOOLEAN]
      /\ \A d \in CheckIDs :
           blurred'[d] = IF d = c THEN ~scan[s].clean \/ delivered /= Channels
                         ELSE blurred[d]
  <2>1. (~scan[s].clean \/ delivered /= Channels) \in BOOLEAN
    OBVIOUS
  <2> QED BY <1>0, <2>1 DEF Types
<1>7. Types'
  BY <1>0, <1>1, <1>4, <1>5, <1>6 DEF Types
<1>8. Handles'
  BY <1>1, SameHandles DEF SchedulerInv, SameHandle
<1>9. \A d : Holding(d)' = Holding(d) \ {s}
  <2>1. \A d : Holding(d)' = {t \in Scans : Tells(scan'[t]) /\ Head(scan'[t].ids) = d}
    BY DEF Holding, Tells, Telling
  <2>2. ~Tells(x)
    BY DEF Tells, Telling
  <2>3. ASSUME NEW d PROVE Holding(d)' = Holding(d) \ {s}
    <3>1. Holding(d)' = {t \in Scans : Tells(scan'[t]) /\ Head(scan'[t].ids) = d}
      BY <2>1
    <3>2. Holding(d) = {t \in Scans : Tells(scan[t]) /\ Head(scan[t].ids) = d}
      BY HoldingTells
    <3> QED BY <1>1, <2>2, <3>1, <3>2
  <2> QED BY <2>3
<1>10. ASSUME NEW d, NEW state
       PROVE  InFlight(d, state)' = InFlight(d, state) - IF d = c /\ state = to THEN 1 ELSE 0
  <2> DEFINE A == {t \in Holding(d) : scan[t].transition.To = state}
             B == {t \in Holding(d)' : scan'[t].transition.To = state}
  <2>1. \A t \in Holding(d) \ {s} : scan'[t] = scan[t]
    BY <1>1 DEF Holding
  <2>2. B = A \ {s}
    BY <1>9, <2>1
  <2>3. s \in A <=> d = c /\ state = to
    BY <1>2 DEF to
  <2>4. IsFiniteSet(A)
    BY InFlightFinite
  <2>5. InFlight(d, state) = Cardinality(A) /\ InFlight(d, state)' = Cardinality(B)
    BY DEF InFlight
  <2> HIDE DEF A, B
  <2>6. Cardinality(A \ {s}) = IF s \in A THEN Cardinality(A) - 1 ELSE Cardinality(A)
    BY <2>4, FS_RemoveElement
  <2>7. Cardinality(A) \in Nat
    BY <2>4, FS_CardinalityType
  <2> QED BY <2>2, <2>3, <2>5, <2>6, <2>7
<1>11. AlertsConserved'
  <2> SUFFICES ASSUME crashes = 0, NEW d \in CheckIDs
               PROVE  net'[d] + InFlight(d, "FIRING")' - InFlight(d, "RESOLVED")' =
                      IF checks[Policy][d].State \in FailingStates THEN 1 ELSE 0
    BY DEF AlertsConserved
  <2>1. net[d] + InFlight(d, "FIRING") - InFlight(d, "RESOLVED") =
        IF checks[Policy][d].State \in FailingStates THEN 1 ELSE 0
    BY DEF SchedulerInv, AlertsConserved
  <2>2. net[d] \in Int /\ InFlight(d, "FIRING") \in Nat /\ InFlight(d, "RESOLVED") \in Nat
    BY <1>0, InFlightFinite DEF Types
  <2>3. /\ InFlight(d, "FIRING")' =
             InFlight(d, "FIRING") - IF d = c /\ to = "FIRING" THEN 1 ELSE 0
        /\ InFlight(d, "RESOLVED")' =
             InFlight(d, "RESOLVED") - IF d = c /\ to = "RESOLVED" THEN 1 ELSE 0
    BY <1>10
  <2>4. net'[d] = net[d] + IF d = c /\ to = "FIRING" THEN 1
                           ELSE IF d = c /\ to = "RESOLVED" THEN -1 ELSE 0
    BY <1>5
  <2> QED BY <2>1, <2>2, <2>3, <2>4
<1>12. BoardShowsState'
  <2> SUFFICES ASSUME NEW d \in CheckIDs, Holding(d)' = {}, ~blurred'[d], NEW ch \in Channels
               PROVE  board'[ch][d] = IF checks[Policy][d].State \in {"ABSENT", "UNKNOWN"}
                                      THEN "none" ELSE checks[Policy][d].State
    BY DEF BoardShowsState
  <2>1. CASE d = c
    <3>1. scan[s].clean /\ delivered = Channels
      BY <1>6, <2>1
    <3>2. to = checks[Policy][c].State
      BY <1>2, <3>1 DEF SchedulerInv, CleanIsCurrent, to
    <3>3. board'[ch][d] = to
      BY <1>4, <2>1, <3>1
    <3> QED BY <1>3, <2>1, <3>2, <3>3 DEF AlertState
  <2>2. CASE d /= c
    <3>1. Holding(d) = {} /\ ~blurred[d] /\ board'[ch][d] = board[ch][d]
      BY <1>2, <1>4, <1>6, <1>9, <2>2
    <3> QED BY <3>1 DEF SchedulerInv, BoardShowsState
  <2> QED BY <2>1, <2>2
<1>13. CleanIsCurrent'
  <2> SUFFICES ASSUME NEW d \in CheckIDs, NEW t \in Holding(d)', scan'[t].clean
               PROVE  /\ Holding(d)' = {t}
                      /\ scan'[t].transition.To = checks[Policy][d].State
    BY DEF CleanIsCurrent
  <2>1. t \in Holding(d) /\ t /= s /\ scan'[t] = scan[t]
    BY <1>1, <1>9 DEF Holding
  <2>2. Holding(d) = {t} /\ scan[t].transition.To = checks[Policy][d].State
    BY <2>1 DEF SchedulerInv, CleanIsCurrent
  <2> QED BY <1>9, <2>1, <2>2
<1>14. SinceStays
  <2>1. \A d \in CheckIDs : /\ checks[Policy][d].FailedSince \in Nat
                            /\ checks[Policy][d].FailedSince <= now
    BY <1>0, SchedulerConstants DEF SchedulerInv, Types, SinceKept, CheckState, Time
  <2>2. \A t \in Scans : scan'[t].pc \in Telling => scan'[t] = scan[t]
    BY <1>1 DEF Telling
  <2> QED BY <1>0, <2>1, <2>2 DEF SinceStays
<1>15. FailedSinceNotOlder' /\ SinceKept'
  BY <1>7, <1>14, SinceStaysKeeps DEF SchedulerInv
<1> QED BY <1>7, <1>8, <1>11, <1>12, <1>13, <1>15 DEF SchedulerInv

\* Dispatch, with or without something to say.
LEMMA DispatchKeeps ==
  ASSUME SchedulerInv, NEW s \in Scans, Dispatch(s)
  PROVE  SchedulerInv'
<1>0. /\ Types /\ scan \in [Scans -> ScanStates] /\ scan[s] \in ScanStates
      /\ Matched(scan[s]) /\ scan[s].pc = "notify" /\ scan[s].pc \in AtHand
      /\ spec' = spec /\ cancelFullScan' = cancelFullScan /\ cancelRescan' = cancelRescan
      /\ crashes' = crashes /\ checks' = checks /\ now' = now
  BY DEF SchedulerInv, Types, Dispatch, AtHand, handleVars
<1>1. Head(scan[s].ids) \in CheckIDs
  BY <1>0, HeadIsCheck
<1>2. /\ NextCheck(scan[s]) \in ScanStates /\ Matched(NextCheck(scan[s]))
      /\ NextCheck(scan[s]).pc \in {"create", "process"}
      /\ SameHandle(scan[s], NextCheck(scan[s])) /\ ~Tells(NextCheck(scan[s]))
  BY <1>0, NextCheckType DEF Tells, Telling
<1>3. scan' = [scan EXCEPT ![s] = NextCheck(scan[s])]
  BY <1>0 DEF Dispatch
<1>4. CASE scan[s].transition = NoTransition
  <2>1. board' = board /\ net' = net /\ blurred' = blurred /\ ~Tells(scan[s])
    BY <1>4 DEF Dispatch, noticeVars, Tells
  <2> QED BY <1>0, <1>2, <1>3, <2>1, OneQuietKeeps
<1>5. CASE scan[s].transition /= NoTransition
  <2>1. PICK delivered \in SUBSET Channels :
          /\ Send(delivered, Head(scan[s].ids), scan[s].transition.To)
          /\ blurred' = [blurred EXCEPT ![Head(scan[s].ids)] =
                           ~scan[s].clean \/ delivered /= Channels]
    BY <1>5 DEF Dispatch
  <2>2. net' = [net EXCEPT ![Head(scan[s].ids)] = @ +
                  (IF scan[s].transition.To = "FIRING" THEN 1
                   ELSE IF scan[s].transition.To = "RESOLVED" THEN -1 ELSE 0)]
    BY <1>5 DEF Dispatch
  <2> QED BY <1>0, <1>1, <1>2, <1>3, <1>5, <2>1, <2>2, NewsSentKeeps
<1> QED BY <1>4, <1>5

\* A restart loses the scans, the store and the handles; nothing is on its way.
LEMMA CrashKeeps ==
  ASSUME SchedulerInv, Crash
  PROVE  SchedulerInv'
<1>0. 0 \in Time /\ MaxInt32 \in Nat /\ crashes \in Nat /\ now \in Nat
  BY StoreConstants DEF Time, SchedulerInv, Types
<1>1. Absent \in CheckState
  BY <1>0 DEF Absent, CheckState, AlertState, Int32
<1>2. \A s \in Scans : scan'[s] = Idle
  BY DEF Crash
<1>3. \A c \in CheckIDs : checks'[Policy][c] = Absent
  BY SchedulerConstants DEF Crash
<1>4. \A c : Holding(c)' = {}
  BY <1>2 DEF Holding, Idle
<1>5. Types'
  BY <1>0, <1>1, IdleType, NoSpecType DEF Crash, SchedulerInv, Types
<1>6. Handles'
  BY <1>2 DEF Handles, Reached, Idle
<1>7. AlertsConserved'
  <2>1. crashes' /= 0
    BY <1>0 DEF Crash
  <2> QED BY <2>1 DEF AlertsConserved
<1>8. BoardShowsState' /\ CleanIsCurrent'
  BY <1>4 DEF BoardShowsState, CleanIsCurrent, Crash
<1>9. FailedSinceNotOlder' /\ SinceKept'
  BY <1>0, <1>2, <1>3 DEF FailedSinceNotOlder, SinceKept, Idle, Absent, Crash
<1> QED BY <1>5, <1>6, <1>7, <1>8, <1>9 DEF SchedulerInv

\* The steps that touch neither the scans nor what they share.
LEMMA OtherStepsKeep ==
  ASSUME SchedulerInv, Start \/ Second \/ UNCHANGED vars
  PROVE  SchedulerInv'
<1>0. now \in Nat /\ MaxTime \in Nat /\ Types
  BY StoreConstants DEF SchedulerInv, Types, Time
<1>1. /\ UNCHANGED <<checks, crashes, board, net, blurred, scan, cancelFullScan, cancelRescan>>
  BY DEF Start, Second, Tick, vars, handleVars, noticeVars
<1>2. spec'.checks \in Seq(CheckIDs) /\ now' \in Time /\ now <= now'
  BY <1>0, SchedulerConstants DEF Start, Second, Tick, vars, Types, Time
<1>3. Aside
  BY <1>0, <1>1, <1>2 DEF Aside, Types
<1>4. Handles'
  BY <1>1 DEF SchedulerInv, Handles
<1> QED BY <1>3, <1>4, AsideKeeps

\* Every step keeps the invariant.
LEMMA StepKeeps == SchedulerInv /\ [Next]_vars => SchedulerInv'
<1> SUFFICES ASSUME SchedulerInv, [Next]_vars PROVE SchedulerInv'
  OBVIOUS
<1>1. ASSUME NEW s \in Scans, NEW scanType \in {"FullScan", "Rescan"}, Fire(s, scanType)
      PROVE  SchedulerInv'
  BY <1>1, SpawnKeeps DEF Fire, handleVars, noticeVars
<1>2. ASSUME NEW s \in Scans, TriggerFullScan(s) PROVE SchedulerInv'
  <2>1. [Idle EXCEPT !.pc = "verify", !.ids = spec.checks]
          = [Idle EXCEPT !.pc = "verify", !.ids = spec.checks, !.scanType = "FullScan"]
    <3> DEFINE x == [Idle EXCEPT !.pc = "verify", !.ids = spec.checks]
    <3>1. x \in ScanStates /\ x.scanType = "FullScan"
      BY IdleType DEF SchedulerInv, Types, ScanStates, Points, Idle
    <3>2. [x EXCEPT !.scanType = "FullScan"] = x
      <4> HIDE DEF x
      <4> QED BY <3>1 DEF ScanStates
    <3> QED BY <3>2
  <2> QED BY <1>2, <2>1, SpawnKeeps DEF TriggerFullScan, handleVars, noticeVars
<1>3. ASSUME NEW s \in Scans, CreateResult(s) PROVE SchedulerInv'
  <2>1. /\ scan[s].pc = "create" /\ scan[s].pc \notin Telling
        /\ UNCHANGED <<checks, now, spec, crashes, board, net, blurred>>
    BY <1>3 DEF CreateResult, noticeVars, Telling
  <2>2. CASE Finish(s)
    BY <2>1, <2>2, FinishKeeps
  <2>3. CASE Goto(s, "fetch") /\ UNCHANGED handleVars
    BY <2>1, <2>3, GotoKeeps DEF handleVars
  <2> QED BY <1>3, <2>2, <2>3 DEF CreateResult
<1>4. ASSUME NEW s \in Scans, FetchPolicy(s) PROVE SchedulerInv'
  <2>1. /\ scan[s].pc = "fetch" /\ scan[s].pc \notin Telling
        /\ UNCHANGED <<checks, now, spec, crashes, board, net, blurred>>
    BY <1>4 DEF FetchPolicy, noticeVars, Telling
  <2>2. CASE Finish(s)
    BY <2>1, <2>2, FinishKeeps
  <2>3. CASE Goto(s, "update") /\ UNCHANGED handleVars
    BY <2>1, <2>3, GotoKeeps DEF handleVars
  <2> QED BY <1>4, <2>2, <2>3 DEF FetchPolicy
<1>5. FullSlots \subseteq Scans /\ RescanSlots \subseteq Scans
  BY DEF Scans
<1> QED BY <1>1, <1>2, <1>3, <1>4, <1>5, OtherStepsKeep, StopKeeps, RegisterKeeps,
           SelectFailedKeeps, RunChecksKeeps, RecordKeeps, ReadStateKeeps, DispatchKeeps,
           UpdateStatusKeeps, CrashKeeps
        DEF Next, FireFullScan, FireRescan, LocalStep, RemoteStep

\* The invariant of the scheduler and its goroutines.
THEOREM SchedulerInvariant == Spec => []SchedulerInv
BY InitSchedulerInv, StepKeeps, PTL DEF Spec
-----------------------------------------------------------------------------
\* processResults (scheduler.go) dispatches each FIRING and each RESOLVED transition
\* the store returns once, however many scans overlap, are cancelled or outlive their
\* scheduler.
THEOREM AlertsAreConserved == Spec => []AlertsConserved
BY SchedulerInvariant, PTL DEF SchedulerInv

\* A channel shows the state of the store when nothing is on its way, unless the last
\* announcement was lost by Dispatch or two scans held transitions of the check at once.
THEOREM BoardsShowState == Spec => []BoardShowsState
BY SchedulerInvariant, PTL DEF SchedulerInv

\* Stop (scheduler.go) cancels every scan whose cancel function its loops still hold.
THEOREM StopReachesAllTracked == Spec => []StopReachesTracked
<1>1. SchedulerInv => StopReachesTracked
  BY DEF SchedulerInv, Handles, Reached, StopReachesTracked
<1> QED BY <1>1, SchedulerInvariant, PTL

\* The FailedSince that processResults reports, read back from the store in a second
\* call, is not older than the incident its own failure belongs to, nor in the future.
THEOREM FailedSinceIsNotOlder == Spec => []FailedSinceNotOlder
BY SchedulerInvariant, PTL DEF SchedulerInv
-----------------------------------------------------------------------------
\* The abstract lifecycle, read off the store that the scans share: what a user of the
\* store has heard of a check is the state it shows.
Alerts == INSTANCE AlertLifecycle WITH
  phase <- [p \in Policies |-> [c \in CheckIDs |-> PhaseOf(checks[p][c])]],
  fails <- [p \in Policies |-> [c \in CheckIDs |-> FailsOf(checks[p][c])]],
  heard <- [p \in Policies |-> [c \in CheckIDs |-> Shown(checks[p][c].State)]]

\* The retries of an entry that is firing have not reached the threshold.
BelowThreshold(cs) == cs.State = "FIRING" => cs.RetryCount \in 0..(Threshold - 1)

\* No interleaving of scans takes a firing check past the threshold unescalated.
Counted == \A p \in Policies, c \in CheckIDs : BelowThreshold(checks[p][c])

\* When the state shown of c changes, one scan that held nothing comes to hold the
\* transition to the new state, and no other does.
ChangeIsHeld(c) ==
  Shown(checks'[Policy][c].State) /= Shown(checks[Policy][c].State) =>
    \E s \in Scans : /\ s \in Holding(c)' /\ s \notin Holding(c)
                     /\ scan'[s].transition.To = checks'[Policy][c].State
                     /\ Holding(c)' \ {s} \subseteq Holding(c)

\* A step of the lifecycle, or none, whose change of state will be announced.
FollowsLifecycle ==
  /\ [Alerts!Next]_(Alerts!vars)
  /\ \A c \in CheckIDs : ChangeIsHeld(c)

\* The five ways a record can move an entry.
Opens(old, new) ==
  /\ PhaseOf(old) = "quiet" /\ PhaseOf(new) = "firing"
  /\ FailsOf(new) = 1 /\ Shown(new.State) = "FIRING"
FailsAgain(old, new) ==
  /\ PhaseOf(old) = "firing" /\ PhaseOf(new) = "firing"
  /\ FailsOf(old) < Threshold /\ FailsOf(new) = FailsOf(old) + 1
  /\ Shown(new.State) = Shown(old.State)
Escalates(old, new) ==
  /\ PhaseOf(old) = "firing" /\ PhaseOf(new) = "escalated"
  /\ FailsOf(old) = Threshold /\ FailsOf(new) = Threshold + 1
  /\ Shown(new.State) = "ESCALATED"
Closes(old, new) ==
  /\ PhaseOf(old) /= "quiet" /\ PhaseOf(new) = "quiet"
  /\ FailsOf(new) = 0 /\ Shown(new.State) = "RESOLVED"
Stays(old, new) ==
  /\ PhaseOf(new) = PhaseOf(old) /\ FailsOf(new) = FailsOf(old)
  /\ Shown(new.State) = Shown(old.State)

\* NewStore leaves a positive threshold that fits the counter.
LEMMA ThresholdFits ==
  Threshold \in Nat /\ Threshold >= 1 /\ Threshold <= MaxInt32 /\ MaxInt32 \in Nat
BY StoreConstants DEF Threshold

\* RecordFail and RecordPass move the entry as the lifecycle does.
LEMMA RecordFollows ==
  ASSUME NEW c \in CheckIDs, NEW tr \in Transitions,
         checks[Policy][c] \in CheckState, now \in Time, BelowThreshold(checks[Policy][c]),
         RecordFail(Policy, c, tr) \/ RecordPass(Policy, c, tr)
  PROVE  \E new :
           /\ checks' = [checks EXCEPT ![Policy][c] = new]
           /\ BelowThreshold(new)
           /\ \/ Opens(checks[Policy][c], new) \/ FailsAgain(checks[Policy][c], new)
              \/ Escalates(checks[Policy][c], new) \/ Closes(checks[Policy][c], new)
              \/ Stays(checks[Policy][c], new)
<1> DEFINE old == checks[Policy][c]
           cs == getOrCreate(Policy, c)
<1>1. /\ cs \in CheckState /\ cs.RetryCount = old.RetryCount
      /\ cs.State = IF old.State = "ABSENT" THEN "UNKNOWN" ELSE old.State
      /\ old.RetryCount \in Int32
  BY DEF getOrCreate, CheckState, AlertState
<1> HIDE DEF cs
<1>2. ASSUME cs.State = "FIRING"
      PROVE  /\ old.State = "FIRING" /\ cs.RetryCount \in 0..(Threshold - 1)
             /\ Inc32(cs.RetryCount) = cs.RetryCount + 1
  BY <1>1, <1>2, ThresholdFits DEF BelowThreshold, Inc32
<1>3. CASE FirstFail(Policy, c, tr)
  <2> DEFINE new == [State |-> "FIRING", FailedSince |-> now, RetryCount |-> 0]
  <2>1. checks' = [checks EXCEPT ![Policy][c] = new]
    BY <1>3 DEF FirstFail, Save
  <2>2. BelowThreshold(new)
    BY ThresholdFits DEF BelowThreshold
  <2>3. old.State \notin FailingStates
    BY <1>1, <1>3 DEF FirstFail, FailingStates, cs
  <2>4. Opens(old, new)
    BY <2>3 DEF Opens, PhaseOf, FailsOf, Shown, FailingStates
  <2> QED BY <2>1, <2>2, <2>4
<1>4. CASE Escalate(Policy, c, tr)
  <2> DEFINE new == [cs EXCEPT !.State = "ESCALATED", !.RetryCount = Inc32(@)]
  <2>1. checks' = [checks EXCEPT ![Policy][c] = new] /\ new.State = "ESCALATED"
    BY <1>1, <1>4 DEF Escalate, Save, cs, CheckState
  <2>2. cs.State = "FIRING" /\ Inc32(cs.RetryCount) >= Threshold
    BY <1>4 DEF Escalate, cs
  <2>3. old.State = "FIRING" /\ old.RetryCount + 1 = Threshold
    BY <1>1, <1>2, <2>2, ThresholdFits
  <2> HIDE DEF new
  <2>4. Escalates(old, new)
    BY <2>1, <2>3 DEF Escalates, PhaseOf, FailsOf, Shown
  <2> QED BY <2>1, <2>4 DEF BelowThreshold
<1>5. CASE RepeatFail(Policy, c, tr)
  <2> DEFINE new == [cs EXCEPT !.RetryCount = Inc32(@)]
  <2>1. /\ checks' = [checks EXCEPT ![Policy][c] = new]
        /\ new.State = cs.State /\ new.RetryCount = Inc32(cs.RetryCount)
    BY <1>1, <1>5 DEF RepeatFail, Save, cs, CheckState
  <2>2. \/ cs.State = "FIRING" /\ Inc32(cs.RetryCount) < Threshold
        \/ cs.State = "ESCALATED"
    BY <1>5 DEF RepeatFail, cs
  <2> HIDE DEF new
  <2>3. CASE cs.State = "FIRING" /\ Inc32(cs.RetryCount) < Threshold
    <3>1. /\ old.State = "FIRING" /\ old.RetryCount \in 0..(Threshold - 1)
          /\ new.RetryCount = old.RetryCount + 1 /\ new.RetryCount < Threshold
      BY <1>1, <1>2, <2>1, <2>3
    <3>2. BelowThreshold(new) /\ FailsAgain(old, new)
      BY <2>1, <2>3, <3>1, ThresholdFits DEF BelowThreshold, FailsAgain, PhaseOf, FailsOf, Shown
    <3> QED BY <2>1, <3>2
  <2>4. CASE cs.State = "ESCALATED"
    <3>1. new.State = "ESCALATED" /\ old.State = "ESCALATED"
      BY <1>1, <2>1, <2>4
    <3>2. BelowThreshold(new) /\ Stays(old, new)
      BY <3>1 DEF BelowThreshold, Stays, PhaseOf, FailsOf, Shown
    <3> QED BY <2>1, <3>2
  <2> QED BY <2>2, <2>3, <2>4
<1>6. CASE RecordPass(Policy, c, tr) /\ cs.State \in FailingStates
  <2> DEFINE new == [cs EXCEPT !.State = "RESOLVED", !.RetryCount = 0]
  <2>1. checks' = [checks EXCEPT ![Policy][c] = new] /\ new.State = "RESOLVED"
    BY <1>1, <1>6 DEF RecordPass, Save, cs, CheckState
  <2>2. old.State \in FailingStates
    BY <1>1, <1>6 DEF FailingStates
  <2> HIDE DEF new
  <2>3. BelowThreshold(new) /\ Closes(old, new)
    BY <2>1, <2>2 DEF BelowThreshold, Closes, PhaseOf, FailsOf, Shown, FailingStates
  <2> QED BY <2>1, <2>3
<1>7. CASE RecordPass(Policy, c, tr) /\ cs.State \notin FailingStates
  <2>1. checks' = [checks EXCEPT ![Policy][c] = cs]
    BY <1>7 DEF RecordPass, Save, cs
  <2>2. BelowThreshold(cs) /\ Stays(old, cs)
    BY <1>1, <1>7 DEF BelowThreshold, Stays, PhaseOf, FailsOf, Shown, FailingStates
  <2> QED BY <2>1, <2>2
<1> QED BY <1>3, <1>4, <1>5, <1>6, <1>7 DEF RecordFail

\* Writing back the value that is there changes nothing.
LEMMA EntrySame ==
  ASSUME NEW S, NEW f \in [Policies -> [CheckIDs -> S]],
         NEW p \in Policies, NEW c \in CheckIDs, NEW v, v = f[p][c]
  PROVE  [f EXCEPT ![p][c] = v] = f
OBVIOUS

\* An entry moved as the lifecycle does is a step of the lifecycle.
LEMMA EntryStep ==
  ASSUME checks \in [Policies -> [CheckIDs -> CheckState]],
         NEW c \in CheckIDs, NEW new,
         checks' = [checks EXCEPT ![Policy][c] = new],
         \/ Opens(checks[Policy][c], new) \/ FailsAgain(checks[Policy][c], new)
         \/ Escalates(checks[Policy][c], new) \/ Closes(checks[Policy][c], new)
         \/ Stays(checks[Policy][c], new)
  PROVE  [Alerts!Next]_(Alerts!vars)
<1> DEFINE old == checks[Policy][c]
           aPhase == [p \in Policies |-> [d \in CheckIDs |-> PhaseOf(checks[p][d])]]
           aFails == [p \in Policies |-> [d \in CheckIDs |-> FailsOf(checks[p][d])]]
           aHeard == [p \in Policies |-> [d \in CheckIDs |-> Shown(checks[p][d].State)]]
<1>0. Policy \in Policies
  BY SchedulerConstants
<1>1. /\ aPhase' = [aPhase EXCEPT ![Policy][c] = PhaseOf(new)]
      /\ aFails' = [aFails EXCEPT ![Policy][c] = FailsOf(new)]
      /\ aHeard' = [aHeard EXCEPT ![Policy][c] = Shown(new.State)]
  BY <1>0
<1>2. /\ aPhase[Policy][c] = PhaseOf(old) /\ aFails[Policy][c] = FailsOf(old)
      /\ aHeard[Policy][c] = Shown(old.State)
  BY <1>0
<1>3. /\ aPhase \in [Policies -> [CheckIDs -> {"quiet", "firing", "escalated"}]]
      /\ aFails \in [Policies -> [CheckIDs -> Int]]
      /\ aHeard \in [Policies -> [CheckIDs -> AlertState \cup {"none"}]]
  BY ThresholdFits DEF PhaseOf, FailsOf, Shown, CheckState, Int32
<1>4. PhaseOf(new) = PhaseOf(old) => aPhase' = aPhase
  <2> HIDE DEF aPhase
  <2> QED BY <1>0, <1>1, <1>2, <1>3, EntrySame
<1>5. FailsOf(new) = FailsOf(old) => aFails' = aFails
  <2> HIDE DEF aFails
  <2> QED BY <1>0, <1>1, <1>2, <1>3, EntrySame
<1>6. Shown(new.State) = Shown(old.State) => aHeard' = aHeard
  <2> HIDE DEF aHeard
  <2> QED BY <1>0, <1>1, <1>2, <1>3, EntrySame
<1>7. CASE Opens(old, new)
  <2>1. Alerts!Open(Policy, c)
    BY <1>1, <1>2, <1>7 DEF Opens, Alerts!Open, Alerts!Update
  <2> QED BY <1>0, <2>1 DEF Alerts!Next
<1>8. CASE FailsAgain(old, new)
  <2>1. Alerts!FailAgain(Policy, c)
    BY <1>1, <1>2, <1>4, <1>6, <1>8 DEF FailsAgain, Alerts!FailAgain, Alerts!Update
  <2> QED BY <1>0, <2>1 DEF Alerts!Next
<1>9. CASE Escalates(old, new)
  <2>1. Alerts!Escalate(Policy, c)
    BY <1>1, <1>2, <1>9 DEF Escalates, Alerts!Escalate, Alerts!Update
  <2> QED BY <1>0, <2>1 DEF Alerts!Next
<1>10. CASE Closes(old, new)
  <2>1. Alerts!Close(Policy, c)
    BY <1>1, <1>2, <1>10 DEF Closes, Alerts!Close, Alerts!Update
  <2> QED BY <1>0, <2>1 DEF Alerts!Next
<1>11. CASE Stays(old, new)
  BY <1>4, <1>5, <1>6, <1>11 DEF Stays, Alerts!vars
<1> QED BY <1>7, <1>8, <1>9, <1>10, <1>11

\* A record follows the lifecycle, keeps the count and holds what it has to announce.
LEMMA RecordStep ==
  ASSUME SchedulerInv, Counted, NEW s \in Scans, Record(s)
  PROVE  Counted' /\ FollowsLifecycle
<1>0. /\ Types /\ scan \in [Scans -> ScanStates] /\ scan[s] \in ScanStates
      /\ scan[s].pc = "process" /\ scan[s].pc \in AtHand
  BY DEF SchedulerInv, Types, Record, AtHand
<1> PICK c \in CheckIDs : c = Head(scan[s].ids)
  BY <1>0, HeadIsCheck
<1>1. c \in CheckIDs /\ Policy \in Policies
  BY SchedulerConstants
<1>2. CASE UNCHANGED storeVars
  BY <1>2 DEF storeVars, Counted, FollowsLifecycle, ChangeIsHeld, Alerts!vars
<1>3. ASSUME NEW tr \in Transitions, NEW pc \in {"readState", "notify"},
             RecordFail(Policy, c, tr) \/ RecordPass(Policy, c, tr), Hold(s, c, tr, pc)
      PROVE  Counted' /\ FollowsLifecycle
  <2>0. /\ checks[Policy][c] \in CheckState /\ now \in Time
        /\ checks[Policy][c].FailedSince <= now /\ BelowThreshold(checks[Policy][c])
        /\ checks \in [Policies -> [CheckIDs -> CheckState]]
    BY <1>0, <1>1 DEF Types, SchedulerInv, SinceKept, Counted
  <2>1. s \notin Holding(c) /\ Holding(c) \ {s} = Holding(c) /\ Head(scan[s].ids) = c
    BY <1>0 DEF Holding
  <2>2. PICK new : /\ checks' = [checks EXCEPT ![Policy][c] = new]
                   /\ BelowThreshold(new)
                   /\ \/ Opens(checks[Policy][c], new) \/ FailsAgain(checks[Policy][c], new)
                      \/ Escalates(checks[Policy][c], new) \/ Closes(checks[Policy][c], new)
                      \/ Stays(checks[Policy][c], new)
    BY <1>1, <1>3, <2>0, RecordFollows
  <2>3. \A p \in Policies, d \in CheckIDs :
          checks'[p][d] = IF p = Policy /\ d = c THEN new ELSE checks[p][d]
    BY <1>1, <2>0, <2>2
  <2>4. Counted'
    BY <2>2, <2>3 DEF Counted
  <2>5. [Alerts!Next]_(Alerts!vars)
    BY <1>1, <2>0, <2>2, EntryStep
  <2>6. ASSUME NEW d \in CheckIDs PROVE ChangeIsHeld(d)
    <3> SUFFICES ASSUME Shown(checks'[Policy][d].State) /= Shown(checks[Policy][d].State)
                 PROVE  \E t \in Scans :
                          /\ t \in Holding(d)' /\ t \notin Holding(d)
                          /\ scan'[t].transition.To = checks'[Policy][d].State
                          /\ Holding(d)' \ {t} \subseteq Holding(d)
      BY DEF ChangeIsHeld
    <3>1. d = c /\ checks'[Policy][c] = new
      BY <1>1, <2>3
    <3>2. PICK entry \in CheckState : /\ checks' = [checks EXCEPT ![Policy][c] = entry]
                                      /\ Recorded(checks[Policy][c], entry, tr)
      BY <1>1, <1>3, <2>0, RecordEffect
    <3>3. checks'[Policy][c] = entry
      BY <1>1, <2>0, <3>2
    <3>4. tr /= NoTransition /\ checks'[Policy][c].State = tr.To
      BY <3>1, <3>2, <3>3 DEF Recorded
    <3>5. /\ scan'[s].pc = pc /\ scan'[s].transition = tr /\ scan'[s].ids = scan[s].ids
          /\ \A t \in Scans \ {s} : /\ scan'[t].pc = scan[t].pc /\ scan'[t].ids = scan[t].ids
                                    /\ scan'[t].transition = scan[t].transition
      <4>1. \A t \in Scans : scan[t] \in ScanStates
        BY <1>0
      <4>2. scan'[s] = [scan[s] EXCEPT
                          !.pc = pc, !.transition = tr,
                          !.clean = tr = NoTransition \/ Holding(c) \ {s} = {},
                          !.since = IF pc = "readState"
                                    THEN checks'[Policy][c].FailedSince ELSE 0]
        BY <1>3, <3>4 DEF Hold
      <4>3. \A t \in Scans \ {s} :
              scan'[t] = scan[t] \/ scan'[t] = [scan[t] EXCEPT !.clean = FALSE]
        BY <1>3 DEF Hold
      <4>4. /\ scan'[s].pc = pc /\ scan'[s].transition = tr /\ scan'[s].ids = scan[s].ids
        BY <4>1, <4>2 DEF ScanStates
      <4>5. ASSUME NEW t \in Scans \ {s}
            PROVE  /\ scan'[t].pc = scan[t].pc /\ scan'[t].ids = scan[t].ids
                   /\ scan'[t].transition = scan[t].transition
        BY <4>1, <4>3 DEF ScanStates
      <4> QED BY <4>4, <4>5
    <3>6. s \in Holding(c)'
      BY <2>1, <3>4, <3>5 DEF Holding
    <3>7. Holding(c)' \ {s} \subseteq Holding(c)
      BY <3>5 DEF Holding
    <3> QED BY <2>1, <3>1, <3>4, <3>5, <3>6, <3>7
  <2> QED BY <2>4, <2>5, <2>6 DEF FollowsLifecycle
<1> QED BY <1>2, <1>3 DEF Record

\* Any other step but a restart leaves the store's entries alone.
LEMMA OtherStepsFollow ==
  ASSUME Counted, [Next]_vars, ~Crash, \A s \in Scans : ~Record(s)
  PROVE  Counted' /\ FollowsLifecycle
<1>1. checks' = checks
  BY DEF Next, Start, Stop, FireFullScan, FireRescan, Fire, TriggerFullScan, LocalStep,
         RemoteStep, Register, SelectFailed, ReadState, RunChecks, Dispatch, CreateResult,
         FetchPolicy, UpdateStatus, Second, Tick, vars
<1> QED BY <1>1 DEF Counted, FollowsLifecycle, ChangeIsHeld, Alerts!vars

\* Every restart begins the lifecycle anew, and every other step follows it.
LEMMA StepFollows ==
  SchedulerInv /\ Counted /\ [Next]_vars =>
    Counted' /\ (IF crashes' = crashes THEN FollowsLifecycle ELSE (Alerts!Init)')
<1> SUFFICES ASSUME SchedulerInv, Counted, [Next]_vars
             PROVE  Counted' /\ (IF crashes' = crashes THEN FollowsLifecycle
                                                       ELSE (Alerts!Init)')
  OBVIOUS
<1>1. CASE Crash
  <2>1. checks' = [p \in Policies |-> [c \in CheckIDs |-> Absent]]
    BY <1>1 DEF Crash
  <2>2. crashes' /= crashes
    BY <1>1 DEF Crash, SchedulerInv, Types
  <2> QED BY <2>1, <2>2 DEF Counted, BelowThreshold, Absent, Alerts!Init, PhaseOf, FailsOf, Shown
<1>2. ASSUME NEW s \in Scans, Record(s) PROVE Counted' /\ FollowsLifecycle /\ crashes' = crashes
  BY <1>2, RecordStep DEF Record
<1>3. CASE ~Crash /\ \A s \in Scans : ~Record(s)
  <2>1. crashes' = crashes
    BY <1>3 DEF Next, Start, Stop, FireFullScan, FireRescan, Fire, TriggerFullScan, LocalStep,
                RemoteStep, Register, SelectFailed, ReadState, RunChecks, Dispatch,
                CreateResult, FetchPolicy, UpdateStatus, Second, vars
  <2> QED BY <1>3, <2>1, OtherStepsFollow
<1> QED BY <1>1, <1>2, <1>3

\* However the scans of processResults (scheduler.go) interleave, are cancelled or outlive
\* their scheduler, the store they share goes through the alert lifecycle: an incident
\* escalates on exactly the Threshold-th failure after its first, whichever scans recorded
\* them, and each change of state is left with exactly one scan to announce.  A restart
\* begins the lifecycle anew for every check.
THEOREM ScansFollowLifecycle ==
  Spec => /\ Alerts!Init
          /\ [][IF crashes' = crashes THEN FollowsLifecycle ELSE (Alerts!Init)']_vars
<1>1. Init => Counted /\ Alerts!Init
  BY DEF Init, StoreInit, Counted, BelowThreshold, Absent, Alerts!Init, PhaseOf, FailsOf, Shown
<1>2. SchedulerInv /\ Counted /\ [Next]_vars => Counted'
  BY StepFollows
<1>3. SchedulerInv /\ Counted /\ [Next]_vars =>
        [IF crashes' = crashes THEN FollowsLifecycle ELSE (Alerts!Init)']_vars
  BY StepFollows
<1> QED BY <1>1, <1>2, <1>3, SchedulerInvariant, PTL DEF Spec
=============================================================================
