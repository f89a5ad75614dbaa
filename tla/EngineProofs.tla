---------------------------- MODULE EngineProofs ----------------------------
(***************************************************************************)
(* Proofs about the verification engine, for any number of overlapping     *)
(* runs, all lists of checks, every batch size and every behaviour of the  *)
(* cluster, the tools and the LLM.                                         *)
(***************************************************************************)
EXTENDS Engine, WellFoundedInduction, TLAPS

\* Tool calls, views of the cluster, tool caches, verdicts with their basis, memories.
Calls ==
  {<<"none", "empty">>, <<"list_pods", "empty">>, <<"list_nodes", "empty">>,
   <<"get_events", "empty">>} \cup LLMCalls
Views == SUBSET (Calls \X Int)
Caches == UNION {[calls -> Int] : calls \in SUBSET Calls}
Judgements == [id : STRING, verdict : Verdicts, basis : Views]
Memos == UNION {[ids -> Judgements] : ids \in SUBSET STRING}

RunStates ==
  [pc : {"idle", "snapshot", "decide", "verify", "done"}, checks : Seq(STRING),
   tool : Nat \ {0}, cache : Caches, snapshot : Views, seen : Views,
   prevHash : Views, prevResults : Memos, results : Seq(Judgements)]

Types ==
  /\ cluster \in [Parts -> Int]
  /\ lastHash \in Views
  /\ lastResults \in Memos
  /\ run \in [Runs -> RunStates]

\* A memory has verdicts of the checks it says, given on the snapshot it says.
Faithful(memo, hash) ==
  \A id \in DOMAIN memo : memo[id].id = id /\ memo[id].basis = hash

\* The answers a run has seen are in its cache.
SeenIsCached(x) ==
  \A a \in x.seen : a[1] \in DOMAIN x.cache /\ x.cache[a[1]] = a[2]

\* The results so far are those of the first checks, on the run's snapshot.
ResultsFit(x) ==
  /\ Len(x.results) <= Len(x.checks)
  /\ \A i \in 1..Len(x.results) :
       x.results[i].id = x.checks[i] /\ x.results[i].basis = x.snapshot
  /\ x.pc \in {"idle", "snapshot", "decide"} => x.results = <<>>
  /\ x.pc = "done" => Len(x.results) = Len(x.checks)

Sound(x) ==
  /\ SeenIsCached(x)
  /\ Faithful(x.prevResults, x.prevHash)
  /\ ResultsFit(x)

\* The inductive invariant.
EngineInv ==
  /\ Types
  /\ Faithful(lastResults, lastHash)
  /\ \A r \in Runs : Sound(run[r])
-----------------------------------------------------------------------------
\* The least-number principle, from the well-foundedness of < on the naturals.
LEMMA LeastNatural ==
  ASSUME NEW S \in SUBSET Nat, S /= {}
  PROVE  \E n \in S : \A m \in S : n <= m
<1> DEFINE R == OpToRel(<, Nat)
<1>1. IsWellFoundedOn(R, Nat)
  BY NatLessThanWellFounded
<1>2. \A x, y \in Nat : <<x, y>> \in R <=> x < y
  BY DEF OpToRel
<1> HIDE DEF R
<1>3. PICK n \in S : \A m \in S : ~(<<m, n>> \in R)
  BY <1>1, WFMin
<1>4. ASSUME NEW m \in S PROVE n <= m
  <2>1. n \in Nat /\ m \in Nat
    OBVIOUS
  <2>2. ~(m < n)
    BY <1>2, <1>3, <2>1
  <2> QED BY <2>1, <2>2
<1> QED BY <1>4

\* A set of naturals below a bound has a greatest element.
LEMMA GreatestBelow ==
  ASSUME NEW n \in Nat, NEW S \in SUBSET (0..n), S /= {}
  PROVE  \E i \in S : \A j \in S : j <= i
<1> DEFINE T == {n - i : i \in S}
<1>1. T \in SUBSET Nat /\ T /= {}
  <2>1. \A i \in S : i \in 0..n
    OBVIOUS
  <2>2. \A i \in 0..n : n - i \in Nat
    OBVIOUS
  <2> QED BY <2>1, <2>2
<1> HIDE DEF T
<1>2. PICK t \in T : \A u \in T : t <= u
  BY <1>1, LeastNatural
<1>3. PICK i \in S : t = n - i
  BY DEF T
<1>4. ASSUME NEW j \in S PROVE j <= i
  <2>1. t <= n - j
    BY <1>2 DEF T
  <2>2. i \in 0..n /\ j \in 0..n
    OBVIOUS
  <2> QED BY <2>1, <2>2, <1>3
<1> QED BY <1>4

\* The hash of no snapshot.
LEMMA NoneIsView == None \in Views
<1>1. <<<<"none", "empty">>, 0>> \in Calls \X Int
  BY DEF Calls
<1> QED BY <1>1 DEF None, Views

\* A run that has not begun is in order.
LEMMA IdleIsSound == Idle \in RunStates /\ Sound(Idle)
<1>1. <<>> \in [{} -> Int] /\ <<>> \in [{} -> Judgements]
  OBVIOUS
<1>2. <<>> \in Caches /\ <<>> \in Memos /\ DOMAIN <<>> = {}
  BY <1>1 DEF Caches, Memos
<1>3. None \in Views /\ {} \in Views
  BY NoneIsView DEF Views
<1>4. Idle \in RunStates
  BY <1>2, <1>3 DEF Idle, RunStates
<1>5. Sound(Idle)
  BY <1>2 DEF Idle, Sound, SeenIsCached, Faithful, ResultsFit
<1> QED BY <1>4, <1>5

\* No run has begun, and nothing is remembered.
LEMMA InitEngineInv == Init => EngineInv
<1>1. <<>> \in [{} -> Judgements] /\ DOMAIN <<>> = {}
  OBVIOUS
<1>2. <<>> \in Memos
  BY <1>1 DEF Memos
<1> QED BY <1>1, <1>2, NoneIsView, IdleIsSound DEF Init, EngineInv, Types, Faithful

\* A step of one run that leaves it in order keeps all runs in order.
LEMMA OneRun ==
  ASSUME EngineInv, NEW r \in Runs, NEW x \in RunStates, Sound(x),
         run' = [run EXCEPT ![r] = x], UNCHANGED <<cluster, lastHash, lastResults>>
  PROVE  EngineInv'
<1>1. run' \in [Runs -> RunStates] /\ \A q \in Runs : run'[q] = IF q = r THEN x ELSE run[q]
  BY DEF EngineInv, Types
<1>2. Types'
  BY <1>1 DEF EngineInv, Types
<1>3. \A q \in Runs : Sound(run'[q])
  BY <1>1 DEF EngineInv
<1> QED BY <1>2, <1>3 DEF EngineInv

\* What a call of a tool leaves in the cache and adds to what was seen.
LEMMA CallKeepsCache ==
  ASSUME EngineInv, NEW r \in Runs, NEW call \in Calls, NEW answer \in Answers(r, call),
         NEW x \in RunStates, x.cache = Cached(r, call, answer),
         x.seen = run[r].seen \cup Got(call, answer)
  PROVE  SeenIsCached(x)
<1> DEFINE cache == run[r].cache
<1>1. SeenIsCached(run[r])
  BY DEF EngineInv, Sound
<1>2. CASE answer = Error
  BY <1>1, <1>2 DEF Cached, Got, SeenIsCached
<1>3. CASE answer /= Error
  <2>1. x.cache = [t \in DOMAIN cache \cup {call} |-> IF t = call THEN answer ELSE cache[t]]
    BY <1>3 DEF Cached
  <2>2. call \in DOMAIN cache => answer = cache[call]
    BY DEF Answers
  <2>3. x.seen = run[r].seen \cup {<<call, answer>>}
    BY <1>3 DEF Got
  <2>4. ASSUME NEW a \in x.seen PROVE a[1] \in DOMAIN x.cache /\ x.cache[a[1]] = a[2]
    <3>1. CASE a \in run[r].seen
      BY <1>1, <2>1, <2>2, <3>1 DEF SeenIsCached
    <3>2. CASE a = <<call, answer>>
      BY <2>1, <3>2
    <3> QED BY <2>3, <3>1, <3>2
  <2> QED BY <2>4 DEF SeenIsCached
<1> QED BY <1>2, <1>3

\* An answer is a number, and so are the types of what a call leaves behind.
LEMMA CallTypes ==
  ASSUME EngineInv, NEW r \in Runs, NEW call \in Calls, NEW answer \in Answers(r, call)
  PROVE  /\ Cached(r, call, answer) \in Caches
         /\ \A view \in Views : view \cup Got(call, answer) \in Views
<1>0. run[r].cache \in Caches /\ cluster \in [Parts -> Int]
  BY DEF EngineInv, Types, RunStates
<1>1. PICK calls \in SUBSET Calls : run[r].cache \in [calls -> Int]
  BY <1>0 DEF Caches
<1>2. Content(call) \in Int
  BY <1>0 DEF Content, Parts
<1>3. answer \in Int
  BY <1>1, <1>2 DEF Answers, Error
<1>4. Cached(r, call, answer) \in Caches
  <2>1. CASE answer = Error
    BY <2>1, <1>0 DEF Cached
  <2>2. CASE answer /= Error
    <3>1. Cached(r, call, answer) \in [calls \cup {call} -> Int]
      BY <2>2, <1>1, <1>3 DEF Cached
    <3>2. calls \cup {call} \in SUBSET Calls
      OBVIOUS
    <3> QED BY <3>1, <3>2 DEF Caches
  <2> QED BY <2>1, <2>2
<1>5. <<call, answer>> \in Calls \X Int
  BY <1>3
<1> QED BY <1>4, <1>5 DEF Views, Got
-----------------------------------------------------------------------------
\* What the invariant says of one run.
LEMMA RunInv ==
  ASSUME EngineInv, NEW r \in Runs
  PROVE  /\ run \in [Runs -> RunStates] /\ run[r] \in RunStates
         /\ SeenIsCached(run[r]) /\ Faithful(run[r].prevResults, run[r].prevHash)
         /\ ResultsFit(run[r])
BY DEF EngineInv, Types, Sound

\* A run begins with an empty cache.
LEMMA RunChecksKeeps ==
  ASSUME EngineInv, NEW r \in Runs, RunChecks(r)
  PROVE  EngineInv'
<1>1. PICK list \in CheckLists :
        run' = [run EXCEPT ![r] = [Idle EXCEPT !.pc = "snapshot", !.checks = list]]
  BY DEF RunChecks
<1> DEFINE x == [Idle EXCEPT !.pc = "snapshot", !.checks = list]
<1>2. x \in RunStates
  BY IdleIsSound, EngineConstants DEF RunStates
<1>3. Sound(x)
  BY IdleIsSound DEF Idle, Sound, SeenIsCached, Faithful, ResultsFit
<1> HIDE DEF x
<1> QED BY <1>1, <1>2, <1>3, OneRun DEF RunChecks, x

\* The snapshot is taken call by call, through the cache.
LEMMA CallToolKeeps ==
  ASSUME EngineInv, NEW r \in Runs, CallTool(r)
  PROVE  EngineInv'
<1> DEFINE call == snapshotTools[run[r].tool]
<1>0. run \in [Runs -> RunStates] /\ run[r] \in RunStates /\ Sound(run[r])
  BY RunInv DEF Sound
<1>1. call \in Calls
  <2>1. run[r].tool \in Nat \ {0} /\ run[r].tool <= 3
    BY <1>0 DEF CallTool, snapshotTools, RunStates
  <2>2. run[r].tool \in {1, 2, 3}
    BY <2>1
  <2> QED BY <2>2 DEF snapshotTools, Calls
<1> HIDE DEF call
<1>2. PICK answer \in Answers(r, call) :
        run' = [run EXCEPT ![r].tool     = @ + 1,
                           ![r].cache    = Cached(r, call, answer),
                           ![r].snapshot = @ \cup Got(call, answer),
                           ![r].seen     = @ \cup Got(call, answer)]
  BY DEF CallTool, call
<1> DEFINE x == [run[r] EXCEPT !.tool     = @ + 1,
                               !.cache    = Cached(r, call, answer),
                               !.snapshot = @ \cup Got(call, answer),
                               !.seen     = @ \cup Got(call, answer)]
<1>3. run' = [run EXCEPT ![r] = x]
  BY <1>0, <1>2
<1>4. x \in RunStates
  <2>1. run[r].tool + 1 \in Nat \ {0}
    BY <1>0 DEF RunStates
  <2>2. /\ Cached(r, call, answer) \in Caches
        /\ run[r].snapshot \cup Got(call, answer) \in Views
        /\ run[r].seen \cup Got(call, answer) \in Views
    BY <1>0, <1>1, CallTypes DEF RunStates
  <2> QED BY <1>0, <2>1, <2>2 DEF RunStates
<1>5. SeenIsCached(x)
  <2>1. x.cache = Cached(r, call, answer) /\ x.seen = run[r].seen \cup Got(call, answer)
    BY <1>0 DEF RunStates
  <2> HIDE DEF x
  <2> QED BY <1>1, <1>4, <2>1, CallKeepsCache
<1>6. Faithful(x.prevResults, x.prevHash) /\ ResultsFit(x)
  BY <1>0 DEF CallTool, RunStates, Sound, ResultsFit
<1> HIDE DEF x
<1> QED BY <1>3, <1>4, <1>5, <1>6, OneRun DEF CallTool, Sound

\* The memory is copied.
LEMMA ReadPreviousKeeps ==
  ASSUME EngineInv, NEW r \in Runs, ReadPrevious(r)
  PROVE  EngineInv'
<1> DEFINE x == [run[r] EXCEPT !.pc = "decide", !.prevHash = lastHash,
                               !.prevResults = lastResults]
<1>0. run \in [Runs -> RunStates] /\ run[r] \in RunStates /\ Sound(run[r])
  BY RunInv DEF Sound
<1>1. run' = [run EXCEPT ![r] = x]
  BY <1>0 DEF ReadPrevious
<1>2. x \in RunStates
  BY <1>0 DEF EngineInv, Types, RunStates
<1>3. Sound(x)
  BY <1>0 DEF EngineInv, ReadPrevious, Sound, SeenIsCached, ResultsFit, RunStates
<1> HIDE DEF x
<1> QED BY <1>1, <1>2, <1>3, OneRun DEF ReadPrevious

\* Verdicts are reused only on the snapshot they were given on.
LEMMA ReuseKeeps ==
  ASSUME EngineInv, NEW r \in Runs, Reuse(r)
  PROVE  EngineInv'
<1> DEFINE ids == run[r].checks
           memo == run[r].prevResults
           reused == [i \in DOMAIN ids |-> Lookup(r, memo, ids[i])]
           x == [run[r] EXCEPT !.pc = "done", !.prevHash = None, !.prevResults = <<>>,
                               !.results = reused]
<1>0. run \in [Runs -> RunStates] /\ run[r] \in RunStates /\ Sound(run[r])
  BY RunInv DEF Sound
<1>1. run' = [run EXCEPT ![r] = x]
  BY <1>0 DEF Reuse
<1>2. ids \in Seq(STRING) /\ DOMAIN ids = 1..Len(ids) /\ Len(ids) \in Nat
  BY <1>0 DEF RunStates
<1>3. PICK known \in SUBSET STRING : memo \in [known -> Judgements]
  BY <1>0 DEF RunStates, Memos
<1>4. ASSUME NEW i \in DOMAIN ids
      PROVE  /\ reused[i] \in Judgements
             /\ reused[i].id = ids[i] /\ reused[i].basis = run[r].snapshot
  <2>1. ids[i] \in DOMAIN memo
    BY DEF Reuse, AllCached
  <2>2. reused[i] = memo[ids[i]]
    BY <2>1 DEF Lookup
  <2>3. run[r].prevHash = run[r].snapshot
    BY DEF Reuse, AllCached
  <2> QED BY <1>0, <1>3, <2>1, <2>2, <2>3 DEF Sound, Faithful
<1>5. reused \in Seq(Judgements) /\ Len(reused) = Len(ids)
  <2>1. reused = [i \in 1..Len(ids) |-> Lookup(r, memo, ids[i])]
    BY <1>2
  <2>2. \A i \in 1..Len(ids) : Lookup(r, memo, ids[i]) \in Judgements
    BY <1>2, <1>4
  <2> QED BY <1>2, <2>1, <2>2
<1> HIDE DEF reused
<1>6. <<>> \in Memos /\ DOMAIN <<>> = {} /\ None \in Views
  BY NoneIsView, IdleIsSound DEF Idle, RunStates
<1>7. x \in RunStates
  BY <1>0, <1>5, <1>6 DEF RunStates
<1>8. /\ x.results = reused /\ x.checks = ids /\ x.snapshot = run[r].snapshot
      /\ x.pc = "done" /\ x.prevResults = <<>> /\ x.seen = run[r].seen
      /\ x.cache = run[r].cache
  BY <1>0 DEF RunStates
<1> HIDE DEF x
<1>9. Sound(x)
  <2>1. SeenIsCached(x) /\ Faithful(x.prevResults, x.prevHash)
    BY <1>0, <1>6, <1>8 DEF Sound, SeenIsCached, Faithful
  <2>2. \A i \in 1..Len(x.results) :
          x.results[i].id = x.checks[i] /\ x.results[i].basis = x.snapshot
    BY <1>2, <1>4, <1>5, <1>8
  <2>3. Len(x.results) = Len(x.checks) /\ Len(x.checks) \in Nat
    BY <1>2, <1>5, <1>8
  <2> QED BY <1>8, <2>1, <2>2, <2>3 DEF Sound, ResultsFit
<1> QED BY <1>1, <1>7, <1>9, OneRun DEF Reuse

\* The checks that are left go to the LLM.
LEMMA AskKeeps ==
  ASSUME EngineInv, NEW r \in Runs, Ask(r)
  PROVE  EngineInv'
<1> DEFINE x == [run[r] EXCEPT !.pc = "verify", !.prevHash = None, !.prevResults = <<>>]
<1>0. run \in [Runs -> RunStates] /\ run[r] \in RunStates /\ Sound(run[r])
  BY RunInv DEF Sound
<1>1. run' = [run EXCEPT ![r] = x]
  BY <1>0 DEF Ask
<1>2. <<>> \in Memos /\ DOMAIN <<>> = {} /\ None \in Views
  BY NoneIsView, IdleIsSound DEF Idle, RunStates
<1>3. x \in RunStates
  BY <1>0, <1>2 DEF RunStates
<1>4. /\ x.results = run[r].results /\ x.checks = run[r].checks
      /\ x.snapshot = run[r].snapshot /\ x.pc = "verify" /\ x.prevResults = <<>>
      /\ x.seen = run[r].seen /\ x.cache = run[r].cache
  BY <1>0 DEF RunStates
<1> HIDE DEF x
<1>5. Sound(x)
  BY <1>0, <1>2, <1>4 DEF Sound, SeenIsCached, Faithful, ResultsFit
<1> QED BY <1>1, <1>3, <1>5, OneRun DEF Ask

\* The batch is a piece of the list of checks, right behind the results, and it is
\* empty only when every check has its result.
LEMMA BatchFits ==
  ASSUME EngineInv, NEW r \in Runs
  PROVE  /\ Batch(r) \in Seq(STRING)
         /\ Len(run[r].results) + Len(Batch(r)) <= Len(run[r].checks)
         /\ \A j \in 1..Len(Batch(r)) :
              Batch(r)[j] = run[r].checks[Len(run[r].results) + j]
         /\ Batch(r) = <<>> => Len(run[r].results) = Len(run[r].checks)
<1> DEFINE ids == run[r].checks
           n == Len(run[r].results)
           last == IF n + 1 + BatchSize - 1 > Len(ids) THEN Len(ids)
                   ELSE n + 1 + BatchSize - 1
<1>1. ids \in Seq(STRING) /\ n \in Nat /\ n <= Len(ids) /\ Len(ids) \in Nat
  BY RunInv DEF RunStates, ResultsFit
<1>2. Batch(r) = SubSeq(ids, n + 1, last)
  BY DEF Batch
<1>3. last \in Nat /\ n <= last /\ last <= Len(ids) /\ (last = n => n = Len(ids))
  BY <1>1, EngineConstants
<1> HIDE DEF ids, n, last
<1>4. \A i \in (n + 1)..last : ids[i] \in STRING
  BY <1>1, <1>3
<1>5. Batch(r) \in Seq(STRING)
  BY <1>1, <1>2, <1>3, <1>4
<1>6. Len(Batch(r)) = last - n
  BY <1>1, <1>2, <1>3
<1>7. \A j \in 1..Len(Batch(r)) : Batch(r)[j] = ids[n + j]
  <2> TAKE j \in 1..Len(Batch(r))
  <2>1. j \in 1..(last - n)
    BY <1>6
  <2>2. SubSeq(ids, n + 1, last)[j] = ids[n + 1 + j - 1]
    BY <1>1, <1>3, <2>1
  <2>3. n + 1 + j - 1 = n + j
    BY <1>1, <1>3, <2>1
  <2> QED BY <1>2, <2>2, <2>3
<1>8. n + Len(Batch(r)) <= Len(ids)
  BY <1>1, <1>3, <1>6
<1>9. Batch(r) = <<>> => n = Len(ids)
  <2> HAVE Batch(r) = <<>>
  <2>1. last = n
    BY <1>1, <1>3, <1>6
  <2> QED BY <1>3, <2>1
<1> QED BY <1>5, <1>7, <1>8, <1>9 DEF ids, n

\* A tool the LLM calls is answered from the run's own cache, or for the first time.
LEMMA LLMCallsToolKeeps ==
  ASSUME EngineInv, NEW r \in Runs, LLMCallsTool(r)
  PROVE  EngineInv'
<1>0. run \in [Runs -> RunStates] /\ run[r] \in RunStates /\ Sound(run[r])
  BY RunInv DEF Sound
<1>1a. PICK call \in LLMCalls : \E answer \in Answers(r, call) :
        run' = [run EXCEPT ![r].cache = Cached(r, call, answer),
                           ![r].seen  = @ \cup Got(call, answer)]
  BY DEF LLMCallsTool
<1>1. PICK answer \in Answers(r, call) :
        run' = [run EXCEPT ![r].cache = Cached(r, call, answer),
                           ![r].seen  = @ \cup Got(call, answer)]
  BY <1>1a
<1>2. call \in Calls
  BY DEF Calls
<1> DEFINE x == [run[r] EXCEPT !.cache = Cached(r, call, answer),
                               !.seen  = @ \cup Got(call, answer)]
<1>3. run' = [run EXCEPT ![r] = x]
  BY <1>0, <1>1
<1>4. x \in RunStates
  <2>1. /\ Cached(r, call, answer) \in Caches
        /\ run[r].seen \cup Got(call, answer) \in Views
    BY <1>0, <1>2, CallTypes DEF RunStates
  <2> QED BY <1>0, <2>1 DEF RunStates
<1>5. SeenIsCached(x)
  <2>1. x.cache = Cached(r, call, answer) /\ x.seen = run[r].seen \cup Got(call, answer)
    BY <1>0 DEF RunStates
  <2> HIDE DEF x
  <2> QED BY <1>2, <1>4, <2>1, CallKeepsCache
<1>6. Faithful(x.prevResults, x.prevHash) /\ ResultsFit(x)
  BY <1>0 DEF RunStates, Sound, ResultsFit
<1> HIDE DEF x
<1> QED BY <1>3, <1>4, <1>5, <1>6, OneRun DEF LLMCallsTool, Sound

\* The verdicts of a batch go behind those of the batches before.
LEMMA VerifyBatchKeeps ==
  ASSUME EngineInv, NEW r \in Runs, VerifyBatch(r)
  PROVE  EngineInv'
<1> DEFINE batch == Batch(r)
           old == run[r].results
           n == Len(old)
<1>0. run \in [Runs -> RunStates] /\ run[r] \in RunStates /\ Sound(run[r])
  BY RunInv DEF Sound
<1>1. /\ batch \in Seq(STRING) /\ n + Len(batch) <= Len(run[r].checks)
      /\ \A j \in 1..Len(batch) : batch[j] = run[r].checks[n + j]
  BY BatchFits
<1>2. PICK answered \in 0..Len(batch) : \E given \in [1..answered -> LLMVerdicts] :
        run' = [run EXCEPT ![r].results = @ \o
                  [j \in 1..Len(batch) |->
                     Result(r, batch[j], IF j <= answered THEN given[j] ELSE "FAIL")]]
  BY DEF VerifyBatch
<1>3. PICK given \in [1..answered -> LLMVerdicts] :
        run' = [run EXCEPT ![r].results = @ \o
                  [j \in 1..Len(batch) |->
                     Result(r, batch[j], IF j <= answered THEN given[j] ELSE "FAIL")]]
  BY <1>2
<1> DEFINE fresh == [j \in 1..Len(batch) |->
                       Result(r, batch[j], IF j <= answered THEN given[j] ELSE "FAIL")]
           x == [run[r] EXCEPT !.results = old \o fresh]
<1> HIDE DEF batch
<1>4. run' = [run EXCEPT ![r] = x]
  BY <1>0, <1>3
<1>5. ASSUME NEW j \in 1..Len(batch)
      PROVE  /\ fresh[j] \in Judgements
             /\ fresh[j].id = run[r].checks[n + j] /\ fresh[j].basis = run[r].snapshot
  <2>1. (IF j <= answered THEN given[j] ELSE "FAIL") \in Verdicts
    <3>1. CASE j <= answered
      <4>1. j \in 1..answered
        BY <1>1, <3>1
      <4>2. given[j] \in LLMVerdicts
        BY <4>1
      <4> QED BY <3>1, <4>2, EngineConstants DEF Verdicts
    <3>2. CASE ~(j <= answered)
      BY <3>2 DEF Verdicts
    <3> QED BY <3>1, <3>2
  <2>2. batch[j] \in STRING /\ run[r].snapshot \in Views
    BY <1>0, <1>1 DEF RunStates
  <2> QED BY <1>1, <2>1, <2>2 DEF Result, Judgements
<1>6. fresh \in Seq(Judgements) /\ Len(fresh) = Len(batch) /\ Len(batch) \in Nat
  <2>1. \A j \in 1..Len(batch) :
          Result(r, batch[j], IF j <= answered THEN given[j] ELSE "FAIL") \in Judgements
    BY <1>5
  <2> QED BY <1>1, <2>1
<1>7. old \in Seq(Judgements) /\ n \in Nat /\ run[r].checks \in Seq(STRING)
  BY <1>0 DEF RunStates
<1> HIDE DEF fresh
<1>8. x \in RunStates
  <2>1. old \o fresh \in Seq(Judgements)
    BY <1>6, <1>7
  <2> QED BY <1>0, <2>1 DEF RunStates
<1>9. /\ x.results = old \o fresh /\ x.checks = run[r].checks
      /\ x.snapshot = run[r].snapshot /\ x.pc = "verify"
      /\ x.prevResults = run[r].prevResults /\ x.prevHash = run[r].prevHash
      /\ x.seen = run[r].seen /\ x.cache = run[r].cache
  BY <1>0 DEF RunStates, VerifyBatch
<1> HIDE DEF x
<1>10. ResultsFit(x)
  <2>1. Len(x.results) = n + Len(batch)
    <3>1. Len(old \o fresh) = Len(old) + Len(fresh)
      <4>1. old \in Seq(Judgements) /\ fresh \in Seq(Judgements)
        BY <1>6, <1>7
      <4> HIDE DEF old
      <4> QED BY <4>1
    <3> QED BY <1>6, <1>9, <3>1
  <2>2. ASSUME NEW i \in 1..Len(x.results)
        PROVE  x.results[i].id = x.checks[i] /\ x.results[i].basis = x.snapshot
    <3>1. CASE i <= n
      <4>1. x.results[i] = old[i] /\ i \in 1..n
        BY <1>6, <1>7, <1>9, <2>1, <3>1
      <4> QED BY <1>0, <1>9, <4>1 DEF Sound, ResultsFit
    <3>2. CASE i > n
      <4>1. i - n \in 1..Len(batch) /\ n + (i - n) = i
        BY <1>6, <1>7, <2>1, <3>2
      <4>2. x.results[i] = fresh[i - n]
        BY <1>6, <1>7, <1>9, <2>1, <3>2
      <4> QED BY <1>5, <1>9, <4>1, <4>2
    <3> QED BY <1>7, <3>1, <3>2
  <2> QED BY <1>1, <1>9, <2>1, <2>2 DEF ResultsFit
<1>11. Sound(x)
  BY <1>0, <1>9, <1>10 DEF Sound, SeenIsCached
<1> QED BY <1>4, <1>8, <1>11, OneRun DEF VerifyBatch

\* The verdicts by check are verdicts of those checks, on the snapshot they share.
LEMMA VerdictMapFaithful ==
  ASSUME NEW results \in Seq(Judgements), NEW hash,
         \A i \in 1..Len(results) : results[i].basis = hash
  PROVE  VerdictMap(results) \in Memos /\ Faithful(VerdictMap(results), hash)
<1> DEFINE ids == {results[i].id : i \in DOMAIN results}
           last(id) == CHOOSE i \in DOMAIN results :
                         /\ results[i].id = id
                         /\ \A j \in DOMAIN results : results[j].id = id => j <= i
<1>1. VerdictMap(results) = [id \in ids |-> results[last(id)]]
  BY DEF VerdictMap
<1>2. DOMAIN results = 1..Len(results) /\ Len(results) \in Nat
  OBVIOUS
<1>3. ASSUME NEW id \in ids
      PROVE  last(id) \in DOMAIN results /\ results[last(id)].id = id
  <2> DEFINE S == {i \in DOMAIN results : results[i].id = id}
  <2>1. S \in SUBSET (0..Len(results)) /\ S /= {}
    BY <1>2
  <2>2. \E i \in S : \A j \in S : j <= i
    <3> HIDE DEF S
    <3> QED BY <1>2, <2>1, GreatestBelow
  <2>3. \E i \in DOMAIN results :
          /\ results[i].id = id
          /\ \A j \in DOMAIN results : results[j].id = id => j <= i
    BY <2>2
  <2> QED BY <2>3
<1>4. ids \in SUBSET STRING
  <2>1. \A i \in DOMAIN results : results[i] \in Judgements
    BY <1>2
  <2> QED BY <2>1 DEF Judgements
<1> HIDE DEF ids, last
<1>5. \A id \in ids : results[last(id)] \in Judgements
  BY <1>2, <1>3
<1>6. VerdictMap(results) \in [ids -> Judgements]
  BY <1>1, <1>5
<1>7. VerdictMap(results) \in Memos
  BY <1>4, <1>6 DEF Memos
<1>8. Faithful(VerdictMap(results), hash)
  BY <1>1, <1>2, <1>3 DEF Faithful
<1> QED BY <1>7, <1>8

\* Snapshot and verdicts enter the memory together.
LEMMA RememberKeeps ==
  ASSUME EngineInv, NEW r \in Runs, Remember(r)
  PROVE  EngineInv'
<1> DEFINE x == [run[r] EXCEPT !.pc = "done"]
<1>0. run \in [Runs -> RunStates] /\ run[r] \in RunStates /\ Sound(run[r])
  BY RunInv DEF Sound
<1>1. run' = [run EXCEPT ![r] = x]
  BY <1>0 DEF Remember
<1>2. x \in RunStates
  BY <1>0 DEF RunStates
<1>3. Len(run[r].results) = Len(run[r].checks)
  BY BatchFits DEF Remember
<1>4. Sound(x)
  BY <1>0, <1>3 DEF Sound, SeenIsCached, ResultsFit, RunStates
<1>5. lastResults' \in Memos /\ Faithful(lastResults', lastHash')
  <2>1. /\ run[r].results \in Seq(Judgements)
        /\ \A i \in 1..Len(run[r].results) : run[r].results[i].basis = run[r].snapshot
    BY <1>0 DEF RunStates, Sound, ResultsFit
  <2>2. /\ VerdictMap(run[r].results) \in Memos
        /\ Faithful(VerdictMap(run[r].results), run[r].snapshot)
    BY <2>1, VerdictMapFaithful
  <2> QED BY <2>2 DEF Remember
<1>6. lastHash' \in Views /\ cluster' \in [Parts -> Int]
  BY <1>0 DEF Remember, RunStates, EngineInv, Types
<1> HIDE DEF x
<1>7. /\ run' \in [Runs -> RunStates]
      /\ \A q \in Runs : run'[q] = IF q = r THEN x ELSE run[q]
  BY <1>0, <1>1, <1>2
<1>8. \A q \in Runs : Sound(run'[q])
  BY <1>4, <1>7 DEF EngineInv
<1> QED BY <1>5, <1>6, <1>7, <1>8 DEF EngineInv, Types

\* A step of the engine, of the cluster or of nobody keeps the invariant.
LEMMA StepKeeps == EngineInv /\ [Next]_vars => EngineInv'
<1> SUFFICES ASSUME EngineInv, [Next]_vars PROVE EngineInv'
  OBVIOUS
<1>1. ASSUME ClusterChanges PROVE EngineInv'
  <2>1. PICK part \in Changing : cluster' = [cluster EXCEPT ![part] = 1 - @]
    BY <1>1 DEF ClusterChanges
  <2>2. cluster' \in [Parts -> Int]
    BY <2>1, EngineConstants DEF EngineInv, Types
  <2> QED BY <1>1, <2>2 DEF ClusterChanges, EngineInv, Types
<1>2. ASSUME NEW r \in Runs, Return(r) PROVE EngineInv'
  BY <1>2, IdleIsSound, OneRun DEF Return
<1>3. CASE UNCHANGED vars
  BY <1>3 DEF vars, EngineInv, Types
<1> QED BY <1>1, <1>2, <1>3, RunChecksKeeps, CallToolKeeps, ReadPreviousKeeps, ReuseKeeps,
           AskKeeps, LLMCallsToolKeeps, VerifyBatchKeeps, RememberKeeps DEF Next

\* The invariant: the memory and every run's copy of it hold verdicts given on the
\* snapshot stored with them, a run's cache has all it was told, and its results are
\* those of its first checks, on its snapshot.
THEOREM EngineInvariant == Spec => []EngineInv
BY InitEngineInv, StepKeeps, PTL DEF Spec
-----------------------------------------------------------------------------
\* RunChecks (engine.go) answers every check of its list, in order, with one of the
\* three verdicts, for every list of checks and every batch size.
THEOREM EveryCheckIsJudged == Spec => []EveryCheckJudged
<1>1. EngineInv => EveryCheckJudged
  <2> SUFFICES ASSUME EngineInv, NEW r \in Runs, run[r].pc = "done"
               PROVE  /\ [i \in DOMAIN run[r].results |-> run[r].results[i].id]
                           = run[r].checks
                      /\ \A i \in DOMAIN run[r].results :
                           run[r].results[i].verdict \in Verdicts
    BY DEF EveryCheckJudged
  <2>1. /\ run[r].results \in Seq(Judgements) /\ run[r].checks \in Seq(STRING)
        /\ Len(run[r].results) = Len(run[r].checks)
        /\ \A i \in 1..Len(run[r].results) : run[r].results[i].id = run[r].checks[i]
    BY RunInv DEF RunStates, ResultsFit
  <2>2. \A i \in DOMAIN run[r].results : run[r].results[i].verdict \in Verdicts
    <3>1. \A i \in DOMAIN run[r].results : run[r].results[i] \in Judgements
      BY <2>1
    <3> QED BY <3>1 DEF Judgements
  <2>3. [i \in DOMAIN run[r].results |-> run[r].results[i].id] = run[r].checks
    BY <2>1
  <2> QED BY <2>2, <2>3
<1> QED BY <1>1, EngineInvariant, PTL

\* Every verdict RunChecks returns was given on the run's own snapshot, reused or
\* fresh, however many runs replace the shared memory (engine.go) in between.
THEOREM VerdictsMatchSnapshots == Spec => []VerdictMatchesSnapshot
<1>1. EngineInv => VerdictMatchesSnapshot
  <2> SUFFICES ASSUME EngineInv, NEW r \in Runs, NEW i \in DOMAIN run[r].results
               PROVE  run[r].results[i].basis = run[r].snapshot
    BY DEF VerdictMatchesSnapshot
  <2>1. /\ run[r].results \in Seq(Judgements)
        /\ \A j \in 1..Len(run[r].results) : run[r].results[j].basis = run[r].snapshot
    BY RunInv DEF RunStates, ResultsFit
  <2> QED BY <2>1
<1> QED BY <1>1, EngineInvariant, PTL

\* CachingRegistry (tool/cache.go) answers the same call of a run in the same way,
\* for all tools and parameters and however the cluster changes.
THEOREM OneViewPerRunHolds == Spec => []OneViewPerRun
<1>1. EngineInv => OneViewPerRun
  BY RunInv DEF OneViewPerRun, SeenIsCached
<1> QED BY <1>1, EngineInvariant, PTL
=============================================================================
