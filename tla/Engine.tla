------------------------------- MODULE Engine -------------------------------
(***************************************************************************)
(* The verification engine of one scheduler                                *)
(* (operator/internal/engine/engine.go, tool/registry.go, tool/cache.go):  *)
(* RunChecks takes a snapshot of the cluster with the snapshot tools,      *)
(* reuses the previous verdicts when the snapshot is the one they were     *)
(* given for, and otherwise asks the LLM batch by batch and remembers the  *)
(* snapshot and the verdicts.  Runs overlap (full scan, rescan, Run Now)   *)
(* and share the memory, which they read and write under one lock each.    *)
(* Every run has a tool cache of its own.                                  *)
(*                                                                         *)
(* A tool call is a pair <<tool, parameters>>.  A snapshot is the set of   *)
(* <<call, content>> pairs collected; it stands for its hash.  History:    *)
(* the field basis of a verdict says on which snapshot it was given; the   *)
(* field seen of a run holds all answers its tool calls got.               *)
(***************************************************************************)
EXTENDS Integers, Sequences, FiniteSets

CONSTANTS
  CheckLists,  \* lists of checks (sequences of IDs) RunChecks is called with
  Runs,        \* goroutines that may be in RunChecks
  BatchSize,   \* checks per LLM call; 5 in the build
  Changing,    \* the parts of the cluster that change
  Flaky,       \* the registered tools whose calls may fail
  LLMCalls,    \* the calls, <<tool, parameters>>, the LLM makes
  LLMVerdicts  \* the verdicts the LLM gives

\* What the snapshot tools look at.
Parts == {"pods", "nodes", "events"}

ASSUME EngineConstants ==
  /\ BatchSize \in Nat \ {0}
  /\ Changing \subseteq Parts
  /\ LLMVerdicts \subseteq {"PASS", "WARN", "FAIL"}
  /\ \A list \in CheckLists : list \in Seq(STRING)

VARIABLES
  cluster,      \* the content of each part of the cluster
  lastHash,     \* snapshotHashes: the snapshot of the last verdicts
  lastResults,  \* lastResults: the last verdicts, a function on check IDs
  run           \* the calls of RunChecks in progress

vars == <<cluster, lastHash, lastResults, run>>
-----------------------------------------------------------------------------
Verdicts == {"PASS", "WARN", "FAIL"}

\* The calls of collectSnapshot, their parameters the "empty" object, and the tools
\* reconcileScheduler registers.
snapshotTools ==
  <<<<"list_pods", "empty">>, <<"list_nodes", "empty">>, <<"get_events", "empty">>>>

Registered == {"list_pods", "list_nodes", "list_events", "list_pdbs", "list_hpas",
               "list_images", "get_logs"}

\* What a call returns of the cluster: how its part of it stands now, narrowed by
\* the parameters to a namespace or a selector, which leave the version as it is.
Content(call) ==
  cluster[CASE call[1] = "list_pods"  -> "pods"
            [] call[1] = "list_nodes" -> "nodes"
            [] OTHER                  -> "events"]

\* The hash of no snapshot, and the answer of a tool that fails.
None == {<<<<"none", "empty">>, 0>>}
Error == -1

Idle == [pc |-> "idle", checks |-> <<>>, tool |-> 1, cache |-> <<>>, snapshot |-> {},
         seen |-> {}, prevHash |-> None, prevResults |-> <<>>, results |-> <<>>]

Init ==
  /\ cluster = [part \in Parts |-> 0]
  /\ lastHash = None
  /\ lastResults = <<>>
  /\ run = [r \in Runs |-> Idle]

\* The cluster changes under the engine's feet.
ClusterChanges ==
  /\ \E part \in Changing : cluster' = [cluster EXCEPT ![part] = 1 - @]
  /\ UNCHANGED <<lastHash, lastResults, run>>

\* RunChecks is called.
RunChecks(r) ==
  /\ run[r].pc = "idle"
  /\ \E list \in CheckLists :
       run' = [run EXCEPT ![r] = [Idle EXCEPT !.pc = "snapshot", !.checks = list]]
  /\ UNCHANGED <<cluster, lastHash, lastResults>>
-----------------------------------------------------------------------------
\* The answers CachingRegistry.Call may give: what the run's cache has under the
\* tool's name and the parameters together, or else what the registry's tool
\* returns now; a tool the registry lacks is an error.
Answers(r, call) ==
  IF call \in DOMAIN run[r].cache THEN {run[r].cache[call]}
  ELSE IF call[1] \in Registered
  THEN {Content(call)} \cup (IF call[1] \in Flaky THEN {Error} ELSE {})
  ELSE {Error}

\* Mutant: answers are not kept.
CachedNever(r, call, answer) == run[r].cache

\* The run's cache after the call: an answer is kept, an error is not.
Cached(r, call, answer) ==
  LET cache == run[r].cache IN
  IF answer = Error THEN cache
  ELSE [k \in DOMAIN cache \cup {call} |-> IF k = call THEN answer ELSE cache[k]]

\* The <<call, answer>> pair of a call, none if it failed.
Got(call, answer) == {<<call, answer>>} \ {<<call, Error>>}

\* collectSnapshot calls one tool after the other and leaves out those that fail.
CallTool(r) ==
  LET call == snapshotTools[run[r].tool] IN
  /\ run[r].pc = "snapshot"
  /\ run[r].tool <= Len(snapshotTools)
  /\ \E answer \in Answers(r, call) :
       run' = [run EXCEPT ![r].tool     = @ + 1,
                          ![r].cache    = Cached(r, call, answer),
                          ![r].snapshot = @ \cup Got(call, answer),
                          ![r].seen     = @ \cup Got(call, answer)]
  /\ UNCHANGED <<cluster, lastHash, lastResults>>

\* The memory is copied under the lock.
ReadPrevious(r) ==
  /\ run[r].pc = "snapshot"
  /\ run[r].tool > Len(snapshotTools)
  /\ run' = [run EXCEPT ![r].pc = "decide", ![r].prevHash = lastHash,
                        ![r].prevResults = lastResults]
  /\ UNCHANGED <<cluster, lastHash, lastResults>>
-----------------------------------------------------------------------------
\* A verdict with its history.
Result(r, id, verdict) ==
  [id |-> id, verdict |-> verdict, basis |-> run[r].snapshot]

\* Mutant: the same snapshot is enough.
AllCachedHashOnly(r) ==
  /\ run[r].prevHash = run[r].snapshot
  /\ run[r].checks /= <<>>

\* All checks asked for have a verdict given for this very snapshot.
AllCached(r) ==
  /\ run[r].prevHash = run[r].snapshot
  /\ run[r].checks /= <<>>
  /\ \A i \in DOMAIN run[r].checks : run[r].checks[i] \in DOMAIN run[r].prevResults

\* The verdict kept for a check; a check that has none gets Go's zero value.
Lookup(r, results, id) ==
  IF id \in DOMAIN results THEN results[id] ELSE Result(r, id, "")

\* Mutant: the shared memory is read again, outside the lock.
ReuseRereads(r) ==
  /\ run[r].pc = "decide"
  /\ AllCached(r)
  /\ run' = [run EXCEPT ![r].pc = "done", ![r].prevHash = None, ![r].prevResults = <<>>,
                        ![r].results = [i \in DOMAIN run[r].checks |->
                          Lookup(r, lastResults, run[r].checks[i])]]
  /\ UNCHANGED <<cluster, lastHash, lastResults>>

\* Reuse the verdicts copied before; nothing is written back.
Reuse(r) ==
  /\ run[r].pc = "decide"
  /\ AllCached(r)
  /\ run' = [run EXCEPT ![r].pc = "done", ![r].prevHash = None, ![r].prevResults = <<>>,
                        ![r].results = [i \in DOMAIN run[r].checks |->
                          Lookup(r, run[r].prevResults, run[r].checks[i])]]
  /\ UNCHANGED <<cluster, lastHash, lastResults>>

Ask(r) ==
  /\ run[r].pc = "decide"
  /\ ~AllCached(r)
  /\ run' = [run EXCEPT ![r].pc = "verify", ![r].prevHash = None,
                        ![r].prevResults = <<>>]
  /\ UNCHANGED <<cluster, lastHash, lastResults>>

\* The next batch: as many checks as are left, BatchSize at most.
Batch(r) ==
  LET from == Len(run[r].results) + 1
      last == from + BatchSize - 1
  IN SubSeq(run[r].checks, from,
            IF last > Len(run[r].checks) THEN Len(run[r].checks) ELSE last)

\* While it works on a batch the LLM calls a tool, through the run's cache.
LLMCallsTool(r) ==
  /\ run[r].pc = "verify"
  /\ Batch(r) /= <<>>
  /\ \E call \in LLMCalls : \E answer \in Answers(r, call) :
       run' = [run EXCEPT ![r].cache = Cached(r, call, answer),
                          ![r].seen  = @ \cup Got(call, answer)]
  /\ UNCHANGED <<cluster, lastHash, lastResults>>

\* Verify or BatchVerify returns.  An error fails the whole batch; a batch that is
\* answered in part fails the checks without an answer.
VerifyBatch(r) ==
  LET batch == Batch(r) IN
  /\ run[r].pc = "verify"
  /\ batch /= <<>>
  /\ \E answered \in 0..Len(batch) :
       \E answers \in [1..answered -> LLMVerdicts] :
         run' = [run EXCEPT ![r].results = @ \o
                   [j \in 1..Len(batch) |->
                      Result(r, batch[j], IF j <= answered THEN answers[j] ELSE "FAIL")]]
  /\ UNCHANGED <<cluster, lastHash, lastResults>>

\* The verdicts by check ID; of two with the same ID the later one is kept.
VerdictMap(results) ==
  [id \in {results[i].id : i \in DOMAIN results} |->
     results[CHOOSE i \in DOMAIN results :
               /\ results[i].id = id
               /\ \A j \in DOMAIN results : results[j].id = id => j <= i]]

\* All batches are done: snapshot and verdicts replace the memory, together.
Remember(r) ==
  /\ run[r].pc = "verify"
  /\ Batch(r) = <<>>
  /\ lastHash' = run[r].snapshot
  /\ lastResults' = VerdictMap(run[r].results)
  /\ run' = [run EXCEPT ![r].pc = "done"]
  /\ UNCHANGED cluster

\* RunChecks returns: no error, whatever happened.
Return(r) ==
  /\ run[r].pc = "done"
  /\ run' = [run EXCEPT ![r] = Idle]
  /\ UNCHANGED <<cluster, lastHash, lastResults>>

Next ==
  \/ ClusterChanges
  \/ \E r \in Runs :
       \/ RunChecks(r) \/ CallTool(r) \/ ReadPrevious(r) \/ Reuse(r) \/ Ask(r)
       \/ LLMCallsTool(r) \/ VerifyBatch(r) \/ Remember(r) \/ Return(r)

Spec == Init /\ [][Next]_vars
-----------------------------------------------------------------------------
\* RunChecks answers every check it was asked for, in order, with one of the
\* three verdicts: whatever the batches, the errors, and the lists of checks that
\* earlier runs left in the memory.
EveryCheckJudged ==
  \A r \in Runs :
    run[r].pc = "done" =>
      /\ [i \in DOMAIN run[r].results |-> run[r].results[i].id] = run[r].checks
      /\ \A i \in DOMAIN run[r].results : run[r].results[i].verdict \in Verdicts

\* Every verdict RunChecks returns was given on the snapshot the run itself has
\* taken, be it fresh or reused, although other runs replace the memory between
\* any two of its steps.
VerdictMatchesSnapshot ==
  \A r \in Runs :
    run[r].pc = "done" =>
      \A i \in DOMAIN run[r].results : run[r].results[i].basis = run[r].snapshot

\* Within one run, the same call (tool and parameters) always gets the same answer,
\* as CachingRegistry promises, although the cluster changes while the LLM works,
\* over the snapshot and all batches.  It is no promise about the tool: a call with
\* other parameters is read afresh and may contradict the snapshot, and so it is
\* for the pods, which the snapshot lists with {} and the LLM by namespace.
OneViewPerRun ==
  \A r \in Runs : \A a, b \in run[r].seen : a[1] = b[1] => a[2] = b[2]
=============================================================================
