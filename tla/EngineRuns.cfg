SPECIFICATION Spec
CONSTANTS
  CheckLists <- FullAndRescans
  Runs = {r1, r2}
  BatchSize = 2
  Changing = {"pods"}
  Flaky = {"list_pods"}
  LLMCalls <- NodesAndPods
  LLMVerdicts = {"PASS"}
INVARIANTS EveryCheckJudged VerdictMatchesSnapshot OneViewPerRun
SYMMETRY AnyRun
