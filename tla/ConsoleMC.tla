----------------------------- MODULE ConsoleMC -----------------------------
(* Policies and results for the model of the console.                      *)
EXTENDS Console

TwoNamespaces == [name : {"p"}, namespace : {"ops", "dtm-system"}]

OnePolicy ==
  {Policy([name |-> "p", namespace |-> "ops"],
          [config |-> "stored", rescan |-> "stored", targets |-> <<"ops">>,
           checks |-> <<[id |-> 2, description |-> "stored"]>>, hidden |-> TRUE])}

\* What the form would not make: a namespace that is named twice.
OtherPolicy ==
  [config |-> "default", targets |-> <<"ops", "ops">>,
   checks |-> <<[id |-> 1, description |-> "stored"]>>]

Numbers(pass, warn, fail) == [pass |-> pass, warn |-> warn, fail |-> fail, none |-> FALSE]

\* Two results of the same moment, one of another policy with the same number of
\* checks and one ID for both, one found by the search, one without a summary.
FourResults ==
  {[place |-> 1, time |-> 1, policy |-> "a", type |-> "FullScan", hit |-> TRUE,
    summary |-> Numbers(1, 1, 0), checks |-> <<"c1", "c2">>],
   [place |-> 2, time |-> 1, policy |-> "a", type |-> "Rescan", hit |-> FALSE,
    summary |-> Numbers(0, 1, 1), checks |-> <<"c1", "c2">>],
   [place |-> 3, time |-> 2, policy |-> "b", type |-> "FullScan", hit |-> FALSE,
    summary |-> Numbers(2, 0, 0), checks |-> <<"d1", "d1">>],
   [place |-> 4, time |-> 3, policy |-> "b", type |-> "FullScan", hit |-> TRUE,
    summary |-> NoSummary, checks |-> <<>>]}

ThreeResults == {r \in FourResults : r.place /= 3}
=============================================================================
