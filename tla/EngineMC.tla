------------------------------ MODULE EngineMC ------------------------------
(***************************************************************************)
(* Constants for model checking Engine.                                    *)
(***************************************************************************)
EXTENDS Engine, TLC

\* A full scan of more than one batch, a rescan, and a rescan of checks the policy
\* no longer has.
FullAndRescans == {<<"a", "b", "c">>, <<"c">>, <<>>}

\* The LLM lists the nodes as the snapshot does, and the pods of a namespace.
NodesAndPods == {<<"list_nodes", "empty">>, <<"list_pods", "namespace">>}

\* Runs are interchangeable.
AnyRun == Permutations(Runs)
=============================================================================
