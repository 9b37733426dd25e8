---------------------------- MODULE MCSimpleState ----------------------------
(* How the instances of SimpleState for TLC write their plans.               *)
EXTENDS SimpleState

CONSTANT NodeCount   \* nodes of the graphs

\* Ids in topological order lose nothing: a plan uses them as names only.
MCNode == 1 .. NodeCount
Ascending(nodes) == SelectSeq([n \in MCNode |-> n], LAMBDA n : n \in nodes)
PlanOf(graph, kind, outputs, computed, scenarios) ==
    [preds |-> graph, kind |-> kind, outputs |-> outputs, order |-> Ascending(computed),
     inputs |-> Ascending({n \in MCNode : kind[n] = "source"}), scenarios |-> scenarios]

\* The two scenarios of the tests of assertion.rs, "S==1" and "P==0", and one
\* that a session without a past cannot be in.
TestScenarios == <<[symbol |-> "S", extent |-> 1], [symbol |-> "P", extent |-> 0]>>
PastScenarios == <<[symbol |-> "P", extent |-> 1]>>
==============================================================================
