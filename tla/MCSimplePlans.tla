---------------------------- MODULE MCSimplePlans ----------------------------
(* Every plan over NodeCount nodes, each node computed for an output's sake. *)
EXTENDS MCSimpleState

Graphs == {g \in [MCNode -> SUBSET MCNode] : \A n \in MCNode : g[n] \subseteq 1 .. (n - 1)}
Kinds(graph) ==
    {kind \in [MCNode -> Kind] :
        \A n \in MCNode : kind[n] \in IF graph[n] = {} THEN {"const", "source", "op"}
                                                       ELSE {"op", "cache", "range"}}
Outputs(graph, kind) ==
    {outputs \in SUBSET MCNode :
        /\ outputs # {}
        /\ \A n \in MCNode \ outputs : \E m \in MCNode : n \in graph[m]
        /\ \A n \in outputs : kind[n] # "const"}

\* Outputs are not constants, so that every node that is not one is computed.
\* The scenarios differ where the past length counts.
Scopes(kind) ==
    IF \E n \in MCNode : kind[n] = "cache" THEN {TestScenarios, PastScenarios}
                                          ELSE {TestScenarios}
SmallPlans ==
    UNION {UNION {{PlanOf(graph, kind, outputs, {n \in MCNode : kind[n] # "const"}, scope) :
                        outputs \in Outputs(graph, kind), scope \in Scopes(kind)}
                  : kind \in Kinds(graph)}
           : graph \in Graphs}
==============================================================================
