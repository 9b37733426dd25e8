---------------------------- MODULE MCDeviceArena ----------------------------
(* Instances of DeviceArena for TLC: the device plans over NodeCount nodes   *)
(* whose forwarders are planned.                                             *)
EXTENDS DeviceArena, MCSimpleState, TLC

DevicePlan(graph, kind, outputs, host, forwards, size) ==
    [device |-> MCNode \ host, forwards |-> forwards, size |-> size] @@
    PlanOf(graph, kind, outputs, MCNode, <<>>)

\* The first node is an input or an op that reads nothing; the others read one
\* or two of those before them.
DeviceGraphs ==
    {g \in [MCNode -> {s \in SUBSET MCNode : Cardinality(s) <= 2}] :
        /\ g[1] = {}
        /\ \A n \in MCNode \ {1} : g[n] # {} /\ g[n] \subseteq 1 .. (n - 1)}
Unread(graph) == {n \in MCNode : \A m \in MCNode : n \notin graph[m]}

\* Beyond the nodes nobody reads, the node before the last may be returned; a
\* host node only copies what it reads.
OutputSets(graph) == {Unread(graph), Unread(graph) \cup {NodeCount - 1}}
HostSets(graph) == {{}} \cup {{n} : n \in {m \in Unread(graph) : Cardinality(graph[m]) = 1}}
MayForward(graph, host) ==
    {n \in MCNode \ host : Cardinality(graph[n]) = 1 /\ \A m \in host : n \notin graph[m]}

\* Without an input, nothing but the graph makes plans differ.  With one, callers
\* feed back what they hold, extents differ, and so do sizes.
GraphsWithHosts == {pair \in DeviceGraphs \X SUBSET MCNode : pair[2] \in HostSets(pair[1])}
Kinds(first) == [n \in MCNode |-> IF n = 1 THEN first ELSE "op"]
Sizes(largest) == [n \in MCNode |-> IF n = largest THEN 2 ELSE 1]
PlansWithoutInput ==
    UNION {{DevicePlan(graph, Kinds("op"), outputs, host, forwards, Sizes(0)) :
               outputs \in OutputSets(graph), forwards \in SUBSET MayForward(graph, host)}
           : <<graph, host>> \in GraphsWithHosts}
PlansWithInput ==
    UNION {{DevicePlan(graph, Kinds("source"), outputs, host, MayForward(graph, host),
                       Sizes(NodeCount)) : outputs \in OutputSets(graph)}
           : <<graph, host>> \in GraphsWithHosts}

\* An input feeding a cache, in a session that cannot be without a past.
CachePlan ==
    [device |-> MCNode, forwards |-> {}, size |-> Sizes(0)] @@
    PlanOf([n \in MCNode |-> {n - 1} \ {0}],
           [n \in MCNode |-> IF n = 1 THEN "source" ELSE IF n = 2 THEN "cache" ELSE "op"],
           {NodeCount}, MCNode, PastScenarios)

ForwardingPlans == PlansWithoutInput \cup PlansWithInput \cup {CachePlan}
==============================================================================
