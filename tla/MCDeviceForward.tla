--------------------------- MODULE MCDeviceForward ---------------------------
(* One instance of DeviceArena: a forwarder whose output is read by a host   *)
(* node, and so is not planned, after another node ran.                      *)
EXTENDS DeviceArena, MCSimpleState

\* An input, an op, a node that hands the op's value on, an op that is returned,
\* and the copy to the host of what was handed on, returned too.
HandedToHostPlan ==
    [preds |-> <<{}, {1}, {2}, {3}, {3}>>,
     kind |-> <<"source", "op", "op", "op", "op">>,
     order |-> <<1, 2, 3, 4, 5>>, inputs |-> <<1>>, outputs |-> {4, 5}, scenarios |-> <<>>,
     device |-> 1 .. 4, forwards |-> {3}, size |-> <<1, 1, 1, 1, 1>>]

HandedToHost == {HandedToHostPlan}
==============================================================================
