---------------------------- MODULE MCEvalOrder ----------------------------
(* Small graphs to order.                                                    *)
EXTENDS EvalOrder

MCNode == 1 .. 4

Wiring(preds) == [n \in MCNode |-> Ascending(preds[n])]
LeavesOf(wires) == {n \in MCNode : wires[n] = <<>>}
NoSymbols == [n \in MCNode |-> {}]

(* Every graph over three nodes, loops included, the fourth being dead, and  *)
(* every choice of inputs among its leaves and of one or two outputs.  A     *)
(* node may read the same node twice, as in the test diamond.                *)
SmallWirings ==
    {Wiring(preds) : preds \in {p \in [MCNode -> SUBSET (1 .. 3)] : p[4] = {}}}
    \cup {[n \in MCNode |-> IF n = 3 THEN <<1, 1>> ELSE <<>>],
          [n \in MCNode |-> CASE n = 1 -> <<2, 2>> [] n = 2 -> <<3, 3>> [] OTHER -> <<>>]}
SmallOutputs == {<<n>> : n \in 1 .. 3} \cup {<<1, 2>>, <<2, 1>>, <<1, 3>>, <<3, 2>>}

ModelsOver(wires, outputs, skips) ==
    {[wires |-> wires, inputs |-> Ascending(inputs), outputs |-> out,
      consts |-> (LeavesOf(wires) \ {4}) \ inputs,
      shapes |-> NoSymbols, mentions |-> NoSymbols, mints |-> {}, skipRam |-> skip] :
        inputs \in SUBSET (LeavesOf(wires) \ {4}), out \in outputs, skip \in skips}

Graphs == UNION {ModelsOver(wires, SmallOutputs, {FALSE}) : wires \in SmallWirings}

(* Every graph over four nodes without a loop where all nodes are computed,  *)
(* with a node that mints symbol 1 and the nodes that mention it, inputs     *)
(* excepted: what a source mentions is in its shape, and is its own.         *)
Rank(preds) ==
    LET rank[k \in 0 .. 4] ==
            IF k = 0 THEN {}
                     ELSE {n \in MCNode : preds[n] \subseteq rank[k - 1]}
    IN  rank[4]
Acyclic == {preds \in [MCNode -> SUBSET MCNode] :
                (\A n \in MCNode : n \notin preds[n]) /\ Rank(preds) = MCNode}
Sinks(preds) == {n \in MCNode : \A m \in MCNode : n \notin preds[m]}

Consumers(minter, inputs) ==
    LET able == MCNode \ ({minter} \cup inputs) IN {{n} : n \in able} \cup {able}
Carry(n, s) == [m \in MCNode |-> IF m = n THEN {s} ELSE {}]

MintingOver(preds) ==
    LET wires == Wiring(preds)
        leaves == LeavesOf(wires)
        inputs == {Min(leaves)}
    IN  {[wires |-> wires, inputs |-> Ascending(inputs), outputs |-> Ascending(Sinks(preds)),
          consts |-> {},
          shapes |-> Carry(pick[1], 1),
          mentions |-> [n \in MCNode |-> IF n \in pick[2] THEN {1} ELSE {}],
          mints |-> {pick[1]}, skipRam |-> pick[3]] :
            pick \in UNION {{<<minter, consumers, FALSE>> :
                                consumers \in Consumers(minter, inputs)}
                            : minter \in MCNode \ leaves}}

Minting == UNION {MintingOver(preds) : preds \in Acyclic}

(* Two minting nodes, of two symbols or of the same one, side by side under  *)
(* two inputs; an input may carry the symbol too.                            *)
Claimed ==
    {[wires |-> [n \in MCNode |-> IF n \in {1, 2} THEN <<4>> ELSE IF n = 3 THEN last ELSE <<>>],
      inputs |-> <<4>>, outputs |-> outputs, consts |-> {},
      shapes |-> [n \in MCNode |-> IF n = 4 THEN carried ELSE shapes[n]],
      mentions |-> [n \in MCNode |-> IF n = 4 THEN {} ELSE mentions[n]],
      mints |-> {1, 2, 4}, skipRam |-> skip] :
        last \in {<<1>>, <<2>>, <<4>>}, outputs \in {<<1, 2, 3>>, <<3, 2, 1>>},
        carried \in {{}, {1}},
        shapes \in {[n \in 1 .. 3 |-> IF n = 3 THEN {} ELSE IF n = 1 THEN {1} ELSE second] :
                        second \in {{1}, {2}, {1, 2}}},
        mentions \in [1 .. 3 -> {{}, {1}, {2}}], skip \in BOOLEAN}

MCModels == Graphs \cup Minting \cup Claimed
=============================================================================
