----------------------------- MODULE WholeModel -----------------------------
(***************************************************************************)
(* A source model run in batch, its streaming symbol bound to the length   *)
(* of the input: the reference that the pulsed model is compared to.       *)
(*                                                                         *)
(* A model is a sequence of nodes.  Node n reads the wires in `from': wire *)
(* 0 is the source, wire n the output of node n.  The last one is read.    *)
(***************************************************************************)
EXTENDS Frames

ScanStart == 2000000   \* the initial value of a scan's hidden state

\* What there is of operators, and their settings: usize, as the code has them.
SourceOp ==
    [kind : {"pad"}, from : Seq(Nat), before : Nat, after : Nat, mode : {"constant", "edge"}]
    \cup [kind : {"conv", "pool"}, from : Seq(Nat), size : Nat \ {0}, stride : Nat \ {0},
          dilation : Nat \ {0}, before : Nat, after : Nat]
    \cup [kind : {"downsample"}, from : Seq(Nat), stride : Nat \ {0}, modulo : Nat]
    \cup [kind : {"slice"}, from : Seq(Nat), start : Nat, drop : Nat]
    \cup [kind : {"concat"}, from : Seq(Nat), pre : Seq(Int), post : Seq(Int)]
    \cup [kind : {"cumsum"}, from : Seq(Nat), exclusive : BOOLEAN]
    \cup [kind : {"scan", "sum"}, from : Seq(Nat)]
    \cup [kind : {"deconv"}, from : Seq(Nat), size : Nat \ {0}, stride : Nat \ {0},
          before : Nat, after : Nat]

\* An operator reads what was wired before it; a sum reads two wires.
IsGraph(graph) ==
    /\ graph \in Seq(SourceOp)
    /\ \A n \in 1 .. Len(graph) :
          /\ Len(graph[n].from) = IF graph[n].kind = "sum" THEN 2 ELSE 1
          /\ \A k \in 1 .. Len(graph[n].from) : graph[n].from[k] < n

Batch(op, ins) ==
    LET x == ins[1]
    IN  CASE op.kind = "pad" -> Padded(x, op.before, op.after, op.mode, PadValue)
          [] op.kind = "conv" ->
                Convolved(Padded(x, op.before, op.after, "constant", Silence), op)
          [] op.kind = "pool" ->
                Pooled(Padded(x, op.before, op.after, "constant", Lowest), op)
          [] op.kind = "downsample" -> Sampled(x, op.stride, op.modulo)
          [] op.kind = "slice" -> SubSeq(x, op.start + 1, Len(x) - op.drop)
          [] op.kind = "concat" -> op.pre \o x \o op.post
          [] op.kind = "cumsum" -> Cumulated(x, Silence, op.exclusive)
          [] op.kind = "scan" -> Cumulated(x, ScanStart, FALSE)
          [] op.kind = "deconv" ->
                LET full == Deconvolved(x, op, 0)
                IN  SubSeq(full, op.before + 1, Len(full) - op.after)
          [] op.kind = "sum" -> [i \in 1 .. Len(x) |-> x[i] + ins[2][i]]

\* The frames on every wire.  A length that empties a wire leaves nothing to
\* compare, and nothing is run.
Run(wires, op) ==
    Append(wires, IF <<>> \in ToSet(wires) THEN <<>>
                  ELSE Batch(op, [k \in 1 .. Len(op.from) |-> wires[op.from[k] + 1]]))
Wires(graph, input) ==
    LET wires[n \in 0 .. Len(graph)] ==
            IF n = 0 THEN <<input>> ELSE Run(wires[n - 1], graph[n])
    IN  wires[Len(graph)]

Reference(graph, input) == Last(Wires(graph, input))

Stream(signal, len) == [i \in 1 .. len |-> SignalFrame(signal, i)]

IsRunnable(graph, len) == <<>> \notin ToSet(Wires(graph, Stream(1, len)))
=============================================================================
