------------------------------ MODULE Pulsify ------------------------------
(***************************************************************************)
(* Pulsification: a source model becomes one that is run on a pulse of     *)
(* frames at a time (pulse/src/model.rs and pulse/src/ops/).               *)
(*                                                                         *)
(* A wire of the pulsed model carries a fact: how many frames of it come   *)
(* with a pulse, how many come before the first valid one (delay), and how *)
(* many of those there are (dim), a function of the length of the stream.  *)
(* Wire 0 is the source; wire n the output of node n.  Each function below *)
(* stands for a pulsify() and the pulsed_output_facts() of what it wires.  *)
(***************************************************************************)
EXTENDS Frames

CONSTANT MaxLen   \* streams of 1 .. MaxLen frames

ASSUME MaxLenAssumption == MaxLen \in Nat

Lengths == 0 .. MaxLen

\* A pulsed model under construction: at[n] is the wire of source node n - 1.
Started(pulse) ==
    [nodes |-> <<>>, at |-> <<0>>, ok |-> TRUE,
     facts |-> <<[pulse |-> pulse, delay |-> 0, dim |-> [s \in Lengths |-> s]]>>]

Refused(p) == [p EXCEPT !.ok = FALSE]

FactOf(p, wire) == p.facts[wire + 1]
NewWire(p) == Len(p.nodes)

Wired(p, node, fact) ==
    [nodes |-> Append(p.nodes, node), at |-> p.at, ok |-> p.ok, facts |-> Append(p.facts, fact)]

Longer(dim, more) == [s \in Lengths |-> dim[s] + more]

\* A Delay; its overlap is the past of a window, not zero padding.
WiredDelay(p, from, delay, overlap) ==
    LET fact == FactOf(p, from)
    IN  Wired(p, [kind |-> "delay", from |-> <<from>>, delay |-> delay, overlap |-> overlap],
              [pulse |-> fact.pulse + overlap, delay |-> fact.delay + delay + overlap,
               dim |-> fact.dim])

DelayedBy(p, from, delay) == IF delay > 0 THEN WiredDelay(p, from, delay, 0) ELSE p
EndOf(p, wire, q) == IF Len(p.nodes) = Len(q.nodes) THEN wire ELSE NewWire(q)

WiredPad(p, from, op, mode, value, overlap) ==
    LET fact == FactOf(p, from)
    IN  Wired(p, [kind |-> "pad", from |-> <<from>>, mode |-> mode, value |-> value,
                  before |-> op.before, after |-> op.after, overlap |-> overlap,
                  begin |-> fact.delay, end |-> Longer(fact.dim, fact.delay)],
              [pulse |-> fact.pulse, delay |-> fact.delay - op.before,
               dim |-> Longer(fact.dim, op.before + op.after)])

(* Pad.  An edge has to lie in the pulse of the first valid frame.           *)
PulsifiedPad(p, op) ==
    LET from == p.at[op.from[1] + 1]
        fact == FactOf(p, from)
        fit == Positive(op.before - fact.delay)
        offset == (fact.delay + fit) % fact.pulse
        align == IF op.mode = "edge" THEN Positive(op.before - offset) ELSE 0
        q == DelayedBy(p, from, fit + align)
    IN  IF op.mode = "edge" /\ op.before >= fact.pulse THEN Refused(p)
        ELSE WiredPad(q, EndOf(p, from, q), op, op.mode, PadValue, 0)

(* Convolutions and pools: the past of the first window, padding, and the    *)
(* operator itself, without padding, on every pulse.                        *)
PulsifiedPooled(p, op, value) ==
    LET from == p.at[op.from[1] + 1]
        fact == FactOf(p, from)
        kernel == KernelLen(op.size, op.dilation)
        overlap == Positive(kernel + 1 - op.stride)
        late == Positive(op.before - fact.delay - overlap)
        misaligned == (fact.delay + overlap + late - op.before) % op.stride
        extra == late + (IF misaligned > 0 THEN op.stride - misaligned ELSE 0)
        q == IF overlap > 0 \/ extra > 0 THEN WiredDelay(p, from, extra, overlap) ELSE p
        r == IF op.before + op.after > 0
             THEN WiredPad(q, EndOf(p, from, q), op, "constant", value, overlap) ELSE q
        input == EndOf(p, from, r)
        seen == FactOf(r, input)
    IN  IF fact.pulse % op.stride # 0 THEN Refused(p)
        ELSE Wired(r, [kind |-> op.kind, from |-> <<input>>, size |-> op.size,
                       stride |-> op.stride, dilation |-> op.dilation],
                   [pulse |-> WindowCount(seen.pulse, op.size, op.stride, op.dilation),
                    delay |-> seen.delay \div op.stride,
                    dim |-> [s \in Lengths |-> CeilDiv(seen.dim[s] - kernel, op.stride)]])

PulsifiedConv(p, op) == PulsifiedPooled(p, op, Silence)
PulsifiedMaxPool(p, op) == PulsifiedPooled(p, op, Lowest)

(* A slice at run time is the identity: only the fact knows.                 *)
WiredSlice(p, from, skip, dim) ==
    LET fact == FactOf(p, from)
    IN  Wired(p, [kind |-> "identity", from |-> <<from>>],
              [pulse |-> fact.pulse, delay |-> fact.delay + skip, dim |-> dim])

\* Mutant: the frames dropped at the end are still counted.
PulsifiedSliceByStart(p, op) ==
    LET from == p.at[op.from[1] + 1]
    IN  WiredSlice(p, from, op.start, Longer(FactOf(p, from).dim, -op.start))

PulsifiedSlice(p, op) ==
    LET from == p.at[op.from[1] + 1]
    IN  WiredSlice(p, from, op.start, Longer(FactOf(p, from).dim, -(op.start + op.drop)))

PulsifiedDownsample(p, op) ==
    LET from == p.at[op.from[1] + 1]
        fact == FactOf(p, from)
        first == fact.delay + op.modulo
        q == Wired(p, [kind |-> "downsample", from |-> <<from>>,
                       stride |-> op.stride, modulo |-> first % op.stride],
                   [pulse |-> fact.pulse \div op.stride, delay |-> 0,
                    dim |-> [s \in Lengths |-> CeilDiv(fact.dim[s] + fact.delay, op.stride)]])
    IN  IF fact.pulse % op.stride # 0 THEN Refused(p)
        ELSE WiredSlice(q, NewWire(q), first \div op.stride,
                        [s \in Lengths |-> CeilDiv(fact.dim[s] - op.modulo, op.stride)])

(* A running sum and a scan leave the frames before the stream alone.        *)
PulsifiedCumSum(p, op) ==
    LET from == p.at[op.from[1] + 1] fact == FactOf(p, from)
    IN  Wired(p, [kind |-> "cumsum", from |-> <<from>>, skip |-> fact.delay,
                  exclusive |-> op.exclusive], fact)

PulsifiedScan(p, op) ==
    LET from == p.at[op.from[1] + 1] fact == FactOf(p, from)
    IN  Wired(p, [kind |-> "scan", from |-> <<from>>, skip |-> fact.delay], fact)

(* Constants before and after the stream: it arrives late enough for the    *)
(* first ones.                                                              *)
PulsifiedConcat(p, op) ==
    LET from == p.at[op.from[1] + 1]
        fact == FactOf(p, from)
        q == DelayedBy(p, from, Positive(Len(op.pre) - fact.delay))
        input == EndOf(p, from, q)
        seen == FactOf(q, input)
    IN  Wired(q, [kind |-> "concat", from |-> <<input>>, pre |-> op.pre, post |-> op.post,
                  delay |-> seen.delay, len |-> fact.dim],
              [pulse |-> seen.pulse, delay |-> seen.delay - Len(op.pre),
               dim |-> Longer(seen.dim, Len(op.pre) + Len(op.post))])

(* A transposed convolution: frames out of the stream are zeroed, each pulse *)
(* is spread, and the overlap of two pulses added up.  The kernel is not     *)
(* dilated: the overlap would be (size - 1) times the dilation.              *)
PulsifiedDeconv(p, op) ==
    LET from == p.at[op.from[1] + 1]
        fact == FactOf(p, from)
        overlap == op.size - 1
        q == Wired(p, [kind |-> "mask", from |-> <<from>>,
                       begin |-> fact.delay, end |-> Longer(fact.dim, fact.delay)], fact)
        spread == [s \in Lengths |-> (fact.dim[s] - 1) * op.stride + op.size
                                         - op.before - op.after]
        r == Wired(q, [kind |-> "deconv", from |-> <<NewWire(q)>>,
                       size |-> op.size, stride |-> op.stride],
                   [pulse |-> fact.pulse * op.stride + overlap, delay |-> fact.delay,
                    dim |-> spread])
    IN  Wired(r, [kind |-> "deconvdelay", from |-> <<NewWire(r)>>, overlap |-> overlap,
                  delay |-> op.before + fact.delay, stride |-> op.stride,
                  inputDim |-> [s \in Lengths |-> (fact.dim[s] - 1) * op.stride + 1]],
              [pulse |-> fact.pulse * op.stride, delay |-> op.before + fact.delay,
               dim |-> spread])

(* An operator that knows no time: its inputs are made to arrive together.   *)
PulsifiedSum(p, op) ==
    LET a == p.at[op.from[1] + 1]
        b == p.at[op.from[2] + 1]
        latest == Max({FactOf(p, a).delay, FactOf(p, b).delay})
        q == DelayedBy(p, a, latest - FactOf(p, a).delay)
        r == DelayedBy(q, b, latest - FactOf(p, b).delay)
    IN  Wired(r, [kind |-> "sum", from |-> <<EndOf(p, a, q), EndOf(q, b, r)>>],
              FactOf(r, EndOf(p, a, q)))

Pulsified(p, op) ==
    CASE op.kind = "pad" -> PulsifiedPad(p, op)
      [] op.kind = "conv" -> PulsifiedConv(p, op)
      [] op.kind = "pool" -> PulsifiedMaxPool(p, op)
      [] op.kind = "slice" -> PulsifiedSlice(p, op)
      [] op.kind = "downsample" -> PulsifiedDownsample(p, op)
      [] op.kind = "cumsum" -> PulsifiedCumSum(p, op)
      [] op.kind = "scan" -> PulsifiedScan(p, op)
      [] op.kind = "concat" -> PulsifiedConcat(p, op)
      [] op.kind = "deconv" -> PulsifiedDeconv(p, op)
      [] op.kind = "sum" -> PulsifiedSum(p, op)

TranslateNode(p, op) ==
    IF ~p.ok THEN p
    ELSE LET q == Pulsified(p, op) IN [q EXCEPT !.at = Append(@, NewWire(q))]

PulsedModel(graph, pulse) ==
    LET made[n \in 0 .. Len(graph)] ==
            IF n = 0 THEN Started(pulse) ELSE TranslateNode(made[n - 1], graph[n])
    IN  made[Len(graph)]
=============================================================================
