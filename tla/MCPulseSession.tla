--------------------------- MODULE MCPulseSession ---------------------------
(* Pulsed models to stream.                                                  *)
EXTENDS PulseSession

CONSTANT Family   \* "causal" or "late deconvolutions"

Pad(before, after, mode) ==
    [kind |-> "pad", from |-> <<0>>, before |-> before, after |-> after, mode |-> mode]
Kernel(kind, size, stride, dilation, before, after) ==
    [kind |-> kind, from |-> <<0>>, size |-> size, stride |-> stride, dilation |-> dilation,
     before |-> before, after |-> after]
Conv(size, stride, dilation, before, after) == Kernel("conv", size, stride, dilation, before, after)
Deconv(size, stride, before, after) ==
    [kind |-> "deconv", from |-> <<0>>, size |-> size, stride |-> stride,
     before |-> before, after |-> after]
Downsample(stride, modulo) ==
    [kind |-> "downsample", from |-> <<0>>, stride |-> stride, modulo |-> modulo]
Slice(start, drop) == [kind |-> "slice", from |-> <<0>>, start |-> start, drop |-> drop]
Concat(pre, post) ==
    [kind |-> "concat", from |-> <<0>>, pre |-> Constantly(pre, PadValue),
     post |-> Constantly(post, 2 * PadValue)]
CumSum(exclusive) == [kind |-> "cumsum", from |-> <<0>>, exclusive |-> exclusive]
Scan == [kind |-> "scan", from |-> <<0>>]
Sum(a, b) == [kind |-> "sum", from |-> <<a, b>>]

Ops == {Pad(0, 2, "constant"), Pad(2, 1, "constant"), Pad(1, 1, "edge"), Pad(2, 0, "edge"),
        Conv(3, 1, 1, 0, 0), Conv(2, 2, 1, 0, 0), Conv(3, 2, 1, 1, 1), Conv(2, 1, 2, 2, 0),
        Conv(1, 2, 1, 0, 0), Kernel("pool", 3, 1, 1, 1, 1), Kernel("pool", 2, 2, 1, 0, 0),
        Downsample(2, 0), Downsample(2, 1), Slice(1, 1), Slice(2, 0),
        Concat(2, 1), Concat(0, 2), CumSum(TRUE), CumSum(FALSE), Scan}

Deconvs == {Deconv(size, stride, before, after) :
               size \in 1 .. 3, stride \in 1 .. 2, before \in 0 .. 1, after \in 0 .. 1}

Chain(ops) == [n \in DOMAIN ops |-> [ops[n] EXCEPT !.from = <<n - 1>>]]

Chains == {Chain(<<a>>) : a \in Ops} \cup {Chain(<<a, b>>) : a \in Ops, b \in Ops}

(* What follows a stream whose end a slice cut off can not always be there  *)
(* in time: the pulse that it belongs to may have left before the length is *)
(* known.  These graphs are left out.                                       *)
Drops(op) ==
    \/ op.kind = "slice" /\ op.drop > 0
    \/ op.kind = "deconv" /\ op.size - op.after < op.stride
HasTail(op) ==
    \/ op.kind \in {"pad", "conv", "pool"} /\ op.after > 0
    \/ op.kind = "concat" /\ op.post # <<>>
    \/ op.kind = "deconv"
IsCausal(graph) == \A n \in 1 .. Len(graph) : \A m \in 1 .. n - 1 : ~(Drops(graph[m]) /\ HasTail(graph[n]))

Model(graph, pulse, lanes) ==
    [graph |-> graph, pulse |-> pulse, lanes |-> lanes,
     lens |-> {len \in 1 .. MaxLen : IsRunnable(graph, len)}]

Runnable(models) ==
    {m \in models : m.lens # {} /\ PulsedModel(m.graph, m.pulse).ok}

Deconvolutions == {Chain(<<d>>) : d \in Deconvs} \cup {Chain(<<d, a>>) : d \in Deconvs, a \in Ops}
     \cup {Chain(<<a, d>>) : a \in Ops, d \in {e \in Deconvs : e.stride = 1}}

(* Branches that meet again, the one later than the other.                   *)
From(op, wire) == [op EXCEPT !.from = <<wire>>]
Joins ==
    {<<Conv(3, 1, 1, 1, 1), Sum(0, 1)>>,
     <<Conv(3, 1, 1, 2, 0), Kernel("pool", 3, 1, 1, 1, 1), Sum(1, 2)>>,
     <<Pad(2, 1, "constant"), From(Concat(2, 1), 0), Sum(1, 2), From(Conv(3, 1, 1, 0, 0), 3)>>,
     <<Conv(2, 1, 2, 0, 2), From(Scan, 1), Sum(0, 2), From(CumSum(TRUE), 3), Sum(4, 1)>>,
     <<Conv(2, 2, 1, 0, 1), From(Kernel("pool", 2, 2, 1, 1, 0), 0), Sum(2, 1)>>}
Laned == {<<Pad(1, 1, "edge")>>, <<Concat(2, 1)>>, <<Conv(3, 2, 1, 1, 1)>>,
          Chain(<<Pad(2, 1, "constant"), Conv(3, 1, 1, 0, 0)>>),
          <<Conv(3, 1, 1, 1, 1), Sum(0, 1)>>}


\* One lane, whatever the node; and two lanes, seated together or apart.
Causal == {graph \in Chains \cup Deconvolutions \cup Joins : IsCausal(graph)}
OneLane(graphs, pulses) == {Model(graph, pulse, {0}) : graph \in graphs, pulse \in pulses}
TwoLanes == {[m EXCEPT !.lens = @ \cap {2, 4}] :
                m \in {Model(graph, pulse, {0, 1}) : graph \in Laned, pulse \in 2 .. 3}}

LateDeconvolutions == {Chain(<<Conv(3, 1, 1, 0, 0), Deconv(2, 2, 0, 0)>>)}

MCModels ==
    Runnable(IF Family = "causal" THEN OneLane(Causal, 1 .. 4) \cup TwoLanes
             ELSE OneLane(LateDeconvolutions, 1 .. 4))
=============================================================================
