------------------------------- MODULE Frames -------------------------------
(***************************************************************************)
(* Frames along the streaming axis, and the operators of a source model as *)
(* they run on a sequence of them (tract-core): on a whole stream when the *)
(* model runs in batch, on a pulse when it streams.                        *)
(*                                                                         *)
(* A frame is a number.  A signal writes its number at a digit of its own  *)
(* for every frame, and the weights of a kernel are small: the digits of a *)
(* sum tell which frames went into it, and with which weights.             *)
(***************************************************************************)
EXTENDS Integers, Sequences, FiniteSetsExt, SequencesExt

Silence  == 0         \* zero
Lowest   == -1        \* the least value of the type: what a MaxPool pads with
PadValue == 1000000   \* a constant to pad with
Junk     == 50000000  \* no value of a stream: NaN filler, or uninitialised memory

TenTo(n) == LET power[i \in 0 .. n] == IF i = 0 THEN 1 ELSE 10 * power[i - 1] IN power[n]

SignalFrame(signal, i) == signal * TenTo(i - 1)

Positive(n) == IF n > 0 THEN n ELSE 0
CeilDiv(n, d) == (n + d - 1) \div d

\* The sum of `from' and the first k frames, for every k.
Sums(x, from) ==
    LET sum[k \in 0 .. Len(x)] == IF k = 0 THEN from ELSE sum[k - 1] + x[k] IN sum
Total(x) == Sums(x, 0)[Len(x)]

\* The length a kernel leaves of n frames.
KernelLen(size, dilation) == (size - 1) * dilation
WindowCount(n, size, stride, dilation) ==
    Positive(CeilDiv(n - KernelLen(size, dilation), stride))

Window(x, j, size, stride, dilation) ==
    [t \in 1 .. size |-> x[(j - 1) * stride + (t - 1) * dilation + 1]]

\* A kernel of weights 1, 2, ..., size, and padding already in place.
Convolved(x, op) ==
    [j \in 1 .. WindowCount(Len(x), op.size, op.stride, op.dilation) |->
        LET seen == Window(x, j, op.size, op.stride, op.dilation)
        IN  Total([t \in 1 .. op.size |-> t * seen[t]])]

Pooled(x, op) ==
    [j \in 1 .. WindowCount(Len(x), op.size, op.stride, op.dilation) |->
        Max(ToSet(Window(x, j, op.size, op.stride, op.dilation)))]

\* Every stride-th frame, from `modulo' on.
Sampled(x, stride, modulo) ==
    [j \in 1 .. Positive(CeilDiv(Len(x) - modulo, stride)) |-> x[(j - 1) * stride + modulo + 1]]

\* Every frame adds the kernel to the output, `stride' further; `more' frames
\* follow the last kernel (the adjustment).
Deconvolved(x, op, more) ==
    [p \in 1 .. (Len(x) - 1) * op.stride + op.size + more |->
        Total([i \in 1 .. Len(x) |->
                  LET t == p - (i - 1) * op.stride IN IF t \in 1 .. op.size THEN t * x[i] ELSE 0])]

Constantly(n, value) == [i \in 1 .. n |-> value]

Padded(x, before, after, mode, value) ==
    Constantly(before, IF mode = "edge" THEN Head(x) ELSE value)
        \o x \o Constantly(after, IF mode = "edge" THEN Last(x) ELSE value)

\* The running sum from `from' on, with or without the frame itself.
Cumulated(x, from, exclusive) ==
    [i \in 1 .. Len(x) |-> Sums(x, from)[IF exclusive THEN i - 1 ELSE i]]

=============================================================================
