---------------------------- MODULE PulseSession ----------------------------
(***************************************************************************)
(* A pulsed model at work: the op states of a session that takes streams   *)
(* a pulse at a time (pulse-opl/src/, core/src/ops/scan/optimized.rs).     *)
(*                                                                         *)
(* A turn seats streams, each in a lane of its own, and evaluates the      *)
(* nodes of the model in order; an action evaluates one node for all the   *)
(* seats.  Streams start, end and are seated independently.  The driver is *)
(* that of test-rt/suite-pulse: the last pulse is filled up, a turn binds  *)
(* the length of the stream once its seats have ended, and it goes on      *)
(* until the output has been seen to its end.                              *)
(***************************************************************************)
EXTENDS Pulsify, WholeModel, DelayRing

CONSTANTS
    Lane,         \* 0 .. max_lanes - 1
    Models,       \* [graph, pulse, lanes, lens]: what is run, and for which lengths
    MaxStreams    \* bound: streams that a lane serves, one after the other

VARIABLES
    model,   \* the one run, pulsified
    states,  \* by node and lane
    limits,  \* by node: the limits a PulsePad keeps, or none
    streams, \* by lane: the stream there, and what it was answered
    turn,    \* the turn being evaluated
    heard    \* by node and lane: what a Delay took in.  Read by properties only

vars == <<model, states, limits, streams, turn, heard>>

Nodes == DOMAIN model.nodes
Lanes == model.lanes

\* usize::MAX, where a dimension does not resolve.
Unbound == -1
Never == 1000000000
Eval(dim, s) == IF s = Unbound THEN Never ELSE dim[s]

NoLimits == [deps |-> Unbound, end |-> Unbound]

InitialState(node) ==
    CASE node.kind = "delay" -> EmptyRing(Buffered(node.delay, node.overlap), Silence)
      [] node.kind = "pad" -> [pos |-> 0, last |-> Silence]
      [] node.kind \in {"concat", "mask"} -> [pos |-> 0]
      [] node.kind = "cumsum" -> [pos |-> 0, sum |-> Silence]
      [] node.kind = "scan" -> [pos |-> 0, hidden |-> <<>>]
      [] node.kind = "deconvdelay" ->
            [valid |-> -node.delay, buffer |-> Constantly(node.overlap, Silence)]
      [] OTHER -> [pos |-> 0]

StartOf(m, signal, len) ==
    [signal |-> signal, len |-> len, read |-> 0, answer |-> <<>>, broken |-> FALSE,
     expected |-> Reference(m.graph, Stream(signal, len))]

NoTurn == [seats |-> {}, at |-> 0, values |-> <<>>, s |-> Unbound]

Prepared(m) ==
    LET pulsed == PulsedModel(m.graph, m.pulse)
    IN  [graph |-> m.graph, pulse |-> m.pulse, lanes |-> m.lanes, lens |-> m.lens,
         nodes |-> pulsed.nodes, fact |-> Last(pulsed.facts)]

\* What wire_node sees to: the inputs of a sum have one shape, on a pulse and
\* on a whole stream.
SumsAgree(p) ==
    \A n \in 1 .. Len(p.nodes) : p.nodes[n].kind = "sum" =>
        LET a == FactOf(p, p.nodes[n].from[1])
            b == FactOf(p, p.nodes[n].from[2])
        IN  a.pulse = b.pulse /\ a.dim = b.dim

ASSUME PulseSessionAssumption ==
    /\ Lane \subseteq Nat /\ IsFiniteSet(Lane)
    /\ \A m \in Models :
          /\ m.pulse \in Nat \ {0} /\ m.lanes \subseteq Lane /\ m.lens \subseteq 1 .. MaxLen
          /\ IsGraph(m.graph) /\ \A len \in m.lens : IsRunnable(m.graph, len)
          /\ LET pulsed == PulsedModel(m.graph, m.pulse) IN pulsed.ok /\ SumsAgree(pulsed)

Init ==
    /\ model \in {Prepared(m) : m \in Models}
    /\ states = [n \in Nodes |-> [l \in Lanes |-> InitialState(model.nodes[n])]]
    /\ limits = [n \in Nodes |-> NoLimits]
    /\ streams \in {[l \in Lanes |-> StartOf(model, l + 1, lens[l])] :
                       lens \in [Lanes -> model.lens]}
    /\ turn = NoTurn
    /\ heard = [n \in Nodes |-> [l \in Lanes |-> <<>>]]

-----------------------------------------------------------------------------
(* A turn starts: the next pulse of every seat, filled up past the end.      *)

IsIdle == turn = NoTurn

HasEnded(l) == streams[l].read + model.pulse > streams[l].len
IsAnswered(l) ==
    Len(streams[l].answer) >= model.fact.delay + Len(streams[l].expected)

NextPulse(l) ==
    [i \in 1 .. model.pulse |->
        IF streams[l].read + i <= streams[l].len
        THEN SignalFrame(streams[l].signal, streams[l].read + i) ELSE Junk]

\* The length is bound by all the seats or by none: the turn has one symbol.
Bindable(seats) ==
    IF \A l \in seats : ~HasEnded(l) THEN {Unbound}
    ELSE IF \A l \in seats : HasEnded(l) THEN {streams[l].len : l \in seats}
    ELSE {}

StartTurn(seats) ==
    /\ IsIdle /\ seats # {}
    /\ \A l \in seats : ~streams[l].broken /\ ~IsAnswered(l)
    /\ Cardinality(Bindable(seats)) = 1
    /\ turn' = [seats |-> seats, at |-> 1, values |-> <<[l \in seats |-> NextPulse(l)]>>,
                s |-> CHOOSE s \in Bindable(seats) : TRUE]
    /\ UNCHANGED <<model, states, limits, streams, heard>>

-----------------------------------------------------------------------------
(* The nodes.                                                                *)

IsAt(kind) == turn.at \in Nodes /\ model.nodes[turn.at].kind = kind
Node == model.nodes[turn.at]
Input(k, l) == turn.values[Node.from[k] + 1][l]
State(l) == states[turn.at][l]

\* What a seat's state and output become, seat by seat.
Evaluated(NewState(_), Output(_)) ==
    /\ states' = [states EXCEPT ![turn.at] =
                    [l \in Lanes |-> IF l \in turn.seats THEN NewState(l) ELSE @[l]]]
    /\ turn' = [turn EXCEPT !.at = @ + 1, !.values = Append(@, [l \in turn.seats |-> Output(l)])]
    /\ UNCHANGED <<model, streams>>

EvalDelay ==
    /\ IsAt("delay")
    /\ Evaluated(LAMBDA l : DelayPushed(Buffered(Node.delay, Node.overlap), State(l), Input(1, l)),
                 LAMBDA l : DelayOutput(Node.delay, Node.overlap, State(l), Input(1, l)))
    /\ heard' = [heard EXCEPT ![turn.at] =
                    [l \in Lanes |-> IF l \in turn.seats THEN @[l] \o Input(1, l) ELSE @[l]]]
    /\ UNCHANGED limits

\* Seats that hold valid frames only, or none, forward what they got.
PadForwards(begin, n, end) ==
    \/ begin >= Node.begin /\ begin + n <= end
    \/ begin + n <= Node.begin - Node.before
    \/ end < Never /\ begin >= end + Node.after

PadFrames(x, st, end) ==
    LET n == Len(x)
        head == IF st.pos < Node.begin THEN Min({Node.begin - st.pos, n}) ELSE 0
        tail == IF st.pos + n > end /\ Node.after > 0
                THEN n - Min({st.pos + n - end, n}) ELSE n
    IN  IF PadForwards(st.pos, n, end) THEN x
        ELSE [i \in 1 .. n |->
                CASE i > tail -> IF Node.mode = "edge" THEN st.last ELSE Node.value
                  [] i <= tail /\ i <= head -> IF Node.mode = "edge" THEN x[head + 1] ELSE Node.value
                  [] OTHER -> x[i]]

\* The last valid frame seen, for the edge.
PadSaved(x, st, end) ==
    IF Node.mode = "edge" /\ Node.after # 0 /\ st.pos < end
    THEN [st EXCEPT !.last = x[Min({end - st.pos, Len(x)})]] ELSE st

\* Mutant: resolved once and for all.
ResolvedOnce(known) ==
    IF known # NoLimits THEN known
    ELSE [deps |-> turn.s, end |-> Eval(Node.end, turn.s)]

ResolvedLimits(known) ==
    IF known # NoLimits /\ known.deps = turn.s THEN known
    ELSE [deps |-> turn.s, end |-> Eval(Node.end, turn.s)]

EvalPad ==
    /\ IsAt("pad")
    /\ limits' = [limits EXCEPT ![turn.at] = ResolvedLimits(@)]
    /\ LET end == limits'[turn.at].end
           Saved(l) == PadSaved(Input(1, l), State(l), end)
       IN  Evaluated(LAMBDA l : [Saved(l) EXCEPT !.pos = @ + Len(Input(1, l)) - Node.overlap],
                     LAMBDA l : PadFrames(Input(1, l), Saved(l), end))
    /\ UNCHANGED heard

\* Whatever of a pulse the constant covers that starts at `offset'.
Overwritten(x, pos, const, offset) ==
    [i \in 1 .. Len(x) |->
        LET k == pos + i - offset IN IF k \in DOMAIN const THEN const[k] ELSE x[i]]

\* With lanes, a constant has one row per seat, and a seat takes its own: rows
\* are alike here, as one constant laid out for all seats is.
EvalConcat ==
    /\ IsAt("concat")
    /\ LET Opened(l) == Overwritten(Input(1, l), State(l).pos, Node.pre,
                                    Node.delay - Len(Node.pre))
       IN  Evaluated(LAMBDA l : [pos |-> State(l).pos + Len(Input(1, l))],
                     LAMBDA l : IF turn.s = Unbound THEN Opened(l)
                                ELSE Overwritten(Opened(l), State(l).pos, Node.post,
                                                 Node.delay + Node.len[turn.s]))
    /\ UNCHANGED <<limits, heard>>

\* How many frames of a pulse come before the stream.
Skipped(st, x) == Min({Positive(Node.skip - st.pos), Len(x)})
Rest(st, x) == SubSeq(x, Skipped(st, x) + 1, Len(x))

EvalCumSum ==
    /\ IsAt("cumsum")
    /\ LET Sum(l) == Cumulated(Rest(State(l), Input(1, l)), State(l).sum, FALSE)
       IN  Evaluated(
               LAMBDA l : [pos |-> State(l).pos + Len(Input(1, l)),
                           sum |-> Last(<<State(l).sum>> \o Sum(l))],
               LAMBDA l : Constantly(Skipped(State(l), Input(1, l)), Silence)
                   \o (IF Node.exclusive
                       THEN Cumulated(Rest(State(l), Input(1, l)), State(l).sum, TRUE) ELSE Sum(l)))
    /\ UNCHANGED <<limits, heard>>

\* The body adds a frame to the hidden state.  Skipped frames are not assigned.
EvalScan ==
    /\ IsAt("scan")
    /\ LET Hidden(l) == IF State(l).hidden = <<>> THEN ScanStart ELSE Head(State(l).hidden)
           Scanned(l) == Cumulated(Rest(State(l), Input(1, l)), Hidden(l), FALSE)
       IN  Evaluated(
               LAMBDA l : [pos |-> State(l).pos + Len(Input(1, l)),
                           hidden |-> <<Last(<<Hidden(l)>> \o Scanned(l))>>],
               LAMBDA l : Constantly(Skipped(State(l), Input(1, l)), Junk) \o Scanned(l))
    /\ UNCHANGED <<limits, heard>>

EvalMask ==
    /\ IsAt("mask")
    /\ Evaluated(LAMBDA l : [pos |-> State(l).pos + Len(Input(1, l))],
                 LAMBDA l : [i \in 1 .. Len(Input(1, l)) |->
                                IF State(l).pos + i \in Node.begin + 1 .. Eval(Node.end, turn.s)
                                THEN Input(1, l)[i] ELSE Silence])
    /\ UNCHANGED <<limits, heard>>

(* What the pulse before left over is added to the start of this one, and    *)
(* its end left over for the next; frames past the end are cleared before.  *)
Merged(st, x) ==
    LET n == Len(x) - Node.overlap
        past == st.valid + n - Eval(Node.inputDim, turn.s)
        kept == IF past > 0 THEN Len(x) - Min({past, Len(x)}) ELSE Len(x)
    IN  [i \in 1 .. Len(x) |->
            (IF i <= kept THEN x[i] ELSE Silence)
                + (IF i <= Node.overlap THEN st.buffer[i] ELSE Silence)]

EvalDeconvDelay ==
    /\ IsAt("deconvdelay")
    /\ LET Pulse(l) == Len(Input(1, l)) - Node.overlap
       IN  Evaluated(
               LAMBDA l : [valid |-> State(l).valid + Pulse(l),
                           buffer |-> SubSeq(Merged(State(l), Input(1, l)),
                                             Pulse(l) + 1, Len(Input(1, l)))],
               LAMBDA l : SubSeq(Merged(State(l), Input(1, l)), 1, Pulse(l)))
    /\ UNCHANGED <<limits, heard>>

\* Operators without state.
Stateless(Output(_)) ==
    /\ Evaluated(State, Output)
    /\ UNCHANGED <<limits, heard>>

EvalConv == IsAt("conv") /\ Stateless(LAMBDA l : Convolved(Input(1, l), Node))
EvalPool == IsAt("pool") /\ Stateless(LAMBDA l : Pooled(Input(1, l), Node))
EvalDownsample ==
    IsAt("downsample") /\ Stateless(LAMBDA l : Sampled(Input(1, l), Node.stride, Node.modulo))
EvalSlice == IsAt("identity") /\ Stateless(LAMBDA l : Input(1, l))
EvalDeconv ==
    IsAt("deconv") /\ Stateless(LAMBDA l : Deconvolved(Input(1, l), Node, Node.stride - 1))
EvalSum ==
    IsAt("sum") /\ Stateless(LAMBDA l : [i \in 1 .. Len(Input(1, l)) |-> Input(1, l)[i] + Input(2, l)[i]])

EvalNode ==
    \/ EvalDelay \/ EvalPad \/ EvalConcat \/ EvalCumSum \/ EvalScan
    \/ EvalMask \/ EvalDeconvDelay \/ EvalConv \/ EvalPool \/ EvalDownsample
    \/ EvalSlice \/ EvalDeconv \/ EvalSum

-----------------------------------------------------------------------------
(* A turn ends, or fails at some node: the nodes before it have moved on.    *)

FinishTurn ==
    /\ turn.at = Len(model.nodes) + 1
    /\ streams' = [l \in Lanes |->
                     IF l \in turn.seats
                     THEN [streams[l] EXCEPT !.read = @ + model.pulse,
                                             !.answer = @ \o Last(turn.values)[l]]
                     ELSE streams[l]]
    /\ turn' = NoTurn
    /\ UNCHANGED <<model, states, limits, heard>>

FailTurn ==
    /\ turn.at \in Nodes
    /\ streams' = [l \in Lanes |-> [streams[l] EXCEPT !.broken = @ \/ l \in turn.seats]]
    /\ turn' = NoTurn
    /\ UNCHANGED <<model, states, limits, heard>>

\* Only these are given a lane axis, and a model with others is not laned.
LaneAware == {"delay", "pad", "concat", "conv", "pool", "downsample", "identity", "deconv", "sum"}
IsLaned == \A n \in Nodes : model.nodes[n].kind \in LaneAware

(* reset_lanes, before a lane is handed to another stream.                   *)
ResetLane(l, len) ==
    /\ IsIdle /\ IsLaned
    /\ streams[l].signal + Cardinality(Lane) <= MaxStreams * Cardinality(Lane)
    /\ streams[l].broken \/ streams[l].read > 0
    /\ states' = [n \in Nodes |-> [states[n] EXCEPT ![l] = InitialState(model.nodes[n])]]
    /\ heard' = [n \in Nodes |-> [heard[n] EXCEPT ![l] = <<>>]]
    /\ streams' = [streams EXCEPT ![l] =
                     StartOf(model, streams[l].signal + Cardinality(Lane), len)]
    /\ UNCHANGED <<model, limits, turn>>

Next ==
    \/ \E seats \in SUBSET Lanes : StartTurn(seats)
    \/ EvalNode
    \/ FinishTurn
    \/ FailTurn
    \/ \E l \in Lanes : \E len \in model.lens : ResetLane(l, len)

Spec == Init /\ [][Next]_vars

-----------------------------------------------------------------------------
(* Properties.                                                               *)

(* States and turns have the shape that the code gives them.                 *)
TypeOK ==
    /\ turn.at \in 0 .. Len(model.nodes) + 1
    /\ turn.seats \subseteq Lanes
    /\ turn # NoTurn => Len(turn.values) = turn.at
    /\ \A n \in Nodes : model.nodes[n].kind = "delay" =>
          \A l \in Lanes :
             /\ states[n][l].head \in 0 .. Positive(Buffered(model.nodes[n].delay, model.nodes[n].overlap) - 1)
             /\ heard[n][l] \in Seq(Int)
    /\ \A l \in Lanes : streams[l].answer \in Seq(Int) /\ streams[l].read \in Nat

(* What a stream was answered from frame `delay' on is what the source model *)
(* says of it as a whole: however the pulses fall, whoever sits next to it,  *)
(* whatever its lane held before and whichever turns failed.                 *)
AnswersAreTheReference ==
    \A l \in Lanes : ~streams[l].broken =>
        \A i \in 1 .. Len(streams[l].expected) :
            model.fact.delay + i <= Len(streams[l].answer) =>
                streams[l].answer[model.fact.delay + i] = streams[l].expected[i]

(* The dimension that pulsification declares for the output is its length.   *)
DeclaredLength ==
    \A l \in Lanes : model.fact.dim[streams[l].len] = Len(streams[l].expected)

(* Each lane's ring holds the last frames its own stream sent, in order, and  *)
(* silence where there were none.                                           *)
RingsHoldTheLastFrames ==
    \A n \in Nodes : model.nodes[n].kind = "delay" =>
        \A l \in Lanes :
            RingHolds(Buffered(model.nodes[n].delay, model.nodes[n].overlap),
                      states[n][l], heard[n][l], Silence)
=============================================================================
