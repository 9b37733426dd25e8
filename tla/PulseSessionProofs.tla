------------------------- MODULE PulseSessionProofs -------------------------
(***************************************************************************)
(* Proofs about the sessions of pulsified models, for every graph, pulse,  *)
(* lane, stream and history.                                               *)
(*                                                                         *)
(* First, the ring of a Delay.  Then a session: each node keeps its state  *)
(* and answers a pulse of numbers (NodeKeeps), each action keeps           *)
(* SessionInv, and the properties of PulseSession follow from it.  Then    *)
(* what is answered: a node that shows a stream on its inputs shows what   *)
(* it stands for on its output (NodeGoes), so that a lane follows its      *)
(* stream (LanesFollow) and its answers are those of the whole model.      *)
(***************************************************************************)
EXTENDS PulsifyProofs

(* Remainders by a ring's length, of an index that has gone round at most    *)
(* once, and of one that went round any number of times.                    *)
LEMMA ModOnce ==
    ASSUME NEW b \in Nat \ {0}, NEW x \in 0 .. 2 * b - 1
    PROVE  x % b = IF x < b THEN x ELSE x - b
  OBVIOUS

LEMMA ModUnique ==
    ASSUME NEW b \in Nat \ {0}, NEW x \in Nat, NEW q \in Nat, NEW r \in 0 .. b - 1, x = q * b + r
    PROVE  x % b = r
  OBVIOUS

LEMMA ModShift ==
    ASSUME NEW b \in Nat \ {0}, NEW x \in Nat
    PROVE  (x + b) % b = x % b
<1> DEFINE q == x \div b
           r == x % b
<1>1. q \in Nat /\ r \in 0 .. b - 1 /\ x = q * b + r
  OBVIOUS
<1> HIDE DEF q, r
<1>2. q + 1 \in Nat /\ x + b = (q + 1) * b + r
  BY <1>1
<1>3. (x + b) % b = r
  BY <1>1, <1>2, ModUnique
<1> QED
  BY <1>3 DEF r

LEMMA RingIndexInRing ==
    ASSUME NEW b \in Nat, NEW x \in Nat
    PROVE  RingIndex(b, x) \in 0 .. (IF b = 0 THEN 0 ELSE b - 1)
  BY DEF RingIndex

-----------------------------------------------------------------------------
\* What was sent before, and what a pulse adds.
LEMMA HeardBefore ==
    ASSUME NEW S, NEW sent \in Seq(S), NEW input \in Seq(S), NEW silence,
           NEW k \in Int, k <= Len(sent)
    PROVE  FrameAt(sent \o input, k, silence) = FrameAt(sent, k, silence)
<1>1. Len(sent) \in Nat /\ Len(input) \in Nat /\ Len(sent \o input) = Len(sent) + Len(input)
  OBVIOUS
<1>2. CASE 1 <= k
  <2>1. (sent \o input)[k] = sent[k]
    BY <1>1, <1>2
  <2> QED
    BY <1>1, <1>2, <2>1 DEF FrameAt
<1>3. CASE ~(1 <= k)
  BY <1>3 DEF FrameAt
<1> QED
  BY <1>2, <1>3

LEMMA HeardLast ==
    ASSUME NEW S, NEW sent \in Seq(S), NEW input \in Seq(S), NEW silence,
           NEW k \in Int, NEW j \in 1 .. Len(input), k = Len(sent) + j
    PROVE  FrameAt(sent \o input, k, silence) = input[j]
<1>1. Len(sent) \in Nat /\ Len(input) \in Nat /\ Len(sent \o input) = Len(sent) + Len(input)
  OBVIOUS
<1>2. (sent \o input)[k] = input[j]
  BY <1>1
<1> QED
  BY <1>1, <1>2 DEF FrameAt

(* EmptyRingHolds: a new or reset lane (DelayState::reset_lanes) is the one  *)
(* that sent nothing.                                                      *)
THEOREM EmptyRingHolds ==
    ASSUME NEW b \in Nat, NEW silence
    PROVE  RingHolds(b, EmptyRing(b, silence), <<>>, silence)
  BY DEF RingHolds, EmptyRing, RunAt, FrameAt

\* Where the runs of a ring and of the one a short pulse further meet.
LEMMA RunsMeet ==
    ASSUME NEW b \in Nat \ {0}, NEW head \in 0 .. b - 1, NEW n \in 0 .. b - 1, NEW k \in 0 .. b - 1
    PROVE  LET at == RunAt(b, RingIndex(b, head + n), k)
           IN  /\ at \in 0 .. b - 1
               /\ RunOffset(b, head, at) = IF k + n < b THEN k + n ELSE k + n - b
               /\ k + n < b => at = RunAt(b, head, k + n)
<1> DEFINE to == RingIndex(b, head + n)
<1>1. to = IF head + n < b THEN head + n ELSE head + n - b
  <2> DEFINE x == head + n
  <2>1. x \in 0 .. 2 * b - 1
    OBVIOUS
  <2> HIDE DEF x
  <2>2. RingIndex(b, x) = IF x < b THEN x ELSE x - b
    BY <2>1, ModOnce DEF RingIndex
  <2> QED
    BY <2>2 DEF x
<1> HIDE DEF to
<1>2. /\ RunAt(b, to, k) \in 0 .. b - 1
      /\ RunOffset(b, head, RunAt(b, to, k)) = IF k + n < b THEN k + n ELSE k + n - b
      /\ k + n < b => RunAt(b, to, k) = RunAt(b, head, k + n)
  BY <1>1 DEF RunAt, RunOffset
<1> QED
  BY <1>2 DEF to

(* RingKeepsTheLastFrames: what delay_seat leaves in a lane's ring are the   *)
(* last frames of all that the lane was sent, in order from the head on.    *)
THEOREM RingKeepsTheLastFrames ==
    ASSUME NEW S, NEW silence, NEW b \in Nat, NEW st,
           NEW sent \in Seq(S), NEW input \in Seq(S),
           RingHolds(b, st, sent, silence)
    PROVE  RingHolds(b, DelayPushed(b, st, input), sent \o input, silence)
<1> DEFINE n == Len(input)
           h == Len(sent)
           new == DelayPushed(b, st, input)
           all == sent \o input
<1>1. n \in Nat /\ h \in Nat /\ Len(all) = h + n
  OBVIOUS
<1>2. st.head \in 0 .. (IF b = 0 THEN 0 ELSE b - 1)
  BY DEF RingHolds
<1>3. new.head = RingIndex(b, st.head + n)
  BY DEF DelayPushed
<1>4. new.head \in 0 .. (IF b = 0 THEN 0 ELSE b - 1)
  <2>1. st.head + n \in Nat
    BY <1>1, <1>2
  <2> QED
    BY <2>1, <1>3, RingIndexInRing
<1>5. ASSUME NEW k \in 0 .. b - 1
      PROVE  new.ring[RunAt(b, new.head, k)] = FrameAt(all, Len(all) - b + k + 1, silence)
  <2> DEFINE at == RunAt(b, new.head, k)
  <2>1. b \in Nat \ {0} /\ st.head \in 0 .. b - 1 /\ new.head \in 0 .. b - 1
    BY <1>2, <1>4
  <2>2. CASE n >= b
    <3> DEFINE start == RingIndex(b, st.head + n - b)
    <3>1. start = new.head
      <4>1. st.head + n - b \in Nat /\ (st.head + n - b) + b = st.head + n
        BY <1>1, <2>1, <2>2
      <4> QED
        BY <4>1, <2>1, <1>3, ModShift DEF RingIndex
    <3>2. at \in 0 .. b - 1 /\ RunOffset(b, new.head, at) = k
      BY <2>1 DEF RunAt, RunOffset
    <3>3. Fresh(b, n) = b
      BY <1>1, <2>2 DEF Fresh
    <3>4. new.ring[at] = input[n - b + k + 1]
      BY <3>1, <3>2, <3>3 DEF DelayPushed
    <3>5. FrameAt(all, Len(all) - b + k + 1, silence) = input[n - b + k + 1]
      <4>1. /\ n - b + k + 1 \in 1 .. n
            /\ Len(all) - b + k + 1 \in Int
            /\ Len(all) - b + k + 1 = h + (n - b + k + 1)
        BY <1>1, <2>1, <2>2
      <4> QED
        BY <4>1, HeardLast
    <3> QED
      BY <3>4, <3>5
  <2>3. CASE n < b
    <3>1. Fresh(b, n) = n /\ RingIndex(b, st.head + n - n) = st.head
      <4>1. st.head \in 0 .. 2 * b - 1 /\ st.head + n - n = st.head /\ st.head < b
        BY <1>1, <2>1
      <4> QED
        BY <4>1, <2>1, <2>3, ModOnce DEF Fresh, RingIndex
    <3>2. /\ at \in 0 .. b - 1
          /\ RunOffset(b, st.head, at) = IF k + n < b THEN k + n ELSE k + n - b
          /\ k + n < b => at = RunAt(b, st.head, k + n)
      <4>1. n \in 0 .. b - 1
        BY <1>1, <2>1, <2>3
      <4> HIDE DEF n, new
      <4>2. PICK head \in 0 .. b - 1 : head = st.head
        BY <2>1
      <4> QED
        BY <4>1, <4>2, <1>3, <2>1, RunsMeet
    <3>3. new.ring[at] = IF RunOffset(b, st.head, at) < n
                         THEN input[RunOffset(b, st.head, at) + 1] ELSE st.ring[at]
      <4>1. new.ring = [i \in 0 .. b - 1 |->
                          IF RunOffset(b, st.head, i) < n
                          THEN input[n - n + RunOffset(b, st.head, i) + 1] ELSE st.ring[i]]
        BY <3>1 DEF DelayPushed
      <4> QED
        BY <1>1, <3>2, <4>1
    <3>4. CASE k + n < b
      <4>1. new.ring[at] = st.ring[RunAt(b, st.head, k + n)]
        BY <1>1, <3>2, <3>3, <3>4
      <4>2. st.ring[RunAt(b, st.head, k + n)] = FrameAt(sent, h - b + (k + n) + 1, silence)
        BY <1>1, <3>4 DEF RingHolds
      <4>3. FrameAt(all, Len(all) - b + k + 1, silence) = FrameAt(sent, h - b + (k + n) + 1, silence)
        <5>1. /\ Len(all) - b + k + 1 = h - b + (k + n) + 1
              /\ h - b + (k + n) + 1 \in Int /\ h - b + (k + n) + 1 <= h
          BY <1>1, <2>1, <3>4
        <5> QED
          BY <5>1, HeardBefore
      <4> QED
        BY <4>1, <4>2, <4>3
    <3>5. CASE k + n >= b
      <4>1. new.ring[at] = input[k + n - b + 1]
        BY <1>1, <2>1, <3>2, <3>3, <3>5
      <4>2. FrameAt(all, Len(all) - b + k + 1, silence) = input[k + n - b + 1]
        <5>1. /\ k + n - b + 1 \in 1 .. n
              /\ Len(all) - b + k + 1 \in Int
              /\ Len(all) - b + k + 1 = h + (k + n - b + 1)
          BY <1>1, <2>1, <2>3, <3>5
        <5> QED
          BY <5>1, HeardLast
      <4> QED
        BY <4>1, <4>2
    <3> QED
      BY <1>1, <2>1, <3>4, <3>5
  <2> QED
    BY <1>1, <2>1, <2>2, <2>3
<1> HIDE DEF new
<1> QED
  BY <1>4, <1>5 DEF RingHolds, new

(* OutputIsDelayed: a seat's output is the delay line's, whether the pulse   *)
(* is shorter or longer than the delay and the ring: the frames that came   *)
(* `delay' + `overlap' before, and then those of the pulse.                 *)
THEOREM OutputIsDelayed ==
    ASSUME NEW S, NEW silence, NEW delay \in Nat, NEW overlap \in Nat, NEW st,
           NEW sent \in Seq(S), NEW input \in Seq(S),
           RingHolds(Buffered(delay, overlap), st, sent, silence)
    PROVE  DelayOutput(delay, overlap, st, input)
             = Delayed(delay, overlap, sent \o input, Len(input), silence)
<1> DEFINE n == Len(input)
           h == Len(sent)
           b == delay + overlap
           held == FromBuffer(delay, overlap, n)
           all == sent \o input
<1>1. n \in Nat /\ h \in Nat /\ Len(all) = h + n /\ b \in Nat
  OBVIOUS
<1>2. held = IF n > delay THEN b ELSE n + overlap
  BY <1>1 DEF FromBuffer, FromInput
<1>3. ASSUME NEW p \in 1 .. n + overlap
      PROVE  (IF p <= held THEN st.ring[RunAt(b, st.head, p - 1)] ELSE input[p - held])
                = FrameAt(all, Len(all) - n + p - delay - overlap, silence)
  <2>1. CASE p <= held
    <3>1. p - 1 \in 0 .. b - 1
      BY <1>1, <1>2, <2>1
    <3>2. st.ring[RunAt(b, st.head, p - 1)] = FrameAt(sent, h - b + (p - 1) + 1, silence)
      BY <3>1 DEF RingHolds, Buffered
    <3>3. FrameAt(all, Len(all) - n + p - delay - overlap, silence)
            = FrameAt(sent, h - b + (p - 1) + 1, silence)
      <4>1. /\ Len(all) - n + p - delay - overlap = h - b + (p - 1) + 1
            /\ h - b + (p - 1) + 1 \in Int /\ h - b + (p - 1) + 1 <= h
        BY <1>1, <3>1
      <4> QED
        BY <4>1, HeardBefore
    <3> QED
      BY <2>1, <3>2, <3>3
  <2>2. CASE p > held
    <3>1. held = b /\ p - b \in 1 .. n
      BY <1>1, <1>2, <2>2
    <3>2. FrameAt(all, Len(all) - n + p - delay - overlap, silence) = input[p - b]
      <4>1. /\ Len(all) - n + p - delay - overlap \in Int
            /\ Len(all) - n + p - delay - overlap = h + (p - b)
        BY <1>1, <3>1
      <4> QED
        BY <3>1, <4>1, HeardLast
    <3> QED
      BY <1>1, <2>2, <3>1, <3>2
  <2> QED
    BY <1>1, <1>2, <2>1, <2>2
<1> QED
  BY <1>1, <1>3 DEF DelayOutput, Delayed, Buffered

-----------------------------------------------------------------------------
(* Sessions.  The model that is run, pulsified.                              *)

LEMMA PlanIsSound ==
    ASSUME NEW graph, IsGraph(graph), NEW pulse \in Nat \ {0},
           NEW p, p = PulsedModel(graph, pulse), p.ok
    PROVE  Sound(p, Len(graph), pulse)
<1>1. Len(graph) \in Nat
  BY GraphIs
<1>2. PICK made : MadeOf(graph, pulse, made) /\ p = made[Len(graph)]
  BY <1>1, MadeIs DEF MadeOf
<1>3. Len(graph) \in 0 .. Len(graph) /\ made[Len(graph)].ok
  BY <1>1, <1>2
<1> QED
  BY <1>2, <1>3, MadeIsSound

Plan == PulsedModel(model.graph, model.pulse)

IsPrepared == model \in {Prepared(m) : m \in Models}

LEMMA ModelIs ==
    ASSUME IsPrepared
    PROVE  /\ IsGraph(model.graph) /\ model.pulse \in Nat \ {0}
           /\ model.lanes \subseteq Lane /\ model.lens \subseteq 1 .. MaxLen
           /\ \A len \in model.lens : IsRunnable(model.graph, len)
           /\ Plan.ok /\ SumsAgree(Plan) /\ Sound(Plan, Len(model.graph), model.pulse)
           /\ IsPulsed(Plan) /\ model.nodes = Plan.nodes
           /\ Len(model.nodes) \in Nat /\ Nodes = 1 .. Len(model.nodes)
           /\ model.fact = FactOf(Plan, Len(model.nodes))
<1>1. PICK m \in Models : model = Prepared(m)
  BY DEF IsPrepared
<1> DEFINE p == PulsedModel(m.graph, m.pulse)
<1>2. /\ model.graph = m.graph /\ model.pulse = m.pulse /\ model.lanes = m.lanes
      /\ model.lens = m.lens /\ model.nodes = p.nodes /\ model.fact = Last(p.facts)
  <2> HIDE DEF p
  <2>1. Prepared(m) = [graph |-> m.graph, pulse |-> m.pulse, lanes |-> m.lanes, lens |-> m.lens,
                       nodes |-> p.nodes, fact |-> Last(p.facts)]
    BY DEF Prepared, p
  <2> QED
    BY <1>1, <2>1
<1>3. /\ m.pulse \in Nat \ {0} /\ m.lanes \subseteq Lane /\ m.lens \subseteq 1 .. MaxLen
      /\ IsGraph(m.graph) /\ \A len \in m.lens : IsRunnable(m.graph, len)
      /\ p.ok /\ SumsAgree(p)
  BY PulseSessionAssumption
<1>4. Plan = p
  BY <1>2 DEF Plan
<1> HIDE DEF p
<1>5. Sound(Plan, Len(model.graph), model.pulse)
  BY <1>2, <1>3, <1>4, PlanIsSound DEF p
<1>6. IsPulsed(Plan) /\ IsFrames(Plan.nodes) /\ IsFrames(Plan.facts)
      /\ Len(Plan.facts) = Len(Plan.nodes) + 1
  BY <1>5 DEF Sound, IsPulsed
<1>7. model.nodes = Plan.nodes /\ Len(model.nodes) \in Nat /\ Nodes = 1 .. Len(model.nodes)
  BY <1>2, <1>4, <1>6, FramesHaveALength DEF Nodes
<1>8. model.fact = FactOf(Plan, Len(model.nodes))
  BY <1>2, <1>4, <1>6, <1>7, Zenon DEF FactOf, Last
<1> QED
  BY <1>2, <1>3, <1>4, <1>5, <1>6, <1>7, <1>8

LEMMA NodeIs ==
    ASSUME IsPrepared, NEW n \in Nodes
    PROVE  /\ Reads(model.nodes[n], n) /\ n \in Nat \ {0}
           /\ model.nodes[n].from[1] \in 0 .. n - 1
           /\ model.nodes[n].kind = "sum" => model.nodes[n].from[2] \in 0 .. n - 1
           /\ FactOf(Plan, model.nodes[n].from[1]) \in Fact /\ FactOf(Plan, n) \in Fact
           /\ Past(Plan, model.nodes[n].from[1]) \in Nat
           /\ Past(Plan, model.nodes[n].from[1]) < FactOf(Plan, model.nodes[n].from[1]).pulse
           /\ IsNode(model.nodes[n], Past(Plan, model.nodes[n].from[1]),
                     FactOf(Plan, model.nodes[n].from[1]), FactOf(Plan, n))
           /\ InStep(Plan, model.nodes[n], FactOf(Plan, n))
           /\ model.nodes[n].kind = "sum" =>
                 FactOf(Plan, model.nodes[n].from[2]).pulse = FactOf(Plan, model.nodes[n].from[1]).pulse
<1> DEFINE node == model.nodes[n]
<1>1. /\ IsPulsed(Plan) /\ model.nodes = Plan.nodes /\ Len(Plan.nodes) \in Nat
      /\ n \in 1 .. Len(Plan.nodes) /\ n \in 0 .. Len(Plan.nodes) /\ n \in Nat \ {0} /\ SumsAgree(Plan)
  <2>1. /\ IsPulsed(Plan) /\ model.nodes = Plan.nodes /\ Len(model.nodes) \in Nat
        /\ Nodes = 1 .. Len(model.nodes) /\ SumsAgree(Plan)
    BY ModelIs
  <2> QED
    BY <2>1
<1>2. /\ Reads(node, n) /\ InStep(Plan, node, FactOf(Plan, n))
      /\ IsNode(node, Past(Plan, node.from[1]), FactOf(Plan, node.from[1]), FactOf(Plan, n))
  BY <1>1 DEF IsPulsed
<1>3. node.from[1] \in 0 .. n - 1 /\ (node.kind = "sum" => node.from[2] \in 0 .. n - 1)
  BY <1>2 DEF Reads
<1>4. node.from[1] \in 0 .. Len(Plan.nodes)
  BY <1>1, <1>3
<1>5. /\ FactOf(Plan, node.from[1]) \in Fact /\ FactOf(Plan, n) \in Fact
      /\ Past(Plan, node.from[1]) \in Nat
      /\ Past(Plan, node.from[1]) < FactOf(Plan, node.from[1]).pulse
  BY <1>1, <1>4, FactOfWire, PastIs
<1>6. node.kind = "sum" => FactOf(Plan, node.from[2]).pulse = FactOf(Plan, node.from[1]).pulse
  BY <1>1 DEF SumsAgree
<1> QED
  BY <1>1, <1>2, <1>3, <1>5, <1>6

-----------------------------------------------------------------------------
(* A node, evaluated for a seat.                                             *)

\* Up to where the stream is, as the node at hand knows it.
End == ResolvedLimits(limits[turn.at]).end

HiddenBefore(st) == IF st.hidden = <<>> THEN ScanStart ELSE Head(st.hidden)

\* What it answers to a seat whose state is st, and x and y its inputs,
Answered(st, x, y) ==
    CASE Node.kind = "delay" -> DelayOutput(Node.delay, Node.overlap, st, x)
      [] Node.kind = "pad" -> PadFrames(x, PadSaved(x, st, End), End)
      [] Node.kind = "concat" ->
            LET opened == Overwritten(x, st.pos, Node.pre, Node.delay - Len(Node.pre))
            IN  IF turn.s = Unbound THEN opened
                ELSE Overwritten(opened, st.pos, Node.post, Node.delay + Node.len[turn.s])
      [] Node.kind = "cumsum" ->
            Constantly(Skipped(st, x), Silence)
                \o (IF Node.exclusive THEN Cumulated(Rest(st, x), st.sum, TRUE)
                    ELSE Cumulated(Rest(st, x), st.sum, FALSE))
      [] Node.kind = "scan" ->
            Constantly(Skipped(st, x), Junk) \o Cumulated(Rest(st, x), HiddenBefore(st), FALSE)
      [] Node.kind = "mask" ->
            [i \in 1 .. Len(x) |-> IF st.pos + i \in Node.begin + 1 .. Eval(Node.end, turn.s)
                                   THEN x[i] ELSE Silence]
      [] Node.kind = "deconvdelay" -> SubSeq(Merged(st, x), 1, Len(x) - Node.overlap)
      [] Node.kind = "conv" -> Convolved(x, Node)
      [] Node.kind = "pool" -> Pooled(x, Node)
      [] Node.kind = "downsample" -> Sampled(x, Node.stride, Node.modulo)
      [] Node.kind = "identity" -> x
      [] Node.kind = "deconv" -> Deconvolved(x, Node, Node.stride - 1)
      [] Node.kind = "sum" -> [i \in 1 .. Len(x) |-> x[i] + y[i]]

\* and what becomes of its state.
Moved(st, x) ==
    CASE Node.kind = "delay" -> DelayPushed(Buffered(Node.delay, Node.overlap), st, x)
      [] Node.kind = "pad" ->
            [PadSaved(x, st, End) EXCEPT !.pos = PadSaved(x, st, End).pos + Len(x) - Node.overlap]
      [] Node.kind \in {"concat", "mask"} -> [pos |-> st.pos + Len(x)]
      [] Node.kind = "cumsum" ->
            [pos |-> st.pos + Len(x),
             sum |-> Last(<<st.sum>> \o Cumulated(Rest(st, x), st.sum, FALSE))]
      [] Node.kind = "scan" ->
            [pos |-> st.pos + Len(x),
             hidden |-> <<Last(<<HiddenBefore(st)>> \o Cumulated(Rest(st, x), HiddenBefore(st), FALSE))>>]
      [] Node.kind = "deconvdelay" ->
            [valid |-> st.valid + (Len(x) - Node.overlap),
             buffer |-> SubSeq(Merged(st, x), Len(x) - Node.overlap + 1, Len(x))]
      [] OTHER -> st

Output == [l \in turn.seats |-> Answered(State(l), Input(1, l), Input(2, l))]
Moves ==
    [l \in Lanes |-> IF l \in turn.seats THEN Moved(State(l), Input(1, l)) ELSE State(l)]

\* The effect of evaluating a node.
Evaluates ==
    /\ turn.at \in Nodes /\ model' = model /\ streams' = streams
    /\ turn' = [turn EXCEPT !.at = turn.at + 1, !.values = Append(turn.values, Output)]
    /\ states' = [states EXCEPT ![turn.at] = Moves]
    /\ limits' = IF Node.kind = "pad"
                 THEN [limits EXCEPT ![turn.at] = ResolvedLimits(limits[turn.at])] ELSE limits
    /\ heard' = IF Node.kind = "delay"
                THEN [heard EXCEPT ![turn.at] =
                        [l \in Lanes |-> IF l \in turn.seats THEN heard[turn.at][l] \o Input(1, l)
                                         ELSE heard[turn.at][l]]]
                ELSE heard

LEMMA NodesEvaluate ==
    ASSUME EvalNode, DOMAIN limits = Nodes
    PROVE  Evaluates
<1>1. CASE EvalDelay
  <2>1. turn.at \in Nodes /\ Node.kind = "delay"
    BY <1>1 DEF EvalDelay, IsAt, Node
  <2> DEFINE output == [l \in turn.seats |->
                          DelayOutput(Node.delay, Node.overlap, State(l), Input(1, l))]
             moves == [l \in Lanes |->
                         IF l \in turn.seats
                         THEN DelayPushed(Buffered(Node.delay, Node.overlap), State(l), Input(1, l))
                         ELSE State(l)]
  <2>3. output = Output
    BY <2>1 DEF Output, Answered
  <2>4. moves = Moves
    BY <2>1 DEF Moves, Moved
  <2>5. turn' = [turn EXCEPT !.at = turn.at + 1, !.values = Append(turn.values, output)]
    BY <1>1 DEF EvalDelay, Evaluated
  <2>6. states' = [states EXCEPT ![turn.at] = moves]
    BY <1>1 DEF EvalDelay, Evaluated, State
  <2>7. /\ model' = model /\ streams' = streams /\ limits' = limits
        /\ heard' = [heard EXCEPT ![turn.at] =
                        [l \in Lanes |-> IF l \in turn.seats THEN heard[turn.at][l] \o Input(1, l)
                                         ELSE heard[turn.at][l]]]
    BY <1>1 DEF EvalDelay, Evaluated
  <2> HIDE DEF output, moves
  <2> QED
    BY <2>1, <2>3, <2>4, <2>5, <2>6, <2>7 DEF Evaluates
<1>2. CASE EvalPad
  <2>1. turn.at \in Nodes /\ Node.kind = "pad"
    BY <1>2 DEF EvalPad, IsAt, Node
  <2> DEFINE output == [l \in turn.seats |->
                          PadFrames(Input(1, l), PadSaved(Input(1, l), State(l), End), End)]
             moves == [l \in Lanes |->
                         IF l \in turn.seats
                         THEN [PadSaved(Input(1, l), State(l), End) EXCEPT !.pos =
                                  PadSaved(Input(1, l), State(l), End).pos + Len(Input(1, l)) - Node.overlap]
                         ELSE State(l)]
  <2>2. limits'[turn.at].end = End
    BY <1>2, <2>1 DEF EvalPad, End
  <2>3. output = Output
    BY <2>1 DEF Output, Answered
  <2>4. moves = Moves
    BY <2>1 DEF Moves, Moved
  <2>5. turn' = [turn EXCEPT !.at = turn.at + 1, !.values = Append(turn.values, output)]
    BY <1>2, <2>1, <2>2 DEF EvalPad, Evaluated
  <2>6. states' = [states EXCEPT ![turn.at] = moves]
    BY <1>2, <2>1, <2>2 DEF EvalPad, Evaluated, State
  <2>7. /\ model' = model /\ streams' = streams /\ heard' = heard
        /\ limits' = [limits EXCEPT ![turn.at] = ResolvedLimits(limits[turn.at])]
    BY <1>2 DEF EvalPad, Evaluated
  <2> HIDE DEF output, moves
  <2> QED
    BY <2>1, <2>3, <2>4, <2>5, <2>6, <2>7 DEF Evaluates
<1>3. CASE EvalConcat
  <2>1. turn.at \in Nodes /\ Node.kind = "concat"
    BY <1>3 DEF EvalConcat, IsAt, Node
  <2> DEFINE output == [l \in turn.seats |->
                          LET opened == Overwritten(Input(1, l), State(l).pos, Node.pre,
                                                    Node.delay - Len(Node.pre))
                          IN  IF turn.s = Unbound THEN opened
                              ELSE Overwritten(opened, State(l).pos, Node.post,
                                               Node.delay + Node.len[turn.s])]
             moves == [l \in Lanes |->
                         IF l \in turn.seats
                         THEN [pos |-> State(l).pos + Len(Input(1, l))]
                         ELSE State(l)]
  <2>3. output = Output
    BY <2>1 DEF Output, Answered
  <2>4. moves = Moves
    BY <2>1 DEF Moves, Moved
  <2>5. turn' = [turn EXCEPT !.at = turn.at + 1, !.values = Append(turn.values, output)]
    BY <1>3 DEF EvalConcat, Evaluated
  <2>6. states' = [states EXCEPT ![turn.at] = moves]
    BY <1>3 DEF EvalConcat, Evaluated, State
  <2>7. model' = model /\ streams' = streams /\ heard' = heard /\ limits' = limits
    BY <1>3 DEF EvalConcat, Evaluated
  <2> HIDE DEF output, moves
  <2> QED
    BY <2>1, <2>3, <2>4, <2>5, <2>6, <2>7 DEF Evaluates
<1>4. CASE EvalCumSum
  <2>1. turn.at \in Nodes /\ Node.kind = "cumsum"
    BY <1>4 DEF EvalCumSum, IsAt, Node
  <2> DEFINE output == [l \in turn.seats |->
                          Constantly(Skipped(State(l), Input(1, l)), Silence)
                              \o (IF Node.exclusive
                                  THEN Cumulated(Rest(State(l), Input(1, l)), State(l).sum, TRUE)
                                  ELSE Cumulated(Rest(State(l), Input(1, l)), State(l).sum, FALSE))]
             moves == [l \in Lanes |->
                         IF l \in turn.seats
                         THEN [pos |-> State(l).pos + Len(Input(1, l)),
                               sum |-> Last(<<State(l).sum>>
                                              \o Cumulated(Rest(State(l), Input(1, l)), State(l).sum, FALSE))]
                         ELSE State(l)]
  <2>3. output = Output
    BY <2>1 DEF Output, Answered
  <2>4. moves = Moves
    BY <2>1 DEF Moves, Moved
  <2>5. turn' = [turn EXCEPT !.at = turn.at + 1, !.values = Append(turn.values, output)]
    BY <1>4 DEF EvalCumSum, Evaluated
  <2>6. states' = [states EXCEPT ![turn.at] = moves]
    BY <1>4 DEF EvalCumSum, Evaluated, State
  <2>7. model' = model /\ streams' = streams /\ heard' = heard /\ limits' = limits
    BY <1>4 DEF EvalCumSum, Evaluated
  <2> HIDE DEF output, moves
  <2> QED
    BY <2>1, <2>3, <2>4, <2>5, <2>6, <2>7 DEF Evaluates
<1>5. CASE EvalScan
  <2>1. turn.at \in Nodes /\ Node.kind = "scan"
    BY <1>5 DEF EvalScan, IsAt, Node
  <2> DEFINE output == [l \in turn.seats |->
                          Constantly(Skipped(State(l), Input(1, l)), Junk)
                              \o Cumulated(Rest(State(l), Input(1, l)), HiddenBefore(State(l)), FALSE)]
             moves == [l \in Lanes |->
                         IF l \in turn.seats
                         THEN [pos |-> State(l).pos + Len(Input(1, l)),
                               hidden |-> <<Last(<<HiddenBefore(State(l))>>
                                                   \o Cumulated(Rest(State(l), Input(1, l)),
                                                                HiddenBefore(State(l)), FALSE))>>]
                         ELSE State(l)]
  <2>3. output = Output
    BY <2>1 DEF Output, Answered, HiddenBefore
  <2>4. moves = Moves
    BY <2>1 DEF Moves, Moved, HiddenBefore
  <2>5. turn' = [turn EXCEPT !.at = turn.at + 1, !.values = Append(turn.values, output)]
    BY <1>5 DEF EvalScan, Evaluated, HiddenBefore
  <2>6. states' = [states EXCEPT ![turn.at] = moves]
    BY <1>5 DEF EvalScan, Evaluated, State, HiddenBefore
  <2>7. model' = model /\ streams' = streams /\ heard' = heard /\ limits' = limits
    BY <1>5 DEF EvalScan, Evaluated
  <2> HIDE DEF output, moves
  <2> QED
    BY <2>1, <2>3, <2>4, <2>5, <2>6, <2>7 DEF Evaluates
<1>6. CASE EvalMask
  <2>1. turn.at \in Nodes /\ Node.kind = "mask"
    BY <1>6 DEF EvalMask, IsAt, Node
  <2> DEFINE output == [l \in turn.seats |->
                          [i \in 1 .. Len(Input(1, l)) |->
                             IF State(l).pos + i \in Node.begin + 1 .. Eval(Node.end, turn.s)
                             THEN Input(1, l)[i] ELSE Silence]]
             moves == [l \in Lanes |->
                         IF l \in turn.seats
                         THEN [pos |-> State(l).pos + Len(Input(1, l))]
                         ELSE State(l)]
  <2>3. output = Output
    BY <2>1 DEF Output, Answered
  <2>4. moves = Moves
    BY <2>1 DEF Moves, Moved
  <2>5. turn' = [turn EXCEPT !.at = turn.at + 1, !.values = Append(turn.values, output)]
    BY <1>6 DEF EvalMask, Evaluated
  <2>6. states' = [states EXCEPT ![turn.at] = moves]
    BY <1>6 DEF EvalMask, Evaluated, State
  <2>7. model' = model /\ streams' = streams /\ heard' = heard /\ limits' = limits
    BY <1>6 DEF EvalMask, Evaluated
  <2> HIDE DEF output, moves
  <2> QED
    BY <2>1, <2>3, <2>4, <2>5, <2>6, <2>7 DEF Evaluates
<1>7. CASE EvalDeconvDelay
  <2>1. turn.at \in Nodes /\ Node.kind = "deconvdelay"
    BY <1>7 DEF EvalDeconvDelay, IsAt, Node
  <2> DEFINE output == [l \in turn.seats |->
                          SubSeq(Merged(State(l), Input(1, l)), 1, Len(Input(1, l)) - Node.overlap)]
             moves == [l \in Lanes |->
                         IF l \in turn.seats
                         THEN [valid |-> State(l).valid + (Len(Input(1, l)) - Node.overlap),
                               buffer |-> SubSeq(Merged(State(l), Input(1, l)),
                                                 Len(Input(1, l)) - Node.overlap + 1, Len(Input(1, l)))]
                         ELSE State(l)]
  <2>3. output = Output
    BY <2>1 DEF Output, Answered
  <2>4. moves = Moves
    BY <2>1 DEF Moves, Moved
  <2>5. turn' = [turn EXCEPT !.at = turn.at + 1, !.values = Append(turn.values, output)]
    BY <1>7 DEF EvalDeconvDelay, Evaluated
  <2>6. states' = [states EXCEPT ![turn.at] = moves]
    BY <1>7 DEF EvalDeconvDelay, Evaluated, State
  <2>7. model' = model /\ streams' = streams /\ heard' = heard /\ limits' = limits
    BY <1>7 DEF EvalDeconvDelay, Evaluated
  <2> HIDE DEF output, moves
  <2> QED
    BY <2>1, <2>3, <2>4, <2>5, <2>6, <2>7 DEF Evaluates
<1>8. CASE EvalConv
  <2>1. turn.at \in Nodes /\ Node.kind = "conv"
    BY <1>8 DEF EvalConv, IsAt, Node
  <2> DEFINE output == [l \in turn.seats |->
                          Convolved(Input(1, l), Node)]
             moves == [l \in Lanes |->
                         IF l \in turn.seats
                         THEN State(l)
                         ELSE State(l)]
  <2>3. output = Output
    BY <2>1 DEF Output, Answered
  <2>4. moves = Moves
    BY <2>1 DEF Moves, Moved
  <2>5. turn' = [turn EXCEPT !.at = turn.at + 1, !.values = Append(turn.values, output)]
    BY <1>8 DEF EvalConv, Stateless, Evaluated
  <2>6. states' = [states EXCEPT ![turn.at] = moves]
    BY <1>8 DEF EvalConv, Stateless, Evaluated, State
  <2>7. model' = model /\ streams' = streams /\ heard' = heard /\ limits' = limits
    BY <1>8 DEF EvalConv, Stateless, Evaluated
  <2> HIDE DEF output, moves
  <2> QED
    BY <2>1, <2>3, <2>4, <2>5, <2>6, <2>7 DEF Evaluates
<1>9. CASE EvalPool
  <2>1. turn.at \in Nodes /\ Node.kind = "pool"
    BY <1>9 DEF EvalPool, IsAt, Node
  <2> DEFINE output == [l \in turn.seats |->
                          Pooled(Input(1, l), Node)]
             moves == [l \in Lanes |->
                         IF l \in turn.seats
                         THEN State(l)
                         ELSE State(l)]
  <2>3. output = Output
    BY <2>1 DEF Output, Answered
  <2>4. moves = Moves
    BY <2>1 DEF Moves, Moved
  <2>5. turn' = [turn EXCEPT !.at = turn.at + 1, !.values = Append(turn.values, output)]
    BY <1>9 DEF EvalPool, Stateless, Evaluated
  <2>6. states' = [states EXCEPT ![turn.at] = moves]
    BY <1>9 DEF EvalPool, Stateless, Evaluated, State
  <2>7. model' = model /\ streams' = streams /\ heard' = heard /\ limits' = limits
    BY <1>9 DEF EvalPool, Stateless, Evaluated
  <2> HIDE DEF output, moves
  <2> QED
    BY <2>1, <2>3, <2>4, <2>5, <2>6, <2>7 DEF Evaluates
<1>10. CASE EvalDownsample
  <2>1. turn.at \in Nodes /\ Node.kind = "downsample"
    BY <1>10 DEF EvalDownsample, IsAt, Node
  <2> DEFINE output == [l \in turn.seats |->
                          Sampled(Input(1, l), Node.stride, Node.modulo)]
             moves == [l \in Lanes |->
                         IF l \in turn.seats
                         THEN State(l)
                         ELSE State(l)]
  <2>3. output = Output
    BY <2>1 DEF Output, Answered
  <2>4. moves = Moves
    BY <2>1 DEF Moves, Moved
  <2>5. turn' = [turn EXCEPT !.at = turn.at + 1, !.values = Append(turn.values, output)]
    BY <1>10 DEF EvalDownsample, Stateless, Evaluated
  <2>6. states' = [states EXCEPT ![turn.at] = moves]
    BY <1>10 DEF EvalDownsample, Stateless, Evaluated, State
  <2>7. model' = model /\ streams' = streams /\ heard' = heard /\ limits' = limits
    BY <1>10 DEF EvalDownsample, Stateless, Evaluated
  <2> HIDE DEF output, moves
  <2> QED
    BY <2>1, <2>3, <2>4, <2>5, <2>6, <2>7 DEF Evaluates
<1>11. CASE EvalSlice
  <2>1. turn.at \in Nodes /\ Node.kind = "identity"
    BY <1>11 DEF EvalSlice, IsAt, Node
  <2> DEFINE output == [l \in turn.seats |->
                          Input(1, l)]
             moves == [l \in Lanes |->
                         IF l \in turn.seats
                         THEN State(l)
                         ELSE State(l)]
  <2>3. output = Output
    BY <2>1 DEF Output, Answered
  <2>4. moves = Moves
    BY <2>1 DEF Moves, Moved
  <2>5. turn' = [turn EXCEPT !.at = turn.at + 1, !.values = Append(turn.values, output)]
    BY <1>11 DEF EvalSlice, Stateless, Evaluated
  <2>6. states' = [states EXCEPT ![turn.at] = moves]
    BY <1>11 DEF EvalSlice, Stateless, Evaluated, State
  <2>7. model' = model /\ streams' = streams /\ heard' = heard /\ limits' = limits
    BY <1>11 DEF EvalSlice, Stateless, Evaluated
  <2> HIDE DEF output, moves
  <2> QED
    BY <2>1, <2>3, <2>4, <2>5, <2>6, <2>7 DEF Evaluates
<1>12. CASE EvalDeconv
  <2>1. turn.at \in Nodes /\ Node.kind = "deconv"
    BY <1>12 DEF EvalDeconv, IsAt, Node
  <2> DEFINE output == [l \in turn.seats |->
                          Deconvolved(Input(1, l), Node, Node.stride - 1)]
             moves == [l \in Lanes |->
                         IF l \in turn.seats
                         THEN State(l)
                         ELSE State(l)]
  <2>3. output = Output
    BY <2>1 DEF Output, Answered
  <2>4. moves = Moves
    BY <2>1 DEF Moves, Moved
  <2>5. turn' = [turn EXCEPT !.at = turn.at + 1, !.values = Append(turn.values, output)]
    BY <1>12 DEF EvalDeconv, Stateless, Evaluated
  <2>6. states' = [states EXCEPT ![turn.at] = moves]
    BY <1>12 DEF EvalDeconv, Stateless, Evaluated, State
  <2>7. model' = model /\ streams' = streams /\ heard' = heard /\ limits' = limits
    BY <1>12 DEF EvalDeconv, Stateless, Evaluated
  <2> HIDE DEF output, moves
  <2> QED
    BY <2>1, <2>3, <2>4, <2>5, <2>6, <2>7 DEF Evaluates
<1>13. CASE EvalSum
  <2>1. turn.at \in Nodes /\ Node.kind = "sum"
    BY <1>13 DEF EvalSum, IsAt, Node
  <2> DEFINE output == [l \in turn.seats |->
                          [i \in 1 .. Len(Input(1, l)) |-> Input(1, l)[i] + Input(2, l)[i]]]
             moves == [l \in Lanes |->
                         IF l \in turn.seats
                         THEN State(l)
                         ELSE State(l)]
  <2>3. output = Output
    BY <2>1 DEF Output, Answered
  <2>4. moves = Moves
    BY <2>1 DEF Moves, Moved
  <2>5. turn' = [turn EXCEPT !.at = turn.at + 1, !.values = Append(turn.values, output)]
    BY <1>13 DEF EvalSum, Stateless, Evaluated
  <2>6. states' = [states EXCEPT ![turn.at] = moves]
    BY <1>13 DEF EvalSum, Stateless, Evaluated, State
  <2>7. model' = model /\ streams' = streams /\ heard' = heard /\ limits' = limits
    BY <1>13 DEF EvalSum, Stateless, Evaluated
  <2> HIDE DEF output, moves
  <2> QED
    BY <2>1, <2>3, <2>4, <2>5, <2>6, <2>7 DEF Evaluates
<1> QED
  BY <1>1, <1>2, <1>3, <1>4, <1>5, <1>6, <1>7, <1>8, <1>9, <1>10, <1>11, <1>12, <1>13 DEF EvalNode

-----------------------------------------------------------------------------
(* What the node at hand answers is a pulse of numbers, and its state keeps  *)
(* its form.                                                                *)

In == FactOf(Plan, Node.from[1])
Out == FactOf(Plan, turn.at)
PastIn == Past(Plan, Node.from[1])

Bound == {Unbound} \cup Lengths

AtWork ==
    /\ IsPrepared /\ turn.at \in Nodes /\ turn.s \in Bound
    /\ Node.kind = "pad" => End = Eval(Node.end, turn.s)

\* A node's state and what a Delay has heard, its inputs being of fact `in'.
StateIsSound(node, in, st, h) ==
    /\ h \in Seq(Int)
    /\ node.kind = "delay" => RingHolds(Buffered(node.delay, node.overlap), st, h, Silence)
    /\ node.kind = "pad" =>
          /\ st = [pos |-> st.pos, last |-> st.last] /\ st.pos \in Nat /\ st.last \in Int
          /\ node.mode = "edge" => st.pos % in.pulse = 0
    /\ node.kind \in {"concat", "mask", "cumsum", "scan"} => st.pos \in Nat
    /\ node.kind = "cumsum" => st.sum \in Int
    /\ node.kind = "scan" => st.hidden \in Seq(Int)
    /\ node.kind = "deconvdelay" =>
          st.valid \in Int /\ st.buffer \in [1 .. node.overlap -> Int]

HeardAfter(h, x) == IF Node.kind = "delay" THEN h \o x ELSE h

Keeps(st, h, x, y) ==
    /\ Answered(st, x, y) \in [1 .. Out.pulse -> Int]
    /\ StateIsSound(Node, In, Moved(st, x), HeardAfter(h, x))

LEMMA AtWorkIs ==
    ASSUME AtWork
    PROVE  /\ In.pulse \in Nat \ {0} /\ In.delay \in Nat /\ In.dim \in [Lengths -> Int]
           /\ Out.pulse \in Nat \ {0} /\ Out.delay \in Nat /\ Out.dim \in [Lengths -> Int]
           /\ PastIn \in Nat /\ PastIn < In.pulse /\ IsNode(Node, PastIn, In, Out)
           /\ Node.kind = "sum" => FactOf(Plan, Node.from[2]).pulse = In.pulse
           /\ Node.from[1] \in 0 .. turn.at - 1
           /\ Node.kind = "sum" => Node.from[2] \in 0 .. turn.at - 1
<1>1. IsPrepared /\ turn.at \in Nodes
  BY DEF AtWork
<1>2. /\ In \in Fact /\ Out \in Fact /\ PastIn \in Nat /\ PastIn < In.pulse
      /\ IsNode(Node, PastIn, In, Out)
      /\ Node.kind = "sum" => FactOf(Plan, Node.from[2]).pulse = In.pulse
      /\ Node.from[1] \in 0 .. turn.at - 1
      /\ Node.kind = "sum" => Node.from[2] \in 0 .. turn.at - 1
  BY <1>1, NodeIs DEF In, Out, PastIn, Node
<1> HIDE DEF In, Out, PastIn
<1>3. /\ In.pulse \in Nat \ {0} /\ In.delay \in Nat /\ In.dim \in [Lengths -> Int]
      /\ Out.pulse \in Nat \ {0} /\ Out.delay \in Nat /\ Out.dim \in [Lengths -> Int]
  BY <1>2, FactsAre DEF Dim
<1> QED
  BY <1>2, <1>3

\* Where a dimension of a node ends is a number, known or not.
LEMMA EvalIsInt ==
    ASSUME NEW dim \in [Lengths -> Int], NEW s \in Bound
    PROVE  Eval(dim, s) \in Int
BY DEF Eval, Bound, Never, Unbound

LEMMA DelayKeeps ==
    ASSUME AtWork, Node.kind = "delay", NEW x \in [1 .. In.pulse -> Int], NEW y,
           NEW st, NEW h, StateIsSound(Node, In, st, h)
    PROVE  Keeps(st, h, x, y)
<1> DEFINE d == Node.delay
           o == Node.overlap
           b == Buffered(d, o)
           n == In.pulse
           m == Out.pulse
<1>1. d \in Nat /\ o \in Nat /\ n \in Nat \ {0} /\ m = n + o
  BY AtWorkIs DEF IsNode
<1>2. h \in Seq(Int) /\ RingHolds(b, st, h, Silence)
  BY DEF StateIsSound
<1>3. x \in Seq(Int) /\ Len(x) = n
  <2> HIDE DEF n
  <2>1. x \in [1 .. n -> Int]
    BY DEF n
  <2> QED
    BY <1>1, <2>1, ListedIsASequence
<1>4. b \in Nat
  BY <1>1 DEF Buffered
<1> HIDE DEF b
<1>5. RingHolds(b, DelayPushed(b, st, x), h \o x, Silence)
  BY <1>2, <1>3, <1>4, RingKeepsTheLastFrames
<1>6. DelayOutput(d, o, st, x) = Delayed(d, o, h \o x, n, Silence)
  BY <1>1, <1>2, <1>3, OutputIsDelayed DEF b
<1>7. h \o x \in Seq(Int)
  BY <1>2, <1>3
<1>8. DelayOutput(d, o, st, x) \in [1 .. m -> Int]
  <2> DEFINE all == h \o x
  <2>1. all \in Seq(Int)
    BY <1>7
  <2> HIDE DEF all, d, o, n, m
  <2>2. ASSUME NEW k \in Int PROVE FrameAt(all, k, Silence) \in Int
    BY <2>1 DEF FrameAt, Silence
  <2>3. \A p \in 1 .. n + o : Len(all) - n + p - d - o \in Int
    BY <1>1, <2>1
  <2> QED
    BY <1>1, <1>6, <2>2, <2>3 DEF Delayed, all
<1>9. Answered(st, x, y) = DelayOutput(d, o, st, x) /\ Moved(st, x) = DelayPushed(b, st, x)
  BY DEF Answered, Moved, b
<1> QED
  BY <1>5, <1>7, <1>8, <1>9 DEF Keeps, HeardAfter, StateIsSound, b

LEMMA ConcatKeeps ==
    ASSUME AtWork, Node.kind = "concat", NEW x \in [1 .. In.pulse -> Int], NEW y,
           NEW st, NEW h, StateIsSound(Node, In, st, h)
    PROVE  Keeps(st, h, x, y)
<1> DEFINE n == In.pulse
           pre == Node.pre
           post == Node.post
           d == Node.delay
           pos == st.pos
           opened == Overwritten(x, pos, pre, d - Len(pre))
           closed == Overwritten(opened, pos, post, d + Node.len[turn.s])
<1>1. /\ n \in Nat \ {0} /\ Out.pulse = n /\ pre \in Seq(Int) /\ post \in Seq(Int)
      /\ d \in Nat /\ Node.len = In.dim /\ In.dim \in [Lengths -> Int]
  BY AtWorkIs DEF IsNode
<1>2. h \in Seq(Int) /\ pos \in Nat /\ turn.s \in Bound
  BY DEF StateIsSound, AtWork
<1>3. x \in [1 .. n -> Int] /\ Len(x) = n
  BY <1>1, ListedIsASequence
<1>4. opened \in [1 .. n -> Int]
  <2> DEFINE off == d - Len(pre)
  <2>1. off \in Int
    <3> HIDE DEF d, pre
    <3> QED
      BY <1>1
  <2> HIDE DEF off, n, pre, d, pos
  <2>2. Overwritten(x, pos, pre, off) \in [1 .. n -> Int]
    <3>1. n \in Nat /\ x \in [1 .. n -> Int] /\ pos \in Int /\ pre \in Seq(Int)
      BY <1>1, <1>2, <1>3
    <3> QED
      BY <2>1, <3>1, OverwrittenFrames
  <2> QED
    BY <2>2 DEF off
<1>5. turn.s # Unbound => closed \in [1 .. n -> Int]
  <2> HAVE turn.s # Unbound
  <2>1. Node.len[turn.s] \in Int
    BY <1>1, <1>2 DEF Bound
  <2> HIDE DEF opened
  <2> DEFINE e == Node.len[turn.s]
             off == d + e
  <2>2. off \in Int
    <3> HIDE DEF d, e
    <3> QED
      BY <1>1, <2>1 DEF e
  <2> HIDE DEF off, n, post, d, pos
  <2>3. Overwritten(opened, pos, post, off) \in [1 .. n -> Int]
    <3>1. n \in Nat /\ opened \in [1 .. n -> Int] /\ pos \in Int /\ post \in Seq(Int)
      BY <1>1, <1>2, <1>4
    <3> QED
      BY <2>2, <3>1, OverwrittenFrames
  <2> QED
    BY <2>3 DEF off
<1>6. /\ Answered(st, x, y) = IF turn.s = Unbound THEN opened ELSE closed
      /\ Moved(st, x) = [pos |-> pos + Len(x)]
  BY DEF Answered, Moved
<1> HIDE DEF opened, closed
<1>7. pos + Len(x) \in Nat
  <2> HIDE DEF pos, n
  <2> QED
    BY <1>1, <1>2, <1>3
<1>8. StateIsSound(Node, In, Moved(st, x), h)
  BY <1>2, <1>6, <1>7 DEF StateIsSound
<1> QED
  BY <1>1, <1>4, <1>5, <1>6, <1>8 DEF Keeps, HeardAfter

Masked(x, n, pos, valid) == [i \in 1 .. n |-> IF pos + i \in valid THEN x[i] ELSE Silence]

LEMMA MaskedFrames ==
    ASSUME NEW n \in Nat, NEW x \in [1 .. n -> Int], NEW pos, NEW valid
    PROVE  Masked(x, n, pos, valid) \in [1 .. n -> Int]
  BY DEF Masked, Silence

LEMMA MaskKeeps ==
    ASSUME AtWork, Node.kind = "mask", NEW x \in [1 .. In.pulse -> Int], NEW y,
           NEW st, NEW h, StateIsSound(Node, In, st, h)
    PROVE  Keeps(st, h, x, y)
<1> DEFINE n == In.pulse
           pos == st.pos
           valid == Node.begin + 1 .. Eval(Node.end, turn.s)
           answer == Masked(x, n, pos, valid)
<1>1. n \in Nat \ {0} /\ Out.pulse = n
  BY AtWorkIs DEF IsNode
<1>2. h \in Seq(Int) /\ pos \in Nat
  BY DEF StateIsSound
<1>3. x \in [1 .. n -> Int] /\ Len(x) = n
  BY <1>1, ListedIsASequence
<1>4. /\ Answered(st, x, y) = answer /\ Moved(st, x) = [pos |-> pos + Len(x)]
  BY <1>3 DEF Answered, Moved, Masked
<1>5. pos + Len(x) \in Nat
  <2> HIDE DEF pos, n
  <2> QED
    BY <1>1, <1>2, <1>3
<1>6. StateIsSound(Node, In, Moved(st, x), h)
  BY <1>2, <1>4, <1>5 DEF StateIsSound
<1>7. answer \in [1 .. n -> Int]
  <2> HIDE DEF valid, pos, n
  <2> QED
    <3>1. n \in Nat /\ x \in [1 .. n -> Int]
      BY <1>1, <1>3
    <3> QED
      BY <3>1, MaskedFrames
<1> HIDE DEF answer
<1> QED
  BY <1>1, <1>4, <1>6, <1>7 DEF Keeps, HeardAfter

\* The frames of a pulse that come after the skipped ones.
LEMMA RestIs ==
    ASSUME AtWork, Node.kind \in {"cumsum", "scan"}, NEW x \in [1 .. In.pulse -> Int],
           NEW st, st.pos \in Nat, NEW k, k = Skipped(st, x)
    PROVE  /\ k \in 0 .. In.pulse
           /\ k = IF Positive(In.delay - st.pos) <= In.pulse THEN Positive(In.delay - st.pos)
                  ELSE In.pulse
           /\ Rest(st, x) \in [1 .. In.pulse - k -> Int]
           /\ \A i \in 1 .. In.pulse - k : Rest(st, x)[i] = x[k + i]
<1> DEFINE n == In.pulse
           d == In.delay
           pos == st.pos
           late == Positive(d - pos)
<1>1. n \in Nat \ {0} /\ d \in Nat /\ Node.skip = d /\ pos \in Nat
  BY AtWorkIs DEF IsNode
<1>2. x \in [1 .. n -> Int] /\ Len(x) = n /\ x \in Seq(Int)
  <2>1. n \in Nat /\ x \in [1 .. n -> Int]
    BY <1>1
  <2> QED
    BY <2>1, ListedIsASequence
<1>3. k = Min({late, n})
  BY <1>1, <1>2 DEF Skipped
<1> HIDE DEF n, d, pos
<1>4. late \in Nat
  BY <1>1 DEF Positive
<1> HIDE DEF late
<1>5. k = IF late <= n THEN late ELSE n
  BY <1>1, <1>3, <1>4, LeastOfTwo
<1>6. k \in 0 .. n
  BY <1>1, <1>4, <1>5
<1>7. Rest(st, x) = SubSeq(x, k + 1, n)
  BY <1>2 DEF Rest
<1>8. SubSeq(x, k + 1, n) \in [1 .. n - k -> Int]
  <2>1. k + 1 \in 1 .. n + 1 /\ n \in (k + 1) - 1 .. n /\ n \in Nat
    BY <1>1, <1>6
  <2>2. SubSeq(x, k + 1, n) \in [1 .. n - (k + 1) + 1 -> Int]
    BY <1>2, <2>1, PartOfFrames
  <2>3. n - (k + 1) + 1 = n - k
    BY <1>1, <1>6
  <2> QED
    BY <2>2, <2>3
<1>9. \A i \in 1 .. n - k : SubSeq(x, k + 1, n)[i] = x[k + i]
  <2> TAKE i \in 1 .. n - k
  <2> DEFINE a == k + 1
  <2>1. a \in Int /\ n \in Int /\ \A j \in a .. n : x[j] \in Int
    <3>1. a \in Int /\ n \in Int /\ a >= 1
      BY <1>1, <1>6
    <3>2. \A j \in 1 .. n : x[j] \in Int
      BY <1>2
    <3> HIDE DEF a
    <3>3. \A j \in a .. n : j \in 1 .. n
      BY <3>1
    <3> QED
      BY <3>1, <3>2, <3>3
  <2>2. i \in 1 .. n - a + 1 /\ a + i - 1 = k + i
    BY <1>1, <1>6
  <2> HIDE DEF a
  <2>3. SubSeq(x, a, n)[i] = x[a + i - 1]
    BY <2>1, <2>2, SubSeqProperties
  <2> QED
    BY <2>2, <2>3 DEF a
<1> QED
  BY <1>5, <1>6, <1>7, <1>8, <1>9 DEF n, d, pos, late

\* A running sum, and where it ends.
LEMMA LastSumIs ==
    ASSUME NEW n \in Nat, NEW x \in [1 .. n -> Int], NEW from \in Int
    PROVE  /\ Last(<<from>> \o Cumulated(x, from, FALSE)) = Sums(x, from)[n]
           /\ Sums(x, from)[n] \in Int
           /\ \A i \in 1 .. n : Cumulated(x, from, FALSE)[i] = Sums(x, from)[i]
           /\ \A i \in 1 .. n : Cumulated(x, from, TRUE)[i] = Sums(x, from)[i - 1]
<1> DEFINE sums == Sums(x, from)
           c == Cumulated(x, from, FALSE)
<1>1. x \in Seq(Int) /\ Len(x) = n
  BY ListedIsASequence
<1>2. sums[0] = from /\ \A k \in 0 .. n : sums[k] \in Int
  BY <1>1, SumsAre
<1>3. /\ c = [i \in 1 .. n |-> sums[i]]
      /\ Cumulated(x, from, TRUE) = [i \in 1 .. n |-> sums[i - 1]]
  BY <1>1 DEF Cumulated
<1> HIDE DEF sums, c
<1>4. c \in [1 .. n -> Int]
  BY <1>2, <1>3
<1>5. c \in Seq(Int) /\ Len(c) = n
  BY <1>4, ListedIsASequence
<1>6. Last(<<from>> \o c) = IF n = 0 THEN from ELSE c[n]
  BY <1>5 DEF Last
<1>7. Last(<<from>> \o c) = sums[n] /\ sums[n] \in Int
  BY <1>2, <1>3, <1>6
<1> QED
  BY <1>3, <1>7 DEF sums, c

\* Silence or junk, and then a running sum.
LEMMA SkippedAndSummed ==
    ASSUME NEW n \in Nat, NEW k \in 0 .. n, NEW value \in Int, NEW rest \in [1 .. n - k -> Int],
           NEW from \in Int, NEW exclusive
    PROVE  Constantly(k, value) \o Cumulated(rest, from, exclusive) \in [1 .. n -> Int]
<1>1. k \in Nat /\ n - k \in Nat /\ k + (n - k) = n
  OBVIOUS
<1>2. Constantly(k, value) \in [1 .. k -> Int]
  BY DEF Constantly
<1>3. Cumulated(rest, from, exclusive) \in [1 .. n - k -> Int]
  BY <1>1, CumulatedFrames
<1>4. Constantly(k, value) \o Cumulated(rest, from, exclusive) \in [1 .. k + (n - k) -> Int]
  <2> DEFINE a == Constantly(k, value)
             b == Cumulated(rest, from, exclusive)
             m == n - k
  <2>1. a \in [1 .. k -> Int] /\ b \in [1 .. m -> Int] /\ k \in Nat /\ m \in Nat
    BY <1>1, <1>2, <1>3
  <2> HIDE DEF a, b, m
  <2>2. a \o b \in [1 .. k + m -> Int]
    BY <2>1, JoinedFrames
  <2> QED
    BY <2>2 DEF a, b, m
<1> QED
  BY <1>1, <1>4

LEMMA CumSumKeeps ==
    ASSUME AtWork, Node.kind = "cumsum", NEW x \in [1 .. In.pulse -> Int], NEW y,
           NEW st, NEW h, StateIsSound(Node, In, st, h)
    PROVE  Keeps(st, h, x, y)
<1> DEFINE n == In.pulse
           k == Skipped(st, x)
           rest == Rest(st, x)
           from == st.sum
<1>1. n \in Nat /\ Out.pulse = n /\ Len(x) = n
  <2>1. n \in Nat \ {0} /\ Out.pulse = n
    BY AtWorkIs DEF IsNode
  <2>2. n \in Nat /\ x \in [1 .. n -> Int]
    BY <2>1
  <2> QED
    BY <2>1, <2>2, ListedIsASequence
<1>2. h \in Seq(Int) /\ st.pos \in Nat /\ from \in Int
  BY DEF StateIsSound
<1>3. k \in 0 .. n /\ rest \in [1 .. n - k -> Int]
  BY <1>2, RestIs
<1>4. n - k \in Nat
  BY <1>1, <1>3
<1>5. /\ Answered(st, x, y)
           = Constantly(k, Silence) \o (IF Node.exclusive THEN Cumulated(rest, from, TRUE)
                                        ELSE Cumulated(rest, from, FALSE))
      /\ Moved(st, x) = [pos |-> st.pos + Len(x), sum |-> Last(<<from>> \o Cumulated(rest, from, FALSE))]
  BY DEF Answered, Moved
<1> HIDE DEF n, k, rest, from
<1>6. /\ Constantly(k, Silence) \o Cumulated(rest, from, TRUE) \in [1 .. n -> Int]
      /\ Constantly(k, Silence) \o Cumulated(rest, from, FALSE) \in [1 .. n -> Int]
  <2>1. Silence \in Int
    BY DEF Silence
  <2> QED
    BY <1>1, <1>2, <1>3, <2>1, SkippedAndSummed
<1>7. Answered(st, x, y) \in [1 .. n -> Int]
  BY <1>5, <1>6
<1>8. Last(<<from>> \o Cumulated(rest, from, FALSE)) \in Int
  <2> DEFINE m == n - k
  <2>1. m \in Nat /\ rest \in [1 .. m -> Int] /\ from \in Int
    BY <1>2, <1>3, <1>4
  <2> HIDE DEF m
  <2> QED
    BY <2>1, LastSumIs
<1>9. st.pos + Len(x) \in Nat
  <2> DEFINE pos == st.pos
  <2>1. pos \in Nat
    BY <1>2
  <2> HIDE DEF pos
  <2>2. pos + Len(x) \in Nat
    BY <1>1, <2>1
  <2> QED
    BY <2>2 DEF pos
<1>10. StateIsSound(Node, In, Moved(st, x), h)
  <2> DEFINE a == st.pos + Len(x)
             b == Last(<<from>> \o Cumulated(rest, from, FALSE))
  <2>1. Moved(st, x) = [pos |-> a, sum |-> b] /\ a \in Nat /\ b \in Int
    BY <1>5, <1>8, <1>9
  <2> HIDE DEF a, b
  <2> QED
    BY <1>2, <2>1 DEF StateIsSound
<1> QED
  BY <1>1, <1>7, <1>10 DEF Keeps, HeardAfter, n

LEMMA HiddenIsInt ==
    ASSUME NEW st, st.hidden \in Seq(Int)
    PROVE  HiddenBefore(st) \in Int
  BY DEF HiddenBefore, ScanStart

LEMMA ScanKeeps ==
    ASSUME AtWork, Node.kind = "scan", NEW x \in [1 .. In.pulse -> Int], NEW y,
           NEW st, NEW h, StateIsSound(Node, In, st, h)
    PROVE  Keeps(st, h, x, y)
<1> DEFINE n == In.pulse
           k == Skipped(st, x)
           rest == Rest(st, x)
           from == HiddenBefore(st)
<1>1. n \in Nat /\ Out.pulse = n /\ Len(x) = n
  <2>1. n \in Nat \ {0} /\ Out.pulse = n
    BY AtWorkIs DEF IsNode
  <2>2. n \in Nat /\ x \in [1 .. n -> Int]
    BY <2>1
  <2> QED
    BY <2>1, <2>2, ListedIsASequence
<1>2. h \in Seq(Int) /\ st.pos \in Nat /\ from \in Int
  BY HiddenIsInt DEF StateIsSound
<1>3. k \in 0 .. n /\ rest \in [1 .. n - k -> Int]
  BY <1>2, RestIs
<1>4. n - k \in Nat
  BY <1>1, <1>3
<1>5. /\ Answered(st, x, y) = Constantly(k, Junk) \o Cumulated(rest, from, FALSE)
      /\ Moved(st, x) = [pos |-> st.pos + Len(x),
                         hidden |-> <<Last(<<from>> \o Cumulated(rest, from, FALSE))>>]
  BY DEF Answered, Moved
<1> HIDE DEF n, k, rest, from
<1>6. Constantly(k, Junk) \o Cumulated(rest, from, FALSE) \in [1 .. n -> Int]
  <2>1. Junk \in Int
    BY DEF Junk
  <2> QED
    BY <1>1, <1>2, <1>3, <2>1, SkippedAndSummed
<1>7. Answered(st, x, y) \in [1 .. n -> Int]
  BY <1>5, <1>6
<1>8. Last(<<from>> \o Cumulated(rest, from, FALSE)) \in Int
  <2> DEFINE m == n - k
  <2>1. m \in Nat /\ rest \in [1 .. m -> Int] /\ from \in Int
    BY <1>2, <1>3, <1>4
  <2> HIDE DEF m
  <2> QED
    BY <2>1, LastSumIs
<1>9. st.pos + Len(x) \in Nat
  <2> DEFINE pos == st.pos
  <2>1. pos \in Nat
    BY <1>2
  <2> HIDE DEF pos
  <2>2. pos + Len(x) \in Nat
    BY <1>1, <2>1
  <2> QED
    BY <2>2 DEF pos
<1>10. StateIsSound(Node, In, Moved(st, x), h)
  <2> DEFINE a == st.pos + Len(x)
             b == Last(<<from>> \o Cumulated(rest, from, FALSE))
  <2>1. Moved(st, x) = [pos |-> a, hidden |-> <<b>>] /\ a \in Nat /\ b \in Int
    BY <1>5, <1>8, <1>9
  <2> HIDE DEF a, b
  <2> QED
    BY <1>2, <2>1 DEF StateIsSound
<1> QED
  BY <1>1, <1>7, <1>10 DEF Keeps, HeardAfter, n

LEMMA StatelessKeeps ==
    ASSUME AtWork, Node.kind \in {"conv", "pool", "downsample", "identity", "deconv", "sum"},
           NEW x \in [1 .. In.pulse -> Int], NEW y \in [1 .. In.pulse -> Int],
           NEW st, NEW h, StateIsSound(Node, In, st, h)
    PROVE  Keeps(st, h, x, y)
<1> DEFINE n == In.pulse
           m == Out.pulse
           node == Node
<1>1. /\ n \in Nat \ {0} /\ m \in Nat \ {0} /\ IsNode(node, PastIn, In, Out)
      /\ PastIn \in Nat /\ node = Node
  BY AtWorkIs
<1>2. x \in [1 .. n -> Int] /\ Len(x) = n
  <2>1. n \in Nat /\ x \in [1 .. n -> Int]
    BY <1>1
  <2> QED
    BY <2>1, ListedIsASequence
<1>3. Moved(st, x) = st /\ HeardAfter(h, x) = h
  BY DEF Moved, HeardAfter
<1> HIDE DEF node
<1>4. Answered(st, x, y) \in [1 .. m -> Int]
  <2>1. CASE Node.kind \in {"conv", "pool"}
    <3>1. /\ node.size \in Nat \ {0} /\ node.stride \in Nat \ {0} /\ node.dilation \in Nat \ {0}
          /\ m = WindowCount(n, node.size, node.stride, node.dilation)
      BY <1>1, <2>1 DEF IsNode
    <3>2. Answered(st, x, y) = IF node.kind = "conv" THEN Convolved(x, node) ELSE Pooled(x, node)
      BY <2>1 DEF Answered, node
    <3> HIDE DEF n, m
    <3>3. n \in Nat /\ x \in [1 .. n -> Int]
      BY <1>1, <1>2
    <3>4. /\ Convolved(x, node) \in [1 .. WindowCount(n, node.size, node.stride, node.dilation) -> Int]
          /\ Pooled(x, node) \in [1 .. WindowCount(n, node.size, node.stride, node.dilation) -> Int]
      BY <3>1, <3>3, ConvolvedFrames
    <3> QED
      BY <3>1, <3>2, <3>4
  <2>2. CASE Node.kind = "downsample"
    <3> DEFINE stride == node.stride
               modulo == node.modulo
    <3>1. stride \in Nat \ {0} /\ modulo \in 0 .. stride - 1 /\ n = m * stride
      BY <1>1, <2>2 DEF IsNode, node
    <3>2. Answered(st, x, y) = Sampled(x, stride, modulo)
      BY <2>2 DEF Answered, node
    <3> HIDE DEF n, m, stride, modulo
    <3>3. n \in Nat /\ modulo \in Nat /\ x \in [1 .. n -> Int] /\ stride \in Nat \ {0}
      BY <1>1, <1>2, <3>1
    <3>4. Sampled(x, stride, modulo) \in [1 .. Positive(CeilDiv(n - modulo, stride)) -> Int]
      BY <3>3, SampledFrames
    <3>5. Positive(CeilDiv(n - modulo, stride)) = m
      <4>1. (m - 1) * stride = n - stride
        BY <1>1, <3>1
      <4>2. n - modulo \in Int /\ (m - 1) * stride < n - modulo /\ n - modulo <= m * stride /\ m \in Int
        BY <1>1, <3>1, <4>1
      <4>3. CeilDiv(n - modulo, stride) = m
        BY <3>3, <4>2, CeilDivUnique
      <4> QED
        BY <1>1, <4>3 DEF Positive
    <3> QED
      BY <3>2, <3>4, <3>5
  <2>3. CASE Node.kind = "identity"
    <3>1. m = n
      BY <1>1, <2>3 DEF IsNode, node
    <3>2. Answered(st, x, y) = x
      BY <2>3 DEF Answered
    <3> QED
      BY <3>1, <3>2
  <2>4. CASE Node.kind = "deconv"
    <3> DEFINE stride == node.stride
               size == node.size
    <3>1. stride \in Nat \ {0} /\ size \in Nat \ {0} /\ m = (n * stride + size) - 1
      BY <1>1, <2>4 DEF IsNode, node
    <3>2. Answered(st, x, y) = Deconvolved(x, node, stride - 1)
      BY <2>4 DEF Answered, node
    <3> DEFINE more == stride - 1
    <3>3. n \in Nat /\ more \in Nat /\ x \in [1 .. n -> Int] /\ stride \in Nat \ {0} /\ size \in Nat \ {0}
      BY <1>1, <1>2, <3>1
    <3>4. (n - 1) * stride + size + more = m
      <4> HIDE DEF stride, size, n, m
      <4>1. (n - 1) * stride = n * stride - stride /\ n * stride \in Int
        BY <3>3
      <4> QED
        BY <3>1, <3>3, <4>1
    <3> HIDE DEF n, m, more
    <3>5. Deconvolved(x, node, more) \in [1 .. (n - 1) * stride + size + more -> Int]
      BY <3>3, DeconvolvedFrames
    <3> QED
      BY <3>2, <3>4, <3>5 DEF more
  <2>5. CASE Node.kind = "sum"
    <3>1. m = n
      BY <1>1, <2>5 DEF IsNode, node
    <3>2. Answered(st, x, y) = [i \in 1 .. n |-> x[i] + y[i]]
      BY <1>2, <2>5 DEF Answered
    <3> HIDE DEF n
    <3>3. y \in [1 .. n -> Int]
      BY DEF n
    <3>4. [i \in 1 .. n |-> x[i] + y[i]] \in [1 .. n -> Int]
      <4>1. \A i \in 1 .. n : x[i] \in Int
        BY <1>2
      <4>2. \A i \in 1 .. n : y[i] \in Int
        BY <3>3
      <4>3. \A i \in 1 .. n : x[i] + y[i] \in Int
        BY <4>1, <4>2
      <4> QED
        BY <4>3
    <3> QED
      BY <3>1, <3>2, <3>4
  <2> QED
    BY <2>1, <2>2, <2>3, <2>4, <2>5
<1> QED
  BY <1>3, <1>4 DEF Keeps

LEMMA DeconvDelayKeeps ==
    ASSUME AtWork, Node.kind = "deconvdelay", NEW x \in [1 .. In.pulse -> Int], NEW y,
           NEW st, NEW h, StateIsSound(Node, In, st, h)
    PROVE  Keeps(st, h, x, y)
<1> DEFINE n == In.pulse
           m == Out.pulse
           o == Node.overlap
           merged == Merged(st, x)
           dim == Node.inputDim
<1>1. /\ n \in Nat \ {0} /\ m \in Nat \ {0} /\ o \in Nat /\ n = m + o
      /\ dim \in [Lengths -> Int]
  BY AtWorkIs DEF IsNode, Dim
<1>2. n \in Nat /\ x \in [1 .. n -> Int] /\ Len(x) = n
  <2>1. n \in Nat /\ x \in [1 .. n -> Int]
    BY <1>1
  <2> QED
    BY <2>1, ListedIsASequence
<1>3. h \in Seq(Int) /\ st.valid \in Int /\ st.buffer \in [1 .. o -> Int]
  BY DEF StateIsSound
<1>4. merged \in [1 .. n -> Int]
  <2> DEFINE past == st.valid + (Len(x) - o) - Eval(dim, turn.s)
             kept == IF past > 0 THEN Len(x) - Min({past, Len(x)}) ELSE Len(x)
  <2>1. merged = [i \in 1 .. n |-> (IF i <= kept THEN x[i] ELSE Silence)
                                     + (IF i <= o THEN st.buffer[i] ELSE Silence)]
    BY <1>2 DEF Merged
  <2> HIDE DEF kept, n, o, merged
  <2>2. \A i \in 1 .. n : i <= o => st.buffer[i] \in Int
    <3>1. \A i \in 1 .. n : i <= o => i \in 1 .. o
      BY <1>1
    <3> QED
      BY <1>3, <3>1
  <2>3. ASSUME NEW i \in 1 .. n
        PROVE  (IF i <= kept THEN x[i] ELSE Silence) + (IF i <= o THEN st.buffer[i] ELSE Silence) \in Int
    <3>1. (IF i <= kept THEN x[i] ELSE Silence) \in Int
      <4>1. x[i] \in Int
        BY <1>2
      <4> QED
        BY <4>1 DEF Silence
    <3>2. (IF i <= o THEN st.buffer[i] ELSE Silence) \in Int
      BY <2>2 DEF Silence
    <3> QED
      BY <3>1, <3>2
  <2> QED
    BY <2>1, <2>3
<1>5. /\ Answered(st, x, y) = SubSeq(merged, 1, Len(x) - o)
      /\ Moved(st, x) = [valid |-> st.valid + (Len(x) - o),
                         buffer |-> SubSeq(merged, Len(x) - o + 1, Len(x))]
  BY DEF Answered, Moved
<1> HIDE DEF merged
<1>6. SubSeq(merged, 1, m) \in [1 .. m -> Int] /\ SubSeq(merged, m + 1, n) \in [1 .. o -> Int]
  <2> HIDE DEF n, m, o
  <2>1. 1 \in 1 .. n + 1 /\ m \in 1 - 1 .. n /\ m - 1 + 1 = m
    BY <1>1
  <2>2. SubSeq(merged, 1, m) \in [1 .. m - 1 + 1 -> Int]
    BY <1>2, <1>4, <2>1, PartOfFrames
  <2>3. m + 1 \in 1 .. n + 1 /\ n \in (m + 1) - 1 .. n /\ n - (m + 1) + 1 = o
    BY <1>1
  <2>4. SubSeq(merged, m + 1, n) \in [1 .. n - (m + 1) + 1 -> Int]
    BY <1>2, <1>4, <2>3, PartOfFrames
  <2> QED
    BY <2>1, <2>2, <2>3, <2>4
<1>7. Len(x) - o = m /\ Len(x) = n
  <2> HIDE DEF n, m, o
  <2> QED
    BY <1>1, <1>2
<1>8. Answered(st, x, y) \in [1 .. m -> Int]
  BY <1>5, <1>6, <1>7
<1>9. StateIsSound(Node, In, Moved(st, x), h)
  <2> DEFINE a == st.valid + (Len(x) - o)
             b == SubSeq(merged, m + 1, n)
             v == st.valid
  <2>1. a \in Int
    <3>1. a = v + m /\ v \in Int
      BY <1>3, <1>7
    <3> HIDE DEF a, v, m
    <3> QED
      BY <1>1, <3>1
  <2>2. Moved(st, x) = [valid |-> a, buffer |-> b] /\ b \in [1 .. o -> Int]
    BY <1>5, <1>6, <1>7
  <2> HIDE DEF a, b, m, n
  <2>3. Moved(st, x).valid = a /\ Moved(st, x).buffer = b
    BY <2>2
  <2> QED
    BY <1>3, <2>1, <2>2, <2>3 DEF StateIsSound
<1> QED
  BY <1>8, <1>9 DEF Keeps, HeardAfter

\* The first valid frame lies in the pulse that a Pad needs it for.
LEMMA EdgeInPulse ==
    ASSUME NEW n \in Nat \ {0}, NEW pos \in Nat, pos % n = 0, NEW begin \in Nat,
           NEW before \in Nat, before <= begin % n, pos < begin, ~(pos + n <= begin - before)
    PROVE  begin - pos < n
<1> DEFINE q == begin \div n
           r == begin % n
           k == pos \div n
           a == q * n
           b == k * n
<1>1. q \in Nat /\ r \in 0 .. n - 1 /\ begin = a + r
  OBVIOUS
<1>2. k \in Nat /\ pos = b
  BY Multiple
<1>3. before <= r
  OBVIOUS
<1> HIDE DEF q, r, k
<1>4. a \in Int /\ b \in Int
  BY <1>1, <1>2
<1>5. k < q => b + n <= a
  <2> HAVE k < q
  <2>1. k + 1 \in Int /\ k + 1 <= q
    BY <1>1, <1>2
  <2>2. (k + 1) * n <= q * n
    BY <1>1, <2>1, TimesGrows
  <2>3. (k + 1) * n = b + n
    BY <1>2
  <2> QED
    BY <2>2, <2>3
<1>6. q < k => a + n <= b
  <2> HAVE q < k
  <2>1. q + 1 \in Int /\ q + 1 <= k
    BY <1>1, <1>2
  <2>2. (q + 1) * n <= k * n
    BY <1>2, <2>1, TimesGrows
  <2>3. (q + 1) * n = a + n
    BY <1>1
  <2> QED
    BY <2>2, <2>3
<1>7. k = q => a = b
  OBVIOUS
<1> HIDE DEF a, b
<1> QED
  BY <1>1, <1>2, <1>3, <1>4, <1>5, <1>6, <1>7

\* The last valid frame that a Pad has seen.
LastSeen(st, x, end) ==
    IF Node.mode = "edge" /\ Node.after # 0 /\ st.pos < end
    THEN x[Min({end - st.pos, Len(x)})] ELSE st.last

LEMMA PadSavedIs ==
    ASSUME NEW st, st = [pos |-> st.pos, last |-> st.last], NEW x, NEW end
    PROVE  PadSaved(x, st, end) = [pos |-> st.pos, last |-> LastSeen(st, x, end)]
<1>1. CASE Node.mode = "edge" /\ Node.after # 0 /\ st.pos < end
  <2>1. PadSaved(x, st, end) = [st EXCEPT !.last = LastSeen(st, x, end)]
    BY <1>1 DEF PadSaved, LastSeen
  <2> QED
    BY <2>1
<1>2. CASE ~(Node.mode = "edge" /\ Node.after # 0 /\ st.pos < end)
  <2>1. PadSaved(x, st, end) = st
    BY <1>2 DEF PadSaved
  <2>2. LastSeen(st, x, end) = st.last
    BY <1>2 DEF LastSeen
  <2> QED
    BY <2>1, <2>2
<1> QED
  BY <1>1, <1>2

LEMMA LastSeenIs ==
    ASSUME NEW n \in Nat \ {0}, NEW x \in [1 .. n -> Int], NEW end \in Int,
           NEW st, st.pos \in Nat, st.last \in Int
    PROVE  /\ LastSeen(st, x, end) \in Int
           /\ LastSeen(st, x, end)
                = IF Node.mode = "edge" /\ Node.after # 0 /\ st.pos < end
                  THEN x[IF end - st.pos <= n THEN end - st.pos ELSE n] ELSE st.last
<1> DEFINE pos == st.pos
           k == IF end - pos <= n THEN end - pos ELSE n
<1>1. Len(x) = n
  BY ListedIsASequence
<1>2. pos \in Nat
  OBVIOUS
<1> HIDE DEF pos
<1>3. Min({end - pos, n}) = k
  <2>1. end - pos \in Int /\ n \in Int
    BY <1>2
  <2> DEFINE a == end - pos
  <2> HIDE DEF a
  <2>2. Min({a, n}) = IF a <= n THEN a ELSE n
    BY <2>1, LeastOfTwo DEF a
  <2> QED
    BY <2>2 DEF a
<1>4. pos < end => k \in 1 .. n
  BY <1>2
<1> HIDE DEF k
<1>5. pos < end => x[k] \in Int
  BY <1>4
<1> QED
  BY <1>1, <1>3, <1>5 DEF LastSeen, pos, k

\* What a Pad answers, frame by frame.
PadHead(pos, n) == IF pos < Node.begin THEN IF Node.begin - pos <= n THEN Node.begin - pos ELSE n ELSE 0
PadTail(pos, n, end) ==
    IF pos + n > end /\ Node.after > 0 THEN IF pos + n - end <= n THEN end - pos ELSE 0 ELSE n

PadAnswer(st, x, n) ==
    IF PadForwards(st.pos, n, End) THEN x
    ELSE [i \in 1 .. n |->
            IF i > PadTail(st.pos, n, End)
            THEN IF Node.mode = "edge" THEN LastSeen(st, x, End) ELSE Node.value
            ELSE IF i <= PadHead(st.pos, n)
            THEN IF Node.mode = "edge" THEN x[PadHead(st.pos, n) + 1] ELSE Node.value
            ELSE x[i]]

LEMMA PadIs ==
    ASSUME AtWork, Node.kind = "pad", NEW x \in [1 .. In.pulse -> Int], NEW y,
           NEW st, NEW h, StateIsSound(Node, In, st, h)
    PROVE  /\ Answered(st, x, y) = PadAnswer(st, x, In.pulse)
           /\ Moved(st, x) = [pos |-> st.pos + (In.pulse - Node.overlap), last |-> LastSeen(st, x, End)]
<1> DEFINE n == In.pulse
           pos == st.pos
           end == End
           saved == PadSaved(x, st, end)
           seen == LastSeen(st, x, end)
<1>1. n \in Nat \ {0} /\ Node.begin = In.delay /\ In.delay \in Nat /\ Node.end \in [Lengths -> Int]
  <2>1. n \in Nat \ {0} /\ In.delay \in Nat /\ IsNode(Node, PastIn, In, Out) /\ In.dim \in [Lengths -> Int]
    BY AtWorkIs
  <2>2. Node.begin = In.delay /\ Node.end = [s \in Lengths |-> In.dim[s] + In.delay]
    BY <2>1 DEF IsNode
  <2>3. \A s \in Lengths : In.dim[s] + In.delay \in Int
    BY <2>1
  <2> QED
    BY <2>1, <2>2, <2>3
<1>2. end \in Int
  <2>1. end = Eval(Node.end, turn.s) /\ turn.s \in Bound
    BY DEF AtWork
  <2> QED
    BY <1>1, <2>1, EvalIsInt
<1>3. st = [pos |-> pos, last |-> st.last] /\ pos \in Nat /\ st.last \in Int
  BY DEF StateIsSound
<1>4. x \in [1 .. n -> Int] /\ Len(x) = n
  <2>1. n \in Nat /\ x \in [1 .. n -> Int]
    BY <1>1
  <2> QED
    BY <2>1, ListedIsASequence
<1>5. saved = [pos |-> pos, last |-> seen]
  BY <1>3, PadSavedIs
<1> HIDE DEF saved, seen
<1>6. saved.pos = pos /\ saved.last = seen
  BY <1>5
<1>7. Moved(st, x) = [pos |-> pos + (n - Node.overlap), last |-> seen]
  <2>1. Moved(st, x) = [saved EXCEPT !.pos = saved.pos + Len(x) - Node.overlap]
    BY DEF Moved, saved
  <2> DEFINE a == saved.pos + Len(x) - Node.overlap
  <2>2. a = pos + (n - Node.overlap)
    BY <1>4, <1>6
  <2> HIDE DEF a
  <2>3. [saved EXCEPT !.pos = a] = [pos |-> a, last |-> seen]
    BY <1>5
  <2> QED
    BY <2>1, <2>2, <2>3 DEF a
<1> DEFINE head == IF pos < Node.begin THEN Min({Node.begin - pos, n}) ELSE 0
           tail == IF pos + n > end /\ Node.after > 0 THEN n - Min({pos + n - end, n}) ELSE n
<1>8. head = PadHead(pos, n)
  <2> DEFINE a == Node.begin - pos
  <2>1. a \in Int /\ n \in Int
    <3> DEFINE b == Node.begin
    <3>1. b \in Int
      BY <1>1
    <3> HIDE DEF b, pos, n
    <3> QED
      BY <1>1, <1>3, <3>1
  <2> HIDE DEF a, n
  <2>2. Min({a, n}) = IF a <= n THEN a ELSE n
    BY <2>1, LeastOfTwo
  <2> QED
    BY <2>2 DEF PadHead, a
<1>9. tail = PadTail(pos, n, end)
  <2> DEFINE a == pos + n - end
  <2>1. a \in Int /\ n \in Int /\ n - n = 0 /\ n - a = end - pos
    <3> HIDE DEF pos, n, end
    <3> QED
      BY <1>1, <1>2, <1>3
  <2> HIDE DEF a, n
  <2>2. Min({a, n}) = IF a <= n THEN a ELSE n
    BY <2>1, LeastOfTwo
  <2> QED
    BY <2>1, <2>2 DEF PadTail, a
<1> DEFINE edge(i) == IF Node.mode = "edge" THEN seen ELSE Node.value
           open(i) == IF Node.mode = "edge" THEN x[head + 1] ELSE Node.value
           frames == [i \in 1 .. n |-> IF i > tail THEN edge(i) ELSE IF i <= head THEN open(i) ELSE x[i]]
<1>10. tail \in Int /\ head \in Int
  <2>1. PadTail(pos, n, end) \in Int
    <3> DEFINE a == Node.after
    <3> HIDE DEF pos, n, end
    <3> QED
      BY <1>1, <1>2, <1>3 DEF PadTail
  <2>2. PadHead(pos, n) \in Int
    <3> DEFINE b == Node.begin
    <3>1. b \in Int
      BY <1>1
    <3> HIDE DEF pos, n, b
    <3> QED
      BY <1>1, <1>3, <3>1 DEF PadHead, b
  <2> QED
    BY <1>8, <1>9, <2>1, <2>2
<1>11. Answered(st, x, y) = IF PadForwards(pos, n, end) THEN x ELSE frames
  <2>1. Answered(st, x, y) = PadFrames(x, saved, end)
    BY DEF Answered, saved
  <2>2. PadFrames(x, saved, end)
          = IF PadForwards(pos, n, end) THEN x
            ELSE [i \in 1 .. n |-> CASE i > tail -> edge(i)
                                     [] i <= tail /\ i <= head -> open(i)
                                     [] OTHER -> x[i]]
    <3> DEFINE F(m, a, l) ==
                 LET late == IF a < Node.begin THEN Min({Node.begin - a, m}) ELSE 0
                     left == IF a + m > end /\ Node.after > 0 THEN m - Min({a + m - end, m}) ELSE m
                 IN  IF PadForwards(a, m, end) THEN x
                     ELSE [i \in 1 .. m |->
                             CASE i > left -> IF Node.mode = "edge" THEN l ELSE Node.value
                               [] i <= left /\ i <= late ->
                                     IF Node.mode = "edge" THEN x[late + 1] ELSE Node.value
                               [] OTHER -> x[i]]
    <3>1. PadFrames(x, saved, end) = F(Len(x), saved.pos, saved.last)
      BY Zenon DEF PadFrames
    <3>2. F(Len(x), saved.pos, saved.last) = F(n, pos, seen)
      <4> HIDE DEF F
      <4> QED
        BY <1>4, <1>6
    <3> QED
      BY <3>1, <3>2, Zenon
  <2> HIDE DEF tail, head, n
  <2>3. \A i \in 1 .. n : (CASE i > tail -> edge(i)
                             [] i <= tail /\ i <= head -> open(i)
                             [] OTHER -> x[i])
                 = IF i > tail THEN edge(i) ELSE IF i <= head THEN open(i) ELSE x[i]
    BY <1>1, <1>10
  <2> QED
    BY <2>1, <2>2, <2>3
<1> HIDE DEF head, tail
<1>12. PadAnswer(st, x, n) = IF PadForwards(pos, n, end) THEN x ELSE frames
  BY <1>8, <1>9 DEF PadAnswer, seen
<1> HIDE DEF frames
<1> QED
  BY <1>7, <1>11, <1>12 DEF seen

LEMMA EndIsInt ==
    ASSUME AtWork, Node.kind = "pad"
    PROVE  /\ End \in Int /\ Node.begin = In.delay /\ Node.end \in [Lengths -> Int]
           /\ Node.end = [s \in Lengths |-> In.dim[s] + In.delay]
           /\ End = Eval(Node.end, turn.s)
<1>1. In.delay \in Nat /\ IsNode(Node, PastIn, In, Out) /\ In.dim \in [Lengths -> Int]
  BY AtWorkIs
<1>2. Node.begin = In.delay /\ Node.end = [s \in Lengths |-> In.dim[s] + In.delay]
  BY <1>1 DEF IsNode
<1>3. \A s \in Lengths : In.dim[s] + In.delay \in Int
  BY <1>1
<1>4. Node.end \in [Lengths -> Int]
  BY <1>2, <1>3
<1>5. End = Eval(Node.end, turn.s) /\ turn.s \in Bound
  BY DEF AtWork
<1>6. End \in Int
  BY <1>4, <1>5, EvalIsInt
<1> QED
  BY <1>2, <1>4, <1>5, <1>6

\* An edge frame is one of the pulse.
LEMMA EdgeIsThere ==
    ASSUME AtWork, Node.kind = "pad", Node.mode = "edge",
           NEW st, NEW h, StateIsSound(Node, In, st, h), ~PadForwards(st.pos, In.pulse, End),
           PadHead(st.pos, In.pulse) # 0
    PROVE  /\ PadHead(st.pos, In.pulse) + 1 \in 1 .. In.pulse
           /\ st.pos < In.delay /\ PadHead(st.pos, In.pulse) = In.delay - st.pos
<1> DEFINE n == In.pulse
           pos == st.pos
           begin == In.delay
           before == Node.before
<1>1. n \in Nat \ {0} /\ begin \in Nat /\ IsNode(Node, PastIn, In, Out)
  BY AtWorkIs
<1>2. Node.begin = begin /\ before \in Nat /\ before <= begin % n
  BY <1>1 DEF IsNode
<1>3. pos \in Nat /\ pos % n = 0
  BY DEF StateIsSound
<1>4. ~(pos + n <= begin - before)
  BY <1>2 DEF PadForwards
<1>5. PadHead(pos, n) = IF pos < begin THEN IF begin - pos <= n THEN begin - pos ELSE n ELSE 0
  BY <1>2 DEF PadHead
<1> HIDE DEF n, pos, begin, before
<1>6. pos < begin
  BY <1>5 DEF pos, n
<1>7. begin - pos < n
  BY <1>1, <1>2, <1>3, <1>4, <1>6, EdgeInPulse
<1>8. PadHead(pos, n) = begin - pos /\ PadHead(pos, n) + 1 \in 1 .. n
  BY <1>1, <1>3, <1>5, <1>6, <1>7
<1> QED
  BY <1>6, <1>8 DEF n, pos, begin

LEMMA PadKeeps ==
    ASSUME AtWork, Node.kind = "pad", NEW x \in [1 .. In.pulse -> Int], NEW y,
           NEW st, NEW h, StateIsSound(Node, In, st, h)
    PROVE  Keeps(st, h, x, y)
<1> DEFINE n == In.pulse
           pos == st.pos
           seen == LastSeen(st, x, End)
           head == PadHead(pos, n)
           tail == PadTail(pos, n, End)
           o == Node.overlap
           value == Node.value
<1>1. n \in Nat \ {0} /\ Out.pulse = n /\ value \in Int /\ o \in Nat /\ o < n
      /\ (Node.mode = "edge" => o = 0)
  <2>1. n \in Nat \ {0} /\ IsNode(Node, PastIn, In, Out)
    BY AtWorkIs
  <2> QED
    BY <2>1 DEF IsNode
<1>2. End \in Int
  BY EndIsInt
<1>3. h \in Seq(Int) /\ pos \in Nat /\ st.last \in Int /\ (Node.mode = "edge" => pos % n = 0)
  BY DEF StateIsSound
<1>4. seen \in Int
  <2>1. n \in Nat \ {0} /\ x \in [1 .. n -> Int] /\ st.pos \in Nat /\ st.last \in Int
    BY <1>1, <1>3
  <2> QED
    BY <1>2, <2>1, LastSeenIs
<1>5. /\ Answered(st, x, y) = PadAnswer(st, x, n)
      /\ Moved(st, x) = [pos |-> pos + (n - o), last |-> seen]
  BY PadIs
<1>11. PadAnswer(st, x, n)
           = IF PadForwards(pos, n, End) THEN x
             ELSE [i \in 1 .. n |->
                     IF i > tail THEN IF Node.mode = "edge" THEN seen ELSE value
                     ELSE IF i <= head THEN IF Node.mode = "edge" THEN x[head + 1] ELSE value
                     ELSE x[i]]
  BY DEF PadAnswer
<1>6. ~PadForwards(pos, n, End) /\ Node.mode = "edge" /\ head # 0 => x[head + 1] \in Int
  <2>1. ~PadForwards(pos, n, End) /\ Node.mode = "edge" /\ head # 0 => head + 1 \in 1 .. n
    BY EdgeIsThere
  <2> QED
    BY <2>1
<1>7. head \in Nat
  <2>1. Node.begin = In.delay /\ In.delay \in Nat
    BY AtWorkIs, EndIsInt
  <2> DEFINE begin == In.delay
  <2>2. head = IF pos < begin THEN IF begin - pos <= n THEN begin - pos ELSE n ELSE 0
    BY <2>1 DEF PadHead
  <2> HIDE DEF head, pos, begin, n
  <2> QED
    BY <1>1, <1>3, <2>1, <2>2 DEF begin
<1> HIDE DEF head, tail, seen, value
<1>8. Answered(st, x, y) \in [1 .. n -> Int]
  <2>1. CASE PadForwards(pos, n, End)
    BY <1>5, <1>11, <2>1
  <2>2. CASE ~PadForwards(pos, n, End)
    <3>1. ASSUME NEW i \in 1 .. n
          PROVE  (IF i > tail THEN IF Node.mode = "edge" THEN seen ELSE value
                  ELSE IF i <= head THEN IF Node.mode = "edge" THEN x[head + 1] ELSE value
                  ELSE x[i]) \in Int
      <4>1. x[i] \in Int
        OBVIOUS
      <4>2. i <= head => head # 0
        BY <1>1, <1>7
      <4> QED
        BY <1>1, <1>4, <1>6, <2>2, <4>1, <4>2
    <3> HIDE DEF n
    <3> QED
      BY <1>5, <1>11, <2>2, <3>1
  <2> QED
    BY <2>1, <2>2
<1>9. pos + (n - o) \in Nat /\ (Node.mode = "edge" => (pos + (n - o)) % n = 0)
  <2> HIDE DEF pos, n, o
  <2>1. pos + (n - o) \in Nat
    BY <1>1, <1>3
  <2>2. Node.mode = "edge" => (pos + n) % n = 0 /\ pos + (n - o) = pos + n
    <3> HAVE Node.mode = "edge"
    <3>1. pos + (n - o) = pos + n /\ pos % n = 0 /\ pos \in Nat
      BY <1>1, <1>3
    <3>2. (pos + n) % n = pos % n
      BY <1>1, <3>1, ModShift
    <3> QED
      BY <3>1, <3>2
  <2> QED
    BY <2>1, <2>2
<1>10. StateIsSound(Node, In, Moved(st, x), h)
  <2> DEFINE a == pos + (n - o)
  <2>1. Moved(st, x) = [pos |-> a, last |-> seen] /\ a \in Nat /\ (Node.mode = "edge" => a % n = 0)
    BY <1>5, <1>9
  <2> HIDE DEF a
  <2>2. Moved(st, x).pos = a /\ Moved(st, x).last = seen
    BY <2>1
  <2> QED
    BY <1>3, <1>4, <2>1, <2>2 DEF StateIsSound
<1> QED
  BY <1>1, <1>8, <1>10 DEF Keeps, HeardAfter

\* Whatever the node.
LEMMA NodeKeeps ==
    ASSUME AtWork, NEW x \in [1 .. In.pulse -> Int], NEW y,
           Node.kind = "sum" => y \in [1 .. In.pulse -> Int],
           NEW st, NEW h, StateIsSound(Node, In, st, h)
    PROVE  Keeps(st, h, x, y)
<1>1. Node.kind \in {"delay", "pad", "concat", "cumsum", "scan", "mask", "deconvdelay", "conv",
                     "pool", "downsample", "identity", "deconv", "sum"}
  BY AtWorkIs DEF IsNode
<1>2. CASE Node.kind \in {"conv", "pool", "downsample", "identity", "deconv"}
  <2>1. Answered(st, x, y) = Answered(st, x, x)
    BY <1>2 DEF Answered
  <2>2. Keeps(st, h, x, x)
    BY <1>2, StatelessKeeps
  <2> QED
    BY <2>1, <2>2 DEF Keeps
<1>3. CASE Node.kind = "sum"
  BY <1>3, StatelessKeeps
<1> QED
  BY <1>1, <1>2, <1>3, DelayKeeps, PadKeeps, ConcatKeeps, CumSumKeeps, ScanKeeps, MaskKeeps,
     DeconvDelayKeeps

-----------------------------------------------------------------------------
(* A session: its tables, its streams, the turn that is on.                  *)

InFact(n) == FactOf(Plan, model.nodes[n].from[1])

TablesAreSound ==
    /\ states = [n \in Nodes |-> [l \in Lanes |-> states[n][l]]]
    /\ heard = [n \in Nodes |-> [l \in Lanes |-> heard[n][l]]]
    /\ limits = [n \in Nodes |-> limits[n]]

StatesAreSound ==
    \A n \in Nodes : \A l \in Lanes :
        StateIsSound(model.nodes[n], InFact(n), states[n][l], heard[n][l])

LimitsOf(node, s) == [deps |-> s, end |-> Eval(node.end, s)]
LimitsAreSound ==
    \A n \in Nodes : model.nodes[n].kind = "pad" =>
        \/ limits[n] = NoLimits
        \/ \E s \in Bound : limits[n] = LimitsOf(model.nodes[n], s)

\* A stream of some signal, cut to a length that the model takes.
StreamIsSound(st) ==
    /\ st = [signal |-> st.signal, len |-> st.len, read |-> st.read, answer |-> st.answer,
             broken |-> st.broken, expected |-> st.expected]
    /\ st.signal \in Nat /\ st.len \in model.lens /\ st.read \in Nat /\ st.answer \in Seq(Int)
    /\ st.expected = Reference(model.graph, Stream(st.signal, st.len))

StreamsAreSound ==
    streams = [l \in Lanes |-> streams[l]] /\ \A l \in Lanes : StreamIsSound(streams[l])

\* The wires that the turn has got to, each with a pulse of every seat.
TurnIsSound ==
    /\ turn = [seats |-> turn.seats, at |-> turn.at, values |-> turn.values, s |-> turn.s]
    /\ turn.seats \subseteq Lanes /\ turn.at \in 0 .. Len(model.nodes) + 1 /\ turn.s \in Bound
    /\ IsFrames(turn.values) /\ Len(turn.values) = turn.at
    /\ \A w \in 0 .. turn.at - 1 : \A l \in turn.seats :
          turn.values[w + 1][l] \in [1 .. FactOf(Plan, w).pulse -> Int]

SessionInv ==
    /\ IsPrepared /\ TablesAreSound /\ StatesAreSound /\ LimitsAreSound /\ StreamsAreSound
    /\ TurnIsSound

LEMMA SameModel ==
    ASSUME model' = model
    PROVE  /\ Plan' = Plan /\ Nodes' = Nodes /\ Lanes' = Lanes /\ IsPrepared' = IsPrepared
           /\ \A n : InFact(n)' = InFact(n)
           /\ \A st : StreamIsSound(st)' = StreamIsSound(st)
<1>1. Plan' = Plan /\ Nodes' = Nodes /\ Lanes' = Lanes
  BY DEF Plan, Nodes, Lanes
<1>2. IsPrepared' = IsPrepared
  BY DEF IsPrepared
<1>3. \A n : InFact(n)' = InFact(n)
  BY <1>1 DEF InFact
<1>4. \A st : StreamIsSound(st)' = StreamIsSound(st)
  BY DEF StreamIsSound
<1> QED
  BY <1>1, <1>2, <1>3, <1>4

\* A lane that no stream has used.
LEMMA InitialStateIsSound ==
    ASSUME IsPrepared, NEW n \in Nodes
    PROVE  StateIsSound(model.nodes[n], InFact(n), InitialState(model.nodes[n]), <<>>)
<1> DEFINE node == model.nodes[n]
           in == InFact(n)
           st == InitialState(node)
           past == Past(Plan, node.from[1])
           out == FactOf(Plan, n)
<1>1. in \in Fact /\ IsNode(node, past, in, out)
  BY NodeIs DEF InFact
<1>2. in.pulse \in Nat \ {0}
  <2> HIDE DEF in
  <2> QED
    BY <1>1, FactsAre
<1> HIDE DEF node, in, past, out
<1>3. CASE node.kind = "delay"
  <2>1. st = EmptyRing(Buffered(node.delay, node.overlap), Silence)
    BY <1>3 DEF InitialState
  <2>2. node.delay \in Nat /\ node.overlap \in Nat
    BY <1>1, <1>3 DEF IsNode
  <2> DEFINE b == Buffered(node.delay, node.overlap)
  <2>3. b \in Nat
    <3> DEFINE d == node.delay
               o == node.overlap
    <3> HIDE DEF d, o
    <3> QED
      BY <2>2 DEF Buffered, d, o
  <2> HIDE DEF b, st
  <2>4. RingHolds(b, st, <<>>, Silence)
    BY <2>1, <2>3, EmptyRingHolds DEF b
  <2> QED
    BY <1>3, <2>4 DEF StateIsSound, b, st, node, in
<1>4. CASE node.kind = "pad"
  <2>1. st = [pos |-> 0, last |-> Silence]
    BY <1>4 DEF InitialState
  <2>2. 0 % in.pulse = 0
    <3> DEFINE n0 == in.pulse
    <3> HIDE DEF n0
    <3>1. n0 \in Nat \ {0}
      BY <1>2 DEF n0
    <3> QED
      BY <3>1 DEF n0
  <2> HIDE DEF st
  <2> QED
    BY <1>4, <2>1, <2>2 DEF StateIsSound, Silence, st, node, in
<1>5. CASE node.kind = "deconvdelay"
  <2>1. st = [valid |-> -node.delay, buffer |-> Constantly(node.overlap, Silence)]
    BY <1>5 DEF InitialState
  <2>2. node.delay \in Nat /\ node.overlap \in Nat
    BY <1>1, <1>5 DEF IsNode
  <2>3. -node.delay \in Int
    <3> DEFINE d == node.delay
    <3> HIDE DEF d
    <3>1. d \in Nat
      BY <2>2 DEF d
    <3>2. -d \in Int
      BY <3>1
    <3> QED
      BY <3>2 DEF d
  <2>4. Constantly(node.overlap, Silence) \in [1 .. node.overlap -> Int]
    BY DEF Constantly, Silence
  <2>5. st.valid \in Int /\ st.buffer \in [1 .. node.overlap -> Int]
    BY <2>1, <2>3, <2>4
  <2> HIDE DEF st
  <2> QED
    BY <1>5, <2>5 DEF StateIsSound, st, node, in
<1>6. CASE node.kind \in {"concat", "mask"}
  <2>1. st = [pos |-> 0]
    BY <1>6 DEF InitialState
  <2> HIDE DEF st
  <2> QED
    BY <1>6, <2>1 DEF StateIsSound, st, node, in
<1>7. CASE node.kind = "cumsum"
  <2>1. st = [pos |-> 0, sum |-> Silence]
    BY <1>7 DEF InitialState
  <2> HIDE DEF st
  <2> QED
    BY <1>7, <2>1 DEF StateIsSound, Silence, st, node, in
<1>8. CASE node.kind = "scan"
  <2>1. st = [pos |-> 0, hidden |-> <<>>]
    BY <1>8 DEF InitialState
  <2> HIDE DEF st
  <2> QED
    BY <1>8, <2>1 DEF StateIsSound, st, node, in
<1>9. CASE node.kind \notin {"delay", "pad", "deconvdelay", "concat", "mask", "cumsum", "scan"}
  BY <1>9 DEF StateIsSound, node, in
<1> QED
  BY <1>3, <1>4, <1>5, <1>6, <1>7, <1>8, <1>9

LEMMA StartIsTyped ==
    ASSUME IsPrepared, NEW signal \in Nat, NEW len \in model.lens
    PROVE  StreamIsSound(StartOf(model, signal, len))
  BY DEF StreamIsSound, StartOf

LEMMA InitIsSession == Init => SessionInv
<1> SUFFICES ASSUME Init PROVE SessionInv
  OBVIOUS
<1>1. IsPrepared /\ Lane \subseteq Nat /\ Lanes \subseteq Lane
  BY ModelIs, PulseSessionAssumption DEF Init, IsPrepared, Lanes
<1>2. /\ states = [n \in Nodes |-> [l \in Lanes |-> InitialState(model.nodes[n])]]
      /\ heard = [n \in Nodes |-> [l \in Lanes |-> <<>>]] /\ limits = [n \in Nodes |-> NoLimits]
      /\ turn = NoTurn
  BY DEF Init
<1>3. TablesAreSound
  BY <1>2 DEF TablesAreSound
<1>4. StatesAreSound
  BY <1>1, <1>2, InitialStateIsSound DEF StatesAreSound
<1>5. LimitsAreSound
  BY <1>2 DEF LimitsAreSound
<1>6. StreamsAreSound
  <2>1. PICK lens \in [Lanes -> model.lens] :
           streams = [l \in Lanes |-> StartOf(model, l + 1, lens[l])]
    BY DEF Init
  <2>2. \A l \in Lanes : l + 1 \in Nat /\ lens[l] \in model.lens
    BY <1>1
  <2>3. \A l \in Lanes : StreamIsSound(StartOf(model, l + 1, lens[l]))
    BY <1>1, <2>2, StartIsTyped
  <2> QED
    BY <2>1, <2>3 DEF StreamsAreSound
<1>7. TurnIsSound
  <2>1. turn = [seats |-> {}, at |-> 0, values |-> <<>>, s |-> Unbound]
    BY <1>2 DEF NoTurn
  <2>2. Len(model.nodes) \in Nat
    BY <1>1, ModelIs
  <2> QED
    BY <2>1, <2>2, NoFrames DEF TurnIsSound, Bound
<1> QED
  BY <1>1, <1>3, <1>4, <1>5, <1>6, <1>7 DEF SessionInv

LEMMA SessionIs ==
    ASSUME SessionInv
    PROVE  /\ IsPrepared /\ model.pulse \in Nat \ {0} /\ Len(model.nodes) \in Nat
           /\ Nodes = 1 .. Len(model.nodes) /\ Lanes \subseteq Nat
           /\ model.lens \subseteq 1 .. MaxLen /\ MaxLen \in Nat
           /\ FactOf(Plan, 0).pulse = model.pulse /\ FactOf(Plan, 0).delay = 0
           /\ turn.seats \subseteq Lanes
<1>1. IsPrepared /\ turn.seats \subseteq Lanes
  BY DEF SessionInv, TurnIsSound
<1>2. /\ model.pulse \in Nat \ {0} /\ Len(model.nodes) \in Nat /\ Nodes = 1 .. Len(model.nodes)
      /\ model.lens \subseteq 1 .. MaxLen /\ model.lanes \subseteq Lane
      /\ Sound(Plan, Len(model.graph), model.pulse)
  BY <1>1, ModelIs
<1>3. FactOf(Plan, 0).pulse = model.pulse /\ FactOf(Plan, 0).delay = 0
  BY <1>2 DEF Sound
<1> QED
  BY <1>1, <1>2, <1>3, MaxLenAssumption, PulseSessionAssumption DEF Lanes

\* The next pulse of a stream.
LEMMA NextPulseIsTyped ==
    ASSUME SessionInv, NEW l \in Lanes
    PROVE  NextPulse(l) \in [1 .. model.pulse -> Int]
<1> DEFINE read == streams[l].read
           len == streams[l].len
           signal == streams[l].signal
           n == model.pulse
<1>1. signal \in Nat /\ read \in Nat /\ n \in Nat \ {0}
  BY SessionIs DEF SessionInv, StreamsAreSound, StreamIsSound
<1>2. NextPulse(l) = [i \in 1 .. n |-> IF read + i <= len THEN SignalFrame(signal, read + i) ELSE Junk]
  BY DEF NextPulse
<1> HIDE DEF read, len, signal, n
<1>3. ASSUME NEW i \in 1 .. n PROVE SignalFrame(signal, read + i) \in Int
  <2>1. signal \in Int /\ read + i \in Nat \ {0}
    BY <1>1
  <2> QED
    BY <2>1, SignalFrameIsInt
<1>4. NextPulse(l) \in [1 .. n -> Int]
  BY <1>2, <1>3 DEF Junk
<1> QED
  BY <1>4 DEF n

\* What a turn may bind.
LEMMA BindableIs ==
    ASSUME SessionInv, NEW seats \in SUBSET Lanes, seats # {}, Cardinality(Bindable(seats)) = 1,
           NEW s, s = CHOOSE t \in Bindable(seats) : TRUE
    PROVE  /\ s \in Bound
           /\ s = Unbound => \A l \in seats : ~HasEnded(l)
           /\ s # Unbound => \A l \in seats : HasEnded(l) /\ streams[l].len = s
<1>1. Bindable(seats) # {}
  BY FS_EmptySet
<1>2. s \in Bindable(seats)
  BY <1>1
<1>3. \A l \in seats : streams[l].len \in 1 .. MaxLen
  BY SessionIs DEF SessionInv, StreamsAreSound, StreamIsSound
<1>4. \A l \in seats : streams[l].len \in Lengths /\ streams[l].len # Unbound
  BY <1>3, MaxLenAssumption DEF Lengths, Unbound
<1>5. CASE \A l \in seats : ~HasEnded(l)
  <2>1. Bindable(seats) = {Unbound}
    BY <1>5 DEF Bindable
  <2> QED
    BY <1>2, <1>5, <2>1 DEF Bound
<1>6. CASE ~\A l \in seats : ~HasEnded(l)
  <2>1. (\A l \in seats : HasEnded(l)) /\ Bindable(seats) = {streams[l].len : l \in seats}
    BY <1>1, <1>6 DEF Bindable
  <2>2. s \in Bound /\ s # Unbound
    BY <1>2, <1>4, <2>1 DEF Bound
  <2>3. ASSUME NEW l \in seats PROVE streams[l].len = s
    <3>1. IsFiniteSet(Bindable(seats))
      <4>1. IsFiniteSet(seats)
        <5>1. Lanes \subseteq Lane /\ IsFiniteSet(Lane)
          BY SessionIs, ModelIs, PulseSessionAssumption DEF Lanes
        <5> QED
          BY <5>1, FS_Subset
      <4> DEFINE f == [k \in seats |-> streams[k].len]
                 T == Bindable(seats)
      <4>2. T = {f[k] : k \in seats}
        BY <2>1
      <4> HIDE DEF T
      <4>3. f \in Surjection(seats, T)
        BY <4>2 DEF Surjection
      <4> HIDE DEF f
      <4> QED
        BY <4>1, <4>3, FS_Surjection DEF T
    <3>2. PICK x : Bindable(seats) = {x}
      BY <3>1, FS_Singleton
    <3> QED
      BY <1>2, <2>1, <3>2
  <2> QED
    BY <2>1, <2>2, <2>3
<1> QED
  BY <1>5, <1>6

LEMMA StartTurnKeeps ==
    ASSUME SessionInv, NEW seats \in SUBSET Lanes, StartTurn(seats)
    PROVE  SessionInv'
<1> DEFINE s == CHOOSE t \in Bindable(seats) : TRUE
           first == [l \in seats |-> NextPulse(l)]
<1>1. /\ turn' = [seats |-> seats, at |-> 1, values |-> <<first>>, s |-> s]
      /\ model' = model /\ states' = states /\ limits' = limits /\ streams' = streams
      /\ heard' = heard /\ seats # {} /\ Cardinality(Bindable(seats)) = 1
  BY DEF StartTurn
<1>2. s \in Bound
  <2> HIDE DEF s
  <2> QED
    BY <1>1, BindableIs DEF s
<1>3. /\ Plan' = Plan /\ Nodes' = Nodes /\ Lanes' = Lanes /\ IsPrepared' = IsPrepared
      /\ (\A n : InFact(n)' = InFact(n)) /\ (\A st : StreamIsSound(st)' = StreamIsSound(st))
  BY <1>1, SameModel
<1>4. IsPrepared' /\ TablesAreSound' /\ StatesAreSound' /\ LimitsAreSound' /\ StreamsAreSound'
  BY <1>1, <1>3 DEF SessionInv, TablesAreSound, StatesAreSound, LimitsAreSound, StreamsAreSound
<1>5. TurnIsSound'
  <2>1. \A l \in seats : first[l] \in [1 .. FactOf(Plan, 0).pulse -> Int]
    BY NextPulseIsTyped, SessionIs
  <2> HIDE DEF first, s
  <2>2. /\ turn'.seats = seats /\ turn'.at = 1 /\ turn'.values = <<first>> /\ turn'.s = s
        /\ turn' = [seats |-> turn'.seats, at |-> turn'.at, values |-> turn'.values, s |-> turn'.s]
    BY <1>1
  <2>3. IsFrames(<<first>>) /\ Len(<<first>>) = 1 /\ <<first>>[1] = first
    <3>1. <<first>> \in Seq({first}) /\ Len(<<first>>) = 1 /\ <<first>>[1] = first
      OBVIOUS
    <3> QED
      BY <3>1, SequencesAreFrames
  <2>4. 1 \in 0 .. Len(model'.nodes) + 1
    BY <1>1, SessionIs
  <2>5. \A w \in 0 .. 1 - 1 : \A l \in seats : <<first>>[w + 1][l] \in [1 .. FactOf(Plan, w).pulse -> Int]
    <3> TAKE w \in 0 .. 1 - 1
    <3> TAKE l \in seats
    <3>1. w = 0 /\ w + 1 = 1
      OBVIOUS
    <3> QED
      BY <2>1, <2>3, <3>1
  <2> QED
    BY <1>2, <1>3, <2>2, <2>3, <2>4, <2>5 DEF TurnIsSound
<1> QED
  BY <1>4, <1>5 DEF SessionInv

LEMMA NoTurnIsTyped ==
    ASSUME SessionInv, model' = model, turn' = NoTurn
    PROVE  TurnIsSound'
<1>1. /\ turn' = [seats |-> {}, at |-> 0, values |-> <<>>, s |-> Unbound]
  BY DEF NoTurn
<1>2. /\ turn'.seats = {} /\ turn'.at = 0 /\ turn'.values = <<>> /\ turn'.s = Unbound
      /\ turn' = [seats |-> turn'.seats, at |-> turn'.at, values |-> turn'.values, s |-> turn'.s]
  BY <1>1
<1>3. Len(model'.nodes) \in Nat /\ 0 \in 0 .. Len(model'.nodes) + 1
  BY SessionIs
<1> QED
  BY <1>2, <1>3, NoFrames DEF TurnIsSound, Bound

\* The node at hand, in a session.
LEMMA NodeAtWork ==
    ASSUME SessionInv, turn.at \in Nodes
    PROVE  /\ AtWork /\ In = InFact(turn.at)
           /\ Node.kind = "pad" => ResolvedLimits(limits[turn.at]) = LimitsOf(Node, turn.s)
<1>1. IsPrepared /\ turn.s \in Bound /\ LimitsAreSound
  BY DEF SessionInv, TurnIsSound
<1>2. ASSUME Node.kind = "pad" PROVE ResolvedLimits(limits[turn.at]) = LimitsOf(Node, turn.s)
  <2> DEFINE known == limits[turn.at]
  <2>1. known = NoLimits \/ \E s \in Bound : known = LimitsOf(Node, s)
    BY <1>1, <1>2 DEF LimitsAreSound, Node
  <2> HIDE DEF known
  <2>2. CASE known # NoLimits /\ known.deps = turn.s
    <3>1. PICK s \in Bound : known = LimitsOf(Node, s)
      BY <2>1, <2>2
    <3>2. known.deps = s
      BY <3>1 DEF LimitsOf
    <3>3. ResolvedLimits(known) = known
      BY <2>2 DEF ResolvedLimits
    <3> QED
      BY <2>2, <3>1, <3>2, <3>3 DEF known
  <2>3. CASE ~(known # NoLimits /\ known.deps = turn.s)
    <3>1. ResolvedLimits(known) = [deps |-> turn.s, end |-> Eval(Node.end, turn.s)]
      BY <2>3 DEF ResolvedLimits
    <3> QED
      BY <3>1 DEF known, LimitsOf
  <2> QED
    BY <2>2, <2>3
<1>3. Node.kind = "pad" => End = Eval(Node.end, turn.s)
  BY <1>2 DEF End, LimitsOf
<1> QED
  BY <1>1, <1>2, <1>3 DEF AtWork, In, InFact, Node

LEMMA InputIs ==
    ASSUME SessionInv, turn.at \in Nodes, NEW l \in turn.seats
    PROVE  /\ Input(1, l) \in [1 .. In.pulse -> Int]
           /\ Node.kind = "sum" => Input(2, l) \in [1 .. In.pulse -> Int]
<1>1. /\ Node.from[1] \in 0 .. turn.at - 1
      /\ Node.kind = "sum" => /\ Node.from[2] \in 0 .. turn.at - 1
                              /\ FactOf(Plan, Node.from[2]).pulse = In.pulse
  BY NodeAtWork, AtWorkIs
<1>2. \A w \in 0 .. turn.at - 1 : \A k \in turn.seats :
         turn.values[w + 1][k] \in [1 .. FactOf(Plan, w).pulse -> Int]
  BY DEF SessionInv, TurnIsSound
<1>3. turn.values[Node.from[1] + 1][l] \in [1 .. FactOf(Plan, Node.from[1]).pulse -> Int]
  BY <1>1, <1>2
<1>4. Node.kind = "sum" =>
         turn.values[Node.from[2] + 1][l] \in [1 .. FactOf(Plan, Node.from[2]).pulse -> Int]
  BY <1>1, <1>2
<1> QED
  BY <1>1, <1>3, <1>4 DEF Input, In

HeardMoves == [l \in Lanes |-> IF l \in turn.seats THEN HeardAfter(heard[turn.at][l], Input(1, l))
                               ELSE heard[turn.at][l]]

LEMMA EvalKeeps ==
    ASSUME SessionInv, EvalNode
    PROVE  SessionInv' /\ Evaluates
<1>1. Evaluates
  <2>1. DOMAIN limits = Nodes
    BY DEF SessionInv, TablesAreSound
  <2> QED
    BY <2>1, NodesEvaluate
<1>2. /\ turn.at \in Nodes /\ model' = model /\ streams' = streams
      /\ turn' = [turn EXCEPT !.at = turn.at + 1, !.values = Append(turn.values, Output)]
      /\ states' = [states EXCEPT ![turn.at] = Moves]
      /\ limits' = IF Node.kind = "pad"
                   THEN [limits EXCEPT ![turn.at] = ResolvedLimits(limits[turn.at])] ELSE limits
      /\ heard' = [heard EXCEPT ![turn.at] = HeardMoves]
  <2>1. TablesAreSound
    BY DEF SessionInv
  <2>2. heard' = [heard EXCEPT ![turn.at] = HeardMoves]
    <3>1. CASE Node.kind = "delay"
      BY <1>1, <3>1 DEF Evaluates, HeardMoves, HeardAfter
    <3>2. CASE Node.kind # "delay"
      <4>1. heard' = heard
        BY <1>1, <3>2 DEF Evaluates
      <4>2. HeardMoves = [l \in Lanes |-> heard[turn.at][l]]
        BY <3>2 DEF HeardMoves, HeardAfter
      <4>3. HeardMoves = heard[turn.at]
        BY <1>1, <2>1, <4>2 DEF TablesAreSound, Evaluates
      <4>4. [heard EXCEPT ![turn.at] = heard[turn.at]] = heard
        BY <2>1 DEF TablesAreSound
      <4> QED
        BY <4>1, <4>3, <4>4
    <3> QED
      BY <3>1, <3>2
  <2> QED
    BY <1>1, <2>2 DEF Evaluates
<1>3. /\ Plan' = Plan /\ Nodes' = Nodes /\ Lanes' = Lanes /\ IsPrepared' = IsPrepared
      /\ (\A n : InFact(n)' = InFact(n)) /\ (\A st : StreamIsSound(st)' = StreamIsSound(st))
  BY <1>2, SameModel
<1>4. IsPrepared' /\ StreamsAreSound'
  BY <1>2, <1>3 DEF SessionInv, StreamsAreSound
<1>5. TablesAreSound'
  <2>1. TablesAreSound
    BY DEF SessionInv
  <2>2. /\ states' = [n \in Nodes |-> [l \in Lanes |-> states'[n][l]]]
    BY <1>2, <2>1 DEF TablesAreSound, Moves
  <2>3. /\ heard' = [n \in Nodes |-> [l \in Lanes |-> heard'[n][l]]]
    BY <1>2, <2>1 DEF TablesAreSound, HeardMoves
  <2>4. limits' = [n \in Nodes |-> limits'[n]]
    BY <1>2, <2>1 DEF TablesAreSound
  <2> QED
    BY <1>3, <2>2, <2>3, <2>4 DEF TablesAreSound
<1>6. \A l \in turn.seats :
         Keeps(states[turn.at][l], heard[turn.at][l], Input(1, l), Input(2, l))
  <2> TAKE l \in turn.seats
  <2>1. AtWork /\ In = InFact(turn.at) /\ l \in Lanes
    BY <1>2, NodeAtWork, SessionIs
  <2>2. StateIsSound(Node, In, states[turn.at][l], heard[turn.at][l])
    BY <1>2, <2>1 DEF SessionInv, StatesAreSound, Node
  <2>3. Input(1, l) \in [1 .. In.pulse -> Int] /\ (Node.kind = "sum" => Input(2, l) \in [1 .. In.pulse -> Int])
    BY <1>2, InputIs
  <2> QED
    BY <2>1, <2>2, <2>3, NodeKeeps
<1>7. StatesAreSound'
  <2>1. TablesAreSound /\ StatesAreSound
    BY DEF SessionInv
  <2> SUFFICES ASSUME NEW n \in Nodes, NEW l \in Lanes
               PROVE  StateIsSound(model.nodes[n], InFact(n), states'[n][l], heard'[n][l])
    BY <1>2, <1>3 DEF StatesAreSound
  <2>2. CASE n # turn.at
    <3>1. states'[n] = states[n] /\ heard'[n] = heard[n]
      BY <1>2, <2>1, <2>2 DEF TablesAreSound
    <3> QED
      BY <2>1, <3>1 DEF StatesAreSound
  <2>3. CASE n = turn.at
    <3>1. states'[n] = Moves /\ heard'[n] = HeardMoves
      BY <1>2, <2>1, <2>3 DEF TablesAreSound
    <3>2. CASE l \in turn.seats
      <4>1. states'[n][l] = Moved(states[n][l], Input(1, l))
        BY <2>3, <3>1, <3>2 DEF Moves, State
      <4>2. heard'[n][l] = HeardAfter(heard[n][l], Input(1, l))
        BY <2>3, <3>1, <3>2 DEF HeardMoves
      <4>3. Node = model.nodes[n] /\ In = InFact(n)
        BY <2>3, NodeAtWork DEF Node
      <4> QED
        BY <1>6, <2>3, <3>2, <4>1, <4>2, <4>3 DEF Keeps
    <3>3. CASE l \notin turn.seats
      <4>1. states'[n][l] = states[n][l] /\ heard'[n][l] = heard[n][l]
        BY <2>3, <3>1, <3>3 DEF Moves, HeardMoves, State
      <4> QED
        BY <2>1, <4>1 DEF StatesAreSound
    <3> QED
      BY <3>2, <3>3
  <2> QED
    BY <2>2, <2>3
<1>8. LimitsAreSound'
  <2>1. TablesAreSound /\ LimitsAreSound /\ turn.s \in Bound
    BY DEF SessionInv, TurnIsSound
  <2> SUFFICES ASSUME NEW n \in Nodes, model.nodes[n].kind = "pad"
               PROVE  limits'[n] = NoLimits \/ \E s \in Bound : limits'[n] = LimitsOf(model.nodes[n], s)
    BY <1>2, <1>3 DEF LimitsAreSound
  <2>2. CASE n # turn.at
    <3>1. limits'[n] = limits[n]
      BY <1>2, <2>1, <2>2 DEF TablesAreSound
    <3> QED
      BY <2>1, <3>1 DEF LimitsAreSound
  <2>3. CASE n = turn.at
    <3>1. Node = model.nodes[n] /\ Node.kind = "pad"
      BY <2>3 DEF Node
    <3>2. limits'[n] = ResolvedLimits(limits[turn.at])
      BY <1>2, <2>1, <2>3, <3>1 DEF TablesAreSound
    <3>3. limits'[n] = LimitsOf(model.nodes[n], turn.s)
      BY <1>2, <3>1, <3>2, NodeAtWork
    <3> QED
      BY <2>1, <3>3
  <2> QED
    BY <2>2, <2>3
<1>9. TurnIsSound'
  <2>1. TurnIsSound
    BY DEF SessionInv
  <2> DEFINE seats == turn.seats
             at == turn.at
             values == turn.values
             s == turn.s
  <2>2. /\ turn = [seats |-> seats, at |-> at, values |-> values, s |-> s]
        /\ seats \subseteq Lanes /\ at \in 0 .. Len(model.nodes) + 1 /\ s \in Bound
        /\ IsFrames(values) /\ Len(values) = at
        /\ \A w \in 0 .. at - 1 : \A l \in seats : values[w + 1][l] \in [1 .. FactOf(Plan, w).pulse -> Int]
    BY <2>1 DEF TurnIsSound
  <2>3. at \in 1 .. Len(model.nodes) /\ Len(model.nodes) \in Nat
    BY <1>2, SessionIs
  <2>4. \A l \in seats : Output[l] \in [1 .. FactOf(Plan, at).pulse -> Int]
    BY <1>6 DEF Keeps, Output, Out, State
  <2> HIDE DEF seats, at, values, s
  <2> DEFINE more == Append(values, Output)
  <2>5. turn' = [seats |-> seats, at |-> at + 1, values |-> more, s |-> s]
    <3>1. turn' = [turn EXCEPT !.at = at + 1, !.values = more]
      BY <1>2 DEF at, values
    <3> QED
      BY <2>2, <3>1
  <2>6. IsFrames(more) /\ Len(more) = at + 1 /\ (\A k \in 1 .. at : more[k] = values[k])
        /\ more[at + 1] = Output
    BY <2>2, AppendedAreFrames
  <2> HIDE DEF more
  <2>7. /\ turn'.seats = seats /\ turn'.at = at + 1 /\ turn'.values = more /\ turn'.s = s
        /\ turn' = [seats |-> turn'.seats, at |-> turn'.at, values |-> turn'.values, s |-> turn'.s]
    BY <2>5
  <2>8. at + 1 \in 0 .. Len(model'.nodes) + 1
    BY <1>2, <2>3
  <2>9. ASSUME NEW w \in 0 .. (at + 1) - 1, NEW l \in seats
        PROVE  more[w + 1][l] \in [1 .. FactOf(Plan, w).pulse -> Int]
    <3>1. CASE w = at
      BY <2>4, <2>6, <3>1
    <3>2. CASE w # at
      <4>1. w \in 0 .. at - 1 /\ w + 1 \in 1 .. at
        BY <2>3, <3>2
      <4> QED
        BY <2>2, <2>6, <4>1
    <3> QED
      BY <3>1, <3>2
  <2> QED
    BY <1>3, <2>2, <2>6, <2>7, <2>8, <2>9 DEF TurnIsSound
<1> QED
  BY <1>1, <1>4, <1>5, <1>7, <1>8, <1>9 DEF SessionInv

\* A stream, with another answer.
LEMMA AnsweredStream ==
    ASSUME NEW st, StreamIsSound(st), NEW read, NEW answer
    PROVE  [st EXCEPT !.read = read, !.answer = answer]
             = [signal |-> st.signal, len |-> st.len, read |-> read, answer |-> answer,
                broken |-> st.broken, expected |-> st.expected]
<1> DEFINE signal == st.signal
           len == st.len
           r == st.read
           a == st.answer
           broken == st.broken
           expected == st.expected
<1>1. st = [signal |-> signal, len |-> len, read |-> r, answer |-> a, broken |-> broken,
            expected |-> expected]
  BY DEF StreamIsSound
<1> HIDE DEF signal, len, r, a, broken, expected
<1> DEFINE one == [st EXCEPT !.read = read]
<1>2. [st EXCEPT !.read = read, !.answer = answer] = [one EXCEPT !.answer = answer]
  OBVIOUS
<1>3. one = [signal |-> signal, len |-> len, read |-> read, answer |-> a, broken |-> broken,
             expected |-> expected]
  BY <1>1
<1> HIDE DEF one
<1>4. [one EXCEPT !.answer = answer]
        = [signal |-> signal, len |-> len, read |-> read, answer |-> answer, broken |-> broken,
           expected |-> expected]
  BY <1>3
<1>5. [st EXCEPT !.read = read, !.answer = answer]
        = [signal |-> signal, len |-> len, read |-> read, answer |-> answer, broken |-> broken,
           expected |-> expected]
  BY <1>2, <1>4, Zenon
<1> QED
  BY <1>5 DEF signal, len, broken, expected

LEMMA BrokenStream ==
    ASSUME NEW st, StreamIsSound(st), NEW b
    PROVE  [st EXCEPT !.broken = b]
             = [signal |-> st.signal, len |-> st.len, read |-> st.read, answer |-> st.answer,
                broken |-> b, expected |-> st.expected]
<1> DEFINE signal == st.signal
           len == st.len
           r == st.read
           a == st.answer
           broken == st.broken
           expected == st.expected
<1>1. st = [signal |-> signal, len |-> len, read |-> r, answer |-> a, broken |-> broken,
            expected |-> expected]
  BY DEF StreamIsSound
<1> HIDE DEF signal, len, r, a, broken, expected
<1>2. [st EXCEPT !.broken = b]
        = [signal |-> signal, len |-> len, read |-> r, answer |-> a, broken |-> b,
           expected |-> expected]
  BY <1>1
<1> QED
  BY <1>2 DEF signal, len, r, a, expected

\* Of a stream as the record that it is.
LEMMA StreamOf ==
    ASSUME NEW signal \in Nat, NEW len \in model.lens, NEW read \in Nat, NEW answer \in Seq(Int),
           NEW broken, NEW st,
           st = [signal |-> signal, len |-> len, read |-> read, answer |-> answer,
                 broken |-> broken, expected |-> Reference(model.graph, Stream(signal, len))]
    PROVE  StreamIsSound(st)
<1> DEFINE expected == Reference(model.graph, Stream(signal, len))
<1> HIDE DEF expected
<1>1. /\ st.signal = signal /\ st.len = len /\ st.read = read /\ st.answer = answer
      /\ st.expected = expected
  BY DEF expected
<1>2. st = [signal |-> st.signal, len |-> st.len, read |-> st.read, answer |-> st.answer,
            broken |-> st.broken, expected |-> st.expected]
  BY DEF expected
<1> QED
  BY <1>1, <1>2 DEF StreamIsSound, expected

LEMMA FinishTurnKeeps ==
    ASSUME SessionInv, FinishTurn
    PROVE  SessionInv'
<1>1. /\ turn.at = Len(model.nodes) + 1 /\ turn' = NoTurn
      /\ model' = model /\ states' = states /\ limits' = limits /\ heard' = heard
      /\ streams' = [l \in Lanes |->
                       IF l \in turn.seats
                       THEN [streams[l] EXCEPT !.read = streams[l].read + model.pulse,
                                               !.answer = streams[l].answer \o Last(turn.values)[l]]
                       ELSE streams[l]]
  BY DEF FinishTurn
<1>2. /\ Plan' = Plan /\ Nodes' = Nodes /\ Lanes' = Lanes /\ IsPrepared' = IsPrepared
      /\ (\A n : InFact(n)' = InFact(n)) /\ (\A st : StreamIsSound(st)' = StreamIsSound(st))
  BY <1>1, SameModel
<1>3. IsPrepared' /\ TablesAreSound' /\ StatesAreSound' /\ LimitsAreSound'
  BY <1>1, <1>2 DEF SessionInv, TablesAreSound, StatesAreSound, LimitsAreSound
<1>4. TurnIsSound'
  BY <1>1, NoTurnIsTyped
<1>5. StreamsAreSound'
  <2>1. \A l \in Lanes : StreamIsSound(streams[l])
    BY DEF SessionInv, StreamsAreSound
  <2>2. ASSUME NEW l \in turn.seats
        PROVE  StreamIsSound([streams[l] EXCEPT !.read = streams[l].read + model.pulse,
                                                !.answer = streams[l].answer \o Last(turn.values)[l]])
    <3> DEFINE st == streams[l]
               read == st.read + model.pulse
               answer == st.answer \o Last(turn.values)[l]
               new == [st EXCEPT !.read = read, !.answer = answer]
    <3>1. StreamIsSound(st)
      BY <2>1, SessionIs
    <3>2. Last(turn.values)[l] \in Seq(Int)
      <4> DEFINE n == turn.at - 1
                 m == FactOf(Plan, n).pulse
      <4>1. Len(model.nodes) \in Nat /\ IsPrepared
        BY SessionIs
      <4>2. /\ IsFrames(turn.values) /\ Len(turn.values) = turn.at
            /\ \A w \in 0 .. turn.at - 1 : \A k \in turn.seats :
                  turn.values[w + 1][k] \in [1 .. FactOf(Plan, w).pulse -> Int]
        BY DEF SessionInv, TurnIsSound
      <4>3. n \in 0 .. turn.at - 1 /\ n + 1 = turn.at /\ n \in 0 .. Len(model.nodes)
        <5> DEFINE at == turn.at
                   k == Len(model.nodes)
        <5>1. at = k + 1 /\ k \in Nat
          BY <1>1, <4>1
        <5> HIDE DEF at, k
        <5>2. at - 1 \in 0 .. at - 1 /\ (at - 1) + 1 = at /\ at - 1 \in 0 .. k
          BY <5>1
        <5> QED
          BY <5>2 DEF at, k
      <4>4. turn.values[turn.at][l] \in [1 .. m -> Int]
        BY <4>2, <4>3
      <4>5. m \in Nat
        <5>1. IsPulsed(Plan) /\ model.nodes = Plan.nodes
          BY <4>1, ModelIs
        <5>2. FactOf(Plan, n) \in Fact
          BY <4>3, <5>1, FactOfWire
        <5> QED
          BY <5>2, FactsAre
      <4>6. Last(turn.values)[l] = turn.values[turn.at][l]
        BY <4>2 DEF Last
      <4> HIDE DEF m
      <4> QED
        BY <4>4, <4>5, <4>6, ListedIsASequence
    <3>3. read \in Nat /\ answer \in Seq(Int)
      <4>1. st.read \in Nat /\ st.answer \in Seq(Int) /\ model.pulse \in Nat
        BY <3>1, SessionIs DEF StreamIsSound
      <4>2. answer \in Seq(Int)
        BY <3>2, <4>1
      <4> DEFINE a == st.read
                 b == model.pulse
      <4>3. a \in Nat /\ b \in Nat
        BY <4>1
      <4> HIDE DEF a, b
      <4>4. a + b \in Nat
        BY <4>3
      <4> QED
        BY <4>2, <4>4 DEF a, b
    <3> HIDE DEF read, answer, st
    <3>4. new = [signal |-> st.signal, len |-> st.len, read |-> read, answer |-> answer,
                 broken |-> st.broken, expected |-> st.expected]
      BY <3>1, AnsweredStream
    <3>5. /\ st.signal \in Nat /\ st.len \in model.lens
          /\ st.expected = Reference(model.graph, Stream(st.signal, st.len))
      BY <3>1 DEF StreamIsSound
    <3> HIDE DEF new
    <3>6. StreamIsSound(new)
      BY <3>3, <3>4, <3>5, StreamOf
    <3> QED
      BY <3>6 DEF new, read, answer, st
  <2>3. \A l \in Lanes : StreamIsSound(streams'[l])
    BY <1>1, <2>1, <2>2
  <2>4. streams' = [l \in Lanes |-> streams'[l]]
    BY <1>1
  <2> QED
    BY <1>2, <2>3, <2>4 DEF StreamsAreSound
<1> QED
  BY <1>3, <1>4, <1>5 DEF SessionInv

LEMMA FailTurnKeeps ==
    ASSUME SessionInv, FailTurn
    PROVE  SessionInv'
<1>1. /\ turn' = NoTurn /\ model' = model /\ states' = states /\ limits' = limits /\ heard' = heard
      /\ streams' = [l \in Lanes |->
                       [streams[l] EXCEPT !.broken = streams[l].broken \/ l \in turn.seats]]
  BY DEF FailTurn
<1>2. /\ Plan' = Plan /\ Nodes' = Nodes /\ Lanes' = Lanes /\ IsPrepared' = IsPrepared
      /\ (\A n : InFact(n)' = InFact(n)) /\ (\A st : StreamIsSound(st)' = StreamIsSound(st))
  BY <1>1, SameModel
<1>3. IsPrepared' /\ TablesAreSound' /\ StatesAreSound' /\ LimitsAreSound'
  BY <1>1, <1>2 DEF SessionInv, TablesAreSound, StatesAreSound, LimitsAreSound
<1>4. TurnIsSound'
  BY <1>1, NoTurnIsTyped
<1>5. StreamsAreSound'
  <2>1. ASSUME NEW l \in Lanes PROVE StreamIsSound(streams'[l])
    <3> DEFINE st == streams[l]
               b == st.broken \/ l \in turn.seats
               new == [st EXCEPT !.broken = b]
    <3>1. StreamIsSound(st) /\ streams'[l] = new
      BY <1>1 DEF SessionInv, StreamsAreSound
    <3>2. /\ st.signal \in Nat /\ st.len \in model.lens /\ st.read \in Nat /\ st.answer \in Seq(Int)
          /\ st.expected = Reference(model.graph, Stream(st.signal, st.len))
      BY <3>1 DEF StreamIsSound
    <3> HIDE DEF st, b
    <3>3. new = [signal |-> st.signal, len |-> st.len, read |-> st.read, answer |-> st.answer,
                 broken |-> b, expected |-> st.expected]
      BY <3>1, BrokenStream
    <3> HIDE DEF new
    <3> QED
      BY <3>1, <3>2, <3>3, StreamOf
  <2>2. streams' = [l \in Lanes |-> streams'[l]]
    BY <1>1
  <2> QED
    BY <1>2, <2>1, <2>2 DEF StreamsAreSound
<1> QED
  BY <1>3, <1>4, <1>5 DEF SessionInv

LEMMA ResetLaneKeeps ==
    ASSUME SessionInv, NEW l \in Lanes, NEW len \in model.lens, ResetLane(l, len)
    PROVE  SessionInv'
<1> DEFINE signal == streams[l].signal + Cardinality(Lane)
<1>1. /\ turn' = turn /\ model' = model /\ limits' = limits
      /\ states' = [n \in Nodes |-> [states[n] EXCEPT ![l] = InitialState(model.nodes[n])]]
      /\ heard' = [n \in Nodes |-> [heard[n] EXCEPT ![l] = <<>>]]
      /\ streams' = [streams EXCEPT ![l] = StartOf(model, signal, len)]
  BY DEF ResetLane
<1>2. /\ Plan' = Plan /\ Nodes' = Nodes /\ Lanes' = Lanes /\ IsPrepared' = IsPrepared
      /\ (\A n : InFact(n)' = InFact(n)) /\ (\A st : StreamIsSound(st)' = StreamIsSound(st))
  BY <1>1, SameModel
<1>3. IsPrepared /\ TablesAreSound /\ StatesAreSound /\ LimitsAreSound /\ StreamsAreSound /\ TurnIsSound
  BY DEF SessionInv
<1>4. IsPrepared' /\ LimitsAreSound' /\ TurnIsSound'
  BY <1>1, <1>2, <1>3 DEF LimitsAreSound, TurnIsSound
<1>5. TablesAreSound'
  BY <1>1, <1>2, <1>3 DEF TablesAreSound
<1>6. StatesAreSound'
  <2> SUFFICES ASSUME NEW n \in Nodes, NEW k \in Lanes
               PROVE  StateIsSound(model.nodes[n], InFact(n), states'[n][k], heard'[n][k])
    BY <1>1, <1>2 DEF StatesAreSound
  <2>1. CASE k = l
    <3>1. states'[n][k] = InitialState(model.nodes[n]) /\ heard'[n][k] = <<>>
      BY <1>1, <1>3, <2>1 DEF TablesAreSound
    <3> QED
      BY <1>3, <3>1, InitialStateIsSound
  <2>2. CASE k # l
    <3>1. states'[n][k] = states[n][k] /\ heard'[n][k] = heard[n][k]
      BY <1>1, <1>3, <2>2 DEF TablesAreSound
    <3> QED
      BY <1>3, <3>1 DEF StatesAreSound
  <2> QED
    BY <2>1, <2>2
<1>7. StreamsAreSound'
  <2>1. signal \in Nat
    <3> DEFINE a == streams[l].signal
               b == Cardinality(Lane)
    <3>1. a \in Nat
      BY <1>3 DEF StreamsAreSound, StreamIsSound
    <3>2. b \in Nat
      BY PulseSessionAssumption, FS_CardinalityType
    <3> HIDE DEF a, b
    <3>3. a + b \in Nat
      BY <3>1, <3>2
    <3> QED
      BY <3>3 DEF a, b
  <2> HIDE DEF signal
  <2>2. StreamIsSound(StartOf(model, signal, len))
    BY <1>3, <2>1, StartIsTyped
  <2>3. /\ streams' = [k \in Lanes |-> streams'[k]]
        /\ \A k \in Lanes : StreamIsSound(streams'[k])
    BY <1>1, <1>3, <2>2 DEF StreamsAreSound
  <2> QED
    BY <1>2, <2>3 DEF StreamsAreSound
<1> QED
  BY <1>4, <1>5, <1>6, <1>7 DEF SessionInv

LEMMA StepKeeps ==
    ASSUME SessionInv, [Next]_vars
    PROVE  SessionInv'
<1>1. CASE UNCHANGED vars
  <2>1. /\ model' = model /\ states' = states /\ limits' = limits /\ streams' = streams
        /\ turn' = turn /\ heard' = heard
    BY <1>1 DEF vars
  <2>2. /\ Plan' = Plan /\ Nodes' = Nodes /\ Lanes' = Lanes /\ IsPrepared' = IsPrepared
        /\ (\A n : InFact(n)' = InFact(n)) /\ (\A st : StreamIsSound(st)' = StreamIsSound(st))
    BY <2>1, SameModel
  <2> QED
    BY <2>1, <2>2
       DEF SessionInv, TablesAreSound, StatesAreSound, LimitsAreSound, StreamsAreSound, TurnIsSound
<1> QED
  BY <1>1, StartTurnKeeps, EvalKeeps, FinishTurnKeeps, FailTurnKeeps, ResetLaneKeeps DEF Next

LEMMA SessionInvariant == Spec => []SessionInv
<1>1. SessionInv /\ [Next]_vars => SessionInv'
  BY StepKeeps
<1> QED
  BY InitIsSession, <1>1, PTL DEF Spec

(* SessionsKeepTheirTypes: whatever is pulsified and whoever is seated, what *)
(* goes along the wires of a session are numbers, as many as declared, and  *)
(* its states keep the form that the code gives them.                      *)
THEOREM SessionsKeepTheirTypes == Spec => []TypeOK
<1>1. SessionInv => TypeOK
  <2> SUFFICES ASSUME SessionInv PROVE TypeOK
    OBVIOUS
  <2>1. /\ turn.at \in 0 .. Len(model.nodes) + 1 /\ turn.seats \subseteq Lanes
        /\ Len(turn.values) = turn.at
    BY DEF SessionInv, TurnIsSound
  <2>2. ASSUME NEW n \in Nodes, model.nodes[n].kind = "delay", NEW l \in Lanes
        PROVE  /\ states[n][l].head
                    \in 0 .. Positive(Buffered(model.nodes[n].delay, model.nodes[n].overlap) - 1)
               /\ heard[n][l] \in Seq(Int)
    <3> DEFINE node == model.nodes[n]
               d == node.delay
               o == node.overlap
               b == Buffered(d, o)
               head == states[n][l].head
    <3>1. RingHolds(b, states[n][l], heard[n][l], Silence) /\ heard[n][l] \in Seq(Int)
      BY <2>2 DEF SessionInv, StatesAreSound, StateIsSound
    <3>2. head \in 0 .. (IF b = 0 THEN 0 ELSE b - 1)
      BY <3>1 DEF RingHolds
    <3>3. d \in Nat /\ o \in Nat
      BY <2>2, SessionIs, NodeIs DEF IsNode
    <3>4. b \in Nat
      <4> HIDE DEF d, o
      <4> QED
        BY <3>3 DEF Buffered
    <3> HIDE DEF b, head
    <3>5. head \in 0 .. Positive(b - 1)
      BY <3>2, <3>4 DEF Positive
    <3> QED
      BY <3>1, <3>5 DEF head, b
  <2>3. \A l \in Lanes : streams[l].answer \in Seq(Int) /\ streams[l].read \in Nat
    BY DEF SessionInv, StreamsAreSound, StreamIsSound
  <2> QED
    BY <2>1, <2>2, <2>3 DEF TypeOK
<1> QED
  BY <1>1, SessionInvariant, PTL

(* TurnsCarryWhatIsDeclared: while a turn runs, each wire that it has got to *)
(* carries, for every seat, as many frames as the pulse of its fact says:   *)
(* the shape that PulsedModel::wire_node declares is the one that is there. *)
THEOREM TurnsCarryWhatIsDeclared == Spec => []TurnIsSound
<1>1. SessionInv => TurnIsSound
  BY DEF SessionInv
<1> QED
  BY <1>1, SessionInvariant, PTL

(* RingsAlwaysHoldTheLastFrames: in a session of any pulsified model, the   *)
(* ring of each Delay holds, for each lane, the last frames its own stream  *)
(* sent: whoever shares the turns, and whatever failed or was reset.        *)
THEOREM RingsAlwaysHoldTheLastFrames == Spec => []RingsHoldTheLastFrames
<1>1. SessionInv => RingsHoldTheLastFrames
  BY DEF SessionInv, StatesAreSound, StateIsSound, RingsHoldTheLastFrames
<1> QED
  BY <1>1, SessionInvariant, PTL

-----------------------------------------------------------------------------
(* Streams and what is expected of them.                                     *)

LEMMA StreamIsAStream ==
    ASSUME NEW signal \in Nat, NEW len \in 1 .. MaxLen
    PROVE  /\ IsStream(Stream(signal, len), len) /\ len \in Lengths
           /\ \A i \in 1 .. len : Stream(signal, len)[i] = SignalFrame(signal, i)
<1>1. len \in Nat /\ len \in Lengths /\ len # 0
  BY MaxLenAssumption DEF Lengths
<1>2. \A i \in 1 .. len : SignalFrame(signal, i) \in Int
  BY <1>1, SignalFrameIsInt
<1>3. Stream(signal, len) \in [1 .. len -> Int]
  BY <1>2 DEF Stream
<1>4. Stream(signal, len) \in Seq(Int) /\ Len(Stream(signal, len)) = len
  BY <1>1, <1>3, ListedIsASequence
<1>5. Stream(signal, len) # <<>>
  <2> DEFINE x == Stream(signal, len)
  <2> HIDE DEF x
  <2>1. Len(x) # 0
    BY <1>1, <1>4 DEF x
  <2>2. x # <<>>
    BY <2>1
  <2> QED
    BY <2>2 DEF x
<1>6. \A i \in 1 .. len : Stream(signal, len)[i] = SignalFrame(signal, i)
  BY DEF Stream
<1> QED
  BY <1>1, <1>4, <1>5, <1>6 DEF IsStream

\* What each wire of the pulsed model stands for, and what is expected.
StandsFor(wires, st) ==
    /\ Means(Plan, wires, st.len) /\ wires[0] = Stream(st.signal, st.len)
    /\ wires[Len(model.nodes)] = st.expected

LEMMA StreamStands ==
    ASSUME IsPrepared, NEW st, StreamIsSound(st)
    PROVE  /\ IsStream(st.expected, model.fact.dim[st.len])
           /\ \E wires : StandsFor(wires, st)
<1> DEFINE graph == model.graph
           n == Len(graph)
           len == st.len
           signal == st.signal
           input == Stream(signal, len)
           w == Wires(graph, input)
<1>1. /\ IsGraph(graph) /\ model.pulse \in Nat \ {0} /\ Plan.ok /\ SumsAgree(Plan)
      /\ IsRunnable(graph, len) /\ len \in 1 .. MaxLen /\ n \in Nat
      /\ model.nodes = Plan.nodes /\ model.fact = FactOf(Plan, Len(model.nodes))
  BY ModelIs, GraphIs DEF StreamIsSound
<1>2. signal \in Nat /\ st.expected = Reference(graph, input)
  BY DEF StreamIsSound
<1> HIDE DEF graph, len, signal
<1>3. len \in Lengths /\ IsStream(input, len) /\ IsStream(Stream(1, len), len)
  BY <1>1, <1>2, StreamIsAStream
<1>4. Plan = PulsedModel(graph, model.pulse)
  BY DEF Plan, graph
<1>5. Declared(Plan, n, len)
  <2> DEFINE v == Wires(graph, Stream(1, len))
  <2>1. <<>> \notin ToSet(v)
    BY <1>1 DEF IsRunnable
  <2> HIDE DEF v, n
  <2> QED
    BY <1>1, <1>3, <1>4, <2>1, ModelStands DEF v, n
<1>6. /\ Sound(Plan, n, model.pulse) /\ IsFrames(w) /\ Len(w) = n + 1
      /\ Streams(Plan, n, len, w) /\ Stands(Plan, n, len, w, input)
  <2> HIDE DEF w, input
  <2> QED
    BY <1>1, <1>3, <1>4, <1>5, ModelStands DEF w
<1> HIDE DEF w, n
<1>7. Plan.at[n + 1] = Len(model.nodes)
  BY <1>1, <1>6 DEF Sound
<1>8. st.expected = w[n + 1]
  BY <1>2, <1>6 DEF Reference, Last, w
<1>9. n + 1 \in 1 .. n + 1
  BY <1>1
<1>10. IsStream(st.expected, model.fact.dim[len])
  BY <1>1, <1>6, <1>7, <1>8, <1>9 DEF Streams
<1>11. PICK wires : /\ Means(Plan, wires, len) /\ wires[0] = input
                    /\ \A k \in 1 .. n + 1 : wires[Plan.at[k]] = w[k]
  BY <1>6 DEF Stands
<1>12. StandsFor(wires, st)
  BY <1>7, <1>8, <1>9, <1>11 DEF StandsFor, len, signal
<1> QED
  BY <1>10, <1>12 DEF len

(* DeclaredLengthIsRight: the dimension that pulsification declares for the  *)
(* output of any graph is the length of what the source model gives, for    *)
(* every length of a stream.                                               *)
THEOREM DeclaredLengthIsRight == Spec => []DeclaredLength
<1>1. SessionInv => DeclaredLength
  <2> SUFFICES ASSUME SessionInv, NEW l \in Lanes
               PROVE  model.fact.dim[streams[l].len] = Len(streams[l].expected)
    BY DEF DeclaredLength
  <2>1. IsPrepared /\ StreamIsSound(streams[l])
    BY DEF SessionInv, StreamsAreSound
  <2>2. IsStream(streams[l].expected, model.fact.dim[streams[l].len])
    BY <2>1, StreamStands
  <2> QED
    BY <2>2 DEF IsStream
<1> QED
  BY <1>1, SessionInvariant, PTL

(* DelaysDelayTheirStream: in any session, what a Delay answers to a seat is *)
(* its own stream, as late as its delay says, whatever pulses, failures and *)
(* resets came before.                                                     *)
AnswersADelayLine ==
    EvalDelay => \A l \in turn.seats :
        turn'.values[turn.at + 1][l]
            = Delayed(Node.delay, Node.overlap, heard'[turn.at][l], Len(Input(1, l)), Silence)

LEMMA EvalDelayIsSound ==
    ASSUME SessionInv, EvalDelay, NEW l \in turn.seats
    PROVE  turn'.values[turn.at + 1][l]
              = Delayed(Node.delay, Node.overlap, heard'[turn.at][l], Len(Input(1, l)), Silence)
<1> DEFINE at == turn.at
           x == Input(1, l)
           h == heard[at][l]
           st == states[at][l]
           d == Node.delay
           o == Node.overlap
           n == In.pulse
<1>1. at \in Nodes /\ Node.kind = "delay" /\ Node = model.nodes[at]
  BY DEF EvalDelay, IsAt, Node
<1>2. Evaluates /\ AtWork /\ In = InFact(at) /\ l \in Lanes /\ x \in [1 .. n -> Int]
  BY <1>1, EvalKeeps, NodeAtWork, InputIs, SessionIs DEF EvalNode
<1>3. n \in Nat \ {0} /\ d \in Nat /\ o \in Nat
  BY <1>1, <1>2, AtWorkIs DEF IsNode
<1>4. x \in Seq(Int) /\ Len(x) = n
  <2> HIDE DEF n, x
  <2> QED
    BY <1>2, <1>3, ListedIsASequence
<1>5. h \in Seq(Int) /\ RingHolds(Buffered(d, o), st, h, Silence)
  BY <1>1, <1>2 DEF SessionInv, StatesAreSound, StateIsSound
<1>6. DelayOutput(d, o, st, x) = Delayed(d, o, h \o x, n, Silence)
  BY <1>3, <1>4, <1>5, OutputIsDelayed
<1>7. heard'[at][l] = h \o x
  <2>1. heard' = [heard EXCEPT ![at] =
                    [k \in Lanes |-> IF k \in turn.seats THEN heard[at][k] \o Input(1, k)
                                     ELSE heard[at][k]]]
    BY <1>1, <1>2 DEF Evaluates
  <2>2. DOMAIN heard = Nodes
    BY DEF SessionInv, TablesAreSound
  <2> QED
    BY <1>1, <1>2, <2>1, <2>2
<1>8. turn'.values[at + 1] = Output
  <2>1. turn' = [turn EXCEPT !.at = turn.at + 1, !.values = Append(turn.values, Output)]
    BY <1>2 DEF Evaluates
  <2>2. /\ turn = [seats |-> turn.seats, at |-> turn.at, values |-> turn.values, s |-> turn.s]
        /\ IsFrames(turn.values) /\ Len(turn.values) = turn.at
    BY DEF SessionInv, TurnIsSound
  <2> DEFINE more == Append(turn.values, Output)
  <2>3. more[at + 1] = Output
    BY <2>2, AppendedAreFrames
  <2> HIDE DEF more
  <2>4. turn'.values = more
    BY <2>1, <2>2 DEF more
  <2> QED
    BY <2>3, <2>4
<1>9. Output[l] = DelayOutput(d, o, st, x)
  BY <1>1 DEF Output, Answered, State
<1> QED
  BY <1>4, <1>6, <1>7, <1>8, <1>9

THEOREM DelaysDelayTheirStream == Spec => [][AnswersADelayLine]_vars
<1>1. SessionInv /\ [Next]_vars => [AnswersADelayLine]_vars
  BY EvalDelayIsSound DEF AnswersADelayLine
<1> QED
  BY <1>1, SessionInvariant, PTL DEF Spec

-----------------------------------------------------------------------------
(* What a node answers, told of the stream that its wire stands for.         *)

\* x is n frames of the stream c, after the first `off' of them, wherever these
\* are frames of c.
Shows(c, n, off, x) == \A p \in 1 .. n : off + p \in DOMAIN c => x[p] = c[off + p]

\* The stream c does not start before its wire.
Starts(c, delay) == \A i \in DOMAIN c : i \in Int /\ i + delay >= 1

LEMMA SequencesStart ==
    ASSUME NEW S, NEW c \in Seq(S), NEW delay \in Nat
    PROVE  Starts(c, delay)
  BY DEF Starts

\* A Delay: what it has heard, and what it lets out.
LEMMA DelayShows ==
    ASSUME NEW a, NEW delay \in Nat, Starts(a, delay), NEW h \in Seq(Int),
           NEW x \in Seq(Int), NEW d \in Nat, NEW o \in Nat,
           Shows(a, Len(h), -delay, h), Shows(a, Len(x), Len(h) - delay, x)
    PROVE  /\ Shows(a, Len(h \o x), -delay, h \o x)
           /\ Shows(a, Len(x) + o, Len(h) - (delay + d + o), Delayed(d, o, h \o x, Len(x), Silence))
           /\ Starts(a, delay + d + o)
<1> DEFINE m == Len(h)
           n == Len(x)
           all == h \o x
<1>1. m \in Nat /\ n \in Nat /\ Len(all) = m + n /\ all \in Seq(Int)
  OBVIOUS
<1>2. \A k \in 1 .. m + n : all[k] = IF k <= m THEN h[k] ELSE x[k - m]
  OBVIOUS
<1> HIDE DEF m, n, all
<1>3. ASSUME NEW k \in 1 .. m + n, -delay + k \in DOMAIN a PROVE all[k] = a[-delay + k]
  <2>1. CASE k <= m
    <3>1. k \in 1 .. m
      BY <1>1, <2>1
    <3>2. h[k] = a[-delay + k]
      BY <1>3, <3>1 DEF Shows, m
    <3> QED
      BY <1>2, <2>1, <3>2
  <2>2. CASE ~(k <= m)
    <3>1. k - m \in 1 .. n /\ (m - delay) + (k - m) = -delay + k
      BY <1>1, <2>2
    <3>2. x[k - m] = a[(m - delay) + (k - m)]
      BY <1>3, <3>1 DEF Shows, m, n
    <3> QED
      BY <1>2, <2>2, <3>1, <3>2
  <2> QED
    BY <2>1, <2>2
<1>4. Shows(a, m + n, -delay, all)
  BY <1>3 DEF Shows
<1>5. ASSUME NEW p \in 1 .. n + o, (m - (delay + d + o)) + p \in DOMAIN a
      PROVE  Delayed(d, o, all, n, Silence)[p] = a[(m - (delay + d + o)) + p]
  <2> DEFINE k == Len(all) - n + p - d - o
  <2>1. k = m + p - d - o /\ k \in Int /\ -delay + k = (m - (delay + d + o)) + p
    BY <1>1
  <2>2. Delayed(d, o, all, n, Silence)[p] = FrameAt(all, k, Silence)
    BY DEF Delayed
  <2> HIDE DEF k
  <2>3. k >= 1
    <3>1. (m - (delay + d + o)) + p + delay >= 1
      BY <1>5 DEF Starts
    <3> QED
      BY <1>1, <2>1, <3>1
  <2>4. k \in 1 .. m + n
    BY <1>1, <2>1, <2>3
  <2>5. all[k] = a[-delay + k]
    BY <1>3, <1>5, <2>1, <2>4
  <2>6. FrameAt(all, k, Silence) = all[k]
    BY <1>1, <2>4 DEF FrameAt
  <2> QED
    BY <2>1, <2>2, <2>5, <2>6
<1>6. Shows(a, n + o, m - (delay + d + o), Delayed(d, o, all, n, Silence))
  BY <1>5 DEF Shows
<1>7. Starts(a, delay + d + o)
  BY DEF Starts
<1> QED
  BY <1>1, <1>4, <1>6, <1>7 DEF m, n, all

\* A slice, that only the facts know of.
LEMMA SliceShows ==
    ASSUME NEW a, NEW c, NEW n \in Nat, NEW off \in Int, NEW more \in Int, NEW x,
           Shows(a, n, off, x),
           \A i \in DOMAIN c : i \in Int /\ i + more \in DOMAIN a /\ c[i] = a[i + more]
    PROVE  Shows(c, n, off - more, x)
<1> SUFFICES ASSUME NEW p \in 1 .. n, (off - more) + p \in DOMAIN c
             PROVE  x[p] = c[(off - more) + p]
  BY DEF Shows
<1>1. (off - more) + p + more = off + p
  OBVIOUS
<1>2. off + p \in DOMAIN a /\ c[(off - more) + p] = a[off + p]
  BY <1>1
<1> QED
  BY <1>2 DEF Shows

LEMMA SumShows ==
    ASSUME NEW a \in Seq(Int), NEW b \in Seq(Int), Len(b) = Len(a), NEW n \in Nat, NEW off \in Int,
           NEW x, NEW y, Shows(a, n, off, x), Shows(b, n, off, y)
    PROVE  Shows([i \in 1 .. Len(a) |-> a[i] + b[i]], n, off, [i \in 1 .. n |-> x[i] + y[i]])
<1>1. DOMAIN a = 1 .. Len(a) /\ DOMAIN b = 1 .. Len(a)
  OBVIOUS
<1> QED
  BY <1>1 DEF Shows

\* Frames of a pulse of whole strides.
LEMMA SampledShows ==
    ASSUME NEW a, NEW c, NEW m \in Nat, NEW stride \in Nat \ {0}, NEW modulo \in 0 .. stride - 1,
           NEW delay \in Nat, NEW base \in Int, NEW x \in [1 .. m * stride -> Int],
           Shows(a, m * stride, base * stride - delay, x),
           \A i \in DOMAIN c :
              LET k == (((i - 1) * stride + modulo) + 1) - delay
              IN  i \in Int /\ k \in DOMAIN a /\ c[i] = a[k]
    PROVE  Shows(c, m, base, Sampled(x, stride, modulo))
<1> SUFFICES ASSUME NEW p \in 1 .. m, base + p \in DOMAIN c
             PROVE  Sampled(x, stride, modulo)[p] = c[base + p]
  BY DEF Shows
<1> DEFINE n == m * stride
           j == (p - 1) * stride
           b == base * stride
           f == Sampled(x, stride, modulo)
<1>1. n \in Nat /\ j \in Nat /\ b \in Int
  <2>1. m \in Nat /\ stride \in Nat /\ p - 1 \in Nat /\ base \in Int
    OBVIOUS
  <2>2. m * stride \in Nat
    BY <2>1
  <2>3. (p - 1) * stride \in Nat
    BY <2>1
  <2>4. base * stride \in Int
    BY <2>1
  <2> QED
    BY <2>2, <2>3, <2>4
<1>2. j + stride <= n
  <2>1. p * stride <= m * stride
    BY TimesGrows
  <2>2. p * stride = j + stride
    OBVIOUS
  <2> QED
    BY <2>1, <2>2
<1>3. ((base + p) - 1) * stride = b + j
  OBVIOUS
<1>4. Positive(CeilDiv(Len(x) - modulo, stride)) = m
  <2>1. Len(x) = n
    BY <1>1, ListedIsASequence
  <2>2. (m - 1) * stride = n - stride
    OBVIOUS
  <2>3. n - modulo \in Int /\ m \in Int /\ (m - 1) * stride < n - modulo /\ n - modulo <= m * stride
    BY <1>1, <2>2
  <2>4. CeilDiv(n - modulo, stride) = m
    <3> HIDE DEF n
    <3> QED
      BY <2>3, CeilDivUnique
  <2> QED
    BY <2>1, <2>4 DEF Positive
<1>5. f[p] = x[j + modulo + 1]
  <2>1. f = [i \in 1 .. m |-> x[(i - 1) * stride + modulo + 1]]
    BY <1>4 DEF Sampled
  <2> HIDE DEF f
  <2> QED
    BY <2>1
<1> HIDE DEF n, j, b, f
<1>6. j + modulo + 1 \in 1 .. n
  BY <1>1, <1>2
<1> DEFINE k == (((((base + p) - 1) * stride) + modulo) + 1) - delay
<1>7. k \in DOMAIN a /\ c[base + p] = a[k]
  OBVIOUS
<1>8. k = (b - delay) + (j + modulo + 1)
  BY <1>1, <1>3
<1> HIDE DEF k
<1>9. x[j + modulo + 1] = a[(b - delay) + (j + modulo + 1)]
  BY <1>6, <1>7, <1>8 DEF Shows, n, b
<1> QED
  BY <1>5, <1>7, <1>8, <1>9 DEF f

\* The windows of a pulse are windows of the stream.
ShowsStrides(c, n, base, stride, x) == Shows(c, n, base * stride, x)
SeesTheSame(x, a, p, base, size, stride, dilation) ==
    Window(x, p, size, stride, dilation) = Window(a, base + p, size, stride, dilation)

LEMMA SameWindow ==
    ASSUME NEW n \in Nat, NEW x \in [1 .. n -> Int], NEW a \in Seq(Int), NEW base \in Int,
           NEW size \in Nat \ {0}, NEW stride \in Nat \ {0}, NEW dilation \in Nat \ {0},
           ShowsStrides(a, n, base, stride, x),
           NEW p \in 1 .. WindowCount(n, size, stride, dilation),
           base + p \in 1 .. WindowCount(Len(a), size, stride, dilation)
    PROVE  SeesTheSame(x, a, p, base, size, stride, dilation)
<1> DEFINE j == (p - 1) * stride
           b == base * stride
<1>1. b \in Int /\ j \in Int /\ ((base + p) - 1) * stride = b + j
  <2>1. p \in Int /\ stride \in Int
    <3>1. WindowCount(n, size, stride, dilation) \in Nat
      BY WindowCountIs
    <3> QED
      BY <3>1
  <2>2. base * stride \in Int
    BY <2>1
  <2>3. (p - 1) * stride \in Int
    BY <2>1
  <2>4. ((base + p) - 1) * stride = base * stride + (p - 1) * stride
    BY <2>1
  <2> QED
    BY <2>2, <2>3, <2>4
<1>2. ASSUME NEW t \in 1 .. size
      PROVE  x[j + (t - 1) * dilation + 1] = a[((base + p) - 1) * stride + (t - 1) * dilation + 1]
  <2> DEFINE s == (t - 1) * dilation
  <2>1. s \in Int
    OBVIOUS
  <2>2. j + s + 1 \in 1 .. n
    BY WindowCountIs
  <2>3. ((base + p) - 1) * stride + s + 1 \in 1 .. Len(a)
    <3>1. Len(a) \in Nat
      OBVIOUS
    <3> DEFINE k == Len(a)
               i == base + p
    <3>2. i \in 1 .. WindowCount(k, size, stride, dilation)
      OBVIOUS
    <3> HIDE DEF i, k
    <3>3. (i - 1) * stride + (t - 1) * dilation + 1 \in 1 .. k
      BY <3>1, <3>2, WindowCountIs DEF k
    <3> QED
      BY <3>3 DEF i, k
  <2> HIDE DEF j, b, s
  <2>4. b + (j + s + 1) \in DOMAIN a /\ b + (j + s + 1) = ((base + p) - 1) * stride + s + 1
    BY <1>1, <2>1, <2>3
  <2>5. x[j + s + 1] = a[b + (j + s + 1)]
    BY <2>2, <2>4 DEF Shows, ShowsStrides, b
  <2> QED
    BY <2>4, <2>5 DEF s
<1> QED
  BY <1>2 DEF Window, SeesTheSame

LEMMA KernelShows ==
    ASSUME NEW n \in Nat, NEW x \in [1 .. n -> Int], NEW a \in Seq(Int), NEW base \in Int, NEW op,
           op.size \in Nat \ {0}, op.stride \in Nat \ {0}, op.dilation \in Nat \ {0},
           Shows(a, n, base * op.stride, x),
           NEW m, m = WindowCount(n, op.size, op.stride, op.dilation)
    PROVE  /\ Shows(Convolved(a, op), m, base, Convolved(x, op))
           /\ Shows(Pooled(a, op), m, base, Pooled(x, op))
<1> DEFINE Seen(y, j) == Window(y, j, op.size, op.stride, op.dilation)
           c == WindowCount(Len(a), op.size, op.stride, op.dilation)
<1>1. Len(x) = n
  BY ListedIsASequence
<1>2. /\ Convolved(x, op) = [j \in 1 .. m |-> Total([t \in 1 .. op.size |-> t * Seen(x, j)[t]])]
      /\ Pooled(x, op) = [j \in 1 .. m |-> Max(ToSet(Seen(x, j)))]
      /\ Convolved(a, op) = [j \in 1 .. c |-> Total([t \in 1 .. op.size |-> t * Seen(a, j)[t]])]
      /\ Pooled(a, op) = [j \in 1 .. c |-> Max(ToSet(Seen(a, j)))]
  BY <1>1 DEF Convolved, Pooled
<1>3. ASSUME NEW p \in 1 .. m, base + p \in 1 .. c PROVE Seen(x, p) = Seen(a, base + p)
  <2>1. /\ p \in 1 .. WindowCount(n, op.size, op.stride, op.dilation)
        /\ base + p \in 1 .. WindowCount(Len(a), op.size, op.stride, op.dilation)
    BY <1>3
  <2> DEFINE size == op.size
             stride == op.stride
             dilation == op.dilation
  <2>2. size \in Nat \ {0} /\ stride \in Nat \ {0} /\ dilation \in Nat \ {0}
        /\ Shows(a, n, base * stride, x) /\ n \in Nat /\ x \in [1 .. n -> Int] /\ a \in Seq(Int)
        /\ base \in Int
    OBVIOUS
  <2>3. /\ p \in 1 .. WindowCount(n, size, stride, dilation)
        /\ base + p \in 1 .. WindowCount(Len(a), size, stride, dilation)
    BY <2>1
  <2> HIDE DEF size, stride, dilation
  <2>4. ShowsStrides(a, n, base, stride, x)
    BY <2>2 DEF ShowsStrides
  <2>5. SeesTheSame(x, a, p, base, size, stride, dilation)
    BY <2>2, <2>3, <2>4, SameWindow
  <2> QED
    BY <2>5 DEF SeesTheSame, size, stride, dilation
<1> HIDE DEF Seen, c
<1>4. ASSUME NEW p \in 1 .. m, base + p \in 1 .. c
      PROVE  /\ Convolved(x, op)[p] = Convolved(a, op)[base + p]
             /\ Pooled(x, op)[p] = Pooled(a, op)[base + p]
  <2>1. Seen(x, p) = Seen(a, base + p)
    BY <1>3, <1>4
  <2>2. /\ Convolved(x, op)[p] = Total([t \in 1 .. op.size |-> t * Seen(x, p)[t]])
        /\ Convolved(a, op)[base + p] = Total([t \in 1 .. op.size |-> t * Seen(a, base + p)[t]])
        /\ Pooled(x, op)[p] = Max(ToSet(Seen(x, p)))
        /\ Pooled(a, op)[base + p] = Max(ToSet(Seen(a, base + p)))
    BY <1>2, <1>4, Zenon
  <2> QED
    BY <2>1, <2>2
<1>5. DOMAIN Convolved(a, op) = 1 .. c /\ DOMAIN Pooled(a, op) = 1 .. c
  BY <1>2
<1> QED
  BY <1>4, <1>5 DEF Shows

\* Constants before and after a stream, the end of which is known by then.
LEMMA ConcatShows ==
    ASSUME NEW n \in Nat, NEW x \in [1 .. n -> Int], NEW a \in Seq(Int),
           NEW pre \in Seq(Int), NEW post \in Seq(Int), NEW delay \in Nat, NEW pos \in Nat,
           Shows(a, n, pos - delay, x),
           NEW opened, opened = Overwritten(x, pos, pre, delay - Len(pre)),
           NEW known \in BOOLEAN, NEW answer,
           answer = (IF known THEN Overwritten(opened, pos, post, delay + Len(a)) ELSE opened),
           ~known /\ post # <<>> => pos + n <= delay + Len(a)
    PROVE  Shows(pre \o a \o post, n, pos - (delay - Len(pre)), answer)
<1> DEFINE c == pre \o a \o post
           m == Len(pre)
           k == Len(a)
           j == Len(post)
<1>1. m \in Nat /\ k \in Nat /\ j \in Nat /\ DOMAIN pre = 1 .. m /\ DOMAIN post = 1 .. j
      /\ DOMAIN c = 1 .. m + k + j /\ (j # 0 => post # <<>>)
  OBVIOUS
<1>2. \A i \in 1 .. m + k + j :
          c[i] = IF i <= m THEN pre[i] ELSE IF i <= m + k THEN a[i - m] ELSE post[i - (m + k)]
  OBVIOUS
<1>3. Len(x) = n
  BY ListedIsASequence
<1>4. opened = [i \in 1 .. n |-> IF (pos + i) - (delay - m) \in 1 .. m
                                 THEN pre[(pos + i) - (delay - m)] ELSE x[i]]
  <2>1. opened = [i \in 1 .. n |-> LET z == pos + i - (delay - m) IN IF z \in 1 .. m THEN pre[z] ELSE x[i]]
    BY <1>1, <1>3, Zenon DEF Overwritten
  <2>2. \A i \in 1 .. n : pos + i - (delay - m) = (pos + i) - (delay - m)
    BY <1>1
  <2> HIDE DEF m
  <2> QED
    BY <2>1, <2>2
<1>5. Len(opened) = n
  <2>1. m \in Int /\ \A z \in 1 .. m : pre[z] \in Int
    OBVIOUS
  <2> HIDE DEF m
  <2>2. opened \in [1 .. n -> Int]
    BY <1>4, <2>1
  <2> QED
    BY <2>2, ListedIsASequence
<1>6. known => answer = [i \in 1 .. n |-> IF (pos + i) - (delay + k) \in 1 .. j
                                          THEN post[(pos + i) - (delay + k)] ELSE opened[i]]
  <2> HAVE known
  <2>1. answer = [i \in 1 .. n |-> LET z == pos + i - (delay + k) IN IF z \in 1 .. j THEN post[z] ELSE opened[i]]
    <3>1. answer = Overwritten(opened, pos, post, delay + k)
      OBVIOUS
    <3> HIDE DEF k
    <3> QED
      BY <1>1, <1>5, <3>1, Zenon DEF Overwritten
  <2>2. \A i \in 1 .. n : pos + i - (delay + k) = (pos + i) - (delay + k)
    BY <1>1
  <2> HIDE DEF k, j
  <2> QED
    BY <2>1, <2>2
<1>7. \A p \in 1 .. n : (pos - delay) + p \in 1 .. k => x[p] = a[(pos - delay) + p]
  BY DEF Shows
<1> HIDE DEF c, m, k, j
<1> SUFFICES ASSUME NEW p \in 1 .. n, (pos - (delay - m)) + p \in 1 .. m + k + j
             PROVE  answer[p] = c[(pos - (delay - m)) + p]
  BY <1>1 DEF Shows, c, m
<1> DEFINE i == (pos - (delay - m)) + p
<1>8. i = (pos + p) - (delay - m) /\ i \in Int /\ (pos + p) - (delay + k) = i - (m + k)
      /\ (pos - delay) + p = i - m
  BY <1>1
<1>9. c[i] = IF i <= m THEN pre[i] ELSE IF i <= m + k THEN a[i - m] ELSE post[i - (m + k)]
  BY <1>2
<1>10. opened[p] = IF i \in 1 .. m THEN pre[i] ELSE x[p]
  BY <1>4, <1>8
<1>11. known => answer[p] = IF i - (m + k) \in 1 .. j THEN post[i - (m + k)] ELSE opened[p]
  BY <1>6, <1>8
<1>12. ~known => answer[p] = opened[p] /\ (j # 0 => i <= m + k)
  <2> HAVE ~known
  <2>1. j # 0 => pos + n <= delay + k
    BY <1>1 DEF k
  <2> QED
    BY <1>1, <1>8, <2>1
<1>13. i - m \in 1 .. k => x[p] = a[i - m]
  BY <1>7, <1>8
<1>14. i \in 1 .. m + k + j
  OBVIOUS
<1> HIDE DEF i
<1>15. answer[p] = c[i]
  <2>1. CASE i <= m
    <3>1. opened[p] = pre[i] /\ c[i] = pre[i] /\ ~(i - (m + k) \in 1 .. j)
      BY <1>1, <1>8, <1>9, <1>10, <1>14, <2>1
    <3> QED
      BY <1>11, <1>12, <3>1
  <2>2. CASE ~(i <= m) /\ i <= m + k
    <3>1. opened[p] = a[i - m] /\ c[i] = a[i - m] /\ ~(i - (m + k) \in 1 .. j)
      BY <1>1, <1>8, <1>9, <1>10, <1>13, <1>14, <2>2
    <3> QED
      BY <1>11, <1>12, <3>1
  <2>3. CASE ~(i <= m + k)
    <3>1. i - (m + k) \in 1 .. j /\ j # 0 /\ c[i] = post[i - (m + k)]
      BY <1>1, <1>8, <1>9, <1>14, <2>3
    <3> QED
      BY <1>11, <1>12, <2>3, <3>1
  <2> QED
    BY <2>1, <2>2, <2>3
<1> QED
  BY <1>15 DEF i

-----------------------------------------------------------------------------
(* A Pad.                                                                    *)

\* A Pad that pads, in numbers: k is the length of the stream a, end where the
\* wire ends as far as is known, and j the index in the stream of a frame.
PadsHere(n, x, k, a, pos, begin, before, after, end, mode, value, seen, head, tail, answer, i, j) ==
    /\ n \in Nat \ {0} /\ x \in [1 .. n -> Int] /\ k \in Nat \ {0} /\ a \in [1 .. k -> Int]
    /\ pos \in Nat /\ begin \in Nat /\ before \in Nat /\ after \in Nat /\ end \in Int
    /\ value \in Int /\ seen \in Int /\ head \in Int /\ tail \in Int
    /\ \A p \in 1 .. n : (pos - begin) + p \in 1 .. k => x[p] = a[(pos - begin) + p]
    /\ head = IF pos < begin THEN IF begin - pos <= n THEN begin - pos ELSE n ELSE 0
    /\ tail = IF pos + n > end /\ after > 0 THEN IF (pos + n) - end <= n THEN end - pos ELSE 0 ELSE n
    /\ \/ end = begin + k \/ after = 0
       \/ pos + n <= end /\ pos + n <= begin + k
    /\ mode = "edge" /\ head # 0 => head = begin - pos /\ head + 1 \in 1 .. n
    /\ mode = "edge" /\ after > 0 /\ pos < end => seen = x[IF end - pos <= n THEN end - pos ELSE n]
    /\ mode = "edge" /\ after > 0 /\ ~(pos < end) => seen = a[k]
    /\ \A p \in 1 .. n :
          answer[p] = IF p > tail THEN IF mode = "edge" THEN seen ELSE value
                      ELSE IF p <= head THEN IF mode = "edge" THEN x[head + 1] ELSE value
                      ELSE x[p]
    /\ i \in 1 .. n /\ j \in (1 - before) .. k + after /\ j = (pos - begin) + i

LEMMA PadGeneral ==
    ASSUME NEW n, NEW x, NEW k, NEW a, NEW pos, NEW begin, NEW before, NEW after, NEW end, NEW mode,
           NEW value, NEW seen, NEW head, NEW tail, NEW answer, NEW i, NEW j,
           PadsHere(n, x, k, a, pos, begin, before, after, end, mode, value, seen, head, tail,
                    answer, i, j)
    PROVE  answer[i] = IF j <= 0 THEN IF mode = "edge" THEN a[1] ELSE value
                       ELSE IF j <= k THEN a[j] ELSE IF mode = "edge" THEN a[k] ELSE value
<1> USE DEF PadsHere
<1>1. CASE i > tail
  <2>1. after > 0 /\ pos + n > end /\ end = begin + k
    BY <1>1
  <2>2. j > k
    BY <1>1, <2>1
  <2>3. mode = "edge" => seen = a[k]
    <3> HAVE mode = "edge"
    <3>1. CASE pos < end
      <4>1. end - pos < n /\ end - pos \in 1 .. n /\ (pos - begin) + (end - pos) = k
        BY <2>1, <3>1, <1>1
      <4> DEFINE p == end - pos
      <4>2. p \in 1 .. n /\ (pos - begin) + p \in 1 .. k /\ (pos - begin) + p = k
        BY <4>1
      <4> HIDE DEF p
      <4>3. x[p] = a[(pos - begin) + p]
        BY <4>2
      <4>4. x[end - pos] = a[k]
        BY <4>2, <4>3 DEF p
      <4> QED
        BY <2>1, <3>1, <4>1, <4>4
    <3> QED
      BY <2>1, <3>1
  <2> QED
    BY <1>1, <2>2, <2>3
<1>2. CASE ~(i > tail) /\ i <= head
  <2>1. j <= 0
    BY <1>2
  <2>2. mode = "edge" => x[head + 1] = a[1]
    <3> HAVE mode = "edge"
    <3>1. head # 0 /\ head = begin - pos /\ head + 1 \in 1 .. n /\ (pos - begin) + (head + 1) = 1
      BY <1>2
    <3> QED
      BY <3>1
  <2> QED
    BY <1>2, <2>1, <2>2
<1>3. CASE ~(i > tail) /\ ~(i <= head)
  <2>1. j >= 1 /\ j <= k
    BY <1>3
  <2>2. x[i] = a[j]
    BY <2>1
  <2> QED
    BY <1>3, <2>1, <2>2
<1> QED
  BY <1>1, <1>2, <1>3

\* The last frame that a Pad has seen, for the edge.
LastFollows(node, begin, a, st) ==
    node.mode = "edge" /\ node.after > 0 /\ st.pos > begin =>
        st.last = a[IF st.pos - begin <= Len(a) THEN st.pos - begin ELSE Len(a)]

\* Where the stream ends is known, or does not matter yet.
EndFollows(begin, after, k, pos, n) ==
    \/ End = begin + k
    \/ End = Never /\ (after = 0 \/ (pos + n <= begin + k /\ pos + n <= Never))

LEMMA SeenFollows ==
    ASSUME NEW n \in Nat \ {0}, NEW x \in [1 .. n -> Int], NEW k \in Nat \ {0},
           NEW a \in [1 .. k -> Int], NEW pos \in Nat, NEW begin \in Nat, NEW end \in Int,
           NEW last, NEW seen,
           \A p \in 1 .. n : (pos - begin) + p \in 1 .. k => x[p] = a[(pos - begin) + p],
           \/ end = begin + k
           \/ pos + n <= end /\ pos + n <= begin + k,
           pos > begin => last = a[IF pos - begin <= k THEN pos - begin ELSE k],
           seen = IF pos < end THEN x[IF end - pos <= n THEN end - pos ELSE n] ELSE last
    PROVE  /\ ~(pos < end) => seen = a[k]
           /\ pos + n > begin =>
                 seen = a[IF (pos + n) - begin <= k THEN (pos + n) - begin ELSE k]
<1>1. CASE pos < end
  <2> DEFINE p == IF end - pos <= n THEN end - pos ELSE n
  <2>1. p \in 1 .. n /\ seen = x[p]
    BY <1>1
  <2>2. pos + n > begin =>
           /\ (pos - begin) + p \in 1 .. k
           /\ (pos - begin) + p = IF (pos + n) - begin <= k THEN (pos + n) - begin ELSE k
    BY <1>1
  <2> HIDE DEF p
  <2>3. (pos - begin) + p \in 1 .. k => x[p] = a[(pos - begin) + p]
    BY <2>1
  <2>4. pos + n > begin => seen = a[(pos - begin) + p]
    BY <2>1, <2>2, <2>3
  <2> DEFINE q == IF (pos + n) - begin <= k THEN (pos + n) - begin ELSE k
  <2>5. pos + n > begin => (pos - begin) + p = q
    BY <2>2
  <2> HIDE DEF q
  <2>6. pos + n > begin => seen = a[q]
    BY <2>4, <2>5
  <2> QED
    BY <1>1, <2>6 DEF q
<1>2. CASE ~(pos < end)
  <2>1. end = begin + k /\ pos > begin /\ pos - begin >= k /\ (pos + n) - begin >= k
    BY <1>2
  <2>2. seen = a[k]
    <3>1. pos - begin <= k => pos - begin = k
      BY <2>1
    <3> QED
      BY <1>2, <2>1, <3>1
  <2>3. (pos + n) - begin <= k => (pos + n) - begin = k
    BY <2>1
  <2> QED
    BY <2>2, <2>3
<1> QED
  BY <1>1, <1>2

\* A Pad that has valid frames only, or none.
LEMMA PadPasses ==
    ASSUME NEW n \in Nat \ {0}, NEW x, NEW k \in Nat \ {0}, NEW a,
           NEW pos \in Nat, NEW begin \in Nat, NEW before \in Nat, NEW after \in Nat,
           NEW end \in Int, NEW first \in Int, NEW last \in Int,
           \A p \in 1 .. n : (pos - begin) + p \in 1 .. k => x[p] = a[(pos - begin) + p],
           \/ end = begin + k
           \/ end = Never /\ (after = 0 \/ (pos + n <= begin + k /\ pos + n <= Never)),
           \/ pos >= begin /\ pos + n <= end
           \/ pos + n <= begin - before
           \/ end < Never /\ pos >= end + after,
           NEW i \in 1 .. n, NEW j \in (1 - before) .. k + after, j = (pos - begin) + i
    PROVE  x[i] = IF j <= 0 THEN first ELSE IF j <= k THEN a[j] ELSE last
<1>1. j \in 1 .. k
  <2>1. CASE pos >= begin /\ pos + n <= end
    BY <2>1
  <2>2. CASE pos + n <= begin - before
    BY <2>2
  <2>3. CASE end < Never /\ pos >= end + after
    <3> HIDE DEF Never
    <3>1. end = begin + k
      BY <2>3
    <3> QED
      BY <2>3, <3>1
  <2> QED
    BY <2>1, <2>2, <2>3
<1>2. x[i] = a[j]
  BY <1>1
<1> QED
  BY <1>1, <1>2

LEMMA PadShows ==
    ASSUME AtWork, Node.kind = "pad", NEW x \in [1 .. In.pulse -> Int], NEW y,
           NEW st, NEW h, StateIsSound(Node, In, st, h),
           NEW a \in Seq(Int), a # <<>>,
           Shows(a, In.pulse, st.pos - In.delay, x), LastFollows(Node, In.delay, a, st),
           EndFollows(In.delay, Node.after, Len(a), st.pos, In.pulse)
    PROVE  /\ Shows(Padded(a, Node.before, Node.after, Node.mode, Node.value), In.pulse,
                    st.pos - Out.delay, Answered(st, x, y))
           /\ LastFollows(Node, In.delay, a, Moved(st, x))
<1> DEFINE n == In.pulse
           pos == st.pos
           begin == In.delay
           before == Node.before
           after == Node.after
           end == End
           mode == Node.mode
           value == Node.value
           k == Len(a)
           seen == LastSeen(st, x, End)
           head == PadHead(pos, n)
           tail == PadTail(pos, n, End)
           answer == Answered(st, x, y)
           c == Padded(a, before, after, mode, value)
           o == Node.overlap
           last == st.last
<1>1. /\ n \in Nat \ {0} /\ begin \in Nat /\ value \in Int /\ before \in Nat /\ after \in Nat
      /\ Out.delay = begin - before /\ Node.begin = begin /\ o \in Nat /\ (mode = "edge" => o = 0)
  <2>1. n \in Nat \ {0} /\ begin \in Nat /\ IsNode(Node, PastIn, In, Out)
    BY AtWorkIs
  <2> QED
    BY <2>1 DEF IsNode
<1>2. pos \in Nat /\ last \in Int /\ end \in Int /\ x \in [1 .. n -> Int]
  BY EndIsInt DEF StateIsSound
<1>3. k \in Nat \ {0} /\ a \in [1 .. k -> Int] /\ DOMAIN a = 1 .. k
  OBVIOUS
<1>4. seen \in Int
      /\ seen = IF mode = "edge" /\ after # 0 /\ pos < end
                THEN x[IF end - pos <= n THEN end - pos ELSE n] ELSE last
  <2>1. n \in Nat \ {0} /\ x \in [1 .. n -> Int] /\ st.pos \in Nat /\ st.last \in Int /\ End \in Int
    BY <1>1, <1>2
  <2> QED
    BY <2>1, LastSeenIs
<1>5. \A p \in 1 .. n : (pos - begin) + p \in 1 .. k => x[p] = a[(pos - begin) + p]
  BY <1>3 DEF Shows
<1>6. \/ end = begin + k
      \/ end = Never /\ (after = 0 \/ (pos + n <= begin + k /\ pos + n <= Never))
  BY DEF EndFollows
<1>7. mode = "edge" /\ after > 0 /\ pos > begin => last = a[IF pos - begin <= k THEN pos - begin ELSE k]
  BY DEF LastFollows
<1>8. head = IF pos < begin THEN IF begin - pos <= n THEN begin - pos ELSE n ELSE 0
  BY <1>1 DEF PadHead
<1>9. tail = IF pos + n > end /\ after > 0 THEN IF pos + n - end <= n THEN end - pos ELSE 0 ELSE n
  BY DEF PadTail
<1>10. ~PadForwards(pos, n, End) /\ mode = "edge" /\ head # 0 => head + 1 \in 1 .. n /\ head = begin - pos
  BY EdgeIsThere
<1>11. answer = PadAnswer(st, x, n) /\ Moved(st, x) = [pos |-> pos + (n - o), last |-> seen]
  BY PadIs
<1>12. PadAnswer(st, x, n)
           = IF PadForwards(pos, n, End) THEN x
             ELSE [i \in 1 .. n |->
                     IF i > tail THEN IF mode = "edge" THEN seen ELSE value
                     ELSE IF i <= head THEN IF mode = "edge" THEN x[head + 1] ELSE value
                     ELSE x[i]]
  BY DEF PadAnswer
<1>13. PadForwards(pos, n, End) <=>
         \/ pos >= begin /\ pos + n <= end
         \/ pos + n <= begin - before
         \/ end < Never /\ pos >= end + after
  BY <1>1 DEF PadForwards
<1>14. /\ Len(c) = k + (before + after) /\ c \in Seq(Int)
       /\ \A i \in 1 .. k + (before + after) :
             c[i] = IF i <= before THEN IF mode = "edge" THEN a[1] ELSE value
                    ELSE IF i <= before + k THEN a[i - before]
                    ELSE IF mode = "edge" THEN a[k] ELSE value
  <2>1. a \in Seq(Int) /\ a # <<>> /\ before \in Nat /\ after \in Nat /\ value \in Int
    BY <1>1
  <2> HIDE DEF before, after, value, mode
  <2> QED
    BY <2>1, PaddedIs
<1>15. DOMAIN c = 1 .. k + (before + after)
  BY <1>14
<1>16. head \in Int /\ tail \in Int
  <2> HIDE DEF head, tail, pos, n, begin, end, after
  <2> QED
    BY <1>1, <1>2, <1>8, <1>9
<1> HIDE DEF n, pos, begin, before, after, end, mode, value, k, seen, head, tail, answer, c, o, last
<1>17. a[1] \in Int /\ a[k] \in Int
  BY <1>3
<1>18. mode = "edge" /\ after > 0 =>
          /\ pos < end => seen = x[IF end - pos <= n THEN end - pos ELSE n]
          /\ ~(pos < end) => seen = a[k]
          /\ pos + n > begin => seen = a[IF (pos + n) - begin <= k THEN (pos + n) - begin ELSE k]
  <2> HAVE mode = "edge" /\ after > 0
  <2>1. /\ pos > begin => last = a[IF pos - begin <= k THEN pos - begin ELSE k]
        /\ seen = IF pos < end THEN x[IF end - pos <= n THEN end - pos ELSE n] ELSE last
        /\ \/ end = begin + k
           \/ pos + n <= end /\ pos + n <= begin + k
    <3> HIDE DEF Never
    <3> QED
      BY <1>1, <1>4, <1>6, <1>7
  <2>2. /\ ~(pos < end) => seen = a[k]
        /\ pos + n > begin => seen = a[IF (pos + n) - begin <= k THEN (pos + n) - begin ELSE k]
    BY <1>1, <1>2, <1>3, <1>5, <2>1, SeenFollows
  <2> QED
    BY <2>1, <2>2
<1>19. ASSUME NEW i \in 1 .. n, (pos - (begin - before)) + i \in DOMAIN c
       PROVE  answer[i] = c[(pos - (begin - before)) + i]
  <2> DEFINE j == (pos - begin) + i
             m == (pos - (begin - before)) + i
             first == IF mode = "edge" THEN a[1] ELSE value
             final == IF mode = "edge" THEN a[k] ELSE value
  <2>1. m = before + j /\ m \in 1 .. k + (before + after) /\ j \in (1 - before) .. k + after
        /\ j \in Int /\ (m <= before <=> j <= 0) /\ (m <= before + k <=> j <= k) /\ m - before = j
    BY <1>1, <1>2, <1>3, <1>15, <1>19
  <2>2. c[m] = IF j <= 0 THEN first ELSE IF j <= k THEN a[j] ELSE final
    <3> HIDE DEF m, j
    <3> QED
      BY <1>14, <2>1
  <2>3. answer[i] = IF j <= 0 THEN first ELSE IF j <= k THEN a[j] ELSE final
    <3>1. CASE PadForwards(pos, n, End)
      <4>1. answer[i] = x[i]
        BY <1>11, <1>12, <3>1
      <4>2. \/ pos >= begin /\ pos + n <= end
            \/ pos + n <= begin - before
            \/ end < Never /\ pos >= end + after
        BY <1>13, <3>1
      <4>3. first \in Int /\ final \in Int /\ j = (pos - begin) + i
        BY <1>1, <1>17
      <4> HIDE DEF first, final, j
      <4>4. x[i] = IF j <= 0 THEN first ELSE IF j <= k THEN a[j] ELSE final
        BY <1>1, <1>2, <1>3, <1>5, <1>6, <2>1, <4>2, <4>3, PadPasses
      <4> QED
        BY <4>1, <4>4
    <3>2. CASE ~PadForwards(pos, n, End)
      <4>1. answer = [p \in 1 .. n |->
                     IF p > tail THEN IF mode = "edge" THEN seen ELSE value
                     ELSE IF p <= head THEN IF mode = "edge" THEN x[head + 1] ELSE value
                     ELSE x[p]]
        BY <1>11, <1>12, <3>2
      <4>2. /\ mode = "edge" /\ head # 0 => head = begin - pos /\ head + 1 \in 1 .. n
            /\ mode = "edge" /\ after > 0 /\ pos < end => seen = x[IF end - pos <= n THEN end - pos ELSE n]
            /\ mode = "edge" /\ after > 0 /\ ~(pos < end) => seen = a[k]
        BY <1>10, <1>18, <3>2
      <4>3. \/ end = begin + k \/ after = 0
            \/ pos + n <= end /\ pos + n <= begin + k
        BY <1>6
      <4>4. tail = IF pos + n > end /\ after > 0 THEN IF (pos + n) - end <= n THEN end - pos ELSE 0 ELSE n
        BY <1>1, <1>2, <1>9
      <4>5. \A p \in 1 .. n :
              answer[p] = IF p > tail THEN IF mode = "edge" THEN seen ELSE value
                          ELSE IF p <= head THEN IF mode = "edge" THEN x[head + 1] ELSE value
                          ELSE x[p]
        BY <4>1
      <4>6. j = (pos - begin) + i
        OBVIOUS
      <4> HIDE DEF j
      <4>7. PadsHere(n, x, k, a, pos, begin, before, after, end, mode, value, seen, head, tail,
                    answer, i, j)
        BY <1>1, <1>2, <1>3, <1>4, <1>5, <1>8, <1>16, <2>1, <4>2, <4>3, <4>4, <4>5, <4>6 DEF PadsHere
      <4>8. answer[i] = IF j <= 0 THEN IF mode = "edge" THEN a[1] ELSE value
                       ELSE IF j <= k THEN a[j] ELSE IF mode = "edge" THEN a[k] ELSE value
        BY <4>7, PadGeneral
      <4> QED
        BY <4>8
    <3> QED
      BY <3>1, <3>2
  <2> QED
    BY <2>2, <2>3
<1>20. Shows(c, n, pos - (begin - before), answer)
  BY <1>19 DEF Shows
<1>21. LastFollows(Node, begin, a, Moved(st, x))
  <2> DEFINE new == pos + (n - o)
             lst == seen
  <2>1. mode = "edge" => new = pos + n
    BY <1>1, <1>2
  <2>2. mode = "edge" /\ after > 0 /\ new > begin => lst = a[IF new - begin <= k THEN new - begin ELSE k]
    <3> HAVE mode = "edge" /\ after > 0 /\ new > begin
    <3> HIDE DEF new
    <3> QED
      BY <1>18, <2>1
  <2>3. Moved(st, x).pos = new /\ Moved(st, x).last = lst
    BY <1>11
  <2> HIDE DEF new, lst
  <2> QED
    BY <2>2, <2>3 DEF LastFollows, mode, after, k
<1> QED
  BY <1>1, <1>20, <1>21 DEF c, n, pos, begin, before, after, value, mode, answer

-----------------------------------------------------------------------------
(* Running sums and scans.                                                   *)

\* A sum of some frames goes on with those after them.
GoesOn(k, a, start, m, rest, base, from) ==
    /\ k \in Nat /\ a \in [1 .. k -> Int] /\ start \in Int /\ m \in Nat /\ rest \in [1 .. m -> Int]
    /\ base \in 0 .. k /\ from \in Int /\ from = Sums(a, start)[base]
    /\ \A r \in 1 .. m : base + r \in 1 .. k => rest[r] = a[base + r]

LEMMA SumsGoOn ==
    ASSUME NEW k, NEW a, NEW start, NEW m, NEW rest, NEW base, NEW from,
           GoesOn(k, a, start, m, rest, base, from)
    PROVE  \A q \in 0 .. m : base + q <= k => Sums(rest, from)[q] = Sums(a, start)[base + q]
<1> USE DEF GoesOn
<1> DEFINE f == Sums(rest, from)
           g == Sums(a, start)
           Good == {q \in 0 .. m : base + q <= k => f[q] = g[base + q]}
<1>1. rest \in Seq(Int) /\ Len(rest) = m /\ a \in Seq(Int) /\ Len(a) = k
  BY ListedIsASequence
<1>2. f[0] = from /\ \A q \in 1 .. m : f[q] = f[q - 1] + rest[q]
  BY <1>1, SumsAre
<1>3. \A q \in 1 .. k : g[q] = g[q - 1] + a[q]
  BY <1>1, SumsAre
<1> HIDE DEF f, g
<1>4. 0 \in Good
  <2>1. base + 0 = base /\ f[0] = g[base]
    BY <1>2 DEF f, g
  <2> QED
    BY <2>1
<1>5. ASSUME NEW q \in 1 .. m, q - 1 \in Good PROVE q \in Good
  <2> SUFFICES ASSUME base + q <= k PROVE f[q] = g[base + q]
    OBVIOUS
  <2>1. f[q - 1] = g[base + (q - 1)]
    BY <1>5
  <2> DEFINE p == base + q
  <2>2. p \in 1 .. k /\ p - 1 = base + (q - 1)
    OBVIOUS
  <2>3. rest[q] = a[p]
    BY <2>2
  <2> HIDE DEF p
  <2>4. g[p] = g[p - 1] + a[p]
    BY <1>3, <2>2
  <2>5. f[q] = f[q - 1] + rest[q]
    BY <1>2
  <2> QED
    BY <2>1, <2>2, <2>3, <2>4, <2>5 DEF p
<1>6. \A q \in 0 .. m : q \in Good
  <2>1. m \in Nat /\ \A q \in 0 .. m - 1 : q + 1 \in 1 .. m /\ (q + 1) - 1 = q
    OBVIOUS
  <2>2. \A q \in 0 .. m - 1 : q \in Good => q + 1 \in Good
    <3> HIDE DEF Good
    <3> QED
      BY <1>5, <2>1
  <2> HIDE DEF Good
  <2> QED
    BY <1>4, <2>1, <2>2, UpTo
<1> QED
  BY <1>6 DEF f, g

\* The pulse of a running sum that has left out the frames before the stream.
Runs(n, x, k, a, skip, pos, start, from, late, rest) ==
    /\ n \in Nat \ {0} /\ x \in [1 .. n -> Int] /\ k \in Nat /\ a \in [1 .. k -> Int]
    /\ skip \in Nat /\ pos \in Nat /\ start \in Int /\ from \in Int
    /\ \A p \in 1 .. n : (pos - skip) + p \in 1 .. k => x[p] = a[(pos - skip) + p]
    /\ late = IF pos >= skip THEN 0 ELSE IF skip - pos <= n THEN skip - pos ELSE n
    /\ rest \in [1 .. n - late -> Int] /\ \A i \in 1 .. n - late : rest[i] = x[late + i]
    /\ (IF pos > skip THEN pos - skip ELSE 0) <= k =>
           from = Sums(a, start)[IF pos > skip THEN pos - skip ELSE 0]

LEMMA RunGoesOn ==
    ASSUME NEW n, NEW x, NEW k, NEW a, NEW skip, NEW pos, NEW start, NEW from, NEW late, NEW rest,
           Runs(n, x, k, a, skip, pos, start, from, late, rest),
           NEW base, base = (IF pos > skip THEN pos - skip ELSE 0)
    PROVE  /\ late \in 0 .. n /\ n - late \in Nat /\ base \in Nat
           /\ \A q \in 0 .. n - late : base + q <= k =>
                 Sums(rest, from)[q] = Sums(a, start)[base + q]
<1> USE DEF Runs
<1> DEFINE m == n - late
<1>1. late \in 0 .. n /\ m \in Nat /\ base \in Nat /\ (m # 0 => base = (pos - skip) + late)
  OBVIOUS
<1>2. \A r \in 1 .. m : base + r \in 1 .. k => rest[r] = a[base + r]
  <2> TAKE r \in 1 .. m
  <2> HAVE base + r \in 1 .. k
  <2> DEFINE p == late + r
  <2>1. p \in 1 .. n /\ (pos - skip) + p = base + r /\ rest[r] = x[p]
    BY <1>1
  <2> HIDE DEF p
  <2>2. x[p] = a[(pos - skip) + p]
    BY <2>1
  <2> QED
    BY <2>1, <2>2
<1>3. ASSUME base <= k
      PROVE  \A q \in 0 .. m : base + q <= k => Sums(rest, from)[q] = Sums(a, start)[base + q]
  <2>1. /\ k \in Nat /\ a \in [1 .. k -> Int] /\ start \in Int /\ rest \in [1 .. m -> Int]
        /\ base \in 0 .. k /\ from \in Int /\ m \in Nat
    BY <1>1, <1>3
  <2>2. from = Sums(a, start)[base]
    BY <1>3
  <2> HIDE DEF m, Runs
  <2> QED
    <3>1. GoesOn(k, a, start, m, rest, base, from)
      BY <1>2, <2>1, <2>2 DEF GoesOn
    <3> QED
      BY <3>1, SumsGoOn
<1>4. \A q \in 0 .. m : base + q <= k => base <= k
  BY <1>1
<1> QED
  BY <1>1, <1>3, <1>4

LEMMA RunShows ==
    ASSUME NEW n, NEW x, NEW k, NEW a, NEW skip, NEW pos, NEW start, NEW from, NEW late, NEW rest,
           Runs(n, x, k, a, skip, pos, start, from, late, rest), NEW value \in Int,
           NEW exclusive
    PROVE  Shows(Cumulated(a, start, exclusive), n, pos - skip,
                 Constantly(late, value) \o Cumulated(rest, from, exclusive))
<1> DEFINE m == n - late
           base == IF pos > skip THEN pos - skip ELSE 0
           f == Sums(rest, from)
           g == Sums(a, start)
           first == Constantly(late, value)
           then == [i \in 1 .. m |-> f[IF exclusive THEN i - 1 ELSE i]]
<1>1. /\ late \in 0 .. n /\ m \in Nat /\ base \in Nat
      /\ \A q \in 0 .. m : base + q <= k => f[q] = g[base + q]
  BY RunGoesOn
<1>2. /\ rest \in Seq(Int) /\ Len(rest) = m /\ from \in Int
  <2>1. m \in Nat /\ rest \in [1 .. m -> Int] /\ from \in Int
    BY <1>1 DEF Runs
  <2> HIDE DEF m
  <2> QED
    BY <2>1, ListedIsASequence
<1>3. then \in Seq(Int) /\ Len(then) = m
  <2>1. \A q \in 0 .. m : f[q] \in Int
    BY <1>2, SumsAre
  <2> HIDE DEF m, f
  <2>2. then \in [1 .. m -> Int]
    BY <1>1, <2>1
  <2> HIDE DEF then
  <2> QED
    BY <1>1, <2>2, ListedIsASequence
<1>4. first \in Seq(Int) /\ Len(first) = late
  <2>1. late \in Nat
    BY <1>1 DEF Runs
  <2> QED
    BY <2>1, ConstantlyIs
<1>5. ASSUME NEW p \in 1 .. n, (pos - skip) + p \in 1 .. k
      PROVE  (first \o then)[p]
                 = g[IF exclusive THEN ((pos - skip) + p) - 1 ELSE (pos - skip) + p]
  <2> DEFINE q == p - late
             j == (pos - skip) + p
  <2>1. q \in 1 .. m /\ base + q = j /\ n \in Nat /\ p = late + q /\ j \in Int /\ k \in Int
    BY <1>1, <1>5 DEF Runs
  <2>2. (first \o then)[p] = then[q]
    <3> HIDE DEF q, first, then
    <3>1. \A z \in 1 .. Len(then) : (first \o then)[Len(first) + z] = then[z]
      BY <1>3, <1>4, JoinedIs
    <3> QED
      BY <1>3, <1>4, <2>1, <3>1
  <2>3. then[q] = f[IF exclusive THEN q - 1 ELSE q]
    <3> HIDE DEF q, m, f
    <3> QED
      BY <2>1
  <2> DEFINE z == IF exclusive THEN q - 1 ELSE q
  <2>4. z \in 0 .. m /\ base + z <= k /\ base + z = IF exclusive THEN j - 1 ELSE j
    <3> HIDE DEF base, q, j, m
    <3> QED
      BY <1>1, <1>5, <2>1 DEF j
  <2> HIDE DEF z, base, m, f, g
  <2>5. f[z] = g[base + z]
    BY <1>1, <2>4
  <2> QED
    BY <2>2, <2>3, <2>4, <2>5 DEF z
<1>6. /\ Cumulated(a, start, exclusive) = [i \in 1 .. k |-> g[IF exclusive THEN i - 1 ELSE i]]
      /\ Cumulated(rest, from, exclusive) = then
  <2>1. Len(a) = k
    <3>1. k \in Nat /\ a \in [1 .. k -> Int]
      BY DEF Runs
    <3> QED
      BY <3>1, ListedIsASequence
  <2> QED
    BY <1>2, <2>1 DEF Cumulated
<1> HIDE DEF first, then, g
<1>7. \A p \in 1 .. n : (pos - skip) + p \in DOMAIN Cumulated(a, start, exclusive) =>
         (first \o then)[p] = Cumulated(a, start, exclusive)[(pos - skip) + p]
  BY <1>5, <1>6
<1> QED
  BY <1>6, <1>7, Zenon DEF Shows, first

\* What has been summed of a stream, at some position of its wire.
SumFollows(skip, a, start, pos, from) ==
    LET base == IF pos > skip THEN pos - skip ELSE 0
    IN  base <= Len(a) => from = Sums(a, start)[base]

LEMMA RunningShows ==
    ASSUME AtWork, Node.kind \in {"cumsum", "scan"}, NEW x \in [1 .. In.pulse -> Int],
           NEW st, st.pos \in Nat, NEW from \in Int, NEW start \in Int, NEW a \in Seq(Int),
           Shows(a, In.pulse, st.pos - In.delay, x),
           SumFollows(In.delay, a, start, st.pos, from), NEW value \in Int
    PROVE  /\ Shows(Cumulated(a, start, FALSE), In.pulse, st.pos - In.delay,
                    Constantly(Skipped(st, x), value) \o Cumulated(Rest(st, x), from, FALSE))
           /\ Shows(Cumulated(a, start, TRUE), In.pulse, st.pos - In.delay,
                    Constantly(Skipped(st, x), value) \o Cumulated(Rest(st, x), from, TRUE))
           /\ SumFollows(In.delay, a, start, st.pos + In.pulse,
                         Last(<<from>> \o Cumulated(Rest(st, x), from, FALSE)))
<1> DEFINE n == In.pulse
           skip == In.delay
           pos == st.pos
           k == Len(a)
           late == Skipped(st, x)
           rest == Rest(st, x)
           m == n - late
           base == IF pos > skip THEN pos - skip ELSE 0
           then == IF pos + n > skip THEN (pos + n) - skip ELSE 0
           last == Last(<<from>> \o Cumulated(rest, from, FALSE))
<1>1. n \in Nat \ {0} /\ skip \in Nat /\ pos \in Nat
  BY AtWorkIs
<1>2. k \in Nat /\ a \in [1 .. k -> Int] /\ DOMAIN a = 1 .. k
  OBVIOUS
<1>3. /\ late \in 0 .. n
      /\ late = IF Positive(skip - pos) <= n THEN Positive(skip - pos) ELSE n
      /\ rest \in [1 .. n - late -> Int] /\ \A i \in 1 .. n - late : rest[i] = x[late + i]
  BY RestIs
<1>4. \A p \in 1 .. n : (pos - skip) + p \in 1 .. k => x[p] = a[(pos - skip) + p]
  BY <1>2 DEF Shows
<1>5. base <= k => from = Sums(a, start)[base]
  BY DEF SumFollows
<1>6. x \in [1 .. n -> Int]
  OBVIOUS
<1> HIDE DEF n, skip, pos, k, late, rest
<1>7. late = IF pos >= skip THEN 0 ELSE IF skip - pos <= n THEN skip - pos ELSE n
  BY <1>1, <1>3 DEF Positive
<1>8. Runs(n, x, k, a, skip, pos, start, from, late, rest)
  <2>1. (IF pos > skip THEN pos - skip ELSE 0) <= k =>
           from = Sums(a, start)[IF pos > skip THEN pos - skip ELSE 0]
    BY <1>5
  <2> QED
    BY <1>1, <1>2, <1>3, <1>4, <1>6, <1>7, <2>1, Zenon DEF Runs
<1>9. /\ m \in Nat /\ base \in Nat
      /\ \A q \in 0 .. m : base + q <= k => Sums(rest, from)[q] = Sums(a, start)[base + q]
  BY <1>8, RunGoesOn
<1>10. base + m = then
  BY <1>1, <1>7, <1>9
<1>11. last = Sums(rest, from)[m] /\ Len(rest) = m
  <2>1. m \in Nat /\ rest \in [1 .. m -> Int] /\ from \in Int
    BY <1>3, <1>9
  <2> HIDE DEF m
  <2> QED
    BY <2>1, LastSumIs, ListedIsASequence
<1>12. SumFollows(skip, a, start, pos + n, last)
  <2>1. then <= k => last = Sums(a, start)[then]
    <3> HIDE DEF m, base, then, last
    <3>1. m \in 0 .. m
      BY <1>9
    <3> QED
      BY <1>9, <1>10, <1>11, <3>1
  <2> QED
    BY <2>1 DEF SumFollows, k
<1>13. /\ Shows(Cumulated(a, start, FALSE), n, pos - skip,
                Constantly(late, value) \o Cumulated(rest, from, FALSE))
       /\ Shows(Cumulated(a, start, TRUE), n, pos - skip,
                Constantly(late, value) \o Cumulated(rest, from, TRUE))
  BY <1>8, RunShows
<1> QED
  BY <1>12, <1>13, Zenon DEF n, skip, pos, late, rest, last

\* Frames out of the stream are silenced, if by then its end is known, or all of
\* the pulse before it.
MaskEnd(a, delay, pos, n, end) ==
    \/ end = delay + Len(a)
    \/ end = Never /\ pos + n <= delay + Len(a) /\ pos + n <= Never

LEMMA MaskShows ==
    ASSUME NEW n \in Nat, NEW x \in [1 .. n -> Int], NEW a \in Seq(Int), NEW delay \in Nat,
           NEW pos \in Nat, Shows(a, n, pos - delay, x), NEW end, MaskEnd(a, delay, pos, n, end),
           NEW answer, answer = [i \in 1 .. n |-> IF pos + i \in delay + 1 .. end THEN x[i] ELSE Silence]
    PROVE  Shows(InSilence(a, delay), n, pos - delay, answer)
<1> DEFINE c == InSilence(a, delay)
           m == Len(a)
<1> SUFFICES ASSUME NEW p \in 1 .. n PROVE answer[p] = c[(pos - delay) + p]
  BY DEF Shows
<1> DEFINE k == (pos - delay) + p
<1>1. k = (pos + p) - delay /\ pos + p \in Nat \ {0} /\ k \in Int /\ k + delay = pos + p
  OBVIOUS
<1>2. c[k] = IF k \in 1 .. m THEN a[k] ELSE 0
  <2> HIDE DEF c, k
  <2> QED
    BY <1>1, InSilenceIs DEF c
<1>3. m \in Nat /\ DOMAIN a = 1 .. m
  OBVIOUS
<1>4. pos + p \in delay + 1 .. end <=> k \in 1 .. m
  <2> HIDE DEF k, m
  <2>1. end = delay + m \/ (end = Never /\ pos + n <= delay + m /\ pos + n <= Never)
    BY DEF MaskEnd, m
  <2>2. Never \in Int
    BY DEF Never
  <2> HIDE DEF Never
  <2>3. pos + p \in delay + 1 .. end <=> delay + 1 <= pos + p /\ pos + p <= end
    BY <1>1, <1>3, <2>1, <2>2
  <2>4. k \in 1 .. m <=> delay + 1 <= pos + p /\ pos + p <= delay + m
    BY <1>1, <1>3
  <2>5. pos + p <= pos + n
    OBVIOUS
  <2> QED
    BY <1>1, <1>3, <2>1, <2>2, <2>3, <2>4, <2>5
<1>5. answer[p] = IF pos + p \in delay + 1 .. end THEN x[p] ELSE 0
  BY DEF Silence
<1>6. k \in 1 .. m => x[p] = a[k]
  BY <1>3 DEF Shows
<1> HIDE DEF k, c
<1> QED
  BY <1>2, <1>4, <1>5, <1>6 DEF k

\* A pulse is spread by itself.
LEMMA SpreadShows ==
    ASSUME NEW a, NEW delay \in Nat, DOMAIN a = {j \in Int : j + delay >= 1},
           NEW n \in Nat \ {0}, NEW t \in Nat, NEW x \in [1 .. n -> Int],
           Shows(a, n, FramesOf(t, n) - delay, x),
           NEW op, op.size \in Nat \ {0}, op.stride \in Nat \ {0},
           NEW m, m = SpreadLen(n, op.size, op.stride)
    PROVE  Shows(Chopped(a, op.size, op.stride, n, delay), m, FramesOf(t, m) - delay,
                 Deconvolved(x, op, op.stride - 1))
<1>1. FramesOf(t, n) \in Nat
  BY FramesOfIs
<1>2. x = PulseOf(a, t, n, delay)
  <2>1. ASSUME NEW i \in 1 .. n PROVE x[i] = a[(t * n + i) - delay]
    <3>1. (FramesOf(t, n) - delay) + i \in DOMAIN a
      BY <1>1
    <3>2. (FramesOf(t, n) - delay) + i = (t * n + i) - delay
      <4> DEFINE z == t * n
      <4>1. FramesOf(t, n) = z /\ z \in Nat /\ i \in Int
        BY <1>1 DEF FramesOf
      <4> HIDE DEF z
      <4>2. (z - delay) + i = (z + i) - delay
        BY <4>1
      <4>3. (FramesOf(t, n) - delay) + i = (z - delay) + i
        BY <4>1, Zenon
      <4> QED
        BY <4>2, <4>3, Zenon DEF z
    <3> QED
      BY <3>1, <3>2 DEF Shows
  <2>2. x = [i \in 1 .. n |-> x[i]]
    OBVIOUS
  <2> QED
    BY <2>1, <2>2 DEF PulseOf
<1>3. Deconvolved(x, op, op.stride - 1) = Spread(a, op.size, op.stride, n, delay, t)
  <2>1. Kernel(op.size, op.stride).size = op.size /\ Kernel(op.size, op.stride).stride = op.stride
    BY DEF Kernel
  <2>2. Deconvolved(x, op, op.stride - 1) = Deconvolved(x, Kernel(op.size, op.stride), op.stride - 1)
    BY <2>1, Zenon DEF Deconvolved
  <2> QED
    BY <1>2, <2>2, Zenon DEF Spread
<1> SUFFICES ASSUME NEW i \in 1 .. m
             PROVE  Spread(a, op.size, op.stride, n, delay, t)[i]
                       = Chopped(a, op.size, op.stride, n, delay)[(FramesOf(t, m) - delay) + i]
  BY <1>3 DEF Shows
<1> QED
  BY ChoppedIs

-----------------------------------------------------------------------------
(* What comes of a pulse of spread frames is added to what the ones before   *)
(* it left over.                                                             *)

\* Pulse t of what the frames of u, that are `delay' late, are laid to.
Overlays(u, n, stride, over, delay, a, t, x) ==
    /\ u \in Seq(Int) /\ n \in Nat \ {0} /\ stride \in Nat \ {0} /\ over \in Nat /\ delay \in Nat
    /\ t \in Nat /\ a = Chopped(InSilence(u, delay), over + 1, stride, n, delay)
    /\ Shows(a, SpreadLen(n, over + 1, stride),
             FramesOf(t, SpreadLen(n, over + 1, stride)) - delay, x)
\* What the first k frames make at place i of pulse t.
LaidAt(u, n, stride, over, delay, k, t, i) ==
    Laid(InSilence(u, delay), over + 1, stride, delay, k, Place(t, n, stride, i))

LEMMA OverlaysSpread ==
    ASSUME NEW u, NEW n, NEW stride, NEW over, NEW delay, NEW a, NEW t, NEW x,
           Overlays(u, n, stride, over, delay, a, t, x), NEW i \in 1 .. SpreadLen(n, over + 1, stride)
    PROVE  x[i] = Spread(InSilence(u, delay), over + 1, stride, n, delay, t)[i]
<1> DEFINE m == InSilence(u, delay)
           size == over + 1
           k == (FramesOf(t, SpreadLen(n, size, stride)) - delay) + i
<1>1. /\ n \in Nat \ {0} /\ stride \in Nat \ {0} /\ delay \in Nat /\ t \in Nat /\ size \in Nat \ {0}
      /\ a = Chopped(m, size, stride, n, delay)
      /\ Shows(a, SpreadLen(n, size, stride), FramesOf(t, SpreadLen(n, size, stride)) - delay, x)
  BY DEF Overlays
<1> HIDE DEF m, size
<1>2. k \in DOMAIN Chopped(m, size, stride, n, delay)
      /\ Chopped(m, size, stride, n, delay)[k] = Spread(m, size, stride, n, delay, t)[i]
  <2>1. k = (FramesOf(t, SpreadLen(n, size, stride)) - delay) + i /\ i \in 1 .. SpreadLen(n, size, stride)
    BY DEF size
  <2> HIDE DEF k
  <2> QED
    BY <1>1, <2>1, ChoppedIs
<1>3. x[i] = a[k]
  BY <1>1, <1>2 DEF Shows, size
<1> QED
  BY <1>1, <1>2, <1>3 DEF m, size

\* What is cut off past the end is silence.
LEMMA CutIsSilent ==
    ASSUME NEW u, NEW n, NEW stride, NEW over, NEW delay, NEW a, NEW t, NEW x,
           Overlays(u, n, stride, over, delay, a, t, x), NEW i \in 1 .. SpreadLen(n, over + 1, stride),
           IsScaled(stride, delay), NEW len \in Int, SpreadsOver(Len(u), over + 1, stride, 0, len),
           Place(t, n, stride, i) - delay > len
    PROVE  x[i] = 0
<1>1. x[i] = Spread(InSilence(u, delay), over + 1, stride, n, delay, t)[i]
  BY OverlaysSpread
<1>2. /\ u \in Seq(Int) /\ n \in Nat \ {0} /\ stride \in Nat \ {0} /\ over + 1 \in Nat \ {0}
      /\ delay \in Nat /\ t \in Nat
  BY DEF Overlays
<1> DEFINE size == over + 1
<1> HIDE DEF size
<1> QED
  BY <1>1, <1>2, SpreadIsCut DEF size

LEMMA LaidPastPlace ==
    ASSUME NEW m, NEW size \in Nat \ {0}, NEW stride \in Nat \ {0},
           NEW delay \in Int, Sounds(m, delay), NEW t \in Nat, NEW n \in Nat \ {0},
           NEW i \in Nat, i >= size
    PROVE  Laid(m, size, stride, delay, FramesOf(t, n), Place(t, n, stride, i)) = 0
<1> DEFINE k == FramesOf(t, n)
<1>1. k \in Nat
  BY FramesOfIs
<1> HIDE DEF k
<1>2. Outruns(m, size, stride, delay, k, Place(t, n, stride, i))
  BY <1>1 DEF Outruns, Place, k
<1> QED
  BY <1>2, LaidPast, Zenon DEF k

LEMMA MergeIs ==
    ASSUME NEW u, NEW n, NEW stride, NEW over, NEW delay, NEW a, NEW t, NEW x,
           Overlays(u, n, stride, over, delay, a, t, x), NEW i \in 1 .. SpreadLen(n, over + 1, stride),
           NEW b, i <= over => b = LaidAt(u, n, stride, over, delay, FramesOf(t, n), t, i),
           i > over => b = 0
    PROVE  x[i] + b = LaidAt(u, n, stride, over, delay, FramesOf(t + 1, n), t, i)
<1> DEFINE m == InSilence(u, delay)
           size == over + 1
           k == FramesOf(t, n)
           p == Place(t, n, stride, i)
<1>1. /\ u \in Seq(Int) /\ n \in Nat \ {0} /\ stride \in Nat \ {0} /\ size \in Nat \ {0}
      /\ delay \in Nat /\ t \in Nat /\ over \in Nat
  BY DEF Overlays
<1>2. Sounds(m, delay)
  BY <1>1, InSilenceIs
<1>3. x[i] = Spread(m, size, stride, n, delay, t)[i]
  BY OverlaysSpread
<1>4. i \in Nat /\ i >= 1
  <2>1. SpreadLen(n, size, stride) \in Nat
    BY <1>1, SpreadLenIs
  <2> QED
    BY <2>1
<1>5. k \in Nat /\ FramesOf(t + 1, n) = k + n
  BY <1>1, FramesOfIs
<1>6. b = Laid(m, size, stride, delay, k, p)
  <2>1. CASE i <= over
    BY <2>1 DEF LaidAt
  <2>2. CASE ~(i <= over)
    <3>1. i > over /\ i >= size
      BY <1>1, <1>4, <2>2
    <3>2. i \in Nat /\ delay \in Int
      BY <1>1, <1>4
    <3> HIDE DEF m, size
    <3> QED
      BY <1>1, <1>2, <2>2, <3>1, <3>2, LaidPastPlace
  <2> QED
    BY <2>1, <2>2
<1>7. /\ Spread(m, size, stride, n, delay, t)[i] \in Int /\ Laid(m, size, stride, delay, k, p) \in Int
      /\ Laid(m, size, stride, delay, k + n, p)
            = Laid(m, size, stride, delay, k, p) + Spread(m, size, stride, n, delay, t)[i]
  <2> HIDE DEF m
  <2>1. i \in 1 .. SpreadLen(n, size, stride) /\ delay \in Int
    BY <1>1
  <2> HIDE DEF size
  <2> QED
    BY <1>1, <1>2, <2>1, LaidByPulse
<1>8. LaidAt(u, n, stride, over, delay, FramesOf(t + 1, n), t, i) = Laid(m, size, stride, delay, k + n, p)
  BY <1>5 DEF LaidAt
<1> DEFINE v == Spread(m, size, stride, n, delay, t)[i]
           w == Laid(m, size, stride, delay, k, p)
<1>9. v \in Int /\ w \in Int
  BY <1>7
<1> HIDE DEF v, w
<1>10. x[i] + b = w + v
  BY <1>3, <1>6, <1>9 DEF v, w
<1> QED
  BY <1>7, <1>8, <1>10 DEF v, w

\* And what has been laid by then is what the whole stream is spread to.
LEMMA MergedIsSpread ==
    ASSUME NEW u, NEW n, NEW stride, NEW over, NEW delay, NEW a, NEW t, NEW x,
           Overlays(u, n, stride, over, delay, a, t, x), NEW i \in 1 .. n * stride,
           IsScaled(stride, delay), NEW len, SpreadsOver(Len(u), over + 1, stride, 0, len),
           Place(t, n, stride, i) - delay \in 1 .. len
    PROVE  LaidAt(u, n, stride, over, delay, FramesOf(t + 1, n), t, i)
              = Deconvolved(u, Kernel(over + 1, stride), 0)[Place(t, n, stride, i) - delay]
<1> DEFINE size == over + 1
           k == FramesOf(t + 1, n)
           p == Place(t, n, stride, i)
<1>1. /\ u \in Seq(Int) /\ n \in Nat \ {0} /\ stride \in Nat \ {0} /\ size \in Nat \ {0}
      /\ delay \in Nat /\ t \in Nat /\ over \in Nat
  BY DEF Overlays
<1>2. i \in Int /\ i <= n * stride
  <2> DEFINE z == n * stride
  <2>1. z \in Nat /\ i \in 1 .. z
    BY <1>1
  <2> HIDE DEF z
  <2> QED
    BY <2>1 DEF z
<1>3. p \in Int
  BY <1>1, <1>2, PlaceIs
<1>4. k \in Nat /\ IsOver(stride, p, k)
  <2> DEFINE y == FramesOf(t, n)
             e == y * stride
             f == n * stride
  <2>1. y \in Nat /\ k = y + n
    BY <1>1, FramesOfIs
  <2>2. p = e + i
    BY DEF Place
  <2> HIDE DEF p, k, y
  <2>3. k * stride = e + f
    BY <1>1, <2>1
  <2>4. e \in Nat /\ f \in Nat /\ i <= f
    BY <1>1, <1>2, <2>1
  <2> HIDE DEF e, f
  <2>5. p <= k * stride
    BY <1>2, <2>2, <2>3, <2>4
  <2> QED
    BY <1>1, <2>1, <2>5 DEF IsOver
<1> HIDE DEF k, p, size
<1>5. Laid(InSilence(u, delay), size, stride, delay, k, p) = Deconvolved(u, Kernel(size, stride), 0)[p - delay]
  BY <1>1, <1>3, <1>4, LaidIsSpread DEF p, size
<1> QED
  BY <1>5 DEF LaidAt, k, p, size

(* A deconvolution's delay, told of the frames u that its input was spread   *)
(* from, n to a pulse.                                                     *)
Fits(node, in, u, n, a) ==
    /\ u \in Seq(Int) /\ n \in Nat \ {0} /\ in.pulse = n * node.stride + node.overlap
    /\ a = Chopped(InSilence(u, in.delay), node.overlap + 1, node.stride, n, in.delay)
\* What the pulses before pulse t have left over.
IsLeftOver(node, in, a, t, buffer) ==
    \A u, n : Fits(node, in, u, n, a) =>
        \A i \in 1 .. node.overlap :
            buffer[i] = LaidAt(u, n, node.stride, node.overlap, in.delay, FramesOf(t, n), t, i)
OverlayFollows(node, in, pos, st, a) ==
    \E t \in Nat :
       /\ pos = FramesOf(t, in.pulse)
       /\ st.valid = FramesOf(t, in.pulse - node.overlap) - node.delay
       /\ IsLeftOver(node, in, a, t, st.buffer)
\* The node at hand takes pulse t of its stream a, of which the frames v, m to a
\* pulse, are spread to c.
Overlaying(len, a, c, v, m, t, x, st) ==
    /\ AtWork /\ Node.kind = "deconvdelay" /\ IsScaled(Node.stride, In.delay)
    /\ t \in Nat /\ x \in [1 .. In.pulse -> Int] /\ st.buffer \in [1 .. Node.overlap -> Int]
    /\ Shows(a, In.pulse, FramesOf(t, In.pulse) - In.delay, x)
    /\ st.valid = FramesOf(t, Out.pulse) - Out.delay
    /\ IsLeftOver(Node, In, a, t, st.buffer)
    /\ Overlaid(Node, In, len, a, v, m) /\ SpreadTo(Node, In, Out, v, c)
    /\ len \in Lengths /\ (turn.s = Unbound \/ turn.s = len)
    /\ turn.s = Unbound => FramesOf(t, Out.pulse) + Out.pulse <= Never

LEMMA PlaceByPulse ==
    ASSUME NEW t \in Nat, NEW n \in Nat \ {0}, NEW stride \in Nat \ {0}, NEW i \in Int,
           NEW m, m = FramesOf(n, stride)
    PROVE  /\ Place(t, n, stride, i) = FramesOf(t, m) + i
           /\ Place(t + 1, n, stride, i) = Place(t, n, stride, m + i)
<1>1. m \in Nat
  BY FramesOfIs
<1>2. Place(t, n, stride, i) = t * (n * stride) + i
  BY PlaceMoves
<1>3. Place(t + 1, n, stride, i) = Place(t, n, stride, n * stride + i)
  BY PlaceMoves
<1> QED
  BY <1>2, <1>3, Zenon DEF FramesOf

\* A position is that of one pulse.
LEMMA SamePulses ==
    ASSUME NEW n \in Nat \ {0}, NEW t \in Nat, NEW u \in Nat, FramesOf(t, n) = FramesOf(u, n)
    PROVE  u = t
<1>1. ASSUME NEW i \in Nat, NEW j \in Nat, i < j PROVE FramesOf(i, n) < FramesOf(j, n)
  <2>1. (i + 1) * n <= j * n
    <3>1. i + 1 \in Int /\ j \in Int /\ n \in Nat /\ i + 1 <= j
      BY <1>1
    <3> QED
      BY <3>1, TimesGrows
  <2>2. FramesOf(i + 1, n) <= FramesOf(j, n)
    BY <2>1 DEF FramesOf
  <2>3. FramesOf(i + 1, n) = FramesOf(i, n) + n /\ FramesOf(i, n) \in Nat /\ FramesOf(j, n) \in Nat
    BY FramesOfIs
  <2> QED
    BY <2>2, <2>3
<1>2. FramesOf(t, n) \in Nat /\ FramesOf(u, n) \in Nat
  BY FramesOfIs
<1>3. ~(t < u) /\ ~(u < t)
  BY <1>1, <1>2
<1> QED
  BY <1>3

\* Before the first pulse nothing has been left over.
LEMMA NothingLaid ==
    ASSUME NEW u, NEW n \in Nat \ {0}, NEW stride, NEW over, NEW delay, NEW t, NEW i
    PROVE  FramesOf(0, n) = 0 /\ LaidAt(u, n, stride, over, delay, 0, t, i) = 0
<1> DEFINE p == Place(t, n, stride, i)
           y == [j \in 1 .. 0 |-> Tap(over + 1, Reach(stride, p, j), InSilence(u, delay)[j - delay])]
<1>1. FramesOf(0, n) = 0
  BY DEF FramesOf
<1>2. LaidAt(u, n, stride, over, delay, 0, t, i) = Total(y)
  BY Zenon DEF LaidAt, Laid
<1>3. y \in [1 .. 0 -> Int] /\ \A j \in 1 .. 0 : y[j] = 0
  OBVIOUS
<1> HIDE DEF y
<1>4. Total(y) = 0
  BY <1>3, TotalOfSilence, Zenon
<1> QED
  BY <1>1, <1>2, <1>4
LEMMA NothingLeftOver ==
    ASSUME NEW node, NEW in, NEW st, NEW a, node.overlap \in Nat, node.delay \in Nat,
           in.pulse \in Nat, in.pulse - node.overlap \in Nat,
           st = [valid |-> -node.delay, buffer |-> Constantly(node.overlap, Silence)]
    PROVE  OverlayFollows(node, in, 0, st, a)
<1>1. FramesOf(0, in.pulse) = 0 /\ FramesOf(0, in.pulse - node.overlap) = 0
  <2> DEFINE n == in.pulse
             m == in.pulse - node.overlap
  <2>1. n \in Nat /\ m \in Nat
    OBVIOUS
  <2> HIDE DEF n, m
  <2>2. FramesOf(0, n) = 0 /\ FramesOf(0, m) = 0
    BY <2>1 DEF FramesOf
  <2> QED
    BY <2>2 DEF n, m
<1>2. st.valid = 0 - node.delay /\ \A i \in 1 .. node.overlap : st.buffer[i] = 0
  BY DEF Constantly, Silence
<1>3. IsLeftOver(node, in, a, 0, st.buffer)
  <2> SUFFICES ASSUME NEW u, NEW n, Fits(node, in, u, n, a), NEW i \in 1 .. node.overlap
               PROVE  st.buffer[i] = LaidAt(u, n, node.stride, node.overlap, in.delay, FramesOf(0, n), 0, i)
    BY DEF IsLeftOver
  <2>1. n \in Nat \ {0}
    BY DEF Fits
  <2>2. FramesOf(0, n) = 0
    BY <2>1, NothingLaid
  <2>3. LaidAt(u, n, node.stride, node.overlap, in.delay, 0, 0, i) = 0
    BY <2>1, NothingLaid
  <2> QED
    BY <1>2, <2>2, <2>3
<1> QED
  BY <1>1, <1>2, <1>3 DEF OverlayFollows

LEMMA OverlayingIs ==
    ASSUME NEW len, NEW a, NEW c, NEW v, NEW m, NEW t, NEW x, NEW st,
           Overlaying(len, a, c, v, m, t, x, st)
    PROVE  /\ In.pulse \in Nat \ {0} /\ Out.pulse \in Nat \ {0} /\ In.delay \in Nat
           /\ Out.delay \in Nat /\ Out.delay >= In.delay /\ Node.delay = Out.delay
           /\ Node.overlap \in Nat /\ In.pulse = Out.pulse + Node.overlap
           /\ Node.stride \in Nat \ {0} /\ Node.inputDim \in [Lengths -> Int]
           /\ Fits(Node, In, v, m, a) /\ PastIn = 0
<1>1. AtWork /\ Node.kind = "deconvdelay" /\ Overlaid(Node, In, len, a, v, m)
  BY DEF Overlaying
<1>2. /\ In.pulse \in Nat \ {0} /\ Out.pulse \in Nat \ {0} /\ In.delay \in Nat /\ Out.delay \in Nat
      /\ IsNode(Node, PastIn, In, Out)
  BY <1>1, AtWorkIs
<1>3. Fits(Node, In, v, m, a)
  BY <1>1 DEF Overlaid, Fits
<1> QED
  BY <1>1, <1>2, <1>3 DEF IsNode, Dim

LEMMA FittingIs ==
    ASSUME NEW len, NEW a, NEW c, NEW v, NEW m, NEW t, NEW x, NEW st,
           Overlaying(len, a, c, v, m, t, x, st), NEW u, NEW n, Fits(Node, In, u, n, a)
    PROVE  /\ Overlays(u, n, Node.stride, Node.overlap, In.delay, a, t, x)
           /\ In.pulse = SpreadLen(n, Node.overlap + 1, Node.stride)
           /\ Out.pulse = FramesOf(n, Node.stride) /\ n \in Nat \ {0} /\ u \in Seq(Int)
<1> DEFINE over == Node.overlap
           z == Node.stride
           f == n * z
<1>1. /\ In.pulse \in Nat \ {0} /\ Out.pulse \in Nat \ {0} /\ In.delay \in Nat
      /\ over \in Nat /\ In.pulse = Out.pulse + over /\ z \in Nat \ {0}
  BY OverlayingIs
<1>2. /\ u \in Seq(Int) /\ n \in Nat \ {0} /\ In.pulse = f + over
      /\ a = Chopped(InSilence(u, In.delay), over + 1, z, n, In.delay)
  BY DEF Fits
<1>3. t \in Nat /\ Shows(a, In.pulse, FramesOf(t, In.pulse) - In.delay, x)
  BY DEF Overlaying
<1>4. SpreadLen(n, over + 1, z) = (f + (over + 1)) - 1
  BY DEF SpreadLen
<1>5. f \in Nat
  BY <1>1, <1>2
<1> DEFINE N == In.pulse
           S == Out.pulse
<1>6. N = f + over /\ N = S + over /\ S \in Nat
  BY <1>1, <1>2
<1>7. N = SpreadLen(n, over + 1, z) /\ S = f
  <2> HIDE DEF N, S, over, z, f
  <2> QED
    BY <1>1, <1>4, <1>5, <1>6
<1>8. Overlays(u, n, z, over, In.delay, a, t, x)
  <2> HIDE DEF over, z, f
  <2> QED
    BY <1>1, <1>2, <1>3, <1>7 DEF Overlays
<1> QED
  BY <1>2, <1>7, <1>8 DEF FramesOf

\* How much of a pulse comes after the end, as far as it is known.
PastEnd(st) == (st.valid + Out.pulse) - Eval(Node.inputDim, turn.s)

\* What the node clears is silent anyway.
LEMMA ClearedIsSilent ==
    ASSUME NEW len, NEW a, NEW c, NEW v, NEW m, NEW t, NEW x, NEW st,
           Overlaying(len, a, c, v, m, t, x, st),
           NEW i \in 1 .. In.pulse, PastEnd(st) > 0, i > In.pulse - PastEnd(st)
    PROVE  x[i] = 0
<1> DEFINE over == Node.overlap
           z == Node.stride
           d == Out.delay
           e == In.delay
           N == In.pulse
           S == Out.pulse
           b == FramesOf(t, S)
           dim == Node.inputDim[len]
           k == Len(v)
           r == (k - 1) * z
           past == PastEnd(st)
<1>1. /\ N \in Nat \ {0} /\ S \in Nat \ {0} /\ e \in Nat /\ d \in Nat /\ d >= e /\ over \in Nat
      /\ N = S + over /\ z \in Nat \ {0} /\ Node.inputDim \in [Lengths -> Int]
  BY OverlayingIs
<1>2. /\ Overlays(v, m, z, over, e, a, t, x) /\ N = SpreadLen(m, over + 1, z)
      /\ S = FramesOf(m, z) /\ m \in Nat \ {0}
  BY OverlayingIs, FittingIs
<1>3. /\ t \in Nat /\ st.valid = b - d /\ IsScaled(z, e) /\ v \in Seq(Int) /\ dim = r + 1
      /\ len \in Lengths /\ (turn.s = Unbound \/ turn.s = len)
      /\ turn.s = Unbound => b + S <= Never
  BY DEF Overlaying, Overlaid
<1>4. b \in Nat
  BY <1>1, <1>3, FramesOfIs
<1>5. past = ((b - d) + S) - dim
  <2>1. CASE turn.s = Unbound
    <3>1. past = ((b - d) + S) - Never
      BY <1>3, <2>1 DEF PastEnd, Eval
    <3>2. Never \in Int
      BY DEF Never
    <3> HIDE DEF b, d, S, past, Never
    <3>3. past <= 0
      BY <1>1, <1>3, <1>4, <2>1, <3>1, <3>2
    <3>4. past > 0 /\ past \in Int
      BY <1>1, <1>4, <3>1, <3>2 DEF past
    <3> QED
      BY <3>3, <3>4
  <2>2. CASE turn.s = len
    <3>1. len # Unbound
      BY <1>3, MaxLenAssumption DEF Lengths, Unbound
    <3> QED
      BY <1>3, <2>2, <3>1 DEF PastEnd, Eval
  <2> QED
    BY <1>3, <2>1, <2>2
<1>6. k \in Nat /\ k - 1 \in Int /\ r \in Int
  <2>1. k \in Nat
    BY <1>3
  <2> HIDE DEF k
  <2> QED
    BY <1>1, <2>1
<1>7. SpreadsOver(k, over + 1, z, 0, dim + over)
  <2> HIDE DEF over, dim
  <2>1. dim + over = r + (over + 1) + 0
    <3> HIDE DEF r
    <3> QED
      BY <1>1, <1>3, <1>6
  <2> QED
    BY <2>1 DEF SpreadsOver
<1>8. Place(t, m, z, i) = b + i /\ i \in Int
  <2>1. i \in Int
    BY <1>1
  <2> HIDE DEF z, S
  <2>2. Place(t, m, z, i) = FramesOf(t, S) + i
    BY <1>1, <1>2, <1>3, <2>1, PlaceByPulse
  <2> QED
    BY <2>1, <2>2
<1>9. Place(t, m, z, i) - e > dim + over /\ dim + over \in Int
  <2>1. i > N - past /\ dim \in Int
    BY <1>1, <1>3
  <2> HIDE DEF over, d, e, N, S, b, dim, past
  <2> QED
    BY <1>1, <1>4, <1>5, <1>8, <2>1
<1>10. i \in 1 .. SpreadLen(m, over + 1, z)
  BY <1>2
<1> DEFINE l == dim + over
<1>11. SpreadsOver(Len(v), over + 1, z, 0, l) /\ l \in Int /\ Place(t, m, z, i) - e > l
  BY <1>7, <1>9
<1> HIDE DEF l, over, z, e
<1> QED
  BY <1>2, <1>3, <1>10, <1>11, CutIsSilent

LEMMA PartIs ==
    ASSUME NEW n \in Nat, NEW x \in [1 .. n -> Int], NEW a \in Nat, NEW m \in Nat, a + m <= n,
           NEW b, b = a + m, NEW i \in 1 .. m
    PROVE  SubSeq(x, a + 1, b)[i] = x[a + i]
<1> DEFINE c == a + 1
<1>1. c \in Int /\ b \in Int /\ \A j \in c .. b : x[j] \in Int
  <2>1. c \in Int /\ b \in Int /\ \A j \in c .. b : j \in 1 .. n
    OBVIOUS
  <2> QED
    BY <2>1
<1>2. i \in 1 .. b - c + 1 /\ c + i - 1 = a + i
  OBVIOUS
<1> HIDE DEF c
<1>3. SubSeq(x, c, b)[i] = x[c + i - 1]
  BY <1>1, <1>2, SubSeqProperties
<1> QED
  BY <1>2, <1>3 DEF c

\* So that it adds up what it takes and what was left over.
LEMMA MergedHere ==
    ASSUME NEW len, NEW a, NEW c, NEW v, NEW m, NEW t, NEW x, NEW st,
           Overlaying(len, a, c, v, m, t, x, st)
    PROVE  /\ Merged(st, x) \in [1 .. In.pulse -> Int] /\ Len(x) = In.pulse
           /\ \A i \in 1 .. In.pulse :
                 Merged(st, x)[i] = x[i] + (IF i <= Node.overlap THEN st.buffer[i] ELSE 0)
<1> DEFINE N == In.pulse
           S == Out.pulse
           o == Node.overlap
           past == PastEnd(st)
           kept == IF past > 0 THEN Len(x) - Min({past, Len(x)}) ELSE Len(x)
           frame(i) == (IF i <= kept THEN x[i] ELSE Silence) + (IF i <= o THEN st.buffer[i] ELSE Silence)
<1>1. /\ N \in Nat \ {0} /\ S \in Nat \ {0} /\ o \in Nat /\ N = S + o
      /\ Node.inputDim \in [Lengths -> Int]
  BY OverlayingIs
<1>2. /\ x \in [1 .. N -> Int] /\ st.buffer \in [1 .. o -> Int] /\ t \in Nat
      /\ st.valid = FramesOf(t, S) - Out.delay /\ turn.s \in Bound
  BY DEF Overlaying, AtWork
<1>3. Len(x) = N
  BY <1>1, <1>2, ListedIsASequence
<1>4. past \in Int /\ past = st.valid + (S - Eval(Node.inputDim, turn.s))
  <2> DEFINE b == FramesOf(t, S)
             d == Out.delay
             e == Eval(Node.inputDim, turn.s)
             w == st.valid
  <2>1. b \in Nat /\ d \in Nat /\ e \in Int /\ w = b - d
    BY <1>1, <1>2, OverlayingIs, FramesOfIs, EvalIsInt
  <2> HIDE DEF b, d, e, w, S
  <2>2. (w + S) - e \in Int /\ (w + S) - e = w + (S - e)
    BY <1>1, <2>1
  <2> QED
    BY <2>2 DEF PastEnd, w, e, S
<1>5. Merged(st, x) = [i \in 1 .. N |-> frame(i)]
  <2>1. Len(x) - o = S
    BY <1>1, <1>3
  <2>2. past = st.valid + (Len(x) - o) - Eval(Node.inputDim, turn.s)
    <3> HIDE DEF past, S
    <3> QED
      BY <1>4, <2>1
  <2> HIDE DEF past
  <2> QED
    BY <1>3, <2>2, Zenon DEF Merged
<1>6. ASSUME NEW i \in 1 .. N
      PROVE  frame(i) = x[i] + (IF i <= o THEN st.buffer[i] ELSE 0)
             /\ x[i] + (IF i <= o THEN st.buffer[i] ELSE 0) \in Int
  <2>1. kept = IF past > 0 THEN IF past <= N THEN N - past ELSE 0 ELSE N
    <3>1. Min({past, N}) = IF past <= N THEN past ELSE N
      BY <1>1, <1>4, LeastOfTwo
    <3> HIDE DEF past, N
    <3> QED
      BY <1>1, <1>3, <1>4, <3>1
  <2>2. past > 0 /\ i > N - past => x[i] = 0
    BY ClearedIsSilent
  <2>3. ~(i <= kept) => x[i] = 0
    <3> HIDE DEF past, N, kept
    <3> QED
      BY <1>1, <1>4, <2>1, <2>2
  <2>4. (IF i <= kept THEN x[i] ELSE Silence) = x[i]
    BY <2>3 DEF Silence
  <2>5. x[i] \in Int /\ (IF i <= o THEN st.buffer[i] ELSE 0) \in Int
    <3>1. x[i] \in Int
      BY <1>2
    <3>2. i <= o => i \in 1 .. o
      BY <1>1
    <3>3. i <= o => st.buffer[i] \in Int
      BY <1>2, <3>2
    <3> QED
      BY <3>1, <3>3
  <2>6. frame(i) = x[i] + (IF i <= o THEN st.buffer[i] ELSE Silence)
    BY <2>4
  <2> QED
    BY <2>5, <2>6 DEF Silence
<1> HIDE DEF frame, N, o
<1>7. \A i \in 1 .. N : frame(i) \in Int /\ Merged(st, x)[i] = frame(i)
  BY <1>5, <1>6
<1>8. Merged(st, x) \in [1 .. N -> Int]
  BY <1>5, <1>7
<1> QED
  BY <1>3, <1>6, <1>7, <1>8 DEF N, o

\* Which is what all pulses so far have laid there.
LEMMA LaidHere ==
    ASSUME NEW len, NEW a, NEW c, NEW v, NEW m, NEW t, NEW x, NEW st,
           Overlaying(len, a, c, v, m, t, x, st), NEW u, NEW n, Fits(Node, In, u, n, a),
           NEW i \in 1 .. In.pulse
    PROVE  Merged(st, x)[i]
              = LaidAt(u, n, Node.stride, Node.overlap, In.delay, FramesOf(t + 1, n), t, i)
<1> DEFINE over == Node.overlap
           z == Node.stride
           e == In.delay
           b == IF i <= over THEN st.buffer[i] ELSE 0
<1>1. In.pulse \in Nat /\ over \in Nat
  BY OverlayingIs
<1>2. Overlays(u, n, z, over, e, a, t, x) /\ i \in 1 .. SpreadLen(n, over + 1, z)
  BY FittingIs
<1>3. i <= over => b = LaidAt(u, n, z, over, e, FramesOf(t, n), t, i)
  <2> HAVE i <= over
  <2>1. i \in 1 .. over
    BY <1>1
  <2>2. IsLeftOver(Node, In, a, t, st.buffer)
    BY DEF Overlaying
  <2> QED
    BY <2>1, <2>2 DEF IsLeftOver
<1>4. i > over => b = 0
  BY <1>1
<1>5. Merged(st, x)[i] = x[i] + b
  BY MergedHere
<1> HIDE DEF over, z, e, b
<1>6. x[i] + b = LaidAt(u, n, z, over, e, FramesOf(t + 1, n), t, i)
  BY <1>2, <1>3, <1>4, MergeIs
<1> QED
  BY <1>5, <1>6 DEF z, over, e

LEMMA LeftOverHere ==
    ASSUME NEW len, NEW a, NEW c, NEW v, NEW m, NEW t, NEW x, NEW st,
           Overlaying(len, a, c, v, m, t, x, st)
    PROVE  IsLeftOver(Node, In, a, t + 1, SubSeq(Merged(st, x), Out.pulse + 1, In.pulse))
<1> DEFINE N == In.pulse
           S == Out.pulse
           o == Node.overlap
           z == Node.stride
           e == In.delay
           merged == Merged(st, x)
<1>1. N \in Nat \ {0} /\ S \in Nat \ {0} /\ o \in Nat /\ N = S + o /\ z \in Nat \ {0}
  BY OverlayingIs
<1>2. merged \in [1 .. N -> Int] /\ t \in Nat
  BY MergedHere DEF Overlaying
<1> SUFFICES ASSUME NEW u, NEW n, Fits(Node, In, u, n, a), NEW i \in 1 .. o
             PROVE  SubSeq(merged, S + 1, N)[i] = LaidAt(u, n, z, o, e, FramesOf(t + 1, n), t + 1, i)
  BY DEF IsLeftOver
<1> HIDE DEF merged
<1>3. SubSeq(merged, S + 1, N)[i] = merged[S + i] /\ S + i \in 1 .. N /\ i \in Int
  <2> HIDE DEF N, S, o
  <2>1. N \in Nat /\ S \in Nat /\ S + o <= N /\ N = S + o
    BY <1>1
  <2>2. S + i \in 1 .. N /\ i \in Int
    BY <1>1
  <2> QED
    BY <1>1, <1>2, <2>1, <2>2, PartIs
<1>4. merged[S + i] = LaidAt(u, n, z, o, e, FramesOf(t + 1, n), t, S + i)
  BY <1>3, LaidHere DEF merged
<1>5. S = FramesOf(n, z) /\ n \in Nat \ {0}
  BY FittingIs
<1>6. Place(t + 1, n, z, i) = Place(t, n, z, S + i)
  <2> HIDE DEF S, z
  <2> QED
    BY <1>1, <1>2, <1>3, <1>5, PlaceByPulse
<1>7. LaidAt(u, n, z, o, e, FramesOf(t + 1, n), t, S + i)
         = LaidAt(u, n, z, o, e, FramesOf(t + 1, n), t + 1, i)
  BY <1>6, Zenon DEF LaidAt
<1> QED
  BY <1>3, <1>4, <1>7, Zenon

LEMMA OverlaidShows ==
    ASSUME NEW len, NEW a, NEW c, NEW v, NEW m, NEW t, NEW x, NEW st,
           Overlaying(len, a, c, v, m, t, x, st)
    PROVE  /\ Shows(c, Out.pulse, FramesOf(t, Out.pulse) - Out.delay,
                    SubSeq(Merged(st, x), 1, Out.pulse))
           /\ Starts(c, Out.delay)
<1> DEFINE N == In.pulse
           S == Out.pulse
           o == Node.overlap
           z == Node.stride
           d == Out.delay
           e == In.delay
           b == FramesOf(t, S)
           merged == Merged(st, x)
           full == Deconvolved(v, Kernel(o + 1, z), 0)
<1>1. /\ N \in Nat \ {0} /\ S \in Nat \ {0} /\ o \in Nat /\ N = S + o /\ z \in Nat \ {0}
      /\ d \in Nat /\ e \in Nat /\ d >= e /\ Fits(Node, In, v, m, a)
  BY OverlayingIs
<1>2. merged \in [1 .. N -> Int] /\ t \in Nat /\ IsScaled(z, e) /\ b \in Nat
  BY <1>1, MergedHere, FramesOfIs DEF Overlaying
<1>3. Overlays(v, m, z, o, e, a, t, x) /\ S = FramesOf(m, z) /\ m \in Nat \ {0} /\ v \in Seq(Int)
  BY <1>1, FittingIs
<1>4. \A i \in DOMAIN c : i \in Int /\ i + (d - e) \in DOMAIN full /\ c[i] = full[i + (d - e)]
  BY DEF Overlaying, SpreadTo
<1>5. PICK l \in Int : SpreadsOver(Len(v), o + 1, z, 0, l) /\ DOMAIN full = 1 .. l
  <2> DEFINE k == Len(v)
             r == (k - 1) * z
  <2>1. k \in Nat /\ r \in Int
    <3>1. k \in Nat
      BY <1>3
    <3> HIDE DEF k
    <3> QED
      BY <1>1, <3>1
  <2>2. DOMAIN full = 1 .. r + (o + 1) + 0
    BY DEF Deconvolved, Kernel
  <2>3. SpreadsOver(k, o + 1, z, 0, r + (o + 1) + 0)
    BY DEF SpreadsOver
  <2>4. r + (o + 1) + 0 \in Int
    <3> HIDE DEF r, o
    <3> QED
      BY <1>1, <2>1
  <2> QED
    BY <2>2, <2>3, <2>4
<1>6. Starts(c, d)
  <2> SUFFICES ASSUME NEW i \in DOMAIN c PROVE i \in Int /\ i + d >= 1
    BY DEF Starts
  <2>1. i \in Int /\ i + (d - e) \in 1 .. l
    BY <1>4, <1>5
  <2> HIDE DEF d, e, full
  <2> QED
    BY <1>1, <2>1
<1>7. ASSUME NEW p \in 1 .. S, (b - d) + p \in DOMAIN c
      PROVE  SubSeq(merged, 1, S)[p] = c[(b - d) + p]
  <2> DEFINE i == (b - d) + p
             k == i + (d - e)
  <2>1. k \in 1 .. l /\ c[i] = full[k]
    BY <1>4, <1>5, <1>7
  <2>2. p \in 1 .. N /\ p \in Int /\ SubSeq(merged, 1, S)[p] = merged[p]
    <3> HIDE DEF N, S, o, merged
    <3>1. N \in Nat /\ S \in Nat /\ 0 + S <= N /\ S = 0 + S /\ 0 \in Nat
      BY <1>1
    <3>2. p \in 1 .. N /\ p \in Int /\ 0 + p = p /\ 0 + 1 = 1
      BY <1>1
    <3>3. SubSeq(merged, 0 + 1, S)[p] = merged[0 + p]
      BY <1>2, <3>1, PartIs
    <3> QED
      BY <3>2, <3>3
  <2>3. merged[p] = LaidAt(v, m, z, o, e, FramesOf(t + 1, m), t, p)
    BY <1>1, <2>2, LaidHere
  <2>4. Place(t, m, z, p) = b + p
    <3> HIDE DEF S, z
    <3> QED
      BY <1>1, <1>2, <1>3, <2>2, PlaceByPulse
  <2>5. k = Place(t, m, z, p) - e
    <3> HIDE DEF b, d, e, S, z
    <3> QED
      BY <1>1, <1>2, <2>2, <2>4
  <2>6. p \in 1 .. m * z
    BY <1>3 DEF FramesOf
  <2>7. Place(t, m, z, p) - e \in 1 .. l
    BY <2>1, <2>5
  <2> HIDE DEF k, i, z, o, e, merged, full
  <2>8. LaidAt(v, m, z, o, e, FramesOf(t + 1, m), t, p)
           = Deconvolved(v, Kernel(o + 1, z), 0)[Place(t, m, z, p) - e]
    BY <1>2, <1>3, <1>5, <2>6, <2>7, MergedIsSpread
  <2> QED
    BY <2>1, <2>2, <2>3, <2>5, <2>8, Zenon DEF full, i
<1> QED
  BY <1>6, <1>7 DEF Shows

\* A node's state is what the frames of the stream a made of it, up to the
\* position `pos' of its wire.
StateFollows(node, in, pos, st, h, a) ==
    /\ node.kind = "delay" => Len(h) = pos /\ Shows(a, pos, -in.delay, h)
    /\ node.kind \in {"pad", "concat", "cumsum", "scan", "mask"} => st.pos = pos
    /\ node.kind = "pad" => LastFollows(node, in.delay, a, st)
    /\ node.kind = "cumsum" => SumFollows(in.delay, a, Silence, pos, st.sum)
    /\ node.kind = "scan" => SumFollows(in.delay, a, ScanStart, pos, HiddenBefore(st))
    /\ node.kind = "deconvdelay" => OverlayFollows(node, in, pos, st, a)
\* Where a stream of `len' frames ends is known, or does not matter yet.
EndIsKnown(len, pos, q) ==
    /\ turn.s = Unbound \/ turn.s = len
    /\ turn.s = Unbound /\ Tailed(Node) =>
          pos + In.pulse <= In.delay + In.dim[len] /\ pos + In.pulse <= Never
    /\ turn.s = Unbound /\ Node.kind = "deconvdelay" => q + Out.pulse <= Never
\* As many pulses of its input as of its output.
InPulses(pos, q) == \E t \in Nat : pos = FramesOf(t, In.pulse) /\ q = FramesOf(t, Out.pulse)
\* The node at hand takes the frames x (and y) of its stream a (and b) from the
\* position `pos' of its wire, and is to answer those of c from q on.
Works(len, a, b, c, pos, q, x, y, st, h) ==
    /\ AtWork /\ (Node.kind = "deconvdelay" => IsScaled(Node.stride, In.delay))
    /\ len \in Lengths /\ Follows(Node, In, Out, len, a, b, c)
    /\ pos \in Nat /\ q \in Nat
    /\ IF Node.kind \in {"conv", "pool", "downsample"} THEN pos = q * Node.stride
       ELSE IF Node.kind \in {"deconv", "deconvdelay"} THEN InPulses(pos, q) ELSE pos = q
    /\ x \in [1 .. In.pulse -> Int] /\ Shows(a, In.pulse, pos - In.delay, x) /\ Starts(a, In.delay)
    /\ Node.kind = "sum" => Shows(b, In.pulse, pos - In.delay, y)
    /\ StateIsSound(Node, In, st, h) /\ StateFollows(Node, In, pos, st, h, a)
    /\ EndIsKnown(len, pos, q)
Goes(a, c, pos, q, x, y, st, h) ==
    /\ Shows(c, Out.pulse, q - Out.delay, Answered(st, x, y)) /\ Starts(c, Out.delay)
    /\ StateFollows(Node, In, pos + (In.pulse - PastIn), Moved(st, x), HeardAfter(h, x), a)

LEMMA DelayGoes ==
    ASSUME NEW len, NEW a, NEW b, NEW c, NEW pos, NEW q, NEW x, NEW y, NEW st, NEW h,
           Works(len, a, b, c, pos, q, x, y, st, h), Node.kind = "delay"
    PROVE  Goes(a, c, pos, q, x, y, st, h)
<1> DEFINE n == In.pulse
           delay == In.delay
           d == Node.delay
           o == Node.overlap
           g == h \o x
           answer == Answered(st, x, y)
<1>1. AtWork /\ c = a /\ pos \in Nat /\ q = pos /\ Starts(a, delay) /\ Shows(a, n, pos - delay, x)
  BY DEF Works, Follows
<1>2. n \in Nat \ {0} /\ delay \in Nat /\ x \in [1 .. n -> Int]
  BY <1>1, AtWorkIs DEF Works
<1>3. /\ d \in Nat /\ o \in Nat /\ Out.pulse = n + o /\ Out.delay = delay + d + o /\ PastIn = 0
  <2>1. IsNode(Node, PastIn, In, Out)
    BY <1>1, AtWorkIs
  <2> QED
    BY <2>1 DEF IsNode
<1>4. /\ h \in Seq(Int) /\ RingHolds(Buffered(d, o), st, h, Silence) /\ Len(h) = pos
      /\ Shows(a, pos, -delay, h)
  BY DEF Works, StateIsSound, StateFollows
<1>5. x \in Seq(Int) /\ Len(x) = n
  BY <1>2, ListedIsASequence
<1>6. answer = Delayed(d, o, g, n, Silence)
  <2>1. answer = DelayOutput(d, o, st, x)
    BY DEF Answered
  <2> HIDE DEF d, o, answer
  <2> QED
    BY <1>3, <1>4, <1>5, <2>1, OutputIsDelayed
<1>7. HeardAfter(h, x) = g /\ Len(g) = pos + n
  <2>1. HeardAfter(h, x) = g
    BY DEF HeardAfter
  <2>2. Len(g) = Len(h) + Len(x)
    BY <1>4, <1>5, TwoParts
  <2> QED
    BY <1>4, <1>5, <2>1, <2>2
<1> HIDE DEF n, delay, d, o
<1>8. /\ Shows(a, Len(g), -delay, g)
      /\ Shows(a, n + o, pos - (delay + d + o), Delayed(d, o, g, n, Silence))
      /\ Starts(a, delay + d + o)
  BY <1>1, <1>2, <1>3, <1>4, <1>5, DelayShows
<1>9. pos + (n - PastIn) = pos + n
  BY <1>1, <1>2, <1>3
<1>10. StateFollows(Node, In, pos + (n - PastIn), Moved(st, x), HeardAfter(h, x), a)
  <2> HIDE DEF g
  <2> QED
    BY <1>7, <1>8, <1>9 DEF StateFollows, delay
<1>11. Shows(c, Out.pulse, q - Out.delay, answer) /\ Starts(c, Out.delay)
  <2> HIDE DEF answer, g
  <2> QED
    BY <1>1, <1>3, <1>6, <1>8
<1> QED
  BY <1>10, <1>11 DEF Goes, n

LEMMA PadGoes ==
    ASSUME NEW len, NEW a, NEW b, NEW c, NEW pos, NEW q, NEW x, NEW y, NEW st, NEW h,
           Works(len, a, b, c, pos, q, x, y, st, h), Node.kind = "pad"
    PROVE  Goes(a, c, pos, q, x, y, st, h)
<1> DEFINE n == In.pulse
           delay == In.delay
           o == Node.overlap
           answer == Answered(st, x, y)
<1>1. /\ AtWork /\ pos \in Nat /\ q = pos /\ Shows(a, n, pos - delay, x)
      /\ StateIsSound(Node, In, st, h) /\ st.pos = pos /\ LastFollows(Node, delay, a, st)
      /\ x \in [1 .. n -> Int] /\ len \in Lengths
  BY DEF Works, StateFollows
<1>2. /\ a \in Seq(Int) /\ a # <<>> /\ Len(a) = In.dim[len]
      /\ c = Padded(a, Node.before, Node.after, Node.mode, Node.value)
  BY DEF Works, Follows
<1>3. n \in Nat \ {0} /\ delay \in Nat /\ In.dim \in [Lengths -> Int] /\ IsNode(Node, PastIn, In, Out)
  BY <1>1, AtWorkIs
<1>4. /\ Node.before \in Nat /\ Node.after \in Nat /\ Node.value \in Int /\ o \in Nat /\ PastIn = o
      /\ Out.pulse = n
  BY <1>3 DEF IsNode
<1>5. EndFollows(delay, Node.after, Len(a), st.pos, n)
  <2> DEFINE after == Node.after
             k == Len(a)
  <2>1. End = Eval(Node.end, turn.s) /\ Node.end = [s \in Lengths |-> In.dim[s] + delay]
    BY <1>1, EndIsInt
  <2>2. CASE turn.s = len
    <3>1. len # Unbound
      BY <1>1, MaxLenAssumption DEF Lengths, Unbound
    <3>2. End = In.dim[len] + delay
      BY <1>1, <2>1, <2>2, <3>1 DEF Eval
    <3>3. In.dim[len] \in Int
      BY <1>1, <1>3
    <3>4. End = delay + k
      <4> DEFINE e == In.dim[len]
      <4>1. e \in Int /\ End = e + delay /\ k = e
        BY <1>2, <3>2, <3>3
      <4> HIDE DEF e, k, delay
      <4> QED
        BY <1>3, <4>1
    <3> QED
      BY <3>4 DEF EndFollows
  <2>3. CASE turn.s = Unbound
    <3>1. End = Never
      BY <2>1, <2>3 DEF Eval
    <3>2. after > 0 => pos + n <= delay + k /\ pos + n <= Never
      <4>1. after > 0 => pos + n <= delay + In.dim[len] /\ pos + n <= Never
        BY <2>3 DEF Works, EndIsKnown, Tailed
      <4> QED
        BY <1>2, <4>1
    <3>3. after = 0 \/ (pos + n <= delay + k /\ pos + n <= Never)
      <4>1. after \in Nat
        BY <1>4
      <4> HIDE DEF after, n, delay, k, Never
      <4> QED
        BY <3>2, <4>1
    <3> HIDE DEF after, k
    <3> QED
      BY <1>1, <3>1, <3>3 DEF EndFollows, after, k
  <2> QED
    BY <2>2, <2>3 DEF Works, EndIsKnown
<1>6. /\ Shows(c, n, pos - Out.delay, answer) /\ LastFollows(Node, delay, a, Moved(st, x))
  <2>1. /\ Shows(Padded(a, Node.before, Node.after, Node.mode, Node.value), In.pulse,
                 st.pos - Out.delay, Answered(st, x, y))
        /\ LastFollows(Node, In.delay, a, Moved(st, x))
    BY <1>1, <1>2, <1>5, PadShows
  <2> QED
    BY <1>1, <1>2, <2>1
<1>7. Starts(c, Out.delay)
  <2>1. Out.delay \in Nat
    BY <1>1, AtWorkIs
  <2>2. c \in Seq(Int)
    BY <1>2, <1>4, PaddedIs
  <2> QED
    BY <2>1, <2>2, SequencesStart
<1>8. Moved(st, x).pos = pos + (n - PastIn)
  <2>1. Moved(st, x) = [pos |-> st.pos + (In.pulse - Node.overlap), last |-> LastSeen(st, x, End)]
    BY <1>1, PadIs
  <2> QED
    BY <1>1, <1>4, <2>1
<1>9. StateFollows(Node, In, pos + (n - PastIn), Moved(st, x), HeardAfter(h, x), a)
  BY <1>6, <1>8 DEF StateFollows
<1> QED
  BY <1>1, <1>4, <1>6, <1>7, <1>9 DEF Goes

LEMMA ConcatGoes ==
    ASSUME NEW len, NEW a, NEW b, NEW c, NEW pos, NEW q, NEW x, NEW y, NEW st, NEW h,
           Works(len, a, b, c, pos, q, x, y, st, h), Node.kind = "concat"
    PROVE  Goes(a, c, pos, q, x, y, st, h)
<1> DEFINE n == In.pulse
           delay == In.delay
           pre == Node.pre
           post == Node.post
           answer == Answered(st, x, y)
           opened == Overwritten(x, pos, pre, delay - Len(pre))
           known == turn.s # Unbound
           m == Len(a)
<1>1. /\ AtWork /\ pos \in Nat /\ q = pos /\ Shows(a, n, pos - delay, x)
      /\ st.pos = pos /\ x \in [1 .. n -> Int] /\ len \in Lengths
  BY DEF Works, StateFollows
<1>2. a \in Seq(Int) /\ m = In.dim[len] /\ c = pre \o a \o post
  BY DEF Works, Follows
<1>3. n \in Nat \ {0} /\ delay \in Nat /\ IsNode(Node, PastIn, In, Out) /\ Out.delay \in Nat
  BY <1>1, AtWorkIs
<1>4. /\ pre \in Seq(Int) /\ post \in Seq(Int) /\ PastIn = 0 /\ Node.delay = delay
      /\ Node.len = In.dim /\ Out.pulse = n /\ Out.delay = delay - Len(pre)
  BY <1>3 DEF IsNode
<1>5. known => turn.s = len
  BY DEF Works, EndIsKnown
<1>6. answer = IF known THEN Overwritten(opened, pos, post, delay + m) ELSE opened
  <2>1. answer = IF turn.s = Unbound THEN Overwritten(x, st.pos, Node.pre, Node.delay - Len(Node.pre))
                 ELSE Overwritten(Overwritten(x, st.pos, Node.pre, Node.delay - Len(Node.pre)),
                                  st.pos, Node.post, Node.delay + Node.len[turn.s])
    BY DEF Answered
  <2>2. turn.s # Unbound => Node.len[turn.s] = m
    BY <1>2, <1>4, <1>5
  <2> QED
    BY <1>1, <1>4, <2>1, <2>2, Zenon
<1>7. ~known /\ post # <<>> => pos + n <= delay + m
  <2>1. ~known /\ post # <<>> => pos + n <= delay + In.dim[len]
    BY DEF Works, EndIsKnown, Tailed
  <2> QED
    BY <1>2, <2>1
<1>8. known \in BOOLEAN
  OBVIOUS
<1>9. StateFollows(Node, In, pos + (n - PastIn), Moved(st, x), HeardAfter(h, x), a)
  <2>1. Moved(st, x) = [pos |-> st.pos + Len(x)]
    BY DEF Moved
  <2>2. Len(x) = n
    BY <1>1, <1>3, ListedIsASequence
  <2>3. Moved(st, x).pos = pos + n
    BY <1>1, <2>1, <2>2
  <2>4. pos + (n - PastIn) = pos + n
    BY <1>1, <1>3, <1>4
  <2> QED
    BY <2>3, <2>4 DEF StateFollows
<1>10. Starts(c, Out.delay)
  <2>1. c \in Seq(Int)
    BY <1>2, <1>4, ThreeParts
  <2> QED
    BY <1>3, <2>1, SequencesStart
<1> HIDE DEF n, delay, pre, post, answer, opened, known
<1>11. Shows(pre \o a \o post, n, pos - (delay - Len(pre)), answer)
  <2>1. n \in Nat
    BY <1>3
  <2> QED
    BY <1>1, <1>2, <1>3, <1>4, <1>6, <1>7, <1>8, <2>1, ConcatShows DEF opened
<1> QED
  BY <1>1, <1>2, <1>4, <1>9, <1>10, <1>11 DEF Goes, n, answer

LEMMA CumSumGoes ==
    ASSUME NEW len, NEW a, NEW b, NEW c, NEW pos, NEW q, NEW x, NEW y, NEW st, NEW h,
           Works(len, a, b, c, pos, q, x, y, st, h), Node.kind = "cumsum"
    PROVE  Goes(a, c, pos, q, x, y, st, h)
<1> DEFINE n == In.pulse
           delay == In.delay
           sum == st.sum
           late == Constantly(Skipped(st, x), Silence)
           answer == Answered(st, x, y)
           last == Last(<<sum>> \o Cumulated(Rest(st, x), sum, FALSE))
<1>1. /\ AtWork /\ pos \in Nat /\ q = pos /\ Shows(a, n, st.pos - delay, x)
      /\ st.pos = pos /\ x \in [1 .. n -> Int] /\ sum \in Int
      /\ SumFollows(delay, a, Silence, st.pos, sum)
  BY DEF Works, StateFollows, StateIsSound
<1>2. a \in Seq(Int) /\ c = Cumulated(a, Silence, Node.exclusive) /\ Silence \in Int
  BY DEF Works, Follows, Silence
<1>3. n \in Nat \ {0} /\ delay \in Nat /\ IsNode(Node, PastIn, In, Out) /\ Out.delay \in Nat
  BY <1>1, AtWorkIs
<1>4. PastIn = 0 /\ Out.pulse = n /\ Out.delay = delay
  BY <1>3 DEF IsNode
<1>5. answer = late \o (IF Node.exclusive THEN Cumulated(Rest(st, x), sum, TRUE)
                        ELSE Cumulated(Rest(st, x), sum, FALSE))
  BY DEF Answered
<1>6. Moved(st, x) = [pos |-> pos + Len(x), sum |-> last] /\ Len(x) = n
  BY <1>1, <1>3, ListedIsASequence DEF Moved
<1>7. st.pos \in Nat
  BY <1>1
<1> HIDE DEF sum
<1>8. /\ Shows(Cumulated(a, Silence, FALSE), In.pulse, st.pos - In.delay,
               late \o Cumulated(Rest(st, x), sum, FALSE))
      /\ Shows(Cumulated(a, Silence, TRUE), In.pulse, st.pos - In.delay,
               late \o Cumulated(Rest(st, x), sum, TRUE))
      /\ SumFollows(In.delay, a, Silence, st.pos + In.pulse, last)
  <2> HIDE DEF Silence
  <2>1. Silence \in Int
    BY <1>2
  <2> QED
    BY <1>1, <1>2, <1>7, <2>1, RunningShows
<1> HIDE DEF late, last
<1>9. Shows(c, n, pos - delay, answer)
  <2>1. CASE Node.exclusive
    <3>1. c = Cumulated(a, Silence, TRUE)
      <4>1. c = [i \in 1 .. Len(a) |-> Sums(a, Silence)[i - 1]]
        BY <1>2, <2>1 DEF Cumulated
      <4> QED
        BY <4>1 DEF Cumulated
    <3>2. answer = late \o Cumulated(Rest(st, x), sum, TRUE)
      BY <1>5, <2>1
    <3> QED
      BY <1>1, <1>8, <3>1, <3>2
  <2>2. CASE ~Node.exclusive
    <3>1. c = Cumulated(a, Silence, FALSE)
      <4>1. c = [i \in 1 .. Len(a) |-> Sums(a, Silence)[i]]
        BY <1>2, <2>2 DEF Cumulated
      <4> QED
        BY <4>1 DEF Cumulated
    <3>2. answer = late \o Cumulated(Rest(st, x), sum, FALSE)
      BY <1>5, <2>2
    <3> QED
      BY <1>1, <1>8, <3>1, <3>2
  <2> QED
    BY <2>1, <2>2
<1>10. StateFollows(Node, In, pos + (n - PastIn), Moved(st, x), HeardAfter(h, x), a)
  <2>1. pos + (n - PastIn) = pos + n
    BY <1>1, <1>3, <1>4
  <2>2. Moved(st, x).pos = pos + n /\ Moved(st, x).sum = last
    BY <1>6
  <2>3. SumFollows(delay, a, Silence, pos + n, last)
    BY <1>1, <1>8
  <2> QED
    BY <2>1, <2>2, <2>3 DEF StateFollows
<1>11. Starts(c, Out.delay)
  <2>1. c \in Seq(Int)
    <3> DEFINE k == Len(a)
    <3>1. k \in Nat /\ a \in [1 .. k -> Int]
      BY <1>2
    <3> HIDE DEF k
    <3>2. c \in [1 .. k -> Int]
      <4> DEFINE e == Node.exclusive
      <4> HIDE DEF e
      <4>1. Cumulated(a, Silence, e) \in [1 .. k -> Int]
        BY <1>2, <3>1, CumulatedFrames
      <4> QED
        BY <1>2, <4>1 DEF e
    <3> QED
      BY <3>1, <3>2, ListedIsASequence
  <2> QED
    BY <1>3, <2>1, SequencesStart
<1> QED
  BY <1>1, <1>4, <1>9, <1>10, <1>11 DEF Goes

LEMMA ScanGoes ==
    ASSUME NEW len, NEW a, NEW b, NEW c, NEW pos, NEW q, NEW x, NEW y, NEW st, NEW h,
           Works(len, a, b, c, pos, q, x, y, st, h), Node.kind = "scan"
    PROVE  Goes(a, c, pos, q, x, y, st, h)
<1> DEFINE n == In.pulse
           delay == In.delay
           sum == HiddenBefore(st)
           late == Constantly(Skipped(st, x), Junk)
           answer == Answered(st, x, y)
           last == Last(<<sum>> \o Cumulated(Rest(st, x), sum, FALSE))
<1>1. /\ AtWork /\ pos \in Nat /\ q = pos /\ Shows(a, n, st.pos - delay, x)
      /\ st.pos = pos /\ x \in [1 .. n -> Int] /\ st.hidden \in Seq(Int)
      /\ SumFollows(delay, a, ScanStart, st.pos, sum)
  BY DEF Works, StateFollows, StateIsSound
<1>2. a \in Seq(Int) /\ c = Cumulated(a, ScanStart, FALSE) /\ ScanStart \in Int /\ Junk \in Int
  BY DEF Works, Follows, ScanStart, Junk
<1>3. n \in Nat \ {0} /\ delay \in Nat /\ IsNode(Node, PastIn, In, Out) /\ Out.delay \in Nat
  BY <1>1, AtWorkIs
<1>4. PastIn = 0 /\ Out.pulse = n /\ Out.delay = delay
  BY <1>3 DEF IsNode
<1>5. answer = late \o Cumulated(Rest(st, x), sum, FALSE)
  BY DEF Answered
<1>6. Moved(st, x) = [pos |-> pos + Len(x), hidden |-> <<last>>] /\ Len(x) = n
  BY <1>1, <1>3, ListedIsASequence DEF Moved
<1>7. st.pos \in Nat /\ sum \in Int
  BY <1>1, HiddenIsInt
<1> HIDE DEF sum
<1>8. /\ Shows(Cumulated(a, ScanStart, FALSE), In.pulse, st.pos - In.delay,
               late \o Cumulated(Rest(st, x), sum, FALSE))
      /\ SumFollows(In.delay, a, ScanStart, st.pos + In.pulse, last)
  <2> HIDE DEF ScanStart, Junk
  <2>1. ScanStart \in Int /\ Junk \in Int
    BY <1>2
  <2> QED
    BY <1>1, <1>2, <1>7, <2>1, RunningShows
<1> HIDE DEF late, last
<1>9. Shows(c, n, pos - delay, answer)
  BY <1>1, <1>2, <1>5, <1>8
<1>10. StateFollows(Node, In, pos + (n - PastIn), Moved(st, x), HeardAfter(h, x), a)
  <2>1. pos + (n - PastIn) = pos + n
    BY <1>1, <1>3, <1>4
  <2>2. Moved(st, x).pos = pos + n /\ HiddenBefore(Moved(st, x)) = last
    <3>1. Moved(st, x).pos = pos + n /\ Moved(st, x).hidden = <<last>>
      BY <1>6
    <3>2. <<last>> # <<>> /\ Head(<<last>>) = last
      OBVIOUS
    <3> QED
      BY <3>1, <3>2 DEF HiddenBefore
  <2>3. SumFollows(delay, a, ScanStart, pos + n, last)
    BY <1>1, <1>8
  <2> QED
    BY <2>1, <2>2, <2>3 DEF StateFollows
<1>11. Starts(c, Out.delay)
  <2>1. c \in Seq(Int)
    <3> DEFINE k == Len(a)
               e == FALSE
    <3>1. k \in Nat /\ a \in [1 .. k -> Int]
      BY <1>2
    <3> HIDE DEF k, e
    <3>2. Cumulated(a, ScanStart, e) \in [1 .. k -> Int]
      BY <1>2, <3>1, CumulatedFrames
    <3> QED
      BY <1>2, <3>1, <3>2, ListedIsASequence DEF e
  <2> QED
    BY <1>3, <2>1, SequencesStart
<1> QED
  BY <1>1, <1>4, <1>9, <1>10, <1>11 DEF Goes

\* A node without a state.
LEMMA StatelessGoes ==
    ASSUME NEW a, NEW pos, NEW x, NEW st, NEW h,
           Node.kind \in {"conv", "pool", "downsample", "identity", "deconv", "sum"}
    PROVE  StateFollows(Node, In, pos + (In.pulse - PastIn), Moved(st, x), HeardAfter(h, x), a)
  BY DEF StateFollows

LEMMA KernelGoes ==
    ASSUME NEW len, NEW a, NEW b, NEW c, NEW pos, NEW q, NEW x, NEW y, NEW st, NEW h,
           Works(len, a, b, c, pos, q, x, y, st, h), Node.kind \in {"conv", "pool"}
    PROVE  Goes(a, c, pos, q, x, y, st, h)
<1> DEFINE n == In.pulse
           m == Out.pulse
           z == Node.stride
           d == Out.delay
           base == q - d
           answer == Answered(st, x, y)
<1>1. /\ AtWork /\ pos \in Nat /\ q \in Nat /\ pos = q * z /\ Shows(a, n, pos - In.delay, x)
      /\ x \in [1 .. n -> Int]
  BY DEF Works
<1>2. a \in Seq(Int) /\ c = IF Node.kind = "conv" THEN Convolved(a, Node) ELSE Pooled(a, Node)
  BY DEF Works, Follows
<1>3. n \in Nat \ {0} /\ d \in Nat /\ m \in Nat \ {0} /\ IsNode(Node, PastIn, In, Out)
  BY <1>1, AtWorkIs
<1>4. /\ Node.size \in Nat \ {0} /\ z \in Nat \ {0} /\ Node.dilation \in Nat \ {0}
      /\ m = WindowCount(n, Node.size, z, Node.dilation) /\ In.delay = d * z
  BY <1>3 DEF IsNode
<1>5. pos - In.delay = base * z /\ base \in Int
  <2> DEFINE delay == In.delay
  <2>1. delay = d * z
    BY <1>4
  <2> HIDE DEF delay, d, z
  <2>2. (q - d) * z = q * z - d * z /\ q - d \in Int
    BY <1>1, <1>3, <1>4
  <2>3. pos - delay = (q - d) * z
    BY <1>1, <2>1, <2>2
  <2> QED
    BY <2>2, <2>3 DEF delay, d, z
<1>6. Shows(a, n, base * Node.stride, x)
  BY <1>1, <1>5
<1> HIDE DEF base, m
<1>7. /\ Shows(Convolved(a, Node), m, base, Convolved(x, Node))
      /\ Shows(Pooled(a, Node), m, base, Pooled(x, Node))
  <2>1. n \in Nat
    BY <1>3
  <2> QED
    BY <1>1, <1>2, <1>4, <1>5, <1>6, <2>1, KernelShows
<1>8. answer = IF Node.kind = "conv" THEN Convolved(x, Node) ELSE Pooled(x, Node)
  BY DEF Answered
<1>9. Shows(c, m, base, answer)
  BY <1>2, <1>7, <1>8
<1>10. Starts(c, d)
  <2> DEFINE k == Len(a)
             w == WindowCount(k, Node.size, z, Node.dilation)
  <2>1. k \in Nat /\ a \in [1 .. k -> Int]
    BY <1>2
  <2> HIDE DEF k
  <2>2. w \in Nat /\ c \in [1 .. w -> Int]
    BY <1>2, <1>4, <2>1, ConvolvedFrames
  <2> HIDE DEF w
  <2> QED
    BY <1>3, <2>2, ListedIsASequence, SequencesStart
<1> QED
  BY <1>9, <1>10, StatelessGoes DEF Goes, base, m

LEMMA DownsampleGoes ==
    ASSUME NEW len, NEW a, NEW b, NEW c, NEW pos, NEW q, NEW x, NEW y, NEW st, NEW h,
           Works(len, a, b, c, pos, q, x, y, st, h), Node.kind = "downsample"
    PROVE  Goes(a, c, pos, q, x, y, st, h)
<1> DEFINE n == In.pulse
           m == Out.pulse
           z == Node.stride
           o == Node.modulo
           delay == In.delay
           answer == Answered(st, x, y)
<1>1. /\ AtWork /\ pos \in Nat /\ q \in Nat /\ pos = q * z /\ Shows(a, n, pos - delay, x)
      /\ x \in [1 .. n -> Int]
  BY DEF Works
<1>2. /\ a \in Seq(Int)
      /\ \A i \in DOMAIN c :
            LET k == (((i - 1) * z + o) + 1) - delay
            IN  i \in Int /\ k \in 1 .. Len(a) /\ c[i] = a[k]
  BY DEF Works, Follows
<1>3. n \in Nat \ {0} /\ delay \in Nat /\ m \in Nat \ {0} /\ IsNode(Node, PastIn, In, Out)
  BY <1>1, AtWorkIs
<1>4. z \in Nat \ {0} /\ o \in 0 .. z - 1 /\ n = m * z /\ Out.delay = 0
  BY <1>3 DEF IsNode
<1>5. answer = Sampled(x, z, o)
  BY DEF Answered
<1> HIDE DEF n, m, z, o, delay, answer
<1>6. x \in [1 .. m * z -> Int] /\ Shows(a, m * z, q * z - delay, x)
  BY <1>1, <1>4
<1>7. DOMAIN a = 1 .. Len(a)
  BY <1>2
<1>8. Shows(c, m, q, Sampled(x, z, o))
  <2>1. \A i \in DOMAIN c :
           LET k == (((i - 1) * z + o) + 1) - delay
           IN  i \in Int /\ k \in DOMAIN a /\ c[i] = a[k]
    BY <1>2, <1>7
  <2>2. m \in Nat /\ q \in Int
    BY <1>1, <1>3
  <2>3. z \in Nat \ {0} /\ o \in 0 .. z - 1 /\ delay \in Nat
    BY <1>3, <1>4
  <2> QED
    BY <1>6, <2>1, <2>2, <2>3, SampledShows, Zenon
<1>9. Starts(c, 0)
  <2> SUFFICES ASSUME NEW i \in DOMAIN c PROVE i \in Int /\ i + 0 >= 1
    BY DEF Starts
  <2>1. i \in Int /\ (((i - 1) * z + o) + 1) - delay >= 1
    <3> DEFINE k == (((i - 1) * z + o) + 1) - delay
    <3>1. i \in Int /\ k \in 1 .. Len(a)
      BY <1>2
    <3> HIDE DEF k
    <3>2. k >= 1
      BY <1>2, <3>1
    <3> QED
      BY <3>1, <3>2 DEF k
  <2>2. ASSUME i - 1 <= -1 PROVE FALSE
    <3>1. (i - 1) * z <= -1 * z
      <4>1. i - 1 \in Int /\ z \in Nat /\ -1 \in Int
        BY <1>4, <2>1
      <4> QED
        BY <2>2, <4>1, TimesGrows
    <3> DEFINE u == (i - 1) * z
    <3>2. u \in Int /\ u <= -z
      BY <1>4, <2>1, <3>1
    <3> HIDE DEF u
    <3>3. ((u + o) + 1) - delay >= 1
      BY <2>1 DEF u
    <3> QED
      BY <1>3, <1>4, <3>2, <3>3
  <2> QED
    BY <2>1, <2>2
<1>10. Shows(c, Out.pulse, q - Out.delay, answer)
  <2>1. q - Out.delay = q
    BY <1>1, <1>4
  <2> QED
    BY <1>5, <1>8, <2>1 DEF m
<1> QED
  BY <1>4, <1>9, <1>10, StatelessGoes DEF Goes, answer

LEMMA IdentityGoes ==
    ASSUME NEW len, NEW a, NEW b, NEW c, NEW pos, NEW q, NEW x, NEW y, NEW st, NEW h,
           Works(len, a, b, c, pos, q, x, y, st, h), Node.kind = "identity"
    PROVE  Goes(a, c, pos, q, x, y, st, h)
<1> DEFINE n == In.pulse
           delay == In.delay
           d == Out.delay
           more == d - delay
           off == pos - delay
<1>1. /\ AtWork /\ pos \in Nat /\ q = pos /\ Shows(a, n, off, x) /\ Starts(a, delay)
  BY DEF Works
<1>2. \A i \in DOMAIN c : i \in Int /\ i + more \in DOMAIN a /\ c[i] = a[i + more]
  BY DEF Works, Follows
<1>3. n \in Nat \ {0} /\ delay \in Nat /\ d \in Nat /\ IsNode(Node, PastIn, In, Out)
  BY <1>1, AtWorkIs
<1>4. Out.pulse = n
  BY <1>3 DEF IsNode
<1>5. Answered(st, x, y) = x
  BY DEF Answered
<1> HIDE DEF n, delay, d
<1>6. off - more = q - d /\ off \in Int /\ more \in Int /\ n \in Nat
  BY <1>1, <1>3
<1>7. Shows(c, n, q - d, x)
  <2> HIDE DEF off, more
  <2>1. Shows(c, n, off - more, x)
    BY <1>1, <1>2, <1>6, SliceShows
  <2> QED
    BY <1>6, <2>1
<1>8. Starts(c, d)
  <2> SUFFICES ASSUME NEW i \in DOMAIN c PROVE i \in Int /\ i + d >= 1
    BY DEF Starts
  <2>1. i \in Int /\ i + more \in DOMAIN a
    BY <1>2
  <2>2. (i + more) + delay >= 1
    BY <1>1, <2>1 DEF Starts
  <2> QED
    BY <1>3, <2>1, <2>2
<1> QED
  BY <1>4, <1>5, <1>7, <1>8, StatelessGoes DEF Goes, d

LEMMA SumGoes ==
    ASSUME NEW len, NEW a, NEW b, NEW c, NEW pos, NEW q, NEW x, NEW y, NEW st, NEW h,
           Works(len, a, b, c, pos, q, x, y, st, h), Node.kind = "sum"
    PROVE  Goes(a, c, pos, q, x, y, st, h)
<1> DEFINE n == In.pulse
           delay == In.delay
           off == pos - delay
<1>1. /\ AtWork /\ pos \in Nat /\ q = pos /\ Shows(a, n, off, x) /\ Shows(b, n, off, y)
      /\ x \in [1 .. n -> Int]
  BY DEF Works
<1>2. a \in Seq(Int) /\ b \in Seq(Int) /\ Len(b) = Len(a) /\ c = [i \in 1 .. Len(a) |-> a[i] + b[i]]
  BY DEF Works, Follows
<1>3. n \in Nat \ {0} /\ delay \in Nat /\ IsNode(Node, PastIn, In, Out) /\ Out.delay \in Nat
  BY <1>1, AtWorkIs
<1>4. Out.pulse = n /\ Out.delay = delay
  BY <1>3 DEF IsNode
<1>5. Answered(st, x, y) = [i \in 1 .. n |-> x[i] + y[i]]
  <2>1. Len(x) = n
    BY <1>1, <1>3, ListedIsASequence
  <2> QED
    BY <2>1 DEF Answered
<1>6. off \in Int /\ n \in Nat
  BY <1>1, <1>3
<1>7. Shows(c, n, off, Answered(st, x, y))
  <2> HIDE DEF n, off
  <2>1. Shows([i \in 1 .. Len(a) |-> a[i] + b[i]], n, off, [i \in 1 .. n |-> x[i] + y[i]])
    BY <1>1, <1>2, <1>6, SumShows
  <2> QED
    BY <1>2, <1>5, <2>1, Zenon
<1>8. Starts(c, delay)
  <2> DEFINE k == Len(a)
  <2>1. k \in Nat /\ a \in [1 .. k -> Int] /\ b \in [1 .. k -> Int]
    BY <1>2
  <2>2. c \in [1 .. k -> Int]
    BY <1>2, <2>1
  <2> HIDE DEF k
  <2> QED
    BY <1>3, <2>1, <2>2, ListedIsASequence, SequencesStart
<1> QED
  BY <1>1, <1>4, <1>7, <1>8, StatelessGoes DEF Goes

LEMMA MaskGoes ==
    ASSUME NEW len, NEW a, NEW b, NEW c, NEW pos, NEW q, NEW x, NEW y, NEW st, NEW h,
           Works(len, a, b, c, pos, q, x, y, st, h), Node.kind = "mask"
    PROVE  Goes(a, c, pos, q, x, y, st, h)
<1> DEFINE n == In.pulse
           delay == In.delay
           end == Eval(Node.end, turn.s)
           answer == Answered(st, x, y)
<1>1. /\ AtWork /\ pos \in Nat /\ q = pos /\ Shows(a, n, pos - delay, x)
      /\ st.pos = pos /\ x \in [1 .. n -> Int] /\ len \in Lengths
  BY DEF Works, StateFollows
<1>2. a \in Seq(Int) /\ Len(a) = In.dim[len] /\ c = InSilence(a, delay)
  BY DEF Works, Follows
<1>3. /\ n \in Nat \ {0} /\ delay \in Nat /\ In.dim \in [Lengths -> Int]
      /\ IsNode(Node, PastIn, In, Out)
  BY <1>1, AtWorkIs
<1>4. /\ Out.pulse = n /\ Out.delay = delay /\ PastIn = 0 /\ Node.begin = delay
      /\ Node.end = [s \in Lengths |-> In.dim[s] + delay]
  BY <1>3 DEF IsNode
<1>5. Len(x) = n
  BY <1>1, <1>3, ListedIsASequence
<1>6. MaskEnd(a, delay, pos, n, end)
  <2> DEFINE k == Len(a)
  <2>1. CASE turn.s = len
    <3>1. len # Unbound
      BY <1>1, MaxLenAssumption DEF Lengths, Unbound
    <3>2. end = In.dim[len] + delay
      BY <1>1, <1>4, <2>1, <3>1 DEF Eval
    <3>3. In.dim[len] \in Int
      BY <1>1, <1>3
    <3>4. end = delay + k
      <4> DEFINE e == In.dim[len]
      <4>1. e \in Int /\ end = e + delay /\ k = e
        BY <1>2, <3>2, <3>3
      <4> HIDE DEF e, k, delay, end
      <4> QED
        BY <1>3, <4>1
    <3> QED
      BY <3>4 DEF MaskEnd
  <2>2. CASE turn.s = Unbound
    <3>1. end = Never
      BY <2>2 DEF Eval
    <3>2. pos + n <= delay + In.dim[len] /\ pos + n <= Never
      BY <2>2 DEF Works, EndIsKnown, Tailed
    <3>3. pos + n <= delay + k
      BY <1>2, <3>2
    <3> QED
      BY <3>1, <3>2, <3>3 DEF MaskEnd
  <2> QED
    BY <2>1, <2>2 DEF Works, EndIsKnown
<1>7. answer = [i \in 1 .. n |-> IF pos + i \in delay + 1 .. end THEN x[i] ELSE Silence]
  <2>1. answer = [i \in 1 .. Len(x) |-> IF st.pos + i \in Node.begin + 1 .. end THEN x[i] ELSE Silence]
    BY DEF Answered
  <2> HIDE DEF answer, end
  <2> QED
    BY <1>1, <1>4, <1>5, <2>1
<1> HIDE DEF n, delay, end, answer
<1>8. Shows(c, n, pos - delay, answer)
  <2>1. n \in Nat
    BY <1>3
  <2> QED
    BY <1>1, <1>2, <1>3, <1>6, <1>7, <2>1, MaskShows
<1>9. Starts(c, delay)
  <2>1. DOMAIN c = {j \in Int : j + delay >= 1}
    BY <1>2 DEF InSilence
  <2> QED
    BY <2>1 DEF Starts
<1>10. StateFollows(Node, In, pos + (n - PastIn), Moved(st, x), HeardAfter(h, x), a)
  <2>1. Moved(st, x) = [pos |-> st.pos + Len(x)]
    BY DEF Moved
  <2>2. Moved(st, x).pos = pos + n
    BY <1>1, <1>5, <2>1
  <2>3. pos + (n - PastIn) = pos + n
    BY <1>1, <1>3, <1>4
  <2> QED
    BY <2>2, <2>3 DEF StateFollows
<1> QED
  BY <1>1, <1>4, <1>8, <1>9, <1>10 DEF Goes, n, delay, answer

LEMMA DeconvGoes ==
    ASSUME NEW len, NEW a, NEW b, NEW c, NEW pos, NEW q, NEW x, NEW y, NEW st, NEW h,
           Works(len, a, b, c, pos, q, x, y, st, h), Node.kind = "deconv"
    PROVE  Goes(a, c, pos, q, x, y, st, h)
<1> DEFINE n == In.pulse
           m == Out.pulse
           delay == In.delay
           answer == Answered(st, x, y)
<1>1. /\ AtWork /\ pos \in Nat /\ q \in Nat /\ InPulses(pos, q) /\ Shows(a, n, pos - delay, x)
      /\ x \in [1 .. n -> Int]
  BY DEF Works
<1>2. /\ DOMAIN a = {j \in Int : j + delay >= 1}
      /\ c = Chopped(a, Node.size, Node.stride, n, delay)
  BY DEF Works, Follows
<1>3. n \in Nat \ {0} /\ delay \in Nat /\ IsNode(Node, PastIn, In, Out)
  BY <1>1, AtWorkIs
<1>4. /\ Node.size \in Nat \ {0} /\ Node.stride \in Nat \ {0} /\ m = SpreadLen(n, Node.size, Node.stride)
      /\ Out.delay = delay
  BY <1>3 DEF IsNode, SpreadLen
<1>5. answer = Deconvolved(x, Node, Node.stride - 1)
  BY DEF Answered
<1>6. PICK t \in Nat : pos = FramesOf(t, n) /\ q = FramesOf(t, m)
  BY <1>1 DEF InPulses
<1>7. Shows(a, n, FramesOf(t, n) - delay, x)
  BY <1>1, <1>6
<1> HIDE DEF n, m, delay, answer
<1>8. Shows(c, m, FramesOf(t, m) - delay, answer)
  BY <1>1, <1>2, <1>3, <1>4, <1>5, <1>7, SpreadShows
<1>9. Starts(c, delay)
  <2>1. DOMAIN c = {j \in Int : j + delay >= 1}
    BY <1>2 DEF Chopped
  <2> QED
    BY <2>1 DEF Starts
<1>10. Shows(c, m, q - delay, answer)
  BY <1>6, <1>8
<1> QED
  BY <1>4, <1>9, <1>10, StatelessGoes DEF Goes, m, answer

LEMMA DeconvDelayGoes ==
    ASSUME NEW len, NEW a, NEW b, NEW c, NEW pos, NEW q, NEW x, NEW y, NEW st, NEW h,
           Works(len, a, b, c, pos, q, x, y, st, h), Node.kind = "deconvdelay"
    PROVE  Goes(a, c, pos, q, x, y, st, h)
<1> DEFINE N == In.pulse
           S == Out.pulse
           d == Out.delay
           answer == Answered(st, x, y)
<1>1. /\ AtWork /\ pos \in Nat /\ q \in Nat /\ InPulses(pos, q) /\ Shows(a, N, pos - In.delay, x)
      /\ x \in [1 .. N -> Int] /\ len \in Lengths /\ IsScaled(Node.stride, In.delay)
      /\ st.buffer \in [1 .. Node.overlap -> Int] /\ OverlayFollows(Node, In, pos, st, a)
      /\ turn.s = Unbound \/ turn.s = len
      /\ turn.s = Unbound => q + S <= Never
  BY DEF Works, StateIsSound, StateFollows, EndIsKnown
<1>2. PICK v, m : Overlaid(Node, In, len, a, v, m) /\ SpreadTo(Node, In, Out, v, c)
  BY DEF Works, Follows
<1>3. /\ N \in Nat \ {0} /\ S \in Nat \ {0} /\ d \in Nat /\ IsNode(Node, PastIn, In, Out)
  BY <1>1, AtWorkIs
<1>4. /\ N = S + Node.overlap /\ Node.overlap \in Nat /\ Node.delay = d /\ PastIn = 0
  BY <1>3 DEF IsNode
<1>5. PICK t \in Nat : pos = FramesOf(t, N) /\ q = FramesOf(t, S)
  BY <1>1 DEF InPulses
<1>6. PICK u \in Nat : /\ pos = FramesOf(u, N)
                       /\ st.valid = FramesOf(u, N - Node.overlap) - Node.delay
                       /\ IsLeftOver(Node, In, a, u, st.buffer)
  BY <1>1 DEF OverlayFollows
<1>7. u = t
  BY <1>3, <1>5, <1>6, SamePulses
<1>8. N - Node.overlap = S
  BY <1>3, <1>4
<1>9. Overlaying(len, a, c, v, m, t, x, st)
  <2>1. Shows(a, N, FramesOf(t, N) - In.delay, x)
    BY <1>1, <1>5
  <2>2. st.valid = FramesOf(t, S) - d /\ IsLeftOver(Node, In, a, t, st.buffer)
    BY <1>4, <1>6, <1>7, <1>8
  <2>3. turn.s = Unbound => FramesOf(t, S) + S <= Never
    BY <1>1, <1>5
  <2> QED
    BY <1>1, <1>2, <2>1, <2>2, <2>3 DEF Overlaying
<1>10. Len(x) = N /\ Len(x) - Node.overlap = S
  BY <1>8, <1>9, MergedHere
<1>11. answer = SubSeq(Merged(st, x), 1, S)
  BY <1>10 DEF Answered
<1>12. Moved(st, x) = [valid |-> st.valid + S, buffer |-> SubSeq(Merged(st, x), S + 1, N)]
  BY <1>10 DEF Moved
<1>13. Shows(c, S, q - d, answer) /\ Starts(c, d)
  BY <1>5, <1>9, <1>11, OverlaidShows
<1>14. IsLeftOver(Node, In, a, t + 1, Moved(st, x).buffer)
  BY <1>9, <1>12, LeftOverHere
<1>15. FramesOf(t + 1, N) = pos + N /\ FramesOf(t + 1, S) = q + S
  BY <1>3, <1>5, FramesOfIs
<1>16. pos + (N - PastIn) = FramesOf(t + 1, N)
  BY <1>1, <1>3, <1>4, <1>15
<1>17. Moved(st, x).valid = FramesOf(t + 1, N - Node.overlap) - Node.delay
  <2>1. Moved(st, x).valid = (q - d) + S
    BY <1>4, <1>5, <1>6, <1>7, <1>8, <1>12
  <2>2. (q - d) + S = (q + S) - d
    <3> HIDE DEF S, d
    <3> QED
      BY <1>1, <1>3
  <2> QED
    BY <1>4, <1>8, <1>15, <2>1, <2>2
<1>18. OverlayFollows(Node, In, pos + (N - PastIn), Moved(st, x), a)
  <2>1. t + 1 \in Nat
    OBVIOUS
  <2> HIDE DEF N
  <2> QED
    BY <1>14, <1>16, <1>17, <2>1 DEF OverlayFollows, N
<1>19. StateFollows(Node, In, pos + (N - PastIn), Moved(st, x), HeardAfter(h, x), a)
  BY <1>18 DEF StateFollows
<1> QED
  BY <1>13, <1>19 DEF Goes

LEMMA NodeGoes ==
    ASSUME NEW len, NEW a, NEW b, NEW c, NEW pos, NEW q, NEW x, NEW y, NEW st, NEW h,
           Works(len, a, b, c, pos, q, x, y, st, h)
    PROVE  Goes(a, c, pos, q, x, y, st, h)
<1>1. Node.kind \in {"delay", "pad", "concat", "cumsum", "scan", "mask", "deconvdelay", "conv", "pool",
                     "downsample", "identity", "deconv", "sum"}
  <2>1. AtWork
    BY DEF Works
  <2>2. IsNode(Node, PastIn, In, Out)
    BY <2>1, AtWorkIs
  <2> QED
    BY <2>2 DEF IsNode
<1> QED
  BY <1>1, DelayGoes, PadGoes, ConcatGoes, CumSumGoes, ScanGoes, MaskGoes, KernelGoes, DownsampleGoes,
     IdentityGoes, DeconvGoes, DeconvDelayGoes, SumGoes

(* A lane follows its stream: for as many pulses as it was fed, its answer   *)
(* and the states of its nodes are those of the stream as a whole.          *)
Hop(w) == FactOf(Plan, w).pulse - Past(Plan, w)
\* No end of a stream has to be known before it is, and usize::MAX, which stands
\* for one that is not, is not reached.
IsTimely(n, len) ==
    \A t \in Nat : t * model.pulse + model.pulse <= len =>
        /\ Tailed(model.nodes[n]) =>
              LET to == t * Hop(model.nodes[n].from[1]) + InFact(n).pulse
              IN  to <= InFact(n).delay + InFact(n).dim[len] /\ to <= Never
        /\ model.nodes[n].kind = "deconvdelay" => t * Hop(n) + FactOf(Plan, n).pulse <= Never
IsTold ==
    \A n \in Nodes :
        /\ model.nodes[n].kind = "deconvdelay" => IsScaled(model.nodes[n].stride, InFact(n).delay)
        /\ \A len \in model.lens : IsTimely(n, len)
\* No position of a stream is the usize::MAX that stands for an end not known.
IsBelowNever ==
    \A w \in 0 .. Len(model.nodes) : \A len \in model.lens : \A t \in Nat :
        t * model.pulse + model.pulse <= len => t * Hop(w) + FactOf(Plan, w).pulse <= Never
\* Frames that a deconvolution spreads are not late, or not spread apart.
DeconvsAreInStep ==
    \A n \in Nodes : model.nodes[n].kind = "deconvdelay" =>
        IsScaled(model.nodes[n].stride, InFact(n).delay)
NodeFollows(n, wires, t, st, h) ==
    StateFollows(model.nodes[n], InFact(n), t * Hop(model.nodes[n].from[1]), st, h,
                 wires[model.nodes[n].from[1]])
IsAnsweredFor(st, t) ==
    /\ st.read = t * model.pulse /\ Len(st.answer) = t * model.fact.pulse
    /\ Shows(st.expected, t * model.fact.pulse, -model.fact.delay, st.answer)
WireFollows(wires, t, w, x) ==
    /\ Shows(wires[w], FactOf(Plan, w).pulse, t * Hop(w) - FactOf(Plan, w).delay, x)
    /\ Starts(wires[w], FactOf(Plan, w).delay)
TurnFollows(l, wires, t) ==
    /\ turn.s = Unbound => t * model.pulse + model.pulse <= streams[l].len
    /\ turn.s # Unbound => turn.s = streams[l].len
    /\ \A w \in 0 .. turn.at - 1 : WireFollows(wires, t, w, turn.values[w + 1][l])
\* The pulses that a node has moved past.
Gone(l, n, t) == IF l \in turn.seats /\ n < turn.at THEN t + 1 ELSE t
LaneFollows(l, wires, t) ==
    /\ t \in Nat /\ StandsFor(wires, streams[l]) /\ IsAnsweredFor(streams[l], t)
    /\ \A n \in Nodes : NodeFollows(n, wires, Gone(l, n, t), states[n][l], heard[n][l])
    /\ l \in turn.seats => TurnFollows(l, wires, t)
LanesFollow ==
    \A l \in Lanes : ~streams[l].broken => \E wires : \E t : LaneFollows(l, wires, t)

LEMMA SamePlan ==
    ASSUME model' = model
    PROVE  /\ Plan' = Plan /\ Nodes' = Nodes /\ Lanes' = Lanes /\ IsTold' = IsTold
           /\ \A w : Hop(w)' = Hop(w)
           /\ \A n, wires, t, st, h : NodeFollows(n, wires, t, st, h)' = NodeFollows(n, wires, t, st, h)
           /\ \A st, t : IsAnsweredFor(st, t)' = IsAnsweredFor(st, t)
           /\ \A wires, st : StandsFor(wires, st)' = StandsFor(wires, st)
           /\ \A wires, t, w, x : WireFollows(wires, t, w, x)' = WireFollows(wires, t, w, x)
<1>1. Plan' = Plan /\ Nodes' = Nodes /\ Lanes' = Lanes /\ \A n : InFact(n)' = InFact(n)
  BY SameModel
<1>2. \A w : Hop(w)' = Hop(w)
  BY <1>1 DEF Hop
<1>3. \A n, wires, t, st, h : NodeFollows(n, wires, t, st, h)' = NodeFollows(n, wires, t, st, h)
  BY <1>1, <1>2 DEF NodeFollows
<1>4. \A st, t : IsAnsweredFor(st, t)' = IsAnsweredFor(st, t)
  BY DEF IsAnsweredFor
<1>5. \A wires, st : StandsFor(wires, st)' = StandsFor(wires, st)
  BY <1>1 DEF StandsFor
<1>6. \A wires, t, w, x : WireFollows(wires, t, w, x)' = WireFollows(wires, t, w, x)
  BY <1>1, <1>2 DEF WireFollows
<1>7. IsTold' = IsTold
  BY <1>1, <1>2 DEF IsTold, IsTimely
<1> QED
  BY <1>1, <1>2, <1>3, <1>4, <1>5, <1>6, <1>7

LEMMA HopIs ==
    ASSUME IsPrepared, NEW w \in 0 .. Len(model.nodes)
    PROVE  /\ Hop(w) \in Nat \ {0} /\ FactOf(Plan, w).pulse \in Nat \ {0}
           /\ FactOf(Plan, w).delay \in Nat /\ Past(Plan, w) \in Nat
<1>1. IsPulsed(Plan) /\ model.nodes = Plan.nodes
  BY ModelIs
<1>2. FactOf(Plan, w).pulse \in Nat \ {0} /\ FactOf(Plan, w).delay \in Nat
  BY <1>1, FactOfWire, FactsAre
<1>3. Past(Plan, w) \in Nat /\ Past(Plan, w) < FactOf(Plan, w).pulse
  BY <1>1, PastIs
<1> DEFINE a == FactOf(Plan, w).pulse
           b == Past(Plan, w)
<1>4. a \in Nat /\ b \in Nat /\ b < a
  BY <1>2, <1>3
<1> HIDE DEF a, b
<1>5. a - b \in Nat \ {0}
  BY <1>4
<1> QED
  BY <1>2, <1>3, <1>5 DEF Hop, a, b

\* The first and the last wire carry pulses without a past.
LEMMA EndsHavePlainPulses ==
    ASSUME IsPrepared
    PROVE  /\ Hop(0) = model.pulse /\ FactOf(Plan, 0).pulse = model.pulse
           /\ FactOf(Plan, 0).delay = 0
           /\ Hop(Len(model.nodes)) = model.fact.pulse
           /\ model.fact = FactOf(Plan, Len(model.nodes))
           /\ model.fact.pulse \in Nat \ {0} /\ model.fact.delay \in Nat
           /\ model.pulse \in Nat \ {0} /\ Len(model.nodes) \in Nat
<1> DEFINE n == Len(model.nodes)
           k == Len(model.graph)
<1>1. /\ model.nodes = Plan.nodes /\ n \in Nat /\ model.fact = FactOf(Plan, n)
      /\ Sound(Plan, k, model.pulse) /\ IsGraph(model.graph) /\ model.pulse \in Nat \ {0}
  BY ModelIs
<1>2. k \in Nat
  BY <1>1, GraphIs
<1>3. FactOf(Plan, 0) = [pulse |-> model.pulse, delay |-> 0, dim |-> [s \in Lengths |-> s]]
      /\ Plan.at[k + 1] = n /\ Past(Plan, Plan.at[k + 1]) = 0
  <2>1. k + 1 \in 1 .. k + 1
    BY <1>2
  <2> QED
    BY <1>1, <2>1 DEF Sound
<1>4. Past(Plan, 0) = 0
  BY DEF Past
<1>5. 0 \in 0 .. n /\ n \in 0 .. n
  BY <1>1
<1>6. /\ FactOf(Plan, 0).pulse \in Nat /\ FactOf(Plan, n).pulse \in Nat \ {0}
      /\ FactOf(Plan, n).delay \in Nat
  BY <1>5, HopIs
<1>7. FactOf(Plan, 0).pulse = model.pulse /\ FactOf(Plan, 0).delay = 0
  BY <1>3
<1>8. Past(Plan, n) = 0
  BY <1>3
<1> HIDE DEF n
<1>9. Hop(0) = model.pulse
  <2> DEFINE a == FactOf(Plan, 0).pulse
  <2>1. a \in Nat /\ a - 0 = a
    BY <1>6
  <2> QED
    BY <1>4, <1>7, <2>1 DEF Hop
<1>10. Hop(n) = model.fact.pulse
  <2> DEFINE a == FactOf(Plan, n).pulse
  <2>1. a \in Nat /\ a - 0 = a
    BY <1>6
  <2> QED
    BY <1>1, <1>8, <2>1 DEF Hop
<1> QED
  BY <1>1, <1>6, <1>7, <1>9, <1>10 DEF n

\* A node that nothing has been fed to.
LEMMA NodeStarts ==
    ASSUME IsPrepared, NEW n \in Nodes, NEW len, NEW wires, Means(Plan, wires, len)
    PROVE  NodeFollows(n, wires, 0, InitialState(model.nodes[n]), <<>>)
<1> DEFINE node == model.nodes[n]
           a == wires[node.from[1]]
           st == InitialState(node)
           in == InFact(n)
           begin == in.delay
<1>1. /\ node.from[1] \in 0 .. n - 1 /\ n \in 1 .. Len(model.nodes) /\ Len(model.nodes) \in Nat
      /\ begin \in Nat
  BY NodeIs, ModelIs, FactsAre DEF InFact
<1>2. 0 * Hop(node.from[1]) = 0
  <2>1. node.from[1] \in 0 .. Len(model.nodes)
    BY <1>1
  <2>2. Hop(node.from[1]) \in Nat
    BY <2>1, HopIs
  <2> DEFINE u == Hop(node.from[1])
  <2> HIDE DEF u
  <2>3. u \in Nat => 0 * u = 0
    OBVIOUS
  <2> QED
    BY <2>2, <2>3 DEF u
<1>3. node.kind \in {"cumsum", "scan"} => a \in Seq(Int)
  <2>1. model.nodes = Plan.nodes /\ n \in 1 .. Len(Plan.nodes)
    BY <1>1, ModelIs
  <2> QED
    BY <2>1 DEF Means, Follows
<1>4. node.kind = "delay" => Len(<<>>) = 0 /\ Shows(a, 0, -begin, <<>>)
  BY DEF Shows
<1>5. node.kind = "pad" => st.pos = 0 /\ LastFollows(node, begin, a, st)
  <2> HAVE node.kind = "pad"
  <2>1. st.pos = 0
    BY DEF InitialState
  <2> HIDE DEF st, begin, node
  <2> QED
    BY <1>1, <2>1 DEF LastFollows
<1>6. node.kind = "concat" => st.pos = 0
  BY DEF InitialState
<1>7. node.kind = "cumsum" => st.pos = 0 /\ SumFollows(begin, a, Silence, 0, st.sum)
  <2> HAVE node.kind = "cumsum"
  <2>1. st.pos = 0 /\ st.sum = Silence
    BY DEF InitialState
  <2>2. Silence \in Int
    BY DEF Silence
  <2> HIDE DEF st, begin, a, node, Silence
  <2>3. a \in Seq(Int)
    BY <1>3
  <2>4. Sums(a, Silence)[0] = Silence
    BY <2>2, <2>3, SumsAre
  <2> QED
    BY <1>1, <2>1, <2>4 DEF SumFollows
<1>8. node.kind = "scan" => st.pos = 0 /\ SumFollows(begin, a, ScanStart, 0, HiddenBefore(st))
  <2> HAVE node.kind = "scan"
  <2>1. st.pos = 0 /\ HiddenBefore(st) = ScanStart
    BY DEF InitialState, HiddenBefore
  <2>2. ScanStart \in Int
    BY DEF ScanStart
  <2> HIDE DEF st, begin, a, node, ScanStart
  <2>3. a \in Seq(Int)
    BY <1>3
  <2>4. Sums(a, ScanStart)[0] = ScanStart
    BY <2>2, <2>3, SumsAre
  <2> QED
    BY <1>1, <2>1, <2>4 DEF SumFollows
<1>9. node.kind = "mask" => st.pos = 0
  BY DEF InitialState
<1>10. node.kind = "deconvdelay" => OverlayFollows(node, in, 0, st, a)
  <2> HAVE node.kind = "deconvdelay"
  <2>1. st = [valid |-> -node.delay, buffer |-> Constantly(node.overlap, Silence)]
    BY DEF InitialState
  <2>2. /\ node.overlap \in Nat /\ node.delay \in Nat /\ in.pulse = FactOf(Plan, n).pulse + node.overlap
        /\ FactOf(Plan, n).pulse \in Nat
    BY NodeIs, FactsAre DEF IsNode, InFact
  <2> DEFINE m == FactOf(Plan, n).pulse
  <2>3. in.pulse \in Nat /\ in.pulse - node.overlap \in Nat
    <3> DEFINE k == in.pulse
               o == node.overlap
    <3>1. o \in Nat /\ m \in Nat /\ k = m + o
      BY <2>2
    <3> HIDE DEF k, o, m
    <3>2. k \in Nat /\ k - o \in Nat
      BY <3>1
    <3> QED
      BY <3>2 DEF k, o
  <2> HIDE DEF st, node, a, in
  <2> QED
    BY <2>1, <2>2, <2>3, NothingLeftOver
<1>11. StateFollows(node, in, 0, st, <<>>, a)
  <2> HIDE DEF st, node, a, in
  <2> QED
    BY <1>4, <1>5, <1>6, <1>7, <1>8, <1>9, <1>10 DEF StateFollows
<1> HIDE DEF st, a, in
<1> QED
  BY <1>2, <1>11 DEF NodeFollows, a, in, st

\* A stream that nothing has been read of.
LEMMA StreamStarts ==
    ASSUME IsPrepared, NEW signal \in Nat, NEW len \in model.lens,
           NEW st, st = StartOf(model, signal, len)
    PROVE  /\ IsAnsweredFor(st, 0) /\ \E wires : StandsFor(wires, st)
           /\ \A wires : StandsFor(wires, st) => Means(Plan, wires, st.len)
<1>1. StreamIsSound(st)
  BY StartIsTyped
<1>2. st.read = 0 /\ st.answer = <<>>
  BY DEF StartOf
<1>3. model.pulse \in Nat /\ model.fact.pulse \in Nat
  BY EndsHavePlainPulses
<1>4. 0 * model.pulse = 0 /\ 0 * model.fact.pulse = 0
  <2> DEFINE a == model.pulse
             b == model.fact.pulse
  <2>1. a \in Nat /\ b \in Nat
    BY <1>3
  <2> HIDE DEF a, b
  <2>2. 0 * a = 0 /\ 0 * b = 0
    BY <2>1
  <2> QED
    BY <2>2 DEF a, b
<1>5. Shows(st.expected, 0, -model.fact.delay, st.answer)
  BY DEF Shows
<1>6. IsAnsweredFor(st, 0)
  BY <1>2, <1>4, <1>5, NoFrames DEF IsAnsweredFor
<1> QED
  BY <1>1, <1>6, StreamStands DEF StandsFor

LEMMA InitFollows ==
    ASSUME Init
    PROVE  LanesFollow
<1>1. SessionInv /\ IsPrepared
  BY InitIsSession DEF SessionInv
<1>2. /\ states = [n \in Nodes |-> [l \in Lanes |-> InitialState(model.nodes[n])]]
      /\ heard = [n \in Nodes |-> [l \in Lanes |-> <<>>]]
      /\ turn = NoTurn
  BY DEF Init
<1>3. PICK lens \in [Lanes -> model.lens] :
         streams = [l \in Lanes |-> StartOf(model, l + 1, lens[l])]
  BY DEF Init
<1>4. turn.seats = {}
  BY <1>2 DEF NoTurn
<1> SUFFICES ASSUME NEW l \in Lanes PROVE \E wires : \E t : LaneFollows(l, wires, t)
  BY DEF LanesFollow
<1>5. l + 1 \in Nat /\ lens[l] \in model.lens /\ streams[l] = StartOf(model, l + 1, lens[l])
  BY <1>1, <1>3, SessionIs
<1>6. IsAnsweredFor(streams[l], 0)
  BY <1>1, <1>5, StreamStarts
<1>7. PICK wires : StandsFor(wires, streams[l])
  BY <1>1, <1>5, StreamStarts
<1>8. Means(Plan, wires, streams[l].len)
  BY <1>7 DEF StandsFor
<1>9. ASSUME NEW n \in Nodes PROVE NodeFollows(n, wires, Gone(l, n, 0), states[n][l], heard[n][l])
  <2>1. states[n][l] = InitialState(model.nodes[n]) /\ heard[n][l] = <<>> /\ Gone(l, n, 0) = 0
    BY <1>2, <1>4 DEF Gone
  <2> QED
    BY <1>1, <1>8, <2>1, NodeStarts
<1>10. LaneFollows(l, wires, 0)
  BY <1>4, <1>6, <1>7, <1>9 DEF LaneFollows
<1> QED
  BY <1>10

\* The first wire of a turn.
LEMMA NextPulseFollows ==
    ASSUME SessionInv, NEW l \in Lanes, NEW wires, NEW t \in Nat,
           StandsFor(wires, streams[l]), IsAnsweredFor(streams[l], t)
    PROVE  WireFollows(wires, t, 0, NextPulse(l))
<1> DEFINE signal == streams[l].signal
           len == streams[l].len
           read == streams[l].read
           n == model.pulse
           a == Stream(signal, len)
<1>1. /\ IsPrepared /\ signal \in Nat /\ len \in model.lens /\ read \in Nat
      /\ read = t * n /\ wires[0] = a /\ n \in Nat
  BY SessionIs DEF SessionInv, StreamsAreSound, StreamIsSound, IsAnsweredFor, StandsFor
<1>2. Hop(0) = n /\ FactOf(Plan, 0).pulse = n /\ FactOf(Plan, 0).delay = 0
  BY <1>1, EndsHavePlainPulses
<1>3. NextPulse(l) = [i \in 1 .. n |-> IF read + i <= len THEN SignalFrame(signal, read + i) ELSE Junk]
  BY DEF NextPulse
<1>4. len \in 1 .. MaxLen /\ MaxLen \in Nat
  BY <1>1, SessionIs
<1>5. a \in Seq(Int) /\ DOMAIN a = 1 .. len /\ \A i \in 1 .. len : a[i] = SignalFrame(signal, i)
  <2> HIDE DEF signal, len
  <2>1. IsStream(a, len) /\ \A i \in 1 .. len : a[i] = SignalFrame(signal, i)
    BY <1>1, <1>4, StreamIsAStream
  <2> QED
    BY <2>1 DEF Stream, IsStream
<1> HIDE DEF signal, len, read, n, a
<1>6. Shows(a, n, read, NextPulse(l))
  BY <1>1, <1>3, <1>4, <1>5 DEF Shows
<1>7. Starts(a, 0)
  BY <1>5, SequencesStart
<1>8. t * Hop(0) - FactOf(Plan, 0).delay = read
  BY <1>1, <1>2
<1> QED
  BY <1>1, <1>2, <1>6, <1>7, <1>8 DEF WireFollows

LEMMA StartTurnFollows ==
    ASSUME SessionInv, LanesFollow, NEW seats \in SUBSET Lanes, StartTurn(seats)
    PROVE  LanesFollow'
<1> DEFINE s == CHOOSE u \in Bindable(seats) : TRUE
           first == [l \in seats |-> NextPulse(l)]
<1>1. /\ turn' = [seats |-> seats, at |-> 1, values |-> <<first>>, s |-> s]
      /\ model' = model /\ states' = states /\ limits' = limits /\ streams' = streams
      /\ heard' = heard /\ seats # {} /\ Cardinality(Bindable(seats)) = 1 /\ turn = NoTurn
  BY DEF StartTurn, IsIdle
<1>2. /\ s \in Bound
      /\ s = Unbound => \A l \in seats : ~HasEnded(l)
      /\ s # Unbound => \A l \in seats : HasEnded(l) /\ streams[l].len = s
  <2> HIDE DEF s
  <2> QED
    BY <1>1, BindableIs DEF s
<1> HIDE DEF s, first
<1>3. turn'.seats = seats /\ turn'.at = 1 /\ turn'.values[1] = first /\ turn'.s = s
      /\ turn.seats = {}
  BY <1>1 DEF NoTurn
<1> SUFFICES ASSUME NEW l \in Lanes, ~streams[l].broken
             PROVE  \E wires : \E t : LaneFollows(l, wires, t)'
  BY <1>1, SamePlan DEF LanesFollow
<1>4. PICK wires, t : LaneFollows(l, wires, t)
  BY DEF LanesFollow
<1>5. /\ t \in Nat /\ StandsFor(wires, streams[l]) /\ IsAnsweredFor(streams[l], t)
      /\ \A n \in Nodes : NodeFollows(n, wires, Gone(l, n, t), states[n][l], heard[n][l])
  BY <1>4 DEF LaneFollows
<1>6. /\ StandsFor(wires, streams[l])' /\ IsAnsweredFor(streams[l], t)'
  BY <1>1, <1>5, SamePlan
<1>7. ASSUME NEW n \in Nodes
      PROVE  NodeFollows(n, wires, Gone(l, n, t), states[n][l], heard[n][l])'
  <2>1. n \in Nat \ {0}
    BY SessionIs, NodeIs
  <2>2. Gone(l, n, t) = t /\ Gone(l, n, t)' = t
    BY <1>3, <2>1 DEF Gone
  <2>3. NodeFollows(n, wires, t, states[n][l], heard[n][l])
    BY <1>5, <2>2
  <2> QED
    BY <1>1, <2>2, <2>3, SamePlan
<1>8. ASSUME l \in seats PROVE TurnFollows(l, wires, t)'
  <2>1. WireFollows(wires, t, 0, first[l])
    BY <1>5, <1>8, NextPulseFollows DEF first
  <2>2. \A w \in 0 .. turn'.at - 1 : WireFollows(wires, t, w, turn'.values[w + 1][l])
    <3> TAKE w \in 0 .. turn'.at - 1
    <3>1. w = 0 /\ w + 1 = 1
      BY <1>3
    <3> QED
      BY <1>3, <2>1, <3>1
  <2>3. s = Unbound => t * model.pulse + model.pulse <= streams[l].len
    <3> HAVE s = Unbound
    <3> DEFINE read == streams[l].read
               len == streams[l].len
               n == model.pulse
    <3>1. ~(read + n > len)
      BY <1>2, <1>8 DEF HasEnded
    <3>2. read = t * n /\ read \in Nat /\ n \in Nat /\ len \in Nat
      BY <1>5, SessionIs DEF SessionInv, StreamsAreSound, StreamIsSound, IsAnsweredFor
    <3> HIDE DEF read, len, n
    <3>3. t * n + n <= len
      BY <3>1, <3>2
    <3> QED
      BY <3>3 DEF len, n
  <2> QED
    BY <1>1, <1>2, <1>3, <1>8, <2>2, <2>3, SamePlan DEF TurnFollows
<1>9. LaneFollows(l, wires, t)'
  BY <1>1, <1>3, <1>5, <1>6, <1>7, <1>8, SamePlan DEF LaneFollows
<1> QED
  BY <1>9

LEMMA FailTurnFollows ==
    ASSUME SessionInv, LanesFollow, FailTurn
    PROVE  LanesFollow'
<1>1. /\ turn' = NoTurn /\ model' = model /\ states' = states /\ limits' = limits /\ heard' = heard
      /\ streams' = [l \in Lanes |->
                       [streams[l] EXCEPT !.broken = streams[l].broken \/ l \in turn.seats]]
  BY DEF FailTurn
<1>2. turn'.seats = {}
  BY <1>1 DEF NoTurn
<1> SUFFICES ASSUME NEW l \in Lanes, ~streams'[l].broken
             PROVE  \E wires : \E t : LaneFollows(l, wires, t)'
  BY <1>1, SamePlan DEF LanesFollow
<1> DEFINE st == streams[l]
           b == st.broken \/ l \in turn.seats
<1>3. StreamIsSound(st) /\ streams'[l] = [st EXCEPT !.broken = b]
  BY <1>1 DEF SessionInv, StreamsAreSound
<1>4. streams'[l] = [signal |-> st.signal, len |-> st.len, read |-> st.read, answer |-> st.answer,
                     broken |-> b, expected |-> st.expected]
  <2> HIDE DEF st, b
  <2> QED
    BY <1>3, BrokenStream
<1>5. ~b
  <2> HIDE DEF st, b
  <2>1. streams'[l].broken = b
    BY <1>4
  <2> QED
    BY <2>1
<1> DEFINE new == streams'[l]
<1>6. /\ new.signal = st.signal /\ new.len = st.len /\ new.read = st.read
      /\ new.answer = st.answer /\ new.expected = st.expected
  <2> HIDE DEF st, b
  <2> QED
    BY <1>4
<1>7. PICK wires, t : LaneFollows(l, wires, t)
  BY <1>5 DEF LanesFollow
<1>8. /\ t \in Nat /\ StandsFor(wires, streams[l]) /\ IsAnsweredFor(streams[l], t)
      /\ \A n \in Nodes : NodeFollows(n, wires, Gone(l, n, t), states[n][l], heard[n][l])
  BY <1>7 DEF LaneFollows
<1>9. ASSUME NEW n \in Nodes
      PROVE  NodeFollows(n, wires, Gone(l, n, t), states[n][l], heard[n][l])'
  <2>1. Gone(l, n, t) = t /\ Gone(l, n, t)' = t
    BY <1>2, <1>5 DEF Gone
  <2>2. NodeFollows(n, wires, t, states[n][l], heard[n][l])
    BY <1>8, <2>1
  <2> QED
    BY <1>1, <2>1, <2>2, SamePlan
<1>10. /\ StandsFor(wires, streams[l])' /\ IsAnsweredFor(streams[l], t)'
  <2> HIDE DEF new
  <2>1. StandsFor(wires, new) /\ IsAnsweredFor(new, t)
    BY <1>6, <1>8 DEF StandsFor, IsAnsweredFor
  <2> QED
    BY <1>1, <2>1, SamePlan DEF new
<1>11. LaneFollows(l, wires, t)'
  BY <1>1, <1>2, <1>8, <1>9, <1>10, SamePlan DEF LaneFollows
<1> QED
  BY <1>11

LEMMA ResetLaneFollows ==
    ASSUME SessionInv, LanesFollow, NEW l \in Lanes, NEW len \in model.lens, ResetLane(l, len)
    PROVE  LanesFollow'
<1> DEFINE signal == streams[l].signal + Cardinality(Lane)
<1>1. /\ turn' = turn /\ model' = model /\ limits' = limits /\ turn = NoTurn
      /\ states' = [n \in Nodes |-> [states[n] EXCEPT ![l] = InitialState(model.nodes[n])]]
      /\ heard' = [n \in Nodes |-> [heard[n] EXCEPT ![l] = <<>>]]
      /\ streams' = [streams EXCEPT ![l] = StartOf(model, signal, len)]
  BY DEF ResetLane, IsIdle
<1>2. turn.seats = {} /\ turn'.seats = {}
  BY <1>1 DEF NoTurn
<1>3. TablesAreSound /\ StreamsAreSound /\ IsPrepared
  BY DEF SessionInv
<1>4. signal \in Nat
  <2> DEFINE a == streams[l].signal
             b == Cardinality(Lane)
  <2>1. a \in Nat
    BY <1>3 DEF StreamsAreSound, StreamIsSound
  <2>2. b \in Nat
    BY PulseSessionAssumption, FS_CardinalityType
  <2> HIDE DEF a, b
  <2>3. a + b \in Nat
    BY <2>1, <2>2
  <2> QED
    BY <2>3 DEF a, b
<1> HIDE DEF signal
<1> SUFFICES ASSUME NEW k \in Lanes, ~streams'[k].broken
             PROVE  \E wires : \E t : LaneFollows(k, wires, t)'
  BY <1>1, SamePlan DEF LanesFollow
<1>5. CASE k = l
  <2>1. streams'[k] = StartOf(model, signal, len)
    BY <1>1, <1>3, <1>5 DEF StreamsAreSound
  <2>2. IsAnsweredFor(streams'[k], 0)
    BY <1>3, <1>4, <2>1, StreamStarts
  <2>3. PICK wires : StandsFor(wires, streams'[k])
    BY <1>3, <1>4, <2>1, StreamStarts
  <2>4. Means(Plan, wires, streams'[k].len)
    BY <2>3 DEF StandsFor
  <2>5. ASSUME NEW n \in Nodes
        PROVE  NodeFollows(n, wires, Gone(k, n, 0), states[n][k], heard[n][k])'
    <3>1. states'[n][k] = InitialState(model.nodes[n]) /\ heard'[n][k] = <<>>
      BY <1>1, <1>3, <1>5 DEF TablesAreSound
    <3>2. Gone(k, n, 0)' = 0
      BY <1>2 DEF Gone
    <3>3. NodeFollows(n, wires, 0, states'[n][k], heard'[n][k])
      BY <1>3, <2>4, <3>1, NodeStarts
    <3> QED
      BY <1>1, <3>2, <3>3, SamePlan
  <2>6. StandsFor(wires, streams[k])' /\ IsAnsweredFor(streams[k], 0)'
    BY <1>1, <2>2, <2>3, SamePlan
  <2>7. LaneFollows(k, wires, 0)'
    BY <1>1, <1>2, <2>5, <2>6, SamePlan DEF LaneFollows
  <2> QED
    BY <2>7
<1>6. CASE k # l
  <2>1. streams'[k] = streams[k]
    BY <1>1, <1>3, <1>6 DEF StreamsAreSound
  <2>2. PICK wires, t : LaneFollows(k, wires, t)
    BY <2>1 DEF LanesFollow
  <2>3. /\ t \in Nat /\ StandsFor(wires, streams[k]) /\ IsAnsweredFor(streams[k], t)
        /\ \A n \in Nodes : NodeFollows(n, wires, Gone(k, n, t), states[n][k], heard[n][k])
    BY <2>2 DEF LaneFollows
  <2>4. ASSUME NEW n \in Nodes
        PROVE  NodeFollows(n, wires, Gone(k, n, t), states[n][k], heard[n][k])'
    <3>1. states'[n][k] = states[n][k] /\ heard'[n][k] = heard[n][k]
      BY <1>1, <1>3, <1>6 DEF TablesAreSound
    <3>2. Gone(k, n, t) = t /\ Gone(k, n, t)' = t
      BY <1>2 DEF Gone
    <3>3. NodeFollows(n, wires, t, states'[n][k], heard'[n][k])
      BY <2>3, <3>1, <3>2
    <3> QED
      BY <1>1, <3>2, <3>3, SamePlan
  <2>5. StandsFor(wires, streams[k])' /\ IsAnsweredFor(streams[k], t)'
    BY <1>1, <2>1, <2>3, SamePlan
  <2>6. LaneFollows(k, wires, t)'
    BY <1>1, <1>2, <2>3, <2>4, <2>5, SamePlan DEF LaneFollows
  <2> QED
    BY <2>6
<1> QED
  BY <1>5, <1>6

\* What is answered to a stream goes on where it was.
LEMMA AnswerGoesOn ==
    ASSUME NEW a, NEW delay \in Nat, Starts(a, delay), NEW h \in Seq(Int), NEW m \in Nat,
           NEW x \in [1 .. m -> Int], NEW t \in Nat, Len(h) = t * m,
           Shows(a, t * m, -delay, h), Shows(a, m, t * m - delay, x)
    PROVE  Len(h \o x) = (t + 1) * m /\ Shows(a, (t + 1) * m, -delay, h \o x)
<1>1. x \in Seq(Int) /\ Len(x) = m
  BY ListedIsASequence
<1>2. Shows(a, Len(h), -delay, h) /\ Shows(a, Len(x), Len(h) - delay, x)
  BY <1>1
<1>3. Shows(a, Len(h \o x), -delay, h \o x)
  BY <1>1, <1>2, DelayShows
<1>4. Len(h \o x) = Len(h) + Len(x)
  BY <1>1, TwoParts
<1>5. (t + 1) * m = t * m + m
  OBVIOUS
<1> QED
  BY <1>1, <1>3, <1>4, <1>5

LEMMA FinishTurnFollows ==
    ASSUME SessionInv, LanesFollow, FinishTurn
    PROVE  LanesFollow'
<1> DEFINE n == Len(model.nodes)
<1>1. /\ turn.at = n + 1 /\ turn' = NoTurn
      /\ model' = model /\ states' = states /\ limits' = limits /\ heard' = heard
      /\ streams' = [l \in Lanes |->
                       IF l \in turn.seats
                       THEN [streams[l] EXCEPT !.read = streams[l].read + model.pulse,
                                               !.answer = streams[l].answer \o Last(turn.values)[l]]
                       ELSE streams[l]]
  BY DEF FinishTurn
<1>2. turn'.seats = {} /\ IsPrepared /\ n \in Nat /\ Nodes = 1 .. n /\ TurnIsSound
  BY <1>1, SessionIs DEF NoTurn, SessionInv
<1> HIDE DEF n
<1>5. n \in 0 .. turn.at - 1 /\ \A k \in Nodes : k < turn.at
  <2> DEFINE at == turn.at
  <2>1. at = n + 1 /\ n \in Nat /\ Nodes = 1 .. n
    BY <1>1, <1>2
  <2> HIDE DEF at
  <2>2. n \in 0 .. at - 1 /\ \A k \in Nodes : k < at
    BY <2>1
  <2> QED
    BY <2>2 DEF at
<1> SUFFICES ASSUME NEW l \in Lanes, ~streams'[l].broken
             PROVE  \E wires : \E t : LaneFollows(l, wires, t)'
  BY <1>1, SamePlan DEF LanesFollow
<1>3. CASE l \notin turn.seats
  <2>1. streams'[l] = streams[l]
    BY <1>1, <1>3
  <2>2. PICK wires, t : LaneFollows(l, wires, t)
    BY <2>1 DEF LanesFollow
  <2>3. /\ t \in Nat /\ StandsFor(wires, streams[l]) /\ IsAnsweredFor(streams[l], t)
        /\ \A k \in Nodes : NodeFollows(k, wires, Gone(l, k, t), states[k][l], heard[k][l])
    BY <2>2 DEF LaneFollows
  <2>4. ASSUME NEW k \in Nodes
        PROVE  NodeFollows(k, wires, Gone(l, k, t), states[k][l], heard[k][l])'
    <3>1. Gone(l, k, t) = t /\ Gone(l, k, t)' = t
      BY <1>2, <1>3 DEF Gone
    <3>2. NodeFollows(k, wires, t, states[k][l], heard[k][l])
      BY <2>3, <3>1
    <3> QED
      BY <1>1, <3>1, <3>2, SamePlan
  <2>5. StandsFor(wires, streams[l])' /\ IsAnsweredFor(streams[l], t)'
    BY <1>1, <2>1, <2>3, SamePlan
  <2>6. LaneFollows(l, wires, t)'
    BY <1>1, <1>2, <2>3, <2>4, <2>5, SamePlan DEF LaneFollows
  <2> QED
    BY <2>6
<1>4. CASE l \in turn.seats
  <2> DEFINE st == streams[l]
             z == Last(turn.values)[l]
             read == st.read + model.pulse
             answer == st.answer \o z
             new == streams'[l]
             delay == model.fact.delay
             m == model.fact.pulse
  <2>1. StreamIsSound(st) /\ new = [st EXCEPT !.read = read, !.answer = answer]
    BY <1>1, <1>4 DEF SessionInv, StreamsAreSound
  <2>2. new = [signal |-> st.signal, len |-> st.len, read |-> read, answer |-> answer,
               broken |-> st.broken, expected |-> st.expected]
    <3> HIDE DEF st, read, answer, new
    <3> QED
      BY <2>1, AnsweredStream
  <2>3. /\ new.signal = st.signal /\ new.len = st.len /\ new.read = read
        /\ new.answer = answer /\ new.expected = st.expected /\ new.broken = st.broken
    <3> HIDE DEF st, read, answer, new
    <3> QED
      BY <2>2
  <2>4. PICK wires, t : LaneFollows(l, wires, t)
    <3>1. ~st.broken
      BY <2>3
    <3> QED
      BY <3>1 DEF LanesFollow
  <2>5. /\ t \in Nat /\ StandsFor(wires, st) /\ IsAnsweredFor(st, t)
        /\ \A k \in Nodes : NodeFollows(k, wires, Gone(l, k, t), states[k][l], heard[k][l])
        /\ TurnFollows(l, wires, t)
    BY <1>4, <2>4 DEF LaneFollows
  <2>6. z = turn.values[n + 1][l] /\ z \in [1 .. FactOf(Plan, n).pulse -> Int]
    <3>1. /\ IsFrames(turn.values) /\ Len(turn.values) = turn.at
          /\ \A w \in 0 .. turn.at - 1 : \A k \in turn.seats :
                turn.values[w + 1][k] \in [1 .. FactOf(Plan, w).pulse -> Int]
      BY <1>2 DEF TurnIsSound
    <3>2. n \in 0 .. turn.at - 1
      BY <1>5
    <3>3. z = turn.values[n + 1][l]
      BY <1>1, <3>1 DEF Last
    <3> QED
      BY <1>4, <3>1, <3>2, <3>3
  <2>7. /\ FactOf(Plan, n) = model.fact /\ Hop(n) = m /\ m \in Nat /\ delay \in Nat
        /\ model.pulse \in Nat
    BY <1>2, EndsHavePlainPulses DEF n
  <2>8. WireFollows(wires, t, n, z)
    <3>1. n \in 0 .. turn.at - 1
      BY <1>5
    <3> QED
      BY <2>5, <2>6, <3>1 DEF TurnFollows
  <2>9. Shows(st.expected, m, t * m - delay, z) /\ Starts(st.expected, delay)
    <3>1. wires[n] = st.expected
      BY <2>5 DEF StandsFor, n
    <3> QED
      BY <2>7, <2>8, <3>1 DEF WireFollows
  <2>10. /\ st.answer \in Seq(Int) /\ Len(st.answer) = t * m /\ st.read = t * model.pulse
         /\ Shows(st.expected, t * m, -delay, st.answer)
    BY <2>1, <2>5 DEF StreamIsSound, IsAnsweredFor
  <2>11. Len(answer) = (t + 1) * m /\ Shows(st.expected, (t + 1) * m, -delay, answer)
    <3>1. z \in [1 .. m -> Int]
      BY <2>6, <2>7
    <3> DEFINE c == st.expected
               h == st.answer
    <3>2. /\ Starts(c, delay) /\ h \in Seq(Int) /\ Len(h) = t * m
          /\ Shows(c, t * m, -delay, h) /\ Shows(c, m, t * m - delay, z)
          /\ t \in Nat /\ m \in Nat /\ delay \in Nat
      BY <2>5, <2>7, <2>9, <2>10
    <3> HIDE DEF z, m, delay, st, c, h
    <3>3. Len(h \o z) = (t + 1) * m /\ Shows(c, (t + 1) * m, -delay, h \o z)
      BY <3>1, <3>2, AnswerGoesOn
    <3> QED
      BY <3>3 DEF c, h
  <2>12. read = (t + 1) * model.pulse
    <3> DEFINE p == model.pulse
               r == st.read
    <3>1. p \in Nat /\ t \in Nat /\ r = t * p
      BY <2>5, <2>7, <2>10
    <3> HIDE DEF p, r
    <3>2. r + p = (t + 1) * p
      BY <3>1
    <3> QED
      BY <3>2 DEF p, r
  <2>13. IsAnsweredFor(new, t + 1) /\ StandsFor(wires, new) /\ t + 1 \in Nat
    <3>1. t + 1 \in Nat
      BY <2>5
    <3> HIDE DEF new, st, read, answer
    <3>2. IsAnsweredFor(new, t + 1)
      BY <2>3, <2>11, <2>12 DEF IsAnsweredFor
    <3>3. StandsFor(wires, new)
      BY <2>3, <2>5 DEF StandsFor
    <3> QED
      BY <3>1, <3>2, <3>3
  <2>14. ASSUME NEW k \in Nodes
         PROVE  NodeFollows(k, wires, Gone(l, k, t + 1), states[k][l], heard[k][l])'
    <3>1. k < turn.at
      BY <1>5
    <3>2. Gone(l, k, t) = t + 1 /\ Gone(l, k, t + 1)' = t + 1
      BY <1>2, <1>4, <3>1 DEF Gone
    <3>3. NodeFollows(k, wires, t + 1, states[k][l], heard[k][l])
      BY <2>5, <3>2
    <3> QED
      BY <1>1, <3>2, <3>3, SamePlan
  <2>15. StandsFor(wires, streams[l])' /\ IsAnsweredFor(streams[l], t + 1)'
    <3> HIDE DEF st
    <3> QED
      BY <1>1, <2>13, SamePlan
  <2>16. LaneFollows(l, wires, t + 1)'
    BY <1>1, <1>2, <2>13, <2>14, <2>15, SamePlan DEF LaneFollows
  <2> QED
    BY <2>16
<1> QED
  BY <1>3, <1>4

\* What evaluating a node changes, seat by seat.
EvalChanges ==
    /\ turn.at \in Nodes /\ model' = model /\ streams' = streams
    /\ turn'.seats = turn.seats /\ turn'.at = turn.at + 1 /\ turn'.s = turn.s
    /\ \A w \in 0 .. turn.at - 1 : turn'.values[w + 1] = turn.values[w + 1]
    /\ turn'.values[turn.at + 1] = Output
    /\ \A n \in Nodes : \A l \in Lanes :
          /\ n = turn.at /\ l \in turn.seats =>
                /\ states'[n][l] = Moved(states[n][l], Input(1, l))
                /\ heard'[n][l] = HeardAfter(heard[n][l], Input(1, l))
          /\ n # turn.at \/ l \notin turn.seats =>
                states'[n][l] = states[n][l] /\ heard'[n][l] = heard[n][l]

LEMMA EvalDoes ==
    ASSUME SessionInv, EvalNode
    PROVE  EvalChanges
<1>1. Evaluates
  BY EvalKeeps
<1>2. /\ turn.at \in Nodes /\ model' = model /\ streams' = streams
      /\ turn' = [turn EXCEPT !.at = turn.at + 1, !.values = Append(turn.values, Output)]
      /\ states' = [states EXCEPT ![turn.at] = Moves]
  BY <1>1 DEF Evaluates
<1>3. TablesAreSound /\ TurnIsSound /\ Nodes = 1 .. Len(model.nodes)
  BY SessionIs DEF SessionInv
<1> DEFINE seats == turn.seats
           at == turn.at
           values == turn.values
           s == turn.s
           more == Append(values, Output)
<1>4. /\ turn = [seats |-> seats, at |-> at, values |-> values, s |-> s]
      /\ IsFrames(values) /\ Len(values) = at
  BY <1>3 DEF TurnIsSound
<1>5. turn' = [turn EXCEPT !.at = at + 1, !.values = more]
  BY <1>2
<1> HIDE DEF seats, at, values, s
<1>6. (\A k \in 1 .. at : more[k] = values[k]) /\ more[at + 1] = Output
  BY <1>4, AppendedAreFrames
<1> HIDE DEF more
<1>7. turn' = [seats |-> seats, at |-> at + 1, values |-> more, s |-> s]
  BY <1>4, <1>5
<1>8. turn'.seats = seats /\ turn'.at = at + 1 /\ turn'.values = more /\ turn'.s = s
  BY <1>7
<1>9. at \in Nat
  BY <1>2, SessionIs DEF at
<1>10. \A w \in 0 .. at - 1 : more[w + 1] = values[w + 1]
  <2> TAKE w \in 0 .. at - 1
  <2>1. w + 1 \in 1 .. at
    BY <1>9
  <2> QED
    BY <1>6, <2>1
<1>11. /\ turn'.seats = turn.seats /\ turn'.at = turn.at + 1 /\ turn'.s = turn.s
       /\ \A w \in 0 .. turn.at - 1 : turn'.values[w + 1] = turn.values[w + 1]
       /\ turn'.values[turn.at + 1] = Output
  BY <1>6, <1>8, <1>10 DEF seats, at, values, s
<1>12. ASSUME NEW n \in Nodes, NEW l \in Lanes
       PROVE  /\ n = turn.at /\ l \in turn.seats =>
                    /\ states'[n][l] = Moved(states[n][l], Input(1, l))
                    /\ heard'[n][l] = HeardAfter(heard[n][l], Input(1, l))
              /\ n # turn.at \/ l \notin turn.seats =>
                    states'[n][l] = states[n][l] /\ heard'[n][l] = heard[n][l]
  <2>1. states = [k \in Nodes |-> [j \in Lanes |-> states[k][j]]]
    BY <1>3 DEF TablesAreSound
  <2>2. heard = [k \in Nodes |-> [j \in Lanes |-> heard[k][j]]]
    BY <1>3 DEF TablesAreSound
  <2>3. CASE n # turn.at
    <3>1. states'[n] = states[n]
      BY <1>2, <2>1, <2>3
    <3>2. heard'[n] = heard[n]
      BY <1>1, <2>2, <2>3 DEF Evaluates
    <3> QED
      BY <2>3, <3>1, <3>2
  <2>4. CASE n = turn.at
    <3>1. states'[n] = Moves
      BY <1>2, <2>1, <2>4
    <3>2. states'[n][l] = IF l \in turn.seats THEN Moved(states[n][l], Input(1, l)) ELSE states[n][l]
      BY <2>4, <3>1 DEF Moves, State
    <3>3. heard'[n][l] = IF l \in turn.seats THEN HeardAfter(heard[n][l], Input(1, l))
                         ELSE heard[n][l]
      <4>1. CASE Node.kind = "delay"
        <5>1. heard'[n] = [j \in Lanes |-> IF j \in turn.seats THEN heard[turn.at][j] \o Input(1, j)
                                           ELSE heard[turn.at][j]]
          BY <1>1, <2>2, <2>4, <4>1 DEF Evaluates
        <5> QED
          BY <2>4, <4>1, <5>1 DEF HeardAfter
      <4>2. CASE Node.kind # "delay"
        BY <1>1, <4>2 DEF Evaluates, HeardAfter
      <4> QED
        BY <4>1, <4>2
    <3> QED
      BY <2>4, <3>2, <3>3
  <2> QED
    BY <2>3, <2>4
<1> QED
  BY <1>2, <1>11, <1>12 DEF EvalChanges

\* How fast a wire goes, and the one before it.
LEMMA HopsAgree ==
    ASSUME AtWork
    PROVE  /\ Hop(Node.from[1]) = In.pulse - PastIn /\ Hop(turn.at) \in Nat /\ Hop(Node.from[1]) \in Nat
           /\ Node.kind \in {"conv", "pool", "downsample"} =>
                 Node.stride \in Nat /\ Hop(Node.from[1]) = Hop(turn.at) * Node.stride
           /\ Node.kind \in {"deconv", "deconvdelay"} =>
                 Hop(Node.from[1]) = In.pulse /\ Hop(turn.at) = Out.pulse
           /\ Node.kind \notin {"conv", "pool", "downsample", "deconv", "deconvdelay"} =>
                 Hop(Node.from[1]) = Hop(turn.at)
<1> DEFINE at == turn.at
           w == Node.from[1]
           n == In.pulse
           m == Out.pulse
           o == Node.overlap
           stride == Node.stride
<1>1. IsPrepared /\ at \in Nodes /\ Len(model.nodes) \in Nat /\ Nodes = 1 .. Len(model.nodes)
      /\ model.nodes = Plan.nodes /\ w \in 0 .. at - 1 /\ Node = Plan.nodes[at]
  BY AtWorkIs, ModelIs DEF AtWork, Node
<1>2. at \in 0 .. Len(model.nodes) /\ w \in 0 .. Len(model.nodes) /\ at \in 1 .. Len(Plan.nodes)
  <2> HIDE DEF at, w
  <2> QED
    BY <1>1
<1>3. Hop(at) \in Nat /\ Hop(w) \in Nat
  BY <1>1, <1>2, HopIs
<1>4. Hop(w) = n - PastIn /\ Hop(at) = m - Past(Plan, at)
  BY DEF Hop, In, Out, PastIn
<1>5. n \in Nat /\ m \in Nat /\ PastIn \in Nat /\ IsNode(Node, PastIn, In, Out)
  BY AtWorkIs
<1>6. Past(Plan, at) = IF Node.kind \in {"delay", "pad"} THEN o ELSE 0
  BY <1>1, <1>2 DEF Past
<1>7. CASE Node.kind = "delay"
  <2>1. PastIn = 0 /\ o \in Nat /\ m = n + o
    BY <1>5, <1>7 DEF IsNode
  <2>2. Past(Plan, at) = o
    BY <1>6, <1>7
  <2> DEFINE p == PastIn
             r == Past(Plan, at)
  <2> HIDE DEF n, m, o, p, r
  <2>3. p = 0 /\ r = o
    BY <2>1, <2>2 DEF p, r
  <2>4. m - r = n - p
    BY <1>5, <2>1, <2>3
  <2> QED
    BY <1>3, <1>4, <1>7, <2>4 DEF p, r, n
<1>8. CASE Node.kind = "pad"
  <2>1. PastIn = o /\ o \in Nat /\ m = n
    BY <1>5, <1>8 DEF IsNode
  <2>2. Past(Plan, at) = o
    BY <1>6, <1>8
  <2> QED
    BY <1>3, <1>4, <1>8, <2>1, <2>2
<1>9. CASE Node.kind \in {"conv", "pool"}
  <2>1. n - PastIn = m * stride /\ stride \in Nat
    BY <1>5, <1>9 DEF IsNode
  <2>2. Past(Plan, at) = 0
    BY <1>6, <1>9
  <2>3. Hop(at) = m
    <3> HIDE DEF m
    <3> QED
      BY <1>4, <1>5, <2>2
  <2> QED
    BY <1>3, <1>4, <1>9, <2>1, <2>3
<1>10. CASE Node.kind = "downsample"
  <2>1. n = m * stride /\ stride \in Nat /\ PastIn = 0
    BY <1>5, <1>10 DEF IsNode
  <2>2. Past(Plan, at) = 0
    BY <1>6, <1>10
  <2>3. Hop(at) = m /\ Hop(w) = n
    <3> HIDE DEF m, n
    <3> QED
      BY <1>4, <1>5, <2>1, <2>2
  <2> QED
    BY <1>3, <1>4, <1>10, <2>1, <2>3
<1>11. CASE Node.kind \in {"concat", "cumsum", "scan", "mask", "identity", "sum"}
  <2>1. n = m /\ PastIn = 0
    BY <1>5, <1>11 DEF IsNode
  <2>2. Past(Plan, at) = 0
    BY <1>6, <1>11
  <2> QED
    BY <1>3, <1>4, <1>11, <2>1, <2>2
<1>12. CASE Node.kind \in {"deconv", "deconvdelay"}
  <2>1. PastIn = 0 /\ Past(Plan, at) = 0
    BY <1>5, <1>6, <1>12 DEF IsNode
  <2>2. Hop(at) = m /\ Hop(w) = n
    <3> HIDE DEF m, n
    <3> QED
      BY <1>4, <1>5, <2>1
  <2> QED
    BY <1>3, <1>4, <1>12, <2>2
<1>13. Node.kind \in {"delay", "pad", "concat", "cumsum", "scan", "mask", "deconvdelay", "conv",
                      "pool", "downsample", "identity", "deconv", "sum"}
  BY <1>5 DEF IsNode
<1> QED
  BY <1>7, <1>8, <1>9, <1>10, <1>11, <1>12, <1>13

\* The node at hand, of a lane that follows its stream.
LEMMA NodeWorks ==
    ASSUME SessionInv, IsTold, turn.at \in Nodes, NEW l \in turn.seats,
           NEW wires, NEW t, LaneFollows(l, wires, t), NEW b,
           b = (IF Node.kind = "sum" THEN wires[Node.from[2]] ELSE <<>>)
    PROVE  Works(streams[l].len, wires[Node.from[1]], b, wires[turn.at],
                 t * Hop(Node.from[1]), t * Hop(turn.at), Input(1, l), Input(2, l),
                 states[turn.at][l], heard[turn.at][l])
<1> DEFINE at == turn.at
           w == Node.from[1]
           len == streams[l].len
           a == wires[w]
           c == wires[at]
           pos == t * Hop(w)
           q == t * Hop(at)
           x == Input(1, l)
           y == Input(2, l)
           st == states[at][l]
           h == heard[at][l]
<1>1. /\ AtWork /\ In = InFact(at) /\ IsPrepared /\ l \in Lanes /\ Node = model.nodes[at]
      /\ model.nodes = Plan.nodes /\ Nodes = 1 .. Len(model.nodes) /\ model.lens \subseteq 1 .. MaxLen
      /\ MaxLen \in Nat
  BY NodeAtWork, SessionIs, ModelIs DEF Node
<1>2. /\ t \in Nat /\ StandsFor(wires, streams[l]) /\ TurnFollows(l, wires, t)
      /\ NodeFollows(at, wires, Gone(l, at, t), st, h)
  BY DEF LaneFollows
<1>3. /\ Node.kind = "deconvdelay" => IsScaled(Node.stride, In.delay)
      /\ len \in model.lens /\ IsTimely(at, len)
  BY <1>1 DEF IsTold, SessionInv, StreamsAreSound, StreamIsSound
<1>4. len \in Lengths
  <2> HIDE DEF len
  <2> QED
    BY <1>1, <1>3 DEF Lengths
<1>5. Follows(Node, In, Out, len, a, b, c)
  <2>1. Means(Plan, wires, len)
    BY <1>2 DEF StandsFor
  <2>2. at \in 1 .. Len(Plan.nodes) /\ Node = Plan.nodes[at]
    BY <1>1
  <2> QED
    BY <2>1, <2>2 DEF Means, In, Out
<1>6. /\ Hop(w) = In.pulse - PastIn /\ Hop(at) \in Nat /\ Hop(w) \in Nat
      /\ Node.kind \in {"conv", "pool", "downsample"} =>
            Node.stride \in Nat /\ Hop(w) = Hop(at) * Node.stride
      /\ Node.kind \in {"deconv", "deconvdelay"} => Hop(w) = In.pulse /\ Hop(at) = Out.pulse
      /\ Node.kind \notin {"conv", "pool", "downsample", "deconv", "deconvdelay"} => Hop(w) = Hop(at)
  BY <1>1, HopsAgree
<1>7. /\ pos \in Nat /\ q \in Nat
      /\ IF Node.kind \in {"conv", "pool", "downsample"} THEN pos = q * Node.stride
         ELSE IF Node.kind \in {"deconv", "deconvdelay"} THEN InPulses(pos, q) ELSE pos = q
  <2> DEFINE u == Hop(w)
             v == Hop(at)
             z == Node.stride
  <2>1. u \in Nat /\ v \in Nat /\ t \in Nat
    BY <1>2, <1>6
  <2>2. t * u \in Nat /\ t * v \in Nat
    <3> HIDE DEF u, v
    <3> QED
      BY <2>1
  <2>3. ASSUME Node.kind \in {"conv", "pool", "downsample"} PROVE t * u = (t * v) * z
    <3>1. z \in Nat /\ u = v * z
      BY <1>6, <2>3
    <3> HIDE DEF u, v, z
    <3>2. t * (v * z) = (t * v) * z
      BY <2>1, <3>1
    <3> QED
      BY <3>1, <3>2
  <2>4. ASSUME Node.kind \in {"deconv", "deconvdelay"} PROVE InPulses(t * u, t * v)
    <3>1. t * u = FramesOf(t, In.pulse) /\ t * v = FramesOf(t, Out.pulse)
      BY <1>6, <2>4 DEF FramesOf
    <3> QED
      BY <2>1, <3>1 DEF InPulses
  <2> QED
    BY <1>6, <2>2, <2>3, <2>4
<1>8. x \in [1 .. In.pulse -> Int]
  BY InputIs
<1>9. /\ w \in 0 .. at - 1 /\ (Node.kind = "sum" => Node.from[2] \in 0 .. at - 1)
      /\ x = turn.values[w + 1][l] /\ y = turn.values[Node.from[2] + 1][l]
  BY <1>1, AtWorkIs DEF Input
<1>10. Shows(a, In.pulse, pos - In.delay, x) /\ Starts(a, In.delay)
  <2>1. WireFollows(wires, t, w, x)
    BY <1>2, <1>9 DEF TurnFollows
  <2> QED
    BY <2>1 DEF WireFollows, In
<1>11. ASSUME Node.kind = "sum" PROVE Shows(b, In.pulse, pos - In.delay, y)
  <2> DEFINE v == Node.from[2]
  <2>1. WireFollows(wires, t, v, y)
    BY <1>2, <1>9, <1>11 DEF TurnFollows
  <2>2. FactOf(Plan, v).pulse = In.pulse /\ In.pulse \in Nat /\ IsNode(Node, PastIn, In, Out)
    BY <1>1, <1>11, AtWorkIs
  <2>3. Past(Plan, v) = 0 /\ FactOf(Plan, v).delay = Out.delay
    <3>1. InStep(Plan, Node, Out)
      BY <1>1, NodeIs DEF Out
    <3> QED
      BY <1>11, <3>1 DEF InStep
  <2>4. Out.delay = In.delay /\ PastIn = 0
    BY <1>11, <2>2 DEF IsNode
  <2>5. Hop(v) = Hop(w)
    BY <1>6, <2>2, <2>3, <2>4 DEF Hop
  <2>6. b = wires[v]
    BY <1>11
  <2>7. Shows(wires[v], FactOf(Plan, v).pulse, t * Hop(v) - FactOf(Plan, v).delay, y)
    BY <2>1 DEF WireFollows
  <2> QED
    BY <2>2, <2>3, <2>4, <2>5, <2>6, <2>7
<1>12. StateIsSound(Node, In, st, h)
  BY <1>1 DEF SessionInv, StatesAreSound
<1>13. StateFollows(Node, In, pos, st, h, a)
  <2>1. at \in Nat
    BY <1>1
  <2>2. Gone(l, at, t) = t
    BY <2>1 DEF Gone
  <2> QED
    BY <1>1, <1>2, <2>2 DEF NodeFollows
<1>14. EndIsKnown(len, pos, q)
  <2>1. turn.s = Unbound \/ turn.s = len
    BY <1>2 DEF TurnFollows
  <2>2. ASSUME turn.s = Unbound, Tailed(Node)
        PROVE  pos + In.pulse <= In.delay + In.dim[len] /\ pos + In.pulse <= Never
    <3>1. t * model.pulse + model.pulse <= len
      BY <1>2, <2>2 DEF TurnFollows
    <3>2. \A k \in Nat : k * model.pulse + model.pulse <= len =>
             LET to == k * Hop(w) + In.pulse IN to <= In.delay + In.dim[len] /\ to <= Never
      BY <1>1, <1>3, <2>2 DEF IsTimely
    <3> QED
      BY <1>2, <3>1, <3>2
  <2>3. ASSUME turn.s = Unbound, Node.kind = "deconvdelay" PROVE q + Out.pulse <= Never
    <3>1. t * model.pulse + model.pulse <= len
      BY <1>2, <2>3 DEF TurnFollows
    <3>2. \A k \in Nat : k * model.pulse + model.pulse <= len => k * Hop(at) + Out.pulse <= Never
      BY <1>1, <1>3, <2>3 DEF IsTimely, Out
    <3> QED
      BY <1>2, <3>1, <3>2
  <2> QED
    BY <2>1, <2>2, <2>3 DEF EndIsKnown
<1> HIDE DEF len, a, c, pos, q, x, y, st, h
<1>15. Works(len, a, b, c, pos, q, x, y, st, h)
  BY <1>1, <1>3, <1>4, <1>5, <1>7, <1>8, <1>10, <1>11, <1>12, <1>13, <1>14 DEF Works
<1> QED
  BY <1>15 DEF len, a, c, pos, q, x, y, st, h

LEMMA EvalFollows ==
    ASSUME SessionInv, IsTold, LanesFollow, EvalNode
    PROVE  LanesFollow'
<1> DEFINE at == turn.at
<1>1. /\ at \in Nodes /\ model' = model /\ streams' = streams
      /\ turn'.seats = turn.seats /\ turn'.at = at + 1 /\ turn'.s = turn.s
      /\ \A w \in 0 .. at - 1 : turn'.values[w + 1] = turn.values[w + 1]
      /\ turn'.values[at + 1] = Output
      /\ \A n \in Nodes : \A l \in Lanes :
            /\ n = at /\ l \in turn.seats =>
                  /\ states'[n][l] = Moved(states[n][l], Input(1, l))
                  /\ heard'[n][l] = HeardAfter(heard[n][l], Input(1, l))
            /\ n # at \/ l \notin turn.seats =>
                  states'[n][l] = states[n][l] /\ heard'[n][l] = heard[n][l]
  BY EvalDoes DEF EvalChanges
<1>2. at \in Nat /\ Nodes \subseteq Nat
  BY <1>1, SessionIs
<1> SUFFICES ASSUME NEW l \in Lanes, ~streams[l].broken
             PROVE  \E wires : \E t : LaneFollows(l, wires, t)'
  BY <1>1, SamePlan DEF LanesFollow
<1>3. PICK wires, t : LaneFollows(l, wires, t)
  BY DEF LanesFollow
<1>4. /\ t \in Nat /\ StandsFor(wires, streams[l]) /\ IsAnsweredFor(streams[l], t)
      /\ \A n \in Nodes : NodeFollows(n, wires, Gone(l, n, t), states[n][l], heard[n][l])
      /\ l \in turn.seats => TurnFollows(l, wires, t)
  BY <1>3 DEF LaneFollows
<1>5. StandsFor(wires, streams[l])' /\ IsAnsweredFor(streams[l], t)'
  BY <1>1, <1>4, SamePlan
<1>6. CASE l \notin turn.seats
  <2>1. ASSUME NEW n \in Nodes
        PROVE  NodeFollows(n, wires, Gone(l, n, t), states[n][l], heard[n][l])'
    <3>1. Gone(l, n, t) = t /\ Gone(l, n, t)' = t
      BY <1>1, <1>6 DEF Gone
    <3>2. NodeFollows(n, wires, t, states[n][l], heard[n][l])
      BY <1>4, <3>1
    <3>3. states'[n][l] = states[n][l] /\ heard'[n][l] = heard[n][l]
      BY <1>1, <1>6
    <3> QED
      BY <1>1, <3>1, <3>2, <3>3, SamePlan
  <2>2. LaneFollows(l, wires, t)'
    BY <1>1, <1>4, <1>5, <1>6, <2>1, SamePlan DEF LaneFollows
  <2> QED
    BY <2>2
<1>7. CASE l \in turn.seats
  <2> DEFINE w == Node.from[1]
             b == IF Node.kind = "sum" THEN wires[Node.from[2]] ELSE <<>>
             len == streams[l].len
             a == wires[w]
             c == wires[at]
             pos == t * Hop(w)
             q == t * Hop(at)
             x == Input(1, l)
             y == Input(2, l)
             st == states[at][l]
             h == heard[at][l]
  <2>1. AtWork /\ In = InFact(at) /\ Node = model.nodes[at] /\ Hop(w) = In.pulse - PastIn
        /\ Hop(w) \in Nat
    <3>1. AtWork /\ In = InFact(at) /\ Node = model.nodes[at]
      BY <1>1, NodeAtWork DEF Node
    <3> QED
      BY <3>1, HopsAgree
  <2>2. Works(len, a, b, c, pos, q, x, y, st, h)
    <3> HIDE DEF b
    <3>1. b = (IF Node.kind = "sum" THEN wires[Node.from[2]] ELSE <<>>)
      BY DEF b
    <3> QED
      BY <1>1, <1>3, <1>7, <3>1, NodeWorks
  <2>3. Goes(a, c, pos, q, x, y, st, h)
    <3> HIDE DEF len, a, b, c, pos, q, x, y, st, h
    <3> QED
      BY <2>2, NodeGoes
  <2>4. /\ Shows(c, Out.pulse, q - Out.delay, Answered(st, x, y)) /\ Starts(c, Out.delay)
        /\ StateFollows(Node, In, pos + (In.pulse - PastIn), Moved(st, x), HeardAfter(h, x), a)
    <3> HIDE DEF len, a, b, c, pos, q, x, y, st, h
    <3> QED
      BY <2>3 DEF Goes
  <2>5. WireFollows(wires, t, at, turn'.values[at + 1][l])
    <3>1. turn'.values[at + 1][l] = Answered(st, x, y)
      BY <1>1, <1>7 DEF Output, State
    <3> QED
      BY <2>4, <3>1 DEF WireFollows, Out
  <2>6. NodeFollows(at, wires, t + 1, states'[at][l], heard'[at][l])
    <3>1. pos + (In.pulse - PastIn) = (t + 1) * Hop(w)
      <4> DEFINE u == Hop(w)
                 v == In.pulse - PastIn
      <4>1. u \in Nat /\ v = u /\ t \in Nat
        BY <1>4, <2>1
      <4> HIDE DEF u, v
      <4>2. t * u + v = (t + 1) * u
        BY <4>1
      <4> QED
        BY <4>2 DEF u, v
    <3>2. states'[at][l] = Moved(st, x) /\ heard'[at][l] = HeardAfter(h, x)
      BY <1>1, <1>7
    <3>3. StateFollows(Node, In, (t + 1) * Hop(w), states'[at][l], heard'[at][l], a)
      BY <2>4, <3>1, <3>2
    <3> QED
      BY <2>1, <3>3 DEF NodeFollows
  <2>7. ASSUME NEW n \in Nodes
        PROVE  NodeFollows(n, wires, Gone(l, n, t), states[n][l], heard[n][l])'
    <3>1. CASE n = at
      <4>1. Gone(l, n, t)' = t + 1
        BY <1>1, <1>2, <1>7, <3>1 DEF Gone
      <4> QED
        BY <1>1, <2>6, <3>1, <4>1, SamePlan
    <3>2. CASE n # at
      <4>1. n \in Nat /\ at \in Nat
        BY <1>2
      <4>2. n < at + 1 <=> n < at
        BY <3>2, <4>1
      <4>3. Gone(l, n, t)' = Gone(l, n, t)
        BY <1>1, <4>2 DEF Gone
      <4>4. states'[n][l] = states[n][l] /\ heard'[n][l] = heard[n][l]
        BY <1>1, <3>2
      <4>5. NodeFollows(n, wires, Gone(l, n, t), states[n][l], heard[n][l])
        BY <1>4
      <4> QED
        BY <1>1, <4>3, <4>4, <4>5, SamePlan
    <3> QED
      BY <3>1, <3>2
  <2>8. TurnFollows(l, wires, t)'
    <3>1. /\ turn.s = Unbound => t * model.pulse + model.pulse <= streams[l].len
          /\ turn.s # Unbound => turn.s = streams[l].len
          /\ \A v \in 0 .. at - 1 : WireFollows(wires, t, v, turn.values[v + 1][l])
      BY <1>4, <1>7 DEF TurnFollows
    <3>2. \A v \in 0 .. turn'.at - 1 : WireFollows(wires, t, v, turn'.values[v + 1][l])
      <4> TAKE v \in 0 .. turn'.at - 1
      <4>1. v = at \/ v \in 0 .. at - 1
        BY <1>1, <1>2
      <4>2. CASE v = at
        BY <2>5, <4>2
      <4>3. CASE v \in 0 .. at - 1
        <5>1. turn'.values[v + 1] = turn.values[v + 1]
          BY <1>1, <4>3
        <5> QED
          BY <3>1, <4>3, <5>1
      <4> QED
        BY <4>1, <4>2, <4>3
    <3> QED
      BY <1>1, <3>1, <3>2, SamePlan DEF TurnFollows
  <2>9. LaneFollows(l, wires, t)'
    BY <1>1, <1>4, <1>5, <2>7, <2>8, SamePlan DEF LaneFollows
  <2> QED
    BY <2>9
<1> QED
  BY <1>6, <1>7

LEMMA StepFollows ==
    ASSUME SessionInv, IsTold, LanesFollow, [Next]_vars
    PROVE  LanesFollow'
<1>1. CASE UNCHANGED vars
  <2>1. /\ model' = model /\ states' = states /\ limits' = limits /\ streams' = streams
        /\ turn' = turn /\ heard' = heard
    BY <1>1 DEF vars
  <2>2. ASSUME NEW l \in Lanes, ~streams[l].broken
        PROVE  \E wires : \E t : LaneFollows(l, wires, t)'
    <3>1. PICK wires, t : LaneFollows(l, wires, t)
      BY <2>2 DEF LanesFollow
    <3>2. LaneFollows(l, wires, t)'
      BY <2>1, <3>1, SamePlan DEF LaneFollows, TurnFollows, Gone
    <3> QED
      BY <3>2
  <2> QED
    BY <2>1, <2>2, SamePlan DEF LanesFollow
<1> QED
  BY <1>1, StartTurnFollows, EvalFollows, FinishTurnFollows, FailTurnFollows, ResetLaneFollows
     DEF Next

\* What was answered to a lane that follows its stream is what is expected.
LEMMA FollowedIsRight ==
    ASSUME SessionInv, LanesFollow
    PROVE  AnswersAreTheReference
<1> SUFFICES ASSUME NEW l \in Lanes, ~streams[l].broken,
                    NEW i \in 1 .. Len(streams[l].expected),
                    model.fact.delay + i <= Len(streams[l].answer)
             PROVE  streams[l].answer[model.fact.delay + i] = streams[l].expected[i]
  BY DEF AnswersAreTheReference
<1> DEFINE st == streams[l]
           c == st.expected
           h == st.answer
           delay == model.fact.delay
<1>1. PICK wires, t : LaneFollows(l, wires, t)
  BY DEF LanesFollow
<1>2. t \in Nat /\ Len(h) = t * model.fact.pulse /\ Shows(c, t * model.fact.pulse, -delay, h)
  BY <1>1 DEF LaneFollows, IsAnsweredFor
<1>3. Shows(c, Len(h), -delay, h)
  BY <1>2
<1>4. IsPrepared /\ StreamIsSound(st)
  BY DEF SessionInv, StreamsAreSound
<1>5. delay \in Nat /\ c \in Seq(Int) /\ h \in Seq(Int)
  BY <1>4, EndsHavePlainPulses, StreamStands DEF IsStream, StreamIsSound
<1> HIDE DEF st, c, h, delay
<1>6. i \in 1 .. Len(c) /\ delay + i <= Len(h)
  BY DEF c, h, delay, st
<1>7. delay + i \in 1 .. Len(h) /\ -delay + (delay + i) = i /\ i \in DOMAIN c
  BY <1>5, <1>6
<1>8. h[delay + i] = c[i]
  BY <1>3, <1>7 DEF Shows
<1> QED
  BY <1>8 DEF h, c, delay, st

\* Where no end has to be known before it is, the answers of a pulsed model are
\* frames of the whole one.
LEMMA TellsInTime ==
    ASSUME SessionInv, TellsItsEnds(model.graph), DeconvsAreInStep, IsBelowNever
    PROVE  IsTold
<1>1. IsPrepared /\ IsPulsed(Plan) /\ model.nodes = Plan.nodes /\ Nodes = 1 .. Len(model.nodes)
      /\ Len(model.nodes) \in Nat
  BY ModelIs DEF SessionInv
<1>2. PICK m \in Models : model = Prepared(m)
  BY <1>1 DEF IsPrepared
<1>3. /\ model.graph = m.graph /\ model.pulse = m.pulse /\ model.lens = m.lens
  BY <1>2 DEF Prepared
<1>4. /\ IsGraph(model.graph) /\ model.pulse \in Nat \ {0} /\ Plan.ok
      /\ \A len \in model.lens : len \in Lengths
  <2>1. m.lens \subseteq 1 .. MaxLen /\ IsGraph(m.graph) /\ m.pulse \in Nat \ {0}
        /\ PulsedModel(m.graph, m.pulse).ok
    BY PulseSessionAssumption
  <2> QED
    BY <1>3, <2>1, MaxLenAssumption DEF Plan, Lengths
<1>5. Tells(Plan, model.pulse)
  <2>1. AreInStep(Plan)
    BY <1>1 DEF AreInStep, DeconvsAreInStep, InFact
  <2> QED
    BY <1>4, <2>1, GraphTells DEF Plan
<1> SUFFICES ASSUME NEW n \in Nodes, NEW len \in model.lens
             PROVE  IsTimely(n, len)
  BY DEF IsTold, DeconvsAreInStep
<1> SUFFICES ASSUME NEW t \in Nat, t * model.pulse + model.pulse <= len
             PROVE  /\ Tailed(model.nodes[n]) =>
                          LET to == t * Hop(model.nodes[n].from[1]) + InFact(n).pulse
                          IN  to <= InFact(n).delay + InFact(n).dim[len] /\ to <= Never
                    /\ model.nodes[n].kind = "deconvdelay" =>
                          t * Hop(n) + FactOf(Plan, n).pulse <= Never
  BY DEF IsTimely
<1> DEFINE from == model.nodes[n].from[1]
<1>6. InFact(n) = FactOf(Plan, from) /\ from \in 0 .. Len(model.nodes) /\ n \in 0 .. Len(model.nodes)
  <2>1. from \in 0 .. n - 1 /\ n \in Nat
    BY <1>1, NodeIs
  <2> QED
    BY <1>1, <2>1 DEF InFact
<1>7. t * Hop(from) + InFact(n).pulse <= Never /\ t * Hop(n) + FactOf(Plan, n).pulse <= Never
  BY <1>6 DEF IsBelowNever
<1>8. Tailed(model.nodes[n]) => t * Hop(from) + InFact(n).pulse <= InFact(n).delay + InFact(n).dim[len]
  <2> HAVE Tailed(model.nodes[n])
  <2>1. IsEarly(Plan, from, model.pulse) /\ len \in Lengths
    BY <1>1, <1>4, <1>5 DEF Tells
  <2>2. t * (FactOf(Plan, from).pulse - Past(Plan, from)) + FactOf(Plan, from).pulse <= Ends(Plan, from, len)
    BY <2>1 DEF IsEarly
  <2> QED
    BY <1>6, <2>2 DEF Hop, Ends
<1> QED
  BY <1>7, <1>8

(* AnswersAreRight: what a session answers to a stream is what the source    *)
(* model makes of the whole of it, frame by frame from the declared delay   *)
(* on, for every graph that TellsItsEnds and whose deconvolutions are in    *)
(* step, pulse, number of lanes, length, order of turns, failure and reset.  *)
THEOREM AnswersAreRight ==
    Spec => [](TellsItsEnds(model.graph) /\ DeconvsAreInStep /\ IsBelowNever =>
                  AnswersAreTheReference)
<1> DEFINE Inv == SessionInv /\ (IsTold => LanesFollow)
<1>1. Init => Inv
  BY InitIsSession, InitFollows
<1>2. Inv /\ [Next]_vars => Inv'
  <2> SUFFICES ASSUME Inv, [Next]_vars PROVE Inv'
    OBVIOUS
  <2>1. SessionInv'
    BY StepKeeps
  <2>2. model' = model
    BY DEF Next, StartTurn, EvalNode, FinishTurn, FailTurn, ResetLane, vars, Evaluated, Stateless,
           EvalDelay, EvalPad, EvalConcat, EvalCumSum, EvalScan, EvalMask, EvalDeconvDelay,
           EvalConv, EvalPool, EvalDownsample, EvalSlice, EvalDeconv, EvalSum
  <2>3. IsTold' = IsTold
    BY <2>2, SamePlan
  <2>4. IsTold => LanesFollow'
    BY StepFollows
  <2> QED
    BY <2>1, <2>3, <2>4
<1>3. Inv => (TellsItsEnds(model.graph) /\ DeconvsAreInStep /\ IsBelowNever => AnswersAreTheReference)
  BY FollowedIsRight, TellsInTime
<1> QED
  BY <1>1, <1>2, <1>3, PTL DEF Spec

=============================================================================
