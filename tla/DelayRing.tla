----------------------------- MODULE DelayRing -----------------------------
(***************************************************************************)
(* The ring in which a Delay keeps the frames that precede a pulse         *)
(* (pulse-opl/src/delay.rs).  A ring of `b' frames is a function over      *)
(* 0 .. b - 1, `head' is the index of the oldest frame, and a sequence of  *)
(* frames lies in it as one run or two: up to the end, then from 0 on.     *)
(***************************************************************************)
EXTENDS Integers, Sequences

Buffered(delay, overlap) == delay + overlap

\* Mutant: wraps once.
RingIndexOnce(b, index) == IF index < b THEN index ELSE index - b

RingIndex(b, index) == IF b = 0 THEN 0 ELSE index % b

\* Where the k-th frame from `start' is, and which one from `start' is at i.
RunAt(b, start, k) == IF k < b - start THEN start + k ELSE k - (b - start)
RunOffset(b, start, i) == IF start <= i THEN i - start ELSE i + (b - start)

FromInput(delay, pulse) == IF pulse > delay THEN pulse - delay ELSE 0
FromBuffer(delay, overlap, pulse) == pulse + overlap - FromInput(delay, pulse)
Fresh(b, pulse) == IF pulse < b THEN pulse ELSE b

(* The output of a seat: what the ring holds first, then the pulse.         *)
DelayOutput(delay, overlap, st, input) ==
    LET held == FromBuffer(delay, overlap, Len(input))
    IN  [p \in 1 .. Len(input) + overlap |->
            IF p <= held THEN st.ring[RunAt(Buffered(delay, overlap), st.head, p - 1)]
                         ELSE input[p - held]]

\* Mutant: a pulse longer than the ring is laid from the head on.
DelayPushedFromHead(b, st, input) ==
    LET fresh == Fresh(b, Len(input))
    IN  [ring |-> [i \in 0 .. b - 1 |->
                     IF RunOffset(b, st.head, i) < fresh
                     THEN input[Len(input) - fresh + RunOffset(b, st.head, i) + 1]
                     ELSE st.ring[i]],
         head |-> RingIndex(b, st.head + Len(input))]

(* The state of a seat's lane afterwards: the last frames of the pulse take  *)
(* the place of those that are retired.                                     *)
DelayPushed(b, st, input) ==
    LET fresh == Fresh(b, Len(input))
        start == RingIndex(b, st.head + Len(input) - fresh)
    IN  [ring |-> [i \in 0 .. b - 1 |->
                     IF RunOffset(b, start, i) < fresh
                     THEN input[Len(input) - fresh + RunOffset(b, start, i) + 1]
                     ELSE st.ring[i]],
         head |-> RingIndex(b, st.head + Len(input))]

EmptyRing(b, silence) == [ring |-> [i \in 0 .. b - 1 |-> silence], head |-> 0]

-----------------------------------------------------------------------------
(* What a delay promises, told of the frames `heard' so far.  Before the     *)
(* first one there is silence.                                              *)

FrameAt(heard, k, silence) == IF 1 <= k /\ k <= Len(heard) THEN heard[k] ELSE silence

RingHolds(b, st, heard, silence) ==
    /\ st.head \in 0 .. (IF b = 0 THEN 0 ELSE b - 1)
    /\ \A k \in 0 .. b - 1 :
          st.ring[RunAt(b, st.head, k)] = FrameAt(heard, Len(heard) - b + k + 1, silence)

Delayed(delay, overlap, heard, pulse, silence) ==
    [p \in 1 .. pulse + overlap |->
        FrameAt(heard, Len(heard) - pulse + p - delay - overlap, silence)]
=============================================================================
