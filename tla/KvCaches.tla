------------------------------ MODULE KvCaches ------------------------------
(***************************************************************************)
(* The key-value caches that a session may keep: growing by concatenation  *)
(* (dyn_kv_cache.rs), in place, as a window, quantised (transformers/src/  *)
(* ops/), and in device memory (gpu/src/ops/dyn_kv_cache.rs).  All promise *)
(* the same: a turn appends its tokens and reads every token there is, or  *)
(* the last ones, while states are cloned, saved, loaded and truncated.    *)
(*                                                                         *)
(* A cache holds one value per token, and one head stands for them all.  A *)
(* value knows which tokens it was quantised with: quantising it again on  *)
(* the same scale gives back the same codes.                               *)
(***************************************************************************)
EXTENDS Integers, Sequences, FiniteSets, SequencesExt

CONSTANTS
    Session,
    Kinds,         \* the caches to look at
    Sink,          \* SINK_TOKENS
    Block,         \* KEY_BLOCK
    Window,        \* the window of a WindowKvCache
    DeviceClones,  \* whether sessions with a device cache are cloned
    MaxChunk,      \* bound: tokens of one turn
    MaxTokens,     \* bound: tokens there are
    MaxBuffers,    \* bound: device buffers ever allocated
    WindowTokens,  \* bounds instead of the two above, where windows are
    WindowBuffers  \*   handed out

ASSUME SizesAssumption ==
    /\ Sink \in Nat /\ Block \in Nat \ {0} /\ Window \in Nat \ {0}
    /\ DeviceClones \in BOOLEAN
    /\ MaxChunk \in Nat /\ MaxTokens \in Nat /\ MaxBuffers \in Nat
    /\ WindowTokens \in Nat /\ WindowBuffers \in Nat

VARIABLES
    kind,      \* which cache the model has
    windowed,  \* window_output: whether a device cache hands out windows
    cache,     \* by session: the op state
    heap,      \* device buffers.  Who holds one reads and writes it
    handed,    \* device tensors handed out, and what they are to show.  Read by
               \* properties only
    saved,     \* a state saved to tensors, or <<>>
    tokens,    \* how many tokens there were
    history,   \* by session: the tokens it was given and did not drop
    peak       \* by session: the most it held at a time.  Read by properties only

vars == <<kind, windowed, cache, heap, handed, saved, tokens, history, peak>>

Exact(token) == [token |-> token, grid |-> {}]
Garbage == Exact(0)   \* uninitialised

Constantly(n, value) == [i \in 1 .. n |-> value]
Larger(a, b) == IF a > b THEN a ELSE b
Smaller(a, b) == IF a < b THEN a ELSE b

\* assign_slice: `values' from slot `from' on, counted from 0.
Assigned(buf, from, values) ==
    [i \in DOMAIN buf |-> IF i - from \in DOMAIN values THEN values[i - from] ELSE buf[i]]

-----------------------------------------------------------------------------
(* In place: a buffer with room to spare, doubled when it is short.          *)

\* Mutant: no room to spare.
GrownJust(capacity, needed) == needed

GrownTo(capacity, needed) == Larger(2 * capacity, needed)

Grown(buf, len, capacity) == SubSeq(buf, 1, len) \o Constantly(capacity - len, Garbage)

InPlacePushed(c, new) ==
    CASE new = <<>> -> c
      [] new # <<>> /\ c.buf = <<>> -> [c EXCEPT !.buf = new, !.len = Len(new)]
      [] new # <<>> /\ c.buf # <<>> ->
            LET needed == c.len + Len(new)
                fits == needed <= Len(c.buf)
                buf == IF fits THEN c.buf
                               ELSE Grown(c.buf, c.len, GrownTo(Len(c.buf), needed))
            IN  [buf |-> Assigned(buf, c.len, new), len |-> needed,
                 reallocs |-> IF fits THEN c.reallocs ELSE c.reallocs + 1]

-----------------------------------------------------------------------------
(* A window: a ring that is never put in order.                              *)

\* Mutant: the end of the ring is not its start.
CursorPast(cursor, n) == IF cursor + n <= Window THEN cursor + n ELSE cursor + n - Window

\* Where the next write goes.
CursorAfter(cursor, n) ==
    IF cursor + n < Window THEN cursor + n ELSE cursor + n - Window

WindowPushed(c, new) ==
    LET held == IF c.buf = <<>> THEN Constantly(Window, Garbage) ELSE c.buf
        first == Smaller(Len(new), Window - c.cursor)
    IN  CASE new = <<>> -> c
          [] Len(new) >= Window ->
                [buf |-> SubSeq(new, Len(new) - Window + 1, Len(new)),
                 len |-> Window, cursor |-> 0]
          [] OTHER ->
                [buf |-> Assigned(Assigned(held, c.cursor, SubSeq(new, 1, first)),
                                  0, SubSeq(new, first + 1, Len(new))),
                 len |-> Smaller(c.len + Len(new), Window),
                 cursor |-> CursorAfter(c.cursor, Len(new))]

-----------------------------------------------------------------------------
(* Quantised: a code means something on the scale that it was made on, and   *)
(* a scale is known by the tokens it was taken from.                        *)

ScaleOf(values) == {values[t].token : t \in DOMAIN values}
Code(value, scale) == [value |-> value, scale |-> scale]
Dequantised(code, scale) ==
    IF code.scale = scale THEN [code.value EXCEPT !.grid = @ \cup scale] ELSE Garbage

\* Values of a token, on a scale of their own.
ValuePushed(c, value) ==
    IF Len(c.sink) < Sink THEN [c EXCEPT !.sink = Append(@, value)]
    ELSE [c EXCEPT !.packed = Append(@, Code(value, ScaleOf(<<value>>))),
                   !.scales = Append(@, ScaleOf(<<value>>))]

\* Mutant: the scale of a block is that of its last token.
FinalizeByLast(c) ==
    LET scale == ScaleOf(<<Last(c.residual)>>)
    IN  [c EXCEPT !.packed = @ \o [t \in DOMAIN c.residual |-> Code(c.residual[t], scale)],
                  !.scales = Append(@, scale),
                  !.residual = <<>>]

\* Keys, on one scale for a block.  The last block waits until it is full.
FinalizeBlock(c) ==
    LET scale == ScaleOf(c.residual)
    IN  [c EXCEPT !.packed = @ \o [t \in DOMAIN c.residual |-> Code(c.residual[t], scale)],
                  !.scales = Append(@, scale),
                  !.residual = <<>>]

KeyPushed(c, value) ==
    IF Len(c.sink) < Sink THEN [c EXCEPT !.sink = Append(@, value)]
    ELSE LET d == [c EXCEPT !.residual = Append(@, value)]
         IN  IF Len(d.residual) = Block THEN FinalizeBlock(d) ELSE d

HeadPushed(k, c, value) == IF k = "key" THEN KeyPushed(c, value) ELSE ValuePushed(c, value)

\* A chunk, token by token.
Ingested(k, c, new) ==
    LET after[t \in 0 .. Len(new)] ==
            IF t = 0 THEN c ELSE HeadPushed(k, after[t - 1], new[t])
    IN  [after[Len(new)] EXCEPT !.len = @ + Len(new)]

ScaleSpan(k) == IF k = "key" THEN Block ELSE 1

DequantAll(k, c) ==
    c.sink
      \o [g \in DOMAIN c.packed |->
             Dequantised(c.packed[g], c.scales[(g - 1) \div ScaleSpan(k) + 1])]
      \o c.residual

-----------------------------------------------------------------------------
(* States.                                                                   *)

Blank(k) ==
    CASE k = "dyn" -> [held |-> FALSE, values |-> <<>>]
      [] k = "inplace" -> [buf |-> <<>>, len |-> 0, reallocs |-> 0]
      [] k = "window" -> [buf |-> <<>>, len |-> 0, cursor |-> 0]
      [] k \in {"key", "value"} ->
            [sink |-> <<>>, packed |-> <<>>, scales |-> <<>>, residual |-> <<>>, len |-> 0]
      [] k = "device" -> [buffer |-> 0, len |-> 0, reallocs |-> 0]

\* What the op reads, and hands to the attention.
View(c) ==
    CASE kind = "dyn" -> c.values
      [] kind \in {"inplace", "window"} -> SubSeq(c.buf, 1, c.len)
      [] kind \in {"key", "value"} -> SubSeq(DequantAll(kind, c), 1, c.len)
      [] kind = "device" -> IF c.buffer = 0 THEN <<>> ELSE SubSeq(heap[c.buffer], 1, c.len)

\* Mutant: the room there is.
PastCapacity(c) ==
    CASE kind = "dyn" -> Len(c.values)
      [] kind = "inplace" -> Len(c.buf)
      [] OTHER -> c.len

\* What resolve_symbols binds the past length to.
PastLength(c) == IF kind = "dyn" THEN Len(c.values) ELSE c.len

Init ==
    /\ kind \in Kinds
    /\ windowed \in IF kind = "device" THEN BOOLEAN ELSE {FALSE}
    /\ cache = [s \in Session |-> Blank(kind)]
    /\ heap = <<>>
    /\ handed = {}
    /\ saved = <<>>
    /\ tokens = 0
    /\ history = [s \in Session |-> <<>>]
    /\ peak = [s \in Session |-> 0]

-----------------------------------------------------------------------------
(* A turn: the state absorbs a chunk.  Without a buffer there is nothing to  *)
(* read, and an empty chunk then fails.                                     *)

Chunk(n) == [i \in 1 .. n |-> Exact(tokens + i)]

Absorbed(s, new) ==
    CASE kind = "dyn" -> [held |-> TRUE, values |-> cache[s].values \o new]
      [] kind = "inplace" -> InPlacePushed(cache[s], new)
      [] kind = "window" -> WindowPushed(cache[s], new)
      [] kind \in {"key", "value"} -> Ingested(kind, cache[s], new)

Remembers(s, values) ==
    /\ history' = [history EXCEPT ![s] = values]
    /\ peak' = [peak EXCEPT ![s] = Larger(@, Len(values))]

HasBuffer(s) ==
    CASE kind = "device" -> cache[s].buffer # 0
      [] kind \in {"inplace", "window"} -> cache[s].buf # <<>>
      [] OTHER -> TRUE

Eval(s, n) ==
    /\ kind # "device"
    /\ tokens + n <= MaxTokens
    /\ n = 0 => HasBuffer(s)
    /\ cache' = [cache EXCEPT ![s] = Absorbed(s, Chunk(n))]
    /\ tokens' = tokens + n
    /\ Remembers(s, history[s] \o Chunk(n))
    /\ UNCHANGED <<kind, windowed, heap, handed, saved>>

\* The device cache writes at its cursor, in a new buffer if it has to.
Capacity(c) == IF c.buffer = 0 THEN 0 ELSE Len(heap[c.buffer])

Seated(c, n) ==
    IF c.len + n > Capacity(c)
    THEN LET kept == IF c.buffer = 0 THEN <<>> ELSE heap[c.buffer]
         IN  [heap |-> Append(heap, Grown(kept, c.len, GrownTo(Capacity(c), c.len + n))),
              cache |-> [c EXCEPT !.buffer = Len(heap) + 1, !.reallocs = @ + 1]]
    ELSE [heap |-> heap, cache |-> c]

DevicePushed(c, new) ==
    IF new = <<>> THEN [heap |-> heap, cache |-> c]
    ELSE LET p == Seated(c, Len(new))
         IN  [heap |-> [p.heap EXCEPT ![p.cache.buffer] = Assigned(@, c.len, new)],
              cache |-> [p.cache EXCEPT !.len = @ + Len(new)]]

\* Mutant: a prefix that fills the buffer is not copied.
HandedWhole(p) ==
    IF p.cache.len = Len(p.heap[p.cache.buffer])
    THEN [heap |-> p.heap, buffer |-> p.cache.buffer]
    ELSE [heap |-> Append(p.heap, SubSeq(p.heap[p.cache.buffer], 1, p.cache.len)),
          buffer |-> Len(p.heap) + 1]

\* valid: always a copy.
Valid(p) ==
    [heap |-> Append(p.heap, SubSeq(p.heap[p.cache.buffer], 1, p.cache.len)),
     buffer |-> Len(p.heap) + 1]

\* prefix_window: a view of the live buffer, where every reader takes strides.
PrefixWindow(p) == [heap |-> p.heap, buffer |-> p.cache.buffer]

\* Of the buffers a turn may allocate, the last is the packed copy.
IsInBounds(n) ==
    IF windowed THEN tokens + n <= WindowTokens /\ Len(heap) + 1 <= WindowBuffers
    ELSE tokens + n <= MaxTokens /\ Len(heap) + 2 <= MaxBuffers

EvalDevice(s, n) ==
    /\ kind = "device"
    /\ IsInBounds(n)
    /\ n = 0 => HasBuffer(s)
    /\ LET p == DevicePushed(cache[s], Chunk(n))
           out == IF windowed THEN PrefixWindow(p) ELSE Valid(p)
       IN  /\ cache' = [cache EXCEPT ![s] = p.cache]
           /\ heap' = out.heap
           /\ handed' = {given \in handed : given.buffer # out.buffer}
                           \cup {[buffer |-> out.buffer, window |-> windowed,
                                  promised |-> history[s] \o Chunk(n)]}
    /\ tokens' = tokens + n
    /\ Remembers(s, history[s] \o Chunk(n))
    /\ UNCHANGED <<kind, windowed, saved>>

-----------------------------------------------------------------------------
(* Between turns.                                                            *)

\* A window of the buffer that is cut to n is to show no more than n tokens.
CutTo(given, buffer, n) ==
    IF given.window /\ given.buffer = buffer
    THEN [buffer |-> buffer, window |-> TRUE,
          promised |-> SubSeq(given.promised, 1, Smaller(n, Len(given.promised)))]
    ELSE given

\* The buffer of a device cache stays as it is, and so do the windows of it.
Truncate(s, n) ==
    /\ n <= PastLength(cache[s])
    /\ \/ kind = "dyn" /\ cache[s].held
          /\ cache' = [cache EXCEPT ![s].values = SubSeq(@, 1, n)]
          /\ UNCHANGED handed
       \/ kind = "device" /\ cache[s].buffer # 0
          /\ cache' = [cache EXCEPT ![s].len = n]
          /\ handed' = {CutTo(given, cache[s].buffer, n) : given \in handed}
    /\ history' = [history EXCEPT ![s] = SubSeq(@, 1, n)]
    /\ UNCHANGED <<kind, windowed, heap, saved, tokens, peak>>

\* A window is not saved, and what was never written is not either, but for a
\* quantised cache: it saves an empty tensor.
IsSaved(s) ==
    CASE kind = "dyn" -> cache[s].held
      [] kind = "device" -> cache[s].buffer # 0
      [] kind = "window" -> FALSE
      [] kind = "inplace" -> cache[s].len > 0
      [] kind \in {"key", "value"} -> TRUE

Save(s) ==
    /\ IsSaved(s)
    /\ saved' = [values |-> View(cache[s]), history |-> history[s]]
    /\ UNCHANGED <<kind, windowed, cache, heap, handed, tokens, history, peak>>

\* Into a state that is new.  A host tensor is copied to the device.
Load(s) ==
    /\ saved # <<>> /\ cache[s] = Blank(kind)
    /\ IF kind = "device"
       THEN /\ Len(heap) < IF windowed THEN WindowBuffers ELSE MaxBuffers
            /\ heap' = Append(heap, saved.values)
            /\ cache' = [cache EXCEPT ![s].buffer = Len(heap) + 1, ![s].len = Len(saved.values)]
       ELSE /\ cache' = [cache EXCEPT ![s] = Absorbed(s, saved.values)]
            /\ UNCHANGED heap
    /\ Remembers(s, saved.history)
    /\ UNCHANGED <<kind, windowed, handed, saved, tokens>>

\* A clone of a session.  That of a device tensor is the same buffer.
Clone(s, t) ==
    /\ s # t /\ cache[t] = Blank(kind)
    /\ kind = "device" => DeviceClones
    /\ cache' = [cache EXCEPT ![t] = cache[s]]
    /\ history' = [history EXCEPT ![t] = history[s]]
    /\ peak' = [peak EXCEPT ![t] = peak[s]]
    /\ UNCHANGED <<kind, windowed, heap, handed, saved, tokens>>

\* reset_op_states: the op makes a new state.
Reset(s) ==
    /\ cache' = [cache EXCEPT ![s] = Blank(kind)]
    /\ history' = [history EXCEPT ![s] = <<>>]
    /\ peak' = [peak EXCEPT ![s] = 0]
    /\ UNCHANGED <<kind, windowed, heap, handed, saved, tokens>>

Next ==
    \/ \E s \in Session, n \in 0 .. MaxChunk : Eval(s, n) \/ EvalDevice(s, n)
    \/ \E s \in Session, n \in 0 .. MaxTokens : Truncate(s, n)
    \/ \E s \in Session : Save(s) \/ Load(s) \/ Reset(s)
    \/ \E s, t \in Session : Clone(s, t)

Spec == Init /\ [][Next]_vars

-----------------------------------------------------------------------------
(* Properties.                                                               *)

\* The values a quantised cache is to give back: the first tokens as they are,
\* the last unfilled block too, the others on the scale of their block.
Quantised(values) ==
    LET End(i) == Sink + ((i - Sink - 1) \div ScaleSpan(kind) + 1) * ScaleSpan(kind)
    IN  [i \in DOMAIN values |->
            IF i <= Sink \/ End(i) > Len(values) THEN values[i]
            ELSE [values[i] EXCEPT !.grid =
                     {values[k].token : k \in End(i) - ScaleSpan(kind) + 1 .. End(i)}]]

(* Cursors and lengths stay inside the buffers they index.                   *)
TypeOK ==
    \A s \in Session :
        LET c == cache[s]
        IN  CASE kind = "inplace" -> c.len \in 0 .. Len(c.buf)
              [] kind = "window" -> /\ c.cursor \in 0 .. Window - 1
                                    /\ Len(c.buf) \in {0, Window}
                                    /\ c.len \in 0 .. Len(c.buf)
              [] kind = "key" -> /\ Len(c.residual) < Block
                                 /\ Len(c.packed) = Block * Len(c.scales)
              [] kind = "value" -> Len(c.packed) = Len(c.scales)
              [] kind = "device" -> c.buffer \in 0 .. Len(heap) /\ c.len \in 0 .. Capacity(c)
              [] kind = "dyn" -> ~c.held => c.values = <<>>

(* Whatever the chunks, the growths, the truncations and the checkpoints, a  *)
(* session reads its own tokens: all of them in their order, or the last of  *)
(* the window, each once.  Quantised, a token is read on the scale of its    *)
(* block, be it loaded from a checkpoint.                                    *)
ViewIsTheHistory ==
    \A s \in Session :
        CASE kind = "window" ->
                LET last == Smaller(Len(history[s]), Window)
                IN  /\ Len(View(cache[s])) = last
                    /\ ToSet(View(cache[s]))
                          = ToSet(SubSeq(history[s], Len(history[s]) - last + 1, Len(history[s])))
          [] kind \in {"key", "value"} -> View(cache[s]) = Quantised(history[s])
          [] OTHER -> View(cache[s]) = history[s]

(* The past length that a turn resolves is the number of tokens there are.   *)
PastLengthIsTheHistory ==
    kind # "window" => \A s \in Session : PastLength(cache[s]) = Len(history[s])

(* A packed tensor that a device cache handed out is held for as long as one *)
(* likes: no turn, growth, truncation or reload changes it.  A window over   *)
(* the live buffer goes on showing its tokens too, for turns write behind    *)
(* them and growth leaves the buffer, but only those that no truncation      *)
(* dropped: the next turn writes over the others under the reader's eyes.    *)
HandedOutAreIntact ==
    \A h \in handed : SubSeq(heap[h.buffer], 1, Len(h.promised)) = h.promised

(* Two to the n.                                                             *)
TwoTo(n) == LET power[i \in 0 .. n] == IF i = 0 THEN 1 ELSE 2 * power[i - 1] IN power[n]

(* A cache that grows in place is copied a logarithmic number of times, and  *)
(* has less than twice the room it ever needed.                              *)
GrowthIsGeometric ==
    kind \in {"inplace", "device"} =>
        \A s \in Session :
            LET room == IF kind = "device" THEN Capacity(cache[s]) ELSE Len(cache[s].buf)
                copies == IF kind = "device" THEN cache[s].reallocs - 1 ELSE cache[s].reallocs
            IN  /\ room > 0 => room < 2 * peak[s]
                /\ copies > 0 => TwoTo(copies) <= room
=============================================================================
