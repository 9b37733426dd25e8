# A TLA+ model of tract's run time

tract is a neural-network inference library. Most of its code rewrites graphs of operators; the part modelled
here is what runs them: the state a session keeps, the life of a turn on it, the runtime that serves many
streams through one state, the planning of device memory, the streamed form of a model and the caches it keeps. That
is where state outlives a call, where threads meet, where an error returns half-way, where a value is read in memory
that something else owns, and where what was cut in pulses or chunks must add up to the whole.

Paths below are relative to `src/`. `PROJECT.json` lists the components, the runs, the lines each definition
stands for, the hazards, the disagreements met between code and documents, and the theorems.

## 1. Inventory

| Component | State it keeps | Operations | Properties that make it correct |
|---|---|---|---|
| Laned runtime, `core/src/lanes.rs` | worker thread: lane table, queue of seats, completers, the state; handles: a lease; shared: the sender and the join handle | spawn, run, clone, drop of a handle; the worker's loop: receive, serve, fill, run, hand back | no stream sees another's state; no lane is leaked or shared; every caller is answered once; turns are full; drop terminates |
| Session state, `core/src/plan.rs` | values, symbols, scenario, shared resources (a turn); op states (a session) | set_inputs, resolve, exec, outputs, reset_turn, clone | no precursor is missing or stale; values are dropped when no longer needed; symbols and presets of a turn are not seen by the next |
| Evaluation order, `core/src/model/order.rs`, `symbol_deps` in `plan.rs` | none | eval order (plain, RAM-saving), flush lists, symbol dependencies | topological; complete; terminates; what is flushed is not read again |
| Device memory schema, `gpu/src/memory/schema.rs` | none after building | lifetimes, forwarders, partitions | values of one partition are never alive together; aliased memory is kept |
| Device pool and turn handler, `gpu/src/memory/pool.rs`, `gpu/src/turn_handler.rs` | pool of the turn, cached arena of the session | take an arena, views of it, release | no view is written over while somebody may read it |
| Device tensors, host copies, `gpu/src/tensor/`, `gpu/src/sync.rs` | a host copy made once | sync to host and to device | both readers see the one copy |
| Backends, `metal/`, `cuda/`, `wgpu/` | streams, command buffers, scratch per thread and session | kernels, synchronisation | scratch is dropped with its session |
| Scan, `core/src/ops/scan/` | hidden state, position, the body's state | loop over chunks | the loop equals the fold, pulse after pulse |
| Pulsification, `pulse/src/` | none after building | one rewrite per operator, declaring delay, pulse and length | what is declared is what happens; branches that meet are aligned |
| Pulse operators, `pulse-opl/src/` | rings, positions, sums and limits per lane | delay, pad, concat, cumsum, mask, deconvolution delay; reset of a lane | the streamed output is that of the whole sequence, late by the delay |
| Key-value caches, `transformers/src/ops/`, `gpu/src/ops/dyn_kv_cache.rs` | past keys and values: tensors, buffers, rings, codes and scales, device memory | append, read, truncate, save, load, clone, reset | a session reads its own tokens; the past length is theirs; what was handed out stays; all caches of a turn are of one length |
| Symbols and scenarios, `data/src/dim/` | symbol table of a model | bind, solve, guess a scenario, simplify | one value per symbol and turn |
| Kernels and executors, `linalg/` | scratch per thread | matrix multiplication | scratch is big enough and not shared |
| Graphs, rewriting, optimiser, inference, `core/src/model/`, `core/src/optim/`, `hir/` | the model under edition | patches, passes to a fixpoint | each rewrite keeps the semantics; passes terminate |
| Formats, bindings, command line | none | read, write, wrap | outside the scope of this project |

How they interact. A *runnable* is a plan; `spawn` makes a *state* of it. The laned runtime owns one state in a
worker thread, and turns requests of many threads into turns on it: it *seats* streams in *lanes*, calls
`State::seat` and `State::run`, and `reset_lanes` when a lane changes hands. A turn calls each op with its op
state, values pass through the table of values, and the *turn handler* is called before and after the loop: for
a device it installs the memory pool in `TurnState.shared`, where ops find it when they need memory for their
output. Op states are addressed by lanes; caches bind symbols that shapes depend on.

Hard behaviours: threads racing for handles, leases and lanes; failures at every step of a turn, of a reset, of
a wide call, and panics of the worker; state left by the turn that failed; the order of flushes, and lifetimes
that touch; views of device memory that outlive the turn; boundaries of counts. `hazards` in `PROJECT.json`
lists each one at its line with the properties that cover it.

## 2. Plan

| Step | Modules | Status |
|---|---|---|
| 1 | `LaneTable`, `Lanes`; `StreamStates`, `LanesRefinement`; proofs in `OrderLemmas`, `LanesProofs` | done |
| 2 | `SimpleState`; proofs in `SimpleStateProofs` | done |
| 3 | `MemSchema`, `DeviceArena`, on top of `SimpleState`; proofs in `DeviceProofs` | done |
| 4 | `EvalOrder`: the two orders and `symbol_deps`; states as a property what `SimpleState` assumes of a plan; proofs in `EvalOrderProofs` | done |
| 5 | `Frames`, `WholeModel`, `Pulsify`, `DelayRing`, `PulseSession`: a pulsed model against the whole one; proofs in `PulsifyProofs` (what pulsification wires) and `PulseSessionProofs` (what a session makes of it) | done |
| 6 | `KvCaches`: six caches against the sequence of tokens; proofs in `KvCachesProofs` | done |
| 7 | `Scan` with its body as a `SimpleState`; `blockify` | not done, see section 6 |
| 8 | the refinement `OneStatePerStream`, proved in `LanesProofs` | done |

Abstract specifications worth stating: one private state per handle for the laned runtime (`StreamStates`), the source
model on the whole stream for a pulsed one (`WholeModel`), a delay line for a `Delay` (`Delayed`), the sequence of
tokens for a cache.

## 3. Modules

### Lanes (`core/src/lanes.rs`)

`LaneTable` holds the table's operators (`take`, `give_back`, `seat`). `Lanes` has three kinds of actors:

* *Callers* (threads), each with at most one handle: `Spawn`, `Call`, `Clone`, `DropLease` then `DropRunnable`,
  and `Joined`, for the two fields of a handle that are dropped one after the other. The last holder of the
  runnable closes the queue and joins the worker. `DropRoot` and `RootJoined` are the application's own reference.
* *The worker*, by `phase`: `serve` receives or drains (`Receive`, `ServeSpawn`/`RefuseSpawn`, `ServeCall`/
  `RefuseCall`, `ServeDrop`, `Drained`, `Stop`), `fill` seats one seat of the queue at a time (`SeatInItsLane`,
  `SeatInBorrowedLane`, `SeatMustWait`, `Filled`), `turn` runs the state (`RunTurn`, `FailTurn`, `Panic`), and
  `landed`/`failed` hand one seat back at a time (`LandSeat`, `FailSeat`, `SkipSeat`).
* *The state*, as `history`: per lane the sequence of seats it absorbed since its last reset. That is all the
  properties tell apart of tensors.

A request and the wake-up by its answer are one step, since the caller is blocked in between and sees nothing;
the worker's own fields are private to it, so its loop needs only be as fine as the loops of the code.

`StreamStates` is what a caller is promised: each handle is one private state, advanced by its own calls, in order,
and a call that succeeds has advanced it. `LanesRefinement` maps a handle's state to its lane's history and checks that
`Lanes` implements it. With clones it does not (see `lanes_clones` below).

### SimpleState (`core/src/plan.rs`)

`phase` and `next` say where `run_plan_with_eval` is: `BeginTurn`, one `SetInput` per input, `ResolveStates`,
`BeginExec` (with the turn handler's `before_plan_eval`), one `EvalNode` per position of the order, `FinishTurn`
(`after_plan_eval`, `outputs`, `reset_turn`). Each has its failures: `RefuseInputs` (arity), `RefuseInput` (a clash
of symbols, no scenario, a tensor that does not match), `StatesDoNotResolve`, `HandlerFails`, `EvalFails`,
`RefuseOutput`; all go through `Abort`, which resets nothing, as the `?` of the code.
`Clone` may come between any two turns. A value is the number of the turn that computed it, a
shape is one extent, and there are three symbols, one for each way of binding: by an input (`S`), by an op state
(`P`, the past length of a key-value cache), by the output of an op (`R`). `values` is the empty sequence until
`ready_turn` makes the table. `reset`, the number of turns begun when one was last reset, is a history variable:
`SymbolsAndPresetsAreReset` tells by it what a failed turn left from what a reset should have cleared.

A plan is any record that satisfies `IsPlan`: what `SimplePlan::build` promises of the order, the rest being free.
`IsPlan` is an assumption of the module; `OrderIsPlan` of `EvalOrder` says that the ordering algorithms meet it.

### EvalOrder (`core/src/model/order.rs`, `symbol_deps` in `core/src/plan.rs`)

A plan is built in three loops, and `phase` says which: the walk on tensor edges that `symbol_deps` starts with
(`base`), the walk that obeys derived dependencies too (`walk`), and the one that saves memory (`ram`), unless it is
skipped. The steps of a walk are the branches of its loop on the explicit stack: `Finish`, `SkipDone`, `DetectLoop`,
`Descend`. `DeriveDeps` is `symbol_deps` as a whole, since it reads only the graph and the first order: `Claims` says
who defines a symbol, `Waits` which nodes have to come after. `FollowInput`, `FollowReady`, `FollowStarter` and
`FollowFresh` are the ways the third loop picks its next node; `cache` is `cache_upstream`, where a set is kept
without its count. An assertion or an unwrap that fails leads to `panicked`. `Build` drops the constants.

A symbol is a number, a fact only which symbols are in it. Model inputs have no precursors (compaction replaces an
inner node by a source; for what happens otherwise see the disagreements of section 4), and mention no symbols but those
of their shapes.

### MemSchema and DeviceArena (`gpu/src/memory/`, `gpu/src/turn_handler.rs`)

`MemSchema` extends a plan by which values live on the device, which nodes may hand their input on, and hinted sizes.
Its steps are the iterations of the two loops: `Extend` walks the order backwards and extends lifetimes through
planned forwarders, `Place` puts the next value, by size, in the fullest partition that has no
conflict or in a new one. Steps are counted from 1, and a lifetime ends with the last step it covers (the code has an
exclusive bound). Nodes have one output and one buffer; options are the default ones, as for Metal and CUDA.

`DeviceArena` composes it with `SimpleState`: every action of a turn is conjoined with what it does to memory.
`storages` are the buffers ever made, each a function from regions to what was last written there. `TakeArena` is
`from_schema_with_cache` (reuse when nobody else holds the storage and the capacity fits, else a new one, with the
headroom), `Compute` writes the node's region and leaves a view, `HandOn` passes the input's view, `ReturnViews`
gives the outputs to the caller, who may keep them (`held`), feed them back (`FeedInput`) or drop them at any time.
A reused storage is blanked, since its layout may differ from the last turn's: reading anything older is an error.

### The pulse modules (`pulse/src/`, `pulse-opl/src/`, `core/src/ops/scan/`)

A model is a sequence of operators, each reading earlier wires. It is looked at three times:

* `WholeModel` evaluates it on the whole stream (`Reference`), with the operators of `Frames` as `tract-core` runs them.
* `Pulsify` rewrites it for a pulse: one function per `pulsify` of `pulse/src/ops/`, which wires delays, pads and the
  streamed operator and computes each wire's fact (`pulse`, `delay`, `dim`, a function of the length of the stream),
  or refuses. `sum` aligns branches by delaying the earlier one.
* `PulseSession` runs the pulsed model. A turn (`StartTurn`) seats some of the lanes and binds the length of the stream
  if all their streams end in this pulse; each `Eval...` action evaluates one node for all seats, with the op state
  of each seat's lane; `FinishTurn` hands the answer out, `FailTurn` breaks the streams that were seated, and
  `ResetLane` gives a lane to another stream. `DelayRing` has the ring of `Delay`: its index arithmetic, what a pulse
  reads of it and what it leaves.

A frame is a number with a decimal digit per input frame, so that the digits of an answer tell which frames went
into it and with which weights. `heard` is a history variable, what each `Delay` took in, and
`expected` the reference of each stream. The driver (pulses filled up past the end, length bound at the end, reading
on until the delay has passed) is that of `test-rt/suite-pulse`.

### KvCaches (`transformers/src/ops/*kv_cache.rs`, `gpu/src/ops/dyn_kv_cache.rs`)

One behaviour has one kind of cache and several sessions, each with a state of it. `Eval` and `EvalDevice` absorb a
chunk of a turn: by concatenation (`dyn`), in a buffer that doubles (`inplace`, `device`), in a ring (`window`), or
code by code (`key`, `value`: sinks as they are, values on their own scale, keys on the scale of a block that is
sealed when full). `Truncate`, `Save`, `Load`, `Clone` and `Reset` happen between turns. Device memory is a `heap`
of buffers, each state holds the number of one, a clone holds the same number, and `handed` are the tensors given
away with the tokens they promised. Whether they are packed copies (`valid`) or windows over the live buffer
(`prefix_window`) is a setting of the operator, `windowed` (`window_output`). A truncation drops tokens which the next turn
overwrites in the live buffer, so a window is promised only what no truncation dropped (`CutTo`); a copy keeps all of it. A value carries the scales it was quantised on, so that a code read on another scale is garbage. `history` is what
each session ought to hold.

## 4. Runs

| Run | Expect | Shows |
|---|---|---|
| `mclanes` | pass | safety of the laned runtime: 3 callers, 2 lanes, 2 seats a turn, clones, failing resets and turns, panics |
| `lanes_streams` | pass | refinement of one state per handle: 2 callers, 3 lanes, calls of up to 3 seats |
| `lanes_live` | pass | every caller wakes up and joins return, under fairness |
| `lanes_clones` | violation | clones that call at once: a first seat in a borrowed lane |
| `simple_plans` | pass | safety of turns: every plan over 3 nodes, 3 turns, failures anywhere |
| `eval_order` | pass | the orders are plans, definers come first, only loops are refused, every search ends |
| `device_arena` | pass | lifetimes, partitions and the arena: 4 nodes, 2 turns |
| `device_forward` | violation | memory handed on by an unplanned forwarder is written over before it is read |
| `pulse_session` | pass | pulsed models answer what the whole model says: chains of one or two of 20 operators, deconvolutions, branches; pulses of 1 to 4, streams of up to 5 frames, two lanes |
| `pulse_deconv` | violation | a strided deconvolution behind a delay declares the wrong delay |
| `kv_caches` | pass | six caches, two sessions, chunks of up to 4 of 6 tokens: a session reads its own tokens, and what was handed out stays |
| `kv_clones` | violation | clones of a session with a device cache write in one buffer |

Bounds and why they are enough.

* Lanes: two lanes are the fewest where one is free while another is taken, three callers the fewest where two race
  for what the third gives back; a call of two seats is split when a lane is missing and merged across turns, and a
  call of three over three lanes can be split twice. `MaxCalls` 3 lets calls of all callers be in one turn and one
  follow a failure; `MaxSpawns` 2 lets a lane change hands. Callers are symmetric, so `mclanes` uses symmetry (it
  checks invariants and an action property, no liveness).
* SimpleState: three nodes contain every pattern of the flush list: a value read by one or two later steps, by none,
  an output that is read too; with constants, inputs, caches and ranges in any place. Two extents
  make a clash; three turns are failure, recovery and the turn after it.
* EvalOrder: three nodes have every loop and every way to reach one from an output; inputs are any of the leaves, and
  pairs of outputs come in either order. Four nodes are the fewest where a symbol's consumer and its definer
  are on two branches, each with a starter to choose from: all graphs over four numbered nodes, each node that is not
  a leaf as the definer, each consumer alone and all of them together. A third family has two minting nodes, of
  one symbol or of two that each wait for the other, and an input that carries the symbol first.
* Device: four nodes are the fewest where a chain of two forwarders has a third node to disturb it and a reader
  afterwards; two turns let views outlive theirs; two extents give capacities that fit, are too small, and are over
  twice the need. Plans without input let the first node be planned; with one, callers feed back views. The plan of
  the violation run needs five nodes and is given by itself.
* Pulse: kernels of up to three frames, strides and dilations of up to two, so pulses of one to four frames are shorter
  than, as long as and longer than every ring and overlap, and divide the strides or are refused; streams of up to five
  frames end within, at the end of and after a pulse, the first one included. Two operators in a chain are the fewest
  where what one declares is what the other relies on. Two lanes, for five models of lane-aware operators, streams of two
  and four frames, two streams per lane: lanes seated together and apart, a lane reset next to one that goes on. Graphs that
  append to a stream whose end was cut off are left out (`IsCausal`, see the disagreements).
* Key-value caches: a sink of one token, blocks of two, a window of three: six tokens fill each of them once and again,
  chunks of up to four are longer than any. Two sessions make a clone or a checkpoint and its original; five device
  buffers allow two growths and three turns. Where windows are handed out a turn allocates only when it grows, and all windows ever
  promised make up the states: five tokens in three buffers (`WindowTokens`, `WindowBuffers`) are a growth out of a buffer that
  is still held, and a truncation with a turn after it on either side of the growth. Sessions are symmetric.

Fairness (`FairSpec` of `Lanes`). The worker is one thread that never waits except in `recv` on an empty queue, so
weak fairness of its next step is what a fair operating system gives. A caller that began to drop a handle goes on
with it (weak fairness of `DropRunnable`, `Joined`, `RootJoined`): the code has no waits there but the join. Nothing is
assumed of when callers spawn, call or drop. The drain loop of the worker ends because a behaviour sends finitely many
requests (`MaxCalls`, `MaxSpawns`); a stream of requests without a pause could keep it from turns, which is listed as
a hazard and not shown. `FairSpec` of `EvalOrder` is weak fairness of the one thread that builds the plan.
`CHECK_DEADLOCK` is off for `EvalOrder`, where a behaviour ends with the plan, for `PulseSession`, where it ends when
all streams are answered, and for `KvCaches`, where tokens and buffers run out; the others end in explicit
stuttering steps (`Over` of `SimpleState`, `Terminated` of `Lanes`).

Disagreements found (`findings`):

* `lanes.rs:952`: with two clones of one handle in one turn, the second call borrows a fresh lane, though the
  documentation says that a call's first seat sits in its caller's own lane and that clones are the same stream.
* `gpu/src/memory/schema.rs:153`: an unplanned forwarder does not keep its input's memory alive, against the
  documentation of `forwards_input`.
* `pulse/src/ops/cnn/deconv.rs:83`: the delay of the input is added to that of a deconvolution without being scaled by
  its stride, though `stream.delay` is what readers of the output skip.
* `gpu/src/ops/dyn_kv_cache.rs:68`: two clones of a session write in the same device buffer, though the documentation says
  that a clone is a distinct session.

Others were met while modelling and have no run of their own. A failed turn skips `reset_turn`, so the symbols it resolved
outlive it (`plan.rs:629`), though the lexicon says that they live for a turn; `reset_turn` itself keeps the scenario
(`plan.rs:546`), unlike what the comment of `reset_turn_keep_symbols` implies, and ops of the next turn may read it:
`SymbolsAndPresetsAreReset` is about symbols, presets and the handler's resources and is silent on the scenario. Precursors of model inputs count as dependencies in
the RAM-saving order (`order.rs:142`), so an inner node as model input is picked twice and an assertion fails (`order.rs:189`). What is
appended to a stream whose end a slice cut off comes too late when the pulse it belongs to has already left
(`pulse/src/ops/array/slice.rs:36`). A cache that no output needs still has an op state (`plan.rs:589`) and, if it comes first, resolves the past
length of all caches to its own, which stays 0. `TRACT_MAX_SEATS=0` makes the worker spin (`lanes.rs:871`). The fused window
attention is not causal within a chunk (`window_kv_cache.rs:224`). Loading a quantised state appends to what is there
(`quant_dyn_kv_cache.rs:463`).

## 5. Proofs

TLAPS proves the following for all values of the constants that satisfy the `ASSUME`s (`MaxLanesAssumption`,
`LanesAssumption`, `SimpleStateAssumption`, `EvalOrderAssumption`, `MemSchemaAssumption`, `DeviceArenaAssumption`, `MaxLenAssumption`, `PulseSessionAssumption`, `SizesAssumption`), that is, for any
number of callers, lanes, seats, calls, nodes, extents and turns, and every plan that satisfies `IsPlan`.

* Laned runtime: `TypeCorrect`, `LanesAccounted`, `StreamsDoNotShareLanes`, `TurnsAreValid`, `StreamsAreIsolated`,
  `HistoriesOnlyGrow`. They follow from `LanesInv` (module `LanesInvariants`). Lane accounting is not inductive by
  itself: to keep it when a turn ends or a lease is dropped one has to know what each phase leaves empty
  (`PhaseInv`), that a blocked thread is blocked on one thing (`BlockedInv`), that every seat under way answers a
  call that waits for it and sits in the lane of that call's caller (`SeatInv`, `DistinctInv`), that a turn being
  filled uses no lane twice (`SeatedInv`), and that each lane's history belongs to whom the lane is held by. The
  proofs in `LanesProofs` go conjunct by conjunct: types, leases and lanes, then seats and histories, then the queues, last
  the refinement; `OrderLemmas` has what the proofs need about removing from and appending to sequences, sums, and
  finite sets of numbers.
  On top of `LanesInv`, `LanesProofs` proves `NoSeatIsLost`, `NobodyIsForgotten`, `SeatsWaitInOrder`, `TurnsAreFull` and
  `FirstSeatsAtHome` from `QueueInv`: the queues are in order and what `fill` has put back goes before what it has yet to
  see (`OrderInv`), what was put back still cannot sit (`WidthInv`), a blocked thread has a request or a completer
  (`OwedInv`), a slot that is waited for has a seat in one of the three queues (`CoverInv`), and only slots of the call are filled (`ServedInv`). That a slot has no second seat comes
  from `DistinctInv`; sizes then add up. `retain` needs its order: the `j`-th element kept comes from a later position
  than those before it. `FirstSeatsAtHome` assumes `~Cloning`, and is false with clones, as `lanes_clones` shows: without
  them a stream has one caller with one call under way (`OwnLaneInv`), so the seat whose lane the first seat of
  a call would have to share is of the same call, and would come before it.
* Refinement: `OneStateForEachStream` proves that `Lanes` implements `StreamStates` under the mapping of `LanesRefinement`,
  again with `~Cloning` (the mapping reads a stream's state off its one holder). Each action has a lemma that
  says which abstract step it is: a spawn opens, `RunTurn` and a `FailTurn` that got as far as the lanes advance all streams seated
  in their own lanes at once (`AbsorbSimulates`), `LandSeat`, `FailSeat` and `RefuseCall` may return, a panic is the
  breakdown, and serving, filling, borrowing and dropping of the runnable stutter. The abstract machine lets a state
  absorb a first seat only of a call that has not fed it, and another only of one that has, so `FedInv` is needed beyond
  `QueueInv`: a lane holds no seat of a call to come (`CallsAreKnown`); it holds the first seat of a call under way exactly when
  the call was served it or the seat is in the turn that just ran (`ServedAreFed`); and a later seat sits in its own lane
  only after the first was served (`LaterSeatsFollow`), because `fill` never lets a seat that waits be overtaken
  by one of the same call (`OrderInv`, `WidthInv`).
* Session state: `SimpleStateTypes`, `PrecursorsAlwaysDone`, `ValuesAlwaysOfThisTurn`, `ValuesAlwaysFlushed`,
  `SymbolsAndPresetsAlwaysReset`, from `SimpleInv`. Its heart is `WorkIsKept`: while a turn is at position `next`, every
  value computed at an earlier position that an output or a later step needs is there and is of this turn. That is
  what makes the leftovers of a failed turn harmless: an input is set before it is read, and an op's own value is
  overwritten before any reader's turn comes, since readers come later in the order.
  `TableIsSane`, `InputsAreFed`, `ResetIsClean` and `PoolIsOfThisTurn` complete it.
  `PastLengthAlwaysShared` follows from `PastIsShared`, which says what the caches have in common in each phase of a turn, until
  one fails. It assumes `CachesAreRun`: a node that the outputs do not need has an op state all the same, and if it is
  the first cache, the past length of all is that of a cache that never grows. TLC's plans evaluate every node.

* Evaluation order: `OrderTypes` and `RefusedForALoop` for every graph; `OrdersArePlans`, `SomethingIsAlwaysNext` and
  `KeptStartersAreExact` under `InputsAreSources` (the inputs of a model are distinct sources, which mention no symbol beyond those
  of their shapes), and `SymbolsAreBoundBefore` under `ConstantsMintNothing` too (`Const` does not override
  `mints_runtime_symbols`). Without `InputsAreSources` the memory-saving order does fail, as section 4 says. With them `OrderIsPlan`,
  which `SimpleState` assumes of a plan, is a fact about every plan that is built.
  The walks rest on `StackInv`: the stack is a path from a target, each node the precursor the one below it is waiting for,
  the precursors passed by are in order, and `pending` is the path but its start. So a finished node has all its precursors before it,
  what is done when the targets are is exactly what the outputs need, and a precursor that is pending closes a loop along the
  stack (`PathCloses`). `AfterInv` says what a derived dependency is: its ends are both needed, and the
  node that waits is no ancestor of its definer. Hence the second walk orders the same nodes as the first, and one definer alone closes
  no loop (`OneDefinerClosesNoLoop`). `DefinersInv` says that the first claimant of a symbol is what its consumers wait for.
  The third order rests on `RamInv`. That the second walk found an order makes precursors well founded; every node that waits for
  something done is a candidate, so when there is no candidate, a least node among those still needed has no precursor, and is a starter; and each kept set
  is exact because a starter has no precursor, so putting one in order takes it alone out of every
  set (`FollowOneKeeps`). With exact sets, a candidate that is not ready has a starter to follow.
  `ReachIsTheClosure` stands under all of it: `Reach` adds to a set as many times as there are nodes, and if the last addition were not
  idle, no earlier one was, and there would be more nodes than there are.

* Device memory: `PartitionsNeverConflict`, `DeviceTypes`, `ReadsAlwaysIntact`, `HeldViewsAlwaysIntact` and
  `ForwardedMemoryIsAlwaysKept`, in `DeviceProofs`. While the schema is built (`SchemaInv`), a lifetime reaches the last step
  that needs the value (`LifetimesReachReaders`) and, for the input of a planned forwarder, the end of what the forwarder hands
  on (`LifetimesAreForwarded`), and two values in one partition are never alive together (`PartitionsAreDisjoint`). While a turn
  runs, `ArenaInv` says that a value still to be read is what a caller fed, or lies in the region of the node that
  wrote it in this turn, whose region is kept at least as long, and is intact until its lifetime ends (`ValuesArePlaced`), and
  that what callers hold is intact and in no storage the turn writes in (`HeldAreSafe`). The last three theorems assume
  `ForwardersStayOnDevice`: what reads the output of a forwarder is itself a device operator. The code does not see to it; the
  plans of `device_arena` satisfy it, and the one of `device_forward` shows that `ReadsAreIntact` fails without. That
  partitions do not conflict and the types need no such assumption.

* Rings of `Delay`: `EmptyRingHolds`, `RingKeepsTheLastFrames` and `OutputIsDelayed` say, for any delay, overlap, pulse and
  history, that a new ring holds silence, that a pulse leaves the last frames of all there were in the ring, and that the
  answer is that of a delay line. A pulse shorter than the ring goes round at most once; with a longer one the start of the run
  is the new head, since a turn of the ring does not change a remainder (`ModShift`).

* Pulsification: `ModelStands` says of any graph of the operators of `WholeModel` that is accepted, at any pulse, that the
  declared lengths are those of the source model and that each wire of the pulsed model stands for one of the source's. It goes up the
  graph node by node, from one lemma per `pulsify` (`PadTranslates`, `PooledTranslates`, `ConcatTranslates`, ...): what is
  wired is sound (`IsPulsed`: facts are numbers, nodes read earlier wires, a padded edge lies in the pulse of the first valid frame,
  windows are aligned with pulses), and `Follows` says what each node makes of the whole stream of its inputs. `Sums`,
  `Wires` and `PulsedModel` are recursive functions; that they are what they say is proved from a least argument where they
  were not (`SumsExist`, `WiresExist`, `MadeExist`).

* Sessions of pulsified models: `SessionsKeepTheirTypes`, `TurnsCarryWhatIsDeclared`, `RingsAlwaysHoldTheLastFrames`,
  `DelaysDelayTheirStream` and `DeclaredLengthIsRight` hold for any model, lanes and streams, through failed turns and resets, from
  `SessionInv`: besides the rings, every wire of the turn under way carries as many numbers as its fact declares for every
  seat (`TurnIsSound`), whatever operator computed it, every op state has the form that its operator gives it
  (`StateIsSound`) and the limits that a pad keeps are those of some length (`LimitsAreSound`). `NodeKeeps` is the step for one
  node and one seat, with one lemma per operator. They assume what `wire_node` sees to (`SumsAgree`: the inputs of a sum
  have one shape), which `PulseSessionAssumption` states and TLC evaluates for every model it runs.

* What sessions answer: `AnswersAreRight` says of `AnswersAreTheReference` that it holds for every graph that `TellsItsEnds`, every
  pulse, number of lanes, length of a stream, order of turns, failure and reset. `ModelStands` is the half that knows nothing of
  time: each node of the pulsed model makes of whole streams what the source model does (`Follows`). The other half is
  one lemma per kind of node: a node that was shown the frames `0 .. k` of what its input stands for, and whose
  state is that of `k` frames (`StateFollows`), shows the frames of what its output stands for, and leaves the
  state of what it has been shown then. `NodeWorks` says that a node of the turn under way meets their hypotheses (`Works`), and
  `NodeGoes` that it therefore shows its output. A lane therefore follows its stream (`LanesFollow`): between turns each op state is that of the
  frames read so far and the answers are the start of the output wire; during a turn the wires computed so far show the stream and
  those op states of its seats that the turn has passed are one pulse ahead. A broken stream is owed nothing until its lane is
  reset; then nothing was read and the states are the initial ones. `FollowedIsRight` reads the property off the last wire.
  What the source model calls the end of a stream is known to a session only once the length is bound, which is in the last
  pulse. So a node that adds frames to the end of a stream must not have passed that end before (`IsTimely`), and this is where the
  hypothesis `TellsItsEnds` comes in: frames are appended, or spread by a deconvolution, only to streams that
  no slice, and no deconvolution that trims more than it spreads, has cut short on the way from the source. `Tells` is what `pulsify` keeps true of such graphs: on the wire before each
  node that appends, whole pulses of the source reach no further than the last valid frame (`IsEarly`), because delays put the end off by as
  much as they hold back and every other operator loses no frames at the end but those its window, or its stride, takes as well.
  The hypothesis is not idle: `slice(1, 1)` before `concat(1 after)` is answered wrongly, as section 4 says. The
  second hypothesis, `DeconvsAreInStep`, is on the pulsed model: what a `DeconvDelay` overlays is not spread apart (its stride
  is 1) or not late. It is the case that `pulse_deconv` shows to fail otherwise. A deconvolution adds what the kernel spreads beyond
  a pulse to the next pulse, and its delay carries that rest: the lemmas say that the rest is what the frames before
  spread into the frames to come, and that a mask in front of it makes the junk after the end count for nothing. All
  1076 graphs that `pulse_session` runs satisfy both hypotheses, the 673 with a deconvolution included. The last one, `IsBelowNever`,
  says that no position of a stream is the `usize::MAX` by which `PadLimits` and its like mean an end not yet known.

* Caches: `CursorsStayInside`, `TheViewIsTheHistory`, `ThePastLengthIsTheHistory` and `TheHandedOutAreIntact`, for any number
  of sessions, tokens, chunks and buffers and any window, sink and block, from `KvInv`. They assume `ClonesAreApart`: a session
  with a device cache is not cloned, which the code does not forbid and which `kv_clones` shows to be wrong.
  `CachesKeep` relates each state to its session's history: the first `len` slots of a buffer are the history (`Holds`), and
  the `k`-th last token sits `k` slots behind the cursor of a window (`RingKeeps`). Of device memory
  it has to be known too that no two sessions write in one buffer, and that what was handed out is no session's buffer, or is
  a window no longer than what the session keeps (`IsBehind`, in `BuffersAreOwned`): turns then write behind
  it, and a truncation below it takes the dropped tokens out of the promise. What a turn hands out itself is right from the start
  (`HandedIsRight`). And of a checkpoint that it is what the session held (`SavedKeeps`).
  A quantised cache was fed values whose tokens are those of the history, but after a checkpoint some were quantised before:
  `Regiven` says that those are of whole blocks, each on the scale of its block, and stays true while the history grows
  (`RegivenGrows`). `QuantHolds` says where the values that were fed are, in the sink, in blocks that all have the scale of their
  tokens, or in the residual, which is shorter than a block. `PushHolds` proves it for one token and `IngestedHolds` for a chunk,
  whose pushes are a function on 0 .. n: a least push that broke it would follow one that did not. `QuantView` then reads back the
  quantised history, since a block cut anew from what was read has the tokens, and so the scale, that it had before.
  `GrowthStaysGeometric` follows from `GrowthInv` on top of it: a growth makes at least twice the room there was and less than twice
  what is needed, so each copy doubles the room; the first buffer of a device cache counts as a reallocation but copies
  nothing. Powers of two are the recursive function `TwoTo`, because the prover does not know `^`.

Every part of the invariants was first checked by TLC on the instances above.

Only model-checked: graphs outside the hypotheses above (`pulse_session` has none). Out of the prover's reach, and so with TLC for good: liveness under
fairness and `ENABLED` (`EveryCallerWakesUp`, `JoinReturns`, `OrderIsFound`), and what the recursive definitions compute beyond what an
argument from a least counterexample gives.

## 6. What is not modelled

* In the modelled parts: the linger before a turn and the meters; contents and shapes of tensors beyond one extent;
  `compute_one`, `compute_recursively` and the other debugging entries of `SimpleState`; slots and buffers beyond one per
  node; explicit dependencies of a plan (nobody passes any); wgpu's pool of one buffer per partition; exotic tensors; the rounding of sizes.
* What an op without precursors does with a stale value it is handed after a failed turn (`plan.rs:726`): `Random` and the
  pulsed `Range`, the only such ops besides inputs and constants, ignore it.
* In the pulse modules: scans with chunks of more than one frame (their `skip` counts iterations) and backward scans, which
  pulsification does not refuse; the body of a scan as a plan of its own, and what a session computes after a turn failed
  and lost the hidden state; sum pools, FFT, `diag_gather`, ranges, reshapes; SAME and other implicit
  paddings; bias, adjustment and dilation of deconvolutions (a dilation is taken as 1, `pulse/src/ops/cnn/deconv.rs:142`); constants of a
  concatenation that differ from seat to seat (`pulse-opl/src/concat.rs:139`: they have one row per seat, and rows alike); delays that a zero padding gives.
* In the caches: several heads; windows kept by attention sinks; the attention computed on what is read; the rewrites that
  choose a cache; loading on top of a state that is not new. Quantising anew is exact in the model where
  floating point rounds.
* `blockify` and its operators (a window over blocks, ranges, affine trims): pattern matching on symbolic expressions
  of attention masks.
* Kernels and device drivers: numeric data, and code outside of the repository.
* Graph rewriting, the optimiser, inference, symbolic expressions: sequential transformations judged by the semantics of
  some hundred operators over unbounded terms, for which neither TLC nor the provers are suited.
* Most of the repository by size is kernels, data types, formats and rewriting: the modules stand for
  the few thousand lines where state, order, failure and sharing are, and the map covers about one line in a hundred of the whole.
* Formats, bindings, command line: input, output and wrappers.
