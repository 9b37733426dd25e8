----------------------------- MODULE SimpleState -----------------------------
(***************************************************************************)
(* The life of a turn on a session state (core/src/plan.rs, SimpleState).  *)
(*                                                                         *)
(* A state runs a plan turn after turn.  What lives for a turn (TurnState) *)
(* is the table of node values, the symbols the inputs resolve and what    *)
(* the turn handler installs; what lives for the session is the op states, *)
(* here the lengths of the key-value caches.  run_plan_with_eval resets    *)
(* the turn after its outputs are taken, and returns early on any error:   *)
(* the interesting histories are those where turns fail at every step.     *)
(*                                                                         *)
(* A plan is any graph with an order in which a node comes after its       *)
(* precursors (core/src/model/order.rs), so the module is about the flush  *)
(* lists of every such plan.  A value is known by the turn that computed   *)
(* it, a shape by one extent, and the symbols are the three ways a symbol  *)
(* gets its value: from an input, from an op state, from an output.        *)
(***************************************************************************)
EXTENDS Naturals, Sequences, FiniteSets

CONSTANTS
    Node,        \* ids of the nodes of the graph
    Plans,       \* the plans to run
    MaxExtent,   \* bound: extents of the inputs and of what nodes mint
    MaxTurns,    \* bound: turns of a behaviour
    Absent       \* no value, no resolution, no scenario, no pool

\* Symbols by what binds them: S is carried by the inputs, P is the past
\* length of the caches, R is minted by a node when it evaluates.
Symbol == {"S", "P", "R"}
Kind == {"const", "source", "op", "cache", "range"}
Extent == 1 .. MaxExtent

\* What SimplePlan::build guarantees of a plan: `order` holds no constant and
\* no node twice, a node comes after the precursors that are not constants,
\* and the outputs are computed.  The scenarios are those of the model's symbol
\* scope, each one an assertion symbol = extent.
Positions(p) == DOMAIN p.order
Ordered(p) == {p.order[k] : k \in Positions(p)}
IsPlan(p) ==
    /\ p.kind \in [Node -> Kind]
    /\ p.preds \in [Node -> SUBSET Node]
    /\ p.order \in Seq(Node)
    /\ p.inputs \in Seq(Node)
    /\ p.outputs \subseteq Node
    /\ p.scenarios \in Seq([symbol : Symbol, extent : Nat])
    /\ \A n \in Node : p.kind[n] \in {"const", "source"} => p.preds[n] = {}
    /\ \A n \in Node : p.kind[n] = "source" <=> \E i \in DOMAIN p.inputs : p.inputs[i] = n
    /\ \A j, k \in Positions(p) : p.order[j] = p.order[k] => j = k
    /\ \A k \in Positions(p) : p.kind[p.order[k]] # "const"
    /\ \A k \in Positions(p) : \A n \in p.preds[p.order[k]] :
          p.kind[n] = "const" \/ \E j \in 1 .. (k - 1) : p.order[j] = n
    /\ \A n \in p.outputs : p.kind[n] = "const" \/ n \in Ordered(p)

ASSUME SimpleStateAssumption ==
    /\ \A p \in Plans : IsPlan(p)
    /\ MaxExtent \in Nat \ {0}
    /\ MaxTurns \in Nat
    /\ Absent \notin Nat
    /\ Absent \notin [extent : Nat, turn : Nat]

VARIABLES
    plan,       \* the plan, chosen once
    phase,      \* where run_plan_with_eval is; "idle" between turns
    next,       \* the input to set, or the position of the order to evaluate
    turn,       \* turns begun
    values,     \* TurnState.values; empty until the first ready_turn
    symbols,    \* TurnState.resolved_symbols
    scenario,   \* TurnState.scenario
    pool,       \* what the turn handler installed in TurnState.shared
    symsDone,   \* do_exec_plan_with_eval's syms_done
    memory,     \* op_states: the length of each cache
    reset,      \* turns begun when a turn was last reset
    failures    \* turns that failed

turnVars == <<values, symbols, scenario, pool>>
vars == <<plan, phase, next, turn, values, symbols, scenario, pool, symsDone, memory, reset,
          failures>>

-----------------------------------------------------------------------------
(* The plan: which symbols it mentions, and what may be flushed when.       *)

NodesOf(kind) == {n \in Node : plan.kind[n] = kind}
Order == plan.order
Steps == DOMAIN Order
Scenarios == plan.scenarios
At(k) == Order[k]

\* SimplePlan.symbols: the symbols of the facts of all nodes.
PlanSymbols ==
    {s \in Symbol : \/ s = "S" /\ NodesOf("source") # {}
                    \/ s = "P" /\ NodesOf("cache") # {}
                    \/ s = "R" /\ NodesOf("range") # {}}

Reads(k) == plan.preds[At(k)]

\* Mutants: a value is flushed by its first reader; nothing ever is.
FlushAtFirstUse(k) ==
    {n \in Reads(k) : /\ \A j \in Steps : j < k => n \notin Reads(j)
                      /\ n \notin plan.outputs /\ plan.kind[n] # "const"}
FlushNothing(k) == {}

\* build_flush_list: what the k-th step reads last.  Outputs are needed until
\* the end, constants are never flushed, and a value last read by the very first
\* step would pass for one that nobody reads, but that step reads constants.
FlushList(k) ==
    {n \in Reads(k) : /\ \A j \in Steps : j > k => n \notin Reads(j)
                      /\ n \notin plan.outputs /\ plan.kind[n] # "const" /\ k # 1}

-----------------------------------------------------------------------------
(* Resolving symbols (SimpleState::resolve, SymbolScope::guess_scenario).   *)

Verdict(i, known) ==
    LET s == Scenarios[i].symbol IN
    IF known[s] = Absent THEN "maybe"
    ELSE IF known[s].extent = Scenarios[i].extent THEN "holds" ELSE "fails"

Sure(known) == {i \in DOMAIN Scenarios : Verdict(i, known) = "holds"}
Possible(known) == {i \in DOMAIN Scenarios : Verdict(i, known) # "fails"}

\* The scan stops at the first scenario that holds or the second that may.
Guessed(known) ==
    IF Cardinality(Possible(known)) = 1 THEN Possible(known)
    ELSE {i \in Sure(known) : Cardinality({j \in Possible(known) : j < i}) <= 1
                              /\ \A j \in Sure(known) : i <= j}
NoScenario(known) == Scenarios # <<>> /\ Possible(known) = {}

Known(s) == symbols[s] # Absent
Resolved(s, extent) == [symbols EXCEPT ![s] = [extent |-> extent, turn |-> turn]]

\* The symbols and the scenario after a tensor whose fact carries `s` turned up
\* with `extent`: a symbol that is known is left alone, and must agree.
Agrees(s, extent) == Known(s) => symbols[s].extent = extent
Resolve(s, extent) ==
    /\ Agrees(s, extent)
    /\ symbols' = IF Known(s) THEN symbols ELSE Resolved(s, extent)
    /\ IF Known(s) \/ scenario # Absent
       THEN UNCHANGED scenario
       ELSE /\ ~NoScenario(symbols')
            /\ scenario' = IF Guessed(symbols') = {} THEN Absent
                           ELSE CHOOSE i \in Guessed(symbols') : TRUE

\* The error paths of resolve: a clash changes nothing, and a scenario that
\* cannot be guessed leaves the symbol resolved.
ResolveFails(s, extent) ==
    /\ UNCHANGED scenario
    /\ \/ ~Agrees(s, extent) /\ UNCHANGED symbols
       \/ /\ ~Known(s) /\ scenario = Absent
          /\ symbols' = Resolved(s, extent)
          /\ NoScenario(symbols')

-----------------------------------------------------------------------------
(* The steps of run_plan_with_eval.                                         *)

\* ready_turn: the table is made once, with the constants in it.
ReadyTurn ==
    IF values = <<>>
    THEN [n \in Node |-> IF plan.kind[n] = "const" THEN 0 ELSE Absent]
    ELSE values

\* Any error returns early: nothing is reset.
Abort ==
    /\ phase' = "idle"
    /\ failures' = failures + 1
    /\ next' = 1 /\ symsDone' = FALSE
    /\ UNCHANGED <<plan, turn, reset>>

BeginTurn ==
    /\ phase = "idle" /\ turn < MaxTurns
    /\ phase' = "inputs" /\ next' = 1 /\ turn' = turn + 1
    /\ UNCHANGED <<plan, turnVars, symsDone, memory, reset, failures>>

\* Mutant: an input that has a value already is not replaced.
SetInputOnce(extent) ==
    /\ phase = "inputs" /\ next \in DOMAIN plan.inputs
    /\ Resolve("S", extent)
    /\ values' = IF ReadyTurn[plan.inputs[next]] # Absent THEN ReadyTurn
                 ELSE [ReadyTurn EXCEPT ![plan.inputs[next]] = turn]
    /\ next' = next + 1
    /\ UNCHANGED <<plan, phase, turn, pool, symsDone, memory, reset, failures>>

\* set_input: resolve the symbol of the input's fact, then keep the value.
SetInput(extent) ==
    /\ phase = "inputs" /\ next \in DOMAIN plan.inputs
    /\ Resolve("S", extent)
    /\ values' = [ReadyTurn EXCEPT ![plan.inputs[next]] = turn]
    /\ next' = next + 1
    /\ UNCHANGED <<plan, phase, turn, pool, symsDone, memory, reset, failures>>

\* ... or the resolution fails, or the tensor does not match the fact once the
\* symbols are resolved.
RefuseInput(extent) ==
    /\ phase = "inputs" /\ next \in DOMAIN plan.inputs
    /\ ResolveFails("S", extent) \/ Resolve("S", extent)
    /\ Abort
    /\ UNCHANGED <<values, pool, memory>>

\* ... or there are too few or too many of them, which is found out first.
RefuseInputs ==
    /\ phase = "inputs" /\ next = 1
    /\ Abort
    /\ UNCHANGED <<values, symbols, scenario, pool, memory>>

\* resolve_symbols_with_states: the first cache gives the past length, which
\* then stands for all of them; known already, it is left alone.
FirstCache(n) == n \in NodesOf("cache") /\ \A m \in NodesOf("cache") : n <= m
ResolveStates ==
    /\ phase = "inputs" /\ next > Len(plan.inputs)
    /\ phase' = "before"
    /\ \/ (NodesOf("cache") = {} \/ Known("P")) /\ UNCHANGED <<symbols, scenario>>
       \/ ~Known("P") /\ \E n \in Node : FirstCache(n) /\ Resolve("P", memory[n])
    /\ UNCHANGED <<plan, next, turn, values, pool, symsDone, memory, reset, failures>>

StatesDoNotResolve ==
    /\ phase = "inputs" /\ next > Len(plan.inputs)
    /\ ~Known("P") /\ \E n \in Node : FirstCache(n) /\ ResolveFails("P", memory[n])
    /\ Abort
    /\ UNCHANGED <<values, pool, memory>>

\* Mutant: the loop starts one step early.
BeginExecFromZero ==
    /\ phase = "before"
    /\ values' = ReadyTurn
    /\ pool' = turn
    /\ symsDone' = \A s \in PlanSymbols : Known(s)
    /\ phase' = "exec" /\ next' = 0
    /\ UNCHANGED <<plan, turn, symbols, scenario, memory, reset, failures>>

\* The turn handler installs its resources, and the loop begins.
BeginExec ==
    /\ phase = "before"
    /\ values' = ReadyTurn
    /\ pool' = turn
    /\ symsDone' = \A s \in PlanSymbols : Known(s)
    /\ phase' = "exec" /\ next' = 1
    /\ UNCHANGED <<plan, turn, symbols, scenario, memory, reset, failures>>

\* It may fail, before the loop or after it.
HandlerFails ==
    /\ \/ phase = "before" /\ values' = ReadyTurn
       \/ phase = "exec" /\ next > Len(Order) /\ UNCHANGED values
    /\ Abort
    /\ UNCHANGED <<symbols, scenario, pool, memory>>

Running == phase = "exec" /\ next \in Steps

\* A node's precursors have a value, and so has an input of the model, whose
\* value is handed to its own evaluation.  So is any value that a node without
\* precursors has, but the ops without any that are neither inputs nor constants,
\* Random and the pulsed Range, do not look at what they are handed.
Needs(k) == Reads(k) \cup (IF plan.kind[At(k)] = "source" THEN {At(k)} ELSE {})
InputsAreDone == \A n \in Needs(next) : values[n] # Absent
Flushed == [n \in Node |-> IF n \in FlushList(next) THEN Absent ELSE values[n]]

\* A cache grows by what its input carries, one position.
Remember == memory' = IF plan.kind[At(next)] = "cache"
                      THEN [memory EXCEPT ![At(next)] = @ + 1]
                      ELSE memory

\* What an output tells of the symbols, until all of them are known: a range
\* mints its own extent, and a cache's output is one longer than its past.  The
\* other ops' outputs follow from symbols that are known by then.
Tells(k) == CASE plan.kind[At(k)] = "range" -> [symbol : {"R"}, extent : Extent]
              [] plan.kind[At(k)] = "cache" -> {[symbol |-> "P", extent |-> memory[At(k)]]}
              [] OTHER                      -> {}
Feedback(k) ==
    IF symsDone \/ Tells(k) = {}
    THEN UNCHANGED <<symbols, scenario>>
    ELSE \E told \in Tells(k) : Resolve(told.symbol, told.extent)

\* One node is evaluated: its inputs are read, what they are last needed for is
\* flushed, and its value is kept.
EvalNode ==
    /\ Running /\ InputsAreDone
    /\ Remember
    /\ Feedback(next)
    /\ symsDone' = (symsDone \/ \A s \in PlanSymbols : symbols'[s] # Absent)
    /\ values' = [Flushed EXCEPT ![At(next)] = turn]
    /\ next' = next + 1
    /\ UNCHANGED <<plan, phase, turn, pool, reset, failures>>

\* The op fails after its inputs were flushed.  A cache is taken out of its
\* state before it is extended, so it may be lost.
EvalFails ==
    /\ Running /\ InputsAreDone
    /\ values' = Flushed
    /\ \/ UNCHANGED memory
       \/ plan.kind[At(next)] = "cache" /\ memory' = [memory EXCEPT ![At(next)] = 0]
    /\ Abort
    /\ UNCHANGED <<symbols, scenario, pool>>

\* The op succeeds, but its output clashes with the symbols or, in a debug
\* build, does not match the node's fact.
RefuseOutput ==
    /\ Running /\ InputsAreDone
    /\ \/ Feedback(next)
       \/ ~symsDone /\ \E told \in Tells(next) : ResolveFails(told.symbol, told.extent)
    /\ Remember
    /\ values' = Flushed
    /\ Abort
    /\ UNCHANGED pool

\* Mutant: the turn is reset as a Scan body's is, keeping its symbols.
ResetTurnKeepSymbols ==
    /\ values' = [n \in Node |-> IF n \in Ordered(plan) THEN Absent ELSE values[n]]
    /\ UNCHANGED symbols

\* reset_turn; the scenario is left as it is.
ResetTurn ==
    /\ values' = [n \in Node |-> IF n \in Ordered(plan) THEN Absent ELSE values[n]]
    /\ symbols' = [s \in Symbol |-> Absent]

\* The handler takes its resources back, the outputs are taken, the turn is reset.
FinishTurn ==
    /\ phase = "exec" /\ next > Len(Order)
    /\ \A n \in plan.outputs : values[n] # Absent
    /\ ResetTurn
    /\ pool' = Absent
    /\ phase' = "idle" /\ reset' = turn
    /\ next' = 1 /\ symsDone' = FALSE
    /\ UNCHANGED <<plan, turn, scenario, memory, failures>>

\* A clone goes on with the session, and with the symbols and the scenario, but
\* with neither values nor shared resources.
Clone ==
    /\ phase = "idle" /\ turn > 0
    /\ values' = <<>>
    /\ pool' = Absent
    /\ UNCHANGED <<plan, phase, next, turn, symbols, scenario, symsDone, memory, reset,
                   failures>>

Init ==
    /\ plan \in Plans
    /\ phase = "idle" /\ next = 1 /\ turn = 0
    /\ values = <<>>
    /\ symbols = [s \in Symbol |-> Absent] /\ scenario = Absent
    /\ pool = Absent /\ symsDone = FALSE
    /\ memory = [n \in Node |-> 0]
    /\ reset = 0 /\ failures = 0

\* No turn is left to run.
Over == phase = "idle" /\ turn = MaxTurns /\ UNCHANGED vars

Next ==
    \/ BeginTurn
    \/ \E extent \in Extent : SetInput(extent) \/ RefuseInput(extent)
    \/ RefuseInputs
    \/ ResolveStates \/ StatesDoNotResolve
    \/ BeginExec \/ HandlerFails
    \/ EvalNode \/ EvalFails \/ RefuseOutput
    \/ FinishTurn \/ Clone \/ Over

Spec == Init /\ [][Next]_vars

-----------------------------------------------------------------------------
(* Properties.                                                             *)

TypeOK ==
    /\ IsPlan(plan)
    /\ phase \in {"idle", "inputs", "before", "exec"}
    /\ next \in Nat \ {0} /\ turn \in Nat /\ failures \in Nat
    /\ values \in {<<>>} \cup [Node -> Nat \cup {Absent}]
    /\ symbols \in [Symbol -> {Absent} \cup [extent : Nat, turn : Nat]]
    /\ scenario \in DOMAIN Scenarios \cup {Absent}
    /\ pool \in Nat \cup {Absent}
    /\ memory \in [Node -> Nat]
    /\ symsDone \in BOOLEAN /\ reset \in Nat

\* PrecursorsAreDone: whatever earlier turns did, no step finds a precursor
\* flushed or not computed yet, and the outputs are there at the end: the
\* errors "precursor not done" and "not computed" never occur.
PrecursorsAreDone ==
    /\ Running => InputsAreDone
    /\ phase = "exec" /\ ~Running => \A n \in plan.outputs : values[n] # Absent

\* ValuesAreOfThisTurn: what a step reads, and what the turn returns, was
\* computed or fed in this turn, even when the turns before it failed half-way
\* and left their values behind.
IsFresh(n) == IF plan.kind[n] = "const" THEN values[n] = 0 ELSE values[n] = turn
ValuesAreOfThisTurn ==
    /\ Running => \A n \in Needs(next) : IsFresh(n)
    /\ phase = "exec" /\ ~Running => \A n \in plan.outputs : IsFresh(n)

\* ValuesAreFlushed: a value this turn computed is kept only while it is an
\* output, a later step reads it, or nobody ever does.
ValuesAreFlushed ==
    phase = "exec" =>
        \A n \in Node : values[n] = turn =>
            \/ n \in plan.outputs
            \/ \E k \in Steps : k >= next /\ n \in Needs(k)
            \/ \A k \in Steps : n \notin Reads(k)

\* SymbolsAndPresetsAreReset: of the turns up to the last one that succeeded, a
\* turn finds no symbol resolved, and no value that its node would be handed when
\* it evaluates.  What is handed to a node that is no input of the model, turns
\* that failed since then have left; and the handler's resources are this turn's.
\* It is silent on the scenario: reset_turn leaves it, and the ops read it.
Preset(k) == Reads(k) = {} /\ values[At(k)] # Absent
SymbolsAndPresetsAreReset ==
    phase = "exec" =>
        /\ pool = turn
        /\ \A s \in Symbol : Known(s) => reset < symbols[s].turn
        /\ Running /\ Preset(next) => \/ plan.kind[At(next)] = "source"
                                      \/ values[At(next)] \in reset + 1 .. turn - 1

\* PastLengthIsShared: as long as no turn failed, the past length the first
\* cache gave is that of every cache when its turn comes.
PastLengthIsShared ==
    phase = "exec" /\ failures = 0 =>
        \A k \in Steps : plan.kind[At(k)] = "cache" =>
            memory[At(k)] = symbols["P"].extent + (IF k < next THEN 1 ELSE 0)
==============================================================================
