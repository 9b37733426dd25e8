------------------------------ MODULE EvalOrder ------------------------------
(***************************************************************************)
(* How a plan gets its order (SimplePlan::build_with_outputs_and_deps in   *)
(* core/src/plan.rs, core/src/model/order.rs): SimpleState runs the order  *)
(* this module finds.                                                      *)
(*                                                                         *)
(* A first walk, from the outputs down, orders the nodes by tensor edges   *)
(* alone.  From it come the nodes that mint each runtime symbol, and the   *)
(* nodes that have to wait for them.  A second walk obeys both, and either *)
(* its order is the plan or it only says which nodes to compute, and they  *)
(* are ordered again with memory in mind.  Constants leave the plan last.  *)
(*                                                                         *)
(* A step is a turn of a loop of the source.  Path::alive is written and   *)
(* never read, and is not modelled.  Nobody passes explicit dependencies.  *)
(***************************************************************************)
EXTENDS Naturals, FiniteSets, Sequences, Functions, SequencesExt, FiniteSetsExt

CONSTANTS
    NodeCount,   \* nodes are numbered from 1
    SymbolCount, \* so are symbols: their order decides that of dependencies
    Models       \* the graphs and options to build plans for

Node == 1 .. NodeCount
Symbol == 1 .. SymbolCount

\* A graph, the symbols in the shapes of a node's outputs, those it mentions
\* in values or asks for, the nodes that mint, and skip_order_opt_ram.
IsModel(g) ==
    /\ g.wires \in [Node -> Seq(Node)]
    /\ g.inputs \in Seq(Node) /\ g.outputs \in Seq(Node) /\ g.outputs # <<>>
    /\ g.consts \subseteq {n \in Node : g.wires[n] = <<>>} \ Range(g.inputs)
    /\ g.shapes \in [Node -> SUBSET Symbol] /\ g.mentions \in [Node -> SUBSET Symbol]
    /\ g.mints \subseteq Node
    /\ g.skipRam \in BOOLEAN

ASSUME EvalOrderAssumption ==
    /\ NodeCount \in Nat \ {0}
    /\ SymbolCount \in Nat
    /\ \A g \in Models : IsModel(g)

VARIABLES
    model,      \* one of Models
    phase,      \* "base", "walk", "ram", "built", "failed" or "panicked"
    at,         \* the target, or the input, the loop of the phase is at
    stack,      \* current_stack: nodes, and which precursor is next
    pending,    \* nodes on the stack, but the target
    done,       \* nodes in order
    order,
    after,      \* the definers that each node waits for: derived
    toCompute,  \* the second walk, for the third order
    candidates, \* nodes that have been waiting for something in order
    cache       \* cache_upstream: known sets of starters

vars == <<model, phase, at, stack, pending, done, order, after, toCompute, candidates, cache>>

IsInput(n) == n \in Range(model.inputs)

-----------------------------------------------------------------------------
(* Sequences in order: the numbers of a set, and what a filter keeps.       *)

Ascending(set) ==
    [j \in 1 .. Cardinality(set) |->
        CHOOSE i \in set : Cardinality({k \in set : k <= i}) = j]

Only(seq, set) ==
    LET kept[i \in 0 .. Len(seq)] ==
            IF i = 0 THEN <<>>
            ELSE IF seq[i] \in set THEN Append(kept[i - 1], seq[i]) ELSE kept[i - 1]
    IN  kept[Len(seq)]

-----------------------------------------------------------------------------
(* Reaching along a function from nodes to sets of nodes.                   *)

Reach(from, step) ==
    LET within[k \in 0 .. NodeCount] ==
            IF k = 0 THEN from
            ELSE LET closer == within[k - 1] IN closer \cup UNION {step[n] : n \in closer}
    IN  within[NodeCount]

Ancestors ==
    [n \in Node |-> Reach(Range(model.wires[n]), [m \in Node |-> Range(model.wires[m])])]

-----------------------------------------------------------------------------
(* eval_order_for_nodes.                                                    *)

Leaves == {n \in Node : model.wires[n] = <<>>}

\* What comes before a node: computed inputs, then definers, then leaves.
Precursors(n) ==
    Only(model.wires[n], Node \ Leaves) \o after[n] \o Only(model.wires[n], Leaves)

Walking == phase \in {"base", "walk"}
AtNode == Walking /\ stack # <<>>
AtTarget == Walking /\ stack = <<>> /\ at <= Len(model.outputs)
Walked == Walking /\ stack = <<>> /\ at > Len(model.outputs)

Top == Last(stack)
Precursor == Precursors(Top.node)[Top.next]
IsReached == IsInput(Top.node) \/ Top.next = Len(Precursors(Top.node)) + 1

walkVars == <<at, stack, pending, done, order>>
ramVars == <<toCompute, candidates, cache>>

\* Mutant: what the last walk did stays done.
StartOverDone ==
    /\ at' = 1 /\ stack' = <<>> /\ pending' = {}
    /\ order' = <<>> /\ UNCHANGED done

\* A new walk, or Path::with_size.
StartOver ==
    /\ at' = 1 /\ stack' = <<>> /\ pending' = {}
    /\ done' = {} /\ order' = <<>>

NextTarget ==
    /\ AtTarget
    /\ at' = at + 1
    /\ IF model.outputs[at] \in done
         THEN UNCHANGED <<stack, pending>>
         ELSE stack' = <<[node |-> model.outputs[at], next |-> 1]>> /\ pending' = {}
    /\ UNCHANGED <<model, phase, done, order, after, ramVars>>

Finish ==
    /\ AtNode /\ IsReached
    /\ order' = Append(order, Top.node)
    /\ done' = done \cup {Top.node}
    /\ pending' = pending \ {Top.node}
    /\ stack' = Front(stack)
    /\ UNCHANGED <<model, phase, at, after, ramVars>>

\* Mutant: the same precursor again.
Stay == stack

Advance == [stack EXCEPT ![Len(stack)].next = @ + 1]

SkipDone ==
    /\ AtNode /\ ~IsReached /\ Precursor \in done
    /\ stack' = Advance
    /\ UNCHANGED <<model, phase, at, pending, done, order, after, ramVars>>

DetectLoop ==
    /\ AtNode /\ ~IsReached /\ Precursor \in pending \ done
    /\ phase' = "failed"
    /\ UNCHANGED <<model, after, walkVars, ramVars>>

Descend ==
    /\ AtNode /\ ~IsReached /\ Precursor \notin pending \cup done
    /\ pending' = pending \cup {Precursor}
    /\ stack' = Append(stack, [node |-> Precursor, next |-> 1])
    /\ UNCHANGED <<model, phase, at, done, order, after, ramVars>>

-----------------------------------------------------------------------------
(* symbol_deps.                                                             *)

\* Inputs claim the symbols of their shapes, then the minting nodes in order.
Claimants == model.inputs \o order
Claims(s) ==
    {i \in DOMAIN Claimants :
        /\ s \in model.shapes[Claimants[i]]
        /\ i > Len(model.inputs) => Claimants[i] \in model.mints}

Definer(s) == Claimants[Min(Claims(s))]

IsMentioned(n, s) == s \in model.shapes[n] \cup model.mentions[n]

\* Mutant: the ancestors of a definer are made to wait for it.
WaitsThoughAncestor(n, s) ==
    /\ IsMentioned(n, s) /\ Claims(s) # {}
    /\ Definer(s) # n /\ ~IsInput(Definer(s))
    /\ Definer(s) \notin Range(model.wires[n])

\* Pairs that tensor edges relate are left out.
Waits(n, s) ==
    /\ IsMentioned(n, s) /\ Claims(s) # {}
    /\ Definer(s) # n /\ ~IsInput(Definer(s))
    /\ Definer(s) \notin Range(model.wires[n])
    /\ n \notin Ancestors[Definer(s)]

\* In the order of symbols, each definer once.
DefinersFor(n) ==
    LET waited == {s \in Symbol : Waits(n, s)}
        first == {s \in waited : \A t \in waited : Definer(t) = Definer(s) => s <= t}
        symbols == Ascending(first)
    IN  [i \in DOMAIN symbols |-> Definer(symbols[i])]

DeriveDeps ==
    /\ Walked /\ phase = "base"
    /\ after' = [n \in Node |-> IF n \in done THEN DefinersFor(n) ELSE <<>>]
    /\ phase' = "walk"
    /\ StartOver
    /\ UNCHANGED <<model, ramVars>>

-----------------------------------------------------------------------------
(* eval_order_opt_ram_for_nodes.                                            *)

\* Mutant: tensor edges only.
UpsByTensor(n) == IF n \in toCompute THEN Range(model.wires[n]) ELSE {}

Ups(n) == (IF n \in toCompute THEN Range(model.wires[n]) ELSE {}) \cup Range(after[n])
Downs(n) == {m \in Node : n \in Ups(m)}
IsReady(n) == Ups(n) \subseteq done

StartRam ==
    /\ Walked /\ phase = "walk" /\ ~model.skipRam
    /\ phase' = "ram"
    /\ toCompute' = Range(order)
    /\ candidates' = {} /\ cache' = <<>>
    /\ StartOver
    /\ UNCHANGED <<model, after>>

\* What is left of the known sets of starters once next is in order.

\* Mutant: the sets keep it.
ForgottenKeeping(known, next, waiting) == [c \in DOMAIN known \ {next} |-> known[c]]

Forgotten(known, next, waiting) ==
    [c \in DOMAIN known \ {next} |->
        IF c \in waiting THEN known[c] \ {next} ELSE known[c]]

\* Path::follow_one, with the sets of starters the caller knows.
FollowOne(next, known) ==
    LET waiting == (candidates \ {next}) \cup Downs(next) IN
    IF next \in done
      THEN phase' = "panicked" /\ UNCHANGED <<order, done, candidates, cache>>
      ELSE /\ order' = Append(order, next)
           /\ done' = done \cup {next}
           /\ candidates' = waiting
           /\ cache' = Forgotten(known, next, waiting)
           /\ UNCHANGED phase

FollowInput ==
    /\ phase = "ram" /\ at <= Len(model.inputs)
    /\ at' = at + 1
    /\ IF model.inputs[at] \in toCompute
         THEN FollowOne(model.inputs[at], cache)
         ELSE UNCHANGED <<phase, order, done, candidates, cache>>
    /\ UNCHANGED <<model, stack, pending, after, toCompute>>

\* Mutant: one output is enough.
SomeOutputIsDone == Range(model.outputs) \cap done # {}

OutputsAreDone == Range(model.outputs) \subseteq done

Choosing == phase = "ram" /\ at > Len(model.inputs) /\ ~OutputsAreDone
Ready == {c \in candidates : IsReady(c)}

FollowReady ==
    /\ Choosing /\ Ready # {}
    /\ FollowOne(Min(Ready), cache)
    /\ UNCHANGED <<model, at, stack, pending, after, toCompute>>

\* The nodes without precursors upstream of a candidate, through what is not done.
Starters(from) ==
    {n \in Reach({from}, [m \in Node |-> Ups(m) \ done]) : Ups(n) = {}}

\* best_upstream_starter: what is not known is found and kept, ...
Known ==
    [c \in DOMAIN cache \cup candidates |->
        IF c \in DOMAIN cache THEN cache[c] ELSE Starters(c)]

\* ... and the candidate with the fewest starters, the first of them, gives its first.
Best == Min({c \in candidates :
                \A d \in candidates : Cardinality(Known[c]) <= Cardinality(Known[d])})

FollowStarter ==
    /\ Choosing /\ Ready = {} /\ candidates # {}
    /\ IF Known[Best] = {}
         THEN phase' = "panicked" /\ UNCHANGED <<order, done, candidates, cache>>
         ELSE FollowOne(Min(Known[Best]), Known)
    /\ UNCHANGED <<model, at, stack, pending, after, toCompute>>

FollowFresh ==
    LET fresh == {n \in toCompute \ done : IsReady(n)} IN
    /\ Choosing /\ candidates = {}
    /\ IF fresh = {}
         THEN phase' = "panicked" /\ UNCHANGED <<order, done, candidates, cache>>
         ELSE FollowOne(Min(fresh), cache)
    /\ UNCHANGED <<model, at, stack, pending, after, toCompute>>

\* Constants are not run.
Build ==
    /\ \/ Walked /\ phase = "walk" /\ model.skipRam
       \/ phase = "ram" /\ at > Len(model.inputs) /\ OutputsAreDone
    /\ phase' = "built"
    /\ order' = Only(order, Node \ model.consts)
    /\ UNCHANGED <<model, at, stack, pending, done, after, ramVars>>

-----------------------------------------------------------------------------
Init ==
    /\ model \in Models
    /\ phase = "base"
    /\ at = 1 /\ stack = <<>> /\ pending = {} /\ done = {} /\ order = <<>>
    /\ after = [n \in Node |-> <<>>]
    /\ toCompute = {} /\ candidates = {} /\ cache = <<>>

Next ==
    \/ NextTarget \/ Finish \/ SkipDone \/ DetectLoop \/ Descend
    \/ DeriveDeps
    \/ StartRam \/ FollowInput \/ FollowReady \/ FollowStarter \/ FollowFresh
    \/ Build

Spec == Init /\ [][Next]_vars

\* Planning is one loop after another in the caller's thread.
FairSpec == Spec /\ WF_vars(Next)

-----------------------------------------------------------------------------
\* The shape of the state: the set of done nodes is the order's, and the stack
\* is inside its nodes' precursors (eval_order_for_nodes, Path).
TypeOK ==
    /\ IsModel(model)
    /\ phase \in {"base", "walk", "ram", "built", "failed", "panicked"}
    /\ at \in 1 .. Len(model.outputs) + Len(model.inputs) + 1
    /\ \A i \in DOMAIN stack : /\ stack[i].node \in Node
                               /\ stack[i].next \in 1 .. Len(Precursors(stack[i].node)) + 1
    /\ pending \subseteq Node /\ candidates \subseteq Node /\ toCompute \subseteq Node
    /\ order \in Seq(Node) /\ done \subseteq Node
    /\ phase # "built" => done = Range(order)
    /\ after \in [Node -> Seq(Node)]
    /\ DOMAIN cache \subseteq Node /\ \A c \in DOMAIN cache : cache[c] \subseteq Node

\* Where a node's precursors are, for the properties.
Before == [n \in Node |-> IF IsInput(n) THEN {} ELSE Range(Precursors(n))]
WiredBefore == [n \in Node |-> IF IsInput(n) THEN {} ELSE Range(model.wires[n])]
HasLoop(step) == \E n \in Reach(Range(model.outputs), step) : n \in Reach(step[n], step)

\* The order build_with_outputs_and_deps returns is a plan: the nodes the
\* outputs need and no other, once each, and each after all it waits for,
\* definers of symbols included; only constants are not there.
OrderIsPlan ==
    phase = "built" =>
        /\ IsInjective(order)
        /\ Range(order) = Reach(Range(model.outputs), Before) \ model.consts
        /\ \A i \in DOMAIN order :
               Before[order[i]] \ model.consts \subseteq {order[j] : j \in 1 .. i - 1}

\* A symbol that no input carries and that a node of the plan mints is known
\* when a node that mentions it runs, unless the minting node needs that node's
\* own output (symbol_deps: "any other node mentioning such a symbol ... must
\* come after it").  Constants are not run.
ConsumersFollowDefiners ==
    phase = "built" =>
        \A s \in Symbol, i \in DOMAIN order :
            LET minting == {n \in model.mints \cap done : s \in model.shapes[n]} IN
            /\ IsMentioned(order[i], s) /\ minting # {}
            /\ \A n \in Range(model.inputs) : s \notin model.shapes[n]
            => \E n \in minting : \/ \E j \in 1 .. i : order[j] = n
                                  \/ order[i] \in Ancestors[n]

\* A plan is refused only if what the outputs need has a loop; and derived
\* dependencies, which leave out the ancestors of a definer, only close one
\* when there are several definers that wait for each other.
LoopsAreReal ==
    phase = "failed" =>
        \/ HasLoop(WiredBefore)
        \/ /\ HasLoop(Before)
           /\ Cardinality(UNION {Range(after[n]) : n \in Node}) > 1

\* opt_ram always finds a node to run next, and one that is not in order yet:
\* the assertion of follow_one and the unwraps of the loop hold.
NextIsFound == phase # "panicked"

\* The sets of starters that are kept, and that lose a node each time one is
\* in order, are what a new search would find (cache_upstream).
UpstreamIsExact == phase = "ram" => \A c \in DOMAIN cache : cache[c] = Starters(c)

\* Every walk ends, loop in the graph or not (test dodge_loop of order.rs).
OrderIsFound == <>(phase \in {"built", "failed"})
=============================================================================
