-------------------------- MODULE SimpleStateProofs --------------------------
(* Theorems of SimpleState, for every graph, plan, scope and number of turns. *)
EXTENDS SimpleState, TLAPS, SequenceTheorems

-----------------------------------------------------------------------------
(* The table of values, turn after turn.                                    *)

Value == Nat \cup {Absent}
Source(n) == plan.kind[n] = "source"
Const(n) == plan.kind[n] = "const"
Evaluated(n) == \E j \in Steps : j < next /\ Order[j] = n
StillNeeded(n) == n \in plan.outputs \/ \E k \in Steps : k >= next /\ n \in Needs(k)

\* Whatever failed, the table is a table, the constants stand in it, and no
\* value comes from a turn that has not begun.
IsTable(table) ==
    /\ table \in [Node -> Value]
    /\ \A n \in Node : Const(n) => table[n] = 0
    /\ \A n \in Node : table[n] # Absent => table[n] <= turn
TableIsSane == values = <<>> \/ IsTable(values)

\* While inputs are set, those that are set hold this turn's value, and nothing
\* else does.
InputIsSet(i) == values # <<>> /\ values[plan.inputs[i]] = turn
InputsAreFed ==
    /\ phase # "idle" => turn > 0
    /\ phase = "inputs" => \A i \in DOMAIN plan.inputs : i < next => InputIsSet(i)
    /\ phase = "before" => \A i \in DOMAIN plan.inputs : InputIsSet(i)
    /\ phase \in {"inputs", "before"} /\ values # <<>> =>
          \A n \in Node : values[n] = turn => Source(n)

\* While nodes are evaluated, what was fed or evaluated holds this turn's value
\* as long as something needs it.
WorkIsKept ==
    phase = "exec" =>
        /\ IsTable(values)
        /\ \A n \in Node : (Source(n) \/ Evaluated(n)) /\ StillNeeded(n) => values[n] = turn

\* What is left is younger than the last reset, and what is of this turn was
\* fed or evaluated.
ResetIsClean ==
    /\ reset <= turn /\ (phase # "idle" => reset < turn)
    /\ \A s \in Symbol : Known(s) => reset < symbols[s].turn
    /\ values # <<>> =>
          \A n \in Ordered(plan) :
             values[n] # Absent =>
                /\ reset < values[n]
                /\ phase = "exec" /\ values[n] = turn => Source(n) \/ Evaluated(n)
PoolIsOfThisTurn == phase = "exec" => pool = turn

SimpleInv ==
    /\ TypeOK /\ TableIsSane /\ InputsAreFed /\ WorkIsKept
    /\ ValuesAreFlushed /\ ResetIsClean /\ PoolIsOfThisTurn

-----------------------------------------------------------------------------
(* What a plan guarantees.                                                  *)

\* Orders and inputs are sequences of nodes, and an order does not repeat one.
LEMMA StepsAreNodes ==
    ASSUME IsPlan(plan)
    PROVE  /\ Len(Order) \in Nat /\ Steps = 1 .. Len(Order)
           /\ \A k \in Steps : At(k) \in Node /\ ~Const(At(k)) /\ Reads(k) \subseteq Node
           /\ \A j, k \in Steps : At(j) = At(k) => j = k
           /\ \A k \in Steps : At(k) \in Ordered(plan)
           /\ plan.outputs \subseteq Node
<1>1. /\ Len(Order) \in Nat /\ Steps = 1 .. Len(Order)
      /\ \A k \in Steps : At(k) \in Node
  BY DEF IsPlan, Order, Steps, At
<1>2. \A k \in Steps : Reads(k) \subseteq Node
  BY <1>1 DEF IsPlan, Reads
<1>3. \A k \in Steps : ~Const(At(k)) /\ At(k) \in Ordered(plan)
  BY DEF IsPlan, Steps, Order, At, Const, Positions, Ordered
<1>4. \A j, k \in Steps : At(j) = At(k) => j = k
  BY DEF IsPlan, Steps, Order, At, Positions
<1> QED
  BY <1>1, <1>2, <1>3, <1>4 DEF IsPlan

\* The inputs are the sources, neither of which is a constant.
LEMMA InputsAreSources ==
    ASSUME IsPlan(plan)
    PROVE  /\ \A i \in DOMAIN plan.inputs : plan.inputs[i] \in Node /\ Source(plan.inputs[i])
           /\ \A n \in Node : Source(n) => \E i \in DOMAIN plan.inputs : plan.inputs[i] = n
           /\ \A n \in Node : Source(n) => ~Const(n)
           /\ DOMAIN plan.inputs = 1 .. Len(plan.inputs) /\ Len(plan.inputs) \in Nat
<1>1. /\ \A i \in DOMAIN plan.inputs : plan.inputs[i] \in Node
      /\ DOMAIN plan.inputs = 1 .. Len(plan.inputs) /\ Len(plan.inputs) \in Nat
  BY DEF IsPlan
<1>2. \A n \in Node : Source(n) <=> \E i \in DOMAIN plan.inputs : plan.inputs[i] = n
  BY DEF IsPlan, Source
<1>3. \A n \in Node : Source(n) => ~Const(n)
  BY DEF Source, Const
<1> QED
  BY <1>1, <1>2, <1>3

\* A node reads constants and nodes evaluated before it, and an output is one
\* or the other.
LEMMA PrecursorsComeBefore ==
    ASSUME IsPlan(plan)
    PROVE  /\ \A k \in Steps : \A n \in Reads(k) :
                  Const(n) \/ \E j \in Steps : j < k /\ At(j) = n
           /\ \A n \in plan.outputs : Const(n) \/ \E j \in Steps : At(j) = n
<1>1. ASSUME NEW k \in Steps, NEW n \in Reads(k), ~Const(n)
      PROVE  \E j \in Steps : j < k /\ At(j) = n
  <2>1. k \in Nat /\ Steps = 1 .. Len(Order) /\ Len(Order) \in Nat
    BY StepsAreNodes
  <2>2. \E j \in 1 .. (k - 1) : At(j) = n
    BY <1>1 DEF IsPlan, Steps, Order, At, Reads, Const, Positions
  <2> QED
    BY <2>1, <2>2
<1>2. ASSUME NEW n \in plan.outputs, ~Const(n)
      PROVE  \E j \in Steps : At(j) = n
  BY <1>2 DEF IsPlan, Const, Ordered, Positions, Steps, Order, At
<1> QED
  BY <1>1, <1>2

\* ready_turn leaves a sane table, whether it makes one or finds one.
LEMMA ReadyTurnMakesATable ==
    ASSUME IsPlan(plan), TableIsSane, turn \in Nat, Absent \notin Nat
    PROVE  /\ IsTable(ReadyTurn)
           /\ values # <<>> => ReadyTurn = values
           /\ values = <<>> => \A n \in Node : ReadyTurn[n] \in {0, Absent}
           /\ values = <<>> => \A n \in Node : ~Const(n) => ReadyTurn[n] = Absent
<1>1. CASE values = <<>>
  <2>1. ReadyTurn = [n \in Node |-> IF Const(n) THEN 0 ELSE Absent]
    BY <1>1 DEF ReadyTurn, Const
  <2> QED
    BY <1>1, <2>1 DEF IsTable, Value
<1>2. CASE values # <<>>
  BY <1>2 DEF ReadyTurn, TableIsSane
<1> QED
  BY <1>1, <1>2

\* Resolving a symbol, or failing to, keeps the types.
LEMMA ResolvingKeepsTypes ==
    ASSUME TypeOK, NEW s \in Symbol, NEW extent \in Nat, plan' = plan,
           Resolve(s, extent) \/ ResolveFails(s, extent)
    PROVE  /\ symbols' \in [Symbol -> {Absent} \cup [extent : Nat, turn : Nat]]
           /\ scenario' \in DOMAIN Scenarios' \cup {Absent}
           /\ \A z \in Symbol : symbols'[z] # Absent =>
                  symbols'[z] = symbols[z] \/ symbols'[z].turn = turn
<1>1. Scenarios' = Scenarios
  BY DEF Scenarios
<1>2. Resolved(s, extent) \in [Symbol -> {Absent} \cup [extent : Nat, turn : Nat]]
  BY DEF TypeOK, Resolved
<1>3. \A z \in Symbol : Resolved(s, extent)[z] = symbols[z] \/ Resolved(s, extent)[z].turn = turn
  BY DEF TypeOK, Resolved
<1>4. symbols' \in {symbols, Resolved(s, extent)}
  BY DEF Resolve, ResolveFails
<1>5. scenario' \in DOMAIN Scenarios \cup {Absent}
  <2>1. CASE scenario' = scenario
    BY <2>1 DEF TypeOK
  <2>2. CASE scenario' = IF Guessed(symbols') = {} THEN Absent
                         ELSE CHOOSE i \in Guessed(symbols') : TRUE
    <3>1. Guessed(symbols') \subseteq DOMAIN Scenarios
      BY DEF Guessed, Possible, Sure
    <3> QED
      BY <2>2, <3>1
  <2> QED
    BY <2>1, <2>2 DEF Resolve, ResolveFails
<1> QED
  BY <1>1, <1>2, <1>3, <1>4, <1>5 DEF TypeOK

-----------------------------------------------------------------------------
(* Initial states, turns that fail, and what happens between turns.         *)

LEMMA InitIsSound == Init => SimpleInv
<1> SUFFICES ASSUME Init PROVE SimpleInv
  OBVIOUS
<1>1. TypeOK
  <2>1. IsPlan(plan) /\ scenario \in DOMAIN Scenarios \cup {Absent}
    BY SimpleStateAssumption DEF Init
  <2>2. phase \in {"idle", "inputs", "before", "exec"} /\ values \in {<<>>}
    BY DEF Init
  <2>3. next \in Nat \ {0} /\ turn \in Nat /\ failures \in Nat /\ pool \in Nat \cup {Absent}
    BY DEF Init
  <2>4. /\ symbols \in [Symbol -> {Absent} \cup [extent : Nat, turn : Nat]]
        /\ memory \in [Node -> Nat]
    BY DEF Init
  <2>5. symsDone \in BOOLEAN /\ reset \in Nat
    BY DEF Init
  <2> QED
    BY <2>1, <2>2, <2>3, <2>4, <2>5, Zenon DEF TypeOK
<1>2. TableIsSane /\ InputsAreFed /\ WorkIsKept /\ ValuesAreFlushed /\ ResetIsClean
      /\ PoolIsOfThisTurn
  BY DEF Init, TableIsSane, InputsAreFed, WorkIsKept, ValuesAreFlushed, ResetIsClean,
         PoolIsOfThisTurn, Known
<1> QED
  BY <1>1, <1>2 DEF SimpleInv

\* An error adds no value, and leaves symbols that it resolved.
LeavesNoMore ==
    values' # <<>> =>
        \A n \in Ordered(plan) : values'[n] # Absent => values # <<>> /\ values'[n] = values[n]
ResolvesNow ==
    \A z \in Symbol : symbols'[z] # Absent => symbols'[z] = symbols[z] \/ symbols'[z].turn = turn

LEMMA AbortIsSound ==
    ASSUME SimpleInv, Abort, phase # "idle", values' = <<>> \/ IsTable(values'), pool' = pool,
           symbols' \in [Symbol -> {Absent} \cup [extent : Nat, turn : Nat]],
           scenario' \in DOMAIN Scenarios' \cup {Absent},
           memory' \in [Node -> Nat], LeavesNoMore, ResolvesNow
    PROVE  SimpleInv'
<1>1. plan' = plan /\ turn' = turn /\ phase' = "idle" /\ reset' = reset
  BY DEF Abort
<1>2. TypeOK'
  <2>1. IsPlan(plan)'
    BY <1>1 DEF SimpleInv, TypeOK
  <2>2. values' \in {<<>>} \cup [Node -> Nat \cup {Absent}]
    BY DEF IsTable, Value
  <2>3. next' \in Nat \ {0} /\ turn' \in Nat /\ failures' \in Nat /\ pool' \in Nat \cup {Absent}
    BY DEF SimpleInv, TypeOK, Abort
  <2>4. phase' \in {"idle", "inputs", "before", "exec"}
    BY <1>1
  <2>5. symsDone' \in BOOLEAN /\ reset' \in Nat
    BY <1>1 DEF Abort, SimpleInv, TypeOK
  <2> QED
    BY <2>1, <2>2, <2>3, <2>4, <2>5, Zenon DEF TypeOK
<1>3. TableIsSane'
  BY <1>1 DEF TableIsSane, IsTable, Const
<1>4. InputsAreFed' /\ WorkIsKept' /\ ValuesAreFlushed' /\ PoolIsOfThisTurn'
  BY <1>1 DEF InputsAreFed, WorkIsKept, ValuesAreFlushed, PoolIsOfThisTurn
<1>5. ResetIsClean'
  <2>1. ResetIsClean /\ reset < turn
    BY DEF SimpleInv, ResetIsClean
  <2>2. ASSUME NEW z \in Symbol, symbols'[z] # Absent
        PROVE  reset < symbols'[z].turn
    BY <2>1, <2>2 DEF ResolvesNow, ResetIsClean, Known
  <2>3. ASSUME values' # <<>>, NEW n \in Ordered(plan), values'[n] # Absent
        PROVE  reset < values'[n]
    BY <2>1, <2>3 DEF LeavesNoMore, ResetIsClean
  <2> QED
    BY <1>1, <2>1, <2>2, <2>3 DEF ResetIsClean, Known, Ordered, Positions
<1> QED
  BY <1>2, <1>3, <1>4, <1>5 DEF SimpleInv

\* Flushing keeps a sane table, for constants are never flushed.
LEMMA FlushingKeepsTheTable ==
    ASSUME IsTable(values), next \in Nat
    PROVE  IsTable(Flushed)
BY DEF IsTable, Flushed, FlushList, Const, Value

\* A cache's length stays a length.
LEMMA RememberingKeepsTypes ==
    ASSUME IsPlan(plan), memory \in [Node -> Nat], next \in Steps, Remember
    PROVE  memory' \in [Node -> Nat]
<1>1. At(next) \in Node
  BY StepsAreNodes
<1>2. memory[At(next)] \in Nat
  BY <1>1
<1>3. memory[At(next)] + 1 \in Nat
  BY <1>2
<1>4. [memory EXCEPT ![At(next)] = memory[At(next)] + 1] \in [Node -> Nat]
  BY <1>3
<1> QED
  BY <1>4 DEF Remember

LEMMA FailuresAreSound ==
    ASSUME SimpleInv,
           \/ \E extent \in Extent : RefuseInput(extent)
           \/ RefuseInputs \/ StatesDoNotResolve \/ HandlerFails \/ EvalFails \/ RefuseOutput
    PROVE  SimpleInv'
<1> USE SimpleStateAssumption
<1>0. /\ TypeOK /\ IsPlan(plan) /\ TableIsSane /\ turn \in Nat /\ next \in Nat
      /\ memory \in [Node -> Nat]
  BY DEF SimpleInv, TypeOK
<1>1. ASSUME plan' = plan, UNCHANGED <<symbols, scenario>>
      PROVE  /\ symbols' \in [Symbol -> {Absent} \cup [extent : Nat, turn : Nat]]
             /\ scenario' \in DOMAIN Scenarios' \cup {Absent}
             /\ ResolvesNow
  BY <1>1, <1>0 DEF TypeOK, Scenarios, ResolvesNow
<1>9. ASSUME UNCHANGED values PROVE LeavesNoMore
  BY <1>9 DEF LeavesNoMore
<1>10. ASSUME values' = Flushed, phase = "exec" PROVE LeavesNoMore
  <2>1. IsTable(values) /\ \A n \in Ordered(plan) : n \in Node
    BY <1>0, <1>10, StepsAreNodes DEF SimpleInv, WorkIsKept, Ordered, Positions, Steps, At, Order
  <2>2. ASSUME NEW n \in Ordered(plan), values'[n] # Absent
        PROVE  values # <<>> /\ values'[n] = values[n]
    <3>1. DOMAIN values = Node /\ n \in Node
      BY <2>1 DEF IsTable
    <3>2. values # <<>>
      BY <3>1
    <3>3. values'[n] = values[n]
      BY <1>10, <2>2, <3>1 DEF Flushed
    <3> QED
      BY <3>2, <3>3
  <2> QED
    BY <2>2 DEF LeavesNoMore
<1>2. ASSUME NEW extent \in Extent, RefuseInput(extent) PROVE SimpleInv'
  <2>1. plan' = plan /\ extent \in Nat /\ "S" \in Symbol
    BY <1>2 DEF RefuseInput, Abort, Extent, Symbol
  <2>2. Resolve("S", extent) \/ ResolveFails("S", extent)
    BY <1>2 DEF RefuseInput
  <2>3. /\ symbols' \in [Symbol -> {Absent} \cup [extent : Nat, turn : Nat]]
        /\ scenario' \in DOMAIN Scenarios' \cup {Absent}
        /\ ResolvesNow
    BY <1>0, <2>1, <2>2, ResolvingKeepsTypes DEF ResolvesNow
  <2>4. /\ Abort /\ pool' = pool /\ memory' = memory
        /\ values' = <<>> \/ IsTable(values')
        /\ phase # "idle" /\ LeavesNoMore
    BY <1>0, <1>2, <1>9 DEF RefuseInput, TableIsSane
  <2> QED
    BY <1>0, <2>3, <2>4, AbortIsSound
<1>3. CASE RefuseInputs
  <2>1. /\ Abort /\ pool' = pool /\ memory' = memory /\ UNCHANGED <<symbols, scenario>>
        /\ values' = <<>> \/ IsTable(values')
        /\ plan' = plan
        /\ phase # "idle" /\ LeavesNoMore
    BY <1>0, <1>3, <1>9 DEF RefuseInputs, TableIsSane, Abort
  <2> QED
    BY <1>0, <1>1, <2>1, AbortIsSound
<1>4. CASE StatesDoNotResolve
  <2>1. PICK n \in Node : ResolveFails("P", memory[n])
    BY <1>4 DEF StatesDoNotResolve
  <2>2. plan' = plan /\ memory[n] \in Nat /\ "P" \in Symbol
    BY <1>0, <1>4 DEF StatesDoNotResolve, Abort, Symbol
  <2>3. /\ symbols' \in [Symbol -> {Absent} \cup [extent : Nat, turn : Nat]]
        /\ scenario' \in DOMAIN Scenarios' \cup {Absent}
        /\ ResolvesNow
    BY <1>0, <2>1, <2>2, ResolvingKeepsTypes DEF ResolvesNow
  <2>4. /\ Abort /\ pool' = pool /\ memory' = memory
        /\ values' = <<>> \/ IsTable(values')
        /\ phase # "idle" /\ LeavesNoMore
    BY <1>0, <1>4, <1>9 DEF StatesDoNotResolve, TableIsSane
  <2> QED
    BY <1>0, <2>3, <2>4, AbortIsSound
<1>5. CASE HandlerFails
  <2>1. /\ Abort /\ pool' = pool /\ memory' = memory /\ UNCHANGED <<symbols, scenario>>
        /\ plan' = plan /\ values' \in {values, ReadyTurn} /\ phase # "idle"
    BY <1>5 DEF HandlerFails, Abort
  <2>2. values' = <<>> \/ IsTable(values')
    BY <1>0, <2>1, ReadyTurnMakesATable DEF TableIsSane
  <2>3. LeavesNoMore
    <3>1. CASE values # <<>>
      BY <1>9, <2>1, <3>1 DEF ReadyTurn
    <3>2. CASE values = <<>>
      <4>1. \A n \in Ordered(plan) : n \in Node /\ ~Const(n)
        BY <1>0, StepsAreNodes DEF Ordered, Positions, Steps, At, Order
      <4>2. \A n \in Ordered(plan) : ReadyTurn[n] = Absent
        BY <1>0, <3>2, <4>1, ReadyTurnMakesATable
      <4> QED
        BY <2>1, <3>2, <4>2 DEF LeavesNoMore
    <3> QED
      BY <3>1, <3>2
  <2> QED
    BY <1>0, <1>1, <2>1, <2>2, <2>3, AbortIsSound
<1>6. ASSUME EvalFails \/ RefuseOutput
      PROVE  IsTable(Flushed)
  <2>1. phase = "exec"
    BY <1>6 DEF EvalFails, RefuseOutput, Running
  <2> QED
    BY <1>0, <2>1, FlushingKeepsTheTable DEF SimpleInv, WorkIsKept
<1>7. CASE EvalFails
  <2>1. /\ Abort /\ pool' = pool /\ UNCHANGED <<symbols, scenario>>
        /\ plan' = plan /\ values' = Flushed /\ phase = "exec"
    BY <1>7 DEF EvalFails, Abort, Running
  <2>2. memory' \in [Node -> Nat]
    BY <1>0, <1>7 DEF EvalFails
  <2> QED
    BY <1>1, <1>6, <1>7, <1>10, <2>1, <2>2, AbortIsSound
<1>8. CASE RefuseOutput
  <2>1. /\ Abort /\ pool' = pool /\ plan' = plan /\ values' = Flushed /\ Remember
        /\ phase = "exec"
    BY <1>8 DEF RefuseOutput, Abort, Running
  <2>2. memory' \in [Node -> Nat]
    BY <1>0, <1>8, <2>1, RememberingKeepsTypes DEF RefuseOutput, Running
  <2>3. /\ symbols' \in [Symbol -> {Absent} \cup [extent : Nat, turn : Nat]]
        /\ scenario' \in DOMAIN Scenarios' \cup {Absent}
        /\ ResolvesNow
    <3>1. CASE UNCHANGED <<symbols, scenario>>
      BY <1>1, <2>1, <3>1
    <3>2. CASE \E told \in Tells(next) : \/ Resolve(told.symbol, told.extent)
                                         \/ ResolveFails(told.symbol, told.extent)
      <4>1. PICK told \in Tells(next) : \/ Resolve(told.symbol, told.extent)
                                        \/ ResolveFails(told.symbol, told.extent)
        BY <3>2
      <4>2. told.symbol \in Symbol /\ told.extent \in Nat
        BY <1>0, <1>8, StepsAreNodes DEF RefuseOutput, Running, Tells, Symbol, Extent
      <4> QED
        BY <1>0, <2>1, <4>1, <4>2, ResolvingKeepsTypes DEF ResolvesNow
    <3> QED
      BY <1>8, <3>1, <3>2 DEF RefuseOutput, Feedback
  <2> QED
    BY <1>6, <1>8, <1>10, <2>1, <2>2, <2>3, AbortIsSound
<1> QED
  BY <1>2, <1>3, <1>4, <1>5, <1>7, <1>8

\* The values of earlier turns are older than the turn that begins.
LEMMA BeginTurnIsSound ==
    ASSUME SimpleInv, BeginTurn
    PROVE  SimpleInv'
<1>0. /\ plan' = plan /\ phase = "idle" /\ phase' = "inputs" /\ next' = 1 /\ turn' = turn + 1
      /\ values' = values /\ symbols' = symbols /\ reset' = reset /\ turn \in Nat
      /\ TableIsSane /\ ResetIsClean /\ TypeOK
  BY DEF BeginTurn, turnVars, SimpleInv, TypeOK
<1>1. TypeOK'
  <2>1. /\ next' \in Nat \ {0} /\ turn' \in Nat
        /\ phase' \in {"idle", "inputs", "before", "exec"}
    BY <1>0
  <2>2. UNCHANGED <<plan, turnVars, symsDone, memory, reset, failures>>
    BY DEF BeginTurn
  <2> QED
    BY <1>0, <2>1, <2>2 DEF TypeOK, turnVars, Scenarios
<1>2. TableIsSane'
  BY <1>0, SimpleStateAssumption DEF TableIsSane, IsTable, Const, Value
<1>3. ASSUME values # <<>>, NEW n \in Node, values[n] = turn + 1
      PROVE  FALSE
  BY <1>0, <1>3, SimpleStateAssumption DEF TableIsSane, IsTable, Value
<1>4. InputsAreFed'
  <2>1. \A i \in DOMAIN plan.inputs : ~(i < 1)
    BY <1>0, InputsAreSources DEF TypeOK
  <2>2. (values # <<>> => \A n \in Node : values[n] = turn => Source(n))'
    BY <1>0, <1>3
  <2> QED
    BY <1>0, <2>1, <2>2 DEF InputsAreFed
<1>5. WorkIsKept' /\ ValuesAreFlushed' /\ PoolIsOfThisTurn'
  BY <1>0 DEF WorkIsKept, ValuesAreFlushed, PoolIsOfThisTurn
<1>6. ResetIsClean'
  <2>1. reset \in Nat /\ reset <= turn
    BY <1>0 DEF ResetIsClean, TypeOK
  <2> QED
    BY <1>0, <2>1 DEF ResetIsClean, Known, Ordered, Positions
<1> QED
  BY <1>1, <1>2, <1>4, <1>5, <1>6 DEF SimpleInv

LEMMA CloneIsSound ==
    ASSUME SimpleInv, Clone
    PROVE  SimpleInv'
<1>0. /\ plan' = plan /\ phase = "idle" /\ phase' = "idle" /\ values' = <<>>
      /\ symbols' = symbols /\ reset' = reset /\ pool' = Absent
      /\ ResetIsClean /\ TypeOK
      /\ UNCHANGED <<next, turn, scenario, symsDone, memory, failures>>
  BY DEF Clone, SimpleInv
<1>1. TypeOK'
  BY <1>0 DEF TypeOK, Scenarios
<1>2. TableIsSane' /\ InputsAreFed' /\ WorkIsKept' /\ ValuesAreFlushed' /\ PoolIsOfThisTurn'
  BY <1>0 DEF TableIsSane, InputsAreFed, WorkIsKept, ValuesAreFlushed, PoolIsOfThisTurn
<1>3. ResetIsClean'
  BY <1>0 DEF ResetIsClean, Known
<1> QED
  BY <1>1, <1>2, <1>3 DEF SimpleInv

-----------------------------------------------------------------------------
(* A turn, step by step.                                                    *)

\* An input replaces whatever its node held.
LEMMA SetInputIsSound ==
    ASSUME SimpleInv, NEW extent \in Extent, SetInput(extent)
    PROVE  SimpleInv'
<1> DEFINE node == plan.inputs[next]
<1>0. /\ plan' = plan /\ phase = "inputs" /\ phase' = "inputs" /\ next' = next + 1
      /\ turn' = turn /\ reset' = reset /\ next \in DOMAIN plan.inputs
      /\ values' = [ReadyTurn EXCEPT ![node] = turn] /\ Resolve("S", extent)
      /\ UNCHANGED <<pool, symsDone, memory, failures>>
  BY DEF SetInput
<1>1. /\ TypeOK /\ TableIsSane /\ InputsAreFed /\ ResetIsClean /\ IsPlan(plan) /\ turn \in Nat
      /\ next \in Nat /\ turn > 0
  BY <1>0 DEF SimpleInv, TypeOK, InputsAreFed
<1>2. node \in Node /\ Source(node) /\ ~Const(node)
  BY <1>0, <1>1, InputsAreSources
<1>3. IsTable(ReadyTurn)
  BY <1>1, ReadyTurnMakesATable, SimpleStateAssumption
<1> HIDE DEF node
<1>4. /\ values'[node] = turn
      /\ \A n \in Node : n # node => values'[n] = ReadyTurn[n]
      /\ values' \in [Node -> Value]
  BY <1>0, <1>1, <1>2, <1>3 DEF IsTable, Value
<1>5. /\ symbols' \in [Symbol -> {Absent} \cup [extent : Nat, turn : Nat]]
      /\ scenario' \in DOMAIN Scenarios' \cup {Absent}
      /\ \A z \in Symbol : symbols'[z] # Absent =>
             symbols'[z] = symbols[z] \/ symbols'[z].turn = turn
  BY <1>0, <1>1, ResolvingKeepsTypes DEF Extent, Symbol
<1>6. TypeOK'
  <2>1. next' \in Nat \ {0} /\ values' \in {<<>>} \cup [Node -> Nat \cup {Absent}]
    BY <1>0, <1>1, <1>4 DEF Value
  <2> QED
    BY <1>0, <1>1, <1>5, <2>1 DEF TypeOK
<1>7. IsTable(values)'
  BY <1>0, <1>1, <1>2, <1>3, <1>4 DEF IsTable, Const
<1>8. TableIsSane'
  BY <1>7 DEF TableIsSane
<1>9. values' # <<>>
  <2>1. DOMAIN values' = Node
    BY <1>4
  <2> QED
    BY <1>2, <2>1
<1>10. InputsAreFed'
  <2>1. ASSUME NEW i \in DOMAIN plan.inputs, i < next + 1
        PROVE  values'[plan.inputs[i]] = turn
    <3>1. plan.inputs[i] \in Node /\ i \in Nat
      BY <1>1, InputsAreSources
    <3>2. CASE plan.inputs[i] = node
      BY <3>2, <1>4
    <3>3. CASE plan.inputs[i] # node
      <4>1. i < next
        BY <2>1, <3>1, <3>3, <1>1 DEF node
      <4>2. InputIsSet(i)
        BY <4>1, <1>0, <1>1 DEF InputsAreFed
      <4>3. ReadyTurn = values
        BY <4>2 DEF InputIsSet, ReadyTurn
      <4> QED
        BY <3>1, <3>3, <4>2, <4>3, <1>4 DEF InputIsSet
    <3> QED
      BY <3>2, <3>3
  <2>2. ASSUME NEW n \in Node, values'[n] = turn
        PROVE  Source(n)
    <3>1. CASE n = node
      BY <3>1, <1>2
    <3>2. CASE n # node /\ values # <<>>
      BY <3>2, <2>2, <1>0, <1>1, <1>4 DEF InputsAreFed, ReadyTurn
    <3>3. CASE n # node /\ values = <<>>
      <4>1. ReadyTurn[n] \in {0, Absent}
        BY <3>3, <1>1, ReadyTurnMakesATable, SimpleStateAssumption
      <4> QED
        BY <4>1, <3>3, <2>2, <1>1, <1>4, SimpleStateAssumption
    <3> QED
      BY <3>1, <3>2, <3>3
  <2> QED
    BY <1>0, <1>1, <1>9, <2>1, <2>2 DEF InputsAreFed, InputIsSet, Source
<1>11. WorkIsKept' /\ ValuesAreFlushed' /\ PoolIsOfThisTurn'
  BY <1>0 DEF WorkIsKept, ValuesAreFlushed, PoolIsOfThisTurn
<1>12. ResetIsClean'
  <2>0. reset < turn /\ reset <= turn
    BY <1>0, <1>1 DEF ResetIsClean
  <2>1. ASSUME NEW s \in Symbol, symbols'[s] # Absent
        PROVE  reset < symbols'[s].turn
    BY <2>0, <2>1, <1>1, <1>5 DEF ResetIsClean, Known
  <2>2. ASSUME NEW n \in Ordered(plan), values'[n] # Absent
        PROVE  reset < values'[n]
    <3>1. n \in Node /\ ~Const(n)
      BY <1>1, StepsAreNodes DEF Ordered, Positions, Steps, At, Order
    <3>2. CASE n = node
      BY <2>0, <3>2, <1>4
    <3>3. CASE n # node
      <4>1. values'[n] = ReadyTurn[n] /\ values # <<>> /\ ReadyTurn = values
        BY <2>2, <3>1, <3>3, <1>1, <1>4, ReadyTurnMakesATable, SimpleStateAssumption
      <4> QED
        BY <2>2, <4>1, <1>1 DEF ResetIsClean
    <3> QED
      BY <3>2, <3>3
  <2> QED
    BY <1>0, <2>0, <2>1, <2>2 DEF ResetIsClean, Known, Ordered, Positions
<1> QED
  BY <1>6, <1>8, <1>10, <1>11, <1>12 DEF SimpleInv

\* Every input is set by then.
LEMMA ResolveStatesIsSound ==
    ASSUME SimpleInv, ResolveStates
    PROVE  SimpleInv'
<1>0. /\ plan' = plan /\ phase = "inputs" /\ phase' = "before" /\ next > Len(plan.inputs)
      /\ UNCHANGED <<next, turn, values, pool, symsDone, memory, reset, failures>>
  BY DEF ResolveStates
<1>1. /\ TypeOK /\ TableIsSane /\ InputsAreFed /\ ResetIsClean /\ IsPlan(plan) /\ turn \in Nat
      /\ next \in Nat /\ turn > 0
  BY <1>0 DEF SimpleInv, TypeOK, InputsAreFed
<1>2. /\ symbols' \in [Symbol -> {Absent} \cup [extent : Nat, turn : Nat]]
      /\ scenario' \in DOMAIN Scenarios' \cup {Absent}
      /\ \A z \in Symbol : symbols'[z] # Absent =>
             symbols'[z] = symbols[z] \/ symbols'[z].turn = turn
  <2>1. CASE UNCHANGED <<symbols, scenario>>
    BY <2>1, <1>0, <1>1 DEF TypeOK, Scenarios
  <2>2. CASE \E n \in Node : Resolve("P", memory[n])
    <3>1. PICK n \in Node : Resolve("P", memory[n])
      BY <2>2
    <3>2. memory[n] \in Nat /\ "P" \in Symbol
      BY <1>1 DEF TypeOK, Symbol
    <3> QED
      BY <1>0, <1>1, <3>1, <3>2, ResolvingKeepsTypes
  <2> QED
    BY <2>1, <2>2 DEF ResolveStates
<1>3. TypeOK'
  BY <1>0, <1>1, <1>2 DEF TypeOK
<1>4. TableIsSane'
  BY <1>0, <1>1 DEF TableIsSane, IsTable, Const
<1>5. InputsAreFed'
  <2>1. \A i \in DOMAIN plan.inputs : i < next
    BY <1>0, <1>1, InputsAreSources
  <2> QED
    BY <1>0, <1>1, <2>1 DEF InputsAreFed, InputIsSet, Source
<1>6. WorkIsKept' /\ ValuesAreFlushed' /\ PoolIsOfThisTurn'
  BY <1>0 DEF WorkIsKept, ValuesAreFlushed, PoolIsOfThisTurn
<1>7. ResetIsClean'
  <2>1. reset < turn /\ reset <= turn
    BY <1>0, <1>1 DEF ResetIsClean
  <2>2. ASSUME NEW s \in Symbol, symbols'[s] # Absent
        PROVE  reset < symbols'[s].turn
    BY <2>1, <2>2, <1>1, <1>2 DEF ResetIsClean, Known
  <2> QED
    BY <1>0, <1>1, <2>1, <2>2 DEF ResetIsClean, Known, Ordered, Positions
<1> QED
  BY <1>3, <1>4, <1>5, <1>6, <1>7 DEF SimpleInv

\* The loop begins with the inputs in the table, and nothing else of this turn.
LEMMA BeginExecIsSound ==
    ASSUME SimpleInv, BeginExec
    PROVE  SimpleInv'
<1>0. /\ plan' = plan /\ phase = "before" /\ phase' = "exec" /\ values' = ReadyTurn
      /\ pool' = turn /\ next' = 1
      /\ UNCHANGED <<turn, symbols, scenario, memory, reset, failures>>
      /\ symsDone' = \A s \in PlanSymbols : Known(s)
  BY DEF BeginExec
<1>1. /\ TypeOK /\ TableIsSane /\ InputsAreFed /\ ResetIsClean /\ IsPlan(plan) /\ turn \in Nat
      /\ next \in Nat /\ turn > 0
  BY <1>0 DEF SimpleInv, TypeOK, InputsAreFed
<1>2. /\ IsTable(ReadyTurn) /\ (values # <<>> => ReadyTurn = values)
      /\ values = <<>> => \A n \in Node : ReadyTurn[n] \in {0, Absent}
      /\ values = <<>> => \A n \in Node : ~Const(n) => ReadyTurn[n] = Absent
  BY <1>1, ReadyTurnMakesATable, SimpleStateAssumption
<1>3. IsTable(values)'
  BY <1>0, <1>2 DEF IsTable, Const
<1>4. TypeOK'
  <2>1. symsDone' \in BOOLEAN /\ reset' \in Nat
    BY <1>0, <1>1, Zenon DEF TypeOK
  <2>2. values' \in {<<>>} \cup [Node -> Nat \cup {Absent}]
    BY <1>0, <1>2 DEF IsTable, Value
  <2>3. /\ phase' \in {"idle", "inputs", "before", "exec"}
        /\ next' \in Nat \ {0} /\ turn' \in Nat /\ failures' \in Nat /\ pool' \in Nat \cup {Absent}
    BY <1>0, <1>1 DEF TypeOK
  <2>4. /\ IsPlan(plan') /\ memory' \in [Node -> Nat]
        /\ symbols' \in [Symbol -> {Absent} \cup [extent : Nat, turn : Nat]]
        /\ scenario' \in DOMAIN Scenarios' \cup {Absent}
    BY <1>0, <1>1 DEF TypeOK, Scenarios
  <2> QED
    BY <2>1, <2>2, <2>3, <2>4, Zenon DEF TypeOK
<1>5. TableIsSane'
  BY <1>3 DEF TableIsSane
<1>6. InputsAreFed' /\ PoolIsOfThisTurn'
  BY <1>0, <1>1 DEF InputsAreFed, PoolIsOfThisTurn
<1>7. \A n \in Node : Source(n) => ReadyTurn[n] = turn
  BY <1>0, <1>1, <1>2, InputsAreSources DEF InputsAreFed, InputIsSet
<1>8. \A n \in Node : ReadyTurn[n] = turn => Source(n)
  BY <1>0, <1>1, <1>2, SimpleStateAssumption DEF InputsAreFed
<1>9. \A k \in Steps : ~(k < 1) /\ k >= 1
  BY <1>1, StepsAreNodes
<1>10. WorkIsKept'
  <2>1. \A n \in Node : ~Evaluated(n)'
    BY <1>0, <1>9 DEF Evaluated, Steps, Order
  <2> QED
    BY <1>0, <1>3, <1>7, <2>1 DEF WorkIsKept, Source
<1>11. ValuesAreFlushed'
  <2>1. ASSUME NEW n \in Node, ReadyTurn[n] = turn, NEW k \in Steps, n \in Reads(k)
        PROVE  \E j \in Steps : j >= 1 /\ n \in Needs(j)
    BY <2>1, <1>9 DEF Needs
  <2> QED
    BY <1>0, <2>1 DEF ValuesAreFlushed, Needs, Reads, Steps, Order, At
<1>12. ResetIsClean'
  <2>1. /\ reset < turn /\ reset <= turn
        /\ \A s \in Symbol : Known(s) => reset < symbols[s].turn
    BY <1>0, <1>1 DEF ResetIsClean
  <2>2. ASSUME NEW n \in Ordered(plan), ReadyTurn[n] # Absent
        PROVE  /\ reset < ReadyTurn[n]
               /\ ReadyTurn[n] = turn => Source(n)
    <3>1. n \in Node /\ ~Const(n)
      BY <1>1, StepsAreNodes DEF Ordered, Positions, Steps, At, Order
    <3>2. values # <<>> /\ ReadyTurn = values
      BY <1>2, <2>2, <3>1
    <3> QED
      BY <1>1, <1>8, <2>2, <3>1, <3>2 DEF ResetIsClean
  <2> QED
    BY <1>0, <2>1, <2>2 DEF ResetIsClean, Known, Ordered, Positions, Source
<1> QED
  BY <1>4, <1>5, <1>6, <1>10, <1>11, <1>12 DEF SimpleInv

\* The reset leaves constants, and symbols resolve afresh.
LEMMA FinishTurnIsSound ==
    ASSUME SimpleInv, FinishTurn
    PROVE  SimpleInv'
<1>0. /\ plan' = plan /\ phase = "exec" /\ phase' = "idle" /\ ResetTurn
      /\ pool' = Absent /\ next' = 1 /\ reset' = turn /\ symsDone' = FALSE
      /\ UNCHANGED <<turn, scenario, memory, failures>>
  BY DEF FinishTurn
<1>1. /\ TypeOK /\ IsPlan(plan) /\ turn \in Nat /\ IsTable(values)
  BY <1>0 DEF SimpleInv, TypeOK, WorkIsKept
<1>2. /\ values' = [n \in Node |-> IF n \in Ordered(plan) THEN Absent ELSE values[n]]
      /\ symbols' = [s \in Symbol |-> Absent]
  BY <1>0 DEF ResetTurn
<1>3. \A n \in Ordered(plan) : n \in Node /\ ~Const(n)
  BY <1>1, StepsAreNodes DEF Ordered, Positions, Steps, At, Order
<1>4. IsTable(values)'
  BY <1>0, <1>1, <1>2, <1>3 DEF IsTable, Const, Value
<1>5. TypeOK'
  <2>1. symsDone' \in BOOLEAN /\ reset' \in Nat
    BY <1>0, <1>1
  <2>2. values' \in {<<>>} \cup [Node -> Nat \cup {Absent}]
    BY <1>4 DEF IsTable, Value
  <2>3. /\ phase' \in {"idle", "inputs", "before", "exec"}
        /\ next' \in Nat \ {0} /\ turn' \in Nat /\ failures' \in Nat /\ pool' \in Nat \cup {Absent}
    BY <1>0, <1>1 DEF TypeOK
  <2>4. /\ IsPlan(plan') /\ memory' \in [Node -> Nat]
        /\ symbols' \in [Symbol -> {Absent} \cup [extent : Nat, turn : Nat]]
        /\ scenario' \in DOMAIN Scenarios' \cup {Absent}
    BY <1>0, <1>1, <1>2 DEF TypeOK, Scenarios
  <2> QED
    BY <2>1, <2>2, <2>3, <2>4, Zenon DEF TypeOK
<1>6. TableIsSane'
  BY <1>4 DEF TableIsSane
<1>7. InputsAreFed' /\ WorkIsKept' /\ ValuesAreFlushed' /\ PoolIsOfThisTurn'
  BY <1>0 DEF InputsAreFed, WorkIsKept, ValuesAreFlushed, PoolIsOfThisTurn
<1>8. ResetIsClean'
  BY <1>0, <1>1, <1>2, <1>3 DEF ResetIsClean, Known, Ordered, Positions
<1> QED
  BY <1>5, <1>6, <1>7, <1>8 DEF SimpleInv

\* What a step flushes is not needed any more, and nothing else goes.
LEMMA FlushedIsNotNeeded ==
    ASSUME IsPlan(plan), next \in Steps, NEW n \in FlushList(next)
    PROVE  /\ n \notin plan.outputs /\ n \in Reads(next) /\ n # At(next)
           /\ \A k \in Steps : k > next => n \notin Needs(k)
<1>0. /\ n \in Reads(next) /\ n \notin plan.outputs /\ ~Const(n)
      /\ \A k \in Steps : k > next => n \notin Reads(k)
  BY DEF FlushList, Const
<1>1. PICK j \in Steps : j < next /\ At(j) = n
  BY <1>0, PrecursorsComeBefore
<1>2. \A k \in Steps : k >= next => At(k) # n
  BY <1>1, StepsAreNodes
<1>3. next \in Nat
  BY StepsAreNodes
<1> QED
  BY <1>0, <1>2, <1>3, StepsAreNodes DEF Needs

\* ... and whatever is not needed any more and was computed goes at once.
LEMMA NotNeededIsFlushed ==
    ASSUME IsPlan(plan), next \in Steps, NEW n \in Node, n \in Needs(next), n # At(next),
           ~Const(n), n \notin plan.outputs, n \notin FlushList(next)
    PROVE  \E k \in Steps : k > next /\ n \in Needs(k)
<1>1. n \in Reads(next)
  BY DEF Needs
<1>2. PICK j \in Steps : j < next /\ At(j) = n
  BY <1>1, PrecursorsComeBefore
<1>3. next # 1
  BY <1>2, StepsAreNodes
<1>4. PICK k \in Steps : k > next /\ n \in Reads(k)
  BY <1>1, <1>3 DEF FlushList, Const
<1> QED
  BY <1>4 DEF Needs

\* What a step needs is what an earlier step left it, or was fed.
LEMMA NeedsWereComputed ==
    ASSUME IsPlan(plan), next \in Steps, NEW n \in Needs(next)
    PROVE  n \in Node /\ (Const(n) \/ Source(n) \/ Evaluated(n))
<1>1. CASE n \in Reads(next)
  BY <1>1, StepsAreNodes, PrecursorsComeBefore DEF Evaluated, At
<1>2. CASE Source(At(next)) /\ n = At(next)
  BY <1>2, StepsAreNodes
<1> QED
  BY <1>1, <1>2 DEF Needs, Source

LEMMA EvalNodeIsSound ==
    ASSUME SimpleInv, EvalNode
    PROVE  SimpleInv'
<1> DEFINE node == At(next)
<1>0. /\ phase = "exec" /\ next \in Steps /\ next' = next + 1
      /\ Remember /\ Feedback(next) /\ values' = [Flushed EXCEPT ![node] = turn]
      /\ UNCHANGED <<plan, phase, turn, pool, reset, failures>>
      /\ symsDone' = (symsDone \/ \A s \in PlanSymbols : symbols'[s] # Absent)
  BY DEF EvalNode, Running
<1>1. /\ TypeOK /\ IsPlan(plan) /\ IsTable(values) /\ turn \in Nat /\ turn > 0 /\ next \in Nat
      /\ InputsAreFed /\ ResetIsClean /\ ValuesAreFlushed /\ WorkIsKept /\ pool = turn
  BY <1>0 DEF SimpleInv, TypeOK, WorkIsKept, InputsAreFed, PoolIsOfThisTurn
<1>2. node \in Node /\ ~Const(node)
  BY <1>0, <1>1, StepsAreNodes
<1>3. IsTable(Flushed)
  BY <1>1, FlushingKeepsTheTable
<1>4. \A k \in Steps : At(k) = node => k = next
  BY <1>0, <1>1, StepsAreNodes
<1> HIDE DEF node
<1>5. /\ values'[node] = turn /\ values' \in [Node -> Value]
      /\ \A n \in Node : n # node /\ n \in FlushList(next) => values'[n] = Absent
      /\ \A n \in Node : n # node /\ n \notin FlushList(next) => values'[n] = values[n]
  BY <1>0, <1>1, <1>2, <1>3 DEF IsTable, Value, Flushed
<1>6. IsTable(values)'
  <2>1. \A n \in Node : n # node => values'[n] = Flushed[n]
    BY <1>0, <1>2, <1>3 DEF IsTable
  <2> QED
    BY <1>0, <1>1, <1>2, <1>3, <1>5, <2>1 DEF IsTable, Const
<1>7. /\ symbols' \in [Symbol -> {Absent} \cup [extent : Nat, turn : Nat]]
      /\ scenario' \in DOMAIN Scenarios' \cup {Absent}
      /\ \A z \in Symbol : symbols'[z] # Absent =>
             symbols'[z] = symbols[z] \/ symbols'[z].turn = turn
  <2>1. CASE UNCHANGED <<symbols, scenario>>
    BY <2>1, <1>0, <1>1 DEF TypeOK, Scenarios
  <2>2. CASE \E told \in Tells(next) : Resolve(told.symbol, told.extent)
    <3>1. PICK told \in Tells(next) : Resolve(told.symbol, told.extent)
      BY <2>2
    <3>2. told.symbol \in Symbol /\ told.extent \in Nat
      BY <1>0, <1>1, <1>2 DEF node, Tells, Symbol, Extent, TypeOK
    <3> QED
      BY <1>0, <1>1, <3>1, <3>2, ResolvingKeepsTypes
  <2> QED
    BY <1>0, <2>1, <2>2 DEF Feedback
<1>8. TypeOK'
  <2>1. symsDone' \in BOOLEAN /\ reset' \in Nat
    BY <1>0, <1>1, Zenon DEF TypeOK
  <2>2. memory' \in [Node -> Nat]
    BY <1>0, <1>1, RememberingKeepsTypes DEF TypeOK
  <2>3. values' \in {<<>>} \cup [Node -> Nat \cup {Absent}]
    BY <1>5 DEF Value
  <2>4. /\ phase' \in {"idle", "inputs", "before", "exec"} /\ IsPlan(plan')
        /\ next' \in Nat \ {0} /\ turn' \in Nat /\ failures' \in Nat /\ pool' \in Nat \cup {Absent}
    BY <1>0, <1>1 DEF TypeOK
  <2> QED
    BY <1>7, <2>1, <2>2, <2>3, <2>4, Zenon DEF TypeOK
<1>9. TableIsSane' /\ InputsAreFed' /\ PoolIsOfThisTurn'
  BY <1>0, <1>1, <1>6 DEF TableIsSane, InputsAreFed, PoolIsOfThisTurn
<1>10. /\ \A n : Evaluated(n)' <=> Evaluated(n) \/ n = node
       /\ \A n : StillNeeded(n)' <=> n \in plan.outputs \/ \E k \in Steps : k > next /\ n \in Needs(k)
  <2>1. \A k \in Steps : (k < next + 1 <=> k < next \/ k = next) /\ (k >= next + 1 <=> k > next)
    BY <1>0, <1>1, StepsAreNodes
  <2>2. \A n : Evaluated(n)' <=> \E j \in Steps : j < next + 1 /\ At(j) = n
    BY <1>0 DEF Evaluated, Steps, Order, At
  <2>3. \A n : StillNeeded(n)' <=> n \in plan.outputs \/ \E k \in Steps : k >= next + 1 /\ n \in Needs(k)
    BY <1>0 DEF StillNeeded, Needs, Reads, Steps, Order, At
  <2> QED
    BY <1>0, <2>1, <2>2, <2>3 DEF Evaluated, At, node
<1>11. WorkIsKept'
  <2>1. ASSUME NEW n \in Node, Source(n) \/ Evaluated(n) \/ n = node, StillNeeded(n)'
        PROVE  values'[n] = turn
    <3>1. CASE n = node
      BY <3>1, <1>5
    <3>2. CASE n # node
      <4>1. n \notin FlushList(next)
        BY <1>0, <1>1, <1>10, <2>1, FlushedIsNotNeeded
      <4>2. StillNeeded(n)
        BY <1>0, <1>1, <1>10, <2>1, StepsAreNodes DEF StillNeeded
      <4>3. values[n] = turn
        BY <1>0, <1>1, <2>1, <3>2, <4>2 DEF WorkIsKept
      <4> QED
        BY <3>2, <4>1, <4>3, <1>5
    <3> QED
      BY <3>1, <3>2
  <2>2. \A n : Source(n)' <=> Source(n)
    BY <1>0 DEF Source
  <2> QED
    BY <1>0, <1>6, <1>10, <2>1, <2>2 DEF WorkIsKept
<1>12. ValuesAreFlushed'
  <2>1. ASSUME NEW n \in Node, values'[n] = turn, n \notin plan.outputs,
               NEW r \in Steps, n \in Reads(r)
        PROVE  \E k \in Steps : k > next /\ n \in Needs(k)
    <3>1. CASE n = node
      <4>1. PICK j \in Steps : j < r /\ At(j) = n
        BY <1>1, <1>2, <2>1, <3>1, PrecursorsComeBefore
      <4>2. r > next
        BY <1>4, <3>1, <4>1
      <4> QED
        BY <2>1, <4>2 DEF Needs
    <3>2. CASE n # node
      <4>1. n \notin FlushList(next) /\ values[n] = turn
        BY <1>1, <1>5, <2>1, <3>2, SimpleStateAssumption
      <4>2. ~Const(n)
        BY <1>1, <4>1 DEF IsTable
      <4>3. PICK k \in Steps : k >= next /\ n \in Needs(k)
        BY <1>0, <1>1, <2>1, <4>1, Zenon DEF ValuesAreFlushed
      <4>4. CASE k > next
        BY <4>3, <4>4
      <4>5. CASE k = next
        BY <1>0, <1>1, <2>1, <3>2, <4>1, <4>2, <4>3, <4>5, NotNeededIsFlushed DEF node
      <4> QED
        BY <1>0, <1>1, <4>3, <4>4, <4>5, StepsAreNodes
    <3> QED
      BY <3>1, <3>2
  <2>2. \A k \in Steps : k > next => k >= next + 1
    BY <1>0, <1>1, StepsAreNodes
  <2> QED
    BY <1>0, <2>1, <2>2 DEF ValuesAreFlushed, Needs, Reads, Steps, Order, At
<1>13. ResetIsClean'
  <2>0. reset < turn /\ reset <= turn
    BY <1>0, <1>1 DEF ResetIsClean
  <2>1. ASSUME NEW s \in Symbol, symbols'[s] # Absent
        PROVE  reset < symbols'[s].turn
    BY <2>0, <2>1, <1>1, <1>7 DEF ResetIsClean, Known
  <2>2. ASSUME NEW n \in Ordered(plan), values'[n] # Absent
        PROVE  /\ reset < values'[n]
               /\ values'[n] = turn => Source(n) \/ Evaluated(n) \/ n = node
    <3>1. n \in Node
      BY <1>1, StepsAreNodes DEF Ordered, Positions, Steps, At, Order
    <3>2. CASE n = node
      BY <1>5, <2>0, <3>2
    <3>3. CASE n # node
      <4>1. values'[n] = values[n]
        BY <1>5, <2>2, <3>1, <3>3
      <4>2. DOMAIN values = Node
        BY <1>1 DEF IsTable
      <4>3. values # <<>>
        BY <3>1, <4>2
      <4> QED
        BY <1>0, <1>1, <2>2, <4>1, <4>3 DEF ResetIsClean
    <3> QED
      BY <3>2, <3>3
  <2>4. \A n : Source(n)' <=> Source(n)
    BY <1>0 DEF Source
  <2>5. Ordered(plan)' = Ordered(plan)
    BY <1>0 DEF Ordered, Positions
  <2> QED
    BY <1>0, <1>10, <2>0, <2>1, <2>2, <2>4, <2>5 DEF ResetIsClean, Known
<1> QED
  BY <1>8, <1>9, <1>11, <1>12, <1>13 DEF SimpleInv

-----------------------------------------------------------------------------
(* The theorems.                                                            *)

LEMMA StepIsSound == SimpleInv /\ [Next]_vars => SimpleInv'
<1> SUFFICES ASSUME SimpleInv, [Next]_vars
             PROVE  SimpleInv'
  OBVIOUS
<1>1. CASE BeginTurn
  BY <1>1, BeginTurnIsSound
<1>2. ASSUME NEW extent \in Extent, SetInput(extent) PROVE SimpleInv'
  BY <1>2, SetInputIsSound
<1>3. CASE \/ \E extent \in Extent : RefuseInput(extent)
           \/ RefuseInputs \/ StatesDoNotResolve \/ HandlerFails \/ EvalFails \/ RefuseOutput
  BY <1>3, FailuresAreSound
<1>4. CASE ResolveStates
  BY <1>4, ResolveStatesIsSound
<1>5. CASE BeginExec
  BY <1>5, BeginExecIsSound
<1>6. CASE EvalNode
  BY <1>6, EvalNodeIsSound
<1>7. CASE FinishTurn
  BY <1>7, FinishTurnIsSound
<1>8. CASE Clone
  BY <1>8, CloneIsSound
<1>9. CASE Over \/ UNCHANGED vars
  <2>1. UNCHANGED vars
    BY <1>9 DEF Over
  <2> QED
    BY <2>1 DEF vars, SimpleInv, TypeOK, TableIsSane, IsTable, InputsAreFed, InputIsSet, WorkIsKept,
                StillNeeded, Evaluated, ValuesAreFlushed, ResetIsClean, PoolIsOfThisTurn, Known,
                Source, Const, Needs, Reads, Steps, Order, At, Scenarios
<1> QED
  BY <1>1, <1>2, <1>3, <1>4, <1>5, <1>6, <1>7, <1>8, <1>9 DEF Next

\* SimpleStateInvariant: what holds of every reachable state of every plan.
THEOREM SimpleStateInvariant == Spec => []SimpleInv
<1>1. Init => SimpleInv
  BY InitIsSound
<1>2. SimpleInv /\ [Next]_vars => SimpleInv'
  BY StepIsSound
<1> QED
  BY <1>1, <1>2, PTL DEF Spec

\* SimpleStateTypes: every reachable state is well typed.
THEOREM SimpleStateTypes == Spec => []TypeOK
<1>1. SimpleInv => TypeOK
  BY DEF SimpleInv
<1> QED
  BY <1>1, SimpleStateInvariant, PTL

\* What a step or the caller is about to read is a constant or of this turn.
LEMMA ReadsAreFresh ==
    ASSUME SimpleInv, phase = "exec"
    PROVE  /\ Running => \A n \in Needs(next) : IsFresh(n) /\ values[n] # Absent
           /\ ~Running => \A n \in plan.outputs : IsFresh(n) /\ values[n] # Absent
<1>1. /\ TypeOK /\ IsPlan(plan) /\ turn \in Nat /\ next \in Nat \ {0} /\ IsTable(values) /\ WorkIsKept
  BY DEF SimpleInv, TypeOK, WorkIsKept
<1>2. ASSUME NEW n \in Node, Const(n) \/ ((Source(n) \/ Evaluated(n)) /\ StillNeeded(n))
      PROVE  IsFresh(n) /\ values[n] # Absent
  BY <1>1, <1>2, InputsAreSources, SimpleStateAssumption
     DEF WorkIsKept, IsTable, IsFresh, Const, Evaluated
<1>3. ASSUME Running, NEW n \in Needs(next)
      PROVE  IsFresh(n) /\ values[n] # Absent
  <2>1. next \in Steps /\ next >= next
    BY <1>1, <1>3 DEF Running
  <2>2. n \in Node /\ (Const(n) \/ Source(n) \/ Evaluated(n))
    BY <1>1, <1>3, <2>1, NeedsWereComputed
  <2>3. StillNeeded(n)
    BY <1>3, <2>1 DEF StillNeeded
  <2> QED
    BY <1>2, <2>2, <2>3
<1>4. ASSUME ~Running, NEW n \in plan.outputs
      PROVE  IsFresh(n) /\ values[n] # Absent
  <2>1. \A j \in Steps : j < next
    BY <1>1, <1>4, StepsAreNodes DEF Running
  <2>2. n \in Node /\ (Const(n) \/ Evaluated(n)) /\ StillNeeded(n)
    BY <1>1, <2>1, StepsAreNodes, PrecursorsComeBefore DEF Evaluated, StillNeeded, At
  <2> QED
    BY <1>2, <2>2
<1> QED
  BY <1>3, <1>4

\* PrecursorsAlwaysDone: with the flush lists of any plan, and whatever turns
\* failed before, "precursor not done" and "not computed" never happen.
THEOREM PrecursorsAlwaysDone == Spec => []PrecursorsAreDone
<1>1. SimpleInv => PrecursorsAreDone
  BY ReadsAreFresh DEF PrecursorsAreDone, InputsAreDone, Running
<1> QED
  BY <1>1, SimpleStateInvariant, PTL

\* ValuesAlwaysOfThisTurn: no step and no caller is handed a value of an
\* earlier turn, failed or not.
THEOREM ValuesAlwaysOfThisTurn == Spec => []ValuesAreOfThisTurn
<1>1. SimpleInv => ValuesAreOfThisTurn
  BY ReadsAreFresh DEF ValuesAreOfThisTurn, Running
<1> QED
  BY <1>1, SimpleStateInvariant, PTL

\* ValuesAlwaysFlushed: a value of the turn is dropped with its last reader.
THEOREM ValuesAlwaysFlushed == Spec => []ValuesAreFlushed
<1>1. SimpleInv => ValuesAreFlushed
  BY DEF SimpleInv
<1> QED
  BY <1>1, SimpleStateInvariant, PTL

\* SymbolsAndPresetsAlwaysReset: of the turns up to the last one that succeeded,
\* a turn finds neither a symbol resolved nor a value that its node is handed,
\* and what the handler installed is this turn's.
THEOREM SymbolsAndPresetsAlwaysReset == Spec => []SymbolsAndPresetsAreReset
<1>1. ASSUME SimpleInv, phase = "exec"
      PROVE  pool = turn
  BY <1>1 DEF SimpleInv, PoolIsOfThisTurn
<1>2. ASSUME SimpleInv, phase = "exec", NEW s \in Symbol, Known(s)
      PROVE  reset < symbols[s].turn
  BY <1>2 DEF SimpleInv, ResetIsClean
<1>3. ASSUME SimpleInv, phase = "exec", Running, Preset(next)
      PROVE  plan.kind[At(next)] = "source" \/ values[At(next)] \in reset + 1 .. turn - 1
  <2>1. /\ IsPlan(plan) /\ next \in Steps /\ next \in Nat /\ IsTable(values) /\ ResetIsClean
        /\ values[At(next)] # Absent /\ reset \in Nat /\ turn \in Nat
    BY <1>3 DEF SimpleInv, TypeOK, WorkIsKept, Running, Preset
  <2>2. ~Evaluated(At(next))
    BY <2>1, StepsAreNodes DEF Evaluated, At
  <2>3. At(next) \in Ordered(plan) /\ At(next) \in Node
    BY <2>1, StepsAreNodes
  <2>4. values # <<>>
    <3>1. DOMAIN values = Node
      BY <2>1 DEF IsTable
    <3> QED
      BY <2>3, <3>1
  <2>5. values[At(next)] \in Nat /\ values[At(next)] <= turn
    BY <2>1, <2>3 DEF IsTable, Value
  <2>6. reset < values[At(next)] /\ (values[At(next)] = turn => Source(At(next)))
    BY <1>3, <2>1, <2>2, <2>3, <2>4 DEF ResetIsClean
  <2> QED
    BY <2>1, <2>5, <2>6 DEF Source
<1>4. SimpleInv => SymbolsAndPresetsAreReset
  BY <1>1, <1>2, <1>3 DEF SymbolsAndPresetsAreReset
<1> QED
  BY <1>4, SimpleStateInvariant, PTL

-----------------------------------------------------------------------------
(* The past length.                                                         *)

\* Every cache of a plan is evaluated at each turn.  A cache the outputs do not
\* need keeps its length, and would be asked for the past length all the same.
CachesAreRun ==
    \A p \in Plans : \A n \in Node : p.kind[n] = "cache" => n \in Ordered(p)

\* Until a turn fails: between turns, the caches have one length and no symbol
\* is left; then P is that length; then a cache that had its step is one longer.
Cache(n) == plan.kind[n] = "cache"
PastOf(n) == Known("P") /\ memory[n] = symbols["P"].extent
PastIsShared ==
    failures = 0 =>
        /\ phase \in {"idle", "inputs"} =>
              ~Known("P") /\ \A m, n \in Node : Cache(m) /\ Cache(n) => memory[m] = memory[n]
        /\ phase = "before" => \A n \in Node : Cache(n) => PastOf(n)
        /\ phase = "exec" => \A k \in Steps : Cache(At(k)) =>
              /\ Known("P")
              /\ memory[At(k)] = symbols["P"].extent + (IF k < next THEN 1 ELSE 0)
PastInv == SimpleInv /\ PastIsShared /\ plan \in Plans

\* Resolving another symbol, or one that is known, leaves P as it is.
LEMMA PastIsLeftAlone ==
    ASSUME TypeOK, NEW s \in Symbol, NEW extent \in Nat, Resolve(s, extent),
           s # "P" \/ Known("P")
    PROVE  symbols'["P"] = symbols["P"]
<1>1. "P" \in Symbol
  BY DEF Symbol
<1> QED
  BY <1>1 DEF Resolve, Resolved, Known, TypeOK

\* A step that changes neither plan, lengths nor P.
LEMMA PastIsKept ==
    ASSUME PastIsShared, UNCHANGED <<plan, memory, failures>>, symbols'["P"] = symbols["P"],
           \/ phase' = phase /\ next' = next
           \/ phase \in {"idle", "inputs"} /\ phase' = "inputs"
    PROVE  PastIsShared'
BY DEF PastIsShared, PastOf, Cache, Known, Steps, Order, At

LEMMA PastStaysShared ==
    ASSUME CachesAreRun, PastInv, [Next]_vars
    PROVE  PastIsShared'
<1>0. /\ TypeOK /\ IsPlan(plan) /\ plan \in Plans /\ PastIsShared /\ ResetIsClean
      /\ failures \in Nat /\ next \in Nat /\ memory \in [Node -> Nat] /\ "P" \in Symbol
  BY DEF PastInv, SimpleInv, TypeOK, Symbol
<1>1. ASSUME Abort PROVE PastIsShared'
  BY <1>0, <1>1 DEF Abort, PastIsShared
<1>2. CASE \/ \E extent \in Extent : RefuseInput(extent)
           \/ RefuseInputs \/ StatesDoNotResolve \/ HandlerFails \/ EvalFails \/ RefuseOutput
  BY <1>1, <1>2 DEF RefuseInput, RefuseInputs, StatesDoNotResolve, HandlerFails, EvalFails,
                    RefuseOutput
<1>3. CASE BeginTurn
  BY <1>0, <1>3, PastIsKept DEF BeginTurn, turnVars
<1>4. ASSUME NEW extent \in Extent, SetInput(extent) PROVE PastIsShared'
  <2>1. extent \in Nat /\ "S" \in Symbol /\ Resolve("S", extent)
    BY <1>4 DEF SetInput, Extent, Symbol
  <2>2. symbols'["P"] = symbols["P"]
    BY <1>0, <2>1, PastIsLeftAlone
  <2> QED
    BY <1>0, <1>4, <2>2, PastIsKept DEF SetInput
<1>5. CASE ResolveStates
  <2>1. /\ phase = "inputs" /\ phase' = "before"
        /\ UNCHANGED <<plan, memory, failures>>
    BY <1>5 DEF ResolveStates
  <2>2. ASSUME failures = 0, NEW n \in Node, Cache(n)
        PROVE  PastOf(n)'
    <3>1. ~Known("P") /\ NodesOf("cache") # {}
      BY <1>0, <2>1, <2>2 DEF PastIsShared, NodesOf, Cache
    <3>2. PICK m \in Node : FirstCache(m) /\ Resolve("P", memory[m])
      BY <1>5, <3>1 DEF ResolveStates
    <3>3. symbols' = Resolved("P", memory[m]) /\ Cache(m)
      BY <3>1, <3>2 DEF Resolve, FirstCache, NodesOf, Cache
    <3>4. symbols'["P"] = [extent |-> memory[m], turn |-> turn]
      BY <1>0, <3>3 DEF Resolved, TypeOK
    <3>5. symbols'["P"] # Absent
      BY <1>0, <3>4, SimpleStateAssumption DEF TypeOK
    <3>6. memory[m] = memory[n]
      BY <1>0, <2>1, <2>2, <3>3 DEF PastIsShared
    <3> QED
      BY <2>1, <3>4, <3>5, <3>6 DEF PastOf, Known
  <2> QED
    BY <1>0, <2>1, <2>2 DEF PastIsShared, Cache
<1>6. CASE BeginExec
  <2>1. /\ phase = "before" /\ phase' = "exec" /\ next' = 1
        /\ UNCHANGED <<plan, memory, failures, symbols>>
    BY <1>6 DEF BeginExec
  <2>2. \A k \in Steps : At(k) \in Node /\ ~(k < 1)
    BY <1>0, StepsAreNodes
  <2>3. ASSUME failures = 0, NEW k \in Steps, Cache(At(k))
        PROVE  Known("P") /\ memory[At(k)] = symbols["P"].extent /\ symbols["P"].extent \in Nat
    BY <1>0, <2>1, <2>2, <2>3 DEF PastIsShared, PastOf
  <2> QED
    BY <1>0, <2>1, <2>2, <2>3 DEF PastIsShared, Cache, Known, Steps, Order, At
<1>7. CASE EvalNode
  <2>1. /\ phase = "exec" /\ next \in Steps /\ next' = next + 1 /\ Remember /\ Feedback(next)
        /\ UNCHANGED <<plan, phase, failures>>
    BY <1>7 DEF EvalNode, Running
  <2>2. ASSUME Known("P") PROVE symbols'["P"] = symbols["P"]
    <3>1. CASE UNCHANGED symbols
      BY <3>1
    <3>2. CASE \E told \in Tells(next) : Resolve(told.symbol, told.extent)
      <4>1. PICK told \in Tells(next) : Resolve(told.symbol, told.extent)
        BY <3>2
      <4>2. told.symbol \in Symbol /\ told.extent \in Nat
        BY <1>0, <2>1, StepsAreNodes DEF Tells, Symbol, Extent
      <4> QED
        BY <1>0, <2>2, <4>1, <4>2, PastIsLeftAlone
    <3> QED
      BY <2>1, <3>1, <3>2 DEF Feedback
  <2>3. ASSUME failures = 0, NEW k \in Steps, Cache(At(k))
        PROVE  /\ Known("P")'
               /\ memory'[At(k)] = symbols'["P"].extent + (IF k < next + 1 THEN 1 ELSE 0)
    <3>1. /\ Known("P") /\ symbols["P"].extent \in Nat
          /\ memory[At(k)] = symbols["P"].extent + (IF k < next THEN 1 ELSE 0)
      BY <1>0, <2>1, <2>3 DEF PastIsShared, TypeOK, Known
    <3>2. symbols'["P"] = symbols["P"] /\ Known("P")'
      BY <2>2, <3>1 DEF Known
    <3>3. k \in Nat /\ At(k) \in Node /\ At(next) \in Node /\ (At(k) = At(next) <=> k = next)
      BY <1>0, <2>1, StepsAreNodes
    <3>4. CASE k = next
      BY <1>0, <2>1, <2>3, <3>1, <3>2, <3>3, <3>4 DEF Remember, Cache
    <3>5. CASE k # next
      <4>1. memory'[At(k)] = memory[At(k)]
        BY <1>0, <2>1, <3>3, <3>5 DEF Remember
      <4> QED
        BY <1>0, <3>1, <3>2, <3>3, <3>5, <4>1
    <3> QED
      BY <3>4, <3>5
  <2> QED
    BY <1>0, <2>1, <2>3 DEF PastIsShared, Cache, Steps, Order, At
<1>8. CASE FinishTurn
  <2>1. /\ phase = "exec" /\ phase' = "idle" /\ next > Len(Order)
        /\ UNCHANGED <<plan, memory, failures>> /\ symbols' = [s \in Symbol |-> Absent]
    BY <1>8 DEF FinishTurn, ResetTurn
  <2>2. ASSUME failures = 0, NEW n \in Node, Cache(n)
        PROVE  memory[n] = symbols["P"].extent + 1
    <3>1. n \in Ordered(plan)
      BY <1>0, <2>2 DEF CachesAreRun, Cache
    <3>2. PICK k \in Steps : At(k) = n
      BY <3>1 DEF Ordered, Positions, Steps, Order, At
    <3>3. k < next
      BY <1>0, <2>1, StepsAreNodes
    <3> QED
      BY <1>0, <2>1, <2>2, <3>2, <3>3 DEF PastIsShared
  <2>3. ~Known("P")'
    BY <1>0, <2>1 DEF Known
  <2> QED
    BY <2>1, <2>2, <2>3 DEF PastIsShared, Cache
<1>9. CASE Clone
  BY <1>0, <1>9, PastIsKept DEF Clone
<1>10. CASE Over \/ UNCHANGED vars
  BY <1>0, <1>10, PastIsKept DEF Over, vars
<1> QED
  BY <1>2, <1>3, <1>4, <1>5, <1>6, <1>7, <1>8, <1>9, <1>10 DEF Next

\* PastLengthAlwaysShared: until a turn fails, whatever is cloned, each cache is
\* as long as the past length its turn resolved when its step comes, whichever
\* cache gave it.
THEOREM PastLengthAlwaysShared == ASSUME CachesAreRun PROVE Spec => []PastLengthIsShared
<1>1. Init => PastInv
  <2>1. Init => PastIsShared /\ plan \in Plans
    BY DEF Init, PastIsShared, Known, Symbol
  <2> QED
    BY <2>1, InitIsSound DEF PastInv
<1>2. PastInv /\ [Next]_vars => PastInv'
  <2>1. ASSUME PastInv, [Next]_vars PROVE plan' = plan
    BY <2>1 DEF Next, vars, Over, BeginTurn, SetInput, RefuseInput, RefuseInputs, ResolveStates,
                StatesDoNotResolve, BeginExec, HandlerFails, EvalNode, EvalFails, RefuseOutput,
                FinishTurn, Clone, Abort
  <2> QED
    BY <2>1, StepIsSound, PastStaysShared DEF PastInv
<1>3. PastInv => PastLengthIsShared
  BY DEF PastInv, PastIsShared, PastLengthIsShared, Cache
<1> QED
  BY <1>1, <1>2, <1>3, PTL DEF Spec
==============================================================================
