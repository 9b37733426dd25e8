------------------------------ MODULE MemSchema ------------------------------
(***************************************************************************)
(* Planning the device memory of a plan (gpu/src/memory/schema.rs).        *)
(*                                                                         *)
(* Before its first turn, a plan's temporary device values are laid out in *)
(* partitions of one arena: two values share a partition when their        *)
(* lifetimes, in steps of the order, are disjoint.  The module follows the *)
(* loops of eval_device_mem_req_for_nodes and build_with, one iteration a  *)
(* step: lifetimes are extended from the last node to the first, then      *)
(* values are placed from the largest to the smallest.                     *)
(*                                                                         *)
(* Metal and CUDA plan with the default SchemaOptions, as here.  A node    *)
(* has one output and one buffer.                                          *)
(***************************************************************************)
EXTENDS SimpleState, FiniteSetsExt

\* What a device plan adds to a plan: the nodes whose value lives on the device,
\* those that may hand their only input on as their output, and the size the
\* hint gives to each value.
IsDevicePlan(p) ==
    /\ p.device \subseteq Node
    /\ p.forwards \subseteq {n \in p.device : p.kind[n] = "op" /\ Cardinality(p.preds[n]) = 1}
    /\ p.size \in [Node -> Nat \ {0}]

ASSUME MemSchemaAssumption == \A p \in Plans : IsDevicePlan(p)

VARIABLES
    ends,       \* the last step of each planned value's lifetime; 0 when it is not planned
    cursor,     \* the step whose forwarding is looked at; 0 when all were
    partition   \* of each planned value; 0 when it has none yet

schemaVars == <<ends, cursor, partition>>

-----------------------------------------------------------------------------
(* Which values are planned, and until when they are needed.                *)

CrossesToHost(n) == \E m \in Node : n \in plan.preds[m] /\ m \notin plan.device

\* The steps that read a value, and those until which it must be kept.
ReadersOf(n) == {k \in Steps : n \in Reads(k)}

\* Mutant: the lifetime of an output is not cut at the last step.
KeptUntilAfterwards(n) == IF n \in plan.outputs THEN {Len(Order) + 1} ELSE ReadersOf(n)

\* Outputs are kept to the end of the turn.
KeptUntil(n) == IF n \in plan.outputs THEN {Len(Order)} ELSE ReadersOf(n)

\* What a device op leaves on the device for other device ops: constants and
\* inputs come from the host, the caches are owned by their op states.
IsPlanned(n) ==
    /\ n \in Ordered(plan) \cap plan.device
    /\ plan.kind[n] \in {"op", "range"}
    /\ ~CrossesToHost(n)
    /\ KeptUntil(n) # {}

LastUse(n) == Max(KeptUntil(n))
Start(n) == CHOOSE k \in Steps : At(k) = n
ForwardedInput(n) == CHOOSE m \in Node : m \in plan.preds[n]

SchemaInit ==
    /\ ends = [n \in Node |-> IF IsPlanned(n) THEN LastUse(n) ELSE 0]
    /\ cursor = Len(Order)
    /\ partition = [n \in Node |-> 0]

\* Mutant: forwarders are walked in the order they run.
ExtendFrontToBack ==
    /\ cursor > 0
    /\ LET n == At(Len(Order) + 1 - cursor)
           m == ForwardedInput(n) IN
       ends' = IF n \in plan.forwards /\ ends[n] # 0 /\ ends[m] # 0
               THEN [ends EXCEPT ![m] = Max({ends[m], ends[n]})]
               ELSE ends
    /\ cursor' = cursor - 1
    /\ UNCHANGED partition

\* A planned forwarder's input lives as long as the forwarder's own value,
\* which may be the same memory.
Extend ==
    /\ cursor > 0
    /\ LET n == At(cursor)
           m == ForwardedInput(n) IN
       ends' = IF n \in plan.forwards /\ ends[n] # 0 /\ ends[m] # 0
               THEN [ends EXCEPT ![m] = Max({ends[m], ends[n]})]
               ELSE ends
    /\ cursor' = cursor - 1
    /\ UNCHANGED partition

-----------------------------------------------------------------------------
(* Placing values in partitions.                                            *)

Unplaced == {n \in Node : ends[n] # 0 /\ partition[n] = 0}
Built == cursor = 0 /\ Unplaced = {}

\* The sort is stable: of the largest, the one that is evaluated first.
IsNextToPlace(n) ==
    /\ n \in Unplaced
    /\ \A m \in Unplaced : \/ plan.size[m] < plan.size[n]
                           \/ plan.size[m] = plan.size[n] /\ Start(m) >= Start(n)

Partitions == {partition[n] : n \in Node} \ {0}
In(i) == {n \in Node : partition[n] = i}

\* Mutant: a value may start on the step that reads the other last.
DisjointOrTouching(m, n) == Start(m) >= ends[n] \/ Start(n) >= ends[m]

Disjoint(m, n) == Start(m) > ends[n] \/ Start(n) > ends[m]

IsAvailable(i, n) == \A m \in In(i) : Disjoint(m, n)

\* The fullest of the partitions that are available, the oldest of these.
TotalSize(i) == MapThenSumSet(LAMBDA n : plan.size[n], In(i))
IsPreferred(i, n) ==
    /\ i \in Partitions /\ IsAvailable(i, n)
    /\ \A j \in Partitions : IsAvailable(j, n) =>
          TotalSize(j) < TotalSize(i) \/ (TotalSize(j) = TotalSize(i) /\ i <= j)

Place(n) ==
    /\ cursor = 0 /\ IsNextToPlace(n)
    /\ \E i \in 1 .. Cardinality(Partitions) + 1 :
          /\ \/ IsPreferred(i, n)
             \/ (\A j \in Partitions : ~IsAvailable(j, n)) /\ i = Cardinality(Partitions) + 1
          /\ partition' = [partition EXCEPT ![n] = i]
    /\ UNCHANGED <<ends, cursor>>

SchemaNext == Extend \/ \E n \in Node : Place(n)

-----------------------------------------------------------------------------
(* Properties.                                                             *)

\* PartitionsDoNotConflict: at no step of the order are two values of one
\* partition alive, counting the step that writes a value, the last one that
\* reads it, and those that read it through the nodes that hand it on.
IsAlive(n, k) == Start(n) <= k /\ k <= ends[n]
PartitionsDoNotConflict ==
    \A m, n \in Node : partition[m] # 0 /\ partition[m] = partition[n] /\ m # n =>
        \A k \in Steps : ~(IsAlive(m, k) /\ IsAlive(n, k))
==============================================================================
