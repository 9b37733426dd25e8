----------------------------- MODULE DeviceArena -----------------------------
(***************************************************************************)
(* Turns on a device (gpu/src/turn_handler.rs, gpu/src/memory/pool.rs):    *)
(* SimpleState runs the plan, MemSchema has planned its memory, and this   *)
(* module says where each value is.                                        *)
(*                                                                         *)
(* Before a turn the handler takes an arena: the cached storage if nobody  *)
(* else holds it and its capacity fits, or a new one.  Planned nodes write *)
(* in their partition of the arena; their values are views of it, which    *)
(* the table of values, the pool of a turn that failed and the callers who *)
(* were returned one keep alive.  Nodes that are not planned, constants    *)
(* and host values have memory of their own, which is not modelled.        *)
(***************************************************************************)
EXTENDS MemSchema

CONSTANT RetainArena   \* the knob TRACT_GPU_RETAIN_ARENA: keep the storage between turns

ASSUME DeviceArenaAssumption == RetainArena \in BOOLEAN

VARIABLES
    storages,   \* device buffers, in the order they were made: for each region, who wrote it
    cache,      \* ArenaStorageCache: the index of a storage and its capacity
    arena,      \* the storage of the pool in TurnState.shared
    place,      \* of each node's value, a view of a storage, or Absent
    held        \* views the callers were returned and still hold

arenaVars == <<storages, cache, arena, place, held>>
deviceVars == <<vars, schemaVars, arenaVars>>

\* A view names its storage and region, and what its reader takes it to hold.
Written == [node : Node, turn : Nat]
View == [storage : DOMAIN storages, region : Partitions, written : Written]
IsIntact(view) == storages[view.storage][view.region] = view.written

HasView(n) == values # <<>> /\ values[n] # Absent /\ place[n] # Absent

-----------------------------------------------------------------------------
(* Taking an arena.                                                         *)

\* Sizes grow with the extent the inputs carry.
Needed == MapThenSumSet(LAMBDA i : Max({plan.size[n] : n \in In(i)}), Partitions)
             * (IF Known("S") THEN symbols["S"].extent ELSE 1)

IsSoleOwner(storage) ==
    /\ arena # storage
    /\ \A n \in Node : HasView(n) => place[n].storage # storage
    /\ \A view \in held : view.storage # storage

Fits(capacity) == Needed <= capacity /\ capacity <= 2 * Needed

\* Mutant: views do not count.
IsReusableUnlessPooled ==
    RetainArena /\ cache # Absent /\ Fits(cache.capacity) /\ arena # cache.storage

IsReusable == RetainArena /\ cache # Absent /\ Fits(cache.capacity) /\ IsSoleOwner(cache.storage)

\* A storage that has to grow takes a quarter more than is needed.
NewCapacity ==
    IF cache # Absent /\ cache.capacity < Needed THEN Needed + Needed \div 4 ELSE Needed

\* The turn lays its regions out afresh: it may write any part of the storage.
Blank == [i \in Partitions |-> Absent]
TakeArena ==
    IF IsReusable
    THEN /\ arena' = cache.storage
         /\ storages' = [storages EXCEPT ![cache.storage] = Blank]
         /\ UNCHANGED cache
    ELSE /\ arena' = Len(storages) + 1
         /\ storages' = Append(storages, Blank)
         /\ cache' = IF RetainArena
                     THEN [storage |-> Len(storages) + 1, capacity |-> NewCapacity]
                     ELSE cache

-----------------------------------------------------------------------------
(* A turn: SimpleState's steps, and where they put the values.              *)

\* Values are set, flushed and dropped as SimpleState has it.
Elsewhere == UNCHANGED arenaVars
FailedTurn ==
    /\ \/ \E extent \in Extent : RefuseInput(extent)
       \/ RefuseInputs \/ StatesDoNotResolve \/ HandlerFails
    /\ Elsewhere

\* A caller may feed what an earlier turn returned.
FeedInput(extent) ==
    /\ SetInput(extent)
    /\ \E view \in held \cup {Absent} : place' = [place EXCEPT ![plan.inputs[next]] = view]
    /\ UNCHANGED <<storages, cache, arena, held>>

TakeArenaAndBegin ==
    /\ BeginExec
    /\ TakeArena
    /\ UNCHANGED <<place, held>>

\* A planned node writes its region; what is not planned has its own memory.
HasRegion(n) == partition[n] # 0
Region(n) == [node |-> n, turn |-> turn]
Write(n) ==
    IF HasRegion(n)
    THEN storages' = [storages EXCEPT ![arena][partition[n]] = Region(n)]
    ELSE UNCHANGED storages
OwnView(n) ==
    IF HasRegion(n) THEN [storage |-> arena, region |-> partition[n], written |-> Region(n)]
                    ELSE Absent

\* An input is handed what it was fed, a forwarder with nothing to do hands its
\* input on, and another node writes.
HandOn(n) ==
    /\ UNCHANGED storages
    /\ \/ plan.kind[n] = "source" /\ UNCHANGED place
       \/ n \in plan.forwards /\ place' = [place EXCEPT ![n] = place[ForwardedInput(n)]]
Compute(n) ==
    /\ plan.kind[n] # "source"
    /\ Write(n)
    /\ place' = [place EXCEPT ![n] = OwnView(n)]

EvalOnDevice ==
    /\ EvalNode
    /\ HandOn(At(next)) \/ Compute(At(next))
    /\ UNCHANGED <<cache, arena, held>>

\* A node that fails may have written, and its value is dropped.
EvalFailsOnDevice ==
    /\ EvalFails \/ RefuseOutput
    /\ UNCHANGED storages \/ Write(At(next))
    /\ UNCHANGED <<cache, arena, place, held>>

\* The handler removes the pool, and the caller gets the outputs.
ReturnViews ==
    /\ FinishTurn
    /\ held' = held \cup {place[n] : n \in {m \in plan.outputs : HasView(m)}}
    /\ arena' = Absent
    /\ UNCHANGED <<storages, cache, place>>

\* A caller drops a tensor, at any time.
DropView(view) ==
    /\ held' = held \ {view}
    /\ UNCHANGED <<vars, storages, cache, arena, place>>

\* A clone starts without resources.
CloneOnDevice ==
    /\ Clone
    /\ cache' = Absent /\ arena' = Absent
    /\ UNCHANGED <<storages, place, held>>

DeviceInit ==
    /\ Init /\ SchemaInit
    /\ storages = <<>>
    /\ cache = Absent /\ arena = Absent
    /\ place = [n \in Node |-> Absent]
    /\ held = {}

PlanMemory == SchemaNext /\ UNCHANGED <<vars, arenaVars>>
Run ==
    /\ Built
    /\ \/ (BeginTurn \/ ResolveStates \/ Over) /\ Elsewhere
       \/ FailedTurn
       \/ \E extent \in Extent : FeedInput(extent)
       \/ TakeArenaAndBegin \/ EvalOnDevice \/ EvalFailsOnDevice \/ ReturnViews \/ CloneOnDevice
       \/ \E view \in held : DropView(view)
    /\ UNCHANGED schemaVars

DeviceNext == PlanMemory \/ Run

DeviceSpec == DeviceInit /\ [][DeviceNext]_deviceVars

-----------------------------------------------------------------------------
(* Properties.                                                             *)

DeviceTypeOK ==
    /\ TypeOK
    /\ ends \in [Node -> 0 .. Len(Order)]
    /\ cursor \in 0 .. Len(Order)
    /\ partition \in [Node -> 0 .. Len(Order)]
    /\ storages \in Seq([Partitions -> Written \cup {Absent}])
    /\ cache = Absent \/ cache \in [storage : DOMAIN storages, capacity : Nat]
    /\ arena \in DOMAIN storages \cup {Absent}
    /\ place \in [Node -> View \cup {Absent}]
    /\ held \subseteq View
    /\ phase = "exec" => arena # Absent

\* ReadsAreIntact: a step finds in its inputs' memory what was written there
\* for it, and has no region to write in common with them: not with a temporary
\* of this turn, not with what an earlier turn returned and the caller fed back.
ReadsAreIntact ==
    Running =>
        \A n \in Reads(next) : HasView(n) =>
            /\ IsIntact(place[n])
            /\ HasRegion(At(next)) =>
                  <<place[n].storage, place[n].region>> # <<arena, partition[At(next)]>>

\* HeldViewsAreIntact: what a caller was returned keeps its contents for as long
\* as the caller holds it, through later turns, their failures, and the reuse of
\* the arena.
HeldViewsAreIntact == \A view \in held : IsIntact(view)

\* ForwardedMemoryIsKept: what a node handed on as its output keeps the memory
\* of its producer alive as long as that output is read (the documentation of
\* forwards_input, core/src/ops/mod.rs).
ForwardedMemoryIsKept ==
    Running =>
        \A n \in Reads(next) \cap plan.forwards :
            HasView(n) /\ place[n] = place[ForwardedInput(n)] => IsIntact(place[n])
==============================================================================
