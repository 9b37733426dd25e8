----------------------------- MODULE DeviceProofs -----------------------------
(***************************************************************************)
(* Theorems of MemSchema and DeviceArena, for every plan, scope, number of *)
(* turns and sizes: values that share a partition are never alive          *)
(* together, what a step reads is intact, and so is what callers hold.     *)
(***************************************************************************)
EXTENDS DeviceArena, SimpleStateProofs, OrderLemmas

-----------------------------------------------------------------------------
(* The schema: what holds of lifetimes and partitions while they are made.  *)

\* LifetimesReachReaders: what is planned lives until its last reader's step.
LifetimesReachReaders ==
    \A n \in Node : /\ ends[n] # 0 <=> IsPlanned(n)
                    /\ ends[n] # 0 => \A k \in KeptUntil(n) : k <= ends[n]

\* LivesOn: what a planned forwarder hands on lives as long as the forwarder's value.
LivesOn(k) ==
    At(k) \in plan.forwards /\ ends[At(k)] # 0 /\ ends[ForwardedInput(At(k))] # 0 =>
        ends[ForwardedInput(At(k))] >= ends[At(k)]
LifetimesAreForwarded == \A k \in Steps : k > cursor => LivesOn(k)

SchemaTypes ==
    /\ plan \in Plans
    /\ ends \in [Node -> 0 .. Len(Order)]
    /\ cursor \in 0 .. Len(Order)
    /\ partition \in [Node -> Nat]

\* Partitions are numbered from one, and made when lifetimes are final.
PartitionsAreNumbered ==
    /\ \E p \in Nat : Partitions = 1 .. p
    /\ \A n \in Node : partition[n] # 0 => cursor = 0 /\ ends[n] # 0
PartitionsAreDisjoint ==
    \A m, n \in Node : partition[m] # 0 /\ partition[m] = partition[n] /\ m # n => Disjoint(m, n)

SchemaInv ==
    /\ SchemaTypes /\ LifetimesReachReaders /\ LifetimesAreForwarded
    /\ PartitionsAreNumbered /\ PartitionsAreDisjoint

\* Max picks the largest of a set of steps.
LEMMA LargestStep ==
    ASSUME NEW l \in Nat, NEW T \in SUBSET (0 .. l), T # {}
    PROVE  Max(T) \in T /\ \A k \in T : k <= Max(T)
<1> DEFINE D == {l - k : k \in T}
<1>1. D \in SUBSET Nat /\ D # {}
  <2>1. \A k \in T : l - k \in Nat
    OBVIOUS
  <2> QED
    BY <2>1
<1>2. PICK d \in D : \A e \in D : d <= e
  <2> HIDE DEF D
  <2> QED
    BY <1>1, LeastElement
<1>3. PICK k \in T : d = l - k
  BY <1>2
<1>4. \A j \in T : l - j \in D /\ j \in 0 .. l
  OBVIOUS
<1>5. \A j \in T : k >= j
  BY <1>2, <1>3, <1>4
<1>6. \E x \in T : \A y \in T : x >= y
  BY <1>3, <1>5
<1>7. Max(T) \in T /\ \A y \in T : Max(T) >= y
  BY <1>6, Zenon DEF Max
<1> QED
  BY <1>4, <1>7

\* A plan of the constants is one SimplePlan::build makes, for a device.
LEMMA PlansAreDevicePlans ==
    ASSUME plan \in Plans
    PROVE  IsPlan(plan) /\ IsDevicePlan(plan)
BY SimpleStateAssumption, MemSchemaAssumption

\* Where a node of the order is evaluated.
LEMMA StartIsThePosition ==
    ASSUME IsPlan(plan)
    PROVE  /\ \A n \in Ordered(plan) : Start(n) \in Steps /\ At(Start(n)) = n
           /\ \A k \in Steps : Start(At(k)) = k /\ At(k) \in Ordered(plan)
<1>1. ASSUME NEW n \in Ordered(plan)
      PROVE  Start(n) \in Steps /\ At(Start(n)) = n
  <2>1. \E k \in Steps : At(k) = n
    BY DEF Ordered, Positions, Steps, Order, At
  <2> QED
    BY <2>1, Zenon DEF Start
<1>2. ASSUME NEW k \in Steps
      PROVE  Start(At(k)) = k /\ At(k) \in Ordered(plan)
  <2>1. At(k) \in Ordered(plan)
    BY StepsAreNodes
  <2> QED
    BY <1>1, <2>1, StepsAreNodes
<1> QED
  BY <1>1, <1>2

\* The steps until which a value is kept, and the last of them.
LEMMA KeptUntilAreSteps ==
    ASSUME IsPlan(plan)
    PROVE  \A n \in Node :
              /\ \A k \in KeptUntil(n) : k \in 1 .. Len(Order) \/ k = Len(Order)
              /\ IsPlanned(n) => /\ n \in Ordered(plan) /\ n \in plan.device
                                 /\ Start(n) \in Steps /\ At(Start(n)) = n
                                 /\ LastUse(n) \in 1 .. Len(Order)
                                 /\ \A k \in KeptUntil(n) : k <= LastUse(n)
                                 /\ \E k \in KeptUntil(n) : Start(n) <= k
<1>0. Len(Order) \in Nat /\ Steps = 1 .. Len(Order)
  BY StepsAreNodes
<1>1. ASSUME NEW n \in Node, NEW k \in KeptUntil(n)
      PROVE  k \in 1 .. Len(Order) \/ k = Len(Order)
  BY <1>0, <1>1 DEF KeptUntil, ReadersOf
<1>2. ASSUME NEW n \in Node, IsPlanned(n)
      PROVE  /\ n \in Ordered(plan) /\ n \in plan.device
             /\ Start(n) \in Steps /\ At(Start(n)) = n
             /\ LastUse(n) \in 1 .. Len(Order)
             /\ \A k \in KeptUntil(n) : k <= LastUse(n)
             /\ \E k \in KeptUntil(n) : Start(n) <= k
  <2>1. n \in Ordered(plan) /\ n \in plan.device /\ KeptUntil(n) # {} /\ plan.kind[n] # "const"
    BY <1>2 DEF IsPlanned
  <2>2. Start(n) \in Steps /\ At(Start(n)) = n
    BY <2>1, StartIsThePosition
  <2>3. Len(Order) >= 1
    BY <1>0, <2>2
  <2>4. KeptUntil(n) \in SUBSET (1 .. Len(Order))
    BY <1>0, <1>1, <2>3
  <2>5. LastUse(n) \in KeptUntil(n) /\ \A k \in KeptUntil(n) : k <= LastUse(n)
    <3>1. KeptUntil(n) \in SUBSET (0 .. Len(Order))
      BY <1>0, <2>4
    <3> HIDE DEF KeptUntil
    <3> QED
      BY <1>0, <2>1, <3>1, LargestStep DEF LastUse
  <2>6. \E k \in KeptUntil(n) : Start(n) <= k
    <3>1. CASE n \in plan.outputs
      BY <1>0, <2>2, <3>1 DEF KeptUntil
    <3>2. CASE n \notin plan.outputs
      <4>1. PICK k \in Steps : n \in Reads(k)
        BY <2>1, <3>2 DEF KeptUntil, ReadersOf
      <4>2. PICK j \in Steps : j < k /\ At(j) = n
        BY <2>1, <4>1, PrecursorsComeBefore DEF Const
      <4>3. Start(n) = j
        BY <4>2, StartIsThePosition
      <4> QED
        BY <1>0, <3>2, <4>1, <4>2, <4>3 DEF KeptUntil, ReadersOf
    <3> QED
      BY <3>1, <3>2
  <2> QED
    BY <2>1, <2>2, <2>4, <2>5, <2>6
<1> QED
  BY <1>1, <1>2

\* The forwarder at a step of the order reads one node, evaluated before it.
LEMMA ForwardedInputIsRead ==
    ASSUME IsPlan(plan), IsDevicePlan(plan)
    PROVE  \A k \in Steps : At(k) \in plan.forwards =>
              /\ ForwardedInput(At(k)) \in Reads(k) /\ ForwardedInput(At(k)) \in Node
              /\ At(k) \in plan.device /\ plan.kind[At(k)] = "op"
<1> SUFFICES ASSUME NEW k \in Steps, At(k) \in plan.forwards
             PROVE  /\ ForwardedInput(At(k)) \in Reads(k) /\ ForwardedInput(At(k)) \in Node
                    /\ At(k) \in plan.device /\ plan.kind[At(k)] = "op"
  OBVIOUS
<1>1. /\ At(k) \in plan.device /\ plan.kind[At(k)] = "op"
      /\ Cardinality(plan.preds[At(k)]) = 1 /\ plan.preds[At(k)] \subseteq Node
  BY StepsAreNodes DEF IsDevicePlan, Reads
<1>2. plan.preds[At(k)] # {}
  BY <1>1, FS_EmptySet
<1>3. \E m \in Node : m \in plan.preds[At(k)]
  BY <1>1, <1>2
<1> QED
  BY <1>1, <1>3, Zenon DEF ForwardedInput, Reads

\* What depends on the plan only does not change while the plan does not.
LEMMA PlanIsFixed ==
    ASSUME plan' = plan
    PROVE  /\ Steps' = Steps /\ Order' = Order
           /\ \A n \in Node : /\ IsPlanned(n)' <=> IsPlanned(n)
                              /\ KeptUntil(n)' = KeptUntil(n)
                              /\ Start(n)' = Start(n)
                              /\ ForwardedInput(n)' = ForwardedInput(n)
           /\ \A k \in Steps : At(k)' = At(k)
BY DEF IsPlanned, KeptUntil, ReadersOf, Reads, At, Steps, Order, Start, ForwardedInput,
       CrossesToHost, Ordered, Positions

LEMMA SchemaInitIsSound ==
    ASSUME plan \in Plans, SchemaInit
    PROVE  SchemaInv
<1>1. IsPlan(plan) /\ IsDevicePlan(plan) /\ Len(Order) \in Nat
  BY PlansAreDevicePlans, StepsAreNodes
<1>2. \A n \in Node : IsPlanned(n) => /\ LastUse(n) \in 1 .. Len(Order)
                                      /\ \A k \in KeptUntil(n) : k <= LastUse(n)
  BY <1>1, KeptUntilAreSteps
<1>3. /\ \A n \in Node : ends[n] = IF IsPlanned(n) THEN LastUse(n) ELSE 0
      /\ \A n \in Node : partition[n] = 0
      /\ cursor = Len(Order)
  BY DEF SchemaInit
<1>4. SchemaTypes
  <2>1. \A n \in Node : ends[n] \in 0 .. Len(Order)
    BY <1>1, <1>2, <1>3
  <2>2. ends \in [Node -> 0 .. Len(Order)]
    BY <2>1 DEF SchemaInit
  <2> QED
    BY <1>1, <2>2 DEF SchemaTypes, SchemaInit
<1>5. LifetimesReachReaders
  BY <1>1, <1>2, <1>3 DEF LifetimesReachReaders
<1>6. LifetimesAreForwarded
  BY <1>1, <1>3, StepsAreNodes DEF LifetimesAreForwarded
<1>7. PartitionsAreNumbered
  <2>1. Partitions = 1 .. 0
    BY <1>3 DEF Partitions
  <2> QED
    BY <1>3, <2>1 DEF PartitionsAreNumbered
<1>8. PartitionsAreDisjoint
  BY <1>3 DEF PartitionsAreDisjoint
<1> QED
  BY <1>4, <1>5, <1>6, <1>7, <1>8 DEF SchemaInv

LEMMA ExtendIsSound ==
    ASSUME SchemaInv, Extend, plan' = plan
    PROVE  SchemaInv'
<1> DEFINE n == At(cursor)
           m == ForwardedInput(n)
           extends == n \in plan.forwards /\ ends[n] # 0 /\ ends[m] # 0
<1>1. /\ IsPlan(plan) /\ IsDevicePlan(plan) /\ SchemaTypes /\ Len(Order) \in Nat
      /\ Steps = 1 .. Len(Order)
  BY PlansAreDevicePlans, StepsAreNodes DEF SchemaInv, SchemaTypes
<1>2. /\ cursor \in Steps /\ cursor' = cursor - 1 /\ partition' = partition
      /\ ends' = IF extends THEN [ends EXCEPT ![m] = Max({ends[m], ends[n]})] ELSE ends
  BY <1>1 DEF Extend, SchemaTypes
<1>3. n \in Node
  BY <1>1, <1>2, StepsAreNodes
<1>4. ASSUME extends
      PROVE  /\ m \in Node /\ IsPlanned(m) /\ Start(m) \in Steps /\ Start(m) < cursor
             /\ At(Start(m)) = m
  <2>1. m \in Reads(cursor) /\ m \in Node
    BY <1>1, <1>2, <1>4, ForwardedInputIsRead
  <2>2. IsPlanned(m)
    BY <1>4, <2>1 DEF SchemaInv, LifetimesReachReaders
  <2>3. Start(m) \in Steps /\ At(Start(m)) = m /\ ~Const(m)
    BY <1>1, <2>1, <2>2, KeptUntilAreSteps DEF IsPlanned, Const
  <2>4. PICK j \in Steps : j < cursor /\ At(j) = m
    BY <1>1, <1>2, <2>1, <2>3, PrecursorsComeBefore
  <2>5. Start(m) = j
    BY <1>1, <2>4, StartIsThePosition
  <2> QED
    BY <2>1, <2>2, <2>3, <2>4, <2>5
<1>5. ASSUME extends
      PROVE  Max({ends[m], ends[n]}) \in {ends[m], ends[n]}
             /\ Max({ends[m], ends[n]}) >= ends[m] /\ Max({ends[m], ends[n]}) >= ends[n]
  <2>1. {ends[m], ends[n]} \in SUBSET (0 .. Len(Order))
    BY <1>1, <1>3, <1>4, <1>5 DEF SchemaTypes
  <2>2. {ends[m], ends[n]} # {}
    OBVIOUS
  <2> HIDE DEF n, m
  <2>3. /\ Max({ends[m], ends[n]}) \in {ends[m], ends[n]}
        /\ \A k \in {ends[m], ends[n]} : k <= Max({ends[m], ends[n]})
    BY <1>1, <2>1, <2>2, LargestStep
  <2> QED
    BY <2>1, <2>3
<1>6. /\ ends' \in [Node -> 0 .. Len(Order)]
      /\ \A x \in Node : ends'[x] >= ends[x] /\ (ends'[x] # 0 <=> ends[x] # 0)
      /\ \A x \in Node : ends'[x] # ends[x] => extends /\ x = m
      /\ extends => ends'[m] >= ends[n]
  <2>0. \A x \in Node : ends[x] \in 0 .. Len(Order) /\ ends[x] \in Nat
    BY <1>1 DEF SchemaTypes
  <2> HIDE DEF n, m
  <2>1. CASE ~extends
    BY <1>1, <1>2, <2>0, <2>1 DEF SchemaTypes
  <2>2. CASE extends
    <3> DEFINE e == Max({ends[m], ends[n]})
    <3>1. /\ m \in Node /\ n \in Node /\ ends[m] # 0
          /\ e \in {ends[m], ends[n]} /\ e >= ends[m] /\ e >= ends[n]
      BY <1>3, <1>4, <1>5, <2>2
    <3>2. ends' = [ends EXCEPT ![m] = e] /\ ends \in [Node -> 0 .. Len(Order)]
      BY <1>1, <1>2, <2>2 DEF SchemaTypes
    <3> HIDE DEF e
    <3>3. e \in 0 .. Len(Order) /\ e # 0
      BY <2>0, <3>1
    <3>4. ends' \in [Node -> 0 .. Len(Order)]
      BY <3>1, <3>2, <3>3
    <3>5. \A x \in Node : ends'[x] = IF x = m THEN e ELSE ends[x]
      BY <3>2
    <3> QED
      BY <2>0, <2>2, <3>1, <3>3, <3>4, <3>5
  <2> QED
    BY <2>1, <2>2
<1> HIDE DEF n, m, extends
<1>7. SchemaTypes'
  BY <1>1, <1>2, <1>6, PlanIsFixed DEF SchemaTypes
<1>8. LifetimesReachReaders'
  <2>1. ASSUME NEW x \in Node
        PROVE  /\ ends'[x] # 0 <=> IsPlanned(x)
               /\ ends'[x] # 0 => \A k \in KeptUntil(x) : k <= ends'[x]
    <3>1. /\ ends[x] # 0 <=> IsPlanned(x)
          /\ ends[x] # 0 => \A k \in KeptUntil(x) : k <= ends[x]
      BY DEF SchemaInv, LifetimesReachReaders
    <3>2. /\ ends[x] \in Nat /\ ends'[x] \in Nat
          /\ \A k \in KeptUntil(x) : k \in Nat
      BY <1>1, <1>6, KeptUntilAreSteps DEF SchemaTypes
    <3> QED
      BY <1>6, <3>1, <3>2
  <2> QED
    BY <2>1, PlanIsFixed DEF LifetimesReachReaders
<1>9. LifetimesAreForwarded'
  <2>1. ASSUME NEW k \in Steps, k > cursor - 1, At(k) \in plan.forwards, ends'[At(k)] # 0,
               ends'[ForwardedInput(At(k))] # 0
        PROVE  ends'[ForwardedInput(At(k))] >= ends'[At(k)]
    <3>1. At(k) \in Node /\ ForwardedInput(At(k)) \in Node
      BY <1>1, <2>1, StepsAreNodes, ForwardedInputIsRead
    <3>2. ends[At(k)] # 0 /\ ends[ForwardedInput(At(k))] # 0
      BY <1>6, <2>1, <3>1
    <3>3. ends'[At(k)] = ends[At(k)]
      <4> SUFFICES ASSUME extends, At(k) = m PROVE FALSE
        BY <1>6, <3>1
      <4>1. k = Start(m)
        BY <1>1, StartIsThePosition
      <4> QED
        BY <1>1, <1>2, <1>4, <2>1, <4>1
    <3>4. /\ ends[At(k)] \in Nat /\ ends[ForwardedInput(At(k))] \in Nat
          /\ ends'[ForwardedInput(At(k))] \in Nat
          /\ ends'[ForwardedInput(At(k))] >= ends[ForwardedInput(At(k))]
      BY <1>1, <1>6, <3>1 DEF SchemaTypes
    <3>5. CASE k > cursor
      <4>1. LivesOn(k)
        BY <2>1, <3>5 DEF SchemaInv, LifetimesAreForwarded
      <4> QED
        BY <2>1, <3>2, <3>3, <3>4, <4>1 DEF LivesOn
    <3>6. CASE k = cursor
      <4>1. extends /\ ends'[m] >= ends[n] /\ m = ForwardedInput(At(k)) /\ n = At(k)
        BY <1>6, <2>1, <3>2, <3>6 DEF extends, n, m
      <4> QED
        BY <3>3, <4>1
    <3> QED
      BY <1>1, <1>2, <2>1, <3>5, <3>6
  <2>2. ASSUME NEW k \in Steps, k > cursor'
        PROVE  LivesOn(k)'
    <3>1. At(k)' = At(k) /\ plan' = plan /\ At(k) \in Node
      BY <1>1, PlanIsFixed, StepsAreNodes
    <3>2. ForwardedInput(At(k))' = ForwardedInput(At(k))
      BY <3>1, PlanIsFixed DEF ForwardedInput
    <3> QED
      BY <1>2, <2>1, <2>2, <3>1, <3>2 DEF LivesOn
  <2> QED
    BY <2>2, PlanIsFixed DEF LifetimesAreForwarded
<1>10. (\A x \in Node : partition[x] = 0) /\ (\A x \in Node : partition'[x] = 0)
  BY <1>1, <1>2 DEF SchemaInv, PartitionsAreNumbered
<1>11. PartitionsAreNumbered' /\ PartitionsAreDisjoint'
  <2>1. Partitions' = Partitions
    BY <1>2 DEF Partitions
  <2> QED
    BY <1>10, <2>1 DEF SchemaInv, PartitionsAreNumbered, PartitionsAreDisjoint
<1> QED
  BY <1>7, <1>8, <1>9, <1>11 DEF SchemaInv

LEMMA PlaceIsSound ==
    ASSUME SchemaInv, NEW n \in Node, Place(n), plan' = plan
    PROVE  SchemaInv'
<1>1. /\ SchemaTypes /\ cursor = 0 /\ cursor' = cursor /\ ends' = ends
      /\ ends[n] # 0 /\ partition[n] = 0
  BY DEF SchemaInv, Place, IsNextToPlace, Unplaced
<1>2. PICK p \in Nat : Partitions = 1 .. p
  BY DEF SchemaInv, PartitionsAreNumbered
<1>3. Cardinality(Partitions) = p
  <2>1. Cardinality(1 .. p) = IF 1 > p THEN 0 ELSE p - 1 + 1
    BY FS_Interval
  <2> QED
    BY <1>2, <2>1
<1>4. PICK i \in 1 .. p + 1 :
          /\ \/ i \in Partitions /\ IsAvailable(i, n)
             \/ i = p + 1
          /\ partition' = [partition EXCEPT ![n] = i]
  <2>1. PICK i \in 1 .. Cardinality(Partitions) + 1 :
          /\ \/ IsPreferred(i, n)
             \/ (\A j \in Partitions : ~IsAvailable(j, n)) /\ i = Cardinality(Partitions) + 1
          /\ partition' = [partition EXCEPT ![n] = i]
    BY DEF Place
  <2>2. IsPreferred(i, n) => i \in Partitions /\ IsAvailable(i, n)
    BY DEF IsPreferred
  <2> QED
    BY <1>3, <2>1, <2>2
<1>5. /\ partition' \in [Node -> Nat] /\ partition'[n] = i /\ i # 0
      /\ \A m \in Node : m # n => partition'[m] = partition[m]
  BY <1>1, <1>2, <1>4 DEF SchemaTypes
<1>6. SchemaTypes' /\ LifetimesReachReaders' /\ LifetimesAreForwarded'
  <2>1. SchemaTypes'
    BY <1>1, <1>5, PlanIsFixed DEF SchemaTypes
  <2>2. LifetimesReachReaders'
    BY <1>1, PlanIsFixed DEF SchemaInv, LifetimesReachReaders
  <2>3. IsPlan(plan) /\ IsDevicePlan(plan)
    BY <1>1, PlansAreDevicePlans DEF SchemaTypes
  <2>4. ASSUME NEW k \in Steps, k > cursor PROVE LivesOn(k)'
    <3>1. LivesOn(k)
      BY <2>4 DEF SchemaInv, LifetimesAreForwarded
    <3>2. At(k)' = At(k) /\ ForwardedInput(At(k))' = ForwardedInput(At(k))
      BY PlanIsFixed DEF ForwardedInput
    <3> QED
      BY <1>1, <3>1, <3>2 DEF LivesOn
  <2> QED
    BY <1>1, <2>1, <2>2, <2>4, PlanIsFixed DEF LifetimesAreForwarded
<1>7. Partitions' = Partitions \cup {i}
  <2>1. ASSUME NEW j \in Partitions' PROVE j \in Partitions \cup {i}
    <3>1. PICK m \in Node : j = partition'[m] /\ j # 0
      BY <2>1 DEF Partitions
    <3> QED
      BY <1>5, <3>1 DEF Partitions
  <2>2. ASSUME NEW j \in Partitions PROVE j \in Partitions'
    <3>1. PICK m \in Node : j = partition[m] /\ j # 0
      BY <2>2 DEF Partitions
    <3>2. m # n
      BY <1>1, <3>1
    <3> QED
      BY <1>5, <3>1, <3>2 DEF Partitions
  <2>3. i \in Partitions'
    BY <1>5 DEF Partitions
  <2> QED
    BY <2>1, <2>2, <2>3
<1>8. PartitionsAreNumbered'
  <2>1. Partitions' = 1 .. p \/ Partitions' = 1 .. p + 1
    <3>1. i \in 1 .. p \/ i = p + 1
      BY <1>2, <1>4
    <3>2. (1 .. p) \cup {p + 1} = 1 .. p + 1
      BY <1>2
    <3>3. i \in 1 .. p => (1 .. p) \cup {i} = 1 .. p
      OBVIOUS
    <3> QED
      BY <1>2, <1>7, <3>1, <3>2, <3>3
  <2>2. \A m \in Node : partition'[m] # 0 => cursor' = 0 /\ ends'[m] # 0
    BY <1>1, <1>5 DEF SchemaInv, PartitionsAreNumbered
  <2> QED
    BY <1>2, <2>1, <2>2 DEF PartitionsAreNumbered
<1>9. ASSUME NEW m \in Node, m # n, partition[m] = i PROVE Disjoint(m, n) /\ Disjoint(n, m)
  <2>1. i \in Partitions
    BY <1>5, <1>9 DEF Partitions
  <2>2. i # p + 1
    BY <1>2, <2>1
  <2> QED
    BY <1>4, <1>9, <2>2 DEF IsAvailable, In, Disjoint
<1>10. \A x, y \in Node : partition'[x] # 0 /\ partition'[x] = partition'[y] /\ x # y => Disjoint(x, y)
  BY <1>5, <1>9 DEF SchemaInv, PartitionsAreDisjoint
<1>11. \A x, y \in Node : Disjoint(x, y)' <=> Disjoint(x, y)
  BY <1>1, PlanIsFixed DEF Disjoint
<1>12. PartitionsAreDisjoint'
  BY <1>10, <1>11 DEF PartitionsAreDisjoint
<1> QED
  BY <1>6, <1>8, <1>12 DEF SchemaInv

\* Once the schema is built, no step of DeviceNext changes it.
LEMMA SchemaIsKept ==
    ASSUME SchemaInv, plan' = plan, UNCHANGED schemaVars
    PROVE  SchemaInv'
<1>1. \A m, n \in Node : Disjoint(m, n)' <=> Disjoint(m, n)
  BY PlanIsFixed DEF Disjoint, schemaVars
<1>2. \A k \in Steps : LivesOn(k)' <=> LivesOn(k)
  <2> SUFFICES ASSUME NEW k \in Steps PROVE LivesOn(k)' <=> LivesOn(k)
    OBVIOUS
  <2>1. At(k)' = At(k) /\ ForwardedInput(At(k))' = ForwardedInput(At(k))
    BY PlanIsFixed DEF ForwardedInput
  <2> QED
    BY <2>1 DEF LivesOn, schemaVars
<1>3. Partitions' = Partitions
  BY DEF Partitions, schemaVars
<1>4. SchemaTypes' /\ LifetimesReachReaders' /\ LifetimesAreForwarded'
  BY <1>2, PlanIsFixed
     DEF SchemaInv, SchemaTypes, LifetimesReachReaders, LifetimesAreForwarded, schemaVars
<1>5. PartitionsAreNumbered' /\ PartitionsAreDisjoint'
  BY <1>1, <1>3 DEF SchemaInv, PartitionsAreNumbered, PartitionsAreDisjoint, schemaVars
<1> QED
  BY <1>4, <1>5 DEF SchemaInv

\* No device step changes the plan.
LEMMA DeviceStepsRunThePlan ==
    ASSUME [DeviceNext]_deviceVars
    PROVE  /\ [Next]_vars /\ plan' = plan
           /\ SchemaNext \/ UNCHANGED schemaVars
<1>1. CASE PlanMemory \/ UNCHANGED deviceVars
  BY <1>1 DEF PlanMemory, deviceVars, vars
<1>2. CASE Run
  <2>1. UNCHANGED schemaVars
    BY <1>2 DEF Run
  <2>2. Next \/ UNCHANGED vars
    <3>1. CASE BeginTurn \/ ResolveStates \/ Over
      BY <3>1 DEF Next
    <3>2. CASE FailedTurn
      BY <3>2 DEF FailedTurn, Next
    <3>3. ASSUME NEW extent \in Extent, FeedInput(extent) PROVE Next
      BY <3>3 DEF FeedInput, Next
    <3>4. CASE TakeArenaAndBegin \/ EvalOnDevice \/ EvalFailsOnDevice \/ ReturnViews \/ CloneOnDevice
      BY <3>4 DEF TakeArenaAndBegin, EvalOnDevice, EvalFailsOnDevice, ReturnViews, CloneOnDevice, Next
    <3>5. ASSUME NEW view \in held, DropView(view) PROVE UNCHANGED vars
      BY <3>5 DEF DropView
    <3> QED
      BY <1>2, <3>1, <3>2, <3>3, <3>4, <3>5 DEF Run
  <2>3. plan' = plan
    <3>1. CASE UNCHANGED vars
      BY <3>1 DEF vars
    <3>2. CASE Next
      BY <3>2 DEF Next, BeginTurn, SetInput, RefuseInput, RefuseInputs, ResolveStates,
         StatesDoNotResolve, BeginExec, HandlerFails, EvalNode, EvalFails, RefuseOutput,
         FinishTurn, Clone, Over, Abort, vars
    <3> QED
      BY <2>2, <3>1, <3>2
  <2> QED
    BY <2>1, <2>2, <2>3
<1> QED
  BY <1>1, <1>2 DEF DeviceNext

LEMMA SchemaStepIsSound == SchemaInv /\ [DeviceNext]_deviceVars => SchemaInv'
<1> SUFFICES ASSUME SchemaInv, [DeviceNext]_deviceVars
             PROVE  SchemaInv'
  OBVIOUS
<1>1. plan' = plan /\ (SchemaNext \/ UNCHANGED schemaVars)
  BY DeviceStepsRunThePlan
<1> QED
  BY <1>1, ExtendIsSound, PlaceIsSound, SchemaIsKept DEF SchemaNext

LEMMA DeviceInitIsPlanned == DeviceInit => SchemaInv
BY SchemaInitIsSound DEF DeviceInit, Init

\* PartitionsNeverConflict: whatever the graph, the sizes and the forwarders, two
\* values of one partition are never alive at the same step.
THEOREM PartitionsNeverConflict == DeviceSpec => []PartitionsDoNotConflict
<1>1. ASSUME SchemaInv PROVE PartitionsDoNotConflict
  <2> SUFFICES ASSUME NEW m \in Node, NEW n \in Node, partition[m] # 0,
                      partition[m] = partition[n], m # n,
                      NEW k \in Steps, IsAlive(m, k), IsAlive(n, k)
               PROVE  FALSE
    BY DEF PartitionsDoNotConflict
  <2>1. Disjoint(m, n)
    BY <1>1 DEF SchemaInv, PartitionsAreDisjoint
  <2>2. IsPlan(plan) /\ IsPlanned(m) /\ IsPlanned(n)
    BY <1>1, PlansAreDevicePlans
       DEF SchemaInv, SchemaTypes, PartitionsAreNumbered, LifetimesReachReaders
  <2>3. /\ Start(m) \in Nat /\ Start(n) \in Nat /\ ends[m] \in Nat /\ ends[n] \in Nat /\ k \in Nat
    <3>1. Start(m) \in Steps /\ Start(n) \in Steps /\ \A j \in Steps : j \in Nat
      BY <2>2, KeptUntilAreSteps, StepsAreNodes
    <3>2. \A j \in 0 .. Len(Order) : j \in Nat
      OBVIOUS
    <3>3. ends[m] \in 0 .. Len(Order) /\ ends[n] \in 0 .. Len(Order)
      BY <1>1 DEF SchemaInv, SchemaTypes
    <3> QED
      BY <3>1, <3>2, <3>3
  <2> QED
    BY <2>1, <2>3 DEF Disjoint, IsAlive
<1> QED
  BY <1>1, DeviceInitIsPlanned, SchemaStepIsSound, PTL DEF DeviceSpec

-----------------------------------------------------------------------------
(* The arena: where values are, and what the memory they are views of holds. *)

ArenaTypes ==
    /\ storages \in Seq([Partitions -> Written \cup {Absent}])
    /\ arena \in DOMAIN storages \cup {Absent}
    /\ cache = Absent \/ cache \in [storage : DOMAIN storages, capacity : Nat]
    /\ place \in [Node -> View \cup {Absent}]
    /\ held \subseteq View
    /\ phase = "exec" => arena # Absent

\* No turn runs before the schema is built.
NothingRanYet ==
    /\ phase = "idle" /\ values = <<>>
    /\ storages = <<>> /\ cache = Absent /\ arena = Absent
    /\ place = [n \in Node |-> Absent] /\ held = {}
SchemaComesFirst == ~Built => NothingRanYet

TypedInv == SimpleInv /\ SchemaInv /\ ArenaTypes /\ SchemaComesFirst

\* What a turn leaves alone once the schema is built.
LEMMA TheSchemaStands ==
    ASSUME UNCHANGED schemaVars, plan' = plan, Built
    PROVE  /\ Partitions' = Partitions /\ Built' /\ SchemaComesFirst'
           /\ \A n : HasRegion(n)' <=> HasRegion(n)
           /\ \A n : (Const(n)' <=> Const(n)) /\ (Source(n)' <=> Source(n))
           /\ Order' = Order /\ Steps' = Steps
           /\ \A n \in Node : KeptUntil(n)' = KeptUntil(n)
<1>1. Built'
  BY DEF Built, Unplaced, schemaVars
<1> QED
  BY <1>1, PlanIsFixed
     DEF Partitions, SchemaComesFirst, HasRegion, Const, Source, schemaVars

\* There are no more partitions than steps.
LEMMA PartitionsAreFew ==
    ASSUME SchemaInv
    PROVE  IsFiniteSet(Partitions) /\ \A n \in Node : partition[n] \in 0 .. Len(Order)
<1>1. /\ IsPlan(plan) /\ Steps = 1 .. Len(Order) /\ Len(Order) \in Nat /\ partition \in [Node -> Nat]
  BY PlansAreDevicePlans, StepsAreNodes DEF SchemaInv, SchemaTypes
<1>2. PICK p \in Nat : Partitions = 1 .. p
  BY DEF SchemaInv, PartitionsAreNumbered
<1> DEFINE Member(i) == CHOOSE n \in Node : partition[n] = i
           at == [i \in 1 .. p |-> Start(Member(i))]
<1>3. ASSUME NEW i \in 1 .. p
      PROVE  /\ Member(i) \in Node /\ partition[Member(i)] = i
             /\ Start(Member(i)) \in Steps /\ At(Start(Member(i))) = Member(i)
  <2>1. i \in Partitions /\ i # 0
    BY <1>2
  <2>2. \E n \in Node : partition[n] = i
    BY <2>1 DEF Partitions
  <2>3. Member(i) \in Node /\ partition[Member(i)] = i
    BY <2>2
  <2> HIDE DEF Member
  <2>4. IsPlanned(Member(i))
    BY <2>1, <2>3 DEF SchemaInv, PartitionsAreNumbered, LifetimesReachReaders
  <2> QED
    BY <1>1, <2>3, <2>4, KeptUntilAreSteps
<1>4. at \in Injection(1 .. p, 1 .. Len(Order))
  <2> HIDE DEF Member
  <2>1. \A i \in 1 .. p : at[i] = Start(Member(i))
    OBVIOUS
  <2>2. at \in [1 .. p -> 1 .. Len(Order)]
    BY <1>1, <1>3
  <2>3. \A i, j \in 1 .. p : at[i] = at[j] => i = j
    BY <1>3, <2>1
  <2> HIDE DEF at
  <2> QED
    BY <2>2, <2>3 DEF Injection, IsInjective
<1>5. p <= Len(Order)
  <2> HIDE DEF at
  <2>0. Len(Order) \in Int /\ p \in Int /\ 1 \in Int
    BY <1>1, <1>2
  <2>1. /\ IsFiniteSet(1 .. Len(Order))
        /\ Cardinality(1 .. Len(Order)) = IF 1 > Len(Order) THEN 0 ELSE Len(Order) - 1 + 1
        /\ Cardinality(1 .. p) = IF 1 > p THEN 0 ELSE p - 1 + 1
    BY <2>0, FS_Interval
  <2>2. Cardinality(1 .. p) <= Cardinality(1 .. Len(Order))
    BY <1>4, <2>1, FS_Injection
  <2> QED
    BY <1>1, <1>2, <2>1, <2>2
<1>6. IsFiniteSet(Partitions)
  BY <1>2, FS_Interval
<1>7. ASSUME NEW n \in Node PROVE partition[n] \in 0 .. Len(Order)
  <2>1. partition[n] # 0 => partition[n] \in 1 .. p
    BY <1>2 DEF Partitions
  <2> QED
    BY <1>1, <1>2, <1>5, <2>1
<1> QED
  BY <1>6, <1>7

\* What a turn needs of the arena is a number of bytes.
LEMMA NeededIsANumber ==
    ASSUME SimpleInv, SchemaInv
    PROVE  Needed \in Nat
<1> DEFINE Largest(i) == Max({plan.size[n] : n \in In(i)})
           sizes == [i \in Partitions |-> Largest(i)]
<1>1. /\ IsPlan(plan) /\ IsDevicePlan(plan) /\ Steps = 1 .. Len(Order) /\ Len(Order) \in Nat
      /\ \A k \in Steps : At(k) \in Node
  BY PlansAreDevicePlans, StepsAreNodes DEF SchemaInv, SchemaTypes
<1>2. \A n \in Node : plan.size[n] \in Nat
  BY <1>1 DEF IsDevicePlan
<1>3. PICK bound \in Nat : \A k \in 1 .. Len(Order) : plan.size[At(k)] <= bound
  <2> DEFINE f == [k \in 1 .. Len(Order) |-> plan.size[At(k)]]
  <2>1. f \in [1 .. Len(Order) -> Nat] /\ \A k \in 1 .. Len(Order) : f[k] = plan.size[At(k)]
    BY <1>1, <1>2
  <2> HIDE DEF f
  <2>2. \E bound \in Nat : \A k \in 1 .. Len(Order) : f[k] <= bound
    BY <1>1, <2>1, NumbersAreBounded
  <2> QED
    BY <2>1, <2>2
<1>4. ASSUME NEW i \in Partitions PROVE Largest(i) \in Nat
  <2>1. PICK n \in Node : partition[n] = i /\ i # 0
    BY DEF Partitions
  <2>2. \A m \in In(i) : m \in Node /\ plan.size[m] \in 0 .. bound
    <3> SUFFICES ASSUME NEW m \in In(i) PROVE m \in Node /\ plan.size[m] \in 0 .. bound
      OBVIOUS
    <3>1. m \in Node /\ partition[m] = i
      BY DEF In
    <3>2. IsPlanned(m)
      BY <2>1, <3>1 DEF SchemaInv, PartitionsAreNumbered, LifetimesReachReaders
    <3>3. Start(m) \in Steps /\ At(Start(m)) = m
      BY <1>1, <3>1, <3>2, KeptUntilAreSteps
    <3> QED
      BY <1>1, <1>2, <1>3, <3>1, <3>3
  <2>3. n \in In(i)
    BY <2>1 DEF In
  <2> DEFINE T == {plan.size[m] : m \in In(i)}
  <2>4. T \in SUBSET (0 .. bound) /\ T # {}
    BY <2>2, <2>3
  <2> HIDE DEF T
  <2>5. Max(T) \in T
    BY <1>3, <2>4, LargestStep
  <2>6. Max(T) \in 0 .. bound
    BY <2>4, <2>5
  <2>7. Max(T) \in Nat
    BY <1>3, <2>6
  <2> QED
    BY <2>7 DEF T
<1>5. IsFiniteSet(Partitions) /\ sizes \in [Partitions -> Nat]
  BY <1>4, PartitionsAreFew
<1> DEFINE Sums(sum) == sum = [s \in SUBSET Partitions |->
                                  IF s = {} THEN 0
                                  ELSE Largest(Some(s)) + sum[s \ {Some(s)}]]
           total == CHOOSE sum : Sums(sum)
<1>6. ASSUME NEW s \in SUBSET Partitions, s # {}
      PROVE  sizes[Some(s)] = Largest(Some(s))
  <2>1. Some(s) \in s
    BY <1>6 DEF Some
  <2> HIDE DEF Largest
  <2> QED
    BY <2>1
<1> HIDE DEF sizes, Largest
<1>7. \E sum : Sums(sum)
  <2>1. PICK sum \in [SUBSET Partitions -> Nat] : SumsUp(sum, Partitions, sizes)
    BY <1>5, SumsAreNumbers
  <2>2. Sums(sum)
    BY <1>6, <2>1 DEF SumsUp
  <2> QED
    BY <2>2
<1>8. Sums(total)
  <2> HIDE DEF Sums
  <2> QED
    BY <1>7
<1>9. total[Partitions] \in Nat
  <2> HIDE DEF total
  <2>1. SumsUp(total, Partitions, sizes)
    BY <1>6, <1>8 DEF SumsUp
  <2>2. \A s \in SUBSET Partitions : total[s] \in Nat
    BY <1>5, <2>1, SumsAreNumbers
  <2> QED
    BY <2>2
<1>10. Needed = total[Partitions] * (IF Known("S") THEN symbols["S"].extent ELSE 1)
  BY DEF Needed, MapThenSumSet, MapThenFoldSet, total, Sums, Largest, Some
<1>11. (IF Known("S") THEN symbols["S"].extent ELSE 1) \in Nat
  BY DEF SimpleInv, TypeOK, Symbol, Known
<1> HIDE DEF total
<1> QED
  BY <1>9, <1>10, <1>11

\* The arena of a turn is one that nothing else is a view of.
LEMMA TakenArenaIsFree ==
    ASSUME ArenaTypes, TakeArena, UNCHANGED schemaVars, UNCHANGED <<place, held>>, Needed \in Nat
    PROVE  /\ storages' \in Seq([Partitions -> Written \cup {Absent}])
           /\ DOMAIN storages \subseteq DOMAIN storages' /\ arena' \in DOMAIN storages'
           /\ cache' = Absent \/ cache' \in [storage : DOMAIN storages', capacity : Nat]
           /\ \A s \in DOMAIN storages : s # arena' => storages'[s] = storages[s]
           /\ \A view \in held : view.storage # arena'
           /\ \A n \in Node : HasView(n) => place[n].storage # arena'
<1>0. /\ storages \in Seq([Partitions -> Written \cup {Absent}])
      /\ cache = Absent \/ cache \in [storage : DOMAIN storages, capacity : Nat]
      /\ DOMAIN storages = 1 .. Len(storages) /\ Len(storages) \in Nat
  BY DEF ArenaTypes
<1>1. Blank \in [Partitions -> Written \cup {Absent}]
  BY DEF Blank
<1>2. CASE IsReusable
  <2>1. /\ arena' = cache.storage /\ cache' = cache
        /\ cache \in [storage : DOMAIN storages, capacity : Nat]
        /\ storages' = [storages EXCEPT ![cache.storage] = Blank]
        /\ IsSoleOwner(cache.storage)
    BY <1>0, <1>2 DEF TakeArena, IsReusable
  <2>2. /\ storages' \in Seq([Partitions -> Written \cup {Absent}])
        /\ DOMAIN storages' = DOMAIN storages
    BY <1>0, <1>1, <2>1
  <2> QED
    BY <2>1, <2>2 DEF IsSoleOwner
<1>3. CASE ~IsReusable
  <2> DEFINE s == Len(storages) + 1
  <2>1. /\ arena' = s /\ storages' = Append(storages, Blank)
        /\ cache' = [storage |-> s, capacity |-> NewCapacity] \/ cache' = cache
    BY <1>3 DEF TakeArena
  <2>2. /\ storages' \in Seq([Partitions -> Written \cup {Absent}])
        /\ DOMAIN storages' = 1 .. s
        /\ \A k \in DOMAIN storages : storages'[k] = storages[k] /\ k # s
    BY <1>0, <1>1, <2>1
  <2>3. NewCapacity \in Nat
    <3>1. Needed \div 4 \in Nat
      OBVIOUS
    <3> QED
      BY <3>1 DEF NewCapacity
  <2>4. cache' = Absent \/ cache' \in [storage : DOMAIN storages', capacity : Nat]
    <3>1. s \in DOMAIN storages' /\ \A k \in DOMAIN storages : k \in DOMAIN storages'
      BY <1>0, <2>2
    <3> HIDE DEF s
    <3> QED
      BY <1>0, <2>1, <2>3, <3>1
  <2>5. \A view \in View : view.storage \in DOMAIN storages
    BY DEF View
  <2> QED
    BY <1>0, <2>1, <2>2, <2>4, <2>5 DEF ArenaTypes, HasView
<1> QED
  BY <1>2, <1>3

\* A node writes in its region of the arena, and nowhere else.
LEMMA WritesStayInTheRegion ==
    ASSUME ArenaTypes, arena # Absent, NEW w \in Node, turn \in Nat,
           UNCHANGED storages \/ Write(w)
    PROVE  /\ storages' \in Seq([Partitions -> Written \cup {Absent}])
           /\ DOMAIN storages' = DOMAIN storages
           /\ \A view \in View : ~(HasRegion(w) /\ view.storage = arena /\ view.region = partition[w])
                                 => (IsIntact(view)' <=> IsIntact(view))
           /\ HasRegion(w) /\ Write(w) => /\ OwnView(w) \in View
                                          /\ storages'[arena][partition[w]] = Region(w)
<1>1. /\ storages \in Seq([Partitions -> Written \cup {Absent}]) /\ arena \in DOMAIN storages
  BY DEF ArenaTypes
<1>2. HasRegion(w) => partition[w] \in Partitions
  BY DEF HasRegion, Partitions
<1>3. Region(w) \in Written
  BY DEF Region, Written
<1>4. CASE UNCHANGED storages /\ ~(HasRegion(w) /\ Write(w))
  BY <1>1, <1>4 DEF IsIntact
<1>5. CASE HasRegion(w) /\ Write(w)
  <2> DEFINE row == [storages[arena] EXCEPT ![partition[w]] = Region(w)]
  <2>1. storages' = [storages EXCEPT ![arena] = row]
    BY <1>5 DEF Write
  <2>2. storages[arena] \in [Partitions -> Written \cup {Absent}]
    BY <1>1
  <2>3. row \in [Partitions -> Written \cup {Absent}]
    BY <1>3, <2>2
  <2>4. row[partition[w]] = Region(w) /\ \A r \in Partitions : r # partition[w] => row[r] = storages[arena][r]
    BY <1>2, <1>5, <2>2
  <2> HIDE DEF row
  <2>5. /\ storages' \in Seq([Partitions -> Written \cup {Absent}])
        /\ DOMAIN storages' = DOMAIN storages
        /\ storages'[arena] = row /\ \A s \in DOMAIN storages : s # arena => storages'[s] = storages[s]
    BY <1>1, <2>1, <2>3
  <2>6. OwnView(w) \in View
    BY <1>1, <1>2, <1>3, <1>5 DEF OwnView, View
  <2>7. \A view \in View : view.storage \in DOMAIN storages /\ view.region \in Partitions
    BY DEF View
  <2> QED
    BY <1>5, <2>4, <2>5, <2>6, <2>7 DEF IsIntact
<1>6. Write(w) /\ ~HasRegion(w) => UNCHANGED storages
  BY DEF Write
<1> QED
  BY <1>4, <1>5, <1>6

\* An evaluation puts one value: where its input is, or in its own region.
LEMMA EvalPutsOneValue ==
    ASSUME SimpleInv, SchemaInv, ArenaTypes, EvalOnDevice
    PROVE  /\ \A n \in Node : n # At(next) => place'[n] = place[n]
           /\ Source(At(next)) => place' = place
           /\ ~Source(At(next)) =>
                 \/ At(next) \in plan.forwards /\ place'[At(next)] = place[ForwardedInput(At(next))]
                 \/ place'[At(next)] = OwnView(At(next)) /\ (HasRegion(At(next)) => Write(At(next)))
           /\ place' \in [Node -> View \cup {Absent}]
           /\ storages' \in Seq([Partitions -> Written \cup {Absent}])
           /\ DOMAIN storages' = DOMAIN storages
           /\ \A view \in View :
                 ~(HasRegion(At(next)) /\ view.storage = arena /\ view.region = partition[At(next)])
                 => (IsIntact(view)' <=> IsIntact(view))
           /\ HasRegion(At(next)) /\ Write(At(next)) =>
                 storages'[arena][partition[At(next)]] = Region(At(next))
<1> DEFINE w == At(next)
<1>1. /\ phase = "exec" /\ next \in Steps
      /\ HandOn(w) \/ Compute(w)
  BY DEF EvalOnDevice, EvalNode, Running
<1>2. /\ arena # Absent /\ turn \in Nat /\ IsPlan(plan) /\ IsDevicePlan(plan)
  BY <1>1, PlansAreDevicePlans DEF SimpleInv, TypeOK, ArenaTypes, SchemaInv, SchemaTypes
<1>3. w \in Node
  BY <1>1, <1>2, StepsAreNodes
<1>4. /\ \A n \in Node : n # w => place'[n] = place[n]
      /\ Source(w) => place' = place
      /\ ~Source(w) => \/ w \in plan.forwards /\ place'[w] = place[ForwardedInput(w)]
                       \/ place'[w] = OwnView(w) /\ (HasRegion(w) => Write(w))
      /\ place' \in [Node -> View \cup {Absent}]
      /\ UNCHANGED storages \/ Write(w)
  <2>0. place \in [Node -> View \cup {Absent}]
    BY DEF ArenaTypes
  <2>1. ASSUME w \in plan.forwards PROVE ForwardedInput(w) \in Node /\ ~Source(w)
    BY <1>1, <1>2, <2>1, ForwardedInputIsRead DEF Source
  <2>2. CASE HandOn(w)
    <3>1. UNCHANGED storages
      BY <2>2 DEF HandOn
    <3>2. CASE Source(w) /\ UNCHANGED place
      BY <2>0, <3>1, <3>2
    <3>3. CASE w \in plan.forwards /\ place' = [place EXCEPT ![w] = place[ForwardedInput(w)]]
      <4>1. place[ForwardedInput(w)] \in View \cup {Absent}
        BY <2>0, <2>1, <3>3
      <4> HIDE DEF w
      <4> QED
        BY <1>3, <2>0, <2>1, <3>1, <3>3, <4>1
    <3> QED
      BY <2>2, <3>2, <3>3 DEF HandOn, Source
  <2>3. CASE Compute(w)
    <3>1. ~Source(w) /\ Write(w) /\ place' = [place EXCEPT ![w] = OwnView(w)]
      BY <2>3 DEF Compute, Source
    <3>2. OwnView(w) \in View \cup {Absent}
      BY <1>2, <1>3, <3>1, WritesStayInTheRegion DEF OwnView
    <3> HIDE DEF w
    <3> QED
      BY <1>3, <2>0, <3>1, <3>2
  <2> QED
    BY <1>1, <2>2, <2>3
<1>5. /\ storages' \in Seq([Partitions -> Written \cup {Absent}])
      /\ DOMAIN storages' = DOMAIN storages
      /\ \A view \in View : ~(HasRegion(w) /\ view.storage = arena /\ view.region = partition[w])
                            => (IsIntact(view)' <=> IsIntact(view))
      /\ HasRegion(w) /\ Write(w) => storages'[arena][partition[w]] = Region(w)
  <2> HIDE DEF w
  <2> QED
    BY <1>2, <1>3, <1>4, WritesStayInTheRegion
<1> QED
  BY <1>4, <1>5

\* What a step leaves of the schema, built or not, when it changes none of it.
LEMMA StutteringKeepsTheSchema ==
    ASSUME UNCHANGED deviceVars
    PROVE  /\ UNCHANGED <<storages, cache, arena, place, held, phase, next, turn, values, plan>>
           /\ UNCHANGED <<ends, cursor, partition>>
           /\ Partitions' = Partitions /\ (Built' <=> Built) /\ (NothingRanYet' <=> NothingRanYet)
           /\ \A n : (Const(n)' <=> Const(n)) /\ (Source(n)' <=> Source(n))
           /\ \A n : HasRegion(n)' <=> HasRegion(n)
           /\ \A n \in Node : KeptUntil(n)' = KeptUntil(n)
           /\ Order' = Order /\ Steps' = Steps
<1>1. /\ UNCHANGED <<storages, cache, arena, place, held, phase, next, turn, values, plan>>
      /\ UNCHANGED <<ends, cursor, partition>>
  BY DEF deviceVars, arenaVars, schemaVars, vars
<1> QED
  BY <1>1, PlanIsFixed
     DEF Partitions, Built, Unplaced, NothingRanYet, Const, Source, HasRegion

\* While the memory is planned, there is nothing in it.
LEMMA PlanningComesFirst ==
    ASSUME SchemaComesFirst, PlanMemory
    PROVE  NothingRanYet /\ NothingRanYet'
<1>1. ~Built
  BY DEF PlanMemory, SchemaNext, Extend, Place, IsNextToPlace, Built
<1>2. NothingRanYet
  BY <1>1 DEF SchemaComesFirst
<1>3. NothingRanYet'
  BY <1>2 DEF NothingRanYet, PlanMemory, arenaVars, vars
<1> QED
  BY <1>2, <1>3

\* Types are kept whatever forwards what.
LEMMA TypesAreKept ==
    ASSUME TypedInv, [DeviceNext]_deviceVars
    PROVE  TypedInv'
<1>0. SimpleInv /\ SchemaInv /\ ArenaTypes /\ SchemaComesFirst
  BY DEF TypedInv
<1>1. SimpleInv' /\ SchemaInv' /\ plan' = plan
  BY <1>0, DeviceStepsRunThePlan, StepIsSound, SchemaStepIsSound
<1>2. CASE UNCHANGED deviceVars
  BY <1>0, <1>1, <1>2, StutteringKeepsTheSchema
     DEF TypedInv, ArenaTypes, View, Written, SchemaComesFirst
<1>3. CASE PlanMemory
  <2>1. NothingRanYet'
    BY <1>0, <1>3, PlanningComesFirst
  <2>2. ArenaTypes'
    BY <2>1 DEF NothingRanYet, ArenaTypes
  <2> QED
    BY <1>1, <2>1, <2>2 DEF TypedInv, SchemaComesFirst
<1>4. CASE Run
  <2>1. Built /\ UNCHANGED schemaVars
    BY <1>4 DEF Run
  <2>2. Partitions' = Partitions /\ SchemaComesFirst' /\ Written' = Written
    BY <1>1, <2>1, TheSchemaStands DEF Written
  <2>3. ArenaTypes'
    <3>1. CASE Elsewhere /\ phase' # "exec"
      BY <1>0, <2>2, <3>1 DEF Elsewhere, arenaVars, ArenaTypes, View
    <3>2. CASE Elsewhere /\ ((BeginTurn \/ ResolveStates \/ Over) \/ FailedTurn)
      <4>1. phase' # "exec"
        BY <3>2 DEF BeginTurn, ResolveStates, Over, vars, FailedTurn, RefuseInput, RefuseInputs,
                    StatesDoNotResolve, HandlerFails, Abort
      <4> QED
        BY <3>1, <3>2, <4>1
    <3>3. ASSUME NEW extent \in Extent, FeedInput(extent) PROVE ArenaTypes'
      <4>1. phase' # "exec" /\ UNCHANGED <<storages, cache, arena, held>>
        BY <3>3 DEF FeedInput, SetInput
      <4>2. PICK view \in held \cup {Absent} : place' = [place EXCEPT ![plan.inputs[next]] = view]
        BY <3>3 DEF FeedInput
      <4>3. place' \in [Node -> View \cup {Absent}]
        BY <1>0, <4>2 DEF ArenaTypes
      <4> QED
        BY <1>0, <2>2, <4>1, <4>3 DEF ArenaTypes, View
    <3>4. CASE TakeArenaAndBegin
      <4>1. TakeArena /\ UNCHANGED <<place, held>>
        BY <3>4 DEF TakeArenaAndBegin
      <4>2. /\ storages' \in Seq([Partitions -> Written \cup {Absent}])
            /\ DOMAIN storages \subseteq DOMAIN storages' /\ arena' \in DOMAIN storages'
            /\ cache' = Absent \/ cache' \in [storage : DOMAIN storages', capacity : Nat]
        BY <1>0, <2>1, <4>1, NeededIsANumber, TakenArenaIsFree
      <4>3. \A view \in View : view \in View'
        BY <2>2, <4>2 DEF View
      <4>4. place' \in [Node -> View' \cup {Absent}] /\ held' \subseteq View'
        BY <1>0, <4>1, <4>3 DEF ArenaTypes
      <4>5. arena' # Absent
        <5>1. DOMAIN storages' = 1 .. Len(storages') /\ Len(storages') \in Nat
          BY <4>2
        <5> QED
          BY <4>2, <5>1, SimpleStateAssumption
      <4> QED
        BY <2>2, <4>2, <4>4, <4>5 DEF ArenaTypes
    <3>5. CASE EvalOnDevice
      <4>1. phase = "exec" /\ UNCHANGED <<phase, cache, arena, held>>
        BY <3>5 DEF EvalOnDevice, EvalNode, Running
      <4>2. /\ place' \in [Node -> View \cup {Absent}]
            /\ storages' \in Seq([Partitions -> Written \cup {Absent}])
            /\ DOMAIN storages' = DOMAIN storages
        BY <1>0, <3>5, EvalPutsOneValue
      <4> QED
        BY <1>0, <2>2, <4>1, <4>2 DEF ArenaTypes, View
    <3>6. CASE EvalFailsOnDevice
      <4>1. /\ phase = "exec" /\ phase' = "idle" /\ next \in Steps
            /\ UNCHANGED <<cache, arena, place, held>>
            /\ UNCHANGED storages \/ Write(At(next))
        BY <3>6 DEF EvalFailsOnDevice, EvalFails, RefuseOutput, Abort, Running
      <4>2. turn \in Nat /\ arena # Absent /\ At(next) \in Node
        BY <1>0, <4>1, StepsAreNodes DEF SimpleInv, TypeOK, ArenaTypes
      <4>3. /\ storages' \in Seq([Partitions -> Written \cup {Absent}])
            /\ DOMAIN storages' = DOMAIN storages
        BY <1>0, <4>1, <4>2, WritesStayInTheRegion
      <4> QED
        BY <1>0, <2>2, <4>1, <4>3 DEF ArenaTypes, View
    <3>7. CASE ReturnViews
      <4>1. /\ phase' = "idle"
            /\ held' = held \cup {place[n] : n \in {m \in plan.outputs : HasView(m)}}
            /\ arena' = Absent /\ UNCHANGED <<storages, cache, place>>
        BY <3>7 DEF ReturnViews, FinishTurn
      <4>2. plan.outputs \subseteq Node
        BY <1>0, StepsAreNodes DEF SimpleInv, TypeOK
      <4>3. held' \subseteq View
        BY <1>0, <4>1, <4>2 DEF HasView, ArenaTypes
      <4> QED
        BY <1>0, <2>2, <4>1, <4>3 DEF ArenaTypes, View
    <3>8. CASE CloneOnDevice
      <4>1. phase' = "idle" /\ cache' = Absent /\ arena' = Absent /\ UNCHANGED <<storages, place, held>>
        BY <3>8 DEF CloneOnDevice, Clone
      <4> QED
        BY <1>0, <2>2, <4>1 DEF ArenaTypes, View
    <3>9. ASSUME NEW view \in held, DropView(view) PROVE ArenaTypes'
      <4>1. held' \subseteq held /\ UNCHANGED <<storages, cache, arena, place, phase>>
        BY <3>9 DEF DropView, vars
      <4> QED
        BY <1>0, <2>2, <4>1 DEF ArenaTypes, View
    <3>10. FailedTurn => Elsewhere
      BY DEF FailedTurn
    <3> QED
      BY <1>4, <3>2, <3>3, <3>4, <3>5, <3>6, <3>7, <3>8, <3>9, <3>10 DEF Run
  <2> QED
    BY <1>1, <2>2, <2>3 DEF TypedInv
<1> QED
  BY <1>2, <1>3, <1>4 DEF DeviceNext

LEMMA DeviceInitIsTyped == DeviceInit => TypedInv /\ NothingRanYet
<1> SUFFICES ASSUME DeviceInit PROVE TypedInv /\ NothingRanYet
  OBVIOUS
<1>1. SimpleInv /\ SchemaInv
  BY InitIsSound, DeviceInitIsPlanned DEF DeviceInit
<1>2. NothingRanYet
  BY DEF DeviceInit, Init, NothingRanYet
<1>3. ArenaTypes
  BY <1>2 DEF NothingRanYet, ArenaTypes
<1> QED
  BY <1>1, <1>2, <1>3 DEF TypedInv, SchemaComesFirst

\* DeviceTypes: every reachable state on a device is well typed: views are of
\* storages and regions there are, and there is an arena while nodes run.
THEOREM DeviceTypes == DeviceSpec => []DeviceTypeOK
<1>1. ASSUME TypedInv PROVE DeviceTypeOK
  <2>1. TypeOK /\ SchemaTypes /\ ArenaTypes /\ SchemaInv
    BY <1>1 DEF TypedInv, SimpleInv, SchemaInv
  <2>2. partition \in [Node -> 0 .. Len(Order)]
    BY <2>1, PartitionsAreFew DEF SchemaTypes
  <2> QED
    BY <2>1, <2>2 DEF DeviceTypeOK, SchemaTypes, ArenaTypes
<1> QED
  BY <1>1, DeviceInitIsTyped, TypesAreKept, PTL DEF DeviceSpec

-----------------------------------------------------------------------------
(* What memory holds while a turn runs.                                     *)

\* ForwardersStayOnDevice: what reads a forwarder's output is a device op.  The
\* code does not see to it, and run device_forward shows what happens without it.
ForwardersStayOnDevice ==
    \A p \in Plans : \A n \in p.forwards : \A m \in Node : n \in p.preds[m] => m \in p.device

ConstantsAreElsewhere == \A n \in Node : Const(n) => place[n] = Absent

\* What callers hold is intact, and not in the arena of the turn under way.
HeldAreSafe == \A view \in held : IsIntact(view) /\ view.storage # arena

\* What was fed in this turn is intact.
FedAreIntact ==
    phase \in {"inputs", "before"} /\ values # <<>> =>
        \A n \in Node : values[n] = turn /\ place[n] # Absent => IsIntact(place[n])

\* While nodes are evaluated, a value that is still to be read is what a caller
\* fed, or the region of the arena that a node wrote in this turn: its own or,
\* through forwarders, that of a node whose region is kept at least as long.
IsFed(n) == place[n].storage # arena /\ IsIntact(place[n])
IsWrittenBy(b, n) ==
    /\ Evaluated(b) /\ HasRegion(b) /\ HasRegion(n) /\ ends[n] <= ends[b]
    /\ place[n] = [storage |-> arena, region |-> partition[b], written |-> Region(b)]
    /\ next <= ends[n] + 1 => IsIntact(place[n])
IsPlaced(n) == IsFed(n) \/ \E b \in Node : IsWrittenBy(b, n)
ValuesArePlaced ==
    phase = "exec" =>
        \A n \in Node : /\ KeptUntil(n) # {} /\ place[n] # Absent
                        /\ Source(n) \/ Evaluated(n)
                        => IsPlaced(n)

StepsAreNotPassed == phase = "exec" => next <= Len(Order) + 1

ArenaInv ==
    /\ ConstantsAreElsewhere
    /\ HeldAreSafe /\ FedAreIntact /\ ValuesArePlaced /\ StepsAreNotPassed

DeviceInv == TypedInv /\ ArenaInv

LEMMA DeviceInitIsSound == DeviceInit => DeviceInv
<1> SUFFICES ASSUME DeviceInit PROVE DeviceInv
  OBVIOUS
<1>1. TypedInv /\ NothingRanYet
  BY DeviceInitIsTyped
<1>2. /\ ConstantsAreElsewhere /\ HeldAreSafe /\ FedAreIntact /\ ValuesArePlaced
      /\ StepsAreNotPassed
  BY <1>1 DEF NothingRanYet, ConstantsAreElsewhere, HeldAreSafe, FedAreIntact, ValuesArePlaced,
              StepsAreNotPassed
<1> QED
  BY <1>1, <1>2 DEF DeviceInv, ArenaInv

LEMMA PlanMemoryIsSound ==
    ASSUME DeviceInv, PlanMemory
    PROVE  ArenaInv'
<1>1. NothingRanYet'
  BY PlanningComesFirst DEF DeviceInv, TypedInv
<1> QED
  BY <1>1 DEF NothingRanYet, ArenaInv, ConstantsAreElsewhere, HeldAreSafe, FedAreIntact,
              ValuesArePlaced, StepsAreNotPassed

LEMMA StutteringIsSound ==
    ASSUME DeviceInv, UNCHANGED deviceVars
    PROVE  ArenaInv'
<1>1. ArenaInv
  BY DEF DeviceInv
<1>2. ConstantsAreElsewhere' /\ HeldAreSafe' /\ FedAreIntact' /\ StepsAreNotPassed'
  BY <1>1, StutteringKeepsTheSchema
     DEF ArenaInv, ConstantsAreElsewhere, HeldAreSafe, FedAreIntact, StepsAreNotPassed, IsIntact
<1>3. ValuesArePlaced'
  <2>1. \A n : IsPlaced(n)' <=> IsPlaced(n)
    BY StutteringKeepsTheSchema DEF IsPlaced, IsFed, IsWrittenBy, Evaluated, IsIntact, Region
  <2>2. \A n : Evaluated(n)' <=> Evaluated(n)
    BY StutteringKeepsTheSchema DEF Evaluated
  <2> QED
    BY <1>1, <2>1, <2>2, StutteringKeepsTheSchema DEF ArenaInv, ValuesArePlaced
<1> QED
  BY <1>2, <1>3 DEF ArenaInv

\* A step that leaves values and memory where they are.
LEMMA ElsewhereIsSound ==
    ASSUME DeviceInv, Built, UNCHANGED schemaVars, plan' = plan, Elsewhere,
           phase' # "exec", FedAreIntact'
    PROVE  ArenaInv'
<1>1. /\ UNCHANGED <<storages, cache, arena, place, held>>
      /\ Partitions' = Partitions
      /\ \A n \in Node : Const(n)' <=> Const(n)
  BY TheSchemaStands DEF Elsewhere, arenaVars
<1>2. ConstantsAreElsewhere' /\ HeldAreSafe' /\ ValuesArePlaced' /\ StepsAreNotPassed'
  BY <1>1 DEF DeviceInv, TypedInv, ArenaInv, ConstantsAreElsewhere, HeldAreSafe, ValuesArePlaced, IsIntact,
              StepsAreNotPassed
<1> QED
  BY <1>1, <1>2 DEF ArenaInv

LEMMA QuietStepsAreSound ==
    ASSUME DeviceInv, Built, UNCHANGED schemaVars, plan' = plan, Elsewhere,
           BeginTurn \/ ResolveStates \/ Over \/ FailedTurn
    PROVE  ArenaInv'
<1>1. CASE BeginTurn
  <2>1. /\ phase' = "inputs" /\ turn' = turn + 1 /\ values' = values
    BY <1>1 DEF BeginTurn, turnVars
  <2>2. turn \in Nat /\ TableIsSane /\ \A n \in Node : values # <<>> => values[n] \in Nat \cup {Absent}
    BY DEF DeviceInv, TypedInv, SimpleInv, TypeOK, TableIsSane, IsTable, Value
  <2>3. \A n \in Node : values # <<>> => values[n] # turn + 1
    BY <2>2, SimpleStateAssumption DEF TableIsSane, IsTable
  <2>4. FedAreIntact'
    BY <2>1, <2>3 DEF FedAreIntact
  <2> QED
    BY <2>1, <2>4, ElsewhereIsSound
<1>2. CASE ResolveStates
  <2>1. phase = "inputs" /\ phase' = "before" /\ turn' = turn /\ values' = values
    BY <1>2 DEF ResolveStates
  <2>2. FedAreIntact'
    BY <2>1 DEF DeviceInv, TypedInv, ArenaInv, FedAreIntact, IsIntact, Elsewhere, arenaVars
  <2> QED
    BY <2>1, <2>2, ElsewhereIsSound
<1>3. CASE Over \/ FailedTurn
  <2>1. phase' = "idle"
    BY <1>3 DEF Over, FailedTurn, RefuseInput, RefuseInputs, StatesDoNotResolve, HandlerFails, Abort,
               vars
  <2>2. FedAreIntact'
    BY <2>1 DEF FedAreIntact
  <2> QED
    BY <2>1, <2>2, ElsewhereIsSound
<1> QED
  BY <1>1, <1>2, <1>3

\* What is fed is nothing on the device, or what a caller holds.
LEMMA FeedInputIsSound ==
    ASSUME DeviceInv, Built, UNCHANGED schemaVars, plan' = plan,
           NEW extent \in Extent, FeedInput(extent)
    PROVE  ArenaInv'
<1> DEFINE input == plan.inputs[next]
<1>1. /\ phase = "inputs" /\ phase' = "inputs" /\ turn' = turn
      /\ next \in DOMAIN plan.inputs
      /\ values' = [ReadyTurn EXCEPT ![input] = turn]
      /\ UNCHANGED <<storages, cache, arena, held>>
  BY DEF FeedInput, SetInput
<1>2. PICK view \in held \cup {Absent} : place' = [place EXCEPT ![input] = view]
  BY DEF FeedInput
<1>3. /\ ArenaTypes /\ IsPlan(plan) /\ TableIsSane /\ turn \in Nat /\ turn # 0
      /\ HeldAreSafe /\ FedAreIntact /\ ConstantsAreElsewhere
  BY <1>1 DEF DeviceInv, TypedInv, SimpleInv, TypeOK, InputsAreFed, ArenaInv
<1>4. input \in Node /\ ~Const(input)
  BY <1>1, <1>3, InputsAreSources
<1>5. /\ Partitions' = Partitions
      /\ \A n \in Node : Const(n)' <=> Const(n)
  BY TheSchemaStands
<1> HIDE DEF input
<1>6. /\ place' \in [Node -> View \cup {Absent}] /\ place'[input] = view
      /\ \A n \in Node : n # input => place'[n] = place[n]
  BY <1>2, <1>3, <1>4 DEF ArenaTypes
<1>8. ConstantsAreElsewhere' /\ HeldAreSafe' /\ ValuesArePlaced' /\ StepsAreNotPassed'
  BY <1>1, <1>3, <1>4, <1>5, <1>6
     DEF ConstantsAreElsewhere, HeldAreSafe, ValuesArePlaced, StepsAreNotPassed, IsIntact
<1>9. ASSUME NEW n \in Node, values'[n] = turn, place'[n] # Absent
      PROVE  storages[place'[n].storage][place'[n].region] = place'[n].written
  <2>1. CASE n = input
    <3>1. place'[n] = view /\ view \in held
      BY <1>2, <1>6, <1>9, <2>1
    <3>2. IsIntact(view)
      BY <1>3, <3>1 DEF HeldAreSafe
    <3> QED
      BY <3>1, <3>2 DEF IsIntact
  <2>2. CASE n # input
    <3>1. ReadyTurn \in [Node -> Value]
      BY <1>3, SimpleStateAssumption, ReadyTurnMakesATable DEF IsTable
    <3>2. ReadyTurn[n] = turn /\ place'[n] = place[n]
      BY <1>1, <1>4, <1>6, <1>9, <2>2, <3>1
    <3>3. values # <<>> /\ ReadyTurn = values
      BY <1>3, <3>2, SimpleStateAssumption, ReadyTurnMakesATable
    <3>4. IsIntact(place[n])
      BY <1>1, <1>3, <1>9, <3>2, <3>3 DEF FedAreIntact
    <3> QED
      BY <3>2, <3>4 DEF IsIntact
  <2> QED
    BY <2>1, <2>2
<1>10. FedAreIntact'
  BY <1>1, <1>9 DEF FedAreIntact, IsIntact
<1> QED
  BY <1>8, <1>10 DEF ArenaInv

LEMMA TakeArenaAndBeginIsSound ==
    ASSUME DeviceInv, Built, UNCHANGED schemaVars, plan' = plan, TakeArenaAndBegin
    PROVE  ArenaInv'
<1>1. /\ phase = "before" /\ phase' = "exec" /\ next' = 1 /\ turn' = turn
      /\ values' = ReadyTurn /\ TakeArena /\ UNCHANGED <<place, held>>
  BY DEF TakeArenaAndBegin, BeginExec
<1>2. /\ ArenaTypes /\ IsPlan(plan) /\ InputsAreFed
      /\ HeldAreSafe /\ FedAreIntact /\ ConstantsAreElsewhere
  BY DEF DeviceInv, TypedInv, SimpleInv, TypeOK, ArenaInv
<1>3. /\ storages' \in Seq([Partitions -> Written \cup {Absent}])
      /\ DOMAIN storages \subseteq DOMAIN storages' /\ arena' \in DOMAIN storages'
      /\ cache' = Absent \/ cache' \in [storage : DOMAIN storages', capacity : Nat]
      /\ \A s \in DOMAIN storages : s # arena' => storages'[s] = storages[s]
      /\ \A view \in held : view.storage # arena'
      /\ \A n \in Node : HasView(n) => place[n].storage # arena'
  BY <1>1, <1>2, NeededIsANumber, TakenArenaIsFree DEF DeviceInv, TypedInv
<1>4. /\ Partitions' = Partitions
      /\ \A n \in Node : (Const(n)' <=> Const(n)) /\ (Source(n)' <=> Source(n))
      /\ Steps' = Steps /\ Order' = Order
  BY TheSchemaStands
<1>5. \A view \in View : view \in View' /\ view.storage \in DOMAIN storages
  BY <1>3, <1>4 DEF View, Written
<1>7. \A view \in View : view.storage # arena' => (IsIntact(view)' <=> IsIntact(view))
  BY <1>3, <1>5 DEF IsIntact
<1>8. HeldAreSafe'
  <2>1. \A view \in held : view \in View /\ IsIntact(view) /\ view.storage # arena'
    BY <1>2, <1>3 DEF ArenaTypes, HeldAreSafe
  <2> QED
    BY <1>1, <1>7, <2>1 DEF HeldAreSafe
<1>9. ConstantsAreElsewhere' /\ FedAreIntact' /\ StepsAreNotPassed'
  BY <1>1, <1>2, <1>4, StepsAreNodes DEF ConstantsAreElsewhere, FedAreIntact, StepsAreNotPassed
<1>10. ValuesArePlaced'
  <2>1. ASSUME NEW n \in Node, Source(n), place[n] # Absent
        PROVE  IsFed(n)'
    <3>1. values # <<>> /\ values[n] = turn
      BY <1>1, <1>2, <2>1, InputsAreSources DEF InputsAreFed, InputIsSet
    <3>2. turn # Absent
      BY SimpleStateAssumption DEF DeviceInv, TypedInv, SimpleInv, TypeOK
    <3>3. IsIntact(place[n]) /\ place[n].storage # arena' /\ place[n] \in View
      BY <1>1, <1>2, <1>3, <2>1, <3>1, <3>2 DEF FedAreIntact, HasView, ArenaTypes
    <3> QED
      BY <1>1, <1>7, <3>3 DEF IsFed, IsIntact
  <2>2. \A n \in Node : ~Evaluated(n)'
    <3>1. \A j \in Steps : ~(j < 1)
      BY <1>2, StepsAreNodes
    <3> QED
      BY <1>1, <1>4, <3>1 DEF Evaluated
  <2> QED
    BY <1>1, <1>4, <2>1, <2>2 DEF ValuesArePlaced, IsPlaced
<1> QED
  BY <1>8, <1>9, <1>10 DEF ArenaInv

\* Which region a node may write while a value is still to be read: not its own.
LEMMA RegionsToReadAreKept ==
    ASSUME DeviceInv, Running, NEW b \in Node, NEW n \in Node,
           Evaluated(b), HasRegion(b), HasRegion(At(next)), ends[n] <= ends[b],
           next <= ends[n]
    PROVE  partition[b] # partition[At(next)]
<1> DEFINE w == At(next)
<1>1. /\ IsPlan(plan) /\ SchemaTypes /\ next \in Steps /\ w \in Node /\ Steps = 1 .. Len(Order)
      /\ Len(Order) \in Nat /\ Start(w) = next
  BY StepsAreNodes, StartIsThePosition, PlansAreDevicePlans
     DEF DeviceInv, TypedInv, SchemaInv, SchemaTypes, Running
<1>2. PICK j \in Steps : j < next /\ At(j) = b
  BY DEF Evaluated, At
<1>3. Start(b) = j
  BY <1>1, <1>2, StartIsThePosition
<1>4. b # w
  BY <1>1, <1>2, StepsAreNodes
<1>5. IsPlanned(w)
  BY <1>1 DEF DeviceInv, TypedInv, SchemaInv, PartitionsAreNumbered, LifetimesReachReaders, HasRegion
<1>6. ends[w] >= next
  <2>1. PICK k \in KeptUntil(w) : Start(w) <= k
    BY <1>1, <1>5, KeptUntilAreSteps
  <2>2. k <= ends[w] /\ k \in Nat /\ ends[w] \in Nat
    BY <1>1, <1>5, KeptUntilAreSteps DEF DeviceInv, TypedInv, SchemaInv, SchemaTypes, LifetimesReachReaders
  <2> QED
    BY <1>1, <2>1, <2>2
<1> HIDE DEF w
<1>7. ends[w] \in Nat /\ ends[n] \in Nat /\ ends[b] \in Nat /\ j \in Nat /\ next \in Nat
  BY <1>1, <1>2 DEF SchemaTypes
<1> SUFFICES ASSUME partition[b] = partition[w] PROVE FALSE
  BY DEF w
<1>8. Disjoint(w, b)
  BY <1>1, <1>4 DEF DeviceInv, TypedInv, SchemaInv, PartitionsAreDisjoint, HasRegion, w
<1> QED
  BY <1>1, <1>2, <1>3, <1>6, <1>7, <1>8 DEF Disjoint

\* What a step finds where its inputs are.
LEMMA ReadsArePlaced ==
    ASSUME DeviceInv, Running, NEW n \in Reads(next), place[n] # Absent
    PROVE  /\ n \in Node /\ IsPlaced(n) /\ IsIntact(place[n])
           /\ HasRegion(n) => next <= ends[n]
           /\ HasRegion(At(next)) =>
                 <<place[n].storage, place[n].region>> # <<arena, partition[At(next)]>>
<1>1. /\ IsPlan(plan) /\ SchemaTypes /\ next \in Steps /\ Steps = 1 .. Len(Order) /\ phase = "exec"
      /\ Len(Order) \in Nat /\ ArenaInv
  BY StepsAreNodes, PlansAreDevicePlans DEF DeviceInv, TypedInv, SchemaInv, SchemaTypes, Running
<1>2. n \in Node /\ (Source(n) \/ Evaluated(n))
  <2>1. n \in Needs(next)
    BY DEF Needs
  <2>2. n \in Node /\ (Const(n) \/ Source(n) \/ Evaluated(n))
    BY <1>1, <2>1, NeedsWereComputed
  <2> QED
    BY <1>1, <2>2 DEF ArenaInv, ConstantsAreElsewhere
<1>3. KeptUntil(n) # {} /\ \E k \in KeptUntil(n) : next <= k /\ k \in Nat
  BY <1>1 DEF KeptUntil, ReadersOf
<1>4. IsPlaced(n)
  BY <1>1, <1>2, <1>3 DEF ArenaInv, ValuesArePlaced
<1>5. HasRegion(n) => next <= ends[n]
  <2> SUFFICES ASSUME HasRegion(n) PROVE next <= ends[n]
    OBVIOUS
  <2>1. PICK k \in KeptUntil(n) : next <= k /\ k \in Nat
    BY <1>3
  <2>2. k <= ends[n]
    BY <1>2 DEF DeviceInv, TypedInv, SchemaInv, PartitionsAreNumbered, LifetimesReachReaders, HasRegion
  <2>3. ends[n] \in Nat /\ next \in Nat
    BY <1>1, <1>2 DEF SchemaTypes
  <2> QED
    BY <2>1, <2>2, <2>3
<1>6. next \in Nat /\ ends[n] \in Nat
  BY <1>1, <1>2 DEF SchemaTypes
<1>7. CASE IsFed(n)
  BY <1>2, <1>4, <1>5, <1>7 DEF IsFed
<1>8. ASSUME NEW b \in Node, IsWrittenBy(b, n)
      PROVE  /\ IsIntact(place[n])
             /\ HasRegion(At(next)) =>
                 <<place[n].storage, place[n].region>> # <<arena, partition[At(next)]>>
  <2>1. next <= ends[n]
    BY <1>5, <1>8 DEF IsWrittenBy
  <2>2. HasRegion(At(next)) => partition[b] # partition[At(next)]
    BY <1>2, <1>8, <2>1, RegionsToReadAreKept DEF IsWrittenBy
  <2>3. next <= ends[n] + 1
    BY <1>6, <2>1
  <2>4. place[n].region = partition[b] /\ IsIntact(place[n])
    BY <1>8, <2>3 DEF IsWrittenBy
  <2> QED
    BY <2>2, <2>4
<1> QED
  BY <1>2, <1>4, <1>5, <1>7, <1>8 DEF IsPlaced

LEMMA EvalOnDeviceIsSound ==
    ASSUME DeviceInv, ForwardersStayOnDevice, Built, UNCHANGED schemaVars, plan' = plan,
           EvalOnDevice
    PROVE  ArenaInv'
<1> DEFINE w == At(next)
           WillBeIntact(view) == storages'[view.storage][view.region] = view.written
<1>1. /\ phase = "exec" /\ phase' = "exec" /\ next \in Steps /\ next' = next + 1 /\ turn' = turn
      /\ Running /\ UNCHANGED <<cache, arena, held>>
      /\ HandOn(w) \/ Compute(w)
  BY DEF EvalOnDevice, EvalNode, Running
<1>2. /\ ArenaTypes /\ arena # Absent /\ turn \in Nat /\ next \in Nat
      /\ IsPlan(plan) /\ IsDevicePlan(plan) /\ SchemaTypes
      /\ HeldAreSafe /\ ValuesArePlaced /\ ConstantsAreElsewhere
  BY <1>1, PlansAreDevicePlans
     DEF DeviceInv, TypedInv, SimpleInv, TypeOK, ArenaInv, ArenaTypes, SchemaInv, SchemaTypes
<1>3. w \in Node /\ ~Const(w)
  BY <1>1, <1>2, StepsAreNodes
<1>4. /\ Partitions' = Partitions
      /\ \A n : HasRegion(n)' <=> HasRegion(n)
      /\ \A n : (Const(n)' <=> Const(n)) /\ (Source(n)' <=> Source(n))
      /\ \A n \in Node : KeptUntil(n)' = KeptUntil(n)
      /\ Order' = Order /\ Steps' = Steps /\ ends' = ends /\ partition' = partition
  BY TheSchemaStands DEF schemaVars
<1>5. /\ \A n \in Node : n # w => place'[n] = place[n]
      /\ Source(w) => place' = place
      /\ ~Source(w) => \/ w \in plan.forwards /\ place'[w] = place[ForwardedInput(w)]
                       \/ place'[w] = OwnView(w) /\ (HasRegion(w) => Write(w))
      /\ \A view \in View : ~(HasRegion(w) /\ view.storage = arena /\ view.region = partition[w])
                            => (WillBeIntact(view) <=> IsIntact(view))
      /\ HasRegion(w) /\ Write(w) => storages'[arena][partition[w]] = Region(w)
  BY EvalPutsOneValue DEF DeviceInv, TypedInv, IsIntact
<1>8. ConstantsAreElsewhere' /\ FedAreIntact' /\ HeldAreSafe' /\ StepsAreNotPassed'
  <2>1. ConstantsAreElsewhere' /\ StepsAreNotPassed'
    BY <1>1, <1>2, <1>3, <1>4, <1>5, StepsAreNodes DEF ConstantsAreElsewhere, StepsAreNotPassed
  <2>2. \A view \in held : IsIntact(view) /\ view.storage # arena /\ view \in View
    BY <1>2 DEF HeldAreSafe, ArenaTypes
  <2>3. \A view \in held : WillBeIntact(view) /\ view.storage # arena
    BY <1>5, <2>2
  <2> QED
    BY <1>1, <2>1, <2>3 DEF FedAreIntact, HeldAreSafe, IsIntact
<1>9. \A n : Evaluated(n)' <=> Evaluated(n) \/ n = w
  <2>1. \A k \in Steps : k < next + 1 <=> k < next \/ k = next
    BY <1>1, <1>2, StepsAreNodes
  <2>2. \A n : Evaluated(n)' <=> \E j \in Steps : j < next + 1 /\ Order[j] = n
    BY <1>1, <1>4 DEF Evaluated
  <2> QED
    BY <1>1, <2>1, <2>2 DEF Evaluated, At
<1>10. ASSUME NEW m \in Node, place[m] # Absent, IsPlaced(m)
       PROVE  \/ place[m].storage # arena /\ WillBeIntact(place[m])
              \/ \E b \in Node :
                    /\ Evaluated(b) /\ HasRegion(b) /\ HasRegion(m) /\ ends[m] <= ends[b]
                    /\ place[m] = [storage |-> arena, region |-> partition[b], written |-> Region(b)]
                    /\ next <= ends[m] => WillBeIntact(place[m])
  <2>0. place[m] \in View
    BY <1>2, <1>10 DEF ArenaTypes
  <2>1. CASE IsFed(m)
    BY <1>5, <2>0, <2>1 DEF IsFed
  <2>2. ASSUME NEW b \in Node, IsWrittenBy(b, m), next <= ends[m]
        PROVE  WillBeIntact(place[m])
    <3>1. IsIntact(place[m]) /\ place[m].region = partition[b]
      BY <1>2, <2>2 DEF IsWrittenBy, SchemaTypes
    <3>2. HasRegion(w) => partition[b] # partition[w]
      BY <1>1, <2>2, RegionsToReadAreKept DEF IsWrittenBy
    <3> QED
      BY <1>5, <2>0, <3>1, <3>2
  <2> HIDE DEF WillBeIntact
  <2> QED
    BY <1>10, <2>1, <2>2 DEF IsPlaced, IsWrittenBy
<1>11. ASSUME NEW n \in Node, KeptUntil(n) # {}, place'[n] # Absent, Source(n) \/ Evaluated(n) \/ n = w
       PROVE  \/ place'[n].storage # arena /\ WillBeIntact(place'[n])
              \/ \E b \in Node :
                    /\ Evaluated(b) \/ b = w
                    /\ HasRegion(b) /\ HasRegion(n) /\ ends[n] <= ends[b]
                    /\ place'[n] = [storage |-> arena, region |-> partition[b], written |-> Region(b)]
                    /\ next <= ends[n] => WillBeIntact(place'[n])
  <2>0. \A x \in Node : ends[x] \in Nat
    BY <1>2 DEF SchemaTypes
  <2>1. CASE n # w \/ Source(n)
    <3>1. place'[n] = place[n] /\ (Source(n) \/ Evaluated(n))
      BY <1>5, <1>11, <2>1
    <3>2. IsPlaced(n)
      BY <1>1, <1>2, <1>11, <3>1 DEF ValuesArePlaced
    <3> HIDE DEF WillBeIntact, w
    <3> QED
      BY <1>10, <1>11, <3>1, <3>2
  <2>2. CASE n = w /\ w \in plan.forwards /\ place'[w] = place[ForwardedInput(w)]
    <3> DEFINE m == ForwardedInput(w)
    <3>1. m \in Reads(next) /\ m \in Node /\ place[m] # Absent /\ place'[n] = place[m]
      BY <1>1, <1>2, <1>11, <2>2, ForwardedInputIsRead
    <3>2. IsPlaced(m)
      BY <1>1, <3>1, ReadsArePlaced
    <3>3. IsPlanned(n) /\ ends[n] # 0 /\ HasRegion(n)
      <4>1. n \in Ordered(plan) /\ n \in plan.device /\ plan.kind[n] = "op"
        BY <1>1, <1>2, <2>2, StepsAreNodes, ForwardedInputIsRead
      <4>2. ~CrossesToHost(n)
        BY <1>2, <1>3, <2>2 DEF ForwardersStayOnDevice, CrossesToHost, SchemaTypes
      <4>3. IsPlanned(n)
        BY <1>11, <4>1, <4>2 DEF IsPlanned
      <4>4. ends[n] # 0
        BY <4>3 DEF DeviceInv, TypedInv, SchemaInv, LifetimesReachReaders
      <4> QED
        BY <4>3, <4>4 DEF Built, Unplaced, HasRegion
    <3>4. ASSUME HasRegion(m) PROVE ends[n] <= ends[m]
      <4>1. cursor = 0 /\ ends[m] # 0
        BY <3>1, <3>4 DEF DeviceInv, TypedInv, SchemaInv, PartitionsAreNumbered, HasRegion
      <4>2. next > cursor
        BY <1>1, <1>2, <4>1, StepsAreNodes
      <4>3. LivesOn(next)
        BY <1>1, <4>2 DEF DeviceInv, TypedInv, SchemaInv, LifetimesAreForwarded
      <4> QED
        BY <2>0, <2>2, <3>1, <3>3, <4>1, <4>3 DEF LivesOn
    <3> HIDE DEF m, w, WillBeIntact
    <3>5. CASE place[m].storage # arena /\ WillBeIntact(place[m])
      BY <3>1, <3>5
    <3>6. ASSUME NEW b \in Node, Evaluated(b), HasRegion(b), HasRegion(m), ends[m] <= ends[b],
                 place[m] = [storage |-> arena, region |-> partition[b], written |-> Region(b)],
                 next <= ends[m] => WillBeIntact(place[m])
          PROVE  ends[n] <= ends[b] /\ (next <= ends[n] => WillBeIntact(place[m]))
      BY <1>2, <2>0, <3>1, <3>4, <3>6
    <3> QED
      BY <1>10, <3>1, <3>2, <3>3, <3>5, <3>6
  <2>3. CASE n = w /\ ~Source(w) /\ place'[w] = OwnView(w) /\ (HasRegion(w) => Write(w))
    <3>1. HasRegion(w) /\ Write(w)
      BY <1>11, <2>3 DEF OwnView
    <3>2. place'[n] = [storage |-> arena, region |-> partition[w], written |-> Region(w)]
      BY <2>3, <3>1 DEF OwnView
    <3>3. WillBeIntact(place'[n])
      BY <1>5, <3>1, <3>2
    <3> HIDE DEF WillBeIntact, w
    <3> QED
      BY <1>3, <2>0, <2>3, <3>1, <3>2, <3>3
  <2> QED
    BY <1>5, <2>1, <2>2, <2>3
<1>12. ValuesArePlaced'
  <2> HIDE DEF w
  <2>1. \A n \in Node : ends[n] \in Nat /\ (next + 1 <= ends[n] + 1 <=> next <= ends[n])
    BY <1>2 DEF SchemaTypes
  <2> SUFFICES ASSUME NEW n \in Node, KeptUntil(n) # {}, place'[n] # Absent,
                      Source(n) \/ Evaluated(n) \/ n = w
               PROVE  IsPlaced(n)'
    BY <1>1, <1>4, <1>9 DEF ValuesArePlaced
  <2>2. CASE place'[n].storage # arena /\ WillBeIntact(place'[n])
    BY <1>1, <2>2 DEF IsPlaced, IsFed, IsIntact
  <2>3. ASSUME NEW b \in Node, Evaluated(b) \/ b = w, HasRegion(b), HasRegion(n), ends[n] <= ends[b],
               place'[n] = [storage |-> arena, region |-> partition[b], written |-> Region(b)],
               next <= ends[n] => WillBeIntact(place'[n])
        PROVE  IsWrittenBy(b, n)'
    <3>1. Region(b)' = Region(b)
      BY <1>1 DEF Region
    <3>2. /\ Evaluated(b)' /\ HasRegion(b)' /\ HasRegion(n)' /\ ends'[n] <= ends'[b]
          /\ place'[n] = [storage |-> arena', region |-> partition'[b], written |-> Region(b)']
      BY <1>1, <1>4, <1>9, <2>3, <3>1
    <3>3. next' <= ends'[n] + 1 => WillBeIntact(place'[n])
      BY <1>1, <1>4, <2>1, <2>3
    <3> QED
      BY <3>2, <3>3 DEF IsWrittenBy, IsIntact
  <2> HIDE DEF WillBeIntact
  <2>4. \/ place'[n].storage # arena /\ WillBeIntact(place'[n])
        \/ \E b \in Node : IsWrittenBy(b, n)'
    BY <1>11, <2>3
  <2> QED
    BY <2>2, <2>4 DEF IsPlaced
<1> QED
  BY <1>8, <1>12 DEF ArenaInv

\* What a node that fails wrote is nobody's: the turn is over.
LEMMA EvalFailsOnDeviceIsSound ==
    ASSUME DeviceInv, Built, UNCHANGED schemaVars, plan' = plan, EvalFailsOnDevice
    PROVE  ArenaInv'
<1> DEFINE w == At(next)
<1>1. /\ phase = "exec" /\ phase' = "idle" /\ next \in Steps
      /\ UNCHANGED <<cache, arena, place, held>>
      /\ UNCHANGED storages \/ Write(w)
  BY DEF EvalFailsOnDevice, EvalFails, RefuseOutput, Abort, Running
<1>2. /\ ArenaTypes /\ arena # Absent /\ turn \in Nat /\ w \in Node
      /\ HeldAreSafe /\ ConstantsAreElsewhere
  BY <1>1, StepsAreNodes DEF DeviceInv, TypedInv, SimpleInv, TypeOK, ArenaInv, ArenaTypes
<1>3. /\ Partitions' = Partitions
      /\ \A n : Const(n)' <=> Const(n)
  BY TheSchemaStands
<1> HIDE DEF w
<1>4. /\ storages' \in Seq([Partitions -> Written \cup {Absent}])
      /\ DOMAIN storages' = DOMAIN storages
      /\ \A view \in View : view.storage # arena => (IsIntact(view)' <=> IsIntact(view))
  BY <1>1, <1>2, WritesStayInTheRegion
<1>6. HeldAreSafe'
  <2>1. \A view \in held : view \in View /\ IsIntact(view) /\ view.storage # arena
    BY <1>2 DEF ArenaTypes, HeldAreSafe
  <2> QED
    BY <1>1, <1>4, <2>1 DEF HeldAreSafe
<1>7. ConstantsAreElsewhere' /\ FedAreIntact' /\ ValuesArePlaced' /\ StepsAreNotPassed'
  BY <1>1, <1>2, <1>3
     DEF ConstantsAreElsewhere, FedAreIntact, ValuesArePlaced, StepsAreNotPassed
<1> QED
  BY <1>6, <1>7 DEF ArenaInv

\* What the caller is returned is kept to the end of the turn, and the arena with it.
LEMMA ReturnViewsIsSound ==
    ASSUME DeviceInv, Built, UNCHANGED schemaVars, plan' = plan, ReturnViews
    PROVE  ArenaInv'
<1>1. /\ phase = "exec" /\ phase' = "idle" /\ next > Len(Order)
      /\ held' = held \cup {place[n] : n \in {m \in plan.outputs : HasView(m)}}
      /\ arena' = Absent /\ UNCHANGED <<storages, cache, place>>
  BY DEF ReturnViews, FinishTurn
<1>2. /\ ArenaTypes /\ IsPlan(plan) /\ SchemaTypes /\ next \in Nat \ {0}
      /\ HeldAreSafe /\ ConstantsAreElsewhere /\ ValuesArePlaced
      /\ Steps = 1 .. Len(Order) /\ Len(Order) \in Nat
  BY StepsAreNodes, PlansAreDevicePlans
     DEF DeviceInv, TypedInv, SimpleInv, TypeOK, ArenaInv, SchemaInv, SchemaTypes
<1>3. /\ Partitions' = Partitions
      /\ \A n : Const(n)' <=> Const(n)
  BY TheSchemaStands
<1>4. ASSUME NEW n \in plan.outputs, place[n] # Absent
      PROVE  place[n] \in View /\ IsIntact(place[n])
  <2>1. n \in Node /\ ~Const(n) /\ place[n] \in View
    BY <1>2, <1>4, StepsAreNodes DEF ArenaTypes, ConstantsAreElsewhere
  <2>2. Evaluated(n)
    <3>1. PICK j \in Steps : At(j) = n
      BY <1>2, <2>1, PrecursorsComeBefore
    <3> QED
      BY <1>1, <1>2, <3>1 DEF Evaluated, At
  <2>3. KeptUntil(n) = {Len(Order)}
    BY DEF KeptUntil
  <2>4. IsPlaced(n)
    BY <1>1, <1>2, <1>4, <2>1, <2>2, <2>3 DEF ValuesArePlaced
  <2>5. ASSUME NEW b \in Node, IsWrittenBy(b, n) PROVE IsIntact(place[n])
    <3>1. Len(Order) <= ends[n]
      BY <2>1, <2>3, <2>5
         DEF IsWrittenBy, DeviceInv, TypedInv, SchemaInv, PartitionsAreNumbered, LifetimesReachReaders, HasRegion
    <3>2. next <= Len(Order) + 1
      BY <1>1 DEF DeviceInv, TypedInv, ArenaInv, StepsAreNotPassed
    <3>3. ends[n] \in Nat
      BY <1>2, <2>1 DEF SchemaTypes
    <3> QED
      BY <1>2, <2>5, <3>1, <3>2, <3>3 DEF IsWrittenBy
  <2> QED
    BY <2>1, <2>4, <2>5 DEF IsPlaced, IsFed
<1>5. /\ held' \subseteq View
      /\ \A view \in held' : IsIntact(view)
  <2>1. \A view \in held' : view \in held \/ \E n \in plan.outputs : view = place[n] /\ place[n] # Absent
    BY <1>1 DEF HasView
  <2> QED
    BY <1>2, <1>4, <2>1 DEF ArenaTypes, HeldAreSafe
<1>7. HeldAreSafe'
  <2>1. \A view \in View : view.storage # Absent
    BY <1>2, SimpleStateAssumption DEF View, ArenaTypes
  <2> QED
    BY <1>1, <1>5, <2>1 DEF HeldAreSafe, IsIntact
<1>8. ConstantsAreElsewhere' /\ FedAreIntact' /\ ValuesArePlaced' /\ StepsAreNotPassed'
  BY <1>1, <1>2, <1>3
     DEF ConstantsAreElsewhere, FedAreIntact, ValuesArePlaced, StepsAreNotPassed
<1> QED
  BY <1>7, <1>8 DEF ArenaInv

LEMMA CloneOnDeviceIsSound ==
    ASSUME DeviceInv, Built, UNCHANGED schemaVars, plan' = plan, CloneOnDevice
    PROVE  ArenaInv'
<1>1. phase' = "idle" /\ cache' = Absent /\ arena' = Absent /\ UNCHANGED <<storages, place, held>>
  BY DEF CloneOnDevice, Clone
<1>2. ArenaTypes /\ ConstantsAreElsewhere /\ HeldAreSafe
  BY DEF DeviceInv, TypedInv, ArenaInv
<1>3. /\ Partitions' = Partitions
      /\ \A n : Const(n)' <=> Const(n)
  BY TheSchemaStands
<1>5. HeldAreSafe'
  <2>1. \A view \in View : view.storage # Absent
    BY <1>2, SimpleStateAssumption DEF View, ArenaTypes
  <2> QED
    BY <1>1, <1>2, <2>1 DEF ArenaTypes, HeldAreSafe, IsIntact
<1>6. ConstantsAreElsewhere' /\ FedAreIntact' /\ ValuesArePlaced' /\ StepsAreNotPassed'
  BY <1>1, <1>2, <1>3
     DEF ConstantsAreElsewhere, FedAreIntact, ValuesArePlaced, StepsAreNotPassed
<1> QED
  BY <1>5, <1>6 DEF ArenaInv

LEMMA DropViewIsSound ==
    ASSUME DeviceInv, Built, UNCHANGED schemaVars, plan' = plan, NEW view \in held, DropView(view)
    PROVE  ArenaInv'
<1>1. /\ held' \subseteq held
      /\ UNCHANGED <<storages, cache, arena, place, phase, next, turn, values>>
  BY DEF DropView, vars
<1>2. ArenaInv
  BY DEF DeviceInv, TypedInv
<1>3. /\ Partitions' = Partitions
      /\ \A n : (Const(n)' <=> Const(n)) /\ (Source(n)' <=> Source(n))
      /\ \A n : HasRegion(n)' <=> HasRegion(n)
      /\ \A n \in Node : KeptUntil(n)' = KeptUntil(n)
      /\ Order' = Order /\ Steps' = Steps /\ ends' = ends /\ partition' = partition
  BY TheSchemaStands DEF schemaVars
<1>4. ConstantsAreElsewhere' /\ HeldAreSafe' /\ FedAreIntact' /\ StepsAreNotPassed'
  BY <1>1, <1>2, <1>3
     DEF ArenaInv, ConstantsAreElsewhere, HeldAreSafe, FedAreIntact,
         StepsAreNotPassed, IsIntact
<1>5. ValuesArePlaced'
  <2>1. \A n : IsPlaced(n)' <=> IsPlaced(n)
    BY <1>1, <1>3 DEF IsPlaced, IsFed, IsWrittenBy, Evaluated, IsIntact, Region
  <2>2. \A n : Evaluated(n)' <=> Evaluated(n)
    BY <1>1, <1>3 DEF Evaluated
  <2> QED
    BY <1>1, <1>2, <1>3, <2>1, <2>2 DEF ArenaInv, ValuesArePlaced
<1> QED
  BY <1>4, <1>5 DEF ArenaInv

-----------------------------------------------------------------------------
(* The theorems.                                                            *)

LEMMA DeviceStepIsSound ==
    ASSUME ForwardersStayOnDevice, DeviceInv, [DeviceNext]_deviceVars
    PROVE  DeviceInv'
<1>1. TypedInv' /\ plan' = plan
  BY TypesAreKept, DeviceStepsRunThePlan DEF DeviceInv, TypedInv
<1>2. ArenaInv'
  <2>1. CASE UNCHANGED deviceVars
    BY <2>1, StutteringIsSound
  <2>2. CASE PlanMemory
    BY <2>2, PlanMemoryIsSound
  <2>3. CASE Run
    <3>1. Built /\ UNCHANGED schemaVars
      BY <2>3 DEF Run
    <3>2. CASE ((BeginTurn \/ ResolveStates \/ Over) /\ Elsewhere) \/ FailedTurn
      <4>1. Elsewhere
        BY <3>2 DEF FailedTurn
      <4> QED
        BY <1>1, <3>1, <3>2, <4>1, QuietStepsAreSound
    <3>3. ASSUME NEW extent \in Extent, FeedInput(extent) PROVE ArenaInv'
      BY <1>1, <3>1, <3>3, FeedInputIsSound
    <3>4. CASE TakeArenaAndBegin
      BY <1>1, <3>1, <3>4, TakeArenaAndBeginIsSound
    <3>5. CASE EvalOnDevice
      BY <1>1, <3>1, <3>5, EvalOnDeviceIsSound
    <3>6. CASE EvalFailsOnDevice
      BY <1>1, <3>1, <3>6, EvalFailsOnDeviceIsSound
    <3>7. CASE ReturnViews
      BY <1>1, <3>1, <3>7, ReturnViewsIsSound
    <3>8. CASE CloneOnDevice
      BY <1>1, <3>1, <3>8, CloneOnDeviceIsSound
    <3>9. ASSUME NEW view \in held, DropView(view) PROVE ArenaInv'
      BY <1>1, <3>1, <3>9, DropViewIsSound
    <3> QED
      BY <2>3, <3>2, <3>3, <3>4, <3>5, <3>6, <3>7, <3>8, <3>9 DEF Run
  <2> QED
    BY <2>1, <2>2, <2>3 DEF DeviceNext
<1> QED
  BY <1>1, <1>2 DEF DeviceInv, TypedInv

\* DeviceInvariant: what holds of every reachable state on a device, for every
\* plan whose forwarders are read by device ops.
THEOREM DeviceInvariant ==
    ASSUME ForwardersStayOnDevice
    PROVE  DeviceSpec => []DeviceInv
<1>1. DeviceInit => DeviceInv
  BY DeviceInitIsSound
<1>2. DeviceInv /\ [DeviceNext]_deviceVars => DeviceInv'
  BY DeviceStepIsSound
<1> QED
  BY <1>1, <1>2, PTL DEF DeviceSpec

\* ReadsAlwaysIntact: a step finds in its inputs' memory what was written for it,
\* and never writes where it reads.
THEOREM ReadsAlwaysIntact ==
    ASSUME ForwardersStayOnDevice
    PROVE  DeviceSpec => []ReadsAreIntact
<1>1. DeviceInv => ReadsAreIntact
  BY ReadsArePlaced DEF ReadsAreIntact, HasView
<1> QED
  BY <1>1, DeviceInvariant, PTL

\* HeldViewsAlwaysIntact: what callers hold keeps its contents, whatever turns
\* run, fail, and reuse the arena meanwhile.
THEOREM HeldViewsAlwaysIntact ==
    ASSUME ForwardersStayOnDevice
    PROVE  DeviceSpec => []HeldViewsAreIntact
<1>1. DeviceInv => HeldViewsAreIntact
  BY DEF DeviceInv, TypedInv, ArenaInv, HeldAreSafe, HeldViewsAreIntact
<1> QED
  BY <1>1, DeviceInvariant, PTL

\* ForwardedMemoryIsAlwaysKept: what the documentation of forwards_input says of
\* the producer's memory is true when forwarders are read by device ops only.
THEOREM ForwardedMemoryIsAlwaysKept ==
    ASSUME ForwardersStayOnDevice
    PROVE  DeviceSpec => []ForwardedMemoryIsKept
<1>1. DeviceInv => ForwardedMemoryIsKept
  BY ReadsArePlaced DEF ForwardedMemoryIsKept, HasView
<1> QED
  BY <1>1, DeviceInvariant, PTL
===============================================================================
