---------------------------- MODULE EvalOrderProofs ----------------------------
(***************************************************************************)
(* The orders that EvalOrder finds are plans, and it finds one whenever it *)
(* should.                                                                 *)
(***************************************************************************)
EXTENDS EvalOrder, OrderLemmas, FiniteSetTheorems, TLAPS

-----------------------------------------------------------------------------
(* The operators of EvalOrder.                                              *)

\* Reach is a fold, and a fold has a value.
Closer(step, set) == set \cup UNION {step[n] : n \in set}
Reaches(f, from, step) ==
    f = [k \in 0 .. NodeCount |-> IF k = 0 THEN from ELSE Closer(step, f[k - 1])]
LEMMA ReachIsFolded ==
  ASSUME NEW from, NEW step
  PROVE  \E f : Reaches(f, from, step) /\ Reach(from, step) = f[NodeCount]
<1> DEFINE Body(f, k) == IF k = 0 THEN from ELSE Closer(step, f[k - 1])
           Folds(f, m) == f = [k \in 0 .. m |-> Body(f, k)]
           Bad == {m \in Nat : ~\E f : Folds(f, m)}
<1>1. Bad = {}
  <2> SUFFICES ASSUME Bad # {} PROVE FALSE
    OBVIOUS
  <2>1. PICK m \in Bad : \A k \in Bad : m <= k
    <3> HIDE DEF Folds
    <3>1. Bad \in SUBSET Nat
      OBVIOUS
    <3> HIDE DEF Bad
    <3> QED
      BY <3>1, LeastElement
  <2>2. CASE m = 0
    <3>1. Folds([k \in 0 .. 0 |-> from], 0)
      OBVIOUS
    <3> QED
      BY <2>2, <3>1
  <2>3. CASE m # 0
    <3>1. m - 1 \in Nat /\ m - 1 \notin Bad /\ m \in Nat
      <4> HIDE DEF Folds
      <4>1. m \in Nat
        OBVIOUS
      <4> HIDE DEF Bad
      <4> QED
        BY <2>1, <2>3, <4>1
    <3>2. PICK f : Folds(f, m - 1)
      BY <3>1
    <3> DEFINE g == [k \in 0 .. m |-> IF k = m THEN Body(f, m) ELSE f[k]]
    <3>3. \A k \in 0 .. m : g[k] = Body(g, k)
      <4> TAKE k \in 0 .. m
      <4>1. CASE k = 0
        BY <2>3, <3>1, <3>2, <4>1
      <4>2. CASE k # 0
        <5>1. k - 1 \in 0 .. (m - 1) /\ k \in Nat
          BY <3>1, <4>2
        <5>2. g[k - 1] = f[k - 1]
          BY <3>1, <5>1
        <5>3. g[k] = Body(f, k)
          BY <3>1, <3>2, <4>2
        <5> QED
          BY <4>2, <5>2, <5>3
      <4> QED
        BY <4>1, <4>2
    <3>4. Folds(g, m)
      BY <3>3
    <3> QED
      BY <2>1, <3>4
  <2> QED
    BY <2>2, <2>3
<1>2. NodeCount \notin Bad /\ NodeCount \in Nat
  BY <1>1, EvalOrderAssumption
<1>3. \E f : Folds(f, NodeCount)
  BY <1>2
<1>4. Folds(CHOOSE f : Folds(f, NodeCount), NodeCount)
  BY <1>3
<1>5. Reach(from, step) = (CHOOSE f : Folds(f, NodeCount))[NodeCount]
  BY DEF Reach, Closer
<1> QED
  BY <1>4, <1>5 DEF Reaches

\* What Reach finds: the least set that has the start and is closed.
LEMMA ReachIsTheClosure ==
  ASSUME NEW from \in SUBSET Node, NEW step \in [Node -> SUBSET Node]
  PROVE  /\ Reach(from, step) \subseteq Node /\ from \subseteq Reach(from, step)
         /\ \A n \in Reach(from, step) : step[n] \subseteq Reach(from, step)
         /\ \A T : from \subseteq T /\ (\A n \in T \cap Node : step[n] \subseteq T)
                  => Reach(from, step) \subseteq T
<1>1. PICK f : Reaches(f, from, step) /\ Reach(from, step) = f[NodeCount]
  BY ReachIsFolded
<1>2. /\ NodeCount \in Nat /\ f[0] = from
      /\ \A k \in 0 .. NodeCount : k # 0 => f[k] = Closer(step, f[k - 1])
  BY <1>1, EvalOrderAssumption DEF Reaches
<1>3. ASSUME NEW T, from \subseteq T, \A n \in T \cap Node : step[n] \subseteq T
      PROVE  \A k \in 0 .. NodeCount : f[k] \subseteq T \cap Node
  <2> DEFINE Bad == {k \in 0 .. NodeCount : ~(f[k] \subseteq T \cap Node)}
  <2> SUFFICES ASSUME Bad # {} PROVE FALSE
    OBVIOUS
  <2>1. Bad \in SUBSET Nat
    OBVIOUS
  <2>2. PICK k \in Bad : \A j \in Bad : k <= j
    <3> HIDE DEF Bad
    <3> QED
      BY <2>1, LeastElement
  <2>3. k \in 0 .. NodeCount /\ ~(f[k] \subseteq T \cap Node)
    OBVIOUS
  <2>4. k # 0
    BY <1>2, <1>3, <2>3
  <2>5. k - 1 \in 0 .. NodeCount /\ k - 1 \notin Bad
    <3> HIDE DEF Bad
    <3> QED
      BY <1>2, <2>2, <2>3, <2>4
  <2>6. f[k - 1] \subseteq T \cap Node
    BY <2>5
  <2>7. f[k] = Closer(step, f[k - 1])
    BY <1>2, <2>3, <2>4
  <2> QED
    BY <1>3, <2>3, <2>6, <2>7 DEF Closer
<1>4. \A k \in 0 .. NodeCount : f[k] \subseteq Node
  <2>1. \A n \in Node \cap Node : step[n] \subseteq Node
    OBVIOUS
  <2> QED
    BY <1>3, <2>1
<1>5. \A k \in 0 .. NodeCount : IsFiniteSet(f[k]) /\ Cardinality(f[k]) \in 0 .. NodeCount
  <2>1. IsFiniteSet(Node) /\ Cardinality(Node) = NodeCount
    BY <1>2, FS_Interval DEF Node
  <2> TAKE k \in 0 .. NodeCount
  <2>2. f[k] \in SUBSET Node
    BY <1>4
  <2>3. IsFiniteSet(f[k]) /\ Cardinality(f[k]) \in Nat /\ Cardinality(f[k]) <= NodeCount
    BY <2>1, <2>2, FS_Subset, FS_CardinalityType
  <2> QED
    BY <1>2, <2>3
<1> DEFINE Closed(k) == \A n \in f[k] : step[n] \subseteq f[k]
<1>6. ASSUME NEW k \in 0 .. NodeCount, k # NodeCount
      PROVE  /\ f[k] \subseteq f[k + 1]
             /\ Closed(k) => f[k + 1] = f[k]
             /\ ~Closed(k) => Cardinality(f[k + 1]) > Cardinality(f[k])
  <2>1. k + 1 \in 0 .. NodeCount /\ k + 1 # 0 /\ (k + 1) - 1 = k
    BY <1>2, <1>6
  <2>2. f[k + 1] = Closer(step, f[k])
    BY <1>2, <2>1
  <2>3. f[k] \subseteq f[k + 1] /\ (Closed(k) <=> f[k + 1] = f[k])
    BY <2>2 DEF Closer
  <2>4. f[k] # f[k + 1] => Cardinality(f[k + 1]) > Cardinality(f[k])
    <3>1. IsFiniteSet(f[k + 1]) /\ Cardinality(f[k + 1]) \in Nat /\ Cardinality(f[k]) \in Nat
      BY <1>5, <2>1
    <3> QED
      BY <2>3, <3>1, FS_Subset
  <2> QED
    BY <2>3, <2>4
<1>7. Closed(NodeCount)
  <2> SUFFICES ASSUME ~Closed(NodeCount) PROVE FALSE
    OBVIOUS
  <2>1. \A k \in 0 .. NodeCount : k # NodeCount /\ Closed(k) => Closed(k + 1)
    BY <1>6
  <2> HIDE DEF Closed
  <2>2. \A k \in 0 .. NodeCount : ~Closed(k)
    <3> DEFINE Bad == {j \in 0 .. NodeCount : Closed(NodeCount - j)}
    <3> SUFFICES ASSUME Bad # {} PROVE FALSE
      <4> SUFFICES ASSUME NEW k \in 0 .. NodeCount, Closed(k) PROVE FALSE
        OBVIOUS
      <4>1. NodeCount - k \in 0 .. NodeCount /\ NodeCount - (NodeCount - k) = k
        BY <1>2
      <4> QED
        BY <4>1
    <3>1. Bad \in SUBSET Nat
      OBVIOUS
    <3>2. PICK j \in Bad : \A i \in Bad : j <= i
      <4> HIDE DEF Bad
      <4> QED
        BY <3>1, LeastElement
    <3>3. j \in 0 .. NodeCount /\ Closed(NodeCount - j)
      OBVIOUS
    <3>4. j # 0
      BY <1>2, <3>3
    <3>5. /\ NodeCount - j \in 0 .. NodeCount /\ NodeCount - j # NodeCount
          /\ (NodeCount - j) + 1 = NodeCount - (j - 1) /\ j - 1 \in 0 .. NodeCount
      BY <1>2, <3>3, <3>4
    <3>6. Closed(NodeCount - (j - 1))
      BY <2>1, <3>3, <3>5
    <3>7. j - 1 \in Bad
      BY <3>5, <3>6
    <3> HIDE DEF Bad
    <3> QED
      BY <3>2, <3>3, <3>7
  <2> DEFINE Bad == {k \in 0 .. NodeCount : ~(Cardinality(f[k]) >= k + 1)}
  <2>3. CASE Bad = {}
    <3>1. NodeCount \in 0 .. NodeCount
      BY <1>2
    <3>2. Cardinality(f[NodeCount]) >= NodeCount + 1
      BY <2>3, <3>1
    <3> QED
      BY <1>2, <1>5, <3>1, <3>2
  <2>4. CASE Bad # {}
    <3>1. Bad \in SUBSET Nat
      OBVIOUS
    <3>2. PICK k \in Bad : \A i \in Bad : k <= i
      <4> HIDE DEF Bad
      <4> QED
        BY <2>4, <3>1, LeastElement
    <3>3. k \in 0 .. NodeCount /\ ~(Cardinality(f[k]) >= k + 1)
      OBVIOUS
    <3>4. k # 0
      <4>1. 0 \in 0 .. NodeCount
        BY <1>2
      <4>2. f[0] # {}
        BY <2>2, <4>1 DEF Closed
      <4>3. Cardinality(f[0]) # 0
        BY <1>5, <4>1, <4>2, FS_EmptySet
      <4>4. Cardinality(f[0]) >= 0 + 1
        BY <1>5, <4>1, <4>3
      <4> QED
        BY <3>3, <4>4
    <3>5. /\ k - 1 \in 0 .. NodeCount /\ k - 1 # NodeCount
          /\ (k - 1) + 1 = k /\ k \in Nat /\ ~(k <= k - 1)
      BY <1>2, <3>3, <3>4
    <3>6. k - 1 \notin Bad
      <4> HIDE DEF Bad
      <4> QED
        BY <3>2, <3>5
    <3>7. Cardinality(f[k - 1]) >= (k - 1) + 1
      BY <3>5, <3>6
    <3>8. Cardinality(f[k]) > Cardinality(f[k - 1])
      BY <1>6, <2>2, <3>5
    <3>9. Cardinality(f[k]) \in Nat /\ Cardinality(f[k - 1]) \in Nat
      BY <1>5, <3>3, <3>5
    <3> HIDE DEF Bad
    <3> QED
      BY <3>3, <3>5, <3>7, <3>8, <3>9
  <2> QED
    BY <2>3, <2>4
<1>8. NodeCount \in 0 .. NodeCount /\ 0 \in 0 .. NodeCount /\ Reach(from, step) = f[NodeCount]
  BY <1>1, <1>2
<1>9. from \subseteq f[NodeCount]
  <2> DEFINE Bad == {k \in 0 .. NodeCount : ~(from \subseteq f[k])}
  <2>1. Bad = {}
    <3> SUFFICES ASSUME Bad # {} PROVE FALSE
      OBVIOUS
    <3>1. Bad \in SUBSET Nat
      OBVIOUS
    <3>2. PICK k \in Bad : \A i \in Bad : k <= i
      <4> HIDE DEF Bad
      <4> QED
        BY <3>1, LeastElement
    <3>3. k \in 0 .. NodeCount /\ ~(from \subseteq f[k])
      OBVIOUS
    <3>4. k # 0
      BY <1>2, <3>3
    <3>5. /\ k - 1 \in 0 .. NodeCount /\ k - 1 # NodeCount
          /\ (k - 1) + 1 = k /\ ~(k <= k - 1)
      BY <1>2, <3>3, <3>4
    <3>6. k - 1 \notin Bad
      <4> HIDE DEF Bad
      <4> QED
        BY <3>2, <3>5
    <3>7. from \subseteq f[k - 1] /\ f[k - 1] \subseteq f[k]
      BY <1>6, <3>5, <3>6
    <3> QED
      BY <3>3, <3>7
  <2> QED
    BY <1>8, <2>1
<1>10. ASSUME NEW T, from \subseteq T, \A n \in T \cap Node : step[n] \subseteq T
       PROVE  f[NodeCount] \subseteq T
  BY <1>3, <1>8, <1>10
<1>11. f[NodeCount] \subseteq Node
  BY <1>4, <1>8
<1> QED
  BY <1>7, <1>8, <1>9, <1>10, <1>11

\* Only is a fold too: the elements that are in the set, in order.
Filters(f, seq, set) ==
    f = [i \in 0 .. Len(seq) |->
            IF i = 0 THEN <<>>
            ELSE IF seq[i] \in set THEN Append(f[i - 1], seq[i]) ELSE f[i - 1]]
LEMMA OnlyIsFolded ==
  ASSUME NEW S, NEW seq \in Seq(S), NEW set
  PROVE  \E f : Filters(f, seq, set) /\ Only(seq, set) = f[Len(seq)]
<1> DEFINE Body(f, k) == IF k = 0 THEN <<>>
                         ELSE IF seq[k] \in set THEN Append(f[k - 1], seq[k]) ELSE f[k - 1]
           Folds(f, m) == f = [k \in 0 .. m |-> Body(f, k)]
           Bad == {m \in Nat : ~\E f : Folds(f, m)}
<1>1. Bad = {}
  <2> SUFFICES ASSUME Bad # {} PROVE FALSE
    OBVIOUS
  <2>1. PICK m \in Bad : \A k \in Bad : m <= k
    <3> HIDE DEF Folds
    <3>1. Bad \in SUBSET Nat
      OBVIOUS
    <3> HIDE DEF Bad
    <3> QED
      BY <3>1, LeastElement
  <2>2. CASE m = 0
    <3>1. Folds([k \in 0 .. 0 |-> <<>>], 0)
      OBVIOUS
    <3> QED
      BY <2>2, <3>1
  <2>3. CASE m # 0
    <3>1. m - 1 \in Nat /\ m - 1 \notin Bad /\ m \in Nat
      <4> HIDE DEF Folds
      <4>1. m \in Nat
        OBVIOUS
      <4> HIDE DEF Bad
      <4> QED
        BY <2>1, <2>3, <4>1
    <3>2. PICK f : Folds(f, m - 1)
      BY <3>1
    <3> DEFINE g == [k \in 0 .. m |-> IF k = m THEN Body(f, m) ELSE f[k]]
    <3>3. \A k \in 0 .. m : g[k] = Body(g, k)
      <4> TAKE k \in 0 .. m
      <4>1. CASE k = 0
        BY <2>3, <3>1, <3>2, <4>1
      <4>2. CASE k # 0
        <5>1. k - 1 \in 0 .. (m - 1) /\ k \in Nat
          BY <3>1, <4>2
        <5>2. g[k - 1] = f[k - 1]
          BY <3>1, <5>1
        <5>3. g[k] = Body(f, k)
          <6> HIDE DEF Body
          <6>1. k = m \/ k \in 0 .. (m - 1)
            BY <3>1
          <6> QED
            BY <3>2, <6>1
        <5> QED
          BY <4>2, <5>2, <5>3
      <4> QED
        BY <4>1, <4>2
    <3>4. Folds(g, m)
      BY <3>3
    <3> QED
      BY <2>1, <3>4
  <2> QED
    BY <2>2, <2>3
<1>2. Len(seq) \notin Bad /\ Len(seq) \in Nat
  BY <1>1
<1>3. \E f : Folds(f, Len(seq))
  BY <1>2
<1>4. Folds(CHOOSE f : Folds(f, Len(seq)), Len(seq))
  BY <1>3
<1>5. Only(seq, set) = (CHOOSE f : Folds(f, Len(seq)))[Len(seq)]
  BY DEF Only
<1> QED
  BY <1>4, <1>5 DEF Filters

\* The places of what a filter keeps.
Selects(s, seq, set, i, place) ==
    /\ place \in [1 .. Len(s) -> 1 .. i]
    /\ \A j \in 1 .. Len(s) : s[j] = seq[place[j]] /\ s[j] \in set
    /\ \A j, k \in 1 .. Len(s) : j < k => place[j] < place[k]
    /\ \A h \in 1 .. i : seq[h] \in set => \E j \in 1 .. Len(s) : place[j] = h

LEMMA OnlyKeeps ==
  ASSUME NEW S, NEW seq \in Seq(S), NEW set
  PROVE  /\ Only(seq, set) \in Seq(S)
         /\ \E place : Selects(Only(seq, set), seq, set, Len(seq), place)
<1>1. PICK f : Filters(f, seq, set) /\ Only(seq, set) = f[Len(seq)]
  BY OnlyIsFolded
<1>2. /\ f[0] = <<>>
      /\ \A i \in 1 .. Len(seq) :
            f[i] = IF seq[i] \in set THEN Append(f[i - 1], seq[i]) ELSE f[i - 1]
  <2>1. 0 \in 0 .. Len(seq) /\ \A i \in 1 .. Len(seq) : i \in 0 .. Len(seq) /\ i # 0
    OBVIOUS
  <2>2. f[0] = <<>>
    BY <1>1, <2>1 DEF Filters
  <2>3. ASSUME NEW i \in 1 .. Len(seq)
        PROVE  f[i] = IF seq[i] \in set THEN Append(f[i - 1], seq[i]) ELSE f[i - 1]
    <3> DEFINE Body(k) == IF k = 0 THEN <<>>
                          ELSE IF seq[k] \in set THEN Append(f[k - 1], seq[k]) ELSE f[k - 1]
    <3>1. f = [k \in 0 .. Len(seq) |-> Body(k)]
      BY <1>1 DEF Filters
    <3>2. f[i] = Body(i)
      <4> HIDE DEF Body
      <4> QED
        BY <2>1, <3>1
    <3> QED
      BY <2>1, <3>2
  <2> QED
    BY <2>2, <2>3
<1> DEFINE Good(i) == f[i] \in Seq(S) /\ \E place : Selects(f[i], seq, set, i, place)
           Bad == {i \in 0 .. Len(seq) : ~Good(i)}
<1>3. Good(0)
  <2>1. Selects(<<>>, seq, set, 0, [j \in 1 .. 0 |-> 0])
    BY DEF Selects
  <2> QED
    BY <1>2, <2>1
<1>4. ASSUME NEW i \in 1 .. Len(seq), Good(i - 1) PROVE Good(i)
  <2>1. seq[i] \in S /\ i \in Nat /\ i # 0 /\ f[i - 1] \in Seq(S)
    BY <1>4
  <2>2. PICK place : Selects(f[i - 1], seq, set, i - 1, place)
    BY <1>4
  <2>3. CASE seq[i] \notin set
    <3>1. f[i] = f[i - 1]
      BY <1>2, <2>3
    <3>2. Selects(f[i - 1], seq, set, i, place)
      <4>1. \A h \in 1 .. i - 1 : h \in 1 .. i
        BY <2>1
      <4>2. \A h \in 1 .. i : h = i \/ h \in 1 .. i - 1
        BY <2>1
      <4>3. place \in [1 .. Len(f[i - 1]) -> 1 .. i]
        BY <2>2, <4>1 DEF Selects
      <4> QED
        BY <2>2, <2>3, <4>2, <4>3 DEF Selects
    <3> QED
      BY <2>1, <3>1, <3>2
  <2>4. CASE seq[i] \in set
    <3> DEFINE len == Len(f[i - 1])
               more == [j \in 1 .. len + 1 |-> IF j = len + 1 THEN i ELSE place[j]]
    <3>1. f[i] = Append(f[i - 1], seq[i])
      BY <1>2, <2>4
    <3>2. /\ f[i] \in Seq(S) /\ Len(f[i]) = len + 1 /\ len \in Nat
          /\ \A j \in 1 .. len : f[i][j] = f[i - 1][j]
          /\ f[i][len + 1] = seq[i]
      BY <2>1, <3>1
    <3>3. /\ \A j \in 1 .. len + 1 : j = len + 1 \/ (j \in 1 .. len /\ j # len + 1)
          /\ len + 1 \in 1 .. len + 1 /\ \A j \in 1 .. len : j \in 1 .. len + 1 /\ j # len + 1
      BY <3>2
    <3>4. more[len + 1] = i /\ \A j \in 1 .. len : more[j] = place[j] /\ place[j] \in 1 .. i - 1
      BY <2>2, <3>3 DEF Selects
    <3>5. more \in [1 .. len + 1 -> 1 .. i]
      <4>1. i \in 1 .. i /\ \A j \in 1 .. len : place[j] \in 1 .. i
        <5>1. i \in 1 .. i
          BY <2>1
        <5>2. ASSUME NEW j \in 1 .. len PROVE place[j] \in 1 .. i
          <6>1. place[j] \in 1 .. i - 1
            <7> HIDE DEF len, more
            <7> QED
              BY <3>4
          <6> QED
            BY <2>1, <6>1
        <5> QED
          BY <5>1, <5>2
      <4>2. more = [j \in 1 .. len + 1 |-> more[j]]
        OBVIOUS
      <4>3. \A j \in 1 .. len + 1 : more[j] \in 1 .. i
        <5> HIDE DEF len, more
        <5> QED
          BY <3>3, <3>4, <4>1
      <4> HIDE DEF len, more
      <4> QED
        BY <4>2, <4>3
    <3> HIDE DEF len, more
    <3>6. \A j \in 1 .. len + 1 : f[i][j] = seq[more[j]] /\ f[i][j] \in set
      BY <2>2, <2>4, <3>2, <3>3, <3>4 DEF Selects, len
    <3>7. ASSUME NEW j \in 1 .. len + 1, NEW k \in 1 .. len + 1, j < k PROVE more[j] < more[k]
      <4>1. j \in 1 .. len
        BY <3>2, <3>7
      <4>2. CASE k = len + 1
        BY <2>1, <3>4, <4>1, <4>2
      <4>3. CASE k # len + 1
        <5>1. k \in 1 .. len
          BY <3>3, <4>3
        <5>2. place[j] < place[k]
          BY <2>2, <3>7, <4>1, <5>1 DEF Selects, len
        <5> QED
          BY <3>4, <4>1, <5>1, <5>2
      <4> QED
        BY <4>2, <4>3
    <3>8. ASSUME NEW h \in 1 .. i, seq[h] \in set PROVE \E j \in 1 .. len + 1 : more[j] = h
      <4>1. CASE h = i
        BY <3>3, <3>4, <4>1
      <4>2. CASE h # i
        <5>1. h \in 1 .. i - 1
          BY <2>1, <4>2
        <5>2. PICK j \in 1 .. len : place[j] = h
          BY <2>2, <3>8, <5>1 DEF Selects, len
        <5> QED
          BY <3>3, <3>4, <5>2
      <4> QED
        BY <4>1, <4>2
    <3>9. Selects(f[i], seq, set, i, more)
      BY <3>2, <3>5, <3>6, <3>7, <3>8 DEF Selects
    <3> QED
      BY <3>2, <3>9
  <2> QED
    BY <2>3, <2>4
<1>5. Bad = {}
  <2> SUFFICES ASSUME Bad # {} PROVE FALSE
    OBVIOUS
  <2>1. Bad \in SUBSET Nat
    OBVIOUS
  <2> HIDE DEF Good
  <2>2. PICK i \in Bad : \A h \in Bad : i <= h
    <3> HIDE DEF Bad
    <3> QED
      BY <2>1, LeastElement
  <2>3. i \in 0 .. Len(seq) /\ ~Good(i)
    OBVIOUS
  <2>4. i \in 1 .. Len(seq) /\ i - 1 \in 0 .. Len(seq) /\ ~(i <= i - 1)
    BY <1>3, <2>3
  <2>5. Good(i - 1)
    <3>1. i - 1 \notin Bad
      <4> HIDE DEF Bad
      <4> QED
        BY <2>2, <2>4
    <3> QED
      BY <2>4, <3>1
  <2> HIDE DEF Bad
  <2> QED
    BY <1>4, <2>3, <2>4, <2>5
<1> QED
  <2>1. Len(seq) \in 0 .. Len(seq)
    OBVIOUS
  <2> QED
    BY <1>1, <1>5, <2>1

\* What a filter leaves of the range.
LEMMA OnlyRange ==
  ASSUME NEW S, NEW seq \in Seq(S), NEW set
  PROVE  Only(seq, set) \in Seq(S) /\ Range(Only(seq, set)) = Range(seq) \cap set
<1>1. Only(seq, set) \in Seq(S)
  BY OnlyKeeps
<1>2. PICK place : Selects(Only(seq, set), seq, set, Len(seq), place)
  BY OnlyKeeps
<1>3. DOMAIN Only(seq, set) = 1 .. Len(Only(seq, set)) /\ DOMAIN seq = 1 .. Len(seq)
  BY <1>1
<1>4. Range(Only(seq, set)) \subseteq Range(seq) \cap set
  BY <1>2, <1>3 DEF Selects, Range
<1>5. Range(seq) \cap set \subseteq Range(Only(seq, set))
  BY <1>2, <1>3 DEF Selects, Range
<1> QED
  BY <1>1, <1>4, <1>5

LEMMA AscendingElements ==
  ASSUME NEW n \in Nat, NEW K, \A k \in K : k \in 1 .. n
  PROVE  /\ IsFiniteSet(K) /\ Cardinality(K) \in Nat
         /\ Ascending(K) \in Seq(K) /\ DOMAIN Ascending(K) = 1 .. Cardinality(K)
         /\ Range(Ascending(K)) = K
<1> DEFINE Upto(i) == {k \in K : k <= i}
           IsAt(i, j) == Cardinality(Upto(i)) = j
<1>1. /\ IsFiniteSet(K) /\ Cardinality(K) \in Nat
      /\ \A j \in 1 .. Cardinality(K) : \E i \in K : IsAt(i, j)
  BY Ranks
<1>2. Ascending(K) = [j \in 1 .. Cardinality(K) |-> CHOOSE i \in K : IsAt(i, j)]
  BY DEF Ascending
<1> HIDE DEF IsAt
<1>3. ASSUME NEW j \in 1 .. Cardinality(K)
      PROVE  Ascending(K)[j] \in K /\ IsAt(Ascending(K)[j], j)
  <2>1. \E i \in K : IsAt(i, j)
    BY <1>1
  <2>2. Ascending(K)[j] = CHOOSE i \in K : IsAt(i, j)
    BY <1>2
  <2> QED
    BY <2>1, <2>2
<1>4. DOMAIN Ascending(K) = 1 .. Cardinality(K) /\ Ascending(K) \in [1 .. Cardinality(K) -> K]
  <2>1. Ascending(K) = [j \in 1 .. Cardinality(K) |-> Ascending(K)[j]]
    BY <1>2
  <2> QED
    BY <1>3, <2>1
<1>5. Ascending(K) \in Seq(K)
  BY <1>1, <1>4
<1>6. ASSUME NEW i \in K PROVE i \in Range(Ascending(K))
  <2>1. Upto(i) \in SUBSET K /\ i \in Upto(i) /\ i \in Nat
    OBVIOUS
  <2>2. IsFiniteSet(Upto(i)) /\ Cardinality(Upto(i)) \in Nat /\ Cardinality(Upto(i)) <= Cardinality(K)
    <3> HIDE DEF Upto
    <3> QED
      BY <1>1, <2>1, FS_Subset, FS_CardinalityType
  <2>3. Cardinality(Upto(i)) # 0
    <3>1. Upto(i) # {}
      BY <2>1
    <3> HIDE DEF Upto
    <3> QED
      BY <2>2, <3>1, FS_EmptySet
  <2> DEFINE j == Cardinality(Upto(i))
             h == Ascending(K)[j]
  <2>4. j \in 1 .. Cardinality(K)
    <3> HIDE DEF Upto
    <3> QED
      BY <1>1, <2>2, <2>3
  <2>5. h \in K /\ Cardinality(Upto(h)) = Cardinality(Upto(i)) /\ h \in Nat
    <3>1. h \in K /\ IsAt(h, j)
      <4> HIDE DEF j
      <4> QED
        BY <1>3, <2>4
    <3> QED
      BY <3>1 DEF IsAt
  <2> HIDE DEF h
  <2>6. h = i
    <3>1. CASE h < i
      <4>0. \A k \in K : k \in Nat
        OBVIOUS
      <4>1. Upto(h) \in SUBSET Upto(i) /\ i \notin Upto(h)
        <5>1. i \notin Upto(h) /\ \A k \in Upto(h) : k <= i /\ k \in K
          BY <2>1, <2>5, <3>1, <4>0
        <5> QED
          BY <5>1
      <4>2. Upto(h) # Upto(i)
        BY <2>1, <4>1
      <4> HIDE DEF Upto
      <4>3. Cardinality(Upto(h)) <= Cardinality(Upto(i)) /\ Cardinality(Upto(h)) # Cardinality(Upto(i))
        BY <2>2, <4>1, <4>2, FS_Subset
      <4> QED
        BY <2>2, <2>5, <4>3
    <3>2. CASE i < h
      <4>0. \A k \in K : k \in Nat
        OBVIOUS
      <4>1. Upto(i) \in SUBSET Upto(h) /\ h \notin Upto(i) /\ h \in Upto(h)
        <5>1. h \notin Upto(i) /\ \A k \in Upto(i) : k <= h /\ k \in K
          BY <2>1, <2>5, <3>2, <4>0
        <5>2. h \in Upto(h)
          BY <2>5
        <5> QED
          BY <5>1, <5>2
      <4>2. Upto(h) # Upto(i) /\ Upto(h) \in SUBSET K
        BY <2>1, <4>1
      <4> HIDE DEF Upto
      <4>3. IsFiniteSet(Upto(h))
        BY <1>1, <4>2, FS_Subset
      <4>4. Cardinality(Upto(i)) # Cardinality(Upto(h))
        BY <4>1, <4>2, <4>3, FS_Subset
      <4> QED
        BY <2>2, <2>5, <4>4
    <3> QED
      BY <2>1, <2>5, <3>1, <3>2
  <2> QED
    <3> HIDE DEF j
    <3>1. i = Ascending(K)[j]
      BY <2>6 DEF h
    <3> QED
      BY <1>4, <2>4, <3>1 DEF Range
<1>7. Range(Ascending(K)) \subseteq K
  BY <1>3, <1>4 DEF Range
<1> QED
  BY <1>1, <1>4, <1>5, <1>6, <1>7

-----------------------------------------------------------------------------
\* The stack without its top, and the top (Vec::pop).
LEMMA FrontElements ==
  ASSUME NEW S, NEW seq \in Seq(S), seq # <<>>
  PROVE  /\ Front(seq) \in Seq(S) /\ Len(Front(seq)) = Len(seq) - 1
         /\ \A i \in 1 .. Len(seq) - 1 : Front(seq)[i] = seq[i]
         /\ Len(seq) \in 1 .. Len(seq) /\ Len(seq) \in Nat
         /\ Last(seq) = seq[Len(seq)] /\ Last(seq) \in S
         /\ DOMAIN seq = 1 .. Len(seq) /\ DOMAIN Front(seq) = 1 .. Len(seq) - 1
<1>1. /\ DOMAIN seq = 1 .. Len(seq) /\ Len(seq) \in 1 .. Len(seq) /\ Len(seq) \in Nat
      /\ Len(seq) - 1 \in Nat /\ \A i \in 1 .. Len(seq) - 1 : i \in 1 .. Len(seq)
      /\ \A i \in 1 .. Len(seq) : seq[i] \in S
  OBVIOUS
<1>2. Front(seq) = [i \in 1 .. Len(seq) - 1 |-> seq[i]]
  <2>1. SubSeq(seq, 1, Len(seq) - 1) = [i \in 1 .. Len(seq) - 1 |-> seq[i]]
    BY <1>1
  <2> QED
    BY <2>1 DEF Front
<1>3. Front(seq) \in [1 .. Len(seq) - 1 -> S]
  BY <1>1, <1>2
<1>4. Front(seq) \in Seq(S) /\ Len(Front(seq)) = Len(seq) - 1
  <2>1. \A m \in Nat : \A f \in [1 .. m -> S] : f \in Seq(S) /\ Len(f) = m
    OBVIOUS
  <2> QED
    BY <1>1, <1>3, <2>1
<1> QED
  BY <1>1, <1>2, <1>4 DEF Last

\* The elements of two sequences put end to end.
LEMMA RangeOfConcat ==
  ASSUME NEW S, NEW seq \in Seq(S), NEW other \in Seq(S)
  PROVE  /\ seq \o other \in Seq(S)
         /\ Range(seq \o other) = Range(seq) \cup Range(other)
<1>1. /\ seq \o other \in Seq(S) /\ Len(seq \o other) = Len(seq) + Len(other)
      /\ \A i \in 1 .. Len(seq) : (seq \o other)[i] = seq[i]
      /\ \A i \in 1 .. Len(other) : (seq \o other)[Len(seq) + i] = other[i]
  OBVIOUS
<1>2. /\ \A i \in 1 .. Len(seq) + Len(other) :
            i \in 1 .. Len(seq) \/ (i - Len(seq) \in 1 .. Len(other) /\ Len(seq) + (i - Len(seq)) = i)
      /\ \A i \in 1 .. Len(seq) : i \in 1 .. Len(seq) + Len(other)
      /\ \A i \in 1 .. Len(other) : Len(seq) + i \in 1 .. Len(seq) + Len(other)
  OBVIOUS
<1>3. /\ DOMAIN seq = 1 .. Len(seq) /\ DOMAIN other = 1 .. Len(other)
      /\ DOMAIN (seq \o other) = 1 .. Len(seq) + Len(other)
  BY <1>1
<1>4. Range(seq \o other) \subseteq Range(seq) \cup Range(other)
  <2> SUFFICES ASSUME NEW i \in 1 .. Len(seq) + Len(other)
               PROVE  (seq \o other)[i] \in Range(seq) \cup Range(other)
    BY <1>3 DEF Range
  <2>1. CASE i \in 1 .. Len(seq)
    BY <1>1, <1>3, <2>1 DEF Range
  <2>2. CASE i - Len(seq) \in 1 .. Len(other) /\ Len(seq) + (i - Len(seq)) = i
    <3>1. (seq \o other)[i] = other[i - Len(seq)]
      BY <1>1, <2>2
    <3> QED
      BY <1>3, <2>2, <3>1 DEF Range
  <2> QED
    BY <1>2, <2>1, <2>2
<1>5. Range(seq) \subseteq Range(seq \o other)
  BY <1>1, <1>2, <1>3 DEF Range
<1>6. Range(other) \subseteq Range(seq \o other)
  <2> SUFFICES ASSUME NEW i \in 1 .. Len(other) PROVE other[i] \in Range(seq \o other)
    BY <1>3 DEF Range
  <2>1. (seq \o other)[Len(seq) + i] = other[i] /\ Len(seq) + i \in DOMAIN (seq \o other)
    BY <1>1, <1>2, <1>3
  <2> QED
    BY <2>1 DEF Range
<1> QED
  BY <1>1, <1>4, <1>5, <1>6

LEMMA RangeOfAppend ==
  ASSUME NEW S, NEW seq \in Seq(S), NEW e \in S
  PROVE  /\ Append(seq, e) \in Seq(S) /\ Len(Append(seq, e)) = Len(seq) + 1
         /\ Range(Append(seq, e)) = Range(seq) \cup {e}
         /\ DOMAIN seq = 1 .. Len(seq) /\ DOMAIN Append(seq, e) = 1 .. Len(seq) + 1
         /\ \A i \in 1 .. Len(seq) : Append(seq, e)[i] = seq[i]
         /\ Append(seq, e)[Len(seq) + 1] = e
<1>1. /\ Append(seq, e) \in Seq(S) /\ Len(Append(seq, e)) = Len(seq) + 1
      /\ DOMAIN seq = 1 .. Len(seq) /\ DOMAIN Append(seq, e) = 1 .. Len(seq) + 1
      /\ \A i \in 1 .. Len(seq) : Append(seq, e)[i] = seq[i]
      /\ Append(seq, e)[Len(seq) + 1] = e
  OBVIOUS
<1>2. /\ \A i \in 1 .. Len(seq) + 1 : i \in 1 .. Len(seq) \/ i = Len(seq) + 1
      /\ \A i \in 1 .. Len(seq) : i \in 1 .. Len(seq) + 1
      /\ Len(seq) + 1 \in 1 .. Len(seq) + 1
  OBVIOUS
<1>3. Range(Append(seq, e)) \subseteq Range(seq) \cup {e}
  BY <1>1, <1>2 DEF Range
<1>4. Range(seq) \cup {e} \subseteq Range(Append(seq, e))
  BY <1>1, <1>2 DEF Range
<1> QED
  BY <1>1, <1>3, <1>4

-----------------------------------------------------------------------------
(* The invariant.  In two words: a walk keeps a path of nodes on its stack, *)
(* all of whose passed precursors are in order; and the third order keeps   *)
(* exact what the choice of the next node reads.                            *)

Prec == [n \in Node |-> Precursors(n)]
Wanted == Reach(Range(model.outputs), Before)
BaseWanted == Reach(Range(model.outputs), WiredBefore)

Typed ==
    /\ model \in Models
    /\ phase \in {"base", "walk", "ram", "built", "failed", "panicked"}
    /\ at \in Nat \ {0} /\ at <= Len(model.outputs) + Len(model.inputs) + 1
    /\ Walking => at <= Len(model.outputs) + 1
    /\ phase = "ram" => at <= Len(model.inputs) + 1
    /\ stack \in Seq([node : Node, next : Nat \ {0}])
    /\ \A i \in DOMAIN stack : stack[i].next <= Len(Prec[stack[i].node]) + 1
    /\ pending \subseteq Node /\ candidates \subseteq Node /\ toCompute \subseteq Node
    /\ order \in Seq(Node) /\ done \subseteq Node
    /\ phase # "built" => done = Range(order)
    /\ after \in [Node -> Seq(Node)]
    /\ DOMAIN cache \subseteq Node /\ cache \in [DOMAIN cache -> SUBSET Node]

\* Each node after what comes before it, once.
InOrder(seq, before) ==
    /\ IsInjective(seq)
    /\ \A i \in DOMAIN seq : before[seq[i]] \subseteq {seq[j] : j \in 1 .. i - 1}
OrderInv == phase \in {"base", "walk", "ram"} => InOrder(order, Before)

StackInv ==
    Walking =>
        /\ done \subseteq Wanted
        /\ \A i \in DOMAIN stack : stack[i].node \in Wanted \ done
        /\ \A i \in DOMAIN stack : \A k \in 1 .. stack[i].next - 1 : Prec[stack[i].node][k] \in done
        /\ \A i \in 1 .. Len(stack) - 1 :
                /\ stack[i].node \notin Range(model.inputs)
                /\ stack[i].next <= Len(Prec[stack[i].node])
                /\ stack[i + 1].node = Prec[stack[i].node][stack[i].next]
        /\ pending = {stack[i].node : i \in 2 .. Len(stack)}
        /\ \A i, j \in 2 .. Len(stack) : stack[i].node = stack[j].node => i = j
        /\ \A k \in 1 .. at - 1 :
                \/ model.outputs[k] \in done
                \/ stack # <<>> /\ stack[1].node = model.outputs[k]

\* What an order that minds memory takes for granted: the inputs of a model
\* are sources, each its own, and what a source mentions is in its shape.
InputsAreSources ==
    \A g \in Models :
        /\ IsInjective(g.inputs)
        /\ \A n \in Range(g.inputs) : g.wires[n] = <<>> /\ g.mentions[n] \subseteq g.shapes[n]

\* Inputs wait for nothing.
InputsInv == \A n \in Range(model.inputs) : model.wires[n] = <<>> /\ Range(after[n]) = {}

\* What is known of the derived dependencies.
AfterInv ==
    /\ phase = "base" => after = [n \in Node |-> <<>>]
    /\ \A n \in Node : \A d \in Range(after[n]) :
           /\ n \in BaseWanted /\ d \in BaseWanted /\ d # n
           /\ n \notin Ancestors[d] /\ ~IsInput(d)

Minters(s) == {n \in model.mints \cap BaseWanted : s \in model.shapes[n]}
IsCarried(s) == \E n \in Range(model.inputs) : s \in model.shapes[n]

DefinersInv ==
    phase \in {"walk", "ram", "built"} =>
        \A s \in Symbol :
            Minters(s) # {} /\ ~IsCarried(s) =>
                \E d \in Minters(s) : \A n \in BaseWanted :
                    IsMentioned(n, s) => \/ d = n \/ d \in Range(model.wires[n])
                                         \/ n \in Ancestors[d] \/ d \in Range(after[n])

\* What comes before, for the third order, is well founded.
RamInv ==
    phase = "ram" =>
        /\ toCompute = Wanted
        /\ \A T \in SUBSET Node : T # {} => \E n \in T : Ups(n) \cap T = {}
        /\ done \subseteq toCompute
        /\ candidates \subseteq toCompute \ done
        /\ \A n \in toCompute \ done : Ups(n) \cap done # {} => n \in candidates
        /\ DOMAIN cache \subseteq candidates
        /\ \A c \in DOMAIN cache : cache[c] = Starters(c)
        /\ at <= Len(model.inputs) => done \subseteq {model.inputs[k] : k \in 1 .. at - 1}

-----------------------------------------------------------------------------
(* What the definitions of EvalOrder yield.                                 *)

LEMMA MinIsLeast ==
  ASSUME NEW T \in SUBSET Nat, T # {}
  PROVE  Min(T) \in T /\ \A y \in T : Min(T) <= y
<1>1. \E x \in T : \A y \in T : x <= y
  BY LeastElement
<1> QED
  BY <1>1 DEF Min

\* Nodes and symbols are numbers.
LEMMA NodesAreNumbers ==
  /\ Node \in SUBSET Nat /\ IsFiniteSet(Node) /\ NodeCount \in Nat
  /\ Symbol \in SUBSET Nat /\ SymbolCount \in Nat
  /\ \A T \in SUBSET Node : IsFiniteSet(T) /\ Cardinality(T) \in Nat
<1>1. NodeCount \in Nat /\ SymbolCount \in Nat
  BY EvalOrderAssumption
<1>2. IsFiniteSet(Node)
  BY <1>1, FS_Interval DEF Node
<1>3. \A T \in SUBSET Node : IsFiniteSet(T) /\ Cardinality(T) \in Nat
  BY <1>2, FS_Subset, FS_CardinalityType
<1> QED
  BY <1>1, <1>2, <1>3 DEF Node, Symbol

LEMMA PrecursorsAreNodes ==
  ASSUME model \in Models, after \in [Node -> Seq(Node)]
  PROVE  /\ Prec \in [Node -> Seq(Node)]
         /\ \A n \in Node :
                /\ Prec[n] = Precursors(n) /\ model.wires[n] \in Seq(Node)
                /\ Range(Prec[n]) = Range(model.wires[n]) \cup Range(after[n])
                /\ Range(model.wires[n]) \in SUBSET Node /\ Range(after[n]) \in SUBSET Node
<1>1. model.wires \in [Node -> Seq(Node)]
  BY EvalOrderAssumption DEF IsModel
<1>2. ASSUME NEW n \in Node
      PROVE  /\ Precursors(n) \in Seq(Node) /\ model.wires[n] \in Seq(Node)
             /\ Range(Precursors(n)) = Range(model.wires[n]) \cup Range(after[n])
             /\ Range(model.wires[n]) \in SUBSET Node /\ Range(after[n]) \in SUBSET Node
  <2> DEFINE wired == Only(model.wires[n], Node \ Leaves)
             leaves == Only(model.wires[n], Leaves)
  <2>1. model.wires[n] \in Seq(Node) /\ after[n] \in Seq(Node)
    BY <1>1
  <2>2. /\ wired \in Seq(Node) /\ Range(wired) = Range(model.wires[n]) \cap (Node \ Leaves)
        /\ leaves \in Seq(Node) /\ Range(leaves) = Range(model.wires[n]) \cap Leaves
    BY <2>1, OnlyRange
  <2>3. Range(model.wires[n]) \in SUBSET Node /\ Range(after[n]) \in SUBSET Node
    BY <2>1 DEF Range
  <2> DEFINE both == wired \o after[n]
  <2> HIDE DEF wired, leaves
  <2>4. both \in Seq(Node) /\ Range(both) = Range(wired) \cup Range(after[n])
    BY <2>1, <2>2, RangeOfConcat
  <2>5. Precursors(n) = both \o leaves
    BY DEF Precursors, wired, leaves
  <2> HIDE DEF both
  <2>6. /\ both \o leaves \in Seq(Node)
        /\ Range(both \o leaves) = Range(both) \cup Range(leaves)
    BY <2>2, <2>4, RangeOfConcat
  <2>7. Range(Precursors(n)) = Range(model.wires[n]) \cup Range(after[n])
    BY <2>2, <2>3, <2>4, <2>5, <2>6
  <2> QED
    BY <2>1, <2>3, <2>5, <2>6, <2>7
<1> QED
  BY <1>2 DEF Prec

LEMMA BeforeIsNodes ==
  ASSUME model \in Models, after \in [Node -> Seq(Node)]
  PROVE  /\ Before \in [Node -> SUBSET Node] /\ WiredBefore \in [Node -> SUBSET Node]
         /\ \A n \in Node : n \in Range(model.inputs) => Before[n] = {} /\ WiredBefore[n] = {}
         /\ \A n \in Node : n \notin Range(model.inputs) =>
                /\ Before[n] = Range(Prec[n]) /\ WiredBefore[n] = Range(model.wires[n])
                /\ Before[n] = WiredBefore[n] \cup Range(after[n])
<1>1. \A n \in Node :
          /\ Prec[n] = Precursors(n)
          /\ Range(Prec[n]) = Range(model.wires[n]) \cup Range(after[n])
          /\ Range(model.wires[n]) \in SUBSET Node /\ Range(after[n]) \in SUBSET Node
  BY PrecursorsAreNodes
<1>2. \A n \in Node : /\ Before[n] = IF n \in Range(model.inputs) THEN {} ELSE Range(Precursors(n))
                      /\ WiredBefore[n] = IF n \in Range(model.inputs) THEN {} ELSE Range(model.wires[n])
  BY DEF Before, WiredBefore, IsInput
<1>3. \A n \in Node : Before[n] \in SUBSET Node /\ WiredBefore[n] \in SUBSET Node
  BY <1>1, <1>2
<1>4. Before \in [Node -> SUBSET Node] /\ WiredBefore \in [Node -> SUBSET Node]
  BY <1>3 DEF Before, WiredBefore
<1> QED
  BY <1>1, <1>2, <1>4

\* The definer of a symbol is the first that claims it.
LEMMA DefinerIsFirst ==
  ASSUME model \in Models, order \in Seq(Node), NEW s, Claims(s) # {}
  PROVE  /\ Definer(s) \in Node /\ s \in model.shapes[Definer(s)]
         /\ \A i \in DOMAIN model.inputs :
                s \in model.shapes[model.inputs[i]] => IsInput(Definer(s))
         /\ IsInput(Definer(s)) \/ (Definer(s) \in model.mints \cap Range(order))
<1>1. model.inputs \in Seq(Node) /\ model.shapes \in [Node -> SUBSET Symbol]
  BY EvalOrderAssumption DEF IsModel
<1>2. Claimants \in Seq(Node)
  BY <1>1, RangeOfConcat DEF Claimants
<1>3. Claims(s) \in SUBSET Nat
  BY <1>2 DEF Claims
<1> DEFINE i == Min(Claims(s))
<1>4. i \in Claims(s) /\ \A k \in Claims(s) : i <= k
  BY <1>3, MinIsLeast
<1> HIDE DEF i
<1>5. Definer(s) = Claimants[i]
  BY DEF Definer, i
<1>6. /\ i \in DOMAIN Claimants /\ s \in model.shapes[Claimants[i]]
      /\ i > Len(model.inputs) => Claimants[i] \in model.mints
  BY <1>4 DEF Claims
<1>7. DOMAIN Claimants = 1 .. Len(model.inputs) + Len(order)
  BY <1>1 DEF Claimants
<1>8. /\ \A k \in 1 .. Len(model.inputs) : Claimants[k] = model.inputs[k]
      /\ \A k \in 1 .. Len(order) : Claimants[Len(model.inputs) + k] = order[k]
      /\ DOMAIN model.inputs = 1 .. Len(model.inputs) /\ DOMAIN order = 1 .. Len(order)
      /\ Len(model.inputs) \in Nat /\ Len(order) \in Nat
  BY <1>1 DEF Claimants
<1>9. ASSUME NEW k \in DOMAIN model.inputs, s \in model.shapes[model.inputs[k]]
      PROVE  IsInput(Definer(s))
  <2>1. k \in 1 .. Len(model.inputs) /\ k \in Nat
    BY <1>8
  <2>2. k \in DOMAIN Claimants /\ ~(k > Len(model.inputs))
    BY <1>7, <1>8, <2>1
  <2>3. k \in Claims(s)
    BY <1>8, <1>9, <2>1, <2>2 DEF Claims
  <2>4. i \in 1 .. Len(model.inputs)
    BY <1>4, <1>6, <1>7, <1>8, <2>1, <2>3
  <2> QED
    BY <1>5, <1>8, <2>4 DEF IsInput, Range
<1>10. ASSUME ~IsInput(Definer(s)) PROVE Definer(s) \in model.mints \cap Range(order)
  <2>1. i \notin 1 .. Len(model.inputs)
    BY <1>5, <1>8, <1>10 DEF IsInput, Range
  <2>2. /\ i \in Nat /\ i > Len(model.inputs) /\ i - Len(model.inputs) \in 1 .. Len(order)
        /\ Len(model.inputs) + (i - Len(model.inputs)) = i
    BY <1>6, <1>7, <1>8, <2>1
  <2>3. Claimants[i] = order[i - Len(model.inputs)]
    BY <1>8, <2>2
  <2>4. Claimants[i] \in model.mints
    BY <1>6, <2>2
  <2> QED
    BY <1>5, <1>8, <2>2, <2>3, <2>4 DEF Range
<1> QED
  BY <1>2, <1>5, <1>6, <1>9, <1>10

LEMMA DefinersAreNodes ==
  ASSUME model \in Models, order \in Seq(Node), NEW n \in Node
  PROVE  /\ DefinersFor(n) \in Seq(Node)
         /\ \A d \in Range(DefinersFor(n)) : \E s \in Symbol : Waits(n, s) /\ d = Definer(s)
         /\ \A s \in Symbol : Waits(n, s) => Definer(s) \in Range(DefinersFor(n))
<1> DEFINE waited == {s \in Symbol : Waits(n, s)}
           first == {s \in waited : \A t \in waited : Definer(t) = Definer(s) => s <= t}
           symbols == Ascending(first)
<1>1. \A k \in first : k \in 1 .. SymbolCount
  BY DEF Symbol
<1>2. SymbolCount \in Nat
  BY EvalOrderAssumption
<1>3. /\ Cardinality(first) \in Nat /\ symbols \in Seq(first)
      /\ DOMAIN symbols = 1 .. Cardinality(first) /\ Range(symbols) = first
  <2> HIDE DEF first
  <2> QED
    BY <1>1, <1>2, AscendingElements
<1>4. ASSUME NEW s \in waited PROVE Definer(s) \in Node
  <2>1. Claims(s) # {}
    BY DEF Waits
  <2> QED
    BY <2>1, DefinerIsFirst
<1>5. ASSUME NEW s \in waited PROVE \E t \in first : Definer(t) = Definer(s)
  <2> DEFINE same == {t \in waited : Definer(t) = Definer(s)}
  <2>1. same \in SUBSET Nat /\ same # {}
    BY NodesAreNumbers
  <2>2. PICK t \in same : \A u \in same : t <= u
    <3> HIDE DEF same
    <3> QED
      BY <2>1, LeastElement
  <2>3. t \in first
    BY <2>2
  <2> QED
    BY <2>2, <2>3
<1>6. DefinersFor(n) = [i \in DOMAIN symbols |-> Definer(symbols[i])]
  BY DEF DefinersFor
<1>7. \A i \in 1 .. Cardinality(first) : symbols[i] \in first
  <2> HIDE DEF first, symbols
  <2> QED
    BY <1>3 DEF Range
<1>8. \A s \in first : \E i \in 1 .. Cardinality(first) : s = symbols[i]
  <2> HIDE DEF first, symbols
  <2> QED
    BY <1>3 DEF Range
<1> HIDE DEF symbols
<1>9. first \subseteq waited
  OBVIOUS
<1> HIDE DEF first, waited
<1>10. DefinersFor(n) \in [1 .. Cardinality(first) -> Node]
  BY <1>3, <1>4, <1>6, <1>7, <1>9
<1>11. DefinersFor(n) \in Seq(Node)
  <2>1. \A m \in Nat : \A f \in [1 .. m -> Node] : f \in Seq(Node)
    OBVIOUS
  <2> QED
    BY <1>3, <1>10, <2>1
<1>12. Range(DefinersFor(n)) = {Definer(s) : s \in first}
  BY <1>3, <1>6, <1>7, <1>8 DEF Range
<1>13. \A s : s \in waited <=> s \in Symbol /\ Waits(n, s)
  BY DEF waited
<1> QED
  BY <1>5, <1>9, <1>11, <1>12, <1>13

\* What can be reached without a node that leads nowhere.
LEMMA ReachWithout ==
  ASSUME NEW from \in SUBSET Node, NEW step \in [Node -> SUBSET Node],
         NEW less \in [Node -> SUBSET Node], NEW x \in Node \ from,
         step[x] = {}, \A n \in Node : less[n] = step[n] \ {x}
  PROVE  Reach(from, less) = Reach(from, step) \ {x}
<1> DEFINE R == Reach(from, step)
           L == Reach(from, less)
<1>1. /\ R \subseteq Node /\ from \subseteq R /\ \A n \in R : step[n] \subseteq R
      /\ \A T : from \subseteq T /\ (\A n \in T \cap Node : step[n] \subseteq T) => R \subseteq T
  BY ReachIsTheClosure
<1>2. /\ L \subseteq Node /\ from \subseteq L /\ \A n \in L : less[n] \subseteq L
      /\ \A T : from \subseteq T /\ (\A n \in T \cap Node : less[n] \subseteq T) => L \subseteq T
  BY ReachIsTheClosure
<1> HIDE DEF R, L
<1>3. L \subseteq R \ {x}
  <2>1. from \subseteq R \ {x}
    BY <1>1
  <2>2. \A n \in (R \ {x}) \cap Node : less[n] \subseteq R \ {x}
    BY <1>1
  <2> QED
    BY <1>2, <2>1, <2>2
<1>4. R \subseteq L \cup {x}
  <2>1. from \subseteq L \cup {x}
    BY <1>2
  <2>2. \A n \in (L \cup {x}) \cap Node : step[n] \subseteq L \cup {x}
    BY <1>2
  <2> QED
    BY <1>1, <2>1, <2>2
<1> QED
  BY <1>3, <1>4 DEF R, L

Upstream == [m \in Node |-> Ups(m) \ done]

LEMMA UpsAreNodes ==
  ASSUME Typed
  PROVE  /\ Upstream \in [Node -> SUBSET Node]
         /\ \A n \in Node : Ups(n) \in SUBSET Node /\ Upstream[n] = Ups(n) \ done
<1>1. \A n \in Node : Range(model.wires[n]) \in SUBSET Node /\ Range(after[n]) \in SUBSET Node
  BY PrecursorsAreNodes DEF Typed
<1>2. \A n \in Node : Ups(n) \in SUBSET Node
  BY <1>1 DEF Ups
<1> QED
  BY <1>2 DEF Upstream

LEMMA StartersAreUpstream ==
  ASSUME Typed, NEW c \in Node
  PROVE  /\ Starters(c) = {n \in Reach({c}, Upstream) : Ups(n) = {}}
         /\ Starters(c) \in SUBSET Node
<1>1. Starters(c) = {n \in Reach({c}, Upstream) : Ups(n) = {}}
  BY DEF Starters, Upstream
<1>2. Reach({c}, Upstream) \subseteq Node
  BY UpsAreNodes, ReachIsTheClosure
<1> QED
  BY <1>1, <1>2

LEMMA BestIsCandidate ==
  ASSUME Typed
  PROVE  /\ DOMAIN Known = DOMAIN cache \cup candidates
         /\ Known \in [DOMAIN Known -> SUBSET Node]
         /\ \A c \in DOMAIN Known : Known[c] = IF c \in DOMAIN cache THEN cache[c] ELSE Starters(c)
         /\ candidates # {} => Best \in candidates
<1>1. /\ DOMAIN Known = DOMAIN cache \cup candidates
      /\ \A c \in DOMAIN Known : Known[c] = IF c \in DOMAIN cache THEN cache[c] ELSE Starters(c)
  BY DEF Known
<1>2. \A c \in DOMAIN Known : Known[c] \in SUBSET Node
  <2>1. \A c \in DOMAIN Known : c \in Node
    BY <1>1 DEF Typed
  <2> QED
    BY <1>1, <2>1, StartersAreUpstream DEF Typed
<1>3. Known \in [DOMAIN Known -> SUBSET Node]
  <2>1. Known = [c \in DOMAIN cache \cup candidates |-> Known[c]]
    BY <1>1 DEF Known
  <2> QED
    BY <1>1, <1>2, <2>1
<1>4. ASSUME candidates # {} PROVE Best \in candidates
  <2> DEFINE sizes == {Cardinality(Known[c]) : c \in candidates}
             least == {c \in candidates :
                        \A d \in candidates : Cardinality(Known[c]) <= Cardinality(Known[d])}
  <2>1. \A c \in candidates : Cardinality(Known[c]) \in Nat
    BY <1>1, <1>2, NodesAreNumbers
  <2>2. sizes \in SUBSET Nat /\ sizes # {}
    BY <1>4, <2>1
  <2>3. PICK size \in sizes : \A k \in sizes : size <= k
    <3> HIDE DEF sizes
    <3> QED
      BY <2>2, LeastElement
  <2>4. PICK c \in candidates : size = Cardinality(Known[c])
    BY <2>3
  <2>5. c \in least
    BY <2>3, <2>4
  <2>6. least \in SUBSET Nat
    BY NodesAreNumbers DEF Typed
  <2>7. Min(least) \in least
    <3> HIDE DEF least
    <3> QED
      BY <2>5, <2>6, MinIsLeast
  <2> QED
    BY <2>7 DEF Best
<1> QED
  BY <1>1, <1>3, <1>4

\* Path::follow_one keeps the types.
LEMMA FollowOneTypes ==
  ASSUME Typed, NEW next \in Node, NEW known, DOMAIN known \subseteq Node,
         known \in [DOMAIN known -> SUBSET Node], phase = "ram", FollowOne(next, known)
  PROVE  /\ phase' \in {"ram", "panicked"}
         /\ order' \in Seq(Node) /\ done' \subseteq Node /\ done' = Range(order')
         /\ candidates' \subseteq Node
         /\ DOMAIN cache' \subseteq Node /\ cache' \in [DOMAIN cache' -> SUBSET Node]
<1>1. CASE next \in done
  BY <1>1 DEF FollowOne, Typed
<1>2. CASE next \notin done
  <2> DEFINE waiting == (candidates \ {next}) \cup Downs(next)
  <2>1. /\ order' = Append(order, next) /\ done' = done \cup {next} /\ candidates' = waiting
        /\ cache' = Forgotten(known, next, waiting) /\ phase' = phase
    BY <1>2 DEF FollowOne
  <2>2. waiting \subseteq Node
    BY DEF Typed, Downs
  <2> HIDE DEF waiting
  <2>3. order' \in Seq(Node) /\ done' \subseteq Node /\ done' = Range(order')
    BY <2>1, RangeOfAppend DEF Typed
  <2>4. cache' = [c \in DOMAIN known \ {next} |-> IF c \in waiting THEN known[c] \ {next} ELSE known[c]]
    BY <2>1 DEF Forgotten
  <2>5. DOMAIN cache' \subseteq Node /\ cache' \in [DOMAIN cache' -> SUBSET Node]
    BY <2>4
  <2> QED
    BY <2>1, <2>2, <2>3, <2>5
<1> QED
  BY <1>1, <1>2

-----------------------------------------------------------------------------
(* Types.                                                                   *)

LEMMA InitTyped == Init => Typed
<1> SUFFICES ASSUME Init PROVE Typed
  OBVIOUS
<1>1. IsModel(model)
  BY EvalOrderAssumption DEF Init
<1>2. model.outputs \in Seq(Node) /\ model.inputs \in Seq(Node)
  BY <1>1 DEF IsModel
<1>3. /\ Len(model.outputs) \in Nat /\ Len(model.inputs) \in Nat
  BY <1>2
<1>4. <<>> \in Seq([node : Node, next : Nat \ {0}]) /\ <<>> \in Seq(Node) /\ DOMAIN <<>> = {}
  OBVIOUS
<1>5. Range(<<>>) = {}
  BY DEF Range
<1>6. after \in [Node -> Seq(Node)]
  BY <1>4 DEF Init
<1>7. cache \in [DOMAIN cache -> SUBSET Node] /\ DOMAIN cache = {}
  BY DEF Init
<1>8. at = 1 /\ 1 <= Len(model.outputs) + 1 /\ 1 <= Len(model.outputs) + Len(model.inputs) + 1
  <2>1. \A a, b \in Nat : 1 <= a + 1 /\ 1 <= a + b + 1
    OBVIOUS
  <2>2. at = 1
    BY DEF Init
  <2> QED
    BY <1>3, <2>1, <2>2
<1>9. /\ stack \in Seq([node : Node, next : Nat \ {0}]) /\ DOMAIN stack = {}
      /\ order \in Seq(Node) /\ done = Range(order)
  BY <1>4, <1>5 DEF Init
<1>10. /\ model \in Models /\ phase = "base" /\ at \in Nat \ {0}
       /\ pending \subseteq Node /\ candidates \subseteq Node /\ toCompute \subseteq Node
       /\ done \subseteq Node
  BY DEF Init
<1>11. Walking /\ phase # "ram"
  BY <1>10 DEF Walking
<1> QED
  BY <1>6, <1>7, <1>8, <1>9, <1>10, <1>11 DEF Typed

LEMMA TypedStep == Typed /\ [Next]_vars => Typed'
<1> SUFFICES ASSUME Typed, [Next]_vars PROVE Typed'
  OBVIOUS
<1> DEFINE Frame == [node : Node, next : Nat \ {0}]
<1>0. /\ IsModel(model) /\ model.outputs \in Seq(Node) /\ model.inputs \in Seq(Node)
      /\ Len(model.outputs) \in Nat /\ Len(model.inputs) \in Nat /\ at \in Nat \ {0}
      /\ stack \in Seq(Frame) /\ DOMAIN stack = 1 .. Len(stack) /\ Len(stack) \in Nat
  <2>1. IsModel(model)
    BY EvalOrderAssumption DEF Typed
  <2> QED
    BY <2>1 DEF IsModel, Typed
<1>a. \A a, b, c \in Nat :
          /\ a # 0 /\ a <= c + 1 /\ a # c + 1 => a \in 1 .. c
          /\ a <= c + 1 => a <= b + c + 1 /\ a <= c + b + 1
          /\ a <= c => a + 1 <= c + 1 /\ a + 1 \in Nat \ {0}
          /\ 1 <= c + 1
  OBVIOUS
<1>1. ASSUME UNCHANGED <<model, after>> PROVE Prec' = Prec
  BY <1>1 DEF Prec, Precursors, Leaves
<1>2. Prec \in [Node -> Seq(Node)]
  BY PrecursorsAreNodes DEF Typed
<1>3. ASSUME AtNode PROVE /\ Front(stack) \in Seq(Frame) /\ Len(Front(stack)) = Len(stack) - 1
                          /\ \A i \in 1 .. Len(stack) - 1 : Front(stack)[i] = stack[i]
                          /\ Len(stack) \in 1 .. Len(stack) /\ Top = stack[Len(stack)] /\ Top \in Frame
                          /\ Top.node \in Node /\ Top.next \in Nat \ {0}
                          /\ Top.next <= Len(Prec[Top.node]) + 1
                          /\ Precursors(Top.node) = Prec[Top.node]
                          /\ DOMAIN Front(stack) = 1 .. Len(stack) - 1
  <2> HIDE DEF Frame
  <2>1. /\ Front(stack) \in Seq(Frame) /\ Len(Front(stack)) = Len(stack) - 1
        /\ \A i \in 1 .. Len(stack) - 1 : Front(stack)[i] = stack[i]
        /\ Len(stack) \in 1 .. Len(stack) /\ Top = stack[Len(stack)] /\ Top \in Frame
        /\ DOMAIN Front(stack) = 1 .. Len(stack) - 1
    BY <1>0, <1>3, FrontElements DEF AtNode, Top
  <2>2. Top.node \in Node /\ Top.next \in Nat \ {0}
    BY <2>1 DEF Frame
  <2>3. Precursors(Top.node) = Prec[Top.node]
    BY <2>2 DEF Prec
  <2>4. Top.next <= Len(Prec[Top.node]) + 1
    BY <1>0, <2>1 DEF Typed
  <2> QED
    BY <2>1, <2>2, <2>3, <2>4
<1>4. ASSUME AtNode, ~IsReached
      PROVE  /\ Top.next \in DOMAIN Prec[Top.node] /\ Precursor = Prec[Top.node][Top.next]
             /\ Precursor \in Node
  <2>1. Prec[Top.node] \in Seq(Node)
    BY <1>2, <1>3, <1>4
  <2>2. Top.next # Len(Prec[Top.node]) + 1
    BY <1>3, <1>4 DEF IsReached
  <2>3. Top.next \in 1 .. Len(Prec[Top.node])
    <3>1. Len(Prec[Top.node]) \in Nat /\ Top.next \in Nat /\ Top.next # 0
      BY <1>3, <1>4, <2>1
    <3> QED
      BY <1>3, <1>4, <1>a, <2>2, <3>1
  <2> QED
    BY <1>3, <1>4, <2>1, <2>3 DEF Precursor
<1>5. CASE NextTarget
  <2>1. at <= Len(model.outputs) /\ at \in 1 .. Len(model.outputs) /\ model.outputs[at] \in Node
    BY <1>0, <1>5 DEF NextTarget, AtTarget
  <2>2. /\ at' \in Nat \ {0} /\ at' <= Len(model.outputs) + 1
        /\ at' <= Len(model.outputs) + Len(model.inputs) + 1
    <3>1. at' = at + 1
      BY <1>5 DEF NextTarget
    <3>2. at + 1 <= Len(model.outputs) + 1 /\ at + 1 \in Nat \ {0}
      BY <1>0, <1>a, <2>1
    <3> QED
      BY <1>0, <1>a, <3>1, <3>2
  <2>3. /\ UNCHANGED <<model, phase, done, order, after, toCompute, candidates, cache>>
        /\ phase # "ram" /\ Prec' = Prec
    BY <1>1, <1>5 DEF NextTarget, ramVars, AtTarget, Walking
  <2>4. CASE model.outputs[at] \in done
    <3>1. UNCHANGED <<stack, pending>>
      BY <1>5, <2>4 DEF NextTarget
    <3> QED
      BY <2>2, <2>3, <3>1 DEF Typed
  <2>5. CASE model.outputs[at] \notin done
    <3>1. stack' = <<[node |-> model.outputs[at], next |-> 1]>> /\ pending' = {}
      BY <1>5, <2>5 DEF NextTarget
    <3>2. stack' \in Seq(Frame)
      BY <2>1, <3>1
    <3>3. \A i \in DOMAIN stack' : stack'[i].next <= Len(Prec'[stack'[i].node]) + 1
      <4>1. Prec[model.outputs[at]] \in Seq(Node)
        BY <1>2, <2>1
      <4>2. 1 <= Len(Prec[model.outputs[at]]) + 1
        BY <4>1
      <4> QED
        BY <2>3, <3>1, <4>2
    <3> QED
      BY <2>2, <2>3, <3>1, <3>2, <3>3 DEF Typed
  <2> QED
    BY <2>4, <2>5
<1>6. CASE Finish
  <2>1. /\ UNCHANGED <<model, phase, at, after, toCompute, candidates, cache>>
        /\ order' = Append(order, Top.node) /\ done' = done \cup {Top.node}
        /\ pending' = pending \ {Top.node} /\ stack' = Front(stack) /\ AtNode /\ phase # "built"
        /\ Walking' = Walking
    BY <1>6 DEF Finish, ramVars, AtNode, Walking
  <2>2. order' \in Seq(Node) /\ Range(order') = done' /\ done' \subseteq Node
    BY <1>3, <2>1, RangeOfAppend DEF Typed
  <2>3. \A i \in DOMAIN stack' : stack'[i] = stack[i] /\ i \in DOMAIN stack
    <3>1. \A i \in 1 .. Len(stack) - 1 : i \in 1 .. Len(stack)
      BY <1>0
    <3>2. DOMAIN stack' = 1 .. Len(stack) - 1
      BY <1>3, <2>1
    <3> QED
      BY <1>0, <1>3, <2>1, <3>1, <3>2
  <2>4. stack' \in Seq(Frame) /\ pending' \subseteq Node
    BY <1>3, <2>1 DEF Typed
  <2>5. \A i \in DOMAIN stack' : stack'[i].next <= Len(Prec'[stack'[i].node]) + 1
    BY <1>1, <2>1, <2>3 DEF Typed
  <2> QED
    BY <2>1, <2>2, <2>4, <2>5 DEF Typed
<1>7. CASE SkipDone
  <2>1. /\ UNCHANGED <<model, phase, at, after, pending, done, order, toCompute, candidates, cache>>
        /\ stack' = Advance /\ AtNode /\ ~IsReached /\ phase # "built" /\ Walking' = Walking
    BY <1>7 DEF SkipDone, ramVars, AtNode, Walking
  <2>2. Advance \in Seq(Frame) /\ DOMAIN Advance = DOMAIN stack
        /\ \A i \in DOMAIN stack :
            Advance[i] = IF i = Len(stack) THEN [stack[i] EXCEPT !.next = @ + 1] ELSE stack[i]
    <3>1. Advance = [i \in DOMAIN stack |->
                        IF i = Len(stack) THEN [stack[i] EXCEPT !.next = @ + 1] ELSE stack[i]]
      BY DEF Advance
    <3>2. ASSUME NEW i \in 1 .. Len(stack) PROVE Advance[i] \in Frame
      <4>1. stack[i] \in Frame
        <5> HIDE DEF Frame
        <5> QED
          BY <1>0
      <4>2. [stack[i] EXCEPT !.next = @ + 1] \in Frame
        BY <4>1
      <4> QED
        BY <1>0, <3>1, <4>1, <4>2
    <3>3. Advance \in [1 .. Len(stack) -> Frame]
      <4>1. Advance = [i \in 1 .. Len(stack) |-> Advance[i]]
        BY <1>0, <3>1
      <4> HIDE DEF Frame
      <4> QED
        BY <3>2, <4>1
    <3> HIDE DEF Frame
    <3>4. \A m \in Nat : \A f \in [1 .. m -> Frame] : f \in Seq(Frame)
      OBVIOUS
    <3> QED
      BY <1>0, <3>1, <3>3, <3>4
  <2>3. \A i \in DOMAIN Advance : Advance[i].next <= Len(Prec[Advance[i].node]) + 1
    <3> SUFFICES ASSUME NEW i \in DOMAIN stack
                 PROVE  Advance[i].next <= Len(Prec[Advance[i].node]) + 1
      BY <2>2
    <3>1. CASE i = Len(stack)
      <4>1. Advance[i].node = Top.node /\ Advance[i].next = Top.next + 1
        BY <1>0, <1>3, <2>1, <2>2, <3>1
      <4>2. Top.next \in DOMAIN Prec[Top.node] /\ Prec[Top.node] \in Seq(Node)
        BY <1>2, <1>3, <1>4, <2>1
      <4>3. Top.next + 1 <= Len(Prec[Top.node]) + 1
        BY <4>2
      <4> QED
        BY <4>1, <4>3
    <3>2. CASE i # Len(stack)
      BY <2>2, <3>2 DEF Typed
    <3> QED
      BY <3>1, <3>2
  <2> QED
    BY <1>1, <2>1, <2>2, <2>3 DEF Typed
<1>8. CASE DetectLoop
  <2>1. /\ UNCHANGED <<model, at, stack, after, pending, done, order, toCompute, candidates, cache>>
        /\ phase' = "failed" /\ phase # "built"
    BY <1>8 DEF DetectLoop, walkVars, ramVars, AtNode, Walking
  <2> QED
    BY <1>1, <2>1 DEF Typed, Walking
<1>9. CASE Descend
  <2>1. /\ UNCHANGED <<model, phase, at, after, done, order, toCompute, candidates, cache>>
        /\ stack' = Append(stack, [node |-> Precursor, next |-> 1])
        /\ pending' = pending \cup {Precursor}
        /\ AtNode /\ ~IsReached /\ phase # "built" /\ Walking' = Walking
    BY <1>9 DEF Descend, ramVars, AtNode, Walking
  <2>2. Precursor \in Node
    BY <1>4, <2>1
  <2>3. [node |-> Precursor, next |-> 1] \in Frame
    BY <2>2
  <2>4. /\ stack' \in Seq(Frame) /\ DOMAIN stack' = 1 .. Len(stack) + 1
        /\ \A i \in 1 .. Len(stack) : stack'[i] = stack[i]
        /\ stack'[Len(stack) + 1] = [node |-> Precursor, next |-> 1]
    <3> HIDE DEF Frame
    <3> QED
      BY <1>0, <2>1, <2>3, RangeOfAppend
  <2>5. \A i \in DOMAIN stack' : stack'[i].next <= Len(Prec[stack'[i].node]) + 1
    <3> SUFFICES ASSUME NEW i \in 1 .. Len(stack) + 1
                 PROVE  stack'[i].next <= Len(Prec[stack'[i].node]) + 1
      BY <2>4
    <3>1. CASE i \in 1 .. Len(stack)
      BY <1>0, <2>4, <3>1 DEF Typed
    <3>2. CASE i = Len(stack) + 1
      <4>1. Prec[Precursor] \in Seq(Node)
        BY <1>2, <2>2
      <4>2. 1 <= Len(Prec[Precursor]) + 1
        BY <4>1
      <4> QED
        BY <2>4, <3>2, <4>2
    <3> QED
      BY <1>0, <3>1, <3>2
  <2> QED
    BY <1>1, <2>1, <2>2, <2>4, <2>5 DEF Typed
<1>10. ASSUME StartOver
       PROVE  /\ at' = 1 /\ stack' = <<>> /\ stack' \in Seq(Frame) /\ DOMAIN stack' = {}
              /\ pending' = {} /\ done' = {} /\ order' = <<>> /\ order' \in Seq(Node)
              /\ Range(order') = done'
  BY <1>10 DEF StartOver, Range
<1>b. /\ 1 <= Len(model.outputs) + 1 /\ 1 <= Len(model.inputs) + 1
      /\ 1 <= Len(model.outputs) + Len(model.inputs) + 1
  <2>1. \A a, b \in Nat : 1 <= a + 1 /\ 1 <= a + b + 1
    OBVIOUS
  <2> QED
    BY <1>0, <2>1
<1>11. CASE DeriveDeps
  <2>1. /\ UNCHANGED <<model, toCompute, candidates, cache>> /\ StartOver /\ phase' = "walk"
        /\ after' = [n \in Node |-> IF n \in done THEN DefinersFor(n) ELSE <<>>]
    BY <1>11 DEF DeriveDeps, ramVars
  <2>2. \A n \in Node : DefinersFor(n) \in Seq(Node)
    BY DefinersAreNodes DEF Typed
  <2>3. after' \in [Node -> Seq(Node)]
    BY <2>1, <2>2
  <2> QED
    <3>1. /\ phase' = "walk" /\ model' \in Models /\ DOMAIN stack' = {} /\ at' = 1
          /\ pending' \subseteq Node /\ candidates' \subseteq Node /\ toCompute' \subseteq Node
          /\ DOMAIN cache' \subseteq Node /\ cache' \in [DOMAIN cache' -> SUBSET Node]
      BY <1>10, <2>1 DEF Typed
    <3>2. /\ stack' \in Seq(Frame) /\ order' \in Seq(Node) /\ Range(order') = done'
          /\ done' \subseteq Node /\ model' = model
      BY <1>10, <2>1
    <3>3. \A i \in DOMAIN stack' : stack'[i].next <= Len(Prec'[stack'[i].node]) + 1
      BY <3>1
    <3>4. /\ at' \in Nat \ {0} /\ at' <= Len(model'.outputs) + Len(model'.inputs) + 1
          /\ at' <= Len(model'.outputs) + 1 /\ at' <= Len(model'.inputs) + 1
      <4>1. at' = 1 /\ model' = model
        BY <3>1, <3>2
      <4>2. 1 \in Nat \ {0}
        OBVIOUS
      <4> QED
        BY <1>b, <4>1, <4>2, Zenon
    <3>5. phase' # "built" => done' = Range(order')
      BY <3>2
    <3> HIDE DEF Frame
    <3> QED
      BY <2>3, <3>1, <3>2, <3>3, <3>4, <3>5 DEF Typed, Frame
<1>12. CASE StartRam
  <2>1. /\ UNCHANGED <<model, after>> /\ StartOver /\ phase' = "ram" /\ toCompute' = Range(order)
        /\ candidates' = {} /\ cache' = <<>>
    BY <1>12 DEF StartRam
  <2>2. toCompute' \subseteq Node
    BY <2>1 DEF Typed, Range
  <2>3. DOMAIN cache' = {} /\ cache' \in [DOMAIN cache' -> SUBSET Node]
    BY <2>1
  <2> QED
    <3>1. /\ phase' = "ram" /\ model' \in Models /\ DOMAIN stack' = {} /\ at' = 1
          /\ pending' \subseteq Node /\ candidates' \subseteq Node
          /\ after' \in [Node -> Seq(Node)]
      BY <1>10, <2>1 DEF Typed
    <3>2. /\ stack' \in Seq(Frame) /\ order' \in Seq(Node) /\ Range(order') = done'
          /\ done' \subseteq Node /\ model' = model
      BY <1>10, <2>1
    <3>3. \A i \in DOMAIN stack' : stack'[i].next <= Len(Prec'[stack'[i].node]) + 1
      BY <3>1
    <3>4. /\ at' \in Nat \ {0} /\ at' <= Len(model'.outputs) + Len(model'.inputs) + 1
          /\ at' <= Len(model'.outputs) + 1 /\ at' <= Len(model'.inputs) + 1
      <4>1. at' = 1 /\ model' = model
        BY <3>1, <3>2
      <4>2. 1 \in Nat \ {0}
        OBVIOUS
      <4> QED
        BY <1>b, <4>1, <4>2, Zenon
    <3>5. phase' # "built" => done' = Range(order')
      BY <3>2
    <3> HIDE DEF Frame
    <3> QED
      BY <2>2, <2>3, <3>1, <3>2, <3>3, <3>4, <3>5 DEF Typed, Frame
<1>13. ASSUME phase = "ram", NEW next \in Node, NEW known, FollowOne(next, known),
              known = cache \/ known = Known,
              UNCHANGED <<model, stack, pending, after, toCompute>>,
              at' \in Nat \ {0}, at' <= Len(model.inputs) + 1
       PROVE  Typed'
  <2>1. DOMAIN known \subseteq Node /\ known \in [DOMAIN known -> SUBSET Node]
    BY <1>13, BestIsCandidate DEF Typed
  <2>2. /\ phase' \in {"ram", "panicked"}
        /\ order' \in Seq(Node) /\ done' \subseteq Node /\ done' = Range(order')
        /\ candidates' \subseteq Node
        /\ DOMAIN cache' \subseteq Node /\ cache' \in [DOMAIN cache' -> SUBSET Node]
    BY <1>13, <2>1, FollowOneTypes
  <2>3. at' <= Len(model.outputs) + Len(model.inputs) + 1
    BY <1>0, <1>13, <1>a
  <2> QED
    BY <1>1, <1>13, <2>2, <2>3 DEF Typed, Walking
<1>14. ASSUME phase = "ram", phase' \in {"ram", "panicked"},
              UNCHANGED <<model, order, done, candidates, cache, stack, pending, after, toCompute>>,
              at' \in Nat \ {0}, at' <= Len(model.inputs) + 1
       PROVE  Typed'
  <2>1. at' <= Len(model.outputs) + Len(model.inputs) + 1
    BY <1>0, <1>14, <1>a
  <2> QED
    BY <1>1, <1>14, <2>1 DEF Typed, Walking
<1>15. CASE FollowInput
  <2>1. /\ phase = "ram" /\ at <= Len(model.inputs) /\ at' = at + 1
        /\ UNCHANGED <<model, stack, pending, after, toCompute>>
    BY <1>15 DEF FollowInput
  <2>2. at' \in Nat \ {0} /\ at' <= Len(model.inputs) + 1 /\ model.inputs[at] \in Node
    <3>1. at + 1 \in Nat \ {0} /\ at + 1 <= Len(model.inputs) + 1
      BY <1>0, <1>a, <2>1
    <3>2. at \in 1 .. Len(model.inputs)
      BY <1>0, <2>1
    <3> QED
      BY <1>0, <2>1, <3>1, <3>2
  <2>3. CASE model.inputs[at] \in toCompute
    BY <1>13, <1>15, <2>1, <2>2, <2>3 DEF FollowInput
  <2>4. CASE model.inputs[at] \notin toCompute
    BY <1>14, <1>15, <2>1, <2>2, <2>4 DEF FollowInput
  <2> QED
    BY <2>3, <2>4
<1>16. ASSUME Choosing, UNCHANGED <<model, at, stack, pending, after, toCompute>>
       PROVE  phase = "ram" /\ at' \in Nat \ {0} /\ at' <= Len(model.inputs) + 1
  BY <1>16 DEF Choosing, Typed
<1>17. CASE FollowReady
  <2>1. Ready \subseteq Node /\ Ready # {}
    BY <1>17 DEF FollowReady, Ready, Typed
  <2>2. Min(Ready) \in Node
    BY <2>1, MinIsLeast, NodesAreNumbers
  <2>3. /\ Choosing /\ UNCHANGED <<model, at, stack, pending, after, toCompute>>
        /\ FollowOne(Min(Ready), cache)
    BY <1>17 DEF FollowReady
  <2> QED
    BY <1>13, <1>16, <2>2, <2>3
<1>18. CASE FollowStarter
  <2>1. /\ Choosing /\ UNCHANGED <<model, at, stack, pending, after, toCompute>> /\ candidates # {}
    BY <1>18 DEF FollowStarter
  <2>2. CASE Known[Best] = {}
    BY <1>14, <1>16, <1>18, <2>1, <2>2 DEF FollowStarter
  <2>3. CASE Known[Best] # {}
    <3>1. Known[Best] \in SUBSET Node
      BY <2>1, BestIsCandidate
    <3>2. Min(Known[Best]) \in Node
      BY <2>3, <3>1, MinIsLeast, NodesAreNumbers
    <3>3. FollowOne(Min(Known[Best]), Known)
      BY <1>18, <2>3 DEF FollowStarter
    <3> QED
      BY <1>13, <1>16, <2>1, <3>2, <3>3
  <2> QED
    BY <2>2, <2>3
<1>19. CASE FollowFresh
  <2> DEFINE fresh == {n \in toCompute \ done : IsReady(n)}
  <2>1. /\ Choosing /\ UNCHANGED <<model, at, stack, pending, after, toCompute>>
        /\ IF fresh = {} THEN phase' = "panicked" /\ UNCHANGED <<order, done, candidates, cache>>
                         ELSE FollowOne(Min(fresh), cache)
    BY <1>19 DEF FollowFresh
  <2>2. fresh \in SUBSET Node
    BY DEF Typed
  <2> HIDE DEF fresh
  <2>3. CASE fresh = {}
    BY <1>14, <1>16, <2>1, <2>3
  <2>4. CASE fresh # {}
    <3>1. Min(fresh) \in Node
      BY <2>2, <2>4, MinIsLeast, NodesAreNumbers
    <3> QED
      BY <1>13, <1>16, <2>1, <2>4, <3>1
  <2> QED
    BY <2>3, <2>4
<1>20. CASE Build
  <2>1. /\ UNCHANGED <<model, at, stack, pending, done, after, toCompute, candidates, cache>>
        /\ phase' = "built" /\ order' = Only(order, Node \ model.consts)
    BY <1>20 DEF Build, ramVars
  <2>2. order' \in Seq(Node)
    BY <2>1, OnlyRange DEF Typed
  <2> QED
    BY <1>1, <2>1, <2>2 DEF Typed, Walking
<1>21. CASE UNCHANGED vars
  <2>1. UNCHANGED <<model, phase, at, stack, pending, done, order, after, toCompute, candidates, cache>>
    BY <1>21 DEF vars
  <2> QED
    BY <1>1, <2>1 DEF Typed, Walking
<1> QED
  BY <1>5, <1>6, <1>7, <1>8, <1>9, <1>11, <1>12, <1>15, <1>17, <1>18, <1>19, <1>20, <1>21 DEF Next

LEMMA TypedIsTypeOK == Typed => TypeOK
<1> SUFFICES ASSUME Typed PROVE TypeOK
  OBVIOUS
<1>1. IsModel(model)
  BY EvalOrderAssumption DEF Typed
<1>2. /\ Len(model.outputs) \in Nat /\ Len(model.inputs) \in Nat
      /\ stack \in Seq([node : Node, next : Nat \ {0}])
  BY <1>1 DEF IsModel, Typed
<1>3. at \in 1 .. Len(model.outputs) + Len(model.inputs) + 1
  <2>1. \A a, b, c \in Nat : a # 0 /\ a <= b + c + 1 => a \in 1 .. b + c + 1
    OBVIOUS
  <2> QED
    BY <1>2, <2>1 DEF Typed
<1>4. ASSUME NEW i \in DOMAIN stack
      PROVE  stack[i].node \in Node /\ stack[i].next \in 1 .. Len(Precursors(stack[i].node)) + 1
  <2>1. stack[i].node \in Node /\ stack[i].next \in Nat \ {0}
    <3> DEFINE Frame == [node : Node, next : Nat \ {0}]
    <3>1. stack[i] \in Frame
      <4>1. stack \in Seq(Frame)
        BY <1>2
      <4> HIDE DEF Frame
      <4> QED
        BY <4>1
    <3> QED
      BY <3>1
  <2>2. /\ Prec[stack[i].node] = Precursors(stack[i].node)
        /\ Prec[stack[i].node] \in Seq(Node)
    BY <2>1, PrecursorsAreNodes DEF Typed
  <2>3. stack[i].next <= Len(Precursors(stack[i].node)) + 1
    BY <2>2 DEF Typed
  <2>4. Len(Precursors(stack[i].node)) \in Nat
    BY <2>2
  <2> QED
    BY <2>1, <2>3, <2>4
<1>5. \A c \in DOMAIN cache : cache[c] \subseteq Node
  BY DEF Typed
<1> QED
  BY <1>1, <1>3, <1>4, <1>5 DEF Typed, TypeOK

\* The types of the state: what TypeOK says of a plan in the making.
THEOREM OrderTypes == Spec => []TypeOK
<1>1. Init => Typed
  BY InitTyped
<1>2. Typed /\ [Next]_vars => Typed'
  BY TypedStep
<1>3. Typed => TypeOK
  BY TypedIsTypeOK
<1> QED
  BY <1>1, <1>2, <1>3, PTL DEF Spec

-----------------------------------------------------------------------------
(* The walks.                                                               *)

LEMMA WantedIsClosed ==
  ASSUME Typed
  PROVE  /\ Wanted \subseteq Node /\ Range(model.outputs) \subseteq Wanted
         /\ \A n \in Wanted : Before[n] \subseteq Wanted
         /\ \A T : Range(model.outputs) \subseteq T /\ (\A n \in T \cap Node : Before[n] \subseteq T)
                  => Wanted \subseteq T
         /\ BaseWanted \subseteq Node /\ Range(model.outputs) \subseteq BaseWanted
         /\ \A n \in BaseWanted : WiredBefore[n] \subseteq BaseWanted
         /\ \A T : /\ Range(model.outputs) \subseteq T
                   /\ \A n \in T \cap Node : WiredBefore[n] \subseteq T
                  => BaseWanted \subseteq T
<1>1. Before \in [Node -> SUBSET Node] /\ WiredBefore \in [Node -> SUBSET Node]
  BY BeforeIsNodes DEF Typed
<1>2. Range(model.outputs) \in SUBSET Node
  BY EvalOrderAssumption DEF Typed, IsModel, Range
<1> QED
  BY <1>1, <1>2, ReachIsTheClosure DEF Wanted, BaseWanted

\* What does not depend on the walk stays.
LEMMA SamePrecursors ==
  ASSUME UNCHANGED <<model, after>>
  PROVE  /\ Prec' = Prec /\ Before' = Before /\ WiredBefore' = WiredBefore
         /\ Wanted' = Wanted /\ BaseWanted' = BaseWanted /\ Ancestors' = Ancestors
<1>1. Prec' = Prec
  BY DEF Prec, Precursors, Leaves
<1>2. Before' = Before /\ WiredBefore' = WiredBefore
  BY DEF Before, WiredBefore, IsInput, Precursors, Leaves
<1>3. Wanted' = Wanted /\ BaseWanted' = BaseWanted
  BY <1>2 DEF Wanted, BaseWanted
<1>4. Ancestors' = Ancestors
  BY DEF Ancestors
<1> QED
  BY <1>1, <1>2, <1>3, <1>4

\* The top of the stack.
LEMMA TopFacts ==
  ASSUME Typed, AtNode
  PROVE  /\ Front(stack) \in Seq([node : Node, next : Nat \ {0}])
         /\ Len(Front(stack)) = Len(stack) - 1 /\ DOMAIN Front(stack) = 1 .. Len(stack) - 1
         /\ \A i \in 1 .. Len(stack) - 1 : Front(stack)[i] = stack[i]
         /\ Len(stack) \in 1 .. Len(stack) /\ Len(stack) \in Nat \ {0}
         /\ DOMAIN stack = 1 .. Len(stack)
         /\ Top = stack[Len(stack)] /\ Top.node \in Node /\ Top.next \in Nat \ {0}
         /\ Prec[Top.node] \in Seq(Node) /\ Len(Prec[Top.node]) \in Nat
         /\ IsReached <=> Top.node \in Range(model.inputs) \/ Top.next = Len(Prec[Top.node]) + 1
         /\ ~IsReached => /\ Top.next \in 1 .. Len(Prec[Top.node])
                          /\ Precursor = Prec[Top.node][Top.next] /\ Precursor \in Node
<1> DEFINE Frame == [node : Node, next : Nat \ {0}]
<1>1. stack \in Seq(Frame) /\ stack # <<>>
  BY DEF Typed, AtNode
<1>2. Prec \in [Node -> Seq(Node)]
  BY PrecursorsAreNodes DEF Typed
<1>3. /\ Front(stack) \in Seq(Frame) /\ Len(Front(stack)) = Len(stack) - 1
      /\ DOMAIN Front(stack) = 1 .. Len(stack) - 1 /\ DOMAIN stack = 1 .. Len(stack)
      /\ \A i \in 1 .. Len(stack) - 1 : Front(stack)[i] = stack[i]
      /\ Len(stack) \in 1 .. Len(stack) /\ Len(stack) \in Nat \ {0}
      /\ Top = stack[Len(stack)] /\ Top \in Frame
  <2> HIDE DEF Frame
  <2> QED
    BY <1>1, FrontElements DEF Top
<1>4. Top.node \in Node /\ Top.next \in Nat \ {0}
  BY <1>3
<1>5. /\ Prec[Top.node] \in Seq(Node) /\ Len(Prec[Top.node]) \in Nat
      /\ Precursors(Top.node) = Prec[Top.node]
  BY <1>2, <1>4 DEF Prec
<1>6. Top.next <= Len(Prec[Top.node]) + 1
  BY <1>3 DEF Typed
<1>7. IsReached <=> Top.node \in Range(model.inputs) \/ Top.next = Len(Prec[Top.node]) + 1
  BY <1>5 DEF IsReached, IsInput
<1>8. ~IsReached => Top.next \in 1 .. Len(Prec[Top.node])
  BY <1>4, <1>5, <1>6, <1>7
<1>9. ~IsReached => Precursor = Prec[Top.node][Top.next] /\ Precursor \in Node
  BY <1>5, <1>8 DEF Precursor
<1> QED
  BY <1>3, <1>4, <1>5, <1>7, <1>8, <1>9

\* A node can follow what comes before it.
LEMMA AppendedInOrder ==
  ASSUME NEW seq \in Seq(Node), NEW e \in Node, NEW before, InOrder(seq, before),
         e \notin Range(seq), before[e] \subseteq Range(seq)
  PROVE  InOrder(Append(seq, e), before)
<1> DEFINE num == Len(seq)
           more == Append(seq, e)
<1>1. /\ DOMAIN seq = 1 .. num /\ DOMAIN more = 1 .. num + 1
      /\ \A i \in 1 .. num : more[i] = seq[i]
      /\ more[num + 1] = e /\ num \in Nat
  BY RangeOfAppend
<1>2. /\ \A i, j \in 1 .. num : seq[i] = seq[j] => i = j
      /\ \A i \in 1 .. num : before[seq[i]] \subseteq {seq[j] : j \in 1 .. i - 1}
      /\ \A i \in 1 .. num : seq[i] # e
      /\ \A n \in Range(seq) : \E i \in 1 .. num : n = seq[i]
  BY <1>1 DEF InOrder, IsInjective, Range
<1> HIDE DEF num, more
<1>3. \A i \in 1 .. num + 1 : i \in 1 .. num \/ i = num + 1
  BY <1>1
<1>4. IsInjective(more)
  BY <1>1, <1>2, <1>3 DEF IsInjective
<1>5. ASSUME NEW i \in DOMAIN more
      PROVE  before[more[i]] \subseteq {more[j] : j \in 1 .. i - 1}
  <2>1. CASE i \in 1 .. num
    <3>1. \A j \in 1 .. i - 1 : more[j] = seq[j]
      BY <1>1, <2>1
    <3> QED
      BY <1>1, <1>2, <2>1, <3>1
  <2>2. CASE i = num + 1
    <3>1. \A j \in 1 .. num : j \in 1 .. i - 1
      BY <1>1, <2>2
    <3>2. Range(seq) \subseteq {more[j] : j \in 1 .. i - 1}
      BY <1>1, <1>2, <3>1
    <3> QED
      BY <1>1, <2>2, <3>2
  <2> QED
    BY <1>1, <1>3, <2>1, <2>2
<1> QED
  BY <1>4, <1>5 DEF InOrder, more

LEMMA NextTargetWalks ==
  ASSUME Typed, OrderInv, StackInv, NextTarget
  PROVE  OrderInv' /\ StackInv'
<1>1. /\ Walking /\ Walking' /\ stack = <<>> /\ at' = at + 1 /\ at \in 1 .. Len(model.outputs)
      /\ model.outputs \in Seq(Node)
      /\ UNCHANGED <<model, phase, done, order, after>>
  <2>1. model.outputs \in Seq(Node)
    BY EvalOrderAssumption DEF Typed, IsModel
  <2> QED
    BY <2>1 DEF NextTarget, AtTarget, Walking, Typed
<1>2. Before' = Before /\ Prec' = Prec /\ Wanted' = Wanted
  BY <1>1, SamePrecursors
<1>3. OrderInv'
  BY <1>1, <1>2 DEF OrderInv
<1>4. done \subseteq Wanted /\ \A k \in 1 .. at - 1 : model.outputs[k] \in done
  BY <1>1 DEF StackInv
<1>5. \A k \in 1 .. (at + 1) - 1 : k = at \/ k \in 1 .. at - 1
  BY <1>1
<1>6. CASE model.outputs[at] \in done
  <2>1. UNCHANGED <<stack, pending>>
    BY <1>6 DEF NextTarget
  <2>2. \A k \in 1 .. at' - 1 : model.outputs[k] \in done
    BY <1>1, <1>4, <1>5, <1>6
  <2>3. StackInv'
    BY <1>1, <1>2, <2>1, <2>2 DEF StackInv
  <2> QED
    BY <1>3, <2>3
<1>7. CASE model.outputs[at] \notin done
  <2>1. stack' = <<[node |-> model.outputs[at], next |-> 1]>> /\ pending' = {}
    BY <1>7 DEF NextTarget
  <2>2. /\ stack' # <<>> /\ DOMAIN stack' = {1} /\ Len(stack') = 1
        /\ stack'[1].node = model.outputs[at] /\ stack'[1].next = 1
    BY <2>1
  <2>3. model.outputs[at] \in Wanted
    BY <1>1, WantedIsClosed DEF Range
  <2>4. \A k \in 1 .. at' - 1 : model.outputs[k] \in done \/ stack'[1].node = model.outputs[k]
    BY <1>1, <1>4, <1>5, <2>2
  <2>5. 1 .. 1 - 1 = {} /\ 2 .. 1 = {}
    OBVIOUS
  <2>6. StackInv'
    BY <1>1, <1>2, <1>4, <1>7, <2>1, <2>2, <2>3, <2>4, <2>5 DEF StackInv
  <2> QED
    BY <1>3, <2>6
<1> QED
  BY <1>6, <1>7

LEMMA FinishWalks ==
  ASSUME Typed, OrderInv, StackInv, Finish
  PROVE  OrderInv' /\ StackInv'
<1> DEFINE top == Top.node
           len == Len(stack)
<1>1. /\ AtNode /\ IsReached /\ Walking /\ Walking' /\ phase \in {"base", "walk"} /\ phase' = phase
      /\ order' = Append(order, top) /\ done' = done \cup {top} /\ pending' = pending \ {top}
      /\ stack' = Front(stack) /\ UNCHANGED <<model, at, after>>
  BY DEF Finish, AtNode, Walking
<1>2. Before' = Before /\ Prec' = Prec /\ Wanted' = Wanted
  BY <1>1, SamePrecursors
<1>3. /\ Len(stack') = len - 1 /\ DOMAIN stack' = 1 .. len - 1
      /\ \A i \in 1 .. len - 1 : stack'[i] = stack[i]
      /\ len \in 1 .. len /\ len \in Nat \ {0} /\ DOMAIN stack = 1 .. len
      /\ top = stack[len].node /\ top \in Node /\ Top = stack[len] /\ Top.next \in Nat \ {0}
      /\ Prec[top] \in Seq(Node) /\ Len(Prec[top]) \in Nat
      /\ top \in Range(model.inputs) \/ Top.next = Len(Prec[top]) + 1
  BY <1>1, TopFacts
<1>4. /\ done \subseteq Wanted
      /\ \A i \in 1 .. len : stack[i].node \in Wanted \ done
      /\ \A i \in 1 .. len : \A k \in 1 .. stack[i].next - 1 : Prec[stack[i].node][k] \in done
      /\ \A i \in 1 .. len - 1 :
                /\ stack[i].node \notin Range(model.inputs)
                /\ stack[i].next <= Len(Prec[stack[i].node])
                /\ stack[i + 1].node = Prec[stack[i].node][stack[i].next]
      /\ pending = {stack[i].node : i \in 2 .. len}
      /\ \A i, j \in 2 .. len : stack[i].node = stack[j].node => i = j
      /\ \A k \in 1 .. at - 1 :
                \/ model.outputs[k] \in done
                \/ stack # <<>> /\ stack[1].node = model.outputs[k]
  BY <1>1, <1>3 DEF StackInv
<1>5. done = Range(order) /\ order \in Seq(Node)
  BY <1>1 DEF Typed
<1> HIDE DEF top, len
<1>6. top \notin done /\ top \in Wanted
  BY <1>3, <1>4
<1>7. top \notin Range(model.inputs) => \A k \in 1 .. Len(Prec[top]) : Prec[top][k] \in done
  <2> SUFFICES ASSUME top \notin Range(model.inputs), NEW k \in 1 .. Len(Prec[top])
               PROVE  Prec[top][k] \in done
    OBVIOUS
  <2>1. stack[len].next = Len(Prec[top]) + 1
    BY <1>3
  <2>2. k \in 1 .. stack[len].next - 1
    BY <1>3, <2>1
  <2> QED
    BY <1>3, <1>4, <2>2
<1>8. Before[top] \subseteq done
  <2>1. CASE top \in Range(model.inputs)
    BY <1>3, <2>1, BeforeIsNodes DEF Typed
  <2>2. CASE top \notin Range(model.inputs)
    <3>1. Before[top] = Range(Prec[top])
      BY <1>3, <2>2, BeforeIsNodes DEF Typed
    <3>2. DOMAIN Prec[top] = 1 .. Len(Prec[top])
      BY <1>3
    <3> QED
      BY <1>7, <2>2, <3>1, <3>2 DEF Range
  <2> QED
    BY <2>1, <2>2
\* The target cannot be done from its second place on the stack.
<1>9. \A i \in 1 .. len - 1 : stack[i].node # top
  <2> SUFFICES ASSUME NEW i \in 1 .. len - 1, stack[i].node = top PROVE FALSE
    OBVIOUS
  <2>1. i = 1
    <3> SUFFICES ASSUME i # 1 PROVE FALSE
      OBVIOUS
    <3>1. i \in 2 .. len /\ len \in 2 .. len /\ i # len
      BY <1>3
    <3> QED
      BY <1>3, <1>4, <3>1
  <2>2. /\ top \notin Range(model.inputs) /\ stack[1].next <= Len(Prec[top])
        /\ stack[2].node = Prec[top][stack[1].next] /\ 1 \in 1 .. len /\ 2 \in 1 .. len
    <3>1. 1 \in 1 .. len - 1 /\ 1 + 1 = 2 /\ 1 \in 1 .. len /\ 2 \in 1 .. len
      BY <1>3, <2>1
    <3> QED
      BY <1>4, <2>1, <3>1
  <2>3. stack[1].next \in Nat \ {0}
    <3> DEFINE Frame == [node : Node, next : Nat \ {0}]
    <3>1. stack[1] \in Frame
      <4>1. stack \in Seq(Frame) /\ 1 \in DOMAIN stack
        BY <1>3, <2>2 DEF Typed
      <4> HIDE DEF Frame
      <4> QED
        BY <4>1
    <3> QED
      BY <3>1
  <2>4. stack[1].next \in 1 .. Len(Prec[top])
    BY <1>3, <2>2, <2>3
  <2>5. stack[2].node \in done
    BY <1>7, <2>2, <2>4
  <2> QED
    BY <1>4, <2>2, <2>5
<1>10. OrderInv'
  <2>1. InOrder(order, Before)
    BY <1>1 DEF OrderInv
  <2>2. InOrder(Append(order, top), Before)
    BY <1>3, <1>5, <1>6, <1>8, <2>1, AppendedInOrder
  <2> QED
    BY <1>1, <1>2, <2>2 DEF OrderInv
<1>11. /\ \A i \in 1 .. len - 1 : i \in 1 .. len
       /\ \A i \in 1 .. (len - 1) - 1 : i \in 1 .. len - 1 /\ i + 1 \in 1 .. len - 1
       /\ \A i \in 2 .. len - 1 : i \in 2 .. len /\ i \in 1 .. len - 1
       /\ \A i \in 2 .. len : i = len \/ i \in 2 .. len - 1
  BY <1>3
<1>12. pending' = {stack'[i].node : i \in 2 .. len - 1}
  BY <1>1, <1>3, <1>4, <1>9, <1>11
<1>13. \A k \in 1 .. at - 1 : \/ model.outputs[k] \in done'
                              \/ stack' # <<>> /\ stack'[1].node = model.outputs[k]
  <2> SUFFICES ASSUME NEW k \in 1 .. at - 1, model.outputs[k] \notin done'
               PROVE  stack' # <<>> /\ stack'[1].node = model.outputs[k]
    OBVIOUS
  <2>1. stack[1].node = model.outputs[k] /\ model.outputs[k] # top
    BY <1>1, <1>4
  <2>2. len # 1
    BY <1>3, <2>1
  <2>3. 1 \in 1 .. len - 1
    BY <1>3, <2>2
  <2>4. stack' # <<>>
    BY <1>3, <2>3
  <2> QED
    BY <1>3, <2>1, <2>3, <2>4
<1>14. /\ done' \subseteq Wanted'
       /\ \A i \in 1 .. len - 1 : stack'[i].node \in Wanted' \ done'
       /\ \A i \in 1 .. len - 1 : \A k \in 1 .. stack'[i].next - 1 : Prec'[stack'[i].node][k] \in done'
       /\ \A i \in 1 .. (len - 1) - 1 :
                /\ stack'[i].node \notin Range(model'.inputs)
                /\ stack'[i].next <= Len(Prec'[stack'[i].node])
                /\ stack'[i + 1].node = Prec'[stack'[i].node][stack'[i].next]
       /\ \A i, j \in 2 .. len - 1 : stack'[i].node = stack'[j].node => i = j
  <2>1. done' \subseteq Wanted'
    BY <1>1, <1>2, <1>4, <1>6
  <2>2. \A i \in 1 .. len - 1 : stack'[i].node \in Wanted' \ done'
    BY <1>1, <1>2, <1>3, <1>4, <1>9, <1>11
  <2>3. \A i \in 1 .. len - 1 : \A k \in 1 .. stack'[i].next - 1 : Prec'[stack'[i].node][k] \in done'
    BY <1>1, <1>2, <1>3, <1>4, <1>11
  <2>4. ASSUME NEW i \in 1 .. (len - 1) - 1
        PROVE  /\ stack'[i].node \notin Range(model'.inputs)
               /\ stack'[i].next <= Len(Prec'[stack'[i].node])
               /\ stack'[i + 1].node = Prec'[stack'[i].node][stack'[i].next]
    BY <1>1, <1>2, <1>3, <1>4, <1>11
  <2>5. \A i, j \in 2 .. len - 1 : stack'[i].node = stack'[j].node => i = j
    BY <1>3, <1>4, <1>11
  <2> QED
    BY <2>1, <2>2, <2>3, <2>4, <2>5
<1>15. StackInv'
  BY <1>1, <1>3, <1>12, <1>13, <1>14 DEF StackInv
<1> QED
  BY <1>10, <1>15

LEMMA SkipDoneWalks ==
  ASSUME Typed, OrderInv, StackInv, SkipDone
  PROVE  OrderInv' /\ StackInv'
<1> DEFINE top == Top.node
           len == Len(stack)
<1>1. /\ AtNode /\ ~IsReached /\ Walking /\ Walking' /\ Precursor \in done /\ stack' = Advance
      /\ UNCHANGED <<model, phase, at, pending, done, order, after>>
  BY DEF SkipDone, AtNode, Walking
<1>2. Before' = Before /\ Prec' = Prec /\ Wanted' = Wanted
  BY <1>1, SamePrecursors
<1>3. /\ len \in 1 .. len /\ len \in Nat \ {0} /\ DOMAIN stack = 1 .. len
      /\ Top = stack[len] /\ Precursor = Prec[top][Top.next] /\ Top.next \in Nat \ {0}
  BY <1>1, TopFacts
<1>4. /\ DOMAIN stack' = 1 .. len /\ Len(stack') = len /\ stack' # <<>>
      /\ \A i \in 1 .. len : stack'[i].node = stack[i].node
      /\ \A i \in 1 .. len : i # len => stack'[i] = stack[i]
      /\ stack'[len].next = stack[len].next + 1
  <2> DEFINE Frame == [node : Node, next : Nat \ {0}]
  <2>1. \A i \in 1 .. len : stack[i] \in Frame
    <3>1. stack \in Seq(Frame)
      BY DEF Typed
    <3> HIDE DEF Frame
    <3> QED
      BY <1>3, <3>1
  <2>2. stack' = [i \in 1 .. len |-> IF i = len THEN [stack[i] EXCEPT !.next = @ + 1] ELSE stack[i]]
    BY <1>1, <1>3 DEF Advance
  <2>3. \A i \in 1 .. len : stack'[i] = IF i = len THEN [stack[i] EXCEPT !.next = @ + 1] ELSE stack[i]
    BY <2>2
  <2>4. DOMAIN stack' = 1 .. len /\ Len(stack') = len
    BY <1>3, <2>2
  <2>5. \A i \in 1 .. len : stack'[i].node = stack[i].node
    BY <2>1, <2>3
  <2>6. stack'[len].next = stack[len].next + 1
    BY <1>3, <2>1, <2>3
  <2>7. stack' # <<>>
    BY <1>3, <2>4
  <2> QED
    BY <2>3, <2>4, <2>5, <2>6, <2>7
<1>5. /\ done \subseteq Wanted
      /\ \A i \in 1 .. len : stack[i].node \in Wanted \ done
      /\ \A i \in 1 .. len : \A k \in 1 .. stack[i].next - 1 : Prec[stack[i].node][k] \in done
      /\ \A i \in 1 .. len - 1 :
                /\ stack[i].node \notin Range(model.inputs)
                /\ stack[i].next <= Len(Prec[stack[i].node])
                /\ stack[i + 1].node = Prec[stack[i].node][stack[i].next]
      /\ pending = {stack[i].node : i \in 2 .. len}
      /\ \A i, j \in 2 .. len : stack[i].node = stack[j].node => i = j
      /\ \A k \in 1 .. at - 1 :
                \/ model.outputs[k] \in done
                \/ stack # <<>> /\ stack[1].node = model.outputs[k]
  BY <1>1, <1>3 DEF StackInv
<1> HIDE DEF top, len
<1>6. OrderInv'
  BY <1>1, <1>2 DEF OrderInv
<1>7. ASSUME NEW i \in 1 .. len, NEW k \in 1 .. stack'[i].next - 1
      PROVE  Prec[stack'[i].node][k] \in done
  <2>1. CASE i # len
    BY <1>4, <1>5, <1>7, <2>1
  <2>2. CASE i = len
    <3>1. /\ k \in 1 .. (stack[len].next + 1) - 1 /\ stack[len].next \in Nat
          /\ stack'[len].node = stack[len].node
      BY <1>3, <1>4, <1>7, <2>2
    <3>2. k = stack[len].next \/ k \in 1 .. stack[len].next - 1
      BY <3>1
    <3>3. CASE k = stack[len].next
      BY <1>1, <1>3, <2>2, <3>1, <3>3 DEF top
    <3>4. CASE k \in 1 .. stack[len].next - 1
      BY <1>3, <1>5, <2>2, <3>1, <3>4
    <3> QED
      BY <3>2, <3>3, <3>4
  <2> QED
    BY <2>1, <2>2
<1>8. \A i \in 1 .. len - 1 : i \in 1 .. len /\ i # len /\ i + 1 \in 1 .. len
  BY <1>3
<1>9. \A i \in 2 .. len : i \in 1 .. len
  BY <1>3
<1>10. pending' = {stack'[i].node : i \in 2 .. len}
  BY <1>1, <1>4, <1>5, <1>9
<1>11. ASSUME NEW i \in 1 .. len - 1
       PROVE  /\ stack'[i].node \notin Range(model'.inputs)
              /\ stack'[i].next <= Len(Prec'[stack'[i].node])
              /\ stack'[i + 1].node = Prec'[stack'[i].node][stack'[i].next]
  <2>1. stack'[i] = stack[i] /\ stack'[i + 1].node = stack[i + 1].node
    BY <1>4, <1>8
  <2> QED
    BY <1>1, <1>2, <1>5, <2>1
<1>12. /\ \A i \in 1 .. len : stack'[i].node \in Wanted' \ done'
       /\ \A i, j \in 2 .. len : stack'[i].node = stack'[j].node => i = j
  BY <1>1, <1>2, <1>4, <1>5, <1>9
<1>13. \A k \in 1 .. at - 1 : model.outputs[k] \in done \/ stack'[1].node = model.outputs[k]
  <2>1. 1 \in 1 .. len
    BY <1>3
  <2> QED
    BY <1>4, <1>5, <2>1
<1>14. StackInv'
  BY <1>1, <1>2, <1>4, <1>5, <1>7, <1>10, <1>11, <1>12, <1>13 DEF StackInv
<1> QED
  BY <1>6, <1>14

LEMMA DescendWalks ==
  ASSUME Typed, OrderInv, StackInv, Descend
  PROVE  OrderInv' /\ StackInv'
<1> DEFINE top == Top.node
           len == Len(stack)
<1>1. /\ AtNode /\ ~IsReached /\ Walking /\ Walking' /\ Precursor \notin pending \cup done
      /\ stack' = Append(stack, [node |-> Precursor, next |-> 1])
      /\ pending' = pending \cup {Precursor}
      /\ UNCHANGED <<model, phase, at, done, order, after>>
  BY DEF Descend, AtNode, Walking
<1>2. Before' = Before /\ Prec' = Prec /\ Wanted' = Wanted
  BY <1>1, SamePrecursors
<1>3. /\ len \in 1 .. len /\ len \in Nat \ {0} /\ DOMAIN stack = 1 .. len
      /\ Top = stack[len] /\ Precursor = Prec[top][Top.next] /\ Top.next \in 1 .. Len(Prec[top])
      /\ top \notin Range(model.inputs) /\ top \in Node /\ Precursor \in Node
      /\ Prec[top] \in Seq(Node) /\ Len(Prec[top]) \in Nat
  BY <1>1, TopFacts
<1>4. /\ DOMAIN stack' = 1 .. len + 1 /\ Len(stack') = len + 1 /\ stack' # <<>>
      /\ \A i \in 1 .. len : stack'[i] = stack[i]
      /\ stack'[len + 1].node = Precursor /\ stack'[len + 1].next = 1
  <2> DEFINE Frame == [node : Node, next : Nat \ {0}]
             new == [node |-> Precursor, next |-> 1]
  <2>1. stack \in Seq(Frame) /\ new \in Frame
    BY <1>3 DEF Typed
  <2>2. new.node = Precursor /\ new.next = 1 /\ stack' = Append(stack, new)
    BY <1>1
  <2> HIDE DEF Frame, new
  <2>3. /\ Append(stack, new) \in Seq(Frame)
        /\ Len(stack') = len + 1 /\ DOMAIN stack' = 1 .. len + 1
        /\ \A i \in 1 .. len : stack'[i] = stack[i]
        /\ stack'[len + 1] = new
    BY <2>1, <2>2, RangeOfAppend
  <2>4. len + 1 \in 1 .. len + 1
    BY <1>3
  <2>5. stack' # <<>>
    BY <2>3, <2>4
  <2> QED
    BY <2>2, <2>3, <2>5
<1>5. /\ done \subseteq Wanted
      /\ \A i \in 1 .. len : stack[i].node \in Wanted \ done
      /\ \A i \in 1 .. len : \A k \in 1 .. stack[i].next - 1 : Prec[stack[i].node][k] \in done
      /\ \A i \in 1 .. len - 1 :
                /\ stack[i].node \notin Range(model.inputs)
                /\ stack[i].next <= Len(Prec[stack[i].node])
                /\ stack[i + 1].node = Prec[stack[i].node][stack[i].next]
      /\ pending = {stack[i].node : i \in 2 .. len}
      /\ \A i, j \in 2 .. len : stack[i].node = stack[j].node => i = j
      /\ \A k \in 1 .. at - 1 :
                \/ model.outputs[k] \in done
                \/ stack # <<>> /\ stack[1].node = model.outputs[k]
  BY <1>1, <1>3 DEF StackInv
<1> HIDE DEF top, len
<1>6. OrderInv'
  BY <1>1, <1>2 DEF OrderInv
<1>7. Precursor \in Wanted
  <2>1. Precursor \in Range(Prec[top]) /\ Before[top] = Range(Prec[top])
    <3>1. DOMAIN Prec[top] = 1 .. Len(Prec[top])
      BY <1>3
    <3>2. Precursor \in Range(Prec[top])
      BY <1>3, <3>1 DEF Range
    <3>3. Before[top] = Range(Prec[top])
      BY <1>3, BeforeIsNodes DEF Typed
    <3> QED
      BY <3>2, <3>3
  <2>2. top \in Wanted
    BY <1>3, <1>5 DEF top
  <2> QED
    BY <2>1, <2>2, WantedIsClosed
<1>8. /\ \A i \in 1 .. len + 1 : i \in 1 .. len \/ i = len + 1
      /\ \A i \in 1 .. (len + 1) - 1 : i \in 1 .. len /\ (i = len \/ (i \in 1 .. len - 1 /\ i + 1 \in 1 .. len))
      /\ \A i \in 2 .. len + 1 : i = len + 1 \/ (i \in 2 .. len /\ i \in 1 .. len)
      /\ \A i \in 2 .. len : i \in 2 .. len + 1 /\ i \in 1 .. len
      /\ len + 1 \in 2 .. len + 1 /\ 1 .. 1 - 1 = {} /\ 1 \in 1 .. len
  BY <1>3
<1>9. \A i \in 1 .. len + 1 : stack'[i].node \in Wanted' \ done'
  BY <1>1, <1>2, <1>4, <1>5, <1>7, <1>8
<1>10. ASSUME NEW i \in 1 .. len + 1, NEW k \in 1 .. stack'[i].next - 1
       PROVE  Prec'[stack'[i].node][k] \in done'
  <2>1. CASE i \in 1 .. len
    BY <1>1, <1>2, <1>4, <1>5, <1>10, <2>1
  <2>2. CASE i = len + 1
    BY <1>4, <1>8, <1>10, <2>2
  <2> QED
    BY <1>8, <2>1, <2>2
<1>11. ASSUME NEW i \in 1 .. (len + 1) - 1
       PROVE  /\ stack'[i].node \notin Range(model'.inputs)
              /\ stack'[i].next <= Len(Prec'[stack'[i].node])
              /\ stack'[i + 1].node = Prec'[stack'[i].node][stack'[i].next]
  <2>1. CASE i \in 1 .. len - 1
    <3>1. stack'[i] = stack[i] /\ stack'[i + 1] = stack[i + 1]
      BY <1>4, <1>8, <2>1
    <3> QED
      BY <1>1, <1>2, <1>5, <2>1, <3>1
  <2>2. CASE i = len
    <3>1. /\ stack'[len] = stack[len] /\ stack'[len + 1].node = Precursor
          /\ stack[len].node = top /\ stack[len].next \in 1 .. Len(Prec[top])
      BY <1>3, <1>4 DEF top
    <3>2. stack[len].next <= Len(Prec[top])
      BY <1>3, <3>1
    <3> QED
      BY <1>1, <1>2, <1>3, <2>2, <3>1, <3>2
  <2> QED
    BY <1>8, <2>1, <2>2
<1>12. pending' = {stack'[i].node : i \in 2 .. len + 1}
  <2>1. pending' \subseteq {stack'[i].node : i \in 2 .. len + 1}
    BY <1>1, <1>4, <1>5, <1>8
  <2>2. {stack'[i].node : i \in 2 .. len + 1} \subseteq pending'
    BY <1>1, <1>4, <1>5, <1>8
  <2> QED
    BY <2>1, <2>2
<1>13. ASSUME NEW i \in 2 .. len + 1, NEW j \in 2 .. len + 1, stack'[i].node = stack'[j].node
       PROVE  i = j
  <2>1. \A h \in 2 .. len : stack'[h].node \in pending /\ stack'[h].node = stack[h].node
    BY <1>4, <1>5, <1>8
  <2>2. Precursor \notin pending /\ stack'[len + 1].node = Precursor
    BY <1>1, <1>4
  <2>3. CASE i \in 2 .. len /\ j \in 2 .. len
    BY <1>5, <1>13, <2>1, <2>3
  <2>4. CASE i = len + 1 \/ j = len + 1
    BY <1>8, <1>13, <2>1, <2>2, <2>4
  <2> QED
    BY <1>8, <2>3, <2>4
<1>14. \A k \in 1 .. at - 1 : model.outputs[k] \in done \/ stack'[1].node = model.outputs[k]
  BY <1>4, <1>5, <1>8
<1>15. StackInv'
  <2>1. DOMAIN stack' = 1 .. len + 1 /\ Len(stack') = len + 1 /\ stack' # <<>>
    BY <1>4
  <2>2. \A i \in 1 .. len + 1 : \A k \in 1 .. stack'[i].next - 1 : Prec'[stack'[i].node][k] \in done'
    BY <1>10
  <2>3. \A i \in 1 .. (len + 1) - 1 :
              /\ stack'[i].node \notin Range(model'.inputs)
              /\ stack'[i].next <= Len(Prec'[stack'[i].node])
              /\ stack'[i + 1].node = Prec'[stack'[i].node][stack'[i].next]
    BY <1>11
  <2>4. \A i, j \in 2 .. len + 1 : stack'[i].node = stack'[j].node => i = j
    BY <1>13
  <2>5. \A k \in 1 .. at' - 1 : model'.outputs[k] \in done' \/ stack'[1].node = model'.outputs[k]
    BY <1>1, <1>14
  <2>6. done' \subseteq Wanted'
    BY <1>1, <1>2, <1>5
  <2> QED
    BY <1>9, <1>12, <2>1, <2>2, <2>3, <2>4, <2>5, <2>6 DEF StackInv
<1> QED
  BY <1>6, <1>15

\* At its end a walk has ordered all that the outputs need.
LEMMA WalkedIsWanted ==
  ASSUME Typed, OrderInv, StackInv, Walked
  PROVE  done = Wanted /\ done = Range(order) /\ InOrder(order, Before)
<1>1. /\ InOrder(order, Before) /\ done = Range(order) /\ done \subseteq Wanted
      /\ stack = <<>> /\ at > Len(model.outputs) /\ at \in Nat
      /\ \A k \in 1 .. at - 1 : model.outputs[k] \in done
  BY DEF OrderInv, StackInv, Walked, Walking, Typed
<1>2. Range(model.outputs) \subseteq done
  <2>1. model.outputs \in Seq(Node)
    BY EvalOrderAssumption DEF Typed, IsModel
  <2>2. DOMAIN model.outputs = 1 .. Len(model.outputs) /\ Len(model.outputs) \in Nat
    BY <2>1
  <2>3. \A k \in 1 .. Len(model.outputs) : k \in 1 .. at - 1
    BY <1>1, <2>2
  <2> QED
    BY <1>1, <2>2, <2>3 DEF Range
<1>3. \A n \in done : Before[n] \subseteq done
  <2>1. order \in Seq(Node) /\ DOMAIN order = 1 .. Len(order) /\ Len(order) \in Nat
    BY DEF Typed
  <2>2. ASSUME NEW i \in DOMAIN order PROVE {order[j] : j \in 1 .. i - 1} \subseteq Range(order)
    <3>1. \A j \in 1 .. i - 1 : j \in DOMAIN order
      BY <2>1
    <3> QED
      BY <3>1 DEF Range
  <2> QED
    BY <1>1, <2>2 DEF InOrder, Range
<1>4. Wanted \subseteq done
  BY <1>2, <1>3, WantedIsClosed
<1> QED
  BY <1>1, <1>4

\* Derived dependencies are among what the tensor edges reach already.
LEMMA WantedIsBase ==
  ASSUME Typed, AfterInv
  PROVE  Wanted = BaseWanted
<1>1. \A n \in Node : WiredBefore[n] \subseteq Before[n]
  BY BeforeIsNodes DEF Typed
<1>2. BaseWanted \subseteq Wanted
  <2>1. \A n \in Wanted \cap Node : WiredBefore[n] \subseteq Wanted
    BY <1>1, WantedIsClosed
  <2> QED
    BY <2>1, WantedIsClosed
<1>3. \A n \in BaseWanted \cap Node : Before[n] \subseteq BaseWanted
  <2> SUFFICES ASSUME NEW n \in BaseWanted, n \in Node PROVE Before[n] \subseteq BaseWanted
    OBVIOUS
  <2>1. Range(after[n]) \subseteq BaseWanted
    BY DEF AfterInv
  <2>2. WiredBefore[n] \subseteq BaseWanted
    BY WantedIsClosed
  <2> QED
    BY <2>1, <2>2, BeforeIsNodes DEF Typed
<1>4. Wanted \subseteq BaseWanted
  BY <1>3, WantedIsClosed
<1> QED
  BY <1>2, <1>4

\* symbol_deps.
LEMMA DerivedDeps ==
  ASSUME Typed, OrderInv, StackInv, AfterInv, DeriveDeps
  PROVE  /\ AfterInv' /\ DefinersInv'
         /\ InputsAreSources => InputsInv'
<1>1. /\ Walked /\ phase = "base" /\ phase' = "walk" /\ model' = model
      /\ after' = [n \in Node |-> IF n \in done THEN DefinersFor(n) ELSE <<>>]
  BY DEF DeriveDeps
<1>2. done = Wanted /\ done = Range(order) /\ Wanted = BaseWanted /\ order \in Seq(Node)
  BY <1>1, WalkedIsWanted, WantedIsBase DEF Typed
<1>3. BaseWanted' = BaseWanted /\ Ancestors' = Ancestors
  BY <1>1 DEF BaseWanted, WiredBefore, Ancestors, IsInput
<1>4. /\ \A n \in done : /\ \A d \in Range(after'[n]) : \E s \in Symbol : Waits(n, s) /\ d = Definer(s)
                         /\ \A s \in Symbol : Waits(n, s) => Definer(s) \in Range(after'[n])
      /\ \A n \in Node \ done : Range(after'[n]) = {}
  <2>1. ASSUME NEW n \in done
        PROVE  /\ \A d \in Range(after'[n]) : \E s \in Symbol : Waits(n, s) /\ d = Definer(s)
               /\ \A s \in Symbol : Waits(n, s) => Definer(s) \in Range(after'[n])
    <3>1. n \in Node
      BY DEF Typed
    <3>2. after'[n] = DefinersFor(n)
      BY <1>1, <3>1
    <3> QED
      BY <1>2, <3>1, <3>2, DefinersAreNodes DEF Typed
  <2>2. \A n \in Node \ done : Range(after'[n]) = {}
    BY <1>1 DEF Range
  <2> QED
    BY <2>1, <2>2
<1>5. ASSUME NEW n \in Node, NEW d \in Range(after'[n])
      PROVE  /\ n \in BaseWanted /\ d \in BaseWanted /\ d # n
             /\ n \notin Ancestors[d] /\ d \notin Range(model.inputs)
  <2>1. n \in done
    BY <1>4
  <2>2. PICK s \in Symbol : Waits(n, s) /\ d = Definer(s)
    BY <1>4, <2>1
  <2>3. Claims(s) # {} /\ d # n /\ n \notin Ancestors[d] /\ ~IsInput(d)
    BY <2>2 DEF Waits
  <2>4. d \in Range(order)
    BY <1>2, <2>2, <2>3, DefinerIsFirst DEF Typed
  <2> QED
    BY <1>2, <2>1, <2>3, <2>4 DEF IsInput
<1>6. AfterInv'
  BY <1>1, <1>3, <1>5 DEF AfterInv, IsInput
<1>7. ASSUME NEW s \in Symbol, Minters(s) # {}, ~IsCarried(s)
      PROVE  \E d \in Minters(s) : \A n \in BaseWanted :
                    IsMentioned(n, s) => \/ d = n \/ d \in Range(model.wires[n])
                                         \/ n \in Ancestors[d] \/ d \in Range(after'[n])
  <2>1. PICK m \in model.mints \cap BaseWanted : s \in model.shapes[m]
    BY <1>7 DEF Minters
  <2>2. Claims(s) # {}
    <3>1. model.inputs \in Seq(Node)
      BY EvalOrderAssumption DEF Typed, IsModel
    <3>2. PICK i \in 1 .. Len(order) : order[i] = m
      <4>1. DOMAIN order = 1 .. Len(order)
        BY <1>2
      <4> QED
        BY <1>2, <2>1, <4>1 DEF Range
    <3>3. /\ Len(model.inputs) + i \in DOMAIN Claimants
          /\ Claimants[Len(model.inputs) + i] = order[i]
      BY <1>2, <3>1 DEF Claimants
    <3>4. Len(model.inputs) + i \in Claims(s)
      BY <2>1, <3>2, <3>3 DEF Claims
    <3> QED
      BY <3>4
  <2> DEFINE d == Definer(s)
  <2>3. d \in Node /\ s \in model.shapes[d] /\ (IsInput(d) \/ d \in model.mints \cap Range(order))
    BY <1>2, <2>2, DefinerIsFirst DEF Typed
  <2>4. ~IsInput(d)
    BY <1>7, <2>3 DEF IsInput, IsCarried
  <2>5. d \in Minters(s)
    BY <1>2, <2>3, <2>4 DEF Minters
  <2>6. ASSUME NEW n \in BaseWanted, IsMentioned(n, s), d # n, d \notin Range(model.wires[n]),
               n \notin Ancestors[d]
        PROVE  d \in Range(after'[n])
    <3>1. Waits(n, s)
      BY <2>2, <2>4, <2>6 DEF Waits
    <3> QED
      BY <1>2, <1>4, <3>1
  <2> QED
    BY <2>5, <2>6
<1>8. DefinersInv'
  <2>1. \A s \in Symbol : /\ Minters(s)' = Minters(s) /\ IsCarried(s)' = IsCarried(s)
                          /\ \A n \in BaseWanted : IsMentioned(n, s)' = IsMentioned(n, s)
    BY <1>1, <1>3 DEF Minters, IsCarried, IsMentioned
  <2> QED
    BY <1>1, <1>3, <1>7, <2>1 DEF DefinersInv
<1>9. ASSUME InputsAreSources PROVE InputsInv'
  <2> SUFFICES ASSUME NEW n \in Range(model.inputs)
               PROVE  model.wires[n] = <<>> /\ Range(after'[n]) = {}
    BY <1>1 DEF InputsInv
  <2>1. model.wires[n] = <<>> /\ model.mentions[n] \subseteq model.shapes[n] /\ n \in Node
    <3>1. model.wires[n] = <<>> /\ model.mentions[n] \subseteq model.shapes[n]
      BY <1>9 DEF InputsAreSources, Typed
    <3>2. model.inputs \in Seq(Node)
      BY EvalOrderAssumption DEF Typed, IsModel
    <3> QED
      BY <3>1, <3>2 DEF Range
  <2>2. Range(after'[n]) = {}
    <3> SUFFICES ASSUME NEW d \in Range(after'[n]) PROVE FALSE
      OBVIOUS
    <3>1. n \in done
      BY <1>4, <2>1
    <3>2. PICK s \in Symbol : Waits(n, s) /\ d = Definer(s)
      BY <1>4, <3>1
    <3>3. Claims(s) # {} /\ ~IsInput(Definer(s)) /\ s \in model.shapes[n]
      BY <2>1, <3>2 DEF Waits, IsMentioned
    <3>4. PICK i \in DOMAIN model.inputs : n = model.inputs[i]
      BY DEF Range
    <3> QED
      BY <1>2, <3>3, <3>4, DefinerIsFirst DEF Typed
  <2> QED
    BY <2>1, <2>2
<1> QED
  BY <1>6, <1>8, <1>9

-----------------------------------------------------------------------------
(* The third order.                                                         *)

\* The edges of the third order are those of the second walk.
LEMMA UpsAreBefore ==
  ASSUME Typed, AfterInv, InputsInv, NEW needed, needed = Wanted, NEW n \in Node
  PROVE  (IF n \in needed THEN Range(model.wires[n]) ELSE {}) \cup Range(after[n])
            = IF n \in Wanted THEN Before[n] ELSE {}
<1>1. Wanted = BaseWanted
  BY WantedIsBase
<1>2. CASE n \notin Wanted
  <2>1. Range(after[n]) = {}
    BY <1>1, <1>2 DEF AfterInv
  <2> QED
    BY <1>2, <2>1
<1>3. CASE n \in Wanted /\ n \in Range(model.inputs)
  <2>1. Range(model.wires[n]) = {} /\ Range(after[n]) = {}
    <3>1. model.wires[n] = <<>> /\ Range(after[n]) = {}
      BY <1>3 DEF InputsInv
    <3>2. Range(<<>>) = {}
      BY DEF Range
    <3> QED
      BY <3>1, <3>2
  <2>2. Before[n] = {}
    BY <1>3, BeforeIsNodes DEF Typed
  <2> QED
    BY <1>3, <2>1, <2>2
<1>4. CASE n \in Wanted /\ n \notin Range(model.inputs)
  BY <1>4, BeforeIsNodes DEF Typed
<1> QED
  BY <1>2, <1>3, <1>4

LEMMA StartRamKeeps ==
  ASSUME Typed, OrderInv, StackInv, AfterInv, InputsInv, StartRam
  PROVE  OrderInv' /\ RamInv'
<1>1. /\ Walked /\ phase' = "ram" /\ toCompute' = Range(order) /\ candidates' = {} /\ cache' = <<>>
      /\ done' = {} /\ order' = <<>> /\ UNCHANGED <<model, after>>
  BY DEF StartRam, StartOver
<1>2. Before' = Before /\ Wanted' = Wanted
  BY <1>1, SamePrecursors
<1>3. done = Wanted /\ done = Range(order) /\ InOrder(order, Before)
  BY <1>1, WalkedIsWanted
<1>4. OrderInv'
  <2>1. InOrder(<<>>, Before)
    BY DEF InOrder, IsInjective
  <2> QED
    BY <1>1, <1>2, <2>1 DEF OrderInv
<1>5. \A n \in Node : Ups(n)' = IF n \in Wanted THEN Before[n] ELSE {}
  <2>1. \A n \in Node : Ups(n)' = (IF n \in Range(order) THEN Range(model.wires[n]) ELSE {})
                                    \cup Range(after[n])
    BY <1>1 DEF Ups
  <2> QED
    BY <1>3, <2>1, UpsAreBefore
<1>6. ASSUME NEW T \in SUBSET Node, T # {} PROVE \E n \in T : Ups(n)' \cap T = {}
  <2>1. CASE \E n \in T : n \notin Wanted
    BY <1>5, <2>1
  <2>2. CASE T \subseteq Wanted
    <3> DEFINE places == {i \in DOMAIN order : order[i] \in T}
    <3>1. DOMAIN order = 1 .. Len(order) /\ Len(order) \in Nat
      BY DEF Typed
    <3>2. places \in SUBSET Nat /\ places # {}
      BY <1>3, <1>6, <2>2, <3>1 DEF Range
    <3>3. PICK i \in places : \A j \in places : i <= j
      <4> HIDE DEF places
      <4> QED
        BY <3>2, LeastElement
    <3>4. i \in DOMAIN order /\ order[i] \in T /\ order[i] \in Node
      OBVIOUS
    <3>5. \A j \in 1 .. i - 1 : order[j] \notin T
      <4> SUFFICES ASSUME NEW j \in 1 .. i - 1, order[j] \in T PROVE FALSE
        OBVIOUS
      <4>1. j \in DOMAIN order /\ ~(i <= j)
        BY <3>1, <3>4
      <4>2. j \in places
        BY <4>1
      <4> HIDE DEF places
      <4> QED
        BY <3>3, <4>1, <4>2
    <3>6. Before[order[i]] \subseteq {order[j] : j \in 1 .. i - 1}
      BY <1>3, <3>4 DEF InOrder
    <3>7. PICK n \in Node : n = order[i]
      BY <3>4
    <3>8. Ups(n)' \subseteq {order[j] : j \in 1 .. i - 1}
      BY <1>5, <3>6, <3>7
    <3>9. Ups(n)' \cap T = {}
      BY <3>5, <3>8
    <3> QED
      BY <3>4, <3>7, <3>9
  <2> QED
    BY <2>1, <2>2
<1>7. RamInv'
  BY <1>1, <1>2, <1>3, <1>6 DEF RamInv
<1> QED
  BY <1>4, <1>7

\* Path::follow_one: what is put in order was not, and all it needs is.
LEMMA FollowOneKeeps ==
  ASSUME Typed, OrderInv, AfterInv, InputsInv, RamInv, phase = "ram",
         NEW next \in toCompute \ done, Ups(next) \subseteq done,
         NEW known, known = cache \/ known = Known, FollowOne(next, known),
         UNCHANGED <<model, after, toCompute>>,
         at' <= Len(model.inputs) => done \cup {next} \subseteq {model.inputs[k] : k \in 1 .. at' - 1}
  PROVE  OrderInv' /\ RamInv' /\ phase' = "ram"
<1> DEFINE waiting == (candidates \ {next}) \cup Downs(next)
<1>1. /\ order' = Append(order, next) /\ done' = done \cup {next} /\ candidates' = waiting
      /\ cache' = Forgotten(known, next, waiting) /\ phase' = "ram"
  BY DEF FollowOne
<1>2. Before' = Before /\ Wanted' = Wanted
  BY SamePrecursors
<1>3. \A n \in Node : Ups(n)' = Ups(n)
  BY DEF Ups
<1>4. /\ toCompute = Wanted /\ done \subseteq toCompute /\ toCompute \subseteq Node
      /\ candidates \subseteq toCompute \ done
      /\ \A n \in toCompute \ done : Ups(n) \cap done # {} => n \in candidates
      /\ DOMAIN cache \subseteq candidates
      /\ \A c \in DOMAIN cache : cache[c] = Starters(c)
      /\ InOrder(order, Before) /\ done = Range(order) /\ order \in Seq(Node)
  BY DEF RamInv, OrderInv, Typed
<1>5. \A n \in Node : Ups(n) = IF n \in Wanted THEN Before[n] ELSE {}
  BY <1>4, UpsAreBefore DEF Ups
<1>6. OrderInv'
  <2>1. Before[next] \subseteq Range(order)
    BY <1>4, <1>5
  <2>2. InOrder(Append(order, next), Before)
    BY <1>4, <2>1, AppendedInOrder
  <2> QED
    BY <1>1, <1>2, <2>2 DEF OrderInv
<1>7. \A n \in done : Ups(n) \subseteq done
  <2>1. order \in Seq(Node) /\ DOMAIN order = 1 .. Len(order) /\ Len(order) \in Nat
    BY DEF Typed
  <2>2. ASSUME NEW i \in DOMAIN order PROVE Before[order[i]] \subseteq done
    <3>1. \A j \in 1 .. i - 1 : j \in DOMAIN order
      BY <2>1
    <3>2. {order[j] : j \in 1 .. i - 1} \subseteq done
      BY <1>4, <3>1 DEF Range
    <3> QED
      BY <1>4, <3>2 DEF InOrder
  <2>3. \A n \in done : Before[n] \subseteq done
    BY <1>4, <2>2 DEF Range
  <2> QED
    BY <1>4, <1>5, <2>3
<1>8. Downs(next) \subseteq toCompute \ (done \cup {next})
  <2> SUFFICES ASSUME NEW m \in Node, next \in Ups(m) PROVE m \in toCompute \ (done \cup {next})
    BY DEF Downs
  <2>1. m \in toCompute
    BY <1>4, <1>5
  <2> QED
    BY <1>7, <2>1
<1>9. waiting \subseteq toCompute \ done'
  BY <1>1, <1>4, <1>8
<1>10. \A n \in toCompute \ done' : Ups(n) \cap done' # {} => n \in waiting
  <2> SUFFICES ASSUME NEW n \in toCompute \ done', Ups(n) \cap done' # {} PROVE n \in waiting
    OBVIOUS
  <2>1. CASE next \in Ups(n)
    BY <1>4, <2>1 DEF Downs
  <2>2. CASE next \notin Ups(n)
    BY <1>1, <1>4, <2>2
  <2> QED
    BY <2>1, <2>2
<1>11. DOMAIN known \subseteq candidates /\ \A c \in DOMAIN known : known[c] = Starters(c)
  BY <1>4, BestIsCandidate
<1> HIDE DEF waiting
<1>12. /\ DOMAIN cache' = DOMAIN known \ {next}
       /\ \A c \in DOMAIN cache' : cache'[c] = IF c \in waiting THEN known[c] \ {next} ELSE known[c]
  BY <1>1 DEF Forgotten
<1>13. DOMAIN cache' \subseteq waiting
  BY <1>11, <1>12 DEF waiting
<1>14. ASSUME NEW c \in DOMAIN cache' PROVE cache'[c] = Starters(c)'
  <2>1. c \in waiting /\ c # next /\ c \in candidates /\ c \in Node
    BY <1>4, <1>11, <1>12, <1>13
  <2>2. cache'[c] = Starters(c) \ {next}
    BY <1>11, <1>12, <2>1
  <2>3. Starters(c) = {n \in Reach({c}, Upstream) : Ups(n) = {}}
    BY <2>1, StartersAreUpstream
  <2>4. Starters(c)' = {n \in Reach({c}, Upstream') : Ups(n)' = {}}
    BY DEF Starters, Upstream
  <2>5. /\ Upstream \in [Node -> SUBSET Node] /\ \A n \in Node : Upstream[n] = Ups(n) \ done
        /\ \A n \in Node : Ups(n) \in SUBSET Node
    BY UpsAreNodes
  <2>6. /\ \A n \in Node : Upstream'[n] = Upstream[n] \ {next}
        /\ Upstream' \in [Node -> SUBSET Node]
    <3>1. \A n \in Node : Upstream'[n] = Ups(n) \ done'
      BY <1>3 DEF Upstream
    <3>2. \A n \in Node : Upstream'[n] = Upstream[n] \ {next}
      BY <1>1, <2>5, <3>1
    <3>3. \A n \in Node : Upstream'[n] \in SUBSET Node
      BY <2>5, <3>2
    <3>4. Upstream' \in [Node -> SUBSET Node]
      BY <3>3 DEF Upstream
    <3> QED
      BY <3>2, <3>4
  <2>7. next \in Node \ {c} /\ Upstream[next] = {} /\ {c} \in SUBSET Node
    BY <1>4, <2>1, <2>5
  <2>8. Reach({c}, Upstream') = Reach({c}, Upstream) \ {next}
    <3> DEFINE step == Upstream
               less == Upstream'
    <3>1. step \in [Node -> SUBSET Node] /\ less \in [Node -> SUBSET Node]
          /\ step[next] = {} /\ \A n \in Node : less[n] = step[n] \ {next}
      BY <2>5, <2>6, <2>7
    <3> HIDE DEF step, less
    <3>2. Reach({c}, less) = Reach({c}, step) \ {next}
      BY <2>7, <3>1, ReachWithout
    <3> QED
      BY <3>2 DEF step, less
  <2>9. Reach({c}, Upstream) \subseteq Node
    BY <2>5, <2>7, ReachIsTheClosure
  <2> QED
    BY <1>3, <2>2, <2>3, <2>4, <2>8, <2>9
<1>15. \A T \in SUBSET Node : T # {} => \E n \in T : Ups(n)' \cap T = {}
  <2> SUFFICES ASSUME NEW T \in SUBSET Node, T # {} PROVE \E n \in T : Ups(n)' \cap T = {}
    OBVIOUS
  <2>1. PICK n \in T : Ups(n) \cap T = {}
    BY DEF RamInv
  <2> QED
    BY <1>3, <2>1
<1>16. \A n \in toCompute \ done' : Ups(n)' \cap done' # {} => n \in waiting
  BY <1>3, <1>4, <1>10
<1>17. RamInv'
  BY <1>1, <1>2, <1>4, <1>9, <1>13, <1>14, <1>15, <1>16 DEF RamInv
<1> QED
  BY <1>1, <1>6, <1>17

\* Something can always follow: eval_order_opt_ram_for_nodes.
LEMMA RamStep ==
  ASSUME InputsAreSources, Typed, OrderInv, AfterInv, InputsInv, RamInv, phase = "ram",
         FollowInput \/ FollowReady \/ FollowStarter \/ FollowFresh
  PROVE  OrderInv' /\ RamInv' /\ phase' = "ram" /\ UNCHANGED <<model, after>>
<1>1. UNCHANGED <<model, after, toCompute>>
  BY DEF FollowInput, FollowReady, FollowStarter, FollowFresh
<1>2. /\ toCompute = Wanted /\ done \subseteq toCompute /\ toCompute \in SUBSET Node
      /\ candidates \subseteq toCompute \ done
      /\ \A n \in toCompute \ done : Ups(n) \cap done # {} => n \in candidates
      /\ DOMAIN cache \subseteq candidates
      /\ \A c \in DOMAIN cache : cache[c] = Starters(c)
  BY DEF RamInv, Typed
<1>3. \A n \in Node : Ups(n) = IF n \in Wanted THEN Before[n] ELSE {}
  BY <1>2, UpsAreBefore DEF Ups
<1>4. \A n \in toCompute : Ups(n) \subseteq toCompute
  BY <1>2, <1>3, WantedIsClosed
<1>5. CASE FollowInput
  <2> DEFINE next == model.inputs[at]
  <2>1. /\ at <= Len(model.inputs) /\ at' = at + 1 /\ at \in Nat \ {0}
        /\ IF next \in toCompute THEN FollowOne(next, cache)
                                 ELSE UNCHANGED <<phase, order, done, candidates, cache>>
    BY <1>5 DEF FollowInput, Typed
  <2>2. model.inputs \in Seq(Node)
    BY EvalOrderAssumption DEF Typed, IsModel
  <2>3. /\ at \in DOMAIN model.inputs /\ DOMAIN model.inputs = 1 .. Len(model.inputs)
        /\ \A k \in 1 .. at - 1 : k \in DOMAIN model.inputs /\ k # at /\ k \in 1 .. (at + 1) - 1
        /\ at \in 1 .. (at + 1) - 1
    BY <2>1, <2>2
  <2>4. /\ done \subseteq {model.inputs[k] : k \in 1 .. at - 1}
        /\ done \cup {next} \subseteq {model.inputs[k] : k \in 1 .. at' - 1}
    <3>1. done \subseteq {model.inputs[k] : k \in 1 .. at - 1}
      BY <2>1 DEF RamInv
    <3> QED
      BY <2>1, <2>3, <3>1
  <2>5. CASE next \in toCompute
    <3>1. next \notin done
      <4>1. IsInjective(model.inputs)
        BY DEF InputsAreSources, Typed
      <4>2. \A k \in 1 .. at - 1 : model.inputs[k] # next
        BY <2>3, <4>1 DEF IsInjective
      <4> QED
        BY <2>4, <4>2
    <3>2. next \in Range(model.inputs) /\ next \in Node
      BY <2>2, <2>3 DEF Range
    <3>3. Ups(next) = {}
      <4>1. Before[next] = {}
        BY <3>2, BeforeIsNodes DEF Typed
      <4> HIDE DEF next
      <4> QED
        BY <1>3, <3>2, <4>1
    <3>4. FollowOne(next, cache)
      BY <2>1, <2>5
    <3>5. \E x \in toCompute \ done : x = next
      BY <2>5, <3>1
    <3> HIDE DEF next
    <3>6. PICK x \in toCompute \ done :
              /\ FollowOne(x, cache) /\ Ups(x) \subseteq done
              /\ done \cup {x} \subseteq {model.inputs[k] : k \in 1 .. at' - 1}
      BY <2>4, <3>3, <3>4, <3>5
    <3> QED
      BY <1>1, <3>6, FollowOneKeeps
  <2>6. CASE next \notin toCompute
    <3>1. UNCHANGED <<phase, order, done, candidates, cache>>
      BY <2>1, <2>6
    <3>2. Before' = Before /\ Wanted' = Wanted
      BY <1>1, SamePrecursors
    <3>3. OrderInv'
      BY <3>1, <3>2 DEF OrderInv
    <3>4. \A n \in Node : Ups(n)' = Ups(n) /\ Starters(n)' = Starters(n)
      BY <1>1, <3>1 DEF Ups, Starters
    <3>5. \A c \in DOMAIN cache : c \in Node /\ Starters(c)' = Starters(c)
      BY <1>2, <3>4
    <3>6. \A T \in SUBSET Node : T # {} => \E n \in T : Ups(n)' \cap T = {}
      <4> SUFFICES ASSUME NEW T \in SUBSET Node, T # {} PROVE \E n \in T : Ups(n)' \cap T = {}
        OBVIOUS
      <4>1. PICK n \in T : Ups(n) \cap T = {}
        BY DEF RamInv
      <4> QED
        BY <3>4, <4>1
    <3>7. \A n \in toCompute \ done : Ups(n)' \cap done # {} => n \in candidates
      BY <1>2, <3>4
    <3>8. done \subseteq {model.inputs[k] : k \in 1 .. at' - 1}
      BY <2>4
    <3>9. RamInv'
      BY <1>1, <1>2, <3>1, <3>2, <3>5, <3>6, <3>7, <3>8 DEF RamInv
    <3> QED
      BY <1>1, <3>1, <3>3, <3>9
  <2> QED
    BY <2>5, <2>6
<1>6. ASSUME Choosing, at' = at, NEW x \in toCompute \ done, Ups(x) \subseteq done,
             FollowOne(x, cache) \/ FollowOne(x, Known)
      PROVE  OrderInv' /\ RamInv' /\ phase' = "ram"
  <2>1. at' > Len(model.inputs) /\ at' \in Nat
    BY <1>6 DEF Choosing, Typed
  <2>2. Len(model.inputs) \in Nat
    <3>1. model.inputs \in Seq(Node)
      BY EvalOrderAssumption DEF Typed, IsModel
    <3> QED
      BY <3>1
  <2>3. ~(at' <= Len(model.inputs))
    BY <2>1, <2>2
  <2> QED
    BY <1>1, <1>6, <2>3, FollowOneKeeps
<1>7. CASE FollowReady
  <2>1. Choosing /\ Ready # {} /\ FollowOne(Min(Ready), cache) /\ at' = at
    BY <1>7 DEF FollowReady
  <2>2. Ready \subseteq candidates /\ \A c \in Ready : Ups(c) \subseteq done
    BY DEF Ready, IsReady
  <2>3. Min(Ready) \in Ready
    BY <1>2, <2>1, <2>2, MinIsLeast, NodesAreNumbers
  <2>4. PICK x \in Ready : x = Min(Ready)
    BY <2>3
  <2> QED
    BY <1>1, <1>2, <1>6, <2>1, <2>2, <2>4
<1>8. CASE FollowStarter
  <2>1. /\ Choosing /\ Ready = {} /\ candidates # {} /\ at' = at
        /\ Known[Best] # {} => FollowOne(Min(Known[Best]), Known)
    BY <1>8 DEF FollowStarter
  <2>2. PICK c \in candidates : c = Best
    BY <2>1, BestIsCandidate
  <2>3. c \in toCompute \ done /\ c \in Node
    BY <1>2
  <2>4. Known[c] = Starters(c)
    BY <1>2, <2>2, BestIsCandidate
  <2> DEFINE T == Reach({c}, Upstream)
  <2>5. /\ Upstream \in [Node -> SUBSET Node]
        /\ \A n \in Node : Ups(n) \in SUBSET Node /\ Upstream[n] = Ups(n) \ done
    BY UpsAreNodes
  <2>6. /\ T \subseteq Node /\ {c} \subseteq T /\ \A n \in T : Upstream[n] \subseteq T
        /\ \A R : {c} \subseteq R /\ (\A n \in R \cap Node : Upstream[n] \subseteq R) => T \subseteq R
    <3>1. {c} \in SUBSET Node
      BY <2>3
    <3> QED
      BY <2>5, <3>1, ReachIsTheClosure
  <2>7. Starters(c) = {n \in T : Ups(n) = {}}
    BY <2>3, StartersAreUpstream
  <2> HIDE DEF T
  <2>8. T \subseteq toCompute \ done
    <3>1. \A n \in (toCompute \ done) \cap Node : Upstream[n] \subseteq toCompute \ done
      BY <1>4, <2>5
    <3> QED
      BY <2>3, <2>6, <3>1
  <2>9. Starters(c) # {}
    <3>1. PICK n \in T : Ups(n) \cap T = {}
      <4>1. T \in SUBSET Node /\ T # {}
        BY <2>6
      <4> QED
        BY <4>1 DEF RamInv
    <3>2. Ups(n) \subseteq done
      BY <2>5, <2>6, <3>1
    <3>3. Ups(n) = {}
      <4> SUFFICES ASSUME Ups(n) # {} PROVE FALSE
        OBVIOUS
      <4>1. n \in candidates
        BY <1>2, <2>8, <3>2
      <4>2. n \in Ready
        BY <3>2, <4>1 DEF Ready, IsReady
      <4> QED
        BY <2>1, <4>2
    <3> QED
      BY <2>7, <3>3
  <2>10. Starters(c) \in SUBSET Nat
    BY <2>6, <2>7, NodesAreNumbers
  <2>11. Min(Starters(c)) \in Starters(c)
    BY <2>9, <2>10, MinIsLeast
  <2>12. PICK x \in Starters(c) : FollowOne(x, Known)
    BY <2>1, <2>2, <2>4, <2>9, <2>11
  <2> QED
    BY <1>1, <1>6, <2>1, <2>7, <2>8, <2>12
<1>9. CASE FollowFresh
  <2> DEFINE fresh == {n \in toCompute \ done : IsReady(n)}
             T == toCompute \ done
  <2>1. /\ Choosing /\ at' = at
        /\ fresh # {} => FollowOne(Min(fresh), cache)
    BY <1>9 DEF FollowFresh
  <2>2. T \in SUBSET Node /\ T # {}
    <3>1. ~(Range(model.outputs) \subseteq done)
      <4>1. ~OutputsAreDone
        BY <2>1 DEF Choosing
      <4> QED
        BY <4>1 DEF OutputsAreDone
    <3> QED
      BY <1>2, <3>1, WantedIsClosed
  <2>3. PICK n \in T : Ups(n) \cap T = {}
    <3> HIDE DEF T
    <3> QED
      BY <2>2 DEF RamInv
  <2>4. n \in fresh
    BY <1>4, <2>3 DEF IsReady
  <2>5. fresh \in SUBSET Nat
    BY <2>2, NodesAreNumbers
  <2>6. Min(fresh) \in fresh
    <3> HIDE DEF fresh
    <3> QED
      BY <2>4, <2>5, MinIsLeast
  <2>7. FollowOne(Min(fresh), cache)
    <3>1. fresh # {}
      BY <2>4
    <3> HIDE DEF fresh
    <3> QED
      BY <2>1, <3>1
  <2>8. PICK x \in toCompute \ done : x = Min(fresh) /\ Ups(x) \subseteq done
    BY <2>6 DEF IsReady
  <2> QED
    BY <1>1, <1>6, <2>1, <2>7, <2>8
<1> QED
  BY <1>5, <1>7, <1>8, <1>9

-----------------------------------------------------------------------------
(* The plan.                                                                *)

LEMMA BuiltIsWanted ==
  ASSUME Typed, OrderInv, StackInv, RamInv, AfterInv, InputsInv, Build
  PROVE  done = Wanted /\ done = Range(order) /\ InOrder(order, Before)
<1>1. CASE Walked
  BY <1>1, WalkedIsWanted
<1>2. CASE phase = "ram" /\ OutputsAreDone
  <2>1. /\ toCompute = Wanted /\ done \subseteq Wanted /\ InOrder(order, Before)
        /\ done = Range(order) /\ order \in Seq(Node)
    BY <1>2 DEF RamInv, OrderInv, Typed
  <2>2. Range(model.outputs) \subseteq done
    BY <1>2 DEF OutputsAreDone
  <2>3. \A n \in done : Before[n] \subseteq done
    <3>1. DOMAIN order = 1 .. Len(order) /\ Len(order) \in Nat
      BY <2>1
    <3>2. ASSUME NEW i \in DOMAIN order PROVE {order[j] : j \in 1 .. i - 1} \subseteq Range(order)
      <4>1. \A j \in 1 .. i - 1 : j \in DOMAIN order
        BY <3>1
      <4> QED
        BY <4>1 DEF Range
    <3> QED
      BY <2>1, <3>2 DEF InOrder, Range
  <2>4. Wanted \subseteq done
    BY <2>2, <2>3, WantedIsClosed
  <2> QED
    BY <2>1, <2>4
<1> QED
  BY <1>1, <1>2 DEF Build

\* Constants can be left out of an order.
LEMMA FilteredInOrder ==
  ASSUME NEW seq \in Seq(Node), NEW before \in [Node -> SUBSET Node], InOrder(seq, before),
         NEW consts, NEW run \in Seq(Node), Range(run) = Range(seq) \cap (Node \ consts),
         NEW place, Selects(run, seq, Node \ consts, Len(seq), place)
  PROVE  /\ IsInjective(run) /\ Range(run) = Range(seq) \ consts
         /\ \A i \in DOMAIN run : before[run[i]] \ consts \subseteq {run[j] : j \in 1 .. i - 1}
<1>1. run \in Seq(Node) /\ Range(run) = Range(seq) \cap (Node \ consts)
  OBVIOUS
<1>3. /\ DOMAIN run = 1 .. Len(run) /\ DOMAIN seq = 1 .. Len(seq) /\ Len(run) \in Nat /\ Len(seq) \in Nat
      /\ place \in [1 .. Len(run) -> 1 .. Len(seq)]
      /\ \A j \in 1 .. Len(run) : run[j] = seq[place[j]] /\ run[j] \in Node \ consts
      /\ \A j, k \in 1 .. Len(run) : j < k => place[j] < place[k]
      /\ \A h \in 1 .. Len(seq) : seq[h] \in Node \ consts => \E j \in 1 .. Len(run) : place[j] = h
  BY <1>1 DEF Selects
<1>4. Range(run) = Range(seq) \ consts
  <2>1. Range(seq) \subseteq Node
    BY DEF Range
  <2> QED
    BY <1>1, <2>1
<1>5. ASSUME NEW a \in 1 .. Len(run), NEW b \in 1 .. Len(run), run[a] = run[b] PROVE a = b
  <2>1. place[a] \in 1 .. Len(seq) /\ place[b] \in 1 .. Len(seq) /\ seq[place[a]] = seq[place[b]]
    BY <1>3, <1>5
  <2>2. place[a] = place[b]
    BY <1>3, <2>1 DEF InOrder, IsInjective
  <2>3. ~(a < b) /\ ~(b < a)
    BY <1>3, <2>1, <2>2
  <2> QED
    BY <2>3
<1>6. IsInjective(run)
  BY <1>3, <1>5 DEF IsInjective
<1>7. ASSUME NEW i \in 1 .. Len(run), NEW n \in before[run[i]] \ consts
      PROVE  n \in {run[j] : j \in 1 .. i - 1}
  <2>1. place[i] \in 1 .. Len(seq) /\ run[i] = seq[place[i]] /\ run[i] \in Node
    BY <1>3
  <2>2. n \in {seq[h] : h \in 1 .. place[i] - 1} /\ n \in Node
    BY <1>3, <1>7, <2>1 DEF InOrder
  <2>3. PICK h \in 1 .. place[i] - 1 : n = seq[h]
    BY <2>2
  <2>4. h \in 1 .. Len(seq) /\ h < place[i]
    BY <1>3, <2>1
  <2>5. PICK j \in 1 .. Len(run) : place[j] = h
    BY <1>3, <1>7, <2>2, <2>3, <2>4
  <2>6. run[j] = n
    BY <1>3, <2>3, <2>5
  <2>7. ~(i < j) /\ i # j
    BY <1>3, <2>1, <2>4, <2>5
  <2>8. j \in 1 .. i - 1
    BY <1>3, <2>7
  <2> QED
    BY <2>6, <2>8
<1> QED
  BY <1>1, <1>3, <1>4, <1>6, <1>7

\* The plan of a walk or of the third order.
LEMMA BuiltPlan ==
  ASSUME Typed, OrderInv, StackInv, RamInv, AfterInv, InputsInv, Build
  PROVE  /\ order' \in Seq(Node) /\ IsInjective(order') /\ Range(order') = Wanted \ model.consts
         /\ \A i \in DOMAIN order' :
                Before[order'[i]] \ model.consts \subseteq {order'[j] : j \in 1 .. i - 1}
<1>1. order' = Only(order, Node \ model.consts)
  BY DEF Build
<1>2. done = Wanted /\ done = Range(order) /\ InOrder(order, Before) /\ order \in Seq(Node)
  BY BuiltIsWanted DEF Typed
<1>3. Before \in [Node -> SUBSET Node]
  BY BeforeIsNodes DEF Typed
<1>4. order' \in Seq(Node) /\ Range(order') = Range(order) \cap (Node \ model.consts)
  BY <1>1, <1>2, OnlyRange
<1>5. PICK place : Selects(order', order, Node \ model.consts, Len(order), place)
  BY <1>1, <1>2, OnlyKeeps
<1> QED
  BY <1>2, <1>3, <1>4, <1>5, FilteredInOrder

LEMMA BuildMakesPlan ==
  ASSUME Typed, OrderInv, StackInv, RamInv, AfterInv, InputsInv, Build
  PROVE  OrderIsPlan'
<1>1. /\ phase' = "built" /\ order' = Only(order, Node \ model.consts)
      /\ UNCHANGED <<model, after, done>>
  BY DEF Build
<1>4. /\ order' \in Seq(Node) /\ IsInjective(order') /\ Range(order') = Wanted \ model.consts
      /\ \A i \in DOMAIN order' : Before[order'[i]] \ model.consts \subseteq {order'[j] : j \in 1 .. i - 1}
  BY BuiltPlan
<1>5. Before' = Before /\ Wanted' = Wanted
  BY <1>1, SamePrecursors
<1>6. /\ IsInjective(order')
      /\ Range(order') = Reach(Range(model'.outputs), Before') \ model'.consts
      /\ \A i \in DOMAIN order' : Before'[order'[i]] \ model'.consts \subseteq {order'[j] : j \in 1 .. i - 1}
  BY <1>1, <1>4, <1>5 DEF Wanted
<1> QED
  BY <1>6 DEF OrderIsPlan

\* Constants define no symbol: Const does not override mints_runtime_symbols.
ConstantsMintNothing == \A g \in Models : g.consts \cap g.mints = {}

LEMMA BuildBindsSymbols ==
  ASSUME InputsAreSources, ConstantsMintNothing,
         Typed, OrderInv, StackInv, RamInv, AfterInv, InputsInv, DefinersInv, Build
  PROVE  ConsumersFollowDefiners'
<1>1. /\ phase' = "built" /\ phase \in {"walk", "ram"} /\ order' = Only(order, Node \ model.consts)
      /\ UNCHANGED <<model, after, done>>
  BY DEF Build
<1>2. /\ done = Wanted /\ done = Range(order) /\ InOrder(order, Before) /\ order \in Seq(Node)
      /\ Wanted = BaseWanted
  BY BuiltIsWanted, WantedIsBase DEF Typed
<1>4. /\ order' \in Seq(Node) /\ Range(order') = Wanted \ model.consts
      /\ \A i \in DOMAIN order' : Before[order'[i]] \ model.consts \subseteq {order'[j] : j \in 1 .. i - 1}
  BY BuiltPlan
<1>5. Ancestors' = Ancestors
  BY <1>1, SamePrecursors
<1> DEFINE Mentioned(m, s) == s \in model.shapes[m] \cup model.mentions[m]
<1>6. SUFFICES ASSUME NEW s \in Symbol, NEW i \in DOMAIN order', NEW m, m = order'[i],
                      Mentioned(m, s),
                      {n \in model.mints \cap done : s \in model.shapes[n]} # {},
                      \A n \in Range(model.inputs) : s \notin model.shapes[n]
               PROVE  \E n \in {n \in model.mints \cap done : s \in model.shapes[n]} :
                         \/ \E j \in 1 .. i : order'[j] = n
                         \/ m \in Ancestors[n]
  <2>1. model' = model /\ done' = done
    BY <1>1
  <2> QED
    BY <1>5, <2>1 DEF ConsumersFollowDefiners, IsMentioned
<1>7. Minters(s) = {n \in model.mints \cap done : s \in model.shapes[n]} /\ ~IsCarried(s)
  BY <1>2, <1>6 DEF Minters, IsCarried
<1>8. m \in Wanted \ model.consts /\ m \in BaseWanted /\ i \in Nat /\ i \in 1 .. i /\ m \in Node
      /\ \A j \in 1 .. i - 1 : j \in 1 .. i
  <2>1. m \in Range(order')
    BY <1>6 DEF Range
  <2>2. i \in Nat \ {0}
    <3>1. DOMAIN order' = 1 .. Len(order')
      BY <1>4
    <3> QED
      BY <1>6, <3>1
  <2>3. m \in Wanted \ model.consts
    BY <1>4, <2>1
  <2>4. Wanted \subseteq Node
    BY WantedIsClosed
  <2>5. i \in 1 .. i /\ \A j \in 1 .. i - 1 : j \in 1 .. i
    BY <2>2
  <2> QED
    BY <1>2, <2>2, <2>3, <2>4, <2>5
<1>9. PICK d \in Minters(s) : \/ d = m \/ d \in Range(model.wires[m])
                              \/ m \in Ancestors[d] \/ d \in Range(after[m])
  <2>1. Minters(s) # {} /\ phase \in {"walk", "ram", "built"}
    BY <1>1, <1>6, <1>7
  <2>2. PICK d \in Minters(s) : \A n \in BaseWanted :
                 IsMentioned(n, s) => \/ d = n \/ d \in Range(model.wires[n])
                                      \/ n \in Ancestors[d] \/ d \in Range(after[n])
    BY <1>7, <2>1 DEF DefinersInv
  <2>3. IsMentioned(m, s)
    BY <1>6 DEF IsMentioned
  <2> QED
    BY <1>8, <2>2, <2>3
<1>10. CASE d = m
  BY <1>6, <1>7, <1>8, <1>10
<1>11. CASE m \in Ancestors[d]
  BY <1>7, <1>9, <1>11
<1>12. CASE d \in Range(model.wires[m]) \cup Range(after[m])
  <2>1. m \notin Range(model.inputs)
    <3> SUFFICES ASSUME m \in Range(model.inputs) PROVE FALSE
      OBVIOUS
    <3>1. model.mentions[m] \subseteq model.shapes[m]
      BY DEF InputsAreSources, Typed
    <3> QED
      BY <1>6, <3>1 DEF IsMentioned
  <2>2. d \in Before[m]
    BY <1>8, <1>12, <2>1, BeforeIsNodes DEF Typed
  <2>3. d \notin model.consts
    BY <1>7, <1>9 DEF ConstantsMintNothing, Typed
  <2>4. \E j \in 1 .. i - 1 : order'[j] = d
    BY <1>4, <1>6, <2>2, <2>3
  <2> QED
    BY <1>7, <1>8, <1>9, <2>4
<1> QED
  BY <1>9, <1>10, <1>11, <1>12

-----------------------------------------------------------------------------
(* The steps.                                                               *)

\* The walks, by themselves.
WalkInv == Typed /\ (Walking => OrderInv) /\ StackInv /\ AfterInv

LEMMA InitWalks == Init => WalkInv
<1> SUFFICES ASSUME Init PROVE WalkInv
  OBVIOUS
<1>1. Typed
  BY InitTyped
<1>2. /\ phase = "base" /\ stack = <<>> /\ order = <<>> /\ done = {} /\ pending = {} /\ at = 1
      /\ after = [n \in Node |-> <<>>]
  BY DEF Init
<1>3. OrderInv
  BY <1>2 DEF OrderInv, InOrder, IsInjective
<1>4. StackInv
  BY <1>2 DEF StackInv
<1>5. AfterInv
  <2>1. \A n \in Node : Range(after[n]) = {}
    BY <1>2 DEF Range
  <2> QED
    BY <1>2, <2>1 DEF AfterInv
<1> QED
  BY <1>1, <1>3, <1>4, <1>5 DEF WalkInv

\* What a step does to the dependencies, and to the phase.
LEMMA Phases ==
  ASSUME Next
  PROVE  \/ /\ NextTarget \/ Finish \/ SkipDone \/ Descend
            /\ Walking /\ UNCHANGED <<model, phase, after>>
         \/ DetectLoop /\ Walking /\ phase' = "failed" /\ UNCHANGED <<model, after>>
         \/ DeriveDeps /\ Walking /\ phase' = "walk"
         \/ StartRam /\ Walking /\ phase' = "ram" /\ UNCHANGED <<model, after>>
         \/ /\ FollowInput \/ FollowReady \/ FollowStarter \/ FollowFresh
            /\ phase = "ram" /\ phase' \in {"ram", "panicked"} /\ UNCHANGED <<model, after>>
         \/ Build /\ phase \in {"walk", "ram"} /\ phase' = "built" /\ UNCHANGED <<model, after>>
<1>1. NextTarget \/ Finish \/ SkipDone \/ Descend => Walking /\ UNCHANGED <<model, phase, after>>
  BY DEF NextTarget, Finish, SkipDone, Descend, AtTarget, AtNode
<1>2. DetectLoop => Walking /\ phase' = "failed" /\ UNCHANGED <<model, after>>
  BY DEF DetectLoop, AtNode
<1>3. DeriveDeps => Walking /\ phase' = "walk"
  BY DEF DeriveDeps, Walked
<1>4. StartRam => Walking /\ phase' = "ram" /\ UNCHANGED <<model, after>>
  BY DEF StartRam, Walked
<1>5. \A n, known : FollowOne(n, known) => phase' = phase \/ phase' = "panicked"
  BY DEF FollowOne
<1>6. FollowInput => phase = "ram" /\ phase' \in {"ram", "panicked"} /\ UNCHANGED <<model, after>>
  BY <1>5 DEF FollowInput
<1>7. FollowReady => phase = "ram" /\ phase' \in {"ram", "panicked"} /\ UNCHANGED <<model, after>>
  BY <1>5 DEF FollowReady, Choosing
<1>8. FollowStarter => phase = "ram" /\ phase' \in {"ram", "panicked"} /\ UNCHANGED <<model, after>>
  BY <1>5 DEF FollowStarter, Choosing
<1>9. FollowFresh => phase = "ram" /\ phase' \in {"ram", "panicked"} /\ UNCHANGED <<model, after>>
  BY <1>5 DEF FollowFresh, Choosing
<1>10. Build => phase \in {"walk", "ram"} /\ phase' = "built" /\ UNCHANGED <<model, after>>
  BY DEF Build
<1> QED
  BY <1>1, <1>2, <1>3, <1>4, <1>6, <1>7, <1>8, <1>9, <1>10 DEF Next

\* Dependencies that stay are as well known as before.
LEMMA AfterKept ==
  ASSUME AfterInv, UNCHANGED <<model, after>>, phase' = "base" => phase = "base"
  PROVE  AfterInv'
<1>1. BaseWanted' = BaseWanted /\ Ancestors' = Ancestors
  BY SamePrecursors
<1>2. phase' = "base" => after' = [n \in Node |-> <<>>]
  BY DEF AfterInv
<1>3. ASSUME NEW n \in Node, NEW d \in Range(after'[n])
      PROVE  /\ n \in BaseWanted' /\ d \in BaseWanted' /\ d # n
             /\ n \notin Ancestors'[d] /\ d \notin Range(model'.inputs)
  <2>1. d \in Range(after[n])
    BY <1>3
  <2> QED
    BY <1>1, <2>1 DEF AfterInv, IsInput
<1> QED
  BY <1>2, <1>3 DEF AfterInv, IsInput

LEMMA WalkStep == WalkInv /\ [Next]_vars => WalkInv'
<1> SUFFICES ASSUME WalkInv, [Next]_vars PROVE WalkInv'
  OBVIOUS
<1>0. Typed /\ StackInv /\ AfterInv /\ (Walking => OrderInv)
  BY DEF WalkInv
<1>1. Typed'
  BY <1>0, TypedStep
<1>2. CASE NextTarget \/ Finish \/ SkipDone \/ Descend
  <2>1. Walking /\ UNCHANGED <<model, phase, after>>
    BY <1>2 DEF NextTarget, Finish, SkipDone, Descend, AtTarget, AtNode
  <2>2. OrderInv' /\ StackInv'
    BY <1>0, <1>2, <2>1, NextTargetWalks, FinishWalks, SkipDoneWalks, DescendWalks
  <2>3. AfterInv'
    BY <1>0, <2>1, AfterKept
  <2> QED
    BY <1>1, <2>2, <2>3 DEF WalkInv
<1>3. CASE DeriveDeps
  <2>1. AfterInv'
    BY <1>0, <1>3, DerivedDeps DEF DeriveDeps, Walked
  <2>2. /\ stack' = <<>> /\ order' = <<>> /\ done' = {} /\ pending' = {} /\ at' = 1
    BY <1>3 DEF DeriveDeps, StartOver
  <2>3. OrderInv'
    BY <2>2 DEF OrderInv, InOrder, IsInjective
  <2>4. StackInv'
    BY <2>2 DEF StackInv
  <2> QED
    BY <1>1, <2>1, <2>3, <2>4 DEF WalkInv
<1>4. CASE UNCHANGED vars
  <2>1. UNCHANGED <<model, after, phase, at, stack, pending, done, order>>
    BY <1>4 DEF vars
  <2>2. AfterInv'
    BY <1>0, <2>1, AfterKept
  <2>3. Before' = Before /\ Wanted' = Wanted /\ Prec' = Prec
    BY <2>1, SamePrecursors
  <2>4. (Walking => OrderInv)'
    BY <1>0, <2>1, <2>3 DEF Walking, OrderInv, InOrder
  <2>5. StackInv'
    BY <1>0, <2>1, <2>3 DEF Walking, StackInv
  <2> QED
    BY <1>1, <2>2, <2>4, <2>5 DEF WalkInv
<1>5. CASE phase' \notin {"base", "walk"} /\ UNCHANGED <<model, after>>
  <2>1. ~Walking'
    BY <1>5 DEF Walking
  <2>2. AfterInv'
    BY <1>0, <1>5, AfterKept
  <2> QED
    BY <1>1, <2>1, <2>2 DEF WalkInv, StackInv
<1> QED
  BY <1>2, <1>3, <1>4, <1>5, Phases

\* The whole: the third order, and the plan.
PlanInv == /\ WalkInv /\ OrderInv /\ InputsInv /\ DefinersInv /\ RamInv
           /\ OrderIsPlan /\ NextIsFound

LEMMA InitPlans == InputsAreSources /\ Init => PlanInv
<1> SUFFICES ASSUME InputsAreSources, Init PROVE PlanInv
  OBVIOUS
<1>1. WalkInv
  BY InitWalks
<1>2. /\ phase = "base" /\ model \in Models /\ order = <<>> /\ after = [n \in Node |-> <<>>]
  BY DEF Init
<1>3. OrderInv
  BY <1>2 DEF OrderInv, InOrder, IsInjective
<1>4. InputsInv
  <2>1. Range(model.inputs) \subseteq Node
    BY <1>2, EvalOrderAssumption DEF IsModel, Range
  <2>2. \A n \in Node : Range(after[n]) = {}
    BY <1>2 DEF Range
  <2> QED
    BY <1>2, <2>1, <2>2 DEF InputsInv, InputsAreSources
<1>5. DefinersInv /\ RamInv /\ OrderIsPlan /\ NextIsFound
  BY <1>2 DEF DefinersInv, RamInv, OrderIsPlan, NextIsFound
<1> QED
  BY <1>1, <1>3, <1>4, <1>5 DEF PlanInv

\* The facts about dependencies stay when these do.
LEMMA DependenciesKept ==
  ASSUME InputsInv, DefinersInv, UNCHANGED <<model, after>>,
         phase' \in {"walk", "ram", "built"} => phase \in {"walk", "ram", "built"}
  PROVE  InputsInv' /\ DefinersInv'
<1>1. BaseWanted' = BaseWanted /\ Ancestors' = Ancestors
  BY SamePrecursors
<1>2. InputsInv'
  BY DEF InputsInv
<1>3. \A s \in Symbol : Minters(s)' = Minters(s) /\ (IsCarried(s)' <=> IsCarried(s))
  BY <1>1 DEF Minters, IsCarried
<1>4. \A n \in BaseWanted, s \in Symbol : IsMentioned(n, s)' <=> IsMentioned(n, s)
  BY DEF IsMentioned
<1>5. DefinersInv'
  BY <1>1, <1>3, <1>4 DEF DefinersInv
<1> QED
  BY <1>2, <1>5

LEMMA PlanStep == InputsAreSources /\ PlanInv /\ [Next]_vars => PlanInv'
<1> SUFFICES ASSUME InputsAreSources, PlanInv, [Next]_vars PROVE PlanInv'
  OBVIOUS
<1>0. /\ Typed /\ StackInv /\ AfterInv /\ WalkInv /\ OrderInv /\ InputsInv /\ DefinersInv /\ RamInv
      /\ OrderIsPlan /\ NextIsFound
  BY DEF PlanInv, WalkInv
<1>1. WalkInv'
  BY <1>0, WalkStep
<1>2. CASE NextTarget \/ Finish \/ SkipDone \/ Descend
  <2>1. Walking /\ UNCHANGED <<model, phase, after>>
    BY <1>2 DEF NextTarget, Finish, SkipDone, Descend, AtTarget, AtNode
  <2>2. OrderInv'
    BY <1>0, <1>2, <2>1, NextTargetWalks, FinishWalks, SkipDoneWalks, DescendWalks
  <2>3. InputsInv' /\ DefinersInv'
    BY <1>0, <2>1, DependenciesKept
  <2>4. phase' \in {"base", "walk"}
    BY <2>1 DEF Walking
  <2>5. RamInv' /\ OrderIsPlan' /\ NextIsFound'
    BY <2>4 DEF RamInv, OrderIsPlan, NextIsFound
  <2> QED
    BY <1>1, <2>2, <2>3, <2>5 DEF PlanInv
<1>3. CASE DetectLoop
  <2>1. phase' = "failed" /\ UNCHANGED <<model, after>>
    BY <1>3 DEF DetectLoop
  <2>2. InputsInv' /\ DefinersInv'
    BY <1>0, <2>1, DependenciesKept
  <2>3. OrderInv' /\ RamInv' /\ OrderIsPlan' /\ NextIsFound'
    BY <2>1 DEF OrderInv, RamInv, OrderIsPlan, NextIsFound
  <2> QED
    BY <1>1, <2>2, <2>3 DEF PlanInv
<1>4. CASE DeriveDeps
  <2>1. DefinersInv' /\ InputsInv'
    BY <1>0, <1>4, DerivedDeps
  <2>2. phase' = "walk" /\ order' = <<>>
    BY <1>4 DEF DeriveDeps, StartOver
  <2>3. OrderInv' /\ RamInv' /\ OrderIsPlan' /\ NextIsFound'
    BY <2>2 DEF OrderInv, InOrder, IsInjective, RamInv, OrderIsPlan, NextIsFound
  <2> QED
    BY <1>1, <2>1, <2>3 DEF PlanInv
<1>5. CASE StartRam
  <2>1. phase = "walk" /\ phase' = "ram" /\ UNCHANGED <<model, after>>
    BY <1>5 DEF StartRam
  <2>2. OrderInv' /\ RamInv'
    BY <1>0, <1>5, StartRamKeeps
  <2>3. InputsInv' /\ DefinersInv'
    BY <1>0, <2>1, DependenciesKept
  <2>4. OrderIsPlan' /\ NextIsFound'
    BY <2>1 DEF OrderIsPlan, NextIsFound
  <2> QED
    BY <1>1, <2>2, <2>3, <2>4 DEF PlanInv
<1>6. CASE FollowInput \/ FollowReady \/ FollowStarter \/ FollowFresh
  <2>1. phase = "ram"
    BY <1>6 DEF FollowInput, FollowReady, FollowStarter, FollowFresh, Choosing
  <2>2. OrderInv' /\ RamInv' /\ phase' = "ram" /\ UNCHANGED <<model, after>>
    BY <1>0, <1>6, <2>1, RamStep
  <2>3. InputsInv' /\ DefinersInv'
    BY <1>0, <2>1, <2>2, DependenciesKept
  <2>4. OrderIsPlan' /\ NextIsFound'
    BY <2>2 DEF OrderIsPlan, NextIsFound
  <2> QED
    BY <1>1, <2>2, <2>3, <2>4 DEF PlanInv
<1>7. CASE Build
  <2>1. phase \in {"walk", "ram"} /\ phase' = "built" /\ UNCHANGED <<model, after>>
    BY <1>7 DEF Build
  <2>2. InputsInv' /\ DefinersInv'
    BY <1>0, <2>1, DependenciesKept
  <2>3. OrderIsPlan'
    BY <1>0, <1>7, BuildMakesPlan
  <2>4. OrderInv' /\ RamInv' /\ NextIsFound'
    BY <2>1 DEF OrderInv, RamInv, NextIsFound
  <2> QED
    BY <1>1, <2>2, <2>3, <2>4 DEF PlanInv
<1>8. CASE UNCHANGED vars
  <2>1. UNCHANGED <<model, after, phase, at, done, order, toCompute, candidates, cache>>
    BY <1>8 DEF vars
  <2>2. InputsInv' /\ DefinersInv'
    BY <1>0, <2>1, DependenciesKept
  <2>3. Before' = Before /\ Wanted' = Wanted
    BY <2>1, SamePrecursors
  <2>4. OrderInv'
    BY <1>0, <2>1, <2>3 DEF OrderInv, InOrder
  <2>5. OrderIsPlan' /\ NextIsFound'
    BY <1>0, <2>1, <2>3 DEF OrderIsPlan, NextIsFound, Wanted
  <2>6. (\A n : Ups(n)' = Ups(n)) /\ (\A c : Starters(c)' = Starters(c))
    BY <2>1 DEF Ups, Starters
  <2>7. RamInv'
    BY <1>0, <2>1, <2>3, <2>6 DEF RamInv
  <2> QED
    BY <1>1, <2>2, <2>4, <2>5, <2>7 DEF PlanInv
<1> QED
  BY <1>2, <1>3, <1>4, <1>5, <1>6, <1>7, <1>8, Phases

LEMMA PlansForever == InputsAreSources /\ Spec => []PlanInv
<1>1. InputsAreSources /\ Init => PlanInv
  BY InitPlans
<1>2. InputsAreSources /\ PlanInv /\ [Next]_vars => PlanInv'
  BY PlanStep
<1>3. InputsAreSources => InputsAreSources'
  BY DEF InputsAreSources
<1> QED
  BY <1>1, <1>2, <1>3, PTL DEF Spec

\* The order that is returned is a plan: what the outputs need, once each, and
\* each after all it waits for (build_with_outputs_and_deps), with or without
\* regard to memory, for every model whose inputs are sources.
THEOREM OrdersArePlans ==
  ASSUME InputsAreSources
  PROVE  Spec => []OrderIsPlan
<1>1. PlanInv => OrderIsPlan
  BY DEF PlanInv
<1> QED
  BY <1>1, PlansForever, PTL

\* The third order never runs out of nodes before the outputs are in order, and
\* never takes one twice (eval_order_opt_ram_for_nodes, follow_one).
THEOREM SomethingIsAlwaysNext ==
  ASSUME InputsAreSources
  PROVE  Spec => []NextIsFound
<1>1. PlanInv => NextIsFound
  BY DEF PlanInv
<1> QED
  BY <1>1, PlansForever, PTL

\* The sets of starters that are kept between choices are the ones a search
\* would find (best_upstream_starter, cache_upstream).
THEOREM KeptStartersAreExact ==
  ASSUME InputsAreSources
  PROVE  Spec => []UpstreamIsExact
<1>1. PlanInv => UpstreamIsExact
  BY DEF PlanInv, RamInv, UpstreamIsExact
<1> QED
  BY <1>1, PlansForever, PTL

LEMMA BoundForever ==
  InputsAreSources /\ ConstantsMintNothing /\ Spec => [](PlanInv /\ ConsumersFollowDefiners)
<1>1. Init => ConsumersFollowDefiners
  BY DEF Init, ConsumersFollowDefiners
<1>2. /\ InputsAreSources /\ ConstantsMintNothing
      /\ PlanInv /\ ConsumersFollowDefiners /\ [Next]_vars
      => ConsumersFollowDefiners'
  <2> SUFFICES ASSUME InputsAreSources, ConstantsMintNothing,
                      PlanInv, ConsumersFollowDefiners, [Next]_vars
               PROVE  ConsumersFollowDefiners'
    OBVIOUS
  <2>1. CASE Build
    BY <2>1, BuildBindsSymbols DEF PlanInv, WalkInv
  <2>2. CASE UNCHANGED vars
    <3>1. UNCHANGED <<model, after, phase, done, order>>
      BY <2>2 DEF vars
    <3>2. Ancestors' = Ancestors
      BY <3>1, SamePrecursors
    <3> QED
      BY <3>1, <3>2 DEF ConsumersFollowDefiners, IsMentioned
  <2>3. CASE Next /\ ~Build
    <3>1. phase' \in {"base", "walk", "ram", "failed", "panicked"}
      BY <2>3, Phases DEF Walking
    <3> QED
      BY <3>1 DEF ConsumersFollowDefiners
  <2> QED
    BY <2>1, <2>2, <2>3
<1>3. InputsAreSources /\ Init => PlanInv
  BY InitPlans
<1>4. InputsAreSources /\ PlanInv /\ [Next]_vars => PlanInv'
  BY PlanStep
<1>5. /\ InputsAreSources => InputsAreSources'
      /\ ConstantsMintNothing => ConstantsMintNothing'
  BY DEF InputsAreSources, ConstantsMintNothing
<1> QED
  BY <1>1, <1>2, <1>3, <1>4, <1>5, PTL DEF Spec

\* A symbol that only a node of the plan mints is known when it is asked for
\* (symbol_deps): what mentions it runs after a node that mints it, unless that
\* node needs it.
THEOREM SymbolsAreBoundBefore ==
  ASSUME InputsAreSources, ConstantsMintNothing
  PROVE  Spec => []ConsumersFollowDefiners
<1>1. PlanInv /\ ConsumersFollowDefiners => ConsumersFollowDefiners
  OBVIOUS
<1> QED
  BY <1>1, BoundForever, PTL

-----------------------------------------------------------------------------
(* Loops.                                                                   *)

\* The path on the stack closes.
LEMMA PathCloses ==
  ASSUME Typed, StackInv, DetectLoop
  PROVE  HasLoop(Before)
<1>1. Walking /\ AtNode /\ ~IsReached /\ Precursor \in pending
  BY DEF DetectLoop, AtNode
<1>2. /\ DOMAIN stack = 1 .. Len(stack) /\ Len(stack) \in Nat \ {0} /\ Top = stack[Len(stack)]
      /\ Top.node \in Node /\ Prec[Top.node] \in Seq(Node)
      /\ Top.node \notin Range(model.inputs)
      /\ Top.next \in 1 .. Len(Prec[Top.node]) /\ Precursor = Prec[Top.node][Top.next]
  BY <1>1, TopFacts
<1>3. /\ Before \in [Node -> SUBSET Node] /\ Prec \in [Node -> Seq(Node)]
      /\ \A n \in Node : n \notin Range(model.inputs) => Before[n] = Range(Prec[n])
  BY BeforeIsNodes, PrecursorsAreNodes DEF Typed, Before, IsInput
<1>4. PICK p \in 2 .. Len(stack) : Precursor = stack[p].node
  BY <1>1 DEF StackInv
<1> DEFINE R == Reach(Before[stack[p].node], Before)
<1>5. \A i \in 1 .. Len(stack) : stack[i].node \in Node /\ stack[i].node \in Wanted
  <2>1. Wanted \subseteq Node
    BY WantedIsClosed
  <2> QED
    BY <1>1, <1>2, <2>1 DEF StackInv
<1>6. p \in 1 .. Len(stack) /\ stack[p].node \in Node /\ stack[p].node \in Wanted
  <2>1. p \in 1 .. Len(stack)
    BY <1>2, <1>4
  <2> QED
    BY <1>5, <2>1
<1>7. Before[stack[p].node] \subseteq R /\ \A n \in R : Before[n] \subseteq R
  <2>1. Before[stack[p].node] \in SUBSET Node
    BY <1>3, <1>6
  <2> QED
    BY <1>3, <2>1, ReachIsTheClosure
<1>8. ASSUME NEW i \in 1 .. Len(stack) - 1
      PROVE  stack[i + 1].node \in Before[stack[i].node]
  <2>1. i \in 1 .. Len(stack)
    BY <1>2
  <2>2. /\ stack[i].node \notin Range(model.inputs)
        /\ stack[i].next <= Len(Prec[stack[i].node])
        /\ stack[i + 1].node = Prec[stack[i].node][stack[i].next]
    BY <1>1, <1>8 DEF StackInv
  <2>3. stack[i].next \in Nat \ {0} /\ stack[i].node \in Node
    <3> DEFINE Frame == [node : Node, next : Nat \ {0}]
    <3>1. stack \in Seq(Frame)
      BY DEF Typed
    <3>2. stack[i] \in Frame
      <4> HIDE DEF Frame
      <4> QED
        BY <1>2, <2>1, <3>1
    <3> QED
      BY <3>2
  <2>4. Prec[stack[i].node] \in Seq(Node)
    BY <1>3, <2>3
  <2>5. stack[i].next \in DOMAIN Prec[stack[i].node]
    BY <2>2, <2>3, <2>4
  <2>6. stack[i + 1].node \in Range(Prec[stack[i].node])
    BY <2>2, <2>5 DEF Range
  <2> QED
    BY <1>3, <2>2, <2>3, <2>6
<1>9. Precursor \in Before[Top.node]
  <2>1. Top.next \in DOMAIN Prec[Top.node]
    BY <1>2
  <2>2. Precursor \in Range(Prec[Top.node])
    BY <1>2, <2>1 DEF Range
  <2> QED
    BY <1>2, <1>3, <2>2
<1> HIDE DEF R
<1>10. \A i \in 1 .. Len(stack) : i > p => stack[i].node \in R
  <2> DEFINE Bad == {i \in 1 .. Len(stack) : i > p /\ stack[i].node \notin R}
  <2> SUFFICES ASSUME Bad # {} PROVE FALSE
    OBVIOUS
  <2>1. Bad \in SUBSET Nat
    OBVIOUS
  <2>2. PICK i \in Bad : \A j \in Bad : i <= j
    <3> HIDE DEF Bad
    <3> QED
      BY <2>1, LeastElement
  <2>3. i \in 1 .. Len(stack) /\ i > p /\ stack[i].node \notin R
    BY <2>2
  <2>4. i - 1 \in 1 .. Len(stack) - 1 /\ (i - 1) + 1 = i /\ i - 1 >= p /\ ~(i <= i - 1)
        /\ i - 1 \in 1 .. Len(stack)
    BY <1>2, <1>4, <2>3
  <2>5. stack[i].node \in Before[stack[i - 1].node]
    BY <1>8, <2>4
  <2>6. CASE i - 1 = p
    BY <1>7, <2>3, <2>5, <2>6
  <2>7. CASE i - 1 > p
    <3>1. i - 1 \notin Bad
      <4> HIDE DEF Bad
      <4> QED
        BY <2>2, <2>4
    <3>2. stack[i - 1].node \in R
      BY <2>4, <2>7, <3>1
    <3> QED
      BY <1>7, <2>3, <2>5, <3>2
  <2> QED
    BY <1>4, <2>4, <2>6, <2>7
<1>11. stack[p].node \in R
  <2>1. CASE p = Len(stack)
    BY <1>2, <1>4, <1>7, <1>9, <2>1
  <2>2. CASE p # Len(stack)
    <3>1. Len(stack) > p /\ Len(stack) \in 1 .. Len(stack)
      <4>1. \A l \in Nat \ {0} : l \in 1 .. l /\ \A q \in 2 .. l : q # l => l > q
        OBVIOUS
      <4> QED
        BY <1>2, <1>4, <2>2, <4>1
    <3>2. Top.node \in R
      BY <1>2, <1>10, <3>1
    <3> QED
      BY <1>4, <1>7, <1>9, <3>2
  <2> QED
    BY <2>1, <2>2
<1> QED
  BY <1>6, <1>11 DEF HasLoop, Wanted, R

\* Without derived dependencies there are tensor edges only.
LEMMA WiredOnly ==
  ASSUME Typed, NEW n \in Node
  PROVE  /\ Before[n] \subseteq WiredBefore[n] \cup Range(after[n])
         /\ WiredBefore[n] \subseteq Before[n]
         /\ Range(after[n]) = {} => Before[n] = WiredBefore[n]
<1>1. Range(Prec[n]) = Range(model.wires[n]) \cup Range(after[n]) /\ Prec[n] = Precursors(n)
  BY PrecursorsAreNodes DEF Typed
<1>2. /\ Before[n] = IF IsInput(n) THEN {} ELSE Range(Precursors(n))
      /\ WiredBefore[n] = IF IsInput(n) THEN {} ELSE Range(model.wires[n])
  BY DEF Before, WiredBefore
<1> QED
  BY <1>1, <1>2

\* One definer cannot close a loop: its ancestors do not wait for it.
LEMMA OneDefinerClosesNoLoop ==
  ASSUME Typed, AfterInv, HasLoop(Before), NEW d \in Node,
         \A n \in Node : Range(after[n]) \subseteq {d}
  PROVE  HasLoop(WiredBefore)
<1>1. Before \in [Node -> SUBSET Node] /\ WiredBefore \in [Node -> SUBSET Node]
  BY BeforeIsNodes DEF Typed
<1>2. Wanted = BaseWanted /\ BaseWanted \subseteq Node
  BY WantedIsBase, WantedIsClosed
<1>3. CASE \A n \in Node : Range(after[n]) = {}
  <2>1. \A n \in Node : Before[n] = WiredBefore[n]
    BY <1>3, WiredOnly
  <2>2. Before = WiredBefore
    BY <1>1, <2>1
  <2> QED
    BY <2>2
<1>4. CASE \E n \in Node : Range(after[n]) # {}
  <2> DEFINE R == Reach(WiredBefore[d], WiredBefore)
  <2>1. PICK m \in Node : Range(after[m]) # {}
    BY <1>4
  <2>2. d \in Range(after[m]) /\ d \in BaseWanted
    BY <2>1 DEF AfterInv
  <2>3. /\ WiredBefore[d] \subseteq R /\ R \subseteq Node
        /\ \A n \in R : WiredBefore[n] \subseteq R
        /\ \A T : WiredBefore[d] \subseteq T /\ (\A n \in T \cap Node : WiredBefore[n] \subseteq T)
                  => R \subseteq T
    BY <1>1, ReachIsTheClosure
  <2>4. R \subseteq Ancestors[d]
    <3> DEFINE wired == [n \in Node |-> Range(model.wires[n])]
    <3>1. /\ wired \in [Node -> SUBSET Node] /\ Range(model.wires[d]) \in SUBSET Node
          /\ \A n \in Node : WiredBefore[n] \subseteq wired[n] /\ wired[n] = Range(model.wires[n])
      BY PrecursorsAreNodes DEF Typed, WiredBefore
    <3>2. Ancestors[d] = Reach(Range(model.wires[d]), wired)
      BY DEF Ancestors
    <3> HIDE DEF wired
    <3>3. /\ Range(model.wires[d]) \subseteq Ancestors[d]
          /\ \A n \in Ancestors[d] : wired[n] \subseteq Ancestors[d]
      BY <3>1, <3>2, ReachIsTheClosure
    <3>4. WiredBefore[d] \subseteq Ancestors[d]
      BY <3>1, <3>3
    <3>5. \A n \in Ancestors[d] \cap Node : WiredBefore[n] \subseteq Ancestors[d]
      BY <3>1, <3>3
    <3> HIDE DEF R
    <3> QED
      BY <2>3, <3>4, <3>5
  <2> HIDE DEF R
  <2>5. \A n \in R \cup {d} : n \in Node /\ Before[n] = WiredBefore[n]
    <3> SUFFICES ASSUME NEW n \in R \cup {d} PROVE n \in Node /\ Before[n] = WiredBefore[n]
      OBVIOUS
    <3>1. n \in Node
      BY <2>3
    <3>2. d \notin Range(after[n])
      BY <2>4, <3>1 DEF AfterInv
    <3>3. Range(after[n]) = {}
      BY <3>1, <3>2
    <3> QED
      BY <3>1, <3>3, WiredOnly
  <2>6. CASE d \in R
    BY <2>2, <2>6 DEF HasLoop, BaseWanted, R
  <2>7. CASE d \notin R
    <3>1. PICK n \in Wanted : n \in Reach(Before[n], Before)
      BY DEF HasLoop, Wanted
    <3>2. n \in Node /\ n \in BaseWanted
      BY <1>2
    <3> DEFINE L == Reach(Before[n], Before)
               S == Reach(WiredBefore[n], WiredBefore)
    <3>3. /\ \A T : Before[n] \subseteq T /\ (\A m1 \in T \cap Node : Before[m1] \subseteq T)
                    => L \subseteq T
      BY <1>1, <3>2, ReachIsTheClosure
    <3>4. /\ WiredBefore[n] \subseteq S /\ S \subseteq Node
          /\ \A m1 \in S : WiredBefore[m1] \subseteq S
          /\ \A T : WiredBefore[n] \subseteq T /\ (\A m1 \in T \cap Node : WiredBefore[m1] \subseteq T)
                    => S \subseteq T
      BY <1>1, <3>2, ReachIsTheClosure
    <3>5. n \in L
      BY <3>1
    <3> SUFFICES n \in S
      BY <3>2 DEF HasLoop, BaseWanted
    <3> HIDE DEF L, S
    <3>6. \A m1 \in Node : Before[m1] \subseteq WiredBefore[m1] \cup {d}
      BY WiredOnly
    <3>7. n \in S \cup {d} \cup R
      <4> DEFINE T == S \cup {d} \cup R
      <4>1. Before[n] \subseteq T
        BY <3>2, <3>4, <3>6
      <4>2. ASSUME NEW m1 \in T \cap Node PROVE Before[m1] \subseteq T
        <5>1. CASE m1 \in S
          BY <3>4, <3>6, <5>1
        <5>2. CASE m1 \in {d} \cup R
          <6>1. WiredBefore[m1] \subseteq R
            BY <2>3, <5>2
          <6> QED
            BY <2>5, <5>2, <6>1
        <5> QED
          BY <5>1, <5>2
      <4> HIDE DEF T
      <4>3. L \subseteq T
        BY <3>3, <4>1, <4>2
      <4> QED
        BY <3>5, <4>3 DEF T
    <3>8. n # d
      <4> SUFFICES ASSUME n = d PROVE FALSE
        OBVIOUS
      <4>1. Before[n] \subseteq R /\ \A m1 \in R \cap Node : Before[m1] \subseteq R
        BY <2>3, <2>5
      <4>2. L \subseteq R
        BY <3>3, <4>1
      <4> QED
        BY <2>7, <3>5, <4>2
    <3>9. CASE n \in R
      <4>1. WiredBefore[n] \subseteq R /\ \A m1 \in R \cap Node : WiredBefore[m1] \subseteq R
        BY <2>3, <3>9
      <4>2. S \subseteq R
        BY <3>4, <4>1
      <4>3. Before[n] \subseteq S
        BY <2>5, <3>4, <3>9
      <4>4. \A m1 \in S \cap Node : Before[m1] \subseteq S
        BY <2>5, <3>4, <4>2
      <4>5. L \subseteq S
        BY <3>3, <4>3, <4>4
      <4> QED
        BY <3>5, <4>5
    <3> QED
      BY <3>7, <3>8, <3>9
  <2> QED
    BY <2>6, <2>7
<1> QED
  BY <1>3, <1>4

LEMMA LoopFound ==
  ASSUME WalkInv, DetectLoop
  PROVE  LoopsAreReal'
<1>1. Typed /\ StackInv /\ AfterInv /\ UNCHANGED <<model, after>>
  BY DEF WalkInv, DetectLoop
<1>2. Before' = Before /\ WiredBefore' = WiredBefore /\ model' = model /\ after' = after
  BY <1>1, SamePrecursors
<1>3. HasLoop(Before)
  BY <1>1, PathCloses
<1> DEFINE D == UNION {Range(after[n]) : n \in Node}
<1>4. D \in SUBSET Node /\ \A n \in Node : Range(after[n]) \subseteq D
  BY <1>1, PrecursorsAreNodes DEF Typed
<1> HIDE DEF D
<1>5. IsFiniteSet(D) /\ Cardinality(D) \in Nat
  BY <1>4, NodesAreNumbers
<1>6. Cardinality(D) > 1 \/ HasLoop(WiredBefore)
  <2> SUFFICES ASSUME ~(Cardinality(D) > 1) PROVE HasLoop(WiredBefore)
    OBVIOUS
  <2>1. PICK d \in Node : D \subseteq {d}
    <3>1. CASE D = {}
      <4>1. Node # {}
        BY EvalOrderAssumption DEF Node
      <4> QED
        BY <3>1, <4>1
    <3>2. CASE D # {}
      <4>1. PICK d \in D : TRUE
        BY <3>2
      <4>2. IsFiniteSet(D \ {d}) /\ Cardinality(D \ {d}) = Cardinality(D) - 1
        BY <1>5, <4>1, FS_RemoveElement
      <4>3. Cardinality(D \ {d}) \in Nat
        BY <4>2, FS_CardinalityType
      <4>4. Cardinality(D \ {d}) = 0
        BY <1>5, <4>2, <4>3
      <4>5. D \ {d} = {}
        BY <4>2, <4>4, FS_EmptySet
      <4> QED
        BY <1>4, <4>1, <4>5
    <3> QED
      BY <3>1, <3>2
  <2>2. \A n \in Node : Range(after[n]) \subseteq {d}
    BY <1>4, <2>1
  <2> QED
    BY <1>1, <1>3, <2>1, <2>2, OneDefinerClosesNoLoop
<1>7. HasLoop(Before') /\ (Cardinality(D) > 1 \/ HasLoop(WiredBefore'))
  BY <1>2, <1>3, <1>6
<1>8. D = UNION {Range(after'[n]) : n \in Node}
  BY <1>2 DEF D
<1> QED
  BY <1>2, <1>7, <1>8 DEF LoopsAreReal, HasLoop

\* A plan is refused only for a loop: of tensor edges, or of several definers
\* that wait for each other (eval_order_for_nodes, symbol_deps).
THEOREM RefusedForALoop == Spec => []LoopsAreReal
<1>1. Init => LoopsAreReal
  BY DEF Init, LoopsAreReal
<1>2. WalkInv /\ LoopsAreReal /\ [Next]_vars => LoopsAreReal'
  <2> SUFFICES ASSUME WalkInv, LoopsAreReal, [Next]_vars PROVE LoopsAreReal'
    OBVIOUS
  <2>1. CASE DetectLoop
    BY <2>1, LoopFound
  <2>2. CASE UNCHANGED vars
    <3>1. UNCHANGED <<model, after, phase>>
      BY <2>2 DEF vars
    <3>2. Before' = Before /\ WiredBefore' = WiredBefore
      BY <3>1, SamePrecursors
    <3> QED
      BY <3>1, <3>2 DEF LoopsAreReal, HasLoop
  <2>3. CASE Next /\ ~DetectLoop
    <3>1. phase' \in {"base", "walk", "ram", "built", "panicked"}
      BY <2>3, Phases DEF Walking
    <3> QED
      BY <3>1 DEF LoopsAreReal
  <2> QED
    BY <2>1, <2>2, <2>3
<1> QED
  BY <1>1, <1>2, InitWalks, WalkStep, PTL DEF Spec
================================================================================
