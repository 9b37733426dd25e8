----------------------------- MODULE OrderLemmas -----------------------------
(***************************************************************************)
(* Facts about natural numbers, finite sets of them and queues that the    *)
(* proofs of this project rest on.  LeastElement stands in for induction.  *)
(***************************************************************************)
EXTENDS Integers, FiniteSets, TLAPS, WellFoundedInduction, FiniteSetTheorems,
        SequenceTheorems

\* Every nonempty set of natural numbers has a least element: what replaces
\* induction over the positions of the queues of core/src/lanes.rs.
LEMMA LeastElement ==
  ASSUME NEW T \in SUBSET Nat, T # {}
  PROVE  \E x \in T : \A y \in T : x <= y
<1>1. PICK x \in T : \A y \in T : ~ (<<y, x>> \in OpToRel(<, Nat))
  BY NatLessThanWellFounded, WFMin
<1>2. \A y \in T : ~ (y < x)
  BY <1>1 DEF OpToRel
<1>3. QED
  BY <1>2

\* The elements of a finite set of positions can be ranked: for every j up to
\* its size there is an element that has exactly j elements up to itself.  It
\* is what makes Retain, the model of VecDeque::retain, well defined.
LEMMA Ranks ==
  ASSUME NEW n \in Nat, NEW K, \A k \in K : k \in 1 .. n
  PROVE  /\ IsFiniteSet(K) /\ Cardinality(K) \in Nat
         /\ \A j \in 1 .. Cardinality(K) : \E i \in K : Cardinality({k \in K : k <= i}) = j
<1> DEFINE UpTo(i) == {k \in K : k <= i}
<1>1. IsFiniteSet(K) /\ Cardinality(K) \in Nat
  <2>1. IsFiniteSet(1 .. n)
    BY FS_Interval
  <2>2. K \in SUBSET (1 .. n)
    BY Zenon
  <2>3. QED
    BY <2>1, <2>2, FS_Subset, FS_CardinalityType
<1>2. \A i : IsFiniteSet(UpTo(i)) /\ Cardinality(UpTo(i)) \in Nat
  <2>1. \A i : UpTo(i) \in SUBSET K
    OBVIOUS
  <2>2. QED
    BY <2>1, <1>1, FS_Subset, FS_CardinalityType
<1> SUFFICES ASSUME NEW j \in 1 .. Cardinality(K)
             PROVE  \E i \in K : Cardinality(UpTo(i)) = j
  BY <1>1
<1>3. UpTo(n) = K /\ UpTo(0) = {}
  OBVIOUS
<1>4. PICK i \in 0 .. n : /\ Cardinality(UpTo(i)) >= j
                          /\ \A h \in 0 .. n : Cardinality(UpTo(h)) >= j => i <= h
  <2> DEFINE T == {i \in 0 .. n : Cardinality(UpTo(i)) >= j}
  <2>1. T # {} /\ T \in SUBSET Nat
    <3>1. n \in T
      BY <1>1, <1>3
    <3>2. QED
      BY <3>1
  <2> HIDE DEF T
  <2>2. PICK i \in T : \A y \in T : i <= y
    BY <2>1, LeastElement
  <2>3. QED
    BY <2>2 DEF T
<1>5. i # 0
  BY <1>3, <1>4, FS_EmptySet
<1>6. Cardinality(UpTo(i - 1)) < j
  <2> HIDE DEF UpTo
  <2> QED
    BY <1>2, <1>4, <1>5
<1>7. i \in K
  <2> SUFFICES ASSUME i \notin K PROVE FALSE
    OBVIOUS
  <2>1. UpTo(i) = UpTo(i - 1)
    BY <1>5
  <2> HIDE DEF UpTo
  <2>2. QED
    BY <2>1, <1>2, <1>4, <1>6
<1>8. UpTo(i) = UpTo(i - 1) \cup {i}
  <2>1. \A k \in K : k <= i <=> k <= i - 1 \/ k = i
    OBVIOUS
  <2>2. QED
    BY <2>1, <1>7, Zenon
<1>9. Cardinality(UpTo(i)) <= Cardinality(UpTo(i - 1)) + 1
  <2> HIDE DEF UpTo
  <2>1. Cardinality(UpTo(i - 1) \cup {i}) <= Cardinality(UpTo(i - 1)) + 1
    BY <1>2, FS_AddElement
  <2>2. QED
    BY <2>1, <1>8
<1>10. Cardinality(UpTo(i)) = j
  <2> HIDE DEF UpTo
  <2> QED
    BY <1>2, <1>4, <1>6, <1>9
<1>11. QED
  BY <1>7, <1>10

\* The elements of a queue once one was sent to it (mpsc send, Vec::push).
LEMMA AppendElements ==
  ASSUME NEW S, NEW queue \in Seq(S), NEW e
  PROVE  /\ \A i \in DOMAIN Append(queue, e) :
              \/ i \in DOMAIN queue /\ Append(queue, e)[i] = queue[i]
              \/ i = Len(queue) + 1 /\ Append(queue, e)[i] = e
         /\ \A i \in DOMAIN queue :
              i \in DOMAIN Append(queue, e) /\ Append(queue, e)[i] = queue[i]
         /\ Len(queue) + 1 \in DOMAIN Append(queue, e)
         /\ Append(queue, e)[Len(queue) + 1] = e
         /\ Len(queue) + 1 \notin DOMAIN queue
  OBVIOUS

\* The elements of a queue once its head was popped (recv, VecDeque::pop_front).
LEMMA TailElements ==
  ASSUME NEW S, NEW queue \in Seq(S), queue # <<>>
  PROVE  /\ 1 \in DOMAIN queue /\ Head(queue) = queue[1]
         /\ \A i \in DOMAIN Tail(queue) :
              /\ i + 1 \in DOMAIN queue /\ i + 1 # 1 /\ i \in Int
              /\ Tail(queue)[i] = queue[i + 1]
         /\ \A i \in DOMAIN queue : i = 1 \/ (i - 1 \in DOMAIN Tail(queue)
                                             /\ Tail(queue)[i - 1] = queue[i])
  OBVIOUS

\* The elements of two queues put end to end (VecDeque::extend).
LEMMA ConcatElements ==
  ASSUME NEW S, NEW queue \in Seq(S), NEW other \in Seq(S)
  PROVE  \A i \in DOMAIN (queue \o other) :
            \/ i \in DOMAIN queue /\ (queue \o other)[i] = queue[i]
            \/ /\ i - Len(queue) \in DOMAIN other /\ i \in Int
               /\ (queue \o other)[i] = other[i - Len(queue)]
  OBVIOUS

\* Finitely many numbers have a bound.
LEMMA NumbersAreBounded ==
  ASSUME NEW n \in Nat, NEW f \in [1 .. n -> Nat]
  PROVE  \E bound \in Nat : \A k \in 1 .. n : f[k] <= bound
<1> DEFINE Bounds(m, bound) == \A k \in 1 .. m : k \in 1 .. n => f[k] <= bound
           Bad == {m \in Nat : ~\E bound \in Nat : Bounds(m, bound)}
<1>1. CASE Bad = {}
  <2>1. n \notin Bad
    BY <1>1
  <2>2. PICK bound \in Nat : Bounds(n, bound)
    BY <2>1
  <2>3. \A k \in 1 .. n : f[k] <= bound
    BY <2>2
  <2> HIDE DEF Bad, Bounds
  <2> QED
    BY <2>2, <2>3
<1>2. CASE Bad # {}
  <2>1. Bad \in SUBSET Nat
    OBVIOUS
  <2> HIDE DEF Bad
  <2>2. PICK m \in Bad : \A y \in Bad : m <= y
    BY <1>2, <2>1, LeastElement
  <2>3. m \in Nat /\ ~\E bound \in Nat : Bounds(m, bound)
    BY <2>2 DEF Bad
  <2>4. Bounds(0, 0)
    OBVIOUS
  <2>5. m # 0
    BY <2>3, <2>4
  <2>6. m - 1 \in Nat /\ m - 1 \notin Bad
    BY <2>2, <2>3, <2>5
  <2>7. PICK bound \in Nat : Bounds(m - 1, bound)
    BY <2>6 DEF Bad
  <2>8. CASE m \in 1 .. n
    <3>1. f[m] \in Nat /\ \A k \in 1 .. m : k = m \/ k \in 1 .. m - 1
      BY <2>3, <2>8
    <3>2. Bounds(m, bound + f[m])
      <4> SUFFICES ASSUME NEW k \in 1 .. m, k \in 1 .. n PROVE f[k] <= bound + f[m]
        OBVIOUS
      <4>1. f[k] \in Nat
        OBVIOUS
      <4> QED
        BY <2>7, <3>1, <4>1
    <3>3. bound + f[m] \in Nat
      BY <2>7, <3>1
    <3> HIDE DEF Bounds
    <3> QED
      BY <2>3, <3>2, <3>3
  <2>9. CASE m \notin 1 .. n
    <3>1. \A k \in 1 .. m : k \in 1 .. n => k \in 1 .. m - 1
      BY <2>3, <2>9
    <3>2. Bounds(m, bound)
      BY <2>7, <3>1
    <3> QED
      BY <2>3, <3>2
  <2> QED
    BY <2>8, <2>9
<1> QED
  BY <1>1, <1>2

\* The recursive function that sums over a finite set, one element after the
\* other, exists and yields numbers.
Some(s) == CHOOSE x \in s : TRUE
SumsUp(sum, P, e) ==
  \A s \in SUBSET P : sum[s] = IF s = {} THEN 0 ELSE e[Some(s)] + sum[s \ {Some(s)}]

LEMMA SumsAreNumbers ==
  ASSUME NEW P, IsFiniteSet(P), NEW e \in [P -> Nat]
  PROVE  /\ \E sum \in [SUBSET P -> Nat] : SumsUp(sum, P, e)
         /\ \A sum : SumsUp(sum, P, e) => \A s \in SUBSET P : sum[s] \in Nat
<1> DEFINE Less(s) == s \ {Some(s)}
           Sums(sum, s) == sum[s] = IF s = {} THEN 0 ELSE e[Some(s)] + sum[Less(s)]
           Upto(k) == {s \in SUBSET P : Cardinality(s) <= k}
           SumTo(sum, k) == \A s \in Upto(k) : Sums(sum, s)
           Bad == {k \in Nat : ~\E sum \in [SUBSET P -> Nat] : SumTo(sum, k)}
<1>1. \A s \in SUBSET P : Cardinality(s) \in Nat /\ Cardinality(s) <= Cardinality(P) /\ IsFiniteSet(s)
  BY FS_Subset, FS_CardinalityType
<1>2. ASSUME NEW s \in SUBSET P, s # {}
      PROVE  /\ Some(s) \in s /\ e[Some(s)] \in Nat /\ Less(s) \in SUBSET P
             /\ Cardinality(Less(s)) = Cardinality(s) - 1
  <2>1. Some(s) \in s
    BY <1>2 DEF Some
  <2>2. Cardinality(Less(s)) = Cardinality(s) - 1
    BY <1>1, <2>1, FS_RemoveElement
  <2> QED
    BY <2>1, <2>2
<1>3. Cardinality(P) \in Nat /\ \A s \in SUBSET P : s \in Upto(Cardinality(P))
  BY <1>1
<1>4. \A s \in SUBSET P : Cardinality(s) = 0 <=> s = {}
  BY <1>1, FS_EmptySet
<1> HIDE DEF Less
<1>5. Bad = {}
  <2> SUFFICES ASSUME Bad # {} PROVE FALSE
    OBVIOUS
  <2>1. Bad \in SUBSET Nat
    OBVIOUS
  <2> HIDE DEF Bad
  <2>2. PICK k \in Bad : \A y \in Bad : k <= y
    BY <2>1, LeastElement
  <2>3. k \in Nat /\ ~\E sum \in [SUBSET P -> Nat] : SumTo(sum, k)
    BY <2>2 DEF Bad
  <2>4. k # 0
    <3> DEFINE zero == [s \in SUBSET P |-> 0]
    <3>1. zero \in [SUBSET P -> Nat] /\ \A s \in SUBSET P : zero[s] = 0
      OBVIOUS
    <3>2. \A s \in Upto(0) : s \in SUBSET P /\ s = {}
      BY <1>1, <1>4
    <3> HIDE DEF zero
    <3>3. SumTo(zero, 0)
      BY <3>1, <3>2
    <3> QED
      BY <2>3, <3>1, <3>3
  <2>5. k - 1 \in Nat /\ k - 1 \notin Bad
    BY <2>2, <2>3, <2>4
  <2>6. PICK sum \in [SUBSET P -> Nat] : SumTo(sum, k - 1)
    BY <2>5 DEF Bad
  <2> DEFINE more == [s \in SUBSET P |-> IF Cardinality(s) = k THEN e[Some(s)] + sum[Less(s)] ELSE sum[s]]
  <2>7. \A s \in SUBSET P : Cardinality(s) = k => s # {}
    BY <1>4, <2>4
  <2>8. more \in [SUBSET P -> Nat]
    <3>1. ASSUME NEW s \in SUBSET P, Cardinality(s) = k PROVE e[Some(s)] + sum[Less(s)] \in Nat
      <4>1. e[Some(s)] \in Nat /\ sum[Less(s)] \in Nat
        BY <1>2, <2>6, <2>7, <3>1
      <4> QED
        BY <4>1
    <3> QED
      BY <2>6, <3>1
  <2>9. /\ \A s \in SUBSET P : Cardinality(s) = k => more[s] = e[Some(s)] + sum[Less(s)]
        /\ \A s \in SUBSET P : Cardinality(s) # k => more[s] = sum[s]
    OBVIOUS
  <2> HIDE DEF more
  <2>10. ASSUME NEW s \in Upto(k) PROVE Sums(more, s)
    <3>1. s \in SUBSET P /\ Cardinality(s) <= k /\ Cardinality(s) \in Nat
      BY <1>1
    <3>2. CASE s = {}
      <4>1. Cardinality(s) = 0 /\ s \in Upto(k - 1)
        BY <1>4, <2>5, <3>1, <3>2
      <4>2. more[s] = sum[s] /\ sum[s] = 0
        BY <2>4, <2>6, <2>9, <3>1, <3>2, <4>1
      <4> QED
        BY <3>2, <4>2
    <3>3. CASE s # {}
      <4>1. /\ Less(s) \in SUBSET P /\ Cardinality(Less(s)) = Cardinality(s) - 1
        BY <1>2, <3>1, <3>3
      <4>2. more[Less(s)] = sum[Less(s)]
        BY <2>3, <2>9, <3>1, <4>1
      <4>3. CASE Cardinality(s) = k
        BY <2>9, <3>1, <3>3, <4>2, <4>3
      <4>4. CASE Cardinality(s) # k
        <5>1. s \in Upto(k - 1)
          BY <2>3, <3>1, <4>4
        <5>2. sum[s] = e[Some(s)] + sum[Less(s)]
          BY <2>6, <3>3, <5>1
        <5> QED
          BY <2>9, <3>1, <3>3, <4>2, <4>4, <5>2
      <4> QED
        BY <4>3, <4>4
    <3> QED
      BY <3>2, <3>3
  <2> HIDE DEF Upto, Sums
  <2> QED
    BY <2>3, <2>8, <2>10
<1>6. \E sum \in [SUBSET P -> Nat] : \A s \in SUBSET P : Sums(sum, s)
  <2>1. PICK sum \in [SUBSET P -> Nat] : SumTo(sum, Cardinality(P))
    BY <1>3, <1>5
  <2> HIDE DEF Upto, Sums
  <2> QED
    BY <1>3, <2>1
<1>7. ASSUME NEW sum, \A s \in SUBSET P : Sums(sum, s)
      PROVE  \A s \in SUBSET P : sum[s] \in Nat
  <2> DEFINE Odd == {k \in Nat : \E s \in SUBSET P : Cardinality(s) = k /\ sum[s] \notin Nat}
  <2>1. CASE Odd = {}
    BY <1>1, <2>1
  <2>2. CASE Odd # {}
    <3>1. Odd \in SUBSET Nat
      OBVIOUS
    <3> HIDE DEF Odd
    <3>2. PICK k \in Odd : \A y \in Odd : k <= y
      BY <2>2, <3>1, LeastElement
    <3>3. k \in Nat
      BY <3>2 DEF Odd
    <3>4. PICK s \in SUBSET P : Cardinality(s) = k /\ sum[s] \notin Nat
      BY <3>2 DEF Odd
    <3>5. s # {}
      BY <1>7, <3>4
    <3>6. sum[s] = e[Some(s)] + sum[Less(s)]
      BY <1>7, <3>5
    <3>7. Less(s) \in SUBSET P /\ Cardinality(Less(s)) = k - 1 /\ e[Some(s)] \in Nat
      BY <1>2, <3>4, <3>5
    <3>8. k - 1 \in Nat /\ k - 1 \notin Odd
      BY <1>1, <3>2, <3>3, <3>7
    <3>9. sum[Less(s)] \in Nat
      BY <3>7, <3>8 DEF Odd
    <3>10. e[Some(s)] + sum[Less(s)] \in Nat
      BY <3>7, <3>9
    <3> QED
      BY <3>4, <3>6, <3>10
  <2> QED
    BY <2>1, <2>2
<1> QED
  BY <1>6, <1>7 DEF SumsUp, Less
=============================================================================
