---------------------------- MODULE PulsifyProofs ----------------------------
(***************************************************************************)
(* Proofs about pulsification, for every graph and pulse.                  *)
(*                                                                         *)
(* First, the operators on frames: how many frames they give, and that     *)
(* these are numbers.  Then pulsification: what each operator wires is     *)
(* sound (IsPulsed) and stands, wire by wire, for what the operator makes  *)
(* of a whole stream (Means); so does a whole graph (ModelStands).  Last,  *)
(* whether the end of a stream is known in time by the nodes that add to   *)
(* it (GraphTells).                                                        *)
(***************************************************************************)
EXTENDS PulseSession, OrderLemmas

-----------------------------------------------------------------------------
(* The operators on frames: how many there are, and that they are numbers.   *)

\* A function of 1 .. n is a sequence.
LEMMA ListedIsASequence ==
    ASSUME NEW S, NEW n \in Nat, NEW x \in [1 .. n -> S]
    PROVE  x \in Seq(S) /\ Len(x) = n /\ DOMAIN x = 1 .. n
<1>1. x \in Seq(S)
  BY SeqDef
<1> QED
  BY <1>1

LEMMA SequenceIsListed ==
    ASSUME NEW S, NEW x \in Seq(S)
    PROVE  Len(x) \in Nat /\ x \in [1 .. Len(x) -> S]
  OBVIOUS

\* Sums is a recursive function: there is one, and it is what it says.
SumsUpTo(x, from, n, f) == f = [k \in 0 .. n |-> IF k = 0 THEN from ELSE f[k - 1] + x[k]]

LEMMA SumsExist ==
    ASSUME NEW x, NEW from, NEW n \in Nat
    PROVE  \E f : SumsUpTo(x, from, n, f)
<1> DEFINE Bad == {m \in Nat : ~\E f : SumsUpTo(x, from, m, f)}
<1>1. Bad = {}
  <2> SUFFICES ASSUME Bad # {} PROVE FALSE
    OBVIOUS
  <2>1. Bad \in SUBSET Nat
    OBVIOUS
  <2>2. PICK m \in Bad : \A j \in Bad : m <= j
    <3> HIDE DEF Bad
    <3> QED
      BY <2>1, LeastElement
  <2>3. m \in Nat /\ ~\E f : SumsUpTo(x, from, m, f)
    OBVIOUS
  <2>4. SumsUpTo(x, from, 0, [k \in 0 .. 0 |-> from])
    BY DEF SumsUpTo
  <2>5. m # 0
    BY <2>3, <2>4
  <2>6. m - 1 \in Nat /\ m - 1 \notin Bad
    <3> HIDE DEF Bad
    <3> QED
      BY <2>2, <2>3, <2>5
  <2>7. PICK f : SumsUpTo(x, from, m - 1, f)
    BY <2>6
  <2> DEFINE g == [k \in 0 .. m |-> IF k = m THEN f[m - 1] + x[m] ELSE f[k]]
  <2>8. \A k \in 0 .. m : g[k] = IF k = 0 THEN from ELSE g[k - 1] + x[k]
    <3> TAKE k \in 0 .. m
    <3>1. f = [i \in 0 .. m - 1 |-> IF i = 0 THEN from ELSE f[i - 1] + x[i]]
      BY <2>7 DEF SumsUpTo
    <3>2. CASE k = m
      <4>1. m - 1 \in 0 .. m /\ m - 1 # m
        BY <2>3, <2>5
      <4> QED
        BY <2>3, <2>5, <3>2, <4>1
    <3>3. CASE k # m
      <4>1. k \in 0 .. m - 1 /\ g[k] = f[k]
        BY <2>3, <3>3
      <4>2. k # 0 => k - 1 \in 0 .. m /\ k - 1 # m
        BY <2>3, <4>1
      <4> QED
        BY <3>1, <4>1, <4>2
    <3> QED
      BY <3>2, <3>3
  <2>9. SumsUpTo(x, from, m, g)
    BY <2>8 DEF SumsUpTo
  <2> QED
    BY <2>3, <2>9
<1> QED
  BY <1>1

LEMMA SumsAre ==
    ASSUME NEW x \in Seq(Int), NEW from \in Int
    PROVE  /\ Sums(x, from)[0] = from
           /\ \A k \in 1 .. Len(x) : Sums(x, from)[k] = Sums(x, from)[k - 1] + x[k]
           /\ \A k \in 0 .. Len(x) : Sums(x, from)[k] \in Int
<1> DEFINE f == Sums(x, from)
           n == Len(x)
           Bad == {k \in 0 .. n : f[k] \notin Int}
<1>1. n \in Nat
  OBVIOUS
<1>2. SumsUpTo(x, from, n, f)
  <2>1. \E g : SumsUpTo(x, from, n, g)
    BY <1>1, SumsExist
  <2>2. f = CHOOSE g : SumsUpTo(x, from, n, g)
    BY DEF Sums, SumsUpTo
  <2> HIDE DEF f, n
  <2> QED
    BY <2>1, <2>2
<1> HIDE DEF f
<1>3. \A k \in 0 .. n : f[k] = IF k = 0 THEN from ELSE f[k - 1] + x[k]
  BY <1>2 DEF SumsUpTo
<1>4. \A k \in 0 .. n : f[k] \in Int
  <2> SUFFICES ASSUME Bad # {} PROVE FALSE
    OBVIOUS
  <2>1. Bad \in SUBSET Nat
    OBVIOUS
  <2>2. PICK k \in Bad : \A j \in Bad : k <= j
    <3> HIDE DEF Bad
    <3> QED
      BY <2>1, LeastElement
  <2>3. k \in 0 .. n /\ f[k] \notin Int
    OBVIOUS
  <2>4. k # 0
    BY <1>3, <2>3
  <2>5. k - 1 \in 0 .. n /\ k - 1 \notin Bad
    <3> HIDE DEF Bad
    <3> QED
      BY <1>1, <2>2, <2>3, <2>4
  <2>6. f[k - 1] \in Int /\ x[k] \in Int
    BY <1>1, <2>3, <2>4, <2>5
  <2> QED
    BY <1>3, <2>3, <2>4, <2>6
<1> QED
  BY <1>1, <1>3, <1>4 DEF f

LEMMA TotalIsInt ==
    ASSUME NEW n \in Nat, NEW x \in [1 .. n -> Int]
    PROVE  Total(x) \in Int
<1>1. x \in Seq(Int) /\ Len(x) = n
  BY ListedIsASequence
<1>2. Len(x) \in 0 .. Len(x)
  BY <1>1
<1> QED
  BY <1>1, <1>2, SumsAre DEF Total

TensUpTo(n, f) == f = [i \in 0 .. n |-> IF i = 0 THEN 1 ELSE 10 * f[i - 1]]

LEMMA TensExist ==
    ASSUME NEW n \in Nat
    PROVE  \E f : TensUpTo(n, f)
<1> DEFINE Bad == {m \in Nat : ~\E f : TensUpTo(m, f)}
<1>1. Bad = {}
  <2> SUFFICES ASSUME Bad # {} PROVE FALSE
    OBVIOUS
  <2>1. Bad \in SUBSET Nat
    OBVIOUS
  <2>2. PICK m \in Bad : \A j \in Bad : m <= j
    <3> HIDE DEF Bad
    <3> QED
      BY <2>1, LeastElement
  <2>3. m \in Nat /\ ~\E f : TensUpTo(m, f)
    OBVIOUS
  <2>4. TensUpTo(0, [i \in 0 .. 0 |-> 1])
    BY DEF TensUpTo
  <2>5. m # 0
    BY <2>3, <2>4
  <2>6. m - 1 \in Nat /\ m - 1 \notin Bad
    <3> HIDE DEF Bad
    <3> QED
      BY <2>2, <2>3, <2>5
  <2>7. PICK f : TensUpTo(m - 1, f)
    BY <2>6
  <2> DEFINE g == [i \in 0 .. m |-> IF i = m THEN 10 * f[m - 1] ELSE f[i]]
  <2>8. \A i \in 0 .. m : g[i] = IF i = 0 THEN 1 ELSE 10 * g[i - 1]
    <3> TAKE i \in 0 .. m
    <3>1. f = [k \in 0 .. m - 1 |-> IF k = 0 THEN 1 ELSE 10 * f[k - 1]]
      BY <2>7 DEF TensUpTo
    <3>2. CASE i = m
      <4>1. m - 1 \in 0 .. m /\ m - 1 # m
        BY <2>3, <2>5
      <4> QED
        BY <2>3, <2>5, <3>2, <4>1
    <3>3. CASE i # m
      <4>1. i \in 0 .. m - 1 /\ g[i] = f[i]
        BY <2>3, <3>3
      <4>2. i # 0 => i - 1 \in 0 .. m /\ i - 1 # m
        BY <2>3, <4>1
      <4> QED
        BY <3>1, <4>1, <4>2
    <3> QED
      BY <3>2, <3>3
  <2>9. TensUpTo(m, g)
    BY <2>8 DEF TensUpTo
  <2> QED
    BY <2>3, <2>9
<1> QED
  BY <1>1

LEMMA TenToIsInt ==
    ASSUME NEW n \in Nat
    PROVE  TenTo(n) \in Int
<1> DEFINE f == CHOOSE g : TensUpTo(n, g)
           Bad == {i \in 0 .. n : f[i] \notin Int}
<1>1. TenTo(n) = f[n]
  BY DEF TenTo, TensUpTo
<1>2. TensUpTo(n, f)
  BY TensExist
<1> HIDE DEF f
<1>3. \A i \in 0 .. n : f[i] = IF i = 0 THEN 1 ELSE 10 * f[i - 1]
  BY <1>2 DEF TensUpTo
<1>4. Bad = {}
  <2> SUFFICES ASSUME Bad # {} PROVE FALSE
    OBVIOUS
  <2>1. Bad \in SUBSET Nat
    OBVIOUS
  <2>2. PICK i \in Bad : \A j \in Bad : i <= j
    <3> HIDE DEF Bad
    <3> QED
      BY <2>1, LeastElement
  <2>3. i \in 0 .. n /\ f[i] \notin Int
    OBVIOUS
  <2>4. i # 0
    BY <1>3, <2>3
  <2>5. i - 1 \in 0 .. n /\ i - 1 \notin Bad
    <3> HIDE DEF Bad
    <3> QED
      BY <2>2, <2>3, <2>4
  <2>6. f[i - 1] \in Int
    BY <2>5
  <2> QED
    BY <1>3, <2>3, <2>4, <2>6
<1> QED
  BY <1>1, <1>4

LEMMA SignalFrameIsInt ==
    ASSUME NEW signal \in Int, NEW i \in Nat \ {0}
    PROVE  SignalFrame(signal, i) \in Int
<1>1. TenTo(i - 1) \in Int
  BY TenToIsInt
<1> QED
  BY <1>1 DEF SignalFrame

\* A greatest of finitely many numbers.
LEMMA GreatestOfList ==
    ASSUME NEW n \in Nat \ {0}, NEW x \in [1 .. n -> Int]
    PROVE  \E i \in 1 .. n : \A j \in 1 .. n : x[i] >= x[j]
<1> DEFINE Has(m) == \E i \in 1 .. m : \A j \in 1 .. m : x[i] >= x[j]
           Bad == {m \in 1 .. n : ~Has(m)}
<1> SUFFICES ASSUME Bad # {} PROVE FALSE
  <2>1. n \in 1 .. n
    OBVIOUS
  <2>2. Bad = {} => Has(n)
    BY <2>1, Zenon
  <2> QED
    BY <2>2
<1>1. Bad \in SUBSET Nat
  OBVIOUS
<1>2. PICK m \in Bad : \A j \in Bad : m <= j
  <2> HIDE DEF Bad
  <2> QED
    BY <1>1, LeastElement
<1>3. m \in 1 .. n /\ ~Has(m)
  OBVIOUS
<1>4. m # 1
  <2>1. Has(1)
    OBVIOUS
  <2> HIDE DEF Has
  <2> QED
    BY <1>3, <2>1
<1>5. m - 1 \in 1 .. n /\ m - 1 \notin Bad
  <2> HIDE DEF Bad
  <2> QED
    BY <1>2, <1>3, <1>4
<1>6. PICK i \in 1 .. m - 1 : \A j \in 1 .. m - 1 : x[i] >= x[j]
  BY <1>5
<1>7. x[i] \in Int /\ x[m] \in Int /\ \A j \in 1 .. m : x[j] \in Int
  BY <1>3, <1>6
<1>8. CASE x[i] >= x[m]
  <2>1. \A j \in 1 .. m - 1 : x[i] >= x[j]
    BY <1>3, <1>6
  <2>2. ASSUME NEW j \in 1 .. m PROVE x[i] >= x[j]
    <3>1. CASE j = m
      BY <1>8, <3>1
    <3>2. CASE j # m
      <4>1. j \in 1 .. m - 1
        BY <1>3, <3>2
      <4> QED
        BY <2>1, <4>1
    <3> QED
      BY <3>1, <3>2
  <2>3. i \in 1 .. m
    BY <1>3, <1>6
  <2> QED
    BY <1>3, <2>2, <2>3
<1>9. CASE x[m] > x[i]
  <2>1. \A j \in 1 .. m - 1 : x[j] \in Int /\ x[i] >= x[j]
    BY <1>3, <1>6
  <2>2. ASSUME NEW j \in 1 .. m PROVE x[m] >= x[j]
    <3>1. CASE j = m
      BY <1>7, <3>1
    <3>2. CASE j # m
      <4>1. j \in 1 .. m - 1
        BY <1>3, <3>2
      <4> DEFINE top == x[m] middle == x[i] low == x[j]
      <4>2. x[j] \in Int /\ x[i] >= x[j]
        BY <2>1, <4>1
      <4>3. top \in Int /\ middle \in Int /\ low \in Int
        BY <1>7, <4>2
      <4>4. top > middle /\ middle >= low
        BY <1>9, <4>2
      <4> HIDE DEF top, middle, low
      <4>5. top >= low
        BY <4>3, <4>4
      <4> QED
        BY <4>5 DEF top, low
    <3> QED
      BY <3>1, <3>2
  <2>3. m \in 1 .. m
    BY <1>3
  <2> QED
    BY <1>3, <2>2, <2>3
<1> QED
  BY <1>7, <1>8, <1>9

LEMMA MaxOfList ==
    ASSUME NEW n \in Nat \ {0}, NEW x \in [1 .. n -> Int]
    PROVE  /\ Max(ToSet(x)) \in Int
           /\ \E i \in 1 .. n : Max(ToSet(x)) = x[i]
           /\ \A i \in 1 .. n : Max(ToSet(x)) >= x[i]
<1>1. \A v : v \in ToSet(x) <=> \E i \in 1 .. n : v = x[i]
  BY DEF ToSet
<1>2. PICK i \in 1 .. n : \A j \in 1 .. n : x[i] >= x[j]
  BY GreatestOfList
<1>3. x[i] \in ToSet(x) /\ \A y \in ToSet(x) : x[i] >= y
  BY <1>1, <1>2
<1>4. Max(ToSet(x)) \in ToSet(x) /\ \A y \in ToSet(x) : Max(ToSet(x)) >= y
  BY <1>3 DEF Max
<1> QED
  BY <1>1, <1>4

-----------------------------------------------------------------------------
(* Quotients, and how many windows there are.                                *)

LEMMA TimesGrows ==
    ASSUME NEW a \in Int, NEW b \in Int, a <= b, NEW d \in Nat
    PROVE  a * d <= b * d
  OBVIOUS

LEMMA CeilDivIs ==
    ASSUME NEW n \in Int, NEW d \in Nat \ {0}
    PROVE  /\ CeilDiv(n, d) \in Int
           /\ (CeilDiv(n, d) - 1) * d < n
           /\ n <= CeilDiv(n, d) * d
<1> DEFINE x == n + d - 1
           q == x \div d
           r == x % d
<1>1. q \in Int /\ r \in 0 .. d - 1 /\ x = q * d + r
  OBVIOUS
<1>2. x = n + d - 1 /\ CeilDiv(n, d) = q
  BY DEF CeilDiv
<1> HIDE DEF q, r, x
<1>3. (q - 1) * d = q * d - d
  BY <1>1
<1> QED
  BY <1>1, <1>2, <1>3

LEMMA WindowCountIs ==
    ASSUME NEW n \in Nat, NEW size \in Nat \ {0}, NEW stride \in Nat \ {0},
           NEW dilation \in Nat \ {0}
    PROVE  /\ WindowCount(n, size, stride, dilation) \in Nat
           /\ \A j \in 1 .. WindowCount(n, size, stride, dilation) : \A t \in 1 .. size :
                 (j - 1) * stride + (t - 1) * dilation + 1 \in 1 .. n
<1> DEFINE kernel == KernelLen(size, dilation)
           c == CeilDiv(n - kernel, stride)
<1>1. kernel \in Nat /\ kernel = (size - 1) * dilation
  BY DEF KernelLen
<1> HIDE DEF kernel
<1>2. c \in Int /\ (c - 1) * stride < n - kernel
  BY <1>1, CeilDivIs
<1>3. WindowCount(n, size, stride, dilation) = Positive(c)
  BY DEF WindowCount, kernel
<1> HIDE DEF c
<1>4. ASSUME NEW j \in 1 .. Positive(c), NEW t \in 1 .. size
      PROVE  (j - 1) * stride + (t - 1) * dilation + 1 \in 1 .. n
  <2>1. j - 1 \in Nat /\ j - 1 <= c - 1 /\ c - 1 \in Int /\ t - 1 \in Nat /\ t - 1 <= size - 1
        /\ size - 1 \in Int
    BY <1>2, <1>4 DEF Positive
  <2>2. (j - 1) * stride <= (c - 1) * stride
    BY <2>1, TimesGrows
  <2>3. (t - 1) * dilation <= kernel
    BY <1>1, <2>1, TimesGrows
  <2> DEFINE u == (j - 1) * stride
             v == (t - 1) * dilation
             w == (c - 1) * stride
  <2>4. u \in Nat /\ v \in Nat /\ w \in Int
    <3>1. \A a \in Nat : \A b \in Nat : a * b \in Nat
      OBVIOUS
    <3> QED
      BY <1>2, <2>1, <3>1
  <2>5. u <= w /\ w < n - kernel /\ v <= kernel
    BY <1>2, <2>2, <2>3
  <2> HIDE DEF u, v, w
  <2>6. u + v + 1 \in 1 .. n
    BY <1>1, <2>4, <2>5
  <2> QED
    BY <2>6 DEF u, v
<1> QED
  BY <1>2, <1>3, <1>4 DEF Positive

-----------------------------------------------------------------------------
(* What the operators answer: so many frames, every one a number.            *)

LEMMA ConvolvedFrames ==
    ASSUME NEW n \in Nat, NEW x \in [1 .. n -> Int], NEW op,
           op.size \in Nat \ {0}, op.stride \in Nat \ {0}, op.dilation \in Nat \ {0}
    PROVE  /\ WindowCount(n, op.size, op.stride, op.dilation) \in Nat
           /\ Convolved(x, op) \in [1 .. WindowCount(n, op.size, op.stride, op.dilation) -> Int]
           /\ Pooled(x, op) \in [1 .. WindowCount(n, op.size, op.stride, op.dilation) -> Int]
<1> DEFINE c == WindowCount(n, op.size, op.stride, op.dilation)
           Seen(j) == Window(x, j, op.size, op.stride, op.dilation)
<1>1. Len(x) = n
  BY ListedIsASequence
<1>2. c \in Nat
  BY WindowCountIs
<1>3. ASSUME NEW j \in 1 .. c PROVE Seen(j) \in [1 .. op.size -> Int]
  <2>1. \A t \in 1 .. op.size : (j - 1) * op.stride + (t - 1) * op.dilation + 1 \in 1 .. n
    BY WindowCountIs
  <2>2. \A t \in 1 .. op.size : x[(j - 1) * op.stride + (t - 1) * op.dilation + 1] \in Int
    BY <2>1, Zenon
  <2> QED
    BY <2>2 DEF Window
<1>4. ASSUME NEW j \in 1 .. c
      PROVE  Total([t \in 1 .. op.size |-> t * Seen(j)[t]]) \in Int
  <2>1. Seen(j) \in [1 .. op.size -> Int]
    BY <1>3
  <2> HIDE DEF Seen
  <2>2. [t \in 1 .. op.size |-> t * Seen(j)[t]] \in [1 .. op.size -> Int]
    BY <2>1
  <2> QED
    BY <2>2, TotalIsInt
<1>5. ASSUME NEW j \in 1 .. c PROVE Max(ToSet(Seen(j))) \in Int
  BY <1>3, MaxOfList
<1>6. /\ Convolved(x, op) = [j \in 1 .. c |-> Total([t \in 1 .. op.size |-> t * Seen(j)[t]])]
      /\ Pooled(x, op) = [j \in 1 .. c |-> Max(ToSet(Seen(j)))]
  BY <1>1 DEF Convolved, Pooled
<1> HIDE DEF c, Seen
<1>7. c \in Nat /\ Convolved(x, op) \in [1 .. c -> Int] /\ Pooled(x, op) \in [1 .. c -> Int]
  BY <1>2, <1>4, <1>5, <1>6
<1> QED
  BY <1>7 DEF c

LEMMA SampleCountIs ==
    ASSUME NEW n \in Nat, NEW stride \in Nat \ {0}, NEW modulo \in Nat
    PROVE  /\ Positive(CeilDiv(n - modulo, stride)) \in Nat
           /\ \A j \in 1 .. Positive(CeilDiv(n - modulo, stride)) :
                 (j - 1) * stride + modulo + 1 \in 1 .. n
<1> DEFINE c == CeilDiv(n - modulo, stride)
<1>1. c \in Int /\ (c - 1) * stride < n - modulo
  BY CeilDivIs
<1> HIDE DEF c
<1>2. ASSUME NEW j \in 1 .. Positive(c)
      PROVE  (j - 1) * stride + modulo + 1 \in 1 .. n
  <2>1. j - 1 \in Nat /\ j - 1 <= c - 1 /\ c - 1 \in Int
    BY <1>1, <1>2 DEF Positive
  <2>2. (j - 1) * stride <= (c - 1) * stride
    BY <2>1, TimesGrows
  <2>3. (j - 1) * stride \in Nat /\ (c - 1) * stride \in Int
    BY <2>1
  <2> QED
    BY <1>1, <2>2, <2>3
<1> QED
  BY <1>1, <1>2 DEF Positive, c

LEMMA SampledFrames ==
    ASSUME NEW n \in Nat, NEW x \in [1 .. n -> Int],
           NEW stride \in Nat \ {0}, NEW modulo \in Nat
    PROVE  /\ Positive(CeilDiv(n - modulo, stride)) \in Nat
           /\ Sampled(x, stride, modulo) \in [1 .. Positive(CeilDiv(n - modulo, stride)) -> Int]
<1> DEFINE c == Positive(CeilDiv(n - modulo, stride))
<1>1. Len(x) = n
  BY ListedIsASequence
<1>2. c \in Nat /\ \A j \in 1 .. c : (j - 1) * stride + modulo + 1 \in 1 .. n
  BY SampleCountIs
<1>3. Sampled(x, stride, modulo) = [j \in 1 .. c |-> x[(j - 1) * stride + modulo + 1]]
  BY <1>1 DEF Sampled
<1> HIDE DEF c
<1>4. \A j \in 1 .. c : x[(j - 1) * stride + modulo + 1] \in Int
  BY <1>2, Zenon
<1>5. c \in Nat /\ Sampled(x, stride, modulo) \in [1 .. c -> Int]
  BY <1>2, <1>3, <1>4
<1> QED
  BY <1>5 DEF c

LEMMA DeconvolvedFrames ==
    ASSUME NEW n \in Nat, NEW x \in [1 .. n -> Int], NEW op, NEW more \in Nat,
           op.size \in Nat \ {0}, op.stride \in Nat \ {0}
    PROVE  Deconvolved(x, op, more) \in [1 .. (n - 1) * op.stride + op.size + more -> Int]
<1> DEFINE Part(p, i) == LET t == p - (i - 1) * op.stride
                         IN  IF t \in 1 .. op.size THEN t * x[i] ELSE 0
<1>1. Len(x) = n
  BY ListedIsASequence
<1>2. ASSUME NEW p \in Int PROVE Total([i \in 1 .. n |-> Part(p, i)]) \in Int
  <2>1. ASSUME NEW i \in 1 .. n PROVE Part(p, i) \in Int
    <3>1. x[i] \in Int
      OBVIOUS
    <3>2. \A t \in 1 .. op.size : t * x[i] \in Int
      BY <3>1
    <3> QED
      BY <3>2
  <2> HIDE DEF Part
  <2>2. [i \in 1 .. n |-> Part(p, i)] \in [1 .. n -> Int]
    BY <2>1
  <2> QED
    BY <2>2, TotalIsInt
<1>3. Deconvolved(x, op, more)
        = [p \in 1 .. (n - 1) * op.stride + op.size + more |-> Total([i \in 1 .. n |-> Part(p, i)])]
  BY <1>1 DEF Deconvolved
<1> HIDE DEF Part
<1>4. \A p \in 1 .. (n - 1) * op.stride + op.size + more : p \in Int
  OBVIOUS
<1> QED
  BY <1>2, <1>3, <1>4

LEMMA CumulatedFrames ==
    ASSUME NEW n \in Nat, NEW x \in [1 .. n -> Int], NEW from \in Int, NEW exclusive
    PROVE  Cumulated(x, from, exclusive) \in [1 .. n -> Int]
<1>1. x \in Seq(Int) /\ Len(x) = n
  BY ListedIsASequence
<1>2. \A k \in 0 .. n : Sums(x, from)[k] \in Int
  BY <1>1, SumsAre
<1>3. \A i \in 1 .. n : i - 1 \in 0 .. n /\ i \in 0 .. n
  OBVIOUS
<1> QED
  BY <1>1, <1>2, <1>3 DEF Cumulated

LEMMA OverwrittenFrames ==
    ASSUME NEW n \in Nat, NEW x \in [1 .. n -> Int], NEW pos \in Int, NEW offset \in Int,
           NEW const \in Seq(Int)
    PROVE  Overwritten(x, pos, const, offset) \in [1 .. n -> Int]
<1>1. Len(x) = n
  BY ListedIsASequence
<1>2. \A k \in DOMAIN const : const[k] \in Int
  OBVIOUS
<1> QED
  BY <1>1, <1>2 DEF Overwritten

LEMMA JoinedFrames ==
    ASSUME NEW S, NEW m \in Nat, NEW n \in Nat, NEW x \in [1 .. m -> S], NEW y \in [1 .. n -> S]
    PROVE  x \o y \in [1 .. m + n -> S]
<1>1. x \in Seq(S) /\ y \in Seq(S) /\ Len(x) = m /\ Len(y) = n
  BY ListedIsASequence
<1>2. x \o y \in Seq(S) /\ Len(x \o y) = m + n
  BY <1>1
<1> QED
  BY <1>2, SequenceIsListed

LEMMA PartOfFrames ==
    ASSUME NEW S, NEW n \in Nat, NEW x \in [1 .. n -> S], NEW a \in 1 .. n + 1, NEW b \in a - 1 .. n
    PROVE  SubSeq(x, a, b) \in [1 .. b - a + 1 -> S]
<1>1. x \in Seq(S) /\ Len(x) = n
  BY ListedIsASequence
<1>2. SubSeq(x, a, b) \in Seq(S) /\ Len(SubSeq(x, a, b)) = b - a + 1
  BY <1>1, SubSeqProperties
<1> QED
  BY <1>2, SequenceIsListed

IsFrames(x) == \E n \in Nat : x = [i \in 1 .. n |-> x[i]]

LEMMA FramesAreASequence ==
    ASSUME NEW x, NEW S, IsFrames(x), \A i \in DOMAIN x : x[i] \in S
    PROVE  x \in Seq(S) /\ Len(x) \in Nat /\ x = [i \in 1 .. Len(x) |-> x[i]]
<1>1. PICK n \in Nat : x = [i \in 1 .. n |-> x[i]]
  BY DEF IsFrames
<1>2. x \in [1 .. n -> S]
  BY <1>1
<1> QED
  BY <1>2, SeqDef

LEMMA SequencesAreFrames ==
    ASSUME NEW S, NEW x \in Seq(S)
    PROVE  IsFrames(x)
  BY DEF IsFrames

LEMMA FramesHaveALength ==
    ASSUME NEW x, IsFrames(x)
    PROVE  Len(x) \in Nat /\ DOMAIN x = 1 .. Len(x) /\ x \in Seq({x[i] : i \in DOMAIN x})
  BY FramesAreASequence

LEMMA NoFrames == IsFrames(<<>>) /\ Len(<<>>) = 0
<1>1. <<>> \in Seq({})
  OBVIOUS
<1> QED
  BY <1>1, SequencesAreFrames

LEMMA SameBounds ==
    ASSUME NEW m \in Nat, NEW n \in Nat, 1 .. m = 1 .. n
    PROVE  m = n
<1>1. CASE m < n
  <2>1. n \in 1 .. n /\ n \notin 1 .. m
    BY <1>1
  <2> QED
    BY <2>1
<1>2. CASE n < m
  <2>1. m \in 1 .. m /\ m \notin 1 .. n
    BY <1>2
  <2> QED
    BY <2>1
<1> QED
  BY <1>1, <1>2

LEMMA ListedAreFrames ==
    ASSUME NEW x, NEW n \in Int, x = [i \in 1 .. n |-> x[i]]
    PROVE  IsFrames(x) /\ Len(x) = IF n > 0 THEN n ELSE 0
<1>1. CASE n \in Nat
  <2>1. IsFrames(x)
    BY <1>1 DEF IsFrames
  <2>2. DOMAIN x = 1 .. n
    OBVIOUS
  <2> QED
    BY <1>1, <2>1, <2>2, FramesHaveALength, SameBounds
<1>2. CASE n \notin Nat
  <2>1. 1 .. n = 1 .. 0
    BY <1>2
  <2>2. x = [i \in 1 .. 0 |-> x[i]] /\ 0 \in Nat
    BY <2>1
  <2>3. IsFrames(x)
    BY <2>2 DEF IsFrames
  <2>4. DOMAIN x = 1 .. 0
    BY <2>2
  <2>5. Len(x) = 0
    BY <2>3, <2>4, FramesHaveALength, SameBounds
  <2>6. ~(n > 0)
    BY <1>2
  <2> QED
    BY <2>3, <2>5, <2>6
<1> QED
  BY <1>1, <1>2

LEMMA JoinedAreFrames ==
    ASSUME NEW x, NEW y, IsFrames(x), IsFrames(y)
    PROVE  IsFrames(x \o y)
<1> DEFINE S == {x[i] : i \in DOMAIN x} \cup {y[i] : i \in DOMAIN y}
<1>1. x \in Seq(S) /\ y \in Seq(S)
  BY FramesAreASequence
<1> HIDE DEF S
<1>2. x \o y \in Seq(S)
  BY <1>1
<1> QED
  BY <1>2, SequencesAreFrames

LEMMA AppendedAreFrames ==
    ASSUME NEW x, NEW e, IsFrames(x)
    PROVE  /\ IsFrames(Append(x, e)) /\ Len(Append(x, e)) = Len(x) + 1
           /\ \A i \in 1 .. Len(x) : Append(x, e)[i] = x[i]
           /\ Append(x, e)[Len(x) + 1] = e
<1> DEFINE S == {x[i] : i \in DOMAIN x} \cup {e}
<1>1. x \in Seq(S) /\ e \in S
  BY FramesAreASequence
<1> HIDE DEF S
<1>2. /\ Append(x, e) \in Seq(S) /\ Len(Append(x, e)) = Len(x) + 1
      /\ \A i \in 1 .. Len(x) : Append(x, e)[i] = x[i]
      /\ Append(x, e)[Len(x) + 1] = e
  BY <1>1
<1>3. IsFrames(Append(x, e))
  BY <1>2, SequencesAreFrames
<1> QED
  BY <1>2, <1>3

LEMMA PartIsFrames ==
    ASSUME NEW x, IsFrames(x), NEW m \in 1 .. Len(x) + 1, NEW n \in m - 1 .. Len(x)
    PROVE  IsFrames(SubSeq(x, m, n))
<1> DEFINE S == {x[i] : i \in DOMAIN x}
<1>1. x \in Seq(S)
  BY FramesHaveALength
<1> HIDE DEF S
<1>2. SubSeq(x, m, n) \in Seq(S)
  BY <1>1, SubSeqProperties
<1> QED
  BY <1>2, SequencesAreFrames

LEMMA LeastOfTwo ==
    ASSUME NEW a \in Int, NEW b \in Int
    PROVE  Min({a, b}) = IF a <= b THEN a ELSE b
<1>1. \A c \in {a, b} : (\A y \in {a, b} : c <= y) => c = IF a <= b THEN a ELSE b
  OBVIOUS
<1>2. \E c \in {a, b} : \A y \in {a, b} : c <= y
  OBVIOUS
<1> QED
  BY <1>1, <1>2 DEF Min

LEMMA GreatestOfTwo ==
    ASSUME NEW a \in Int, NEW b \in Int
    PROVE  Max({a, b}) = IF a >= b THEN a ELSE b
<1>1. \A c \in {a, b} : (\A y \in {a, b} : c >= y) => c = IF a >= b THEN a ELSE b
  OBVIOUS
<1>2. \E c \in {a, b} : \A y \in {a, b} : c >= y
  OBVIOUS
<1> QED
  BY <1>1, <1>2 DEF Max

LEMMA CeilDivUnique ==
    ASSUME NEW n \in Int, NEW d \in Nat \ {0}, NEW k \in Int, (k - 1) * d < n, n <= k * d
    PROVE  CeilDiv(n, d) = k
<1> DEFINE c == CeilDiv(n, d)
<1>1. c \in Int /\ (c - 1) * d < n /\ n <= c * d
  BY CeilDivIs
<1> HIDE DEF c
<1>2. c * d \in Int /\ k * d \in Int /\ (c - 1) * d \in Int /\ (k - 1) * d \in Int
  BY <1>1
<1>3. CASE c <= k - 1
  <2>1. c * d <= (k - 1) * d
    BY <1>1, <1>3, TimesGrows
  <2> QED
    BY <1>1, <1>2, <2>1
<1>4. CASE k <= c - 1
  <2>1. k * d <= (c - 1) * d
    BY <1>1, <1>4, TimesGrows
  <2> QED
    BY <1>1, <1>2, <2>1
<1>5. c = k
  BY <1>1, <1>3, <1>4
<1> QED
  BY <1>5 DEF c

LEMMA Multiple ==
    ASSUME NEW n \in Nat, NEW d \in Nat \ {0}, n % d = 0
    PROVE  n \div d \in Nat /\ n = (n \div d) * d
<1>1. n = (n \div d) * d + (n % d) /\ n \div d \in Nat
  OBVIOUS
<1> QED
  BY <1>1

\* A pulse of whole strides, and the past of a window before it, hold a window
\* for every stride.
LEMMA WindowsOfAPulse ==
    ASSUME NEW pulse \in Nat, NEW stride \in Nat \ {0}, pulse % stride = 0, NEW kernel \in Nat
    PROVE  CeilDiv(pulse + Positive(kernel + 1 - stride) - kernel, stride) = pulse \div stride
<1> DEFINE k == pulse \div stride
           m == k * stride
<1>1. k \in Nat /\ pulse = m
  BY Multiple
<1>2. m \in Int /\ (k - 1) * stride = m - stride
  <2> HIDE DEF k
  <2> QED
    BY <1>1
<1> DEFINE n == pulse + Positive(kernel + 1 - stride) - kernel
<1>3. n \in Int /\ m - stride < n /\ n <= m
  BY <1>1, <1>2 DEF Positive
<1> HIDE DEF n
<1>4. k - 1 \in Int /\ (k - 1) * stride < n /\ n <= k * stride
  BY <1>1, <1>2, <1>3
<1> HIDE DEF k, m
<1>5. CeilDiv(n, stride) = k
  BY <1>1, <1>3, <1>4, CeilDivUnique
<1> QED
  BY <1>5 DEF n, k

LEMMA SamplesOfAPulse ==
    ASSUME NEW pulse \in Nat, NEW stride \in Nat \ {0}, pulse % stride = 0,
           NEW modulo \in 0 .. stride - 1
    PROVE  CeilDiv(pulse - modulo, stride) = pulse \div stride
<1> DEFINE k == pulse \div stride
<1>1. k \in Nat /\ pulse = k * stride
  BY Multiple
<1> HIDE DEF k
<1>2. (k - 1) * stride = k * stride - stride
  BY <1>1
<1>3. (k - 1) * stride < pulse - modulo /\ pulse - modulo <= k * stride /\ pulse - modulo \in Int
  BY <1>1, <1>2
<1>4. CeilDiv(pulse - modulo, stride) = k
  BY <1>1, <1>3, CeilDivUnique
<1> QED
  BY <1>4 DEF k

LEMMA StridesOfAPulse ==
    ASSUME NEW pulse \in Nat \ {0}, NEW stride \in Nat \ {0}, pulse % stride = 0
    PROVE  pulse \div stride \in Nat \ {0}
<1>1. pulse \div stride \in Nat /\ pulse = (pulse \div stride) * stride
  BY Multiple
<1>2. pulse \div stride # 0
  BY <1>1
<1> QED
  BY <1>1, <1>2

-----------------------------------------------------------------------------
(* Pulsification: what it wires.                                             *)

Fact == [pulse : Nat \ {0}, delay : Nat, dim : [Lengths -> Int]]
Dim == [Lengths -> Int]

\* The frames of a pulse that its wire carried before.
Past(p, w) ==
    IF w \in 1 .. Len(p.nodes) /\ p.nodes[w].kind \in {"delay", "pad"} THEN p.nodes[w].overlap ELSE 0

\* A node of a pulsed model, with the fact of its first input, how much of it is
\* past, and its own fact.
IsNode(node, past, in, out) ==
    /\ node.kind \in {"delay", "pad", "concat", "cumsum", "scan", "mask", "deconvdelay", "conv",
                      "pool", "downsample", "identity", "deconv", "sum"}
    /\ node.kind \notin {"pad", "conv", "pool"} => past = 0
    /\ node.kind = "delay" =>
          /\ node.delay \in Nat /\ node.overlap \in Nat
          /\ out.pulse = in.pulse + node.overlap /\ out.dim = in.dim
          /\ out.delay = in.delay + node.delay + node.overlap
    /\ node.kind = "pad" =>
          /\ node.value \in Int /\ node.before \in Nat /\ node.after \in Nat
          /\ node.overlap \in Nat /\ past = node.overlap /\ past < in.pulse
          /\ node.begin = in.delay /\ node.end = [s \in Lengths |-> in.dim[s] + in.delay]
          /\ out.pulse = in.pulse /\ out.delay = in.delay - node.before
          /\ node.mode = "edge" => node.overlap = 0 /\ node.before <= node.begin % in.pulse
    /\ node.kind = "concat" =>
          /\ node.pre \in Seq(Int) /\ node.post \in Seq(Int)
          /\ node.delay = in.delay /\ node.len = in.dim
          /\ out.pulse = in.pulse /\ out.delay = in.delay - Len(node.pre)
    /\ node.kind \in {"cumsum", "scan"} =>
          node.skip = in.delay /\ out.pulse = in.pulse /\ out.delay = in.delay
    /\ node.kind = "mask" =>
          /\ node.begin = in.delay /\ node.end = [s \in Lengths |-> in.dim[s] + in.delay]
          /\ out.pulse = in.pulse /\ out.delay = in.delay
    /\ node.kind \in {"conv", "pool", "deconv"} =>
          node.size \in Nat \ {0} /\ node.stride \in Nat \ {0}
    /\ node.kind \in {"conv", "pool"} =>
          /\ node.dilation \in Nat \ {0}
          /\ out.pulse = WindowCount(in.pulse, node.size, node.stride, node.dilation)
          /\ in.pulse - past = out.pulse * node.stride
          /\ in.delay = out.delay * node.stride
    /\ node.kind = "deconv" =>
          out.pulse = (in.pulse * node.stride + node.size) - 1 /\ out.delay = in.delay
    /\ node.kind = "deconvdelay" =>
          /\ node.stride \in Nat \ {0}
          /\ node.delay \in Nat /\ node.overlap \in Nat /\ node.inputDim \in Dim
          /\ in.pulse = out.pulse + node.overlap
          /\ out.delay = node.delay /\ out.delay >= in.delay
    /\ node.kind = "downsample" =>
          /\ node.stride \in Nat \ {0} /\ node.modulo \in 0 .. node.stride - 1
          /\ in.pulse = out.pulse * node.stride /\ out.delay = 0
    /\ node.kind = "identity" => out.pulse = in.pulse /\ out.delay >= in.delay
    /\ node.kind = "sum" => out.pulse = in.pulse /\ out.delay = in.delay

\* The wires that a node reads.
Reads(node, n) ==
    /\ IsFrames(node.from) /\ Len(node.from) = IF node.kind = "sum" THEN 2 ELSE 1
    /\ \A k \in 1 .. Len(node.from) : node.from[k] \in 0 .. n - 1

\* A stream that is `delay' late, with silence around it.
InSilence(x, delay) ==
    [i \in {j \in Int : j + delay >= 1} |-> IF i \in 1 .. Len(x) THEN x[i] ELSE Silence]
\* What a deconvolution makes of such a stream m, which is `delay' late: each
\* pulse of n frames is spread by itself, and what that gives is laid end to end.
Kernel(size, stride) == [size |-> size, stride |-> stride]
SpreadLen(n, size, stride) == (n * stride + size) - 1
PulseOf(m, t, n, delay) == [i \in 1 .. n |-> m[(t * n + i) - delay]]
Chopped(m, size, stride, n, delay) ==
    [k \in {j \in Int : j + delay >= 1} |->
        LET before == (k + delay) - 1
        IN  Deconvolved(PulseOf(m, before \div SpreadLen(n, size, stride), n, delay),
                        Kernel(size, stride), stride - 1)[(before % SpreadLen(n, size, stride)) + 1]]
\* What is laid end to end stands for x, and is overlaid to what x is spread to.
Overlaid(node, in, s, a, x, n) ==
    /\ x \in Seq(Int) /\ x # <<>> /\ n \in Nat \ {0}
    /\ in.pulse = n * node.stride + node.overlap
    /\ node.inputDim[s] = (Len(x) - 1) * node.stride + 1
    /\ a = Chopped(InSilence(x, in.delay), node.overlap + 1, node.stride, n, in.delay)
SpreadTo(node, in, out, x, c) ==
    LET full == Deconvolved(x, Kernel(node.overlap + 1, node.stride), 0)
    IN  \A i \in DOMAIN c :
           LET k == i + (out.delay - in.delay)
           IN  i \in Int /\ k \in DOMAIN full /\ c[i] = full[k]

\* What a node answers, told of whole streams: a and b are those of its inputs
\* and c its own, by the index of the frame, whatever the index of the first.
Follows(node, in, out, s, a, b, c) ==
    /\ node.kind \in {"pad", "concat", "cumsum", "scan", "mask", "conv", "pool", "downsample", "sum"} =>
          a \in Seq(Int) /\ a # <<>> /\ Len(a) = in.dim[s]
    /\ node.kind = "delay" => c = a
    /\ node.kind = "pad" => c = Padded(a, node.before, node.after, node.mode, node.value)
    /\ node.kind = "concat" => c = node.pre \o a \o node.post
    /\ node.kind = "cumsum" => c = Cumulated(a, Silence, node.exclusive)
    /\ node.kind = "scan" => c = Cumulated(a, ScanStart, FALSE)
    /\ node.kind = "conv" => c = Convolved(a, node)
    /\ node.kind = "pool" => c = Pooled(a, node)
    /\ node.kind = "downsample" =>
          \A i \in DOMAIN c :
             LET k == (((i - 1) * node.stride + node.modulo) + 1) - in.delay
             IN  i \in Int /\ k \in 1 .. Len(a) /\ c[i] = a[k]
    /\ node.kind = "identity" =>
          \A i \in DOMAIN c :
             LET k == i + (out.delay - in.delay)
             IN  i \in Int /\ k \in DOMAIN a /\ c[i] = a[k]
    /\ node.kind = "mask" => c = InSilence(a, in.delay)
    /\ node.kind = "deconv" =>
          /\ DOMAIN a = {j \in Int : j + in.delay >= 1}
          /\ c = Chopped(a, node.size, node.stride, in.pulse, in.delay)
    /\ node.kind = "deconvdelay" =>
          \E x, n : Overlaid(node, in, s, a, x, n) /\ SpreadTo(node, in, out, x, c)
    /\ node.kind = "sum" =>
          b \in Seq(Int) /\ Len(b) = Len(a) /\ c = [i \in 1 .. Len(a) |-> a[i] + b[i]]

\* The second input of a sum comes with the first.
InStep(p, node, out) ==
    node.kind = "sum" => Past(p, node.from[2]) = 0 /\ FactOf(p, node.from[2]).delay = out.delay

\* A pulsed model under construction, each of its nodes wired.
IsPulsed(p) ==
    /\ p = [nodes |-> p.nodes, at |-> p.at, ok |-> p.ok, facts |-> p.facts]
    /\ IsFrames(p.nodes) /\ IsFrames(p.facts) /\ IsFrames(p.at)
    /\ Len(p.facts) = Len(p.nodes) + 1
    /\ \A w \in 0 .. Len(p.nodes) : FactOf(p, w) \in Fact
    /\ \A n \in 1 .. Len(p.nodes) :
          /\ Reads(p.nodes[n], n)
          /\ IsNode(p.nodes[n], Past(p, p.nodes[n].from[1]), FactOf(p, p.nodes[n].from[1]), FactOf(p, n))
          /\ InStep(p, p.nodes[n], FactOf(p, n))

\* What each wire stands for, given a stream of s frames.
Means(p, wires, s) ==
    \A n \in 1 .. Len(p.nodes) :
        Follows(p.nodes[n], FactOf(p, p.nodes[n].from[1]), FactOf(p, n), s,
                wires[p.nodes[n].from[1]],
                IF p.nodes[n].kind = "sum" THEN wires[p.nodes[n].from[2]] ELSE <<>>, wires[n])

\* More has been wired, and nothing of what there was has changed.
Continues(p, q) ==
    /\ IsPulsed(q) /\ q.at = p.at /\ q.ok = p.ok
    /\ Len(p.nodes) \in Nat /\ Len(q.nodes) \in Nat /\ Len(p.nodes) <= Len(q.nodes)
    /\ \A n \in 1 .. Len(p.nodes) : q.nodes[n] = p.nodes[n]
    /\ \A w \in 0 .. Len(p.nodes) : FactOf(q, w) = FactOf(p, w) /\ Past(q, w) = Past(p, w)

\* And what the wires stand for has been extended by the new ones.
Extends(p, wires, more) == \A w \in 0 .. Len(p.nodes) : more[w] = wires[w]

\* So that wire w stands for the stream c.
Grown(p, q, s, wires, w, c) ==
    \E more : Means(q, more, s) /\ Extends(p, wires, more) /\ more[w] = c

LEMMA GrownOn ==
    ASSUME NEW p, NEW q, NEW r, NEW s, NEW wires, NEW v, NEW w, NEW c, NEW d,
           Continues(p, q), Grown(p, q, s, wires, v, c),
           \A more : Means(q, more, s) /\ Extends(p, wires, more) /\ more[v] = c =>
                         Grown(q, r, s, more, w, d)
    PROVE  Grown(p, r, s, wires, w, d)
<1>1. PICK more : Means(q, more, s) /\ Extends(p, wires, more) /\ more[v] = c
  BY DEF Grown
<1>2. PICK most : Means(r, most, s) /\ Extends(q, more, most) /\ most[w] = d
  BY <1>1 DEF Grown
<1>3. Extends(p, wires, most)
  BY <1>1, <1>2 DEF Continues, Extends
<1> QED
  BY <1>2, <1>3 DEF Grown

LEMMA WireCount ==
    ASSUME NEW p, IsPulsed(p)
    PROVE  Len(p.nodes) \in Nat /\ Continues(p, p)
  BY FramesHaveALength DEF IsPulsed, Continues

LEMMA ContinuesOn ==
    ASSUME NEW p, NEW q, NEW r, Continues(p, q), Continues(q, r)
    PROVE  Continues(p, r)
<1>1. Len(p.nodes) \in Nat /\ Len(q.nodes) \in Nat /\ Len(r.nodes) \in Nat
      /\ Len(p.nodes) <= Len(q.nodes) /\ Len(q.nodes) <= Len(r.nodes)
  BY DEF Continues
<1>2. \A n \in 1 .. Len(p.nodes) : r.nodes[n] = p.nodes[n]
  BY <1>1 DEF Continues
<1>3. \A w \in 0 .. Len(p.nodes) : FactOf(r, w) = FactOf(p, w) /\ Past(r, w) = Past(p, w)
  BY <1>1 DEF Continues
<1> QED
  BY <1>1, <1>2, <1>3 DEF Continues

LEMMA FactsAre ==
    ASSUME NEW fact \in Fact
    PROVE  /\ fact.pulse \in Nat \ {0} /\ fact.delay \in Nat /\ fact.dim \in Dim
           /\ fact = [pulse |-> fact.pulse, delay |-> fact.delay, dim |-> fact.dim]
  BY DEF Fact, Dim

\* Wiring a node.
LEMMA WiringIsSound ==
    ASSUME NEW p, IsPulsed(p), NEW node, NEW fact \in Fact,
           Reads(node, Len(p.nodes) + 1), InStep(p, node, fact),
           IsNode(node, Past(p, node.from[1]), FactOf(p, node.from[1]), fact)
    PROVE  /\ Continues(p, Wired(p, node, fact))
           /\ NewWire(Wired(p, node, fact)) = Len(p.nodes) + 1
           /\ Len(Wired(p, node, fact).nodes) = Len(p.nodes) + 1
           /\ Wired(p, node, fact).nodes[Len(p.nodes) + 1] = node
           /\ FactOf(Wired(p, node, fact), Len(p.nodes) + 1) = fact
<1> DEFINE q == Wired(p, node, fact)
           m == Len(p.nodes)
<1>1. /\ q.nodes = Append(p.nodes, node) /\ q.facts = Append(p.facts, fact)
      /\ q.at = p.at /\ q.ok = p.ok
      /\ q = [nodes |-> q.nodes, at |-> q.at, ok |-> q.ok, facts |-> q.facts]
  <2>1. p = [nodes |-> p.nodes, at |-> p.at, ok |-> p.ok, facts |-> p.facts]
    BY DEF IsPulsed
  <2>2. q = [nodes |-> Append(p.nodes, node), at |-> p.at, ok |-> p.ok,
             facts |-> Append(p.facts, fact)]
    BY DEF Wired
  <2> HIDE DEF q
  <2> QED
    BY <2>2
<1> HIDE DEF q
<1>2. IsFrames(p.nodes) /\ IsFrames(p.facts) /\ m \in Nat /\ Len(p.facts) = m + 1
  BY FramesHaveALength DEF IsPulsed
<1>3. /\ IsFrames(q.nodes) /\ Len(q.nodes) = m + 1
      /\ \A n \in 1 .. m : q.nodes[n] = p.nodes[n]
      /\ q.nodes[m + 1] = node
  BY <1>1, <1>2, AppendedAreFrames
<1>4. /\ IsFrames(q.facts) /\ Len(q.facts) = m + 2
      /\ \A k \in 1 .. m + 1 : q.facts[k] = p.facts[k]
      /\ q.facts[m + 2] = fact
  <2>1. Len(p.facts) + 1 = m + 2
    BY <1>2
  <2> HIDE DEF m
  <2> QED
    BY <1>1, <1>2, <2>1, AppendedAreFrames
<1>5. \A w \in 0 .. m : FactOf(q, w) = FactOf(p, w) /\ Past(q, w) = Past(p, w)
  <2>1. \A w \in 0 .. m : FactOf(q, w) = FactOf(p, w)
    BY <1>2, <1>4 DEF FactOf
  <2>2. \A w \in 0 .. m : (w \in 1 .. Len(q.nodes)) = (w \in 1 .. Len(p.nodes))
    BY <1>2, <1>3
  <2>3. \A w \in 0 .. m : Past(q, w) = Past(p, w)
    BY <1>3, <2>2 DEF Past
  <2> QED
    BY <2>1, <2>3
<1>6. FactOf(q, m + 1) = fact
  <2>1. (m + 1) + 1 = m + 2
    BY <1>2
  <2> QED
    BY <1>4, <2>1 DEF FactOf
<1>7. \A w \in 0 .. m + 1 : FactOf(q, w) \in Fact
  BY <1>2, <1>5, <1>6 DEF IsPulsed
<1>8. ASSUME NEW n \in 1 .. m + 1
      PROVE  /\ Reads(q.nodes[n], n) /\ InStep(q, q.nodes[n], FactOf(q, n))
             /\ IsNode(q.nodes[n], Past(q, q.nodes[n].from[1]), FactOf(q, q.nodes[n].from[1]),
                       FactOf(q, n))
  <2>1. CASE n = m + 1
    <3>1. \A k \in 1 .. Len(node.from) : node.from[k] \in 0 .. m
      BY <1>2 DEF Reads
    <3>2. node.from[1] \in 0 .. m /\ (node.kind = "sum" => node.from[2] \in 0 .. m)
      BY <3>1 DEF Reads
    <3>3. InStep(q, node, fact)
      BY <1>5, <3>2 DEF InStep
    <3> QED
      BY <1>3, <1>5, <1>6, <2>1, <3>2, <3>3
  <2>2. CASE n # m + 1
    <3>1. n \in 1 .. m
      BY <1>2, <2>2
    <3>2. /\ Reads(p.nodes[n], n) /\ InStep(p, p.nodes[n], FactOf(p, n))
          /\ IsNode(p.nodes[n], Past(p, p.nodes[n].from[1]), FactOf(p, p.nodes[n].from[1]), FactOf(p, n))
      BY <3>1 DEF IsPulsed
    <3>3. \A k \in 1 .. Len(p.nodes[n].from) : p.nodes[n].from[k] \in 0 .. m
      <4>1. \A k \in 1 .. Len(p.nodes[n].from) : p.nodes[n].from[k] \in 0 .. n - 1
        BY <3>2 DEF Reads
      <4>2. \A k \in 0 .. n - 1 : k \in 0 .. m
        BY <1>2, <3>1
      <4> QED
        BY <4>1, <4>2
    <3>4. p.nodes[n].from[1] \in 0 .. m
          /\ (p.nodes[n].kind = "sum" => p.nodes[n].from[2] \in 0 .. m)
      BY <3>2, <3>3 DEF Reads
    <3>5. n \in 0 .. m
      BY <3>1
    <3>6. InStep(q, p.nodes[n], FactOf(p, n))
      BY <1>5, <3>2, <3>4 DEF InStep
    <3> QED
      BY <1>3, <1>5, <3>1, <3>2, <3>4, <3>5, <3>6
  <2> QED
    BY <2>1, <2>2
<1>9. IsPulsed(q)
  <2>1. IsFrames(q.at) /\ Len(q.facts) = Len(q.nodes) + 1
    BY <1>1, <1>2, <1>3, <1>4 DEF IsPulsed
  <2> QED
    BY <1>1, <1>3, <1>4, <1>7, <1>8, <2>1 DEF IsPulsed
<1>10. Continues(p, q)
  BY <1>1, <1>2, <1>3, <1>5, <1>9 DEF Continues
<1> QED
  BY <1>3, <1>6, <1>10 DEF q, NewWire

\* What the new wire stands for.
LEMMA WiringMeans ==
    ASSUME NEW p, IsPulsed(p), NEW node, NEW fact, NEW s, NEW wires, NEW c,
           Reads(node, Len(p.nodes) + 1), Means(p, wires, s),
           Continues(p, Wired(p, node, fact)),
           Len(Wired(p, node, fact).nodes) = Len(p.nodes) + 1,
           Wired(p, node, fact).nodes[Len(p.nodes) + 1] = node,
           FactOf(Wired(p, node, fact), Len(p.nodes) + 1) = fact,
           NEW b, node.kind = "sum" => b = wires[node.from[2]], node.kind # "sum" => b = <<>>,
           Follows(node, FactOf(p, node.from[1]), fact, s, wires[node.from[1]], b, c)
    PROVE  Grown(p, Wired(p, node, fact), s, wires, Len(p.nodes) + 1, c)
<1> DEFINE q == Wired(p, node, fact)
           m == Len(p.nodes)
           more == [w \in 0 .. m + 1 |-> IF w = m + 1 THEN c ELSE wires[w]]
<1>1. m \in Nat /\ IsPulsed(p)
  BY WireCount
<1>2. /\ \A w \in 0 .. m : more[w] = wires[w] /\ FactOf(q, w) = FactOf(p, w)
      /\ \A n \in 1 .. m : q.nodes[n] = p.nodes[n]
      /\ more[m + 1] = c /\ q.nodes[m + 1] = node /\ Len(q.nodes) = m + 1
      /\ FactOf(q, m + 1) = fact
  BY <1>1 DEF Continues
<1> HIDE DEF more, q
<1>3. ASSUME NEW n \in 1 .. m + 1
      PROVE  Follows(q.nodes[n], FactOf(q, q.nodes[n].from[1]), FactOf(q, n), s,
                     more[q.nodes[n].from[1]],
                     IF q.nodes[n].kind = "sum" THEN more[q.nodes[n].from[2]] ELSE <<>>, more[n])
  <2>1. CASE n = m + 1
    <3>1. \A k \in 1 .. Len(node.from) : node.from[k] \in 0 .. m
      BY <1>1 DEF Reads
    <3>2. node.from[1] \in 0 .. m /\ (node.kind = "sum" => node.from[2] \in 0 .. m)
      BY <3>1 DEF Reads
    <3>3. (IF node.kind = "sum" THEN more[node.from[2]] ELSE <<>>)
            = b
      BY <1>2, <3>2
    <3> QED
      BY <1>2, <2>1, <3>2, <3>3
  <2>2. CASE n # m + 1
    <3>1. n \in 1 .. m /\ n \in 0 .. m
      BY <1>1, <2>2
    <3>2. Reads(p.nodes[n], n)
      BY <3>1 DEF IsPulsed
    <3>3. \A k \in 1 .. Len(p.nodes[n].from) : p.nodes[n].from[k] \in 0 .. m
      <4>1. \A k \in 1 .. Len(p.nodes[n].from) : p.nodes[n].from[k] \in 0 .. n - 1
        BY <3>2 DEF Reads
      <4>2. \A k \in 0 .. n - 1 : k \in 0 .. m
        BY <1>1, <3>1
      <4> QED
        BY <4>1, <4>2
    <3>4. p.nodes[n].from[1] \in 0 .. m
          /\ (p.nodes[n].kind = "sum" => p.nodes[n].from[2] \in 0 .. m)
      BY <3>2, <3>3 DEF Reads
    <3>5. (IF p.nodes[n].kind = "sum" THEN more[p.nodes[n].from[2]] ELSE <<>>)
            = IF p.nodes[n].kind = "sum" THEN wires[p.nodes[n].from[2]] ELSE <<>>
      BY <1>2, <3>4
    <3>6. Follows(p.nodes[n], FactOf(p, p.nodes[n].from[1]), FactOf(p, n), s,
                  wires[p.nodes[n].from[1]],
                  IF p.nodes[n].kind = "sum" THEN wires[p.nodes[n].from[2]] ELSE <<>>, wires[n])
      BY <3>1 DEF Means
    <3> HIDE DEF m
    <3>7. q.nodes[n] = p.nodes[n] /\ more[n] = wires[n] /\ FactOf(q, n) = FactOf(p, n)
          /\ more[p.nodes[n].from[1]] = wires[p.nodes[n].from[1]]
          /\ FactOf(q, p.nodes[n].from[1]) = FactOf(p, p.nodes[n].from[1])
      BY <1>2, <3>1, <3>4
    <3> QED
      BY <3>5, <3>6, <3>7
  <2> QED
    BY <2>1, <2>2
<1>4. Means(q, more, s) /\ Extends(p, wires, more) /\ more[m + 1] = c
  BY <1>2, <1>3 DEF Means, Extends
<1>5. Grown(p, q, s, wires, m + 1, c)
  BY <1>4 DEF Grown
<1> QED
  BY <1>5 DEF q

LEMMA OneWire ==
    ASSUME NEW n \in Nat, NEW w \in 0 .. n
    PROVE  IsFrames(<<w>>) /\ Len(<<w>>) = 1 /\ <<w>>[1] = w /\ \A k \in 1 .. 1 : <<w>>[k] \in 0 .. (n + 1) - 1
<1>1. <<w>> \in Seq({w}) /\ Len(<<w>>) = 1 /\ <<w>>[1] = w
  OBVIOUS
<1>2. IsFrames(<<w>>)
  BY <1>1, SequencesAreFrames
<1>3. \A k \in 1 .. 1 : <<w>>[k] = w
  OBVIOUS
<1>4. w \in 0 .. (n + 1) - 1
  OBVIOUS
<1> QED
  BY <1>1, <1>2, <1>3, <1>4

LEMMA FactOfWire ==
    ASSUME NEW p, IsPulsed(p), NEW w \in 0 .. Len(p.nodes)
    PROVE  FactOf(p, w) \in Fact
  BY DEF IsPulsed

LEMMA LongerDim ==
    ASSUME NEW dim \in Dim, NEW more \in Int
    PROVE  Longer(dim, more) \in Dim /\ \A s \in Lengths : Longer(dim, more)[s] = dim[s] + more
  BY DEF Dim, Longer

\* What wiring a node that reads one wire comes to.
Adds(p, q, from, node, fact) ==
    /\ Continues(p, q) /\ NewWire(q) = Len(p.nodes) + 1 /\ Len(q.nodes) = Len(p.nodes) + 1
    /\ q.nodes[Len(q.nodes)] = node /\ FactOf(q, Len(q.nodes)) = fact
    /\ Past(q, Len(q.nodes)) = IF node.kind \in {"delay", "pad"} THEN node.overlap ELSE 0
    /\ \A s, wires, c :
          Means(p, wires, s) /\ Follows(node, FactOf(p, from), fact, s, wires[from], <<>>, c) =>
              Grown(p, q, s, wires, Len(q.nodes), c)

LEMMA WiringOne ==
    ASSUME NEW p, IsPulsed(p), NEW from \in 0 .. Len(p.nodes), NEW node, NEW fact \in Fact,
           node.from = <<from>>, node.kind # "sum",
           IsNode(node, Past(p, from), FactOf(p, from), fact)
    PROVE  Adds(p, Wired(p, node, fact), from, node, fact)
<1>1. Len(p.nodes) \in Nat
  BY WireCount
<1>2. Reads(node, Len(p.nodes) + 1) /\ node.from[1] = from /\ InStep(p, node, fact)
  BY <1>1, OneWire DEF Reads, InStep
<1> DEFINE q == Wired(p, node, fact)
<1>3. /\ Continues(p, q) /\ NewWire(q) = Len(p.nodes) + 1 /\ Len(q.nodes) = Len(p.nodes) + 1
      /\ q.nodes[Len(p.nodes) + 1] = node /\ FactOf(q, Len(p.nodes) + 1) = fact
  BY <1>2, WiringIsSound
<1>4. ASSUME NEW s, NEW wires, NEW c, Means(p, wires, s),
             Follows(node, FactOf(p, from), fact, s, wires[from], <<>>, c)
      PROVE  Grown(p, q, s, wires, Len(q.nodes), c)
  <2>1. Follows(node, FactOf(p, node.from[1]), fact, s, wires[node.from[1]], <<>>, c)
    BY <1>2, <1>4
  <2>2. Grown(p, q, s, wires, Len(p.nodes) + 1, c)
    BY <1>2, <1>3, <1>4, <2>1, WiringMeans
  <2> HIDE DEF q
  <2> QED
    BY <1>3, <2>2
<1> HIDE DEF q
<1>5. Past(q, Len(q.nodes)) = IF node.kind \in {"delay", "pad"} THEN node.overlap ELSE 0
  BY <1>1, <1>3 DEF Past
<1>6. Adds(p, q, from, node, fact)
  BY <1>3, <1>4, <1>5 DEF Adds
<1> QED
  BY <1>6 DEF q

\* Wire w of q is wire `from' of p, later, and with frames of its past.
Late(p, q, from, w, delay, overlap) ==
    /\ Continues(p, q) /\ w \in 0 .. Len(q.nodes) /\ Past(q, w) = overlap
    /\ FactOf(q, w).pulse = FactOf(p, from).pulse + overlap
    /\ FactOf(q, w).delay = FactOf(p, from).delay + delay
    /\ FactOf(q, w).dim = FactOf(p, from).dim
    /\ \A s, wires : Means(p, wires, s) => Grown(p, q, s, wires, w, wires[from])

LEMMA AddedIs ==
    ASSUME NEW p, NEW q, NEW from, NEW node, NEW fact, Adds(p, q, from, node, fact)
    PROVE  /\ IsPulsed(q) /\ Len(q.nodes) \in Nat /\ Len(q.nodes) = Len(p.nodes) + 1
           /\ Len(q.nodes) \in 0 .. Len(q.nodes) /\ Len(p.nodes) < Len(q.nodes)
  BY DEF Adds, Continues

LEMMA WiredDelayIsLate ==
    ASSUME NEW p, IsPulsed(p), NEW from \in 0 .. Len(p.nodes), Past(p, from) = 0,
           NEW delay \in Nat, NEW overlap \in Nat
    PROVE  Late(p, WiredDelay(p, from, delay, overlap), from,
                EndOf(p, from, WiredDelay(p, from, delay, overlap)), delay + overlap, overlap)
<1> DEFINE in == FactOf(p, from)
           node == [kind |-> "delay", from |-> <<from>>, delay |-> delay, overlap |-> overlap]
           fact == [pulse |-> in.pulse + overlap, delay |-> in.delay + delay + overlap,
                    dim |-> in.dim]
           q == WiredDelay(p, from, delay, overlap)
<1>1. in \in Fact
  BY FactOfWire
<1>2. /\ fact \in Fact /\ fact.pulse = in.pulse + overlap /\ fact.dim = in.dim
      /\ fact.delay = in.delay + delay + overlap /\ fact.delay = in.delay + (delay + overlap)
  <2>1. in.pulse \in Nat \ {0} /\ in.delay \in Nat
    BY <1>1 DEF Fact
  <2>2. fact.pulse = in.pulse + overlap /\ fact.dim = in.dim /\ fact.delay = in.delay + delay + overlap
    OBVIOUS
  <2>3. fact \in Fact
    <3> HIDE DEF in
    <3> QED
      BY <1>1 DEF Fact
  <2> HIDE DEF in, fact
  <2> QED
    BY <2>1, <2>2, <2>3
<1>3. q = Wired(p, node, fact)
  BY DEF WiredDelay
<1>4. node.from = <<from>> /\ node.kind # "sum" /\ node.overlap = overlap /\ node.kind = "delay"
  OBVIOUS
<1>5. IsNode(node, Past(p, from), in, fact)
  <2> HIDE DEF in, fact
  <2> QED
    BY <1>2 DEF IsNode
<1>6. \A s, a : Follows(node, in, fact, s, a, <<>>, a)
  BY DEF Follows
<1> HIDE DEF node, fact
<1>7. Adds(p, q, from, node, fact)
  BY <1>2, <1>3, <1>4, <1>5, WiringOne
<1> HIDE DEF q
<1>8. EndOf(p, from, q) = Len(q.nodes) /\ Past(q, Len(q.nodes)) = overlap
  <2>1. Len(q.nodes) = Len(p.nodes) + 1 /\ Len(q.nodes) \in Nat
    BY <1>7, AddedIs
  <2>2. Len(p.nodes) # Len(q.nodes)
    BY <1>7, <2>1 DEF Adds, Continues
  <2> QED
    BY <1>4, <1>7, <2>1, <2>2 DEF Adds, EndOf, NewWire
<1>9. ASSUME NEW s, NEW wires, Means(p, wires, s)
      PROVE  Grown(p, q, s, wires, Len(q.nodes), wires[from])
  BY <1>6, <1>7, <1>9 DEF Adds
<1> HIDE DEF in
<1>10. Late(p, q, from, Len(q.nodes), delay + overlap, overlap)
  <2>1. FactOf(q, Len(q.nodes)) = fact /\ Continues(p, q) /\ Len(q.nodes) \in 0 .. Len(q.nodes)
    BY <1>7, AddedIs DEF Adds
  <2> QED
    BY <1>2, <1>8, <1>9, <2>1 DEF Late, in
<1> QED
  BY <1>8, <1>10 DEF q

LEMMA StaysInTime ==
    ASSUME NEW p, IsPulsed(p), NEW from \in 0 .. Len(p.nodes), Past(p, from) = 0
    PROVE  EndOf(p, from, p) = from /\ Late(p, p, from, from, 0, 0)
<1>1. EndOf(p, from, p) = from
  BY DEF EndOf
<1>2. FactOf(p, from).pulse \in Nat /\ FactOf(p, from).delay \in Nat
  BY FactOfWire DEF Fact
<1>3. \A s, wires : Means(p, wires, s) => Grown(p, p, s, wires, from, wires[from])
  BY DEF Grown, Extends
<1> QED
  BY <1>1, <1>2, <1>3, WireCount DEF Late

LEMMA DelayedByIsLate ==
    ASSUME NEW p, IsPulsed(p), NEW from \in 0 .. Len(p.nodes), Past(p, from) = 0, NEW delay \in Nat
    PROVE  Late(p, DelayedBy(p, from, delay), from, EndOf(p, from, DelayedBy(p, from, delay)), delay, 0)
<1>1. CASE delay > 0
  <2>1. DelayedBy(p, from, delay) = WiredDelay(p, from, delay, 0) /\ delay + 0 = delay
    BY <1>1 DEF DelayedBy
  <2> QED
    BY <2>1, WiredDelayIsLate
<1>2. CASE ~(delay > 0)
  <2>1. DelayedBy(p, from, delay) = p /\ delay = 0
    BY <1>2 DEF DelayedBy
  <2> QED
    BY <2>1, StaysInTime
<1> QED
  BY <1>1, <1>2
LEMMA ConstantlyIs ==
    ASSUME NEW n \in Nat, NEW value \in Int
    PROVE  /\ Constantly(n, value) \in Seq(Int) /\ Len(Constantly(n, value)) = n
           /\ \A i \in 1 .. n : Constantly(n, value)[i] = value
<1>1. Constantly(n, value) \in [1 .. n -> Int] /\ \A i \in 1 .. n : Constantly(n, value)[i] = value
  BY DEF Constantly
<1> QED
  BY <1>1, ListedIsASequence

\* Joined sequences, frame by frame.
LEMMA JoinedIs ==
    ASSUME NEW S, NEW x \in Seq(S), NEW y \in Seq(S)
    PROVE  /\ x \o y \in Seq(S) /\ Len(x \o y) = Len(x) + Len(y)
           /\ \A i \in 1 .. Len(x) : (x \o y)[i] = x[i]
           /\ \A i \in 1 .. Len(y) : (x \o y)[Len(x) + i] = y[i]
           /\ \A i \in 1 .. Len(x) + Len(y) :
                 (x \o y)[i] = IF i <= Len(x) THEN x[i] ELSE y[i - Len(x)]
  OBVIOUS

LEMMA PaddedIs ==
    ASSUME NEW x \in Seq(Int), x # <<>>, NEW before \in Nat, NEW after \in Nat,
           NEW value \in Int, NEW mode
    PROVE  /\ Padded(x, before, after, mode, value) \in Seq(Int)
           /\ Padded(x, before, after, mode, value) # <<>>
           /\ Len(Padded(x, before, after, mode, value)) = Len(x) + (before + after)
           /\ \A i \in 1 .. Len(x) + (before + after) :
                 Padded(x, before, after, mode, value)[i] =
                    IF i <= before THEN IF mode = "edge" THEN x[1] ELSE value
                    ELSE IF i <= before + Len(x) THEN x[i - before]
                    ELSE IF mode = "edge" THEN x[Len(x)] ELSE value
<1> DEFINE a == IF mode = "edge" THEN x[1] ELSE value
           b == IF mode = "edge" THEN x[Len(x)] ELSE value
           A == Constantly(before, a)
           B == Constantly(after, b)
           n == Len(x)
           c == Padded(x, before, after, mode, value)
<1>1. n \in Nat \ {0} /\ a \in Int /\ b \in Int
  OBVIOUS
<1>2. c = (A \o x) \o B
  <2>1. Head(x) = x[1] /\ Last(x) = x[Len(x)]
    BY DEF Last
  <2>2. a = (IF mode = "edge" THEN Head(x) ELSE value) /\ b = (IF mode = "edge" THEN Last(x) ELSE value)
    BY <2>1
  <2> HIDE DEF a, b
  <2> QED
    BY <2>2, Zenon DEF Padded
<1> HIDE DEF a, b, c
<1>3. /\ A \in Seq(Int) /\ Len(A) = before /\ \A i \in 1 .. before : A[i] = a
      /\ B \in Seq(Int) /\ Len(B) = after /\ \A i \in 1 .. after : B[i] = b
  BY <1>1, ConstantlyIs
<1> HIDE DEF A, B
<1> DEFINE d == A \o x
<1>4. /\ d \in Seq(Int) /\ Len(d) = before + n
      /\ \A i \in 1 .. before + n : d[i] = IF i <= before THEN a ELSE x[i - before]
  <2>1. /\ d \in Seq(Int) /\ Len(d) = before + n
        /\ \A i \in 1 .. before + n : d[i] = IF i <= before THEN A[i] ELSE x[i - before]
    <3>1. /\ d \in Seq(Int) /\ Len(d) = Len(A) + Len(x)
          /\ \A i \in 1 .. Len(A) + Len(x) : d[i] = IF i <= Len(A) THEN A[i] ELSE x[i - Len(A)]
      BY <1>3, JoinedIs
    <3> HIDE DEF d
    <3> QED
      BY <1>3, <3>1
  <2> HIDE DEF d
  <2> QED
    BY <1>1, <1>3, <2>1
<1> HIDE DEF d
<1>5. /\ c \in Seq(Int) /\ Len(c) = (before + n) + after
      /\ \A i \in 1 .. (before + n) + after :
            c[i] = IF i <= before + n THEN d[i] ELSE B[i - (before + n)]
  <2>1. c = d \o B
    BY <1>2 DEF d
  <2>2. /\ c \in Seq(Int) /\ Len(c) = Len(d) + Len(B)
        /\ \A i \in 1 .. Len(d) + Len(B) : c[i] = IF i <= Len(d) THEN d[i] ELSE B[i - Len(d)]
    <3>1. d \in Seq(Int) /\ B \in Seq(Int)
      BY <1>3, <1>4
    <3>2. /\ d \o B \in Seq(Int) /\ Len(d \o B) = Len(d) + Len(B)
          /\ \A i \in 1 .. Len(d) + Len(B) : (d \o B)[i] = IF i <= Len(d) THEN d[i] ELSE B[i - Len(d)]
      BY <3>1, JoinedIs
    <3> QED
      BY <2>1, <3>2, Zenon
  <2> QED
    BY <1>3, <1>4, <2>2
<1>6. ASSUME NEW i \in 1 .. n + (before + after)
      PROVE  c[i] = IF i <= before THEN a ELSE IF i <= before + n THEN x[i - before] ELSE b
  <2>1. i \in 1 .. (before + n) + after
    BY <1>1
  <2>2. CASE i <= before + n
    <3>1. i \in 1 .. before + n
      BY <1>1, <2>2
    <3> QED
      BY <1>4, <1>5, <2>1, <2>2, <3>1
  <2>3. CASE ~(i <= before + n)
    <3>1. i - (before + n) \in 1 .. after /\ ~(i <= before)
      BY <1>1, <2>3
    <3> QED
      BY <1>3, <1>5, <2>1, <2>3, <3>1
  <2> QED
    BY <2>2, <2>3
<1>7. Len(c) = n + (before + after) /\ c # <<>>
  BY <1>1, <1>5
<1> QED
  BY <1>5, <1>6, <1>7 DEF a, b, c

LEMMA UnpaddedIs ==
    ASSUME NEW x \in Seq(Int), x # <<>>, NEW value \in Int, NEW mode
    PROVE  Padded(x, 0, 0, mode, value) = x
<1> DEFINE c == Padded(x, 0, 0, mode, value)
<1>1. /\ c \in Seq(Int) /\ Len(c) = Len(x) + (0 + 0)
      /\ \A i \in 1 .. Len(x) + (0 + 0) :
                 c[i] = IF i <= 0 THEN IF mode = "edge" THEN x[1] ELSE value
                        ELSE IF i <= 0 + Len(x) THEN x[i - 0]
                        ELSE IF mode = "edge" THEN x[Len(x)] ELSE value
  BY PaddedIs
<1> HIDE DEF c
<1>2. Len(x) \in Nat
  OBVIOUS
<1>3. Len(c) = Len(x) /\ \A i \in 1 .. Len(x) : c[i] = x[i]
  BY <1>1, <1>2
<1>4. c = x
  <2>1. c \in [1 .. Len(x) -> Int] /\ x \in [1 .. Len(x) -> Int]
    BY <1>1, <1>3, SequenceIsListed
  <2> QED
    BY <1>3, <2>1
<1> QED
  BY <1>4 DEF c

-----------------------------------------------------------------------------
(* Pulsification of each operator.                                           *)

\* The length that an operator leaves of n frames.
Lengthened(op, n) ==
    CASE op.kind = "pad" -> n + (op.before + op.after)
      [] op.kind \in {"conv", "pool"} ->
            CeilDiv(n + (op.before + op.after) - KernelLen(op.size, op.dilation), op.stride)
      [] op.kind = "downsample" -> CeilDiv(n - op.modulo, op.stride)
      [] op.kind = "slice" -> n + -(op.start + op.drop)
      [] op.kind = "concat" -> n + (Len(op.pre) + Len(op.post))
      [] op.kind = "deconv" -> (n - 1) * op.stride + op.size - op.before - op.after
      [] OTHER -> n

IsStream(x, n) == x \in Seq(Int) /\ x # <<>> /\ Len(x) = n

At(p, op, k) == p.at[op.from[k] + 1]

\* q continues p with an operator: its wire is as long as the operator makes it,
\* and stands for what the operator says of a whole stream.
Translates(p, q, op) ==
    /\ Continues(p, q) /\ Len(p.nodes) < Len(q.nodes) /\ Past(q, Len(q.nodes)) = 0
    /\ \A s \in Lengths :
          FactOf(q, Len(q.nodes)).dim[s] = Lengthened(op, FactOf(p, At(p, op, 1)).dim[s])
    /\ \A s \in Lengths : \A wires, ins :
          /\ Means(p, wires, s)
          /\ \A k \in 1 .. Len(op.from) :
                ins[k] = wires[At(p, op, k)] /\ IsStream(ins[k], FactOf(p, At(p, op, 1)).dim[s])
          => Grown(p, q, s, wires, Len(q.nodes), Batch(op, ins))

Takes(p, op, k) == At(p, op, k) \in 0 .. Len(p.nodes) /\ Past(p, At(p, op, k)) = 0

\* An operator of one input that is translated by a single node.
LEMMA OneNode ==
    ASSUME NEW p, IsPulsed(p), NEW op, Len(op.from) = 1, Takes(p, op, 1),
           NEW node, node.from = <<At(p, op, 1)>>,
           node.kind \notin {"sum", "delay", "pad"}, NEW fact \in Fact,
           IsNode(node, 0, FactOf(p, At(p, op, 1)), fact),
           \A s \in Lengths : fact.dim[s] = Lengthened(op, FactOf(p, At(p, op, 1)).dim[s]),
           \A s \in Lengths : \A ins : IsStream(ins[1], FactOf(p, At(p, op, 1)).dim[s]) =>
              Follows(node, FactOf(p, At(p, op, 1)), fact, s, ins[1], <<>>, Batch(op, ins))
    PROVE  Translates(p, Wired(p, node, fact), op)
<1> DEFINE from == At(p, op, 1)
           q == Wired(p, node, fact)
<1>1. from \in 0 .. Len(p.nodes) /\ Past(p, from) = 0
  BY DEF Takes
<1>2. Adds(p, q, from, node, fact)
  <2>1. IsNode(node, Past(p, from), FactOf(p, from), fact)
    BY <1>1
  <2> QED
    BY <1>1, <2>1, WiringOne
<1> HIDE DEF q
<1>3. Continues(p, q) /\ Len(p.nodes) < Len(q.nodes) /\ FactOf(q, Len(q.nodes)) = fact
  BY <1>2, AddedIs DEF Adds
<1>4. Past(q, Len(q.nodes)) = 0
  BY <1>2 DEF Adds
<1>5. ASSUME NEW s \in Lengths, NEW wires, NEW ins, Means(p, wires, s),
             \A k \in 1 .. Len(op.from) :
                ins[k] = wires[At(p, op, k)] /\ IsStream(ins[k], FactOf(p, At(p, op, 1)).dim[s])
      PROVE  Grown(p, q, s, wires, Len(q.nodes), Batch(op, ins))
  <2>1. ins[1] = wires[from] /\ IsStream(ins[1], FactOf(p, from).dim[s])
    BY <1>5
  <2>2. Follows(node, FactOf(p, from), fact, s, ins[1], <<>>, Batch(op, ins))
    BY <2>1
  <2>3. Follows(node, FactOf(p, from), fact, s, wires[from], <<>>, Batch(op, ins))
    BY <2>1, <2>2, Zenon
  <2> HIDE DEF from
  <2> QED
    BY <1>2, <1>5, <2>3 DEF Adds
<1>6. Translates(p, q, op)
  BY <1>3, <1>4, <1>5 DEF Translates
<1> QED
  BY <1>6 DEF q

LEMMA CumSumTranslates ==
    ASSUME NEW p, IsPulsed(p), NEW op, op.kind = "cumsum", Len(op.from) = 1, Takes(p, op, 1)
    PROVE  Translates(p, PulsifiedCumSum(p, op), op)
<1> DEFINE from == At(p, op, 1)
           fact == FactOf(p, from)
           node == [kind |-> "cumsum", from |-> <<from>>, skip |-> fact.delay,
                    exclusive |-> op.exclusive]
<1>1. fact \in Fact
  BY FactOfWire DEF Takes
<1>2. PulsifiedCumSum(p, op) = Wired(p, node, fact)
  BY DEF PulsifiedCumSum, At
<1> HIDE DEF fact
<1>3. IsNode(node, 0, fact, fact)
  BY <1>1 DEF IsNode
<1>4. \A s \in Lengths : fact.dim[s] = Lengthened(op, fact.dim[s])
  BY DEF Lengthened
<1>5. \A s \in Lengths : \A ins : IsStream(ins[1], fact.dim[s]) =>
          Follows(node, fact, fact, s, ins[1], <<>>, Batch(op, ins))
  BY DEF Follows, IsStream, Batch
<1>6. node.from = <<from>> /\ node.kind \notin {"sum", "delay", "pad"}
  OBVIOUS
<1> HIDE DEF node
<1> QED
  BY <1>1, <1>2, <1>3, <1>4, <1>5, <1>6, OneNode DEF fact

LEMMA ScanTranslates ==
    ASSUME NEW p, IsPulsed(p), NEW op, op.kind = "scan", Len(op.from) = 1, Takes(p, op, 1)
    PROVE  Translates(p, PulsifiedScan(p, op), op)
<1> DEFINE from == At(p, op, 1)
           fact == FactOf(p, from)
           node == [kind |-> "scan", from |-> <<from>>, skip |-> fact.delay]
<1>1. fact \in Fact
  BY FactOfWire DEF Takes
<1>2. PulsifiedScan(p, op) = Wired(p, node, fact)
  BY DEF PulsifiedScan, At
<1> HIDE DEF fact
<1>3. IsNode(node, 0, fact, fact)
  BY <1>1 DEF IsNode
<1>4. \A s \in Lengths : fact.dim[s] = Lengthened(op, fact.dim[s])
  BY DEF Lengthened
<1>5. \A s \in Lengths : \A ins : IsStream(ins[1], fact.dim[s]) =>
          Follows(node, fact, fact, s, ins[1], <<>>, Batch(op, ins))
  BY DEF Follows, IsStream, Batch
<1>6. node.from = <<from>> /\ node.kind \notin {"sum", "delay", "pad"}
  OBVIOUS
<1> HIDE DEF node
<1> QED
  BY <1>1, <1>2, <1>3, <1>4, <1>5, <1>6, OneNode DEF fact

LEMMA SliceTranslates ==
    ASSUME NEW p, IsPulsed(p), NEW op, op.kind = "slice", Len(op.from) = 1, Takes(p, op, 1),
           op.start \in Nat, op.drop \in Nat
    PROVE  Translates(p, PulsifiedSlice(p, op), op)
<1> DEFINE from == At(p, op, 1)
           in == FactOf(p, from)
           node == [kind |-> "identity", from |-> <<from>>]
           dim == Longer(in.dim, -(op.start + op.drop))
           fact == [pulse |-> in.pulse, delay |-> in.delay + op.start, dim |-> dim]
<1>1. in \in Fact
  BY FactOfWire DEF Takes
<1>2. PulsifiedSlice(p, op) = Wired(p, node, fact)
  BY DEF PulsifiedSlice, WiredSlice, At
<1>3. dim \in Dim /\ \A s \in Lengths : dim[s] = in.dim[s] + -(op.start + op.drop)
  <2>1. in.dim \in Dim /\ -(op.start + op.drop) \in Int
    BY <1>1, FactsAre
  <2> HIDE DEF in
  <2> QED
    BY <2>1, LongerDim
<1>4. /\ fact \in Fact /\ fact.pulse = in.pulse /\ fact.dim = dim /\ fact.delay = in.delay + op.start
      /\ fact.delay >= in.delay /\ fact.delay - in.delay = op.start
  <2>1. in.pulse \in Nat \ {0} /\ in.delay \in Nat
    BY <1>1, FactsAre
  <2> HIDE DEF in, dim
  <2> QED
    BY <1>3, <2>1 DEF Fact, Dim
<1> HIDE DEF in, fact, dim
<1>5. IsNode(node, 0, in, fact)
  BY <1>4 DEF IsNode
<1>6. \A s \in Lengths : fact.dim[s] = Lengthened(op, in.dim[s])
  BY <1>3, <1>4 DEF Lengthened
<1>7. ASSUME NEW s \in Lengths, NEW ins, IsStream(ins[1], in.dim[s])
      PROVE  Follows(node, in, fact, s, ins[1], <<>>, Batch(op, ins))
  <2> DEFINE x == ins[1]
             c == Batch(op, ins)
  <2>1. c = SubSeq(x, op.start + 1, Len(x) - op.drop)
    BY DEF Batch
  <2>2. x \in Seq(Int)
    BY <1>7 DEF IsStream
  <2> HIDE DEF x, c
  <2> DEFINE a == op.start + 1
             b == Len(x) - op.drop
  <2>3. a \in Int /\ b \in Int /\ Len(x) \in Nat /\ DOMAIN x = 1 .. Len(x)
        /\ \A i \in a .. b : i \in 1 .. Len(x)
    BY <2>2
  <2>4. /\ c \in Seq(Int) /\ Len(c) = IF a <= b THEN b - a + 1 ELSE 0
        /\ \A i \in 1 .. b - a + 1 : c[i] = x[a + i - 1]
    <3>1. \A i \in a .. b : x[i] \in Int
      BY <2>2, <2>3
    <3> HIDE DEF a, b
    <3>2. SubSeq(x, a, b) \in Seq(Int) /\ Len(SubSeq(x, a, b)) = (IF a <= b THEN b - a + 1 ELSE 0)
          /\ \A i \in 1 .. b - a + 1 : SubSeq(x, a, b)[i] = x[a + i - 1]
      BY <2>3, <3>1, SubSeqProperties
    <3>3. c = SubSeq(x, a, b)
      BY <2>1 DEF a, b
    <3> QED
      BY <3>2, <3>3, Zenon
  <2>5. \A i \in DOMAIN c : i \in 1 .. b - a + 1
    <3>1. DOMAIN c = 1 .. Len(c)
      BY <2>4
    <3> HIDE DEF a, b
    <3> QED
      BY <2>3, <2>4, <3>1
  <2>6. ASSUME NEW i \in DOMAIN c
        PROVE  i \in Int /\ i + op.start \in DOMAIN x /\ c[i] = x[i + op.start]
    <3>1. i \in 1 .. b - a + 1 /\ c[i] = x[a + i - 1]
      BY <2>4, <2>5
    <3>2. i \in Int /\ a + i - 1 = i + op.start
      BY <3>1
    <3>3. a + i - 1 \in a .. b
      <4> HIDE DEF a, b
      <4> QED
        BY <2>3, <3>1
    <3>4. a + i - 1 \in 1 .. Len(x)
      BY <2>3, <3>3
    <3> QED
      BY <2>3, <3>1, <3>2, <3>4
  <2> QED
    BY <1>4, <2>6 DEF Follows, x, c
<1>8. node.from = <<from>> /\ node.kind \notin {"sum", "delay", "pad"}
  OBVIOUS
<1> HIDE DEF node
<1> QED
  BY <1>2, <1>4, <1>5, <1>6, <1>7, <1>8, OneNode DEF in

\* Frame j of every stride-th one, and frame i of those from another one on.
LEMMA SampledAgain ==
    ASSUME NEW i \in Int, NEW j \in Int, NEW d \in Int, NEW r \in Int, NEW stride \in Int,
           NEW delay \in Int, NEW modulo \in Int,
           i = j + d, delay + modulo = d * stride + r
    PROVE  (((i - 1) * stride + r) + 1) - delay = ((j - 1) * stride + modulo) + 1
<1>1. (i - 1) * stride = (j - 1) * stride + d * stride
  OBVIOUS
<1>2. (i - 1) * stride \in Int /\ d * stride \in Int /\ (j - 1) * stride \in Int
  OBVIOUS
<1> QED
  BY <1>1, <1>2

LEMMA DownsampleTranslates ==
    ASSUME NEW p, IsPulsed(p), NEW op, op.kind = "downsample", Len(op.from) = 1, Takes(p, op, 1),
           op.stride \in Nat \ {0}, op.modulo \in Nat,
           FactOf(p, At(p, op, 1)).pulse % op.stride = 0
    PROVE  Translates(p, PulsifiedDownsample(p, op), op)
<1> DEFINE from == At(p, op, 1)
           in == FactOf(p, from)
           stride == op.stride
           first == in.delay + op.modulo
           node == [kind |-> "downsample", from |-> <<from>>, stride |-> stride,
                    modulo |-> first % stride]
           fact == [pulse |-> in.pulse \div stride, delay |-> 0,
                    dim |-> [s \in Lengths |-> CeilDiv(in.dim[s] + in.delay, stride)]]
           q == Wired(p, node, fact)
           dim == [s \in Lengths |-> CeilDiv(in.dim[s] - op.modulo, stride)]
           last == [kind |-> "identity", from |-> <<NewWire(q)>>]
           fact2 == [pulse |-> FactOf(q, NewWire(q)).pulse,
                     delay |-> FactOf(q, NewWire(q)).delay + first \div stride, dim |-> dim]
           r == Wired(q, last, fact2)
<1>1. in \in Fact /\ in.pulse % stride = 0
  BY FactOfWire DEF Takes
<1>2. PulsifiedDownsample(p, op) = r
  BY DEF PulsifiedDownsample, WiredSlice, At
<1>3. in.pulse \in Nat \ {0} /\ in.delay \in Nat /\ in.dim \in Dim /\ stride \in Nat \ {0}
  BY <1>1, FactsAre
<1>4. /\ first \in Nat /\ first % stride \in 0 .. stride - 1 /\ first \div stride \in Nat
      /\ in.pulse \div stride \in Nat \ {0} /\ in.pulse = (in.pulse \div stride) * stride
  <2>1. first \in Nat
    BY <1>3
  <2>2. in.pulse \in Nat
    BY <1>3
  <2>3. in.pulse \div stride \in Nat \ {0} /\ in.pulse = (in.pulse \div stride) * stride
    BY <1>1, <1>3, <2>2, Multiple, StridesOfAPulse
  <2>4. first % stride \in 0 .. stride - 1 /\ first \div stride \in Nat
    <3> HIDE DEF first
    <3> QED
      BY <1>3, <2>1
  <2> QED
    BY <2>1, <2>3, <2>4
<1>5. /\ fact \in Fact /\ fact.pulse = in.pulse \div stride /\ fact.delay = 0
      /\ dim \in Dim
  <2>1. \A s \in Lengths : CeilDiv(in.dim[s] + in.delay, stride) \in Int
                           /\ CeilDiv(in.dim[s] - op.modulo, stride) \in Int
    <3>1. \A s \in Lengths : in.dim[s] \in Int
      BY <1>3 DEF Dim
    <3>2. \A s \in Lengths : in.dim[s] + in.delay \in Int /\ in.dim[s] - op.modulo \in Int
      BY <1>3, <3>1
    <3> HIDE DEF stride, in
    <3> QED
      BY <1>3, <3>2, CeilDivIs
  <2> DEFINE k == in.pulse \div stride
             e == [s \in Lengths |-> CeilDiv(in.dim[s] + in.delay, stride)]
  <2>2. e \in [Lengths -> Int] /\ dim \in Dim
    BY <2>1 DEF Dim
  <2>3. k \in Nat \ {0}
    BY <1>4
  <2> HIDE DEF k, e
  <2>4. [pulse |-> k, delay |-> 0, dim |-> e] \in Fact
    BY <2>2, <2>3 DEF Fact
  <2> QED
    BY <2>2, <2>4 DEF k, e
<1> HIDE DEF in, stride, fact, first
<1>6. /\ IsNode(node, 0, in, fact) /\ node.from = <<from>> /\ node.stride = stride
      /\ node.modulo = first % stride /\ node.kind = "downsample"
  BY <1>3, <1>4, <1>5 DEF IsNode
<1> HIDE DEF node
<1>7. Adds(p, q, from, node, fact)
  <2>1. from \in 0 .. Len(p.nodes) /\ Past(p, from) = 0
    BY DEF Takes
  <2>2. node.kind # "sum" /\ IsNode(node, Past(p, from), FactOf(p, from), fact)
    BY <1>6, <2>1 DEF in
  <2> QED
    BY <1>5, <1>6, <2>1, <2>2, WiringOne
<1> HIDE DEF q
<1> DEFINE w == Len(q.nodes)
<1>8. /\ NewWire(q) = w /\ IsPulsed(q) /\ w \in 0 .. Len(q.nodes) /\ Past(q, w) = 0
      /\ FactOf(q, w) = fact /\ Continues(p, q) /\ Len(p.nodes) < w
  <2>1. node.kind \notin {"delay", "pad"}
    BY <1>6
  <2> QED
    BY <1>7, <2>1, AddedIs DEF Adds, NewWire
<1>9. /\ fact2 \in Fact /\ fact2.pulse = fact.pulse /\ fact2.delay = first \div stride
      /\ fact2.dim = dim
  <2>1. FactOf(q, NewWire(q)).pulse = fact.pulse /\ FactOf(q, NewWire(q)).delay = 0
    BY <1>5, <1>8
  <2>2. fact2.pulse = fact.pulse /\ fact2.delay = first \div stride /\ fact2.dim = dim
    BY <1>4, <2>1
  <2>3. fact.pulse \in Nat \ {0}
    BY <1>4, <1>5
  <2>4. FactOf(q, NewWire(q)).pulse \in Nat \ {0} /\ FactOf(q, NewWire(q)).delay + first \div stride \in Nat
    BY <1>4, <2>1, <2>3
  <2> HIDE DEF dim
  <2>5. fact2 \in Fact
    BY <1>5, <2>4 DEF Fact, Dim
  <2> HIDE DEF fact2
  <2> QED
    BY <2>2, <2>5
<1>10. /\ last.from = <<w>> /\ last.kind = "identity" /\ IsNode(last, 0, fact, fact2)
  <2>1. last.from = <<w>> /\ last.kind = "identity"
    BY <1>8
  <2> HIDE DEF last, fact2
  <2> QED
    BY <1>4, <1>5, <1>9, <2>1 DEF IsNode
<1> HIDE DEF last, fact2
<1>11. Adds(q, r, w, last, fact2)
  <2>1. IsNode(last, Past(q, w), FactOf(q, w), fact2) /\ last.kind # "sum"
    BY <1>8, <1>10
  <2> HIDE DEF w
  <2> QED
    BY <1>8, <1>9, <1>10, <2>1, WiringOne
<1> HIDE DEF r
<1>12. /\ Continues(p, r) /\ Len(p.nodes) < Len(r.nodes) /\ Past(r, Len(r.nodes)) = 0
       /\ FactOf(r, Len(r.nodes)) = fact2
  <2>1. Continues(q, r) /\ Len(r.nodes) = w + 1 /\ w \in Nat
    BY <1>11, AddedIs DEF Adds, Continues
  <2>2. Len(p.nodes) \in Nat
    BY WireCount
  <2> QED
    BY <1>8, <1>10, <1>11, <2>1, <2>2, ContinuesOn DEF Adds
<1>13. ASSUME NEW s \in Lengths, NEW wires, NEW ins, Means(p, wires, s),
              \A k \in 1 .. Len(op.from) :
                 ins[k] = wires[At(p, op, k)] /\ IsStream(ins[k], FactOf(p, At(p, op, 1)).dim[s])
       PROVE  Grown(p, r, s, wires, Len(r.nodes), Batch(op, ins))
  <2> DEFINE x == ins[1]
             n == Len(x)
             Index(i) == (((i - 1) * stride + (first % stride)) + 1) - in.delay
             mid == [i \in {i \in Int : Index(i) \in 1 .. n} |-> x[Index(i)]]
             c == Batch(op, ins)
  <2>1. x = wires[from] /\ x \in Seq(Int) /\ x # <<>> /\ n = in.dim[s] /\ n \in Nat
    BY <1>13 DEF IsStream, in
  <2>2. \A i \in DOMAIN mid : i \in Int /\ Index(i) \in 1 .. n /\ mid[i] = x[Index(i)]
    OBVIOUS
  <2>3. \A i \in Int : Index(i) \in 1 .. n => i \in DOMAIN mid
    OBVIOUS
  <2> HIDE DEF mid
  <2>4. Follows(node, in, fact, s, x, <<>>, mid)
    BY <1>6, <2>1, <2>2 DEF Follows
  <2>5. Grown(p, q, s, wires, w, mid)
    <3>1. Follows(node, FactOf(p, from), fact, s, wires[from], <<>>, mid)
      BY <2>1, <2>4, Zenon DEF in
    <3> QED
      BY <1>7, <1>13, <3>1 DEF Adds
  <2>6. c = Sampled(x, stride, op.modulo)
    BY DEF Batch, stride
  <2>7. ASSUME NEW j \in DOMAIN c
        PROVE  /\ j \in Int /\ j + (fact2.delay - fact.delay) \in DOMAIN mid
               /\ c[j] = mid[j + (fact2.delay - fact.delay)]
    <3>1. /\ Positive(CeilDiv(n - op.modulo, stride)) \in Nat
          /\ \A k \in 1 .. Positive(CeilDiv(n - op.modulo, stride)) :
                 (k - 1) * stride + op.modulo + 1 \in 1 .. n
      BY <1>3, <2>1, SampleCountIs
    <3>2. j \in 1 .. Positive(CeilDiv(n - op.modulo, stride))
          /\ c[j] = x[(j - 1) * stride + op.modulo + 1]
      BY <2>6 DEF Sampled
    <3> DEFINE i == j + first \div stride
    <3>3. j \in Int /\ i \in Int /\ j + (fact2.delay - fact.delay) = i
      BY <1>4, <1>5, <1>9, <3>1, <3>2
    <3>4. Index(i) = ((j - 1) * stride + op.modulo) + 1
      <4>1. first = in.delay + op.modulo
        BY DEF first
      <4>2. j \in Int /\ stride \in Nat \ {0} /\ in.delay \in Nat /\ op.modulo \in Nat /\ first \in Nat
        BY <1>3, <1>4, <3>3
      <4>3. PICK d \in Nat, e \in Nat :
               d = first \div stride /\ e = first % stride /\ first = d * stride + e
        BY <4>2
      <4>4. i = j + d
        BY <4>3
      <4> HIDE DEF i
      <4>5. Index(i) = (((i - 1) * stride + e) + 1) - in.delay
        BY <4>3
      <4> DEFINE delay == in.delay
                 modulo == op.modulo
      <4>8. delay \in Nat /\ modulo \in Nat /\ first = delay + modulo
        BY <4>1, <4>2, Zenon
      <4>9. delay + modulo = d * stride + e
        BY <4>3, <4>8, Zenon
      <4>6. /\ j \in Int /\ stride \in Int /\ delay \in Int /\ modulo \in Int /\ i \in Int
            /\ d \in Int /\ e \in Int /\ delay + modulo = d * stride + e
        <5> HIDE DEF delay, modulo
        <5> QED
          BY <3>3, <4>2, <4>3, <4>8, <4>9
      <4> HIDE DEF delay, modulo
      <4>7. (((i - 1) * stride + e) + 1) - delay = ((j - 1) * stride + modulo) + 1
        BY <4>4, <4>6, SampledAgain
      <4> QED
        BY <4>5, <4>7 DEF delay, modulo
    <3> HIDE DEF i
    <3>5. Index(i) \in 1 .. n /\ c[j] = x[Index(i)]
      BY <3>1, <3>2, <3>4
    <3> HIDE DEF Index, n, x, c
    <3> QED
      BY <2>2, <2>3, <3>3, <3>5
  <2>8. Follows(last, fact, fact2, s, mid, <<>>, c)
    <3> HIDE DEF c
    <3> QED
      BY <1>10, <2>7 DEF Follows
  <2>9. ASSUME NEW more, Means(q, more, s), more[w] = mid
        PROVE  Grown(q, r, s, more, Len(r.nodes), c)
    <3>1. Follows(last, FactOf(q, w), fact2, s, more[w], <<>>, c)
      BY <1>8, <2>8, <2>9, Zenon
    <3> HIDE DEF w, c
    <3> QED
      BY <1>11, <2>9, <3>1 DEF Adds
  <2> HIDE DEF c, w
  <2>10. Grown(p, r, s, wires, Len(r.nodes), c)
    BY <1>8, <2>5, <2>9, GrownOn
  <2> QED
    BY <2>10 DEF c
<1>14. \A s \in Lengths : fact2.dim[s] = Lengthened(op, FactOf(p, At(p, op, 1)).dim[s])
  BY <1>9 DEF Lengthened, in, stride
<1> QED
  BY <1>2, <1>12, <1>13, <1>14 DEF Translates

\* A node on a wire that q has.
LEMMA NodeOn ==
    ASSUME NEW p, IsPulsed(p), NEW q, Continues(p, q), NEW w \in 0 .. Len(q.nodes),
           NEW node, node.from = <<w>>, node.kind # "sum", NEW fact \in Fact,
           IsNode(node, Past(q, w), FactOf(q, w), fact), NEW r, r = Wired(q, node, fact)
    PROVE  /\ Continues(p, r) /\ Len(p.nodes) < Len(r.nodes) /\ NewWire(r) = Len(r.nodes)
           /\ Len(r.nodes) \in 0 .. Len(r.nodes) /\ FactOf(r, Len(r.nodes)) = fact
           /\ Len(r.nodes) = Len(q.nodes) + 1 /\ Len(q.nodes) \in Nat /\ Len(p.nodes) \in Nat
           /\ Past(r, Len(r.nodes)) = IF node.kind \in {"delay", "pad"} THEN node.overlap ELSE 0
           /\ \A s, wires, a, c :
                 Grown(p, q, s, wires, w, a) /\ Follows(node, FactOf(q, w), fact, s, a, <<>>, c)
                    => Grown(p, r, s, wires, Len(r.nodes), c)
<1>1. IsPulsed(q) /\ Len(p.nodes) \in Nat /\ Len(q.nodes) \in Nat /\ Len(p.nodes) <= Len(q.nodes)
  BY DEF Continues
<1>2. Adds(q, r, w, node, fact)
  BY <1>1, WiringOne
<1>3. Continues(q, r) /\ Len(r.nodes) = Len(q.nodes) + 1 /\ NewWire(r) = Len(r.nodes)
      /\ FactOf(r, Len(r.nodes)) = fact
      /\ Past(r, Len(r.nodes)) = IF node.kind \in {"delay", "pad"} THEN node.overlap ELSE 0
  BY <1>1, <1>2 DEF Adds
<1>4. Continues(p, r) /\ Len(p.nodes) < Len(r.nodes) /\ Len(r.nodes) \in 0 .. Len(r.nodes)
  <2>1. Continues(p, r)
    BY <1>3, ContinuesOn
  <2>2. Len(p.nodes) < Len(r.nodes) /\ Len(r.nodes) \in 0 .. Len(r.nodes)
    BY <1>1, <1>3
  <2> QED
    BY <2>1, <2>2
<1>5. ASSUME NEW s, NEW wires, NEW a, NEW c, Grown(p, q, s, wires, w, a),
             Follows(node, FactOf(q, w), fact, s, a, <<>>, c)
      PROVE  Grown(p, r, s, wires, Len(r.nodes), c)
  <2>1. ASSUME NEW more, Means(q, more, s), more[w] = a
        PROVE  Grown(q, r, s, more, Len(r.nodes), c)
    <3>1. Follows(node, FactOf(q, w), fact, s, more[w], <<>>, c)
      BY <1>5, <2>1, Zenon
    <3> QED
      BY <1>2, <2>1, <3>1 DEF Adds
  <2> QED
    BY <1>5, <2>1, GrownOn
<1> QED
  BY <1>1, <1>3, <1>4, <1>5

LEMMA ConcatTranslates ==
    ASSUME NEW p, IsPulsed(p), NEW op, op.kind = "concat", Len(op.from) = 1, Takes(p, op, 1),
           op.pre \in Seq(Int), op.post \in Seq(Int)
    PROVE  Translates(p, PulsifiedConcat(p, op), op)
<1> DEFINE from == At(p, op, 1)
           in == FactOf(p, from)
           more == Positive(Len(op.pre) - in.delay)
           q == DelayedBy(p, from, more)
           w == EndOf(p, from, q)
           seen == FactOf(q, w)
           node == [kind |-> "concat", from |-> <<w>>, pre |-> op.pre, post |-> op.post,
                    delay |-> seen.delay, len |-> in.dim]
           fact == [pulse |-> seen.pulse, delay |-> seen.delay - Len(op.pre),
                    dim |-> Longer(seen.dim, Len(op.pre) + Len(op.post))]
           r == Wired(q, node, fact)
<1>1. in \in Fact /\ from \in 0 .. Len(p.nodes) /\ Past(p, from) = 0
  BY FactOfWire DEF Takes
<1>2. PulsifiedConcat(p, op) = r
  BY DEF PulsifiedConcat, At
<1>3. /\ in.pulse \in Nat \ {0} /\ in.delay \in Nat /\ in.dim \in Dim
      /\ Len(op.pre) \in Nat /\ Len(op.post) \in Nat /\ more \in Nat
      /\ in.delay + more >= Len(op.pre)
  <2>1. in.pulse \in Nat \ {0} /\ in.delay \in Nat /\ in.dim \in Dim
    BY <1>1, FactsAre
  <2>2. Len(op.pre) \in Nat /\ Len(op.post) \in Nat
    OBVIOUS
  <2>3. more \in Nat /\ in.delay + more >= Len(op.pre)
    BY <2>1, <2>2 DEF Positive
  <2> QED
    BY <2>1, <2>2, <2>3
<1>4. Late(p, q, from, w, more, 0)
  BY <1>1, <1>3, DelayedByIsLate
<1> HIDE DEF q, w, more, in
<1>5. /\ Continues(p, q) /\ w \in 0 .. Len(q.nodes) /\ Past(q, w) = 0
      /\ seen.pulse = in.pulse /\ seen.delay = in.delay + more /\ seen.dim = in.dim
  <2>1. seen.pulse = in.pulse + 0
    BY <1>4 DEF Late, in
  <2> QED
    BY <1>3, <1>4, <2>1 DEF Late, in
<1> HIDE DEF seen
<1> DEFINE dim == Longer(seen.dim, Len(op.pre) + Len(op.post))
<1>6. dim \in Dim /\ \A s \in Lengths : dim[s] = in.dim[s] + (Len(op.pre) + Len(op.post))
  <2>1. Len(op.pre) + Len(op.post) \in Int
    BY <1>3
  <2>2. Longer(in.dim, Len(op.pre) + Len(op.post)) \in Dim
        /\ \A s \in Lengths : Longer(in.dim, Len(op.pre) + Len(op.post))[s]
                                 = in.dim[s] + (Len(op.pre) + Len(op.post))
    BY <1>3, <2>1, LongerDim
  <2> QED
    BY <1>5, <2>2
<1> HIDE DEF dim
<1>7. /\ fact \in Fact /\ fact.pulse = in.pulse /\ fact.delay = seen.delay - Len(op.pre)
      /\ fact.dim = dim
  <2>1. fact.pulse = in.pulse /\ fact.delay = seen.delay - Len(op.pre) /\ fact.dim = dim
    BY <1>5 DEF dim
  <2>2. fact = [pulse |-> seen.pulse, delay |-> seen.delay - Len(op.pre), dim |-> dim]
    BY DEF dim
  <2>3. seen.pulse \in Nat \ {0} /\ seen.delay - Len(op.pre) \in Nat
    BY <1>3, <1>5
  <2> HIDE DEF fact
  <2>4. fact \in Fact
    BY <1>6, <2>2, <2>3 DEF Fact, Dim
  <2> QED
    BY <2>1, <2>4
<1> HIDE DEF fact
<1>8. node.from = <<w>> /\ node.kind = "concat" /\ IsNode(node, 0, seen, fact)
      /\ node.pre = op.pre /\ node.post = op.post
  BY <1>5, <1>7 DEF IsNode
<1> HIDE DEF node, r
<1>9. /\ Continues(p, r) /\ Len(p.nodes) < Len(r.nodes) /\ FactOf(r, Len(r.nodes)) = fact
      /\ Past(r, Len(r.nodes)) = 0
      /\ \A s, wires, a, c :
            Grown(p, q, s, wires, w, a) /\ Follows(node, seen, fact, s, a, <<>>, c)
               => Grown(p, r, s, wires, Len(r.nodes), c)
  <2>1. IsNode(node, Past(q, w), FactOf(q, w), fact) /\ node.kind # "sum"
    BY <1>5, <1>8 DEF seen
  <2>2. r = Wired(q, node, fact)
    BY DEF r
  <2>3. \A s, wires, a, c :
            Grown(p, q, s, wires, w, a) /\ Follows(node, FactOf(q, w), fact, s, a, <<>>, c)
               => Grown(p, r, s, wires, Len(r.nodes), c)
    BY <1>5, <1>7, <1>8, <2>1, <2>2, NodeOn
  <2>4. /\ Continues(p, r) /\ Len(p.nodes) < Len(r.nodes) /\ FactOf(r, Len(r.nodes)) = fact
        /\ Past(r, Len(r.nodes)) = IF node.kind \in {"delay", "pad"} THEN node.overlap ELSE 0
    BY <1>5, <1>7, <1>8, <2>1, <2>2, NodeOn
  <2> QED
    BY <1>8, <2>3, <2>4 DEF seen
<1>10. ASSUME NEW s \in Lengths, NEW wires, NEW ins, Means(p, wires, s),
              \A k \in 1 .. Len(op.from) :
                 ins[k] = wires[At(p, op, k)] /\ IsStream(ins[k], FactOf(p, At(p, op, 1)).dim[s])
       PROVE  Grown(p, r, s, wires, Len(r.nodes), Batch(op, ins))
  <2>1. ins[1] = wires[from] /\ IsStream(ins[1], in.dim[s])
    BY <1>10 DEF in
  <2>2. Grown(p, q, s, wires, w, wires[from])
    BY <1>4, <1>10 DEF Late
  <2>3. Follows(node, seen, fact, s, ins[1], <<>>, Batch(op, ins))
    BY <1>5, <1>8, <2>1 DEF Follows, IsStream, Batch
  <2>4. Grown(p, q, s, wires, w, ins[1])
    BY <2>1, <2>2, Zenon
  <2> QED
    BY <1>9, <2>3, <2>4
<1>11. \A s \in Lengths : fact.dim[s] = Lengthened(op, FactOf(p, At(p, op, 1)).dim[s])
  BY <1>6, <1>7 DEF Lengthened, in
<1> QED
  BY <1>2, <1>9, <1>10, <1>11 DEF Translates

-----------------------------------------------------------------------------
(* Padding.                                                                  *)

\* An edge lies in the pulse of the first valid frame.
LEMMA EdgeFits ==
    ASSUME NEW delay \in Nat, NEW fit \in Nat, NEW before \in Nat, NEW pulse \in Nat \ {0},
           before < pulse, NEW align,
           align = Positive(before - ((delay + fit) % pulse))
    PROVE  align \in Nat /\ before <= (delay + (fit + align)) % pulse
<1> DEFINE d == (delay + fit) \div pulse
           r == (delay + fit) % pulse
<1>1. d \in Nat /\ r \in 0 .. pulse - 1 /\ delay + fit = d * pulse + r
  OBVIOUS
<1> HIDE DEF d, r
<1>2. align = Positive(before - r)
  BY DEF r
<1>3. align \in Nat /\ r + align \in 0 .. pulse - 1 /\ before <= r + align
  BY <1>1, <1>2 DEF Positive
<1>4. delay + (fit + align) = d * pulse + (r + align) /\ d * pulse \in Int
  BY <1>1, <1>3
<1>5. (d * pulse + (r + align)) % pulse = r + align
  <2> DEFINE e == r + align
  <2>1. e \in 0 .. pulse - 1
    BY <1>3
  <2> HIDE DEF e
  <2>2. (d * pulse + e) % pulse = e
    BY <1>1, <2>1
  <2> QED
    BY <2>2 DEF e
<1> QED
  BY <1>3, <1>4, <1>5

\* A pad on a wire that q has.
LEMMA PadOn ==
    ASSUME NEW p, IsPulsed(p), NEW q, Continues(p, q), NEW w \in 0 .. Len(q.nodes),
           NEW op, op.before \in Nat, op.after \in Nat,
           NEW mode, NEW value \in Int, NEW overlap \in Nat, Past(q, w) = overlap,
           overlap < FactOf(q, w).pulse, op.before <= FactOf(q, w).delay,
           mode = "edge" => overlap = 0 /\ op.before <= FactOf(q, w).delay % FactOf(q, w).pulse,
           NEW r, r = WiredPad(q, w, op, mode, value, overlap)
    PROVE  /\ Continues(p, r) /\ Len(p.nodes) < Len(r.nodes) /\ NewWire(r) = Len(r.nodes)
           /\ Len(r.nodes) \in 0 .. Len(r.nodes) /\ Past(r, Len(r.nodes)) = overlap
           /\ Len(q.nodes) \in Nat /\ Len(p.nodes) \in Nat
           /\ FactOf(r, Len(r.nodes)).pulse = FactOf(q, w).pulse
           /\ FactOf(r, Len(r.nodes)).delay = FactOf(q, w).delay - op.before
           /\ \A s \in Lengths :
                 FactOf(r, Len(r.nodes)).dim[s] = FactOf(q, w).dim[s] + (op.before + op.after)
           /\ \A s, wires, a :
                 Grown(p, q, s, wires, w, a) /\ IsStream(a, FactOf(q, w).dim[s])
                    => Grown(p, r, s, wires, Len(r.nodes), Padded(a, op.before, op.after, mode, value))
<1> DEFINE in == FactOf(q, w)
           begin == in.delay
           end == Longer(in.dim, in.delay)
           dim == Longer(in.dim, op.before + op.after)
           node == [kind |-> "pad", from |-> <<w>>, mode |-> mode, value |-> value,
                    before |-> op.before, after |-> op.after, overlap |-> overlap,
                    begin |-> begin, end |-> end]
           fact == [pulse |-> in.pulse, delay |-> in.delay - op.before, dim |-> dim]
<1>1. in \in Fact
  BY FactOfWire DEF Continues
<1>2. in.pulse \in Nat \ {0} /\ in.delay \in Nat /\ in.dim \in Dim
  BY <1>1, FactsAre
<1>3. r = Wired(q, node, fact)
  BY DEF WiredPad
<1>4. /\ dim \in Dim /\ \A s \in Lengths : dim[s] = in.dim[s] + (op.before + op.after)
      /\ end = [s \in Lengths |-> in.dim[s] + in.delay]
  <2>1. op.before + op.after \in Int
    OBVIOUS
  <2>2. dim \in Dim /\ \A s \in Lengths : dim[s] = in.dim[s] + (op.before + op.after)
    <3> HIDE DEF in
    <3> QED
      BY <1>2, <2>1, LongerDim
  <2> QED
    BY <2>2 DEF Longer
<1> HIDE DEF end, dim
<1>5. /\ fact \in Fact /\ fact.pulse = in.pulse /\ fact.delay = in.delay - op.before
      /\ fact.dim = dim
  <2>1. fact.pulse = in.pulse /\ fact.delay = in.delay - op.before /\ fact.dim = dim
    OBVIOUS
  <2>2. in.delay - op.before \in Nat
    BY <1>2
  <2> HIDE DEF in
  <2>3. fact \in Fact
    BY <1>2, <1>4, <2>2 DEF Fact, Dim
  <2> HIDE DEF fact
  <2> QED
    BY <2>1, <2>3
<1>6. /\ node.from = <<w>> /\ node.kind = "pad" /\ node.overlap = overlap /\ node.before = op.before
      /\ node.after = op.after /\ node.mode = mode /\ node.value = value /\ node.begin = begin
      /\ node.end = end
  OBVIOUS
<1> HIDE DEF fact, node
<1>7. IsNode(node, overlap, in, fact)
  <2> HIDE DEF in
  <2> QED
    BY <1>4, <1>5, <1>6 DEF IsNode, in
<1>8. /\ Continues(p, r) /\ Len(p.nodes) < Len(r.nodes) /\ NewWire(r) = Len(r.nodes)
      /\ Len(r.nodes) \in 0 .. Len(r.nodes) /\ FactOf(r, Len(r.nodes)) = fact
      /\ Past(r, Len(r.nodes)) = overlap /\ Len(q.nodes) \in Nat /\ Len(p.nodes) \in Nat
      /\ \A s, wires, a, c :
            Grown(p, q, s, wires, w, a) /\ Follows(node, in, fact, s, a, <<>>, c)
               => Grown(p, r, s, wires, Len(r.nodes), c)
  <2>1. IsNode(node, Past(q, w), FactOf(q, w), fact) /\ node.kind # "sum"
    BY <1>6, <1>7
  <2> QED
    BY <1>3, <1>5, <1>6, <2>1, NodeOn
<1> HIDE DEF in
<1>9. ASSUME NEW s, NEW wires, NEW a, Grown(p, q, s, wires, w, a), IsStream(a, in.dim[s])
      PROVE  Grown(p, r, s, wires, Len(r.nodes), Padded(a, op.before, op.after, mode, value))
  <2>1. Follows(node, in, fact, s, a, <<>>, Padded(a, op.before, op.after, mode, value))
    BY <1>6, <1>9 DEF Follows, IsStream
  <2> QED
    BY <1>8, <1>9, <2>1
<1> QED
  BY <1>4, <1>5, <1>8, <1>9 DEF in

LEMMA PadTranslates ==
    ASSUME NEW p, IsPulsed(p), NEW op, op.kind = "pad", Len(op.from) = 1, Takes(p, op, 1),
           op.before \in Nat, op.after \in Nat,
           ~(op.mode = "edge" /\ op.before >= FactOf(p, At(p, op, 1)).pulse)
    PROVE  Translates(p, PulsifiedPad(p, op), op)
<1> DEFINE from == At(p, op, 1)
           in == FactOf(p, from)
           delay == in.delay
           pulse == in.pulse
           before == op.before
           fit == Positive(before - delay)
           offset == (delay + fit) % pulse
           align == IF op.mode = "edge" THEN Positive(before - offset) ELSE 0
           q == DelayedBy(p, from, fit + align)
           w == EndOf(p, from, q)
           r == WiredPad(q, w, op, op.mode, PadValue, 0)
<1>1. in \in Fact /\ from \in 0 .. Len(p.nodes) /\ Past(p, from) = 0
  BY FactOfWire DEF Takes
<1>2. PulsifiedPad(p, op) = r
  BY DEF PulsifiedPad, At
<1>3. pulse \in Nat \ {0} /\ delay \in Nat /\ in.dim \in Dim /\ before \in Nat
      /\ (op.mode = "edge" => before < pulse)
  <2>1. pulse \in Nat \ {0} /\ delay \in Nat /\ in.dim \in Dim /\ before \in Nat
    BY <1>1, FactsAre
  <2>2. op.mode = "edge" => ~(before >= pulse)
    OBVIOUS
  <2> HIDE DEF pulse, before
  <2> QED
    BY <2>1, <2>2
<1> HIDE DEF delay, pulse, before
<1>4. fit \in Nat /\ before <= delay + fit
  BY <1>3 DEF Positive
<1> HIDE DEF fit
<1>5. /\ align \in Nat /\ fit + align \in Nat /\ before <= delay + (fit + align)
      /\ op.mode = "edge" => before <= (delay + (fit + align)) % pulse
  <2>1. CASE op.mode = "edge"
    <3>1. align = Positive(before - ((delay + fit) % pulse))
      BY <2>1
    <3> HIDE DEF align
    <3>2. align \in Nat /\ before <= (delay + (fit + align)) % pulse
      BY <1>3, <1>4, <2>1, <3>1, EdgeFits
    <3> QED
      BY <1>3, <1>4, <3>2
  <2>2. CASE op.mode # "edge"
    <3>1. align = 0
      BY <2>2
    <3> QED
      BY <1>3, <1>4, <2>2, <3>1
  <2> QED
    BY <2>1, <2>2
<1> HIDE DEF align
<1>6. Late(p, q, from, w, fit + align, 0)
  BY <1>1, <1>5, DelayedByIsLate
<1> HIDE DEF q, w
<1>7. /\ Continues(p, q) /\ w \in 0 .. Len(q.nodes) /\ Past(q, w) = 0
      /\ FactOf(q, w).pulse = pulse /\ FactOf(q, w).delay = delay + (fit + align)
      /\ FactOf(q, w).dim = in.dim
  <2>1. FactOf(q, w).pulse = pulse + 0
    BY <1>6 DEF Late, pulse
  <2> QED
    BY <1>3, <1>6, <2>1 DEF Late, delay
<1>8. /\ Continues(p, r) /\ Len(p.nodes) < Len(r.nodes) /\ Past(r, Len(r.nodes)) = 0
      /\ \A s \in Lengths :
            FactOf(r, Len(r.nodes)).dim[s] = FactOf(q, w).dim[s] + (op.before + op.after)
      /\ \A s, wires, a :
            Grown(p, q, s, wires, w, a) /\ IsStream(a, FactOf(q, w).dim[s])
               => Grown(p, r, s, wires, Len(r.nodes), Padded(a, op.before, op.after, op.mode, PadValue))
  <2>1. 0 < FactOf(q, w).pulse /\ op.before <= FactOf(q, w).delay
        /\ (op.mode = "edge" => op.before <= FactOf(q, w).delay % FactOf(q, w).pulse)
        /\ (op.mode = "edge" => 0 = 0 /\ op.before <= FactOf(q, w).delay % FactOf(q, w).pulse)
    BY <1>3, <1>5, <1>7 DEF before
  <2>2. PadValue \in Int /\ 0 \in Nat
    BY DEF PadValue
  <2> QED
    BY <1>7, <2>1, <2>2, PadOn
<1> HIDE DEF r
<1>9. ASSUME NEW s \in Lengths, NEW wires, NEW ins, Means(p, wires, s),
              \A k \in 1 .. Len(op.from) :
                 ins[k] = wires[At(p, op, k)] /\ IsStream(ins[k], FactOf(p, At(p, op, 1)).dim[s])
      PROVE  Grown(p, r, s, wires, Len(r.nodes), Batch(op, ins))
  <2>1. ins[1] = wires[from] /\ IsStream(ins[1], in.dim[s])
    BY <1>9
  <2>2. Grown(p, q, s, wires, w, wires[from])
    BY <1>6, <1>9 DEF Late
  <2>3. Grown(p, q, s, wires, w, ins[1]) /\ IsStream(ins[1], FactOf(q, w).dim[s])
    BY <1>7, <2>1, <2>2, Zenon
  <2>4. Batch(op, ins) = Padded(ins[1], op.before, op.after, op.mode, PadValue)
    BY DEF Batch
  <2> QED
    BY <1>8, <2>3, <2>4
<1>10. \A s \in Lengths : FactOf(r, Len(r.nodes)).dim[s] = Lengthened(op, FactOf(p, At(p, op, 1)).dim[s])
  BY <1>7, <1>8 DEF Lengthened
<1> QED
  BY <1>2, <1>8, <1>9, <1>10 DEF Translates

-----------------------------------------------------------------------------
(* Sums.                                                                     *)

LEMMA SumTranslates ==
    ASSUME NEW p, IsPulsed(p), NEW op, op.kind = "sum", Len(op.from) = 2,
           Takes(p, op, 1), Takes(p, op, 2)
    PROVE  /\ Translates(p, PulsifiedSum(p, op), op)
           /\ SumsAgree(PulsifiedSum(p, op)) =>
                 FactOf(p, At(p, op, 2)).dim = FactOf(p, At(p, op, 1)).dim
<1> DEFINE a == At(p, op, 1)
           b == At(p, op, 2)
           da == FactOf(p, a).delay
           db == FactOf(p, b).delay
           latest == Max({da, db})
           q == DelayedBy(p, a, latest - da)
           r == DelayedBy(q, b, latest - db)
           v == EndOf(p, a, q)
           w == EndOf(q, b, r)
           node == [kind |-> "sum", from |-> <<v, w>>]
           fact == FactOf(r, v)
           t == Wired(r, node, fact)
<1>1. /\ a \in 0 .. Len(p.nodes) /\ Past(p, a) = 0 /\ b \in 0 .. Len(p.nodes) /\ Past(p, b) = 0
      /\ FactOf(p, a) \in Fact /\ FactOf(p, b) \in Fact
  BY FactOfWire DEF Takes
<1>2. PulsifiedSum(p, op) = t
  BY DEF PulsifiedSum, At
<1>3. /\ da \in Nat /\ db \in Nat /\ latest - da \in Nat /\ latest - db \in Nat
      /\ da + (latest - da) = latest /\ db + (latest - db) = latest
  <2>1. da \in Nat /\ db \in Nat
    BY <1>1, FactsAre
  <2> HIDE DEF da, db
  <2>2. latest = IF da >= db THEN da ELSE db
    BY <2>1, GreatestOfTwo
  <2> HIDE DEF latest
  <2> QED
    BY <2>1, <2>2
<1> HIDE DEF latest, a, b
<1>4. Late(p, q, a, v, latest - da, 0)
  BY <1>1, <1>3, DelayedByIsLate
<1> HIDE DEF q, v
<1>5. /\ Continues(p, q) /\ IsPulsed(q) /\ v \in 0 .. Len(q.nodes) /\ Past(q, v) = 0
      /\ FactOf(q, v).delay = latest /\ FactOf(q, v).dim = FactOf(p, a).dim
      /\ b \in 0 .. Len(q.nodes) /\ Past(q, b) = 0 /\ FactOf(q, b) = FactOf(p, b)
      /\ Len(p.nodes) \in Nat /\ Len(q.nodes) \in Nat
  <2>1. Continues(p, q) /\ v \in 0 .. Len(q.nodes) /\ Past(q, v) = 0
        /\ FactOf(q, v).delay = FactOf(p, a).delay + (latest - da) /\ FactOf(q, v).dim = FactOf(p, a).dim
    BY <1>4 DEF Late
  <2>2. Len(p.nodes) \in Nat /\ Len(q.nodes) \in Nat /\ Len(p.nodes) <= Len(q.nodes)
    BY <2>1 DEF Continues
  <2>3. b \in 0 .. Len(q.nodes)
    BY <1>1, <2>2
  <2>4. FactOf(q, v).delay = latest
    BY <1>3, <2>1
  <2>5. Past(q, b) = 0 /\ FactOf(q, b) = FactOf(p, b) /\ IsPulsed(q)
    BY <1>1, <2>1 DEF Continues
  <2> QED
    BY <2>1, <2>2, <2>3, <2>4, <2>5
<1>6. Late(q, r, b, w, latest - db, 0)
  BY <1>3, <1>5, DelayedByIsLate
<1> HIDE DEF r, w
<1>7. /\ Continues(q, r) /\ IsPulsed(r) /\ w \in 0 .. Len(r.nodes) /\ Past(r, w) = 0
      /\ FactOf(r, w).delay = latest
      /\ v \in 0 .. Len(r.nodes) /\ Past(r, v) = 0 /\ FactOf(r, v) = FactOf(q, v)
      /\ Len(r.nodes) \in Nat /\ Len(p.nodes) < Len(r.nodes) + 1
  <2>1. Continues(q, r) /\ w \in 0 .. Len(r.nodes) /\ Past(r, w) = 0
        /\ FactOf(r, w).delay = FactOf(q, b).delay + (latest - db)
    BY <1>6 DEF Late
  <2>2. Len(q.nodes) \in Nat /\ Len(r.nodes) \in Nat /\ Len(q.nodes) <= Len(r.nodes)
        /\ Len(p.nodes) <= Len(q.nodes)
    BY <1>5, <2>1 DEF Continues
  <2>3. v \in 0 .. Len(r.nodes) /\ Len(p.nodes) < Len(r.nodes) + 1
    BY <1>5, <2>2
  <2>4. FactOf(r, w).delay = latest
    BY <1>3, <1>5, <2>1
  <2>5. Past(r, v) = 0 /\ FactOf(r, v) = FactOf(q, v) /\ IsPulsed(r)
    BY <1>5, <2>1 DEF Continues
  <2> QED
    BY <2>1, <2>2, <2>3, <2>4, <2>5
<1>8. fact \in Fact /\ fact.delay = latest /\ fact.dim = FactOf(p, a).dim
  BY <1>5, <1>7, FactOfWire
<1>9. node.from = <<v, w>> /\ node.kind = "sum" /\ node.from[1] = v /\ node.from[2] = w
  OBVIOUS
<1> DEFINE m == Len(r.nodes)
<1> HIDE DEF node, fact
<1>10. Reads(node, m + 1) /\ InStep(r, node, fact)
       /\ IsNode(node, Past(r, node.from[1]), FactOf(r, node.from[1]), fact)
  <2>1. node.from \in Seq({v, w}) /\ Len(node.from) = 2
    BY <1>9
  <2>2. IsFrames(node.from)
    BY <2>1, SequencesAreFrames
  <2>3. \A k \in 1 .. Len(node.from) : node.from[k] \in 0 .. (m + 1) - 1
    <3>1. v \in 0 .. (m + 1) - 1 /\ w \in 0 .. (m + 1) - 1
      BY <1>7
    <3>2. \A k \in 1 .. 2 : k = 1 \/ k = 2
      OBVIOUS
    <3> QED
      BY <1>9, <2>1, <3>1, <3>2
  <2>4. Reads(node, m + 1)
    BY <1>9, <2>1, <2>2, <2>3 DEF Reads
  <2>5. InStep(r, node, fact)
    BY <1>7, <1>8, <1>9 DEF InStep
  <2>6. IsNode(node, 0, fact, fact)
    BY <1>8, <1>9 DEF IsNode
  <2> QED
    BY <1>7, <1>9, <2>4, <2>5, <2>6 DEF fact
<1>11. /\ Continues(r, t) /\ Len(t.nodes) = m + 1 /\ t.nodes[m + 1] = node
       /\ FactOf(t, m + 1) = fact
  BY <1>7, <1>8, <1>10, WiringIsSound
<1> HIDE DEF t
<1>12. Continues(p, t) /\ Len(p.nodes) < Len(t.nodes) /\ FactOf(t, Len(t.nodes)) = fact
       /\ Past(t, Len(t.nodes)) = 0
  <2>1. Continues(p, r)
    BY <1>5, <1>7, ContinuesOn
  <2>2. Continues(p, t)
    BY <1>11, <2>1, ContinuesOn
  <2>3. Past(t, Len(t.nodes)) = 0
    BY <1>7, <1>9, <1>11 DEF Past
  <2> QED
    BY <1>7, <1>11, <2>2, <2>3
<1>13. ASSUME NEW s \in Lengths, NEW wires, NEW ins, Means(p, wires, s),
              \A k \in 1 .. Len(op.from) :
                 ins[k] = wires[At(p, op, k)] /\ IsStream(ins[k], FactOf(p, At(p, op, 1)).dim[s])
       PROVE  Grown(p, t, s, wires, Len(t.nodes), Batch(op, ins))
  <2> DEFINE x == ins[1]
             y == ins[2]
             c == Batch(op, ins)
  <2>1. x = wires[a] /\ y = wires[b] /\ IsStream(x, FactOf(p, a).dim[s])
        /\ IsStream(y, FactOf(p, a).dim[s])
    <3>1. 1 \in 1 .. Len(op.from) /\ 2 \in 1 .. Len(op.from)
      OBVIOUS
    <3> QED
      BY <1>13, <3>1 DEF a, b
  <2>2. c = [i \in 1 .. Len(x) |-> x[i] + y[i]]
    BY DEF Batch
  <2> HIDE DEF c, x, y
  <2>3. Follows(node, fact, fact, s, x, y, c)
    BY <1>8, <1>9, <2>1, <2>2 DEF Follows, IsStream
  <2>4. PICK more : Means(q, more, s) /\ Extends(p, wires, more) /\ more[v] = wires[a]
    BY <1>4, <1>13 DEF Late, Grown
  <2>5. PICK most : Means(r, most, s) /\ Extends(q, more, most) /\ most[w] = more[b]
    BY <1>6, <2>4 DEF Late, Grown
  <2>6. most[v] = x /\ most[w] = y
    <3>1. most[v] = more[v]
      BY <1>5, <2>5 DEF Extends
    <3>2. more[b] = wires[b]
      BY <1>1, <2>4 DEF Extends
    <3> QED
      BY <2>1, <2>4, <2>5, <3>1, <3>2
  <2>7. Grown(r, t, s, most, m + 1, c)
    <3>1. Follows(node, FactOf(r, node.from[1]), fact, s, most[node.from[1]], y, c)
      BY <1>9, <2>3, <2>6, Zenon DEF fact
    <3>2. (node.kind = "sum" => y = most[node.from[2]]) /\ (node.kind # "sum" => y = <<>>)
      BY <1>9, <2>6
    <3> QED
      BY <1>7, <1>10, <1>11, <2>5, <3>1, <3>2, WiringMeans DEF t
  <2>8. PICK all : Means(t, all, s) /\ Extends(r, most, all) /\ all[m + 1] = c
    BY <2>7 DEF Grown
  <2>9. Extends(p, wires, all)
    <3>1. /\ Len(p.nodes) \in Nat /\ Len(q.nodes) \in Nat /\ Len(r.nodes) \in Nat
          /\ Len(p.nodes) <= Len(q.nodes) /\ Len(q.nodes) <= Len(r.nodes)
      BY <1>5, <1>7 DEF Continues
    <3>2. \A k \in 0 .. Len(p.nodes) : k \in 0 .. Len(q.nodes) /\ k \in 0 .. Len(r.nodes)
      BY <3>1
    <3> QED
      BY <2>4, <2>5, <2>8, <3>2 DEF Extends
  <2>10. Grown(p, t, s, wires, m + 1, c)
    BY <2>8, <2>9 DEF Grown
  <2> QED
    BY <1>11, <2>10 DEF c
<1>14. \A s \in Lengths : fact.dim[s] = Lengthened(op, FactOf(p, At(p, op, 1)).dim[s])
  BY <1>8 DEF Lengthened, a
<1>15. ASSUME SumsAgree(t)
       PROVE  FactOf(p, b).dim = FactOf(p, a).dim
  <2>1. m + 1 \in 1 .. Len(t.nodes) /\ t.nodes[m + 1].kind = "sum"
        /\ t.nodes[m + 1].from[1] = v /\ t.nodes[m + 1].from[2] = w
    BY <1>7, <1>9, <1>11
  <2>2. FactOf(t, v).dim = FactOf(t, w).dim
    BY <1>15, <2>1 DEF SumsAgree
  <2>3. FactOf(t, v) = FactOf(r, v) /\ FactOf(t, w) = FactOf(r, w)
    BY <1>7, <1>11 DEF Continues
  <2>4. FactOf(r, w).dim = FactOf(p, b).dim
    BY <1>5, <1>6 DEF Late
  <2> QED
    BY <1>5, <1>7, <2>2, <2>3, <2>4
<1> QED
  BY <1>2, <1>12, <1>13, <1>14, <1>15 DEF Translates, a, b

-----------------------------------------------------------------------------
(* Convolutions and pools.                                                   *)

LEMMA ModOf ==
    ASSUME NEW d \in Nat, NEW n \in Nat \ {0}, NEW e \in 0 .. n - 1
    PROVE  (d * n + e) % n = e /\ (d * n + e) \div n = d
  OBVIOUS

LEMMA MultipleMod ==
    ASSUME NEW d \in Nat, NEW n \in Nat \ {0}
    PROVE  (d * n) % n = 0 /\ (d * n) \div n = d
<1> DEFINE e == 0
<1>1. e \in 0 .. n - 1 /\ d * n + e = d * n
  OBVIOUS
<1>2. e = 0
  OBVIOUS
<1> HIDE DEF e
<1>3. (d * n + e) % n = e /\ (d * n + e) \div n = d
  BY <1>1, ModOf
<1> QED
  BY <1>1, <1>2, <1>3

\* The delay of what a window sees is made a multiple of the stride.
LEMMA Aligned ==
    ASSUME NEW base \in Nat, NEW stride \in Nat \ {0}, NEW extra,
           extra = IF base % stride > 0 THEN stride - (base % stride) ELSE 0
    PROVE  extra \in Nat /\ (base + extra) \div stride \in Nat
           /\ base + extra = ((base + extra) \div stride) * stride
<1> DEFINE d == base \div stride
           r == base % stride
<1>1. d \in Nat /\ r \in 0 .. stride - 1 /\ base = d * stride + r
  OBVIOUS
<1>2. extra = IF r > 0 THEN stride - r ELSE 0
  OBVIOUS
<1> HIDE DEF d, r
<1>3. extra \in Nat /\ base + extra \in Nat
  BY <1>1, <1>2
<1>4. (base + extra) % stride = 0
  <2>1. CASE r > 0
    <3>1. base + extra = d * stride + stride /\ d * stride \in Int
      BY <1>1, <1>2, <2>1
    <3>2. d * stride + stride = (d + 1) * stride
      BY <1>1
    <3>3. ((d + 1) * stride) % stride = 0
      BY <1>1
    <3> QED
      BY <3>1, <3>2, <3>3
  <2>2. CASE ~(r > 0)
    <3>1. base + extra = d * stride
      BY <1>1, <1>2, <2>2
    <3>2. (d * stride) % stride = 0
      BY <1>1, MultipleMod
    <3> QED
      BY <3>1, <3>2
  <2> QED
    BY <2>1, <2>2
<1> DEFINE n == base + extra
<1>5. n \in Nat /\ n % stride = 0
  BY <1>3, <1>4
<1> HIDE DEF n
<1>6. n \div stride \in Nat /\ n = (n \div stride) * stride
  BY <1>5, Multiple
<1> QED
  BY <1>3, <1>6 DEF n

LEMMA KernelLenIs ==
    ASSUME NEW size \in Nat \ {0}, NEW dilation \in Nat \ {0}
    PROVE  KernelLen(size, dilation) \in Nat
<1>1. size - 1 \in Nat /\ dilation \in Nat
  OBVIOUS
<1>2. (size - 1) * dilation \in Nat
  BY <1>1
<1> QED
  BY <1>2 DEF KernelLen

LEMMA SameWindows ==
    ASSUME NEW x, NEW a, NEW b, a.size = b.size, a.stride = b.stride, a.dilation = b.dilation
    PROVE  Convolved(x, a) = Convolved(x, b) /\ Pooled(x, a) = Pooled(x, b)
  BY Zenon DEF Convolved, Pooled

\* A pad of zeroes, or of the least value, on a wire that q has.
PadsOn(p, q, w, op, mode, value, overlap, r) ==
           /\ Continues(p, r) /\ Len(p.nodes) < Len(r.nodes) /\ NewWire(r) = Len(r.nodes)
           /\ Len(r.nodes) \in 0 .. Len(r.nodes) /\ Past(r, Len(r.nodes)) = overlap
           /\ Len(q.nodes) \in Nat /\ Len(p.nodes) \in Nat
           /\ FactOf(r, Len(r.nodes)).pulse = FactOf(q, w).pulse
           /\ FactOf(r, Len(r.nodes)).delay = FactOf(q, w).delay - op.before
           /\ \A s \in Lengths :
                 FactOf(r, Len(r.nodes)).dim[s] = FactOf(q, w).dim[s] + (op.before + op.after)
           /\ \A s, wires, a :
                 Grown(p, q, s, wires, w, a) /\ IsStream(a, FactOf(q, w).dim[s])
                    => Grown(p, r, s, wires, Len(r.nodes), Padded(a, op.before, op.after, mode, value))
LEMMA ZerosOn ==
    ASSUME NEW p, IsPulsed(p), NEW q, Continues(p, q), NEW w \in 0 .. Len(q.nodes),
           NEW op, op.before \in Nat, op.after \in Nat,
           NEW value \in Int, NEW overlap \in Nat, Past(q, w) = overlap,
           overlap < FactOf(q, w).pulse, op.before <= FactOf(q, w).delay,
           NEW r, r = WiredPad(q, w, op, "constant", value, overlap)
    PROVE  PadsOn(p, q, w, op, "constant", value, overlap, r)
<1> DEFINE mode == "constant"
<1>1. mode = "edge" => overlap = 0 /\ op.before <= FactOf(q, w).delay % FactOf(q, w).pulse
  OBVIOUS
<1>2. r = WiredPad(q, w, op, mode, value, overlap)
  OBVIOUS
<1> HIDE DEF mode
<1>3. PadsOn(p, q, w, op, mode, value, overlap, r)
  BY <1>1, <1>2, PadOn DEF PadsOn
<1> QED
  BY <1>3 DEF mode

LEMMA PaddedZeros ==
    ASSUME NEW x \in Seq(Int), x # <<>>, NEW op, op.before \in Nat, op.after \in Nat,
           NEW value \in Int, NEW y, y = Padded(x, op.before, op.after, "constant", value)
    PROVE  y \in Seq(Int) /\ y # <<>> /\ Len(y) = Len(x) + (op.before + op.after)
  BY PaddedIs

\* What a kernel sees: the past of its first window, and padding.
SeenBy(p, from, op, value, overlap, extra, r, w) ==
    /\ Continues(p, r) /\ w \in 0 .. Len(r.nodes) /\ Past(r, w) = overlap
    /\ FactOf(r, w).pulse = FactOf(p, from).pulse + overlap
    /\ FactOf(r, w).delay = (FactOf(p, from).delay + (extra + overlap)) - op.before
    /\ \A s \in Lengths :
          FactOf(r, w).dim[s] = FactOf(p, from).dim[s] + (op.before + op.after)
    /\ \A s, wires, a :
          Means(p, wires, s) /\ a = wires[from] /\ IsStream(a, FactOf(p, from).dim[s]) =>
             Grown(p, r, s, wires, w, Padded(a, op.before, op.after, "constant", value))

LEMMA SeenByAKernel ==
    ASSUME NEW p, IsPulsed(p), NEW from \in 0 .. Len(p.nodes), Past(p, from) = 0,
           NEW op, op.before \in Nat, op.after \in Nat, NEW value \in Int,
           NEW overlap \in Nat, NEW extra \in Nat,
           op.before <= FactOf(p, from).delay + (extra + overlap),
           NEW q, q = (IF overlap > 0 \/ extra > 0 THEN WiredDelay(p, from, extra, overlap) ELSE p),
           NEW r, r = (IF op.before + op.after > 0
                       THEN WiredPad(q, EndOf(p, from, q), op, "constant", value, overlap) ELSE q),
           NEW w, w = EndOf(p, from, r)
    PROVE  SeenBy(p, from, op, value, overlap, extra, r, w)
<1> DEFINE in == FactOf(p, from)
           v == EndOf(p, from, q)
<1>1. in.pulse \in Nat \ {0} /\ in.delay \in Nat /\ in.dim \in Dim
  BY FactOfWire, FactsAre
<1>2. Late(p, q, from, v, extra + overlap, overlap)
  <2>1. CASE overlap > 0 \/ extra > 0
    BY <2>1, WiredDelayIsLate
  <2>2. CASE ~(overlap > 0 \/ extra > 0)
    <3>1. q = p /\ extra + overlap = 0 /\ overlap = 0
      BY <2>2
    <3> QED
      BY <3>1, StaysInTime
  <2> QED
    BY <2>1, <2>2
<1>3. /\ Continues(p, q) /\ v \in 0 .. Len(q.nodes) /\ Past(q, v) = overlap
      /\ FactOf(q, v).pulse = in.pulse + overlap
      /\ FactOf(q, v).delay = in.delay + (extra + overlap) /\ FactOf(q, v).dim = in.dim
      /\ \A s, wires : Means(p, wires, s) => Grown(p, q, s, wires, v, wires[from])
  BY <1>2 DEF Late
<1>4. CASE op.before + op.after > 0
  <2>1. r = WiredPad(q, v, op, "constant", value, overlap)
    BY <1>4
  <2> HIDE DEF v
  <2>2. /\ overlap < FactOf(q, v).pulse /\ op.before <= FactOf(q, v).delay
    BY <1>1, <1>3
  <2>3. /\ Continues(p, r) /\ Len(p.nodes) < Len(r.nodes) /\ NewWire(r) = Len(r.nodes)
        /\ Len(r.nodes) \in 0 .. Len(r.nodes) /\ Past(r, Len(r.nodes)) = overlap
        /\ Len(p.nodes) \in Nat
        /\ FactOf(r, Len(r.nodes)).pulse = FactOf(q, v).pulse
        /\ FactOf(r, Len(r.nodes)).delay = FactOf(q, v).delay - op.before
        /\ \A s \in Lengths :
              FactOf(r, Len(r.nodes)).dim[s] = FactOf(q, v).dim[s] + (op.before + op.after)
        /\ \A s, wires, a :
              Grown(p, q, s, wires, v, a) /\ IsStream(a, FactOf(q, v).dim[s])
                 => Grown(p, r, s, wires, Len(r.nodes), Padded(a, op.before, op.after, "constant", value))
    <3>1. PadsOn(p, q, v, op, "constant", value, overlap, r)
      BY <1>3, <2>1, <2>2, ZerosOn
    <3> QED
      BY <3>1 DEF PadsOn
  <2>4. w = Len(r.nodes)
    BY <2>3 DEF EndOf
  <2>5. ASSUME NEW s, NEW wires, NEW a, Means(p, wires, s), a = wires[from], IsStream(a, in.dim[s])
        PROVE  Grown(p, r, s, wires, w, Padded(a, op.before, op.after, "constant", value))
    <3>1. Grown(p, q, s, wires, v, a) /\ IsStream(a, FactOf(q, v).dim[s])
      BY <1>3, <2>5
    <3> QED
      BY <2>3, <2>4, <3>1
  <2>6. FactOf(r, w).delay = (in.delay + (extra + overlap)) - op.before
    BY <1>3, <2>3, <2>4
  <2> QED
    BY <1>3, <2>3, <2>4, <2>5, <2>6 DEF SeenBy
<1>5. CASE ~(op.before + op.after > 0)
  <2>1. r = q /\ w = v /\ op.before = 0 /\ op.after = 0
    BY <1>5
  <2> HIDE DEF v
  <2>2. ASSUME NEW s, NEW wires, NEW a, Means(p, wires, s), a = wires[from], IsStream(a, in.dim[s])
        PROVE  Grown(p, r, s, wires, w, Padded(a, op.before, op.after, "constant", value))
    <3>1. Padded(a, op.before, op.after, "constant", value) = a
      BY <2>1, <2>2, UnpaddedIs DEF IsStream
    <3> QED
      BY <1>3, <2>1, <2>2, <3>1
  <2>3. FactOf(r, w).delay = (in.delay + (extra + overlap)) - op.before
    BY <1>1, <1>3, <2>1
  <2>4. \A s \in Lengths : FactOf(r, w).dim[s] = in.dim[s] + (op.before + op.after)
    <3>1. \A s \in Lengths : in.dim[s] \in Int
      BY <1>1 DEF Dim
    <3> QED
      BY <1>3, <2>1, <3>1
  <2> QED
    BY <1>3, <2>1, <2>2, <2>3, <2>4 DEF SeenBy
<1> QED
  BY <1>4, <1>5

LEMMA PooledTranslates ==
    ASSUME NEW p, IsPulsed(p), NEW op, op.kind \in {"conv", "pool"}, Len(op.from) = 1,
           Takes(p, op, 1),
           op.size \in Nat \ {0}, op.stride \in Nat \ {0}, op.dilation \in Nat \ {0},
           op.before \in Nat, op.after \in Nat,
           NEW value, value = (IF op.kind = "conv" THEN Silence ELSE Lowest),
           FactOf(p, At(p, op, 1)).pulse % op.stride = 0
    PROVE  Translates(p, PulsifiedPooled(p, op, value), op)
<1> DEFINE from == At(p, op, 1)
           in == FactOf(p, from)
           pulse == in.pulse
           delay == in.delay
           before == op.before
           stride == op.stride
           kernel == KernelLen(op.size, op.dilation)
           overlap == Positive(kernel + 1 - stride)
           late == Positive(before - delay - overlap)
           misaligned == (delay + overlap + late - before) % stride
           extra == late + (IF misaligned > 0 THEN stride - misaligned ELSE 0)
           q == IF overlap > 0 \/ extra > 0 THEN WiredDelay(p, from, extra, overlap) ELSE p
           r == IF op.before + op.after > 0
                THEN WiredPad(q, EndOf(p, from, q), op, "constant", value, overlap) ELSE q
           w == EndOf(p, from, r)
           seen == FactOf(r, w)
           node == [kind |-> op.kind, from |-> <<w>>, size |-> op.size,
                    stride |-> op.stride, dilation |-> op.dilation]
           dim == [s \in Lengths |-> CeilDiv(seen.dim[s] - kernel, op.stride)]
           fact == [pulse |-> WindowCount(seen.pulse, op.size, op.stride, op.dilation),
                    delay |-> seen.delay \div op.stride, dim |-> dim]
           t == Wired(r, node, fact)
<1>1. in \in Fact /\ from \in 0 .. Len(p.nodes) /\ Past(p, from) = 0 /\ pulse % stride = 0
  BY FactOfWire DEF Takes
<1>2. PulsifiedPooled(p, op, value) = t
  BY DEF PulsifiedPooled, At
<1>3. /\ pulse \in Nat \ {0} /\ delay \in Nat /\ in.dim \in Dim /\ before \in Nat
      /\ stride \in Nat \ {0} /\ kernel \in Nat /\ value \in Int
  <2>1. kernel \in Nat
    BY KernelLenIs
  <2>2. value \in Int
    BY DEF Silence, Lowest
  <2> QED
    BY <1>1, <2>1, <2>2, FactsAre
<1>15. pulse \div stride \in Nat \ {0} /\ pulse = (pulse \div stride) * stride
       /\ CeilDiv(pulse + overlap - kernel, stride) = pulse \div stride
  <2> HIDE DEF pulse, stride, kernel
  <2>1. pulse \in Nat
    BY <1>3
  <2>2. pulse \div stride \in Nat \ {0} /\ pulse = (pulse \div stride) * stride
    BY <1>1, <1>3, <2>1, Multiple, StridesOfAPulse
  <2>3. CeilDiv(pulse + Positive(kernel + 1 - stride) - kernel, stride) = pulse \div stride
    BY <1>1, <1>3, <2>1, WindowsOfAPulse
  <2> QED
    BY <2>2, <2>3
<1> HIDE DEF pulse, delay, before, stride, kernel
<1>4. overlap \in Nat /\ late \in Nat /\ (delay + overlap + late) - before \in Nat
  BY <1>3 DEF Positive
<1> HIDE DEF overlap, late
<1> DEFINE base == (delay + overlap + late) - before
           rest == IF base % stride > 0 THEN stride - (base % stride) ELSE 0
<1>5. /\ rest \in Nat /\ (base + rest) \div stride \in Nat
      /\ base + rest = ((base + rest) \div stride) * stride
  <2>1. rest = IF base % stride > 0 THEN stride - (base % stride) ELSE 0
    OBVIOUS
  <2>2. base \in Nat
    BY <1>4
  <2> HIDE DEF base, rest
  <2> QED
    BY <1>3, <2>1, <2>2, Aligned
<1>6. extra = late + rest
  <2>1. delay + overlap + late - before = base
    BY <1>3, <1>4
  <2> HIDE DEF base
  <2>2. misaligned = base % stride
    BY <2>1
  <2> HIDE DEF misaligned
  <2> QED
    BY <2>2
<1> HIDE DEF rest, extra
<1>7. extra \in Nat /\ (delay + (extra + overlap)) - before = base + rest
      /\ before <= delay + (extra + overlap)
  <2>1. base \in Nat /\ base = (delay + overlap + late) - before
    BY <1>4
  <2> HIDE DEF base
  <2> QED
    BY <1>3, <1>4, <1>5, <1>6, <2>1
<1> HIDE DEF base
<1>8. /\ Continues(p, r) /\ w \in 0 .. Len(r.nodes) /\ Past(r, w) = overlap
      /\ seen.pulse = pulse + overlap /\ seen.delay = base + rest
      /\ \A s \in Lengths : seen.dim[s] = in.dim[s] + (op.before + op.after)
      /\ \A s, wires, a :
            Means(p, wires, s) /\ a = wires[from] /\ IsStream(a, in.dim[s]) =>
               Grown(p, r, s, wires, w, Padded(a, op.before, op.after, "constant", value))
  <2>1. op.before <= FactOf(p, from).delay + (extra + overlap)
    BY <1>7 DEF before, delay
  <2>3. /\ q = (IF overlap > 0 \/ extra > 0 THEN WiredDelay(p, from, extra, overlap) ELSE p)
        /\ r = (IF op.before + op.after > 0
                THEN WiredPad(q, EndOf(p, from, q), op, "constant", value, overlap) ELSE q)
    OBVIOUS
  <2> HIDE DEF from, q, r
  <2> DEFINE w1 == EndOf(p, from, r)
  <2>4. w1 = EndOf(p, from, r)
    OBVIOUS
  <2> HIDE DEF w1
  <2>2. SeenBy(p, from, op, value, overlap, extra, r, w1)
    BY <1>1, <1>3, <1>4, <1>7, <2>1, <2>3, <2>4, SeenByAKernel
  <2> QED
    BY <1>7, <2>2 DEF pulse, delay, before, w1, SeenBy
<1> HIDE DEF r, w, seen
<1> DEFINE k == pulse \div stride
           d == (base + rest) \div stride
<1>9. /\ WindowCount(seen.pulse, op.size, op.stride, op.dilation) = k
      /\ seen.delay \div op.stride = d /\ k \in Nat \ {0} /\ d \in Nat
      /\ seen.pulse - overlap = k * stride /\ seen.delay = d * stride
  <2>1. WindowCount(seen.pulse, op.size, op.stride, op.dilation)
           = Positive(CeilDiv(pulse + overlap - kernel, stride))
    <3>1. seen.pulse - kernel = pulse + overlap - kernel
      BY <1>3, <1>4, <1>8
    <3>2. WindowCount(seen.pulse, op.size, op.stride, op.dilation)
             = Positive(CeilDiv(seen.pulse - kernel, stride))
      BY DEF WindowCount, kernel, stride
    <3> QED
      BY <3>1, <3>2, Zenon
  <2>2. WindowCount(seen.pulse, op.size, op.stride, op.dilation) = k /\ k \in Nat \ {0}
    <3>1. CeilDiv(pulse + overlap - kernel, stride) = k /\ k \in Nat \ {0}
      BY <1>15
    <3> HIDE DEF k
    <3> QED
      BY <2>1, <3>1 DEF Positive
  <2>3. seen.delay \div op.stride = d /\ d \in Nat /\ seen.delay = d * stride
    <3>1. seen.delay \div op.stride = d
      BY <1>8 DEF stride
    <3>2. d \in Nat /\ base + rest = d * stride
      BY <1>5
    <3> HIDE DEF d
    <3> QED
      BY <1>8, <3>1, <3>2
  <2>4. seen.pulse - overlap = k * stride
    <3>1. pulse = k * stride
      BY <1>15
    <3>2. seen.pulse - overlap = pulse
      BY <1>3, <1>4, <1>8
    <3> QED
      BY <3>1, <3>2
  <2> QED
    BY <2>2, <2>3, <2>4
<1> HIDE DEF k, d
<1>10. /\ dim \in Dim
       /\ \A s \in Lengths : dim[s] = Lengthened(op, in.dim[s])
  <2>1. \A s \in Lengths : seen.dim[s] \in Int
    BY <1>3, <1>8 DEF Dim
  <2>2. \A s \in Lengths : seen.dim[s] - kernel \in Int
    BY <1>3, <2>1
  <2>3. \A s \in Lengths : CeilDiv(seen.dim[s] - kernel, op.stride) \in Int
    BY <1>3, <2>2, CeilDivIs
  <2>4. \A s \in Lengths : dim[s] = Lengthened(op, in.dim[s])
    <3>1. \A s \in Lengths : in.dim[s] \in Int
      BY <1>3 DEF Dim
    <3> DEFINE pad == op.before + op.after
    <3>5. pad \in Int /\ \A s \in Lengths : seen.dim[s] = in.dim[s] + pad
      BY <1>8
    <3> HIDE DEF pad
    <3>6. \A s \in Lengths : in.dim[s] + pad - kernel = seen.dim[s] - kernel
      BY <1>3, <3>1, <3>5
    <3>2. \A s \in Lengths : in.dim[s] + (op.before + op.after) - kernel = seen.dim[s] - kernel
      BY <3>6 DEF pad
    <3>3. \A n : Lengthened(op, n) = CeilDiv(n + (op.before + op.after) - kernel, op.stride)
      BY DEF Lengthened, kernel
    <3>4. \A s \in Lengths : dim[s] = CeilDiv(seen.dim[s] - kernel, op.stride)
      OBVIOUS
    <3> HIDE DEF dim
    <3> QED
      BY <3>2, <3>3, <3>4
  <2> QED
    BY <2>3, <2>4 DEF Dim
<1> HIDE DEF dim
<1>11. fact \in Fact /\ fact.pulse = k /\ fact.delay = d /\ fact.dim = dim
  <2>1. fact = [pulse |-> k, delay |-> d, dim |-> dim]
    BY <1>9
  <2> HIDE DEF fact
  <2> QED
    BY <1>9, <1>10, <2>1 DEF Fact, Dim
<1>12. /\ node.from = <<w>> /\ node.kind = op.kind /\ node.size = op.size /\ node.stride = op.stride
       /\ node.dilation = op.dilation
  OBVIOUS
<1> HIDE DEF fact, node
<1>13. IsNode(node, overlap, seen, fact)
  <2>1. fact.pulse = WindowCount(seen.pulse, node.size, node.stride, node.dilation)
    BY <1>9, <1>11, <1>12
  <2>2. seen.pulse - overlap = fact.pulse * node.stride /\ seen.delay = fact.delay * node.stride
    BY <1>9, <1>11, <1>12 DEF stride
  <2> QED
    BY <1>12, <2>1, <2>2 DEF IsNode
<1>14. /\ Continues(p, t) /\ Len(p.nodes) < Len(t.nodes) /\ FactOf(t, Len(t.nodes)) = fact
       /\ Past(t, Len(t.nodes)) = 0
       /\ \A s, wires, a, c :
             Grown(p, r, s, wires, w, a) /\ Follows(node, seen, fact, s, a, <<>>, c)
                => Grown(p, t, s, wires, Len(t.nodes), c)
  <2>1. IsNode(node, Past(r, w), FactOf(r, w), fact) /\ node.kind # "sum"
        /\ node.kind \notin {"delay", "pad"}
    BY <1>8, <1>12, <1>13 DEF seen
  <2>2. /\ Continues(p, t) /\ Len(p.nodes) < Len(t.nodes) /\ FactOf(t, Len(t.nodes)) = fact
        /\ Past(t, Len(t.nodes)) = IF node.kind \in {"delay", "pad"} THEN node.overlap ELSE 0
    BY <1>8, <1>11, <1>12, <2>1, NodeOn
  <2>3. \A s, wires, a, c :
             Grown(p, r, s, wires, w, a) /\ Follows(node, FactOf(r, w), fact, s, a, <<>>, c)
                => Grown(p, t, s, wires, Len(t.nodes), c)
    BY <1>8, <1>11, <1>12, <2>1, NodeOn
  <2> QED
    BY <2>1, <2>2, <2>3 DEF seen
<1> HIDE DEF t
<1>16. ASSUME NEW s \in Lengths, NEW wires, NEW ins, Means(p, wires, s),
              \A j \in 1 .. Len(op.from) :
                 ins[j] = wires[At(p, op, j)] /\ IsStream(ins[j], FactOf(p, At(p, op, 1)).dim[s])
       PROVE  Grown(p, t, s, wires, Len(t.nodes), Batch(op, ins))
  <2> DEFINE a == ins[1]
             y == Padded(a, op.before, op.after, "constant", value)
             c == Batch(op, ins)
  <2>1. a = wires[from] /\ IsStream(a, in.dim[s])
    BY <1>16
  <2>2. Grown(p, r, s, wires, w, y)
    BY <1>8, <1>16, <2>1
  <2>3. y \in Seq(Int) /\ y # <<>> /\ Len(y) = seen.dim[s]
    <3>1. a \in Seq(Int) /\ a # <<>> /\ Len(a) = in.dim[s]
      BY <2>1 DEF IsStream
    <3> HIDE DEF a
    <3>2. y \in Seq(Int) /\ y # <<>> /\ Len(y) = Len(a) + (op.before + op.after)
      <4>1. y = Padded(a, op.before, op.after, "constant", value)
        OBVIOUS
      <4> HIDE DEF y
      <4> QED
        BY <1>3, <3>1, <4>1, PaddedZeros
    <3> HIDE DEF y
    <3> QED
      BY <1>8, <3>1, <3>2
  <2>4. c = IF op.kind = "conv" THEN Convolved(y, op) ELSE Pooled(y, op)
    BY DEF Batch
  <2>5. Convolved(y, op) = Convolved(y, node) /\ Pooled(y, op) = Pooled(y, node)
    BY <1>12, SameWindows
  <2> HIDE DEF y, c
  <2>6. Follows(node, seen, fact, s, y, <<>>, c)
    BY <1>12, <2>3, <2>4, <2>5 DEF Follows
  <2> QED
    BY <1>14, <2>2, <2>6 DEF c
<1> QED
  BY <1>2, <1>10, <1>11, <1>14, <1>16 DEF Translates

-----------------------------------------------------------------------------
(* Deconvolutions.                                                           *)

\* What is left of a stream without its ends.
LEMMA CroppedIs ==
    ASSUME NEW full \in Seq(Int), NEW before \in Nat, NEW after \in Nat,
           NEW c, c = SubSeq(full, before + 1, Len(full) - after)
    PROVE  \A i \in DOMAIN c : i \in Int /\ i + before \in DOMAIN full /\ c[i] = full[i + before]
<1> SUFFICES ASSUME NEW i \in DOMAIN c
             PROVE  i \in Int /\ i + before \in DOMAIN full /\ c[i] = full[i + before]
  OBVIOUS
<1>1. c = [j \in 1 .. ((Len(full) - after) - (before + 1)) + 1 |-> full[(j + (before + 1)) - 1]]
  OBVIOUS
<1>2. i \in 1 .. ((Len(full) - after) - (before + 1)) + 1
  BY <1>1
<1>3. i \in Int /\ i + before \in 1 .. Len(full) /\ (i + (before + 1)) - 1 = i + before
  BY <1>2
<1> QED
  BY <1>1, <1>2, <1>3

LEMMA DeconvTranslates ==
    ASSUME NEW p, IsPulsed(p), NEW op, op.kind = "deconv", Len(op.from) = 1, Takes(p, op, 1),
           op.size \in Nat \ {0}, op.stride \in Nat \ {0}, op.before \in Nat, op.after \in Nat
    PROVE  Translates(p, PulsifiedDeconv(p, op), op)
<1> DEFINE from == At(p, op, 1)
           fact == FactOf(p, from)
           overlap == op.size - 1
           mask == [kind |-> "mask", from |-> <<from>>,
                    begin |-> fact.delay, end |-> Longer(fact.dim, fact.delay)]
           q == Wired(p, mask, fact)
           spread == [s \in Lengths |-> (fact.dim[s] - 1) * op.stride + op.size
                                            - op.before - op.after]
           node == [kind |-> "deconv", from |-> <<NewWire(q)>>, size |-> op.size, stride |-> op.stride]
           fact2 == [pulse |-> fact.pulse * op.stride + overlap, delay |-> fact.delay, dim |-> spread]
           r == Wired(q, node, fact2)
           first == [s \in Lengths |-> (fact.dim[s] - 1) * op.stride + 1]
           last == [kind |-> "deconvdelay", from |-> <<NewWire(r)>>, overlap |-> overlap,
                    delay |-> op.before + fact.delay, stride |-> op.stride, inputDim |-> first]
           fact3 == [pulse |-> fact.pulse * op.stride, delay |-> op.before + fact.delay, dim |-> spread]
           t == Wired(r, last, fact3)
<1>1. fact \in Fact /\ from \in 0 .. Len(p.nodes) /\ Past(p, from) = 0
  BY FactOfWire DEF Takes
<1>2. PulsifiedDeconv(p, op) = t
  BY DEF PulsifiedDeconv, At
<1>3. /\ fact.pulse \in Nat \ {0} /\ fact.delay \in Nat /\ fact.dim \in Dim
      /\ overlap \in Nat /\ op.stride \in Nat \ {0} /\ op.before + fact.delay \in Nat
  BY <1>1, FactsAre
<1> DEFINE pulse == fact.pulse
           stride == op.stride
           much == pulse * stride
<1>4. much \in Nat \ {0}
  <2>1. pulse \in Nat \ {0} /\ stride \in Nat \ {0}
    BY <1>3
  <2> HIDE DEF pulse, stride
  <2> QED
    BY <2>1
<1> HIDE DEF much
<1>5. spread \in Dim /\ first \in Dim
  <2>1. ASSUME NEW s \in Lengths
        PROVE  /\ (fact.dim[s] - 1) * op.stride + op.size - op.before - op.after \in Int
               /\ (fact.dim[s] - 1) * op.stride + 1 \in Int
    <3>1. fact.dim[s] \in Int
      BY <1>3 DEF Dim
    <3> DEFINE d == fact.dim[s]
               e == (d - 1) * op.stride
    <3>2. e \in Int
      BY <1>3, <3>1
    <3> HIDE DEF e
    <3>3. e + op.size - op.before - op.after \in Int /\ e + 1 \in Int
      <4> DEFINE z == op.size
                 b == op.before
                 a == op.after
      <4>1. z \in Int /\ b \in Int /\ a \in Int
        OBVIOUS
      <4> HIDE DEF z, b, a
      <4>2. e + z - b - a \in Int /\ e + 1 \in Int
        BY <3>2, <4>1
      <4> QED
        BY <4>2 DEF z, b, a
    <3> QED
      BY <3>3 DEF e
  <2> QED
    BY <2>1 DEF Dim
<1>6. \A s \in Lengths : spread[s] = Lengthened(op, fact.dim[s])
  BY DEF Lengthened
<1> HIDE DEF spread, first
<1>7. /\ fact2 \in Fact /\ fact2.pulse = much + overlap /\ fact2.delay = fact.delay
      /\ fact2.dim = spread
  <2>1. fact2 = [pulse |-> much + overlap, delay |-> fact.delay, dim |-> spread]
    BY DEF much
  <2>2. much + overlap \in Nat \ {0}
    BY <1>3, <1>4
  <2> HIDE DEF fact2
  <2>3. fact2 \in Fact
    BY <1>3, <1>5, <2>1, <2>2 DEF Fact, Dim
  <2> QED
    BY <2>1, <2>3
<1>8. /\ fact3 \in Fact /\ fact3.pulse = much /\ fact3.dim = spread /\ fact3.delay = op.before + fact.delay
  <2>1. fact3 = [pulse |-> much, delay |-> op.before + fact.delay, dim |-> spread]
    BY DEF much
  <2> HIDE DEF fact3
  <2>3. fact3 \in Fact
    BY <1>3, <1>4, <1>5, <2>1 DEF Fact, Dim
  <2> QED
    BY <2>1, <2>3
<1> HIDE DEF fact, fact2, fact3
<1>9. /\ mask.from = <<from>> /\ mask.kind = "mask" /\ IsNode(mask, 0, fact, fact)
  <2>1. mask.end = [s \in Lengths |-> fact.dim[s] + fact.delay]
    BY DEF Longer
  <2>2. mask.from = <<from>> /\ mask.kind = "mask" /\ mask.begin = fact.delay
    OBVIOUS
  <2> HIDE DEF mask
  <2> QED
    BY <2>1, <2>2 DEF IsNode
<1> HIDE DEF mask
<1>10. /\ Continues(p, q) /\ NewWire(q) = Len(q.nodes) /\ Len(q.nodes) \in 0 .. Len(q.nodes)
       /\ FactOf(q, Len(q.nodes)) = fact /\ Past(q, Len(q.nodes)) = 0
       /\ \A s, wires, a, c :
             Grown(p, p, s, wires, from, a) /\ Follows(mask, fact, fact, s, a, <<>>, c)
                => Grown(p, q, s, wires, Len(q.nodes), c)
  <2>1. IsNode(mask, Past(p, from), FactOf(p, from), fact) /\ mask.kind # "sum"
        /\ mask.kind \notin {"delay", "pad"} /\ Continues(p, p) /\ FactOf(p, from) = fact
    BY <1>1, <1>9, WireCount DEF fact
  <2>2. /\ Continues(p, q) /\ NewWire(q) = Len(q.nodes) /\ Len(q.nodes) \in 0 .. Len(q.nodes)
        /\ FactOf(q, Len(q.nodes)) = fact
        /\ Past(q, Len(q.nodes)) = IF mask.kind \in {"delay", "pad"} THEN mask.overlap ELSE 0
    BY <1>1, <1>9, <2>1, NodeOn
  <2>3. \A s, wires, a, c :
             Grown(p, p, s, wires, from, a) /\ Follows(mask, FactOf(p, from), fact, s, a, <<>>, c)
                => Grown(p, q, s, wires, Len(q.nodes), c)
    BY <1>1, <1>9, <2>1, NodeOn
  <2> QED
    BY <2>1, <2>2, <2>3
<1> HIDE DEF q
<1> DEFINE v == Len(q.nodes)
<1>11. /\ node.from = <<v>> /\ node.kind = "deconv" /\ IsNode(node, 0, fact, fact2)
       /\ node.size = op.size /\ node.stride = op.stride
  <2>1. node.from = <<v>> /\ node.kind = "deconv" /\ node.size = op.size /\ node.stride = op.stride
    BY <1>10
  <2>2. fact2.pulse = (fact.pulse * op.stride + op.size) - 1
    <3>1. fact2.pulse = much + overlap /\ much \in Int
      BY <1>4, <1>7
    <3>2. fact2.pulse = (much + op.size) - 1
      BY <3>1
    <3> QED
      BY <3>2 DEF much
  <2> HIDE DEF node
  <2> QED
    BY <1>7, <2>1, <2>2 DEF IsNode
<1> HIDE DEF node
<1>12. /\ Continues(p, r) /\ NewWire(r) = Len(r.nodes) /\ Len(r.nodes) \in 0 .. Len(r.nodes)
       /\ FactOf(r, Len(r.nodes)) = fact2 /\ Past(r, Len(r.nodes)) = 0
       /\ \A s, wires, a, c :
             Grown(p, q, s, wires, v, a) /\ Follows(node, fact, fact2, s, a, <<>>, c)
                => Grown(p, r, s, wires, Len(r.nodes), c)
  <2>1. IsNode(node, Past(q, v), FactOf(q, v), fact2) /\ node.kind # "sum"
        /\ node.kind \notin {"delay", "pad"}
    BY <1>10, <1>11
  <2>2. /\ Continues(p, r) /\ NewWire(r) = Len(r.nodes) /\ Len(r.nodes) \in 0 .. Len(r.nodes)
        /\ FactOf(r, Len(r.nodes)) = fact2
        /\ Past(r, Len(r.nodes)) = IF node.kind \in {"delay", "pad"} THEN node.overlap ELSE 0
    BY <1>7, <1>10, <1>11, <2>1, NodeOn, SMTT(60)
  <2>3. \A s, wires, a, c :
             Grown(p, q, s, wires, v, a) /\ Follows(node, FactOf(q, v), fact2, s, a, <<>>, c)
                => Grown(p, r, s, wires, Len(r.nodes), c)
    BY <1>7, <1>10, <1>11, <2>1, NodeOn, SMTT(60)
  <2> QED
    BY <1>10, <2>1, <2>2, <2>3
<1> HIDE DEF r
<1> DEFINE w == Len(r.nodes)
<1>13. /\ last.from = <<w>> /\ last.kind = "deconvdelay" /\ IsNode(last, 0, fact2, fact3)
       /\ last.overlap = overlap /\ last.stride = op.stride /\ last.inputDim = first
  <2>1. /\ last.from = <<w>> /\ last.kind = "deconvdelay" /\ last.overlap = overlap
        /\ last.inputDim = first /\ last.delay = op.before + fact.delay /\ last.stride = op.stride
    BY <1>12
  <2>2. last.delay \in Nat /\ last.overlap \in Nat /\ last.inputDim \in Dim
        /\ fact2.pulse = fact3.pulse + last.overlap /\ fact3.delay = last.delay
        /\ last.stride \in Nat \ {0}
    <3> HIDE DEF last, overlap
    <3> QED
      BY <1>3, <1>5, <1>7, <1>8, <2>1
  <2>3. fact3.delay >= fact2.delay
    <3>1. fact2.delay = fact.delay /\ fact3.delay = op.before + fact.delay /\ fact.delay \in Nat
          /\ op.before \in Nat
      BY <1>3, <1>7, <1>8
    <3> QED
      BY <3>1
  <2> HIDE DEF last
  <2> QED
    BY <2>1, <2>2, <2>3 DEF IsNode
<1> HIDE DEF last
<1>14. /\ Continues(p, t) /\ Len(p.nodes) < Len(t.nodes)
       /\ FactOf(t, Len(t.nodes)) = fact3 /\ Past(t, Len(t.nodes)) = 0
       /\ \A s, wires, a, c :
             Grown(p, r, s, wires, w, a) /\ Follows(last, fact2, fact3, s, a, <<>>, c)
                => Grown(p, t, s, wires, Len(t.nodes), c)
  <2>1. IsNode(last, Past(r, w), FactOf(r, w), fact3) /\ last.kind # "sum"
        /\ last.kind \notin {"delay", "pad"}
    BY <1>12, <1>13
  <2>2. /\ Continues(p, t) /\ Len(p.nodes) < Len(t.nodes)
        /\ FactOf(t, Len(t.nodes)) = fact3
        /\ Past(t, Len(t.nodes)) = IF last.kind \in {"delay", "pad"} THEN last.overlap ELSE 0
    BY <1>8, <1>12, <1>13, <2>1, NodeOn
  <2>3. \A s, wires, a, c :
             Grown(p, r, s, wires, w, a) /\ Follows(last, FactOf(r, w), fact3, s, a, <<>>, c)
                => Grown(p, t, s, wires, Len(t.nodes), c)
    BY <1>8, <1>12, <1>13, <2>1, NodeOn
  <2> QED
    BY <1>12, <2>1, <2>2, <2>3
<1> HIDE DEF t
<1>15. ASSUME NEW s \in Lengths, NEW wires, NEW ins, Means(p, wires, s),
              ins[1] = wires[from], IsStream(ins[1], fact.dim[s])
       PROVE  Grown(p, t, s, wires, Len(t.nodes), Batch(op, ins))
  <2> DEFINE x == ins[1]
             a == InSilence(x, fact.delay)
             b == Chopped(a, op.size, op.stride, fact.pulse, fact.delay)
             full == Deconvolved(x, op, 0)
             c == SubSeq(full, op.before + 1, Len(full) - op.after)
  <2>1. x \in Seq(Int) /\ x # <<>> /\ Len(x) = fact.dim[s]
    BY <1>15 DEF IsStream
  <2>2. Batch(op, ins) = c
    BY DEF Batch
  <2>3. Grown(p, q, s, wires, Len(q.nodes), a)
    <3>1. Grown(p, p, s, wires, from, x)
      BY <1>15 DEF Grown, Extends
    <3>2. Follows(mask, fact, fact, s, x, <<>>, a)
      BY <1>9, <2>1 DEF Follows
    <3> QED
      BY <1>10, <3>1, <3>2
  <2>4. Grown(p, r, s, wires, Len(r.nodes), b)
    <3>1. DOMAIN a = {j \in Int : j + fact.delay >= 1}
      BY DEF InSilence
    <3>2. Follows(node, fact, fact2, s, a, <<>>, b)
      <4> HIDE DEF a
      <4> QED
        BY <1>11, <3>1 DEF Follows
    <3> QED
      BY <1>12, <2>3, <3>2
  <2>5. Overlaid(last, fact2, s, b, x, fact.pulse)
    <3>1. fact2.pulse = fact.pulse * last.stride + last.overlap
      BY <1>7, <1>13 DEF much
    <3>2. last.inputDim[s] = (Len(x) - 1) * last.stride + 1
      BY <1>13, <2>1 DEF first
    <3>3. last.overlap + 1 = op.size
      <4>1. overlap + 1 = op.size
        OBVIOUS
      <4> QED
        BY <1>13, <4>1
    <3>4. b = Chopped(InSilence(x, fact2.delay), last.overlap + 1, last.stride, fact.pulse, fact2.delay)
      <4> HIDE DEF x
      <4> QED
        BY <1>7, <1>13, <3>3
    <3> HIDE DEF b, x
    <3> QED
      BY <1>3, <2>1, <3>1, <3>2, <3>4 DEF Overlaid
  <2>6. SpreadTo(last, fact2, fact3, x, c)
    <3>1. Deconvolved(x, Kernel(last.overlap + 1, last.stride), 0) = full
      <4>1. Kernel(last.overlap + 1, last.stride).size = op.size
        <5>1. overlap + 1 = op.size
          OBVIOUS
        <5> QED
          BY <1>13, <5>1 DEF Kernel
      <4>2. Kernel(last.overlap + 1, last.stride).stride = op.stride
        BY <1>13 DEF Kernel
      <4> QED
        BY <4>1, <4>2, Zenon DEF Deconvolved
    <3>2. full \in Seq(Int)
      <4>1. Len(x) \in Nat /\ x \in [1 .. Len(x) -> Int] /\ Len(x) # 0
        BY <2>1, SequenceIsListed
      <4> DEFINE k == Len(x)
                 n == (k - 1) * op.stride + op.size + 0
      <4>2. full \in [1 .. n -> Int]
        <5> HIDE DEF x
        <5> QED
          BY <4>1, DeconvolvedFrames
      <4>3. n \in Nat
        <5>1. k - 1 \in Nat /\ op.stride \in Nat
          BY <4>1
        <5> HIDE DEF k
        <5>2. (k - 1) * op.stride \in Nat
          BY <5>1
        <5> QED
          BY <5>2
      <4> HIDE DEF n, full
      <4> QED
        BY <4>2, <4>3, ListedIsASequence
    <3> HIDE DEF full
    <3>3. \A i \in DOMAIN c : i \in Int /\ i + op.before \in DOMAIN full /\ c[i] = full[i + op.before]
      <4> DEFINE before == op.before
                 after == op.after
      <4>1. before \in Nat /\ after \in Nat /\ c = SubSeq(full, before + 1, Len(full) - after)
        OBVIOUS
      <4> HIDE DEF before, after, c
      <4>2. \A i \in DOMAIN c : i \in Int /\ i + before \in DOMAIN full /\ c[i] = full[i + before]
        BY <3>2, <4>1, CroppedIs
      <4> QED
        BY <4>2 DEF before
    <3>4. fact3.delay - fact2.delay = op.before
      BY <1>3, <1>7, <1>8
    <3> HIDE DEF c, x
    <3> QED
      BY <3>1, <3>3, <3>4 DEF SpreadTo
  <2>7. Follows(last, fact2, fact3, s, b, <<>>, c)
    <3> HIDE DEF b, c, x
    <3> QED
      BY <1>13, <2>5, <2>6, <1>3, Zenon DEF Follows
  <2> QED
    BY <1>14, <2>2, <2>4, <2>7
<1>16. \A s \in Lengths : fact3.dim[s] = Lengthened(op, FactOf(p, At(p, op, 1)).dim[s])
  BY <1>6, <1>8 DEF fact
<1> QED
  BY <1>2, <1>14, <1>15, <1>16 DEF Translates, fact

-----------------------------------------------------------------------------
(* A node of the source is translated, then another.                         *)

IsOp(op) ==
    /\ op \in SourceOp
    /\ Len(op.from) = IF op.kind = "sum" THEN 2 ELSE 1

LEMMA OpsAre ==
    ASSUME NEW op \in SourceOp
    PROVE  /\ op.kind \in {"pad", "conv", "pool", "downsample", "slice", "concat", "cumsum", "scan",
                          "sum", "deconv"}
           /\ op.from \in Seq(Nat)
           /\ op.kind = "pad" =>
                 op.before \in Nat /\ op.after \in Nat /\ op.mode \in {"constant", "edge"}
           /\ op.kind \in {"conv", "pool"} =>
                 /\ op.size \in Nat \ {0} /\ op.stride \in Nat \ {0} /\ op.dilation \in Nat \ {0}
                 /\ op.before \in Nat /\ op.after \in Nat
           /\ op.kind = "downsample" => op.stride \in Nat \ {0} /\ op.modulo \in Nat
           /\ op.kind = "slice" => op.start \in Nat /\ op.drop \in Nat
           /\ op.kind = "concat" => op.pre \in Seq(Int) /\ op.post \in Seq(Int)
           /\ op.kind = "deconv" =>
                 /\ op.size \in Nat \ {0} /\ op.stride \in Nat \ {0}
                 /\ op.before \in Nat /\ op.after \in Nat
  BY DEF SourceOp

LEMMA RefusedIs ==
    ASSUME NEW p, IsPulsed(p)
    PROVE  Refused(p).ok = FALSE
  BY DEF Refused, IsPulsed

\* Every operator is, or is refused.
LEMMA PulsifiedTranslates ==
    ASSUME NEW p, IsPulsed(p), NEW op, IsOp(op), \A k \in 1 .. Len(op.from) : Takes(p, op, k)
    PROVE  /\ Pulsified(p, op) = Refused(p) \/ Translates(p, Pulsified(p, op), op)
           /\ op.kind = "sum" /\ SumsAgree(Pulsified(p, op)) =>
                 FactOf(p, At(p, op, 2)).dim = FactOf(p, At(p, op, 1)).dim
<1>1. op \in SourceOp /\ Takes(p, op, 1) /\ (op.kind = "sum" => Takes(p, op, 2))
      /\ Len(op.from) = IF op.kind = "sum" THEN 2 ELSE 1
  BY DEF IsOp
<1>2. CASE op.kind = "pad"
  <2>1. Pulsified(p, op) = PulsifiedPad(p, op)
    BY <1>2 DEF Pulsified
  <2>2. op.mode = "edge" /\ op.before >= FactOf(p, At(p, op, 1)).pulse => PulsifiedPad(p, op) = Refused(p)
    BY DEF PulsifiedPad, At
  <2> QED
    BY <1>1, <1>2, <2>1, <2>2, OpsAre, PadTranslates
<1>3. CASE op.kind \in {"conv", "pool"}
  <2> DEFINE value == IF op.kind = "conv" THEN Silence ELSE Lowest
  <2>1. Pulsified(p, op) = PulsifiedPooled(p, op, value)
    BY <1>3 DEF Pulsified, PulsifiedConv, PulsifiedMaxPool
  <2>2. FactOf(p, At(p, op, 1)).pulse % op.stride # 0 => PulsifiedPooled(p, op, value) = Refused(p)
    BY DEF PulsifiedPooled, At
  <2>3. value = IF op.kind = "conv" THEN Silence ELSE Lowest
    OBVIOUS
  <2> HIDE DEF value
  <2>4. /\ op.size \in Nat \ {0} /\ op.stride \in Nat \ {0} /\ op.dilation \in Nat \ {0}
        /\ op.before \in Nat /\ op.after \in Nat /\ Len(op.from) = 1
    BY <1>1, <1>3, OpsAre
  <2> QED
    BY <1>1, <1>3, <2>1, <2>2, <2>3, <2>4, PooledTranslates
<1>4. CASE op.kind = "slice"
  <2>1. Pulsified(p, op) = PulsifiedSlice(p, op)
    BY <1>4 DEF Pulsified
  <2> QED
    BY <1>1, <1>4, <2>1, OpsAre, SliceTranslates
<1>5. CASE op.kind = "downsample"
  <2>1. Pulsified(p, op) = PulsifiedDownsample(p, op)
    BY <1>5 DEF Pulsified
  <2>2. FactOf(p, At(p, op, 1)).pulse % op.stride # 0 => PulsifiedDownsample(p, op) = Refused(p)
    BY DEF PulsifiedDownsample, At
  <2> QED
    BY <1>1, <1>5, <2>1, <2>2, OpsAre, DownsampleTranslates
<1>6. CASE op.kind = "cumsum"
  <2>1. Pulsified(p, op) = PulsifiedCumSum(p, op)
    BY <1>6 DEF Pulsified
  <2> QED
    BY <1>1, <1>6, <2>1, CumSumTranslates
<1>7. CASE op.kind = "scan"
  <2>1. Pulsified(p, op) = PulsifiedScan(p, op)
    BY <1>7 DEF Pulsified
  <2> QED
    BY <1>1, <1>7, <2>1, ScanTranslates
<1>8. CASE op.kind = "concat"
  <2>1. Pulsified(p, op) = PulsifiedConcat(p, op)
    BY <1>8 DEF Pulsified
  <2> QED
    BY <1>1, <1>8, <2>1, OpsAre, ConcatTranslates
<1>9. CASE op.kind = "deconv"
  <2>1. Pulsified(p, op) = PulsifiedDeconv(p, op)
    BY <1>9 DEF Pulsified
  <2> QED
    BY <1>1, <1>9, <2>1, OpsAre, DeconvTranslates
<1>10. CASE op.kind = "sum"
  <2>1. Pulsified(p, op) = PulsifiedSum(p, op)
    BY <1>10 DEF Pulsified
  <2> QED
    BY <1>1, <1>10, <2>1, SumTranslates
<1> QED
  BY <1>1, <1>2, <1>3, <1>4, <1>5, <1>6, <1>7, <1>8, <1>9, <1>10, OpsAre

-----------------------------------------------------------------------------
(* A model is pulsified node by node.                                        *)

\* Induction on the numbers up to n.
LEMMA UpTo ==
    ASSUME NEW n \in Nat, NEW Good, 0 \in Good, \A k \in 0 .. n - 1 : k \in Good => k + 1 \in Good
    PROVE  \A k \in 0 .. n : k \in Good
<1> DEFINE Bad == {k \in 0 .. n : k \notin Good}
<1> SUFFICES ASSUME Bad # {} PROVE FALSE
  OBVIOUS
<1>1. Bad \in SUBSET Nat
  OBVIOUS
<1>2. PICK k \in Bad : \A j \in Bad : k <= j
  <2> HIDE DEF Bad
  <2> QED
    BY <1>1, LeastElement
<1>3. k \in 0 .. n /\ k \notin Good /\ k # 0
  OBVIOUS
<1>4. k - 1 \in 0 .. n - 1 /\ k - 1 \notin Bad
  <2> HIDE DEF Bad
  <2> QED
    BY <1>2, <1>3
<1>5. k - 1 \in Good /\ (k - 1) + 1 = k
  BY <1>3, <1>4
<1> QED
  BY <1>3, <1>4, <1>5

MadeUpTo(graph, pulse, n, f) ==
    f = [k \in 0 .. n |-> IF k = 0 THEN Started(pulse) ELSE TranslateNode(f[k - 1], graph[k])]

LEMMA MadeExist ==
    ASSUME NEW graph, NEW pulse, NEW n \in Nat
    PROVE  \E f : MadeUpTo(graph, pulse, n, f)
<1> DEFINE Good == {m \in 0 .. n : \E f : MadeUpTo(graph, pulse, m, f)}
<1>1. 0 \in Good
  <2>1. MadeUpTo(graph, pulse, 0, [k \in 0 .. 0 |-> Started(pulse)])
    BY DEF MadeUpTo
  <2> QED
    BY <2>1
<1>2. ASSUME NEW m \in 0 .. n - 1, m \in Good PROVE m + 1 \in Good
  <2>1. PICK f : MadeUpTo(graph, pulse, m, f)
    BY <1>2
  <2> DEFINE g == [k \in 0 .. m + 1 |->
                      IF k = m + 1 THEN TranslateNode(f[m], graph[m + 1]) ELSE f[k]]
  <2>2. \A k \in 0 .. m + 1 :
            g[k] = IF k = 0 THEN Started(pulse) ELSE TranslateNode(g[k - 1], graph[k])
    <3> TAKE k \in 0 .. m + 1
    <3>1. f = [i \in 0 .. m |-> IF i = 0 THEN Started(pulse) ELSE TranslateNode(f[i - 1], graph[i])]
      BY <2>1 DEF MadeUpTo
    <3>2. CASE k = m + 1
      <4>1. m \in 0 .. m + 1 /\ m # m + 1 /\ k # 0 /\ k - 1 = m
        BY <3>2
      <4> QED
        BY <3>2, <4>1
    <3>3. CASE k # m + 1
      <4>1. k \in 0 .. m /\ g[k] = f[k]
        BY <3>3
      <4>2. k # 0 => k - 1 \in 0 .. m + 1 /\ k - 1 # m + 1
        BY <4>1
      <4> QED
        BY <3>1, <4>1, <4>2
    <3> QED
      BY <3>2, <3>3
  <2>3. MadeUpTo(graph, pulse, m + 1, g)
    BY <2>2 DEF MadeUpTo
  <2> QED
    BY <2>3
<1>3. \A k \in 0 .. n : k \in Good
  <2> HIDE DEF Good
  <2> QED
    BY <1>1, <1>2, UpTo
<1> QED
  BY <1>3

\* What was made of the first k nodes.
LEMMA MadeIs ==
    ASSUME NEW graph, NEW pulse, Len(graph) \in Nat
    PROVE  \E made :
              /\ made[0] = Started(pulse)
              /\ \A k \in 1 .. Len(graph) : made[k] = TranslateNode(made[k - 1], graph[k])
              /\ PulsedModel(graph, pulse) = made[Len(graph)]
<1> DEFINE n == Len(graph)
           made == CHOOSE f : MadeUpTo(graph, pulse, n, f)
<1>1. MadeUpTo(graph, pulse, n, made)
  BY MadeExist
<1>2. PulsedModel(graph, pulse) = made[n]
  BY DEF PulsedModel, MadeUpTo
<1> HIDE DEF made
<1>3. /\ made[0] = Started(pulse)
      /\ \A k \in 1 .. n : made[k] = TranslateNode(made[k - 1], graph[k])
  BY <1>1 DEF MadeUpTo
<1> QED
  BY <1>2, <1>3

WiresUpTo(graph, input, n, f) ==
    f = [k \in 0 .. n |-> IF k = 0 THEN <<input>> ELSE Run(f[k - 1], graph[k])]

LEMMA WiresExist ==
    ASSUME NEW graph, NEW input, NEW n \in Nat
    PROVE  \E f : WiresUpTo(graph, input, n, f)
<1> DEFINE Good == {m \in 0 .. n : \E f : WiresUpTo(graph, input, m, f)}
<1>1. 0 \in Good
  <2>1. WiresUpTo(graph, input, 0, [k \in 0 .. 0 |-> <<input>>])
    BY DEF WiresUpTo
  <2> QED
    BY <2>1
<1>2. ASSUME NEW m \in 0 .. n - 1, m \in Good PROVE m + 1 \in Good
  <2>1. PICK f : WiresUpTo(graph, input, m, f)
    BY <1>2
  <2> DEFINE g == [k \in 0 .. m + 1 |-> IF k = m + 1 THEN Run(f[m], graph[m + 1]) ELSE f[k]]
  <2>2. \A k \in 0 .. m + 1 : g[k] = IF k = 0 THEN <<input>> ELSE Run(g[k - 1], graph[k])
    <3> TAKE k \in 0 .. m + 1
    <3>1. f = [i \in 0 .. m |-> IF i = 0 THEN <<input>> ELSE Run(f[i - 1], graph[i])]
      BY <2>1 DEF WiresUpTo
    <3>2. CASE k = m + 1
      <4>1. m \in 0 .. m + 1 /\ m # m + 1 /\ k # 0 /\ k - 1 = m
        BY <3>2
      <4> QED
        BY <3>2, <4>1
    <3>3. CASE k # m + 1
      <4>1. k \in 0 .. m /\ g[k] = f[k]
        BY <3>3
      <4>2. k # 0 => k - 1 \in 0 .. m + 1 /\ k - 1 # m + 1
        BY <4>1
      <4> QED
        BY <3>1, <4>1, <4>2
    <3> QED
      BY <3>2, <3>3
  <2>3. WiresUpTo(graph, input, m + 1, g)
    BY <2>2 DEF WiresUpTo
  <2> QED
    BY <2>3
<1>3. \A k \in 0 .. n : k \in Good
  <2> HIDE DEF Good
  <2> QED
    BY <1>1, <1>2, UpTo
<1> QED
  BY <1>3

\* The wires of the first k nodes, run in batch.
LEMMA WiresAre ==
    ASSUME NEW graph, NEW input, Len(graph) \in Nat
    PROVE  \E wires :
              /\ wires[0] = <<input>>
              /\ \A k \in 1 .. Len(graph) : wires[k] = Run(wires[k - 1], graph[k])
              /\ Wires(graph, input) = wires[Len(graph)]
<1> DEFINE n == Len(graph)
           wires == CHOOSE f : WiresUpTo(graph, input, n, f)
<1>1. WiresUpTo(graph, input, n, wires)
  BY WiresExist
<1>2. Wires(graph, input) = wires[n]
  BY DEF Wires, WiresUpTo
<1> HIDE DEF wires
<1>3. /\ wires[0] = <<input>>
      /\ \A k \in 1 .. n : wires[k] = Run(wires[k - 1], graph[k])
  BY <1>1 DEF WiresUpTo
<1> QED
  BY <1>2, <1>3

-----------------------------------------------------------------------------
(* Every pulsed model is wired soundly.                                      *)

\* p is what the first n nodes of a source model have become.
Sound(p, n, pulse) ==
    /\ IsPulsed(p) /\ Len(p.at) = n + 1 /\ p.at[n + 1] = Len(p.nodes)
    /\ \A k \in 1 .. n + 1 : p.at[k] \in 0 .. Len(p.nodes) /\ Past(p, p.at[k]) = 0
    /\ FactOf(p, 0) = [pulse |-> pulse, delay |-> 0, dim |-> [s \in Lengths |-> s]]

LEMMA StartIsSound ==
    ASSUME NEW pulse \in Nat \ {0}
    PROVE  Sound(Started(pulse), 0, pulse) /\ Len(Started(pulse).nodes) = 0
<1> DEFINE p == Started(pulse)
           fact == [pulse |-> pulse, delay |-> 0, dim |-> [s \in Lengths |-> s]]
<1>1. fact \in Fact
  <2>1. [s \in Lengths |-> s] \in [Lengths -> Int]
    BY MaxLenAssumption DEF Lengths
  <2> QED
    BY <2>1 DEF Fact
<1>2. p = [nodes |-> <<>>, at |-> <<0>>, ok |-> TRUE, facts |-> <<fact>>]
  BY DEF Started
<1> HIDE DEF p, fact
<1>3. /\ p = [nodes |-> p.nodes, at |-> p.at, ok |-> p.ok, facts |-> p.facts]
      /\ p.nodes = <<>> /\ p.at = <<0>> /\ p.facts = <<fact>>
  BY <1>2
<1>4. IsFrames(p.nodes) /\ Len(p.nodes) = 0
  BY <1>3, NoFrames
<1>5. /\ p.at \in Seq({0}) /\ Len(p.at) = 1 /\ p.at[1] = 0
      /\ p.facts \in Seq({fact}) /\ Len(p.facts) = 1 /\ p.facts[1] = fact
  BY <1>3
<1>6. IsFrames(p.at) /\ IsFrames(p.facts)
  BY <1>5, SequencesAreFrames
<1>7. FactOf(p, 0) = fact /\ \A w \in 0 .. 0 : w = 0
  BY <1>5 DEF FactOf
<1>8. IsPulsed(p)
  BY <1>1, <1>3, <1>4, <1>5, <1>6, <1>7 DEF IsPulsed
<1>9. Past(p, 0) = 0 /\ \A k \in 1 .. 0 + 1 : k = 1
  BY DEF Past
<1>10. Sound(p, 0, pulse)
  BY <1>4, <1>5, <1>7, <1>8, <1>9 DEF Sound, fact
<1> QED
  BY <1>4, <1>10 DEF p

\* Where the nodes of the source are does not change what is wired.
LEMMA SameWires ==
    ASSUME NEW q, NEW r, IsPulsed(q), r.nodes = q.nodes, r.facts = q.facts, IsFrames(r.at),
           r = [nodes |-> r.nodes, at |-> r.at, ok |-> r.ok, facts |-> r.facts]
    PROVE  /\ IsPulsed(r)
           /\ \A w : FactOf(r, w) = FactOf(q, w) /\ Past(r, w) = Past(q, w)
           /\ \A wires, s : Means(r, wires, s) = Means(q, wires, s)
           /\ SumsAgree(r) = SumsAgree(q)
<1>1. \A w : FactOf(r, w) = FactOf(q, w)
  BY DEF FactOf
<1>2. \A w : Past(r, w) = Past(q, w)
  BY DEF Past
<1>3. \A wires, s : Means(r, wires, s) = Means(q, wires, s)
  BY <1>1 DEF Means
<1>4. SumsAgree(r) = SumsAgree(q)
  BY <1>1 DEF SumsAgree
<1>5. \A n \in 1 .. Len(q.nodes) :
          InStep(r, q.nodes[n], FactOf(q, n)) = InStep(q, q.nodes[n], FactOf(q, n))
  BY <1>1, <1>2 DEF InStep
<1>6. IsPulsed(r)
  BY <1>1, <1>2, <1>5 DEF IsPulsed
<1> QED
  BY <1>1, <1>2, <1>3, <1>4, <1>6

LEMMA RecordOf ==
    ASSUME NEW nodes, NEW at, NEW ok, NEW facts,
           NEW p, p = [nodes |-> nodes, at |-> at, ok |-> ok, facts |-> facts]
    PROVE  /\ p.nodes = nodes /\ p.at = at /\ p.facts = facts
           /\ p = [nodes |-> p.nodes, at |-> p.at, ok |-> p.ok, facts |-> p.facts]
  OBVIOUS

\* Translating a node keeps it so.
LEMMA TranslatingIsSound ==
    ASSUME NEW n \in Nat, NEW pulse, NEW p, Sound(p, n, pulse), NEW op, IsOp(op),
           \A k \in 1 .. Len(op.from) : op.from[k] < n + 1,
           NEW r, r = TranslateNode(p, op), p.ok, r.ok
    PROVE  /\ Sound(r, n + 1, pulse)
           /\ Translates(p, Pulsified(p, op), op)
           /\ r.nodes = Pulsified(p, op).nodes /\ r.facts = Pulsified(p, op).facts
           /\ r.at = Append(p.at, Len(r.nodes))
<1> DEFINE q == Pulsified(p, op)
<1>1. r = [q EXCEPT !.at = Append(q.at, Len(q.nodes))]
  BY DEF TranslateNode, NewWire
<1>2. IsPulsed(p) /\ Len(p.at) = n + 1
  BY DEF Sound
<1>3. ASSUME NEW k \in 1 .. Len(op.from) PROVE Takes(p, op, k)
  <2>1. op.from \in Seq(Nat)
    BY OpsAre DEF IsOp
  <2>2. op.from[k] + 1 \in 1 .. n + 1
    BY <2>1
  <2> QED
    BY <2>2 DEF Sound, Takes, At
<1>4. q = Refused(p) \/ Translates(p, q, op)
  BY <1>2, <1>3, PulsifiedTranslates
<1> HIDE DEF q
<1>5. q # Refused(p)
  <2> SUFFICES ASSUME q = Refused(p) PROVE FALSE
    OBVIOUS
  <2>1. p = [nodes |-> p.nodes, at |-> p.at, ok |-> p.ok, facts |-> p.facts]
    BY <1>2 DEF IsPulsed
  <2>2. q = [nodes |-> p.nodes, at |-> p.at, ok |-> FALSE, facts |-> p.facts]
    BY <2>1 DEF Refused
  <2>3. r = [nodes |-> p.nodes, at |-> Append(q.at, Len(q.nodes)), ok |-> FALSE, facts |-> p.facts]
    BY <1>1, <2>2
  <2> QED
    BY <2>3
<1>6. Translates(p, q, op)
  BY <1>4, <1>5
<1>7. /\ Continues(p, q) /\ Len(p.nodes) < Len(q.nodes) /\ Past(q, Len(q.nodes)) = 0
      /\ IsPulsed(q) /\ q.at = p.at /\ Len(p.nodes) \in Nat /\ Len(q.nodes) \in Nat
  BY <1>6 DEF Translates, Continues
<1>8. /\ r.nodes = q.nodes /\ r.facts = q.facts /\ r.at = Append(p.at, Len(q.nodes))
      /\ r = [nodes |-> r.nodes, at |-> r.at, ok |-> r.ok, facts |-> r.facts]
  <2>1. q = [nodes |-> q.nodes, at |-> q.at, ok |-> q.ok, facts |-> q.facts]
    BY <1>7 DEF IsPulsed
  <2>2. r = [nodes |-> q.nodes, at |-> Append(p.at, Len(q.nodes)), ok |-> q.ok, facts |-> q.facts]
    BY <1>1, <1>7, <2>1
  <2> DEFINE nodes == q.nodes
             at == Append(p.at, Len(q.nodes))
             ok == q.ok
             facts == q.facts
  <2>3. r = [nodes |-> nodes, at |-> at, ok |-> ok, facts |-> facts]
    BY <2>2
  <2> HIDE DEF nodes, at, ok, facts
  <2>4. /\ r.nodes = nodes /\ r.at = at /\ r.facts = facts
        /\ r = [nodes |-> r.nodes, at |-> r.at, ok |-> r.ok, facts |-> r.facts]
    BY <2>3, RecordOf
  <2> QED
    BY <2>4 DEF nodes, at, facts
<1>9. /\ IsFrames(r.at) /\ Len(r.at) = n + 2 /\ \A k \in 1 .. n + 1 : r.at[k] = p.at[k]
      /\ r.at[n + 2] = Len(q.nodes)
  <2>1. IsFrames(p.at)
    BY <1>2 DEF IsPulsed
  <2>2. /\ IsFrames(r.at) /\ Len(r.at) = Len(p.at) + 1 /\ \A k \in 1 .. Len(p.at) : r.at[k] = p.at[k]
        /\ r.at[Len(p.at) + 1] = Len(q.nodes)
    BY <1>8, <2>1, AppendedAreFrames
  <2> QED
    BY <1>2, <2>2
<1>10. IsPulsed(r) /\ \A w : FactOf(r, w) = FactOf(q, w) /\ Past(r, w) = Past(q, w)
  <2>1. \A w : FactOf(r, w) = FactOf(q, w) /\ Past(r, w) = Past(q, w)
    BY <1>8 DEF FactOf, Past
  <2>2. IsPulsed(r)
    BY <1>7, <1>8, <1>9, SameWires
  <2> QED
    BY <2>1, <2>2
<1>11. ASSUME NEW k \in 1 .. n + 2
       PROVE  r.at[k] \in 0 .. Len(r.nodes) /\ Past(r, r.at[k]) = 0
  <2>1. CASE k = n + 2
    BY <1>7, <1>8, <1>9, <1>10, <2>1
  <2>2. CASE k # n + 2
    <3>1. k \in 1 .. n + 1
      BY <2>2
    <3>2. r.at[k] = p.at[k] /\ p.at[k] \in 0 .. Len(p.nodes) /\ Past(p, p.at[k]) = 0
      BY <1>9, <3>1 DEF Sound
    <3>3. Past(q, p.at[k]) = 0
      BY <1>7, <3>2 DEF Continues
    <3> QED
      BY <1>7, <1>8, <1>10, <3>2, <3>3
  <2> QED
    BY <2>1, <2>2
<1>12. FactOf(r, 0) = FactOf(p, 0)
  <2>1. 0 \in 0 .. Len(p.nodes)
    BY <1>7
  <2> QED
    BY <1>7, <1>10, <2>1 DEF Continues
<1>13. Sound(r, n + 1, pulse)
  <2>1. (n + 1) + 1 = n + 2
    OBVIOUS
  <2> QED
    BY <1>8, <1>9, <1>10, <1>11, <1>12, <2>1 DEF Sound
<1> QED
  BY <1>6, <1>8, <1>13 DEF q

-----------------------------------------------------------------------------
(* What the wires of a pulsed model stand for is what the source model says  *)
(* of the whole stream, and the lengths are the ones that were declared.     *)

LEMMA ListedToANumber ==
    ASSUME NEW n \in Int, NEW x \in [1 .. n -> Int]
    PROVE  x \in Seq(Int) /\ Len(x) = Positive(n)
<1>1. x = [i \in 1 .. n |-> x[i]] /\ DOMAIN x = 1 .. n
  OBVIOUS
<1>2. IsFrames(x) /\ Len(x) = IF n > 0 THEN n ELSE 0
  BY <1>1, ListedAreFrames
<1>3. x \in Seq(Int)
  BY <1>1, <1>2, FramesAreASequence
<1> QED
  BY <1>2, <1>3 DEF Positive

LEMMA PartToANumber ==
    ASSUME NEW n \in Int, NEW x \in [1 .. n -> Int], NEW a \in Nat, NEW b \in Nat
    PROVE  /\ SubSeq(x, a + 1, Len(x) - b) \in Seq(Int)
           /\ Len(SubSeq(x, a + 1, Len(x) - b)) = Positive(n + -(a + b))
<1> DEFINE m == Len(x)
<1>1. x \in Seq(Int) /\ m = Positive(n) /\ m \in Nat
  <2>1. x \in Seq(Int) /\ m = Positive(n)
    BY ListedToANumber
  <2> HIDE DEF m
  <2> QED
    BY <2>1 DEF Positive
<1>2. \A i \in a + 1 .. m - b : x[i] \in Int
  BY <1>1
<1> HIDE DEF m
<1>3. /\ SubSeq(x, a + 1, m - b) \in Seq(Int)
      /\ Len(SubSeq(x, a + 1, m - b)) = IF a + 1 <= m - b THEN (m - b) - (a + 1) + 1 ELSE 0
  <2> DEFINE c == a + 1
             d == m - b
  <2>1. c \in Int /\ d \in Int /\ \A i \in c .. d : x[i] \in Int
    BY <1>1, <1>2
  <2> HIDE DEF c, d
  <2>2. SubSeq(x, c, d) \in Seq(Int) /\ Len(SubSeq(x, c, d)) = IF c <= d THEN d - c + 1 ELSE 0
    BY <2>1, SubSeqProperties
  <2> QED
    BY <2>2 DEF c, d
<1>4. (IF a + 1 <= m - b THEN (m - b) - (a + 1) + 1 ELSE 0) = Positive(n + -(a + b))
  BY <1>1 DEF Positive
<1>5. /\ SubSeq(x, a + 1, m - b) \in Seq(Int)
      /\ Len(SubSeq(x, a + 1, m - b)) = Positive(n + -(a + b))
  BY <1>3, <1>4
<1> QED
  BY <1>5 DEF m

LEMMA TwoParts ==
    ASSUME NEW u \in Seq(Int), NEW v \in Seq(Int)
    PROVE  u \o v \in Seq(Int) /\ Len(u \o v) = Len(u) + Len(v)
  OBVIOUS

LEMMA ThreeParts ==
    ASSUME NEW u \in Seq(Int), NEW v \in Seq(Int), NEW w \in Seq(Int)
    PROVE  /\ u \o v \o w \in Seq(Int) /\ Len(v) + (Len(u) + Len(w)) \in Nat
           /\ Len(u \o v \o w) = Len(v) + (Len(u) + Len(w))
<1>1. Len(u) \in Nat /\ Len(v) \in Nat /\ Len(w) \in Nat
  OBVIOUS
<1>2. u \o v \in Seq(Int) /\ Len(u \o v) = Len(u) + Len(v)
  OBVIOUS
<1> DEFINE y == u \o v
<1>3. y \in Seq(Int) /\ Len(y) = Len(u) + Len(v)
  BY <1>2
<1> HIDE DEF y
<1>4. y \o w \in Seq(Int) /\ Len(y \o w) = Len(y) + Len(w)
  BY <1>3, TwoParts
<1>5. /\ y \o w \in Seq(Int) /\ Len(v) + (Len(u) + Len(w)) \in Nat
      /\ Len(y \o w) = Len(v) + (Len(u) + Len(w))
  BY <1>1, <1>3, <1>4
<1> QED
  BY <1>5 DEF y

\* A part of a stream, under the names that an operator gives its bounds.
LEMMA SlicedIs ==
    ASSUME NEW op, op.start \in Nat, op.drop \in Nat,
           NEW n \in Int, NEW x \in [1 .. n -> Int]
    PROVE  /\ SubSeq(x, op.start + 1, Len(x) - op.drop) \in Seq(Int)
           /\ n + -(op.start + op.drop) \in Int
           /\ Len(SubSeq(x, op.start + 1, Len(x) - op.drop))
                 = Positive(n + -(op.start + op.drop))
<1> DEFINE a == op.start
           b == op.drop
<1>1. a \in Nat /\ b \in Nat
  OBVIOUS
<1> HIDE DEF a, b
<1>2. /\ SubSeq(x, a + 1, Len(x) - b) \in Seq(Int)
      /\ Len(SubSeq(x, a + 1, Len(x) - b)) = Positive(n + -(a + b))
  BY <1>1, PartToANumber
<1>3. n + -(a + b) \in Int
  BY <1>1
<1> QED
  BY <1>2, <1>3 DEF a, b

\* How many frames an operator makes of a stream.
LEMMA BatchIs ==
    ASSUME NEW op, IsOp(op), NEW ins, NEW n \in Nat \ {0},
           \A k \in 1 .. Len(op.from) : IsStream(ins[k], n)
    PROVE  /\ Batch(op, ins) \in Seq(Int) /\ Lengthened(op, n) \in Int
           /\ Len(Batch(op, ins)) = Positive(Lengthened(op, n))
<1> DEFINE x == ins[1]
<1>1. op \in SourceOp /\ x \in Seq(Int) /\ x # <<>> /\ Len(x) = n /\ x \in [1 .. n -> Int]
  <2>1. 1 \in 1 .. Len(op.from) /\ op \in SourceOp
    BY DEF IsOp
  <2>2. IsStream(x, n)
    BY <2>1
  <2> QED
    BY <2>1, <2>2, SequenceIsListed DEF IsStream
<1> HIDE DEF x
<1>2. CASE op.kind = "pad"
  <2>1. Batch(op, ins) = Padded(x, op.before, op.after, op.mode, PadValue)
    BY <1>2 DEF Batch, x
  <2>2. op.before \in Nat /\ op.after \in Nat /\ PadValue \in Int
    BY <1>1, <1>2, OpsAre DEF PadValue
  <2> DEFINE before == op.before
             after == op.after
             y == Padded(x, before, after, op.mode, PadValue)
  <2>3. Batch(op, ins) \in Seq(Int) /\ Len(Batch(op, ins)) = n + (op.before + op.after)
    <3>1. Batch(op, ins) = y /\ before \in Nat /\ after \in Nat /\ x \in Seq(Int) /\ x # <<>>
      BY <1>1, <2>1, <2>2
    <3> HIDE DEF before, after
    <3>2. y \in Seq(Int) /\ Len(y) = Len(x) + (before + after)
      BY <2>2, <3>1, PaddedIs
    <3> HIDE DEF y
    <3> QED
      BY <1>1, <3>1, <3>2 DEF before, after
  <2>4. Lengthened(op, n) = n + (op.before + op.after)
    BY <1>2 DEF Lengthened
  <2> QED
    BY <2>2, <2>3, <2>4 DEF Positive
<1>3. CASE op.kind \in {"conv", "pool"}
  <2> DEFINE value == IF op.kind = "conv" THEN Silence ELSE Lowest
             y == Padded(x, op.before, op.after, "constant", value)
             m == n + (op.before + op.after)
             kernel == KernelLen(op.size, op.dilation)
             c == CeilDiv(m - kernel, op.stride)
  <2>1. Batch(op, ins) = IF op.kind = "conv" THEN Convolved(y, op) ELSE Pooled(y, op)
    BY <1>3 DEF Batch, x
  <2>2. /\ op.size \in Nat \ {0} /\ op.stride \in Nat \ {0} /\ op.dilation \in Nat \ {0}
        /\ op.before \in Nat /\ op.after \in Nat
    BY <1>1, <1>3, OpsAre
  <2>3. m \in Nat /\ y \in [1 .. m -> Int]
    <3>1. value \in Int
      BY DEF Silence, Lowest
    <3> HIDE DEF value
    <3>2. y \in Seq(Int) /\ Len(y) = m
      <4> DEFINE before == op.before
                 after == op.after
      <4>1. before \in Nat /\ after \in Nat
        BY <2>2
      <4> HIDE DEF before, after
      <4>2. /\ Padded(x, before, after, "constant", value) \in Seq(Int)
            /\ Len(Padded(x, before, after, "constant", value)) = n + (before + after)
        BY <1>1, <3>1, <4>1, PaddedIs
      <4> QED
        BY <4>2 DEF before, after
    <3> HIDE DEF y
    <3>3. m \in Nat
      BY <2>2
    <3> QED
      BY <3>2, <3>3, SequenceIsListed
  <2>8. KernelLen(op.size, op.dilation) \in Int
    <3>1. KernelLen(op.size, op.dilation) = (op.size - 1) * op.dilation
      BY DEF KernelLen
    <3> DEFINE z == op.size
             d == op.dilation
    <3>2. z \in Int /\ d \in Int
      BY <2>2
    <3> HIDE DEF z, d
    <3>3. (z - 1) * d \in Int
      BY <3>2
    <3> QED
      BY <3>1, <3>3 DEF z, d
  <2>4. c \in Int /\ WindowCount(m, op.size, op.stride, op.dilation) = Positive(c)
    <3>2. m - kernel \in Int
      BY <2>3, <2>8
    <3> HIDE DEF m, kernel
    <3>3. c \in Int
      BY <2>2, <3>2, CeilDivIs
    <3> QED
      BY <3>3 DEF WindowCount, kernel
  <2> HIDE DEF y, c
  <2>5. Batch(op, ins) \in [1 .. Positive(c) -> Int]
    <3> HIDE DEF m
    <3> QED
      BY <2>1, <2>2, <2>3, <2>4, ConvolvedFrames
  <2>6. Lengthened(op, n) = c
    <3>1. Lengthened(op, n)
            = CeilDiv(n + (op.before + op.after) - KernelLen(op.size, op.dilation), op.stride)
      BY <1>3 DEF Lengthened
    <3> DEFINE a == op.before + op.after
               b == KernelLen(op.size, op.dilation)
    <3>2. a \in Int /\ b \in Int
      BY <2>2, <2>8
    <3>3. Lengthened(op, n) = CeilDiv(n + a - b, op.stride)
      BY <3>1
    <3>4. c = CeilDiv((n + a) - b, op.stride)
      BY DEF c
    <3> HIDE DEF a, b
    <3>5. n + a - b = (n + a) - b
      BY <3>2
    <3> QED
      BY <3>3, <3>4, <3>5
  <2>7. Positive(c) \in Nat
    BY <2>4 DEF Positive
  <2> QED
    BY <2>4, <2>5, <2>6, <2>7, ListedIsASequence
<1>4. CASE op.kind = "downsample"
  <2> DEFINE c == CeilDiv(n - op.modulo, op.stride)
  <2>1. Batch(op, ins) = Sampled(x, op.stride, op.modulo)
    BY <1>4 DEF Batch, x
  <2>2. op.stride \in Nat \ {0} /\ op.modulo \in Nat
    BY <1>1, <1>4, OpsAre
  <2>3. c \in Int
    <3>1. n - op.modulo \in Int
      BY <2>2
    <3> QED
      BY <2>2, <3>1, CeilDivIs
  <2>4. Positive(c) \in Nat /\ Batch(op, ins) \in [1 .. Positive(c) -> Int]
    <3> DEFINE stride == op.stride
               modulo == op.modulo
    <3>1. stride \in Nat \ {0} /\ modulo \in Nat
      BY <2>2
    <3> HIDE DEF stride, modulo
    <3>2. /\ Positive(CeilDiv(n - modulo, stride)) \in Nat
          /\ Sampled(x, stride, modulo) \in [1 .. Positive(CeilDiv(n - modulo, stride)) -> Int]
      BY <1>1, <3>1, SampledFrames
    <3> QED
      BY <2>1, <3>2 DEF stride, modulo
  <2>5. Lengthened(op, n) = c
    BY <1>4 DEF Lengthened
  <2> HIDE DEF c
  <2> QED
    BY <2>3, <2>4, <2>5, ListedIsASequence
<1>5. CASE op.kind = "slice"
  <2>1. Batch(op, ins) = SubSeq(x, op.start + 1, Len(x) - op.drop)
    BY <1>5 DEF Batch, x
  <2>2. op.start \in Nat /\ op.drop \in Nat
    BY <1>1, <1>5, OpsAre
  <2>3. Lengthened(op, n) = n + -(op.start + op.drop)
    BY <1>5 DEF Lengthened
  <2>4. x \in [1 .. n -> Int] /\ n \in Int
    BY <1>1
  <2>5. /\ SubSeq(x, op.start + 1, Len(x) - op.drop) \in Seq(Int)
        /\ n + -(op.start + op.drop) \in Int
        /\ Len(SubSeq(x, op.start + 1, Len(x) - op.drop)) = Positive(n + -(op.start + op.drop))
    BY <2>2, <2>4, SlicedIs
  <2> QED
    BY <2>1, <2>3, <2>5
<1>6. CASE op.kind = "concat"
  <2>1. Batch(op, ins) = op.pre \o x \o op.post
    BY <1>6 DEF Batch, x
  <2>2. op.pre \in Seq(Int) /\ op.post \in Seq(Int)
    BY <1>1, <1>6, OpsAre
  <2>3. Lengthened(op, n) = n + (Len(op.pre) + Len(op.post))
    BY <1>6 DEF Lengthened
  <2>4. /\ op.pre \o x \o op.post \in Seq(Int)
        /\ n + (Len(op.pre) + Len(op.post)) \in Nat
        /\ Len(op.pre \o x \o op.post) = n + (Len(op.pre) + Len(op.post))
    BY <1>1, <2>2, ThreeParts
  <2> DEFINE y == op.pre \o x \o op.post
             m == n + (Len(op.pre) + Len(op.post))
  <2>5. Batch(op, ins) = y /\ Lengthened(op, n) = m /\ y \in Seq(Int) /\ m \in Nat /\ Len(y) = m
    BY <2>1, <2>3, <2>4
  <2> HIDE DEF y, m
  <2>6. Positive(m) = m /\ m \in Int
    BY <2>5 DEF Positive
  <2> QED
    BY <2>5, <2>6
<1>7. CASE op.kind \in {"cumsum", "scan"}
  <2>1. ASSUME op.kind = "cumsum" PROVE Batch(op, ins) \in [1 .. n -> Int]
    <3>1. Batch(op, ins) = Cumulated(x, Silence, op.exclusive)
      BY <2>1 DEF Batch, x
    <3>2. Silence \in Int
      BY DEF Silence
    <3> QED
      BY <1>1, <3>1, <3>2, CumulatedFrames
  <2>2. ASSUME op.kind = "scan" PROVE Batch(op, ins) \in [1 .. n -> Int]
    <3>1. Batch(op, ins) = Cumulated(x, ScanStart, FALSE)
      BY <2>2 DEF Batch, x
    <3>2. ScanStart \in Int
      BY DEF ScanStart
    <3> DEFINE exclusive == FALSE
    <3> HIDE DEF exclusive
    <3>3. Cumulated(x, ScanStart, exclusive) \in [1 .. n -> Int]
      BY <1>1, <3>2, CumulatedFrames
    <3> QED
      BY <3>1, <3>3 DEF exclusive
  <2>3. Lengthened(op, n) = n
    BY <1>7 DEF Lengthened
  <2>4. Batch(op, ins) \in [1 .. n -> Int]
    BY <1>7, <2>1, <2>2
  <2> QED
    BY <2>3, <2>4, ListedIsASequence DEF Positive
<1>8. CASE op.kind = "deconv"
  <2> DEFINE y == Deconvolved(x, op, 0)
             m == (n - 1) * op.stride + op.size
  <2>1. Batch(op, ins) = SubSeq(y, op.before + 1, Len(y) - op.after)
    BY <1>8 DEF Batch, x
  <2>2. /\ op.size \in Nat \ {0} /\ op.stride \in Nat \ {0} /\ op.before \in Nat /\ op.after \in Nat
    BY <1>1, <1>8, OpsAre
  <2>3. m \in Int /\ m + 0 = m
    <3> DEFINE t == op.stride
               z == op.size
    <3>1. t \in Int /\ z \in Int
      BY <2>2
    <3> HIDE DEF t, z
    <3>2. (n - 1) * t + z \in Int /\ (n - 1) * t + z + 0 = (n - 1) * t + z
      BY <3>1
    <3> QED
      BY <3>2 DEF t, z
  <2>4. y \in [1 .. (n - 1) * op.stride + op.size + 0 -> Int]
    BY <1>1, <2>2, DeconvolvedFrames
  <2>5. y \in [1 .. m -> Int]
    BY <2>3, <2>4
  <2>6. Lengthened(op, n) = m - op.before - op.after
    <3>1. Lengthened(op, n) = (n - 1) * op.stride + op.size - op.before - op.after
      BY <1>8 DEF Lengthened
    <3> DEFINE a == (n - 1) * op.stride
               z == op.size
               u == op.before
               v == op.after
    <3>2. a \in Int /\ z \in Int /\ u \in Int /\ v \in Int
      <4> DEFINE w == op.stride
      <4>1. w \in Int
        BY <2>2
      <4> HIDE DEF w
      <4>2. (n - 1) * w \in Int
        BY <4>1
      <4> QED
        BY <2>2, <4>2 DEF w
    <3>3. Lengthened(op, n) = a + z - u - v
      BY <3>1
    <3>4. m = a + z
      OBVIOUS
    <3> HIDE DEF a, z, u, v, m
    <3>5. a + z - u - v = m - u - v
      BY <3>2, <3>4
    <3> QED
      BY <3>3, <3>5 DEF u, v
  <2> HIDE DEF y, m
  <2>7. m + -(op.before + op.after) = m - op.before - op.after /\ m - op.before - op.after \in Int
    <3> DEFINE b == op.before
               a == op.after
    <3>1. b \in Int /\ a \in Int
      BY <2>2
    <3> HIDE DEF b, a
    <3>2. m + -(b + a) = m - b - a /\ m - b - a \in Int
      BY <2>3, <3>1
    <3> QED
      BY <3>2 DEF b, a
  <2>8. /\ SubSeq(y, op.before + 1, Len(y) - op.after) \in Seq(Int)
        /\ Len(SubSeq(y, op.before + 1, Len(y) - op.after)) = Positive(m + -(op.before + op.after))
    BY <2>2, <2>3, <2>5, PartToANumber
  <2> QED
    BY <2>1, <2>6, <2>7, <2>8
<1>9. CASE op.kind = "sum"
  <2> DEFINE y == ins[2]
  <2>1. Batch(op, ins) = [i \in 1 .. Len(x) |-> x[i] + y[i]]
    BY <1>9 DEF Batch, x
  <2>2. y \in Seq(Int) /\ Len(y) = n
    <3>1. 2 \in 1 .. Len(op.from)
      BY <1>9 DEF IsOp
    <3> QED
      BY <3>1 DEF IsStream
  <2> HIDE DEF y
  <2>3. \A i \in 1 .. n : x[i] + y[i] \in Int
    BY <1>1, <2>2
  <2>4. Batch(op, ins) \in [1 .. n -> Int]
    BY <1>1, <2>1, <2>3
  <2>5. Lengthened(op, n) = n
    BY <1>9 DEF Lengthened
  <2> QED
    BY <2>4, <2>5, ListedIsASequence DEF Positive
<1> QED
  BY <1>1, <1>2, <1>3, <1>4, <1>5, <1>6, <1>7, <1>8, <1>9, OpsAre

LEMMA NodesKeepAgreeing ==
    ASSUME NEW p, NEW q, Continues(p, q), IsPulsed(p), SumsAgree(q)
    PROVE  SumsAgree(p)
<1> SUFFICES ASSUME NEW n \in 1 .. Len(p.nodes), p.nodes[n].kind = "sum"
             PROVE  LET a == FactOf(p, p.nodes[n].from[1])
                        b == FactOf(p, p.nodes[n].from[2])
                    IN  a.pulse = b.pulse /\ a.dim = b.dim
  BY DEF SumsAgree
<1>1. Len(p.nodes) \in Nat /\ Len(q.nodes) \in Nat /\ Len(p.nodes) <= Len(q.nodes)
  BY DEF Continues
<1>2. q.nodes[n] = p.nodes[n] /\ n \in 1 .. Len(q.nodes)
  BY <1>1 DEF Continues
<1>3. Reads(p.nodes[n], n)
  BY DEF IsPulsed
<1>4. \A k \in 1 .. 2 : p.nodes[n].from[k] \in 0 .. Len(p.nodes)
  <2>1. \A k \in 1 .. 2 : p.nodes[n].from[k] \in 0 .. n - 1
    BY <1>3 DEF Reads
  <2>2. \A k \in 0 .. n - 1 : k \in 0 .. Len(p.nodes)
    BY <1>1
  <2> QED
    BY <2>1, <2>2
<1>5. /\ FactOf(q, p.nodes[n].from[1]) = FactOf(p, p.nodes[n].from[1])
      /\ FactOf(q, p.nodes[n].from[2]) = FactOf(p, p.nodes[n].from[2])
  <2>1. 1 \in 1 .. 2 /\ 2 \in 1 .. 2
    OBVIOUS
  <2> QED
    BY <1>4, <2>1 DEF Continues
<1> QED
  BY <1>2, <1>5 DEF SumsAgree

\* No wire of the source model is declared empty.
Declared(p, n, s) == \A k \in 1 .. n + 1 : FactOf(p, p.at[k]).dim[s] > 0

\* The wires of the source model are as long as declared, and what the wires of
\* the pulsed model stand for.
Streams(p, n, s, w) == \A k \in 1 .. n + 1 : IsStream(w[k], FactOf(p, p.at[k]).dim[s])
Stands(p, n, s, w, input) ==
    \E wires : /\ Means(p, wires, s) /\ wires[0] = input
               /\ \A k \in 1 .. n + 1 : wires[p.at[k]] = w[k]

LEMMA RunIs ==
    ASSUME NEW w, NEW op, IsFrames(w), NEW v, v = Run(w, op)
    PROVE  /\ IsFrames(v) /\ Len(v) = Len(w) + 1 /\ \A k \in 1 .. Len(w) : v[k] = w[k]
           /\ <<>> \notin ToSet(v) => <<>> \notin ToSet(w) /\ v[Len(w) + 1] # <<>>
           /\ <<>> \notin ToSet(w) =>
                 v[Len(w) + 1] = Batch(op, [k \in 1 .. Len(op.from) |-> w[op.from[k] + 1]])
<1> DEFINE e == IF <<>> \in ToSet(w) THEN <<>>
                ELSE Batch(op, [k \in 1 .. Len(op.from) |-> w[op.from[k] + 1]])
<1>1. v = Append(w, e)
  BY DEF Run
<1>2. <<>> \notin ToSet(w) => e = Batch(op, [k \in 1 .. Len(op.from) |-> w[op.from[k] + 1]])
  OBVIOUS
<1> HIDE DEF e
<1>3. /\ IsFrames(v) /\ Len(v) = Len(w) + 1 /\ \A k \in 1 .. Len(w) : v[k] = w[k]
      /\ v[Len(w) + 1] = e
  BY <1>1, AppendedAreFrames
<1>4. DOMAIN v = 1 .. Len(w) + 1 /\ DOMAIN w = 1 .. Len(w) /\ Len(w) \in Nat
  BY <1>3, FramesHaveALength
<1>5. ToSet(w) \subseteq ToSet(v) /\ v[Len(w) + 1] \in ToSet(v)
  BY <1>3, <1>4 DEF ToSet
<1> QED
  BY <1>2, <1>3, <1>5

LEMMA NodeStands ==
    ASSUME NEW n \in Nat, NEW pulse, NEW p, Sound(p, n, pulse), NEW op, IsOp(op),
           \A k \in 1 .. Len(op.from) : op.from[k] < n + 1,
           NEW r, r = TranslateNode(p, op), p.ok, r.ok, SumsAgree(r),
           NEW s \in Lengths, NEW w, IsFrames(w), Len(w) = n + 1, NEW input,
           Declared(p, n, s), Streams(p, n, s, w), Stands(p, n, s, w, input),
           NEW v, v = Run(w, op), Declared(r, n + 1, s) \/ <<>> \notin ToSet(v)
    PROVE  Declared(r, n + 1, s) /\ Streams(r, n + 1, s, v) /\ Stands(r, n + 1, s, v, input)
<1> DEFINE q == Pulsified(p, op)
           ins == [k \in 1 .. Len(op.from) |-> w[op.from[k] + 1]]
           c == Batch(op, ins)
           last == FactOf(r, Len(r.nodes)).dim[s]
<1>1. /\ Sound(r, n + 1, pulse) /\ Translates(p, q, op)
      /\ r.nodes = q.nodes /\ r.facts = q.facts /\ r.at = Append(p.at, Len(r.nodes))
  BY TranslatingIsSound
<1>2. IsPulsed(p) /\ IsPulsed(r) /\ IsPulsed(q) /\ Continues(p, q) /\ Len(p.at) = n + 1
      /\ Len(p.nodes) \in Nat /\ Len(q.nodes) \in Nat
  BY <1>1 DEF Sound, Translates, Continues
<1>3. /\ \A wi : FactOf(r, wi) = FactOf(q, wi)
      /\ \A wires, si : Means(r, wires, si) = Means(q, wires, si)
      /\ SumsAgree(q)
  <2>1. \A wi : FactOf(r, wi) = FactOf(q, wi)
    BY <1>1 DEF FactOf
  <2>2. \A wires, si : Means(r, wires, si) = Means(q, wires, si)
    BY <1>1, <2>1 DEF Means
  <2>3. SumsAgree(q)
    BY <1>1, <2>1 DEF SumsAgree
  <2> QED
    BY <2>1, <2>2, <2>3
<1> HIDE DEF q
<1>4. /\ \A k \in 1 .. n + 1 : r.at[k] = p.at[k] /\ FactOf(r, r.at[k]) = FactOf(p, p.at[k])
      /\ r.at[n + 2] = Len(r.nodes)
  <2>1. IsFrames(p.at)
    BY <1>2 DEF IsPulsed
  <2>2. /\ \A k \in 1 .. Len(p.at) : r.at[k] = p.at[k]
        /\ r.at[Len(p.at) + 1] = Len(r.nodes)
    BY <1>1, <2>1, AppendedAreFrames
  <2>3. \A k \in 1 .. n + 1 : p.at[k] \in 0 .. Len(p.nodes)
    BY DEF Sound
  <2>4. \A wi \in 0 .. Len(p.nodes) : FactOf(r, wi) = FactOf(p, wi)
    BY <1>2, <1>3 DEF Continues
  <2> QED
    BY <1>2, <2>2, <2>3, <2>4
<1>5. \A k \in 1 .. n + 1 : w[k] # <<>>
  BY DEF Streams, IsStream
<1>6. <<>> \notin ToSet(w)
  <2>1. DOMAIN w = 1 .. n + 1
    BY FramesHaveALength
  <2> QED
    BY <1>5, <2>1 DEF ToSet
<1>7. /\ IsFrames(v) /\ Len(v) = n + 2 /\ \A k \in 1 .. n + 1 : v[k] = w[k]
      /\ v[n + 2] = c /\ (<<>> \notin ToSet(v) => c # <<>>)
  <2>1. /\ IsFrames(v) /\ Len(v) = Len(w) + 1 /\ \A k \in 1 .. Len(w) : v[k] = w[k]
        /\ <<>> \notin ToSet(v) => <<>> \notin ToSet(w) /\ v[Len(w) + 1] # <<>>
        /\ v[Len(w) + 1] = c
    BY <1>6, RunIs
  <2>2. Len(w) + 1 = n + 2
    OBVIOUS
  <2> HIDE DEF c
  <2> QED
    BY <2>1, <2>2
<1>8. /\ \A k \in 1 .. Len(op.from) : op.from[k] + 1 \in 1 .. n + 1 /\ Takes(p, op, k)
      /\ Len(op.from) = IF op.kind = "sum" THEN 2 ELSE 1
  <2>1. op.from \in Seq(Nat)
    BY OpsAre DEF IsOp
  <2>2. \A k \in 1 .. Len(op.from) : op.from[k] + 1 \in 1 .. n + 1
    BY <2>1
  <2>3. \A k \in 1 .. Len(op.from) : Takes(p, op, k)
    BY <2>2 DEF Sound, Takes, At
  <2> QED
    BY <2>2, <2>3 DEF IsOp
<1> DEFINE d == FactOf(p, At(p, op, 1)).dim[s]
<1>9. ASSUME NEW k \in 1 .. Len(op.from) PROVE FactOf(p, At(p, op, k)).dim[s] = d
  <2>1. CASE k = 1
    BY <2>1
  <2>2. CASE k # 1
    <3>1. op.kind = "sum" /\ k = 2
      BY <1>8, <2>2
    <3>2. FactOf(p, At(p, op, 2)).dim = FactOf(p, At(p, op, 1)).dim
      BY <1>2, <1>3, <1>8, <3>1, PulsifiedTranslates DEF q
    <3> QED
      BY <3>1, <3>2
  <2> QED
    BY <2>1, <2>2
<1>10. ASSUME NEW k \in 1 .. Len(op.from)
       PROVE  ins[k] = w[op.from[k] + 1] /\ IsStream(ins[k], d)
  <2>1. ins[k] = w[op.from[k] + 1]
    OBVIOUS
  <2>2. IsStream(w[op.from[k] + 1], FactOf(p, p.at[op.from[k] + 1]).dim[s])
    BY <1>8 DEF Streams
  <2>3. FactOf(p, p.at[op.from[k] + 1]).dim[s] = d
    BY <1>9 DEF At
  <2> HIDE DEF ins, d
  <2> QED
    BY <2>1, <2>2, <2>3
<1>11. d \in Nat \ {0}
  <2>1. 1 \in 1 .. Len(op.from)
    BY <1>8
  <2>2. IsStream(ins[1], d)
    BY <1>10, <2>1
  <2>3. \A x : IsStream(x, d) => d \in Nat \ {0}
    BY DEF IsStream
  <2> QED
    BY <2>2, <2>3
<1>12. last = Lengthened(op, d)
  BY <1>1, <1>3 DEF Translates
<1> HIDE DEF ins, last, d
<1>13. c \in Seq(Int) /\ Lengthened(op, d) \in Int /\ Len(c) = Positive(Lengthened(op, d))
  BY <1>10, <1>11, BatchIs
<1> HIDE DEF c
<1>14. last > 0
  <2>1. CASE Declared(r, n + 1, s)
    <3>1. n + 2 \in 1 .. (n + 1) + 1
      OBVIOUS
    <3> QED
      BY <1>4, <2>1, <3>1 DEF Declared, last
  <2>2. CASE <<>> \notin ToSet(v)
    <3>1. c # <<>>
      BY <1>7, <2>2
    <3>2. Len(c) # 0
      BY <1>13, <3>1
    <3> QED
      BY <1>12, <1>13, <3>2 DEF Positive
  <2> QED
    BY <2>1, <2>2
<1>15. IsStream(c, last)
  <2>1. Len(c) = last
    BY <1>12, <1>13, <1>14 DEF Positive
  <2>2. c # <<>>
    <3>1. Len(<<>>) = 0
      OBVIOUS
    <3> QED
      BY <1>12, <1>13, <1>14, <2>1, <3>1
  <2> QED
    BY <1>13, <2>1, <2>2 DEF IsStream
<1>16. \A k \in 1 .. (n + 1) + 1 : k \in 1 .. n + 1 \/ k = n + 2
  OBVIOUS
<1>17. Declared(r, n + 1, s)
  <2>1. \A k \in 1 .. n + 1 : FactOf(r, r.at[k]).dim[s] > 0
    BY <1>4 DEF Declared
  <2>2. FactOf(r, r.at[n + 2]).dim[s] > 0
    BY <1>4, <1>14 DEF last
  <2> QED
    BY <1>16, <2>1, <2>2 DEF Declared
<1>18. Streams(r, n + 1, s, v)
  <2>1. \A k \in 1 .. n + 1 : IsStream(v[k], FactOf(r, r.at[k]).dim[s])
    BY <1>4, <1>7 DEF Streams
  <2>2. IsStream(v[n + 2], FactOf(r, r.at[n + 2]).dim[s])
    BY <1>4, <1>7, <1>15 DEF last
  <2> QED
    BY <1>16, <2>1, <2>2 DEF Streams
<1>19. Stands(r, n + 1, s, v, input)
  <2>1. PICK wires : /\ Means(p, wires, s) /\ wires[0] = input
                     /\ \A k \in 1 .. n + 1 : wires[p.at[k]] = w[k]
    BY DEF Stands
  <2>2. \A k \in 1 .. Len(op.from) : ins[k] = wires[At(p, op, k)] /\ IsStream(ins[k], d)
    BY <1>8, <1>10, <2>1 DEF At
  <2>3. Grown(p, q, s, wires, Len(q.nodes), c)
    BY <1>1, <2>1, <2>2 DEF Translates, d, c
  <2>4. PICK more : Means(q, more, s) /\ Extends(p, wires, more) /\ more[Len(q.nodes)] = c
    BY <2>3 DEF Grown
  <2>5. Means(r, more, s)
    BY <1>3, <2>4
  <2>6. more[0] = input
    BY <1>2, <2>1, <2>4 DEF Extends
  <2>7. \A k \in 1 .. n + 1 : more[r.at[k]] = v[k]
    <3>1. \A k \in 1 .. n + 1 : p.at[k] \in 0 .. Len(p.nodes)
      BY DEF Sound
    <3> QED
      BY <1>4, <1>7, <2>1, <2>4, <3>1 DEF Extends
  <2>8. more[r.at[n + 2]] = v[n + 2]
    BY <1>1, <1>4, <1>7, <2>4
  <2> QED
    BY <1>16, <2>5, <2>6, <2>7, <2>8 DEF Stands
<1> QED
  BY <1>17, <1>18, <1>19

LEMMA GraphIs ==
    ASSUME NEW graph, IsGraph(graph)
    PROVE  /\ Len(graph) \in Nat
           /\ \A k \in 1 .. Len(graph) :
                 IsOp(graph[k]) /\ \A j \in 1 .. Len(graph[k].from) : graph[k].from[j] < k
<1>1. Len(graph) \in Nat /\ \A k \in 1 .. Len(graph) : graph[k] \in SourceOp
  BY DEF IsGraph
<1> QED
  BY <1>1 DEF IsGraph, IsOp

\* Of all that was made on the way.
MadeOf(graph, pulse, made) ==
    /\ made[0] = Started(pulse)
    /\ \A k \in 1 .. Len(graph) : made[k] = TranslateNode(made[k - 1], graph[k])

LEMMA MadeIsSound ==
    ASSUME NEW graph, IsGraph(graph), NEW pulse \in Nat \ {0}, NEW made, MadeOf(graph, pulse, made),
           made[Len(graph)].ok
    PROVE  \A k \in 0 .. Len(graph) : made[k].ok /\ Sound(made[k], k, pulse)
<1> DEFINE n == Len(graph)
           Fine == {k \in 0 .. n : made[n - k].ok}
           Good == {k \in 0 .. n : Sound(made[k], k, pulse)}
<1>1. n \in Nat /\ made[0] = Started(pulse)
      /\ \A k \in 1 .. n : made[k] = TranslateNode(made[k - 1], graph[k])
  BY GraphIs DEF MadeOf
<1> HIDE DEF n
<1>2. \A k \in 0 .. n : k \in Fine
  <2>1. 0 \in Fine
    <3>1. n - 0 = n /\ 0 \in 0 .. n
      BY <1>1
    <3> QED
      BY <3>1 DEF n
  <2>2. ASSUME NEW k \in 0 .. n - 1, k \in Fine PROVE k + 1 \in Fine
    <3>1. /\ n - k \in 1 .. n /\ (n - k) - 1 = n - (k + 1) /\ k + 1 \in 0 .. n
          /\ made[n - k].ok
      BY <1>1, <2>2
    <3>2. made[n - k] = TranslateNode(made[n - (k + 1)], graph[n - k])
      BY <1>1, <3>1
    <3>3. ~made[n - (k + 1)].ok => made[n - k] = made[n - (k + 1)]
      BY <3>2 DEF TranslateNode
    <3>4. made[n - (k + 1)].ok
      BY <3>1, <3>3
    <3> QED
      BY <3>1, <3>4
  <2> HIDE DEF Fine
  <2> QED
    BY <1>1, <2>1, <2>2, UpTo
<1>3. \A k \in 0 .. n : made[k].ok
  <2> TAKE k \in 0 .. n
  <2>1. n - k \in 0 .. n /\ n - (n - k) = k
    BY <1>1
  <2>2. n - k \in Fine
    BY <1>2, <2>1
  <2> QED
    BY <2>1, <2>2
<1>4. \A k \in 0 .. n : k \in Good
  <2>1. 0 \in Good
    BY <1>1, StartIsSound
  <2>2. ASSUME NEW k \in 0 .. n - 1, k \in Good PROVE k + 1 \in Good
    <3>1. k + 1 \in 1 .. n /\ k + 1 \in 0 .. n /\ (k + 1) - 1 = k /\ k \in 0 .. n /\ k \in Nat
      BY <1>1
    <3>2. /\ Sound(made[k], k, pulse) /\ made[k + 1] = TranslateNode(made[k], graph[k + 1])
          /\ made[k].ok /\ made[k + 1].ok
      BY <1>1, <1>3, <2>2, <3>1
    <3>3. IsOp(graph[k + 1]) /\ \A j \in 1 .. Len(graph[k + 1].from) : graph[k + 1].from[j] < k + 1
      BY <3>1, GraphIs DEF n
    <3>4. Sound(made[k + 1], k + 1, pulse)
      BY <3>1, <3>2, <3>3, TranslatingIsSound
    <3> QED
      BY <3>1, <3>4
  <2> HIDE DEF Good
  <2> QED
    BY <1>1, <2>1, <2>2, UpTo
<1> QED
  BY <1>3, <1>4 DEF n

LEMMA MadeAgrees ==
    ASSUME NEW graph, IsGraph(graph), NEW pulse \in Nat \ {0}, NEW made, MadeOf(graph, pulse, made),
           made[Len(graph)].ok, SumsAgree(made[Len(graph)])
    PROVE  \A k \in 0 .. Len(graph) : SumsAgree(made[k])
<1> DEFINE n == Len(graph)
           Fine == {k \in 0 .. n : SumsAgree(made[n - k])}
<1>1. n \in Nat /\ \A k \in 1 .. n : made[k] = TranslateNode(made[k - 1], graph[k])
  BY GraphIs DEF MadeOf
<1>2. \A k \in 0 .. n : made[k].ok /\ Sound(made[k], k, pulse)
  BY MadeIsSound
<1> HIDE DEF n
<1>3. 0 \in Fine
  <2>1. n - 0 = n /\ 0 \in 0 .. n
    BY <1>1
  <2> QED
    BY <2>1 DEF n
<1>4. ASSUME NEW j \in 0 .. n - 1, j \in Fine PROVE j + 1 \in Fine
  <2> DEFINE k == n - (j + 1)
             p == made[k]
             op == graph[k + 1]
             r == made[k + 1]
             q == Pulsified(p, op)
  <2>1. k \in Nat /\ k \in 0 .. n /\ k + 1 \in 1 .. n /\ k + 1 \in 0 .. n /\ k + 1 = n - j /\ (k + 1) - 1 = k
    BY <1>1
  <2>2. SumsAgree(r)
    BY <1>4, <2>1
  <2>3. r = TranslateNode(p, op)
    BY <1>1, <2>1
  <2>4. IsOp(op) /\ \A i \in 1 .. Len(op.from) : op.from[i] < k + 1
    BY <2>1, GraphIs DEF n
  <2>5. p.ok /\ r.ok /\ Sound(p, k, pulse)
    BY <1>2, <2>1
  <2> HIDE DEF k, p, op, r
  <2>6. Translates(p, q, op) /\ r.nodes = q.nodes /\ r.facts = q.facts
    BY <2>1, <2>3, <2>4, <2>5, TranslatingIsSound
  <2>7. Continues(p, q) /\ IsPulsed(p)
    BY <2>5, <2>6 DEF Translates, Sound
  <2> HIDE DEF q
  <2>8. SumsAgree(q)
    <3>1. \A wi : FactOf(r, wi) = FactOf(q, wi)
      BY <2>6 DEF FactOf
    <3> QED
      BY <2>2, <2>6, <3>1 DEF SumsAgree
  <2>9. SumsAgree(p)
    BY <2>7, <2>8, NodesKeepAgreeing
  <2> QED
    BY <1>1, <2>9 DEF p, k
<1>5. \A k \in 0 .. n : k \in Fine
  <2> HIDE DEF Fine
  <2> QED
    BY <1>1, <1>3, <1>4, UpTo
<1>6. ASSUME NEW k \in 0 .. n PROVE SumsAgree(made[k])
  <2>1. n - k \in 0 .. n /\ n - (n - k) = k
    BY <1>1
  <2>2. n - k \in Fine
    BY <1>5, <2>1
  <2> QED
    BY <2>1, <2>2
<1> QED
  BY <1>6 DEF n

(* ModelStands: what PulsedModel::new builds is right about the whole of a   *)
(* stream.  Of any graph that it accepts, at any pulse, and for a stream on *)
(* which no wire is empty, as many frames are declared on each wire as the  *)
(* source model puts there, and each wire of the pulsed model stands for    *)
(* one of the source's: Follows says of each node what it makes of the      *)
(* whole stream of its inputs, in the frames that its fact calls valid.     *)
THEOREM ModelStands ==
    ASSUME NEW graph, IsGraph(graph), NEW pulse \in Nat \ {0},
           NEW p, p = PulsedModel(graph, pulse), p.ok, SumsAgree(p),
           NEW s \in Lengths, NEW input, IsStream(input, s), NEW w, w = Wires(graph, input)
    PROVE  /\ Sound(p, Len(graph), pulse) /\ IsFrames(w) /\ Len(w) = Len(graph) + 1
           /\ Declared(p, Len(graph), s) \/ <<>> \notin ToSet(w) =>
                 /\ Declared(p, Len(graph), s) /\ Streams(p, Len(graph), s, w)
                 /\ Stands(p, Len(graph), s, w, input)
<1> DEFINE n == Len(graph)
<1>1. n \in Nat
  BY GraphIs
<1>2. PICK made : MadeOf(graph, pulse, made) /\ p = made[n]
  BY <1>1, MadeIs DEF MadeOf
<1>3. PICK wires : /\ wires[0] = <<input>>
                   /\ \A k \in 1 .. n : wires[k] = Run(wires[k - 1], graph[k])
                   /\ w = wires[n]
  <2>1. \E wires : /\ wires[0] = <<input>>
                   /\ \A k \in 1 .. n : wires[k] = Run(wires[k - 1], graph[k])
                   /\ Wires(graph, input) = wires[n]
    BY <1>1, WiresAre
  <2> QED
    BY <2>1
<1>4. /\ \A k \in 0 .. n : made[k].ok /\ Sound(made[k], k, pulse)
      /\ \A k \in 0 .. n : SumsAgree(made[k])
      /\ \A k \in 1 .. n : made[k] = TranslateNode(made[k - 1], graph[k])
      /\ made[0] = Started(pulse)
  <2>1. \A k \in 0 .. n : made[k].ok /\ Sound(made[k], k, pulse)
    BY <1>2, MadeIsSound
  <2>2. \A k \in 0 .. n : SumsAgree(made[k])
    BY <1>2, MadeAgrees
  <2> QED
    BY <1>2, <2>1, <2>2 DEF MadeOf
<1> DEFINE Told(k) ==
              /\ IsFrames(wires[k]) /\ Len(wires[k]) = k + 1
              /\ Declared(made[k], k, s) \/ <<>> \notin ToSet(wires[k]) =>
                    /\ Declared(made[k], k, s) /\ Streams(made[k], k, s, wires[k])
                    /\ Stands(made[k], k, s, wires[k], input)
           Good == {k \in 0 .. n : Told(k)}
<1>5. Told(0)
  <2> DEFINE p0 == made[0]
  <2>1. /\ wires[0] \in Seq({input}) /\ Len(wires[0]) = 1 /\ wires[0][1] = input
    BY <1>3
  <2>2. IsFrames(wires[0])
    BY <2>1, SequencesAreFrames
  <2>3. Sound(p0, 0, pulse) /\ Len(p0.nodes) = 0
    BY <1>4, StartIsSound
  <2>4. /\ p0.at[1] = 0 /\ FactOf(p0, 0).dim[s] = s
    BY <2>3 DEF Sound
  <2>5. \A k \in 1 .. 0 + 1 : k = 1
    OBVIOUS
  <2> HIDE DEF p0
  <2>6. Streams(p0, 0, s, wires[0])
    BY <2>1, <2>4, <2>5 DEF Streams
  <2>7. s > 0
    BY DEF IsStream, Lengths
  <2>8. Declared(p0, 0, s)
    BY <2>4, <2>5, <2>7 DEF Declared
  <2>9. Stands(p0, 0, s, wires[0], input)
    <3> DEFINE g == [k \in 0 .. 0 |-> input]
    <3>1. g[0] = input
      OBVIOUS
    <3>2. Means(p0, g, s)
      BY <2>3 DEF Means
    <3> HIDE DEF g
    <3>3. \A k \in 1 .. 0 + 1 : g[p0.at[k]] = wires[0][k]
      BY <2>1, <2>4, <2>5, <3>1
    <3> QED
      BY <3>1, <3>2, <3>3 DEF Stands
  <2> QED
    BY <2>1, <2>2, <2>6, <2>8, <2>9 DEF p0
<1>6. ASSUME NEW k \in 0 .. n - 1, Told(k) PROVE Told(k + 1)
  <2> DEFINE b == made[k]
             op == graph[k + 1]
             r == made[k + 1]
             x == wires[k]
             v == wires[k + 1]
  <2>1. k \in Nat /\ k \in 0 .. n /\ k + 1 \in 1 .. n /\ k + 1 \in 0 .. n /\ (k + 1) - 1 = k
    BY <1>1
  <2>2. r = TranslateNode(b, op) /\ v = Run(x, op)
    BY <1>3, <1>4, <2>1
  <2>3. IsOp(op) /\ \A i \in 1 .. Len(op.from) : op.from[i] < k + 1
    BY <2>1, GraphIs
  <2>4. b.ok /\ r.ok /\ Sound(b, k, pulse) /\ SumsAgree(r)
    BY <1>4, <2>1
  <2>5. IsFrames(x) /\ Len(x) = k + 1
    BY <1>6
  <2>6. Declared(b, k, s) \/ <<>> \notin ToSet(x) =>
            Declared(b, k, s) /\ Streams(b, k, s, x) /\ Stands(b, k, s, x, input)
    BY <1>6
  <2> HIDE DEF b, op, r, x, v
  <2>7. IsFrames(v) /\ Len(v) = (k + 1) + 1 /\ (<<>> \notin ToSet(v) => <<>> \notin ToSet(x))
    BY <2>2, <2>5, RunIs
  <2>8. Declared(r, k + 1, s) => Declared(b, k, s)
    <3>1. /\ r.nodes = Pulsified(b, op).nodes /\ r.facts = Pulsified(b, op).facts
          /\ r.at = Append(b.at, Len(r.nodes)) /\ Translates(b, Pulsified(b, op), op)
      BY <2>1, <2>2, <2>3, <2>4, TranslatingIsSound
    <3>2. IsPulsed(b) /\ Len(b.at) = k + 1 /\ \A i \in 1 .. k + 1 : b.at[i] \in 0 .. Len(b.nodes)
      BY <2>4 DEF Sound
    <3>3. \A i \in 1 .. k + 1 : r.at[i] = b.at[i]
      <4>1. IsFrames(b.at)
        BY <3>2 DEF IsPulsed
      <4> QED
        BY <3>1, <3>2, <4>1, AppendedAreFrames
    <3>4. \A wi \in 0 .. Len(b.nodes) : FactOf(r, wi) = FactOf(b, wi)
      <4>1. \A wi : FactOf(r, wi) = FactOf(Pulsified(b, op), wi)
        BY <3>1 DEF FactOf
      <4> QED
        BY <3>1, <4>1 DEF Translates, Continues
    <3>5. \A i \in 1 .. k + 1 : i \in 1 .. (k + 1) + 1
      BY <2>1
    <3> QED
      BY <3>2, <3>3, <3>4, <3>5 DEF Declared
  <2>9. ASSUME Declared(r, k + 1, s) \/ <<>> \notin ToSet(v)
        PROVE  Declared(r, k + 1, s) /\ Streams(r, k + 1, s, v) /\ Stands(r, k + 1, s, v, input)
    <3>1. Declared(b, k, s) /\ Streams(b, k, s, x) /\ Stands(b, k, s, x, input)
      BY <2>6, <2>7, <2>8, <2>9
    <3> QED
      BY <2>1, <2>2, <2>3, <2>4, <2>5, <2>9, <3>1, NodeStands
  <2> QED
    BY <2>7, <2>9 DEF r, v
<1>7. \A k \in 0 .. n : k \in Good
  <2>1. 0 \in Good
    BY <1>1, <1>5
  <2>2. ASSUME NEW k \in 0 .. n - 1, k \in Good PROVE k + 1 \in Good
    <3>1. Told(k)
      BY <2>2
    <3> HIDE DEF Told
    <3>2. k + 1 \in 0 .. n
      BY <1>1
    <3> QED
      BY <1>6, <3>1, <3>2
  <2> HIDE DEF Good
  <2> QED
    BY <1>1, <2>1, <2>2, UpTo
<1>8. n \in 0 .. n
  BY <1>1
<1>9. Told(n) /\ Sound(made[n], n, pulse)
  BY <1>4, <1>7, <1>8
<1> QED
  BY <1>2, <1>3, <1>9

-----------------------------------------------------------------------------
(* Pulses laid over each other: a deconvolution of a stream, pulse by pulse. *)

\* Part of a sum.
LEMMA SumsRun ==
    ASSUME NEW x \in Seq(Int), NEW y \in Seq(Int), NEW base \in Nat, base + Len(x) <= Len(y),
           \A i \in 1 .. Len(x) : x[i] = y[base + i]
    PROVE  \A k \in 0 .. Len(x) : Sums(y, 0)[base + k] = Sums(y, 0)[base] + Sums(x, 0)[k]
<1> DEFINE f == Sums(x, 0)
           g == Sums(y, 0)
           n == Len(x)
           m == Len(y)
           Bad == {k \in 0 .. n : g[base + k] # g[base] + f[k]}
<1>1. n \in Nat /\ m \in Nat /\ base + n <= m
  OBVIOUS
<1>2. /\ f[0] = 0
      /\ \A k \in 1 .. n : f[k] = f[k - 1] + x[k]
      /\ \A k \in 0 .. n : f[k] \in Int
  BY SumsAre
<1>3. /\ \A k \in 1 .. m : g[k] = g[k - 1] + y[k]
      /\ \A k \in 0 .. m : g[k] \in Int
  BY SumsAre
<1>13. \A k \in 1 .. n : x[k] = y[base + k] /\ x[k] \in Int
  OBVIOUS
<1> HIDE DEF f, g
<1> SUFFICES ASSUME Bad # {} PROVE FALSE
  BY DEF f, g
<1> HIDE DEF n, m
<1>4. Bad \in SUBSET Nat
  OBVIOUS
<1>5. PICK k \in Bad : \A j \in Bad : k <= j
  <2> HIDE DEF Bad
  <2> QED
    BY <1>4, LeastElement
<1>6. k \in 0 .. n /\ g[base + k] # g[base] + f[k]
  OBVIOUS
<1>7. base \in 0 .. m /\ g[base] \in Int
  BY <1>1, <1>3
<1>8. k # 0
  BY <1>2, <1>6, <1>7
<1>9. k - 1 \in 0 .. n /\ k - 1 \notin Bad /\ k \in 1 .. n
  <2> HIDE DEF Bad
  <2> QED
    BY <1>1, <1>5, <1>6, <1>8
<1>10. g[base + (k - 1)] = g[base] + f[k - 1]
  BY <1>9
<1>11. g[base + k] = g[base + (k - 1)] + y[base + k]
  <2>1. base + k \in 1 .. m /\ (base + k) - 1 = base + (k - 1)
    BY <1>1, <1>9
  <2> QED
    BY <1>3, <2>1
<1>12. f[k] = f[k - 1] + x[k] /\ x[k] = y[base + k] /\ x[k] \in Int /\ f[k - 1] \in Int
  BY <1>2, <1>9, <1>13
<1> HIDE DEF Bad
<1> QED
  BY <1>6, <1>7, <1>10, <1>11, <1>12

\* z is x, and y after it.
Joined(z, a, x, b, y) ==
    /\ x \in [1 .. a -> Int] /\ y \in [1 .. b -> Int] /\ z \in [1 .. a + b -> Int]
    /\ \A i \in 1 .. a : x[i] = z[i]
    /\ \A i \in 1 .. b : y[i] = z[a + i]

LEMMA TotalOfTwo ==
    ASSUME NEW a \in Nat, NEW b \in Nat, NEW x, NEW y, NEW z, Joined(z, a, x, b, y)
    PROVE  Total(z) = Total(x) + Total(y)
<1> USE DEF Joined
<1>1. /\ x \in Seq(Int) /\ Len(x) = a /\ y \in Seq(Int) /\ Len(y) = b
      /\ z \in Seq(Int) /\ Len(z) = a + b
  BY ListedIsASequence
<1>2. Sums(z, 0)[0 + a] = Sums(z, 0)[0] + Sums(x, 0)[a]
  <2>1. 0 + Len(x) <= Len(z) /\ \A i \in 1 .. Len(x) : x[i] = z[0 + i]
    BY <1>1
  <2>2. \A k \in 0 .. Len(x) : Sums(z, 0)[0 + k] = Sums(z, 0)[0] + Sums(x, 0)[k]
    <3>1. 0 \in Nat
      OBVIOUS
    <3> QED
      BY <1>1, <2>1, <3>1, SumsRun, Zenon
  <2> QED
    BY <1>1, <2>2
<1>3. Sums(z, 0)[a + b] = Sums(z, 0)[a] + Sums(y, 0)[b]
  <2>1. a + Len(y) <= Len(z) /\ \A i \in 1 .. Len(y) : y[i] = z[a + i]
    BY <1>1
  <2>2. \A k \in 0 .. Len(y) : Sums(z, 0)[a + k] = Sums(z, 0)[a] + Sums(y, 0)[k]
    BY <1>1, <2>1, SumsRun
  <2> QED
    BY <1>1, <2>2
<1>4. Sums(z, 0)[0] = 0 /\ Sums(x, 0)[a] \in Int /\ Sums(y, 0)[b] \in Int
  BY <1>1, SumsAre
<1>5. 0 + a = a
  OBVIOUS
<1> QED
  BY <1>1, <1>2, <1>3, <1>4, <1>5 DEF Total

LEMMA TotalOfSilence ==
    ASSUME NEW n \in Nat, NEW x \in [1 .. n -> Int], \A i \in 1 .. n : x[i] = 0
    PROVE  Total(x) = 0
<1> DEFINE f == Sums(x, 0)
           Bad == {k \in 0 .. n : f[k] # 0}
<1>1. x \in Seq(Int) /\ Len(x) = n
  BY ListedIsASequence
<1>2. f[0] = 0 /\ \A k \in 1 .. n : f[k] = f[k - 1] + x[k]
  <2>1. 0 \in Int
    OBVIOUS
  <2> HIDE DEF f
  <2>2. /\ Sums(x, 0)[0] = 0
        /\ \A k \in 1 .. Len(x) : Sums(x, 0)[k] = Sums(x, 0)[k - 1] + x[k]
    BY <1>1, <2>1, SumsAre, Zenon
  <2> QED
    BY <1>1, <2>2, Zenon DEF f
<1>3. Total(x) = f[n]
  BY <1>1 DEF Total
<1> HIDE DEF f
<1> SUFFICES ASSUME Bad # {} PROVE FALSE
  BY <1>3
<1>4. Bad \in SUBSET Nat
  OBVIOUS
<1>5. PICK k \in Bad : \A j \in Bad : k <= j
  <2> HIDE DEF Bad
  <2> QED
    BY <1>4, LeastElement
<1>6. k \in 0 .. n /\ f[k] # 0
  OBVIOUS
<1>7. k # 0
  BY <1>2, <1>6
<1>8. k - 1 \in 0 .. n /\ k - 1 \notin Bad /\ k \in 1 .. n
  <2> HIDE DEF Bad
  <2> QED
    BY <1>5, <1>6, <1>7
<1> QED
  BY <1>2, <1>6, <1>8

\* What a kernel makes of v, d places on.
Tap(size, d, v) == IF d \in 1 .. size THEN d * v ELSE 0
\* Where the kernel of frame j is at p.
Reach(stride, p, j) == p - ((j - 1) * stride)
\* Place p, counted from where the kernel after the k-th starts.
Onward(stride, p, k) == p - (k * stride)
\* What the first k frames of m make at p.
Laid(m, size, stride, delay, k, p) ==
    Total([j \in 1 .. k |-> Tap(size, Reach(stride, p, j), m[j - delay])])

\* m is told from the first frame of its wire on.
Sounds(m, delay) == \A j \in Nat \ {0} : m[j - delay] \in Int

LEMMA TapIs ==
    ASSUME NEW size \in Nat \ {0}, NEW d \in Int, NEW v \in Int
    PROVE  /\ Tap(size, d, v) \in Int
           /\ v = 0 => Tap(size, d, v) = 0
           /\ d <= 0 => Tap(size, d, v) = 0
           /\ d > size => Tap(size, d, v) = 0
<1>1. d * v \in Int /\ (v = 0 => d * v = 0)
  OBVIOUS
<1> DEFINE u == d * v
<1>2. Tap(size, d, v) = IF d \in 1 .. size THEN u ELSE 0
  BY DEF Tap
<1>3. u \in Int /\ (v = 0 => u = 0)
  BY <1>1
<1> HIDE DEF u
<1> QED
  BY <1>2, <1>3

LEMMA ReachIs ==
    ASSUME NEW stride \in Int, NEW p \in Int, NEW j \in Int, NEW k \in Int
    PROVE  /\ Reach(stride, p, j) \in Int /\ Onward(stride, p, k) \in Int
           /\ Reach(stride, p, k + j) = Reach(stride, Onward(stride, p, k), j)
<1> DEFINE u == k * stride
           at == (j - 1) * stride
<1>1. u \in Int /\ at \in Int /\ ((k + j) - 1) * stride = u + at
  OBVIOUS
<1>2. /\ Reach(stride, p, j) = p - at /\ Onward(stride, p, k) = p - u
      /\ Reach(stride, Onward(stride, p, k), j) = (p - u) - at
  BY DEF Reach, Onward
<1>3. Reach(stride, p, k + j) = p - (((k + j) - 1) * stride)
  BY DEF Reach
<1>4. p - at \in Int /\ p - u \in Int /\ p - (u + at) = (p - u) - at
  <2> HIDE DEF u, at
  <2> QED
    BY <1>1
<1> QED
  BY <1>1, <1>2, <1>3, <1>4, Zenon

\* What n frames make at p.
Taps(x, n, size, stride, p) == [i \in 1 .. n |-> Tap(size, Reach(stride, p, i), x[i])]
SpreadsOver(n, size, stride, more, len) == len = (n - 1) * stride + size + more

LEMMA DeconvolvedIs ==
    ASSUME NEW n \in Nat, NEW x \in [1 .. n -> Int], NEW more \in Nat,
           NEW size \in Nat \ {0}, NEW stride \in Nat \ {0},
           NEW len, SpreadsOver(n, size, stride, more, len), NEW p \in 1 .. len
    PROVE  Deconvolved(x, Kernel(size, stride), more)[p] = Total(Taps(x, n, size, stride, p))
<1> DEFINE op == Kernel(size, stride)
<1>1. Len(x) = n /\ op.size = size /\ op.stride = stride
  BY ListedIsASequence DEF Kernel
<1> DEFINE y == [i \in 1 .. Len(x) |->
                    LET t == p - (i - 1) * op.stride IN IF t \in 1 .. op.size THEN t * x[i] ELSE 0]
<1> HIDE DEF op
<1>2. y = Taps(x, n, size, stride, p)
  BY <1>1 DEF Taps, Tap, Reach
<1>3. p \in 1 .. (Len(x) - 1) * op.stride + op.size + more
  BY <1>1 DEF SpreadsOver
<1>4. Deconvolved(x, op, more)[p] = Total(y)
  BY <1>3, Zenon DEF Deconvolved
<1> QED
  BY <1>2, <1>4 DEF op

\* The frames after the first k.
LaidAfter(m, size, stride, delay, k, n, p) ==
    Total([i \in 1 .. n |-> Tap(size, Reach(stride, Onward(stride, p, k), i), m[(k + i) - delay])])

LEMMA LaidOn ==
    ASSUME NEW m, NEW size \in Nat \ {0}, NEW stride \in Nat \ {0},
           NEW delay \in Int, Sounds(m, delay), NEW k \in Nat, NEW n \in Nat, NEW p \in Int
    PROVE  /\ Laid(m, size, stride, delay, k, p) \in Int
           /\ LaidAfter(m, size, stride, delay, k, n, p) \in Int
           /\ Laid(m, size, stride, delay, k + n, p)
                 = Laid(m, size, stride, delay, k, p) + LaidAfter(m, size, stride, delay, k, n, p)
<1> DEFINE x == [j \in 1 .. k |-> Tap(size, Reach(stride, p, j), m[j - delay])]
           y == [i \in 1 .. n |-> Tap(size, Reach(stride, Onward(stride, p, k), i), m[(k + i) - delay])]
           z == [j \in 1 .. k + n |-> Tap(size, Reach(stride, p, j), m[j - delay])]
<1>1. ASSUME NEW j \in Nat \ {0}
      PROVE  m[j - delay] \in Int /\ Tap(size, Reach(stride, p, j), m[j - delay]) \in Int
  <2>1. m[j - delay] \in Int
    BY DEF Sounds
  <2>2. stride \in Int /\ 0 \in Int /\ j \in Int
    OBVIOUS
  <2>3. Reach(stride, p, j) \in Int
    BY <2>2, ReachIs, Zenon
  <2> QED
    BY <2>1, <2>3, TapIs, Zenon
<1>2. x \in [1 .. k -> Int] /\ z \in [1 .. k + n -> Int]
  BY <1>1
<1>3. ASSUME NEW i \in 1 .. n PROVE k + i \in 1 .. k + n /\ y[i] = z[k + i] /\ y[i] \in Int
  <2>1. /\ i \in Int /\ k \in Int /\ k + i \in Nat \ {0} /\ k + i \in 1 .. k + n
        /\ stride \in Int
    OBVIOUS
  <2>2. Reach(stride, p, k + i) = Reach(stride, Onward(stride, p, k), i)
    BY <2>1, ReachIs
  <2>3. z[k + i] = Tap(size, Reach(stride, p, k + i), m[(k + i) - delay])
    BY <2>1
  <2>4. y[i] = Tap(size, Reach(stride, Onward(stride, p, k), i), m[(k + i) - delay])
    BY Zenon
  <2> QED
    BY <1>1, <2>1, <2>2, <2>3, <2>4, Zenon
<1>4. y \in [1 .. n -> Int]
  <2>1. y = [i \in 1 .. n |-> y[i]]
    BY Zenon
  <2> HIDE DEF y, z
  <2> QED
    BY <1>3, <2>1
<1>5. \A i \in 1 .. k : x[i] = z[i]
  OBVIOUS
<1> HIDE DEF x, y, z
<1>6. Total(z) = Total(x) + Total(y)
  <2>1. \A i \in 1 .. n : y[i] = z[k + i]
    BY <1>3
  <2>2. Joined(z, k, x, n, y)
    BY <1>2, <1>4, <1>5, <2>1, Zenon DEF Joined
  <2> QED
    BY <2>2, TotalOfTwo
<1>7. Total(x) \in Int /\ Total(y) \in Int
  BY <1>2, <1>4, TotalIsInt
<1>8. /\ Laid(m, size, stride, delay, k, p) = Total(x)
      /\ LaidAfter(m, size, stride, delay, k, n, p) = Total(y)
      /\ Laid(m, size, stride, delay, k + n, p) = Total(z)
  BY Zenon DEF Laid, LaidAfter, x, y, z
<1> QED
  BY <1>6, <1>7, <1>8, Zenon

\* Frames that are silent, or have no say in p.
Mute(m, size, stride, delay, k, n, p) ==
    \A i \in 1 .. n : \/ m[(k + i) - delay] = 0
                      \/ Reach(stride, Onward(stride, p, k), i) <= 0
                      \/ Reach(stride, Onward(stride, p, k), i) > size

LEMMA LaidSilent ==
    ASSUME NEW m, NEW size \in Nat \ {0}, NEW stride \in Nat \ {0},
           NEW delay \in Int, Sounds(m, delay), NEW k \in Nat, NEW n \in Nat, NEW p \in Int,
           Mute(m, size, stride, delay, k, n, p)
    PROVE  LaidAfter(m, size, stride, delay, k, n, p) = 0
<1> DEFINE y == [i \in 1 .. n |-> Tap(size, Reach(stride, Onward(stride, p, k), i), m[(k + i) - delay])]
<1>1. ASSUME NEW i \in 1 .. n PROVE y[i] = 0
  <2>1. m[(k + i) - delay] \in Int /\ i \in Int /\ k \in Int /\ stride \in Int
    <3>1. k + i \in Nat \ {0}
      OBVIOUS
    <3> QED
      BY <3>1 DEF Sounds
  <2>2. Onward(stride, p, k) \in Int
    BY <2>1, ReachIs, Zenon
  <2>3. Reach(stride, Onward(stride, p, k), i) \in Int
    BY <2>1, <2>2, ReachIs, Zenon
  <2>4. \/ m[(k + i) - delay] = 0
        \/ Reach(stride, Onward(stride, p, k), i) <= 0
        \/ Reach(stride, Onward(stride, p, k), i) > size
    BY Zenon DEF Mute
  <2>5. y[i] = Tap(size, Reach(stride, Onward(stride, p, k), i), m[(k + i) - delay])
    BY Zenon
  <2> QED
    BY <2>1, <2>3, <2>4, <2>5, TapIs, Zenon
<1>2. y \in [1 .. n -> Int]
  <2>1. y = [i \in 1 .. n |-> y[i]]
    BY Zenon
  <2> HIDE DEF y
  <2> QED
    BY <1>1, <2>1
<1>3. Total(y) = 0
  <2> HIDE DEF y
  <2> QED
    BY <1>1, <1>2, TotalOfSilence, Zenon
<1> QED
  BY <1>3, Zenon DEF LaidAfter

LEMMA LaidMute ==
    ASSUME NEW m, NEW size \in Nat \ {0}, NEW stride \in Nat \ {0},
           NEW delay \in Int, Sounds(m, delay), NEW k \in Nat, NEW n \in Nat, NEW p \in Int,
           Mute(m, size, stride, delay, k, n, p)
    PROVE  Laid(m, size, stride, delay, k + n, p) = Laid(m, size, stride, delay, k, p)
<1>1. LaidAfter(m, size, stride, delay, k, n, p) = 0
  BY LaidSilent
<1>2. /\ Laid(m, size, stride, delay, k, p) \in Int
      /\ Laid(m, size, stride, delay, k + n, p)
            = Laid(m, size, stride, delay, k, p) + LaidAfter(m, size, stride, delay, k, n, p)
  BY LaidOn
<1> DEFINE a == Laid(m, size, stride, delay, k, p)
           b == Laid(m, size, stride, delay, k + n, p)
<1>3. a \in Int /\ b = a + 0
  BY <1>1, <1>2
<1> HIDE DEF a, b
<1>4. b = a
  BY <1>3
<1> QED
  BY <1>4 DEF a, b

\* The kernels after the k-th start after p.
IsOver(stride, p, k) == p <= k * stride

LEMMA ReachAhead ==
    ASSUME NEW stride \in Nat \ {0}, NEW k \in Nat, NEW i \in Nat \ {0}, NEW p \in Int,
           IsOver(stride, p, k)
    PROVE  Reach(stride, Onward(stride, p, k), i) <= 0
<1> DEFINE u == k * stride
           v == (i - 1) * stride
<1>1. u \in Int /\ p <= u
  BY DEF IsOver
<1>2. v >= 0 /\ v \in Int
  <2>1. i - 1 \in Nat
    OBVIOUS
  <2> QED
    BY <2>1
<1>3. Reach(stride, Onward(stride, p, k), i) = (p - u) - v
  BY DEF Reach, Onward
<1> HIDE DEF u, v
<1> QED
  BY <1>1, <1>2, <1>3

\* Later frames have no say in what came out before them.
LEMMA LaidOver ==
    ASSUME NEW m, NEW size \in Nat \ {0}, NEW stride \in Nat \ {0},
           NEW delay \in Int, Sounds(m, delay), NEW k \in Nat, NEW n \in Nat, NEW p \in Int, IsOver(stride, p, k)
    PROVE  Laid(m, size, stride, delay, k + n, p) = Laid(m, size, stride, delay, k, p)
<1>1. ASSUME NEW i \in 1 .. n PROVE Reach(stride, Onward(stride, p, k), i) <= 0
  <2>1. i \in Nat \ {0}
    OBVIOUS
  <2> QED
    BY <2>1, ReachAhead, Zenon
<1>2. Mute(m, size, stride, delay, k, n, p)
  BY <1>1, Zenon DEF Mute
<1> QED
  BY <1>2, LaidMute

OverAfter(m, size, stride, delay, k, n, p) ==
    /\ size \in Nat \ {0} /\ stride \in Nat \ {0} /\ delay \in Int /\ Sounds(m, delay)
    /\ k \in Nat /\ n \in Nat /\ p \in Int /\ IsOver(stride, p, k)

LEMMA LaidIsOver ==
    ASSUME NEW m, NEW size, NEW stride, NEW delay, NEW k, NEW n, NEW p,
           OverAfter(m, size, stride, delay, k, n, p)
    PROVE  Laid(m, size, stride, delay, k + n, p) = Laid(m, size, stride, delay, k, p)
  BY LaidOver DEF OverAfter

LEMMA LaidBefore ==
    ASSUME NEW m, NEW size \in Nat \ {0}, NEW stride \in Nat \ {0},
           NEW delay \in Int, Sounds(m, delay), NEW k \in Nat, NEW e \in Nat, k <= e,
           NEW p \in Int, IsOver(stride, p, k)
    PROVE  Laid(m, size, stride, delay, e, p) = Laid(m, size, stride, delay, k, p)
<1>1. PICK n \in Nat : e = k + n
  <2>1. e - k \in Nat /\ e = k + (e - k)
    OBVIOUS
  <2> QED
    BY <2>1
<1>2. OverAfter(m, size, stride, delay, k, n, p)
  BY DEF OverAfter
<1>3. Laid(m, size, stride, delay, k + n, p) = Laid(m, size, stride, delay, k, p)
  BY <1>2, LaidIsOver
<1> QED
  BY <1>1, <1>3, Zenon

\* And early ones none in what comes out after their kernels.
Outruns(m, size, stride, delay, k, p) ==
    /\ size \in Nat \ {0} /\ stride \in Nat \ {0} /\ delay \in Int /\ Sounds(m, delay)
    /\ k \in Nat /\ \E i \in Nat : i >= size /\ p = k * stride + i
LEMMA LaidPast ==
    ASSUME NEW m, NEW size, NEW stride, NEW delay, NEW k, NEW p,
           Outruns(m, size, stride, delay, k, p)
    PROVE  Laid(m, size, stride, delay, k, p) = 0
<1> USE DEF Outruns
<1>0. PICK i \in Nat : i >= size /\ p = k * stride + i
  OBVIOUS
<1> DEFINE u == k * stride
           x == [j \in 1 .. k |-> Tap(size, Reach(stride, p, j), m[j - delay])]
<1>1. u \in Int /\ p \in Int /\ p = u + i
  BY <1>0
<1>2. ASSUME NEW j \in 1 .. k PROVE x[j] = 0
  <2> DEFINE v == (j - 1) * stride
  <2>1. v + stride <= u /\ v \in Int
    <3>1. v + stride = j * stride
      OBVIOUS
    <3>2. j * stride <= k * stride
      BY TimesGrows
    <3> QED
      BY <3>1, <3>2
  <2>2. Reach(stride, p, j) = p - v
    BY DEF Reach
  <2>3. p - v \in Int /\ p - v > size
    <3>1. i >= size /\ size \in Int /\ stride \in Nat \ {0}
      BY <1>0
    <3> HIDE DEF u, v, Outruns
    <3> QED
      BY <1>1, <2>1, <3>1
  <2>4. m[j - delay] \in Int
    BY DEF Sounds
  <2>5. x[j] = Tap(size, Reach(stride, p, j), m[j - delay])
    BY Zenon
  <2> HIDE DEF x, v
  <2> QED
    BY <2>2, <2>3, <2>4, <2>5, TapIs, Zenon
<1>3. x \in [1 .. k -> Int]
  <2>1. x = [j \in 1 .. k |-> x[j]]
    BY Zenon
  <2> HIDE DEF x
  <2> QED
    BY <1>2, <2>1
<1>4. Total(x) = 0
  <2> HIDE DEF x
  <2> QED
    BY <1>2, <1>3, TotalOfSilence, Zenon
<1> QED
  BY <1>4, Zenon DEF Laid

\* What a deconvolution makes of a pulse.
Spread(m, size, stride, n, delay, t) ==
    Deconvolved(PulseOf(m, t, n, delay), Kernel(size, stride), stride - 1)
\* The frames of t pulses of n.
FramesOf(t, n) == t * n
\* Place i of what it makes of pulse t, among all that is spread.
Place(t, n, stride, i) == (FramesOf(t, n) * stride) + i

LEMMA SpreadLenIs ==
    ASSUME NEW n \in Nat \ {0}, NEW size \in Nat \ {0}, NEW stride \in Nat \ {0}
    PROVE  /\ n * stride \in Nat \ {0} /\ SpreadLen(n, size, stride) \in Nat \ {0}
           /\ SpreadLen(n, size, stride) = n * stride + (size - 1)
           /\ (n - 1) * stride + size + (stride - 1) = SpreadLen(n, size, stride)
<1> DEFINE u == n * stride
           v == (n - 1) * stride
<1>1. u \in Nat \ {0} /\ v \in Int /\ v + stride = u
  OBVIOUS
<1> HIDE DEF u, v
<1>2. /\ (u + size) - 1 \in Nat \ {0} /\ (u + size) - 1 = u + (size - 1)
      /\ v + size + (stride - 1) = (u + size) - 1
  BY <1>1
<1> QED
  BY <1>1, <1>2 DEF SpreadLen, u, v

LEMMA FramesOfIs ==
    ASSUME NEW t \in Nat, NEW n \in Nat
    PROVE  FramesOf(t, n) \in Nat /\ FramesOf(t + 1, n) = FramesOf(t, n) + n
<1>1. t * n \in Nat /\ (t + 1) * n = (t * n) + n
  OBVIOUS
<1> QED
  BY <1>1 DEF FramesOf

LEMMA PlaceIs ==
    ASSUME NEW t \in Nat, NEW n \in Nat \ {0}, NEW stride \in Nat \ {0}, NEW i \in Int
    PROVE  /\ Place(t, n, stride, i) \in Int
           /\ Onward(stride, Place(t, n, stride, i), FramesOf(t, n)) = i
<1> DEFINE k == FramesOf(t, n)
           u == k * stride
<1>1. k \in Nat
  BY FramesOfIs
<1> HIDE DEF k
<1>2. u \in Int
  BY <1>1
<1>3. Place(t, n, stride, i) = u + i /\ Onward(stride, u + i, k) = (u + i) - u
  BY DEF Place, Onward, k
<1> HIDE DEF u
<1> QED
  BY <1>2, <1>3 DEF k

LEMMA PlaceMoves ==
    ASSUME NEW t \in Nat, NEW n \in Nat \ {0}, NEW stride \in Nat \ {0}, NEW i \in Int
    PROVE  /\ Place(t, n, stride, i) = t * (n * stride) + i
           /\ Place(t + 1, n, stride, i) = Place(t, n, stride, n * stride + i)
<1> DEFINE k == t * n
           u == k * stride
           z == n * stride
<1>1. k \in Nat /\ (t + 1) * n = k + n
  OBVIOUS
<1>2. u = t * z /\ z \in Int
  OBVIOUS
<1>3. u \in Int /\ (k + n) * stride = u + z
  <2> HIDE DEF k
  <2> QED
    BY <1>1
<1>4. Place(t, n, stride, i) = u + i /\ Place(t, n, stride, z + i) = u + (z + i)
  BY DEF Place, FramesOf
<1>5. Place(t + 1, n, stride, i) = (u + z) + i
  BY <1>1, <1>3 DEF Place, FramesOf
<1> HIDE DEF u, z
<1>6. (u + z) + i = u + (z + i)
  BY <1>2, <1>3
<1> QED
  BY <1>2, <1>4, <1>5, <1>6 DEF z

LEMMA PulseOfIs ==
    ASSUME NEW m, NEW delay \in Int, Sounds(m, delay), NEW t \in Nat, NEW n \in Nat \ {0}
    PROVE  PulseOf(m, t, n, delay) \in [1 .. n -> Int]
<1> DEFINE k == t * n
<1>1. k \in Nat
  OBVIOUS
<1>2. ASSUME NEW i \in 1 .. n PROVE m[(k + i) - delay] \in Int
  <2>1. k + i \in Nat \ {0}
    <3> HIDE DEF k
    <3> QED
      BY <1>1
  <2> HIDE DEF k
  <2> QED
    BY <2>1 DEF Sounds
<1> QED
  BY <1>2 DEF PulseOf

\* Pulse t adds to what the ones before have laid.
LEMMA LaidByPulse ==
    ASSUME NEW m, NEW size \in Nat \ {0}, NEW stride \in Nat \ {0},
           NEW delay \in Int, Sounds(m, delay), NEW t \in Nat, NEW n \in Nat \ {0},
           NEW i \in 1 .. SpreadLen(n, size, stride)
    PROVE  /\ Spread(m, size, stride, n, delay, t)[i] \in Int
           /\ Laid(m, size, stride, delay, FramesOf(t, n), Place(t, n, stride, i)) \in Int
           /\ LaidAfter(m, size, stride, delay, FramesOf(t, n), n, Place(t, n, stride, i))
                 = Spread(m, size, stride, n, delay, t)[i]
           /\ Laid(m, size, stride, delay, FramesOf(t, n) + n, Place(t, n, stride, i))
                 = Laid(m, size, stride, delay, FramesOf(t, n), Place(t, n, stride, i))
                      + Spread(m, size, stride, n, delay, t)[i]
<1> DEFINE k == FramesOf(t, n)
           p == Place(t, n, stride, i)
           x == PulseOf(m, t, n, delay)
           y == Taps(x, n, size, stride, i)
<1>1. /\ SpreadLen(n, size, stride) \in Nat
      /\ (n - 1) * stride + size + (stride - 1) = SpreadLen(n, size, stride)
  BY SpreadLenIs
<1>2. k \in Nat /\ p \in Int /\ Onward(stride, p, k) = i /\ i \in Int
  <2>1. i \in Int
    BY <1>1
  <2>2. k \in Nat
    BY FramesOfIs
  <2>3. p \in Int
    BY <2>1, PlaceIs
  <2>4. Onward(stride, p, k) = i
    BY <2>1, PlaceIs
  <2> QED
    BY <2>1, <2>2, <2>3, <2>4
<1>3. x \in [1 .. n -> Int]
  BY PulseOfIs
<1>4. Spread(m, size, stride, n, delay, t)[i] = Total(y)
  <2> DEFINE len == SpreadLen(n, size, stride)
             more == stride - 1
  <2>1. SpreadsOver(n, size, stride, more, len) /\ i \in 1 .. len /\ n \in Nat /\ more \in Nat
    BY <1>1 DEF SpreadsOver
  <2> HIDE DEF x, len, more
  <2>2. Deconvolved(x, Kernel(size, stride), more)[i] = Total(y)
    BY <1>3, <2>1, DeconvolvedIs
  <2> QED
    BY <2>2 DEF Spread, x, more
<1>5. LaidAfter(m, size, stride, delay, k, n, p) = Total(y)
  <2>1. \A j \in 1 .. n : x[j] = m[(k + j) - delay]
    BY DEF PulseOf, FramesOf
  <2>2. y = [j \in 1 .. n |-> Tap(size, Reach(stride, Onward(stride, p, k), j), m[(k + j) - delay])]
    <3> HIDE DEF x, k, p
    <3> QED
      BY <1>2, <2>1 DEF Taps
  <2> QED
    BY <2>2, Zenon DEF LaidAfter
<1> HIDE DEF k, p, y
<1>6. /\ Laid(m, size, stride, delay, k, p) \in Int
      /\ LaidAfter(m, size, stride, delay, k, n, p) \in Int
      /\ Laid(m, size, stride, delay, k + n, p)
            = Laid(m, size, stride, delay, k, p) + LaidAfter(m, size, stride, delay, k, n, p)
  BY <1>2, LaidOn
<1> QED
  BY <1>4, <1>5, <1>6, Zenon DEF k, p

\* What is laid end to end, place by place.
LEMMA ChoppedIs ==
    ASSUME NEW m, NEW size \in Nat \ {0}, NEW stride \in Nat \ {0}, NEW delay \in Nat,
           NEW t \in Nat, NEW n \in Nat \ {0}, NEW i \in 1 .. SpreadLen(n, size, stride),
           NEW k, k = (FramesOf(t, SpreadLen(n, size, stride)) - delay) + i
    PROVE  /\ k \in DOMAIN Chopped(m, size, stride, n, delay)
           /\ Chopped(m, size, stride, n, delay)[k] = Spread(m, size, stride, n, delay, t)[i]
<1> DEFINE len == SpreadLen(n, size, stride)
           before == (k + delay) - 1
<1>1. len \in Nat \ {0}
  BY SpreadLenIs
<1> HIDE DEF len
<1> DEFINE u == t * len
           e == i - 1
<1>2. u \in Nat /\ i \in 1 .. len /\ e \in 0 .. len - 1
  <2>1. i \in 1 .. len
    BY DEF len
  <2> QED
    BY <1>1, <2>1
<1>3. k = (u - delay) + i
  BY DEF FramesOf, len
<1> HIDE DEF e
<1>4. (u + e) \div len = t /\ (u + e) % len = e
  BY <1>1, <1>2, ModOf
<1> HIDE DEF u
<1>5. before = u + e /\ k \in Int /\ k + delay >= 1 /\ e + 1 = i
  <2>1. e = i - 1 /\ i \in Int /\ e \in Nat
    BY <1>1, <1>2 DEF e
  <2> QED
    BY <1>2, <1>3, <2>1
<1>6. before \div len = t /\ (before % len) + 1 = i
  BY <1>4, <1>5, Zenon
<1> HIDE DEF before
<1>7. Chopped(m, size, stride, n, delay)[k]
         = Deconvolved(PulseOf(m, before \div len, n, delay), Kernel(size, stride), stride - 1)[(before % len) + 1]
  BY <1>5, Zenon DEF Chopped, len, before
<1>8. k \in DOMAIN Chopped(m, size, stride, n, delay)
  BY <1>5 DEF Chopped
<1> QED
  BY <1>6, <1>7, <1>8, Zenon DEF Spread

LEMMA InSilenceIs ==
    ASSUME NEW x \in Seq(Int), NEW delay \in Nat
    PROVE  /\ Sounds(InSilence(x, delay), delay)
           /\ \A j \in Nat \ {0} :
                 /\ j - delay \in DOMAIN InSilence(x, delay)
                 /\ InSilence(x, delay)[j - delay]
                       = IF j - delay \in 1 .. Len(x) THEN x[j - delay] ELSE 0
<1> DEFINE m == InSilence(x, delay)
<1>1. DOMAIN m = {j \in Int : j + delay >= 1}
  BY DEF InSilence
<1>2. \A i \in DOMAIN m : m[i] = IF i \in 1 .. Len(x) THEN x[i] ELSE 0
  BY DEF InSilence, Silence
<1> HIDE DEF m
<1>3. ASSUME NEW j \in Nat \ {0}
      PROVE  j - delay \in DOMAIN m /\ m[j - delay] = IF j - delay \in 1 .. Len(x) THEN x[j - delay] ELSE 0
  <2>1. j - delay \in DOMAIN m
    BY <1>1
  <2> QED
    BY <1>2, <2>1
<1>4. \A j \in Nat \ {0} : m[j - delay] \in Int
  <2>1. \A i \in 1 .. Len(x) : x[i] \in Int
    OBVIOUS
  <2> QED
    BY <1>3, <2>1
<1>5. Sounds(m, delay)
  BY <1>4 DEF Sounds
<1> QED
  BY <1>3, <1>5 DEF m

\* Where strides are single, or nothing is late.
IsScaled(stride, delay) == stride = 1 \/ delay = 0
LEMMA ScaledIs ==
    ASSUME NEW stride \in Nat \ {0}, NEW delay \in Nat, IsScaled(stride, delay)
    PROVE  delay * stride = delay
<1>1. CASE stride = 1
  BY <1>1
<1>2. CASE delay = 0
  BY <1>2
<1> QED
  BY <1>1, <1>2 DEF IsScaled

\* What the frames of x, that are `delay' late, are laid to.
LEMMA LaidWhole ==
    ASSUME NEW x \in Seq(Int), NEW size \in Nat \ {0}, NEW stride \in Nat \ {0}, NEW delay \in Nat,
           IsScaled(stride, delay), NEW len, SpreadsOver(Len(x), size, stride, 0, len),
           NEW p \in Int, p - delay \in 1 .. len
    PROVE  Laid(InSilence(x, delay), size, stride, delay, delay + Len(x), p)
              = Deconvolved(x, Kernel(size, stride), 0)[p - delay]
<1> DEFINE m == InSilence(x, delay)
           n == Len(x)
           y == Taps(x, n, size, stride, p - delay)
<1>1. /\ Sounds(m, delay)
      /\ \A j \in Nat \ {0} : m[j - delay] = IF j - delay \in 1 .. n THEN x[j - delay] ELSE 0
  BY InSilenceIs
<1>2. n \in Nat /\ x \in [1 .. n -> Int]
  BY SequenceIsListed
<1> HIDE DEF m, n
<1>3. Deconvolved(x, Kernel(size, stride), 0)[p - delay] = Total(y)
  <2> DEFINE r == p - delay
  <2>1. 0 \in Nat /\ SpreadsOver(n, size, stride, 0, len) /\ r \in 1 .. len
    BY DEF n
  <2> HIDE DEF r
  <2> QED
    BY <1>2, <2>1, DeconvolvedIs DEF r
<1>4. Onward(stride, p, delay) = p - delay
  <2>1. delay * stride = delay
    BY ScaledIs
  <2> QED
    BY <2>1, Zenon DEF Onward
<1>5. LaidAfter(m, size, stride, delay, delay, n, p) = Total(y)
  <2>1. ASSUME NEW i \in 1 .. n PROVE m[(delay + i) - delay] = x[i]
    <3>1. delay + i \in Nat \ {0} /\ (delay + i) - delay = i
      BY <1>2
    <3> QED
      BY <1>1, <3>1
  <2>2. y = [i \in 1 .. n |-> Tap(size, Reach(stride, Onward(stride, p, delay), i), m[(delay + i) - delay])]
    BY <1>4, <2>1 DEF Taps
  <2> QED
    BY <2>2, Zenon DEF LaidAfter
<1>6. Laid(m, size, stride, delay, delay, p) = 0
  <2> DEFINE z == [j \in 1 .. delay |-> Tap(size, Reach(stride, p, j), m[j - delay])]
  <2>1. ASSUME NEW j \in 1 .. delay PROVE z[j] = 0
    <3>1. m[j - delay] = 0
      <4>1. j \in Nat \ {0} /\ j - delay \notin 1 .. n
        OBVIOUS
      <4> QED
        BY <1>1, <4>1
    <3>2. Reach(stride, p, j) \in Int
      <4>1. stride \in Int /\ j \in Int /\ 0 \in Int
        OBVIOUS
      <4> QED
        BY <4>1, ReachIs, Zenon
    <3>3. z[j] = Tap(size, Reach(stride, p, j), m[j - delay])
      BY Zenon
    <3> HIDE DEF z
    <3>4. 0 \in Int
      OBVIOUS
    <3> QED
      BY <3>1, <3>2, <3>3, <3>4, TapIs, Zenon
  <2>2. z \in [1 .. delay -> Int]
    <3>1. z = [j \in 1 .. delay |-> z[j]]
      BY Zenon
    <3> HIDE DEF z
    <3> QED
      BY <2>1, <3>1
  <2>3. Total(z) = 0
    <3> HIDE DEF z
    <3> QED
      BY <2>1, <2>2, TotalOfSilence, Zenon
  <2> QED
    BY <2>3, Zenon DEF Laid
<1> HIDE DEF y
<1>7. /\ LaidAfter(m, size, stride, delay, delay, n, p) \in Int
      /\ Laid(m, size, stride, delay, delay + n, p)
            = Laid(m, size, stride, delay, delay, p) + LaidAfter(m, size, stride, delay, delay, n, p)
  <2>1. delay \in Nat /\ delay \in Int
    OBVIOUS
  <2> QED
    BY <1>1, <1>2, <2>1, LaidOn
<1>8. Total(y) \in Int /\ Laid(m, size, stride, delay, delay + n, p) = 0 + Total(y)
  BY <1>5, <1>6, <1>7, Zenon
<1> DEFINE a == Laid(m, size, stride, delay, delay + n, p)
           b == Total(y)
<1>9. b \in Int /\ a = 0 + b
  BY <1>8
<1> HIDE DEF a, b
<1>10. a = b
  BY <1>9
<1> QED
  BY <1>3, <1>10, Zenon DEF a, b, m, n

\* And so they are once all kernels that reach p have been.
LEMMA LaidIsSpread ==
    ASSUME NEW x \in Seq(Int), NEW size \in Nat \ {0}, NEW stride \in Nat \ {0}, NEW delay \in Nat,
           IsScaled(stride, delay), NEW len, SpreadsOver(Len(x), size, stride, 0, len),
           NEW p \in Int, p - delay \in 1 .. len, NEW k \in Nat, IsOver(stride, p, k)
    PROVE  Laid(InSilence(x, delay), size, stride, delay, k, p)
              = Deconvolved(x, Kernel(size, stride), 0)[p - delay]
<1> DEFINE m == InSilence(x, delay)
           e == delay + Len(x)
<1>1. Laid(m, size, stride, delay, e, p) = Deconvolved(x, Kernel(size, stride), 0)[p - delay]
  BY LaidWhole
<1>2. /\ Sounds(m, delay)
      /\ \A j \in Nat \ {0} : m[j - delay] = IF j - delay \in 1 .. Len(x) THEN x[j - delay] ELSE 0
  BY InSilenceIs
<1>3. Len(x) \in Nat /\ e \in Nat /\ delay \in Int
  OBVIOUS
<1> HIDE DEF m
<1>4. CASE k <= e
  <2>1. Sounds(m, delay)
    BY <1>2
  <2> HIDE DEF e
  <2>2. Laid(m, size, stride, delay, e, p) = Laid(m, size, stride, delay, k, p)
    BY <1>3, <1>4, <2>1, LaidBefore
  <2> QED
    BY <1>1, <2>2, Zenon DEF m
<1>5. CASE k > e
  <2> DEFINE n == k - e
  <2>1. n \in Nat /\ e + n = k
    BY <1>3, <1>5
  <2>2. ASSUME NEW i \in 1 .. n PROVE m[(e + i) - delay] = 0
    <3>1. e + i \in Nat \ {0} /\ (e + i) - delay \notin 1 .. Len(x)
      BY <1>3
    <3> QED
      BY <1>2, <3>1
  <2> HIDE DEF n, e
  <2>3. Mute(m, size, stride, delay, e, n, p)
    BY <2>2, Zenon DEF Mute
  <2>4. Laid(m, size, stride, delay, e + n, p) = Laid(m, size, stride, delay, e, p)
    BY <1>2, <1>3, <2>1, <2>3, LaidMute
  <2> QED
    BY <1>1, <2>1, <2>4, Zenon DEF m
<1> QED
  BY <1>3, <1>4, <1>5

\* A pulse adds nothing after the last kernel.
LEMMA SpreadIsCut ==
    ASSUME NEW x \in Seq(Int), NEW size \in Nat \ {0}, NEW stride \in Nat \ {0}, NEW delay \in Nat,
           IsScaled(stride, delay), NEW len \in Int, SpreadsOver(Len(x), size, stride, 0, len),
           NEW t \in Nat, NEW n \in Nat \ {0}, NEW i \in 1 .. SpreadLen(n, size, stride),
           Place(t, n, stride, i) - delay > len
    PROVE  Spread(InSilence(x, delay), size, stride, n, delay, t)[i] = 0
<1> DEFINE m == InSilence(x, delay)
           l == Len(x)
           k == FramesOf(t, n)
           p == Place(t, n, stride, i)
<1>1. /\ Sounds(m, delay)
      /\ \A j \in Nat \ {0} : m[j - delay] = IF j - delay \in 1 .. l THEN x[j - delay] ELSE 0
  BY InSilenceIs
<1>2. l \in Nat /\ delay \in Int /\ stride \in Int /\ i \in Int
  <2>1. SpreadLen(n, size, stride) \in Nat
    BY SpreadLenIs
  <2> QED
    BY <2>1
<1>3. k \in Nat
  BY FramesOfIs
<1>4. p \in Int
  BY <1>2, PlaceIs
<1>5. p - delay > len
  OBVIOUS
<1> HIDE DEF m, k, p
<1> DEFINE v == (l - 1) * stride
<1>6. v \in Int /\ len = v + size + 0
  BY <1>2 DEF SpreadsOver
<1>7. ((delay + l) - 1) * stride = delay + v
  <2>1. delay * stride = delay
    BY ScaledIs
  <2>2. ((delay + l) - 1) * stride = (delay * stride) + ((l - 1) * stride)
    <3> HIDE DEF l
    <3> QED
      BY <1>2
  <2> QED
    BY <2>1, <2>2
<1> HIDE DEF v, l
<1>8. ASSUME NEW j \in 1 .. n
      PROVE  m[(k + j) - delay] = 0 \/ Reach(stride, Onward(stride, p, k), j) > size
  <2> DEFINE J == k + j
  <2>1. J \in Nat \ {0} /\ J - 1 \in Int /\ j \in Int /\ k \in Int
    BY <1>3
  <2>2. CASE J - delay \notin 1 .. l
    BY <1>1, <2>1, <2>2
  <2>3. CASE J - delay \in 1 .. l
    <3>1. Reach(stride, p, k + j) = Reach(stride, Onward(stride, p, k), j)
      BY <1>2, <1>4, <2>1, ReachIs
    <3> DEFINE w == (J - 1) * stride
               g == (delay + l) - 1
    <3>2. J - 1 <= g /\ g \in Int
      BY <1>2, <2>1, <2>3
    <3>3. w \in Int
      <4> HIDE DEF J
      <4> QED
        BY <1>2, <2>1
    <3>4. w <= delay + v
      <4>1. g * stride = delay + v
        BY <1>7
      <4>2. (J - 1) * stride <= g * stride
        <5>1. stride \in Nat
          OBVIOUS
        <5> HIDE DEF J, g
        <5> QED
          BY <2>1, <3>2, <5>1, TimesGrows
      <4> QED
        BY <4>1, <4>2
    <3>5. Reach(stride, p, k + j) = p - w
      BY DEF Reach
    <3> HIDE DEF w, J, g
    <3>6. p - w > size
      BY <1>2, <1>4, <1>5, <1>6, <3>3, <3>4
    <3> QED
      BY <3>1, <3>5, <3>6
  <2> QED
    BY <2>2, <2>3
<1>9. Mute(m, size, stride, delay, k, n, p)
  BY <1>8, Zenon DEF Mute
<1>10. LaidAfter(m, size, stride, delay, k, n, p) = 0
  <2>1. n \in Nat
    OBVIOUS
  <2> QED
    BY <1>1, <1>2, <1>3, <1>4, <1>9, <2>1, LaidSilent
<1>11. LaidAfter(m, size, stride, delay, k, n, p) = Spread(m, size, stride, n, delay, t)[i]
  BY <1>1, <1>2, LaidByPulse DEF k, p
<1> QED
  BY <1>10, <1>11, Zenon DEF m

-----------------------------------------------------------------------------
(* What is appended to a stream: whether its end is known in time.           *)

\* As long as whole pulses of a stream come, those of wire w do not reach past
\* its last valid frame.
Ends(p, w, s) == FactOf(p, w).delay + FactOf(p, w).dim[s]
IsEarly(p, w, pulse) ==
    \A s \in Lengths : \A t \in Nat : t * pulse + pulse <= s =>
        t * (FactOf(p, w).pulse - Past(p, w)) + FactOf(p, w).pulse <= Ends(p, w, s)
\* A node that minds where a stream ends: it adds frames to the end, or clears
\* those after it.
Tailed(node) ==
    \/ node.kind = "pad" /\ node.after > 0
    \/ node.kind = "concat" /\ node.post # <<>>
    \/ node.kind = "mask"
\* Those that do are on wires that are early.
Tells(p, pulse) ==
    \A n \in 1 .. Len(p.nodes) :
        Tailed(p.nodes[n]) => IsEarly(p, p.nodes[n].from[1], pulse)

\* Of wire `from' of p, wire w of q is what an operator makes.
Carries(p, q, from, w, pulse, ends) ==
    /\ Continues(p, q) /\ w \in 0 .. Len(q.nodes)
    /\ Tells(p, pulse) /\ (ends => IsEarly(p, from, pulse)) => Tells(q, pulse)
    /\ IsEarly(p, from, pulse) => IsEarly(q, w, pulse)

\* The past in a pulse is not the whole of it.
LEMMA PastIs ==
    ASSUME NEW p, IsPulsed(p), NEW w \in 0 .. Len(p.nodes)
    PROVE  Past(p, w) \in Nat /\ Past(p, w) < FactOf(p, w).pulse
<1> DEFINE node == p.nodes[w]
           from == node.from[1]
           in == FactOf(p, from)
           out == FactOf(p, w)
<1>1. FactOf(p, w) \in Fact /\ Len(p.nodes) \in Nat
  BY FactOfWire, WireCount
<1>2. out.pulse \in Nat \ {0}
  BY <1>1, FactsAre
<1>3. CASE ~(w \in 1 .. Len(p.nodes) /\ node.kind \in {"delay", "pad"})
  BY <1>2, <1>3 DEF Past
<1>4. CASE w \in 1 .. Len(p.nodes) /\ node.kind \in {"delay", "pad"}
  <2>1. Past(p, w) = node.overlap
    BY <1>4 DEF Past
  <2>2. /\ Reads(node, w) /\ IsNode(node, Past(p, from), in, out)
    BY <1>4 DEF IsPulsed
  <2>3. from \in 0 .. Len(p.nodes)
    <3>1. from \in 0 .. w - 1
      BY <1>4, <2>2 DEF Reads
    <3> QED
      BY <1>1, <3>1
  <2>4. in \in Fact
    BY <2>3, FactOfWire
  <2>5. in.pulse \in Nat \ {0}
    BY <2>4, FactsAre
  <2> HIDE DEF in, out, node
  <2> DEFINE a == in.pulse
             b == node.overlap
             c == out.pulse
  <2>6. b \in Nat /\ (c = a + b \/ (c = a /\ b < a))
    <3>1. CASE node.kind = "delay"
      BY <2>2, <3>1 DEF IsNode
    <3>2. CASE node.kind = "pad"
      <4>1. b \in Nat /\ c = a /\ Past(p, from) = b /\ Past(p, from) < a
        BY <2>2, <3>2 DEF IsNode
      <4> QED
        BY <4>1
    <3> QED
      BY <1>4, <3>1, <3>2 DEF node
  <2>7. b < c
    <3> HIDE DEF a, b, c
    <3> QED
      BY <2>5, <2>6 DEF a
  <2> QED
    BY <2>1, <2>6, <2>7 DEF out
<1> QED
  BY <1>3, <1>4

LEMMA StaysAsEarly ==
    ASSUME NEW p, NEW q, Continues(p, q), NEW w \in 0 .. Len(p.nodes), NEW pulse
    PROVE  IsEarly(q, w, pulse) = IsEarly(p, w, pulse)
<1>1. FactOf(q, w) = FactOf(p, w) /\ Past(q, w) = Past(p, w)
  BY DEF Continues
<1> QED
  BY <1>1 DEF IsEarly, Ends

LEMMA StaysEarly ==
    ASSUME NEW p, NEW from, NEW q, NEW w, NEW pulse \in Nat, IsEarly(p, from, pulse),
           FactOf(p, from).pulse \in Nat, Past(p, from) \in Nat,
           NEW more \in Nat,
           FactOf(q, w).pulse = FactOf(p, from).pulse + more,
           Past(q, w) = Past(p, from) + more,
           \A s \in Lengths : Ends(p, from, s) \in Int /\ Ends(q, w, s) \in Int
                              /\ Ends(q, w, s) >= Ends(p, from, s) + more
    PROVE  IsEarly(q, w, pulse)
<1> DEFINE a == FactOf(p, from).pulse
           b == Past(p, from)
           c == FactOf(q, w).pulse
           d == Past(q, w)
<1>1. a \in Nat /\ b \in Nat /\ c = a + more /\ d = b + more
  OBVIOUS
<1> SUFFICES ASSUME NEW s \in Lengths, NEW t \in Nat, t * pulse + pulse <= s
             PROVE  t * (c - d) + c <= Ends(q, w, s)
  BY DEF IsEarly
<1>2. t * (a - b) + a <= Ends(p, from, s)
  BY DEF IsEarly
<1>3. Ends(p, from, s) \in Int /\ Ends(q, w, s) \in Int /\ Ends(q, w, s) >= Ends(p, from, s) + more
  OBVIOUS
<1> HIDE DEF a, b, c, d
<1>4. c - d = a - b /\ a - b \in Int
  BY <1>1
<1> DEFINE m == t * (a - b)
<1>5. m \in Int /\ t * (c - d) = m
  BY <1>4
<1>6. m + a <= Ends(p, from, s)
  BY <1>2
<1> HIDE DEF m
<1> QED
  BY <1>1, <1>3, <1>5, <1>6

\* A node of p.
LEMMA NodeTold ==
    ASSUME NEW p, IsPulsed(p), NEW q, Continues(p, q), NEW n \in 1 .. Len(p.nodes),
           NEW pulse, Tells(p, pulse)
    PROVE  Tailed(q.nodes[n]) => IsEarly(q, q.nodes[n].from[1], pulse)
<1>1. Len(p.nodes) \in Nat
  BY WireCount
<1>2. q.nodes[n] = p.nodes[n]
  BY DEF Continues
<1>3. Tailed(p.nodes[n]) => IsEarly(p, p.nodes[n].from[1], pulse)
  BY DEF Tells
<1>4. Tailed(p.nodes[n]) => p.nodes[n].from[1] \in 0 .. Len(p.nodes)
  <2>1. Reads(p.nodes[n], n)
    BY DEF IsPulsed
  <2>2. Len(p.nodes[n].from) >= 1
    BY <2>1 DEF Reads
  <2>3. p.nodes[n].from[1] \in 0 .. n - 1
    BY <2>1, <2>2 DEF Reads
  <2> QED
    BY <1>1, <2>3
<1> QED
  BY <1>2, <1>3, <1>4, StaysAsEarly

\* And one after those.
LEMMA NodeTells ==
    ASSUME NEW p, IsPulsed(p), NEW q, Continues(p, q), Len(q.nodes) = Len(p.nodes) + 1,
           NEW node, q.nodes[Len(p.nodes) + 1] = node,
           NEW pulse, Tells(p, pulse),
           Tailed(node) => node.from[1] \in 0 .. Len(p.nodes) /\ IsEarly(p, node.from[1], pulse)
    PROVE  Tells(q, pulse)
<1>1. Len(p.nodes) \in Nat
  BY WireCount
<1> SUFFICES ASSUME NEW n \in 1 .. Len(q.nodes)
             PROVE  Tailed(q.nodes[n]) => IsEarly(q, q.nodes[n].from[1], pulse)
  BY DEF Tells
<1>2. CASE n = Len(p.nodes) + 1
  BY <1>2, StaysAsEarly
<1>3. CASE n # Len(p.nodes) + 1
  <2>1. n \in 1 .. Len(p.nodes)
    BY <1>1, <1>3
  <2> QED
    BY <2>1, NodeTold
<1> QED
  BY <1>2, <1>3

LEMMA CarriesOn ==
    ASSUME NEW p, NEW q, NEW r, NEW from, NEW v, NEW w, NEW pulse, NEW ends,
           Carries(p, q, from, v, pulse, FALSE), Carries(q, r, v, w, pulse, ends)
    PROVE  Carries(p, r, from, w, pulse, ends)
  BY ContinuesOn DEF Carries

LEMMA CarriesItself ==
    ASSUME NEW p, IsPulsed(p), NEW from \in 0 .. Len(p.nodes), NEW pulse
    PROVE  Carries(p, p, from, from, pulse, FALSE)
  BY WireCount DEF Carries

\* A node wired last.
LEMMA WiredLast ==
    ASSUME NEW q, IsPulsed(q), NEW node, NEW fact, NEW r, r = Wired(q, node, fact), IsPulsed(r)
    PROVE  /\ Continues(q, r) /\ Len(r.nodes) = Len(q.nodes) + 1 /\ Len(q.nodes) \in Nat
           /\ r.nodes[Len(q.nodes) + 1] = node /\ FactOf(r, Len(r.nodes)) = fact
           /\ Past(r, Len(r.nodes)) = (IF node.kind \in {"delay", "pad"} THEN node.overlap ELSE 0)
           /\ NewWire(r) = Len(r.nodes) /\ Len(r.nodes) \in 0 .. Len(r.nodes)
<1> DEFINE n == Len(q.nodes)
<1>1. IsFrames(q.nodes) /\ IsFrames(q.facts) /\ Len(q.facts) = n + 1
  BY DEF IsPulsed
<1>2. n \in Nat
  BY WireCount
<1>3. r.nodes = Append(q.nodes, node) /\ r.facts = Append(q.facts, fact) /\ r.at = q.at /\ r.ok = q.ok
  BY DEF Wired
<1>4. /\ Len(r.nodes) = n + 1 /\ \A i \in 1 .. n : r.nodes[i] = q.nodes[i]
      /\ r.nodes[n + 1] = node
  BY <1>1, <1>3, AppendedAreFrames
<1>5. (\A i \in 1 .. n + 1 : r.facts[i] = q.facts[i]) /\ r.facts[(n + 1) + 1] = fact
  BY <1>1, <1>3, AppendedAreFrames
<1> HIDE DEF n
<1>6. ASSUME NEW w \in 0 .. n PROVE FactOf(r, w) = FactOf(q, w) /\ Past(r, w) = Past(q, w)
  <2>1. w + 1 \in 1 .. n + 1 /\ (w \in 1 .. Len(r.nodes) <=> w \in 1 .. n)
    BY <1>2, <1>4, <1>6
  <2>2. Past(r, w) = Past(q, w)
    BY <1>4, <2>1 DEF Past, n
  <2> QED
    BY <1>5, <2>1, <2>2 DEF FactOf
<1>7. Continues(q, r)
  BY <1>2, <1>3, <1>4, <1>6 DEF Continues, n
<1>8. n + 1 \in 1 .. Len(r.nodes) /\ FactOf(r, n + 1) = fact
  BY <1>2, <1>4, <1>5 DEF FactOf
<1>9. Past(r, n + 1) = (IF node.kind \in {"delay", "pad"} THEN node.overlap ELSE 0)
  BY <1>4, <1>8 DEF Past
<1> QED
  BY <1>2, <1>4, <1>7, <1>8, <1>9 DEF n, NewWire

LEMMA LastCarries ==
    ASSUME NEW p, NEW q, NEW from, NEW w, NEW pulse, IsPulsed(p), Carries(p, q, from, w, pulse, FALSE),
           NEW node, node.from = <<w>>, NEW fact, NEW r, r = Wired(q, node, fact),
           IsPulsed(r), IsEarly(q, w, pulse) => IsEarly(r, Len(r.nodes), pulse)
    PROVE  Carries(p, r, from, Len(r.nodes), pulse, Tailed(node))
<1>1. IsPulsed(q) /\ w \in 0 .. Len(q.nodes)
  BY DEF Carries, Continues
<1>2. /\ Continues(q, r) /\ Len(r.nodes) = Len(q.nodes) + 1
      /\ r.nodes[Len(q.nodes) + 1] = node /\ Len(r.nodes) \in 0 .. Len(r.nodes)
  BY <1>1, WiredLast
<1>3. node.from[1] = w
  OBVIOUS
<1>4. Tells(q, pulse) /\ (Tailed(node) => IsEarly(q, w, pulse)) => Tells(r, pulse)
  BY <1>1, <1>2, <1>3, NodeTells
<1>5. Carries(q, r, w, Len(r.nodes), pulse, Tailed(node))
  BY <1>2, <1>4 DEF Carries
<1> QED
  BY <1>5, CarriesOn

\* Delays.
LEMMA WiredDelayCarries ==
    ASSUME NEW p, IsPulsed(p), NEW from \in 0 .. Len(p.nodes), Past(p, from) = 0,
           NEW delay \in Nat, NEW overlap \in Nat, NEW pulse \in Nat,
           NEW q, q = WiredDelay(p, from, delay, overlap), NEW w, w = EndOf(p, from, q)
    PROVE  Carries(p, q, from, w, pulse, FALSE)
<1> DEFINE in == FactOf(p, from)
           node == [kind |-> "delay", from |-> <<from>>, delay |-> delay, overlap |-> overlap]
           fact == [pulse |-> in.pulse + overlap, delay |-> in.delay + delay + overlap,
                    dim |-> in.dim]
<1>1. Late(p, q, from, w, delay + overlap, overlap)
  BY WiredDelayIsLate
<1>2. q = Wired(p, node, fact) /\ node.kind = "delay"
  BY DEF WiredDelay
<1> HIDE DEF node, fact
<1>3. Continues(p, q) /\ IsPulsed(q) /\ w \in 0 .. Len(q.nodes)
  BY <1>1 DEF Late, Continues
<1>4. Len(q.nodes) = Len(p.nodes) + 1 /\ q.nodes[Len(p.nodes) + 1] = node
  BY <1>2, <1>3, WiredLast
<1>5. Tells(p, pulse) => Tells(q, pulse)
  BY <1>2, <1>3, <1>4, NodeTells DEF Tailed
<1>6. in.pulse \in Nat /\ in.delay \in Nat /\ in.dim \in Dim
  BY FactOfWire, FactsAre
<1>7. /\ FactOf(q, w).pulse = in.pulse + overlap /\ Past(q, w) = Past(p, from) + overlap
      /\ FactOf(q, w).delay = in.delay + (delay + overlap) /\ FactOf(q, w).dim = in.dim
  BY <1>1 DEF Late
<1>8. ASSUME NEW s \in Lengths
      PROVE  /\ Ends(p, from, s) \in Int /\ Ends(q, w, s) \in Int
             /\ Ends(q, w, s) >= Ends(p, from, s) + overlap
  <2>1. in.dim[s] \in Int
    BY <1>6 DEF Dim
  <2>2. Ends(p, from, s) = in.delay + in.dim[s]
    BY DEF Ends
  <2>3. Ends(q, w, s) = (in.delay + (delay + overlap)) + in.dim[s]
    BY <1>7 DEF Ends
  <2> HIDE DEF in
  <2> QED
    BY <1>6, <2>1, <2>2, <2>3
<1>9. IsEarly(p, from, pulse) => IsEarly(q, w, pulse)
  BY <1>6, <1>7, <1>8, StaysEarly
<1> QED
  BY <1>3, <1>5, <1>9 DEF Carries

LEMMA DelayedByCarries ==
    ASSUME NEW p, IsPulsed(p), NEW from \in 0 .. Len(p.nodes), Past(p, from) = 0,
           NEW delay \in Nat, NEW pulse \in Nat,
           NEW q, q = DelayedBy(p, from, delay), NEW w, w = EndOf(p, from, q)
    PROVE  Carries(p, q, from, w, pulse, FALSE)
<1>1. CASE delay > 0
  <2>1. q = WiredDelay(p, from, delay, 0) /\ 0 \in Nat
    BY <1>1 DEF DelayedBy
  <2> QED
    BY <2>1, WiredDelayCarries
<1>2. CASE ~(delay > 0)
  <2>1. q = p
    BY <1>2 DEF DelayedBy
  <2>2. w = from
    BY <2>1, StaysInTime
  <2> QED
    BY <2>1, <2>2, CarriesItself
<1> QED
  BY <1>1, <1>2

\* An operator that cuts a stream short, whose end is then not where it is
\* looked for; and one that adds to its end, or clears what comes after it.
Drops(op) ==
    \/ op.kind = "slice" /\ op.drop > 0
    \/ op.kind = "deconv" /\ op.size < op.stride + op.after
HasTail(op) ==
    \/ op.kind \in {"pad", "conv", "pool"} /\ op.after > 0
    \/ op.kind = "concat" /\ op.post # <<>>
    \/ op.kind = "deconv"
\* What is overlaid comes in step: a frame that is late is late by as much after
\* it has been spread.
AreInStep(p) ==
    \A n \in 1 .. Len(p.nodes) : p.nodes[n].kind = "deconvdelay" =>
        IsScaled(p.nodes[n].stride, FactOf(p, p.nodes[n].from[1]).delay)
TellsOf(p, q, op, pulse) ==
    /\ Tells(p, pulse) /\ (HasTail(op) => IsEarly(p, At(p, op, 1), pulse)) => Tells(q, pulse)
    /\ IsEarly(p, At(p, op, 1), pulse) /\ ~Drops(op) => IsEarly(q, Len(q.nodes), pulse)

\* A node that gives as many frames as it takes, and not fewer in all.
LEMMA AsManyCarry ==
    ASSUME NEW p, NEW q, NEW from, NEW w, NEW pulse \in Nat, IsPulsed(p), IsPulsed(q),
           Carries(p, q, from, w, pulse, FALSE), w \in 0 .. Len(q.nodes),
           NEW node, node.from = <<w>>, NEW fact \in Fact,
           NEW r, r = Wired(q, node, fact), IsPulsed(r),
           Past(q, w) = (IF node.kind \in {"delay", "pad"} THEN node.overlap ELSE 0),
           fact.pulse = FactOf(q, w).pulse,
           \A s \in Lengths : FactOf(q, w).delay + FactOf(q, w).dim[s] <= fact.delay + fact.dim[s]
    PROVE  Carries(p, r, from, Len(r.nodes), pulse, Tailed(node))
<1> DEFINE last == Len(r.nodes)
<1>1. FactOf(r, last) = fact /\ Past(r, last) = Past(q, w)
  BY WiredLast
<1>2. FactOf(q, w) \in Fact /\ Past(q, w) \in Nat
  BY FactOfWire, PastIs
<1> HIDE DEF last
<1>3. ASSUME NEW s \in Lengths
      PROVE  /\ Ends(q, w, s) \in Int /\ Ends(r, last, s) \in Int
             /\ Ends(r, last, s) >= Ends(q, w, s) + 0
  <2> DEFINE a == FactOf(q, w).delay
             b == FactOf(q, w).dim[s]
             c == fact.delay
             d == fact.dim[s]
  <2>1. a \in Nat /\ b \in Int /\ c \in Nat /\ d \in Int
    BY <1>2, FactsAre DEF Dim
  <2>2. Ends(q, w, s) = a + b /\ Ends(r, last, s) = c + d /\ a + b <= c + d
    BY <1>1 DEF Ends
  <2> HIDE DEF a, b, c, d
  <2> QED
    BY <2>1, <2>2
<1>4. ASSUME IsEarly(q, w, pulse) PROVE IsEarly(r, last, pulse)
  <2>1. FactOf(q, w).pulse \in Nat
    BY <1>2, FactsAre
  <2>2. FactOf(r, last).pulse = FactOf(q, w).pulse + 0 /\ Past(r, last) = Past(q, w) + 0
    BY <1>1, <1>2, <2>1
  <2> QED
    BY <1>2, <1>3, <1>4, <2>1, <2>2, StaysEarly
<1> QED
  BY <1>4, LastCarries DEF last

\* An operator of one node, on its input.
LEMMA OneNodeCarries ==
    ASSUME NEW p, IsPulsed(p), NEW op, Takes(p, op, 1), NEW pulse \in Nat,
           NEW node, node.from = <<At(p, op, 1)>>, node.kind \notin {"delay", "pad"},
           NEW fact \in Fact, NEW r, r = Wired(p, node, fact), IsPulsed(r),
           fact.pulse = FactOf(p, At(p, op, 1)).pulse,
           \A s \in Lengths : FactOf(p, At(p, op, 1)).delay + FactOf(p, At(p, op, 1)).dim[s]
                                 <= fact.delay + fact.dim[s]
    PROVE  Carries(p, r, At(p, op, 1), Len(r.nodes), pulse, Tailed(node))
<1>1. At(p, op, 1) \in 0 .. Len(p.nodes) /\ Past(p, At(p, op, 1)) = 0
  BY DEF Takes
<1>2. Carries(p, p, At(p, op, 1), At(p, op, 1), pulse, FALSE)
  BY <1>1, CarriesItself
<1>3. Past(p, At(p, op, 1)) = (IF node.kind \in {"delay", "pad"} THEN node.overlap ELSE 0)
  BY <1>1
<1> QED
  BY <1>1, <1>2, <1>3, AsManyCarry

LEMMA CumSumTells ==
    ASSUME NEW p, IsPulsed(p), NEW op, op.kind \in {"cumsum", "scan"}, Len(op.from) = 1, Takes(p, op, 1),
           NEW pulse \in Nat, NEW q, q = (IF op.kind = "cumsum" THEN PulsifiedCumSum(p, op) ELSE PulsifiedScan(p, op))
    PROVE  TellsOf(p, q, op, pulse)
<1> DEFINE from == At(p, op, 1)
           fact == FactOf(p, from)
           node == IF op.kind = "cumsum"
                   THEN [kind |-> "cumsum", from |-> <<from>>, skip |-> fact.delay,
                         exclusive |-> op.exclusive]
                   ELSE [kind |-> "scan", from |-> <<from>>, skip |-> fact.delay]
<1>1. fact \in Fact
  BY FactOfWire DEF Takes
<1>2. q = Wired(p, node, fact)
  BY DEF PulsifiedCumSum, PulsifiedScan, At
<1>3. IsPulsed(q)
  BY CumSumTranslates, ScanTranslates DEF Translates, Continues
<1>4. node.from = <<from>> /\ node.kind \in {"cumsum", "scan"}
  OBVIOUS
<1> HIDE DEF fact, node
<1>5. \A s \in Lengths : fact.delay + fact.dim[s] <= fact.delay + fact.dim[s]
  <2> TAKE s \in Lengths
  <2>1. fact.delay \in Nat /\ fact.dim[s] \in Int
    BY <1>1, FactsAre DEF Dim
  <2> QED
    BY <2>1
<1>6. Carries(p, q, from, Len(q.nodes), pulse, Tailed(node))
  BY <1>1, <1>2, <1>3, <1>4, <1>5, OneNodeCarries DEF fact
<1> QED
  BY <1>4, <1>6 DEF TellsOf, Carries, Tailed

LEMMA SliceTells ==
    ASSUME NEW p, IsPulsed(p), NEW op, op.kind = "slice", Len(op.from) = 1, Takes(p, op, 1),
           op.start \in Nat, op.drop \in Nat,
           NEW pulse \in Nat, NEW q, q = PulsifiedSlice(p, op)
    PROVE  TellsOf(p, q, op, pulse)
<1> DEFINE from == At(p, op, 1)
           in == FactOf(p, from)
           node == [kind |-> "identity", from |-> <<from>>]
           dim == Longer(in.dim, -(op.start + op.drop))
           fact == [pulse |-> in.pulse, delay |-> in.delay + op.start, dim |-> dim]
<1>1. in \in Fact /\ from \in 0 .. Len(p.nodes) /\ Past(p, from) = 0
  BY FactOfWire DEF Takes
<1>2. q = Wired(p, node, fact)
  BY DEF PulsifiedSlice, WiredSlice, At
<1>3. IsPulsed(q)
  BY SliceTranslates DEF Translates, Continues
<1>4. node.from = <<from>> /\ node.kind = "identity"
  OBVIOUS
<1>5. fact.pulse = in.pulse /\ fact.delay = in.delay + op.start /\ fact.dim = dim
  OBVIOUS
<1> HIDE DEF node, fact, in
<1>6. dim \in Dim /\ \A s \in Lengths : dim[s] = in.dim[s] + -(op.start + op.drop)
  <2>1. in.dim \in Dim /\ -(op.start + op.drop) \in Int
    BY <1>1, FactsAre
  <2> QED
    BY <2>1, LongerDim
<1> HIDE DEF dim
<1>7. Tells(p, pulse) => Tells(q, pulse)
  <2>1. Continues(p, q) /\ Len(q.nodes) = Len(p.nodes) + 1 /\ q.nodes[Len(p.nodes) + 1] = node
    BY <1>2, <1>3, WiredLast
  <2> QED
    BY <1>4, <2>1, NodeTells DEF Tailed
<1>8. ASSUME ~Drops(op), IsEarly(p, from, pulse) PROVE IsEarly(q, Len(q.nodes), pulse)
  <2>1. op.drop = 0
    BY <1>8 DEF Drops
  <2>2. \A s \in Lengths : in.delay + in.dim[s] <= fact.delay + fact.dim[s]
    <3> TAKE s \in Lengths
    <3> DEFINE a == in.delay
               b == in.dim[s]
               c == op.start
    <3>1. a \in Nat /\ b \in Int /\ c \in Nat
      BY <1>1, FactsAre DEF Dim
    <3>2. fact.delay = a + c /\ fact.dim[s] = b + -(c + 0)
      BY <1>5, <1>6, <2>1
    <3> HIDE DEF a, b, c
    <3>3. a + b <= fact.delay + fact.dim[s]
      BY <3>1, <3>2
    <3> QED
      BY <3>3 DEF a, b
  <2>3. fact \in Fact
    <3>1. FactOf(q, Len(q.nodes)) = fact /\ Len(q.nodes) \in 0 .. Len(q.nodes)
      BY <1>2, <1>3, WiredLast
    <3> QED
      BY <1>3, <3>1, FactOfWire
  <2>4. Carries(p, q, from, Len(q.nodes), pulse, Tailed(node))
    BY <1>1, <1>2, <1>3, <1>4, <1>5, <2>2, <2>3, OneNodeCarries DEF in
  <2> QED
    BY <1>8, <2>4 DEF Carries
<1> QED
  BY <1>7, <1>8 DEF TellsOf

LEMMA NoFewerFrames ==
    ASSUME NEW a \in Int, NEW b \in Int, NEW more \in Nat, NEW before \in Nat, before <= more
    PROVE  a + b <= (a - before) + (b + more)
  OBVIOUS

LEMMA ConcatTells ==
    ASSUME NEW p, IsPulsed(p), NEW op, op.kind = "concat", Len(op.from) = 1, Takes(p, op, 1),
           op.pre \in Seq(Int), op.post \in Seq(Int),
           NEW pulse \in Nat, NEW r, r = PulsifiedConcat(p, op)
    PROVE  TellsOf(p, r, op, pulse)
<1> DEFINE from == At(p, op, 1)
           in == FactOf(p, from)
           more == Positive(Len(op.pre) - in.delay)
           q == DelayedBy(p, from, more)
           w == EndOf(p, from, q)
           seen == FactOf(q, w)
           node == [kind |-> "concat", from |-> <<w>>, pre |-> op.pre, post |-> op.post,
                    delay |-> seen.delay, len |-> in.dim]
           dim == Longer(seen.dim, Len(op.pre) + Len(op.post))
           fact == [pulse |-> seen.pulse, delay |-> seen.delay - Len(op.pre), dim |-> dim]
<1>1. in \in Fact /\ from \in 0 .. Len(p.nodes) /\ Past(p, from) = 0
  BY FactOfWire DEF Takes
<1>2. r = Wired(q, node, fact)
  BY DEF PulsifiedConcat, At
<1>3. IsPulsed(r)
  BY ConcatTranslates DEF Translates, Continues
<1>4. more \in Nat
  <2>1. in.delay \in Nat /\ Len(op.pre) \in Nat
    BY <1>1, FactsAre
  <2> QED
    BY <2>1 DEF Positive
<1>5. Carries(p, q, from, w, pulse, FALSE)
  BY <1>1, <1>4, DelayedByCarries
<1>6. Past(q, w) = 0
  BY <1>1, <1>4, DelayedByIsLate DEF Late
<1> HIDE DEF in, q, w, more
<1>7. IsPulsed(q) /\ w \in 0 .. Len(q.nodes) /\ seen \in Fact
  BY <1>5, FactOfWire DEF Carries, Continues
<1>8. /\ node.from = <<w>> /\ node.kind = "concat" /\ node.post = op.post
      /\ fact.pulse = seen.pulse /\ fact.delay = seen.delay - Len(op.pre) /\ fact.dim = dim
  OBVIOUS
<1> HIDE DEF node, fact, seen
<1>9. fact \in Fact
  <2>1. FactOf(r, Len(r.nodes)) = fact /\ Len(r.nodes) \in 0 .. Len(r.nodes)
    BY <1>2, <1>3, <1>7, WiredLast
  <2> QED
    BY <1>3, <2>1, FactOfWire
<1>10. \A s \in Lengths : seen.delay + seen.dim[s] <= fact.delay + fact.dim[s]
  <2> TAKE s \in Lengths
  <2> DEFINE a == seen.delay
             b == seen.dim[s]
             m == Len(op.pre)
             n == Len(op.pre) + Len(op.post)
  <2>1. seen.delay \in Nat /\ seen.dim \in Dim
    BY <1>7, FactsAre
  <2>2. b \in Int
    BY <2>1 DEF Dim
  <2>3. m \in Nat /\ n \in Nat /\ m <= n
    <3> DEFINE k == Len(op.pre)
               l == Len(op.post)
    <3>1. k \in Nat /\ l \in Nat /\ m = k /\ n = k + l
      OBVIOUS
    <3> HIDE DEF k, l, m, n
    <3> QED
      BY <3>1
  <2>4. dim[s] = b + n
    <3>1. n \in Int
      BY <2>3
    <3> HIDE DEF n
    <3>2. Longer(seen.dim, n)[s] = seen.dim[s] + n
      BY <2>1, <3>1, LongerDim
    <3> QED
      BY <3>2 DEF n
  <2>5. fact.delay = a - m /\ fact.dim[s] = b + n
    BY <1>8, <2>4
  <2> HIDE DEF a, b, m, n
  <2>6. a \in Int
    BY <2>1 DEF a
  <2>7. a + b <= (a - m) + (b + n)
    BY <2>2, <2>3, <2>6, NoFewerFrames
  <2> QED
    BY <2>5, <2>7 DEF a, b
<1>11. Carries(p, r, from, Len(r.nodes), pulse, Tailed(node))
  BY <1>2, <1>3, <1>5, <1>6, <1>7, <1>8, <1>9, <1>10, AsManyCarry DEF seen
<1> QED
  BY <1>8, <1>11 DEF TellsOf, Carries, Tailed, HasTail

LEMMA PadTells ==
    ASSUME NEW p, IsPulsed(p), NEW op, op.kind = "pad", Len(op.from) = 1, Takes(p, op, 1),
           op.before \in Nat, op.after \in Nat,
           NEW pulse \in Nat, NEW r, r = PulsifiedPad(p, op),
           ~(op.mode = "edge" /\ op.before >= FactOf(p, At(p, op, 1)).pulse)
    PROVE  TellsOf(p, r, op, pulse)
<1> DEFINE from == At(p, op, 1)
           in == FactOf(p, from)
           fit == Positive(op.before - in.delay)
           offset == (in.delay + fit) % in.pulse
           align == IF op.mode = "edge" THEN Positive(op.before - offset) ELSE 0
           more == fit + align
           q == DelayedBy(p, from, more)
           w == EndOf(p, from, q)
           seen == FactOf(q, w)
           node == [kind |-> "pad", from |-> <<w>>, mode |-> op.mode, value |-> PadValue,
                    before |-> op.before, after |-> op.after, overlap |-> 0,
                    begin |-> seen.delay, end |-> Longer(seen.dim, seen.delay)]
           dim == Longer(seen.dim, op.before + op.after)
           fact == [pulse |-> seen.pulse, delay |-> seen.delay - op.before, dim |-> dim]
<1>1. in \in Fact /\ from \in 0 .. Len(p.nodes) /\ Past(p, from) = 0
  BY FactOfWire DEF Takes
<1>2. r = Wired(q, node, fact)
  BY DEF PulsifiedPad, WiredPad, At
<1>3. IsPulsed(r)
  BY PadTranslates DEF Translates, Continues
<1>4. more \in Nat
  <2>1. in.delay \in Nat /\ in.pulse \in Nat \ {0}
    BY <1>1, FactsAre
  <2> HIDE DEF in
  <2>2. fit \in Nat
    BY <2>1 DEF Positive
  <2> HIDE DEF fit
  <2>3. offset \in Nat
    BY <2>1, <2>2
  <2> HIDE DEF offset
  <2>4. align \in Nat
    BY <2>3 DEF Positive
  <2> HIDE DEF align
  <2> QED
    BY <2>2, <2>4
<1>5. Carries(p, q, from, w, pulse, FALSE)
  <2> HIDE DEF more
  <2> QED
    BY <1>1, <1>4, DelayedByCarries
<1>6. Past(q, w) = 0
  <2> HIDE DEF more
  <2> QED
    BY <1>1, <1>4, DelayedByIsLate DEF Late
<1> HIDE DEF in, q, w, more
<1>7. IsPulsed(q) /\ w \in 0 .. Len(q.nodes) /\ seen \in Fact
  BY <1>5, FactOfWire DEF Carries, Continues
<1>8. /\ node.from = <<w>> /\ node.kind = "pad" /\ node.after = op.after
      /\ node.overlap = 0
      /\ fact.pulse = seen.pulse /\ fact.delay = seen.delay - op.before /\ fact.dim = dim
  OBVIOUS
<1> HIDE DEF node, fact, seen
<1>9. fact \in Fact
  <2>1. FactOf(r, Len(r.nodes)) = fact /\ Len(r.nodes) \in 0 .. Len(r.nodes)
    BY <1>2, <1>3, <1>7, WiredLast
  <2> QED
    BY <1>3, <2>1, FactOfWire
<1>10. \A s \in Lengths : seen.delay + seen.dim[s] <= fact.delay + fact.dim[s]
  <2> TAKE s \in Lengths
  <2> DEFINE a == seen.delay
             b == seen.dim[s]
             m == op.before
             n == op.before + op.after
  <2>1. seen.delay \in Nat /\ seen.dim \in Dim
    BY <1>7, FactsAre
  <2>2. b \in Int
    BY <2>1 DEF Dim
  <2>3. m \in Nat /\ n \in Nat /\ m <= n
    OBVIOUS
  <2>4. dim[s] = b + n
    <3>1. n \in Int
      BY <2>3
    <3> HIDE DEF n
    <3>2. Longer(seen.dim, n)[s] = seen.dim[s] + n
      BY <2>1, <3>1, LongerDim
    <3> QED
      BY <3>2 DEF n
  <2>5. fact.delay = a - m /\ fact.dim[s] = b + n
    BY <1>8, <2>4
  <2> HIDE DEF a, b, m, n
  <2>6. a \in Int
    BY <2>1 DEF a
  <2>7. a + b <= (a - m) + (b + n)
    BY <2>2, <2>3, <2>6, NoFewerFrames
  <2> QED
    BY <2>5, <2>7 DEF a, b
<1>11. Carries(p, r, from, Len(r.nodes), pulse, Tailed(node))
  BY <1>2, <1>3, <1>5, <1>6, <1>7, <1>8, <1>9, <1>10, AsManyCarry DEF seen
<1> QED
  BY <1>8, <1>11 DEF TellsOf, Carries, Tailed, HasTail

LEMMA SumTells ==
    ASSUME NEW p, IsPulsed(p), NEW op, op.kind = "sum", Len(op.from) = 2,
           Takes(p, op, 1), Takes(p, op, 2), NEW pulse \in Nat, NEW t, t = PulsifiedSum(p, op)
    PROVE  TellsOf(p, t, op, pulse)
<1> DEFINE a == At(p, op, 1)
           b == At(p, op, 2)
           da == FactOf(p, a).delay
           db == FactOf(p, b).delay
           latest == Max({da, db})
           q == DelayedBy(p, a, latest - da)
           r == DelayedBy(q, b, latest - db)
           v == EndOf(p, a, q)
           w == EndOf(q, b, r)
           node == [kind |-> "sum", from |-> <<v, w>>]
           fact == FactOf(r, v)
<1>1. /\ a \in 0 .. Len(p.nodes) /\ Past(p, a) = 0 /\ b \in 0 .. Len(p.nodes) /\ Past(p, b) = 0
      /\ FactOf(p, a) \in Fact /\ FactOf(p, b) \in Fact
  BY FactOfWire DEF Takes
<1>2. t = Wired(r, node, fact)
  BY DEF PulsifiedSum, At
<1>3. latest - da \in Nat /\ latest - db \in Nat
  <2>1. da \in Nat /\ db \in Nat
    BY <1>1, FactsAre
  <2> HIDE DEF da, db
  <2>2. latest = IF da >= db THEN da ELSE db
    BY <2>1, GreatestOfTwo
  <2> HIDE DEF latest
  <2> QED
    BY <2>1, <2>2
<1>4. IsPulsed(t)
  BY SumTranslates DEF Translates, Continues
<1> HIDE DEF latest, a, b
<1>5. Carries(p, q, a, v, pulse, FALSE) /\ Late(p, q, a, v, latest - da, 0)
  BY <1>1, <1>3, DelayedByCarries, DelayedByIsLate
<1> HIDE DEF q, v
<1>6. /\ Continues(p, q) /\ IsPulsed(q) /\ v \in 0 .. Len(q.nodes) /\ Past(q, v) = 0
      /\ b \in 0 .. Len(q.nodes) /\ Past(q, b) = 0
  <2>1. Continues(p, q) /\ v \in 0 .. Len(q.nodes) /\ Past(q, v) = 0
    BY <1>5 DEF Late
  <2>2. Len(p.nodes) \in Nat /\ Len(q.nodes) \in Nat /\ Len(p.nodes) <= Len(q.nodes)
    BY <2>1 DEF Continues
  <2>3. b \in 0 .. Len(q.nodes)
    BY <1>1, <2>2
  <2>4. Past(q, b) = 0 /\ IsPulsed(q)
    BY <1>1, <2>1 DEF Continues
  <2> QED
    BY <2>1, <2>3, <2>4
<1>7. Carries(q, r, b, w, pulse, FALSE)
  BY <1>3, <1>6, DelayedByCarries
<1> HIDE DEF r, w
<1>8. Continues(q, r) /\ IsPulsed(r) /\ Past(r, v) = 0
  BY <1>6, <1>7 DEF Carries, Continues
<1>9. node.kind = "sum" /\ ~Tailed(node)
  BY DEF Tailed
<1> HIDE DEF node, fact
<1>10. /\ Len(t.nodes) = Len(r.nodes) + 1 /\ t.nodes[Len(r.nodes) + 1] = node /\ Continues(r, t)
       /\ FactOf(t, Len(t.nodes)) = fact /\ Past(t, Len(t.nodes)) = 0
  BY <1>2, <1>4, <1>8, <1>9, WiredLast
<1>11. Tells(p, pulse) => Tells(t, pulse)
  <2>1. Tells(p, pulse) => Tells(r, pulse)
    BY <1>5, <1>7 DEF Carries
  <2>2. Tells(r, pulse) => Tells(t, pulse)
    BY <1>8, <1>9, <1>10, NodeTells
  <2> QED
    BY <2>1, <2>2
<1>12. IsEarly(p, a, pulse) => IsEarly(t, Len(t.nodes), pulse)
  <2>1. IsEarly(p, a, pulse) => IsEarly(r, v, pulse)
    BY <1>5, <1>6, <1>8, StaysAsEarly DEF Carries
  <2>2. FactOf(t, Len(t.nodes)) = FactOf(r, v) /\ Past(t, Len(t.nodes)) = Past(r, v)
    BY <1>8, <1>10 DEF fact
  <2>3. IsEarly(r, v, pulse) = IsEarly(t, Len(t.nodes), pulse)
    BY <2>2 DEF IsEarly, Ends
  <2> QED
    BY <2>1, <2>3
<1> QED
  BY <1>11, <1>12 DEF TellsOf, HasTail, a

(* Downsampling, and windows: the last whole one ends with the stream.       *)
LEMMA SampleEndsIn ==
    ASSUME NEW m \in Int, NEW stride \in Nat \ {0}, NEW delay \in Int, NEW dim \in Int,
           NEW modulo \in Int, m * stride <= delay + dim,
           NEW d \in Int, NEW e \in 0 .. stride - 1, delay + modulo = d * stride + e,
           NEW c \in Int, dim - modulo <= c * stride
    PROVE  m <= d + c
<1>1. m * stride <= (d * stride + c * stride) + e
  <2> DEFINE x == m * stride
             y == d * stride
             z == c * stride
  <2>1. x \in Int /\ y \in Int /\ z \in Int /\ x <= delay + dim /\ delay + modulo = y + e /\ dim - modulo <= z
    OBVIOUS
  <2> HIDE DEF x, y, z
  <2>2. x <= (y + z) + e
    BY <2>1
  <2> QED
    BY <2>2 DEF x, y, z
<1>2. (d + c) * stride = d * stride + c * stride
  OBVIOUS
<1> SUFFICES ASSUME m >= (d + c) + 1 PROVE FALSE
  OBVIOUS
<1> DEFINE f == d + c
<1>3. f + 1 \in Int /\ f + 1 <= m /\ stride \in Nat
  OBVIOUS
<1>4. (f + 1) * stride <= m * stride
  <2> HIDE DEF f
  <2> QED
    BY <1>3, TimesGrows
<1>5. (f + 1) * stride = f * stride + stride
  OBVIOUS
<1> DEFINE x == m * stride
           y == f * stride
<1>6. x \in Int /\ y \in Int /\ x <= y + e /\ y + stride <= x
  BY <1>1, <1>2, <1>4, <1>5
<1> HIDE DEF x, y
<1> QED
  BY <1>6

LEMMA WindowEndsIn ==
    ASSUME NEW m \in Int, NEW stride \in Nat \ {0}, NEW d \in Int, NEW dim \in Int,
           NEW kernel \in Int, NEW past \in Int, past >= (kernel + 1) - stride,
           m * stride + past <= d * stride + dim,
           NEW c \in Int, dim - kernel <= c * stride
    PROVE  m <= d + c
<1>1. (d + c) * stride = d * stride + c * stride
  OBVIOUS
<1> SUFFICES ASSUME m >= (d + c) + 1 PROVE FALSE
  OBVIOUS
<1> DEFINE f == d + c
<1>3. f + 1 \in Int /\ f + 1 <= m /\ stride \in Nat
  OBVIOUS
<1>4. (f + 1) * stride <= m * stride
  <2> HIDE DEF f
  <2> QED
    BY <1>3, TimesGrows
<1>5. (f + 1) * stride = f * stride + stride
  OBVIOUS
<1> DEFINE x == m * stride
           y == d * stride
           z == c * stride
<1>6. x \in Int /\ y \in Int /\ z \in Int /\ (y + z) + stride <= x /\ x + past <= y + dim
      /\ dim - kernel <= z
  BY <1>1, <1>4, <1>5
<1> HIDE DEF x, y, z
<1> QED
  BY <1>6

LEMMA DownsampleTells ==
    ASSUME NEW p, IsPulsed(p), NEW op, op.kind = "downsample", Len(op.from) = 1, Takes(p, op, 1),
           op.stride \in Nat \ {0}, op.modulo \in Nat,
           FactOf(p, At(p, op, 1)).pulse % op.stride = 0,
           NEW pulse \in Nat, NEW r, r = PulsifiedDownsample(p, op)
    PROVE  TellsOf(p, r, op, pulse)
<1> DEFINE from == At(p, op, 1)
           in == FactOf(p, from)
           stride == op.stride
           modulo == op.modulo
           first == in.delay + modulo
           node == [kind |-> "downsample", from |-> <<from>>, stride |-> stride,
                    modulo |-> first % stride]
           fact == [pulse |-> in.pulse \div stride, delay |-> 0,
                    dim |-> [s \in Lengths |-> CeilDiv(in.dim[s] + in.delay, stride)]]
           q == Wired(p, node, fact)
           dim == [s \in Lengths |-> CeilDiv(in.dim[s] - modulo, stride)]
           last == [kind |-> "identity", from |-> <<NewWire(q)>>]
           fact2 == [pulse |-> FactOf(q, NewWire(q)).pulse,
                     delay |-> FactOf(q, NewWire(q)).delay + first \div stride, dim |-> dim]
           n == Len(p.nodes)
<1>1. in \in Fact /\ in.pulse % stride = 0 /\ from \in 0 .. n /\ Past(p, from) = 0
  BY FactOfWire DEF Takes
<1>2. r = Wired(q, last, fact2)
  BY DEF PulsifiedDownsample, WiredSlice, At
<1>3. in.pulse \in Nat \ {0} /\ in.delay \in Nat /\ in.dim \in Dim /\ stride \in Nat \ {0} /\ modulo \in Nat
  BY <1>1, FactsAre
<1>4. Continues(p, r)
  BY DownsampleTranslates DEF Translates
<1>5. node.kind = "downsample" /\ last.kind = "identity"
  OBVIOUS
<1>6. fact.pulse = in.pulse \div stride /\ fact.delay = 0
  OBVIOUS
<1>7. /\ fact2.pulse = FactOf(q, NewWire(q)).pulse /\ fact2.dim = dim
      /\ fact2.delay = FactOf(q, NewWire(q)).delay + first \div stride
  OBVIOUS
<1>8. q.nodes = Append(p.nodes, node) /\ q.facts = Append(p.facts, fact)
  BY DEF Wired
<1>9. r.nodes = Append(q.nodes, last) /\ r.facts = Append(q.facts, fact2)
  <2> HIDE DEF q, last, fact2
  <2> QED
    BY <1>2 DEF Wired
<1> HIDE DEF in, stride, modulo, first, node, fact, last, fact2, q
<1>10. IsFrames(p.nodes) /\ IsFrames(p.facts) /\ Len(p.facts) = n + 1 /\ n \in Nat
  BY WireCount DEF IsPulsed
<1>11. /\ IsFrames(q.nodes) /\ Len(q.nodes) = n + 1 /\ q.nodes[n + 1] = node
       /\ IsFrames(q.facts) /\ Len(q.facts) = n + 2 /\ q.facts[n + 2] = fact
  <2>1. IsFrames(q.nodes) /\ Len(q.nodes) = n + 1 /\ q.nodes[n + 1] = node
    BY <1>8, <1>10, AppendedAreFrames
  <2>2. IsFrames(q.facts) /\ Len(q.facts) = (n + 1) + 1 /\ q.facts[(n + 1) + 1] = fact
    BY <1>8, <1>10, AppendedAreFrames
  <2> QED
    BY <1>10, <2>1, <2>2
<1>12. /\ Len(r.nodes) = n + 2 /\ r.nodes[n + 1] = node /\ r.nodes[n + 2] = last
       /\ r.facts[n + 3] = fact2
  <2>1. /\ Len(r.nodes) = (n + 1) + 1 /\ (\A i \in 1 .. n + 1 : r.nodes[i] = q.nodes[i])
        /\ r.nodes[(n + 1) + 1] = last
    BY <1>9, <1>11, AppendedAreFrames
  <2>2. r.facts[(n + 2) + 1] = fact2
    BY <1>9, <1>11, AppendedAreFrames
  <2>3. n + 1 \in 1 .. n + 1 /\ (n + 1) + 1 = n + 2 /\ (n + 2) + 1 = n + 3
    BY <1>10
  <2> QED
    BY <1>11, <2>1, <2>2, <2>3
<1>13. FactOf(q, NewWire(q)) = fact /\ FactOf(r, Len(r.nodes)) = fact2 /\ Past(r, Len(r.nodes)) = 0
  <2>1. (n + 1) + 1 = n + 2 /\ (n + 2) + 1 = n + 3 /\ last.kind \notin {"delay", "pad"}
    BY <1>5, <1>10
  <2> QED
    BY <1>11, <1>12, <2>1 DEF FactOf, NewWire, Past
<1>14. ASSUME Tells(p, pulse) PROVE Tells(r, pulse)
  <2> SUFFICES ASSUME NEW i \in 1 .. Len(r.nodes)
               PROVE  Tailed(r.nodes[i]) => IsEarly(r, r.nodes[i].from[1], pulse)
    BY DEF Tells
  <2>1. i \in 1 .. n \/ i = n + 1 \/ i = n + 2
    BY <1>10, <1>12
  <2>2. CASE i \in 1 .. n
    BY <1>4, <1>14, <2>2, NodeTold
  <2>3. CASE i \in {n + 1, n + 2}
    <3>1. r.nodes[i].kind \in {"downsample", "identity"}
      BY <1>5, <1>12, <2>3
    <3> QED
      BY <3>1 DEF Tailed
  <2> QED
    BY <2>1, <2>2, <2>3
<1>15. ASSUME IsEarly(p, from, pulse) PROVE IsEarly(r, Len(r.nodes), pulse)
  <2> DEFINE k == in.pulse \div stride
             d == first \div stride
             e == first % stride
             delay == in.delay
  <2>1. /\ k \in Nat /\ in.pulse = k * stride
    <3>1. in.pulse \in Nat
      BY <1>3
    <3> QED
      BY <1>1, <1>3, <3>1, Multiple
  <2>2. d \in Int /\ e \in 0 .. stride - 1 /\ first = d * stride + e
    <3>1. first \in Nat
      BY <1>3 DEF first
    <3> QED
      BY <1>3, <3>1
  <2>3. first = delay + modulo /\ delay \in Nat
    BY <1>3 DEF first
  <2>4. FactOf(r, Len(r.nodes)).pulse = k /\ FactOf(r, Len(r.nodes)).delay = d
        /\ FactOf(r, Len(r.nodes)).dim = dim
    <3>1. fact2.delay = 0 + d
      BY <1>6, <1>7, <1>13
    <3> HIDE DEF d
    <3>2. fact2.delay = d
      BY <2>2, <3>1
    <3> QED
      BY <1>6, <1>7, <1>13, <3>2
  <2> SUFFICES ASSUME NEW s \in Lengths, NEW t \in Nat, t * pulse + pulse <= s
               PROVE  t * (FactOf(r, Len(r.nodes)).pulse - Past(r, Len(r.nodes)))
                         + FactOf(r, Len(r.nodes)).pulse <= Ends(r, Len(r.nodes), s)
    BY DEF IsEarly
  <2> DEFINE b == in.dim[s]
             c == CeilDiv(b - modulo, stride)
             m == t * k + k
  <2>5. b \in Int
    BY <1>3 DEF Dim
  <2>6. t * (in.pulse - 0) + in.pulse <= delay + b
    BY <1>1, <1>15 DEF IsEarly, Ends, in
  <2>7. dim[s] = c
    OBVIOUS
  <2> HIDE DEF k, d, e, delay, b, dim
  <2>8. c \in Int /\ b - modulo <= c * stride
    <3>1. b - modulo \in Int
      BY <1>3, <2>5
    <3> QED
      BY <1>3, <3>1, CeilDivIs
  <2> HIDE DEF c
  <2>9. m \in Int /\ m * stride <= delay + b
    <3>1. m \in Nat
      BY <2>1
    <3>2. m * stride = t * (k * stride) + k * stride
      BY <1>3, <2>1
    <3>3. t * (k * stride) + k * stride <= delay + b
      <4>1. in.pulse - 0 = in.pulse
        BY <1>3
      <4> QED
        BY <2>1, <2>6, <4>1
    <3> HIDE DEF m
    <3> QED
      BY <3>1, <3>2, <3>3
  <2>10. m <= d + c
    <3> HIDE DEF m
    <3>1. delay + modulo = d * stride + e /\ delay \in Int /\ modulo \in Int
      BY <1>3, <2>2, <2>3
    <3> QED
      BY <1>3, <2>2, <2>5, <2>8, <2>9, <3>1, SampleEndsIn
  <2>11. t * (k - 0) + k <= d + c
    <3>1. k - 0 = k
      BY <2>1
    <3> QED
      BY <2>10, <3>1
  <2> QED
    BY <1>13, <2>4, <2>7, <2>11 DEF Ends
<1> QED
  BY <1>14, <1>15 DEF TellsOf

\* What a kernel sees is as early as its stream.
LEMMA SeenCarries ==
    ASSUME NEW p, IsPulsed(p), NEW from \in 0 .. Len(p.nodes), Past(p, from) = 0,
           NEW op, op.before \in Nat, op.after \in Nat, NEW value \in Int,
           NEW overlap \in Nat, NEW extra \in Nat, NEW pulse \in Nat,
           op.before <= FactOf(p, from).delay + (extra + overlap),
           NEW q, q = (IF overlap > 0 \/ extra > 0 THEN WiredDelay(p, from, extra, overlap) ELSE p),
           NEW r, r = (IF op.before + op.after > 0
                       THEN WiredPad(q, EndOf(p, from, q), op, "constant", value, overlap) ELSE q),
           NEW w, w = EndOf(p, from, r)
    PROVE  Carries(p, r, from, w, pulse, op.after > 0)
<1> DEFINE v == EndOf(p, from, q)
<1>1. Carries(p, q, from, v, pulse, FALSE) /\ Past(q, v) = overlap
  <2>1. CASE overlap > 0 \/ extra > 0
    <3>1. q = WiredDelay(p, from, extra, overlap) /\ v = EndOf(p, from, q)
      BY <2>1
    <3>2. Late(p, q, from, v, extra + overlap, overlap)
      BY <3>1, WiredDelayIsLate
    <3> HIDE DEF v
    <3>3. Carries(p, q, from, v, pulse, FALSE)
      BY <3>1, WiredDelayCarries
    <3> QED
      BY <3>2, <3>3 DEF Late
  <2>2. CASE ~(overlap > 0 \/ extra > 0)
    <3>1. q = p /\ overlap = 0
      BY <2>2
    <3>2. v = from
      BY <3>1, StaysInTime
    <3> QED
      BY <3>1, <3>2, CarriesItself
  <2> QED
    BY <2>1, <2>2
<1>2. SeenBy(p, from, op, value, overlap, extra, r, w)
  BY SeenByAKernel
<1>3. CASE op.before + op.after > 0
  <2> HIDE DEF v
  <2> DEFINE seen == FactOf(q, v)
             node == [kind |-> "pad", from |-> <<v>>, mode |-> "constant", value |-> value,
                      before |-> op.before, after |-> op.after, overlap |-> overlap,
                      begin |-> seen.delay, end |-> Longer(seen.dim, seen.delay)]
             dim == Longer(seen.dim, op.before + op.after)
             fact == [pulse |-> seen.pulse, delay |-> seen.delay - op.before, dim |-> dim]
  <2>1. r = Wired(q, node, fact)
    BY <1>3 DEF WiredPad, v
  <2>2. /\ node.from = <<v>> /\ node.kind = "pad" /\ node.after = op.after
        /\ node.overlap = overlap
        /\ fact.pulse = seen.pulse /\ fact.delay = seen.delay - op.before /\ fact.dim = dim
    OBVIOUS
  <2> HIDE DEF node, fact, seen
  <2>3. IsPulsed(q) /\ v \in 0 .. Len(q.nodes) /\ seen \in Fact /\ IsPulsed(r) /\ Len(p.nodes) \in Nat
    BY <1>1, <1>2, FactOfWire DEF Carries, Continues, SeenBy, seen
  <2>4. /\ FactOf(r, Len(r.nodes)) = fact /\ Len(r.nodes) \in 0 .. Len(r.nodes) /\ Continues(q, r)
        /\ NewWire(r) = Len(r.nodes) /\ Len(r.nodes) = Len(q.nodes) + 1
    BY <2>1, <2>3, WiredLast
  <2>5. fact \in Fact
    BY <2>3, <2>4, FactOfWire
  <2>6. w = Len(r.nodes)
    <3>1. Len(p.nodes) <= Len(q.nodes) /\ Len(q.nodes) \in Nat
      BY <1>1 DEF Carries, Continues
    <3>2. Len(p.nodes) # Len(r.nodes)
      BY <2>3, <2>4, <3>1
    <3> QED
      BY <2>4, <3>2 DEF EndOf
  <2>7. \A s \in Lengths : seen.delay + seen.dim[s] <= fact.delay + fact.dim[s]
    <3> TAKE s \in Lengths
    <3> DEFINE a == seen.delay
               b == seen.dim[s]
               m == op.before
               n == op.before + op.after
    <3>1. seen.delay \in Nat /\ seen.dim \in Dim
      BY <2>3, FactsAre
    <3>2. b \in Int
      BY <3>1 DEF Dim
    <3>3. m \in Nat /\ n \in Nat /\ m <= n
      OBVIOUS
    <3>4. dim[s] = b + n
      <4>1. n \in Int
        BY <3>3
      <4> HIDE DEF n
      <4>2. Longer(seen.dim, n)[s] = seen.dim[s] + n
        BY <3>1, <4>1, LongerDim
      <4> QED
        BY <4>2 DEF n
    <3>5. fact.delay = a - m /\ fact.dim[s] = b + n
      BY <2>2, <3>4
    <3> HIDE DEF a, b, m, n
    <3>6. a \in Int
      BY <3>1 DEF a
    <3>7. a + b <= (a - m) + (b + n)
      BY <3>2, <3>3, <3>6, NoFewerFrames
    <3> QED
      BY <3>5, <3>7 DEF a, b
  <2>8. Carries(p, r, from, Len(r.nodes), pulse, Tailed(node))
    BY <1>1, <2>1, <2>2, <2>3, <2>5, <2>7, AsManyCarry DEF seen
  <2>9. Tailed(node) <=> op.after > 0
    BY <2>2 DEF Tailed
  <2> QED
    BY <2>6, <2>8, <2>9 DEF Carries
<1>4. CASE ~(op.before + op.after > 0)
  <2>1. r = q
    BY <1>4
  <2>2. w = v
    BY <2>1
  <2> QED
    BY <1>1, <2>1, <2>2 DEF Carries
<1> QED
  BY <1>3, <1>4

LEMMA PooledTells ==
    ASSUME NEW p, IsPulsed(p), NEW op, op.kind \in {"conv", "pool"}, Len(op.from) = 1,
           Takes(p, op, 1),
           op.size \in Nat \ {0}, op.stride \in Nat \ {0}, op.dilation \in Nat \ {0},
           op.before \in Nat, op.after \in Nat,
           NEW value, value = (IF op.kind = "conv" THEN Silence ELSE Lowest),
           FactOf(p, At(p, op, 1)).pulse % op.stride = 0,
           NEW pulse \in Nat, NEW t, t = PulsifiedPooled(p, op, value)
    PROVE  TellsOf(p, t, op, pulse)
<1> DEFINE from == At(p, op, 1)
           in == FactOf(p, from)
           delay == in.delay
           before == op.before
           stride == op.stride
           kernel == KernelLen(op.size, op.dilation)
           overlap == Positive(kernel + 1 - stride)
           late == Positive(before - delay - overlap)
           misaligned == (delay + overlap + late - before) % stride
           extra == late + (IF misaligned > 0 THEN stride - misaligned ELSE 0)
           q == IF overlap > 0 \/ extra > 0 THEN WiredDelay(p, from, extra, overlap) ELSE p
           r == IF op.before + op.after > 0
                THEN WiredPad(q, EndOf(p, from, q), op, "constant", value, overlap) ELSE q
           w == EndOf(p, from, r)
           seen == FactOf(r, w)
           node == [kind |-> op.kind, from |-> <<w>>, size |-> op.size,
                    stride |-> op.stride, dilation |-> op.dilation]
           dim == [s \in Lengths |-> CeilDiv(seen.dim[s] - kernel, op.stride)]
           fact == [pulse |-> WindowCount(seen.pulse, op.size, op.stride, op.dilation),
                    delay |-> seen.delay \div op.stride, dim |-> dim]
<1>1. in \in Fact /\ from \in 0 .. Len(p.nodes) /\ Past(p, from) = 0
  BY FactOfWire DEF Takes
<1>2. t = Wired(r, node, fact)
  BY DEF PulsifiedPooled, At
<1>3. /\ delay \in Nat /\ before \in Nat /\ stride \in Nat \ {0} /\ kernel \in Nat /\ value \in Int
  <2>1. kernel \in Nat
    BY KernelLenIs
  <2>2. value \in Int
    BY DEF Silence, Lowest
  <2> QED
    BY <1>1, <2>1, <2>2, FactsAre
<1>4. IsPulsed(t)
  BY PooledTranslates DEF Translates, Continues
<1>5. /\ node.from = <<w>> /\ node.kind \in {"conv", "pool"} /\ node.stride = stride /\ fact.dim = dim
  OBVIOUS
<1> HIDE DEF delay, before, stride, kernel
<1>6. overlap \in Nat /\ late \in Nat /\ (delay + overlap + late) - before \in Nat
      /\ overlap >= (kernel + 1) - stride
  BY <1>3 DEF Positive
<1> HIDE DEF overlap, late
<1>7. extra \in Nat /\ before <= delay + (extra + overlap)
  <2> DEFINE base == (delay + overlap + late) - before
             rest == IF misaligned > 0 THEN stride - misaligned ELSE 0
  <2>1. misaligned \in 0 .. stride - 1
    <3>1. delay + overlap + late - before \in Int
      BY <1>3, <1>6
    <3> DEFINE x == delay + overlap + late - before
    <3>2. x \in Int
      BY <3>1
    <3> HIDE DEF x
    <3>3. x % stride \in 0 .. stride - 1
      BY <1>3, <3>2
    <3> QED
      BY <3>3 DEF x
  <2> HIDE DEF misaligned
  <2>2. rest \in Nat /\ extra = late + rest
    BY <1>3, <2>1
  <2> HIDE DEF rest, extra
  <2> QED
    BY <1>3, <1>6, <2>2
<1> HIDE DEF extra
<1>8. Carries(p, r, from, w, pulse, op.after > 0) /\ Past(r, w) = overlap
  <2>1. op.before <= FactOf(p, from).delay + (extra + overlap)
    BY <1>7 DEF before, delay
  <2>2. /\ q = (IF overlap > 0 \/ extra > 0 THEN WiredDelay(p, from, extra, overlap) ELSE p)
        /\ r = (IF op.before + op.after > 0
                THEN WiredPad(q, EndOf(p, from, q), op, "constant", value, overlap) ELSE q)
        /\ w = EndOf(p, from, r)
    OBVIOUS
  <2> HIDE DEF from, q, r, w
  <2>3. Carries(p, r, from, w, pulse, op.after > 0)
    BY <1>1, <1>3, <1>6, <1>7, <2>1, <2>2, SeenCarries
  <2>4. SeenBy(p, from, op, value, overlap, extra, r, w)
    BY <1>1, <1>3, <1>6, <1>7, <2>1, <2>2, SeenByAKernel
  <2> QED
    BY <2>3, <2>4 DEF SeenBy
<1> HIDE DEF q, r, w, seen, node, fact
<1>9. IsPulsed(r) /\ w \in 0 .. Len(r.nodes) /\ seen \in Fact
  BY <1>8, FactOfWire DEF Carries, Continues, seen
<1>10. /\ Continues(r, t) /\ Len(t.nodes) = Len(r.nodes) + 1 /\ t.nodes[Len(r.nodes) + 1] = node
       /\ FactOf(t, Len(t.nodes)) = fact /\ Past(t, Len(t.nodes)) = 0
       /\ Len(r.nodes) \in Nat
  <2>1. node.kind \notin {"delay", "pad"}
    BY <1>5
  <2> QED
    BY <1>2, <1>4, <1>9, <2>1, WiredLast
<1>11. ASSUME Tells(p, pulse), HasTail(op) => IsEarly(p, from, pulse) PROVE Tells(t, pulse)
  <2>1. Tells(r, pulse)
    BY <1>8, <1>11 DEF Carries, HasTail
  <2>2. ~Tailed(node)
    BY <1>5 DEF Tailed
  <2> QED
    BY <1>5, <1>9, <1>10, <2>1, <2>2, NodeTells
<1>12. ASSUME IsEarly(p, from, pulse) PROVE IsEarly(t, Len(t.nodes), pulse)
  <2> DEFINE k == fact.pulse
             d == fact.delay
  <2>1. IsEarly(r, w, pulse)
    BY <1>8, <1>12 DEF Carries
  <2>2. seen.pulse - overlap = k * stride /\ seen.delay = d * stride
    <3>1. IsNode(node, Past(r, w), FactOf(r, w), fact)
      <4>1. Len(r.nodes) + 1 \in 1 .. Len(t.nodes) /\ node.from[1] = w
        BY <1>5, <1>10
      <4>2. IsNode(node, Past(t, w), FactOf(t, w), FactOf(t, Len(t.nodes)))
        BY <1>4, <1>10, <4>1 DEF IsPulsed
      <4> QED
        BY <1>9, <1>10, <4>2 DEF Continues
    <3> QED
      BY <1>5, <1>8, <3>1 DEF IsNode, seen
  <2>3. k \in Nat /\ d \in Nat /\ seen.pulse \in Nat /\ seen.dim \in Dim
    <3>1. fact \in Fact
      <4>1. Len(t.nodes) \in 0 .. Len(t.nodes)
        BY <1>10
      <4> QED
        BY <1>4, <1>10, <4>1, FactOfWire
    <3> QED
      BY <1>9, <3>1, FactsAre
  <2> SUFFICES ASSUME NEW s \in Lengths, NEW u \in Nat, u * pulse + pulse <= s
               PROVE  u * (FactOf(t, Len(t.nodes)).pulse - Past(t, Len(t.nodes)))
                         + FactOf(t, Len(t.nodes)).pulse <= Ends(t, Len(t.nodes), s)
    BY DEF IsEarly
  <2> DEFINE b == seen.dim[s]
             c == CeilDiv(b - kernel, stride)
             m == u * k + k
  <2>4. b \in Int
    BY <2>3 DEF Dim
  <2>5. u * (seen.pulse - overlap) + seen.pulse <= seen.delay + b
    BY <1>8, <2>1 DEF IsEarly, Ends, seen
  <2>6. dim[s] = c
    BY DEF stride
  <2> HIDE DEF k, d, b, dim
  <2>7. c \in Int /\ b - kernel <= c * stride
    <3>1. b - kernel \in Int
      BY <1>3, <2>4
    <3> QED
      BY <1>3, <3>1, CeilDivIs
  <2> HIDE DEF c
  <2>8. m \in Int /\ m * stride + overlap <= d * stride + b
    <3>1. m \in Nat
      BY <2>3
    <3>2. m * stride = u * (k * stride) + k * stride
      BY <1>3, <2>3
    <3> DEFINE x == k * stride
               y == d * stride
               z == u * x
    <3>3. x \in Nat /\ y \in Nat
      BY <1>3, <2>3
    <3>4. z \in Nat
      BY <3>3
    <3>5. seen.pulse = x + overlap /\ z + seen.pulse <= y + b
      <4>1. seen.pulse - overlap = x /\ seen.delay = y
        BY <2>2
      <4>2. z + seen.pulse <= y + b
        BY <2>5, <4>1
      <4> HIDE DEF x, y, z
      <4> QED
        BY <1>6, <2>3, <3>3, <4>1, <4>2
    <3> HIDE DEF x, y, z
    <3>6. (z + x) + overlap <= y + b
      BY <1>6, <2>4, <3>3, <3>4, <3>5
    <3> HIDE DEF m
    <3> QED
      BY <3>1, <3>2, <3>6 DEF x, y, z
  <2>9. m <= d + c
    <3> HIDE DEF m
    <3>1. kernel \in Int /\ overlap \in Int /\ d \in Int
      BY <1>3, <1>6, <2>3
    <3> QED
      BY <1>3, <1>6, <2>4, <2>7, <2>8, <3>1, WindowEndsIn
  <2>10. u * (k - 0) + k <= d + c
    <3>1. k - 0 = k
      BY <2>3
    <3> QED
      BY <2>9, <3>1
  <2> QED
    BY <1>5, <1>10, <2>6, <2>10 DEF Ends, k, d
<1> QED
  BY <1>11, <1>12 DEF TellsOf

\* What a deconvolution makes ends with its stream, or later.
LEMMA SpreadEndsIn ==
    ASSUME NEW m \in Int, NEW stride \in Nat \ {0}, NEW delay \in Nat, NEW dim \in Int,
           delay * stride = delay, m <= delay + dim,
           NEW size \in Nat, NEW before \in Nat, NEW after \in Nat, size >= stride + after
    PROVE  m * stride <= (before + delay) + ((dim - 1) * stride + size - before - after)
<1>1. m * stride <= (delay + dim) * stride
  <2>1. delay + dim \in Int /\ stride \in Nat
    OBVIOUS
  <2> QED
    BY <2>1, TimesGrows
<1>2. (delay + dim) * stride = delay * stride + dim * stride /\ (dim - 1) * stride = dim * stride - stride
  OBVIOUS
<1> DEFINE x == m * stride
           y == dim * stride
           z == (dim - 1) * stride
<1>3. x \in Int /\ y \in Int /\ z = y - stride /\ x <= delay + y
  BY <1>1, <1>2
<1> HIDE DEF x, y, z
<1>4. x <= (before + delay) + (z + size - before - after)
  BY <1>3
<1> QED
  BY <1>4 DEF x, z

\* The three nodes of a deconvolution, after n others.
DeconvIsWired(op, from, fact, t, n) ==
    /\ Len(t.nodes) = n + 3
    /\ t.nodes[n + 1].kind = "mask" /\ t.nodes[n + 1].from = <<from>>
    /\ t.nodes[n + 2].kind = "deconv"
    /\ t.nodes[n + 3].kind = "deconvdelay" /\ t.nodes[n + 3].from = <<n + 2>>
    /\ t.nodes[n + 3].stride = op.stride
    /\ FactOf(t, n + 2).delay = fact.delay
    /\ FactOf(t, n + 3).pulse = fact.pulse * op.stride
    /\ FactOf(t, n + 3).delay = op.before + fact.delay
    /\ \A s \in Lengths : FactOf(t, n + 3).dim[s] = Lengthened(op, fact.dim[s])

LEMMA DeconvWires ==
    ASSUME NEW p, IsPulsed(p), NEW op, op.kind = "deconv",
           NEW from, from = At(p, op, 1), NEW fact, fact = FactOf(p, from),
           NEW t, t = PulsifiedDeconv(p, op), NEW n, n = Len(p.nodes)
    PROVE  DeconvIsWired(op, from, fact, t, n)
<1> DEFINE overlap == op.size - 1
           mask == [kind |-> "mask", from |-> <<from>>,
                    begin |-> fact.delay, end |-> Longer(fact.dim, fact.delay)]
           q == Wired(p, mask, fact)
           spread == [s \in Lengths |-> (fact.dim[s] - 1) * op.stride + op.size
                                            - op.before - op.after]
           node == [kind |-> "deconv", from |-> <<NewWire(q)>>, size |-> op.size, stride |-> op.stride]
           fact2 == [pulse |-> fact.pulse * op.stride + overlap, delay |-> fact.delay, dim |-> spread]
           r == Wired(q, node, fact2)
           first == [s \in Lengths |-> (fact.dim[s] - 1) * op.stride + 1]
           last == [kind |-> "deconvdelay", from |-> <<NewWire(r)>>, overlap |-> overlap,
                    delay |-> op.before + fact.delay, stride |-> op.stride, inputDim |-> first]
           fact3 == [pulse |-> fact.pulse * op.stride, delay |-> op.before + fact.delay, dim |-> spread]
<1>1. t = Wired(r, last, fact3)
  BY DEF PulsifiedDeconv, At
<1>2. /\ mask.kind = "mask" /\ mask.from = <<from>> /\ node.kind = "deconv"
      /\ last.kind = "deconvdelay" /\ last.from = <<NewWire(r)>> /\ last.stride = op.stride
      /\ fact2.delay = fact.delay /\ fact3.pulse = fact.pulse * op.stride
      /\ fact3.delay = op.before + fact.delay /\ \A s \in Lengths : fact3.dim[s] = Lengthened(op, fact.dim[s])
  BY DEF Lengthened
<1>3. q.nodes = Append(p.nodes, mask) /\ q.facts = Append(p.facts, fact)
  <2> HIDE DEF mask
  <2> QED
    BY DEF Wired
<1>4. r.nodes = Append(q.nodes, node) /\ r.facts = Append(q.facts, fact2)
  <2> HIDE DEF q, node, fact2
  <2> QED
    BY DEF Wired
<1>5. t.nodes = Append(r.nodes, last) /\ t.facts = Append(r.facts, fact3)
  <2> HIDE DEF r, last, fact3
  <2> QED
    BY <1>1 DEF Wired
<1> HIDE DEF mask, q, node, fact2, r, last, fact3
<1>6. IsFrames(p.nodes) /\ IsFrames(p.facts) /\ Len(p.facts) = n + 1 /\ n \in Nat
  BY WireCount DEF IsPulsed
<1>7. /\ IsFrames(q.nodes) /\ Len(q.nodes) = n + 1 /\ q.nodes[n + 1] = mask
      /\ IsFrames(q.facts) /\ Len(q.facts) = n + 2
  <2>1. IsFrames(q.nodes) /\ Len(q.nodes) = n + 1 /\ q.nodes[n + 1] = mask
    BY <1>3, <1>6, AppendedAreFrames
  <2>2. IsFrames(q.facts) /\ Len(q.facts) = (n + 1) + 1
    BY <1>3, <1>6, AppendedAreFrames
  <2> QED
    BY <1>6, <2>1, <2>2
<1>8. /\ IsFrames(r.nodes) /\ Len(r.nodes) = n + 2 /\ r.nodes[n + 1] = mask /\ r.nodes[n + 2] = node
      /\ IsFrames(r.facts) /\ Len(r.facts) = n + 3 /\ r.facts[n + 3] = fact2
  <2>1. /\ IsFrames(r.nodes) /\ Len(r.nodes) = (n + 1) + 1 /\ r.nodes[(n + 1) + 1] = node
        /\ \A i \in 1 .. n + 1 : r.nodes[i] = q.nodes[i]
    BY <1>4, <1>7, AppendedAreFrames
  <2>2. IsFrames(r.facts) /\ Len(r.facts) = (n + 2) + 1 /\ r.facts[(n + 2) + 1] = fact2
    BY <1>4, <1>7, AppendedAreFrames
  <2>3. n + 1 \in 1 .. n + 1 /\ (n + 1) + 1 = n + 2 /\ (n + 2) + 1 = n + 3
    BY <1>6
  <2> QED
    BY <1>7, <2>1, <2>2, <2>3
<1>9. /\ Len(t.nodes) = n + 3 /\ t.nodes[n + 1] = mask /\ t.nodes[n + 2] = node /\ t.nodes[n + 3] = last
      /\ t.facts[n + 3] = fact2 /\ t.facts[n + 4] = fact3
  <2>1. /\ Len(t.nodes) = (n + 2) + 1 /\ t.nodes[(n + 2) + 1] = last
        /\ \A i \in 1 .. n + 2 : t.nodes[i] = r.nodes[i]
    BY <1>5, <1>8, AppendedAreFrames
  <2>2. t.facts[(n + 3) + 1] = fact3 /\ \A i \in 1 .. n + 3 : t.facts[i] = r.facts[i]
    BY <1>5, <1>8, AppendedAreFrames
  <2>3. /\ n + 1 \in 1 .. n + 2 /\ n + 2 \in 1 .. n + 2 /\ n + 3 \in 1 .. n + 3
        /\ (n + 2) + 1 = n + 3 /\ (n + 3) + 1 = n + 4
    BY <1>6
  <2> QED
    BY <1>8, <2>1, <2>2, <2>3
<1>10. FactOf(t, n + 2) = fact2 /\ FactOf(t, n + 3) = fact3 /\ NewWire(r) = n + 2
  <2>1. (n + 2) + 1 = n + 3 /\ (n + 3) + 1 = n + 4
    BY <1>6
  <2> QED
    BY <1>8, <1>9, <2>1 DEF FactOf, NewWire
<1> QED
  BY <1>2, <1>9, <1>10 DEF DeconvIsWired

LEMMA DeconvTells ==
    ASSUME NEW p, IsPulsed(p), NEW op, op.kind = "deconv", Len(op.from) = 1, Takes(p, op, 1),
           op.size \in Nat \ {0}, op.stride \in Nat \ {0}, op.before \in Nat, op.after \in Nat,
           NEW pulse \in Nat, NEW t, t = PulsifiedDeconv(p, op), AreInStep(t)
    PROVE  TellsOf(p, t, op, pulse)
<1> DEFINE from == At(p, op, 1)
           fact == FactOf(p, from)
           n == Len(p.nodes)
<1>1. fact \in Fact /\ from \in 0 .. n /\ Past(p, from) = 0
  BY FactOfWire DEF Takes
<1>2. Continues(p, t)
  BY DeconvTranslates DEF Translates
<1>3. n \in Nat /\ fact.pulse \in Nat \ {0} /\ fact.delay \in Nat /\ fact.dim \in Dim
  BY <1>1, WireCount, FactsAre
<1>7. from = At(p, op, 1) /\ fact = FactOf(p, from) /\ n = Len(p.nodes)
  OBVIOUS
<1> HIDE DEF from, fact, n
<1>8. DeconvIsWired(op, from, fact, t, n)
  BY <1>7, DeconvWires, Zenon
<1>4. /\ Len(t.nodes) = n + 3
      /\ t.nodes[n + 1].kind = "mask" /\ t.nodes[n + 1].from = <<from>>
      /\ t.nodes[n + 2].kind = "deconv"
      /\ t.nodes[n + 3].kind = "deconvdelay" /\ t.nodes[n + 3].from = <<n + 2>>
      /\ t.nodes[n + 3].stride = op.stride
      /\ FactOf(t, n + 2).delay = fact.delay
      /\ FactOf(t, n + 3).pulse = fact.pulse * op.stride
      /\ FactOf(t, n + 3).delay = op.before + fact.delay
      /\ \A s \in Lengths : FactOf(t, n + 3).dim[s] = Lengthened(op, fact.dim[s])
  BY <1>8, Zenon DEF DeconvIsWired
<1>5. ASSUME Tells(p, pulse), IsEarly(p, from, pulse) PROVE Tells(t, pulse)
  <2> SUFFICES ASSUME NEW i \in 1 .. Len(t.nodes)
               PROVE  Tailed(t.nodes[i]) => IsEarly(t, t.nodes[i].from[1], pulse)
    BY DEF Tells
  <2>1. i \in 1 .. n \/ i = n + 1 \/ i \in {n + 2, n + 3}
    BY <1>3, <1>4
  <2>2. CASE i \in 1 .. n
    BY <1>2, <1>5, <2>2, NodeTold DEF n
  <2>3. CASE i = n + 1
    <3>1. t.nodes[i].from[1] = from
      BY <1>4, <2>3
    <3>2. IsEarly(t, from, pulse)
      BY <1>1, <1>2, <1>5, StaysAsEarly DEF n
    <3> QED
      BY <3>1, <3>2
  <2>4. CASE i \in {n + 2, n + 3}
    <3>1. t.nodes[i].kind \in {"deconv", "deconvdelay"}
      BY <1>4, <2>4
    <3> QED
      BY <3>1 DEF Tailed
  <2> QED
    BY <2>1, <2>2, <2>3, <2>4
<1>6. ASSUME IsEarly(p, from, pulse), ~Drops(op) PROVE IsEarly(t, Len(t.nodes), pulse)
  <2> DEFINE a == fact.pulse
             stride == op.stride
             delay == fact.delay
  <2>1. a \in Nat /\ stride \in Nat \ {0} /\ delay \in Nat
    BY <1>3
  <2>2. op.size >= op.stride + op.after
    BY <1>6 DEF Drops
  <2>3. delay * stride = delay
    <3>1. n + 3 \in 1 .. Len(t.nodes) /\ t.nodes[n + 3].from[1] = n + 2
      BY <1>3, <1>4
    <3>2. IsScaled(op.stride, fact.delay)
      BY <1>4, <3>1 DEF AreInStep
    <3> QED
      BY <2>1, <3>2, ScaledIs
  <2>4. Past(t, Len(t.nodes)) = 0
    BY <1>4 DEF Past
  <2>5. FactOf(t, Len(t.nodes)) = FactOf(t, n + 3)
    BY <1>4
  <2> SUFFICES ASSUME NEW s \in Lengths, NEW u \in Nat, u * pulse + pulse <= s
               PROVE  u * (FactOf(t, Len(t.nodes)).pulse - Past(t, Len(t.nodes)))
                         + FactOf(t, Len(t.nodes)).pulse <= Ends(t, Len(t.nodes), s)
    BY DEF IsEarly
  <2> DEFINE b == fact.dim[s]
             m == u * a + a
  <2>6. b \in Int
    BY <1>3 DEF Dim
  <2>7. m <= delay + b
    <3>1. u * (a - 0) + a <= delay + b
      BY <1>1, <1>6 DEF IsEarly, Ends, fact
    <3>2. a - 0 = a
      BY <2>1
    <3> QED
      BY <3>1, <3>2
  <2>8. Ends(t, Len(t.nodes), s) = (op.before + delay) + ((b - 1) * stride + op.size - op.before - op.after)
    <3>1. Lengthened(op, b) = (b - 1) * stride + op.size - op.before - op.after
      BY DEF Lengthened
    <3> QED
      BY <1>4, <2>5, <3>1 DEF Ends
  <2> HIDE DEF a, stride, delay, b
  <2>9. m \in Int
    BY <2>1
  <2> HIDE DEF m
  <2>10. m * stride <= (op.before + delay) + ((b - 1) * stride + op.size - op.before - op.after)
    <3>1. op.size >= stride + op.after /\ op.size \in Nat
      BY <2>2 DEF stride
    <3> QED
      BY <2>1, <2>3, <2>6, <2>7, <2>9, <3>1, SpreadEndsIn
  <2>11. u * (a * stride - 0) + a * stride = m * stride
    <3> DEFINE z == a * stride
    <3>1. z \in Nat /\ u \in Nat
      BY <2>1
    <3>2. m * stride = u * z + z
      BY <2>1 DEF m
    <3> HIDE DEF z
    <3>3. z - 0 = z
      BY <3>1
    <3> QED
      BY <3>2, <3>3 DEF z
  <2>12. FactOf(t, Len(t.nodes)).pulse = a * stride
    BY <1>4, <2>5 DEF a, stride
  <2> QED
    BY <2>4, <2>8, <2>10, <2>11, <2>12
<1> QED
  BY <1>5, <1>6 DEF TellsOf, HasTail, from

\* Every operator that is translated.
LEMMA PulsifiedTells ==
    ASSUME NEW p, IsPulsed(p), NEW op, IsOp(op), \A k \in 1 .. Len(op.from) : Takes(p, op, k),
           NEW pulse \in Nat, Translates(p, Pulsified(p, op), op), AreInStep(Pulsified(p, op))
    PROVE  TellsOf(p, Pulsified(p, op), op, pulse)
<1>1. op \in SourceOp /\ Takes(p, op, 1) /\ (op.kind = "sum" => Takes(p, op, 2))
      /\ Len(op.from) = IF op.kind = "sum" THEN 2 ELSE 1
  BY DEF IsOp
<1>2. Pulsified(p, op) # Refused(p)
  <2> SUFFICES ASSUME Pulsified(p, op) = Refused(p) PROVE FALSE
    OBVIOUS
  <2>1. p = [nodes |-> p.nodes, at |-> p.at, ok |-> p.ok, facts |-> p.facts]
    BY DEF IsPulsed
  <2>2. Refused(p).nodes = p.nodes
    BY <2>1 DEF Refused
  <2>3. Len(p.nodes) < Len(Refused(p).nodes) /\ Len(p.nodes) \in Nat
    BY WireCount DEF Translates
  <2> QED
    BY <2>2, <2>3
<1>3. CASE op.kind = "pad"
  <2>1. Pulsified(p, op) = PulsifiedPad(p, op)
    BY <1>3 DEF Pulsified
  <2>2. ~(op.mode = "edge" /\ op.before >= FactOf(p, At(p, op, 1)).pulse)
    BY <1>2, <2>1 DEF PulsifiedPad, At
  <2> QED
    BY <1>1, <1>3, <2>1, <2>2, OpsAre, PadTells
<1>4. CASE op.kind \in {"conv", "pool"}
  <2> DEFINE value == IF op.kind = "conv" THEN Silence ELSE Lowest
  <2>1. Pulsified(p, op) = PulsifiedPooled(p, op, value)
    BY <1>4 DEF Pulsified, PulsifiedConv, PulsifiedMaxPool
  <2>2. FactOf(p, At(p, op, 1)).pulse % op.stride = 0
    <3>1. FactOf(p, At(p, op, 1)).pulse % op.stride # 0 => PulsifiedPooled(p, op, value) = Refused(p)
      BY DEF PulsifiedPooled, At
    <3> QED
      BY <1>2, <2>1, <3>1
  <2>3. value = IF op.kind = "conv" THEN Silence ELSE Lowest
    OBVIOUS
  <2> HIDE DEF value
  <2>4. /\ op.size \in Nat \ {0} /\ op.stride \in Nat \ {0} /\ op.dilation \in Nat \ {0}
        /\ op.before \in Nat /\ op.after \in Nat /\ Len(op.from) = 1
    BY <1>1, <1>4, OpsAre
  <2> DEFINE t == PulsifiedPooled(p, op, value)
  <2>5. t = PulsifiedPooled(p, op, value)
    OBVIOUS
  <2> HIDE DEF t
  <2>6. TellsOf(p, t, op, pulse)
    BY <1>1, <1>4, <2>2, <2>3, <2>4, <2>5, PooledTells
  <2> QED
    BY <2>1, <2>5, <2>6
<1>5. CASE op.kind = "slice"
  <2>1. Pulsified(p, op) = PulsifiedSlice(p, op)
    BY <1>5 DEF Pulsified
  <2> QED
    BY <1>1, <1>5, <2>1, OpsAre, SliceTells
<1>6. CASE op.kind = "downsample"
  <2>1. Pulsified(p, op) = PulsifiedDownsample(p, op)
    BY <1>6 DEF Pulsified
  <2>2. FactOf(p, At(p, op, 1)).pulse % op.stride = 0
    BY <1>2, <2>1 DEF PulsifiedDownsample, At
  <2> QED
    BY <1>1, <1>6, <2>1, <2>2, OpsAre, DownsampleTells
<1>7. CASE op.kind \in {"cumsum", "scan"}
  <2>1. Pulsified(p, op) = IF op.kind = "cumsum" THEN PulsifiedCumSum(p, op) ELSE PulsifiedScan(p, op)
    BY <1>7 DEF Pulsified
  <2> DEFINE t == IF op.kind = "cumsum" THEN PulsifiedCumSum(p, op) ELSE PulsifiedScan(p, op)
  <2>2. t = (IF op.kind = "cumsum" THEN PulsifiedCumSum(p, op) ELSE PulsifiedScan(p, op))
        /\ Len(op.from) = 1
    BY <1>1, <1>7
  <2> HIDE DEF t
  <2>3. TellsOf(p, t, op, pulse)
    BY <1>1, <1>7, <2>2, CumSumTells
  <2> QED
    BY <2>1, <2>2, <2>3
<1>8. CASE op.kind = "concat"
  <2>1. Pulsified(p, op) = PulsifiedConcat(p, op)
    BY <1>8 DEF Pulsified
  <2> QED
    BY <1>1, <1>8, <2>1, OpsAre, ConcatTells
<1>9. CASE op.kind = "sum"
  <2>1. Pulsified(p, op) = PulsifiedSum(p, op)
    BY <1>9 DEF Pulsified
  <2> QED
    BY <1>1, <1>9, <2>1, SumTells
<1>10. CASE op.kind = "deconv"
  <2>1. Pulsified(p, op) = PulsifiedDeconv(p, op)
    BY <1>10 DEF Pulsified
  <2> QED
    BY <1>1, <1>10, <2>1, OpsAre, DeconvTells
<1> QED
  BY <1>1, <1>3, <1>4, <1>5, <1>6, <1>7, <1>8, <1>9, <1>10, OpsAre

(* A graph whose streams end where it is known in time: no operator adds     *)
(* frames to the end of a stream that one before it has cut short, or spreads *)
(* it.  `told' are the wires that reach back to the source through operators *)
(* that cut nothing off.                                                     *)
TellsItsEnds(graph) ==
    \E told \in SUBSET (0 .. Len(graph)) :
       /\ 0 \in told
       /\ \A n \in 1 .. Len(graph) :
             /\ n \in told => ~Drops(graph[n]) /\ graph[n].from[1] \in told
             /\ HasTail(graph[n]) => graph[n].from[1] \in told

LEMMA StartIsTold ==
    ASSUME NEW pulse \in Nat \ {0}, NEW p, p = Started(pulse)
    PROVE  Tells(p, pulse) /\ p.at[1] = 0 /\ IsEarly(p, 0, pulse)
<1>1. Sound(p, 0, pulse) /\ Len(p.nodes) = 0
  BY StartIsSound
<1>2. Tells(p, pulse)
  BY <1>1 DEF Tells
<1>3. p.at[1] = 0
  BY DEF Started
<1>4. FactOf(p, 0) = [pulse |-> pulse, delay |-> 0, dim |-> [s \in Lengths |-> s]] /\ Past(p, 0) = 0
  BY <1>1 DEF Sound, Past
<1>5. IsEarly(p, 0, pulse)
  <2> SUFFICES ASSUME NEW s \in Lengths, NEW t \in Nat, t * pulse + pulse <= s
               PROVE  t * (FactOf(p, 0).pulse - Past(p, 0)) + FactOf(p, 0).pulse <= Ends(p, 0, s)
    BY DEF IsEarly
  <2>1. Ends(p, 0, s) = 0 + s /\ FactOf(p, 0).pulse = pulse
    BY <1>4 DEF Ends
  <2>2. s \in Int /\ pulse - 0 = pulse
    BY MaxLenAssumption DEF Lengths
  <2> QED
    BY <1>4, <2>1, <2>2
<1> QED
  BY <1>2, <1>3, <1>5

\* The nodes of p are among those of what continues it.
LEMMA WasInStep ==
    ASSUME NEW p, IsPulsed(p), NEW q, Continues(p, q), AreInStep(q)
    PROVE  AreInStep(p)
<1> SUFFICES ASSUME NEW n \in 1 .. Len(p.nodes), p.nodes[n].kind = "deconvdelay"
             PROVE  IsScaled(p.nodes[n].stride, FactOf(p, p.nodes[n].from[1]).delay)
  BY DEF AreInStep
<1>1. Len(p.nodes) \in Nat /\ Len(q.nodes) \in Nat /\ Len(p.nodes) <= Len(q.nodes)
  BY DEF Continues
<1>2. n \in 1 .. Len(q.nodes) /\ q.nodes[n] = p.nodes[n]
  BY <1>1 DEF Continues
<1>3. p.nodes[n].from[1] \in 0 .. Len(p.nodes)
  <2>1. Reads(p.nodes[n], n)
    BY DEF IsPulsed
  <2>2. p.nodes[n].from[1] \in 0 .. n - 1
    BY <2>1 DEF Reads
  <2> QED
    BY <1>1, <2>2
<1>4. FactOf(q, p.nodes[n].from[1]) = FactOf(p, p.nodes[n].from[1])
  BY <1>3 DEF Continues
<1> QED
  BY <1>2, <1>4 DEF AreInStep

LEMMA GraphTells ==
    ASSUME NEW graph, IsGraph(graph), TellsItsEnds(graph), NEW pulse \in Nat \ {0},
           NEW p, p = PulsedModel(graph, pulse), p.ok, AreInStep(p)
    PROVE  Tells(p, pulse)
<1> DEFINE n == Len(graph)
<1>1. PICK made : MadeOf(graph, pulse, made) /\ p = made[n]
  <2>1. n \in Nat
    BY GraphIs
  <2> QED
    BY <2>1, MadeIs DEF MadeOf
<1>2. \A k \in 0 .. n : made[k].ok /\ Sound(made[k], k, pulse)
  BY <1>1, MadeIsSound
<1>3. PICK told \in SUBSET (0 .. n) :
         /\ 0 \in told
         /\ \A k \in 1 .. n :
               /\ k \in told => ~Drops(graph[k]) /\ graph[k].from[1] \in told
               /\ HasTail(graph[k]) => graph[k].from[1] \in told
  BY DEF TellsItsEnds
<1>4. /\ n \in Nat /\ made[0] = Started(pulse)
      /\ \A k \in 1 .. n : made[k] = TranslateNode(made[k - 1], graph[k])
      /\ \A k \in 1 .. n : IsOp(graph[k])
            /\ \A j \in 1 .. Len(graph[k].from) : graph[k].from[j] < k
  BY <1>1, GraphIs DEF MadeOf
<1> HIDE DEF n
<1> DEFINE Good == {k \in 0 .. n : AreInStep(made[k]) =>
                      /\ Tells(made[k], pulse)
                      /\ \A j \in told : j <= k => IsEarly(made[k], made[k].at[j + 1], pulse)}
<1>5. 0 \in Good
  <2>1. \A j \in told : j <= 0 => j = 0
    BY <1>4
  <2> QED
    BY <1>4, <2>1, StartIsTold
<1>6. ASSUME NEW k \in 0 .. n - 1, k \in Good PROVE k + 1 \in Good
  <2> SUFFICES ASSUME AreInStep(made[k + 1])
               PROVE  /\ Tells(made[k + 1], pulse)
                      /\ \A j \in told : j <= k + 1 =>
                            IsEarly(made[k + 1], made[k + 1].at[j + 1], pulse)
    BY <1>4
  <2> DEFINE m == made[k]
             op == graph[k + 1]
             q == Pulsified(m, op)
             r == made[k + 1]
  <2>1. k + 1 \in 1 .. n /\ k + 1 \in 0 .. n /\ (k + 1) - 1 = k /\ k \in 0 .. n /\ k \in Nat
    BY <1>4
  <2>2. /\ Sound(m, k, pulse) /\ r = TranslateNode(m, op) /\ m.ok /\ r.ok
        /\ IsOp(op) /\ AreInStep(r) /\ \A j \in 1 .. Len(op.from) : op.from[j] < k + 1
    BY <1>2, <1>4, <2>1
  <2>3. AreInStep(m) =>
           Tells(m, pulse) /\ \A j \in told : j <= k => IsEarly(m, m.at[j + 1], pulse)
    BY <1>6
  <2>4. /\ k + 1 \in told => ~Drops(op) /\ op.from[1] \in told
        /\ HasTail(op) => op.from[1] \in told
    BY <1>3, <2>1
  <2> HIDE DEF m, op, r, q, Good
  <2>5. /\ Sound(r, k + 1, pulse) /\ Translates(m, q, op)
        /\ r.nodes = q.nodes /\ r.facts = q.facts /\ r.at = Append(m.at, Len(r.nodes))
    BY <2>1, <2>2, TranslatingIsSound DEF q
  <2>6. IsPulsed(m) /\ Len(m.at) = k + 1 /\ IsFrames(m.at)
    BY <2>2 DEF Sound, IsPulsed
  <2>7. op.from \in Seq(Nat) /\ Len(op.from) \in {1, 2}
    BY <2>2, OpsAre DEF IsOp
  <2>8. \A j \in 1 .. Len(op.from) : Takes(m, op, j)
    <3> TAKE j \in 1 .. Len(op.from)
    <3>1. op.from[j] + 1 \in 1 .. k + 1
      BY <2>1, <2>2, <2>7
    <3> QED
      BY <2>2, <3>1 DEF Sound, Takes, At
  <2>9. \A w : FactOf(r, w) = FactOf(q, w) /\ Past(r, w) = Past(q, w)
    BY <2>5 DEF FactOf, Past
  <2>10. AreInStep(q) /\ AreInStep(m)
    <3>1. AreInStep(q)
      BY <2>2, <2>5, <2>9 DEF AreInStep
    <3> QED
      BY <2>5, <2>6, <3>1, WasInStep DEF Translates
  <2>11. TellsOf(m, q, op, pulse)
    BY <2>2, <2>5, <2>6, <2>8, <2>10, PulsifiedTells DEF q
  <2>12. op.from[1] \in told => IsEarly(m, At(m, op, 1), pulse)
    <3>1. op.from[1] <= k
      BY <2>1, <2>2, <2>7
    <3> QED
      BY <2>3, <2>10, <3>1 DEF At
  <2>13. \A w : IsEarly(r, w, pulse) = IsEarly(q, w, pulse)
    BY <2>9 DEF IsEarly, Ends
  <2>14. Tells(r, pulse)
    <3>1. Tells(q, pulse)
      BY <2>3, <2>4, <2>10, <2>11, <2>12 DEF TellsOf
    <3> QED
      BY <2>5, <2>13, <3>1 DEF Tells
  <2>15. /\ \A i \in 1 .. k + 1 : r.at[i] = m.at[i]
         /\ r.at[k + 2] = Len(q.nodes)
    <3>1. (k + 1) + 1 = k + 2
      BY <2>1
    <3> QED
      BY <2>5, <2>6, <3>1, AppendedAreFrames
  <2>16. ASSUME NEW j \in told, j <= k + 1 PROVE IsEarly(r, r.at[j + 1], pulse)
    <3>1. CASE j = k + 1
      <4>1. IsEarly(q, Len(q.nodes), pulse)
        BY <2>4, <2>11, <2>12, <3>1 DEF TellsOf
      <4>2. j + 1 = k + 2
        BY <2>1, <3>1
      <4> QED
        BY <2>13, <2>15, <4>1, <4>2
    <3>2. CASE j # k + 1
      <4>1. j <= k /\ j + 1 \in 1 .. k + 1
        BY <1>4, <2>1, <2>16, <3>2
      <4>2. IsEarly(m, m.at[j + 1], pulse) /\ m.at[j + 1] \in 0 .. Len(m.nodes)
        BY <2>2, <2>3, <2>10, <4>1 DEF Sound
      <4>3. IsEarly(q, m.at[j + 1], pulse)
        BY <2>5, <4>2, StaysAsEarly DEF Translates
      <4> QED
        BY <2>13, <2>15, <4>1, <4>3
    <3> QED
      BY <3>1, <3>2
  <2> QED
    BY <2>14, <2>16 DEF r
<1>7. \A k \in 0 .. n : k \in Good
  <2> HIDE DEF Good
  <2> QED
    BY <1>4, <1>5, <1>6, UpTo
<1>8. n \in 0 .. n
  BY <1>4
<1> QED
  BY <1>1, <1>7, <1>8

=============================================================================
