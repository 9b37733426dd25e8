--------------------------- MODULE KvCachesProofs ---------------------------
(***************************************************************************)
(* Proofs about the key-value caches: concatenated, in place, in a window, *)
(* on a device and quantised.  What a chunk leaves in a quantised cache is *)
(* found by following its pushes one by one.                               *)
(***************************************************************************)
EXTENDS KvCaches, OrderLemmas, TLAPS

Value == [token : Nat, grid : SUBSET Nat]

LEMMA GarbageIsValue == Garbage \in Value
  BY DEF Garbage, Exact, Value

-----------------------------------------------------------------------------
(* Buffers with room to spare.                                               *)

\* The first `len' slots are the history h.
Holds(buf, len, h) ==
    /\ len = Len(h) /\ len <= Len(buf)
    /\ \A i \in 1 .. len : buf[i] = h[i]

LEMMA HeldIsHistory ==
    ASSUME NEW buf \in Seq(Value), NEW h \in Seq(Value), NEW len, Holds(buf, len, h)
    PROVE  SubSeq(buf, 1, len) = h
  BY DEF Holds

LEMMA AssignedAtTheEnd ==
    ASSUME NEW buf \in Seq(Value), NEW h \in Seq(Value), NEW new \in Seq(Value), NEW len,
           Holds(buf, len, h), len + Len(new) <= Len(buf)
    PROVE  /\ Assigned(buf, len, new) \in Seq(Value)
           /\ Len(Assigned(buf, len, new)) = Len(buf)
           /\ Holds(Assigned(buf, len, new), len + Len(new), h \o new)
<1> DEFINE b == Assigned(buf, len, new)
<1>1. /\ len \in Nat /\ len = Len(h) /\ Len(new) \in Nat /\ Len(buf) \in Nat
      /\ DOMAIN buf = 1 .. Len(buf) /\ DOMAIN new = 1 .. Len(new)
  BY DEF Holds
<1>2. b = [i \in 1 .. Len(buf) |-> IF i - len \in 1 .. Len(new) THEN new[i - len] ELSE buf[i]]
  BY <1>1 DEF Assigned
<1>3. \A i \in 1 .. Len(buf) : b[i] \in Value
  BY <1>1, <1>2
<1>4. b \in Seq(Value) /\ Len(b) = Len(buf)
  BY <1>1, <1>2, <1>3
<1>5. \A i \in 1 .. len + Len(new) : b[i] = (h \o new)[i]
  BY <1>1, <1>2 DEF Holds
<1>6. Len(h \o new) = len + Len(new)
  BY <1>1
<1> QED
  BY <1>1, <1>4, <1>5, <1>6 DEF Holds

LEMMA GrownHolds ==
    ASSUME NEW buf \in Seq(Value), NEW h \in Seq(Value), NEW len, NEW room \in Nat,
           Holds(buf, len, h), len <= room
    PROVE  /\ Grown(buf, len, room) \in Seq(Value)
           /\ Len(Grown(buf, len, room)) = room
           /\ Holds(Grown(buf, len, room), len, h)
<1> DEFINE pad == Constantly(room - len, Garbage)
<1>1. len \in Nat /\ len = Len(h)
  BY DEF Holds
<1>2. pad \in Seq(Value) /\ Len(pad) = room - len
  BY <1>1, GarbageIsValue DEF Constantly
<1>3. SubSeq(buf, 1, len) = h
  BY HeldIsHistory
<1> HIDE DEF pad
<1>4. Grown(buf, len, room) = h \o pad
  BY <1>3 DEF Grown, pad
<1> QED
  BY <1>1, <1>2, <1>4 DEF Holds

LEMMA RoomIsEnough ==
    ASSUME NEW capacity \in Nat, NEW needed \in Nat
    PROVE  GrownTo(capacity, needed) \in Nat /\ needed <= GrownTo(capacity, needed)
  BY DEF GrownTo, Larger

InPlaceState == [buf : Seq(Value), len : Nat, reallocs : Nat]

LEMMA InPlaceKeepsHistory ==
    ASSUME NEW c \in InPlaceState, NEW h \in Seq(Value), NEW new \in Seq(Value),
           Holds(c.buf, c.len, h)
    PROVE  /\ InPlacePushed(c, new) \in InPlaceState
           /\ Holds(InPlacePushed(c, new).buf, InPlacePushed(c, new).len, h \o new)
<1> DEFINE d == InPlacePushed(c, new)
<1>1. /\ c.buf \in Seq(Value) /\ c.len \in Nat /\ c.reallocs \in Nat
      /\ Len(c.buf) \in Nat /\ Len(new) \in Nat /\ c.len = Len(h)
  BY DEF InPlaceState, Holds
<1>2. CASE new = <<>>
  <2>1. d = c /\ h \o new = h
    BY <1>2 DEF InPlacePushed
  <2> QED
    BY <2>1
<1>3. CASE new # <<>> /\ c.buf = <<>>
  <2>1. d = [c EXCEPT !.buf = new, !.len = Len(new)]
    BY <1>3 DEF InPlacePushed
  <2>2. d \in InPlaceState /\ d.buf = new /\ d.len = Len(new)
    BY <1>1, <2>1 DEF InPlaceState
  <2>3. h = <<>> /\ h \o new = new
    BY <1>1, <1>3 DEF Holds
  <2> QED
    BY <1>1, <2>2, <2>3 DEF Holds
<1>4. CASE new # <<>> /\ c.buf # <<>>
  <2> DEFINE needed == c.len + Len(new)
             fits == needed <= Len(c.buf)
             room == GrownTo(Len(c.buf), needed)
             buf == IF fits THEN c.buf ELSE Grown(c.buf, c.len, room)
  <2>1. d = [buf |-> Assigned(buf, c.len, new), len |-> needed,
             reallocs |-> IF fits THEN c.reallocs ELSE c.reallocs + 1]
    BY <1>4 DEF InPlacePushed
  <2>2. room \in Nat /\ needed <= room
    <3>1. needed \in Nat
      BY <1>1
    <3> HIDE DEF needed
    <3> QED
      BY <1>1, <3>1, RoomIsEnough
  <2>3. buf \in Seq(Value) /\ needed <= Len(buf) /\ Holds(buf, c.len, h)
    <3>1. c.len <= room
      BY <1>1, <2>2
    <3> HIDE DEF room
    <3>2. CASE fits
      BY <1>1, <3>2
    <3>3. CASE ~fits
      BY <1>1, <2>2, <3>1, <3>3, GrownHolds
    <3> QED
      BY <3>2, <3>3
  <2> HIDE DEF buf
  <2>4. /\ Assigned(buf, c.len, new) \in Seq(Value)
        /\ Holds(Assigned(buf, c.len, new), needed, h \o new)
    BY <2>3, AssignedAtTheEnd
  <2> QED
    BY <1>1, <2>1, <2>4 DEF InPlaceState
<1> QED
  BY <1>2, <1>3, <1>4

-----------------------------------------------------------------------------
(* The ring of a window.                                                     *)

WindowState == [buf : Seq(Value), len : Nat, cursor : Nat]

\* Where the k-th last value is.
Slot(cursor, k) == IF k <= cursor THEN cursor - k + 1 ELSE cursor - k + 1 + Window

RingKeeps(c, h) ==
    IF c.buf = <<>> THEN c.len = 0 /\ c.cursor = 0 /\ h = <<>>
    ELSE /\ Len(c.buf) = Window
         /\ c.cursor \in 0 .. Window - 1
         /\ c.len = Smaller(Len(h), Window)
         /\ c.len < Window => c.cursor = c.len
         /\ \A k \in 1 .. c.len : c.buf[Slot(c.cursor, k)] = h[Len(h) - k + 1]

LEMMA WindowKeepsTheLast ==
    ASSUME NEW c \in WindowState, NEW h \in Seq(Value), NEW new \in Seq(Value), RingKeeps(c, h)
    PROVE  WindowPushed(c, new) \in WindowState /\ RingKeeps(WindowPushed(c, new), h \o new)
<1> DEFINE d == WindowPushed(c, new)
           n == Len(new)
           held == IF c.buf = <<>> THEN Constantly(Window, Garbage) ELSE c.buf
           first == Smaller(n, Window - c.cursor)
           once == Assigned(held, c.cursor, SubSeq(new, 1, first))
           twice == Assigned(once, 0, SubSeq(new, first + 1, n))
<1>1. /\ Window \in Nat \ {0} /\ n \in Nat /\ Len(h) \in Nat
      /\ c.buf \in Seq(Value) /\ c.len \in Nat /\ c.cursor \in 0 .. Window - 1
      /\ c.len = Smaller(Len(h), Window) /\ (c.len < Window => c.cursor = c.len)
      /\ Len(h \o new) = Len(h) + n
  BY SizesAssumption DEF WindowState, RingKeeps, Smaller
<1>2. CASE new = <<>>
  <2>1. d = c /\ h \o new = h
    BY <1>1, <1>2 DEF WindowPushed
  <2> QED
    BY <2>1
<1>3. CASE new # <<>> /\ n >= Window
  <2>1. d = [buf |-> SubSeq(new, n - Window + 1, n), len |-> Window, cursor |-> 0]
    BY <1>3 DEF WindowPushed
  <2>2. /\ d.buf \in Seq(Value) /\ Len(d.buf) = Window
        /\ \A i \in 1 .. Window : d.buf[i] = new[n - Window + i]
    BY <1>1, <1>3, <2>1
  <2>3. ASSUME NEW k \in 1 .. Window
        PROVE  d.buf[Slot(0, k)] = (h \o new)[Len(h \o new) - k + 1]
    <3>1. Slot(0, k) = Window - k + 1 /\ Window - k + 1 \in 1 .. Window
      BY <1>1 DEF Slot
    <3>2. d.buf[Slot(0, k)] = new[n - k + 1]
      BY <1>1, <2>2, <3>1
    <3>3. (h \o new)[Len(h \o new) - k + 1] = new[n - k + 1]
      BY <1>1, <1>3
    <3> QED
      BY <3>2, <3>3
  <2>4. d.buf # <<>> /\ Smaller(Len(h) + n, Window) = Window
    BY <1>1, <1>3, <2>2 DEF Smaller
  <2>5. d.len = Window /\ d.cursor = 0
    BY <2>1
  <2> HIDE DEF d
  <2>6. RingKeeps(d, h \o new)
    <3>1. Len(d.buf) = Window /\ d.cursor \in 0 .. Window - 1 /\ ~(d.len < Window)
      BY <1>1, <2>2, <2>5
    <3>2. \A k \in 1 .. d.len : d.buf[Slot(d.cursor, k)] = (h \o new)[Len(h \o new) - k + 1]
      BY <1>1, <2>3, <2>5
    <3> QED
      BY <1>1, <2>4, <2>5, <3>1, <3>2 DEF RingKeeps
  <2>7. d \in WindowState
    BY <1>1, <2>1, <2>2 DEF WindowState
  <2> QED
    BY <2>6, <2>7 DEF d
<1>4. CASE new # <<>> /\ n < Window
  <2>1. d = [buf |-> twice, len |-> Smaller(c.len + n, Window), cursor |-> CursorAfter(c.cursor, n)]
    BY <1>1, <1>4 DEF WindowPushed
  <2>2. held \in Seq(Value) /\ Len(held) = Window
    BY <1>1, GarbageIsValue DEF Constantly, RingKeeps
  <2>3. ASSUME c.buf # <<>>, NEW k \in 1 .. c.len
        PROVE  held[Slot(c.cursor, k)] = h[Len(h) - k + 1]
    BY <2>3 DEF RingKeeps
  <2>4. first \in 1 .. n /\ first <= Window - c.cursor
    BY <1>1, <1>4 DEF Smaller
  <2>5. n >= 1
    BY <1>1, <1>4
  <2> HIDE DEF held, first
  <2>6. once = [i \in 1 .. Window |->
                  IF i - c.cursor \in 1 .. first THEN new[i - c.cursor] ELSE held[i]]
    BY <1>1, <2>2, <2>4 DEF Assigned
  <2>7. twice = [i \in 1 .. Window |-> IF i \in 1 .. n - first THEN new[first + i] ELSE once[i]]
    BY <1>1, <2>4, <2>6 DEF Assigned
  <2>8. \A i \in 1 .. Window : once[i] \in Value
    <3>1. \A i \in 1 .. Window : held[i] \in Value
      BY <1>1, <2>2
    <3>2. \A j \in 1 .. first : new[j] \in Value
      BY <1>1, <2>4
    <3> QED
      BY <2>6, <3>1, <3>2
  <2>9. \A i \in 1 .. Window : twice[i] \in Value
    <3>1. \A i \in 1 .. n - first : new[first + i] \in Value
      BY <1>1, <2>4
    <3> QED
      BY <2>7, <2>8, <3>1
  <2>10. twice \in Seq(Value) /\ Len(twice) = Window
    BY <1>1, <2>7, <2>9
  <2> HIDE DEF once, twice
  <2>11. ASSUME NEW k \in 1 .. Smaller(c.len + n, Window)
         PROVE  twice[Slot(CursorAfter(c.cursor, n), k)] = (h \o new)[Len(h \o new) - k + 1]
    <3> DEFINE i == Slot(CursorAfter(c.cursor, n), k)
    <3>1. k \in 1 .. Window /\ k <= c.len + n /\ c.len <= Len(h) /\ n \in 1 .. Window - 1
      BY <1>1, <1>4, <2>5 DEF Smaller
    <3>2. first = Smaller(n, Window - c.cursor) /\ i = Slot(CursorAfter(c.cursor, n), k)
      BY DEF first
    <3>3. /\ i \in 1 .. Window
          /\ k <= n /\ i \in 1 .. n - first => first + i = n - k + 1
          /\ k <= n /\ i \notin 1 .. n - first => i - c.cursor \in 1 .. first /\ i - c.cursor = n - k + 1
          /\ k > n => /\ i = Slot(c.cursor, k - n)
                      /\ i \notin 1 .. n - first /\ i - c.cursor \notin 1 .. first
      <4> HIDE DEF n, i
      <4>1. PICK cursor \in 0 .. Window - 1 : cursor = c.cursor
        BY <1>1
      <4> QED
        <5>1. first \in Int /\ i \in Int
          BY <3>1, <3>2, <4>1 DEF Slot, CursorAfter, Smaller
        <5>2. first = Smaller(n, Window - cursor) /\ i = Slot(CursorAfter(cursor, n), k)
          BY <3>2, <4>1
        <5>3. n \in 1 .. Window - 1 /\ k \in 1 .. Window
          BY <3>1
        <5>4. /\ i \in 1 .. Window
              /\ k <= n /\ i \in 1 .. n - first => first + i = n - k + 1
              /\ k <= n /\ i \notin 1 .. n - first => i - cursor \in 1 .. first /\ i - cursor = n - k + 1
              /\ k > n => /\ i = Slot(cursor, k - n)
                          /\ i \notin 1 .. n - first /\ i - cursor \notin 1 .. first
          BY <1>1, <5>1, <5>2, <5>3 DEF Slot, CursorAfter, Smaller
        <5> QED
          BY <4>1, <5>4
    <3> HIDE DEF i
    <3>4. CASE k <= n
      <4>1. twice[i] = new[n - k + 1]
        BY <1>1, <2>6, <2>7, <3>1, <3>3, <3>4
      <4>2. (h \o new)[Len(h \o new) - k + 1] = new[n - k + 1]
        BY <1>1, <3>1, <3>4
      <4> QED
        BY <4>1, <4>2 DEF i
    <3>5. CASE k > n
      <4>1. twice[i] = held[i]
        BY <2>6, <2>7, <3>3, <3>5
      <4>2. c.buf # <<>> /\ k - n \in 1 .. c.len
        BY <1>1, <3>1, <3>5 DEF RingKeeps
      <4>3. held[i] = h[Len(h) - (k - n) + 1]
        BY <2>3, <3>3, <3>5, <4>2
      <4>4. (h \o new)[Len(h \o new) - k + 1] = h[Len(h) - (k - n) + 1]
        BY <1>1, <3>1, <3>5
      <4> QED
        BY <4>1, <4>3, <4>4 DEF i
    <3> QED
      BY <1>1, <3>1, <3>4, <3>5
  <2>12. /\ d.buf = twice /\ d.len = Smaller(c.len + n, Window)
         /\ d.cursor = CursorAfter(c.cursor, n)
    BY <2>1
  <2>13. d \in WindowState
    <3>1. CursorAfter(c.cursor, n) \in Nat /\ Smaller(c.len + n, Window) \in Nat
      BY <1>1 DEF CursorAfter, Smaller
    <3> QED
      BY <2>1, <2>10, <3>1 DEF WindowState
  <2>14. d.len = Smaller(Len(h) + n, Window) /\ d.cursor \in 0 .. Window - 1
    BY <1>1, <1>4, <2>5, <2>12 DEF Smaller, CursorAfter
  <2>15. d.len < Window => d.cursor = d.len
    BY <1>1, <1>4, <2>5, <2>12 DEF Smaller, CursorAfter
  <2>16. d.buf # <<>> /\ Len(d.buf) = Window
    BY <1>1, <2>10, <2>12
  <2>17. \A k \in 1 .. d.len : d.buf[Slot(d.cursor, k)] = (h \o new)[Len(h \o new) - k + 1]
    BY <1>1, <2>11, <2>12
  <2> HIDE DEF d
  <2>18. RingKeeps(d, h \o new)
    BY <1>1, <2>14, <2>15, <2>16, <2>17 DEF RingKeeps
  <2> QED
    BY <2>13, <2>18 DEF d
<1> QED
  <2>1. n >= Window \/ n < Window
    BY <1>1
  <2> QED
    BY <1>2, <1>3, <1>4, <2>1

-----------------------------------------------------------------------------
(* Device buffers.                                                           *)

DeviceState == [buffer : Nat, len : Nat, reallocs : Nat]

OnDevice(hp, c, h) ==
    /\ c.buffer \in 0 .. Len(hp)
    /\ IF c.buffer = 0 THEN c.len = 0 /\ h = <<>> ELSE Holds(hp[c.buffer], c.len, h)

\* A push writes the cache's own buffer, or one that it makes.
LEMMA PushIsPrivate ==
    ASSUME heap \in Seq(Seq(Value)),
           NEW c \in DeviceState, NEW h \in Seq(Value), NEW new \in Seq(Value), OnDevice(heap, c, h),
           NEW p, p = DevicePushed(c, new)
    PROVE  /\ p.heap \in Seq(Seq(Value)) /\ Len(heap) <= Len(p.heap)
           /\ p.cache \in DeviceState
           /\ OnDevice(p.heap, p.cache, h \o new)
           /\ new # <<>> => p.cache.buffer # 0
           /\ p.cache.buffer = c.buffer \/ p.cache.buffer > Len(heap)
           /\ \A i \in 1 .. Len(heap) : i # p.cache.buffer => p.heap[i] = heap[i]
<1>1. /\ c.buffer \in Nat /\ c.len \in Nat /\ c.reallocs \in Nat
      /\ Len(heap) \in Nat /\ Len(new) \in Nat /\ c.buffer \in 0 .. Len(heap)
  BY DEF DeviceState, OnDevice
<1>2. CASE new = <<>>
  <2>1. p = [heap |-> heap, cache |-> c] /\ h \o new = h
    BY <1>2 DEF DevicePushed
  <2> QED
    BY <1>1, <1>2, <2>1
<1>3. CASE new # <<>>
  <2> DEFINE q == Seated(c, Len(new))
             needed == c.len + Len(new)
             kept == IF c.buffer = 0 THEN <<>> ELSE heap[c.buffer]
             room == GrownTo(Capacity(c), needed)
  <2>1. p = [heap |-> [q.heap EXCEPT ![q.cache.buffer] = Assigned(@, c.len, new)],
             cache |-> [q.cache EXCEPT !.len = @ + Len(new)]]
    BY <1>3 DEF DevicePushed
  <2>2. kept \in Seq(Value) /\ Holds(kept, c.len, h) /\ Capacity(c) = Len(kept)
    <3>1. CASE c.buffer = 0
      BY <3>1 DEF OnDevice, Holds, Capacity
    <3>2. CASE c.buffer # 0
      BY <1>1, <3>2 DEF OnDevice, Capacity
    <3> QED
      BY <3>1, <3>2
  <2>3. /\ q.heap \in Seq(Seq(Value)) /\ Len(heap) <= Len(q.heap)
        /\ q.cache.buffer \in 1 .. Len(q.heap)
        /\ q.cache \in DeviceState /\ q.cache.len = c.len
        /\ q.cache.buffer = c.buffer \/ q.cache.buffer > Len(heap)
        /\ \A i \in 1 .. Len(heap) : q.heap[i] = heap[i]
        /\ needed <= Len(q.heap[q.cache.buffer])
        /\ Holds(q.heap[q.cache.buffer], c.len, h)
    <3>1. CASE needed > Capacity(c)
      <4>1. q = [heap |-> Append(heap, Grown(kept, c.len, room)),
                 cache |-> [c EXCEPT !.buffer = Len(heap) + 1, !.reallocs = @ + 1]]
        BY <3>1 DEF Seated
      <4>2. room \in Nat /\ needed <= room /\ c.len <= room
        <5>1. needed \in Nat /\ c.len <= needed /\ Capacity(c) \in Nat
          BY <1>1, <2>2
        <5> HIDE DEF needed
        <5>2. room \in Nat /\ needed <= room
          BY <5>1, RoomIsEnough
        <5> QED
          BY <1>1, <5>1, <5>2
      <4> HIDE DEF room, kept, needed
      <4>3. /\ Grown(kept, c.len, room) \in Seq(Value)
            /\ Len(Grown(kept, c.len, room)) = room
            /\ Holds(Grown(kept, c.len, room), c.len, h)
        BY <2>2, <4>2, GrownHolds
      <4>4. q.cache \in DeviceState /\ q.cache.len = c.len /\ q.cache.buffer = Len(heap) + 1
        <5>1. Len(heap) + 1 \in Nat /\ c.reallocs + 1 \in Nat
          BY <1>1
        <5>2. q.cache = [c EXCEPT !.buffer = Len(heap) + 1, !.reallocs = c.reallocs + 1]
          BY <4>1
        <5> HIDE DEF q
        <5> QED
          BY <5>1, <5>2 DEF DeviceState
      <4>5. /\ q.heap = Append(heap, Grown(kept, c.len, room))
            /\ q.heap \in Seq(Seq(Value)) /\ Len(q.heap) = Len(heap) + 1
            /\ q.heap[Len(heap) + 1] = Grown(kept, c.len, room)
            /\ \A i \in 1 .. Len(heap) : q.heap[i] = heap[i]
        <5> HIDE DEF q
        <5> QED
          BY <1>1, <4>1, <4>3
      <4> HIDE DEF q
      <4> QED
        BY <1>1, <4>2, <4>3, <4>4, <4>5
    <3>2. CASE ~(needed > Capacity(c))
      <4>1. q = [heap |-> heap, cache |-> c]
        BY <3>2 DEF Seated
      <4>2. Len(new) > 0
        BY <1>1, <1>3
      <4>3. c.buffer # 0
        BY <1>1, <3>2, <4>2 DEF Capacity
      <4> QED
        BY <1>1, <2>2, <3>2, <4>1, <4>3
    <3> QED
      BY <3>1, <3>2
  <2> HIDE DEF q, needed, kept, room
  <2> DEFINE own == q.cache.buffer
             buf == Assigned(q.heap[own], c.len, new)
  <2>4. q.heap[own] \in Seq(Value)
    BY <2>3
  <2>5. buf \in Seq(Value) /\ Holds(buf, c.len + Len(new), h \o new)
    BY <2>3, <2>4, AssignedAtTheEnd DEF needed
  <2>6. p.heap = [q.heap EXCEPT ![own] = buf] /\ p.cache = [q.cache EXCEPT !.len = c.len + Len(new)]
    BY <2>1, <2>3
  <2> HIDE DEF buf
  <2>7. /\ p.heap \in Seq(Seq(Value)) /\ Len(p.heap) = Len(q.heap)
        /\ p.heap[own] = buf /\ \A i \in 1 .. Len(q.heap) : i # own => p.heap[i] = q.heap[i]
    BY <2>3, <2>5, <2>6
  <2>8. p.cache \in DeviceState /\ p.cache.buffer = own /\ p.cache.len = c.len + Len(new)
    <3>1. c.len + Len(new) \in Nat
      BY <1>1
    <3> QED
      BY <2>3, <2>6, <3>1 DEF DeviceState
  <2>9. own \in 1 .. Len(p.heap) /\ own # 0
    BY <2>3, <2>7
  <2> HIDE DEF own
  <2>10. OnDevice(p.heap, p.cache, h \o new)
    BY <2>5, <2>7, <2>8, <2>9 DEF OnDevice
  <2>11. own = c.buffer \/ own > Len(heap)
    BY <2>3 DEF own
  <2>12. \A i \in 1 .. Len(heap) : i # own => p.heap[i] = heap[i]
    <3>1. \A i \in 1 .. Len(heap) : i \in 1 .. Len(q.heap) /\ q.heap[i] = heap[i]
      BY <1>1, <2>3
    <3>2. \A i \in 1 .. Len(q.heap) : i # own => p.heap[i] = q.heap[i]
      BY <2>7
    <3> QED
      BY <3>1, <3>2
  <2> QED
    BY <1>1, <2>3, <2>7, <2>8, <2>9, <2>10, <2>11, <2>12
<1> QED
  BY <1>2, <1>3

-----------------------------------------------------------------------------
(* Quantised caches.                                                         *)

Codes == [value : Value, scale : SUBSET Nat]

QuantState ==
    [sink : Seq(Value), packed : Seq(Codes), scales : Seq(SUBSET Nat),
     residual : Seq(Value), len : Nat]

\* The tokens of the b-th block of the values v.
BlockScale(k, v, b) ==
    {v[i].token : i \in Sink + (b - 1) * ScaleSpan(k) + 1 .. Sink + b * ScaleSpan(k)}

BlockHolds(k, packed, scale, v, b) ==
    /\ scale = BlockScale(k, v, b)
    /\ \A g \in (b - 1) * ScaleSpan(k) + 1 .. b * ScaleSpan(k) :
          packed[g] = Code(v[Sink + g], scale)

BlocksHold(k, packed, scales, v) ==
    /\ Len(packed) = Len(scales) * ScaleSpan(k)
    /\ \A b \in 1 .. Len(scales) : BlockHolds(k, packed, scales[b], v, b)

SinkHolds(sink, v) ==
    Len(sink) = Smaller(Len(v), Sink) /\ \A i \in 1 .. Len(sink) : sink[i] = v[i]

ResidualHolds(packed, residual, v) ==
    \A j \in 1 .. Len(residual) : residual[j] = v[Sink + Len(packed) + j]

\* The values v are in the sink, in full blocks, each on its own scale, and in
\* the residual.
Stored(k, sink, packed, scales, residual, v) ==
    /\ Len(v) = Len(sink) + Len(packed) + Len(residual)
    /\ SinkHolds(sink, v)
    /\ BlocksHold(k, packed, scales, v)
    /\ ResidualHolds(packed, residual, v)

LEMMA SpanIsPositive ==
    ASSUME NEW k \in {"key", "value"}
    PROVE  ScaleSpan(k) \in Nat \ {0}
  BY SizesAssumption DEF ScaleSpan

LEMMA BlocksEnd ==
    ASSUME NEW span \in Nat \ {0}, NEW n \in Nat, NEW b \in 1 .. n
    PROVE  /\ b * span \in Nat /\ n * span \in Nat /\ (b - 1) * span \in Nat
           /\ b * span = (b - 1) * span + span
           /\ b * span <= n * span
<1>1. PICK d \in Nat : n = b + d
  BY n - b \in Nat
<1>2. n * span = b * span + d * span
  BY <1>1
<1>3. d * span \in Nat /\ b * span \in Nat /\ (b - 1) * span \in Nat
  OBVIOUS
<1>4. b * span = (b - 1) * span + span
  OBVIOUS
<1> QED
  BY <1>2, <1>3, <1>4

LEMMA Appended ==
    ASSUME NEW S, NEW q \in Seq(S), NEW x \in S
    PROVE  /\ Append(q, x) \in Seq(S) /\ Len(q) \in Nat
           /\ Len(Append(q, x)) = Len(q) + 1
           /\ \A i \in 1 .. Len(q) : Append(q, x)[i] = q[i]
           /\ Append(q, x)[Len(q) + 1] = x
  OBVIOUS

LEMMA Joined ==
    ASSUME NEW S, NEW p \in Seq(S), NEW q \in Seq(S)
    PROVE  /\ p \o q \in Seq(S) /\ Len(p) \in Nat /\ Len(q) \in Nat
           /\ Len(p \o q) = Len(p) + Len(q)
           /\ \A i \in 1 .. Len(p) : (p \o q)[i] = p[i]
           /\ \A i \in 1 .. Len(q) : (p \o q)[Len(p) + i] = q[i]
  OBVIOUS

LEMMA SinkStores ==
    ASSUME NEW k \in {"key", "value"}, NEW v \in Seq(Value), NEW value \in Value,
           NEW sink \in Seq(Value), NEW packed \in Seq(Codes), NEW scales \in Seq(SUBSET Nat),
           NEW residual \in Seq(Value),
           Stored(k, sink, packed, scales, residual, v), Len(sink) < Sink
    PROVE  /\ Stored(k, Append(sink, value), packed, scales, residual, Append(v, value))
           /\ Len(residual) = 0
<1> DEFINE w == Append(v, value)
           s == Append(sink, value)
<1>1. Len(sink) = Len(v) /\ Len(packed) = 0 /\ Len(residual) = 0
  <2>1. Len(v) = Len(sink) + Len(packed) + Len(residual) /\ Len(sink) = Smaller(Len(v), Sink)
    BY DEF Stored, SinkHolds
  <2> QED
    BY <2>1, SizesAssumption DEF Smaller
<1>2. Len(w) = Len(v) + 1 /\ (\A i \in 1 .. Len(v) : w[i] = v[i]) /\ w[Len(v) + 1] = value
  BY Appended
<1>3. Len(s) = Len(v) + 1 /\ (\A i \in 1 .. Len(v) : s[i] = sink[i]) /\ s[Len(v) + 1] = value
  BY <1>1, Appended
<1> HIDE DEF w, s
<1>4. Len(scales) = 0
  <2>1. ScaleSpan(k) \in Nat \ {0}
    BY SpanIsPositive
  <2>2. Len(scales) * ScaleSpan(k) = 0
    BY <1>1 DEF Stored, BlocksHold
  <2> QED
    BY <2>1, <2>2
<1>5. SinkHolds(s, w)
  <2>1. \A i \in 1 .. Len(v) : sink[i] = v[i]
    BY <1>1 DEF Stored, SinkHolds
  <2>2. \A i \in 1 .. Len(v) + 1 : s[i] = w[i]
    <3>1. \A i \in 1 .. Len(v) + 1 : i \in 1 .. Len(v) \/ i = Len(v) + 1
      OBVIOUS
    <3> QED
      BY <1>2, <1>3, <2>1, <3>1
  <2>3. Smaller(Len(v) + 1, Sink) = Len(v) + 1
    BY <1>1, SizesAssumption DEF Smaller
  <2> QED
    BY <1>2, <1>3, <2>2, <2>3 DEF SinkHolds
<1>6. BlocksHold(k, packed, scales, w)
  <2>1. Len(packed) = Len(scales) * ScaleSpan(k)
    BY DEF Stored, BlocksHold
  <2> QED
    BY <1>4, <2>1 DEF BlocksHold
<1>7. ResidualHolds(packed, residual, w)
  BY <1>1 DEF ResidualHolds
<1>8. Len(w) = Len(s) + Len(packed) + Len(residual)
  BY <1>1, <1>2, <1>3
<1> QED
  BY <1>1, <1>5, <1>6, <1>7, <1>8 DEF Stored, s, w

\* What a block is depends on the values up to its end.
LEMMA BlockStays ==
    ASSUME NEW k \in {"key", "value"}, NEW n \in Nat, NEW b \in 1 .. n, NEW v, NEW w,
           NEW packed, NEW scale, BlockHolds(k, packed, scale, v, b),
           \A i \in 1 .. Sink + n * ScaleSpan(k) : w[i] = v[i]
    PROVE  BlockHolds(k, packed, scale, w, b)
<1> DEFINE span == ScaleSpan(k)
<1>1. span \in Nat \ {0} /\ Sink \in Nat
  BY SpanIsPositive, SizesAssumption
<1> HIDE DEF span
<1>2. PICK from \in Nat, to \in Nat, end \in Nat :
           from = (b - 1) * span /\ to = b * span /\ end = n * span /\ to <= end
  BY <1>1, BlocksEnd
<1>3. \A g \in from + 1 .. to : Sink + g \in 1 .. Sink + end
  BY <1>1, <1>2
<1>4. \A i \in Sink + from + 1 .. Sink + to : i \in 1 .. Sink + end
  BY <1>1, <1>2
<1>5. \A i \in 1 .. Sink + end : w[i] = v[i]
  BY <1>2 DEF span
<1>6. BlockScale(k, w, b) = BlockScale(k, v, b)
  <2>1. BlockScale(k, w, b) = {w[i].token : i \in Sink + from + 1 .. Sink + to}
    BY <1>2 DEF BlockScale, span
  <2>2. BlockScale(k, v, b) = {v[i].token : i \in Sink + from + 1 .. Sink + to}
    BY <1>2 DEF BlockScale, span
  <2> QED
    BY <1>4, <1>5, <2>1, <2>2
<1>7. \A g \in from + 1 .. to : w[Sink + g] = v[Sink + g]
  BY <1>3, <1>5
<1> QED
  BY <1>2, <1>6, <1>7 DEF span, BlockHolds

\* A block lies inside the packed codes.
LEMMA BlockIsInside ==
    ASSUME NEW k \in {"key", "value"}, NEW n \in Nat, NEW b \in 1 .. n
    PROVE  \A g \in (b - 1) * ScaleSpan(k) + 1 .. b * ScaleSpan(k) : g \in 1 .. n * ScaleSpan(k)
<1>1. ScaleSpan(k) \in Nat \ {0}
  BY SpanIsPositive
<1>2. PICK from \in Nat, to \in Nat, end \in Nat :
           /\ from = (b - 1) * ScaleSpan(k) /\ to = b * ScaleSpan(k) /\ end = n * ScaleSpan(k)
           /\ to <= end
  BY <1>1, BlocksEnd
<1>3. \A g \in from + 1 .. to : g \in 1 .. end
  BY <1>2
<1> QED
  BY <1>2, <1>3

LEMMA ResidualStores ==
    ASSUME NEW k \in {"key", "value"}, NEW v \in Seq(Value), NEW value \in Value,
           NEW sink \in Seq(Value), NEW packed \in Seq(Codes), NEW scales \in Seq(SUBSET Nat),
           NEW residual \in Seq(Value),
           Stored(k, sink, packed, scales, residual, v), ~(Len(sink) < Sink)
    PROVE  Stored(k, sink, packed, scales, Append(residual, value), Append(v, value))
<1> DEFINE w == Append(v, value)
           r == Append(residual, value)
<1>1. Len(sink) = Sink /\ Len(v) = Sink + Len(packed) + Len(residual) /\ Sink \in Nat
  <2>1. Len(v) = Len(sink) + Len(packed) + Len(residual) /\ Len(sink) = Smaller(Len(v), Sink)
    BY DEF Stored, SinkHolds
  <2> QED
    BY <2>1, SizesAssumption DEF Smaller
<1>2. Len(w) = Len(v) + 1 /\ (\A i \in 1 .. Len(v) : w[i] = v[i]) /\ w[Len(v) + 1] = value
  BY Appended
<1>3. /\ Len(r) = Len(residual) + 1 /\ (\A j \in 1 .. Len(residual) : r[j] = residual[j])
      /\ r[Len(residual) + 1] = value
  BY Appended
<1> HIDE DEF w, r
<1>4. SinkHolds(sink, w)
  <2>1. \A i \in 1 .. Sink : sink[i] = v[i]
    BY <1>1 DEF Stored, SinkHolds
  <2>2. \A i \in 1 .. Sink : i \in 1 .. Len(v)
    BY <1>1
  <2>3. Smaller(Len(w), Sink) = Sink
    BY <1>1, <1>2 DEF Smaller
  <2> QED
    BY <1>1, <1>2, <2>1, <2>2, <2>3 DEF SinkHolds
<1>5. ResidualHolds(packed, r, w)
  <2> SUFFICES ASSUME NEW j \in 1 .. Len(r)
               PROVE  r[j] = w[Sink + Len(packed) + j]
    BY DEF ResidualHolds
  <2>1. CASE j = Len(residual) + 1
    <3>1. Sink + Len(packed) + j = Len(v) + 1
      BY <1>1, <2>1
    <3> QED
      BY <1>2, <1>3, <2>1, <3>1
  <2>2. CASE j # Len(residual) + 1
    <3>1. j \in 1 .. Len(residual)
      BY <1>3, <2>2
    <3>2. Sink + Len(packed) + j \in 1 .. Len(v)
      BY <1>1, <3>1
    <3>3. residual[j] = v[Sink + Len(packed) + j]
      BY <3>1 DEF Stored, ResidualHolds
    <3> QED
      BY <1>2, <1>3, <3>1, <3>2, <3>3
  <2> QED
    BY <2>1, <2>2
<1>6. BlocksHold(k, packed, scales, w)
  <2>1. /\ Len(packed) = Len(scales) * ScaleSpan(k)
        /\ \A b \in 1 .. Len(scales) : BlockHolds(k, packed, scales[b], v, b)
    BY DEF Stored, BlocksHold
  <2>2. \A i \in 1 .. Sink + Len(scales) * ScaleSpan(k) : w[i] = v[i]
    <3>1. \A i \in 1 .. Sink + Len(packed) : i \in 1 .. Len(v)
      BY <1>1
    <3> QED
      BY <1>2, <2>1, <3>1
  <2>3. ASSUME NEW b \in 1 .. Len(scales)
        PROVE  BlockHolds(k, packed, scales[b], w, b)
    <3>1. Len(scales) \in Nat /\ BlockHolds(k, packed, scales[b], v, b)
      BY <2>1
    <3> QED
      BY <2>2, <3>1, BlockStays
  <2> QED
    BY <2>1, <2>3 DEF BlocksHold
<1>7. Len(w) = Len(sink) + Len(packed) + Len(r)
  BY <1>1, <1>2, <1>3
<1> QED
  BY <1>4, <1>5, <1>6, <1>7 DEF Stored, w, r

\* The codes of a block.
CodesOf(residual) == [t \in DOMAIN residual |-> Code(residual[t], ScaleOf(residual))]

LEMMA FinalizedStores ==
    ASSUME NEW k \in {"key", "value"}, NEW v \in Seq(Value),
           NEW sink \in Seq(Value), NEW packed \in Seq(Codes), NEW scales \in Seq(SUBSET Nat),
           NEW residual \in Seq(Value),
           Stored(k, sink, packed, scales, residual, v), Len(residual) = ScaleSpan(k)
    PROVE  /\ ScaleOf(residual) \in SUBSET Nat /\ CodesOf(residual) \in Seq(Codes)
           /\ Stored(k, sink, packed \o CodesOf(residual), Append(scales, ScaleOf(residual)), <<>>, v)
<1> DEFINE codes == CodesOf(residual)
           scale == ScaleOf(residual)
           p == packed \o codes
           m == Append(scales, scale)
<1>1. PICK span \in Nat \ {0} : span = ScaleSpan(k)
  BY SpanIsPositive
<1>2. DOMAIN residual = 1 .. span /\ \A t \in 1 .. span : residual[t] \in Value
  BY <1>1
<1>3. scale \in SUBSET Nat /\ scale = {residual[t].token : t \in 1 .. span}
  BY <1>2 DEF ScaleOf, Value
<1>4. codes = [t \in 1 .. span |-> Code(residual[t], scale)]
  BY <1>2 DEF CodesOf
<1> HIDE DEF scale, codes
<1>5. /\ codes \in Seq(Codes) /\ Len(codes) = span
      /\ \A t \in 1 .. span : codes[t] = Code(residual[t], scale)
  <2>1. \A t \in 1 .. span : Code(residual[t], scale) \in Codes
    BY <1>2, <1>3 DEF Code, Codes
  <2>2. codes \in [1 .. span -> Codes]
    BY <1>4, <2>1
  <2>3. codes \in Seq(Codes)
    <3> SUFFICES ASSUME NEW f \in [1 .. span -> Codes] PROVE f \in Seq(Codes)
      BY <2>2
    <3> QED
      OBVIOUS
  <2>4. Len(codes) = span
    BY <1>4
  <2> QED
    BY <1>4, <2>3, <2>4
<1>6. /\ p \in Seq(Codes) /\ Len(p) = Len(packed) + span
      /\ \A g \in 1 .. Len(packed) : p[g] = packed[g]
      /\ \A t \in 1 .. span : p[Len(packed) + t] = codes[t]
  <2>1. PICK f \in Seq(Codes) : f = codes
    BY <1>5
  <2>2. /\ packed \o f \in Seq(Codes) /\ Len(packed \o f) = Len(packed) + Len(f)
        /\ \A g \in 1 .. Len(packed) : (packed \o f)[g] = packed[g]
        /\ \A t \in 1 .. Len(f) : (packed \o f)[Len(packed) + t] = f[t]
    BY <2>1, Joined
  <2> QED
    BY <1>5, <2>1, <2>2
<1>7. /\ m \in Seq(SUBSET Nat) /\ Len(m) = Len(scales) + 1
      /\ \A b \in 1 .. Len(scales) : m[b] = scales[b]
      /\ m[Len(scales) + 1] = scale
  BY <1>3, Appended
<1> HIDE DEF p, m
<1>8. /\ Len(packed) = Len(scales) * span
      /\ \A b \in 1 .. Len(scales) : BlockHolds(k, packed, scales[b], v, b)
  BY <1>1 DEF Stored, BlocksHold
<1>9. Len(v) = Len(sink) + Len(packed) + span
  BY <1>1 DEF Stored
<1>10. Len(p) = Len(m) * span
  <2>1. (Len(scales) + 1) * span = Len(scales) * span + span
    OBVIOUS
  <2> QED
    BY <1>6, <1>7, <1>8, <2>1
<1>11. ASSUME NEW b \in 1 .. Len(scales)
       PROVE  BlockHolds(k, p, m[b], v, b)
  <2>0. Len(scales) \in Nat
    OBVIOUS
  <2>1. \A g \in (b - 1) * ScaleSpan(k) + 1 .. b * ScaleSpan(k) : g \in 1 .. Len(scales) * ScaleSpan(k)
    BY <2>0, BlockIsInside
  <2>2. \A g \in (b - 1) * ScaleSpan(k) + 1 .. b * ScaleSpan(k) : p[g] = packed[g]
    BY <1>1, <1>6, <1>8, <2>1
  <2>3. BlockHolds(k, packed, scales[b], v, b)
    BY <1>8
  <2> QED
    BY <1>7, <2>2, <2>3 DEF BlockHolds
<1>12. BlockHolds(k, p, scale, v, Len(m))
  <2>1. PICK n \in Nat : n = Len(packed) /\ Len(sink) \in Nat
    OBVIOUS
  <2>2. n = (Len(m) - 1) * span /\ n + span = Len(m) * span
    <3>1. Len(m) - 1 = Len(scales)
      BY <1>7
    <3> QED
      BY <1>6, <1>8, <1>10, <2>1, <3>1
  <2>3. \A t \in 1 .. span : residual[t] = v[Sink + n + t]
    BY <1>1, <2>1 DEF Stored, ResidualHolds
  <2>4. scale = {v[Sink + n + t].token : t \in 1 .. span}
    BY <1>3, <2>3
  <2>5. BlockScale(k, v, Len(m)) = {v[i].token : i \in Sink + n + 1 .. Sink + (n + span)}
    BY <1>1, <2>2 DEF BlockScale
  <2>6. scale = BlockScale(k, v, Len(m))
    <3>1. \A t \in 1 .. span : Sink + n + t \in Sink + n + 1 .. Sink + (n + span)
      BY SizesAssumption
    <3>2. ASSUME NEW i \in Sink + n + 1 .. Sink + (n + span)
          PROVE  \E t \in 1 .. span : i = Sink + n + t
      <4>1. i - (Sink + n) \in 1 .. span /\ i = Sink + n + (i - (Sink + n))
        BY SizesAssumption
      <4> QED
        BY <4>1
    <3>3. \A x \in scale : x \in BlockScale(k, v, Len(m))
      BY <2>4, <2>5, <3>1
    <3>4. \A x \in BlockScale(k, v, Len(m)) : x \in scale
      BY <2>4, <2>5, <3>2
    <3> QED
      BY <3>3, <3>4
  <2>7. ASSUME NEW g \in n + 1 .. n + span
        PROVE  p[g] = Code(v[Sink + g], scale)
    <3>1. PICK t \in 1 .. span : g = n + t
      <4>1. g - n \in 1 .. span /\ g = n + (g - n)
        OBVIOUS
      <4> QED
        BY <4>1
    <3>2. Sink + n + t = Sink + g
      BY <3>1, SizesAssumption
    <3>3. p[n + t] = codes[t] /\ codes[t] = Code(residual[t], scale)
      BY <1>5, <1>6, <2>1
    <3> QED
      BY <2>3, <3>1, <3>2, <3>3
  <2> QED
    BY <1>1, <2>2, <2>6, <2>7 DEF BlockHolds
<1>13. BlocksHold(k, p, m, v)
  <2>1. \A b \in 1 .. Len(m) : b \in 1 .. Len(scales) \/ b = Len(m)
    BY <1>7
  <2>2. m[Len(m)] = scale
    BY <1>7
  <2> QED
    BY <1>1, <1>10, <1>11, <1>12, <2>1, <2>2 DEF BlocksHold
<1>14. SinkHolds(sink, v) /\ ResidualHolds(p, <<>>, v)
  BY DEF Stored, ResidualHolds
<1>15. Len(v) = Len(sink) + Len(p) + Len(<<>>)
  BY <1>6, <1>9
<1> QED
  BY <1>3, <1>5, <1>13, <1>14, <1>15 DEF Stored, p, m, scale, codes

-----------------------------------------------------------------------------
(* One token, and a chunk of them.                                           *)

QuantOf(sink, packed, scales, residual, len) ==
    [sink |-> sink, packed |-> packed, scales |-> scales, residual |-> residual, len |-> len]

LEMMA ResidualReplaced ==
    ASSUME NEW sink, NEW packed, NEW scales, NEW residual, NEW len, NEW r
    PROVE  [QuantOf(sink, packed, scales, residual, len) EXCEPT !.residual = r]
              = QuantOf(sink, packed, scales, r, len)
  BY DEF QuantOf

LEMMA LenReplaced ==
    ASSUME NEW sink, NEW packed, NEW scales, NEW residual, NEW len, NEW n
    PROVE  [QuantOf(sink, packed, scales, residual, len) EXCEPT !.len = @ + n]
              = QuantOf(sink, packed, scales, residual, len + n)
  BY DEF QuantOf

LEMMA QuantParts ==
    ASSUME NEW c \in QuantState
    PROVE  \E sink \in Seq(Value), packed \in Seq(Codes), scales \in Seq(SUBSET Nat),
              residual \in Seq(Value), len \in Nat :
              c = QuantOf(sink, packed, scales, residual, len)
<1>1. c.sink \in Seq(Value)
  BY DEF QuantState
<1>2. c.packed \in Seq(Codes)
  BY DEF QuantState
<1>3. c.scales \in Seq(SUBSET Nat)
  BY DEF QuantState
<1>4. c.residual \in Seq(Value)
  BY DEF QuantState
<1>5. c.len \in Nat
  BY DEF QuantState
<1>6. c = QuantOf(c.sink, c.packed, c.scales, c.residual, c.len)
  BY DEF QuantState, QuantOf
<1> QED
  BY <1>1, <1>2, <1>3, <1>4, <1>5, <1>6, Zenon

\* A state c of a quantised cache was given the values v.
QuantHolds(k, c, v) ==
    /\ c \in QuantState
    /\ Stored(k, c.sink, c.packed, c.scales, c.residual, v)
    /\ Len(c.residual) < ScaleSpan(k)

LEMMA PartsHold ==
    ASSUME NEW k \in {"key", "value"}, NEW v \in Seq(Value),
           NEW sink \in Seq(Value), NEW packed \in Seq(Codes), NEW scales \in Seq(SUBSET Nat),
           NEW residual \in Seq(Value), NEW len \in Nat
    PROVE  QuantHolds(k, QuantOf(sink, packed, scales, residual, len), v)
              <=> Stored(k, sink, packed, scales, residual, v) /\ Len(residual) < ScaleSpan(k)
<1> DEFINE c == QuantOf(sink, packed, scales, residual, len)
<1>1. c.sink = sink /\ c.packed = packed /\ c.scales = scales /\ c.residual = residual
  BY DEF QuantOf
<1>2. c \in QuantState
  BY DEF QuantOf, QuantState
<1> HIDE DEF c
<1>3. Stored(k, c.sink, c.packed, c.scales, c.residual, v) <=> Stored(k, sink, packed, scales, residual, v)
  BY <1>1
<1>4. Len(c.residual) = Len(residual)
  BY <1>1
<1> QED
  BY <1>2, <1>3, <1>4 DEF QuantHolds, c

LEMMA PushHolds ==
    ASSUME NEW k \in {"key", "value"}, NEW v \in Seq(Value), NEW value \in Value,
           NEW c, QuantHolds(k, c, v)
    PROVE  /\ QuantHolds(k, HeadPushed(k, c, value), Append(v, value))
           /\ HeadPushed(k, c, value).len = c.len
<1> DEFINE d == HeadPushed(k, c, value)
           w == Append(v, value)
<1>1. PICK sink \in Seq(Value), packed \in Seq(Codes), scales \in Seq(SUBSET Nat),
           residual \in Seq(Value), len \in Nat :
           c = QuantOf(sink, packed, scales, residual, len)
  BY QuantParts DEF QuantHolds
<1>2. PICK span \in Nat \ {0} : span = ScaleSpan(k)
  BY SpanIsPositive
<1>3. Stored(k, sink, packed, scales, residual, v) /\ Len(residual) < span
  BY <1>1, <1>2, PartsHold
<1>4. /\ c.sink = sink /\ c.packed = packed /\ c.scales = scales /\ c.residual = residual
      /\ c.len = len /\ w \in Seq(Value)
  BY <1>1 DEF QuantOf
<1>5. CASE Len(sink) < Sink
  <2>1. /\ Stored(k, Append(sink, value), packed, scales, residual, w)
        /\ Append(sink, value) \in Seq(Value)
    BY <1>1, <1>3, <1>5, SinkStores
  <2>2. d = QuantOf(Append(sink, value), packed, scales, residual, len)
    <3>1. d = [c EXCEPT !.sink = Append(sink, value)]
      BY <1>4, <1>5 DEF HeadPushed, KeyPushed, ValuePushed
    <3> HIDE DEF d
    <3> QED
      BY <1>1, <3>1 DEF QuantOf
  <2> HIDE DEF d, w
  <2>3. QuantHolds(k, d, w)
    BY <1>1, <1>2, <1>3, <1>4, <2>1, <2>2, PartsHold
  <2>4. d.len = len
    BY <2>2 DEF QuantOf
  <2> QED
    BY <1>4, <2>3, <2>4 DEF d, w
<1>6. CASE ~(Len(sink) < Sink)
  <2> DEFINE r == Append(residual, value)
             codes == CodesOf(r)
             e == QuantOf(sink, packed, scales, r, len)
  <2>1. /\ Stored(k, sink, packed, scales, r, w) /\ r \in Seq(Value)
        /\ Len(r) = Len(residual) + 1 /\ Len(residual) \in Nat
    BY <1>1, <1>3, <1>6, ResidualStores
  <2>2. ASSUME Len(r) = span
        PROVE  /\ Stored(k, sink, packed \o codes, Append(scales, ScaleOf(r)), <<>>, w)
               /\ codes \in Seq(Codes)
               /\ packed \o codes \in Seq(Codes) /\ Append(scales, ScaleOf(r)) \in Seq(SUBSET Nat)
               /\ QuantHolds(k, QuantOf(sink, packed \o codes, Append(scales, ScaleOf(r)), <<>>, len), w)
    <3> HIDE DEF r, w
    <3>1. /\ Stored(k, sink, packed \o codes, Append(scales, ScaleOf(r)), <<>>, w)
          /\ ScaleOf(r) \in SUBSET Nat /\ codes \in Seq(Codes)
      <4>1. Len(r) = ScaleSpan(k)
        BY <1>2, <2>2
      <4> QED
        BY <1>1, <1>4, <2>1, <4>1, FinalizedStores
    <3> HIDE DEF codes
    <3>2. PICK p \in Seq(Codes), m \in Seq(SUBSET Nat) :
               p = packed \o codes /\ m = Append(scales, ScaleOf(r))
      <4>1. packed \o codes \in Seq(Codes)
        BY <1>1, <3>1
      <4>2. Append(scales, ScaleOf(r)) \in Seq(SUBSET Nat)
        BY <1>1, <3>1
      <4> QED
        BY <4>1, <4>2
    <3>3. <<>> \in Seq(Value) /\ Len(<<>>) < ScaleSpan(k)
      BY <1>2
    <3>4. QuantHolds(k, QuantOf(sink, p, m, <<>>, len), w)
      BY <1>1, <1>4, <3>1, <3>2, <3>3, PartsHold
    <3> QED
      BY <3>1, <3>2, <3>4
  <2>3. CASE k = "key"
    <3>1. d = IF Len(e.residual) = Block THEN FinalizeBlock(e) ELSE e
      <4>2. r = Append(c.residual, value)
        BY <1>4
      <4> HIDE DEF r
      <4>1. e = [c EXCEPT !.residual = r]
        BY <1>1, ResidualReplaced
      <4> HIDE DEF e
      <4> QED
        BY <1>4, <1>6, <2>3, <4>1, <4>2 DEF HeadPushed, KeyPushed
    <3>2. e.residual = r /\ e.packed = packed /\ e.scales = scales /\ e.len = len
      BY DEF QuantOf
    <3>3. span = Block
      BY <1>2, <2>3 DEF ScaleSpan
    <3>4. CASE Len(r) = Block
      <4>1. d = [e EXCEPT !.packed = packed \o codes, !.scales = Append(scales, ScaleOf(r)),
                          !.residual = <<>>]
        <5> HIDE DEF e, r, d
        <5> QED
          BY <3>1, <3>2, <3>4 DEF FinalizeBlock, CodesOf
      <4> HIDE DEF codes, d, r
      <4>2. d = QuantOf(sink, packed \o codes, Append(scales, ScaleOf(r)), <<>>, len)
        BY <4>1 DEF QuantOf
      <4>3. d.len = len
        BY <4>2 DEF QuantOf
      <4>4. QuantHolds(k, d, w)
        BY <2>2, <3>3, <3>4, <4>2
      <4> QED
        BY <1>4, <4>3, <4>4 DEF d
    <3>5. CASE Len(r) # Block
      <4>1. d = e
        BY <3>1, <3>2, <3>5
      <4>2. Len(r) < ScaleSpan(k)
        BY <1>2, <1>3, <2>1, <3>3, <3>5
      <4> HIDE DEF d, r, w
      <4>3. QuantHolds(k, e, w)
        BY <1>1, <1>4, <2>1, <4>2, PartsHold
      <4> HIDE DEF e
      <4> QED
        BY <1>4, <3>2, <4>1, <4>3 DEF d, w
    <3> QED
      BY <3>4, <3>5
  <2>4. CASE k = "value"
    <3>1. span = 1
      BY <1>2, <2>4 DEF ScaleSpan
    <3>2. residual = <<>> /\ r = <<value>> /\ Len(r) = span
      <4>1. Len(residual) = 0
        BY <1>3, <2>1, <3>1
      <4>2. residual = <<>>
        BY <1>1, <4>1
      <4> QED
        BY <2>1, <3>1, <4>1, <4>2
    <3>3. packed \o codes = Append(packed, Code(value, ScaleOf(<<value>>)))
      <4>1. codes = <<Code(value, ScaleOf(<<value>>))>>
        BY <3>2 DEF CodesOf
      <4>2. PICK code : code = Code(value, ScaleOf(<<value>>))
        OBVIOUS
      <4>3. packed \o <<code>> = Append(packed, code)
        BY <1>1
      <4> QED
        BY <4>1, <4>2, <4>3
    <3>4. d = [c EXCEPT !.packed = packed \o codes, !.scales = Append(scales, ScaleOf(r))]
      <4> HIDE DEF codes, r
      <4> QED
        BY <1>4, <1>6, <2>4, <3>2, <3>3 DEF HeadPushed, ValuePushed
    <3> HIDE DEF codes, d, r
    <3>5. d = QuantOf(sink, packed \o codes, Append(scales, ScaleOf(r)), <<>>, len)
      BY <1>1, <3>2, <3>4 DEF QuantOf
    <3>6. d.len = len
      BY <3>5 DEF QuantOf
    <3>7. QuantHolds(k, d, w)
      BY <2>2, <3>2, <3>5
    <3> QED
      BY <1>4, <3>6, <3>7 DEF d
  <2> QED
    BY <2>3, <2>4
<1> QED
  BY <1>5, <1>6

\* The states in between, up to the n-th token of a chunk.
Pushes(k, c, new, n, f) ==
    f = [t \in 0 .. n |-> IF t = 0 THEN c ELSE HeadPushed(k, f[t - 1], new[t])]

LEMMA PushesExist ==
    ASSUME NEW k, NEW c, NEW new, NEW n \in Nat
    PROVE  \E f : Pushes(k, c, new, n, f)
<1> DEFINE Bad == {m \in Nat : ~\E f : Pushes(k, c, new, m, f)}
<1>1. Bad = {}
  <2> SUFFICES ASSUME Bad # {} PROVE FALSE
    OBVIOUS
  <2>1. Bad \in SUBSET Nat
    OBVIOUS
  <2>2. PICK m \in Bad : \A j \in Bad : m <= j
    <3> HIDE DEF Bad
    <3> QED
      BY <2>1, LeastElement
  <2>3. m \in Nat /\ ~\E f : Pushes(k, c, new, m, f)
    OBVIOUS
  <2>4. Pushes(k, c, new, 0, [t \in 0 .. 0 |-> c])
    BY DEF Pushes
  <2>5. m # 0
    BY <2>3, <2>4
  <2>6. m - 1 \in Nat /\ m - 1 \notin Bad
    <3> HIDE DEF Bad
    <3> QED
      BY <2>2, <2>3, <2>5
  <2>7. PICK f : Pushes(k, c, new, m - 1, f)
    BY <2>6
  <2> DEFINE g == [t \in 0 .. m |-> IF t = m THEN HeadPushed(k, f[m - 1], new[m]) ELSE f[t]]
  <2>8. \A t \in 0 .. m : g[t] = IF t = 0 THEN c ELSE HeadPushed(k, g[t - 1], new[t])
    <3> TAKE t \in 0 .. m
    <3>1. f = [i \in 0 .. m - 1 |-> IF i = 0 THEN c ELSE HeadPushed(k, f[i - 1], new[i])]
      BY <2>7 DEF Pushes
    <3>2. CASE t = m
      <4>1. m - 1 \in 0 .. m /\ m - 1 # m
        BY <2>3, <2>5
      <4>2. g[m - 1] = f[m - 1] /\ g[m] = HeadPushed(k, f[m - 1], new[m])
        BY <2>3, <4>1
      <4> QED
        BY <2>5, <3>2, <4>2
    <3>3. CASE t # m
      <4>1. t \in 0 .. m - 1 /\ g[t] = f[t]
        BY <2>3, <3>3
      <4>2. t # 0 => t - 1 \in 0 .. m /\ t - 1 # m
        BY <2>3, <4>1
      <4> QED
        BY <3>1, <4>1, <4>2
    <3> QED
      BY <3>2, <3>3
  <2>9. Pushes(k, c, new, m, g)
    BY <2>8 DEF Pushes
  <2> QED
    BY <2>3, <2>9
<1> QED
  BY <1>1

LEMMA NextOfChunk ==
    ASSUME NEW v \in Seq(Value), NEW new \in Seq(Value), NEW t \in 1 .. Len(new)
    PROVE  /\ v \o SubSeq(new, 1, t - 1) \in Seq(Value) /\ new[t] \in Value
           /\ Append(v \o SubSeq(new, 1, t - 1), new[t]) = v \o SubSeq(new, 1, t)
  OBVIOUS

LEMMA ChunkPrefix ==
    ASSUME NEW v \in Seq(Value), NEW new \in Seq(Value)
    PROVE  /\ v \o SubSeq(new, 1, 0) = v
           /\ v \o SubSeq(new, 1, Len(new)) = v \o new
  OBVIOUS

LEMMA PushesHold ==
    ASSUME NEW k \in {"key", "value"}, NEW v \in Seq(Value), NEW new \in Seq(Value),
           NEW c, QuantHolds(k, c, v), NEW f, Pushes(k, c, new, Len(new), f)
    PROVE  QuantHolds(k, f[Len(new)], v \o new) /\ f[Len(new)].len = c.len
<1> DEFINE Right(t) == QuantHolds(k, f[t], v \o SubSeq(new, 1, t)) /\ f[t].len = c.len
           Bad == {t \in 0 .. Len(new) : ~Right(t)}
<1>1. Bad = {}
  <2> SUFFICES ASSUME Bad # {} PROVE FALSE
    OBVIOUS
  <2>1. Bad \in SUBSET Nat
    OBVIOUS
  <2>2. PICK t \in Bad : \A j \in Bad : t <= j
    <3> HIDE DEF Bad
    <3> QED
      BY <2>1, LeastElement
  <2>3. t \in 0 .. Len(new) /\ ~Right(t)
    BY <2>2
  <2>4. f[t] = IF t = 0 THEN c ELSE HeadPushed(k, f[t - 1], new[t])
    BY <2>3 DEF Pushes
  <2>5. CASE t = 0
    <3>1. v \o SubSeq(new, 1, t) = v /\ f[t] = c
      BY <2>4, <2>5, ChunkPrefix
    <3> QED
      BY <2>3, <3>1
  <2>6. CASE t # 0
    <3>1. t \in 1 .. Len(new) /\ t - 1 \in 0 .. Len(new) /\ t - 1 \notin Bad
      <4> HIDE DEF Bad
      <4> QED
        BY <2>2, <2>3, <2>6
    <3>2. Right(t - 1)
      BY <3>1
    <3>3. /\ v \o SubSeq(new, 1, t - 1) \in Seq(Value) /\ new[t] \in Value
          /\ Append(v \o SubSeq(new, 1, t - 1), new[t]) = v \o SubSeq(new, 1, t)
      BY <3>1, NextOfChunk
    <3>4. PICK u \in Seq(Value) : u = v \o SubSeq(new, 1, t - 1)
      BY <3>3
    <3>5. PICK e : e = f[t - 1]
      OBVIOUS
    <3>6. QuantHolds(k, e, u) /\ e.len = c.len
      BY <3>2, <3>4, <3>5
    <3>7. /\ QuantHolds(k, HeadPushed(k, e, new[t]), Append(u, new[t]))
          /\ HeadPushed(k, e, new[t]).len = e.len
      BY <3>3, <3>6, PushHolds
    <3>8. f[t] = HeadPushed(k, e, new[t]) /\ Append(u, new[t]) = v \o SubSeq(new, 1, t)
      BY <2>4, <2>6, <3>3, <3>4, <3>5
    <3>9. Right(t)
      BY <3>6, <3>7, <3>8
    <3> QED
      BY <2>3, <3>9
  <2> QED
    BY <2>5, <2>6
<1>2. Right(Len(new))
  <2>1. Len(new) \in 0 .. Len(new) /\ Len(new) \notin Bad
    BY <1>1
  <2> QED
    BY <2>1
<1> QED
  BY <1>2, ChunkPrefix

LEMMA IngestedHolds ==
    ASSUME NEW k \in {"key", "value"}, NEW v \in Seq(Value), NEW new \in Seq(Value),
           NEW c, QuantHolds(k, c, v)
    PROVE  /\ QuantHolds(k, Ingested(k, c, new), v \o new)
           /\ Ingested(k, c, new).len = c.len + Len(new)
<1> DEFINE f == CHOOSE f : Pushes(k, c, new, Len(new), f)
           n == Len(new)
<1>1. n \in Nat
  OBVIOUS
<1>2. Pushes(k, c, new, n, f)
  <2> HIDE DEF n
  <2>1. \E g : Pushes(k, c, new, n, g)
    BY <1>1, PushesExist
  <2> QED
    BY <2>1 DEF n
<1>3. Ingested(k, c, new) = [f[n] EXCEPT !.len = @ + n]
  BY DEF Ingested, Pushes
<1> HIDE DEF f
<1>4. QuantHolds(k, f[n], v \o new) /\ f[n].len = c.len
  BY <1>2, PushesHold
<1>5. c.len \in Nat /\ f[n] \in QuantState
  BY <1>4 DEF QuantHolds, QuantState
<1>6. PICK sink \in Seq(Value), packed \in Seq(Codes), scales \in Seq(SUBSET Nat),
           residual \in Seq(Value), len \in Nat :
           f[n] = QuantOf(sink, packed, scales, residual, len)
  BY <1>5, QuantParts
<1>7. PICK w \in Seq(Value) : w = v \o new
  <2>1. v \o new \in Seq(Value)
    BY Joined
  <2> QED
    BY <2>1
<1>8. len = c.len /\ len + n \in Nat
  BY <1>1, <1>4, <1>6 DEF QuantOf
<1>9. Ingested(k, c, new) = QuantOf(sink, packed, scales, residual, len + n)
  BY <1>3, <1>6, LenReplaced
<1>10. Stored(k, sink, packed, scales, residual, w) /\ Len(residual) < ScaleSpan(k)
  <2>1. QuantHolds(k, QuantOf(sink, packed, scales, residual, len), w)
    BY <1>4, <1>6, <1>7
  <2> QED
    BY <1>6, <1>7, <2>1, PartsHold
<1> HIDE DEF n
<1>11. QuantHolds(k, Ingested(k, c, new), w)
  <2>1. PICK total \in Nat : total = len + n
    BY <1>8
  <2>2. QuantHolds(k, QuantOf(sink, packed, scales, residual, total), w)
    BY <1>6, <1>7, <1>10, PartsHold
  <2> QED
    BY <1>9, <2>1, <2>2
<1>12. Ingested(k, c, new).len = len + n
  BY <1>9 DEF QuantOf
<1> QED
  BY <1>7, <1>8, <1>11, <1>12 DEF n

-----------------------------------------------------------------------------
(* What a quantised cache gives back.                                        *)

\* The block of the i-th value.
BlockOf(k, i) == (i - Sink - 1) \div ScaleSpan(k) + 1

LEMMA BlockOfIs ==
    ASSUME NEW k \in {"key", "value"}, NEW i \in Nat, i > Sink
    PROVE  /\ BlockOf(k, i) \in Nat \ {0}
           /\ (BlockOf(k, i) - 1) * ScaleSpan(k) \in Nat /\ BlockOf(k, i) * ScaleSpan(k) \in Nat
           /\ BlockOf(k, i) * ScaleSpan(k) = (BlockOf(k, i) - 1) * ScaleSpan(k) + ScaleSpan(k)
           /\ (BlockOf(k, i) - 1) * ScaleSpan(k) < i - Sink
           /\ i - Sink <= BlockOf(k, i) * ScaleSpan(k)
<1>1. PICK span \in Nat \ {0} : span = ScaleSpan(k)
  BY SpanIsPositive
<1>2. PICK g \in Nat : g = i - Sink - 1
  <2>1. i - Sink - 1 \in Nat
    BY SizesAssumption
  <2> QED
    BY <2>1
<1>3. PICK q \in Nat : q = g \div span /\ q * span <= g /\ g < q * span + span
  <2>1. g \div span \in Nat
    BY <1>1, <1>2
  <2> QED
    BY <1>1, <1>2, <2>1
<1>4. BlockOf(k, i) = q + 1 /\ BlockOf(k, i) - 1 = q
  BY <1>1, <1>2, <1>3 DEF BlockOf
<1>5. q * span \in Nat /\ (q + 1) * span \in Nat /\ (q + 1) * span = q * span + span
  BY <1>1, <1>3
<1>6. q * span < i - Sink /\ i - Sink <= q * span + span
  BY <1>1, <1>2, <1>3, <1>5, SizesAssumption
<1> QED
  BY <1>1, <1>3, <1>4, <1>5, <1>6

\* Of the blocks, the i-th value is in the last only if it ends after the others.
LEMMA BlockOfInside ==
    ASSUME NEW k \in {"key", "value"}, NEW i \in Nat, i > Sink, NEW m \in Nat
    PROVE  /\ i - Sink <= m * ScaleSpan(k) =>
                 /\ BlockOf(k, i) \in 1 .. m
                 /\ BlockOf(k, i) * ScaleSpan(k) <= m * ScaleSpan(k)
           /\ i - Sink > m * ScaleSpan(k) =>
                 BlockOf(k, i) * ScaleSpan(k) >= m * ScaleSpan(k) + ScaleSpan(k)
<1>1. PICK span \in Nat \ {0} : span = ScaleSpan(k)
  BY SpanIsPositive
<1>2. PICK b \in Nat \ {0} : b = BlockOf(k, i) /\ (b - 1) * span < i - Sink /\ i - Sink <= b * span
  BY <1>1, BlockOfIs
<1>3. PICK g \in Nat : g = i - Sink
  <2>1. i - Sink \in Nat
    BY SizesAssumption
  <2> QED
    BY <2>1
<1>4. /\ b * span \in Nat /\ m * span \in Nat /\ (b - 1) * span \in Nat
      /\ (b - 1) * span < g /\ g <= b * span
  BY <1>1, <1>2, <1>3
<1>5. ASSUME g <= m * span
      PROVE  b \in 1 .. m /\ b * span <= m * span
  <2>1. CASE b > m
    <3>1. m \in 1 .. b - 1 \/ m = 0
      BY <1>2, <2>1
    <3>2. m * span <= (b - 1) * span
      <4>1. CASE m = 0
        BY <1>4, <4>1
      <4>2. CASE m \in 1 .. b - 1
        BY <1>1, <1>2, <4>2, BlocksEnd
      <4> QED
        BY <3>1, <4>1, <4>2
    <3> QED
      BY <1>4, <1>5, <3>2
  <2>2. CASE b <= m
    <3>1. b \in 1 .. m
      BY <1>2, <2>2
    <3>2. b * span <= m * span
      BY <1>1, <3>1, BlocksEnd
    <3> QED
      BY <3>1, <3>2
  <2> QED
    BY <1>2, <2>1, <2>2
<1>6. ASSUME g > m * span
      PROVE  b * span >= m * span + span
  <2>1. CASE b <= m
    <3>1. b \in 1 .. m
      BY <1>2, <2>1
    <3>2. b * span <= m * span
      BY <1>1, <3>1, BlocksEnd
    <3> QED
      BY <1>4, <1>6, <3>2
  <2>2. CASE b > m
    <3>1. m + 1 \in 1 .. b
      BY <1>2, <2>2
    <3>2. (m + 1) * span <= b * span
      BY <1>1, <1>2, <3>1, BlocksEnd
    <3>3. (m + 1) * span = m * span + span
      BY <1>1
    <3> QED
      BY <3>2, <3>3, <1>1, <1>4
  <2> QED
    BY <1>2, <2>1, <2>2
<1> QED
  BY <1>1, <1>2, <1>3, <1>5, <1>6

LEMMA ScaleIsTokens ==
    ASSUME NEW k \in {"key", "value"}, NEW b \in Nat \ {0}, NEW v, NEW w,
           \A i \in 1 .. Sink + b * ScaleSpan(k) : w[i].token = v[i].token
    PROVE  BlockScale(k, w, b) = BlockScale(k, v, b)
<1>1. PICK span \in Nat \ {0} : span = ScaleSpan(k)
  BY SpanIsPositive
<1>2. PICK from \in Nat, to \in Nat : from = (b - 1) * span /\ to = b * span
  BY <1>1
<1>3. \A i \in Sink + from + 1 .. Sink + to : i \in 1 .. Sink + to
  BY <1>2, SizesAssumption
<1>4. \A i \in Sink + from + 1 .. Sink + to : w[i].token = v[i].token
  BY <1>1, <1>2, <1>3
<1>5. BlockScale(k, w, b) = {w[i].token : i \in Sink + from + 1 .. Sink + to}
  BY <1>1, <1>2 DEF BlockScale
<1>6. BlockScale(k, v, b) = {v[i].token : i \in Sink + from + 1 .. Sink + to}
  BY <1>1, <1>2 DEF BlockScale
<1> QED
  BY <1>4, <1>5, <1>6

Fresh(h) == \A i \in 1 .. Len(h) : h[i].grid = {}

\* A cache was given the tokens of h, some after they had been quantised: those
\* of whole blocks, each on the scale of its block.
Regiven(k, fed, h) ==
    /\ Len(fed) = Len(h)
    /\ \A i \in 1 .. Len(h) :
          /\ fed[i].token = h[i].token
          /\ fed[i].grid # {} =>
                /\ i > Sink
                /\ Sink + BlockOf(k, i) * ScaleSpan(k) <= Len(h)
                /\ fed[i].grid = BlockScale(k, h, BlockOf(k, i))

LEMMA RegivenGrows ==
    ASSUME NEW k \in {"key", "value"}, NEW fed \in Seq(Value), NEW h \in Seq(Value),
           NEW new \in Seq(Value), Fresh(new), Regiven(k, fed, h)
    PROVE  Regiven(k, fed \o new, h \o new)
<1>1. PICK n \in Nat, m \in Nat : n = Len(h) /\ n = Len(fed) /\ m = Len(new)
  BY DEF Regiven
<1>2. PICK w \in Seq(Value), u \in Seq(Value) :
           /\ w = fed \o new /\ u = h \o new /\ Len(w) = n + m /\ Len(u) = n + m
           /\ \A i \in 1 .. n : w[i] = fed[i] /\ u[i] = h[i]
           /\ \A i \in 1 .. m : w[n + i] = new[i] /\ u[n + i] = new[i]
  <2>1. /\ fed \o new \in Seq(Value) /\ Len(fed \o new) = n + m
        /\ \A i \in 1 .. n : (fed \o new)[i] = fed[i]
        /\ \A i \in 1 .. m : (fed \o new)[n + i] = new[i]
    BY <1>1, Joined
  <2>2. /\ h \o new \in Seq(Value) /\ Len(h \o new) = n + m
        /\ \A i \in 1 .. n : (h \o new)[i] = h[i]
        /\ \A i \in 1 .. m : (h \o new)[n + i] = new[i]
    <3>1. /\ h \o new \in Seq(Value) /\ Len(h \o new) = Len(h) + Len(new)
          /\ \A i \in 1 .. Len(h) : (h \o new)[i] = h[i]
          /\ \A i \in 1 .. Len(new) : (h \o new)[Len(h) + i] = new[i]
      BY Joined
    <3>2. n = Len(h) /\ m = Len(new)
      BY <1>1
    <3> QED
      BY <3>1, <3>2
  <2> QED
    BY <2>1, <2>2
<1>3. ASSUME NEW i \in 1 .. n + m
      PROVE  /\ w[i].token = u[i].token
             /\ w[i].grid # {} =>
                   /\ i > Sink
                   /\ Sink + BlockOf(k, i) * ScaleSpan(k) <= n + m
                   /\ w[i].grid = BlockScale(k, u, BlockOf(k, i))
  <2>1. CASE i \in 1 .. n
    <3>1. /\ fed[i].token = h[i].token
          /\ fed[i].grid # {} => /\ i > Sink
                                 /\ Sink + BlockOf(k, i) * ScaleSpan(k) <= n
                                 /\ fed[i].grid = BlockScale(k, h, BlockOf(k, i))
      BY <1>1, <2>1 DEF Regiven
    <3>2. ASSUME fed[i].grid # {}
          PROVE  /\ Sink + BlockOf(k, i) * ScaleSpan(k) <= n + m
                 /\ BlockScale(k, u, BlockOf(k, i)) = BlockScale(k, h, BlockOf(k, i))
      <4>1. PICK b \in Nat \ {0}, to \in Nat : b = BlockOf(k, i) /\ to = b * ScaleSpan(k)
        <5>1. i \in Nat /\ i > Sink
          BY <2>1, <3>1, <3>2
        <5>2. BlockOf(k, i) \in Nat \ {0} /\ BlockOf(k, i) * ScaleSpan(k) \in Nat
          BY <5>1, BlockOfIs
        <5> QED
          BY <5>2, Zenon
      <4>2. Sink + to <= n
        BY <3>1, <3>2, <4>1
      <4>3. \A j \in 1 .. Sink + to : u[j].token = h[j].token
        <5>1. \A j \in 1 .. Sink + to : j \in 1 .. n
          BY <1>1, <4>1, <4>2, SizesAssumption
        <5> QED
          BY <1>2, <5>1
      <4>4. BlockScale(k, u, b) = BlockScale(k, h, b)
        BY <4>1, <4>3, ScaleIsTokens
      <4>5. Sink + to <= n + m
        BY <1>1, <4>1, <4>2, SizesAssumption
      <4> QED
        BY <4>1, <4>4, <4>5
    <3> QED
      BY <1>2, <2>1, <3>1, <3>2
  <2>2. CASE i \notin 1 .. n
    <3>1. PICK j \in 1 .. m : i = n + j
      <4>1. i - n \in 1 .. m /\ i = n + (i - n)
        BY <1>1, <2>2
      <4> QED
        BY <4>1
    <3>2. w[i] = new[j] /\ u[i] = new[j]
      BY <1>2, <3>1
    <3>3. new[j].grid = {}
      BY <1>1, <3>1 DEF Fresh
    <3> QED
      BY <3>2, <3>3
  <2> QED
    BY <2>1, <2>2
<1>4. Regiven(k, w, u)
  BY <1>2, <1>3 DEF Regiven
<1> QED
  BY <1>2, <1>4

LEMMA QuantisedIs ==
    ASSUME kind \in {"key", "value"}, NEW h \in Seq(Value)
    PROVE  /\ Quantised(h) \in Seq(Value) /\ Len(Quantised(h)) = Len(h)
           /\ \A i \in 1 .. Len(h) :
                 IF i <= Sink \/ Sink + BlockOf(kind, i) * ScaleSpan(kind) > Len(h)
                 THEN Quantised(h)[i] = h[i]
                 ELSE Quantised(h)[i] = [h[i] EXCEPT !.grid = BlockScale(kind, h, BlockOf(kind, i))]
<1> DEFINE q == Quantised(h)
           End(i) == Sink + BlockOf(kind, i) * ScaleSpan(kind)
           Of(i) == IF i <= Sink \/ End(i) > Len(h) THEN h[i]
                    ELSE [h[i] EXCEPT !.grid = BlockScale(kind, h, BlockOf(kind, i))]
<1>1. PICK n \in Nat : n = Len(h) /\ DOMAIN h = 1 .. n
  OBVIOUS
<1>2. ASSUME NEW i \in 1 .. n, ~(i <= Sink)
      PROVE  {h[j].token : j \in End(i) - ScaleSpan(kind) + 1 .. End(i)} = BlockScale(kind, h, BlockOf(kind, i))
  <2>1. i \in Nat /\ i > Sink /\ Sink \in Nat
    BY <1>1, <1>2, SizesAssumption
  <2>2. PICK from \in Nat, to \in Nat, span \in Nat \ {0} :
           /\ from = (BlockOf(kind, i) - 1) * ScaleSpan(kind) /\ to = BlockOf(kind, i) * ScaleSpan(kind)
           /\ span = ScaleSpan(kind) /\ to = from + span
    <3>1. /\ (BlockOf(kind, i) - 1) * ScaleSpan(kind) \in Nat
          /\ BlockOf(kind, i) * ScaleSpan(kind) \in Nat
          /\ BlockOf(kind, i) * ScaleSpan(kind) = (BlockOf(kind, i) - 1) * ScaleSpan(kind) + ScaleSpan(kind)
      BY <2>1, BlockOfIs
    <3>2. ScaleSpan(kind) \in Nat \ {0}
      BY SpanIsPositive
    <3> QED
      BY <3>1, <3>2, Zenon
  <2>3. (Sink + to) - span + 1 = Sink + from + 1
    BY <2>1, <2>2
  <2>4. End(i) = Sink + to
    BY <2>2, Zenon
  <2>5. End(i) - ScaleSpan(kind) + 1 = Sink + from + 1
    <3>1. ScaleSpan(kind) = span
      BY <2>2
    <3> HIDE DEF End
    <3> QED
      BY <2>3, <2>4, <3>1
  <2>6. BlockScale(kind, h, BlockOf(kind, i)) = {h[j].token : j \in Sink + from + 1 .. Sink + to}
    BY <2>2 DEF BlockScale
  <2> HIDE DEF End
  <2> QED
    BY <2>6, <2>4, <2>5
<1>3. q = [i \in 1 .. n |-> IF i <= Sink \/ End(i) > n THEN h[i]
                            ELSE [h[i] EXCEPT !.grid =
                                     {h[j].token : j \in End(i) - ScaleSpan(kind) + 1 .. End(i)}]]
  BY <1>1 DEF Quantised, BlockOf
<1> HIDE DEF q, End
<1>4. q = [i \in 1 .. n |-> Of(i)]
  BY <1>1, <1>2, <1>3
<1>5. ASSUME NEW i \in 1 .. n
      PROVE  Of(i) \in Value
  <2>1. h[i] \in Value
    BY <1>1
  <2>2. ASSUME ~(i <= Sink), ~(End(i) > n)
        PROVE  BlockScale(kind, h, BlockOf(kind, i)) \in SUBSET Nat
    <3>1. i \in Nat /\ i > Sink /\ Sink \in Nat
      BY <1>1, <2>2, SizesAssumption
    <3>2. PICK from \in Nat, to \in Nat :
             from = (BlockOf(kind, i) - 1) * ScaleSpan(kind) /\ to = BlockOf(kind, i) * ScaleSpan(kind)
      BY <3>1, BlockOfIs
    <3>3. Sink + to <= n
      BY <1>1, <2>2, <3>1, <3>2 DEF End
    <3>4. \A j \in Sink + from + 1 .. Sink + to : j \in 1 .. n
      BY <1>1, <3>1, <3>2, <3>3
    <3>5. \A j \in 1 .. n : h[j].token \in Nat
      <4>1. \A j \in 1 .. n : h[j] \in Value
        BY <1>1
      <4> QED
        BY <4>1 DEF Value
    <3> QED
      BY <3>2, <3>4, <3>5 DEF BlockScale
  <2> QED
    BY <1>1, <2>1, <2>2 DEF Value
<1> HIDE DEF Of
<1>6. q \in [1 .. n -> Value] /\ n \in Nat
  BY <1>1, <1>4, <1>5
<1>7. q \in Seq(Value) /\ Len(q) = n
  BY <1>6
<1>8. \A i \in 1 .. n : q[i] = Of(i)
  BY <1>4
<1> QED
  BY <1>1, <1>7, <1>8 DEF q, Of, End

\* What was quantised is given again, on the scales it had.
LEMMA QuantisedIsRegiven ==
    ASSUME kind \in {"key", "value"}, NEW h \in Seq(Value), Fresh(h)
    PROVE  Regiven(kind, Quantised(h), h)
<1>1. PICK q \in Seq(Value) :
         /\ q = Quantised(h) /\ Len(q) = Len(h)
         /\ \A i \in 1 .. Len(h) :
               IF i <= Sink \/ Sink + BlockOf(kind, i) * ScaleSpan(kind) > Len(h)
               THEN q[i] = h[i]
               ELSE q[i] = [h[i] EXCEPT !.grid = BlockScale(kind, h, BlockOf(kind, i))]
  BY QuantisedIs
<1>2. ASSUME NEW i \in 1 .. Len(h)
      PROVE  /\ q[i].token = h[i].token
             /\ q[i].grid # {} =>
                   /\ i > Sink
                   /\ Sink + BlockOf(kind, i) * ScaleSpan(kind) <= Len(h)
                   /\ q[i].grid = BlockScale(kind, h, BlockOf(kind, i))
  <2>1. h[i] \in Value /\ h[i].grid = {} /\ i \in Nat /\ Sink \in Nat /\ Len(h) \in Nat
    BY SizesAssumption DEF Fresh
  <2>2. CASE i <= Sink \/ Sink + BlockOf(kind, i) * ScaleSpan(kind) > Len(h)
    BY <1>1, <2>1, <2>2
  <2>3. CASE ~(i <= Sink \/ Sink + BlockOf(kind, i) * ScaleSpan(kind) > Len(h))
    <3>1. q[i] = [h[i] EXCEPT !.grid = BlockScale(kind, h, BlockOf(kind, i))]
      BY <1>1, <2>3
    <3>2. q[i].token = h[i].token /\ q[i].grid = BlockScale(kind, h, BlockOf(kind, i))
      BY <2>1, <3>1 DEF Value
    <3>3. i > Sink
      BY <2>1, <2>3
    <3>4. Sink + BlockOf(kind, i) * ScaleSpan(kind) <= Len(h)
      <4>1. PICK to \in Nat : to = BlockOf(kind, i) * ScaleSpan(kind)
        BY <2>1, <3>3, BlockOfIs
      <4> QED
        BY <2>1, <2>3, <4>1
    <3> QED
      BY <3>2, <3>3, <3>4
  <2> QED
    BY <2>2, <2>3
<1> QED
  BY <1>1, <1>2 DEF Regiven

\* A value of a full block comes back on the scale of its block, be it given
\* for the first time or again.
LEMMA DequantisedIs ==
    ASSUME NEW value \in Value, NEW given \in Value, NEW scale \in SUBSET Nat,
           given.token = value.token, value.grid = {}, given.grid = {} \/ given.grid = scale
    PROVE  Dequantised(Code(given, scale), scale) = [value EXCEPT !.grid = scale]
<1>1. Dequantised(Code(given, scale), scale) = [given EXCEPT !.grid = @ \cup scale]
  BY DEF Dequantised, Code
<1>2. given.grid \cup scale = scale
  OBVIOUS
<1>3. [given EXCEPT !.grid = @ \cup scale] = [token |-> given.token, grid |-> scale]
  BY <1>2 DEF Value
<1>4. [value EXCEPT !.grid = scale] = [token |-> value.token, grid |-> scale]
  BY DEF Value
<1> QED
  BY <1>1, <1>3, <1>4

LEMMA ScaleIsOfTokens ==
    ASSUME NEW k \in {"key", "value"}, NEW v \in Seq(Value), NEW b \in Nat \ {0},
           Sink + b * ScaleSpan(k) <= Len(v)
    PROVE  BlockScale(k, v, b) \in SUBSET Nat
<1>1. PICK span \in Nat \ {0} : span = ScaleSpan(k)
  BY SpanIsPositive
<1>2. PICK from \in Nat, to \in Nat : from = (b - 1) * span /\ to = b * span
  BY <1>1
<1>3. \A i \in Sink + from + 1 .. Sink + to : i \in 1 .. Len(v)
  <2>1. Sink + to <= Len(v)
    BY <1>1, <1>2
  <2> QED
    BY <1>2, <2>1, SizesAssumption
<1>4. \A i \in 1 .. Len(v) : v[i] \in Value
  OBVIOUS
<1>5. \A i \in 1 .. Len(v) : v[i].token \in Nat
  BY <1>4 DEF Value
<1>6. BlockScale(k, v, b) = {v[i].token : i \in Sink + from + 1 .. Sink + to}
  BY <1>1, <1>2 DEF BlockScale
<1> QED
  BY <1>3, <1>5, <1>6

LEMMA SameValue ==
    ASSUME NEW v \in Value, NEW w \in Value, v.token = w.token, v.grid = w.grid
    PROVE  v = w
  BY DEF Value

LEMMA QuantView ==
    ASSUME kind \in {"key", "value"}, NEW fed \in Seq(Value), NEW h \in Seq(Value),
           NEW c, QuantHolds(kind, c, fed), c.len = Len(fed), Regiven(kind, fed, h), Fresh(h)
    PROVE  View(c) = Quantised(h)
<1>1. PICK sink \in Seq(Value), packed \in Seq(Codes), scales \in Seq(SUBSET Nat),
           residual \in Seq(Value), len \in Nat :
           c = QuantOf(sink, packed, scales, residual, len)
  BY QuantParts DEF QuantHolds
<1>2. PICK span \in Nat \ {0} : span = ScaleSpan(kind)
  BY SpanIsPositive
<1>3. Stored(kind, sink, packed, scales, residual, fed) /\ Len(residual) < span
  BY <1>1, <1>2, PartsHold
<1>4. PICK n \in Nat, s \in Nat, p \in Nat, r \in Nat, m \in Nat :
         /\ n = Len(fed) /\ n = Len(h) /\ s = Len(sink) /\ p = Len(packed) /\ r = Len(residual)
         /\ m = Len(scales)
  <2>1. Len(fed) = Len(h)
    BY DEF Regiven
  <2> QED
    BY <2>1
<1>5. n = s + p + r
  <2>1. Len(fed) = Len(sink) + Len(packed) + Len(residual)
    BY <1>3 DEF Stored
  <2> QED
    BY <1>4, <2>1
<1>6. s <= Sink /\ (s < n => s = Sink) /\ r < span
  <2>1. s = Smaller(n, Sink)
    BY <1>3, <1>4 DEF Stored, SinkHolds
  <2> QED
    BY <1>3, <1>4, <2>1, SizesAssumption DEF Smaller
<1>7. p = m * span
  BY <1>2, <1>3, <1>4 DEF Stored, BlocksHold
<1> DEFINE opened == [g \in DOMAIN packed |->
                         Dequantised(packed[g], scales[(g - 1) \div ScaleSpan(kind) + 1])]
           Is(i) == IF i <= Sink \/ Sink + BlockOf(kind, i) * ScaleSpan(kind) > n THEN h[i]
                    ELSE [h[i] EXCEPT !.grid = BlockScale(kind, h, BlockOf(kind, i))]
<1>8. PICK q \in Seq(Value) : q = Quantised(h) /\ Len(q) = n /\ \A i \in 1 .. n : q[i] = Is(i)
  <2>1. PICK q \in Seq(Value) :
           /\ q = Quantised(h) /\ Len(q) = Len(h)
           /\ \A i \in 1 .. Len(h) :
                 IF i <= Sink \/ Sink + BlockOf(kind, i) * ScaleSpan(kind) > Len(h)
                 THEN q[i] = h[i]
                 ELSE q[i] = [h[i] EXCEPT !.grid = BlockScale(kind, h, BlockOf(kind, i))]
    BY QuantisedIs
  <2>2. Len(h) = n
    BY <1>4
  <2>3. \A i \in 1 .. n : q[i] = Is(i)
    BY <2>1, <2>2, Zenon
  <2> QED
    BY <2>1, <2>2, <2>3
<1>9. \A i \in 1 .. n : /\ h[i] \in Value /\ h[i].grid = {}
                        /\ fed[i] \in Value /\ fed[i].token = h[i].token
  <2>1. \A i \in 1 .. Len(h) : h[i].grid = {} /\ fed[i].token = h[i].token
    BY DEF Fresh, Regiven
  <2>2. \A i \in 1 .. n : h[i] \in Value
    BY <1>4
  <2>3. \A i \in 1 .. n : fed[i] \in Value
    <3>1. n = Len(fed)
      BY <1>4
    <3> QED
      BY <3>1
  <2> QED
    BY <1>4, <2>1, <2>2, <2>3
<1>10. ASSUME NEW i \in 1 .. s
      PROVE  sink[i] = q[i]
  <2>1. i \in 1 .. n /\ i <= Sink
    BY <1>4, <1>5, <1>6, SizesAssumption
  <2>2. sink[i] = fed[i]
    BY <1>3, <1>4 DEF Stored, SinkHolds
  <2>3. fed[i].grid = {}
    <3>1. fed[i].grid # {} => i > Sink
      BY <1>4, <2>1 DEF Regiven
    <3> QED
      BY <2>1, <3>1, SizesAssumption
  <2>4. fed[i] = h[i]
    BY <1>9, <2>1, <2>3, SameValue
  <2> QED
    BY <1>8, <2>1, <2>2, <2>4
<1>11. ASSUME NEW g \in 1 .. p
      PROVE  opened[g] = q[Sink + g]
  <2>1. PICK i \in Nat : i = Sink + g /\ i \in 1 .. n /\ i > Sink /\ i - Sink = g
    <3>1. Sink \in Nat /\ s = Sink
      BY <1>4, <1>5, <1>6, SizesAssumption
    <3> QED
      BY <1>4, <1>5, <3>1
  <2>2. PICK b \in Nat \ {0} :
           /\ b = BlockOf(kind, i) /\ b \in 1 .. m /\ b * span <= m * span
           /\ (b - 1) * span < g /\ g <= b * span
    <3>1. BlockOf(kind, i) \in 1 .. m /\ BlockOf(kind, i) * span <= m * span
      <4>1. g <= m * span
        BY <1>7
      <4>2. i - Sink <= m * ScaleSpan(kind)
        BY <1>2, <2>1, <4>1
      <4>3. /\ BlockOf(kind, i) \in 1 .. m
            /\ BlockOf(kind, i) * ScaleSpan(kind) <= m * ScaleSpan(kind)
        BY <1>4, <2>1, <4>2, BlockOfInside
      <4> QED
        BY <1>2, <4>3
    <3>2. /\ BlockOf(kind, i) \in Nat \ {0} /\ (BlockOf(kind, i) - 1) * span < g
          /\ g <= BlockOf(kind, i) * span
      <4>1. /\ BlockOf(kind, i) \in Nat \ {0}
            /\ (BlockOf(kind, i) - 1) * ScaleSpan(kind) < i - Sink
            /\ i - Sink <= BlockOf(kind, i) * ScaleSpan(kind)
        BY <2>1, BlockOfIs
      <4> QED
        BY <1>2, <2>1, <4>1
    <3> QED
      BY <3>1, <3>2, Zenon
  <2>3. PICK from \in Nat, to \in Nat :
           from = (b - 1) * span /\ to = b * span /\ from < g /\ g <= to /\ to <= p
    <3>1. (b - 1) * span \in Nat /\ b * span \in Nat
      <4>1. b \in Nat \ {0}
        BY <2>2, Zenon
      <4> QED
        BY <1>2, <4>1
    <3> QED
      BY <1>7, <2>2, <3>1
  <2>4. Sink + to <= n
    BY <1>4, <1>5, <1>6, <2>3, SizesAssumption
  <2>5. BlockHolds(kind, packed, scales[b], fed, b)
    BY <1>3, <1>4, <2>2 DEF Stored, BlocksHold
  <2>6. scales[b] = BlockScale(kind, h, b)
    <3>1. \A j \in 1 .. Sink + to : j \in 1 .. n
      BY <1>4, <2>3, <2>4, SizesAssumption
    <3>2. \A j \in 1 .. Sink + b * ScaleSpan(kind) : fed[j].token = h[j].token
      BY <1>2, <1>9, <2>3, <3>1
    <3>3. BlockScale(kind, fed, b) = BlockScale(kind, h, b)
      BY <3>2, ScaleIsTokens
    <3> QED
      BY <2>5, <3>3 DEF BlockHolds
  <2>7. packed[g] = Code(fed[i], scales[b])
    <3>1. g \in from + 1 .. to
      BY <1>4, <2>3
    <3> QED
      BY <1>2, <2>1, <2>3, <2>5, <3>1 DEF BlockHolds
  <2>8. (fed[i].grid = {} \/ fed[i].grid = scales[b]) /\ scales[b] \in SUBSET Nat
    <3>1. fed[i].grid # {} => fed[i].grid = BlockScale(kind, h, b)
      BY <1>4, <2>1, <2>2 DEF Regiven
    <3>2. scales[b] \in SUBSET Nat
      <4>1. b \in 1 .. Len(scales)
        BY <1>4, <2>2
      <4> QED
        BY <4>1
    <3> QED
      BY <2>6, <3>1, <3>2
  <2>9. opened[g] = Dequantised(packed[g], scales[b])
    <3>1. g \in DOMAIN packed
      <4>1. DOMAIN packed = 1 .. Len(packed)
        OBVIOUS
      <4> QED
        BY <1>4, <4>1
    <3>2. (g - 1) \div ScaleSpan(kind) + 1 = b
      BY <2>1, <2>2, SizesAssumption DEF BlockOf
    <3> QED
      BY <3>1, <3>2
  <2> HIDE DEF opened
  <2>10. opened[g] = [h[i] EXCEPT !.grid = scales[b]]
    <3>1. h[i] \in Value /\ h[i].grid = {} /\ fed[i] \in Value /\ fed[i].token = h[i].token
      BY <1>9, <2>1
    <3>2. PICK value, given, scale : value = h[i] /\ given = fed[i] /\ scale = scales[b]
      OBVIOUS
    <3>3. /\ value \in Value /\ given \in Value /\ scale \in SUBSET Nat
          /\ given.token = value.token /\ value.grid = {}
          /\ given.grid = {} \/ given.grid = scale
      BY <2>8, <3>1, <3>2, Zenon
    <3>4. Dequantised(Code(given, scale), scale) = [value EXCEPT !.grid = scale]
      BY <3>3, DequantisedIs
    <3>5. packed[g] = Code(given, scale) /\ opened[g] = Dequantised(packed[g], scale)
      BY <2>7, <2>9, <3>2, Zenon
    <3> QED
      BY <3>2, <3>4, <3>5, Zenon
  <2>11. q[i] = [h[i] EXCEPT !.grid = scales[b]]
    <3>1. ~(i <= Sink \/ Sink + BlockOf(kind, i) * ScaleSpan(kind) > n)
      <4>1. BlockOf(kind, i) * ScaleSpan(kind) = to
        BY <1>2, <2>2, <2>3
      <4> QED
        BY <2>1, <2>3, <2>4, <4>1, <1>4, SizesAssumption
    <3>2. q[i] = Is(i)
      BY <1>8, <2>1
    <3>3. Is(i) = [h[i] EXCEPT !.grid = BlockScale(kind, h, BlockOf(kind, i))]
      BY <3>1
    <3> QED
      BY <2>2, <2>6, <3>2, <3>3
  <2> QED
    BY <2>1, <2>10, <2>11
<1>12. ASSUME NEW j \in 1 .. r
      PROVE  residual[j] = q[Sink + p + j]
  <2>1. PICK i \in Nat : i = Sink + p + j /\ i \in 1 .. n /\ i > Sink /\ i - Sink > p
    <3>1. Sink \in Nat /\ s = Sink
      BY <1>4, <1>5, <1>6, SizesAssumption
    <3>2. s + p + j \in 1 .. n /\ s + p + j > s /\ (s + p + j) - s > p
      BY <1>4, <1>5, <3>1
    <3>3. s + p + j \in Nat
      BY <1>4, <3>1
    <3> QED
      BY <3>1, <3>2, <3>3
  <2>2. PICK to \in Nat : to = BlockOf(kind, i) * ScaleSpan(kind) /\ to >= p + span
    <3>1. BlockOf(kind, i) * ScaleSpan(kind) \in Nat
      BY <2>1, BlockOfIs
    <3>2. BlockOf(kind, i) * span >= m * span + span
      <4>1. i - Sink > m * ScaleSpan(kind)
        BY <1>2, <1>7, <2>1
      <4>2. BlockOf(kind, i) * ScaleSpan(kind) >= m * ScaleSpan(kind) + ScaleSpan(kind)
        BY <1>4, <2>1, <4>1, BlockOfInside
      <4> QED
        BY <1>2, <4>2
    <3> QED
      BY <1>2, <1>7, <3>1, <3>2
  <2>3. Sink + to > n
    <3>1. Sink \in Nat /\ s = Sink
      BY <1>4, <1>6, <2>1, SizesAssumption
    <3>2. to \in Nat /\ to >= p + span
      BY <2>2, Zenon
    <3> QED
      BY <1>2, <1>4, <1>5, <1>6, <3>1, <3>2
  <2>4. residual[j] = fed[i]
    BY <1>3, <1>4, <2>1 DEF Stored, ResidualHolds
  <2>5. fed[i].grid = {}
    <3>1. fed[i].grid # {} => Sink + to <= n
      BY <1>4, <2>1, <2>2 DEF Regiven
    <3>2. ~(Sink + to <= n)
      BY <1>4, <2>2, <2>3, SizesAssumption
    <3> QED
      BY <3>1, <3>2
  <2>6. fed[i] = h[i]
    <3>1. h[i] \in Value /\ h[i].grid = {} /\ fed[i] \in Value /\ fed[i].token = h[i].token
      BY <1>9, <2>1
    <3> QED
      BY <2>5, <3>1, SameValue
  <2>7. q[i] = h[i]
    <3>1. q[i] = Is(i)
      BY <1>8, <2>1
    <3>2. Sink + BlockOf(kind, i) * ScaleSpan(kind) > n
      BY <2>2, <2>3
    <3> QED
      BY <3>1, <3>2
  <2> QED
    BY <2>1, <2>4, <2>6, <2>7
<1>13. opened \in Seq(Value) /\ Len(opened) = p
  <2>1. DOMAIN packed = 1 .. p
    <3>1. DOMAIN packed = 1 .. Len(packed)
      OBVIOUS
    <3> QED
      BY <1>4, <3>1
  <2>2. \A g \in 1 .. p : q[Sink + g] \in Value
    <3>1. \A g \in 1 .. p : Sink + g \in 1 .. n
      <4>1. ASSUME NEW g \in 1 .. p
            PROVE  Sink + g \in 1 .. n
        <5>1. Sink \in Nat /\ s = Sink
          BY <1>4, <1>5, <1>6, <4>1, SizesAssumption
        <5> QED
          BY <1>4, <1>5, <5>1
      <4> QED
        BY <4>1
    <3> QED
      BY <1>8, <3>1
  <2>3. \A g \in 1 .. p : opened[g] \in Value
    BY <1>11, <2>2
  <2>4. opened \in [1 .. p -> Value]
    BY <2>1, <2>3
  <2> HIDE DEF opened
  <2>5. p \in Nat
    BY <1>4
  <2> QED
    BY <2>4, <2>5
<1>14. View(c) = SubSeq((sink \o opened) \o residual, 1, n)
  <2>1. c.sink = sink /\ c.packed = packed /\ c.scales = scales /\ c.residual = residual
    BY <1>1 DEF QuantOf
  <2>2. DequantAll(kind, c) = (sink \o opened) \o residual
    BY <2>1 DEF DequantAll
  <2>3. View(c) = SubSeq(DequantAll(kind, c), 1, c.len)
    BY DEF View
  <2> QED
    BY <1>4, <2>2, <2>3
<1> HIDE DEF opened, Is
<1>15. PICK head \in Seq(Value) :
          /\ head = sink \o opened /\ Len(head) = s + p
          /\ \A i \in 1 .. s : head[i] = sink[i]
          /\ \A g \in 1 .. p : head[s + g] = opened[g]
  <2>1. /\ sink \o opened \in Seq(Value) /\ Len(sink \o opened) = Len(sink) + Len(opened)
        /\ \A i \in 1 .. Len(sink) : (sink \o opened)[i] = sink[i]
        /\ \A g \in 1 .. Len(opened) : (sink \o opened)[Len(sink) + g] = opened[g]
    <3>1. sink \in Seq(Value) /\ opened \in Seq(Value)
      BY <1>1, <1>13, Zenon
    <3> QED
      BY <3>1, Joined
  <2>2. Len(sink) = s /\ Len(opened) = p
    BY <1>4, <1>13
  <2> QED
    BY <2>1, <2>2, Zenon
<1>16. PICK all \in Seq(Value) :
          /\ all = head \o residual /\ Len(all) = n
          /\ \A i \in 1 .. s + p : all[i] = head[i]
          /\ \A j \in 1 .. r : all[s + p + j] = residual[j]
  <2>1. /\ head \o residual \in Seq(Value) /\ Len(head \o residual) = Len(head) + Len(residual)
        /\ \A i \in 1 .. Len(head) : (head \o residual)[i] = head[i]
        /\ \A j \in 1 .. Len(residual) : (head \o residual)[Len(head) + j] = residual[j]
    <3>1. head \in Seq(Value) /\ residual \in Seq(Value)
      BY <1>1, <1>15, Zenon
    <3> QED
      BY <3>1, Joined
  <2>2. Len(head) = s + p /\ Len(residual) = r
    BY <1>4, <1>15
  <2>3. Len(head) + Len(residual) = n
    BY <1>4, <1>5, <2>2
  <2>4. /\ \A i \in 1 .. s + p : (head \o residual)[i] = head[i]
        /\ \A j \in 1 .. r : (head \o residual)[s + p + j] = residual[j]
    BY <2>1, <2>2, Zenon
  <2> QED
    BY <2>1, <2>3, <2>4, Zenon
<1>17. ASSUME NEW i \in 1 .. n
       PROVE  all[i] = q[i]
  <2>1. CASE i <= s
    <3>1. i \in 1 .. s /\ i \in 1 .. s + p
      BY <1>4, <2>1
    <3> QED
      BY <1>10, <1>15, <1>16, <3>1
  <2>2. CASE i > s /\ i <= s + p
    <3>1. PICK g \in 1 .. p : i = s + g
      <4>1. i - s \in 1 .. p /\ i = s + (i - s)
        BY <1>4, <2>2
      <4> QED
        BY <4>1
    <3>2. s = Sink /\ i \in 1 .. s + p
      BY <1>4, <1>6, <2>2
    <3> QED
      BY <1>11, <1>15, <1>16, <3>1, <3>2
  <2>3. CASE i > s + p
    <3>1. PICK j \in 1 .. r : i = s + p + j
      <4>1. i - (s + p) \in 1 .. r /\ i = s + p + (i - (s + p))
        BY <1>4, <1>5, <2>3
      <4> QED
        BY <4>1
    <3>2. s = Sink
      BY <1>4, <1>6, <2>3
    <3> QED
      BY <1>12, <1>16, <3>1, <3>2
  <2> QED
    BY <1>4, <2>1, <2>2, <2>3
<1>18. all = q
  BY <1>8, <1>16, <1>17
<1>19. SubSeq(all, 1, n) = all
  BY <1>16
<1> QED
  BY <1>8, <1>14, <1>15, <1>16, <1>18, <1>19

LEMMA BlankIsStored ==
    ASSUME NEW k \in {"key", "value"}
    PROVE  QuantHolds(k, Blank(k), <<>>) /\ Blank(k).len = 0
<1>1. Blank(k) = QuantOf(<<>>, <<>>, <<>>, <<>>, 0)
  BY DEF Blank, QuantOf
<1>2. /\ <<>> \in Seq(Value) /\ <<>> \in Seq(Codes) /\ <<>> \in Seq(SUBSET Nat)
      /\ Len(<<>>) = 0 /\ 0 \in Nat
  OBVIOUS
<1>3. PICK span \in Nat \ {0} : span = ScaleSpan(k)
  BY SpanIsPositive
<1>4. Stored(k, <<>>, <<>>, <<>>, <<>>, <<>>)
  <2>1. SinkHolds(<<>>, <<>>)
    BY SizesAssumption DEF SinkHolds, Smaller
  <2>2. BlocksHold(k, <<>>, <<>>, <<>>)
    BY <1>3 DEF BlocksHold
  <2> QED
    BY <2>1, <2>2 DEF Stored, ResidualHolds
<1>5. QuantHolds(k, QuantOf(<<>>, <<>>, <<>>, <<>>, 0), <<>>)
  <2>1. Len(<<>>) < ScaleSpan(k)
    BY <1>2, <1>3
  <2> QED
    BY <1>2, <1>4, <2>1, PartsHold
<1>6. QuantOf(<<>>, <<>>, <<>>, <<>>, 0).len = 0
  BY DEF QuantOf
<1> QED
  BY <1>1, <1>5, <1>6

-----------------------------------------------------------------------------
(* The invariant of a session.                                               *)

\* Which models the theorems are about: a device cache is not cloned (its
\* clone shares the buffer).
ClonesAreApart ==
    /\ Kinds \subseteq {"dyn", "inplace", "window", "key", "value", "device"}
    /\ "device" \in Kinds => ~DeviceClones

DynState == [held : BOOLEAN, values : Seq(Value)]

\* A quantised state was given the tokens of h, in a turn or from a checkpoint.
GivenTo(k, c, h) ==
    /\ Fresh(h)
    /\ \E fed \in Seq(Value) : QuantHolds(k, c, fed) /\ c.len = Len(fed) /\ Regiven(k, fed, h)

\* A state of a cache of kind k, over device buffers hp, holds the history h.
Keeps(k, hp, c, h) ==
    /\ k = "dyn" => c \in DynState /\ c.values = h /\ (~c.held => h = <<>>)
    /\ k = "inplace" => c \in InPlaceState /\ Holds(c.buf, c.len, h)
    /\ k = "window" => c \in WindowState /\ RingKeeps(c, h)
    /\ k = "device" => c \in DeviceState /\ OnDevice(hp, c, h)
    /\ k \in {"key", "value"} => GivenTo(k, c, h)

KvTypes ==
    /\ kind \in Kinds /\ windowed \in BOOLEAN
    /\ tokens \in Nat
    /\ cache = [s \in Session |-> cache[s]]
    /\ history \in [Session -> Seq(Value)]
    /\ heap \in Seq(Seq(Value))
    /\ \A given \in handed : /\ given.buffer \in 1 .. Len(heap) /\ given.promised \in Seq(Value)
                             /\ given.window = windowed

CachesKeep == \A s \in Session : Keeps(kind, heap, cache[s], history[s])

\* What was handed out of the buffer that c writes is a window of what c holds.
IsBehind(given, c) == given.buffer = c.buffer => given.window /\ Len(given.promised) <= c.len

\* A device buffer is of one session, or of none.
BuffersAreOwned ==
    /\ kind = "device" =>
          /\ \A s, t \in Session : s # t /\ cache[s].buffer # 0 => cache[s].buffer # cache[t].buffer
          /\ \A given \in handed : \A s \in Session : IsBehind(given, cache[s])
    /\ \A given \in handed : Holds(heap[given.buffer], Len(given.promised), given.promised)

SavedKeeps ==
    saved # <<>> =>
        /\ kind # "window"
        /\ saved.values \in Seq(Value) /\ saved.history \in Seq(Value)
        /\ IF kind \in {"key", "value"}
           THEN Fresh(saved.history) /\ saved.values = Quantised(saved.history)
           ELSE saved.values = saved.history

KvInv == KvTypes /\ CachesKeep /\ BuffersAreOwned /\ SavedKeeps

LEMMA SavedStays ==
    ASSUME SavedKeeps, UNCHANGED <<kind, saved>>
    PROVE  SavedKeeps'
  BY DEF SavedKeeps, Quantised

LEMMA BlankKeeps ==
    ASSUME NEW k \in {"dyn", "inplace", "window", "key", "value", "device"}, heap \in Seq(Seq(Value))
    PROVE  Keeps(k, heap, Blank(k), <<>>)
<1>1. k = "dyn" => Blank(k) \in DynState /\ Blank(k).values = <<>>
  BY DEF Blank, DynState
<1>2. k = "inplace" => Blank(k) \in InPlaceState /\ Holds(Blank(k).buf, Blank(k).len, <<>>)
  BY DEF Blank, InPlaceState, Holds
<1>3. k = "window" => Blank(k) \in WindowState /\ RingKeeps(Blank(k), <<>>)
  BY DEF Blank, WindowState, RingKeeps
<1>4. k = "device" => Blank(k) \in DeviceState /\ OnDevice(heap, Blank(k), <<>>)
  BY DEF Blank, DeviceState, OnDevice
<1>5. k \in {"key", "value"} => GivenTo(k, Blank(k), <<>>)
  <2> SUFFICES ASSUME k \in {"key", "value"} PROVE GivenTo(k, Blank(k), <<>>)
    OBVIOUS
  <2>1. QuantHolds(k, Blank(k), <<>>) /\ Blank(k).len = 0
    BY BlankIsStored
  <2>2. Fresh(<<>>) /\ Regiven(k, <<>>, <<>>)
    BY DEF Fresh, Regiven
  <2>3. <<>> \in Seq(Value) /\ Len(<<>>) = 0
    OBVIOUS
  <2> QED
    BY <2>1, <2>2, <2>3 DEF GivenTo
<1> QED
  BY <1>1, <1>2, <1>3, <1>4, <1>5 DEF Keeps

LEMMA QuantisedGivenMore ==
    ASSUME NEW k \in {"key", "value"}, NEW c, NEW h \in Seq(Value), NEW new \in Seq(Value),
           GivenTo(k, c, h), Fresh(new)
    PROVE  GivenTo(k, Ingested(k, c, new), h \o new)
<1>1. PICK fed \in Seq(Value) : QuantHolds(k, c, fed) /\ c.len = Len(fed) /\ Regiven(k, fed, h)
  BY DEF GivenTo
<1>2. /\ QuantHolds(k, Ingested(k, c, new), fed \o new)
      /\ Ingested(k, c, new).len = c.len + Len(new)
  <2>1. QuantHolds(k, c, fed)
    BY <1>1
  <2> QED
    BY <2>1, IngestedHolds
<1>3. Regiven(k, fed \o new, h \o new)
  BY <1>1, RegivenGrows
<1>4. fed \o new \in Seq(Value) /\ Len(fed \o new) = Len(fed) + Len(new)
  BY <1>1
<1>5. Fresh(h \o new)
  <2>1. Fresh(h)
    BY DEF GivenTo
  <2>2. /\ Len(h) \in Nat /\ Len(new) \in Nat /\ Len(h \o new) = Len(h) + Len(new)
        /\ \A i \in 1 .. Len(h) : (h \o new)[i] = h[i]
        /\ \A i \in 1 .. Len(new) : (h \o new)[Len(h) + i] = new[i]
    BY Joined
  <2>3. PICK n \in Nat, m \in Nat : n = Len(h) /\ m = Len(new)
    BY <2>2
  <2>4. ASSUME NEW i \in 1 .. n + m
        PROVE  (h \o new)[i].grid = {}
    <3>1. CASE i \in 1 .. n
      BY <2>1, <2>2, <2>3, <3>1 DEF Fresh
    <3>2. CASE i \notin 1 .. n
      <4>1. i - n \in 1 .. m /\ i = n + (i - n)
        BY <2>3, <3>2
      <4> QED
        BY <2>2, <2>3, <4>1 DEF Fresh
    <3> QED
      BY <3>1, <3>2
  <2>5. Len(h \o new) = n + m
    BY <2>2, <2>3
  <2> QED
    BY <2>4, <2>5 DEF Fresh
<1> QED
  BY <1>1, <1>2, <1>3, <1>4, <1>5 DEF GivenTo

\* A checkpoint, into a new state.
LEMMA QuantisedGivenAgain ==
    ASSUME kind \in {"key", "value"}, NEW h \in Seq(Value), Fresh(h)
    PROVE  GivenTo(kind, Ingested(kind, Blank(kind), Quantised(h)), h)
<1>1. QuantHolds(kind, Blank(kind), <<>>) /\ Blank(kind).len = 0
  BY BlankIsStored
<1>2. PICK q \in Seq(Value) : q = Quantised(h)
  BY QuantisedIs
<1>3. <<>> \in Seq(Value) /\ <<>> \o q = q
  BY <1>2
<1>4. PICK c : c = Blank(kind)
  OBVIOUS
<1>5. /\ QuantHolds(kind, Ingested(kind, c, q), q)
      /\ Ingested(kind, c, q).len = c.len + Len(q)
  <2>1. ASSUME NEW v \in Seq(Value), NEW w \in Seq(Value), QuantHolds(kind, c, v)
        PROVE  /\ QuantHolds(kind, Ingested(kind, c, w), v \o w)
               /\ Ingested(kind, c, w).len = c.len + Len(w)
    BY <2>1, IngestedHolds
  <2>2. <<>> \in Seq(Value) /\ QuantHolds(kind, c, <<>>)
    BY <1>1, <1>3, <1>4, Zenon
  <2>3. QuantHolds(kind, Ingested(kind, c, q), <<>> \o q)
    BY <1>2, <2>1, <2>2, Zenon
  <2>4. Ingested(kind, c, q).len = c.len + Len(q)
    BY <1>2, <2>1, <2>2, Zenon
  <2> QED
    BY <1>3, <2>3, <2>4, Zenon
<1>6. Ingested(kind, c, q).len = Len(q)
  BY <1>1, <1>2, <1>4, <1>5
<1>7. Regiven(kind, q, h)
  BY <1>2, QuantisedIsRegiven
<1> QED
  BY <1>2, <1>4, <1>5, <1>6, <1>7 DEF GivenTo

LEMMA AbsorbedKeeps ==
    ASSUME NEW s \in Session, NEW h \in Seq(Value), NEW new \in Seq(Value),
           kind # "device", kind \in {"key", "value"} => Fresh(new),
           Keeps(kind, heap, cache[s], h)
    PROVE  Keeps(kind, heap, Absorbed(s, new), h \o new)
<1>1. CASE kind = "dyn"
  <2>1. Absorbed(s, new) = [held |-> TRUE, values |-> cache[s].values \o new]
    BY <1>1 DEF Absorbed
  <2>2. cache[s].values = h /\ h \o new \in Seq(Value)
    BY <1>1 DEF Keeps
  <2>3. /\ Absorbed(s, new) \in DynState /\ Absorbed(s, new).values = h \o new
        /\ Absorbed(s, new).held
    BY <2>1, <2>2 DEF DynState
  <2> QED
    BY <1>1, <2>3 DEF Keeps
<1>2. CASE kind = "inplace"
  <2>1. Absorbed(s, new) = InPlacePushed(cache[s], new)
    BY <1>2 DEF Absorbed
  <2>2. PICK c \in InPlaceState : c = cache[s] /\ Holds(c.buf, c.len, h)
    BY <1>2 DEF Keeps
  <2>3. /\ InPlacePushed(c, new) \in InPlaceState
        /\ Holds(InPlacePushed(c, new).buf, InPlacePushed(c, new).len, h \o new)
    BY <2>2, InPlaceKeepsHistory
  <2> QED
    BY <1>2, <2>1, <2>2, <2>3 DEF Keeps
<1>3. CASE kind = "window"
  <2>1. Absorbed(s, new) = WindowPushed(cache[s], new)
    BY <1>3 DEF Absorbed
  <2>2. PICK c \in WindowState : c = cache[s] /\ RingKeeps(c, h)
    BY <1>3 DEF Keeps
  <2>3. WindowPushed(c, new) \in WindowState /\ RingKeeps(WindowPushed(c, new), h \o new)
    BY <2>2, WindowKeepsTheLast
  <2> QED
    BY <1>3, <2>1, <2>2, <2>3 DEF Keeps
<1>4. CASE kind \in {"key", "value"}
  <2>1. Absorbed(s, new) = Ingested(kind, cache[s], new)
    BY <1>4 DEF Absorbed
  <2>2. GivenTo(kind, Ingested(kind, cache[s], new), h \o new)
    BY <1>4, QuantisedGivenMore DEF Keeps
  <2> QED
    BY <1>4, <2>1, <2>2 DEF Keeps
<1>5. CASE kind \notin {"dyn", "inplace", "window", "key", "value"}
  BY <1>5 DEF Keeps
<1> QED
  BY <1>1, <1>2, <1>3, <1>4, <1>5

LEMMA ChunkIsValues ==
    ASSUME tokens \in Nat, NEW n \in Nat
    PROVE  /\ Chunk(n) \in Seq(Value) /\ Fresh(Chunk(n))
           /\ n = 0 <=> Chunk(n) = <<>>
<1>1. Chunk(n) \in Seq(Value)
  BY DEF Chunk, Exact, Value
<1>2. Fresh(Chunk(n))
  BY DEF Chunk, Exact, Fresh
<1>3. n = 0 <=> Chunk(n) = <<>>
  BY DEF Chunk, Exact
<1> QED
  BY <1>1, <1>2, <1>3

LEMMA ViewIsHistory ==
    ASSUME ClonesAreApart, NEW s \in Session, KvInv, kind # "window"
    PROVE  View(cache[s]) = IF kind \in {"key", "value"} THEN Quantised(history[s]) ELSE history[s]
<1>1. history[s] \in Seq(Value) /\ Keeps(kind, heap, cache[s], history[s])
  BY DEF KvInv, KvTypes, CachesKeep
<1>2. CASE kind = "dyn"
  BY <1>1, <1>2 DEF View, Keeps
<1>3. CASE kind = "inplace"
  BY <1>1, <1>3, HeldIsHistory DEF View, Keeps, InPlaceState
<1>4. CASE kind = "device"
  <2>1. heap \in Seq(Seq(Value)) /\ cache[s] \in DeviceState /\ OnDevice(heap, cache[s], history[s])
    BY <1>1, <1>4 DEF Keeps, KvInv, KvTypes
  <2>2. CASE cache[s].buffer = 0
    BY <1>4, <2>1, <2>2 DEF View, OnDevice
  <2>3. CASE cache[s].buffer # 0
    <3>1. heap[cache[s].buffer] \in Seq(Value) /\ Holds(heap[cache[s].buffer], cache[s].len, history[s])
      BY <2>1, <2>3 DEF OnDevice
    <3> QED
      BY <1>1, <1>4, <2>3, <3>1, HeldIsHistory DEF View
  <2> QED
    BY <2>2, <2>3
<1>5. CASE kind \in {"key", "value"}
  <2>1. GivenTo(kind, cache[s], history[s])
    BY <1>1, <1>5 DEF Keeps
  <2>2. PICK fed \in Seq(Value) : /\ QuantHolds(kind, cache[s], fed) /\ cache[s].len = Len(fed)
                                 /\ Regiven(kind, fed, history[s])
    BY <2>1 DEF GivenTo
  <2>3. View(cache[s]) = Quantised(history[s])
    BY <1>1, <1>5, <2>1, <2>2, QuantView DEF GivenTo
  <2> QED
    BY <1>5, <2>3
<1> QED
  BY <1>2, <1>3, <1>4, <1>5 DEF KvInv, KvTypes, ClonesAreApart

LEMMA InitKeeps ==
    ASSUME ClonesAreApart, Init
    PROVE  KvInv
<1>1. /\ kind \in {"dyn", "inplace", "window", "key", "value", "device"}
      /\ heap \in Seq(Seq(Value))
  BY DEF Init, ClonesAreApart
<1>2. Keeps(kind, heap, Blank(kind), <<>>)
  BY <1>1, BlankKeeps
<1>3. \A s \in Session : cache[s] = Blank(kind) /\ history[s] = <<>>
  BY DEF Init
<1>4. KvTypes
  <2>1. windowed \in BOOLEAN
    <3>1. windowed \in IF kind = "device" THEN BOOLEAN ELSE {FALSE}
      BY DEF Init
    <3> QED
      BY <3>1
  <2> QED
    BY <1>1, <2>1 DEF Init, KvTypes
<1>5. CachesKeep
  BY <1>2, <1>3 DEF CachesKeep
<1>6. BuffersAreOwned
  BY <1>3 DEF Init, BuffersAreOwned, Blank
<1>7. SavedKeeps
  BY DEF Init, SavedKeeps
<1> QED
  BY <1>4, <1>5, <1>6, <1>7 DEF KvInv

-----------------------------------------------------------------------------
(* Steps.                                                                    *)

\* A step of one session that makes no buffer, and drops the one it has.
LEMMA OneSessionKeeps ==
    ASSUME KvInv, NEW s \in Session, UNCHANGED <<kind, windowed, heap, handed>>,
           tokens' \in Nat, SavedKeeps',
           cache' = [cache EXCEPT ![s] = cache'[s]],
           history' = [history EXCEPT ![s] = history'[s]], history'[s] \in Seq(Value),
           Keeps(kind, heap, cache'[s], history'[s]),
           kind = "device" => cache'[s].buffer = 0
    PROVE  KvInv'
<1>1. KvTypes /\ CachesKeep /\ BuffersAreOwned
  BY DEF KvInv
<1>2. \A t \in Session : t # s => cache'[t] = cache[t] /\ history'[t] = history[t]
  BY <1>1 DEF KvTypes
<1>3. KvTypes'
  BY <1>1 DEF KvTypes
<1>4. CachesKeep'
  BY <1>1, <1>2 DEF CachesKeep, Keeps
<1>5. BuffersAreOwned'
  <2>1. ASSUME kind = "device", NEW a \in Session, NEW b \in Session, a # b, cache'[a].buffer # 0
        PROVE  cache'[a].buffer # cache'[b].buffer
    BY <1>1, <1>2, <2>1 DEF BuffersAreOwned
  <2>2. ASSUME kind = "device", NEW given \in handed, NEW a \in Session
        PROVE  IsBehind(given, cache'[a])
    <3>1. CASE a = s
      <4>1. given.buffer # 0 /\ cache'[a].buffer = 0
        BY <1>1, <2>2, <3>1 DEF KvTypes
      <4> QED
        BY <4>1 DEF IsBehind
    <3>2. CASE a # s
      BY <1>1, <1>2, <2>2, <3>2 DEF BuffersAreOwned
    <3> QED
      BY <3>1, <3>2
  <2>3. \A given \in handed' : Holds(heap'[given.buffer], Len(given.promised), given.promised)
    BY <1>1 DEF BuffersAreOwned
  <2> QED
    BY <2>1, <2>2, <2>3 DEF BuffersAreOwned
<1> QED
  BY <1>3, <1>4, <1>5 DEF KvInv

LEMMA EvalKeeps ==
    ASSUME ClonesAreApart, KvInv, NEW s \in Session, NEW n \in 0 .. MaxChunk, Eval(s, n)
    PROVE  KvInv'
<1>1. KvTypes /\ CachesKeep /\ SavedKeeps
  BY DEF KvInv
<1>2. kind # "device"
  BY DEF Eval
<1>3. Chunk(n) \in Seq(Value) /\ Fresh(Chunk(n)) /\ n \in Nat
  BY <1>1, ChunkIsValues, SizesAssumption DEF KvTypes
<1>4. history[s] \in Seq(Value) /\ Keeps(kind, heap, cache[s], history[s])
  BY <1>1 DEF KvTypes, CachesKeep
<1>5. Keeps(kind, heap, Absorbed(s, Chunk(n)), history[s] \o Chunk(n))
  BY <1>2, <1>3, <1>4, AbsorbedKeeps
<1>6. cache'[s] = Absorbed(s, Chunk(n)) /\ history'[s] = history[s] \o Chunk(n)
  BY <1>1 DEF Eval, Remembers, KvTypes
<1>7. /\ cache' = [cache EXCEPT ![s] = cache'[s]]
      /\ history' = [history EXCEPT ![s] = history'[s]]
  BY <1>6 DEF Eval, Remembers
<1>8. history'[s] \in Seq(Value) /\ tokens' \in Nat
  BY <1>1, <1>3, <1>4, <1>6 DEF Eval, KvTypes
<1>9. SavedKeeps' /\ UNCHANGED <<kind, windowed, heap, handed>>
  BY <1>1, SavedStays DEF Eval
<1> QED
  BY <1>2, <1>5, <1>6, <1>7, <1>8, <1>9, OneSessionKeeps

LEMMA SaveKeeps ==
    ASSUME ClonesAreApart, KvInv, NEW s \in Session, Save(s)
    PROVE  KvInv'
<1>1. kind # "window"
  BY DEF Save, IsSaved
<1>2. /\ View(cache[s]) = IF kind \in {"key", "value"} THEN Quantised(history[s]) ELSE history[s]
      /\ history[s] \in Seq(Value)
  BY <1>1, ViewIsHistory DEF KvInv, KvTypes
<1>3. /\ saved' = [values |-> View(cache[s]), history |-> history[s]]
      /\ UNCHANGED <<kind, windowed, cache, heap, handed, tokens, history>>
  BY DEF Save
<1>4. SavedKeeps'
  <2>1. CASE kind \in {"key", "value"}
    <3>1. Fresh(history[s])
      BY <2>1 DEF KvInv, CachesKeep, Keeps, GivenTo
    <3>2. Quantised(history[s]) \in Seq(Value)
      BY <1>2, <2>1, QuantisedIs
    <3>3. saved'.history = history[s] /\ saved'.values = Quantised(history[s]) /\ kind' = kind
      BY <1>2, <1>3, <2>1
    <3>4. Quantised(saved.history)' = Quantised(history[s])
      BY <3>3 DEF Quantised
    <3> QED
      BY <1>1, <1>2, <2>1, <3>1, <3>2, <3>3, <3>4 DEF SavedKeeps
  <2>2. CASE kind \notin {"key", "value"}
    <3>1. saved'.history = history[s] /\ saved'.values = history[s] /\ kind' = kind
      BY <1>2, <1>3, <2>2
    <3> QED
      BY <1>1, <1>2, <2>2, <3>1 DEF SavedKeeps
  <2> QED
    BY <2>1, <2>2
<1> QED
  BY <1>3, <1>4 DEF KvInv, KvTypes, CachesKeep, BuffersAreOwned, Keeps

LEMMA ResetKeeps ==
    ASSUME ClonesAreApart, KvInv, NEW s \in Session, Reset(s)
    PROVE  KvInv'
<1>1. KvTypes /\ CachesKeep /\ SavedKeeps
  BY DEF KvInv
<1>2. /\ kind \in {"dyn", "inplace", "window", "key", "value", "device"}
      /\ heap \in Seq(Seq(Value))
  BY <1>1 DEF KvTypes, ClonesAreApart
<1>3. Keeps(kind, heap, Blank(kind), <<>>)
  BY <1>2, BlankKeeps
<1>4. /\ cache'[s] = Blank(kind) /\ history'[s] = <<>>
      /\ cache' = [cache EXCEPT ![s] = cache'[s]] /\ history' = [history EXCEPT ![s] = history'[s]]
      /\ SavedKeeps' /\ UNCHANGED <<kind, windowed, heap, handed, tokens>> /\ tokens' \in Nat
  BY <1>1, SavedStays DEF Reset, KvTypes
<1>5. kind = "device" => cache'[s].buffer = 0
  BY <1>4 DEF Blank
<1>6. history'[s] \in Seq(Value) /\ Keeps(kind, heap, cache'[s], history'[s])
  BY <1>3, <1>4
<1> QED
  BY <1>4, <1>5, <1>6, OneSessionKeeps

\* The clone of a host tensor is its own.
LEMMA CloneKeeps ==
    ASSUME ClonesAreApart, KvInv, NEW s \in Session, NEW t \in Session, Clone(s, t)
    PROVE  KvInv'
<1>1. KvTypes /\ CachesKeep /\ SavedKeeps
  BY DEF KvInv
<1>2. kind # "device"
  BY <1>1 DEF Clone, KvTypes, ClonesAreApart
<1>3. /\ cache'[t] = cache[s] /\ history'[t] = history[s]
      /\ cache' = [cache EXCEPT ![t] = cache'[t]] /\ history' = [history EXCEPT ![t] = history'[t]]
      /\ SavedKeeps' /\ UNCHANGED <<kind, windowed, heap, handed, tokens>> /\ tokens' \in Nat
  BY <1>1, SavedStays DEF Clone, KvTypes
<1>4. history'[t] \in Seq(Value) /\ Keeps(kind, heap, cache'[t], history'[t])
  BY <1>1, <1>3 DEF KvTypes, CachesKeep
<1> QED
  BY <1>2, <1>3, <1>4, OneSessionKeeps

\* A device tensor handed out before a step from the heap `old' to hp is left
\* alone by it, or one that the step hands out is a buffer of its own or a
\* window of what the cache now holds.
HandedIsRight(given, before, old, hp, c, win) ==
    \/ given \in before /\ given.buffer # c.buffer
    \/ /\ given.promised \in Seq(Value) /\ given.window = win
       /\ Holds(hp[given.buffer], Len(given.promised), given.promised)
       /\ IF given.buffer = c.buffer
          THEN given.buffer # 0 /\ given.window /\ Len(given.promised) <= c.len
          ELSE given.buffer \in Len(old) + 1 .. Len(hp)

\* A step of a device cache: it writes its own buffer, and makes others.
LEMMA DeviceStepKeeps ==
    ASSUME KvInv, kind = "device", kind' = kind, windowed' = windowed, NEW s \in Session,
           tokens' \in Nat, SavedKeeps',
           cache' = [cache EXCEPT ![s] = cache'[s]],
           history' = [history EXCEPT ![s] = history'[s]], history'[s] \in Seq(Value),
           heap' \in Seq(Seq(Value)), Len(heap) <= Len(heap'),
           Keeps(kind, heap', cache'[s], history'[s]),
           cache'[s].buffer = cache[s].buffer \/ cache'[s].buffer > Len(heap),
           \A i \in 1 .. Len(heap) : i # cache'[s].buffer => heap'[i] = heap[i],
           \A given \in handed' : HandedIsRight(given, handed, heap, heap', cache'[s], windowed)
    PROVE  KvInv'
<1>1. KvTypes /\ CachesKeep /\ BuffersAreOwned /\ Len(heap) \in Nat /\ Len(heap') \in Nat
  BY DEF KvInv, KvTypes
<1>2. \A t \in Session : t # s => cache'[t] = cache[t] /\ history'[t] = history[t]
  BY <1>1 DEF KvTypes
<1>3. ASSUME NEW t \in Session
      PROVE  /\ cache[t] \in DeviceState /\ OnDevice(heap, cache[t], history[t])
             /\ cache[t].buffer \in 0 .. Len(heap)
  BY <1>1 DEF CachesKeep, Keeps, OnDevice
<1>4. /\ \A given \in handed : given.buffer \in 1 .. Len(heap)
      /\ cache'[s].buffer \in 0 .. Len(heap')
  BY <1>1 DEF KvTypes, Keeps, OnDevice
<1>5. KvTypes'
  <2>1. ASSUME NEW given \in handed'
        PROVE  /\ given.buffer \in 1 .. Len(heap') /\ given.promised \in Seq(Value)
               /\ given.window = windowed
    BY <1>1, <1>4 DEF KvTypes, HandedIsRight
  <2> QED
    BY <1>1, <2>1 DEF KvTypes
<1>6. ASSUME NEW t \in Session, t # s, cache[t].buffer # 0
      PROVE  cache[t].buffer \in 1 .. Len(heap) /\ cache[t].buffer # cache'[s].buffer
  BY <1>1, <1>3, <1>6 DEF BuffersAreOwned
<1>7. CachesKeep'
  <2>1. ASSUME NEW t \in Session, t # s
        PROVE  OnDevice(heap', cache[t], history[t])
    <3>1. OnDevice(heap, cache[t], history[t]) /\ cache[t].buffer \in 0 .. Len(heap')
      BY <1>1, <1>3
    <3>2. cache[t].buffer # 0 => heap'[cache[t].buffer] = heap[cache[t].buffer]
      BY <1>6, <2>1
    <3> QED
      BY <3>1, <3>2 DEF OnDevice
  <2> QED
    BY <1>2, <1>3, <2>1 DEF CachesKeep, Keeps
<1>8. BuffersAreOwned'
  <2>1. ASSUME NEW a \in Session, NEW b \in Session, a # b, cache'[a].buffer # 0
        PROVE  cache'[a].buffer # cache'[b].buffer
    <3>1. CASE a = s
      <4>1. cache'[b] = cache[b]
        BY <1>2, <2>1, <3>1
      <4> QED
        BY <1>6, <2>1, <3>1, <4>1
    <3>2. CASE b = s
      <4>1. cache'[a] = cache[a]
        BY <1>2, <2>1, <3>2
      <4> QED
        BY <1>6, <2>1, <3>2, <4>1
    <3>3. CASE a # s /\ b # s
      BY <1>1, <1>2, <2>1, <3>3 DEF BuffersAreOwned
    <3> QED
      BY <3>1, <3>2, <3>3
  <2>2. ASSUME NEW given \in handed', NEW a \in Session
        PROVE  IsBehind(given, cache'[a])
    <3>1. CASE a = s
      BY <3>1 DEF HandedIsRight, IsBehind
    <3>2. CASE a # s /\ given \in handed /\ given.buffer # cache'[s].buffer
      BY <1>1, <1>2, <3>2 DEF BuffersAreOwned
    <3>3. CASE a # s /\ ~(given \in handed /\ given.buffer # cache'[s].buffer)
      <4>1. cache'[a] = cache[a] /\ cache[a].buffer \in 0 .. Len(heap)
        BY <1>2, <1>3, <3>3
      <4>2. given.buffer = cache'[s].buffer => given.buffer # 0
        BY <3>3 DEF HandedIsRight
      <4>3. given.buffer # cache'[s].buffer => given.buffer \in Len(heap) + 1 .. Len(heap')
        BY <3>3 DEF HandedIsRight
      <4>4. given.buffer # cache[a].buffer
        BY <1>1, <1>6, <3>3, <4>1, <4>2, <4>3
      <4> QED
        BY <4>1, <4>4 DEF IsBehind
    <3> QED
      BY <3>1, <3>2, <3>3
  <2>3. ASSUME NEW given \in handed'
        PROVE  Holds(heap'[given.buffer], Len(given.promised), given.promised)
    <3>1. CASE given \in handed /\ given.buffer # cache'[s].buffer
      BY <1>1, <1>4, <3>1 DEF BuffersAreOwned
    <3>2. CASE ~(given \in handed /\ given.buffer # cache'[s].buffer)
      BY <3>2 DEF HandedIsRight
    <3> QED
      BY <3>1, <3>2
  <2> QED
    BY <2>1, <2>2, <2>3 DEF BuffersAreOwned
<1> QED
  BY <1>5, <1>7, <1>8 DEF KvInv

LEMMA TruncateKeeps ==
    ASSUME ClonesAreApart, KvInv, NEW s \in Session, NEW n \in 0 .. MaxTokens, Truncate(s, n)
    PROVE  KvInv'
<1>1. KvTypes /\ CachesKeep /\ SavedKeeps
  BY DEF KvInv
<1>2. history[s] \in Seq(Value) /\ Keeps(kind, heap, cache[s], history[s]) /\ n \in Nat
  BY <1>1, SizesAssumption DEF KvTypes, CachesKeep
<1>3. /\ history' = [history EXCEPT ![s] = history'[s]] /\ history'[s] = SubSeq(history[s], 1, n)
      /\ SavedKeeps' /\ UNCHANGED <<kind, windowed, heap, tokens>> /\ tokens' \in Nat
  BY <1>1, SavedStays DEF Truncate, KvTypes
<1>4. CASE kind = "dyn"
  <2>1. /\ cache[s] \in DynState /\ cache[s].values = history[s] /\ n <= Len(history[s])
        /\ cache[s].held
    BY <1>2, <1>4 DEF Keeps, Truncate, PastLength
  <2>2. cache' = [cache EXCEPT ![s].values = SubSeq(@, 1, n)] /\ UNCHANGED handed
    BY <1>4 DEF Truncate
  <2>3. /\ cache'[s] = [cache[s] EXCEPT !.values = SubSeq(history[s], 1, n)]
        /\ cache' = [cache EXCEPT ![s] = cache'[s]]
    BY <1>1, <2>1, <2>2 DEF KvTypes
  <2>4. SubSeq(history[s], 1, n) \in Seq(Value)
    BY <1>2, <2>1
  <2>5. cache'[s] \in DynState /\ cache'[s].values = SubSeq(history[s], 1, n) /\ cache'[s].held
    BY <2>1, <2>3, <2>4 DEF DynState
  <2>6. Keeps(kind, heap, cache'[s], history'[s])
    BY <1>3, <1>4, <2>5 DEF Keeps
  <2> QED
    BY <1>3, <1>4, <2>2, <2>3, <2>4, <2>6, OneSessionKeeps
<1>5. CASE kind = "device"
  <2>1. /\ cache[s] \in DeviceState /\ OnDevice(heap, cache[s], history[s])
        /\ cache[s].buffer # 0 /\ n <= cache[s].len
    BY <1>2, <1>5 DEF Keeps, Truncate, PastLength
  <2>2. cache' = [cache EXCEPT ![s].len = n]
    BY <1>5 DEF Truncate
  <2>3. cache'[s] = [cache[s] EXCEPT !.len = n] /\ cache' = [cache EXCEPT ![s] = cache'[s]]
    BY <1>1, <2>1, <2>2 DEF KvTypes
  <2>4. cache'[s] \in DeviceState /\ cache'[s].buffer = cache[s].buffer /\ cache'[s].len = n
    BY <1>2, <2>1, <2>3 DEF DeviceState
  <2>5. Holds(heap[cache[s].buffer], n, SubSeq(history[s], 1, n)) /\ SubSeq(history[s], 1, n) \in Seq(Value)
    <3>1. heap[cache[s].buffer] \in Seq(Value) /\ Holds(heap[cache[s].buffer], cache[s].len, history[s])
      BY <1>1, <2>1 DEF OnDevice, KvTypes, DeviceState
    <3> QED
      BY <1>2, <2>1, <3>1 DEF Holds
  <2>6. OnDevice(heap, cache'[s], history'[s])
    BY <1>3, <2>1, <2>4, <2>5 DEF OnDevice
  <2>7. Keeps(kind, heap, cache'[s], history'[s])
    BY <1>5, <2>4, <2>6 DEF Keeps
  <2>8. handed' = {CutTo(given, cache[s].buffer, n) : given \in handed}
    BY <1>5 DEF Truncate
  <2>9. \A given \in handed' : HandedIsRight(given, handed, heap, heap, cache'[s], windowed)
    <3> SUFFICES ASSUME NEW given \in handed
                 PROVE  HandedIsRight(CutTo(given, cache[s].buffer, n), handed, heap, heap,
                                      cache'[s], windowed)
      BY <2>8
    <3>1. /\ given.promised \in Seq(Value) /\ given.window = windowed
          /\ given.buffer \in 1 .. Len(heap) /\ IsBehind(given, cache[s])
          /\ heap[given.buffer] \in Seq(Value)
          /\ Holds(heap[given.buffer], Len(given.promised), given.promised)
      BY <1>1, <1>5 DEF KvInv, KvTypes, BuffersAreOwned
    <3>2. CASE given.buffer # cache[s].buffer
      BY <2>4, <3>2 DEF CutTo, HandedIsRight
    <3>3. CASE given.buffer = cache[s].buffer
      <4> DEFINE m == Smaller(n, Len(given.promised))
                 cut == SubSeq(given.promised, 1, m)
                 new == CutTo(given, cache[s].buffer, n)
      <4>1. new.buffer = cache[s].buffer /\ new.window = TRUE /\ new.promised = cut
        BY <3>1, <3>3 DEF IsBehind, CutTo
      <4>2. windowed = TRUE
        BY <1>1, <3>1, <3>3 DEF IsBehind, KvTypes
      <4>3. m \in Nat /\ m <= n /\ m <= Len(given.promised)
        BY <1>2, <3>1 DEF Smaller
      <4> HIDE DEF m
      <4>4. cut \in Seq(Value) /\ Len(cut) = m /\ \A i \in 1 .. m : cut[i] = given.promised[i]
        BY <3>1, <4>3
      <4>5. Holds(heap[cache[s].buffer], Len(cut), cut)
        BY <3>1, <3>3, <4>3, <4>4 DEF Holds
      <4> HIDE DEF cut, new
      <4>6. HandedIsRight(new, handed, heap, heap, cache'[s], windowed)
        BY <2>1, <2>4, <4>1, <4>2, <4>3, <4>4, <4>5 DEF HandedIsRight
      <4> QED
        BY <4>6 DEF new
    <3> QED
      BY <3>2, <3>3
  <2>10. heap' \in Seq(Seq(Value)) /\ Len(heap) <= Len(heap') /\ history'[s] \in Seq(Value)
    BY <1>1, <1>3, <2>5 DEF KvTypes
  <2>11. /\ kind' = kind /\ windowed' = windowed
         /\ Keeps(kind, heap', cache'[s], history'[s])
         /\ \A i \in 1 .. Len(heap) : i # cache'[s].buffer => heap'[i] = heap[i]
         /\ \A given \in handed' : HandedIsRight(given, handed, heap, heap', cache'[s], windowed)
    BY <1>3, <2>7, <2>9
  <2> QED
    BY <1>3, <1>5, <2>3, <2>4, <2>10, <2>11, DeviceStepKeeps
<1> QED
  BY <1>4, <1>5 DEF Truncate

LEMMA EvalDeviceKeeps ==
    ASSUME ClonesAreApart, KvInv, NEW s \in Session, NEW n \in 0 .. MaxChunk, EvalDevice(s, n)
    PROVE  KvInv'
<1> DEFINE p == DevicePushed(cache[s], Chunk(n))
           own == p.cache.buffer
           h == history[s] \o Chunk(n)
<1>1. KvTypes /\ CachesKeep /\ SavedKeeps /\ kind = "device"
  BY DEF KvInv, EvalDevice
<1>2. Chunk(n) \in Seq(Value) /\ n \in Nat /\ (n = 0 <=> Chunk(n) = <<>>)
  BY <1>1, ChunkIsValues, SizesAssumption DEF KvTypes
<1>3. /\ history[s] \in Seq(Value) /\ heap \in Seq(Seq(Value)) /\ Len(heap) \in Nat
      /\ cache[s] \in DeviceState /\ OnDevice(heap, cache[s], history[s])
  BY <1>1 DEF KvTypes, CachesKeep, Keeps
<1>4. /\ p.heap \in Seq(Seq(Value)) /\ Len(heap) <= Len(p.heap)
      /\ p.cache \in DeviceState
      /\ OnDevice(p.heap, p.cache, h)
      /\ Chunk(n) # <<>> => own # 0
      /\ own = cache[s].buffer \/ own > Len(heap)
      /\ \A i \in 1 .. Len(heap) : i # own => p.heap[i] = heap[i]
  BY <1>2, <1>3, PushIsPrivate
<1>5. n = 0 => own # 0
  <2>1. n = 0 => cache[s].buffer # 0 /\ Chunk(n) = <<>>
    BY <1>1, <1>2 DEF EvalDevice, HasBuffer
  <2>2. Chunk(n) = <<>> => p.cache = cache[s]
    BY DEF DevicePushed
  <2> QED
    BY <2>1, <2>2
<1>6. own # 0 /\ own \in 1 .. Len(p.heap) /\ Len(p.heap) \in Nat
  BY <1>2, <1>4, <1>5 DEF OnDevice
<1>7. /\ cache' = [cache EXCEPT ![s] = p.cache]
      /\ heap' = IF windowed THEN p.heap ELSE Append(p.heap, SubSeq(p.heap[own], 1, p.cache.len))
      /\ handed' = {given \in handed : given.buffer # (IF windowed THEN own ELSE Len(p.heap) + 1)}
                      \cup {[buffer |-> IF windowed THEN own ELSE Len(p.heap) + 1,
                             window |-> windowed, promised |-> h]}
      /\ tokens' = tokens + n
      /\ history' = [history EXCEPT ![s] = h]
      /\ UNCHANGED <<kind, windowed, saved>>
  BY DEF EvalDevice, Valid, PrefixWindow, Remembers
<1>8. h \in Seq(Value)
  BY <1>2, <1>3
<1> HIDE DEF p, own, h
<1>9. /\ p.heap[own] \in Seq(Value) /\ Holds(p.heap[own], p.cache.len, h)
  BY <1>4, <1>6 DEF OnDevice, own
<1>10. SubSeq(p.heap[own], 1, p.cache.len) = h
  BY <1>8, <1>9, HeldIsHistory
<1>11. /\ heap' \in Seq(Seq(Value)) /\ Len(heap') \in Nat /\ Len(p.heap) <= Len(heap')
       /\ ~windowed => Len(heap') = Len(p.heap) + 1 /\ heap'[Len(p.heap) + 1] = h
       /\ \A i \in 1 .. Len(p.heap) : heap'[i] = p.heap[i]
  <2>1. heap' = IF windowed THEN p.heap ELSE Append(p.heap, h)
    BY <1>7, <1>10
  <2>2. PICK hp \in Seq(Seq(Value)) : hp = p.heap
    BY <1>4
  <2>3. /\ Append(hp, h) \in Seq(Seq(Value)) /\ Len(Append(hp, h)) = Len(hp) + 1
        /\ Append(hp, h)[Len(hp) + 1] = h /\ \A i \in 1 .. Len(hp) : Append(hp, h)[i] = hp[i]
    BY <1>8
  <2> QED
    BY <2>1, <2>2, <2>3
<1>12. /\ cache'[s] = p.cache /\ history'[s] = h
       /\ cache' = [cache EXCEPT ![s] = cache'[s]] /\ history' = [history EXCEPT ![s] = history'[s]]
  BY <1>1, <1>7 DEF KvTypes
<1>13. Keeps(kind, heap', cache'[s], history'[s])
  <2>1. OnDevice(heap', p.cache, h)
    BY <1>6, <1>9, <1>11 DEF OnDevice, own
  <2> QED
    BY <1>1, <1>4, <1>12, <2>1 DEF Keeps
<1>14. \A i \in 1 .. Len(heap) : i # cache'[s].buffer => heap'[i] = heap[i]
  <2>1. \A i \in 1 .. Len(heap) : i \in 1 .. Len(p.heap)
    BY <1>3, <1>4, <1>6
  <2> QED
    BY <1>4, <1>11, <1>12, <2>1 DEF own
<1>15. \A given \in handed' : HandedIsRight(given, handed, heap, heap', cache'[s], windowed)
  <2> SUFFICES ASSUME NEW given \in handed'
               PROVE  HandedIsRight(given, handed, heap, heap', cache'[s], windowed)
    OBVIOUS
  <2>1. Holds(h, Len(h), h)
    BY <1>8 DEF Holds
  <2>2. cache'[s].buffer = own /\ cache'[s].len = p.cache.len /\ p.cache.len = Len(h)
    BY <1>9, <1>12 DEF own, Holds
  <2>3. CASE windowed
    <3>1. CASE given.buffer # own
      <4>1. given \in handed
        BY <1>7, <2>3, <3>1
      <4> QED
        BY <2>2, <3>1, <4>1 DEF HandedIsRight
    <3>2. CASE given.buffer = own
      <4>1. given = [buffer |-> own, window |-> windowed, promised |-> h]
        BY <1>7, <2>3, <3>2
      <4>2. given.window = windowed /\ given.promised = h
        BY <4>1
      <4>3. Holds(heap'[own], Len(h), h)
        BY <1>6, <1>9, <1>11, <2>2
      <4>4. Len(h) <= p.cache.len /\ windowed = TRUE
        BY <1>1, <1>8, <2>2, <2>3 DEF KvTypes
      <4> QED
        BY <1>6, <1>8, <2>2, <2>3, <3>2, <4>2, <4>3, <4>4 DEF HandedIsRight
    <3> QED
      BY <3>1, <3>2
  <2>4. CASE ~windowed
    <3>1. CASE given.buffer # Len(p.heap) + 1
      <4>1. given \in handed
        BY <1>7, <2>4, <3>1
      <4>2. /\ given.buffer \in 1 .. Len(heap) /\ given.window = windowed
            /\ IsBehind(given, cache[s])
        BY <1>1, <4>1 DEF KvInv, KvTypes, BuffersAreOwned
      <4>3. given.buffer # cache[s].buffer
        BY <2>4, <4>2 DEF IsBehind
      <4>4. given.buffer # own
        BY <1>3, <1>4, <1>6, <4>2, <4>3
      <4> QED
        BY <2>2, <4>1, <4>4 DEF HandedIsRight
    <3>2. CASE given.buffer = Len(p.heap) + 1
      <4>1. given = [buffer |-> Len(p.heap) + 1, window |-> windowed, promised |-> h]
        BY <1>7, <2>4, <3>2
      <4>2. given.window = windowed /\ given.promised = h
        BY <4>1
      <4>3. Len(p.heap) \in Nat /\ own \in Nat /\ own <= Len(p.heap) /\ Len(heap) <= Len(p.heap)
        BY <1>4, <1>6
      <4>4. Len(p.heap) + 1 # own
        BY <4>3
      <4>5. Len(p.heap) + 1 \in Len(heap) + 1 .. Len(heap')
        BY <1>3, <1>11, <2>4, <4>3
      <4> QED
        BY <1>8, <1>11, <2>1, <2>2, <2>4, <3>2, <4>2, <4>4, <4>5 DEF HandedIsRight
    <3> QED
      BY <3>1, <3>2
  <2> QED
    BY <2>3, <2>4
<1>16. /\ tokens' \in Nat /\ SavedKeeps' /\ kind' = kind /\ windowed' = windowed
       /\ history'[s] \in Seq(Value)
  BY <1>1, <1>2, <1>7, <1>8, <1>12, SavedStays DEF KvTypes
<1>17. cache'[s].buffer = cache[s].buffer \/ cache'[s].buffer > Len(heap)
  BY <1>4, <1>12 DEF own
<1>18. Len(heap) <= Len(heap')
  BY <1>3, <1>4, <1>6, <1>11
<1> QED
  BY <1>1, <1>11, <1>12, <1>13, <1>14, <1>15, <1>16, <1>17, <1>18, DeviceStepKeeps

LEMMA LoadKeeps ==
    ASSUME ClonesAreApart, KvInv, NEW s \in Session, Load(s)
    PROVE  KvInv'
<1>1. KvTypes /\ CachesKeep /\ SavedKeeps
  BY DEF KvInv
<1>2. /\ kind \in {"dyn", "inplace", "window", "key", "value", "device"}
      /\ heap \in Seq(Seq(Value)) /\ Len(heap) \in Nat
      /\ kind # "window" /\ saved.values \in Seq(Value) /\ saved.history \in Seq(Value)
      /\ cache[s] = Blank(kind)
  BY <1>1 DEF KvTypes, ClonesAreApart, Load, SavedKeeps
<1>3. /\ history' = [history EXCEPT ![s] = saved.history] /\ history'[s] = saved.history
      /\ history' = [history EXCEPT ![s] = history'[s]] /\ history'[s] \in Seq(Value)
      /\ SavedKeeps' /\ UNCHANGED <<kind, windowed, handed, tokens>> /\ tokens' \in Nat
  BY <1>1, <1>2, SavedStays DEF Load, Remembers, KvTypes
<1>4. kind \notin {"key", "value"} => saved.history = saved.values
  BY <1>1 DEF Load, SavedKeeps
<1>5. kind \in {"key", "value"} => Fresh(saved.history) /\ saved.values = Quantised(saved.history)
  BY <1>1 DEF Load, SavedKeeps
<1>6. CASE kind # "device"
  <2>1. UNCHANGED heap /\ cache' = [cache EXCEPT ![s] = Absorbed(s, saved.values)]
    BY <1>6 DEF Load
  <2>2. cache'[s] = Absorbed(s, saved.values) /\ cache' = [cache EXCEPT ![s] = cache'[s]]
    BY <1>1, <2>1 DEF KvTypes
  <2>3. Keeps(kind, heap, cache'[s], history'[s])
    <3>1. CASE kind \in {"key", "value"}
      <4>1. Absorbed(s, saved.values) = Ingested(kind, Blank(kind), Quantised(saved.history))
        BY <1>2, <1>5, <3>1 DEF Absorbed
      <4>2. GivenTo(kind, Ingested(kind, Blank(kind), Quantised(saved.history)), saved.history)
        BY <1>2, <1>5, <3>1, QuantisedGivenAgain
      <4>3. cache'[s] = Ingested(kind, Blank(kind), Quantised(saved.history))
        BY <2>2, <4>1, Zenon
      <4>4. GivenTo(kind, cache'[s], history'[s])
        BY <1>3, <4>2, <4>3, Zenon
      <4> QED
        BY <3>1, <4>4 DEF Keeps
    <3>2. CASE kind \notin {"key", "value"}
      <4>1. Keeps(kind, heap, cache[s], <<>>)
        BY <1>2, BlankKeeps
      <4>2. Keeps(kind, heap, Absorbed(s, saved.values), <<>> \o saved.values)
        <5>1. <<>> \in Seq(Value)
          OBVIOUS
        <5> QED
          BY <1>2, <1>6, <3>2, <4>1, <5>1, AbsorbedKeeps
      <4>3. <<>> \o saved.values = saved.values
        BY <1>2
      <4>4. <<>> \o saved.values = history'[s]
        BY <1>3, <1>4, <3>2, <4>3, Zenon
      <4>5. cache'[s] = Absorbed(s, saved.values)
        BY <2>2
      <4> QED
        BY <4>2, <4>4, <4>5, Zenon
    <3> QED
      BY <3>1, <3>2
  <2> QED
    BY <1>3, <1>6, <2>1, <2>2, <2>3, OneSessionKeeps
<1>7. CASE kind = "device"
  <2>1. /\ heap' = Append(heap, saved.values)
        /\ cache' = [cache EXCEPT ![s].buffer = Len(heap) + 1, ![s].len = Len(saved.values)]
    BY <1>7 DEF Load
  <2>2. cache[s] = [buffer |-> 0, len |-> 0, reallocs |-> 0]
    BY <1>2, <1>7 DEF Blank
  <2>3. /\ cache'[s] \in DeviceState
        /\ cache'[s].buffer = Len(heap) + 1 /\ cache'[s].len = Len(saved.values)
    <3>1. cache'[s] = [cache[s] EXCEPT !.buffer = Len(heap) + 1, !.len = Len(saved.values)]
      BY <1>1, <2>1 DEF KvTypes
    <3>2. cache[s] \in DeviceState /\ Len(heap) + 1 \in Nat /\ Len(saved.values) \in Nat
      BY <1>2, <2>2 DEF DeviceState
    <3> QED
      BY <3>1, <3>2 DEF DeviceState
  <2>4. cache' = [cache EXCEPT ![s] = cache'[s]]
    BY <1>1, <2>1 DEF KvTypes
  <2>5. /\ heap' \in Seq(Seq(Value)) /\ Len(heap') = Len(heap) + 1
        /\ heap'[Len(heap) + 1] = saved.values /\ \A i \in 1 .. Len(heap) : heap'[i] = heap[i]
    BY <1>2, <2>1
  <2>6. Keeps(kind, heap', cache'[s], history'[s])
    <3>1. Holds(saved.values, Len(saved.values), saved.values)
      BY <1>2 DEF Holds
    <3>2. OnDevice(heap', cache'[s], saved.values)
      BY <1>2, <2>3, <2>5, <3>1 DEF OnDevice
    <3> QED
      BY <1>3, <1>7, <1>4, <2>3, <3>2 DEF Keeps
  <2>7. Len(heap) <= Len(heap') /\ cache'[s].buffer > Len(heap)
    BY <1>2, <2>3, <2>5
  <2>8. \A given \in handed' : HandedIsRight(given, handed, heap, heap', cache'[s], windowed)
    <3>1. \A given \in handed : given.buffer \in 1 .. Len(heap)
      BY <1>1 DEF KvTypes
    <3> QED
      BY <1>2, <1>3, <2>3, <3>1 DEF HandedIsRight
  <2> QED
    BY <1>3, <1>7, <2>4, <2>5, <2>6, <2>7, <2>8, DeviceStepKeeps
<1> QED
  BY <1>6, <1>7

LEMMA StepKeeps ==
    ASSUME ClonesAreApart, KvInv, [Next]_vars
    PROVE  KvInv'
<1>1. ASSUME NEW s \in Session, NEW n \in 0 .. MaxChunk, Eval(s, n) \/ EvalDevice(s, n)
      PROVE  KvInv'
  BY <1>1, EvalKeeps, EvalDeviceKeeps
<1>2. ASSUME NEW s \in Session, NEW n \in 0 .. MaxTokens, Truncate(s, n)
      PROVE  KvInv'
  BY <1>2, TruncateKeeps
<1>3. ASSUME NEW s \in Session, Save(s) \/ Load(s) \/ Reset(s)
      PROVE  KvInv'
  BY <1>3, SaveKeeps, LoadKeeps, ResetKeeps
<1>4. ASSUME NEW s \in Session, NEW t \in Session, Clone(s, t)
      PROVE  KvInv'
  BY <1>4, CloneKeeps
<1>5. CASE UNCHANGED vars
  <2>1. SavedKeeps'
    BY <1>5, SavedStays DEF vars, KvInv
  <2> QED
    BY <1>5, <2>1 DEF vars, KvInv, KvTypes, CachesKeep, BuffersAreOwned, Keeps
<1> QED
  BY <1>1, <1>2, <1>3, <1>4, <1>5 DEF Next

-----------------------------------------------------------------------------
(* Growth.                                                                   *)

\* A power of two is a fold, and a fold has a value.
Powers(f, n) == f = [i \in 0 .. n |-> IF i = 0 THEN 1 ELSE 2 * f[i - 1]]

LEMMA PowersAre ==
    ASSUME NEW n \in Nat
    PROVE  \E f : Powers(f, n)
<1> DEFINE Bad == {m \in Nat : ~\E f : Powers(f, m)}
<1>1. Bad = {}
  <2> SUFFICES ASSUME Bad # {} PROVE FALSE
    OBVIOUS
  <2>1. Bad \in SUBSET Nat
    OBVIOUS
  <2>2. PICK m \in Bad : \A k \in Bad : m <= k
    <3> HIDE DEF Bad
    <3> QED
      BY <2>1, LeastElement
  <2>3. m \in Nat /\ ~\E f : Powers(f, m)
    OBVIOUS
  <2>4. Powers([i \in 0 .. 0 |-> 1], 0)
    BY DEF Powers
  <2>5. m # 0
    BY <2>3, <2>4
  <2>6. m - 1 \in Nat /\ m - 1 \notin Bad
    <3> HIDE DEF Bad
    <3> QED
      BY <2>2, <2>3, <2>5
  <2>7. PICK f : Powers(f, m - 1)
    BY <2>6
  <2> DEFINE g == [i \in 0 .. m |-> IF i = m THEN 2 * f[m - 1] ELSE f[i]]
  <2>8. \A i \in 0 .. m : g[i] = IF i = 0 THEN 1 ELSE 2 * g[i - 1]
    <3> TAKE i \in 0 .. m
    <3>1. f = [j \in 0 .. m - 1 |-> IF j = 0 THEN 1 ELSE 2 * f[j - 1]]
      BY <2>7 DEF Powers
    <3>2. CASE i = m
      <4>1. m - 1 \in 0 .. m /\ m - 1 # m
        BY <2>3, <2>5
      <4>2. g[m - 1] = f[m - 1] /\ g[m] = 2 * f[m - 1]
        BY <2>3, <4>1
      <4> QED
        BY <2>5, <3>2, <4>2
    <3>3. CASE i # m
      <4>1. i \in 0 .. m - 1 /\ g[i] = f[i]
        BY <2>3, <3>3
      <4>2. i # 0 => i - 1 \in 0 .. m /\ i - 1 # m
        BY <2>3, <4>1
      <4> QED
        BY <3>1, <4>1, <4>2
    <3> QED
      BY <3>2, <3>3
  <2>9. Powers(g, m)
    BY <2>8 DEF Powers
  <2> QED
    BY <2>3, <2>9
<1> QED
  BY <1>1

LEMMA PowersAgree ==
    ASSUME NEW n \in Nat, NEW m \in Nat, n <= m, NEW f, Powers(f, n), NEW g, Powers(g, m)
    PROVE  \A i \in 0 .. n : f[i] = g[i] /\ f[i] \in Nat
<1> DEFINE Bad == {i \in 0 .. n : ~(f[i] = g[i] /\ f[i] \in Nat)}
<1> SUFFICES ASSUME Bad # {} PROVE FALSE
  OBVIOUS
<1>1. Bad \in SUBSET Nat
  OBVIOUS
<1>2. PICK i \in Bad : \A k \in Bad : i <= k
  <2> HIDE DEF Bad
  <2> QED
    BY <1>1, LeastElement
<1>3. i \in 0 .. n /\ i \in 0 .. m /\ ~(f[i] = g[i] /\ f[i] \in Nat)
  BY <1>2
<1>4. /\ f[i] = IF i = 0 THEN 1 ELSE 2 * f[i - 1]
      /\ g[i] = IF i = 0 THEN 1 ELSE 2 * g[i - 1]
  BY <1>3 DEF Powers
<1>5. CASE i = 0
  BY <1>3, <1>4, <1>5
<1>6. CASE i # 0
  <2>1. i - 1 \in 0 .. n /\ i - 1 \notin Bad
    <3> HIDE DEF Bad
    <3> QED
      BY <1>2, <1>3, <1>6
  <2>2. f[i - 1] = g[i - 1] /\ f[i - 1] \in Nat
    BY <2>1
  <2> QED
    BY <1>3, <1>4, <1>6, <2>2
<1> QED
  BY <1>5, <1>6

LEMMA TwoToDoubles ==
    ASSUME NEW n \in Nat
    PROVE  TwoTo(0) = 1 /\ TwoTo(n) \in Nat /\ TwoTo(n + 1) = 2 * TwoTo(n)
<1> DEFINE Of(k) == CHOOSE f : Powers(f, k)
<1>1. \A k \in Nat : TwoTo(k) = Of(k)[k]
  BY DEF TwoTo, Powers
<1>2. \A k \in Nat : Powers(Of(k), k)
  BY PowersAre
<1> HIDE DEF Of
<1>3. n + 1 \in Nat /\ 0 \in Nat /\ n <= n + 1 /\ n \in 0 .. n /\ n + 1 \in 0 .. n + 1 /\ (n + 1) - 1 = n
      /\ n + 1 # 0
  OBVIOUS
<1>4. Of(n)[n] = Of(n + 1)[n] /\ Of(n)[n] \in Nat
  BY <1>2, <1>3, PowersAgree
<1>5. Of(n + 1)[n + 1] = 2 * Of(n + 1)[n]
  <2>1. Powers(Of(n + 1), n + 1)
    BY <1>2, <1>3
  <2> QED
    BY <1>3, <2>1 DEF Powers
<1>6. Of(0)[0] = 1
  <2>1. Powers(Of(0), 0)
    BY <1>2
  <2> QED
    BY <2>1 DEF Powers
<1> QED
  BY <1>1, <1>3, <1>4, <1>5, <1>6

\* A growth at least doubles the room, and makes less than twice what is needed.
LEMMA RoomDoubles ==
    ASSUME NEW capacity \in Nat, NEW needed \in Nat, needed > capacity
    PROVE  /\ GrownTo(capacity, needed) \in Nat
           /\ GrownTo(capacity, needed) < 2 * needed
           /\ 2 * capacity <= GrownTo(capacity, needed)
           /\ needed <= GrownTo(capacity, needed)
  BY DEF GrownTo, Larger

InPlaceGrows(c, most) ==
    IF c.buf = <<>> THEN c.reallocs = 0
    ELSE Len(c.buf) < 2 * most /\ TwoTo(c.reallocs) <= Len(c.buf)

LEMMA InPlaceGrowth ==
    ASSUME NEW c \in InPlaceState, NEW h \in Seq(Value), NEW new \in Seq(Value),
           Holds(c.buf, c.len, h),
           NEW most \in Nat, NEW more \in Nat, most <= more, Len(h \o new) <= more,
           InPlaceGrows(c, most)
    PROVE  InPlaceGrows(InPlacePushed(c, new), more)
<1> DEFINE d == InPlacePushed(c, new)
<1>1. /\ c.buf \in Seq(Value) /\ c.len \in Nat /\ c.reallocs \in Nat
      /\ Len(c.buf) \in Nat /\ Len(new) \in Nat /\ c.len = Len(h)
      /\ Len(h \o new) = c.len + Len(new)
  BY DEF InPlaceState, Holds
<1>2. TwoTo(c.reallocs) \in Nat /\ TwoTo(c.reallocs + 1) = 2 * TwoTo(c.reallocs) /\ TwoTo(0) = 1
  BY <1>1, TwoToDoubles
<1>3. CASE new = <<>>
  <2>1. d = c
    BY <1>3 DEF InPlacePushed
  <2>2. \A room \in Nat : room < 2 * most => room < 2 * more
    OBVIOUS
  <2> QED
    BY <1>1, <2>1, <2>2 DEF InPlaceGrows
<1>4. CASE new # <<>> /\ c.buf = <<>>
  <2>1. d = [c EXCEPT !.buf = new, !.len = Len(new)]
    BY <1>4 DEF InPlacePushed
  <2>2. d.buf = new /\ d.reallocs = c.reallocs
    BY <2>1 DEF InPlaceState
  <2>3. c.reallocs = 0 /\ Len(new) >= 1
    BY <1>1, <1>4 DEF InPlaceGrows
  <2>4. Len(new) < 2 * more
    BY <1>1, <2>3
  <2> HIDE DEF d
  <2>5. InPlaceGrows(d, more)
    BY <1>2, <1>4, <2>2, <2>3, <2>4 DEF InPlaceGrows
  <2> QED
    BY <2>5 DEF d
<1>5. CASE new # <<>> /\ c.buf # <<>>
  <2> DEFINE needed == c.len + Len(new)
             fits == needed <= Len(c.buf)
             room == GrownTo(Len(c.buf), needed)
             buf == IF fits THEN c.buf ELSE Grown(c.buf, c.len, room)
  <2>1. d = [buf |-> Assigned(buf, c.len, new), len |-> needed,
             reallocs |-> IF fits THEN c.reallocs ELSE c.reallocs + 1]
    BY <1>5 DEF InPlacePushed
  <2>2. /\ d.buf = Assigned(buf, c.len, new)
        /\ d.reallocs = IF fits THEN c.reallocs ELSE c.reallocs + 1
    BY <2>1
  <2>3. \A b \in Seq(Value) : Len(Assigned(b, c.len, new)) = Len(b)
    BY <1>1 DEF Assigned
  <2>4. needed \in Nat /\ needed <= more /\ c.len <= needed
    BY <1>1
  <2>5. Len(c.buf) < 2 * most /\ TwoTo(c.reallocs) <= Len(c.buf) /\ Len(c.buf) > 0
    BY <1>1, <1>5 DEF InPlaceGrows
  <2> HIDE DEF d, needed
  <2>6. CASE fits
    <3>1. Len(d.buf) = Len(c.buf) /\ d.reallocs = c.reallocs
      BY <1>1, <2>2, <2>3, <2>6
    <3>2. d.buf # <<>> /\ Len(c.buf) < 2 * more
      BY <1>1, <2>5, <3>1
    <3>3. InPlaceGrows(d, more)
      BY <2>5, <3>1, <3>2 DEF InPlaceGrows
    <3> QED
      BY <3>3 DEF d
  <2>7. CASE ~fits
    <3>1. /\ room \in Nat /\ room < 2 * needed /\ 2 * Len(c.buf) <= room /\ needed <= room
          /\ c.len <= room
      <4>1. needed > Len(c.buf)
        BY <1>1, <2>4, <2>7
      <4>2. /\ room \in Nat /\ room < 2 * needed /\ 2 * Len(c.buf) <= room /\ needed <= room
        BY <1>1, <2>4, <4>1, RoomDoubles
      <4> HIDE DEF room
      <4> QED
        BY <1>1, <2>4, <4>2
    <3> HIDE DEF room
    <3>2. buf \in Seq(Value) /\ Len(buf) = room
      BY <1>1, <2>7, <3>1, GrownHolds
    <3>3. Len(d.buf) = room /\ d.reallocs = c.reallocs + 1
      BY <2>2, <2>3, <2>7, <3>2
    <3>4. d.buf # <<>> /\ room < 2 * more
      BY <1>1, <2>4, <2>5, <3>1, <3>3
    <3>5. TwoTo(c.reallocs + 1) <= room
      BY <1>1, <1>2, <2>5, <3>1
    <3>6. InPlaceGrows(d, more)
      BY <3>3, <3>4, <3>5 DEF InPlaceGrows
    <3> QED
      BY <3>6 DEF d
  <2> QED
    BY <2>6, <2>7
<1> QED
  BY <1>3, <1>4, <1>5

\* The first buffer of a device cache counts as a reallocation, unless it was
\* loaded: then it may be empty too.
DeviceGrows(hp, c, most) ==
    IF c.buffer = 0 THEN c.reallocs = 0
    ELSE LET room == Len(hp[c.buffer])
         IN  /\ room > 0 => room < 2 * most
             /\ c.reallocs > 0 => TwoTo(c.reallocs - 1) <= room

LEMMA DeviceGrowth ==
    ASSUME heap \in Seq(Seq(Value)),
           NEW c \in DeviceState, NEW h \in Seq(Value), NEW new \in Seq(Value), OnDevice(heap, c, h),
           NEW most \in Nat, NEW more \in Nat, most <= more, Len(h \o new) <= more,
           DeviceGrows(heap, c, most),
           NEW p, p = DevicePushed(c, new)
    PROVE  DeviceGrows(p.heap, p.cache, more)
<1>1. /\ c.buffer \in Nat /\ c.len \in Nat /\ c.reallocs \in Nat
      /\ Len(heap) \in Nat /\ Len(new) \in Nat /\ c.buffer \in 0 .. Len(heap)
      /\ c.len = Len(h) /\ Len(h \o new) = c.len + Len(new)
  <2>1. /\ c.buffer \in Nat /\ c.len \in Nat /\ c.reallocs \in Nat
        /\ Len(heap) \in Nat /\ Len(new) \in Nat /\ Len(h) \in Nat /\ c.buffer \in 0 .. Len(heap)
    BY DEF DeviceState, OnDevice
  <2>2. c.len = Len(h)
    BY DEF OnDevice, Holds
  <2> QED
    BY <2>1, <2>2
<1>2. CASE new = <<>>
  <2>1. p = [heap |-> heap, cache |-> c]
    BY <1>2 DEF DevicePushed
  <2>2. c.buffer # 0 => Len(heap[c.buffer]) \in Nat
    BY <1>1
  <2>3. \A room \in Nat : room < 2 * most => room < 2 * more
    OBVIOUS
  <2> QED
    BY <2>1, <2>2, <2>3 DEF DeviceGrows
<1>3. CASE new # <<>>
  <2> DEFINE q == Seated(c, Len(new))
             needed == c.len + Len(new)
             kept == IF c.buffer = 0 THEN <<>> ELSE heap[c.buffer]
             cap == Capacity(c)
             room == GrownTo(cap, needed)
  <2>1. p = [heap |-> [q.heap EXCEPT ![q.cache.buffer] = Assigned(@, c.len, new)],
             cache |-> [q.cache EXCEPT !.len = @ + Len(new)]]
    BY <1>3 DEF DevicePushed
  <2>2. kept \in Seq(Value) /\ Holds(kept, c.len, h) /\ cap = Len(kept) /\ cap \in Nat
    <3>1. CASE c.buffer = 0
      BY <3>1 DEF OnDevice, Holds, Capacity
    <3>2. CASE c.buffer # 0
      BY <1>1, <3>2 DEF OnDevice, Capacity
    <3> QED
      BY <3>1, <3>2
  <2>3. needed \in Nat \ {0} /\ c.len <= needed /\ needed <= more
    BY <1>1, <1>3
  <2>4. /\ cap > 0 => cap < 2 * most
        /\ c.reallocs > 0 => TwoTo(c.reallocs - 1) <= cap
    <3>1. c.buffer = 0 => cap = 0 /\ c.reallocs = 0
      BY DEF Capacity, DeviceGrows
    <3>2. c.buffer # 0 => cap = Len(heap[c.buffer])
      BY DEF Capacity
    <3> HIDE DEF cap
    <3> QED
      BY <3>1, <3>2 DEF DeviceGrows
  <2>5. \A b \in Seq(Value) : Len(Assigned(b, c.len, new)) = Len(b)
    BY <1>1 DEF Assigned
  <2> HIDE DEF needed, cap
  <2>6. CASE needed > cap
    <3>1. q = [heap |-> Append(heap, Grown(kept, c.len, room)),
               cache |-> [c EXCEPT !.buffer = Len(heap) + 1, !.reallocs = @ + 1]]
      BY <2>6 DEF Seated, needed, cap
    <3>2. /\ room \in Nat /\ room < 2 * needed /\ 2 * cap <= room /\ needed <= room
      BY <2>2, <2>3, <2>6, RoomDoubles
    <3> HIDE DEF room, kept
    <3>3. c.len <= room
      BY <1>1, <2>3, <3>2
    <3>4. Grown(kept, c.len, room) \in Seq(Value) /\ Len(Grown(kept, c.len, room)) = room
      BY <2>2, <3>2, <3>3, GrownHolds
    <3>5. q.cache.buffer = Len(heap) + 1 /\ q.cache.reallocs = c.reallocs + 1
      <4>1. q.cache = [c EXCEPT !.buffer = Len(heap) + 1, !.reallocs = c.reallocs + 1]
        BY <3>1
      <4> HIDE DEF q
      <4> QED
        BY <4>1 DEF DeviceState
    <3>6. /\ q.heap \in Seq(Seq(Value)) /\ Len(q.heap) = Len(heap) + 1
          /\ q.heap[Len(heap) + 1] = Grown(kept, c.len, room)
      BY <1>1, <3>1, <3>4
    <3>7. p.heap = [q.heap EXCEPT ![Len(heap) + 1] = Assigned(Grown(kept, c.len, room), c.len, new)]
      BY <2>1, <3>5, <3>6
    <3>8. Len(heap) + 1 \in DOMAIN q.heap
      BY <1>1, <3>6
    <3>9. p.heap[Len(heap) + 1] = Assigned(Grown(kept, c.len, room), c.len, new)
      BY <3>7, <3>8
    <3>10. Len(p.heap[Len(heap) + 1]) = room
      BY <2>5, <3>4, <3>9
    <3>11. p.cache.buffer = Len(heap) + 1 /\ p.cache.reallocs = c.reallocs + 1
      <4>1. q.cache = [c EXCEPT !.buffer = Len(heap) + 1, !.reallocs = c.reallocs + 1]
        BY <3>1
      <4>2. q.cache \in DeviceState
        <5>1. Len(heap) + 1 \in Nat /\ c.reallocs + 1 \in Nat
          BY <1>1
        <5> HIDE DEF q
        <5> QED
          BY <4>1, <5>1 DEF DeviceState
      <4>3. p.cache = [q.cache EXCEPT !.len = q.cache.len + Len(new)]
        BY <2>1
      <4> HIDE DEF q
      <4> QED
        BY <3>5, <4>2, <4>3 DEF DeviceState
    <3>12. room < 2 * more
      BY <2>3, <3>2
    <3>13. TwoTo(c.reallocs) <= room
      <4>1. CASE c.reallocs = 0
        BY <2>3, <3>2, <4>1, TwoToDoubles
      <4>2. CASE c.reallocs # 0
        <5>1. c.reallocs - 1 \in Nat /\ (c.reallocs - 1) + 1 = c.reallocs /\ c.reallocs > 0
          BY <1>1, <4>2
        <5>2. /\ TwoTo((c.reallocs - 1) + 1) = 2 * TwoTo(c.reallocs - 1)
              /\ TwoTo(c.reallocs - 1) \in Nat
          BY <5>1, TwoToDoubles
        <5>3. TwoTo(c.reallocs) = 2 * TwoTo(c.reallocs - 1) /\ TwoTo(c.reallocs - 1) <= cap
          BY <2>4, <5>1, <5>2
        <5> QED
          BY <2>2, <3>2, <5>2, <5>3
      <4> QED
        BY <4>1, <4>2
    <3>14. p.cache.buffer # 0 /\ p.cache.reallocs - 1 = c.reallocs
      <4>1. \A k \in Nat : k + 1 # 0 /\ (k + 1) - 1 = k
        OBVIOUS
      <4> QED
        BY <1>1, <3>11, <4>1
    <3> QED
      BY <3>10, <3>11, <3>12, <3>13, <3>14 DEF DeviceGrows
  <2>7. CASE ~(needed > cap)
    <3>1. q = [heap |-> heap, cache |-> c]
      BY <2>7 DEF Seated, needed, cap
    <3>2. c.buffer # 0
      BY <1>1, <2>3, <2>7 DEF Capacity, cap
    <3>3. p.heap = [heap EXCEPT ![c.buffer] = Assigned(heap[c.buffer], c.len, new)]
      BY <2>1, <3>1
    <3>4. c.buffer \in DOMAIN heap /\ heap[c.buffer] \in Seq(Value)
      BY <1>1, <3>2
    <3>5. Len(p.heap[c.buffer]) = Len(heap[c.buffer]) /\ Len(heap[c.buffer]) \in Nat
      BY <2>5, <3>3, <3>4
    <3>6. p.cache.buffer = c.buffer /\ p.cache.reallocs = c.reallocs
      <4>1. p.cache = [c EXCEPT !.len = c.len + Len(new)]
        BY <2>1, <3>1
      <4> QED
        BY <4>1 DEF DeviceState
    <3>7. \A r \in Nat : r < 2 * most => r < 2 * more
      OBVIOUS
    <3> QED
      BY <3>2, <3>5, <3>6, <3>7 DEF DeviceGrows
  <2> QED
    BY <2>6, <2>7
<1> QED
  BY <1>2, <1>3

Grows(s) ==
    /\ peak[s] \in Nat
    /\ kind = "inplace" => InPlaceGrows(cache[s], peak[s])
    /\ kind = "device" => DeviceGrows(heap, cache[s], peak[s])

GrowthInv ==
    /\ peak = [s \in Session |-> peak[s]]
    /\ \A s \in Session : Grows(s)

LEMMA BlankGrows ==
    ASSUME NEW hp, NEW most
    PROVE  InPlaceGrows(Blank("inplace"), most) /\ DeviceGrows(hp, Blank("device"), most)
  BY DEF InPlaceGrows, DeviceGrows, Blank

\* A step of one session that leaves the buffers of the others as they are.
LEMMA OneSessionGrows ==
    ASSUME KvInv, GrowthInv, NEW s \in Session, kind' = kind,
           cache' = [cache EXCEPT ![s] = cache'[s]],
           peak' = [peak EXCEPT ![s] = peak'[s]],
           Grows(s)',
           kind = "device" => \A t \in Session :
              t # s /\ cache[t].buffer # 0 => Len(heap'[cache[t].buffer]) = Len(heap[cache[t].buffer])
    PROVE  GrowthInv'
<1>1. \A t \in Session : t # s => cache'[t] = cache[t] /\ peak'[t] = peak[t]
  BY DEF KvInv, KvTypes, GrowthInv
<1>2. ASSUME NEW t \in Session, t # s
      PROVE  Grows(t)'
  <2>1. Grows(t) /\ cache'[t] = cache[t] /\ peak'[t] = peak[t]
    BY <1>1, <1>2 DEF GrowthInv
  <2>2. kind = "device" => DeviceGrows(heap', cache[t], peak[t])
    BY <1>2, <2>1 DEF Grows, DeviceGrows
  <2> QED
    BY <2>1, <2>2 DEF Grows
<1>3. peak' = [t \in Session |-> peak'[t]]
  BY DEF GrowthInv
<1> QED
  BY <1>2, <1>3 DEF GrowthInv

LEMMA EvalGrows ==
    ASSUME ClonesAreApart, KvInv, GrowthInv, NEW s \in Session, NEW n \in 0 .. MaxChunk, Eval(s, n)
    PROVE  GrowthInv'
<1>1. KvTypes /\ CachesKeep /\ kind' = kind /\ kind # "device" /\ heap' = heap
  BY DEF KvInv, Eval
<1>2. Chunk(n) \in Seq(Value)
  BY <1>1, ChunkIsValues, SizesAssumption DEF KvTypes
<1>3. history[s] \in Seq(Value) /\ Keeps(kind, heap, cache[s], history[s]) /\ Grows(s)
  BY <1>1 DEF KvTypes, CachesKeep, GrowthInv
<1> DEFINE h == history[s] \o Chunk(n)
<1>4. /\ cache'[s] = Absorbed(s, Chunk(n)) /\ peak'[s] = Larger(peak[s], Len(h))
      /\ cache' = [cache EXCEPT ![s] = cache'[s]] /\ peak' = [peak EXCEPT ![s] = peak'[s]]
  BY <1>1 DEF Eval, Remembers, KvTypes, GrowthInv
<1>5. h \in Seq(Value) /\ Len(h) \in Nat
  BY <1>2, <1>3
<1> HIDE DEF h
<1>6. peak[s] \in Nat /\ peak'[s] \in Nat /\ peak[s] <= peak'[s] /\ Len(h) <= peak'[s]
  BY <1>3, <1>4, <1>5 DEF Grows, Larger
<1>7. kind = "inplace" => InPlaceGrows(cache'[s], peak'[s])
  <2> SUFFICES ASSUME kind = "inplace" PROVE InPlaceGrows(cache'[s], peak'[s])
    OBVIOUS
  <2>1. PICK c \in InPlaceState : c = cache[s] /\ Holds(c.buf, c.len, history[s])
    BY <1>3 DEF Keeps
  <2>2. InPlaceGrows(c, peak[s])
    BY <1>3, <2>1 DEF Grows
  <2>3. InPlaceGrows(InPlacePushed(c, Chunk(n)), peak'[s])
    BY <1>2, <1>3, <1>6, <2>1, <2>2, InPlaceGrowth DEF h
  <2> QED
    BY <1>4, <2>1, <2>3 DEF Absorbed
<1>8. Grows(s)'
  BY <1>1, <1>6, <1>7 DEF Grows
<1> QED
  BY <1>1, <1>4, <1>8, OneSessionGrows

LEMMA EvalDeviceGrows ==
    ASSUME ClonesAreApart, KvInv, GrowthInv, NEW s \in Session, NEW n \in 0 .. MaxChunk,
           EvalDevice(s, n)
    PROVE  GrowthInv'
<1> DEFINE p == DevicePushed(cache[s], Chunk(n))
           own == p.cache.buffer
           h == history[s] \o Chunk(n)
<1>1. KvTypes /\ CachesKeep /\ BuffersAreOwned /\ kind = "device" /\ kind' = kind
  BY DEF KvInv, EvalDevice
<1>2. Chunk(n) \in Seq(Value)
  BY <1>1, ChunkIsValues, SizesAssumption DEF KvTypes
<1>3. /\ history[s] \in Seq(Value) /\ heap \in Seq(Seq(Value)) /\ Len(heap) \in Nat
      /\ cache[s] \in DeviceState /\ OnDevice(heap, cache[s], history[s])
      /\ DeviceGrows(heap, cache[s], peak[s]) /\ peak[s] \in Nat
  BY <1>1 DEF KvTypes, CachesKeep, Keeps, GrowthInv, Grows
<1>4. /\ cache' = [cache EXCEPT ![s] = p.cache] /\ cache'[s] = p.cache
      /\ cache' = [cache EXCEPT ![s] = cache'[s]]
      /\ heap' = IF windowed THEN p.heap ELSE Append(p.heap, SubSeq(p.heap[own], 1, p.cache.len))
      /\ peak'[s] = Larger(peak[s], Len(h)) /\ peak' = [peak EXCEPT ![s] = peak'[s]]
  BY <1>1 DEF EvalDevice, Valid, PrefixWindow, Remembers, KvTypes, GrowthInv
<1>5. h \in Seq(Value) /\ Len(h) \in Nat
  BY <1>2, <1>3
<1>6. peak'[s] \in Nat /\ peak[s] <= peak'[s] /\ Len(h) <= peak'[s]
  <2> HIDE DEF h
  <2> QED
    BY <1>3, <1>4, <1>5 DEF Larger
<1>7. /\ p.heap \in Seq(Seq(Value)) /\ Len(heap) <= Len(p.heap)
      /\ p.cache \in DeviceState /\ OnDevice(p.heap, p.cache, h)
      /\ \A i \in 1 .. Len(heap) : i # own => p.heap[i] = heap[i]
      /\ own = cache[s].buffer \/ own > Len(heap)
  <2>1. /\ history[s] \in Seq(Value) /\ heap \in Seq(Seq(Value))
        /\ cache[s] \in DeviceState /\ OnDevice(heap, cache[s], history[s])
    BY <1>3
  <2>2. PICK q : q = p
    OBVIOUS
  <2>3. /\ q.heap \in Seq(Seq(Value)) /\ Len(heap) <= Len(q.heap)
        /\ q.cache \in DeviceState
        /\ OnDevice(q.heap, q.cache, h)
        /\ Chunk(n) # <<>> => q.cache.buffer # 0
        /\ q.cache.buffer = cache[s].buffer \/ q.cache.buffer > Len(heap)
        /\ \A i \in 1 .. Len(heap) : i # q.cache.buffer => q.heap[i] = heap[i]
    BY <1>2, <2>1, <2>2, PushIsPrivate
  <2> HIDE DEF p, h
  <2> QED
    BY <2>2, <2>3
<1>8. DeviceGrows(p.heap, p.cache, peak'[s])
  BY <1>2, <1>3, <1>6, DeviceGrowth
<1> HIDE DEF p, own, h
<1>9. \A i \in 1 .. Len(p.heap) : heap'[i] = p.heap[i]
  <2>1. PICK hp \in Seq(Seq(Value)) : hp = p.heap
    BY <1>7
  <2>2. \A e : \A i \in 1 .. Len(hp) : Append(hp, e)[i] = hp[i]
    OBVIOUS
  <2> QED
    BY <1>4, <2>1, <2>2
<1>10. own # 0 => own \in 1 .. Len(p.heap)
  <2>1. own \in 0 .. Len(p.heap) /\ Len(p.heap) \in Nat
    BY <1>7 DEF OnDevice, own
  <2> QED
    BY <2>1
<1>11. DeviceGrows(heap', cache'[s], peak'[s])
  BY <1>4, <1>8, <1>9, <1>10 DEF DeviceGrows, own
<1>12. Grows(s)'
  BY <1>1, <1>6, <1>11 DEF Grows
<1>13. ASSUME NEW t \in Session, t # s, cache[t].buffer # 0
       PROVE  Len(heap'[cache[t].buffer]) = Len(heap[cache[t].buffer])
  <2>1. cache[t].buffer \in 0 .. Len(heap)
    BY <1>1 DEF CachesKeep, Keeps, OnDevice
  <2>2. cache[t].buffer \in 1 .. Len(heap) /\ cache[t].buffer # own
    BY <1>1, <1>3, <1>7, <1>13, <2>1 DEF BuffersAreOwned
  <2>3. cache[t].buffer \in 1 .. Len(p.heap)
    <3>1. Len(p.heap) \in Nat
      BY <1>7
    <3> QED
      BY <1>3, <1>7, <2>2, <3>1
  <2> QED
    BY <1>7, <1>9, <2>2, <2>3
<1> QED
  BY <1>1, <1>4, <1>12, <1>13, OneSessionGrows

LEMMA LoadGrows ==
    ASSUME ClonesAreApart, KvInv, GrowthInv, NEW s \in Session, Load(s)
    PROVE  GrowthInv'
<1>1. KvTypes /\ CachesKeep /\ SavedKeeps /\ kind' = kind
  BY DEF KvInv, Load
<1>2. /\ heap \in Seq(Seq(Value)) /\ Len(heap) \in Nat
      /\ saved.values \in Seq(Value) /\ Len(saved.values) \in Nat
      /\ Len(saved.history) = Len(saved.values)
      /\ cache[s] = Blank(kind) /\ peak[s] \in Nat
  <2>1. /\ heap \in Seq(Seq(Value)) /\ Len(heap) \in Nat
        /\ saved.values \in Seq(Value) /\ saved.history \in Seq(Value)
        /\ cache[s] = Blank(kind) /\ peak[s] \in Nat
    BY <1>1 DEF KvTypes, Load, SavedKeeps, GrowthInv, Grows
  <2>2. CASE kind \in {"key", "value"}
    <3>1. saved.values = Quantised(saved.history)
      BY <1>1, <2>2 DEF Load, SavedKeeps
    <3>2. Len(Quantised(saved.history)) = Len(saved.history)
      BY <2>1, <2>2, QuantisedIs
    <3> QED
      BY <2>1, <3>1, <3>2
  <2>3. CASE kind \notin {"key", "value"}
    BY <1>1, <2>1, <2>3 DEF Load, SavedKeeps
  <2> QED
    BY <2>2, <2>3
<1>3. peak'[s] = Larger(peak[s], Len(saved.values)) /\ peak' = [peak EXCEPT ![s] = peak'[s]]
  BY <1>2 DEF Load, Remembers, GrowthInv
<1>4. peak'[s] \in Nat /\ peak[s] <= peak'[s] /\ Len(saved.values) <= peak'[s]
  BY <1>2, <1>3 DEF Larger
<1>5. CASE kind # "device"
  <2>1. heap' = heap /\ cache' = [cache EXCEPT ![s] = Absorbed(s, saved.values)]
    BY <1>5 DEF Load
  <2>2. cache'[s] = Absorbed(s, saved.values) /\ cache' = [cache EXCEPT ![s] = cache'[s]]
    BY <1>1, <2>1 DEF KvTypes
  <2>3. kind = "inplace" => InPlaceGrows(cache'[s], peak'[s])
    <3> SUFFICES ASSUME kind = "inplace" PROVE InPlaceGrows(cache'[s], peak'[s])
      OBVIOUS
    <3>1. PICK c : c = Blank("inplace")
      OBVIOUS
    <3>2. c \in InPlaceState /\ Holds(c.buf, c.len, <<>>) /\ InPlaceGrows(c, peak[s])
      BY <3>1 DEF Blank, InPlaceState, Holds, InPlaceGrows
    <3>3. <<>> \in Seq(Value) /\ <<>> \o saved.values = saved.values
      BY <1>2
    <3>4. InPlaceGrows(InPlacePushed(c, saved.values), peak'[s])
      BY <1>2, <1>4, <3>2, <3>3, InPlaceGrowth
    <3> QED
      BY <1>2, <2>2, <3>1, <3>4 DEF Absorbed
  <2>4. Grows(s)'
    BY <1>1, <1>4, <1>5, <2>3 DEF Grows
  <2> QED
    BY <1>1, <1>3, <1>5, <2>2, <2>4, OneSessionGrows
<1>6. CASE kind = "device"
  <2>1. /\ heap' = Append(heap, saved.values)
        /\ cache' = [cache EXCEPT ![s].buffer = Len(heap) + 1, ![s].len = Len(saved.values)]
    BY <1>6 DEF Load
  <2>2. cache[s] = [buffer |-> 0, len |-> 0, reallocs |-> 0]
    BY <1>2, <1>6 DEF Blank
  <2>3. /\ cache'[s].buffer = Len(heap) + 1 /\ cache'[s].reallocs = 0
        /\ cache' = [cache EXCEPT ![s] = cache'[s]]
    <3>1. cache'[s] = [cache[s] EXCEPT !.buffer = Len(heap) + 1, !.len = Len(saved.values)]
      BY <1>1, <2>1 DEF KvTypes
    <3>2. cache' = [cache EXCEPT ![s] = cache'[s]]
      BY <1>1, <2>1 DEF KvTypes
    <3> QED
      BY <2>2, <3>1, <3>2
  <2>4. /\ heap'[Len(heap) + 1] = saved.values /\ \A i \in 1 .. Len(heap) : heap'[i] = heap[i]
    BY <1>2, <2>1
  <2>5. Len(heap) + 1 # 0 /\ (Len(saved.values) > 0 => Len(saved.values) < 2 * peak'[s])
    BY <1>2, <1>4
  <2>6. DeviceGrows(heap', cache'[s], peak'[s])
    BY <2>3, <2>4, <2>5 DEF DeviceGrows
  <2>7. Grows(s)'
    BY <1>1, <1>4, <1>6, <2>6 DEF Grows
  <2>8. \A t \in Session : cache[t].buffer # 0 => cache[t].buffer \in 1 .. Len(heap)
    <3>1. \A t \in Session : cache[t].buffer \in 0 .. Len(heap)
      BY <1>1, <1>6 DEF CachesKeep, Keeps, OnDevice
    <3> QED
      BY <1>2, <3>1
  <2> QED
    BY <1>1, <1>3, <2>3, <2>4, <2>7, <2>8, OneSessionGrows
<1> QED
  BY <1>5, <1>6

LEMMA StepGrows ==
    ASSUME ClonesAreApart, KvInv, GrowthInv, [Next]_vars
    PROVE  GrowthInv'
<1>0. KvTypes /\ GrowthInv
  BY DEF KvInv
<1>1. ASSUME NEW s \in Session, NEW n \in 0 .. MaxChunk, Eval(s, n) \/ EvalDevice(s, n)
      PROVE  GrowthInv'
  BY <1>1, EvalGrows, EvalDeviceGrows
<1>2. ASSUME NEW s \in Session, NEW n \in 0 .. MaxTokens, Truncate(s, n)
      PROVE  GrowthInv'
  <2>1. UNCHANGED <<kind, heap, peak>> /\ kind \in {"dyn", "device"}
    BY <1>2 DEF Truncate
  <2>2. CASE kind = "dyn"
    BY <1>0, <2>1, <2>2 DEF GrowthInv, Grows
  <2>3. CASE kind = "device"
    <3>1. cache' = [cache EXCEPT ![s].len = n]
      BY <1>2, <2>3 DEF Truncate
    <3>2. \A t \in Session : /\ cache'[t].buffer = cache[t].buffer
                             /\ cache'[t].reallocs = cache[t].reallocs
      <4>1. cache[s] \in DeviceState
        BY <2>3 DEF KvInv, CachesKeep, Keeps
      <4> QED
        BY <1>0, <3>1, <4>1 DEF KvTypes, DeviceState
    <3> QED
      BY <1>0, <2>1, <2>3, <3>2 DEF GrowthInv, Grows, DeviceGrows
  <2> QED
    BY <2>1, <2>2, <2>3
<1>3. ASSUME NEW s \in Session, Load(s)
      PROVE  GrowthInv'
  BY <1>3, LoadGrows
<1>4. ASSUME NEW s \in Session, Save(s)
      PROVE  GrowthInv'
  BY <1>0, <1>4 DEF Save, GrowthInv, Grows
<1>5. ASSUME NEW s \in Session, Reset(s)
      PROVE  GrowthInv'
  <2>1. /\ cache'[s] = Blank(kind) /\ peak'[s] = 0 /\ UNCHANGED <<kind, heap>>
        /\ cache' = [cache EXCEPT ![s] = cache'[s]] /\ peak' = [peak EXCEPT ![s] = peak'[s]]
    BY <1>0, <1>5 DEF Reset, KvTypes, GrowthInv
  <2>2. Grows(s)'
    BY <2>1, BlankGrows DEF Grows
  <2> QED
    BY <2>1, <2>2, OneSessionGrows
<1>6. ASSUME NEW s \in Session, NEW t \in Session, Clone(s, t)
      PROVE  GrowthInv'
  <2>1. kind # "device"
    BY <1>0, <1>6 DEF Clone, KvTypes, ClonesAreApart
  <2>2. /\ cache'[t] = cache[s] /\ peak'[t] = peak[s] /\ UNCHANGED <<kind, heap>>
        /\ cache' = [cache EXCEPT ![t] = cache'[t]] /\ peak' = [peak EXCEPT ![t] = peak'[t]]
    BY <1>0, <1>6 DEF Clone, KvTypes, GrowthInv
  <2>3. Grows(t)'
    BY <1>0, <2>1, <2>2 DEF Grows, GrowthInv
  <2> QED
    BY <2>1, <2>2, <2>3, OneSessionGrows
<1>7. CASE UNCHANGED vars
  BY <1>0, <1>7 DEF vars, GrowthInv, Grows
<1> QED
  BY <1>1, <1>2, <1>3, <1>4, <1>5, <1>6, <1>7 DEF Next

-----------------------------------------------------------------------------
(* Theorems.                                                                 *)

THEOREM KvInvariant ==
    ASSUME ClonesAreApart
    PROVE  Spec => []KvInv
<1>1. Init => KvInv
  BY InitKeeps
<1>2. KvInv /\ [Next]_vars => KvInv'
  BY StepKeeps
<1> QED
  BY <1>1, <1>2, PTL DEF Spec

LEMMA ReadIsSequence ==
    ASSUME NEW q \in Seq(Value), NEW from \in Nat \ {0}, NEW to \in Nat, to <= Len(q)
    PROVE  SubSeq(q, from, to) \in Seq(Value)
  OBVIOUS

LEMMA ToSetOfSequence ==
    ASSUME NEW q \in Seq(Value)
    PROVE  ToSet(q) = {q[i] : i \in 1 .. Len(q)}
  BY DEF ToSet

LEMMA WindowView ==
    ASSUME NEW s \in Session, KvInv, kind = "window"
    PROVE  LET last == Smaller(Len(history[s]), Window)
           IN  /\ Len(View(cache[s])) = last
               /\ ToSet(View(cache[s]))
                     = ToSet(SubSeq(history[s], Len(history[s]) - last + 1, Len(history[s])))
<1> DEFINE h == history[s]
           last == Smaller(Len(h), Window)
           tail == SubSeq(h, Len(h) - last + 1, Len(h))
<1>1. h \in Seq(Value) /\ Len(h) \in Nat /\ Window \in Nat \ {0}
  BY SizesAssumption DEF KvInv, KvTypes
<1>2. PICK c \in WindowState : c = cache[s] /\ RingKeeps(c, h)
  BY DEF KvInv, CachesKeep, Keeps
<1>3. last \in Nat /\ last <= Window /\ last <= Len(h)
  BY <1>1 DEF Smaller
<1>4. View(cache[s]) = SubSeq(c.buf, 1, c.len)
  BY <1>2 DEF View
<1>5. c.buf \in Seq(Value) /\ c.len \in Nat
  BY <1>2 DEF WindowState
<1>6. CASE c.buf = <<>>
  <2>1. h = <<>> /\ c.len = 0 /\ last = 0
    BY <1>1, <1>2, <1>6 DEF RingKeeps, Smaller
  <2>2. View(cache[s]) = <<>> /\ tail = <<>>
    BY <1>4, <1>5, <1>6, <2>1
  <2> QED
    BY <2>1, <2>2
<1>7. CASE c.buf # <<>>
  <2>1. /\ Len(c.buf) = Window /\ c.cursor \in 0 .. Window - 1
        /\ c.len = last /\ (last < Window => c.cursor = last)
        /\ \A k \in 1 .. last : c.buf[Slot(c.cursor, k)] = h[Len(h) - k + 1]
    BY <1>2, <1>7 DEF RingKeeps
  <2> HIDE DEF h, last, tail
  <2>2. /\ Len(SubSeq(c.buf, 1, last)) = last
        /\ \A i \in 1 .. last : SubSeq(c.buf, 1, last)[i] = c.buf[i]
    BY <1>3, <1>5, <2>1
  <2>3. /\ Len(tail) = last
        /\ \A i \in 1 .. last : tail[i] = h[Len(h) - last + i]
    BY <1>1, <1>3 DEF tail
  <2>4. PICK read \in Seq(Value) : read = SubSeq(c.buf, 1, last)
    <3>1. last <= Len(c.buf) /\ 1 \in Nat \ {0}
      BY <1>3, <2>1
    <3>2. SubSeq(c.buf, 1, last) \in Seq(Value)
      BY <1>3, <1>5, <3>1, ReadIsSequence
    <3> QED
      BY <3>2
  <2>5. PICK wanted \in Seq(Value) : wanted = tail
    <3>1. Len(h) - last + 1 \in Nat \ {0} /\ Len(h) <= Len(h)
      BY <1>1, <1>3
    <3>2. SubSeq(h, Len(h) - last + 1, Len(h)) \in Seq(Value)
      BY <1>1, <3>1, ReadIsSequence
    <3> QED
      BY <3>2 DEF tail
  <2>6. ASSUME NEW i \in 1 .. last
        PROVE  \E j \in 1 .. last : c.buf[i] = h[Len(h) - last + j]
    <3> DEFINE k == IF i <= c.cursor THEN c.cursor - i + 1 ELSE c.cursor - i + 1 + Window
    <3>1. PICK cursor \in 0 .. Window - 1 : cursor = c.cursor
      BY <2>1
    <3>2. k \in 1 .. last /\ Slot(c.cursor, k) = i
      <4>1. last < Window => cursor = last
        BY <2>1, <3>1
      <4>2. k = IF i <= cursor THEN cursor - i + 1 ELSE cursor - i + 1 + Window
        BY <3>1
      <4> HIDE DEF k
      <4>3. k \in 1 .. last /\ Slot(cursor, k) = i
        BY <1>1, <1>3, <4>1, <4>2 DEF Slot
      <4> QED
        BY <3>1, <4>3
    <3> HIDE DEF k
    <3>3. c.buf[i] = h[Len(h) - k + 1]
      BY <2>1, <3>2
    <3>4. last - k + 1 \in 1 .. last /\ Len(h) - last + (last - k + 1) = Len(h) - k + 1
      BY <1>1, <1>3, <3>2
    <3> QED
      BY <3>3, <3>4
  <2>7. ASSUME NEW j \in 1 .. last
        PROVE  \E i \in 1 .. last : c.buf[i] = h[Len(h) - last + j]
    <3> DEFINE k == last - j + 1
    <3>1. PICK cursor \in 0 .. Window - 1 : cursor = c.cursor
      BY <2>1
    <3>2. k \in 1 .. last /\ Slot(c.cursor, k) \in 1 .. last
      <4>1. last < Window => cursor = last
        BY <2>1, <3>1
      <4> QED
        BY <1>1, <1>3, <3>1, <4>1 DEF Slot
    <3>3. Len(h) - k + 1 = Len(h) - last + j
      BY <1>1, <1>3
    <3> HIDE DEF k
    <3> QED
      BY <2>1, <3>2, <3>3
  <2>8. ToSet(SubSeq(c.buf, 1, last)) = ToSet(tail)
    <3>1. ToSet(read) = {c.buf[i] : i \in 1 .. last}
      BY <2>2, <2>4, ToSetOfSequence
    <3>2. ToSet(wanted) = {h[Len(h) - last + i] : i \in 1 .. last}
      BY <2>3, <2>5, ToSetOfSequence
    <3>3. {c.buf[i] : i \in 1 .. last} \subseteq {h[Len(h) - last + i] : i \in 1 .. last}
      BY <2>6
    <3>4. {h[Len(h) - last + i] : i \in 1 .. last} \subseteq {c.buf[i] : i \in 1 .. last}
      BY <2>7
    <3> QED
      BY <2>4, <2>5, <3>1, <3>2, <3>3, <3>4
  <2> QED
    BY <1>4, <2>1, <2>2, <2>8 DEF h, last, tail
<1> QED
  BY <1>6, <1>7

(* Whatever is pushed, truncated, saved and loaded, cursors and lengths stay  *)
(* inside the buffers they index.                                            *)
THEOREM CursorsStayInside ==
    ASSUME ClonesAreApart
    PROVE  Spec => []TypeOK
<1>1. KvInv => TypeOK
  <2> SUFFICES ASSUME KvInv PROVE TypeOK
    OBVIOUS
  <2>1. /\ kind \in {"dyn", "inplace", "window", "key", "value", "device"}
        /\ heap \in Seq(Seq(Value))
    BY DEF KvInv, KvTypes, ClonesAreApart
  <2>2. \A s \in Session : Keeps(kind, heap, cache[s], history[s]) /\ history[s] \in Seq(Value)
    BY DEF KvInv, CachesKeep, KvTypes
  <2>3. ASSUME kind = "dyn", NEW s \in Session
        PROVE  ~cache[s].held => cache[s].values = <<>>
    BY <2>2, <2>3 DEF Keeps
  <2>4. ASSUME kind = "inplace", NEW s \in Session
        PROVE  cache[s].len \in 0 .. Len(cache[s].buf)
    BY <2>2, <2>4 DEF Keeps, Holds, InPlaceState
  <2>5. ASSUME kind = "window", NEW s \in Session
        PROVE  /\ cache[s].cursor \in 0 .. Window - 1
               /\ Len(cache[s].buf) \in {0, Window}
               /\ cache[s].len \in 0 .. Len(cache[s].buf)
    <3>1. cache[s] \in WindowState /\ RingKeeps(cache[s], history[s]) /\ history[s] \in Seq(Value)
      BY <2>2, <2>5 DEF Keeps
    <3> QED
      BY <3>1, SizesAssumption DEF RingKeeps, WindowState, Smaller
  <2>6. ASSUME kind = "device", NEW s \in Session
        PROVE  cache[s].buffer \in 0 .. Len(heap) /\ cache[s].len \in 0 .. Capacity(cache[s])
    <3>1. /\ cache[s] \in DeviceState /\ OnDevice(heap, cache[s], history[s])
          /\ history[s] \in Seq(Value)
      BY <2>2, <2>6 DEF Keeps
    <3>2. cache[s].len \in Nat /\ cache[s].buffer \in 0 .. Len(heap)
      BY <3>1 DEF DeviceState, OnDevice
    <3>3. CASE cache[s].buffer = 0
      BY <3>1, <3>2, <3>3 DEF OnDevice, Capacity
    <3>4. CASE cache[s].buffer # 0
      <4>1. cache[s].len <= Len(heap[cache[s].buffer]) /\ Len(heap[cache[s].buffer]) \in Nat
        BY <2>1, <3>1, <3>2, <3>4 DEF OnDevice, Holds
      <4> QED
        BY <3>2, <3>4, <4>1 DEF Capacity
    <3> QED
      BY <3>3, <3>4
  <2>7. ASSUME kind \in {"key", "value"}, NEW s \in Session
        PROVE  /\ kind = "key" => /\ Len(cache[s].residual) < Block
                                 /\ Len(cache[s].packed) = Block * Len(cache[s].scales)
               /\ kind = "value" => Len(cache[s].packed) = Len(cache[s].scales)
    <3>1. PICK fed \in Seq(Value) : QuantHolds(kind, cache[s], fed)
      BY <2>2, <2>7 DEF Keeps, GivenTo
    <3>2. Len(cache[s].packed) = Len(cache[s].scales) * ScaleSpan(kind)
      BY <3>1 DEF QuantHolds, Stored, BlocksHold
    <3>3. Len(cache[s].residual) < ScaleSpan(kind)
      BY <3>1 DEF QuantHolds
    <3>4. PICK m \in Nat : m = Len(cache[s].scales)
      BY <3>1 DEF QuantHolds, QuantState
    <3>5. m * Block = Block * m /\ m * 1 = m
      BY <3>4, SizesAssumption
    <3>6. CASE kind = "key"
      <4>1. ScaleSpan(kind) = Block
        BY <3>6 DEF ScaleSpan
      <4> QED
        BY <3>2, <3>3, <3>4, <3>5, <3>6, <4>1, Zenon
    <3>7. CASE kind = "value"
      <4>1. ScaleSpan(kind) = 1
        BY <3>7 DEF ScaleSpan
      <4> QED
        BY <3>2, <3>4, <3>5, <3>7, <4>1, Zenon
    <3> QED
      BY <2>7, <3>6, <3>7
  <2> QED
    BY <2>1, <2>3, <2>4, <2>5, <2>6, <2>7 DEF TypeOK
<1> QED
  BY <1>1, KvInvariant, PTL

(* Whatever the turns, the growths, the truncations, the checkpoints and the *)
(* clones, a session reads its own tokens in their order, and from a window  *)
(* the last ones: no chunk is lost at the end of a ring, none is written     *)
(* over by another session.  Quantised, each is read on the scale of its     *)
(* block, also when the cache was filled from a checkpoint.                  *)
THEOREM TheViewIsTheHistory ==
    ASSUME ClonesAreApart
    PROVE  Spec => []ViewIsTheHistory
<1>1. KvInv => ViewIsTheHistory
  <2> SUFFICES ASSUME KvInv PROVE ViewIsTheHistory
    OBVIOUS
  <2>1. kind \in {"dyn", "inplace", "window", "key", "value", "device"}
    BY DEF KvInv, KvTypes, ClonesAreApart
  <2>2. CASE kind = "window"
    BY <2>2, WindowView DEF ViewIsTheHistory
  <2>3. CASE kind # "window"
    BY <2>1, <2>3, ViewIsHistory DEF ViewIsTheHistory
  <2> QED
    BY <2>2, <2>3
<1> QED
  BY <1>1, KvInvariant, PTL

(* A turn resolves its past length to the tokens that the session was given. *)
THEOREM ThePastLengthIsTheHistory ==
    ASSUME ClonesAreApart
    PROVE  Spec => []PastLengthIsTheHistory
<1>1. KvInv => PastLengthIsTheHistory
  <2> SUFFICES ASSUME KvInv, kind # "window", NEW s \in Session
               PROVE  PastLength(cache[s]) = Len(history[s])
    BY DEF PastLengthIsTheHistory
  <2>1. kind \in {"dyn", "inplace", "key", "value", "device"}
    BY DEF KvInv, KvTypes, ClonesAreApart
  <2>2. Keeps(kind, heap, cache[s], history[s]) /\ history[s] \in Seq(Value)
    BY DEF KvInv, CachesKeep, KvTypes
  <2>3. CASE kind = "dyn"
    BY <2>2, <2>3 DEF PastLength, Keeps
  <2>4. CASE kind = "inplace"
    BY <2>2, <2>4 DEF PastLength, Keeps, Holds
  <2>5. CASE kind = "device"
    BY <2>2, <2>5 DEF PastLength, Keeps, OnDevice, Holds
  <2>6. CASE kind \in {"key", "value"}
    BY <2>2, <2>6 DEF PastLength, Keeps, GivenTo, Regiven
  <2> QED
    BY <2>1, <2>3, <2>4, <2>5, <2>6
<1> QED
  BY <1>1, KvInvariant, PTL

(* No turn, truncation or load writes a packed device tensor that was handed *)
(* out, nor, in the live buffer, the tokens of a window that was handed out, *)
(* as far as no truncation dropped them.                                     *)
THEOREM TheHandedOutAreIntact ==
    ASSUME ClonesAreApart
    PROVE  Spec => []HandedOutAreIntact
<1>1. KvInv => HandedOutAreIntact
  <2> SUFFICES ASSUME KvInv, NEW given \in handed
               PROVE  SubSeq(heap[given.buffer], 1, Len(given.promised)) = given.promised
    BY DEF HandedOutAreIntact
  <2>1. /\ heap[given.buffer] \in Seq(Value) /\ given.promised \in Seq(Value)
        /\ Holds(heap[given.buffer], Len(given.promised), given.promised)
    BY DEF KvInv, KvTypes, BuffersAreOwned
  <2> QED
    BY <2>1, HeldIsHistory
<1> QED
  BY <1>1, KvInvariant, PTL

(* A cache that grows in place is copied a logarithmic number of times, and  *)
(* has less than twice the room it ever needed, whatever is truncated and    *)
(* reloaded in between.                                                      *)
THEOREM GrowthStaysGeometric ==
    ASSUME ClonesAreApart
    PROVE  Spec => []GrowthIsGeometric
<1>1. Init => GrowthInv
  <2> SUFFICES ASSUME Init PROVE GrowthInv
    OBVIOUS
  <2>1. /\ peak = [s \in Session |-> 0]
        /\ \A s \in Session : cache[s] = Blank(kind)
    BY DEF Init
  <2> QED
    BY <2>1, BlankGrows DEF GrowthInv, Grows
<1>2. KvInv /\ GrowthInv /\ [Next]_vars => GrowthInv'
  BY StepGrows
<1>3. KvInv /\ GrowthInv => GrowthIsGeometric
  <2> SUFFICES ASSUME KvInv, GrowthInv, kind \in {"inplace", "device"}, NEW s \in Session
               PROVE  LET room == IF kind = "device" THEN Capacity(cache[s]) ELSE Len(cache[s].buf)
                          copies == IF kind = "device" THEN cache[s].reallocs - 1
                                                       ELSE cache[s].reallocs
                      IN  /\ room > 0 => room < 2 * peak[s]
                          /\ copies > 0 => TwoTo(copies) <= room
    BY DEF GrowthIsGeometric
  <2>1. Grows(s) /\ Keeps(kind, heap, cache[s], history[s])
    BY DEF GrowthInv, KvInv, CachesKeep
  <2>2. CASE kind = "inplace"
    <3>1. cache[s].buf = <<>> => Len(cache[s].buf) = 0 /\ cache[s].reallocs = 0
      BY <2>1, <2>2 DEF Grows, InPlaceGrows
    <3> QED
      BY <2>1, <2>2, <3>1 DEF Grows, InPlaceGrows
  <2>3. CASE kind = "device"
    <3>1. cache[s].reallocs \in Nat
      BY <2>1, <2>3 DEF Keeps, DeviceState
    <3>2. cache[s].buffer = 0 => Capacity(cache[s]) = 0 /\ cache[s].reallocs = 0
      BY <2>1, <2>3 DEF Grows, DeviceGrows, Capacity
    <3>3. cache[s].buffer # 0 => Capacity(cache[s]) = Len(heap[cache[s].buffer])
      BY DEF Capacity
    <3>4. cache[s].reallocs - 1 > 0 => cache[s].reallocs > 0
      BY <3>1
    <3> QED
      BY <2>1, <2>3, <3>2, <3>3, <3>4 DEF Grows, DeviceGrows
  <2> QED
    BY <2>2, <2>3
<1> QED
  BY <1>1, <1>2, <1>3, KvInvariant, PTL DEF Spec
=============================================================================
