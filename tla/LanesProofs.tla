------------------------------ MODULE LanesProofs ------------------------------
(***************************************************************************)
(* Proofs about Lanes, for every number of callers, lanes and seats and    *)
(* whatever fails.                                                         *)
(*                                                                         *)
(* Its safety: type correctness, who holds which lane, what the seats      *)
(* under way belong to, that a turn seats them in distinct lanes streams   *)
(* hold, and that no lane it seats holds anything of another stream.       *)
(*                                                                         *)
(* What its callers are owed: no seat of a call is lost or served twice,   *)
(* seats wait in order, turns are as wide as they can be, nobody is left   *)
(* blocked.  Without clones, the first seat of a call sits in its caller's *)
(* lane, and Lanes implements StreamStates.                                *)
(***************************************************************************)
EXTENDS LanesInvariants, OrderLemmas, LanesRefinement

\* Retain (VecDeque::retain in Queue::serve) returns elements of the queue
\* that answer another call, each from a position of its own, in their order.
LEMMA RetainElements ==
  ASSUME NEW S, NEW queue \in Seq(S), NEW call
  PROVE  /\ Retain(queue, call) \in Seq(S)
         /\ \E at \in [DOMAIN Retain(queue, call) -> DOMAIN queue] :
              /\ \A j \in DOMAIN Retain(queue, call) :
                   Retain(queue, call)[j] = queue[at[j]] /\ queue[at[j]].call # call
              /\ \A i, j \in DOMAIN Retain(queue, call) : at[i] = at[j] => i = j
<1> DEFINE K == Kept(queue, call)
           Rank(i) == Cardinality({k \in K : k <= i})
           At(j) == CHOOSE i \in K : Rank(i) = j
<1>1. \A k \in K : k \in 1 .. Len(queue) /\ queue[k] \in S /\ queue[k].call # call
  BY DEF Kept
<1>2. /\ Cardinality(K) \in Nat
      /\ \A j \in 1 .. Cardinality(K) : \E i \in K : Rank(i) = j
  <2> DEFINE n == Len(queue)
  <2>1. n \in Nat /\ \A k \in K : k \in 1 .. n
    BY <1>1
  <2> HIDE DEF K, n
  <2>2. QED
    BY <2>1, Ranks
<1>3. \A j \in 1 .. Cardinality(K) : At(j) \in K /\ Rank(At(j)) = j
  <2> HIDE DEF K, Rank
  <2> QED
    BY <1>2
<1>4. Retain(queue, call) = [j \in 1 .. Cardinality(K) |-> queue[At(j)]]
  BY DEF Retain
<1>5. Retain(queue, call) \in Seq(S) /\ DOMAIN Retain(queue, call) = 1 .. Cardinality(K)
  <2> HIDE DEF K, At
  <2>1. \A j \in 1 .. Cardinality(K) : queue[At(j)] \in S
    BY <1>1, <1>3
  <2>2. QED
    BY <1>2, <1>4, <2>1
<1>6. \E at \in [DOMAIN Retain(queue, call) -> DOMAIN queue] :
         /\ \A j \in DOMAIN Retain(queue, call) :
              Retain(queue, call)[j] = queue[at[j]] /\ queue[at[j]].call # call
         /\ \A i, j \in DOMAIN Retain(queue, call) : at[i] = at[j] => i = j
  <2> DEFINE at == [j \in 1 .. Cardinality(K) |-> At(j)]
  <2> HIDE DEF K, At, Rank
  <2>1. at \in [DOMAIN Retain(queue, call) -> DOMAIN queue]
    BY <1>1, <1>3, <1>5
  <2>2. \A j \in DOMAIN Retain(queue, call) :
           Retain(queue, call)[j] = queue[at[j]] /\ queue[at[j]].call # call
    BY <1>1, <1>3, <1>4, <1>5
  <2>3. \A i, j \in DOMAIN Retain(queue, call) : at[i] = at[j] => i = j
    BY <1>3, <1>5
  <2> HIDE DEF at
  <2>4. QED
    BY <2>1, <2>2, <2>3
<1>7. QED
  BY <1>5, <1>6

\* What the worker finds at the head of the request queue (Worker::serve).
LEMMA HeadRequest ==
  ASSUME TypeOK, NEW kind, Receive(kind)
  PROVE  /\ requests' \in Seq(Request)
         /\ Head(requests) \in Request
         /\ kind = "spawn" => Head(requests).client \in Client
         /\ kind = "call"  => Head(requests) \in CallRequest
         /\ kind = "drop"  => Head(requests).lane \in Lane
<1>1. requests \in Seq(Request) /\ requests # <<>> /\ requests' = Tail(requests)
      /\ Head(requests).kind = kind
  BY DEF TypeOK, Receive
<1>2. Head(requests) \in Request /\ Tail(requests) \in Seq(Request)
  BY <1>1, HeadTailProperties
<1>3. QED
  BY <1>1, <1>2 DEF Request, SpawnRequest, CallRequest, DropRequest

\* What fill finds at the head of the queue of seats (Worker::fill).
LEMMA HeadSeat ==
  ASSUME TypeOK, PopSeat
  PROVE  seats' \in Seq(Seat) /\ Head(seats) \in Seat
  BY HeadTailProperties DEF TypeOK, PopSeat

\* A call explodes into seats (Call::explode): one per slice of its inputs.
LEMMA ExplodeSeats ==
  ASSUME TypeOK, NEW call \in CallRequest
  PROVE  /\ Explode(call) \in Seq(Seat)
         /\ Len(Explode(call)) = call.width
         /\ call.width \in Nat
<1> DEFINE w == call.width
           e(ix) == [call |-> calls, ix |-> ix, lane |-> call.lease.lane,
                     stream |-> call.lease.stream]
<1>1. w \in Nat /\ w <= MaxWidth /\ call.lease.lane \in Lane /\ call.lease.stream \in Nat
  BY LanesAssumption DEF CallRequest, Lease
<1>2. \A ix \in 1 .. w : e(ix) \in Seat
  BY <1>1, LanesAssumption DEF Seat, TypeOK
<1>3. Explode(call) = [ix \in 1 .. w |-> e(ix)]
  BY DEF Explode
<1> HIDE DEF w, e
<1>4. Explode(call) \in Seq(Seat) /\ Len(Explode(call)) = w
  BY <1>1, <1>2, <1>3
<1>5. QED
  BY <1>1, <1>4 DEF w

\* The lane of a seat that has absorbed a turn gets one more entry (the state
\* run of Worker::run_turn).
LEMMA AbsorbType ==
  ASSUME TypeOK, Absorb
  PROVE  history' \in [Lane -> Seq(Absorbed)]
<1>1. ASSUME NEW lane \in Lane, lane \in SeatedLanes
      PROVE  SeatOf(lane) \in Seat
  BY <1>1 DEF SeatOf, SeatedLanes, TypeOK
<1>2. ASSUME NEW lane \in Lane, lane \in SeatedLanes
      PROVE  Append(history[lane], [call |-> SeatOf(lane).call, ix |-> SeatOf(lane).ix,
                                    stream |-> SeatOf(lane).stream]) \in Seq(Absorbed)
  <2>1. [call |-> SeatOf(lane).call, ix |-> SeatOf(lane).ix,
         stream |-> SeatOf(lane).stream] \in Absorbed
    BY <1>1, <1>2 DEF Seat, Absorbed
  <2>2. history[lane] \in Seq(Absorbed)
    BY DEF TypeOK
  <2>3. QED
    BY <2>1, <2>2, AppendProperties
<1>3. QED
  BY <1>2 DEF Absorb, TypeOK

LEMMA InitTypeOK == Init => TypeOK
  BY DEF Init, TypeOK

\* Each operation of a caller or of the worker keeps every variable in its
\* range; one step per action of the next-state relation.
LEMMA NextTypeOK == TypeOK /\ BlockedInv /\ [Next]_vars => TypeOK'
<1> SUFFICES ASSUME TypeOK, BlockedInv, [Next]_vars
             PROVE  TypeOK'
  OBVIOUS
<1> USE LanesAssumption, MaxLanesAssumption 
<1>1. ASSUME NEW c \in Client, Spawn(c)
      PROVE  TypeOK'
  <2>1. [kind |-> "spawn", client |-> c] \in Request
    BY DEF Request, SpawnRequest
  <2>2. requests' \in Seq(Request)
    BY <1>1, <2>1, AppendProperties DEF Spawn, Send, TypeOK
  <2>3. QED
    BY <1>1, <2>2 DEF Spawn, TypeOK, queueVars, turnVars
<1>2. ASSUME NEW c \in Client, NEW width \in 0 .. MaxWidth, Call(c, width)
      PROVE  TypeOK'
  <2>1. lease[c] \in Lease
    BY <1>2 DEF Call, TypeOK, BlockedInv, HandleInv, HoldsLease
  <2>2. [kind |-> "call", client |-> c, lease |-> lease[c], width |-> width] \in Request
    BY <2>1 DEF Request, CallRequest
  <2>3. requests' \in Seq(Request)
    BY <1>2, <2>2, AppendProperties DEF Call, Send, TypeOK
  <2>4. QED
    BY <1>2, <2>3 DEF Call, TypeOK, queueVars, turnVars
<1>3. ASSUME NEW c \in Client, NEW d \in Client, Clone(c, d)
      PROVE  TypeOK'
  BY <1>3 DEF Clone, TypeOK, queueVars, turnVars, boundVars
<1>4. ASSUME NEW c \in Client, DropLease(c)
      PROVE  TypeOK'
  <2>1. lease[c] \in Lease
    BY <1>4 DEF DropLease, TypeOK, BlockedInv, HandleInv, HoldsLease
  <2>2. [kind |-> "drop", lane |-> lease[c].lane] \in Request
    BY <2>1 DEF Request, DropRequest, Lease
  <2>3. requests' \in Seq(Request)
    <3>1. Append(requests, [kind |-> "drop", lane |-> lease[c].lane]) \in Seq(Request)
      BY <2>2, AppendProperties DEF TypeOK
    <3>2. QED
      BY <1>4, <3>1 DEF DropLease, Send, TypeOK
  <2>4. QED
    BY <1>4, <2>3 DEF DropLease, TypeOK, queueVars, turnVars, boundVars
<1>5. ASSUME NEW c \in Client, DropRunnable(c)
      PROVE  TypeOK'
  BY <1>5 DEF DropRunnable, TypeOK, queueVars, turnVars, boundVars
<1>6. ASSUME NEW c \in Client, Joined(c)
      PROVE  TypeOK'
  BY <1>6 DEF Joined, TypeOK, queueVars, turnVars, boundVars
<1>7. CASE DropRoot
  BY <1>7 DEF DropRoot, TypeOK, queueVars, turnVars, boundVars
<1>8. CASE RootJoined
  BY <1>8 DEF RootJoined, TypeOK, queueVars, turnVars, boundVars
<1>9. CASE ServeSpawn
  <2>1. /\ requests' \in Seq(Request)
        /\ Head(requests).client \in Client
    BY <1>9, HeadRequest DEF ServeSpawn
  <2>2. PICK lane \in Lane :
           /\ taken' = TakeLane(taken, lane)
           /\ Reset(lane)
           /\ lease' = [lease EXCEPT ![Head(requests).client] =
                                       [stream |-> streams, lane |-> lane]]
    BY <1>9 DEF ServeSpawn
  <2>3. /\ taken' \subseteq Lane
        /\ lease' \in [Client -> Lease \cup {NoLease}]
        /\ history' \in [Lane -> Seq(Absorbed)]
    BY <2>1, <2>2 DEF TypeOK, TakeLane, Reset, Lease
  <2>4. QED
    BY <1>9, <2>1, <2>3 DEF ServeSpawn, TypeOK, queueVars, turnVars, boundVars
<1>10. CASE RefuseSpawn
  <2>1. /\ requests' \in Seq(Request)
        /\ Head(requests).client \in Client
    BY <1>10, HeadRequest DEF RefuseSpawn
  <2>2. QED
    BY <1>10, <2>1 DEF RefuseSpawn, TypeOK, queueVars, turnVars, boundVars
<1>11. CASE ServeCall
  <2>1. /\ requests' \in Seq(Request)
        /\ Head(requests) \in CallRequest
    BY <1>11, HeadRequest DEF ServeCall
  <2>2. [call |-> calls, client |-> Head(requests).client,
         width |-> Head(requests).width, served |-> {}] \in Completer
    BY <1>11, <2>1 DEF ServeCall, CallRequest, Completer, TypeOK
  <2>3. seats' \in Seq(Seat)
    BY <1>11, <2>1, ExplodeSeats, ConcatProperties DEF ServeCall, TypeOK
  <2>4. QED
    <3>1. completers' \subseteq Completer
      BY <1>11, <2>2 DEF ServeCall, TypeOK
    <3>2. QED
      BY <1>11, <2>1, <2>3, <3>1 DEF ServeCall, TypeOK, callerVars, turnVars, boundVars
<1>12. CASE RefuseCall
  <2>1. /\ requests' \in Seq(Request)
        /\ Head(requests) \in CallRequest
    BY <1>12, HeadRequest DEF RefuseCall
  <2>2. QED
    BY <1>12, <2>1 DEF RefuseCall, Wake, TypeOK, CallRequest, turnVars, boundVars
<1>13. CASE ServeDrop
  <2>1. requests' \in Seq(Request)
    BY <1>13, HeadRequest DEF ServeDrop
  <2>2. QED
    BY <1>13, <2>1 DEF ServeDrop, GiveBack, TypeOK, callerVars, queueVars, turnVars, boundVars
<1>14. CASE Drained
  BY <1>14 DEF Drained, TypeOK, callerVars, queueVars, turnVars, boundVars
<1>15. CASE Stop
  BY <1>15 DEF Stop, TypeOK, callerVars, queueVars, turnVars, boundVars
<1>16. CASE SeatInItsLane
  <2>1. seats' \in Seq(Seat) /\ Head(seats) \in Seat
    BY <1>16, HeadSeat DEF SeatInItsLane
  <2>2. seated' \in Seq(Seat)
    BY <1>16, <2>1, AppendProperties DEF SeatInItsLane, TypeOK
  <2>3. QED
    BY <1>16, <2>1, <2>2 DEF SeatInItsLane, TypeOK, callerVars, boundVars
<1>17. CASE SeatInBorrowedLane
  <2>1. seats' \in Seq(Seat) /\ Head(seats) \in Seat
    BY <1>17, HeadSeat DEF SeatInBorrowedLane
  <2>2. PICK lane \in Lane :
           /\ taken' = TakeLane(taken, lane)
           /\ borrowed' = borrowed \cup {lane}
           /\ Reset(lane)
           /\ seated' = Append(seated, [Head(seats) EXCEPT !.lane = lane])
    BY <1>17 DEF SeatInBorrowedLane
  <2>3. [Head(seats) EXCEPT !.lane = lane] \in Seat
    BY <2>1 DEF Seat
  <2>4. seated' \in Seq(Seat)
    BY <2>2, <2>3, AppendProperties DEF TypeOK
  <2>5. history' \in [Lane -> Seq(Absorbed)]
    BY <2>2 DEF Reset, TypeOK
  <2>6. taken' \subseteq Lane /\ borrowed' \subseteq Lane
    BY <2>2 DEF TakeLane, TypeOK
  <2>7. QED
    BY <1>17, <2>1, <2>4, <2>5, <2>6 DEF SeatInBorrowedLane, TypeOK, callerVars, boundVars
<1>18. CASE SeatMustWait
  <2>1. seats' \in Seq(Seat) /\ Head(seats) \in Seat
    BY <1>18, HeadSeat DEF SeatMustWait
  <2>2. waiting' \in Seq(Seat)
    BY <1>18, <2>1, AppendProperties DEF SeatMustWait, TypeOK
  <2>3. QED
    BY <1>18, <2>1, <2>2 DEF SeatMustWait, TypeOK, callerVars, boundVars
<1>19. CASE Filled
  BY <1>19 DEF Filled, TypeOK, callerVars, boundVars
<1>20. CASE RunTurn
  BY <1>20, AbsorbType DEF RunTurn, ReturnBorrowed, GiveBack, TypeOK, callerVars, queueVars,
     boundVars
<1>21. CASE FailTurn
  <2>1. history' \in [Lane -> Seq(Absorbed)]
    BY <1>21, AbsorbType DEF FailTurn, TypeOK
  <2>2. QED
    BY <1>21, <2>1 DEF FailTurn, ReturnBorrowed, GiveBack, TypeOK, callerVars, queueVars,
       boundVars
<1>22. CASE LandSeat
  <2>1. seated' \in Seq(Seat) /\ phase' \in {"serve", "landed"} /\ Head(seated) \in Seat
    BY <1>22, HeadTailProperties DEF LandSeat, HandBack, TypeOK
  <2>2. PICK k \in completers :
           LET filled == Fill(k, Head(seated).ix) IN
             IF IsFull(filled)
             THEN /\ completers' = completers \ {k}
                  /\ \E result \in {"ok", "error"} : Wake(k.client, result)
             ELSE /\ completers' = (completers \ {k}) \cup {filled}
                  /\ UNCHANGED <<caller, answer>>
    BY <1>22 DEF LandSeat, Assembled
  <2>3. k \in Completer /\ k.client \in Client /\ Fill(k, Head(seated).ix) \in Completer
    BY <2>1 DEF TypeOK, Completer, Fill, Seat
  <2>4. completers' \subseteq Completer
    BY <2>2, <2>3 DEF TypeOK
  <2>5. /\ caller' \in [Client -> {"idle", "spawning", "ready", "calling", "dropping",
                                   "joining"}]
        /\ answer' \in [Client -> {"none", "ok", "error"}]
    BY <2>2, <2>3 DEF TypeOK, Wake
  <2>6. QED
    BY <1>22, <2>1, <2>4, <2>5 DEF LandSeat, TypeOK, boundVars
<1>23. CASE FailSeat
  <2>1. seated' \in Seq(Seat) /\ phase' \in {"serve", "failed"}
    BY <1>23, HeadTailProperties DEF FailSeat, HandBack, TypeOK
  <2>2. PICK k \in completers : /\ completers' = completers \ {k}
                                /\ seats' = Retain(seats, k.call)
                                /\ Wake(k.client, "error")
    BY <1>23 DEF FailSeat
  <2>3. seats' \in Seq(Seat)
    BY <2>2, RetainElements DEF TypeOK
  <2>4. k.client \in Client
    BY DEF TypeOK, Completer
  <2>5. QED
    BY <1>23, <2>1, <2>2, <2>3, <2>4 DEF FailSeat, Wake, TypeOK, boundVars
<1>24. CASE SkipSeat
  <2>1. seated' \in Seq(Seat) /\ phase' \in {"serve", "landed", "failed"}
    BY <1>24, HeadTailProperties DEF SkipSeat, HandBack, TypeOK
  <2>2. QED
    BY <1>24, <2>1 DEF SkipSeat, TypeOK, callerVars, queueVars, boundVars
<1>25. CASE Panic
  BY <1>25 DEF Panic, TypeOK, boundVars
<1>26. CASE UNCHANGED vars
  BY <1>26 DEF TypeOK, vars
<1>27. QED
  BY <1>1, <1>2, <1>3, <1>4, <1>5, <1>6, <1>7, <1>8, <1>9, <1>10, <1>11, <1>12, <1>13, <1>14,
     <1>15, <1>16, <1>17, <1>18, <1>19, <1>20, <1>21, <1>22, <1>23, <1>24, <1>25, <1>26
     DEF Next, Callers, Worker, Serve, FillTurn, Turn, Answer, Terminated

LEMMA InitBlockedInv == Init => BlockedInv
  BY DEF Init, BlockedInv, HandleInv, RequestInv, CompleterInv, HoldsLease

\* What a request in the queue looks like.
LEMMA RequestFields ==
  ASSUME TypeOK, NEW i \in DOMAIN requests
  PROVE  /\ requests[i].kind \in {"spawn", "call", "drop"}
         /\ requests[i].kind # "drop" => requests[i].client \in Client
         /\ requests[i].kind = "call" => requests[i].lease \in Lease
         /\ requests[i].kind = "drop" => requests[i].lane \in Lane
<1>1. requests[i] \in Request
  BY DEF TypeOK
<1>2. QED
  BY <1>1 DEF Request, SpawnRequest, CallRequest, DropRequest

\* A request of an unblocked thread joins the queue: the thread it belongs to
\* had nothing in the worker's hands.
LEMMA SendKeepsRequestInv ==
  ASSUME TypeOK, RequestInv, NEW c \in Client, NEW r,
         requests' = Append(requests, r),
         r.kind \in {"spawn", "call"}, r.client = c,
         caller[c] \notin {"spawning", "calling"},
         caller' = [caller EXCEPT ![c] = IF r.kind = "spawn" THEN "spawning" ELSE "calling"],
         r.kind = "call" => r.lease = lease[c],
         UNCHANGED <<lease, completers>>, CompleterInv
  PROVE  RequestInv'
<1>1. requests \in Seq(Request)
  BY DEF TypeOK
<1>2. \A i \in DOMAIN requests' :
         \/ i \in DOMAIN requests /\ requests'[i] = requests[i]
         \/ i = Len(requests) + 1 /\ requests'[i] = r
  BY <1>1, AppendElements
<1>3. \A i \in DOMAIN requests : requests[i].kind # "drop" => requests[i].client # c
  BY RequestFields DEF RequestInv
<1>4. \A k \in completers : k.client # c
  BY DEF CompleterInv
<1>5. caller'[c] = (IF r.kind = "spawn" THEN "spawning" ELSE "calling")
      /\ \A d \in Client \ {c} : caller'[d] = caller[d]
  BY DEF TypeOK
<1>6. \A i \in DOMAIN requests' :
          /\ requests'[i].kind = "spawn" => caller'[requests'[i].client] = "spawning"
          /\ requests'[i].kind = "call" =>
                /\ caller'[requests'[i].client] = "calling"
                /\ requests'[i].lease = lease'[requests'[i].client]
                /\ \A k \in completers' : k.client # requests'[i].client
  BY <1>2, <1>3, <1>4, <1>5, RequestFields DEF RequestInv
<1>7. \A i, j \in DOMAIN requests' :
          /\ requests'[i].kind # "drop" /\ requests'[j].kind # "drop"
          /\ requests'[i].client = requests'[j].client
          => i = j
  BY <1>2, <1>3, RequestFields DEF RequestInv
<1>8. QED
  BY <1>6, <1>7 DEF RequestInv

\* The head of the queue is served: what changes is up to the thread that sent
\* it, which has no other request.
LEMMA ReceiveKeepsRequestInv ==
  ASSUME TypeOK, RequestInv, requests # <<>>, requests' = Tail(requests),
         \A d \in Client : \/ caller'[d] = caller[d] /\ lease'[d] = lease[d]
                           \/ Head(requests).kind # "drop" /\ d = Head(requests).client,
         \A k \in completers' : \/ k \in completers
                                \/ Head(requests).kind # "drop"
                                     /\ k.client = Head(requests).client
  PROVE  RequestInv'
<1>1. requests \in Seq(Request)
  BY DEF TypeOK
<1>2. \A i \in DOMAIN requests' :
         /\ i + 1 \in DOMAIN requests /\ i + 1 # 1 /\ i \in Int
         /\ requests'[i] = requests[i + 1]
  BY <1>1, TailElements
<1>3. 1 \in DOMAIN requests /\ Head(requests) = requests[1]
  BY <1>1, TailElements
<1>4. \A i \in DOMAIN requests' :
         requests'[i].kind # "drop" /\ Head(requests).kind # "drop" =>
            requests'[i].client # Head(requests).client
  BY <1>2, <1>3 DEF RequestInv
<1>5. \A i \in DOMAIN requests' :
         requests'[i].kind # "drop" =>
            /\ requests'[i].client \in Client
            /\ caller'[requests'[i].client] = caller[requests'[i].client]
            /\ lease'[requests'[i].client] = lease[requests'[i].client]
  BY <1>2, <1>4, RequestFields
<1>6. \A i \in DOMAIN requests' :
          /\ requests'[i].kind = "spawn" => caller'[requests'[i].client] = "spawning"
          /\ requests'[i].kind = "call" =>
                /\ caller'[requests'[i].client] = "calling"
                /\ requests'[i].lease = lease'[requests'[i].client]
                /\ \A k \in completers' : k.client # requests'[i].client
  BY <1>2, <1>4, <1>5 DEF RequestInv
<1>7. \A i, j \in DOMAIN requests' :
          /\ requests'[i].kind # "drop" /\ requests'[j].kind # "drop"
          /\ requests'[i].client = requests'[j].client
          => i = j
  BY <1>2 DEF RequestInv
<1>8. QED
  BY <1>6, <1>7 DEF RequestInv

\* The queue is left alone and the threads that move are not blocked on it.
LEMMA OthersKeepRequestInv ==
  ASSUME TypeOK, RequestInv, CompleterInv, requests' = requests,
         \A d \in Client : \/ caller'[d] = caller[d] /\ lease'[d] = lease[d]
                           \/ caller[d] \notin {"spawning", "calling"}
                           \/ \E k \in completers : k.client = d,
         \A k \in completers' : \E m \in completers : k.client = m.client
  PROVE  RequestInv'
<1>1. \A i \in DOMAIN requests :
         requests[i].kind # "drop" =>
            /\ caller'[requests[i].client] = caller[requests[i].client]
            /\ lease'[requests[i].client] = lease[requests[i].client]
  <2> SUFFICES ASSUME NEW i \in DOMAIN requests, requests[i].kind # "drop"
               PROVE  /\ caller'[requests[i].client] = caller[requests[i].client]
                      /\ lease'[requests[i].client] = lease[requests[i].client]
    OBVIOUS
  <2>1. requests[i].client \in Client /\ requests[i].kind \in {"spawn", "call"}
    BY RequestFields
  <2>2. caller[requests[i].client] \in {"spawning", "calling"}
    BY <2>1 DEF RequestInv
  <2>3. \A k \in completers : k.client # requests[i].client
    BY <2>1 DEF RequestInv, CompleterInv
  <2>4. QED
    BY <2>1, <2>2, <2>3
<1>2. QED
  BY <1>1 DEF RequestInv

\* No completer is added or changed, and no thread blocked on one moves.
LEMMA OthersKeepCompleterInv ==
  ASSUME TypeOK, CompleterInv, completers' = completers,
         calls' = calls \/ calls' = calls + 1,
         \A k \in completers : caller'[k.client] = caller[k.client]
  PROVE  CompleterInv'
  BY DEF TypeOK, Completer, CompleterInv

\* Nothing that a blocked thread depends on changes.
LEMMA SameBlockedInv ==
  BlockedInv /\ UNCHANGED <<caller, lease, requests, completers, calls>> => BlockedInv'
  BY DEF BlockedInv, HandleInv, RequestInv, CompleterInv, HoldsLease

\* A thread is blocked on one thing at a time.  Sending blocks the thread that
\* sends, and what answers it removes the request or the completer it is
\* blocked on; so nothing of its stays behind to answer its next call.
LEMMA NextBlockedInv == TypeOK /\ BlockedInv /\ [Next]_vars => BlockedInv'
<1> SUFFICES ASSUME TypeOK, BlockedInv, [Next]_vars
             PROVE  BlockedInv'
  OBVIOUS
<1> USE DEF BlockedInv
<1>1. ASSUME NEW c \in Client, Spawn(c)
      PROVE  BlockedInv'
  <2>1. HandleInv'
    BY <1>1 DEF Spawn, HandleInv, HoldsLease, TypeOK
  <2>2. RequestInv'
    <3> DEFINE r == [kind |-> "spawn", client |-> c]
    <3>1. /\ requests' = Append(requests, r)
          /\ caller[c] \notin {"spawning", "calling"}
          /\ caller' = [caller EXCEPT ![c] = IF r.kind = "spawn" THEN "spawning"
                                                                  ELSE "calling"]
          /\ UNCHANGED <<lease, completers>>
          /\ r.kind = "spawn" /\ r.client = c
      BY <1>1 DEF Spawn, Send, queueVars
    <3> HIDE DEF r
    <3>2. QED
      BY <3>1, SendKeepsRequestInv
  <2>3. CompleterInv'
    BY <1>1, OthersKeepCompleterInv DEF Spawn, queueVars, TypeOK, Completer, CompleterInv
  <2>4. QED
    BY <2>1, <2>2, <2>3
<1>2. ASSUME NEW c \in Client, NEW width \in 0 .. MaxWidth, Call(c, width)
      PROVE  BlockedInv'
  <2>1. HandleInv'
    BY <1>2 DEF Call, HandleInv, HoldsLease, TypeOK
  <2>2. RequestInv'
    <3> DEFINE r == [kind |-> "call", client |-> c, lease |-> lease[c], width |-> width]
    <3>1. /\ requests' = Append(requests, r)
          /\ caller[c] \notin {"spawning", "calling"}
          /\ caller' = [caller EXCEPT ![c] = IF r.kind = "spawn" THEN "spawning"
                                                                  ELSE "calling"]
          /\ UNCHANGED <<lease, completers>>
          /\ r.kind = "call" /\ r.client = c /\ r.lease = lease[c]
      BY <1>2 DEF Call, Send, queueVars
    <3> HIDE DEF r
    <3>2. QED
      BY <3>1, SendKeepsRequestInv
  <2>3. CompleterInv'
    BY <1>2, OthersKeepCompleterInv DEF Call, queueVars, TypeOK, Completer, CompleterInv
  <2>4. QED
    BY <2>1, <2>2, <2>3
<1>3. ASSUME NEW c \in Client, NEW d \in Client, Clone(c, d)
      PROVE  BlockedInv'
  <2>1. HandleInv'
    BY <1>3 DEF Clone, HandleInv, HoldsLease, TypeOK
  <2>2. RequestInv'
    BY <1>3, OthersKeepRequestInv DEF Clone, queueVars, TypeOK
  <2>3. CompleterInv'
    BY <1>3, OthersKeepCompleterInv DEF Clone, queueVars, TypeOK, Completer, CompleterInv
  <2>4. QED
    BY <2>1, <2>2, <2>3
<1>4. ASSUME NEW c \in Client, DropLease(c)
      PROVE  BlockedInv'
  <2>1. HandleInv'
    <3>1. NoLease \notin Lease
      BY LanesAssumption DEF Lease
    <3>2. QED
      BY <1>4, <3>1 DEF DropLease, HandleInv, HoldsLease, TypeOK
  <2>2. RequestInv'
    <3>1. CASE requests' = requests
      BY <1>4, <3>1, OthersKeepRequestInv DEF DropLease, queueVars, TypeOK
    <3>2. CASE requests' = Append(requests, [kind |-> "drop", lane |-> lease[c].lane])
      <4>1. requests \in Seq(Request)
        BY DEF TypeOK
      <4>2. \A i \in DOMAIN requests' :
               \/ i \in DOMAIN requests /\ requests'[i] = requests[i]
               \/ i = Len(requests) + 1 /\ requests'[i].kind = "drop"
        BY <3>2, <4>1, AppendElements
      <4>3. \A i \in DOMAIN requests : requests[i].kind # "drop" => requests[i].client # c
        BY <1>4, RequestFields DEF DropLease, RequestInv
      <4>4. \A i \in DOMAIN requests : requests[i].kind # "drop" =>
               /\ caller'[requests[i].client] = caller[requests[i].client]
               /\ lease'[requests[i].client] = lease[requests[i].client]
        BY <1>4, <4>3, RequestFields DEF DropLease, TypeOK
      <4>5. completers' = completers
        BY <1>4 DEF DropLease, queueVars
      <4>6. QED
        BY <4>2, <4>4, <4>5 DEF RequestInv
    <3>3. QED
      BY <1>4, <3>1, <3>2 DEF DropLease, Send
  <2>3. CompleterInv'
    BY <1>4, OthersKeepCompleterInv
    DEF DropLease, queueVars, TypeOK, Completer, CompleterInv
  <2>4. QED
    BY <2>1, <2>2, <2>3
<1>5. ASSUME NEW c \in Client, DropRunnable(c) \/ Joined(c)
      PROVE  BlockedInv'
  <2>1. /\ caller[c] \in {"dropping", "joining"}
        /\ \E state \in {"idle", "joining"} : caller' = [caller EXCEPT ![c] = state]
        /\ UNCHANGED <<lease, requests, completers, calls>>
    BY <1>5 DEF DropRunnable, Joined, queueVars
  <2>2. HandleInv'
    BY <2>1 DEF HandleInv, HoldsLease, TypeOK
  <2>3. RequestInv'
    BY <2>1, OthersKeepRequestInv DEF TypeOK
  <2>4. CompleterInv'
    BY <2>1, OthersKeepCompleterInv DEF TypeOK, Completer, CompleterInv
  <2>5. QED
    BY <2>2, <2>3, <2>4
<1>6. CASE ServeSpawn
  <2>1. /\ requests # <<>> /\ requests' = Tail(requests) /\ Head(requests).kind = "spawn"
        /\ Head(requests).client \in Client
    BY <1>6, HeadRequest DEF ServeSpawn, Receive
  <2>2. PICK lane \in Lane :
           lease' = [lease EXCEPT ![Head(requests).client] =
                                    [stream |-> streams, lane |-> lane]]
    BY <1>6 DEF ServeSpawn
  <2>3. /\ caller' = [caller EXCEPT ![Head(requests).client] = "ready"]
        /\ UNCHANGED <<completers, calls>>
    BY <1>6 DEF ServeSpawn, queueVars
  <2>4. HandleInv'
    <3>1. [stream |-> streams, lane |-> lane] # NoLease
      BY LanesAssumption DEF TypeOK
    <3>2. QED
      BY <2>1, <2>2, <2>3, <3>1 DEF HandleInv, HoldsLease, TypeOK
  <2>5. RequestInv'
    BY <2>1, <2>2, <2>3, ReceiveKeepsRequestInv DEF TypeOK
  <2>6. CompleterInv'
    <3>1. caller[Head(requests).client] = "spawning"
      BY <2>1, TailElements DEF TypeOK, RequestInv
    <3>2. QED
      BY <2>1, <2>3, <3>1, OthersKeepCompleterInv DEF TypeOK, Completer, CompleterInv
  <2>7. QED
    BY <2>4, <2>5, <2>6
<1>7. CASE RefuseSpawn
  <2>1. /\ requests # <<>> /\ requests' = Tail(requests) /\ Head(requests).kind = "spawn"
        /\ Head(requests).client \in Client
    BY <1>7, HeadRequest DEF RefuseSpawn, Receive
  <2>2. /\ caller' = [caller EXCEPT ![Head(requests).client] = "idle"]
        /\ UNCHANGED <<lease, completers, calls>>
    BY <1>7 DEF RefuseSpawn, queueVars
  <2>3. caller[Head(requests).client] = "spawning"
    BY <2>1, TailElements DEF TypeOK, RequestInv
  <2>4. HandleInv'
    BY <2>1, <2>2, <2>3 DEF HandleInv, HoldsLease, TypeOK
  <2>5. RequestInv'
    BY <2>1, <2>2, ReceiveKeepsRequestInv DEF TypeOK
  <2>6. CompleterInv'
    BY <2>1, <2>2, <2>3, OthersKeepCompleterInv DEF TypeOK, Completer, CompleterInv
  <2>7. QED
    BY <2>4, <2>5, <2>6
<1>8. CASE ServeCall
  <2> DEFINE new == [call |-> calls, client |-> Head(requests).client,
                     width |-> Head(requests).width, served |-> {}]
  <2>1. /\ requests # <<>> /\ requests' = Tail(requests) /\ Head(requests).kind = "call"
        /\ Head(requests).client \in Client
    BY <1>8, HeadRequest DEF ServeCall, Receive, CallRequest
  <2>2. /\ completers' = completers \cup {new}
        /\ calls' = calls + 1
        /\ UNCHANGED <<caller, lease>>
    BY <1>8 DEF ServeCall, callerVars
  <2>3. /\ caller[Head(requests).client] = "calling"
        /\ \A k \in completers : k.client # Head(requests).client
    BY <2>1, TailElements DEF TypeOK, RequestInv
  <2>4. HandleInv'
    BY <2>2 DEF HandleInv, HoldsLease
  <2>5. RequestInv'
    BY <2>1, <2>2, ReceiveKeepsRequestInv
  <2>6. CompleterInv'
    <3>1. new.client = Head(requests).client /\ new.call = calls
      OBVIOUS
    <3> HIDE DEF new
    <3>2. \A k \in completers : k.call \in Nat
      BY DEF TypeOK, Completer
    <3>3. QED
      BY <2>2, <2>3, <3>1, <3>2 DEF CompleterInv, TypeOK
  <2>7. QED
    BY <2>4, <2>5, <2>6
<1>9. CASE RefuseCall
  <2>1. /\ requests # <<>> /\ requests' = Tail(requests) /\ Head(requests).kind = "call"
        /\ Head(requests).client \in Client
    BY <1>9, HeadRequest DEF RefuseCall, Receive, CallRequest
  <2>2. /\ caller' = [caller EXCEPT ![Head(requests).client] = "ready"]
        /\ calls' = calls + 1
        /\ UNCHANGED <<lease, completers>>
    BY <1>9 DEF RefuseCall, Wake
  <2>3. /\ caller[Head(requests).client] = "calling"
        /\ \A k \in completers : k.client # Head(requests).client
    BY <2>1, TailElements DEF TypeOK, RequestInv
  <2>4. HandleInv'
    BY <2>1, <2>2, <2>3 DEF HandleInv, HoldsLease, TypeOK
  <2>5. RequestInv'
    BY <2>1, <2>2, ReceiveKeepsRequestInv DEF TypeOK
  <2>6. CompleterInv'
    BY <2>1, <2>2, <2>3, OthersKeepCompleterInv DEF TypeOK, Completer, CompleterInv
  <2>7. QED
    BY <2>4, <2>5, <2>6
<1>10. CASE ServeDrop
  <2>1. /\ requests # <<>> /\ requests' = Tail(requests)
        /\ UNCHANGED <<caller, lease, completers, calls>>
    BY <1>10 DEF ServeDrop, Receive, callerVars, queueVars
  <2>2. RequestInv'
    BY <2>1, ReceiveKeepsRequestInv
  <2>3. QED
    BY <2>1, <2>2 DEF HandleInv, HoldsLease, CompleterInv
<1>11. CASE LandSeat
  <2>1. PICK k \in completers :
           LET filled == Fill(k, Head(seated).ix) IN
             IF IsFull(filled)
             THEN /\ completers' = completers \ {k}
                  /\ \E result \in {"ok", "error"} : Wake(k.client, result)
             ELSE /\ completers' = (completers \ {k}) \cup {filled}
                  /\ UNCHANGED <<caller, answer>>
    BY <1>11 DEF LandSeat, Assembled
  <2> DEFINE filled == Fill(k, Head(seated).ix)
  <2>2. k \in Completer /\ k.client \in Client /\ caller[k.client] = "calling"
    BY DEF TypeOK, Completer, CompleterInv
  <2>3. filled.client = k.client /\ filled.call = k.call
    BY <2>2 DEF Fill, Completer
  <2>4. \/ /\ completers' = completers \ {k}
           /\ caller' = [caller EXCEPT ![k.client] = "ready"]
        \/ /\ completers' = (completers \ {k}) \cup {filled}
           /\ caller' = caller
    BY <2>1 DEF Wake
  <2>5. UNCHANGED <<lease, requests, calls>>
    BY <1>11 DEF LandSeat
  <2> HIDE DEF filled
  <2>6. HandleInv'
    BY <2>2, <2>4, <2>5 DEF HandleInv, HoldsLease, TypeOK
  <2>7. RequestInv'
    <3>1. \A m \in completers' : \E n \in completers : m.client = n.client
      BY <2>3, <2>4
    <3>2. \A d \in Client : \/ caller'[d] = caller[d] /\ lease'[d] = lease[d]
                            \/ \E m \in completers : m.client = d
      BY <2>2, <2>4, <2>5 DEF TypeOK
    <3>3. QED
      BY <2>5, <3>1, <3>2, OthersKeepRequestInv
  <2>8. CompleterInv'
    <3>1. CASE completers' = completers \ {k}
      BY <2>2, <2>4, <2>5, <3>1 DEF CompleterInv, TypeOK, Completer
    <3>2. CASE completers' = (completers \ {k}) \cup {filled} /\ caller' = caller
      BY <2>2, <2>3, <2>5, <3>2 DEF CompleterInv
    <3>3. QED
      BY <2>4, <3>1, <3>2
  <2>9. QED
    BY <2>6, <2>7, <2>8
<1>12. CASE FailSeat
  <2>1. PICK k \in completers : completers' = completers \ {k} /\ Wake(k.client, "error")
    BY <1>12 DEF FailSeat
  <2>2. k.client \in Client /\ caller[k.client] = "calling"
    BY DEF TypeOK, Completer, CompleterInv
  <2>3. /\ UNCHANGED <<lease, requests, calls>>
        /\ caller' = [caller EXCEPT ![k.client] = "ready"]
    BY <1>12, <2>1 DEF FailSeat, Wake
  <2>4. HandleInv'
    BY <2>2, <2>3 DEF HandleInv, HoldsLease, TypeOK
  <2>5. RequestInv'
    BY <2>1, <2>2, <2>3, OthersKeepRequestInv DEF TypeOK
  <2>6. CompleterInv'
    BY <2>1, <2>2, <2>3 DEF CompleterInv, TypeOK, Completer
  <2>7. QED
    BY <2>4, <2>5, <2>6
<1>13. CASE Panic
  <2>1. HandleInv'
    <3>1. \A c \in Client : HoldsLease(c)' <=> HoldsLease(c)
      BY <1>13 DEF Panic, HoldsLease, TypeOK
    <3>2. QED
      BY <1>13, <3>1 DEF Panic, HandleInv
  <2>2. RequestInv' /\ CompleterInv'
    BY <1>13 DEF Panic, RequestInv, CompleterInv
  <2>3. QED
    BY <2>1, <2>2
<1>14. CASE \/ DropRoot \/ RootJoined \/ Drained \/ Stop \/ Filled
            \/ SeatInItsLane \/ SeatInBorrowedLane \/ SeatMustWait
            \/ RunTurn \/ FailTurn \/ SkipSeat \/ UNCHANGED vars
  <2>1. UNCHANGED <<caller, lease, requests, completers, calls>>
    BY <1>14 DEF DropRoot, RootJoined, Drained, Stop, Filled, SeatInItsLane,
       SeatInBorrowedLane, SeatMustWait, RunTurn, FailTurn, SkipSeat, vars, callerVars,
       queueVars
  <2>2. QED
    BY <2>1, SameBlockedInv
<1>15. QED
  BY <1>1, <1>2, <1>3, <1>4, <1>5, <1>6, <1>7, <1>8, <1>9, <1>10, <1>11, <1>12, <1>13, <1>14
     DEF Next, Callers, Worker, Serve, FillTurn, Turn, Answer, Terminated

\* TypeCorrect: whatever callers do, whatever fails and however many lanes,
\* seats and callers there are, every variable of the worker, of its queue and
\* of the handles stays in its range: no completion slot outside its call, no
\* seat or lease outside the table, no lane content of anything but seats.
THEOREM TypeCorrect == Spec => []TypeOK
<1>1. Init => TypeOK /\ BlockedInv
  BY InitTypeOK, InitBlockedInv
<1>2. TypeOK /\ BlockedInv /\ [Next]_vars => (TypeOK /\ BlockedInv)'
  BY NextTypeOK, NextBlockedInv
<1>3. QED
  BY <1>1, <1>2, PTL DEF Spec

-----------------------------------------------------------------------------
(* Who holds which lane.                                                    *)

LEMMA InitPhaseInv == Init => PhaseInv
  BY DEF Init, PhaseInv

\* What the worker leaves empty from one phase of its loop to the next.
LEMMA NextPhaseInv == TypeOK /\ BlockedInv /\ PhaseInv /\ [Next]_vars => PhaseInv'
<1> SUFFICES ASSUME TypeOK, BlockedInv, PhaseInv, [Next]_vars
             PROVE  PhaseInv'
  OBVIOUS
<1>1. ASSUME NEW c \in Client, Spawn(c) \/ DropLease(c) \/ \E width \in 0 .. MaxWidth : Call(c, width)
      PROVE  PhaseInv'
  BY <1>1 DEF Spawn, Call, DropLease, Send, PhaseInv, queueVars, turnVars
<1>2. CASE \/ \E c, d \in Client : Clone(c, d)
           \/ \E c \in Client : DropRunnable(c) \/ Joined(c)
           \/ DropRoot \/ RootJoined \/ UNCHANGED vars
  BY <1>2 DEF Clone, DropRunnable, Joined, DropRoot, RootJoined, PhaseInv, queueVars,
     turnVars, vars
<1>3. CASE ServeSpawn \/ RefuseSpawn \/ ServeCall \/ RefuseCall \/ ServeDrop
  BY <1>3 DEF ServeSpawn, RefuseSpawn, ServeCall, RefuseCall, ServeDrop, Receive, PhaseInv,
     queueVars, turnVars
<1>4. CASE Drained
  BY <1>4 DEF Drained, PhaseInv, queueVars, turnVars
<1>5. CASE Stop
  <2>1. completers = {}
    BY <1>5 DEF Stop, Closed, BlockedInv, CompleterInv, HoldsLease, TypeOK, Completer
  <2>2. QED
    BY <1>5, <2>1 DEF Stop, PhaseInv, queueVars, turnVars
<1>6. CASE SeatInItsLane \/ SeatInBorrowedLane
  <2>1. seated' # <<>> /\ phase = "fill" /\ phase' = "fill"
    <3>1. \E s : seated' = Append(seated, s)
      BY <1>6 DEF SeatInItsLane, SeatInBorrowedLane
    <3>2. QED
      BY <1>6, <3>1 DEF SeatInItsLane, SeatInBorrowedLane, PopSeat, TypeOK
  <2>2. QED
    BY <2>1 DEF PhaseInv
<1>7. CASE SeatMustWait
  BY <1>7 DEF SeatMustWait, PopSeat, PhaseInv
<1>8. CASE Filled
  BY <1>8 DEF Filled, PhaseInv
<1>9. CASE RunTurn \/ FailTurn
  BY <1>9 DEF RunTurn, FailTurn, ReturnBorrowed, PhaseInv, queueVars
<1>10. CASE LandSeat \/ FailSeat \/ SkipSeat
  <2>1. /\ phase \in {"landed", "failed"} /\ borrowed' = borrowed /\ waiting' = waiting
        /\ HandBack
    BY <1>10 DEF LandSeat, FailSeat, SkipSeat
  <2>2. phase' = "serve" => seated' = <<>>
    <3>1. seated \in Seq(Seat) /\ seated # <<>> /\ seated' = Tail(seated)
      BY <2>1 DEF HandBack, TypeOK
    <3>2. Len(seated) = 1 => seated' = <<>>
      BY <3>1
    <3>3. QED
      BY <2>1, <3>2 DEF HandBack
  <2>3. phase' \in {"landed", "failed"} => seated' # <<>>
    <3>1. seated \in Seq(Seat) /\ seated # <<>> /\ seated' = Tail(seated)
      BY <2>1 DEF HandBack, TypeOK
    <3>2. Len(seated) # 1 => Len(seated') # 0
      BY <3>1
    <3>3. QED
      BY <2>1, <3>2 DEF HandBack
  <2>4. phase' \in {"serve", "landed", "failed"}
    BY <2>1 DEF HandBack
  <2>5. QED
    BY <2>1, <2>2, <2>3, <2>4 DEF PhaseInv
<1>11. CASE Panic
  BY <1>11 DEF Panic, PhaseInv
<1>12. QED
  BY <1>1, <1>2, <1>3, <1>4, <1>5, <1>6, <1>7, <1>8, <1>9, <1>10, <1>11
     DEF Next, Callers, Worker, Serve, FillTurn, Turn, Answer, Terminated

\* A request that is no drop is served: the lanes on their way back are the same.
LEMMA PopKeepsReturning ==
  ASSUME TypeOK, requests # <<>>, requests' = Tail(requests), Head(requests).kind # "drop"
  PROVE  /\ Returning' = Returning
         /\ ReturnedOnce => ReturnedOnce'
<1>1. requests \in Seq(Request)
  BY DEF TypeOK
<1>2. /\ Head(requests) = requests[1]
      /\ \A i \in DOMAIN requests' : /\ i + 1 \in DOMAIN requests /\ i \in Int
                                     /\ requests'[i] = requests[i + 1]
      /\ \A i \in DOMAIN requests : i = 1 \/ (i - 1 \in DOMAIN requests'
                                             /\ requests'[i - 1] = requests[i])
  BY <1>1, TailElements
<1>3. /\ \A i \in Drops' : /\ i + 1 \in Drops /\ i \in Int
                          /\ requests'[i] = requests[i + 1]
      /\ \A i \in Drops : i - 1 \in Drops' /\ requests'[i - 1] = requests[i]
  BY <1>2 DEF Drops
<1>4. Returning' = Returning
  <2>1. ASSUME NEW lane, lane \in Returning'
        PROVE  lane \in Returning
    <3>1. PICK i \in Drops' : lane = requests'[i].lane
      BY <2>1 DEF Returning
    <3>2. i + 1 \in Drops /\ lane = requests[i + 1].lane
      BY <1>3, <3>1
    <3>3. QED
      BY <3>2 DEF Returning
  <2>2. ASSUME NEW lane, lane \in Returning
        PROVE  lane \in Returning'
    <3>1. PICK i \in Drops : lane = requests[i].lane
      BY <2>2 DEF Returning
    <3>2. i - 1 \in Drops' /\ lane = requests'[i - 1].lane
      BY <1>3, <3>1
    <3>3. QED
      BY <3>2 DEF Returning
  <2>3. QED
    BY <2>1, <2>2
<1>5. ASSUME ReturnedOnce, NEW i \in Drops', NEW j \in Drops',
             requests'[i].lane = requests'[j].lane
      PROVE  i = j
  <2>1. requests[i + 1].lane = requests[j + 1].lane
    BY <1>3, <1>5
  <2>2. i + 1 = j + 1
    BY <1>3, <1>5, <2>1 DEF ReturnedOnce
  <2>3. QED
    BY <1>3, <2>2
<1>6. QED
  BY <1>4, <1>5 DEF ReturnedOnce

\* A request that is no drop is sent: the lanes on their way back are the same.
LEMMA SendKeepsReturning ==
  ASSUME TypeOK, NEW r, r.kind # "drop", requests' = Append(requests, r)
  PROVE  /\ Returning' = Returning
         /\ ReturnedOnce => ReturnedOnce'
<1>1. requests \in Seq(Request)
  BY DEF TypeOK
<1>2. Drops' = Drops /\ \A i \in Drops : requests'[i] = requests[i]
  BY <1>1, AppendElements DEF Drops
<1>3. Returning' = Returning
  BY <1>2 DEF Returning
<1>4. ASSUME ReturnedOnce, NEW i \in Drops', NEW j \in Drops',
             requests'[i].lane = requests'[j].lane
      PROVE  i = j
  BY <1>2, <1>4 DEF ReturnedOnce
<1>5. QED
  BY <1>3, <1>4 DEF ReturnedOnce

\* The steps that move no lane.
LEMMA SameSharing ==
  ASSUME SharingInv,
         \A c \in Client : (HoldsLease(c))' => HoldsLease(c) /\ lease'[c] = lease[c],
         phase' # "gone" =>
            /\ phase # "gone"
            /\ UNCHANGED <<taken, borrowed>>
            /\ \A c \in Client : HoldsLease(c) => (HoldsLease(c))'
            /\ Returning' = Returning
            /\ ReturnedOnce => ReturnedOnce',
         streams' = streams
  PROVE  SharingInv'
<1>1. (\A c \in Client : HoldsLease(c) => lease[c].stream < streams)'
  BY DEF SharingInv
<1>2. LeasesAreExclusive'
  BY DEF SharingInv, LeasesAreExclusive
<1>3. ASSUME phase' # "gone"
      PROVE  Leased' = Leased
  BY <1>3 DEF Leased
<1>4. LaneAccounting'
  BY <1>3 DEF SharingInv, LaneAccounting
<1>5. QED
  BY <1>1, <1>2, <1>4 DEF SharingInv

LEMMA InitSharingInv == Init => SharingInv
<1> SUFFICES ASSUME Init PROVE SharingInv
  OBVIOUS
<1>1. /\ Leased = {} /\ Drops = {} /\ Returning = {}
      /\ \A c \in Client : ~HoldsLease(c)
  BY DEF Init, Leased, HoldsLease, Drops, Returning
<1>2. QED
  BY <1>1 DEF Init, SharingInv, LeasesAreExclusive, LaneAccounting, ReturnedOnce

\* The last clone of a lease goes: its lane is on its way back, and nowhere else.
LEMMA DropLeaseKeepsSharing ==
  ASSUME TypeOK, BlockedInv, SharingInv, NEW c \in Client, DropLease(c)
  PROVE  SharingInv'
<1> DEFINE lane == lease[c].lane
<1>1. /\ HoldsLease(c) /\ lease[c] \in Lease /\ ~(HoldsLease(c))'
      /\ \A d \in Client \ {c} : /\ (HoldsLease(d))' <=> HoldsLease(d)
                                 /\ lease'[d] = lease[d]
  BY DEF DropLease, HoldsLease, TypeOK, BlockedInv, HandleInv
<1>2. UNCHANGED <<taken, borrowed, phase, streams>>
  BY DEF DropLease, turnVars
<1>3. \A d \in Client : HoldsLease(d) => lease[d] \in Lease
  BY DEF TypeOK, BlockedInv, HandleInv
<1>4. (\A d \in Client : HoldsLease(d) => lease[d].stream < streams)' /\ LeasesAreExclusive'
  BY <1>1, <1>2 DEF SharingInv, LeasesAreExclusive
<1>5. CASE phase = "gone"
  BY <1>2, <1>4, <1>5 DEF SharingInv, LaneAccounting
<1>6. CASE \E d \in Client \ {c} : lease[d] = lease[c]
  <2>1. PICK d \in Client \ {c} : lease[d] = lease[c] /\ HoldsLease(d)
    BY <1>1, <1>6 DEF BlockedInv, HandleInv
  <2>2. Leased' = Leased
    BY <1>1, <2>1 DEF Leased
  <2>3. requests' = requests
    BY <1>6 DEF DropLease
  <2>4. QED
    BY <1>2, <1>4, <2>2, <2>3 DEF SharingInv, LaneAccounting, Returning, Drops, ReturnedOnce
<1>7. CASE phase # "gone" /\ ~ \E d \in Client \ {c} : lease[d] = lease[c]
  <2> DEFINE r == [kind |-> "drop", lane |-> lane]
  <2>1. requests \in Seq(Request) /\ requests' = Append(requests, r)
    BY <1>7 DEF DropLease, Send, TypeOK
  <2>2. r.kind = "drop" /\ r.lane = lane
    OBVIOUS
  <2> HIDE DEF r
  <2>3. \A d \in Client \ {c} : HoldsLease(d) => lease[d].lane # lane
    <3> SUFFICES ASSUME NEW d \in Client \ {c}, HoldsLease(d), lease[d].lane = lane
                 PROVE  FALSE
      OBVIOUS
    <3>1. lease[d].stream = lease[c].stream
      BY <1>1 DEF SharingInv, LeasesAreExclusive
    <3>2. lease[d] = lease[c]
      BY <1>1, <1>3, <3>1 DEF Lease
    <3>3. QED
      BY <1>7, <3>2
  <2>4. Leased' = Leased \ {lane} /\ lane \in Leased
    <3>1. \A d \in Client : (HoldsLease(d))' <=> HoldsLease(d) /\ d # c
      BY <1>1
    <3> HIDE DEF lane
    <3>2. lane \in Leased
      BY <1>1 DEF Leased, lane
    <3>3. QED
      BY <1>1, <2>3, <3>1, <3>2 DEF Leased, lane
  <2>5. /\ Drops' = Drops \cup {Len(requests) + 1}
        /\ \A i \in Drops : requests'[i] = requests[i]
        /\ requests'[Len(requests) + 1] = r
    BY <2>1, <2>2, AppendElements DEF Drops
  <2>6. Returning' = Returning \cup {lane}
    BY <2>2, <2>5 DEF Returning
  <2>7. lane \notin Returning /\ lane \notin borrowed /\ ReturnedOnce
    BY <1>7, <2>4 DEF SharingInv, LaneAccounting
  <2>8. ReturnedOnce'
    <3>1. \A i \in Drops : requests[i].lane # lane
      BY <2>7 DEF Returning
    <3>2. \A i \in Drops' : \/ i \in Drops /\ requests'[i] = requests[i]
                            \/ i = Len(requests) + 1 /\ requests'[i].lane = lane
      BY <2>2, <2>5
    <3> HIDE DEF lane
    <3>3. ASSUME NEW i \in Drops', NEW j \in Drops', requests'[i].lane = requests'[j].lane
          PROVE  i = j
      BY <2>7, <3>1, <3>2, <3>3 DEF ReturnedOnce
    <3>4. QED
      BY <3>3 DEF ReturnedOnce
  <2>9. LaneAccounting'
    <3> HIDE DEF lane
    <3> QED
      BY <1>2, <1>7, <2>4, <2>6, <2>7, <2>8 DEF SharingInv, LaneAccounting
  <2>10. QED
    BY <1>4, <2>9 DEF SharingInv
<1>8. QED
  BY <1>5, <1>6, <1>7

\* A stream is opened in a lane that nobody holds, returns or borrows.
LEMMA ServeSpawnKeepsSharing ==
  ASSUME TypeOK, BlockedInv, SharingInv, ServeSpawn
  PROVE  SharingInv'
<1>0. PICK c \in Client : c = Head(requests).client
  BY HeadRequest DEF ServeSpawn
<1>1. /\ requests # <<>> /\ requests' = Tail(requests) /\ Head(requests).kind = "spawn"
      /\ phase = "serve"
  BY DEF ServeSpawn, Receive
<1>2. PICK lane \in Lane : /\ IsLowestFree(lane, taken)
                           /\ taken' = TakeLane(taken, lane)
                           /\ lease' = [lease EXCEPT ![c] =
                                          [stream |-> streams, lane |-> lane]]
  BY <1>0 DEF ServeSpawn
<1>3. /\ caller' = [caller EXCEPT ![c] = "ready"]
      /\ streams' = streams + 1 /\ UNCHANGED <<phase, borrowed>>
  BY <1>0 DEF ServeSpawn, turnVars
<1>4. caller[c] = "spawning"
  BY <1>0, <1>1, TailElements DEF TypeOK, BlockedInv, RequestInv
<1>5. /\ lease'[c].stream = streams /\ lease'[c].lane = lane
      /\ ~HoldsLease(c) /\ (HoldsLease(c))'
      /\ \A d \in Client \ {c} : /\ (HoldsLease(d))' <=> HoldsLease(d)
                                 /\ lease'[d] = lease[d]
  BY <1>2, <1>3, <1>4 DEF HoldsLease, TypeOK
<1>6. \A d \in Client : HoldsLease(d) => lease[d] \in Lease
  BY DEF TypeOK, BlockedInv, HandleInv
<1>7. lane \notin taken /\ lane \notin Leased /\ lane \notin Returning /\ lane \notin borrowed
  BY <1>1, <1>2 DEF IsLowestFree, Free, SharingInv, LaneAccounting
<1>8. Leased' = Leased \cup {lane}
  <2>1. \A d \in Client : (HoldsLease(d))' <=> HoldsLease(d) \/ d = c
    BY <1>5
  <2>2. QED
    BY <1>1, <1>5, <2>1 DEF Leased
<1>9. (\A d \in Client : HoldsLease(d) => lease[d].stream < streams)'
  BY <1>3, <1>5, <1>6 DEF SharingInv, TypeOK, Lease
<1>10. LeasesAreExclusive'
  <2>1. \A d \in Client \ {c} : HoldsLease(d) => lease[d].lane # lane
    BY <1>7 DEF Leased
  <2>2. \A d \in Client \ {c} : HoldsLease(d) => lease[d].stream # streams
    BY <1>6 DEF SharingInv, TypeOK, Lease
  <2>3. QED
    BY <1>5, <2>1, <2>2 DEF SharingInv, LeasesAreExclusive
<1>11. LaneAccounting'
  <2>1. Returning' = Returning /\ (ReturnedOnce => ReturnedOnce')
    BY <1>1, PopKeepsReturning
  <2>2. QED
    BY <1>1, <1>2, <1>3, <1>7, <1>8, <2>1 DEF SharingInv, LaneAccounting, TakeLane
<1>12. QED
  BY <1>9, <1>10, <1>11 DEF SharingInv

\* A lane that comes back is on no other way back, so it leaves the table once.
LEMMA ServeDropKeepsSharing ==
  ASSUME TypeOK, SharingInv, ServeDrop
  PROVE  SharingInv'
<1>1. /\ requests \in Seq(Request) /\ requests # <<>> /\ requests' = Tail(requests)
      /\ Head(requests).kind = "drop" /\ phase = "serve"
  BY DEF ServeDrop, Receive, TypeOK
<1>2. /\ taken' = taken \ {Head(requests).lane}
      /\ UNCHANGED <<caller, lease, streams, phase, borrowed>>
  BY DEF ServeDrop, GiveBack, callerVars, turnVars
<1>3. /\ 1 \in DOMAIN requests /\ Head(requests) = requests[1]
      /\ \A i \in DOMAIN requests' : /\ i + 1 \in DOMAIN requests /\ i + 1 # 1 /\ i \in Int
                                     /\ requests'[i] = requests[i + 1]
      /\ \A i \in DOMAIN requests : i = 1 \/ (i - 1 \in DOMAIN requests'
                                             /\ requests'[i - 1] = requests[i])
  BY <1>1, TailElements
<1>4. /\ 1 \in Drops
      /\ \A i \in Drops' : /\ i + 1 \in Drops /\ i + 1 # 1 /\ i \in Int
                           /\ requests'[i] = requests[i + 1]
      /\ \A i \in Drops : i = 1 \/ (i - 1 \in Drops' /\ requests'[i - 1] = requests[i])
  BY <1>1, <1>3 DEF Drops
<1>5. ReturnedOnce /\ taken = Leased \cup Returning \cup borrowed
      /\ Leased \cap Returning = {} /\ Leased \cap borrowed = {}
      /\ Returning \cap borrowed = {}
  BY <1>1 DEF SharingInv, LaneAccounting
<1>6. Head(requests).lane \in Returning /\ Head(requests).lane = requests[1].lane
  BY <1>3, <1>4 DEF Returning
<1>7. Returning' = Returning \ {Head(requests).lane}
  <2>1. ASSUME NEW lane, lane \in Returning'
        PROVE  lane \in Returning \ {Head(requests).lane}
    <3>1. PICK i \in Drops' : lane = requests'[i].lane
      BY <2>1 DEF Returning
    <3>2. i + 1 \in Drops /\ i + 1 # 1 /\ lane = requests[i + 1].lane
      BY <1>4, <3>1
    <3>3. lane # requests[1].lane
      BY <1>4, <1>5, <3>2 DEF ReturnedOnce
    <3>4. QED
      BY <1>6, <3>2, <3>3 DEF Returning
  <2>2. ASSUME NEW lane, lane \in Returning \ {Head(requests).lane}
        PROVE  lane \in Returning'
    <3>1. PICK i \in Drops : lane = requests[i].lane
      BY <2>2 DEF Returning
    <3>2. i - 1 \in Drops' /\ lane = requests'[i - 1].lane
      BY <1>4, <1>6, <2>2, <3>1
    <3>3. QED
      BY <3>2 DEF Returning
  <2>3. QED
    BY <2>1, <2>2
<1>8. ReturnedOnce'
  <2>1. ASSUME NEW i \in Drops', NEW j \in Drops', requests'[i].lane = requests'[j].lane
        PROVE  i = j
    <3>1. requests[i + 1].lane = requests[j + 1].lane
      BY <1>4, <2>1
    <3>2. i + 1 = j + 1
      BY <1>4, <1>5, <3>1 DEF ReturnedOnce
    <3>3. QED
      BY <1>4, <3>2
  <2>2. QED
    BY <2>1 DEF ReturnedOnce
<1>9. Leased' = Leased /\ \A c \in Client : (HoldsLease(c))' <=> HoldsLease(c)
  BY <1>2 DEF Leased, HoldsLease
<1>10. LaneAccounting'
  BY <1>2, <1>5, <1>6, <1>7, <1>8, <1>9 DEF LaneAccounting
<1>11. QED
  BY <1>2, <1>9, <1>10 DEF SharingInv, LeasesAreExclusive

\* A lane is held by one stream, on its way back once, or borrowed by the turn,
\* and the table's flags are exactly these lanes; one step per operation.
LEMMA NextSharingInv ==
  TypeOK /\ BlockedInv /\ PhaseInv /\ SharingInv /\ [Next]_vars => SharingInv'
<1> SUFFICES ASSUME TypeOK, BlockedInv, PhaseInv, SharingInv, [Next]_vars
             PROVE  SharingInv'
  OBVIOUS
<1>1. ASSUME NEW c \in Client, Spawn(c) \/ \E width \in 0 .. MaxWidth : Call(c, width)
      PROVE  SharingInv'
  <2>1. \E r : requests' = Append(requests, r) /\ r.kind # "drop"
    <3>1. CASE Spawn(c)
      <4>1. requests' = Append(requests, [kind |-> "spawn", client |-> c])
        BY <3>1 DEF Spawn, Send
      <4>2. QED
        BY <4>1
    <3>2. CASE \E width \in 0 .. MaxWidth : Call(c, width)
      <4>1. PICK width \in 0 .. MaxWidth : Call(c, width)
        BY <3>2
      <4>2. requests' = Append(requests, [kind |-> "call", client |-> c, lease |-> lease[c],
                                          width |-> width])
        BY <4>1 DEF Call, Send
      <4>3. QED
        BY <4>2
    <3>3. QED
      BY <1>1, <3>1, <3>2
  <2>2. Returning' = Returning /\ (ReturnedOnce => ReturnedOnce')
    BY <2>1, SendKeepsReturning
  <2>3. /\ \A d \in Client : ((HoldsLease(d))' <=> HoldsLease(d)) /\ lease'[d] = lease[d]
        /\ UNCHANGED <<taken, borrowed, phase, streams>>
    BY <1>1 DEF Spawn, Call, HoldsLease, TypeOK, turnVars
  <2>4. QED
    BY <2>2, <2>3, SameSharing
<1>2. ASSUME NEW c \in Client, NEW d \in Client, Clone(c, d)
      PROVE  SharingInv'
  <2>1. /\ HoldsLease(c) /\ (HoldsLease(d))' /\ lease'[d] = lease[c]
        /\ \A e \in Client \ {d} : /\ (HoldsLease(e))' <=> HoldsLease(e)
                                   /\ lease'[e] = lease[e]
        /\ ~HoldsLease(d) /\ c # d
        /\ UNCHANGED <<requests, taken, borrowed, phase, streams>>
    BY <1>2 DEF Clone, HoldsLease, TypeOK, turnVars
  <2>2. Leased' = Leased
    BY <2>1 DEF Leased
  <2>3. LaneAccounting'
    BY <2>1, <2>2 DEF SharingInv, LaneAccounting, Returning, Drops, ReturnedOnce
  <2>4. QED
    BY <2>1, <2>3 DEF SharingInv, LeasesAreExclusive
<1>3. ASSUME NEW c \in Client, DropLease(c)
      PROVE  SharingInv'
  BY <1>3, DropLeaseKeepsSharing
<1>4. CASE ServeSpawn
  BY <1>4, ServeSpawnKeepsSharing
<1>5. CASE ServeDrop
  BY <1>5, ServeDropKeepsSharing
<1>6. CASE RefuseSpawn \/ ServeCall \/ RefuseCall
  <2>1. /\ requests # <<>> /\ requests' = Tail(requests)
        /\ Head(requests).kind \in {"spawn", "call"}
        /\ Head(requests).client \in Client
    BY <1>6, HeadRequest DEF RefuseSpawn, ServeCall, RefuseCall, Receive, CallRequest
  <2>2. Returning' = Returning /\ (ReturnedOnce => ReturnedOnce')
    BY <2>1, PopKeepsReturning
  <2>3. caller[Head(requests).client] =
           IF Head(requests).kind = "spawn" THEN "spawning" ELSE "calling"
    BY <2>1, TailElements DEF TypeOK, BlockedInv, RequestInv
  <2>4. UNCHANGED <<taken, borrowed, phase, streams, lease>>
    BY <1>6 DEF RefuseSpawn, ServeCall, RefuseCall, callerVars, turnVars
  <2>5. \A d \in Client : (HoldsLease(d))' <=> HoldsLease(d)
    BY <1>6, <2>1, <2>3 DEF RefuseSpawn, ServeCall, RefuseCall, Receive, Wake, HoldsLease,
       TypeOK, callerVars
  <2>6. QED
    BY <2>2, <2>4, <2>5, SameSharing
<1>7. CASE SeatInBorrowedLane
  <2>1. PICK lane \in Lane : /\ IsLowestFree(lane, taken)
                             /\ taken' = TakeLane(taken, lane)
                             /\ borrowed' = borrowed \cup {lane}
    BY <1>7 DEF SeatInBorrowedLane
  <2>2. phase = "fill" /\ UNCHANGED <<caller, lease, requests, streams, phase>>
    BY <1>7 DEF SeatInBorrowedLane, PopSeat, callerVars
  <2>3. lane \notin taken
    BY <2>1 DEF IsLowestFree, Free
  <2>4. /\ Leased' = Leased /\ Returning' = Returning /\ ReturnedOnce' = ReturnedOnce
        /\ \A d \in Client : (HoldsLease(d))' <=> HoldsLease(d)
    BY <2>2 DEF Leased, HoldsLease, Returning, Drops, ReturnedOnce
  <2>5. LaneAccounting'
    BY <2>1, <2>2, <2>3, <2>4 DEF SharingInv, LaneAccounting, TakeLane
  <2>6. QED
    BY <2>2, <2>4, <2>5 DEF SharingInv, LeasesAreExclusive
<1>8. CASE RunTurn \/ FailTurn
  <2>1. /\ taken' = taken \ borrowed /\ borrowed' = {} /\ phase = "turn"
        /\ UNCHANGED <<caller, lease, requests, streams>>
    BY <1>8 DEF RunTurn, FailTurn, ReturnBorrowed, GiveBack, callerVars
  <2>2. /\ Leased' = Leased /\ Returning' = Returning /\ ReturnedOnce' = ReturnedOnce
        /\ \A d \in Client : (HoldsLease(d))' <=> HoldsLease(d)
    BY <2>1 DEF Leased, HoldsLease, Returning, Drops, ReturnedOnce
  <2>3. LaneAccounting'
    BY <2>1, <2>2 DEF SharingInv, LaneAccounting
  <2>4. QED
    BY <2>1, <2>2, <2>3 DEF SharingInv, LeasesAreExclusive
<1>9. CASE LandSeat \/ FailSeat
  <2>1. \/ caller' = caller
        \/ \E k \in completers : caller' = [caller EXCEPT ![k.client] = "ready"]
    BY <1>9 DEF LandSeat, FailSeat, Wake
  <2>2. \A k \in completers : k.client \in Client /\ caller[k.client] = "calling"
    BY DEF TypeOK, Completer, BlockedInv, CompleterInv
  <2>3. \A d \in Client : (HoldsLease(d))' <=> HoldsLease(d)
    BY <2>1, <2>2 DEF HoldsLease, TypeOK
  <2>4. UNCHANGED <<taken, borrowed, streams, lease, requests>> /\ phase # "gone"
    BY <1>9 DEF LandSeat, FailSeat
  <2>5. Returning' = Returning /\ ReturnedOnce' = ReturnedOnce
    BY <2>4 DEF Returning, Drops, ReturnedOnce
  <2>6. QED
    BY <2>3, <2>4, <2>5, SameSharing
<1>10. CASE Panic
  <2>1. /\ phase' = "gone" /\ UNCHANGED <<lease, streams>>
        /\ \A d \in Client : (HoldsLease(d))' => HoldsLease(d)
    BY <1>10 DEF Panic, HoldsLease, TypeOK
  <2>2. QED
    BY <2>1, SameSharing
<1>11. CASE \E c \in Client : DropRunnable(c) \/ Joined(c)
  <2>1. UNCHANGED <<lease, requests, phase, taken, borrowed, streams>>
    BY <1>11 DEF DropRunnable, Joined, turnVars
  <2>2. \A d \in Client : (HoldsLease(d))' <=> HoldsLease(d)
    BY <1>11 DEF DropRunnable, Joined, HoldsLease, TypeOK
  <2>3. Returning' = Returning /\ ReturnedOnce' = ReturnedOnce
    BY <2>1 DEF Returning, Drops, ReturnedOnce
  <2>4. QED
    BY <2>1, <2>2, <2>3, SameSharing
<1>12. CASE \/ DropRoot \/ RootJoined \/ Drained \/ Stop \/ Filled
            \/ SeatInItsLane \/ SeatMustWait \/ SkipSeat \/ UNCHANGED vars
  <2>1. UNCHANGED <<caller, lease, requests, taken, borrowed, streams>>
        /\ (phase' # "gone" => phase # "gone")
    BY <1>12 DEF DropRoot, RootJoined, Drained, Stop, Filled, SeatInItsLane, SeatMustWait,
       SkipSeat, PopSeat, vars, callerVars, turnVars
  <2>2. \A d \in Client : (HoldsLease(d))' <=> HoldsLease(d)
    BY <2>1 DEF HoldsLease
  <2>3. Returning' = Returning /\ ReturnedOnce' = ReturnedOnce
    BY <2>1 DEF Returning, Drops, ReturnedOnce
  <2>4. QED
    BY <2>1, <2>2, <2>3, SameSharing
<1>13. QED
  BY <1>1, <1>2, <1>3, <1>4, <1>5, <1>6, <1>7, <1>8, <1>9, <1>10, <1>11, <1>12
     DEF Next, Callers, Worker, Serve, FillTurn, Turn, Answer, Terminated

-----------------------------------------------------------------------------
(* What the seats of a turn belong to.                                      *)

LEMMA InitSeatInv == Init => SeatInv /\ DistinctInv /\ SeatedInv
  BY DEF Init, SeatInv, Owned, DistinctInv, Distinct, Apart, SeatedInv

\* What fill leaves in the queue of seats when it pops one.
LEMMA PopSeatElements ==
  ASSUME TypeOK, PopSeat
  PROVE  /\ phase = "fill" /\ seats \in Seq(Seat)
         /\ 1 \in DOMAIN seats /\ Head(seats) = seats[1]
         /\ \A i \in DOMAIN seats' : /\ i + 1 \in DOMAIN seats /\ i + 1 # 1 /\ i \in Int
                                     /\ seats'[i] = seats[i + 1]
<1>1. phase = "fill" /\ seats \in Seq(Seat) /\ seats # <<>> /\ seats' = Tail(seats)
  BY DEF TypeOK, PopSeat
<1>2. QED
  BY <1>1, TailElements

\* What is left of the turn when the worker hands a seat of it back.
LEMMA HandBackElements ==
  ASSUME TypeOK, HandBack
  PROVE  /\ seated \in Seq(Seat)
         /\ 1 \in DOMAIN seated /\ Head(seated) = seated[1]
         /\ \A i \in DOMAIN seated' : /\ i + 1 \in DOMAIN seated /\ i + 1 # 1 /\ i \in Int
                                      /\ seated'[i] = seated[i + 1]
<1>1. seated \in Seq(Seat) /\ seated # <<>> /\ seated' = Tail(seated)
  BY DEF TypeOK, HandBack
<1>2. QED
  BY <1>1, TailElements

\* The steps that move no seat and no lane under a caller that waits.
LEMMA SameSeats ==
  ASSUME SeatInv, DistinctInv, SeatedInv,
         UNCHANGED <<seats, waiting, seated, completers, borrowed>>,
         \A k \in completers : lease'[k.client] = lease[k.client],
         phase' \in {"fill", "turn"} => phase \in {"fill", "turn"} \/ seated = <<>>,
         phase' = "landed" => phase \in {"fill", "turn", "landed"}
  PROVE  SeatInv' /\ DistinctInv' /\ SeatedInv'
<1>1. SeatInv'
  <2>1. Owned(seats)' /\ Owned(waiting)'
    BY DEF SeatInv, Owned, InItsLane
  <2>2. ASSUME phase' \in {"fill", "turn"}, NEW i \in DOMAIN seated'
        PROVE  \/ seated'[i].lane \in borrowed'
               \/ \E k \in completers' : InItsLane(seated[i], k)'
    BY <2>2 DEF SeatInv, InItsLane
  <2>3. ASSUME phase' \in {"fill", "turn", "landed"}, NEW i \in DOMAIN seated'
        PROVE  \E k \in completers' : Answers(seated'[i], k)
    BY <2>3 DEF SeatInv
  <2>4. QED
    BY <2>1, <2>2, <2>3 DEF SeatInv
<1>2. DistinctInv'
  BY DEF DistinctInv
<1>3. SeatedInv'
  <2>1. CASE seated = <<>>
    BY <2>1, LanesAssumption DEF SeatedInv
  <2>2. CASE seated # <<>>
    BY <2>2 DEF SeatedInv
  <2>3. QED
    BY <2>1, <2>2
<1>4. QED
  BY <1>1, <1>2, <1>3

\* A call joins the queue as one seat per slice, in its caller's lane.
LEMMA ServeCallKeepsSeats ==
  ASSUME TypeOK, BlockedInv, PhaseInv, SeatInv, DistinctInv, SeatedInv, ServeCall
  PROVE  SeatInv' /\ DistinctInv' /\ SeatedInv'
<1> DEFINE call == Head(requests)
           new == [call |-> calls, client |-> call.client, width |-> call.width,
                   served |-> {}]
           e == Explode(call)
<1>1. /\ requests \in Seq(Request) /\ requests # <<>> /\ call \in CallRequest
      /\ call.kind = "call" /\ phase = "serve" /\ seated = <<>> /\ waiting = <<>>
  BY HeadRequest DEF ServeCall, Receive, PhaseInv, TypeOK
<1>2. /\ completers' = completers \cup {new} /\ seats' = seats \o e
      /\ UNCHANGED <<lease, phase, seated, waiting, borrowed>>
  BY DEF ServeCall, callerVars, turnVars
<1>3. call.lease = lease[call.client] /\ call.lease \in Lease
  BY <1>1, TailElements DEF BlockedInv, RequestInv, CallRequest
<1>4. /\ new.call = calls /\ new.client = call.client /\ new.width = call.width
      /\ new.served = {}
  OBVIOUS
<1>5. /\ e \in Seq(Seat)
      /\ \A ix \in DOMAIN e : /\ e[ix].call = calls /\ e[ix].ix = ix
                              /\ ix \in 1 .. call.width
                              /\ e[ix].lane = call.lease.lane
                              /\ e[ix].stream = call.lease.stream
  BY <1>1, ExplodeSeats DEF Explode
<1> HIDE DEF call, new, e
<1>6. \A ix \in DOMAIN e : Answers(e[ix], new) /\ InItsLane(e[ix], new)
  BY <1>3, <1>4, <1>5 DEF Answers, InItsLane, Lease
<1>7. seats \in Seq(Seat)
  BY DEF TypeOK
<1>8. \A i \in DOMAIN seats' :
         \/ i \in DOMAIN seats /\ seats'[i] = seats[i]
         \/ i - Len(seats) \in DOMAIN e /\ i \in Int /\ seats'[i] = e[i - Len(seats)]
  BY <1>2, <1>5, <1>7, ConcatElements
<1>9. Owned(seats)'
  <2>1. ASSUME NEW i \in DOMAIN seats'
        PROVE  \E k \in completers' : Answers(seats'[i], k) /\ InItsLane(seats[i], k)'
    <3>1. CASE i \in DOMAIN seats /\ seats'[i] = seats[i]
      BY <1>2, <3>1 DEF SeatInv, Owned, InItsLane
    <3>2. CASE i - Len(seats) \in DOMAIN e /\ seats'[i] = e[i - Len(seats)]
      BY <1>2, <1>6, <3>2 DEF InItsLane
    <3>3. QED
      BY <1>8, <2>1, <3>1, <3>2
  <2>2. QED
    BY <2>1 DEF Owned
<1>10. SeatInv'
  BY <1>1, <1>2, <1>9 DEF SeatInv, Owned
<1>11. Distinct(seats)'
  <2>1. \A i \in DOMAIN seats : seats[i].call < calls
    BY DEF SeatInv, Owned, Answers, BlockedInv, CompleterInv
  <2>2. calls \in Nat /\ Len(seats) \in Nat /\ Distinct(seats)
    BY <1>7 DEF TypeOK, DistinctInv
  <2>3. ASSUME NEW i \in DOMAIN seats', NEW j \in DOMAIN seats', Clash(seats'[i], seats'[j])
        PROVE  i = j
    <3>1. CASE seats'[i].call = calls
      <4>1. i \notin DOMAIN seats /\ j \notin DOMAIN seats
        <5>1. \A h \in DOMAIN seats : seats[h].call # calls /\ seats'[h] = seats[h]
          BY <1>2, <1>5, <1>7, <2>1, <2>2 DEF SeatInv, Owned, Answers, TypeOK, Completer
        <5>2. QED
          BY <2>3, <3>1, <5>1 DEF Clash
      <4>2. /\ seats'[i].ix = i - Len(seats) /\ seats'[j].ix = j - Len(seats)
            /\ i \in Int /\ j \in Int
        BY <1>5, <1>8, <4>1
      <4>3. i - Len(seats) = j - Len(seats)
        BY <2>3, <4>2 DEF Clash
      <4>4. QED
        BY <2>2, <4>2, <4>3
    <3>2. CASE seats'[i].call # calls
      BY <1>5, <1>8, <2>2, <2>3, <3>2 DEF Clash, Distinct
    <3>3. QED
      BY <3>1, <3>2
  <2>4. QED
    BY <2>3 DEF Distinct
<1>12. DistinctInv' /\ SeatedInv'
  BY <1>1, <1>2, <1>11, LanesAssumption DEF DistinctInv, Distinct, Apart, SeatedInv
<1>13. QED
  BY <1>10, <1>12

\* fill moves the head of the queue into the turn.
LEMMA SeatOneKeepsSeats ==
  ASSUME TypeOK, SeatInv, DistinctInv, SeatedInv, PopSeat, ~TurnIsFull,
         NEW seat, seated' = Append(seated, seat),
         seat.call = Head(seats).call, seat.ix = Head(seats).ix,
         seat.stream = Head(seats).stream,
         borrowed \subseteq borrowed', seat.lane \in borrowed' \/ seat.lane = Head(seats).lane,
         \A i \in DOMAIN seated : seated[i].lane # seat.lane,
         UNCHANGED <<lease, phase, completers, waiting>>
  PROVE  SeatInv' /\ DistinctInv' /\ SeatedInv'
<1>1. /\ phase = "fill" /\ seats \in Seq(Seat)
      /\ 1 \in DOMAIN seats /\ Head(seats) = seats[1]
      /\ \A i \in DOMAIN seats' : /\ i + 1 \in DOMAIN seats /\ i + 1 # 1 /\ i \in Int
                                  /\ seats'[i] = seats[i + 1]
  BY PopSeatElements
<1>2. seated \in Seq(Seat) /\ Len(seated) \in Nat
  BY DEF TypeOK
<1>3. \A i \in DOMAIN seated' : \/ i \in DOMAIN seated /\ seated'[i] = seated[i]
                                \/ i = Len(seated) + 1 /\ seated'[i] = seat
  BY <1>2, AppendElements
<1>4. PICK k \in completers : Answers(Head(seats), k) /\ InItsLane(Head(seats), k)
  BY <1>1 DEF SeatInv, Owned
<1>5. /\ Answers(seat, k)
      /\ seat.lane \notin borrowed' => InItsLane(seat, k)
  BY <1>4 DEF Answers, InItsLane
<1>6. Owned(seats)' /\ Owned(waiting)'
  BY <1>1 DEF SeatInv, Owned, InItsLane
<1>7. ASSUME NEW i \in DOMAIN seated'
      PROVE  /\ \/ seated'[i].lane \in borrowed'
                \/ \E m \in completers' : InItsLane(seated[i], m)'
             /\ \E m \in completers' : Answers(seated'[i], m)
  <2>1. CASE i \in DOMAIN seated /\ seated'[i] = seated[i]
    BY <1>1, <2>1 DEF SeatInv, InItsLane
  <2>2. CASE seated'[i] = seat
    BY <1>5, <2>2 DEF InItsLane
  <2>3. QED
    BY <1>3, <1>7, <2>1, <2>2
<1>8. SeatInv'
  BY <1>6, <1>7 DEF SeatInv
<1>9. Distinct(seats)' /\ Apart(seats, waiting)'
  BY <1>1 DEF DistinctInv, Distinct, Apart
<1>10. \A i \in DOMAIN seated : ~Clash(seat, seated[i]) /\ ~Clash(seated[i], seat)
  BY <1>1 DEF DistinctInv, Apart, Clash
<1>11. \A i \in DOMAIN waiting : ~Clash(waiting[i], seat)
  BY <1>1 DEF DistinctInv, Apart, Clash
<1>12. \A i \in DOMAIN seats' : ~Clash(seats'[i], seat)
  BY <1>1 DEF DistinctInv, Distinct, Clash
<1>13. Distinct(seated)'
  BY <1>3, <1>10 DEF DistinctInv, Distinct
<1>14. Apart(waiting, seated)'
  BY <1>3, <1>11 DEF DistinctInv, Apart
<1>15. Apart(seats, seated)'
  BY <1>1, <1>3, <1>12 DEF DistinctInv, Apart
<1>16. DistinctInv'
  BY <1>9, <1>13, <1>14, <1>15 DEF DistinctInv, Distinct
<1>17. SeatedInv'
  <2>1. Len(seated') <= MaxSeats
    BY <1>2, LanesAssumption, MaxLanesAssumption DEF TurnIsFull
  <2>2. \A i, j \in DOMAIN seated' : seated'[i].lane = seated'[j].lane => i = j
    BY <1>1, <1>3 DEF SeatedInv
  <2>3. QED
    BY <2>1, <2>2 DEF SeatedInv
<1>18. QED
  BY <1>8, <1>16, <1>17

\* fill puts the head of the queue back, behind those it has put back already.
LEMMA SeatMustWaitKeepsSeats ==
  ASSUME TypeOK, SeatInv, DistinctInv, SeatedInv, SeatMustWait
  PROVE  SeatInv' /\ DistinctInv' /\ SeatedInv'
<1>1. /\ phase = "fill" /\ seats \in Seq(Seat)
      /\ 1 \in DOMAIN seats /\ Head(seats) = seats[1]
      /\ \A i \in DOMAIN seats' : /\ i + 1 \in DOMAIN seats /\ i + 1 # 1 /\ i \in Int
                                  /\ seats'[i] = seats[i + 1]
  BY PopSeatElements DEF SeatMustWait
<1>2. /\ waiting \in Seq(Seat) /\ waiting' = Append(waiting, Head(seats))
      /\ UNCHANGED <<lease, phase, completers, seated, borrowed>>
  BY DEF SeatMustWait, TypeOK, callerVars
<1>3. \A i \in DOMAIN waiting' :
         \/ i \in DOMAIN waiting /\ waiting'[i] = waiting[i]
         \/ i = Len(waiting) + 1 /\ waiting'[i] = seats[1]
  BY <1>1, <1>2, AppendElements
<1>4. Owned(seats)' /\ Owned(waiting)'
  <2>1. Owned(seats)'
    BY <1>1, <1>2 DEF SeatInv, Owned, InItsLane
  <2>2. ASSUME NEW i \in DOMAIN waiting'
        PROVE  \E k \in completers' : Answers(waiting'[i], k) /\ InItsLane(waiting[i], k)'
    BY <1>1, <1>2, <1>3 DEF SeatInv, Owned, InItsLane
  <2>3. QED
    BY <2>1, <2>2 DEF Owned
<1>5. SeatInv'
  BY <1>2, <1>4 DEF SeatInv, InItsLane
<1>6. DistinctInv'
  <2>1. Distinct(seats)' /\ Distinct(seated)' /\ Apart(seats, seated)'
    BY <1>1, <1>2 DEF DistinctInv, Distinct, Apart
  <2>2. \A i \in DOMAIN waiting : ~Clash(seats[1], waiting[i]) /\ ~Clash(waiting[i], seats[1])
    BY <1>1 DEF DistinctInv, Apart, Clash
  <2>3. Distinct(waiting)'
    BY <1>3, <2>2 DEF DistinctInv, Distinct
  <2>4. \A i \in DOMAIN seats' : ~Clash(seats'[i], seats[1])
    BY <1>1 DEF DistinctInv, Distinct
  <2>5. Apart(seats, waiting)'
    BY <1>1, <1>3, <2>4 DEF DistinctInv, Apart
  <2>6. Apart(waiting, seated)'
    BY <1>1, <1>2, <1>3 DEF DistinctInv, Apart
  <2>7. QED
    BY <2>1, <2>3, <2>5, <2>6 DEF DistinctInv
<1>7. SeatedInv'
  BY <1>2 DEF SeatedInv
<1>8. QED
  BY <1>5, <1>6, <1>7

\* A seat lands: its slot is filled, the other seats of its call stay owed.
LEMMA LandSeatKeepsSeats ==
  ASSUME TypeOK, BlockedInv, PhaseInv, SeatInv, DistinctInv, LandSeat
  PROVE  SeatInv' /\ DistinctInv' /\ SeatedInv'
<1> DEFINE head == seated[1]
<1>1. /\ HandBack /\ phase = "landed" /\ waiting = <<>>
      /\ UNCHANGED <<lease, seats, waiting>>
      /\ phase' \in {"serve", "landed"}
  BY DEF LandSeat, PhaseInv, HandBack
<1>2. /\ seated \in Seq(Seat) /\ 1 \in DOMAIN seated /\ Head(seated) = head
      /\ \A i \in DOMAIN seated' : /\ i + 1 \in DOMAIN seated /\ i + 1 # 1 /\ i \in Int
                                   /\ seated'[i] = seated[i + 1]
  BY <1>1, HandBackElements
<1>3. PICK k \in completers :
         /\ k.call = head.call
         /\ LET filled == Fill(k, head.ix) IN
            IF IsFull(filled)
            THEN completers' = completers \ {k}
            ELSE completers' = (completers \ {k}) \cup {filled}
  BY <1>2 DEF LandSeat
<1> DEFINE filled == Fill(k, head.ix)
<1>4. /\ k \in Completer /\ filled.call = k.call /\ filled.client = k.client
      /\ filled.width = k.width /\ filled.served = k.served \cup {head.ix}
  BY DEF TypeOK, Completer, Fill
<1>5. IsFull(filled) <=> k.served \cup {head.ix} = 1 .. k.width
  BY <1>4 DEF IsFull
<1>6. completers' = IF IsFull(filled) THEN completers \ {k}
                                      ELSE (completers \ {k}) \cup {filled}
  BY <1>3
<1> HIDE DEF filled, head
\* A seat that is no other than the one that lands is still answered.
<1>7. ASSUME NEW s, ~Clash(s, head), NEW m \in completers, Answers(s, m)
      PROVE  \E n \in completers' : Answers(s, n) /\ n.client = m.client
  <2>1. CASE m # k
    BY <1>6, <1>7, <2>1
  <2>2. CASE m = k
    <3>1. s.ix # head.ix /\ s.ix \in (1 .. k.width) \ k.served
      BY <1>3, <1>7, <2>2 DEF Answers, Clash
    <3>2. ~IsFull(filled)
      BY <1>5, <3>1
    <3>3. Answers(s, filled)
      BY <1>4, <1>7, <2>2, <3>1 DEF Answers
    <3>4. QED
      BY <1>4, <1>6, <2>2, <3>2, <3>3
  <2>3. QED
    BY <2>1, <2>2
<1>8. Owned(seats)' /\ Owned(waiting)'
  <2>1. ASSUME NEW i \in DOMAIN seats
        PROVE  \E n \in completers' : Answers(seats[i], n) /\ InItsLane(seats[i], n)'
    <3>1. PICK m \in completers : Answers(seats[i], m) /\ InItsLane(seats[i], m)
      BY DEF SeatInv, Owned
    <3>2. ~Clash(seats[i], head)
      BY <1>2 DEF DistinctInv, Apart, head
    <3>3. PICK n \in completers' : Answers(seats[i], n) /\ n.client = m.client
      BY <1>7, <3>1, <3>2
    <3>4. QED
      BY <1>1, <3>1, <3>3 DEF InItsLane
  <2>2. QED
    BY <1>1, <2>1 DEF Owned
<1>9. ASSUME NEW i \in DOMAIN seated'
      PROVE  \E n \in completers' : Answers(seated'[i], n)
  <2>1. ~Clash(seated[i + 1], head)
    BY <1>2 DEF DistinctInv, Distinct, head
  <2>2. PICK m \in completers : Answers(seated[i + 1], m)
    BY <1>1, <1>2 DEF SeatInv
  <2>3. QED
    BY <1>2, <1>7, <2>1, <2>2
<1>10. SeatInv'
  BY <1>1, <1>8, <1>9 DEF SeatInv
<1>11. DistinctInv'
  <2>1. Distinct(seated)'
    BY <1>2 DEF DistinctInv, Distinct
  <2>2. Apart(seats, seated)' /\ Apart(waiting, seated)'
    BY <1>1, <1>2 DEF DistinctInv, Apart
  <2>3. QED
    BY <1>1, <2>1, <2>2 DEF DistinctInv, Distinct, Apart
<1>12. SeatedInv'
  BY <1>1 DEF SeatedInv
<1>13. QED
  BY <1>10, <1>11, <1>12

\* A seat of a turn that failed fails its call, and takes the seats of that
\* call, and no others, out of the queue.
LEMMA FailSeatKeepsSeats ==
  ASSUME TypeOK, BlockedInv, PhaseInv, SeatInv, DistinctInv, FailSeat
  PROVE  SeatInv' /\ DistinctInv' /\ SeatedInv'
<1>1. /\ HandBack /\ phase = "failed" /\ waiting = <<>>
      /\ UNCHANGED <<lease, waiting>>
      /\ phase' \in {"serve", "failed"}
  BY DEF FailSeat, PhaseInv, HandBack
<1>2. \A i \in DOMAIN seated' : /\ i + 1 \in DOMAIN seated /\ i + 1 # 1 /\ i \in Int
                                /\ seated'[i] = seated[i + 1]
  BY <1>1, HandBackElements
<1>3. PICK k \in completers : completers' = completers \ {k} /\ seats' = Retain(seats, k.call)
  BY DEF FailSeat
<1>4. PICK at \in [DOMAIN seats' -> DOMAIN seats] :
         /\ \A j \in DOMAIN seats' : seats'[j] = seats[at[j]] /\ seats[at[j]].call # k.call
         /\ \A i, j \in DOMAIN seats' : at[i] = at[j] => i = j
  <2>1. \E at \in [DOMAIN Retain(seats, k.call) -> DOMAIN seats] :
           /\ \A j \in DOMAIN Retain(seats, k.call) :
                Retain(seats, k.call)[j] = seats[at[j]] /\ seats[at[j]].call # k.call
           /\ \A i, j \in DOMAIN Retain(seats, k.call) : at[i] = at[j] => i = j
    <3>1. seats \in Seq(Seat)
      BY DEF TypeOK
    <3>2. QED
      BY <3>1, RetainElements
  <2>2. QED
    BY <1>3, <2>1
<1>5. \A j \in DOMAIN seats' : at[j] \in DOMAIN seats
  BY <1>4
<1>6. ASSUME NEW j \in DOMAIN seats'
      PROVE  \E m \in completers' : Answers(seats'[j], m) /\ InItsLane(seats[j], m)'
  <2>1. PICK m \in completers : Answers(seats[at[j]], m) /\ InItsLane(seats[at[j]], m)
    BY <1>5 DEF SeatInv, Owned
  <2>2. m # k
    BY <1>4, <2>1 DEF Answers
  <2>3. QED
    BY <1>1, <1>3, <1>4, <2>1, <2>2 DEF InItsLane
<1>7. SeatInv'
  BY <1>1, <1>6 DEF SeatInv, Owned
<1>8. DistinctInv'
  <2>1. Distinct(seated)'
    BY <1>2 DEF DistinctInv, Distinct
  <2>2. Distinct(seats)'
    BY <1>4, <1>5 DEF DistinctInv, Distinct
  <2>3. Apart(seats, seated)'
    BY <1>2, <1>4, <1>5 DEF DistinctInv, Apart
  <2>4. Distinct(waiting)' /\ Apart(waiting, seated)' /\ Apart(seats, waiting)'
    BY <1>1 DEF Distinct, Apart
  <2>5. QED
    BY <2>1, <2>2, <2>3, <2>4 DEF DistinctInv
<1>9. SeatedInv'
  BY <1>1 DEF SeatedInv
<1>10. QED
  BY <1>7, <1>8, <1>9

\* The lanes of a turn being filled are lanes that streams hold.
LEMMA SeatedLanesTaken ==
  ASSUME TypeOK, BlockedInv, SharingInv, SeatInv, phase \in {"fill", "turn"},
         NEW i \in DOMAIN seated
  PROVE  seated[i].lane \in taken
<1>1. taken = Leased \cup Returning \cup borrowed
  BY DEF SharingInv, LaneAccounting
<1>2. CASE seated[i].lane \in borrowed
  BY <1>1, <1>2
<1>3. CASE \E k \in completers : InItsLane(seated[i], k)
  <2>1. PICK k \in completers : InItsLane(seated[i], k)
    BY <1>3
  <2>2. k.client \in Client /\ HoldsLease(k.client)
    BY DEF TypeOK, Completer, BlockedInv, CompleterInv, HoldsLease
  <2>3. lease[k.client].lane = seated[i].lane
    BY <2>1 DEF InItsLane
  <2>4. QED
    BY <1>1, <2>2, <2>3 DEF Leased
<1>4. QED
  BY <1>2, <1>3 DEF SeatInv

\* Every seat under way answers a call that waits for it; one step per operation.
LEMMA NextSeatInv ==
  TypeOK /\ BlockedInv /\ PhaseInv /\ SharingInv /\ SeatInv /\ DistinctInv /\ SeatedInv
  /\ [Next]_vars => SeatInv' /\ DistinctInv' /\ SeatedInv'
<1> SUFFICES ASSUME TypeOK, BlockedInv, PhaseInv, SharingInv, SeatInv, DistinctInv, SeatedInv,
                    [Next]_vars
             PROVE  SeatInv' /\ DistinctInv' /\ SeatedInv'
  OBVIOUS
<1>0. \A k \in completers : k.client \in Client /\ caller[k.client] = "calling"
  BY DEF TypeOK, Completer, BlockedInv, CompleterInv
<1>1. ASSUME NEW c \in Client,
             \/ Spawn(c) \/ DropLease(c) \/ DropRunnable(c) \/ Joined(c)
             \/ \E width \in 0 .. MaxWidth : Call(c, width)
             \/ \E d \in Client : Clone(d, c)
      PROVE  SeatInv' /\ DistinctInv' /\ SeatedInv'
  <2>1. UNCHANGED <<seats, waiting, seated, completers, borrowed, phase>>
    BY <1>1 DEF Spawn, DropLease, DropRunnable, Joined, Call, Clone, queueVars, turnVars
  <2>2. \A k \in completers : lease'[k.client] = lease[k.client]
    BY <1>0, <1>1 DEF Spawn, DropLease, DropRunnable, Joined, Call, Clone, TypeOK
  <2>3. QED
    BY <2>1, <2>2, SameSeats
<1>2. CASE \/ DropRoot \/ RootJoined \/ RefuseSpawn \/ RefuseCall \/ ServeDrop
           \/ Drained \/ Stop \/ RunTurn \/ FailTurn \/ UNCHANGED vars
  <2>1. UNCHANGED <<seats, waiting, seated, completers, lease>>
    BY <1>2 DEF DropRoot, RootJoined, RefuseSpawn, RefuseCall, ServeDrop, Drained, Stop, RunTurn,
       FailTurn, vars, Wake, callerVars, queueVars, turnVars
  <2>2. CASE RunTurn \/ FailTurn
    <3>1. phase = "turn" /\ phase' \in {"landed", "failed"}
      BY <2>2 DEF RunTurn, FailTurn
    <3>2. QED
      BY <2>1, <3>1 DEF SeatInv, Owned, InItsLane, DistinctInv, SeatedInv
  <2>3. CASE ~(RunTurn \/ FailTurn)
    <3>1. borrowed' = borrowed
      BY <1>2, <2>3 DEF DropRoot, RootJoined, RefuseSpawn, RefuseCall, ServeDrop, Drained, Stop,
         vars, turnVars
    <3>2. phase' = phase \/ (phase = "serve" /\ phase' \in {"fill", "gone"})
      BY <1>2, <2>3 DEF DropRoot, RootJoined, RefuseSpawn, RefuseCall, ServeDrop, Drained, Stop,
         vars
    <3>3. phase = "serve" => seated = <<>>
      BY DEF PhaseInv
    <3>4. QED
      BY <2>1, <3>1, <3>2, <3>3, SameSeats
  <2>4. QED
    BY <2>2, <2>3
<1>3. CASE ServeSpawn
  <2>1. /\ requests # <<>> /\ Head(requests).kind = "spawn" /\ Head(requests).client \in Client
        /\ UNCHANGED <<seats, waiting, seated, completers, borrowed, phase>>
    BY <1>3, HeadRequest DEF ServeSpawn, Receive, queueVars, turnVars
  <2>2. caller[Head(requests).client] = "spawning"
    BY <2>1, TailElements DEF TypeOK, BlockedInv, RequestInv
  <2>3. \A k \in completers : lease'[k.client] = lease[k.client]
    BY <1>0, <1>3, <2>2 DEF ServeSpawn, TypeOK
  <2>4. QED
    BY <2>1, <2>3, SameSeats
<1>4. CASE ServeCall
  BY <1>4, ServeCallKeepsSeats
<1>5. CASE SeatInItsLane
  <2>1. \A i \in DOMAIN seated : seated[i].lane # Head(seats).lane
    BY <1>5 DEF SeatInItsLane, SeatedLanes
  <2>2. /\ PopSeat /\ ~TurnIsFull /\ seated' = Append(seated, Head(seats))
        /\ UNCHANGED <<lease, phase, completers, waiting, borrowed>>
    BY <1>5 DEF SeatInItsLane, callerVars
  <2>3. QED
    BY <2>1, <2>2, SeatOneKeepsSeats
<1>6. CASE SeatInBorrowedLane
  <2>1. PICK lane \in Lane : /\ IsLowestFree(lane, taken)
                             /\ borrowed' = borrowed \cup {lane}
                             /\ seated' = Append(seated, [Head(seats) EXCEPT !.lane = lane])
    BY <1>6 DEF SeatInBorrowedLane
  <2> DEFINE seat == [Head(seats) EXCEPT !.lane = lane]
  <2>2. /\ PopSeat /\ ~TurnIsFull
        /\ UNCHANGED <<lease, phase, completers, waiting>>
    BY <1>6 DEF SeatInBorrowedLane, callerVars
  <2>3. /\ seat.call = Head(seats).call /\ seat.ix = Head(seats).ix
        /\ seat.stream = Head(seats).stream /\ seat.lane = lane
    BY <2>2, HeadSeat DEF Seat
  <2>4. lane \notin taken /\ phase = "fill"
    BY <2>1, <2>2 DEF IsLowestFree, Free, PopSeat
  <2>5. \A i \in DOMAIN seated : seated[i].lane # lane
    BY <2>4, SeatedLanesTaken
  <2>6. borrowed \subseteq borrowed' /\ lane \in borrowed' /\ seated' = Append(seated, seat)
    BY <2>1
  <2> HIDE DEF seat
  <2>7. QED
    BY <2>2, <2>3, <2>5, <2>6, SeatOneKeepsSeats
<1>7. CASE SeatMustWait
  BY <1>7, SeatMustWaitKeepsSeats
<1>8. CASE Filled
  <2>1. /\ phase = "fill" /\ seats = <<>> /\ seats' = waiting /\ waiting' = <<>>
        /\ UNCHANGED <<lease, completers, seated, borrowed>>
    BY <1>8 DEF Filled, callerVars
  <2>2. SeatInv' /\ SeatedInv'
    BY <2>1 DEF SeatInv, SeatedInv, Owned, InItsLane
  <2>3. DistinctInv'
    BY <2>1 DEF DistinctInv, Distinct, Apart
  <2>4. QED
    BY <2>2, <2>3
<1>9. CASE LandSeat
  BY <1>9, LandSeatKeepsSeats
<1>10. CASE FailSeat
  BY <1>10, FailSeatKeepsSeats
<1>11. CASE SkipSeat
  <2>1. /\ HandBack /\ phase \in {"landed", "failed"}
        /\ UNCHANGED <<lease, seats, completers, waiting>>
        /\ phase' \in {"serve", phase}
    BY <1>11 DEF SkipSeat, HandBack, callerVars, queueVars
  <2>2. \A i \in DOMAIN seated' : /\ i + 1 \in DOMAIN seated /\ i + 1 # 1 /\ i \in Int
                                  /\ seated'[i] = seated[i + 1]
    BY <2>1, HandBackElements
  <2>3. SeatInv'
    BY <2>1, <2>2 DEF SeatInv, Owned, InItsLane
  <2>4. DistinctInv'
    <3>1. Distinct(seated)'
      BY <2>2 DEF DistinctInv, Distinct
    <3>2. Apart(seats, seated)' /\ Apart(waiting, seated)'
      BY <2>1, <2>2 DEF DistinctInv, Apart
    <3>3. QED
      BY <2>1, <3>1, <3>2 DEF DistinctInv, Distinct, Apart
  <2>5. SeatedInv'
    BY <2>1 DEF SeatedInv
  <2>6. QED
    BY <2>3, <2>4, <2>5
<1>12. CASE Panic
  <2>1. seats' = <<>> /\ seated' = <<>> /\ waiting' = <<>> /\ phase' = "gone"
    BY <1>12 DEF Panic, PhaseInv
  <2>2. QED
    BY <2>1 DEF SeatInv, Owned, DistinctInv, Distinct, Apart, SeatedInv
<1>13. QED
  BY <1>1, <1>2, <1>3, <1>4, <1>5, <1>6, <1>7, <1>8, <1>9, <1>10, <1>11, <1>12
     DEF Next, Callers, Worker, Serve, FillTurn, Turn, Answer, Terminated

\* A seat that was not given a borrowed lane sits in the lane of its stream.
LEMMA SeatedByItsStream ==
  ASSUME TypeOK, BlockedInv, SeatInv, phase \in {"fill", "turn"},
         NEW i \in DOMAIN seated, seated[i].lane \notin borrowed
  PROVE  \E c \in Client : /\ HoldsLease(c)
                           /\ lease[c].lane = seated[i].lane
                           /\ lease[c].stream = seated[i].stream
<1>1. PICK k \in completers : InItsLane(seated[i], k)
  BY DEF SeatInv
<1>2. k.client \in Client /\ HoldsLease(k.client)
  BY DEF TypeOK, Completer, BlockedInv, CompleterInv, HoldsLease
<1>3. lease[k.client].lane = seated[i].lane /\ lease[k.client].stream = seated[i].stream
  BY <1>1 DEF InItsLane
<1>4. QED
  BY <1>2, <1>3

\* What the lane of a live stream absorbs in a turn is a seat of that stream.
LEMMA AbsorbOwnStream ==
  ASSUME TypeOK, BlockedInv, SharingInv, SeatInv, phase = "turn", Absorb,
         NEW c \in Client, HoldsLease(c)
  PROVE  \/ history'[lease[c].lane] = history[lease[c].lane]
         \/ \E e \in Absorbed : /\ e.stream = lease[c].stream
                                /\ history'[lease[c].lane] = Append(history[lease[c].lane], e)
<1> DEFINE lane == lease[c].lane
           e == [call |-> SeatOf(lane).call, ix |-> SeatOf(lane).ix,
                 stream |-> SeatOf(lane).stream]
<1>1. lane \in Lane
  BY DEF TypeOK, BlockedInv, HandleInv, Lease
<1>2. history'[lane] = IF lane \in SeatedLanes THEN Append(history[lane], e)
                                               ELSE history[lane]
  BY <1>1 DEF Absorb
<1>3. ASSUME lane \in SeatedLanes
      PROVE  e \in Absorbed /\ e.stream = lease[c].stream
  <2>1. PICK i \in DOMAIN seated : seated[i].lane = lane /\ SeatOf(lane) = seated[i]
    BY <1>3 DEF SeatedLanes, SeatOf
  <2>2. SeatOf(lane) \in Seat
    BY <2>1 DEF TypeOK
  <2>3. lane \notin borrowed
    <3>1. lane \in Leased
      BY DEF Leased
    <3>2. QED
      BY <3>1 DEF SharingInv, LaneAccounting
  <2>4. PICK d \in Client : /\ HoldsLease(d) /\ lease[d].lane = lane
                            /\ lease[d].stream = seated[i].stream
    BY <2>1, <2>3, SeatedByItsStream
  <2>5. seated[i].stream = lease[c].stream
    BY <2>4 DEF SharingInv, LeasesAreExclusive
  <2>6. QED
    BY <2>1, <2>2, <2>5 DEF Seat, Absorbed
<1> HIDE DEF lane, e
<1>4. QED
  BY <1>2, <1>3 DEF lane

LEMMA InitIsolationInv == Init => IsolationInv
  BY DEF Init, IsolationInv, HoldsLease

\* A live lane holds its stream's seats, a borrowed lane nothing until the turn
\* runs; one step per operation that resets, advances or hands over a lane.
LEMMA NextIsolationInv ==
  TypeOK /\ BlockedInv /\ PhaseInv /\ SharingInv /\ SeatInv /\ IsolationInv
  /\ [Next]_vars => IsolationInv'
<1> SUFFICES ASSUME TypeOK, BlockedInv, PhaseInv, SharingInv, SeatInv, IsolationInv,
                    [Next]_vars
             PROVE  IsolationInv'
  OBVIOUS
<1> DEFINE Own(c) == \A k \in DOMAIN history[lease[c].lane] :
                        history[lease[c].lane][k].stream = lease[c].stream
<1>0. \A c \in Client : HoldsLease(c) =>
         lease[c] \in Lease /\ lease[c].lane \in Leased /\ lease[c].lane \in Lane
  BY DEF TypeOK, BlockedInv, HandleInv, Leased, Lease
<1>1. ASSUME UNCHANGED <<history, borrowed>>,
             \A c \in Client : (HoldsLease(c))' => HoldsLease(c) /\ lease'[c] = lease[c]
      PROVE  IsolationInv'
  BY <1>1 DEF IsolationInv
<1>2. ASSUME NEW c \in Client,
             \/ Spawn(c) \/ DropLease(c) \/ DropRunnable(c) \/ Joined(c)
             \/ \E width \in 0 .. MaxWidth : Call(c, width)
      PROVE  IsolationInv'
  <2>1. UNCHANGED <<history, borrowed>>
    BY <1>2 DEF Spawn, DropLease, DropRunnable, Joined, Call, turnVars
  <2>2. \A d \in Client : (HoldsLease(d))' => HoldsLease(d) /\ lease'[d] = lease[d]
    BY <1>2 DEF Spawn, DropLease, DropRunnable, Joined, Call, HoldsLease, TypeOK
  <2>3. QED
    BY <1>1, <2>1, <2>2
<1>3. ASSUME NEW c \in Client, NEW d \in Client, Clone(c, d)
      PROVE  IsolationInv'
  <2>1. UNCHANGED <<history, borrowed>> /\ HoldsLease(c) /\ lease'[d] = lease[c]
    BY <1>3 DEF Clone, HoldsLease, TypeOK, turnVars
  <2>2. \A e \in Client \ {d} : (HoldsLease(e))' => HoldsLease(e) /\ lease'[e] = lease[e]
    BY <1>3 DEF Clone, HoldsLease, TypeOK
  <2>3. QED
    BY <2>1, <2>2 DEF IsolationInv
<1>4. CASE ServeSpawn
  <2>1. PICK c \in Client : c = Head(requests).client
    BY <1>4, HeadRequest DEF ServeSpawn
  <2>2. PICK lane \in Lane : /\ IsLowestFree(lane, taken) /\ Reset(lane)
                             /\ lease' = [lease EXCEPT ![c] =
                                            [stream |-> streams, lane |-> lane]]
    BY <1>4, <2>1 DEF ServeSpawn
  <2>3. /\ caller' = [caller EXCEPT ![c] = "ready"]
        /\ borrowed' = borrowed /\ phase # "gone"
    BY <1>4, <2>1 DEF ServeSpawn, Receive, turnVars
  <2>4. lane \notin Leased /\ lane \notin borrowed
    BY <2>2, <2>3 DEF IsLowestFree, Free, SharingInv, LaneAccounting
  <2>5. \A d \in Client \ {c} : (HoldsLease(d))' => HoldsLease(d) /\ lease'[d] = lease[d]
    BY <2>2, <2>3 DEF HoldsLease, TypeOK
  <2>6. /\ history'[lane] = <<>>
        /\ \A other \in Lane \ {lane} : history'[other] = history[other]
    BY <2>2 DEF Reset, TypeOK
  <2>7. lease'[c].lane = lane
    BY <2>2 DEF TypeOK
  <2>8. \A d \in Client \ {c} : HoldsLease(d) => history'[lease[d].lane] = history[lease[d].lane]
    BY <1>0, <2>4, <2>6
  <2>9. \A other \in borrowed : history'[other] = history[other]
    BY <2>4, <2>6 DEF TypeOK
  <2>10. QED
    BY <2>3, <2>5, <2>6, <2>7, <2>8, <2>9 DEF IsolationInv
<1>5. CASE SeatInBorrowedLane
  <2>1. PICK lane \in Lane : /\ IsLowestFree(lane, taken) /\ Reset(lane)
                             /\ borrowed' = borrowed \cup {lane}
    BY <1>5 DEF SeatInBorrowedLane
  <2>2. UNCHANGED <<caller, lease>> /\ phase = "fill"
    BY <1>5 DEF SeatInBorrowedLane, PopSeat, callerVars
  <2>3. lane \notin Leased
    BY <2>1, <2>2 DEF IsLowestFree, Free, SharingInv, LaneAccounting
  <2>4. /\ history'[lane] = <<>>
        /\ \A other \in Lane \ {lane} : history'[other] = history[other]
    BY <2>1 DEF Reset, TypeOK
  <2>5. \A c \in Client : HoldsLease(c) => history'[lease[c].lane] = history[lease[c].lane]
    BY <1>0, <2>3, <2>4
  <2>6. \A other \in borrowed' : history'[other] = <<>>
    BY <2>1, <2>4 DEF IsolationInv, TypeOK
  <2>7. QED
    BY <2>2, <2>5, <2>6 DEF IsolationInv, HoldsLease
<1>6. CASE RunTurn \/ FailTurn
  <2>1. /\ phase = "turn" /\ borrowed' = {} /\ UNCHANGED <<caller, lease>>
        /\ Absorb \/ history' = history
    BY <1>6 DEF RunTurn, FailTurn, ReturnBorrowed, callerVars
  <2>2. ASSUME NEW c \in Client, HoldsLease(c)
        PROVE  \A k \in DOMAIN history'[lease[c].lane] :
                  history'[lease[c].lane][k].stream = lease[c].stream
    <3>1. Own(c)
      BY <2>2 DEF IsolationInv
    <3>2. CASE history'[lease[c].lane] = history[lease[c].lane]
      BY <3>1, <3>2
    <3>3. CASE \E e \in Absorbed :
                  /\ e.stream = lease[c].stream
                  /\ history'[lease[c].lane] = Append(history[lease[c].lane], e)
      <4>1. PICK e \in Absorbed :
                  /\ e.stream = lease[c].stream
                  /\ history'[lease[c].lane] = Append(history[lease[c].lane], e)
        BY <3>3
      <4>2. history[lease[c].lane] \in Seq(Absorbed)
        BY <1>0, <2>2 DEF TypeOK
      <4>3. \A k \in DOMAIN history'[lease[c].lane] :
               \/ /\ k \in DOMAIN history[lease[c].lane]
                  /\ history'[lease[c].lane][k] = history[lease[c].lane][k]
               \/ history'[lease[c].lane][k] = e
        BY <4>1, <4>2, AppendElements
      <4>4. QED
        BY <3>1, <4>1, <4>3
    <3>4. QED
      BY <2>1, <2>2, <3>2, <3>3, AbsorbOwnStream
  <2>3. QED
    BY <2>1, <2>2 DEF IsolationInv, HoldsLease
<1>7. CASE LandSeat \/ FailSeat
  <2>1. \/ caller' = caller
        \/ \E k \in completers : caller' = [caller EXCEPT ![k.client] = "ready"]
    BY <1>7 DEF LandSeat, FailSeat, Wake
  <2>2. \A k \in completers : k.client \in Client /\ caller[k.client] = "calling"
    BY DEF TypeOK, Completer, BlockedInv, CompleterInv
  <2>3. \A d \in Client : (HoldsLease(d))' => HoldsLease(d)
    BY <2>1, <2>2 DEF HoldsLease, TypeOK
  <2>4. UNCHANGED <<history, borrowed, lease>>
    BY <1>7 DEF LandSeat, FailSeat
  <2>5. QED
    BY <1>1, <2>3, <2>4
<1>8. CASE RefuseCall
  <2>1. /\ requests # <<>> /\ Head(requests).kind = "call" /\ Head(requests).client \in Client
    BY <1>8, HeadRequest DEF RefuseCall, Receive, CallRequest
  <2>2. caller[Head(requests).client] = "calling"
    BY <2>1, TailElements DEF TypeOK, BlockedInv, RequestInv
  <2>3. /\ UNCHANGED <<history, borrowed, lease>>
        /\ \A d \in Client : (HoldsLease(d))' => HoldsLease(d)
    BY <1>8, <2>2 DEF RefuseCall, Wake, HoldsLease, TypeOK, turnVars
  <2>4. QED
    BY <1>1, <2>3
<1>9. CASE RefuseSpawn
  <2>1. /\ UNCHANGED <<history, borrowed, lease>>
        /\ \A d \in Client : (HoldsLease(d))' => HoldsLease(d)
    BY <1>9 DEF RefuseSpawn, HoldsLease, TypeOK, turnVars
  <2>2. QED
    BY <1>1, <2>1
<1>10. CASE Panic
  <2>1. /\ UNCHANGED <<history, lease>> /\ borrowed' = {}
        /\ \A d \in Client : (HoldsLease(d))' => HoldsLease(d)
    BY <1>10 DEF Panic, HoldsLease, TypeOK
  <2>2. QED
    BY <2>1 DEF IsolationInv
<1>11. CASE \/ DropRoot \/ RootJoined \/ ServeCall \/ ServeDrop \/ Drained \/ Stop
            \/ SeatInItsLane \/ SeatMustWait \/ Filled \/ SkipSeat \/ UNCHANGED vars
  <2>1. UNCHANGED <<caller, lease, history, borrowed>>
    BY <1>11 DEF DropRoot, RootJoined, ServeCall, ServeDrop, Drained, Stop, SeatInItsLane,
       SeatMustWait, Filled, SkipSeat, vars, callerVars, turnVars
  <2>2. QED
    BY <1>1, <2>1 DEF HoldsLease
<1>12. QED
  BY <1>2, <1>3, <1>4, <1>5, <1>6, <1>7, <1>8, <1>9, <1>10, <1>11
     DEF Next, Callers, Worker, Serve, FillTurn, Turn, Answer, Terminated

-----------------------------------------------------------------------------
(* The inductive invariant, and the properties it implies.                 *)

LEMMA LanesInductive ==
  /\ Init => TypeOK /\ LanesInv
  /\ TypeOK /\ LanesInv /\ [Next]_vars => (TypeOK /\ LanesInv)'
<1>1. Init => TypeOK /\ LanesInv
  BY InitTypeOK, InitBlockedInv, InitPhaseInv, InitSharingInv, InitSeatInv, InitIsolationInv
     DEF LanesInv
<1>2. TypeOK /\ LanesInv /\ [Next]_vars => (TypeOK /\ LanesInv)'
  BY NextTypeOK, NextBlockedInv, NextPhaseInv, NextSharingInv, NextSeatInv, NextIsolationInv
     DEF LanesInv
<1>3. QED
  BY <1>1, <1>2

\* LanesInvariant: the conjunction of the parts of LanesInv holds throughout,
\* for any number of callers, lanes and seats, whatever is cloned or fails.
THEOREM LanesInvariant == Spec => [](TypeOK /\ LanesInv)
  BY LanesInductive, PTL DEF Spec

\* LanesAccounted: no lane leaks from the table or is handed out twice, through
\* refused spawns, failed resets, borrowed lanes and turns that fail.
THEOREM LanesAccounted == Spec => []LaneAccounting
<1>1. TypeOK /\ LanesInv => LaneAccounting
  BY DEF LanesInv, SharingInv
<1>2. QED
  BY <1>1, LanesInvariant, PTL

\* StreamsDoNotShareLanes: two handles are on one lane exactly when one was
\* cloned from the other.
THEOREM StreamsDoNotShareLanes == Spec => []LeasesAreExclusive
<1>1. TypeOK /\ LanesInv => LeasesAreExclusive
  BY DEF LanesInv, SharingInv
<1>2. QED
  BY <1>1, LanesInvariant, PTL

\* TurnsAreValid: the checks of LaneTable::seat and Seating::new, and the bound
\* MaxSeats, are met by every turn that Worker::fill assembles.
THEOREM TurnsAreValid == Spec => []SeatingIsValid
<1>1. TypeOK /\ LanesInv => SeatingIsValid
  <2> SUFFICES ASSUME TypeOK, LanesInv, phase = "turn"
               PROVE  CanSeat(taken, Seating) /\ Len(seated) \in 1 .. MaxSeats
    BY DEF SeatingIsValid
  <2>1. seated \in Seq(Seat) /\ seated # <<>> /\ Len(seated) <= MaxSeats
    BY DEF LanesInv, PhaseInv, SeatedInv, TypeOK
  <2>2. \A i \in DOMAIN seated : seated[i].lane \in Lane \cap taken
    <3>1. \A i \in DOMAIN seated : seated[i].lane \in taken
      BY SeatedLanesTaken DEF LanesInv
    <3>2. QED
      BY <3>1 DEF TypeOK
  <2>3. \A i, j \in DOMAIN seated : seated[i].lane = seated[j].lane => i = j
    BY DEF LanesInv, SeatedInv
  <2>4. CanSeat(taken, Seating)
    BY <2>2, <2>3 DEF CanSeat, Seating
  <2>5. Len(seated) \in 1 .. MaxSeats
    BY <2>1, LanesAssumption
  <2>6. QED
    BY <2>4, <2>5
<1>2. QED
  BY <1>1, LanesInvariant, PTL

\* StreamsAreIsolated: no seat is ever served by a lane that holds anything of
\* another stream's.
THEOREM StreamsAreIsolated == Spec => []StreamIsolation
<1>1. TypeOK /\ LanesInv => StreamIsolation
  <2> SUFFICES ASSUME TypeOK, LanesInv, phase = "turn", NEW i \in DOMAIN seated
               PROVE  \A k \in DOMAIN history[seated[i].lane] :
                         history[seated[i].lane][k].stream = seated[i].stream
    BY DEF StreamIsolation
  <2>1. CASE seated[i].lane \in borrowed
    BY <2>1 DEF LanesInv, IsolationInv
  <2>2. CASE seated[i].lane \notin borrowed
    <3>1. PICK c \in Client : /\ HoldsLease(c)
                              /\ lease[c].lane = seated[i].lane
                              /\ lease[c].stream = seated[i].stream
      BY <2>2, SeatedByItsStream DEF LanesInv
    <3>2. QED
      BY <3>1 DEF LanesInv, IsolationInv
  <2>3. QED
    BY <2>1, <2>2
<1>2. QED
  BY <1>1, LanesInvariant, PTL

\* Only a lane no stream holds is reset, and the lane of a stream only grows.
LEMMA StepKeepsHistory == TypeOK /\ LanesInv /\ [Next]_vars => KeepsHistory
<1> SUFFICES ASSUME TypeOK, LanesInv, [Next]_vars, NEW c \in Client, HoldsLease(c),
                    lease'[c] = lease[c]
             PROVE  IsPrefixOf(history[lease[c].lane], history'[lease[c].lane])
  BY DEF KeepsHistory
<1> USE DEF LanesInv
<1>0. /\ lease[c].lane \in Leased /\ lease[c].lane \in Lane
      /\ history[lease[c].lane] \in Seq(Absorbed)
  BY DEF TypeOK, BlockedInv, HandleInv, Leased, Lease
<1>1. ASSUME history'[lease[c].lane] = history[lease[c].lane]
      PROVE  IsPrefixOf(history[lease[c].lane], history'[lease[c].lane])
  BY <1>0, <1>1 DEF IsPrefixOf
<1>2. ASSUME phase # "gone", NEW lane \in Lane, IsLowestFree(lane, taken), Reset(lane)
      PROVE  IsPrefixOf(history[lease[c].lane], history'[lease[c].lane])
  <2>1. lane # lease[c].lane
    BY <1>0, <1>2 DEF IsLowestFree, Free, SharingInv, LaneAccounting
  <2>2. history'[lease[c].lane] = history[lease[c].lane]
    BY <1>0, <1>2, <2>1 DEF Reset, TypeOK
  <2>3. QED
    BY <1>1, <2>2
<1>3. CASE ServeSpawn
  BY <1>2, <1>3 DEF ServeSpawn, Receive
<1>4. CASE SeatInBorrowedLane
  BY <1>2, <1>4 DEF SeatInBorrowedLane, PopSeat
<1>5. CASE RunTurn \/ FailTurn
  <2>1. phase = "turn" /\ (Absorb \/ history' = history)
    BY <1>5 DEF RunTurn, FailTurn
  <2>2. CASE history'[lease[c].lane] = history[lease[c].lane]
    BY <1>1, <2>2
  <2>3. CASE \E e \in Absorbed : history'[lease[c].lane] = Append(history[lease[c].lane], e)
    <3>1. PICK e \in Absorbed : history'[lease[c].lane] = Append(history[lease[c].lane], e)
      BY <2>3
    <3>2. /\ Len(history'[lease[c].lane]) = Len(history[lease[c].lane]) + 1
          /\ \A i \in DOMAIN history[lease[c].lane] :
                history[lease[c].lane][i] = history'[lease[c].lane][i]
      BY <1>0, <3>1, AppendElements
    <3>3. QED
      BY <1>0, <3>2 DEF IsPrefixOf
  <2>4. QED
    BY <2>1, <2>2, <2>3, AbsorbOwnStream
<1>6. CASE ~(ServeSpawn \/ SeatInBorrowedLane \/ RunTurn \/ FailTurn)
  <2>1. history' = history
    BY <1>6 DEF Next, Callers, Worker, Serve, FillTurn, Turn, Answer, Terminated, Spawn, Call,
       Clone, DropLease, DropRunnable, Joined, DropRoot, RootJoined, RefuseSpawn, ServeCall,
       RefuseCall, ServeDrop, Drained, Stop, SeatInItsLane, SeatMustWait, Filled, LandSeat,
       FailSeat, SkipSeat, Panic, vars
  <2>2. QED
    BY <1>1, <2>1
<1>7. QED
  BY <1>3, <1>4, <1>5, <1>6

\* HistoriesOnlyGrow: as long as a stream is open nothing rewrites or erases
\* what its lane has absorbed: resets, borrowed lanes and failing turns
\* included.
THEOREM HistoriesOnlyGrow == Spec => LiveLaneKeepsItsHistory
  BY LanesInvariant, StepKeepsHistory, PTL DEF Spec, LiveLaneKeepsItsHistory

-----------------------------------------------------------------------------
(* What the callers are owed, and the refinement.                           *)

\* Retain (VecDeque::retain in Queue::serve) keeps the order of what it keeps,
\* and keeps every element that answers another call.
LEMMA RetainInOrder ==
  ASSUME NEW S, NEW queue \in Seq(S), NEW call
  PROVE  \E at \in [DOMAIN Retain(queue, call) -> DOMAIN queue] :
            /\ \A j \in DOMAIN Retain(queue, call) :
                 Retain(queue, call)[j] = queue[at[j]] /\ queue[at[j]].call # call
            /\ \A i, j \in DOMAIN Retain(queue, call) : i < j => at[i] < at[j]
            /\ \A i \in DOMAIN queue : queue[i].call # call =>
                 \E j \in DOMAIN Retain(queue, call) : at[j] = i
<1> DEFINE K == Kept(queue, call)
           UpTo(i) == {k \in K : k <= i}
           Rank(i) == Cardinality(UpTo(i))
           At(j) == CHOOSE i \in K : Rank(i) = j
<1>1. /\ \A k \in K : k \in 1 .. Len(queue) /\ k \in Int /\ queue[k] \in S /\ queue[k].call # call
      /\ \A i \in DOMAIN queue : queue[i].call # call => i \in K
  BY DEF Kept
<1>2. /\ IsFiniteSet(K) /\ Cardinality(K) \in Nat
      /\ \A j \in 1 .. Cardinality(K) : \E i \in K : Rank(i) = j
  <2> DEFINE n == Len(queue)
  <2>1. n \in Nat /\ \A k \in K : k \in 1 .. n
    BY <1>1
  <2> HIDE DEF K, n
  <2>2. QED
    BY <2>1, Ranks
<1>3. ASSUME NEW i \in K, NEW h \in K, i < h
      PROVE  Rank(i) < Rank(h)
  <2>1. UpTo(i) \in SUBSET UpTo(h) /\ h \in UpTo(h) /\ h \notin UpTo(i)
    BY <1>1, <1>3
  <2>2. UpTo(h) \in SUBSET K
    OBVIOUS
  <2> HIDE DEF K, UpTo
  <2>3. IsFiniteSet(UpTo(h)) /\ IsFiniteSet(UpTo(i))
    BY <1>2, <2>1, <2>2, FS_Subset
  <2>4. /\ Cardinality(UpTo(i)) <= Cardinality(UpTo(h))
        /\ Cardinality(UpTo(i)) # Cardinality(UpTo(h))
    BY <2>1, <2>3, FS_Subset
  <2>5. Cardinality(UpTo(i)) \in Nat /\ Cardinality(UpTo(h)) \in Nat
    BY <2>3, FS_CardinalityType
  <2>6. QED
    BY <2>4, <2>5
<1>4. \A i \in K : Rank(i) \in 1 .. Cardinality(K)
  <2> SUFFICES ASSUME NEW i \in K PROVE Rank(i) \in 1 .. Cardinality(K)
    OBVIOUS
  <2>1. UpTo(i) \in SUBSET K /\ i \in UpTo(i)
    BY <1>1
  <2> HIDE DEF K, UpTo
  <2>2. IsFiniteSet(UpTo(i)) /\ Cardinality(UpTo(i)) <= Cardinality(K)
    BY <1>2, <2>1, FS_Subset
  <2>3. Cardinality(UpTo(i)) \in Nat /\ Cardinality(UpTo(i)) # 0
    BY <2>1, <2>2, FS_CardinalityType, FS_EmptySet
  <2>4. QED
    BY <1>2, <2>2, <2>3
<1>5. \A j \in 1 .. Cardinality(K) : At(j) \in K /\ Rank(At(j)) = j
  <2> HIDE DEF K, Rank
  <2> QED
    BY <1>2
<1>6. Retain(queue, call) = [j \in 1 .. Cardinality(K) |-> queue[At(j)]]
  BY DEF Retain
<1> DEFINE at == [j \in 1 .. Cardinality(K) |-> At(j)]
<1> HIDE DEF K, At, Rank
<1>7. DOMAIN Retain(queue, call) = 1 .. Cardinality(K)
  BY <1>6
<1>8. at \in [DOMAIN Retain(queue, call) -> DOMAIN queue]
  BY <1>1, <1>5, <1>7
<1>9. \A j \in DOMAIN Retain(queue, call) :
         Retain(queue, call)[j] = queue[at[j]] /\ queue[at[j]].call # call
  BY <1>1, <1>5, <1>6, <1>7
<1>10. \A i, j \in DOMAIN Retain(queue, call) : i < j => at[i] < at[j]
  <2> SUFFICES ASSUME NEW i \in 1 .. Cardinality(K), NEW j \in 1 .. Cardinality(K), i < j
               PROVE  at[i] < at[j]
    BY <1>7
  <2>1. At(i) \in K /\ At(j) \in K /\ Rank(At(i)) = i /\ Rank(At(j)) = j
    BY <1>5
  <2>2. ~(At(j) < At(i)) /\ At(i) # At(j)
    BY <1>2, <1>3, <2>1
  <2>3. QED
    BY <1>1, <2>1, <2>2
<1>11. \A i \in DOMAIN queue : queue[i].call # call =>
         \E j \in DOMAIN Retain(queue, call) : at[j] = i
  <2> SUFFICES ASSUME NEW i \in DOMAIN queue, queue[i].call # call
               PROVE  \E j \in 1 .. Cardinality(K) : at[j] = i
    BY <1>7
  <2>1. i \in K /\ Rank(i) \in 1 .. Cardinality(K)
    BY <1>1, <1>4
  <2>2. At(Rank(i)) \in K /\ Rank(At(Rank(i))) = Rank(i)
    BY <1>5, <2>1
  <2>3. ~(At(Rank(i)) < i) /\ ~(i < At(Rank(i)))
    BY <1>2, <1>3, <2>1, <2>2
  <2>4. At(Rank(i)) = i
    BY <1>1, <2>1, <2>2, <2>3
  <2>5. QED
    BY <2>1, <2>4
<1> HIDE DEF at
<1>12. QED
  BY <1>8, <1>9, <1>10, <1>11

-----------------------------------------------------------------------------
(* Seats wait in order.                                                      *)

LEMMA InitOrderInv == Init => OrderInv
  BY DEF Init, OrderInv, InOrder, Ahead

\* Order is that of calls and slots, so it does not see lanes.
LEMMA SeatOneKeepsOrder ==
  ASSUME TypeOK, OrderInv, PopSeat,
         NEW seat, seated' = Append(seated, seat),
         seat.call = Head(seats).call, seat.ix = Head(seats).ix,
         UNCHANGED <<phase, waiting>>
  PROVE  OrderInv'
<1>1. /\ phase = "fill" /\ seats \in Seq(Seat)
      /\ 1 \in DOMAIN seats /\ Head(seats) = seats[1]
      /\ \A i \in DOMAIN seats' : /\ i + 1 \in DOMAIN seats /\ i + 1 # 1 /\ i \in Int
                                  /\ seats'[i] = seats[i + 1]
  BY PopSeatElements
<1>2. \A i \in DOMAIN seated' : \/ i \in DOMAIN seated /\ seated'[i] = seated[i]
                                \/ i = Len(seated) + 1 /\ seated'[i] = seat
  BY AppendElements DEF TypeOK
<1>3. InOrder(seats)'
  BY <1>1 DEF OrderInv, InOrder
<1>4. \A j \in DOMAIN seats' : Before(seat, seats'[j])
  <2>1. \A j \in DOMAIN seats' : Before(seats[1], seats'[j])
    <3>1. \A j \in DOMAIN seats' : j + 1 \in DOMAIN seats /\ 1 < j + 1
      BY <1>1
    <3>2. QED
      BY <1>1, <3>1 DEF OrderInv, InOrder
  <2>2. QED
    BY <1>1, <2>1 DEF Before
<1>5. Ahead(seated, seats)' /\ Ahead(waiting, seats)'
  <2>1. Ahead(seated, seats)'
    BY <1>1, <1>2, <1>4 DEF OrderInv, Ahead
  <2>2. Ahead(waiting, seats)'
    BY <1>1 DEF OrderInv, Ahead
  <2>3. QED
    BY <2>1, <2>2
<1>6. QED
  BY <1>3, <1>5 DEF OrderInv, InOrder

\* A call comes after all calls whose seats are queued.
LEMMA ServeCallKeepsOrder ==
  ASSUME TypeOK, BlockedInv, PhaseInv, SeatInv, OrderInv, ServeCall
  PROVE  OrderInv'
<1> DEFINE call == Head(requests)
           e == Explode(call)
<1>1. /\ call \in CallRequest /\ phase = "serve" /\ waiting = <<>> /\ phase' = phase
      /\ waiting' = waiting /\ seats' = seats \o e /\ seats \in Seq(Seat)
  BY HeadRequest DEF ServeCall, Receive, PhaseInv, TypeOK, turnVars
<1>2. /\ e \in Seq(Seat)
      /\ \A ix \in DOMAIN e : /\ e[ix].call = calls /\ e[ix].ix = ix
                              /\ ix \in 1 .. call.width
  BY <1>1, ExplodeSeats DEF Explode
<1> HIDE DEF call, e
<1>3. \A i \in DOMAIN seats : seats[i].call < calls
  BY DEF SeatInv, Owned, Answers, BlockedInv, CompleterInv
<1>4. \A i \in DOMAIN seats' :
         \/ i \in DOMAIN seats /\ seats'[i] = seats[i]
         \/ i - Len(seats) \in DOMAIN e /\ i \in Int /\ seats'[i] = e[i - Len(seats)]
  BY <1>1, <1>2, ConcatElements
<1>5. ASSUME NEW i \in DOMAIN seats', NEW j \in DOMAIN seats', i < j
      PROVE  Before(seats'[i], seats'[j])
  <2>1. CASE i \in DOMAIN seats /\ seats'[i] = seats[i] /\ j \in DOMAIN seats /\ seats'[j] = seats[j]
    BY <1>5, <2>1 DEF OrderInv, InOrder
  <2>2. CASE /\ i \in DOMAIN seats /\ seats'[i] = seats[i]
             /\ j - Len(seats) \in DOMAIN e /\ seats'[j] = e[j - Len(seats)]
    BY <1>2, <1>3, <2>2 DEF Before
  <2>3. CASE /\ i - Len(seats) \in DOMAIN e /\ seats'[i] = e[i - Len(seats)] /\ i \in Int
             /\ j - Len(seats) \in DOMAIN e /\ seats'[j] = e[j - Len(seats)] /\ j \in Int
    <3>1. Len(seats) \in Nat
      BY <1>1
    <3>2. i - Len(seats) < j - Len(seats)
      BY <1>5, <2>3, <3>1
    <3>3. QED
      BY <1>2, <2>3, <3>2 DEF Before
  <2>4. ~(j \in DOMAIN seats /\ i - Len(seats) \in DOMAIN e /\ i \in Int)
    <3>1. Len(seats) \in Nat /\ DOMAIN seats = 1 .. Len(seats)
      BY <1>1
    <3>2. \A ix \in DOMAIN e : ix \in Int /\ ix >= 1
      BY <1>2
    <3>3. QED
      BY <1>5, <3>1, <3>2
  <2>5. QED
    BY <1>4, <2>1, <2>2, <2>3, <2>4
<1>6. QED
  BY <1>1, <1>5 DEF OrderInv, InOrder, Ahead

\* What the worker drops from the queue leaves the rest in order.
LEMMA FailSeatKeepsOrder ==
  ASSUME TypeOK, PhaseInv, OrderInv, FailSeat
  PROVE  OrderInv'
<1>1. waiting = <<>> /\ waiting' = waiting /\ phase' # "fill" /\ seats \in Seq(Seat)
  BY DEF FailSeat, PhaseInv, HandBack, TypeOK
<1>2. PICK k \in completers : seats' = Retain(seats, k.call)
  BY DEF FailSeat
<1>3. PICK at \in [DOMAIN seats' -> DOMAIN seats] :
         /\ \A j \in DOMAIN seats' : seats'[j] = seats[at[j]]
         /\ \A i, j \in DOMAIN seats' : i < j => at[i] < at[j]
  BY <1>1, <1>2, RetainInOrder
<1>4. InOrder(seats)'
  <2>1. \A j \in DOMAIN seats' : at[j] \in DOMAIN seats
    BY <1>3
  <2>2. QED
    BY <1>3, <2>1 DEF OrderInv, InOrder
<1>5. QED
  BY <1>1, <1>4 DEF OrderInv, InOrder, Ahead

\* Seats leave the front of the queue, and return to it in order.
LEMMA NextOrderInv ==
  TypeOK /\ LanesInv /\ OrderInv /\ [Next]_vars => OrderInv'
<1> SUFFICES ASSUME TypeOK, LanesInv, OrderInv, [Next]_vars
             PROVE  OrderInv'
  OBVIOUS
<1> USE DEF LanesInv
<1>1. CASE \/ \E c \in Client : \/ Spawn(c) \/ DropLease(c) \/ DropRunnable(c) \/ Joined(c)
                                \/ \E width \in 0 .. MaxWidth : Call(c, width)
                                \/ \E d \in Client : Clone(c, d)
           \/ DropRoot \/ RootJoined \/ ServeSpawn \/ RefuseSpawn \/ RefuseCall \/ ServeDrop
           \/ Stop \/ RunTurn \/ FailTurn \/ UNCHANGED vars
  <2>1. UNCHANGED <<seats, waiting, seated>> /\ (phase' = "fill" => phase = "fill")
    BY <1>1 DEF Spawn, DropLease, DropRunnable, Joined, Call, Clone, DropRoot, RootJoined,
       ServeSpawn, RefuseSpawn, RefuseCall, ServeDrop, Stop, RunTurn, FailTurn, vars, queueVars,
       turnVars
  <2>2. QED
    BY <2>1 DEF OrderInv, InOrder, Ahead
<1>2. CASE ServeCall
  BY <1>2, ServeCallKeepsOrder
<1>3. CASE Drained
  <2>1. UNCHANGED <<seats, waiting, seated>> /\ seated = <<>>
    BY <1>3 DEF Drained, queueVars, turnVars, PhaseInv
  <2>2. QED
    BY <2>1 DEF OrderInv, InOrder, Ahead
<1>4. CASE SeatInItsLane
  BY <1>4, SeatOneKeepsOrder DEF SeatInItsLane
<1>5. CASE SeatInBorrowedLane
  <2>1. PICK lane \in Lane : seated' = Append(seated, [Head(seats) EXCEPT !.lane = lane])
    BY <1>5 DEF SeatInBorrowedLane
  <2> DEFINE seat == [Head(seats) EXCEPT !.lane = lane]
  <2>2. PopSeat /\ UNCHANGED <<phase, waiting>>
    BY <1>5 DEF SeatInBorrowedLane
  <2>3. seat.call = Head(seats).call /\ seat.ix = Head(seats).ix
    BY <2>2, HeadSeat DEF Seat
  <2>4. seated' = Append(seated, seat)
    BY <2>1
  <2> HIDE DEF seat
  <2>5. QED
    BY <2>2, <2>3, <2>4, SeatOneKeepsOrder
<1>6. CASE SeatMustWait
  <2>1. /\ phase = "fill" /\ seats \in Seq(Seat)
        /\ 1 \in DOMAIN seats /\ Head(seats) = seats[1]
        /\ \A i \in DOMAIN seats' : /\ i + 1 \in DOMAIN seats /\ i + 1 # 1 /\ i \in Int
                                    /\ seats'[i] = seats[i + 1]
    BY <1>6, PopSeatElements DEF SeatMustWait
  <2>2. waiting \in Seq(Seat) /\ waiting' = Append(waiting, seats[1]) /\ UNCHANGED <<phase, seated>>
    BY <1>6, <2>1 DEF SeatMustWait, TypeOK
  <2>3. \A i \in DOMAIN waiting' : \/ i \in DOMAIN waiting /\ waiting'[i] = waiting[i]
                                   \/ i = Len(waiting) + 1 /\ waiting'[i] = seats[1]
    BY <2>2, AppendElements
  <2>4. \A j \in DOMAIN seats' : Before(seats[1], seats'[j])
    <3>1. \A j \in DOMAIN seats' : j + 1 \in DOMAIN seats /\ 1 < j + 1
      BY <2>1
    <3>2. QED
      BY <2>1, <3>1 DEF OrderInv, InOrder
  <2>5. InOrder(seats)' /\ Ahead(seated, seats)'
    BY <2>1, <2>2 DEF OrderInv, InOrder, Ahead
  <2>6. Ahead(waiting, seats)'
    BY <2>1, <2>3, <2>4 DEF OrderInv, Ahead
  <2>7. InOrder(waiting)'
    <3>1. ASSUME NEW i \in DOMAIN waiting', NEW j \in DOMAIN waiting', i < j
          PROVE  Before(waiting'[i], waiting'[j])
      <4>1. i \in DOMAIN waiting /\ waiting'[i] = waiting[i]
        <5>1. DOMAIN waiting' = 1 .. Len(waiting) + 1 /\ DOMAIN waiting = 1 .. Len(waiting)
              /\ Len(waiting) \in Nat
          BY <2>2
        <5>2. QED
          BY <2>3, <3>1, <5>1
      <4>2. QED
        BY <2>1, <2>3, <3>1, <4>1 DEF OrderInv, InOrder, Ahead
    <3>2. QED
      BY <3>1 DEF InOrder
  <2>8. QED
    BY <2>5, <2>6, <2>7 DEF OrderInv
<1>7. CASE Filled
  BY <1>7 DEF Filled, OrderInv, InOrder, Ahead
<1>8. CASE FailSeat
  BY <1>8, FailSeatKeepsOrder
<1>9. CASE LandSeat \/ SkipSeat
  <2>1. UNCHANGED <<seats, waiting>> /\ phase' # "fill"
    BY <1>9 DEF LandSeat, SkipSeat, HandBack, queueVars
  <2>2. QED
    BY <2>1 DEF OrderInv, InOrder, Ahead
<1>10. CASE Panic
  BY <1>10 DEF Panic, PhaseInv, OrderInv, InOrder, Ahead
<1>11. QED
  BY <1>1, <1>2, <1>3, <1>4, <1>5, <1>6, <1>7, <1>8, <1>9, <1>10
     DEF Next, Callers, Worker, Serve, FillTurn, Turn, Answer, Terminated

-----------------------------------------------------------------------------
(* Turns are as wide as they can be.                                         *)

LEMMA InitWidthInv == Init => WidthInv
  BY DEF Init, WidthInv

\* One more seat, and perhaps one lane less, lets nobody sit who could not.
LEMMA SeatOneKeepsWidth ==
  ASSUME TypeOK, WidthInv, phase = "fill", ~TurnIsFull, NEW seat,
         seated' = Append(seated, seat), UNCHANGED <<phase, waiting>>, taken \subseteq taken'
  PROVE  WidthInv'
<1>1. seated \in Seq(Seat) /\ Len(seated) # MaxSeats
  BY LanesAssumption, MaxLanesAssumption DEF TypeOK, TurnIsFull
<1>2. \A i \in DOMAIN seated : i \in DOMAIN seated' /\ seated'[i] = seated[i]
  BY <1>1, AppendElements
<1>3. SeatedLanes \subseteq SeatedLanes'
  BY <1>2 DEF SeatedLanes
<1>4. Free(taken) = {} => Free(taken') = {}
  BY DEF Free
<1>5. \A s : CannotSit(s) => (s.lane \in SeatedLanes' /\ (Free(taken') = {} \/ ResetsMayFail))
  BY <1>1, <1>3, <1>4 DEF CannotSit
<1>6. QED
  BY <1>5 DEF WidthInv, CannotSit

LEMMA NextWidthInv ==
  TypeOK /\ LanesInv /\ WidthInv /\ [Next]_vars => WidthInv'
<1> SUFFICES ASSUME TypeOK, LanesInv, WidthInv, [Next]_vars
             PROVE  WidthInv'
  OBVIOUS
<1> USE DEF LanesInv
<1>1. CASE \/ \E c \in Client : \/ Spawn(c) \/ DropLease(c) \/ DropRunnable(c) \/ Joined(c)
                                \/ \E width \in 0 .. MaxWidth : Call(c, width)
                                \/ \E d \in Client : Clone(c, d)
           \/ DropRoot \/ RootJoined \/ UNCHANGED vars
  <2>1. UNCHANGED <<seats, waiting, seated, taken, phase>>
    BY <1>1 DEF Spawn, DropLease, DropRunnable, Joined, Call, Clone, DropRoot, RootJoined,
       vars, queueVars, turnVars
  <2>2. QED
    BY <2>1 DEF WidthInv, CannotSit, SeatedLanes
<1>2. CASE Serve
  <2>1. phase' # "turn" /\ (phase' = "fill" => waiting' = <<>>)
    BY <1>2 DEF Serve, ServeSpawn, RefuseSpawn, ServeCall, RefuseCall, ServeDrop, Drained, Stop,
       Receive, PhaseInv, turnVars
  <2>2. QED
    BY <2>1 DEF WidthInv
<1>3. CASE SeatInItsLane
  <2>1. /\ phase = "fill" /\ ~TurnIsFull /\ seated' = Append(seated, Head(seats))
        /\ UNCHANGED <<phase, waiting>> /\ taken \subseteq taken'
    BY <1>3 DEF SeatInItsLane, PopSeat
  <2>2. QED
    BY <2>1, SeatOneKeepsWidth
<1>4. CASE SeatInBorrowedLane
  <2>1. PICK lane \in Lane : /\ seated' = Append(seated, [Head(seats) EXCEPT !.lane = lane])
                             /\ taken' = TakeLane(taken, lane)
    BY <1>4 DEF SeatInBorrowedLane
  <2>2. phase = "fill" /\ ~TurnIsFull /\ UNCHANGED <<phase, waiting>> /\ taken \subseteq taken'
    BY <1>4, <2>1 DEF SeatInBorrowedLane, PopSeat, TakeLane
  <2>3. QED
    BY <2>1, <2>2, SeatOneKeepsWidth
<1>5. CASE SeatMustWait
  <2>1. /\ phase = "fill" /\ waiting' = Append(waiting, Head(seats)) /\ waiting \in Seq(Seat)
        /\ UNCHANGED <<phase, seated, taken>>
    BY <1>5 DEF SeatMustWait, PopSeat, TypeOK
  <2>2. CannotSit(Head(seats))
    <3>1. TurnIsFull => Len(seated) = MaxSeats
      BY <2>1, LanesAssumption, MaxLanesAssumption DEF TurnIsFull, SeatedInv, TypeOK
    <3>2. QED
      BY <1>5, <3>1 DEF SeatMustWait, CannotSit
  <2>3. \A i \in DOMAIN waiting' : \/ i \in DOMAIN waiting /\ waiting'[i] = waiting[i]
                                   \/ i = Len(waiting) + 1 /\ waiting'[i] = Head(seats)
    BY <2>1, AppendElements
  <2>4. \A i \in DOMAIN waiting' : CannotSit(waiting'[i])
    BY <2>1, <2>2, <2>3 DEF WidthInv
  <2>5. QED
    BY <2>1, <2>4 DEF WidthInv, CannotSit, SeatedLanes
<1>6. CASE Filled
  <2>1. /\ phase = "fill" /\ seats' = waiting /\ phase' # "fill" /\ UNCHANGED <<seated, taken>>
    BY <1>6 DEF Filled
  <2>2. QED
    BY <2>1 DEF WidthInv, CannotSit, SeatedLanes
<1>7. CASE Turn \/ Answer
  <2>1. phase' \notin {"fill", "turn"}
    BY <1>7 DEF Turn, RunTurn, FailTurn, Panic, Answer, LandSeat, FailSeat, SkipSeat, HandBack
  <2>2. QED
    BY <2>1 DEF WidthInv
<1>8. QED
  BY <1>1, <1>2, <1>3, <1>4, <1>5, <1>6, <1>7
     DEF Next, Callers, Worker, FillTurn, Terminated

-----------------------------------------------------------------------------
(* Nobody is left blocked.                                                   *)

LEMMA InitOwedInv == Init => OwedInv
  BY DEF Init, OwedInv

\* A thread that keeps its state keeps what will wake it.
LEMMA SameOwed ==
  ASSUME TypeOK, OwedInv, requests' = requests \/ \E r : requests' = Append(requests, r),
         \A c \in Client : caller'[c] \in {"spawning", "calling"} => caller'[c] = caller[c],
         \A c \in Client : \A k \in completers : caller'[c] = "calling" /\ k.client = c =>
            \E m \in completers' : m.client = c
  PROVE  OwedInv'
<1>1. \A i \in DOMAIN requests : i \in DOMAIN requests' /\ requests'[i] = requests[i]
  <2>1. CASE requests' = requests
    BY <2>1
  <2>2. ASSUME NEW r, requests' = Append(requests, r)
        PROVE  \A i \in DOMAIN requests : i \in DOMAIN requests' /\ requests'[i] = requests[i]
    BY <2>2, AppendElements DEF TypeOK
  <2>3. QED
    BY <2>1, <2>2
<1>2. QED
  BY <1>1 DEF OwedInv

\* The request a thread sends is what it waits for.
LEMMA SendOwes ==
  ASSUME TypeOK, OwedInv, NEW c \in Client, NEW r,
         requests' = Append(requests, r), completers' = completers,
         r.kind \in {"spawn", "call"}, r.client = c,
         caller' = [caller EXCEPT ![c] = IF r.kind = "spawn" THEN "spawning" ELSE "calling"]
  PROVE  OwedInv'
<1>1. /\ \A i \in DOMAIN requests : i \in DOMAIN requests' /\ requests'[i] = requests[i]
      /\ Len(requests) + 1 \in DOMAIN requests' /\ requests'[Len(requests) + 1] = r
  BY AppendElements DEF TypeOK
<1>2. caller'[c] = (IF r.kind = "spawn" THEN "spawning" ELSE "calling")
      /\ \A d \in Client \ {c} : caller'[d] = caller[d]
  BY DEF TypeOK
<1>3. QED
  BY <1>1, <1>2 DEF OwedInv

\* What is taken from the queue wakes the thread that sent it, or becomes a completer.
LEMMA ReceiveOwes ==
  ASSUME TypeOK, OwedInv, requests # <<>>, requests' = Tail(requests),
         \A c \in Client : caller'[c] \in {"spawning", "calling"} => caller'[c] = caller[c],
         completers \subseteq completers',
         \A c \in Client : Head(requests).kind \in {"spawn", "call"} /\ Head(requests).client = c =>
            \/ caller'[c] \notin {"spawning", "calling"}
            \/ Head(requests).kind = "call" /\ caller'[c] = "calling"
                 /\ \E k \in completers' : k.client = c
  PROVE  OwedInv'
<1>1. requests \in Seq(Request)
  BY DEF TypeOK
<1>2. /\ 1 \in DOMAIN requests /\ Head(requests) = requests[1]
      /\ \A i \in DOMAIN requests : i = 1 \/ (i - 1 \in DOMAIN requests'
                                              /\ requests'[i - 1] = requests[i])
  BY <1>1, TailElements
<1>3. ASSUME NEW c \in Client, caller'[c] = "spawning"
      PROVE  \E i \in DOMAIN requests' : requests'[i].kind = "spawn" /\ requests'[i].client = c
  <2>1. PICK i \in DOMAIN requests : requests[i].kind = "spawn" /\ requests[i].client = c
    BY <1>3 DEF OwedInv
  <2>2. i # 1
    BY <1>2, <1>3, <2>1
  <2>3. i - 1 \in DOMAIN requests' /\ requests'[i - 1] = requests[i]
    BY <1>2, <2>2
  <2>4. QED
    BY <2>1, <2>3
<1>4. ASSUME NEW c \in Client, caller'[c] = "calling"
      PROVE  \/ \E i \in DOMAIN requests' : requests'[i].kind = "call" /\ requests'[i].client = c
             \/ \E k \in completers' : k.client = c
  <2>1. CASE \E k \in completers : k.client = c
    BY <2>1
  <2>2. CASE \E i \in DOMAIN requests : requests[i].kind = "call" /\ requests[i].client = c
    <3>1. PICK i \in DOMAIN requests : requests[i].kind = "call" /\ requests[i].client = c
      BY <2>2
    <3>2. CASE i = 1
      BY <1>2, <1>4, <3>1, <3>2
    <3>3. CASE i # 1
      <4>1. i - 1 \in DOMAIN requests' /\ requests'[i - 1] = requests[i]
        BY <1>2, <3>3
      <4>2. QED
        BY <3>1, <4>1
    <3>4. QED
      BY <3>2, <3>3
  <2>3. QED
    BY <1>4, <2>1, <2>2 DEF OwedInv
<1>5. QED
  BY <1>3, <1>4 DEF OwedInv

LEMMA NextOwedInv ==
  TypeOK /\ LanesInv /\ OwedInv /\ [Next]_vars => OwedInv'
<1> SUFFICES ASSUME TypeOK, LanesInv, OwedInv, [Next]_vars
             PROVE  OwedInv'
  OBVIOUS
<1> USE DEF LanesInv
<1>1. ASSUME NEW c \in Client, Spawn(c)
      PROVE  OwedInv'
  <2> DEFINE r == [kind |-> "spawn", client |-> c]
  <2>1. /\ requests' = Append(requests, r) /\ completers' = completers
        /\ caller' = [caller EXCEPT ![c] = "spawning"]
    BY <1>1 DEF Spawn, Send, queueVars
  <2>2. r.kind = "spawn" /\ r.client = c
    OBVIOUS
  <2> HIDE DEF r
  <2>3. QED
    BY <2>1, <2>2, SendOwes
<1>2. ASSUME NEW c \in Client, NEW width \in 0 .. MaxWidth, Call(c, width)
      PROVE  OwedInv'
  <2> DEFINE r == [kind |-> "call", client |-> c, lease |-> lease[c], width |-> width]
  <2>1. /\ requests' = Append(requests, r) /\ completers' = completers
        /\ caller' = [caller EXCEPT ![c] = "calling"]
    BY <1>2 DEF Call, Send, queueVars
  <2>2. r.kind = "call" /\ r.client = c
    OBVIOUS
  <2> HIDE DEF r
  <2>3. QED
    BY <2>1, <2>2, SendOwes
<1>3. CASE \/ \E c \in Client : \/ DropLease(c) \/ DropRunnable(c) \/ Joined(c)
                                \/ \E d \in Client : Clone(c, d)
           \/ DropRoot \/ RootJoined \/ Drained \/ Stop \/ FillTurn \/ RunTurn \/ FailTurn
           \/ SkipSeat \/ UNCHANGED vars
  <2>1. completers' = completers /\ (requests' = requests \/ \E r : requests' = Append(requests, r))
    BY <1>3 DEF DropLease, DropRunnable, Joined, Clone, DropRoot, RootJoined, Drained, Stop,
       FillTurn, SeatInItsLane, SeatInBorrowedLane, SeatMustWait, Filled, RunTurn, FailTurn,
       SkipSeat, vars, queueVars, Send
  <2>2. \A c \in Client : caller'[c] \in {"spawning", "calling"} => caller'[c] = caller[c]
    BY <1>3 DEF DropLease, DropRunnable, Joined, Clone, DropRoot, RootJoined, Drained, Stop,
       FillTurn, SeatInItsLane, SeatInBorrowedLane, SeatMustWait, Filled, RunTurn, FailTurn,
       SkipSeat, vars, callerVars, TypeOK
  <2>3. QED
    BY <2>1, <2>2, SameOwed
<1>4. CASE ServeSpawn \/ RefuseSpawn \/ RefuseCall
  <2>1. /\ requests # <<>> /\ requests' = Tail(requests) /\ completers' = completers
        /\ Head(requests).client \in Client
    BY <1>4, HeadRequest DEF ServeSpawn, RefuseSpawn, RefuseCall, Receive, queueVars, CallRequest
  <2>2. /\ caller'[Head(requests).client] \in {"ready", "idle"}
        /\ \A c \in Client : c # Head(requests).client => caller'[c] = caller[c]
    BY <1>4, <2>1 DEF ServeSpawn, RefuseSpawn, RefuseCall, Wake, TypeOK
  <2>3. QED
    BY <2>1, <2>2, ReceiveOwes
<1>5. CASE ServeCall
  <2>1. /\ requests # <<>> /\ requests' = Tail(requests) /\ Head(requests).kind = "call"
        /\ UNCHANGED caller
        /\ Head(requests) \in CallRequest
    BY <1>5, HeadRequest DEF ServeCall, Receive, callerVars
  <2> DEFINE new == [call |-> calls, client |-> Head(requests).client,
                     width |-> Head(requests).width, served |-> {}]
  <2>2. new \in completers' /\ new.client = Head(requests).client /\ completers \subseteq completers'
    BY <1>5 DEF ServeCall
  <2> HIDE DEF new
  <2>3. caller[Head(requests).client] = "calling"
    BY <2>1, TailElements DEF TypeOK, BlockedInv, RequestInv
  <2>4. QED
    BY <2>1, <2>2, <2>3, ReceiveOwes
<1>6. CASE ServeDrop
  <2>1. /\ requests # <<>> /\ requests' = Tail(requests) /\ Head(requests).kind = "drop"
        /\ UNCHANGED <<caller, completers>>
    BY <1>6 DEF ServeDrop, Receive, callerVars, queueVars
  <2>2. QED
    BY <2>1, ReceiveOwes
<1>7. CASE LandSeat
  <2>1. PICK k \in completers :
           \/ completers' = completers \ {k} /\ caller' = [caller EXCEPT ![k.client] = "ready"]
           \/ /\ completers' = (completers \ {k}) \cup {Fill(k, Head(seated).ix)}
              /\ caller' = caller
    BY <1>7 DEF LandSeat, Wake
  <2>2. requests' = requests /\ k.client \in Client /\ Fill(k, Head(seated).ix).client = k.client
    BY <1>7 DEF LandSeat, TypeOK, Completer, Fill
  <2>3. \A c \in Client : caller'[c] \in {"spawning", "calling"} => caller'[c] = caller[c]
    BY <2>1, <2>2 DEF TypeOK
  <2>4. ASSUME NEW c \in Client, NEW m \in completers, caller'[c] = "calling", m.client = c
        PROVE  \E n \in completers' : n.client = c
    <3>1. CASE m # k
      BY <2>1, <2>4, <3>1
    <3>2. CASE m = k
      <4>1. caller' # [caller EXCEPT ![k.client] = "ready"]
        BY <2>2, <2>4, <3>2 DEF TypeOK
      <4>2. QED
        BY <2>1, <2>2, <2>4, <3>2, <4>1
    <3>3. QED
      BY <3>1, <3>2
  <2>5. QED
    BY <2>2, <2>3, <2>4, SameOwed
<1>8. CASE FailSeat
  <2>1. PICK k \in completers :
           completers' = completers \ {k} /\ caller' = [caller EXCEPT ![k.client] = "ready"]
    BY <1>8 DEF FailSeat, Wake
  <2>2. requests' = requests /\ k.client \in Client
    BY <1>8 DEF FailSeat, TypeOK, Completer
  <2>3. \A c \in Client : caller'[c] \in {"spawning", "calling"} => caller'[c] = caller[c]
    BY <2>1, <2>2 DEF TypeOK
  <2>4. ASSUME NEW c \in Client, NEW m \in completers, caller'[c] = "calling", m.client = c
        PROVE  \E n \in completers' : n.client = c
    BY <2>1, <2>2, <2>4 DEF TypeOK
  <2>5. QED
    BY <2>2, <2>3, <2>4, SameOwed
<1>9. CASE Panic
  <2>1. \A c \in Client : caller'[c] \notin {"spawning", "calling"}
    BY <1>9 DEF Panic
  <2>2. QED
    BY <2>1 DEF OwedInv
<1>10. QED
  BY <1>1, <1>2, <1>3, <1>4, <1>5, <1>6, <1>7, <1>8, <1>9
     DEF Next, Callers, Worker, Serve, Turn, Answer, Terminated

-----------------------------------------------------------------------------
(* No seat of a call is lost.                                                *)

\* Popping the head of a queue takes the head's slot only.
LEMMA HasTail ==
  ASSUME NEW S, NEW queue \in Seq(S), queue # <<>>
  PROVE  \A call, ix : Has(queue, call, ix) =>
            \/ Head(queue).call = call /\ Head(queue).ix = ix
            \/ Has(Tail(queue), call, ix)
<1> SUFFICES ASSUME NEW call, NEW ix, Has(queue, call, ix),
                    ~(Head(queue).call = call /\ Head(queue).ix = ix)
             PROVE  Has(Tail(queue), call, ix)
  OBVIOUS
<1>1. PICK i \in DOMAIN queue : queue[i].call = call /\ queue[i].ix = ix
  BY DEF Has
<1>2. i - 1 \in DOMAIN Tail(queue) /\ Tail(queue)[i - 1] = queue[i]
  <2>1. Head(queue) = queue[1]
    BY TailElements
  <2>2. i # 1
    BY <1>1, <2>1
  <2>3. QED
    BY <2>2, TailElements
<1>3. QED
  BY <1>1, <1>2 DEF Has

LEMMA HasAppend ==
  ASSUME NEW S, NEW queue \in Seq(S), NEW e
  PROVE  /\ \A call, ix : Has(queue, call, ix) => Has(Append(queue, e), call, ix)
         /\ Has(Append(queue, e), e.call, e.ix)
<1>1. /\ \A i \in DOMAIN queue : i \in DOMAIN Append(queue, e) /\ Append(queue, e)[i] = queue[i]
      /\ Len(queue) + 1 \in DOMAIN Append(queue, e) /\ Append(queue, e)[Len(queue) + 1] = e
  BY AppendElements
<1>2. QED
  BY <1>1 DEF Has

LEMMA HasConcat ==
  ASSUME NEW S, NEW queue \in Seq(S), NEW other \in Seq(S)
  PROVE  \A call, ix : Has(queue, call, ix) \/ Has(other, call, ix)
                          => Has(queue \o other, call, ix)
<1>1. \A i \in DOMAIN queue : i \in DOMAIN (queue \o other) /\ (queue \o other)[i] = queue[i]
  OBVIOUS
<1>2. \A i \in DOMAIN other : /\ Len(queue) + i \in DOMAIN (queue \o other)
                              /\ (queue \o other)[Len(queue) + i] = other[i]
  OBVIOUS
<1>3. QED
  BY <1>1, <1>2 DEF Has

LEMMA InitCoverInv == Init => CoverInv
  BY DEF Init, CoverInv

\* The first conjunct of CoverInv.
Covered == \A k \in completers : \A ix \in (1 .. k.width) \ k.served :
              Has(seats, k.call, ix) \/ Has(waiting, k.call, ix) \/ Has(seated, k.call, ix)

\* Every slot of a new call gets a seat.
LEMMA ServeCallCovers ==
  ASSUME TypeOK, BlockedInv, Covered, ServeCall
  PROVE  Covered'
<1> DEFINE call == Head(requests)
           e == Explode(call)
           new == [call |-> calls, client |-> call.client, width |-> call.width,
                   served |-> {}]
<1>1. /\ call \in CallRequest /\ seats' = seats \o e /\ seats \in Seq(Seat)
      /\ UNCHANGED <<waiting, seated>> /\ completers' = completers \cup {new}
  BY HeadRequest DEF ServeCall, TypeOK, turnVars
<1>2. e \in Seq(Seat) /\ \A ix \in 1 .. call.width : Has(e, calls, ix)
  <2>1. e \in Seq(Seat) /\ DOMAIN e = 1 .. call.width
    BY <1>1, ExplodeSeats DEF Explode
  <2>2. \A ix \in 1 .. call.width : e[ix].call = calls /\ e[ix].ix = ix
    BY DEF Explode
  <2>3. QED
    BY <2>1, <2>2 DEF Has
<1>3. new.call = calls /\ new.width = call.width
  OBVIOUS
<1> HIDE DEF call, e, new
<1>4. \A id, ix : Has(seats, id, ix) \/ Has(e, id, ix) => Has(seats', id, ix)
  BY <1>1, <1>2, HasConcat
<1>5. ASSUME NEW k \in completers', NEW ix \in (1 .. k.width) \ k.served
      PROVE  Has(seats', k.call, ix) \/ Has(waiting', k.call, ix) \/ Has(seated', k.call, ix)
  <2>1. CASE k \in completers
    BY <1>1, <1>4, <2>1 DEF Covered
  <2>2. CASE k = new
    BY <1>2, <1>3, <1>4, <2>2
  <2>3. QED
    BY <1>1, <1>5, <2>1, <2>2
<1>6. QED
  BY <1>5 DEF Covered, Has

\* fill moves a seat and keeps its slot.
LEMMA PopCovers ==
  ASSUME TypeOK, Covered, PopSeat, completers' = completers,
         \A id, ix : Has(waiting, id, ix) => Has(waiting', id, ix),
         \A id, ix : Has(seated, id, ix) => Has(seated', id, ix),
         \/ Has(waiting', Head(seats).call, Head(seats).ix)
         \/ Has(seated', Head(seats).call, Head(seats).ix)
  PROVE  Covered'
<1>1. \A id, ix : Has(seats, id, ix) =>
         \/ Head(seats).call = id /\ Head(seats).ix = ix
         \/ Has(seats', id, ix)
  BY HasTail DEF PopSeat, TypeOK
<1>2. ASSUME NEW k \in completers, NEW ix \in (1 .. k.width) \ k.served
      PROVE  Has(seats', k.call, ix) \/ Has(waiting', k.call, ix) \/ Has(seated', k.call, ix)
  BY <1>1 DEF Covered
<1>3. QED
  BY <1>2 DEF Covered, Has

\* A seat that lands fills its slot and leaves those of the others.
LEMMA LandSeatCovers ==
  ASSUME TypeOK, BlockedInv, Covered, LandSeat
  PROVE  Covered'
<1> DEFINE head == Head(seated)
<1>1. UNCHANGED <<seats, waiting>> /\ seated \in Seq(Seat) /\ seated # <<>> /\ seated' = Tail(seated)
  BY DEF LandSeat, HandBack, TypeOK
<1>2. PICK k \in completers :
         /\ k.call = head.call
         /\ \/ completers' = completers \ {k}
            \/ completers' = (completers \ {k}) \cup {Fill(k, head.ix)}
  BY DEF LandSeat
<1> DEFINE filled == Fill(k, head.ix)
<1>3. /\ filled.call = k.call /\ filled.width = k.width
      /\ filled.served = k.served \cup {head.ix}
  BY DEF TypeOK, Completer, Fill
<1>4. \A id, ix : Has(seated, id, ix) => (head.call = id /\ head.ix = ix) \/ Has(seated', id, ix)
  BY <1>1, HasTail
<1>5. \A m \in completers \ {k} : m.call # head.call
  BY <1>2 DEF BlockedInv, CompleterInv
<1> HIDE DEF head, filled
<1>6. ASSUME NEW m \in completers', NEW ix \in (1 .. m.width) \ m.served
      PROVE  Has(seats', m.call, ix) \/ Has(waiting', m.call, ix) \/ Has(seated', m.call, ix)
  <2>1. CASE m \in completers \ {k}
    BY <1>1, <1>4, <1>5, <2>1 DEF Covered
  <2>2. CASE m = filled
    <3>1. ix # head.ix /\ ix \in (1 .. k.width) \ k.served
      BY <1>3, <1>6, <2>2
    <3>2. QED
      BY <1>1, <1>3, <1>4, <2>2, <3>1 DEF Covered
  <2>3. QED
    BY <1>2, <1>6, <2>1, <2>2 DEF filled
<1>7. QED
  BY <1>6 DEF Covered, Has

\* A call that fails takes none but its own seats with it.
LEMMA FailSeatCovers ==
  ASSUME TypeOK, BlockedInv, Covered, FailSeat
  PROVE  Covered'
<1> DEFINE head == Head(seated)
<1>1. /\ UNCHANGED waiting /\ seated \in Seq(Seat) /\ seated # <<>> /\ seated' = Tail(seated)
      /\ seats \in Seq(Seat)
  BY DEF FailSeat, HandBack, TypeOK
<1>2. PICK k \in completers : /\ k.call = head.call /\ completers' = completers \ {k}
                              /\ seats' = Retain(seats, k.call)
  BY DEF FailSeat
<1>3. \A id, ix : Has(seated, id, ix) => (head.call = id /\ head.ix = ix) \/ Has(seated', id, ix)
  BY <1>1, HasTail
<1>4. \A id, ix : id # k.call /\ Has(seats, id, ix) => Has(seats', id, ix)
  <2>1. PICK at \in [DOMAIN seats' -> DOMAIN seats] :
           /\ \A j \in DOMAIN seats' : seats'[j] = seats[at[j]]
           /\ \A i \in DOMAIN seats : seats[i].call # k.call => \E j \in DOMAIN seats' : at[j] = i
    BY <1>1, <1>2, RetainInOrder
  <2>2. \A i \in DOMAIN seats : seats[i].call # k.call =>
           \E j \in DOMAIN seats' : seats'[j] = seats[i]
    BY <2>1
  <2>3. QED
    BY <2>2 DEF Has
<1>5. \A m \in completers' : m \in completers /\ m.call # k.call
  BY <1>2 DEF BlockedInv, CompleterInv
<1> HIDE DEF head
<1>6. ASSUME NEW m \in completers', NEW ix \in (1 .. m.width) \ m.served
      PROVE  Has(seats', m.call, ix) \/ Has(waiting', m.call, ix) \/ Has(seated', m.call, ix)
  BY <1>1, <1>2, <1>3, <1>4, <1>5 DEF Covered
<1>7. QED
  BY <1>6 DEF Covered, Has

LEMMA NextCovered ==
  TypeOK /\ LanesInv /\ Covered /\ [Next]_vars => Covered'
<1> SUFFICES ASSUME TypeOK, LanesInv, Covered, [Next]_vars
             PROVE  Covered'
  OBVIOUS
<1> USE DEF LanesInv
<1>1. CASE \/ \E c \in Client : \/ Spawn(c) \/ DropLease(c) \/ DropRunnable(c) \/ Joined(c)
                                \/ \E width \in 0 .. MaxWidth : Call(c, width)
                                \/ \E d \in Client : Clone(c, d)
           \/ DropRoot \/ RootJoined \/ ServeSpawn \/ RefuseSpawn \/ RefuseCall \/ ServeDrop
           \/ Drained \/ Stop \/ RunTurn \/ FailTurn \/ UNCHANGED vars
  <2>1. UNCHANGED <<seats, waiting, seated, completers>>
    BY <1>1 DEF Spawn, DropLease, DropRunnable, Joined, Call, Clone, DropRoot, RootJoined,
       ServeSpawn, RefuseSpawn, RefuseCall, ServeDrop, Drained, Stop, RunTurn, FailTurn, vars,
       queueVars, turnVars
  <2>2. QED
    BY <2>1 DEF Covered, Has
<1>2. CASE ServeCall
  BY <1>2, ServeCallCovers
<1>3. CASE SeatInItsLane
  <2>1. PopSeat /\ completers' = completers /\ waiting' = waiting
        /\ seated' = Append(seated, Head(seats)) /\ seated \in Seq(Seat)
    BY <1>3 DEF SeatInItsLane, TypeOK
  <2>2. /\ \A id, ix : Has(seated, id, ix) => Has(seated', id, ix)
        /\ Has(seated', Head(seats).call, Head(seats).ix)
    BY <2>1, HasAppend
  <2>3. \A id, ix : Has(waiting, id, ix) => Has(waiting', id, ix)
    BY <2>1
  <2>4. QED
    BY <2>1, <2>2, <2>3, PopCovers
<1>4. CASE SeatInBorrowedLane
  <2>1. PICK lane \in Lane : seated' = Append(seated, [Head(seats) EXCEPT !.lane = lane])
    BY <1>4 DEF SeatInBorrowedLane
  <2> DEFINE seat == [Head(seats) EXCEPT !.lane = lane]
  <2>2. PopSeat /\ completers' = completers /\ waiting' = waiting /\ seated \in Seq(Seat)
    BY <1>4 DEF SeatInBorrowedLane, TypeOK
  <2>3. seat.call = Head(seats).call /\ seat.ix = Head(seats).ix
    BY <2>2, HeadSeat DEF Seat
  <2>4. seated' = Append(seated, seat)
    BY <2>1
  <2> HIDE DEF seat
  <2>5. /\ \A id, ix : Has(seated, id, ix) => Has(seated', id, ix)
        /\ Has(seated', Head(seats).call, Head(seats).ix)
    <3>1. Has(seated', seat.call, seat.ix)
      BY <2>2, <2>4, HasAppend
    <3>2. \A id, ix : Has(seated, id, ix) => Has(seated', id, ix)
      BY <2>2, <2>4, HasAppend
    <3>3. QED
      BY <2>3, <3>1, <3>2
  <2>6. \A id, ix : Has(waiting, id, ix) => Has(waiting', id, ix)
    BY <2>2
  <2>7. QED
    BY <2>2, <2>5, <2>6, PopCovers
<1>5. CASE SeatMustWait
  <2>1. PopSeat /\ completers' = completers /\ seated' = seated
        /\ waiting' = Append(waiting, Head(seats)) /\ waiting \in Seq(Seat)
    BY <1>5 DEF SeatMustWait, TypeOK
  <2>2. /\ \A id, ix : Has(waiting, id, ix) => Has(waiting', id, ix)
        /\ Has(waiting', Head(seats).call, Head(seats).ix)
    BY <2>1, HasAppend
  <2>3. \A id, ix : Has(seated, id, ix) => Has(seated', id, ix)
    BY <2>1
  <2>4. QED
    BY <2>1, <2>2, <2>3, PopCovers
<1>6. CASE Filled
  <2>1. seats = <<>> /\ seats' = waiting /\ UNCHANGED <<seated, completers>>
    BY <1>6 DEF Filled
  <2>2. QED
    BY <2>1 DEF Covered, Has
<1>7. CASE LandSeat
  BY <1>7, LandSeatCovers
<1>8. CASE FailSeat
  BY <1>8, FailSeatCovers
<1>9. CASE SkipSeat
  <2>1. /\ UNCHANGED <<seats, waiting, completers>> /\ seated \in Seq(Seat) /\ seated # <<>>
        /\ seated' = Tail(seated) /\ \A m \in completers : m.call # Head(seated).call
    BY <1>9 DEF SkipSeat, HandBack, queueVars, TypeOK
  <2>2. \A id, ix : Has(seated, id, ix) => Head(seated).call = id \/ Has(seated', id, ix)
    BY <2>1, HasTail
  <2>3. \A k \in completers : \A ix \in (1 .. k.width) \ k.served :
           Has(seats, k.call, ix) \/ Has(waiting, k.call, ix) \/ Has(seated', k.call, ix)
    BY <2>1, <2>2 DEF Covered
  <2>4. QED
    BY <2>1, <2>3 DEF Covered, Has
<1>10. CASE Panic
  BY <1>10 DEF Panic, Covered
<1>11. QED
  BY <1>1, <1>2, <1>3, <1>4, <1>5, <1>6, <1>7, <1>8, <1>9, <1>10
     DEF Next, Callers, Worker, Serve, FillTurn, Turn, Answer, Terminated

\* A seat left by a turn that failed fills a slot of its call, if that is there.
LEMMA NextCoverInv ==
  TypeOK /\ LanesInv /\ CoverInv /\ [Next]_vars => CoverInv'
<1> SUFFICES ASSUME TypeOK, LanesInv, CoverInv, [Next]_vars
             PROVE  CoverInv'
  OBVIOUS
<1> USE DEF LanesInv
<1>1. Covered'
  BY NextCovered DEF CoverInv, Covered
<1>2. ASSUME phase' = "failed"
      PROVE  \A i \in DOMAIN seated' : \A k \in completers' :
                seated'[i].call = k.call => Answers(seated'[i], k)
  <2>1. CASE UNCHANGED <<phase, seated, completers>>
    BY <1>2, <2>1 DEF CoverInv
  <2>2. CASE phase = "turn" /\ UNCHANGED <<seated, completers>>
    <3>1. \A i \in DOMAIN seated : \E k \in completers : Answers(seated[i], k)
      BY <2>2 DEF SeatInv
    <3>2. QED
      BY <2>2, <3>1 DEF Answers, BlockedInv, CompleterInv
  <2>3. CASE phase = "failed" /\ HandBack /\ completers' \subseteq completers
    <3>1. \A i \in DOMAIN seated' : i + 1 \in DOMAIN seated /\ seated'[i] = seated[i + 1]
      BY <2>3, HandBackElements
    <3>2. QED
      BY <2>3, <3>1 DEF CoverInv
  <2>4. \/ UNCHANGED <<phase, seated, completers>>
        \/ phase = "turn" /\ UNCHANGED <<seated, completers>>
        \/ phase = "failed" /\ HandBack /\ completers' \subseteq completers
    <3>1. CASE Callers \/ UNCHANGED vars
      BY <3>1 DEF Callers, Spawn, Call, Clone, DropLease, DropRunnable, Joined, DropRoot,
         RootJoined, queueVars, turnVars, vars
    <3>2. CASE Serve
      BY <1>2, <3>2 DEF Serve, ServeSpawn, RefuseSpawn, ServeCall, RefuseCall, ServeDrop, Drained,
         Stop, Receive
    <3>3. CASE FillTurn
      BY <1>2, <3>3 DEF FillTurn, SeatInItsLane, SeatInBorrowedLane, SeatMustWait, Filled, PopSeat
    <3>4. CASE Turn
      BY <1>2, <3>4 DEF Turn, RunTurn, FailTurn, Panic, queueVars
    <3>5. CASE Answer
      BY <1>2, <3>5 DEF Answer, LandSeat, FailSeat, SkipSeat, HandBack, queueVars
    <3>6. QED
      BY <3>1, <3>2, <3>3, <3>4, <3>5 DEF Next, Worker, Terminated
  <2>5. QED
    BY <2>1, <2>2, <2>3, <2>4
<1>3. QED
  BY <1>1, <1>2 DEF CoverInv, Covered, Answers

\* Only slots of the call are filled.
LEMMA NextServedInv ==
  TypeOK /\ LanesInv /\ ServedInv /\ [Next]_vars => ServedInv'
<1> SUFFICES ASSUME TypeOK, LanesInv, ServedInv, [Next]_vars
             PROVE  ServedInv'
  OBVIOUS
<1>1. CASE completers' \subseteq completers
  BY <1>1 DEF ServedInv
<1>2. CASE ServeCall
  <2> DEFINE new == [call |-> calls, client |-> Head(requests).client,
                     width |-> Head(requests).width, served |-> {}]
  <2>1. completers' = completers \cup {new}
    BY <1>2 DEF ServeCall
  <2>2. new.served = {}
    OBVIOUS
  <2> HIDE DEF new
  <2>3. QED
    BY <2>1, <2>2 DEF ServedInv
<1>3. CASE LandSeat
  <2>1. PICK k \in completers : /\ k.call = Head(seated).call
                                /\ completers' \subseteq completers \cup {Fill(k, Head(seated).ix)}
    BY <1>3 DEF LandSeat
  <2>2. Head(seated) = seated[1] /\ 1 \in DOMAIN seated /\ phase = "landed"
    BY <1>3, HandBackElements DEF LandSeat
  <2>3. PICK m \in completers : Answers(seated[1], m)
    BY <2>2 DEF LanesInv, SeatInv
  <2>4. m = k
    BY <2>1, <2>2, <2>3 DEF Answers, LanesInv, BlockedInv, CompleterInv
  <2>5. Head(seated).ix \in 1 .. k.width
    BY <2>2, <2>3, <2>4 DEF Answers
  <2>6. /\ Fill(k, Head(seated).ix).width = k.width
        /\ Fill(k, Head(seated).ix).served = k.served \cup {Head(seated).ix}
    BY DEF Fill, TypeOK, Completer
  <2>7. QED
    BY <2>1, <2>5, <2>6 DEF ServedInv
<1>4. CASE Callers \/ UNCHANGED vars
  BY <1>1, <1>4 DEF Callers, Spawn, Call, Clone, DropLease, DropRunnable, Joined, DropRoot,
     RootJoined, queueVars, vars
<1>5. CASE ServeSpawn \/ RefuseSpawn \/ RefuseCall \/ ServeDrop \/ Drained \/ Stop
  BY <1>1, <1>5 DEF ServeSpawn, RefuseSpawn, RefuseCall, ServeDrop, Drained, Stop, queueVars
<1>6. CASE FillTurn
  BY <1>1, <1>6 DEF FillTurn, SeatInItsLane, SeatInBorrowedLane, SeatMustWait, Filled
<1>7. CASE Turn \/ FailSeat \/ SkipSeat
  BY <1>1, <1>7 DEF Turn, RunTurn, FailTurn, Panic, FailSeat, SkipSeat, queueVars
<1>8. QED
  BY <1>2, <1>3, <1>4, <1>5, <1>6, <1>7 DEF Next, Worker, Serve, Answer, Terminated

-----------------------------------------------------------------------------
(* Without clones, the first seat of a call sits in its caller's lane.       *)

LEMMA InitOwnLaneInv == Init => OwnLaneInv
  BY DEF Init, OwnLaneInv, HoldsLease

\* The second conjunct of OwnLaneInv.
SitsRight(seat, lanes, cs) ==
    \/ seat.ix # 1 /\ seat.lane \in lanes
    \/ \E k \in cs : Answers(seat, k) /\ InItsLane(seat, k)

\* Without clones no two handles hold leases of one stream.
LEMMA NextOneCaller ==
  ~Cloning /\ TypeOK /\ LanesInv /\ OwnLaneInv /\ [Next]_vars =>
     \A c, d \in Client : (HoldsLease(c))' /\ (HoldsLease(d))' /\ lease'[c].stream = lease'[d].stream
        => c = d
<1> SUFFICES ASSUME ~Cloning, TypeOK, LanesInv, OwnLaneInv, [Next]_vars,
                    NEW c \in Client, NEW d \in Client,
                    (HoldsLease(c))', (HoldsLease(d))', lease'[c].stream = lease'[d].stream
             PROVE  c = d
  OBVIOUS
<1>1. CASE ServeSpawn
  <2> DEFINE new == Head(requests).client
  <2>1. new \in Client /\ \A e \in Client : e # new => caller'[e] = caller[e] /\ lease'[e] = lease[e]
    BY <1>1, HeadRequest DEF ServeSpawn, TypeOK
  <2>2. lease'[new].stream = streams
    BY <1>1, <2>1 DEF ServeSpawn, TypeOK
  <2>3. \A e \in Client : HoldsLease(e) => lease[e].stream < streams /\ streams \in Nat
    BY DEF LanesInv, SharingInv, TypeOK
  <2> HIDE DEF new
  <2>4. \A e \in Client : e # new => HoldsLease(e) = (HoldsLease(e))'
    BY <2>1 DEF HoldsLease
  <2>5. CASE c # new /\ d # new
    BY <2>1, <2>4, <2>5 DEF OwnLaneInv
  <2>6. CASE c = new /\ d # new
    BY <2>1, <2>2, <2>3, <2>4, <2>6
  <2>7. CASE c # new /\ d = new
    BY <2>1, <2>2, <2>3, <2>4, <2>7
  <2>8. QED
    BY <2>5, <2>6, <2>7
<1>2. CASE ~ServeSpawn
  <2>1. \A e \in Client : (HoldsLease(e))' => HoldsLease(e) /\ lease'[e] = lease[e]
    <3>1. CASE Callers \/ UNCHANGED vars
      <4>1. CASE \E e \in Client : Spawn(e) \/ DropRunnable(e) \/ Joined(e)
        BY <4>1 DEF Spawn, DropRunnable, Joined, HoldsLease, TypeOK
      <4>2. CASE \E e \in Client : DropLease(e) \/ \E width \in 0 .. MaxWidth : Call(e, width)
        BY <4>2 DEF DropLease, Call, HoldsLease, TypeOK
      <4>3. CASE DropRoot \/ RootJoined \/ UNCHANGED vars
        BY <4>3 DEF DropRoot, RootJoined, HoldsLease, vars
      <4>4. QED
        BY <3>1, <4>1, <4>2, <4>3 DEF Callers, Clone
    <3>2. CASE Serve
      <4>1. CASE RefuseSpawn
        <5>1. UNCHANGED lease /\ caller' = [caller EXCEPT ![Head(requests).client] = "idle"]
          BY <4>1 DEF RefuseSpawn
        <5>2. \A e \in Client : caller'[e] \in {"idle", caller[e]}
          BY <5>1 DEF TypeOK
        <5>3. QED
          BY <5>1, <5>2 DEF HoldsLease
      <4>2. CASE RefuseCall
        <5>1. Receive("call") /\ UNCHANGED lease
              /\ caller' = [caller EXCEPT ![Head(requests).client] = "ready"]
          BY <4>2 DEF RefuseCall, Wake
        <5>2. requests \in Seq(Request) /\ requests # <<>> /\ Head(requests).kind = "call"
          BY <5>1 DEF Receive, TypeOK
        <5>3. 1 \in DOMAIN requests /\ Head(requests) = requests[1]
          BY <5>2, TailElements
        <5>4. caller[Head(requests).client] = "calling"
          BY <5>2, <5>3 DEF LanesInv, BlockedInv, RequestInv
        <5>5. QED
          BY <5>1, <5>4 DEF HoldsLease, TypeOK
      <4>3. CASE ServeCall \/ ServeDrop \/ Drained \/ Stop
        BY <4>3 DEF ServeCall, ServeDrop, Drained, Stop, callerVars, HoldsLease
      <4>4. QED
        BY <1>2, <3>2, <4>1, <4>2, <4>3 DEF Serve
    <3>3. CASE FillTurn \/ RunTurn \/ FailTurn \/ SkipSeat
      BY <3>3 DEF FillTurn, SeatInItsLane, SeatInBorrowedLane, SeatMustWait, Filled, RunTurn,
         FailTurn, SkipSeat, callerVars, HoldsLease
    <3>4. CASE LandSeat \/ FailSeat
      <4>1. UNCHANGED lease /\ \/ caller' = caller
                               \/ \E k \in completers : caller' = [caller EXCEPT ![k.client] = "ready"]
        BY <3>4 DEF LandSeat, FailSeat, Wake
      <4>2. \A k \in completers : k.client \in Client /\ caller[k.client] = "calling"
        BY DEF TypeOK, Completer, LanesInv, BlockedInv, CompleterInv
      <4>3. QED
        BY <4>1, <4>2 DEF HoldsLease, TypeOK
    <3>5. CASE Panic
      BY <3>5 DEF Panic, HoldsLease
    <3>6. QED
      BY <3>1, <3>2, <3>3, <3>4, <3>5, <1>2 DEF Next, Worker, Turn, Answer, Terminated
  <2>2. QED
    BY <2>1 DEF OwnLaneInv
<1>3. QED
  BY <1>1, <1>2

\* The seat that borrows is not the first of its call: the seat whose lane it
\* shares would be of the same call, and come before it.
LEMMA BorrowerIsNotFirst ==
  ASSUME TypeOK, LanesInv, OrderInv, OwnLaneInv, PopSeat, Head(seats).lane \in SeatedLanes
  PROVE  Head(seats).ix # 1
<1> SUFFICES ASSUME Head(seats).ix = 1 PROVE FALSE
  OBVIOUS
<1>1. phase = "fill" /\ 1 \in DOMAIN seats /\ Head(seats) = seats[1] /\ seats \in Seq(Seat)
  BY PopSeatElements
<1>2. PICK i \in DOMAIN seated : seated[i].lane = seats[1].lane
  BY <1>1 DEF SeatedLanes
<1>3. PICK k \in completers : Answers(seats[1], k) /\ InItsLane(seats[1], k)
  BY <1>1 DEF LanesInv, SeatInv, Owned
<1>4. \A m \in completers : m.client \in Client /\ HoldsLease(m.client)
  BY DEF TypeOK, Completer, LanesInv, BlockedInv, CompleterInv, HoldsLease
<1>5. lease[k.client].lane = seats[1].lane
  BY <1>3 DEF InItsLane
<1>6. seated[i].lane \notin borrowed
  <2>1. seats[1].lane \in Leased
    BY <1>3, <1>4, <1>5 DEF Leased
  <2>2. QED
    BY <1>1, <1>2, <2>1 DEF LanesInv, SharingInv, LaneAccounting
<1>7. PICK m \in completers : Answers(seated[i], m) /\ InItsLane(seated[i], m)
  BY <1>1, <1>6 DEF OwnLaneInv
<1>8. lease[m.client].lane = lease[k.client].lane
  BY <1>2, <1>5, <1>7 DEF InItsLane
<1>9. m = k
  <2>1. m.client = k.client
    BY <1>4, <1>8 DEF LanesInv, SharingInv, LeasesAreExclusive, OwnLaneInv
  <2>2. QED
    BY <2>1 DEF LanesInv, BlockedInv, CompleterInv
<1>10. seated[i].call = seats[1].call
  BY <1>3, <1>7, <1>9 DEF Answers
<1>11. Before(seated[i], seats[1])
  BY <1>1 DEF OrderInv, Ahead
<1>12. seated[i].ix \in 1 .. MaxWidth /\ seats[1].call \in Nat
  <2>1. seated[i] \in Seat /\ seats[1] \in Seat
    BY <1>1 DEF TypeOK
  <2>2. QED
    BY <2>1 DEF Seat
<1>13. QED
  BY <1>1, <1>10, <1>11, <1>12, LanesAssumption DEF Before

\* One more seat in the turn.
LEMMA SeatOneSitsRight ==
  ASSUME TypeOK, OwnLaneInv, phase = "fill", NEW seat, seated' = Append(seated, seat),
         UNCHANGED <<lease, completers>>, borrowed \subseteq borrowed',
         SitsRight(seat, borrowed', completers)
  PROVE  \A i \in DOMAIN seated' : SitsRight(seated'[i], borrowed', completers)
<1>1. \A i \in DOMAIN seated' : \/ i \in DOMAIN seated /\ seated'[i] = seated[i]
                                \/ i = Len(seated) + 1 /\ seated'[i] = seat
  BY AppendElements DEF TypeOK
<1>2. \A i \in DOMAIN seated : SitsRight(seated[i], borrowed', completers)
  BY DEF OwnLaneInv, SitsRight
<1>3. QED
  BY <1>1, <1>2

LEMMA NextOwnLaneInv ==
  ~Cloning /\ TypeOK /\ LanesInv /\ OrderInv /\ OwnLaneInv /\ [Next]_vars => OwnLaneInv'
<1> SUFFICES ASSUME ~Cloning, TypeOK, LanesInv, OrderInv, OwnLaneInv, [Next]_vars
             PROVE  OwnLaneInv'
  OBVIOUS
<1>1. ASSUME phase' \in {"fill", "turn"}, NEW i \in DOMAIN seated'
      PROVE  \/ seated'[i].ix # 1 /\ seated'[i].lane \in borrowed'
             \/ \E k \in completers' : Answers(seated'[i], k) /\ InItsLane(seated[i], k)'
  <2>0. \A k \in completers : k.client \in Client /\ caller[k.client] = "calling"
    BY DEF TypeOK, Completer, LanesInv, BlockedInv, CompleterInv
  <2>1. CASE Callers \/ UNCHANGED vars
    <3>1. UNCHANGED <<phase, seated, completers, borrowed>>
      BY <2>1 DEF Callers, Spawn, Call, Clone, DropLease, DropRunnable, Joined, DropRoot,
         RootJoined, queueVars, turnVars, vars
    <3>2. \A k \in completers : lease'[k.client] = lease[k.client]
      BY <2>0, <2>1 DEF Callers, Spawn, Call, Clone, DropLease, DropRunnable, Joined, DropRoot,
         RootJoined, TypeOK, vars
    <3>3. QED
      BY <1>1, <3>1, <3>2 DEF OwnLaneInv, InItsLane
  <2>2. CASE Serve
    <3>1. seated = <<>> /\ seated' = <<>>
      BY <2>2 DEF Serve, ServeSpawn, RefuseSpawn, ServeCall, RefuseCall, ServeDrop, Drained, Stop,
         Receive, turnVars, LanesInv, PhaseInv
    <3>2. QED
      BY <1>1, <3>1
  <2>3. CASE SeatInItsLane
    <3>1. /\ phase = "fill" /\ seated' = Append(seated, Head(seats)) /\ PopSeat
          /\ UNCHANGED <<lease, completers, borrowed>>
      BY <2>3 DEF SeatInItsLane, PopSeat, callerVars
    <3>2. SitsRight(Head(seats), borrowed', completers)
      BY <3>1, PopSeatElements DEF LanesInv, SeatInv, Owned, SitsRight
    <3>3. SitsRight(seated'[i], borrowed', completers)
      BY <1>1, <3>1, <3>2, SeatOneSitsRight
    <3>4. QED
      BY <3>1, <3>3 DEF SitsRight, InItsLane
  <2>4. CASE SeatInBorrowedLane
    <3>1. PICK lane \in Lane : /\ borrowed' = borrowed \cup {lane}
                               /\ seated' = Append(seated, [Head(seats) EXCEPT !.lane = lane])
      BY <2>4 DEF SeatInBorrowedLane
    <3> DEFINE seat == [Head(seats) EXCEPT !.lane = lane]
    <3>2. /\ PopSeat /\ phase = "fill" /\ UNCHANGED <<lease, completers>>
          /\ Head(seats).lane \in SeatedLanes
      BY <2>4 DEF SeatInBorrowedLane, PopSeat, callerVars
    <3>3. seat.ix = Head(seats).ix /\ seat.lane = lane
      BY <3>2, HeadSeat DEF Seat
    <3>4. seated' = Append(seated, seat)
      BY <3>1
    <3> HIDE DEF seat
    <3>5. SitsRight(seat, borrowed', completers)
      BY <3>1, <3>2, <3>3, BorrowerIsNotFirst DEF SitsRight
    <3>6. SitsRight(seated'[i], borrowed', completers)
      BY <1>1, <3>1, <3>2, <3>4, <3>5, SeatOneSitsRight
    <3>7. QED
      BY <3>2, <3>6 DEF SitsRight, InItsLane
  <2>5. CASE SeatMustWait \/ Filled
    <3>1. phase = "fill" /\ UNCHANGED <<seated, completers, borrowed, lease>>
      BY <2>5 DEF SeatMustWait, Filled, PopSeat, callerVars
    <3>2. QED
      BY <1>1, <3>1 DEF OwnLaneInv, InItsLane
  <2>6. CASE Turn \/ Answer
    BY <1>1, <2>6 DEF Turn, RunTurn, FailTurn, Panic, Answer, LandSeat, FailSeat, SkipSeat, HandBack
  <2>7. QED
    BY <2>1, <2>2, <2>3, <2>4, <2>5, <2>6 DEF Next, Worker, FillTurn, Terminated
<1>2. QED
  BY <1>1, NextOneCaller DEF OwnLaneInv, Answers

-----------------------------------------------------------------------------
(* The inductive invariant, and the properties it implies.                   *)

LEMMA QueueInductive ==
  /\ Init => QueueInv
  /\ TypeOK /\ LanesInv /\ QueueInv /\ [Next]_vars => QueueInv'
<1>1. Init => QueueInv
  BY InitOrderInv, InitWidthInv, InitOwedInv, InitCoverInv DEF QueueInv, Init, ServedInv
<1>2. TypeOK /\ LanesInv /\ QueueInv /\ [Next]_vars => QueueInv'
  BY NextOrderInv, NextWidthInv, NextOwedInv, NextCoverInv, NextServedInv DEF QueueInv
<1>3. QED
  BY <1>1, <1>2

\* QueueInvariant: the parts of QueueInv hold throughout, for any number of
\* callers, lanes and seats, whatever is cloned or fails.
THEOREM QueueInvariant == Spec => [](TypeOK /\ LanesInv /\ QueueInv)
  BY QueueInductive, LanesInductive, PTL DEF Spec

\* SeatsWaitInOrder: at no step of fill, of a call's failure or of another call's
\* arrival does a seat overtake one that was asked for before it.
THEOREM SeatsWaitInOrder == Spec => []OldestFirst
<1>1. TypeOK /\ LanesInv /\ QueueInv => OldestFirst
  <2> SUFFICES ASSUME TypeOK, QueueInv,
                      NEW i \in DOMAIN (waiting \o seats), NEW j \in DOMAIN (waiting \o seats),
                      i < j
               PROVE  Before((waiting \o seats)[i], (waiting \o seats)[j])
    BY DEF OldestFirst
  <2>1. waiting \in Seq(Seat) /\ seats \in Seq(Seat) /\ Len(waiting) \in Nat /\ i \in Nat /\ j \in Nat
    BY DEF TypeOK
  <2>2. /\ \A h \in {i, j} : \/ h \in DOMAIN waiting /\ (waiting \o seats)[h] = waiting[h]
                             \/ /\ h - Len(waiting) \in DOMAIN seats /\ h > Len(waiting)
                                /\ (waiting \o seats)[h] = seats[h - Len(waiting)]
        /\ \A h \in DOMAIN waiting : h <= Len(waiting)
    BY <2>1
  <2>3. InOrder(waiting) /\ InOrder(seats) /\ Ahead(waiting, seats)
    BY DEF QueueInv, OrderInv
  <2>4. CASE i \in DOMAIN waiting /\ j \in DOMAIN waiting
             /\ (waiting \o seats)[i] = waiting[i] /\ (waiting \o seats)[j] = waiting[j]
    BY <2>3, <2>4 DEF InOrder
  <2>5. CASE i \in DOMAIN waiting /\ j - Len(waiting) \in DOMAIN seats
             /\ (waiting \o seats)[i] = waiting[i]
             /\ (waiting \o seats)[j] = seats[j - Len(waiting)]
    BY <2>3, <2>5 DEF Ahead
  <2>6. CASE i - Len(waiting) \in DOMAIN seats /\ j - Len(waiting) \in DOMAIN seats
             /\ (waiting \o seats)[i] = seats[i - Len(waiting)]
             /\ (waiting \o seats)[j] = seats[j - Len(waiting)]
    <3>1. i - Len(waiting) < j - Len(waiting)
      BY <2>1
    <3>2. QED
      BY <2>3, <2>6, <3>1 DEF InOrder
  <2>7. ~(i > Len(waiting) /\ j <= Len(waiting))
    BY <2>1
  <2>8. QED
    BY <2>2, <2>4, <2>5, <2>6, <2>7
<1>2. QED
  BY <1>1, QueueInvariant, PTL

\* TurnsAreFull: a seat is left out of a turn only when the turn is as wide as
\* allowed, or its lane is in the turn and none is there to be borrowed.
THEOREM TurnsAreFull == Spec => []FullTurns
<1>1. TypeOK /\ LanesInv /\ QueueInv => FullTurns
  BY DEF QueueInv, WidthInv, CannotSit, FullTurns
<1>2. QED
  BY <1>1, QueueInvariant, PTL

\* NobodyIsForgotten: a thread blocked in spawn or in run has exactly one thing
\* pending that will answer it, and the worker never exits on a blocked thread.
THEOREM NobodyIsForgotten == Spec => []CallersAreOwed
<1>1. TypeOK /\ LanesInv /\ QueueInv => CallersAreOwed
  <2> SUFFICES ASSUME TypeOK, LanesInv, QueueInv, NEW c \in Client
               PROVE  Pending(c) = IF caller[c] \in {"spawning", "calling"} THEN 1 ELSE 0
    BY DEF CallersAreOwed, LanesInv, PhaseInv
  <2> DEFINE R == {i \in DOMAIN requests :
                     requests[i].kind \in {"spawn", "call"} /\ requests[i].client = c}
             K == {completer \in completers : completer.client = c}
  <2>1. /\ \A i, j \in R : i = j
        /\ \A k, m \in K : k = m
        /\ ~(R # {} /\ K # {})
    <3>1. \A i, j \in R : i = j
      BY DEF LanesInv, BlockedInv, RequestInv
    <3>2. \A k, m \in K : k = m
      BY DEF LanesInv, BlockedInv, CompleterInv
    <3>3. ASSUME NEW i \in R, NEW k \in K PROVE FALSE
      BY <3>3 DEF LanesInv, BlockedInv, RequestInv, CompleterInv
    <3>4. QED
      BY <3>1, <3>2, <3>3
  <2>2. /\ R # {} => caller[c] \in {"spawning", "calling"}
        /\ K # {} => caller[c] \in {"spawning", "calling"}
    BY DEF LanesInv, BlockedInv, RequestInv, CompleterInv
  <2>3. caller[c] \in {"spawning", "calling"} => R # {} \/ K # {}
    BY DEF QueueInv, OwedInv
  <2>4. Pending(c) = Cardinality(R) + Cardinality(K)
    BY DEF Pending
  <2> HIDE DEF R, K
  <2>5. /\ R # {} => \E x : R = {x}
        /\ K # {} => \E x : K = {x}
    BY <2>1
  <2>6. /\ Cardinality(R) = IF R = {} THEN 0 ELSE 1
        /\ Cardinality(K) = IF K = {} THEN 0 ELSE 1
    BY <2>5, FS_Singleton, FS_EmptySet
  <2>7. QED
    BY <2>1, <2>2, <2>3, <2>4, <2>6
<1>2. QED
  BY <1>1, QueueInvariant, PTL

\* The seats of a call in one queue fill slots it waits for, each another one.
LEMMA InFlightSlots ==
  ASSUME NEW queue \in Seq(Seat), NEW completer, Distinct(queue)
  PROVE  LET slots == {queue[i].ix : i \in InFlight(queue, completer)} IN
         /\ IsFiniteSet(slots)
         /\ Cardinality(slots) = Cardinality(InFlight(queue, completer))
<1> DEFINE I == InFlight(queue, completer)
           slots == {queue[i].ix : i \in I}
           f == [i \in I |-> queue[i].ix]
<1>1. IsFiniteSet(I)
  <2>1. IsFiniteSet(1 .. Len(queue))
    BY FS_Interval
  <2>2. I \in SUBSET (1 .. Len(queue))
    BY DEF InFlight
  <2>3. QED
    BY <2>1, <2>2, FS_Subset
<1>2. f \in Surjection(I, slots)
  BY DEF Surjection
<1>3. f \in Injection(I, slots)
  BY DEF Injection, IsInjective, InFlight, Distinct, Clash
<1> HIDE DEF I, slots, f
<1>4. IsFiniteSet(slots) /\ Cardinality(slots) = Cardinality(I)
  <2>1. /\ IsFiniteSet(slots)
        /\ Cardinality(slots) = Cardinality(I) <=> f \in Injection(I, slots)
    BY <1>1, <1>2, FS_Surjection
  <2>2. QED
    BY <1>3, <2>1
<1>5. QED
  BY <1>4 DEF I, slots

\* Sizes add up over three disjoint sets.
LEMMA ThreeParts ==
  ASSUME NEW R, NEW S, NEW T, IsFiniteSet(R), IsFiniteSet(S), IsFiniteSet(T),
         R \cap S = {}, R \cap T = {}, S \cap T = {}
  PROVE  /\ Cardinality(R \cup S \cup T) = Cardinality(R) + Cardinality(S) + Cardinality(T)
<1>1. /\ IsFiniteSet(R \cup S)
      /\ Cardinality(R \cup S) = Cardinality(R) + Cardinality(S) - Cardinality(R \cap S)
  BY FS_Union
<1>2. Cardinality((R \cup S) \cup T)
        = Cardinality(R \cup S) + Cardinality(T) - Cardinality((R \cup S) \cap T)
  BY <1>1, FS_Union
<1>3. Cardinality(R \cap S) = 0 /\ Cardinality((R \cup S) \cap T) = 0
  <2>1. (R \cup S) \cap T = {}
    OBVIOUS
  <2>2. QED
    BY <2>1, FS_EmptySet
<1>4. Cardinality(R) \in Nat /\ Cardinality(S) \in Nat /\ Cardinality(T) \in Nat
  BY FS_CardinalityType
<1>5. QED
  BY <1>1, <1>2, <1>3, <1>4

\* The slots a call waits for are those that have a seat under way.
LEMMA ComingIsAwaited ==
  ASSUME TypeOK, LanesInv, QueueInv, NEW k \in completers
  PROVE  Coming(k) = (1 .. k.width) \ k.served
<1>1. \A ix \in (1 .. k.width) \ k.served :
         Has(seats, k.call, ix) \/ Has(waiting, k.call, ix) \/ Has(seated, k.call, ix)
  BY DEF QueueInv, CoverInv
<1>2. (1 .. k.width) \ k.served \subseteq Coming(k)
  BY <1>1 DEF Has, Coming, InFlight
<1>3. \A m \in completers : m.call = k.call => m = k
  BY DEF LanesInv, BlockedInv, CompleterInv
<1>4. \A i \in InFlight(seats, k) : seats[i].ix \in (1 .. k.width) \ k.served
  BY <1>3 DEF LanesInv, SeatInv, Owned, Answers, InFlight
<1>5. \A i \in InFlight(waiting, k) : waiting[i].ix \in (1 .. k.width) \ k.served
  BY <1>3 DEF LanesInv, SeatInv, Owned, Answers, InFlight
<1>6. \A i \in InFlight(seated, k) : seated[i].ix \in (1 .. k.width) \ k.served
  <2>1. CASE phase \in {"fill", "turn", "landed"}
    BY <1>3, <2>1 DEF LanesInv, SeatInv, Answers, InFlight
  <2>2. CASE phase = "failed"
    BY <2>2 DEF QueueInv, CoverInv, Answers, InFlight
  <2>3. CASE phase \in {"serve", "gone"}
    BY <2>3 DEF LanesInv, PhaseInv, InFlight
  <2>4. QED
    BY <2>1, <2>2, <2>3 DEF TypeOK
<1>7. Coming(k) \subseteq (1 .. k.width) \ k.served
  BY <1>4, <1>5, <1>6 DEF Coming
<1>8. QED
  BY <1>2, <1>7

\* NoSeatIsLost: every slot an unanswered call waits for has exactly one seat
\* under way, whatever turns its seats are split over, put back or failed in.
THEOREM NoSeatIsLost == Spec => []NoStrandedCall
<1>1. TypeOK /\ LanesInv /\ QueueInv => NoStrandedCall
  <2> SUFFICES ASSUME TypeOK, LanesInv, QueueInv, NEW k \in completers
               PROVE  /\ Coming(k) = (1 .. k.width) \ k.served
                      /\ Cardinality(InFlight(seats, k)) + Cardinality(InFlight(waiting, k))
                           + Cardinality(InFlight(seated, k))
                         = k.width - Cardinality(k.served)
    BY DEF NoStrandedCall
  <2> DEFINE slots(queue) == {queue[i].ix : i \in InFlight(queue, k)}
  <2>1. Coming(k) = (1 .. k.width) \ k.served
    BY ComingIsAwaited
  <2>2. Coming(k) = slots(seats) \cup slots(waiting) \cup slots(seated)
    BY DEF Coming
  <2>3. /\ slots(seats) \cap slots(waiting) = {}
        /\ slots(seats) \cap slots(seated) = {}
        /\ slots(waiting) \cap slots(seated) = {}
    BY DEF LanesInv, DistinctInv, Apart, Clash, InFlight
  <2>4. \A queue \in {seats, waiting, seated} :
           IsFiniteSet(slots(queue)) /\ Cardinality(slots(queue)) = Cardinality(InFlight(queue, k))
    <3>1. /\ seats \in Seq(Seat) /\ waiting \in Seq(Seat) /\ seated \in Seq(Seat)
          /\ Distinct(seats) /\ Distinct(waiting) /\ Distinct(seated)
      BY DEF TypeOK, LanesInv, DistinctInv
    <3>2. QED
      BY <3>1, InFlightSlots
  <2> HIDE DEF slots
  <2>5. Cardinality(Coming(k)) = Cardinality(slots(seats)) + Cardinality(slots(waiting))
                                   + Cardinality(slots(seated))
    BY <2>2, <2>3, <2>4, ThreeParts
  <2>6. Cardinality((1 .. k.width) \ k.served) = k.width - Cardinality(k.served)
    <3>1. k.width \in Nat /\ k.served \subseteq 1 .. k.width
      BY LanesAssumption DEF TypeOK, Completer, QueueInv, ServedInv
    <3>2. IsFiniteSet(1 .. k.width) /\ Cardinality(1 .. k.width) = k.width
      BY <3>1, FS_Interval
    <3>3. (1 .. k.width) \cap k.served = k.served
      BY <3>1
    <3>4. Cardinality((1 .. k.width) \ k.served)
            = Cardinality(1 .. k.width) - Cardinality((1 .. k.width) \cap k.served)
      BY <3>2, FS_Difference
    <3>5. QED
      BY <3>2, <3>3, <3>4
  <2>7. QED
    BY <2>1, <2>4, <2>5, <2>6
<1>2. QED
  BY <1>1, QueueInvariant, PTL

\* FirstSeatsAtHome: when handles are not cloned, the first seat of every call
\* sits in the lane its caller leased: only later seats of the call borrow.
THEOREM FirstSeatsAtHome ==
  ASSUME ~Cloning
  PROVE  Spec => []FirstSeatInOwnLane
<1>1. Init => OwnLaneInv
  BY InitOwnLaneInv
<1>2. TypeOK /\ LanesInv /\ QueueInv /\ OwnLaneInv /\ [Next]_vars => OwnLaneInv'
  BY NextOwnLaneInv DEF QueueInv
<1>3. TypeOK /\ LanesInv /\ OwnLaneInv => FirstSeatInOwnLane
  <2> SUFFICES ASSUME TypeOK, LanesInv, OwnLaneInv, phase = "turn",
                      NEW i \in DOMAIN seated, seated[i].ix = 1
               PROVE  \E c \in Client : /\ caller[c] = "calling"
                                        /\ lease[c] = [stream |-> seated[i].stream,
                                                       lane |-> seated[i].lane]
    BY DEF FirstSeatInOwnLane
  <2>1. PICK k \in completers : InItsLane(seated[i], k)
    BY DEF OwnLaneInv
  <2>2. k.client \in Client /\ caller[k.client] = "calling"
    BY DEF TypeOK, Completer, LanesInv, BlockedInv, CompleterInv
  <2>3. QED
    BY <2>1, <2>2 DEF InItsLane
<1>4. QED
  BY <1>1, <1>2, <1>3, QueueInvariant, PTL DEF Spec

-----------------------------------------------------------------------------
(* Without clones, a lane absorbs the first seat of a call once, and first.  *)

\* Every call under way holds a lease, on a lane nobody else is on.
LEMMA CallersHoldLanes ==
  ASSUME TypeOK, LanesInv, OwnLaneInv
  PROVE  /\ \A k \in completers : /\ k.client \in Client /\ caller[k.client] = "calling"
                                  /\ HoldsLease(k.client) /\ k.call \in Nat /\ k.call < calls
         /\ \A k, m \in completers : k.client = m.client \/ k.call = m.call => k = m
         /\ \A c \in Client : HoldsLease(c) => lease[c] \in Lease /\ lease[c].lane \in Lane
                                                /\ lease[c].lane \in Leased
         /\ \A c, d \in Client : HoldsLease(c) /\ HoldsLease(d) /\ lease[c].lane = lease[d].lane
                                    => c = d
<1>1. \A k \in completers : /\ k.client \in Client /\ caller[k.client] = "calling"
                            /\ k.call \in Nat /\ k.call < calls
  BY DEF TypeOK, Completer, LanesInv, BlockedInv, CompleterInv
<1>2. \A c \in Client : HoldsLease(c) => lease[c] \in Lease /\ lease[c].lane \in Lane
                                          /\ lease[c].lane \in Leased
  BY DEF TypeOK, Lease, LanesInv, BlockedInv, HandleInv, Leased
<1>3. \A c, d \in Client : HoldsLease(c) /\ HoldsLease(d) /\ lease[c].lane = lease[d].lane => c = d
  BY DEF LanesInv, SharingInv, LeasesAreExclusive, OwnLaneInv
<1>4. \A k, m \in completers : k.client = m.client \/ k.call = m.call => k = m
  BY DEF LanesInv, BlockedInv, CompleterInv
<1> QED
  BY <1>1, <1>2, <1>3, <1>4 DEF HoldsLease

\* A lane that is reset is nobody's.
LEMMA ResetsSpareLeases ==
  ASSUME TypeOK, LanesInv, OwnLaneInv, phase # "gone",
         NEW lane \in Lane, IsLowestFree(lane, taken), Reset(lane)
  PROVE  /\ \A c \in Client : HoldsLease(c) =>
               lane # lease[c].lane /\ history'[lease[c].lane] = history[lease[c].lane]
         /\ \A other \in Lane : history'[other] \in {history[other], <<>>}
<1>1. \A other \in Lane : other # lane => history'[other] = history[other]
  BY DEF Reset, TypeOK
<1>2. history'[lane] = <<>>
  BY DEF Reset, TypeOK
<1>3. \A c \in Client : HoldsLease(c) => lane # lease[c].lane
  BY CallersHoldLanes DEF IsLowestFree, Free, LanesInv, SharingInv, LaneAccounting
<1> QED
  BY <1>1, <1>2, <1>3, CallersHoldLanes

\* The lanes of a turn absorb a seat each, and other lanes nothing.
SeatAbsorbed(s) == [call |-> s.call, ix |-> s.ix, stream |-> s.stream]
LEMMA LanesAbsorb ==
  ASSUME TypeOK, LanesInv, phase = "turn", Absorb
  PROVE  /\ \A i \in DOMAIN seated : /\ seated[i] \in Seat /\ seated[i].lane \in Lane
                                     /\ history'[seated[i].lane] =
                                          Append(history[seated[i].lane], SeatAbsorbed(seated[i]))
         /\ \A lane \in Lane : lane \notin SeatedLanes => history'[lane] = history[lane]
<1>1. ASSUME NEW i \in DOMAIN seated
      PROVE  /\ seated[i] \in Seat /\ seated[i].lane \in Lane
             /\ history'[seated[i].lane] =
                   Append(history[seated[i].lane], SeatAbsorbed(seated[i]))
  <2> DEFINE lane == seated[i].lane
  <2>1. seated[i] \in Seat /\ lane \in Lane /\ lane \in SeatedLanes
    <3>1. seated[i] \in Seat
      BY DEF TypeOK
    <3> QED
      BY <3>1 DEF Seat, SeatedLanes
  <2>2. \E j \in DOMAIN seated : seated[j].lane = lane
    OBVIOUS
  <2>3. \A j \in DOMAIN seated : seated[j].lane = lane => j = i
    BY DEF LanesInv, SeatedInv
  <2>4. SeatOf(lane) = seated[i]
    BY <2>2, <2>3, Zenon DEF SeatOf
  <2> HIDE DEF lane
  <2>5. history'[lane] = Append(history[lane], SeatAbsorbed(seated[i]))
    BY <2>1, <2>4 DEF Absorb, SeatAbsorbed
  <2> QED
    BY <2>1, <2>5 DEF lane
<1>2. \A lane \in Lane : lane \notin SeatedLanes => history'[lane] = history[lane]
  BY DEF Absorb
<1> QED
  BY <1>1, <1>2

\* A seat of the turn in a lane that a caller leased is one of that caller's call.
LEMMA LeasedLanesSeatTheirCalls ==
  ASSUME TypeOK, LanesInv, OwnLaneInv, phase \in {"fill", "turn"}, NEW i \in DOMAIN seated,
         NEW c \in Client, HoldsLease(c), seated[i].lane = lease[c].lane
  PROVE  \E k \in completers : k.client = c /\ Answers(seated[i], k) /\ InItsLane(seated[i], k)
<1>1. seated[i].lane \notin borrowed
  BY CallersHoldLanes DEF LanesInv, SharingInv, LaneAccounting
<1>2. PICK k \in completers : Answers(seated[i], k) /\ InItsLane(seated[i], k)
  BY <1>1 DEF OwnLaneInv
<1>3. lease[k.client].lane = seated[i].lane
  BY <1>2 DEF InItsLane
<1> QED
  BY <1>2, <1>3, CallersHoldLanes

\* Fed is of the history of the call's own lane.
LEMMA SameFed ==
  ASSUME NEW k, NEW m, m.client = k.client, m.call = k.call,
         lease'[k.client] = lease[k.client],
         history'[lease[k.client].lane] = history[lease[k.client].lane]
  PROVE  Fed(m)' <=> Fed(k)
BY DEF Fed, FirstSeatOf


\* What a step leaves that advances no call.
LEMMA QuietKeepsFed ==
  ASSUME TypeOK, FedInv, calls' \in {calls, calls + 1}, completers' \subseteq completers,
         \A lane \in Lane : history'[lane] \in {history[lane], <<>>},
         \A k \in completers' :
            /\ lease'[k.client] = lease[k.client]
            /\ history'[lease[k.client].lane] = history[lease[k.client].lane]
            /\ phase' = "landed" /\ SitsFirst(k)' => phase = "landed" /\ SitsFirst(k)
            /\ phase \in {"landed", "failed"} /\ SitsFirst(k) =>
                  phase' \in {"landed", "failed"} /\ SitsFirst(k)'
  PROVE  CallsAreKnown' /\ ServedAreFed'
<1>1. CallsAreKnown'
  <2> SUFFICES ASSUME NEW lane \in Lane, NEW i \in DOMAIN history'[lane]
               PROVE  history'[lane][i].call < calls'
    BY DEF CallsAreKnown
  <2>1. history'[lane] = history[lane] /\ i \in DOMAIN history[lane]
    OBVIOUS
  <2>2. history[lane][i].call < calls
    BY <2>1 DEF FedInv, CallsAreKnown
  <2>3. history[lane][i] \in Absorbed /\ calls \in Nat
    BY <2>1 DEF TypeOK
  <2>4. history[lane][i].call \in Nat
    BY <2>3 DEF Absorbed
  <2> QED
    BY <2>1, <2>2, <2>3, <2>4
<1>2. ServedAreFed'
  <2> SUFFICES ASSUME NEW k \in completers'
               PROVE  /\ 1 \in k.served => Fed(k)'
                      /\ phase' = "landed" /\ SitsFirst(k)' => Fed(k)'
                      /\ Fed(k)' => \/ 1 \in k.served
                                    \/ phase' \in {"landed", "failed"} /\ SitsFirst(k)'
    BY DEF ServedAreFed
  <2>1. Fed(k)' <=> Fed(k)
    BY SameFed
  <2>2. k \in completers
    OBVIOUS
  <2> QED
    BY <2>1, <2>2 DEF FedInv, ServedAreFed
<1> QED
  BY <1>1, <1>2

\* A call that begins has no seat anywhere yet.
LEMMA ServeCallKeepsFed ==
  ASSUME TypeOK, LanesInv, FedInv, ServeCall
  PROVE  FedInv'
<1> DEFINE c == Head(requests).client
           new == [call |-> calls, client |-> c, width |-> Head(requests).width, served |-> {}]
<1>1. /\ completers' = completers \cup {new} /\ calls' = calls + 1 /\ calls \in Nat
      /\ UNCHANGED <<lease, history, seated>> /\ phase = "serve" /\ phase' = "serve"
      /\ Receive("call") /\ seated = <<>>
  BY DEF ServeCall, Receive, callerVars, turnVars, TypeOK, LanesInv, PhaseInv
<1>2. new.call = calls /\ new.client = c /\ new.served = {}
  OBVIOUS
<1>3. \A lane \in Lane : \A i \in DOMAIN history[lane] :
         history[lane][i].call \in Nat /\ history[lane][i].call < calls
  <2>1. \A lane \in Lane : \A i \in DOMAIN history[lane] : history[lane][i] \in Absorbed
    BY DEF TypeOK
  <2> QED
    BY <2>1 DEF Absorbed, FedInv, CallsAreKnown
<1>4. CallsAreKnown'
  BY <1>1, <1>3 DEF CallsAreKnown
<1>5. ~Fed(new)
  <2>1. 1 \in DOMAIN requests /\ Head(requests) = requests[1] /\ Head(requests) \in CallRequest
    BY <1>1, HeadRequest, TailElements DEF Receive, TypeOK
  <2>2. lease[c] = Head(requests).lease /\ Head(requests).kind = "call"
    BY <1>1, <2>1 DEF Receive, LanesInv, BlockedInv, RequestInv
  <2>3. lease[c].lane \in Lane
    BY <2>1, <2>2 DEF CallRequest, Lease
  <2> HIDE DEF new, c
  <2> QED
    BY <1>1, <1>2, <1>3, <2>3 DEF Fed, FirstSeatOf
<1> HIDE DEF new, c
<1>6. ServedAreFed'
  <2> SUFFICES ASSUME NEW k \in completers'
               PROVE  /\ 1 \in k.served => Fed(k)'
                      /\ phase' = "landed" /\ SitsFirst(k)' => Fed(k)'
                      /\ Fed(k)' => \/ 1 \in k.served
                                    \/ phase' \in {"landed", "failed"} /\ SitsFirst(k)'
    BY DEF ServedAreFed
  <2>1. Fed(k)' <=> Fed(k)
    BY <1>1, SameFed
  <2>2. CASE k = new
    BY <1>1, <1>2, <1>5, <2>1, <2>2
  <2>3. CASE k \in completers
    BY <1>1, <2>1, <2>3 DEF FedInv, ServedAreFed
  <2> QED
    BY <1>1, <2>2, <2>3
<1> QED
  BY <1>1, <1>4, <1>6 DEF FedInv, LaterSeatsFollow

\* A later seat of a call that finds its lane free comes after the first.
LEMMA SeatInItsLaneFollows ==
  ASSUME TypeOK, LanesInv, QueueInv, OwnLaneInv, FedInv, SeatInItsLane
  PROVE  LaterSeatsFollow'
<1>1. /\ PopSeat /\ ~TurnIsFull /\ seats[1].lane \notin SeatedLanes
      /\ seated' = Append(seated, seats[1]) /\ UNCHANGED <<lease, completers, phase>>
      /\ phase = "fill" /\ seats \in Seq(Seat) /\ 1 \in DOMAIN seats
  BY PopSeatElements DEF SeatInItsLane, callerVars
<1>2. ASSUME NEW k \in completers, InItsLane(seats[1], k), seats[1].ix # 1
      PROVE  1 \in k.served
  <2>1. PICK m \in completers : Answers(seats[1], m) /\ InItsLane(seats[1], m)
    BY <1>1 DEF LanesInv, SeatInv, Owned
  <2>2. m = k
    <3>1. lease[m.client].lane = lease[k.client].lane
      BY <1>2, <2>1 DEF InItsLane
    <3> QED
      BY <2>1, <3>1, CallersHoldLanes
  <2>3. seats[1].call = k.call /\ lease[k.client].lane = seats[1].lane
    BY <1>2, <2>1, <2>2 DEF Answers, InItsLane
  <2>4. k.width \in Nat /\ k.width >= 1 /\ k.served \subseteq 1 .. k.width /\ seats[1].ix \in Nat
    <3>1. seats[1] \in Seat /\ k \in Completer
      BY <1>1 DEF TypeOK
    <3>2. k.width \in 1 .. MaxWidth /\ seats[1].ix \in 1 .. MaxWidth
      BY <3>1 DEF Seat, Completer
    <3> QED
      BY <3>2, LanesAssumption DEF QueueInv, ServedInv
  <2> SUFFICES ASSUME 1 \notin k.served PROVE FALSE
    OBVIOUS
  <2>5. Has(seats, k.call, 1) \/ Has(waiting, k.call, 1) \/ Has(seated, k.call, 1)
    <3>1. 1 \in (1 .. k.width) \ k.served
      BY <2>4
    <3> QED
      BY <3>1 DEF QueueInv, CoverInv
  <2>6. CASE Has(seats, k.call, 1)
    <3>1. PICK i \in DOMAIN seats : seats[i].call = k.call /\ seats[i].ix = 1
      BY <2>6 DEF Has
    <3>2. i # 1 /\ 1 < i
      BY <1>1, <1>2, <3>1
    <3>3. Before(seats[1], seats[i])
      BY <1>1, <3>2 DEF QueueInv, OrderInv, InOrder
    <3>4. seats[1] \in Seat
      BY <1>1 DEF TypeOK
    <3>5. seats[1].call \in Nat /\ seats[1].ix \in 1 .. MaxWidth
      BY <3>4 DEF Seat
    <3>6. ~(seats[1].ix < 1)
      BY <3>5, LanesAssumption
    <3> QED
      BY <2>3, <3>1, <3>3, <3>5, <3>6 DEF Before
  <2>7. CASE Has(waiting, k.call, 1)
    <3>1. PICK i \in DOMAIN waiting : waiting[i].call = k.call /\ waiting[i].ix = 1
      BY <2>7 DEF Has
    <3>2. CannotSit(waiting[i])
      BY <1>1, <3>1 DEF QueueInv, WidthInv
    <3>3. waiting[i].lane \in SeatedLanes
      <4>1. Len(seated) \in Nat /\ MaxSeats \in Nat /\ ~(Len(seated) >= MaxSeats)
        BY <1>1, LanesAssumption, MaxLanesAssumption DEF TurnIsFull, TypeOK
      <4> QED
        BY <3>2, <4>1 DEF CannotSit
    <3>4. PICK n \in completers : Answers(waiting[i], n) /\ InItsLane(waiting[i], n)
      BY <3>1 DEF LanesInv, SeatInv, Owned
    <3>5. n = k
      BY <3>1, <3>4, CallersHoldLanes DEF Answers
    <3>6. waiting[i].lane = seats[1].lane
      BY <2>3, <3>4, <3>5 DEF InItsLane
    <3> QED
      BY <1>1, <3>3, <3>6
  <2>8. CASE Has(seated, k.call, 1)
    <3>1. PICK i \in DOMAIN seated : seated[i].call = k.call /\ seated[i].ix = 1
      BY <2>8 DEF Has
    <3>2. PICK n \in completers : Answers(seated[i], n) /\ InItsLane(seated[i], n)
      BY <1>1, <3>1 DEF OwnLaneInv
    <3>3. n = k
      BY <3>1, <3>2, CallersHoldLanes DEF Answers
    <3>4. seated[i].lane = seats[1].lane
      BY <2>3, <3>2, <3>3 DEF InItsLane
    <3> QED
      BY <1>1, <3>4 DEF SeatedLanes
  <2> QED
    BY <2>5, <2>6, <2>7, <2>8
<1>3. \A i \in DOMAIN seated' : \/ i \in DOMAIN seated /\ seated'[i] = seated[i]
                                \/ seated'[i] = seats[1]
  <2>1. seated \in Seq(Seat) /\ seated' = Append(seated, seats[1])
    BY <1>1 DEF TypeOK
  <2> QED
    BY <2>1, AppendElements
<1> SUFFICES ASSUME NEW i \in DOMAIN seated', NEW k \in completers, InItsLane(seated'[i], k),
                    seated'[i].ix # 1
             PROVE  1 \in k.served
  BY <1>1 DEF LaterSeatsFollow, InItsLane
<1>4. CASE seated'[i] = seats[1]
  BY <1>2, <1>4
<1>5. CASE i \in DOMAIN seated /\ seated'[i] = seated[i]
  BY <1>1, <1>5 DEF FedInv, LaterSeatsFollow
<1> QED
  BY <1>3, <1>4, <1>5


\* A turn that the lanes absorb feeds the calls whose first seat it has.
LEMMA AbsorbFeeds ==
  ASSUME TypeOK, LanesInv, OwnLaneInv, FedInv, phase = "turn", Absorb, lease' = lease,
         NEW k \in completers
  PROVE  Fed(k)' <=> Fed(k) \/ SitsFirst(k)
<1> DEFINE lane == lease[k.client].lane
<1>1. k.client \in Client /\ HoldsLease(k.client) /\ lane \in Lane
  BY CallersHoldLanes
<1>2. history[lane] \in Seq(Absorbed)
  BY <1>1 DEF TypeOK
<1>3. ASSUME SitsFirst(k) PROVE Fed(k)'
  <2>1. PICK i \in DOMAIN seated : FirstSeatOf(k, seated[i])
    BY <1>3 DEF SitsFirst
  <2>2. PICK m \in completers : Answers(seated[i], m) /\ InItsLane(seated[i], m)
    BY <2>1 DEF OwnLaneInv, FirstSeatOf
  <2>3. m = k
    BY <2>1, <2>2, CallersHoldLanes DEF Answers, FirstSeatOf
  <2>4. seated[i].lane = lane
    BY <2>2, <2>3 DEF InItsLane
  <2>5. history'[lane] = Append(history[lane], SeatAbsorbed(seated[i]))
    BY <2>4, LanesAbsorb
  <2>6. FirstSeatOf(k, SeatAbsorbed(seated[i]))
    BY <2>1 DEF FirstSeatOf, SeatAbsorbed
  <2> HIDE DEF lane
  <2>7. /\ Len(history[lane]) + 1 \in DOMAIN history'[lane]
        /\ history'[lane][Len(history[lane]) + 1] = SeatAbsorbed(seated[i])
    BY <1>2, <2>5
  <2>8. FirstSeatOf(k, history'[lane][Len(history[lane]) + 1])
    BY <2>6, <2>7
  <2> QED
    BY <2>7, <2>8 DEF Fed, lane, FirstSeatOf
<1>4. ASSUME NEW i \in DOMAIN seated, seated[i].lane = lane,
             history'[lane] = Append(history[lane], SeatAbsorbed(seated[i]))
      PROVE  Fed(k)' => Fed(k) \/ SitsFirst(k)
  <2> HIDE DEF lane
  <2> SUFFICES ASSUME NEW j \in DOMAIN history'[lane], FirstSeatOf(k, history'[lane][j])
               PROVE  Fed(k) \/ SitsFirst(k)
    BY DEF Fed, FirstSeatOf, lane
  <2>1. \/ j \in DOMAIN history[lane] /\ history'[lane][j] = history[lane][j]
        \/ history'[lane][j] = SeatAbsorbed(seated[i])
    BY <1>2, <1>4, AppendElements
  <2>2. CASE j \in DOMAIN history[lane] /\ history'[lane][j] = history[lane][j]
    BY <2>2 DEF Fed, lane
  <2>3. CASE history'[lane][j] = SeatAbsorbed(seated[i])
    BY <1>4, <2>3 DEF SitsFirst, FirstSeatOf, SeatAbsorbed
  <2> QED
    BY <2>1, <2>2, <2>3
<1>5. Fed(k) => Fed(k)'
  <2>1. \A j \in DOMAIN history[lane] :
           j \in DOMAIN history'[lane] /\ history'[lane][j] = history[lane][j]
    <3> HIDE DEF lane
    <3>1. CASE lane \in SeatedLanes
      <4>1. PICK i \in DOMAIN seated : seated[i].lane = lane
        BY <3>1 DEF SeatedLanes
      <4>2. history'[lane] = Append(history[lane], SeatAbsorbed(seated[i]))
        BY <4>1, LanesAbsorb
      <4> QED
        BY <1>2, <4>2, AppendElements
    <3>2. CASE lane \notin SeatedLanes
      BY <1>1, <3>2, LanesAbsorb
    <3> QED
      BY <3>1, <3>2
  <2> QED
    BY <2>1 DEF Fed, FirstSeatOf
<1>6. CASE lane \in SeatedLanes
  <2>1. PICK i \in DOMAIN seated : seated[i].lane = lane
    BY <1>6 DEF SeatedLanes
  <2>2. history'[lane] = Append(history[lane], SeatAbsorbed(seated[i]))
    BY <2>1, LanesAbsorb
  <2> QED
    BY <1>3, <1>4, <1>5, <2>1, <2>2
<1>7. CASE lane \notin SeatedLanes
  <2>1. history'[lane] = history[lane]
    BY <1>1, <1>7, LanesAbsorb
  <2> QED
    BY <1>3, <2>1 DEF Fed, FirstSeatOf
<1> QED
  BY <1>6, <1>7

LEMMA AbsorbKeepsFed ==
  ASSUME TypeOK, LanesInv, OwnLaneInv, FedInv, phase = "turn", Absorb,
         phase' \in {"landed", "failed"},
         UNCHANGED <<lease, completers, calls, seated>>
  PROVE  FedInv'
<1>1. CallsAreKnown'
  <2> SUFFICES ASSUME NEW lane \in Lane, NEW i \in DOMAIN history'[lane]
               PROVE  history'[lane][i].call < calls
    BY DEF CallsAreKnown
  <2>1. history[lane] \in Seq(Absorbed)
    BY DEF TypeOK
  <2>2. CASE lane \notin SeatedLanes
    BY <2>2, LanesAbsorb DEF FedInv, CallsAreKnown
  <2>3. CASE lane \in SeatedLanes
    <3>1. PICK j \in DOMAIN seated : seated[j].lane = lane
      BY <2>3 DEF SeatedLanes
    <3>2. history'[lane] = Append(history[lane], SeatAbsorbed(seated[j]))
      BY <3>1, LanesAbsorb
    <3>3. \/ i \in DOMAIN history[lane] /\ history'[lane][i] = history[lane][i]
          \/ history'[lane][i] = SeatAbsorbed(seated[j])
      BY <2>1, <3>2, AppendElements
    <3>4. seated[j].call < calls
      <4>1. PICK k \in completers : Answers(seated[j], k)
        BY DEF LanesInv, SeatInv
      <4> QED
        BY <4>1, CallersHoldLanes DEF Answers
    <3> QED
      BY <3>3, <3>4 DEF FedInv, CallsAreKnown, SeatAbsorbed
  <2> QED
    BY <2>2, <2>3
<1>2. ServedAreFed'
  <2> SUFFICES ASSUME NEW k \in completers
               PROVE  /\ 1 \in k.served => Fed(k)'
                      /\ phase' = "landed" /\ SitsFirst(k)' => Fed(k)'
                      /\ Fed(k)' => \/ 1 \in k.served
                                    \/ phase' \in {"landed", "failed"} /\ SitsFirst(k)'
    BY DEF ServedAreFed
  <2>1. SitsFirst(k)' <=> SitsFirst(k)
    BY DEF SitsFirst
  <2> QED
    BY <2>1, AbsorbFeeds DEF FedInv, ServedAreFed
<1> QED
  BY <1>1, <1>2 DEF FedInv, LaterSeatsFollow

\* The first seat of a call leaves the turn as its slot is filled, or with its call.
LEMMA HandBackKeepsFirst ==
  ASSUME TypeOK, HandBack, NEW k, ~FirstSeatOf(k, Head(seated))
  PROVE  /\ SitsFirst(k)' <=> SitsFirst(k)
         /\ SitsFirst(k) => phase' = phase
<1>1. seated \in Seq(Seat) /\ seated # <<>> /\ seated' = Tail(seated)
  BY DEF HandBack, TypeOK
<1>2. /\ \A i \in DOMAIN seated' : i + 1 \in DOMAIN seated /\ seated'[i] = seated[i + 1]
      /\ \A i \in DOMAIN seated : i # 1 => i - 1 \in DOMAIN seated' /\ seated'[i - 1] = seated[i]
      /\ Head(seated) = seated[1] /\ Len(seated) = 1 => \A i \in DOMAIN seated : i = 1
  BY <1>1
<1>3. ASSUME SitsFirst(k) PROVE SitsFirst(k)' /\ phase' = phase
  <2>1. PICK i \in DOMAIN seated : FirstSeatOf(k, seated[i])
    BY <1>3 DEF SitsFirst
  <2>2. i # 1
    BY <1>1, <2>1
  <2>3. Len(seated) # 1
    BY <1>2, <2>2, <1>1
  <2>4. FirstSeatOf(k, seated'[i - 1]) /\ i - 1 \in DOMAIN seated'
    BY <1>2, <2>1, <2>2
  <2> QED
    BY <2>3, <2>4 DEF SitsFirst, HandBack, FirstSeatOf
<1>4. ASSUME SitsFirst(k)' PROVE SitsFirst(k)
  <2>1. PICK i \in DOMAIN seated' : FirstSeatOf(k, seated'[i])
    BY <1>4 DEF SitsFirst, FirstSeatOf
  <2> QED
    BY <1>2, <2>1 DEF SitsFirst
<1> QED
  BY <1>3, <1>4

LEMMA LandSeatKeepsFed ==
  ASSUME TypeOK, LanesInv, OwnLaneInv, FedInv, LandSeat
  PROVE  FedInv'
<1> DEFINE head == Head(seated)
<1>1. /\ HandBack /\ phase = "landed" /\ phase' \in {"landed", "serve"}
      /\ UNCHANGED <<lease, calls, history>>
  BY DEF LandSeat, HandBack
<1>2. PICK n \in completers :
        /\ n.call = head.call
        /\ \/ completers' = completers \ {n}
           \/ completers' = (completers \ {n}) \cup {Fill(n, head.ix)}
  BY DEF LandSeat
<1>3. /\ Fill(n, head.ix).call = n.call /\ Fill(n, head.ix).client = n.client
      /\ Fill(n, head.ix).served = n.served \cup {head.ix}
  BY DEF Fill, TypeOK, Completer
<1>4. seated \in Seq(Seat) /\ 1 \in DOMAIN seated /\ head = seated[1]
  BY <1>1, HandBackElements
<1> HIDE DEF head
<1>5. ASSUME NEW k \in completers, NEW m \in completers', m.client = k.client, m.call = k.call,
             \/ m = k /\ k # n
             \/ k = n /\ m.served = n.served \cup {head.ix}
      PROVE  /\ 1 \in m.served => Fed(m)'
             /\ phase' = "landed" /\ SitsFirst(m)' => Fed(m)'
             /\ Fed(m)' => 1 \in m.served \/ (phase' \in {"landed", "failed"} /\ SitsFirst(m)')
  <2>1. Fed(m)' <=> Fed(k)
    BY <1>1, <1>5, SameFed
  <2>2. (SitsFirst(m) <=> SitsFirst(k)) /\ (FirstSeatOf(m, head) <=> FirstSeatOf(k, head))
    BY <1>5 DEF SitsFirst, FirstSeatOf
  <2>3. /\ 1 \in k.served => Fed(k)
        /\ SitsFirst(k) => Fed(k)
        /\ Fed(k) => 1 \in k.served \/ SitsFirst(k)
    BY <1>1 DEF FedInv, ServedAreFed
  <2>4. CASE ~FirstSeatOf(m, head)
    <3>1. /\ SitsFirst(m)' <=> SitsFirst(m)
          /\ SitsFirst(m) => phase' = phase
      BY <1>1, <2>4, HandBackKeepsFirst DEF head
    <3>2. 1 \in m.served <=> 1 \in k.served
      BY <1>2, <1>5, <2>4 DEF FirstSeatOf
    <3> QED
      BY <1>1, <2>1, <2>2, <2>3, <3>1, <3>2
  <2>5. CASE FirstSeatOf(m, head)
    <3>1. SitsFirst(k)
      BY <1>4, <2>2, <2>5 DEF SitsFirst
    <3>2. k = n
      BY <1>2, <1>5, <2>5, CallersHoldLanes DEF FirstSeatOf
    <3>3. 1 \in m.served
      BY <1>5, <2>5, <3>2 DEF FirstSeatOf
    <3> QED
      BY <2>1, <2>3, <3>1, <3>3
  <2> QED
    BY <2>4, <2>5
<1>6. ServedAreFed'
  <2> SUFFICES ASSUME NEW m \in completers'
               PROVE  /\ 1 \in m.served => Fed(m)'
                      /\ phase' = "landed" /\ SitsFirst(m)' => Fed(m)'
                      /\ Fed(m)' => \/ 1 \in m.served
                                    \/ phase' \in {"landed", "failed"} /\ SitsFirst(m)'
    BY DEF ServedAreFed
  <2>1. CASE m \in completers \ {n}
    BY <1>5, <2>1
  <2>2. CASE m = Fill(n, head.ix)
    BY <1>3, <1>5, <2>2
  <2> QED
    BY <1>2, <2>1, <2>2
<1> QED
  BY <1>1, <1>6 DEF FedInv, CallsAreKnown, LaterSeatsFollow

\* A turn that is handed back without outputs feeds nobody.
LEMMA FailedSeatsKeepFed ==
  ASSUME TypeOK, LanesInv, OwnLaneInv, FedInv, FailSeat \/ SkipSeat
  PROVE  FedInv'
<1>1. /\ HandBack /\ phase \in {"landed", "failed"} /\ phase' \in {phase, "serve"}
      /\ UNCHANGED <<lease, calls, history>> /\ completers' \subseteq completers
      /\ \A k \in completers' : k.call # Head(seated).call
  <2>1. CASE SkipSeat
    BY <2>1 DEF SkipSeat, HandBack, callerVars, queueVars
  <2>2. CASE FailSeat
    <3>1. PICK n \in completers : n.call = Head(seated).call /\ completers' = completers \ {n}
      BY <2>2 DEF FailSeat
    <3>2. \A k \in completers' : k.call # n.call
      BY <3>1, CallersHoldLanes
    <3> QED
      BY <2>2, <3>1, <3>2 DEF FailSeat, HandBack
  <2> QED
    BY <2>1, <2>2
<1>2. ASSUME NEW k \in completers'
      PROVE  (SitsFirst(k)' <=> SitsFirst(k)) /\ (SitsFirst(k) => phase' = phase)
  <2>1. ~FirstSeatOf(k, Head(seated))
    BY <1>1 DEF FirstSeatOf
  <2> QED
    BY <1>1, <2>1, HandBackKeepsFirst
<1>3. CallsAreKnown' /\ ServedAreFed'
  BY <1>1, <1>2, QuietKeepsFed
<1> QED
  BY <1>1, <1>3 DEF FedInv, LaterSeatsFollow

\* Steps of a caller, and of the worker while no turn is under way.
LEMMA StillTurnKeepsFed ==
  ASSUME TypeOK, LanesInv, OwnLaneInv, FedInv, UNCHANGED <<seated, completers>>,
         calls' \in {calls, calls + 1}, \A lane \in Lane : history'[lane] \in {history[lane], <<>>},
         \A k \in completers : /\ lease'[k.client] = lease[k.client]
                               /\ history'[lease[k.client].lane] = history[lease[k.client].lane],
         phase' = phase \/ (phase' # "landed" /\ phase \notin {"landed", "failed"}),
         phase' \in {"fill", "turn"} => phase \in {"fill", "turn"} \/ seated = <<>>
  PROVE  FedInv'
<1>1. \A k : SitsFirst(k)' <=> SitsFirst(k)
  BY DEF SitsFirst
<1>2. CallsAreKnown' /\ ServedAreFed'
  BY <1>1, QuietKeepsFed
<1>3. LaterSeatsFollow'
  <2> SUFFICES ASSUME phase' \in {"fill", "turn"}, NEW i \in DOMAIN seated, NEW k \in completers,
                      InItsLane(seated[i], k)', seated[i].ix # 1
               PROVE  1 \in k.served
    BY DEF LaterSeatsFollow, InItsLane
  <2>1. InItsLane(seated[i], k) /\ phase \in {"fill", "turn"}
    BY DEF InItsLane
  <2> QED
    BY <2>1 DEF FedInv, LaterSeatsFollow
<1> QED
  BY <1>2, <1>3 DEF FedInv

LEMMA NextFedInv ==
  ~Cloning /\ TypeOK /\ LanesInv /\ QueueInv /\ OwnLaneInv /\ FedInv /\ [Next]_vars => FedInv'
<1> SUFFICES ASSUME ~Cloning, TypeOK, LanesInv, QueueInv, OwnLaneInv, FedInv, [Next]_vars
             PROVE  FedInv'
  OBVIOUS
<1>0. /\ \A k \in completers : k.client \in Client /\ caller[k.client] = "calling"
                               /\ HoldsLease(k.client)
      /\ calls \in Nat
  BY CallersHoldLanes DEF TypeOK
<1>1. CASE Callers \/ UNCHANGED vars
  <2>1. UNCHANGED <<phase, seated, completers, calls, history>>
    BY <1>1 DEF Callers, Spawn, Call, Clone, DropLease, DropRunnable, Joined, DropRoot,
       RootJoined, queueVars, turnVars, vars
  <2>2. \A k \in completers : lease'[k.client] = lease[k.client]
    BY <1>0, <1>1 DEF Callers, Spawn, Call, Clone, DropLease, DropRunnable, Joined, DropRoot,
       RootJoined, TypeOK, vars
  <2> QED
    BY <2>1, <2>2, StillTurnKeepsFed
<1>2. CASE ServeSpawn
  <2>1. PICK lane \in Lane : IsLowestFree(lane, taken) /\ Reset(lane)
                             /\ lease' = [lease EXCEPT ![Head(requests).client] =
                                                          [stream |-> streams, lane |-> lane]]
    BY <1>2 DEF ServeSpawn
  <2>2. /\ UNCHANGED <<phase, seated, completers, calls>> /\ phase = "serve" /\ Receive("spawn")
    BY <1>2 DEF ServeSpawn, Receive, queueVars, turnVars
  <2>3. caller[Head(requests).client] = "spawning"
    <3>1. 1 \in DOMAIN requests /\ Head(requests) = requests[1] /\ Head(requests).kind = "spawn"
      BY <2>2, TailElements DEF Receive, TypeOK
    <3> QED
      BY <3>1 DEF LanesInv, BlockedInv, RequestInv
  <2>4. \A k \in completers : lease'[k.client] = lease[k.client]
    BY <1>0, <2>1, <2>3 DEF TypeOK
  <2> QED
    BY <1>0, <2>1, <2>2, <2>4, ResetsSpareLeases, StillTurnKeepsFed
<1>3. CASE ServeCall
  BY <1>3, ServeCallKeepsFed
<1>4. CASE RefuseSpawn \/ RefuseCall \/ ServeDrop \/ Drained \/ Stop
  <2>1. /\ UNCHANGED <<lease, seated, completers, history>> /\ phase = "serve" /\ phase' # "landed"
        /\ calls' \in {calls, calls + 1}
    BY <1>4 DEF RefuseSpawn, RefuseCall, ServeDrop, Drained, Stop, Receive, callerVars, queueVars,
       turnVars
  <2>2. seated = <<>>
    BY <2>1 DEF LanesInv, PhaseInv
  <2> QED
    BY <2>1, <2>2, StillTurnKeepsFed
<1>5. CASE SeatInItsLane
  <2>1. /\ UNCHANGED <<lease, completers, calls, history>> /\ phase = "fill" /\ phase' = "fill"
    BY <1>5 DEF SeatInItsLane, PopSeat, callerVars
  <2>2. CallsAreKnown' /\ ServedAreFed'
    BY <2>1, QuietKeepsFed
  <2> QED
    BY <1>5, <2>2, SeatInItsLaneFollows DEF FedInv
<1>6. CASE SeatInBorrowedLane
  <2>1. PICK lane \in Lane : /\ IsLowestFree(lane, taken) /\ Reset(lane)
                             /\ seated' = Append(seated, [Head(seats) EXCEPT !.lane = lane])
    BY <1>6 DEF SeatInBorrowedLane
  <2> DEFINE seat == [Head(seats) EXCEPT !.lane = lane]
  <2>2. /\ UNCHANGED <<lease, completers, calls>> /\ phase = "fill" /\ phase' = "fill" /\ PopSeat
    BY <1>6 DEF SeatInBorrowedLane, PopSeat, callerVars
  <2>3. CallsAreKnown' /\ ServedAreFed'
    BY <1>0, <2>1, <2>2, ResetsSpareLeases, QuietKeepsFed
  <2>4. seat.lane = lane
    BY <2>2, HeadSeat DEF Seat
  <2>5. \A k \in completers : ~InItsLane(seat, k)
    <3>1. \A k \in completers : lease[k.client].lane # lane
      BY <1>0, <2>1, <2>2, ResetsSpareLeases
    <3> HIDE DEF seat
    <3> QED
      BY <2>4, <3>1 DEF InItsLane
  <2>6. \A i \in DOMAIN seated' : \/ i \in DOMAIN seated /\ seated'[i] = seated[i]
                                  \/ seated'[i] = seat
    BY <2>1, AppendElements DEF TypeOK
  <2> HIDE DEF seat
  <2>7. \A i \in DOMAIN seated' : \A k \in completers :
           InItsLane(seated'[i], k) /\ seated'[i].ix # 1 => 1 \in k.served
    BY <2>2, <2>5, <2>6 DEF FedInv, LaterSeatsFollow
  <2>8. LaterSeatsFollow'
    BY <2>2, <2>7 DEF LaterSeatsFollow, InItsLane
  <2> QED
    BY <2>3, <2>8 DEF FedInv
<1>7. CASE SeatMustWait \/ Filled
  <2>1. UNCHANGED <<lease, seated, completers, calls, history>> /\ phase = "fill"
        /\ phase' \in {"fill", "serve", "turn"}
    BY <1>7 DEF SeatMustWait, Filled, PopSeat, callerVars
  <2> QED
    BY <2>1, StillTurnKeepsFed
<1>8. CASE RunTurn \/ FailTurn
  <2>1. /\ UNCHANGED <<lease, seated, completers, calls>> /\ phase = "turn"
        /\ \/ Absorb /\ phase' \in {"landed", "failed"}
           \/ history' = history /\ phase' = "failed"
    BY <1>8 DEF RunTurn, FailTurn, callerVars, queueVars
  <2> QED
    BY <2>1, AbsorbKeepsFed, StillTurnKeepsFed
<1>9. CASE LandSeat
  BY <1>9, LandSeatKeepsFed
<1>10. CASE FailSeat \/ SkipSeat
  BY <1>10, FailedSeatsKeepFed
<1>11. CASE Panic
  BY <1>11 DEF Panic, FedInv, CallsAreKnown, ServedAreFed, LaterSeatsFollow
<1> QED
  BY <1>1, <1>2, <1>3, <1>4, <1>5, <1>6, <1>7, <1>8, <1>9, <1>10, <1>11
     DEF Next, Worker, Serve, FillTurn, Turn, Answer, Terminated

-----------------------------------------------------------------------------
(* Refinement: the steps of StreamStates, from what they change caller by     *)
(* caller.                                                                    *)

KeepsMode(d) == Mode(d)' = Mode(d)
KeepsState(d) == OwnState(d)' = OwnState(d)
KeepsFed(d) == WasFed(d)' = WasFed(d)

LEMMA WasFedIsBoolean == \A c : WasFed(c) \in BOOLEAN /\ WasFed(c)' \in BOOLEAN
BY DEF WasFed

LEMMA StutterStep ==
  ASSUME \A d \in Client : KeepsMode(d) /\ KeepsState(d) /\ KeepsFed(d), answer' = answer
  PROVE  UNCHANGED Abstract!vars
BY DEF KeepsMode, KeepsState, KeepsFed, Abstract!vars

LEMMA OpenStep ==
  ASSUME NEW c \in Client, Mode(c) = "closed", Mode(c)' = "opening",
         \A d \in Client \ {c} : KeepsMode(d),
         \A d \in Client : KeepsState(d) /\ KeepsFed(d), answer' = answer
  PROVE  Abstract!Open(c)
BY DEF KeepsMode, KeepsState, KeepsFed, Abstract!Open

LEMMA OpenedStep ==
  ASSUME NEW c \in Client, Mode(c) = "opening", Mode(c)' = "open",
         \A d \in Client \ {c} : KeepsMode(d),
         \A d \in Client : KeepsState(d) /\ KeepsFed(d), answer' = answer
  PROVE  Abstract!Opened(c)
BY DEF KeepsMode, KeepsState, KeepsFed, Abstract!Opened

LEMMA RefusedStep ==
  ASSUME NEW c \in Client, Mode(c) = "opening", Mode(c)' = "closed",
         \A d \in Client \ {c} : KeepsMode(d),
         \A d \in Client : KeepsState(d) /\ KeepsFed(d), answer' = answer
  PROVE  Abstract!Refused(c)
BY DEF KeepsMode, KeepsState, KeepsFed, Abstract!Refused

LEMMA RunStep ==
  ASSUME NEW c \in Client, Mode(c) = "open", Mode(c)' = "running",
         \A d \in Client \ {c} : KeepsMode(d),
         \A d \in Client : KeepsState(d) /\ KeepsFed(d), answer' = [answer EXCEPT ![c] = "none"]
  PROVE  Abstract!Run(c)
BY DEF KeepsMode, KeepsState, KeepsFed, Abstract!Run

LEMMA CloseStep ==
  ASSUME NEW c \in Client, Mode(c) = "open", Mode(c)' = "closed", OwnState(c)' = <<>>,
         \A d \in Client \ {c} : KeepsMode(d) /\ KeepsState(d),
         \A d \in Client : KeepsFed(d), answer' = [answer EXCEPT ![c] = "none"]
  PROVE  Abstract!Close(c)
BY DEF KeepsMode, KeepsState, KeepsFed, Abstract!Close

LEMMA ReturnStep ==
  ASSUME NEW c \in Client, NEW outcome \in {"ok", "error"}, Mode(c) = "running", Mode(c)' = "open",
         outcome = "ok" => WasFed(c), ~WasFed(c)',
         \A d \in Client \ {c} : KeepsMode(d) /\ KeepsFed(d),
         \A d \in Client : KeepsState(d), answer' = [answer EXCEPT ![c] = outcome]
  PROVE  Abstract!Return(c, outcome)
<1>1. [d \in Client |-> Mode(d)]' = [[d \in Client |-> Mode(d)] EXCEPT ![c] = "open"]
  BY DEF KeepsMode
<1>2. [d \in Client |-> WasFed(d)]' = [[d \in Client |-> WasFed(d)] EXCEPT ![c] = FALSE]
  <2>1. WasFed(c)' = FALSE
    BY WasFedIsBoolean
  <2> QED
    BY <2>1 DEF KeepsFed
<1>3. UNCHANGED [d \in Client |-> OwnState(d)]
  BY DEF KeepsState
<1>4. /\ [d \in Client |-> Mode(d)][c] = "running"
      /\ outcome = "ok" => [d \in Client |-> WasFed(d)][c]
  BY WasFedIsBoolean
<1> QED
  BY <1>1, <1>2, <1>3, <1>4 DEF Abstract!Return

LEMMA BreakDownStep ==
  ASSUME \A d \in Client :
            /\ Mode(d)' = CASE Mode(d) = "running" -> "open" [] Mode(d) = "opening" -> "closed"
                            [] OTHER -> Mode(d)
            /\ KeepsState(d) /\ ~WasFed(d)',
         answer' = [d \in Client |-> IF Mode(d) = "running" THEN "error" ELSE answer[d]]
  PROVE  Abstract!BreakDown
<1>1. [d \in Client |-> WasFed(d)]' = [d \in Client |-> FALSE]
  <2>1. \A d \in Client : WasFed(d)' = FALSE
    BY WasFedIsBoolean
  <2> QED
    BY <2>1
<1>2. UNCHANGED [d \in Client |-> OwnState(d)]
  BY DEF KeepsState
<1> QED
  BY <1>1, <1>2 DEF Abstract!BreakDown

LEMMA AdvanceStep ==
  ASSUME NEW S \in SUBSET Client, NEW ix \in [S -> 1 .. MaxWidth],
         \A d \in S : Mode(d) = "running" /\ (ix[d] = 1 <=> ~WasFed(d)),
         \A d \in S : OwnState(d)' = Append(OwnState(d), ix[d]) /\ WasFed(d)',
         \A d \in Client : KeepsMode(d),
         \A d \in Client \ S : KeepsState(d) /\ KeepsFed(d),
         answer' = answer
  PROVE  Abstract!Advance(S, ix)
<1>1. [d \in Client |-> WasFed(d)]' = [d \in Client |-> d \in S \/ [e \in Client |-> WasFed(e)][d]]
  <2>1. \A d \in Client : WasFed(d)' = (d \in S \/ WasFed(d))
    BY WasFedIsBoolean DEF KeepsFed
  <2> QED
    BY <2>1
<1>2. [d \in Client |-> OwnState(d)]' =
         [d \in Client |-> IF d \in S THEN Append([e \in Client |-> OwnState(e)][d], ix[d])
                                      ELSE [e \in Client |-> OwnState(e)][d]]
  BY DEF KeepsState
<1>3. UNCHANGED [d \in Client |-> Mode(d)]
  BY DEF KeepsMode
<1>4. \A d \in S : /\ [e \in Client |-> Mode(e)][d] = "running"
                   /\ ix[d] = 1 <=> ~[e \in Client |-> WasFed(e)][d]
  BY WasFedIsBoolean
<1> QED
  BY <1>1, <1>2, <1>3, <1>4 DEF Abstract!Advance

-----------------------------------------------------------------------------
(* What the steps of Lanes change of each caller's stream.                    *)

\* A caller has a call under way.
CallOf(d, call) == \E k \in completers : k.client = d /\ k.call = call

\* A stream is untouched when its lane, and the calls that fed it, are.
LEMMA UntouchedStream ==
  ASSUME NEW d \in Client, HoldsLease(d)' <=> HoldsLease(d),
         HoldsLease(d) =>
            /\ lease'[d] = lease[d] /\ history'[lease[d].lane] = history[lease[d].lane]
            /\ \A i \in DOMAIN history[lease[d].lane] : \A call :
                  history[lease[d].lane][i].call = call =>
                     (CallOf(d, call)' <=> CallOf(d, call))
  PROVE  KeepsState(d) /\ KeepsFed(d)
<1>1. KeepsState(d)
  BY DEF KeepsState, OwnState
<1>2. WasFed(d)' <=> WasFed(d)
  <2>1. WasFed(d) <=> /\ HoldsLease(d)
                      /\ \E i \in DOMAIN history[lease[d].lane] : \E call :
                            /\ history[lease[d].lane][i].call = call /\ CallOf(d, call)
                            /\ history[lease[d].lane][i].ix = 1
    <3> DEFINE h == history[lease[d].lane]
    <3>1. WasFed(d) <=> /\ HoldsLease(d)
                        /\ \E k \in completers : \E i \in DOMAIN h :
                              k.client = d /\ h[i].call = k.call /\ h[i].ix = 1
      BY DEF WasFed
    <3> HIDE DEF h
    <3>2. ASSUME NEW k \in completers, NEW i \in DOMAIN h,
                 k.client = d, h[i].call = k.call, h[i].ix = 1
          PROVE  \E j \in DOMAIN h : \E call : h[j].call = call /\ CallOf(d, call) /\ h[j].ix = 1
      <4>1. CallOf(d, k.call)
        BY <3>2 DEF CallOf
      <4> QED
        BY <3>2, <4>1
    <3>3. ASSUME NEW i \in DOMAIN h, NEW call, h[i].call = call, CallOf(d, call), h[i].ix = 1
          PROVE  \E k \in completers : \E j \in DOMAIN h :
                    k.client = d /\ h[j].call = k.call /\ h[j].ix = 1
      BY <3>3 DEF CallOf
    <3> QED
      BY <3>1, <3>2, <3>3 DEF h
  <2>2. WasFed(d)' <=> /\ HoldsLease(d)'
                       /\ \E i \in DOMAIN history'[lease'[d].lane] : \E call :
                             /\ history'[lease'[d].lane][i].call = call /\ CallOf(d, call)'
                             /\ history'[lease'[d].lane][i].ix = 1
    BY DEF WasFed, CallOf
  <2> QED
    BY <2>1, <2>2
<1> QED
  BY <1>1, <1>2, WasFedIsBoolean DEF KeepsFed

\* The calls of a caller change only with its own completer.
LEMMA SameCalls ==
  ASSUME completers' = completers
  PROVE  \A d, call : CallOf(d, call)' <=> CallOf(d, call)
BY DEF CallOf

LEMMA OthersCalls ==
  ASSUME NEW n \in completers, completers' = completers \ {n}
  PROVE  \A d, call : d # n.client => (CallOf(d, call)' <=> CallOf(d, call))
BY DEF CallOf

\* A caller without a call under way was fed nothing.
LEMMA NoCallNotFed ==
  ASSUME NEW d
  PROVE  /\ (\A k \in completers : k.client # d) => ~WasFed(d)
         /\ (\A k \in completers' : k.client # d) => ~WasFed(d)'
BY DEF WasFed

\* The call under way of a caller says whether it was fed.
LEMMA CallWasFed ==
  ASSUME NEW k, NEW d,
         /\ k \in completers /\ HoldsLease(d) /\ k.client = d
         /\ \A m \in completers : m.client = d => m = k
  PROVE  WasFed(d) <=> Fed(k)
BY DEF WasFed, Fed, FirstSeatOf

LEMMA CallWasFedNext ==
  ASSUME NEW k, NEW d,
         /\ k \in completers' /\ HoldsLease(d)' /\ k.client = d
         /\ \A m \in completers' : m.client = d => m = k
  PROVE  WasFed(d)' <=> Fed(k)'
BY DEF WasFed, Fed, FirstSeatOf

\* What a lane absorbs, seen by its stream.
LEMMA StateAbsorbs ==
  ASSUME NEW h \in Seq(Absorbed), NEW x
  PROVE  [i \in DOMAIN Append(h, x) |-> Append(h, x)[i].ix]
            = Append([i \in DOMAIN h |-> h[i].ix], x.ix)
<1> DEFINE new == [i \in DOMAIN Append(h, x) |-> Append(h, x)[i].ix]
           old == [i \in DOMAIN h |-> h[i].ix]
<1>1. /\ DOMAIN h = 1 .. Len(h) /\ Len(h) \in Nat
      /\ DOMAIN Append(h, x) = 1 .. (Len(h) + 1)
      /\ \A i \in 1 .. (Len(h) + 1) : Append(h, x)[i] = IF i <= Len(h) THEN h[i] ELSE x
  OBVIOUS
<1>2. old = [i \in 1 .. Len(h) |-> h[i].ix]
  BY <1>1
<1>3. Append(old, x.ix) = [i \in 1 .. (Len(h) + 1) |-> IF i <= Len(h) THEN h[i].ix ELSE x.ix]
  BY <1>1, <1>2
<1>4. new = [i \in 1 .. (Len(h) + 1) |-> IF i <= Len(h) THEN h[i].ix ELSE x.ix]
  BY <1>1
<1> QED
  BY <1>3, <1>4

LEMMA BlankState == ASSUME NEW h, h = <<>> PROVE [i \in DOMAIN h |-> h[i].ix] = <<>>
<1>1. DOMAIN h = {}
  OBVIOUS
<1> QED
  BY <1>1

StreamInv == TypeOK /\ LanesInv /\ QueueInv /\ OwnLaneInv /\ FedInv

\* A step that wakes nobody and leaves calls and the leased lanes is invisible.
LEMMA InvisibleStep ==
  ASSUME StreamInv, UNCHANGED <<lease, answer>>,
         \A d \in Client : /\ KeepsMode(d) /\ (HoldsLease(d)' <=> HoldsLease(d))
                           /\ HoldsLease(d) => history'[lease[d].lane] = history[lease[d].lane],
         \A d \in Client, call \in Nat : call < calls => (CallOf(d, call)' <=> CallOf(d, call))
  PROVE  UNCHANGED Abstract!vars
<1> SUFFICES ASSUME NEW d \in Client PROVE KeepsState(d) /\ KeepsFed(d)
  BY StutterStep
<1>1. \A i \in DOMAIN history[lease[d].lane] : HoldsLease(d) =>
         history[lease[d].lane][i].call \in Nat /\ history[lease[d].lane][i].call < calls
  <2>1. HoldsLease(d) => lease[d].lane \in Lane
    BY CallersHoldLanes DEF StreamInv
  <2>2. \A lane \in Lane : \A i \in DOMAIN history[lane] : history[lane][i] \in Absorbed
    BY DEF StreamInv, TypeOK
  <2> QED
    BY <2>1, <2>2 DEF StreamInv, FedInv, CallsAreKnown, Absorbed
<1> QED
  BY <1>1, UntouchedStream

LEMMA SameMode ==
  ASSUME NEW d, caller'[d] = caller[d]
  PROVE  KeepsMode(d) /\ (HoldsLease(d)' <=> HoldsLease(d))
BY DEF KeepsMode, Mode, HoldsLease

\* Nobody but the threads blocked in run has a call under way.
LEMMA OnlyBlockedAreFed ==
  ASSUME StreamInv, NEW d, caller[d] # "calling" PROVE ~WasFed(d)
<1>1. \A k \in completers : k.client # d
  BY DEF StreamInv, LanesInv, BlockedInv, CompleterInv
<1> QED
  BY <1>1, NoCallNotFed

LEMMA CallersSimulate ==
  ASSUME ~Cloning, StreamInv, Callers
  PROVE  [Abstract!Next]_Abstract!vars
<1>1. UNCHANGED <<history, completers>> /\ \A d, call : CallOf(d, call)' <=> CallOf(d, call)
  <2>1. UNCHANGED <<history, completers>>
    BY DEF Callers, Spawn, Call, Clone, DropLease, DropRunnable, Joined, DropRoot, RootJoined,
       queueVars
  <2> QED
    BY <2>1, SameCalls
<1>2. caller \in [Client -> {"idle", "spawning", "ready", "calling", "dropping", "joining"}]
      /\ lease \in [Client -> Lease \cup {NoLease}]
  BY DEF StreamInv, TypeOK
<1>3. ASSUME NEW c \in Client, Spawn(c) PROVE Abstract!Open(c)
  <2>1. /\ caller[c] = "idle" /\ caller'[c] = "spawning"
        /\ \A d \in Client \ {c} : caller'[d] = caller[d] /\ UNCHANGED <<lease, answer>>
    BY <1>2, <1>3 DEF Spawn
  <2>2. Mode(c) = "closed" /\ Mode(c)' = "opening" /\ ~HoldsLease(c) /\ ~HoldsLease(c)'
    BY <2>1 DEF Mode, HoldsLease
  <2>3. \A d \in Client \ {c} : KeepsMode(d)
    BY <2>1, SameMode
  <2>4. \A d \in Client : KeepsState(d) /\ KeepsFed(d)
    BY <1>1, <1>3, <2>1, <2>2, SameMode, UntouchedStream DEF Spawn
  <2> QED
    BY <1>3, <2>2, <2>3, <2>4, OpenStep DEF Spawn
<1>4. ASSUME NEW c \in Client, NEW width \in 0 .. MaxWidth, Call(c, width) PROVE Abstract!Run(c)
  <2>1. /\ caller[c] = "ready" /\ caller'[c] = "calling" /\ lease' = lease
        /\ \A d \in Client \ {c} : caller'[d] = caller[d]
        /\ answer' = [answer EXCEPT ![c] = "none"]
    BY <1>2, <1>4 DEF Call
  <2>2. Mode(c) = "open" /\ Mode(c)' = "running" /\ HoldsLease(c) /\ HoldsLease(c)'
    BY <2>1 DEF Mode, HoldsLease
  <2>3. \A d \in Client \ {c} : KeepsMode(d)
    BY <2>1, SameMode
  <2>4. \A d \in Client : KeepsState(d) /\ KeepsFed(d)
    BY <1>1, <2>1, <2>2, SameMode, UntouchedStream
  <2> QED
    BY <2>1, <2>2, <2>3, <2>4, RunStep
<1>5. ASSUME NEW c \in Client, DropLease(c) PROVE Abstract!Close(c)
  <2>1. /\ caller[c] = "ready" /\ caller'[c] = "dropping"
        /\ \A d \in Client \ {c} : caller'[d] = caller[d] /\ lease'[d] = lease[d]
        /\ answer' = [answer EXCEPT ![c] = "none"]
    BY <1>2, <1>5 DEF DropLease
  <2>2. Mode(c) = "open" /\ Mode(c)' = "closed" /\ ~HoldsLease(c)'
    BY <2>1 DEF Mode, HoldsLease
  <2>3. \A d \in Client \ {c} : KeepsMode(d)
    BY <2>1, SameMode
  <2>4. \A d \in Client \ {c} : KeepsState(d) /\ KeepsFed(d)
    BY <1>1, <2>1, SameMode, UntouchedStream
  <2>5. OwnState(c)' = <<>>
    BY <2>2 DEF OwnState
  <2>6. KeepsFed(c)
    <3>1. ~WasFed(c)
      BY <2>1, OnlyBlockedAreFed
    <3>2. ~WasFed(c)'
      BY <2>2 DEF WasFed
    <3> QED
      BY <3>1, <3>2, WasFedIsBoolean DEF KeepsFed
  <2> QED
    BY <2>1, <2>2, <2>3, <2>4, <2>5, <2>6, CloseStep
<1>6. ASSUME \/ \E c \in Client : DropRunnable(c) \/ Joined(c)
             \/ DropRoot \/ RootJoined
      PROVE  UNCHANGED Abstract!vars
  <2>1. /\ UNCHANGED <<lease, answer>>
        /\ \A d \in Client : caller'[d] = caller[d] \/ {caller[d], caller'[d]}
                                \subseteq {"dropping", "joining", "idle"}
    BY <1>2, <1>6 DEF DropRunnable, Joined, DropRoot, RootJoined
  <2>2. \A d \in Client : KeepsMode(d) /\ (HoldsLease(d)' <=> HoldsLease(d))
    BY <2>1 DEF KeepsMode, Mode, HoldsLease
  <2> QED
    BY <1>1, <2>1, <2>2, InvisibleStep
<1> QED
  BY <1>3, <1>4, <1>5, <1>6 DEF Callers, Clone, Abstract!Next

\* The request that is served is of a thread that waits for it.
LEMMA ServedCaller ==
  ASSUME StreamInv, NEW kind \in {"spawn", "call"}, Receive(kind)
  PROVE  /\ Head(requests).client \in Client
         /\ caller[Head(requests).client] = IF kind = "spawn" THEN "spawning" ELSE "calling"
         /\ kind = "call" => \A k \in completers : k.client # Head(requests).client
<1>1. 1 \in DOMAIN requests /\ Head(requests) = requests[1] /\ Head(requests).kind = kind
  BY TailElements DEF Receive, StreamInv, TypeOK
<1>2. Head(requests) \in Request
  BY <1>1 DEF StreamInv, TypeOK
<1>3. Head(requests).client \in Client
  BY <1>1, <1>2 DEF Request, SpawnRequest, CallRequest, DropRequest
<1> QED
  BY <1>1, <1>3 DEF StreamInv, LanesInv, BlockedInv, RequestInv

LEMMA ServeSpawnSimulates ==
  ASSUME StreamInv, ServeSpawn
  PROVE  \E c \in Client : Abstract!Opened(c)
<1>1. PICK c \in Client : c = Head(requests).client /\ caller[c] = "spawning"
  BY ServedCaller DEF ServeSpawn
<1>2. PICK lane \in Lane : IsLowestFree(lane, taken) /\ Reset(lane)
                           /\ lease' = [lease EXCEPT ![c] = [stream |-> streams, lane |-> lane]]
  BY <1>1 DEF ServeSpawn
<1>3. /\ phase # "gone" /\ UNCHANGED <<completers, answer>>
      /\ caller'[c] = "ready"
      /\ \A d \in Client \ {c} : caller'[d] = caller[d] /\ lease'[d] = lease[d]
      /\ lease'[c] = [stream |-> streams, lane |-> lane] /\ history'[lane] = <<>>
  BY <1>1, <1>2 DEF ServeSpawn, Receive, queueVars, StreamInv, TypeOK, Reset
<1>4. Mode(c) = "opening" /\ Mode(c)' = "open" /\ ~HoldsLease(c) /\ HoldsLease(c)'
  BY <1>1, <1>3 DEF Mode, HoldsLease
<1>5. \A d \in Client \ {c} : KeepsMode(d) /\ (HoldsLease(d)' <=> HoldsLease(d))
  BY <1>3, SameMode
<1>6. \A d \in Client : HoldsLease(d) => history'[lease[d].lane] = history[lease[d].lane]
  BY <1>2, <1>3, ResetsSpareLeases DEF StreamInv
<1>7. \A d \in Client \ {c} : KeepsState(d) /\ KeepsFed(d)
  BY <1>3, <1>5, <1>6, SameCalls, UntouchedStream
<1>8. KeepsState(c)
  <2>1. OwnState(c) = <<>>
    BY <1>4 DEF OwnState
  <2>2. OwnState(c)' = [i \in DOMAIN history'[lane] |-> history'[lane][i].ix]
    BY <1>3, <1>4 DEF OwnState
  <2> QED
    BY <1>3, <2>1, <2>2, BlankState DEF KeepsState
<1>9. KeepsFed(c)
  <2>1. ~WasFed(c)
    BY <1>4 DEF WasFed
  <2>2. ~WasFed(c)'
    BY <1>3 DEF WasFed
  <2> QED
    BY <2>1, <2>2, WasFedIsBoolean DEF KeepsFed
<1>10. Abstract!Opened(c)
  BY <1>3, <1>4, <1>5, <1>7, <1>8, <1>9, OpenedStep
<1> QED
  BY <1>10

LEMMA RefuseSpawnSimulates ==
  ASSUME StreamInv, RefuseSpawn
  PROVE  \E c \in Client : Abstract!Refused(c)
<1>1. PICK c \in Client : c = Head(requests).client /\ caller[c] = "spawning"
  BY ServedCaller DEF RefuseSpawn
<1>2. /\ UNCHANGED <<lease, history, completers, answer>>
      /\ caller'[c] = "idle" /\ \A d \in Client \ {c} : caller'[d] = caller[d]
  BY <1>1 DEF RefuseSpawn, queueVars, StreamInv, TypeOK
<1>3. Mode(c) = "opening" /\ Mode(c)' = "closed" /\ ~HoldsLease(c) /\ ~HoldsLease(c)'
  BY <1>1, <1>2 DEF Mode, HoldsLease
<1>4. \A d \in Client \ {c} : KeepsMode(d)
  BY <1>2, SameMode
<1>5. \A d \in Client : KeepsState(d) /\ KeepsFed(d)
  BY <1>2, <1>3, SameMode, SameCalls, UntouchedStream
<1>6. Abstract!Refused(c)
  BY <1>2, <1>3, <1>4, <1>5, RefusedStep
<1> QED
  BY <1>6

LEMMA ServeCallSimulates ==
  ASSUME StreamInv, ServeCall
  PROVE  UNCHANGED Abstract!vars
<1>1. UNCHANGED <<caller, lease, answer, history>>
  BY DEF ServeCall, callerVars
<1>2. ASSUME NEW d \in Client, NEW call \in Nat, call < calls
      PROVE  CallOf(d, call)' <=> CallOf(d, call)
  <2> DEFINE new == [call |-> calls, client |-> Head(requests).client,
                     width |-> Head(requests).width, served |-> {}]
  <2>1. completers' = completers \cup {new} /\ new.call = calls /\ calls \in Nat
    BY DEF ServeCall, StreamInv, TypeOK
  <2> HIDE DEF new
  <2> QED
    BY <1>2, <2>1 DEF CallOf
<1> QED
  BY <1>1, <1>2, SameMode, InvisibleStep

\* An answer that ends the call of one thread, and nothing else.
LEMMA AnswerSimulates ==
  ASSUME StreamInv, UNCHANGED <<lease, history>>, NEW c \in Client, caller[c] = "calling",
         NEW outcome \in {"ok", "error"}, Wake(c, outcome), outcome = "ok" => WasFed(c),
         \A k \in completers' : k.client # c,
         \A k \in completers : k.client # c => k \in completers', completers' \subseteq completers
  PROVE  Abstract!Return(c, outcome)
<1>1. /\ caller'[c] = "ready" /\ \A d \in Client \ {c} : caller'[d] = caller[d]
      /\ answer' = [answer EXCEPT ![c] = outcome]
  BY DEF Wake, StreamInv, TypeOK
<1>2. Mode(c) = "running" /\ Mode(c)' = "open" /\ HoldsLease(c) /\ HoldsLease(c)'
  BY <1>1 DEF Mode, HoldsLease
<1>3. \A d \in Client \ {c} : KeepsMode(d) /\ (HoldsLease(d)' <=> HoldsLease(d))
  BY <1>1, SameMode
<1>4. \A d \in Client \ {c} : \A call : CallOf(d, call)' <=> CallOf(d, call)
  BY DEF CallOf
<1>5. \A d \in Client \ {c} : KeepsState(d) /\ KeepsFed(d)
  BY <1>3, <1>4, UntouchedStream
<1>6. KeepsState(c)
  BY <1>2 DEF KeepsState, OwnState
<1>7. ~WasFed(c)'
  BY NoCallNotFed
<1> QED
  BY <1>1, <1>2, <1>3, <1>5, <1>6, <1>7, ReturnStep

LEMMA RefuseCallSimulates ==
  ASSUME StreamInv, RefuseCall
  PROVE  \E c \in Client : Abstract!Return(c, "error")
<1>1. PICK c \in Client : c = Head(requests).client /\ caller[c] = "calling"
                          /\ \A k \in completers : k.client # c
  BY ServedCaller DEF RefuseCall
<1>2. UNCHANGED <<lease, history, completers>> /\ Wake(c, "error")
  BY <1>1 DEF RefuseCall
<1>3. Abstract!Return(c, "error")
  BY <1>1, <1>2, AnswerSimulates
<1> QED
  BY <1>3

\* The rest of the serving and the filling of a turn show in no stream.
LEMMA FillSimulates ==
  ASSUME StreamInv, ServeDrop \/ Drained \/ Stop \/ FillTurn
  PROVE  UNCHANGED Abstract!vars
<1>1. UNCHANGED <<caller, lease, answer, completers>> /\ phase # "gone"
  BY DEF ServeDrop, Drained, Stop, FillTurn, SeatInItsLane, SeatInBorrowedLane, SeatMustWait,
     Filled, Receive, PopSeat, callerVars, queueVars
<1>2. \A d \in Client : HoldsLease(d) => history'[lease[d].lane] = history[lease[d].lane]
  <2>1. CASE SeatInBorrowedLane
    BY <1>1, <2>1, ResetsSpareLeases DEF SeatInBorrowedLane, StreamInv
  <2>2. CASE history' = history
    BY <2>2
  <2> QED
    BY <2>1, <2>2 DEF ServeDrop, Drained, Stop, FillTurn, SeatInItsLane, SeatMustWait, Filled
<1> QED
  BY <1>1, <1>2, SameMode, SameCalls, InvisibleStep

\* A turn that the lanes absorb advances the streams whose lanes it seats.
LEMMA AbsorbSimulates ==
  ASSUME StreamInv, phase = "turn", Absorb, UNCHANGED <<caller, lease, answer, completers>>
  PROVE  \E S \in SUBSET Client : \E ix \in [S -> 1 .. MaxWidth] : Abstract!Advance(S, ix)
<1> DEFINE S == {c \in Client : HoldsLease(c) /\ lease[c].lane \in SeatedLanes}
           at(c) == CHOOSE i \in DOMAIN seated : seated[i].lane = lease[c].lane
           ix == [c \in S |-> seated[at(c)].ix]
<1>1. ASSUME NEW c \in S
      PROVE  /\ at(c) \in DOMAIN seated /\ seated[at(c)].lane = lease[c].lane
             /\ \E k \in completers : k.client = c /\ Answers(seated[at(c)], k)
                                      /\ InItsLane(seated[at(c)], k)
  <2>1. at(c) \in DOMAIN seated /\ seated[at(c)].lane = lease[c].lane
    BY DEF SeatedLanes
  <2> HIDE DEF at
  <2> QED
    BY <2>1, LeasedLanesSeatTheirCalls DEF StreamInv
<1>2. \A c \in S : ix[c] = seated[at(c)].ix
  OBVIOUS
<1>3. \A c \in S : c \in Client /\ HoldsLease(c)
  OBVIOUS
<1>4. \A c \in Client \ S : HoldsLease(c) => lease[c].lane \notin SeatedLanes
  OBVIOUS
<1>5. S \in SUBSET Client
  OBVIOUS
<1>6. ix = [c \in S |-> ix[c]]
  OBVIOUS
<1> HIDE DEF S, at, ix
<1>7. \A c \in S : ix[c] \in 1 .. MaxWidth
  <2>1. \A i \in DOMAIN seated : seated[i] \in Seat
    BY DEF StreamInv, TypeOK
  <2> QED
    BY <1>1, <1>2, <2>1 DEF Seat
<1>8. ix \in [S -> 1 .. MaxWidth]
  BY <1>6, <1>7
<1>9. ASSUME NEW c \in S
      PROVE  /\ Mode(c) = "running" /\ (ix[c] = 1 <=> ~WasFed(c))
             /\ OwnState(c)' = Append(OwnState(c), ix[c]) /\ WasFed(c)'
  <2> DEFINE seat == seated[at(c)]
             lane == lease[c].lane
  <2>1. PICK k \in completers : k.client = c /\ Answers(seat, k) /\ InItsLane(seat, k)
    BY <1>1
  <2>2. caller[c] = "calling" /\ HoldsLease(c) /\ lane \in Lane /\ c \in Client
        /\ \A m \in completers : m.client = c => m = k
    BY <2>1, <1>3, CallersHoldLanes DEF StreamInv
  <2>3. (WasFed(c) <=> Fed(k)) /\ (WasFed(c)' <=> Fed(k)')
    <3>1. HoldsLease(c)' /\ \A m \in completers' : m.client = c => m = k
      BY <2>2 DEF HoldsLease
    <3> QED
      BY <2>1, <2>2, <3>1, CallWasFed, CallWasFedNext
  <2>4. seat.call = k.call /\ seat.ix \notin k.served /\ at(c) \in DOMAIN seated
    BY <1>1, <2>1 DEF Answers
  <2>5. ix[c] = 1 <=> ~Fed(k)
    <3>1. Fed(k) => 1 \in k.served
      BY DEF StreamInv, FedInv, ServedAreFed
    <3>2. seat.ix # 1 => 1 \in k.served
      BY <2>1, <2>4 DEF StreamInv, FedInv, LaterSeatsFollow
    <3>3. 1 \in k.served => Fed(k)
      BY DEF StreamInv, FedInv, ServedAreFed
    <3> QED
      BY <1>2, <2>4, <3>1, <3>2, <3>3
  <2>6. Fed(k)'
    <3>1. seat.ix = 1 => SitsFirst(k)
      BY <2>4 DEF SitsFirst, FirstSeatOf
    <3> QED
      BY <1>2, <2>5, <3>1, AbsorbFeeds DEF StreamInv
  <2>7. history'[lane] = Append(history[lane], SeatAbsorbed(seat)) /\ SeatAbsorbed(seat).ix = ix[c]
    BY <1>1, <1>2, LanesAbsorb DEF StreamInv, SeatAbsorbed
  <2>8. history[lane] \in Seq(Absorbed)
    BY <2>2 DEF StreamInv, TypeOK
  <2>9. /\ OwnState(c) = [i \in DOMAIN history[lane] |-> history[lane][i].ix]
        /\ OwnState(c)' = [i \in DOMAIN history'[lane] |-> history'[lane][i].ix]
    BY <2>2 DEF OwnState, HoldsLease
  <2> HIDE DEF seat, lane
  <2>10. OwnState(c)' = Append(OwnState(c), ix[c])
    BY <2>7, <2>8, <2>9, StateAbsorbs
  <2> QED
    BY <2>2, <2>3, <2>5, <2>6, <2>10, Zenon DEF Mode
<1>10. \A c \in Client : KeepsMode(c) /\ (HoldsLease(c)' <=> HoldsLease(c))
  BY SameMode
<1>11. ASSUME NEW c \in Client \ S PROVE KeepsState(c) /\ KeepsFed(c)
  <2>1. HoldsLease(c) => history'[lease[c].lane] = history[lease[c].lane]
    BY <1>4, LanesAbsorb, CallersHoldLanes DEF StreamInv
  <2> QED
    BY <1>10, <2>1, SameCalls, UntouchedStream
<1>12. Abstract!Advance(S, ix)
  BY <1>5, <1>8, <1>9, <1>10, <1>11, AdvanceStep
<1> QED
  BY <1>5, <1>8, <1>12

LEMMA TurnSimulates ==
  ASSUME StreamInv, Turn
  PROVE  [Abstract!Next]_Abstract!vars
<1>1. CASE RunTurn \/ FailTurn
  <2>1. /\ UNCHANGED <<caller, lease, answer, completers>> /\ phase = "turn"
        /\ Absorb \/ history' = history
    BY <1>1 DEF RunTurn, FailTurn, callerVars, queueVars
  <2>2. CASE Absorb
    BY <2>1, <2>2, AbsorbSimulates DEF Abstract!Next
  <2>3. CASE history' = history
    BY <2>1, <2>3, SameMode, SameCalls, InvisibleStep
  <2> QED
    BY <2>1, <2>2, <2>3
<1>2. CASE Panic
  <2>1. /\ UNCHANGED <<lease, history>> /\ completers' = {}
        /\ \A d \in Client : caller'[d] = CASE caller[d] = "calling"  -> "ready"
                                            [] caller[d] = "spawning" -> "idle"
                                            [] OTHER                  -> caller[d]
        /\ answer' = [d \in Client |-> IF caller[d] = "calling" THEN "error" ELSE answer[d]]
    BY <1>2 DEF Panic
  <2>2. ASSUME NEW d \in Client
        PROVE  /\ Mode(d)' = CASE Mode(d) = "running" -> "open" [] Mode(d) = "opening" -> "closed"
                                [] OTHER -> Mode(d)
               /\ KeepsState(d) /\ ~WasFed(d)'
               /\ Mode(d) = "running" <=> caller[d] = "calling"
    <3>1. /\ HoldsLease(d)' <=> HoldsLease(d)
          /\ Mode(d)' = CASE Mode(d) = "running" -> "open" [] Mode(d) = "opening" -> "closed"
                           [] OTHER -> Mode(d)
          /\ Mode(d) = "running" <=> caller[d] = "calling"
      BY <2>1, Zenon DEF Mode, HoldsLease
    <3> QED
      BY <2>1, <3>1, NoCallNotFed DEF KeepsState, OwnState
  <2>3. answer' = [d \in Client |-> IF Mode(d) = "running" THEN "error" ELSE answer[d]]
    BY <2>1, <2>2
  <2> QED
    BY <2>2, <2>3, BreakDownStep DEF Abstract!Next
<1> QED
  BY <1>1, <1>2 DEF Turn

LEMMA AnswersSimulate ==
  ASSUME StreamInv, Answer
  PROVE  [Abstract!Next]_Abstract!vars
<1>1. /\ UNCHANGED <<lease, history>>
      /\ \A k \in completers : k.client \in Client /\ caller[k.client] = "calling"
      /\ \A k, m \in completers : k.client = m.client => k = m
  BY CallersHoldLanes DEF StreamInv, Answer, LandSeat, FailSeat, SkipSeat, callerVars
<1>2. CASE LandSeat
  <2>1. PICK n \in completers :
          /\ n.call = Head(seated).call
          /\ LET filled == Fill(n, Head(seated).ix) IN
             IF IsFull(filled)
             THEN /\ completers' = completers \ {n}
                  /\ \E result \in Assembled(n) : Wake(n.client, result)
             ELSE /\ completers' = (completers \ {n}) \cup {filled}
                  /\ UNCHANGED <<caller, answer>>
    BY <1>2 DEF LandSeat
  <2>2. CASE IsFull(Fill(n, Head(seated).ix))
    <3>1. PICK result \in {"ok", "error"} : Wake(n.client, result)
      BY <2>1, <2>2 DEF Assembled
    <3>2. completers' = completers \ {n}
      BY <2>1, <2>2
    <3>3. Fed(n)
      <4>1. 1 \in n.served \/ Head(seated).ix = 1
        <5>1. n.width \in Nat /\ n.width >= 1
          BY LanesAssumption DEF StreamInv, TypeOK, Completer
        <5>2. n.served \cup {Head(seated).ix} = 1 .. n.width
          BY <2>2 DEF IsFull, Fill, StreamInv, TypeOK, Completer
        <5> QED
          BY <5>1, <5>2
      <4>2. Head(seated).ix = 1 => SitsFirst(n)
        <5>1. 1 \in DOMAIN seated /\ Head(seated) = seated[1]
          BY <1>2, HandBackElements DEF LandSeat, StreamInv
        <5> QED
          BY <2>1, <5>1 DEF SitsFirst, FirstSeatOf
      <4> QED
        BY <1>2, <4>1, <4>2 DEF LandSeat, StreamInv, FedInv, ServedAreFed
    <3>4. WasFed(n.client)
      BY <1>1, <3>3, CallWasFed DEF HoldsLease
    <3>5. PICK c \in Client : c = n.client
      BY <1>1
    <3>6. Abstract!Return(c, result)
      BY <1>1, <3>1, <3>2, <3>4, <3>5, AnswerSimulates
    <3> QED
      BY <3>5, <3>6, <3>1 DEF Abstract!Next
  <2>3. CASE ~IsFull(Fill(n, Head(seated).ix))
    <3>1. /\ UNCHANGED <<caller, answer>>
          /\ completers' = (completers \ {n}) \cup {Fill(n, Head(seated).ix)}
      BY <2>1, <2>3
    <3>2. Fill(n, Head(seated).ix).call = n.call /\ Fill(n, Head(seated).ix).client = n.client
      BY DEF Fill, StreamInv, TypeOK, Completer
    <3>3. \A d, call : CallOf(d, call)' <=> CallOf(d, call)
      BY <3>1, <3>2 DEF CallOf
    <3> QED
      BY <1>1, <3>1, <3>3, SameMode, InvisibleStep
  <2> QED
    BY <2>2, <2>3
<1>3. CASE FailSeat
  <2>1. PICK n \in completers : completers' = completers \ {n} /\ Wake(n.client, "error")
    BY <1>3 DEF FailSeat
  <2>2. PICK c \in Client : c = n.client
    BY <1>1
  <2>3. Abstract!Return(c, "error")
    BY <1>1, <2>1, <2>2, AnswerSimulates
  <2> QED
    BY <2>2, <2>3 DEF Abstract!Next
<1>4. CASE SkipSeat
  <2>1. UNCHANGED <<caller, answer, completers>>
    BY <1>4 DEF SkipSeat, callerVars, queueVars
  <2> QED
    BY <1>1, <2>1, SameMode, SameCalls, InvisibleStep
<1> QED
  BY <1>2, <1>3, <1>4 DEF Answer

LEMMA NextSimulates ==
  ~Cloning /\ StreamInv /\ [Next]_vars => [Abstract!Next]_Abstract!vars
<1> SUFFICES ASSUME ~Cloning, StreamInv, [Next]_vars
             PROVE  [Abstract!Next]_Abstract!vars
  OBVIOUS
<1>1. CASE Callers
  BY <1>1, CallersSimulate
<1>2. CASE ServeSpawn
  BY <1>2, ServeSpawnSimulates DEF Abstract!Next
<1>3. CASE RefuseSpawn
  BY <1>3, RefuseSpawnSimulates DEF Abstract!Next
<1>4. CASE ServeCall
  BY <1>4, ServeCallSimulates
<1>5. CASE RefuseCall
  BY <1>5, RefuseCallSimulates DEF Abstract!Next
<1>6. CASE ServeDrop \/ Drained \/ Stop \/ FillTurn
  BY <1>6, FillSimulates
<1>7. CASE Turn
  BY <1>7, TurnSimulates
<1>8. CASE Answer
  BY <1>8, AnswersSimulate
<1>9. CASE UNCHANGED vars
  <2>1. UNCHANGED <<caller, lease, answer, history, completers>>
    BY <1>9 DEF vars
  <2> QED
    BY <2>1, SameMode, SameCalls, InvisibleStep
<1> QED
  BY <1>1, <1>2, <1>3, <1>4, <1>5, <1>6, <1>7, <1>8, <1>9 DEF Next, Worker, Serve, Terminated

LEMMA InitSimulates == Init => Abstract!Init /\ FedInv
<1> SUFFICES ASSUME Init PROVE Abstract!Init /\ FedInv
  OBVIOUS
<1>1. \A c \in Client : Mode(c) = "closed" /\ OwnState(c) = <<>> /\ WasFed(c) = FALSE
  <2>1. \A c \in Client : caller[c] = "idle" /\ ~HoldsLease(c)
    BY DEF Init, HoldsLease
  <2> QED
    BY <2>1 DEF Mode, OwnState, WasFed
<1>2. FedInv
  BY DEF Init, FedInv, CallsAreKnown, ServedAreFed, LaterSeatsFollow
<1> QED
  BY <1>1, <1>2 DEF Init, Abstract!Init

\* As long as no handle is cloned, the runnable is one private state per
\* handle, which only the handle's own calls advance, in order, and which a
\* call that succeeds has advanced exactly once by its first seat: lanes,
\* queue, turns, borrowing and failures are invisible to the callers.
THEOREM OneStateForEachStream ==
  ASSUME ~Cloning
  PROVE  Spec => OneStatePerStream
<1>1. Init => OwnLaneInv /\ FedInv /\ Abstract!Init
  BY InitOwnLaneInv, InitSimulates
<1>2. TypeOK /\ LanesInv /\ QueueInv /\ OwnLaneInv /\ FedInv /\ [Next]_vars
        => OwnLaneInv' /\ FedInv'
  BY NextOwnLaneInv, NextFedInv DEF QueueInv
<1>3. TypeOK /\ LanesInv /\ QueueInv /\ OwnLaneInv /\ FedInv /\ [Next]_vars
        => [Abstract!Next]_Abstract!vars
  BY NextSimulates DEF StreamInv
<1> QED
  BY <1>1, <1>2, <1>3, QueueInvariant, PTL DEF Spec, OneStatePerStream, Abstract!Spec
================================================================================
