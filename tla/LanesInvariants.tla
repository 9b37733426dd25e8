--------------------------- MODULE LanesInvariants ---------------------------
(***************************************************************************)
(* The inductive invariant of Lanes: why the safety properties hold.  Its  *)
(* parts are checked by TLC and proved in LanesProofs.                     *)
(***************************************************************************)
EXTENDS Lanes

\* A handle that is not being dropped has a lease.
HandleInv == \A c \in Client : HoldsLease(c) <=> lease[c] # NoLease

\* A thread blocked in spawn or run is blocked on one thing: its request in the
\* queue, or its completer; a call in the queue carries the lease of its handle.
RequestInv ==
    /\ \A i \in DOMAIN requests :
          /\ requests[i].kind = "spawn" => caller[requests[i].client] = "spawning"
          /\ requests[i].kind = "call" =>
                /\ caller[requests[i].client] = "calling"
                /\ requests[i].lease = lease[requests[i].client]
                /\ \A k \in completers : k.client # requests[i].client
    /\ \A i, j \in DOMAIN requests :
          /\ requests[i].kind # "drop" /\ requests[j].kind # "drop"
          /\ requests[i].client = requests[j].client
          => i = j
CompleterInv ==
    /\ \A k \in completers : caller[k.client] = "calling" /\ k.call < calls
    /\ \A k, m \in completers : k.client = m.client \/ k.call = m.call => k = m

BlockedInv == HandleInv /\ RequestInv /\ CompleterInv

\* What each phase of the worker's loop leaves empty.
PhaseInv ==
    /\ borrowed # {} => phase \in {"fill", "turn"} /\ seated # <<>>
    /\ phase # "fill" => waiting = <<>>
    /\ phase \in {"serve", "gone"} => seated = <<>>
    /\ phase \in {"turn", "landed", "failed"} => seated # <<>>
    /\ phase = "gone" => requests = <<>> /\ completers = {} /\ seats = <<>>

\* Who holds which lane.
SharingInv ==
    /\ \A c \in Client : HoldsLease(c) => lease[c].stream < streams
    /\ LeasesAreExclusive
    /\ LaneAccounting

\* Every seat under way answers a call that waits for it ...
Answers(seat, completer) ==
    /\ seat.call = completer.call
    /\ seat.ix \in (1 .. completer.width) \ completer.served
\* ... and, until it is seated, sits in the lane its caller still holds.
InItsLane(seat, completer) ==
    lease[completer.client] = [stream |-> seat.stream, lane |-> seat.lane]
Owned(queue) == \A i \in DOMAIN queue : \E k \in completers :
                    Answers(queue[i], k) /\ InItsLane(queue[i], k)
SeatInv ==
    /\ Owned(seats) /\ Owned(waiting)
    /\ phase \in {"fill", "turn"} => \A i \in DOMAIN seated :
          \/ seated[i].lane \in borrowed
          \/ \E k \in completers : InItsLane(seated[i], k)
    /\ phase \in {"fill", "turn", "landed"} => \A i \in DOMAIN seated : \E k \in completers :
          Answers(seated[i], k)

\* No two seats under way fill the same slot.
Clash(s, t) == s.call = t.call /\ s.ix = t.ix
Distinct(queue) == \A i, j \in DOMAIN queue : Clash(queue[i], queue[j]) => i = j
Apart(queue, other) == \A i \in DOMAIN queue, j \in DOMAIN other : ~Clash(queue[i], other[j])
DistinctInv ==
    /\ Distinct(seats) /\ Distinct(waiting) /\ Distinct(seated)
    /\ Apart(seats, waiting) /\ Apart(seats, seated) /\ Apart(waiting, seated)

\* A turn being filled is no wider than allowed and uses no lane twice.
SeatedInv ==
    phase \in {"fill", "turn"} =>
        /\ Len(seated) <= MaxSeats
        /\ \A i, j \in DOMAIN seated : seated[i].lane = seated[j].lane => i = j

\* What a lane holds: its stream's seats only, or nothing when it is borrowed.
IsolationInv ==
    /\ \A c \in Client : HoldsLease(c) =>
          \A k \in DOMAIN history[lease[c].lane] :
              history[lease[c].lane][k].stream = lease[c].stream
    /\ \A lane \in borrowed : history[lane] = <<>>

LanesInv == BlockedInv /\ PhaseInv /\ SharingInv /\ SeatInv /\ DistinctInv /\ SeatedInv
            /\ IsolationInv

\* Seats are queued in the order their calls asked for them, and fill takes them
\* from the front: those it seated or put back go before those it has yet to see.
InOrder(queue) == \A i, j \in DOMAIN queue : i < j => Before(queue[i], queue[j])
Ahead(queue, other) == \A i \in DOMAIN queue, j \in DOMAIN other : Before(queue[i], other[j])
OrderInv ==
    /\ InOrder(seats) /\ InOrder(waiting) /\ Ahead(waiting, seats)
    /\ phase = "fill" => Ahead(seated, seats)

\* What was put back could not be seated, and still cannot.
CannotSit(seat) ==
    \/ Len(seated) = MaxSeats
    \/ seat.lane \in SeatedLanes /\ (Free(taken) = {} \/ ResetsMayFail)
WidthInv ==
    /\ phase = "fill" => \A i \in DOMAIN waiting : CannotSit(waiting[i])
    /\ phase = "turn" => \A i \in DOMAIN seats : CannotSit(seats[i])

\* A blocked thread has a request in the queue, or a completer.
OwedInv ==
    \A c \in Client :
        /\ caller[c] = "spawning" =>
              \E i \in DOMAIN requests : requests[i].kind = "spawn" /\ requests[i].client = c
        /\ caller[c] = "calling" =>
              \/ \E i \in DOMAIN requests : requests[i].kind = "call" /\ requests[i].client = c
              \/ \E k \in completers : k.client = c

\* A slot that a call waits for has a seat under way; of the seats that a failed
\* turn leaves, those whose call is still there fill a slot of it.
Has(queue, call, ix) == \E i \in DOMAIN queue : queue[i].call = call /\ queue[i].ix = ix
CoverInv ==
    /\ \A k \in completers : \A ix \in (1 .. k.width) \ k.served :
          Has(seats, k.call, ix) \/ Has(waiting, k.call, ix) \/ Has(seated, k.call, ix)
    /\ phase = "failed" => \A i \in DOMAIN seated : \A k \in completers :
          seated[i].call = k.call => Answers(seated[i], k)

\* Only slots of the call are filled.
ServedInv == \A k \in completers : k.served \subseteq 1 .. k.width

QueueInv == OrderInv /\ WidthInv /\ OwedInv /\ CoverInv /\ ServedInv

\* Without clones a stream has one caller, and only later seats of its call borrow.
OwnLaneInv ==
    /\ \A c, d \in Client :
          HoldsLease(c) /\ HoldsLease(d) /\ lease[c].stream = lease[d].stream => c = d
    /\ phase \in {"fill", "turn"} => \A i \in DOMAIN seated :
          \/ seated[i].ix # 1 /\ seated[i].lane \in borrowed
          \/ \E k \in completers : Answers(seated[i], k) /\ InItsLane(seated[i], k)

\* Whether the lane that a call was made in absorbed the call's first seat, and
\* whether that seat is in the turn.
FirstSeatOf(k, s) == s.call = k.call /\ s.ix = 1
Fed(k) == \E i \in DOMAIN history[lease[k.client].lane] :
              FirstSeatOf(k, history[lease[k.client].lane][i])
SitsFirst(k) == \E i \in DOMAIN seated : FirstSeatOf(k, seated[i])

\* Without clones, a lane absorbs the first seat of each call made in it once,
\* and before any other seat of that call.
CallsAreKnown == \A lane \in Lane : \A i \in DOMAIN history[lane] : history[lane][i].call < calls
ServedAreFed ==
    \A k \in completers :
        /\ 1 \in k.served => Fed(k)
        /\ phase = "landed" /\ SitsFirst(k) => Fed(k)
        /\ Fed(k) => 1 \in k.served \/ (phase \in {"landed", "failed"} /\ SitsFirst(k))
LaterSeatsFollow ==
    phase \in {"fill", "turn"} => \A i \in DOMAIN seated : \A k \in completers :
        InItsLane(seated[i], k) /\ seated[i].ix # 1 => 1 \in k.served
FedInv == CallsAreKnown /\ ServedAreFed /\ LaterSeatsFollow
==============================================================================
