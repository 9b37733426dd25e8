-------------------------------- MODULE Lanes --------------------------------
(***************************************************************************)
(* Serving many streams through one state (core/src/lanes.rs).             *)
(*                                                                         *)
(* Caller threads hold handles (LanedStateHandle); each handle shares the  *)
(* lease of one lane with its clones.  Every operation of a handle is a    *)
(* request on one mpsc queue.  A single worker thread owns the state and   *)
(* the lane table: it serves the requests, fills a turn from the queue of  *)
(* seats, runs the state once, and hands the outputs back to the calls.    *)
(*                                                                         *)
(* A caller thread blocks in spawn() and in run() until it is answered, so *)
(* sending the answer and the caller's wake-up are one step here.  What    *)
(* the worker does to its own fields is invisible to the callers, so the   *)
(* steps of its loop need only be as fine as the loops of the code.  The   *)
(* linger before a turn, the meters and the tensors are left out: a lane's *)
(* content is the history of the seats it absorbed since its last reset.   *)
(***************************************************************************)
EXTENDS LaneTable, FiniteSets

CONSTANTS
    Client,         \* caller threads; each holds at most one handle
    MaxSeats,       \* TRACT_MAX_SEATS, clamped to MaxLanes by wrap
    Cloning,        \* whether callers clone their handles
    ResetsMayFail,  \* whether State::reset_lanes may return an error
    TurnsMayFail,   \* whether State::run may return an error
    TurnsMayPanic,  \* whether State::run may panic, unwinding the worker
    MaxWidth,       \* bound: seats one call may ask for
    MaxCalls,       \* bound: calls sent in a behaviour
    MaxSpawns,      \* bound: spawns sent in a behaviour
    NoLease         \* the lease of a caller that holds no handle

ASSUME LanesAssumption ==
    /\ MaxSeats \in 0 .. MaxLanes
    /\ MaxWidth \in Nat \ {0}
    /\ MaxCalls \in Nat
    /\ MaxSpawns \in Nat
    /\ {Cloning, ResetsMayFail, TurnsMayFail, TurnsMayPanic} \subseteq BOOLEAN
    /\ NoLease \notin [stream : Nat, lane : Lane]

VARIABLES
    caller,      \* what each caller thread is doing
    lease,       \* the lease its handle shares: a lane, and the stream it serves
    answer,      \* what its last run returned
    root,        \* the application's own reference to the LanedRunnable
    sender,      \* Shared.requests still holds its Sender
    requests,    \* the mpsc queue
    phase,       \* where the worker is in its loop
    taken,       \* Worker.lanes
    seats,       \* Queue.seats, oldest first
    completers,  \* Queue.completers
    calls,       \* Queue.calls, the id of the next call
    seated,      \* seats of the turn being filled, run or handed back
    waiting,     \* seats fill has put back
    borrowed,    \* lanes fill took for the turn
    history,     \* per lane, the seats the state absorbed since its last reset
    streams,     \* streams opened so far: names the next one
    spawns,      \* spawns sent, for the bound MaxSpawns
    sent         \* calls sent, for the bound MaxCalls

callerVars == <<caller, lease, answer, root, sender>>
queueVars  == <<seats, completers, calls>>
turnVars   == <<seated, waiting, borrowed>>
boundVars  == <<spawns, sent>>
vars == <<caller, lease, answer, root, sender, requests, phase, taken, seats, completers,
          calls, seated, waiting, borrowed, history, streams, spawns, sent>>

-----------------------------------------------------------------------------
(* The data that travels.                                                  *)

Lease == [stream : Nat, lane : Lane]

\* Request::Spawn, Request::Call and Request::Drop.  A call's width is the
\* extent of axis 0 of its batched inputs; 0 stands for inputs that explode
\* refuses (a wrong count, a scalar, disagreeing extents, no seat at all).
SpawnRequest == [kind : {"spawn"}, client : Client]
CallRequest  == [kind : {"call"}, client : Client, lease : Lease, width : 0 .. MaxWidth]
DropRequest  == [kind : {"drop"}, lane : Lane]
Request == SpawnRequest \cup CallRequest \cup DropRequest

\* One seat of one call.  `stream` is not in the code: it names the caller's
\* stream for the properties, and no action reads it.
Seat == [call : Nat, ix : 1 .. MaxWidth, lane : Lane, stream : Nat]

\* The half of an answer the worker holds; `served` is the set of the slots
\* that are filled.
Completer == [call : Nat, client : Client, width : 1 .. MaxWidth,
              served : SUBSET (1 .. MaxWidth)]

Absorbed == [call : Nat, ix : 1 .. MaxWidth, stream : Nat]

-----------------------------------------------------------------------------
(* Sharing of the runnable and of the leases.                              *)

\* Handles whose lease field is still there, and the streams they keep open.
HoldsLease(c) == caller[c] \in {"ready", "calling"}

\* A handle keeps the runnable alive through its second field, which is
\* dropped after the lease.
HoldsRunnable(c) == caller[c] \in {"ready", "calling", "dropping"}

\* The queue is closed once every Sender is gone: the runnable's, and one per
\* lease.
Closed == ~sender /\ \A c \in Client : ~HoldsLease(c)

\* Sending on a queue whose receiver is gone fails and queues nothing.
Send(request) ==
    requests' = IF phase = "gone" THEN requests ELSE Append(requests, request)

-----------------------------------------------------------------------------
(* Caller threads.                                                         *)

\* LanedRunnable::spawn: ask for a lane and block.  It borrows the runnable,
\* which cannot be dropped meanwhile.
Spawn(c) ==
    /\ caller[c] = "idle" /\ root = "held" /\ phase # "gone"
    /\ spawns < MaxSpawns
    /\ spawns' = spawns + 1
    /\ caller' = [caller EXCEPT ![c] = "spawning"]
    /\ Send([kind |-> "spawn", client |-> c])
    /\ UNCHANGED <<lease, answer, root, sender, phase, taken, queueVars, turnVars, history,
                   streams, sent>>

\* LanedStateHandle::run: send the inputs and block.  Once the worker is gone
\* the send fails and run returns at once, changing nothing.
Call(c, width) ==
    /\ caller[c] = "ready" /\ phase # "gone"
    /\ sent < MaxCalls
    /\ sent' = sent + 1
    /\ caller' = [caller EXCEPT ![c] = "calling"]
    /\ answer' = [answer EXCEPT ![c] = "none"]
    /\ Send([kind |-> "call", client |-> c, lease |-> lease[c], width |-> width])
    /\ UNCHANGED <<lease, root, sender, phase, taken, queueVars, turnVars, history,
                   streams, spawns>>

\* LanedStateHandle::clone: the clone shares the lease, and may be moved to
\* another thread.
Clone(c, d) ==
    /\ Cloning
    /\ caller[c] = "ready" /\ caller[d] = "idle"
    /\ caller' = [caller EXCEPT ![d] = "ready"]
    /\ lease' = [lease EXCEPT ![d] = lease[c]]
    /\ UNCHANGED <<answer, root, sender, requests, phase, taken, queueVars, turnVars, history,
                   streams, boundVars>>

\* Mutant: any clone of the lease sends the lane back, not the last one.
DropLeaseOfAnyClone(c) ==
    /\ caller[c] = "ready"
    /\ caller' = [caller EXCEPT ![c] = "dropping"]
    /\ lease' = [lease EXCEPT ![c] = NoLease]
    /\ answer' = [answer EXCEPT ![c] = "none"]
    /\ Send([kind |-> "drop", lane |-> lease[c].lane])
    /\ UNCHANGED <<root, sender, phase, taken, queueVars, turnVars, history, streams,
                   boundVars>>

\* Dropping a handle drops its lease first.  The last clone of the lease sends
\* the lane back.
DropLease(c) ==
    /\ caller[c] = "ready"
    /\ caller' = [caller EXCEPT ![c] = "dropping"]
    /\ lease' = [lease EXCEPT ![c] = NoLease]
    /\ answer' = [answer EXCEPT ![c] = "none"]
    /\ IF \E d \in Client \ {c} : lease[d] = lease[c]
       THEN UNCHANGED requests
       ELSE Send([kind |-> "drop", lane |-> lease[c].lane])
    /\ UNCHANGED <<root, sender, phase, taken, queueVars, turnVars, history, streams,
                   boundVars>>

\* Mutant: the last drop joins the worker without taking the Sender first.
DropRunnableKeepingSender(c) ==
    /\ caller[c] = "dropping"
    /\ IF root = "held" \/ \E d \in Client \ {c} : HoldsRunnable(d)
       THEN caller' = [caller EXCEPT ![c] = "idle"]
       ELSE caller' = [caller EXCEPT ![c] = "joining"]
    /\ UNCHANGED <<lease, answer, root, sender, requests, phase, taken, queueVars, turnVars,
                   history, streams, boundVars>>

\* ... then the handle's reference to the runnable.  The last one runs
\* Shared::drop, which takes the Sender and joins the worker.
DropRunnable(c) ==
    /\ caller[c] = "dropping"
    /\ IF root = "held" \/ \E d \in Client \ {c} : HoldsRunnable(d)
       THEN /\ caller' = [caller EXCEPT ![c] = "idle"]
            /\ UNCHANGED sender
       ELSE /\ caller' = [caller EXCEPT ![c] = "joining"]
            /\ sender' = FALSE
    /\ UNCHANGED <<lease, answer, root, requests, phase, taken, queueVars, turnVars, history,
                   streams, boundVars>>

\* The join of Shared::drop returns when the worker thread has exited.
Joined(c) ==
    /\ caller[c] = "joining" /\ phase = "gone"
    /\ caller' = [caller EXCEPT ![c] = "idle"]
    /\ UNCHANGED <<lease, answer, root, sender, requests, phase, taken, queueVars, turnVars,
                   history, streams, boundVars>>

\* The application drops its own LanedRunnable, which no spawn is borrowing.
DropRoot ==
    /\ root = "held" /\ \A c \in Client : caller[c] # "spawning"
    /\ IF \E c \in Client : HoldsRunnable(c)
       THEN root' = "dropped" /\ UNCHANGED sender
       ELSE root' = "joining" /\ sender' = FALSE
    /\ UNCHANGED <<caller, lease, answer, requests, phase, taken, queueVars, turnVars, history,
                   streams, boundVars>>

RootJoined ==
    /\ root = "joining" /\ phase = "gone"
    /\ root' = "dropped"
    /\ UNCHANGED <<caller, lease, answer, sender, requests, phase, taken, queueVars, turnVars,
                   history, streams, boundVars>>

-----------------------------------------------------------------------------
(* The worker: serving requests (Worker::work, Worker::serve, Queue::push). *)

\* Pop the head of the request queue, which has this kind.  The worker serves
\* requests until the queue is drained, at the top of its loop only.
Receive(kind) ==
    /\ phase = "serve"
    /\ requests # <<>> /\ Head(requests).kind = kind
    /\ requests' = Tail(requests)

\* A caller blocked in run gets its answer.
Wake(c, result) ==
    /\ caller' = [caller EXCEPT ![c] = "ready"]
    /\ answer' = [answer EXCEPT ![c] = result]

\* Mutant: the state has no per-lane memory to reset, or forgets to.
ResetNothing(lane) == UNCHANGED history

Reset(lane) == history' = [history EXCEPT ![lane] = <<>>]

\* A lane is taken and reset, and the caller wakes up with a handle on it.
ServeSpawn ==
    /\ Receive("spawn")
    /\ \E lane \in Lane :
          /\ IsLowestFree(lane, taken)
          /\ taken' = TakeLane(taken, lane)
          /\ Reset(lane)
          /\ lease' = [lease EXCEPT ![Head(requests).client] =
                                        [stream |-> streams, lane |-> lane]]
    /\ caller' = [caller EXCEPT ![Head(requests).client] = "ready"]
    /\ streams' = streams + 1
    /\ UNCHANGED <<answer, root, sender, phase, queueVars, turnVars, boundVars>>

\* Mutant: a lane whose reset failed is not given back.
RefuseSpawnLeakingLane ==
    /\ Receive("spawn")
    /\ Free(taken) = {} \/ ResetsMayFail
    /\ caller' = [caller EXCEPT ![Head(requests).client] = "idle"]
    /\ taken' = taken \cup {lane \in Lane : IsLowestFree(lane, taken)}
    /\ UNCHANGED <<lease, answer, root, sender, phase, queueVars, turnVars, history, streams,
                   boundVars>>

\* The caller wakes up with an error, either because every lane is taken or
\* because the lane could not be reset; a lane that was taken is given back.
\* What a reset that failed half-way left in it does not matter: it is free,
\* and is reset again before anybody sits in it.
RefuseSpawn ==
    /\ Receive("spawn")
    /\ Free(taken) = {} \/ ResetsMayFail
    /\ caller' = [caller EXCEPT ![Head(requests).client] = "idle"]
    /\ UNCHANGED <<lease, answer, root, sender, phase, taken, queueVars, turnVars, history,
                   streams, boundVars>>

\* Mutants: slots numbered from zero; slices queued last first.
ExplodeFromZero(call) ==
    [ix \in 1 .. call.width |->
        [call |-> calls, ix |-> ix - 1, lane |-> call.lease.lane, stream |-> call.lease.stream]]
ExplodeBackwards(call) ==
    [ix \in 1 .. call.width |->
        [call |-> calls, ix |-> call.width + 1 - ix, lane |-> call.lease.lane,
         stream |-> call.lease.stream]]

\* One seat per slice of the call's batched inputs, in order, all of them in
\* the lane the caller leased.
Explode(call) ==
    [ix \in 1 .. call.width |->
        [call |-> calls, ix |-> ix, lane |-> call.lease.lane, stream |-> call.lease.stream]]

ServeCall ==
    /\ Receive("call")
    /\ Head(requests).width > 0
    /\ completers' = completers \cup
          {[call |-> calls, client |-> Head(requests).client,
            width |-> Head(requests).width, served |-> {}]}
    /\ seats' = seats \o Explode(Head(requests))
    /\ calls' = calls + 1
    /\ UNCHANGED <<callerVars, phase, taken, turnVars, history, streams, boundVars>>

\* Mutant: a call whose inputs are refused is forgotten.
RefuseCallSilently ==
    /\ Receive("call")
    /\ Head(requests).width = 0
    /\ calls' = calls + 1
    /\ UNCHANGED <<callerVars, phase, taken, seats, completers, turnVars, history, streams,
                   boundVars>>

\* explode refuses the inputs: the call is answered on the spot.
RefuseCall ==
    /\ Receive("call")
    /\ Head(requests).width = 0
    /\ Wake(Head(requests).client, "error")
    /\ calls' = calls + 1
    /\ UNCHANGED <<lease, root, sender, phase, taken, seats, completers, turnVars, history,
                   streams, boundVars>>

ServeDrop ==
    /\ Receive("drop")
    /\ taken' = GiveBack(taken, {Head(requests).lane})
    /\ UNCHANGED <<callerVars, phase, queueVars, turnVars, history, streams, boundVars>>

\* Nothing pending and a seat to run: fill a turn.
Drained ==
    /\ phase = "serve" /\ requests = <<>> /\ seats # <<>>
    /\ phase' = "fill"
    /\ UNCHANGED <<callerVars, requests, taken, queueVars, turnVars, history, streams,
                   boundVars>>

\* recv reports a closed queue: the worker thread exits.
Stop ==
    /\ phase = "serve" /\ requests = <<>> /\ seats = <<>> /\ Closed
    /\ phase' = "gone"
    /\ UNCHANGED <<callerVars, requests, taken, queueVars, turnVars, history, streams,
                   boundVars>>

-----------------------------------------------------------------------------
(* The worker: filling a turn (Worker::fill), one step per seat popped.    *)

SeatedLanes == {seated[i].lane : i \in DOMAIN seated}

\* Mutant: a turn stops one seat short.
TurnIsFullEarly == Len(seated) + 1 >= MaxSeats

TurnIsFull == Len(seated) >= MaxSeats

PopSeat == phase = "fill" /\ seats # <<>> /\ seats' = Tail(seats)

\* Mutant: a seat sits in its lane whether or not the turn has it already.
SeatInItsLaneTwice ==
    /\ PopSeat
    /\ ~TurnIsFull
    /\ seated' = Append(seated, Head(seats))
    /\ UNCHANGED <<callerVars, requests, phase, taken, completers, calls, waiting, borrowed,
                   history, streams, boundVars>>

SeatInItsLane ==
    /\ PopSeat
    /\ ~TurnIsFull
    /\ Head(seats).lane \notin SeatedLanes
    /\ seated' = Append(seated, Head(seats))
    /\ UNCHANGED <<callerVars, requests, phase, taken, completers, calls, waiting, borrowed,
                   history, streams, boundVars>>

\* Its lane took a seat already this turn: borrow a free one, reset.
SeatInBorrowedLane ==
    /\ PopSeat
    /\ ~TurnIsFull
    /\ Head(seats).lane \in SeatedLanes
    /\ \E lane \in Lane :
          /\ IsLowestFree(lane, taken)
          /\ taken' = TakeLane(taken, lane)
          /\ borrowed' = borrowed \cup {lane}
          /\ Reset(lane)
          /\ seated' = Append(seated, [Head(seats) EXCEPT !.lane = lane])
    /\ UNCHANGED <<callerVars, requests, phase, completers, calls, waiting, streams, boundVars>>

\* Mutant: seats that wait pile up last first.
SeatMustWaitInFront ==
    /\ PopSeat
    /\ \/ TurnIsFull
       \/ /\ Head(seats).lane \in SeatedLanes
          /\ Free(taken) = {} \/ ResetsMayFail
    /\ waiting' = <<Head(seats)>> \o waiting
    /\ UNCHANGED <<callerVars, requests, phase, taken, completers, calls, seated, borrowed,
                   history, streams, boundVars>>

\* The seat waits for another turn: this one is full, or the seat needs a lane
\* and none is free, or the free one could not be reset and was given back.
SeatMustWait ==
    /\ PopSeat
    /\ \/ TurnIsFull
       \/ /\ Head(seats).lane \in SeatedLanes
          /\ Free(taken) = {} \/ ResetsMayFail
    /\ waiting' = Append(waiting, Head(seats))
    /\ UNCHANGED <<callerVars, requests, phase, taken, completers, calls, seated, borrowed,
                   history, streams, boundVars>>

\* fill returns; a turn that seats nobody is skipped.
Filled ==
    /\ phase = "fill" /\ seats = <<>>
    /\ seats' = waiting
    /\ waiting' = <<>>
    /\ phase' = IF seated = <<>> THEN "serve" ELSE "turn"
    /\ UNCHANGED <<callerVars, requests, taken, completers, calls, seated, borrowed, history,
                   streams, boundVars>>

-----------------------------------------------------------------------------
(* The worker: running the turn and handing it back.                       *)

Seating == [i \in DOMAIN seated |-> seated[i].lane]

SeatOf(lane) == seated[CHOOSE i \in DOMAIN seated : seated[i].lane = lane]

\* What the lanes hold once the state has run the seated inputs.
Absorb ==
    history' = [lane \in Lane |->
        IF lane \in SeatedLanes
        THEN Append(history[lane], [call |-> SeatOf(lane).call, ix |-> SeatOf(lane).ix,
                                    stream |-> SeatOf(lane).stream])
        ELSE history[lane]]

\* Borrowed lanes go back to the table before any seat is handed back.
ReturnBorrowed ==
    /\ taken' = GiveBack(taken, borrowed)
    /\ borrowed' = {}

RunTurn ==
    /\ phase = "turn"
    /\ CanSeat(taken, Seating)
    /\ Absorb
    /\ ReturnBorrowed
    /\ phase' = "landed"
    /\ UNCHANGED <<callerVars, requests, queueVars, seated, waiting, streams, boundVars>>

\* run_turn fails: the seating is refused, shared inputs disagree, or the
\* state fails, before or after the lanes absorbed the turn.  (A plan that
\* fails between two stateful nodes leaves the one advanced and the other not:
\* each of them is in one of these two cases.)
FailTurn ==
    /\ phase = "turn"
    /\ TurnsMayFail \/ ~CanSeat(taken, Seating)
    /\ UNCHANGED history \/ (CanSeat(taken, Seating) /\ Absorb)
    /\ ReturnBorrowed
    /\ phase' = "failed"
    /\ UNCHANGED <<callerVars, requests, queueVars, seated, waiting, streams, boundVars>>

\* The next seat of the turn leaves `seated`; after the last one the worker
\* loops.
HandBack ==
    /\ seated # <<>>
    /\ seated' = Tail(seated)
    /\ phase' = IF Len(seated) = 1 THEN "serve" ELSE phase

\* Mutant: the predicate of retain is inverted.
KeptOfThatCall(queue, call) == {i \in DOMAIN queue : queue[i].call = call}

\* The seats of a queue that answer another call, in order (VecDeque::retain):
\* the j-th of them is the one that has j - 1 of them before it.
Kept(queue, call) == {i \in DOMAIN queue : queue[i].call # call}
Retain(queue, call) ==
    [j \in 1 .. Cardinality(Kept(queue, call)) |->
        queue[CHOOSE i \in Kept(queue, call) :
                 Cardinality({k \in Kept(queue, call) : k <= i}) = j]]

\* Queue::serve with outputs: the seat's slot is filled, and the call is
\* answered once every slot is.
Fill(completer, ix) == [completer EXCEPT !.served = @ \cup {ix}]
IsFull(completer) == completer.served = 1 .. completer.width

\* Completer::answer: the outputs of several seats, which may come from several
\* turns, are stacked back, and may not stack.
Assembled(completer) == IF completer.width = 1 THEN {"ok"} ELSE {"ok", "error"}

LandSeat ==
    /\ phase = "landed"
    /\ HandBack
    /\ \E completer \in completers :
          /\ completer.call = Head(seated).call
          /\ LET filled == Fill(completer, Head(seated).ix) IN
             IF IsFull(filled)
             THEN /\ completers' = completers \ {completer}
                  /\ \E result \in Assembled(completer) : Wake(completer.client, result)
             ELSE /\ completers' = (completers \ {completer}) \cup {filled}
                  /\ UNCHANGED <<caller, answer>>
    /\ UNCHANGED <<lease, root, sender, requests, taken, seats, calls, waiting, borrowed,
                   history, streams, boundVars>>

\* Mutant: the completer of a failed call is left behind.
FailSeatKeepingCompleter ==
    /\ phase = "failed"
    /\ HandBack
    /\ \E completer \in completers :
          /\ completer.call = Head(seated).call
          /\ seats' = Retain(seats, completer.call)
          /\ Wake(completer.client, "error")
    /\ UNCHANGED <<lease, root, sender, requests, taken, completers, calls, waiting, borrowed,
                   history, streams, boundVars>>

\* Queue::serve with an error: the whole call is answered at once, and its
\* seats still queued are dropped.
FailSeat ==
    /\ phase = "failed"
    /\ HandBack
    /\ \E completer \in completers :
          /\ completer.call = Head(seated).call
          /\ completers' = completers \ {completer}
          /\ seats' = Retain(seats, completer.call)
          /\ Wake(completer.client, "error")
    /\ UNCHANGED <<lease, root, sender, requests, taken, calls, waiting, borrowed, history,
                   streams, boundVars>>

\* The seat's call was answered already, by another seat of this turn.
SkipSeat ==
    /\ phase \in {"landed", "failed"}
    /\ HandBack
    /\ \A completer \in completers : completer.call # Head(seated).call
    /\ UNCHANGED <<callerVars, requests, taken, queueVars, waiting, borrowed, history, streams,
                   boundVars>>

\* State::run panics and the worker thread unwinds.  What it owned is dropped:
\* the queue and the completers, whose callers wake up with an error because
\* their answer channel closed.
Panic ==
    /\ TurnsMayPanic
    /\ phase = "turn"
    /\ phase' = "gone"
    /\ requests' = <<>> /\ seats' = <<>> /\ seated' = <<>> /\ borrowed' = {}
    /\ completers' = {}
    /\ caller' = [c \in Client |->
                     CASE caller[c] = "calling"  -> "ready"
                       [] caller[c] = "spawning" -> "idle"
                       [] OTHER                  -> caller[c]]
    /\ answer' = [c \in Client |-> IF caller[c] = "calling" THEN "error" ELSE answer[c]]
    /\ UNCHANGED <<lease, root, sender, taken, calls, waiting, history, streams, boundVars>>

-----------------------------------------------------------------------------
\* After LanedRunnable::wrap: the state is spawned, every lane reset once.
Init ==
    /\ caller = [c \in Client |-> "idle"]
    /\ lease = [c \in Client |-> NoLease]
    /\ answer = [c \in Client |-> "none"]
    /\ root = "held" /\ sender = TRUE
    /\ requests = <<>>
    /\ phase = "serve"
    /\ taken = {}
    /\ seats = <<>> /\ completers = {} /\ calls = 0
    /\ seated = <<>> /\ waiting = <<>> /\ borrowed = {}
    /\ history = [lane \in Lane |-> <<>>]
    /\ streams = 0 /\ spawns = 0 /\ sent = 0

Callers ==
    \/ \E c \in Client : \/ Spawn(c) \/ DropLease(c) \/ DropRunnable(c) \/ Joined(c)
                         \/ \E width \in 0 .. MaxWidth : Call(c, width)
                         \/ \E d \in Client : Clone(c, d)
    \/ DropRoot \/ RootJoined

Serve == ServeSpawn \/ RefuseSpawn \/ ServeCall \/ RefuseCall \/ ServeDrop \/ Drained \/ Stop
FillTurn == SeatInItsLane \/ SeatInBorrowedLane \/ SeatMustWait \/ Filled
Turn == RunTurn \/ FailTurn \/ Panic
Answer == LandSeat \/ FailSeat \/ SkipSeat
Worker == Serve \/ FillTurn \/ Turn \/ Answer

\* Every reference is dropped and the worker has exited: nothing is left.
Terminated ==
    /\ phase = "gone" /\ root = "dropped" /\ \A c \in Client : caller[c] = "idle"
    /\ UNCHANGED vars

Next == Callers \/ Worker \/ Terminated

Spec == Init /\ [][Next]_vars

-----------------------------------------------------------------------------
(* Properties.                                                             *)

TypeOK ==
    /\ caller \in [Client -> {"idle", "spawning", "ready", "calling", "dropping", "joining"}]
    /\ lease \in [Client -> Lease \cup {NoLease}]
    /\ answer \in [Client -> {"none", "ok", "error"}]
    /\ root \in {"held", "joining", "dropped"}
    /\ sender \in BOOLEAN
    /\ requests \in Seq(Request)
    /\ phase \in {"serve", "fill", "turn", "landed", "failed", "gone"}
    /\ taken \subseteq Lane /\ borrowed \subseteq Lane
    /\ seats \in Seq(Seat) /\ seated \in Seq(Seat) /\ waiting \in Seq(Seat)
    /\ completers \subseteq Completer
    /\ calls \in Nat /\ streams \in Nat /\ spawns \in Nat /\ sent \in Nat
    /\ history \in [Lane -> Seq(Absorbed)]

Leased == {lease[c].lane : c \in {d \in Client : HoldsLease(d)}}
Drops == {i \in DOMAIN requests : requests[i].kind = "drop"}
Returning == {requests[i].lane : i \in Drops}
ReturnedOnce == \A i, j \in Drops : requests[i].lane = requests[j].lane => i = j

\* LeasesAreExclusive: two handles share a lane exactly when they are clones,
\* that is, when they serve the same stream.
LeasesAreExclusive ==
    \A c, d \in Client : HoldsLease(c) /\ HoldsLease(d) =>
        (lease[c].lane = lease[d].lane <=> lease[c].stream = lease[d].stream)

\* LaneAccounting: while the worker lives, the lanes flagged as taken are, each
\* exactly once, a live stream's lane, a lane on its way back in the queue, or
\* a lane the turn borrowed.  So no lane leaks when a stream ends, a reset
\* fails or a turn fails, and none is handed out twice.
LaneAccounting ==
    phase # "gone" =>
        /\ taken = Leased \cup Returning \cup borrowed
        /\ Leased \cap Returning = {}
        /\ Leased \cap borrowed = {}
        /\ Returning \cap borrowed = {}
        /\ ReturnedOnce

\* SeatingIsValid: a turn reaches the state with at most MaxSeats seats in
\* distinct lanes that streams hold, so LaneTable::seat and Seating::new never
\* refuse a turn that fill assembled.
SeatingIsValid ==
    phase = "turn" => CanSeat(taken, Seating) /\ Len(seated) \in 1 .. MaxSeats

\* StreamIsolation: a seat is served by a lane holding nothing of another
\* stream's -- nothing left by the lane's last holder, by a seat that borrowed
\* it, or by a turn that failed.
StreamIsolation ==
    phase = "turn" =>
        \A i \in DOMAIN seated : \A k \in DOMAIN history[seated[i].lane] :
            history[seated[i].lane][k].stream = seated[i].stream

\* Seats of a call that still have to be seated or handed back, by position.
InFlight(queue, completer) ==
    {i \in DOMAIN queue : queue[i].call = completer.call}
Coming(completer) ==
    {seats[i].ix : i \in InFlight(seats, completer)}
    \cup {waiting[i].ix : i \in InFlight(waiting, completer)}
    \cup {seated[i].ix : i \in InFlight(seated, completer)}

\* NoStrandedCall: every slot an unanswered call waits for has exactly one seat
\* under way, so splitting a call over turns, a full turn, a reset that fails
\* and another call's failure neither lose a seat nor serve it twice.
NoStrandedCall ==
    \A completer \in completers :
        /\ Coming(completer) = (1 .. completer.width) \ completer.served
        /\ Cardinality(InFlight(seats, completer)) + Cardinality(InFlight(waiting, completer))
             + Cardinality(InFlight(seated, completer))
           = completer.width - Cardinality(completer.served)

\* CallersAreOwed: a caller blocked in spawn or run has exactly one thing
\* pending that will wake it, a request in the queue or a completer, and
\* nothing else in the worker will answer it.  With the worker gone nobody is
\* left blocked.
Pending(c) ==
    Cardinality({i \in DOMAIN requests :
                    requests[i].kind \in {"spawn", "call"} /\ requests[i].client = c})
    + Cardinality({completer \in completers : completer.client = c})
CallersAreOwed ==
    /\ \A c \in Client : Pending(c) = IF caller[c] \in {"spawning", "calling"} THEN 1 ELSE 0
    /\ phase = "gone" => completers = {} /\ requests = <<>>

\* OldestFirst: seats wait in the order their calls arrived and, within a call,
\* in the order it asked for them, whatever the turns they were put back by.
Before(s, t) == s.call < t.call \/ (s.call = t.call /\ s.ix < t.ix)
OldestFirst ==
    LET queue == waiting \o seats IN
    \A i, j \in DOMAIN queue : i < j => Before(queue[i], queue[j])

\* FullTurns: a turn leaves a seat waiting only when it is as wide as allowed,
\* or when the seat's own lane is in the turn already and, unless a reset
\* failed, no lane is free to borrow.
FullTurns ==
    phase = "turn" => \A i \in DOMAIN seats :
        \/ Len(seated) = MaxSeats
        \/ seats[i].lane \in SeatedLanes /\ (Free(taken) = {} \/ ResetsMayFail)

\* LiveLaneKeepsItsHistory: no step erases or rewrites what the lane of a live
\* stream has absorbed; only the end of the stream makes way for a reset.
IsPrefixOf(s, t) == Len(s) <= Len(t) /\ \A i \in DOMAIN s : s[i] = t[i]
KeepsHistory ==
    \A c \in Client : HoldsLease(c) /\ lease'[c] = lease[c] =>
        IsPrefixOf(history[lease[c].lane], history'[lease[c].lane])
LiveLaneKeepsItsHistory == [][KeepsHistory]_vars

\* FirstSeatInOwnLane: the first seat of a call sits in its caller's own lane
\* (module documentation of lanes.rs, "A call asking for several seats"), so it
\* sees what the stream's earlier calls left there.
FirstSeatInOwnLane ==
    phase = "turn" => \A i \in DOMAIN seated :
        seated[i].ix = 1 =>
            \E c \in Client : /\ caller[c] = "calling"
                              /\ lease[c] = [stream |-> seated[i].stream,
                                             lane |-> seated[i].lane]

-----------------------------------------------------------------------------
(* Liveness.  The worker thread runs as long as it is not blocked, and a    *)
(* caller that is inside drop() goes on; callers need not call or drop.     *)

Fairness ==
    /\ WF_vars(Worker)
    /\ \A c \in Client : WF_vars(DropRunnable(c)) /\ WF_vars(Joined(c))
    /\ WF_vars(RootJoined)

FairSpec == Spec /\ Fairness

\* EveryCallerWakesUp: every spawn and every run returns, with an answer or an
\* error: no call starves behind wide calls, full turns or failing ones.
EveryCallerWakesUp ==
    \A c \in Client :
        caller[c] \in {"spawning", "calling"} ~> caller[c] \notin {"spawning", "calling"}

\* JoinReturns: the last drop of a runnable, which joins the worker, returns:
\* nobody waits for a worker that waits for a request nobody can send.
JoinReturns ==
    /\ root = "joining" ~> root # "joining"
    /\ \A c \in Client : caller[c] = "joining" ~> caller[c] # "joining"
==============================================================================
