----------------------------- MODULE StreamStates -----------------------------
(***************************************************************************)
(* What a laned runnable promises its callers (core/src/lanes.rs): "they   *)
(* still spawn a state each and run it per turn".  Every open handle has a *)
(* state of its own, blank when it is opened, which nothing but its own    *)
(* calls advances; no lane, queue or turn is visible.                      *)
(*                                                                         *)
(* A state is the sequence of the seats it absorbed, a seat being known by *)
(* its place in its call.  A call feeds its first seat exactly once; the   *)
(* other seats of a wide call may be served elsewhere.                     *)
(***************************************************************************)
EXTENDS Naturals, Sequences

CONSTANTS Client,
          MaxWidth   \* bound: seats one call may ask for

VARIABLES mode,    \* what each caller does with its handle
          state,   \* the state of the stream it opened
          fed,     \* whether the state absorbed the first seat of the call
          result   \* what the last call returned

vars == <<mode, state, fed, result>>

Init ==
    /\ mode = [c \in Client |-> "closed"]
    /\ state = [c \in Client |-> <<>>]
    /\ fed = [c \in Client |-> FALSE]
    /\ result = [c \in Client |-> "none"]

Open(c) ==
    /\ mode[c] = "closed"
    /\ mode' = [mode EXCEPT ![c] = "opening"]
    /\ UNCHANGED <<state, fed, result>>

\* spawn returns a handle on a blank state, or fails.
Opened(c) ==
    /\ mode[c] = "opening"
    /\ mode' = [mode EXCEPT ![c] = "open"]
    /\ UNCHANGED <<state, fed, result>>

Refused(c) ==
    /\ mode[c] = "opening"
    /\ mode' = [mode EXCEPT ![c] = "closed"]
    /\ UNCHANGED <<state, fed, result>>

Run(c) ==
    /\ mode[c] = "open"
    /\ mode' = [mode EXCEPT ![c] = "running"]
    /\ result' = [result EXCEPT ![c] = "none"]
    /\ UNCHANGED <<state, fed>>

\* One run of the shared machinery advances the states of some of the callers,
\* each by one seat of its own call, the first seat first and only once.
Advance(S, ix) ==
    /\ \A c \in S : mode[c] = "running" /\ (ix[c] = 1 <=> ~fed[c])
    /\ state' = [c \in Client |-> IF c \in S THEN Append(state[c], ix[c]) ELSE state[c]]
    /\ fed' = [c \in Client |-> c \in S \/ fed[c]]
    /\ UNCHANGED <<mode, result>>

\* A call succeeds only once its state absorbed it; it may fail at any time.
Return(c, outcome) ==
    /\ mode[c] = "running"
    /\ outcome = "ok" => fed[c]
    /\ mode' = [mode EXCEPT ![c] = "open"]
    /\ fed' = [fed EXCEPT ![c] = FALSE]
    /\ result' = [result EXCEPT ![c] = outcome]
    /\ UNCHANGED state

Close(c) ==
    /\ mode[c] = "open"
    /\ mode' = [mode EXCEPT ![c] = "closed"]
    /\ state' = [state EXCEPT ![c] = <<>>]
    /\ result' = [result EXCEPT ![c] = "none"]
    /\ UNCHANGED fed

\* The machinery breaks down: everybody waiting for it gets an error.
BreakDown ==
    /\ mode' = [c \in Client |-> CASE mode[c] = "running" -> "open"
                                   [] mode[c] = "opening" -> "closed"
                                   [] OTHER               -> mode[c]]
    /\ result' = [c \in Client |-> IF mode[c] = "running" THEN "error" ELSE result[c]]
    /\ fed' = [c \in Client |-> FALSE]
    /\ UNCHANGED state

Next ==
    \/ \E c \in Client : Open(c) \/ Opened(c) \/ Refused(c) \/ Run(c) \/ Close(c)
    \/ \E c \in Client, outcome \in {"ok", "error"} : Return(c, outcome)
    \/ \E S \in SUBSET Client : \E ix \in [S -> 1 .. MaxWidth] : Advance(S, ix)
    \/ BreakDown

Spec == Init /\ [][Next]_vars
==============================================================================
