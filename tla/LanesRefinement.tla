--------------------------- MODULE LanesRefinement ---------------------------
(***************************************************************************)
(* Lanes implements StreamStates as long as no handle is cloned: the state *)
(* a caller believes it owns is the content of the lane it leased, and     *)
(* batching, borrowing, splitting, failing turns and the reuse of lanes    *)
(* are invisible in it.                                                    *)
(***************************************************************************)
EXTENDS Lanes

Mode(c) == CASE caller[c] = "spawning" -> "opening"
             [] caller[c] = "ready"    -> "open"
             [] caller[c] = "calling"  -> "running"
             [] OTHER                  -> "closed"

OwnState(c) ==
    IF HoldsLease(c)
    THEN [k \in DOMAIN history[lease[c].lane] |-> history[lease[c].lane][k].ix]
    ELSE <<>>

\* Whether the lane absorbed the first seat of the call c is blocked in.
WasFed(c) ==
    /\ HoldsLease(c)
    /\ \E completer \in completers : \E k \in DOMAIN history[lease[c].lane] :
          /\ completer.client = c
          /\ history[lease[c].lane][k].call = completer.call
          /\ history[lease[c].lane][k].ix = 1

Abstract == INSTANCE StreamStates
    WITH mode   <- [c \in Client |-> Mode(c)],
         state  <- [c \in Client |-> OwnState(c)],
         fed    <- [c \in Client |-> WasFed(c)],
         result <- answer

\* OneStatePerStream: to its callers the laned runnable is one private state
\* per handle, advanced only and in order by that handle's own calls, which
\* succeed only once they advanced it.
OneStatePerStream == Abstract!Spec
==============================================================================
