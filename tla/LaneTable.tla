------------------------------ MODULE LaneTable ------------------------------
(***************************************************************************)
(* The lane table of a laned state (core/src/lanes.rs, LaneTable) and the  *)
(* seating drawn from it (core/src/plan.rs, Seating).  The table is a      *)
(* vector of flags, one per lane; here it is the set of the lanes whose    *)
(* flag is up, and the operators say what each method tests or returns.    *)
(***************************************************************************)
EXTENDS Naturals, Sequences

CONSTANT MaxLanes      \* extent of the lane axis, fixed for the life of the state

ASSUME MaxLanesAssumption == MaxLanes \in Nat \ {0}

Lane == 0 .. (MaxLanes - 1)

Free(taken) == Lane \ taken

\* Mutant: the search does not look at the flags.
IsLowest(lane, taken) == \A other \in Lane : lane <= other

\* LaneTable::take hands out the lowest free lane, so that a turn seating
\* every lane seats a run of consecutive lanes.
IsLowestFree(lane, taken) ==
    /\ lane \in Free(taken)
    /\ \A other \in Free(taken) : lane <= other

TakeLane(taken, lane) == taken \cup {lane}

\* LaneTable::give_back refuses a lane nobody took; every caller ignores the
\* refusal, so giving back a free lane leaves the table as it is.
GiveBack(taken, lanes) == taken \ lanes

\* LaneTable::seat and Seating::new: every seated lane is one that a stream or
\* a borrowing seat took, and no lane takes two seats of the turn.
CanSeat(taken, lanes) ==
    /\ \A seat \in DOMAIN lanes : lanes[seat] \in Lane \cap taken
    /\ \A seat, other \in DOMAIN lanes : lanes[seat] = lanes[other] => seat = other
==============================================================================
