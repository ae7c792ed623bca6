-------------------------- MODULE AvailabilityCache --------------------------
(***************************************************************************)
(* The grid of one court and day in Redis.  getCourtAvailability reads the *)
(* calendar (court, hours, special date, horizon), then claims and prices, *)
(* and stores what it put together; claims, courts, special dates and      *)
(* price rules that change delete the grid after their commit.             *)
(*                                                                         *)
(* Versions stand for the data: a grid is as good as the versions it was   *)
(* made of.  Changes are bounded by MaxChanges.                            *)
(***************************************************************************)
EXTENDS Integers

CONSTANTS
    Readers,    \* requests for the grid that may be in flight together
    MaxChanges, \* bound on the changes of each kind
    CacheFaults \* of "redis", "crash"

ASSUME AvailabilityAssumption ==
    /\ MaxChanges \in Nat
    /\ CacheFaults \subseteq {"redis", "crash"}

VARIABLES
    data,         \* versions committed in PostgreSQL
    grid,         \* versions that the cached grid shows, or NoGrid
    reading,      \* per reader: what it has put together
    invalidating  \* number of afterCommit deletions not yet run

availabilityVars == <<data, grid, reading, invalidating>>

-----------------------------------------------------------------------------
Unread == -1
NoGrid == [calendar |-> Unread, claims |-> Unread]
Versions == [calendar : Unread..MaxChanges, claims : Unread..MaxChanges]

AvailabilityInit ==
    /\ data = [calendar |-> 0, claims |-> 0]
    /\ grid = NoGrid
    /\ reading = [r \in Readers |-> NoGrid]
    /\ invalidating = 0

\* readAvailabilityCache misses, also when Redis is down.
MissGrid(r) ==
    /\ reading[r] = NoGrid
    /\ grid = NoGrid \/ "redis" \in CacheFaults
    /\ reading' = [reading EXCEPT ![r].calendar = data.calendar]
    /\ UNCHANGED <<data, grid, invalidating>>

ReadClaims(r) ==
    /\ reading[r].calendar # Unread /\ reading[r].claims = Unread
    /\ reading' = [reading EXCEPT ![r].claims = data.claims]
    /\ UNCHANGED <<data, grid, invalidating>>

(* writeAvailabilityCache: SET EX, blind.                                   *)
WriteGrid(r) ==
    /\ reading[r].claims # Unread
    /\ grid' \in {reading[r]} \cup (IF "redis" \in CacheFaults THEN {grid} ELSE {})
    /\ reading' = [reading EXCEPT ![r] = NoGrid]
    /\ UNCHANGED <<data, invalidating>>

\* A claim or the calendar changes; the callback is registered or lost.
ChangeData(kind) ==
    /\ data[kind] < MaxChanges
    /\ data' = [data EXCEPT ![kind] = @ + 1]
    /\ invalidating' \in {invalidating + 1}
                            \cup (IF "crash" \in CacheFaults THEN {invalidating} ELSE {})
    /\ UNCHANGED <<grid, reading>>

(* invalidateAvailability, invalidateAvailabilityPattern.                   *)
InvalidateGrid ==
    /\ invalidating > 0
    /\ invalidating' = invalidating - 1
    /\ grid' \in {NoGrid} \cup (IF "redis" \in CacheFaults THEN {grid} ELSE {})
    /\ UNCHANGED <<data, reading>>

\* Faulty: SET without EX.
NeverExpires == FALSE
\* AVAILABILITY_CACHE_TTL_SECONDS
Expires == grid # NoGrid

ExpireGrid ==
    /\ Expires
    /\ grid' = NoGrid
    /\ UNCHANGED <<data, reading, invalidating>>

AvailabilityNext ==
    \/ \E r \in Readers : MissGrid(r) \/ ReadClaims(r) \/ WriteGrid(r)
    \/ \E kind \in {"calendar", "claims"} : ChangeData(kind)
    \/ InvalidateGrid
    \/ ExpireGrid

\* Redis ends a TTL; readers and callbacks go on.
AvailabilityFairness ==
    /\ WF_availabilityVars(ExpireGrid)
    /\ WF_availabilityVars(InvalidateGrid)
    /\ \A r \in Readers : WF_availabilityVars(ReadClaims(r) \/ WriteGrid(r))

-----------------------------------------------------------------------------
AvailabilityTypeOK ==
    /\ data \in [calendar : 0..MaxChanges, claims : 0..MaxChanges]
    /\ grid \in Versions
    /\ reading \in [Readers -> Versions]
    /\ invalidating \in 0..(2 * MaxChanges)

\* 06 BR-B-41 and docs/02 R-4: whatever callbacks are lost and however late a
\* reader stores what it read, a grid that is out of date does not stay.
StaleGridEnds == (grid # NoGrid /\ grid # data) ~> (grid = NoGrid \/ grid = data)
=============================================================================
