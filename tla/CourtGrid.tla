------------------------------ MODULE CourtGrid ------------------------------
(***************************************************************************)
(* The slot grid of one court on one weekday.  A slot is a start time that *)
(* is aligned with the court's opening time and slot duration; two claims  *)
(* are kept apart by the unique index on the start time alone.  Claims     *)
(* read the schedule before they lock the court, and an administrator may  *)
(* change it (slot-grid.ts, slots.service.ts, courts.service.ts).          *)
(* Time is counted in half hours from midnight.                            *)
(***************************************************************************)
EXTENDS Integers, FiniteSets

CONSTANTS
    Opens,       \* opening times an administrator may set
    Closes,      \* closing times
    Durations,   \* courts.slot_duration_minutes, in half hours
    Claimers,    \* bookings and maintenances that claim slots
    Editors,     \* administrators at work on the court
    MaxEdits     \* bound: edits of the court

ASSUME CourtGridAssumption ==
    /\ Opens \subseteq Nat /\ Closes \subseteq Nat /\ Opens # {} /\ Closes # {}
    /\ Durations \subseteq Nat \ {0} /\ Durations # {}
    /\ MaxEdits \in Nat

VARIABLES
    schedule,  \* courts.slot_duration_minutes and the weekday's operating hours
    edits,     \* courts.version; an edit of the court's row counts
    claims,    \* the active rows of slot_claims
    request,   \* per claimer: the start times it asks for and the schedule it read
    patch      \* per editor: the duration it is about to write and the version it saw

courtGridVars == <<schedule, edits, claims, request, patch>>

Schedules == {g \in [duration : Durations, opens : Opens, closes : Closes] : g.opens < g.closes}
NoSchedule == [duration |-> 0, opens |-> 0, closes |-> 0]
NoRequest == [starts |-> {}, schedule |-> NoSchedule]
NoPatch == [duration |-> 0, version |-> 0]

-----------------------------------------------------------------------------
(* packages/shared/src/utils/slot-grid.ts *)

\* A start time that a claim is accepted for.
IsSlotAligned(start, g) ==
    /\ start >= g.opens
    /\ (start - g.opens) % g.duration = 0
    /\ start + g.duration <= g.closes

\* Faulty: offers the slot that starts before closing time, whole or not.
StartsBeforeClosing(g) ==
    {t \in g.opens..(g.closes - 1) : (t - g.opens) % g.duration = 0}

\* The start times that the availability grid offers.
BuildSlotGrid(g) ==
    {g.opens + n * g.duration : n \in 0..((g.closes - g.opens - g.duration) \div g.duration)}

\* Requests name any start time that some schedule of the court offers.
StartTimes == UNION {BuildSlotGrid(g) : g \in Schedules}

-----------------------------------------------------------------------------
CourtGridInit ==
    /\ schedule \in Schedules
    /\ edits = 0
    /\ claims = {}
    /\ request = [c \in Claimers |-> NoRequest]
    /\ patch = [e \in Editors |-> NoPatch]

\* claimSlots, claimSlotsInTransaction: the court and its hours are read, and
\* every start time is checked against them, before the court is locked.  A
\* booking or maintenance claims once; what is released may claim again as another.
ReadGrid(c, starts) ==
    /\ request[c] = NoRequest
    /\ ~\E x \in claims : x.by = c
    /\ starts # {} /\ \A t \in starts : IsSlotAligned(t, schedule)
    /\ request' = [request EXCEPT ![c] = [starts |-> starts, schedule |-> schedule]]
    /\ UNCHANGED <<schedule, edits, claims, patch>>

\* uq_slot_claims_active: no two active claims with one start time.
StartsFree(starts) == \A x \in claims : x.start \notin starts

\* Faulty: starts are checked against one schedule, ends taken from a later one.
ClaimsUntilNow(c) ==
    {[by |-> c, start |-> t, end |-> t + schedule.duration, schedule |-> request[c].schedule] :
        t \in request[c].starts}

ClaimsFrom(c) ==
    LET read == request[c].schedule
    IN  {[by |-> c, start |-> t, end |-> t + read.duration, schedule |-> read] :
            t \in request[c].starts}

\* The transaction that locks the court and inserts the claims, or fails.
InsertClaims(c) ==
    /\ request[c] # NoRequest
    /\ claims' = IF StartsFree(request[c].starts) THEN claims \cup ClaimsFrom(c) ELSE claims
    /\ request' = [request EXCEPT ![c] = NoRequest]
    /\ UNCHANGED <<schedule, edits, patch>>

\* The claims of a booking or maintenance are released: cancelled or expired.
ReleaseClaims(c) ==
    /\ \E x \in claims : x.by = c
    /\ claims' = {x \in claims : x.by # c}
    /\ UNCHANGED <<schedule, edits, request, patch>>

\* patchAdminCourt, before its transaction: a new duration needs a court
\* without future claims.
MayRegrid(d) == d = schedule.duration \/ claims = {}

ReadCourt(e, d) ==
    /\ patch[e] = NoPatch
    /\ MayRegrid(d)
    /\ edits < MaxEdits
    /\ patch' = [patch EXCEPT ![e] = [duration |-> d, version |-> edits]]
    /\ UNCHANGED <<schedule, edits, claims, request>>

\* patchCourt: the UPDATE with the version that the editor saw.
PatchCourt(e) ==
    /\ patch[e] # NoPatch
    /\ patch' = [patch EXCEPT ![e] = NoPatch]
    /\ IF patch[e].version = edits
       THEN /\ edits' = edits + 1
            /\ schedule' = [schedule EXCEPT !.duration = patch[e].duration]
       ELSE UNCHANGED <<edits, schedule>>
    /\ UNCHANGED <<claims, request>>

\* replaceAdminCourtOperatingHours: asks nothing of the claims, and leaves
\* the court's row and its version alone.
ReplaceOperatingHours(g) ==
    /\ g.duration = schedule.duration
    /\ schedule' = g
    /\ UNCHANGED <<edits, claims, request, patch>>

CourtGridNext ==
    \/ \E c \in Claimers :
         \/ \E starts \in SUBSET StartTimes : ReadGrid(c, starts)
         \/ InsertClaims(c)
         \/ ReleaseClaims(c)
    \/ \E e \in Editors :
         \/ \E d \in Durations : ReadCourt(e, d)
         \/ PatchCourt(e)
    \/ \E g \in Schedules : ReplaceOperatingHours(g)

CourtGridSpec == CourtGridInit /\ [][CourtGridNext]_courtGridVars

-----------------------------------------------------------------------------
CourtGridTypeOK ==
    /\ schedule \in Schedules
    /\ edits \in Nat
    /\ claims \subseteq [by : Claimers, start : Int, end : Int, schedule : Schedules]
    /\ request \in [Claimers -> [starts : SUBSET Int, schedule : Schedules \cup {NoSchedule}]]
    /\ patch \in [Editors -> [duration : Durations \cup {0}, version : Nat]]

Overlap(x, y) == x.start < y.end /\ y.start < x.end

\* Two schedules that cut the day at the same times.
SameCuts(g, h) == g.duration = h.duration /\ (g.opens - h.opens) % g.duration = 0

\* Two active claims of a court that overlap were accepted on schedules that
\* cut the day differently: on one schedule, or on two that only open earlier or
\* close later by whole slots, the alignment of every start and the unique
\* index on it keep claims apart, however reads and inserts interleave.
OverlapMeansRegridded ==
    \A x, y \in claims : x # y /\ Overlap(x, y) => ~SameCuts(x.schedule, y.schedule)

\* What the availability grid offers and what a claim is accepted for are one
\* set of start times, for every schedule that an administrator can set.
OfferedIsClaimable ==
    BuildSlotGrid(schedule) =
        {t \in StartTimes \cup (0..schedule.closes) : IsSlotAligned(t, schedule)}

\* Two active claims of a court never overlap, as comparing start times is said
\* to guarantee (slot-grid.ts, docs/03 on uq_slot_claims_active).
ClaimsDisjoint == \A x, y \in claims : x # y => ~Overlap(x, y)

=============================================================================
