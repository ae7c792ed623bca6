----------------------------- MODULE SlotClaims -----------------------------
(***************************************************************************)
(* The table slot_claims: one row per booking item or maintenance slot.    *)
(* The partial unique index uq_slot_claims_active (court_id, starts_at)    *)
(* WHERE status IN ('held','confirmed') is the only guard against double   *)
(* booking; every statement below is one UPDATE or INSERT of the slots     *)
(* repository, as a function from table to table, with its rejection by    *)
(* the index as a separate predicate.                                      *)
(*                                                                         *)
(* A slot stands for a (court, starts_at) pair, an owner for a booking or  *)
(* a court maintenance.  "none" means that the owner has no row for the    *)
(* slot.  An expiry time is abstracted to the set of owners whose hold has *)
(* run out.                                                                *)
(***************************************************************************)
EXTENDS FiniteSets

CONSTANTS Bookings, Maintenances, Slots

ASSUME OwnersDisjoint == Bookings \cap Maintenances = {}

Owners == Bookings \cup Maintenances

ClaimStatus == {"none", "held", "confirmed", "released"}
ClaimTable  == [Owners -> [Slots -> ClaimStatus]]

NoClaims == [o \in Owners |-> [s \in Slots |-> "none"]]

-----------------------------------------------------------------------------
IsActive(st) == st \in {"held", "confirmed"}

ItemsOf(c, o)       == {s \in Slots : c[o][s] # "none"}
ActiveSlots(c, o)   == {s \in Slots : IsActive(c[o][s])}
HeldSlots(c, o)     == {s \in Slots : c[o][s] = "held"}
ReleasedSlots(c, o) == {s \in Slots : c[o][s] = "released"}

\* The owners whose active rows clash with a claim on S.
Conflicts(c, S) == {o \in Owners : ActiveSlots(c, o) \cap S # {}}

\* uq_slot_claims_active: at most one active row per slot.
Exclusive(c) ==
    \A s \in Slots : \A o1, o2 \in Owners :
        IsActive(c[o1][s]) /\ IsActive(c[o2][s]) => o1 = o2

-----------------------------------------------------------------------------
\* Write status st into o's rows for the slots S.
SetRows(c, o, S, st) ==
    [c EXCEPT ![o] = [s \in Slots |-> IF s \in S THEN st ELSE c[o][s]]]

\* Faulty: the test of hold_expires_at is missing.
ReleaseEveryHold(c, S, lapsed) ==
    [o \in Owners |-> [s \in Slots |->
        IF s \in S /\ c[o][s] = "held" THEN "released" ELSE c[o][s]]]

\* Faulty: no row is released.
ReleaseNothing(c, S, lapsed) == c

\* Held rows on S whose owner's hold has lapsed become released.
ReleaseExpired(c, S, lapsed) ==
    [o \in Owners |-> [s \in Slots |->
        IF s \in S /\ o \in lapsed /\ c[o][s] = "held"
        THEN "released" ELSE c[o][s]]]

\* Faulty: the index covers confirmed rows only.
NoConfirmedConflict(c, S) ==
    \A o \in Owners, s \in S : c[o][s] # "confirmed"

\* INSERT of the rows of a new owner; the index rejects it unless CanInsert.
CanInsert(c, S)           == Conflicts(c, S) = {}
InsertClaims(c, o, S, st) == SetRows(c, o, S, st)

\* Faulty: an expiry forgets the claims.
KeepClaims(c, o) == c

ReleaseByOwner(c, o) == SetRows(c, o, ActiveSlots(c, o), "released")

\* Every active row on S is released, whoever owns it.
ReleaseConflicts(c, S) ==
    [o \in Owners |-> [s \in Slots |->
        IF s \in S /\ IsActive(c[o][s]) THEN "released" ELSE c[o][s]]]

ConfirmHeld(c, o) == SetRows(c, o, HeldSlots(c, o), "confirmed")

\* Faulty: the index is not consulted.
AnyReleased(c, o) == ReleasedSlots(c, o) # {}

\* Released rows of o come back as confirmed, all of them or none: the
\* savepoint turns an index violation, or an empty result, into FALSE.
CanReclaim(c, o) ==
    /\ ReleasedSlots(c, o) # {}
    /\ Conflicts(c, ReleasedSlots(c, o)) \subseteq {o}
Reclaim(c, o) == SetRows(c, o, ReleasedSlots(c, o), "confirmed")
=============================================================================
