--------------------------- MODULE BookingRequest ---------------------------
(***************************************************************************)
(* POST /bookings behind its idempotency key: createBooking reserves a     *)
(* Redis key per slot, claims the slots in a transaction, and gives the    *)
(* keys back when that fails.                                              *)
(*                                                                         *)
(* The keys are a fast path: they are lost when Redis is, they are taken   *)
(* by SET NX without remembering by whom, and cancellation, J-01 and       *)
(* releaseSlots delete whatever key stands for a slot that they release.   *)
(* What decides is the unique index on active claims.                      *)
(***************************************************************************)
EXTENDS Idempotency

CONSTANTS
    Slots,
    Wanted,     \* the slots that each request asks for
    Direct      \* walk-ins by staff: no hold, no Redis key

ASSUME BookingRequestAssumption ==
    /\ \A q \in Requests : Call[q].scope = "booking.create"
    /\ Wanted \in [Requests -> SUBSET Slots]
    /\ Direct \subseteq Requests

VARIABLES
    holdKey,    \* slots whose key exists in Redis
    tried,      \* per request: slots whose SET has returned
    reserved,   \* per request: slots whose SET returned OK
    refused,    \* requests whose handler is about to fail
    owners,     \* per slot: requests with an active claim
    lapsed,     \* requests whose hold_expires_at has passed
    deleting    \* slots whose key an afterCommit callback will delete

holdVars == <<holdKey, tried, reserved, refused, owners, lapsed, deleting>>
bookingRequestVars == <<idempotencyVars, holdVars>>

BookingRequestInit ==
    /\ IdempotencyInit
    /\ holdKey = {} /\ refused = {} /\ lapsed = {} /\ deleting = {}
    /\ tried = [q \in Requests |-> {}]
    /\ reserved = [q \in Requests |-> {}]
    /\ owners = [s \in Slots |-> {}]

-----------------------------------------------------------------------------
InHandler(q) == At(q, "running") /\ q \notin refused

\* What a handler knew goes with it.
HandlerEnds(q) ==
    /\ tried' = [tried EXCEPT ![q] = {}]
    /\ reserved' = [reserved EXCEPT ![q] = {}]
    /\ refused' = refused \ {q}

\* Every slot has been reserved, or Redis could not tell.
AllTried(q) == q \in Direct \/ tried[q] = Wanted[q]

(* reserveBookingHoldKeys, one SET NX EX; without Redis the request goes on *)
(* and its key may yet have been set.                                       *)
ReserveKey(q, s) ==
    /\ InHandler(q) /\ q \notin Direct
    /\ s \in Wanted[q] \ tried[q]
    /\ tried' = [tried EXCEPT ![q] = @ \cup {s}]
    /\ \/ /\ s \notin holdKey
          /\ holdKey' = holdKey \cup {s}
          /\ reserved' = [reserved EXCEPT ![q] = @ \cup {s}]
       \/ /\ "redis" \in Faults
          /\ holdKey' \in {holdKey, holdKey \cup {s}}
          /\ UNCHANGED reserved
    /\ UNCHANGED <<idempotencyVars, refused, owners, lapsed, deleting>>

\* SLOT_ALREADY_CLAIMED without a look into PostgreSQL.
RefusedByKey(q) ==
    /\ InHandler(q) /\ q \notin Direct
    /\ \E s \in Wanted[q] \ tried[q] : s \in holdKey
    /\ refused' = refused \cup {q}
    /\ UNCHANGED <<idempotencyVars, holdKey, tried, reserved, owners, lapsed, deleting>>

\* Faulty: whoever got past the keys owns the slots.
TrustTheKeys(s) == TRUE

\* uq_slot_claims_active lets the claim in: no claim that is still in force.
Claimable(s) == owners[s] \subseteq lapsed

(* The transaction: lapsed holds on the slots are released, the slots are   *)
(* claimed.                                                                 *)
CommitBooking(q) ==
    /\ q \notin refused
    /\ AllTried(q)
    /\ \A s \in Wanted[q] : Claimable(s)
    /\ owners' = [s \in Slots |-> IF s \in Wanted[q] THEN (owners[s] \ lapsed) \cup {q}
                                                     ELSE owners[s]]
    /\ HandlerCommits(q) /\ HandlerEnds(q)
    /\ UNCHANGED <<holdKey, lapsed, deleting>>

\* A slot is taken, or any other check or statement of the transaction fails.
RollBack(q) ==
    /\ InHandler(q)
    /\ AllTried(q)
    /\ refused' = refused \cup {q}
    /\ UNCHANGED <<idempotencyVars, holdKey, tried, reserved, owners, lapsed, deleting>>

(* releaseReservedHoldKeys, then the error reaches the middleware.          *)
ReleaseReservedHoldKeys(q) ==
    /\ q \in refused
    /\ HandlerFails(q) /\ HandlerEnds(q)
    /\ holdKey' \in {holdKey \ reserved[q]} \cup (IF "redis" \in Faults THEN {holdKey} ELSE {})
    /\ UNCHANGED <<owners, lapsed, deleting>>

-----------------------------------------------------------------------------
\* hold_expires_at passes; a walk-in is confirmed at once.
LapseHold(q) ==
    /\ q \in executed \ (lapsed \cup Direct)
    /\ lapsed' = lapsed \cup {q}
    /\ UNCHANGED <<idempotencyVars, holdKey, tried, reserved, refused, owners, deleting>>

ClaimsOf(q) == {s \in Slots : q \in owners[s]}

(* Cancellation, J-01, releaseSlots: all claims of a booking that are still *)
(* active; the callback that deletes the keys may be lost with the process. *)
ReleaseClaims(q) ==
    /\ ClaimsOf(q) # {}
    /\ owners' = [s \in Slots |-> IF s \in ClaimsOf(q) THEN owners[s] \ {q} ELSE owners[s]]
    /\ deleting' \in {deleting \cup ClaimsOf(q)}
                        \cup (IF "break off" \in Faults THEN {deleting} ELSE {})
    /\ UNCHANGED <<idempotencyVars, holdKey, tried, reserved, refused, lapsed>>

DeleteKey(s) ==
    /\ s \in deleting
    /\ deleting' = deleting \ {s}
    /\ holdKey' \in {holdKey \ {s}} \cup (IF "redis" \in Faults THEN {holdKey} ELSE {})
    /\ UNCHANGED <<idempotencyVars, tried, reserved, refused, owners, lapsed>>

\* The TTL of 10 minutes, a restart of Redis.
LoseKey(s) ==
    /\ s \in holdKey
    /\ holdKey' = holdKey \ {s}
    /\ UNCHANGED <<idempotencyVars, tried, reserved, refused, owners, lapsed, deleting>>

-----------------------------------------------------------------------------
Middleware(q) ==
    \/ MiddlewareStep(q) /\ UNCHANGED holdVars
    \/ BreakOff(q) /\ HandlerEnds(q) /\ UNCHANGED <<holdKey, owners, lapsed, deleting>>

HandlerStep(q) ==
    \/ \E s \in Slots : ReserveKey(q, s)
    \/ RefusedByKey(q)
    \/ CommitBooking(q)
    \/ RollBack(q)
    \/ ReleaseReservedHoldKeys(q)

BookingRequestNext ==
    \/ \E q \in Requests :
        \/ Middleware(q) \/ HandlerStep(q)
        \/ LapseHold(q) \/ ReleaseClaims(q)
        \/ LoseCached(q) /\ UNCHANGED holdVars
    \/ \E s \in Slots : DeleteKey(s) \/ LoseKey(s)

BookingRequestSpec == BookingRequestInit /\ [][BookingRequestNext]_bookingRequestVars

-----------------------------------------------------------------------------
BookingRequestTypeOK ==
    /\ IdempotencyTypeOK
    /\ holdKey \subseteq Slots /\ deleting \subseteq Slots
    /\ refused \subseteq Requests /\ lapsed \subseteq Requests
    /\ tried \in [Requests -> SUBSET Slots] /\ reserved \in [Requests -> SUBSET Slots]
    /\ owners \in [Slots -> SUBSET Requests]

\* 06 C-1: a slot has one active owner, whatever Redis says: keys may be lost,
\* never set, or deleted by the callback of somebody else's booking while
\* another request relies on them.
SlotHasOneOwner == \A s \in Slots : \A p, q \in owners[s] : p = q

\* A booking whose hold has not lapsed owns all the slots it asked for or
\* none of them: neither another request nor a release takes it apart.
AllOrNothing ==
    \A q \in Requests \ lapsed :
        {s \in Slots : q \in owners[s]} \in {{}, Wanted[q]}

Owns(q) == \E s \in Slots : q \in owners[s]

\* 04 section 8: retries of one order never own slots twice, and a client that
\* is told that nothing happened owns none, so that it may order again.
OneOrderPerKey ==
    /\ \A p, q \in Requests : Owns(p) /\ Owns(q) /\ KeyOf(p) = KeyOf(q) => p = q
    /\ \A q \in Requests : reply[q].kind \in {"reused", "busy", "failed"} => ~Owns(q)
=============================================================================
