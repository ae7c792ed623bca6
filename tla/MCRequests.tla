----------------------------- MODULE MCRequests -----------------------------
(***************************************************************************)
(* What customers and staff ask of the API under retries and overlapping   *)
(* requests: POST /bookings behind its idempotency key, and the refunds of *)
(* a payment.  The two share nothing, so a behaviour chooses one (part).   *)
(***************************************************************************)
EXTENDS BookingRequest, Refunds, TLC

CONSTANTS q1, q2, q3, k1, k2, s1, s2

VARIABLE part

\* q2 repeats q1; q3 asks for one of its slots under a key of its own.
RetryCall ==
    [q \in Requests |-> [key |-> IF q = q3 THEN k2 ELSE k1, scope |-> "booking.create",
                         body |-> IF q = q3 THEN "other" ELSE "body"]]
RetryWanted == [q \in Requests |-> IF q = q3 THEN {s2} ELSE {s1, s2}]

\* q1 and q2 are alike, and so are the refunds and the staff; no liveness is checked.
Symmetry == Permutations({q1, q2}) \cup Permutations(Refunds) \cup Permutations(Admins)

RequestsInit ==
    /\ part \in {"booking", "refunds"}
    /\ BookingRequestInit /\ Init

RequestsNext ==
    /\ UNCHANGED part
    /\ IF part = "booking" THEN BookingRequestNext ELSE UNCHANGED bookingRequestVars
    /\ IF part = "refunds" THEN Next ELSE UNCHANGED vars

RequestsSpec == RequestsInit /\ [][RequestsNext]_<<part, bookingRequestVars, vars>>
=============================================================================
