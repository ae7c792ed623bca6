---------------------------- MODULE RequestBoard ----------------------------
(***************************************************************************)
(* BookingRequest implements SlotBoard, the board that BookingPayments     *)
(* implements too: whatever Redis keys, retries and callbacks do, the      *)
(* claims of the orders move as the board allows.  A walk-in is firm at    *)
(* once; no maintenance takes part.                                        *)
(***************************************************************************)
EXTENDS BookingRequest

\* Who has a slot: the one request with an active claim on it.
HolderOf(claimants) == IF claimants = {} THEN Nobody ELSE CHOOSE q \in Requests : q \in claimants
SlotHolder == [s \in Slots |-> HolderOf(owners[s])]
FirmSlots == {s \in Slots : owners[s] \cap Direct # {}}
\* An order that has not been committed asked for nothing yet.
AskedFor == [q \in Requests |-> IF q \in executed THEN Wanted[q] ELSE {}]

OrderBoard == INSTANCE SlotBoard WITH
    Bookings <- Requests, Maintenances <- {},
    holder <- SlotHolder, firm <- FirmSlots, items <- AskedFor

\* To the board, POST /bookings only takes free or lapsed slots, lets holds
\* lapse and drops all that a booking has; the rest of its steps are stutters.
OrdersImplementBoard == OrderBoard!Spec
=============================================================================
