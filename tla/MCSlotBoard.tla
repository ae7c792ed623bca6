---------------------------- MODULE MCSlotBoard ----------------------------
EXTENDS SlotBoardRefinement, TLC

CONSTANTS b1, b2, p1, cu1, cu2

\* p1 for b1, every other payment for b2.
TwoBookings == [p \in Payments |-> IF p = p1 THEN b1 ELSE b2]
EachOwn     == [b \in Bookings |-> IF b = b1 THEN cu1 ELSE cu2]

Symmetric == Permutations(Slots) \cup Permutations(Maintenances)
=============================================================================
