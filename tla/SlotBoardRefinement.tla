------------------------ MODULE SlotBoardRefinement ------------------------
(***************************************************************************)
(* BookingPayments implements SlotBoard: the holder of a slot is the owner *)
(* of its one active row, firm when that row is confirmed.                 *)
(***************************************************************************)
EXTENDS BookingPayments

CONSTANT Nobody

ASSUME NobodyAssumption == Nobody \notin Owners

holder == [s \in Slots |->
              IF \E o \in Owners : IsActive(claims[o][s])
              THEN CHOOSE o \in Owners : IsActive(claims[o][s]) ELSE Nobody]
firm   == {s \in Slots : \E o \in Owners : claims[o][s] = "confirmed"}
items  == [o \in Owners |-> ItemsOf(claims, o)]

Board == INSTANCE SlotBoard WITH lapsed <- holdLapsed

\* Every transaction of the bookings, payments and maintenance code is a step
\* that the board allows, or leaves it as it was: slots are taken only off
\* lapsed holds, and become firm or come back all together.
ImplementsBoard == Board!Spec
=============================================================================
