----------------------------- MODULE MCSweepers -----------------------------
(***************************************************************************)
(* What ends by itself: holds and reservations by the minutely jobs J-01   *)
(* and J-09, the counter of a promo by its refresh.  The two share nothing *)
(* here, so a behaviour chooses one (part).                                *)
(***************************************************************************)
EXTENDS MCBookingPayments, PromoUse

CONSTANT c1

VARIABLE part

\* All bookings that ask for the promo are of one customer.
OneUser == [u \in Uses |-> c1]

SweepersInit ==
    /\ part \in {"bookings", "promo"}
    /\ Init
    /\ PromoUseInit
    /\ part # "promo" => promo.total = Unlimited /\ promo.perUser = Unlimited

SweepersNext ==
    /\ UNCHANGED part
    /\ IF part = "bookings" THEN Next ELSE UNCHANGED vars
    /\ IF part = "promo" THEN PromoUseNext ELSE UNCHANGED promoVars

SweepersSpec ==
    /\ SweepersInit /\ [][SweepersNext]_<<part, vars, promoVars>>
    /\ SweeperFairness /\ PromoUseFairness
=============================================================================
