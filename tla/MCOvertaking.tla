---------------------------- MODULE MCOvertaking ----------------------------
(***************************************************************************)
(* Actors that overtake each other: two bookings on one slot and one promo,*)
(* the pages and calls of one browser with one refresh cookie.  The two    *)
(* share nothing, so a behaviour chooses one (part).                       *)
(***************************************************************************)
EXTENDS MCSlotBoard, BrowserSession

VARIABLE part

\* The calls of a page are alike, too; no liveness is checked.
SymmetricCalls == Symmetric \cup Permutations(Calls)

OvertakingInit == part \in {"bookings", "session"} /\ Init /\ BrowserInit

OvertakingNext ==
    /\ UNCHANGED part
    /\ IF part = "bookings" THEN Next ELSE UNCHANGED vars
    /\ IF part = "session" THEN BrowserNext ELSE UNCHANGED browserVars

OvertakingSpec == OvertakingInit /\ [][OvertakingNext]_<<part, vars, browserVars>>
=============================================================================
