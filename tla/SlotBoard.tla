----------------------------- MODULE SlotBoard -----------------------------
(***************************************************************************)
(* What the slot machinery promises, without rows, statuses or payments:   *)
(* a board that says for each slot who has it, and how firmly.             *)
(*                                                                         *)
(*   - a slot that is free, or whose holder let the hold run out, can be   *)
(*     taken by a newcomer; any other slot cannot;                         *)
(*   - a holder becomes firm in all its slots together or in none;         *)
(*   - who lost slots gets all of them back, firm, or none;                *)
(*   - only a maintenance may override, and only a booking.                *)
(***************************************************************************)
CONSTANTS Bookings, Maintenances, Slots, Nobody

Owners == Bookings \cup Maintenances

VARIABLES
    holder,   \* who has each slot, or Nobody
    firm,     \* slots whose holder has them for good
    items,    \* the slots that each owner ever asked for
    lapsed    \* bookings whose hold has run out

vars == <<holder, firm, items, lapsed>>

Free(s)     == holder[s] = Nobody
Takeable(s) == Free(s) \/ (holder[s] \in lapsed /\ s \notin firm)
SlotsOf(o)  == {s \in Slots : holder[s] = o}

Init ==
    /\ holder = [s \in Slots |-> Nobody]
    /\ firm = {}
    /\ items = [o \in Owners |-> {}]
    /\ lapsed = {}

Give(S, o) == holder' = [s \in Slots |-> IF s \in S THEN o ELSE holder[s]]

Take(o) ==
    /\ items[o] = {}
    /\ \E S \in (SUBSET Slots) \ {{}} :
          /\ items' = [items EXCEPT ![o] = S]
          /\ \A s \in S : Takeable(s)
          /\ Give(S, o)
          /\ firm' \in {firm, firm \cup S}
    /\ UNCHANGED lapsed

Override(m) ==
    /\ items[m] = {}
    /\ \E S \in (SUBSET Slots) \ {{}} :
          /\ items' = [items EXCEPT ![m] = S]
          /\ \A s \in S : Free(s) \/ holder[s] \in Bookings
          /\ Give(S, m)
          /\ firm' = firm \cup S
    /\ UNCHANGED lapsed

MakeFirm(b) ==
    /\ items[b] # {} /\ SlotsOf(b) = items[b]
    /\ firm' = firm \cup items[b]
    /\ UNCHANGED <<holder, items, lapsed>>

Drop(o) ==
    /\ Give(SlotsOf(o), Nobody)
    /\ firm' = firm \ SlotsOf(o)
    /\ UNCHANGED <<items, lapsed>>

Regain(b) ==
    /\ b \in Bookings
    /\ \A s \in items[b] : holder[s] \in {b, Nobody}
    /\ Give(items[b], b)
    /\ firm' = firm \cup items[b]
    /\ UNCHANGED <<items, lapsed>>

Lapse(b) ==
    /\ lapsed' = lapsed \cup {b}
    /\ UNCHANGED <<holder, firm, items>>

Sweep ==
    /\ Give({s \in Slots : holder[s] \in lapsed /\ s \notin firm}, Nobody)
    /\ UNCHANGED <<firm, items, lapsed>>

Next ==
    \/ \E b \in Bookings : MakeFirm(b) \/ Regain(b) \/ Lapse(b)
    \/ \E o \in Owners : Drop(o) \/ Take(o)
    \/ \E m \in Maintenances : Override(m)
    \/ Sweep

Spec == Init /\ [][Next]_vars
=============================================================================
