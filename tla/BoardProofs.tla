---------------------------- MODULE BoardProofs ----------------------------
(***************************************************************************)
(* Every behaviour of BookingPayments is one of SlotBoard: each            *)
(* transaction on claims is a step of the board or leaves it alone.        *)
(***************************************************************************)
EXTENDS SlotBoardRefinement, BookingPaymentsProofs

\* The board, row by row.
HolderReads ==
    /\ \A s \in Slots : holder[s] \in Owners \cup {Nobody}
    /\ \A s \in Slots, o \in Owners : holder[s] = o <=> IsActive(claims[o][s])
FirmReads ==
    /\ firm \subseteq Slots
    /\ \A s \in Slots : s \in firm <=> \E o \in Owners : claims[o][s] = "confirmed"
ItemsRead ==
    \A o \in Owners : /\ items[o] \subseteq Slots
                      /\ \A s \in Slots : s \in items[o] <=> claims[o][s] # "none"
BoardReads ==
    /\ HolderReads /\ FirmReads /\ ItemsRead
    /\ \A o \in Owners, s \in Slots : claims[o][s] \in ClaimStatus

\* With one owner per slot the board reads as it should.
LEMMA BoardRead == TypeOK /\ SlotExclusive => BoardReads
  <1> SUFFICES ASSUME TypeOK, SlotExclusive PROVE BoardReads OBVIOUS
  <1>1. HolderReads
    <2> SUFFICES ASSUME NEW s \in Slots
                 PROVE  /\ holder[s] \in Owners \cup {Nobody}
                        /\ \A o \in Owners : holder[s] = o <=> IsActive(claims[o][s])
      BY DEF HolderReads
    <2>1. CASE \E o \in Owners : IsActive(claims[o][s])
      <3>1. holder[s] \in Owners /\ IsActive(claims[holder[s]][s])
        BY <2>1 DEF holder
      <3> QED BY <3>1 DEF SlotExclusive, Exclusive
    <2>2. CASE \A o \in Owners : ~IsActive(claims[o][s])
      <3>1. holder[s] = Nobody
        BY <2>2 DEF holder
      <3> QED BY <2>2, <3>1, NobodyAssumption
    <2> QED BY <2>1, <2>2
  <1>2. FirmReads
    BY DEF FirmReads, firm
  <1>3. ItemsRead
    BY DEF ItemsRead, items, ItemsOf
  <1>4. \A o \in Owners, s \in Slots : claims[o][s] \in ClaimStatus
    BY DEF TypeOK, ClaimTable
  <1> QED BY <1>1, <1>2, <1>3, <1>4 DEF BoardReads

\* Two sets of slots with the same members are the same.
LEMMA SameSlots ==
    ASSUME NEW A, NEW B, A \subseteq Slots, B \subseteq Slots,
           \A s \in Slots : s \in A <=> s \in B
    PROVE  A = B
  OBVIOUS

\* A slot with the same active rows has the same holder; one with no active
\* row has none; one whose only active row is o's is o's.
LEMMA HolderStep ==
    ASSUME BoardReads, BoardReads', NEW s \in Slots
    PROVE  /\ (\A q \in Owners : IsActive(claims'[q][s]) <=> IsActive(claims[q][s]))
                  => holder'[s] = holder[s]
           /\ (\A q \in Owners : ~IsActive(claims'[q][s])) => holder'[s] = Nobody
           /\ \A o \in Owners : IsActive(claims'[o][s]) => holder'[s] = o
  <1>1. \A q \in Owners : holder'[s] = q <=> IsActive(claims'[q][s])
    BY DEF BoardReads, HolderReads
  <1>2. \A q \in Owners : holder[s] = q <=> IsActive(claims[q][s])
    BY DEF BoardReads, HolderReads
  <1>3. holder'[s] \in Owners \cup {Nobody} /\ holder[s] \in Owners \cup {Nobody}
    BY DEF BoardReads, HolderReads
  <1> QED BY ONLY <1>1, <1>2, <1>3

\* What becomes firm and what stops being firm, slot by slot.
LEMMA FirmStep ==
    ASSUME BoardReads, BoardReads', NEW F, F \subseteq Slots,
           \A s \in Slots : s \in F <=> \E q \in Owners : claims'[q][s] = "confirmed"
    PROVE  firm' = F
  <1>1. firm' \subseteq Slots /\ \A s \in Slots : s \in firm' <=> s \in F
    BY DEF BoardReads, FirmReads
  <1> QED BY <1>1, SameSlots

\* What to show of a step for the board to have made it.
LEMMA GiveStep ==
    ASSUME NEW S, NEW o, \A s \in Slots : holder'[s] = IF s \in S THEN o ELSE holder[s]
    PROVE  Board!Give(S, o)
  BY DEF Board!Give, holder

\* Nobody else's items change.
LEMMA ItemsStep ==
    ASSUME BoardReads, BoardReads', NEW o \in Owners, NEW S \in SUBSET Slots,
           \A q \in Owners, s \in Slots :
               claims'[q][s] # "none" <=> IF q = o THEN s \in S ELSE claims[q][s] # "none"
    PROVE  items' = [items EXCEPT ![o] = S]
  <1>1. \A q \in Owners : items'[q] = IF q = o THEN S ELSE items[q]
    <2> SUFFICES ASSUME NEW q \in Owners
                 PROVE  items'[q] = IF q = o THEN S ELSE items[q]
      OBVIOUS
    <2>1. CASE q = o
      BY <2>1 DEF BoardReads, ItemsRead
    <2>2. CASE q # o
      <3>1. items'[q] = items[q]
        BY <2>2 DEF BoardReads, ItemsRead
      <3> QED BY <2>2, <3>1
    <2> QED BY <2>1, <2>2
  <1> QED BY <1>1 DEF items

\* No items change.
LEMMA ItemsStay ==
    ASSUME BoardReads, BoardReads',
           \A q \in Owners, s \in Slots : claims'[q][s] # "none" <=> claims[q][s] # "none"
    PROVE  items' = items
  <1>1. \A q \in Owners : items'[q] = items[q]
    BY DEF BoardReads, ItemsRead
  <1> QED BY <1>1 DEF items

-----------------------------------------------------------------------------
\* An insert with its takeover, row by row.
LEMMA TakeStep ==
    ASSUME BoardReads, BoardReads', NEW o \in Owners, NEW S \in SUBSET Slots, S # {},
           NEW st \in {"held", "confirmed"},
           \A s \in Slots : claims[o][s] = "none",
           \A q \in Owners, s \in S : IsActive(claims[q][s])
               => q \in holdLapsed /\ claims[q][s] = "held",
           \A q \in Owners, s \in Slots :
               claims'[q][s] = IF q = o /\ s \in S THEN st
                               ELSE IF s \in S /\ q \in holdLapsed /\ claims[q][s] = "held"
                                    THEN "released" ELSE claims[q][s],
           holdLapsed' = holdLapsed
    PROVE  Board!Take(o)
  <1>1. items[o] = {}
    BY DEF BoardReads, ItemsRead
  <1>2. items' = [items EXCEPT ![o] = S]
    BY ItemsStep
  <1>3. \A s \in S : Board!Takeable(s)
    BY DEF Board!Takeable, Board!Free, BoardReads, HolderReads, FirmReads, IsActive
  <1>4. Board!Give(S, o)
    <2> SUFFICES ASSUME NEW s \in Slots
                 PROVE  holder'[s] = IF s \in S THEN o ELSE holder[s]
      BY GiveStep
    <2>1. CASE s \in S
      <3>1. IsActive(claims'[o][s])
        BY <2>1 DEF IsActive
      <3> QED BY <2>1, <3>1, HolderStep
    <2>2. CASE s \notin S
      <3>1. \A q \in Owners : claims'[q][s] = claims[q][s]
        BY <2>2
      <3> QED BY <2>2, <3>1, HolderStep
    <2> QED BY <2>1, <2>2
  <1>5. firm' \in {firm, firm \cup S}
    <2>1. \A s \in S, q \in Owners : claims[q][s] # "confirmed"
      BY DEF IsActive
    <2>2. CASE st = "held"
      <3>1. \A q \in Owners, s \in Slots :
               claims'[q][s] = "confirmed" <=> claims[q][s] = "confirmed"
        BY <2>1, <2>2
      <3>2. firm \subseteq Slots
            /\ \A s \in Slots : s \in firm <=> \E q \in Owners : claims'[q][s] = "confirmed"
        BY <3>1 DEF BoardReads, FirmReads
      <3>3. firm' = firm
        BY <3>2, FirmStep
      <3> QED BY <3>3
    <2>3. CASE st = "confirmed"
      <3>1. \A q \in Owners, s \in Slots :
               claims'[q][s] = "confirmed"
                   <=> (q = o /\ s \in S) \/ claims[q][s] = "confirmed"
        BY <2>1, <2>3
      <3>2. firm \cup S \subseteq Slots
            /\ \A s \in Slots : s \in firm \cup S
                                 <=> \E q \in Owners : claims'[q][s] = "confirmed"
        BY <3>1 DEF BoardReads, FirmReads
      <3>3. firm' = firm \cup S
        BY <3>2, FirmStep
      <3> QED BY <3>3
    <2> QED BY <2>2, <2>3
  <1> QED BY <1>1, <1>2, <1>4, <1>3, <1>5 DEF Board!Take

\* An owner gives up every row it has.
LEMMA DropStep ==
    ASSUME BoardReads, BoardReads', NEW o \in Owners,
           \A q \in Owners, s \in Slots :
               claims'[q][s] = IF q = o /\ IsActive(claims[q][s]) THEN "released"
                               ELSE claims[q][s],
           holdLapsed' = holdLapsed
    PROVE  Board!Drop(o)
  <1>1. items' = items
    BY ItemsStay DEF IsActive
  <1>2. \A s \in Slots : s \in Board!SlotsOf(o) <=> IsActive(claims[o][s])
    BY DEF Board!SlotsOf, BoardReads, HolderReads
  <1>3. \A s \in Slots, q \in Owners :
           IsActive(claims[o][s]) /\ IsActive(claims[q][s]) => q = o
    BY DEF BoardReads, HolderReads
  <1>4. Board!Give(Board!SlotsOf(o), Nobody)
    <2> SUFFICES ASSUME NEW s \in Slots
                 PROVE  holder'[s] = IF s \in Board!SlotsOf(o) THEN Nobody ELSE holder[s]
      BY GiveStep
    <2>1. CASE IsActive(claims[o][s])
      <3>1. \A q \in Owners : ~IsActive(claims'[q][s])
        BY <2>1, <1>3 DEF IsActive
      <3> QED BY <1>2, <2>1, <3>1, HolderStep
    <2>2. CASE ~IsActive(claims[o][s])
      <3>1. \A q \in Owners : claims'[q][s] = claims[q][s]
        BY <2>2
      <3> QED BY <1>2, <2>2, <3>1, HolderStep
    <2> QED BY <2>1, <2>2
  <1>5. firm' = firm \ Board!SlotsOf(o)
    <2>1. \A s \in Slots, q \in Owners :
             claims'[q][s] = "confirmed"
                 <=> claims[q][s] = "confirmed" /\ ~IsActive(claims[o][s])
      BY <1>3 DEF IsActive
    <2>2. firm \ Board!SlotsOf(o) \subseteq Slots
          /\ \A s \in Slots : s \in firm \ Board!SlotsOf(o)
                               <=> \E q \in Owners : claims'[q][s] = "confirmed"
      BY <1>2, <2>1 DEF BoardReads, FirmReads
    <2> QED BY <2>2, FirmStep
  <1> QED BY <1>1, <1>4, <1>5 DEF Board!Drop

\* A booking confirms all its rows, which nobody else has.
LEMMA RegainStep ==
    ASSUME BoardReads, BoardReads', NEW b \in Bookings,
           \A q \in Owners, s \in Slots :
               claims[b][s] # "none" /\ IsActive(claims[q][s]) => q = b,
           \A q \in Owners, s \in Slots :
               claims'[q][s] = IF q = b /\ claims[q][s] # "none" THEN "confirmed"
                               ELSE claims[q][s],
           holdLapsed' = holdLapsed
    PROVE  Board!Regain(b)
  <1>1. b \in Owners
    BY BookingsOwn
  <1>2. items' = items
    BY ItemsStay
  <1>3. items[b] \subseteq Slots /\ \A s \in Slots : s \in items[b] <=> claims[b][s] # "none"
    BY <1>1 DEF BoardReads, ItemsRead
  <1>4. \A s \in items[b] : holder[s] \in {b, Nobody}
    BY <1>3 DEF BoardReads, HolderReads
  <1>5. Board!Give(items[b], b)
    <2> SUFFICES ASSUME NEW s \in Slots
                 PROVE  holder'[s] = IF s \in items[b] THEN b ELSE holder[s]
      BY GiveStep
    <2>1. CASE s \in items[b]
      <3>1. IsActive(claims'[b][s])
        BY <1>1, <1>3, <2>1 DEF IsActive
      <3> QED BY <1>1, <2>1, <3>1, HolderStep
    <2>2. CASE s \notin items[b]
      <3>1. \A q \in Owners : claims'[q][s] = claims[q][s]
        BY <1>3, <2>2
      <3> QED BY <2>2, <3>1, HolderStep
    <2> QED BY <2>1, <2>2
  <1>6. firm' = firm \cup items[b]
    <2>1. \A s \in Slots, q \in Owners :
             claims'[q][s] = "confirmed"
                 <=> (q = b /\ s \in items[b]) \/ claims[q][s] = "confirmed"
      BY <1>3
    <2>2. firm \cup items[b] \subseteq Slots
          /\ \A s \in Slots : s \in firm \cup items[b]
                               <=> \E q \in Owners : claims'[q][s] = "confirmed"
      BY <1>1, <1>3, <2>1 DEF BoardReads, FirmReads
    <2> QED BY <2>2, FirmStep
  <1> QED BY <1>2, <1>4, <1>5, <1>6 DEF Board!Regain

\* A forced maintenance, which clashes with bookings only.
LEMMA OverrideStep ==
    ASSUME BoardReads, BoardReads', NEW m \in Maintenances, NEW S \in SUBSET Slots, S # {},
           \A s \in Slots : claims[m][s] = "none",
           \A q \in Owners, s \in S : IsActive(claims[q][s]) => q \in Bookings,
           \A q \in Owners, s \in Slots :
               claims'[q][s] = IF q = m /\ s \in S THEN "confirmed"
                               ELSE IF s \in S /\ IsActive(claims[q][s])
                                    THEN "released" ELSE claims[q][s],
           holdLapsed' = holdLapsed
    PROVE  Board!Override(m)
  <1>1. m \in Owners
    BY BookingsOwn
  <1>2. items[m] = {}
    BY <1>1 DEF BoardReads, ItemsRead
  <1>3. \A q \in Owners, s \in Slots :
           claims'[q][s] # "none" <=> IF q = m THEN s \in S ELSE claims[q][s] # "none"
    BY DEF IsActive
  <1>4. items' = [items EXCEPT ![m] = S]
    BY <1>1, <1>3, ItemsStep
  <1>5. \A s \in S : Board!Free(s) \/ holder[s] \in Bookings
    BY DEF Board!Free, BoardReads, HolderReads
  <1>6. Board!Give(S, m)
    <2> SUFFICES ASSUME NEW s \in Slots
                 PROVE  holder'[s] = IF s \in S THEN m ELSE holder[s]
      BY GiveStep
    <2>1. CASE s \in S
      <3>1. IsActive(claims'[m][s])
        BY <1>1, <2>1 DEF IsActive
      <3> QED BY <1>1, <2>1, <3>1, HolderStep
    <2>2. CASE s \notin S
      <3>1. \A q \in Owners : claims'[q][s] = claims[q][s]
        BY <2>2
      <3> QED BY <2>2, <3>1, HolderStep
    <2> QED BY <2>1, <2>2
  <1>7. firm' = firm \cup S
    <2>1. \A s \in Slots : s \in S => claims'[m][s] = "confirmed"
      BY <1>1
    <2>2. \A s \in Slots, q \in Owners :
             s \notin S => claims'[q][s] = claims[q][s]
      OBVIOUS
    <2>3. firm \cup S \subseteq Slots
          /\ \A s \in Slots : s \in firm \cup S
                               <=> \E q \in Owners : claims'[q][s] = "confirmed"
      BY <1>1, <2>1, <2>2 DEF BoardReads, FirmReads
    <2> QED BY <2>3, FirmStep
  <1> QED BY <1>2, <1>4, <1>5, <1>6, <1>7 DEF Board!Override

\* A booking whose rows are all held confirms them; one without rows, which
\* no settlement meets, would change nothing.
LEMMA FirmUpStep ==
    ASSUME BoardReads, BoardReads', NEW b \in Bookings,
           \A s \in Slots : claims[b][s] \in {"none", "held"},
           \A q \in Owners, s \in Slots :
               claims'[q][s] = IF q = b /\ claims[q][s] = "held" THEN "confirmed"
                               ELSE claims[q][s],
           holdLapsed' = holdLapsed
    PROVE  Board!MakeFirm(b) \/ UNCHANGED Board!vars
  <1>1. b \in Owners
    BY BookingsOwn
  <1>2. items' = items
    BY ItemsStay
  <1>3. items[b] \subseteq Slots /\ \A s \in Slots : s \in items[b] <=> claims[b][s] = "held"
    BY <1>1 DEF BoardReads, ItemsRead
  <1>4. Board!SlotsOf(b) = items[b]
    BY <1>1, <1>3 DEF Board!SlotsOf, BoardReads, HolderReads, IsActive
  <1>5. holder' = holder
    <2>1. \A s \in Slots : holder'[s] = holder[s]
      <3> SUFFICES ASSUME NEW s \in Slots PROVE holder'[s] = holder[s]
        OBVIOUS
      <3>1. \A q \in Owners : IsActive(claims'[q][s]) <=> IsActive(claims[q][s])
        BY DEF IsActive
      <3> QED BY <3>1, HolderStep
    <2> QED BY <2>1 DEF holder
  <1>6. firm' = firm \cup items[b]
    <2>1. \A s \in Slots, q \in Owners :
             claims'[q][s] = "confirmed"
                 <=> (q = b /\ s \in items[b]) \/ claims[q][s] = "confirmed"
      BY <1>3
    <2>2. firm \cup items[b] \subseteq Slots
          /\ \A s \in Slots : s \in firm \cup items[b]
                               <=> \E q \in Owners : claims'[q][s] = "confirmed"
      BY <1>1, <1>3, <2>1 DEF BoardReads, FirmReads
    <2> QED BY <2>2, FirmStep
  <1>7. CASE items[b] = {}
    <2>1. firm' = firm
      BY <1>6, <1>7
    <2> QED BY <1>2, <1>5, <2>1 DEF Board!vars
  <1>8. CASE items[b] # {}
    BY <1>2, <1>4, <1>5, <1>6, <1>8 DEF Board!MakeFirm
  <1> QED BY <1>7, <1>8

\* J-01 lets the lapsed holds go, and nothing that is firm.
LEMMA SweepStep ==
    ASSUME BoardReads, BoardReads',
           \A q \in Owners, s \in Slots :
               claims'[q][s] = IF q \in holdLapsed /\ claims[q][s] = "held"
                               THEN "released" ELSE claims[q][s],
           holdLapsed \subseteq Owners,
           holdLapsed' = holdLapsed
    PROVE  Board!Sweep
  <1> DEFINE G == {s \in Slots : holder[s] \in holdLapsed /\ s \notin firm}
  <1>1. items' = items
    BY ItemsStay
  <1>2. \A s \in Slots, q \in Owners : holder[s] = q <=> IsActive(claims[q][s])
    BY DEF BoardReads, HolderReads
  <1>3. \A s \in Slots : s \in G <=> \E q \in holdLapsed : claims[q][s] = "held"
    BY <1>2 DEF BoardReads, FirmReads, IsActive
  <1>4. Board!Give(G, Nobody)
    <2> SUFFICES ASSUME NEW s \in Slots
                 PROVE  holder'[s] = IF s \in G THEN Nobody ELSE holder[s]
      BY GiveStep
    <2>1. CASE s \in G
      <3>1. \A q \in Owners : ~IsActive(claims'[q][s])
        BY <1>2, <1>3, <2>1 DEF IsActive
      <3> QED BY <2>1, <3>1, HolderStep
    <2>2. CASE s \notin G
      <3>1. \A q \in Owners : claims'[q][s] = claims[q][s]
        BY <1>3, <2>2
      <3> QED BY <2>2, <3>1, HolderStep
    <2> QED BY <2>1, <2>2
  <1>5. firm' = firm
    <2>1. \A s \in Slots, q \in Owners :
             claims'[q][s] = "confirmed" <=> claims[q][s] = "confirmed"
      OBVIOUS
    <2>2. firm \subseteq Slots
          /\ \A s \in Slots : s \in firm <=> \E q \in Owners : claims'[q][s] = "confirmed"
      BY <2>1 DEF BoardReads, FirmReads
    <2> QED BY <2>2, FirmStep
  <1> QED BY <1>1, <1>4, <1>5 DEF Board!Sweep

-----------------------------------------------------------------------------
(* Which transaction makes which step of the board.                        *)

BoardStep == Board!Next \/ UNCHANGED Board!vars

\* Steps that do not touch slot_claims, nor time.
LEMMA NoBoardStep == ASSUME UNCHANGED <<claims, holdLapsed>> PROVE BoardStep
  BY DEF BoardStep, Board!vars, holder, firm, items, IsActive, ItemsOf

\* A new owner takes slots that are free or whose holds have lapsed.
LEMMA NewOwnerTakes ==
    ASSUME TypeOK, BoardReads, BoardReads', NEW o \in Owners, NEW S \in SUBSET Slots,
           NEW st \in {"held", "confirmed"}, ClaimNew(o, S, st), holdLapsed' = holdLapsed,
           \A s \in Slots : claims[o][s] = "none"
    PROVE  BoardStep
  <1> DEFINE free == ReleaseExpired(claims, S, holdLapsed)
  <1>1. S # {} /\ CanInsert(free, S)
    BY DEF ClaimNew
  <1>2. \A q \in Owners, s \in S : ~IsActive(free[q][s])
    BY <1>1 DEF CanInsert, Conflicts, ActiveSlots
  <1>3. \A q \in Owners, s \in S :
           free[q][s] = IF q \in holdLapsed /\ claims[q][s] = "held"
                        THEN "released" ELSE claims[q][s]
    BY ReleaseExpiredValue DEF TypeOK
  <1>4. \A q \in Owners, s \in S :
           IsActive(claims[q][s]) => q \in holdLapsed /\ claims[q][s] = "held"
    BY <1>2, <1>3
  <1>5. st \in ClaimStatus
    BY DEF ClaimStatus
  <1>6. \A q \in Owners, s \in Slots :
           claims'[q][s] = IF q = o /\ s \in S THEN st
                           ELSE IF s \in S /\ q \in holdLapsed /\ claims[q][s] = "held"
                                THEN "released" ELSE claims[q][s]
    BY <1>5, ClaimNewRows
  <1>7. Board!Take(o)
    BY <1>1, <1>4, <1>6, TakeStep
  <1> QED BY <1>7 DEF BoardStep, Board!Next, Board!Owners, Owners

\* A release by owner is a drop.
LEMMA ReleaseDrops ==
    ASSUME TypeOK, BoardReads, BoardReads', NEW o \in Owners,
           claims' = ReleaseByOwner(claims, o), holdLapsed' = holdLapsed
    PROVE  BoardStep
  <1>1. \A q \in Owners, s \in Slots :
           claims'[q][s] = IF q = o /\ IsActive(claims[q][s]) THEN "released"
                           ELSE claims[q][s]
    BY OwnerStatementsValue DEF TypeOK
  <1>2. Board!Drop(o)
    BY <1>1, DropStep
  <1> QED BY <1>2 DEF BoardStep, Board!Next, Board!Owners, Owners

\* Bookings take slots, drop them and let them lapse; J-01 sweeps.
LEMMA BookingStepBoard ==
    ASSUME TypeOK, RowsInv, BoardReads, BoardReads', BookingStep
    PROVE  BoardStep
  <1>1. ASSUME NEW b \in Bookings, NEW S \in SUBSET Slots, NEW promo \in BOOLEAN,
               CreateBooking(b, S, promo) \/ CreateWalkIn(b, S, promo)
        PROVE  BoardStep
    <2>1. b \in Owners /\ \A s \in Slots : claims[b][s] = "none"
      BY <1>1, BookingsOwn DEF CreateBooking, CreateWalkIn, RowsInv, BookingRows
    <2>2. holdLapsed' = holdLapsed /\ \E st \in {"held", "confirmed"} : ClaimNew(b, S, st)
      BY <1>1 DEF CreateBooking, CreateWalkIn
    <2> QED BY <2>1, <2>2, NewOwnerTakes
  <1>2. ASSUME NEW b \in Bookings, LapseHold(b) PROVE BoardStep
    <2>1. Board!Lapse(b)
      BY <1>2 DEF LapseHold, Board!Lapse, holder, firm, items, IsActive, ItemsOf
    <2> QED BY <2>1 DEF BoardStep, Board!Next
  <1>3. ASSUME NEW b \in Bookings, ReadForCancel(b) PROVE BoardStep
    BY <1>3, NoBoardStep DEF ReadForCancel, bookingVars
  <1>4. ASSUME NEW b \in Bookings, CancelBooking(b) PROVE BoardStep
    BY <1>4, ReleaseDrops, BookingsOwn DEF CancelBooking
  <1>5. CASE SweepHolds
    <2>1. \A q \in Owners, s \in Slots :
             claims'[q][s] = IF q \in holdLapsed /\ claims[q][s] = "held"
                             THEN "released" ELSE claims[q][s]
      BY <1>5, ReleaseExpiredValue DEF SweepHolds, TypeOK
    <2>2. holdLapsed \subseteq Owners /\ holdLapsed' = holdLapsed
      BY <1>5, BookingsOwn DEF SweepHolds, TypeOK
    <2>3. Board!Sweep
      BY <2>1, <2>2, SweepStep
    <2> QED BY <2>3 DEF BoardStep, Board!Next
  <1>6. CASE SweepPromos
    BY <1>6, NoBoardStep DEF SweepPromos
  <1> QED BY <1>1, <1>2, <1>3, <1>4, <1>5, <1>6 DEF BookingStep

\* A maintenance takes slots, overrides bookings or drops its slots.
LEMMA MaintenanceStepBoard ==
    ASSUME TypeOK, RowsInv, BoardReads, BoardReads', MaintenanceStep
    PROVE  BoardStep
  <1> USE DEF bookingVars
  <1>1. ASSUME NEW m \in Maintenances, NEW S \in SUBSET Slots, CreateMaintenance(m, S)
        PROVE  BoardStep
    <2>1. m \in Owners /\ \A s \in Slots : claims[m][s] = "none"
      BY <1>1, BookingsOwn DEF CreateMaintenance, RowsInv, MaintenanceRows
    <2>2. holdLapsed' = holdLapsed /\ ClaimNew(m, S, "confirmed")
      BY <1>1 DEF CreateMaintenance
    <2> QED BY <2>1, <2>2, NewOwnerTakes
  <1>2. ASSUME NEW m \in Maintenances, NEW S \in SUBSET Slots, ForceMaintenance(m, S)
        PROVE  BoardStep
    <2> DEFINE free == ReleaseConflicts(claims, S)
    <2>1. free \in ClaimTable /\ claims' = InsertClaims(free, m, S, "confirmed")
      BY <1>2, ReleaseConflictsType DEF ForceMaintenance, TypeOK
    <2>2. \A q \in Owners, s \in Slots :
             claims'[q][s] = IF q = m /\ s \in S THEN "confirmed"
                             ELSE IF s \in S /\ IsActive(claims[q][s])
                                  THEN "released" ELSE claims[q][s]
      BY <2>1, OwnerStatementsValue, ReleaseConflictsValue, BookingsOwn
         DEF TypeOK, ClaimStatus
    <2>3. \A q \in Owners, s \in S : IsActive(claims[q][s]) => q \in Bookings
      BY <1>2 DEF ForceMaintenance, Overridable, Conflicts, ActiveSlots
    <2>4. S # {} /\ holdLapsed' = holdLapsed /\ \A s \in Slots : claims[m][s] = "none"
      BY <1>2 DEF ForceMaintenance, RowsInv, MaintenanceRows
    <2>5. Board!Override(m)
      BY <2>2, <2>3, <2>4, OverrideStep
    <2> QED BY <2>5 DEF BoardStep, Board!Next
  <1>3. ASSUME NEW m \in Maintenances, CancelMaintenance(m) PROVE BoardStep
    BY <1>3, ReleaseDrops, BookingsOwn DEF CancelMaintenance
  <1> QED BY <1>1, <1>2, <1>3 DEF MaintenanceStep

\* Of the steps of payments, J-07 alone touches slots: it drops them.
LEMMA PaymentStepBoard ==
    ASSUME TypeOK, BoardReads, BoardReads', PaymentStep
    PROVE  BoardStep
  <1> USE DEF bookingVars
  <1>1. ASSUME NEW p \in Payments, ExpireUnpaid(p) PROVE BoardStep
    <2>1. BookingOf[p] \in Owners
      BY CoreAssumption, BookingsOwn
    <2> QED BY <1>1, <2>1, ReleaseDrops DEF ExpireUnpaid
  <1>2. ASSUME NEW b \in Bookings, CheckPayable(b) \/ GiveUpPaying(b) PROVE BoardStep
    BY <1>2, NoBoardStep DEF CheckPayable, GiveUpPaying
  <1>3. ASSUME NEW p \in Payments,
               \/ InsertPayment(p)
               \/ PaymentFallsDue(p)
               \/ CancelPayment(p)
               \/ OpenGateway(p)
               \/ \E st \in {"settled", "closed"} : GatewayEnds(p, st)
               \/ ReceiveWebhook(p)
               \/ \E st \in {"expired", "failed", "cancelled"} : ProviderEnds(p, st)
               \/ NotFoundAtGateway(p)
               \/ WebhookOfPaid(p)
        PROVE  BoardStep
    <2>1. UNCHANGED <<claims, holdLapsed>>
      BY <1>3 DEF InsertPayment, PaymentFallsDue, CancelPayment, OpenGateway, GatewayEnds,
         ReceiveWebhook, ProviderEnds, NotFoundAtGateway, WebhookOfPaid
    <2> QED BY <2>1, NoBoardStep
  <1> QED BY <1>1, <1>2, <1>3 DEF PaymentStep

\* A settlement makes a booking firm, takes all its slots back, or drops them.
LEMMA SettlementStepBoard ==
    ASSUME TypeOK, RowsInv, BoardReads, BoardReads', NEW w \in Workers, SettlementStep(w)
    PROVE  BoardStep
  <1> DEFINE b == BookingOf[settling[w].pay]
             free == ReleaseByOwner(claims, b)
  <1> USE DEF bookingVars
  <1>1. ASSUME settling[w].stage = "locked", CommitPaid(w)
        PROVE  b \in Bookings /\ b \in Owners /\ SettleWrites(b) /\ holdLapsed' = holdLapsed
    <2>1. b \in Bookings /\ holdLapsed' = holdLapsed
      BY <1>1, InFlightType DEF CommitPaid
    <2> QED BY <2>1, SettleValues, BookingsOwn
  <1>2. CASE SettleConfirm(w)
    <2>1. b \in Bookings /\ b \in Owners /\ SettleWrites(b) /\ holdLapsed' = holdLapsed
      BY <1>1, <1>2 DEF SettleConfirm
    <2>2. claims' = ConfirmHeld(claims, b) /\ HeldInFull(b)
      BY <1>2 DEF SettleConfirm
    <2>3. \A s \in Slots : claims[b][s] \in {"none", "held"}
      BY <2>2 DEF HeldInFull, HeldSlots, ItemsOf
    <2>4. Board!MakeFirm(b) \/ UNCHANGED Board!vars
      BY <2>1, <2>2, <2>3, FirmUpStep DEF SettleWrites
    <2> QED BY <2>1, <2>4 DEF BoardStep, Board!Next
  <1>3. CASE SettleReclaim(w)
    <2>1. b \in Bookings /\ b \in Owners /\ SettleWrites(b) /\ holdLapsed' = holdLapsed
      BY <1>1, <1>3 DEF SettleReclaim
    <2>2. claims' = Reclaim(free, b) /\ CanReclaim(free, b)
      BY <1>3 DEF SettleReclaim
    <2>3. \A q \in Owners, s \in Slots :
             claims[b][s] # "none" /\ IsActive(claims[q][s]) => q = b
      <3> SUFFICES ASSUME NEW q \in Owners, NEW s \in Slots, claims[b][s] # "none",
                          IsActive(claims[q][s]), q # b
                   PROVE  FALSE
        OBVIOUS
      <3>1. free[b][s] = "released"
        BY <2>1, BoardReads DEF SettleWrites, BoardReads, IsActive, ClaimStatus
      <3>2. IsActive(free[q][s])
        BY <2>1 DEF SettleWrites
      <3> QED BY <2>2, <3>1, <3>2 DEF CanReclaim, Conflicts, ActiveSlots, ReleasedSlots
    <2>4. Board!Regain(b)
      BY <2>1, <2>2, <2>3, RegainStep DEF SettleWrites
    <2> QED BY <2>1, <2>4 DEF BoardStep, Board!Next
  <1>4. CASE SettleLostHold(w)
    <2>1. b \in Owners /\ holdLapsed' = holdLapsed
      BY <1>1, <1>4 DEF SettleLostHold
    <2> QED BY <1>4, <2>1, ReleaseDrops DEF SettleLostHold
  <1>5. CASE SettleRecover(w)
    <2>1. b \in Bookings /\ b \in Owners /\ SettleWrites(b) /\ holdLapsed' = holdLapsed
      BY <1>1, <1>5 DEF SettleRecover
    <2>2. claims' = Reclaim(claims, b) /\ CanReclaim(claims, b) /\ bookingStatus[b] = "expired"
      BY <1>5 DEF SettleRecover
    <2>3. \A s \in Slots : claims[b][s] \in {"none", "released"}
      BY <2>1, <2>2 DEF BoardReads, RowsInv, BookingRows, IsActive, ClaimStatus
    <2>4. \A q \in Owners, s \in Slots :
             claims[b][s] # "none" /\ IsActive(claims[q][s]) => q = b
      BY <2>2, <2>3 DEF CanReclaim, Conflicts, ActiveSlots, ReleasedSlots
    <2>5. \A q \in Owners, s \in Slots :
             claims'[q][s] = IF q = b /\ claims[q][s] # "none" THEN "confirmed"
                             ELSE claims[q][s]
      BY <2>1, <2>2, <2>3 DEF SettleWrites
    <2>6. Board!Regain(b)
      BY <2>1, <2>4, <2>5, RegainStep
    <2> QED BY <2>1, <2>6 DEF BoardStep, Board!Next
  <1>6. CASE SettleTooLate(w) \/ SettleExtra(w)
    <2>1. UNCHANGED <<claims, holdLapsed>>
      BY <1>6 DEF SettleTooLate, SettleExtra, CommitPaid
    <2> QED BY <2>1, NoBoardStep
  <1>7. ASSUME \/ \E p \in Payments, via \in {"webhook", "sync"} : ReadPayment(w, p, via)
               \/ \E p \in Payments : InsertManual(w, p)
               \/ LockPayment(w) \/ MissPayment(w) \/ AbortSettlement(w)
        PROVE  BoardStep
    <2>1. UNCHANGED <<claims, holdLapsed>>
      BY <1>7 DEF ReadPayment, InsertManual, LockPayment, MissPayment, AbortSettlement
    <2> QED BY <2>1, NoBoardStep
  <1> QED BY <1>2, <1>3, <1>4, <1>5, <1>6, <1>7 DEF SettlementStep

\* BookingPayments implements SlotBoard: no interleaving of takeovers, sweeps,
\* cancellations, forced maintenance and late settlements gives a slot to two
\* owners, takes one that is firm for another booking, or makes part of a
\* booking firm.
THEOREM BoardImplemented == Spec => ImplementsBoard
  <1>1. Init => Board!Init
    <2> SUFFICES ASSUME Init PROVE Board!Init OBVIOUS
    <2>1. \A o \in Owners, s \in Slots : claims[o][s] = "none"
      BY DEF Init, NoClaims
    <2> QED BY <2>1 DEF Init, Board!Init, Board!Owners, Owners, holder, firm, items, ItemsOf,
            IsActive
  <1>2. TypeOK /\ RowsInv /\ BoardReads /\ BoardReads' /\ [Next]_vars
            => [Board!Next]_(Board!vars)
    <2> SUFFICES ASSUME TypeOK, RowsInv, BoardReads, BoardReads', [Next]_vars
                 PROVE  BoardStep
      BY DEF BoardStep
    <2>1. CASE UNCHANGED vars
      BY <2>1, NoBoardStep DEF vars, bookingVars
    <2> QED BY <2>1, BookingStepBoard, MaintenanceStepBoard, PaymentStepBoard,
               SettlementStepBoard DEF Next
  <1> QED BY <1>1, <1>2, BoardRead, TypeCorrect, NoDoubleBooking, RowsCorrect, PTL
          DEF Spec, ImplementsBoard, Board!Spec
=============================================================================
