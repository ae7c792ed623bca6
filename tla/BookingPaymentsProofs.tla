----------------------- MODULE BookingPaymentsProofs -----------------------
(***************************************************************************)
(* Theorems about BookingPayments for every set of bookings, slots,        *)
(* payments, maintenances and workers.                                     *)
(***************************************************************************)
EXTENDS BookingPayments, TLAPS, FiniteSetTheorems

(***************************************************************************)
(* What each statement on slot_claims returns and preserves: it yields a   *)
(* table, and no statement the index lets through makes two owners of a    *)
(* slot.                                                                   *)
(***************************************************************************)
\* d has no active row that c has not.
Shrinks(c, d) ==
    \A o \in Owners, s \in Slots : IsActive(d[o][s]) => IsActive(c[o][s])

\* SetRows writes st into the rows named, and only those.
LEMMA SetRowsValue ==
    ASSUME NEW c \in ClaimTable, NEW o \in Owners, NEW S, NEW st \in ClaimStatus
    PROVE  /\ SetRows(c, o, S, st) \in ClaimTable
           /\ \A q \in Owners, s \in Slots :
                 SetRows(c, o, S, st)[q][s] =
                     IF q = o /\ s \in S THEN st ELSE c[q][s]
  BY DEF SetRows, ClaimTable

\* The empty table is a table.
LEMMA NoClaimsType == NoClaims \in ClaimTable
  BY DEF NoClaims, ClaimTable, ClaimStatus

\* Releasing lapsed holds yields a table.
LEMMA ReleaseExpiredType ==
    ASSUME NEW c \in ClaimTable, NEW S, NEW lapsed
    PROVE  ReleaseExpired(c, S, lapsed) \in ClaimTable
  BY DEF ReleaseExpired, ClaimTable, ClaimStatus

\* So does a forced release.
LEMMA ReleaseConflictsType ==
    ASSUME NEW c \in ClaimTable, NEW S
    PROVE  ReleaseConflicts(c, S) \in ClaimTable
  BY DEF ReleaseConflicts, ClaimTable, ClaimStatus

\* And the statements that write the rows of one owner.
LEMMA OwnerStatementsType ==
    ASSUME NEW c \in ClaimTable, NEW o \in Owners
    PROVE  /\ ReleaseByOwner(c, o) \in ClaimTable
           /\ ConfirmHeld(c, o) \in ClaimTable
           /\ Reclaim(c, o) \in ClaimTable
           /\ \A S : \A st \in ClaimStatus : InsertClaims(c, o, S, st) \in ClaimTable
  BY SetRowsValue
  DEF ReleaseByOwner, ConfirmHeld, Reclaim, InsertClaims, ClaimStatus

-----------------------------------------------------------------------------
\* A table with fewer active rows keeps the index satisfied.
LEMMA ShrinkKeepsExclusive ==
    ASSUME NEW c, NEW d, Exclusive(c), Shrinks(c, d)
    PROVE  Exclusive(d)
  BY DEF Exclusive, Shrinks

\* No releasing statement activates a row.
LEMMA ReleaseShrinks ==
    ASSUME NEW c \in ClaimTable, NEW S, NEW lapsed, NEW o \in Owners
    PROVE  /\ Shrinks(c, ReleaseExpired(c, S, lapsed))
           /\ Shrinks(c, ReleaseConflicts(c, S))
           /\ Shrinks(c, ReleaseByOwner(c, o))
           /\ Shrinks(c, ConfirmHeld(c, o))
  <1>1. Shrinks(c, ReleaseExpired(c, S, lapsed))
    BY DEF Shrinks, ReleaseExpired, IsActive
  <1>2. Shrinks(c, ReleaseConflicts(c, S))
    BY DEF Shrinks, ReleaseConflicts, IsActive
  <1>3. Shrinks(c, ReleaseByOwner(c, o))
    BY SetRowsValue DEF Shrinks, ReleaseByOwner, IsActive, ClaimStatus
  <1>4. Shrinks(c, ConfirmHeld(c, o))
    BY SetRowsValue DEF Shrinks, ConfirmHeld, HeldSlots, IsActive, ClaimStatus
  <1> QED BY <1>1, <1>2, <1>3, <1>4

\* An insert that the index accepts keeps it satisfied.
LEMMA InsertKeepsExclusive ==
    ASSUME NEW c \in ClaimTable, NEW o \in Owners, NEW S, NEW st \in ClaimStatus,
           Exclusive(c), CanInsert(c, S)
    PROVE  Exclusive(InsertClaims(c, o, S, st))
  <1> DEFINE d == InsertClaims(c, o, S, st)
  <1>1. \A q \in Owners, s \in Slots : s \in S => ~IsActive(c[q][s])
    BY DEF CanInsert, Conflicts, ActiveSlots
  <1>2. \A q \in Owners, s \in Slots :
           d[q][s] = IF q = o /\ s \in S THEN st ELSE c[q][s]
    BY SetRowsValue DEF InsertClaims
  <1> QED BY <1>1, <1>2 DEF Exclusive

\* After a forced release nothing stands in the way of the maintenance.
LEMMA ForcedInsertFits ==
    ASSUME NEW c \in ClaimTable, NEW S
    PROVE  CanInsert(ReleaseConflicts(c, S), S)
  BY DEF CanInsert, Conflicts, ActiveSlots, ReleaseConflicts, IsActive

\* Taking released rows back keeps the index satisfied when CanReclaim.
LEMMA ReclaimKeepsExclusive ==
    ASSUME NEW c \in ClaimTable, NEW o \in Owners, Exclusive(c), CanReclaim(c, o)
    PROVE  Exclusive(Reclaim(c, o))
  <1> DEFINE d == Reclaim(c, o)
             S == ReleasedSlots(c, o)
  <1>1. \A q \in Owners, s \in Slots : s \in S /\ IsActive(c[q][s]) => q = o
    BY DEF CanReclaim, Conflicts, ActiveSlots
  <1>2. \A q \in Owners, s \in Slots :
           d[q][s] = IF q = o /\ s \in S THEN "confirmed" ELSE c[q][s]
    BY SetRowsValue DEF Reclaim, ClaimStatus
  <1> QED BY <1>1, <1>2 DEF Exclusive

-----------------------------------------------------------------------------
\* What each statement leaves in every row.
LEMMA ReleaseExpiredValue ==
    ASSUME NEW c \in ClaimTable, NEW S, NEW lapsed, NEW q \in Owners, NEW s \in Slots
    PROVE  ReleaseExpired(c, S, lapsed)[q][s] =
               IF s \in S /\ q \in lapsed /\ c[q][s] = "held" THEN "released" ELSE c[q][s]
  BY DEF ReleaseExpired

\* What a forced release leaves in each row.
LEMMA ReleaseConflictsValue ==
    ASSUME NEW c \in ClaimTable, NEW S, NEW q \in Owners, NEW s \in Slots
    PROVE  ReleaseConflicts(c, S)[q][s] =
               IF s \in S /\ IsActive(c[q][s]) THEN "released" ELSE c[q][s]
  BY DEF ReleaseConflicts

\* What each statement on one owner leaves in each row.
LEMMA OwnerStatementsValue ==
    ASSUME NEW c \in ClaimTable, NEW o \in Owners, NEW q \in Owners, NEW s \in Slots
    PROVE  /\ ReleaseByOwner(c, o)[q][s] =
                  IF q = o /\ IsActive(c[q][s]) THEN "released" ELSE c[q][s]
           /\ ConfirmHeld(c, o)[q][s] =
                  IF q = o /\ c[q][s] = "held" THEN "confirmed" ELSE c[q][s]
           /\ Reclaim(c, o)[q][s] =
                  IF q = o /\ c[q][s] = "released" THEN "confirmed" ELSE c[q][s]
           /\ \A S : \A st \in ClaimStatus :
                 InsertClaims(c, o, S, st)[q][s] =
                    IF q = o /\ s \in S THEN st ELSE c[q][s]
  BY SetRowsValue
  DEF ReleaseByOwner, ConfirmHeld, Reclaim, InsertClaims, ActiveSlots, HeldSlots,
      ReleasedSlots, ClaimStatus

-----------------------------------------------------------------------------
\* The number of reservations that a release finds is a number.
LEMMA ReservedCount ==
    ASSUME NEW B, B \subseteq Bookings
    PROVE  Cardinality(ReservedOf(B)) \in Nat
  <1>1. IsFiniteSet(ReservedOf(B))
    <2>1. ReservedOf(B) \subseteq Bookings BY DEF ReservedOf
    <2> QED BY <2>1, CoreAssumption, FS_Subset
  <1> QED BY <1>1, FS_CardinalityType

\* Giving reservations back keeps the redemptions and the counter well typed.
LEMMA ReleasePromosType ==
    ASSUME TypeOK, NEW B, B \subseteq Bookings, ReleasePromos(B)
    PROVE  /\ redemption' \in [Bookings -> RedemptionStatus]
           /\ quotaUsed' \in Nat
  <1>1. redemption' \in [Bookings -> RedemptionStatus]
    BY DEF TypeOK, ReleasePromos, RedemptionStatus
  <1>2. quotaUsed' \in Nat
    BY ReservedCount DEF TypeOK, ReleasePromos
  <1> QED BY <1>1, <1>2

\* Reserving the promo keeps the redemptions and the counter well typed.
LEMMA ReservePromoType ==
    ASSUME TypeOK, NEW b \in Bookings, NEW wanted, NEW st \in RedemptionStatus,
           ReservePromo(b, wanted, st)
    PROVE  /\ redemption' \in [Bookings -> RedemptionStatus]
           /\ quotaUsed' \in Nat
  BY DEF TypeOK, ReservePromo

\* So does applying it.
LEMMA ApplyPromoType ==
    ASSUME TypeOK, NEW b \in Bookings, ApplyPromo(b)
    PROVE  /\ redemption' \in [Bookings -> RedemptionStatus]
           /\ quotaUsed' \in Nat
  BY DEF TypeOK, ApplyPromo, RedemptionStatus

\* A new owner's insert, with its takeover, leaves a table of claims.
LEMMA ClaimNewType ==
    ASSUME TypeOK, NEW o \in Owners, NEW S, NEW st \in ClaimStatus, ClaimNew(o, S, st)
    PROVE  claims' \in ClaimTable
  <1> DEFINE free == ReleaseExpired(claims, S, holdLapsed)
  <1>1. free \in ClaimTable
    BY ReleaseExpiredType DEF TypeOK
  <1>2. claims' = InsertClaims(free, o, S, st)
    BY DEF ClaimNew
  <1> QED BY <1>1, <1>2, OwnerStatementsType

\* Bookings and maintenances own claims.
LEMMA BookingsOwn == Bookings \subseteq Owners /\ Maintenances \subseteq Owners
  BY DEF Owners

\* A settlement in flight is a record of the right shape.
LEMMA InFlightType ==
    ASSUME TypeOK, NEW w \in Workers, settling[w].stage # "idle"
    PROVE  /\ settling[w] \in Settlement
           /\ settling[w].pay \in Payments
           /\ BookingOf[settling[w].pay] \in Bookings
  <1>1. settling[w] \in Settlement
    BY DEF TypeOK, Idle
  <1>2. settling[w].pay \in Payments
    BY <1>1 DEF Settlement
  <1> QED BY <1>1, <1>2, CoreAssumption

\* What a settlement that commits writes is well typed.
LEMMA CommitPaidType ==
    ASSUME TypeOK, NEW w \in Workers, settling[w].stage # "idle", CommitPaid(w)
    PROVE  /\ payStatus' \in [Payments -> PaymentStatus]
           /\ webhook' \in [Payments -> {"none", "received", "processed"}]
           /\ settling' \in [Workers -> {Idle} \cup Settlement]
           /\ paying' \subseteq Bookings
           /\ UNCHANGED <<holdLapsed, payDue, gateway, maintenance, cancelRead>>
  <1>1. settling[w].pay \in Payments
    BY InFlightType
  <1>2. payStatus' \in [Payments -> PaymentStatus]
    BY <1>1 DEF TypeOK, CommitPaid, Supersede, PaymentStatus
  <1>3. webhook' \in [Payments -> {"none", "received", "processed"}]
    BY <1>1 DEF TypeOK, CommitPaid, CompleteEvent
  <1>4. settling' \in [Workers -> {Idle} \cup Settlement]
    BY DEF TypeOK, CommitPaid
  <1>5. paying' \subseteq Bookings
    BY DEF TypeOK, CommitPaid
  <1>6. UNCHANGED <<holdLapsed, payDue, gateway, maintenance, cancelRead>>
    BY DEF CommitPaid
  <1> QED BY <1>2, <1>3, <1>4, <1>5, <1>6

\* Both ways of accounting for a payment are well typed.
LEMMA MoneyType ==
    ASSUME TypeOK, NEW p \in Payments, RecordRevenue(p) \/ RefundPaid(p)
    PROVE  /\ revenue' \subseteq Payments
           /\ refund' \in [Payments -> {"none", "requested", "approved"}]
  BY DEF TypeOK, RecordRevenue, RefundPaid

-----------------------------------------------------------------------------
\* The empty database is well typed.
LEMMA InitType == Init => TypeOK
  <1> SUFFICES ASSUME Init PROVE TypeOK OBVIOUS
  <1> USE DEF Init
  <1>1. claims \in ClaimTable BY NoClaimsType
  <1>2. cancelRead \in [Bookings -> CancelRead]
    BY DEF NoRead, CancelRead
  <1>3. settling \in [Workers -> {Idle} \cup Settlement] OBVIOUS
  <1> QED BY <1>1, <1>2, <1>3
          DEF TypeOK, BookingStatus, RedemptionStatus, PaymentStatus, GatewayStatus

\* Every transaction on bookings keeps the types.
LEMMA BookingStepType == TypeOK /\ BookingStep => TypeOK'
  <1> SUFFICES ASSUME TypeOK, BookingStep PROVE TypeOK' OBVIOUS
  <1> USE DEF bookingVars, paymentVars, clientVars
  <1>1. ASSUME NEW b \in Bookings, NEW S \in SUBSET Slots, NEW promo \in BOOLEAN,
               CreateBooking(b, S, promo)
        PROVE  TypeOK'
    <2>1. claims' \in ClaimTable
      BY <1>1, ClaimNewType, BookingsOwn DEF CreateBooking, ClaimStatus
    <2>2. redemption' \in [Bookings -> RedemptionStatus] /\ quotaUsed' \in Nat
      BY <1>1, ReservePromoType DEF CreateBooking, RedemptionStatus
    <2> QED BY <1>1, <2>1, <2>2 DEF CreateBooking, TypeOK, BookingStatus
  <1>2. ASSUME NEW b \in Bookings, NEW S \in SUBSET Slots, NEW promo \in BOOLEAN,
               CreateWalkIn(b, S, promo)
        PROVE  TypeOK'
    <2>1. claims' \in ClaimTable
      BY <1>2, ClaimNewType, BookingsOwn DEF CreateWalkIn, ClaimStatus
    <2>2. redemption' \in [Bookings -> RedemptionStatus] /\ quotaUsed' \in Nat
      BY <1>2, ReservePromoType DEF CreateWalkIn, RedemptionStatus
    <2> QED BY <1>2, <2>1, <2>2 DEF CreateWalkIn, TypeOK, BookingStatus
  <1>3. ASSUME NEW b \in Bookings, LapseHold(b) PROVE TypeOK'
    BY <1>3 DEF LapseHold, TypeOK
  <1>4. ASSUME NEW b \in Bookings, ReadForCancel(b) PROVE TypeOK'
    <2>1. cancelRead' \in [Bookings -> CancelRead]
      BY <1>4 DEF ReadForCancel, TypeOK, CancelRead, PaidOf, PaymentsOf
    <2> QED BY <1>4, <2>1 DEF ReadForCancel, TypeOK
  <1>5. ASSUME NEW b \in Bookings, CancelBooking(b) PROVE TypeOK'
    <2>1. claims' \in ClaimTable
      BY <1>5, OwnerStatementsType, BookingsOwn DEF CancelBooking, TypeOK
    <2>2. redemption' \in [Bookings -> RedemptionStatus] /\ quotaUsed' \in Nat
      BY <1>5, ReleasePromosType DEF CancelBooking
    <2>3. cancelRead' \in [Bookings -> CancelRead]
      BY <1>5 DEF CancelBooking, TypeOK, CancelRead, NoRead
    <2>4. refund' \in [Payments -> {"none", "requested", "approved"}]
      BY <1>5 DEF CancelBooking, TypeOK
    <2> QED BY <1>5, <2>1, <2>2, <2>3, <2>4 DEF CancelBooking, TypeOK, BookingStatus
  <1>6. CASE SweepHolds
    <2>1. claims' \in ClaimTable
      BY <1>6, ReleaseExpiredType DEF SweepHolds, TypeOK
    <2> QED BY <1>6, <2>1 DEF SweepHolds, TypeOK, BookingStatus
  <1>7. CASE SweepPromos
    <2>1. redemption' \in [Bookings -> RedemptionStatus] /\ quotaUsed' \in Nat
      BY <1>7, ReleasePromosType DEF SweepPromos, TypeOK
    <2> QED BY <1>7, <2>1 DEF SweepPromos, TypeOK
  <1> QED BY <1>1, <1>2, <1>3, <1>4, <1>5, <1>6, <1>7 DEF BookingStep

\* So does every transaction on a maintenance.
LEMMA MaintenanceStepType == TypeOK /\ MaintenanceStep => TypeOK'
  <1> SUFFICES ASSUME TypeOK, MaintenanceStep PROVE TypeOK' OBVIOUS
  <1> USE DEF bookingVars, paymentVars, clientVars
  <1>1. ASSUME NEW m \in Maintenances, NEW S \in SUBSET Slots, CreateMaintenance(m, S)
        PROVE  TypeOK'
    <2>1. claims' \in ClaimTable
      BY <1>1, ClaimNewType, BookingsOwn DEF CreateMaintenance, ClaimStatus
    <2> QED BY <1>1, <2>1 DEF CreateMaintenance, TypeOK
  <1>2. ASSUME NEW m \in Maintenances, NEW S \in SUBSET Slots, ForceMaintenance(m, S)
        PROVE  TypeOK'
    <2> DEFINE cancelled == {b \in Conflicts(claims, S) \cap Bookings : bookingStatus[b] \in Cancellable}
    <2>1. cancelled \subseteq Bookings
      BY <1>2 DEF ForceMaintenance, Overridable
    <2>2. claims' \in ClaimTable
      <3>1. ReleaseConflicts(claims, S) \in ClaimTable
        BY ReleaseConflictsType DEF TypeOK
      <3>2. claims' = InsertClaims(ReleaseConflicts(claims, S), m, S, "confirmed")
        BY <1>2 DEF ForceMaintenance
      <3> QED BY <3>1, <3>2, OwnerStatementsType, BookingsOwn DEF ClaimStatus
    <2>3. redemption' \in [Bookings -> RedemptionStatus] /\ quotaUsed' \in Nat
      BY <1>2, <2>1, ReleasePromosType DEF ForceMaintenance
    <2>4. refund' \in [Payments -> {"none", "requested", "approved"}]
      BY <1>2 DEF ForceMaintenance, TypeOK
    <2>5. bookingStatus' \in [Bookings -> BookingStatus]
      BY <1>2 DEF ForceMaintenance, TypeOK, BookingStatus
    <2>6. maintenance' \in [Maintenances -> {"absent", "active", "cancelled"}]
      BY <1>2 DEF ForceMaintenance, TypeOK
    <2> QED BY <1>2, <2>2, <2>3, <2>4, <2>5, <2>6 DEF ForceMaintenance, TypeOK
  <1>3. ASSUME NEW m \in Maintenances, CancelMaintenance(m) PROVE TypeOK'
    <2>1. claims' \in ClaimTable
      BY <1>3, OwnerStatementsType, BookingsOwn DEF CancelMaintenance, TypeOK
    <2> QED BY <1>3, <2>1 DEF CancelMaintenance, TypeOK
  <1> QED BY <1>1, <1>2, <1>3 DEF MaintenanceStep

\* And every step of the payment attempts, the gateway and J-07.
LEMMA PaymentStepType == TypeOK /\ PaymentStep => TypeOK'
  <1> SUFFICES ASSUME TypeOK, PaymentStep PROVE TypeOK' OBVIOUS
  <1> USE DEF bookingVars, paymentVars, clientVars
  <1>1. ASSUME NEW b \in Bookings, CheckPayable(b) \/ GiveUpPaying(b) PROVE TypeOK'
    BY <1>1 DEF CheckPayable, GiveUpPaying, TypeOK
  <1>2. ASSUME NEW p \in Payments, InsertPayment(p) PROVE TypeOK'
    <2>1. payStatus' \in [Payments -> PaymentStatus]
      BY <1>2 DEF InsertPayment, Supersede, TypeOK, PaymentStatus
    <2>2. gateway' \in [Payments -> GatewayStatus]
      BY <1>2 DEF InsertPayment, TypeOK, GatewayStatus
    <2>3. paying' \subseteq Bookings
      BY <1>2 DEF InsertPayment, TypeOK
    <2> QED BY <1>2, <2>1, <2>2, <2>3 DEF InsertPayment, TypeOK
  <1>3. ASSUME NEW p \in Payments, PaymentFallsDue(p) PROVE TypeOK'
    BY <1>3 DEF PaymentFallsDue, TypeOK
  <1>4. ASSUME NEW p \in Payments, CancelPayment(p) PROVE TypeOK'
    BY <1>4 DEF CancelPayment, TypeOK, PaymentStatus
  <1>5. ASSUME NEW p \in Payments, ExpireUnpaid(p) PROVE TypeOK'
    <2> DEFINE b == BookingOf[p]
    <2>1. b \in Bookings
      BY CoreAssumption
    <2>2. claims' \in ClaimTable
      BY <1>5, <2>1, OwnerStatementsType, BookingsOwn DEF ExpireUnpaid, TypeOK
    <2>3. redemption' \in [Bookings -> RedemptionStatus] /\ quotaUsed' \in Nat
      BY <1>5, <2>1, ReleasePromosType DEF ExpireUnpaid
    <2>4. bookingStatus' \in [Bookings -> BookingStatus]
      BY <1>5 DEF ExpireUnpaid, TypeOK, BookingStatus
    <2>5. payStatus' \in [Payments -> PaymentStatus]
      BY <1>5 DEF ExpireUnpaid, TypeOK, PaymentStatus
    <2> QED BY <1>5, <2>2, <2>3, <2>4, <2>5 DEF ExpireUnpaid, TypeOK
  <1>6. ASSUME NEW p \in Payments, OpenGateway(p) PROVE TypeOK'
    BY <1>6 DEF OpenGateway, TypeOK, GatewayStatus
  <1>7. ASSUME NEW p \in Payments, NEW st \in {"settled", "closed"}, GatewayEnds(p, st)
        PROVE  TypeOK'
    BY <1>7 DEF GatewayEnds, TypeOK, GatewayStatus
  <1>8. ASSUME NEW p \in Payments, ReceiveWebhook(p) \/ WebhookOfPaid(p) PROVE TypeOK'
    BY <1>8 DEF ReceiveWebhook, WebhookOfPaid, TypeOK
  <1>9. ASSUME NEW p \in Payments, NEW st \in {"expired", "failed", "cancelled"},
               ProviderEnds(p, st)
        PROVE  TypeOK'
    BY <1>9 DEF ProviderEnds, TypeOK, PaymentStatus
  <1>10. ASSUME NEW p \in Payments, NotFoundAtGateway(p) PROVE TypeOK'
    BY <1>10 DEF NotFoundAtGateway, TypeOK, PaymentStatus, GatewayStatus
  <1> QED BY <1>1, <1>2, <1>3, <1>4, <1>5, <1>6, <1>7, <1>8, <1>9, <1>10 DEF PaymentStep

\* And every step of a settlement.
LEMMA SettlementStepType ==
    ASSUME TypeOK, NEW w \in Workers, SettlementStep(w)
    PROVE  TypeOK'
  <1> USE DEF bookingVars, paymentVars, clientVars
  <1> DEFINE b == BookingOf[settling[w].pay]
  <1>1. ASSUME NEW p \in Payments, NEW via \in {"webhook", "sync"}, ReadPayment(w, p, via)
        PROVE  TypeOK'
    <2>1. settling' \in [Workers -> {Idle} \cup Settlement]
      BY <1>1 DEF ReadPayment, TypeOK, Settlement, BookingStatus
    <2> QED BY <1>1, <2>1 DEF ReadPayment, TypeOK
  <1>2. ASSUME NEW p \in Payments, InsertManual(w, p) PROVE TypeOK'
    <2>1. bookingStatus[BookingOf[p]] \in BookingStatus
      BY CoreAssumption DEF TypeOK
    <2>2. settling' \in [Workers -> {Idle} \cup Settlement]
      BY <1>2, <2>1 DEF InsertManual, TypeOK, Settlement
    <2> QED BY <1>2, <2>2 DEF InsertManual, TypeOK
  <1>3. CASE LockPayment(w)
    <2>1. settling[w] \in Settlement /\ b \in Bookings
      BY <1>3, InFlightType DEF LockPayment
    <2>2. bookingStatus[b] \in BookingStatus
      BY <2>1 DEF TypeOK
    <2>3. settling' \in [Workers -> {Idle} \cup Settlement]
      BY <1>3, <2>1, <2>2 DEF LockPayment, TypeOK, Settlement
    <2> QED BY <1>3, <2>3 DEF LockPayment, TypeOK
  <1>4. CASE MissPayment(w)
    <2>1. settling[w].pay \in Payments
      BY <1>4, InFlightType DEF MissPayment
    <2> QED BY <1>4, <2>1 DEF MissPayment, CompleteEvent, TypeOK
  <1>5. CASE AbortSettlement(w)
    BY <1>5 DEF AbortSettlement, TypeOK
  <1>6. ASSUME settling[w].stage = "locked", CommitPaid(w),
               claims' \in ClaimTable,
               bookingStatus' \in [Bookings -> BookingStatus],
               redemption' \in [Bookings -> RedemptionStatus], quotaUsed' \in Nat,
               RecordRevenue(settling[w].pay) \/ RefundPaid(settling[w].pay)
        PROVE  TypeOK'
    <2>1. settling[w].pay \in Payments
      BY <1>6, InFlightType
    <2>2. /\ revenue' \subseteq Payments
          /\ refund' \in [Payments -> {"none", "requested", "approved"}]
      BY <1>6, <2>1, MoneyType
    <2> QED BY <1>6, <2>2, CommitPaidType DEF TypeOK
  <1>7. ASSUME settling[w].stage = "locked"
        PROVE  /\ b \in Bookings
               /\ ReleaseByOwner(claims, b) \in ClaimTable
               /\ ConfirmHeld(claims, b) \in ClaimTable
               /\ Reclaim(claims, b) \in ClaimTable
               /\ Reclaim(ReleaseByOwner(claims, b), b) \in ClaimTable
    <2>1. b \in Bookings /\ b \in Owners
      BY <1>7, InFlightType, BookingsOwn
    <2>2. claims \in ClaimTable
      BY DEF TypeOK
    <2> QED BY <2>1, <2>2, OwnerStatementsType
  <1>8. CASE SettleConfirm(w)
    BY <1>6, <1>7, <1>8, ApplyPromoType DEF SettleConfirm, TypeOK, BookingStatus
  <1>9. CASE SettleReclaim(w)
    BY <1>6, <1>7, <1>9, ApplyPromoType DEF SettleReclaim, TypeOK, BookingStatus
  <1>10. CASE SettleLostHold(w)
    BY <1>6, <1>7, <1>10, ReleasePromosType DEF SettleLostHold, TypeOK, BookingStatus
  <1>11. CASE SettleRecover(w)
    BY <1>6, <1>7, <1>11 DEF SettleRecover, TypeOK, BookingStatus
  <1>12. CASE SettleTooLate(w)
    BY <1>6, <1>7, <1>12, ReleasePromosType DEF SettleTooLate, TypeOK
  <1>13. CASE SettleExtra(w)
    BY <1>6, <1>13 DEF SettleExtra, TypeOK
  <1> QED BY <1>1, <1>2, <1>3, <1>4, <1>5, <1>8, <1>9, <1>10, <1>11, <1>12, <1>13
          DEF SettlementStep

\* Every state of the system is well typed: in particular the quota counter
\* never falls below zero and no claim is in a status the table rejects.
THEOREM TypeCorrect == Spec => []TypeOK
  <1>1. TypeOK /\ [Next]_vars => TypeOK'
    <2> SUFFICES ASSUME TypeOK, [Next]_vars PROVE TypeOK' OBVIOUS
    <2>1. CASE UNCHANGED vars
      BY <2>1 DEF TypeOK, vars, bookingVars, paymentVars, clientVars
    <2> QED BY <2>1, BookingStepType, MaintenanceStepType, PaymentStepType,
               SettlementStepType DEF Next
  <1> QED BY <1>1, InitType, PTL DEF Spec

-----------------------------------------------------------------------------
(* No slot has two owners.  Every statement either deactivates rows, or     *)
(* activates rows that the index has just been consulted about.             *)

\* An insert that the index accepts after the takeover is exclusive.
LEMMA ClaimNewExclusive ==
    ASSUME TypeOK, SlotExclusive, NEW o \in Owners, NEW S, NEW st \in ClaimStatus,
           ClaimNew(o, S, st)
    PROVE  SlotExclusive'
  <1> DEFINE free == ReleaseExpired(claims, S, holdLapsed)
  <1>1. free \in ClaimTable
    BY ReleaseExpiredType DEF TypeOK
  <1>2. Shrinks(claims, free)
    BY ReleaseShrinks DEF TypeOK
  <1>3. Exclusive(free)
    BY <1>2, ShrinkKeepsExclusive DEF SlotExclusive
  <1>4. CanInsert(free, S) /\ claims' = InsertClaims(free, o, S, st)
    BY DEF ClaimNew
  <1> QED BY <1>1, <1>3, <1>4, InsertKeepsExclusive DEF SlotExclusive

\* Releasing all rows of an owner, and then taking back what can be.
LEMMA ReclaimExclusive ==
    ASSUME TypeOK, SlotExclusive, NEW o \in Owners
    PROVE  LET free == ReleaseByOwner(claims, o)
           IN  /\ Exclusive(free)
               /\ CanReclaim(free, o) => Exclusive(Reclaim(free, o))
               /\ CanReclaim(claims, o) => Exclusive(Reclaim(claims, o))
               /\ Exclusive(ConfirmHeld(claims, o))
  <1> DEFINE free == ReleaseByOwner(claims, o)
  <1>1. claims \in ClaimTable /\ free \in ClaimTable
    BY OwnerStatementsType DEF TypeOK
  <1>2. Shrinks(claims, free) /\ Shrinks(claims, ConfirmHeld(claims, o))
    BY <1>1, ReleaseShrinks
  <1>3. Exclusive(free) /\ Exclusive(ConfirmHeld(claims, o))
    BY <1>2, ShrinkKeepsExclusive DEF SlotExclusive
  <1> QED BY <1>1, <1>3, ReclaimKeepsExclusive DEF SlotExclusive

\* No transaction on a booking gives a slot two owners.
LEMMA BookingStepExclusive ==
    ASSUME TypeOK, SlotExclusive, BookingStep
    PROVE  SlotExclusive'
  <1>1. ASSUME NEW b \in Bookings, NEW S \in SUBSET Slots, NEW promo \in BOOLEAN,
               CreateBooking(b, S, promo) \/ CreateWalkIn(b, S, promo)
        PROVE  SlotExclusive'
    BY <1>1, ClaimNewExclusive, BookingsOwn DEF CreateBooking, CreateWalkIn, ClaimStatus
  <1>2. ASSUME NEW b \in Bookings, LapseHold(b) \/ ReadForCancel(b) PROVE SlotExclusive'
    BY <1>2 DEF LapseHold, ReadForCancel, SlotExclusive
  <1>3. ASSUME NEW b \in Bookings, CancelBooking(b) PROVE SlotExclusive'
    BY <1>3, ReclaimExclusive, BookingsOwn DEF CancelBooking, SlotExclusive
  <1>4. CASE SweepHolds
    <2>1. Shrinks(claims, claims')
      BY <1>4 DEF SweepHolds, Shrinks, ReleaseExpired, IsActive
    <2> QED BY <2>1, ShrinkKeepsExclusive DEF SlotExclusive
  <1>5. CASE SweepPromos
    BY <1>5 DEF SweepPromos, SlotExclusive
  <1> QED BY <1>1, <1>2, <1>3, <1>4, <1>5 DEF BookingStep

\* Nor does one on a maintenance, forced or not.
LEMMA MaintenanceStepExclusive ==
    ASSUME TypeOK, SlotExclusive, MaintenanceStep
    PROVE  SlotExclusive'
  <1>1. ASSUME NEW m \in Maintenances, NEW S \in SUBSET Slots, CreateMaintenance(m, S)
        PROVE  SlotExclusive'
    BY <1>1, ClaimNewExclusive, BookingsOwn DEF CreateMaintenance, ClaimStatus
  <1>2. ASSUME NEW m \in Maintenances, NEW S \in SUBSET Slots, ForceMaintenance(m, S)
        PROVE  SlotExclusive'
    <2> DEFINE free == ReleaseConflicts(claims, S)
    <2>1. free \in ClaimTable
      BY ReleaseConflictsType DEF TypeOK
    <2>2. Shrinks(claims, free)
      BY ReleaseShrinks, BookingsOwn DEF TypeOK
    <2>3. Exclusive(free)
      BY <2>2, ShrinkKeepsExclusive DEF SlotExclusive
    <2>4. CanInsert(free, S)
      BY ForcedInsertFits DEF TypeOK
    <2>5. claims' = InsertClaims(free, m, S, "confirmed")
      BY <1>2 DEF ForceMaintenance
    <2> QED BY <2>1, <2>3, <2>4, <2>5, InsertKeepsExclusive, BookingsOwn
            DEF SlotExclusive, ClaimStatus
  <1>3. ASSUME NEW m \in Maintenances, CancelMaintenance(m) PROVE SlotExclusive'
    BY <1>3, ReclaimExclusive, BookingsOwn DEF CancelMaintenance, SlotExclusive
  <1> QED BY <1>1, <1>2, <1>3 DEF MaintenanceStep

\* Of the payment steps only J-07 touches claims, and it releases them.
LEMMA PaymentStepExclusive ==
    ASSUME TypeOK, SlotExclusive, PaymentStep
    PROVE  SlotExclusive'
  <1>1. ASSUME NEW p \in Payments, ExpireUnpaid(p) PROVE SlotExclusive'
    <2>1. BookingOf[p] \in Owners
      BY CoreAssumption, BookingsOwn
    <2> QED BY <1>1, <2>1, ReclaimExclusive DEF ExpireUnpaid, SlotExclusive
  <1> QED BY <1>1 DEF PaymentStep, CheckPayable, GiveUpPaying, InsertPayment,
      PaymentFallsDue, CancelPayment, OpenGateway, GatewayEnds, ReceiveWebhook,
      ProviderEnds, NotFoundAtGateway, WebhookOfPaid, SlotExclusive

\* A settlement confirms what is held or takes back what is free.
LEMMA SettlementStepExclusive ==
    ASSUME TypeOK, SlotExclusive, NEW w \in Workers, SettlementStep(w)
    PROVE  SlotExclusive'
  <1> DEFINE b == BookingOf[settling[w].pay]
  <1>1. CASE SettleConfirm(w) \/ SettleReclaim(w) \/ SettleLostHold(w) \/ SettleRecover(w)
    <2>1. b \in Owners
      BY <1>1, InFlightType, BookingsOwn
         DEF SettleConfirm, SettleReclaim, SettleLostHold, SettleRecover
    <2> QED BY <1>1, <2>1, ReclaimExclusive
            DEF SettleConfirm, SettleReclaim, SettleLostHold, SettleRecover, SlotExclusive
  <1> QED BY <1>1 DEF SettlementStep, ReadPayment, InsertManual, LockPayment, MissPayment,
      AbortSettlement, SettleTooLate, SettleExtra, SlotExclusive

\* No slot is ever held or confirmed by two owners, with any number of
\* bookings, maintenances, slots and settlements in flight.
THEOREM NoDoubleBooking == Spec => []SlotExclusive
  <1>1. Init => SlotExclusive
    BY DEF Init, SlotExclusive, Exclusive, NoClaims, IsActive
  <1>2. TypeOK /\ SlotExclusive /\ [Next]_vars => SlotExclusive'
    <2> SUFFICES ASSUME TypeOK, SlotExclusive, [Next]_vars PROVE SlotExclusive' OBVIOUS
    <2>1. CASE UNCHANGED vars
      BY <2>1 DEF vars, SlotExclusive
    <2> QED BY <2>1, BookingStepExclusive, MaintenanceStepExclusive,
               PaymentStepExclusive, SettlementStepExclusive DEF Next
  <1> QED BY <1>1, <1>2, TypeCorrect, PTL DEF Spec

-----------------------------------------------------------------------------
(* What becomes of the rows of a booking and of a maintenance.  The two     *)
(* properties to prove are not inductive: a booking must also have no row   *)
(* before it is made and no confirmed row while it is pending.              *)

BookingRows ==
    \A b \in Bookings, s \in Slots :
        /\ bookingStatus[b] = "absent" => claims[b][s] = "none"
        /\ bookingStatus[b] = "pending_payment" => claims[b][s] # "confirmed"
        /\ bookingStatus[b] = "pending_payment" /\ b \notin holdLapsed
              => claims[b][s] # "released"
        /\ bookingStatus[b] = "expired" => ~IsActive(claims[b][s])

MaintenanceRows ==
    \A m \in Maintenances, s \in Slots :
        /\ maintenance[m] = "absent" => claims[m][s] = "none"
        /\ maintenance[m] = "active" => claims[m][s] \in {"none", "confirmed"}
        /\ maintenance[m] = "cancelled" => ~IsActive(claims[m][s])

RowsInv == BookingRows /\ MaintenanceRows

\* A new owner's rows, and what the takeover leaves of the others'.
LEMMA ClaimNewRows ==
    ASSUME TypeOK, NEW o \in Owners, NEW S, NEW st \in ClaimStatus, ClaimNew(o, S, st),
           NEW q \in Owners, NEW s \in Slots
    PROVE  claims'[q][s] =
               IF q = o /\ s \in S THEN st
               ELSE IF s \in S /\ q \in holdLapsed /\ claims[q][s] = "held"
                    THEN "released" ELSE claims[q][s]
  <1> DEFINE free == ReleaseExpired(claims, S, holdLapsed)
  <1>1. claims \in ClaimTable /\ free \in ClaimTable
    BY ReleaseExpiredType DEF TypeOK
  <1>2. claims'[q][s] = IF q = o /\ s \in S THEN st ELSE free[q][s]
    BY <1>1, OwnerStatementsValue DEF ClaimNew
  <1> QED BY <1>1, <1>2, ReleaseExpiredValue

\* The transactions on bookings keep the rows in step with the status.
LEMMA BookingStepRows ==
    ASSUME TypeOK, RowsInv, BookingStep
    PROVE  RowsInv'
  <1> USE DEF RowsInv, BookingRows, MaintenanceRows
  <1>1. ASSUME NEW b \in Bookings, NEW S \in SUBSET Slots, NEW promo \in BOOLEAN,
               CreateBooking(b, S, promo)
        PROVE  RowsInv'
    <2>1. \A q \in Owners, s \in Slots :
             claims'[q][s] = IF q = b /\ s \in S THEN "held"
                             ELSE IF s \in S /\ q \in holdLapsed /\ claims[q][s] = "held"
                                  THEN "released" ELSE claims[q][s]
      BY <1>1, ClaimNewRows, BookingsOwn DEF CreateBooking, ClaimStatus
    <2> QED BY <1>1, <2>1, BookingsOwn, OwnersDisjoint DEF CreateBooking, TypeOK, IsActive
  <1>2. ASSUME NEW b \in Bookings, NEW S \in SUBSET Slots, NEW promo \in BOOLEAN,
               CreateWalkIn(b, S, promo)
        PROVE  RowsInv'
    <2>1. \A q \in Owners, s \in Slots :
             claims'[q][s] = IF q = b /\ s \in S THEN "confirmed"
                             ELSE IF s \in S /\ q \in holdLapsed /\ claims[q][s] = "held"
                                  THEN "released" ELSE claims[q][s]
      BY <1>2, ClaimNewRows, BookingsOwn DEF CreateWalkIn, ClaimStatus
    <2> QED BY <1>2, <2>1, BookingsOwn, OwnersDisjoint DEF CreateWalkIn, TypeOK, IsActive
  <1>3. ASSUME NEW b \in Bookings, LapseHold(b) \/ ReadForCancel(b) PROVE RowsInv'
    BY <1>3 DEF LapseHold, ReadForCancel, bookingVars
  <1>4. ASSUME NEW b \in Bookings, CancelBooking(b) PROVE RowsInv'
    <2>1. \A q \in Owners, s \in Slots :
             claims'[q][s] = IF q = b /\ IsActive(claims[q][s]) THEN "released"
                             ELSE claims[q][s]
      BY <1>4, OwnerStatementsValue, BookingsOwn DEF CancelBooking, TypeOK
    <2> QED BY <1>4, <2>1, BookingsOwn, OwnersDisjoint DEF CancelBooking, TypeOK
  <1>5. CASE SweepHolds
    <2>1. \A q \in Owners, s \in Slots :
             claims'[q][s] = IF q \in holdLapsed /\ claims[q][s] = "held"
                             THEN "released" ELSE claims[q][s]
      BY <1>5, ReleaseExpiredValue DEF SweepHolds, TypeOK
    <2> QED BY <1>5, <2>1, BookingsOwn DEF SweepHolds, TypeOK, IsActive
  <1>6. CASE SweepPromos
    BY <1>6 DEF SweepPromos
  <1> QED BY <1>1, <1>2, <1>3, <1>4, <1>5, <1>6 DEF BookingStep

\* So do those on maintenances: force leaves no booking it robs pending.
LEMMA MaintenanceStepRows ==
    ASSUME TypeOK, RowsInv, MaintenanceStep
    PROVE  RowsInv'
  <1> USE DEF RowsInv, BookingRows, MaintenanceRows, bookingVars
  <1>1. ASSUME NEW m \in Maintenances, NEW S \in SUBSET Slots, CreateMaintenance(m, S)
        PROVE  RowsInv'
    <2>1. \A q \in Owners, s \in Slots :
             claims'[q][s] = IF q = m /\ s \in S THEN "confirmed"
                             ELSE IF s \in S /\ q \in holdLapsed /\ claims[q][s] = "held"
                                  THEN "released" ELSE claims[q][s]
      BY <1>1, ClaimNewRows, BookingsOwn DEF CreateMaintenance, ClaimStatus
    <2> QED BY <1>1, <2>1, BookingsOwn, OwnersDisjoint DEF CreateMaintenance, TypeOK, IsActive
  <1>2. ASSUME NEW m \in Maintenances, NEW S \in SUBSET Slots, ForceMaintenance(m, S)
        PROVE  RowsInv'
    <2> DEFINE free == ReleaseConflicts(claims, S)
    <2>1. free \in ClaimTable
      BY ReleaseConflictsType DEF TypeOK
    <2>2. \A q \in Owners, s \in Slots :
             claims'[q][s] = IF q = m /\ s \in S THEN "confirmed"
                             ELSE IF s \in S /\ IsActive(claims[q][s])
                                  THEN "released" ELSE claims[q][s]
      BY <1>2, <2>1, OwnerStatementsValue, ReleaseConflictsValue, BookingsOwn
         DEF ForceMaintenance, TypeOK, ClaimStatus
    <2>3. \A q \in Owners, s \in Slots :
             s \in S /\ IsActive(claims[q][s]) =>
                 /\ q \in Bookings
                 /\ bookingStatus'[q] \notin {"absent", "pending_payment"}
                 /\ bookingStatus[q] = "expired" => bookingStatus'[q] = "expired"
      BY <1>2 DEF ForceMaintenance, Overridable, Conflicts, ActiveSlots, Cancellable,
                  TypeOK, IsActive
    <2>4. \A b \in Bookings : bookingStatus'[b] \in {bookingStatus[b], "cancelled"}
      BY <1>2 DEF ForceMaintenance, TypeOK
    <2>5. BookingRows'
      BY <1>2, <2>2, <2>3, <2>4, BookingsOwn, OwnersDisjoint DEF ForceMaintenance, IsActive
    <2>6. MaintenanceRows'
      BY <1>2, <2>2, <2>3, BookingsOwn, OwnersDisjoint DEF ForceMaintenance, TypeOK, IsActive
    <2> QED BY <2>5, <2>6
  <1>3. ASSUME NEW m \in Maintenances, CancelMaintenance(m) PROVE RowsInv'
    <2>1. \A q \in Owners, s \in Slots :
             claims'[q][s] = IF q = m /\ IsActive(claims[q][s]) THEN "released"
                             ELSE claims[q][s]
      BY <1>3, OwnerStatementsValue, BookingsOwn DEF CancelMaintenance, TypeOK
    <2> QED BY <1>3, <2>1, BookingsOwn, OwnersDisjoint
            DEF CancelMaintenance, TypeOK, IsActive
  <1> QED BY <1>1, <1>2, <1>3 DEF MaintenanceStep

\* So does J-07, which releases every row of the booking it expires.
LEMMA PaymentStepRows ==
    ASSUME TypeOK, RowsInv, PaymentStep
    PROVE  RowsInv'
  <1> USE DEF RowsInv, BookingRows, MaintenanceRows, bookingVars
  <1>1. ASSUME NEW p \in Payments, ExpireUnpaid(p) PROVE RowsInv'
    <2> DEFINE b == BookingOf[p]
    <2>1. b \in Bookings
      BY CoreAssumption
    <2>2. \A q \in Owners, s \in Slots :
             claims'[q][s] = IF q = b /\ IsActive(claims[q][s]) THEN "released"
                             ELSE claims[q][s]
      BY <1>1, <2>1, OwnerStatementsValue, BookingsOwn DEF ExpireUnpaid, TypeOK
    <2> QED BY <1>1, <2>1, <2>2, BookingsOwn, OwnersDisjoint DEF ExpireUnpaid, TypeOK, IsActive
  <1> QED BY <1>1 DEF PaymentStep, CheckPayable, GiveUpPaying, InsertPayment,
      PaymentFallsDue, CancelPayment, OpenGateway, GatewayEnds, ReceiveWebhook,
      ProviderEnds, NotFoundAtGateway, WebhookOfPaid

\* What each statement of a settlement leaves in each row.
SettleWrites(b) ==
    \A q \in Owners, s \in Slots :
        /\ ReleaseByOwner(claims, b)[q][s] =
               IF q = b /\ IsActive(claims[q][s]) THEN "released" ELSE claims[q][s]
        /\ ConfirmHeld(claims, b)[q][s] =
               IF q = b /\ claims[q][s] = "held" THEN "confirmed" ELSE claims[q][s]
        /\ Reclaim(claims, b)[q][s] =
               IF q = b /\ claims[q][s] = "released" THEN "confirmed" ELSE claims[q][s]
        /\ Reclaim(ReleaseByOwner(claims, b), b)[q][s] =
               IF q = b /\ claims[q][s] # "none" THEN "confirmed" ELSE claims[q][s]

\* They do: in particular a booking that lost part of its hold gets back all.
LEMMA SettleValues ==
    ASSUME TypeOK, NEW b \in Bookings
    PROVE  SettleWrites(b)
  <1> DEFINE free == ReleaseByOwner(claims, b)
  <1>1. claims \in ClaimTable /\ free \in ClaimTable
    BY OwnerStatementsType, BookingsOwn DEF TypeOK
  <1>2. \A q \in Owners, s \in Slots : claims[q][s] \in ClaimStatus
    BY <1>1 DEF ClaimTable
  <1> QED BY <1>1, <1>2, OwnerStatementsValue, BookingsOwn
          DEF SettleWrites, IsActive, ClaimStatus

\* So does a settlement, whatever the booking became since it was read.
LEMMA SettlementStepRows ==
    ASSUME TypeOK, RowsInv, NEW w \in Workers, SettlementStep(w)
    PROVE  RowsInv'
  <1> USE DEF RowsInv, BookingRows, MaintenanceRows, bookingVars, SettleWrites
  <1> DEFINE b == BookingOf[settling[w].pay]
             free == ReleaseByOwner(claims, b)
  <1>1. ASSUME settling[w].stage = "locked", CommitPaid(w)
        PROVE  b \in Bookings /\ UNCHANGED <<holdLapsed, maintenance>>
    BY <1>1, InFlightType DEF CommitPaid
  <1>2. ASSUME b \in Bookings
        PROVE  SettleWrites(b)
    BY <1>2, SettleValues
  <1>3. CASE SettleConfirm(w)
    <2>1. b \in Bookings /\ UNCHANGED <<holdLapsed, maintenance>>
      BY <1>1, <1>3 DEF SettleConfirm
    <2> QED BY <1>2, <1>3, <2>1, BookingsOwn, OwnersDisjoint DEF SettleConfirm, TypeOK
  <1>4. CASE SettleReclaim(w)
    <2>1. b \in Bookings /\ UNCHANGED <<holdLapsed, maintenance>>
      BY <1>1, <1>4 DEF SettleReclaim
    <2>2. \E s \in Slots : claims[b][s] # "none"
      BY <1>2, <1>4, <2>1, BookingsOwn DEF SettleReclaim, CanReclaim, ReleasedSlots, IsActive
    <2>3. bookingStatus[b] # "absent"
      BY <2>1, <2>2
    <2>4. bookingStatus' = IF bookingStatus[b] \in {"pending_payment", "expired"}
                           THEN [bookingStatus EXCEPT ![b] = "confirmed"]
                           ELSE bookingStatus
      BY <1>4 DEF SettleReclaim, Recoverable
    <2>5. /\ bookingStatus'[b] \notin {"absent", "pending_payment", "expired"}
          /\ \A a \in Bookings : a # b => bookingStatus'[a] = bookingStatus[a]
      BY ONLY <2>1, <2>3, <2>4, TypeOK DEF TypeOK
    <2>6. claims' = Reclaim(free, b)
      BY <1>4 DEF SettleReclaim
    <2> QED BY <1>2, <2>1, <2>5, <2>6, BookingsOwn, OwnersDisjoint
  <1>5. CASE SettleLostHold(w)
    <2>1. b \in Bookings /\ UNCHANGED <<holdLapsed, maintenance>>
      BY <1>1, <1>5 DEF SettleLostHold
    <2>2. /\ bookingStatus'[b] = IF bookingStatus[b] = "pending_payment"
                                 THEN "expired" ELSE bookingStatus[b]
          /\ \A a \in Bookings : a # b => bookingStatus'[a] = bookingStatus[a]
      BY <1>5, <2>1 DEF SettleLostHold, TypeOK
    <2>3. claims' = free
      BY <1>5 DEF SettleLostHold
    <2>4. \A q \in Owners, s \in Slots :
             claims'[q][s] = IF q = b /\ IsActive(claims[q][s]) THEN "released"
                             ELSE claims[q][s]
      BY <1>2, <2>1, <2>3
    <2>5. BookingRows' BY <2>1, <2>2, <2>4, BookingsOwn, OwnersDisjoint DEF IsActive
    <2>6. MaintenanceRows' BY <2>1, <2>4, BookingsOwn, OwnersDisjoint DEF IsActive
    <2> QED BY <2>5, <2>6
  <1>6. CASE SettleRecover(w)
    <2>1. b \in Bookings /\ UNCHANGED <<holdLapsed, maintenance>>
      BY <1>1, <1>6 DEF SettleRecover
    <2> QED BY <1>2, <1>6, <2>1, BookingsOwn, OwnersDisjoint DEF SettleRecover, TypeOK
  <1>7. CASE SettleTooLate(w) \/ SettleExtra(w)
    BY <1>7 DEF SettleTooLate, SettleExtra, CommitPaid
  <1> QED BY <1>3, <1>4, <1>5, <1>6, <1>7 DEF SettlementStep, ReadPayment, InsertManual,
      LockPayment, MissPayment, AbortSettlement

\* RowsInv holds in every state.
THEOREM RowsCorrect == Spec => []RowsInv
  <1>1. Init => RowsInv
    BY DEF Init, RowsInv, BookingRows, MaintenanceRows, NoClaims, Owners
  <1>2. TypeOK /\ RowsInv /\ [Next]_vars => RowsInv'
    <2> SUFFICES ASSUME TypeOK, RowsInv, [Next]_vars PROVE RowsInv' OBVIOUS
    <2>1. CASE UNCHANGED vars
      BY <2>1 DEF vars, bookingVars, RowsInv, BookingRows, MaintenanceRows
    <2> QED BY <2>1, BookingStepRows, MaintenanceStepRows, PaymentStepRows,
               SettlementStepRows DEF Next
  <1> QED BY <1>1, <1>2, TypeCorrect, PTL DEF Spec

\* A hold that has not run out keeps every slot of its booking while the
\* booking is pending, and an expired booking blocks none.
THEOREM HoldsKept == Spec => [](LiveHoldKept /\ ExpiredOwnsNothing)
  <1>1. TypeOK /\ RowsInv => LiveHoldKept /\ ExpiredOwnsNothing
    <2> SUFFICES ASSUME TypeOK, RowsInv PROVE LiveHoldKept /\ ExpiredOwnsNothing OBVIOUS
    <2>1. \A b \in Bookings, s \in Slots : claims[b][s] \in ClaimStatus
      BY BookingsOwn DEF TypeOK, ClaimTable
    <2> QED BY <2>1 DEF RowsInv, BookingRows, LiveHoldKept, ExpiredOwnsNothing,
            HeldInFull, HeldSlots, ItemsOf, ActiveSlots, ClaimStatus
  <1> QED BY <1>1, TypeCorrect, RowsCorrect, PTL

\* A booking that has expired blocks no slot.
THEOREM ExpiredBlocksNothing == Spec => []ExpiredOwnsNothing
  BY HoldsKept, PTL

\* A maintenance in force keeps its slots; a cancelled one keeps none.
THEOREM MaintenanceHolds == Spec => []MaintenanceKept
  <1>1. RowsInv => MaintenanceKept
    BY DEF RowsInv, MaintenanceRows, MaintenanceKept, ItemsOf, ActiveSlots
  <1> QED BY <1>1, RowsCorrect, PTL

-----------------------------------------------------------------------------
(* The promo.  Four kinds of steps touch its counter; what they must agree *)
(* on is that a booking not yet made has no redemption.                    *)

PromoInv ==
    /\ QuotaExact
    /\ \A b \in Bookings : bookingStatus[b] = "absent" => redemption[b] = "none"

\* The redemptions that count against the quota.
InForce == {b \in Bookings : redemption[b] \in {"reserved", "applied"}}

\* A booking is made once, and reserves the promo then if at all.
Reserves ==
    \E b \in Bookings, wanted \in BOOLEAN, st \in {"reserved", "applied"} :
        /\ bookingStatus[b] = "absent" /\ bookingStatus'[b] # "absent"
        /\ ReservePromo(b, wanted, st)

PromoMoves ==
    /\ \A b \in Bookings : bookingStatus'[b] = "absent" => bookingStatus[b] = "absent"
    /\ \/ UNCHANGED <<redemption, quotaUsed>>
       \/ \E B \in SUBSET Bookings : ReleasePromos(B)
       \/ \E b \in Bookings : ApplyPromo(b)
       \/ Reserves

\* Every step touches the promo in one of these ways.
LEMMA EveryPromoMove == ASSUME TypeOK, [Next]_vars PROVE PromoMoves
  <1> USE DEF PromoMoves, bookingVars
  <1>1. ASSUME NEW b \in Bookings, NEW S \in SUBSET Slots, NEW promo \in BOOLEAN,
               CreateBooking(b, S, promo) \/ CreateWalkIn(b, S, promo)
        PROVE  PromoMoves
    <2>1. /\ bookingStatus[b] = "absent" /\ bookingStatus'[b] # "absent"
          /\ \A a \in Bookings : a # b => bookingStatus'[a] = bookingStatus[a]
      BY <1>1 DEF CreateBooking, CreateWalkIn, TypeOK
    <2>2. ReservePromo(b, promo, "reserved") \/ ReservePromo(b, promo, "applied")
      BY <1>1 DEF CreateBooking, CreateWalkIn
    <2> QED BY <2>1, <2>2 DEF Reserves
  <1>2. ASSUME NEW b \in Bookings, CancelBooking(b) PROVE PromoMoves
    BY <1>2 DEF CancelBooking, TypeOK
  <1>3. CASE SweepHolds
    BY <1>3 DEF SweepHolds, TypeOK
  <1>4. CASE SweepPromos
    BY <1>4 DEF SweepPromos, TypeOK
  <1>5. ASSUME NEW m \in Maintenances, NEW S \in SUBSET Slots, ForceMaintenance(m, S)
        PROVE  PromoMoves
    <2> DEFINE cancelled == {b \in Conflicts(claims, S) \cap Bookings : bookingStatus[b] \in Cancellable}
    <2>1. cancelled \subseteq Bookings /\ ReleasePromos(cancelled)
      BY <1>5 DEF ForceMaintenance, Overridable
    <2> QED BY <1>5, <2>1 DEF ForceMaintenance, TypeOK
  <1>6. ASSUME NEW p \in Payments, ExpireUnpaid(p) PROVE PromoMoves
    <2>1. BookingOf[p] \in Bookings
      BY CoreAssumption
    <2> QED BY <1>6, <2>1 DEF ExpireUnpaid, TypeOK
  <1>7. ASSUME NEW w \in Workers, SettlementStep(w) PROVE PromoMoves
    <2> DEFINE b == BookingOf[settling[w].pay]
    <2>1. CASE SettleConfirm(w)
      BY <2>1, InFlightType DEF SettleConfirm, TypeOK
    <2>2. CASE SettleReclaim(w)
      BY <2>2, InFlightType DEF SettleReclaim, TypeOK
    <2>3. CASE SettleLostHold(w)
      BY <2>3, InFlightType DEF SettleLostHold, TypeOK
    <2>4. CASE SettleRecover(w)
      BY <2>4 DEF SettleRecover, TypeOK
    <2>5. CASE SettleTooLate(w)
      BY <2>5, InFlightType DEF SettleTooLate
    <2> QED BY <1>7, <2>1, <2>2, <2>3, <2>4, <2>5
            DEF SettlementStep, ReadPayment, InsertManual, LockPayment, MissPayment,
                AbortSettlement, SettleExtra
  <1>8. CASE PaymentStep
    BY <1>6, <1>8 DEF PaymentStep, CheckPayable, GiveUpPaying, InsertPayment,
       PaymentFallsDue, CancelPayment, OpenGateway, GatewayEnds, ReceiveWebhook,
       ProviderEnds, NotFoundAtGateway, WebhookOfPaid
  <1>9. CASE BookingStep \/ MaintenanceStep
    BY <1>1, <1>2, <1>3, <1>4, <1>5, <1>9 DEF BookingStep, MaintenanceStep, LapseHold,
       ReadForCancel, CreateMaintenance, CancelMaintenance
  <1>10. CASE UNCHANGED vars
    BY <1>10 DEF vars
  <1> QED BY <1>7, <1>8, <1>9, <1>10 DEF Next

\* Giving back takes as many off the counter as it releases.
LEMMA ReleaseKeepsQuota ==
    ASSUME TypeOK, PromoInv, NEW B \in SUBSET Bookings, ReleasePromos(B)
    PROVE  QuotaExact'
  <1> DEFINE R == ReservedOf(B)
  <1>1. IsFiniteSet(InForce) /\ Cardinality(InForce) \in Nat
    <2>1. InForce \subseteq Bookings BY DEF InForce
    <2> QED BY <2>1, CoreAssumption, FS_Subset, FS_CardinalityType
  <1>2. R \subseteq InForce
    BY DEF ReservedOf, InForce
  <1>3. IsFiniteSet(R) /\ Cardinality(R) \in Nat /\ Cardinality(R) <= Cardinality(InForce)
    BY <1>1, <1>2, FS_Subset, FS_CardinalityType
  <1>4. InForce' = InForce \ R
    BY DEF ReleasePromos, ReservedOf, InForce, TypeOK
  <1>5. Cardinality(InForce \ R) = Cardinality(InForce) - Cardinality(R)
    <2>1. InForce \cap R = R BY <1>2
    <2> QED BY <1>1, <2>1, FS_Difference
  <1>6. quotaUsed = Cardinality(InForce) /\ quotaUsed <= PromoQuota
    BY DEF PromoInv, QuotaExact, InForce
  <1>7. quotaUsed' = quotaUsed - Cardinality(R)
    BY <1>1, <1>3, <1>6 DEF ReleasePromos
  <1>8. quotaUsed' = Cardinality(InForce') /\ quotaUsed' <= PromoQuota
    BY <1>1, <1>3, <1>4, <1>5, <1>6, <1>7, CoreAssumption
  <1> QED BY <1>8 DEF QuotaExact, InForce

\* Reserving adds one booking to the redemptions in force, and one to the
\* counter, if the quota allows it.
LEMMA ReserveKeepsQuota ==
    ASSUME TypeOK, PromoInv, Reserves
    PROVE  QuotaExact'
  <1>1. PICK b \in Bookings, wanted \in BOOLEAN, st \in {"reserved", "applied"} :
           bookingStatus[b] = "absent" /\ ReservePromo(b, wanted, st)
    BY DEF Reserves
  <1>2. CASE UNCHANGED <<redemption, quotaUsed>>
    BY <1>2 DEF PromoInv, QuotaExact
  <1>3. CASE /\ quotaUsed < PromoQuota /\ quotaUsed' = quotaUsed + 1
             /\ redemption' = [redemption EXCEPT ![b] = st]
    <2>1. IsFiniteSet(InForce)
      <3>1. InForce \subseteq Bookings BY DEF InForce
      <3> QED BY <3>1, CoreAssumption, FS_Subset
    <2>2. b \notin InForce
      BY <1>1 DEF PromoInv, InForce
    <2>3. InForce' = InForce \cup {b}
      BY <1>3 DEF InForce, TypeOK
    <2>4. Cardinality(InForce') = Cardinality(InForce) + 1
      BY <2>1, <2>2, <2>3, FS_AddElement
    <2>5. quotaUsed' = Cardinality(InForce') /\ quotaUsed' <= PromoQuota
      BY <1>3, <2>4, CoreAssumption DEF PromoInv, QuotaExact, InForce, TypeOK
    <2> QED BY <2>5 DEF QuotaExact, InForce
  <1> QED BY <1>1, <1>2, <1>3 DEF ReservePromo

\* The counter stays exact through every reservation, application and
\* release.
LEMMA PromoInvStep == TypeOK /\ PromoInv /\ [Next]_vars => PromoInv'
  <1> SUFFICES ASSUME TypeOK, PromoInv, [Next]_vars PROVE PromoInv' OBVIOUS
  <1>1. PromoMoves
    BY EveryPromoMove
  <1>2. QuotaExact'
    <2>1. ASSUME NEW b \in Bookings, ApplyPromo(b) PROVE QuotaExact'
      <3>1. InForce' = InForce /\ quotaUsed' = quotaUsed
        BY <2>1 DEF ApplyPromo, InForce, TypeOK
      <3> QED BY <3>1 DEF PromoInv, QuotaExact, InForce
    <2>2. CASE UNCHANGED <<redemption, quotaUsed>>
      BY <2>2 DEF PromoInv, QuotaExact
    <2> QED BY <1>1, <2>1, <2>2, ReleaseKeepsQuota, ReserveKeepsQuota DEF PromoMoves
  <1>3. \A b \in Bookings : bookingStatus'[b] = "absent" => redemption'[b] = "none"
    <2> SUFFICES ASSUME NEW b \in Bookings, bookingStatus'[b] = "absent"
                 PROVE  redemption'[b] = "none"
      OBVIOUS
    <2>1. bookingStatus[b] = "absent" /\ redemption[b] = "none"
      BY <1>1 DEF PromoMoves, PromoInv
    <2> QED BY <1>1, <2>1
            DEF PromoMoves, ReleasePromos, ReservedOf, ApplyPromo, Reserves, ReservePromo, TypeOK
  <1> QED BY <1>2, <1>3 DEF PromoInv

\* PromoInv holds in every state.
THEOREM PromoCorrect == Spec => []PromoInv
  <1>1. Init => PromoInv
    <2> SUFFICES ASSUME Init PROVE PromoInv OBVIOUS
    <2>1. InForce = {}
      BY DEF Init, InForce
    <2>2. Cardinality(InForce) = 0
      BY <2>1, FS_EmptySet
    <2> QED BY <2>2, CoreAssumption DEF Init, PromoInv, QuotaExact, InForce
  <1> QED BY <1>1, PromoInvStep, TypeCorrect, PTL DEF Spec

\* The quota counter is the number of redemptions in force, never more than
\* the quota: none of the four paths that release a reservation leaks it or
\* gives it back twice.
THEOREM QuotaKept == Spec => []QuotaExact
  BY PromoCorrect, PTL DEF PromoInv

\* A redemption that was applied is never released.
THEOREM AppliedKept == Spec => AppliedPromoStays
  <1>1. ASSUME TypeOK, PromoInv, [Next]_vars, NEW b \in Bookings, redemption[b] = "applied"
        PROVE  redemption'[b] = "applied"
    <2>1. PromoMoves /\ bookingStatus[b] # "absent"
      BY <1>1, EveryPromoMove DEF PromoInv
    <2> QED BY <1>1, <2>1 DEF PromoMoves, ReleasePromos, ReservedOf, ApplyPromo, Reserves,
            ReservePromo, TypeOK
  <1>2. TypeOK /\ PromoInv /\ [Next]_vars =>
          [\A b \in Bookings : redemption[b] = "applied" => redemption'[b] = "applied"]_vars
    BY <1>1
  <1> QED BY <1>2, TypeCorrect, PromoCorrect, PTL DEF Spec, AppliedPromoStays

-----------------------------------------------------------------------------
(* How a slot may change hands. *)

\* A row that becomes active, of a booking, had no other active row on its
\* slot but a lapsed hold.
FairTake(o, s) ==
    \A q \in Owners : q # o /\ IsActive(claims[q][s]) =>
        q \in holdLapsed /\ claims[q][s] = "held"

\* An insert takes only what the takeover has released.
LEMMA ClaimNewTakes ==
    ASSUME TypeOK, NEW o \in Owners, NEW S, NEW st \in ClaimStatus, ClaimNew(o, S, st),
           NEW q \in Owners, NEW s \in Slots, ~IsActive(claims[q][s]), IsActive(claims'[q][s])
    PROVE  q = o /\ FairTake(o, s)
  <1> DEFINE free == ReleaseExpired(claims, S, holdLapsed)
  <1>1. q = o /\ s \in S
    BY ClaimNewRows DEF IsActive
  <1>2. \A r \in Owners : ~IsActive(free[r][s])
    BY <1>1 DEF ClaimNew, CanInsert, Conflicts, ActiveSlots
  <1>3. \A r \in Owners : free[r][s] = IF r \in holdLapsed /\ claims[r][s] = "held"
                                       THEN "released" ELSE claims[r][s]
    BY <1>1, ReleaseExpiredValue DEF TypeOK
  <1> QED BY <1>1, <1>2, <1>3 DEF FairTake

\* A settlement activates rows of its own booking only where nobody has any.
LEMMA SettlementTakes ==
    ASSUME TypeOK, NEW w \in Workers, SettlementStep(w),
           NEW q \in Owners, NEW s \in Slots, ~IsActive(claims[q][s]), IsActive(claims'[q][s])
    PROVE  FairTake(q, s)
  <1> DEFINE b == BookingOf[settling[w].pay]
             free == ReleaseByOwner(claims, b)
  <1>1. ASSUME b \in Bookings
        PROVE  \A o \in Owners, t \in Slots : claims[o][t] \in ClaimStatus
    BY DEF TypeOK, ClaimTable
  <1>2. CASE SettleConfirm(w)
    <2>1. b \in Bookings BY <1>2, InFlightType DEF SettleConfirm
    <2> QED BY <1>2, <2>1, SettleValues DEF SettleConfirm, SettleWrites, IsActive
  <1>3. CASE SettleReclaim(w)
    <2>1. b \in Bookings BY <1>3, InFlightType DEF SettleReclaim
    <2>2. q = b /\ free[b][s] = "released"
      BY <1>3, <2>1, SettleValues, BookingsOwn DEF SettleReclaim, SettleWrites, IsActive,
         TypeOK, ClaimTable, ClaimStatus
    <2>3. \A o \in Owners : o # b => ~IsActive(free[o][s])
      BY <1>3, <2>2 DEF SettleReclaim, CanReclaim, ReleasedSlots, Conflicts, ActiveSlots
    <2> QED BY <2>1, <2>2, <2>3, SettleValues DEF SettleWrites, FairTake
  <1>4. CASE SettleRecover(w)
    <2>1. b \in Bookings BY <1>4, InFlightType DEF SettleRecover
    <2>2. q = b /\ claims[b][s] = "released"
      BY <1>4, <2>1, SettleValues, BookingsOwn DEF SettleRecover, SettleWrites, IsActive
    <2>3. \A o \in Owners : o # b => ~IsActive(claims[o][s])
      BY <1>4, <2>2 DEF SettleRecover, CanReclaim, ReleasedSlots, Conflicts, ActiveSlots
    <2> QED BY <2>2, <2>3 DEF FairTake
  <1>5. CASE SettleLostHold(w)
    <2>1. b \in Bookings BY <1>5, InFlightType DEF SettleLostHold
    <2> QED BY <1>5, <2>1, SettleValues DEF SettleLostHold, SettleWrites, IsActive
  <1> QED BY <1>2, <1>3, <1>4, <1>5 DEF SettlementStep, ReadPayment, InsertManual,
      LockPayment, MissPayment, AbortSettlement, SettleTooLate, SettleExtra

\* No step makes another owner's row active in any other way.
LEMMA EveryTake ==
    ASSUME TypeOK, [Next]_vars, NEW q \in Bookings, NEW s \in Slots,
           ~IsActive(claims[q][s]), IsActive(claims'[q][s])
    PROVE  FairTake(q, s)
  <1>1. ASSUME NEW b \in Bookings, NEW S \in SUBSET Slots, NEW promo \in BOOLEAN,
               CreateBooking(b, S, promo) \/ CreateWalkIn(b, S, promo)
        PROVE  FairTake(q, s)
    <2>1. ClaimNew(b, S, "held") \/ ClaimNew(b, S, "confirmed")
      BY <1>1 DEF CreateBooking, CreateWalkIn
    <2> QED BY <2>1, ClaimNewTakes, BookingsOwn DEF ClaimStatus
  <1>2. ASSUME NEW b \in Bookings, CancelBooking(b) PROVE FairTake(q, s)
    BY <1>2, OwnerStatementsValue, BookingsOwn DEF CancelBooking, TypeOK, IsActive
  <1>3. CASE SweepHolds
    BY <1>3, ReleaseExpiredValue, BookingsOwn DEF SweepHolds, TypeOK, IsActive
  <1>4. ASSUME NEW m \in Maintenances, NEW S \in SUBSET Slots, CreateMaintenance(m, S)
        PROVE  FairTake(q, s)
    BY <1>4, ClaimNewTakes, BookingsOwn DEF CreateMaintenance, ClaimStatus
  <1>5. ASSUME NEW m \in Maintenances, NEW S \in SUBSET Slots, ForceMaintenance(m, S)
        PROVE  FairTake(q, s)
    <2> DEFINE free == ReleaseConflicts(claims, S)
    <2>1. free \in ClaimTable
      BY ReleaseConflictsType DEF TypeOK
    <2>2. claims' = InsertClaims(free, m, S, "confirmed") /\ q # m
      BY <1>5, OwnersDisjoint DEF ForceMaintenance
    <2>3. claims'[q][s] = free[q][s]
      BY <2>1, <2>2, OwnerStatementsValue, BookingsOwn DEF ClaimStatus
    <2> QED BY <2>3, ReleaseConflictsValue, BookingsOwn DEF TypeOK, IsActive
  <1>6. ASSUME NEW m \in Maintenances, CancelMaintenance(m) PROVE FairTake(q, s)
    BY <1>6, OwnerStatementsValue, BookingsOwn DEF CancelMaintenance, TypeOK, IsActive
  <1>7. ASSUME NEW p \in Payments, ExpireUnpaid(p) PROVE FairTake(q, s)
    <2>1. BookingOf[p] \in Bookings
      BY CoreAssumption
    <2> QED BY <1>7, <2>1, OwnerStatementsValue, BookingsOwn DEF ExpireUnpaid, TypeOK, IsActive
  <1>8. CASE PaymentStep
    BY <1>7, <1>8 DEF PaymentStep, CheckPayable, GiveUpPaying, InsertPayment,
       PaymentFallsDue, CancelPayment, OpenGateway, GatewayEnds, ReceiveWebhook,
       ProviderEnds, NotFoundAtGateway, WebhookOfPaid
  <1>9. CASE BookingStep \/ MaintenanceStep
    BY <1>1, <1>2, <1>3, <1>4, <1>5, <1>6, <1>9 DEF BookingStep, MaintenanceStep, LapseHold,
       ReadForCancel, SweepPromos
  <1>10. CASE UNCHANGED vars
    BY <1>10 DEF vars
  <1> QED BY <1>8, <1>9, <1>10, SettlementTakes, BookingsOwn DEF Next

\* No confirmed slot, and no slot under a live hold, is handed to another
\* booking: a slot passes to a booking only off a lapsed hold.
THEOREM FairHandover == Spec => HandoverOnlyOffLapsedHold
  <1>1. ASSUME TypeOK, SlotExclusive, [Next]_vars, NEW s \in Slots,
               NEW o1 \in Owners, NEW o2 \in Owners, o1 # o2,
               IsActive(claims[o1][s]), IsActive(claims'[o2][s]), o2 \notin Maintenances
        PROVE  o1 \in holdLapsed /\ claims[o1][s] = "held"
    <2>1. o2 \in Bookings /\ ~IsActive(claims[o2][s])
      BY <1>1 DEF Owners, SlotExclusive, Exclusive
    <2> QED BY <1>1, <2>1, EveryTake DEF FairTake
  <1>2. TypeOK /\ SlotExclusive /\ [Next]_vars =>
          [\A s \in Slots : \A o1 \in Owners, o2 \in Owners :
              /\ o1 # o2 /\ IsActive(claims[o1][s])
              /\ IsActive(claims'[o2][s])
              => \/ o2 \in Maintenances
                 \/ o1 \in holdLapsed /\ claims[o1][s] = "held"]_vars
    BY <1>1
  <1> QED BY <1>2, TypeCorrect, NoDoubleBooking, PTL DEF Spec, HandoverOnlyOffLapsedHold
=============================================================================
