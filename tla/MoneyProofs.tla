----------------------------- MODULE MoneyProofs -----------------------------
(***************************************************************************)
(* Theorems about the payments and the money of BookingPayments: one open  *)
(* payment per booking, a settlement that locks what nobody else may touch;*)
(* what is paid is revenue or on its way back, a confirmed booking is paid *)
(* for, and a payment buys its slots or is refunded.                       *)
(***************************************************************************)
EXTENDS BookingPaymentsProofs

\* A settlement that commits: the only step that makes a payment paid.
Commits(w) == settling[w].stage = "locked" /\ CommitPaid(w)

\* What a step may do to a payment.
Moves(p) ==
    \/ payStatus'[p] = payStatus[p]
    \/ payStatus[p] = "absent" /\ payStatus'[p] = "pending"
    \/ payStatus[p] = "pending" /\ payStatus'[p] \in {"cancelled", "expired", "failed"}
    \/ payStatus'[p] = "paid" /\ \E w \in Workers : Commits(w) /\ settling[w].pay = p

\* The steps on bookings and maintenances change no payment.
LEMMA QuietPayments ==
    ASSUME BookingStep \/ MaintenanceStep
    PROVE  UNCHANGED <<payStatus, settling>>
  BY DEF BookingStep, MaintenanceStep, CreateBooking, CreateWalkIn, LapseHold,
         ReadForCancel, CancelBooking, SweepHolds, SweepPromos, CreateMaintenance,
         ForceMaintenance, CancelMaintenance, paymentVars, clientVars

\* The steps of a settlement that leave every payment alone.
LEMMA QuietSettlement ==
    ASSUME NEW w \in Workers, SettlementStep(w)
    PROVE  Commits(w) \/ UNCHANGED payStatus
  BY DEF SettlementStep, ReadPayment, InsertManual, LockPayment, MissPayment,
         AbortSettlement, SettleConfirm, SettleReclaim, SettleLostHold, SettleRecover,
         SettleTooLate, SettleExtra, Commits, paymentVars

\* What a commit does to the payments.
LEMMA CommitValue ==
    ASSUME TypeOK, NEW w \in Workers, Commits(w), NEW p \in Payments
    PROVE  payStatus'[p] =
               IF p = settling[w].pay THEN "paid"
               ELSE IF /\ settling[w].via = "manual"
                       /\ BookingOf[p] = BookingOf[settling[w].pay]
                       /\ payStatus[p] = "pending"
                    THEN "cancelled" ELSE payStatus[p]
  BY InFlightType DEF TypeOK, Commits, CommitPaid, Supersede, PendingOf, PaymentsOf

\* What createPayment does to the payments.
LEMMA InsertValue ==
    ASSUME TypeOK, NEW p \in Payments, InsertPayment(p), NEW q \in Payments
    PROVE  payStatus'[q] =
               IF q = p THEN "pending"
               ELSE IF BookingOf[q] = BookingOf[p] /\ payStatus[q] = "pending"
                    THEN "cancelled" ELSE payStatus[q]
  BY DEF TypeOK, InsertPayment, Supersede, PendingOf, PaymentsOf

\* The steps of PaymentStep other than InsertPayment change at most one
\* payment: a pending one, not locked by a settlement, that ends unpaid.
Ends(p) ==
    /\ payStatus[p] = "pending" /\ ~RowLocked(p)
    /\ \E st \in {"cancelled", "expired", "failed"} :
          payStatus' = [payStatus EXCEPT ![p] = st]

\* Every payment step is createPayment, an ending, or leaves payments alone.
LEMMA PaymentStepCases ==
    ASSUME PaymentStep
    PROVE  /\ UNCHANGED settling
           /\ \/ UNCHANGED payStatus
              \/ \E p \in Payments : InsertPayment(p) \/ Ends(p)
  BY DEF PaymentStep, CheckPayable, GiveUpPaying, InsertPayment, PaymentFallsDue,
         CancelPayment, ExpireUnpaid, OpenGateway, GatewayEnds, ReceiveWebhook,
         ProviderEnds, NotFoundAtGateway, WebhookOfPaid, paymentVars, clientVars, Ends

\* No step moves a payment in any other way.
LEMMA EveryMove ==
    ASSUME TypeOK, [Next]_vars, NEW p \in Payments
    PROVE  Moves(p)
  <1>1. CASE UNCHANGED payStatus
    BY <1>1 DEF Moves
  <1>2. CASE PaymentStep
    BY <1>2, PaymentStepCases, InsertValue DEF Moves, TypeOK, Ends, InsertPayment
  <1>3. ASSUME NEW w \in Workers, Commits(w) PROVE Moves(p)
    BY <1>3, CommitValue DEF Moves
  <1> QED BY <1>1, <1>2, <1>3, QuietPayments, QuietSettlement
          DEF Next, vars, paymentVars

-----------------------------------------------------------------------------
\* A booking never has two open payments, with any number of attempts,
\* cancellations, expiries and settlements in flight.
THEOREM OneOpenPayment == Spec => []OnePendingPayment
  <1>1. Init => OnePendingPayment
    BY DEF Init, OnePendingPayment
  <1>2. TypeOK /\ OnePendingPayment /\ [Next]_vars => OnePendingPayment'
    <2> SUFFICES ASSUME TypeOK, OnePendingPayment, [Next]_vars
                 PROVE  OnePendingPayment'
      OBVIOUS
    <2>1. CASE \E p \in Payments : InsertPayment(p)
      <3> PICK p \in Payments : InsertPayment(p)
        BY <2>1
      <3> QED BY InsertValue DEF OnePendingPayment
    <2>2. CASE \A p \in Payments : payStatus'[p] = "pending" => payStatus[p] = "pending"
      BY <2>2 DEF OnePendingPayment
    <2>3. ASSUME NEW p \in Payments, Ends(p)
          PROVE  \A q \in Payments : payStatus'[q] = "pending" => payStatus[q] = "pending"
      BY <2>3 DEF Ends, TypeOK
    <2>4. ASSUME NEW w \in Workers, Commits(w)
          PROVE  \A q \in Payments : payStatus'[q] = "pending" => payStatus[q] = "pending"
      BY <2>4, CommitValue
    <2>5. CASE UNCHANGED payStatus
      BY <2>5 DEF OnePendingPayment
    <2> QED BY <2>1, <2>2, <2>3, <2>4, <2>5, QuietPayments, QuietSettlement, PaymentStepCases
            DEF Next, vars, paymentVars
  <1> QED BY <1>1, <1>2, TypeCorrect, PTL DEF Spec

-----------------------------------------------------------------------------
(* Who may hold which payment row.  createPayment checks and inserts under  *)
(* an advisory lock that no settlement takes, so what keeps a manual        *)
(* payment from superseding a row that a settlement has updated, and two    *)
(* settlements from updating one row, is the row lock alone.                *)

IsManual(w) == settling[w].via = "manual"

\* A transaction that has only read its payment is not a manual payment's.
ReadersPay == \A w \in Workers : settling[w].stage = "read" => ~IsManual(w)

\* A row that a settlement has locked can still become paid; the row that a
\* manual payment inserts is not there for anyone else yet.
LockedRows ==
    \A w \in Workers : Locking(w) =>
        payStatus[settling[w].pay] \in
            IF IsManual(w) THEN {"absent"} ELSE {"pending", "expired"}

\* Two settlements lock different rows, and a settlement that runs beside a
\* manual payment of the same booking has a row that it does not supersede.
LocksApart ==
    \A w, v \in Workers :
        w # v /\ Locking(w) /\ Locking(v) =>
            /\ settling[w].pay # settling[v].pay
            /\ IsManual(w) /\ BookingOf[settling[w].pay] = BookingOf[settling[v].pay]
                 => ~IsManual(v) /\ payStatus[settling[v].pay] = "expired"

LockInv == ReadersPay /\ LockedRows /\ LocksApart

\* A step that locks nothing keeps the discipline if it leaves alone every
\* row that stays locked.
LEMMA KeepLocks ==
    ASSUME LockInv,
           \A w \in Workers : settling'[w] = settling[w] \/ settling'[w] = Idle,
           \A w \in Workers : Locking(w) /\ settling'[w] = settling[w]
                => payStatus'[settling[w].pay] = payStatus[settling[w].pay]
    PROVE  LockInv'
  <1> USE DEF LockInv, Locking, IsManual, Idle
  <1>1. ReadersPay' BY DEF ReadersPay
  <1>2. LockedRows' BY DEF LockedRows
  <1>3. LocksApart' BY DEF LocksApart
  <1> QED BY <1>1, <1>2, <1>3

\* A settlement that reads a payment locks nothing yet.
LEMMA ReadKeepsLocks ==
    ASSUME TypeOK, LockInv, NEW w \in Workers, NEW p \in Payments,
           NEW via \in {"webhook", "sync"}, ReadPayment(w, p, via)
    PROVE  LockInv'
  <1> USE DEF LockInv, Locking, IsManual
  <1>1. /\ payStatus' = payStatus
        /\ settling'[w].stage = "read" /\ settling'[w].via = via
        /\ \A v \in Workers \ {w} : settling'[v] = settling[v]
    BY DEF ReadPayment, TypeOK, paymentVars
  <1>2. ReadersPay' BY <1>1 DEF ReadersPay
  <1>3. LockedRows' BY <1>1 DEF LockedRows
  <1>4. LocksApart' BY <1>1 DEF LocksApart
  <1> QED BY <1>2, <1>3, <1>4

\* The UPDATE of a settlement waits for every lock on its row.
LEMMA LockKeepsLocks ==
    ASSUME TypeOK, LockInv, NEW w \in Workers, LockPayment(w)
    PROVE  LockInv'
  <1> DEFINE p == settling[w].pay
  <1> USE DEF LockInv, Locking, IsManual
  <1>1. settling[w] \in Settlement /\ p \in Payments
    BY InFlightType DEF LockPayment
  <1>2. /\ payStatus' = payStatus
        /\ settling'[w].stage = "locked"
        /\ settling'[w].pay = p /\ settling'[w].via = settling[w].via
        /\ \A v \in Workers \ {w} : settling'[v] = settling[v]
    BY <1>1 DEF LockPayment, TypeOK, paymentVars, Settlement
  <1>3. ~IsManual(w) /\ ~RowLocked(p) /\ payStatus[p] \in {"pending", "expired"}
    BY DEF LockPayment, Markable, ReadersPay
  <1>4. ReadersPay' BY <1>2 DEF ReadersPay
  <1>5. LockedRows' BY <1>2, <1>3 DEF LockedRows
  <1>6. \A v \in Workers : Locking(v) => settling[v].pay # p
    BY <1>3 DEF RowLocked
  <1>7. \A v \in Workers : Locking(v) /\ IsManual(v)
            /\ BookingOf[settling[v].pay] = BookingOf[p] => payStatus[p] = "expired"
    BY <1>3 DEF RowLocked, ManualFor
  <1>8. LocksApart' BY <1>2, <1>3, <1>6, <1>7 DEF LocksApart
  <1> QED BY <1>4, <1>5, <1>8

\* A manual payment waits for every settlement of a row it supersedes.
LEMMA ManualKeepsLocks ==
    ASSUME TypeOK, LockInv, NEW w \in Workers, NEW p \in Payments, InsertManual(w, p)
    PROVE  LockInv'
  <1> DEFINE b == BookingOf[p]
  <1> USE DEF LockInv, Locking, IsManual
  <1>1. /\ payStatus' = payStatus /\ payStatus[p] = "absent"
        /\ settling'[w].stage = "locked"
        /\ settling'[w].pay = p /\ settling'[w].via = "manual"
        /\ \A v \in Workers \ {w} : settling'[v] = settling[v]
        /\ ~Locking(w)
    BY DEF InsertManual, TypeOK, paymentVars, InFlight
  <1>2. ASSUME NEW v \in Workers, Locking(v)
        PROVE  /\ settling[v].pay \in Payments
               /\ BookingOf[settling[v].pay] = b => ~IsManual(v)
               /\ settling[v].pay # p
    <2>1. settling[v].pay \in Payments
      BY <1>2, InFlightType
    <2>2. BookingOf[settling[v].pay] = b => ~IsManual(v)
      BY <1>2 DEF InsertManual, ManualFor
    <2>3. settling[v].pay # p
      BY <1>1, <1>2, <2>2 DEF LockedRows
    <2> QED BY <2>1, <2>2, <2>3
  <1>3. ASSUME NEW v \in Workers, Locking(v), BookingOf[settling[v].pay] = b
        PROVE  payStatus[settling[v].pay] = "expired"
    <2>1. payStatus[settling[v].pay] \in {"pending", "expired"}
      BY <1>2, <1>3 DEF LockedRows
    <2>2. CASE payStatus[settling[v].pay] = "pending"
      <3>1. settling[v].pay \in PendingOf(b)
        BY <1>2, <1>3, <2>2 DEF PendingOf, PaymentsOf
      <3>2. ~RowLocked(settling[v].pay)
        BY <3>1 DEF InsertManual
      <3> QED BY <1>3, <3>2 DEF RowLocked
    <2> QED BY <2>1, <2>2
  <1>4. ReadersPay' BY <1>1 DEF ReadersPay
  <1>5. LockedRows' BY <1>1 DEF LockedRows
  <1>6. LocksApart' BY <1>1, <1>2, <1>3 DEF LocksApart
  <1> QED BY <1>4, <1>5, <1>6

\* A commit frees its own row and supersedes none that is locked.
LEMMA CommitKeepsLocks ==
    ASSUME TypeOK, LockInv, NEW w \in Workers, Commits(w)
    PROVE  LockInv'
  <1>1. /\ settling'[w] = Idle
        /\ \A v \in Workers \ {w} : settling'[v] = settling[v]
    BY DEF Commits, CommitPaid, TypeOK
  <1>2. ASSUME NEW v \in Workers \ {w}, Locking(v)
        PROVE  payStatus'[settling[v].pay] = payStatus[settling[v].pay]
    <2>1. settling[v].pay \in Payments
      BY <1>2, InFlightType DEF Locking
    <2>2. settling[v].pay # settling[w].pay
      BY <1>2 DEF LockInv, LocksApart, Commits, Locking
    <2>3. /\ IsManual(w)
          /\ BookingOf[settling[v].pay] = BookingOf[settling[w].pay]
          => payStatus[settling[v].pay] # "pending"
      BY <1>2 DEF LockInv, LocksApart, Commits, Locking
    <2> QED BY <2>1, <2>2, <2>3, CommitValue DEF IsManual
  <1>3. Idle # settling[w]
    BY DEF Commits, Idle
  <1> QED BY <1>1, <1>2, <1>3, KeepLocks

\* The discipline of the row locks is inductive.
LEMMA LocksStep == TypeOK /\ LockInv /\ [Next]_vars => LockInv'
  <1> SUFFICES ASSUME TypeOK, LockInv, [Next]_vars PROVE LockInv'
    OBVIOUS
  <1>1. CASE UNCHANGED <<payStatus, settling>>
    BY <1>1, KeepLocks
  <1>2. ASSUME NEW p \in Payments, InsertPayment(p), UNCHANGED settling PROVE LockInv'
    <2>1. ASSUME NEW w \in Workers, Locking(w)
          PROVE  payStatus'[settling[w].pay] = payStatus[settling[w].pay]
      <3> DEFINE q == settling[w].pay
      <3>1. q \in Payments
        BY <2>1, InFlightType DEF Locking
      <3>2. q # p
        BY <1>2, <2>1, <3>1 DEF InsertPayment, LockInv, LockedRows, ManualFor, IsManual
      <3>3. BookingOf[q] = BookingOf[p] => payStatus[q] # "pending"
        BY <1>2, <2>1, <3>1 DEF InsertPayment, RowLocked, PendingOf, PaymentsOf
      <3> QED BY <1>2, <3>1, <3>2, <3>3, InsertValue
    <2> QED BY <1>2, <2>1, KeepLocks
  <1>3. ASSUME NEW p \in Payments, Ends(p), UNCHANGED settling PROVE LockInv'
    <2>1. ASSUME NEW w \in Workers, Locking(w)
          PROVE  payStatus'[settling[w].pay] = payStatus[settling[w].pay]
      BY <1>3, <2>1 DEF Ends, RowLocked, TypeOK
    <2> QED BY <1>3, <2>1, KeepLocks
  <1>4. ASSUME NEW w \in Workers, SettlementStep(w) PROVE LockInv'
    <2>1. CASE MissPayment(w) \/ AbortSettlement(w)
      <3>1. /\ payStatus' = payStatus
            /\ \A v \in Workers : settling'[v] = settling[v] \/ settling'[v] = Idle
        BY <2>1 DEF MissPayment, AbortSettlement, TypeOK, paymentVars
      <3> QED BY <3>1, KeepLocks
    <2>2. CASE Commits(w)
      BY <2>2, CommitKeepsLocks
    <2> QED BY <1>4, <2>1, <2>2, ReadKeepsLocks, LockKeepsLocks, ManualKeepsLocks
            DEF SettlementStep, Commits, SettleConfirm, SettleReclaim, SettleLostHold,
                SettleRecover, SettleTooLate, SettleExtra
  <1> QED BY <1>1, <1>2, <1>3, <1>4, QuietPayments, PaymentStepCases
          DEF Next, vars, paymentVars, clientVars

\* The row locks hold in every state.
THEOREM LocksCorrect == Spec => []LockInv
  <1>1. Init => LockInv
    BY DEF Init, LockInv, ReadersPay, LockedRows, LocksApart, Locking, Idle
  <1> QED BY <1>1, LocksStep, TypeCorrect, PTL DEF Spec

\* A payment that is paid stays paid, and one that failed or was cancelled
\* never turns paid, with any number of settlements racing for its row.
THEOREM SettledOnce == Spec => PaymentIsSettledOnce
  <1>1. ASSUME TypeOK, LockInv, [Next]_vars, NEW p \in Payments
        PROVE  /\ payStatus[p] = "paid" => payStatus'[p] = "paid"
               /\ payStatus[p] \in {"failed", "cancelled"}
                    => payStatus'[p] = payStatus[p]
    <2>1. Moves(p)
      BY <1>1, EveryMove
    <2>2. ASSUME NEW w \in Workers, Commits(w), settling[w].pay = p
          PROVE  payStatus[p] \in {"absent", "pending", "expired"}
      BY <1>1, <2>2 DEF LockInv, LockedRows, Commits, Locking
    <2> QED BY <2>1, <2>2 DEF Moves
  <1>2. TypeOK /\ LockInv /\ [Next]_vars =>
          [\A p \in Payments :
             /\ payStatus[p] = "paid" => payStatus'[p] = "paid"
             /\ payStatus[p] \in {"failed", "cancelled"} => payStatus'[p] = payStatus[p]
          ]_vars
    BY <1>1
  <1> QED BY <1>2, TypeCorrect, LocksCorrect, PTL DEF Spec, PaymentIsSettledOnce

-----------------------------------------------------------------------------
(* The money.                                                               *)
\* Nothing is paid, or about to be, for a booking that was never made.
Made ==
    /\ \A b \in paying : bookingStatus[b] # "absent"
    /\ \A p \in Payments : payStatus[p] # "absent" => bookingStatus[BookingOf[p]] # "absent"
    /\ \A w \in Workers : InFlight(w) => bookingStatus[BookingOf[settling[w].pay]] # "absent"

\* A payment that expired and may have been settled at the gateway.
MayBeLate(p) == payStatus[p] = "expired" /\ gateway[p] # "closed"

\* J-07 expired it, and its booking with it.
LateIsOver ==
    \A p \in Payments : MayBeLate(p) => bookingStatus[BookingOf[p]] # "pending_payment"

RevenueStands ==
    \A p \in revenue :
        /\ payStatus[p] = "paid"
        /\ bookingStatus[BookingOf[p]] \in {"confirmed", "cancelled"}

RefundOfPaid == \A p \in Payments : refund[p] # "none" => payStatus[p] = "paid"

\* A gateway's settlement locks only what the gateway has settled.
LockedIsSettled ==
    \A w \in Workers :
        Locking(w) /\ ~IsManual(w) => gateway[settling[w].pay] = "settled"

\* While a settlement that read its booking as pending holds its row, no
\* other payment of the booking can have bought it.
ReadAsPending(w) == Locking(w) /\ settling[w].bkRead = "pending_payment"
PendingStaysUnsold ==
    \A w \in Workers, q \in Payments :
        ReadAsPending(w) /\ BookingOf[q] = BookingOf[settling[w].pay]
            => ~MayBeLate(q) /\ q \notin revenue

CancelReadsOwn ==
    \A b \in Bookings : cancelRead[b].refund \subseteq PaymentsOf(b)

MoneyInv ==
    /\ Made /\ LateIsOver /\ RevenueStands /\ RefundOfPaid
    /\ LockedIsSettled /\ PendingStaysUnsold /\ CancelReadsOwn
    /\ PaidIsAccounted /\ ConfirmedIsPaid

-----------------------------------------------------------------------------
(* Steps on bookings and maintenances. *)

\* How a step on a booking or a maintenance may move a booking.
BookingMoves ==
    \A b \in Bookings :
        \/ bookingStatus'[b] = bookingStatus[b]
        \/ /\ bookingStatus[b] = "absent"
           /\ bookingStatus'[b] = IF b \in WalkIns THEN "confirmed" ELSE "pending_payment"
        \/ bookingStatus[b] \in Cancellable /\ bookingStatus'[b] = "cancelled"
        \/ bookingStatus[b] = "pending_payment" /\ bookingStatus'[b] = "expired"

\* What such a step refunds is paid, and its booking is cancelled.
RefundMoves ==
    \A p \in Payments :
        \/ refund'[p] = refund[p]
        \/ /\ payStatus[p] = "paid" /\ refund'[p] # "none"
           /\ bookingStatus'[BookingOf[p]] = "cancelled"

\* A forced maintenance refunds paid payments of the bookings it cancels.
LEMMA ForceMoves ==
    ASSUME TypeOK, NEW m \in Maintenances, NEW S \in SUBSET Slots, ForceMaintenance(m, S)
    PROVE  /\ BookingMoves /\ RefundMoves
           /\ UNCHANGED <<payStatus, gateway, revenue, paying, settling, cancelRead>>
  <1> DEFINE cancelled == {b \in Conflicts(claims, S) \cap Bookings : bookingStatus[b] \in Cancellable}
  <1>1. cancelled \subseteq Bookings
    BY DEF ForceMaintenance, Overridable
  <1>2. \A b \in Bookings :
           bookingStatus'[b] = IF b \in cancelled THEN "cancelled" ELSE bookingStatus[b]
    BY DEF ForceMaintenance
  <1>3. BookingMoves
    BY <1>2 DEF BookingMoves
  <1>4. PICK latest \in [cancelled -> SUBSET Payments] :
             /\ \A b \in cancelled :
                   IF PaidOf(b) = {} THEN latest[b] = {}
                   ELSE \E p \in PaidOf(b) : latest[b] = {p} /\ MayRefund(p)
             /\ refund' = [p \in Payments |->
                    IF \E b \in cancelled : p \in latest[b]
                    THEN "approved" ELSE refund[p]]
    BY DEF ForceMaintenance
  <1>5. \A b \in cancelled : latest[b] \subseteq PaidOf(b)
    BY <1>4
  <1>6. RefundMoves
    BY <1>1, <1>2, <1>4, <1>5 DEF RefundMoves, PaidOf, PaymentsOf
  <1> QED BY <1>3, <1>6 DEF ForceMaintenance, clientVars


\* What the steps on bookings and maintenances do to the money.
MoneyRests ==
    /\ BookingMoves /\ RefundMoves
    /\ UNCHANGED <<payStatus, gateway, revenue, paying, settling>>

\* The steps on bookings and maintenances move no money but refunds of what
\* they cancel.
LEMMA BookingsRestMoney ==
    ASSUME TypeOK, CancelReadsOwn, BookingStep \/ MaintenanceStep
    PROVE  MoneyRests /\ CancelReadsOwn'
  <1> USE DEF bookingVars, paymentVars, clientVars, MoneyRests
  <1>1. ASSUME NEW b \in Bookings, NEW S \in SUBSET Slots, NEW promo \in BOOLEAN,
               CreateBooking(b, S, promo) \/ CreateWalkIn(b, S, promo)
        PROVE  MoneyRests /\ CancelReadsOwn'
    BY <1>1 DEF CreateBooking, CreateWalkIn, BookingMoves, RefundMoves, CancelReadsOwn,
                PaymentsOf, TypeOK
  <1>2. ASSUME NEW b \in Bookings, LapseHold(b) PROVE MoneyRests /\ CancelReadsOwn'
    BY <1>2 DEF LapseHold, BookingMoves, RefundMoves, CancelReadsOwn, PaymentsOf
  <1>3. ASSUME NEW b \in Bookings, ReadForCancel(b) PROVE MoneyRests /\ CancelReadsOwn'
    <2>1. CancelReadsOwn'
      BY <1>3 DEF ReadForCancel, CancelReadsOwn, PaymentsOf, PaidOf, TypeOK
    <2> QED BY <1>3, <2>1 DEF ReadForCancel, BookingMoves, RefundMoves
  <1>4. ASSUME NEW b \in Bookings, CancelBooking(b) PROVE MoneyRests /\ CancelReadsOwn'
    <2>1. CancelReadsOwn'
      BY <1>4 DEF CancelBooking, CancelReadsOwn, PaymentsOf, NoRead, TypeOK
    <2>2. BookingMoves
      BY <1>4 DEF CancelBooking, BookingMoves, TypeOK
    <2>3. RefundMoves
      BY <1>4 DEF CancelBooking, RefundMoves, CancelReadsOwn, PaymentsOf, MayRefund, TypeOK
    <2> QED BY <1>4, <2>1, <2>2, <2>3 DEF CancelBooking
  <1>5. CASE SweepHolds
    BY <1>5 DEF SweepHolds, BookingMoves, RefundMoves, CancelReadsOwn, PaymentsOf
  <1>6. CASE SweepPromos
    BY <1>6 DEF SweepPromos, BookingMoves, RefundMoves, CancelReadsOwn, PaymentsOf
  <1>7. ASSUME NEW m \in Maintenances, NEW S \in SUBSET Slots, ForceMaintenance(m, S)
        PROVE  MoneyRests /\ CancelReadsOwn'
    BY <1>7, ForceMoves DEF CancelReadsOwn, PaymentsOf
  <1>8. ASSUME NEW m \in Maintenances, NEW S \in SUBSET Slots,
               CreateMaintenance(m, S) \/ CancelMaintenance(m)
        PROVE  MoneyRests /\ CancelReadsOwn'
    BY <1>8 DEF CreateMaintenance, CancelMaintenance, BookingMoves, RefundMoves,
                CancelReadsOwn, PaymentsOf
  <1> QED BY <1>1, <1>2, <1>3, <1>4, <1>5, <1>6, <1>7, <1>8 DEF BookingStep, MaintenanceStep

\* Where money rests, the books stay balanced.
LEMMA RestKeepsMoney ==
    ASSUME TypeOK, MoneyInv, MoneyRests, CancelReadsOwn'
    PROVE  MoneyInv'
  <1> USE DEF MoneyInv, MoneyRests
  <1>1. \A p \in Payments : BookingOf[p] \in Bookings
    BY CoreAssumption
  <1>2. \A w \in Workers : InFlight(w) =>
           settling[w].pay \in Payments /\ BookingOf[settling[w].pay] \in Bookings
    BY InFlightType DEF InFlight
  <1>3. Made'
    BY <1>1, <1>2 DEF Made, BookingMoves, Cancellable, InFlight, TypeOK
  <1>4. LateIsOver'
    BY <1>1 DEF LateIsOver, MayBeLate, BookingMoves, Made
  <1>5. RevenueStands'
    BY <1>1 DEF RevenueStands, BookingMoves, Cancellable, TypeOK
  <1>6. RefundOfPaid'
    BY DEF RefundOfPaid, RefundMoves
  <1>7. LockedIsSettled' /\ PendingStaysUnsold'
    BY DEF LockedIsSettled, PendingStaysUnsold, ReadAsPending, Locking, IsManual, MayBeLate
  <1>8. PaidIsAccounted'
    BY DEF PaidIsAccounted, RefundMoves
  <1>9. ConfirmedIsPaid'
    <2> SUFFICES ASSUME NEW b \in Bookings \ WalkIns, bookingStatus'[b] = "confirmed"
                 PROVE  \E p \in PaymentsOf(b) \cap revenue :
                           payStatus[p] = "paid" /\ refund'[p] = "none"
      BY DEF ConfirmedIsPaid, PaymentsOf
    <2>1. bookingStatus[b] = "confirmed"
      BY DEF BookingMoves
    <2>2. PICK p \in PaymentsOf(b) \cap revenue : payStatus[p] = "paid" /\ refund[p] = "none"
      BY <2>1 DEF ConfirmedIsPaid
    <2> QED BY <2>2 DEF RefundMoves, PaymentsOf
  <1> QED BY <1>3, <1>4, <1>5, <1>6, <1>7, <1>8, <1>9

-----------------------------------------------------------------------------
(* Steps of payment attempts, the gateway and J-07. *)

\* A settlement that read its booking as pending holds a row that is pending,
\* or one that nobody else can see.
LEMMA PendingHolder ==
    ASSUME TypeOK, LockInv, MoneyInv, NEW w \in Workers, ReadAsPending(w)
    PROVE  IF IsManual(w) THEN payStatus[settling[w].pay] = "absent"
           ELSE payStatus[settling[w].pay] = "pending"
  <1>1. settling[w].pay \in Payments
    BY InFlightType DEF ReadAsPending, Locking
  <1> QED BY <1>1 DEF LockInv, LockedRows, MoneyInv, LockedIsSettled, PendingStaysUnsold,
          ReadAsPending, MayBeLate

\* J-07 cannot expire a payment of a booking while such a settlement runs.
LEMMA NoExpiryBeside ==
    ASSUME TypeOK, LockInv, OnePendingPayment, MoneyInv, NEW w \in Workers,
           ReadAsPending(w), NEW p \in Payments, payStatus[p] = "pending", ~RowLocked(p)
    PROVE  BookingOf[p] # BookingOf[settling[w].pay]
  <1>1. settling[w].pay \in Payments /\ Locking(w)
    BY InFlightType DEF ReadAsPending, Locking
  <1>2. CASE IsManual(w)
    BY <1>1, <1>2 DEF RowLocked, ManualFor, IsManual
  <1>3. CASE ~IsManual(w)
    BY <1>1, <1>3, PendingHolder DEF RowLocked, OnePendingPayment
  <1> QED BY <1>2, <1>3

\* createPayment keeps the books balanced.
LEMMA InsertKeepsMoney ==
    ASSUME TypeOK, LockInv, MoneyInv, NEW p \in Payments, InsertPayment(p)
    PROVE  MoneyInv'
  <1> USE DEF MoneyInv
  <1>1. /\ UNCHANGED <<bookingStatus, refund, revenue, settling, cancelRead>>
        /\ paying' \subseteq paying /\ BookingOf[p] \in paying
        /\ payStatus[p] = "absent"
        /\ \A q \in Payments : q # p => gateway'[q] = gateway[q]
    BY DEF InsertPayment, TypeOK, bookingVars
  <1>2. \A q \in Payments : payStatus'[q] \in
           {payStatus[q]} \cup (IF q = p THEN {"pending"} ELSE {})
                          \cup (IF payStatus[q] = "pending" THEN {"cancelled"} ELSE {})
    BY InsertValue
  <1>3. Made'
    BY <1>1, <1>2 DEF Made, InFlight
  <1>4. LateIsOver'
    BY <1>1, <1>2 DEF LateIsOver, MayBeLate
  <1>5. RevenueStands'
    BY <1>1, <1>2 DEF RevenueStands, TypeOK
  <1>6. RefundOfPaid'
    BY <1>1, <1>2 DEF RefundOfPaid
  <1>7. LockedIsSettled'
    <2> SUFFICES ASSUME NEW w \in Workers, Locking(w), ~IsManual(w)
                 PROVE  gateway'[settling[w].pay] = "settled"
      BY <1>1 DEF LockedIsSettled, Locking, IsManual
    <2>1. settling[w].pay \in Payments /\ settling[w].pay # p
      BY <1>1, InFlightType DEF LockInv, LockedRows, Locking
    <2> QED BY <1>1, <2>1 DEF LockedIsSettled
  <1>8. PendingStaysUnsold'
    BY <1>1, <1>2 DEF PendingStaysUnsold, ReadAsPending, Locking, MayBeLate
  <1>9. CancelReadsOwn' /\ PaidIsAccounted'
    BY <1>1, <1>2 DEF CancelReadsOwn, PaymentsOf, PaidIsAccounted
  <1>10. ConfirmedIsPaid'
    BY <1>1, <1>2 DEF ConfirmedIsPaid, PaymentsOf
  <1> QED BY <1>3, <1>4, <1>5, <1>6, <1>7, <1>8, <1>9, <1>10

\* So does the end of a pending payment, unless it may be paid for late and
\* its booking is still open.
LEMMA EndKeepsMoney ==
    ASSUME TypeOK, LockInv, OnePendingPayment, MoneyInv, NEW p \in Payments, Ends(p),
           UNCHANGED <<refund, revenue, paying, settling, cancelRead>>,
           gateway[p] = "settled" => gateway'[p] = "settled",
           \A q \in Payments : q # p => gateway'[q] = gateway[q],
           \A b \in Bookings : \/ bookingStatus'[b] = bookingStatus[b]
                               \/ /\ bookingStatus[b] = "pending_payment"
                                  /\ bookingStatus'[b] = "expired",
           MayBeLate(p)' => bookingStatus'[BookingOf[p]] # "pending_payment"
    PROVE  MoneyInv'
  <1> USE DEF MoneyInv
  <1>1. \A q \in Payments : BookingOf[q] \in Bookings
    BY CoreAssumption
  <1>2. /\ payStatus[p] = "pending" /\ payStatus'[p] \in {"cancelled", "expired", "failed"}
        /\ \A q \in Payments : q # p => payStatus'[q] = payStatus[q]
    BY DEF Ends, TypeOK
  <1>3. \A w \in Workers : InFlight(w) => settling[w].pay \in Payments
    BY InFlightType DEF InFlight
  <1>4. \A q \in Payments : q # p => (MayBeLate(q)' <=> MayBeLate(q))
    BY <1>2 DEF MayBeLate
  <1>5. Made'
    BY <1>1, <1>2, <1>3 DEF Made, InFlight, TypeOK
  <1>6. LateIsOver'
    BY <1>1, <1>4 DEF LateIsOver
  <1>7. RevenueStands'
    BY <1>1, <1>2 DEF RevenueStands, TypeOK
  <1>8. RefundOfPaid'
    BY <1>2 DEF RefundOfPaid
  <1>9. LockedIsSettled'
    BY <1>3 DEF LockedIsSettled, Locking, IsManual, InFlight
  <1>10. PendingStaysUnsold'
    BY <1>2, <1>4, NoExpiryBeside
       DEF PendingStaysUnsold, ReadAsPending, Locking, Ends
  <1>11. CancelReadsOwn' /\ PaidIsAccounted'
    BY <1>2 DEF CancelReadsOwn, PaymentsOf, PaidIsAccounted
  <1>12. ConfirmedIsPaid'
    BY <1>2 DEF ConfirmedIsPaid, PaymentsOf
  <1> QED BY <1>5, <1>6, <1>7, <1>8, <1>9, <1>10, <1>11, <1>12

\* What the gateway does, what the API hears of it, and the advisory lock.
LEMMA GatewayKeepsMoney ==
    ASSUME TypeOK, MoneyInv,
           UNCHANGED <<payStatus, bookingStatus, refund, revenue, settling, cancelRead>>,
           \A b \in paying' : b \in paying \/ bookingStatus[b] = "pending_payment",
           \A p \in Payments : \/ gateway'[p] = gateway[p]
                               \/ gateway[p] \notin {"settled", "closed"}
    PROVE  MoneyInv'
  <1> USE DEF MoneyInv
  <1>1. Made'
    BY DEF Made, InFlight
  <1>2. \A p \in Payments : MayBeLate(p)' => MayBeLate(p)
    BY DEF MayBeLate
  <1>3. LateIsOver' /\ RevenueStands' /\ RefundOfPaid'
    BY <1>2 DEF LateIsOver, RevenueStands, RefundOfPaid
  <1>4. LockedIsSettled'
    BY InFlightType DEF LockedIsSettled, Locking, IsManual
  <1>5. PendingStaysUnsold'
    BY <1>2 DEF PendingStaysUnsold, ReadAsPending, Locking
  <1>6. CancelReadsOwn' /\ PaidIsAccounted' /\ ConfirmedIsPaid'
    BY DEF CancelReadsOwn, PaymentsOf, PaidIsAccounted, ConfirmedIsPaid
  <1> QED BY <1>1, <1>3, <1>4, <1>5, <1>6

\* Every payment step keeps the books balanced.
LEMMA PaymentsKeepMoney ==
    ASSUME TypeOK, LockInv, OnePendingPayment, MoneyInv, PaymentStep
    PROVE  MoneyInv'
  <1> USE DEF bookingVars, paymentVars, clientVars
  <1>1. ASSUME NEW p \in Payments, InsertPayment(p) PROVE MoneyInv'
    BY <1>1, InsertKeepsMoney
  <1>2. ASSUME NEW p \in Payments, CancelPayment(p) PROVE MoneyInv'
    <2>1. Ends(p) /\ ~MayBeLate(p)'
      BY <1>2 DEF CancelPayment, Ends, MayBeLate, TypeOK
    <2> QED BY <1>2, <2>1, EndKeepsMoney DEF CancelPayment
  <1>3. ASSUME NEW p \in Payments, NEW st \in {"expired", "failed", "cancelled"},
               ProviderEnds(p, st)
        PROVE  MoneyInv'
    <2>1. Ends(p) /\ ~MayBeLate(p)'
      BY <1>3 DEF ProviderEnds, Ends, MayBeLate
    <2> QED BY <1>3, <2>1, EndKeepsMoney DEF ProviderEnds
  <1>4. ASSUME NEW p \in Payments, NotFoundAtGateway(p) PROVE MoneyInv'
    <2>1. Ends(p) /\ ~MayBeLate(p)'
      BY <1>4 DEF NotFoundAtGateway, Ends, MayBeLate, TypeOK
    <2>2. gateway[p] # "settled" /\ \A q \in Payments : q # p => gateway'[q] = gateway[q]
      BY <1>4 DEF NotFoundAtGateway, TypeOK
    <2> QED BY <1>4, <2>1, <2>2, EndKeepsMoney DEF NotFoundAtGateway
  <1>5. ASSUME NEW p \in Payments, ExpireUnpaid(p) PROVE MoneyInv'
    <2>1. Ends(p) /\ BookingOf[p] \in Bookings
      BY <1>5, CoreAssumption DEF ExpireUnpaid, Ends
    <2>2. /\ bookingStatus'[BookingOf[p]] # "pending_payment"
          /\ \A b \in Bookings : \/ bookingStatus'[b] = bookingStatus[b]
                                 \/ /\ bookingStatus[b] = "pending_payment"
                                    /\ bookingStatus'[b] = "expired"
      BY <1>5, <2>1 DEF ExpireUnpaid, TypeOK
    <2> QED BY <1>5, <2>1, <2>2, EndKeepsMoney DEF ExpireUnpaid
  <1>6. ASSUME NEW p \in Payments, OpenGateway(p) \/ \E st \in {"settled", "closed"} :
                                                        GatewayEnds(p, st)
        PROVE  MoneyInv'
    <2>1. \A q \in Payments : \/ gateway'[q] = gateway[q]
                              \/ gateway[q] \notin {"settled", "closed"}
      BY <1>6 DEF OpenGateway, GatewayEnds, TypeOK
    <2> QED BY <1>6, <2>1, GatewayKeepsMoney DEF OpenGateway, GatewayEnds
  <1>7. ASSUME NEW b \in Bookings, CheckPayable(b) \/ GiveUpPaying(b) PROVE MoneyInv'
    BY <1>7, GatewayKeepsMoney DEF CheckPayable, GiveUpPaying
  <1>8. ASSUME NEW p \in Payments, PaymentFallsDue(p) \/ ReceiveWebhook(p) \/ WebhookOfPaid(p)
        PROVE  MoneyInv'
    BY <1>8, GatewayKeepsMoney DEF PaymentFallsDue, ReceiveWebhook, WebhookOfPaid
  <1> QED BY <1>1, <1>2, <1>3, <1>4, <1>5, <1>6, <1>7, <1>8 DEF PaymentStep

-----------------------------------------------------------------------------
(* Steps of a settlement. *)

\* A settlement that locks its row, by UPDATE or by INSERT, finds its booking
\* unsold if it reads it as pending.
LEMMA LockingKeepsMoney ==
    ASSUME TypeOK, LockInv, MoneyInv, NEW w \in Workers,
           LockPayment(w) \/ \E p \in Payments : InsertManual(w, p)
    PROVE  MoneyInv'
  <1> USE DEF MoneyInv, bookingVars, paymentVars
  <1> DEFINE p == settling'[w].pay
             Locks == /\ p \in Payments /\ bookingStatus[BookingOf[p]] # "absent"
                      /\ settling'[w].bkRead = bookingStatus[BookingOf[p]]
                      /\ settling'[w].via = "manual" \/ gateway[p] = "settled"
                      /\ \A v \in Workers \ {w} : settling'[v] = settling[v]
                      /\ UNCHANGED <<payStatus, bookingStatus, gateway, refund, revenue,
                                     cancelRead, paying>>
  <1>1. Locks
    <2>1. CASE LockPayment(w)
      <3>1. settling[w] \in Settlement /\ settling[w].pay \in Payments /\ InFlight(w)
        BY <2>1, InFlightType DEF LockPayment, InFlight
      <3> QED BY <2>1, <3>1 DEF LockPayment, Settlement, TypeOK, Made
    <2>2. ASSUME NEW q \in Payments, InsertManual(w, q) PROVE Locks
      BY <2>2 DEF InsertManual, TypeOK, Made
    <2> QED BY <2>1, <2>2
  <1>2. Made'
    BY <1>1 DEF Made, InFlight
  <1>3. LateIsOver' /\ RevenueStands' /\ RefundOfPaid' /\ CancelReadsOwn'
        /\ PaidIsAccounted' /\ ConfirmedIsPaid'
    BY <1>1 DEF LateIsOver, MayBeLate, RevenueStands, RefundOfPaid, CancelReadsOwn,
                PaymentsOf, PaidIsAccounted, ConfirmedIsPaid
  <1>4. LockedIsSettled'
    BY <1>1 DEF LockedIsSettled, Locking, IsManual
  <1>5. PendingStaysUnsold'
    BY <1>1 DEF PendingStaysUnsold, ReadAsPending, Locking, LateIsOver, RevenueStands,
                MayBeLate
  <1> QED BY <1>2, <1>3, <1>4, <1>5

\* A settlement that reads its payment, or gives up, writes nothing.
LEMMA ReadingKeepsMoney ==
    ASSUME TypeOK, MoneyInv, NEW w \in Workers,
           \/ MissPayment(w) \/ AbortSettlement(w)
           \/ \E p \in Payments, via \in {"webhook", "sync"} : ReadPayment(w, p, via)
    PROVE  MoneyInv'
  <1> USE DEF MoneyInv, bookingVars, paymentVars
  <1>1. /\ UNCHANGED <<payStatus, bookingStatus, gateway, refund, revenue, cancelRead>>
        /\ paying' \subseteq paying
        /\ settling'[w].stage # "locked"
        /\ settling'[w] = Idle \/ (/\ settling'[w].pay \in Payments
                                   /\ payStatus[settling'[w].pay] # "absent")
        /\ \A v \in Workers \ {w} : settling'[v] = settling[v]
    BY DEF MissPayment, AbortSettlement, ReadPayment, TypeOK, Idle
  <1>2. Made'
    BY <1>1 DEF Made, InFlight, Idle
  <1>3. LateIsOver' /\ RevenueStands' /\ RefundOfPaid' /\ CancelReadsOwn'
        /\ PaidIsAccounted' /\ ConfirmedIsPaid'
    BY <1>1 DEF LateIsOver, MayBeLate, RevenueStands, RefundOfPaid, CancelReadsOwn,
                PaymentsOf, PaidIsAccounted, ConfirmedIsPaid
  <1>4. LockedIsSettled' /\ PendingStaysUnsold'
    BY <1>1 DEF LockedIsSettled, PendingStaysUnsold, ReadAsPending, Locking, IsManual, MayBeLate
  <1> QED BY <1>2, <1>3, <1>4

\* No two settlements of a booking run together when one of them read it as
\* pending: the other would hold a second pending payment, or a late one.
LEMMA SettlesAlone ==
    ASSUME TypeOK, LockInv, OnePendingPayment, MoneyInv,
           NEW w \in Workers, NEW v \in Workers, w # v, Locking(w), ReadAsPending(v),
           BookingOf[settling[w].pay] = BookingOf[settling[v].pay]
    PROVE  FALSE
  <1> DEFINE p == settling[w].pay
             q == settling[v].pay
  <1>1. p \in Payments /\ q \in Payments /\ p # q /\ Locking(v)
    BY InFlightType DEF ReadAsPending, Locking, LockInv, LocksApart
  <1>2. ~IsManual(w)
    BY <1>1, PendingHolder DEF LockInv, LocksApart, LockedRows
  <1>3. payStatus[p] = "pending"
    BY <1>1, <1>2 DEF LockInv, LockedRows, MoneyInv, LockedIsSettled, PendingStaysUnsold,
                      MayBeLate
  <1>4. ~IsManual(v)
    BY <1>1, <1>2, <1>3 DEF LockInv, LocksApart
  <1> QED BY <1>1, <1>3, <1>4, PendingHolder DEF OnePendingPayment

\* What a commit makes of its booking's money: the first revenue, or a refund.
BuysBooking(w) ==
    LET p == settling[w].pay
    IN /\ revenue \cap PaymentsOf(BookingOf[p]) = {}
       /\ revenue' = revenue \cup {p} /\ UNCHANGED refund
       /\ bookingStatus'[BookingOf[p]] =
             IF bookingStatus[BookingOf[p]] = "cancelled" THEN "cancelled" ELSE "confirmed"
       /\ \A a \in Bookings : a # BookingOf[p] => bookingStatus'[a] = bookingStatus[a]

GivesBack(w) ==
    LET p == settling[w].pay
    IN /\ UNCHANGED revenue /\ refund' = [refund EXCEPT ![p] = "approved"]
       /\ \A a \in Bookings : \/ bookingStatus'[a] = bookingStatus[a]
                              \/ /\ bookingStatus[a] = "pending_payment"
                                 /\ bookingStatus'[a] = "expired"

\* Each way to settle does one or the other.
LEMMA SettleOutcome ==
    ASSUME TypeOK, MoneyInv, NEW w \in Workers,
           \/ SettleConfirm(w) \/ SettleReclaim(w) \/ SettleLostHold(w)
           \/ SettleRecover(w) \/ SettleTooLate(w) \/ SettleExtra(w)
    PROVE  Commits(w) /\ (BuysBooking(w) \/ GivesBack(w))
  <1> DEFINE p == settling[w].pay
             b == BookingOf[p]
  <1>1. Locking(w)
    BY DEF SettleConfirm, SettleReclaim, SettleLostHold, SettleRecover, SettleTooLate,
           SettleExtra, Locking
  <1>2. p \in Payments /\ b \in Bookings /\ bookingStatus[b] # "absent"
    BY <1>1, InFlightType DEF Locking, MoneyInv, Made, InFlight
  <1>3. Commits(w)
    BY DEF Commits, SettleConfirm, SettleReclaim, SettleLostHold, SettleRecover,
           SettleTooLate, SettleExtra
  <1>4. ReadAsPending(w) => revenue \cap PaymentsOf(b) = {}
    BY DEF MoneyInv, PendingStaysUnsold, PaymentsOf
  <1>5. bookingStatus[b] = "expired" => revenue \cap PaymentsOf(b) = {}
    BY DEF MoneyInv, RevenueStands, PaymentsOf
  <1>6. CASE SettleConfirm(w)
    BY <1>1, <1>2, <1>3, <1>4, <1>6
       DEF SettleConfirm, ReadAsPending, RecordRevenue, BuysBooking, TypeOK
  <1>7. CASE SettleReclaim(w)
    <2>1. /\ bookingStatus'[b] =
                IF bookingStatus[b] = "cancelled" THEN "cancelled" ELSE "confirmed"
          /\ \A a \in Bookings : a # b => bookingStatus'[a] = bookingStatus[a]
      BY <1>2, <1>7 DEF SettleReclaim, Recoverable, TypeOK, BookingStatus
    <2> QED BY <1>1, <1>3, <1>4, <1>7, <2>1
            DEF SettleReclaim, ReadAsPending, RecordRevenue, BuysBooking
  <1>8. CASE SettleRecover(w)
    BY <1>2, <1>3, <1>5, <1>8 DEF SettleRecover, RecordRevenue, BuysBooking, TypeOK
  <1>9. CASE SettleLostHold(w)
    BY <1>2, <1>3, <1>9 DEF SettleLostHold, RefundPaid, GivesBack, TypeOK
  <1>10. CASE SettleTooLate(w) \/ SettleExtra(w)
    BY <1>3, <1>10 DEF SettleTooLate, SettleExtra, RefundPaid, GivesBack
  <1> QED BY <1>6, <1>7, <1>8, <1>9, <1>10

\* A commit keeps the books balanced.
LEMMA CommitKeepsMoney ==
    ASSUME TypeOK, LockInv, OnePendingPayment, MoneyInv, NEW w \in Workers,
           Commits(w), BuysBooking(w) \/ GivesBack(w)
    PROVE  MoneyInv'
  <1> DEFINE p == settling[w].pay
             b == BookingOf[p]
  <1> USE DEF MoneyInv
  <1>1. p \in Payments /\ b \in Bookings /\ Locking(w) /\ bookingStatus[b] # "absent"
    BY InFlightType DEF Commits, Locking, Made, InFlight
  <1>2. /\ settling'[w] = Idle
        /\ \A v \in Workers \ {w} : settling'[v] = settling[v]
        /\ paying' \subseteq paying /\ UNCHANGED <<gateway, cancelRead>>
    BY DEF Commits, CommitPaid, TypeOK
  <1>3. /\ payStatus[p] # "paid" /\ payStatus'[p] = "paid"
        /\ \A q \in Payments : q # p =>
              \/ payStatus'[q] = payStatus[q]
              \/ payStatus[q] = "pending" /\ payStatus'[q] = "cancelled"
    <2>1. payStatus[p] \in {"absent", "pending", "expired"}
      BY <1>1 DEF LockInv, LockedRows
    <2>2. \A q \in Payments : \/ q = p /\ payStatus'[q] = "paid"
                              \/ q # p /\ payStatus'[q] = payStatus[q]
                              \/ q # p /\ payStatus[q] = "pending"
                                       /\ payStatus'[q] = "cancelled"
      BY CommitValue
    <2> QED BY <1>1, <2>1, <2>2
  <1>4. \A a \in Bookings : \/ bookingStatus'[a] = bookingStatus[a]
                            \/ bookingStatus'[a] \in {"confirmed", "cancelled", "expired"}
    BY DEF BuysBooking, GivesBack
  <1>5. Made'
    <2>1. \A v \in Workers : InFlight(v) => BookingOf[settling[v].pay] \in Bookings
      BY InFlightType DEF InFlight
    <2> QED BY <1>1, <1>2, <1>3, <1>4, <2>1, CoreAssumption DEF Made, InFlight, Idle, TypeOK
  <1>6. LateIsOver'
    BY <1>2, <1>3, <1>4, CoreAssumption DEF LateIsOver, MayBeLate
  <1>7. RevenueStands'
    BY <1>1, <1>3, CoreAssumption DEF RevenueStands, BuysBooking, GivesBack, TypeOK
  <1>8. RefundOfPaid'
    BY <1>3 DEF RefundOfPaid, BuysBooking, GivesBack, TypeOK
  <1>9. LockedIsSettled'
    BY <1>2 DEF LockedIsSettled, Locking, IsManual, Idle
  <1>10. PendingStaysUnsold'
    <2> SUFFICES ASSUME NEW v \in Workers, v # w, ReadAsPending(v), NEW q \in Payments,
                        BookingOf[q] = BookingOf[settling[v].pay]
                 PROVE  ~MayBeLate(q)' /\ q \notin revenue'
      BY <1>2 DEF PendingStaysUnsold, ReadAsPending, Locking, Idle
    <2>1. q # p
      BY <1>1, SettlesAlone
    <2> QED BY <1>2, <1>3, <2>1
            DEF PendingStaysUnsold, MayBeLate, BuysBooking, GivesBack
  <1>11. CancelReadsOwn'
    BY <1>2 DEF CancelReadsOwn, PaymentsOf
  <1>12. PaidIsAccounted'
    BY <1>1, <1>3 DEF PaidIsAccounted, BuysBooking, GivesBack, TypeOK
  <1>13. ConfirmedIsPaid'
    <2> SUFFICES ASSUME NEW a \in Bookings \ WalkIns, bookingStatus'[a] = "confirmed"
                 PROVE  \E q \in PaymentsOf(a) \cap revenue' :
                           payStatus'[q] = "paid" /\ refund'[q] = "none"
      BY DEF ConfirmedIsPaid, PaymentsOf
    <2>1. CASE BuysBooking(w) /\ a = b
      BY <1>1, <1>3, <2>1 DEF BuysBooking, PaymentsOf, RefundOfPaid
    <2>2. CASE bookingStatus[a] = "confirmed"
      <3>1. PICK q \in PaymentsOf(a) \cap revenue : payStatus[q] = "paid" /\ refund[q] = "none"
        BY <2>2 DEF ConfirmedIsPaid
      <3>2. q \in Payments /\ q # p
        BY <1>3, <3>1 DEF PaymentsOf
      <3> QED BY <1>3, <3>1, <3>2 DEF BuysBooking, GivesBack, TypeOK
    <2> QED BY <2>1, <2>2 DEF BuysBooking, GivesBack
  <1> QED BY <1>5, <1>6, <1>7, <1>8, <1>9, <1>10, <1>11, <1>12, <1>13

-----------------------------------------------------------------------------
\* The books of the whole system are balanced in every state.
THEOREM MoneyCorrect == Spec => []MoneyInv
  <1>1. Init => MoneyInv
    BY DEF Init, MoneyInv, Made, LateIsOver, MayBeLate, RevenueStands, RefundOfPaid,
           LockedIsSettled, PendingStaysUnsold, ReadAsPending, Locking, InFlight,
           CancelReadsOwn, NoRead, PaidIsAccounted, ConfirmedIsPaid, Idle, CoreAssumption
  <1>2. TypeOK /\ LockInv /\ OnePendingPayment /\ MoneyInv /\ [Next]_vars => MoneyInv'
    <2> SUFFICES ASSUME TypeOK, LockInv, OnePendingPayment, MoneyInv, [Next]_vars
                 PROVE  MoneyInv'
      OBVIOUS
    <2>1. CASE UNCHANGED vars
      BY <2>1, GatewayKeepsMoney DEF vars, bookingVars, paymentVars, clientVars
    <2>2. CASE BookingStep \/ MaintenanceStep
      BY <2>2, BookingsRestMoney, RestKeepsMoney DEF MoneyInv
    <2>3. ASSUME NEW w \in Workers, SettlementStep(w) PROVE MoneyInv'
      BY <2>3, ReadingKeepsMoney, LockingKeepsMoney, SettleOutcome, CommitKeepsMoney
         DEF SettlementStep
    <2> QED BY <2>1, <2>2, <2>3, PaymentsKeepMoney DEF Next
  <1> QED BY <1>1, <1>2, TypeCorrect, LocksCorrect, OneOpenPayment, PTL DEF Spec

\* Money that came in is a booking's revenue or on its way back, whatever the
\* order of settlements, expiries, cancellations and further attempts.
THEOREM MoneyAccounted == Spec => []PaidIsAccounted
  BY MoneyCorrect, PTL DEF MoneyInv

\* A booking that customers made themselves is confirmed only while a payment
\* of its own is paid, recorded as revenue and not given back.
THEOREM ConfirmedPaid == Spec => []ConfirmedIsPaid
  BY MoneyCorrect, PTL DEF MoneyInv

-----------------------------------------------------------------------------
(* What a step may never do to a booking, and what it must do for money.   *)

\* The payment steps change no booking but the one that J-07 expires.
LEMMA PaymentsMoveBookings ==
    ASSUME TypeOK, PaymentStep, NEW b \in Bookings
    PROVE  \/ bookingStatus'[b] = bookingStatus[b]
           \/ bookingStatus[b] = "pending_payment" /\ bookingStatus'[b] = "expired"
  <1>1. ASSUME NEW p \in Payments, ExpireUnpaid(p)
        PROVE  \/ bookingStatus'[b] = bookingStatus[b]
               \/ bookingStatus[b] = "pending_payment" /\ bookingStatus'[b] = "expired"
    BY <1>1 DEF ExpireUnpaid, TypeOK
  <1> QED BY <1>1 DEF PaymentStep, CheckPayable, GiveUpPaying, InsertPayment,
      PaymentFallsDue, CancelPayment, OpenGateway, GatewayEnds, ReceiveWebhook,
      ProviderEnds, NotFoundAtGateway, WebhookOfPaid, bookingVars

\* How any step may move a booking.
LEMMA EveryBookingMove ==
    ASSUME TypeOK, LockInv, MoneyInv, [Next]_vars, NEW b \in Bookings
    PROVE  \/ bookingStatus'[b] = bookingStatus[b]
           \/ bookingStatus[b] = "absent"
           \/ bookingStatus[b] \in Cancellable /\ bookingStatus'[b] = "cancelled"
           \/ bookingStatus[b] = "pending_payment" /\ bookingStatus'[b] = "expired"
           \/ /\ bookingStatus[b] # "cancelled" /\ bookingStatus'[b] = "confirmed"
              /\ \E p \in PaymentsOf(b) : payStatus[p] # "paid" /\ payStatus'[p] = "paid"
  <1>1. CASE BookingStep \/ MaintenanceStep
    BY <1>1, BookingsRestMoney DEF MoneyInv, MoneyRests, BookingMoves
  <1>2. CASE PaymentStep
    BY <1>2, PaymentsMoveBookings
  <1>3. ASSUME NEW w \in Workers, Commits(w), BuysBooking(w) \/ GivesBack(w),
               bookingStatus'[b] # bookingStatus[b]
        PROVE  \/ bookingStatus[b] = "pending_payment" /\ bookingStatus'[b] = "expired"
               \/ /\ bookingStatus[b] # "cancelled" /\ bookingStatus'[b] = "confirmed"
                  /\ \E p \in PaymentsOf(b) : payStatus[p] # "paid" /\ payStatus'[p] = "paid"
    <2>1. settling[w].pay \in Payments /\ Locking(w)
      BY <1>3, InFlightType DEF Commits, Locking
    <2>2. payStatus[settling[w].pay] # "paid" /\ payStatus'[settling[w].pay] = "paid"
      BY <1>3, <2>1, CommitValue DEF LockInv, LockedRows
    <2>3. CASE BuysBooking(w)
      BY <1>3, <2>1, <2>2, <2>3 DEF BuysBooking, PaymentsOf
    <2>4. CASE GivesBack(w)
      BY <1>3, <2>4 DEF GivesBack
    <2> QED BY <1>3, <2>3, <2>4
  <1>4. ASSUME NEW w \in Workers, SettlementStep(w),
               bookingStatus'[b] # bookingStatus[b]
        PROVE  Commits(w) /\ (BuysBooking(w) \/ GivesBack(w))
    BY <1>4, SettleOutcome DEF SettlementStep, ReadPayment, InsertManual, LockPayment,
       MissPayment, AbortSettlement, bookingVars
  <1>5. CASE UNCHANGED vars
    BY <1>5 DEF vars, bookingVars
  <1> QED BY <1>1, <1>2, <1>3, <1>4, <1>5 DEF Next

\* An expired booking is confirmed only by the step that takes its money.
THEOREM RiseByPayment == Spec => RiseOnlyByPayment
  <1>1. TypeOK /\ LockInv /\ MoneyInv /\ [Next]_vars =>
          [\A b \in Bookings :
             bookingStatus[b] = "expired" /\ bookingStatus'[b] # "expired"
             => /\ bookingStatus'[b] = "confirmed"
                /\ \E p \in PaymentsOf(b) : payStatus[p] # "paid" /\ payStatus'[p] = "paid"
          ]_vars
    BY EveryBookingMove DEF Cancellable
  <1> QED BY <1>1, TypeCorrect, LocksCorrect, MoneyCorrect, PTL DEF Spec, RiseOnlyByPayment

\* No settlement, sweeper or maintenance revives a cancelled booking, and a
\* confirmed one can only be cancelled.
THEOREM CancelledFinal == Spec => CancelledIsFinal
  <1>1. TypeOK /\ LockInv /\ MoneyInv /\ [Next]_vars =>
          [\A b \in Bookings :
             /\ bookingStatus[b] = "cancelled" => bookingStatus'[b] = "cancelled"
             /\ bookingStatus[b] = "confirmed" =>
                   bookingStatus'[b] \in {"confirmed", "cancelled"}]_vars
    BY EveryBookingMove DEF Cancellable
  <1> QED BY <1>1, TypeCorrect, LocksCorrect, MoneyCorrect, PTL DEF Spec, CancelledIsFinal

\* The step that takes money leaves every slot of the booking confirmed, or
\* refunds all of it.
THEOREM PaymentBuysSlots == Spec => PaidBuysSlots
  <1>1. ASSUME TypeOK, RowsInv, [Next]_vars, NEW p \in Payments,
               payStatus[p] # "paid", payStatus'[p] = "paid"
        PROVE  LET b == BookingOf[p]
               IN \/ \A s \in ItemsOf(claims, b) : claims'[b][s] = "confirmed"
                  \/ refund'[p] = "approved" /\ b \notin FreeBookings
    <2> DEFINE b == BookingOf[p]
    <2>1. PICK w \in Workers : SettlementStep(w)
      <3>1. CASE PaymentStep
        BY <1>1, <3>1, PaymentStepCases, InsertValue DEF Ends, TypeOK
      <3> QED BY <1>1, <3>1, QuietPayments DEF Next, vars, paymentVars
    <2>2. Commits(w) /\ settling[w].pay = p
      BY <1>1, <2>1, QuietSettlement, CommitValue
    <2>3. b \in Bookings /\ b \in Owners /\ Locking(w)
      BY <2>2, CoreAssumption, BookingsOwn DEF Commits, Locking
    <2>4. SettleWrites(b)
      BY <1>1, <2>3, SettleValues
    <2>5. CASE SettleConfirm(w)
      BY <2>2, <2>3, <2>4, <2>5
         DEF SettleConfirm, SettleWrites, HeldInFull, HeldSlots, ItemsOf
    <2>6. CASE SettleReclaim(w)
      BY <2>2, <2>3, <2>4, <2>6 DEF SettleReclaim, SettleWrites, ItemsOf
    <2>7. CASE SettleRecover(w)
      <3>1. \A s \in Slots : claims[b][s] \in {"none", "released"}
        <4>1. \A s \in Slots : claims[b][s] \in ClaimStatus
          BY <1>1, <2>3 DEF TypeOK, ClaimTable
        <4> QED BY <1>1, <2>2, <2>3, <2>7, <4>1
                DEF SettleRecover, RowsInv, BookingRows, IsActive, ClaimStatus
      <3> QED BY <2>2, <2>3, <2>4, <2>7, <3>1 DEF SettleRecover, SettleWrites, ItemsOf
    <2>8. CASE SettleLostHold(w) \/ SettleTooLate(w) \/ SettleExtra(w)
      BY <1>1, <2>2, <2>8
         DEF SettleLostHold, SettleTooLate, SettleExtra, RefundPaid, TypeOK
    <2> QED BY <1>1, <2>1, <2>5, <2>6, <2>7, <2>8
            DEF SettlementStep, ReadPayment, InsertManual, LockPayment, MissPayment,
                AbortSettlement, paymentVars
  <1>2. TypeOK /\ RowsInv /\ [Next]_vars =>
          [\A p \in Payments :
             payStatus[p] # "paid" /\ payStatus'[p] = "paid"
             => LET b == BookingOf[p]
                IN \/ \A s \in ItemsOf(claims, b) : claims'[b][s] = "confirmed"
                   \/ refund'[p] = "approved" /\ b \notin FreeBookings]_vars
    BY <1>1
  <1> QED BY <1>2, TypeCorrect, RowsCorrect, PTL DEF Spec, PaidBuysSlots

-----------------------------------------------------------------------------
(* How often a booking is paid, and what becomes of an event of Midtrans.   *)

\* The books name one payment of a booking as its revenue.
OneRevenue ==
    \A p, q \in revenue : BookingOf[p] = BookingOf[q] => p = q

\* The revenue changes only by the record of one payment.
LEMMA RevenueMoves ==
    ASSUME TypeOK, [Next]_vars
    PROVE  revenue' = revenue \/ \E p \in Payments : RecordRevenue(p)
  <1>1. ASSUME NEW w \in Workers, SettlementStep(w), Commits(w)
        PROVE  revenue' = revenue \/ \E p \in Payments : RecordRevenue(p)
    <2>1. settling[w].pay \in Payments
      BY <1>1, InFlightType DEF Commits
    <2> QED BY <1>1, <2>1 DEF SettlementStep, ReadPayment, InsertManual, LockPayment,
               MissPayment, AbortSettlement, SettleConfirm, SettleReclaim, SettleLostHold,
               SettleRecover, SettleTooLate, SettleExtra, RefundPaid, paymentVars
  <1>2. ASSUME NEW w \in Workers, SettlementStep(w), ~Commits(w)
        PROVE  revenue' = revenue
    BY <1>2 DEF SettlementStep, ReadPayment, InsertManual, LockPayment, MissPayment,
       AbortSettlement, SettleConfirm, SettleReclaim, SettleLostHold, SettleRecover,
       SettleTooLate, SettleExtra, Commits, paymentVars
  <1>3. BookingStep \/ MaintenanceStep => revenue' = revenue
    BY DEF BookingStep, MaintenanceStep, CreateBooking, CreateWalkIn, LapseHold,
       ReadForCancel, CancelBooking, SweepHolds, SweepPromos, CreateMaintenance,
       ForceMaintenance, CancelMaintenance, paymentVars
  <1>4. PaymentStep => revenue' = revenue
    BY DEF PaymentStep, CheckPayable, GiveUpPaying, InsertPayment, PaymentFallsDue,
       CancelPayment, ExpireUnpaid, OpenGateway, GatewayEnds, ReceiveWebhook,
       ProviderEnds, NotFoundAtGateway, WebhookOfPaid, paymentVars
  <1> QED BY <1>1, <1>2, <1>3, <1>4 DEF Next, vars, paymentVars

LEMMA RevenueOnce == Spec => []OneRevenue
  <1>1. Init => OneRevenue
    BY DEF Init, OneRevenue
  <1>2. TypeOK /\ OneRevenue /\ [Next]_vars => OneRevenue'
    <2> SUFFICES ASSUME TypeOK, OneRevenue, [Next]_vars PROVE OneRevenue'
      OBVIOUS
    <2>1. ASSUME NEW p \in Payments, RecordRevenue(p) PROVE OneRevenue'
      BY <2>1 DEF OneRevenue, RecordRevenue, PaymentsOf, TypeOK
    <2>2. CASE revenue' = revenue
      BY <2>2 DEF OneRevenue
    <2> QED BY <2>1, <2>2, RevenueMoves
  <1> QED BY <1>1, <1>2, TypeCorrect, PTL DEF Spec

\* Of all the payments that a customer has made for a booking, in whatever
\* order they came in, at most one is kept.
THEOREM ChargedAtMostOnce == Spec => []ChargedOnce
  <1>1. OneRevenue /\ MoneyInv => ChargedOnce
    BY DEF OneRevenue, MoneyInv, PaidIsAccounted, ChargedOnce
  <1> QED BY <1>1, RevenueOnce, MoneyCorrect, PTL

\* A settlement has read a row that exists, and rows are never deleted.
ReadExists ==
    \A w \in Workers : settling[w].stage = "read" => payStatus[settling[w].pay] # "absent"

\* What a step may do to the event of a payment.
LEMMA EventMoves ==
    ASSUME TypeOK, [Next]_vars, NEW p \in Payments, webhook'[p] # webhook[p]
    PROVE  \/ webhook'[p] = "received"
           \/ payStatus'[p] = "paid"
           \/ \E w \in Workers : MissPayment(w) /\ settling[w].pay = p
  <1>1. CASE PaymentStep
    BY <1>1 DEF PaymentStep, CheckPayable, GiveUpPaying, InsertPayment, PaymentFallsDue,
       CancelPayment, ExpireUnpaid, OpenGateway, GatewayEnds, ReceiveWebhook,
       ProviderEnds, NotFoundAtGateway, WebhookOfPaid, paymentVars, TypeOK
  <1>2. CASE BookingStep \/ MaintenanceStep
    BY <1>2 DEF BookingStep, MaintenanceStep, CreateBooking, CreateWalkIn, LapseHold,
       ReadForCancel, CancelBooking, SweepHolds, SweepPromos, CreateMaintenance,
       ForceMaintenance, CancelMaintenance, paymentVars
  <1>3. ASSUME NEW w \in Workers, Commits(w)
        PROVE  payStatus'[p] = "paid"
    <2>1. settling[w].pay = p
      BY <1>3 DEF Commits, CommitPaid, CompleteEvent, TypeOK
    <2> QED BY <1>3, <2>1, CommitValue
  <1>4. ASSUME NEW w \in Workers, SettlementStep(w), ~Commits(w)
        PROVE  MissPayment(w) /\ settling[w].pay = p
    <2>1. MissPayment(w) \/ webhook' = webhook
      BY <1>4 DEF SettlementStep, ReadPayment, InsertManual, LockPayment, AbortSettlement,
         SettleConfirm, SettleReclaim, SettleLostHold, SettleRecover, SettleTooLate,
         SettleExtra, Commits, paymentVars
    <2> QED BY <2>1 DEF MissPayment, CompleteEvent, TypeOK
  <1> QED BY <1>1, <1>2, <1>3, <1>4 DEF Next, vars, paymentVars

LEMMA ReadingStays ==
    ASSUME TypeOK, ReadExists, [Next]_vars
    PROVE  ReadExists'
  <1>1. ASSUME NEW p \in Payments, payStatus[p] # "absent" PROVE payStatus'[p] # "absent"
    BY <1>1, EveryMove DEF Moves
  <1>2. ASSUME NEW w \in Workers, settling'[w].stage = "read"
        PROVE  \/ settling'[w] = settling[w]
               \/ settling'[w].pay \in Payments /\ payStatus[settling'[w].pay] # "absent"
    <2>1. ASSUME NEW v \in Workers, SettlementStep(v), v # w
          PROVE  settling'[w] = settling[w]
      BY <2>1 DEF SettlementStep, ReadPayment, InsertManual, LockPayment, MissPayment,
         AbortSettlement, SettleConfirm, SettleReclaim, SettleLostHold, SettleRecover,
         SettleTooLate, SettleExtra, CommitPaid, TypeOK
    <2>2. CASE SettlementStep(w)
      <3>1. CASE \E p \in Payments, via \in {"webhook", "sync"} : ReadPayment(w, p, via)
        BY <3>1 DEF ReadPayment, TypeOK
      <3>2. CASE LockPayment(w)
        <4>1. settling[w] \in Settlement
          BY <3>2, InFlightType DEF LockPayment
        <4>2. settling'[w].stage = "locked"
          BY <3>2, <4>1 DEF LockPayment, TypeOK, Settlement
        <4> QED BY <1>2, <4>2
      <3>3. CASE \E p \in Payments : InsertManual(w, p)
        BY <1>2, <3>3 DEF InsertManual, TypeOK
      <3> QED BY <1>2, <2>2, <3>1, <3>2, <3>3
              DEF SettlementStep, MissPayment, AbortSettlement, SettleConfirm, SettleReclaim,
                  SettleLostHold, SettleRecover, SettleTooLate, SettleExtra, CommitPaid,
                  TypeOK, Idle
    <2> QED BY <2>1, <2>2, QuietPayments, PaymentStepCases DEF Next, vars, clientVars
  <1>3. ASSUME NEW w \in Workers, settling[w].stage = "read" PROVE settling[w].pay \in Payments
    BY <1>3, InFlightType
  <1> QED BY <1>1, <1>2, <1>3 DEF ReadExists

\* An event of Midtrans is completed only for a payment that waits no more,
\* also when its settlement has missed the row it had read.
THEOREM NoticeSpentOnce == Spec => []NoticeNotWasted
  <1> DEFINE NoticeInv == NoticeNotWasted /\ ReadExists
  <1>1. Init => NoticeInv
    BY DEF Init, NoticeNotWasted, ReadExists, Idle
  <1>2. TypeOK /\ NoticeInv /\ [Next]_vars => NoticeInv'
    <2> SUFFICES ASSUME TypeOK, NoticeNotWasted, ReadExists, [Next]_vars,
                        NEW p \in Payments, webhook'[p] = "processed"
                 PROVE  payStatus'[p] \notin {"absent", "pending"}
      BY ReadingStays DEF NoticeNotWasted
    <2>1. ASSUME payStatus[p] \notin {"absent", "pending"}
          PROVE  payStatus'[p] \notin {"absent", "pending"}
      BY <2>1, EveryMove DEF Moves
    <2>2. CASE webhook'[p] = webhook[p]
      BY <2>1, <2>2 DEF NoticeNotWasted
    <2>3. ASSUME NEW w \in Workers, MissPayment(w), settling[w].pay = p
          PROVE  payStatus[p] \notin {"absent", "pending"}
      BY <2>3 DEF MissPayment, Markable, ReadExists
    <2> QED BY <2>1, <2>2, <2>3, EventMoves
  <1>3. NoticeInv => NoticeNotWasted
    OBVIOUS
  <1> QED BY <1>1, <1>2, <1>3, TypeCorrect, PTL DEF Spec

-----------------------------------------------------------------------------
(* How a booking may lose a confirmed slot.  The one settlement that        *)
(* releases rows finds none confirmed unless its booking was cancelled      *)
(* after it was read: a booking confirmed since then would have been bought *)
(* by another payment (PendingStaysUnsold), and a walk-in is never pending. *)

\* What staff sell at the counter never waits for a payment.
CounterSales ==
    /\ \A b \in WalkIns : bookingStatus[b] # "pending_payment"
    /\ \A w \in Workers : ReadAsPending(w) => BookingOf[settling[w].pay] \notin WalkIns

\* A settlement that takes its locks reads the status that its booking has.
LEMMA LocksReadNow ==
    ASSUME TypeOK, [Next]_vars, NEW w \in Workers
    PROVE  \/ settling'[w] = settling[w]
           \/ settling'[w].stage # "locked"
           \/ /\ settling'[w].pay \in Payments
              /\ settling'[w].bkRead = bookingStatus[BookingOf[settling'[w].pay]]
  <1> DEFINE Goal == \/ settling'[w] = settling[w]
                     \/ settling'[w].stage # "locked"
                     \/ /\ settling'[w].pay \in Payments
                        /\ settling'[w].bkRead = bookingStatus[BookingOf[settling'[w].pay]]
  <1>1. CASE UNCHANGED settling
    BY <1>1
  <1>2. ASSUME NEW v \in Workers, NEW p \in Payments, NEW via, ReadPayment(v, p, via)
        PROVE  Goal
    BY <1>2 DEF ReadPayment, TypeOK
  <1>3. ASSUME NEW v \in Workers, NEW p \in Payments, InsertManual(v, p)
        PROVE  Goal
    BY <1>3 DEF InsertManual, TypeOK
  <1>4. ASSUME NEW v \in Workers, LockPayment(v)
        PROVE  Goal
    <2>1. settling[v] \in Settlement /\ settling[v].pay \in Payments
      BY <1>4, InFlightType DEF LockPayment
    <2> QED BY <1>4, <2>1 DEF LockPayment, Settlement, TypeOK
  <1>5. ASSUME NEW v \in Workers, MissPayment(v) \/ AbortSettlement(v) \/ CommitPaid(v)
        PROVE  Goal
    BY <1>5 DEF MissPayment, AbortSettlement, CommitPaid, Idle, TypeOK
  <1>6. CASE BookingStep \/ MaintenanceStep \/ PaymentStep
    BY <1>1, <1>6, QuietPayments, PaymentStepCases
  <1>7. ASSUME NEW v \in Workers, SettlementStep(v) PROVE Goal
    BY <1>2, <1>3, <1>4, <1>5, <1>7 DEF SettlementStep, SettleConfirm, SettleReclaim,
       SettleLostHold, SettleRecover, SettleTooLate, SettleExtra
  <1> QED BY <1>1, <1>6, <1>7 DEF Next, vars, clientVars

\* CounterSales holds in every state.
LEMMA CounterSalesPaid == Spec => []CounterSales
  <1>1. Init => CounterSales
    BY CoreAssumption DEF Init, CounterSales, ReadAsPending, Locking, Idle
  <1>2. TypeOK /\ LockInv /\ MoneyInv /\ CounterSales /\ [Next]_vars => CounterSales'
    <2> SUFFICES ASSUME TypeOK, LockInv, MoneyInv, CounterSales, [Next]_vars
                 PROVE  CounterSales'
      OBVIOUS
    <2>1. ASSUME NEW b \in WalkIns PROVE bookingStatus'[b] # "pending_payment"
      <3>1. b \in Bookings /\ bookingStatus[b] # "pending_payment"
        BY CoreAssumption DEF CounterSales
      <3>2. CASE BookingStep \/ MaintenanceStep
        BY <2>1, <3>1, <3>2, BookingsRestMoney DEF MoneyInv, MoneyRests, BookingMoves
      <3>3. CASE PaymentStep
        BY <3>1, <3>3, PaymentsMoveBookings
      <3>4. ASSUME NEW w \in Workers, SettlementStep(w)
            PROVE  bookingStatus'[b] # "pending_payment"
        BY <3>1, <3>4, SettleOutcome
           DEF BuysBooking, GivesBack, SettlementStep, ReadPayment, InsertManual,
               LockPayment, MissPayment, AbortSettlement, bookingVars
      <3>5. CASE UNCHANGED vars
        BY <3>1, <3>5 DEF vars, bookingVars
      <3> QED BY <3>2, <3>3, <3>4, <3>5 DEF Next
    <2>2. ASSUME NEW w \in Workers, ReadAsPending(w)'
          PROVE  BookingOf[settling'[w].pay] \notin WalkIns
      BY <2>2, LocksReadNow DEF CounterSales, ReadAsPending, Locking
    <2> QED BY <2>1, <2>2 DEF CounterSales
  <1> QED BY <1>1, <1>2, TypeCorrect, LocksCorrect, MoneyCorrect, PTL DEF Spec

\* What ConfirmedLostKnowingly says of one step, one booking and one slot.
LostKnowingly(b, s) ==
    claims[b][s] = "confirmed" /\ claims'[b][s] # "confirmed"
    => \/ bookingStatus'[b] = "cancelled"
       \/ \E p \in PaymentsOf(b) : payStatus[p] = "pending" /\ payStatus'[p] = "expired"

\* No booking or sweep takes a confirmed slot, but the cancellation of its own.
LEMMA BookingsLoseKnowingly ==
    ASSUME TypeOK, RowsInv, BookingStep, NEW b \in Bookings, NEW s \in Slots
    PROVE  LostKnowingly(b, s)
  <1> USE DEF LostKnowingly
  <1>1. b \in Owners
    BY BookingsOwn
  <1>2. ASSUME NEW a \in Bookings, NEW S \in SUBSET Slots, NEW st \in ClaimStatus,
               ClaimNew(a, S, st), bookingStatus[a] = "absent"
        PROVE  LostKnowingly(b, s)
    BY <1>1, <1>2, ClaimNewRows, BookingsOwn DEF RowsInv, BookingRows
  <1>3. ASSUME NEW a \in Bookings, NEW S \in SUBSET Slots, NEW promo \in BOOLEAN,
               CreateBooking(a, S, promo) \/ CreateWalkIn(a, S, promo)
        PROVE  LostKnowingly(b, s)
    BY <1>2, <1>3 DEF CreateBooking, CreateWalkIn, ClaimStatus
  <1>4. ASSUME NEW a \in Bookings, CancelBooking(a) PROVE LostKnowingly(b, s)
    <2>1. CASE a = b
      BY <1>4, <2>1 DEF CancelBooking, TypeOK
    <2>2. CASE a # b
      BY <1>1, <1>4, <2>2, OwnerStatementsValue, BookingsOwn DEF CancelBooking, TypeOK
    <2> QED BY <2>1, <2>2
  <1>5. CASE SweepHolds
    BY <1>1, <1>5, ReleaseExpiredValue DEF SweepHolds, TypeOK
  <1> QED BY <1>3, <1>4, <1>5 DEF BookingStep, LapseHold, ReadForCancel, SweepPromos

\* No maintenance takes one, but by force, and force cancels the booking.
LEMMA MaintenanceTakesKnowingly ==
    ASSUME TypeOK, RowsInv, MaintenanceStep, NEW b \in Bookings, NEW s \in Slots
    PROVE  LostKnowingly(b, s)
  <1> USE DEF LostKnowingly
  <1>1. b \in Owners /\ b \notin Maintenances
    BY BookingsOwn, OwnersDisjoint
  <1>2. ASSUME NEW m \in Maintenances, NEW S \in SUBSET Slots, CreateMaintenance(m, S)
        PROVE  LostKnowingly(b, s)
    BY <1>1, <1>2, ClaimNewRows, BookingsOwn DEF CreateMaintenance, ClaimStatus
  <1>3. ASSUME NEW m \in Maintenances, NEW S \in SUBSET Slots, ForceMaintenance(m, S),
               claims[b][s] = "confirmed", claims'[b][s] # "confirmed"
        PROVE  bookingStatus'[b] = "cancelled"
    <2> DEFINE free == ReleaseConflicts(claims, S)
    <2>1. free \in ClaimTable
      BY ReleaseConflictsType DEF TypeOK
    <2>2. claims'[b][s] = IF s \in S /\ IsActive(claims[b][s])
                          THEN "released" ELSE claims[b][s]
      BY <1>1, <1>3, <2>1, OwnerStatementsValue, ReleaseConflictsValue, BookingsOwn
         DEF ForceMaintenance, TypeOK, ClaimStatus
    <2>3. b \in Conflicts(claims, S)
      BY <1>1, <1>3, <2>2 DEF Conflicts, ActiveSlots
    <2>4. bookingStatus[b] \in {"confirmed", "cancelled"}
      BY <1>3 DEF RowsInv, BookingRows, TypeOK, BookingStatus, IsActive
    <2> QED BY <1>3, <2>3, <2>4 DEF ForceMaintenance, Cancellable
  <1>4. ASSUME NEW m \in Maintenances, CancelMaintenance(m) PROVE LostKnowingly(b, s)
    BY <1>1, <1>4, OwnerStatementsValue, BookingsOwn DEF CancelMaintenance, TypeOK
  <1> QED BY <1>2, <1>3, <1>4 DEF MaintenanceStep

\* Of the payments only J-07 takes one, with the payment that it expires.
LEMMA PaymentsLoseKnowingly ==
    ASSUME TypeOK, PaymentStep, NEW b \in Bookings, NEW s \in Slots
    PROVE  LostKnowingly(b, s)
  <1> USE DEF LostKnowingly
  <1>1. ASSUME NEW p \in Payments, ExpireUnpaid(p) PROVE LostKnowingly(b, s)
    <2>1. BookingOf[p] \in Owners /\ b \in Owners
      BY CoreAssumption, BookingsOwn
    <2>2. payStatus[p] = "pending" /\ payStatus'[p] = "expired"
      BY <1>1 DEF ExpireUnpaid, TypeOK
    <2>3. claims'[b][s] = IF b = BookingOf[p] /\ IsActive(claims[b][s])
                          THEN "released" ELSE claims[b][s]
      BY <1>1, <2>1, OwnerStatementsValue DEF ExpireUnpaid, TypeOK
    <2> QED BY <2>2, <2>3 DEF PaymentsOf
  <1> QED BY <1>1 DEF PaymentStep, CheckPayable, GiveUpPaying, InsertPayment,
      PaymentFallsDue, CancelPayment, OpenGateway, GatewayEnds, ReceiveWebhook,
      ProviderEnds, NotFoundAtGateway, WebhookOfPaid

\* A settlement releases a confirmed slot only of a booking cancelled since.
LEMMA SettlementsLoseKnowingly ==
    ASSUME TypeOK, RowsInv, MoneyInv, CounterSales, NEW w \in Workers, SettlementStep(w),
           NEW b \in Bookings, NEW s \in Slots
    PROVE  LostKnowingly(b, s)
  <1> USE DEF LostKnowingly
  <1> DEFINE a == BookingOf[settling[w].pay]
  <1>1. ASSUME settling[w].stage = "locked"
        PROVE  a \in Bookings /\ b \in Owners /\ SettleWrites(a)
    BY <1>1, InFlightType, SettleValues, BookingsOwn
  <1>2. CASE SettleConfirm(w)
    BY <1>1, <1>2 DEF SettleConfirm, SettleWrites
  <1>3. CASE SettleReclaim(w)
    BY <1>1, <1>3 DEF SettleReclaim, SettleWrites
  <1>4. CASE SettleRecover(w)
    BY <1>1, <1>4 DEF SettleRecover, SettleWrites
  <1>5. ASSUME SettleLostHold(w), claims[b][s] = "confirmed", claims'[b][s] # "confirmed"
        PROVE  bookingStatus'[b] = "cancelled"
    <2>1. ReadAsPending(w) /\ a \in Bookings /\ b \in Owners /\ SettleWrites(a)
      BY <1>1, <1>5 DEF SettleLostHold, ReadAsPending, Locking
    <2>2. a = b
      BY <1>5, <2>1 DEF SettleLostHold, SettleWrites
    <2>3. bookingStatus[b] \in {"confirmed", "cancelled"}
      BY <1>5 DEF RowsInv, BookingRows, TypeOK, BookingStatus, IsActive
    <2>4. bookingStatus[b] # "confirmed"
      BY <2>1, <2>2 DEF CounterSales, MoneyInv, ConfirmedIsPaid, PendingStaysUnsold,
                        PaymentsOf
    <2> QED BY <1>5, <2>2, <2>3, <2>4 DEF SettleLostHold
  <1>6. CASE SettleTooLate(w) \/ SettleExtra(w)
    BY <1>6 DEF SettleTooLate, SettleExtra
  <1> QED BY <1>2, <1>3, <1>4, <1>5, <1>6 DEF SettlementStep, ReadPayment, InsertManual,
      LockPayment, MissPayment, AbortSettlement

\* A confirmed slot is lost only with the booking, by a cancellation, or to
\* J-07 expiring a payment of that booking: never to a takeover, a sweeper, a
\* settlement of its own or of another booking.
THEOREM ConfirmedKept == Spec => ConfirmedLostKnowingly
  <1>1. ASSUME TypeOK, RowsInv, MoneyInv, CounterSales, [Next]_vars,
               NEW b \in Bookings, NEW s \in Slots
        PROVE  LostKnowingly(b, s)
    <2>1. CASE UNCHANGED vars
      BY <2>1 DEF vars, LostKnowingly
    <2> QED BY <1>1, <2>1, BookingsLoseKnowingly, MaintenanceTakesKnowingly,
               PaymentsLoseKnowingly, SettlementsLoseKnowingly DEF Next
  <1>2. TypeOK /\ RowsInv /\ MoneyInv /\ CounterSales /\ [Next]_vars =>
          [\A b \in Bookings, s \in Slots :
             claims[b][s] = "confirmed" /\ claims'[b][s] # "confirmed"
             => \/ bookingStatus'[b] = "cancelled"
                \/ \E p \in PaymentsOf(b) :
                      payStatus[p] = "pending" /\ payStatus'[p] = "expired"]_vars
    BY <1>1 DEF LostKnowingly
  <1> QED BY <1>2, TypeCorrect, RowsCorrect, MoneyCorrect, CounterSalesPaid, PTL
          DEF Spec, ConfirmedLostKnowingly
=============================================================================
