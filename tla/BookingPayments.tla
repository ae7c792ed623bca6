-------------------------- MODULE BookingPayments --------------------------
(***************************************************************************)
(* The life of a booking from hold to settlement: the modules bookings,    *)
(* slots, payments and promos of apps/api, the court maintenance that      *)
(* competes with them for slots, and the jobs J-01, J-06, J-07 and J-09.   *)
(*                                                                         *)
(* PostgreSQL runs READ COMMITTED.  A transaction is one action wherever   *)
(* its row locks or the guards of its own UPDATEs make it equivalent to    *)
(* one; it is several where the code reads a row and acts on the value     *)
(* after others may have changed it:                                       *)
(*                                                                         *)
(*   createPayment   booking status checked under the per-booking advisory *)
(*                   lock (CheckPayable), payment row inserted later;      *)
(*   settlement      payment row read (stage "read"), then updated and the *)
(*                   booking row read (stage "locked"), then the rest;     *)
(*   cancelBooking   booking and payment read before the transaction.      *)
(*                                                                         *)
(* Nothing a transaction wrote is visible before it commits, so the writes *)
(* of a settlement all happen in its last action; stage "locked" only      *)
(* keeps the payment row locked.  Rejected requests change nothing and are *)
(* absent: an action is enabled when the code would commit.                *)
(***************************************************************************)
EXTENDS SlotClaims, Integers

CONSTANTS
    Payments,     \* payment attempts that may be made
    BookingOf,    \* the booking each attempt is for
    Customers,
    CustomerOf,   \* who makes each booking; a guest is a customer of his own
    WalkIns,      \* bookings that staff make at the counter, paid on the spot
    FreeBookings, \* bookings whose total is 0
    Workers,      \* settlement transactions that may be in flight together
    MaxPending,   \* MAX_PENDING_PAYMENT_BOOKINGS_PER_CUSTOMER
    PromoQuota,   \* quota_total of the promo
    RefundOwed    \* the refund policy's verdicts explored: is a refund owed?

ASSUME CoreAssumption ==
    /\ IsFiniteSet(Bookings)
    /\ BookingOf \in [Payments -> Bookings]
    /\ CustomerOf \in [Bookings -> Customers]
    /\ WalkIns \subseteq Bookings
    /\ FreeBookings \subseteq Bookings
    /\ MaxPending \in Nat \ {0}
    /\ PromoQuota \in Nat
    /\ RefundOwed \subseteq BOOLEAN

VARIABLES
    claims,        \* the table slot_claims
    bookingStatus,
    holdLapsed,    \* bookings whose hold_expires_at is in the past
    redemption,    \* promo_redemptions.status of each booking
    quotaUsed,     \* promos.quota_used
    payStatus,
    payDue,        \* payments whose expires_at is in the past
    gateway,       \* Midtrans: its transaction for each payment
    webhook,       \* payment_webhook_events: the settlement event
    refund,        \* refunds.status of each payment
    revenue,       \* payments named by a revenue finance event
    maintenance,   \* court_maintenances.status
    paying,        \* bookings whose payment advisory lock is held
    settling,      \* the settlement transaction of each worker
    cancelRead     \* what cancelBooking read before its transaction

bookingVars == <<bookingStatus, holdLapsed, redemption, quotaUsed>>
paymentVars == <<payStatus, payDue, gateway, webhook, refund, revenue>>
clientVars  == <<paying, settling, cancelRead>>
vars == <<claims, bookingVars, paymentVars, maintenance, clientVars>>

BookingStatus ==
    {"absent", "pending_payment", "confirmed", "cancelled", "expired"}

\* Faulty: an expired booking can be cancelled too.
CancellableOrExpired == {"pending_payment", "confirmed", "expired"}
Cancellable == {"pending_payment", "confirmed"}

\* Faulty: the recovery of a booking does not look at its status.
RecoverableAny == BookingStatus
\* What the settlement of a lost hold may still confirm.
Recoverable == {"pending_payment", "expired"}

RedemptionStatus == {"none", "reserved", "applied", "released"}
PaymentStatus ==
    {"absent", "pending", "paid", "expired", "failed", "cancelled"}
GatewayStatus == {"none", "requested", "open", "settled", "closed"}

Idle == [stage |-> "idle"]
Settlement ==
    [stage : {"read", "locked"}, via : {"webhook", "sync", "manual"},
     pay : Payments, payRead : {"pending", "expired"},
     bkRead : BookingStatus]

NoRead == [kind |-> "none", refund |-> {}]
CancelRead == [kind : {"none", "unpaid", "paid"}, refund : SUBSET Payments]

TypeOK ==
    /\ claims \in ClaimTable
    /\ bookingStatus \in [Bookings -> BookingStatus]
    /\ holdLapsed \subseteq Bookings
    /\ redemption \in [Bookings -> RedemptionStatus]
    /\ quotaUsed \in Nat
    /\ payStatus \in [Payments -> PaymentStatus]
    /\ payDue \subseteq Payments
    /\ gateway \in [Payments -> GatewayStatus]
    /\ webhook \in [Payments -> {"none", "received", "processed"}]
    /\ refund \in [Payments -> {"none", "requested", "approved"}]
    /\ revenue \subseteq Payments
    /\ maintenance \in [Maintenances -> {"absent", "active", "cancelled"}]
    /\ paying \subseteq Bookings
    /\ settling \in [Workers -> {Idle} \cup Settlement]
    /\ cancelRead \in [Bookings -> CancelRead]

Init ==
    /\ claims = NoClaims
    /\ bookingStatus = [b \in Bookings |-> "absent"]
    /\ holdLapsed = {}
    /\ redemption = [b \in Bookings |-> "none"]
    /\ quotaUsed = 0
    /\ payStatus = [p \in Payments |-> "absent"]
    /\ payDue = {}
    /\ gateway = [p \in Payments |-> "none"]
    /\ webhook = [p \in Payments |-> "none"]
    /\ refund = [p \in Payments |-> "none"]
    /\ revenue = {}
    /\ maintenance = [m \in Maintenances |-> "absent"]
    /\ paying = {}
    /\ settling = [w \in Workers |-> Idle]
    /\ cancelRead = [b \in Bookings |-> NoRead]

-----------------------------------------------------------------------------
(* What the guards and the updates are made of. *)

PaymentsOf(b) == {p \in Payments : BookingOf[p] = b}
PendingOf(b)  == {p \in PaymentsOf(b) : payStatus[p] = "pending"}
PaidOf(b)     == {p \in PaymentsOf(b) : payStatus[p] = "paid"}

PendingBookings(cu) ==
    {b \in Bookings : CustomerOf[b] = cu /\ bookingStatus[b] = "pending_payment"}

InFlight(w) == settling[w].stage # "idle"
Locking(w)  == settling[w].stage = "locked"
\* A manual payment's transaction, from its insert to its commit.
ManualFor(b) ==
    \E w \in Workers : /\ Locking(w)
                       /\ settling[w].via = "manual"
                       /\ BookingOf[settling[w].pay] = b

\* The payment rows that an uncommitted transaction has updated: the one it
\* settles and, for a manual payment, those it supersedes.
RowLocked(p) ==
    \/ \E w \in Workers : Locking(w) /\ settling[w].pay = p
    \/ ManualFor(BookingOf[p]) /\ payStatus[p] = "pending"

\* Reserved redemptions of the bookings B go back to the promo's quota.
ReservedOf(B) == {b \in B : redemption[b] = "reserved"}
ReleasePromos(B) ==
    /\ redemption' = [b \in Bookings |->
           IF b \in ReservedOf(B) THEN "released" ELSE redemption[b]]
    /\ quotaUsed' = IF Cardinality(ReservedOf(B)) > quotaUsed THEN 0
                    ELSE quotaUsed - Cardinality(ReservedOf(B))
ApplyPromo(b) ==
    /\ redemption' = IF redemption[b] = "reserved"
                     THEN [redemption EXCEPT ![b] = "applied"] ELSE redemption
    /\ UNCHANGED quotaUsed

\* createRefundInScope accepts a refund of the full amount of p.
MayRefund(p) ==
    payStatus[p] = "paid" /\ refund[p] # "approved" /\ BookingOf[p] \notin FreeBookings

-----------------------------------------------------------------------------
(* createBooking: takeover of lapsed holds on the slots, then the insert.  *)
(* A promo that has no quota left is dropped and the booking still made.   *)

\* Faulty: one redemption more than the quota.
ReserveOneMore(b, wanted, st) ==
    IF wanted /\ quotaUsed <= PromoQuota
    THEN /\ redemption' = [redemption EXCEPT ![b] = st]
         /\ quotaUsed' = quotaUsed + 1
    ELSE UNCHANGED <<redemption, quotaUsed>>

ReservePromo(b, wanted, st) ==
    IF wanted /\ quotaUsed < PromoQuota
    THEN /\ redemption' = [redemption EXCEPT ![b] = st]
         /\ quotaUsed' = quotaUsed + 1
    ELSE UNCHANGED <<redemption, quotaUsed>>

ClaimNew(o, S, st) ==
    LET free == ReleaseExpired(claims, S, holdLapsed)
    IN /\ S # {}
       /\ CanInsert(free, S)
       /\ claims' = InsertClaims(free, o, S, st)

CreateBooking(b, S, promo) ==
    /\ bookingStatus[b] = "absent"
    /\ b \notin WalkIns
    /\ Cardinality(PendingBookings(CustomerOf[b])) < MaxPending
    /\ ClaimNew(b, S, "held")
    /\ bookingStatus' = [bookingStatus EXCEPT ![b] = "pending_payment"]
    /\ ReservePromo(b, promo, "reserved")
    /\ UNCHANGED <<holdLapsed, paymentVars, maintenance, clientVars>>

CreateWalkIn(b, S, promo) ==
    /\ bookingStatus[b] = "absent"
    /\ b \in WalkIns
    /\ ClaimNew(b, S, "confirmed")
    /\ bookingStatus' = [bookingStatus EXCEPT ![b] = "confirmed"]
    /\ ReservePromo(b, promo, "applied")
    /\ UNCHANGED <<holdLapsed, paymentVars, maintenance, clientVars>>

\* The hold runs out; the promo's reserved_until is the same instant.
LapseHold(b) ==
    /\ b \notin holdLapsed
    /\ bookingStatus[b] = "pending_payment" \/ redemption[b] = "reserved"
    /\ holdLapsed' = holdLapsed \cup {b}
    /\ UNCHANGED <<claims, bookingStatus, redemption, quotaUsed, paymentVars,
                   maintenance, clientVars>>

\* J-01, every minute.
SweepHolds ==
    /\ \/ \E b \in holdLapsed : bookingStatus[b] = "pending_payment"
       \/ \E b \in holdLapsed : HeldSlots(claims, b) # {}
    /\ claims' = ReleaseExpired(claims, Slots, holdLapsed)
    /\ bookingStatus' = [b \in Bookings |->
           IF b \in holdLapsed /\ bookingStatus[b] = "pending_payment"
           THEN "expired" ELSE bookingStatus[b]]
    /\ UNCHANGED <<holdLapsed, redemption, quotaUsed, paymentVars,
                   maintenance, clientVars>>

\* J-09, every minute.
SweepPromos ==
    /\ ReservedOf(holdLapsed) # {}
    /\ ReleasePromos(holdLapsed)
    /\ UNCHANGED <<claims, bookingStatus, holdLapsed, paymentVars,
                   maintenance, clientVars>>

-----------------------------------------------------------------------------
(* cancelBooking: the status, the paid payment and the refund owed are     *)
(* read first; the transaction cancels whatever is cancellable then.       *)

ReadForCancel(b) ==
    /\ \/ /\ bookingStatus[b] = "pending_payment"
          /\ cancelRead' = [cancelRead EXCEPT ![b] = [kind |-> "unpaid", refund |-> {}]]
       \/ /\ bookingStatus[b] = "confirmed"
          /\ \E p \in PaidOf(b), owed \in RefundOwed :
                cancelRead' = [cancelRead EXCEPT ![b] =
                    [kind |-> "paid",
                     refund |-> IF owed /\ b \notin FreeBookings THEN {p} ELSE {}]]
    /\ cancelRead' # cancelRead
    /\ UNCHANGED <<claims, bookingVars, paymentVars, maintenance, paying, settling>>

CancelBooking(b) ==
    /\ cancelRead[b].kind # "none"
    /\ bookingStatus[b] \in Cancellable
    /\ \A p \in cancelRead[b].refund : MayRefund(p)
    /\ bookingStatus' = [bookingStatus EXCEPT ![b] = "cancelled"]
    /\ claims' = ReleaseByOwner(claims, b)
    /\ ReleasePromos({b})
    /\ refund' = [p \in Payments |->
           IF p \in cancelRead[b].refund THEN "requested" ELSE refund[p]]
    /\ cancelRead' = [cancelRead EXCEPT ![b] = NoRead]
    /\ UNCHANGED <<holdLapsed, payStatus, payDue, gateway, webhook, revenue,
                   maintenance, paying, settling>>

-----------------------------------------------------------------------------
(* Court maintenance claims slots directly.  With force it first releases  *)
(* the conflicting claims, cancels their bookings and refunds in full the  *)
(* latest paid payment of each; the latest of several may be any of them.  *)

CreateMaintenance(m, S) ==
    /\ maintenance[m] = "absent"
    /\ ClaimNew(m, S, "confirmed")
    /\ maintenance' = [maintenance EXCEPT ![m] = "active"]
    /\ UNCHANGED <<bookingVars, paymentVars, clientVars>>

\* Faulty: a maintenance may be overridden too.
AnyOwner(hit) == hit \subseteq Owners
\* Only claims of bookings give way to force.
Overridable(hit) == hit \subseteq Bookings

ForceMaintenance(m, S) ==
    LET hit       == Conflicts(claims, S)
        cancelled == {b \in hit \cap Bookings : bookingStatus[b] \in Cancellable}
        free      == ReleaseConflicts(claims, S)
    IN /\ maintenance[m] = "absent"
       /\ S # {}
       /\ hit # {} /\ Overridable(hit)
       /\ \E latest \in [cancelled -> SUBSET Payments] :
             /\ \A b \in cancelled :
                   IF PaidOf(b) = {} THEN latest[b] = {}
                   ELSE \E p \in PaidOf(b) : latest[b] = {p} /\ MayRefund(p)
             /\ refund' = [p \in Payments |->
                    IF \E b \in cancelled : p \in latest[b]
                    THEN "approved" ELSE refund[p]]
       /\ bookingStatus' = [b \in Bookings |->
              IF b \in cancelled THEN "cancelled" ELSE bookingStatus[b]]
       /\ ReleasePromos(cancelled)
       /\ claims' = InsertClaims(free, m, S, "confirmed")
       /\ maintenance' = [maintenance EXCEPT ![m] = "active"]
       /\ UNCHANGED <<holdLapsed, payStatus, payDue, gateway, webhook, revenue,
                      clientVars>>

CancelMaintenance(m) ==
    /\ maintenance[m] = "active"
    /\ maintenance' = [maintenance EXCEPT ![m] = "cancelled"]
    /\ claims' = ReleaseByOwner(claims, m)
    /\ UNCHANGED <<bookingVars, paymentVars, clientVars>>

-----------------------------------------------------------------------------
(* createPayment and createManualPayment hold the booking's advisory lock  *)
(* from the check of its status to their commit.                           *)

CheckPayable(b) ==
    /\ b \notin paying
    /\ bookingStatus[b] = "pending_payment"
    /\ paying' = paying \cup {b}
    /\ UNCHANGED <<claims, bookingVars, paymentVars, maintenance, settling, cancelRead>>

GiveUpPaying(b) ==
    /\ b \in paying
    /\ ~ManualFor(b)
    /\ paying' = paying \ {b}
    /\ UNCHANGED <<claims, bookingVars, paymentVars, maintenance, settling, cancelRead>>

\* Faulty: what is pending stays pending.
KeepPending(b) == payStatus
\* Faulty: the failure reason is written as the status.
WriteReason(b) ==
    [q \in Payments |-> IF q \in PendingOf(b) THEN "superseded" ELSE payStatus[q]]

\* cancelPendingBookingPayments: what is pending for b gives way to p.
Supersede(b) ==
    [q \in Payments |-> IF q \in PendingOf(b) THEN "cancelled" ELSE payStatus[q]]

InsertPayment(p) ==
    LET b == BookingOf[p]
    IN /\ b \in paying
       /\ ~ManualFor(b)
       /\ b \notin FreeBookings
       /\ payStatus[p] = "absent"
       /\ \A q \in PendingOf(b) : ~RowLocked(q)
       /\ payStatus' = [Supersede(b) EXCEPT ![p] = "pending"]
       /\ gateway' = [gateway EXCEPT ![p] = "requested"]
       /\ paying' = paying \ {b}
       /\ UNCHANGED <<claims, bookingVars, payDue, webhook, refund, revenue,
                      maintenance, settling, cancelRead>>

\* A manual payment, or a payment of 0, is settled by the transaction that
\* inserts it: it goes straight to stage "locked", its row still invisible.
InsertManual(w, p) ==
    LET b == BookingOf[p]
    IN /\ ~InFlight(w)
       /\ b \in paying
       /\ ~ManualFor(b)
       /\ payStatus[p] = "absent"
       /\ \A q \in PendingOf(b) : ~RowLocked(q)
       /\ settling' = [settling EXCEPT ![w] =
              [stage |-> "locked", via |-> "manual", pay |-> p,
               payRead |-> "pending", bkRead |-> bookingStatus[b]]]
       /\ UNCHANGED <<claims, bookingVars, paymentVars, maintenance, paying, cancelRead>>

PaymentFallsDue(p) ==
    /\ payStatus[p] = "pending"
    /\ p \notin payDue
    /\ payDue' = payDue \cup {p}
    /\ UNCHANGED <<claims, bookingVars, payStatus, gateway, webhook, refund, revenue,
                   maintenance, clientVars>>

CancelPayment(p) ==
    /\ payStatus[p] = "pending"
    /\ ~RowLocked(p)
    /\ payStatus' = [payStatus EXCEPT ![p] = "cancelled"]
    /\ UNCHANGED <<claims, bookingVars, payDue, gateway, webhook, refund, revenue,
                   maintenance, clientVars>>

\* J-07: expires the payment, and with it the booking, all its claims and
\* its promo; only the payment's own status is a condition.
ExpireUnpaid(p) ==
    LET b == BookingOf[p]
    IN /\ payStatus[p] = "pending"
       /\ p \in payDue
       /\ ~RowLocked(p)
       /\ payStatus' = [payStatus EXCEPT ![p] = "expired"]
       /\ bookingStatus' = IF bookingStatus[b] = "pending_payment"
                           THEN [bookingStatus EXCEPT ![b] = "expired"]
                           ELSE bookingStatus
       /\ claims' = ReleaseByOwner(claims, b)
       /\ ReleasePromos({b})
       /\ UNCHANGED <<holdLapsed, payDue, gateway, webhook, refund, revenue,
                      maintenance, clientVars>>

-----------------------------------------------------------------------------
(* Midtrans, and what the API learns from it. *)

OpenGateway(p) ==
    /\ gateway[p] = "requested"
    /\ gateway' = [gateway EXCEPT ![p] = "open"]
    /\ UNCHANGED <<claims, bookingVars, payStatus, payDue, webhook, refund, revenue,
                   maintenance, clientVars>>

GatewayEnds(p, st) ==
    /\ gateway[p] = "open"
    /\ gateway' = [gateway EXCEPT ![p] = st]
    /\ UNCHANGED <<claims, bookingVars, payStatus, payDue, webhook, refund, revenue,
                   maintenance, clientVars>>

\* receiveMidtransWebhook; a redelivery finds the event and adds nothing.
ReceiveWebhook(p) ==
    /\ gateway[p] = "settled"
    /\ webhook[p] = "none"
    /\ webhook' = [webhook EXCEPT ![p] = "received"]
    /\ UNCHANGED <<claims, bookingVars, payStatus, payDue, gateway, refund, revenue,
                   maintenance, clientVars>>

\* The gateway reports that the transaction ended unpaid.
ProviderEnds(p, st) ==
    /\ gateway[p] = "closed"
    /\ payStatus[p] = "pending"
    /\ ~RowLocked(p)
    /\ payStatus' = [payStatus EXCEPT ![p] = st]
    /\ UNCHANGED <<claims, bookingVars, payDue, gateway, webhook, refund, revenue,
                   maintenance, clientVars>>

\* J-06 asks for a payment a day old and Midtrans does not know it: nobody
\* ever opened it, and by now nobody can.
NotFoundAtGateway(p) ==
    /\ gateway[p] = "requested"
    /\ payStatus[p] = "pending"
    /\ p \in payDue
    /\ ~RowLocked(p)
    /\ payStatus' = [payStatus EXCEPT ![p] = "failed"]
    /\ gateway' = [gateway EXCEPT ![p] = "closed"]
    /\ UNCHANGED <<claims, bookingVars, payDue, webhook, refund, revenue,
                   maintenance, clientVars>>

-----------------------------------------------------------------------------
(* Settlement: processMidtransWebhook, or a status that J-06 or an admin's *)
(* sync fetched; both end in applyProviderStatus and markPaidInScope.      *)

EventLocked(p) ==
    \E w \in Workers : /\ InFlight(w)
                       /\ settling[w].via = "webhook"
                       /\ settling[w].pay = p

\* A payment read as cancelled or failed makes the transaction fail: no step.
ReadPayment(w, p, via) ==
    /\ ~InFlight(w)
    /\ payStatus[p] \in {"pending", "expired"}
    /\ \/ via = "webhook" /\ webhook[p] = "received" /\ ~EventLocked(p)
       \/ via = "sync" /\ gateway[p] \in {"open", "settled"}
    /\ settling' = [settling EXCEPT ![w] =
           [stage |-> "read", via |-> via, pay |-> p,
            payRead |-> payStatus[p], bkRead |-> "absent"]]
    /\ UNCHANGED <<claims, bookingVars, paymentVars, maintenance, paying, cancelRead>>

\* The event of a payment that is paid already is completed.
WebhookOfPaid(p) ==
    /\ webhook[p] = "received"
    /\ ~EventLocked(p)
    /\ payStatus[p] = "paid"
    /\ webhook' = [webhook EXCEPT ![p] = "processed"]
    /\ UNCHANGED <<claims, bookingVars, payStatus, payDue, gateway, refund, revenue,
                   maintenance, clientVars>>

\* Faulty: any row that is not paid yet is taken.
MarkableUnpaid(w) == payStatus[settling[w].pay] # "paid"

\* markPaymentPaid: the row must be pending still; an expired row is taken
\* only by a transaction that had read it as expired.
Markable(w) ==
    LET j == settling[w]
    IN \/ payStatus[j.pay] = "pending"
       \/ payStatus[j.pay] = "expired" /\ j.payRead = "expired"

LockPayment(w) ==
    LET j == settling[w]
    IN /\ j.stage = "read"
       /\ gateway[j.pay] = "settled"
       /\ ~RowLocked(j.pay)
       /\ Markable(w)
       /\ settling' = [settling EXCEPT ![w] =
              [j EXCEPT !.stage = "locked",
                        !.bkRead = bookingStatus[BookingOf[j.pay]]]]
       /\ UNCHANGED <<claims, bookingVars, paymentVars, maintenance, paying, cancelRead>>

CompleteEvent(w) ==
    webhook' = IF settling[w].via = "webhook"
               THEN [webhook EXCEPT ![settling[w].pay] = "processed"] ELSE webhook

\* The UPDATE finds no row: markPaidInScope returns null, and the event is
\* completed all the same.
MissPayment(w) ==
    LET j == settling[w]
    IN /\ j.stage = "read"
       /\ gateway[j.pay] = "settled"
       /\ ~RowLocked(j.pay)
       /\ ~Markable(w)
       /\ CompleteEvent(w)
       /\ settling' = [settling EXCEPT ![w] = Idle]
       /\ UNCHANGED <<claims, bookingVars, payStatus, payDue, gateway, refund, revenue,
                      maintenance, paying, cancelRead>>

\* The transaction rolls back: an exception, a deadlock victim, a crash.
AbortSettlement(w) ==
    /\ InFlight(w)
    /\ settling' = [settling EXCEPT ![w] = Idle]
    /\ paying' = IF settling[w].via = "manual"
                 THEN paying \ {BookingOf[settling[w].pay]} ELSE paying
    /\ UNCHANGED <<claims, bookingVars, paymentVars, maintenance, cancelRead>>

\* What every settlement that commits writes.
CommitPaid(w) ==
    LET j == settling[w]
        b == BookingOf[j.pay]
    IN /\ payStatus' = [(IF j.via = "manual" THEN Supersede(b) ELSE payStatus)
                        EXCEPT ![j.pay] = "paid"]
       /\ CompleteEvent(w)
       /\ settling' = [settling EXCEPT ![w] = Idle]
       /\ paying' = IF j.via = "manual" THEN paying \ {b} ELSE paying
       /\ UNCHANGED <<holdLapsed, payDue, gateway, maintenance, cancelRead>>

\* Faulty: the revenue event is not written.
NoRevenue(p) == UNCHANGED <<revenue, refund>>

\* insertBookingRevenueEvent: the first event of a booking stays.
RecordRevenue(p) ==
    /\ revenue' = IF revenue \cap PaymentsOf(BookingOf[p]) = {}
                  THEN revenue \cup {p} ELSE revenue
    /\ UNCHANGED refund

\* Faulty: the money is kept.
KeepMoney(p) == UNCHANGED <<revenue, refund>>

\* The automatic full refund; a refund of 0 violates its CHECK.
RefundPaid(p) ==
    /\ BookingOf[p] \notin FreeBookings
    /\ refund' = [refund EXCEPT ![p] = "approved"]
    /\ UNCHANGED revenue

HeldInFull(b) == HeldSlots(claims, b) = ItemsOf(claims, b)

\* The booking was read as pending and its hold is whole.
SettleConfirm(w) ==
    LET j == settling[w]
        b == BookingOf[j.pay]
    IN /\ j.stage = "locked" /\ j.bkRead = "pending_payment"
       /\ HeldInFull(b)
       /\ bookingStatus[b] = "pending_payment"
       /\ claims' = ConfirmHeld(claims, b)
       /\ bookingStatus' = [bookingStatus EXCEPT ![b] = "confirmed"]
       /\ ApplyPromo(b)
       /\ RecordRevenue(j.pay)
       /\ CommitPaid(w)

\* It was read as pending but its hold is not whole: expire it, release what
\* it has, and take every slot back if nobody else has claimed one.
SettleReclaim(w) ==
    LET j    == settling[w]
        b    == BookingOf[j.pay]
        free == ReleaseByOwner(claims, b)
    IN /\ j.stage = "locked" /\ j.bkRead = "pending_payment"
       /\ ~HeldInFull(b)
       /\ CanReclaim(free, b)
       /\ claims' = Reclaim(free, b)
       /\ bookingStatus' = IF bookingStatus[b] \in Recoverable
                           THEN [bookingStatus EXCEPT ![b] = "confirmed"]
                           ELSE bookingStatus
       /\ ApplyPromo(b)
       /\ RecordRevenue(j.pay)
       /\ CommitPaid(w)

SettleLostHold(w) ==
    LET j    == settling[w]
        b    == BookingOf[j.pay]
        free == ReleaseByOwner(claims, b)
    IN /\ j.stage = "locked" /\ j.bkRead = "pending_payment"
       /\ ~HeldInFull(b)
       /\ ~CanReclaim(free, b)
       /\ claims' = free
       /\ bookingStatus' = IF bookingStatus[b] = "pending_payment"
                           THEN [bookingStatus EXCEPT ![b] = "expired"]
                           ELSE bookingStatus
       /\ ReleasePromos({b})
       /\ RefundPaid(j.pay)
       /\ CommitPaid(w)

\* It was read as expired: the payment came after the hold.
SettleRecover(w) ==
    LET j == settling[w]
        b == BookingOf[j.pay]
    IN /\ j.stage = "locked" /\ j.bkRead = "expired"
       /\ CanReclaim(claims, b)
       /\ bookingStatus[b] = "expired"
       /\ claims' = Reclaim(claims, b)
       /\ bookingStatus' = [bookingStatus EXCEPT ![b] = "confirmed"]
       /\ RecordRevenue(j.pay)
       /\ CommitPaid(w)
       /\ UNCHANGED <<redemption, quotaUsed>>

SettleTooLate(w) ==
    LET j == settling[w]
        b == BookingOf[j.pay]
    IN /\ j.stage = "locked" /\ j.bkRead = "expired"
       /\ ~CanReclaim(claims, b)
       /\ ReleasePromos({b})
       /\ RefundPaid(j.pay)
       /\ CommitPaid(w)
       /\ UNCHANGED <<claims, bookingStatus>>

\* It was read as confirmed or cancelled: the payment is one too many.
SettleExtra(w) ==
    LET j == settling[w]
    IN /\ j.stage = "locked" /\ j.bkRead \notin {"pending_payment", "expired"}
       /\ RefundPaid(j.pay)
       /\ CommitPaid(w)
       /\ UNCHANGED <<claims, bookingStatus, redemption, quotaUsed>>

-----------------------------------------------------------------------------
SettlementStep(w) ==
    \/ \E p \in Payments, via \in {"webhook", "sync"} : ReadPayment(w, p, via)
    \/ \E p \in Payments : InsertManual(w, p)
    \/ LockPayment(w)
    \/ MissPayment(w)
    \/ AbortSettlement(w)
    \/ SettleConfirm(w)
    \/ SettleReclaim(w)
    \/ SettleLostHold(w)
    \/ SettleRecover(w)
    \/ SettleTooLate(w)
    \/ SettleExtra(w)

BookingStep ==
    \/ \E b \in Bookings, S \in SUBSET Slots, promo \in BOOLEAN :
          CreateBooking(b, S, promo) \/ CreateWalkIn(b, S, promo)
    \/ \E b \in Bookings : LapseHold(b) \/ ReadForCancel(b) \/ CancelBooking(b)
    \/ SweepHolds
    \/ SweepPromos

MaintenanceStep ==
    \E m \in Maintenances :
        \/ \E S \in SUBSET Slots : CreateMaintenance(m, S) \/ ForceMaintenance(m, S)
        \/ CancelMaintenance(m)

PaymentStep ==
    \/ \E b \in Bookings : CheckPayable(b) \/ GiveUpPaying(b)
    \/ \E p \in Payments :
          \/ InsertPayment(p)
          \/ PaymentFallsDue(p)
          \/ CancelPayment(p)
          \/ ExpireUnpaid(p)
          \/ OpenGateway(p)
          \/ \E st \in {"settled", "closed"} : GatewayEnds(p, st)
          \/ ReceiveWebhook(p)
          \/ \E st \in {"expired", "failed", "cancelled"} : ProviderEnds(p, st)
          \/ NotFoundAtGateway(p)
          \/ WebhookOfPaid(p)

Next ==
    \/ BookingStep
    \/ MaintenanceStep
    \/ PaymentStep
    \/ \E w \in Workers : SettlementStep(w)

Spec == Init /\ [][Next]_vars

-----------------------------------------------------------------------------
(* Safety. *)

\* No slot is held or confirmed by two owners, whichever of the takeover, the
\* sweepers, a forced maintenance and the late settlements came before.
SlotExclusive == Exclusive(claims)

\* A hold that has not run out keeps every slot of its booking until the
\* booking stops being pending: no other customer's takeover, no sweeper and
\* no expiry of a superseded payment takes one away.
LiveHoldKept ==
    \A b \in Bookings :
        bookingStatus[b] = "pending_payment" /\ b \notin holdLapsed
            => HeldInFull(b)

\* A booking that expired blocks no slot, however it expired: by J-01, by
\* J-07, or inside a settlement that could not take its slots back.
ExpiredOwnsNothing ==
    \A b \in Bookings :
        bookingStatus[b] = "expired" => ActiveSlots(claims, b) = {}

\* An active maintenance keeps its slots against every settlement that would
\* take back what it once overrode; a cancelled one keeps none.
MaintenanceKept ==
    \A m \in Maintenances :
        /\ maintenance[m] = "active" =>
              \A s \in ItemsOf(claims, m) : claims[m][s] = "confirmed"
        /\ maintenance[m] = "cancelled" => ActiveSlots(claims, m) = {}

\* At most one payment of a booking can be open at a time.
OnePendingPayment ==
    \A p, q \in Payments :
        /\ BookingOf[p] = BookingOf[q]
        /\ payStatus[p] = "pending" /\ payStatus[q] = "pending"
        => p = q

\* A booking is confirmed only against money: a payment of its own that is
\* paid, carries its revenue event and was not given back automatically.
ConfirmedIsPaid ==
    \A b \in Bookings \ WalkIns :
        bookingStatus[b] = "confirmed" =>
            \E p \in PaymentsOf(b) \cap revenue :
                payStatus[p] = "paid" /\ refund[p] = "none"

\* The quota counter is the number of redemptions in force and never more
\* than the quota, through every release by whichever path comes first.
QuotaExact ==
    /\ quotaUsed =
           Cardinality({b \in Bookings : redemption[b] \in {"reserved", "applied"}})
    /\ quotaUsed <= PromoQuota

\* Money that came in is either a booking's revenue or on its way back.
PaidIsAccounted ==
    \A p \in Payments :
        payStatus[p] = "paid" => p \in revenue \/ refund[p] # "none"

\* However many attempts a customer has paid for, at most one of the payments
\* is kept: every other one is on its way back.
ChargedOnce ==
    \A p, q \in Payments :
        /\ p # q /\ BookingOf[p] = BookingOf[q]
        /\ payStatus[p] = "paid" /\ payStatus[q] = "paid"
        => refund[p] # "none" \/ refund[q] # "none"

\* An event of Midtrans is done with only when its payment waits no more: no
\* retry, and no settlement that missed its row, spends it on an open payment.
NoticeNotWasted ==
    \A p \in Payments :
        webhook[p] = "processed" => payStatus[p] \notin {"absent", "pending"}

-----------------------------------------------------------------------------
(* What a step may never do. *)

\* A booking rises from expired only in the step that marks a payment of its
\* own paid after the gateway, or the counter, took the money.
RiseOnlyByPayment ==
    [][\A b \in Bookings :
          bookingStatus[b] = "expired" /\ bookingStatus'[b] # "expired"
          => /\ bookingStatus'[b] = "confirmed"
             /\ \E p \in PaymentsOf(b) : payStatus[p] # "paid" /\ payStatus'[p] = "paid"
      ]_vars

\* Cancelling a booking is final, and no step leaves confirmed any other way.
CancelledIsFinal ==
    [][\A b \in Bookings :
          /\ bookingStatus[b] = "cancelled" => bookingStatus'[b] = "cancelled"
          /\ bookingStatus[b] = "confirmed" =>
                bookingStatus'[b] \in {"confirmed", "cancelled"}
      ]_vars

\* A slot passes from one owner straight to another only off a lapsed hold,
\* or to a maintenance: no confirmed slot is handed to another booking.
HandoverOnlyOffLapsedHold ==
    [][\A s \in Slots : \A o1 \in Owners, o2 \in Owners :
          /\ o1 # o2 /\ IsActive(claims[o1][s])
          /\ IsActive(claims'[o2][s])
          => \/ o2 \in Maintenances
             \/ o1 \in holdLapsed /\ claims[o1][s] = "held"
      ]_vars

\* A booking loses a confirmed slot only when it is cancelled, or to J-07 that
\* expires a payment of its own: no sweeper, settlement or takeover takes one.
ConfirmedLostKnowingly ==
    [][\A b \in Bookings, s \in Slots :
          claims[b][s] = "confirmed" /\ claims'[b][s] # "confirmed"
          => \/ bookingStatus'[b] = "cancelled"
             \/ \E p \in PaymentsOf(b) :
                   payStatus[p] = "pending" /\ payStatus'[p] = "expired"
      ]_vars

\* Paid stays paid; a payment that failed or was cancelled never turns paid.
PaymentIsSettledOnce ==
    [][\A p \in Payments :
          /\ payStatus[p] = "paid" => payStatus'[p] = "paid"
          /\ payStatus[p] \in {"failed", "cancelled"} => payStatus'[p] = payStatus[p]
      ]_vars

\* Money buys the slots or goes back: the step that marks a payment paid
\* leaves every slot of its booking confirmed, or refunds it in full; a
\* payment of 0, which cannot be refunded, is recorded with its slots only.
PaidBuysSlots ==
    [][\A p \in Payments :
          payStatus[p] # "paid" /\ payStatus'[p] = "paid"
          => LET b == BookingOf[p]
             IN \/ \A s \in ItemsOf(claims, b) : claims'[b][s] = "confirmed"
                \/ refund'[p] = "approved" /\ b \notin FreeBookings
      ]_vars

\* A promo discount that a confirmed booking earned is never given back
\* while the booking stands.
AppliedPromoStays ==
    [][\A b \in Bookings :
          redemption[b] = "applied" => redemption'[b] = "applied"]_vars

-----------------------------------------------------------------------------
(* What the documents promise.  TLC refutes each of these: see README.md.  *)

\* 07 E-3: money that arrives for an expired payment is not lost, so no event
\* that tells of it is done with while its payment is still expired.
ExpiredMoneyIsTaken ==
    \A p \in Payments : webhook[p] = "processed" => payStatus[p] # "expired"

\* 03 8.5: a confirmed claim is released by a cancellation only.
ConfirmedReleasedByCancelOnly ==
    [][\A b \in Bookings, s \in Slots :
          claims[b][s] = "confirmed" /\ claims'[b][s] = "released"
          => bookingStatus'[b] = "cancelled"]_vars

\* 06 BR-B-62: cancelling a confirmed, paid booking requests the refund that
\* the policy owes (meant for RefundOwed = {TRUE}).
CancelRequestsRefund ==
    [][\A b \in Bookings \ FreeBookings :
          /\ bookingStatus[b] = "confirmed" /\ bookingStatus'[b] = "cancelled"
          /\ PaidOf(b) # {}
          => \E p \in PaidOf(b) : refund'[p] # "none"]_vars

-----------------------------------------------------------------------------
(* Liveness.  BullMQ repeats J-01 and J-09 every minute for as long as a   *)
(* worker process runs.                                                    *)

SweeperFairness == WF_vars(SweepHolds) /\ WF_vars(SweepPromos)

\* A booking whose hold ran out does not stay pending, and its slots do not
\* stay held, whatever the payments do meanwhile; a reservation of the promo
\* that ran out gives its quota back or has been applied.
LapsedHoldEnds ==
    \A b \in Bookings :
        b \in holdLapsed ~> /\ bookingStatus[b] # "pending_payment"
                            /\ HeldSlots(claims, b) = {}
                            /\ redemption[b] # "reserved"
=============================================================================
