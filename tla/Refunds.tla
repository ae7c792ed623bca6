------------------------------ MODULE Refunds ------------------------------
(***************************************************************************)
(* The refunds of one paid payment: rows of the table refunds, the columns *)
(* refund_status and refunded_amount of the payment, the finance events    *)
(* and the job J-08 that moves an approved refund on.                      *)
(*                                                                         *)
(* Refunds of different payments share nothing, so one payment is enough.  *)
(* createRefundInScope, approveRefund and markRefundCompleted lock the     *)
(* payment row, which makes each one action, except where a row is read    *)
(* before the lock: approveRefund reads the refund first (StartApproval),  *)
(* J-08 reads it before its UPDATE (StartJ08).  An approval that writes    *)
(* bank data holds the row lock of the refund from its first statement.    *)
(*                                                                         *)
(* The job of a refund has the identifier refund-<id>.  BullMQ ignores an  *)
(* add under an identifier it still knows, and it keeps ended jobs.  The   *)
(* enqueueing itself is an afterCommit callback: it runs after the commit  *)
(* and is lost when the process dies in between.                           *)
(***************************************************************************)
EXTENDS Integers, FiniteSets, FiniteSetsExt

CONSTANTS
    Refunds,     \* rows that may be inserted
    Admins,      \* approval requests that may be in flight together
    Amount,      \* payments.amount
    GatewayFee,  \* payments.gateway_fee_amount
    Amounts,     \* amounts that staff may ask for
    Owed,        \* what cancelBooking may find owed, as the setting stands
    RefundFaults \* of "crash", "attempt", "evict": what may go wrong

ASSUME RefundsAssumption ==
    /\ IsFiniteSet(Refunds)
    /\ Amount \in Nat \ {0}
    /\ GatewayFee \in Nat
    /\ Amounts \subseteq Nat \ {0}
    /\ Owed \subseteq {"all", "all less the fee", "half"}
    /\ "idle" \notin Refunds
    /\ RefundFaults \subseteq {"crash", "attempt", "evict"}

VARIABLES
    status,         \* refunds.status, "none" before the INSERT
    terms,          \* amount, channel and policy, fixed by the INSERT
    bank,           \* refunds whose destination account is complete
    paymentRefund,  \* payments.refund_status
    refundedAmount, \* payments.refunded_amount
    accrued,        \* refunds with a refund_accrual finance event
    settled,        \* refunds with a refund_settlement finance event
    toEnqueue,      \* committed, afterCommit callback not yet run
    job,            \* BullMQ: the job refund-<id>
    jobRead,        \* what the running J-08 read
    approval,       \* what each running approveRefund read
    cancelled       \* the booking that was paid has been cancelled

rowVars == <<status, terms, bank>>
bookVars == <<paymentRefund, refundedAmount, accrued, settled>>
jobVars == <<toEnqueue, job, jobRead>>
vars == <<rowVars, bookVars, jobVars, approval, cancelled>>

-----------------------------------------------------------------------------
Statuses == {"none", "requested", "approved", "processing", "completed", "rejected"}

\* Statuses whose amounts count as given away.
Active == {"approved", "processing", "completed"}

Channels == {"manual_transfer", "cash"}

Terms == [amount : Nat, channel : Channels, lessFee : BOOLEAN]

\* terms of a row that does not exist yet
NoTerms == [amount |-> 0, channel |-> "cash", lessFee |-> FALSE]

\* Payable by hand: cash, or a transfer whose destination is known.
Payable(r, hasBank) == terms[r].channel = "manual_transfer" => hasBank

NoRead == [status |-> "none", bank |-> FALSE]
Read(r) == [status |-> status[r], bank |-> r \in bank]

Idle == [on |-> "idle", givesBank |-> FALSE, read |-> NoRead]

\* refunds.amount, row by row.
RefundAmount == [r \in Refunds |-> terms[r].amount]

\* The total of the refunds of the payment that count as given away.
ActiveRefundAmount ==
    SumFunctionOnSet(RefundAmount, {r \in Refunds : status[r] \in Active})

\* Held by an approval that has written bank data and not yet ended.
RowLocked(r) == \E a \in Admins : approval[a].on = r /\ approval[a].givesBank

\* Faulty: the refund is compared with itself.
OwnAmount(r) == terms[r].amount

\* completePaymentRefund: from which total on the payment counts as refunded.
FullThreshold(r) ==
    IF terms[r].lessFee THEN Max({0, Amount - GatewayFee}) ELSE Amount

-----------------------------------------------------------------------------
Init ==
    /\ status = [r \in Refunds |-> "none"]
    /\ terms = [r \in Refunds |-> NoTerms]
    /\ bank = {}
    /\ paymentRefund = "none"
    /\ refundedAmount = 0
    /\ accrued = {} /\ settled = {}
    /\ toEnqueue = {}
    /\ job = [r \in Refunds |-> "none"]
    /\ jobRead = [r \in Refunds |-> NoRead]
    /\ approval = [a \in Admins |-> Idle]
    /\ cancelled = FALSE

(* createRefundInScope: the payment row is locked and paid; requests that   *)
(* nobody approved yet do not count.                                        *)
CreateRefundInScope(r, t, automatic, withBank) ==
    /\ status[r] = "none"
    /\ t.amount > 0
    /\ ActiveRefundAmount + t.amount <= Amount
    /\ status' = [status EXCEPT ![r] = IF automatic THEN "approved" ELSE "requested"]
    /\ terms' = [terms EXCEPT ![r] = t]
    /\ bank' = IF withBank THEN bank \cup {r} ELSE bank
    /\ paymentRefund' = IF paymentRefund = "none" THEN "pending" ELSE paymentRefund
    /\ accrued' = IF automatic THEN accrued \cup {r} ELSE accrued
    /\ toEnqueue' = IF automatic THEN toEnqueue \cup {r} ELSE toEnqueue
    /\ UNCHANGED <<refundedAmount, settled, job, jobRead, approval>>

(* createRefundRequest: staff ask for any amount, with or without the       *)
(* destination.                                                             *)
CreateRefundRequest(r) ==
    /\ \E amount \in Amounts, channel \in Channels, withBank \in BOOLEAN :
           CreateRefundInScope(r, [amount |-> amount, channel |-> channel, lessFee |-> FALSE],
                               FALSE, withBank)
    /\ UNCHANGED cancelled

OwedAmount(owed) ==
    CASE owed = "all" -> Amount
      [] owed = "all less the fee" -> Max({0, Amount - GatewayFee})
      [] owed = "half" -> Amount \div 2

(* cancelBooking: the refund that computeRefundAmount found owed is         *)
(* requested in the transaction that cancels, or nothing is cancelled.      *)
CancelBooking(r) ==
    /\ ~cancelled
    /\ cancelled' = TRUE
    /\ \E owed \in Owed, channel \in Channels :
           CreateRefundInScope(r, [amount |-> OwedAmount(owed), channel |-> channel,
                                   lessFee |-> owed = "all less the fee"], FALSE, FALSE)

(* Hola's own fault (a late settlement, a forced maintenance): the full     *)
(* amount, approved at once, never with a destination.                      *)
AutomaticRefund(r) ==
    /\ ~cancelled
    /\ cancelled' = TRUE
    /\ \E channel \in Channels :
           CreateRefundInScope(r, [amount |-> Amount, channel |-> channel, lessFee |-> FALSE],
                               TRUE, FALSE)

-----------------------------------------------------------------------------
\* Faulty: whatever is not over may be approved.
ApprovableOrBeingPaid == {"requested", "approved", "processing"}
Approvable == {"requested", "approved"}

(* approveRefund, up to the lock on the payment row.                        *)
StartApproval(a, r, givesBank) ==
    /\ approval[a] = Idle
    /\ status[r] # "none"
    /\ givesBank => status[r] \in Approvable /\ ~RowLocked(r)
    /\ approval' = [approval EXCEPT ![a] = [on |-> r, givesBank |-> givesBank,
                        read |-> [Read(r) EXCEPT !.bank = @ \/ givesBank]]]
    /\ UNCHANGED <<rowVars, bookVars, jobVars, cancelled>>

\* Faulty: only completed refunds count.
AlreadyPaidBack(r, seen) == refundedAmount

\* What is allocated to the others; the status is the one read before the lock.
AlreadyAllocated(r, seen) ==
    IF seen.status = "approved" THEN ActiveRefundAmount - terms[r].amount
                                ELSE ActiveRefundAmount

(* approveRefund, the rest; an approved refund may be approved again, which *)
(* is how staff add the destination.                                        *)
ApproveRefund(a) ==
    LET r == approval[a].on
        seen == approval[a].read IN
    /\ r \in Refunds
    /\ AlreadyAllocated(r, seen) + terms[r].amount <= Amount
    /\ Payable(r, seen.bank)
    /\ RowLocked(r) => approval[a].givesBank
    /\ status[r] \in Approvable
    /\ status' = [status EXCEPT ![r] = "approved"]
    /\ bank' = IF approval[a].givesBank THEN bank \cup {r} ELSE bank
    /\ accrued' = accrued \cup {r}
    /\ toEnqueue' = toEnqueue \cup {r}
    /\ approval' = [approval EXCEPT ![a] = Idle]
    /\ UNCHANGED <<terms, paymentRefund, refundedAmount, settled, job, jobRead, cancelled>>

\* Any check above fails, or PostgreSQL breaks a deadlock: rolled back.
AbortApproval(a) ==
    /\ approval[a] # Idle
    /\ approval' = [approval EXCEPT ![a] = Idle]
    /\ UNCHANGED <<rowVars, bookVars, jobVars, cancelled>>

\* Faulty: an approved refund can be rejected too.
RejectableOrApproved == {"requested", "approved"}
Rejectable == {"requested"}

(* rejectRefund; payments.refund_status keeps its value.                    *)
RejectRefund(r) ==
    /\ status[r] \in Rejectable
    /\ ~RowLocked(r)
    /\ status' = [status EXCEPT ![r] = "rejected"]
    /\ UNCHANGED <<terms, bank, bookVars, jobVars, approval, cancelled>>

-----------------------------------------------------------------------------
(* enqueueRefund after the commit: ignored while BullMQ knows the job.      *)
EnqueueRefund(r) ==
    /\ r \in toEnqueue
    /\ toEnqueue' = toEnqueue \ {r}
    /\ job' = [job EXCEPT ![r] = IF job[r] = "none" THEN "queued" ELSE @]
    /\ UNCHANGED <<rowVars, bookVars, jobRead, approval, cancelled>>

\* The process dies after the commit and before the callback.
LoseCallback(r) ==
    /\ "crash" \in RefundFaults
    /\ r \in toEnqueue
    /\ toEnqueue' = toEnqueue \ {r}
    /\ UNCHANGED <<rowVars, bookVars, job, jobRead, approval, cancelled>>

(* processManualRefund (J-08) reads the refund without a lock.              *)
StartJ08(r) ==
    /\ job[r] = "queued"
    /\ job' = [job EXCEPT ![r] = "active"]
    /\ jobRead' = [jobRead EXCEPT ![r] = Read(r)]
    /\ UNCHANGED <<rowVars, bookVars, toEnqueue, approval, cancelled>>

\* Faulty: the destination is left to the approval.
MovesAnyway(r) == jobRead[r].status = "approved" /\ status[r] = "approved"

\* A transfer without a destination only notifies the admins.
MovesOn(r) ==
    jobRead[r].status = "approved" /\ Payable(r, jobRead[r].bank) /\ status[r] = "approved"

ProcessManualRefund(r) ==
    /\ job[r] = "active"
    /\ MovesOn(r) => ~RowLocked(r)
    /\ status' = [status EXCEPT ![r] = IF MovesOn(r) THEN "processing" ELSE @]
    /\ job' = [job EXCEPT ![r] = "ended"]
    /\ jobRead' = [jobRead EXCEPT ![r] = NoRead]
    /\ UNCHANGED <<terms, bank, bookVars, toEnqueue, approval, cancelled>>

(* The last of the five attempts fails.  An attempt before it is rolled     *)
(* back and leaves no trace: it never started.                              *)
GiveUp(r) ==
    /\ "attempt" \in RefundFaults
    /\ job[r] = "active"
    /\ job' = [job EXCEPT ![r] = "ended"]
    /\ jobRead' = [jobRead EXCEPT ![r] = NoRead]
    /\ UNCHANGED <<rowVars, bookVars, toEnqueue, approval, cancelled>>

\* RETENTION: an ended job is removed once enough others have ended.
EvictJob(r) ==
    /\ "evict" \in RefundFaults
    /\ job[r] = "ended"
    /\ job' = [job EXCEPT ![r] = "none"]
    /\ UNCHANGED <<rowVars, bookVars, toEnqueue, jobRead, approval, cancelled>>

(* markRefundCompleted: staff have paid the refund by hand.                 *)
MarkRefundCompleted(r) ==
    /\ status[r] = "processing"
    /\ ~RowLocked(r)
    /\ status' = [status EXCEPT ![r] = "completed"]
    /\ refundedAmount' = refundedAmount + terms[r].amount
    /\ paymentRefund' = IF refundedAmount' >= FullThreshold(r) THEN "full" ELSE "partial"
    /\ settled' = settled \cup {r}
    /\ UNCHANGED <<terms, bank, accrued, jobVars, approval, cancelled>>

-----------------------------------------------------------------------------
ApprovalStep ==
    \E a \in Admins :
        \/ \E r \in Refunds, givesBank \in BOOLEAN : StartApproval(a, r, givesBank)
        \/ ApproveRefund(a)
        \/ AbortApproval(a)

J08Step ==
    \E r \in Refunds :
        \/ EnqueueRefund(r) \/ LoseCallback(r)
        \/ StartJ08(r) \/ ProcessManualRefund(r) \/ GiveUp(r) \/ EvictJob(r)

Next ==
    \/ \E r \in Refunds :
           \/ CreateRefundRequest(r) \/ CancelBooking(r) \/ AutomaticRefund(r)
           \/ RejectRefund(r) \/ MarkRefundCompleted(r)
    \/ ApprovalStep
    \/ J08Step

(* The API and the worker go on with what they have begun, and PostgreSQL   *)
(* serves those who wait for a row in turn (SF); requests of staff,         *)
(* crashes, failing attempts and evictions are not fair.                    *)
Fairness ==
    /\ \A r \in Refunds :
        /\ WF_vars(EnqueueRefund(r))
        /\ WF_vars(StartJ08(r))
        /\ SF_vars(ProcessManualRefund(r))
    /\ \A a \in Admins : WF_vars(ApproveRefund(a) \/ AbortApproval(a))

Spec == Init /\ [][Next]_vars /\ Fairness

-----------------------------------------------------------------------------
TypeOK ==
    /\ status \in [Refunds -> Statuses]
    /\ terms \in [Refunds -> Terms]
    /\ bank \subseteq Refunds
    /\ paymentRefund \in {"none", "pending", "partial", "full"}
    /\ refundedAmount \in Nat
    /\ accrued \subseteq Refunds /\ settled \subseteq Refunds
    /\ toEnqueue \subseteq Refunds
    /\ job \in [Refunds -> {"none", "queued", "active", "ended"}]
    /\ jobRead \in [Refunds -> [status : Statuses, bank : BOOLEAN]]
    /\ approval \in [Admins -> [on : Refunds \cup {"idle"}, givesBank : BOOLEAN,
                                read : [status : Statuses, bank : BOOLEAN]]]
    /\ cancelled \in BOOLEAN

-----------------------------------------------------------------------------
\* 07 BR-P-51: requests that were each acceptable when they were made, and
\* approvals that overlap, never give away more than was paid.
AllocatedWithinPayment == ActiveRefundAmount <= Amount

CompletedAmount ==
    SumFunctionOnSet(RefundAmount, {r \in Refunds : status[r] = "completed"})

\* The columns of the payment tell what was really paid back: the total of
\* the completed refunds, "partial" or "full" from the first of them on, and
\* "full" only when at most the gateway fee was kept.
PaymentTellsRefunds ==
    /\ refundedAmount = CompletedAmount
    /\ paymentRefund \in {"partial", "full"} <=> refundedAmount > 0
    /\ paymentRefund = "full" => refundedAmount >= Amount - GatewayFee

\* 07 BR-P-57: every refund given away is accrued and exactly the completed
\* ones are settled; nothing else reaches the books.
RefundsAreBooked ==
    \A r \in Refunds :
        /\ r \in accrued <=> status[r] \in Active
        /\ r \in settled <=> status[r] = "completed"

\* 02 J-08: no transfer is handed to staff for payment before its destination
\* is known, whatever the approval or the job had read before.
PaidToKnownDestination ==
    \A r \in Refunds : status[r] \in {"processing", "completed"} => Payable(r, r \in bank)

\* 07 BR-P-55: a refund that is being paid, was paid or was rejected is never
\* approved again, however old the status that an approval has read.
NeverPaidTwice ==
    [][\A r \in Refunds :
        /\ status[r] = "processing" => status'[r] \in {"processing", "completed"}
        /\ status[r] \in {"completed", "rejected"} => status'[r] = status[r]]_vars

\* 07 section 7.1: once an admin has completed the destination of an approved
\* refund, J-08 moves it to processing (meant for RefundFaults = {}).
CompletedDestinationMoves ==
    \A r \in Refunds :
        (status[r] = "approved" /\ r \in bank) ~> status[r] # "approved"
=============================================================================
