---------------------------- MODULE RefundsProofs ----------------------------
(***************************************************************************)
(* Proofs about Refunds, for any number of refunds and approvals in flight,*)
(* any amounts and every combination of faults.                            *)
(***************************************************************************)
EXTENDS Refunds, Totals

(* What a transaction may insert.                                           *)
LEMMA MaxOfTwo ==
    ASSUME NEW n \in Int
    PROVE  Max({0, n}) \in Nat
  <1>1. \E x \in {0, n} : \A y \in {0, n} : x >= y OBVIOUS
  <1>2. Max({0, n}) \in {0, n} /\ \A y \in {0, n} : Max({0, n}) >= y
    BY <1>1 DEF Max
  <1> QED BY <1>2

LEMMA MaxIsUpper ==
    ASSUME NEW n \in Int
    PROVE  Max({0, n}) >= n
  <1>1. \E x \in {0, n} : \A y \in {0, n} : x >= y OBVIOUS
  <1> QED BY <1>1 DEF Max

LEMMA OwedType == \A owed \in Owed : OwedAmount(owed) \in Nat
  <1> SUFFICES ASSUME NEW owed \in Owed PROVE OwedAmount(owed) \in Nat OBVIOUS
  <1>a. Amount \in Nat /\ GatewayFee \in Nat BY RefundsAssumption
  <1>1. CASE owed = "all" BY <1>1, <1>a DEF OwedAmount
  <1>2. CASE owed = "all less the fee"
    <2>1. Amount - GatewayFee \in Int BY <1>a
    <2> QED BY <1>2, <2>1, MaxOfTwo DEF OwedAmount
  <1>3. CASE owed = "half" BY <1>3, <1>a DEF OwedAmount
  <1> QED BY <1>1, <1>2, <1>3, RefundsAssumption

(* The three callers of createRefundInScope at once.                        *)
Created(r, t, automatic, withBank) ==
    /\ CreateRefundInScope(r, t, automatic, withBank)
    /\ t \in Terms /\ automatic \in BOOLEAN /\ withBank \in BOOLEAN
    /\ cancelled' \in {cancelled, TRUE}

LEMMA CreationCases ==
    ASSUME NEW r \in Refunds,
           CreateRefundRequest(r) \/ CancelBooking(r) \/ AutomaticRefund(r)
    PROVE  \E t \in Terms, automatic \in BOOLEAN, withBank \in BOOLEAN :
               Created(r, t, automatic, withBank)
  <1>1. CASE CreateRefundRequest(r)
    <2>1. PICK amount \in Amounts, channel \in Channels, withBank \in BOOLEAN :
              CreateRefundInScope(r, [amount |-> amount, channel |-> channel, lessFee |-> FALSE],
                                  FALSE, withBank)
      BY <1>1 DEF CreateRefundRequest
    <2>2. [amount |-> amount, channel |-> channel, lessFee |-> FALSE] \in Terms
      BY RefundsAssumption DEF Terms
    <2>3. cancelled' = cancelled BY <1>1 DEF CreateRefundRequest
    <2> QED BY <2>1, <2>2, <2>3 DEF Created
  <1>2. CASE CancelBooking(r)
    <2>1. PICK owed \in Owed, channel \in Channels :
              CreateRefundInScope(r, [amount |-> OwedAmount(owed), channel |-> channel,
                                      lessFee |-> owed = "all less the fee"], FALSE, FALSE)
      BY <1>2 DEF CancelBooking
    <2>2. [amount |-> OwedAmount(owed), channel |-> channel,
           lessFee |-> owed = "all less the fee"] \in Terms
      BY OwedType DEF Terms
    <2>3. cancelled' = TRUE BY <1>2 DEF CancelBooking
    <2> QED BY <2>1, <2>2, <2>3 DEF Created
  <1>3. CASE AutomaticRefund(r)
    <2>1. PICK channel \in Channels :
              CreateRefundInScope(r, [amount |-> Amount, channel |-> channel, lessFee |-> FALSE],
                                  TRUE, FALSE)
      BY <1>3 DEF AutomaticRefund
    <2>2. [amount |-> Amount, channel |-> channel, lessFee |-> FALSE] \in Terms
      BY RefundsAssumption DEF Terms
    <2>3. cancelled' = TRUE BY <1>3 DEF AutomaticRefund
    <2> QED BY <2>1, <2>2, <2>3 DEF Created
  <1> QED BY <1>1, <1>2, <1>3

-----------------------------------------------------------------------------
(* Type correctness.                                                        *)
LEMMA InitType == Init => TypeOK
  <1> SUFFICES ASSUME Init PROVE TypeOK OBVIOUS
  <1>1. NoTerms \in Terms BY DEF NoTerms, Terms, Channels
  <1>2. NoRead \in [status : Statuses, bank : BOOLEAN] BY DEF NoRead, Statuses
  <1>3. Idle \in [on : Refunds \cup {"idle"}, givesBank : BOOLEAN,
                  read : [status : Statuses, bank : BOOLEAN]]
    BY <1>2 DEF Idle
  <1> QED BY <1>1, <1>2, <1>3 DEF Init, TypeOK, Statuses

LEMMA CreatedType ==
    ASSUME TypeOK, NEW r \in Refunds, NEW t \in Terms, NEW automatic \in BOOLEAN,
           NEW withBank \in BOOLEAN, Created(r, t, automatic, withBank)
    PROVE  TypeOK'
  BY DEF TypeOK, Created, CreateRefundInScope, Statuses

LEMMA ApprovalType ==
    ASSUME TypeOK, NEW a \in Admins,
           \/ \E r \in Refunds, givesBank \in BOOLEAN : StartApproval(a, r, givesBank)
           \/ ApproveRefund(a) \/ AbortApproval(a)
    PROVE  TypeOK'
  <1>1. ASSUME NEW r \in Refunds, NEW givesBank \in BOOLEAN, StartApproval(a, r, givesBank)
        PROVE  TypeOK'
    <2> DEFINE read == [Read(r) EXCEPT !.bank = @ \/ givesBank]
    <2>1. read \in [status : Statuses, bank : BOOLEAN] BY DEF Read, TypeOK
    <2>2. approval' = [approval EXCEPT ![a] = [on |-> r, givesBank |-> givesBank, read |-> read]]
      BY <1>1 DEF StartApproval
    <2>3. approval' \in [Admins -> [on : Refunds \cup {"idle"}, givesBank : BOOLEAN,
                                   read : [status : Statuses, bank : BOOLEAN]]]
      <3> HIDE DEF read
      <3> QED BY <2>1, <2>2 DEF TypeOK
    <2>4. UNCHANGED <<rowVars, bookVars, jobVars, cancelled>> BY <1>1 DEF StartApproval
    <2> QED BY <2>3, <2>4 DEF TypeOK, rowVars, bookVars, jobVars
  <1>2. ASSUME ApproveRefund(a) PROVE TypeOK'
    BY <1>2, RefundsAssumption DEF ApproveRefund, TypeOK, Idle, NoRead, Statuses
  <1>3. ASSUME AbortApproval(a) PROVE TypeOK'
    BY <1>3 DEF AbortApproval, TypeOK, Idle, NoRead, Statuses, rowVars, bookVars, jobVars
  <1> QED BY <1>1, <1>2, <1>3

LEMMA JobType ==
    ASSUME TypeOK, NEW r \in Refunds,
           \/ EnqueueRefund(r) \/ LoseCallback(r)
           \/ StartJ08(r) \/ ProcessManualRefund(r) \/ GiveUp(r) \/ EvictJob(r)
    PROVE  TypeOK'
  <1> USE DEF TypeOK, rowVars, bookVars
  <1>1. CASE EnqueueRefund(r) \/ LoseCallback(r) \/ EvictJob(r)
    BY <1>1 DEF EnqueueRefund, LoseCallback, EvictJob
  <1>2. CASE StartJ08(r)
    BY <1>2 DEF StartJ08, Read
  <1>3. CASE ProcessManualRefund(r)
    BY <1>3 DEF ProcessManualRefund, NoRead, Statuses
  <1>4. CASE GiveUp(r)
    BY <1>4 DEF GiveUp, NoRead, Statuses
  <1> QED BY <1>1, <1>2, <1>3, <1>4

LEMMA StepType == TypeOK /\ [Next]_vars => TypeOK'
  <1> SUFFICES ASSUME TypeOK, [Next]_vars PROVE TypeOK' OBVIOUS
  <1>1. ASSUME NEW r \in Refunds,
               CreateRefundRequest(r) \/ CancelBooking(r) \/ AutomaticRefund(r)
        PROVE  TypeOK'
    BY <1>1, CreationCases, CreatedType
  <1>2. ASSUME NEW r \in Refunds, RejectRefund(r) PROVE TypeOK'
    BY <1>2 DEF RejectRefund, TypeOK, Statuses, bookVars, jobVars
  <1>3. ASSUME NEW r \in Refunds, MarkRefundCompleted(r) PROVE TypeOK'
    <2>1. refundedAmount' \in Nat BY <1>3 DEF MarkRefundCompleted, TypeOK, Terms
    <2>2. paymentRefund' \in {"partial", "full"} BY <1>3 DEF MarkRefundCompleted
    <2> QED BY <1>3, <2>1, <2>2 DEF MarkRefundCompleted, TypeOK, Statuses, jobVars
  <1>4. CASE ApprovalStep BY <1>4, ApprovalType DEF ApprovalStep
  <1>5. CASE J08Step BY <1>5, JobType DEF J08Step
  <1>6. CASE UNCHANGED vars BY <1>6 DEF vars, rowVars, bookVars, jobVars, TypeOK
  <1> QED BY <1>1, <1>2, <1>3, <1>4, <1>5, <1>6 DEF Next

\* Every reachable state is well typed, whatever is requested, approved,
\* rejected, retried and lost.
THEOREM RefundsTypeCorrect == Spec => []TypeOK
  BY InitType, StepType, PTL DEF Spec

-----------------------------------------------------------------------------
(* The books, and the destinations.  A destination is never taken away and  *)
(* the terms never change, so what J-08 has read of a destination stays     *)
(* true whatever was committed since.                                       *)
SeenIsThere == \A r \in Refunds : jobRead[r].bank => r \in bank

PaidOut == {"processing", "completed"}

RefundsInv == RefundsAreBooked /\ PaidToKnownDestination /\ SeenIsThere

(* What a step may do to one refund.                                        *)
Untouched(r) ==
    /\ status'[r] = status[r]
    /\ r \in accrued' <=> r \in accrued
    /\ r \in settled' <=> r \in settled
    /\ terms'[r] = terms[r]

Requested(r) ==
    /\ status[r] = "none" /\ status'[r] = "requested"
    /\ r \in accrued' <=> r \in accrued
    /\ r \in settled' <=> r \in settled

Approved(r) ==
    /\ status[r] \in {"none", "requested", "approved"} /\ status'[r] = "approved"
    /\ r \in accrued'
    /\ r \in settled' <=> r \in settled

Rejected(r) ==
    /\ status[r] = "requested" /\ status'[r] = "rejected"
    /\ r \in accrued' <=> r \in accrued
    /\ r \in settled' <=> r \in settled

Moved(r) ==
    /\ status[r] = "approved" /\ status'[r] = "processing"
    /\ Payable(r, jobRead[r].bank)
    /\ r \in accrued' <=> r \in accrued
    /\ r \in settled' <=> r \in settled
    /\ terms'[r] = terms[r]

Completed(r) ==
    /\ status[r] = "processing" /\ status'[r] = "completed"
    /\ r \in accrued' <=> r \in accrued
    /\ r \in settled'
    /\ terms'[r] = terms[r]

RefundMove(r) ==
    Untouched(r) \/ Requested(r) \/ Approved(r) \/ Rejected(r) \/ Moved(r) \/ Completed(r)

(* No step takes a destination away; J-08 reads what is there.              *)
ReadsWell ==
    /\ bank \subseteq bank'
    /\ \A r \in Refunds : jobRead'[r].bank => r \in bank \/ jobRead[r].bank

LEMMA CreatedMoves ==
    ASSUME TypeOK, NEW q \in Refunds, NEW t \in Terms, NEW automatic \in BOOLEAN,
           NEW withBank \in BOOLEAN, Created(q, t, automatic, withBank)
    PROVE  ReadsWell /\ \A r \in Refunds : RefundMove(r)
  <1>1. ReadsWell BY DEF Created, CreateRefundInScope, ReadsWell
  <1>2. ASSUME NEW r \in Refunds, r # q PROVE Untouched(r)
    BY <1>2 DEF Created, CreateRefundInScope, Untouched, TypeOK
  <1>3. CASE automatic
    <2>1. Approved(q) BY <1>3 DEF Created, CreateRefundInScope, Approved, TypeOK
    <2> QED BY <1>1, <1>2, <2>1 DEF RefundMove
  <1>4. CASE ~automatic
    <2>1. Requested(q) BY <1>4 DEF Created, CreateRefundInScope, Requested, TypeOK
    <2> QED BY <1>1, <1>2, <2>1 DEF RefundMove
  <1> QED BY <1>3, <1>4

LEMMA ApprovalMoves ==
    ASSUME TypeOK, NEW a \in Admins,
           \/ \E r \in Refunds, givesBank \in BOOLEAN : StartApproval(a, r, givesBank)
           \/ ApproveRefund(a) \/ AbortApproval(a)
    PROVE  ReadsWell /\ \A r \in Refunds : RefundMove(r)
  <1>1. CASE ApproveRefund(a)
    <2> DEFINE q == approval[a].on
    <2>1. /\ q \in Refunds /\ status[q] \in Approvable
          /\ status' = [status EXCEPT ![q] = "approved"]
          /\ bank \subseteq bank' /\ accrued' = accrued \cup {q}
          /\ terms' = terms /\ settled' = settled /\ jobRead' = jobRead
      BY <1>1 DEF ApproveRefund
    <2>2. ReadsWell BY <2>1 DEF ReadsWell
    <2>3. Approved(q) BY <2>1 DEF Approved, Approvable, TypeOK
    <2>4. ASSUME NEW r \in Refunds, r # q PROVE Untouched(r)
      BY <2>1, <2>4 DEF Untouched, TypeOK
    <2> QED BY <2>2, <2>3, <2>4 DEF RefundMove
  <1>2. CASE ~ApproveRefund(a)
    <2>1. UNCHANGED <<rowVars, bookVars, jobVars>>
      BY <1>2 DEF StartApproval, AbortApproval
    <2> QED BY <2>1 DEF rowVars, bookVars, jobVars, ReadsWell, RefundMove, Untouched
  <1> QED BY <1>1, <1>2

LEMMA JobMoves ==
    ASSUME TypeOK, NEW q \in Refunds,
           \/ EnqueueRefund(q) \/ LoseCallback(q)
           \/ StartJ08(q) \/ ProcessManualRefund(q) \/ GiveUp(q) \/ EvictJob(q)
    PROVE  ReadsWell /\ \A r \in Refunds : RefundMove(r)
  <1>1. CASE EnqueueRefund(q) \/ LoseCallback(q) \/ EvictJob(q)
    BY <1>1 DEF EnqueueRefund, LoseCallback, EvictJob, rowVars, bookVars, ReadsWell,
                RefundMove, Untouched
  <1>2. CASE StartJ08(q)
    <2>1. ReadsWell BY <1>2 DEF StartJ08, Read, ReadsWell, rowVars, TypeOK
    <2> QED BY <1>2, <2>1 DEF StartJ08, rowVars, bookVars, RefundMove, Untouched
  <1>3. CASE GiveUp(q)
    <2>1. ReadsWell BY <1>3 DEF GiveUp, NoRead, ReadsWell, rowVars, TypeOK
    <2> QED BY <1>3, <2>1 DEF GiveUp, rowVars, bookVars, RefundMove, Untouched
  <1>4. CASE ProcessManualRefund(q)
    <2>1. /\ status' = [status EXCEPT ![q] = IF MovesOn(q) THEN "processing" ELSE @]
          /\ jobRead' = [jobRead EXCEPT ![q] = NoRead]
          /\ bank' = bank /\ terms' = terms /\ accrued' = accrued /\ settled' = settled
      BY <1>4 DEF ProcessManualRefund, bookVars
    <2>2. ReadsWell BY <2>1 DEF ReadsWell, NoRead, TypeOK
    <2>3. ASSUME NEW r \in Refunds, r # q PROVE Untouched(r)
      BY <2>1, <2>3 DEF Untouched, TypeOK
    <2>4. Untouched(q) \/ Moved(q)
      BY <2>1 DEF Untouched, Moved, MovesOn, TypeOK
    <2> QED BY <2>2, <2>3, <2>4 DEF RefundMove
  <1> QED BY <1>1, <1>2, <1>3, <1>4

LEMMA StepMoves ==
    ASSUME TypeOK, [Next]_vars
    PROVE  ReadsWell /\ \A r \in Refunds : RefundMove(r)
  <1>1. ASSUME NEW q \in Refunds,
               CreateRefundRequest(q) \/ CancelBooking(q) \/ AutomaticRefund(q)
        PROVE  ReadsWell /\ \A r \in Refunds : RefundMove(r)
    BY <1>1, CreationCases, CreatedMoves
  <1>2. ASSUME NEW q \in Refunds, RejectRefund(q)
        PROVE  ReadsWell /\ \A r \in Refunds : RefundMove(r)
    <2>1. ReadsWell BY <1>2 DEF RejectRefund, ReadsWell, jobVars
    <2>2. Rejected(q) BY <1>2 DEF RejectRefund, Rejectable, Rejected, bookVars, TypeOK
    <2>3. ASSUME NEW r \in Refunds, r # q PROVE Untouched(r)
      BY <1>2, <2>3 DEF RejectRefund, Untouched, bookVars, TypeOK
    <2> QED BY <2>1, <2>2, <2>3 DEF RefundMove
  <1>3. ASSUME NEW q \in Refunds, MarkRefundCompleted(q)
        PROVE  ReadsWell /\ \A r \in Refunds : RefundMove(r)
    <2>1. ReadsWell BY <1>3 DEF MarkRefundCompleted, ReadsWell, jobVars
    <2>2. Completed(q) BY <1>3 DEF MarkRefundCompleted, Completed, TypeOK
    <2>3. ASSUME NEW r \in Refunds, r # q PROVE Untouched(r)
      BY <1>3, <2>3 DEF MarkRefundCompleted, Untouched, TypeOK
    <2> QED BY <2>1, <2>2, <2>3 DEF RefundMove
  <1>4. CASE ApprovalStep BY <1>4, ApprovalMoves DEF ApprovalStep
  <1>5. CASE J08Step BY <1>5, JobMoves DEF J08Step
  <1>6. CASE UNCHANGED vars
    BY <1>6 DEF vars, rowVars, bookVars, jobVars, ReadsWell, RefundMove, Untouched
  <1> QED BY <1>1, <1>2, <1>3, <1>4, <1>5, <1>6 DEF Next

LEMMA InitRefunds == Init => RefundsInv
  BY DEF Init, RefundsInv, RefundsAreBooked, PaidToKnownDestination, SeenIsThere, NoRead, Active

LEMMA StepRefunds ==
    ASSUME TypeOK, RefundsInv, [Next]_vars
    PROVE  RefundsInv'
  <1>1. ReadsWell /\ \A r \in Refunds : RefundMove(r) BY StepMoves
  <1>2. SeenIsThere' BY <1>1 DEF ReadsWell, RefundsInv, SeenIsThere
  <1>3. RefundsAreBooked'
    BY <1>1 DEF RefundsInv, RefundsAreBooked, RefundMove, Untouched, Requested, Approved,
                Rejected, Moved, Completed, Active
  <1>4. PaidToKnownDestination'
    <2> SUFFICES ASSUME NEW r \in Refunds, status'[r] \in PaidOut
                 PROVE  Payable(r, r \in bank)'
      BY DEF PaidToKnownDestination, PaidOut
    <2>1. CASE Untouched(r) \/ Completed(r)
      <3>1. Payable(r, r \in bank)
        BY <2>1 DEF RefundsInv, PaidToKnownDestination, Untouched, Completed, PaidOut
      <3> QED BY <1>1, <2>1, <3>1 DEF Payable, ReadsWell, Untouched, Completed
    <2>2. CASE Moved(r)
      BY <1>1, <2>2 DEF Moved, Payable, ReadsWell, RefundsInv, SeenIsThere
    <2> QED BY <1>1, <2>1, <2>2 DEF RefundMove, Requested, Approved, Rejected, PaidOut
  <1> QED BY <1>2, <1>3, <1>4 DEF RefundsInv

LEMMA RefundsHold == Spec => []RefundsInv
  BY RefundsTypeCorrect, InitRefunds, StepRefunds, PTL DEF Spec

\* 07 BR-P-57: every refund given away is accrued and exactly the completed
\* ones are settled, with any number of them in flight.
THEOREM RefundsBooked == Spec => []RefundsAreBooked
  <1>1. RefundsInv => RefundsAreBooked BY DEF RefundsInv
  <1> QED BY <1>1, RefundsHold, PTL

\* 02 J-08: whatever was read before it, a transfer is handed to staff only
\* with its destination.
THEOREM DestinationKnown == Spec => []PaidToKnownDestination
  <1>1. RefundsInv => PaidToKnownDestination BY DEF RefundsInv
  <1> QED BY <1>1, RefundsHold, PTL

\* 07 BR-P-55: a refund that is being paid, was paid or was rejected is never
\* approved again.
THEOREM PaidOnce == Spec => NeverPaidTwice
  <1>1. ASSUME TypeOK, [Next]_vars
        PROVE  [\A r \in Refunds :
                   /\ status[r] = "processing" => status'[r] \in {"processing", "completed"}
                   /\ status[r] \in {"completed", "rejected"} => status'[r] = status[r]]_vars
    <2>1. \A r \in Refunds : RefundMove(r) BY <1>1, StepMoves
    <2> QED BY <2>1 DEF RefundMove, Untouched, Requested, Approved, Rejected, Moved, Completed
  <1> QED BY <1>1, RefundsTypeCorrect, PTL DEF Spec, NeverPaidTwice

-----------------------------------------------------------------------------
(* The amounts.  An approval that reads a refund as approved may leave its  *)
(* amount out of what is already given away, because an approved refund     *)
(* never becomes a mere request again; and the terms of a row that counts   *)
(* never change.                                                            *)
ReadApprovedStands ==
    \A a \in Admins :
        approval[a].on \in Refunds /\ approval[a].read.status = "approved"
            => status[approval[a].on] \in Active

AmountsArePositive == \A r \in Refunds : status[r] # "none" => terms[r].amount > 0

AmountsInv ==
    /\ AllocatedWithinPayment /\ PaymentTellsRefunds
    /\ ReadApprovedStands /\ AmountsArePositive

ActiveRefunds == {r \in Refunds : status[r] \in Active}
CompletedRefunds == {r \in Refunds : status[r] = "completed"}

LEMMA AmountsType ==
    ASSUME TypeOK, NEW S \in SUBSET Refunds
    PROVE  /\ IsFiniteSet(S) /\ IsFiniteSet(Refunds)
           /\ \A r \in Refunds : RefundAmount[r] = terms[r].amount /\ RefundAmount[r] \in Nat
           /\ SumFunctionOnSet(RefundAmount, S) \in Nat
  <1>1. IsFiniteSet(S) BY RefundsAssumption, FS_Subset
  <1>2. \A r \in Refunds : RefundAmount[r] = terms[r].amount /\ RefundAmount[r] \in Nat
    BY DEF RefundAmount, TypeOK, Terms
  <1> QED BY <1>1, <1>2, SumIsNat, RefundsAssumption

(* A step that leaves the terms of the refunds in S alone leaves their total*)
(* alone.                                                                   *)
LEMMA SameTotal ==
    ASSUME TypeOK, TypeOK', NEW S \in SUBSET Refunds,
           \A r \in S : terms'[r] = terms[r]
    PROVE  SumFunctionOnSet(RefundAmount', S) = SumFunctionOnSet(RefundAmount, S)
  <1>1. \A r \in S : RefundAmount'[r] = RefundAmount[r] BY DEF RefundAmount
  <1>2. IsFiniteSet(S) BY AmountsType
  <1> QED BY <1>1, <1>2, SumOfEqual

(* What a step does to the amounts.                                         *)
TermsStand ==
    \A r \in Refunds :
        /\ status[r] # "none" => terms'[r] = terms[r] /\ status'[r] # "none"
        /\ status[r] = "none" => status'[r] = "none" \/ terms'[r].amount > 0

ActiveKept == ActiveRefunds' = ActiveRefunds
ActiveGains(r) ==
    /\ r \notin ActiveRefunds /\ ActiveRefunds' = ActiveRefunds \cup {r}
    /\ ActiveRefundAmount + terms'[r].amount <= Amount

CompletedKept ==
    /\ CompletedRefunds' = CompletedRefunds
    /\ refundedAmount' = refundedAmount
    /\ \/ paymentRefund' = paymentRefund
       \/ paymentRefund = "none" /\ paymentRefund' = "pending"
CompletedGains(r) ==
    /\ r \notin CompletedRefunds /\ CompletedRefunds' = CompletedRefunds \cup {r}
    /\ status[r] # "none" /\ terms'[r] = terms[r]
    /\ refundedAmount' = refundedAmount + terms[r].amount
    /\ paymentRefund' \in {"partial", "full"}
    /\ paymentRefund' = "full" => refundedAmount' >= FullThreshold(r)

AmountsMove ==
    /\ TermsStand
    /\ ActiveKept \/ \E r \in Refunds : ActiveGains(r)
    /\ CompletedKept \/ \E r \in Refunds : CompletedGains(r)

LEMMA MoveKeepsAllocation ==
    ASSUME TypeOK, TypeOK', AllocatedWithinPayment, AmountsMove
    PROVE  AllocatedWithinPayment'
  <1>1. ActiveRefunds \in SUBSET Refunds /\ ActiveRefunds' \in SUBSET Refunds
    BY DEF ActiveRefunds
  <1>2. \A r \in ActiveRefunds : terms'[r] = terms[r]
    BY DEF AmountsMove, TermsStand, ActiveRefunds, Active
  <1>3. SumFunctionOnSet(RefundAmount', ActiveRefunds) = ActiveRefundAmount
    BY <1>1, <1>2, SameTotal DEF ActiveRefundAmount, ActiveRefunds
  <1>4. ActiveRefundAmount' = SumFunctionOnSet(RefundAmount', ActiveRefunds')
    BY DEF ActiveRefundAmount, ActiveRefunds
  <1>5. CASE ActiveKept
    BY <1>3, <1>4, <1>5 DEF ActiveKept, AllocatedWithinPayment
  <1>6. ASSUME NEW r \in Refunds, ActiveGains(r) PROVE AllocatedWithinPayment'
    <2>1. IsFiniteSet(ActiveRefunds) BY <1>1, AmountsType
    <2>2. \A x \in Refunds : RefundAmount'[x] = terms'[x].amount /\ RefundAmount'[x] \in Nat
      BY DEF RefundAmount, TypeOK, Terms
    <2>3. SumFunctionOnSet(RefundAmount', ActiveRefunds \cup {r})
            = RefundAmount'[r] + SumFunctionOnSet(RefundAmount', ActiveRefunds)
      BY <1>1, <1>6, <2>1, <2>2, SumWith DEF ActiveGains
    <2>4. ActiveRefundAmount' = terms'[r].amount + ActiveRefundAmount
      BY <1>3, <1>4, <1>6, <2>2, <2>3 DEF ActiveGains
    <2>5. ActiveRefundAmount \in Nat /\ terms'[r].amount \in Nat
      BY AmountsType, <1>1, <2>2 DEF ActiveRefundAmount, ActiveRefunds
    <2> QED BY <1>6, <2>4, <2>5 DEF ActiveGains, AllocatedWithinPayment
  <1> QED BY <1>5, <1>6 DEF AmountsMove

LEMMA PaymentNumbers == Amount \in Nat /\ GatewayFee \in Nat /\ Amount - GatewayFee \in Int
  <1>1. Amount \in Nat /\ GatewayFee \in Nat BY RefundsAssumption
  <1> QED BY ONLY <1>1

LEMMA FullMeansMost ==
    ASSUME TypeOK, NEW r \in Refunds
    PROVE  FullThreshold(r) \in Int /\ FullThreshold(r) >= Amount - GatewayFee
  <1>1. Amount - GatewayFee \in Int BY PaymentNumbers
  <1>2. Max({0, Amount - GatewayFee}) \in Nat
    BY <1>1, MaxOfTwo
  <1>3. Max({0, Amount - GatewayFee}) >= Amount - GatewayFee
    BY <1>1, MaxIsUpper
  <1> QED BY <1>1, <1>2, <1>3, PaymentNumbers DEF FullThreshold

LEMMA MoveKeepsColumns ==
    ASSUME TypeOK, TypeOK', PaymentTellsRefunds, AmountsArePositive, AmountsMove
    PROVE  PaymentTellsRefunds'
  <1>1. CompletedRefunds \in SUBSET Refunds BY DEF CompletedRefunds
  <1>2. \A r \in CompletedRefunds : terms'[r] = terms[r]
    BY DEF AmountsMove, TermsStand, CompletedRefunds
  <1>3. SumFunctionOnSet(RefundAmount', CompletedRefunds) = CompletedAmount
    BY <1>1, <1>2, SameTotal DEF CompletedAmount, CompletedRefunds
  <1>4. CompletedAmount' = SumFunctionOnSet(RefundAmount', CompletedRefunds')
    BY DEF CompletedAmount, CompletedRefunds
  <1>5. CASE CompletedKept
    <2>1. CompletedAmount' = CompletedAmount BY <1>3, <1>4, <1>5 DEF CompletedKept
    <2>2. refundedAmount' = CompletedAmount'
      BY <1>5, <2>1 DEF CompletedKept, PaymentTellsRefunds
    <2>3. paymentRefund' \in {"partial", "full"} <=> paymentRefund \in {"partial", "full"}
      BY <1>5 DEF CompletedKept
    <2>4. paymentRefund' = "full" => paymentRefund = "full"
      BY <1>5 DEF CompletedKept
    <2> QED BY <1>5, <2>2, <2>3, <2>4 DEF CompletedKept, PaymentTellsRefunds
  <1>6. ASSUME NEW r \in Refunds, CompletedGains(r) PROVE PaymentTellsRefunds'
    <2>1. IsFiniteSet(CompletedRefunds) BY <1>1, AmountsType
    <2>2. \A x \in Refunds : RefundAmount'[x] = terms'[x].amount /\ RefundAmount'[x] \in Nat
      BY DEF RefundAmount, TypeOK, Terms
    <2>3. SumFunctionOnSet(RefundAmount', CompletedRefunds \cup {r})
            = RefundAmount'[r] + SumFunctionOnSet(RefundAmount', CompletedRefunds)
      BY <1>1, <1>6, <2>1, <2>2, SumWith DEF CompletedGains
    <2>4. terms[r].amount \in Nat /\ terms[r].amount > 0
      BY <1>6 DEF CompletedGains, AmountsArePositive, TypeOK, Terms
    <2>5. CompletedAmount' = terms[r].amount + CompletedAmount
      BY <1>3, <1>4, <1>6, <2>2, <2>3 DEF CompletedGains
    <2>6. refundedAmount \in Nat /\ refundedAmount = CompletedAmount
      BY DEF TypeOK, PaymentTellsRefunds
    <2>7. refundedAmount' = CompletedAmount' /\ refundedAmount' > 0
      BY <1>6, <2>4, <2>5, <2>6 DEF CompletedGains
    <2>8. refundedAmount' \in Nat BY DEF TypeOK
    <2>9. Amount - GatewayFee \in Int BY PaymentNumbers
    <2>10. paymentRefund' = "full" => refundedAmount' >= Amount - GatewayFee
      BY <1>6, <2>8, <2>9, FullMeansMost DEF CompletedGains
    <2> QED BY <1>6, <2>7, <2>10 DEF CompletedGains, PaymentTellsRefunds
  <1> QED BY <1>5, <1>6 DEF AmountsMove

(* Every step is such a move.                                               *)
LEMMA SameRows ==
    ASSUME UNCHANGED <<status, terms, paymentRefund, refundedAmount>>
    PROVE  AmountsMove
  BY DEF AmountsMove, TermsStand, ActiveKept, CompletedKept, ActiveRefunds, CompletedRefunds

LEMMA CreatedAmounts ==
    ASSUME TypeOK, NEW q \in Refunds, NEW t \in Terms, NEW automatic \in BOOLEAN,
           NEW withBank \in BOOLEAN, Created(q, t, automatic, withBank)
    PROVE  AmountsMove /\ t.amount > 0
  <1>1. /\ status[q] = "none" /\ t.amount > 0
        /\ ActiveRefundAmount + t.amount <= Amount
        /\ terms' = [terms EXCEPT ![q] = t]
        /\ refundedAmount' = refundedAmount
        /\ paymentRefund' = IF paymentRefund = "none" THEN "pending" ELSE paymentRefund
    BY DEF Created, CreateRefundInScope
  <1>2. status' = [status EXCEPT ![q] = IF automatic THEN "approved" ELSE "requested"]
    BY DEF Created, CreateRefundInScope
  <1>3. TermsStand BY <1>1, <1>2 DEF TermsStand, TypeOK
  <1>4. CompletedRefunds' = CompletedRefunds
    BY <1>1, <1>2 DEF CompletedRefunds, TypeOK
  <1>5. CompletedKept BY <1>1, <1>4 DEF CompletedKept
  <1>6. CASE automatic
    <2>1. q \notin ActiveRefunds BY <1>1 DEF ActiveRefunds, Active
    <2>2. ActiveRefunds' = ActiveRefunds \cup {q}
      BY <1>2, <1>6 DEF ActiveRefunds, Active, TypeOK
    <2>3. terms'[q].amount = t.amount BY <1>1 DEF TypeOK
    <2> QED BY <1>1, <1>3, <1>5, <2>1, <2>2, <2>3 DEF AmountsMove, ActiveGains
  <1>7. CASE ~automatic
    <2>1. ActiveKept BY <1>1, <1>2, <1>7 DEF ActiveKept, ActiveRefunds, Active, TypeOK
    <2> QED BY <1>1, <1>3, <1>5, <2>1 DEF AmountsMove
  <1> QED BY <1>6, <1>7

LEMMA ApprovedAmounts ==
    ASSUME TypeOK, ReadApprovedStands, NEW a \in Admins, ApproveRefund(a)
    PROVE  AmountsMove
  <1> DEFINE q == approval[a].on
  <1>1. /\ q \in Refunds /\ status[q] \in Approvable
        /\ AlreadyAllocated(q, approval[a].read) + terms[q].amount <= Amount
        /\ status' = [status EXCEPT ![q] = "approved"]
        /\ UNCHANGED <<terms, paymentRefund, refundedAmount>>
    BY DEF ApproveRefund
  <1>2. TermsStand BY <1>1 DEF TermsStand, Approvable, TypeOK
  <1>3. CompletedKept
    BY <1>1 DEF CompletedKept, CompletedRefunds, Approvable, TypeOK
  <1>4. CASE status[q] = "approved"
    <2>1. ActiveKept BY <1>1, <1>4 DEF ActiveKept, ActiveRefunds, Active, TypeOK
    <2> QED BY <1>2, <1>3, <2>1 DEF AmountsMove
  <1>5. CASE status[q] = "requested"
    <2>1. approval[a].read.status # "approved"
      BY <1>1, <1>5 DEF ReadApprovedStands, Active
    <2>2. AlreadyAllocated(q, approval[a].read) = ActiveRefundAmount
      BY <2>1 DEF AlreadyAllocated
    <2>3. q \notin ActiveRefunds BY <1>5 DEF ActiveRefunds, Active
    <2>4. ActiveRefunds' = ActiveRefunds \cup {q}
      BY <1>1 DEF ActiveRefunds, Active, TypeOK
    <2>5. ActiveGains(q) BY <1>1, <2>2, <2>3, <2>4 DEF ActiveGains
    <2> QED BY <1>1, <1>2, <1>3, <2>5 DEF AmountsMove
  <1> QED BY <1>1, <1>4, <1>5 DEF Approvable

LEMMA MovedOnAmounts ==
    ASSUME TypeOK, NEW q \in Refunds, ProcessManualRefund(q)
    PROVE  AmountsMove
  <1>1. /\ status' = [status EXCEPT ![q] = IF MovesOn(q) THEN "processing" ELSE @]
        /\ UNCHANGED <<terms, paymentRefund, refundedAmount>>
    BY DEF ProcessManualRefund, bookVars
  <1>2. TermsStand BY <1>1 DEF TermsStand, MovesOn, TypeOK
  <1>3. CASE MovesOn(q)
    <2>1. status[q] = "approved" BY <1>3 DEF MovesOn
    <2>2. ActiveKept BY <1>1, <1>3, <2>1 DEF ActiveKept, ActiveRefunds, Active, TypeOK
    <2>3. CompletedKept BY <1>1, <1>3, <2>1 DEF CompletedKept, CompletedRefunds, TypeOK
    <2> QED BY <1>2, <2>2, <2>3 DEF AmountsMove
  <1>4. CASE ~MovesOn(q)
    <2>1. status' = status BY <1>1, <1>4 DEF TypeOK
    <2> QED BY <1>1, <2>1, SameRows
  <1> QED BY <1>3, <1>4

LEMMA PaidBackAmounts ==
    ASSUME TypeOK, NEW q \in Refunds, MarkRefundCompleted(q)
    PROVE  AmountsMove
  <1>1. /\ status[q] = "processing"
        /\ status' = [status EXCEPT ![q] = "completed"]
        /\ refundedAmount' = refundedAmount + terms[q].amount
        /\ paymentRefund' = IF refundedAmount' >= FullThreshold(q) THEN "full" ELSE "partial"
        /\ terms' = terms
    BY DEF MarkRefundCompleted
  <1>2. TermsStand BY <1>1 DEF TermsStand, TypeOK
  <1>3. ActiveKept BY <1>1 DEF ActiveKept, ActiveRefunds, Active, TypeOK
  <1>4. q \notin CompletedRefunds /\ CompletedRefunds' = CompletedRefunds \cup {q}
    BY <1>1 DEF CompletedRefunds, TypeOK
  <1>5. /\ paymentRefund' \in {"partial", "full"}
        /\ paymentRefund' = "full" => refundedAmount' >= FullThreshold(q)
    BY <1>1
  <1>6. CompletedGains(q) BY <1>1, <1>4, <1>5 DEF CompletedGains
  <1> QED BY <1>2, <1>3, <1>6 DEF AmountsMove

LEMMA StepAmounts ==
    ASSUME TypeOK, ReadApprovedStands, [Next]_vars
    PROVE  AmountsMove
  <1>1. ASSUME NEW q \in Refunds,
               CreateRefundRequest(q) \/ CancelBooking(q) \/ AutomaticRefund(q)
        PROVE  AmountsMove
    BY <1>1, CreationCases, CreatedAmounts
  <1>2. ASSUME NEW q \in Refunds, RejectRefund(q) PROVE AmountsMove
    <2>1. /\ status[q] = "requested" /\ status' = [status EXCEPT ![q] = "rejected"]
          /\ UNCHANGED <<terms, paymentRefund, refundedAmount>>
      BY <1>2 DEF RejectRefund, Rejectable, bookVars
    <2>2. ActiveKept BY <2>1 DEF ActiveKept, ActiveRefunds, Active, TypeOK
    <2>3. CompletedKept BY <2>1 DEF CompletedKept, CompletedRefunds, TypeOK
    <2>4. TermsStand BY <2>1 DEF TermsStand, TypeOK
    <2> QED BY <2>2, <2>3, <2>4 DEF AmountsMove
  <1>3. ASSUME NEW q \in Refunds, MarkRefundCompleted(q) PROVE AmountsMove
    BY <1>3, PaidBackAmounts
  <1>4. CASE ApprovalStep
    <2>1. PICK a \in Admins :
              \/ \E r \in Refunds, givesBank \in BOOLEAN : StartApproval(a, r, givesBank)
              \/ ApproveRefund(a) \/ AbortApproval(a)
      BY <1>4 DEF ApprovalStep
    <2>2. CASE ApproveRefund(a) BY <2>2, ApprovedAmounts
    <2>3. CASE ~ApproveRefund(a)
      BY <2>1, <2>3, SameRows DEF StartApproval, AbortApproval, rowVars, bookVars
    <2> QED BY <2>2, <2>3
  <1>5. CASE J08Step
    <2>1. PICK q \in Refunds :
              \/ EnqueueRefund(q) \/ LoseCallback(q)
              \/ StartJ08(q) \/ ProcessManualRefund(q) \/ GiveUp(q) \/ EvictJob(q)
      BY <1>5 DEF J08Step
    <2>2. CASE ProcessManualRefund(q) BY <2>2, MovedOnAmounts
    <2>3. CASE ~ProcessManualRefund(q)
      BY <2>1, <2>3, SameRows
         DEF EnqueueRefund, LoseCallback, StartJ08, GiveUp, EvictJob, rowVars, bookVars
    <2> QED BY <2>2, <2>3
  <1>6. CASE UNCHANGED vars BY <1>6, SameRows DEF vars, rowVars, bookVars
  <1> QED BY <1>1, <1>2, <1>3, <1>4, <1>5, <1>6 DEF Next

LEMMA StepReads ==
    ASSUME TypeOK, ReadApprovedStands, [Next]_vars
    PROVE  ReadApprovedStands'
  <1>1. ASSUME NEW r \in Refunds, status[r] \in Active PROVE status'[r] \in Active
    <2>1. RefundMove(r) BY StepMoves
    <2> QED BY <1>1, <2>1
            DEF RefundMove, Untouched, Requested, Approved, Rejected, Moved, Completed, Active
  <1>2. CASE ApprovalStep
    <2>1. PICK b \in Admins :
              \/ \E r \in Refunds, givesBank \in BOOLEAN : StartApproval(b, r, givesBank)
              \/ ApproveRefund(b) \/ AbortApproval(b)
      BY <1>2 DEF ApprovalStep
    <2>2. ASSUME NEW a \in Admins, a # b PROVE approval'[a] = approval[a]
      BY <2>1, <2>2 DEF StartApproval, ApproveRefund, AbortApproval, TypeOK
    <2>3. CASE ApproveRefund(b) \/ AbortApproval(b)
      <3>1. approval'[b] = Idle BY <2>3 DEF ApproveRefund, AbortApproval, TypeOK
      <3>2. "idle" \notin Refunds BY RefundsAssumption
      <3>3. approval'[b].on \notin Refunds BY <3>1, <3>2 DEF Idle
      <3> QED BY <1>1, <2>2, <3>3 DEF ReadApprovedStands
    <2>4. ASSUME NEW r \in Refunds, NEW givesBank \in BOOLEAN, StartApproval(b, r, givesBank)
          PROVE  ReadApprovedStands'
      <3>1. /\ approval'[b].on = r /\ approval'[b].read.status = status[r]
            /\ status' = status
        BY <2>4 DEF StartApproval, Read, rowVars, TypeOK
      <3>2. approval'[b].read.status = "approved" => status'[r] \in Active
        BY <3>1 DEF Active
      <3> QED BY <1>1, <2>2, <3>1, <3>2 DEF ReadApprovedStands
    <2> QED BY <2>1, <2>3, <2>4
  <1>3. CASE UNCHANGED approval
    BY <1>1, <1>3 DEF ReadApprovedStands
  <1>4. ApprovalStep \/ UNCHANGED approval
    BY DEF Next, CreateRefundRequest, CancelBooking, AutomaticRefund, CreateRefundInScope,
           RejectRefund, MarkRefundCompleted, J08Step, EnqueueRefund, LoseCallback, StartJ08,
           ProcessManualRefund, GiveUp, EvictJob, vars
  <1> QED BY <1>2, <1>3, <1>4

LEMMA InitAmounts == Init => AmountsInv
  <1> SUFFICES ASSUME Init PROVE AmountsInv OBVIOUS
  <1>1. ActiveRefunds = {} /\ CompletedRefunds = {}
    BY DEF Init, ActiveRefunds, CompletedRefunds, Active
  <1>2. ActiveRefundAmount = 0 /\ CompletedAmount = 0
    BY <1>1, SumOfNone DEF ActiveRefundAmount, CompletedAmount, ActiveRefunds, CompletedRefunds
  <1>3. AllocatedWithinPayment BY <1>2, PaymentNumbers DEF AllocatedWithinPayment
  <1>4. PaymentTellsRefunds BY <1>2 DEF Init, PaymentTellsRefunds
  <1>5. ReadApprovedStands
    BY RefundsAssumption DEF Init, ReadApprovedStands, Idle
  <1>6. AmountsArePositive BY DEF Init, AmountsArePositive
  <1> QED BY <1>3, <1>4, <1>5, <1>6 DEF AmountsInv

LEMMA StepAmountsInv ==
    ASSUME TypeOK, TypeOK', AmountsInv, [Next]_vars
    PROVE  AmountsInv'
  <1>1. AmountsMove BY StepAmounts DEF AmountsInv
  <1>2. AllocatedWithinPayment' BY <1>1, MoveKeepsAllocation DEF AmountsInv
  <1>3. PaymentTellsRefunds' BY <1>1, MoveKeepsColumns DEF AmountsInv
  <1>4. ReadApprovedStands' BY StepReads DEF AmountsInv
  <1>5. AmountsArePositive'
    BY <1>1 DEF AmountsMove, TermsStand, AmountsInv, AmountsArePositive
  <1> QED BY <1>2, <1>3, <1>4, <1>5 DEF AmountsInv

LEMMA AmountsHold == Spec => []AmountsInv
  BY RefundsTypeCorrect, InitAmounts, StepAmountsInv, PTL DEF Spec

\* 07 BR-P-51: whatever staff, cancellations and late settlements ask for and
\* however approvals overlap, what is given away never exceeds the payment.
THEOREM AllocationBounded == Spec => []AllocatedWithinPayment
  <1>1. AmountsInv => AllocatedWithinPayment BY DEF AmountsInv
  <1> QED BY <1>1, AmountsHold, PTL

\* The columns of the payment are the total of its completed refunds, and say
\* "full" only when at most the gateway fee was kept.
THEOREM ColumnsTell == Spec => []PaymentTellsRefunds
  <1>1. AmountsInv => PaymentTellsRefunds BY DEF AmountsInv
  <1> QED BY <1>1, AmountsHold, PTL
=============================================================================
