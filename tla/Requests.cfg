CONSTANTS
    q1 = q1  q2 = q2  q3 = q3  k1 = k1  k2 = k2  s1 = s1  s2 = s2
    Requests = {q1, q2, q3}
    Keys = {k1, k2}
    Scopes = {"booking.create"}
    Bodies = {"body", "other"}
    Call <- RetryCall
    Slots = {s1, s2}
    Wanted <- RetryWanted
    Direct = {}
    Faults = {"redis", "break off"}
    Refunds = {r1, r2}
    Admins = {a1, a2}
    Amount = 4
    GatewayFee = 1
    Amounts = {2}
    Owed = {"all less the fee", "half"}
    RefundFaults = {"crash", "attempt", "evict"}
SPECIFICATION RequestsSpec
INVARIANTS
    SlotHasOneOwner
    OneOrderPerKey
    AllocatedWithinPayment
    PaymentTellsRefunds
    RefundsAreBooked
    PaidToKnownDestination
PROPERTIES
    NeverPaidTwice
SYMMETRY Symmetry
CHECK_DEADLOCK FALSE
