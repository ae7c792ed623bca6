CONSTANTS
    b1 = b1
    b2 = b2
    p1 = p1
    cu1 = cu1
    cu2 = cu2
    Bookings = {b1}
    Maintenances = {}
    Slots = {s1}
    Payments = {p1, p2}
    BookingOf <- OneBooking
    Customers = {cu1, cu2}
    CustomerOf <- EachOwn
    WalkIns = {}
    FreeBookings = {}
    Workers = {w1, w2}
    MaxPending = 1
    PromoQuota = 1
    RefundOwed = {TRUE}
SPECIFICATION Spec
INVARIANTS TypeOK OnePendingPayment ConfirmedIsPaid
PROPERTIES RiseOnlyByPayment CancelledIsFinal PaymentIsSettledOnce
SYMMETRY Symmetric
CHECK_DEADLOCK FALSE
