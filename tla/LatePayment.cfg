CONSTANTS
    b1 = b1
    b2 = b2
    p1 = p1
    cu1 = cu1
    cu2 = cu2
    Bookings = {b1, b2}
    Maintenances = {}
    Slots = {s1}
    Payments = {p1, p2, p3}
    BookingOf <- TwoBookings
    Customers = {cu1, cu2}
    CustomerOf <- EachOwn
    WalkIns = {}
    FreeBookings = {b1}
    Workers = {w1}
    MaxPending = 2
    PromoQuota = 0
    RefundOwed = {TRUE}
SPECIFICATION Spec
SYMMETRY Symmetric
INVARIANTS PaidIsAccounted ExpiredOwnsNothing
PROPERTIES PaidBuysSlots
CHECK_DEADLOCK FALSE
