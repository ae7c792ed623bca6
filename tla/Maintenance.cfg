CONSTANTS
    b1 = b1
    b2 = b2
    p1 = p1
    cu1 = cu1
    cu2 = cu2
    Bookings = {b1, b2}
    Maintenances = {m1, m2}
    Slots = {s1, s2}
    Payments = {p1}
    BookingOf <- TwoBookings
    Customers = {cu1, cu2}
    CustomerOf <- EachOwn
    WalkIns = {b2}
    FreeBookings = {}
    Workers = {w1}
    MaxPending = 2
    Nobody = Nobody
    PromoQuota = 0
    RefundOwed = {TRUE}
SPECIFICATION Spec
PROPERTIES ImplementsBoard
INVARIANTS MaintenanceKept
SYMMETRY Symmetric
CHECK_DEADLOCK FALSE
