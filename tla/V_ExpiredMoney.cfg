CONSTANTS
    b1 = b1
    b2 = b2
    p1 = p1
    cu1 = cu1
    cu2 = cu2
    Bookings = {b1}
    Maintenances = {}
    Slots = {s1}
    Payments = {p1}
    BookingOf <- OneBooking
    Customers = {cu1, cu2}
    CustomerOf <- EachOwn
    WalkIns = {}
    FreeBookings = {}
    Workers = {w1}
    MaxPending = 1
    PromoQuota = 0
    RefundOwed = {TRUE, FALSE}
SPECIFICATION Spec
INVARIANTS ExpiredMoneyIsTaken
SYMMETRY Symmetric
CHECK_DEADLOCK FALSE
