CONSTANTS
    b1 = b1
    b2 = b2
    p1 = p1
    cu1 = cu1
    cu2 = cu2
    Bookings = {b1, b2}
    Maintenances = {}
    Slots = {s1, s2}
    Payments = {p1}
    BookingOf <- TwoBookings
    Customers = {cu1, cu2}
    CustomerOf <- EachOwn
    WalkIns = {}
    FreeBookings = {}
    Workers = {w1}
    MaxPending = 2
    Nobody = Nobody
    PromoQuota = 1
    RefundOwed = {TRUE, FALSE}
    Pages = {t1}
    Calls = {f1, f2}
    MaxTokens = 3
SPECIFICATION OvertakingSpec
PROPERTIES HandoverOnlyOffLapsedHold LeftStaysOut
INVARIANTS SlotExclusive LiveHoldKept QuotaExact 
SYMMETRY SymmetricCalls
CHECK_DEADLOCK FALSE
