CONSTANTS
    Staff = {s1, s2}
    JobFaults = {"crash", "attempt"}
    MaxTokens = 4
    MaxSessions = 2
    Clients = {c1, c2}
    MaxAttempts = 2
    MaxEvents = 2
    MaxBreaks = 2
    Readers = {v1, v2}
    MaxChanges = 2
    CacheFaults = {"redis", "crash"}
    Confirmers = {m1, m2}
    StorageFaults = {"refuse", "crash", "unsure"}
    q1 = q1  q2 = q2  q3 = q3  q4 = q4  k1 = k1
    Requests = {q1, q2, q3, q4}
    Keys = {k1}
    Scopes = {"payment.create", "refund.create"}
    Bodies = {"body", "other"}
    Call <- OneKeyCall
    Faults = {"redis", "break off"}
    Opens = {0, 1}
    Closes = {4}
    Durations = {1, 2}
    Claimers = {b1, b2}
    Editors = {e1}
    MaxEdits = 1
    Rules <- StoredRules
    MaxRules = 3
    Dates <- CalendarDays
    Hours = {0, 1}
    UnitPrices = {100, 450, 1900}
    MaxLines = 2
    AddonTotals = {0, 150}
    Promos <- QuotePromos
    TaxRates = {0, 11}
SPECIFICATION ServicesSpec
INVARIANTS
    AttendanceDecides
    OneLivePerFamily
    SentTwiceOnlyByCrash
    ReadyHasObject
    OverlapMeansRegridded
    OfferedIsClaimable
    PriceIgnoresRowOrder
    QuoteAddsUp
PROPERTIES
    KeepsThePromise
    PastBookingEnds
    QueuedMailIsTried
    StaleGridEnds
    DeletedGoesAway
CHECK_DEADLOCK FALSE
