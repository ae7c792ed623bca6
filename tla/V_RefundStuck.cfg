SPECIFICATION Spec
CONSTANTS
    Refunds = {r1}
    Admins = {a1}
    Amount = 4
    GatewayFee = 1
    Amounts = {4}
    Owed = {"all"}
    RefundFaults = {}
PROPERTIES
    CompletedDestinationMoves
CHECK_DEADLOCK FALSE
