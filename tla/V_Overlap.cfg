CONSTANTS
    Opens = {0, 1}
    Closes = {4}
    Durations = {2}
    Claimers = {b1, b2}
    Editors = {e1}
    MaxEdits = 1
SPECIFICATION CourtGridSpec
INVARIANT ClaimsDisjoint
CHECK_DEADLOCK FALSE
