\* Every fault, three requests for one or two exchanges.
CONSTANTS
    Requests = {r1, r2, r3}
    Exchanges = {e1, e2}
    NoRequest = NoRequest
    MaxChunks = 1
    Faults = {"provider", "resolve", "cancel", "disconnect", "database", "crash"}
SPECIFICATION Spec
SYMMETRY RequestSymmetry
INVARIANTS TypeOK AtMostOneGeneration OwnershipInv
PROPERTIES TakeoverOnlyFromFailed ArchivedStaysQuiet ImplementsContract
CHECK_DEADLOCK FALSE
