\* The answer of a refresh is lost.
CONSTANTS
    Requests = {r1, r2, r3}
    NoRequest = NoRequest
    MaxPairs = 2
    Exposures = {{"lost"}}
SPECIFICATION Spec
PROPERTY NetworkFailureKeepsSession
CHECK_DEADLOCK FALSE
