\* Provider errors and lock cycles only, with fairness.
CONSTANTS
    Requests = {r1, r2, r3}
    Exchanges = {e1}
    NoRequest = NoRequest
    MaxChunks = 2
    Faults = {"provider"}
SPECIFICATION FairSpec
INVARIANTS ReceiptsStand NoStrandedStream
PROPERTIES EveryRequestEnds EveryStreamSettles
CHECK_DEADLOCK FALSE
