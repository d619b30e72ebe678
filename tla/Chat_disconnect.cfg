\* The client goes away while the generator is suspended.
CONSTANTS
    Requests = {r1, r2}
    Exchanges = {e1}
    NoRequest = NoRequest
    MaxChunks = 1
    Faults = {"disconnect"}
SPECIFICATION Spec
INVARIANTS NoStrandedStream
CHECK_DEADLOCK FALSE
