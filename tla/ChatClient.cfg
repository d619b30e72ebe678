CONSTANTS
    Stored <- MCStored
    PageSize = 2
    Chunks = 1
    Sends = {s1, s2}
    MaxReloads = 1
    MaxDoubts = 1
    None = None
SPECIFICATION Spec
SYMMETRY Symmetry
CHECK_DEADLOCK FALSE
INVARIANTS
    CompletedIsStored
    ShownFollowsStream
