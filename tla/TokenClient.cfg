\* Two requests, three token pairs, four combinations of events.
CONSTANTS
    Requests = {r1, r2}
    NoRequest = NoRequest
    MaxPairs = 3
    Exposures = {{"network"}, {"network", "lost", "restart", "revoke"},
                 {"network", "revoke", "leaveAll"}, {"revoke", "logout"}}
SPECIFICATION FairSpec
INVARIANTS TypeOK SingleFlight NoSelfReuse
PROPERTIES RetryIsFresh SignedInStays EveryRequestEnds
CHECK_DEADLOCK FALSE
