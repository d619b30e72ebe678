\* Every combination of faults; models and tools may hang.
CONSTANTS
    Tools = {"lookup", "other", "invented"}
    Registered = {"lookup", "other"}
    Configured = {"lookup"}
    MaxSteps = 3
    MaxToolCalls = 3
    MaxBatch = 2
    Faults = {"provider", "cancel", "database", "crash"}
SPECIFICATION FairSpec
INVARIANTS TypeOK TraceMatchesRun BudgetsHold AllowListHolds EveryCallAnswered AnsweredRunCompleted
PROPERTIES SettledStaysSettled EveryRunEnds
CHECK_DEADLOCK FALSE
