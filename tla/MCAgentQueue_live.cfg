\* Everything enqueued is settled, but for what cycles cut short without end held.
SPECIFICATION FairSpec
CONSTANTS
    w1 = w1  w2 = w2  snapshot = snapshot  candidate = candidate  scan = scan
    NoJob = NoJob
    Worker <- MCWorker  Event <- MCEvent  Direct <- MCDirect  External <- MCExternal
    EventKind <- MCKindUnknown  Produces <- MCProduces  Priority <- MCPriority
    Doomed <- MCNothing
    EventLimit = 2  JobLimit = 2
    StaleLease = 2  CycleTimeout = 1
    RetryStep = 1  RetryCap = 1
    MaxEventAttempts = 2  MaxJobAttempts = 2  Kills = TRUE  MaxAborts = 0
PROPERTIES EventsSettle JobsSettle
