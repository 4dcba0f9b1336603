\* Two cycles, crashes, a watchdog and a merge script.
SPECIFICATION Spec
CONSTANTS
    w1 = w1  w2 = w2  snapshot = snapshot  candidate = candidate  scan = scan
    NoJob = NoJob
    Worker <- MCWorker  Event <- MCEvent  Direct <- MCDirect  External <- MCExternal
    EventKind <- MCKindFinal  Produces <- MCProduces  Priority <- MCPriority
    Doomed <- MCDoomed
    EventLimit = 2  JobLimit = 2
    StaleLease = 2  CycleTimeout = 1
    RetryStep = 1  RetryCap = 1
    MaxEventAttempts = 2  MaxJobAttempts = 2  Kills = TRUE  MaxAborts = 2
SYMMETRY Cycles
INVARIANTS TypeOK LeaseExclusive OutboxAgreement RetryBudget AttemptsBounded
PROPERTIES VerdictsFinal ImplementsWorkQueue
