\* One wrapper from its boot to its exit.
SPECIFICATION FairSpec
CONSTANT MaxLaunch = 4
INVARIANTS TypeOK OneKeeper ReadyIsCurrent
PROPERTIES CleanShutdown Recovers
