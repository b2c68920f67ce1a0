SPECIFICATION FairSpec
CONSTANTS
    Contexts <- PairContexts
    MAX_PKT_BURST = 2
    DrainDelay = 1
    StatsDelay = 2
PROPERTY PeriodicFlush
