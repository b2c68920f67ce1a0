SPECIFICATION AccSpec
CONSTANTS
    Contexts <- MCContexts
    MAX_PKT_BURST = 2
    DrainDelay = 1
    StatsDelay = 1
    MaxRx = 6
INVARIANT DropsComplete
