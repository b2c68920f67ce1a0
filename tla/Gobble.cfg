SPECIFICATION FairSpec
CONSTANTS
    Contexts <- MCContexts
    MAX_PKT_BURST = 3
    DrainDelay = 2
    StatsDelay = 3
INVARIANTS TypeOK WritesCoverBuffer RoomForFullRead NothingOverdue WritesBounded
PROPERTIES StopsWhenTold OneTxDrains DrainsWhenQuiet StatsWhenIdle
