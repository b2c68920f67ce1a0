SPECIFICATION FairSpec
CONSTANTS
    NULL = NULL
    UNSET = UNSET
    d1 = d1
    d2 = d2
    d3 = d3
    POOL_STEP = 2
    TX_PLACES = 18
    ARGV_LEN = 18
    LINK_ROUNDS = 2
    Invocations <- MCInvocations
    Systems <- MCSystems
INVARIANTS ContextSound PoolHoldsDescriptors EveryDeviceMapped OptionsAsMeant
    SetsAsConfigured RunningIsStarted PortsUpWhileGobbling CleanExit
PROPERTY SignalEndsIt
