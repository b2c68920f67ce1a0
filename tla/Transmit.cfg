SPECIFICATION TSpec
CONSTANTS
    t1 = t1
    t2 = t2
    Threads <- MCThreads
    Lists = {"mac", "vlan"}
    MaxItems = 2
    VlanIds = {0, 9}
    MaxPackets = 3
    Packets <- MCPackets
SYMMETRY Symmetric
INVARIANTS AddressedAsAsked TaggedAsAsked OverrunNeedsAnother TakesTheNext
\* The packets have been sent.
CHECK_DEADLOCK FALSE
