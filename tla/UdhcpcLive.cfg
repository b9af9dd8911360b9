SPECIFICATION FairSpec
CONSTANTS
    a1 = a1
    a2 = a2
    Addrs = {a1}
    Leases = {5}
    T1Timeouts = {1}
    T2Timeouts = {2}
    WordSize = 65536
    Signals <- AllSignals
    MaxWire = 1
    MaxInbox = 1
    Never = Never
    AgeCap = 5
PROPERTIES KeepsLease ReleasedStays
