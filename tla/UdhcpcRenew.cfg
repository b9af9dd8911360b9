SPECIFICATION Spec
CONSTANTS
    a1 = a1
    a2 = a2
    Addrs = {a1, a2}
    Leases = {1, 9}
    T1Timeouts = {1}
    T2Timeouts = {2}
    WordSize = 65536
    Signals <- RenewSignals
    MaxWire = 2
    MaxInbox = 1
    Never = Never
    AgeCap = 18
SYMMETRY Symmetry
INVARIANTS TypeOK UseWithinLease InterfaceAgrees TimersOrdered
PROPERTIES AckForRequest
