SPECIFICATION Spec
CONSTANTS
    Chaddr = {c1, c2, c3}
    Phones = {}
    NoChaddr = NoChaddr
    MaxLeases = 2
    Config1 <- MCConfig1
    Config2 <- MCConfig2
    EnblSrv1 = TRUE
    EnblSrv2 = FALSE
    Reserved = {259}
    OfferTime = 1
    DeclineTime = 2
    MinLease = 1
    Packets <- OnePoolPackets
    ArpReplies <- MCArpReplies
    MaxUptime = 5
SYMMETRY ChaddrSymmetry
INVARIANTS TypeOK UniqueHolders NoDoubleGrant GrantBacked PoolDiscipline
PROPERTIES RunningLeaseKept SlotStable
