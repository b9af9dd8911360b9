SPECIFICATION Spec
CONSTANTS
    Chaddr = {c1, p1, p2}
    Phones = {p1, p2}
    NoChaddr = NoChaddr
    MaxLeases = 2
    Config1 <- MCConfig1
    Config2 <- MCConfig2
    EnblSrv1 = TRUE
    EnblSrv2 = TRUE
    Reserved = {259}
    OfferTime = 1
    DeclineTime = 2
    MinLease = 1
    Packets <- TwoPoolPackets
    ArpReplies <- NoArpReplies
    MaxUptime = 3
SYMMETRY ChaddrSymmetry
INVARIANTS NoDoubleGrant GrantBacked PoolDiscipline
PROPERTIES RunningLeaseKept DefaultPoolImplements SecondPoolImplements
