SPECIFICATION DiskSpec
CONSTANTS
    Chaddr = {c1, p1}
    Phones = {p1}
    NoChaddr = NoChaddr
    MaxLeases = 2
    Config1 <- MCConfig1
    Config2 <- MCConfig2
    EnblSrv1 = TRUE
    EnblSrv2 = TRUE
    Reserved = {}
    OfferTime = 1
    DeclineTime = 1
    MinLease = 1
    AutoTime = 1
    Packets <- MCPackets
    ArpReplies <- NoArpReplies
    MaxUptime = 2
INVARIANTS DiskTypeOK PoolDiscipline
PROPERTIES RecoveredKeepsTime
