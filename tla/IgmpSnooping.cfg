SPECIFICATION Spec
CONSTANTS
    Groups = {g1, upnp}
    Bypass = {upnp}
    Hosts = {h1}
    Ports = {eth2, eth3, nas1, nas2}
    Nas = {nas1, nas2}
    Switches = {{eth2, eth3}}
    Places <- MCPlaces
    Reports <- MCReports
    h1 = h1
    eth2 = eth2
    eth3 = eth3
    nas1 = nas1
    nas2 = nas2
    g1 = g1
    upnp = upnp
    br0 = br0
    br1 = br1
    Bridges = {br0, br1}
    BridgeOf <- MCBridgeOf
    QueryTimeout = 3
    CheckTimeout = 2
    WordSize = 6
    InitialJiffies = 3
    Stopped = Stopped
INVARIANTS TypeOK UniqueEntries MemberServed LeavePassedOnLast SilentDropped
