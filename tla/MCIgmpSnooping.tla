---------------------------- MODULE MCIgmpSnooping ----------------------------
(* Small instances of IGMP snooping: a bridge with two ports on the LAN switch *)
(* and two on the WAN side, and a second bridge without ports, whose removal   *)
(* empties the list all the same.                                              *)
EXTENDS IgmpSnooping, TLC

CONSTANTS br0, br1, h1, eth2, eth3, nas1, nas2, g1, upnp

\* A host that is seen on the LAN and upstream: two members of a group.
MCPlaces == {<<h1, eth2>>, <<h1, nas1>>}
\* A report that joins, a version 3 report that leaves, and one that leaves and
\* joins the same group.
MCReports == {<<{}, {g1}, {}>>, <<{}, {upnp}, {g1}>>, <<{g1}, {g1}, {}>>}
MCBridgeOf == [p \in Ports |-> br0]
=============================================================================
