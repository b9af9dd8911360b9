------------------------------- MODULE MCUdhcpd -------------------------------
(* Small instances of the udhcp server. *)
EXTENDS Udhcpd, TLC

CONSTANTS Phones   \* the clients that send the vendor class of the second pool

\* Pool 1 straddles a .255/.0 boundary; 254 is the server's own address and 259
\* is reserved.
MCConfig1 == [start |-> 254, end |-> 259, server |-> 254, router |-> 254,
              lease |-> 2, lease_file |-> "udhcpd.leases"]
MCConfig2 == [start |-> 513, end |-> 514, server |-> 512, router |-> 0,
              lease |-> 3, lease_file |-> "udhcpd2.leases"]

\* What a client may send: addresses from addrs, server ids from servers.
ClientPackets(c, vendors, addrs, servers) ==
    LET P(types, req, sid, ci, lt) ==
            [type : types, chaddr : {c}, vendor : vendors, requested : req,
             server_id : sid, ciaddr : ci, lease_time : lt]
    IN  P({"DISCOVER"}, addrs \cup {0} \cup servers, {0}, {0}, {0})
        \cup P({"REQUEST"}, addrs, servers, {0}, {0})
        \cup P({"REQUEST"}, addrs, {0}, {0}, {0, 1})
        \cup P({"REQUEST"}, {0}, {0}, addrs, {0})
        \cup P({"DECLINE", "RELEASE", "INFORM"}, {0}, {0}, {0}, {0})

OnePoolPackets ==
    UNION {ClientPackets(c, {FALSE}, {257, 258, 259}, {254}) : c \in Chaddr}

\* Phones stay in the second pool, the other clients in the first.
TwoPoolPackets ==
    UNION {IF c \in Phones THEN ClientPackets(c, {TRUE}, {513, 514}, {512})
           ELSE ClientPackets(c, {FALSE}, {257}, {254}) : c \in Chaddr}

\* The phones send option 60 in some messages and not in others.
MixedPackets ==
    UNION {ClientPackets(c, IF c \in Phones THEN BOOLEAN ELSE {FALSE},
                         {513}, {254, 512}) : c \in Chaddr}

MCArpReplies == {{}, {257}}
NoArpReplies == {{}}
ChaddrSymmetry == Permutations(Chaddr \ Phones) \cup Permutations(Phones)
=============================================================================
