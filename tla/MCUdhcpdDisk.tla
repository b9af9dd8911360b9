----------------------------- MODULE MCUdhcpdDisk -----------------------------
(* Small instances of the udhcp server with its lease files. *)
EXTENDS UdhcpdDisk, TLC

CONSTANTS Phones   \* the clients that send the vendor class of the second pool

MCConfig1 == [start |-> 10, end |-> 11, server |-> 1, router |-> 1,
              lease |-> 2, lease_file |-> "udhcpd.leases"]
MCConfig2 == [start |-> 20, end |-> 21, server |-> 2, router |-> 2,
              lease |-> 2, lease_file |-> "udhcpd2.leases"]

\* What can put two records in a table, and end one of them early.
Messages(c, vendor, server) ==
    LET P(type, req, sid, ci) ==
            [type |-> type, chaddr |-> c, vendor |-> vendor, requested |-> req,
             server_id |-> sid, ciaddr |-> ci, lease_time |-> 0]
        addrs == IF vendor THEN {20, 21} ELSE {10, 11}
    IN  {P("DISCOVER", 0, 0, 0), P("DECLINE", 0, 0, 0)}
        \cup (IF vendor THEN {} ELSE {P("RELEASE", 0, 0, 0)})
        \cup {P("REQUEST", a, server, 0) : a \in addrs}

\* Phones stay in the second pool, the other clients in the default one.
MCPackets ==
    UNION {IF c \in Phones THEN Messages(c, TRUE, 2) ELSE Messages(c, FALSE, 1)
           : c \in Chaddr}

NoArpReplies == {{}}
=============================================================================
