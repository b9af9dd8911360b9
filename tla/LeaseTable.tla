------------------------------ MODULE LeaseTable ------------------------------
(***************************************************************************)
(* The lease table of the udhcp server (udhcp/leases.c): a fixed array of  *)
(* max_leases slots.  Each slot ties a client hardware address (chaddr)    *)
(* to an address (yiaddr) until a point of the system uptime (expires).    *)
(* A zeroed slot is free.  Every operator is a pure function of a table    *)
(* and of the uptime; the C functions work on the global `leases'.         *)
(*                                                                         *)
(* Addresses are natural numbers in host byte order, 0 meaning "none".     *)
(* The host name and vendor id kept in a slot take no part in any decision *)
(* and are left out.                                                       *)
(***************************************************************************)
EXTENDS Naturals

CONSTANTS
    Chaddr,      \* hardware addresses of the clients
    NoChaddr,    \* the all-zero hardware address
    MaxLeases    \* server_config.max_leases

ASSUME LeaseTableAssumption ==
    /\ NoChaddr \notin Chaddr
    /\ MaxLeases \in Nat

-----------------------------------------------------------------------------
Slots == 0 .. MaxLeases - 1

\* The NULL pointer of the look-up functions: one past the last slot.
NULL == MaxLeases

\* struct dhcpOfferedAddr
Lease == [chaddr : Chaddr \cup {NoChaddr}, yiaddr : Nat, expires : Nat]

Tables == [Slots -> Lease]

\* What memset leaves in a slot.
Blank == [chaddr |-> NoChaddr, yiaddr |-> 0, expires |-> 0]

EmptyTable == [i \in Slots |-> Blank]

\* The loops of leases.c return the first slot that satisfies their test.
First(S) == IF S = {} THEN NULL ELSE CHOOSE i \in S : \A j \in S : i <= j

-----------------------------------------------------------------------------
\* Mutant: only the client's old records are cleared.
clear_lease_ByChaddr(T, chaddr, yiaddr) ==
    [i \in Slots |-> IF T[i].chaddr = chaddr THEN Blank ELSE T[i]]

clear_lease(T, chaddr, yiaddr) ==
    [i \in Slots |->
        IF \/ chaddr # NoChaddr /\ T[i].chaddr = chaddr
           \/ yiaddr # 0 /\ T[i].yiaddr = yiaddr
        THEN Blank
        ELSE T[i]]

\* Mutant: a lease is over in its last second.
lease_expired_Early(lease, now) == lease.expires <= now

lease_expired(lease, now) == lease.expires < now

Expired(T, now) == {i \in Slots : lease_expired(T[i], now)}

\* Mutants: expiry is not looked at; the first expired slot is taken, not the oldest.
oldest_lease(T, now) ==
    First({i \in Slots : \A j \in Slots : T[i].expires <= T[j].expires})
first_expired_lease(T, now) == First(Expired(T, now))

\* Among the slots whose expiry lies strictly in the past, the first of those
\* that expired earliest; a free slot counts as expired at uptime 0.
oldest_expired_lease(T, now) ==
    First({i \in Expired(T, now) :
              \A j \in Expired(T, now) : T[i].expires <= T[j].expires})

\* Mutant: the lease time is taken for the expiry.
add_lease_Relative(T, chaddr, yiaddr, lease, now) ==
    LET C == clear_lease(T, chaddr, yiaddr)
        oldest == oldest_expired_lease(C, now)
    IN  [i \in Slots |->
            IF i = oldest
            THEN [chaddr |-> chaddr, yiaddr |-> yiaddr, expires |-> lease]
            ELSE C[i]]

\* The table after add_lease.  The old records of the client and of the
\* address are wiped even when no slot is found for the new one.
add_lease(T, chaddr, yiaddr, lease, now) ==
    LET C == clear_lease(T, chaddr, yiaddr)
        oldest == oldest_expired_lease(C, now)
    IN  [i \in Slots |->
            IF i = oldest
            THEN [chaddr |-> chaddr, yiaddr |-> yiaddr, expires |-> now + lease]
            ELSE C[i]]

\* add_lease returned NULL.
add_lease_fails(T, chaddr, yiaddr, now) ==
    oldest_expired_lease(clear_lease(T, chaddr, yiaddr), now) = NULL

find_lease_by_chaddr(T, chaddr) == First({i \in Slots : T[i].chaddr = chaddr})

find_lease_by_yiaddr(T, yiaddr) == First({i \in Slots : T[i].yiaddr = yiaddr})

\* Nobody holds the address, or (when check_expired) its holder's time is up.
address_free(T, yiaddr, check_expired, now) ==
    LET lease == find_lease_by_yiaddr(T, yiaddr)
    IN  \/ lease = NULL
        \/ check_expired /\ lease_expired(T[lease], now)

\* Mutant: the server's and the router's own addresses are not skipped.
find_address_Own(T, cfg, reserved, arp, check_expired, now) ==
    LET candidates == {a \in cfg.start .. cfg.end :
                          /\ a % 256 \notin {0, 255}
                          /\ a \notin reserved
                          /\ address_free(T, a, check_expired, now)
                          /\ a \notin arp}
    IN  IF candidates = {} THEN 0
        ELSE CHOOSE a \in candidates : \A b \in candidates : a <= b

\* find_address over the configuration cfg: the lowest address of the pool that
\* is not a network or broadcast address, not reserved, not the server's or the
\* router's, free in the table, and that no host answers for (arp is the set of
\* addresses for which check_ip gets an ARP reply); 0 if there is none.  check_ip also
\* reads the address of the interface again, which is taken not to change.
find_address(T, cfg, reserved, arp, check_expired, now) ==
    LET candidates == {a \in cfg.start .. cfg.end :
                          /\ a % 256 \notin {0, 255}
                          /\ a \notin reserved
                          /\ a # cfg.server
                          /\ a # cfg.router
                          /\ address_free(T, a, check_expired, now)
                          /\ a \notin arp}
    IN  IF candidates = {} THEN 0
        ELSE CHOOSE a \in candidates : \A b \in candidates : a <= b

-----------------------------------------------------------------------------
\* Each client has at most one record and each address at most one holder.
Injective(T) ==
    \A i, j \in Slots : i # j =>
        /\ T[i].chaddr # NoChaddr => T[i].chaddr # T[j].chaddr
        /\ T[i].yiaddr # 0 => T[i].yiaddr # T[j].yiaddr

=============================================================================
