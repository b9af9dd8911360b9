-------------------------------- MODULE Udhcpd --------------------------------
(***************************************************************************)
(* The main loop of the udhcp server (udhcp/dhcpd.c, function udhcpd, with *)
(* sendOffer and sendACK of serverpacket.c).  The daemon serves two        *)
(* address pools with one set of globals: a packet whose vendor class      *)
(* (option 60) matches the second pool makes it back up server_config and  *)
(* leases, overwrite them with the second pool's, handle the packet, and   *)
(* copy everything back.  Receive, the handler and Restore are separate    *)
(* steps because signals and the clock run between them.                   *)
(*                                                                         *)
(* The modelled build has two pools of the same size (max_leases and       *)
(* max_leases2 both default to 254) and no MAC/IP binding list.            *)
(***************************************************************************)
EXTENDS LeaseTable

CONSTANTS
    Config1, Config2,       \* server_config and server2_config as configured
    EnblSrv1, EnblSrv2,     \* g_enblSrv1, g_enblSrv2
    Reserved,               \* server_config.reservedAddr
    OfferTime, DeclineTime, MinLease,
    Packets,                \* the packets clients may send
    ArpReplies,             \* the sets of addresses that may answer ARP
    MaxUptime               \* bound on the clock

\* The fields of struct server_config_t that the handlers read.  router is the
\* DHCP_ROUTER entry of options, 0 if absent.
Config == [start : Nat, end : Nat, server : Nat, router : Nat,
           lease : Nat, lease_file : {"udhcpd.leases", "udhcpd2.leases"}]

\* A received packet; 0 stands for an absent option.  vendor says whether
\* option 60 is one of the vendor classes of the second pool.
Packet == [type : {"DISCOVER", "REQUEST", "DECLINE", "RELEASE", "INFORM"},
           chaddr : Chaddr, vendor : BOOLEAN, requested : Nat,
           server_id : Nat, ciaddr : Nat, lease_time : Nat]

ASSUME UdhcpdAssumption ==
    /\ Config1 \in Config /\ Config2 \in Config
    /\ EnblSrv1 \in BOOLEAN /\ EnblSrv2 \in BOOLEAN
    /\ Reserved \subseteq Nat
    /\ OfferTime \in Nat /\ DeclineTime \in Nat /\ MinLease \in Nat
    /\ Packets \subseteq Packet
    /\ MaxUptime \in Nat

VARIABLES
    uptime,          \* getSysUpTime()
    leases, leases2, tmpls,
    server_config, server2_config, tmpSrvCfg,
    pc,              \* where the main loop is
    packet,          \* the packet being handled
    reply,           \* the packet sent in this step, if any
    granted          \* ghost: what each client was last told it may use

vars == <<uptime, leases, leases2, tmpls, server_config, server2_config,
          tmpSrvCfg, pc, packet, reply, granted>>

configs == <<server_config, server2_config, tmpSrvCfg>>

\* Nothing is being handled / nothing is granted.
NoPacket == [type |-> "NONE"]
NoReply == [type |-> "NONE"]
NoGrant == [addr |-> 0, until |-> 0]

Init ==
    /\ uptime = 0
    /\ leases = EmptyTable
    /\ leases2 = EmptyTable
    /\ tmpls = EmptyTable
    /\ server_config = Config1
    /\ server2_config = Config2
    /\ tmpSrvCfg = Config1
    /\ pc = "select"
    /\ packet = NoPacket
    /\ reply = NoReply
    /\ granted = [c \in Chaddr |-> NoGrant]

-----------------------------------------------------------------------------
\* The packet belongs to the second pool.
UsePool2(p) == EnblSrv2 /\ p.vendor

\* Mutant: the range is not taken over.
SecondPoolConfig_SameRange ==
    [server_config EXCEPT !.server = server2_config.server,
                          !.router = server2_config.router]

\* server_config while a packet of the second pool is handled: only interface,
\* server, start, end, vendorid and options are taken over.
SecondPoolConfig ==
    [server_config EXCEPT !.start = server2_config.start,
                          !.end = server2_config.end,
                          !.server = server2_config.server,
                          !.router = server2_config.router]

\* Mutant: the packet is handled on the default pool's table.
ReceivePool2_KeepTable(p) ==
    /\ pc = "select"
    /\ UsePool2(p)
    /\ tmpSrvCfg' = server_config
    /\ server_config' = SecondPoolConfig
    /\ tmpls' = leases
    /\ packet' = p
    /\ reply' = NoReply
    /\ pc' = "handle"
    /\ UNCHANGED <<uptime, leases, leases2, server2_config, granted>>

ReceivePool2(p) ==
    /\ pc = "select"
    /\ UsePool2(p)
    /\ tmpSrvCfg' = server_config
    /\ server_config' = SecondPoolConfig
    /\ tmpls' = leases
    /\ leases' = leases2
    /\ packet' = p
    /\ reply' = NoReply
    /\ pc' = "handle"
    /\ UNCHANGED <<uptime, leases2, server2_config, granted>>

ReceivePool1(p) ==
    /\ pc = "select"
    /\ ~UsePool2(p)
    /\ EnblSrv1
    /\ packet' = p
    /\ reply' = NoReply
    /\ pc' = "handle"
    /\ UNCHANGED <<uptime, leases, leases2, tmpls, configs, granted>>

\* Mutant: the default pool's table is not copied back.
Restore_KeepTable ==
    /\ pc = "restore"
    /\ server2_config' = server_config
    /\ server_config' = tmpSrvCfg
    /\ leases2' = leases
    /\ tmpls' = EmptyTable
    /\ packet' = NoPacket
    /\ reply' = NoReply
    /\ pc' = "select"
    /\ UNCHANGED <<uptime, leases, tmpSrvCfg, granted>>

\* The second test of the vendor class, after the handler: the whole of
\* server_config, not only the fields taken over, goes to server2_config.
\* tmpls is dead until the next swap overwrites it; it is cleared here.
Restore ==
    /\ pc = "restore"
    /\ server2_config' = server_config
    /\ server_config' = tmpSrvCfg
    /\ leases2' = leases
    /\ leases' = tmpls
    /\ tmpls' = EmptyTable
    /\ packet' = NoPacket
    /\ reply' = NoReply
    /\ pc' = "select"
    /\ UNCHANGED <<uptime, tmpSrvCfg, granted>>

\* The end of a handler: only a packet of the second pool needs the restore.
Done ==
    /\ pc' = IF UsePool2(packet) THEN "restore" ELSE "select"
    /\ packet' = IF UsePool2(packet) THEN packet ELSE NoPacket
    /\ UNCHANGED <<uptime, tmpls, configs>>

-----------------------------------------------------------------------------
\* The address sendOffer picks, 0 if there is none.
OfferedAddress(T, cfg, p, arp, now) ==
    LET lease == find_lease_by_chaddr(T, p.chaddr)
        Find(check_expired) ==
            find_address(T, cfg, Reserved, arp, check_expired, now)
        requestable == /\ p.requested # 0
                       /\ p.requested \in cfg.start .. cfg.end
                       /\ p.requested \notin Reserved
                       /\ address_free(T, p.requested, TRUE, now)
    IN  CASE lease # NULL -> T[lease].yiaddr
          [] lease = NULL /\ requestable ->
                IF p.requested \in {cfg.server, cfg.router}
                THEN Find(FALSE) ELSE p.requested
          [] OTHER ->
                IF Find(FALSE) # 0 THEN Find(FALSE) ELSE Find(TRUE)

\* Mutant: the time left of the client's record is announced as it is.
OfferLeaseTime_Left(T, cfg, p, now) ==
    LET lease == find_lease_by_chaddr(T, p.chaddr)
    IN  IF lease # NULL THEN T[lease].expires - now ELSE cfg.lease

\* The lease time announced in an offer.
OfferLeaseTime(T, cfg, p, now) ==
    LET lease == find_lease_by_chaddr(T, p.chaddr)
        time == CASE p.lease_time > cfg.lease -> cfg.lease
                  [] p.lease_time \in 1 .. cfg.lease -> p.lease_time
                  [] OTHER -> IF lease # NULL /\ ~lease_expired(T[lease], now)
                              THEN T[lease].expires - now ELSE cfg.lease
    IN  IF time < MinLease THEN cfg.lease ELSE time

Reply(type, yiaddr, lease) ==
    [type |-> type, chaddr |-> packet.chaddr, yiaddr |-> yiaddr,
     lease |-> lease, server_id |-> server_config.server]

\* sendOffer.  A client that discovers has dropped what it was granted.
DiscoverOffer(arp) ==
    LET yiaddr == OfferedAddress(leases, server_config, packet, arp, uptime)
    IN  /\ pc = "handle"
        /\ packet.type = "DISCOVER"
        /\ yiaddr # 0
        /\ leases' = add_lease(leases, packet.chaddr, yiaddr, OfferTime, uptime)
        /\ reply' = IF add_lease_fails(leases, packet.chaddr, yiaddr, uptime)
                    THEN NoReply
                    ELSE Reply("OFFER", yiaddr,
                               OfferLeaseTime(leases, server_config, packet, uptime))
        /\ granted' = [granted EXCEPT ![packet.chaddr] = NoGrant]
        /\ UNCHANGED leases2
        /\ Done

DiscoverAbandoned(arp) ==
    /\ pc = "handle"
    /\ packet.type = "DISCOVER"
    /\ OfferedAddress(leases, server_config, packet, arp, uptime) = 0
    /\ granted' = [granted EXCEPT ![packet.chaddr] = NoGrant]
    /\ reply' = NoReply
    /\ UNCHANGED <<leases, leases2>>
    /\ Done

\* The record the main loop looked up for the packet: one of leases, else one
\* of leases2 (find_lease_two_by_chaddr), else NULL in both.
Lease1 == find_lease_by_chaddr(leases, packet.chaddr)
Lease2 == IF Lease1 # NULL THEN NULL
          ELSE find_lease_by_chaddr(leases2, packet.chaddr)
LeaseKnown == Lease1 # NULL \/ Lease2 # NULL
LeaseYiaddr == IF Lease1 # NULL THEN leases[Lease1].yiaddr
               ELSE leases2[Lease2].yiaddr

\* The lease time of sendACK: what the client asks for within
\* [min_lease, lease], otherwise the configured time.
AckLeaseTime ==
    IF packet.lease_time # 0 /\ packet.lease_time \in MinLease .. server_config.lease
    THEN packet.lease_time ELSE server_config.lease

\* REQUEST with a server id is a choice among offers (SELECTING), with only a
\* requested address a reboot (INIT-REBOOT), with neither a renewal.
AckDue ==
    /\ LeaseKnown
    /\ IF packet.server_id # 0
       THEN /\ packet.server_id = server_config.server
            /\ packet.requested # 0 /\ packet.requested = LeaseYiaddr
       ELSE IF packet.requested # 0 THEN packet.requested = LeaseYiaddr
            ELSE packet.ciaddr = LeaseYiaddr

\* sendACK: the table is updated only once the packet is out.
RequestAck ==
    /\ pc = "handle"
    /\ packet.type = "REQUEST"
    /\ AckDue
    /\ leases' = add_lease(leases, packet.chaddr, LeaseYiaddr, AckLeaseTime, uptime)
    /\ reply' = Reply("ACK", LeaseYiaddr, AckLeaseTime)
    /\ granted' = [granted EXCEPT ![packet.chaddr] =
                      [addr |-> LeaseYiaddr, until |-> uptime + AckLeaseTime]]
    /\ UNCHANGED leases2
    /\ Done

RequestAckNotSent ==
    /\ pc = "handle"
    /\ packet.type = "REQUEST"
    /\ AckDue
    /\ reply' = NoReply
    /\ UNCHANGED <<leases, leases2, granted>>
    /\ Done

\* sendNAK, unless the request names a server: then a client known here is
\* refused in silence.
RequestRefuse ==
    /\ pc = "handle"
    /\ packet.type = "REQUEST"
    /\ ~AckDue
    /\ reply' = IF LeaseKnown /\ packet.server_id # 0 THEN NoReply
                ELSE Reply("NAK", 0, 0)
    /\ UNCHANGED <<leases, leases2, granted>>
    /\ Done

\* Write r to the record the look-up found, in the table it was found in.
UpdateFound(r(_)) ==
    /\ leases' = IF Lease1 = NULL THEN leases
                 ELSE [leases EXCEPT ![Lease1] = r(leases[Lease1])]
    /\ leases2' = IF Lease2 = NULL THEN leases2
                  ELSE [leases2 EXCEPT ![Lease2] = r(leases2[Lease2])]

Decline ==
    LET Reserve(l) == [chaddr |-> NoChaddr, yiaddr |-> l.yiaddr,
                       expires |-> uptime + DeclineTime]
    IN  /\ pc = "handle"
        /\ packet.type = "DECLINE"
        /\ UpdateFound(Reserve)
        /\ reply' = NoReply
        /\ granted' = [granted EXCEPT ![packet.chaddr] = NoGrant]
        /\ Done

Release ==
    LET EndNow(l) == [l EXCEPT !.expires = uptime]
    IN  /\ pc = "handle"
        /\ packet.type = "RELEASE"
        /\ UpdateFound(EndNow)
        /\ reply' = NoReply
        /\ granted' = [granted EXCEPT ![packet.chaddr] = NoGrant]
        /\ Done

\* send_inform answers without looking at the table.
Inform ==
    /\ pc = "handle"
    /\ packet.type = "INFORM"
    /\ reply' = Reply("ACK", 0, server_config.lease)
    /\ UNCHANGED <<leases, leases2, granted>>
    /\ Done

Tick ==
    /\ uptime < MaxUptime
    /\ uptime' = uptime + 1
    /\ reply' = NoReply
    /\ UNCHANGED <<leases, leases2, tmpls, configs, pc, packet, granted>>

Handle ==
    \/ \E arp \in ArpReplies : DiscoverOffer(arp) \/ DiscoverAbandoned(arp)
    \/ RequestAck
    \/ RequestAckNotSent
    \/ RequestRefuse
    \/ Decline
    \/ Release
    \/ Inform

Next ==
    \/ \E p \in Packets : ReceivePool1(p) \/ ReceivePool2(p)
    \/ Handle
    \/ Restore
    \/ Tick

Spec == Init /\ [][Next]_vars

-----------------------------------------------------------------------------
\* The two logical tables, wherever the globals hold them at the moment.
Swapped == pc # "select" /\ UsePool2(packet)
Pool1 == IF Swapped THEN tmpls ELSE leases
Pool2 == IF Swapped THEN leases ELSE leases2

\* Types.
TypeOK ==
    /\ uptime \in 0 .. MaxUptime
    /\ leases \in Tables /\ leases2 \in Tables /\ tmpls \in Tables
    /\ server_config \in Config /\ server2_config \in Config /\ tmpSrvCfg \in Config
    /\ pc \in {"select", "handle", "restore"}
    /\ packet \in Packet \cup {NoPacket}
    /\ pc # "select" => packet \in Packet
    /\ reply \in [type : {"OFFER", "ACK", "NAK"}, chaddr : Chaddr, yiaddr : Nat,
                  lease : Nat, server_id : Nat] \cup {NoReply}
    /\ granted \in [Chaddr -> [addr : Nat, until : Nat]]

\* In neither lease table does a client own two records or an address have two
\* holders, whatever clears, re-adds, declines, pool swaps and copies back
\* (clear_lease before every insertion in add_lease) happened before.
UniqueHolders == Injective(leases) /\ Injective(leases2) /\ Injective(tmpls)

\* No address is in the hands of two clients at once: of two clients told (in
\* an ACK) to use the same address, one's time is over.
NoDoubleGrant ==
    \A c, d \in Chaddr :
        (c # d /\ granted[c].addr # 0 /\ granted[c].addr = granted[d].addr)
            => (granted[c].until < uptime \/ granted[d].until < uptime)

\* The server remembers what it promised: while a grant runs, the record that
\* backs it is in a table and expires no earlier than the client was told.
GrantBacked ==
    \A c \in Chaddr : (granted[c].addr # 0 /\ granted[c].until >= uptime) =>
        \E T \in {Pool1, Pool2} : \E i \in Slots :
            /\ T[i].chaddr = c
            /\ T[i].yiaddr = granted[c].addr
            /\ T[i].expires >= granted[c].until

\* Every address in a pool's table lies in that pool's range, is not reserved
\* and is neither the server's nor the router's own.
InPool(T, cfg) ==
    \A i \in Slots : T[i].yiaddr # 0 =>
        /\ T[i].yiaddr \in cfg.start .. cfg.end
        /\ T[i].yiaddr \notin Reserved
        /\ T[i].yiaddr \notin {cfg.server, cfg.router}
PoolDiscipline == InPool(Pool1, Config1) /\ InPool(Pool2, Config2)

\* A running lease, offer or DECLINE reservation keeps its slot: no step made
\* for another client's packet changes it before it expires.
Undisturbed(T, Tnew) ==
    \A i \in Slots :
        (/\ T[i].yiaddr # 0
         /\ ~lease_expired(T[i], uptime)
         /\ packet # NoPacket => T[i].chaddr # packet.chaddr)
            => Tnew[i] = T[i]
RunningLeaseKept == [][Undisturbed(Pool1, Pool1') /\ Undisturbed(Pool2, Pool2')]_vars

\* What a pool's table and the ACKs for its range amount to, seen from outside.
Reservations(T) ==
    {[addr |-> T[i].yiaddr, who |-> T[i].chaddr, until |-> T[i].expires] :
        i \in {j \in Slots : T[j].yiaddr # 0 /\ T[j].expires >= uptime}}
Told(cfg) ==
    [c \in Chaddr |-> IF granted[c].addr \in cfg.start .. cfg.end
                     THEN granted[c] ELSE NoGrant]

DefaultPool == INSTANCE AddressPool WITH
    Client <- Chaddr, Nobody <- NoChaddr,
    now <- uptime, held <- Reservations(Pool1), told <- Told(Config1)
SecondPool == INSTANCE AddressPool WITH
    Client <- Chaddr, Nobody <- NoChaddr,
    now <- uptime, held <- Reservations(Pool2), told <- Told(Config2)

\* Slots, evictions, the swap of the tables and the lookups of the handlers are
\* invisible: seen through its replies each pool is an AddressPool, in which a
\* client's packets touch no reservation but its own.
DefaultPoolImplements == DefaultPool!Spec
SecondPoolImplements == SecondPool!Spec

\* sendACK moves no record: the pointer the main loop looked up before it still
\* designates the client's record when the host name is written through it.
SlotStable == [][packet # NoPacket /\ Lease1 # NULL /\ reply'.type = "ACK"
                   => (find_lease_by_chaddr(leases', packet.chaddr) = Lease1)]_vars

=============================================================================
