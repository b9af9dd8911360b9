----------------------------- MODULE UdhcpdProofs -----------------------------
(* Proofs about the lease table and the main loop of the udhcp server, for every
   configuration, every set of clients and packets, every table size and every bound
   on the clock. *)
EXTENDS Udhcpd, ThinningProofs

-----------------------------------------------------------------------------
(* What the operators of the lease table return and preserve. *)

(* The look-up loops of leases.c return a slot that passes their test, or NULL. *)
LEMMA FirstInSet ==
    ASSUME NEW S \in SUBSET Slots
    PROVE  /\ S # {} => First(S) \in S
           /\ S = {} => First(S) = NULL
<1>1. S \in SUBSET Nat BY LeaseTableAssumption DEF Slots
<1>2. CASE S # {}
  <2>1. \E i \in S : \A j \in S : i <= j BY <1>1, <1>2, LeastNatural
  <2> QED BY <1>2, <2>1 DEF First
<1> QED BY <1>2 DEF First

(* clear_lease leaves a table in which every slot is untouched or blank. *)
LEMMA ClearLeaseType ==
    ASSUME NEW T \in Tables, NEW c, NEW y
    PROVE  clear_lease(T, c, y) \in Tables
BY DEF clear_lease, Tables, Lease, Blank

(* add_lease keeps the table well typed. *)
LEMMA AddLeaseType ==
    ASSUME NEW T \in Tables, NEW c \in Chaddr, NEW y \in Nat,
           NEW len \in Nat, NEW now \in Nat
    PROVE  add_lease(T, c, y, len, now) \in Tables
<1> DEFINE C == clear_lease(T, c, y)
<1>1. C \in Tables BY ClearLeaseType
<1>2. [chaddr |-> c, yiaddr |-> y, expires |-> now + len] \in Lease
  BY DEF Lease
<1> HIDE DEF C
<1> QED BY <1>1, <1>2 DEF add_lease, Tables, C

(* add_lease never leaves a client with two records or an address with two
   holders: clear_lease wiped both before the new record is written. *)
LEMMA AddLeaseInjective ==
    ASSUME NEW T \in Tables, Injective(T),
           NEW c \in Chaddr, NEW y \in Nat, NEW len \in Nat, NEW now \in Nat
    PROVE  Injective(add_lease(T, c, y, len, now))
<1> DEFINE C == clear_lease(T, c, y)
           o == oldest_expired_lease(C, now)
           A == add_lease(T, c, y, len, now)
           r == [chaddr |-> c, yiaddr |-> y, expires |-> now + len]
<1>1. \A i \in Slots : A[i] = IF i = o THEN r ELSE C[i]
  BY DEF add_lease
<1>2. \A i \in Slots : C[i] = T[i] \/ C[i] = Blank
  BY DEF clear_lease
<1>3. \A i \in Slots : C[i].chaddr # c /\ (y # 0 => C[i].yiaddr # y)
  BY LeaseTableAssumption DEF clear_lease, Blank
<1>4. Injective(C)
  <2> SUFFICES ASSUME NEW i \in Slots, NEW j \in Slots, i # j
               PROVE  /\ C[i].chaddr # NoChaddr => C[i].chaddr # C[j].chaddr
                      /\ C[i].yiaddr # 0 => C[i].yiaddr # C[j].yiaddr
    BY DEF Injective
  <2>1. /\ T[i].chaddr # NoChaddr => T[i].chaddr # T[j].chaddr
        /\ T[i].yiaddr # 0 => T[i].yiaddr # T[j].yiaddr
    BY DEF Injective
  <2> HIDE DEF C
  <2> QED BY <1>2, <2>1 DEF Blank
<1>5. \A i \in Slots : A[i] = r \/ A[i] = C[i]
  BY <1>1
<1> SUFFICES ASSUME NEW i \in Slots, NEW j \in Slots, i # j
             PROVE  /\ A[i].chaddr # NoChaddr => A[i].chaddr # A[j].chaddr
                    /\ A[i].yiaddr # 0 => A[i].yiaddr # A[j].yiaddr
  BY DEF Injective
<1> HIDE DEF A, C, o
<1>6. CASE i = o
  BY <1>1, <1>3, <1>6
<1>7. CASE j = o
  BY <1>1, <1>3, <1>7
<1>8. CASE i # o /\ j # o
  BY <1>1, <1>4, <1>8 DEF Injective
<1> QED BY <1>6, <1>7, <1>8

(* The zeroed table the server starts with has no double holder. *)
LEMMA EmptyTableOK == EmptyTable \in Tables /\ Injective(EmptyTable)
BY DEF EmptyTable, Tables, Lease, Blank, Injective

(* find_address returns an address of the pool, or 0. *)
LEMMA FindAddressInPool ==
    ASSUME NEW T, NEW cfg, cfg.start \in Nat, cfg.end \in Nat,
           NEW reserved, NEW arp, NEW chk, NEW now,
           NEW a, a = find_address(T, cfg, reserved, arp, chk, now)
    PROVE  \/ a = 0
           \/ /\ a \in cfg.start .. cfg.end
              /\ a \notin reserved
              /\ a # cfg.server
              /\ a # cfg.router
              /\ address_free(T, a, chk, now)
<1> DEFINE P(x) == /\ x % 256 \notin {0, 255}
                   /\ x \notin reserved
                   /\ x # cfg.server
                   /\ x # cfg.router
                   /\ address_free(T, x, chk, now)
                   /\ x \notin arp
           candidates == {x \in cfg.start .. cfg.end : P(x)}
<1>1. a = IF candidates = {} THEN 0
          ELSE CHOOSE x \in candidates : \A b \in candidates : x <= b
  BY DEF find_address
<1>2. CASE candidates = {} BY <1>1, <1>2
<1>3. CASE candidates # {}
  <2>1. candidates \in SUBSET Nat OBVIOUS
  <2> HIDE DEF candidates
  <2>2. \E x \in candidates : \A b \in candidates : x <= b
    BY <1>3, <2>1, LeastNatural
  <2>3. a \in candidates BY <1>1, <1>3, <2>2
  <2> QED BY <2>3 DEF candidates
<1> QED BY <1>2, <1>3

(* oldest_expired_lease returns an expired slot whenever there is one. *)
LEMMA OldestExpired ==
    ASSUME NEW T \in Tables, NEW now \in Nat
    PROVE  /\ Expired(T, now) = {} => oldest_expired_lease(T, now) = NULL
           /\ Expired(T, now) # {} => oldest_expired_lease(T, now) \in Expired(T, now)
<1> DEFINE E == Expired(T, now)
           M == {i \in E : \A j \in E : T[i].expires <= T[j].expires}
           X == {T[i].expires : i \in E}
<1>1. E \subseteq Slots BY DEF Expired
<1>2. oldest_expired_lease(T, now) = First(M)
  BY DEF oldest_expired_lease
<1>3. M \in SUBSET Slots BY <1>1
<1>4. \A i \in Slots : T[i].expires \in Nat
  BY DEF Tables, Lease
<1> HIDE DEF E
<1>5. CASE E # {}
  <2>1. X \in SUBSET Nat /\ X # {} BY <1>1, <1>4, <1>5
  <2>2. PICK x \in X : \A z \in X : x <= z
    <3> HIDE DEF X
    <3> QED BY <2>1, LeastNatural
  <2>3. PICK i \in E : x = T[i].expires OBVIOUS
  <2>4. i \in M BY <2>2, <2>3
  <2>5. M # {} BY <2>4
  <2>6. First(M) \in M
    <3> HIDE DEF M
    <3> QED BY <1>3, <2>5, FirstInSet
  <2> QED BY <1>2, <1>5, <2>6 DEF E
<1>6. CASE E = {}
  <2>1. M = {} BY <1>6
  <2>2. First(M) = NULL
    <3> HIDE DEF M
    <3> QED BY <1>3, <2>1, FirstInSet
  <2> QED BY <1>2, <1>6, <2>2 DEF E
<1> QED BY <1>5, <1>6

(* An address that the allocator takes for free has no running holder. *)
LEMMA FreeNotRunning ==
    ASSUME NEW T \in Tables, Injective(T), NEW y, y # 0, NEW chk, NEW now \in Nat,
           address_free(T, y, chk, now),
           NEW i \in Slots, T[i].yiaddr = y
    PROVE  lease_expired(T[i], now)
<1> DEFINE S == {j \in Slots : T[j].yiaddr = y}
<1>1. find_lease_by_yiaddr(T, y) = First(S) BY DEF find_lease_by_yiaddr
<1>2. S \in SUBSET Slots /\ S # {} OBVIOUS
<1>3. First(S) \in S
  <2> HIDE DEF S
  <2> QED BY <1>2, FirstInSet
<1>4. First(S) = i BY <1>3 DEF Injective
<1>5. First(S) # NULL BY <1>3, LeaseTableAssumption DEF NULL, Slots
<1> QED BY <1>1, <1>4, <1>5 DEF address_free

(* Writing a record in place (DECLINE, RELEASE) keeps holders unique as long as
   its address stays and its client stays or is wiped. *)
LEMMA UpdateInjective ==
    ASSUME NEW T \in Tables, Injective(T), NEW s, NEW r,
           r.yiaddr = T[s].yiaddr, r.chaddr \in {T[s].chaddr, NoChaddr}
    PROVE  Injective([T EXCEPT ![s] = r])
BY DEF Injective, Tables

-----------------------------------------------------------------------------
(* Types of what the handlers compute. *)

(* find_lease_by_chaddr returns a slot of that client, or NULL. *)
LEMMA FindLeaseByChaddrType ==
    ASSUME NEW T, NEW c
    PROVE  \/ find_lease_by_chaddr(T, c) = NULL
           \/ /\ find_lease_by_chaddr(T, c) \in Slots
              /\ T[find_lease_by_chaddr(T, c)].chaddr = c
<1> DEFINE S == {i \in Slots : T[i].chaddr = c}
<1>1. find_lease_by_chaddr(T, c) = First(S) BY DEF find_lease_by_chaddr
<1>2. S \in SUBSET Slots OBVIOUS
<1>3. First(S) = NULL \/ First(S) \in S
  <2> HIDE DEF S
  <2> QED BY <1>2, FirstInSet
<1> QED BY <1>1, <1>3

(* Whatever way sendOffer picks it, the offered address is a number. *)
LEMMA OfferedAddressType ==
    ASSUME NEW T \in Tables, NEW cfg \in Config, NEW p \in Packet,
           NEW arp, NEW now \in Nat
    PROVE  OfferedAddress(T, cfg, p, arp, now) \in Nat
<1> DEFINE lease == find_lease_by_chaddr(T, p.chaddr)
           Find(chk) == find_address(T, cfg, Reserved, arp, chk, now)
           requestable == /\ p.requested # 0
                          /\ p.requested \in cfg.start .. cfg.end
                          /\ p.requested \notin Reserved
                          /\ address_free(T, p.requested, TRUE, now)
<1>1. cfg.start \in Nat /\ cfg.end \in Nat /\ p.requested \in Nat
  BY DEF Config, Packet
<1>2. Find(FALSE) \in Nat /\ Find(TRUE) \in Nat
  <2>1. \A x \in cfg.start .. cfg.end : x \in Nat BY <1>1
  <2>2. ASSUME NEW chk, NEW a, a = Find(chk) PROVE a \in Nat
    BY <1>1, <2>1, <2>2, FindAddressInPool
  <2> HIDE DEF Find
  <2> QED BY <2>2
<1>3. lease # NULL => T[lease].yiaddr \in Nat
  BY FindLeaseByChaddrType DEF Tables, Lease
<1>4. OfferedAddress(T, cfg, p, arp, now) =
        IF lease # NULL THEN T[lease].yiaddr
        ELSE IF requestable
             THEN IF p.requested \in {cfg.server, cfg.router} THEN Find(FALSE) ELSE p.requested
        ELSE IF Find(FALSE) # 0 THEN Find(FALSE) ELSE Find(TRUE)
  BY DEF OfferedAddress
<1> HIDE DEF lease, Find, requestable
<1> QED BY <1>1, <1>2, <1>3, <1>4

(* The lease time of an offer is a number: expires - now is only used for a
   lease that has not expired. *)
LEMMA OfferLeaseTimeType ==
    ASSUME NEW T \in Tables, NEW cfg \in Config, NEW p \in Packet, NEW now \in Nat
    PROVE  OfferLeaseTime(T, cfg, p, now) \in Nat
<1> DEFINE lease == find_lease_by_chaddr(T, p.chaddr)
           rest == IF lease # NULL /\ ~lease_expired(T[lease], now)
                   THEN T[lease].expires - now ELSE cfg.lease
           time == IF p.lease_time > cfg.lease THEN cfg.lease
                   ELSE IF p.lease_time \in 1 .. cfg.lease THEN p.lease_time
                   ELSE rest
<1>1. cfg.lease \in Nat /\ p.lease_time \in Nat BY DEF Config, Packet
<1>2. rest \in Nat
  <2>1. lease # NULL => T[lease].expires \in Nat
    BY FindLeaseByChaddrType DEF Tables, Lease
  <2> HIDE DEF lease
  <2> QED BY <1>1, <2>1 DEF lease_expired
<1>3. OfferLeaseTime(T, cfg, p, now) = IF time < MinLease THEN cfg.lease ELSE time
  BY <1>1 DEF OfferLeaseTime
<1> HIDE DEF rest
<1>4. time \in Nat BY <1>1, <1>2
<1> HIDE DEF time
<1> QED BY <1>1, <1>3, <1>4

(* The record a REQUEST is answered from, and the time of the answer, are well
   typed as soon as the look-up found one. *)
LEMMA RequestTypes ==
    ASSUME TypeOK, pc = "handle"
    PROVE  /\ LeaseKnown => LeaseYiaddr \in Nat
           /\ AckLeaseTime \in Nat
           /\ Lease1 = NULL \/ Lease1 \in Slots
           /\ Lease2 = NULL \/ Lease2 \in Slots
<1>1. packet \in Packet /\ leases \in Tables /\ leases2 \in Tables
      /\ server_config \in Config
  BY DEF TypeOK
<1>2. Lease1 = NULL \/ Lease1 \in Slots
  BY FindLeaseByChaddrType DEF Lease1
<1>3. Lease2 = NULL \/ Lease2 \in Slots
  BY FindLeaseByChaddrType DEF Lease2
<1>4. LeaseKnown => LeaseYiaddr \in Nat
  BY <1>1, <1>2, <1>3 DEF LeaseKnown, LeaseYiaddr, Tables, Lease
<1>5. AckLeaseTime \in Nat
  BY <1>1, UdhcpdAssumption DEF AckLeaseTime, Config, Packet
<1> QED BY <1>2, <1>3, <1>4, <1>5

(* The end of a handler keeps the types of what it writes. *)
LEMMA DoneTypes ==
    ASSUME TypeOK, pc = "handle", Done
    PROVE  /\ uptime' \in 0 .. MaxUptime
           /\ tmpls' \in Tables
           /\ server_config' \in Config
           /\ server2_config' \in Config
           /\ tmpSrvCfg' \in Config
           /\ pc' \in {"select", "handle", "restore"}
           /\ packet' \in Packet \cup {NoPacket}
           /\ pc' # "select" => packet' \in Packet
BY DEF TypeOK, Done, configs

-----------------------------------------------------------------------------
(* No step breaks a type. *)
LEMMA TypeStep ==
    ASSUME TypeOK, [Next]_vars
    PROVE  TypeOK'
<1> USE LeaseTableAssumption, UdhcpdAssumption
<1>1. ASSUME NEW p \in Packets, ReceivePool1(p) PROVE TypeOK'
  BY <1>1 DEF TypeOK, ReceivePool1, configs
<1>2. ASSUME NEW p \in Packets, ReceivePool2(p) PROVE TypeOK'
  <2>1. SecondPoolConfig \in Config BY DEF TypeOK, SecondPoolConfig, Config
  <2> QED BY <1>2, <2>1 DEF TypeOK, ReceivePool2
<1>3. ASSUME NEW arp \in ArpReplies, DiscoverOffer(arp) PROVE TypeOK'
  <2> DEFINE yiaddr == OfferedAddress(leases, server_config, packet, arp, uptime)
  <2>1. packet \in Packet /\ uptime \in Nat /\ leases \in Tables /\ server_config \in Config
    BY <1>3 DEF TypeOK, DiscoverOffer
  <2>2. yiaddr \in Nat BY <2>1, OfferedAddressType
  <2>3. OfferLeaseTime(leases, server_config, packet, uptime) \in Nat
    BY <2>1, OfferLeaseTimeType
  <2>4. packet.chaddr \in Chaddr /\ server_config.server \in Nat
    BY <2>1 DEF Packet, Config
  <2> HIDE DEF yiaddr
  <2>5. add_lease(leases, packet.chaddr, yiaddr, OfferTime, uptime) \in Tables
    BY <2>1, <2>2, <2>4, AddLeaseType
  <2>6. leases' \in Tables /\ leases2' \in Tables
    BY <1>3, <2>5 DEF DiscoverOffer, yiaddr, TypeOK
  <2>7. reply' \in [type : {"OFFER", "ACK", "NAK"}, chaddr : Chaddr, yiaddr : Nat,
                    lease : Nat, server_id : Nat] \cup {NoReply}
    BY <1>3, <2>2, <2>3, <2>4 DEF DiscoverOffer, yiaddr, Reply
  <2>8. granted' \in [Chaddr -> [addr : Nat, until : Nat]]
    BY <1>3, <2>4 DEF DiscoverOffer, TypeOK, NoGrant
  <2> QED BY <1>3, <2>6, <2>7, <2>8, DoneTypes DEF DiscoverOffer, TypeOK
<1>4. ASSUME NEW arp \in ArpReplies, DiscoverAbandoned(arp) PROVE TypeOK'
  <2>1. granted' \in [Chaddr -> [addr : Nat, until : Nat]]
    BY <1>4 DEF DiscoverAbandoned, TypeOK, NoGrant, Packet
  <2> QED BY <1>4, <2>1, DoneTypes DEF DiscoverAbandoned, TypeOK
<1>5. CASE RequestAck
  <2>1. packet \in Packet /\ uptime \in Nat /\ leases \in Tables
        /\ packet.chaddr \in Chaddr /\ server_config.server \in Nat
    BY <1>5 DEF TypeOK, RequestAck, Packet, Config
  <2>2. LeaseYiaddr \in Nat /\ AckLeaseTime \in Nat
    BY <1>5, RequestTypes DEF RequestAck, AckDue
  <2>3. add_lease(leases, packet.chaddr, LeaseYiaddr, AckLeaseTime, uptime) \in Tables
    BY <2>1, <2>2, AddLeaseType
  <2>4. leases' \in Tables /\ leases2' \in Tables
    BY <1>5, <2>3 DEF RequestAck, TypeOK
  <2>5. reply' \in [type : {"OFFER", "ACK", "NAK"}, chaddr : Chaddr, yiaddr : Nat,
                    lease : Nat, server_id : Nat]
    BY <1>5, <2>1, <2>2 DEF RequestAck, Reply
  <2>6. granted' \in [Chaddr -> [addr : Nat, until : Nat]]
    BY <1>5, <2>1, <2>2 DEF RequestAck, TypeOK
  <2> QED BY <1>5, <2>4, <2>5, <2>6, DoneTypes DEF RequestAck, TypeOK
<1>6. CASE RequestAckNotSent
  BY <1>6, DoneTypes DEF RequestAckNotSent, TypeOK
<1>7. CASE RequestRefuse
  <2>1. reply' \in [type : {"OFFER", "ACK", "NAK"}, chaddr : Chaddr, yiaddr : Nat,
                    lease : Nat, server_id : Nat] \cup {NoReply}
    BY <1>7 DEF RequestRefuse, Reply, TypeOK, Packet, Config
  <2> QED BY <1>7, <2>1, DoneTypes DEF RequestRefuse, TypeOK
<1>8. CASE Decline
  <2> DEFINE Reserve(l) == [chaddr |-> NoChaddr, yiaddr |-> l.yiaddr,
                            expires |-> uptime + DeclineTime]
  <2>1. \A l \in Lease : Reserve(l) \in Lease BY DEF Lease, TypeOK
  <2>2. UpdateFound(Reserve) BY <1>8 DEF Decline
  <2>3. leases' \in Tables /\ leases2' \in Tables
    BY <1>8, <2>1, <2>2, RequestTypes DEF Decline, UpdateFound, TypeOK, Tables
  <2>4. granted' \in [Chaddr -> [addr : Nat, until : Nat]]
    BY <1>8 DEF Decline, TypeOK, NoGrant, Packet
  <2> QED BY <1>8, <2>3, <2>4, DoneTypes DEF Decline, TypeOK
<1>9. CASE Release
  <2> DEFINE EndNow(l) == [l EXCEPT !.expires = uptime]
  <2>1. \A l \in Lease : EndNow(l) \in Lease BY DEF Lease, TypeOK
  <2>2. UpdateFound(EndNow) BY <1>9 DEF Release
  <2>3. leases' \in Tables /\ leases2' \in Tables
    BY <1>9, <2>1, <2>2, RequestTypes DEF Release, UpdateFound, TypeOK, Tables
  <2>4. granted' \in [Chaddr -> [addr : Nat, until : Nat]]
    BY <1>9 DEF Release, TypeOK, NoGrant, Packet
  <2> QED BY <1>9, <2>3, <2>4, DoneTypes DEF Release, TypeOK
<1>10. CASE Inform
  <2>1. reply' \in [type : {"OFFER", "ACK", "NAK"}, chaddr : Chaddr, yiaddr : Nat,
                    lease : Nat, server_id : Nat]
    BY <1>10 DEF Inform, Reply, TypeOK, Packet, Config
  <2> QED BY <1>10, <2>1, DoneTypes DEF Inform, TypeOK
<1>11. CASE Restore
  BY <1>11, EmptyTableOK DEF Restore, TypeOK
<1>12. CASE Tick
  BY <1>12 DEF Tick, TypeOK, configs
<1>13. CASE UNCHANGED vars
  BY <1>13 DEF vars, TypeOK
<1> QED BY <1>1, <1>2, <1>3, <1>4, <1>5, <1>6, <1>7, <1>8, <1>9, <1>10, <1>11,
           <1>12, <1>13 DEF Next, Handle

(* The types hold at the start. *)
LEMMA TypeInit == Init => TypeOK
BY EmptyTableOK, LeaseTableAssumption, UdhcpdAssumption DEF Init, TypeOK, NoGrant

(* Every variable keeps its type: in particular the handlers never use a NULL
   look-up as a slot, and every address and time they compute is a number. *)
THEOREM TypeCorrect == Spec => []TypeOK
<1>1. TypeOK /\ [Next]_vars => TypeOK' BY TypeStep
<1> QED BY <1>1, TypeInit, PTL DEF Spec

-----------------------------------------------------------------------------
(* With the types, unique holders are inductive: add_lease clears before it inserts,
   DECLINE and RELEASE write in place, and the swap and the restore copy whole
   tables. *)
LEMMA HoldersStep ==
    ASSUME TypeOK, UniqueHolders, [Next]_vars
    PROVE  UniqueHolders'
<1> USE LeaseTableAssumption, UdhcpdAssumption
<1>1. ASSUME NEW p \in Packets, ReceivePool1(p) PROVE UniqueHolders'
  BY <1>1 DEF UniqueHolders, ReceivePool1
<1>2. ASSUME NEW p \in Packets, ReceivePool2(p) PROVE UniqueHolders'
  BY <1>2 DEF UniqueHolders, ReceivePool2
<1>3. ASSUME NEW arp \in ArpReplies, DiscoverOffer(arp) PROVE UniqueHolders'
  <2> DEFINE yiaddr == OfferedAddress(leases, server_config, packet, arp, uptime)
  <2>1. packet \in Packet /\ packet.chaddr \in Chaddr /\ uptime \in Nat
        /\ leases \in Tables /\ server_config \in Config
    BY <1>3 DEF TypeOK, DiscoverOffer, Packet
  <2>2. yiaddr \in Nat BY <2>1, OfferedAddressType
  <2>3. leases' = add_lease(leases, packet.chaddr, yiaddr, OfferTime, uptime)
    BY <1>3 DEF DiscoverOffer
  <2> HIDE DEF yiaddr
  <2>4. Injective(leases') BY <2>1, <2>2, <2>3, AddLeaseInjective DEF UniqueHolders
  <2> QED BY <1>3, <2>4 DEF DiscoverOffer, Done, UniqueHolders
<1>4. ASSUME NEW arp \in ArpReplies, DiscoverAbandoned(arp) PROVE UniqueHolders'
  BY <1>4 DEF DiscoverAbandoned, Done, UniqueHolders
<1>5. CASE RequestAck
  <2>1. packet.chaddr \in Chaddr /\ uptime \in Nat /\ leases \in Tables
    BY <1>5 DEF TypeOK, RequestAck, Packet
  <2>2. LeaseYiaddr \in Nat /\ AckLeaseTime \in Nat
    BY <1>5, RequestTypes DEF RequestAck, AckDue
  <2>3. leases' = add_lease(leases, packet.chaddr, LeaseYiaddr, AckLeaseTime, uptime)
    BY <1>5 DEF RequestAck
  <2>4. Injective(leases') BY <2>1, <2>2, <2>3, AddLeaseInjective DEF UniqueHolders
  <2> QED BY <1>5, <2>4 DEF RequestAck, Done, UniqueHolders
<1>6. CASE RequestAckNotSent
  BY <1>6 DEF RequestAckNotSent, Done, UniqueHolders
<1>7. CASE RequestRefuse
  BY <1>7 DEF RequestRefuse, Done, UniqueHolders
<1>8. CASE Decline
  <2> DEFINE Reserve(l) == [chaddr |-> NoChaddr, yiaddr |-> l.yiaddr,
                            expires |-> uptime + DeclineTime]
  <2>1. ASSUME NEW T \in Tables, Injective(T), NEW s
        PROVE  Injective([T EXCEPT ![s] = Reserve(T[s])])
    BY <2>1, UpdateInjective
  <2>2. UpdateFound(Reserve) BY <1>8 DEF Decline
  <2> HIDE DEF Reserve
  <2>3. Injective(leases') /\ Injective(leases2')
    BY <2>1, <2>2 DEF UpdateFound, UniqueHolders, TypeOK
  <2> QED BY <1>8, <2>3 DEF Decline, Done, UniqueHolders
<1>9. CASE Release
  <2> DEFINE EndNow(l) == [l EXCEPT !.expires = uptime]
  <2>1. ASSUME NEW T \in Tables, Injective(T), NEW s \in Slots
        PROVE  Injective([T EXCEPT ![s] = EndNow(T[s])])
    <3>1. T[s] \in Lease BY DEF Tables
    <3>2. EndNow(T[s]).yiaddr = T[s].yiaddr /\ EndNow(T[s]).chaddr = T[s].chaddr
      BY <3>1 DEF Lease
    <3> QED BY <2>1, <3>2, UpdateInjective
  <2>2. UpdateFound(EndNow) BY <1>9 DEF Release
  <2>3. (Lease1 = NULL \/ Lease1 \in Slots) /\ (Lease2 = NULL \/ Lease2 \in Slots)
    BY <1>9, RequestTypes DEF Release
  <2> HIDE DEF EndNow
  <2>4. Injective(leases') /\ Injective(leases2')
    BY <2>1, <2>2, <2>3 DEF UpdateFound, UniqueHolders, TypeOK
  <2> QED BY <1>9, <2>4 DEF Release, Done, UniqueHolders
<1>10. CASE Inform
  BY <1>10 DEF Inform, Done, UniqueHolders
<1>11. CASE Restore
  BY <1>11, EmptyTableOK DEF Restore, UniqueHolders
<1>12. CASE Tick
  BY <1>12 DEF Tick, UniqueHolders
<1>13. CASE UNCHANGED vars
  BY <1>13 DEF vars, UniqueHolders
<1> QED BY <1>1, <1>2, <1>3, <1>4, <1>5, <1>6, <1>7, <1>8, <1>9, <1>10, <1>11,
           <1>12, <1>13 DEF Next, Handle

(* The tables start empty. *)
LEMMA HoldersInit == Init => UniqueHolders
BY EmptyTableOK DEF Init, UniqueHolders

(* Whatever the order of packets, pool swaps and clock ticks, no client ever has
   two records in a lease table and no address two holders. *)
THEOREM HoldersUnique == Spec => []UniqueHolders
<1>1. TypeOK /\ UniqueHolders /\ [Next]_vars => UniqueHolders' BY HoldersStep
<1> QED BY <1>1, HoldersInit, TypeCorrect, PTL DEF Spec

=============================================================================
