------------------------------ MODULE PoolProofs ------------------------------
(* The udhcp server keeps its promises when each client keeps to one pool: proofs
   of GrantBacked, NoDoubleGrant, PoolDiscipline, RunningLeaseKept and SlotStable,
   with one pool or two, and of DefaultPoolImplements and SecondPoolImplements. *)
EXTENDS UdhcpdProofs

\* A client sends its vendor class in all of its packets or in none, or there is
\* only the default pool (g_enblSrv2 = 0).
Consistent ==
    \A p, q \in Packets : p.chaddr = q.chaddr => (UsePool2(p) <=> UsePool2(q))

\* The clients of either pool.
Clients2 == {c \in Chaddr : \E p \in Packets : p.chaddr = c /\ UsePool2(p)}
Clients1 == Chaddr \ Clients2

-----------------------------------------------------------------------------
\* The records fill the table from the front: only a zeroed slot has expiry 0.
Compact(T) ==
    \A i \in Slots : T[i].expires = 0 =>
        /\ T[i] = Blank
        /\ \A j \in Slots : i < j => T[j].expires = 0

\* A running grant g of client c is backed by a record of T.
Backed(T, g, c, now) ==
    (g.addr # 0 /\ g.until >= now) =>
        \E i \in Slots : /\ T[i].chaddr = c
                         /\ T[i].yiaddr = g.addr
                         /\ T[i].expires >= g.until

\* The address is one that the pool of configuration cfg may give out.
Allowed(a, cfg) ==
    a \in cfg.start .. cfg.end /\ a \notin Reserved /\ a \notin {cfg.server, cfg.router}

\* What is granted comes from the pool.
GrantOK(g, cfg) ==
    (g.addr = 0 => g = NoGrant) /\ (g.addr # 0 => g.addr \in cfg.start .. cfg.end)

\* One pool: its table T holds records of its own clients and of its own addresses.
\* No record can be made at uptime 0, when a zeroed slot is not yet expired.
TableOK(T, cfg, clients, now) ==
    /\ \A i \in Slots : T[i].chaddr # NoChaddr =>
          T[i].yiaddr # 0 /\ T[i].chaddr \in clients
    /\ \A i \in Slots : T[i].yiaddr # 0 => Allowed(T[i].yiaddr, cfg)
    /\ Compact(T)
    /\ now = 0 => T = EmptyTable

\* The table backs what the clients of its pool were granted.
GrantsOK(T, cfg, clients, g, now) ==
    \A c \in clients : Backed(T, g[c], c, now) /\ GrantOK(g[c], cfg)

\* Two configurations of one pool: the fields that the swap takes over.
SameRange(cfg, ref) ==
    cfg.start = ref.start /\ cfg.end = ref.end
    /\ cfg.server = ref.server /\ cfg.router = ref.router

\* Where the main loop is, and what the globals hold there.
Loop ==
    /\ pc = "select" => packet = NoPacket
    /\ pc # "select" => packet \in Packets
    /\ pc = "restore" => UsePool2(packet)
    /\ pc = "handle" /\ UsePool2(packet) => leases2 = leases
    /\ Swapped => tmpSrvCfg = Config1 /\ SameRange(server_config, Config2)
    /\ ~Swapped => server_config = Config1 /\ SameRange(server2_config, Config2)

TablesOK ==
    /\ TableOK(Pool1, Config1, Clients1, uptime)
    /\ TableOK(Pool2, Config2, Clients2, uptime)

PromisesKept ==
    /\ GrantsOK(Pool1, Config1, Clients1, granted, uptime)
    /\ GrantsOK(Pool2, Config2, Clients2, granted, uptime)

\* The tables are in order, and keep what was promised.  The first part does not need
\* the second and also holds of a server that has just read its lease files.
TableInv == TypeOK /\ UniqueHolders /\ Loop /\ TablesOK
PoolInv == TableInv /\ PromisesKept

-----------------------------------------------------------------------------
\* What a handler does to the table it works on: nothing, or it writes one slot.

NoRecord(T, c) == \A s \in Slots : T[s].chaddr # c

\* Record r of client c goes to slot o, which was the client's own or, when it has
\* none, the first free or an expired one; nobody else has the address.
Writes(T, Tn, o, r, c, cfg, now) ==
    /\ o \in Slots /\ r \in Lease /\ now # 0
    /\ Tn = [T EXCEPT ![o] = r]
    /\ T[o].chaddr = c \/ (NoRecord(T, c) /\ lease_expired(T[o], now))
    /\ T[o].expires # 0 \/ \A i \in Slots : i < o => T[i].expires # 0
    /\ r.chaddr \in {c, NoChaddr} /\ r.expires >= now
    /\ r.yiaddr # 0 /\ Allowed(r.yiaddr, cfg)
    /\ \A i \in Slots : i # o => T[i].yiaddr # r.yiaddr

\* A packet of client c is served: table T becomes Tn, the grants g become gn.
Serves(T, Tn, c, cfg, g, gn, now) ==
    \/ Tn = T /\ gn = g
    \/ Tn = T /\ NoRecord(T, c) /\ gn = [g EXCEPT ![c] = NoGrant]
    \/ \E o, r : /\ Writes(T, Tn, o, r, c, cfg, now)
                 /\ \/ gn = [g EXCEPT ![c] = NoGrant]
                    \/ /\ r.chaddr = c
                       /\ gn = [g EXCEPT ![c] = [addr |-> r.yiaddr, until |-> r.expires]]

\* An address that is the client's own or, when it has none, is free.
OwnOrFree(T, c, y, now) ==
    \/ \E s \in Slots : T[s].chaddr = c /\ T[s].yiaddr = y
    \/ NoRecord(T, c) /\ \E chk \in BOOLEAN : address_free(T, y, chk, now)

\* Table Tn has the record of client c for address y in the client's slot, or in
\* another when it had none; or there was no slot for it.
Enters(T, Tn, c, y, len, cfg, now) ==
    \/ Tn = T /\ NoRecord(T, c)
    \/ \E o : /\ Writes(T, Tn, o, [chaddr |-> c, yiaddr |-> y, expires |-> now + len],
                        c, cfg, now)
              /\ \A s \in Slots : T[s].chaddr = c => o = s

(* The first slot of a set is in it and before the others. *)
LEMMA FirstLeast ==
    ASSUME NEW S \in SUBSET Slots, S # {}
    PROVE  First(S) \in S /\ \A j \in S : First(S) <= j
<1>1. S \in SUBSET Nat BY LeaseTableAssumption DEF Slots
<1>2. \E i \in S : \A j \in S : i <= j BY <1>1, LeastNatural
<1> QED BY <1>2 DEF First

(* When a slot is free, oldest_expired_lease returns the first free one. *)
LEMMA OldestIsFirstFree ==
    ASSUME NEW T \in Tables, NEW now \in Nat, now # 0, NEW s \in Slots, T[s].expires = 0
    PROVE  /\ oldest_expired_lease(T, now) \in Slots
           /\ T[oldest_expired_lease(T, now)].expires = 0
           /\ \A i \in Slots : T[i].expires = 0 => oldest_expired_lease(T, now) <= i
<1> DEFINE E == Expired(T, now)
           M == {i \in E : \A j \in E : T[i].expires <= T[j].expires}
<1>1. \A i \in Slots : T[i].expires \in Nat BY DEF Tables, Lease
<1>2. \A i \in Slots : T[i].expires = 0 => i \in E
  BY DEF Expired, lease_expired
<1>3. E \subseteq Slots BY DEF Expired
<1>4. \A i \in Slots : i \in M <=> T[i].expires = 0
  <2> HIDE DEF E
  <2> QED BY <1>1, <1>2, <1>3
<1>5. M \in SUBSET Slots /\ M # {} BY <1>3, <1>4
<1>6. oldest_expired_lease(T, now) = First(M) BY DEF oldest_expired_lease
<1> HIDE DEF M
<1>7. First(M) \in M /\ \A j \in M : First(M) <= j BY <1>5, FirstLeast
<1> QED BY <1>4, <1>5, <1>6, <1>7

(* add_lease in a table whose records are packed: when it clears a slot the new
   record takes exactly that slot, else it takes a free or an expired one; without
   any it changes nothing. *)
LEMMA AddLeaseWrites ==
    ASSUME NEW T \in Tables, Injective(T), Compact(T), NEW c \in Chaddr,
           NEW y \in Nat, y # 0, NEW len \in Nat, NEW now \in Nat, now # 0,
           NEW cfg, Allowed(y, cfg), OwnOrFree(T, c, y, now)
    PROVE  Enters(T, add_lease(T, c, y, len, now), c, y, len, cfg, now)
<1> DEFINE C == clear_lease(T, c, y)
           o == oldest_expired_lease(C, now)
           r == [chaddr |-> c, yiaddr |-> y, expires |-> now + len]
           A == add_lease(T, c, y, len, now)
<1>1. C \in Tables BY ClearLeaseType
<1>2. A = [i \in Slots |-> IF i = o THEN r ELSE C[i]] BY DEF add_lease
<1>3. r \in Lease /\ r.chaddr = c /\ r.yiaddr = y /\ r.expires >= now BY DEF Lease
<1>4. \A i \in Slots : C[i] = IF T[i].chaddr = c \/ T[i].yiaddr = y THEN Blank ELSE T[i]
  BY LeaseTableAssumption DEF clear_lease
<1>5. \A i \in Slots : T[i].expires \in Nat BY DEF Tables, Lease
<1>6. NULL \notin Slots BY LeaseTableAssumption DEF NULL, Slots
<1> HIDE DEF C, r, A, o
<1>7. ASSUME NEW s \in Slots, T[s].chaddr = c \/ T[s].yiaddr = y
      PROVE  /\ Writes(T, A, s, r, c, cfg, now)
             /\ \A i \in Slots : T[i].chaddr = c => s = i
  <2>1. T[s].chaddr = c \/ (NoRecord(T, c) /\ lease_expired(T[s], now))
    <3>1. CASE T[s].chaddr = c BY <3>1
    <3>2. CASE T[s].chaddr # c
      <4>1. ~ \E i \in Slots : T[i].chaddr = c /\ T[i].yiaddr = y
        BY <1>7, <3>2 DEF Injective
      <4>2. NoRecord(T, c) /\ \E chk \in BOOLEAN : address_free(T, y, chk, now)
        BY <4>1 DEF OwnOrFree
      <4>3. lease_expired(T[s], now) BY <1>7, <3>2, <4>2, FreeNotRunning
      <4> QED BY <4>2, <4>3
    <3> QED BY <3>1, <3>2
  <2>2. \A i \in Slots : i # s => T[i].chaddr # c /\ T[i].yiaddr # y
    <3>1. CASE T[s].chaddr = c
      <4>1. T[s].yiaddr = y BY <3>1, LeaseTableAssumption DEF Injective, NoRecord, OwnOrFree
      <4> QED BY <3>1, <4>1, LeaseTableAssumption DEF Injective
    <3>2. CASE T[s].chaddr # c
      BY <1>7, <2>1, <3>2 DEF Injective, NoRecord
    <3> QED BY <3>1, <3>2
  <2>3. C[s] = Blank /\ \A i \in Slots : i # s => C[i] = T[i]
    BY <1>4, <1>7, <2>2
  <2>4. C[s].expires = 0 BY <2>3 DEF Blank
  <2>5. T[s].expires # 0
    <3>1. T[s] # Blank BY <1>7, LeaseTableAssumption DEF Blank
    <3> QED BY <3>1 DEF Compact
  <2>6. o \in Slots /\ C[o].expires = 0 /\ o <= s
    BY <1>1, <2>4, OldestIsFirstFree DEF o
  <2>7. o = s
    <3> SUFFICES ASSUME o # s PROVE FALSE
      OBVIOUS
    <3>1. T[o].expires = 0 /\ o < s
      BY <2>3, <2>6, LeaseTableAssumption DEF Slots
    <3> QED BY <2>5, <2>6, <3>1 DEF Compact
  <2>8. A = [T EXCEPT ![s] = r]
    BY <1>2, <2>3, <2>7 DEF Tables
  <2>9. \A i \in Slots : i # s => T[i].yiaddr # r.yiaddr BY <1>3, <2>2
  <2> QED BY <1>3, <2>1, <2>2, <2>5, <2>8, <2>9 DEF Writes
<1>8. CASE \E s \in Slots : T[s].chaddr = c \/ T[s].yiaddr = y
  BY <1>7, <1>8 DEF A, r, Enters
<1>9. CASE ~ \E s \in Slots : T[s].chaddr = c \/ T[s].yiaddr = y
  <2>1. NoRecord(T, c) BY <1>9 DEF NoRecord
  <2>2. C = T
    <3>1. \A i \in Slots : C[i] = T[i] BY <1>4, <1>9
    <3> QED BY <1>1, <3>1 DEF Tables
  <2>3. CASE o = NULL
    <3>1. A = T BY <1>2, <1>6, <2>2, <2>3 DEF Tables
    <3> QED BY <2>1, <3>1 DEF A, Enters
  <2>4. CASE o # NULL
    <3>1. o \in Slots /\ lease_expired(T[o], now)
      BY <1>1, <2>2, <2>4, OldestExpired DEF o, Expired
    <3>2. A = [T EXCEPT ![o] = r]
      BY <1>2, <2>2, <3>1 DEF Tables
    <3>3. T[o].expires # 0 \/ \A i \in Slots : i < o => T[i].expires # 0
      <4> SUFFICES ASSUME T[o].expires = 0, NEW i \in Slots, i < o, T[i].expires = 0
                   PROVE  FALSE
        OBVIOUS
      <4>1. o <= i BY <2>2, OldestIsFirstFree DEF o
      <4> QED BY <3>1, <4>1, LeaseTableAssumption DEF Slots
    <3>4. \A i \in Slots : i # o => T[i].yiaddr # r.yiaddr BY <1>3, <1>9
    <3>5. Writes(T, A, o, r, c, cfg, now)
      BY <1>3, <2>1, <3>1, <3>2, <3>3, <3>4 DEF Writes
    <3> QED BY <1>9, <3>5 DEF A, r, Enters
  <2> QED BY <2>3, <2>4
<1> QED BY <1>8, <1>9

-----------------------------------------------------------------------------
(* Whoever is served, the running records of the others stay where they are. *)
LEMMA ServesKeeps ==
    ASSUME NEW T \in Tables, NEW Tn, NEW c, NEW cfg, NEW g, NEW gn, NEW now,
           Serves(T, Tn, c, cfg, g, gn, now),
           NEW i \in Slots, T[i].chaddr # c, ~lease_expired(T[i], now)
    PROVE  Tn[i] = T[i]
<1>1. ASSUME NEW o, NEW r, Writes(T, Tn, o, r, c, cfg, now) PROVE Tn[i] = T[i]
  BY <1>1 DEF Writes, Tables
<1> QED BY <1>1 DEF Serves

(* Writing one slot keeps a table in order. *)
LEMMA WritesTable ==
    ASSUME NEW T \in Tables, NEW Tn, NEW cfg, NEW clients, NEW now \in Nat,
           NEW c \in clients, TableOK(T, cfg, clients, now), NEW o, NEW r,
           Writes(T, Tn, o, r, c, cfg, now)
    PROVE  TableOK(Tn, cfg, clients, now)
<1>1. o \in Slots /\ r \in Lease /\ now # 0
  BY DEF Writes
<1>2. Tn[o] = r /\ \A i \in Slots : i # o => Tn[i] = T[i]
  BY <1>1 DEF Writes, Tables
<1>3. r.expires \in Nat /\ r.expires >= now /\ r.expires # 0 /\ r.chaddr \in {c, NoChaddr}
      /\ r.yiaddr # 0 /\ Allowed(r.yiaddr, cfg)
  BY <1>1 DEF Writes, Lease
<1>4. \A i \in Slots : Tn[i].chaddr # NoChaddr =>
         Tn[i].yiaddr # 0 /\ Tn[i].chaddr \in clients
  BY <1>2, <1>3 DEF TableOK
<1>5. \A i \in Slots : Tn[i].yiaddr # 0 => Allowed(Tn[i].yiaddr, cfg)
  BY <1>2, <1>3 DEF TableOK
<1>6. Compact(Tn)
  <2> SUFFICES ASSUME NEW i \in Slots, Tn[i].expires = 0
               PROVE  Tn[i] = Blank /\ \A j \in Slots : i < j => Tn[j].expires = 0
    BY DEF Compact
  <2>1. i # o BY <1>2, <1>3
  <2>2. T[i].expires = 0 /\ Tn[i] = T[i] BY <1>2, <2>1
  <2>3. T[i] = Blank /\ \A j \in Slots : i < j => T[j].expires = 0
    BY <2>2 DEF TableOK, Compact
  <2>4. ~(i < o)
    BY <1>1, <2>2, <2>3 DEF Writes
  <2> QED BY <1>2, <2>2, <2>3, <2>4
<1> QED BY <1>1, <1>4, <1>5, <1>6 DEF TableOK

(* It keeps the promises too, whatever happens to the grant of its client, as long as
   a new grant is what was written. *)
LEMMA WritesGrants ==
    ASSUME NEW T \in Tables, NEW Tn, NEW cfg, NEW clients \in SUBSET Chaddr,
           NEW g, NEW gn, NEW now \in Nat, NEW c \in clients,
           GrantsOK(T, cfg, clients, g, now), NEW o, NEW r,
           Writes(T, Tn, o, r, c, cfg, now),
           \A d \in clients : d # c => gn[d] = g[d] /\ g[d].until \in Nat,
           \/ gn[c] = NoGrant
           \/ r.chaddr = c /\ gn[c] = [addr |-> r.yiaddr, until |-> r.expires]
    PROVE  GrantsOK(Tn, cfg, clients, gn, now)
<1>1. o \in Slots /\ r \in Lease
  BY DEF Writes
<1>2. Tn[o] = r /\ \A i \in Slots : i # o => Tn[i] = T[i]
  BY <1>1 DEF Writes, Tables
<1>3. r.expires \in Nat /\ r.expires >= now /\ r.yiaddr # 0 /\ Allowed(r.yiaddr, cfg)
  BY <1>1 DEF Writes, Lease
<1> SUFFICES ASSUME NEW d \in clients
             PROVE  Backed(Tn, gn[d], d, now) /\ GrantOK(gn[d], cfg)
  BY DEF GrantsOK
<1>4. CASE d # c
  <2>1. gn[d] = g[d] /\ g[d].until \in Nat BY <1>4
  <2>2. Backed(T, g[d], d, now) /\ GrantOK(g[d], cfg) BY DEF GrantsOK
  <2>3. ASSUME g[d].addr # 0, g[d].until >= now
        PROVE  \E i \in Slots : /\ Tn[i].chaddr = d
                                /\ Tn[i].yiaddr = g[d].addr
                                /\ Tn[i].expires >= g[d].until
    <3>1. PICK i \in Slots : /\ T[i].chaddr = d
                             /\ T[i].yiaddr = g[d].addr
                             /\ T[i].expires >= g[d].until
      BY <2>2, <2>3 DEF Backed
    <3>2. T[i].expires \in Nat BY DEF Tables, Lease
    <3>3. ~lease_expired(T[i], now)
      BY <2>1, <2>3, <3>1, <3>2 DEF lease_expired
    <3>4. i # o BY <1>4, <3>1, <3>3 DEF Writes
    <3> QED BY <1>2, <3>1, <3>4
  <2> QED BY <2>1, <2>2, <2>3 DEF Backed
<1>5. CASE gn[d] = NoGrant
  BY <1>5 DEF NoGrant, Backed, GrantOK
<1>6. CASE d = c /\ r.chaddr = c /\ gn[c] = [addr |-> r.yiaddr, until |-> r.expires]
  <2>1. gn[d].addr = r.yiaddr /\ gn[d].until = r.expires BY <1>6
  <2>2. Backed(Tn, gn[d], d, now) BY <1>1, <1>2, <1>3, <1>6, <2>1 DEF Backed
  <2> QED BY <1>3, <2>1, <2>2 DEF GrantOK, Allowed
<1> QED BY <1>4, <1>5, <1>6

(* Serving a packet keeps the table of its client's pool in order. *)
LEMMA ServesTable ==
    ASSUME NEW T \in Tables, NEW Tn, NEW cfg, NEW clients, NEW g, NEW gn,
           NEW now \in Nat, NEW c \in clients,
           TableOK(T, cfg, clients, now), Serves(T, Tn, c, cfg, g, gn, now)
    PROVE  TableOK(Tn, cfg, clients, now)
BY WritesTable DEF Serves

(* Serving a packet keeps the promises of its client's pool. *)
LEMMA ServesGrants ==
    ASSUME NEW T \in Tables, NEW Tn, NEW cfg, NEW clients \in SUBSET Chaddr,
           NEW g \in [Chaddr -> [addr : Nat, until : Nat]], NEW gn,
           NEW now \in Nat, NEW c \in clients,
           GrantsOK(T, cfg, clients, g, now), Serves(T, Tn, c, cfg, g, gn, now)
    PROVE  GrantsOK(Tn, cfg, clients, gn, now)
<1>1. \A d \in clients : g[d].until \in Nat OBVIOUS
<1>2. CASE Tn = T /\ gn = g BY <1>2
<1>3. CASE gn = [g EXCEPT ![c] = NoGrant]
  <2>1. gn[c] = NoGrant /\ \A d \in clients : d # c => gn[d] = g[d] BY <1>3
  <2>2. CASE Tn = T
    <3>1. Backed(T, gn[c], c, now) /\ GrantOK(gn[c], cfg)
      BY <2>1 DEF NoGrant, Backed, GrantOK
    <3> QED BY <2>1, <2>2, <3>1 DEF GrantsOK
  <2>3. CASE \E o, r : Writes(T, Tn, o, r, c, cfg, now)
    BY <1>1, <2>1, <2>3, WritesGrants
  <2> QED BY <2>2, <2>3, <1>2 DEF Serves
<1>4. ASSUME NEW o, NEW r, Writes(T, Tn, o, r, c, cfg, now), r.chaddr = c,
             gn = [g EXCEPT ![c] = [addr |-> r.yiaddr, until |-> r.expires]]
      PROVE  GrantsOK(Tn, cfg, clients, gn, now)
  <2>1. /\ gn[c] = [addr |-> r.yiaddr, until |-> r.expires]
        /\ \A d \in clients : d # c => gn[d] = g[d]
    BY <1>4
  <2> QED BY <1>1, <1>4, <2>1, WritesGrants
<1> QED BY <1>2, <1>3, <1>4 DEF Serves

(* It does not matter to a pool what another pool's client is granted. *)
LEMMA ServesOther ==
    ASSUME NEW T, NEW cfg, NEW clients \in SUBSET Chaddr,
           NEW g \in [Chaddr -> [addr : Nat, until : Nat]], NEW gn,
           NEW now, GrantsOK(T, cfg, clients, g, now),
           NEW c \in Chaddr, c \notin clients,
           NEW S, NEW Sn, NEW cfg2, Serves(S, Sn, c, cfg2, g, gn, now)
    PROVE  GrantsOK(T, cfg, clients, gn, now)
<1>1. \A d \in clients : gn[d] = g[d]
  BY DEF Serves
<1> QED BY <1>1 DEF GrantsOK

(* Time passing keeps the promises. *)
LEMMA GrantsTick ==
    ASSUME NEW T, NEW cfg, NEW clients \in SUBSET Chaddr,
           NEW g \in [Chaddr -> [addr : Nat, until : Nat]],
           NEW now \in Nat, GrantsOK(T, cfg, clients, g, now)
    PROVE  GrantsOK(T, cfg, clients, g, now + 1)
<1>1. ASSUME NEW c \in clients PROVE Backed(T, g[c], c, now + 1)
  <2>1. Backed(T, g[c], c, now) BY DEF GrantsOK
  <2>2. g[c].until \in Nat OBVIOUS
  <2> QED BY <2>1, <2>2 DEF Backed
<1> QED BY <1>1 DEF GrantsOK

-----------------------------------------------------------------------------
(* find_lease_by_chaddr misses no record. *)
LEMMA NotFound ==
    ASSUME NEW T, NEW c, find_lease_by_chaddr(T, c) = NULL
    PROVE  NoRecord(T, c)
<1> DEFINE S == {i \in Slots : T[i].chaddr = c}
<1>1. First(S) = NULL BY DEF find_lease_by_chaddr
<1>2. S \in SUBSET Slots OBVIOUS
<1>3. NULL \notin Slots BY LeaseTableAssumption DEF NULL, Slots
<1>4. S = {}
  <2> HIDE DEF S
  <2> QED BY <1>1, <1>2, <1>3, FirstInSet
<1> QED BY <1>4 DEF NoRecord

(* What sendOffer picks is the address of the client's own record or, when it has
   none, an address of the pool that the table shows free. *)
LEMMA OfferedAddressFree ==
    ASSUME NEW T \in Tables, NEW cfg \in Config, NEW p \in Packet,
           NEW arp, NEW now \in Nat,
           NEW a, a = OfferedAddress(T, cfg, p, arp, now), a # 0
    PROVE  /\ OwnOrFree(T, p.chaddr, a, now)
           /\ Allowed(a, cfg) \/ \E s \in Slots : T[s].yiaddr = a
<1> DEFINE lease == find_lease_by_chaddr(T, p.chaddr)
           Find(chk) == find_address(T, cfg, Reserved, arp, chk, now)
           requestable == /\ p.requested # 0
                          /\ p.requested \in cfg.start .. cfg.end
                          /\ p.requested \notin Reserved
                          /\ address_free(T, p.requested, TRUE, now)
           Good(x) == Allowed(x, cfg) /\ \E chk \in BOOLEAN : address_free(T, x, chk, now)
<1>1. a = IF lease # NULL THEN T[lease].yiaddr
          ELSE IF requestable
               THEN IF p.requested \in {cfg.server, cfg.router} THEN Find(FALSE) ELSE p.requested
          ELSE IF Find(FALSE) # 0 THEN Find(FALSE) ELSE Find(TRUE)
  BY DEF OfferedAddress
<1>2. \A chk \in BOOLEAN : Find(chk) # 0 => Good(Find(chk))
  <2> TAKE chk \in BOOLEAN
  <2>1. cfg.start \in Nat /\ cfg.end \in Nat BY DEF Config
  <2>2. ASSUME NEW x, x = Find(chk), x # 0
        PROVE  Allowed(x, cfg) /\ address_free(T, x, chk, now)
    BY <2>1, <2>2, FindAddressInPool DEF Allowed
  <2> HIDE DEF Find
  <2> QED BY <2>2
<1>3. lease = NULL \/ (lease \in Slots /\ T[lease].chaddr = p.chaddr)
  BY FindLeaseByChaddrType
<1>4. lease = NULL => NoRecord(T, p.chaddr)
  BY NotFound
<1>5. requestable /\ p.requested \notin {cfg.server, cfg.router} => Good(p.requested)
  BY DEF Allowed
<1> HIDE DEF lease, Find, requestable, Good
<1>6. CASE lease # NULL BY <1>1, <1>3, <1>6 DEF OwnOrFree
<1>7. CASE lease = NULL
  <2>1. Good(a)
    <3>1. CASE requestable BY <1>1, <1>2, <1>5, <1>7, <3>1
    <3>2. CASE ~requestable
      <4>1. a = IF Find(FALSE) # 0 THEN Find(FALSE) ELSE Find(TRUE)
        BY <1>1, <1>7, <3>2
      <4> QED BY <1>2, <4>1
    <3> QED BY <3>1, <3>2
  <2> QED BY <1>4, <1>7, <2>1 DEF Good, OwnOrFree
<1> QED BY <1>6, <1>7

(* A client that is offered nothing has no record. *)
LEMMA NothingOffered ==
    ASSUME NEW T \in Tables, NEW cfg, NEW p, NEW arp, NEW now,
           OfferedAddress(T, cfg, p, arp, now) = 0,
           \A i \in Slots : T[i].chaddr = p.chaddr => T[i].yiaddr # 0
    PROVE  NoRecord(T, p.chaddr)
<1> DEFINE lease == find_lease_by_chaddr(T, p.chaddr)
<1>1. lease = NULL \/ (lease \in Slots /\ T[lease].chaddr = p.chaddr)
  BY FindLeaseByChaddrType
<1>2. lease # NULL => OfferedAddress(T, cfg, p, arp, now) = T[lease].yiaddr
  BY DEF OfferedAddress
<1> HIDE DEF lease
<1>3. lease = NULL BY <1>1, <1>2
<1> QED BY <1>3, NotFound DEF lease

(* Nothing can be entered in the empty table at uptime 0. *)
LEMMA AddLeaseAtZero ==
    ASSUME NEW c, NEW y, NEW len
    PROVE  add_lease(EmptyTable, c, y, len, 0) = EmptyTable
<1>1. clear_lease(EmptyTable, c, y) = EmptyTable BY DEF clear_lease, EmptyTable
<1>2. Expired(EmptyTable, 0) = {}
  BY DEF Expired, lease_expired, EmptyTable, Blank
<1>3. oldest_expired_lease(EmptyTable, 0) = NULL
  BY <1>2, EmptyTableOK, OldestExpired
<1>4. NULL \notin Slots BY LeaseTableAssumption DEF NULL, Slots
<1> QED BY <1>1, <1>3, <1>4 DEF add_lease, EmptyTable

-----------------------------------------------------------------------------
\* The pool of the packet in hand, in which the handler works.
ActiveClients == IF UsePool2(packet) THEN Clients2 ELSE Clients1

\* The handler works on the table and the configuration of the packet's pool, and
\* the packet's client is one of that pool.
LEMMA ActivePool ==
    ASSUME Consistent, TableInv, pc = "handle"
    PROVE  /\ packet \in Packet /\ packet.chaddr \in Chaddr /\ packet # NoPacket
           /\ packet.chaddr \in ActiveClients
           /\ ActiveClients \in SUBSET Chaddr
           /\ TableOK(leases, server_config, ActiveClients, uptime)
<1>1. packet \in Packets /\ packet \in Packet /\ packet.chaddr \in Chaddr
  BY DEF TableInv, Loop, TypeOK, Packet
<1>2. packet # NoPacket
  BY <1>1 DEF Packet, NoPacket
<1>3. packet.chaddr \in ActiveClients /\ ActiveClients \in SUBSET Chaddr
  BY <1>1 DEF ActiveClients, Clients1, Clients2, Consistent
<1>4. TableOK(leases, server_config, ActiveClients, uptime)
  <2>1. CASE UsePool2(packet)
    <3>1. TableOK(leases, Config2, Clients2, uptime)
      BY <2>1 DEF TableInv, TablesOK, Pool2, Swapped
    <3>2. SameRange(server_config, Config2)
      BY <2>1 DEF TableInv, Loop, Swapped
    <3> QED BY <2>1, <3>1, <3>2 DEF TableOK, SameRange, Allowed, ActiveClients
  <2>2. CASE ~UsePool2(packet)
    <3>1. TableOK(leases, Config1, Clients1, uptime)
      BY <2>2 DEF TableInv, TablesOK, Pool1, Swapped
    <3>2. server_config = Config1
      BY <2>2 DEF TableInv, Loop, Swapped
    <3> QED BY <2>2, <3>1, <3>2 DEF ActiveClients
  <2> QED BY <2>1, <2>2
<1> QED BY <1>1, <1>2, <1>3, <1>4

(* The record the main loop looks up for a packet is one of leases: the second
   look-up, in leases2, finds only what the first one did. *)
LEMMA Lookup ==
    ASSUME Consistent, TableInv, pc = "handle"
    PROVE  /\ Lease2 = NULL
           /\ LeaseKnown <=> Lease1 # NULL
           /\ Lease1 # NULL =>
                 /\ Lease1 \in Slots
                 /\ leases[Lease1].chaddr = packet.chaddr
                 /\ LeaseYiaddr = leases[Lease1].yiaddr
           /\ Lease1 = NULL => NoRecord(leases, packet.chaddr)
<1>1. packet.chaddr \in Chaddr BY ActivePool
<1>2. packet.chaddr # NoChaddr BY <1>1, LeaseTableAssumption
<1>3. Lease1 = NULL \/ (Lease1 \in Slots /\ leases[Lease1].chaddr = packet.chaddr)
  BY FindLeaseByChaddrType DEF Lease1
<1>4. Lease1 = NULL => find_lease_by_chaddr(leases2, packet.chaddr) = NULL
  <2>1. CASE UsePool2(packet)
    BY <2>1 DEF TableInv, Loop, Lease1
  <2>2. CASE ~UsePool2(packet)
    <3>1. packet.chaddr \in Clients1 BY <2>2, ActivePool DEF ActiveClients
    <3>2. Pool2 = leases2 BY <2>2 DEF Pool2, Swapped
    <3>3. \A i \in Slots : leases2[i].chaddr # packet.chaddr
      BY <1>2, <3>1, <3>2 DEF TableInv, TablesOK, TableOK, Clients1
    <3> QED BY <3>3, FindLeaseByChaddrType
  <2> QED BY <2>1, <2>2
<1>5. Lease2 = NULL BY <1>4 DEF Lease2
<1>6. Lease1 = NULL => NoRecord(leases, packet.chaddr) BY NotFound DEF Lease1
<1> QED BY <1>3, <1>5, <1>6 DEF LeaseKnown, LeaseYiaddr

\* What the step does to the globals besides serving the packet.
Served ==
    /\ pc = "handle" /\ Done
    /\ leases2' = leases2
    /\ Serves(leases, leases', packet.chaddr, server_config, granted, granted', uptime)

(* A record that is entered for the packet's client is written to one slot, or
   there is none for it. *)
LEMMA Inserted ==
    ASSUME Consistent, TableInv, pc = "handle", NEW y \in Nat, y # 0, NEW len \in Nat,
           OwnOrFree(leases, packet.chaddr, y, uptime), Allowed(y, server_config)
    PROVE  Enters(leases, add_lease(leases, packet.chaddr, y, len, uptime),
                  packet.chaddr, y, len, server_config, uptime)
<1>1. /\ packet.chaddr \in Chaddr
      /\ TableOK(leases, server_config, ActiveClients, uptime)
  BY ActivePool
<1>2. leases \in Tables /\ Injective(leases) /\ uptime \in Nat
  BY UdhcpdAssumption DEF TableInv, TypeOK, UniqueHolders
<1>3. Compact(leases)
  BY <1>1 DEF TableOK
<1>4. CASE uptime = 0
  <2>1. leases = EmptyTable BY <1>1, <1>4 DEF TableOK
  <2>2. NoRecord(leases, packet.chaddr)
    BY <1>1, <2>1, LeaseTableAssumption DEF NoRecord, EmptyTable, Blank
  <2> QED BY <1>4, <2>1, <2>2, AddLeaseAtZero DEF Enters
<1>5. CASE uptime # 0
  BY <1>1, <1>2, <1>3, <1>5, AddLeaseWrites
<1> QED BY <1>4, <1>5

(* Writing the client's own record in place, its address unchanged. *)
LEMMA WrittenInPlace ==
    ASSUME Consistent, TableInv, pc = "handle", NEW s \in Slots,
           leases[s].chaddr = packet.chaddr, NEW r \in Lease,
           r.yiaddr = leases[s].yiaddr, r.chaddr \in {packet.chaddr, NoChaddr},
           r.expires >= uptime
    PROVE  Writes(leases, [leases EXCEPT ![s] = r], s, r, packet.chaddr,
                  server_config, uptime)
<1>1. /\ packet.chaddr \in Chaddr /\ packet.chaddr # NoChaddr
      /\ TableOK(leases, server_config, ActiveClients, uptime)
  BY ActivePool, LeaseTableAssumption
<1>2. leases \in Tables /\ Injective(leases) /\ uptime \in Nat
  BY UdhcpdAssumption DEF TableInv, TypeOK, UniqueHolders
<1>3. leases[s] # Blank BY <1>1 DEF Blank
<1>4. uptime # 0 BY <1>1, <1>3 DEF TableOK, EmptyTable
<1>5. leases[s].expires # 0 BY <1>1, <1>3 DEF TableOK, Compact
<1>6. leases[s].yiaddr # 0 /\ Allowed(leases[s].yiaddr, server_config)
  BY <1>1 DEF TableOK
<1>7. \A i \in Slots : i # s => leases[i].yiaddr # r.yiaddr
  BY <1>2, <1>6 DEF Injective
<1> QED BY <1>4, <1>5, <1>6, <1>7 DEF Writes

(* sendOffer serves the client. *)
LEMMA OfferServed ==
    ASSUME Consistent, TableInv, NEW arp, DiscoverOffer(arp)
    PROVE  Served
<1> DEFINE y == OfferedAddress(leases, server_config, packet, arp, uptime)
<1>1. pc = "handle" BY DEF DiscoverOffer
<1>2. packet \in Packet /\ uptime \in Nat /\ leases \in Tables /\ server_config \in Config
  BY <1>1, UdhcpdAssumption DEF TableInv, TypeOK
<1>3. y \in Nat BY <1>2, OfferedAddressType
<1>4. y # 0 /\ leases' = add_lease(leases, packet.chaddr, y, OfferTime, uptime)
      /\ granted' = [granted EXCEPT ![packet.chaddr] = NoGrant]
      /\ leases2' = leases2 /\ Done
  BY DEF DiscoverOffer
<1>5. /\ OwnOrFree(leases, packet.chaddr, y, uptime)
      /\ Allowed(y, server_config) \/ \E s \in Slots : leases[s].yiaddr = y
  BY <1>2, <1>4, OfferedAddressFree
<1> HIDE DEF y
<1>6. Allowed(y, server_config)
  BY <1>1, <1>4, <1>5, ActivePool DEF TableOK
<1>7. Enters(leases, leases', packet.chaddr, y, OfferTime, server_config, uptime)
  BY <1>1, <1>3, <1>4, <1>5, <1>6, Inserted, UdhcpdAssumption
<1> QED BY <1>1, <1>4, <1>7 DEF Enters, Serves, Served

(* With no address to offer, the client had none. *)
LEMMA AbandonServed ==
    ASSUME Consistent, TableInv, NEW arp, DiscoverAbandoned(arp)
    PROVE  Served
<1>1. pc = "handle" /\ OfferedAddress(leases, server_config, packet, arp, uptime) = 0
      /\ granted' = [granted EXCEPT ![packet.chaddr] = NoGrant]
      /\ leases' = leases /\ leases2' = leases2 /\ Done
  BY DEF DiscoverAbandoned
<1>2. \A i \in Slots : leases[i].chaddr = packet.chaddr => leases[i].yiaddr # 0
  BY <1>1, ActivePool, LeaseTableAssumption DEF TableOK
<1>3. NoRecord(leases, packet.chaddr)
  BY <1>1, <1>2, NothingOffered DEF TableInv, TypeOK
<1> QED BY <1>1, <1>3 DEF Serves, Served

(* sendACK writes the client's record in its slot again, with the new time: the
   grant is what the record says. *)
LEMMA AckWrites ==
    ASSUME Consistent, TableInv, RequestAck
    PROVE  Writes(leases, leases', Lease1,
                  [chaddr |-> packet.chaddr, yiaddr |-> LeaseYiaddr,
                   expires |-> uptime + AckLeaseTime],
                  packet.chaddr, server_config, uptime)
<1>1. pc = "handle" /\ LeaseKnown BY DEF RequestAck, AckDue
<1>2. LeaseYiaddr \in Nat /\ AckLeaseTime \in Nat
  BY <1>1, RequestTypes DEF TableInv
<1>3. Lease1 \in Slots /\ leases[Lease1].chaddr = packet.chaddr
      /\ leases[Lease1].yiaddr = LeaseYiaddr
  BY <1>1, Lookup
<1>4. LeaseYiaddr # 0 /\ Allowed(LeaseYiaddr, server_config)
  BY <1>1, <1>3, ActivePool, LeaseTableAssumption DEF TableOK
<1>5. OwnOrFree(leases, packet.chaddr, LeaseYiaddr, uptime)
  BY <1>3 DEF OwnOrFree
<1>6. leases' = add_lease(leases, packet.chaddr, LeaseYiaddr, AckLeaseTime, uptime)
  BY DEF RequestAck
<1>7. Enters(leases, leases', packet.chaddr, LeaseYiaddr, AckLeaseTime,
             server_config, uptime)
  BY <1>1, <1>2, <1>4, <1>5, <1>6, Inserted
<1>8. ~NoRecord(leases, packet.chaddr) BY <1>3 DEF NoRecord
<1> QED BY <1>3, <1>7, <1>8 DEF Enters

(* So sendACK serves the client. *)
LEMMA AckServed ==
    ASSUME Consistent, TableInv, RequestAck
    PROVE  Served
<1> DEFINE r == [chaddr |-> packet.chaddr, yiaddr |-> LeaseYiaddr,
                 expires |-> uptime + AckLeaseTime]
<1>1. Writes(leases, leases', Lease1, r, packet.chaddr, server_config, uptime)
  BY AckWrites
<1>2. granted' = [granted EXCEPT ![packet.chaddr] = [addr |-> r.yiaddr, until |-> r.expires]]
  BY DEF RequestAck
<1>3. r.chaddr = packet.chaddr OBVIOUS
<1>4. pc = "handle" /\ Done /\ leases2' = leases2 BY DEF RequestAck
<1> HIDE DEF r
<1> QED BY <1>1, <1>2, <1>3, <1>4 DEF Serves, Served

(* DECLINE and RELEASE write the client's record in place, if there is one. *)
LEMMA EndServed ==
    ASSUME Consistent, TableInv, Decline \/ Release
    PROVE  Served
<1>1. /\ pc = "handle" /\ Done
      /\ granted' = [granted EXCEPT ![packet.chaddr] = NoGrant]
  BY DEF Decline, Release
<1>2. Lease2 = NULL BY <1>1, Lookup
<1>3. leases2' = leases2 BY <1>2 DEF Decline, Release, UpdateFound
<1>4. uptime \in Nat /\ leases \in Tables
  BY UdhcpdAssumption DEF TableInv, TypeOK
<1>5. CASE Lease1 = NULL
  <2>1. leases' = leases BY <1>5 DEF Decline, Release, UpdateFound
  <2>2. NoRecord(leases, packet.chaddr) BY <1>1, <1>5, Lookup
  <2> QED BY <1>1, <1>3, <2>1, <2>2 DEF Serves, Served
<1>6. CASE Lease1 # NULL
  <2> DEFINE l == leases[Lease1]
  <2>1. Lease1 \in Slots /\ l.chaddr = packet.chaddr /\ l \in Lease
    BY <1>1, <1>4, <1>6, Lookup DEF Tables
  <2>2. \E r \in Lease : /\ leases' = [leases EXCEPT ![Lease1] = r]
                         /\ r.yiaddr = l.yiaddr /\ r.chaddr \in {packet.chaddr, NoChaddr}
                         /\ r.expires >= uptime
    <3>1. CASE Decline
      <4> DEFINE r == [chaddr |-> NoChaddr, yiaddr |-> l.yiaddr,
                       expires |-> uptime + DeclineTime]
      <4>1. leases' = [leases EXCEPT ![Lease1] = r]
        BY <1>6, <3>1 DEF Decline, UpdateFound
      <4>2. r \in Lease /\ r.yiaddr = l.yiaddr /\ r.chaddr = NoChaddr /\ r.expires >= uptime
        BY <1>4, <2>1, UdhcpdAssumption DEF Lease
      <4> QED BY <4>1, <4>2
    <3>2. CASE Release
      <4> DEFINE r == [l EXCEPT !.expires = uptime]
      <4>1. leases' = [leases EXCEPT ![Lease1] = r]
        BY <1>6, <3>2 DEF Release, UpdateFound
      <4>2. r \in Lease /\ r.yiaddr = l.yiaddr /\ r.chaddr = l.chaddr /\ r.expires >= uptime
        BY <1>4, <2>1 DEF Lease
      <4> QED BY <2>1, <4>1, <4>2
    <3> QED BY <3>1, <3>2
  <2>3. PICK r \in Lease : /\ leases' = [leases EXCEPT ![Lease1] = r]
                           /\ r.yiaddr = l.yiaddr /\ r.chaddr \in {packet.chaddr, NoChaddr}
                           /\ r.expires >= uptime
    BY <2>2
  <2>4. Writes(leases, leases', Lease1, r, packet.chaddr, server_config, uptime)
    BY <1>1, <2>1, <2>3, WrittenInPlace
  <2> QED BY <1>1, <1>3, <2>4 DEF Serves, Served
<1> QED BY <1>5, <1>6

(* Every handler serves the packet's client in the packet's pool. *)
LEMMA HandlerServes ==
    ASSUME Consistent, TableInv, Handle
    PROVE  Served
<1>1. CASE RequestAckNotSent \/ RequestRefuse \/ Inform
  BY <1>1 DEF RequestAckNotSent, RequestRefuse, Inform, Serves, Served
<1> QED BY <1>1, OfferServed, AbandonServed, AckServed, EndServed DEF Handle

-----------------------------------------------------------------------------
\* What a step amounts to for the two pools: nothing, a tick of the clock, or one
\* of them serves a client of its own while the other one rests.
PoolsRest == Pool1' = Pool1 /\ Pool2' = Pool2 /\ granted' = granted
Pool1Serves ==
    /\ pc = "handle" /\ uptime' = uptime
    /\ packet.chaddr \in Clients1
    /\ Serves(Pool1, Pool1', packet.chaddr, Config1, granted, granted', uptime)
    /\ Pool2' = Pool2
Pool2Serves ==
    /\ pc = "handle" /\ uptime' = uptime
    /\ packet.chaddr \in Clients2
    /\ Serves(Pool2, Pool2', packet.chaddr, Config2, granted, granted', uptime)
    /\ Pool1' = Pool1

(* The swap of the globals and its undoing are invisible: a packet is served in the
   pool its vendor class names. *)
LEMMA StepOfPools ==
    ASSUME Consistent, TableInv, [Next]_vars
    PROVE  \/ PoolsRest /\ (uptime' = uptime \/ Tick)
           \/ Pool1Serves
           \/ Pool2Serves
<1>1. CASE Handle
  <2>1. Served BY <1>1, HandlerServes
  <2>2. pc = "handle" /\ uptime' = uptime /\ tmpls' = tmpls /\ leases2' = leases2
    BY <2>1 DEF Served, Done
  <2>3. packet.chaddr \in ActiveClients BY <2>2, ActivePool
  <2>4. CASE UsePool2(packet)
    <3>1. pc' = "restore" /\ packet' = packet
      BY <2>1, <2>4 DEF Served, Done
    <3>2. Pool1 = tmpls /\ Pool1' = tmpls' /\ Pool2 = leases /\ Pool2' = leases'
      BY <2>2, <2>4, <3>1 DEF Pool1, Pool2, Swapped, UsePool2
    <3>3. SameRange(server_config, Config2)
      BY <2>2, <2>4 DEF TableInv, Loop, Swapped
    <3>4. Serves(leases, leases', packet.chaddr, Config2, granted, granted', uptime)
      <4>1. ASSUME NEW o, NEW r,
                   Writes(leases, leases', o, r, packet.chaddr, server_config, uptime)
            PROVE  Writes(leases, leases', o, r, packet.chaddr, Config2, uptime)
        BY <3>3, <4>1 DEF Writes, Allowed, SameRange
      <4> QED BY <2>1, <4>1 DEF Served, Serves
    <3> QED BY <2>2, <2>3, <2>4, <3>2, <3>4 DEF Pool2Serves, ActiveClients
  <2>5. CASE ~UsePool2(packet)
    <3>1. pc' = "select"
      BY <2>1, <2>5 DEF Served, Done
    <3>2. Pool1 = leases /\ Pool1' = leases' /\ Pool2 = leases2 /\ Pool2' = leases2'
      BY <2>5, <3>1 DEF Pool1, Pool2, Swapped
    <3>3. server_config = Config1
      BY <2>5 DEF TableInv, Loop, Swapped
    <3> QED BY <2>1, <2>2, <2>3, <2>5, <3>2, <3>3 DEF Served, Pool1Serves, ActiveClients
  <2> QED BY <2>4, <2>5
<1>2. ASSUME NEW p \in Packets, ReceivePool1(p)
      PROVE  PoolsRest /\ uptime' = uptime
  BY <1>2 DEF ReceivePool1, PoolsRest, Pool1, Pool2, Swapped
<1>3. ASSUME NEW p \in Packets, ReceivePool2(p)
      PROVE  PoolsRest /\ uptime' = uptime
  BY <1>3 DEF ReceivePool2, PoolsRest, Pool1, Pool2, Swapped
<1>4. CASE Restore
  <2>1. UsePool2(packet) /\ pc = "restore" /\ pc' = "select"
    BY <1>4 DEF Restore, TableInv, Loop
  <2> QED BY <1>4, <2>1 DEF Restore, PoolsRest, Pool1, Pool2, Swapped
<1>5. CASE Tick
  BY <1>5 DEF Tick, PoolsRest, Pool1, Pool2, Swapped, UsePool2
<1>6. CASE UNCHANGED vars
  BY <1>6 DEF vars, PoolsRest, Pool1, Pool2, Swapped, UsePool2
<1> QED BY <1>1, <1>2, <1>3, <1>4, <1>5, <1>6 DEF Next

(* The table of either pool is well typed and has unique holders. *)
LEMMA PoolTables ==
    ASSUME TableInv
    PROVE  /\ Pool1 \in Tables /\ Pool2 \in Tables
           /\ Injective(Pool1) /\ Injective(Pool2)
           /\ uptime \in Nat
           /\ granted \in [Chaddr -> [addr : Nat, until : Nat]]
           /\ Clients1 \in SUBSET Chaddr /\ Clients2 \in SUBSET Chaddr
           /\ Clients1 \cap Clients2 = {}
BY UdhcpdAssumption
DEF TableInv, TypeOK, UniqueHolders, Pool1, Pool2, Clients1, Clients2

(* Every step keeps both tables in order. *)
LEMMA TablesStep ==
    ASSUME Consistent, TableInv, [Next]_vars
    PROVE  TablesOK'
<1>1. TableOK(Pool1, Config1, Clients1, uptime) /\ TableOK(Pool2, Config2, Clients2, uptime)
  BY DEF TableInv, TablesOK
<1> SUFFICES /\ TableOK(Pool1', Config1, Clients1, uptime')
             /\ TableOK(Pool2', Config2, Clients2, uptime')
  BY DEF TablesOK
<1>2. CASE PoolsRest /\ uptime' = uptime
  BY <1>1, <1>2 DEF PoolsRest
<1>3. CASE PoolsRest /\ Tick
  <2>1. uptime' = uptime + 1 /\ uptime' # 0 BY <1>3, PoolTables DEF Tick
  <2> QED BY <1>1, <1>3, <2>1 DEF PoolsRest, TableOK
<1>4. CASE Pool1Serves
  BY <1>1, <1>4, PoolTables, ServesTable DEF Pool1Serves
<1>5. CASE Pool2Serves
  BY <1>1, <1>5, PoolTables, ServesTable DEF Pool2Serves
<1> QED BY <1>2, <1>3, <1>4, <1>5, StepOfPools

(* Every step keeps the promises of both pools. *)
LEMMA PromisesStep ==
    ASSUME Consistent, PoolInv, [Next]_vars
    PROVE  PromisesKept'
<1>1. /\ GrantsOK(Pool1, Config1, Clients1, granted, uptime)
      /\ GrantsOK(Pool2, Config2, Clients2, granted, uptime)
      /\ TableInv
  BY DEF PoolInv, PromisesKept
<1> SUFFICES /\ GrantsOK(Pool1', Config1, Clients1, granted', uptime')
             /\ GrantsOK(Pool2', Config2, Clients2, granted', uptime')
  BY DEF PromisesKept
<1>2. CASE PoolsRest /\ uptime' = uptime
  BY <1>1, <1>2 DEF PoolsRest
<1>3. CASE PoolsRest /\ Tick
  <2>1. uptime' = uptime + 1 BY <1>3 DEF Tick
  <2> QED BY <1>1, <1>3, <2>1, PoolTables, GrantsTick DEF PoolsRest
<1>4. CASE Pool1Serves
  <2>1. packet.chaddr \in Chaddr /\ packet.chaddr \notin Clients2
    BY <1>1, <1>4, PoolTables DEF Pool1Serves
  <2>2. GrantsOK(Pool1', Config1, Clients1, granted', uptime)
    BY <1>1, <1>4, PoolTables, ServesGrants DEF Pool1Serves
  <2>3. GrantsOK(Pool2, Config2, Clients2, granted', uptime)
    BY <1>1, <1>4, <2>1, PoolTables, ServesOther DEF Pool1Serves
  <2> QED BY <1>4, <2>2, <2>3 DEF Pool1Serves
<1>5. CASE Pool2Serves
  <2>1. packet.chaddr \in Chaddr /\ packet.chaddr \notin Clients1
    BY <1>1, <1>5, PoolTables DEF Pool2Serves
  <2>2. GrantsOK(Pool2', Config2, Clients2, granted', uptime)
    BY <1>1, <1>5, PoolTables, ServesGrants DEF Pool2Serves
  <2>3. GrantsOK(Pool1, Config1, Clients1, granted', uptime)
    BY <1>1, <1>5, <2>1, PoolTables, ServesOther DEF Pool2Serves
  <2> QED BY <1>5, <2>2, <2>3 DEF Pool2Serves
<1> QED BY <1>1, <1>2, <1>3, <1>4, <1>5, StepOfPools

(* While the second pool's packet is handled server_config describes that pool. *)
LEMMA SwapRange ==
    ASSUME TypeOK
    PROVE  SameRange(SecondPoolConfig, server2_config)
<1>1. server_config \in [start : Nat, end : Nat, server : Nat, router : Nat, lease : Nat,
                         lease_file : {"udhcpd.leases", "udhcpd2.leases"}]
  BY DEF TypeOK, Config
<1> QED BY <1>1 DEF SecondPoolConfig, SameRange

(* Every step keeps what is said about the globals. *)
LEMMA LoopStep ==
    ASSUME Consistent, TableInv, [Next]_vars
    PROVE  Loop'
<1>1. TypeOK /\ Loop BY DEF TableInv
<1>2. CASE Handle
  <2>1. Served BY <1>2, HandlerServes
  <2>2. pc = "handle" /\ leases2' = leases2 /\ Done BY <2>1 DEF Served
  <2>3. CASE UsePool2(packet)
    BY <1>1, <2>2, <2>3 DEF Done, configs, Loop, Swapped, UsePool2
  <2>4. CASE ~UsePool2(packet)
    BY <1>1, <2>2, <2>4 DEF Done, configs, Loop, Swapped
  <2> QED BY <2>3, <2>4
<1>3. ASSUME NEW p \in Packets, ReceivePool1(p) PROVE Loop'
  BY <1>1, <1>3 DEF ReceivePool1, configs, Loop, Swapped
<1>4. ASSUME NEW p \in Packets, ReceivePool2(p) PROVE Loop'
  <2>1. ~Swapped /\ UsePool2(p) /\ pc' = "handle" /\ packet' = p BY <1>4 DEF ReceivePool2, Swapped
  <2>2. server_config = Config1 /\ SameRange(server2_config, Config2)
    BY <1>1, <2>1 DEF Loop
  <2>3. SameRange(SecondPoolConfig, Config2)
    BY <1>1, <2>2, SwapRange DEF SameRange
  <2>4. tmpSrvCfg' = Config1 /\ server_config' = SecondPoolConfig /\ leases2' = leases'
    BY <1>4, <2>2 DEF ReceivePool2
  <2>5. SameRange(server_config, Config2)'
    BY <2>3, <2>4 DEF SameRange
  <2>6. Swapped' BY <2>1 DEF Swapped, UsePool2
  <2> QED BY <2>1, <2>4, <2>5, <2>6 DEF Loop
<1>5. CASE Restore
  <2>1. Swapped BY <1>1, <1>5 DEF Restore, Loop, Swapped
  <2>2. tmpSrvCfg = Config1 /\ SameRange(server_config, Config2)
    BY <1>1, <2>1 DEF Loop
  <2> QED BY <1>5, <2>2 DEF Restore, Loop, Swapped, SameRange
<1>6. CASE Tick
  BY <1>1, <1>6 DEF Tick, configs, Loop, Swapped, UsePool2, SameRange
<1>7. CASE UNCHANGED vars
  BY <1>1, <1>7 DEF vars, Loop, Swapped, UsePool2, SameRange
<1> QED BY <1>2, <1>3, <1>4, <1>5, <1>6, <1>7 DEF Next

(* The empty table is in order. *)
LEMMA EmptyInOrder ==
    ASSUME NEW cfg, NEW clients, NEW now
    PROVE  TableOK(EmptyTable, cfg, clients, now)
<1>1. \A i \in Slots : EmptyTable[i] = Blank BY DEF EmptyTable
<1>2. Blank.chaddr = NoChaddr /\ Blank.yiaddr = 0 /\ Blank.expires = 0 BY DEF Blank
<1>3. Compact(EmptyTable) BY <1>1, <1>2 DEF Compact
<1> QED BY <1>1, <1>2, <1>3 DEF TableOK

(* Both pools start in order, with nothing promised. *)
LEMMA PoolsInit == Init => Loop /\ TablesOK /\ PromisesKept
<1> SUFFICES ASSUME Init PROVE Loop /\ TablesOK /\ PromisesKept
  OBVIOUS
<1>1. ~Swapped /\ Pool1 = EmptyTable /\ Pool2 = EmptyTable
  BY DEF Init, Swapped, Pool1, Pool2
<1>2. Loop BY <1>1 DEF Init, Loop, SameRange
<1>3. TablesOK BY <1>1, EmptyInOrder DEF TablesOK
<1>4. ASSUME NEW T, NEW cfg, NEW clients \in SUBSET Chaddr
      PROVE  GrantsOK(T, cfg, clients, granted, uptime)
  <2>1. \A c \in clients : granted[c] = NoGrant BY DEF Init
  <2> QED BY <2>1 DEF NoGrant, GrantsOK, Backed, GrantOK
<1>5. Clients1 \in SUBSET Chaddr /\ Clients2 \in SUBSET Chaddr
  BY DEF Clients1, Clients2
<1> QED BY <1>2, <1>3, <1>4, <1>5 DEF PromisesKept

(* The tables of the server whose clients keep to their pools stay in order. *)
THEOREM TableInvariant ==
    ASSUME Consistent
    PROVE  Spec => []TableInv
<1>1. TypeOK /\ UniqueHolders /\ Loop /\ TablesOK /\ [Next]_vars => (Loop /\ TablesOK)'
  <2> SUFFICES ASSUME TypeOK, UniqueHolders, Loop, TablesOK, [Next]_vars
               PROVE  Loop' /\ TablesOK'
    OBVIOUS
  <2>1. TableInv BY DEF TableInv
  <2> QED BY <2>1, LoopStep, TablesStep
<1>2. TypeOK /\ UniqueHolders /\ Loop /\ TablesOK <=> TableInv BY DEF TableInv
<1> QED BY <1>1, <1>2, PoolsInit, TypeCorrect, HoldersUnique, PTL DEF Spec

(* And it keeps its promises: the inductive invariant of the theorems below. *)
THEOREM PoolInvariant ==
    ASSUME Consistent
    PROVE  Spec => []PoolInv
<1>1. TableInv /\ PromisesKept /\ [Next]_vars => PromisesKept'
  BY PromisesStep DEF PoolInv
<1>2. TableInv /\ PromisesKept <=> PoolInv BY DEF PoolInv
<1> QED BY <1>1, <1>2, PoolsInit, TableInvariant, PTL DEF Spec

-----------------------------------------------------------------------------
(* The server remembers what it promised: while a grant runs, the record that backs
   it is in a table and expires no earlier than the client was told in its ACK. *)
THEOREM GrantsBacked ==
    ASSUME Consistent
    PROVE  Spec => []GrantBacked
<1>1. PoolInv => GrantBacked
  <2> SUFFICES ASSUME PoolInv, NEW c \in Chaddr, granted[c].addr # 0,
                      granted[c].until >= uptime
               PROVE  \E T \in {Pool1, Pool2} : \E i \in Slots :
                          /\ T[i].chaddr = c
                          /\ T[i].yiaddr = granted[c].addr
                          /\ T[i].expires >= granted[c].until
    BY DEF GrantBacked
  <2>1. Backed(Pool1, granted[c], c, uptime) \/ Backed(Pool2, granted[c], c, uptime)
    BY DEF PoolInv, PromisesKept, GrantsOK, Clients1
  <2> QED BY <2>1 DEF Backed
<1> QED BY <1>1, PoolInvariant, PTL

(* A table in order has only addresses of its pool. *)
LEMMA Disciplined ==
    ASSUME TableInv
    PROVE  PoolDiscipline
BY DEF TableInv, TablesOK, TableOK, PoolDiscipline, InPool, Allowed

(* Every address in a pool's table is one of that pool, not reserved and not the
   server's or the router's. *)
THEOREM PoolsDisciplined ==
    ASSUME Consistent
    PROVE  Spec => []PoolDiscipline
<1>1. TableInv => PoolDiscipline BY Disciplined
<1> QED BY <1>1, TableInvariant, PTL

\* The ranges of the pools do not overlap, or only one is in use.
RangesDisjoint ==
    (Config1.start .. Config1.end) \cap (Config2.start .. Config2.end) = {}
Disjoint == RangesDisjoint \/ ~EnblSrv2

(* When the two pools have no address in common, no address is ever in the hands of
   two clients at once. *)
THEOREM NoDoubleGrants ==
    ASSUME Consistent, Disjoint
    PROVE  Spec => []NoDoubleGrant
<1>1. PoolInv => NoDoubleGrant
  <2> SUFFICES ASSUME PoolInv,
                      NEW c \in Chaddr, NEW d \in Chaddr, c # d,
                      granted[c].addr # 0, granted[c].addr = granted[d].addr,
                      granted[c].until >= uptime, granted[d].until >= uptime
               PROVE  FALSE
    BY PoolTables DEF PoolInv, NoDoubleGrant
  <2>1. ASSUME NEW T, Injective(T), Backed(T, granted[c], c, uptime),
               Backed(T, granted[d], d, uptime)
        PROVE  FALSE
    <3>1. PICK i \in Slots : T[i].chaddr = c /\ T[i].yiaddr = granted[c].addr
      BY <2>1 DEF Backed
    <3>2. PICK j \in Slots : T[j].chaddr = d /\ T[j].yiaddr = granted[d].addr
      BY <2>1 DEF Backed
    <3> QED BY <2>1, <3>1, <3>2 DEF Injective
  <2>2. \A a \in Clients1 : Backed(Pool1, granted[a], a, uptime) /\ GrantOK(granted[a], Config1)
    BY DEF PoolInv, PromisesKept, GrantsOK
  <2>3. \A a \in Clients2 : Backed(Pool2, granted[a], a, uptime) /\ GrantOK(granted[a], Config2)
    BY DEF PoolInv, PromisesKept, GrantsOK
  <2>4. CASE c \in Clients1 /\ d \in Clients1
    BY <2>1, <2>2, <2>4, PoolTables DEF PoolInv
  <2>5. CASE c \in Clients2 /\ d \in Clients2
    BY <2>1, <2>3, <2>5, PoolTables DEF PoolInv
  <2>6. ASSUME NEW a \in Clients1, NEW b \in Clients2, granted[a].addr # 0,
               granted[a].addr = granted[b].addr
        PROVE  FALSE
    <3>1. granted[a].addr \in Config1.start .. Config1.end
      BY <2>2, <2>6 DEF GrantOK
    <3>2. granted[a].addr \in Config2.start .. Config2.end
      BY <2>3, <2>6 DEF GrantOK
    <3>3. EnblSrv2 BY DEF Clients2, UsePool2
    <3> QED BY <3>1, <3>2, <3>3 DEF Disjoint, RangesDisjoint
  <2> QED BY <2>4, <2>5, <2>6 DEF Clients1
<1> QED BY <1>1, PoolInvariant, PTL

(* No step made for a client's packet changes a lease, an offer or a DECLINE
   reservation of another before it expires. *)
THEOREM RunningLeasesKept ==
    ASSUME Consistent
    PROVE  Spec => RunningLeaseKept
<1>1. TableInv /\ [Next]_vars
        => [Undisturbed(Pool1, Pool1') /\ Undisturbed(Pool2, Pool2')]_vars
  <2> SUFFICES ASSUME TableInv, [Next]_vars
               PROVE  Undisturbed(Pool1, Pool1') /\ Undisturbed(Pool2, Pool2')
    OBVIOUS
  <2>1. CASE PoolsRest BY <2>1 DEF PoolsRest, Undisturbed
  <2>2. CASE Pool1Serves
    <3>1. packet # NoPacket BY <2>2, ActivePool DEF Pool1Serves
    <3>2. Undisturbed(Pool1, Pool1')
      BY <2>2, <3>1, PoolTables, ServesKeeps DEF Pool1Serves, Undisturbed
    <3> QED BY <2>2, <3>2 DEF Pool1Serves, Undisturbed
  <2>3. CASE Pool2Serves
    <3>1. packet # NoPacket BY <2>3, ActivePool DEF Pool2Serves
    <3>2. Undisturbed(Pool2, Pool2')
      BY <2>3, <3>1, PoolTables, ServesKeeps DEF Pool2Serves, Undisturbed
    <3> QED BY <2>3, <3>2 DEF Pool2Serves, Undisturbed
  <2> QED BY <2>1, <2>2, <2>3, StepOfPools
<1> QED BY <1>1, TableInvariant, PTL DEF Spec, RunningLeaseKept

(* sendACK moves no record: after it the client's record is in the slot that the
   main loop looked up before it. *)
LEMMA AckInPlace ==
    ASSUME Consistent, TableInv, Next, packet # NoPacket, Lease1 # NULL, reply'.type = "ACK"
    PROVE  find_lease_by_chaddr(leases', packet.chaddr) = Lease1
<1>1. CASE Inform
  BY <1>1 DEF Inform, Lease1
<1>2. CASE RequestAck
  <2> DEFINE c == packet.chaddr
  <2>1. pc = "handle" BY <1>2 DEF RequestAck
  <2>2. Lease1 \in Slots /\ leases[Lease1].chaddr = c BY <2>1, Lookup
  <2>3. leases \in Tables /\ Injective(leases) BY DEF TableInv, TypeOK, UniqueHolders
  <2>4. leases' = [leases EXCEPT ![Lease1] =
                      [chaddr |-> c, yiaddr |-> LeaseYiaddr,
                       expires |-> uptime + AckLeaseTime]]
    BY <1>2, AckWrites DEF Writes
  <2>5. c # NoChaddr BY <2>1, ActivePool, LeaseTableAssumption
  <2> HIDE DEF c
  <2>6. leases'[Lease1].chaddr = c BY <2>2, <2>3, <2>4 DEF Tables
  <2>7. \A i \in Slots : leases'[i].chaddr = c => i = Lease1
    BY <2>2, <2>3, <2>4, <2>5 DEF Tables, Injective
  <2>8. find_lease_by_chaddr(leases', c) # NULL
    BY <2>2, <2>6, NotFound DEF NoRecord
  <2>9. find_lease_by_chaddr(leases', c) \in Slots
        /\ leases'[find_lease_by_chaddr(leases', c)].chaddr = c
    BY <2>8, FindLeaseByChaddrType
  <2> QED BY <2>7, <2>9 DEF c
<1>3. CASE reply' = NoReply \/ reply' = Reply("NAK", 0, 0)
           \/ \E y, t : reply' = Reply("OFFER", y, t)
  BY <1>3 DEF NoReply, Reply
<1> QED
  BY <1>1, <1>2, <1>3
  DEF Next, Handle, ReceivePool1, ReceivePool2, DiscoverOffer, DiscoverAbandoned,
      RequestAckNotSent, RequestRefuse, Decline, Release, Restore, Tick

(* The pointer to the client's record that the main loop keeps across sendACK is
   still one to the client's record afterwards. *)
THEOREM SlotsStable ==
    ASSUME Consistent
    PROVE  Spec => SlotStable
<1>1. TableInv /\ [Next]_vars
        => [packet # NoPacket /\ Lease1 # NULL /\ reply'.type = "ACK"
              => find_lease_by_chaddr(leases', packet.chaddr) = Lease1]_vars
  BY AckInPlace
<1> QED BY <1>1, TableInvariant, PTL DEF Spec, SlotStable

-----------------------------------------------------------------------------
(* Seen through the replies of the udhcp server, either pool is an AddressPool. *)

\* The reservation a record stands for.
Seen(l) == [addr |-> l.yiaddr, who |-> l.chaddr, until |-> l.expires]

\* The running reservations of a table, at a time.
Held(T, now) ==
    {Seen(T[i]) : i \in {j \in Slots : T[j].yiaddr # 0 /\ T[j].expires >= now}}

\* Those that are not client c's.
NotOf(T, c, now) == {h \in Held(T, now) : h.who # c}

\* The grants of some of the clients.
GrantsOf(clients, g) == [c \in Chaddr |-> IF c \in clients THEN g[c] ELSE NoGrant]

\* What serving client c amounts to from outside: the reservations h become hn, what
\* the clients were told t becomes tn.
Outside(h, hn, t, tn, c, now) ==
    LET others == {k \in h : k.who # c}
    IN  \/ hn = h /\ tn = t
        \/ hn = others /\ tn = [t EXCEPT ![c] = NoGrant]
        \/ \E n \in hn :
              /\ n \in [addr : Nat, who : Chaddr \cup {NoChaddr}, until : Nat]
              /\ n.addr # 0 /\ n.until >= now
              /\ \A k \in others : k.addr # n.addr
              /\ hn = others \cup {n}
              /\ \/ n.who \in {c, NoChaddr} /\ tn = [t EXCEPT ![c] = NoGrant]
                 \/ n.who = c /\ tn = [t EXCEPT ![c] = [addr |-> n.addr, until |-> n.until]]

-----------------------------------------------------------------------------
(* Members of Held are the running records. *)
LEMMA HeldMember ==
    ASSUME NEW T, NEW now, NEW h
    PROVE  h \in Held(T, now) <=>
             \E i \in Slots : /\ T[i].yiaddr # 0 /\ T[i].expires >= now
                              /\ h = Seen(T[i])
BY DEF Held

(* A client without a record has nothing reserved. *)
LEMMA HeldNone ==
    ASSUME NEW T, NEW now, NEW c, NoRecord(T, c)
    PROVE  NotOf(T, c, now) = Held(T, now)
<1>1. ASSUME NEW h \in Held(T, now) PROVE h.who # c
  BY HeldMember DEF NoRecord, Seen
<1> QED BY <1>1 DEF NotOf

(* Writing a slot replaces the client's reservation, touches no other, and takes an
   address that no other has. *)
LEMMA HeldWrites ==
    ASSUME NEW T \in Tables, Injective(T), NEW Tn, NEW o, NEW r, NEW c \in Chaddr,
           NEW cfg, NEW now \in Nat, Writes(T, Tn, o, r, c, cfg, now)
    PROVE  /\ Held(Tn, now) = NotOf(T, c, now) \cup {Seen(r)}
           /\ \A k \in NotOf(T, c, now) : k.addr # r.yiaddr
<1>1. c # NoChaddr BY LeaseTableAssumption
<1>2. /\ o \in Slots /\ r \in Lease /\ r.yiaddr # 0 /\ r.expires >= now
      /\ \A i \in Slots : i # o => T[i].yiaddr # r.yiaddr
  BY DEF Writes
<1>3. Tn[o] = r /\ \A i \in Slots : i # o => Tn[i] = T[i]
  BY <1>2 DEF Writes, Tables
<1>4. \A i \in Slots : i # o => T[i].chaddr # c
  BY <1>1, <1>2 DEF Writes, Injective, NoRecord
<1>5. T[o].chaddr = c \/ ~(T[o].expires >= now)
  <2>1. T[o].expires \in Nat BY <1>2 DEF Tables, Lease
  <2> QED BY <2>1 DEF Writes, lease_expired
<1>6. ASSUME NEW k, k \in Held(T, now), k.who # c
      PROVE  k \in Held(Tn, now) /\ k.addr # r.yiaddr
  <2>1. PICK i \in Slots : /\ T[i].yiaddr # 0 /\ T[i].expires >= now
                           /\ k = Seen(T[i])
    BY <1>6, HeldMember
  <2>2. i # o BY <1>5, <1>6, <2>1 DEF Seen
  <2>3. Tn[i] = T[i] /\ T[i].yiaddr # r.yiaddr BY <1>2, <1>3, <2>2
  <2>4. k \in Held(Tn, now) BY <2>1, <2>3, HeldMember
  <2> QED BY <2>1, <2>3, <2>4 DEF Seen
<1>7. Seen(r) \in Held(Tn, now) BY <1>2, <1>3, HeldMember
<1>8. ASSUME NEW k, k \in Held(Tn, now), k # Seen(r)
      PROVE  k \in Held(T, now) /\ k.who # c
  <2>1. PICK i \in Slots : /\ Tn[i].yiaddr # 0 /\ Tn[i].expires >= now
                           /\ k = Seen(Tn[i])
    BY <1>8, HeldMember
  <2>2. i # o BY <1>3, <1>8, <2>1
  <2>3. Tn[i] = T[i] /\ T[i].chaddr # c BY <1>3, <1>4, <2>2
  <2>4. k \in Held(T, now) BY <2>1, <2>3, HeldMember
  <2> QED BY <2>1, <2>3, <2>4 DEF Seen
<1> QED BY <1>6, <1>7, <1>8 DEF NotOf

(* Time ends the reservations whose time is over and no others. *)
LEMMA HeldTick ==
    ASSUME NEW T \in Tables, NEW now \in Nat
    PROVE  Held(T, now + 1) = {h \in Held(T, now) : h.until >= now + 1}
<1>1. ASSUME NEW h \in Held(T, now + 1) PROVE h \in Held(T, now) /\ h.until >= now + 1
  <2>1. PICK i \in Slots : /\ T[i].yiaddr # 0 /\ T[i].expires >= now + 1
                           /\ h = Seen(T[i])
    BY <1>1, HeldMember
  <2>2. T[i].expires >= now BY <2>1 DEF Tables, Lease
  <2>3. h \in Held(T, now) BY <2>1, <2>2, HeldMember
  <2> QED BY <2>1, <2>3 DEF Seen
<1>2. ASSUME NEW h \in Held(T, now), h.until >= now + 1 PROVE h \in Held(T, now + 1)
  <2>1. PICK i \in Slots : /\ T[i].yiaddr # 0 /\ T[i].expires >= now
                           /\ h = Seen(T[i])
    BY <1>2, HeldMember
  <2>2. T[i].expires >= now + 1 BY <1>2, <2>1 DEF Seen
  <2> QED BY <2>1, <2>2, HeldMember
<1> QED BY <1>1, <1>2

(* Serving a client of the pool, seen from outside. *)
LEMMA ServesOutside ==
    ASSUME NEW T \in Tables, Injective(T), NEW Tn, NEW cfg, NEW clients \in SUBSET Chaddr,
           NEW g \in [Chaddr -> [addr : Nat, until : Nat]], NEW gn, NEW now \in Nat,
           NEW c \in clients, Serves(T, Tn, c, cfg, g, gn, now)
    PROVE  Outside(Held(T, now), Held(Tn, now), GrantsOf(clients, g), GrantsOf(clients, gn),
                   c, now)
<1>1. ASSUME NEW v, gn = [g EXCEPT ![c] = v]
      PROVE  GrantsOf(clients, gn) = [GrantsOf(clients, g) EXCEPT ![c] = v]
  BY <1>1 DEF GrantsOf
<1>2. CASE Tn = T /\ gn = g BY <1>2 DEF Outside
<1>3. CASE Tn = T /\ NoRecord(T, c) /\ gn = [g EXCEPT ![c] = NoGrant]
  <2>1. Held(Tn, now) = NotOf(T, c, now) BY <1>3, HeldNone
  <2>2. GrantsOf(clients, gn) = [GrantsOf(clients, g) EXCEPT ![c] = NoGrant] BY <1>1, <1>3
  <2> QED BY <2>1, <2>2 DEF Outside, NotOf
<1>4. ASSUME NEW o, NEW r, Writes(T, Tn, o, r, c, cfg, now),
             \/ gn = [g EXCEPT ![c] = NoGrant]
             \/ r.chaddr = c /\ gn = [g EXCEPT ![c] = [addr |-> r.yiaddr, until |-> r.expires]]
      PROVE  Outside(Held(T, now), Held(Tn, now), GrantsOf(clients, g),
                     GrantsOf(clients, gn), c, now)
  <2> DEFINE n == Seen(r)
  <2>1. n.addr = r.yiaddr /\ n.who = r.chaddr /\ n.until = r.expires BY DEF Seen
  <2>2. n \in [addr : Nat, who : Chaddr \cup {NoChaddr}, until : Nat]
        /\ n.addr # 0 /\ n.until >= now /\ n.who \in {c, NoChaddr}
    BY <1>4 DEF Writes, Lease, Seen
  <2>3. /\ Held(Tn, now) = NotOf(T, c, now) \cup {n}
        /\ \A k \in NotOf(T, c, now) : k.addr # n.addr
    <3>1. c \in Chaddr OBVIOUS
    <3> QED BY <1>4, <2>1, <3>1, HeldWrites
  <2>4. \/ GrantsOf(clients, gn) = [GrantsOf(clients, g) EXCEPT ![c] = NoGrant]
        \/ /\ n.who = c
           /\ GrantsOf(clients, gn) =
                [GrantsOf(clients, g) EXCEPT ![c] = [addr |-> n.addr, until |-> n.until]]
    BY <1>1, <1>4, <2>1
  <2> HIDE DEF n
  <2> QED BY <2>2, <2>3, <2>4 DEF Outside, NotOf
<1> QED BY <1>2, <1>3, <1>4 DEF Serves

-----------------------------------------------------------------------------
(* The abstract reservations, in the terms of the lemmas above. *)
LEMMA ReservationsHeld ==
    ASSUME NEW T
    PROVE  Reservations(T) = Held(T, uptime)
BY DEF Reservations, Held, Seen

\* What the clients of either pool were told.
ToldFirst == Told(Config1) = GrantsOf(Clients1, granted)
ToldSecond == Told(Config2) = GrantsOf(Clients2, granted)

(* As the ranges do not overlap, a grant of the second pool does not show in the
   default pool ... *)
LEMMA ToldByFirst ==
    ASSUME Disjoint, PoolInv
    PROVE  ToldFirst
<1>1. ASSUME NEW c \in Chaddr
      PROVE  (IF granted[c].addr \in Config1.start .. Config1.end THEN granted[c] ELSE NoGrant)
                = (IF c \in Clients1 THEN granted[c] ELSE NoGrant)
  <2>1. CASE c \in Clients1
    <3>1. GrantOK(granted[c], Config1) BY <2>1 DEF PoolInv, PromisesKept, GrantsOK
    <3> QED BY <2>1, <3>1 DEF GrantOK
  <2>2. CASE c \in Clients2
    <3>1. GrantOK(granted[c], Config2) BY <2>2 DEF PoolInv, PromisesKept, GrantsOK
    <3>2. EnblSrv2 BY <2>2 DEF Clients2, UsePool2
    <3>3. granted[c] = NoGrant \/ granted[c].addr \notin Config1.start .. Config1.end
      BY <3>1, <3>2 DEF GrantOK, Disjoint, RangesDisjoint
    <3> QED BY <2>2, <3>3 DEF Clients1
  <2> QED BY <2>1, <2>2 DEF Clients1
<1> QED BY <1>1 DEF Told, GrantsOf, ToldFirst

(* ... nor the other way round. *)
LEMMA ToldBySecond ==
    ASSUME RangesDisjoint, PoolInv
    PROVE  ToldSecond
<1>1. ASSUME NEW c \in Chaddr
      PROVE  (IF granted[c].addr \in Config2.start .. Config2.end THEN granted[c] ELSE NoGrant)
                = (IF c \in Clients2 THEN granted[c] ELSE NoGrant)
  <2>1. CASE c \in Clients2
    <3>1. GrantOK(granted[c], Config2) BY <2>1 DEF PoolInv, PromisesKept, GrantsOK
    <3> QED BY <2>1, <3>1 DEF GrantOK
  <2>2. CASE c \in Clients1
    <3>1. GrantOK(granted[c], Config1) BY <2>2 DEF PoolInv, PromisesKept, GrantsOK
    <3>2. granted[c] = NoGrant \/ granted[c].addr \notin Config2.start .. Config2.end
      BY <3>1 DEF GrantOK, RangesDisjoint
    <3> QED BY <2>2, <3>2 DEF Clients1
  <2> QED BY <2>1, <2>2 DEF Clients1
<1> QED BY <1>1 DEF Told, GrantsOf, ToldSecond

(* Serving a client of the other pool leaves the grants of this one alone. *)
LEMMA OtherGrants ==
    ASSUME NEW clients \in SUBSET Chaddr, NEW c \in Chaddr, c \notin clients,
           NEW g \in [Chaddr -> [addr : Nat, until : Nat]], NEW gn,
           NEW T, NEW Tn, NEW cfg, NEW now, Serves(T, Tn, c, cfg, g, gn, now)
    PROVE  GrantsOf(clients, gn) = GrantsOf(clients, g)
<1>1. \A d \in clients : gn[d] = g[d] BY DEF Serves
<1> QED BY <1>1 DEF GrantsOf

(* A step of the default pool is one of AddressPool, or invisible. *)
LEMMA DefaultPoolStep ==
    ASSUME Consistent, TableInv, ToldFirst, ToldFirst', [Next]_vars
    PROVE  [DefaultPool!Next]_(DefaultPool!poolVars)
<1> DEFINE h == Reservations(Pool1)
           t == Told(Config1)
<1>1. /\ h = Held(Pool1, uptime) /\ h' = Held(Pool1', uptime')
      /\ t = GrantsOf(Clients1, granted) /\ t' = GrantsOf(Clients1, granted')
  BY ReservationsHeld DEF ToldFirst, Reservations, Held, Seen, GrantsOf
<1> HIDE DEF h, t
<1>2. CASE uptime' = uptime /\ h' = h /\ t' = t
  BY <1>2 DEF DefaultPool!poolVars, h, t
<1>3. CASE Tick /\ PoolsRest
  <2>1. uptime' = uptime + 1 /\ Pool1' = Pool1 /\ granted' = granted
    BY <1>3 DEF Tick, PoolsRest
  <2>2. h' = {k \in h : k.until >= uptime + 1}
    BY <1>1, <2>1, HeldTick, PoolTables
  <2>3. t' = t BY <1>1, <2>1
  <2> QED BY <2>1, <2>2, <2>3 DEF DefaultPool!Next, DefaultPool!Tick, h, t
<1>4. CASE Pool1Serves
  <2> DEFINE c == packet.chaddr
  <2>1. c \in Chaddr /\ uptime' = uptime BY <1>4, PoolTables DEF Pool1Serves
  <2>2. Outside(h, h', t, t', c, uptime)
    BY <1>1, <1>4, <2>1, ServesOutside, PoolTables DEF Pool1Serves
  <2> HIDE DEF c
  <2> QED
    BY <2>1, <2>2
    DEF Outside, NoGrant, h, t, DefaultPool!Next, DefaultPool!poolVars, DefaultPool!Reserve,
        DefaultPool!Promise, DefaultPool!Quarantine, DefaultPool!GiveUp,
        DefaultPool!Replace, DefaultPool!Others, DefaultPool!Nothing,
        DefaultPool!Reservation
<1>5. CASE Pool2Serves
  <2>1. packet.chaddr \in Chaddr /\ packet.chaddr \notin Clients1 /\ uptime' = uptime
        /\ Pool1' = Pool1
    BY <1>5, PoolTables DEF Pool2Serves
  <2>2. t' = t BY <1>1, <1>5, <2>1, OtherGrants, PoolTables DEF Pool2Serves
  <2> QED BY <1>1, <1>2, <2>1, <2>2
<1>6. CASE PoolsRest /\ uptime' = uptime
  BY <1>1, <1>2, <1>6 DEF PoolsRest
<1> QED BY <1>3, <1>4, <1>5, <1>6, StepOfPools

(* So is a step of the second pool. *)
LEMMA SecondPoolStep ==
    ASSUME Consistent, TableInv, ToldSecond, ToldSecond', [Next]_vars
    PROVE  [SecondPool!Next]_(SecondPool!poolVars)
<1> DEFINE h == Reservations(Pool2)
           t == Told(Config2)
<1>1. /\ h = Held(Pool2, uptime) /\ h' = Held(Pool2', uptime')
      /\ t = GrantsOf(Clients2, granted) /\ t' = GrantsOf(Clients2, granted')
  BY ReservationsHeld DEF ToldSecond, Reservations, Held, Seen, GrantsOf
<1> HIDE DEF h, t
<1>2. CASE uptime' = uptime /\ h' = h /\ t' = t
  BY <1>2 DEF SecondPool!poolVars, h, t
<1>3. CASE Tick /\ PoolsRest
  <2>1. uptime' = uptime + 1 /\ Pool2' = Pool2 /\ granted' = granted
    BY <1>3 DEF Tick, PoolsRest
  <2>2. h' = {k \in h : k.until >= uptime + 1}
    BY <1>1, <2>1, HeldTick, PoolTables
  <2>3. t' = t BY <1>1, <2>1
  <2> QED BY <2>1, <2>2, <2>3 DEF SecondPool!Next, SecondPool!Tick, h, t
<1>4. CASE Pool2Serves
  <2> DEFINE c == packet.chaddr
  <2>1. c \in Chaddr /\ uptime' = uptime BY <1>4, PoolTables DEF Pool2Serves
  <2>2. Outside(h, h', t, t', c, uptime)
    BY <1>1, <1>4, <2>1, ServesOutside, PoolTables DEF Pool2Serves
  <2> HIDE DEF c
  <2> QED
    BY <2>1, <2>2
    DEF Outside, NoGrant, h, t, SecondPool!Next, SecondPool!poolVars, SecondPool!Reserve,
        SecondPool!Promise, SecondPool!Quarantine, SecondPool!GiveUp,
        SecondPool!Replace, SecondPool!Others, SecondPool!Nothing,
        SecondPool!Reservation
<1>5. CASE Pool1Serves
  <2>1. packet.chaddr \in Chaddr /\ packet.chaddr \notin Clients2 /\ uptime' = uptime
        /\ Pool2' = Pool2
    BY <1>5, PoolTables DEF Pool1Serves
  <2>2. t' = t BY <1>1, <1>5, <2>1, OtherGrants, PoolTables DEF Pool1Serves
  <2> QED BY <1>1, <1>2, <2>1, <2>2
<1>6. CASE PoolsRest /\ uptime' = uptime
  BY <1>1, <1>2, <1>6 DEF PoolsRest
<1> QED BY <1>3, <1>4, <1>5, <1>6, StepOfPools

(* Slots, evictions, the swap of the tables and the look-ups are invisible: seen
   through the replies the default pool is an AddressPool, in which a client's
   packets touch no reservation but its own and what is promised is reserved. *)
THEOREM DefaultPoolRefined ==
    ASSUME Consistent, Disjoint
    PROVE  Spec => DefaultPoolImplements
<1>1. Init => DefaultPool!Init
  BY DEF Init, DefaultPool!Init, DefaultPool!Nothing, Reservations, Told, Pool1, Swapped,
         EmptyTable, Blank, NoGrant
<1>2. PoolInv => ToldFirst
  BY ToldByFirst
<1>3. PoolInv /\ ToldFirst /\ ToldFirst' /\ [Next]_vars
        => [DefaultPool!Next]_(DefaultPool!poolVars)
  BY DefaultPoolStep DEF PoolInv
<1> QED
  BY <1>1, <1>2, <1>3, PoolInvariant, PTL DEF Spec, DefaultPoolImplements, DefaultPool!Spec

(* So is the second pool, when the two have no address in common. *)
THEOREM SecondPoolRefined ==
    ASSUME Consistent, RangesDisjoint
    PROVE  Spec => SecondPoolImplements
<1>1. Init => SecondPool!Init
  BY DEF Init, SecondPool!Init, SecondPool!Nothing, Reservations, Told, Pool2, Swapped,
         EmptyTable, Blank, NoGrant
<1>2. PoolInv => ToldSecond
  BY ToldBySecond
<1>3. PoolInv /\ ToldSecond /\ ToldSecond' /\ [Next]_vars
        => [SecondPool!Next]_(SecondPool!poolVars)
  BY SecondPoolStep DEF PoolInv
<1> QED
  BY <1>1, <1>2, <1>3, PoolInvariant, PTL DEF Spec, SecondPoolImplements, SecondPool!Spec

=============================================================================
