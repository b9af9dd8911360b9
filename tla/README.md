# A verification of the network services of the EchoLife HG553 firmware

The repository is the open-source release of a home gateway's firmware: a
Linux 2.6 tree for the Broadcom BCM6358, its board drivers and user programs.
Almost all of it is third-party code. This project models the parts that carry
the vendor's own logic, checks them with TLC and proves the most important
properties with TLAPS:

* `src/userapps/opensource/udhcp`, a DHCP client and server that was reworked
  heavily: a second address pool for IP phones, reserved addresses, forced
  renewal, a new retransmission scheme, an uptime clock instead of wall-clock
  time;
* `src/kernel/linux/net/bridge/br_igmp_snooping.c`, IGMP snooping in the bridge;
* `src/userapps/opensource/ppp/pppoe`, the option-negotiation automaton of the
  PPP daemon with LCP on top (the directory the Makefile builds);
* `src/kernel/linux/net/ipv4/netfilter/ipt_atp_conenat.c`, full-cone NAT on the
  kernel's connection tracking.

Paths in the DHCP sections are relative to `src/userapps/opensource/udhcp/`. The
modelled build is `PROFILE=96358GWV`: `COMBINED_BINARY`, `SUPPORT_VDF_DHCP`,
`VDF_FORCERENEW`, `VDF_RESERVED`, `VDF_OPTION`, `SUPPORT_TR69C` and `SYSLOG` are
defined; `SUPPORT_MACMATCHIP`, `SUPPORT_DHCP_FRAG`, `SUPPORT_CHINATELECOM_DHCP`,
`SUPPORT_DHCP_VENDOR` and `SUPPORT_DHCP_SURGE` are not. The kernel is built for
one processor without preemption.

## 1. Inventory

### 1.1 The DHCP server, `udhcpd`

| Part | State | Operations |
|---|---|---|
| Lease table (`leases.c`) | `leases`, `leases2`: arrays of (chaddr, yiaddr, expires) | `clear_lease`, `add_lease`, `lease_expired`, `oldest_expired_lease`, the look-ups, `find_address`, `check_ip` |
| Main loop (`dhcpd.c`) | `server_config`, `server2_config`, backups `tmpSrvCfg`, `tmpls` | receive, switch to pool 2, handle, restore |
| Replies (`serverpacket.c`) | none of its own | `sendOffer`, `sendACK`, `sendNAK`, `send_inform` |
| Lease files (`files.c`) | `udhcpd.leases`, `udhcpd2.leases`, `timeout_end` | `write_leases`, `write_leases2`, `read_leases`, `read_leases2` |
| Phone rules (`files.c`, `serverpacket.c`) | `ipPhoneipaddr`, iptables rules | `addSipAddr`, `findSipAddr`, the SIGHUP and SIGILL handlers |

The server is one process and one thread, but not one flow of control. Signal
handlers run between any two instructions and read the same globals: SIGUSR1
*is* `write_leases`. The two pools share one set of globals: a packet whose
vendor class (option 60) belongs to the second pool makes the loop back up
`server_config` and `leases`, overwrite them with the second pool's, run the
ordinary handler, and copy everything back. The process may be killed at any
point, and reads its files when it starts again.

What makes it correct: an address is never in the hands of two clients; what an
ACK promised is remembered until it is over; a table holds one record per
client and per address; addresses come from the right pool and never collide
with the server, the router or a reservation; another client's packet cannot
take a running lease away; files give back what was put in them.

### 1.2 The DHCP client, `udhcpc`

| Part | State | Operations |
|---|---|---|
| State machine (`dhcpc.c`) | `state`, `timeout`, `packet_num`, `discover_times`, `lease`, `t1`, `t2`, `start`, `requested_ip`, `listen_mode` | timeouts, packets, SIGUSR1, SIGUSR2 |
| Packets (`clientpacket.c`) | `xid` | `send_discover`, `send_selecting`, `send_renew`, `send_release` |
| Scripts (`script.c`) | the interface's address | `run_script` with `bound`, `renew`, `deconfig` |
| Automatic ACL (`dhcpc.c`) | `gGwIp`, `/proc` files | `Automatic_ACL_DHCP` |

The hard part is again the signal handlers, which write the state machine's
variables while the loop is inside a handler that waits for a script, and the
network, which loses, delays and repeats answers. What makes the client correct:
a leased address is never used past its lease; interface and state agree; a late
answer is not mistaken for a present one; a released client has given its address
up and stays released until it is woken; and a client that is not released always finds
its way back to a lease. The last three the code only does with exceptions (section 3).

### 1.3 IGMP snooping

| Part | State | Operations |
|---|---|---|
| Membership list | `igmp_list` of (group, host, port, time), one for all bridges | `add`, `update`, `del`, `clear` |
| Timer | `igmp_timer`, `igmp_start_timer` | `query_timeout`, every ten seconds |
| Forwarding (`br_input.c`, `br_device.c`, `br_forward.c`) | `igmp_snooping_enable` | reports, leaves and data in `br_igmp_snooping_forward`, `br_flood` and its filters, `set_enable` |
| Ports (`br_if.c`) | ports of each bridge | `br_add_if`, `br_del_if`, `br_dev_stop`, `del_br` |

Hard here: `jiffies` wraps five minutes after boot and expiry is a plain
comparison; one list serves all bridges; entries keep pointers to ports that go
away; a leave is filtered by what the list says about other hosts. Correct means:
a member that keeps reporting is served, listed once, and not cut off by somebody
else's leave; a silent one is dropped.

### 1.4 The PPP link

| Part | State | Operations |
|---|---|---|
| Automaton (`fsm.c`) | `state`, `id`, `reqid`, `seen_ack`, `retransmits`, `nakloops` | up, down, open, close, timeout, seven packet types |
| LCP (`lcp.c`) | wanted, got and his options; pending echoes | `reqci`, `ackci`, `nakci`, `rejci`, `up`, `down`, the echo timer |
| Callouts (`main.c`) | the callout list | `timeout`, `untimeout`, `calltimeout` |

Two automata exchange requests over a link that loses packets; requests, answers
and retransmissions cross, callouts are neither unique nor all cancelled, and one
side may disappear. Correct means: what a side uses the other has acknowledged;
nobody waits without a timer; negotiation ends; nobody stays up alone.

### 1.5 Cone NAT

| Part | State | Operations |
|---|---|---|
| Target and helper (`ipt_atp_conenat.c`) | none of its own | `conenat_target`, `atp_nat_help2`, `atp_nat_expect`, interface events |
| Expectations (`nf_conntrack_expect.c`) | `nf_conntrack_expect_list` | insert, find, time out, remove with the master |
| Conversations (`nf_conntrack_core.c`) | the hash of confirmed tuples | confirm, reply, time out |

The binding of a LAN endpoint to a WAN port is nothing but an expectation, whose
life is tied to one of the endpoint's conversations and to a clock of its own.
Conversations are opened from both sides and share the tuple spaces. Correct
means: a packet belongs to one conversation; an expectation has a live master; a
port is expected for one endpoint, and used by it alone.

### 1.6 The rest

The option codec, raw sockets and ARP probe of udhcp are data handling and are
abstracted. See `PROJECT.json`, "components", for what else there is (VLANs, port
triggering, access restriction, the other PPP protocols, the board driver) and
the status of each part.

## 2. Modules

| Module | Models | Extends |
|---|---|---|
| `LeaseTable` | `leases.c` as pure operators on a table | Naturals |
| `Thinning` | what a loop that takes some entries of a sequence makes of it | Sequences, FiniteSets |
| `Udhcpd` | the server's loop and handlers | `LeaseTable` |
| `AddressPool` | what clients of a pool may rely on (abstract) | Naturals |
| `UdhcpdDisk` | the same server with files, automatic saves, SIGUSR1, restarts, cut files | `Udhcpd`, `Thinning` |
| `Udhcpc` | the client with an arbitrary server and a lossy network | Integers |
| `IgmpSnooping` | the bridge's membership list, its timer and forwarding | Naturals |
| `PppFsm` | `fsm.c`, LCP's callbacks and the callouts as operators on a record | Naturals, Sequences |
| `PppLink` | two automata and the link between them | `PppFsm` |
| `ConeNat` | the cone target, expectations and conversations | SequencesExt, `Thinning` |
| `MCUdhcpd`, `MCUdhcpdDisk`, `MCUdhcpc`, `MCIgmpSnooping`, `MCPppLink`, `MCConeNat` | small instances for TLC | the module they are named after |
| `ThinningProofs` | lemmas about `Thin` and least numbers | `Thinning`, TLAPS |
| `UdhcpdProofs` | lemmas about the table; types and unique holders of the server | `Udhcpd`, `ThinningProofs` |
| `PoolProofs` | the promises of the server with one pool or two; either pool implements `AddressPool` | `UdhcpdProofs` |
| `UdhcpdDiskProofs` | what saves, kills and restarts keep, and what they lose | `UdhcpdDisk`, `PoolProofs` |
| `UdhcpcProofs` | types, timers, lease, interface and exchanges of the client | `Udhcpc`, TLAPS |
| `IgmpSnoopingProofs` | types, unique entries, members served, last leave, silent members dropped | `IgmpSnooping`, TLAPS |
| `PppLinkProofs` | types, pending callouts, upper layers up in OPENED only, options agreed | `PppLink`, TLAPS |
| `ConeNatProofs` | unambiguous translation, expectations, the port search, the cone | `ConeNat`, `ThinningProofs` |

### 2.1 LeaseTable

A table is a function from `0 .. MaxLeases - 1` to records. The first-match
loops become `First`, the least element of the set of slots that pass the test;
`NULL` is `MaxLeases`. `add_lease` keeps the order of the code: the old records
of the client *and* of the address are wiped first, and only then is a slot
looked for, so a failure leaves the table without them. `find_address` takes
the set of addresses that answer ARP as a parameter, because the answer depends
on the network. Addresses are numbers in host byte order, so that the
`.255`/`.0` tests are `% 256`. Expiry is strict (`expires < now`), which makes
a zeroed slot *not* free at uptime 0.

### 2.2 Udhcpd

`pc` is `select`, `handle` or `restore`. `ReceivePool2` is the backup and the
switch, `Restore` the second test of the vendor class after the handler;
the swap takes over only interface, server, start, end, vendor id and options,
the restore copies the *whole* configuration back to `server2_config`. The
handlers are one action each: `DiscoverOffer`, `DiscoverAbandoned`,
`RequestAck`, `RequestAckNotSent` (`send_packet` failed, the table is not
touched), `RequestRefuse`, `Decline`, `Release`, `Inform`. The look-up that
precedes the switch, first in `leases` and then in `leases2`, is `Lease1` and
`Lease2`. `Tick` is the clock; it may run between any two steps.

`granted` is a ghost: what each client was last told in an ACK. A client that
sends DISCOVER, DECLINE or RELEASE has stopped using its address, so its entry
is reset. This is an assumption on clients, not on the server, and it is what
excludes a duplicated DISCOVER of a bound client (see section 6).

`AddressPool` is the server without slots, tables or packets: a set of running
reservations and what each client was last told. A client's messages may replace
or end its own reservation, only time ends somebody else's, and an address is
reserved once. `Udhcpd` implements it twice: `DefaultPool` maps `held` to the
running records of pool 1 (wherever the swap has put its table) and `told` to the
grants in its range, `SecondPool` does the same for pool 2.

### 2.3 UdhcpdDisk

A file is the sequence of records that `fwrite` put out. `Dump` stores the time
remaining, 0 for an expired lease (`server_config.remaining` is set by default),
`Load` filters by the pool's range and counts from the uptime of the restart.
The size of a record matters: 88 bytes are written and 152 read, so `Reads`
says which reads fall on a record boundary; the others see the middle of a
record, which is taken never to be an address of the pool (a host name that spells one
is left out). `SigUsr1`, `Restart` and a kill inside `write_leases` are enabled at every
value of `pc`, which are three points of the loop: before, during and after the handling
of a packet, and not between two of the copies of a swap. `KilledInSave` and
`KilledInSave2` leave a file with any prefix of its records (`fopen` has
truncated it) and start a new daemon from what is there.

### 2.4 Udhcpc

Time is relative: `timer` is `timeout - now`, `age` is `now - start`. A handler
that runs a script or a shell command is cut at the command; `todo` names what
is left of it, so that a signal can fall in between. Packets carry `cur`,
whether their xid is the client's present one; a new xid (first discover of a
round) outdates everything under way. The server is arbitrary: it may answer a
request with an ACK or a NAK, offer any address, force a renewal, or say
nothing, and the network may lose anything and deliver in any order.
`T2Of` keeps the unsigned width (`WordSize`).

The loop is cut once more, at the point where it has opened its socket and computed `tv`:
`todo` is "none" before `select` and "wait" in it, and `Block` is the step between. A
signal falls in `select`, which it ends; inside a handler, which goes on after it; or
*late*, between the computation of `tv` and `select`. A late signal changes the globals,
but `select` waits for the old time on the old socket, and `late` remembers what the
globals ask for (`MissedBySelect`). When a packet ends the wait the next round computes
`tv` afresh from that; the packet itself is read by `listen_mode`, so it is not understood
if the socket is of another kind (`Understood`); a released client has no socket, and only
time ends its wait. `Signals` names the signals the user sends and the points each arrives
at. `left_behind` is a history variable: the interface has an address that a release in
RENEW_REQUESTED did not take away (`dhcpc.c:435`).

### 2.5 IgmpSnooping

One action per operation of `br_igmp_snooping.c` and one per change of a port or a
bridge. A frame, and a run of the timer, is one step, because both are softirqs on
one processor. Ports are identified by the address of their structure, which may be handed
out again. `jiffies` and the times of entries wrap at `WordSize`. `frame` is the frame
handled in the last step and where it went.

* *Forwarding.* `should_deliver` and `should_eth_deliver` are the filters of
  `br_forward.c`: not back where the frame came from, not to a port that is not
  forwarding, not from one `nas` device to another, and, in a flood, not between two ports
  of one switch, which forwards such frames by itself. A data frame comes in on a port
  (`br_handle_frame_finish`) or is sent by the bridge's own device (`br_dev_xmit`), whose
  floods stay off the WAN (`nonas`).
* *Reports and leaves.* A report is a triple of the groups its records leave, join and
  leave again: a version 3 report may hold several records for one group. Its frame is
  flooded whatever it says, and with snooping off so is a leave; with snooping on a version
  2 leave is passed on when no entry of the group is left. A report may find no memory for
  its entry.
* *Ports and bridges.* `ports` are the ports in use; a port that is removed or loses its
  link leaves its entries behind. `del_br` is one step: it needs the bridge's device down
  (`br_if.c:379`), and a bridge whose device is down (`br_dev_stop`) has no port in use, so
  nothing can happen between the clearing of the list and the removal of its ports.
* *The ghost* `heard` counts the ticks since the last report of a member that snooping took
  note of; a report sent while snooping was off, or for which there was no memory, is not
  one. `Cut` marks the members, of whatever bridge, that `del_br` struck off the list and
  that have not been heard since.

### 2.6 PppFsm and PppLink

Every C function of `fsm.c` is an operator from the automaton's record to the record
it leaves behind, named after it; the packets it sends collect in `out`, and
`PppLink` puts them on the wire in the same step. All options are one option, which
a side wants, accepts, hints at in a Nak or gives up. Callouts are counted:
`timeout` adds one whether or not one is pending, `untimeout` takes one away. The
answers of `traffic()` are arbitrary while the peer is up. The two sides get
different roles in `MCPppLink`: the gateway has the RESTART flag and follows hints, the
peer insists on a value the gateway does not accept, so that Naks and Rejects occur.

### 2.7 ConeNat

A conversation is its two tuples, the WAN side and the LAN side, the direction it was
opened in, and whether a reply was seen; an expectation is a port, an endpoint and
its master conversation. One packet passes all hooks in one step: `SendNew` is
`conenat_target`, `help2` and the confirmation together, and a packet whose tuples
are taken is dropped with the expectation it made. `Faces` is what the null binding
of an inbound conversation may choose as source. Time-outs of conversations and of
expectations are independent actions: nothing in the code orders them.

## 3. Runs

All runs check deadlock except `ppp` and `ppp_opened`: two links that are closed or have
stopped, with no callout pending, really are at rest, and the run bounds the calls
that could wake them.

| Run | Configuration | Result |
|---|---|---|
| `one_pool` | 3 symmetric clients, 2 slots, 2 usable addresses of 6 | pass, 303,764 states |
| `two_pools` | 2 phones and a computer, 2 slots per pool | pass, 933,200 states |
| `disk` | a phone and a computer, saves every tick | pass, 687,451 states |
| `client_renew` | 2 symmetric addresses, leases of 1 and 9 seconds, SIGUSR1 anywhere, SIGUSR2 in `select` | pass, 3,393,480 states |
| `client_live` | 1 address, both signals anywhere, fairness | pass, 303,949 states |
| `igmp` | 2 members, 4 ports, 2 bridges, a clock of 6 ticks | pass, 967,936 states |
| `ppp` | 4 ids, 3 packets each way, 1 fault, 1 call, fairness | pass, 92,448 states |
| `conenat` | 2 endpoints, 2 remotes, 4 ports | pass, 52,689 states |
| `mixed_vendor` | phones that omit option 60 at times | `NoDoubleGrant` violated |
| `restart_recovers` | as `disk` | `RestartRecoversAll` violated |
| `ppp_opened` | as `ppp` | `OpenedMeansUp` violated |
| `conenat_bind` | as `conenat` | `ConeBinding` violated |

What the passing runs show:

* `NoDoubleGrant`: of two clients told to use the same address, one's time is
  over. `GrantBacked`: while a promise runs, a record backs it that lasts at
  least as long. The two together are the server's contract.
* `UniqueHolders`: one record per client and per address in each table.
* `PoolDiscipline`: a table only has addresses of its own pool, none reserved
  and none of the server's or router's; with `disk`, after restarts too.
* `RunningLeaseKept`: a packet changes no running record of another client,
  although `add_lease` wipes by address and reuses slots.
* `SlotStable`: `sendACK` re-adds the record in the slot it had, so the pointer
  that `dhcpd.c:1372` writes the host name through is still the client's.
* `RecoveredKeepsTime`: a lease read after a restart was really in the table the
  file was saved from, with at least its old expiry; also when the daemon was killed
  in the middle of the save.
* `DefaultPoolImplements`, `SecondPoolImplements`: the server implements
  `AddressPool` on each of its pools, for clients that keep to one of them.
* `UseWithinLease`, `TimersOrdered`: no leased address is used after its lease,
  except in a renewal forced by the user or the server, which overruns by at
  most 8 seconds (the three requests of `dhcpc.c:1065-1077`).
* `InterfaceAgrees`: interface and state machine agree whenever the loop is not inside a
  handler. A client that believes it holds a lease has that lease's address on the
  interface; one that is released or looks for a server has none, with one exception that
  the property names: the address that a SIGUSR2 in RENEW_REQUESTED leaves behind, until the
  interface is configured again. `client_renew` reaches RELEASED from every state that
  `select` waits in. `UseWithinLease` excepts the same address, which nothing watches over any
  more.
* `AckForRequest`: no ACK of an earlier exchange is taken.
* `ReleasedStays`: when the loop is in RELEASED only SIGUSR1 takes the client out of it,
  whatever timeout an interrupted handler left and whatever packet comes. It does not speak
  of a release inside a handler, whose rest may overrule it.
* `KeepsLease`: under fairness the client is bound again and again, unless it has been
  released, with both signals at all points. The exception, `MissedWakeUp`, is a SIGUSR1 that
  comes too late for the `select` of a released client. All other late signals cost one
  waiting time at most.
* `UniqueEntries`: a member is listed once.
* `MemberServed`: as long as the last report of a member that snooping took note of is no
  older than the query timeout, the member is listed, across the wrap of `jiffies` and
  whatever other members leave, and every frame of its group that comes in on its bridge or
  that the bridge's device sends reaches its port, with snooping on or off, unless a filter
  closes the port to it whoever is in the group: from WAN to WAN in either mode; within a
  switch, or from the bridge's device to the WAN, when the frame is flooded. The last
  conjunct names the only thing that cuts a member off: the removal of a bridge, which has
  then stopped the timer too.
* `LeavePassedOnLast`: with snooping on, a version 2 leave goes upstream only when no such
  member is left. Leave records of version 3 reports, and all leaves while snooping is off,
  are flooded, and the property does not speak of them.
* `SilentDropped`: a silent member is dropped one check period after the timeout at the
  latest; the property names the only two exceptions (the timer was stopped by the
  removal of a bridge, the timeout fell just before the wrap).
* `OptionsAgree`: when both ends are up, each uses what the other acknowledged.
* `IdsFresh`: no id is taken while a request or an acknowledgement with it is under way,
  although ids wrap within the run; by the id an answer is told from a late one.
* `TimerRuns`: a side that waits for an answer has a callout pending.
* `UpOnlyOpened`: the upper layers are up, and echo requests are sent, in OPENED only;
  the other half, `OpenedMeansUp`, is what `ppp_opened` refutes.
* `Settles`: negotiation and termination end on both sides. `HalfOpenEnds`: no side
  stays up alone.
* `Unambiguous`: a packet from either side belongs to at most one conversation.
* `ExpectationsBacked`, `ExpectedOnce`: an expectation has a live master that uses its
  port, a port is expected for one endpoint, a conversation makes one expectation.
* `BoundWhileExpected`: while an expectation stands, the endpoint's new conversations
  leave from an expected port of its own and nobody else's do.

What the violations show is written down in `PROJECT.json`, "findings":

1. A client with a record in pool 2 that sends a REQUEST without option 60 is
   answered with its pool-2 address but recorded in pool 1's table. Its record in
   pool 2 expires and another phone gets the address.
2. Lease files do not survive a restart: the record read is longer than the one
   written.
3. A Terminate-Ack in OPENED takes the upper layers down but leaves the automaton in
   OPENED (`fsm.c:606`).
4. The expectation that binds a LAN endpoint to its WAN port expires after ten minutes
   although the conversation goes on; another endpoint gets the port. In TLC's trace the
   conversation is unanswered: `help2` expects again with each packet, but in vain, as the
   new expectation clashes with the old. An answered conversation comes to the same, since
   `help2` then returns early (`ipt_atp_conenat.c:110`).

Other deviations that the models have, because the code has them, and that no run
is about:

* After a phone's packet the restore has copied `lease_file` too, and the second pool
  is saved over the first pool's file (`dhcpd.c:1424`); SIGUSR1 during a phone's
  packet saves the phone table as the default one (`dhcpd.c:543`).
* The client does not keep all of what `README:130-132` of udhcp says of the signals, that
  SIGUSR2 forces "a release of the current lease" and makes the client inactive until it
  receives a SIGUSR1. In three cases, each named by a property above, it fails (TLC
  finds a trace as soon as the exception is taken out of the property):
  * SIGUSR1 and then SIGUSR2 leave the leased address on the interface of a released client,
    past the end of the lease: `release_requested` does not know RENEW_REQUESTED
    (`dhcpc.c:435`; `left_behind` in `InterfaceAgrees`);
  * a SIGUSR1 between the computation of `tv` and `select` does not wake a released client:
    it waits 0x7fffffff seconds on no socket (`dhcpc.c:955`; `MissedWakeUp` in `KeepsLease`);
  * a SIGUSR2 while a handler waits for its script is overruled by the rest of the handler:
    the client is BOUND or looks for a server (`dhcpc.c:1463`; `InLoop` in `ReleasedStays`).
    During the script of an ACK it leaves the client BOUND with the timeout of a release,
    so that the lease is never renewed.
* The removal of a bridge cuts off the members of all the others until they report again
  (`br_if.c:181`), and the snooping timer is never started again
  (`br_igmp_snooping.c:270`).
* Conversations opened from the WAN have no `masq_index` and survive the loss of the
  interface's address (`ipt_atp_conenat.c:457`).

### 3.1 Bounds

* *Clients, slots, addresses.* Three clients over two slots and two addresses
  give a full table, an eviction, and a client left out; every property relates
  at most two clients. Pool 1 is 254 .. 259 so that the allocator crosses
  `.255` and `.0`, the server's own address (254) and a reserved one (259).
* *Clock.* Offers last 1, leases 2 or 3, reservations 2 ticks, so a bound of 5
  (one pool), 3 (two pools) or 2 (disk) lets a lease be granted, renewed, run out
  and be granted anew. Bounds: `MaxUptime`, `AgeCap`, `MaxWire`, `MaxInbox`.
* *Client.* A lease of 9 seconds walks through BOUND, RENEWING (twice) and REBINDING with
  a grain of 1; a lease of 1 makes t1 = t2 = 0. `AgeCap` = 18 is past lease + 8, where
  `UseWithinLease` would fail. Retransmission times are 1 and 2 instead of 10-20 and 40-130
  seconds: only their order to the other timeouts matters, and nothing else runs on a
  timer in INIT_SELECTING. `client_renew` leaves out a SIGUSR2 inside a handler or late
  (`RenewSignals`): the first may leave a bound client without a timeout (see above), and the
  second is left to the theorems of section 4, which cover it but for `AckForRequest`.
  `client_live` has both signals at all points (`AllSignals`).
* *Snooping.* A clock of 6 ticks with a query timeout of 3 and a check period of 2 is the
  smallest in which an entry outlives a check, times out, and is refreshed on both
  sides of the wrap. Two ports of one switch and two WAN ports make every filter matter,
  with a member on either side: one host that is seen behind two ports, so that it can move.
  The second bridge has no ports: it is there to be removed, which clears the first one's
  members. The theorems are for every set of hosts and places.
* *PPP.* Ids modulo 4 wrap within a run; three packets each way hold a request, an
  answer and a retransmission. A fault is a lost packet or a callout that fires
  while a packet is under way. The invariants were also checked with ids modulo 8,
  3 callouts and 2 faults (998,894 states).
* *Cone.* Two endpoints with the same port, the last but one of the port space, so
  that the search meets a taken port and wraps.
* *Symmetry* permutes the clients of one class, and the addresses the client may be
  given; no definition names one of them, and the runs with symmetry check only invariants and action properties.

### 3.2 Fairness

`FairSpec` of `Udhcpc` is used by `client_live` only. Weak fairness of `Block`, `Timeout` and `Resume`: the process is scheduled, and scripts end. Strong fairness of
`Tick`: time passes however often a packet or a signal ends `select`. Strong fairness of a
timely OFFER and ACK and of their reception: a server that keeps being asked answers some
time, and the network does not lose every answer. The code cannot guarantee this last
part; it is the usual reading of "there is a DHCP server". No fairness is assumed of
signals, NAKs, forced renewals or loss, so these may happen again and again.

`PppLink` assumes weak fairness of reception and strong fairness of the two callouts:
the event loop waits in `select` until a packet is there or the next callout is due,
so it handles each in the end; a callout falls due by the clock, and packets that come
in from time to time do not put it off for ever. No fairness is assumed of calls or
of loss, whose numbers are bounded (`MaxCalls`, `MaxFaults`).

## 4. Proofs

`UdhcpdProofs` begins with lemmas, for every table size and every set of clients, on what
the operators of `leases.c` return and preserve: the look-ups return a slot that
passes their test or NULL, `add_lease` keeps holders unique, evicts no running
record of another client and address, and always finds a slot for a client that
is in the table once the clock has left 0; `find_address` stays in the pool.

It then proves for every value of the constants (assumptions
`LeaseTableAssumption`, `UdhcpdAssumption`: types of the parameters, and that
the zero hardware address is not a client's):

* `TypeCorrect`: `Spec => []TypeOK`. One step per action. The interesting part
  is that no handler indexes a table with NULL: `LeaseKnown` guards every use,
  and the found slot is in range.
* `HoldersUnique`: `Spec => []UniqueHolders`. The invariant is inductive
  together with `TypeOK`; it has to include the backup `tmpls`, because the
  restore makes it the live table. `add_lease` is handled by `AddLeaseInjective`,
  the in-place writes of DECLINE and RELEASE by `UpdateInjective`.

`PoolProofs` proves the server's contract, with one pool or two, for every number of
clients, slots, addresses and packets, under the hypothesis `Consistent`: a client sends
its vendor class in all of its packets or in none (or there is no second pool). The
instances of `one_pool` and `two_pools` satisfy it; it is needed, since run
`mixed_vendor` refutes `NoDoubleGrant` without it.

* `GrantsBacked`: `Spec => []GrantBacked`, `PoolsDisciplined`:
  `Spec => []PoolDiscipline`, `RunningLeasesKept`: `Spec => RunningLeaseKept`,
  `SlotsStable`: `Spec => SlotStable`; and `NoDoubleGrants`:
  `Spec => []NoDoubleGrant`, if the pools share no address (`Disjoint`).
* The inductive invariant (`PoolInvariant`) is `PoolInv`. Its first half, `TableInv`
  (theorem `TableInvariant`), is about the tables alone: `TypeOK` and `UniqueHolders`;
  `Loop`, which says what the globals hold at each point of the main loop, so that
  `Pool1` and `Pool2` name the same table before, during and after a swap; and `TableOK`
  of each pool: its records are of its own clients and addresses, they fill the table from
  the front (`Compact`, for `SlotStable`), and there are none at uptime 0, when a zeroed
  slot is not yet expired and a renewal could find no slot after wiping its own. The
  second half is `GrantsOK` of each pool: its records back what its clients were granted.
  The first half does not need the second, and holds of a restarted server too.
* The argument: every handler, seen on the table it works on, changes nothing or writes
  one slot, the client's own or a free one, with an address nobody else has
  (`HandlerServes`, from `OfferedAddressFree` and `AddLeaseWrites`). Such a step keeps
  a pool in order (`ServesOK`), and the other pool is not touched (`StepOfPools`). Two backed
  grants of one address would be two holders, which `UniqueHolders` excludes.

`PoolProofs` also proves `DefaultPoolRefined`, `Spec => DefaultPoolImplements`
(`Consistent`, `Disjoint`), and `SecondPoolRefined`, `Spec => SecondPoolImplements`
(`Consistent`, and disjoint ranges): the initial states map to initial states, and what a
handler does to its table is, in terms of the running records, a step of `AddressPool`
or a stutter (`ServesOutside`).

`UdhcpdDiskProofs` is about the server with its files, for every table size, every save
interval and every point at which the daemon is killed:

* `DiskTypes` (`DiskTypeOK`), `DiskHoldersUnique` (`UniqueHolders`), `LeasesRecovered`
  (`RecoveredKeepsTime`) and `Leases2Recovered`, the same for the second pool, without
  hypotheses on clients or pools. The inductive invariant `DiskInv` (`DiskInvariant`)
  adds `FilesOK` to the server's: each file holds well-typed records, no client and no
  address twice (`Distinct`), and every record comes from a slot of the table it was
  written from and, counted from now, ends no earlier (`Covered`). It holds of every
  prefix of a file as well, which is what a kill inside `fwrite` leaves.
* `OneLeaseInNineteen`: every lease that a restart brings back was record 1, 20, 39, ... of
  the file. It explains run `restart_recovers`: 152 k is a multiple of 88 only if k is
  one of 11, so that reads meet the beginning of a record only every 19 records.
* `DiskPoolsDisciplined` (`PoolDiscipline`) and `DiskSlotsStable` (`SlotStable`), for
  clients that keep to their pools (`Consistent`) and pools without a common address
  (`RangesDisjoint`). A file may hold records of *either* pool: SIGUSR1 during a phone's
  packet saves the swapped-in table, and the restore copies `lease_file`. So the
  invariant `PoolDiskInv` (`PoolDiskInvariant`) says of each record only that it belongs to
  one of the pools (`FileOwned`), and that `Load` leaves out the other pool's by their
  range (`LoadOwned`). Records that are read fill the table from the front, as
  `SlotStable` needs.
* `GrantBacked`, `NoDoubleGrant` and `RunningLeaseKept` are not claimed across restarts: a
  restart loses leases, and with them what backs a promise.

`UdhcpcProofs` proves about the client, for every set of addresses and lease times, all
retransmission times and any number of packets under way:

* `ClientTypes` and `ReleaseHolds` (`ReleasedStays`), without further hypotheses.
* `TimersStayOrdered`: `Spec => []TimersOrdered` for lease times `l` with `7 * l` within
  the word (`LeasesFit`): `dhcpc.c` computes seven eighths as `(lease * 0x7) >> 3`,
  which overflows for longer ones. Inductive with `lease \in Leases \cup {0}`.
* `LeaseRespected` (`UseWithinLease`) and `InterfaceKept` (`InterfaceAgrees`), under
  `LeasesFit` and `NoReleaseInScript`: SIGUSR1 at any point, late for `select` too, and SIGUSR2
  anywhere but inside a handler, whose rest would overwrite the state and not the timeout.
  RELEASED is among the states. The invariant is `LeaseHeld`: what each handler has done so
  far (`Handlers`), the agreement itself, how the time a late signal set relates to the one
  that is waited for (`Waits`), and `Deadlines`, which bounds the age of the lease plus the
  time left in each state by T1, T2 or, in a renewal that was asked for, by the lease and
  the seconds of the requests sent. `UseWithinLease` alone says nothing about the timers and
  is not inductive.
* `AcksMatchRequest`: `Spec => AckForRequest`, if there is no late SIGUSR1, or if SIGUSR2 comes
  in `select` only (`SignalsSeen`; the latter holds of `client_renew`). A late SIGUSR1 can
  otherwise meet a client that has been released by a late SIGUSR2, waits on its old socket
  and takes the packets of its old xid for current ones. The invariant `Exchange` says that
  packets with the current xid ask for or grant the address that the client requests.

`IgmpSnoopingProofs` proves, for every set of groups, hosts, ports, switches and bridges, every
set of reports and every clock width that holds twice the query timeout
(`IgmpSnoopingAssumption`): `TypeCorrect`, `EntriesUnique`, `MembersServed`,
`LeavesPassedOnLast` and `SilentMembersDropped`.

* The inductive invariant is `TypeOK`, `UniqueEntries` and `Fresh`: the entry of a
  member heard `h` ticks ago, with `h` within the timeout, carries the time
  `jiffies + QueryTimeout - h` modulo the clock width. `MemberServed` alone is not
  inductive, since it does not say what the timer will read in the entry.
* The argument: a tick moves clock and age together (`TickAge`); such a time is never
  "past" for the comparison of the timer, on either side of the wrap
  (`SparedByTimer`, where the assumption on the clock width is used); a report or a
  leave touches no entry but its member's (`SameMember`). `Delivered` says where the
  frame in hand went in terms of the list and the filters, as they were when it was handled.
* `CutOff` carries the last conjunct of `MemberServed`: a member that was struck off by the
  removal of a bridge was listed, so the timer had been started; it has been stopped since,
  and `igmp_start_timer` keeps it from being started again.
* `SilentDropped` rests on `Aging`: unless the timer was stopped or the entry's time lies
  just before the wrap, the age of a listed member plus the time to the next check is
  within the two timeouts, and the entry's time tells the age exactly.

`PppLinkProofs` proves `LinkTypes`, `TimersRun` (`TimerRuns`), `UpInOpened`
(`UpOnlyOpened`) and `OptionsAgreed` (`OptionsAgree`) for every set of options, all counters, flags, id widths, channel
lengths and numbers of faults and calls. The invariant `Sound` of one automaton joins
its type, the pending callout and the upper layers; there is one lemma per operator of
`fsm.c` that takes a sound automaton to a sound one, and `SoundStep` puts them together.
The cap on the callouts that the model counts (`MaxCallouts`) may be any positive number.

`OptionsAgreed` is `Spec /\ IdsFresh => []OptionsAgree`, with at least two ids: as long as
no id is taken while a request or an acknowledgement with it is under way, two sides that
are up use what the other acknowledged, whatever is lost, late or crosses.

* The hypothesis `IdsFresh` cannot be had for all constants: with enough requests under way
  a byte wraps around. Run `ppp` checks it, so the theorem is not about nothing. Whether
  agreement could fail without it is open: `ackci` also compares the options, and TLC found
  no such case with one or two ids, two faults and two calls.
* The invariant `Agreed` relates, for each side, its request, both queues and what the peer
  acknowledged last (`Terms`): a request under way with the side's id asks for what the
  side asks for now; behind one with that id come only such; and once the side has counted
  the acknowledgement, or it is under way, the peer's `his` is the side's `got` and no
  older request is left in the queue. The last part is where the link's keeping of order is
  used: an older request behind the acknowledged one would change `his` afterwards.
  `OptionsAgree` alone says nothing of the queues and is not inductive.
* Every operator of `fsm.c` has a second lemma: what it does to the request of its side and
  what it sends. `RequesterStep` and `AnswererStep` take these to the queues, `AgreedStep`
  to the steps of the link. TLC checked `Agreed` first, with 4 ids on the instance of `ppp`
  and with 2 ids, 2 faults and 2 calls (3.5 million states).

`ConeNatProofs` proves, for every number of endpoints, remotes and ports:

* `TranslationUnambiguous`, `Spec => []Unambiguous`. The target may choose a port in use, so
  the argument rests on the confirmation (`ConfirmInv`); a reply changes neither tuple
  (`ReplyInv`), for which the invariant `Shaped` says which fields a conversation has.
* `ConeTypes` (`TypeOK`), `MastersLive` (`ExpectationsBacked`), `ExpectationsUnique`
  (`ExpectedOnce`) and `ConeHolds` (`BoundWhileExpected`). None of the four is inductive
  alone: `help2` makes no second expectation because an old one of the same conversation
  is backed, by the same conversation as translation is unambiguous, and so has the same
  port (`Help2Cone`); the type of a new port needs a search that ends. `SelfFaced` adds
  that an outgoing conversation sees the remote as it is.
* The search ends (`SearchEnds`) by counting (`SomePortFree`): if every port were expected,
  the ports would map one to one into the pairs of another endpoint and a remote, of which
  `ConeNatAssumption` says there are fewer. The counter passes every port on its way
  through the wrap (`NthPorts`).
* `remove_expectations` keeps entries with `Thin`, which sends each to its rank, and
  `conenat_target` and `find_expectation` pick the least index of a set: definitions the
  provers can open, where a `SelectSeq` would stay closed. `ThinThins` says all that is
  needed of `Thin`, here and for the lease files: it takes each entry it keeps once.

Conventions. No step of a proof equates two `CASE` expressions (the prover compares their
first arms only); where a proof restates one it uses `IF`. Hypotheses on the constants
that the code does not guarantee are operators of the proof module, named in the
theorems, and not assumptions of the model.

Only model-checked:

* liveness (`KeepsLease`, `Settles`, `HalfOpenEnds`), which is beyond this prover;
* `IdsFresh`, which depends on the bounds on losses and on the queues.

Every other property of a passing run is stated by a theorem.

## 5. Hazards

`PROJECT.json`, "hazards", lists where this code is hard to test, each with the
properties that watch it. Without a property are a duplicated DISCOVER, the repeated ARP
probes of a foreign address, IP groups that share a multicast MAC address, and what the
removal of one bridge does to the members of the others, which the properties except.

## 6. Not modelled

* Option contents of replies, logging, host names: no decision depends on them.
* A duplicated or delayed DISCOVER of a client that is already bound. It
  shortens the record to `offer_time` while the client goes on using its lease.
* A signal handler interrupted by another signal (the script of a release included), and
  SIGTERM; a save by SIGUSR1 between two copies of a swap (`dhcpd.c:713-717`); `FD_SET(-1)` of
  the client without a socket, which is taken to be an empty set.
* Host names that spell an address of the pool in a misaligned read (`files.c:566`), and
  `check_ip` reading the server's own address anew (`leases.c:284`), which is taken not to
  change while the daemon runs.
* `SUPPORT_MACMATCHIP` (MAC/IP bindings) and the other options not in the build.
* Pools of different sizes: the code copies `max_lease_in_both` slots while the
  look-ups stop at `server_config.max_leases`; both default to 254.
* Snooping: what a read through the pointer to a freed port returns (the model reads
  "disabled", or the port that took its place); the walk of the list after `kfree` of
  the entry it stands on; IP groups that map to one MAC address; the length of the forward
  delay of a port that comes up; the IGMP frames of the bridge's own device, which are
  flooded and leave no trace.
* PPP: the starting and finished callbacks and what they do to the process, delayed
  lower-up, the magic-number loop test, unknown codes and protocols, whose rejection takes
  an id (`fsm.c:357`, `lcp.c:639`), IPCP and the authentication protocols.
* Cone NAT: port ranges in the rule, several WAN addresses, other helpers, protocols
  other than UDP; no memory for an expectation, whose outcome is that of its
  timeout; a search of the ports when all are expected, which does not end
  (`ConeNatAssumption` excludes it).
* Port triggering, access restriction, VLANs, the board driver, and the third-party
  trees.

## 7. Plan

1. *Done*: the DHCP server, its files and its client; the abstract pool and the
   refinement; IGMP snooping; the PPP link; cone NAT; the theorems of section 4.
2. *Done*: the theorems on `UdhcpdDisk` and `OptionsAgree` under `IdsFresh`. Left: a bound on
   losses and queues from which `IdsFresh` follows, or agreement without it.
3. The phone-rule list and the automatic ACL of udhcp, port triggering, and IPCP as a
   second layer on `PppFsm`.
