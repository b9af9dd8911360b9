-------------------------------- MODULE Udhcpc --------------------------------
(***************************************************************************)
(* The udhcp client (udhcp/dhcpc.c): the loop that waits for a timeout or  *)
(* a packet and drives INIT_SELECTING -> REQUESTING -> BOUND -> RENEWING   *)
(* -> REBINDING, with the SIGUSR1 (renew) and SIGUSR2 (release) handlers   *)
(* that write the same globals.  A handler that runs a script or a shell   *)
(* command is several steps: what remains of it is in todo, and a signal   *)
(* may arrive in between.  It may also arrive after the loop has opened    *)
(* its socket and computed how long to wait, and before select blocks:     *)
(* such a late signal changes the globals but select does not see it.      *)
(*                                                                         *)
(* Time is kept relative to now: timer is what select waits for, the tv    *)
(* computed from timeout (never below 0), and age is now - start.  Scripts *)
(* and commands take no time.  In-flight packets record only whether they  *)
(* carry the client's present xid.                                         *)
(***************************************************************************)
EXTENDS Integers, FiniteSets

CONSTANTS
    Addrs,           \* the addresses the server may give
    Leases,          \* the lease times the server may give
    T1Timeouts,      \* values of REQ_TIMEOUT_T1 and REQ_TIMEOUT_T2
    T2Timeouts,
    WordSize,        \* 2^32: lease, t1 and t2 are unsigned long
    Signals,         \* the signals the user sends, each with the point it arrives at
    MaxWire,         \* bounds on the packets under way to the server
    MaxInbox,        \* and to the client
    Never,           \* timeout = 0x7fffffff
    AgeCap           \* bound on age

NoAddr == 0
LinkLocal == 1       \* the 169.254 address the client gives itself

ASSUME UdhcpcAssumption ==
    /\ NoAddr \notin Addrs /\ LinkLocal \notin Addrs
    /\ Leases \subseteq Nat
    /\ T1Timeouts \subseteq Nat /\ T2Timeouts \subseteq Nat
    /\ WordSize \in Nat \ {0}
    /\ Signals \subseteq {"SIGUSR1", "SIGUSR2"} \X {"select", "script", "late"}
    /\ MaxWire \in Nat /\ MaxInbox \in Nat
    /\ AgeCap \in Nat
    /\ Never \notin Nat

VARIABLES
    state, packet_num, discover_times, timer, listen_mode,
    lease, t1, t2, age,
    requested_ip,
    todo,            \* "none" before select, "wait" in it; else the rest of a handler
    late,            \* the socket select has and the timeout set, after a late signal
    ifaddr,          \* the address of the interface
    left_behind,     \* history: ifaddr was left by a release that did not deconfigure
    wire,            \* packets on their way to the server
    inbox            \* packets on their way to the client

timers == <<lease, t1, t2, age>>
iface == <<ifaddr, left_behind>>
net == <<wire, inbox>>
vars == <<state, packet_num, discover_times, timer, listen_mode, timers,
          requested_ip, todo, late, iface, net>>

States == {"INIT_SELECTING", "REQUESTING", "BOUND", "RENEWING", "REBINDING",
           "RENEW_REQUESTED", "RELEASED"}

\* No late signal: the socket and the waiting time are those of the globals.
OnTime == [fd |-> "listen_mode", timeout |-> 0]

Init ==
    /\ state = "INIT_SELECTING"
    /\ packet_num = 0 /\ discover_times = 0
    /\ timer = 0
    /\ listen_mode = "RAW"
    /\ lease = 0 /\ t1 = 0 /\ t2 = 0 /\ age = 0
    /\ requested_ip = NoAddr
    /\ todo = "none" /\ late = OnTime
    /\ ifaddr = NoAddr /\ left_behind = FALSE
    /\ wire = {} /\ inbox = {}

-----------------------------------------------------------------------------
InLoop == todo \in {"none", "wait"}

\* The client is in its loop and the time it computed has passed.
TimedOut == InLoop /\ timer = 0

\* The kind of socket that is open, and the time the globals ask to wait.
Fd == IF late = OnTime THEN listen_mode ELSE late.fd
Stored == IF late = OnTime THEN timer ELSE late.timeout

\* The loop goes on with h: the rest of a handler, or "none" for the next round, which
\* opens the socket of listen_mode and computes the waiting time afresh.
Then(h) == todo' = h /\ late' = OnTime

\* select blocks.
Block ==
    /\ todo = "none" /\ timer # 0
    /\ todo' = "wait"
    /\ UNCHANGED <<state, packet_num, discover_times, timer, listen_mode, timers,
                   requested_ip, late, iface, net>>

\* A script or a command gives the interface an address.
Configure(a) == ifaddr' = a /\ left_behind' = FALSE

\* Mutant: the time since the lease began is forgotten.
Until_FromNow(t) == t

\* The timer for timeout = t + start.
Until(t) == IF t > age THEN t - age ELSE 0

\* The spacing below which the client stops halving the renewal interval.
Grain == lease \div 14400 + 1

\* Unsigned subtraction.
Minus(a, b) == (a - b) % WordSize

\* The packets under way once p is sent; the others are lost if there are too many.
Sent(msgs, p, max) == IF Cardinality(msgs) < max THEN msgs \cup {p} ELSE {p}

\* The server may offer any address, so the one a discover asks for is left out.
Discover == [type |-> "DISCOVER", ip |-> NoAddr, cur |-> TRUE]
Request == [type |-> "REQUEST", ip |-> requested_ip, cur |-> TRUE]

\* A new xid makes whatever is under way out of date.
Outdate(msgs) == {[m EXCEPT !.cur = FALSE] : m \in msgs}

SendDiscover ==
    LET fresh == packet_num = 0
    IN  /\ TimedOut /\ state = "INIT_SELECTING"
        /\ packet_num < 2
        /\ wire' = Sent(IF fresh THEN Outdate(wire) ELSE wire, Discover, MaxWire)
        /\ inbox' = IF fresh THEN Outdate(inbox) ELSE inbox
        /\ timer' \in IF packet_num = 1 THEN T2Timeouts ELSE T1Timeouts
        /\ packet_num' = packet_num + 1
        /\ Then("none")
        /\ UNCHANGED <<state, discover_times, listen_mode, timers, requested_ip, iface>>

\* Two discovers went unanswered; the third time in a row the interface gets a
\* link-local address.
DiscoverAgain ==
    /\ TimedOut /\ state = "INIT_SELECTING"
    /\ packet_num >= 2
    /\ discover_times' = (discover_times + 1) % 3
    /\ IF discover_times' = 0 THEN Configure(LinkLocal) ELSE UNCHANGED iface
    /\ Then("again")
    /\ UNCHANGED <<state, packet_num, timer, listen_mode, timers, requested_ip, net>>

\* Mutant: packet_num is not reset.
DiscoverAgainRest_NoReset ==
    /\ todo = "again"
    /\ timer' = 0
    /\ Then("none")
    /\ UNCHANGED <<state, packet_num, discover_times, listen_mode, timers, requested_ip,
                   iface, net>>

\* Once the commands have run the client starts over.
DiscoverAgainRest ==
    /\ todo = "again"
    /\ packet_num' = 0
    /\ timer' = 0
    /\ Then("none")
    /\ UNCHANGED <<state, discover_times, listen_mode, timers, requested_ip, iface, net>>

\* Mutant: one request too many.
MayRequest_Four == packet_num <= 3

\* The client has not sent its three requests yet.
MayRequest == packet_num < 3

SendRequest ==
    /\ TimedOut /\ state \in {"RENEW_REQUESTED", "REQUESTING"}
    /\ MayRequest
    /\ wire' = Sent(wire, Request, MaxWire)
    /\ timer' = IF packet_num = 2 THEN 4 ELSE 2
    /\ packet_num' = packet_num + 1
    /\ Then("none")
    /\ UNCHANGED <<state, discover_times, listen_mode, timers, requested_ip, iface, inbox>>

\* Three requests went unanswered.
GiveUp ==
    /\ TimedOut /\ state \in {"RENEW_REQUESTED", "REQUESTING"}
    /\ ~MayRequest
    /\ Configure(LinkLocal)
    /\ Then("giveup")
    /\ UNCHANGED <<state, packet_num, discover_times, timer, listen_mode, timers,
                   requested_ip, net>>

\* T1 has passed: ask the server again, or start rebinding.
Renew ==
    /\ TimedOut /\ state \in {"BOUND", "RENEWING"}
    /\ listen_mode' = IF state = "BOUND" THEN "KERNEL" ELSE listen_mode
    /\ \/ /\ Minus(t2, t1) <= Grain
          /\ state' = "REBINDING"
          /\ timer' = Minus(t2, t1)
          /\ UNCHANGED <<t1, wire>>
       \/ /\ Minus(t2, t1) > Grain
          /\ state' = "RENEWING"
          /\ wire' = Sent(wire, Request, MaxWire)
          /\ t1' = Minus(t2, t1) \div 2 + t1
          /\ timer' = Until(t1')
    /\ Then("none")
    /\ UNCHANGED <<packet_num, discover_times, lease, t2, age, requested_ip, iface, inbox>>

\* T2 has passed: ask any server.
Rebind ==
    /\ TimedOut /\ state = "REBINDING"
    /\ Minus(lease, t2) > Grain
    /\ wire' = Sent(wire, Request, MaxWire)
    /\ t2' = Minus(lease, t2) \div 2 + t2
    /\ timer' = Until(t2')
    /\ Then("none")
    /\ UNCHANGED <<state, packet_num, discover_times, listen_mode, lease, t1, age,
                   requested_ip, iface, inbox>>

\* The lease is all but over: the commands that set the link-local address.
LeaseLost ==
    /\ TimedOut /\ state = "REBINDING"
    /\ Minus(lease, t2) <= Grain
    /\ Configure(LinkLocal)
    /\ Then("lost")
    /\ UNCHANGED <<state, packet_num, discover_times, timer, listen_mode, timers,
                   requested_ip, net>>

\* Then the new state and the deconfig script.
LeaseLostDeconfig ==
    /\ todo = "lost"
    /\ state' = "INIT_SELECTING"
    /\ Configure(NoAddr)
    /\ Then("lost_rest")
    /\ UNCHANGED <<packet_num, discover_times, timer, listen_mode, timers,
                   requested_ip, net>>

LeaseLostRest ==
    /\ todo = "lost_rest"
    /\ timer' = 0 /\ packet_num' = 0 /\ listen_mode' = "RAW"
    /\ Then("none")
    /\ UNCHANGED <<state, discover_times, timers, requested_ip, iface, net>>

\* Mutant: the client starts over.
ReleasedTimeout_Init ==
    /\ TimedOut /\ state = "RELEASED"
    /\ state' = "INIT_SELECTING"
    /\ timer' = 0
    /\ Then("none")
    /\ UNCHANGED <<packet_num, discover_times, listen_mode, timers, requested_ip, iface,
                   net>>

\* A signal that arrived within a handler may have left a timeout that is over.
ReleasedTimeout ==
    /\ TimedOut /\ state = "RELEASED"
    /\ timer' = Never
    /\ Then("none")
    /\ UNCHANGED <<state, packet_num, discover_times, listen_mode, timers,
                   requested_ip, iface, net>>

-----------------------------------------------------------------------------
\* Mutant: any xid will do.
XidMatches_Any(m) == TRUE

\* The test of the xid.
XidMatches(m) == m.cur

\* select reports m; without a socket it reports nothing.
Receive(m) ==
    /\ todo = "wait" /\ timer # 0
    /\ Fd # "NONE"
    /\ m \in inbox
    /\ inbox' = inbox \ {m}

\* m is read the way listen_mode says: a late signal may have changed it, and then the
\* socket that is open is of another kind and m is not understood.
Understood(m) == Fd = listen_mode /\ XidMatches(m)

ReceiveOffer(m) ==
    /\ Receive(m) /\ Understood(m)
    /\ state = "INIT_SELECTING" /\ m.type = "OFFER"
    /\ requested_ip' = m.ip
    /\ state' = "REQUESTING"
    /\ timer' = 0
    /\ packet_num' = 0
    /\ Then("none")
    /\ UNCHANGED <<discover_times, listen_mode, timers, iface, wire>>

Requesting == state \in {"RENEW_REQUESTED", "REQUESTING", "RENEWING", "REBINDING"}

\* Mutant: 7/16 instead of 7/8 of the lease.
T2Of_Half(l) == ((l * 7) % WordSize) \div 16

\* "little fixed point for n * .875"
T2Of(l) == ((l * 7) % WordSize) \div 8

\* The times of a new lease; the script comes next.
ReceiveAck(m) ==
    /\ Receive(m) /\ Understood(m)
    /\ Requesting /\ m.type = "ACK"
    /\ lease' = m.lease
    /\ t1' = m.lease \div 2
    /\ t2' = T2Of(m.lease)
    /\ age' = 0
    /\ timer' = t1'
    /\ requested_ip' = m.ip
    /\ Then("ack_script")
    /\ UNCHANGED <<state, packet_num, discover_times, listen_mode, iface, wire>>

\* The bound or renew script configures the interface.
AckScript ==
    /\ todo = "ack_script"
    /\ Configure(requested_ip)
    /\ Then("ack_bound")
    /\ UNCHANGED <<state, packet_num, discover_times, timer, listen_mode, timers,
                   requested_ip, net>>

AckBound ==
    /\ todo = "ack_bound"
    /\ state' = "BOUND"
    /\ listen_mode' = "KERNEL"
    /\ Then("none")
    /\ UNCHANGED <<packet_num, discover_times, timer, timers, requested_ip, iface, net>>

\* Mutant: a refused renewal keeps its address.
ReceiveNak_NoDeconfig(m) ==
    /\ Receive(m) /\ Understood(m)
    /\ Requesting /\ m.type = "NAK"
    /\ timer' = Stored
    /\ Then("nak")
    /\ UNCHANGED <<state, packet_num, discover_times, listen_mode, timers,
                   requested_ip, iface, wire>>

\* The deconfig script, unless nothing was configured.
ReceiveNak(m) ==
    /\ Receive(m) /\ Understood(m)
    /\ Requesting /\ m.type = "NAK"
    /\ IF state = "REQUESTING" THEN UNCHANGED iface ELSE Configure(NoAddr)
    /\ timer' = Stored
    /\ Then("nak")
    /\ UNCHANGED <<state, packet_num, discover_times, listen_mode, timers,
                   requested_ip, wire>>

\* The end of a NAK and of three unanswered requests.
BackToInit ==
    /\ todo \in {"nak", "giveup"}
    /\ state' = "INIT_SELECTING"
    /\ timer' = 0
    /\ requested_ip' = IF todo = "nak" THEN NoAddr ELSE requested_ip
    /\ packet_num' = 0
    /\ listen_mode' = "RAW"
    /\ Then("none")
    /\ UNCHANGED <<discover_times, timers, iface, net>>

\* What renew_requested does to the globals, as SIGUSR1 handler and on FORCERENEW.
renew_requested ==
    /\ state' = CASE state \in {"BOUND", "RENEWING", "REBINDING"} -> "RENEW_REQUESTED"
                  [] state = "RELEASED" -> "INIT_SELECTING"
                  [] OTHER -> state
    /\ listen_mode' = CASE state \in {"BOUND", "RENEWING", "REBINDING"} -> "KERNEL"
                        [] state = "RELEASED" -> "RAW"
                        [] OTHER -> listen_mode
    /\ packet_num' = IF state \in {"BOUND", "RENEWING", "REBINDING", "RELEASED"}
                     THEN 0 ELSE packet_num

ReceiveForceRenew(m) ==
    /\ Receive(m) /\ Understood(m)
    /\ state = "BOUND" /\ m.type = "FORCERENEW"
    /\ renew_requested /\ timer' = 0
    /\ Then("none")
    /\ UNCHANGED <<discover_times, timers, requested_ip, iface, wire>>

\* The next round computes the waiting time from what a late signal has set.
ReceiveIgnored(m) ==
    /\ Receive(m)
    /\ \/ ~Understood(m)
       \/ state = "INIT_SELECTING" /\ m.type # "OFFER"
       \/ Requesting /\ m.type \notin {"ACK", "NAK"}
       \/ state = "BOUND" /\ m.type # "FORCERENEW"
       \/ state = "RELEASED"
    /\ timer' = Stored
    /\ Then("none")
    /\ UNCHANGED <<state, packet_num, discover_times, listen_mode, timers,
                   requested_ip, iface, wire>>

-----------------------------------------------------------------------------
\* In select, which it ends (EINTR), at the top of the loop (the same, unless select would
\* not block); or in the middle of a handler, which goes on after it.
Interrupted(sig) ==
    /\ \/ <<sig, "select">> \in Signals /\ (todo = "wait" \/ TimedOut)
       \/ <<sig, "script">> \in Signals /\ ~InLoop
    /\ Then(IF todo = "wait" THEN "none" ELSE todo)

SigUsr1 ==
    /\ Interrupted("SIGUSR1")
    /\ renew_requested /\ timer' = 0
    /\ UNCHANGED <<discover_times, timers, requested_ip, iface, net>>

\* What release_requested does besides setting the timeout; the packet of
\* send_release needs no answer.
release_requested ==
    /\ IF state \in {"BOUND", "RENEWING", "REBINDING"}
       THEN Configure(NoAddr)
       ELSE /\ left_behind' = (left_behind \/ state = "RENEW_REQUESTED")
            /\ UNCHANGED ifaddr
    /\ listen_mode' = "NONE"
    /\ state' = "RELEASED"

SigUsr2 ==
    /\ Interrupted("SIGUSR2")
    /\ release_requested /\ timer' = Never
    /\ UNCHANGED <<packet_num, discover_times, timers, requested_ip, net>>

\* A signal after tv was computed and before select blocks: select waits for the old
\* time on the old socket all the same, or only for the time if there is no socket.
MissedBySelect(sig, timeout) ==
    /\ <<sig, "late">> \in Signals
    /\ todo = "none" /\ timer # 0
    /\ late' = [fd |-> Fd, timeout |-> timeout]
    /\ UNCHANGED <<timer, todo>>

SigUsr1Late ==
    /\ MissedBySelect("SIGUSR1", 0)
    /\ renew_requested
    /\ UNCHANGED <<discover_times, timers, requested_ip, iface, net>>

SigUsr2Late ==
    /\ MissedBySelect("SIGUSR2", Never)
    /\ release_requested
    /\ UNCHANGED <<packet_num, discover_times, timers, requested_ip, net>>

-----------------------------------------------------------------------------
\* A second passes.  The client is prompt: it acts in the second its timeout
\* falls due.  Without a lease in use nothing depends on age.
Tick ==
    /\ todo = "wait" /\ timer # 0
    /\ timer' = IF timer = Never THEN Never ELSE timer - 1
    /\ age' = IF ifaddr \notin Addrs \/ left_behind THEN 0
              ELSE IF age < AgeCap THEN age + 1 ELSE age
    /\ UNCHANGED <<state, packet_num, discover_times, listen_mode, lease, t1, t2,
                   requested_ip, todo, late, iface, net>>

\* The server answers a request: a discover with an offer of any address, a
\* request with an acknowledgement of the address asked for, or a refusal.
Answers(m) ==
    IF m.type = "DISCOVER"
    THEN {[type |-> "OFFER", ip |-> a, lease |-> 0, cur |-> m.cur] : a \in Addrs}
    ELSE {[type |-> "ACK", ip |-> m.ip, lease |-> l, cur |-> m.cur] : l \in Leases}
         \cup {[type |-> "NAK", ip |-> NoAddr, lease |-> 0, cur |-> m.cur]}

Answer(m, a) ==
    /\ m \in wire /\ a \in Answers(m)
    /\ wire' = wire \ {m}
    /\ inbox' = Sent(inbox, a, MaxInbox)
    /\ UNCHANGED <<state, packet_num, discover_times, timer, listen_mode, timers,
                   requested_ip, todo, late, iface>>

\* A forced renewal, with the xid of the lease.
ForceRenew ==
    /\ inbox' = Sent(inbox, [type |-> "FORCERENEW", ip |-> NoAddr, lease |-> 0,
                              cur |-> TRUE], MaxInbox)
    /\ UNCHANGED <<state, packet_num, discover_times, timer, listen_mode, timers,
                   requested_ip, todo, late, iface, wire>>

\* A packet is lost.
Lose(m) ==
    /\ m \in wire \cup inbox
    /\ wire' = wire \ {m}
    /\ inbox' = inbox \ {m}
    /\ UNCHANGED <<state, packet_num, discover_times, timer, listen_mode, timers,
                   requested_ip, todo, late, iface>>

Timeout ==
    \/ SendDiscover \/ DiscoverAgain \/ SendRequest \/ GiveUp \/ Renew \/ Rebind
    \/ LeaseLost \/ ReleasedTimeout

Resume ==
    \/ DiscoverAgainRest \/ AckScript \/ AckBound \/ BackToInit
    \/ LeaseLostDeconfig \/ LeaseLostRest

ReceiveSome ==
    \E m \in inbox : \/ ReceiveOffer(m) \/ ReceiveAck(m) \/ ReceiveNak(m)
                     \/ ReceiveForceRenew(m) \/ ReceiveIgnored(m)

\* A packet that arrives between the top of the loop and select is found by select all the
\* same, so it is taken to arrive when select has blocked.
Network ==
    /\ todo # "none"
    /\ \/ \E m \in wire : \E a \in Answers(m) : Answer(m, a)
       \/ ForceRenew
       \/ \E m \in wire \cup inbox : Lose(m)

Signal == SigUsr1 \/ SigUsr1Late \/ SigUsr2 \/ SigUsr2Late

Next == Block \/ Timeout \/ Resume \/ ReceiveSome \/ Signal \/ Tick \/ Network

Spec == Init /\ [][Next]_vars

\* The client process runs and time passes, however many packets and signals there are.
\* The network and the server are fair to the present exchange: an offer or an
\* acknowledgement that can again and again reach the client while it listens is given
\* and taken in the end.
Timely(type) == /\ todo = "wait" /\ timer # 0
                /\ \E m \in wire : \E a \in Answers(m) :
                      m.cur /\ a.type = type /\ Answer(m, a)
Fairness ==
    /\ WF_vars(Block) /\ SF_vars(Tick) /\ WF_vars(Timeout) /\ WF_vars(Resume)
    /\ SF_vars(Timely("OFFER")) /\ SF_vars(Timely("ACK"))
    /\ SF_vars(\E m \in inbox : ReceiveOffer(m))
    /\ SF_vars(\E m \in inbox : ReceiveAck(m))

FairSpec == Spec /\ Fairness

-----------------------------------------------------------------------------
\* Types.
TypeOK ==
    /\ state \in States
    /\ packet_num \in 0 .. 3 /\ discover_times \in 0 .. 2
    /\ timer \in Nat \cup {Never}
    /\ listen_mode \in {"NONE", "KERNEL", "RAW"}
    /\ lease \in Nat /\ t1 \in Nat /\ t2 \in Nat /\ age \in Nat
    /\ requested_ip \in Addrs \cup {NoAddr}
    /\ todo \in {"none", "wait", "again", "giveup", "lost", "lost_rest", "ack_script",
                 "ack_bound", "nak"}
    /\ late \in {OnTime} \cup [fd : {"NONE", "KERNEL", "RAW"}, timeout : {0, Never}]
    /\ ifaddr \in Addrs \cup {NoAddr, LinkLocal} /\ left_behind \in BOOLEAN
    /\ wire \subseteq [type : {"DISCOVER", "REQUEST"}, ip : Addrs \cup {NoAddr},
                       cur : BOOLEAN]
    /\ inbox \subseteq [type : {"OFFER", "ACK", "NAK", "FORCERENEW"},
                        ip : Addrs \cup {NoAddr}, lease : Leases \cup {0}, cur : BOOLEAN]

\* The address of a lease is never in use after the lease is over, whatever is
\* lost or late.  Only a renewal the user or the server asks for can overrun:
\* by the 2 + 2 + 4 seconds of its three requests.  An address that a release during
\* such a renewal leaves behind is no longer watched over by anything.
UseWithinLease ==
    ifaddr \in Addrs /\ ~left_behind
        => age <= lease + (IF state = "RENEW_REQUESTED" THEN 8 ELSE 0)

\* The interface and the state machine agree: as long as the client believes it
\* holds a lease the interface has that lease's address, and once it is released
\* or looking for a server the interface has no leased address, with one exception:
\* release_requested does not know RENEW_REQUESTED, so a SIGUSR2 that catches the client
\* there leaves the address behind, until the interface is configured again.
InterfaceAgrees ==
    InLoop => IF state \in {"BOUND", "RENEWING", "REBINDING", "RENEW_REQUESTED"}
              THEN ifaddr = requested_ip /\ ~left_behind
              ELSE ifaddr \notin Addrs \/ left_behind

\* The renewal times stay in order while they are halved.
TimersOrdered == t1 <= t2 /\ t2 <= lease

\* An acknowledgement is for the address the client asked for: the xid test
\* keeps out those of an earlier exchange.
AckForRequest == [][lease' # lease \/ todo' = "ack_script" => requested_ip' = requested_ip]_vars

\* A SIGUSR1 that came too late for a select that waits without end, after a release.
MissedWakeUp == InLoop /\ late # OnTime /\ timer = Never

\* A client that is not released gets (back) to a lease, whatever the signals interrupted:
\* a SIGUSR2 that a handler of the loop overwrites does not leave it stuck in between, and
\* a late signal of either kind delays it by one waiting time.  The one exception is a
\* SIGUSR1 that falls between the computation of tv and select while the timeout is the
\* 0x7fffffff of a release.
KeepsLease == []<>(state \in {"BOUND", "RELEASED"} \/ MissedWakeUp)

\* Once the loop goes on in RELEASED nothing but SIGUSR1 wakes the client: no timeout left
\* over from an interrupted handler, and no late offer, acknowledgement or forced renewal.
\* (A release that interrupts a handler may be overruled by the rest of that handler.)
ReleasedStays == [][InLoop /\ state = "RELEASED" /\ state' # "RELEASED"
                      => SigUsr1 \/ SigUsr1Late]_vars
=============================================================================
