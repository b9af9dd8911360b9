----------------------------- MODULE UdhcpcProofs -----------------------------
(***************************************************************************)
(* Proofs about the udhcp client (Udhcpc), for every address, lease time,  *)
(* timeout and number of packets under way.  Types and ReleasedStays need  *)
(* nothing more.  The other theorems name what they rest on:               *)
(*   LeasesFit          the lease times whose product with 7 fits the word *)
(*   NoReleaseInScript  no SIGUSR2 while a handler of the loop runs its    *)
(*                      scripts: what is left of the handler overwrites    *)
(*                      the release, and may leave BOUND without a timeout *)
(*   SignalsSeen        a SIGUSR1 that select misses finds a released      *)
(*                      client without a socket                            *)
(***************************************************************************)
EXTENDS Udhcpc, TLAPS

\* Seven eighths of a lease are computed without overflow (dhcpc.c: lease * 0x7).
LeasesFit == \A l \in Leases : 7 * l < WordSize

NoReleaseInScript == <<"SIGUSR2", "script">> \notin Signals

SignalsSeen == \/ <<"SIGUSR1", "late">> \notin Signals
               \/ Signals \cap {<<"SIGUSR2", "script">>, <<"SIGUSR2", "late">>} = {}

USE DEF Then, Configure, InLoop, iface

-----------------------------------------------------------------------------
(***************************************************************************)
(* The packets.                                                            *)
(***************************************************************************)
ToServer == [type : {"DISCOVER", "REQUEST"}, ip : Addrs \cup {NoAddr}, cur : BOOLEAN]
ToClient == [type : {"OFFER", "ACK", "NAK", "FORCERENEW"}, ip : Addrs \cup {NoAddr},
             lease : Leases \cup {0}, cur : BOOLEAN]

\* Sending p adds at most p to what is under way (the bound on the network loses packets).
LEMMA SentWithin ==
  ASSUME NEW msgs, NEW p, NEW max
  PROVE  Sent(msgs, p, max) \subseteq msgs \cup {p}
BY DEF Sent

\* A new xid changes nothing else of a packet under way to the server,
LEMMA OutdateToServer ==
  ASSUME NEW msgs \in SUBSET ToServer
  PROVE  Outdate(msgs) \in SUBSET ToServer
BY DEF Outdate, ToServer

\* or to the client.
LEMMA OutdateToClient ==
  ASSUME NEW msgs \in SUBSET ToClient
  PROVE  Outdate(msgs) \in SUBSET ToClient
BY DEF Outdate, ToClient

\* Whatever is outdated no longer has the client's xid.
LEMMA OutdateNotCurrent ==
  ASSUME NEW msgs, msgs \in SUBSET ToServer \/ msgs \in SUBSET ToClient
  PROVE  \A m \in Outdate(msgs) : ~m.cur
BY DEF Outdate, ToClient, ToServer

\* The answers of the server are packets to the client.
LEMMA AnswersTyped ==
  ASSUME NEW m \in ToServer, NEW a \in Answers(m)
  PROVE  a \in ToClient
BY DEF Answers, ToServer, ToClient, NoAddr

-----------------------------------------------------------------------------
(***************************************************************************)
(* Types.                                                                  *)
(***************************************************************************)
\* The socket and the waiting time, also after a late signal.
LEMMA LateTyped ==
  ASSUME TypeOK
  PROVE  /\ Fd \in {"NONE", "KERNEL", "RAW"}
         /\ Stored \in Nat \cup {Never}
<1>1. late = OnTime \/ late \in [fd : {"NONE", "KERNEL", "RAW"}, timeout : {0, Never}]
  BY DEF TypeOK
<1>2. CASE late = OnTime
  BY <1>2 DEF TypeOK, Fd, Stored
<1>3. CASE late # OnTime
  BY <1>1, <1>3 DEF Fd, Stored
<1> QED
  BY <1>2, <1>3

\* Unsigned subtraction gives an unsigned number.
LEMMA MinusNat ==
  ASSUME NEW a \in Nat, NEW b \in Nat
  PROVE  Minus(a, b) \in Nat
BY UdhcpcAssumption DEF Minus

\* The timeouts of the loop keep the types.
LEMMA TimeoutTyped == TypeOK /\ Timeout => TypeOK'
<1> SUFFICES ASSUME TypeOK, Timeout PROVE TypeOK'
  OBVIOUS
<1>w. wire \in SUBSET ToServer /\ inbox \in SUBSET ToClient
  BY DEF TypeOK, ToServer, ToClient
<1>r. Request \in ToServer /\ Discover \in ToServer
  BY DEF TypeOK, ToServer, Request, Discover
<1>s. \A p \in ToServer : Sent(wire, p, MaxWire) \in SUBSET ToServer
  BY <1>w, SentWithin
<1>n. Minus(t2, t1) \in Nat /\ Minus(lease, t2) \in Nat
  BY MinusNat DEF TypeOK
<1>1. CASE SendDiscover
  <2>1. wire' \in SUBSET ToServer
    BY <1>1, <1>w, <1>r, <1>s, SentWithin, OutdateToServer DEF SendDiscover
  <2>2. inbox' \in SUBSET ToClient
    BY <1>1, <1>w, OutdateToClient DEF SendDiscover
  <2>3. timer' \in Nat
    BY <1>1, UdhcpcAssumption DEF SendDiscover
  <2>4. packet_num' \in 0 .. 3
    BY <1>1 DEF SendDiscover, TypeOK
  <2> QED
    BY <1>1, <2>1, <2>2, <2>3, <2>4 DEF SendDiscover, TypeOK, ToServer, ToClient, timers
<1>2. CASE DiscoverAgain
  <2>1. discover_times' \in 0 .. 2 /\ packet_num' \in 0 .. 3
    BY <1>2 DEF DiscoverAgain, TypeOK
  <2>2. ifaddr' \in Addrs \cup {NoAddr, LinkLocal}
    BY <1>2 DEF DiscoverAgain, TypeOK
  <2>3. left_behind' \in BOOLEAN
    BY <1>2 DEF DiscoverAgain, TypeOK
  <2> QED
    BY <1>2, <2>1, <2>2, <2>3 DEF DiscoverAgain, TypeOK, timers, net
<1>3. CASE SendRequest
  <2>1. wire' \in SUBSET ToServer
    BY <1>3, <1>r, <1>s DEF SendRequest
  <2> QED
    BY <1>3, <2>1 DEF SendRequest, MayRequest, TypeOK, ToServer, timers
<1>4. CASE GiveUp
  BY <1>4 DEF GiveUp, TypeOK, timers, net
<1>5. CASE Renew
  <2>1. wire' \in SUBSET ToServer
    BY <1>5, <1>w, <1>r, <1>s DEF Renew
  <2>2. t1' \in Nat /\ timer' \in Nat
    BY <1>5, <1>n DEF Renew, Until, TypeOK
  <2>3. listen_mode' \in {"NONE", "KERNEL", "RAW"} /\ state' \in States
    BY <1>5 DEF Renew, TypeOK, States
  <2> QED
    BY <1>5, <2>1, <2>2, <2>3 DEF Renew, TypeOK, ToServer
<1>6. CASE Rebind
  <2>1. wire' \in SUBSET ToServer
    BY <1>6, <1>r, <1>s DEF Rebind
  <2>2. t2' \in Nat /\ timer' \in Nat
    BY <1>6, <1>n DEF Rebind, Until, TypeOK
  <2> QED
    BY <1>6, <2>1, <2>2 DEF Rebind, TypeOK, ToServer
<1>7. CASE LeaseLost
  BY <1>7 DEF LeaseLost, TypeOK, timers, net
<1>8. CASE ReleasedTimeout
  BY <1>8 DEF ReleasedTimeout, TypeOK, timers, net
<1> QED
  BY <1>1, <1>2, <1>3, <1>4, <1>5, <1>6, <1>7, <1>8 DEF Timeout

\* So does the rest of an interrupted handler.
LEMMA ResumeTyped == TypeOK /\ Resume => TypeOK'
<1> SUFFICES ASSUME TypeOK, Resume PROVE TypeOK'
  OBVIOUS
<1>1. CASE DiscoverAgainRest
  BY <1>1 DEF DiscoverAgainRest, TypeOK, timers, net
<1>2. CASE AckScript
  BY <1>2 DEF AckScript, TypeOK, timers, net
<1>3. CASE AckBound
  BY <1>3 DEF AckBound, TypeOK, States, timers, net
<1>4. CASE BackToInit
  BY <1>4 DEF BackToInit, TypeOK, States, timers, net
<1>5. CASE LeaseLostDeconfig
  BY <1>5 DEF LeaseLostDeconfig, TypeOK, States, timers, net
<1>6. CASE LeaseLostRest
  BY <1>6 DEF LeaseLostRest, TypeOK, timers, net
<1> QED
  BY <1>1, <1>2, <1>3, <1>4, <1>5, <1>6 DEF Resume

\* And what the client does with a packet.
LEMMA ReceiveTyped == TypeOK /\ ReceiveSome => TypeOK'
<1> SUFFICES ASSUME TypeOK, NEW m \in inbox,
                    \/ ReceiveOffer(m) \/ ReceiveAck(m) \/ ReceiveNak(m)
                    \/ ReceiveForceRenew(m) \/ ReceiveIgnored(m)
             PROVE  TypeOK'
  BY DEF ReceiveSome
<1>w. /\ inbox \in SUBSET ToClient
      /\ m.ip \in Addrs \cup {NoAddr}
      /\ m.lease \in Leases \cup {0}
  BY DEF TypeOK, ToClient
<1>l. m.lease \in Nat
  <2>1. Leases \cup {0} \subseteq Nat
    BY UdhcpcAssumption
  <2> QED
    BY <1>w, <2>1
<1>i. Receive(m) => inbox' \in SUBSET ToClient
  BY <1>w DEF Receive
<1>1. CASE ReceiveOffer(m)
  <2>1. inbox' \in SUBSET ToClient
    BY <1>1, <1>i DEF ReceiveOffer
  <2> QED
    BY <1>1, <1>w, <2>1 DEF ReceiveOffer, TypeOK, ToClient, States, timers
<1>2. CASE ReceiveAck(m)
  <2>1. inbox' \in SUBSET ToClient
    BY <1>2, <1>i DEF ReceiveAck
  <2>2. /\ lease' \in Nat
        /\ t1' \in Nat
        /\ t2' \in Nat
        /\ timer' \in Nat
    BY <1>2, <1>l, UdhcpcAssumption DEF ReceiveAck, T2Of
  <2>3. age' = 0 /\ requested_ip' \in Addrs \cup {NoAddr} /\ todo' = "ack_script"
    BY <1>2, <1>w DEF ReceiveAck
  <2> QED
    BY <1>2, <2>1, <2>2, <2>3 DEF ReceiveAck, TypeOK, ToClient
<1>3. CASE ReceiveNak(m)
  <2>1. inbox' \in SUBSET ToClient
    BY <1>3, <1>i DEF ReceiveNak
  <2> QED
    BY <1>3, <2>1, LateTyped DEF ReceiveNak, TypeOK, ToClient, timers
<1>4. CASE ReceiveForceRenew(m)
  <2>1. inbox' \in SUBSET ToClient
    BY <1>4, <1>i DEF ReceiveForceRenew
  <2> QED
    BY <1>4, <2>1 DEF ReceiveForceRenew, renew_requested, TypeOK, ToClient, States, timers
<1>5. CASE ReceiveIgnored(m)
  <2>1. inbox' \in SUBSET ToClient
    BY <1>5, <1>i DEF ReceiveIgnored
  <2> QED
    BY <1>5, <2>1, LateTyped DEF ReceiveIgnored, TypeOK, ToClient, timers
<1> QED
  BY <1>1, <1>2, <1>3, <1>4, <1>5

\* And the signals, the clock and the network.
LEMMA OutsideTyped ==
  TypeOK /\ (Block \/ Signal \/ Tick \/ Network) => TypeOK'
<1> SUFFICES ASSUME TypeOK, Block \/ Signal \/ Tick \/ Network
             PROVE  TypeOK'
  OBVIOUS
<1>w. wire \in SUBSET ToServer /\ inbox \in SUBSET ToClient
  BY DEF TypeOK, ToServer, ToClient
<1>0. CASE Block
  BY <1>0 DEF Block, TypeOK, timers, net
<1>1. CASE SigUsr1
  BY <1>1 DEF SigUsr1, Interrupted, renew_requested, TypeOK, States, timers, net
<1>2. CASE SigUsr1Late
  BY <1>2, LateTyped
  DEF SigUsr1Late, MissedBySelect, renew_requested, TypeOK, States, timers, net
<1>3. CASE SigUsr2
  BY <1>3 DEF SigUsr2, Interrupted, release_requested, TypeOK, States, timers, net
<1>6. CASE SigUsr2Late
  BY <1>6, LateTyped
  DEF SigUsr2Late, MissedBySelect, release_requested, TypeOK, States, timers, net
<1>4. CASE Tick
  BY <1>4 DEF Tick, TypeOK, net
<1>5. CASE Network
  <2>1. wire' \in SUBSET ToServer
    BY <1>5, <1>w DEF Network, Answer, ForceRenew, Lose
  <2>2. inbox' \in SUBSET ToClient
    <3>1. CASE \E m \in wire : \E a \in Answers(m) : Answer(m, a)
      BY <3>1, <1>w, AnswersTyped, SentWithin DEF Answer
    <3>2. CASE ForceRenew
      <4>1. [type |-> "FORCERENEW", ip |-> NoAddr, lease |-> 0, cur |-> TRUE] \in ToClient
        BY DEF ToClient
      <4> QED
        BY <3>2, <4>1, <1>w, SentWithin DEF ForceRenew
    <3>3. CASE \E m \in wire \cup inbox : Lose(m)
      BY <3>3, <1>w DEF Lose
    <3> QED
      BY <1>5, <3>1, <3>2, <3>3 DEF Network
  <2> QED
    BY <1>5, <2>1, <2>2
    DEF Network, Answer, ForceRenew, Lose, TypeOK, ToServer, ToClient, timers
<1> QED
  BY <1>0, <1>1, <1>2, <1>3, <1>4, <1>5, <1>6 DEF Signal

\* The types of the client's globals and of the packets it exchanges (dhcpc.c), for every
\* server, user and network.
THEOREM ClientTypes == Spec => []TypeOK
<1>1. ASSUME Init PROVE TypeOK
  <2>1. left_behind \in BOOLEAN
    BY <1>1 DEF Init
  <2> QED
    BY <1>1, <2>1 DEF Init, TypeOK, States
<1>2. TypeOK /\ [Next]_vars => TypeOK'
  <2>1. TypeOK /\ UNCHANGED vars => TypeOK'
    BY DEF TypeOK, vars, timers, net
  <2> QED
    BY <2>1, TimeoutTyped, ResumeTyped, ReceiveTyped, OutsideTyped DEF Next
<1> QED
  BY <1>1, <1>2, PTL DEF Spec

-----------------------------------------------------------------------------
(***************************************************************************)
(* Release.                                                                *)
(***************************************************************************)
\* A released client that is in no handler is woken by SIGUSR1 only: no timeout, packet
\* or leftover of a handler changes its state (dhcpc.c: the RELEASED case of both switches).
THEOREM ReleaseHolds == Spec => ReleasedStays
<1>1. ASSUME InLoop, state = "RELEASED", state' # "RELEASED", Next
      PROVE  SigUsr1 \/ SigUsr1Late
  <2>1. ~Timeout
    BY <1>1
    DEF Timeout, SendDiscover, DiscoverAgain, SendRequest, GiveUp, Renew, Rebind,
        LeaseLost, ReleasedTimeout
  <2>2. ~Resume
    BY <1>1
    DEF Resume, DiscoverAgainRest, AckScript, AckBound, BackToInit, LeaseLostDeconfig,
        LeaseLostRest
  <2>3. ~ReceiveSome
    BY <1>1
    DEF ReceiveSome, ReceiveOffer, ReceiveAck, ReceiveNak, ReceiveForceRenew,
        ReceiveIgnored, Requesting
  <2>4. ~Block /\ ~SigUsr2 /\ ~SigUsr2Late /\ ~Tick /\ ~Network
    BY <1>1
    DEF Block, SigUsr2, SigUsr2Late, release_requested, Tick, Network, Answer,
        ForceRenew, Lose
  <2> QED
    BY <1>1, <2>1, <2>2, <2>3, <2>4 DEF Next, Signal
<1>2. [Next]_vars => [InLoop /\ state = "RELEASED" /\ state' # "RELEASED"
                        => SigUsr1 \/ SigUsr1Late]_vars
  BY <1>1
<1> QED
  BY <1>2, PTL DEF Spec, ReleasedStays

-----------------------------------------------------------------------------
(***************************************************************************)
(* The renewal times.                                                      *)
(***************************************************************************)
\* The lease came from the server, and its times are in order.
Times ==
    /\ lease \in Leases \cup {0}
    /\ TimersOrdered

\* Half of a lease is at most seven eighths of it, which are at most the lease.
LEMMA EighthsOrdered ==
  ASSUME LeasesFit, NEW l \in Leases \cup {0}
  PROVE  l \div 2 <= T2Of(l) /\ T2Of(l) <= l
<1>1. l \in Nat /\ 7 * l < WordSize /\ WordSize \in Nat
  BY UdhcpcAssumption DEF LeasesFit
<1>2. (l * 7) % WordSize = 7 * l
  BY <1>1
<1> QED
  BY <1>1, <1>2 DEF T2Of

\* Between times in order, unsigned subtraction is subtraction.
LEMMA MinusExact ==
  ASSUME LeasesFit, TypeOK, Times
  PROVE  Minus(t2, t1) = t2 - t1 /\ Minus(lease, t2) = lease - t2
<1>1. lease \in Nat /\ lease < WordSize /\ WordSize \in Nat
  BY UdhcpcAssumption DEF LeasesFit, Times, TypeOK
<1>2. t2 - t1 \in 0 .. (WordSize - 1) /\ lease - t2 \in 0 .. (WordSize - 1)
  BY <1>1 DEF Times, TimersOrdered, TypeOK
<1> QED
  BY <1>1, <1>2 DEF Minus

\* Only an acknowledgement, a renewal and a rebinding write the times.
LEMMA TimesStep ==
  ASSUME LeasesFit, TypeOK, Times, [Next]_vars
  PROVE  Times'
<1>1. CASE Renew
  BY <1>1, MinusExact DEF Renew, Times, TimersOrdered, TypeOK
<1>2. CASE Rebind
  BY <1>2, MinusExact DEF Rebind, Times, TimersOrdered, TypeOK
<1>3. ASSUME NEW m \in inbox, ReceiveAck(m) PROVE Times'
  <2>1. m.lease \in Leases \cup {0}
    BY DEF TypeOK
  <2>2. m.lease \div 2 <= T2Of(m.lease) /\ T2Of(m.lease) <= m.lease
    BY <2>1, EighthsOrdered
  <2> QED
    BY <1>3, <2>1, <2>2 DEF ReceiveAck, Times, TimersOrdered
<1>4. CASE UNCHANGED <<lease, t1, t2>>
  BY <1>4 DEF Times, TimersOrdered
<1>5. [Next]_vars => \/ Renew \/ Rebind \/ (\E m \in inbox : ReceiveAck(m))
                     \/ UNCHANGED <<lease, t1, t2>>
  BY DEF Next, vars, timers, Timeout, SendDiscover, DiscoverAgain, SendRequest, GiveUp,
         LeaseLost, ReleasedTimeout, Resume, DiscoverAgainRest, AckScript, AckBound,
         BackToInit, LeaseLostDeconfig, LeaseLostRest, ReceiveSome, ReceiveOffer,
         ReceiveNak, ReceiveForceRenew, ReceiveIgnored, Block, Signal, SigUsr1, SigUsr1Late,
         SigUsr2, SigUsr2Late, Tick, Network, Answer, ForceRenew, Lose
<1> QED
  BY <1>1, <1>2, <1>3, <1>4, <1>5

\* Halving the interval that is left never moves T1 past T2 or T2 past the end of the
\* lease (dhcpc.c: t1 = (t2 - t1) / 2 + t1 and t2 = (lease - t2) / 2 + t2), so the
\* unsigned differences never wrap.
THEOREM TimersStayOrdered ==
  ASSUME LeasesFit
  PROVE  Spec => []TimersOrdered
<1>1. Init => Times
  BY DEF Init, Times, TimersOrdered
<1>2. TypeOK /\ Times /\ [Next]_vars => Times'
  BY TimesStep
<1>3. Times => TimersOrdered
  BY DEF Times
<1> QED
  BY <1>1, <1>2, <1>3, ClientTypes, PTL DEF Spec

-----------------------------------------------------------------------------
(***************************************************************************)
(* The address and the lease.                                              *)
(***************************************************************************)
\* The seconds that the first n requests of a renewal wait for an answer.
Waited(n) == IF n = 0 THEN 0 ELSE IF n = 1 THEN 2 ELSE IF n = 2 THEN 4 ELSE 8

\* No address of a lease is on the interface, but for one that a release has left there.
NoLease == ifaddr \notin Addrs \/ left_behind

\* A handler that gives the address up has taken it off the interface before anything can
\* interrupt it, and one that installs a lease has just started the lease.
Handlers ==
    /\ todo \in {"again", "giveup", "lost", "lost_rest", "nak"} => NoLease
    /\ todo \in {"again", "lost_rest"} => state = "INIT_SELECTING"
    /\ todo = "ack_bound" => ifaddr = requested_ip /\ ~left_behind
    /\ todo \in {"ack_script", "ack_bound"} => age = 0 /\ timer <= t1

\* The timeout of each state ends by the time that state is for.
Deadlines ==
    InLoop =>
        /\ state \in {"BOUND", "RENEWING"} => age + timer <= t1
        /\ state = "REBINDING" => age + timer <= t2
        /\ state = "RENEW_REQUESTED" => age + timer <= lease + Waited(packet_num)

\* Only a released client, or one whose wake-up select has missed, waits without end.
Waits ==
    /\ InLoop /\ timer = Never => state \in {"RELEASED", "INIT_SELECTING"}
    /\ ~InLoop => timer # Never /\ late = OnTime /\ state # "RELEASED"
    /\ late # OnTime /\ late.timeout # 0 => state = "RELEASED"

LeaseHeld ==
    /\ Waits
    /\ Handlers
    /\ InterfaceAgrees
    /\ Deadlines

\* The addresses a server gives are not the ones of an unconfigured interface.
LEMMA Distinct == NoAddr \notin Addrs /\ LinkLocal \notin Addrs
BY UdhcpcAssumption

\* A timeout for t + start ends by then.
LEMMA UntilEnds ==
  ASSUME TypeOK, NEW t \in Nat, age <= t
  PROVE  age + Until(t) <= t
BY DEF TypeOK, Until

\* The timeouts: a renewal or a rebinding sets a timeout that ends by the new T1 or T2,
\* a request adds its own wait.
LEMMA HeldTimeout ==
  ASSUME LeasesFit, TypeOK, Times, LeaseHeld, Timeout
  PROVE  LeaseHeld'
<1> USE DEF LeaseHeld, Waits, Handlers, NoLease, InterfaceAgrees, Deadlines, TimedOut
<1>1. CASE SendDiscover
  <2>1. timer' \in Nat
    BY <1>1, UdhcpcAssumption DEF SendDiscover
  <2> QED
    BY <1>1, <2>1, UdhcpcAssumption DEF SendDiscover, timers
<1>2. CASE DiscoverAgain
  <2>1. NoLease'
    BY <1>2, Distinct DEF DiscoverAgain
  <2>2. timer' # Never
    BY <1>2, UdhcpcAssumption DEF DiscoverAgain
  <2> QED
    BY <1>2, <2>1, <2>2 DEF DiscoverAgain, timers
<1>3. CASE SendRequest
  <2>1. timer' \in Nat
    BY <1>3 DEF SendRequest
  <2>2. state = "RENEW_REQUESTED" => age + timer' <= lease + Waited(packet_num')
    BY <1>3 DEF SendRequest, Waited, MayRequest, TypeOK
  <2> QED
    BY <1>3, <2>1, <2>2, UdhcpcAssumption DEF SendRequest, timers
<1>4. CASE GiveUp
  BY <1>4, Distinct DEF GiveUp, timers
<1>5. CASE Renew
  <2>1. timer' \in Nat /\ Minus(t2, t1) = t2 - t1
    BY <1>5, MinusExact DEF Renew, Until, Times, TimersOrdered, TypeOK
  <2>2. CASE state' = "REBINDING"
    BY <1>5, <2>1, <2>2, UdhcpcAssumption DEF Renew, TypeOK
  <2>3. CASE state' = "RENEWING"
    <3>1. t1' \in Nat /\ age <= t1' /\ timer' = Until(t1')
      BY <1>5, <2>1, <2>3 DEF Renew, Times, TimersOrdered, TypeOK
    <3>2. age + timer' <= t1'
      BY <3>1, UntilEnds
    <3> QED
      BY <1>5, <2>1, <2>3, <3>2, UdhcpcAssumption DEF Renew
  <2> QED
    BY <1>5, <2>2, <2>3 DEF Renew
<1>6. CASE Rebind
  <2>1. timer' \in Nat /\ Minus(lease, t2) = lease - t2
    BY <1>6, MinusExact DEF Rebind, Until, Times, TimersOrdered, TypeOK
  <2>2. t2' \in Nat /\ age <= t2' /\ timer' = Until(t2')
    BY <1>6, <2>1 DEF Rebind, Times, TimersOrdered, TypeOK
  <2>3. age + timer' <= t2'
    BY <2>2, UntilEnds
  <2> QED
    BY <1>6, <2>1, <2>3, UdhcpcAssumption DEF Rebind
<1>7. CASE LeaseLost
  BY <1>7, Distinct DEF LeaseLost, timers
<1>8. CASE ReleasedTimeout
  BY <1>8 DEF ReleasedTimeout
<1> QED
  BY <1>1, <1>2, <1>3, <1>4, <1>5, <1>6, <1>7, <1>8 DEF Timeout

\* The rest of a handler.
LEMMA HeldResume ==
  ASSUME TypeOK, LeaseHeld, Resume
  PROVE  LeaseHeld'
<1> USE DEF LeaseHeld, Waits, Handlers, NoLease, InterfaceAgrees, Deadlines
<1>z. 0 # Never
  BY UdhcpcAssumption
<1>1. CASE DiscoverAgainRest
  BY <1>1, <1>z DEF DiscoverAgainRest, timers
<1>2. CASE AckScript
  BY <1>2 DEF AckScript, timers
<1>3. CASE AckBound
  <2>1. age + timer <= t1
    BY <1>3 DEF AckBound, TypeOK
  <2> QED
    BY <1>3, <2>1 DEF AckBound, timers
<1>4. CASE BackToInit
  BY <1>4, <1>z DEF BackToInit, timers
<1>5. CASE LeaseLostDeconfig
  BY <1>5, Distinct DEF LeaseLostDeconfig, timers
<1>6. CASE LeaseLostRest
  BY <1>6, <1>z DEF LeaseLostRest, timers
<1> QED
  BY <1>1, <1>2, <1>3, <1>4, <1>5, <1>6 DEF Resume

\* A packet: an acknowledgement starts a lease, a refusal takes the address away.
LEMMA HeldReceive ==
  ASSUME LeasesFit, TypeOK, Times, LeaseHeld, ReceiveSome
  PROVE  LeaseHeld'
<1> USE DEF LeaseHeld, Waits, Handlers, NoLease, InterfaceAgrees, Deadlines
<1>z. 0 # Never
  BY UdhcpcAssumption
<1> PICK m \in inbox : \/ ReceiveOffer(m) \/ ReceiveAck(m) \/ ReceiveNak(m)
                        \/ ReceiveForceRenew(m) \/ ReceiveIgnored(m)
  BY DEF ReceiveSome
<1>1. CASE ReceiveOffer(m)
  BY <1>1, <1>z DEF ReceiveOffer, Receive, timers
<1>2. CASE ReceiveAck(m)
  <2>1. m.lease \in Nat
    <3>1. Leases \cup {0} \subseteq Nat
      BY UdhcpcAssumption
    <3> QED
      BY <3>1 DEF TypeOK
  <2>2. timer' \in Nat /\ timer' <= t1' /\ age' = 0
    BY <1>2, <2>1 DEF ReceiveAck
  <2>3. timer' # Never
    BY <2>2, UdhcpcAssumption
  <2>4. state' # "RELEASED"
    BY <1>2 DEF ReceiveAck, Requesting
  <2> QED
    BY <1>2, <2>2, <2>3, <2>4 DEF ReceiveAck
<1>3. CASE ReceiveNak(m)
  <2>1. timer' # Never
    BY <1>3, <1>z DEF ReceiveNak, Receive, Requesting, Stored
  <2> QED
    BY <1>3, <2>1, Distinct DEF ReceiveNak, Receive, Requesting, timers
<1>4. CASE ReceiveForceRenew(m)
  <2>1. age <= lease
    BY <1>4 DEF ReceiveForceRenew, Receive, TypeOK, Times, TimersOrdered
  <2> QED
    BY <1>4, <1>z, <2>1
    DEF ReceiveForceRenew, Receive, renew_requested, timers, Waited, TypeOK
<1>5. CASE ReceiveIgnored(m)
  <2>1. timer' = timer \/ timer' = 0 \/ state = "RELEASED"
    BY <1>5 DEF ReceiveIgnored, Stored
  <2>2. CASE state = "RELEASED"
    BY <1>5, <2>2 DEF ReceiveIgnored, Receive, timers
  <2>3. CASE state # "RELEASED" /\ timer' = timer
    BY <1>5, <2>3 DEF ReceiveIgnored, Receive, timers
  <2>4. CASE state # "RELEASED" /\ timer' = 0
    <3>1. /\ state \in {"BOUND", "RENEWING"} => age <= t1
          /\ state = "REBINDING" => age <= t2
          /\ state = "RENEW_REQUESTED" => age <= lease + Waited(packet_num)
      BY <1>5 DEF ReceiveIgnored, Receive, TypeOK, Waited
    <3> QED
      BY <1>5, <1>z, <2>4, <3>1 DEF ReceiveIgnored, Receive, timers, TypeOK, Waited
  <2> QED
    BY <2>1, <2>2, <2>3, <2>4
<1> QED
  BY <1>1, <1>2, <1>3, <1>4, <1>5

\* A renewal the user asks for: whatever the state was, its deadline is within the lease.
LEMMA HeldRenewal ==
  ASSUME TypeOK, Times, LeaseHeld, SigUsr1 \/ SigUsr1Late
  PROVE  LeaseHeld'
<1> USE DEF LeaseHeld, Waits, Handlers, NoLease, InterfaceAgrees, Deadlines
<1>z. 0 # Never
  BY UdhcpcAssumption
<1>1. CASE SigUsr1
  <2>0. todo' = IF todo = "wait" THEN "none" ELSE todo
    BY <1>1 DEF SigUsr1, Interrupted
  <2>1. CASE state \in {"BOUND", "RENEWING", "REBINDING"}
    <3>1. InLoop => age <= lease
      BY <2>1 DEF TypeOK, Times, TimersOrdered
    <3> QED
      BY <1>1, <1>z, <2>0, <2>1, <3>1
      DEF SigUsr1, Interrupted, renew_requested, timers, Waited, TypeOK
  <2>2. CASE state = "RELEASED"
    BY <1>1, <1>z, <2>0, <2>2 DEF SigUsr1, Interrupted, renew_requested, timers
  <2>3. CASE state \notin {"BOUND", "RENEWING", "REBINDING", "RELEASED"}
    <3>1. state' = state /\ packet_num' = packet_num
      BY <1>1, <2>3 DEF SigUsr1, renew_requested
    <3>2. InLoop /\ state = "RENEW_REQUESTED" => age <= lease + Waited(packet_num)
      BY DEF TypeOK, Waited
    <3> QED
      BY <1>1, <1>z, <2>0, <2>3, <3>1, <3>2 DEF SigUsr1, Interrupted, timers, Waited, TypeOK
  <2> QED
    BY <2>1, <2>2, <2>3
<1>2. CASE SigUsr1Late
  <2>0. /\ todo = "none" /\ todo' = todo /\ timer' = timer
        /\ late'.timeout = 0
        /\ UNCHANGED <<timers, requested_ip, iface>>
    BY <1>2 DEF SigUsr1Late, MissedBySelect
  <2>1. CASE state \in {"BOUND", "RENEWING", "REBINDING"}
    <3>1. age + timer <= lease
      BY <2>0, <2>1 DEF TypeOK, Times, TimersOrdered
    <3>2. state' = "RENEW_REQUESTED" /\ packet_num' = 0
      BY <1>2, <2>1 DEF SigUsr1Late, renew_requested
    <3> QED
      BY <2>0, <2>1, <3>1, <3>2 DEF timers, Waited, TypeOK
  <2>2. CASE state = "RELEASED"
    <3>1. state' = "INIT_SELECTING"
      BY <1>2, <2>2 DEF SigUsr1Late, renew_requested
    <3> QED
      BY <2>0, <2>2, <3>1 DEF timers
  <2>3. CASE state \notin {"BOUND", "RENEWING", "REBINDING", "RELEASED"}
    <3>1. state' = state /\ packet_num' = packet_num
      BY <1>2, <2>3 DEF SigUsr1Late, renew_requested
    <3> QED
      BY <2>0, <2>3, <3>1 DEF timers
  <2> QED
    BY <2>1, <2>2, <2>3
<1> QED
  BY <1>1, <1>2

\* A release outside the handlers: the address goes, or is left behind.
LEMMA HeldRelease ==
  ASSUME NoReleaseInScript, TypeOK, LeaseHeld, SigUsr2 \/ SigUsr2Late
  PROVE  LeaseHeld'
<1> USE DEF LeaseHeld, Waits, Handlers, NoLease, InterfaceAgrees, Deadlines
<1>1. InLoop /\ todo' = "none" /\ state' = "RELEASED"
  BY DEF SigUsr2, SigUsr2Late, Interrupted, MissedBySelect, TimedOut, release_requested,
         NoReleaseInScript
<1>2. NoLease'
  <2>1. release_requested
    BY DEF SigUsr2, SigUsr2Late
  <2>2. CASE state \in {"BOUND", "RENEWING", "REBINDING"}
    BY <2>1, <2>2, Distinct DEF release_requested
  <2>3. CASE state \notin {"BOUND", "RENEWING", "REBINDING"}
    BY <1>1, <2>1, <2>3 DEF release_requested
  <2> QED
    BY <2>2, <2>3
<1> QED
  BY <1>1, <1>2

\* A second passes: the age grows by at most what the timeout shrinks by.
LEMMA HeldTick ==
  ASSUME TypeOK, LeaseHeld, Tick
  PROVE  LeaseHeld'
<1> USE DEF LeaseHeld, Waits, Handlers, NoLease, InterfaceAgrees, Deadlines
<1>1. CASE timer = Never
  BY <1>1 DEF Tick, net
<1>2. CASE timer # Never
  <2>1. timer \in Nat \ {0} /\ timer' = timer - 1 /\ timer' # Never
    BY <1>2, UdhcpcAssumption DEF Tick, TypeOK
  <2>2. age' + timer' <= age + timer
    BY <2>1 DEF Tick, TypeOK
  <2>3. Waited(packet_num) \in Nat
    BY DEF Waited
  <2> QED
    BY <2>1, <2>2, <2>3 DEF Tick, TypeOK, net
<1> QED
  BY <1>1, <1>2

\* Whatever happens, the client keeps its deadlines and its interface.
LEMMA HeldStep ==
  ASSUME LeasesFit, NoReleaseInScript, TypeOK, Times, LeaseHeld, [Next]_vars
  PROVE  LeaseHeld'
<1> USE DEF LeaseHeld, Waits, Handlers, NoLease, InterfaceAgrees, Deadlines
<1>1. CASE Network
  BY <1>1 DEF Network, Answer, ForceRenew, Lose, timers
<1>2. CASE Block
  BY <1>2 DEF Block, timers
<1>3. CASE UNCHANGED vars
  BY <1>3 DEF vars, timers
<1> HIDE DEF LeaseHeld, Waits, Handlers, NoLease, InterfaceAgrees, Deadlines
<1> QED
  BY <1>1, <1>2, <1>3, HeldTimeout, HeldResume, HeldReceive, HeldRenewal, HeldRelease,
     HeldTick DEF Next, Signal

\* The client's deadlines and interface, in every state.
LEMMA AlwaysHeld ==
  ASSUME LeasesFit, NoReleaseInScript
  PROVE  Spec => [](TypeOK /\ Times /\ LeaseHeld)
<1>1. Init => Times /\ LeaseHeld
  <2>1. 0 # Never
    BY UdhcpcAssumption
  <2> QED
    BY <2>1, Distinct
    DEF Init, Times, TimersOrdered, LeaseHeld, Waits, Handlers, NoLease, InterfaceAgrees,
        Deadlines
<1>2. TypeOK /\ Times /\ LeaseHeld /\ [Next]_vars => Times' /\ LeaseHeld'
  BY TimesStep, HeldStep
<1> QED
  BY <1>1, <1>2, ClientTypes, PTL DEF Spec

\* No address is used beyond its lease, except by the 2 + 2 + 4 seconds of the requests of
\* a renewal that was asked for at its very end (dhcpc.c: the timeouts of RENEW_REQUESTED
\* do not look at the lease), whatever is lost or late, wherever SIGUSR1 arrives and
\* wherever in its loop SIGUSR2 does.  An address that a release leaves behind
\* (dhcpc.c:435) is the exception UseWithinLease names.
THEOREM LeaseRespected ==
  ASSUME LeasesFit, NoReleaseInScript
  PROVE  Spec => []UseWithinLease
<1>1. TypeOK /\ Times /\ LeaseHeld => UseWithinLease
  <2> SUFFICES ASSUME TypeOK, Times, LeaseHeld, ifaddr \in Addrs, ~left_behind
               PROVE  age <= lease + (IF state = "RENEW_REQUESTED" THEN 8 ELSE 0)
    BY DEF UseWithinLease
  <2>1. CASE todo \in {"ack_script", "ack_bound"}
    BY <2>1 DEF LeaseHeld, Handlers, TypeOK
  <2>2. CASE InLoop
    <3>1. state \in {"BOUND", "RENEWING", "REBINDING", "RENEW_REQUESTED"}
      BY <2>2 DEF LeaseHeld, InterfaceAgrees
    <3>2. timer \in Nat
      BY <2>2, <3>1 DEF LeaseHeld, Waits, TypeOK
    <3>3. CASE state = "RENEW_REQUESTED"
      BY <2>2, <3>2, <3>3 DEF LeaseHeld, Deadlines, Waited, TypeOK
    <3>4. CASE state # "RENEW_REQUESTED"
      BY <2>2, <3>1, <3>2, <3>4 DEF LeaseHeld, Deadlines, Times, TimersOrdered, TypeOK
    <3> QED
      BY <3>3, <3>4
  <2> QED
    BY <2>1, <2>2 DEF LeaseHeld, Handlers, NoLease, TypeOK
<1> QED
  BY <1>1, AlwaysHeld, PTL

\* Outside its handlers the client and the interface agree on the address, released or
\* not: the scripts that dhcpc.c runs and the state it then enters drift apart only where
\* release_requested (dhcpc.c:435) leaves the address of a renewal behind.
THEOREM InterfaceKept ==
  ASSUME LeasesFit, NoReleaseInScript
  PROVE  Spec => []InterfaceAgrees
<1>1. LeaseHeld => InterfaceAgrees
  BY DEF LeaseHeld
<1> QED
  BY <1>1, AlwaysHeld, PTL

-----------------------------------------------------------------------------
(***************************************************************************)
(* The exchange.                                                           *)
(***************************************************************************)
\* The request p, or its acknowledgement, belongs to the client's present exchange.
InExchange(p) == p.cur /\ p.type \in {"REQUEST", "ACK"}

\* What can still be acknowledged is the address the client now asks for.
SameAddress == \A p \in wire \cup inbox : InExchange(p) => p.ip = requested_ip

\* While the client waits for an offer nothing can be acknowledged; while it can take an
\* acknowledgement, only the address it asked for can.  The client that goes back to
\* INIT_SELECTING listens to nothing before the discover that chooses a new xid.
Exchange ==
    /\ <<"SIGUSR1", "late">> \in Signals /\ state = "RELEASED"
          => InLoop /\ late = OnTime /\ listen_mode = "NONE"
    /\ InLoop /\ state = "INIT_SELECTING" /\ packet_num = 0 => timer = 0 \/ Fd = "NONE"
    /\ InLoop /\ state = "INIT_SELECTING" /\ packet_num > 0
          => \A p \in wire \cup inbox : ~InExchange(p)
    /\ InLoop /\ (Requesting \/ state = "BOUND") => SameAddress
    /\ todo \in {"ack_script", "ack_bound"} => SameAddress
    /\ todo \in {"again", "lost_rest"} => state \in {"INIT_SELECTING", "RELEASED"}

\* The timeouts: a discover that starts an exchange outdates all others.
LEMMA ExchangeTimeout ==
  ASSUME TypeOK, Exchange, Timeout
  PROVE  Exchange'
<1> USE DEF Exchange, SameAddress, InExchange, TimedOut, Requesting
<1>w. wire \in SUBSET ToServer /\ inbox \in SUBSET ToClient
  BY DEF TypeOK, ToServer, ToClient
<1>s. Sent(wire, Request, MaxWire) \subseteq wire \cup {Request}
  BY SentWithin
<1>r. Request.ip = requested_ip
  BY DEF Request
<1>1. CASE SendDiscover
  <2>1. \A p \in wire' \cup inbox' : ~InExchange(p)
    <3>1. ~InExchange(Discover)
      BY DEF Discover
    <3>2. CASE packet_num = 0
      <4>1. wire' \subseteq Outdate(wire) \cup {Discover} /\ inbox' = Outdate(inbox)
        BY <1>1, <3>2, SentWithin DEF SendDiscover
      <4>2. \A p \in Outdate(wire) \cup Outdate(inbox) : ~p.cur
        BY <1>w, OutdateNotCurrent
      <4> QED
        BY <3>1, <4>1, <4>2
    <3>3. CASE packet_num # 0
      <4>1. wire' \subseteq wire \cup {Discover} /\ inbox' = inbox
        BY <1>1, <3>3, SentWithin DEF SendDiscover
      <4>2. packet_num > 0
        BY <3>3 DEF TypeOK
      <4> QED
        BY <1>1, <3>1, <4>1, <4>2 DEF SendDiscover
    <3> QED
      BY <3>2, <3>3
  <2>2. packet_num' # 0
    BY <1>1 DEF SendDiscover, TypeOK
  <2> QED
    BY <1>1, <2>1, <2>2 DEF SendDiscover
<1>2. CASE DiscoverAgain
  BY <1>2 DEF DiscoverAgain, net
<1>3. CASE SendRequest
  BY <1>3, <1>s, <1>r DEF SendRequest
<1>4. CASE GiveUp
  BY <1>4 DEF GiveUp
<1>5. CASE Renew
  <2>1. wire' \subseteq wire \cup {Request}
    BY <1>5, <1>s DEF Renew
  <2> QED
    BY <1>5, <2>1, <1>r DEF Renew
<1>6. CASE Rebind
  BY <1>6, <1>s, <1>r DEF Rebind
<1>7. CASE LeaseLost
  BY <1>7 DEF LeaseLost
<1>8. CASE ReleasedTimeout
  BY <1>8 DEF ReleasedTimeout
<1> QED
  BY <1>1, <1>2, <1>3, <1>4, <1>5, <1>6, <1>7, <1>8 DEF Timeout

\* The rest of a handler: the ones that go back to INIT_SELECTING let the timeout pass.
LEMMA ExchangeResume ==
  ASSUME TypeOK, Exchange, Resume
  PROVE  Exchange'
<1> USE DEF Exchange, SameAddress, InExchange, Requesting
<1>1. CASE DiscoverAgainRest
  BY <1>1 DEF DiscoverAgainRest
<1>2. CASE AckScript
  BY <1>2 DEF AckScript, net
<1>3. CASE AckBound
  BY <1>3 DEF AckBound, net
<1>4. CASE BackToInit
  BY <1>4 DEF BackToInit
<1>5. CASE LeaseLostDeconfig
  BY <1>5 DEF LeaseLostDeconfig
<1>6. CASE LeaseLostRest
  BY <1>6 DEF LeaseLostRest
<1> QED
  BY <1>1, <1>2, <1>3, <1>4, <1>5, <1>6 DEF Resume

\* An acknowledgement that the client takes is for the address it asked for.
LEMMA AckMatches ==
  ASSUME Exchange, NEW m \in inbox, ReceiveAck(m)
  PROVE  m.ip = requested_ip
BY DEF Exchange, SameAddress, InExchange, ReceiveAck, Receive, Understood, XidMatches

\* A packet: the offer that changes the address finds nothing left to acknowledge.
LEMMA ExchangeReceive ==
  ASSUME TypeOK, Exchange, ReceiveSome
  PROVE  Exchange'
<1> USE DEF Exchange, SameAddress, InExchange, Requesting
<1> PICK m \in inbox : \/ ReceiveOffer(m) \/ ReceiveAck(m) \/ ReceiveNak(m)
                        \/ ReceiveForceRenew(m) \/ ReceiveIgnored(m)
  BY DEF ReceiveSome
<1>1. CASE ReceiveOffer(m)
  <2>1. packet_num > 0
    BY <1>1 DEF ReceiveOffer, Receive, TypeOK
  <2> QED
    BY <1>1, <2>1 DEF ReceiveOffer, Receive
<1>2. CASE ReceiveAck(m)
  <2>1. requested_ip' = requested_ip
    BY <1>2, AckMatches DEF ReceiveAck
  <2> QED
    BY <1>2, <2>1 DEF ReceiveAck, Receive
<1>3. CASE ReceiveNak(m)
  BY <1>3 DEF ReceiveNak, Receive
<1>4. CASE ReceiveForceRenew(m)
  BY <1>4 DEF ReceiveForceRenew, renew_requested, Receive
<1>5. CASE ReceiveIgnored(m)
  BY <1>5 DEF ReceiveIgnored, Receive
<1> QED
  BY <1>1, <1>2, <1>3, <1>4, <1>5

\* The signals: a client that is woken up from RELEASED lets the timeout pass too, or has
\* no socket to listen to.
LEMMA ExchangeSignal ==
  ASSUME SignalsSeen, TypeOK, Exchange, Signal
  PROVE  Exchange'
<1> USE DEF Exchange, SameAddress, InExchange, Requesting
<1>1. CASE SigUsr1
  BY <1>1 DEF SigUsr1, Interrupted, renew_requested, net, TypeOK, States
<1>2. CASE SigUsr1Late
  <2>1. /\ <<"SIGUSR1", "late">> \in Signals
        /\ todo = "none" /\ todo' = "none" /\ timer' = timer
        /\ UNCHANGED <<requested_ip, net>>
    BY <1>2 DEF SigUsr1Late, MissedBySelect
  <2>2. Fd' = Fd
    <3>1. late' = [fd |-> Fd, timeout |-> 0] /\ Fd \in {"NONE", "KERNEL", "RAW"}
      BY <1>2, LateTyped DEF SigUsr1Late, MissedBySelect
    <3>2. late' # OnTime /\ late'.fd = Fd
      BY <3>1 DEF OnTime
    <3> QED
      BY <3>2 DEF Fd
  <2>3. state = "RELEASED" => Fd = "NONE"
    BY <2>1 DEF Fd
  <2> QED
    BY <1>2, <2>1, <2>2, <2>3 DEF SigUsr1Late, renew_requested, net, TypeOK, States
<1>3. CASE SigUsr2
  BY <1>3 DEF SigUsr2, Interrupted, TimedOut, release_requested, SignalsSeen, net
<1>4. CASE SigUsr2Late
  BY <1>4 DEF SigUsr2Late, MissedBySelect, release_requested, SignalsSeen, net
<1> QED
  BY <1>1, <1>2, <1>3, <1>4 DEF Signal

\* The server acknowledges the address of the request, under the xid of the request.
LEMMA ExchangeNetwork ==
  ASSUME TypeOK, Exchange, Network
  PROVE  Exchange'
<1>w. wire \in SUBSET ToServer /\ inbox \in SUBSET ToClient
  BY DEF TypeOK, ToServer, ToClient
<1>1. \A p \in wire' \cup inbox' : InExchange(p) =>
        \E q \in wire \cup inbox : InExchange(q) /\ p.ip = q.ip
  <2>1. ASSUME NEW m \in wire, NEW a \in Answers(m), Answer(m, a)
        PROVE  \A p \in wire' \cup inbox' : InExchange(p) =>
                 \E q \in wire \cup inbox : InExchange(q) /\ p.ip = q.ip
    <3>1. wire' \cup inbox' \subseteq wire \cup inbox \cup {a}
      BY <2>1, SentWithin DEF Answer
    <3>2. m.type \in {"DISCOVER", "REQUEST"}
      BY <1>w DEF ToServer
    <3>3. InExchange(a) => InExchange(m) /\ a.ip = m.ip
      BY <3>2 DEF InExchange, Answers
    <3> QED
      BY <3>1, <3>3
  <2>2. ASSUME ForceRenew
        PROVE  \A p \in wire' \cup inbox' : InExchange(p) =>
                 \E q \in wire \cup inbox : InExchange(q) /\ p.ip = q.ip
    <3> DEFINE f == [type |-> "FORCERENEW", ip |-> NoAddr, lease |-> 0, cur |-> TRUE]
    <3>1. wire' \cup inbox' \subseteq wire \cup inbox \cup {f}
      BY <2>2, SentWithin DEF ForceRenew
    <3>2. ~InExchange(f)
      BY DEF InExchange
    <3> HIDE DEF f
    <3> QED
      BY <3>1, <3>2
  <2>3. ASSUME NEW m \in wire \cup inbox, Lose(m)
        PROVE  \A p \in wire' \cup inbox' : InExchange(p) =>
                 \E q \in wire \cup inbox : InExchange(q) /\ p.ip = q.ip
    BY <2>3 DEF Lose
  <2> QED
    BY <2>1, <2>2, <2>3 DEF Network
<1>2. UNCHANGED <<state, packet_num, timer, listen_mode, requested_ip, todo, late>>
  BY DEF Network, Answer, ForceRenew, Lose
<1> QED
  BY <1>1, <1>2 DEF Exchange, SameAddress, Requesting, Fd

\* The exchange, step by step.
LEMMA ExchangeStep ==
  ASSUME SignalsSeen, TypeOK, Exchange, [Next]_vars
  PROVE  Exchange'
<1>1. CASE Tick
  BY <1>1 DEF Tick, net, Exchange, SameAddress, InExchange, Requesting, Fd, TypeOK
<1>2. CASE Block \/ UNCHANGED vars
  BY <1>2 DEF Block, vars, net, Exchange, SameAddress, InExchange, Requesting, Fd
<1> QED
  BY <1>1, <1>2, ExchangeTimeout, ExchangeResume, ExchangeReceive, ExchangeSignal,
     ExchangeNetwork DEF Next

\* Every lease the client installs is for the address it asked for (dhcpc.c compares the
\* xid of an acknowledgement and nothing else): no acknowledgement of an earlier exchange,
\* delayed or duplicated, gets past the xid test.
THEOREM AcksMatchRequest ==
  ASSUME SignalsSeen
  PROVE  Spec => AckForRequest
<1>1. Init => Exchange
  BY DEF Init, Exchange, SameAddress, Requesting
<1>2. TypeOK /\ Exchange /\ [Next]_vars => Exchange'
  BY ExchangeStep
<1>3. TypeOK /\ Exchange /\ [Next]_vars =>
        [lease' # lease \/ todo' = "ack_script" => requested_ip' = requested_ip]_vars
  <2> SUFFICES ASSUME Exchange, Next, lease' # lease \/ todo' = "ack_script"
               PROVE  requested_ip' = requested_ip
    OBVIOUS
  <2>1. ASSUME NEW m \in inbox, ReceiveAck(m) PROVE requested_ip' = requested_ip
    BY <2>1, AckMatches DEF ReceiveAck
  <2>2. CASE ~\E m \in inbox : ReceiveAck(m)
    BY <2>2
    DEF Next, timers, Timeout, SendDiscover, DiscoverAgain, SendRequest, GiveUp, Renew,
        Rebind, LeaseLost, ReleasedTimeout, Resume, DiscoverAgainRest, AckScript,
        AckBound, BackToInit, LeaseLostDeconfig, LeaseLostRest, ReceiveSome,
        ReceiveOffer, ReceiveNak, ReceiveForceRenew, ReceiveIgnored, Block,
        Signal, SigUsr1, SigUsr1Late, SigUsr2, SigUsr2Late, MissedBySelect,
        Interrupted, TimedOut, Tick, Network, Answer, ForceRenew, Lose, Receive
  <2> QED
    BY <2>1, <2>2
<1> QED
  BY <1>1, <1>2, <1>3, ClientTypes, PTL DEF Spec, AckForRequest
=============================================================================
