------------------------------ MODULE PppLink -------------------------------
(***************************************************************************)
(* Two LCP automata joined by a link that may lose packets.                *)
(*                                                                         *)
(* Side 1 is the gateway, side 2 its peer; both run the code of PppFsm.    *)
(* The link keeps the order of packets.  Each process runs one event loop  *)
(* (main.c): a packet, a callout or a call from the rest of pppd is        *)
(* handled to its end before the next, so each is one action.              *)
(*                                                                         *)
(* Faults are counted.  A fault is a packet that is lost or a callout that *)
(* fires although a packet is on its way; once they are used up, callouts  *)
(* fire only on a silent link, which is what a timeout of three seconds is *)
(* meant to wait for.  Calls that disturb the link are counted as well.    *)
(***************************************************************************)
EXTENDS PppFsm

CONSTANTS
    ChanLen,         \* bound: packets on their way in one direction
    MaxFaults,       \* bound: lost packets and early callouts
    MaxCalls         \* bound: calls that disturb the link

ASSUME LinkAssumption ==
    /\ Wanted \in [{1, 2} -> Opt \cup {NoOpt}]
    /\ Acceptable \in [{1, 2} -> SUBSET Opt] /\ Adopts \in [{1, 2} -> SUBSET Opt]
    /\ Hint \in [{1, 2} -> Opt]
    /\ DOMAIN Flags = {1, 2}
    /\ ChanLen \in Nat /\ MaxFaults \in Nat /\ MaxCalls \in Nat

VARIABLES
    fsm,             \* fsm[p]: the automaton of side p
    chan,            \* chan[p]: the packets on their way to side p
    faults,          \* faults that may still happen
    calls            \* disturbing calls that may still happen

vars == <<fsm, chan, faults, calls>>

Side == {1, 2}
Other(p) == 3 - p

TypeOK ==
    /\ fsm \in [Side -> Fsm]
    /\ \A p \in Side : fsm[p].out = <<>>
    /\ chan \in [Side -> Seq(Packet)]
    /\ \A p \in Side : Len(chan[p]) <= ChanLen
    /\ faults \in 0 .. MaxFaults
    /\ calls \in 0 .. MaxCalls

Init ==
    /\ fsm = [p \in Side |-> fsm_init]
    /\ chan = [p \in Side |-> <<>>]
    /\ faults = MaxFaults
    /\ calls = MaxCalls

----------------------------------------------------------------------------

\* traffic() may find that data came in only while the peer's link is up.
At(p) == {[me |-> p, busy |-> b] : b \in {FALSE, fsm[Other(p)].up}}

\* Side p is left as g, the packets in wire are on their way to p, and what g
\* sent joins those on their way to the other side; what the queue of the
\* device cannot hold is dropped.
Becomes(p, g, wire) ==
    /\ fsm' = [fsm EXCEPT ![p] = [g EXCEPT !.out = <<>>]]
    /\ chan' = [chan EXCEPT ![p] = wire,
                            ![Other(p)] = SubSeq(@ \o g.out, 1,
                                IF Len(@ \o g.out) < ChanLen THEN Len(@ \o g.out) ELSE ChanLen)]

Quiet == \A p \in Side : chan[p] = <<>>

Receive(p) ==
    /\ chan[p] # <<>>
    /\ \E e \in At(p) : Becomes(p, fsm_input(e, fsm[p], Head(chan[p])), Tail(chan[p]))
    /\ UNCHANGED <<faults, calls>>

\* One callout of side p is due.
Due == IF Quiet THEN UNCHANGED faults ELSE faults > 0 /\ faults' = faults - 1

Timeout(p) ==
    /\ fsm[p].callouts > 0
    /\ Due
    /\ \E e \in At(p) : Becomes(p, fsm_timeout(e, fsm[p]), chan[p])
    /\ UNCHANGED calls

EchoTimeout(p) ==
    /\ fsm[p].echo
    /\ Due
    /\ \E e \in At(p) : Becomes(p, LcpEchoTimeout(e, fsm[p]), chan[p])
    /\ UNCHANGED calls

Lose(p) ==
    /\ chan[p] # <<>>
    /\ faults > 0
    /\ faults' = faults - 1
    /\ chan' = [chan EXCEPT ![p] = Tail(@)]
    /\ UNCHANGED <<fsm, calls>>

----------------------------------------------------------------------------

\* Calls that bring the link up.
Open(p) ==
    /\ fsm[p].state \in {"INITIAL", "CLOSED"}
    /\ \E e \in At(p) : Becomes(p, fsm_open(e, fsm[p]), chan[p])
    /\ UNCHANGED <<faults, calls>>

LowerUp(p) ==
    /\ fsm[p].state \in {"INITIAL", "STARTING"}
    /\ \E e \in At(p) : Becomes(p, fsm_lowerup(e, fsm[p]), chan[p])
    /\ UNCHANGED <<faults, calls>>

\* Calls that disturb it.
Disturb(p, g) ==
    /\ calls > 0
    /\ calls' = calls - 1
    /\ Becomes(p, g, chan[p])
    /\ UNCHANGED faults

Reopen(p) ==
    /\ fsm[p].state \notin {"INITIAL", "CLOSED"}
    /\ \E e \in At(p) : Disturb(p, fsm_open(e, fsm[p]))

Close(p) == Disturb(p, lcp_close(fsm[p]))

LowerDown(p) == Disturb(p, fsm_lowerdown(fsm[p]))

ProtReject(p) ==
    /\ fsm[p].state = "OPENED"
    /\ Disturb(p, fsm_protreject(fsm[p]))

CodeReject(p) ==
    /\ fsm[p].state \notin {"INITIAL", "STARTING"}
    /\ Disturb(p, fsm_rcoderej(fsm[p]))

Next ==
    \E p \in Side :
        \/ Receive(p) \/ Timeout(p) \/ EchoTimeout(p) \/ Lose(p)
        \/ Open(p) \/ LowerUp(p)
        \/ Reopen(p) \/ Close(p) \/ LowerDown(p) \/ ProtReject(p) \/ CodeReject(p)

\* The event loop waits in select() until a packet is there or the next
\* callout is due, so it handles each in the end.  A callout falls due by the
\* clock: packets that come in from time to time do not put it off for ever,
\* hence the strong fairness.
Fairness ==
    \A p \in Side : WF_vars(Receive(p)) /\ SF_vars(Timeout(p)) /\ SF_vars(EchoTimeout(p))

Spec == Init /\ [][Next]_vars /\ Fairness

----------------------------------------------------------------------------

\* What one side believes the other granted is what the other did grant: when
\* both sides have told their upper layers that the link is up, each has
\* acknowledged (hisoptions) what the other uses (gotoptions), however
\* requests, answers and retransmissions crossed.
OptionsAgree ==
    (\A p \in Side : fsm[p].up) => \A p \in Side : fsm[p].got = fsm[Other(p)].his

\* The requests among the packets of c, and whether request r is acknowledged by one.
RequestsIn(c) == {i \in DOMAIN c : c[i].code = "CONFREQ"}
Acked(c, r) == \E i \in DOMAIN c : c[i].code = "CONFACK" /\ c[i].id = r

\* The byte that numbers the requests wraps around, and fsm.c tells the answer to its last
\* request from a late one by it (f->reqid): a new id is never that of a request or of an
\* acknowledgement still on its way.
IdsFresh ==
    [][\A p \in Side : fsm'[p].id # fsm[p].id =>
            /\ \A i \in RequestsIn(chan[Other(p)]) : chan[Other(p)][i].id # fsm'[p].id
            /\ ~Acked(chan[p], fsm'[p].id)]_vars

\* A side that waits for an answer has a callout pending (fsm.c TIMEOUT and
\* UNTIMEOUT): it never waits for a packet alone.
TimerRuns ==
    \A p \in Side : fsm[p].state \in Negotiating \cup Terminating => fsm[p].callouts > 0

\* fsm.h: "OPENED: Connection available", and down is "called when fsm leaves
\* OPENED state".  A side in OPENED has told its upper layers that the link is
\* up.
OpenedMeansUp == \A p \in Side : fsm[p].state = "OPENED" <=> fsm[p].up

\* The half of it that holds: the upper layers were told that the link is up, and echo
\* requests are sent, only in OPENED, whatever takes a side out of it.
UpOnlyOpened ==
    \A p \in Side : /\ fsm[p].up => fsm[p].state = "OPENED"
                    /\ fsm[p].echo => fsm[p].up

\* Negotiation and termination come to an end on both sides: maxnakloops stops
\* two sides that cannot agree, the retransmission counters stop a side that
\* is not answered.
Settles ==
    <>[](\A p \in Side : fsm[p].state \notin Negotiating \cup Terminating)

\* A side does not stay up while the other is down: the echo requests of lcp.c
\* notice the dead peer, or the peer's own requests take the link down.
HalfOpenEnds ==
    \A p \in Side : (fsm[p].up /\ ~fsm[Other(p)].up) ~> (~fsm[p].up \/ fsm[Other(p)].up)
=============================================================================
