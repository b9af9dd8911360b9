------------------------------- MODULE ConeNat -------------------------------
(***************************************************************************)
(* The CONE_NAT target of the firewall (ipt_atp_conenat.c) on UDP, with    *)
(* the parts of connection tracking it leans on.  A LAN endpoint that      *)
(* sends to the Internet gets a WAN port; the target remembers the pair in *)
(* a permanent expectation, so that the endpoint's other conversations get *)
(* the same port and strangers that send to the port reach the endpoint.   *)
(*                                                                         *)
(* The kernel is built for one processor without preemption, so that one   *)
(* packet passes all the hooks, and one timer runs, without interruption.  *)
(* The rule carries no port range, the WAN interface has one address, the  *)
(* firewall forwards whatever was translated and drops what is addressed   *)
(* to the router itself, and no other connection helper is in use.         *)
(***************************************************************************)
EXTENDS Naturals, Sequences, FiniteSets, SequencesExt, Thinning

CONSTANTS
    Lan,          \* LAN endpoints (address and port)
    SrcPort,      \* the UDP port of each of them
    Remote,       \* endpoints on the Internet, the ports of one host
    PortSize      \* 2^16: ports are u_int16_t

\* The port search ends only if some port is free: the endpoint that searches
\* has no expectation, every other one at most one for each of its conversations.
ASSUME ConeNatAssumption ==
    /\ IsFiniteSet(Lan) /\ IsFiniteSet(Remote)
    /\ PortSize \in Nat \ {0}
    /\ SrcPort \in [Lan -> 0 .. PortSize - 1]
    /\ (Cardinality(Lan) - 1) * Cardinality(Remote) < PortSize

VARIABLES
    conns,        \* nf_conntrack_hash: the confirmed conversations
    expects       \* nf_conntrack_expect_list, newest first

vars == <<conns, expects>>

Port == 0 .. PortSize - 1

(***************************************************************************)
(* A conversation joins two tuples: on the WAN side <<remote, port>>, on   *)
(* the LAN side <<lan, face>>, where face is how the endpoint sees the     *)
(* remote.  The original direction is LAN to WAN in an "out" conversation, *)
(* WAN to LAN in an "in" one; seen is IPS_SEEN_REPLY.                      *)
(***************************************************************************)
Conn == [dir : {"out", "in"}, lan : Lan, face : Remote, remote : Remote,
         port : Port, seen : BOOLEAN]

\* An expectation: dst port, saved_ip and saved_proto, and the master
\* conversation by its original tuple, <<lan, remote>>.
Expect == [port : Port, lan : Lan, remote : Remote]

LanSide(c) == <<c.lan, c.face>>
WanSide(c) == <<c.remote, c.port>>

TypeOK == conns \subseteq Conn /\ expects \in Seq(Expect)

Init == conns = {} /\ expects = <<>>

-----------------------------------------------------------------------------
(* Expectations. *)

exp_src_cmp(e, lan) == e.lan = lan
exp_cmp(e, port) == e.port = port

Masters(e, c) == c.dir = "out" /\ LanSide(c) = <<e.lan, e.remote>>

expect_clash_Never(list, e) == FALSE

\* nf_conntrack_expect_related.  Two cone expectations differ only in the port, so a
\* second one for the port clashes, or matches and restarts the timer, whichever the
\* bytes of tuple.src say that nobody has set; the list is the same either way.
expect_clash(list, e) == \E i \in DOMAIN list : list[i].port = e.port

expect_related(list, e) == IF expect_clash(list, e) THEN list ELSE <<e>> \o list

\* A permanent expectation made by help2 for the conversation.  If there is no memory
\* for it the state is that after its timeout.
atp_nat_help2(list, c) ==
    expect_related(list, [port |-> c.port, lan |-> c.lan, remote |-> c.remote])

remove_expectations_Kept(list, gone) == list

\* nf_ct_remove_expectations for the conversations that go; the others keep their order.
remove_expectations(list, gone) ==
    Thin(list, {i \in DOMAIN list : \A c \in gone : ~Masters(list[i], c)})

-----------------------------------------------------------------------------
(* The packets of the LAN. *)

Nth_NoWrap(lan, k) == SrcPort[lan] + k

\* The ports in the order of the search: upwards from the endpoint's own port; the
\* counter is a u_int16_t, always <= 65535, and goes on from 0.
Nth(lan, k) == (SrcPort[lan] + k) % PortSize

FirstFree_OwnPort(lan) == SrcPort[lan]

FirstFree(lan) ==
    LET Free(k) == \A i \in DOMAIN expects : ~exp_cmp(expects[i], Nth(lan, k))
        k == CHOOSE k \in Port : Free(k) /\ \A j \in 0 .. k - 1 : ~Free(j)
    IN  Nth(lan, k)

\* conenat_target: the port of the first expectation of the endpoint, or a free one.
conenat_target(lan) ==
    LET own == {i \in DOMAIN expects : exp_src_cmp(expects[i], lan)}
    IN  IF own # {} THEN expects[Min(own)].port ELSE FirstFree(lan)

Confirmable_LanOnly(c) == LanSide(c) \notin {LanSide(d) : d \in conns}

\* __nf_conntrack_confirm drops the packet if either tuple is taken.  nf_nat_setup_info
\* has only the one port to choose from and cannot avoid it.
Confirmable(c) ==
    /\ LanSide(c) \notin {LanSide(d) : d \in conns}
    /\ WanSide(c) \notin {WanSide(d) : d \in conns}

\* The first packet of a conversation.  help2 runs before the conversation is confirmed;
\* the expectation it makes for one that is dropped goes with it.
SendNew(lan, r) ==
    LET c == [dir |-> "out", lan |-> lan, face |-> r, remote |-> r,
              port |-> conenat_target(lan), seen |-> FALSE]
    IN  /\ Confirmable(c)
        /\ conns' = conns \cup {c}
        /\ expects' = atp_nat_help2(expects, c)

\* Until an answer was seen, every further packet calls help2 again.
SendAgain(c) ==
    /\ c.dir = "out" /\ ~c.seen
    /\ expects' = atp_nat_help2(expects, c)
    /\ UNCHANGED conns

\* A packet in the reply direction, from either side.
Reply(c) ==
    /\ ~c.seen
    /\ conns' = (conns \ {c}) \cup {[c EXCEPT !.seen = TRUE]}
    /\ UNCHANGED expects

-----------------------------------------------------------------------------
(* The packets of the WAN. *)

\* The source the LAN endpoint will see: the null binding of nf_nat_setup_info takes the
\* one an earlier conversation of the remote has, or its own, or, if the tuple is taken,
\* another port of the remote's host.
Faces(lan, r) ==
    LET Unused(f) == <<lan, f>> \notin {LanSide(d) : d \in conns}
    IN  {f \in Remote :
            /\ Unused(f)
            /\ \/ \E d \in conns : d.dir = "in" /\ d.remote = r /\ d.face = f
               \/ f = r
               \/ ~Unused(r)}

\* find_expectation: those with the port, of which the first is taken; its master is
\* always confirmed by now.
find_expectation(port) == {i \in DOMAIN expects : exp_cmp(expects[i], port)}

\* atp_nat_expect: a packet of no conversation to an expected port opens one, to the
\* endpoint of the expectation.  Other packets of no conversation are dropped.
Unsolicited(r, port) ==
    /\ <<r, port>> \notin {WanSide(d) : d \in conns}
    /\ find_expectation(port) # {}
    /\ LET lan == expects[Min(find_expectation(port))].lan
       IN  \E f \in Faces(lan, r) :
               LET c == [dir |-> "in", lan |-> lan, face |-> f, remote |-> r,
                         port |-> port, seen |-> FALSE]
               IN  Confirmable(c) /\ conns' = conns \cup {c}
    /\ UNCHANGED expects

-----------------------------------------------------------------------------
(* Timers and events. *)

\* death_by_timeout, also when the table is full or the user clears it.
ConnTimeout(c) ==
    /\ conns' = conns \ {c}
    /\ expects' = remove_expectations(expects, {c})

\* expectation_timed_out, ten minutes after it was made or last restarted.
ExpectTimeout(i) ==
    /\ expects' = RemoveAt(expects, i)
    /\ UNCHANGED conns

\* conat_device_event and conat_inet_event forget the conversations whose masq_index is
\* the interface; only conenat_target sets it.
device_cmp(c) == c.dir = "out"

InterfaceEvent ==
    LET gone == {c \in conns : device_cmp(c)}
    IN  /\ gone # {}
        /\ conns' = conns \ gone
        /\ expects' = remove_expectations(expects, gone)

Next ==
    \/ \E lan \in Lan, r \in Remote : SendNew(lan, r)
    \/ \E c \in conns : SendAgain(c)
    \/ \E c \in conns : Reply(c)
    \/ \E r \in Remote, port \in Port : Unsolicited(r, port)
    \/ \E c \in conns : ConnTimeout(c)
    \/ \E i \in DOMAIN expects : ExpectTimeout(i)
    \/ InterfaceEvent

Spec == Init /\ [][Next]_vars

-----------------------------------------------------------------------------
(* Properties. *)

\* Translation is unambiguous: whichever conversations came and went, a packet from the
\* WAN belongs to at most one conversation and so does a packet from the LAN, although
\* conversations opened from both sides share the two tuple spaces.
Unambiguous ==
    \A c, d \in conns : (LanSide(c) = LanSide(d) \/ WanSide(c) = WanSide(d)) => c = d

\* Every expectation has a live master that uses its port for its endpoint: a stranger
\* is never sent to an endpoint that no longer talks through the port (the atomicity of
\* clean_from_lists and of help2 before confirm).
ExpectationsBacked ==
    \A i \in DOMAIN expects :
        \E c \in conns : Masters(expects[i], c) /\ c.port = expects[i].port

\* A WAN port is expected for at most one endpoint, and a conversation makes at most one
\* expectation (the comment on the guard of atp_nat_help2), however often help2 runs.
ExpectedOnce ==
    \A i, j \in DOMAIN expects :
        (expects[i].port = expects[j].port
            \/ (expects[i].lan = expects[j].lan /\ expects[i].remote = expects[j].remote))
        => i = j

\* While the expectation of an endpoint stands its new conversations leave from an expected
\* port of its own, and nobody's leave from a port expected for someone else: what is left
\* of the cone once conversations outlive expectations.
BoundWhileExpected ==
    [][\A c \in conns' \ conns :
          LET of(lan) == {expects[i].port : i \in {i \in DOMAIN expects : expects[i].lan = lan}}
          IN  (c.dir = "out" /\ ~c.seen) =>
                 /\ of(c.lan) # {} => c.port \in of(c.lan)
                 /\ \A l \in Lan \ {c.lan} : c.port \notin of(l)]_vars

\* "The purpose of cone NAT is to bind src.ip src.port to the port on the WAN side": the
\* conversations an endpoint opened leave from one port, and it is that of no other.
ConeBinding ==
    \A c, d \in conns : (c.dir = "out" /\ d.dir = "out") => (c.lan = d.lan <=> c.port = d.port)
=============================================================================
