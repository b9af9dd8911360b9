----------------------------- MODULE IgmpSnooping -----------------------------
(***************************************************************************)
(* IGMP snooping in the kernel bridge (net/bridge/br_igmp_snooping.c).     *)
(* The bridge listens to the reports and leaves of the hosts and keeps one *)
(* list, common to all bridges, of who is in which multicast group behind  *)
(* which port; multicast frames go to the ports of the list instead of all *)
(* ports.  A timer removes the entries that were not refreshed in time.    *)
(*                                                                         *)
(* The kernel is built for one processor without preemption: a frame and a *)
(* run of the timer are handled in softirq context without interruption.   *)
(* Ports are struct net_bridge_port objects, by address: kmalloc may hand  *)
(* out the address of a removed port again.  Frames are IP: reports,       *)
(* leaves and, as data, UDP to a multicast group.                          *)
(***************************************************************************)
EXTENDS Naturals

CONSTANTS
    Groups,          \* multicast addresses
    Bypass,          \* those of UPnP and RIPv2, which are never filtered
    Hosts,           \* hardware addresses of the hosts
    Ports,
    Nas,             \* the ports on the WAN side: devices nas...
    Switches,        \* sets of ports on one switch: devices eth... with one unit number
    Places,          \* the <<host, port>> pairs reports and leaves come from
    Reports,         \* <<left, joined, left again>>: the groups of a report's records
    Bridges,
    BridgeOf,        \* the bridge each port belongs to while it is in use
    QueryTimeout,    \* IGMP_QUERY_TIMEOUT * HZ
    CheckTimeout,    \* IGMP_TIMER_CHECK_TIMEOUT * HZ
    WordSize,        \* 2^32: jiffies is an unsigned long
    InitialJiffies,  \* INITIAL_JIFFIES, five minutes before jiffies wraps
    Stopped          \* the timer is not pending

ASSUME IgmpSnoopingAssumption ==
    /\ Bypass \subseteq Groups
    /\ Places \subseteq Hosts \X Ports
    /\ Nas \subseteq Ports /\ Switches \subseteq SUBSET Ports
    /\ Reports \subseteq (SUBSET Groups) \X (SUBSET Groups) \X (SUBSET Groups)
    /\ Ports \cap Bridges = {}
    /\ BridgeOf \in [Ports -> Bridges]
    /\ QueryTimeout \in Nat /\ CheckTimeout \in Nat \ {0}
    /\ CheckTimeout < QueryTimeout
    /\ WordSize \in Nat /\ 2 * QueryTimeout <= WordSize
    /\ InitialJiffies \in 0 .. WordSize - 1
    /\ Stopped \notin Nat

VARIABLES
    jiffies,
    igmp_list,
    igmp_timer,            \* jiffies left until the timer runs, or Stopped
    igmp_start_timer,
    igmp_snooping_enable,
    ports,                 \* the ports in use: in state BR_STATE_FORWARDING
    frame,                 \* what became of the frame handled in this step
    heard                  \* ghost: jiffies since the last report of a member that
                           \* snooping took note of, Unheard (a cap, or it left) or Cut

vars == <<jiffies, igmp_list, igmp_timer, igmp_start_timer, igmp_snooping_enable,
          ports, frame, heard>>

\* struct net_bridge_igmp_snooping_entry
Member == [grp : Groups, host : Hosts, port : Ports]
Entry == [grp : Groups, host : Hosts, port : Ports, time : 0 .. WordSize - 1]

NoFrame == [kind |-> "none"]
Frames == [kind : {"report", "leave", "data"}, grps : SUBSET Groups,
           from : Ports \cup Bridges, to : SUBSET Ports] \cup {NoFrame}

Unheard == QueryTimeout + CheckTimeout + 1      \* the cap of heard
Cut == Unheard + 1           \* struck off by the removal of a bridge, not heard since

Init ==
    /\ jiffies = InitialJiffies
    /\ igmp_list = {}
    /\ igmp_timer = Stopped
    /\ igmp_start_timer = FALSE
    /\ igmp_snooping_enable = FALSE
    /\ ports = Ports
    /\ frame = NoFrame
    /\ heard = [m \in Member |-> Unheard]

-----------------------------------------------------------------------------
\* Mutant: no wrap-around.
Plus_Unbounded(a, b) == a + b

\* Unsigned addition of a and b, both less than WordSize.
Plus(a, b) == IF a + b < WordSize THEN a + b ELSE a + b - WordSize

\* Mutant: the wrap-around of jiffies is not allowed for.
TimedOut_AnyDistance(e) == jiffies > e.time

\* Mutant: the wrong one of the two periods.
TimedOut_CheckPeriod(e) == jiffies > e.time /\ jiffies - e.time < CheckTimeout

\* The test of the timer.  What is further past than QueryTimeout is taken for
\* a time after the next wrap-around of jiffies.
TimedOut(e) == jiffies > e.time /\ jiffies - e.time < QueryTimeout

query_timeout ==
    /\ igmp_timer = 0
    /\ igmp_list' = {e \in igmp_list : ~TimedOut(e)}
    /\ igmp_timer' = CheckTimeout
    /\ frame' = NoFrame
    /\ UNCHANGED <<jiffies, igmp_start_timer, igmp_snooping_enable, ports, heard>>

-----------------------------------------------------------------------------
\* Not back to where the frame came from, nor from WAN to WAN.  The frame came in
\* on a port or is one that the device of a bridge sends.
should_deliver(source, p) ==
    p # source /\ p \in ports /\ ~(source \in Nas /\ p \in Nas)

\* Not between the ports of one switch, which forwards such frames by itself.
should_eth_deliver(source, p) == \A sw \in Switches : ~({source, p} \subseteq sw)

Bridge(source) == IF source \in Bridges THEN source ELSE BridgeOf[source]

br_flood(source) ==
    {p \in ports : /\ BridgeOf[p] = Bridge(source)
                   /\ should_deliver(source, p) /\ should_eth_deliver(source, p)}

-----------------------------------------------------------------------------
\* The entry of member m.
Is(e, m) == e.grp = m.grp /\ e.host = m.host /\ e.port = m.port
ListedIn(list, m) == \E e \in list : Is(e, m)
Listed(m) == ListedIn(igmp_list, m)

NewEntry(m) == [grp |-> m.grp, host |-> m.host, port |-> m.port,
                time |-> Plus(jiffies, QueryTimeout)]

\* Mutant: the entry is added without looking for it.
add_Always(list, joins) == list \cup {NewEntry(m) : m \in joins}

\* br_igmp_snooping_add for each of the members that join: an entry that is
\* there is refreshed, else one is added.
add(list, joins) ==
    {e \in list : \A m \in joins : ~Is(e, m)} \cup {NewEntry(m) : m \in joins}

\* br_igmp_snooping_del for each of the members that leave.
del(list, leaves) == {e \in list : \A m \in leaves : ~Is(e, m)}

members(p, h, gs) == {[grp |-> g, host |-> h, port |-> p] : g \in gs}

\* What the records of report r do when they come from host h behind port p:
\* version 1 and 2 reports join one group; the records of a version 3 report are
\* taken in order, and of those for one group only the last counts, but that a
\* join that is undone again may have started the timer, and that one after a
\* leave has to find memory for a new entry.
Record(p, h, r, nomem) ==
    LET rest == del(igmp_list, members(p, h, r[1]))
        joins == {m \in members(p, h, r[2] \ Bypass) : nomem => ListedIn(rest, m)}
        added == \E m \in joins : ~ListedIn(rest, m)
    IN  /\ igmp_list' = del(add(rest, joins), members(p, h, r[3]))
        /\ IF added /\ ~igmp_start_timer
           THEN igmp_timer' = CheckTimeout /\ igmp_start_timer' = TRUE
           ELSE UNCHANGED <<igmp_timer, igmp_start_timer>>
        /\ heard' = [m \in Member |->
                        IF m \in members(p, h, r[3]) THEN Unheard
                        ELSE IF m \in joins THEN 0
                        ELSE IF m \in members(p, h, r[1]) THEN Unheard ELSE heard[m]]

\* A report from host h behind port p.  The frame itself is flooded, also when its
\* records leave groups.  Without memory for an entry a host that would join stays
\* unknown; with snooping off all do.
Report(p, h, r, nomem) ==
    /\ p \in ports
    /\ \/ igmp_snooping_enable /\ Record(p, h, r, nomem)
       \/ /\ ~igmp_snooping_enable /\ ~nomem
          /\ UNCHANGED <<igmp_list, igmp_timer, igmp_start_timer, heard>>
    /\ frame' = [kind |-> "report", grps |-> r[1] \cup r[2] \cup r[3], from |-> p,
                 to |-> br_flood(p)]
    /\ UNCHANGED <<jiffies, igmp_snooping_enable, ports>>

\* Mutant: every leave is passed on.
LeaveTo_Always(p, g, list) == br_flood(p)

\* With snooping on, a leave is passed on only when nobody is left in the group.
LeaveTo(p, g, list) ==
    IF igmp_snooping_enable /\ \E e \in list : e.grp = g THEN {} ELSE br_flood(p)

\* A version 2 leave.
Leave(p, h, g) ==
    LET m == [grp |-> g, host |-> h, port |-> p]
    IN  /\ p \in ports
        /\ IF igmp_snooping_enable
           THEN /\ igmp_list' = del(igmp_list, {m})
                /\ heard' = [heard EXCEPT ![m] = Unheard]
           ELSE UNCHANGED <<igmp_list, heard>>
        /\ frame' = [kind |-> "leave", grps |-> {g}, from |-> p,
                     to |-> LeaveTo(p, g, igmp_list')]
        /\ UNCHANGED <<jiffies, igmp_timer, igmp_start_timer, igmp_snooping_enable, ports>>

\* Data frames go by the list, the frames of UPnP and RIPv2 do not.
Snooped(g) == igmp_snooping_enable /\ g \notin Bypass

\* br_deliver_nonas: what the bridge's own device floods stays off the WAN.
nonas(source, p) == ~(source \in Bridges /\ p \in Nas)

\* A multicast frame from a port or from the device of a bridge: one copy for each
\* entry of its group, on the port of the entry, whatever the bridge of that port.
\* The state in the memory of a port that was removed reads "disabled".
DataTo(source, g) ==
    IF Snooped(g)
    THEN {p \in {e.port : e \in {d \in igmp_list : d.grp = g}} : should_deliver(source, p)}
    ELSE {p \in br_flood(source) : nonas(source, p)}

Data(source, g) ==
    /\ frame' = [kind |-> "data", grps |-> {g}, from |-> source, to |-> DataTo(source, g)]
    /\ UNCHANGED <<jiffies, igmp_list, igmp_timer, igmp_start_timer,
                   igmp_snooping_enable, ports, heard>>

br_handle_frame_finish(p, g) == p \in ports /\ Data(p, g)

\* A frame of the gateway itself, such as one the IGMP proxy lets through.  Its own
\* IGMP frames are flooded and leave no trace (there is no port they came from).
br_dev_xmit(b, g) == Data(b, g)

-----------------------------------------------------------------------------
set_enable(enable) ==
    /\ igmp_snooping_enable' = enable
    /\ frame' = NoFrame
    /\ UNCHANGED <<jiffies, igmp_list, igmp_timer, igmp_start_timer, ports, heard>>

SetPorts(ps) ==
    /\ ports' = ps
    /\ frame' = NoFrame
    /\ UNCHANGED <<jiffies, igmp_list, igmp_timer, igmp_start_timer,
                   igmp_snooping_enable, heard>>

\* br_del_if, or a port that loses its link: the entries that point to the port
\* stay in the list.
br_del_if(p) == p \in ports /\ SetPorts(ports \ {p})

\* br_add_if, or a link that comes back, and the forward delay.
br_add_if(p) == p \notin ports /\ SetPorts(ports \cup {p})

\* The device of bridge b goes down, and with it all of its ports.
br_dev_stop(b) == SetPorts({p \in ports : BridgeOf[p] # b})

\* The removal of bridge b, whose device must be down (so that none of its ports is
\* in use), empties the list of all bridges and stops the timer.
del_br(b) ==
    /\ \A p \in ports : BridgeOf[p] # b
    /\ igmp_list' = {}
    /\ igmp_timer' = Stopped
    /\ heard' = [m \in Member |-> IF Listed(m) THEN Cut ELSE heard[m]]
    /\ frame' = NoFrame
    /\ UNCHANGED <<jiffies, igmp_start_timer, igmp_snooping_enable, ports>>

\* A timer that is due runs first.
Tick ==
    /\ igmp_timer # 0
    /\ jiffies' = Plus(jiffies, 1)
    /\ igmp_timer' = IF igmp_timer = Stopped THEN Stopped ELSE igmp_timer - 1
    /\ heard' = [m \in Member |-> IF heard[m] < Unheard THEN heard[m] + 1 ELSE heard[m]]
    /\ frame' = NoFrame
    /\ UNCHANGED <<igmp_list, igmp_start_timer, igmp_snooping_enable, ports>>

Next ==
    \/ query_timeout
    \/ \E at \in Places, r \in Reports, nomem \in BOOLEAN : Report(at[2], at[1], r, nomem)
    \/ \E at \in Places, g \in Groups : Leave(at[2], at[1], g)
    \/ \E p \in Ports, g \in Groups : br_handle_frame_finish(p, g)
    \/ \E b \in Bridges, g \in Groups : br_dev_xmit(b, g)
    \/ \E enable \in BOOLEAN : set_enable(enable)
    \/ \E p \in Ports : br_del_if(p) \/ br_add_if(p)
    \/ \E b \in Bridges : br_dev_stop(b) \/ del_br(b)
    \/ Tick

Spec == Init /\ [][Next]_vars

-----------------------------------------------------------------------------
\* Types.
TypeOK ==
    /\ jiffies \in 0 .. WordSize - 1
    /\ igmp_list \subseteq Entry
    /\ igmp_timer \in (0 .. CheckTimeout) \cup {Stopped}
    /\ igmp_start_timer \in BOOLEAN
    /\ igmp_snooping_enable \in BOOLEAN
    /\ ports \subseteq Ports
    /\ frame \in Frames
    /\ heard \in [Member -> 0 .. Cut]

\* br_igmp_snooping_add never lists a member twice, so the member gets each frame
\* once and one br_igmp_snooping_del takes it off the list.
UniqueEntries ==
    \A d, e \in igmp_list :
        d.grp = e.grp /\ d.host = e.host /\ d.port = e.port => d = e

\* A member whose report snooping took note of no longer ago than the query timeout,
\* and that did not leave since, is served: the timer has not removed its entry, on
\* neither side of a wrap-around of jiffies, no other member's leave has, and every
\* frame of the group that comes in on the member's bridge, or that the bridge's device
\* sends, goes out on its port, unless that port is where it came from, down, or closed
\* to it whoever is in the group: WAN to WAN, and when flooded also within a switch and
\* from the bridge's device to the WAN.  The one thing that does cut members off, those of
\* every bridge, is the removal of a bridge, which leaves the timer stopped.
MemberServed ==
    \A m \in Member :
        /\ heard[m] <= QueryTimeout =>
              /\ Listed(m)
              /\ (/\ frame.kind = "data" /\ m.grp \in frame.grps
                  /\ Bridge(frame.from) = BridgeOf[m.port]
                  /\ should_deliver(frame.from, m.port)
                  /\ \/ Snooped(m.grp)
                     \/ should_eth_deliver(frame.from, m.port) /\ nonas(frame.from, m.port))
                 => m.port \in frame.to
        /\ heard[m] = Cut => igmp_timer = Stopped

\* With snooping on, the router upstream sees a version 2 leave only when no member is
\* left that reported within the query timeout, so it does not cut off the group for the
\* others.  (Version 3 leave records, and with snooping off all leaves, are flooded.)
LeavePassedOnLast ==
    (igmp_snooping_enable /\ frame.kind = "leave" /\ frame.to # {}) =>
        \A m \in Member : m.grp \in frame.grps => heard[m] > QueryTimeout

\* A silent member is dropped at the latest one check period after the timeout.
\* The two exceptions are all there are: the timer was stopped for good by the
\* removal of a bridge, or the timeout fell in the last check period before
\* jiffies wrapped around.
SilentDropped ==
    \A e \in igmp_list :
        \/ heard[[grp |-> e.grp, host |-> e.host, port |-> e.port]]
              <= QueryTimeout + CheckTimeout
        \/ igmp_timer = Stopped
        \/ e.time >= WordSize - CheckTimeout

=============================================================================
