-------------------------- MODULE IgmpSnoopingProofs --------------------------
(***************************************************************************)
(* For every number of groups, hosts, ports and bridges, every clock width *)
(* and every pair of timeouts: members are listed once, a member that      *)
(* reported in time is served, a silent one is dropped, and only the last  *)
(* leave is passed on.                                                     *)
(***************************************************************************)
EXTENDS IgmpSnooping, TLAPS

\* What the list and the clock have in common: the entry of a member that was
\* heard within the query timeout says when it was, modulo the clock width.
Fresh ==
    \A m \in Member : heard[m] <= QueryTimeout =>
        \E e \in igmp_list : Is(e, m) /\ e.time = Plus(jiffies, QueryTimeout - heard[m])

IInv == TypeOK /\ UniqueEntries /\ Fresh

-----------------------------------------------------------------------------
\* The clock arithmetic stays within the word.
LEMMA PlusType ==
    ASSUME NEW a \in 0 .. WordSize - 1, NEW b \in Nat, b < WordSize
    PROVE  Plus(a, b) \in 0 .. WordSize - 1
BY IgmpSnoopingAssumption DEF IgmpSnoopingAssumption, Plus

\* br_igmp_snooping_query_timeout spares an entry that is not older than the
\* query timeout, also when its time lies beyond the wrap-around of jiffies.
LEMMA SparedByTimer ==
    ASSUME TypeOK, NEW h \in Nat, h <= QueryTimeout,
           NEW e, e.time = Plus(jiffies, QueryTimeout - h)
    PROVE  ~TimedOut(e)
BY IgmpSnoopingAssumption DEF IgmpSnoopingAssumption, TypeOK, Plus, TimedOut

\* A tick takes the clock one step towards the time in the entry.
LEMMA TickAge ==
    ASSUME NEW j \in 0 .. WordSize - 1, NEW h \in Nat, h + 1 <= QueryTimeout
    PROVE  Plus(j, QueryTimeout - h) = Plus(Plus(j, 1), QueryTimeout - (h + 1))
BY IgmpSnoopingAssumption DEF IgmpSnoopingAssumption, Plus

\* add and del keep to one entry for each member.
LEMMA UpdateUnique ==
    ASSUME NEW list,
           \A d, e \in list : d.grp = e.grp /\ d.host = e.host /\ d.port = e.port => d = e,
           NEW joins, NEW leaves, NEW leavesAgain
    PROVE  \A d, e \in del(add(del(list, leaves), joins), leavesAgain) :
               d.grp = e.grp /\ d.host = e.host /\ d.port = e.port => d = e
BY DEF add, del, Is, NewEntry

-----------------------------------------------------------------------------
\* The module starts with an empty list and nobody heard.
LEMMA InitInv == Init => IInv
<1> SUFFICES ASSUME Init PROVE IInv
  OBVIOUS
<1>1. TypeOK
  <2>1. Unheard \in 0 .. Cut
    BY IgmpSnoopingAssumption DEF IgmpSnoopingAssumption, Unheard, Cut
  <2>2. heard \in [Member -> 0 .. Cut]
    BY <2>1 DEF Init
  <2>3. jiffies \in 0 .. WordSize - 1
    BY IgmpSnoopingAssumption DEF IgmpSnoopingAssumption, Init
  <2> QED
    BY <2>2, <2>3 DEF Init, TypeOK, Frames
<1>2. UniqueEntries
  BY DEF Init, UniqueEntries
<1>3. Fresh
  BY IgmpSnoopingAssumption DEF IgmpSnoopingAssumption, Init, Fresh, Unheard
<1> QED
  BY <1>1, <1>2, <1>3 DEF IInv

-----------------------------------------------------------------------------
\* Steps that leave the list, the clock and the members alone keep what is said
\* about them.
LEMMA SameListInv ==
    ASSUME UniqueEntries, Fresh,
           igmp_list' = igmp_list, jiffies' = jiffies, heard' = heard
    PROVE  UniqueEntries' /\ Fresh'
BY DEF UniqueEntries, Fresh, Is

\* Two members with one entry are one member.
LEMMA SameMember ==
    ASSUME NEW m \in Member, NEW n \in Member, NEW e, Is(e, m), Is(e, n)
    PROVE  m = n
<1>1. /\ m = [grp |-> m.grp, host |-> m.host, port |-> m.port]
      /\ n = [grp |-> n.grp, host |-> n.host, port |-> n.port]
  BY DEF Member
<1>2. m.grp = n.grp /\ m.host = n.host /\ m.port = n.port
  BY DEF Is
<1> QED
  BY <1>1, <1>2

\* Frames go to ports of the bridge.
LEMMA FrameType ==
    ASSUME TypeOK, [Next]_vars
    PROVE  frame' \in Frames
<1>1. \A s : br_flood(s) \in SUBSET Ports
  BY DEF br_flood, TypeOK
<1>2. CASE \E at \in Places, r \in Reports, nomem \in BOOLEAN :
               Report(at[2], at[1], r, nomem)
  <2>1. PICK at \in Places, r \in Reports, nomem \in BOOLEAN : Report(at[2], at[1], r, nomem)
    BY <1>2
  <2>2. at[2] \in Ports /\ r[1] \cup r[2] \cup r[3] \in SUBSET Groups
    BY IgmpSnoopingAssumption DEF IgmpSnoopingAssumption
  <2>3. frame' = [kind |-> "report", grps |-> r[1] \cup r[2] \cup r[3], from |-> at[2],
                  to |-> br_flood(at[2])]
    BY <2>1 DEF Report
  <2> QED
    BY <1>1, <2>2, <2>3 DEF Frames
<1>3. CASE \E at \in Places, g \in Groups : Leave(at[2], at[1], g)
  <2>1. PICK at \in Places, g \in Groups : Leave(at[2], at[1], g)
    BY <1>3
  <2>2. at[2] \in Ports
    BY IgmpSnoopingAssumption DEF IgmpSnoopingAssumption
  <2>3. frame' = [kind |-> "leave", grps |-> {g}, from |-> at[2],
                  to |-> LeaveTo(at[2], g, igmp_list')]
    BY <2>1 DEF Leave
  <2>4. LeaveTo(at[2], g, igmp_list') \in SUBSET Ports
    BY <1>1 DEF LeaveTo
  <2> QED
    BY <2>2, <2>3, <2>4 DEF Frames
<1>4. CASE \E s \in Ports \cup Bridges, g \in Groups : Data(s, g)
  <2>1. PICK s \in Ports \cup Bridges, g \in Groups : Data(s, g)
    BY <1>4
  <2>2. DataTo(s, g) \in SUBSET Ports
    BY <1>1 DEF DataTo, should_deliver, TypeOK
  <2>3. frame' = [kind |-> "data", grps |-> {g}, from |-> s, to |-> DataTo(s, g)]
    BY <2>1 DEF Data
  <2> QED
    BY <2>2, <2>3 DEF Frames
<1>5. CASE frame' \in {frame, NoFrame}
  BY <1>5 DEF TypeOK, Frames
<1>6. \/ frame' \in {frame, NoFrame}
      \/ \E s \in Ports \cup Bridges, g \in Groups : Data(s, g)
      \/ \E at \in Places, g \in Groups : Leave(at[2], at[1], g)
      \/ \E at \in Places, r \in Reports, nomem \in BOOLEAN :
             Report(at[2], at[1], r, nomem)
  BY DEF Next, query_timeout, set_enable, br_del_if, br_add_if, br_dev_stop, SetPorts,
         br_handle_frame_finish, br_dev_xmit, del_br, Tick, vars
<1> QED
  BY <1>2, <1>3, <1>4, <1>5, <1>6

\* The timer leaves the entries of the members that were heard in time.
LEMMA TimerInv ==
    ASSUME IInv, query_timeout, frame' \in Frames
    PROVE  IInv'
<1>1. TypeOK'
  <2>1. igmp_timer' \in (0 .. CheckTimeout) \cup {Stopped}
    BY IgmpSnoopingAssumption DEF IgmpSnoopingAssumption, query_timeout
  <2>2. igmp_list' \subseteq Entry
    BY DEF IInv, TypeOK, query_timeout
  <2> QED
    BY <2>1, <2>2 DEF IInv, TypeOK, query_timeout
<1>2. UniqueEntries'
  BY DEF IInv, UniqueEntries, query_timeout
<1>3. Fresh'
  <2> SUFFICES ASSUME NEW m \in Member, heard[m] <= QueryTimeout
               PROVE  \E e \in igmp_list' :
                         Is(e, m) /\ e.time = Plus(jiffies, QueryTimeout - heard[m])
    BY DEF Fresh, query_timeout, Is, Plus
  <2>1. PICK e \in igmp_list : Is(e, m) /\ e.time = Plus(jiffies, QueryTimeout - heard[m])
    BY DEF IInv, Fresh
  <2>2. heard[m] \in Nat
    BY IgmpSnoopingAssumption DEF IgmpSnoopingAssumption, IInv, TypeOK, Unheard, Cut
  <2>3. ~TimedOut(e)
    BY <2>1, <2>2, SparedByTimer DEF IInv
  <2> QED
    BY <2>1, <2>3 DEF query_timeout
<1> QED
  BY <1>1, <1>2, <1>3 DEF IInv

\* A report refreshes or adds the entries of those that join and takes those of
\* that host away that leave; every other member keeps its entry.
LEMMA ReportInv ==
    ASSUME NEW at \in Places, NEW r \in Reports, NEW nomem \in BOOLEAN, igmp_snooping_enable,
           IInv, Report(at[2], at[1], r, nomem), frame' \in Frames
    PROVE  IInv'
<1> DEFINE before == members(at[2], at[1], r[1])
           rest == del(igmp_list, before)
           joins == {m \in members(at[2], at[1], r[2] \ Bypass) : nomem => ListedIn(rest, m)}
           after == members(at[2], at[1], r[3])
<1>1. /\ igmp_list' = del(add(rest, joins), after)
      /\ heard' = [m \in Member |-> IF m \in after THEN Unheard
                                 ELSE IF m \in joins THEN 0
                                 ELSE IF m \in before THEN Unheard ELSE heard[m]]
      /\ igmp_timer' \in {igmp_timer, CheckTimeout}
      /\ igmp_start_timer' \in BOOLEAN
      /\ UNCHANGED <<jiffies, igmp_snooping_enable, ports>>
  BY DEF Report, Record, IInv, TypeOK
<1>2. joins \subseteq Member /\ before \subseteq Member /\ after \subseteq Member
  BY IgmpSnoopingAssumption DEF IgmpSnoopingAssumption, Member, members
<1> HIDE DEF joins, before, after
<1>3. QueryTimeout \in Nat /\ QueryTimeout < WordSize /\ Unheard \in 0 .. Cut
      /\ Cut \in Nat /\ Unheard > QueryTimeout
  BY IgmpSnoopingAssumption DEF IgmpSnoopingAssumption, Unheard, Cut
<1>4. TypeOK'
  <2>1. Plus(jiffies, QueryTimeout) \in 0 .. WordSize - 1
    BY <1>3, PlusType DEF IInv, TypeOK
  <2>2. \A m \in joins : NewEntry(m) \in Entry
    BY <1>2, <2>1 DEF NewEntry, Member, Entry
  <2>3. igmp_list' \subseteq Entry
    BY <1>1, <2>2 DEF add, del, IInv, TypeOK
  <2>4. heard' \in [Member -> 0 .. Cut]
    BY <1>1, <1>3 DEF IInv, TypeOK
  <2>5. igmp_timer' \in (0 .. CheckTimeout) \cup {Stopped}
    BY <1>1, IgmpSnoopingAssumption DEF IgmpSnoopingAssumption, IInv, TypeOK
  <2> QED
    BY <1>1, <2>3, <2>4, <2>5 DEF IInv, TypeOK
<1>5. UniqueEntries'
  <2>1. \A d, e \in igmp_list : d.grp = e.grp /\ d.host = e.host /\ d.port = e.port => d = e
    BY DEF IInv, UniqueEntries
  <2> QED
    BY <1>1, <2>1, UpdateUnique DEF UniqueEntries
<1>6. Fresh'
  <2> SUFFICES ASSUME NEW m \in Member, heard'[m] <= QueryTimeout
               PROVE  \E e \in igmp_list' :
                         Is(e, m) /\ e.time = Plus(jiffies, QueryTimeout - heard'[m])
    BY <1>1 DEF Fresh, Is, Plus
  <2>0. m \notin after
    BY <1>1, <1>3
  <2>1. CASE m \in joins
    <3>1. heard'[m] = 0
      BY <1>1, <2>0, <2>1
    <3>2. NewEntry(m) \in igmp_list' /\ Is(NewEntry(m), m)
      <4>1. Is(NewEntry(m), m)
        BY DEF NewEntry, Is
      <4>2. \A n \in after : ~Is(NewEntry(m), n)
        BY <1>2, <2>0, <4>1, SameMember
      <4>3. NewEntry(m) \in add(rest, joins)
        BY <2>1 DEF add
      <4> QED
        BY <1>1, <4>1, <4>2, <4>3 DEF del
    <3>3. NewEntry(m).time = Plus(jiffies, QueryTimeout - heard'[m])
      <4>1. QueryTimeout - heard'[m] = QueryTimeout
        BY <3>1, <1>3
      <4> QED
        BY <4>1 DEF NewEntry
    <3> QED
      BY <3>2, <3>3
  <2>2. CASE m \notin joins
    <3>1. m \notin before
      BY <1>1, <1>3, <2>0, <2>2
    <3>2. heard'[m] = heard[m]
      BY <1>1, <2>0, <2>2, <3>1
    <3>3. PICK e \in igmp_list : Is(e, m) /\ e.time = Plus(jiffies, QueryTimeout - heard[m])
      BY <3>2 DEF IInv, Fresh
    <3>4. \A n \in joins \cup before \cup after : ~Is(e, n)
      BY <1>2, <2>0, <2>2, <3>1, <3>3, SameMember
    <3>5. e \in igmp_list'
      BY <1>1, <3>3, <3>4 DEF add, del
    <3> QED
      BY <3>2, <3>3, <3>5
  <2> QED
    BY <2>1, <2>2
<1> QED
  BY <1>4, <1>5, <1>6 DEF IInv

\* A leave takes one entry away, that of the member that leaves.
LEMMA LeaveInv ==
    ASSUME NEW at \in Places, NEW g \in Groups, igmp_snooping_enable,
           IInv, Leave(at[2], at[1], g), frame' \in Frames
    PROVE  IInv'
<1> DEFINE m == [grp |-> g, host |-> at[1], port |-> at[2]]
<1>1. /\ igmp_list' = del(igmp_list, {m})
      /\ heard' = [heard EXCEPT ![m] = Unheard]
      /\ UNCHANGED <<jiffies, igmp_timer, igmp_start_timer, igmp_snooping_enable, ports>>
  BY DEF Leave
<1>2. m \in Member
  BY IgmpSnoopingAssumption DEF IgmpSnoopingAssumption, Member
<1> HIDE DEF m
<1>3. QueryTimeout \in Nat /\ Unheard \in 0 .. Cut /\ Unheard > QueryTimeout
  BY IgmpSnoopingAssumption DEF IgmpSnoopingAssumption, Unheard, Cut
<1>4. heard' = [n \in Member |-> IF n = m THEN Unheard ELSE heard[n]]
  <2>1. heard \in [Member -> 0 .. Cut] /\ heard' = [heard EXCEPT ![m] = Unheard]
    BY <1>1 DEF IInv, TypeOK
  <2> QED
    BY <2>1
<1>5. TypeOK'
  <2>1. igmp_list' \subseteq Entry
    BY <1>1 DEF del, IInv, TypeOK
  <2>2. heard' \in [Member -> 0 .. Cut]
    BY <1>4, <1>3 DEF IInv, TypeOK
  <2> QED
    BY <1>1, <2>1, <2>2 DEF IInv, TypeOK
<1>6. UniqueEntries'
  BY <1>1 DEF del, IInv, UniqueEntries
<1>7. Fresh'
  <2> SUFFICES ASSUME NEW n \in Member, heard'[n] <= QueryTimeout
               PROVE  \E e \in igmp_list' :
                         Is(e, n) /\ e.time = Plus(jiffies, QueryTimeout - heard'[n])
    BY <1>1 DEF Fresh, Is, Plus
  <2>1. n # m /\ heard'[n] = heard[n]
    BY <1>4, <1>3
  <2>2. PICK e \in igmp_list : Is(e, n) /\ e.time = Plus(jiffies, QueryTimeout - heard[n])
    BY <2>1 DEF IInv, Fresh
  <2>3. ~Is(e, m)
    BY <1>2, <2>1, <2>2, SameMember
  <2> QED
    BY <1>1, <2>1, <2>2, <2>3 DEF del
<1> QED
  BY <1>5, <1>6, <1>7 DEF IInv

\* Time passes.
LEMMA TickInv ==
    ASSUME IInv, Tick, frame' \in Frames
    PROVE  IInv'
<1>1. /\ QueryTimeout \in Nat /\ Unheard \in Nat /\ Unheard > QueryTimeout
      /\ Cut \in Nat /\ Unheard < Cut
  BY IgmpSnoopingAssumption DEF IgmpSnoopingAssumption, Unheard, Cut
<1>2. TypeOK'
  <2>1. jiffies' \in 0 .. WordSize - 1
    <3>1. 1 < WordSize
      BY IgmpSnoopingAssumption DEF IgmpSnoopingAssumption
    <3> QED
      BY <3>1, PlusType DEF IInv, TypeOK, Tick
  <2>2. heard' \in [Member -> 0 .. Cut]
    BY <1>1 DEF IInv, TypeOK, Tick
  <2>3. igmp_timer' \in (0 .. CheckTimeout) \cup {Stopped}
    BY IgmpSnoopingAssumption DEF IgmpSnoopingAssumption, IInv, TypeOK, Tick
  <2> QED
    BY <2>1, <2>2, <2>3 DEF IInv, TypeOK, Tick
<1>3. UniqueEntries'
  BY DEF IInv, UniqueEntries, Tick
<1>4. Fresh'
  <2> SUFFICES ASSUME NEW m \in Member, heard'[m] <= QueryTimeout
               PROVE  \E e \in igmp_list :
                         Is(e, m) /\ e.time = Plus(jiffies', QueryTimeout - heard'[m])
    BY DEF Fresh, Tick, Is, Plus
  <2>1. heard[m] \in Nat /\ heard'[m] = heard[m] + 1
    BY <1>1 DEF IInv, TypeOK, Tick
  <2>2. PICK e \in igmp_list : Is(e, m) /\ e.time = Plus(jiffies, QueryTimeout - heard[m])
    BY <1>1, <2>1 DEF IInv, Fresh
  <2>3. Plus(jiffies, QueryTimeout - heard[m])
           = Plus(Plus(jiffies, 1), QueryTimeout - (heard[m] + 1))
    BY <2>1, TickAge DEF IInv, TypeOK
  <2> QED
    BY <2>1, <2>2, <2>3 DEF Tick
<1> QED
  BY <1>2, <1>3, <1>4 DEF IInv

\* Data frames, the switch and the ports do not touch the list, nor do reports and
\* leaves with snooping off.
LEMMA OtherInv ==
    ASSUME IInv, frame' \in Frames, ports' \subseteq Ports, igmp_snooping_enable' \in BOOLEAN,
           UNCHANGED <<jiffies, igmp_list, igmp_timer, igmp_start_timer, heard>>
    PROVE  IInv'
<1>1. igmp_list' = igmp_list /\ jiffies' = jiffies /\ heard' = heard
  OBVIOUS
<1>2. UniqueEntries' /\ Fresh'
  BY <1>1, SameListInv DEF IInv
<1>3. TypeOK'
  BY DEF IInv, TypeOK
<1> QED
  BY <1>2, <1>3 DEF IInv

\* Which steps these are.
LEMMA OtherSteps ==
    ASSUME TypeOK,
           \/ \E s \in Ports \cup Bridges, g \in Groups : Data(s, g)
           \/ \E enable \in BOOLEAN : set_enable(enable)
           \/ \E p \in Ports : br_del_if(p) \/ br_add_if(p)
           \/ \E b \in Bridges : br_dev_stop(b)
           \/ /\ ~igmp_snooping_enable
              /\ \/ \E at \in Places, r \in Reports, nomem \in BOOLEAN :
                        Report(at[2], at[1], r, nomem)
                 \/ \E at \in Places, g \in Groups : Leave(at[2], at[1], g)
           \/ UNCHANGED vars
    PROVE  /\ UNCHANGED <<jiffies, igmp_list, igmp_timer, igmp_start_timer, heard>>
           /\ ports' \subseteq Ports /\ igmp_snooping_enable' \in BOOLEAN
BY DEF Data, set_enable, br_del_if, br_add_if, br_dev_stop, SetPorts, Report, Leave, vars, TypeOK

\* With the list, the removal of a bridge strikes off whoever was on it.
LEMMA DelBrInv ==
    ASSUME IInv, NEW b \in Bridges, del_br(b), frame' \in Frames
    PROVE  IInv'
<1>1. QueryTimeout \in Nat /\ Cut \in Nat /\ Cut > QueryTimeout
  BY IgmpSnoopingAssumption DEF IgmpSnoopingAssumption, Unheard, Cut
<1>2. heard' = [m \in Member |-> IF Listed(m) THEN Cut ELSE heard[m]] /\ igmp_list' = {}
  BY DEF del_br
<1>3. TypeOK'
  <2>1. heard' \in [Member -> 0 .. Cut]
    BY <1>1, <1>2 DEF IInv, TypeOK
  <2> QED
    BY <1>2, <2>1 DEF IInv, TypeOK, del_br
<1>4. Fresh'
  <2>1. \A m \in Member : heard[m] <= QueryTimeout => Listed(m)
    BY DEF IInv, Fresh, Listed, ListedIn
  <2>2. \A m \in Member : ~(heard'[m] <= QueryTimeout)
    BY <1>1, <1>2, <2>1
  <2> QED
    BY <2>2 DEF Fresh
<1>5. UniqueEntries'
  BY <1>2 DEF UniqueEntries
<1> QED
  BY <1>3, <1>4, <1>5 DEF IInv

\* The invariant is inductive.
LEMMA StepInv == IInv /\ [Next]_vars => IInv'
<1> SUFFICES ASSUME IInv, [Next]_vars PROVE IInv'
  OBVIOUS
<1>0. frame' \in Frames
  BY FrameType DEF IInv
<1>1. CASE query_timeout
  BY <1>0, <1>1, TimerInv
<1>2. CASE /\ igmp_snooping_enable
           /\ \E at \in Places, r \in Reports, nomem \in BOOLEAN :
                 Report(at[2], at[1], r, nomem)
  BY <1>0, <1>2, ReportInv
<1>3. CASE igmp_snooping_enable /\ \E at \in Places, g \in Groups : Leave(at[2], at[1], g)
  BY <1>0, <1>3, LeaveInv
<1>4. CASE \/ \E s \in Ports \cup Bridges, g \in Groups : Data(s, g)
           \/ \E enable \in BOOLEAN : set_enable(enable)
           \/ \E p \in Ports : br_del_if(p) \/ br_add_if(p)
           \/ \E b \in Bridges : br_dev_stop(b)
           \/ /\ ~igmp_snooping_enable
              /\ \/ \E at \in Places, r \in Reports, nomem \in BOOLEAN :
                        Report(at[2], at[1], r, nomem)
                 \/ \E at \in Places, g \in Groups : Leave(at[2], at[1], g)
           \/ UNCHANGED vars
  <2>1. /\ UNCHANGED <<jiffies, igmp_list, igmp_timer, igmp_start_timer, heard>>
        /\ ports' \subseteq Ports /\ igmp_snooping_enable' \in BOOLEAN
    BY <1>4, OtherSteps DEF IInv
  <2> QED
    BY <1>0, <2>1, OtherInv
<1>5. CASE \E b \in Bridges : del_br(b)
  BY <1>0, <1>5, DelBrInv
<1>6. CASE Tick
  BY <1>0, <1>6, TickInv
<1> QED
  BY <1>1, <1>2, <1>3, <1>4, <1>5, <1>6 DEF Next, br_handle_frame_finish, br_dev_xmit

\* So it holds throughout.
LEMMA Inductive == Spec => []IInv
BY InitInv, StepInv, PTL DEF Spec

\* The bridge's variables keep their types: jiffies and the times of the entries
\* stay within the word, the timer never waits longer than the check period, and
\* ports that are being removed are still ports.
THEOREM TypeCorrect == Spec => []TypeOK
<1>1. IInv => TypeOK
  BY DEF IInv
<1> QED
  BY <1>1, Inductive, PTL

\* br_igmp_snooping_add and br_igmp_snooping_del keep to one entry for each member.
THEOREM EntriesUnique == Spec => []UniqueEntries
<1>1. IInv => UniqueEntries
  BY DEF IInv
<1> QED
  BY <1>1, Inductive, PTL

-----------------------------------------------------------------------------
\* An entry e of member m that the timer will get in time: the timer runs before
\* the member has been silent for a check period longer than it may be, and when
\* it has been silent too long the entry's time shows it, the exception being one
\* in the last check period before the wrap-around.
InTime(e, m) ==
    \/ igmp_timer = Stopped
    \/ e.time >= WordSize - CheckTimeout
    \/ /\ heard[m] + igmp_timer <= QueryTimeout + CheckTimeout
       /\ heard[m] > QueryTimeout => e.time + (heard[m] - QueryTimeout) = jiffies

\* Beside that, the first entry starts the timer: there are none before it.
Aging ==
    /\ ~igmp_start_timer => igmp_list = {}
    /\ \A m \in Member, e \in igmp_list : Is(e, m) => InTime(e, m)

\* Nothing is listed at the start.
LEMMA AgingInit == Init => Aging
BY DEF Init, Aging

\* br_igmp_snooping_query_timeout removes every entry whose member has been
\* silent too long, so the period until its next run can begin anew.
LEMMA AgingTimer == IInv /\ Aging /\ query_timeout => Aging'
<1> SUFFICES ASSUME IInv, Aging, query_timeout PROVE Aging'
  OBVIOUS
<1>1. QueryTimeout \in Nat /\ CheckTimeout \in Nat /\ CheckTimeout < QueryTimeout
      /\ WordSize \in Nat /\ Cut \in Nat /\ Stopped \notin Nat
  BY IgmpSnoopingAssumption DEF IgmpSnoopingAssumption, Unheard, Cut
<1>2. /\ igmp_list' = {e \in igmp_list : ~TimedOut(e)} /\ igmp_timer = 0
      /\ igmp_timer' = CheckTimeout
      /\ UNCHANGED <<jiffies, igmp_start_timer, heard>>
  BY DEF query_timeout
<1>3. ASSUME NEW m \in Member, NEW e \in igmp_list', Is(e, m)
      PROVE  InTime(e, m)'
  <2>1. e \in igmp_list /\ ~TimedOut(e) /\ InTime(e, m)
    BY <1>2, <1>3 DEF Aging
  <2>2. heard[m] \in Nat /\ jiffies \in Nat
    BY <1>1 DEF IInv, TypeOK
  <2>3. e.time \in Nat
    BY <2>1, <1>1 DEF IInv, TypeOK, Entry
  <2>4. CASE e.time >= WordSize - CheckTimeout
    BY <2>4 DEF InTime
  <2>5. CASE ~(e.time >= WordSize - CheckTimeout)
    <3>1. /\ heard[m] <= QueryTimeout + CheckTimeout
          /\ heard[m] > QueryTimeout => e.time + (heard[m] - QueryTimeout) = jiffies
      BY <1>1, <1>2, <2>1, <2>2, <2>5 DEF InTime
    <3>2. heard[m] <= QueryTimeout
      BY <1>1, <2>1, <2>2, <2>3, <3>1 DEF TimedOut
    <3> QED
      BY <1>1, <1>2, <2>2, <3>2 DEF InTime
  <2> QED
    BY <2>4, <2>5
<1>4. ~igmp_start_timer' => igmp_list' = {}
  BY <1>2 DEF Aging
<1> QED
  BY <1>3, <1>4 DEF Aging, Is

\* A tick brings the timer as much closer as the members become older; the clock
\* parts from an entry's time only at the wrap-around, which exempts the entry.
LEMMA AgingTick == IInv /\ Aging /\ Tick => Aging'
<1> SUFFICES ASSUME IInv, Aging, Tick PROVE Aging'
  OBVIOUS
<1>1. QueryTimeout \in Nat /\ CheckTimeout \in Nat /\ CheckTimeout < QueryTimeout
      /\ CheckTimeout > 0
      /\ WordSize \in Nat /\ Unheard \in Nat /\ Stopped \notin Nat
      /\ Unheard = QueryTimeout + CheckTimeout + 1 /\ Cut \in Nat
  BY IgmpSnoopingAssumption DEF IgmpSnoopingAssumption, Unheard, Cut
<1>2. /\ igmp_timer # 0 /\ jiffies' = Plus(jiffies, 1)
      /\ igmp_timer' = IF igmp_timer = Stopped THEN Stopped ELSE igmp_timer - 1
      /\ heard' = [m \in Member |-> IF heard[m] < Unheard THEN heard[m] + 1 ELSE heard[m]]
      /\ UNCHANGED <<igmp_list, igmp_start_timer>>
  BY DEF Tick
<1>3. ASSUME NEW m \in Member, NEW e \in igmp_list, Is(e, m)
      PROVE  InTime(e, m)'
  <2>1. InTime(e, m)
    BY <1>3 DEF Aging
  <2>2. heard[m] \in 0 .. Cut /\ jiffies \in 0 .. WordSize - 1
    BY DEF IInv, TypeOK
  <2>3. e.time \in Nat /\ e.time < WordSize
    BY <1>1, <1>3 DEF IInv, TypeOK, Entry
  <2>4. CASE igmp_timer = Stopped \/ e.time >= WordSize - CheckTimeout
    BY <1>2, <2>4 DEF InTime
  <2>5. CASE ~(igmp_timer = Stopped \/ e.time >= WordSize - CheckTimeout)
    <3>1. /\ heard[m] + igmp_timer <= QueryTimeout + CheckTimeout
          /\ heard[m] > QueryTimeout => e.time + (heard[m] - QueryTimeout) = jiffies
      BY <2>1, <2>5 DEF InTime
    <3>2. igmp_timer \in Nat \ {0} /\ igmp_timer' = igmp_timer - 1
      BY <1>1, <1>2, <2>5 DEF IInv, TypeOK
    <3>3. heard'[m] = heard[m] + 1
      BY <1>1, <1>2, <2>2, <3>1, <3>2
    <3>4. heard'[m] + igmp_timer' <= QueryTimeout + CheckTimeout
      BY <1>1, <2>2, <3>1, <3>2, <3>3
    <3>5. heard[m] = QueryTimeout => e.time = jiffies
      <4> SUFFICES ASSUME heard[m] = QueryTimeout PROVE e.time = jiffies
        OBVIOUS
      <4>1. PICK d \in igmp_list : Is(d, m) /\ d.time = Plus(jiffies, QueryTimeout - heard[m])
        BY <1>1 DEF IInv, Fresh
      <4>2. d = e
        BY <1>3, <4>1 DEF IInv, UniqueEntries, Is
      <4> QED
        BY <1>1, <2>2, <4>1, <4>2 DEF Plus
    <3>6. heard'[m] > QueryTimeout => e.time + (heard'[m] - QueryTimeout) = jiffies + 1
      BY <1>1, <2>2, <2>3, <3>1, <3>3, <3>5
    <3>7. heard'[m] > QueryTimeout => jiffies + 1 < WordSize
      BY <1>1, <2>2, <2>3, <2>5, <3>2, <3>3, <3>4, <3>6
    <3>8. heard'[m] > QueryTimeout => e.time + (heard'[m] - QueryTimeout) = jiffies'
      BY <1>2, <3>6, <3>7 DEF Plus
    <3> QED
      BY <3>4, <3>8 DEF InTime
  <2> QED
    BY <2>4, <2>5
<1>4. ~igmp_start_timer' => igmp_list' = {}
  BY <1>2 DEF Aging
<1> QED
  BY <1>2, <1>3, <1>4 DEF Aging, Is

\* A report makes the members that join young; it starts the timer only when it
\* finds the list empty, so that no older entry waits for a later run.
LEMMA AgingReport ==
    ASSUME NEW at \in Places, NEW r \in Reports, NEW nomem \in BOOLEAN, igmp_snooping_enable,
           IInv, Aging, Report(at[2], at[1], r, nomem)
    PROVE  Aging'
<1> DEFINE before == members(at[2], at[1], r[1])
           rest == del(igmp_list, before)
           joins == {m \in members(at[2], at[1], r[2] \ Bypass) : nomem => ListedIn(rest, m)}
           after == members(at[2], at[1], r[3])
           added == \E m \in joins : ~ListedIn(rest, m)
<1>1. /\ igmp_list' = del(add(rest, joins), after)
      /\ heard' = [m \in Member |-> IF m \in after THEN Unheard
                                 ELSE IF m \in joins THEN 0
                                 ELSE IF m \in before THEN Unheard ELSE heard[m]]
      /\ IF added /\ ~igmp_start_timer
         THEN igmp_timer' = CheckTimeout /\ igmp_start_timer' = TRUE
         ELSE UNCHANGED <<igmp_timer, igmp_start_timer>>
      /\ jiffies' = jiffies
  BY DEF Report, Record
<1>2. joins \subseteq Member
  BY IgmpSnoopingAssumption DEF IgmpSnoopingAssumption, Member, members
<1> HIDE DEF joins, before, after
<1>3. QueryTimeout \in Nat /\ CheckTimeout \in Nat /\ Unheard \in Nat
      /\ WordSize \in Nat /\ Stopped \notin Nat
  BY IgmpSnoopingAssumption DEF IgmpSnoopingAssumption, Unheard
<1>4. ~igmp_start_timer' => igmp_list' = {}
  <2> SUFFICES ASSUME ~igmp_start_timer' PROVE igmp_list' = {}
    OBVIOUS
  <2>1. ~igmp_start_timer /\ ~added
    BY <1>1
  <2>2. igmp_list = {} /\ joins = {}
    BY <2>1 DEF Aging, ListedIn, del
  <2> QED
    BY <1>1, <2>2 DEF add, del
<1>5. ASSUME NEW m \in Member, NEW e \in igmp_list', Is(e, m)
      PROVE  InTime(e, m)'
  <2>1. igmp_timer' = Stopped \/ igmp_timer' \in 0 .. CheckTimeout
    BY <1>1, <1>3 DEF IInv, TypeOK
  <2>0. e \in add(rest, joins) /\ m \notin after
    BY <1>1, <1>5 DEF del
  <2>2. CASE m \in joins
    <3>1. heard'[m] = 0
      BY <1>1, <2>0, <2>2
    <3> QED
      BY <1>3, <2>1, <3>1 DEF InTime
  <2>3. CASE m \notin joins
    <3>1. e \in igmp_list /\ \A n \in before : ~Is(e, n)
      <4>1. ASSUME NEW n \in joins, e = NewEntry(n) PROVE FALSE
        <5>1. Is(e, n)
          BY <4>1 DEF NewEntry, Is
        <5> QED
          BY <1>2, <1>5, <2>3, <5>1, SameMember
      <4> QED
        BY <2>0, <4>1 DEF add, del
    <3>2. heard'[m] = heard[m]
      BY <1>1, <1>5, <2>0, <2>3, <3>1
    <3>3. igmp_timer' = igmp_timer
      BY <1>1, <3>1 DEF Aging
    <3>4. InTime(e, m)
      BY <1>5, <3>1 DEF Aging
    <3> QED
      BY <1>1, <3>2, <3>3, <3>4 DEF InTime
  <2> QED
    BY <2>2, <2>3
<1> QED
  BY <1>4, <1>5 DEF Aging, Is

\* A leave, and the removal of a bridge, only take entries away, and the latter
\* stops the timer; the other steps touch neither entries nor time.
LEMMA AgingOther ==
    ASSUME IInv, Aging,
           \/ igmp_snooping_enable /\ \E at \in Places, g \in Groups : Leave(at[2], at[1], g)
           \/ \E b \in Bridges : del_br(b)
           \/ UNCHANGED <<jiffies, igmp_list, igmp_timer, igmp_start_timer, heard>>
    PROVE  Aging'
<1>1. CASE igmp_snooping_enable /\ \E at \in Places, g \in Groups : Leave(at[2], at[1], g)
  <2>1. PICK at \in Places, g \in Groups : Leave(at[2], at[1], g)
    BY <1>1
  <2> DEFINE l == [grp |-> g, host |-> at[1], port |-> at[2]]
  <2>2. /\ igmp_list' = del(igmp_list, {l})
        /\ heard' = [heard EXCEPT ![l] = Unheard]
        /\ UNCHANGED <<jiffies, igmp_timer, igmp_start_timer>>
    BY <1>1, <2>1 DEF Leave
  <2>3. ~igmp_start_timer' => igmp_list' = {}
    BY <2>2 DEF Aging, del
  <2> HIDE DEF l
  <2>4. ASSUME NEW m \in Member, NEW e \in igmp_list', Is(e, m)
        PROVE  InTime(e, m)'
    <3>1. e \in igmp_list /\ ~Is(e, l)
      BY <2>2 DEF del
    <3>2. heard'[m] = heard[m]
      BY <2>2, <2>4, <3>1 DEF IInv, TypeOK
    <3>3. InTime(e, m)
      BY <2>4, <3>1 DEF Aging
    <3> QED
      BY <2>2, <3>2, <3>3 DEF InTime
  <2> QED
    BY <2>3, <2>4 DEF Aging, Is
<1>2. CASE \E b \in Bridges : del_br(b)
  BY <1>2 DEF del_br, Aging
<1>3. CASE UNCHANGED <<jiffies, igmp_list, igmp_timer, igmp_start_timer, heard>>
  BY <1>3 DEF Aging, InTime, Is
<1> QED
  BY <1>1, <1>2, <1>3

\* So every step keeps what is said of the ages.
LEMMA AgingStep == IInv /\ Aging /\ [Next]_vars => Aging'
<1> SUFFICES ASSUME IInv, Aging, [Next]_vars PROVE Aging'
  OBVIOUS
<1>1. CASE query_timeout
  BY <1>1, AgingTimer
<1>2. CASE Tick
  BY <1>2, AgingTick
<1>3. CASE /\ igmp_snooping_enable
           /\ \E at \in Places, r \in Reports, nomem \in BOOLEAN :
                 Report(at[2], at[1], r, nomem)
  BY <1>3, AgingReport
<1>4. CASE \/ igmp_snooping_enable /\ \E at \in Places, g \in Groups : Leave(at[2], at[1], g)
           \/ \E b \in Bridges : del_br(b)
           \/ UNCHANGED <<jiffies, igmp_list, igmp_timer, igmp_start_timer, heard>>
  BY <1>4, AgingOther
<1>5. \/ query_timeout \/ Tick
      \/ /\ igmp_snooping_enable
         /\ \/ \E at \in Places, r \in Reports, nomem \in BOOLEAN :
                   Report(at[2], at[1], r, nomem)
            \/ \E at \in Places, g \in Groups : Leave(at[2], at[1], g)
      \/ \E b \in Bridges : del_br(b)
      \/ UNCHANGED <<jiffies, igmp_list, igmp_timer, igmp_start_timer, heard>>
  BY OtherSteps DEF IInv, Next, br_handle_frame_finish, br_dev_xmit
<1> QED
  BY <1>1, <1>2, <1>3, <1>4, <1>5

\* A member that is silent for longer than the query timeout is off the list at
\* the latest one run of the timer later, unless br_igmp_snooping_clear stopped the
\* timer or the entry's time fell in the last check period before jiffies wrapped.
THEOREM SilentMembersDropped == Spec => []SilentDropped
<1>2. IInv /\ Aging => SilentDropped
  <2> SUFFICES ASSUME IInv, Aging, NEW e \in igmp_list
               PROVE  \/ heard[[grp |-> e.grp, host |-> e.host, port |-> e.port]]
                            <= QueryTimeout + CheckTimeout
                      \/ igmp_timer = Stopped
                      \/ e.time >= WordSize - CheckTimeout
    BY DEF SilentDropped
  <2> DEFINE m == [grp |-> e.grp, host |-> e.host, port |-> e.port]
  <2>1. m \in Member /\ Is(e, m)
    BY DEF IInv, TypeOK, Entry, Member, Is
  <2>2. InTime(e, m) /\ heard[m] \in Nat
    BY <2>1, IgmpSnoopingAssumption
    DEF IgmpSnoopingAssumption, Aging, IInv, TypeOK, Unheard, Cut
  <2> HIDE DEF m
  <2>3. CASE igmp_timer = Stopped \/ e.time >= WordSize - CheckTimeout
    BY <2>3
  <2>4. CASE heard[m] + igmp_timer <= QueryTimeout + CheckTimeout /\ igmp_timer # Stopped
    <3>1. igmp_timer \in Nat
      BY <2>4 DEF IInv, TypeOK
    <3>2. heard[m] <= QueryTimeout + CheckTimeout
      BY <2>2, <2>4, <3>1, IgmpSnoopingAssumption DEF IgmpSnoopingAssumption
    <3> QED
      BY <3>2 DEF m
  <2> QED
    BY <2>2, <2>3, <2>4 DEF InTime
<1> QED
  BY <1>2, AgingInit, AgingStep, Inductive, PTL DEF Spec

-----------------------------------------------------------------------------
\* Who is heard within the query timeout is on the list.
LEMMA FreshListed ==
    ASSUME Fresh, NEW m \in Member, heard[m] <= QueryTimeout
    PROVE  Listed(m)
BY DEF Fresh, Listed, ListedIn

\* Whoever is cut off was on a list that a removed bridge cleared.  The timer was
\* stopped then, and is started only for the first entry of all.
CutOff == \A m \in Member : heard[m] = Cut => igmp_timer = Stopped /\ igmp_start_timer

\* Nobody is cut off at the start.
LEMMA CutOffInit == Init => CutOff
BY IgmpSnoopingAssumption DEF IgmpSnoopingAssumption, Init, CutOff, Cut, Unheard

\* Only del_br cuts members off, and no step starts the timer after that.
LEMMA CutOffStep == IInv /\ Aging /\ CutOff /\ [Next]_vars => CutOff'
<1> SUFFICES ASSUME IInv, Aging, CutOff, [Next]_vars, NEW m \in Member, heard'[m] = Cut
             PROVE  igmp_timer' = Stopped /\ igmp_start_timer'
  BY DEF CutOff
<1>1. Unheard \in Nat /\ Cut = Unheard + 1 /\ Stopped # 0
  BY IgmpSnoopingAssumption DEF IgmpSnoopingAssumption, Unheard, Cut
<1>2. ASSUME heard[m] = Cut
      PROVE  igmp_timer = Stopped /\ igmp_start_timer
  BY <1>2 DEF CutOff
<1>3. CASE query_timeout
  BY <1>1, <1>2, <1>3 DEF query_timeout
<1>4. CASE Tick
  <2>1. heard[m] = Cut
    BY <1>1, <1>4 DEF Tick, IInv, TypeOK
  <2> QED
    BY <1>2, <1>4, <2>1 DEF Tick
<1>5. CASE /\ igmp_snooping_enable
           /\ \E at \in Places, r \in Reports, nomem \in BOOLEAN :
                 Report(at[2], at[1], r, nomem)
  <2>1. PICK at \in Places, r \in Reports, nomem \in BOOLEAN : Report(at[2], at[1], r, nomem)
    BY <1>5
  <2>2. Record(at[2], at[1], r, nomem)
    BY <1>5, <2>1 DEF Report
  <2>3. heard'[m] \in {Unheard, 0, heard[m]}
    BY <2>2 DEF Record
  <2>4. heard[m] = Cut
    BY <1>1, <2>3
  <2> QED
    BY <1>2, <2>2, <2>4 DEF Record
<1>6. CASE igmp_snooping_enable /\ \E at \in Places, g \in Groups : Leave(at[2], at[1], g)
  <2>1. PICK at \in Places, g \in Groups : Leave(at[2], at[1], g)
    BY <1>6
  <2> DEFINE l == [grp |-> g, host |-> at[1], port |-> at[2]]
  <2>2. heard' = [heard EXCEPT ![l] = Unheard] /\ UNCHANGED <<igmp_timer, igmp_start_timer>>
    BY <1>6, <2>1 DEF Leave
  <2> HIDE DEF l
  <2>3. heard[m] = Cut
    BY <1>1, <2>2 DEF IInv, TypeOK
  <2> QED
    BY <1>2, <2>2, <2>3
<1>7. CASE \E b \in Bridges : del_br(b)
  <2>1. /\ heard' = [n \in Member |-> IF Listed(n) THEN Cut ELSE heard[n]]
        /\ igmp_timer' = Stopped /\ igmp_start_timer' = igmp_start_timer
    BY <1>7 DEF del_br
  <2>2. Listed(m) => igmp_start_timer
    BY DEF Aging, Listed, ListedIn
  <2>3. ~Listed(m) => heard[m] = Cut
    BY <2>1
  <2> QED
    BY <1>2, <2>1, <2>2, <2>3
<1>8. CASE UNCHANGED <<jiffies, igmp_list, igmp_timer, igmp_start_timer, heard>>
  BY <1>2, <1>8
<1>9. \/ query_timeout \/ Tick
      \/ /\ igmp_snooping_enable
         /\ \/ \E at \in Places, r \in Reports, nomem \in BOOLEAN :
                   Report(at[2], at[1], r, nomem)
            \/ \E at \in Places, g \in Groups : Leave(at[2], at[1], g)
      \/ \E b \in Bridges : del_br(b)
      \/ UNCHANGED <<jiffies, igmp_list, igmp_timer, igmp_start_timer, heard>>
  BY OtherSteps DEF IInv, Next, br_handle_frame_finish, br_dev_xmit
<1> QED
  BY <1>3, <1>4, <1>5, <1>6, <1>7, <1>8, <1>9

-----------------------------------------------------------------------------
\* Where the frame in hand went to, in terms of the list after the step.
Delivered ==
    /\ frame.kind = "data" =>
          \E g \in Groups : frame.grps = {g} /\ frame.to = DataTo(frame.from, g)
    /\ igmp_snooping_enable /\ frame.kind = "leave" /\ frame.to # {} =>
          \A e \in igmp_list : e.grp \notin frame.grps

\* No frame has been handled at the start.
LEMMA DeliveredInit == Init => Delivered
BY DEF Init, Delivered, NoFrame

\* Data and Leave deliver by the list; no other step handles data or a leave.
LEMMA DeliveredStep == Delivered /\ [Next]_vars => Delivered'
<1> SUFFICES ASSUME Delivered, [Next]_vars PROVE Delivered'
  OBVIOUS
<1>1. CASE \E s \in Ports \cup Bridges, g \in Groups : Data(s, g)
  <2>1. PICK s \in Ports \cup Bridges, g \in Groups : Data(s, g)
    BY <1>1
  <2>2. /\ frame' = [kind |-> "data", grps |-> {g}, from |-> s, to |-> DataTo(s, g)]
        /\ UNCHANGED <<igmp_list, igmp_snooping_enable, ports>>
    BY <2>1 DEF Data
  <2>3. DataTo(s, g)' = DataTo(s, g)
    BY <2>2 DEF DataTo, Snooped, br_flood, should_deliver, should_eth_deliver, Bridge, nonas
  <2>4. /\ frame'.kind = "data" /\ frame'.grps = {g} /\ frame'.from = s
        /\ frame'.to = DataTo(s, g)'
    BY <2>2, <2>3
  <2>5. DataTo(frame.from, g)' = DataTo(s, g)'
    BY <2>4 DEF DataTo, br_flood, should_deliver, should_eth_deliver, Bridge, nonas
  <2> QED
    BY <2>4, <2>5 DEF Delivered
<1>2. CASE \E at \in Places, g \in Groups : Leave(at[2], at[1], g)
  <2>1. PICK at \in Places, g \in Groups : Leave(at[2], at[1], g)
    BY <1>2
  <2>2. /\ frame' = [kind |-> "leave", grps |-> {g}, from |-> at[2],
                     to |-> LeaveTo(at[2], g, igmp_list')]
        /\ igmp_snooping_enable' = igmp_snooping_enable
    BY <2>1 DEF Leave
  <2>3. /\ frame'.kind = "leave" /\ frame'.grps = {g}
        /\ frame'.to = LeaveTo(at[2], g, igmp_list')
    BY <2>2
  <2>4. igmp_snooping_enable /\ frame'.to # {} => \A e \in igmp_list' : e.grp # g
    BY <2>3 DEF LeaveTo
  <2> QED
    BY <2>2, <2>3, <2>4 DEF Delivered
<1>3. CASE UNCHANGED vars
  <2>1. /\ frame' = frame /\ igmp_list' = igmp_list /\ ports' = ports
        /\ igmp_snooping_enable' = igmp_snooping_enable
    BY <1>3 DEF vars
  <2>2. \A g \in Groups : DataTo(frame.from, g)' = DataTo(frame.from, g)
    BY <2>1 DEF DataTo, Snooped, br_flood, should_deliver, should_eth_deliver, Bridge, nonas
  <2> QED
    BY <2>1, <2>2 DEF Delivered
<1>4. CASE frame'.kind \notin {"data", "leave"}
  BY <1>4 DEF Delivered
<1>5. \/ frame' = NoFrame
      \/ \E s \in Ports \cup Bridges, g \in Groups : Data(s, g)
      \/ \E at \in Places, g \in Groups : Leave(at[2], at[1], g)
      \/ \E at \in Places, r \in Reports, nomem \in BOOLEAN : Report(at[2], at[1], r, nomem)
      \/ UNCHANGED vars
  BY DEF Next, query_timeout, set_enable, br_del_if, br_add_if, br_dev_stop, SetPorts,
         br_handle_frame_finish, br_dev_xmit, del_br, Tick
<1>6. frame' = NoFrame => frame'.kind \notin {"data", "leave"}
  BY DEF NoFrame
<1>7. (\E at \in Places, r \in Reports, nomem \in BOOLEAN : Report(at[2], at[1], r, nomem))
         => frame'.kind \notin {"data", "leave"}
  BY DEF Report
<1> QED
  BY <1>1, <1>2, <1>3, <1>4, <1>5, <1>6, <1>7

\* A member that reported within the query timeout and did not leave is served:
\* br_igmp_snooping_query_timeout has not removed it, wherever jiffies wrapped, and every
\* frame of its group from its bridge that br_forward or br_flood would let out on its port
\* goes out there.  Members are cut off by del_br alone.
THEOREM MembersServed == Spec => []MemberServed
<1>1. IInv /\ Delivered /\ CutOff => MemberServed
  <2> SUFFICES ASSUME IInv, Delivered, CutOff, NEW m \in Member
               PROVE  /\ heard[m] <= QueryTimeout =>
                           /\ Listed(m)
                           /\ (/\ frame.kind = "data" /\ m.grp \in frame.grps
                               /\ Bridge(frame.from) = BridgeOf[m.port]
                               /\ should_deliver(frame.from, m.port)
                               /\ \/ Snooped(m.grp)
                                  \/ /\ should_eth_deliver(frame.from, m.port)
                                     /\ nonas(frame.from, m.port))
                              => m.port \in frame.to
                      /\ heard[m] = Cut => igmp_timer = Stopped
    BY DEF MemberServed
  <2>1. heard[m] <= QueryTimeout => Listed(m)
    BY FreshListed DEF IInv
  <2>2. ASSUME Listed(m), frame.kind = "data", m.grp \in frame.grps,
               Bridge(frame.from) = BridgeOf[m.port], should_deliver(frame.from, m.port),
               \/ Snooped(m.grp)
               \/ should_eth_deliver(frame.from, m.port) /\ nonas(frame.from, m.port)
        PROVE  m.port \in frame.to
    <3>1. frame.to = DataTo(frame.from, m.grp)
      BY <2>2 DEF Delivered
    <3>2. m.port \in {e.port : e \in {d \in igmp_list : d.grp = m.grp}}
      BY <2>2 DEF Listed, ListedIn, Is
    <3>3. CASE Snooped(m.grp)
      BY <2>2, <3>1, <3>2, <3>3 DEF DataTo
    <3>4. CASE ~Snooped(m.grp)
      <4>1. m.port \in br_flood(frame.from)
        BY <2>2, <3>4 DEF br_flood, should_deliver
      <4> QED
        BY <2>2, <3>1, <3>4, <4>1 DEF DataTo
    <3> QED
      BY <3>3, <3>4
  <2>3. heard[m] = Cut => igmp_timer = Stopped
    BY DEF CutOff
  <2> QED
    BY <2>1, <2>2, <2>3
<1> QED
  BY <1>1, Inductive, AgingInit, AgingStep, CutOffInit, CutOffStep, DeliveredInit,
     DeliveredStep, PTL DEF Spec

\* With snooping on, the router upstream sees a version 2 leave only if no member of the
\* group is left that reported within the query timeout.
THEOREM LeavesPassedOnLast == Spec => []LeavePassedOnLast
<1>1. IInv /\ Delivered => LeavePassedOnLast
  <2> SUFFICES ASSUME IInv, Delivered, igmp_snooping_enable, frame.kind = "leave",
                      frame.to # {}, NEW m \in Member, m.grp \in frame.grps
               PROVE  heard[m] > QueryTimeout
    BY DEF LeavePassedOnLast
  <2>1. ~Listed(m)
    BY DEF Delivered, Listed, ListedIn, Is
  <2>2. ~(heard[m] <= QueryTimeout)
    BY <2>1, FreshListed DEF IInv
  <2>3. heard[m] \in Nat /\ QueryTimeout \in Nat
    BY IgmpSnoopingAssumption DEF IgmpSnoopingAssumption, IInv, TypeOK, Unheard, Cut
  <2> QED
    BY <2>2, <2>3
<1> QED
  BY <1>1, Inductive, DeliveredInit, DeliveredStep, PTL DEF Spec
=============================================================================
