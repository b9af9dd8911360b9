---------------------------- MODULE PppLinkProofs -----------------------------
(***************************************************************************)
(* Proofs about two LCP automata on a link (PppLink), for every option,    *)
(* counter, flag and bound: the types, that a side which waits for an      *)
(* answer has a callout pending, that the upper layers are told that the   *)
(* link is up in OPENED only, and that two sides that are up agree on the  *)
(* options.                                                                *)
(*                                                                         *)
(* fsm.c is a set of operators on the automaton's record.  There is one    *)
(* lemma per operator: it takes a sound automaton to a sound one.  A       *)
(* second one says what it does to the request of its side.                *)
(***************************************************************************)
EXTENDS PppLink, TLAPS, SequenceTheorems

\* A well-typed automaton that waits for no packet alone, whose upper layers are up in
\* OPENED only, and that sends echo requests only while they are.
Sound(f) ==
    /\ f \in Fsm
    /\ f.state \in Negotiating \cup Terminating => f.callouts > 0
    /\ f.up => f.state = "OPENED"
    /\ f.echo => f.up

\* Where an operator runs (its argument e).
Env == [me : Side, busy : BOOLEAN]

\* g has the fields of f on which Sound depends, and its counters.
Alike(f, g) ==
    /\ g.state = f.state /\ g.callouts = f.callouts /\ g.up = f.up /\ g.echo = f.echo
    /\ g.retransmits = f.retransmits /\ g.nakloops = f.nakloops /\ g.pending = f.pending

\* The same, the callouts apart.
AlikeButTimer(f, g) ==
    /\ g.state = f.state /\ g.up = f.up /\ g.echo = f.echo
    /\ g.retransmits = f.retransmits /\ g.nakloops = f.nakloops /\ g.pending = f.pending

\* The constants of the automaton are natural numbers, most of them positive.
LEMMA Counters ==
    /\ ConfReqs \in Nat \ {0} /\ MaxConfReqs \in Nat \ {0}
    /\ MaxTermReqs \in Nat \ {0} /\ MaxNakLoops \in Nat
    /\ EchoFails \in Nat
    /\ IdSize \in Nat \ {0} /\ MaxCallouts \in Nat \ {0}
BY PppAssumption

-----------------------------------------------------------------------------
(***************************************************************************)
(* One assignment to one field of the record.                              *)
(***************************************************************************)
\* f->state = s
LEMMA SetState ==
  ASSUME NEW f \in Fsm, NEW s \in State
  PROVE  /\ Enter(f, s) \in Fsm
         /\ Enter(f, s).state = s
         /\ Enter(f, s).callouts = f.callouts
         /\ Enter(f, s).up = f.up /\ Enter(f, s).echo = f.echo
         /\ Enter(f, s).retransmits = f.retransmits
         /\ Enter(f, s).nakloops = f.nakloops /\ Enter(f, s).pending = f.pending
BY DEF Enter, Fsm

\* The list of callouts.
LEMMA SetCallouts ==
  ASSUME NEW f \in Fsm, NEW v \in 0 .. MaxCallouts
  PROVE  /\ [f EXCEPT !.callouts = v] \in Fsm
         /\ [f EXCEPT !.callouts = v].callouts = v
         /\ AlikeButTimer(f, [f EXCEPT !.callouts = v])
BY DEF Fsm, AlikeButTimer

\* f->retransmits
LEMMA SetRetransmits ==
  ASSUME NEW f \in Fsm, NEW v \in 0 .. (ConfReqs + MaxConfReqs + MaxTermReqs)
  PROVE  /\ [f EXCEPT !.retransmits = v] \in Fsm
         /\ [f EXCEPT !.retransmits = v].retransmits = v
         /\ [f EXCEPT !.retransmits = v].state = f.state
         /\ [f EXCEPT !.retransmits = v].callouts = f.callouts
         /\ [f EXCEPT !.retransmits = v].up = f.up
         /\ [f EXCEPT !.retransmits = v].echo = f.echo
         /\ [f EXCEPT !.retransmits = v].nakloops = f.nakloops
         /\ [f EXCEPT !.retransmits = v].pending = f.pending
BY DEF Fsm

\* f->nakloops
LEMMA SetNakloops ==
  ASSUME NEW f \in Fsm, NEW v \in 0 .. MaxNakLoops
  PROVE  /\ [f EXCEPT !.nakloops = v] \in Fsm
         /\ [f EXCEPT !.nakloops = v].state = f.state
         /\ [f EXCEPT !.nakloops = v].callouts = f.callouts
         /\ [f EXCEPT !.nakloops = v].up = f.up
         /\ [f EXCEPT !.nakloops = v].echo = f.echo
         /\ [f EXCEPT !.nakloops = v].retransmits = f.retransmits
         /\ [f EXCEPT !.nakloops = v].pending = f.pending
BY DEF Fsm

\* lcp_echos_pending
LEMMA SetPending ==
  ASSUME NEW f \in Fsm, NEW v \in 0 .. EchoFails
  PROVE  /\ [f EXCEPT !.pending = v] \in Fsm
         /\ [f EXCEPT !.pending = v].pending = v
         /\ [f EXCEPT !.pending = v].state = f.state
         /\ [f EXCEPT !.pending = v].callouts = f.callouts
         /\ [f EXCEPT !.pending = v].up = f.up
         /\ [f EXCEPT !.pending = v].echo = f.echo
BY DEF Fsm

\* f->seen_ack
LEMMA SetSeenAck ==
  ASSUME NEW f \in Fsm, NEW v \in BOOLEAN
  PROVE  [f EXCEPT !.seen_ack = v] \in Fsm /\ Alike(f, [f EXCEPT !.seen_ack = v])
BY DEF Fsm, Alike

\* The option this side asks for.
LEMMA SetGot ==
  ASSUME NEW f \in Fsm, NEW v \in Opt \cup {NoOpt}
  PROVE  [f EXCEPT !.got = v] \in Fsm /\ Alike(f, [f EXCEPT !.got = v])
BY DEF Fsm, Alike

\* The option this side has acknowledged.
LEMMA SetHis ==
  ASSUME NEW f \in Fsm, NEW v \in Opt \cup {NoOpt}
  PROVE  [f EXCEPT !.his = v] \in Fsm /\ Alike(f, [f EXCEPT !.his = v])
BY DEF Fsm, Alike

\* The echo callout.
LEMMA SetEcho ==
  ASSUME NEW f \in Fsm, NEW v \in BOOLEAN
  PROVE  /\ [f EXCEPT !.echo = v] \in Fsm
         /\ [f EXCEPT !.echo = v].echo = v
         /\ [f EXCEPT !.echo = v].state = f.state
         /\ [f EXCEPT !.echo = v].callouts = f.callouts
         /\ [f EXCEPT !.echo = v].up = f.up
         /\ [f EXCEPT !.echo = v].pending = f.pending
BY DEF Fsm

-----------------------------------------------------------------------------
(***************************************************************************)
(* Callouts, ids and packets.                                              *)
(***************************************************************************)
\* TIMEOUT leaves a callout pending.
LEMMA TimeoutOf ==
  ASSUME NEW f \in Fsm
  PROVE  timeout(f) \in Fsm /\ timeout(f).callouts > 0 /\ AlikeButTimer(f, timeout(f))
<1> DEFINE v == IF f.callouts < MaxCallouts THEN f.callouts + 1 ELSE f.callouts
<1>1. f.callouts \in 0 .. MaxCallouts
  BY DEF Fsm
<1>2. v \in 0 .. MaxCallouts /\ v > 0
  BY <1>1, Counters
<1>3. timeout(f) = [f EXCEPT !.callouts = v]
  BY DEF timeout
<1> HIDE DEF v
<1> QED
  BY <1>2, <1>3, SetCallouts

\* UNTIMEOUT changes the callouts only.
LEMMA UntimeoutOf ==
  ASSUME NEW f \in Fsm
  PROVE  untimeout(f) \in Fsm /\ AlikeButTimer(f, untimeout(f))
<1> DEFINE v == IF f.callouts > 0 THEN f.callouts - 1 ELSE 0
<1>1. f.callouts \in 0 .. MaxCallouts
  BY DEF Fsm
<1>2. v \in 0 .. MaxCallouts
  BY <1>1, Counters
<1>3. untimeout(f) = [f EXCEPT !.callouts = v]
  BY DEF untimeout
<1> HIDE DEF v
<1> QED
  BY <1>2, <1>3, SetCallouts

\* The id of a new request stays within a byte.
LEMMA NewReqidOf ==
  ASSUME NEW f \in Fsm
  PROVE  NewReqid(f) \in Fsm /\ Alike(f, NewReqid(f))
<1>1. NextId(f) \in 0 .. IdSize - 1
  BY Counters DEF NextId, Fsm
<1>2. ASSUME NEW i \in 0 .. IdSize - 1
      PROVE  /\ [f EXCEPT !.id = i, !.reqid = i] \in Fsm
             /\ Alike(f, [f EXCEPT !.id = i, !.reqid = i])
  BY DEF Fsm, Alike
<1> QED
  BY <1>1, <1>2 DEF NewReqid

\* Sending a packet changes nothing else.
LEMMA SdataOf ==
  ASSUME NEW f \in Fsm, NEW c \in Code, NEW i \in 0 .. IdSize - 1,
         NEW o \in Opt \cup {NoOpt}
  PROVE  fsm_sdata(f, c, i, o) \in Fsm /\ Alike(f, fsm_sdata(f, c, i, o))
<1> DEFINE s == Append(f.out, [code |-> c, id |-> i, opt |-> o])
<1>1. s \in Seq(Packet)
  BY DEF Fsm, Packet
<1>2. fsm_sdata(f, c, i, o) = [f EXCEPT !.out = s]
  BY DEF fsm_sdata
<1> HIDE DEF s
<1> QED
  BY <1>1, <1>2 DEF Fsm, Alike

\* The states by name.
LEMMA StateNames ==
    /\ {"INITIAL", "STARTING", "CLOSED", "STOPPED", "OPENED", "CLOSING", "STOPPING",
        "REQSENT", "ACKRCVD", "ACKSENT"} = State
    /\ Negotiating = {"REQSENT", "ACKRCVD", "ACKSENT"}
    /\ Terminating = {"CLOSING", "STOPPING"}
BY DEF State, Negotiating, Terminating

\* A new state other than OPENED, entered with the upper layers down.
LEMMA EnterSound ==
  ASSUME NEW f \in Fsm, NEW s \in State, ~f.up, ~f.echo,
         s \in Negotiating \cup Terminating => f.callouts > 0
  PROVE  Sound(Enter(f, s)) /\ Enter(f, s).state = s
BY SetState DEF Sound

\* Outside OPENED the upper layers are down.
LEMMA SoundDown ==
  ASSUME NEW f, Sound(f), f.state # "OPENED"
  PROVE  f \in Fsm /\ ~f.up /\ ~f.echo
BY DEF Sound

-----------------------------------------------------------------------------
(***************************************************************************)
(* Terminate-Request and the echo messages.                                *)
(***************************************************************************)
\* A Terminate-Request leaves a callout pending.
LEMMA SendTermreqOf ==
  ASSUME NEW f \in Fsm, f.retransmits > 0
  PROVE  /\ SendTermreq(f) \in Fsm
         /\ SendTermreq(f).callouts > 0
         /\ SendTermreq(f).state = f.state
         /\ SendTermreq(f).up = f.up /\ SendTermreq(f).echo = f.echo
<1> DEFINE g == NewReqid(f)
           n == g.retransmits - 1
           h == [g EXCEPT !.retransmits = n]
           k == fsm_sdata(h, "TERMREQ", g.reqid, NoOpt)
<1>1. g \in Fsm /\ Alike(f, g)
  BY NewReqidOf
<1>2. n \in 0 .. (ConfReqs + MaxConfReqs + MaxTermReqs) /\ g.reqid \in 0 .. IdSize - 1
  BY <1>1, Counters DEF Alike, Fsm
<1>3. SendTermreq(f) = timeout(k)
  BY DEF SendTermreq
<1> HIDE DEF g, n
<1>4. h \in Fsm /\ h.state = f.state /\ h.up = f.up /\ h.echo = f.echo
  BY <1>1, <1>2, SetRetransmits DEF Alike
<1> HIDE DEF h
<1>5. k \in Fsm /\ Alike(h, k)
  BY <1>2, <1>4, SdataOf DEF Code
<1> HIDE DEF k
<1> QED
  BY <1>3, <1>4, <1>5, TimeoutOf DEF Alike, AlikeButTimer

\* lcp_down tells the upper layers and stops the echo requests.
LEMMA DownOf ==
  ASSUME NEW f \in Fsm
  PROVE  /\ lcp_down(f) \in Fsm
         /\ ~lcp_down(f).up /\ ~lcp_down(f).echo
         /\ lcp_down(f).state = f.state /\ lcp_down(f).callouts = f.callouts
<1>1. lcp_echo_lowerdown(f) \in Fsm
  BY SetEcho DEF lcp_echo_lowerdown
<1>2. ~lcp_echo_lowerdown(f).echo /\ lcp_echo_lowerdown(f).state = f.state
      /\ lcp_echo_lowerdown(f).callouts = f.callouts
  BY SetEcho DEF lcp_echo_lowerdown
<1> QED
  BY <1>1, <1>2 DEF lcp_down, Fsm

\* Closing a sound automaton.
LEMMA CloseSound ==
  ASSUME NEW f, Sound(f)
  PROVE  Sound(fsm_close(f)) /\ fsm_close(f).state # "OPENED"
<1>1. CASE f.state \in Negotiating \cup {"OPENED"}
  <2> DEFINE g == IF f.state = "OPENED" THEN lcp_down(f) ELSE untimeout(f)
             h == [g EXCEPT !.retransmits = MaxTermReqs]
             k == SendTermreq(h)
  <2>1. g \in Fsm /\ ~g.up /\ ~g.echo
    BY DownOf, UntimeoutOf, <1>1 DEF Sound, AlikeButTimer, Fsm
  <2>2. fsm_close(f) = Enter(k, "CLOSING")
    BY <1>1 DEF fsm_close, Negotiating
  <2> HIDE DEF g
  <2>3. h \in Fsm /\ h.retransmits > 0 /\ ~h.up /\ ~h.echo
    BY <2>1, Counters, SetRetransmits
  <2> HIDE DEF h
  <2>4. k \in Fsm /\ k.callouts > 0 /\ ~k.up /\ ~k.echo
    BY <2>3, SendTermreqOf
  <2> HIDE DEF k
  <2>5. "CLOSING" \in State
    BY DEF State, Terminating
  <2> QED
    BY <2>2, <2>4, <2>5, SetState DEF Sound
<1>2. CASE f.state = "STARTING"
  <2>1. fsm_close(f) = Enter(f, "INITIAL")
    BY <1>2 DEF fsm_close, Negotiating
  <2> QED
    BY <1>2, <2>1, SoundDown, EnterSound, StateNames
<1>3. CASE f.state = "STOPPED"
  <2>1. fsm_close(f) = Enter(f, "CLOSED")
    BY <1>3 DEF fsm_close, Negotiating
  <2> QED
    BY <1>3, <2>1, SoundDown, EnterSound, StateNames
<1>4. CASE f.state = "STOPPING"
  <2>1. fsm_close(f) = Enter(f, "CLOSING")
    BY <1>4 DEF fsm_close, Negotiating
  <2>2. f.callouts > 0
    BY <1>4, StateNames DEF Sound
  <2> QED
    BY <1>4, <2>1, <2>2, SoundDown, EnterSound, StateNames
<1>5. CASE f.state \notin Negotiating \cup {"OPENED", "STARTING", "STOPPED", "STOPPING"}
  <2>1. fsm_close(f) = f
    BY <1>5 DEF fsm_close
  <2> QED
    BY <1>5, <2>1
<1> QED
  BY <1>1, <1>2, <1>3, <1>4, <1>5

\* An echo request, or the end of a link whose peer does not answer them.
LEMMA EchoRequestSound ==
  ASSUME NEW f, Sound(f)
  PROVE  /\ Sound(LcpSendEchoRequest(f))
         /\ LcpSendEchoRequest(f).state = "OPENED" => LcpSendEchoRequest(f).up = f.up
<1> DEFINE c == IF f.state = "OPENED" THEN lcp_close(f) ELSE f
           g == IF EchoFails # 0 /\ f.pending >= EchoFails
                THEN [c EXCEPT !.pending = 0] ELSE f
           n == IF EchoFails = 0 THEN 0 ELSE g.pending + 1
           h == [g EXCEPT !.pending = n]
<1>1. Sound(c) /\ c.state # "OPENED"
  BY CloseSound DEF lcp_close
<1>2. LcpSendEchoRequest(f) = IF g.state = "OPENED" THEN fsm_sdata(h, "ECHOREQ", 0, NoOpt)
                              ELSE g
  BY DEF LcpSendEchoRequest
<1> HIDE DEF c
<1>3. 0 \in 0 .. EchoFails /\ f.pending \in 0 .. EchoFails
  BY Counters DEF Sound, Fsm
<1>4. [c EXCEPT !.pending = 0] \in Fsm /\ [c EXCEPT !.pending = 0].pending = 0
  BY <1>1 , <1>3, SetPending DEF Sound
<1>5. Sound([c EXCEPT !.pending = 0]) /\ [c EXCEPT !.pending = 0].state # "OPENED"
  BY <1>1, <1>3, <1>4, SetPending DEF Sound
<1>6. Sound(g) /\ (g.state = "OPENED" => g.up = f.up)
  BY <1>5
<1>7. n \in 0 .. EchoFails
  BY <1>3, <1>4, Counters
<1> HIDE DEF g, n
<1>8. Sound(h) /\ h.up = g.up
  BY <1>6, <1>7, SetPending DEF Sound
<1> HIDE DEF h
<1>9. fsm_sdata(h, "ECHOREQ", 0, NoOpt) \in Fsm /\ Alike(h, fsm_sdata(h, "ECHOREQ", 0, NoOpt))
  <2>1. "ECHOREQ" \in Code /\ 0 \in 0 .. IdSize - 1
    BY Counters DEF Code
  <2> QED
    BY <1>8, <2>1, SdataOf DEF Sound
<1> QED
  BY <1>2, <1>6, <1>8, <1>9 DEF Sound, Alike

\* The check that starts the next wait for an echo: the upper layers are up in OPENED.
LEMMA EchoCheckSound ==
  ASSUME NEW e \in Env, NEW f, Sound(f), f.up
  PROVE  Sound(LcpEchoCheck(e, f))
<1> DEFINE g == IF e.busy THEN [f EXCEPT !.pending = 0] ELSE LcpSendEchoRequest(f)
<1>1. Sound([f EXCEPT !.pending = 0])
  BY Counters, SetPending DEF Sound
<1>2. Sound(g) /\ (g.state = "OPENED" => g.up)
  BY <1>1, EchoRequestSound, Counters, SetPending DEF Sound
<1>3. LcpEchoCheck(e, f) = IF g.state = "OPENED" THEN [g EXCEPT !.echo = TRUE] ELSE g
  BY DEF LcpEchoCheck
<1> HIDE DEF g
<1>4. g.state = "OPENED" => Sound([g EXCEPT !.echo = TRUE])
  BY <1>2, SetEcho DEF Sound
<1> QED
  BY <1>2, <1>3, <1>4

\* The echo callout fires.
LEMMA EchoTimeoutSound ==
  ASSUME NEW e \in Env, NEW f, Sound(f), f.echo
  PROVE  Sound(LcpEchoTimeout(e, f))
<1>1. Sound([f EXCEPT !.echo = FALSE]) /\ [f EXCEPT !.echo = FALSE].up
  BY SetEcho DEF Sound
<1> QED
  BY <1>1, EchoCheckSound DEF LcpEchoTimeout

\* The link is up: the state is OPENED already.
LEMMA UpSound ==
  ASSUME NEW e \in Env, NEW f \in Fsm, f.state = "OPENED"
  PROVE  Sound(lcp_up(e, f))
<1> DEFINE g == [f EXCEPT !.up = TRUE, !.pending = 0, !.echo = FALSE]
<1>1. 0 \in 0 .. EchoFails
  BY Counters
<1>2. g \in Fsm /\ g.up /\ ~g.echo /\ g.state = "OPENED"
  BY <1>1 DEF Fsm
<1>3. Sound(g)
  BY <1>2, StateNames DEF Sound
<1>4. lcp_up(e, f) = LcpEchoCheck(e, g)
  BY DEF lcp_up
<1> HIDE DEF g
<1> QED
  BY <1>2, <1>3, <1>4, EchoCheckSound

\* Echo messages that arrive.
LEMMA ExtcodeSound ==
  ASSUME NEW f, Sound(f), NEW pkt \in Packet
  PROVE  Sound(lcp_extcode(f, pkt))
<1>1. Sound([f EXCEPT !.pending = 0])
  BY Counters, SetPending DEF Sound
<1>2. Sound(fsm_sdata(f, "ECHOREP", pkt.id, NoOpt))
  <2>1. "ECHOREP" \in Code /\ pkt.id \in 0 .. IdSize - 1
    BY DEF Code, Packet
  <2>2. /\ fsm_sdata(f, "ECHOREP", pkt.id, NoOpt) \in Fsm
        /\ Alike(f, fsm_sdata(f, "ECHOREP", pkt.id, NoOpt))
    BY <2>1, SdataOf DEF Sound
  <2> QED
    BY <2>2 DEF Sound, Alike
<1> QED
  BY <1>1, <1>2 DEF lcp_extcode

-----------------------------------------------------------------------------
(***************************************************************************)
(* The automaton.                                                          *)
(***************************************************************************)
\* A request goes out and a callout is pending.
LEMMA SconfreqOf ==
  ASSUME NEW e \in Env, NEW f \in Fsm, NEW r \in BOOLEAN, r => f.retransmits > 0
  PROVE  /\ fsm_sconfreq(e, f, r) \in Fsm
         /\ fsm_sconfreq(e, f, r).callouts > 0
         /\ fsm_sconfreq(e, f, r).state = f.state
         /\ fsm_sconfreq(e, f, r).up = f.up /\ fsm_sconfreq(e, f, r).echo = f.echo
<1> DEFINE ci == lcp_resetci(e, f)
           reset == IF f.state \in Negotiating THEN f ELSE [ci EXCEPT !.nakloops = 0]
           new == NewReqid(reset)
           count == IF ~r THEN [new EXCEPT !.retransmits = ConfReqs]
                    ELSE IF reset.seen_ack THEN [reset EXCEPT !.retransmits = 1] ELSE reset
           seen == [count EXCEPT !.seen_ack = FALSE]
           sent == fsm_sdata(seen, "CONFREQ", count.reqid, count.got)
           n == sent.retransmits - 1
           last == [sent EXCEPT !.retransmits = n]
<1>1. fsm_sconfreq(e, f, r) = timeout(last)
  BY DEF fsm_sconfreq
<1>2. ci \in Fsm /\ Alike(f, ci)
  <2>1. Wanted[e.me] \in Opt \cup {NoOpt}
    BY LinkAssumption DEF Env, Side
  <2> QED
    BY <2>1, SetGot DEF lcp_resetci
<1> HIDE DEF ci
<1>3. /\ reset \in Fsm
      /\ reset.state = f.state /\ reset.up = f.up /\ reset.echo = f.echo
      /\ reset.retransmits = f.retransmits
  BY <1>2, Counters, SetNakloops DEF Alike
<1> HIDE DEF reset
<1>4. new \in Fsm /\ Alike(reset, new)
  BY <1>3, NewReqidOf
<1> HIDE DEF new
<1>5. /\ ConfReqs \in 0 .. (ConfReqs + MaxConfReqs + MaxTermReqs)
      /\ 1 \in 0 .. (ConfReqs + MaxConfReqs + MaxTermReqs)
      /\ ConfReqs > 0
  BY Counters
<1>6. /\ count \in Fsm
      /\ count.state = f.state /\ count.up = f.up /\ count.echo = f.echo
      /\ count.retransmits > 0
  <2>1. CASE ~r
    BY <2>1, <1>3, <1>4, <1>5, SetRetransmits DEF Alike
  <2>2. CASE r /\ reset.seen_ack
    BY <2>2, <1>3, <1>5, SetRetransmits
  <2>3. CASE r /\ ~reset.seen_ack
    BY <2>3, <1>3
  <2> QED
    BY <2>1, <2>2, <2>3
<1> HIDE DEF count
<1>7. seen \in Fsm /\ Alike(count, seen)
  BY <1>6, SetSeenAck
<1> HIDE DEF seen
<1>8. sent \in Fsm /\ Alike(seen, sent)
  <2>1. "CONFREQ" \in Code /\ count.reqid \in 0 .. IdSize - 1 /\ count.got \in Opt \cup {NoOpt}
    BY <1>6 DEF Code, Fsm
  <2> QED
    BY <1>7, <2>1, SdataOf
<1> HIDE DEF sent
<1>9. n \in 0 .. (ConfReqs + MaxConfReqs + MaxTermReqs)
  <2>1. sent.retransmits > 0
    BY <1>6, <1>7, <1>8 DEF Alike
  <2>2. sent.retransmits \in 0 .. (ConfReqs + MaxConfReqs + MaxTermReqs)
    BY <1>8 DEF Fsm
  <2> QED
    BY <2>1, <2>2, Counters
<1> HIDE DEF n
<1>10. last \in Fsm /\ last.state = f.state /\ last.up = f.up /\ last.echo = f.echo
  BY <1>6, <1>7, <1>8, <1>9, SetRetransmits DEF Alike
<1> HIDE DEF last
<1> QED
  BY <1>1, <1>10, TimeoutOf DEF AlikeButTimer

\* A side that starts over from a state in which the upper layers are down.
LEMMA BeginSound ==
  ASSUME NEW e \in Env, NEW f \in Fsm, ~f.up, ~f.echo
  PROVE  Sound(Begin(e, f))
<1>1. Sound(Enter(f, "STOPPED"))
  BY EnterSound, StateNames
<1>2. Sound(Enter(fsm_sconfreq(e, f, FALSE), "REQSENT"))
  BY SconfreqOf, EnterSound, StateNames
<1> QED
  BY <1>1, <1>2 DEF Begin

\* The lower layer comes up.
LEMMA LowerupSound ==
  ASSUME NEW e \in Env, NEW f, Sound(f)
  PROVE  Sound(fsm_lowerup(e, f))
<1>1. CASE f.state = "INITIAL"
  <2>1. fsm_lowerup(e, f) = Enter(f, "CLOSED")
    BY <1>1 DEF fsm_lowerup
  <2> QED
    BY <1>1, <2>1, SoundDown, EnterSound, StateNames
<1>2. CASE f.state = "STARTING"
  <2>1. fsm_lowerup(e, f) = Begin(e, f)
    BY <1>2 DEF fsm_lowerup
  <2> QED
    BY <1>2, <2>1, SoundDown, BeginSound
<1>3. CASE f.state \notin {"INITIAL", "STARTING"}
  BY <1>3 DEF fsm_lowerup
<1> QED
  BY <1>1, <1>2, <1>3

\* The lower layer goes down.
LEMMA LowerdownSound ==
  ASSUME NEW f, Sound(f)
  PROVE  Sound(fsm_lowerdown(f))
<1>0. f \in Fsm
  BY DEF Sound
<1>1. CASE f.state \in {"CLOSED", "STOPPED"}
  <2>1. fsm_lowerdown(f) \in {Enter(f, "INITIAL"), Enter(f, "STARTING")}
    BY <1>1 DEF fsm_lowerdown, Negotiating
  <2> QED
    BY <1>1, <2>1, SoundDown, EnterSound, StateNames
<1>2. CASE f.state \in Negotiating \cup Terminating
  <2>1. fsm_lowerdown(f) \in {Enter(untimeout(f), "INITIAL"), Enter(untimeout(f), "STARTING")}
    BY <1>2 DEF fsm_lowerdown, Negotiating, Terminating
  <2>2. untimeout(f) \in Fsm /\ ~untimeout(f).up /\ ~untimeout(f).echo
    BY <1>0, <1>2, SoundDown, UntimeoutOf, StateNames DEF AlikeButTimer
  <2> QED
    BY <2>1, <2>2, EnterSound, StateNames
<1>3. CASE f.state = "OPENED"
  <2>1. fsm_lowerdown(f) = Enter(lcp_down(f), "STARTING")
    BY <1>3 DEF fsm_lowerdown, Negotiating
  <2> QED
    BY <1>0, <2>1, DownOf, EnterSound, StateNames
<1>4. CASE f.state \in {"INITIAL", "STARTING"}
  <2>1. fsm_lowerdown(f) = f
    BY <1>4 DEF fsm_lowerdown, Negotiating
  <2> QED
    BY <2>1
<1> QED
  BY <1>0, <1>1, <1>2, <1>3, <1>4, StateNames DEF Fsm

\* An administrative open.
LEMMA OpenSound ==
  ASSUME NEW e \in Env, NEW f, Sound(f)
  PROVE  Sound(fsm_open(e, f))
<1> DEFINE g == IF f.state = "CLOSING" THEN Enter(f, "STOPPING") ELSE f
<1>1. CASE f.state = "INITIAL"
  <2>1. fsm_open(e, f) = Enter(f, "STARTING")
    BY <1>1 DEF fsm_open
  <2> QED
    BY <1>1, <2>1, SoundDown, EnterSound, StateNames
<1>2. CASE f.state = "CLOSED"
  <2>1. fsm_open(e, f) = Begin(e, f)
    BY <1>2 DEF fsm_open
  <2> QED
    BY <1>2, <2>1, SoundDown, BeginSound
<1>3. CASE f.state \in {"CLOSING", "STOPPED", "OPENED"}
  <2>1. Sound(g)
    <3>1. CASE f.state = "CLOSING"
      BY <3>1, SoundDown, EnterSound, StateNames DEF Sound
    <3>2. CASE f.state # "CLOSING"
      BY <3>2
    <3> QED
      BY <3>1, <3>2
  <2>2. fsm_open(e, f) = IF "RESTART" \in Flags[e.me]
                         THEN fsm_lowerup(e, fsm_lowerdown(g)) ELSE g
    BY <1>3 DEF fsm_open
  <2> HIDE DEF g
  <2> QED
    BY <2>1, <2>2, LowerdownSound, LowerupSound
<1>4. CASE f.state \notin {"INITIAL", "CLOSED", "CLOSING", "STOPPED", "OPENED"}
  <2>1. fsm_open(e, f) = f
    BY <1>4 DEF fsm_open
  <2> QED
    BY <2>1
<1> QED
  BY <1>1, <1>2, <1>3, <1>4

\* A callout fires.
LEMMA FsmTimeoutSound ==
  ASSUME NEW e \in Env, NEW f0, Sound(f0)
  PROVE  Sound(fsm_timeout(e, f0))
<1> DEFINE f == untimeout(f0)
<1>0. f \in Fsm /\ AlikeButTimer(f0, f)
  BY UntimeoutOf DEF Sound
<1>1. CASE f.state \in Terminating
  <2>1. ~f.up /\ ~f.echo
    BY <1>0, <1>1, SoundDown, StateNames DEF AlikeButTimer
  <2>2. CASE f.retransmits = 0
    <3> DEFINE s == IF f.state = "CLOSING" THEN "CLOSED" ELSE "STOPPED"
    <3>1. fsm_timeout(e, f0) = Enter(f, s)
      BY <1>1, <2>2 DEF fsm_timeout, Terminating, Negotiating
    <3>2. s \in State /\ s \notin Negotiating \cup Terminating
      BY StateNames
    <3> HIDE DEF f, s
    <3> QED
      BY <1>0, <2>1, <3>1, <3>2, EnterSound
  <2>3. CASE f.retransmits # 0
    <3>1. fsm_timeout(e, f0) = SendTermreq(f)
      BY <1>1, <2>3 DEF fsm_timeout, Terminating, Negotiating
    <3>2. f.retransmits > 0
      BY <1>0, <2>3, Counters DEF Fsm
    <3> HIDE DEF f
    <3> QED
      BY <1>0, <2>1, <3>1, <3>2, SendTermreqOf DEF Sound
  <2> QED
    BY <2>2, <2>3
<1>2. CASE f.state \in Negotiating
  <2>1. ~f.up /\ ~f.echo
    BY <1>0, <1>2, SoundDown, StateNames DEF AlikeButTimer
  <2>2. CASE f.retransmits = 0
    <3>1. fsm_timeout(e, f0) = Enter(f, "STOPPED")
      BY <1>2, <2>2 DEF fsm_timeout, Terminating, Negotiating
    <3> HIDE DEF f
    <3> QED
      BY <1>0, <2>1, <3>1, EnterSound, StateNames
  <2>3. CASE f.retransmits # 0
    <3> DEFINE s == IF f.state = "ACKRCVD" THEN "REQSENT" ELSE f.state
               g == fsm_sconfreq(e, f, TRUE)
    <3>1. fsm_timeout(e, f0) = Enter(g, s)
      BY <1>2, <2>3 DEF fsm_timeout, Terminating, Negotiating
    <3>2. f.retransmits > 0
      BY <1>0, <2>3, Counters DEF Fsm
    <3>3. s \in State
      BY <1>2, StateNames
    <3> HIDE DEF f
    <3>4. g \in Fsm /\ g.callouts > 0 /\ ~g.up /\ ~g.echo
      BY <1>0, <2>1, <3>2, SconfreqOf
    <3> HIDE DEF g, s
    <3> QED
      BY <3>1, <3>3, <3>4, EnterSound
  <2> QED
    BY <2>2, <2>3
<1>3. CASE f.state \notin Negotiating \cup Terminating
  <2>1. fsm_timeout(e, f0) = f
    BY <1>3 DEF fsm_timeout
  <2> QED
    BY <1>0, <1>3, <2>1 DEF Sound, AlikeButTimer
<1> QED
  BY <1>1, <1>2, <1>3

\* The answer to a request, with a callout pending and the upper layers down: the state it
\* leads to waits with that callout, or is OPENED.
LEMMA AnswerSound ==
  ASSUME NEW e \in Env, NEW f \in Fsm, NEW pkt \in Packet,
         f.callouts > 0, ~f.up, ~f.echo
  PROVE  Sound(AnswerRequest(e, f, pkt))
<1> DEFINE a == lcp_reqci(e, pkt.opt, f.nakloops >= MaxNakLoops)
           v == IF a.code = "CONFACK" THEN pkt.opt ELSE NoOpt
           k == [f EXCEPT !.his = v]
           g == fsm_sdata(k, a.code, pkt.id, a.opt)
           s == IF f.state = "ACKRCVD" THEN "ACKRCVD" ELSE "REQSENT"
           n == IF a.code = "CONFNAK" THEN Enter(g, s).nakloops + 1 ELSE Enter(g, s).nakloops
           up == lcp_up(e, Enter(untimeout(g), "OPENED"))
<1>0. pkt.opt \in Opt \cup {NoOpt} /\ pkt.id \in 0 .. IdSize - 1
  BY DEF Packet
<1>1. /\ a.code \in {"CONFACK", "CONFREJ", "CONFNAK"}
      /\ a.opt \in Opt \cup {NoOpt}
      /\ a.code = "CONFNAK" => ~(f.nakloops >= MaxNakLoops)
  <2>1. Hint[e.me] \in Opt
    BY LinkAssumption DEF Env, Side
  <2> QED
    BY <1>0, <2>1 DEF lcp_reqci
<1>2. AnswerRequest(e, f, pkt) =
        IF a.code = "CONFACK"
        THEN IF f.state = "ACKRCVD" THEN [up EXCEPT !.nakloops = 0]
             ELSE [Enter(g, "ACKSENT") EXCEPT !.nakloops = 0]
        ELSE [Enter(g, s) EXCEPT !.nakloops = n]
  BY DEF AnswerRequest
<1> HIDE DEF a
<1>3. k \in Fsm /\ Alike(f, k)
  BY <1>0, SetHis
<1> HIDE DEF k
<1>4. g \in Fsm /\ Alike(k, g)
  BY <1>0, <1>1, <1>3, SdataOf DEF Code
<1> HIDE DEF g
<1>5. /\ g.callouts > 0 /\ ~g.up /\ ~g.echo
      /\ g.nakloops = f.nakloops
  BY <1>3, <1>4 DEF Alike
<1>6. 0 \in 0 .. MaxNakLoops
  BY Counters
<1>7. Sound([up EXCEPT !.nakloops = 0])
  <2>1. Sound(up)
    BY <1>4, UntimeoutOf, SetState, UpSound, StateNames
  <2> HIDE DEF up
  <2> QED
    BY <2>1, <1>6, SetNakloops DEF Sound
<1>8. Sound([Enter(g, "ACKSENT") EXCEPT !.nakloops = 0])
  <2>1. Sound(Enter(g, "ACKSENT"))
    BY <1>4, <1>5, EnterSound, StateNames
  <2> QED
    BY <2>1, <1>6, SetNakloops DEF Sound
<1>9. Sound([Enter(g, s) EXCEPT !.nakloops = n])
  <2>1. Sound(Enter(g, s)) /\ Enter(g, s).nakloops = f.nakloops
    BY <1>4, <1>5, EnterSound, SetState, StateNames
  <2>2. n \in 0 .. MaxNakLoops
    <3>1. f.nakloops \in 0 .. MaxNakLoops
      BY DEF Fsm
    <3> QED
      BY <1>1, <2>1, <3>1, Counters
  <2> HIDE DEF n, s
  <2> QED
    BY <2>1, <2>2, SetNakloops DEF Sound
<1> HIDE DEF up, n, s
<1> QED
  BY <1>2, <1>7, <1>8, <1>9

\* A Terminate-Ack is one more packet.
LEMMA TermackSound ==
  ASSUME NEW f, Sound(f), NEW pkt \in Packet
  PROVE  Sound(fsm_sdata(f, "TERMACK", pkt.id, NoOpt))
<1>1. "TERMACK" \in Code /\ pkt.id \in 0 .. IdSize - 1
  BY DEF Code, Packet
<1>2. /\ fsm_sdata(f, "TERMACK", pkt.id, NoOpt) \in Fsm
      /\ Alike(f, fsm_sdata(f, "TERMACK", pkt.id, NoOpt))
  BY <1>1, SdataOf DEF Sound
<1> QED
  BY <1>2 DEF Sound, Alike

\* A Configure-Request arrives.
LEMMA RconfreqSound ==
  ASSUME NEW e \in Env, NEW f, Sound(f), NEW pkt \in Packet,
         f.state \notin {"INITIAL", "STARTING"}
  PROVE  Sound(fsm_rconfreq(e, f, pkt))
<1>0. f \in Fsm
  BY DEF Sound
<1>1. CASE f.state = "CLOSED"
  <2>1. fsm_rconfreq(e, f, pkt) = fsm_sdata(f, "TERMACK", pkt.id, NoOpt)
    BY <1>1 DEF fsm_rconfreq, Terminating
  <2> QED
    BY <2>1, TermackSound
<1>2. CASE f.state \in Terminating
  <2>1. fsm_rconfreq(e, f, pkt) = f
    BY <1>2 DEF fsm_rconfreq, Terminating
  <2> QED
    BY <2>1
<1>3. CASE f.state = "OPENED"
  <2> DEFINE d == lcp_down(f)
             g == fsm_sconfreq(e, d, FALSE)
  <2>1. fsm_rconfreq(e, f, pkt) = AnswerRequest(e, g, pkt)
    BY <1>3 DEF fsm_rconfreq, Terminating
  <2>2. d \in Fsm /\ ~d.up /\ ~d.echo
    BY <1>0, DownOf
  <2> HIDE DEF d
  <2>3. g \in Fsm /\ g.callouts > 0 /\ ~g.up /\ ~g.echo
    BY <2>2, SconfreqOf
  <2> HIDE DEF g
  <2> QED
    BY <2>1, <2>3, AnswerSound
<1>4. CASE f.state = "STOPPED"
  <2> DEFINE c == fsm_sconfreq(e, f, FALSE)
             g == Enter(c, "REQSENT")
  <2>1. fsm_rconfreq(e, f, pkt) = AnswerRequest(e, g, pkt)
    BY <1>4 DEF fsm_rconfreq, Terminating
  <2>2. c \in Fsm /\ c.callouts > 0 /\ ~c.up /\ ~c.echo
    BY <1>0, <1>4, SoundDown, SconfreqOf
  <2> HIDE DEF c
  <2>3. g \in Fsm /\ g.callouts > 0 /\ ~g.up /\ ~g.echo
    BY <2>2, SetState, StateNames
  <2> HIDE DEF g
  <2> QED
    BY <2>1, <2>3, AnswerSound
<1>5. CASE f.state \in Negotiating
  <2>1. fsm_rconfreq(e, f, pkt) = AnswerRequest(e, f, pkt)
    BY <1>5 DEF fsm_rconfreq, Terminating, Negotiating
  <2>2. f.callouts > 0 /\ ~f.up /\ ~f.echo
    BY <1>5, StateNames DEF Sound
  <2> QED
    BY <1>0, <2>1, <2>2, AnswerSound
<1> QED
  BY <1>0, <1>1, <1>2, <1>3, <1>4, <1>5, StateNames DEF Fsm

\* A new request from a record whose upper layers are down.
LEMMA RequestAgainSound ==
  ASSUME NEW e \in Env, NEW f \in Fsm, ~f.up, ~f.echo
  PROVE  Sound(Enter(fsm_sconfreq(e, f, FALSE), "REQSENT"))
<1> DEFINE g == fsm_sconfreq(e, f, FALSE)
<1>1. g \in Fsm /\ g.callouts > 0 /\ ~g.up /\ ~g.echo
  BY SconfreqOf
<1>2. "REQSENT" \in State
  BY StateNames
<1> HIDE DEF g
<1>3. Sound(Enter(g, "REQSENT"))
  BY <1>1, <1>2, EnterSound
<1> QED
  BY <1>3 DEF g

\* Go down and restart negotiation.
LEMMA RenegotiateSound ==
  ASSUME NEW e \in Env, NEW f \in Fsm
  PROVE  Sound(Renegotiate(e, f))
<1>1. lcp_down(f) \in Fsm /\ ~lcp_down(f).up /\ ~lcp_down(f).echo
  BY DownOf
<1> QED
  BY <1>1, RequestAgainSound DEF Renegotiate

\* A Configure-Ack arrives.
LEMMA RconfackSound ==
  ASSUME NEW e \in Env, NEW f, Sound(f), NEW pkt \in Packet
  PROVE  Sound(fsm_rconfack(e, f, pkt))
<1> DEFINE g == [f EXCEPT !.seen_ack = TRUE]
<1>0. g \in Fsm /\ Alike(f, g)
  BY SetSeenAck DEF Sound
<1>s. Sound(g)
  BY <1>0 DEF Sound, Alike
<1>m. MaxConfReqs \in 0 .. (ConfReqs + MaxConfReqs + MaxTermReqs)
  BY Counters
<1> SUFFICES ASSUME ~(pkt.id # f.reqid \/ f.seen_ack \/ ~lcp_ackci(f, pkt.opt))
             PROVE  Sound(fsm_rconfack(e, f, pkt))
  BY DEF fsm_rconfack
<1>1. CASE f.state \in {"CLOSED", "STOPPED"}
  <2>1. fsm_rconfack(e, f, pkt) = fsm_sdata(g, "TERMACK", pkt.id, NoOpt)
    BY <1>1 DEF fsm_rconfack
  <2> HIDE DEF g
  <2> QED
    BY <1>s, <2>1, TermackSound
<1>2. CASE f.state = "REQSENT"
  <2>1. fsm_rconfack(e, f, pkt) = [Enter(g, "ACKRCVD") EXCEPT !.retransmits = MaxConfReqs]
    BY <1>2 DEF fsm_rconfack
  <2>2. Sound(Enter(g, "ACKRCVD"))
    <3>0. "ACKRCVD" \in State
      BY StateNames
    <3>1. g.callouts > 0 /\ ~g.up /\ ~g.echo
      BY <1>0, <1>2, StateNames DEF Sound, Alike
    <3> HIDE DEF g
    <3> QED
      BY <1>0, <3>0, <3>1, EnterSound
  <2> DEFINE a == Enter(g, "ACKRCVD")
  <2>3. Sound(a) /\ fsm_rconfack(e, f, pkt) = [a EXCEPT !.retransmits = MaxConfReqs]
    BY <2>1, <2>2
  <2> HIDE DEF a
  <2> QED
    BY <1>m, <2>3, SetRetransmits DEF Sound
<1>3. CASE f.state = "ACKRCVD"
  <2> DEFINE u == untimeout(g)
  <2>1. fsm_rconfack(e, f, pkt) = Enter(fsm_sconfreq(e, u, FALSE), "REQSENT")
    BY <1>3 DEF fsm_rconfack
  <2>2. ~g.up /\ ~g.echo
    BY <1>0, <1>3, SoundDown DEF Alike
  <2> HIDE DEF g
  <2>3. u \in Fsm /\ ~u.up /\ ~u.echo
    BY <1>0, <2>2, UntimeoutOf DEF AlikeButTimer
  <2> HIDE DEF u
  <2> QED
    BY <2>1, <2>3, RequestAgainSound
<1>4. CASE f.state = "ACKSENT"
  <2> DEFINE o == Enter(untimeout(g), "OPENED")
             r == [o EXCEPT !.retransmits = MaxConfReqs]
  <2>1. fsm_rconfack(e, f, pkt) = lcp_up(e, r)
    BY <1>4 DEF fsm_rconfack
  <2> HIDE DEF g
  <2>2. o \in Fsm /\ o.state = "OPENED"
    BY <1>0, UntimeoutOf, SetState, StateNames
  <2> HIDE DEF o
  <2>3. r \in Fsm /\ r.state = "OPENED"
    BY <1>m, <2>2, SetRetransmits
  <2> HIDE DEF r
  <2> QED
    BY <2>1, <2>3, UpSound
<1>5. CASE f.state = "OPENED"
  <2>1. fsm_rconfack(e, f, pkt) = Renegotiate(e, g)
    BY <1>5 DEF fsm_rconfack
  <2> HIDE DEF g
  <2> QED
    BY <1>0, <2>1, RenegotiateSound
<1>6. CASE f.state \notin {"CLOSED", "STOPPED", "REQSENT", "ACKRCVD", "ACKSENT", "OPENED"}
  <2>1. fsm_rconfack(e, f, pkt) = g
    BY <1>6 DEF fsm_rconfack
  <2> QED
    BY <1>s, <2>1
<1> QED
  BY <1>1, <1>2, <1>3, <1>4, <1>5, <1>6

\* A Configure-Nak or Configure-Reject arrives.
LEMMA RconfnakrejSound ==
  ASSUME NEW e \in Env, NEW f, Sound(f), NEW pkt \in Packet
  PROVE  Sound(fsm_rconfnakrej(e, f, pkt))
<1> DEFINE h == IF pkt.code = "CONFNAK" THEN lcp_nakci(e, f, pkt.opt) ELSE lcp_rejci(f)
           g == [h EXCEPT !.seen_ack = TRUE]
           u == untimeout(g)
<1>1. h \in Fsm /\ Alike(f, h)
  <2>1. f \in Fsm /\ Alike(f, f)
    BY DEF Sound, Alike
  <2>2. \A v \in Adopts[e.me] : v \in Opt \cup {NoOpt}
    BY LinkAssumption DEF Env, Side
  <2>3. lcp_nakci(e, f, pkt.opt) \in Fsm /\ Alike(f, lcp_nakci(e, f, pkt.opt))
    BY <2>1, <2>2, SetGot DEF lcp_nakci
  <2>4. lcp_rejci(f) \in Fsm /\ Alike(f, lcp_rejci(f))
    BY <2>1, SetGot DEF lcp_rejci
  <2> QED
    BY <2>3, <2>4
<1> SUFFICES ASSUME ~(pkt.id # f.reqid \/ f.seen_ack \/ ~GoodNakRej(f, pkt.code, pkt.opt))
             PROVE  Sound(fsm_rconfnakrej(e, f, pkt))
  BY DEF fsm_rconfnakrej
<1>2. fsm_rconfnakrej(e, f, pkt) =
        IF f.state \in {"CLOSED", "STOPPED"} THEN fsm_sdata(g, "TERMACK", pkt.id, NoOpt)
        ELSE IF f.state \in {"REQSENT", "ACKSENT"} THEN fsm_sconfreq(e, u, FALSE)
        ELSE IF f.state = "ACKRCVD" THEN Enter(fsm_sconfreq(e, u, FALSE), "REQSENT")
        ELSE IF f.state = "OPENED" THEN Renegotiate(e, g)
        ELSE g
  BY DEF fsm_rconfnakrej
<1> HIDE DEF h
<1>3. g \in Fsm /\ Alike(h, g)
  BY <1>1, SetSeenAck
<1> HIDE DEF g
<1>4. Sound(g) /\ g.state = f.state
  BY <1>1, <1>3 DEF Sound, Alike
<1>5. u \in Fsm /\ AlikeButTimer(g, u)
  BY <1>3, UntimeoutOf
<1> HIDE DEF u
<1>6. CASE f.state \in {"CLOSED", "STOPPED"}
  BY <1>2, <1>4, <1>6, TermackSound
<1>7. CASE f.state \in {"REQSENT", "ACKSENT"}
  <2>1. ~u.up /\ ~u.echo
    BY <1>4, <1>5, <1>7, SoundDown DEF AlikeButTimer
  <2>2. Sound(fsm_sconfreq(e, u, FALSE))
    BY <1>4, <1>5, <2>1, SconfreqOf DEF Sound
  <2> QED
    BY <1>2, <1>7, <2>2
<1>8. CASE f.state = "ACKRCVD"
  <2>1. ~u.up /\ ~u.echo
    BY <1>4, <1>5, <1>8, SoundDown DEF AlikeButTimer
  <2> QED
    BY <1>2, <1>5, <1>8, <2>1, RequestAgainSound
<1>9. CASE f.state = "OPENED"
  BY <1>2, <1>3, <1>9, RenegotiateSound
<1>10. CASE f.state \notin {"CLOSED", "STOPPED", "REQSENT", "ACKSENT", "ACKRCVD", "OPENED"}
  BY <1>2, <1>4, <1>10
<1> QED
  BY <1>6, <1>7, <1>8, <1>9, <1>10

\* A Terminate-Request arrives: a side in OPENED waits for the peer with a callout.
LEMMA RtermreqSound ==
  ASSUME NEW f, Sound(f), NEW pkt \in Packet
  PROVE  Sound(fsm_rtermreq(f, pkt))
<1> DEFINE d == Enter(lcp_down(f), "STOPPING")
           r == [d EXCEPT !.retransmits = 0]
           g == IF f.state \in {"ACKRCVD", "ACKSENT"} THEN Enter(f, "REQSENT")
                ELSE IF f.state = "OPENED" THEN timeout(r)
                ELSE f
<1>0. f \in Fsm
  BY DEF Sound
<1>1. fsm_rtermreq(f, pkt) = fsm_sdata(g, "TERMACK", pkt.id, NoOpt)
  BY DEF fsm_rtermreq
<1>2. Sound(timeout(r))
  <2>1. d \in Fsm /\ ~d.up /\ ~d.echo
    BY <1>0, DownOf, SetState, StateNames
  <2> HIDE DEF d
  <2>2. r \in Fsm /\ ~r.up /\ ~r.echo
    BY <2>1, Counters, SetRetransmits
  <2> HIDE DEF r
  <2> QED
    BY <2>2, TimeoutOf DEF Sound, AlikeButTimer
<1>3. f.state \in {"ACKRCVD", "ACKSENT"} => Sound(Enter(f, "REQSENT"))
  BY <1>0, SoundDown, EnterSound, StateNames DEF Sound
<1>4. Sound(g)
  BY <1>2, <1>3
<1> HIDE DEF g
<1> QED
  BY <1>1, <1>4, TermackSound

\* A Terminate-Ack arrives.
LEMMA RtermackSound ==
  ASSUME NEW e \in Env, NEW f, Sound(f)
  PROVE  Sound(fsm_rtermack(e, f))
<1>0. f \in Fsm
  BY DEF Sound
<1>1. CASE f.state \in Terminating
  <2>1. fsm_rtermack(e, f) \in {Enter(untimeout(f), "CLOSED"), Enter(untimeout(f), "STOPPED")}
    BY <1>1 DEF fsm_rtermack, Terminating
  <2>2. untimeout(f) \in Fsm /\ ~untimeout(f).up /\ ~untimeout(f).echo
    BY <1>0, <1>1, SoundDown, UntimeoutOf, StateNames DEF AlikeButTimer
  <2> QED
    BY <2>1, <2>2, EnterSound, StateNames
<1>2. CASE f.state = "ACKRCVD"
  <2>1. fsm_rtermack(e, f) = Enter(f, "REQSENT")
    BY <1>2 DEF fsm_rtermack
  <2> QED
    BY <1>0, <1>2, <2>1, SoundDown, EnterSound, StateNames DEF Sound
<1>3. CASE f.state = "OPENED"
  <2> DEFINE d == lcp_down(f)
  <2>1. fsm_rtermack(e, f) = fsm_sconfreq(e, d, FALSE)
    BY <1>3 DEF fsm_rtermack
  <2>2. d \in Fsm /\ ~d.up /\ ~d.echo
    BY <1>0, DownOf
  <2> HIDE DEF d
  <2> DEFINE c == fsm_sconfreq(e, d, FALSE)
  <2>3. c \in Fsm /\ c.callouts > 0 /\ ~c.up /\ ~c.echo
    BY <2>2, SconfreqOf
  <2> HIDE DEF c
  <2>4. Sound(c)
    BY <2>3 DEF Sound
  <2> QED
    BY <2>1, <2>4 DEF c
<1>4. CASE f.state \notin Terminating \cup {"ACKRCVD", "OPENED"}
  <2>1. fsm_rtermack(e, f) = f
    BY <1>4, StateNames DEF fsm_rtermack
  <2> QED
    BY <2>1
<1> QED
  BY <1>1, <1>2, <1>3, <1>4

\* A Code-Reject arrives.
LEMMA RcoderejSound ==
  ASSUME NEW f, Sound(f)
  PROVE  Sound(fsm_rcoderej(f))
<1>1. f.state = "ACKRCVD" => Sound(Enter(f, "REQSENT"))
  BY SoundDown, EnterSound, StateNames DEF Sound
<1> QED
  BY <1>1 DEF fsm_rcoderej

\* The peer rejects the protocol of an opened link.
LEMMA ProtrejectSound ==
  ASSUME NEW f, Sound(f), f.state = "OPENED"
  PROVE  Sound(fsm_protreject(f))
<1> DEFINE d == lcp_down(f)
           r == [d EXCEPT !.retransmits = MaxTermReqs]
           t == SendTermreq(r)
<1>1. fsm_protreject(f) = Enter(t, "STOPPING")
  BY DEF fsm_protreject, Negotiating
<1>2. d \in Fsm /\ ~d.up /\ ~d.echo
  BY DownOf DEF Sound
<1> HIDE DEF d
<1>3. r \in Fsm /\ r.retransmits > 0 /\ ~r.up /\ ~r.echo
  BY <1>2, Counters, SetRetransmits
<1> HIDE DEF r
<1>4. t \in Fsm /\ t.callouts > 0 /\ ~t.up /\ ~t.echo
  BY <1>3, SendTermreqOf
<1> HIDE DEF t
<1> QED
  BY <1>1, <1>4, EnterSound, StateNames

\* Any packet arrives.
LEMMA InputSound ==
  ASSUME NEW e \in Env, NEW f, Sound(f), NEW pkt \in Packet
  PROVE  Sound(fsm_input(e, f, pkt))
<1>1. CASE f.state \in {"INITIAL", "STARTING"}
  BY <1>1 DEF fsm_input
<1>2. CASE f.state \notin {"INITIAL", "STARTING"}
  <2>1. /\ Sound(fsm_rconfreq(e, f, pkt)) /\ Sound(fsm_rconfack(e, f, pkt))
        /\ Sound(fsm_rconfnakrej(e, f, pkt)) /\ Sound(fsm_rtermreq(f, pkt))
        /\ Sound(fsm_rtermack(e, f)) /\ Sound(lcp_extcode(f, pkt))
    BY <1>2, RconfreqSound, RconfackSound, RconfnakrejSound, RtermreqSound, RtermackSound,
       ExtcodeSound
  <2> QED
    BY <1>2, <2>1 DEF fsm_input
<1> QED
  BY <1>1, <1>2

-----------------------------------------------------------------------------
(***************************************************************************)
(* The link.                                                               *)
(***************************************************************************)
SoundLink == TypeOK /\ \A p \in Side : Sound(fsm[p])

\* Where side p runs.
LEMMA AtEnv ==
  ASSUME TypeOK, NEW p \in Side, NEW e \in At(p)
  PROVE  e \in Env
<1>1. Other(p) \in Side
  BY DEF Side, Other
<1>2. fsm[Other(p)] \in Fsm
  BY <1>1 DEF TypeOK
<1>3. fsm[Other(p)].up \in BOOLEAN
  BY <1>2 DEF Fsm
<1>4. PICK b \in {FALSE, fsm[Other(p)].up} : e = [me |-> p, busy |-> b]
  BY DEF At
<1> QED
  BY <1>3, <1>4 DEF Env

\* Whatever a sound automaton sends joins a link of bounded length.
LEMMA BecomesSound ==
  ASSUME SoundLink, NEW p \in Side, NEW g, Sound(g), NEW w \in Seq(Packet),
         Len(w) <= ChanLen, Becomes(p, g, w),
         faults' \in 0 .. MaxFaults, calls' \in 0 .. MaxCalls
  PROVE  SoundLink'
<1> DEFINE q == Other(p)
           m == chan[q] \o g.out
           n == IF Len(m) < ChanLen THEN Len(m) ELSE ChanLen
           c == [g EXCEPT !.out = <<>>]
<1>1. q \in Side /\ q # p /\ Side = {p, q}
  BY DEF Other, Side
<1>2. c \in Fsm /\ Alike(g, c) /\ c.out = <<>>
  <2>1. g \in Fsm /\ <<>> \in Seq(Packet)
    BY DEF Sound
  <2>2. ASSUME NEW o \in Seq(Packet)
        PROVE  [g EXCEPT !.out = o] \in Fsm /\ Alike(g, [g EXCEPT !.out = o])
               /\ [g EXCEPT !.out = o].out = o
    BY <2>1 DEF Fsm, Alike
  <2> QED
    BY <2>1, <2>2
<1>3. Sound(c)
  BY <1>2 DEF Sound, Alike
<1>4. m \in Seq(Packet) /\ Len(m) \in Nat
  BY <1>1 DEF SoundLink, TypeOK, Sound, Fsm
<1> HIDE DEF m
<1>5. n \in Nat /\ n <= Len(m) /\ n <= ChanLen
  <2>1. ChanLen \in Nat
    BY LinkAssumption
  <2> QED
    BY <1>4, <2>1
<1> HIDE DEF n
<1>6. SubSeq(m, 1, n) \in Seq(Packet) /\ Len(SubSeq(m, 1, n)) = n
  BY <1>4, <1>5
<1>7. fsm' = [fsm EXCEPT ![p] = c] /\ chan' = [chan EXCEPT ![p] = w, ![q] = SubSeq(m, 1, n)]
  BY DEF Becomes, m, n
<1> HIDE DEF c, q
<1>8. fsm' \in [Side -> Fsm] /\ \A i \in Side : Sound(fsm'[i]) /\ fsm'[i].out = <<>>
  BY <1>2, <1>3, <1>7 DEF SoundLink, TypeOK
<1>9. chan' \in [Side -> Seq(Packet)] /\ \A i \in Side : Len(chan'[i]) <= ChanLen
  BY <1>1, <1>5, <1>6, <1>7 DEF SoundLink, TypeOK
<1> QED
  BY <1>8, <1>9 DEF SoundLink, TypeOK


\* One step of the link.
LEMMA SoundStep ==
  ASSUME SoundLink, [Next]_vars
  PROVE  SoundLink'
<1>t. /\ \A p \in Side : Sound(fsm[p]) /\ chan[p] \in Seq(Packet) /\ Len(chan[p]) <= ChanLen
      /\ faults \in 0 .. MaxFaults /\ calls \in 0 .. MaxCalls
      /\ TypeOK
  BY DEF SoundLink, TypeOK
<1>c. MaxFaults \in Nat /\ MaxCalls \in Nat
  BY LinkAssumption
<1>d. Due => faults' \in 0 .. MaxFaults
  BY <1>t, <1>c DEF Due
<1>x. ASSUME NEW p \in Side, chan[p] # <<>>
      PROVE  /\ Head(chan[p]) \in Packet
             /\ Tail(chan[p]) \in Seq(Packet) /\ Len(Tail(chan[p])) <= ChanLen
  <2>1. chan[p] \in Seq(Packet) /\ Len(chan[p]) <= ChanLen /\ ChanLen \in Nat
    BY <1>t, LinkAssumption
  <2> QED
    BY <1>x, <2>1
<1>1. ASSUME NEW p \in Side, Receive(p) PROVE SoundLink'
  <2>1. PICK e \in At(p) : Becomes(p, fsm_input(e, fsm[p], Head(chan[p])), Tail(chan[p]))
    BY <1>1 DEF Receive
  <2>2. chan[p] # <<>> /\ faults' \in 0 .. MaxFaults /\ calls' \in 0 .. MaxCalls
    BY <1>1, <1>t DEF Receive
  <2>3. Sound(fsm_input(e, fsm[p], Head(chan[p])))
    BY <1>t, <1>x, <2>2, AtEnv, InputSound
  <2> QED
    BY <1>x, <2>1, <2>2, <2>3, BecomesSound
<1>2. ASSUME NEW p \in Side, Timeout(p) PROVE SoundLink'
  <2>1. PICK e \in At(p) : Becomes(p, fsm_timeout(e, fsm[p]), chan[p])
    BY <1>2 DEF Timeout
  <2>2. faults' \in 0 .. MaxFaults /\ calls' \in 0 .. MaxCalls
    BY <1>2, <1>t, <1>d DEF Timeout
  <2>3. Sound(fsm_timeout(e, fsm[p]))
    BY <1>t, AtEnv, FsmTimeoutSound
  <2> QED
    BY <1>t, <2>1, <2>2, <2>3, BecomesSound
<1>3. ASSUME NEW p \in Side, EchoTimeout(p) PROVE SoundLink'
  <2>1. PICK e \in At(p) : Becomes(p, LcpEchoTimeout(e, fsm[p]), chan[p])
    BY <1>3 DEF EchoTimeout
  <2>2. fsm[p].echo /\ faults' \in 0 .. MaxFaults /\ calls' \in 0 .. MaxCalls
    BY <1>3, <1>t, <1>d DEF EchoTimeout
  <2>3. Sound(LcpEchoTimeout(e, fsm[p]))
    BY <1>t, <2>2, AtEnv, EchoTimeoutSound
  <2> QED
    BY <1>t, <2>1, <2>2, <2>3, BecomesSound
<1>4. ASSUME NEW p \in Side, Lose(p) PROVE SoundLink'
  <2>1. /\ chan[p] # <<>> /\ chan' = [chan EXCEPT ![p] = Tail(chan[p])]
        /\ fsm' = fsm /\ calls' = calls
    BY <1>4 DEF Lose
  <2>2. faults' \in 0 .. MaxFaults
    BY <1>4, <1>t, <1>c DEF Lose
  <2>3. chan' \in [Side -> Seq(Packet)] /\ \A i \in Side : Len(chan'[i]) <= ChanLen
    BY <1>t, <1>x, <2>1 DEF TypeOK
  <2> QED
    BY <2>1, <2>2, <2>3 DEF SoundLink, TypeOK
<1>5. ASSUME NEW p \in Side, Open(p) PROVE SoundLink'
  <2>1. PICK e \in At(p) : Becomes(p, fsm_open(e, fsm[p]), chan[p])
    BY <1>5 DEF Open
  <2>2. faults' \in 0 .. MaxFaults /\ calls' \in 0 .. MaxCalls
    BY <1>5, <1>t DEF Open
  <2>3. Sound(fsm_open(e, fsm[p]))
    BY <1>t, AtEnv, OpenSound
  <2> QED
    BY <1>t, <2>1, <2>2, <2>3, BecomesSound
<1>6. ASSUME NEW p \in Side, LowerUp(p) PROVE SoundLink'
  <2>1. PICK e \in At(p) : Becomes(p, fsm_lowerup(e, fsm[p]), chan[p])
    BY <1>6 DEF LowerUp
  <2>2. faults' \in 0 .. MaxFaults /\ calls' \in 0 .. MaxCalls
    BY <1>6, <1>t DEF LowerUp
  <2>3. Sound(fsm_lowerup(e, fsm[p]))
    BY <1>t, AtEnv, LowerupSound
  <2> QED
    BY <1>t, <2>1, <2>2, <2>3, BecomesSound
<1>7. ASSUME NEW p \in Side, NEW g, Sound(g), Disturb(p, g) PROVE SoundLink'
  <2>1. Becomes(p, g, chan[p]) /\ faults' \in 0 .. MaxFaults /\ calls' \in 0 .. MaxCalls
    BY <1>7, <1>t, <1>c DEF Disturb
  <2> QED
    BY <1>t, <1>7, <2>1, BecomesSound
<1>8. ASSUME NEW p \in Side,
             Reopen(p) \/ Close(p) \/ LowerDown(p) \/ ProtReject(p) \/ CodeReject(p)
      PROVE  \E g : Sound(g) /\ Disturb(p, g)
  <2>1. Sound(fsm[p])
    BY <1>t
  <2>2. CASE Reopen(p)
    <3>1. PICK e \in At(p) : Disturb(p, fsm_open(e, fsm[p]))
      BY <2>2 DEF Reopen
    <3> QED
      BY <1>t, <2>1, <3>1, AtEnv, OpenSound
  <2>3. CASE Close(p)
    BY <2>1, <2>3, CloseSound DEF Close, lcp_close
  <2>4. CASE LowerDown(p)
    BY <2>1, <2>4, LowerdownSound DEF LowerDown
  <2>5. CASE ProtReject(p)
    BY <2>1, <2>5, ProtrejectSound DEF ProtReject
  <2>6. CASE CodeReject(p)
    BY <2>1, <2>6, RcoderejSound DEF CodeReject
  <2> QED
    BY <1>8, <2>2, <2>3, <2>4, <2>5, <2>6
<1>9. CASE UNCHANGED vars
  BY <1>9 DEF vars, SoundLink, TypeOK
<1> QED
  BY <1>1, <1>2, <1>3, <1>4, <1>5, <1>6, <1>7, <1>8, <1>9 DEF Next

\* The link before the first step.
LEMMA SoundInit == Init => SoundLink
<1> SUFFICES ASSUME Init PROVE SoundLink
  OBVIOUS
<1>1. fsm_init \in Fsm /\ fsm_init.out = <<>>
  BY Counters, StateNames DEF fsm_init, Fsm
<1>2. Sound(fsm_init)
  BY <1>1, StateNames DEF Sound, fsm_init
<1> QED
  BY <1>1, <1>2, LinkAssumption DEF Init, SoundLink, TypeOK

\* Both automata stay sound, whatever is lost, late or called.
LEMMA AlwaysSound == Spec => []SoundLink
BY SoundInit, SoundStep, PTL DEF Spec

\* The types: the retransmission, Nak and echo counters of fsm.c and lcp.c never leave
\* their bounds (--f->retransmits never below 0), and an id is a byte.
THEOREM LinkTypes == Spec => []TypeOK
<1>1. SoundLink => TypeOK
  BY DEF SoundLink
<1> QED
  BY <1>1, AlwaysSound, PTL

\* A side that negotiates or terminates has a callout pending: no path through fsm.c
\* cancels the last one and goes on waiting for a packet.
THEOREM TimersRun == Spec => []TimerRuns
<1>1. SoundLink => TimerRuns
  BY DEF SoundLink, Sound, TimerRuns
<1> QED
  BY <1>1, AlwaysSound, PTL

\* The upper layers are up only in OPENED: every path of fsm.c out of OPENED calls the
\* down callback.
THEOREM UpInOpened == Spec => []UpOnlyOpened
<1>1. SoundLink => UpOnlyOpened
  BY DEF SoundLink, Sound, UpOnlyOpened
<1> QED
  BY <1>1, AlwaysSound, PTL

-----------------------------------------------------------------------------
(***************************************************************************)
(* What the two sides agree on.  A second set of lemmas, again one per     *)
(* operator, says what it does to the request of a side: its id, the       *)
(* option it asks for, the option acknowledged to the peer and the         *)
(* requests and acknowledgements that are sent.                            *)
(***************************************************************************)
\* The requests and acknowledgements a side has sent and not yet put on the wire.
Mail(f) == {f.out[i] : i \in {j \in DOMAIN f.out : f.out[j].code \in {"CONFREQ", "CONFACK"}}}

\* A side that has a request out, and one whose request the peer has acknowledged.
Live(f) == f.state \in Negotiating \cup {"OPENED"}
Granted(f) == f.state = "ACKRCVD" \/ f.up

\* Neither the request nor the answer to the peer's is touched.
Keeps(f, g) ==
    /\ g.id = f.id /\ g.reqid = f.reqid /\ g.got = f.got /\ g.his = f.his
    /\ Mail(g) = Mail(f)

\* The same, and neither is the state.
Same(f, g) == Keeps(f, g) /\ g.state = f.state /\ g.up = f.up

\* A new id is taken.
Renumbered(f, g) == g.id # f.id /\ g.reqid = g.id

\* What a step from f to g does to the request of a side: what is asked for changes only
\* with a new id, and the requests sent are for what the side uses.
Asks(f, g, acked) ==
    /\ \A m \in Mail(g) : m.code = "CONFREQ" => Live(g) /\ m.id = g.reqid /\ m.opt = g.got
    /\ \/ Renumbered(f, g) /\ ~Granted(g)
       \/ /\ g.reqid = f.reqid /\ g.id = f.id
          /\ Live(g) => Live(f) /\ g.got = f.got
          /\ Granted(g) => Granted(f) \/ acked

\* It acknowledges nothing.
NoAnswer(f, g) == g.his = f.his /\ \A m \in Mail(g) : m.code # "CONFACK"

Plain(f, g) == Asks(f, g, FALSE) /\ NoAnswer(f, g)

\* What an assignment to a field leaves alone.
LEMMA OtherFields ==
  ASSUME NEW f \in Fsm
  PROVE  /\ \A v \in 0 .. MaxCallouts : Same(f, [f EXCEPT !.callouts = v])
         /\ \A v \in 0 .. (ConfReqs + MaxConfReqs + MaxTermReqs) :
               Same(f, [f EXCEPT !.retransmits = v])
         /\ \A v \in 0 .. MaxNakLoops : Same(f, [f EXCEPT !.nakloops = v])
         /\ \A v \in 0 .. EchoFails : Same(f, [f EXCEPT !.pending = v])
         /\ \A v \in BOOLEAN : Same(f, [f EXCEPT !.seen_ack = v])
         /\ \A v \in BOOLEAN : Same(f, [f EXCEPT !.echo = v])
BY DEF Same, Keeps, Mail, Fsm

\* f->state = s
LEMMA EnterKeeps ==
  ASSUME NEW f \in Fsm, NEW s \in State
  PROVE  Keeps(f, Enter(f, s)) /\ Enter(f, s).state = s /\ Enter(f, s).up = f.up
BY DEF Keeps, Mail, Fsm, Enter

\* TIMEOUT and UNTIMEOUT.
LEMMA TimeoutSame ==
  ASSUME NEW f \in Fsm
  PROVE  Same(f, timeout(f)) /\ Same(f, untimeout(f))
BY DEF Same, Keeps, Mail, Fsm, timeout, untimeout

\* lcp_down
LEMMA DownKeeps ==
  ASSUME NEW f \in Fsm
  PROVE  Keeps(f, lcp_down(f)) /\ lcp_down(f).state = f.state /\ ~lcp_down(f).up
BY DEF Keeps, Mail, Fsm, lcp_down, lcp_echo_lowerdown

\* ++f->id is another id.
LEMMA NewReqidKeeps ==
  ASSUME IdSize > 1, NEW f \in Fsm
  PROVE  /\ Renumbered(f, NewReqid(f))
         /\ NewReqid(f).got = f.got /\ NewReqid(f).his = f.his
         /\ Mail(NewReqid(f)) = Mail(f)
         /\ NewReqid(f).state = f.state /\ NewReqid(f).up = f.up
<1> DEFINE i == NextId(f)
<1>1. f.id \in Nat /\ f.id < IdSize /\ IdSize \in Nat
  BY Counters DEF Fsm
<1>2. i # f.id
  <2>1. f.id + 1 < IdSize => (f.id + 1) % IdSize = f.id + 1
    BY <1>1
  <2>2. f.id + 1 = IdSize => (f.id + 1) % IdSize = 0
    BY <1>1
  <2> QED
    BY <1>1, <2>1, <2>2 DEF NextId
<1>3. NewReqid(f) = [f EXCEPT !.id = i, !.reqid = i]
  BY DEF NewReqid
<1> HIDE DEF i
<1> QED
  BY <1>2, <1>3 DEF Renumbered, Mail, Fsm

\* A packet that is sent.
LEMMA SdataKeeps ==
  ASSUME NEW f \in Fsm, NEW c \in Code, NEW i \in 0 .. IdSize - 1,
         NEW o \in Opt \cup {NoOpt}
  PROVE  /\ fsm_sdata(f, c, i, o).state = f.state /\ fsm_sdata(f, c, i, o).up = f.up
         /\ fsm_sdata(f, c, i, o).id = f.id /\ fsm_sdata(f, c, i, o).reqid = f.reqid
         /\ fsm_sdata(f, c, i, o).got = f.got /\ fsm_sdata(f, c, i, o).his = f.his
         /\ c \in {"CONFREQ", "CONFACK"} =>
               Mail(fsm_sdata(f, c, i, o)) = Mail(f) \cup {[code |-> c, id |-> i, opt |-> o]}
         /\ c \notin {"CONFREQ", "CONFACK"} => Mail(fsm_sdata(f, c, i, o)) = Mail(f)
<1> DEFINE m == [code |-> c, id |-> i, opt |-> o]
           s == f.out
           t == Append(s, m)
           g == [f EXCEPT !.out = t]
           C == {"CONFREQ", "CONFACK"}
<1>1. m \in Packet /\ m.code = c
  BY DEF Packet
<1>2. s \in Seq(Packet)
  BY DEF Fsm
<1>3. fsm_sdata(f, c, i, o) = g
  BY DEF fsm_sdata
<1> HIDE DEF m, s
<1>4. /\ DOMAIN t = 1 .. Len(s) + 1 /\ DOMAIN s = 1 .. Len(s) /\ Len(s) \in Nat
      /\ t[Len(s) + 1] = m /\ \A j \in DOMAIN s : t[j] = s[j]
  BY <1>1, <1>2
<1> HIDE DEF t
<1>5. /\ g.out = t /\ g.state = f.state /\ g.up = f.up /\ g.id = f.id /\ g.reqid = f.reqid
      /\ g.got = f.got /\ g.his = f.his
  BY DEF Fsm
<1> HIDE DEF g
<1>6. Mail(f) = {s[j] : j \in {k \in DOMAIN s : s[k].code \in C}}
  BY DEF Mail, s
<1>7. Mail(g) = {t[j] : j \in {k \in DOMAIN t : t[k].code \in C}}
  BY <1>5 DEF Mail
<1>8. \A x : x \in Mail(g) <=> x \in Mail(f) \/ (x = m /\ c \in C)
  <2>1. DOMAIN t = DOMAIN s \cup {Len(s) + 1}
    BY <1>4
  <2> QED
    BY <1>1, <1>4, <1>6, <1>7, <2>1
<1>9. c \in C => Mail(g) = Mail(f) \cup {m}
  BY <1>8
<1>10. c \notin C => Mail(g) = Mail(f)
  BY <1>8
<1> QED
  BY <1>3, <1>5, <1>9, <1>10 DEF m

-----------------------------------------------------------------------------
\* A Terminate-Request takes a new id.
LEMMA SendTermreqKeeps ==
  ASSUME IdSize > 1, NEW f \in Fsm, f.retransmits > 0
  PROVE  /\ Renumbered(f, SendTermreq(f))
         /\ SendTermreq(f).his = f.his /\ Mail(SendTermreq(f)) = Mail(f)
         /\ SendTermreq(f).state = f.state /\ SendTermreq(f).up = f.up
<1> DEFINE g == NewReqid(f)
           n == g.retransmits - 1
           h == [g EXCEPT !.retransmits = n]
           k == fsm_sdata(h, "TERMREQ", g.reqid, NoOpt)
<1>1. g \in Fsm /\ Alike(f, g)
  BY NewReqidOf
<1>2. n \in 0 .. (ConfReqs + MaxConfReqs + MaxTermReqs) /\ g.reqid \in 0 .. IdSize - 1
  BY <1>1, Counters DEF Alike, Fsm
<1>3. SendTermreq(f) = timeout(k)
  BY DEF SendTermreq
<1>4. /\ Renumbered(f, g) /\ g.his = f.his /\ Mail(g) = Mail(f)
      /\ g.state = f.state /\ g.up = f.up
  BY NewReqidKeeps
<1> HIDE DEF g, n
<1>5. h \in Fsm /\ Same(g, h)
  BY <1>1, <1>2, SetRetransmits, OtherFields
<1> HIDE DEF h
<1>6. k \in Fsm /\ Same(h, k)
  <2>1. "TERMREQ" \in Code
    BY DEF Code
  <2> QED
    BY <1>2, <1>5, <2>1, SdataOf, SdataKeeps DEF Same, Keeps
<1> HIDE DEF k
<1>7. Same(k, timeout(k))
  BY <1>6, TimeoutSame
<1> QED
  BY <1>3, <1>4, <1>5, <1>6, <1>7 DEF Same, Keeps, Renumbered

\* A request goes out: with a new id, or again for what it was sent for before.
LEMMA SconfreqKeeps ==
  ASSUME IdSize > 1, NEW e \in Env, NEW f \in Fsm, NEW r \in BOOLEAN,
         r => f.retransmits > 0 /\ f.state \in Negotiating
  PROVE  /\ fsm_sconfreq(e, f, r).state = f.state
         /\ fsm_sconfreq(e, f, r).up = f.up
         /\ fsm_sconfreq(e, f, r).his = f.his
         /\ r => /\ fsm_sconfreq(e, f, r).id = f.id /\ fsm_sconfreq(e, f, r).reqid = f.reqid
                 /\ fsm_sconfreq(e, f, r).got = f.got
         /\ ~r => Renumbered(f, fsm_sconfreq(e, f, r))
         /\ Mail(fsm_sconfreq(e, f, r)) = Mail(f) \cup
               {[code |-> "CONFREQ", id |-> fsm_sconfreq(e, f, r).reqid,
                 opt |-> fsm_sconfreq(e, f, r).got]}
<1> DEFINE ci == lcp_resetci(e, f)
           reset == IF f.state \in Negotiating THEN f ELSE [ci EXCEPT !.nakloops = 0]
           new == NewReqid(reset)
           count == IF ~r THEN [new EXCEPT !.retransmits = ConfReqs]
                    ELSE IF reset.seen_ack THEN [reset EXCEPT !.retransmits = 1] ELSE reset
           seen == [count EXCEPT !.seen_ack = FALSE]
           sent == fsm_sdata(seen, "CONFREQ", count.reqid, count.got)
           n == sent.retransmits - 1
           last == [sent EXCEPT !.retransmits = n]
<1>1. fsm_sconfreq(e, f, r) = timeout(last)
  BY DEF fsm_sconfreq
<1>2. /\ ci \in Fsm /\ Alike(f, ci)
      /\ ci.id = f.id /\ ci.reqid = f.reqid /\ ci.his = f.his /\ Mail(ci) = Mail(f)
  <2>1. Wanted[e.me] \in Opt \cup {NoOpt}
    BY LinkAssumption DEF Env, Side
  <2>2. ci \in Fsm /\ Alike(f, ci)
    BY <2>1, SetGot DEF lcp_resetci
  <2> QED
    BY <2>2 DEF lcp_resetci, Mail, Fsm
<1> HIDE DEF ci
<1>3. [ci EXCEPT !.nakloops = 0] \in Fsm /\ Same(ci, [ci EXCEPT !.nakloops = 0])
      /\ [ci EXCEPT !.nakloops = 0].retransmits = ci.retransmits
  BY <1>2, Counters, SetNakloops, OtherFields
<1>4. /\ reset \in Fsm
      /\ reset.state = f.state /\ reset.up = f.up /\ reset.his = f.his
      /\ reset.id = f.id /\ reset.reqid = f.reqid /\ Mail(reset) = Mail(f)
      /\ reset.retransmits = f.retransmits
      /\ r => reset.got = f.got
  BY <1>2, <1>3 DEF Alike, Same, Keeps
<1> HIDE DEF reset
<1>5. /\ new \in Fsm /\ Alike(reset, new)
      /\ Renumbered(reset, new) /\ Mail(new) = Mail(reset) /\ new.his = reset.his
  BY <1>4, NewReqidOf, NewReqidKeeps
<1> HIDE DEF new
<1>6. /\ ConfReqs \in 0 .. (ConfReqs + MaxConfReqs + MaxTermReqs)
      /\ 1 \in 0 .. (ConfReqs + MaxConfReqs + MaxTermReqs)
      /\ ConfReqs > 0
  BY Counters
<1>7. /\ count \in Fsm /\ count.retransmits > 0
      /\ count.state = f.state /\ count.up = f.up /\ count.his = f.his
      /\ Mail(count) = Mail(f)
      /\ r => count.id = f.id /\ count.reqid = f.reqid /\ count.got = f.got
      /\ ~r => Renumbered(f, count)
  <2>1. CASE ~r
    <3>1. Same(new, count) /\ count \in Fsm /\ count.retransmits > 0
      BY <2>1, <1>5, <1>6, SetRetransmits, OtherFields
    <3> QED
      BY <2>1, <1>4, <1>5, <3>1 DEF Alike, Same, Keeps, Renumbered
  <2>2. CASE r /\ reset.seen_ack
    <3>1. Same(reset, count) /\ count \in Fsm /\ count.retransmits > 0
      BY <2>2, <1>4, <1>6, SetRetransmits, OtherFields
    <3> QED
      BY <2>2, <1>4, <3>1 DEF Same, Keeps
  <2>3. CASE r /\ ~reset.seen_ack
    BY <2>3, <1>4
  <2> QED
    BY <2>1, <2>2, <2>3
<1> HIDE DEF count
<1>8. seen \in Fsm /\ Alike(count, seen) /\ Same(count, seen)
  BY <1>7, SetSeenAck, OtherFields
<1> HIDE DEF seen
<1>9. /\ sent \in Fsm /\ Alike(seen, sent)
      /\ sent.state = seen.state /\ sent.up = seen.up /\ sent.his = seen.his
      /\ sent.id = seen.id /\ sent.reqid = seen.reqid /\ sent.got = seen.got
      /\ Mail(sent) = Mail(seen) \cup
            {[code |-> "CONFREQ", id |-> count.reqid, opt |-> count.got]}
  <2>1. "CONFREQ" \in Code /\ count.reqid \in 0 .. IdSize - 1 /\ count.got \in Opt \cup {NoOpt}
    BY <1>7 DEF Code, Fsm
  <2> QED
    BY <1>8, <2>1, SdataOf, SdataKeeps
<1> HIDE DEF sent
<1>10. n \in 0 .. (ConfReqs + MaxConfReqs + MaxTermReqs)
  <2>1. sent.retransmits > 0
    BY <1>7, <1>8, <1>9 DEF Alike
  <2>2. sent.retransmits \in 0 .. (ConfReqs + MaxConfReqs + MaxTermReqs)
    BY <1>9 DEF Fsm
  <2> QED
    BY <2>1, <2>2, Counters
<1> HIDE DEF n
<1>11. last \in Fsm /\ Same(sent, last)
  BY <1>9, <1>10, SetRetransmits, OtherFields
<1> HIDE DEF last
<1>12. Same(last, timeout(last))
  BY <1>11, TimeoutSame
<1> DEFINE g == timeout(last)
<1>13. /\ g.state = f.state /\ g.up = f.up /\ g.his = f.his
       /\ g.id = count.id /\ g.reqid = count.reqid /\ g.got = count.got
       /\ Mail(g) = Mail(f) \cup {[code |-> "CONFREQ", id |-> count.reqid, opt |-> count.got]}
  BY <1>7, <1>8, <1>9, <1>11, <1>12 DEF Same, Keeps
<1> HIDE DEF g
<1>14. (r => g.id = f.id /\ g.reqid = f.reqid /\ g.got = f.got) /\ (~r => Renumbered(f, g))
  BY <1>7, <1>13 DEF Renumbered
<1>15. fsm_sconfreq(e, f, r) = g
  BY <1>1 DEF g
<1> QED
  BY <1>13, <1>14, <1>15

-----------------------------------------------------------------------------
(***************************************************************************)
(* Steps that acknowledge nothing.                                         *)
(***************************************************************************)
\* The request stays as it is, or is given up.
LEMMA KeepsPlain ==
  ASSUME NEW f, NEW g, Mail(f) = {}, Keeps(f, g), Live(g) => Live(f), Granted(g) => Granted(f)
  PROVE  Plain(f, g)
BY DEF Plain, Asks, NoAnswer, Keeps

\* The id is taken for a Terminate-Request.
LEMMA RenumberedPlain ==
  ASSUME NEW f, NEW g, Mail(g) = {}, Renumbered(f, g), g.his = f.his, ~Granted(g)
  PROVE  Plain(f, g)
BY DEF Plain, Asks, NoAnswer

\* A new request.
LEMMA RequestPlain ==
  ASSUME NEW f, NEW g, Mail(g) = {[code |-> "CONFREQ", id |-> g.reqid, opt |-> g.got]},
         Renumbered(f, g), g.his = f.his, Live(g), ~Granted(g)
  PROVE  Plain(f, g)
BY DEF Plain, Asks, NoAnswer

\* States that have no request out.
LEMMA NotLive ==
  ASSUME NEW f, f.state \in {"INITIAL", "STARTING", "CLOSED", "STOPPED", "CLOSING", "STOPPING"}
  PROVE  ~Live(f) /\ (Granted(f) => f.up)
BY DEF Live, Granted, Negotiating

\* Such a state is entered with the upper layers down.
LEMMA LeavePlain ==
  ASSUME NEW f, NEW g \in Fsm, Keeps(f, g), ~g.up, Mail(f) = {},
         NEW s \in {"INITIAL", "STARTING", "CLOSED", "STOPPED", "CLOSING", "STOPPING"}
  PROVE  Plain(f, Enter(g, s))
<1> DEFINE h == Enter(g, s)
<1>1. s \in State
  BY StateNames
<1>2. Keeps(g, h) /\ h.state = s /\ ~h.up
  BY <1>1, EnterKeeps
<1> HIDE DEF h
<1>3. ~Live(h) /\ ~Granted(h)
  BY <1>2, NotLive
<1>4. Keeps(f, h)
  BY <1>2 DEF Keeps
<1>5. Plain(f, h)
  BY <1>3, <1>4, KeepsPlain
<1> QED
  BY <1>5 DEF h

\* A Terminate-Request is sent and such a state entered.
LEMMA TerminatePlain ==
  ASSUME IdSize > 1, NEW f, NEW g \in Fsm, Keeps(f, g), ~g.up, Mail(f) = {},
         NEW s \in {"CLOSING", "STOPPING"}
  PROVE  Plain(f, Enter(SendTermreq([g EXCEPT !.retransmits = MaxTermReqs]), s))
<1> DEFINE h == [g EXCEPT !.retransmits = MaxTermReqs]
           k == SendTermreq(h)
           l == Enter(k, s)
<1>1. h \in Fsm /\ h.retransmits > 0 /\ Same(g, h)
  BY Counters, SetRetransmits, OtherFields
<1> HIDE DEF h
<1>2. /\ k \in Fsm /\ Renumbered(h, k) /\ k.his = h.his /\ Mail(k) = Mail(h)
      /\ k.up = h.up
  BY <1>1, SendTermreqOf, SendTermreqKeeps
<1> HIDE DEF k
<1>3. s \in State
  BY StateNames
<1>4. Keeps(k, l) /\ l.state = s /\ l.up = k.up
  BY <1>2, <1>3, EnterKeeps
<1> HIDE DEF l
<1>5. ~Granted(l)
  BY <1>1, <1>2, <1>4, NotLive DEF Same
<1>6. Renumbered(f, l) /\ l.his = f.his /\ Mail(l) = {}
  BY <1>1, <1>2, <1>4 DEF Same, Keeps, Renumbered
<1>7. Plain(f, l)
  BY <1>5, <1>6, RenumberedPlain
<1> QED
  BY <1>7 DEF h, k, l

\* Closing.
LEMMA ClosePlain ==
  ASSUME IdSize > 1, NEW f, Sound(f), Mail(f) = {}
  PROVE  Plain(f, fsm_close(f))
<1>0. f \in Fsm /\ Keeps(f, f)
  BY DEF Sound, Keeps
<1>1. CASE f.state \in Negotiating \cup {"OPENED"}
  <2> DEFINE g == IF f.state = "OPENED" THEN lcp_down(f) ELSE untimeout(f)
  <2>1. fsm_close(f) = Enter(SendTermreq([g EXCEPT !.retransmits = MaxTermReqs]), "CLOSING")
    BY <1>1 DEF fsm_close, Negotiating
  <2>2. g \in Fsm /\ Keeps(f, g) /\ ~g.up
    <3>1. CASE f.state = "OPENED"
      BY <1>0, <3>1, DownOf, DownKeeps
    <3>2. CASE f.state # "OPENED"
      BY <1>0, <3>2, UntimeoutOf, TimeoutSame, SoundDown DEF Same
    <3> QED
      BY <3>1, <3>2
  <2> HIDE DEF g
  <2> QED
    BY <2>1, <2>2, TerminatePlain
<1>2. CASE f.state \in {"STARTING", "STOPPED", "STOPPING"}
  <2>1. fsm_close(f) \in {Enter(f, "INITIAL"), Enter(f, "CLOSED"), Enter(f, "CLOSING")}
    BY <1>2 DEF fsm_close, Negotiating
  <2>2. ~f.up
    BY <1>2, SoundDown
  <2> QED
    BY <1>0, <2>1, <2>2, LeavePlain
<1>3. CASE f.state \notin Negotiating \cup {"OPENED", "STARTING", "STOPPED", "STOPPING"}
  <2>1. fsm_close(f) = f
    BY <1>3 DEF fsm_close
  <2> QED
    BY <1>0, <2>1, KeepsPlain
<1> QED
  BY <1>1, <1>2, <1>3

\* An echo request is sent.
LEMMA EchoRequestSame ==
  ASSUME NEW f \in Fsm, ~(EchoFails # 0 /\ f.pending >= EchoFails)
  PROVE  LcpSendEchoRequest(f) \in Fsm /\ Same(f, LcpSendEchoRequest(f))
<1> DEFINE n == IF EchoFails = 0 THEN 0 ELSE f.pending + 1
           h == [f EXCEPT !.pending = n]
<1>1. LcpSendEchoRequest(f) = IF f.state = "OPENED" THEN fsm_sdata(h, "ECHOREQ", 0, NoOpt) ELSE f
  BY DEF LcpSendEchoRequest
<1>2. n \in 0 .. EchoFails
  <2>1. f.pending \in 0 .. EchoFails
    BY DEF Fsm
  <2> QED
    BY <2>1, Counters
<1> HIDE DEF n
<1>3. h \in Fsm /\ Same(f, h)
  BY <1>2, SetPending, OtherFields
<1> HIDE DEF h
<1>4. "ECHOREQ" \in Code /\ 0 \in 0 .. IdSize - 1
  BY Counters DEF Code
<1>5. fsm_sdata(h, "ECHOREQ", 0, NoOpt) \in Fsm /\ Same(h, fsm_sdata(h, "ECHOREQ", 0, NoOpt))
  BY <1>3, <1>4, SdataOf, SdataKeeps DEF Same, Keeps
<1> QED
  BY <1>1, <1>3, <1>5 DEF Same, Keeps

\* The check for a dead peer finds none.
LEMMA EchoCheckSame ==
  ASSUME NEW e \in Env, NEW f \in Fsm, ~(EchoFails # 0 /\ f.pending >= EchoFails)
  PROVE  Same(f, LcpEchoCheck(e, f))
<1> DEFINE g == IF e.busy THEN [f EXCEPT !.pending = 0] ELSE LcpSendEchoRequest(f)
<1>1. LcpEchoCheck(e, f) = IF g.state = "OPENED" THEN [g EXCEPT !.echo = TRUE] ELSE g
  BY DEF LcpEchoCheck
<1>2. 0 \in 0 .. EchoFails
  BY Counters
<1>3. g \in Fsm /\ Same(f, g)
  <2>1. [f EXCEPT !.pending = 0] \in Fsm /\ Same(f, [f EXCEPT !.pending = 0])
    BY <1>2, SetPending, OtherFields
  <2> QED
    BY <2>1, EchoRequestSame
<1> HIDE DEF g
<1>4. Same(g, [g EXCEPT !.echo = TRUE])
  BY <1>3, OtherFields
<1> QED
  BY <1>1, <1>3, <1>4 DEF Same, Keeps

\* The upper layers are told that the link is up.
LEMMA UpKeeps ==
  ASSUME NEW e \in Env, NEW f \in Fsm
  PROVE  Keeps(f, lcp_up(e, f)) /\ lcp_up(e, f).state = f.state /\ lcp_up(e, f).up
<1> DEFINE g == [f EXCEPT !.up = TRUE, !.pending = 0, !.echo = FALSE]
<1>1. 0 \in 0 .. EchoFails
  BY Counters
<1>2. g \in Fsm /\ Keeps(f, g) /\ g.state = f.state /\ g.up /\ g.pending = 0
  BY <1>1 DEF Fsm, Keeps, Mail
<1>3. lcp_up(e, f) = LcpEchoCheck(e, g)
  BY DEF lcp_up
<1> HIDE DEF g
<1>4. ~(EchoFails # 0 /\ g.pending >= EchoFails)
  BY <1>2, Counters
<1>5. Same(g, LcpEchoCheck(e, g))
  BY <1>2, <1>4, EchoCheckSame
<1> QED
  BY <1>2, <1>3, <1>5 DEF Same, Keeps

\* What a step does is told by the fields that Same compares.
LEMMA SamePlain ==
  ASSUME NEW f, NEW g, NEW h, NEW k, Same(f, g), Plain(g, h), Same(h, k)
  PROVE  Plain(f, k)
BY DEF Same, Keeps, Plain, Asks, NoAnswer, Renumbered, Live, Granted

\* The echo callout fires: the link goes on, or the peer is dead and it is closed.
LEMMA EchoTimeoutPlain ==
  ASSUME IdSize > 1, NEW e \in Env, NEW f, Sound(f), f.echo, Mail(f) = {}
  PROVE  Plain(f, LcpEchoTimeout(e, f))
<1> DEFINE a == [f EXCEPT !.echo = FALSE]
           b == LcpEchoCheck(e, a)
<1>1. LcpEchoTimeout(e, f) = b
  BY DEF LcpEchoTimeout
<1>2. f \in Fsm /\ f.state = "OPENED" /\ f.up
  BY DEF Sound
<1>3. Sound(a) /\ Same(f, a) /\ a \in Fsm /\ a.state = "OPENED"
  BY <1>2, SetEcho, OtherFields DEF Sound
<1>4. Mail(a) = {}
  BY <1>3 DEF Same, Keeps
<1> HIDE DEF a
<1>5. CASE e.busy \/ ~(EchoFails # 0 /\ a.pending >= EchoFails)
  <2>1. Same(a, b)
    <3>1. CASE e.busy
      <4> DEFINE c == [a EXCEPT !.pending = 0]
      <4>1. b = IF c.state = "OPENED" THEN [c EXCEPT !.echo = TRUE] ELSE c
        BY <3>1 DEF LcpEchoCheck
      <4>2. c \in Fsm /\ Same(a, c)
        BY <1>3, Counters, SetPending, OtherFields
      <4> HIDE DEF c
      <4>3. Same(c, [c EXCEPT !.echo = TRUE])
        BY <4>2, OtherFields
      <4> QED
        BY <4>1, <4>2, <4>3 DEF Same, Keeps
    <3>2. CASE ~(EchoFails # 0 /\ a.pending >= EchoFails)
      BY <1>3, <3>2, EchoCheckSame
    <3> QED
      BY <1>5, <3>1, <3>2
  <2> HIDE DEF b
  <2>2. Keeps(f, b) /\ b.state = f.state /\ b.up = f.up
    BY <1>3, <2>1 DEF Same, Keeps
  <2>3. Plain(f, b)
    BY <2>2, KeepsPlain DEF Live, Granted
  <2> QED
    BY <1>1, <2>3
<1>6. CASE ~e.busy /\ EchoFails # 0 /\ a.pending >= EchoFails
  <2> DEFINE c == fsm_close(a)
             k == IF a.state = "OPENED" THEN lcp_close(a) ELSE a
             d == IF EchoFails # 0 /\ a.pending >= EchoFails
                  THEN [k EXCEPT !.pending = 0] ELSE a
             n == IF EchoFails = 0 THEN 0 ELSE d.pending + 1
  <2>1. Sound(c) /\ c.state # "OPENED" /\ Plain(a, c)
    BY <1>3, <1>4, CloseSound, ClosePlain
  <2>2. LcpSendEchoRequest(a) =
          IF d.state = "OPENED" THEN fsm_sdata([d EXCEPT !.pending = n], "ECHOREQ", 0, NoOpt)
          ELSE d
    BY DEF LcpSendEchoRequest
  <2>3. k = c
    BY <1>3 DEF lcp_close
  <2> HIDE DEF c, k
  <2>4. d = [c EXCEPT !.pending = 0]
    BY <1>6, <2>3
  <2>5. Same(c, d) /\ d.state # "OPENED"
    <3>1. c \in Fsm /\ 0 \in 0 .. EchoFails
      BY <2>1, Counters DEF Sound
    <3>2. Same(c, [c EXCEPT !.pending = 0])
      BY <3>1, OtherFields
    <3> HIDE DEF d
    <3> QED
      BY <2>1, <2>4, <3>2 DEF Same
  <2> HIDE DEF d
  <2>6. b = d
    BY <1>6, <2>2, <2>5 DEF LcpEchoCheck
  <2>7. Plain(f, d)
    BY <1>3, <2>1, <2>5, SamePlain
  <2> QED
    BY <1>1, <2>6, <2>7
<1> QED
  BY <1>5, <1>6

\* A new request is sent and REQSENT entered.
LEMMA RequestAgainPlain ==
  ASSUME IdSize > 1, NEW e \in Env, NEW f, NEW d \in Fsm, ~d.up, d.id = f.id, d.his = f.his,
         Mail(d) = {}
  PROVE  Plain(f, Enter(fsm_sconfreq(e, d, FALSE), "REQSENT"))
<1> DEFINE c == fsm_sconfreq(e, d, FALSE)
           g == Enter(c, "REQSENT")
<1>1. /\ c \in Fsm /\ c.up = d.up /\ c.his = d.his /\ Renumbered(d, c)
      /\ Mail(c) = {[code |-> "CONFREQ", id |-> c.reqid, opt |-> c.got]}
  BY SconfreqOf, SconfreqKeeps
<1> HIDE DEF c
<1>2. Keeps(c, g) /\ g.state = "REQSENT" /\ g.up = c.up
  BY <1>1, EnterKeeps, StateNames
<1> HIDE DEF g
<1>3. Live(g) /\ ~Granted(g)
  BY <1>1, <1>2 DEF Live, Granted, Negotiating
<1>4. Plain(f, g)
  <2>1. /\ Mail(g) = {[code |-> "CONFREQ", id |-> g.reqid, opt |-> g.got]}
        /\ Renumbered(f, g) /\ g.his = f.his
    BY <1>1, <1>2 DEF Keeps, Renumbered
  <2> QED
    BY <1>3, <2>1, RequestPlain
<1> QED
  BY <1>4 DEF c, g

\* A side that starts over.
LEMMA BeginPlain ==
  ASSUME IdSize > 1, NEW e \in Env, NEW f, NEW d \in Fsm, ~d.up, Keeps(f, d), Mail(f) = {}
  PROVE  Plain(f, Begin(e, d))
<1>1. Plain(f, Enter(d, "STOPPED"))
  BY LeavePlain
<1>2. Plain(f, Enter(fsm_sconfreq(e, d, FALSE), "REQSENT"))
  BY RequestAgainPlain DEF Keeps
<1> QED
  BY <1>1, <1>2 DEF Begin

\* The lower layer comes up.
LEMMA LowerupPlain ==
  ASSUME IdSize > 1, NEW e \in Env, NEW f, NEW d, Sound(d), Keeps(f, d), Mail(f) = {},
         d.state \in {"INITIAL", "STARTING"}
  PROVE  Plain(f, fsm_lowerup(e, d))
<1>1. d \in Fsm /\ ~d.up
  BY SoundDown
<1>2. CASE d.state = "INITIAL"
  <2>1. fsm_lowerup(e, d) = Enter(d, "CLOSED")
    BY <1>2 DEF fsm_lowerup
  <2> QED
    BY <1>1, <2>1, LeavePlain
<1>3. CASE d.state = "STARTING"
  <2>1. fsm_lowerup(e, d) = Begin(e, d)
    BY <1>3 DEF fsm_lowerup
  <2> QED
    BY <1>1, <2>1, BeginPlain
<1> QED
  BY <1>2, <1>3

\* The lower layer goes down.
LEMMA LowerdownKeeps ==
  ASSUME NEW f, Sound(f)
  PROVE  Keeps(f, fsm_lowerdown(f)) /\ fsm_lowerdown(f).state \in {"INITIAL", "STARTING"}
<1>0. f \in Fsm /\ "INITIAL" \in State /\ "STARTING" \in State
  BY StateNames DEF Sound
<1>1. ASSUME NEW d \in Fsm, Keeps(f, d), NEW s \in {"INITIAL", "STARTING"}
      PROVE  Keeps(f, Enter(d, s)) /\ Enter(d, s).state \in {"INITIAL", "STARTING"}
  BY <1>0, <1>1, EnterKeeps DEF Keeps
<1>2. CASE f.state \in {"CLOSED", "STOPPED"}
  <2>1. fsm_lowerdown(f) \in {Enter(f, "INITIAL"), Enter(f, "STARTING")}
    BY <1>2 DEF fsm_lowerdown, Negotiating
  <2>2. Keeps(f, f)
    BY DEF Keeps
  <2> QED
    BY <1>0, <1>1, <2>1, <2>2
<1>3. CASE f.state \in Negotiating \cup Terminating
  <2>1. fsm_lowerdown(f) \in {Enter(untimeout(f), "INITIAL"), Enter(untimeout(f), "STARTING")}
    BY <1>3 DEF fsm_lowerdown, Negotiating, Terminating
  <2>2. untimeout(f) \in Fsm /\ Keeps(f, untimeout(f))
    BY <1>0, UntimeoutOf, TimeoutSame DEF Same
  <2> QED
    BY <1>1, <2>1, <2>2
<1>4. CASE f.state = "OPENED"
  <2>1. fsm_lowerdown(f) = Enter(lcp_down(f), "STARTING")
    BY <1>4 DEF fsm_lowerdown, Negotiating
  <2>2. lcp_down(f) \in Fsm /\ Keeps(f, lcp_down(f))
    BY <1>0, DownOf, DownKeeps
  <2> QED
    BY <1>1, <2>1, <2>2
<1>5. CASE f.state \in {"INITIAL", "STARTING"}
  <2>1. fsm_lowerdown(f) = f
    BY <1>5 DEF fsm_lowerdown, Negotiating
  <2> QED
    BY <1>5, <2>1 DEF Keeps
<1> QED
  BY <1>0, <1>2, <1>3, <1>4, <1>5, StateNames DEF Fsm

\* The same as a step.
LEMMA LowerdownPlain ==
  ASSUME NEW f, Sound(f), Mail(f) = {}
  PROVE  Plain(f, fsm_lowerdown(f))
<1> DEFINE g == fsm_lowerdown(f)
<1>1. Sound(g) /\ Keeps(f, g) /\ g.state \in {"INITIAL", "STARTING"}
  BY LowerdownSound, LowerdownKeeps
<1> HIDE DEF g
<1>2. ~Live(g) /\ ~Granted(g)
  BY <1>1, NotLive, SoundDown
<1>3. Plain(f, g)
  BY <1>1, <1>2, KeepsPlain
<1> QED
  BY <1>3 DEF g

\* An administrative open.
LEMMA OpenPlain ==
  ASSUME IdSize > 1, NEW e \in Env, NEW f, Sound(f), Mail(f) = {}
  PROVE  Plain(f, fsm_open(e, f))
<1> DEFINE g == IF f.state = "CLOSING" THEN Enter(f, "STOPPING") ELSE f
<1>0. f \in Fsm /\ Keeps(f, f)
  BY DEF Sound, Keeps
<1>1. CASE f.state = "INITIAL"
  <2>1. fsm_open(e, f) = Enter(f, "STARTING")
    BY <1>1 DEF fsm_open
  <2> QED
    BY <1>0, <1>1, <2>1, SoundDown, LeavePlain
<1>2. CASE f.state = "CLOSED"
  <2>1. fsm_open(e, f) = Begin(e, f)
    BY <1>2 DEF fsm_open
  <2> QED
    BY <1>0, <1>2, <2>1, SoundDown, BeginPlain
<1>3. CASE f.state \in {"CLOSING", "STOPPED", "OPENED"}
  <2>1. Sound(g) /\ Keeps(f, g) /\ Plain(f, g)
    <3>1. CASE f.state = "CLOSING"
      <4>1. ~f.up /\ ~f.echo /\ f.callouts > 0 /\ "STOPPING" \in State
        BY <3>1, SoundDown, StateNames DEF Sound
      <4> QED
        BY <1>0, <3>1, <4>1, EnterSound, EnterKeeps, LeavePlain
    <3>2. CASE f.state # "CLOSING"
      BY <1>0, <3>2, KeepsPlain
    <3> QED
      BY <3>1, <3>2
  <2>2. fsm_open(e, f) = IF "RESTART" \in Flags[e.me]
                         THEN fsm_lowerup(e, fsm_lowerdown(g)) ELSE g
    BY <1>3 DEF fsm_open
  <2> HIDE DEF g
  <2>3. Plain(f, fsm_lowerup(e, fsm_lowerdown(g)))
    <3> DEFINE d == fsm_lowerdown(g)
    <3>1. Sound(d) /\ Keeps(g, d) /\ d.state \in {"INITIAL", "STARTING"}
      BY <2>1, LowerdownSound, LowerdownKeeps
    <3> HIDE DEF d
    <3>2. Keeps(f, d)
      BY <2>1, <3>1 DEF Keeps
    <3>3. Plain(f, fsm_lowerup(e, d))
      BY <3>1, <3>2, LowerupPlain
    <3> QED
      BY <3>3 DEF d
  <2> QED
    BY <2>1, <2>2, <2>3
<1>4. CASE f.state \notin {"INITIAL", "CLOSED", "CLOSING", "STOPPED", "OPENED"}
  <2>1. fsm_open(e, f) = f
    BY <1>4 DEF fsm_open
  <2> QED
    BY <1>0, <2>1, KeepsPlain
<1> QED
  BY <1>1, <1>2, <1>3, <1>4

\* A callout fires: the request is sent again as it was.
LEMMA FsmTimeoutPlain ==
  ASSUME IdSize > 1, NEW e \in Env, NEW f0, Sound(f0), Mail(f0) = {}
  PROVE  Plain(f0, fsm_timeout(e, f0))
<1> DEFINE f == untimeout(f0)
<1>0. f \in Fsm /\ AlikeButTimer(f0, f) /\ Same(f0, f)
  BY UntimeoutOf, TimeoutSame DEF Sound
<1>m. Mail(f) = {} /\ Keeps(f0, f)
  BY <1>0 DEF Same, Keeps
<1>1. CASE f.state \in Terminating
  <2>1. ~f.up
    BY <1>0, <1>1, SoundDown, StateNames DEF AlikeButTimer
  <2>2. CASE f.retransmits = 0
    <3> DEFINE s == IF f.state = "CLOSING" THEN "CLOSED" ELSE "STOPPED"
    <3>1. fsm_timeout(e, f0) = Enter(f, s)
      BY <1>1, <2>2 DEF fsm_timeout, Terminating, Negotiating
    <3> HIDE DEF f
    <3> QED
      BY <1>0, <1>m, <2>1, <3>1, LeavePlain
  <2>3. CASE f.retransmits # 0
    <3> DEFINE g == SendTermreq(f)
    <3>1. fsm_timeout(e, f0) = g
      BY <1>1, <2>3 DEF fsm_timeout, Terminating, Negotiating
    <3>2. f.retransmits > 0
      BY <1>0, <2>3, Counters DEF Fsm
    <3> HIDE DEF f
    <3>3. /\ Renumbered(f, g) /\ g.his = f.his /\ Mail(g) = Mail(f)
          /\ g.state = f.state /\ g.up = f.up
      BY <1>0, <3>2, SendTermreqKeeps
    <3> HIDE DEF g
    <3>4. ~Granted(g)
      BY <1>1, <2>1, <3>3, StateNames DEF Granted
    <3>5. Renumbered(f0, g) /\ g.his = f0.his
      BY <1>m, <3>3 DEF Keeps, Renumbered
    <3>6. Plain(f0, g)
      BY <1>m, <3>3, <3>4, <3>5, RenumberedPlain
    <3> QED
      BY <3>1, <3>6
  <2> QED
    BY <2>2, <2>3
<1>2. CASE f.state \in Negotiating
  <2>1. ~f.up
    BY <1>0, <1>2, SoundDown, StateNames DEF AlikeButTimer
  <2>2. CASE f.retransmits = 0
    <3>1. fsm_timeout(e, f0) = Enter(f, "STOPPED")
      BY <1>2, <2>2 DEF fsm_timeout, Terminating, Negotiating
    <3> HIDE DEF f
    <3> QED
      BY <1>0, <1>m, <2>1, <3>1, LeavePlain
  <2>3. CASE f.retransmits # 0
    <3> DEFINE s == IF f.state = "ACKRCVD" THEN "REQSENT" ELSE f.state
               c == fsm_sconfreq(e, f, TRUE)
               g == Enter(c, s)
    <3>1. fsm_timeout(e, f0) = g
      BY <1>2, <2>3 DEF fsm_timeout, Terminating, Negotiating
    <3>2. f.retransmits > 0
      BY <1>0, <2>3, Counters DEF Fsm
    <3>3. s \in {"REQSENT", "ACKSENT"} /\ s \in State
      BY <1>2, StateNames
    <3> HIDE DEF f
    <3>4. /\ c \in Fsm /\ c.up = f.up /\ c.his = f.his
          /\ c.id = f.id /\ c.reqid = f.reqid /\ c.got = f.got
          /\ Mail(c) = Mail(f) \cup {[code |-> "CONFREQ", id |-> c.reqid, opt |-> c.got]}
      BY <1>0, <1>2, <3>2, SconfreqOf, SconfreqKeeps
    <3> HIDE DEF c, s
    <3>5. Keeps(c, g) /\ g.state = s /\ g.up = c.up
      BY <3>3, <3>4, EnterKeeps
    <3> HIDE DEF g
    <3>6. Live(g) /\ ~Granted(g) /\ Live(f0)
      BY <1>0, <1>2, <2>1, <3>3, <3>4, <3>5, StateNames DEF Live, Granted, AlikeButTimer
    <3>7. /\ g.id = f0.id /\ g.reqid = f0.reqid /\ g.got = f0.got /\ g.his = f0.his
          /\ Mail(g) = {[code |-> "CONFREQ", id |-> g.reqid, opt |-> g.got]}
      BY <1>m, <3>4, <3>5 DEF Keeps
    <3>8. Plain(f0, g)
      BY <3>6, <3>7 DEF Plain, Asks, NoAnswer
    <3> QED
      BY <3>1, <3>8
  <2> QED
    BY <2>2, <2>3
<1>3. CASE f.state \notin Negotiating \cup Terminating
  <2>1. fsm_timeout(e, f0) = f
    BY <1>3 DEF fsm_timeout
  <2>2. Live(f) => Live(f0)
    BY <1>0 DEF Live, AlikeButTimer
  <2>3. Granted(f) => Granted(f0)
    BY <1>0 DEF Granted, AlikeButTimer
  <2> HIDE DEF f
  <2> QED
    BY <1>m, <2>1, <2>2, <2>3, KeepsPlain
<1> QED
  BY <1>1, <1>2, <1>3

\* A state other than OPENED and ACKRCVD is entered from one with a request out, the upper
\* layers being down.
LEMMA FallBackPlain ==
  ASSUME NEW f, Sound(f), Mail(f) = {}, f.state \in {"ACKRCVD", "ACKSENT"}
  PROVE  Plain(f, Enter(f, "REQSENT"))
<1> DEFINE g == Enter(f, "REQSENT")
<1>1. Keeps(f, g) /\ g.state = "REQSENT" /\ ~g.up
  BY SoundDown, EnterKeeps, StateNames
<1> HIDE DEF g
<1>2. Live(f) /\ ~Granted(g)
  BY <1>1 DEF Live, Granted, Negotiating
<1>3. Plain(f, g)
  BY <1>1, <1>2, KeepsPlain
<1> QED
  BY <1>3 DEF g

\* A Terminate-Ack is neither a request nor an acknowledgement of one.
LEMMA TermackPlain ==
  ASSUME NEW f, NEW g \in Fsm, Plain(f, g), NEW pkt \in Packet
  PROVE  Plain(f, fsm_sdata(g, "TERMACK", pkt.id, NoOpt))
<1> DEFINE h == fsm_sdata(g, "TERMACK", pkt.id, NoOpt)
<1>1. "TERMACK" \in Code /\ pkt.id \in 0 .. IdSize - 1
  BY DEF Code, Packet
<1>2. Same(g, h)
  BY <1>1, SdataKeeps DEF Same, Keeps
<1> HIDE DEF h
<1>3. Same(f, f)
  BY DEF Same, Keeps
<1>4. Plain(f, h)
  BY <1>2, <1>3, SamePlain
<1> QED
  BY <1>4 DEF h

\* A Terminate-Request arrives.
LEMMA RtermreqPlain ==
  ASSUME NEW f, Sound(f), Mail(f) = {}, NEW pkt \in Packet
  PROVE  Plain(f, fsm_rtermreq(f, pkt))
<1> DEFINE d == Enter(lcp_down(f), "STOPPING")
           r == [d EXCEPT !.retransmits = 0]
           g == IF f.state \in {"ACKRCVD", "ACKSENT"} THEN Enter(f, "REQSENT")
                ELSE IF f.state = "OPENED" THEN timeout(r)
                ELSE f
<1>0. f \in Fsm /\ Keeps(f, f) /\ Same(f, f)
  BY DEF Sound, Keeps, Same
<1>1. fsm_rtermreq(f, pkt) = fsm_sdata(g, "TERMACK", pkt.id, NoOpt)
  BY DEF fsm_rtermreq
<1>2. timeout(r) \in Fsm /\ Plain(f, timeout(r))
  <2>1. d \in Fsm /\ Plain(f, d)
    BY <1>0, DownOf, DownKeeps, SetState, StateNames, LeavePlain
  <2> HIDE DEF d
  <2>2. r \in Fsm /\ Same(d, r)
    BY <2>1, Counters, SetRetransmits, OtherFields
  <2> HIDE DEF r
  <2>3. timeout(r) \in Fsm /\ Same(d, timeout(r))
    BY <2>2, TimeoutOf, TimeoutSame DEF Same, Keeps
  <2> QED
    BY <1>0, <2>1, <2>3, SamePlain
<1>3. f.state \in {"ACKRCVD", "ACKSENT"} =>
         Enter(f, "REQSENT") \in Fsm /\ Plain(f, Enter(f, "REQSENT"))
  BY <1>0, SetState, StateNames, FallBackPlain
<1>4. Plain(f, f)
  BY <1>0, KeepsPlain
<1>5. g \in Fsm /\ Plain(f, g)
  BY <1>0, <1>2, <1>3, <1>4
<1> HIDE DEF g
<1> QED
  BY <1>1, <1>5, TermackPlain

\* A Terminate-Ack arrives.
LEMMA RtermackPlain ==
  ASSUME IdSize > 1, NEW e \in Env, NEW f, Sound(f), Mail(f) = {}
  PROVE  Plain(f, fsm_rtermack(e, f))
<1>0. f \in Fsm /\ Keeps(f, f)
  BY DEF Sound, Keeps
<1>1. CASE f.state \in Terminating
  <2>1. fsm_rtermack(e, f) \in {Enter(untimeout(f), "CLOSED"), Enter(untimeout(f), "STOPPED")}
    BY <1>1 DEF fsm_rtermack, Terminating
  <2>2. untimeout(f) \in Fsm /\ ~untimeout(f).up /\ Keeps(f, untimeout(f))
    BY <1>0, <1>1, SoundDown, UntimeoutOf, TimeoutSame, StateNames DEF Same
  <2> QED
    BY <2>1, <2>2, LeavePlain
<1>2. CASE f.state = "ACKRCVD"
  <2>1. fsm_rtermack(e, f) = Enter(f, "REQSENT")
    BY <1>2 DEF fsm_rtermack
  <2> QED
    BY <1>2, <2>1, FallBackPlain
<1>3. CASE f.state = "OPENED"
  <2> DEFINE d == lcp_down(f)
             c == fsm_sconfreq(e, d, FALSE)
  <2>1. fsm_rtermack(e, f) = c
    BY <1>3 DEF fsm_rtermack
  <2>2. d \in Fsm /\ ~d.up /\ Keeps(f, d) /\ d.state = "OPENED"
    BY <1>0, <1>3, DownOf, DownKeeps
  <2> HIDE DEF d
  <2>3. /\ c.state = d.state /\ c.up = d.up /\ c.his = d.his /\ Renumbered(d, c)
        /\ Mail(c) = Mail(d) \cup {[code |-> "CONFREQ", id |-> c.reqid, opt |-> c.got]}
    BY <2>2, SconfreqKeeps
  <2> HIDE DEF c
  <2>4. Live(c) /\ ~Granted(c)
    BY <2>2, <2>3 DEF Live, Granted
  <2>5. /\ Mail(c) = {[code |-> "CONFREQ", id |-> c.reqid, opt |-> c.got]}
        /\ Renumbered(f, c) /\ c.his = f.his
    BY <2>2, <2>3 DEF Keeps, Renumbered
  <2>6. Plain(f, c)
    BY <2>4, <2>5, RequestPlain
  <2> QED
    BY <2>1, <2>6
<1>4. CASE f.state \notin Terminating \cup {"ACKRCVD", "OPENED"}
  <2>1. fsm_rtermack(e, f) = f
    BY <1>4, StateNames DEF fsm_rtermack
  <2> QED
    BY <1>0, <2>1, KeepsPlain
<1> QED
  BY <1>1, <1>2, <1>3, <1>4

\* A Code-Reject arrives.
LEMMA RcoderejPlain ==
  ASSUME NEW f, Sound(f), Mail(f) = {}
  PROVE  Plain(f, fsm_rcoderej(f))
<1>1. f.state = "ACKRCVD" => Plain(f, Enter(f, "REQSENT"))
  BY FallBackPlain
<1>2. Plain(f, f)
  BY KeepsPlain DEF Keeps
<1> QED
  BY <1>1, <1>2 DEF fsm_rcoderej

\* The peer rejects the protocol of an opened link.
LEMMA ProtrejectPlain ==
  ASSUME IdSize > 1, NEW f, Sound(f), Mail(f) = {}, f.state = "OPENED"
  PROVE  Plain(f, fsm_protreject(f))
<1> DEFINE d == lcp_down(f)
<1>1. fsm_protreject(f) = Enter(SendTermreq([d EXCEPT !.retransmits = MaxTermReqs]), "STOPPING")
  BY DEF fsm_protreject, Negotiating
<1>2. d \in Fsm /\ ~d.up /\ Keeps(f, d)
  BY DownOf, DownKeeps DEF Sound
<1> HIDE DEF d
<1> QED
  BY <1>1, <1>2, TerminatePlain

\* Echo messages that arrive.
LEMMA ExtcodePlain ==
  ASSUME NEW f, Sound(f), Mail(f) = {}, NEW pkt \in Packet
  PROVE  Plain(f, lcp_extcode(f, pkt))
<1>0. f \in Fsm /\ Keeps(f, f) /\ Same(f, f)
  BY DEF Sound, Keeps, Same
<1>1. Plain(f, f)
  BY <1>0, KeepsPlain
<1>2. Same(f, [f EXCEPT !.pending = 0])
  BY <1>0, Counters, OtherFields
<1>3. Same(f, fsm_sdata(f, "ECHOREP", pkt.id, NoOpt))
  <2>1. "ECHOREP" \in Code /\ pkt.id \in 0 .. IdSize - 1
    BY DEF Code, Packet
  <2> QED
    BY <1>0, <2>1, SdataKeeps DEF Same, Keeps
<1>4. Plain(f, [f EXCEPT !.pending = 0]) /\ Plain(f, fsm_sdata(f, "ECHOREP", pkt.id, NoOpt))
  BY <1>0, <1>1, <1>2, <1>3, SamePlain
<1> QED
  BY <1>1, <1>4 DEF lcp_extcode

\* A Configure-Nak or Configure-Reject arrives: what is asked for may change, and a side
\* that has a request out sends a new one.
LEMMA RconfnakrejPlain ==
  ASSUME IdSize > 1, NEW e \in Env, NEW f, Sound(f), Mail(f) = {}, NEW pkt \in Packet
  PROVE  Plain(f, fsm_rconfnakrej(e, f, pkt))
<1> DEFINE h == IF pkt.code = "CONFNAK" THEN lcp_nakci(e, f, pkt.opt) ELSE lcp_rejci(f)
           g == [h EXCEPT !.seen_ack = TRUE]
           u == untimeout(g)
<1>0. f \in Fsm /\ Plain(f, f)
  BY KeepsPlain DEF Sound, Keeps
<1>1. /\ h \in Fsm /\ h.id = f.id /\ h.reqid = f.reqid /\ h.his = f.his
      /\ h.state = f.state /\ h.up = f.up /\ Mail(h) = {}
  <2>1. \A v \in Adopts[e.me] : v \in Opt \cup {NoOpt}
    BY LinkAssumption DEF Env, Side
  <2>2. ASSUME NEW v \in Opt \cup {NoOpt}
        PROVE  /\ [f EXCEPT !.got = v] \in Fsm
               /\ [f EXCEPT !.got = v].id = f.id /\ [f EXCEPT !.got = v].reqid = f.reqid
               /\ [f EXCEPT !.got = v].his = f.his /\ [f EXCEPT !.got = v].state = f.state
               /\ [f EXCEPT !.got = v].up = f.up /\ [f EXCEPT !.got = v].out = f.out
    BY <1>0 DEF Fsm
  <2>3. h = f \/ \E v \in Opt \cup {NoOpt} : h = [f EXCEPT !.got = v]
    BY <2>1 DEF lcp_nakci, lcp_rejci
  <2> HIDE DEF h
  <2>4. /\ h \in Fsm /\ h.id = f.id /\ h.reqid = f.reqid /\ h.his = f.his
        /\ h.state = f.state /\ h.up = f.up /\ h.out = f.out
    <3>1. CASE h = f
      BY <1>0, <3>1
    <3>2. CASE \E v \in Opt \cup {NoOpt} : h = [f EXCEPT !.got = v]
      <4>1. PICK v \in Opt \cup {NoOpt} : h = [f EXCEPT !.got = v]
        BY <3>2
      <4> QED
        BY <2>2, <4>1
    <3> QED
      BY <2>3, <3>1, <3>2
  <2> QED
    BY <2>4 DEF Mail
<1> SUFFICES ASSUME ~(pkt.id # f.reqid \/ f.seen_ack \/ ~GoodNakRej(f, pkt.code, pkt.opt))
             PROVE  Plain(f, fsm_rconfnakrej(e, f, pkt))
  BY <1>0 DEF fsm_rconfnakrej
<1>2. fsm_rconfnakrej(e, f, pkt) =
        IF f.state \in {"CLOSED", "STOPPED"} THEN fsm_sdata(g, "TERMACK", pkt.id, NoOpt)
        ELSE IF f.state \in {"REQSENT", "ACKSENT"} THEN fsm_sconfreq(e, u, FALSE)
        ELSE IF f.state = "ACKRCVD" THEN Enter(fsm_sconfreq(e, u, FALSE), "REQSENT")
        ELSE IF f.state = "OPENED" THEN Renegotiate(e, g)
        ELSE g
  BY DEF fsm_rconfnakrej
<1> HIDE DEF h
<1>3. /\ g \in Fsm /\ g.id = f.id /\ g.reqid = f.reqid /\ g.his = f.his
      /\ g.state = f.state /\ g.up = f.up /\ Mail(g) = {}
  BY <1>1, SetSeenAck, OtherFields DEF Same, Keeps
<1> HIDE DEF g
<1>4. /\ u \in Fsm /\ u.id = f.id /\ u.his = f.his /\ u.state = f.state /\ u.up = f.up
      /\ Mail(u) = {}
  BY <1>3, UntimeoutOf, TimeoutSame DEF Same, Keeps
<1> HIDE DEF u
<1>5. ~Live(f) => Plain(f, g)
  BY <1>3 DEF Plain, Asks, NoAnswer, Live, Granted
<1>6. CASE f.state \in {"CLOSED", "STOPPED"}
  BY <1>2, <1>3, <1>5, <1>6, NotLive, TermackPlain
<1>7. CASE f.state \in {"REQSENT", "ACKSENT"}
  <2> DEFINE c == fsm_sconfreq(e, u, FALSE)
  <2>1. /\ c.state = u.state /\ c.up = u.up /\ c.his = u.his /\ Renumbered(u, c)
        /\ Mail(c) = Mail(u) \cup {[code |-> "CONFREQ", id |-> c.reqid, opt |-> c.got]}
    BY <1>4, SconfreqKeeps
  <2>2. fsm_rconfnakrej(e, f, pkt) = c
    BY <1>2, <1>7
  <2> HIDE DEF c
  <2>3. Live(c) /\ ~Granted(c)
    BY <1>4, <1>7, <2>1, SoundDown DEF Live, Granted, Negotiating
  <2>4. /\ Mail(c) = {[code |-> "CONFREQ", id |-> c.reqid, opt |-> c.got]}
        /\ Renumbered(f, c) /\ c.his = f.his
    BY <1>4, <2>1 DEF Renumbered
  <2>5. Plain(f, c)
    BY <2>3, <2>4, RequestPlain
  <2> QED
    BY <2>2, <2>5
<1>8. CASE f.state = "ACKRCVD"
  <2>1. ~u.up
    BY <1>4, <1>8, SoundDown
  <2> QED
    BY <1>2, <1>4, <1>8, <2>1, RequestAgainPlain
<1>9. CASE f.state = "OPENED"
  <2> DEFINE d == lcp_down(g)
  <2>1. d \in Fsm /\ ~d.up /\ d.id = f.id /\ d.his = f.his /\ Mail(d) = {}
    BY <1>3, DownOf, DownKeeps DEF Keeps
  <2>2. fsm_rconfnakrej(e, f, pkt) = Enter(fsm_sconfreq(e, d, FALSE), "REQSENT")
    BY <1>2, <1>9 DEF Renegotiate
  <2> HIDE DEF d
  <2> QED
    BY <2>1, <2>2, RequestAgainPlain
<1>10. CASE f.state \notin {"CLOSED", "STOPPED", "REQSENT", "ACKSENT", "ACKRCVD", "OPENED"}
  BY <1>2, <1>5, <1>10, StateNames DEF Live
<1> QED
  BY <1>6, <1>7, <1>8, <1>9, <1>10

\* A Configure-Ack arrives: the request it is for is granted, if that is the last one.
LEMMA RconfackAsks ==
  ASSUME IdSize > 1, NEW e \in Env, NEW f, Sound(f), Mail(f) = {}, NEW pkt \in Packet
  PROVE  /\ Asks(f, fsm_rconfack(e, f, pkt), pkt.id = f.reqid)
         /\ NoAnswer(f, fsm_rconfack(e, f, pkt))
<1> DEFINE g == [f EXCEPT !.seen_ack = TRUE]
           acked == pkt.id = f.reqid
<1>a. \A x : Plain(f, x) => Asks(f, x, acked) /\ NoAnswer(f, x)
  BY DEF Plain, Asks
<1>b. \A x : Keeps(f, x) /\ (Live(x) => Live(f)) /\ acked => Asks(f, x, acked) /\ NoAnswer(f, x)
  BY DEF Keeps, Asks, NoAnswer
<1> HIDE DEF acked
<1>0. f \in Fsm /\ Plain(f, f) /\ Same(f, f)
  BY KeepsPlain DEF Sound, Keeps, Same
<1>1. g \in Fsm /\ Same(f, g) /\ Plain(f, g)
  BY <1>0, SetSeenAck, OtherFields, SamePlain
<1>2. Keeps(f, g) /\ g.state = f.state /\ g.up = f.up /\ Mail(g) = {}
  BY <1>1 DEF Same, Keeps
<1>m. MaxConfReqs \in 0 .. (ConfReqs + MaxConfReqs + MaxTermReqs)
  BY Counters
<1> SUFFICES ASSUME ~(pkt.id # f.reqid \/ f.seen_ack \/ ~lcp_ackci(f, pkt.opt))
             PROVE  /\ Asks(f, fsm_rconfack(e, f, pkt), acked)
                    /\ NoAnswer(f, fsm_rconfack(e, f, pkt))
  BY <1>0, <1>a DEF fsm_rconfack, acked
<1>c. acked
  BY DEF acked
<1>3. CASE f.state \in {"CLOSED", "STOPPED"}
  <2>1. fsm_rconfack(e, f, pkt) = fsm_sdata(g, "TERMACK", pkt.id, NoOpt)
    BY <1>3 DEF fsm_rconfack
  <2> HIDE DEF g
  <2> QED
    BY <1>a, <1>1, <2>1, TermackPlain
<1>4. CASE f.state = "REQSENT"
  <2> DEFINE a == Enter(g, "ACKRCVD")
             r == [a EXCEPT !.retransmits = MaxConfReqs]
  <2>1. fsm_rconfack(e, f, pkt) = r
    BY <1>4 DEF fsm_rconfack
  <2> HIDE DEF g
  <2>2. a \in Fsm /\ Keeps(g, a)
    BY <1>1, SetState, EnterKeeps, StateNames
  <2> HIDE DEF a
  <2>3. Keeps(f, r)
    BY <1>m, <1>2, <2>2, OtherFields DEF Same, Keeps
  <2> HIDE DEF r
  <2>4. Live(f)
    BY <1>4, StateNames DEF Live
  <2> QED
    BY <1>b, <1>c, <2>1, <2>3, <2>4
<1>5. CASE f.state = "ACKRCVD"
  <2> DEFINE u == untimeout(g)
  <2>1. fsm_rconfack(e, f, pkt) = Enter(fsm_sconfreq(e, u, FALSE), "REQSENT")
    BY <1>5 DEF fsm_rconfack
  <2> HIDE DEF g
  <2>2. u \in Fsm /\ ~u.up /\ u.id = f.id /\ u.his = f.his /\ Mail(u) = {}
    BY <1>1, <1>2, <1>5, SoundDown, UntimeoutOf, TimeoutSame DEF Same, Keeps
  <2> HIDE DEF u
  <2> QED
    BY <1>a, <2>1, <2>2, RequestAgainPlain
<1>6. CASE f.state = "ACKSENT"
  <2> DEFINE u == untimeout(g)
             o == Enter(u, "OPENED")
             r == [o EXCEPT !.retransmits = MaxConfReqs]
  <2>1. fsm_rconfack(e, f, pkt) = lcp_up(e, r)
    BY <1>6 DEF fsm_rconfack
  <2> HIDE DEF g
  <2>2. u \in Fsm /\ Keeps(g, u)
    BY <1>1, UntimeoutOf, TimeoutSame DEF Same
  <2> HIDE DEF u
  <2>3. o \in Fsm /\ Keeps(u, o)
    BY <2>2, SetState, EnterKeeps, StateNames
  <2> HIDE DEF o
  <2>4. r \in Fsm /\ Keeps(o, r)
    BY <1>m, <2>3, SetRetransmits, OtherFields DEF Same
  <2> HIDE DEF r
  <2>5. Keeps(r, lcp_up(e, r))
    BY <2>4, UpKeeps
  <2>6. Keeps(f, lcp_up(e, r))
    BY <1>2, <2>2, <2>3, <2>4, <2>5 DEF Keeps
  <2>7. Live(f)
    BY <1>6, StateNames DEF Live
  <2> QED
    BY <1>b, <1>c, <2>1, <2>6, <2>7
<1>7. CASE f.state = "OPENED"
  <2> DEFINE d == lcp_down(g)
  <2>1. fsm_rconfack(e, f, pkt) = Enter(fsm_sconfreq(e, d, FALSE), "REQSENT")
    BY <1>7 DEF fsm_rconfack, Renegotiate
  <2> HIDE DEF g
  <2>2. d \in Fsm /\ ~d.up /\ d.id = f.id /\ d.his = f.his /\ Mail(d) = {}
    BY <1>1, <1>2, DownOf, DownKeeps DEF Keeps
  <2> HIDE DEF d
  <2> QED
    BY <1>a, <2>1, <2>2, RequestAgainPlain
<1>8. CASE f.state \notin {"CLOSED", "STOPPED", "REQSENT", "ACKRCVD", "ACKSENT", "OPENED"}
  <2>1. fsm_rconfack(e, f, pkt) = g
    BY <1>8 DEF fsm_rconfack
  <2> HIDE DEF g
  <2> QED
    BY <1>a, <1>1, <2>1
<1> QED
  BY <1>3, <1>4, <1>5, <1>6, <1>7, <1>8

-----------------------------------------------------------------------------
(***************************************************************************)
(* The answer to a request.                                                *)
(***************************************************************************)
\* The request pkt is acknowledged, or it is not.
Accepts(p, g, pkt) ==
    /\ pkt.opt \in Acceptable[p] \cup {NoOpt}
    /\ g.his = pkt.opt
    /\ \A m \in Mail(g) : m.code = "CONFACK" => m.id = pkt.id

Refuses(p, g, pkt) ==
    /\ pkt.opt \notin Acceptable[p] \cup {NoOpt}
    /\ \A m \in Mail(g) : m.code # "CONFACK"

\* The answer itself: the side keeps its own request.
LEMMA AnswerKeeps ==
  ASSUME NEW e \in Env, NEW f \in Fsm, NEW pkt \in Packet, ~f.up,
         \A m \in Mail(f) : m.code # "CONFACK"
  PROVE  LET g == AnswerRequest(e, f, pkt)
         IN  /\ g.id = f.id /\ g.reqid = f.reqid /\ g.got = f.got
             /\ \A m \in Mail(g) : m.code = "CONFREQ" => m \in Mail(f)
             /\ Live(g)
             /\ Granted(g) => f.state = "ACKRCVD"
             /\ Accepts(e.me, g, pkt) \/ Refuses(e.me, g, pkt)
<1> DEFINE a == lcp_reqci(e, pkt.opt, f.nakloops >= MaxNakLoops)
           v == IF a.code = "CONFACK" THEN pkt.opt ELSE NoOpt
           k == [f EXCEPT !.his = v]
           g == fsm_sdata(k, a.code, pkt.id, a.opt)
           s == IF f.state = "ACKRCVD" THEN "ACKRCVD" ELSE "REQSENT"
           n == IF a.code = "CONFNAK" THEN Enter(g, s).nakloops + 1 ELSE Enter(g, s).nakloops
           o == Enter(untimeout(g), "OPENED")
           up == lcp_up(e, o)
           z == AnswerRequest(e, f, pkt)
<1>0. pkt.opt \in Opt \cup {NoOpt} /\ pkt.id \in 0 .. IdSize - 1
  BY DEF Packet
<1>1. /\ a.code \in {"CONFACK", "CONFREJ", "CONFNAK"}
      /\ a.opt \in Opt \cup {NoOpt}
      /\ a.code = "CONFACK" <=> pkt.opt \in Acceptable[e.me] \cup {NoOpt}
      /\ a.code = "CONFNAK" => ~(f.nakloops >= MaxNakLoops)
  <2>1. Hint[e.me] \in Opt
    BY LinkAssumption DEF Env, Side
  <2> QED
    BY <1>0, <2>1 DEF lcp_reqci
<1>2. z = IF a.code = "CONFACK"
          THEN IF f.state = "ACKRCVD" THEN [up EXCEPT !.nakloops = 0]
               ELSE [Enter(g, "ACKSENT") EXCEPT !.nakloops = 0]
          ELSE [Enter(g, s) EXCEPT !.nakloops = n]
  BY DEF AnswerRequest
<1> HIDE DEF a, z
<1>3. v \in Opt \cup {NoOpt}
  BY <1>0
<1>4. /\ k \in Fsm /\ Alike(f, k) /\ k.his = v
      /\ k.id = f.id /\ k.reqid = f.reqid /\ k.got = f.got /\ Mail(k) = Mail(f)
      /\ k.state = f.state /\ k.up = f.up
  <2> HIDE DEF v
  <2>1. k \in Fsm /\ Alike(f, k)
    BY <1>3, SetHis
  <2>2. /\ k.his = v /\ k.id = f.id /\ k.reqid = f.reqid /\ k.got = f.got /\ k.out = f.out
        /\ k.state = f.state /\ k.up = f.up
    BY DEF Fsm
  <2> HIDE DEF k
  <2> QED
    BY <2>1, <2>2 DEF Mail
<1> HIDE DEF k
<1>5. /\ g \in Fsm /\ Alike(k, g) /\ g.his = v
      /\ g.id = f.id /\ g.reqid = f.reqid /\ g.got = f.got
      /\ g.state = f.state /\ ~g.up
      /\ a.code = "CONFACK" =>
            Mail(g) = Mail(f) \cup {[code |-> "CONFACK", id |-> pkt.id, opt |-> a.opt]}
      /\ a.code # "CONFACK" => Mail(g) = Mail(f)
  <2>1. a.code \in Code
    BY <1>1 DEF Code
  <2> QED
    BY <1>0, <1>1, <1>4, <2>1, SdataOf, SdataKeeps
<1> HIDE DEF g
<1>6. \A m \in Mail(g) : m.code = "CONFREQ" => m \in Mail(f)
  BY <1>5
<1>7. /\ a.code = "CONFACK" => \A m \in Mail(g) : m.code = "CONFACK" => m.id = pkt.id
      /\ a.code # "CONFACK" => \A m \in Mail(g) : m.code # "CONFACK"
  BY <1>5
<1>8. 0 \in 0 .. MaxNakLoops
  BY Counters
<1>9. /\ Keeps(g, z) /\ Live(z)
      /\ Granted(z) => f.state = "ACKRCVD"
  <2>1. CASE a.code = "CONFACK" /\ f.state = "ACKRCVD"
    <3> DEFINE u == untimeout(g)
    <3>1. u \in Fsm /\ Keeps(g, u)
      BY <1>5, UntimeoutOf, TimeoutSame DEF Same
    <3>2. o \in Fsm /\ Keeps(u, o) /\ o.state = "OPENED"
      BY <3>1, SetState, EnterKeeps, StateNames
    <3> HIDE DEF u, o
    <3>3. up \in Fsm /\ Keeps(o, up) /\ up.state = "OPENED"
      BY <3>2, UpSound, UpKeeps DEF Sound
    <3> HIDE DEF up
    <3>4. Same(up, [up EXCEPT !.nakloops = 0])
      BY <1>8, <3>3, OtherFields
    <3>5. z = [up EXCEPT !.nakloops = 0]
      BY <1>2, <2>1
    <3> QED
      BY <2>1, <3>1, <3>2, <3>3, <3>4, <3>5 DEF Same, Keeps, Live
  <2>2. CASE a.code = "CONFACK" /\ f.state # "ACKRCVD"
    <3> DEFINE w == Enter(g, "ACKSENT")
    <3>1. z = [w EXCEPT !.nakloops = 0]
      BY <1>2, <2>2
    <3>2. w \in Fsm /\ Keeps(g, w) /\ w.state = "ACKSENT" /\ ~w.up
      BY <1>5, SetState, EnterKeeps, StateNames
    <3> HIDE DEF w
    <3>3. Same(w, z)
      BY <1>8, <3>1, <3>2, OtherFields
    <3> QED
      BY <3>2, <3>3 DEF Same, Keeps, Live, Granted, Negotiating
  <2>3. CASE a.code # "CONFACK"
    <3> DEFINE w == Enter(g, s)
    <3>1. z = [w EXCEPT !.nakloops = n]
      BY <1>2, <2>3
    <3>2. s \in State /\ s \in Negotiating /\ (s = "ACKRCVD" => f.state = "ACKRCVD")
      BY StateNames
    <3>3. w.nakloops = f.nakloops
      BY <1>4, <1>5, <3>2, SetState DEF Alike
    <3>4. n \in 0 .. MaxNakLoops
      <4>1. f.nakloops \in 0 .. MaxNakLoops
        BY DEF Fsm
      <4> QED
        BY <1>1, <3>3, <4>1, Counters
    <3> HIDE DEF s, n
    <3>5. w \in Fsm /\ Keeps(g, w) /\ w.state = s /\ ~w.up
      BY <1>5, <3>2, SetState, EnterKeeps
    <3> HIDE DEF w
    <3>6. Same(w, z)
      BY <3>1, <3>4, <3>5, OtherFields
    <3> QED
      BY <3>2, <3>5, <3>6 DEF Same, Keeps, Live, Granted
  <2> QED
    BY <2>1, <2>2, <2>3
<1>10. Accepts(e.me, z, pkt) \/ Refuses(e.me, z, pkt)
  BY <1>1, <1>5, <1>7, <1>9 DEF Accepts, Refuses, Keeps
<1> QED
  BY <1>5, <1>6, <1>9, <1>10 DEF Keeps, z

\* A Configure-Request arrives.
LEMMA RconfreqAsks ==
  ASSUME IdSize > 1, NEW e \in Env, NEW f, Sound(f), Mail(f) = {}, NEW pkt \in Packet,
         f.state \notin {"INITIAL", "STARTING"}
  PROVE  /\ Asks(f, fsm_rconfreq(e, f, pkt), FALSE)
         /\ \/ NoAnswer(f, fsm_rconfreq(e, f, pkt))
            \/ Accepts(e.me, fsm_rconfreq(e, f, pkt), pkt)
            \/ Refuses(e.me, fsm_rconfreq(e, f, pkt), pkt)
<1>0. f \in Fsm /\ Plain(f, f)
  BY KeepsPlain DEF Sound, Keeps
<1>1. ASSUME NEW d \in Fsm, ~d.up, d.state # "ACKRCVD", Renumbered(f, d), d.his = f.his,
             Mail(d) = {[code |-> "CONFREQ", id |-> d.reqid, opt |-> d.got]}
      PROVE  /\ Asks(f, AnswerRequest(e, d, pkt), FALSE)
             /\ Accepts(e.me, AnswerRequest(e, d, pkt), pkt)
                  \/ Refuses(e.me, AnswerRequest(e, d, pkt), pkt)
  <2> DEFINE g == AnswerRequest(e, d, pkt)
  <2>1. \A m \in Mail(d) : m.code # "CONFACK" /\ m.id = d.reqid /\ m.opt = d.got
    BY <1>1
  <2>2. /\ g.id = d.id /\ g.reqid = d.reqid /\ g.got = d.got
        /\ \A m \in Mail(g) : m.code = "CONFREQ" => m \in Mail(d)
        /\ Live(g)
        /\ Granted(g) => d.state = "ACKRCVD"
        /\ Accepts(e.me, g, pkt) \/ Refuses(e.me, g, pkt)
    BY <1>1, <2>1, AnswerKeeps
  <2> HIDE DEF g
  <2>3. Asks(f, g, FALSE)
    BY <1>1, <2>1, <2>2 DEF Asks, Renumbered
  <2> QED
    BY <2>2, <2>3 DEF g
<1>2. CASE f.state = "CLOSED"
  <2>1. fsm_rconfreq(e, f, pkt) = fsm_sdata(f, "TERMACK", pkt.id, NoOpt)
    BY <1>2 DEF fsm_rconfreq, Terminating
  <2>2. Plain(f, fsm_sdata(f, "TERMACK", pkt.id, NoOpt))
    BY <1>0, TermackPlain
  <2> QED
    BY <2>1, <2>2 DEF Plain
<1>3. CASE f.state \in Terminating
  <2>1. fsm_rconfreq(e, f, pkt) = f
    BY <1>3 DEF fsm_rconfreq, Terminating
  <2> QED
    BY <1>0, <2>1 DEF Plain
<1>4. CASE f.state = "OPENED"
  <2> DEFINE d == lcp_down(f)
             c == fsm_sconfreq(e, d, FALSE)
  <2>1. fsm_rconfreq(e, f, pkt) = AnswerRequest(e, c, pkt)
    BY <1>4 DEF fsm_rconfreq, Terminating
  <2>2. d \in Fsm /\ ~d.up /\ Keeps(f, d) /\ d.state = "OPENED"
    BY <1>0, <1>4, DownOf, DownKeeps
  <2> HIDE DEF d
  <2>3. /\ c \in Fsm /\ c.state = d.state /\ c.up = d.up /\ c.his = d.his /\ Renumbered(d, c)
        /\ Mail(c) = Mail(d) \cup {[code |-> "CONFREQ", id |-> c.reqid, opt |-> c.got]}
    BY <2>2, SconfreqOf, SconfreqKeeps
  <2> HIDE DEF c
  <2>4. /\ ~c.up /\ c.state # "ACKRCVD" /\ Renumbered(f, c) /\ c.his = f.his
        /\ Mail(c) = {[code |-> "CONFREQ", id |-> c.reqid, opt |-> c.got]}
    BY <2>2, <2>3 DEF Keeps, Renumbered
  <2> QED
    BY <1>1, <2>1, <2>3, <2>4
<1>5. CASE f.state = "STOPPED"
  <2> DEFINE c == fsm_sconfreq(e, f, FALSE)
             d == Enter(c, "REQSENT")
  <2>1. fsm_rconfreq(e, f, pkt) = AnswerRequest(e, d, pkt)
    BY <1>5 DEF fsm_rconfreq, Terminating
  <2>2. /\ c \in Fsm /\ c.up = f.up /\ c.his = f.his /\ Renumbered(f, c)
        /\ Mail(c) = Mail(f) \cup {[code |-> "CONFREQ", id |-> c.reqid, opt |-> c.got]}
    BY <1>0, SconfreqOf, SconfreqKeeps
  <2> HIDE DEF c
  <2>3. d \in Fsm /\ Keeps(c, d) /\ d.state = "REQSENT" /\ d.up = c.up
    BY <2>2, SetState, EnterKeeps, StateNames
  <2> HIDE DEF d
  <2>4. /\ ~d.up /\ d.state # "ACKRCVD" /\ Renumbered(f, d) /\ d.his = f.his
        /\ Mail(d) = {[code |-> "CONFREQ", id |-> d.reqid, opt |-> d.got]}
    BY <1>5, <2>2, <2>3, SoundDown DEF Keeps, Renumbered
  <2> QED
    BY <1>1, <2>1, <2>3, <2>4
<1>6. CASE f.state \in Negotiating
  <2> DEFINE g == AnswerRequest(e, f, pkt)
  <2>1. fsm_rconfreq(e, f, pkt) = g
    BY <1>6 DEF fsm_rconfreq, Terminating, Negotiating
  <2>2. ~f.up
    BY <1>6, SoundDown, StateNames
  <2>3. /\ g.id = f.id /\ g.reqid = f.reqid /\ g.got = f.got
        /\ \A m \in Mail(g) : m.code = "CONFREQ" => m \in Mail(f)
        /\ Live(g)
        /\ Granted(g) => f.state = "ACKRCVD"
        /\ Accepts(e.me, g, pkt) \/ Refuses(e.me, g, pkt)
    BY <1>0, <2>2, AnswerKeeps
  <2> HIDE DEF g
  <2>4. Live(f)
    BY <1>6 DEF Live
  <2>5. Asks(f, g, FALSE)
    BY <2>3, <2>4 DEF Asks, Granted
  <2> QED
    BY <2>1, <2>3, <2>5
<1> QED
  BY <1>0, <1>2, <1>3, <1>4, <1>5, <1>6, StateNames DEF Fsm

\* Any packet arrives: only a Configure-Ack grants a request, and only a Configure-Request
\* is acknowledged.
LEMMA InputAsks ==
  ASSUME IdSize > 1, NEW e \in Env, NEW f, Sound(f), Mail(f) = {}, NEW pkt \in Packet
  PROVE  LET g == fsm_input(e, f, pkt)
         IN  /\ Asks(f, g, pkt.code = "CONFACK" /\ pkt.id = f.reqid)
             /\ \/ NoAnswer(f, g)
                \/ pkt.code = "CONFREQ" /\ (Accepts(e.me, g, pkt) \/ Refuses(e.me, g, pkt))
<1> DEFINE g == fsm_input(e, f, pkt)
           acked == pkt.code = "CONFACK" /\ pkt.id = f.reqid
<1>a. \A x : Asks(f, x, FALSE) => Asks(f, x, acked)
  BY DEF Asks
<1>p. \A x : Plain(f, x) => Asks(f, x, acked) /\ NoAnswer(f, x)
  BY <1>a DEF Plain
<1>1. CASE f.state \in {"INITIAL", "STARTING"}
  <2>1. g = f
    BY <1>1 DEF fsm_input
  <2>2. Plain(f, f)
    BY KeepsPlain DEF Keeps
  <2> HIDE DEF g, acked
  <2> QED
    BY <1>p, <2>1, <2>2 DEF g, acked
<1>2. CASE f.state \notin {"INITIAL", "STARTING"} /\ pkt.code = "CONFREQ"
  <2>1. g = fsm_rconfreq(e, f, pkt)
    BY <1>2 DEF fsm_input
  <2>2. /\ Asks(f, g, FALSE)
        /\ NoAnswer(f, g) \/ Accepts(e.me, g, pkt) \/ Refuses(e.me, g, pkt)
    BY <1>2, <2>1, RconfreqAsks
  <2> HIDE DEF g, acked
  <2> QED
    BY <1>a, <1>2, <2>2 DEF g, acked
<1>3. CASE f.state \notin {"INITIAL", "STARTING"} /\ pkt.code = "CONFACK"
  <2>1. g = fsm_rconfack(e, f, pkt)
    BY <1>3 DEF fsm_input
  <2>2. Asks(f, g, pkt.id = f.reqid) /\ NoAnswer(f, g)
    BY <2>1, RconfackAsks
  <2> HIDE DEF g
  <2>3. Asks(f, g, acked)
    BY <1>3, <2>2 DEF Asks
  <2> QED
    BY <2>2, <2>3 DEF g
<1>4. CASE f.state \notin {"INITIAL", "STARTING"} /\ pkt.code \notin {"CONFREQ", "CONFACK"}
  <2>1. g \in {fsm_rconfnakrej(e, f, pkt), fsm_rtermreq(f, pkt), fsm_rtermack(e, f),
               lcp_extcode(f, pkt)}
    BY <1>4 DEF fsm_input
  <2>2. Plain(f, g)
    BY <2>1, RconfnakrejPlain, RtermreqPlain, RtermackPlain, ExtcodePlain
  <2> HIDE DEF g, acked
  <2> QED
    BY <1>p, <2>2 DEF g, acked
<1> QED
  BY <1>1, <1>2, <1>3, <1>4

-----------------------------------------------------------------------------
(***************************************************************************)
(* The link keeps the order of packets, so once the last request of a side *)
(* is acknowledged no other is on its way to the peer, and what the peer   *)
(* acknowledged last is what the side asks for.                            *)
(***************************************************************************)
\* Side f, with the packets c on their way to the peer and d on theirs to f; the peer
\* acknowledges the options of A and has last acknowledged h.
Terms(f, h, A, c, d) ==
    Live(f) =>
        /\ \A i \in RequestsIn(c) : c[i].id = f.reqid => c[i].opt = f.got
        /\ \A i, j \in RequestsIn(c) : i <= j /\ c[i].id = f.reqid => c[j].id = f.reqid
        /\ Granted(f) \/ Acked(d, f.reqid) =>
              /\ f.got = h /\ f.got \in A
              /\ \A i \in RequestsIn(c) : c[i].id = f.reqid

\* The packets d less at most the first, and the packets c with some of f's mail behind.
Shortened(d, w) ==
    \E k \in {0, 1} : \A i \in DOMAIN w : i + k \in DOMAIN d /\ w[i] = d[i + k]
Lengthened(c, w, f) ==
    \A i \in DOMAIN w :
        \/ i \in DOMAIN c /\ w[i] = c[i]
        \/ /\ \A j \in DOMAIN c : j < i
           /\ w[i].code \in {"CONFREQ", "CONFACK"} => w[i] \in Mail(f)

\* Fewer packets hold fewer acknowledgements.
LEMMA ShortenedAcked ==
  ASSUME NEW d, NEW w, Shortened(d, w), NEW r, Acked(w, r)
  PROVE  Acked(d, r)
<1>1. PICK k \in {0, 1} : \A i \in DOMAIN w : i + k \in DOMAIN d /\ w[i] = d[i + k]
  BY DEF Shortened
<1>2. PICK i \in DOMAIN w : w[i].code = "CONFACK" /\ w[i].id = r
  BY DEF Acked
<1>3. i + k \in DOMAIN d /\ d[i + k].code = "CONFACK" /\ d[i + k].id = r
  BY <1>1, <1>2
<1> QED
  BY <1>3 DEF Acked

\* A step of a side and its own request.
LEMMA RequesterStep ==
  ASSUME NEW f, NEW g, NEW h, NEW A, NEW c \in Seq(Packet), NEW c2 \in Seq(Packet),
         NEW d, NEW d2, NEW acked \in BOOLEAN,
         Terms(f, h, A, c, d), Asks(f, g, acked), acked => Acked(d, f.reqid),
         Lengthened(c, c2, g), Shortened(d, d2),
         g.id # f.id => /\ \A i \in RequestsIn(c) : c[i].id # g.id
                        /\ ~Acked(d, g.id)
  PROVE  Terms(g, h, A, c2, d2)
<1> SUFFICES ASSUME Live(g) PROVE Terms(g, h, A, c2, d2)
  BY DEF Terms
<1>1. \A i \in RequestsIn(c2) :
         \/ i \in RequestsIn(c) /\ c2[i] = c[i]
         \/ (\A j \in DOMAIN c : j < i) /\ c2[i].id = g.reqid /\ c2[i].opt = g.got
  BY DEF RequestsIn, Lengthened, Asks
<1>2. DOMAIN c \subseteq Int /\ DOMAIN c2 \subseteq Int /\ RequestsIn(c) \subseteq DOMAIN c
      /\ RequestsIn(c2) \subseteq DOMAIN c2
  BY DEF RequestsIn
<1>3. CASE Renumbered(f, g) /\ ~Granted(g)
  <2>1. (\A i \in RequestsIn(c) : c[i].id # g.reqid) /\ ~Acked(d, g.reqid)
    BY <1>3 DEF Renumbered
  <2>2. ~Acked(d2, g.reqid)
    BY <2>1, ShortenedAcked
  <2>3. \A i \in RequestsIn(c2) : c2[i].id = g.reqid => c2[i].opt = g.got
    BY <1>1, <2>1
  <2>4. \A i, j \in RequestsIn(c2) : i <= j /\ c2[i].id = g.reqid => c2[j].id = g.reqid
    <3> SUFFICES ASSUME NEW i \in RequestsIn(c2), NEW j \in RequestsIn(c2), i <= j,
                        c2[i].id = g.reqid
                 PROVE  c2[j].id = g.reqid
      OBVIOUS
    <3>1. \A k \in DOMAIN c : k < i
      BY <1>1, <2>1
    <3>2. i \in Int /\ j \in Int
      BY <1>2
    <3>3. j \notin DOMAIN c
      BY <1>2, <3>1, <3>2
    <3> QED
      BY <1>1, <1>2, <3>3
  <2> QED
    BY <1>3, <2>2, <2>3, <2>4 DEF Terms
<1>4. CASE /\ g.reqid = f.reqid /\ g.id = f.id
           /\ Live(g) => Live(f) /\ g.got = f.got
           /\ Granted(g) => Granted(f) \/ acked
  <2>1. /\ \A i \in RequestsIn(c) : c[i].id = g.reqid => c[i].opt = g.got
        /\ \A i, j \in RequestsIn(c) : i <= j /\ c[i].id = g.reqid => c[j].id = g.reqid
        /\ Granted(f) \/ Acked(d, g.reqid) =>
              /\ g.got = h /\ g.got \in A
              /\ \A i \in RequestsIn(c) : c[i].id = g.reqid
    BY <1>4 DEF Terms
  <2>2. \A i \in RequestsIn(c2) : c2[i].id = g.reqid => c2[i].opt = g.got
    BY <1>1, <2>1
  <2>3. \A i, j \in RequestsIn(c2) : i <= j /\ c2[i].id = g.reqid => c2[j].id = g.reqid
    <3> SUFFICES ASSUME NEW i \in RequestsIn(c2), NEW j \in RequestsIn(c2), i <= j,
                        c2[i].id = g.reqid
                 PROVE  c2[j].id = g.reqid
      OBVIOUS
    <3>1. i \in Int /\ j \in Int
      BY <1>2
    <3>2. CASE j \in RequestsIn(c) /\ c2[j] = c[j]
      <4>1. ~(\A k \in DOMAIN c : k < i)
        BY <1>2, <3>1, <3>2
      <4>2. i \in RequestsIn(c) /\ c2[i] = c[i]
        BY <1>1, <4>1
      <4> QED
        BY <2>1, <3>2, <4>2
    <3> QED
      BY <1>1, <3>2
  <2>4. Granted(g) \/ Acked(d2, g.reqid) => Granted(f) \/ Acked(d, g.reqid)
    BY <1>4, ShortenedAcked
  <2>5. ASSUME Granted(g) \/ Acked(d2, g.reqid)
        PROVE  g.got = h /\ g.got \in A /\ \A i \in RequestsIn(c2) : c2[i].id = g.reqid
    BY <1>1, <2>1, <2>4, <2>5
  <2> QED
    BY <2>2, <2>3, <2>5 DEF Terms
<1> QED
  BY <1>3, <1>4 DEF Asks

\* A step of the peer and the request of a side.
LEMMA AnswererStep ==
  ASSUME NEW p, NEW f, NEW old, NEW g, NEW c \in Seq(Packet), NEW c2 \in Seq(Packet),
         NEW d \in Seq(Packet), NEW d2 \in Seq(Packet),
         Terms(f, old.his, Acceptable[p] \cup {NoOpt}, c, d),
         Lengthened(d, d2, g), Shortened(c, c2),
         \/ NoAnswer(old, g)
         \/ /\ c # << >> /\ Head(c).code = "CONFREQ" /\ c2 = Tail(c)
            /\ Accepts(p, g, Head(c)) \/ Refuses(p, g, Head(c))
  PROVE  Terms(f, g.his, Acceptable[p] \cup {NoOpt}, c2, d2)
<1> DEFINE A == Acceptable[p] \cup {NoOpt}
           h == old.his
<1> SUFFICES ASSUME Live(f) PROVE Terms(f, g.his, A, c2, d2)
  BY DEF Terms
<1>1. /\ \A i \in RequestsIn(c) : c[i].id = f.reqid => c[i].opt = f.got
      /\ \A i, j \in RequestsIn(c) : i <= j /\ c[i].id = f.reqid => c[j].id = f.reqid
      /\ Granted(f) \/ Acked(d, f.reqid) =>
            /\ f.got = h /\ f.got \in A
            /\ \A i \in RequestsIn(c) : c[i].id = f.reqid
  BY DEF Terms
<1> HIDE DEF A
<1>2. PICK k \in {0, 1} : \A i \in DOMAIN c2 : i + k \in DOMAIN c /\ c2[i] = c[i + k]
  BY DEF Shortened
<1>3. \A i \in RequestsIn(c2) : i \in Int /\ i + k \in RequestsIn(c) /\ c2[i] = c[i + k]
  BY <1>2 DEF RequestsIn
<1>4. \A i \in RequestsIn(c2) : c2[i].id = f.reqid => c2[i].opt = f.got
  BY <1>1, <1>3
<1>5. \A i, j \in RequestsIn(c2) : i <= j /\ c2[i].id = f.reqid => c2[j].id = f.reqid
  <2> SUFFICES ASSUME NEW i \in RequestsIn(c2), NEW j \in RequestsIn(c2), i <= j,
                      c2[i].id = f.reqid
               PROVE  c2[j].id = f.reqid
    OBVIOUS
  <2>1. i + k <= j + k /\ i + k \in RequestsIn(c) /\ j + k \in RequestsIn(c)
        /\ c2[i] = c[i + k] /\ c2[j] = c[j + k]
    BY <1>3
  <2> QED
    BY <1>1, <2>1
<1>6. \A r : Acked(d2, r) => Acked(d, r) \/ \E m \in Mail(g) : m.code = "CONFACK" /\ m.id = r
  BY DEF Acked, Lengthened
<1>7. CASE NoAnswer(old, g)
  <2>1. g.his = h /\ (Acked(d2, f.reqid) => Acked(d, f.reqid))
    BY <1>6, <1>7 DEF NoAnswer
  <2>2. Granted(f) \/ Acked(d2, f.reqid) =>
            /\ f.got = g.his /\ f.got \in A
            /\ \A i \in RequestsIn(c2) : c2[i].id = f.reqid
    BY <1>1, <1>3, <2>1
  <2> QED
    BY <1>4, <1>5, <2>2 DEF Terms
<1>8. CASE /\ c # << >> /\ Head(c).code = "CONFREQ" /\ c2 = Tail(c)
           /\ Accepts(p, g, Head(c)) \/ Refuses(p, g, Head(c))
  <2> DEFINE pkt == Head(c)
  <2>1. pkt = c[1] /\ 1 \in RequestsIn(c)
    BY <1>8 DEF RequestsIn
  <2>2. \A i \in RequestsIn(c) : i \in Int /\ 1 <= i
    BY DEF RequestsIn
  <2> HIDE DEF pkt
  <2>3. pkt.id = f.reqid => pkt.opt = f.got /\ \A i \in RequestsIn(c) : c[i].id = f.reqid
    BY <1>1, <2>1, <2>2
  <2>4. Granted(f) \/ Acked(d, f.reqid) => pkt.id = f.reqid /\ f.got \in A
    BY <1>1, <2>1
  <2>5. CASE Accepts(p, g, pkt)
    <3>1. Acked(d2, f.reqid) => Acked(d, f.reqid) \/ pkt.id = f.reqid
      BY <1>6, <2>5 DEF Accepts
    <3>2. g.his = pkt.opt /\ pkt.opt \in A
      BY <2>5 DEF Accepts, A
    <3>3. Granted(f) \/ Acked(d2, f.reqid) =>
              /\ f.got = g.his /\ f.got \in A
              /\ \A i \in RequestsIn(c2) : c2[i].id = f.reqid
      BY <1>3, <2>3, <2>4, <3>1, <3>2
    <3> QED
      BY <1>4, <1>5, <3>3 DEF Terms
  <2>6. CASE Refuses(p, g, pkt)
    <3>1. Acked(d2, f.reqid) => Acked(d, f.reqid)
      BY <1>6, <2>6 DEF Refuses
    <3>2. pkt.opt \notin A
      BY <2>6 DEF Refuses, A
    <3>3. ~(Granted(f) \/ Acked(d2, f.reqid))
      BY <2>3, <2>4, <3>1, <3>2
    <3> QED
      BY <1>4, <1>5, <3>3 DEF Terms
  <2> QED
    BY <1>8, <2>5, <2>6 DEF pkt
<1> QED
  BY <1>7, <1>8

Agreed ==
    \A p \in Side : Terms(fsm[p], fsm[Other(p)].his, Acceptable[Other(p)] \cup {NoOpt},
                          chan[Other(p)], chan[p])

\* No id is taken that a packet on its way has.
FreshStep ==
    \A p \in Side : fsm'[p].id # fsm[p].id =>
            /\ \A i \in RequestsIn(chan[Other(p)]) : chan[Other(p)][i].id # fsm'[p].id
            /\ ~Acked(chan[p], fsm'[p].id)

\* Terms reads the fields that are compared here.
LEMMA TermsOf ==
  ASSUME NEW f, NEW g, NEW h, NEW A, NEW c, NEW d, Terms(f, h, A, c, d),
         g.state = f.state, g.up = f.up, g.reqid = f.reqid, g.got = f.got
  PROVE  Terms(g, h, A, c, d)
BY DEF Terms, Live, Granted

\* Side p becomes g, whose mail joins the packets on their way to the other side.
LEMMA SideStep ==
  ASSUME SoundLink, SoundLink', Agreed, FreshStep, NEW p \in Side, NEW g, NEW acked \in BOOLEAN,
         fsm'[Other(p)] = fsm[Other(p)],
         fsm'[p].state = g.state, fsm'[p].up = g.up, fsm'[p].id = g.id,
         fsm'[p].reqid = g.reqid, fsm'[p].got = g.got, fsm'[p].his = g.his,
         Shortened(chan[p], chan'[p]), Lengthened(chan[Other(p)], chan'[Other(p)], g),
         Asks(fsm[p], g, acked), acked => Acked(chan[p], fsm[p].reqid),
         \/ NoAnswer(fsm[p], g)
         \/ /\ chan[p] # << >> /\ Head(chan[p]).code = "CONFREQ" /\ chan'[p] = Tail(chan[p])
            /\ Accepts(p, g, Head(chan[p])) \/ Refuses(p, g, Head(chan[p]))
  PROVE  Agreed'
<1> DEFINE q == Other(p)
<1>1. q \in Side /\ Other(q) = p /\ Side = {p, q}
  BY DEF Other, Side
<1>2. /\ chan[p] \in Seq(Packet) /\ chan[q] \in Seq(Packet)
      /\ chan'[p] \in Seq(Packet) /\ chan'[q] \in Seq(Packet)
  BY <1>1 DEF SoundLink, TypeOK
<1>3. /\ Terms(fsm[p], fsm[q].his, Acceptable[q] \cup {NoOpt}, chan[q], chan[p])
      /\ Terms(fsm[q], fsm[p].his, Acceptable[p] \cup {NoOpt}, chan[p], chan[q])
  BY <1>1 DEF Agreed
<1>4. g.id # fsm[p].id => /\ \A i \in RequestsIn(chan[q]) : chan[q][i].id # g.id
                          /\ ~Acked(chan[p], g.id)
  BY DEF FreshStep
<1> HIDE DEF q
<1>5. Lengthened(chan[q], chan'[q], g) /\ fsm'[q] = fsm[q]
  BY DEF q
<1>6. Terms(g, fsm[q].his, Acceptable[q] \cup {NoOpt}, chan'[q], chan'[p])
  BY <1>2, <1>3, <1>4, <1>5, RequesterStep
<1>7. Terms(fsm[q], g.his, Acceptable[p] \cup {NoOpt}, chan'[p], chan'[q])
  BY <1>2, <1>3, <1>5, AnswererStep
<1>8. Terms(fsm'[p], fsm[q].his, Acceptable[q] \cup {NoOpt}, chan'[q], chan'[p])
  BY <1>6, TermsOf
<1>9. Terms(fsm'[p], fsm'[q].his, Acceptable[q] \cup {NoOpt}, chan'[q], chan'[p])
  BY <1>5, <1>8
<1>10. Terms(fsm'[q], fsm'[p].his, Acceptable[p] \cup {NoOpt}, chan'[p], chan'[q])
  BY <1>5, <1>7
<1> QED
  BY <1>1, <1>9, <1>10 DEF Agreed, q

\* Packets are not changed by others behind them, nor by the loss of those the queue has no
\* room for.
LEMMA LengthenedBy ==
  ASSUME NEW c \in Seq(Packet), NEW g \in Fsm, NEW n \in Nat, n <= Len(c \o g.out)
  PROVE  Lengthened(c, SubSeq(c \o g.out, 1, n), g)
<1> DEFINE s == g.out
           m == c \o s
           w == SubSeq(m, 1, n)
<1>1. s \in Seq(Packet)
  BY DEF Fsm
<1>2. \A i \in DOMAIN s : s[i].code \in {"CONFREQ", "CONFACK"} => s[i] \in Mail(g)
  BY DEF Mail
<1> HIDE DEF s
<1>3. /\ m \in Seq(Packet) /\ Len(m) = Len(c) + Len(s)
      /\ \A i \in 1 .. Len(c) + Len(s) : m[i] = IF i <= Len(c) THEN c[i] ELSE s[i - Len(c)]
  BY <1>1
<1>4. n <= Len(m) /\ Len(c) \in Nat /\ Len(s) \in Nat /\ DOMAIN c = 1 .. Len(c)
      /\ DOMAIN s = 1 .. Len(s)
  BY <1>1 DEF s
<1> HIDE DEF m
<1>5. DOMAIN w = 1 .. n /\ \A i \in 1 .. n : w[i] = m[i]
  BY <1>3, <1>4
<1> HIDE DEF w
<1>6. ASSUME NEW i \in DOMAIN w
      PROVE  \/ i \in DOMAIN c /\ w[i] = c[i]
             \/ /\ \A j \in DOMAIN c : j < i
                /\ w[i].code \in {"CONFREQ", "CONFACK"} => w[i] \in Mail(g)
  <2>1. i \in 1 .. n /\ i \in 1 .. Len(c) + Len(s)
    BY <1>3, <1>4, <1>5
  <2>2. CASE i <= Len(c)
    BY <1>3, <1>4, <1>5, <2>1, <2>2
  <2>3. CASE ~(i <= Len(c))
    <3>1. i - Len(c) \in DOMAIN s /\ w[i] = s[i - Len(c)]
      BY <1>3, <1>4, <1>5, <2>1, <2>3
    <3>2. \A j \in DOMAIN c : j < i
      BY <1>4, <2>1, <2>3
    <3> QED
      BY <1>2, <3>1, <3>2
  <2> QED
    BY <2>2, <2>3
<1>7. Lengthened(c, w, g)
  BY <1>6 DEF Lengthened
<1> QED
  BY <1>7 DEF w, m, s

\* All the packets, or all but the first.
LEMMA ShortenedBy ==
  ASSUME NEW d \in Seq(Packet)
  PROVE  Shortened(d, d) /\ (d # << >> => Shortened(d, Tail(d)))
<1>1. \A i \in DOMAIN d : i + 0 = i
  OBVIOUS
<1>2. Shortened(d, d)
  BY <1>1 DEF Shortened
<1>3. ASSUME d # << >> PROVE Shortened(d, Tail(d))
  <2>1. \A i \in DOMAIN Tail(d) : i + 1 \in DOMAIN d /\ Tail(d)[i] = d[i + 1]
    BY <1>3
  <2> QED
    BY <2>1 DEF Shortened
<1> QED
  BY <1>2, <1>3

\* A step of one side.
LEMMA BecomesAgreed ==
  ASSUME SoundLink, SoundLink', Agreed, FreshStep, NEW p \in Side, NEW g, Sound(g), NEW w,
         NEW acked \in BOOLEAN,
         Becomes(p, g, w), w = chan[p] \/ (chan[p] # << >> /\ w = Tail(chan[p])),
         Asks(fsm[p], g, acked), acked => Acked(chan[p], fsm[p].reqid),
         \/ NoAnswer(fsm[p], g)
         \/ /\ chan[p] # << >> /\ Head(chan[p]).code = "CONFREQ" /\ w = Tail(chan[p])
            /\ Accepts(p, g, Head(chan[p])) \/ Refuses(p, g, Head(chan[p]))
  PROVE  Agreed'
<1> DEFINE q == Other(p)
           m == chan[q] \o g.out
           n == IF Len(m) < ChanLen THEN Len(m) ELSE ChanLen
           c == [g EXCEPT !.out = <<>>]
<1>1. q \in Side /\ q # p
  BY DEF Other, Side
<1>2. /\ g \in Fsm /\ chan[q] \in Seq(Packet) /\ chan[p] \in Seq(Packet)
      /\ fsm \in [Side -> Fsm] /\ chan \in [Side -> Seq(Packet)]
  BY <1>1 DEF Sound, SoundLink, TypeOK
<1>3. /\ c.state = g.state /\ c.up = g.up /\ c.id = g.id
      /\ c.reqid = g.reqid /\ c.got = g.got /\ c.his = g.his
  BY <1>2 DEF Fsm
<1>4. Len(m) \in Nat
  BY <1>2 DEF Fsm
<1>5. n \in Nat /\ n <= Len(m)
  <2>1. ChanLen \in Nat
    BY LinkAssumption
  <2> HIDE DEF m
  <2> QED
    BY <1>4, <2>1
<1>6. Lengthened(chan[q], SubSeq(m, 1, n), g)
  <2> HIDE DEF n
  <2> QED
    BY <1>2, <1>5, LengthenedBy
<1>7. fsm' = [fsm EXCEPT ![p] = c] /\ chan' = [chan EXCEPT ![p] = w, ![q] = SubSeq(m, 1, n)]
  BY DEF Becomes
<1> HIDE DEF c, q, m, n
<1>8. fsm'[p] = c /\ fsm'[q] = fsm[q] /\ chan'[p] = w /\ chan'[q] = SubSeq(m, 1, n)
  BY <1>1, <1>2, <1>7
<1>9. Shortened(chan[p], chan'[p])
  BY <1>2, <1>8, ShortenedBy
<1>10. fsm'[Other(p)] = fsm[Other(p)] /\ Lengthened(chan[Other(p)], chan'[Other(p)], g)
  BY <1>6, <1>8 DEF q
<1>11. \/ NoAnswer(fsm[p], g)
       \/ /\ chan[p] # << >> /\ Head(chan[p]).code = "CONFREQ" /\ chan'[p] = Tail(chan[p])
          /\ Accepts(p, g, Head(chan[p])) \/ Refuses(p, g, Head(chan[p]))
  BY <1>8
<1>12. /\ fsm'[p].state = g.state /\ fsm'[p].up = g.up /\ fsm'[p].id = g.id
       /\ fsm'[p].reqid = g.reqid /\ fsm'[p].got = g.got /\ fsm'[p].his = g.his
  BY <1>3, <1>8
<1> QED
  BY <1>9, <1>10, <1>11, <1>12, SideStep

\* One step of the link.
LEMMA AgreedStep ==
  ASSUME IdSize > 1, SoundLink, SoundLink', Agreed, FreshStep, [Next]_vars
  PROVE  Agreed'
<1>t. /\ \A p \in Side : Sound(fsm[p]) /\ fsm[p].out = <<>> /\ chan[p] \in Seq(Packet)
      /\ TypeOK
  BY DEF SoundLink, TypeOK
<1>m. \A p \in Side : Mail(fsm[p]) = {}
  BY <1>t DEF Mail
<1>p. ASSUME NEW p \in Side, NEW g, Sound(g), Plain(fsm[p], g), Becomes(p, g, chan[p])
      PROVE  Agreed'
  BY <1>p, BecomesAgreed DEF Plain
<1>1. ASSUME NEW p \in Side, Receive(p) PROVE Agreed'
  <2>1. PICK e \in At(p) : Becomes(p, fsm_input(e, fsm[p], Head(chan[p])), Tail(chan[p]))
    BY <1>1 DEF Receive
  <2>2. chan[p] # <<>> /\ chan[p] \in Seq(Packet)
    BY <1>1, <1>t DEF Receive
  <2> DEFINE pkt == Head(chan[p])
             g == fsm_input(e, fsm[p], pkt)
             acked == pkt.code = "CONFACK" /\ pkt.id = fsm[p].reqid
  <2>3. pkt \in Packet /\ e \in Env /\ e.me = p /\ pkt = chan[p][1] /\ 1 \in DOMAIN chan[p]
    BY <1>t, <2>2, AtEnv DEF At
  <2>4. acked => Acked(chan[p], fsm[p].reqid)
    BY <2>3 DEF Acked
  <2> HIDE DEF pkt
  <2>5. Sound(g)
    BY <1>t, <2>3, InputSound
  <2>6. /\ Asks(fsm[p], g, acked)
        /\ \/ NoAnswer(fsm[p], g)
           \/ pkt.code = "CONFREQ" /\ (Accepts(p, g, pkt) \/ Refuses(p, g, pkt))
    BY <1>t, <1>m, <2>3, InputAsks
  <2>7. Becomes(p, g, Tail(chan[p])) /\ acked \in BOOLEAN
    BY <2>1 DEF pkt
  <2> HIDE DEF g, acked
  <2> QED
    BY <2>2, <2>4, <2>5, <2>6, <2>7, BecomesAgreed DEF pkt
<1>2. ASSUME NEW p \in Side, Timeout(p) PROVE Agreed'
  <2>1. PICK e \in At(p) : Becomes(p, fsm_timeout(e, fsm[p]), chan[p])
    BY <1>2 DEF Timeout
  <2>2. Sound(fsm_timeout(e, fsm[p])) /\ Plain(fsm[p], fsm_timeout(e, fsm[p]))
    BY <1>t, <1>m, AtEnv, FsmTimeoutSound, FsmTimeoutPlain
  <2> QED
    BY <1>p, <2>1, <2>2
<1>3. ASSUME NEW p \in Side, EchoTimeout(p) PROVE Agreed'
  <2>1. PICK e \in At(p) : Becomes(p, LcpEchoTimeout(e, fsm[p]), chan[p])
    BY <1>3 DEF EchoTimeout
  <2>2. fsm[p].echo
    BY <1>3 DEF EchoTimeout
  <2>3. Sound(LcpEchoTimeout(e, fsm[p])) /\ Plain(fsm[p], LcpEchoTimeout(e, fsm[p]))
    BY <1>t, <1>m, <2>2, AtEnv, EchoTimeoutSound, EchoTimeoutPlain
  <2> QED
    BY <1>p, <2>1, <2>3
<1>4. ASSUME NEW p \in Side, Lose(p) PROVE Agreed'
  <2>1. chan[p] # <<>> /\ chan' = [chan EXCEPT ![p] = Tail(chan[p])] /\ fsm' = fsm
    BY <1>4 DEF Lose
  <2>2. Other(p) \in Side /\ Other(p) # p /\ chan \in [Side -> Seq(Packet)]
    BY <1>t DEF Other, Side, TypeOK
  <2>3. chan'[p] = Tail(chan[p]) /\ chan'[Other(p)] = chan[Other(p)]
    BY <2>1, <2>2
  <2>4. Shortened(chan[p], chan'[p])
    BY <1>t, <2>1, <2>3, ShortenedBy
  <2>5. Lengthened(chan[Other(p)], chan'[Other(p)], fsm[p])
    BY <2>3 DEF Lengthened
  <2>6. Plain(fsm[p], fsm[p])
    BY <1>m, KeepsPlain DEF Keeps
  <2> QED
    BY <2>1, <2>4, <2>5, <2>6, SideStep DEF Plain
<1>5. ASSUME NEW p \in Side, Open(p) PROVE Agreed'
  <2>1. PICK e \in At(p) : Becomes(p, fsm_open(e, fsm[p]), chan[p])
    BY <1>5 DEF Open
  <2>2. Sound(fsm_open(e, fsm[p])) /\ Plain(fsm[p], fsm_open(e, fsm[p]))
    BY <1>t, <1>m, AtEnv, OpenSound, OpenPlain
  <2> QED
    BY <1>p, <2>1, <2>2
<1>6. ASSUME NEW p \in Side, LowerUp(p) PROVE Agreed'
  <2>1. PICK e \in At(p) : Becomes(p, fsm_lowerup(e, fsm[p]), chan[p])
    BY <1>6 DEF LowerUp
  <2>2. fsm[p].state \in {"INITIAL", "STARTING"} /\ Keeps(fsm[p], fsm[p])
    BY <1>6 DEF LowerUp, Keeps
  <2>3. Sound(fsm_lowerup(e, fsm[p])) /\ Plain(fsm[p], fsm_lowerup(e, fsm[p]))
    BY <1>t, <1>m, <2>2, AtEnv, LowerupSound, LowerupPlain
  <2> QED
    BY <1>p, <2>1, <2>3
<1>7. ASSUME NEW p \in Side,
             Reopen(p) \/ Close(p) \/ LowerDown(p) \/ ProtReject(p) \/ CodeReject(p)
      PROVE  \E g : Sound(g) /\ Plain(fsm[p], g) /\ Disturb(p, g)
  <2>1. Sound(fsm[p]) /\ Mail(fsm[p]) = {}
    BY <1>t, <1>m
  <2>2. CASE Reopen(p)
    <3>1. PICK e \in At(p) : Disturb(p, fsm_open(e, fsm[p]))
      BY <2>2 DEF Reopen
    <3> QED
      BY <1>t, <2>1, <3>1, AtEnv, OpenSound, OpenPlain
  <2>3. CASE Close(p)
    BY <2>1, <2>3, CloseSound, ClosePlain DEF Close, lcp_close
  <2>4. CASE LowerDown(p)
    BY <2>1, <2>4, LowerdownSound, LowerdownPlain DEF LowerDown
  <2>5. CASE ProtReject(p)
    BY <2>1, <2>5, ProtrejectSound, ProtrejectPlain DEF ProtReject
  <2>6. CASE CodeReject(p)
    BY <2>1, <2>6, RcoderejSound, RcoderejPlain DEF CodeReject
  <2> QED
    BY <1>7, <2>2, <2>3, <2>4, <2>5, <2>6
<1>8. CASE UNCHANGED vars
  BY <1>8 DEF vars, Agreed
<1> QED
  BY <1>p, <1>1, <1>2, <1>3, <1>4, <1>5, <1>6, <1>7, <1>8 DEF Next, Disturb

\* Nothing is asked for before the first step.
LEMMA AgreedInit == Init => Agreed
BY DEF Init, Agreed, Terms, Live, fsm_init, Negotiating

(* Two sides that are both up agree on the options, whatever was lost, late, sent again or
   crossed, as long as no id is taken while a request or an acknowledgement with it is
   still on its way (IdsFresh).  By the id, f->reqid, fsm.c tells the answer to its last
   request from a late one, and ids wrap around. *)
THEOREM OptionsAgreed ==
    ASSUME IdSize > 1
    PROVE  Spec /\ IdsFresh => []OptionsAgree
<1>1. SoundLink /\ SoundLink' /\ Agreed /\ [Next]_vars /\ [FreshStep]_vars => Agreed'
  <2> SUFFICES ASSUME SoundLink, SoundLink', Agreed, [Next]_vars, [FreshStep]_vars
               PROVE  Agreed'
    OBVIOUS
  <2>1. CASE FreshStep
    BY <2>1, AgreedStep
  <2>2. CASE UNCHANGED vars
    BY <2>2 DEF vars, Agreed
  <2> QED
    BY <2>1, <2>2
<1>2. SoundLink /\ Agreed => OptionsAgree
  <2> SUFFICES ASSUME SoundLink, Agreed, \A p \in Side : fsm[p].up, NEW p \in Side
               PROVE  fsm[p].got = fsm[Other(p)].his
    BY DEF OptionsAgree
  <2>1. Live(fsm[p]) /\ Granted(fsm[p])
    BY DEF SoundLink, Sound, Live, Granted
  <2> QED
    BY <2>1 DEF Agreed, Terms
<1>3. IdsFresh <=> [][FreshStep]_vars
  BY DEF IdsFresh, FreshStep
<1> QED
  BY <1>1, <1>2, <1>3, AgreedInit, AlwaysSound, PTL DEF Spec

=============================================================================
