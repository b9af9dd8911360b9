------------------------------- MODULE PppFsm -------------------------------
(***************************************************************************)
(* The option-negotiation automaton of pppd (ppp/pppoe/fsm.c) with the     *)
(* callbacks LCP gives it (lcp.c) and the callout list its timers live in  *)
(* (main.c).                                                               *)
(*                                                                         *)
(* Every C function is an operator from the automaton's record to the      *)
(* record it leaves behind.  Packets it sends are appended to the field    *)
(* out; the module that composes two automata puts them on the wire.  The  *)
(* option list is one option: what a side asks for (got), what it has      *)
(* acknowledged (his), NoOpt when the option is absent.                    *)
(*                                                                         *)
(* The first argument e of an operator is where it runs: e.me is the side, *)
(* e.busy the answer traffic() gives should it be asked.                   *)
(***************************************************************************)
EXTENDS Naturals, Sequences

CONSTANTS
    Opt,             \* values of the negotiated option
    NoOpt,           \* the option is not in the list
    Wanted,          \* Wanted[p]: the value wantoptions of side p asks for
    Acceptable,      \* Acceptable[p]: the values reqci of side p acknowledges
    Hint,            \* Hint[p]: the value reqci of side p puts in a Nak
    Adopts,          \* Adopts[p]: the hints nakci of side p follows
    Flags,           \* Flags[p]: a subset of {"RESTART", "SILENT"}
    ConfReqs,        \* transmissions of a new request: 20, or 5 on a USB modem
    MaxConfReqs,     \* maxconfreqtransmits
    MaxTermReqs,     \* maxtermtransmits
    MaxNakLoops,     \* maxnakloops
    EchoFails,       \* lcp_echo_fails, 0 for never
    IdSize,          \* ids are counted modulo this; 256 in the code
    MaxCallouts      \* bound: callouts counted per automaton

ASSUME PppAssumption ==
    /\ NoOpt \notin Opt
    /\ \A p \in DOMAIN Flags : Flags[p] \subseteq {"RESTART", "SILENT"}
    /\ ConfReqs \in Nat \ {0} /\ MaxConfReqs \in Nat \ {0}
    /\ MaxTermReqs \in Nat \ {0} /\ MaxNakLoops \in Nat
    /\ EchoFails \in Nat
    /\ IdSize \in Nat \ {0} /\ MaxCallouts \in Nat \ {0}

Negotiating == {"REQSENT", "ACKRCVD", "ACKSENT"}
Terminating == {"CLOSING", "STOPPING"}
State == {"INITIAL", "STARTING", "CLOSED", "STOPPED", "OPENED"}
            \cup Negotiating \cup Terminating

Code == {"CONFREQ", "CONFACK", "CONFNAK", "CONFREJ", "TERMREQ", "TERMACK",
         "ECHOREQ", "ECHOREP"}
Packet == [code : Code, id : 0 .. IdSize - 1, opt : Opt \cup {NoOpt}]

\* struct fsm, the LCP options and echo state of the unit, the callouts of
\* fsm_timeout that are pending, and what the upper layers were last told.
Fsm == [state : State, id : 0 .. IdSize - 1, reqid : 0 .. IdSize - 1,
        seen_ack : BOOLEAN, retransmits : 0 .. (ConfReqs + MaxConfReqs + MaxTermReqs),
        nakloops : 0 .. MaxNakLoops, got : Opt \cup {NoOpt},
        his : Opt \cup {NoOpt}, callouts : 0 .. MaxCallouts, up : BOOLEAN,
        pending : 0 .. EchoFails, echo : BOOLEAN, out : Seq(Packet)]

fsm_init ==
    [state |-> "INITIAL", id |-> 0, reqid |-> 0, seen_ack |-> FALSE,
     retransmits |-> 0, nakloops |-> 0, got |-> NoOpt, his |-> NoOpt,
     callouts |-> 0, up |-> FALSE, pending |-> 0, echo |-> FALSE, out |-> <<>>]

----------------------------------------------------------------------------
(***************************************************************************)
(* Callouts, ids and packets.                                              *)
(***************************************************************************)

\* timeout() links one more callout in, whether or not one is pending.
timeout(f) ==
    [f EXCEPT !.callouts = IF @ < MaxCallouts THEN @ + 1 ELSE @]

\* untimeout() removes the first matching callout only.
untimeout(f) ==
    [f EXCEPT !.callouts = IF @ > 0 THEN @ - 1 ELSE 0]

NextId(f) == (f.id + 1) % IdSize

NewReqid_NoWrap(f) == [f EXCEPT !.id = @ + 1, !.reqid = f.id + 1]

\* f->reqid = ++f->id
NewReqid(f) == [f EXCEPT !.id = NextId(f), !.reqid = NextId(f)]

fsm_sdata(f, code, id, opt) ==
    [f EXCEPT !.out = Append(@, [code |-> code, id |-> id, opt |-> opt])]

Enter(f, s) == [f EXCEPT !.state = s]

----------------------------------------------------------------------------
(***************************************************************************)
(* LCP's callbacks.                                                        *)
(***************************************************************************)

lcp_resetci(e, f) == [f EXCEPT !.got = Wanted[e.me]]

\* The answer to a request for v and the option that goes with it.
lcp_reqci(e, v, reject_if_disagree) ==
    IF v \in Acceptable[e.me] \cup {NoOpt} THEN [code |-> "CONFACK", opt |-> v]
    ELSE IF reject_if_disagree THEN [code |-> "CONFREJ", opt |-> v]
    ELSE [code |-> "CONFNAK", opt |-> Hint[e.me]]

lcp_ackci(f, v) == v = f.got

\* A Nak or Reject is good when it names an option that was asked for, a
\* Reject with the value it was asked for with.
GoodNakRej(f, code, v) == f.got # NoOpt /\ (code = "CONFREJ" => v = f.got)

lcp_nakci(e, f, v) ==
    IF f.state # "OPENED" /\ v \in Adopts[e.me] THEN [f EXCEPT !.got = v] ELSE f

lcp_rejci(f) ==
    IF f.state # "OPENED" THEN [f EXCEPT !.got = NoOpt] ELSE f

----------------------------------------------------------------------------
(***************************************************************************)
(* Terminate-Request, and the echo messages that notice a dead peer.       *)
(***************************************************************************)

\* fsm_sdata(f, TERMREQ, f->reqid = ++f->id, ...); TIMEOUT; --f->retransmits
SendTermreq(f) ==
    LET g == NewReqid(f)
    IN  timeout(fsm_sdata([g EXCEPT !.retransmits = @ - 1], "TERMREQ", g.reqid, NoOpt))

lcp_echo_lowerdown(f) == [f EXCEPT !.echo = FALSE]

lcp_down_Silent(f) == lcp_echo_lowerdown(f)

lcp_down(f) == [lcp_echo_lowerdown(f) EXCEPT !.up = FALSE]

fsm_close(f) ==
    CASE f.state = "STARTING" -> Enter(f, "INITIAL")
      [] f.state = "STOPPED"  -> Enter(f, "CLOSED")
      [] f.state = "STOPPING" -> Enter(f, "CLOSING")
      [] f.state \in Negotiating \cup {"OPENED"} ->
            LET g == IF f.state = "OPENED" THEN lcp_down(f) ELSE untimeout(f)
            IN  Enter(SendTermreq([g EXCEPT !.retransmits = MaxTermReqs]), "CLOSING")
      [] OTHER -> f

\* A silent or passive side that has no connection yet is closed at once.
\* The tests on the flags make no difference to the state that is entered.
lcp_close(f) == fsm_close(f)

LcpSendEchoRequest_Uncounted(f) ==
    IF f.state = "OPENED" THEN fsm_sdata(f, "ECHOREQ", 0, NoOpt) ELSE f

\* LcpSendEchoRequest, after LcpLinkFailure has closed a link that has left
\* lcp_echo_fails requests unanswered.
LcpSendEchoRequest(f) ==
    LET g == IF EchoFails # 0 /\ f.pending >= EchoFails
             THEN [(IF f.state = "OPENED" THEN lcp_close(f) ELSE f) EXCEPT !.pending = 0]
             ELSE f
    IN  IF g.state = "OPENED"
        THEN fsm_sdata([g EXCEPT !.pending = IF EchoFails = 0 THEN 0 ELSE @ + 1],
                       "ECHOREQ", 0, NoOpt)
        ELSE g

LcpEchoCheck(e, f) ==
    LET g == IF e.busy THEN [f EXCEPT !.pending = 0] ELSE LcpSendEchoRequest(f)
    IN  IF g.state = "OPENED" THEN [g EXCEPT !.echo = TRUE] ELSE g

LcpEchoTimeout(e, f) == LcpEchoCheck(e, [f EXCEPT !.echo = FALSE])

lcp_up(e, f) == LcpEchoCheck(e, [f EXCEPT !.up = TRUE, !.pending = 0, !.echo = FALSE])

lcp_extcode(f, pkt) ==
    CASE pkt.code = "ECHOREQ" /\ f.state = "OPENED" ->
            fsm_sdata(f, "ECHOREP", pkt.id, NoOpt)
      [] pkt.code = "ECHOREP" -> [f EXCEPT !.pending = 0]
      [] OTHER -> f

----------------------------------------------------------------------------
(***************************************************************************)
(* The automaton.                                                          *)
(***************************************************************************)

\* The retransmission that follows an answer is the last one.
fsm_sconfreq(e, f, retransmit) ==
    LET reset == IF f.state \in Negotiating THEN f
                 ELSE [lcp_resetci(e, f) EXCEPT !.nakloops = 0]
        count == IF ~retransmit
                 THEN [NewReqid(reset) EXCEPT !.retransmits = ConfReqs]
                 ELSE IF reset.seen_ack THEN [reset EXCEPT !.retransmits = 1] ELSE reset
        sent  == fsm_sdata([count EXCEPT !.seen_ack = FALSE],
                           "CONFREQ", count.reqid, count.got)
    IN  timeout([sent EXCEPT !.retransmits = @ - 1])

\* Negotiation starts unless this side waits for the peer to speak first.
Begin(e, f) ==
    IF "SILENT" \in Flags[e.me] THEN Enter(f, "STOPPED")
    ELSE Enter(fsm_sconfreq(e, f, FALSE), "REQSENT")

fsm_lowerup(e, f) ==
    CASE f.state = "INITIAL"  -> Enter(f, "CLOSED")
      [] f.state = "STARTING" -> Begin(e, f)
      [] OTHER -> f

fsm_lowerdown_Renumbers(f) ==
    CASE f.state \in {"CLOSED", "CLOSING"} -> [Enter(untimeout(f), "INITIAL") EXCEPT !.id = 0]
      [] f.state = "OPENED" -> [Enter(lcp_down(f), "STARTING") EXCEPT !.id = 0]
      [] f.state = "STOPPED" -> [Enter(f, "STARTING") EXCEPT !.id = 0]
      [] f.state \in Negotiating \cup {"STOPPING"} ->
            [Enter(untimeout(f), "STARTING") EXCEPT !.id = 0]
      [] OTHER -> f

fsm_lowerdown(f) ==
    CASE f.state = "CLOSED"  -> Enter(f, "INITIAL")
      [] f.state = "STOPPED" -> Enter(f, "STARTING")
      [] f.state = "CLOSING" -> Enter(untimeout(f), "INITIAL")
      [] f.state \in Negotiating \cup {"STOPPING"} -> Enter(untimeout(f), "STARTING")
      [] f.state = "OPENED"  -> Enter(lcp_down(f), "STARTING")
      [] OTHER -> f

fsm_open(e, f) ==
    LET g == IF f.state = "CLOSING" THEN Enter(f, "STOPPING") ELSE f
    IN  CASE f.state = "INITIAL" -> Enter(f, "STARTING")
          [] f.state = "CLOSED"  -> Begin(e, f)
          [] f.state \in {"CLOSING", "STOPPED", "OPENED"} ->
                IF "RESTART" \in Flags[e.me] THEN fsm_lowerup(e, fsm_lowerdown(g)) ELSE g
          [] OTHER -> f

\* The callout that fired is off the list before fsm_timeout runs.
fsm_timeout(e, f0) ==
    LET f == untimeout(f0)
    IN  CASE f.state \in Terminating ->
                IF f.retransmits = 0
                THEN Enter(f, IF f.state = "CLOSING" THEN "CLOSED" ELSE "STOPPED")
                ELSE SendTermreq(f)
          [] f.state \in Negotiating ->
                IF f.retransmits = 0 THEN Enter(f, "STOPPED")
                ELSE Enter(fsm_sconfreq(e, f, TRUE),
                           IF f.state = "ACKRCVD" THEN "REQSENT" ELSE f.state)
          [] OTHER -> f

AnswerRequest_Uncounted(e, f, pkt) ==
    LET a == lcp_reqci(e, pkt.opt, f.nakloops >= MaxNakLoops)
        g == fsm_sdata([f EXCEPT !.his = IF a.code = "CONFACK" THEN pkt.opt ELSE NoOpt],
                       a.code, pkt.id, a.opt)
    IN  CASE a.code = "CONFACK" /\ f.state = "ACKRCVD" ->
                [lcp_up(e, Enter(untimeout(g), "OPENED")) EXCEPT !.nakloops = 0]
          [] a.code = "CONFACK" /\ f.state # "ACKRCVD" ->
                [Enter(g, "ACKSENT") EXCEPT !.nakloops = 0]
          [] OTHER -> Enter(g, IF f.state = "ACKRCVD" THEN "ACKRCVD" ELSE "REQSENT")

\* Check the request, answer it, and move on.
AnswerRequest(e, f, pkt) ==
    LET a == lcp_reqci(e, pkt.opt, f.nakloops >= MaxNakLoops)
        g == fsm_sdata([f EXCEPT !.his = IF a.code = "CONFACK" THEN pkt.opt ELSE NoOpt],
                       a.code, pkt.id, a.opt)
    IN  CASE a.code = "CONFACK" /\ f.state = "ACKRCVD" ->
                [lcp_up(e, Enter(untimeout(g), "OPENED")) EXCEPT !.nakloops = 0]
          [] a.code = "CONFACK" /\ f.state # "ACKRCVD" ->
                [Enter(g, "ACKSENT") EXCEPT !.nakloops = 0]
          [] OTHER ->
                [Enter(g, IF f.state = "ACKRCVD" THEN "ACKRCVD" ELSE "REQSENT")
                    EXCEPT !.nakloops = IF a.code = "CONFNAK" THEN @ + 1 ELSE @]

fsm_rconfreq(e, f, pkt) ==
    CASE f.state = "CLOSED" -> fsm_sdata(f, "TERMACK", pkt.id, NoOpt)
      [] f.state \in Terminating -> f
      [] f.state = "OPENED" -> AnswerRequest(e, fsm_sconfreq(e, lcp_down(f), FALSE), pkt)
      [] f.state = "STOPPED" ->
            AnswerRequest(e, Enter(fsm_sconfreq(e, f, FALSE), "REQSENT"), pkt)
      [] OTHER -> AnswerRequest(e, f, pkt)

\* Go down and restart negotiation.
Renegotiate(e, f) == Enter(fsm_sconfreq(e, lcp_down(f), FALSE), "REQSENT")

fsm_rconfack_AnyId(e, f, pkt) ==
    LET g == [f EXCEPT !.seen_ack = TRUE]
    IN  CASE f.state = "REQSENT" -> [Enter(g, "ACKRCVD") EXCEPT !.retransmits = MaxConfReqs]
          [] f.state = "ACKSENT" ->
                lcp_up(e, [Enter(untimeout(g), "OPENED") EXCEPT !.retransmits = MaxConfReqs])
          [] OTHER -> f

fsm_rconfack(e, f, pkt) ==
    LET g == [f EXCEPT !.seen_ack = TRUE]
    IN  IF pkt.id # f.reqid \/ f.seen_ack \/ ~lcp_ackci(f, pkt.opt) THEN f ELSE
        CASE f.state \in {"CLOSED", "STOPPED"} -> fsm_sdata(g, "TERMACK", pkt.id, NoOpt)
          [] f.state = "REQSENT" -> [Enter(g, "ACKRCVD") EXCEPT !.retransmits = MaxConfReqs]
          [] f.state = "ACKRCVD" -> Enter(fsm_sconfreq(e, untimeout(g), FALSE), "REQSENT")
          [] f.state = "ACKSENT" ->
                lcp_up(e, [Enter(untimeout(g), "OPENED") EXCEPT !.retransmits = MaxConfReqs])
          [] f.state = "OPENED" -> Renegotiate(e, g)
          [] OTHER -> g

fsm_rconfnakrej(e, f, pkt) ==
    LET h == IF pkt.code = "CONFNAK" THEN lcp_nakci(e, f, pkt.opt) ELSE lcp_rejci(f)
        g == [h EXCEPT !.seen_ack = TRUE]
    IN  IF pkt.id # f.reqid \/ f.seen_ack \/ ~GoodNakRej(f, pkt.code, pkt.opt) THEN f ELSE
        CASE f.state \in {"CLOSED", "STOPPED"} -> fsm_sdata(g, "TERMACK", pkt.id, NoOpt)
          [] f.state \in {"REQSENT", "ACKSENT"} -> fsm_sconfreq(e, untimeout(g), FALSE)
          [] f.state = "ACKRCVD" -> Enter(fsm_sconfreq(e, untimeout(g), FALSE), "REQSENT")
          [] f.state = "OPENED" -> Renegotiate(e, g)
          [] OTHER -> g

fsm_rtermreq_Untimed(f, pkt) ==
    LET g == CASE f.state \in {"ACKRCVD", "ACKSENT"} -> Enter(f, "REQSENT")
               [] f.state = "OPENED" ->
                    [Enter(lcp_down(f), "STOPPING") EXCEPT !.retransmits = 0]
               [] OTHER -> f
    IN  fsm_sdata(g, "TERMACK", pkt.id, NoOpt)

fsm_rtermreq(f, pkt) ==
    LET g == CASE f.state \in {"ACKRCVD", "ACKSENT"} -> Enter(f, "REQSENT")
               [] f.state = "OPENED" ->
                    timeout([Enter(lcp_down(f), "STOPPING") EXCEPT !.retransmits = 0])
               [] OTHER -> f
    IN  fsm_sdata(g, "TERMACK", pkt.id, NoOpt)

\* In OPENED the upper layers are told that the link is down and a new request
\* goes out, but the state is not changed.
fsm_rtermack(e, f) ==
    CASE f.state = "CLOSING"  -> Enter(untimeout(f), "CLOSED")
      [] f.state = "STOPPING" -> Enter(untimeout(f), "STOPPED")
      [] f.state = "ACKRCVD"  -> Enter(f, "REQSENT")
      [] f.state = "OPENED"   -> fsm_sconfreq(e, lcp_down(f), FALSE)
      [] OTHER -> f

fsm_rcoderej(f) == IF f.state = "ACKRCVD" THEN Enter(f, "REQSENT") ELSE f

fsm_protreject(f) ==
    CASE f.state = "CLOSING" -> Enter(untimeout(f), "CLOSED")
      [] f.state \in Negotiating \cup {"STOPPING"} -> Enter(untimeout(f), "STOPPED")
      [] f.state = "OPENED" ->
            Enter(SendTermreq([lcp_down(f) EXCEPT !.retransmits = MaxTermReqs]), "STOPPING")
      [] OTHER -> f

\* A packet that arrives while the lower layer is down is dropped.  The peer sends no
\* unknown codes or protocols, which would be rejected with an id of their own.
fsm_input(e, f, pkt) ==
    IF f.state \in {"INITIAL", "STARTING"} THEN f ELSE
    CASE pkt.code = "CONFREQ" -> fsm_rconfreq(e, f, pkt)
      [] pkt.code = "CONFACK" -> fsm_rconfack(e, f, pkt)
      [] pkt.code \in {"CONFNAK", "CONFREJ"} -> fsm_rconfnakrej(e, f, pkt)
      [] pkt.code = "TERMREQ" -> fsm_rtermreq(f, pkt)
      [] pkt.code = "TERMACK" -> fsm_rtermack(e, f)
      [] OTHER -> lcp_extcode(f, pkt)
=============================================================================
