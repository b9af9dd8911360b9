----------------------------- MODULE AddressPool ------------------------------
(***************************************************************************)
(* What the clients of one address pool may rely on, without slots, tables *)
(* or packets.  The pool keeps a set of running reservations, each of an   *)
(* address for one client (or for nobody: an address some client found in  *)
(* use), until a point in time.  A client's own messages may change its    *)
(* own reservation; only time ends somebody else's.  What a client is told *)
(* it may use is what is reserved for it.                                  *)
(***************************************************************************)
EXTENDS Naturals

CONSTANTS Client, Nobody

VARIABLES
    now,
    held,      \* the running reservations
    told       \* what each client was last told it may use, and until when

poolVars == <<now, held, told>>

Reservation == [addr : Nat, who : Client \cup {Nobody}, until : Nat]
Nothing == [addr |-> 0, until |-> 0]

Init ==
    /\ now = 0
    /\ held = {}
    /\ told = [c \in Client |-> Nothing]

-----------------------------------------------------------------------------
\* The reservations the messages of client c must leave alone.
Others(c) == {h \in held : h.who # c}

\* h takes the place of whatever was reserved for c; nobody else has its address.
Replace(c, h) ==
    /\ h \in Reservation
    /\ h.addr # 0 /\ h.until >= now
    /\ \A g \in Others(c) : g.addr # h.addr
    /\ held' = Others(c) \cup {h}

\* An address is reserved for c, which has not been told to use it.
Reserve(c) ==
    /\ \E h \in held' : h.who = c /\ Replace(c, h)
    /\ told' = [told EXCEPT ![c] = Nothing]
    /\ UNCHANGED now

\* An address is reserved for c and c is told so.
Promise(c) ==
    /\ \E h \in held' :
          /\ h.who = c /\ Replace(c, h)
          /\ told' = [told EXCEPT ![c] = [addr |-> h.addr, until |-> h.until]]
    /\ UNCHANGED now

\* The address c had is given to nobody for a while.
Quarantine(c) ==
    /\ \E h \in held' : h.who = Nobody /\ Replace(c, h)
    /\ told' = [told EXCEPT ![c] = Nothing]
    /\ UNCHANGED now

\* c has nothing any more.
GiveUp(c) ==
    /\ held' = Others(c)
    /\ told' = [told EXCEPT ![c] = Nothing]
    /\ UNCHANGED now

\* Time ends reservations, and nothing else does.
Tick ==
    /\ now' = now + 1
    /\ held' = {h \in held : h.until >= now'}
    /\ UNCHANGED told

Next ==
    \/ \E c \in Client : Reserve(c) \/ Promise(c) \/ Quarantine(c) \/ GiveUp(c)
    \/ Tick

Spec == Init /\ [][Next]_poolVars

=============================================================================
