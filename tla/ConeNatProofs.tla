---------------------------- MODULE ConeNatProofs ----------------------------
(***************************************************************************)
(* For every number of endpoints, remotes and ports: translation is        *)
(* unambiguous, every expectation is backed by a conversation and made     *)
(* once, the port search ends, and new conversations leave from the port   *)
(* that is expected for their endpoint.                                    *)
(***************************************************************************)
EXTENDS ConeNat, ThinningProofs, SequenceTheorems

\* A conversation has the fields it was made with; a reply only changes seen.
Shaped ==
    \A c \in conns :
        c = [dir |-> c.dir, lan |-> c.lan, face |-> c.face, remote |-> c.remote,
             port |-> c.port, seen |-> c.seen]

IInv == Shaped /\ Unambiguous

-----------------------------------------------------------------------------
\* __nf_conntrack_confirm keeps the two tuple spaces free of duplicates.
LEMMA ConfirmInv ==
    ASSUME IInv, NEW c, Confirmable(c), conns' = conns \cup {c},
           c = [dir |-> c.dir, lan |-> c.lan, face |-> c.face, remote |-> c.remote,
                port |-> c.port, seen |-> c.seen]
    PROVE  IInv'
<1>1. Shaped'
  BY DEF IInv, Shaped
<1>2. Unambiguous'
  <2> SUFFICES ASSUME NEW d \in conns', NEW e \in conns',
                      LanSide(d) = LanSide(e) \/ WanSide(d) = WanSide(e)
               PROVE  d = e
    BY DEF Unambiguous, LanSide, WanSide
  <2>1. CASE d \in conns /\ e \in conns
    BY <2>1 DEF IInv, Unambiguous
  <2>2. CASE d = c /\ e = c
    BY <2>2
  <2>3. CASE d \in conns /\ e = c
    BY <2>3 DEF Confirmable
  <2>4. CASE d = c /\ e \in conns
    BY <2>4 DEF Confirmable
  <2> QED
    BY <2>1, <2>2, <2>3, <2>4
<1> QED
  BY <1>1, <1>2 DEF IInv

\* Conversations that go leave the others as they are.
LEMMA ForgetInv ==
    ASSUME IInv, conns' \subseteq conns
    PROVE  IInv'
<1>1. Shaped'
  BY DEF IInv, Shaped
<1>2. Unambiguous'
  BY DEF IInv, Unambiguous, LanSide, WanSide
<1> QED
  BY <1>1, <1>2 DEF IInv

\* An update of seen is an update of one field.
LEMMA SeenUpdate ==
    ASSUME NEW d, NEW l, NEW f, NEW r, NEW p, NEW s, NEW t
    PROVE  [[dir |-> d, lan |-> l, face |-> f, remote |-> r, port |-> p, seen |-> s]
               EXCEPT !.seen = t]
              = [dir |-> d, lan |-> l, face |-> f, remote |-> r, port |-> p, seen |-> t]
OBVIOUS

\* The reply that sets IPS_SEEN_REPLY leaves both tuples of its conversation alone.
LEMMA ReplyInv ==
    ASSUME IInv, NEW c \in conns, Reply(c)
    PROVE  IInv'
<1>1. PICK t : conns' = (conns \ {c}) \cup {[c EXCEPT !.seen = t]}
  BY Zenon DEF Reply
<1> DEFINE r == [dir |-> c.dir, lan |-> c.lan, face |-> c.face, remote |-> c.remote,
                 port |-> c.port, seen |-> t]
<1>2. conns' = (conns \ {c}) \cup {r}
  <2>1. c = [dir |-> c.dir, lan |-> c.lan, face |-> c.face, remote |-> c.remote,
             port |-> c.port, seen |-> c.seen]
    BY DEF IInv, Shaped
  <2>2. [[dir |-> c.dir, lan |-> c.lan, face |-> c.face, remote |-> c.remote,
          port |-> c.port, seen |-> c.seen] EXCEPT !.seen = t] = r
    BY SeenUpdate
  <2>3. [c EXCEPT !.seen = t] = r
    BY <2>1, <2>2, Zenon
  <2> QED
    BY <1>1, <2>3, Zenon
<1>3. LanSide(r) = LanSide(c) /\ WanSide(r) = WanSide(c)
  BY DEF LanSide, WanSide
<1>4. r = [dir |-> r.dir, lan |-> r.lan, face |-> r.face, remote |-> r.remote,
           port |-> r.port, seen |-> r.seen]
  OBVIOUS
<1> HIDE DEF r
<1>5. Shaped'
  BY <1>2, <1>4 DEF IInv, Shaped
<1>6. Unambiguous'
  <2> SUFFICES ASSUME NEW d \in conns', NEW e \in conns',
                      LanSide(d) = LanSide(e) \/ WanSide(d) = WanSide(e)
               PROVE  d = e
    BY DEF Unambiguous, LanSide, WanSide
  <2>1. CASE d # r /\ e # r
    BY <1>2, <2>1 DEF IInv, Unambiguous
  <2>2. CASE d = r /\ e # r
    <3>1. e \in conns /\ e # c
      BY <1>2, <2>2
    <3> QED
      BY <1>3, <2>2, <3>1 DEF IInv, Unambiguous
  <2>3. CASE d # r /\ e = r
    <3>1. d \in conns /\ d # c
      BY <1>2, <2>3
    <3> QED
      BY <1>3, <2>3, <3>1 DEF IInv, Unambiguous
  <2>4. CASE d = r /\ e = r
    BY <2>4
  <2> QED
    BY <2>1, <2>2, <2>3, <2>4
<1> QED
  BY <1>5, <1>6 DEF IInv

\* The invariant is inductive.
LEMMA StepInv == IInv /\ [Next]_vars => IInv'
<1> SUFFICES ASSUME IInv, [Next]_vars PROVE IInv'
  OBVIOUS
<1>1. CASE \E lan \in Lan, r \in Remote : SendNew(lan, r)
  <2>1. PICK lan \in Lan, r \in Remote : SendNew(lan, r)
    BY <1>1
  <2> DEFINE c == [dir |-> "out", lan |-> lan, face |-> r, remote |-> r,
                   port |-> conenat_target(lan), seen |-> FALSE]
  <2>2. Confirmable(c) /\ conns' = conns \cup {c}
    BY <2>1 DEF SendNew
  <2>3. c = [dir |-> c.dir, lan |-> c.lan, face |-> c.face, remote |-> c.remote,
             port |-> c.port, seen |-> c.seen]
    OBVIOUS
  <2> HIDE DEF c
  <2> QED
    BY <2>2, <2>3, ConfirmInv
<1>2. CASE \E r \in Remote, port \in Port : Unsolicited(r, port)
  <2>1. PICK r \in Remote, port \in Port : Unsolicited(r, port)
    BY <1>2
  <2> DEFINE lan == expects[Min(find_expectation(port))].lan
             conn(f) == [dir |-> "in", lan |-> lan, face |-> f, remote |-> r,
                         port |-> port, seen |-> FALSE]
  <2>2. PICK f \in Faces(lan, r) : Confirmable(conn(f)) /\ conns' = conns \cup {conn(f)}
    BY <2>1 DEF Unsolicited
  <2> DEFINE c == conn(f)
  <2>3. c = [dir |-> c.dir, lan |-> c.lan, face |-> c.face, remote |-> c.remote,
             port |-> c.port, seen |-> c.seen]
    OBVIOUS
  <2>4. Confirmable(c) /\ conns' = conns \cup {c}
    BY <2>2
  <2> HIDE DEF c
  <2> QED
    BY <2>3, <2>4, ConfirmInv
<1>3. CASE \E c \in conns : Reply(c)
  BY <1>3, ReplyInv
<1>4. CASE \/ \E c \in conns : SendAgain(c)
           \/ \E c \in conns : ConnTimeout(c)
           \/ \E i \in DOMAIN expects : ExpectTimeout(i)
           \/ InterfaceEvent
           \/ UNCHANGED vars
  <2>1. conns' \subseteq conns
    BY <1>4 DEF SendAgain, ConnTimeout, ExpectTimeout, InterfaceEvent, vars
  <2> QED
    BY <2>1, ForgetInv
<1> QED
  BY <1>1, <1>2, <1>3, <1>4 DEF Next

\* Whichever conversations were opened from either side and went again, a packet
\* belongs to at most one of them: conenat_target may give out a port that is in
\* use, and the confirmation is what keeps the tuples apart.
THEOREM TranslationUnambiguous == Spec => []Unambiguous
<1>1. Init => IInv
  BY DEF Init, IInv, Shaped, Unambiguous
<1>2. IInv => Unambiguous
  BY DEF IInv
<1> QED
  BY <1>1, <1>2, StepInv, PTL DEF Spec

-----------------------------------------------------------------------------
(* The list of the expectations. *)

\* The walk over the list stops at an expectation that passes its test.
LEMMA FirstOfList ==
    ASSUME NEW S \in SUBSET Nat, S # {}
    PROVE  Min(S) \in S
<1>1. \E i \in S : \A j \in S : i <= j
  BY LeastNatural
<1> QED
  BY <1>1 DEF Min

\* nf_ct_remove_expectations keeps some of the entries, none of a conversation that
\* goes, and each in one place.
LEMMA RemoveThins ==
    ASSUME NEW list \in Seq(Expect), NEW gone
    PROVE  LET new == remove_expectations(list, gone)
               kept == {i \in DOMAIN list : \A c \in gone : ~Masters(list[i], c)}
           IN  new \in Seq(Expect) /\ Thinned(new, list, kept)
<1> DEFINE kept == {i \in DOMAIN list : \A c \in gone : ~Masters(list[i], c)}
<1>1. Len(list) \in Nat /\ kept \in SUBSET (1 .. Len(list)) /\ \A i \in kept : list[i] \in Expect
  OBVIOUS
<1>2. remove_expectations(list, gone) = Thin(list, kept)
  BY DEF remove_expectations
<1> HIDE DEF kept
<1>3. Thin(list, kept) \in Seq(Expect) /\ Thinned(Thin(list, kept), list, kept)
  BY <1>1, ThinThins
<1> QED
  BY <1>2, <1>3 DEF kept

\* The timer of an expectation takes one entry out of the list.
LEMMA RemoveAtThins ==
    ASSUME NEW list \in Seq(Expect), NEW i \in DOMAIN list
    PROVE  RemoveAt(list, i) \in Seq(Expect) /\ Thinned(RemoveAt(list, i), list, DOMAIN list)
<1> DEFINE new == RemoveAt(list, i)
           f == [j \in DOMAIN new |-> IF j < i THEN j ELSE j + 1]
<1>1. /\ new \in Seq(Expect)
      /\ DOMAIN new = 1 .. Len(list) - 1
      /\ \A j \in DOMAIN new : new[j] = list[IF j < i THEN j ELSE j + 1]
  <2> DEFINE front == SubSeq(list, 1, i - 1)
             back == SubSeq(list, i + 1, Len(list))
  <2>1. i \in 1 .. Len(list) /\ Len(list) \in Nat
    OBVIOUS
  <2>2. /\ front \in Seq(Expect) /\ Len(front) = i - 1
        /\ \A j \in 1 .. i - 1 : front[j] = list[j]
    BY <2>1
  <2>3. /\ back \in Seq(Expect) /\ Len(back) = Len(list) - i
        /\ \A j \in 1 .. Len(list) - i : back[j] = list[j + i]
    BY <2>1
  <2>4. new = front \o back
    BY DEF RemoveAt
  <2> HIDE DEF front, back, new
  <2>5. new \in Seq(Expect) /\ Len(new) = Len(list) - 1
    BY <2>1, <2>2, <2>3, <2>4
  <2>6. ASSUME NEW j \in 1 .. Len(list) - 1
        PROVE  new[j] = list[IF j < i THEN j ELSE j + 1]
    <3>1. CASE j < i
      BY <2>1, <2>2, <2>3, <2>4, <3>1
    <3>2. CASE ~(j < i)
      <4>1. new[j] = back[j - (i - 1)]
        <5>1. j \in 1 .. Len(front) + Len(back) /\ ~(j <= Len(front))
          BY <2>1, <2>2, <2>3, <3>2
        <5>2. (front \o back)[j] = back[j - Len(front)]
          BY <2>2, <2>3, <5>1, ConcatProperties
        <5> QED
          BY <2>2, <2>4, <5>2
      <4>2. j - (i - 1) \in 1 .. Len(list) - i
        BY <2>1, <3>2
      <4>3. back[j - (i - 1)] = list[(j - (i - 1)) + i]
        BY <2>3, <4>2
      <4>4. (j - (i - 1)) + i = j + 1
        BY <2>1
      <4> QED
        BY <3>2, <4>1, <4>3, <4>4
    <3> QED
      BY <3>1, <3>2
  <2>7. DOMAIN new = 1 .. Len(list) - 1
    BY <2>5
  <2> QED
    BY <2>5, <2>6, <2>7
<1> HIDE DEF new
<1>2. f \in [DOMAIN new -> DOMAIN list]
  BY <1>1
<1>3. \A j, k \in DOMAIN new : f[j] = f[k] => j = k
  BY <1>1
<1>4. \A j \in DOMAIN new : new[j] = list[f[j]]
  BY <1>1
<1> HIDE DEF f
<1> QED
  BY <1>1, <1>2, <1>3, <1>4 DEF Thinned, new

\* help2 puts at most one entry in front of the list.
LEMMA Help2List ==
    ASSUME NEW list \in Seq(Expect), NEW c, c.port \in Port, c.lan \in Lan, c.remote \in Remote
    PROVE  LET e == [port |-> c.port, lan |-> c.lan, remote |-> c.remote]
               new == atp_nat_help2(list, c)
           IN  \/ new = list /\ \E i \in DOMAIN list : list[i].port = c.port
               \/ /\ new \in Seq(Expect)
                  /\ \A i \in DOMAIN list : list[i].port # c.port
                  /\ \A i \in DOMAIN new :
                        \/ i = 1 /\ new[i] = e
                        \/ i - 1 \in DOMAIN list /\ new[i] = list[i - 1]
<1> DEFINE e == [port |-> c.port, lan |-> c.lan, remote |-> c.remote]
           new == <<e>> \o list
<1>1. e \in Expect /\ e.port = c.port
  BY DEF Expect
<1>2. atp_nat_help2(list, c) = expect_related(list, e)
  BY DEF atp_nat_help2
<1> HIDE DEF e
<1>3. CASE expect_clash(list, e)
  BY <1>1, <1>2, <1>3 DEF expect_related, expect_clash, e
<1>4. CASE ~expect_clash(list, e)
  <2>1. atp_nat_help2(list, c) = new
    BY <1>2, <1>4 DEF expect_related
  <2>2. /\ new \in Seq(Expect)
        /\ \A i \in DOMAIN new :
              \/ i = 1 /\ new[i] = e
              \/ i - 1 \in DOMAIN list /\ new[i] = list[i - 1]
    BY <1>1
  <2>3. \A i \in DOMAIN list : list[i].port # c.port
    BY <1>1, <1>4 DEF expect_clash
  <2> HIDE DEF new
  <2> QED
    BY <2>1, <2>2, <2>3 DEF e
<1> QED
  BY <1>3, <1>4

\* The fields of the entries.
LEMMA ListTypes ==
    ASSUME expects \in Seq(Expect)
    PROVE  /\ DOMAIN expects \subseteq Nat
           /\ \A i \in DOMAIN expects : /\ expects[i].port \in Port
                                        /\ expects[i].lan \in Lan
                                        /\ expects[i].remote \in Remote
<1>1. DOMAIN expects \subseteq Nat /\ \A i \in DOMAIN expects : expects[i] \in Expect
  OBVIOUS
<1>2. \A e \in Expect : e.port \in Port /\ e.lan \in Lan /\ e.remote \in Remote
  BY DEF Expect
<1> QED
  BY <1>1, <1>2

-----------------------------------------------------------------------------
(* The search for a port. *)

\* The counter stays within the word and passes every port.
LEMMA NthPorts ==
    ASSUME NEW lan \in Lan
    PROVE  /\ \A k \in Port : Nth(lan, k) \in Port
           /\ \A p \in Port : \E k \in Port : Nth(lan, k) = p
<1> DEFINE s == SrcPort[lan]
<1>1. PortSize \in Nat /\ PortSize > 0 /\ s \in Nat /\ s < PortSize
  BY ConeNatAssumption DEF ConeNatAssumption
<1> HIDE DEF s
<1>2. \A k \in Port : Nth(lan, k) \in Port
  BY <1>1 DEF Nth, Port, s
<1>3. ASSUME NEW p \in Port PROVE \E k \in Port : Nth(lan, k) = p
  <2>1. CASE p >= s
    <3>1. p - s \in Port /\ s + (p - s) = p
      BY <1>1, <2>1 DEF Port
    <3>2. p % PortSize = p
      BY <1>1 DEF Port
    <3> QED
      BY <3>1, <3>2 DEF Nth, s
  <2>2. CASE p < s
    <3> DEFINE k == p + PortSize - s
    <3>1. k \in Port /\ s + k = p + PortSize
      BY <1>1, <2>2 DEF Port
    <3>2. (p + PortSize) % PortSize = p
      BY <1>1 DEF Port
    <3>3. Nth(lan, k) = p
      BY <3>1, <3>2 DEF Nth, s
    <3> QED
      BY <3>1, <3>3
  <2> QED
    BY <1>1, <2>1, <2>2 DEF Port
<1> QED
  BY <1>2, <1>3

\* An endpoint without an expectation finds a port that nobody is expected on: the
\* others have at most one expectation for each remote, and there are more ports.
LEMMA SomePortFree ==
    ASSUME TypeOK, ExpectedOnce, NEW lan \in Lan,
           \A i \in DOMAIN expects : expects[i].lan # lan
    PROVE  \E k \in Port : \A i \in DOMAIN expects : expects[i].port # Nth(lan, k)
<1> SUFFICES ASSUME \A k \in Port : \E i \in DOMAIN expects : expects[i].port = Nth(lan, k)
             PROVE  FALSE
  OBVIOUS
<1>1. \A p \in Port : \E i \in DOMAIN expects : expects[i].port = p
  BY NthPorts
<1> DEFINE at == [p \in Port |-> CHOOSE i \in DOMAIN expects : expects[i].port = p]
           others == (Lan \ {lan}) \X Remote
           f == [p \in Port |-> <<expects[at[p]].lan, expects[at[p]].remote>>]
<1>2. \A p \in Port : at[p] \in DOMAIN expects /\ expects[at[p]].port = p
  BY <1>1
<1> HIDE DEF at
<1>3. \A i \in DOMAIN expects : expects[i].lan \in Lan \ {lan} /\ expects[i].remote \in Remote
  BY ListTypes DEF TypeOK
<1>4. f \in [Port -> others]
  BY <1>2, <1>3
<1>5. \A p, q \in Port : f[p] = f[q] => p = q
  BY <1>2 DEF ExpectedOnce
<1>6. IsFiniteSet(Port) /\ Cardinality(Port) = PortSize
  <2>1. PortSize \in Nat /\ PortSize > 0
    BY ConeNatAssumption DEF ConeNatAssumption
  <2>2. IsFiniteSet(0 .. PortSize - 1) /\ Cardinality(0 .. PortSize - 1) = PortSize
    BY <2>1, FS_Interval
  <2> QED
    BY <2>2 DEF Port
<1>7. IsFiniteSet(others) /\ Cardinality(others) < Cardinality(Port)
  <2>1. IsFiniteSet(Lan) /\ IsFiniteSet(Remote)
    BY ConeNatAssumption DEF ConeNatAssumption
  <2>2. IsFiniteSet(Lan \ {lan}) /\ Cardinality(Lan \ {lan}) = Cardinality(Lan) - 1
    BY <2>1, FS_RemoveElement
  <2>3. /\ IsFiniteSet(others)
        /\ Cardinality(others) = Cardinality(Lan \ {lan}) * Cardinality(Remote)
    BY <2>1, <2>2, FS_Product
  <2>4. (Cardinality(Lan) - 1) * Cardinality(Remote) < PortSize
    BY ConeNatAssumption DEF ConeNatAssumption
  <2> QED
    BY <1>6, <2>2, <2>3, <2>4
<1> HIDE DEF f, others
<1>8. \E p, q \in Port : p # q /\ f[p] = f[q]
  BY <1>4, <1>6, <1>7, FS_PigeonHole
<1> QED
  BY <1>5, <1>8

\* The search ends at a port that nobody is expected on.
LEMMA SearchEnds ==
    ASSUME TypeOK, ExpectedOnce, NEW lan \in Lan,
           \A i \in DOMAIN expects : expects[i].lan # lan
    PROVE  /\ FirstFree(lan) \in Port
           /\ \A i \in DOMAIN expects : expects[i].port # FirstFree(lan)
<1> DEFINE Free(k) == \A i \in DOMAIN expects : ~exp_cmp(expects[i], Nth(lan, k))
           first == CHOOSE k \in Port : Free(k) /\ \A j \in 0 .. k - 1 : ~Free(j)
           S == {k \in Port : Free(k)}
<1>1. FirstFree(lan) = Nth(lan, first)
  BY DEF FirstFree
<1>2. S # {}
  BY SomePortFree DEF exp_cmp
<1>3. Port \subseteq Nat /\ \A k \in Port : 0 .. k - 1 \subseteq Port /\ \A j \in 0 .. k - 1 : j < k
  BY ConeNatAssumption DEF ConeNatAssumption, Port
<1>4. \E k \in Port : Free(k) /\ \A j \in 0 .. k - 1 : ~Free(j)
  <2>1. S \in SUBSET Nat
    BY <1>3
  <2>2. PICK k \in S : \A j \in S : k <= j
    <3> HIDE DEF S
    <3> QED
      BY <1>2, <2>1, LeastNatural
  <2> HIDE DEF Free
  <2>3. \A j \in 0 .. k - 1 : ~Free(j)
    <3> SUFFICES ASSUME NEW j \in 0 .. k - 1, Free(j) PROVE FALSE
      OBVIOUS
    <3>1. j \in S /\ j < k /\ j \in Nat /\ k \in Nat
      BY <1>3
    <3> QED
      BY <2>2, <3>1
  <2> QED
    BY <2>3
<1>5. first \in Port /\ Free(first)
  <2> HIDE DEF Free
  <2> QED
    BY <1>4
<1> HIDE DEF first
<1> QED
  BY <1>1, <1>5, NthPorts DEF exp_cmp

\* conenat_target returns a port that is expected for the endpoint, or, if none is,
\* one that is expected for nobody.
LEMMA TargetPort ==
    ASSUME TypeOK, ExpectedOnce, NEW lan \in Lan
    PROVE  /\ conenat_target(lan) \in Port
           /\ \/ \E i \in DOMAIN expects :
                     expects[i].lan = lan /\ expects[i].port = conenat_target(lan)
              \/ \A i \in DOMAIN expects :
                     expects[i].lan # lan /\ expects[i].port # conenat_target(lan)
<1> DEFINE own == {i \in DOMAIN expects : exp_src_cmp(expects[i], lan)}
<1>1. conenat_target(lan) = IF own # {} THEN expects[Min(own)].port ELSE FirstFree(lan)
  BY DEF conenat_target
<1>2. DOMAIN expects \subseteq Nat /\ \A i \in DOMAIN expects : expects[i].port \in Port
  BY ListTypes DEF TypeOK
<1>3. CASE own # {}
  <2>1. Min(own) \in own
    <3>1. own \in SUBSET Nat
      BY <1>2
    <3> HIDE DEF own
    <3> QED
      BY <1>3, <3>1, FirstOfList
  <2>2. Min(own) \in DOMAIN expects /\ expects[Min(own)].lan = lan
    BY <2>1 DEF exp_src_cmp
  <2> HIDE DEF own
  <2> QED
    BY <1>1, <1>2, <1>3, <2>2
<1>4. CASE own = {}
  <2>1. \A i \in DOMAIN expects : expects[i].lan # lan
    BY <1>4 DEF exp_src_cmp
  <2>2. conenat_target(lan) = FirstFree(lan)
    BY <1>1, <1>4
  <2> QED
    BY <2>1, <2>2, SearchEnds
<1> QED
  BY <1>3, <1>4

-----------------------------------------------------------------------------
(* Conversations and expectations together. *)

\* An endpoint that opens a conversation sees the remote as it is.
SelfFaced == \A c \in conns : c.dir = "out" => c.face = c.remote

Cone == TypeOK /\ SelfFaced /\ ExpectationsBacked /\ ExpectedOnce

ConeInv == IInv /\ Cone

\* The entries that are left of a list keep their ports and masters apart.
LEMMA ThinnedOnce ==
    ASSUME ExpectedOnce, NEW kept \in SUBSET DOMAIN expects,
           Thinned(expects', expects, kept)
    PROVE  ExpectedOnce'
<1>1. PICK f \in [DOMAIN expects' -> kept] :
          /\ \A i, j \in DOMAIN expects' : f[i] = f[j] => i = j
          /\ \A i \in DOMAIN expects' : expects'[i] = expects[f[i]]
  BY DEF Thinned
<1> SUFFICES ASSUME NEW i \in DOMAIN expects', NEW j \in DOMAIN expects',
                    \/ expects'[i].port = expects'[j].port
                    \/ /\ expects'[i].lan = expects'[j].lan
                       /\ expects'[i].remote = expects'[j].remote
             PROVE  i = j
  BY Zenon DEF ExpectedOnce
<1>2. f[i] \in DOMAIN expects /\ f[j] \in DOMAIN expects
  OBVIOUS
<1>3. f[i] = f[j]
  BY <1>1, <1>2 DEF ExpectedOnce
<1> QED
  BY <1>1, <1>3

\* Entries stay backed if the conversations that back those that are left stay.
LEMMA ThinnedBacked ==
    ASSUME ExpectationsBacked, NEW kept \in SUBSET DOMAIN expects,
           Thinned(expects', expects, kept),
           \A i \in kept : \A c \in conns : Masters(expects[i], c) => c \in conns'
    PROVE  ExpectationsBacked'
<1> SUFFICES ASSUME NEW i \in DOMAIN expects'
             PROVE  \E c \in conns' : Masters(expects'[i], c) /\ c.port = expects'[i].port
  BY Zenon DEF ExpectationsBacked, Masters, LanSide
<1>1. PICK k \in kept : expects'[i] = expects[k]
  BY DEF Thinned
<1>2. PICK c \in conns : Masters(expects[k], c) /\ c.port = expects[k].port
  BY DEF ExpectationsBacked
<1>3. c \in conns'
  BY <1>2
<1> QED
  BY <1>1, <1>2, <1>3

\* The end of conversations takes their expectations along.
LEMMA ForgetCone ==
    ASSUME Cone, NEW gone, conns' = conns \ gone,
           expects' = remove_expectations(expects, gone)
    PROVE  Cone'
<1> DEFINE kept == {i \in DOMAIN expects : \A c \in gone : ~Masters(expects[i], c)}
<1>1. expects' \in Seq(Expect) /\ Thinned(expects', expects, kept)
  BY RemoveThins DEF Cone, TypeOK
<1>2. kept \in SUBSET DOMAIN expects
  OBVIOUS
<1>3. \A i \in kept : \A c \in conns : Masters(expects[i], c) => c \in conns'
  OBVIOUS
<1> HIDE DEF kept
<1>4. TypeOK'
  BY <1>1 DEF Cone, TypeOK, Conn, Expect, Port
<1>5. SelfFaced'
  BY DEF Cone, SelfFaced
<1>6. ExpectationsBacked' /\ ExpectedOnce'
  BY <1>1, <1>2, <1>3, ThinnedBacked, ThinnedOnce DEF Cone
<1> QED
  BY <1>4, <1>5, <1>6 DEF Cone

\* The timer of an expectation leaves the conversations alone.
LEMMA ExpectTimeoutCone ==
    ASSUME Cone, NEW i \in DOMAIN expects, ExpectTimeout(i)
    PROVE  Cone'
<1>1. expects' \in Seq(Expect) /\ Thinned(expects', expects, DOMAIN expects)
  BY RemoveAtThins DEF Cone, TypeOK, ExpectTimeout
<1>2. conns' = conns
  BY DEF ExpectTimeout
<1>3. TypeOK'
  BY <1>1, <1>2 DEF Cone, TypeOK, Conn, Expect, Port
<1>4. SelfFaced'
  BY <1>2 DEF Cone, SelfFaced
<1>5. ExpectationsBacked' /\ ExpectedOnce'
  BY <1>1, <1>2, ThinnedBacked, ThinnedOnce DEF Cone
<1> QED
  BY <1>3, <1>4, <1>5 DEF Cone

\* What help2 makes of the list for an outgoing conversation that is, or is about to
\* be, the only one with its tuple.
LEMMA Help2Cone ==
    ASSUME expects \in Seq(Expect), ExpectationsBacked, ExpectedOnce,
           NEW c \in conns', c \in Conn, c.dir = "out", c.face = c.remote,
           conns \subseteq conns',
           \A d \in conns : LanSide(d) = LanSide(c) => d = c,
           expects' = atp_nat_help2(expects, c)
    PROVE  expects' \in Seq(Expect) /\ ExpectationsBacked' /\ ExpectedOnce'
<1> DEFINE e == [port |-> c.port, lan |-> c.lan, remote |-> c.remote]
<1>1. c.port \in Port /\ c.lan \in Lan /\ c.remote \in Remote
  BY DEF Conn
<1>2. \/ expects' = expects
      \/ /\ expects' \in Seq(Expect)
         /\ \A i \in DOMAIN expects : expects[i].port # c.port
         /\ \A i \in DOMAIN expects' :
               \/ i = 1 /\ expects'[i] = e
               \/ i - 1 \in DOMAIN expects /\ expects'[i] = expects[i - 1]
  BY <1>1, Help2List
<1>3. CASE expects' = expects
  <2>1. ExpectationsBacked'
    BY <1>3 DEF ExpectationsBacked, Masters, LanSide
  <2>2. ExpectedOnce'
    BY <1>3 DEF ExpectedOnce
  <2> QED
    BY <1>3, <2>1, <2>2
<1>4. CASE /\ expects' \in Seq(Expect)
           /\ \A i \in DOMAIN expects : expects[i].port # c.port
           /\ \A i \in DOMAIN expects' :
                 \/ i = 1 /\ expects'[i] = e
                 \/ i - 1 \in DOMAIN expects /\ expects'[i] = expects[i - 1]
  <2>1. e.port = c.port /\ e.lan = c.lan /\ e.remote = c.remote /\ Masters(e, c)
    BY DEF Masters, LanSide
  <2> HIDE DEF e
  <2>2. ExpectationsBacked'
    <3> SUFFICES ASSUME NEW i \in DOMAIN expects'
                 PROVE  \E d \in conns' : Masters(expects'[i], d) /\ d.port = expects'[i].port
      BY Zenon DEF ExpectationsBacked, Masters, LanSide
    <3>1. CASE i = 1 /\ expects'[i] = e
      BY <2>1, <3>1
    <3>2. CASE i - 1 \in DOMAIN expects /\ expects'[i] = expects[i - 1]
      <4>1. PICK d \in conns : Masters(expects[i - 1], d) /\ d.port = expects[i - 1].port
        BY <3>2 DEF ExpectationsBacked
      <4> QED
        BY <3>2, <4>1
    <3> QED
      BY <1>4, <3>1, <3>2
  <2>3. ASSUME NEW k \in DOMAIN expects
        PROVE  /\ expects[k].port # e.port
               /\ ~(expects[k].lan = e.lan /\ expects[k].remote = e.remote)
    <3>1. expects[k].port # e.port
      BY <1>4, <2>1
    <3>2. PICK d \in conns : Masters(expects[k], d) /\ d.port = expects[k].port
      BY DEF ExpectationsBacked
    <3>3. ASSUME expects[k].lan = e.lan /\ expects[k].remote = e.remote PROVE FALSE
      <4>1. LanSide(d) = LanSide(c)
        BY <2>1, <3>2, <3>3 DEF Masters, LanSide
      <4>2. d = c
        BY <4>1
      <4> QED
        BY <2>1, <3>1, <3>2, <4>2
    <3> QED
      BY <3>1, <3>3
  <2>4. ExpectedOnce'
    <3> SUFFICES ASSUME NEW i \in DOMAIN expects', NEW j \in DOMAIN expects',
                        \/ expects'[i].port = expects'[j].port
                        \/ /\ expects'[i].lan = expects'[j].lan
                           /\ expects'[i].remote = expects'[j].remote
                 PROVE  i = j
      BY Zenon DEF ExpectedOnce
    <3>1. i \in Int /\ j \in Int
      BY <1>4
    <3>2. CASE i = 1 /\ expects'[i] = e
      BY <1>4, <2>3, <3>1, <3>2
    <3>3. CASE j = 1 /\ expects'[j] = e
      BY <1>4, <2>3, <3>1, <3>3
    <3>4. CASE /\ i - 1 \in DOMAIN expects /\ expects'[i] = expects[i - 1]
               /\ j - 1 \in DOMAIN expects /\ expects'[j] = expects[j - 1]
      <4>1. i - 1 = j - 1
        BY <3>4 DEF ExpectedOnce
      <4> QED
        BY <3>1, <4>1
    <3> QED
      BY <1>4, <3>2, <3>3, <3>4
  <2> QED
    BY <1>4, <2>2, <2>4
<1> QED
  BY <1>2, <1>3, <1>4

\* The first packet of a conversation: help2 finds no expectation of the endpoint for
\* the remote, because one would be backed by a conversation with the same tuple.
LEMMA SendNewCone ==
    ASSUME Cone, NEW lan \in Lan, NEW r \in Remote, SendNew(lan, r)
    PROVE  Cone'
<1> DEFINE c == [dir |-> "out", lan |-> lan, face |-> r, remote |-> r,
                 port |-> conenat_target(lan), seen |-> FALSE]
<1>1. Confirmable(c) /\ conns' = conns \cup {c} /\ expects' = atp_nat_help2(expects, c)
  BY DEF SendNew
<1>2. c \in Conn /\ c.dir = "out" /\ c.face = c.remote
  <2>1. conenat_target(lan) \in Port
    BY TargetPort DEF Cone
  <2> QED
    BY <2>1 DEF Conn
<1> HIDE DEF c
<1>3. \A d \in conns : LanSide(d) = LanSide(c) => d = c
  BY <1>1 DEF Confirmable
<1>4. expects' \in Seq(Expect) /\ ExpectationsBacked' /\ ExpectedOnce'
  BY <1>1, <1>2, <1>3, Help2Cone DEF Cone, TypeOK
<1>5. TypeOK'
  BY <1>1, <1>2, <1>4 DEF Cone, TypeOK, Conn, Expect, Port
<1>6. SelfFaced'
  BY <1>1, <1>2 DEF Cone, SelfFaced
<1> QED
  BY <1>4, <1>5, <1>6 DEF Cone

\* A further packet before the answer: if the conversation still has its expectation the
\* port clashes, so that help2 makes no second one.
LEMMA SendAgainCone ==
    ASSUME ConeInv, NEW c \in conns, SendAgain(c)
    PROVE  Cone'
<1>1. conns' = conns /\ expects' = atp_nat_help2(expects, c) /\ c.dir = "out"
  BY DEF SendAgain
<1>2. c \in Conn /\ c.face = c.remote
  BY <1>1 DEF ConeInv, Cone, TypeOK, SelfFaced
<1>3. \A d \in conns : LanSide(d) = LanSide(c) => d = c
  BY DEF ConeInv, IInv, Unambiguous
<1>4. expects' \in Seq(Expect) /\ ExpectationsBacked' /\ ExpectedOnce'
  BY <1>1, <1>2, <1>3, Help2Cone DEF ConeInv, Cone, TypeOK
<1>5. TypeOK'
  BY <1>1, <1>4 DEF ConeInv, Cone, TypeOK, Conn, Expect, Port
<1>6. SelfFaced'
  BY <1>1 DEF ConeInv, Cone, SelfFaced
<1> QED
  BY <1>4, <1>5, <1>6 DEF Cone

\* A conversation that has been answered backs what it backed before.
LEMMA ReplyCone ==
    ASSUME ConeInv, NEW c \in conns, Reply(c)
    PROVE  Cone'
<1> DEFINE a == [c EXCEPT !.seen = TRUE]
<1>1. conns' = (conns \ {c}) \cup {a} /\ expects' = expects
  BY DEF Reply
<1>2. c \in Conn
  BY DEF ConeInv, Cone, TypeOK
<1>3. /\ a \in Conn /\ a.dir = c.dir /\ a.lan = c.lan /\ a.face = c.face
      /\ a.remote = c.remote /\ a.port = c.port
  BY <1>2 DEF Conn
<1> HIDE DEF a
<1>4. TypeOK'
  BY <1>1, <1>3 DEF ConeInv, Cone, TypeOK, Conn, Expect, Port
<1>5. SelfFaced'
  BY <1>1, <1>3 DEF ConeInv, Cone, SelfFaced
<1>6. ExpectationsBacked'
  <2> SUFFICES ASSUME NEW i \in DOMAIN expects
               PROVE  \E d \in conns' : Masters(expects[i], d) /\ d.port = expects[i].port
    BY <1>1, Zenon DEF ExpectationsBacked, Masters, LanSide
  <2>1. PICK d \in conns : Masters(expects[i], d) /\ d.port = expects[i].port
    BY DEF ConeInv, Cone, ExpectationsBacked
  <2>2. CASE d = c
    BY <1>1, <1>3, <2>1, <2>2 DEF Masters, LanSide
  <2>3. CASE d # c
    BY <1>1, <2>1, <2>3
  <2> QED
    BY <2>2, <2>3
<1>7. ExpectedOnce'
  BY <1>1 DEF ConeInv, Cone, ExpectedOnce
<1> QED
  BY <1>4, <1>5, <1>6, <1>7 DEF Cone

\* A stranger's conversation touches no expectation.
LEMMA UnsolicitedCone ==
    ASSUME Cone, NEW r \in Remote, NEW port \in Port, Unsolicited(r, port)
    PROVE  Cone'
<1> DEFINE lan == expects[Min(find_expectation(port))].lan
           conn(f) == [dir |-> "in", lan |-> lan, face |-> f, remote |-> r,
                       port |-> port, seen |-> FALSE]
<1>1. lan \in Lan
  <2>1. find_expectation(port) \in SUBSET DOMAIN expects /\ find_expectation(port) # {}
    BY DEF Unsolicited, find_expectation
  <2>2. Min(find_expectation(port)) \in find_expectation(port)
    BY <2>1, ListTypes, FirstOfList DEF Cone, TypeOK
  <2> QED
    BY <2>1, <2>2, ListTypes DEF Cone, TypeOK
<1>2. PICK f \in Faces(lan, r) : conns' = conns \cup {conn(f)}
  BY DEF Unsolicited
<1>3. f \in Remote
  BY <1>2 DEF Faces
<1> HIDE DEF lan
<1>4. conn(f) \in Conn /\ conn(f).dir = "in"
  BY <1>1, <1>3 DEF Conn
<1>5. expects' = expects
  BY DEF Unsolicited
<1> HIDE DEF conn
<1>6. TypeOK'
  BY <1>2, <1>4, <1>5 DEF Cone, TypeOK, Conn, Expect, Port
<1>7. SelfFaced'
  BY <1>2, <1>4 DEF Cone, SelfFaced
<1>8. ExpectationsBacked'
  BY <1>2, <1>5 DEF Cone, ExpectationsBacked, Masters, LanSide
<1>9. ExpectedOnce'
  BY <1>5 DEF Cone, ExpectedOnce
<1> QED
  BY <1>6, <1>7, <1>8, <1>9 DEF Cone

\* Conversations, expectations and ports stay consistent in every step.
LEMMA StepCone == ConeInv /\ [Next]_vars => ConeInv'
<1> SUFFICES ASSUME ConeInv, [Next]_vars PROVE ConeInv'
  OBVIOUS
<1> USE DEF ConeInv
<1>1. CASE \E lan \in Lan, r \in Remote : SendNew(lan, r)
  BY <1>1, StepInv, SendNewCone
<1>2. CASE \E c \in conns : SendAgain(c)
  BY <1>2, StepInv, SendAgainCone
<1>3. CASE \E c \in conns : Reply(c)
  BY <1>3, StepInv, ReplyCone
<1>4. CASE \E r \in Remote, port \in Port : Unsolicited(r, port)
  BY <1>4, StepInv, UnsolicitedCone
<1>5. CASE \E c \in conns : ConnTimeout(c)
  BY <1>5, StepInv, ForgetCone DEF ConnTimeout
<1>6. CASE \E i \in DOMAIN expects : ExpectTimeout(i)
  BY <1>6, StepInv, ExpectTimeoutCone
<1>7. CASE InterfaceEvent
  BY <1>7, StepInv, ForgetCone DEF InterfaceEvent
<1>8. CASE UNCHANGED vars
  <2>1. conns' = conns /\ expects' = expects
    BY <1>8 DEF vars
  <2>2. TypeOK' /\ SelfFaced' /\ ExpectedOnce'
    BY <2>1 DEF Cone, TypeOK, SelfFaced, ExpectedOnce, Conn, Expect, Port
  <2>3. ExpectationsBacked'
    BY <2>1 DEF Cone, ExpectationsBacked, Masters, LanSide
  <2> QED
    BY <2>2, <2>3, StepInv DEF Cone
<1> QED
  BY <1>1, <1>2, <1>3, <1>4, <1>5, <1>6, <1>7, <1>8 DEF Next

\* The tables start empty.
LEMMA InitCone == Init => ConeInv
<1> SUFFICES ASSUME Init PROVE ConeInv
  OBVIOUS
<1>1. IInv
  BY DEF Init, IInv, Shaped, Unambiguous
<1>2. TypeOK /\ SelfFaced
  BY DEF Init, TypeOK, SelfFaced
<1>3. DOMAIN expects = {}
  BY DEF Init
<1>4. ExpectationsBacked /\ ExpectedOnce
  BY <1>3 DEF ExpectationsBacked, ExpectedOnce
<1> QED
  BY <1>1, <1>2, <1>4 DEF ConeInv, Cone

-----------------------------------------------------------------------------
\* Conversations and expectations keep their types: the counter of the port search
\* stays within the word and the search always ends at a port.
THEOREM ConeTypes == Spec => []TypeOK
<1>1. ConeInv => TypeOK
  BY DEF ConeInv, Cone
<1> QED
  BY <1>1, InitCone, StepCone, PTL DEF Spec

\* Whatever help2, replies, timers and interface events do, an expectation that
\* find_expectation can hit has a confirmed master that uses its port.
THEOREM MastersLive == Spec => []ExpectationsBacked
<1>1. ConeInv => ExpectationsBacked
  BY DEF ConeInv, Cone
<1> QED
  BY <1>1, InitCone, StepCone, PTL DEF Spec

\* However often help2 runs for a conversation, it makes one expectation, and a port
\* is expected for one endpoint.
THEOREM ExpectationsUnique == Spec => []ExpectedOnce
<1>1. ConeInv => ExpectedOnce
  BY DEF ConeInv, Cone
<1> QED
  BY <1>1, InitCone, StepCone, PTL DEF Spec

\* One step of the cone: what conenat_target chooses is an expected port of the
\* endpoint's own, or, if it has none, nobody's.
LEMMA StepBound ==
    ASSUME ConeInv, [Next]_vars, NEW c \in conns' \ conns, c.dir = "out", ~c.seen
    PROVE  LET of(lan) == {expects[i].port : i \in {i \in DOMAIN expects : expects[i].lan = lan}}
           IN  /\ of(c.lan) # {} => c.port \in of(c.lan)
               /\ \A l \in Lan \ {c.lan} : c.port \notin of(l)
<1> DEFINE of(lan) == {expects[i].port : i \in {i \in DOMAIN expects : expects[i].lan = lan}}
<1>1. \E lan \in Lan, r \in Remote : SendNew(lan, r)
  <2>1. CASE \E d \in conns : Reply(d)
    <3>1. PICK d \in conns : Reply(d)
      BY <2>1
    <3>2. c = [d EXCEPT !.seen = TRUE]
      BY <3>1 DEF Reply
    <3>3. d \in Conn
      BY DEF ConeInv, Cone, TypeOK
    <3>4. c.seen
      BY <3>2, <3>3 DEF Conn
    <3> QED
      BY <3>4
  <2>2. CASE \E r \in Remote, port \in Port : Unsolicited(r, port)
    <3>1. PICK r \in Remote, port \in Port : Unsolicited(r, port)
      BY <2>2
    <3>2. c.dir = "in"
      BY <3>1 DEF Unsolicited
    <3> QED
      BY <3>2
  <2>3. CASE \/ \E d \in conns : SendAgain(d)
             \/ \E d \in conns : ConnTimeout(d)
             \/ \E i \in DOMAIN expects : ExpectTimeout(i)
             \/ InterfaceEvent
             \/ UNCHANGED vars
    <3>1. conns' \subseteq conns
      BY <2>3 DEF SendAgain, ConnTimeout, ExpectTimeout, InterfaceEvent, vars
    <3> QED
      BY <3>1
  <2> QED
    BY <2>1, <2>2, <2>3 DEF Next
<1>2. PICK lan \in Lan, r \in Remote : SendNew(lan, r)
  BY <1>1
<1>3. c.lan = lan /\ c.port = conenat_target(lan)
  BY <1>2 DEF SendNew
<1>4. \/ \E i \in DOMAIN expects : expects[i].lan = lan /\ expects[i].port = c.port
      \/ \A i \in DOMAIN expects : expects[i].lan # lan /\ expects[i].port # c.port
  BY <1>3, TargetPort DEF ConeInv, Cone
<1>5. of(c.lan) # {} => c.port \in of(c.lan)
  BY <1>3, <1>4
<1>6. ASSUME NEW l \in Lan \ {c.lan}, c.port \in of(l) PROVE FALSE
  <2>1. PICK j \in DOMAIN expects : expects[j].lan = l /\ expects[j].port = c.port
    BY <1>6
  <2>2. PICK i \in DOMAIN expects : expects[i].lan = lan /\ expects[i].port = c.port
    BY <1>4, <2>1
  <2>3. i = j
    BY <2>1, <2>2 DEF ConeInv, Cone, ExpectedOnce
  <2> QED
    BY <1>3, <2>1, <2>2, <2>3
<1> QED
  BY <1>5, <1>6

\* While an expectation of an endpoint stands, its new conversations leave from an
\* expected port of its own, and nobody's leave from a port expected for another.
THEOREM ConeHolds == Spec => BoundWhileExpected
<1> DEFINE Step ==
      \A c \in conns' \ conns :
          LET of(lan) == {expects[i].port : i \in {i \in DOMAIN expects : expects[i].lan = lan}}
          IN  (c.dir = "out" /\ ~c.seen) =>
                 /\ of(c.lan) # {} => c.port \in of(c.lan)
                 /\ \A l \in Lan \ {c.lan} : c.port \notin of(l)
<1>1. ConeInv /\ [Next]_vars => [Step]_vars
  BY StepBound
<1>2. BoundWhileExpected <=> [][Step]_vars
  BY DEF BoundWhileExpected
<1> HIDE DEF Step
<1> QED
  BY <1>1, <1>2, InitCone, StepCone, PTL DEF Spec
=============================================================================
